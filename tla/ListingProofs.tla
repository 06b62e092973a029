--------------------------- MODULE ListingProofs ---------------------------
(***************************************************************************)
(* Proofs about what Availability lists and Agenda shows, from the         *)
(* invariant of StaffCalendarProofs.                                       *)
(***************************************************************************)
EXTENDS Availability, Agenda, StaffCalendarProofs

-----------------------------------------------------------------------------
(* The two checks                                                          *)

\* commerce looks at all that scheduling looks at.
LEMMA FreeIsAvailable ==
  ASSUME NEW s, NEW slot, IsStaffFreeAt(s, slot), NEW days, NEW excluded
  PROVE  IsStaffAvailable(s, slot, LoadOrderSlots(days, excluded))
  BY DEF IsStaffFreeAt, IsStaffAvailable, LoadOrderSlots

LEMMA LoadOrderSlotsOfDay ==
  ASSUME NEW days, NEW p \in Orders, IsActive(p), Day(booking[p].from) \in days
  PROVE  p \in LoadOrderSlots(days, Nobody)
  BY NoOrderAssumption DEF LoadOrderSlots

LEMMA StaffTypes ==
  ASSUME NEW v \in Services, NEW s \in Qualified[v] 
  PROVE  s \in Staff /\ s # Nobody
  BY QualifiedAssumption, NobodyAssumption

\* A slot that is listed lies within the hours of somebody in the pool, on one
\* of the days asked for.
LEMMA ListedFacts ==
  ASSUME NEW l \in Listed
  PROVE  \E days \in Ranges :
           /\ l.service \in Services /\ l.staff \in Qualified[l.service] \cup {AnyFree}
           /\ l.slot.from \in Nat /\ l.slot = Slot(l.slot.from, l.service)
           /\ l.slot.to \in Nat /\ l.slot.from < l.slot.to
           /\ InOneBlock(l.slot) /\ Day(l.slot.from) \in days
           /\ l.available <=> \E s \in ResolveStaffPool(l.service, l.staff) :
                IsStaffAvailable(s, l.slot, LoadOrderSlots(days, Nobody))
  <1>1. PICK service \in Services :
          l \in UNION {{[service |-> service, staff |-> asked, slot |-> m.slot, available |-> m.available] :
                   m \in UNION {ComputeBookingSlots(service, asked, days) : days \in Ranges}} :
                  asked \in Qualified[service] \cup {AnyFree}}
    BY DEF Listed
  <1>2. PICK asked \in Qualified[service] \cup {AnyFree} :
          l \in {[service |-> service, staff |-> asked, slot |-> m.slot, available |-> m.available] :
                   m \in UNION {ComputeBookingSlots(service, asked, days) : days \in Ranges}}
    BY <1>1
  <1>3. PICK days \in Ranges : \E m \in ComputeBookingSlots(service, asked, days) :
          l = [service |-> service, staff |-> asked, slot |-> m.slot, available |-> m.available]
    BY <1>2
  <1>4. PICK m \in ComputeBookingSlots(service, asked, days) :
          l = [service |-> service, staff |-> asked, slot |-> m.slot, available |-> m.available]
    BY <1>3
  <1>5. l.service = service /\ l.staff = asked /\ l.slot = m.slot /\ l.available = m.available
    BY <1>4
  <1> DEFINE pool == ResolveStaffPool(service, asked)
             loaded == LoadOrderSlots(days, Nobody)
  <1>6. PICK day \in days : m \in ListedSlots(pool, day, service, loaded)
    BY DEF ComputeBookingSlots
  <1> HIDE DEF pool, loaded
  <1>7. PICK t \in GenerateSlotStarts(pool, day, service) :
          m = [slot |-> Slot(t, service),
               available |-> \E s \in pool : IsStaffAvailable(s, Slot(t, service), loaded)]
    BY <1>6 DEF ListedSlots
  <1>8. /\ m.slot = Slot(t, service)
        /\ m.available = \E s \in pool : IsStaffAvailable(s, Slot(t, service), loaded)
    BY <1>7
  <1>9. PICK b \in Blocks : Day(b.from) = day /\ t \in b.from..(b.to - Duration[service])
    BY <1>7 DEF GenerateSlotStarts
  <1>10. b.from \in Nat /\ b.to \in Nat /\ Duration[service] \in Nat \ {0}
    BY BlocksAssumption, DurationAssumption
  <1>11. t \in Nat /\ b.from <= t /\ t + Duration[service] <= b.to
    BY <1>9, <1>10
  <1>12. Slot(t, service).from = t /\ Slot(t, service).to = t + Duration[service]
    BY DEF Slot
  <1>13. InOneBlock(Slot(t, service))
    BY <1>11, <1>12 DEF InOneBlock
  <1>14. Day(t) = day
    BY <1>9, <1>10, <1>11, BlockDay
  <1>15. t + Duration[service] \in Nat /\ t < t + Duration[service]
    BY <1>10, <1>11
  <1> QED BY <1>2, <1>5, <1>8, <1>11, <1>12, <1>13, <1>14, <1>15 DEF pool, loaded
\* A cart of one service is accepted when somebody in the listing's pool is free.
LEMMA CanBookMeans ==
  ASSUME NEW l, l.service \in Services, l.staff \in Qualified[l.service] \cup {AnyFree}
  PROVE  CanBook(l) <=> \E s \in ResolveStaffPool(l.service, l.staff) : IsStaffFreeAt(s, l.slot)
  <1> DEFINE line == [service |-> l.service, staff |-> l.staff, kind |-> "service"]
  <1>1. line.service = l.service /\ line.staff = l.staff
    OBVIOUS
  <1>2. Qualified[l.service] \subseteq Staff /\ AnyFree \notin Staff
    BY QualifiedAssumption, NobodyAssumption
  <1>3. l.staff # Nobody
    BY <1>2, NobodyAssumption
  <1>4. StaffFor(line, l.slot) =
          {s \in Qualified[l.service] : l.staff \in {s, AnyFree} /\ IsStaffFreeAt(s, l.slot)}
    BY <1>1, <1>3 DEF StaffFor
  <1>5. ResolveStaffPool(l.service, l.staff) =
          {s \in Qualified[l.service] : l.staff \in {s, AnyFree}}
    BY <1>2 DEF ResolveStaffPool
  <1> QED BY <1>4, <1>5 DEF CanBook

\* A booking that would be accepted at a listed start was listed as free.
THEOREM FreeIsListedAlways == Spec => []FreeIsListed
  <1>1. FreeIsListed
    <2> SUFFICES ASSUME NEW l \in Listed, CanBook(l)
                 PROVE  l.available
      BY DEF FreeIsListed
    <2>1. PICK days \in Ranges :
            /\ l.service \in Services /\ l.staff \in Qualified[l.service] \cup {AnyFree}
            /\ l.available <=> \E s \in ResolveStaffPool(l.service, l.staff) :
                 IsStaffAvailable(s, l.slot, LoadOrderSlots(days, Nobody))
      BY ListedFacts
    <2>2. PICK s \in ResolveStaffPool(l.service, l.staff) : IsStaffFreeAt(s, l.slot)
      BY <2>1, CanBookMeans
    <2> QED BY <2>1, <2>2, FreeIsAvailable
  <1> QED BY <1>1, PTL

-----------------------------------------------------------------------------
(* Orders of one service                                                   *)

\* Until it is moved, the staff of such an order have it within their hours,
\* and so within a day.
LEMMA SingleRow ==
  ASSUME IInv, NEW p \in Orders \ strayed, IsActive(p), IsSingle(p)
  PROVE  /\ GoodRow(booking[p]) /\ Spans(booking[p]) /\ Single(booking[p])
         /\ booking[p].from \in Nat /\ booking[p].to \in Nat /\ booking[p].from < booking[p].to
         /\ booking[p].staff # Nobody => InOneBlock(booking[p])
  <1>1. GoodRow(booking[p]) /\ GoodWindow(booking[p]) /\ Spans(booking[p])
    BY ActiveRow
  <1>2. Single(booking[p])
    BY DEF IsSingle, Single
  <1>3. booking[p].from \in Nat /\ booking[p].to \in Nat
    BY <1>1, RowTypes DEF GoodRow
  <1>4. booking[p].from < booking[p].to
    <2>1. PICK i \in DOMAIN booking[p].assigned : i.from = booking[p].from
      BY <1>1 DEF Spans
    <2>2. i.from < i.to /\ i.to <= booking[p].to /\ i.to \in Nat
      BY <1>1, RowTypes DEF Spans, GoodRow
    <2> QED BY <1>3, <2>1, <2>2
  <1> QED BY <1>1, <1>2, <1>3, <1>4 DEF GoodWindow

\* Those whom the orders of these days leave free of it are free of it.
LEMMA SingleApart ==
  ASSUME IInv, NEW p \in Orders \ strayed, IsActive(p), IsSingle(p),
         booking[p].staff # Nobody,
         NEW slot, slot.from \in Nat, slot.to \in Nat, slot.from < slot.to, InOneBlock(slot),
         NEW days, Day(slot.from) \in days,
         Day(booking[p].from) \in days => ~Overlaps(booking[p], slot)
  PROVE  ~Overlaps(booking[p], slot)
  BY SingleRow, DaysApart

LEMMA AvailableIsFree ==
  ASSUME IInv, \A o \in Orders : IsActive(o) => IsSingle(o) /\ o \notin strayed,
         NEW slot, slot.from \in Nat, slot.to \in Nat, slot.from < slot.to, InOneBlock(slot),
         NEW days, Day(slot.from) \in days,
         NEW s \in Staff, IsStaffAvailable(s, slot, LoadOrderSlots(days, Nobody))
  PROVE  IsStaffFreeAt(s, slot)
  <1>1. FitsSchedule(s, slot)
    BY DEF IsStaffAvailable
  <1>2. ASSUME NEW p \in Orders, IsActive(p), booking[p].staff = s
        PROVE  ~Overlaps(booking[p], slot)
    <2>1. p \in Orders \ strayed /\ IsSingle(p) /\ booking[p].staff # Nobody
      BY <1>2, NobodyAssumption
    <2>2. Day(booking[p].from) \in days => ~Overlaps(booking[p], slot)
      BY <1>2, LoadOrderSlotsOfDay DEF IsStaffAvailable
    <2> QED BY <1>2, <2>1, <2>2, SingleApart
  <1>3. ASSUME NEW p \in Orders, IsActive(p), NEW i \in DOMAIN booking[p].assigned,
               booking[p].assigned[i] = s
        PROVE  ~Overlaps(i, slot)
    <2>1. p \in Orders \ strayed /\ IsSingle(p)
      BY <1>3
    <2>2. GoodRow(booking[p]) /\ Spans(booking[p]) /\ Single(booking[p])
      BY <1>3, <2>1, SingleRow
    <2>3. booking[p].staff = s /\ i.from = booking[p].from /\ i.to = booking[p].to
      BY <1>3, <2>2, SingleStaff, SingleSlot
    <2>4. ~Overlaps(booking[p], slot)
      BY <1>2, <1>3, <2>3
    <2> QED BY <2>3, <2>4 DEF Overlaps
  <1> QED BY <1>1, <1>2, <1>3 DEF IsStaffFreeAt

\* While all orders are of one service and where they were booked, a slot
\* listed as free can be booked, whatever swaps, payments and cancellations came
\* before.
THEOREM ListedIsBookableAlways == Spec => []ListedIsBookable
  <1>1. IInv => ListedIsBookable
    <2> SUFFICES ASSUME IInv, \A o \in Orders : IsActive(o) => IsSingle(o) /\ o \notin strayed,
                        NEW l \in Listed, l.available
                 PROVE  CanBook(l)
      BY DEF ListedIsBookable
    <2>1. PICK days \in Ranges :
            /\ l.service \in Services /\ l.staff \in Qualified[l.service] \cup {AnyFree}
            /\ l.slot.from \in Nat /\ l.slot.to \in Nat /\ l.slot.from < l.slot.to
            /\ InOneBlock(l.slot) /\ Day(l.slot.from) \in days
            /\ l.available <=> \E s \in ResolveStaffPool(l.service, l.staff) :
                 IsStaffAvailable(s, l.slot, LoadOrderSlots(days, Nobody))
      BY ListedFacts
    <2>2. PICK s \in ResolveStaffPool(l.service, l.staff) :
            IsStaffAvailable(s, l.slot, LoadOrderSlots(days, Nobody))
      BY <2>1
    <2>3. s \in Staff
      BY <2>1, <2>2, QualifiedAssumption DEF ResolveStaffPool
    <2>4. IsStaffFreeAt(s, l.slot)
      BY <2>1, <2>2, <2>3, AvailableIsFree
    <2> QED BY <2>1, <2>2, <2>4, CanBookMeans
  <1> QED BY <1>1, Invariance, PTL
-----------------------------------------------------------------------------
(* Windows of items                                                        *)

LEMMA LeastOfNumbers ==
  ASSUME NEW S \in SUBSET Nat, S # {}
  PROVE  LET t == CHOOSE t \in S : \A u \in S : t <= u IN t \in S /\ \A u \in S : t <= u
  BY LeastOfFinite

LEMMA GreatestOfNumbers ==
  ASSUME NEW S \in SUBSET Nat, S # {}, NEW bound \in Nat, \A u \in S : u <= bound
  PROVE  LET t == CHOOSE t \in S : \A u \in S : u <= t IN t \in S /\ \A u \in S : u <= t
  <1> DEFINE D == {d \in Nat : bound - d \in S}
  <1>1. D \in SUBSET Nat /\ D # {}
    <2>1. PICK u \in S : TRUE
      OBVIOUS
    <2>2. bound - u \in D
      OBVIOUS
    <2> QED BY <2>2
  <1>2. PICK d \in D : \A e \in D : d <= e
    <2> HIDE DEF D
    <2> QED BY <1>1, LeastOfFinite
  <1>3. bound - d \in S
    BY <1>2
  <1>4. ASSUME NEW u \in S PROVE u <= bound - d
    <2>1. bound - u \in D
      OBVIOUS
    <2>2. d <= bound - u /\ d \in Nat
      BY <1>2, <2>1
    <2> QED BY <2>2
  <1> QED BY <1>3, <1>4

\* A window reaches from the first of the items to the last.
LEMMA WindowOfItems ==
  ASSUME NEW row, GoodRow(row), NEW items, items \subseteq DOMAIN row.assigned, items # {}
  PROVE  LET slot == ItemsSlotWindow(items) IN
         /\ slot.from \in Nat /\ slot.to \in Nat
         /\ \E i \in items : i.from = slot.from
         /\ \E i \in items : i.to = slot.to
         /\ \A i \in items : slot.from <= i.from /\ i.to <= slot.to
  <1> DEFINE F == {i.from : i \in items}
             T == {i.to : i \in items}
             from == CHOOSE t \in F : \A u \in F : t <= u
             to == CHOOSE t \in T : \A u \in T : u <= t
  <1>1. ItemsSlotWindow(items).from = from /\ ItemsSlotWindow(items).to = to
    BY DEF ItemsSlotWindow
  <1>2. F \in SUBSET Nat /\ F # {} /\ T \in SUBSET Nat /\ T # {}
    BY RowTypes DEF GoodRow
  <1>3. PICK j \in DOMAIN row.assigned : \A i \in DOMAIN row.assigned : i.to <= j.to
    BY DEF GoodRow, Slots
  <1>4. j.to \in Nat /\ \A u \in T : u <= j.to
    BY <1>3, RowTypes DEF GoodRow
  <1> HIDE DEF F, T
  <1>5. from \in F /\ \A u \in F : from <= u
    BY <1>2, LeastOfNumbers
  <1>6. to \in T /\ \A u \in T : u <= to
    BY <1>2, <1>4, GreatestOfNumbers
  <1> HIDE DEF from, to
  <1> QED BY <1>1, <1>2, <1>5, <1>6 DEF F, T

-----------------------------------------------------------------------------
(* The listings among each other                                           *)

\* An order that ends on the day it begins is in nobody's way on another.
LEMMA SameDayApart ==
  ASSUME NEW row, row.from \in Nat, row.to \in Nat, Day(row.to - 1) = Day(row.from),
         NEW slot, slot.from \in Nat, slot.to \in Nat, slot.from < slot.to, InOneBlock(slot),
         Day(slot.from) # Day(row.from)
  PROVE  ~Overlaps(row, slot)
  <1>1. CASE row.to = 0
    BY <1>1 DEF Overlaps
  <1>2. CASE row.to # 0
    <2>1. row.to - 1 \in Nat
      BY <1>2
    <2>2. row.to - 1 < DayLength * (Day(row.from) + 1)
      BY <2>1, DayBounds
    <2>3. DayLength * (Day(row.from) + 1) \in Nat
      BY DayBounds, DayAssumption
    <2>4. row.to <= DayLength * (Day(row.from) + 1)
      BY <2>2, <2>3
    <2>5. slot.to <= DayLength * (Day(slot.from) + 1)
      BY BlockEndsItsDay
    <2> QED BY <2>4, <2>5, WithinDaysApart
  <1> QED BY <1>1, <1>2

\* Looking at more days than that of the slot makes no difference then.
LEMMA DaysAgree ==
  ASSUME IInv, \A o \in Orders : IsActive(o) => Day(booking[o].to - 1) = Day(booking[o].from),
         NEW slot, slot.from \in Nat, slot.to \in Nat, slot.from < slot.to, InOneBlock(slot),
         NEW days, Day(slot.from) \in days, NEW s
  PROVE  IsStaffAvailable(s, slot, LoadOrderSlots(days, Nobody))
           <=> IsStaffAvailable(s, slot, LoadOrderSlots({Day(slot.from)}, Nobody))
  <1>1. LoadOrderSlots({Day(slot.from)}, Nobody) \subseteq LoadOrderSlots(days, Nobody)
    BY DEF LoadOrderSlots
  <1>2. ASSUME NEW p \in LoadOrderSlots(days, Nobody),
               p \notin LoadOrderSlots({Day(slot.from)}, Nobody)
        PROVE  ~Overlaps(booking[p], slot)
    <2>1. p \in Orders /\ IsActive(p) /\ Day(booking[p].from) # Day(slot.from)
      BY <1>2 DEF LoadOrderSlots
    <2>2. booking[p].from \in Nat /\ booking[p].to \in Nat
      <3>1. phase[p] # "none"
        BY <2>1 DEF IsActive
      <3> QED BY <2>1, <3>1, BookedRow, RowTypes
    <2> QED BY <2>1, <2>2, SameDayApart
  <1> QED BY <1>1, <1>2 DEF IsStaffAvailable

\* Who is free for a window is free for each slot within it.
LEMMA AvailableWithin ==
  ASSUME NEW w, w.from \in Nat, w.to \in Nat, NEW slot, slot.from \in Nat, slot.to \in Nat,
         w.from <= slot.from, slot.from < slot.to, slot.to <= w.to,
         IInv, NEW o, NEW s, IsStaffAvailable(s, w, LoadOrderSlots({Day(w.from)}, o))
  PROVE  IsStaffAvailable(s, slot, LoadOrderSlots({Day(slot.from)}, o))
  <1>1. PICK b \in Blocks : b.staff = s /\ b.from <= w.from /\ w.to <= b.to
    BY DEF IsStaffAvailable, FitsSchedule
  <1>2. b.from \in Nat /\ b.to \in Nat
    BY BlocksAssumption
  <1>3. FitsSchedule(s, slot)
    BY <1>1, <1>2 DEF FitsSchedule
  <1>4. b.from <= w.from /\ w.from < b.to /\ b.from <= slot.from /\ slot.from < b.to
    BY <1>1, <1>2
  <1>5. Day(w.from) = Day(slot.from)
    BY <1>4, BlockDay
  <1>6. ASSUME NEW p \in LoadOrderSlots({Day(slot.from)}, o), booking[p].staff = s
        PROVE  ~Overlaps(booking[p], slot)
    <2>1. ~Overlaps(booking[p], w)
      BY <1>5, <1>6 DEF IsStaffAvailable
    <2>2. p \in Orders /\ phase[p] # "none"
      BY <1>6 DEF LoadOrderSlots, IsActive
    <2>3. booking[p].from \in Nat /\ booking[p].to \in Nat
      BY <2>2, BookedRow, RowTypes
    <2> QED BY <2>1, <2>3 DEF Overlaps
  <1> QED BY <1>3, <1>6 DEF IsStaffAvailable

\* Who may take over a part of an order is listed for each service of it.
LEMMA EligibleForEach ==
  ASSUME IInv, NEW o \in Orders, IsActive(o), NEW source \in Staff,
         NEW s \in ListEligibleStaffForChange(o, source),
         NEW i \in ServiceItemsAssignedTo(booking[o], source), i.kind = "service"
  PROVE  s \in GetQualifiedStaff(i.service, i.from, o)
  <1> DEFINE items == ServiceItemsAssignedTo(booking[o], source)
             w == ItemsSlotWindow(items)
             slot == Slot(i.from, i.service)
  <1>1. phase[o] # "none"
    BY DEF IsActive
  <1>2. GoodRow(booking[o]) /\ booking[o] \in Bookings
    BY <1>1, BookedRow
  <1>3. items \subseteq DOMAIN booking[o].assigned /\ i \in items
    BY DEF ServiceItemsAssignedTo
  <1>4. s \in EligibleStaffForSlot(items, w, o)
    BY <1>3 DEF ListEligibleStaffForChange
  <1> HIDE DEF items
  <1>5. /\ s \in Qualified[i.service]
        /\ IsStaffAvailable(s, w, LoadOrderSlots({Day(w.from)}, o))
    BY <1>3, <1>4 DEF EligibleStaffForSlot
  <1>6. w.from \in Nat /\ w.to \in Nat /\ w.from <= i.from /\ i.to <= w.to
    BY <1>2, <1>3, WindowOfItems
  <1>7. i.from \in Nat /\ i.to \in Nat /\ Duration[i.service] \in Nat \ {0}
    BY <1>2, <1>3, RowTypes, DurationAssumption
  <1>8. i.to = i.from + Duration[i.service]
    BY <1>2, <1>3 DEF GoodRow, Slots
  <1>9. slot.from = i.from /\ slot.to = i.to
    BY <1>8 DEF Slot
  <1> HIDE DEF w, slot
  <1>10. i.from < i.to
    BY <1>7, <1>8
  <1>11. IsStaffAvailable(s, slot, LoadOrderSlots({Day(slot.from)}, o))
    BY <1>5, <1>6, <1>7, <1>9, <1>10, AvailableWithin
  <1> QED BY <1>5, <1>9, <1>11 DEF GetQualifiedStaff, slot

\* While no order runs over midnight, the four listings agree.
THEOREM ListingsAgreeAlways == Spec => []ListingsAgree
  <1>1. IInv => ListingsAgree
    <2> SUFFICES ASSUME IInv,
                        \A o \in Orders : IsActive(o) => Day(booking[o].to - 1) = Day(booking[o].from)
                 PROVE  /\ \A l \in Listed :
                             LET eligible == GetPublicAvailabilitySingleSlot(l.service, l.slot.from) IN
                               /\ eligible = GetPublicQualifiedStaff(l.service, l.slot.from)
                               /\ l.available <=> \E s \in eligible : l.staff \in {s, AnyFree}
                        /\ \A o \in Orders : IsActive(o) =>
                             \A source \in Staff : \A s \in ListEligibleStaffForChange(o, source) :
                               \A i \in ServiceItemsAssignedTo(booking[o], source) :
                                 i.kind = "service" => s \in GetQualifiedStaff(i.service, i.from, o)
      BY DEF ListingsAgree
    <2>1. ASSUME NEW l \in Listed
          PROVE  LET eligible == GetPublicAvailabilitySingleSlot(l.service, l.slot.from) IN
                   /\ eligible = GetPublicQualifiedStaff(l.service, l.slot.from)
                   /\ l.available <=> \E s \in eligible : l.staff \in {s, AnyFree}
      <3> DEFINE available(s, days) == IsStaffAvailable(s, l.slot, LoadOrderSlots(days, Nobody))
                 today == {Day(l.slot.from)}
      <3>1. PICK days \in Ranges :
              /\ l.service \in Services /\ l.staff \in Qualified[l.service] \cup {AnyFree}
              /\ l.slot.from \in Nat /\ l.slot = Slot(l.slot.from, l.service)
              /\ l.slot.to \in Nat /\ l.slot.from < l.slot.to
              /\ InOneBlock(l.slot) /\ Day(l.slot.from) \in days
              /\ l.available <=> \E s \in ResolveStaffPool(l.service, l.staff) : available(s, days)
        BY ListedFacts
      <3>2. GetPublicAvailabilitySingleSlot(l.service, l.slot.from)
              = {s \in Qualified[l.service] : available(s, today)}
        BY <3>1 DEF GetPublicAvailabilitySingleSlot
      <3>3. GetPublicQualifiedStaff(l.service, l.slot.from)
              = {s \in Qualified[l.service] : available(s, today)}
        BY <3>1 DEF GetPublicQualifiedStaff, GetQualifiedStaff
      <3>4. \A s : available(s, days) <=> available(s, today)
        BY <3>1, DaysAgree
      <3> HIDE DEF available, today
      <3>5. Qualified[l.service] \subseteq Staff /\ AnyFree \notin Staff
        BY <3>1, QualifiedAssumption, NobodyAssumption
      <3>6. ResolveStaffPool(l.service, l.staff)
              = {s \in Qualified[l.service] : l.staff \in {s, AnyFree}}
        BY <3>1, <3>5 DEF ResolveStaffPool
      <3> QED BY <3>1, <3>2, <3>3, <3>4, <3>6
    <2>2. \A o \in Orders : IsActive(o) =>
            \A source \in Staff : \A s \in ListEligibleStaffForChange(o, source) :
              \A i \in ServiceItemsAssignedTo(booking[o], source) :
                i.kind = "service" => s \in GetQualifiedStaff(i.service, i.from, o)
      BY EligibleForEach
    <2> QED BY <2>1, <2>2
  <1> QED BY <1>1, Invariance, PTL
\* An order of one service is to be moved to a slot listed as free: none of
\* those of her staff's day is there, and those of other days cannot be.
LEMMA MoveIsClear ==
  ASSUME IInv, NEW o \in Orders \ strayed, IsActive(o), IsSingle(o),
         NEW p \in Orders \ strayed, IsActive(p), IsSingle(p), o # p,
         NEW b \in Claims(p), b.staff = booking[o].staff,
         NEW day, NEW l \in ComputeRescheduleSlots(o, day), l.available
  PROVE  ~Overlaps(b, l.slot)
  <1> DEFINE row == booking[p]
             service == booking[o].service
             s == booking[o].staff
             loaded == LoadOrderSlots({day}, o)
             pool == ResolveStaffPool(service, IF s = Nobody THEN AnyFree ELSE s)
  <1>1. /\ GoodRow(row) /\ Spans(row) /\ Single(row)
        /\ row.from \in Nat /\ row.to \in Nat /\ row.from < row.to
        /\ row.staff # Nobody => InOneBlock(row)
    BY SingleRow
  <1>2. b.staff = row.staff /\ b.staff # Nobody /\ b.from = row.from /\ b.to = row.to
    BY <1>1, SingleClaim DEF Claims, ClaimsOf
  <1>3. row.staff = s /\ s # Nobody /\ InOneBlock(row)
    BY <1>1, <1>2
  <1>4. service \in Services /\ s \in Staff
    <2>1. booking[o] \in Bookings
      BY BookedRow DEF IsActive
    <2> QED BY <1>3, <2>1, RowTypes
  <1>5. pool = {s}
    BY <1>3, <1>4, NobodyAssumption DEF ResolveStaffPool
  <1>6. l \in ListedSlots(pool, day, service, loaded)
    BY DEF ComputeRescheduleSlots
  <1> HIDE DEF row, service, s, pool, loaded
  <1>7. PICK t \in GenerateSlotStarts(pool, day, service) :
          l = [slot |-> Slot(t, service),
               available |-> \E x \in pool : IsStaffAvailable(x, Slot(t, service), loaded)]
    BY <1>6 DEF ListedSlots
  <1>8. l.slot = Slot(t, service) /\ IsStaffAvailable(s, l.slot, loaded)
    BY <1>5, <1>7
  <1>9. PICK c \in Blocks : Day(c.from) = day /\ t \in c.from..(c.to - Duration[service])
    BY <1>7 DEF GenerateSlotStarts
  <1>10. c.from \in Nat /\ c.to \in Nat /\ Duration[service] \in Nat \ {0}
    BY <1>4, BlocksAssumption, DurationAssumption
  <1>11. t \in Nat /\ c.from <= t /\ t < c.to /\ t + Duration[service] <= c.to
    BY <1>9, <1>10
  <1>12. /\ l.slot.from = t /\ l.slot.to = t + Duration[service]
         /\ l.slot.to \in Nat /\ l.slot.from < l.slot.to /\ InOneBlock(l.slot)
    BY <1>8, <1>10, <1>11 DEF Slot, InOneBlock
  <1>13. Day(l.slot.from) = day
    BY <1>9, <1>11, <1>12, BlockDay
  <1>14. ~Overlaps(row, l.slot)
    <2>1. CASE Day(row.from) = day
      <3>1. p \in loaded
        BY <2>1 DEF loaded, LoadOrderSlots, row
      <3> QED BY <1>3, <1>8, <3>1 DEF IsStaffAvailable, row
    <2>2. CASE Day(row.from) # day
      BY <1>1, <1>3, <1>11, <1>12, <1>13, <2>2, DaysApart
    <2> QED BY <2>1, <2>2
  <1> QED BY <1>2, <1>14 DEF Overlaps

\* Nor does anybody listed to take such an order over hold another then.
LEMMA TakeOverIsClear ==
  ASSUME IInv, NEW o \in Orders \ strayed, IsActive(o), IsSingle(o),
         NEW p \in Orders \ strayed, IsActive(p), IsSingle(p), o # p,
         NEW b \in Claims(p), b.staff \in ListEligibleStaffForChange(o, booking[o].staff),
         NEW a \in Claims(o)
  PROVE  ~Overlaps(a, b)
  <1> DEFINE items == ServiceItemsAssignedTo(booking[o], booking[o].staff)
  <1>1. items # {} /\ b.staff \in EligibleStaffForSlot(items, ItemsSlotWindow(items), o)
    BY DEF ListEligibleStaffForChange
  <1>2. items \subseteq DOMAIN booking[o].assigned
    BY DEF ServiceItemsAssignedTo
  <1> HIDE DEF items
  <1>3. ~Overlaps(booking[o], b)
    BY <1>1, <1>2, SwapTargetFree
  <1>4. GoodRow(booking[o]) /\ Spans(booking[o]) /\ Single(booking[o])
    BY SingleRow
  <1>5. a.from = booking[o].from /\ a.to = booking[o].to
    BY <1>4, SingleClaim DEF Claims, ClaimsOf
  <1> QED BY <1>3, <1>5 DEF Overlaps

\* A slot listed for an order of one service is not held by another such order
\* of its staff; nor does one of those listed to take the order over hold
\* another at that time.
THEOREM ListedIsMovableAlways == Spec => []ListedIsMovable
  <1>1. IInv => ListedIsMovable
    <2> SUFFICES ASSUME IInv, NEW o \in Orders \ strayed, NEW p \in Orders \ strayed,
                        o # p, IsActive(o), IsActive(p), IsSingle(o), IsSingle(p),
                        NEW b \in Claims(p)
                 PROVE  /\ b.staff = booking[o].staff =>
                             \A day \in Today : \A l \in ComputeRescheduleSlots(o, day) :
                               l.available => ~Overlaps(b, l.slot)
                        /\ b.staff \in ListEligibleStaffForChange(o, booking[o].staff) =>
                             \A a \in Claims(o) : ~Overlaps(a, b)
      BY DEF ListedIsMovable
    <2> QED BY MoveIsClear, TakeOverIsClear
  <1> QED BY <1>1, Invariance, PTL

-----------------------------------------------------------------------------
(* The agenda                                                              *)

\* The staff of an order has something to show for it: her part of the order
\* begins with its first line, be it plain or of a combo.
LEMMA MirrorIsShown ==
  ASSUME IInv, NEW o \in Orders, IsActive(o), booking[o].staff # Nobody
  PROVE  \E i \in DOMAIN booking[o].assigned : ShownWith(o, i) = booking[o].staff
  <1> DEFINE row == booking[o]
             F == {i.from : i \in DOMAIN row.assigned}
  <1>1. GoodRow(row) /\ row \in Bookings
    BY BookedRow DEF IsActive
  <1>2. F \in SUBSET Nat /\ F # {}
    BY <1>1, RowTypes DEF GoodRow, Slots
  <1>3. PICK t \in F : \A u \in F : t <= u
    <2> HIDE DEF F
    <2> QED BY <1>2, LeastOfFinite
  <1>4. PICK i \in DOMAIN row.assigned : i.from = t
    BY <1>3
  <1>5. PICK j \in DOMAIN row.assigned : j.kind # "dependency" /\ j.from = t
    BY <1>1, <1>4 DEF GoodRow, Slots
  <1>6. \A k \in DOMAIN row.assigned : j.from <= k.from
    BY <1>3, <1>5
  <1>7. j.kind \in {"service", "component"}
    BY <1>1, <1>5, RowTypes
  <1>8. CASE j.kind = "service"
    <2>1. row.assigned[j] = row.staff
      BY <1>1, <1>5, <1>6, <1>8 DEF GoodRow, Mirrors, IsFirst
    <2> QED BY <1>8, <2>1 DEF ShownWith, IsItem, Effective
  <1>9. CASE j.kind = "component"
    BY <1>9 DEF ShownWith, IsItem
  <1> QED BY <1>7, <1>8, <1>9

\* What a column shows of an order that is active.
LEMMA ColumnShows ==
  ASSUME IInv, NEW o \in Orders, IsActive(o), NEW s,
         NEW i \in DOMAIN booking[o].assigned, ShownWith(o, i) = s
  PROVE  LET items == {j \in DOMAIN booking[o].assigned : ShownWith(o, j) = s} IN
         Appointment(o, items) \in UNION {Column(s, date) : date \in Dates}
  <1> DEFINE date == LocalDate(booking[o].from)
             shown(p) == {j \in DOMAIN booking[p].assigned : ShownWith(p, j) = s}
  <1>1. o \in AgendaOrders(date) /\ date \in Dates
    BY DEF AgendaOrders, Dates, IsActive
  <1>2. shown(o) # {}
    OBVIOUS
  <1>3. Appointment(o, shown(o)) \in Column(s, date)
    BY <1>1, <1>2 DEF Column
  <1> QED BY <1>1, <1>3

\* Whom a booking is refused although she works then has an appointment in her
\* column that tells why, however bookings and swaps interleave.
THEOREM BusyIsShownAlways == Spec => []BusyIsShown
  <1>1. IInv => BusyIsShown
    <2> SUFFICES ASSUME IInv, NEW s \in Staff, NEW t \in Starts, NEW v \in Services,
                        LET slot == [from |-> t, to |-> t + Duration[v]]
                        IN  FitsSchedule(s, slot) /\ ~IsStaffFreeAt(s, slot)
                 PROVE  \E a \in UNION {Column(s, date) : date \in Dates} :
                          Explains(a, [from |-> t, to |-> t + Duration[v]])
      BY DEF BusyIsShown
    <2> DEFINE slot == [from |-> t, to |-> t + Duration[v]]
    <2>1. slot.from \in Nat /\ slot.to \in Nat
      BY DayAssumption, DurationAssumption
    <2>2. FitsSchedule(s, slot) /\ ~IsStaffFreeAt(s, slot)
      OBVIOUS
    <2> HIDE DEF slot
    <2>3. PICK o \in Orders :
            /\ IsActive(o)
            /\ \/ booking[o].staff = s /\ Overlaps(booking[o], slot)
               \/ \E i \in DOMAIN booking[o].assigned :
                    IsItem(i) /\ booking[o].assigned[i] = s /\ Overlaps(i, slot)
      BY <2>2 DEF IsStaffFreeAt
    <2> DEFINE items == {j \in DOMAIN booking[o].assigned : ShownWith(o, j) = s}
               a == Appointment(o, items)
    <2>4. /\ a.block = ItemsSlotWindow(items)
          /\ a.scheduled.from = booking[o].from /\ a.scheduled.to = booking[o].to
      BY DEF Appointment
    <2>5. items \subseteq DOMAIN booking[o].assigned
      OBVIOUS
    <2>6. items # {} => a \in UNION {Column(s, date) : date \in Dates}
      BY <2>3, ColumnShows
    <2>7. s # Nobody
      BY NobodyAssumption
    <2>8. GoodRow(booking[o]) /\ booking[o] \in Bookings
      BY <2>3, BookedRow DEF IsActive
    <2>9. CASE booking[o].staff = s /\ Overlaps(booking[o], slot)
      <3>1. items # {}
        BY <2>3, <2>7, <2>9, MirrorIsShown
      <3>2. Overlaps(a.scheduled, slot)
        BY <2>4, <2>9 DEF Overlaps
      <3> QED BY <2>6, <3>1, <3>2 DEF Explains, slot
    <2>10. ASSUME NEW i \in DOMAIN booking[o].assigned,
                  IsItem(i), booking[o].assigned[i] = s, Overlaps(i, slot)
           PROVE  items # {} /\ Overlaps(a.block, slot)
      <3>1. i \in items
        BY <2>7, <2>10 DEF ShownWith, Effective
      <3> HIDE DEF items, a
      <3>2. /\ a.block.from \in Nat /\ a.block.to \in Nat
            /\ a.block.from <= i.from /\ i.to <= a.block.to
        BY <2>4, <2>5, <2>8, <3>1, WindowOfItems
      <3>3. i.from \in Nat /\ i.to \in Nat
        BY <2>8, RowTypes
      <3> QED BY <2>1, <2>10, <3>1, <3>2, <3>3 DEF Overlaps
    <2> HIDE DEF items, a
    <2> QED BY <2>3, <2>6, <2>9, <2>10 DEF Explains, slot
  <1> QED BY <1>1, Invariance, PTL

\* At every moment of her block on a plain, unbroken order its staff is held by
\* one of its services.
LEMMA BlockIsClaimed ==
  ASSUME IInv, NEW o \in Orders, IsActive(o), IsPlain(o), IsUnbroken(o), NEW s \in Staff,
         NEW i \in DOMAIN booking[o].assigned, booking[o].assigned[i] = s,
         NEW j \in DOMAIN booking[o].assigned, booking[o].assigned[j] = s,
         NEW t \in Int, i.from <= t, t < j.to
  PROVE  \E c \in Claims(o) :
           /\ c.staff = s /\ c.from \in Nat /\ c.to \in Nat
           /\ c.from <= t /\ t < c.to
  <1> DEFINE row == booking[o]
  <1>1. GoodRow(row) /\ row \in Bookings
    BY BookedRow DEF IsActive
  <1>2. i.from \in Nat /\ i.to \in Nat /\ j.from \in Nat /\ j.to \in Nat
    BY <1>1, RowTypes
  <1>3. PICK k \in DOMAIN row.assigned : k.kind # "dependency" /\ k.from <= t /\ t < k.to
    <2>1. t \in i.from..(j.to - 1)
      BY <1>2
    <2> QED BY <1>1, <2>1 DEF GoodRow, Slots
  <1>4. k.from \in Nat /\ k.to \in Nat
    BY <1>1, RowTypes
  <1>5. i.from <= k.from
    <2>1. k.from < i.from => k.to <= i.from
      BY <1>1 DEF GoodRow, Slots
    <2> QED BY <1>2, <1>3, <1>4, <2>1
  <1>6. k.from <= j.from
    <2>1. j.from < k.from => j.to <= k.from
      BY <1>1 DEF GoodRow, Slots
    <2> QED BY <1>2, <1>3, <1>4, <2>1
  <1>7. row.assigned[k] = s
    BY <1>5, <1>6 DEF IsUnbroken
  <1>8. k.kind = "service"
    BY <1>1, <1>3, RowTypes DEF IsPlain, IsItem
  <1> DEFINE c == [staff |-> row.assigned[k], from |-> k.from, to |-> k.to]
  <1>9. c \in Claims(o)
    BY <1>7, <1>8, NobodyAssumption DEF Claims
  <1> QED BY <1>3, <1>4, <1>7, <1>9

LEMMA ItemsTakeTime ==
  ASSUME NEW row, GoodRow(row), NEW i \in DOMAIN row.assigned
  PROVE  i.from \in Nat /\ i.to \in Nat /\ i.from < i.to
  <1>1. row \in Bookings
    BY DEF GoodRow
  <1>2. PICK k \in DOMAIN row.assigned : k.kind # "dependency" /\ k.from = i.from
    BY DEF GoodRow, Slots
  <1>3. k.to = i.to /\ k.to = k.from + Duration[k.service]
    BY <1>2 DEF GoodRow, Slots
  <1>4. i.from \in Nat /\ i.to \in Nat /\ Duration[k.service] \in Nat \ {0}
    BY <1>1, RowTypes, DurationAssumption
  <1> QED BY <1>2, <1>3, <1>4

\* What a column of the agenda shows of an order that is plain and active.
LEMMA PlainColumn ==
  ASSUME IInv, NEW s \in Staff, NEW a \in UNION {Column(s, date) : date \in Dates},
         IsActive(a.order), IsPlain(a.order)
  PROVE  /\ a.order \in Orders
         /\ a.block.from \in Nat /\ a.block.to \in Nat /\ a.block.from < a.block.to
         /\ \E i, j \in DOMAIN booking[a.order].assigned :
              /\ booking[a.order].assigned[i] = s /\ booking[a.order].assigned[j] = s
              /\ i.from = a.block.from /\ j.to = a.block.to
  <1> DEFINE shown(p) == {i \in DOMAIN booking[p].assigned : ShownWith(p, i) = s}
  <1>1. PICK date \in Dates : \E o \in AgendaOrders(date) :
          shown(o) # {} /\ a = Appointment(o, shown(o))
    BY DEF Column
  <1>2. PICK o \in AgendaOrders(date) :
          shown(o) # {} /\ a = Appointment(o, shown(o))
    BY <1>1
  <1>3. a.order = o /\ a.block = ItemsSlotWindow(shown(o)) /\ o \in Orders
    BY <1>2 DEF Appointment, AgendaOrders
  <1>4. GoodRow(booking[o])
    BY <1>3, BookedRow DEF IsActive
  <1>5. shown(o) \subseteq DOMAIN booking[o].assigned
    OBVIOUS
  <1>6. \A i \in shown(o) : booking[o].assigned[i] = s
    BY <1>3 DEF IsPlain, ShownWith, Effective
  <1> HIDE DEF shown
  <1>7. LET slot == ItemsSlotWindow(shown(o)) IN
        /\ slot.from \in Nat /\ slot.to \in Nat
        /\ \E i \in shown(o) : i.from = slot.from
        /\ \E i \in shown(o) : i.to = slot.to
        /\ \A i \in shown(o) : slot.from <= i.from /\ i.to <= slot.to
    BY <1>2, <1>4, <1>5, WindowOfItems
  <1>8. a.block.from < a.block.to
    <2>1. PICK i \in shown(o) : i.to = a.block.to
      BY <1>3, <1>7
    <2>2. i.from \in Nat /\ i.from < i.to
      BY <1>4, <1>5, ItemsTakeTime
    <2> QED BY <1>3, <1>7, <2>1, <2>2
  <1> QED BY <1>3, <1>5, <1>6, <1>7, <1>8

\* When requests do not overlap, no column shows two blocks at one time, for
\* orders that are as they were booked, plain and unbroken.
THEOREM ColumnsNeverOverlapAlways == ASSUME Serial PROVE Spec => []ColumnsNeverOverlap
  <1>1. SerialInv => ColumnsNeverOverlap
    <2> SUFFICES ASSUME SerialInv, NEW s \in Staff,
                        NEW a \in UNION {Column(s, date) : date \in Dates},
                        NEW b \in UNION {Column(s, date) : date \in Dates},
                        a.order # b.order,
                        \A o \in {a.order, b.order} :
                          /\ IsActive(o) /\ o \notin swapped \cup strayed
                          /\ IsPlain(o) /\ IsUnbroken(o),
                        Overlaps(a.block, b.block)
                 PROVE  FALSE
      BY DEF ColumnsNeverOverlap
    <2> DEFINE o == a.order
               p == b.order
               t == IF a.block.from <= b.block.from THEN b.block.from ELSE a.block.from
    <2>1. IInv /\ BookedOnce
      BY DEF SerialInv
    <2>2. /\ o \in Orders /\ a.block.from \in Nat /\ a.block.to \in Nat /\ a.block.from < a.block.to
          /\ \E i, j \in DOMAIN booking[o].assigned :
               /\ booking[o].assigned[i] = s /\ booking[o].assigned[j] = s
               /\ i.from = a.block.from /\ j.to = a.block.to
      BY <2>1, PlainColumn
    <2>3. /\ p \in Orders /\ b.block.from \in Nat /\ b.block.to \in Nat /\ b.block.from < b.block.to
          /\ \E i, j \in DOMAIN booking[p].assigned :
               /\ booking[p].assigned[i] = s /\ booking[p].assigned[j] = s
               /\ i.from = b.block.from /\ j.to = b.block.to
      BY <2>1, PlainColumn
    <2>4. /\ a.block.from < b.block.to /\ b.block.from < a.block.to
      BY DEF Overlaps
    <2>5. /\ t \in Int /\ a.block.from <= t /\ b.block.from <= t
         /\ t < a.block.to /\ t < b.block.to
      BY <2>2, <2>3, <2>4
    <2> HIDE DEF t
    <2>6. PICK c \in Claims(o) :
            /\ c.staff = s /\ c.from \in Nat /\ c.to \in Nat /\ c.from <= t /\ t < c.to
      BY <2>1, <2>2, <2>5, BlockIsClaimed
    <2>7. PICK d \in Claims(p) :
            /\ d.staff = s /\ d.from \in Nat /\ d.to \in Nat /\ d.from <= t /\ t < d.to
      BY <2>1, <2>3, <2>5, BlockIsClaimed
    <2>8. Overlaps(c, d)
      BY <2>5, <2>6, <2>7 DEF Overlaps
    <2>9. Clash(o, p)
      BY <2>6, <2>7, <2>8 DEF Clash
    <2> QED BY <2>1, <2>2, <2>3, <2>9 DEF BookedOnce
  <1> QED BY <1>1, SerialInvariance, PTL
=============================================================================
