---------------------------- MODULE Availability ----------------------------
(***************************************************************************)
(* The listings of free slots in src/scheduling/scheduling.service.ts: for *)
(* a service (computeBookingSlots), for one slot of a longer visit         *)
(* (getPublicAvailabilitySingleSlot) and for an order that is to be moved  *)
(* (computeRescheduleSlots); and those of the staff, for a service         *)
(* (getQualifiedStaff) and for an order that is to change hands            *)
(* (listEligibleStaffForChange in src/commerce/commerce.service.ts).  They *)
(* change nothing: they are functions of the calendar that StaffCalendar   *)
(* keeps, and the properties say what a listing is worth to the request    *)
(* that follows it.                                                        *)
(***************************************************************************)
EXTENDS StaffCalendar

CONSTANT Grid  \* SLOT_GRID_MINUTES

ASSUME GridAssumption == Grid \in Nat \ {0}
ASSUME NoOrderAssumption == Nobody \notin Orders

Slot(start, service) == [from |-> start, to |-> start + Duration[service]]

\* A slot may start at every step of the grid from the start of a block.
GenerateSlotStarts(pool, day, service) ==
  UNION {{t \in b.from..(b.to - Duration[service]) : (t - b.from) % Grid = 0} :
           b \in {c \in Blocks : c.staff \in pool /\ Day(c.from) = day}}

ResolveStaffPool(service, asked) ==
  IF asked = AnyFree THEN Qualified[service] ELSE {asked}

ListedSlots(pool, day, service, loaded) ==
  {[slot |-> Slot(t, service),
    available |-> \E s \in pool : IsStaffAvailable(s, Slot(t, service), loaded)] :
     t \in GenerateSlotStarts(pool, day, service)}

\* One query for all of the days.
ComputeBookingSlots(service, asked, days) ==
  UNION {ListedSlots(ResolveStaffPool(service, asked), day, service,
                     LoadOrderSlots(days, Nobody)) : day \in days}

\* Mutant: the order is moved to whoever is qualified.
ComputeRescheduleSlotsOfAnyone(o, day) ==
  ListedSlots(Qualified[booking[o].service], day, booking[o].service,
              LoadOrderSlots({day}, o))

\* Slots as long as the order's first service, for its own staff if it has any.
ComputeRescheduleSlots(o, day) ==
  LET row == booking[o]
      pool == ResolveStaffPool(row.service,
                               IF row.staff = Nobody THEN AnyFree ELSE row.staff)
  IN  ListedSlots(pool, day, row.service, LoadOrderSlots({day}, o))

\* Mutant: only orders that start within the slot are loaded.
SingleSlotLoadedNarrowly(service, start) ==
  {s \in Qualified[service] :
     IsStaffAvailable(s, Slot(start, service),
       {o \in LoadOrderSlots({Day(start)}, Nobody) : booking[o].from >= start})}

GetPublicAvailabilitySingleSlot(service, start) ==
  {s \in Qualified[service] :
     IsStaffAvailable(s, Slot(start, service), LoadOrderSlots({Day(start)}, Nobody))}

\* The staff for a service at a time, leaving one order out of account.
GetQualifiedStaff(service, start, excluded) ==
  {s \in Qualified[service] :
     IsStaffAvailable(s, Slot(start, service), LoadOrderSlots({Day(start)}, excluded))}

\* The customer, who picks staff for a slot, has no order to leave out.
GetPublicQualifiedStaff(service, start) == GetQualifiedStaff(service, start, Nobody)

\* Who may take over what `source' has of an order.  The source itself is left
\* out by the items that are assigned to it, not by those nobody has taken.
ListEligibleStaffForChange(o, source) ==
  LET items == ServiceItemsAssignedTo(booking[o], source) IN
  IF items = {} THEN {}
  ELSE EligibleStaffForSlot(items, ItemsSlotWindow(items), o)
         \ {booking[o].assigned[i] : i \in items}

-----------------------------------------------------------------------------
Today == {Day(b.from) : b \in Blocks}
Ranges == {days \in SUBSET Today : days # {} /\ \A a, c \in days : (a..c) \subseteq days}

\* What is listed for whom in any of the ranges, as requests that can follow.
Listed ==
  UNION {UNION {{[service |-> service, staff |-> asked, slot |-> l.slot, available |-> l.available] :
                   l \in UNION {ComputeBookingSlots(service, asked, days) : days \in Ranges}} :
                  asked \in Qualified[service] \cup {AnyFree}} :
           service \in Services}

\* What resolveStaffForService finds for a cart of this one service.
CanBook(l) ==
  StaffFor([service |-> l.service, staff |-> l.staff, kind |-> "service"], l.slot) # {}

\* A booking that would be accepted at a listed start was listed as free: the
\* two checks, one in each service, do not disagree in that direction.
FreeIsListed == \A l \in Listed : CanBook(l) => l.available

\* While all orders are of one service and where they were booked, a slot
\* listed as free can be booked; whatever swaps, payments and cancellations
\* came before.
ListedIsBookable ==
  (\A o \in Orders : IsActive(o) => IsSingle(o) /\ o \notin strayed) =>
    \A l \in Listed : l.available => CanBook(l)

\* While no order runs over midnight, the listing of a range of days, that of
\* a day, the question for a single slot and that for the staff agree; and who
\* is listed to take over a part of an order is listed for each service of it
\* that was ordered (an included one may be longer than the slot it is given).
ListingsAgree ==
  (\A o \in Orders : IsActive(o) => Day(booking[o].to - 1) = Day(booking[o].from)) =>
    /\ \A l \in Listed :
         LET eligible == GetPublicAvailabilitySingleSlot(l.service, l.slot.from) IN
           /\ eligible = GetPublicQualifiedStaff(l.service, l.slot.from)
           /\ l.available <=> \E s \in eligible : l.staff \in {s, AnyFree}
    /\ \A o \in Orders : IsActive(o) =>
         \A source \in Staff : \A s \in ListEligibleStaffForChange(o, source) :
           \A i \in ServiceItemsAssignedTo(booking[o], source) :
             i.kind = "service" => s \in GetQualifiedStaff(i.service, i.from, o)

\* rescheduleOrder asks nobody, but a slot listed for an order of one service
\* is not held by another such order of its staff; nor does one of those listed
\* to take the order over hold another at that time.
ListedIsMovable ==
  \A o, p \in Orders \ strayed :
    o # p /\ IsActive(o) /\ IsActive(p) /\ IsSingle(o) /\ IsSingle(p) =>
      \A b \in Claims(p) :
        /\ b.staff = booking[o].staff =>
             \A day \in Today : \A l \in ComputeRescheduleSlots(o, day) :
               l.available => ~Overlaps(b, l.slot)
        /\ b.staff \in ListEligibleStaffForChange(o, booking[o].staff) =>
             \A a \in Claims(o) : ~Overlaps(a, b)
=============================================================================
