--------------------------- MODULE StaffCalendar ---------------------------
(***************************************************************************)
(* Who is to serve whom and when: the staff and the slots of appointment   *)
(* orders, src/commerce/commerce.service.ts (createBooking with            *)
(* resolveLines, rescheduleOrder, changeStaff) and the checks they rely    *)
(* on, isStaffFreeAt there and isStaffAvailable in                         *)
(* src/scheduling/scheduling.service.ts.                                   *)
(*                                                                         *)
(* An order blocks its staff while it is in one of ACTIVE_BOOKING_STATES.  *)
(* Which state it is in is the business of CheckoutContract, which         *)
(* OrderPayment implements; this module takes its steps as they are.       *)
(*                                                                         *)
(* Each operation checks in one step and writes in a later one.  In the    *)
(* code the checks of one request are several queries, outside of the      *)
(* transaction that writes; here they see one state of the database.       *)
(***************************************************************************)
EXTENDS Integers, FiniteSets, Sequences

CONSTANTS
  Orders,        \* ids of the orders that may be booked
  Requests,      \* HTTP requests that may be in flight at once
  Serial,        \* TRUE: a request starts only when no other is in flight
  Staff,
  Services,
  Duration,      \* minutes a service takes, in units of the slot grid
  Qualified,     \* table staff_qualifications: the staff of each service
  AutoIncludes,  \* table service_dependencies, the rows with auto_include
  Blocks,        \* table staff_schedules: [staff, from, to] within one day
  DayLength,     \* units of time in a UTC day
  Starts,        \* start times that customers ask for
  Carts,         \* what customers order: sequences of Lines
  Nobody,        \* no staff: the item is in the pending pool
  AnyFree        \* the legacy request shape without staff: pick one

\* Products take no time and no staff: a cart lists its services, those of
\* a combo one by one and all with the staff asked for the combo.
Lines == [service: Services,
          staff: Staff \cup {Nobody, AnyFree},
          kind: {"service", "component"}]

ASSUME SerialAssumption == Serial \in BOOLEAN
ASSUME DurationAssumption == Duration \in [Services -> Nat \ {0}]
ASSUME QualifiedAssumption == Qualified \in [Services -> SUBSET Staff]
ASSUME NobodyAssumption == Nobody \notin Staff /\ AnyFree \notin Staff \cup {Nobody}
ASSUME DayAssumption == DayLength \in Nat \ {0} /\ Starts \subseteq Nat
ASSUME CartsAssumption == Carts \subseteq Seq(Lines) \ {<<>>}
ASSUME AutoIncludesAssumption == AutoIncludes \in [Services -> SUBSET Services]
ASSUME BlocksAssumption ==
  \A b \in Blocks : /\ b.from \in Nat /\ b.to \in Nat
                     /\ b.to <= DayLength * (b.from \div DayLength + 1)

VARIABLES
  phase,    \* see CheckoutContract
  money,
  booking,  \* the calendar columns of the order and of its items
  txn,      \* what each request has checked and is about to write
  swapped,  \* orders whose staff was changed since they were booked
  strayed   \* orders rescheduled, or revived by a payment after they were dropped

vars == <<phase, money, booking, txn, swapped, strayed>>

Checkout == INSTANCE CheckoutContract

NoBooking == [service |-> Nobody, staff |-> Nobody, from |-> 0, to |-> 0,
              assigned |-> [i \in {} |-> Nobody]]
Idle == [op |-> "idle"]

Init ==
  /\ Checkout!Init
  /\ booking = [o \in Orders |-> NoBooking]
  /\ txn = [h \in Requests |-> Idle]
  /\ swapped = {}
  /\ strayed = {}

\* ACTIVE_BOOKING_STATES
IsActive(o) == phase[o] \in {"awaiting", "booked"}

Overlaps(a, b) == a.from < b.to /\ b.from < a.to

-----------------------------------------------------------------------------
(* The two checks of a staff member's calendar.                            *)

FitsSchedule(s, slot) ==
  \E b \in Blocks : b.staff = s /\ b.from <= slot.from /\ slot.to <= b.to

\* Components of a combo live in a JSON column that no query looks at.
IsItem(i) == i.kind # "component"

\* Mutant: the items of an order are not looked at.
IsStaffFreeByOrders(s, slot) ==
  /\ FitsSchedule(s, slot)
  /\ \A o \in Orders :
       IsActive(o) /\ booking[o].staff = s => ~Overlaps(booking[o], slot)

\* commerce: the order's own staff for all of its window, and its items.
IsStaffFreeAt(s, slot) ==
  /\ FitsSchedule(s, slot)
  /\ \A o \in Orders : IsActive(o) =>
       /\ booking[o].staff = s => ~Overlaps(booking[o], slot)
       /\ \A i \in DOMAIN booking[o].assigned :
            IsItem(i) /\ booking[o].assigned[i] = s => ~Overlaps(i, slot)

Day(t) == t \div DayLength

\* Mutant: orders that were cancelled or are over count as well.
LoadOrderSlotsOfAll(days, excluded) ==
  {o \in Orders \ {excluded} : Day(booking[o].from) \in days}

\* Mutant: orders that wait for their payment do not count.
LoadOrderSlotsOfBooked(days, excluded) ==
  {o \in Orders \ {excluded} : phase[o] = "booked" /\ Day(booking[o].from) \in days}

\* loadOrderSlots: the orders, not their items, that start on these days.
LoadOrderSlots(days, excluded) ==
  {o \in Orders \ {excluded} : IsActive(o) /\ Day(booking[o].from) \in days}

\* scheduling: the staff of the orders that were loaded.
IsStaffAvailable(s, slot, loaded) ==
  /\ FitsSchedule(s, slot)
  /\ \A o \in loaded : booking[o].staff = s => ~Overlaps(booking[o], slot)

-----------------------------------------------------------------------------
(* createBooking                                                           *)

\* The lines of a cart are served one after the other.
StartOf(cart, start) ==
  LET at[n \in DOMAIN cart] ==
        IF n = 1 THEN start ELSE at[n - 1] + Duration[cart[n - 1].service]
  IN  at

\* resolveLines without the staff: one item or component for each line.
Items(cart, start) ==
  LET at == StartOf(cart, start) IN
  [n \in DOMAIN cart |->
     [kind |-> cart[n].kind, service |-> cart[n].service,
      from |-> at[n], to |-> at[n] + Duration[cart[n].service]]]

\* resolveStaffForService: none when the request is to be refused.
StaffFor(line, slot) ==
  IF line.staff = Nobody THEN {Nobody}
  ELSE {s \in Qualified[line.service] :
          line.staff \in {s, AnyFree} /\ IsStaffFreeAt(s, slot)}

\* resolveAutoIncludeDepsForLines: services the cart does not hold already,
\* each once, in the slot and with the staff of the first item that needs it.
Dependencies(items) ==
  LET services == {items[n].service : n \in DOMAIN items}
      needs(n) == AutoIncludes[items[n].service] \ services
      first(n, d) == d \in needs(n) /\ \A m \in 1..(n - 1) : d \notin needs(m)
  IN  {pair \in (DOMAIN items) \X Services : first(pair[1], pair[2])}

DependencyItem(items, pair) ==
  [items[pair[1]] EXCEPT !.kind = "dependency", !.service = pair[2]]

\* Mutant: a service inside a combo does not count as the order's first.
FirstPlainService(items, who) ==
  LET plain(n) == items[n].kind = "service" /\ \A m \in 1..(n - 1) : items[m].kind # "service"
  IN  IF \E n \in DOMAIN items : plain(n)
      THEN LET n == CHOOSE n \in DOMAIN items : plain(n)
           IN  [service |-> items[n].service, staff |-> who[n]]
      ELSE [service |-> Nobody, staff |-> Nobody]

\* The order mirrors its first service, plain or in a combo, and its staff.
FirstService(items, who) == [service |-> items[1].service, staff |-> who[1]]

\* The rows to insert when who[n] serves line n.
NewBooking(items, who) ==
  LET deps == Dependencies(items)
      rows == {items[n] : n \in DOMAIN items}
                \cup {DependencyItem(items, pair) : pair \in deps}
      lineOf(row) == CHOOSE n \in DOMAIN items : items[n].from = row.from
      first == FirstService(items, who)
  IN  [service |-> first.service,
       staff |-> first.staff,
       from |-> items[1].from,
       to |-> items[Cardinality(DOMAIN items)].to,
       assigned |-> [row \in rows |-> who[lineOf(row)]]]

CanStart(h) ==
  /\ txn[h] = Idle
  /\ Serial => \A g \in Requests : txn[g] = Idle

Begin(h, work) ==
  /\ CanStart(h)
  /\ txn' = [txn EXCEPT ![h] = work]
  /\ UNCHANGED <<phase, money, booking, swapped, strayed>>

\* Bound: no booking is attempted once the ids have run out.
CheckBooking(h, cart, start) ==
  LET items == Items(cart, start)
      staff == [n \in DOMAIN cart |-> StaffFor(cart[n], items[n])]
  IN  /\ CanStart(h)
      /\ \E o \in Orders : phase[o] = "none"
      /\ \E who \in [DOMAIN cart -> Staff \cup {Nobody}] :
           /\ \A n \in DOMAIN cart : who[n] \in staff[n]
           /\ Begin(h, [op |-> "book", booking |-> NewBooking(items, who)])

InsertBooking(h, o) ==
  /\ txn[h].op = "book"
  /\ Checkout!BookToPayOnline(o) \/ Checkout!BookToPayInPerson(o)
  /\ booking' = [booking EXCEPT ![o] = txn[h].booking]
  /\ txn' = [txn EXCEPT ![h] = Idle]
  /\ UNCHANGED <<swapped, strayed>>

-----------------------------------------------------------------------------
(* changeStaff                                                             *)

\* An item without staff counts as its order's: meant for legacy rows.
Effective(row, i) == IF row.assigned[i] = Nobody THEN row.staff ELSE row.assigned[i]

\* Mutant: included services are left with whoever had them.
CartItemsAssignedTo(row, s) ==
  {i \in DOMAIN row.assigned : i.kind = "service" /\ Effective(row, i) = s}

ServiceItemsAssignedTo(row, s) ==
  {i \in DOMAIN row.assigned : IsItem(i) /\ Effective(row, i) = s}

ItemsSlotWindow(items) ==
  [from |-> CHOOSE t \in {i.from : i \in items} : \A i \in items : t <= i.from,
   to |-> CHOOSE t \in {i.to : i \in items} : \A i \in items : i.to <= t]

\* Mutant: the calendar is not looked at.
EligibleStaffAtAnyTime(items, slot, excluded) ==
  {s \in Staff : \A i \in items : s \in Qualified[i.service]}

\* Mutant: qualified for one of the services is enough.
EligibleStaffForSome(items, slot, excluded) ==
  {s \in Staff :
     /\ \E i \in items : s \in Qualified[i.service]
     /\ IsStaffAvailable(s, slot, LoadOrderSlots({Day(slot.from)}, excluded))}

EligibleStaffForSlot(items, slot, excluded) ==
  {s \in Staff :
     /\ \A i \in items : s \in Qualified[i.service]
     /\ IsStaffAvailable(s, slot, LoadOrderSlots({Day(slot.from)}, excluded))}

CheckSwap(h, o, source, target) ==
  LET items == ServiceItemsAssignedTo(booking[o], source) IN
  /\ source # target
  /\ IsActive(o)
  /\ items # {}
  /\ target \in EligibleStaffForSlot(items, ItemsSlotWindow(items), o)
  /\ Begin(h, [op |-> "swap", order |-> o, items |-> items, target |-> target,
               mirrored |-> booking[o].staff = source])

\* Mutant: the mirror follows every swap.
WriteSwapAndMirror(h) ==
  LET work == txn[h] IN
  /\ work.op = "swap"
  /\ booking' = [booking EXCEPT ![work.order] =
       [@ EXCEPT
          !.staff = work.target,
          !.assigned = [i \in DOMAIN @ |-> IF i \in work.items THEN work.target ELSE @[i]]]]
  /\ txn' = [txn EXCEPT ![h] = Idle]
  /\ swapped' = swapped \cup {work.order}
  /\ UNCHANGED <<phase, money, strayed>>

\* Only the rows that were read as the source's are written.
HandedOver(row, items, target, mirrored) ==
  [row EXCEPT
     !.staff = IF mirrored THEN target ELSE row.staff,
     !.assigned = [i \in DOMAIN row.assigned |->
                     IF i \in items THEN target ELSE row.assigned[i]]]

WriteSwap(h) ==
  LET work == txn[h] IN
  /\ work.op = "swap"
  /\ booking' = [booking EXCEPT ![work.order] =
       HandedOver(@, work.items, work.target, work.mirrored)]
  /\ txn' = [txn EXCEPT ![h] = Idle]
  /\ swapped' = swapped \cup {work.order}
  /\ UNCHANGED <<phase, money, strayed>>

-----------------------------------------------------------------------------
(* rescheduleOrder: the window of the order moves, as long as its first    *)
(* service; the slots of its items stay, and no calendar is consulted.     *)

CheckReschedule(h, o, start) ==
  /\ IsActive(o)
  /\ Begin(h, [op |-> "move", order |-> o, from |-> start,
               to |-> start + Duration[booking[o].service]])

WriteReschedule(h) ==
  LET work == txn[h] IN
  /\ work.op = "move"
  /\ booking' = [booking EXCEPT ![work.order] =
       [@ EXCEPT !.from = work.from, !.to = work.to]]
  /\ txn' = [txn EXCEPT ![h] = Idle]
  /\ strayed' = strayed \cup {work.order}
  /\ UNCHANGED <<phase, money, swapped>>

-----------------------------------------------------------------------------
\* A request ends without a write: an error, a timeout, a crash.
Abandon(h) ==
  /\ txn[h] # Idle
  /\ txn' = [txn EXCEPT ![h] = Idle]
  /\ UNCHANGED <<phase, money, booking, swapped, strayed>>

\* Everything else that happens to an order that is booked.
Proceed(o) ==
  /\ \/ Checkout!Capture(o)
     \/ Checkout!GiveUp(o)
     \/ Checkout!Finish(o)
     \/ Checkout!Lose({o})
  /\ strayed' = IF phase[o] = "void" /\ phase'[o] = "booked"
                THEN strayed \cup {o} ELSE strayed
  /\ UNCHANGED <<booking, txn, swapped>>

Next ==
  \/ \E h \in Requests :
       \/ \E cart \in Carts, start \in Starts : CheckBooking(h, cart, start)
       \/ \E o \in Orders :
            \/ InsertBooking(h, o)
            \/ \E source, target \in Staff : CheckSwap(h, o, source, target)
            \/ \E start \in Starts : CheckReschedule(h, o, start)
       \/ WriteSwap(h)
       \/ WriteReschedule(h)
       \/ Abandon(h)
  \/ \E o \in Orders : Proceed(o)

Spec == Init /\ [][Next]_vars

-----------------------------------------------------------------------------
Row == [kind: {"service", "component", "dependency"},
        service: Services, from: Nat, to: Nat]

IsBooking(row) ==
  /\ row.service \in Services /\ row.staff \in Staff \cup {Nobody}
  /\ row.from \in Nat /\ row.to \in Nat
  /\ \E items \in SUBSET DOMAIN row.assigned :
       items \subseteq Row /\ row.assigned \in [items -> Staff \cup {Nobody}]

TypeOK ==
  /\ phase \in [Orders -> {"none", "awaiting", "booked", "over", "void"}]
  /\ money \in [Orders -> {"none", "open", "captured", "lost"}]
  /\ DOMAIN booking = Orders
  /\ \A o \in Orders :
       IF phase[o] = "none" THEN booking[o] = NoBooking ELSE IsBooking(booking[o])
  /\ swapped \subseteq Orders /\ strayed \subseteq Orders

\* The slots an order holds of a staff member, as far as createBooking can
\* see them again: those of its items, and those of its combos' components
\* that fall to the order's own staff.  Included services take no slot.
Claims(o) ==
  LET row == booking[o] IN
  {[staff |-> row.assigned[i], from |-> i.from, to |-> i.to] :
     i \in {j \in DOMAIN row.assigned :
             \/ j.kind = "service" /\ row.assigned[j] # Nobody
             \/ j.kind = "component" /\ row.assigned[j] = row.staff /\ row.staff # Nobody}}

Clash(o, p) ==
  /\ o # p /\ IsActive(o) /\ IsActive(p)
  /\ \E a \in Claims(o), b \in Claims(p) : a.staff = b.staff /\ Overlaps(a, b)

\* When requests do not overlap, createBooking never gives two orders the
\* same person at the same time, whatever orders are dropped and completed
\* in between, as long as both stay as they were booked.
BookedOnce ==
  \A o, p \in Orders \ (swapped \cup strayed) : ~Clash(o, p)

\* When requests do not overlap, orders of a single service do not clash
\* even after swaps: what the swap looks at is all there is to look at.
IsSingle(o) ==
  /\ \A i, j \in DOMAIN booking[o].assigned : i.from = j.from
  /\ \A i \in DOMAIN booking[o].assigned : i.kind # "component"

SinglesNeverClash ==
  \A o, p \in Orders \ strayed : IsSingle(o) /\ IsSingle(p) => ~Clash(o, p)

\* However swaps and bookings interleave, the staff shown on an order that
\* begins with a plain service is the one who performs that service.
MirrorFollowsFirst ==
  \A o \in Orders : \A i \in DOMAIN booking[o].assigned :
    i.kind = "service" /\ (\A j \in DOMAIN booking[o].assigned : i.from <= j.from)
      => booking[o].assigned[i] = booking[o].staff

\* However swaps and bookings interleave, an included service is performed
\* by whoever performs the service it comes with.
DependenciesFollow ==
  \A o \in Orders : \A i, d \in DOMAIN booking[o].assigned :
    i.kind = "service" /\ d.kind = "dependency" /\ d.from = i.from
      => booking[o].assigned[d] = booking[o].assigned[i]

\* However swaps and bookings interleave, nobody is put down for a service
\* of a cart without being qualified for it (422 at booking and at swapping).
OnlyQualified ==
  \A o \in Orders : \A i \in DOMAIN booking[o].assigned :
    i.kind # "dependency" =>
      booking[o].assigned[i] \in Qualified[i.service] \cup {Nobody}

\* A swap gives nobody a slot that another order holds: eligible staff leave
\* out "double-booked options" (scheduling.service.ts:163-164).
SwapNeverClashes ==
  [][\A o, p \in Orders \ strayed :
       phase' = phase /\ ~Clash(o, p) => ~Clash(o, p)']_vars
=============================================================================
