------------------------------- MODULE Agenda -------------------------------
(***************************************************************************)
(* The agenda of a day that the reception works with: getAgenda and        *)
(* toAppointmentDtoForItems in src/commerce/commerce.service.ts.  It       *)
(* changes nothing: it is a function of the calendar that StaffCalendar    *)
(* keeps, one column for each member of the staff and one for what nobody  *)
(* has taken, each with one block for an order.                            *)
(*                                                                         *)
(* Its days are those of the tenant's time zone; the schedules, and the    *)
(* checks of StaffCalendar, go by UTC.                                     *)
(***************************************************************************)
EXTENDS StaffCalendar

CONSTANT Offset  \* tenant_configs: timezone, America/Sao_Paulo without a row

ASSUME OffsetAssumption == Offset \in Int

LocalDate(t) == Day(t + Offset)

\* Mutant: orders that wait for their payment are left out.
AgendaOrdersOfBooked(date) ==
  {o \in Orders : phase[o] \in {"booked", "over"} /\ LocalDate(booking[o].from) = date}

\* Orders that are over stay, those that were cancelled do not.
AgendaOrders(date) ==
  {o \in Orders : phase[o] \notin {"none", "void"} /\ LocalDate(booking[o].from) = date}

\* Mutant: everything is shown with the order's own staff.
ShownWithOrder(o, i) == booking[o].staff

\* The row of a combo holds no staff: its components, like what nobody has
\* taken, are shown with the order's own staff.
ShownWith(o, i) ==
  IF IsItem(i) THEN Effective(booking[o], i) ELSE booking[o].staff

\* A block reaches from the first to the last of a column's items.
Appointment(o, items) ==
  [order |-> o, block |-> ItemsSlotWindow(items),
   scheduled |-> [from |-> booking[o].from, to |-> booking[o].to]]

\* The column of a member of the staff, or that of Nobody.
Column(s, date) ==
  LET shown(o) == {i \in DOMAIN booking[o].assigned : ShownWith(o, i) = s} IN
  {Appointment(o, shown(o)) : o \in {p \in AgendaOrders(date) : shown(p) # {}}}

-----------------------------------------------------------------------------
Dates == {LocalDate(booking[o].from) : o \in {p \in Orders : phase[p] # "none"}}

Explains(a, slot) == Overlaps(a.block, slot) \/ Overlaps(a.scheduled, slot)

\* Whom a booking is refused although she works then has an appointment in her
\* column of the agenda that tells why, however bookings and swaps interleave:
\* the staff and the window of an order, which block her, do not drift from
\* the items, which are shown.  (A rescheduled order is shown at its old hours;
\* what explains there is the window that its block carries along.)
BusyIsShown ==
  \A s \in Staff :
    LET shown == UNION {Column(s, date) : date \in Dates}
        slots == {[from |-> t, to |-> t + Duration[v]] : t \in Starts, v \in Services}
    IN  \A slot \in slots :
          FitsSchedule(s, slot) /\ ~IsStaffFreeAt(s, slot)
            => \E a \in shown : Explains(a, slot)

\* Whoever serves two parts of an order serves all that lies between them.
IsUnbroken(o) ==
  \A i, j, k \in DOMAIN booking[o].assigned :
    /\ booking[o].assigned[i] = booking[o].assigned[j]
    /\ i.from <= k.from /\ k.from <= j.from
    => booking[o].assigned[k] = booking[o].assigned[i]

IsPlain(o) ==
  \A i \in DOMAIN booking[o].assigned : IsItem(i) /\ booking[o].assigned[i] # Nobody

\* When requests do not overlap, no column shows two blocks at one time, for
\* orders that are as they were booked and hold neither combos nor services
\* that nobody has taken, which are shown with staff who were never asked, nor
\* a gap, which the block covers though it may be booked.
ColumnsNeverOverlap ==
  \A s \in Staff : \A a, b \in UNION {Column(s, date) : date \in Dates} :
    LET shown == {a.order, b.order} IN
      /\ a.order # b.order
      /\ \A o \in shown : /\ IsActive(o) /\ o \notin swapped \cup strayed
                         /\ IsPlain(o) /\ IsUnbroken(o)
      => ~Overlaps(a.block, b.block)
=============================================================================
