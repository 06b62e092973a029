------------------------- MODULE OrderPaymentProofs -------------------------
(***************************************************************************)
(* Proofs about OrderPayment for any number of orders, requests and        *)
(* scheduler processes.  The first part holds however handlers interleave; *)
(* the second is about handlers that do not overlap.                       *)
(***************************************************************************)
EXTENDS OrderPayment, TLAPS

-----------------------------------------------------------------------------
(* Operators on rows.                                                      *)

\* Moving a row to a state with its timestamp gives a row.
LEMMA MovedRow ==
  ASSUME NEW row \in Row, NEW state \in States, NEW stamp \in Stamps
  PROVE  /\ Moved(row, state, stamp) \in Row
         /\ Moved(row, state, stamp).state = state
         /\ Moved(row, state, stamp).stamps = row.stamps \cup {stamp}
         /\ Moved(row, state, stamp).requires_payment = row.requires_payment
         /\ Moved(row, state, stamp).cancellation_reason = row.cancellation_reason
  BY DEF Moved, Row

\* Releasing a row cancels it and dates the cancellation.
LEMMA ReleasedRow ==
  ASSUME NEW row \in Row, NEW reason \in Reasons
  PROVE  /\ Released(row, reason) \in Row
         /\ Released(row, reason).state = "cancelled"
         /\ Released(row, reason).stamps = row.stamps \cup {"cancelled_at"}
         /\ Released(row, reason).requires_payment = row.requires_payment
  BY DEF Released, Moved, Row, Reasons, States, Stamps

\* A flush changes the state, the reason and the timestamps of a row, the
\* state only when the handler changed it, and takes no timestamp away.
LEMMA MergedRow ==
  ASSUME NEW row \in Row, NEW work \in Work
  PROVE  /\ Merged(row, work) \in Row
         /\ Merged(row, work).state =
              IF work.want.state = work.seen.state THEN row.state ELSE work.want.state
         /\ Merged(row, work).stamps = row.stamps \cup work.want.stamps
         /\ Merged(row, work).requires_payment = row.requires_payment
  BY DEF Merged, Column, Row, Work

-----------------------------------------------------------------------------
(* Type correctness.                                                       *)

\* Starting a handler with well-typed work keeps the types.
LEMMA BeginType ==
  ASSUME TypeOK, NEW h \in Handlers, NEW batch \in SUBSET Orders,
         NEW work \in [batch -> Work], Begin(h, work)
  PROVE  TypeOK'
  BY DEF TypeOK, Begin

\* A change of a single order is well-typed work when the new row is a row.
LEMMA ChangeType ==
  ASSUME TypeOK, NEW h \in Handlers, NEW o \in Orders, NEW want \in Row,
         Change(h, o, want)
  PROVE  TypeOK'
  <1> DEFINE work == [p \in {o} |-> [seen |-> order[o], want |-> want, pay |-> "kept"]]
  <1>1. order[o] \in Row
    BY DEF TypeOK
  <1>2. work \in [{o} -> Work]
    BY <1>1 DEF Work
  <1>3. Begin(h, work)
    BY DEF Change
  <1> QED
    BY <1>2, <1>3, BeginType

\* Every operation of OrderPayment keeps the types.
LEMMA TypeStep == TypeOK /\ [Next]_vars => TypeOK'
  <1> SUFFICES ASSUME TypeOK, [Next]_vars PROVE TypeOK'
    OBVIOUS
  <1>1. ASSUME NEW o \in Orders, NEW f \in {"appointment", "pickup"},
               NEW t \in BOOLEAN, NEW b \in BOOLEAN, CreateBooking(o, f, t, b)
        PROVE  TypeOK'
    BY <1>1 DEF CreateBooking, StartCheckout, TypeOK, NoOrder, Row, States, PaymentStates, Reasons
  <1>2. ASSUME NEW h \in Requests, NEW o \in Orders, NEW to \in States,
               NEW from, NEW stamp \in Stamps, Transition(h, o, from, to, stamp)
        PROVE  TypeOK'
    <2>1. Moved(order[o], to, stamp) \in Row
      BY MovedRow DEF TypeOK
    <2> QED
      BY <1>2, <2>1, ChangeType DEF Transition, Handlers
  <1>3. ASSUME NEW h \in Requests, NEW o \in Orders, MarkPickedUp(h, o)
        PROVE  TypeOK'
    <2>1. Moved(order[o], "completed", "picked_up_at") \in Row
      BY MovedRow DEF TypeOK, States, Stamps
    <2> QED
      BY <1>3, <2>1, ChangeType DEF MarkPickedUp, Handlers
  <1>4. ASSUME NEW h \in Requests, NEW o \in Orders, CancelOrder(h, o)
        PROVE  TypeOK'
    <2> DEFINE moved == Moved(order[o], "cancelled", "cancelled_at")
    <2>1. moved \in Row
      BY MovedRow DEF TypeOK, States, Stamps
    <2> HIDE DEF moved
    <2>2. [moved EXCEPT !.cancellation_reason = "given"] \in Row
      BY <2>1 DEF Row, Reasons
    <2>3. Change(h, o, [moved EXCEPT !.cancellation_reason = "given"])
      BY <1>4 DEF CancelOrder, moved
    <2> QED
      BY <2>2, <2>3, ChangeType DEF Handlers
  <1>5. ASSUME NEW h \in Requests, NEW o \in Orders, NEW outcome \in Outcomes,
               HandleWebhookEvent(h, o, outcome)
        PROVE  TypeOK'
    <2> DEFINE work ==
          [p \in {o} |->
             IF outcome = "success"
             THEN [seen |-> order[o],
                   want |-> [order[o] EXCEPT !.state = "confirmed"],
                   pay |-> "succeeded"]
             ELSE [seen |-> order[o],
                   want |-> Released(order[o], "payment_failed"),
                   pay |-> "failed"]]
    <2>1. order[o] \in Row
      BY DEF TypeOK
    <2>2. Released(order[o], "payment_failed") \in Row
      BY <2>1, ReleasedRow DEF Reasons
    <2>3. [order[o] EXCEPT !.state = "confirmed"] \in Row
      BY <2>1 DEF Row, States
    <2>4. work \in [{o} -> Work]
      BY <2>1, <2>2, <2>3 DEF Work, PaymentTerminal
    <2>5. Begin(h, work)
      BY <1>5 DEF HandleWebhookEvent
    <2> QED
      BY <2>4, <2>5, BeginType DEF Handlers
  <1>6. ASSUME NEW h \in Handlers, NEW force \in BOOLEAN, ExpirePending(h, force)
        PROVE  TypeOK'
    <2> DEFINE overdue == {o \in Orders : payment[o] = "pending" /\ (force \/ o \in due)}
               work == [o \in overdue |->
                          [seen |-> order[o],
                           want |-> Released(order[o], "payment_expired"),
                           pay |-> "expired"]]
    <2>1. \A o \in overdue : order[o] \in Row
      BY DEF TypeOK
    <2>2. \A o \in overdue : Released(order[o], "payment_expired") \in Row
      BY <2>1, ReleasedRow DEF Reasons
    <2>3. work \in [overdue -> Work]
      BY <2>1, <2>2 DEF Work, PaymentTerminal
    <2>4. Begin(h, work)
      BY <1>6 DEF ExpirePending
    <2> QED
      BY <2>3, <2>4, BeginType
  <1>7. ASSUME NEW h \in Handlers, Flush(h)
        PROVE  TypeOK'
    <2>1. PICK batch \in SUBSET Orders : txn[h] \in [batch -> Work]
      BY DEF TypeOK
    <2>2. \A o \in DOMAIN txn[h] : Merged(order[o], txn[h][o]) \in Row
      BY <2>1, MergedRow DEF TypeOK
    <2>3. order' \in [Orders -> Row]
      BY <1>7, <2>2 DEF Flush, TypeOK
    <2>4. payment' \in [Orders -> PaymentStates]
      BY <1>7, <2>1 DEF Flush, TypeOK, Work, PaymentStates
    <2>5. NoWork \in [{} -> Work]
      BY DEF NoWork
    <2> QED
      BY <1>7, <2>3, <2>4, <2>5 DEF Flush, TypeOK
  <1>8. ASSUME NEW h \in Handlers, Abort(h)
        PROVE  TypeOK'
    <2>1. NoWork \in [{} -> Work]
      BY DEF NoWork
    <2> QED
      BY <1>8, <2>1 DEF Abort, TypeOK
  <1>9. ASSUME NEW o \in Orders, NEW outcome \in Outcomes, ProviderPosts(o, outcome)
        PROVE  TypeOK'
    BY <1>9 DEF ProviderPosts, TypeOK
  <1>10. ASSUME NEW o \in Orders, ExpiryPasses(o)
         PROVE  TypeOK'
    BY <1>10 DEF ExpiryPasses, TypeOK
  <1>11. CASE UNCHANGED vars
    BY <1>11 DEF vars, TypeOK
  <1> QED
    BY <1>1, <1>2, <1>3, <1>4, <1>5, <1>6, <1>7, <1>8, <1>9, <1>10, <1>11
       DEF Next, ReceptionStep, Handlers, CheckIn, Start, Complete, NoShow, States, Stamps

\* The empty tables are well typed.
LEMMA TypeInit == Init => TypeOK
  <1>1. NoOrder \in Row
    BY DEF NoOrder, Row, States, Reasons
  <1>2. NoWork \in [{} -> Work]
    BY DEF NoWork
  <1> QED
    BY <1>1, <1>2 DEF Init, TypeOK, PaymentStates

\* The tables and the handlers' copies always hold rows of the right types.
THEOREM TypeCorrect == Spec => []TypeOK
  BY TypeInit, TypeStep, PTL DEF Spec

-----------------------------------------------------------------------------
(* Safety under every interleaving.                                        *)

\* The inductive invariant: the stored rows, and what the copies in flight
\* may still do to them.
IInv ==
  /\ TypeOK
  /\ PendingTogether
  /\ PaidBeforeServed
  /\ TrailComplete
  /\ InFlightOK

\* A handler that starts from copies satisfying HeldOK keeps the invariant.
LEMMA BeginInv ==
  ASSUME IInv, NEW h \in Handlers, NEW batch \in SUBSET Orders,
         NEW work \in [batch -> Work], Begin(h, work),
         \A o \in batch : HeldOK(o, work[o])
  PROVE  IInv'
  <1>1. TypeOK'
    BY BeginType DEF IInv
  <1>2. UNCHANGED <<order, payment, due, sent>>
    BY DEF Begin
  <1>3. PendingTogether' /\ PaidBeforeServed' /\ TrailComplete'
    BY <1>2 DEF IInv, PendingTogether, PaidBeforeServed, TrailComplete
  <1>4. ASSUME NEW g \in Handlers, NEW o \in DOMAIN txn'[g]
        PROVE  HeldOK(o, txn[g][o])'
    <2>1. HeldOK(o, txn'[g][o])
      BY DEF IInv, InFlightOK, TypeOK, Begin
    <2> QED
      BY <1>2, <2>1 DEF HeldOK
  <1> QED
    BY <1>1, <1>3, <1>4 DEF IInv, InFlightOK

\* A change of one order that leaves the payment alone keeps the invariant,
\* provided the order is past its payment or is being cancelled.
LEMMA ChangeInv ==
  ASSUME IInv, NEW h \in Handlers, NEW o \in Orders, NEW want \in Row,
         Change(h, o, want),
         order[o].state # "none",
         want.state \notin {"none", "pending_payment"},
         want.state # order[o].state,
         StagesOf(want.state) \subseteq want.stamps,
         want.state = "cancelled" \/ order[o].state \in Served
  PROVE  IInv'
  <1> DEFINE entry == [seen |-> order[o], want |-> want, pay |-> "kept"]
             work == [p \in {o} |-> entry]
  <1>1. order[o] \in Row
    BY DEF IInv, TypeOK
  <1>2. work \in [{o} -> Work]
    BY <1>1 DEF Work
  <1>3. Begin(h, work)
    BY DEF Change
  <1>4. want.state \in Served /\ order[o].requires_payment => "success" \in sent[o]
    BY DEF IInv, PaidBeforeServed, Served
  <1>5. want.state # "cancelled" => payment[o] # "pending"
    BY DEF IInv, PendingTogether, Served
  <1>6. HeldOK(o, entry)
    BY <1>4, <1>5 DEF HeldOK
  <1> QED
    BY <1>2, <1>3, <1>6, BeginInv

\* A flush keeps the invariant.
LEMMA FlushInv ==
  ASSUME IInv, NEW h \in Handlers, Flush(h), TypeOK'
  PROVE  IInv'
  <1> USE DEF IInv
  <1>1. PICK batch \in SUBSET Orders : txn[h] \in [batch -> Work]
    BY DEF TypeOK
  <1>2. \A o \in batch : /\ txn[h][o] \in Work
                         /\ HeldOK(o, txn[h][o])
    BY <1>1 DEF InFlightOK
  <1>3. \A o \in Orders : order[o] \in Row /\ payment[o] \in PaymentStates
    BY DEF TypeOK
  <1>4. \A o \in batch :
          /\ order'[o].state = IF txn[h][o].want.state = txn[h][o].seen.state
                               THEN order[o].state ELSE txn[h][o].want.state
          /\ order'[o].stamps = order[o].stamps \cup txn[h][o].want.stamps
          /\ order'[o].requires_payment = order[o].requires_payment
    BY <1>1, <1>2, <1>3, MergedRow DEF Flush
  <1>5. \A o \in Orders \ batch : order'[o] = order[o] /\ payment'[o] = payment[o]
    BY <1>1 DEF Flush
  <1>6. \A o \in batch : payment'[o] = IF txn[h][o].pay # "kept"
                                       THEN txn[h][o].pay ELSE payment[o]
    BY <1>1 DEF Flush
  <1>7. \A o \in batch : txn[h][o].pay # "kept" => txn[h][o].pay \in PaymentTerminal
    BY <1>2 DEF Work
  <1>8. sent' = sent
    BY DEF Flush
  <1>9. ASSUME NEW o \in Orders, order'[o].state = "pending_payment"
        PROVE  payment'[o] = "pending"
    <2>1. CASE o \in batch
      BY <1>2, <1>4, <1>9, <2>1 DEF HeldOK
    <2>2. CASE o \notin batch
      BY <1>5, <1>9, <2>2 DEF PendingTogether
    <2> QED
      BY <2>1, <2>2
  <1>10. ASSUME NEW o \in Orders, payment'[o] = "pending"
         PROVE  order'[o].state \in {"pending_payment", "cancelled"}
    <2>1. CASE o \in batch
      <3>1. txn[h][o].pay = "kept" /\ payment[o] = "pending"
        BY <1>6, <1>7, <1>10, <2>1 DEF PaymentTerminal
      <3>2. txn[h][o].want.state = "cancelled"
        BY <1>2, <2>1, <3>1 DEF HeldOK
      <3> QED
        BY <1>4, <2>1, <3>1, <3>2 DEF PendingTogether
    <2>2. CASE o \notin batch
      BY <1>5, <1>10, <2>2 DEF PendingTogether
    <2> QED
      BY <2>1, <2>2
  <1>11. PendingTogether'
    BY <1>9, <1>10 DEF PendingTogether
  <1>12. PaidBeforeServed'
    BY <1>2, <1>4, <1>5, <1>8 DEF PaidBeforeServed, HeldOK
  <1>13. TrailComplete'
    BY <1>2, <1>4, <1>5 DEF TrailComplete, HeldOK
  <1>14. ASSUME NEW g \in Handlers, NEW o \in DOMAIN txn'[g]
         PROVE  HeldOK(o, txn[g][o])'
    <2>1. txn'[g] = txn[g] /\ g # h
      BY <1>14 DEF Flush, NoWork, TypeOK
    <2>2. o \in Orders /\ HeldOK(o, txn[g][o])
      BY <1>14, <2>1 DEF InFlightOK, TypeOK
    <2>3. CASE o \in batch
      <3>1. order[o].state # "none" /\ order'[o].state # "none"
        BY <1>2, <1>4, <2>2, <2>3 DEF HeldOK
      <3>2. order[o].state # "pending_payment" => order'[o].state # "pending_payment"
        BY <1>2, <1>4, <2>3 DEF HeldOK
      <3>3. payment[o] # "pending" => payment'[o] # "pending"
        BY <1>6, <1>7, <2>3 DEF PaymentTerminal
      <3> QED
        BY <1>4, <1>8, <2>1, <2>2, <2>3, <3>1, <3>2, <3>3 DEF HeldOK
    <2>4. CASE o \notin batch
      BY <1>5, <1>8, <2>1, <2>2, <2>4 DEF HeldOK
    <2> QED
      BY <2>3, <2>4
  <1> QED
    BY <1>11, <1>12, <1>13, <1>14 DEF InFlightOK

\* The empty tables satisfy the invariant.
LEMMA InvInit == Init => IInv
  BY TypeInit DEF Init, IInv, PendingTogether, PaidBeforeServed, TrailComplete,
     InFlightOK, NoOrder, NoWork, StagesOf, Served

\* Every operation of OrderPayment keeps the invariant.
LEMMA InvStep == IInv /\ [Next]_vars => IInv'
  <1> SUFFICES ASSUME IInv, [Next]_vars PROVE IInv'
    OBVIOUS
  <1>0. TypeOK'
    BY TypeStep DEF IInv
  <1>r. \A o \in Orders : order[o] \in Row
    BY DEF IInv, TypeOK
  <1>1. ASSUME NEW o \in Orders, NEW f \in {"appointment", "pickup"},
               NEW t \in BOOLEAN, NEW b \in BOOLEAN, CreateBooking(o, f, t, b)
        PROVE  IInv'
    <2>1. \A h \in Handlers : o \notin DOMAIN txn[h]
      BY <1>1 DEF CreateBooking, StartCheckout, IInv, InFlightOK, HeldOK
    <2>2. payment[o] # "pending"
      BY <1>1 DEF CreateBooking, StartCheckout, IInv, PendingTogether
    <2>3. \A p \in Orders \ {o} : order'[p] = order[p] /\ payment'[p] = payment[p]
      BY <1>1 DEF CreateBooking, StartCheckout, IInv, TypeOK
    <2>4. /\ order'[o].state = IF t /\ ~b THEN "pending_payment" ELSE "confirmed"
          /\ order'[o].requires_payment = (t /\ ~b)
          /\ payment'[o] = IF t /\ ~b THEN "pending" ELSE payment[o]
      BY <1>1 DEF CreateBooking, StartCheckout, IInv, TypeOK, NoOrder
    <2>5. PendingTogether'
      BY <2>2, <2>3, <2>4 DEF IInv, PendingTogether
    <2>6. UNCHANGED <<sent, txn>>
      BY <1>1 DEF CreateBooking, StartCheckout
    <2>7. PaidBeforeServed'
      BY <2>3, <2>4, <2>6 DEF IInv, PaidBeforeServed, Served
    <2>8. TrailComplete'
      BY <2>3, <2>4 DEF IInv, TrailComplete, StagesOf
    <2>9. ASSUME NEW h \in Handlers, NEW p \in DOMAIN txn[h]
          PROVE  HeldOK(p, txn[h][p])'
      <3>1. p \in Orders \ {o}
        BY <2>1, <2>9 DEF IInv, TypeOK
      <3> QED
        BY <2>3, <2>6, <3>1 DEF IInv, InFlightOK, HeldOK
    <2> QED
      BY <1>0, <2>5, <2>6, <2>7, <2>8, <2>9 DEF IInv, InFlightOK
  <1>2. ASSUME NEW h \in Requests, NEW o \in Orders, NEW to \in States,
               NEW from \in Served, NEW stamp \in Stamps,
               to \in Served, to # from,
               StagesOf(to) \subseteq StagesOf(from) \cup {stamp},
               Transition(h, o, from, to, stamp)
        PROVE  IInv'
    <2>1. order[o].state = from /\ StagesOf(from) \subseteq order[o].stamps
      BY <1>2 DEF Transition, IInv, TrailComplete
    <2> DEFINE want == Moved(order[o], to, stamp)
    <2>2. /\ want \in Row
          /\ want.state = to
          /\ want.stamps = order[o].stamps \cup {stamp}
      BY <1>r, MovedRow
    <2>3. Change(h, o, want)
      BY <1>2 DEF Transition
    <2>4. to \notin {"none", "pending_payment"} /\ from # "none"
      BY <1>2 DEF Served
    <2> HIDE DEF want
    <2> QED
      BY <1>2, <2>1, <2>2, <2>3, <2>4, ChangeInv DEF Handlers
  <1>3. ASSUME NEW h \in Requests, NEW o \in Orders, MarkPickedUp(h, o)
        PROVE  IInv'
    <2>1. Transition(h, o, "confirmed", "completed", "picked_up_at")
      BY <1>3 DEF MarkPickedUp, Transition
    <2> QED
      BY <1>2, <2>1 DEF Served, States, Stamps, StagesOf
  <1>4. ASSUME NEW h \in Requests, NEW o \in Orders, CancelOrder(h, o)
        PROVE  IInv'
    <2> DEFINE moved == Moved(order[o], "cancelled", "cancelled_at")
               want == [moved EXCEPT !.cancellation_reason = "given"]
    <2>1. /\ moved \in Row
          /\ moved.state = "cancelled"
          /\ moved.stamps = order[o].stamps \cup {"cancelled_at"}
      BY <1>r, MovedRow DEF States, Stamps
    <2> HIDE DEF moved
    <2>2. /\ want \in Row
          /\ want.state = "cancelled"
          /\ "cancelled_at" \in want.stamps
      BY <2>1 DEF Row, Reasons
    <2>3. Change(h, o, want)
      BY <1>4 DEF CancelOrder, moved
    <2>4. order[o].state \notin {"none", "cancelled"}
      BY <1>4 DEF CancelOrder
    <2> HIDE DEF want
    <2> QED
      BY <2>2, <2>3, <2>4, ChangeInv DEF Handlers, StagesOf
  <1>5. ASSUME NEW h \in Requests, NEW o \in Orders, NEW outcome \in Outcomes,
               HandleWebhookEvent(h, o, outcome)
        PROVE  IInv'
    <2> DEFINE kept == [seen |-> order[o],
                        want |-> [order[o] EXCEPT !.state = "confirmed"],
                        pay |-> "succeeded"]
               lost == [seen |-> order[o],
                        want |-> Released(order[o], "payment_failed"),
                        pay |-> "failed"]
               work == [p \in {o} |-> IF outcome = "success" THEN kept ELSE lost]
    <2>1. order[o].state \in {"pending_payment", "cancelled"}
      BY <1>5 DEF HandleWebhookEvent, IInv, PendingTogether
    <2>2. kept \in Work
      BY <1>r DEF Work, Row, States, PaymentTerminal
    <2>3. lost \in Work
      BY <1>r, ReleasedRow DEF Work, PaymentTerminal, Reasons
    <2>4. outcome = "success" => HeldOK(o, kept)
      BY <1>5, <1>r, <2>1 DEF HandleWebhookEvent, HeldOK, StagesOf, Row
    <2>5. HeldOK(o, lost)
      BY <1>r, <2>1, ReleasedRow DEF HeldOK, StagesOf, Served, Reasons
    <2>6. work \in [{o} -> Work] /\ Begin(h, work)
      BY <1>5, <2>2, <2>3 DEF HandleWebhookEvent
    <2>7. \A p \in {o} : HeldOK(p, work[p])
      BY <2>4, <2>5
    <2> HIDE DEF work
    <2> QED
      BY <2>6, <2>7, BeginInv DEF Handlers
  <1>6. ASSUME NEW h \in Handlers, NEW force \in BOOLEAN, ExpirePending(h, force)
        PROVE  IInv'
    <2> DEFINE overdue == {o \in Orders : payment[o] = "pending" /\ (force \/ o \in due)}
               lost(o) == [seen |-> order[o],
                           want |-> Released(order[o], "payment_expired"),
                           pay |-> "expired"]
               work == [o \in overdue |-> lost(o)]
    <2>1. ASSUME NEW o \in overdue
          PROVE  lost(o) \in Work /\ HeldOK(o, lost(o))
      <3>1. order[o].state \in {"pending_payment", "cancelled"}
        BY <2>1 DEF IInv, PendingTogether
      <3>2. lost(o) \in Work
        BY <1>r, ReleasedRow DEF Work, PaymentTerminal, Reasons
      <3>3. HeldOK(o, lost(o))
        BY <1>r, <3>1, ReleasedRow DEF HeldOK, StagesOf, Served, Reasons
      <3> QED
        BY <3>2, <3>3
    <2>2. Begin(h, work)
      BY <1>6 DEF ExpirePending
    <2> HIDE DEF lost
    <2>3. work \in [overdue -> Work] /\ \A o \in overdue : HeldOK(o, work[o])
      BY <2>1
    <2> HIDE DEF work
    <2> QED
      BY <2>2, <2>3, BeginInv
  <1>7. ASSUME NEW h \in Handlers, Flush(h)
        PROVE  IInv'
    BY <1>0, <1>7, FlushInv
  <1>8. ASSUME NEW h \in Handlers, Abort(h)
        PROVE  IInv'
    <2>1. UNCHANGED <<order, payment, sent>>
      BY <1>8 DEF Abort
    <2>2. \A g \in Handlers : \A o \in DOMAIN txn'[g] : txn'[g] = txn[g]
      BY <1>8 DEF Abort, NoWork, IInv, TypeOK
    <2>3. PendingTogether' /\ PaidBeforeServed' /\ TrailComplete'
      BY <2>1 DEF IInv, PendingTogether, PaidBeforeServed, TrailComplete
    <2> QED
      BY <1>0, <2>1, <2>2, <2>3 DEF IInv, InFlightOK, HeldOK
  <1>9. ASSUME NEW o \in Orders, NEW outcome \in Outcomes, ProviderPosts(o, outcome)
        PROVE  IInv'
    <2>1. UNCHANGED <<order, payment, txn>>
      BY <1>9 DEF ProviderPosts
    <2>2. \A p \in Orders : sent[p] \subseteq sent'[p]
      BY <1>9 DEF ProviderPosts, IInv, TypeOK
    <2>3. \A h \in Handlers : DOMAIN txn[h] \subseteq Orders
      BY DEF IInv, TypeOK
    <2>4. PendingTogether' /\ PaidBeforeServed' /\ TrailComplete'
      BY <2>1, <2>2 DEF IInv, PendingTogether, PaidBeforeServed, TrailComplete
    <2>5. InFlightOK'
      BY <2>1, <2>2, <2>3 DEF IInv, InFlightOK, HeldOK
    <2> QED
      BY <1>0, <2>4, <2>5 DEF IInv
  <1>10. ASSUME NEW o \in Orders, ExpiryPasses(o)
         PROVE  IInv'
    BY <1>0, <1>10 DEF ExpiryPasses, IInv, PendingTogether, PaidBeforeServed,
       TrailComplete, InFlightOK, HeldOK
  <1>11. CASE UNCHANGED vars
    BY <1>0, <1>11 DEF vars, IInv, PendingTogether, PaidBeforeServed,
       TrailComplete, InFlightOK, HeldOK
  <1>12. ASSUME NEW h \in Requests, NEW o \in Orders,
                CheckIn(h, o) \/ Start(h, o) \/ Complete(h, o) \/ NoShow(h, o)
         PROVE  IInv'
    <2>1. CASE CheckIn(h, o)
      BY <1>2, <2>1 DEF CheckIn, Served, States, Stamps, StagesOf
    <2>2. CASE Start(h, o)
      BY <1>2, <2>2 DEF Start, Served, States, Stamps, StagesOf
    <2>3. CASE Complete(h, o)
      BY <1>2, <2>3 DEF Complete, Served, States, Stamps, StagesOf
    <2>4. CASE NoShow(h, o)
      BY <1>2, <2>4 DEF NoShow, Served, States, Stamps, StagesOf
    <2> QED
      BY <1>12, <2>1, <2>2, <2>3, <2>4
  <1> QED
    BY <1>1, <1>3, <1>4, <1>5, <1>6, <1>7, <1>8, <1>9, <1>10, <1>11, <1>12
       DEF Next, ReceptionStep, Handlers

\* IInv holds however handlers interleave: the agreements of the tables, and
\* what every handler in flight may rely on when it flushes.
THEOREM Invariance == Spec => []IInv
  BY InvInit, InvStep, PTL DEF Spec

\* However handlers interleave, an order waits for payment exactly as long as
\* its session is open, unless it was cancelled meanwhile.
THEOREM PendingTogetherHolds == Spec => []PendingTogether
  <1>1. IInv => PendingTogether
    BY DEF IInv
  <1> QED
    BY <1>1, Invariance, PTL

\* However handlers interleave, nothing that must be paid is served unpaid.
THEOREM PaidBeforeServedHolds == Spec => []PaidBeforeServed
  <1>1. IInv => PaidBeforeServed
    BY DEF IInv
  <1> QED
    BY <1>1, Invariance, PTL

\* However handlers interleave, no stage of a visit is skipped.
THEOREM TrailCompleteHolds == Spec => []TrailComplete
  <1>1. IInv => TrailComplete
    BY DEF IInv
  <1> QED
    BY <1>1, Invariance, PTL

-----------------------------------------------------------------------------
(* Handlers that do not overlap.                                           *)

OneAtATime ==
  \A g, h \in Handlers : ~Idle(g) /\ ~Idle(h) => g = h

\* A move of the order that leaves its payment session alone.
KeptMove(from, want) ==
  /\ PhaseOf(from) \in {"booked", "awaiting"}
  /\ PhaseOf(from) = "awaiting" => want.state = "cancelled"
  /\ PhaseOf(want.state) \in {"booked", "over", "void"}
  /\ want.state = "cancelled" => want.cancellation_reason = "given"

\* With no other handler about, a copy is what is stored, and a session about
\* to be closed is open.
FreshOK(o, work) ==
  /\ work.seen = order[o]
  /\ work.pay = "kept" => KeptMove(work.seen.state, work.want)
  /\ work.pay # "kept" => payment[o] = "pending"
  /\ work.pay = "succeeded" => work.want.state = "confirmed"
  /\ work.pay \in {"failed", "expired"} => work.want.state = "cancelled"

\* Only the expiry and a failure touch more than what Capture, GiveUp or
\* Finish would: every other handler holds one order.
ShapeOK(work) ==
  \A o, p \in DOMAIN work : work[o].pay \in {"kept", "succeeded"} => p = o

NoSessionUnbooked ==
  \A o \in Orders : order[o].state = "none" => payment[o] = "none"

SerialInv ==
  /\ IInv
  /\ OneAtATime
  /\ \A h \in Handlers : ShapeOK(txn[h]) /\ \A o \in DOMAIN txn[h] : FreshOK(o, txn[h][o])
  /\ SettledTogether
  /\ NoSessionUnbooked

\* A flush of a copy that is still current stores exactly what was wanted.
LEMMA MergedFresh ==
  ASSUME NEW row \in Row, NEW work \in Work, work.seen = row
  PROVE  /\ Merged(row, work).state = work.want.state
         /\ Merged(row, work).cancellation_reason = work.want.cancellation_reason
  BY DEF Merged, Column, Row, Work

\* The empty tables satisfy the serial invariant.
LEMMA SerialInit == Init => SerialInv
  <1> SUFFICES ASSUME Init PROVE SerialInv
    OBVIOUS
  <1>1. \A h \in Handlers : DOMAIN txn[h] = {}
    BY DEF Init, NoWork
  <1>2. \A o \in Orders : payment[o] = "none"
    BY DEF Init
  <1> QED
    BY <1>1, <1>2, InvInit DEF Init, NoSessionUnbooked, SerialInv, OneAtATime, ShapeOK, SettledTogether, Idle

\* Starting a handler when none is in flight keeps the serial invariant.
LEMMA SerialBegin ==
  ASSUME Serial, SerialInv, IInv', NEW h \in Handlers, NEW batch \in SUBSET Orders,
         NEW work \in [batch -> Work], Begin(h, work),
         ShapeOK(work), \A o \in batch : FreshOK(o, work[o])
  PROVE  SerialInv'
  <1>1. UNCHANGED <<order, payment>>
    BY DEF Begin
  <1>2. \A g \in Handlers : DOMAIN txn[g] = {}
    BY DEF Begin, CanStart, Idle
  <1>3. \A g \in Handlers : txn'[g] = IF g = h THEN work ELSE txn[g]
    BY DEF Begin, SerialInv, IInv, TypeOK
  <1>4. OneAtATime'
    BY <1>2, <1>3 DEF OneAtATime, Idle
  <1>5. SettledTogether'
    BY <1>1 DEF SerialInv, SettledTogether
  <1>6. NoSessionUnbooked'
    BY <1>1 DEF SerialInv, NoSessionUnbooked
  <1>7. ASSUME NEW g \in Handlers
        PROVE  (ShapeOK(txn[g]) /\ \A o \in DOMAIN txn[g] : FreshOK(o, txn[g][o]))'
    BY <1>1, <1>2, <1>3 DEF ShapeOK, FreshOK
  <1> QED
    BY <1>4, <1>5, <1>6, <1>7 DEF SerialInv

\* The same for a change of one order that leaves its payment alone.
LEMMA SerialChange ==
  ASSUME Serial, SerialInv, IInv', NEW h \in Handlers, NEW o \in Orders,
         NEW want \in Row, Change(h, o, want), KeptMove(order[o].state, want)
  PROVE  SerialInv'
  <1> DEFINE entry == [seen |-> order[o], want |-> want, pay |-> "kept"]
             work == [p \in {o} |-> entry]
  <1>1. work \in [{o} -> Work]
    BY DEF Work, SerialInv, IInv, TypeOK
  <1>2. Begin(h, work)
    BY DEF Change
  <1>3. FreshOK(o, entry)
    BY DEF FreshOK
  <1>4. ShapeOK(work)
    BY DEF ShapeOK
  <1> QED
    BY <1>1, <1>2, <1>3, <1>4, SerialBegin

\* What a flush does when the handler was alone.
LEMMA SerialFlushEffect ==
  ASSUME SerialInv, NEW h \in Handlers, Flush(h)
  PROVE  /\ DOMAIN txn[h] \subseteq Orders
         /\ \A o \in DOMAIN txn[h] :
              /\ order'[o].state = txn[h][o].want.state
              /\ order'[o].cancellation_reason = txn[h][o].want.cancellation_reason
              /\ payment'[o] = IF txn[h][o].pay # "kept" THEN txn[h][o].pay ELSE payment[o]
              /\ txn[h][o] \in Work
         /\ \A o \in Orders \ DOMAIN txn[h] :
              order'[o] = order[o] /\ payment'[o] = payment[o]
  <1>1. PICK batch \in SUBSET Orders : txn[h] \in [batch -> Work]
    BY DEF SerialInv, IInv, TypeOK
  <1>2. \A o \in batch : /\ txn[h][o] \in Work
                         /\ order[o] \in Row
                         /\ txn[h][o].seen = order[o]
    BY <1>1 DEF SerialInv, IInv, TypeOK, FreshOK
  <1>3. \A o \in batch : order'[o] = Merged(order[o], txn[h][o])
    BY <1>1 DEF Flush
  <1>4. \A o \in batch :
          payment'[o] = IF txn[h][o].pay # "kept" THEN txn[h][o].pay ELSE payment[o]
    BY <1>1 DEF Flush
  <1>5. \A o \in Orders \ batch : order'[o] = order[o] /\ payment'[o] = payment[o]
    BY <1>1 DEF Flush
  <1> QED
    BY <1>1, <1>2, <1>3, <1>4, <1>5, MergedFresh

\* Every operation keeps the serial invariant.
LEMMA SerialStep == ASSUME Serial PROVE SerialInv /\ [Next]_vars => SerialInv'
  <1> SUFFICES ASSUME SerialInv, [Next]_vars PROVE SerialInv'
    OBVIOUS
  <1>0. IInv'
    BY InvStep DEF SerialInv
  <1>r. \A o \in Orders : order[o] \in Row
    BY DEF SerialInv, IInv, TypeOK
  <1>1. ASSUME NEW o \in Orders, NEW f \in {"appointment", "pickup"},
               NEW t \in BOOLEAN, NEW b \in BOOLEAN, CreateBooking(o, f, t, b)
        PROVE  SerialInv'
    <2>1. \A h \in Handlers : o \notin DOMAIN txn[h]
      BY <1>1 DEF CreateBooking, StartCheckout, SerialInv, IInv, InFlightOK, HeldOK
    <2>2. \A p \in Orders \ {o} : order'[p] = order[p] /\ payment'[p] = payment[p]
      BY <1>1 DEF CreateBooking, StartCheckout, SerialInv, IInv, TypeOK
    <2>3. /\ order'[o].state = IF t /\ ~b THEN "pending_payment" ELSE "confirmed"
          /\ payment'[o] = IF t /\ ~b THEN "pending" ELSE payment[o]
      BY <1>1 DEF CreateBooking, StartCheckout, SerialInv, IInv, TypeOK, NoOrder
    <2>4. payment[o] = "none"
      BY <1>1 DEF CreateBooking, StartCheckout, SerialInv, NoSessionUnbooked
    <2>5. SettledTogether'
      BY <2>2, <2>3, <2>4 DEF SerialInv, SettledTogether
    <2>6. txn' = txn
      BY <1>1 DEF CreateBooking, StartCheckout
    <2>7. \A h \in Handlers : DOMAIN txn[h] \subseteq Orders \ {o}
      BY <2>1 DEF SerialInv, IInv, TypeOK
    <2>8. \A h \in Handlers : (ShapeOK(txn[h]) /\ \A p \in DOMAIN txn[h] : FreshOK(p, txn[h][p]))'
      BY <2>2, <2>6, <2>7 DEF SerialInv, ShapeOK, FreshOK
    <2>9. NoSessionUnbooked'
      BY <2>2, <2>3 DEF SerialInv, NoSessionUnbooked
    <2> QED
      BY <1>0, <2>5, <2>6, <2>8, <2>9 DEF SerialInv, OneAtATime, Idle
  <1>2. ASSUME NEW h \in Requests, NEW o \in Orders, NEW to \in States,
               NEW from, NEW stamp \in Stamps, Transition(h, o, from, to, stamp),
               PhaseOf(from) = "booked", PhaseOf(to) \in {"booked", "over"},
               to # "cancelled"
        PROVE  SerialInv'
    <2> DEFINE want == Moved(order[o], to, stamp)
    <2>1. want \in Row /\ want.state = to
      BY <1>r, MovedRow
    <2>2. Change(h, o, want) /\ order[o].state = from
      BY <1>2 DEF Transition
    <2> HIDE DEF want
    <2>3. KeptMove(order[o].state, want)
      BY <1>2, <2>1, <2>2 DEF KeptMove
    <2> QED
      BY <1>0, <2>1, <2>2, <2>3, SerialChange DEF Handlers
  <1>3. ASSUME NEW h \in Requests, NEW o \in Orders, MarkPickedUp(h, o)
        PROVE  SerialInv'
    <2>1. Transition(h, o, "confirmed", "completed", "picked_up_at")
      BY <1>3 DEF MarkPickedUp, Transition
    <2> QED
      BY <1>2, <2>1 DEF States, Stamps, PhaseOf
  <1>4. ASSUME NEW h \in Requests, NEW o \in Orders, CancelOrder(h, o)
        PROVE  SerialInv'
    <2> DEFINE moved == Moved(order[o], "cancelled", "cancelled_at")
               want == [moved EXCEPT !.cancellation_reason = "given"]
    <2>1. moved \in Row /\ moved.state = "cancelled"
      BY <1>r, MovedRow DEF States, Stamps
    <2> HIDE DEF moved
    <2>2. want \in Row /\ want.state = "cancelled" /\ want.cancellation_reason = "given"
      BY <2>1 DEF Row, Reasons
    <2>3. Change(h, o, want)
      BY <1>4 DEF CancelOrder, moved
    <2>4. PhaseOf(order[o].state) \in {"awaiting", "booked"}
      BY <1>4 DEF CancelOrder, PhaseOf
    <2> HIDE DEF want
    <2>5. KeptMove(order[o].state, want)
      BY <2>2, <2>4 DEF KeptMove, PhaseOf
    <2> QED
      BY <1>0, <2>2, <2>3, <2>5, SerialChange DEF Handlers
  <1>5. ASSUME NEW h \in Requests, NEW o \in Orders, NEW outcome \in Outcomes,
               HandleWebhookEvent(h, o, outcome)
        PROVE  SerialInv'
    <2> DEFINE kept == [seen |-> order[o],
                        want |-> [order[o] EXCEPT !.state = "confirmed"],
                        pay |-> "succeeded"]
               lost == [seen |-> order[o],
                        want |-> Released(order[o], "payment_failed"),
                        pay |-> "failed"]
               work == [p \in {o} |-> IF outcome = "success" THEN kept ELSE lost]
    <2>1. payment[o] = "pending"
      BY <1>5 DEF HandleWebhookEvent
    <2>2. kept \in Work
      BY <1>r DEF Work, Row, States, PaymentTerminal
    <2>3. lost \in Work
      BY <1>r, ReleasedRow DEF Work, PaymentTerminal, Reasons
    <2>4. FreshOK(o, kept)
      BY <1>r, <2>1 DEF FreshOK, Row
    <2>5. FreshOK(o, lost)
      BY <1>r, <2>1, ReleasedRow DEF FreshOK, Reasons
    <2>6. work \in [{o} -> Work] /\ Begin(h, work) /\ ShapeOK(work)
      BY <1>5, <2>2, <2>3 DEF HandleWebhookEvent, ShapeOK
    <2>7. \A p \in {o} : FreshOK(p, work[p])
      BY <2>4, <2>5
    <2> HIDE DEF work
    <2> QED
      BY <1>0, <2>6, <2>7, SerialBegin DEF Handlers
  <1>6. ASSUME NEW h \in Handlers, NEW force \in BOOLEAN, ExpirePending(h, force)
        PROVE  SerialInv'
    <2> DEFINE overdue == {o \in Orders : payment[o] = "pending" /\ (force \/ o \in due)}
               lost(o) == [seen |-> order[o],
                           want |-> Released(order[o], "payment_expired"),
                           pay |-> "expired"]
               work == [o \in overdue |-> lost(o)]
    <2>1. ASSUME NEW o \in overdue
          PROVE  lost(o) \in Work /\ FreshOK(o, lost(o)) /\ lost(o).pay = "expired"
      BY <1>r, <2>1, ReleasedRow DEF Work, PaymentTerminal, Reasons, FreshOK
    <2>2. Begin(h, work)
      BY <1>6 DEF ExpirePending
    <2> HIDE DEF lost
    <2>3. work \in [overdue -> Work] /\ \A o \in overdue : FreshOK(o, work[o])
      BY <2>1
    <2>4. ShapeOK(work)
      BY <2>1 DEF ShapeOK
    <2> HIDE DEF work
    <2> QED
      BY <1>0, <2>2, <2>3, <2>4, SerialBegin
  <1>7. ASSUME NEW h \in Handlers, Flush(h)
        PROVE  SerialInv'
    <2>1. \A g \in Handlers : DOMAIN txn'[g] = {}
      BY <1>7 DEF Flush, NoWork, SerialInv, OneAtATime, Idle, IInv, TypeOK
    <2>2. \A o \in DOMAIN txn[h] : FreshOK(o, txn[h][o]) /\ txn[h][o].pay \in PaymentTerminal \cup {"kept"}
      BY <1>7, SerialFlushEffect DEF SerialInv, Work
    <2>3. ASSUME NEW o \in Orders
          PROVE  /\ payment'[o] \in {"failed", "expired"} => order'[o].state = "cancelled"
                 /\ payment'[o] = "succeeded" /\ order'[o].state = "cancelled"
                      => order'[o].cancellation_reason = "given"
      <3>1. CASE o \notin DOMAIN txn[h]
        BY <1>7, <3>1, SerialFlushEffect DEF SerialInv, SettledTogether
      <3>2. CASE o \in DOMAIN txn[h] /\ txn[h][o].pay = "kept"
        <4>1. payment[o] \notin {"failed", "expired"}
          BY <2>2, <3>2 DEF FreshOK, KeptMove, SerialInv, SettledTogether, PhaseOf
        <4> QED
          BY <1>7, <2>2, <3>2, <4>1, SerialFlushEffect DEF FreshOK, KeptMove
      <3>3. CASE o \in DOMAIN txn[h] /\ txn[h][o].pay # "kept"
        BY <1>7, <2>2, <3>3, SerialFlushEffect DEF FreshOK, PaymentTerminal
      <3> QED
        BY <3>1, <3>2, <3>3
    <2>4. SettledTogether'
      BY <2>3 DEF SettledTogether
    <2>5. ASSUME NEW o \in Orders, order'[o].state = "none"
          PROVE  payment'[o] = "none"
      <3>1. o \notin DOMAIN txn[h]
        BY <1>7, <2>5, SerialFlushEffect DEF SerialInv, IInv, InFlightOK, HeldOK
      <3> QED
        BY <1>7, <2>5, <3>1, SerialFlushEffect DEF SerialInv, NoSessionUnbooked
    <2> QED
      BY <1>0, <2>1, <2>4, <2>5 DEF SerialInv, OneAtATime, Idle, ShapeOK, NoSessionUnbooked
  <1>8. ASSUME NEW h \in Handlers, Abort(h)
        PROVE  SerialInv'
    <2>1. \A g \in Handlers : DOMAIN txn'[g] = {}
      BY <1>8 DEF Abort, NoWork, SerialInv, OneAtATime, Idle, IInv, TypeOK
    <2>2. SettledTogether' /\ NoSessionUnbooked'
      BY <1>8 DEF Abort, SerialInv, SettledTogether, NoSessionUnbooked
    <2> QED
      BY <1>0, <2>1, <2>2 DEF SerialInv, OneAtATime, Idle, ShapeOK
  <1>9. ASSUME UNCHANGED <<order, payment, txn>>
        PROVE  SerialInv'
    BY <1>0, <1>9 DEF SerialInv, OneAtATime, Idle, ShapeOK, FreshOK, SettledTogether,
       NoSessionUnbooked
  <1>10. ASSUME NEW h \in Requests, NEW o \in Orders,
                CheckIn(h, o) \/ Start(h, o) \/ Complete(h, o) \/ NoShow(h, o)
         PROVE  SerialInv'
    <2>1. CASE CheckIn(h, o)
      BY <1>2, <2>1 DEF CheckIn, States, Stamps, PhaseOf
    <2>2. CASE Start(h, o)
      BY <1>2, <2>2 DEF Start, States, Stamps, PhaseOf
    <2>3. CASE Complete(h, o)
      BY <1>2, <2>3 DEF Complete, States, Stamps, PhaseOf
    <2>4. CASE NoShow(h, o)
      BY <1>2, <2>4 DEF NoShow, States, Stamps, PhaseOf
    <2> QED
      BY <1>10, <2>1, <2>2, <2>3, <2>4
  <1> QED
    BY <1>1, <1>3, <1>4, <1>5, <1>6, <1>7, <1>8, <1>9, <1>10
       DEF Next, ReceptionStep, Handlers, ProviderPosts, ExpiryPasses, vars

\* When handlers do not overlap, what a handler holds is still what is stored.
THEOREM SerialInvariance == ASSUME Serial PROVE Spec => []SerialInv
  BY SerialInit, SerialStep, PTL DEF Spec

\* When handlers do not overlap, an order and its session agree on the end.
THEOREM SettledTogetherHolds == ASSUME Serial PROVE Spec => []SettledTogether
  <1>1. SerialInv => SettledTogether
    BY DEF SerialInv
  <1> QED
    BY <1>1, SerialInvariance, PTL

\* When handlers do not overlap, a session that has ended never changes again.
THEOREM OneOutcomeHolds == ASSUME Serial PROVE Spec => OneOutcomePerSession
  <1> DEFINE Keeps == \A o \in Orders : payment[o] \in PaymentTerminal => payment'[o] = payment[o]
  <1>1. SerialInv /\ [Next]_vars => [Keeps]_vars
    <2> SUFFICES ASSUME SerialInv, Next PROVE Keeps
      OBVIOUS
    <2>1. ASSUME NEW h \in Handlers, Flush(h), NEW o \in Orders, payment[o] \in PaymentTerminal
          PROVE  payment'[o] = payment[o]
      BY <2>1, SerialFlushEffect DEF SerialInv, FreshOK, PaymentTerminal
    <2>2. ASSUME NEW o \in Orders, NEW f \in {"appointment", "pickup"},
                 NEW t \in BOOLEAN, NEW b \in BOOLEAN, CreateBooking(o, f, t, b),
                 NEW p \in Orders, payment[p] \in PaymentTerminal
          PROVE  payment'[p] = payment[p]
      BY <2>2 DEF CreateBooking, StartCheckout, SerialInv, IInv, TypeOK, NoSessionUnbooked, PaymentTerminal
    <2> QED
      BY <2>1, <2>2 DEF Next, ReceptionStep, Handlers, CheckIn, Start, Complete, NoShow, Transition,
         MarkPickedUp, CancelOrder, HandleWebhookEvent, ExpirePending, Change, Begin,
         Abort, ProviderPosts, ExpiryPasses
  <1> QED
    BY <1>1, SerialInvariance, PTL DEF Spec, OneOutcomePerSession

-----------------------------------------------------------------------------
(* Refinement.                                                             *)

Phase == [o \in Orders |-> PhaseOf(order[o].state)]
Money == [o \in Orders |-> MoneyOf(payment[o])]

\* A flush of a handler that was alone is one step of the contract.
LEMMA FlushRefines ==
  ASSUME SerialInv, SerialInv', NEW h \in Handlers, Flush(h)
  PROVE  [Contract!Next]_<<Phase, Money>>
  <1> DEFINE batch == DOMAIN txn[h]
  <1>1. /\ batch \subseteq Orders
        /\ \A o \in batch :
             /\ order'[o].state = txn[h][o].want.state
             /\ payment'[o] = IF txn[h][o].pay # "kept" THEN txn[h][o].pay ELSE payment[o]
             /\ txn[h][o].pay \in PaymentTerminal \cup {"kept"}
             /\ FreshOK(o, txn[h][o])
        /\ \A o \in Orders \ batch : order'[o] = order[o] /\ payment'[o] = payment[o]
    BY SerialFlushEffect DEF SerialInv, Work
  <1>2. ASSUME NEW o \in batch, txn[h][o].pay = "kept"
        PROVE  [Contract!Next]_<<Phase, Money>>
    <2>1. \A p \in Orders \ {o} : order'[p] = order[p] /\ payment'[p] = payment[p]
      BY <1>1, <1>2 DEF SerialInv, ShapeOK
    <2>2. payment'[o] = payment[o] /\ order'[o].state = txn[h][o].want.state
      BY <1>1, <1>2
    <2>3. KeptMove(order[o].state, txn[h][o].want)
      BY <1>1, <1>2 DEF FreshOK
    <2>4. Money' = Money
      BY <2>1, <2>2 DEF Money
    <2>5. Phase' = [Phase EXCEPT ![o] = PhaseOf(order'[o].state)]
      BY <2>1 DEF Phase
    <2>6. o \in Orders /\ Phase[o] = PhaseOf(order[o].state)
      BY <1>1 DEF Phase
    <2>7. CASE PhaseOf(order'[o].state) = "booked"
      <3>1. Phase[o] = "booked"
        BY <2>2, <2>3, <2>6, <2>7 DEF KeptMove, PhaseOf
      <3> QED
        BY <2>4, <2>5, <2>7, <3>1 DEF Phase
    <2>8. CASE PhaseOf(order'[o].state) = "over"
      <3>1. Phase[o] = "booked"
        BY <2>2, <2>3, <2>6, <2>8 DEF KeptMove, PhaseOf
      <3>2. Contract!Finish(o)
        BY <2>4, <2>5, <2>8, <3>1 DEF Contract!Finish, Phase, Money
      <3> QED
        BY <2>6, <3>2 DEF Contract!Next
    <2>9. CASE PhaseOf(order'[o].state) = "void"
      <3>1. Phase[o] \in {"awaiting", "booked"}
        BY <2>3, <2>6 DEF KeptMove
      <3>2. Contract!GiveUp(o)
        BY <2>4, <2>5, <2>9, <3>1 DEF Contract!GiveUp, Phase, Money
      <3> QED
        BY <2>6, <3>2 DEF Contract!Next
    <2> QED
      BY <2>2, <2>3, <2>7, <2>8, <2>9 DEF KeptMove
  <1>3. ASSUME NEW o \in batch, txn[h][o].pay = "succeeded"
        PROVE  [Contract!Next]_<<Phase, Money>>
    <2>1. \A p \in Orders \ {o} : order'[p] = order[p] /\ payment'[p] = payment[p]
      BY <1>1, <1>3 DEF SerialInv, ShapeOK
    <2>2. payment'[o] = "succeeded" /\ order'[o].state = "confirmed"
      BY <1>1, <1>3 DEF FreshOK
    <2>3. o \in Orders /\ payment[o] = "pending"
      BY <1>1, <1>3 DEF FreshOK
    <2>4. order[o].state \in {"pending_payment", "cancelled"}
      BY <2>3 DEF SerialInv, IInv, PendingTogether
    <2>5. Phase' = [Phase EXCEPT ![o] = "booked"]
      BY <2>1, <2>2 DEF Phase, PhaseOf
    <2>6. Money' = [Money EXCEPT ![o] = "captured"]
      BY <2>1, <2>2 DEF Money, MoneyOf
    <2>7. Phase[o] \in {"awaiting", "void"} /\ Money[o] = "open"
      BY <2>3, <2>4 DEF Phase, Money, PhaseOf, MoneyOf
    <2>8. Contract!Capture(o)
      BY <2>5, <2>6, <2>7 DEF Contract!Capture, Phase, Money
    <2> QED
      BY <2>3, <2>8 DEF Contract!Next
  <1>4. ASSUME \A o \in batch : txn[h][o].pay \in {"failed", "expired"}
        PROVE  [Contract!Next]_<<Phase, Money>>
    <2>1. \A o \in batch :
            /\ PhaseOf(order'[o].state) = "void"
            /\ MoneyOf(payment'[o]) = "lost"
            /\ payment[o] = "pending"
      BY <1>1, <1>4 DEF FreshOK, PhaseOf, MoneyOf
    <2>2. \A o \in batch : Phase[o] \in {"awaiting", "void"} /\ Money[o] = "open"
      BY <1>1, <2>1 DEF SerialInv, IInv, PendingTogether, Phase, Money, PhaseOf, MoneyOf
    <2>3. Phase' = [o \in Orders |-> IF o \in batch THEN "void" ELSE Phase[o]]
      BY <1>1, <2>1 DEF Phase
    <2>4. Money' = [o \in Orders |-> IF o \in batch THEN "lost" ELSE Money[o]]
      BY <1>1, <2>1 DEF Money
    <2>5. Contract!Lose(batch)
      BY <2>2, <2>3, <2>4 DEF Contract!Lose, Phase, Money
    <2> QED
      BY <1>1, <2>5 DEF Contract!Next
  <1> QED
    BY <1>1, <1>2, <1>3, <1>4 DEF PaymentTerminal

\* When handlers do not overlap, the tables implement the contract.
THEOREM ContractImplemented == ASSUME Serial PROVE Spec => ImplementsContract
  <1>1. Init => Contract!Init
    BY DEF Init, Contract!Init, NoOrder, PhaseOf, MoneyOf
  <1>2. SerialInv /\ SerialInv' /\ [Next]_vars => [Contract!Next]_<<Phase, Money>>
    <2> SUFFICES ASSUME SerialInv, SerialInv', [Next]_vars
                 PROVE  [Contract!Next]_<<Phase, Money>>
      OBVIOUS
    <2>1. ASSUME NEW o \in Orders, NEW f \in {"appointment", "pickup"},
                 NEW t \in BOOLEAN, NEW b \in BOOLEAN, CreateBooking(o, f, t, b)
          PROVE  Contract!Next
      <3>1. order[o].state = "none" /\ payment[o] = "none"
        BY <2>1 DEF CreateBooking, StartCheckout, SerialInv, NoSessionUnbooked
      <3>2. \A p \in Orders \ {o} : order'[p] = order[p] /\ payment'[p] = payment[p]
        BY <2>1 DEF CreateBooking, StartCheckout, SerialInv, IInv, TypeOK
      <3>3. /\ order'[o].state = IF t /\ ~b THEN "pending_payment" ELSE "confirmed"
            /\ payment'[o] = IF t /\ ~b THEN "pending" ELSE payment[o]
        BY <2>1 DEF CreateBooking, StartCheckout, SerialInv, IInv, TypeOK, NoOrder
      <3>4. Phase[o] = "none"
        BY <3>1 DEF Phase, PhaseOf
      <3>5. CASE t /\ ~b
        <4>1. Phase' = [Phase EXCEPT ![o] = "awaiting"]
          BY <3>2, <3>3, <3>5 DEF Phase, PhaseOf
        <4>2. Money' = [Money EXCEPT ![o] = "open"]
          BY <3>2, <3>3, <3>5 DEF Money, MoneyOf
        <4> QED
          BY <3>4, <4>1, <4>2 DEF Contract!Next, Contract!BookToPayOnline, Phase, Money
      <3>6. CASE ~(t /\ ~b)
        <4>1. Phase' = [Phase EXCEPT ![o] = "booked"]
          BY <3>2, <3>3, <3>6 DEF Phase, PhaseOf
        <4>2. Money' = Money
          BY <3>2, <3>3, <3>6 DEF Money
        <4> QED
          BY <3>4, <4>1, <4>2 DEF Contract!Next, Contract!BookToPayInPerson, Phase, Money
      <3> QED
        BY <3>5, <3>6
    <2>2. ASSUME NEW h \in Handlers, Flush(h)
          PROVE  [Contract!Next]_<<Phase, Money>>
      BY <2>2, FlushRefines
    <2>3. ASSUME UNCHANGED <<order, payment>>
          PROVE  [Contract!Next]_<<Phase, Money>>
      BY <2>3 DEF Phase, Money
    <2> QED
      BY <2>1, <2>2, <2>3 DEF Next, ReceptionStep, vars, Handlers, CheckIn, Start, Complete, NoShow,
         Transition, MarkPickedUp, CancelOrder, HandleWebhookEvent, ExpirePending,
         Change, Begin, Abort, ProviderPosts, ExpiryPasses
  <1>3. <<Phase, Money>> = Contract!cvars
    BY DEF Phase, Money, Contract!cvars
  <1> QED
    BY <1>1, <1>2, <1>3, SerialInvariance, PTL
       DEF Spec, ImplementsContract, Contract!Spec, Phase, Money, Contract!cvars
=============================================================================
