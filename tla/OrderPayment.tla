---------------------------- MODULE OrderPayment ----------------------------
(***************************************************************************)
(* The life of a sale order and of the payment session opened for it:      *)
(* src/commerce/commerce.service.ts (createBooking, cancelOrder, checkIn,  *)
(* start, complete, noShow, markPickedUp) and                              *)
(* src/payments/payments.service.ts (startCheckout, handleWebhookEvent,    *)
(* expirePending) with the cron job that drives the expiry.                *)
(*                                                                         *)
(* Every handler reads rows into an entity manager of its own, checks and  *)
(* changes the copies, and flushes: only the columns that differ from what *)
(* was read are written, by primary key, with no version column and no     *)
(* lock taken at the read.  A handler is therefore two steps, the read     *)
(* (one action per operation, with the operation's guards) and Flush.      *)
(***************************************************************************)

CONSTANTS
  Orders,    \* ids of the orders that may be booked
  Requests,  \* HTTP requests that may be in flight at once
  Crons,     \* scheduler processes, one per running instance of the app
  Serial     \* TRUE: a handler starts only when no other one is in flight

Handlers == Requests \cup Crons

ASSUME SerialAssumption == Serial \in BOOLEAN
ASSUME HandlersAssumption == Requests \cap Crons = {}

VARIABLES
  order,    \* table sale_orders
  payment,  \* column payments.state, "none" while there is no row
  due,      \* orders whose payments.expires_at has passed
  sent,     \* the outcomes the provider has posted for the order's session
  txn       \* what each handler has read and wants to write, per order

vars == <<order, payment, due, sent, txn>>

States == {"none", "pending_payment", "pending_checkout", "confirmed",
           "checked_in", "in_progress", "completed", "cancelled", "no_show"}
Stamps == {"cancelled_at", "picked_up_at", "checked_in_at", "started_at",
           "completed_service_at", "no_show_at"}
Reasons == {"null", "given", "payment_failed", "payment_expired"}
Outcomes == {"success", "failure"}
PaymentTerminal == {"succeeded", "failed", "expired"}
PaymentStates == {"none", "pending"} \cup PaymentTerminal

\* stamps holds the timestamp columns that are not null.
Row == [state: States,
        fulfillment: {"appointment", "pickup"},
        requires_payment: BOOLEAN,
        stamps: SUBSET Stamps,
        cancellation_reason: Reasons]

\* pay is the new payment state, "kept" when the handler leaves it alone.
Work == [seen: Row, want: Row, pay: PaymentTerminal \cup {"kept"}]

NoOrder == [state |-> "none", fulfillment |-> "appointment",
            requires_payment |-> FALSE, stamps |-> {},
            cancellation_reason |-> "null"]

NoWork == [o \in {} |-> NoOrder]
Idle(h) == DOMAIN txn[h] = {}

Init ==
  /\ order = [o \in Orders |-> NoOrder]
  /\ payment = [o \in Orders |-> "none"]
  /\ due = {}
  /\ sent = [o \in Orders |-> {}]
  /\ txn = [h \in Handlers |-> NoWork]

-----------------------------------------------------------------------------
(* Booking.  Order, items and payment session are inserted by one          *)
(* transaction; a provider that refuses the checkout rolls all of it back. *)

StartCheckout(o) == payment' = [payment EXCEPT ![o] = "pending"]

\* totalIsPositive and isOnBehalf are what the cart and the caller make them.
CreateBooking(o, fulfillment, totalIsPositive, isOnBehalf) ==
  LET requiresPayment == totalIsPositive /\ ~isOnBehalf IN
  /\ order[o].state = "none"
  /\ order' = [order EXCEPT ![o] =
       [NoOrder EXCEPT
          !.state = IF requiresPayment THEN "pending_payment" ELSE "confirmed",
          !.fulfillment = fulfillment,
          !.requires_payment = requiresPayment]]
  /\ IF requiresPayment THEN StartCheckout(o) ELSE UNCHANGED payment
  /\ UNCHANGED <<due, sent, txn>>

-----------------------------------------------------------------------------
(* Handlers: the read.                                                     *)

CanStart(h) ==
  /\ Idle(h)
  /\ Serial => \A g \in Handlers : Idle(g)

Begin(h, work) ==
  /\ CanStart(h)
  /\ txn' = [txn EXCEPT ![h] = work]
  /\ UNCHANGED <<order, payment, due, sent>>

Change(h, o, want) ==
  Begin(h, [p \in {o} |-> [seen |-> order[o], want |-> want, pay |-> "kept"]])

\* Mutant: the timestamp of the stage is forgotten.
MovedSilently(row, state, stamp) == [row EXCEPT !.state = state]

Moved(row, state, stamp) ==
  [row EXCEPT !.state = state, !.stamps = @ \cup {stamp}]

\* assertTransition: the row just read must be in the state the move leaves.
Transition(h, o, from, to, stamp) ==
  /\ order[o].state = from
  /\ Change(h, o, Moved(order[o], to, stamp))

CheckIn(h, o) == Transition(h, o, "confirmed", "checked_in", "checked_in_at")

Start(h, o) == Transition(h, o, "checked_in", "in_progress", "started_at")

Complete(h, o) ==
  Transition(h, o, "in_progress", "pending_checkout", "completed_service_at")

NoShow(h, o) == Transition(h, o, "confirmed", "no_show", "no_show_at")

\* What the reception does with an order in the course of a visit.
ReceptionStep(h, o) == CheckIn(h, o) \/ Start(h, o) \/ Complete(h, o) \/ NoShow(h, o)

\* Mutant: the state is not looked at.
MarkPickedUpAnyState(h, o) ==
  /\ order[o].fulfillment = "pickup"
  /\ order[o].state # "none"
  /\ Change(h, o, Moved(order[o], "completed", "picked_up_at"))

MarkPickedUp(h, o) ==
  /\ order[o].fulfillment = "pickup"
  /\ order[o].state = "confirmed"
  /\ Change(h, o, Moved(order[o], "completed", "picked_up_at"))

\* Mutant: an order that is over can still be cancelled.
CancelOrderAnyState(h, o) ==
  /\ order[o].state # "none"
  /\ Change(h, o, [Moved(order[o], "cancelled", "cancelled_at")
                     EXCEPT !.cancellation_reason = "given"])

CancelOrder(h, o) ==
  /\ order[o].state \notin {"none", "cancelled", "completed", "no_show"}
  /\ Change(h, o, [Moved(order[o], "cancelled", "cancelled_at")
                     EXCEPT !.cancellation_reason = "given"])

\* Mutant: the reason is written where the state should be.
ReleasedToReason(row, reason) ==
  [row EXCEPT !.state = reason, !.stamps = @ \cup {"cancelled_at"}]

\* Mutant: the order is left as it is.
ReleasedUntouched(row, reason) ==
  [row EXCEPT !.cancellation_reason = IF @ = "null" THEN reason ELSE @]

\* What a session that ends without money does to the row it was read with.
Released(row, reason) ==
  [Moved(row, "cancelled", "cancelled_at")
     EXCEPT !.cancellation_reason = IF @ = "null" THEN reason ELSE @]

\* Mutant: an event for a session that has ended is applied as well.
HandleAnyWebhookEvent(h, o, outcome) ==
  LET paid == outcome = "success" IN
  /\ outcome \in sent[o]
  /\ Begin(h, [p \in {o} |->
       [seen |-> order[o],
        want |-> IF paid THEN [order[o] EXCEPT !.state = "confirmed"]
                 ELSE Released(order[o], "payment_failed"),
        pay |-> IF paid THEN "succeeded" ELSE "failed"]])

\* The event's outcome is applied whatever state the order is in; an event
\* for a session that is no longer pending is answered (replay, 410) and
\* changes nothing.
HandleWebhookEvent(h, o, outcome) ==
  /\ outcome \in sent[o]
  /\ payment[o] = "pending"
  /\ Begin(h, [p \in {o} |->
       IF outcome = "success"
       THEN [seen |-> order[o],
             want |-> [order[o] EXCEPT !.state = "confirmed"],
             pay |-> "succeeded"]
       ELSE [seen |-> order[o],
             want |-> Released(order[o], "payment_failed"),
             pay |-> "failed"]])

\* Mutant: only sessions of orders that still wait are looked for.
ExpirePendingOfWaiting(h, force) ==
  LET overdue == {o \in Orders : /\ payment[o] = "pending" /\ (force \/ o \in due)
                                 /\ order[o].state = "pending_payment"} IN
  /\ overdue # {}
  /\ Begin(h, [o \in overdue |->
       [seen |-> order[o],
        want |-> Released(order[o], "payment_expired"),
        pay |-> "expired"]])

\* One query reads every overdue session (every pending one when forced),
\* one flush writes them all.
ExpirePending(h, force) ==
  LET overdue == {o \in Orders : payment[o] = "pending" /\ (force \/ o \in due)} IN
  /\ overdue # {}
  /\ Begin(h, [o \in overdue |->
       [seen |-> order[o],
        want |-> Released(order[o], "payment_expired"),
        pay |-> "expired"]])

-----------------------------------------------------------------------------
(* Handlers: the flush.                                                    *)

\* A column whose new value equals the one read is not in the UPDATE.
Column(stored, seen, want) == IF want = seen THEN stored ELSE want

\* A timestamp that a handler sets is always new, so it is always written.
Merged(row, work) ==
  [row EXCEPT
     !.state = Column(@, work.seen.state, work.want.state),
     !.stamps = @ \cup work.want.stamps,
     !.cancellation_reason =
        Column(@, work.seen.cancellation_reason, work.want.cancellation_reason)]

Flush(h) ==
  /\ ~Idle(h)
  /\ order' = [o \in Orders |->
       IF o \in DOMAIN txn[h] THEN Merged(order[o], txn[h][o]) ELSE order[o]]
  /\ payment' = [o \in Orders |->
       IF o \in DOMAIN txn[h] /\ txn[h][o].pay # "kept"
       THEN txn[h][o].pay ELSE payment[o]]
  /\ txn' = [txn EXCEPT ![h] = NoWork]
  /\ UNCHANGED <<due, sent>>

\* The process dies or the database refuses: the transaction leaves nothing.
Abort(h) ==
  /\ ~Idle(h)
  /\ txn' = [txn EXCEPT ![h] = NoWork]
  /\ UNCHANGED <<order, payment, due, sent>>

-----------------------------------------------------------------------------
(* The world outside: the provider and the clock.                          *)

\* An event once posted may be delivered late, again, or never; nothing in
\* the code relies on a provider that never contradicts itself.
ProviderPosts(o, outcome) ==
  /\ payment[o] # "none"
  /\ outcome \notin sent[o]
  /\ sent' = [sent EXCEPT ![o] = @ \cup {outcome}]
  /\ UNCHANGED <<order, payment, due, txn>>

ExpiryPasses(o) ==
  /\ payment[o] # "none"
  /\ o \notin due
  /\ due' = due \cup {o}
  /\ UNCHANGED <<order, payment, sent, txn>>

-----------------------------------------------------------------------------
Next ==
  \/ \E o \in Orders, f \in {"appointment", "pickup"},
        totalIsPositive, isOnBehalf \in BOOLEAN :
       CreateBooking(o, f, totalIsPositive, isOnBehalf)
  \/ \E h \in Requests, o \in Orders :
       \/ ReceptionStep(h, o)
       \/ MarkPickedUp(h, o)
       \/ CancelOrder(h, o)
       \/ \E outcome \in Outcomes : HandleWebhookEvent(h, o, outcome)
  \/ \E h \in Requests : ExpirePending(h, TRUE)
  \/ \E h \in Crons : ExpirePending(h, FALSE)
  \/ \E h \in Handlers : Flush(h) \/ Abort(h)
  \/ \E o \in Orders :
       \/ \E outcome \in Outcomes : ProviderPosts(o, outcome)
       \/ ExpiryPasses(o)

Spec == Init /\ [][Next]_vars

\* Time passes; the scheduler starts its job every minute whatever the
\* requests do; a request in flight ends; and the database does not refuse
\* the job for ever.
Fairness ==
  /\ \A o \in Orders : WF_vars(ExpiryPasses(o))
  /\ \A h \in Requests : WF_vars(Flush(h) \/ Abort(h))
  /\ \A h \in Crons : SF_vars(ExpirePending(h, FALSE)) /\ SF_vars(Flush(h))

FairSpec == Spec /\ Fairness

-----------------------------------------------------------------------------
TypeOK ==
  /\ order \in [Orders -> Row]
  /\ payment \in [Orders -> PaymentStates]
  /\ due \subseteq Orders
  /\ sent \in [Orders -> SUBSET Outcomes]
  /\ DOMAIN txn = Handlers
  /\ \A h \in Handlers : \E batch \in SUBSET Orders : txn[h] \in [batch -> Work]

\* However requests, deliveries and the cron interleave, an order waits for
\* payment only while its session is open, and while a session is open its
\* order waits or has been cancelled: no order is stuck in pending_payment
\* behind a closed session, none is served behind an open one.
PendingTogether ==
  \A o \in Orders :
    /\ order[o].state = "pending_payment" => payment[o] = "pending"
    /\ payment[o] = "pending" => order[o].state \in {"pending_payment", "cancelled"}

Served == {"confirmed", "checked_in", "in_progress", "pending_checkout",
           "completed", "no_show"}

\* However handlers interleave, an order that must be paid online is
\* confirmed, and served, only after the provider has reported success.
PaidBeforeServed ==
  \A o \in Orders :
    order[o].requires_payment /\ order[o].state \in Served => "success" \in sent[o]

\* The timestamps of the stages an order in this state went through.
StagesOf(state) ==
  CASE state = "checked_in" -> {"checked_in_at"}
    [] state = "in_progress" -> {"checked_in_at", "started_at"}
    [] state = "pending_checkout" ->
         {"checked_in_at", "started_at", "completed_service_at"}
    [] state = "completed" -> {"picked_up_at"}
    [] state = "no_show" -> {"no_show_at"}
    [] state = "cancelled" -> {"cancelled_at"}
    [] OTHER -> {}

\* However handlers interleave, the timestamps tell the way to the state:
\* a stale flush may overwrite a state but never skips a stage of the visit.
TrailComplete ==
  \A o \in Orders : StagesOf(order[o].state) \subseteq order[o].stamps

\* When handlers do not overlap, the session and the order agree on how it
\* ended: a session that failed or expired left its order cancelled, and one
\* that succeeded left an order that only a person may have cancelled since.
SettledTogether ==
  \A o \in Orders :
    /\ payment[o] \in {"failed", "expired"} => order[o].state = "cancelled"
    /\ payment[o] = "succeeded" /\ order[o].state = "cancelled"
         => order[o].cancellation_reason = "given"

\* A session ends once: a later event with another outcome is refused with
\* 410 and a later expiry does not touch it (payments.service.ts:70-75).
OneOutcomePerSession ==
  [][\A o \in Orders : payment[o] \in PaymentTerminal => payment'[o] = payment[o]]_vars

PhaseOf(state) ==
  CASE state = "none" -> "none"
    [] state = "pending_payment" -> "awaiting"
    [] state = "cancelled" -> "void"
    [] state \in {"completed", "no_show"} -> "over"
    [] OTHER -> "booked"

MoneyOf(paymentState) ==
  CASE paymentState = "none" -> "none"
    [] paymentState = "pending" -> "open"
    [] paymentState = "succeeded" -> "captured"
    [] OTHER -> "lost"

Contract == INSTANCE CheckoutContract WITH
  phase <- [o \in Orders |-> PhaseOf(order[o].state)],
  money <- [o \in Orders |-> MoneyOf(payment[o])]

\* When handlers do not overlap, the order and its session move together the
\* way the contract allows, whatever the provider posts and whenever it does.
ImplementsContract == Contract!Spec

\* Every payment session is resolved in the end, by an event or by the cron,
\* even when no event ever arrives and handlers crash.
SessionsResolve ==
  \A o \in Orders : payment[o] = "pending" ~> payment[o] # "pending"

-----------------------------------------------------------------------------
(* What a handler in flight holds, the strengthening the proofs need.      *)

\* Facts about a handler's copy that no other handler can make false.
HeldOK(o, work) ==
  /\ order[o].state # "none"
  /\ work.seen.requires_payment = order[o].requires_payment
  /\ work.seen.stamps \subseteq order[o].stamps
  /\ StagesOf(work.want.state) \subseteq work.want.stamps
  /\ work.want.state \notin {"none", "pending_payment"}
  /\ work.want.state = work.seen.state => order[o].state # "pending_payment"
  /\ work.want.state \in Served /\ order[o].requires_payment => "success" \in sent[o]
  /\ work.pay = "kept" /\ work.want.state # "cancelled" => payment[o] # "pending"

InFlightOK ==
  \A h \in Handlers : \A o \in DOMAIN txn[h] : HeldOK(o, txn[h][o])
=============================================================================
