-------------------------- MODULE CheckoutContract --------------------------
(***************************************************************************)
(* What booking and paying promise, without handlers: every order has a    *)
(* phase, every payment session a fate, and the two change together in one *)
(* step.  A session has one fate, decided while it is open; an order that  *)
(* was given up comes back only in the step in which its money arrives.    *)
(* OrderPayment implements this as long as its handlers do not overlap.    *)
(***************************************************************************)
CONSTANT Orders

VARIABLES
  phase,  \* "none", "awaiting" payment, "booked", "over" or "void"
  money   \* "none", "open", "captured" or "lost"

cvars == <<phase, money>>

Init ==
  /\ phase = [o \in Orders |-> "none"]
  /\ money = [o \in Orders |-> "none"]

BookToPayInPerson(o) ==
  /\ phase[o] = "none"
  /\ phase' = [phase EXCEPT ![o] = "booked"]
  /\ UNCHANGED money

BookToPayOnline(o) ==
  /\ phase[o] = "none"
  /\ phase' = [phase EXCEPT ![o] = "awaiting"]
  /\ money' = [money EXCEPT ![o] = "open"]

\* The customer may have given up while paying: the money wins.
Capture(o) ==
  /\ money[o] = "open"
  /\ phase[o] \in {"awaiting", "void"}
  /\ phase' = [phase EXCEPT ![o] = "booked"]
  /\ money' = [money EXCEPT ![o] = "captured"]

\* Sessions that fail or expire, several at once when the cron finds them.
Lose(lost) ==
  /\ \A o \in lost : money[o] = "open" /\ phase[o] \in {"awaiting", "void"}
  /\ phase' = [o \in Orders |-> IF o \in lost THEN "void" ELSE phase[o]]
  /\ money' = [o \in Orders |-> IF o \in lost THEN "lost" ELSE money[o]]

GiveUp(o) ==
  /\ phase[o] \in {"awaiting", "booked"}
  /\ phase' = [phase EXCEPT ![o] = "void"]
  /\ UNCHANGED money

Finish(o) ==
  /\ phase[o] = "booked"
  /\ phase' = [phase EXCEPT ![o] = "over"]
  /\ UNCHANGED money

Next ==
  \/ \E o \in Orders :
       \/ BookToPayInPerson(o)
       \/ BookToPayOnline(o)
       \/ Capture(o)
       \/ GiveUp(o)
       \/ Finish(o)
  \/ \E lost \in SUBSET Orders : Lose(lost)

Spec == Init /\ [][Next]_cvars
=============================================================================
