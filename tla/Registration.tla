---------------------------- MODULE Registration ----------------------------
(***************************************************************************)
(* How a shop comes into being: sign-up, creation by an administrator and  *)
(* activation by Stripe's webhook all end in RegisterTenantHandler         *)
(* (src/tenancy/commands/handlers/register-tenant.handler.ts), and the     *)
(* event it publishes makes TenantOnboardingHandler insert the default     *)
(* configuration (src/tenancy/events/handlers, src/shared/cqrs).           *)
(*                                                                         *)
(* The handler looks for the name by one query and inserts by a later      *)
(* flush, which may be committed and yet seem to fail.  Events live in the *)
(* memory of the process: a crash ends what is in flight and forgets them. *)
(* Stripe delivers until it is answered, and perhaps once more.            *)
(***************************************************************************)
EXTENDS Naturals, Sequences, FiniteSets

CONSTANTS
  Names,     \* names, each with its parent: unique indexes cover the two
  Sessions,  \* checkout sessions at Stripe
  Requests,  \* HTTP requests that may be in flight at once
  Retries,   \* MAX_RETRIES of BaseEventHandler
  None

ASSUME NoneAssumption == None \notin Sessions
ASSUME RetriesAssumption == Retries \in Nat

VARIABLES
  tenants,     \* rows of tenants, each with its four roles and its owner
  onboarding,  \* for each row, the event and the tenant_configs inserted on it
  checkout,    \* Stripe's sessions
  txn          \* what each request is about to insert, or to announce

vars == <<tenants, onboarding, checkout, txn>>

Ids == DOMAIN tenants
Idle == [op |-> "idle"]

Init ==
  /\ tenants = <<>>
  /\ onboarding = <<>>
  /\ checkout = [s \in Sessions |-> [state |-> "none", name |-> None, id |-> None]]
  /\ txn = [h \in Requests |-> Idle]

-----------------------------------------------------------------------------
(* RegisterTenantHandler                                                   *)

NameTaken(n) == \E t \in Ids : tenants[t].name = n

NeedsCheckout(c) == c.subscription # "free_trial" /\ ~c.bypass

StatusOf(c) ==
  IF c.bypass /\ c.subscription # "free_trial" THEN "active" ELSE "trial"

\* Up to the query by name.  A name that is taken is answered with 409, a
\* sign-up to be paid with the address of a checkout; neither stores anything.
Execute(h, c) ==
  /\ txn[h] = Idle
  /\ ~NameTaken(c.name)
  /\ ~NeedsCheckout(c)
  /\ txn' = [txn EXCEPT ![h] = [op |-> "insert", command |-> c]]
  /\ UNCHANGED <<tenants, onboarding, checkout>>

\* Sign-up.  Its id is a new one, never met again.
RegisterTenant(h, n, subscription) ==
  Execute(h, [name |-> n, id |-> None, session |-> None,
              subscription |-> subscription, bypass |-> FALSE])

AdminCreateTenant(h, n, subscription) ==
  Execute(h, [name |-> n, id |-> None, session |-> None,
              subscription |-> subscription, bypass |-> TRUE])

\* Mutant: the payment is not said to have been made.
ActivateUnpaid(h, s) ==
  /\ checkout[s].state \in {"paid", "acknowledged"}
  /\ Execute(h, [name |-> checkout[s].name, id |-> checkout[s].id, session |-> s,
                 subscription |-> "paid", bypass |-> FALSE])

\* The webhook, delivered for the first time or again; without an id in the
\* metadata every delivery has a new one.
ActivateTenantAfterPayment(h, s) ==
  /\ checkout[s].state \in {"paid", "acknowledged"}
  /\ Execute(h, [name |-> checkout[s].name, id |-> checkout[s].id, session |-> s,
                 subscription |-> "paid", bypass |-> TRUE])

NewTenant(c) ==
  [name |-> c.name, id |-> c.id, session |-> c.session, status |-> StatusOf(c)]

\* attempts: calls of the onboarding handler so far; seeded: the insertions
\* that were committed; unanswered: those of them that looked like failures.
NotHandled(event) == [event |-> event, attempts |-> 0, seeded |-> 0, unanswered |-> 0]

\* Mutant: the check by name is relied upon, without an index.
StoresUnchecked(c, event) ==
  /\ c.id # None => \A t \in Ids : tenants[t].id # c.id
  /\ tenants' = Append(tenants, NewTenant(c))
  /\ onboarding' = Append(onboarding, NotHandled(event))

\* One flush for the tenant, its roles and its owner; the primary key and the
\* unique indexes refuse it as a whole.
Stores(c, event) ==
  /\ ~NameTaken(c.name)
  /\ c.id # None => \A t \in Ids : tenants[t].id # c.id
  /\ tenants' = Append(tenants, NewTenant(c))
  /\ onboarding' = Append(onboarding, NotHandled(event))

Insert(h) ==
  LET c == txn[h].command IN
  /\ txn[h].op = "insert"
  /\ Stores(c, "unpublished")
  /\ txn' = [txn EXCEPT ![h] = [op |-> "announce", tenant |-> Len(tenants) + 1, session |-> c.session]]
  /\ UNCHANGED checkout

\* The flush is committed, but the connection breaks before the answer: the
\* handler ends with an error and nothing ever publishes the event.
InsertGoesUnanswered(h) ==
  /\ txn[h].op = "insert"
  /\ Stores(txn[h].command, "unannounced")
  /\ txn' = [txn EXCEPT ![h] = Idle]
  /\ UNCHANGED checkout

Inserting(h, s) == txn[h].op = "insert" /\ txn[h].command.session = s

\* The event is published after the flush, and the request answered; Stripe
\* may not get the answer.
Announce(h) ==
  LET t == txn[h].tenant
      s == txn[h].session
  IN
  /\ txn[h].op = "announce"
  /\ onboarding' = [onboarding EXCEPT ![t].event = "pending"]
  /\ \/ UNCHANGED checkout
     \/ s # None /\ checkout' = [checkout EXCEPT ![s].state = "acknowledged"]
  /\ txn' = [txn EXCEPT ![h] = Idle]
  /\ UNCHANGED tenants

\* The flush fails and nothing is stored: a unique violation, no connection.
Abort(h) ==
  /\ txn[h].op = "insert"
  /\ txn' = [txn EXCEPT ![h] = Idle]
  /\ UNCHANGED <<tenants, onboarding, checkout>>

-----------------------------------------------------------------------------
(* BaseEventHandler.handle around TenantOnboardingHandler.process          *)

\* Mutant: the last failure is neither retried nor given up.
AfterFailureForgetful(o) ==
  IF o.attempts < Retries THEN "pending" ELSE "unpublished"

\* Mutant: one attempt more, off by one.
AfterFailureOnceMore(o) == IF o.attempts <= Retries THEN "pending" ELSE "givenUp"

\* Where a failed attempt leaves the event.
AfterFailure(o) == IF o.attempts < Retries THEN "pending" ELSE "givenUp"

\* One more attempt, with what it committed and whether it was answered.
Attempted(o, event, committed, unanswered) ==
  [event |-> event, attempts |-> o.attempts + 1, seeded |-> o.seeded + committed,
   unanswered |-> o.unanswered + unanswered]

Seed(t) ==
  /\ onboarding[t].event = "pending"
  /\ onboarding' = [onboarding EXCEPT ![t] = Attempted(@, "done", 1, 0)]
  /\ UNCHANGED <<tenants, checkout, txn>>

SeedFails(t) ==
  /\ onboarding[t].event = "pending"
  /\ onboarding' = [onboarding EXCEPT ![t] = Attempted(@, AfterFailure(@), 0, 0)]
  /\ UNCHANGED <<tenants, checkout, txn>>

\* The three rows are committed, but the connection breaks before the answer:
\* the next attempt inserts them again, under new ids.
SeedGoesUnanswered(t) ==
  /\ onboarding[t].event = "pending"
  /\ onboarding' = [onboarding EXCEPT ![t] = Attempted(@, AfterFailure(@), 1, 1)]
  /\ UNCHANGED <<tenants, checkout, txn>>

\* What the process had in memory is gone.
Crash ==
  /\ txn' = [h \in Requests |-> Idle]
  /\ onboarding' = [t \in Ids |->
       IF onboarding[t].event \in {"unpublished", "pending"}
       THEN [onboarding[t] EXCEPT !.event = "lost"] ELSE onboarding[t]]
  /\ UNCHANGED <<tenants, checkout>>

-----------------------------------------------------------------------------
(* The customer and Stripe                                                 *)

\* A sign-up to be paid, for a name that is free, leads to a session, whose
\* metadata may or may not carry the ids.
OpenCheckout(s, n) ==
  /\ checkout[s].state = "none"
  /\ ~NameTaken(n)
  /\ \E id \in {None, s} :
       checkout' = [checkout EXCEPT ![s] = [state |-> "open", name |-> n, id |-> id]]
  /\ UNCHANGED <<tenants, onboarding, txn>>

Pay(s) ==
  /\ checkout[s].state = "open"
  /\ checkout' = [checkout EXCEPT ![s].state = "paid"]
  /\ UNCHANGED <<tenants, onboarding, txn>>

Next ==
  \/ \E h \in Requests :
       \/ \E n \in Names, u \in {"free_trial", "paid"} :
            RegisterTenant(h, n, u) \/ AdminCreateTenant(h, n, u)
       \/ \E s \in Sessions : ActivateTenantAfterPayment(h, s)
       \/ Insert(h)
       \/ InsertGoesUnanswered(h)
       \/ Announce(h)
       \/ Abort(h)
  \/ \E t \in Ids : Seed(t) \/ SeedFails(t) \/ SeedGoesUnanswered(t)
  \/ Crash
  \/ \E s \in Sessions : Pay(s) \/ \E n \in Names : OpenCheckout(s, n)

\* Requests end.  An event that is pending is handled, its retries are timers.
\* Stripe repeats a delivery while it is not acknowledged, and not every one of
\* them meets a crash, a busy server or a failing database.  The unique indexes
\* allow no more rows than names.
Fairness ==
  /\ \A h \in Requests :
       WF_vars(Insert(h) \/ InsertGoesUnanswered(h) \/ Abort(h)) /\ WF_vars(Announce(h))
  /\ \A t \in 1..Cardinality(Names) :
       WF_vars(t \in Ids /\ (Seed(t) \/ SeedFails(t) \/ SeedGoesUnanswered(t)))
  /\ \A s \in Sessions :
       /\ SF_vars(\E h \in Requests : ActivateTenantAfterPayment(h, s))
       /\ SF_vars(\E h \in Requests : Inserting(h, s) /\ Insert(h))

Spec == Init /\ [][Next]_vars
FairSpec == Spec /\ Fairness

-----------------------------------------------------------------------------
(* Properties                                                              *)

Commands ==
  [name : Names, id : Sessions \cup {None}, session : Sessions \cup {None},
   subscription : {"free_trial", "paid"}, bypass : BOOLEAN]

\* Rows, sessions and requests keep their types; a row never belongs to a plan
\* that was neither paid, tried nor granted, and every row has its event.
TypeOK ==
  /\ tenants \in Seq([name : Names, id : Sessions \cup {None}, session : Sessions \cup {None},
                      status : {"trial", "active"}])
  /\ onboarding \in Seq([event : {"unpublished", "unannounced", "pending", "done", "givenUp", "lost"},
                         attempts : 0..(Retries + 1), seeded : 0..(Retries + 1),
                         unanswered : 0..(Retries + 1)])
  /\ Len(onboarding) = Len(tenants)
  /\ checkout \in [Sessions -> [state : {"none", "open", "paid", "acknowledged"},
                               name : Names \cup {None}, id : Sessions \cup {None}]]
  /\ txn \in [Requests -> {Idle} \cup [op : {"insert"}, command : Commands]
                              \cup [op : {"announce"}, tenant : Ids, session : Sessions \cup {None}]]

\* One payment, one shop: a session activates at most one tenant, however often
\* Stripe delivers, with an id in its metadata or a new one each time; and a
\* session is acknowledged only once its shop exists, its own or the one that
\* has taken the name.
OneShopPerPurchase ==
  \A s \in Sessions :
    /\ \A t, u \in Ids : tenants[t].session = s /\ tenants[u].session = s => t = u
    /\ checkout[s].state = "acknowledged" => \E t \in Ids : tenants[t].session = s

\* Retries repeat what was already done only when nobody could know: a tenant's
\* configuration is inserted once when its handler has ended well, not at all
\* when it has given up after Retries + 1 attempts, and once more for every
\* attempt that was committed but not answered.
SeededAsAnswered ==
  \A t \in Ids :
    LET o == onboarding[t] IN
      /\ o.seeded = o.unanswered + (IF o.event = "done" THEN 1 ELSE 0)
      /\ o.event = "givenUp" => o.attempts = Retries + 1
      /\ o.attempts = Retries + 1 => o.event \in {"done", "givenUp"}

\* Who has paid gets the shop, in spite of crashes, failing flushes and races,
\* unless the name has gone to somebody else: then no delivery ever succeeds.
PaidGetsShop ==
  \A s \in Sessions :
    checkout[s].state = "paid" ~> \E t \in Ids : tenants[t].name = checkout[s].name

\* No shop whose event was, or is yet to be, published is left half-way: its
\* configuration is there, or the attempts were used up, or a crash has lost
\* the event.  One whose flush went unanswered stays without for ever.
ShopSettles ==
  \A t \in 1..Cardinality(Names) :
    t \in Ids /\ onboarding[t].event # "unannounced"
      ~> t \in Ids /\ onboarding[t].event \in {"done", "givenUp", "lost"}
=============================================================================
