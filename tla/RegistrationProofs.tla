-------------------------- MODULE RegistrationProofs --------------------------
(***************************************************************************)
(* Proofs about Registration, for any names, sessions, requests and number *)
(* of retries: its types, that a payment buys one shop, and that a retry   *)
(* repeats only what nobody knew to be done.                               *)
(***************************************************************************)
EXTENDS Registration, TLAPS

Tenants == [name : Names, id : Sessions \cup {None}, session : Sessions \cup {None},
            status : {"trial", "active"}]

Onboardings == [event : {"unpublished", "unannounced", "pending", "done", "givenUp", "lost"},
                attempts : 0..(Retries + 1), seeded : 0..(Retries + 1),
                unanswered : 0..(Retries + 1)]

WasPaid(s) == checkout[s].state \in {"paid", "acknowledged"}

\* The unique index on the names.
NamesOnce == \A t, u \in Ids : tenants[t].name = tenants[u].name => t = u

\* A row, and a command on its way, that come from a session have its name;
\* a session keeps its name once it is open.
RowsOfSessions ==
  \A t \in Ids : LET s == tenants[t].session IN
    s # None => WasPaid(s) /\ checkout[s].name = tenants[t].name

CommandsOfSessions ==
  \A h \in Requests : txn[h].op = "insert" =>
    LET s == txn[h].command.session IN
      s # None => WasPaid(s) /\ checkout[s].name = txn[h].command.name

NamedOnceOpen == \A s \in Sessions : checkout[s].state # "none" => checkout[s].name \in Names

\* A row waits for its event to be published by one request only.
AnnouncedOnce ==
  \A h \in Requests : txn[h].op = "announce" =>
    /\ tenants[txn[h].tenant].session = txn[h].session
    /\ onboarding[txn[h].tenant].event = "unpublished"
    /\ \A g \in Requests : txn[g].op = "announce" /\ txn[g].tenant = txn[h].tenant => g = h

Acknowledged ==
  \A s \in Sessions :
    checkout[s].state = "acknowledged" => \E t \in Ids : tenants[t].session = s

\* How the columns of an event go together.
Counted(o) ==
  /\ o.event = "unpublished" => o.attempts = 0
  /\ o.event = "pending" => o.attempts <= Retries
  /\ o.seeded <= o.attempts
  /\ o.seeded = o.unanswered + (IF o.event = "done" THEN 1 ELSE 0)
  /\ o.event = "givenUp" => o.attempts = Retries + 1
  /\ o.attempts = Retries + 1 => o.event \in {"done", "givenUp"}

AllCounted == \A t \in Ids : Counted(onboarding[t])

IInv ==
  /\ TypeOK /\ NamesOnce /\ RowsOfSessions /\ CommandsOfSessions
  /\ NamedOnceOpen /\ AnnouncedOnce /\ Acknowledged /\ AllCounted

-----------------------------------------------------------------------------
Work == {Idle} \cup [op : {"insert"}, command : Commands]
          \cup [op : {"announce"}, tenant : Ids, session : Sessions \cup {None}]

\* What the type invariant says, a table at a time.
LEMMA Types ==
  ASSUME TypeOK
  PROVE  /\ tenants \in Seq(Tenants) /\ onboarding \in Seq(Onboardings)
         /\ Len(tenants) \in Nat /\ Ids = 1..Len(tenants) /\ DOMAIN onboarding = Ids
         /\ \A t \in Ids : tenants[t] \in Tenants /\ onboarding[t] \in Onboardings
         /\ txn \in [Requests -> Work]
         /\ \A h \in Requests :
              /\ txn[h].op = "insert" => txn[h].command \in Commands
              /\ txn[h].op = "announce" =>
                   txn[h].tenant \in Ids /\ txn[h].session \in Sessions \cup {None}
  <1>1. /\ tenants \in Seq(Tenants) /\ onboarding \in Seq(Onboardings)
        /\ Len(onboarding) = Len(tenants)
    BY DEF TypeOK, Tenants, Onboardings
  <1>2. Len(tenants) \in Nat /\ Ids = 1..Len(tenants) /\ DOMAIN onboarding = Ids
    BY <1>1 DEF Ids
  <1>3. \A t \in Ids : tenants[t] \in Tenants /\ onboarding[t] \in Onboardings
    BY <1>1, <1>2
  <1>4. txn \in [Requests -> Work]
    BY DEF TypeOK, Work
  <1>5. ASSUME NEW h \in Requests
        PROVE  /\ txn[h].op = "insert" => txn[h].command \in Commands
               /\ txn[h].op = "announce" =>
                    txn[h].tenant \in Ids /\ txn[h].session \in Sessions \cup {None}
    <2>1. txn[h] \in Work
      BY <1>4
    <2> QED BY <2>1 DEF Work, Idle
  <1> QED BY <1>1, <1>2, <1>3, <1>4, <1>5

\* Appending a row leaves the rows there are.
LEMMA Appended ==
  ASSUME NEW S, NEW q \in Seq(S), NEW e \in S
  PROVE  /\ Append(q, e) \in Seq(S)
         /\ Len(Append(q, e)) = Len(q) + 1 /\ DOMAIN Append(q, e) = 1..(Len(q) + 1)
         /\ \A i \in 1..Len(q) : Append(q, e)[i] = q[i]
         /\ Append(q, e)[Len(q) + 1] = e
  OBVIOUS

\* The invariant holds to begin with.
LEMMA InitInv == Init => IInv
  <1> SUFFICES ASSUME Init PROVE IInv
    OBVIOUS
  <1>1. tenants = <<>> /\ onboarding = <<>> /\ Ids = {} /\ Len(tenants) = 0 /\ Len(onboarding) = 0
    BY DEF Init, Ids
  <1>2. TypeOK
    BY <1>1, RetriesAssumption DEF Init, TypeOK, Idle
  <1>3. \A h \in Requests : txn[h].op = "idle"
    BY DEF Init, Idle
  <1> QED BY <1>1, <1>2, <1>3 DEF Init, IInv, NamesOnce, RowsOfSessions, CommandsOfSessions,
             NamedOnceOpen, AnnouncedOnce, Acknowledged, AllCounted

-----------------------------------------------------------------------------
(* A request takes up a command whose session, if it has one, was paid.    *)

LEMMA ExecuteInv ==
  ASSUME IInv, NEW h \in Requests, NEW c \in Commands, Execute(h, c),
         c.session # None => WasPaid(c.session) /\ checkout[c.session].name = c.name
  PROVE  IInv'
  <1> USE DEF IInv
  <1>1. /\ txn' = [txn EXCEPT ![h] = [op |-> "insert", command |-> c]]
        /\ UNCHANGED <<tenants, onboarding, checkout, Ids>>
    BY DEF Execute, Ids
  <1>2. txn' \in [Requests -> Work] /\ Work' = Work
    <2>1. [op |-> "insert", command |-> c] \in Work
      BY DEF Work
    <2> QED BY <1>1, <2>1, Types DEF Work
  <1>3. TypeOK'
    BY <1>1, <1>2 DEF TypeOK, Work
  <1>4. \A g \in Requests : txn'[g] = IF g = h THEN [op |-> "insert", command |-> c] ELSE txn[g]
    BY <1>1, Types
  <1>5. CommandsOfSessions'
    BY <1>1, <1>4 DEF CommandsOfSessions, WasPaid
  <1>6. AnnouncedOnce'
    BY <1>1, <1>4 DEF AnnouncedOnce
  <1>7. NamesOnce' /\ RowsOfSessions' /\ NamedOnceOpen' /\ Acknowledged' /\ AllCounted'
    BY <1>1 DEF NamesOnce, RowsOfSessions, WasPaid, NamedOnceOpen, Acknowledged, AllCounted, Counted
  <1> QED BY <1>3, <1>5, <1>6, <1>7

LEMMA RegisterInv ==
  ASSUME IInv, NEW h \in Requests, NEW n \in Names, NEW u \in {"free_trial", "paid"},
         RegisterTenant(h, n, u) \/ AdminCreateTenant(h, n, u)
  PROVE  IInv'
  <1>1. ASSUME NEW b \in BOOLEAN,
               Execute(h, [name |-> n, id |-> None, session |-> None, subscription |-> u, bypass |-> b])
        PROVE  IInv'
    <2> DEFINE c == [name |-> n, id |-> None, session |-> None, subscription |-> u, bypass |-> b]
    <2>1. c \in Commands /\ c.session = None
      BY DEF Commands
    <2> HIDE DEF c
    <2>2. Execute(h, c)
      BY <1>1 DEF c
    <2> QED BY <2>1, <2>2, ExecuteInv
  <1> QED BY <1>1 DEF RegisterTenant, AdminCreateTenant

LEMMA ActivateInv ==
  ASSUME IInv, NEW h \in Requests, NEW s \in Sessions, ActivateTenantAfterPayment(h, s)
  PROVE  IInv'
  <1> DEFINE c == [name |-> checkout[s].name, id |-> checkout[s].id, session |-> s,
                   subscription |-> "paid", bypass |-> TRUE]
  <1>1. checkout[s].name \in Names /\ checkout[s].id \in Sessions \cup {None} /\ WasPaid(s)
    BY DEF IInv, TypeOK, NamedOnceOpen, ActivateTenantAfterPayment, WasPaid
  <1>2. c \in Commands /\ c.session = s /\ c.name = checkout[s].name
    BY <1>1 DEF Commands
  <1>3. Execute(h, c)
    BY DEF ActivateTenantAfterPayment
  <1> HIDE DEF c
  <1> QED BY <1>1, <1>2, <1>3, ExecuteInv

-----------------------------------------------------------------------------
(* The flush: the guards of the indexes keep the names apart.              *)

\* A new row, with an event yet to come, is stored beside those there are.
LEMMA Stored ==
  ASSUME IInv, NEW c \in Commands, NEW event \in {"unpublished", "unannounced"},
         Stores(c, event), UNCHANGED checkout,
         c.session # None => WasPaid(c.session) /\ checkout[c.session].name = c.name
  PROVE  LET n == Len(tenants) + 1 IN
         /\ tenants' \in Seq(Tenants) /\ onboarding' \in Seq(Onboardings)
         /\ Len(onboarding') = Len(tenants') /\ Ids' = Ids \cup {n} /\ n \notin Ids
         /\ \A t \in Ids : tenants'[t] = tenants[t] /\ onboarding'[t] = onboarding[t]
         /\ tenants'[n].session = c.session /\ onboarding'[n].event = event
         /\ NamesOnce' /\ RowsOfSessions' /\ NamedOnceOpen' /\ Acknowledged' /\ AllCounted'
  <1> USE DEF IInv
  <1> DEFINE n == Len(tenants) + 1
  <1>1. NewTenant(c) \in Tenants /\ NewTenant(c).name = c.name /\ NewTenant(c).session = c.session
    BY DEF NewTenant, Tenants, Commands, StatusOf
  <1>2. /\ NotHandled(event) \in Onboardings /\ Counted(NotHandled(event))
        /\ NotHandled(event).event = event
    BY RetriesAssumption DEF NotHandled, Onboardings, Counted
  <1>3. /\ tenants' \in Seq(Tenants) /\ Len(tenants') = n /\ Ids' = 1..n /\ n \in Nat
        /\ \A t \in Ids : tenants'[t] = tenants[t]
        /\ tenants'[n] = NewTenant(c) /\ Ids' = Ids \cup {n} /\ n \notin Ids
    BY <1>1, Types, Appended DEF Stores, Ids
  <1>4. /\ onboarding' \in Seq(Onboardings) /\ Len(onboarding') = n
        /\ \A t \in Ids : onboarding'[t] = onboarding[t]
        /\ onboarding'[n] = NotHandled(event)
    <2>1. Len(onboarding) = Len(tenants)
      BY DEF TypeOK
    <2> QED BY <2>1, <1>2, Types, Appended DEF Stores
  <1>5. NamesOnce'
    BY <1>1, <1>3 DEF NamesOnce, Stores, NameTaken
  <1>6. RowsOfSessions'
    BY <1>1, <1>3 DEF RowsOfSessions, WasPaid
  <1>7. NamedOnceOpen'
    BY DEF NamedOnceOpen
  <1>8. Acknowledged'
    BY <1>3 DEF Acknowledged
  <1>9. AllCounted'
    BY <1>2, <1>3, <1>4 DEF AllCounted, Counted
  <1> QED BY <1>1, <1>2, <1>3, <1>4, <1>5, <1>6, <1>7, <1>8, <1>9

LEMMA InsertInv ==
  ASSUME IInv, NEW h \in Requests, Insert(h)
  PROVE  IInv'
  <1> USE DEF IInv
  <1> DEFINE c == txn[h].command
             n == Len(tenants) + 1
             w == [op |-> "announce", tenant |-> n, session |-> c.session]
  <1>1. c \in Commands /\ c.session # None => WasPaid(c.session) /\ checkout[c.session].name = c.name
    BY Types DEF Insert, CommandsOfSessions
  <1>2. c \in Commands /\ Stores(c, "unpublished") /\ UNCHANGED checkout
    BY Types DEF Insert
  <1>3. txn' = [txn EXCEPT ![h] = w] /\ \A g \in Requests : txn'[g] = IF g = h THEN w ELSE txn[g]
    BY Types DEF Insert
  <1> HIDE DEF c
  <1>4. /\ tenants' \in Seq(Tenants) /\ onboarding' \in Seq(Onboardings)
        /\ Len(onboarding') = Len(tenants') /\ Ids' = Ids \cup {n} /\ n \notin Ids
        /\ \A t \in Ids : tenants'[t] = tenants[t] /\ onboarding'[t] = onboarding[t]
        /\ tenants'[n].session = c.session /\ onboarding'[n].event = "unpublished"
        /\ NamesOnce' /\ RowsOfSessions' /\ NamedOnceOpen' /\ Acknowledged' /\ AllCounted'
    BY <1>1, <1>2, Stored
  <1>5. TypeOK'
    <2>1. w \in [op : {"announce"}, tenant : Ids', session : Sessions \cup {None}]
      BY <1>2, <1>4 DEF Commands
    <2>2. Work \subseteq Work' /\ w \in Work'
      BY <2>1, <1>4 DEF Work
    <2>3. txn' \in [Requests -> Work']
      <3> HIDE DEF w
      <3> QED BY <2>2, <1>3, Types
    <2> QED BY <1>2, <1>4, <2>3 DEF TypeOK, Tenants, Onboardings, Work
  <1>6. CommandsOfSessions'
    BY <1>2, <1>3 DEF CommandsOfSessions, WasPaid
  <1>7. AnnouncedOnce'
    <2>1. \A g \in Requests \ {h} :
            /\ txn'[g] = txn[g]
            /\ txn[g].op = "announce" => txn[g].tenant \in Ids
      BY <1>3, Types
    <2>2. txn'[h].op = "announce" /\ txn'[h].tenant = n /\ txn'[h].session = c.session
      BY <1>3
    <2> HIDE DEF w, n
    <2> QED BY <2>1, <2>2, <1>4 DEF AnnouncedOnce
  <1> QED BY <1>4, <1>5, <1>6, <1>7

LEMMA InsertGoesUnansweredInv ==
  ASSUME IInv, NEW h \in Requests, InsertGoesUnanswered(h)
  PROVE  IInv'
  <1> USE DEF IInv
  <1> DEFINE c == txn[h].command
             n == Len(tenants) + 1
  <1>1. c \in Commands /\ c.session # None => WasPaid(c.session) /\ checkout[c.session].name = c.name
    BY Types DEF InsertGoesUnanswered, CommandsOfSessions
  <1>2. c \in Commands /\ Stores(c, "unannounced") /\ UNCHANGED checkout
    BY Types DEF InsertGoesUnanswered
  <1>3. \A g \in Requests : txn'[g] = IF g = h THEN Idle ELSE txn[g]
    BY Types DEF InsertGoesUnanswered
  <1> HIDE DEF c
  <1>4. /\ tenants' \in Seq(Tenants) /\ onboarding' \in Seq(Onboardings)
        /\ Len(onboarding') = Len(tenants') /\ Ids' = Ids \cup {n} /\ n \notin Ids
        /\ \A t \in Ids : tenants'[t] = tenants[t] /\ onboarding'[t] = onboarding[t]
        /\ NamesOnce' /\ RowsOfSessions' /\ NamedOnceOpen' /\ Acknowledged' /\ AllCounted'
    BY <1>1, <1>2, Stored
  <1>5. TypeOK'
    <2>1. Work \subseteq Work' /\ Idle \in Work'
      BY <1>4 DEF Work
    <2>2. txn' \in [Requests -> Work']
      BY <2>1, Types DEF InsertGoesUnanswered
    <2> QED BY <1>2, <1>4, <2>2 DEF TypeOK, Tenants, Onboardings, Work
  <1>6. CommandsOfSessions'
    BY <1>2, <1>3 DEF CommandsOfSessions, WasPaid, Idle
  <1>7. AnnouncedOnce'
    <2>1. \A g \in Requests : txn'[g].op = "announce" =>
            /\ txn'[g] = txn[g] /\ txn[g].tenant \in Ids
      BY <1>3, Types DEF Idle
    <2> HIDE DEF n
    <2> QED BY <2>1, <1>4 DEF AnnouncedOnce
  <1> QED BY <1>4, <1>5, <1>6, <1>7

LEMMA AnnounceInv ==
  ASSUME IInv, NEW h \in Requests, Announce(h)
  PROVE  IInv'
  <1> USE DEF IInv
  <1> DEFINE t == txn[h].tenant
             s == txn[h].session
             o == [onboarding[t] EXCEPT !.event = "pending"]
  <1>1. t \in Ids /\ s \in Sessions \cup {None} /\ txn[h].op = "announce"
    BY Types DEF Announce
  <1>2. tenants[t].session = s /\ onboarding[t].event = "unpublished"
    BY <1>1 DEF AnnouncedOnce
  <1>3. o \in Onboardings /\ Counted(o)
    <2> DEFINE x == onboarding[t]
    <2>1. x \in Onboardings /\ Counted(x) /\ x.event = "unpublished"
      BY <1>1, <1>2, Types DEF AllCounted
    <2>2. /\ o \in Onboardings /\ o.event = "pending" /\ o.attempts = x.attempts
          /\ o.seeded = x.seeded /\ o.unanswered = x.unanswered
      BY <2>1 DEF Onboardings
    <2> HIDE DEF o, x
    <2> QED BY <2>1, <2>2, RetriesAssumption DEF Onboardings, Counted
  <1>4. /\ tenants' = tenants /\ Ids' = Ids
        /\ \A g \in Requests : txn'[g] = IF g = h THEN Idle ELSE txn[g]
        /\ \A u \in Ids : onboarding'[u] = IF u = t THEN o ELSE onboarding[u]
    BY Types DEF Announce, Ids
  <1>5. onboarding' \in Seq(Onboardings) /\ Len(onboarding') = Len(onboarding)
    <2>1. onboarding' = [onboarding EXCEPT ![t] = o]
      BY DEF Announce
    <2> HIDE DEF o, t
    <2> QED BY <1>1, <1>3, <2>1, Types
  <1>6. \/ UNCHANGED checkout
        \/ s # None /\ checkout' = [checkout EXCEPT ![s].state = "acknowledged"]
    BY DEF Announce
  <1> HIDE DEF o, t, s
  <1>7. checkout' \in [Sessions -> [state : {"none", "open", "paid", "acknowledged"},
                                    name : Names \cup {None}, id : Sessions \cup {None}]]
    <2>1. checkout \in [Sessions -> [state : {"none", "open", "paid", "acknowledged"},
                                     name : Names \cup {None}, id : Sessions \cup {None}]]
      BY DEF TypeOK
    <2>2. CASE UNCHANGED checkout
      BY <2>1, <2>2
    <2>3. CASE s # None /\ checkout' = [checkout EXCEPT ![s].state = "acknowledged"]
      <3>1. s \in Sessions
        BY <1>1, <2>3
      <3> QED BY <2>1, <2>3, <3>1
    <2> QED BY <1>6, <2>2, <2>3
  <1>8. \A x \in Sessions : /\ checkout'[x].name = checkout[x].name
                            /\ x # s => checkout'[x].state = checkout[x].state
                            /\ checkout'[x].state \in {checkout[x].state, "acknowledged"}
    BY <1>1, <1>6 DEF TypeOK
  <1>9. WasPaid(s) \/ s = None
    BY <1>1, <1>2 DEF RowsOfSessions
  <1>10. TypeOK'
    <2>1. txn' \in [Requests -> Work']
      BY <1>4, Types DEF Announce, Work
    <2>2. Len(onboarding') = Len(tenants')
      BY <1>4, <1>5 DEF TypeOK
    <2> QED BY <1>4, <1>5, <1>7, <2>1, <2>2 DEF TypeOK, Onboardings, Work
  <1>11. NamesOnce'
    BY <1>4 DEF NamesOnce
  <1>12. RowsOfSessions'
    BY <1>4, <1>8, Types DEF RowsOfSessions, Tenants, WasPaid
  <1>13. CommandsOfSessions'
    BY <1>4, <1>8, Types DEF CommandsOfSessions, Commands, Idle, WasPaid
  <1>14. NamedOnceOpen'
    <2>1. ASSUME NEW x \in Sessions, checkout'[x].state # "none" PROVE checkout[x].state # "none"
      BY <1>8, <1>9, <2>1, NoneAssumption DEF WasPaid
    <2> QED BY <1>8, <2>1 DEF NamedOnceOpen
  <1>15. AnnouncedOnce'
    <2> SUFFICES ASSUME NEW g \in Requests, txn'[g].op = "announce"
                 PROVE  /\ tenants'[txn'[g].tenant].session = txn'[g].session
                        /\ onboarding'[txn'[g].tenant].event = "unpublished"
                        /\ \A k \in Requests :
                             txn'[k].op = "announce" /\ txn'[k].tenant = txn'[g].tenant => k = g
      BY DEF AnnouncedOnce
    <2>1. g # h /\ txn'[g] = txn[g]
      BY <1>4 DEF Idle
    <2>2. txn[g].tenant \in Ids /\ txn[g].tenant # t
      BY <1>1, <2>1, Types DEF AnnouncedOnce, t
    <2>3. \A k \in Requests : txn'[k].op = "announce" => txn'[k] = txn[k]
      BY <1>4 DEF Idle
    <2> QED BY <1>4, <2>1, <2>2, <2>3 DEF AnnouncedOnce
  <1>16. Acknowledged'
    BY <1>1, <1>2, <1>4, <1>8 DEF Acknowledged
  <1>17. AllCounted'
    BY <1>3, <1>4 DEF AllCounted, Counted
  <1> QED BY <1>10, <1>11, <1>12, <1>13, <1>14, <1>15, <1>16, <1>17

LEMMA AbortInv ==
  ASSUME IInv, NEW h \in Requests, Abort(h)
  PROVE  IInv'
  <1> USE DEF IInv
  <1>1. UNCHANGED <<tenants, onboarding, checkout, Ids>>
    BY DEF Abort, Ids
  <1>2. \A g \in Requests : txn'[g] = IF g = h THEN Idle ELSE txn[g]
    BY Types DEF Abort
  <1>3. TypeOK'
    <2>1. txn' \in [Requests -> Work]
      BY Types DEF Abort, Work
    <2> QED BY <1>1, <2>1 DEF TypeOK, Work
  <1>4. CommandsOfSessions' /\ AnnouncedOnce'
    BY <1>1, <1>2 DEF CommandsOfSessions, AnnouncedOnce, WasPaid, Idle
  <1>5. NamesOnce' /\ RowsOfSessions' /\ NamedOnceOpen' /\ Acknowledged' /\ AllCounted'
    BY <1>1 DEF NamesOnce, RowsOfSessions, WasPaid, NamedOnceOpen, Acknowledged, AllCounted, Counted
  <1> QED BY <1>3, <1>4, <1>5

-----------------------------------------------------------------------------
(* Attempts to handle an event.                                            *)

LEMMA AttemptInv ==
  ASSUME IInv, NEW t \in Ids, NEW o \in Onboardings, Counted(o),
         onboarding[t].event = "pending",
         onboarding' = [onboarding EXCEPT ![t] = o], UNCHANGED <<tenants, checkout, txn>>
  PROVE  IInv'
  <1> USE DEF IInv
  <1>1. Ids' = Ids /\ \A u \in Ids : onboarding'[u] = IF u = t THEN o ELSE onboarding[u]
    BY Types DEF Ids
  <1>2. onboarding' \in Seq(Onboardings) /\ Len(onboarding') = Len(onboarding)
    BY Types
  <1>3. TypeOK'
    BY <1>1, <1>2 DEF TypeOK, Onboardings
  <1>4. AnnouncedOnce'
    <2>1. \A h \in Requests : txn[h].op = "announce" => txn[h].tenant \in Ids /\ txn[h].tenant # t
      BY Types DEF AnnouncedOnce
    <2> QED BY <1>1, <2>1 DEF AnnouncedOnce
  <1>5. AllCounted'
    BY <1>1 DEF AllCounted, Counted
  <1>6. NamesOnce' /\ RowsOfSessions' /\ CommandsOfSessions' /\ NamedOnceOpen' /\ Acknowledged'
    BY <1>1 DEF NamesOnce, RowsOfSessions, CommandsOfSessions, WasPaid, NamedOnceOpen, Acknowledged
  <1> QED BY <1>3, <1>4, <1>5, <1>6

\* An attempt keeps the columns of its event together, however it ends.
LEMMA AttemptsCounted ==
  ASSUME NEW o \in Onboardings, Counted(o), o.event = "pending"
  PROVE  /\ Attempted(o, "done", 1, 0) \in Onboardings /\ Counted(Attempted(o, "done", 1, 0))
         /\ \A d \in {0, 1} : LET p == Attempted(o, AfterFailure(o), d, d)
                             IN  p \in Onboardings /\ Counted(p)
  <1>1. /\ Retries \in Nat
        /\ o.attempts \in Nat /\ o.seeded \in Nat /\ o.unanswered \in Nat
        /\ o.attempts <= Retries /\ o.seeded <= o.attempts /\ o.seeded = o.unanswered
    BY RetriesAssumption DEF Onboardings, Counted
  <1>2. Attempted(o, "done", 1, 0) \in Onboardings /\ Counted(Attempted(o, "done", 1, 0))
    BY <1>1 DEF Attempted, Onboardings, Counted
  <1>3. ASSUME NEW d \in {0, 1}
        PROVE  /\ Attempted(o, AfterFailure(o), d, d) \in Onboardings
               /\ Counted(Attempted(o, AfterFailure(o), d, d))
    BY <1>1 DEF Attempted, AfterFailure, Onboardings, Counted
  <1> QED BY <1>2, <1>3

LEMMA SeedInv ==
  ASSUME IInv, NEW t \in Ids, Seed(t) \/ SeedFails(t) \/ SeedGoesUnanswered(t)
  PROVE  IInv'
  <1>1. /\ onboarding[t] \in Onboardings /\ onboarding[t].event = "pending"
        /\ Counted(onboarding[t]) /\ UNCHANGED <<tenants, checkout, txn>>
    BY Types DEF IInv, AllCounted, Seed, SeedFails, SeedGoesUnanswered
  <1>2. PICK o \in Onboardings : Counted(o) /\ onboarding' = [onboarding EXCEPT ![t] = o]
    BY <1>1, AttemptsCounted DEF Seed, SeedFails, SeedGoesUnanswered
  <1> QED BY <1>1, <1>2, AttemptInv

LEMMA CrashInv ==
  ASSUME IInv, Crash
  PROVE  IInv'
  <1> USE DEF IInv
  <1> DEFINE Lost(t) == IF onboarding[t].event \in {"unpublished", "pending"}
                        THEN [onboarding[t] EXCEPT !.event = "lost"] ELSE onboarding[t]
  <1>1. /\ UNCHANGED <<tenants, checkout, Ids>>
        /\ \A h \in Requests : txn'[h] = Idle
        /\ onboarding' = [t \in Ids |-> Lost(t)]
    BY DEF Crash, Ids
  <1>2. \A t \in Ids : Lost(t) \in Onboardings /\ Counted(Lost(t))
    BY Types, RetriesAssumption DEF Onboardings, AllCounted, Counted
  <1> HIDE DEF Lost
  <1>3. onboarding' \in Seq(Onboardings) /\ Len(onboarding') = Len(tenants)
    BY <1>1, <1>2, Types
  <1>4. TypeOK'
    <2>1. txn' \in [Requests -> Work']
      BY DEF Crash, Work
    <2> QED BY <1>1, <1>3, <2>1 DEF TypeOK, Onboardings, Work
  <1>5. AllCounted'
    BY <1>1, <1>2 DEF AllCounted, Counted
  <1>6. CommandsOfSessions' /\ AnnouncedOnce'
    BY <1>1 DEF CommandsOfSessions, AnnouncedOnce, Idle
  <1>7. NamesOnce' /\ RowsOfSessions' /\ NamedOnceOpen' /\ Acknowledged'
    BY <1>1 DEF NamesOnce, RowsOfSessions, WasPaid, NamedOnceOpen, Acknowledged
  <1> QED BY <1>4, <1>5, <1>6, <1>7

-----------------------------------------------------------------------------
(* The customer and Stripe.                                                *)

LEMMA StripeInv ==
  ASSUME IInv, NEW s \in Sessions, Pay(s) \/ \E n \in Names : OpenCheckout(s, n)
  PROVE  IInv'
  <1> USE DEF IInv
  <1>1. UNCHANGED <<tenants, onboarding, txn, Ids>> /\ \A x \in Sessions \ {s} : checkout'[x] = checkout[x]
    BY DEF Pay, OpenCheckout, Ids, TypeOK
  <1>2. /\ WasPaid(s) => FALSE
        /\ checkout'[s].state \in {"open", "paid"}
        /\ checkout'[s].name \in Names
    BY DEF Pay, OpenCheckout, WasPaid, TypeOK, NamedOnceOpen
  <1>3. TypeOK'
    <2>1. checkout' \in [Sessions -> [state : {"none", "open", "paid", "acknowledged"},
                                      name : Names \cup {None}, id : Sessions \cup {None}]]
      BY DEF Pay, OpenCheckout, TypeOK
    <2> QED BY <1>1, <2>1 DEF TypeOK
  <1>4. RowsOfSessions' /\ CommandsOfSessions'
    <2>1. \A x \in Sessions : WasPaid(x) => checkout'[x] = checkout[x]
      BY <1>1, <1>2
    <2> QED BY <1>1, <2>1, Types DEF RowsOfSessions, CommandsOfSessions, WasPaid, Tenants, Commands
  <1>5. NamedOnceOpen' /\ Acknowledged'
    BY <1>1, <1>2 DEF NamedOnceOpen, Acknowledged
  <1>6. NamesOnce' /\ AnnouncedOnce' /\ AllCounted'
    BY <1>1 DEF NamesOnce, AnnouncedOnce, AllCounted, Counted
  <1> QED BY <1>3, <1>4, <1>5, <1>6

-----------------------------------------------------------------------------
\* No step breaks the invariant.
LEMMA NextInv == IInv /\ [Next]_vars => IInv'
  <1> SUFFICES ASSUME IInv, [Next]_vars PROVE IInv'
    OBVIOUS
  <1>1. ASSUME NEW h \in Requests,
               \/ \E n \in Names, u \in {"free_trial", "paid"} :
                    RegisterTenant(h, n, u) \/ AdminCreateTenant(h, n, u)
               \/ \E s \in Sessions : ActivateTenantAfterPayment(h, s)
        PROVE  IInv'
    BY <1>1, RegisterInv, ActivateInv
  <1>2. ASSUME NEW h \in Requests,
               Insert(h) \/ InsertGoesUnanswered(h) \/ Announce(h) \/ Abort(h)
        PROVE  IInv'
    BY <1>2, InsertInv, InsertGoesUnansweredInv, AnnounceInv, AbortInv
  <1>3. ASSUME NEW t \in Ids, Seed(t) \/ SeedFails(t) \/ SeedGoesUnanswered(t)
        PROVE  IInv'
    BY <1>3, SeedInv
  <1>4. CASE Crash
    BY <1>4, CrashInv
  <1>5. ASSUME NEW s \in Sessions, Pay(s) \/ \E n \in Names : OpenCheckout(s, n)
        PROVE  IInv'
    BY <1>5, StripeInv
  <1>6. CASE UNCHANGED vars
    BY <1>6 DEF vars, IInv, TypeOK, Ids, NamesOnce, RowsOfSessions, CommandsOfSessions, WasPaid,
                NamedOnceOpen, AnnouncedOnce, Acknowledged, AllCounted, Counted
  <1> QED BY <1>1, <1>2, <1>3, <1>4, <1>5, <1>6 DEF Next

LEMMA Invariant == Spec => []IInv
  BY InitInv, NextInv, PTL DEF Spec

\* The tables keep their types.
THEOREM TypeCorrect == Spec => []TypeOK
  <1>1. IInv => TypeOK
    BY DEF IInv
  <1> QED BY <1>1, Invariant, PTL

\* However often Stripe delivers, whatever requests race and crash, a session
\* activates one tenant at most, and is acknowledged only when it has: two rows
\* of a session would have its one name, and names are unique.
THEOREM OnePurchaseOneShop == Spec => []OneShopPerPurchase
  <1>1. IInv => OneShopPerPurchase
    <2> SUFFICES ASSUME IInv, NEW s \in Sessions
                 PROVE  /\ \A t, u \in Ids : tenants[t].session = s /\ tenants[u].session = s => t = u
                        /\ checkout[s].state = "acknowledged" => \E t \in Ids : tenants[t].session = s
      BY DEF OneShopPerPurchase
    <2>1. s # None
      BY NoneAssumption
    <2> QED BY <2>1 DEF IInv, RowsOfSessions, NamesOnce, Acknowledged
  <1> QED BY <1>1, Invariant, PTL

\* Attempts to seed a tenant's configuration are counted right: what the table
\* holds more than once was committed and not answered.
THEOREM SeededAsAnsweredAlways == Spec => []SeededAsAnswered
  <1>1. IInv => SeededAsAnswered
    BY DEF IInv, AllCounted, Counted, SeededAsAnswered
  <1> QED BY <1>1, Invariant, PTL
=============================================================================
