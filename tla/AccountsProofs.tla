--------------------------- MODULE AccountsProofs --------------------------
(***************************************************************************)
(* Proofs about Accounts, and with it PhoneLogin, for any phones, links,   *)
(* e-mails, requests and number of attempts.                               *)
(***************************************************************************)
EXTENDS Accounts, SequenceTheorems, TLAPS

-----------------------------------------------------------------------------
(* The invariant                                                           *)

Users == [email : Phones \cup Emails, named : BOOLEAN, roles : SUBSET {"customer"}]
Limits == [count : 0..MaxAttempts, over : BOOLEAN]
SentLinks == [state : {"sent", "consumed"}, phone : Phones, expired : BOOLEAN]
Sessions == [user : Nat, roles : SUBSET {"customer"}]

Verifying == {"find", "user", "role", "session"}

\* What a request has in hand exists, and what it knows of a user's roles is
\* true still: users and links are not deleted, roles not taken away.
WorkOK(work) ==
  /\ work.op = "limit" => /\ work.phone \in Phones /\ work.seen \in Limits
                          /\ work.seen.over \/ work.seen.count < MaxAttempts
  /\ work.op = "send" => work.phone \in Phones
  /\ work.op \in Verifying => work.link \in Links /\ link[work.link] # NoLink
  /\ work.op \in {"role", "session", "me"} => work.user \in DOMAIN users
  /\ work.op = "session" => work.roles \subseteq users[work.user].roles
  /\ work.op = "me" => work.email \in Emails \cup {Unchanged}
  /\ work.op = "new" => work.email \in Emails

TablesOK ==
  /\ DOMAIN link = Links /\ DOMAIN txn = Requests
  /\ sessions \in [Links -> Seq(Sessions)]
  /\ creators \subseteq Links

\* What was never sent was never used.
UnsentUnused == \A l \in Links : link[l] = NoLink => sessions[l] = <<>> /\ l \notin creators

IInv ==
  /\ TypeOK /\ TablesOK
  /\ \A h \in Requests : WorkOK(txn[h])
  /\ UnsentUnused /\ UsedUpForSomething

-----------------------------------------------------------------------------
(* The invariant of requests that do not overlap                           *)

Alone == \A g, h \in Requests : txn[g] # Idle /\ txn[h] # Idle => g = h

\* What a request has read is true still.  It is let through while its count
\* is below that of the window; the link it verifies has not logged in; nobody
\* has a token of the user whose role is still to be inserted.
InHand(work) ==
  /\ work.op = "limit" => work.seen.count = limit[work.phone].count
  /\ work.op = "send" => sent[work.phone] < limit[work.phone].count
  /\ work.op \in Verifying => sessions[work.link] = <<>>
  /\ work.op = "role" =>
       /\ \A l \in Links : \A n \in DOMAIN sessions[l] : sessions[l][n].user # work.user
       /\ \A a \in anonymous : a.user # work.user
  /\ work.op = "session" => work.roles = users[work.user].roles

\* A link that has logged in is used up, and a token says exactly which roles
\* its user has.
TablesAgree ==
  /\ \A p \in Phones : sent[p] <= limit[p].count
  /\ \A l \in Links : sessions[l] # <<>> => link[l].state = "consumed"
  /\ \A l \in Links : \A n \in DOMAIN sessions[l] :
       sessions[l][n].roles = users[sessions[l][n].user].roles
  /\ \A a \in anonymous : a.user \in DOMAIN users

SerialInv ==
  /\ IInv /\ Alone /\ TablesAgree /\ SingleUse /\ NamelessHaveNoRole
  /\ \A h \in Requests : InHand(txn[h])

-----------------------------------------------------------------------------
(* What steps have in common                                               *)

UsersGrow ==
  /\ DOMAIN users \subseteq DOMAIN users'
  /\ \A u \in DOMAIN users : users[u].roles \subseteq users'[u].roles

LinksStay == \A l \in Links : link[l] # NoLink => link'[l] # NoLink

\* What a request has in hand stays right under the steps of others.
LEMMA WorkStays ==
  ASSUME UsersGrow, LinksStay, NEW work, WorkOK(work)
  PROVE  WorkOK(work)'
  <1>1. work.op \in Verifying => work.link \in Links /\ link'[work.link] # NoLink
    BY DEF WorkOK, LinksStay
  <1>2. work.op \in {"role", "session", "me"} => work.user \in DOMAIN users'
    BY DEF WorkOK, UsersGrow
  <1>3. work.op = "session" => work.roles \subseteq users'[work.user].roles
    BY DEF WorkOK, UsersGrow
  <1> QED BY <1>1, <1>2, <1>3 DEF WorkOK

LEMMA IdleOK == WorkOK(Idle)
  BY DEF WorkOK, Idle, Verifying

LEMMA TxnInv ==
  ASSUME IInv, UsersGrow, LinksStay, NEW h \in Requests, NEW work,
         WorkOK(work)', txn' = [txn EXCEPT ![h] = work]
  PROVE  DOMAIN txn' = Requests /\ (\A g \in Requests : WorkOK(txn[g]))'
  <1>1. DOMAIN txn = Requests /\ \A g \in Requests : WorkOK(txn[g])
    BY DEF IInv, TablesOK
  <1>2. DOMAIN txn' = Requests /\ \A g \in Requests : txn'[g] = IF g = h THEN work ELSE txn[g]
    BY <1>1
  <1>3. ASSUME NEW g \in Requests PROVE WorkOK(txn[g])'
    <2>1. CASE g = h
      <3>1. txn'[g] = work
        BY <1>2, <2>1
      <3> QED BY <3>1 DEF WorkOK
    <2>2. CASE g # h
      <3>1. txn'[g] = txn[g]
        BY <1>2, <2>2
      <3>2. PICK w : w = txn[g]
        OBVIOUS
      <3>3. WorkOK(w)'
        BY <1>1, <3>2, WorkStays
      <3> QED BY <3>1, <3>2, <3>3 DEF WorkOK
    <2> QED BY <2>1, <2>2
  <1> QED BY <1>2, <1>3

\* A request reads, begins or ends without a write.
LEMMA OnlyWork ==
  ASSUME IInv, NEW h \in Requests, NEW work, WorkOK(work),
         txn' = [txn EXCEPT ![h] = work],
         UNCHANGED <<limit, link, users, sessions, sent, creators>>
  PROVE  IInv'
  <1>1. UsersGrow /\ LinksStay
    BY DEF UsersGrow, LinksStay
  <1>2. WorkOK(work)'
    BY <1>1, WorkStays
  <1>3. DOMAIN txn' = Requests /\ (\A g \in Requests : WorkOK(txn[g]))'
    BY <1>1, <1>2, TxnInv
  <1>4. TypeOK'
    BY DEF IInv, TypeOK
  <1>5. TablesOK'
    BY <1>3 DEF IInv, TablesOK
  <1>6. UnsentUnused' /\ UsedUpForSomething'
    BY DEF IInv, UnsentUnused, UsedUpForSomething
  <1> QED BY <1>3, <1>4, <1>5, <1>6 DEF IInv

\* What a link may be.
LEMMA LinkTypes ==
  ASSUME IInv, NEW l \in Links
  PROVE  /\ link[l] = NoLink \/ link[l] \in SentLinks
         /\ link[l] = NoLink <=> link[l].state = "none"
         /\ link[l] # NoLink => link[l].state \in {"sent", "consumed"} /\ link[l].phone \in Phones
  <1>1. link[l] = NoLink \/ link[l] \in SentLinks
    BY DEF IInv, TypeOK, SentLinks
  <1> QED BY <1>1 DEF NoLink, SentLinks

\* A link that was sent has been used, or what it is used for goes with it.
LEMMA LinkWritten ==
  ASSUME IInv, NEW l \in Links, NEW new \in SentLinks,
         link' = [link EXCEPT ![l] = new]
  PROVE  /\ LinksStay /\ DOMAIN link' = Links /\ link'[l] = new
         /\ \A m \in Links \ {l} : link'[m] = link[m]
         /\ \A m \in Links : link'[m] = NoLink \/ link'[m] \in SentLinks
         /\ link'[l] # NoLink
  <1>1. DOMAIN link = Links
    BY DEF IInv, TablesOK
  <1>2. DOMAIN link' = Links /\ link'[l] = new /\ \A m \in Links \ {l} : link'[m] = link[m]
    BY <1>1
  <1>3. new # NoLink
    BY DEF SentLinks, NoLink
  <1> QED BY <1>2, <1>3, LinkTypes DEF LinksStay

\* The users grow, and all that is known of them stays.
LEMMA UsersWritten ==
  ASSUME IInv, UsersGrow, sessions' = sessions
  PROVE  \A l \in Links : \A n \in DOMAIN sessions'[l] :
           /\ sessions'[l][n].user \in DOMAIN users'
           /\ sessions'[l][n].roles \subseteq users'[sessions'[l][n].user].roles
  BY DEF IInv, TypeOK, UsersGrow

LEMMA InitInv == AccountsInit => IInv
  <1> SUFFICES ASSUME AccountsInit PROVE IInv
    OBVIOUS
  <1>1. /\ limit = [p \in Phones |-> [count |-> 0, over |-> FALSE]]
        /\ link = [l \in Links |-> NoLink] /\ users = <<>>
        /\ sessions = [l \in Links |-> <<>>] /\ txn = [h \in Requests |-> Idle]
        /\ sent = [p \in Phones |-> 0] /\ creators = {}
    BY DEF AccountsInit, Init
  <1>2. TypeOK
    BY <1>1, MaxAttemptsAssumption DEF TypeOK
  <1>3. TablesOK
    BY <1>1 DEF TablesOK
  <1>4. \A h \in Requests : WorkOK(txn[h])
    BY <1>1, IdleOK
  <1>5. UnsentUnused /\ UsedUpForSomething
    BY <1>1 DEF UnsentUnused, UsedUpForSomething, NoLink
  <1> QED BY <1>2, <1>3, <1>4, <1>5 DEF IInv

-----------------------------------------------------------------------------
(* Steps that write nothing                                                *)

LEMMA ReadingInv ==
  ASSUME IInv, NEW h \in Requests,
         \/ \E p \in Phones : ReadLimit(h, p)
         \/ \E l \in Links : ReadLink(h, l)
         \/ FindUser(h) \/ Abort(h)
         \/ \E l \in Links, name \in {Unchanged, "set", "unset"}, e \in Emails \cup {Unchanged} :
              ReadMe(h, l, name, e)
         \/ \E e \in Emails : ReadNewUser(h, e)
  PROVE  IInv'
  <1>1. ASSUME NEW p \in Phones, ReadLimit(h, p) PROVE IInv'
    <2> DEFINE work == [op |-> "limit", phone |-> p, seen |-> limit[p]]
    <2>1. limit[p] \in Limits
      BY DEF IInv, TypeOK, Limits
    <2>2. WorkOK(work)
      BY <1>1, <2>1 DEF ReadLimit, WorkOK, Verifying
    <2>3. txn' = [txn EXCEPT ![h] = work]
          /\ UNCHANGED <<limit, link, users, sessions, sent, creators>>
      BY <1>1 DEF ReadLimit, Begin
    <2> HIDE DEF work
    <2> QED BY <2>2, <2>3, OnlyWork
  <1>2. ASSUME NEW l \in Links, ReadLink(h, l) PROVE IInv'
    <2> DEFINE work == [op |-> "find", link |-> l]
    <2>1. link[l] # NoLink
      BY <1>2, LinkTypes DEF ReadLink
    <2>2. WorkOK(work)
      BY <2>1 DEF WorkOK, Verifying
    <2>3. txn' = [txn EXCEPT ![h] = work]
          /\ UNCHANGED <<limit, link, users, sessions, sent, creators>>
      BY <1>2 DEF ReadLink, Begin
    <2> HIDE DEF work
    <2> QED BY <2>2, <2>3, OnlyWork
  <1>3. ASSUME FindUser(h) PROVE IInv'
    <2> DEFINE l == txn[h].link
    <2>1. l \in Links /\ link[l] # NoLink
      BY <1>3 DEF FindUser, IInv, WorkOK, Verifying
    <2>2. UNCHANGED <<limit, link, users, sessions, sent, creators>>
      BY <1>3 DEF FindUser
    <2>3. PICK work :
            /\ txn' = [txn EXCEPT ![h] = work]
            /\ \/ work = [op |-> "user", link |-> l]
               \/ \E u \in DOMAIN users :
                    work = [op |-> "session", link |-> l, user |-> u, roles |-> users[u].roles]
      BY <1>3 DEF FindUser, Continue, WithEmail
    <2>4. WorkOK(work)
      BY <2>1, <2>3 DEF WorkOK, Verifying
    <2> QED BY <2>2, <2>3, <2>4, OnlyWork
  <1>4. ASSUME Abort(h) PROVE IInv'
    BY <1>4, IdleOK, OnlyWork DEF Abort, Continue
  <1>5. ASSUME NEW l \in Links, NEW name \in {Unchanged, "set", "unset"},
               NEW e \in Emails \cup {Unchanged}, ReadMe(h, l, name, e)
        PROVE  IInv'
    <2> DEFINE work == [op |-> "me", user |-> sessions[l][1].user, name |-> name, email |-> e]
    <2>1. 1 \in DOMAIN sessions[l]
      <3>1. sessions[l] \in Seq(Sessions) /\ sessions[l] # <<>>
        BY <1>5 DEF ReadMe, IInv, TablesOK
      <3> QED BY <3>1
    <2>2. sessions[l][1].user \in DOMAIN users
      BY <2>1 DEF IInv, TypeOK
    <2>3. WorkOK(work)
      BY <2>2 DEF WorkOK, Verifying
    <2>4. txn' = [txn EXCEPT ![h] = work]
          /\ UNCHANGED <<limit, link, users, sessions, sent, creators>>
      BY <1>5 DEF ReadMe, Begin
    <2> HIDE DEF work
    <2> QED BY <2>3, <2>4, OnlyWork
  <1>6. ASSUME NEW e \in Emails, ReadNewUser(h, e) PROVE IInv'
    <2> DEFINE work == [op |-> "new", email |-> e]
    <2>1. WorkOK(work)
      BY DEF WorkOK, Verifying
    <2>2. txn' = [txn EXCEPT ![h] = work]
          /\ UNCHANGED <<limit, link, users, sessions, sent, creators>>
      BY <1>6 DEF ReadNewUser, Begin
    <2> HIDE DEF work
    <2> QED BY <2>1, <2>2, OnlyWork
  <1> QED BY <1>1, <1>2, <1>3, <1>4, <1>5, <1>6
-----------------------------------------------------------------------------
(* startPhoneLogin                                                         *)

\* The limit of a phone, as an attempt leaves it.
LEMMA LimitWritten ==
  ASSUME IInv, NEW h \in Requests, WriteLimit(h)
  PROVE  LET p == txn[h].phone
             seen == txn[h].seen
         IN  /\ p \in Phones /\ txn[h].op = "limit" /\ seen \in Limits
             /\ limit' \in [Phones -> Limits] /\ sent' \in [Phones -> Nat]
             /\ \A q \in Phones \ {p} : limit'[q] = limit[q] /\ sent'[q] = sent[q]
             /\ \/ seen.count = 0 /\ limit'[p].count = 1 /\ sent'[p] = sent[p] /\ limit[p].count = 0
                \/ /\ seen.over /\ sent'[p] = 0
                   /\ limit'[p].count = IF seen.count = 1 THEN limit[p].count ELSE 1
                \/ limit'[p].count = seen.count + 1 /\ sent'[p] = sent[p]
             /\ txn' = [txn EXCEPT ![h] = [op |-> "send", phone |-> p]]
             /\ UNCHANGED <<link, users, sessions, creators>>
  <1> DEFINE p == txn[h].phone
             seen == txn[h].seen
  <1>1. /\ txn[h].op = "limit" /\ p \in Phones /\ seen \in Limits
        /\ seen.over \/ seen.count < MaxAttempts
    BY DEF WriteLimit, IInv, WorkOK
  <1>2. limit \in [Phones -> Limits] /\ sent \in [Phones -> Nat]
    BY DEF IInv, TypeOK, Limits
  <1>3. PICK l : l = limit[p]
    OBVIOUS
  <1>4. l \in Limits /\ l.count \in 0..MaxAttempts /\ l.over \in BOOLEAN /\ seen.count \in 0..MaxAttempts
    BY <1>1, <1>2, <1>3 DEF Limits
  <1>5. /\ txn' = [txn EXCEPT ![h] = [op |-> "send", phone |-> p]]
        /\ UNCHANGED <<link, users, sessions, creators>>
    BY DEF WriteLimit, Continue
  <1>6. ASSUME NEW c \in 0..MaxAttempts, NEW over \in BOOLEAN, NEW x \in Nat,
               limit' = [limit EXCEPT ![p] = [count |-> c, over |-> over]],
               sent' = [sent EXCEPT ![p] = x]
        PROVE  /\ limit' \in [Phones -> Limits] /\ sent' \in [Phones -> Nat]
               /\ \A q \in Phones \ {p} : limit'[q] = limit[q] /\ sent'[q] = sent[q]
               /\ limit'[p].count = c /\ sent'[p] = x
    <2>1. [count |-> c, over |-> over] \in Limits
      BY DEF Limits
    <2>2. limit'[p] = [count |-> c, over |-> over]
      BY <1>1, <1>2, <1>6
    <2> QED BY <1>1, <1>2, <1>6, <2>1, <2>2
  <1>7. sent' = [sent EXCEPT ![p] = sent[p]] \/ sent' # sent
    BY <1>1, <1>2
  <1>8. sent[p] \in Nat
    BY <1>1, <1>2
  <1>9. CASE seen.count = 0 /\ limit[p].count = 0 /\ limit' = [limit EXCEPT ![p].count = 1] /\ sent' = sent
    <2>1. [l EXCEPT !.count = 1] = [count |-> 1, over |-> l.over]
      BY <1>4 DEF Limits
    <2>2. limit' = [limit EXCEPT ![p] = [count |-> 1, over |-> l.over]]
      BY <1>3, <1>9, <2>1
    <2>3. 1 \in 0..MaxAttempts
      BY MaxAttemptsAssumption
    <2> HIDE DEF p, seen
    <2>4. sent' = [sent EXCEPT ![p] = sent[p]]
      BY <1>2, <1>7, <1>9
    <2>5. /\ limit' \in [Phones -> Limits] /\ sent' \in [Phones -> Nat]
          /\ \A q \in Phones \ {p} : limit'[q] = limit[q] /\ sent'[q] = sent[q]
          /\ limit'[p].count = 1 /\ sent'[p] = sent[p]
      BY <1>4, <1>6, <1>8, <2>2, <2>3, <2>4
    <2> QED BY <1>1, <1>5, <1>9, <2>5 DEF p, seen
  <1>10. CASE /\ seen.over
              /\ limit' = [limit EXCEPT ![p] =
                   [count |-> IF seen.count = 1 THEN @.count ELSE 1, over |-> FALSE]]
              /\ sent' = [sent EXCEPT ![p] = 0]
    <2> DEFINE c == IF seen.count = 1 THEN l.count ELSE 1
    <2>1. limit' = [limit EXCEPT ![p] = [count |-> c, over |-> FALSE]]
      BY <1>3, <1>10
    <2>2. c \in 0..MaxAttempts
      BY <1>4, MaxAttemptsAssumption
    <2>3. c = IF seen.count = 1 THEN limit[p].count ELSE 1
      BY <1>3
    <2> HIDE DEF p, seen, c
    <2>4. /\ limit' \in [Phones -> Limits] /\ sent' \in [Phones -> Nat]
          /\ \A q \in Phones \ {p} : limit'[q] = limit[q] /\ sent'[q] = sent[q]
          /\ limit'[p].count = c /\ sent'[p] = 0
      BY <1>6, <1>10, <2>1, <2>2
    <2> QED BY <1>1, <1>5, <1>10, <2>3, <2>4 DEF p, seen
  <1>11. CASE /\ seen.count # 0 /\ ~seen.over
              /\ limit' = [limit EXCEPT ![p].count = seen.count + 1] /\ sent' = sent
    <2>1. [l EXCEPT !.count = seen.count + 1] = [count |-> seen.count + 1, over |-> l.over]
      BY <1>4 DEF Limits
    <2>2. limit' = [limit EXCEPT ![p] = [count |-> seen.count + 1, over |-> l.over]]
      BY <1>3, <1>11, <2>1
    <2>3. seen.count + 1 \in 0..MaxAttempts
      BY <1>1, <1>4, <1>11, MaxAttemptsAssumption
    <2> HIDE DEF p, seen
    <2>4. sent' = [sent EXCEPT ![p] = sent[p]]
      BY <1>2, <1>7, <1>11
    <2>5. /\ limit' \in [Phones -> Limits] /\ sent' \in [Phones -> Nat]
          /\ \A q \in Phones \ {p} : limit'[q] = limit[q] /\ sent'[q] = sent[q]
          /\ limit'[p].count = seen.count + 1 /\ sent'[p] = sent[p]
      BY <1>4, <1>6, <1>8, <2>2, <2>3, <2>4
    <2> QED BY <1>1, <1>5, <1>11, <2>5 DEF p, seen
  <1> QED BY <1>9, <1>10, <1>11 DEF WriteLimit

LEMMA WriteLimitInv ==
  ASSUME IInv, NEW h \in Requests, WriteLimit(h)
  PROVE  IInv'
  <1>1. PICK p \in Phones :
          /\ limit' \in [Phones -> Limits] /\ sent' \in [Phones -> Nat]
          /\ txn' = [txn EXCEPT ![h] = [op |-> "send", phone |-> p]]
          /\ UNCHANGED <<link, users, sessions, creators>>
    BY LimitWritten
  <1>2. UsersGrow /\ LinksStay
    BY <1>1 DEF UsersGrow, LinksStay
  <1> DEFINE work == [op |-> "send", phone |-> p]
  <1>3. WorkOK(work)'
    BY DEF WorkOK, Verifying
  <1> HIDE DEF work
  <1>4. DOMAIN txn' = Requests /\ (\A g \in Requests : WorkOK(txn[g]))'
    BY <1>1, <1>2, <1>3, TxnInv DEF work
  <1>5. TypeOK'
    BY <1>1 DEF IInv, TypeOK, Limits
  <1>6. TablesOK'
    BY <1>1, <1>4 DEF IInv, TablesOK
  <1>7. UnsentUnused' /\ UsedUpForSomething'
    BY <1>1 DEF IInv, UnsentUnused, UsedUpForSomething
  <1> QED BY <1>4, <1>5, <1>6, <1>7 DEF IInv

LEMMA SendLinkInv ==
  ASSUME IInv, NEW h \in Requests, NEW l \in Links, SendLink(h, l)
  PROVE  IInv'
  <1> DEFINE p == txn[h].phone
             new == [state |-> "sent", phone |-> p, expired |-> FALSE]
  <1>1. p \in Phones
    BY DEF SendLink, IInv, WorkOK
  <1>2. /\ link[l] = NoLink /\ link' = [link EXCEPT ![l] = new]
        /\ sent' = [sent EXCEPT ![p] = @ + 1]
        /\ txn' = [txn EXCEPT ![h] = Idle]
        /\ UNCHANGED <<limit, users, sessions, creators>>
    BY DEF SendLink, Continue
  <1>3. new \in SentLinks /\ new.state = "sent"
    BY <1>1 DEF SentLinks
  <1> HIDE DEF new, p
  <1>4. /\ LinksStay /\ DOMAIN link' = Links /\ link'[l] = new /\ link'[l] # NoLink
        /\ \A m \in Links \ {l} : link'[m] = link[m]
        /\ \A m \in Links : link'[m] = NoLink \/ link'[m] \in SentLinks
    BY <1>2, <1>3, LinkWritten
  <1>5. UsersGrow
    BY <1>2 DEF UsersGrow
  <1>6. WorkOK(Idle)'
    BY DEF WorkOK, Idle, Verifying
  <1>7. DOMAIN txn' = Requests /\ (\A g \in Requests : WorkOK(txn[g]))'
    BY <1>2, <1>4, <1>5, <1>6, TxnInv
  <1>8. TypeOK'
    <2>1. sent' \in [Phones -> Nat]
      BY <1>1, <1>2 DEF IInv, TypeOK
    <2> QED BY <1>2, <1>4, <2>1 DEF IInv, TypeOK, SentLinks
  <1>9. TablesOK'
    BY <1>2, <1>4, <1>7 DEF IInv, TablesOK
  <1>10. UnsentUnused'
    BY <1>2, <1>4 DEF IInv, UnsentUnused
  <1>11. UsedUpForSomething'
    BY <1>2, <1>3, <1>4 DEF IInv, UsedUpForSomething, UnsentUnused
  <1> QED BY <1>7, <1>8, <1>9, <1>10, <1>11 DEF IInv

-----------------------------------------------------------------------------
(* verifyPhoneLogin                                                        *)

\* A user is added.
LEMMA UserAdded ==
  ASSUME IInv, NEW u \in Users, users' = Append(users, u)
  PROVE  /\ UsersGrow /\ users' \in Seq(Users)
         /\ DOMAIN users' = DOMAIN users \cup {Len(users) + 1} /\ Len(users) + 1 \notin DOMAIN users
         /\ users'[Len(users) + 1] = u
         /\ \A v \in DOMAIN users : users'[v] = users[v]
  <1>1. users \in Seq(Users)
    BY DEF IInv, TypeOK, Users
  <1>2. /\ users' \in Seq(Users) /\ Len(users') = Len(users) + 1 /\ Len(users) \in Nat
        /\ \A v \in 1..Len(users) : users'[v] = users[v]
        /\ users'[Len(users) + 1] = u
    BY <1>1, AppendProperties
  <1>3. DOMAIN users = 1..Len(users) /\ DOMAIN users' = 1..(Len(users) + 1)
    BY <1>1, <1>2
  <1> QED BY <1>2, <1>3 DEF UsersGrow

\* A user is changed and keeps her roles.
LEMMA UserChanged ==
  ASSUME IInv, NEW u \in DOMAIN users, NEW new \in Users, users[u].roles \subseteq new.roles,
         users' = [users EXCEPT ![u] = new]
  PROVE  /\ UsersGrow /\ users' \in Seq(Users) /\ DOMAIN users' = DOMAIN users
         /\ users'[u] = new /\ \A v \in DOMAIN users \ {u} : users'[v] = users[v]
  <1>1. users \in Seq(Users)
    BY DEF IInv, TypeOK, Users
  <1>2. DOMAIN users = 1..Len(users)
    BY <1>1
  <1>3. users' \in Seq(Users)
    BY <1>1, <1>2, ExceptSeq
  <1> QED BY <1>2, <1>3 DEF UsersGrow

LEMMA UserTypes ==
  ASSUME IInv, NEW u \in DOMAIN users
  PROVE  users[u] \in Users /\ u \in Nat
  <1>1. users \in Seq(Users)
    BY DEF IInv, TypeOK, Users
  <1> QED BY <1>1

LEMMA ConsumedLink ==
  ASSUME IInv, NEW l \in Links, link[l] # NoLink,
         link' = [link EXCEPT ![l].state = "consumed"]
  PROVE  /\ LinksStay /\ DOMAIN link' = Links /\ link'[l].state = "consumed" /\ link'[l] # NoLink
         /\ \A m \in Links \ {l} : link'[m] = link[m]
         /\ \A m \in Links : link'[m] = NoLink \/ link'[m] \in SentLinks
  <1>1. PICK old : old = link[l]
    OBVIOUS
  <1>2. old \in SentLinks
    BY <1>1, LinkTypes
  <1> DEFINE new == [state |-> "consumed", phone |-> old.phone, expired |-> old.expired]
  <1>3. new \in SentLinks /\ new.state = "consumed"
    BY <1>2 DEF SentLinks
  <1>4. [old EXCEPT !.state = "consumed"] = new
    BY <1>2 DEF SentLinks
  <1> HIDE DEF new
  <1>5. link' = [link EXCEPT ![l] = [old EXCEPT !.state = "consumed"]]
    BY <1>1
  <1>6. link' = [link EXCEPT ![l] = new]
    BY <1>4, <1>5
  <1> QED BY <1>3, <1>6, LinkWritten

LEMMA CreateUserInv ==
  ASSUME IInv, NEW h \in Requests, CreateUser(h)
  PROVE  IInv'
  <1>1. PICK l : l = txn[h].link
    OBVIOUS
  <1>2. PICK new, work :
          /\ new = Customer(link[l].phone)
          /\ work = [op |-> "role", link |-> l, user |-> Len(users) + 1]
    OBVIOUS
  <1>3. l \in Links /\ link[l] # NoLink
    BY <1>1 DEF CreateUser, IInv, WorkOK, Verifying
  <1>4. /\ users' = Append(users, new) /\ creators' = creators \cup {l}
        /\ link' = [link EXCEPT ![l].state = "consumed"]
        /\ txn' = [txn EXCEPT ![h] = work]
        /\ UNCHANGED <<limit, sessions, sent>>
    BY <1>1, <1>2 DEF CreateUser, Continue
  <1>5. new \in Users
    BY <1>2, <1>3, LinkTypes DEF Customer, Users
  <1>6. /\ UsersGrow /\ users' \in Seq(Users)
        /\ Len(users) + 1 \in DOMAIN users'
    BY <1>4, <1>5, UserAdded
  <1>7. /\ LinksStay /\ DOMAIN link' = Links /\ link'[l].state = "consumed" /\ link'[l] # NoLink
        /\ \A m \in Links \ {l} : link'[m] = link[m]
        /\ \A m \in Links : link'[m] = NoLink \/ link'[m] \in SentLinks
    BY <1>3, <1>4, ConsumedLink
  <1>8. WorkOK(work)'
    BY <1>2, <1>3, <1>6, <1>7 DEF WorkOK, Verifying
  <1>9. DOMAIN txn' = Requests /\ (\A g \in Requests : WorkOK(txn[g]))'
    BY <1>4, <1>6, <1>7, <1>8, TxnInv
  <1>10. TypeOK'
    BY <1>4, <1>6, <1>7, UsersWritten DEF IInv, TypeOK, SentLinks, Users
  <1>11. TablesOK'
    BY <1>3, <1>4, <1>7, <1>9 DEF IInv, TablesOK
  <1>12. UnsentUnused'
    BY <1>4, <1>7 DEF IInv, UnsentUnused
  <1>13. UsedUpForSomething'
    BY <1>3, <1>4, <1>7, LinkTypes DEF IInv, UsedUpForSomething
  <1> QED BY <1>9, <1>10, <1>11, <1>12, <1>13 DEF IInv

\* A step that changes users only.
LEMMA UsersInv ==
  ASSUME IInv, UsersGrow, users' \in Seq(Users), NEW h \in Requests, NEW work, WorkOK(work)',
         txn' = [txn EXCEPT ![h] = work],
         UNCHANGED <<limit, link, sessions, sent, creators>>
  PROVE  IInv'
  <1>1. LinksStay
    BY DEF LinksStay
  <1>2. DOMAIN txn' = Requests /\ (\A g \in Requests : WorkOK(txn[g]))'
    BY <1>1, TxnInv
  <1>3. TypeOK'
    BY UsersWritten DEF IInv, TypeOK, Users
  <1>4. TablesOK'
    BY <1>2 DEF IInv, TablesOK
  <1>5. UnsentUnused' /\ UsedUpForSomething'
    BY DEF IInv, UnsentUnused, UsedUpForSomething
  <1> QED BY <1>2, <1>3, <1>4, <1>5 DEF IInv
LEMMA CreateRoleInv ==
  ASSUME IInv, NEW h \in Requests, CreateRole(h)
  PROVE  IInv'
  <1>1. PICK u, l : u = txn[h].user /\ l = txn[h].link
    OBVIOUS
  <1>2. PICK new, work :
          /\ new = [email |-> users[u].email, named |-> users[u].named, roles |-> {"customer"}]
          /\ work = [op |-> "session", link |-> l, user |-> u, roles |-> {"customer"}]
    OBVIOUS
  <1>3. u \in DOMAIN users /\ l \in Links /\ link[l] # NoLink
    BY <1>1 DEF CreateRole, IInv, WorkOK, Verifying
  <1>4. PICK old : old = users[u]
    OBVIOUS
  <1>5. old \in Users
    BY <1>3, <1>4, UserTypes
  <1>6. [old EXCEPT !.roles = {"customer"}] = new
    BY <1>2, <1>4, <1>5 DEF Users
  <1>7. /\ users' = [users EXCEPT ![u].roles = {"customer"}]
        /\ txn' = [txn EXCEPT ![h] = work]
        /\ UNCHANGED <<limit, link, sessions, sent, creators>>
    BY <1>1, <1>2 DEF CreateRole, Continue
  <1>8. users' = [users EXCEPT ![u] = [old EXCEPT !.roles = {"customer"}]]
    BY <1>4, <1>7
  <1>9. users' = [users EXCEPT ![u] = new]
    BY <1>6, <1>8
  <1>10. new \in Users /\ users[u].roles \subseteq new.roles
    BY <1>2, <1>4, <1>5 DEF Users
  <1>11. /\ UsersGrow /\ users' \in Seq(Users) /\ DOMAIN users' = DOMAIN users
         /\ users'[u] = new
    BY <1>3, <1>9, <1>10, UserChanged
  <1>12. new.roles = {"customer"}
    BY <1>2
  <1>13. WorkOK(work)'
    BY <1>2, <1>3, <1>7, <1>11, <1>12 DEF WorkOK, Verifying
  <1> QED BY <1>7, <1>11, <1>13, UsersInv

LEMMA IssueSessionInv ==
  ASSUME IInv, NEW h \in Requests, IssueSession(h)
  PROVE  IInv'
  <1>1. PICK l, s : l = txn[h].link /\ s = [user |-> txn[h].user, roles |-> txn[h].roles]
    OBVIOUS
  <1>2. /\ l \in Links /\ link[l] # NoLink
        /\ s.user \in DOMAIN users /\ s.roles \subseteq users[s.user].roles
    BY <1>1 DEF IssueSession, IInv, WorkOK, Verifying
  <1>3. /\ link' = [link EXCEPT ![l].state = "consumed"]
        /\ sessions' = [sessions EXCEPT ![l] = <<s>> \o @]
        /\ txn' = [txn EXCEPT ![h] = Idle]
        /\ UNCHANGED <<limit, users, sent, creators>>
    BY <1>1 DEF IssueSession, Continue
  <1>4. s \in Sessions
    BY <1>1, <1>2, UserTypes DEF Sessions, Users
  <1>5. PICK old : old = sessions[l]
    OBVIOUS
  <1>6. old \in Seq(Sessions)
    BY <1>2, <1>5 DEF IInv, TablesOK
  <1>7. /\ <<s>> \o old \in Seq(Sessions) /\ Len(<<s>> \o old) = 1 + Len(old)
        /\ (<<s>> \o old)[1] = s
        /\ \A n \in 1..Len(old) : (<<s>> \o old)[n + 1] = old[n]
    <2>1. <<s>> \in Seq(Sessions) /\ Len(<<s>>) = 1 /\ <<s>>[1] = s
      BY <1>4
    <2> QED BY <1>6, <2>1, ConcatProperties
  <1>8. \A n \in DOMAIN (<<s>> \o old) :
          (<<s>> \o old)[n] = s \/ \E k \in DOMAIN old : (<<s>> \o old)[n] = old[k]
    <2>1. DOMAIN old = 1..Len(old) /\ Len(old) \in Nat /\ DOMAIN (<<s>> \o old) = 1..(1 + Len(old))
      BY <1>6, <1>7
    <2> PICK new : new = <<s>> \o old
      OBVIOUS
    <2>2. ASSUME NEW n \in 1..(1 + Len(old)), n # 1 PROVE n - 1 \in 1..Len(old) /\ (n - 1) + 1 = n
      BY <2>1, <2>2
    <2> QED BY <1>7, <2>1, <2>2
  <1>9. /\ sessions' \in [Links -> Seq(Sessions)] /\ sessions'[l] = <<s>> \o old
        /\ \A m \in Links \ {l} : sessions'[m] = sessions[m]
    BY <1>2, <1>3, <1>5, <1>7 DEF IInv, TablesOK
  <1>10. sessions'[l] # <<>>
    <2>1. Len(<<s>> \o old) # 0
      BY <1>6, <1>7
    <2> QED BY <1>9, <2>1
  <1>11. /\ LinksStay /\ DOMAIN link' = Links /\ link'[l].state = "consumed" /\ link'[l] # NoLink
         /\ \A m \in Links \ {l} : link'[m] = link[m]
         /\ \A m \in Links : link'[m] = NoLink \/ link'[m] \in SentLinks
    BY <1>2, <1>3, ConsumedLink
  <1>12. UsersGrow
    BY <1>3 DEF UsersGrow
  <1>13. WorkOK(Idle)'
    BY DEF WorkOK, Idle, Verifying
  <1>14. DOMAIN txn' = Requests /\ (\A g \in Requests : WorkOK(txn[g]))'
    BY <1>3, <1>11, <1>12, <1>13, TxnInv
  <1>15. TypeOK'
    <2>1. ASSUME NEW m \in Links, NEW n \in DOMAIN sessions'[m]
          PROVE  /\ sessions'[m][n].user \in DOMAIN users
                 /\ sessions'[m][n].roles \subseteq users[sessions'[m][n].user].roles
      <3>1. CASE m = l
        <4>1. sessions'[m][n] = s \/ \E k \in DOMAIN old : sessions'[m][n] = old[k]
          BY <1>8, <1>9, <2>1, <3>1
        <4> QED BY <1>2, <1>5, <4>1 DEF IInv, TypeOK
      <3>2. CASE m # l
        BY <1>9, <2>1, <3>2 DEF IInv, TypeOK
      <3> QED BY <3>1, <3>2
    <2>2. \A m \in Links : link'[m] = NoLink \/
            link'[m] \in [state : {"sent", "consumed"}, phone : Phones, expired : BOOLEAN]
      BY <1>11 DEF SentLinks
    <2>3. /\ limit' = limit /\ users' = users /\ sent' = sent
          /\ \A m \in Links : \A n \in DOMAIN sessions'[m] :
               /\ sessions'[m][n].user \in DOMAIN users'
               /\ sessions'[m][n].roles \subseteq users'[sessions'[m][n].user].roles
      BY <1>3, <2>1
    <2> QED BY <2>2, <2>3 DEF IInv, TypeOK
  <1>16. TablesOK'
    BY <1>3, <1>9, <1>11, <1>14 DEF IInv, TablesOK
  <1>17. UnsentUnused'
    BY <1>3, <1>9, <1>11 DEF IInv, UnsentUnused
  <1>18. UsedUpForSomething'
    BY <1>3, <1>9, <1>10, <1>11 DEF IInv, UsedUpForSomething
  <1> QED BY <1>14, <1>15, <1>16, <1>17, <1>18 DEF IInv
\* A step of the clock.
LEMMA TxnSame ==
  ASSUME IInv, UsersGrow, LinksStay, txn' = txn
  PROVE  DOMAIN txn' = Requests /\ (\A g \in Requests : WorkOK(txn[g]))'
  <1>1. DOMAIN txn = Requests /\ \A g \in Requests : WorkOK(txn[g])
    BY DEF IInv, TablesOK
  <1>2. ASSUME NEW g \in Requests PROVE WorkOK(txn[g])'
    <2>1. PICK w : w = txn[g]
      OBVIOUS
    <2>2. WorkOK(w)'
      BY <1>1, <2>1, WorkStays
    <2> QED BY <2>1, <2>2 DEF WorkOK
  <1> QED BY <1>1, <1>2

LEMMA WindowPassesInv ==
  ASSUME IInv, NEW p \in Phones, WindowPasses(p)
  PROVE  IInv'
  <1>1. PICK old : old = limit[p]
    OBVIOUS
  <1>2. old \in Limits
    BY <1>1 DEF IInv, TypeOK, Limits
  <1>3. [old EXCEPT !.over = TRUE] \in Limits
    BY <1>2 DEF Limits
  <1>4. /\ limit' = [limit EXCEPT ![p] = [old EXCEPT !.over = TRUE]]
        /\ UNCHANGED <<link, users, sessions, txn, sent, creators>>
    BY <1>1 DEF WindowPasses
  <1>5. UsersGrow /\ LinksStay
    BY <1>4 DEF UsersGrow, LinksStay
  <1>6. DOMAIN txn' = Requests /\ (\A g \in Requests : WorkOK(txn[g]))'
    BY <1>4, <1>5, TxnSame
  <1>7. limit' \in [Phones -> Limits]
    BY <1>3, <1>4 DEF IInv, TypeOK, Limits
  <1>8. TypeOK'
    BY <1>4, <1>7 DEF IInv, TypeOK, Limits
  <1>9. TablesOK'
    BY <1>4, <1>6 DEF IInv, TablesOK
  <1>10. UnsentUnused' /\ UsedUpForSomething'
    BY <1>4 DEF IInv, UnsentUnused, UsedUpForSomething
  <1> QED BY <1>6, <1>8, <1>9, <1>10 DEF IInv

LEMMA LinkExpiresInv ==
  ASSUME IInv, NEW l \in Links, LinkExpires(l)
  PROVE  /\ IInv' /\ link'[l].state = link[l].state
         /\ \A m \in Links \ {l} : link'[m] = link[m]
         /\ UNCHANGED <<limit, users, sessions, txn, sent, creators>>
  <1>1. PICK old : old = link[l]
    OBVIOUS
  <1>2. old # NoLink /\ old \in SentLinks
    BY <1>1, LinkTypes DEF LinkExpires
  <1>3. PICK new : new = [old EXCEPT !.expired = TRUE]
    OBVIOUS
  <1>4. new \in SentLinks /\ new.state = old.state
    BY <1>2, <1>3 DEF SentLinks
  <1>5. /\ link' = [link EXCEPT ![l] = new]
        /\ UNCHANGED <<limit, users, sessions, txn, sent, creators>>
    BY <1>1, <1>3 DEF LinkExpires
  <1>6. /\ LinksStay /\ DOMAIN link' = Links /\ link'[l] = new /\ link'[l] # NoLink
        /\ \A m \in Links \ {l} : link'[m] = link[m]
        /\ \A m \in Links : link'[m] = NoLink \/ link'[m] \in SentLinks
    BY <1>4, <1>5, LinkWritten
  <1>7. UsersGrow
    BY <1>5 DEF UsersGrow
  <1>8. DOMAIN txn' = Requests /\ (\A g \in Requests : WorkOK(txn[g]))'
    BY <1>5, <1>6, <1>7, TxnSame
  <1>9. TypeOK'
    BY <1>5, <1>6 DEF IInv, TypeOK, SentLinks
  <1>10. TablesOK'
    BY <1>5, <1>6, <1>8 DEF IInv, TablesOK
  <1>11. UnsentUnused'
    BY <1>5, <1>6 DEF IInv, UnsentUnused
  <1>12. UsedUpForSomething'
    <2>1. link[l].state # "none"
      BY DEF LinkExpires
    <2> QED BY <1>1, <1>4, <1>5, <1>6, <2>1 DEF IInv, UsedUpForSomething
  <1> QED BY <1>1, <1>4, <1>5, <1>6, <1>8, <1>9, <1>10, <1>11, <1>12 DEF IInv

-----------------------------------------------------------------------------
(* updateMe and CreateUserHandler                                          *)

\* A user of the profile keeps her roles.
LEMMA MeWritten ==
  ASSUME IInv, NEW h \in Requests, WriteMe(h)
  PROVE  /\ UsersGrow /\ users' \in Seq(Users) /\ DOMAIN users' = DOMAIN users
         /\ \A v \in DOMAIN users : users'[v].roles = users[v].roles
         /\ txn' = [txn EXCEPT ![h] = Idle]
         /\ UNCHANGED <<limit, link, sessions, sent, creators, anonymous>>
  <1>1. PICK u : u = txn[h].user
    OBVIOUS
  <1>2. PICK e : e = IF txn[h].email = Unchanged THEN users[u].email ELSE txn[h].email
    OBVIOUS
  <1>3. u \in DOMAIN users /\ txn[h].email \in Emails \cup {Unchanged}
    BY <1>1 DEF WriteMe, IInv, WorkOK
  <1>4. PICK old : old = users[u]
    OBVIOUS
  <1>5. old \in Users
    BY <1>3, <1>4, UserTypes
  <1>6. PICK named : named = IF txn[h].name = Unchanged THEN old.named ELSE txn[h].name = "set"
    OBVIOUS
  <1>7. named \in BOOLEAN
    BY <1>5, <1>6 DEF Users
  <1>8. e \in Phones \cup Emails
    BY <1>2, <1>3, <1>4, <1>5 DEF Users
  <1>9. PICK new : new = [email |-> e, named |-> named, roles |-> old.roles]
    OBVIOUS
  <1>10. new \in Users /\ new.roles = old.roles
    BY <1>5, <1>7, <1>8, <1>9 DEF Users
  <1>11. /\ users' = [users EXCEPT ![u].email = e,
             ![u].named = IF txn[h].name = Unchanged THEN @ ELSE txn[h].name = "set"]
         /\ txn' = [txn EXCEPT ![h] = Idle]
         /\ UNCHANGED <<limit, link, sessions, sent, creators, anonymous>>
    BY <1>1, <1>2 DEF WriteMe, Continue
  <1>12. users' = [users EXCEPT ![u] = new]
    <2>1. PICK mid : mid = [old EXCEPT !.email = e]
      OBVIOUS
    <2>2. mid = [email |-> e, named |-> old.named, roles |-> old.roles]
      BY <1>5, <2>1 DEF Users
    <2>3. [mid EXCEPT !.named = named] = new
      BY <1>9, <2>2
    <2>4. mid.named = old.named
      BY <2>2
    <2>5. PICK half : half = [users EXCEPT ![u].email = e]
      OBVIOUS
    <2>6. half = [users EXCEPT ![u] = mid]
      BY <1>4, <2>1, <2>5
    <2>7. DOMAIN half = DOMAIN users /\ half[u] = mid
          /\ \A v \in DOMAIN users \ {u} : half[v] = users[v]
      BY <1>3, <2>6
    <2>8. users' = [half EXCEPT ![u].named = named]
      <3>1. users' = [half EXCEPT ![u].named =
                        IF txn[h].name = Unchanged THEN half[u].named ELSE txn[h].name = "set"]
        BY <1>11, <2>5
      <3>2. half[u].named = old.named
        BY <2>4, <2>7
      <3> QED BY <1>6, <3>1, <3>2
    <2>9. users' = [half EXCEPT ![u] = new]
      BY <2>3, <2>7, <2>8
    <2>10. [half EXCEPT ![u] = new] = [users EXCEPT ![u] = new]
      BY <2>6, <2>7
    <2> QED BY <2>9, <2>10
  <1>13. /\ UsersGrow /\ users' \in Seq(Users) /\ DOMAIN users' = DOMAIN users
         /\ users'[u] = new /\ \A v \in DOMAIN users \ {u} : users'[v] = users[v]
    BY <1>3, <1>4, <1>10, <1>12, UserChanged
  <1>14. \A v \in DOMAIN users : users'[v].roles = users[v].roles
    BY <1>4, <1>10, <1>13
  <1> QED BY <1>11, <1>13, <1>14

LEMMA ProfileInv ==
  ASSUME IInv, NEW h \in Requests, WriteMe(h) \/ InsertNewUser(h)
  PROVE  IInv'
  <1>1. WorkOK(Idle)'
    BY DEF WorkOK, Idle, Verifying
  <1>2. CASE WriteMe(h)
    BY <1>1, <1>2, MeWritten, UsersInv
  <1>3. CASE InsertNewUser(h)
    <2>1. PICK new : new = [email |-> txn[h].email, named |-> TRUE, roles |-> {"customer"}]
      OBVIOUS
    <2>2. txn[h].email \in Emails
      BY <1>3 DEF InsertNewUser, IInv, WorkOK
    <2>3. new \in Users
      BY <2>1, <2>2 DEF Users
    <2>4. users' = Append(users, new) /\ txn' = [txn EXCEPT ![h] = Idle]
          /\ UNCHANGED <<limit, link, sessions, sent, creators>>
      BY <1>3, <2>1 DEF InsertNewUser, Continue
    <2>5. UsersGrow /\ users' \in Seq(Users)
      BY <2>3, <2>4, UserAdded
    <2> QED BY <1>1, <2>4, <2>5, UsersInv
  <1> QED BY <1>2, <1>3

-----------------------------------------------------------------------------
(* Every step                                                              *)

LEMMA NextInv == IInv /\ [Next]_vars => IInv'
  <1> SUFFICES ASSUME IInv, [Next]_vars PROVE IInv'
    OBVIOUS
  <1>1. CASE UNCHANGED phoneVars
    <2>1. /\ UsersGrow /\ LinksStay
          /\ UNCHANGED <<limit, link, users, sessions, txn, sent, creators>>
      BY <1>1 DEF phoneVars, UsersGrow, LinksStay
    <2>2. DOMAIN txn' = Requests /\ (\A g \in Requests : WorkOK(txn[g]))'
      BY <2>1, TxnSame
    <2>3. TypeOK' /\ TablesOK'
      BY <2>1 DEF IInv, TypeOK, TablesOK
    <2>4. UnsentUnused' /\ UsedUpForSomething'
      BY <2>1 DEF IInv, UnsentUnused, UsedUpForSomething
    <2> QED BY <2>2, <2>3, <2>4 DEF IInv
  <1>2. ASSUME NEW h \in Requests,
               \/ \E p \in Phones : ReadLimit(h, p)
               \/ \E l \in Links : ReadLink(h, l)
               \/ FindUser(h) \/ Abort(h)
               \/ \E l \in Links, name \in {Unchanged, "set", "unset"}, e \in Emails \cup {Unchanged} :
                    ReadMe(h, l, name, e)
               \/ \E e \in Emails : ReadNewUser(h, e)
        PROVE  IInv'
    BY <1>2, ReadingInv
  <1>3. ASSUME NEW h \in Requests, WriteLimit(h) PROVE IInv'
    BY <1>3, WriteLimitInv
  <1>4. ASSUME NEW h \in Requests, NEW l \in Links, SendLink(h, l) PROVE IInv'
    BY <1>4, SendLinkInv
  <1>5. ASSUME NEW h \in Requests, CreateUser(h) \/ CreateRole(h) \/ IssueSession(h) PROVE IInv'
    BY <1>5, CreateUserInv, CreateRoleInv, IssueSessionInv
  <1>6. ASSUME NEW h \in Requests, WriteMe(h) \/ InsertNewUser(h) PROVE IInv'
    BY <1>6, ProfileInv
  <1>7. ASSUME NEW p \in Phones, WindowPasses(p) PROVE IInv'
    BY <1>7, WindowPassesInv
  <1>8. ASSUME NEW l \in Links, LinkExpires(l) PROVE IInv'
    BY <1>8, LinkExpiresInv
  <1>9. CASE Next
    BY <1>1, <1>2, <1>3, <1>4, <1>5, <1>6, <1>7, <1>8, <1>9 DEF Next, PhoneNext, Pass
  <1>10. CASE UNCHANGED vars
    BY <1>1, <1>10 DEF vars
  <1> QED BY <1>9, <1>10

LEMMA Invariance == Spec => []IInv
  BY InitInv, NextInv, PTL DEF Spec

\* Tables keep their types, and the roles in a token are no more than its
\* user's, however requests overlap and wherever they fail.
THEOREM TypeCorrect == Spec => []TypeOK
  <1>1. IInv => TypeOK
    BY DEF IInv
  <1> QED BY <1>1, Invariance, PTL

\* A link is used up when, and only when, it gave a session or created the
\* customer (consumed_at in verifyPhoneLogin), however requests overlap.
THEOREM UsedUpForSomethingAlways == Spec => []UsedUpForSomething
  <1>1. IInv => UsedUpForSomething
    BY DEF IInv
  <1> QED BY <1>1, Invariance, PTL
-----------------------------------------------------------------------------
(* Requests that do not overlap                                            *)

OthersIdle(h) == \A g \in Requests \ {h} : txn[g] = Idle

LEMMA OneAtATime ==
  ASSUME Serial, SerialInv, NEW h \in Requests, CanStart(h) \/ txn[h] # Idle
  PROVE  OthersIdle(h)
  BY DEF SerialInv, Alone, CanStart, OthersIdle

LEMMA IdleInHand == InHand(Idle)
  BY DEF InHand, Idle, Verifying

\* Of the requests, a step need only mind the one in flight.
LEMMA InFlight ==
  ASSUME SerialInv, NEW h \in Requests, OthersIdle(h), NEW work, InHand(work)',
         txn' = [txn EXCEPT ![h] = work]
  PROVE  Alone' /\ (\A g \in Requests : InHand(txn[g]))'
  <1>1. DOMAIN txn = Requests
    BY DEF SerialInv, IInv, TablesOK
  <1>2. txn'[h] = work /\ \A g \in Requests \ {h} : txn'[g] = Idle
    BY <1>1 DEF OthersIdle
  <1>3. InHand(Idle)'
    BY DEF InHand, Idle, Verifying
  <1>4. ASSUME NEW g \in Requests PROVE InHand(txn[g])'
    BY <1>2, <1>3, g = h \/ g \in Requests \ {h} DEF InHand
  <1>5. Alone'
    BY <1>2 DEF Alone
  <1> QED BY <1>4, <1>5

\* The requests in flight wait.
LEMMA Waiting ==
  ASSUME SerialInv, txn' = txn, \A g \in Requests : InHand(txn[g])'
  PROVE  Alone' /\ (\A g \in Requests : InHand(txn[g]))'
  BY DEF SerialInv, Alone

\* Users who have tokens keep their roles.
RolesKept ==
  \A u \in DOMAIN users : u \in DOMAIN users' /\ users'[u].roles = users[u].roles

LEMMA TablesKept ==
  ASSUME SerialInv, RolesKept, UNCHANGED <<limit, sessions, sent, anonymous>>,
         \A l \in Links : sessions[l] # <<>> => link'[l].state = "consumed"
  PROVE  TablesAgree' /\ SingleUse' /\ NamelessHaveNoRole'
  <1>1. \A l \in Links : \A n \in DOMAIN sessions[l] :
          sessions[l][n].user \in DOMAIN users
          /\ sessions[l][n].roles = users[sessions[l][n].user].roles
    BY DEF SerialInv, IInv, TypeOK, TablesAgree
  <1>2. \A a \in anonymous :
          a.user \in DOMAIN users /\ users[a.user].roles = {} /\ a.required = {}
    BY DEF SerialInv, TablesAgree, NamelessHaveNoRole
  <1>3. \A p \in Phones : sent'[p] <= limit'[p].count
    BY DEF SerialInv, TablesAgree
  <1>4. SingleUse'
    BY DEF SerialInv, SingleUse
  <1>5. \A l \in Links : sessions'[l] # <<>> => link'[l].state = "consumed"
    OBVIOUS
  <1>6. \A l \in Links : \A n \in DOMAIN sessions'[l] :
          sessions'[l][n].roles = users'[sessions'[l][n].user].roles
    BY <1>1 DEF RolesKept
  <1>7. \A a \in anonymous' :
          a.user \in DOMAIN users' /\ users'[a.user].roles = {} /\ a.required = {}
    BY <1>2 DEF RolesKept
  <1> QED BY <1>3, <1>4, <1>5, <1>6, <1>7 DEF TablesAgree, NamelessHaveNoRole

\* A request reads, begins or ends without a write.
LEMMA OnlyInHand ==
  ASSUME SerialInv, NEW h \in Requests, OthersIdle(h), NEW work, InHand(work),
         txn' = [txn EXCEPT ![h] = work], IInv',
         UNCHANGED <<limit, link, users, sessions, sent, creators, anonymous>>
  PROVE  SerialInv'
  <1>1. RolesKept
    BY DEF RolesKept
  <1>2. \A l \in Links : sessions[l] # <<>> => link'[l].state = "consumed"
    BY DEF SerialInv, TablesAgree
  <1>3. InHand(work)'
    BY DEF InHand
  <1> QED BY <1>1, <1>2, <1>3, InFlight, TablesKept DEF SerialInv

LEMMA SerialInit == AccountsInit => SerialInv
  <1> SUFFICES ASSUME AccountsInit PROVE SerialInv
    OBVIOUS
  <1>1. /\ limit = [p \in Phones |-> [count |-> 0, over |-> FALSE]]
        /\ sessions = [l \in Links |-> <<>>] /\ txn = [h \in Requests |-> Idle]
        /\ sent = [p \in Phones |-> 0] /\ anonymous = {}
    BY DEF AccountsInit, Init
  <1>2. TablesAgree
    BY <1>1 DEF TablesAgree
  <1>3. SingleUse /\ NamelessHaveNoRole /\ Alone
    BY <1>1 DEF SingleUse, NamelessHaveNoRole, Alone
  <1>4. \A h \in Requests : InHand(txn[h])
    BY <1>1, IdleInHand
  <1> QED BY <1>2, <1>3, <1>4, InitInv DEF SerialInv

LEMMA SerialReading ==
  ASSUME Serial, SerialInv, IInv', NEW h \in Requests, anonymous' = anonymous,
         \/ \E p \in Phones : ReadLimit(h, p)
         \/ \E l \in Links : ReadLink(h, l)
         \/ FindUser(h) \/ Abort(h)
         \/ \E l \in Links, name \in {Unchanged, "set", "unset"}, e \in Emails \cup {Unchanged} :
              ReadMe(h, l, name, e)
         \/ \E e \in Emails : ReadNewUser(h, e)
  PROVE  SerialInv'
  <1>1. ASSUME NEW work, InHand(work), Begin(h, work) PROVE SerialInv'
    BY <1>1, OneAtATime, OnlyInHand DEF Begin
  <1>2. ASSUME NEW p \in Phones, ReadLimit(h, p) PROVE SerialInv'
    <2>1. PICK work : work = [op |-> "limit", phone |-> p, seen |-> limit[p]]
      OBVIOUS
    <2>2. InHand(work)
      BY <2>1 DEF InHand, Verifying
    <2> QED BY <1>1, <1>2, <2>1, <2>2 DEF ReadLimit
  <1>3. ASSUME NEW l \in Links, ReadLink(h, l) PROVE SerialInv'
    <2>1. PICK work : work = [op |-> "find", link |-> l]
      OBVIOUS
    <2>2. sessions[l] = <<>>
      BY <1>3 DEF ReadLink, SerialInv, TablesAgree
    <2>3. InHand(work)
      BY <2>1, <2>2 DEF InHand, Verifying
    <2> QED BY <1>1, <1>3, <2>1, <2>3 DEF ReadLink
  <1>4. ASSUME FindUser(h) PROVE SerialInv'
    <2>1. txn[h] # Idle /\ UNCHANGED <<limit, link, users, sessions, sent, creators>>
      BY <1>4 DEF FindUser, Idle
    <2>2. sessions[txn[h].link] = <<>>
      BY <1>4 DEF FindUser, SerialInv, InHand, Verifying
    <2>3. PICK work :
            /\ txn' = [txn EXCEPT ![h] = work]
            /\ \/ work = [op |-> "user", link |-> txn[h].link]
               \/ \E u \in DOMAIN users :
                    work = [op |-> "session", link |-> txn[h].link, user |-> u,
                            roles |-> users[u].roles]
      BY <1>4 DEF FindUser, Continue, WithEmail
    <2>4. InHand(work)
      BY <2>2, <2>3 DEF InHand, Verifying
    <2> QED BY <2>1, <2>3, <2>4, OneAtATime, OnlyInHand
  <1>5. ASSUME Abort(h) PROVE SerialInv'
    BY <1>5, IdleInHand, OneAtATime, OnlyInHand DEF Abort, Continue
  <1>6. ASSUME NEW l \in Links, NEW name \in {Unchanged, "set", "unset"},
               NEW e \in Emails \cup {Unchanged}, ReadMe(h, l, name, e)
        PROVE  SerialInv'
    <2>1. PICK work : work = [op |-> "me", user |-> sessions[l][1].user, name |-> name, email |-> e]
      OBVIOUS
    <2>2. InHand(work)
      BY <2>1 DEF InHand, Verifying
    <2> QED BY <1>1, <1>6, <2>1, <2>2 DEF ReadMe
  <1>7. ASSUME NEW e \in Emails, ReadNewUser(h, e) PROVE SerialInv'
    <2>1. PICK work : work = [op |-> "new", email |-> e]
      OBVIOUS
    <2>2. InHand(work)
      BY <2>1 DEF InHand, Verifying
    <2> QED BY <1>1, <1>7, <2>1, <2>2 DEF ReadNewUser
  <1> QED BY <1>2, <1>3, <1>4, <1>5, <1>6, <1>7
LEMMA WriteLimitSerial ==
  ASSUME Serial, SerialInv, IInv', NEW h \in Requests, anonymous' = anonymous, WriteLimit(h)
  PROVE  SerialInv'
  <1>1. PICK p, seen : p = txn[h].phone /\ seen = txn[h].seen
    OBVIOUS
  <1>2. /\ p \in Phones /\ txn[h].op = "limit" /\ seen \in Limits
        /\ limit' \in [Phones -> Limits] /\ sent' \in [Phones -> Nat]
        /\ \A q \in Phones \ {p} : limit'[q] = limit[q] /\ sent'[q] = sent[q]
        /\ \/ seen.count = 0 /\ limit'[p].count = 1 /\ sent'[p] = sent[p] /\ limit[p].count = 0
           \/ /\ seen.over /\ sent'[p] = 0
              /\ limit'[p].count = IF seen.count = 1 THEN limit[p].count ELSE 1
           \/ limit'[p].count = seen.count + 1 /\ sent'[p] = sent[p]
        /\ txn' = [txn EXCEPT ![h] = [op |-> "send", phone |-> p]]
        /\ UNCHANGED <<link, users, sessions, creators>>
    BY <1>1, LimitWritten DEF SerialInv
  <1>3. seen.count = limit[p].count /\ sent[p] <= limit[p].count
    BY <1>1, <1>2 DEF SerialInv, InHand, TablesAgree
  <1>4. sent[p] \in Nat /\ limit[p].count \in Nat
    BY <1>2 DEF SerialInv, IInv, TypeOK
  <1>5. sent'[p] < limit'[p].count
    BY <1>2, <1>3, <1>4
  <1>6. \A q \in Phones : sent'[q] <= limit'[q].count
    <2>1. sent'[p] \in Nat /\ limit'[p].count \in Nat
      BY <1>2 DEF Limits
    <2>2. sent'[p] <= limit'[p].count
      BY <1>5, <2>1
    <2>3. \A q \in Phones \ {p} : sent'[q] <= limit'[q].count
      BY <1>2 DEF SerialInv, TablesAgree
    <2> QED BY <2>2, <2>3
  <1>7. TablesAgree' /\ SingleUse' /\ NamelessHaveNoRole'
    BY <1>2, <1>6 DEF SerialInv, TablesAgree, SingleUse, NamelessHaveNoRole
  <1>8. PICK work : work = [op |-> "send", phone |-> p]
    OBVIOUS
  <1>9. InHand(work)'
    BY <1>5, <1>8 DEF InHand, Verifying
  <1>10. OthersIdle(h)
    BY <1>2, OneAtATime DEF Idle
  <1> QED BY <1>2, <1>7, <1>8, <1>9, <1>10, InFlight DEF SerialInv

LEMMA SendLinkSerial ==
  ASSUME Serial, SerialInv, IInv', NEW h \in Requests, NEW l \in Links,
         anonymous' = anonymous, SendLink(h, l)
  PROVE  SerialInv'
  <1>1. PICK p : p = txn[h].phone
    OBVIOUS
  <1>2. PICK new : new = [state |-> "sent", phone |-> p, expired |-> FALSE]
    OBVIOUS
  <1>3. /\ txn[h].op = "send" /\ link[l] = NoLink
        /\ link' = [link EXCEPT ![l] = new]
        /\ sent' = [sent EXCEPT ![p] = @ + 1]
        /\ txn' = [txn EXCEPT ![h] = Idle]
        /\ UNCHANGED <<limit, users, sessions, creators>>
    BY <1>1, <1>2 DEF SendLink, Continue
  <1>4. p \in Phones /\ sent[p] < limit[p].count
    BY <1>1, <1>3 DEF SerialInv, IInv, WorkOK, InHand
  <1>5. sent \in [Phones -> Nat] /\ limit[p].count \in Nat
    BY <1>4 DEF SerialInv, IInv, TypeOK
  <1>6. \A q \in Phones : sent'[q] <= limit'[q].count
    <2>1. sent'[p] = sent[p] + 1 /\ \A q \in Phones \ {p} : sent'[q] = sent[q]
      BY <1>3, <1>4, <1>5
    <2>2. sent[p] \in Nat
      BY <1>4, <1>5
    <2>3. sent'[p] <= limit'[p].count
      BY <1>3, <1>4, <1>5, <2>1, <2>2
    <2>4. \A q \in Phones \ {p} : sent'[q] <= limit'[q].count
      BY <1>3, <2>1 DEF SerialInv, TablesAgree
    <2> QED BY <2>3, <2>4
  <1>7. sessions[l] = <<>>
    BY <1>3 DEF SerialInv, IInv, UnsentUnused
  <1>8. \A m \in Links \ {l} : link'[m] = link[m]
    BY <1>3 DEF SerialInv, IInv, TablesOK
  <1>9. TablesAgree' /\ SingleUse' /\ NamelessHaveNoRole'
    BY <1>3, <1>6, <1>7, <1>8 DEF SerialInv, TablesAgree, SingleUse, NamelessHaveNoRole
  <1>10. InHand(Idle)'
    BY DEF InHand, Idle, Verifying
  <1>11. OthersIdle(h)
    BY <1>3, OneAtATime DEF Idle
  <1> QED BY <1>3, <1>9, <1>10, <1>11, InFlight DEF SerialInv

LEMMA CreateUserSerial ==
  ASSUME Serial, SerialInv, IInv', NEW h \in Requests, anonymous' = anonymous, CreateUser(h)
  PROVE  SerialInv'
  <1>1. PICK l : l = txn[h].link
    OBVIOUS
  <1>2. PICK new, work :
          /\ new = Customer(link[l].phone)
          /\ work = [op |-> "role", link |-> l, user |-> Len(users) + 1]
    OBVIOUS
  <1>3. /\ txn[h].op = "user" /\ users' = Append(users, new)
        /\ link' = [link EXCEPT ![l].state = "consumed"]
        /\ txn' = [txn EXCEPT ![h] = work]
        /\ UNCHANGED <<limit, sessions, sent>>
    BY <1>1, <1>2 DEF CreateUser, Continue
  <1>4. l \in Links /\ link[l] # NoLink /\ sessions[l] = <<>>
    BY <1>1, <1>3 DEF SerialInv, IInv, WorkOK, InHand, Verifying
  <1>5. new \in Users
    BY <1>2, <1>4, LinkTypes DEF SerialInv, Customer, Users
  <1>6. /\ DOMAIN users' = DOMAIN users \cup {Len(users) + 1} /\ Len(users) + 1 \notin DOMAIN users
        /\ \A v \in DOMAIN users : users'[v] = users[v]
    BY <1>3, <1>5, UserAdded DEF SerialInv
  <1>7. RolesKept
    BY <1>6 DEF RolesKept
  <1>8. link'[l].state = "consumed" /\ \A m \in Links \ {l} : link'[m] = link[m]
    BY <1>3, <1>4, ConsumedLink DEF SerialInv
  <1>9. \A m \in Links : sessions[m] # <<>> => link'[m].state = "consumed"
    BY <1>8 DEF SerialInv, TablesAgree
  <1>10. TablesAgree' /\ SingleUse' /\ NamelessHaveNoRole'
    BY <1>3, <1>7, <1>9, TablesKept
  <1>11. InHand(work)'
    <2>1. \A m \in Links : \A n \in DOMAIN sessions[m] : sessions[m][n].user # Len(users) + 1
      BY <1>6 DEF SerialInv, IInv, TypeOK
    <2>2. \A a \in anonymous : a.user # Len(users) + 1
      BY <1>6 DEF SerialInv, TablesAgree
    <2> QED BY <1>2, <1>3, <1>4, <2>1, <2>2 DEF InHand, Verifying
  <1>12. OthersIdle(h)
    BY <1>3, OneAtATime DEF Idle
  <1> QED BY <1>3, <1>10, <1>11, <1>12, InFlight DEF SerialInv

\* Nobody has a token of the user who gets its role.
LEMMA CreateRoleSerial ==
  ASSUME Serial, SerialInv, IInv', NEW h \in Requests, anonymous' = anonymous, CreateRole(h)
  PROVE  SerialInv'
  <1>1. PICK u, l : u = txn[h].user /\ l = txn[h].link
    OBVIOUS
  <1>2. PICK work : work = [op |-> "session", link |-> l, user |-> u, roles |-> {"customer"}]
    OBVIOUS
  <1>3. /\ txn[h].op = "role" /\ users' = [users EXCEPT ![u].roles = {"customer"}]
        /\ txn' = [txn EXCEPT ![h] = work]
        /\ UNCHANGED <<limit, link, sessions, sent, creators>>
    BY <1>1, <1>2 DEF CreateRole, Continue
  <1>4. /\ u \in DOMAIN users /\ l \in Links /\ sessions[l] = <<>>
        /\ \A m \in Links : \A n \in DOMAIN sessions[m] : sessions[m][n].user # u
        /\ \A a \in anonymous : a.user # u
    BY <1>1, <1>3 DEF SerialInv, IInv, WorkOK, InHand, Verifying
  <1>5. PICK old : old = users[u]
    OBVIOUS
  <1>6. old \in Users
    BY <1>4, <1>5, UserTypes DEF SerialInv
  <1>7. users' = [users EXCEPT ![u] = [old EXCEPT !.roles = {"customer"}]]
    BY <1>3, <1>5
  <1>8. users'[u].roles = {"customer"} /\ DOMAIN users' = DOMAIN users
        /\ \A v \in DOMAIN users \ {u} : users'[v] = users[v]
    BY <1>4, <1>6, <1>7 DEF Users
  <1>9. TablesAgree'
    <2>1. \A m \in Links : \A n \in DOMAIN sessions[m] :
            sessions[m][n].roles = users'[sessions[m][n].user].roles
      BY <1>4, <1>8 DEF SerialInv, IInv, TypeOK, TablesAgree
    <2> QED BY <1>3, <1>8, <2>1 DEF SerialInv, TablesAgree
  <1>10. SingleUse' /\ NamelessHaveNoRole'
    BY <1>3, <1>4, <1>8 DEF SerialInv, SingleUse, NamelessHaveNoRole, TablesAgree
  <1>11. InHand(work)'
    BY <1>2, <1>3, <1>4, <1>8 DEF InHand, Verifying
  <1>12. OthersIdle(h)
    BY <1>3, OneAtATime DEF Idle
  <1> QED BY <1>3, <1>9, <1>10, <1>11, <1>12, InFlight DEF SerialInv

\* The link has given no session before.
LEMMA IssueSessionSerial ==
  ASSUME Serial, SerialInv, IInv', NEW h \in Requests, anonymous' = anonymous, IssueSession(h)
  PROVE  SerialInv'
  <1>1. PICK l, s : l = txn[h].link /\ s = [user |-> txn[h].user, roles |-> txn[h].roles]
    OBVIOUS
  <1>2. /\ txn[h].op = "session" /\ link' = [link EXCEPT ![l].state = "consumed"]
        /\ sessions' = [sessions EXCEPT ![l] = <<s>> \o @]
        /\ txn' = [txn EXCEPT ![h] = Idle]
        /\ UNCHANGED <<limit, users, sent, creators>>
    BY <1>1 DEF IssueSession, Continue
  <1>3. /\ l \in Links /\ link[l] # NoLink /\ sessions[l] = <<>>
        /\ s.roles = users[s.user].roles
    BY <1>1, <1>2 DEF SerialInv, IInv, WorkOK, InHand, Verifying
  <1>4. sessions'[l] = <<s>> \o <<>> /\ \A m \in Links \ {l} : sessions'[m] = sessions[m]
    BY <1>2, <1>3 DEF SerialInv, IInv, TablesOK
  <1>5. sessions'[l] = <<s>>
    <2>1. <<s>> \in Seq({s})
      OBVIOUS
    <2>2. <<s>> \o <<>> = <<s>>
      BY <2>1, ConcatEmptySeq
    <2> QED BY <1>4, <2>2
  <1>6. link'[l].state = "consumed" /\ \A m \in Links \ {l} : link'[m] = link[m]
    BY <1>2, <1>3, ConsumedLink DEF SerialInv
  <1>7. SingleUse'
    <2>1. Len(sessions'[l]) <= 1
      <3>1. \A k : k = 1 => k <= 1
        OBVIOUS
      <3>2. Len(<<s>>) = 1
        OBVIOUS
      <3> QED BY <1>5, <3>1, <3>2
    <2>2. \A m \in Links \ {l} : Len(sessions'[m]) <= 1
      BY <1>4 DEF SerialInv, SingleUse
    <2>3. ASSUME NEW m \in Links PROVE Len(sessions'[m]) <= 1
      <3>1. CASE m = l
        BY <2>1, <3>1
      <3>2. CASE m # l
        BY <2>2, <3>2
      <3> QED BY <3>1, <3>2
    <2> QED BY <2>3 DEF SingleUse
  <1>8. TablesAgree'
    <2>1. \A m \in Links : sessions'[m] # <<>> => link'[m].state = "consumed"
      BY <1>4, <1>6 DEF SerialInv, TablesAgree
    <2>2. DOMAIN sessions'[l] = {1} /\ sessions'[l][1] = s
      BY <1>5
    <2>3. \A m \in Links : \A n \in DOMAIN sessions'[m] :
            sessions'[m][n].roles = users[sessions'[m][n].user].roles
      BY <1>3, <1>4, <2>2 DEF SerialInv, TablesAgree
    <2> QED BY <1>2, <2>1, <2>3 DEF SerialInv, TablesAgree
  <1>9. NamelessHaveNoRole'
    BY <1>2 DEF SerialInv, NamelessHaveNoRole
  <1>10. InHand(Idle)'
    BY DEF InHand, Idle, Verifying
  <1>11. OthersIdle(h)
    BY <1>2, OneAtATime DEF Idle
  <1> QED BY <1>2, <1>7, <1>8, <1>9, <1>10, <1>11, InFlight DEF SerialInv

LEMMA ProfileSerial ==
  ASSUME Serial, SerialInv, IInv', NEW h \in Requests, WriteMe(h) \/ InsertNewUser(h)
  PROVE  SerialInv'
  <1>1. InHand(Idle)'
    BY DEF InHand, Idle, Verifying
  <1>2. OthersIdle(h)
    BY OneAtATime DEF WriteMe, InsertNewUser, Idle
  <1>3. ASSUME RolesKept, txn' = [txn EXCEPT ![h] = Idle],
               UNCHANGED <<limit, link, sessions, sent, anonymous>>
        PROVE  SerialInv'
    <2>1. \A l \in Links : sessions[l] # <<>> => link'[l].state = "consumed"
      BY <1>3 DEF SerialInv, TablesAgree
    <2>2. TablesAgree' /\ SingleUse' /\ NamelessHaveNoRole'
      BY <1>3, <2>1, TablesKept
    <2> QED BY <1>1, <1>2, <1>3, <2>2, InFlight DEF SerialInv
  <1>4. CASE WriteMe(h)
    BY <1>3, <1>4, MeWritten DEF RolesKept, SerialInv
  <1>5. CASE InsertNewUser(h)
    <2>1. PICK new : new = [email |-> txn[h].email, named |-> TRUE, roles |-> {"customer"}]
      OBVIOUS
    <2>2. txn[h].email \in Emails
      BY <1>5 DEF InsertNewUser, SerialInv, IInv, WorkOK
    <2>3. new \in Users
      BY <2>1, <2>2 DEF Users
    <2>4. users' = Append(users, new) /\ txn' = [txn EXCEPT ![h] = Idle]
          /\ UNCHANGED <<limit, link, sessions, sent, anonymous>>
      BY <1>5, <2>1 DEF InsertNewUser, Continue
    <2>5. RolesKept
      BY <2>3, <2>4, UserAdded DEF RolesKept, SerialInv
    <2> QED BY <1>3, <2>4, <2>5
  <1> QED BY <1>4, <1>5

\* The roles in the token are those of the user: who passes the guards
\* without a name has none.
LEMMA PassSerial ==
  ASSUME SerialInv, IInv', NEW required, Pass(required)
  PROVE  SerialInv'
  <1>1. PICK l, n, s :
          /\ l \in Links /\ n \in DOMAIN sessions[l] /\ s = sessions[l][n]
          /\ ProfileCompleteGuard(s.roles, s.user)
          /\ RolesGuard(required, s.roles)
          /\ anonymous' = anonymous \cup
               (IF users[s.user].named THEN {} ELSE {[user |-> s.user, required |-> required]})
          /\ UNCHANGED <<limit, link, users, sessions, txn, sent, creators>>
    BY DEF Pass, phoneVars
  <1>2. s.user \in DOMAIN users /\ s.roles = users[s.user].roles /\ s.roles \subseteq {"customer"}
    <2>1. s.user \in DOMAIN users /\ s.roles = users[s.user].roles
      BY <1>1 DEF SerialInv, IInv, TypeOK, TablesAgree
    <2>2. users[s.user] \in Users
      BY <2>1, UserTypes DEF SerialInv
    <2> QED BY <2>1, <2>2 DEF Users
  <1>3. ~users[s.user].named => s.roles = {} /\ required = {}
    <2>1. "customer" \notin StaffRoles
      BY DEF StaffRoles
    <2>2. ~users[s.user].named => "customer" \notin s.roles
      BY <1>1, <1>2, <2>1 DEF ProfileCompleteGuard, IsCustomerOnly
    <2>3. "customer" \notin s.roles => s.roles = {}
      BY <1>2
    <2>4. s.roles = {} => required = {}
      BY <1>1 DEF RolesGuard
    <2> QED BY <2>2, <2>3, <2>4
  <1>4. \A a \in anonymous' : 
          a \in anonymous \/ (a.user = s.user /\ a.required = {} /\ s.roles = {})
    <2>1. PICK r : r = [user |-> s.user, required |-> required]
      OBVIOUS
    <2>2. r.user = s.user /\ r.required = required
      BY <2>1
    <2>3. anonymous' = anonymous \/ (~users[s.user].named /\ anonymous' = anonymous \cup {r})
      BY <1>1, <2>1
    <2> QED BY <1>3, <2>2, <2>3
  <1>5. NamelessHaveNoRole'
    BY <1>1, <1>2, <1>4 DEF SerialInv, NamelessHaveNoRole
  <1>6. TablesAgree'
    BY <1>1, <1>2, <1>4 DEF SerialInv, TablesAgree
  <1>7. SingleUse'
    BY <1>1 DEF SerialInv, SingleUse
  <1>8. ASSUME NEW g \in Requests PROVE InHand(txn[g])'
    <2>1. InHand(txn[g])
      BY DEF SerialInv
    <2>2. txn[g].op = "role" => s.user # txn[g].user
      BY <1>1, <2>1 DEF InHand
    <2>3. txn[g].op = "role" => \A a \in anonymous' : a.user # txn[g].user
      BY <1>4, <2>1, <2>2 DEF InHand
    <2> QED BY <1>1, <2>1, <2>3 DEF InHand
  <1> QED BY <1>1, <1>5, <1>6, <1>7, <1>8, Waiting DEF SerialInv

LEMMA ClockSerial ==
  ASSUME SerialInv, IInv', anonymous' = anonymous,
         (\E p \in Phones : WindowPasses(p)) \/ (\E l \in Links : LinkExpires(l))
  PROVE  SerialInv'
  <1>1. /\ UNCHANGED <<users, sessions, txn, sent, creators, anonymous>>
        /\ \A q \in Phones : limit'[q].count = limit[q].count
        /\ \A m \in Links : link'[m].state = link[m].state
    <2>1. ASSUME NEW p \in Phones, WindowPasses(p)
          PROVE  /\ UNCHANGED <<link, users, sessions, txn, sent, creators>>
                 /\ \A q \in Phones : limit'[q].count = limit[q].count
      <3>1. PICK old : old = limit[p]
        OBVIOUS
      <3>2. limit \in [Phones -> Limits] /\ old \in Limits
        BY <3>1 DEF SerialInv, IInv, TypeOK, Limits
      <3>3. limit' = [limit EXCEPT ![p] = [old EXCEPT !.over = TRUE]]
            /\ UNCHANGED <<link, users, sessions, txn, sent, creators>>
        BY <2>1, <3>1 DEF WindowPasses
      <3>4. [old EXCEPT !.over = TRUE].count = old.count
        BY <3>2 DEF Limits
      <3> QED BY <3>1, <3>2, <3>3, <3>4
    <2>2. ASSUME NEW l \in Links, LinkExpires(l)
          PROVE  /\ UNCHANGED <<limit, users, sessions, txn, sent, creators>>
                 /\ \A m \in Links : link'[m].state = link[m].state
      BY <2>2, LinkExpiresInv DEF SerialInv
    <2> QED BY <2>1, <2>2
  <1>2. TablesAgree' /\ SingleUse' /\ NamelessHaveNoRole'
    BY <1>1 DEF SerialInv, TablesAgree, SingleUse, NamelessHaveNoRole
  <1>3. ASSUME NEW g \in Requests PROVE InHand(txn[g])'
    <2>1. InHand(txn[g])
      BY DEF SerialInv
    <2>2. txn[g].op = "limit" => txn[g].phone \in Phones
      BY DEF SerialInv, IInv, WorkOK
    <2>3. txn[g].op = "send" => txn[g].phone \in Phones
      BY DEF SerialInv, IInv, WorkOK
    <2> QED BY <1>1, <2>1, <2>2, <2>3 DEF InHand
  <1> QED BY <1>1, <1>2, <1>3, Waiting DEF SerialInv

LEMMA SerialStep == Serial /\ SerialInv /\ [Next]_vars => SerialInv'
  <1> SUFFICES ASSUME Serial, SerialInv, [Next]_vars PROVE SerialInv'
    OBVIOUS
  <1>1. IInv'
    BY NextInv DEF SerialInv
  <1>2. CASE UNCHANGED vars
    <2>1. UNCHANGED <<limit, link, users, sessions, txn, sent, creators, anonymous>>
      BY <1>2 DEF vars, phoneVars
    <2>2. \A g \in Requests : InHand(txn[g])'
      BY <2>1 DEF SerialInv, InHand
    <2>3. TablesAgree' /\ SingleUse' /\ NamelessHaveNoRole'
      BY <2>1 DEF SerialInv, TablesAgree, SingleUse, NamelessHaveNoRole
    <2> QED BY <1>1, <2>1, <2>2, <2>3, Waiting DEF SerialInv
  <1>3. ASSUME NEW h \in Requests, anonymous' = anonymous,
               \/ \E p \in Phones : ReadLimit(h, p)
               \/ \E l \in Links : ReadLink(h, l)
               \/ FindUser(h) \/ Abort(h)
               \/ \E l \in Links, name \in {Unchanged, "set", "unset"}, e \in Emails \cup {Unchanged} :
                    ReadMe(h, l, name, e)
               \/ \E e \in Emails : ReadNewUser(h, e)
        PROVE  SerialInv'
    BY <1>1, <1>3, SerialReading
  <1>4. ASSUME NEW h \in Requests, anonymous' = anonymous,
               \/ WriteLimit(h) \/ CreateUser(h) \/ CreateRole(h) \/ IssueSession(h)
               \/ \E l \in Links : SendLink(h, l)
        PROVE  SerialInv'
    BY <1>1, <1>4, WriteLimitSerial, SendLinkSerial, CreateUserSerial, CreateRoleSerial,
       IssueSessionSerial
  <1>5. ASSUME NEW h \in Requests, WriteMe(h) \/ InsertNewUser(h) PROVE SerialInv'
    BY <1>1, <1>5, ProfileSerial
  <1>6. ASSUME NEW required, Pass(required) PROVE SerialInv'
    BY <1>1, <1>6, PassSerial
  <1>7. ASSUME (\E p \in Phones : WindowPasses(p)) \/ (\E l \in Links : LinkExpires(l)),
               anonymous' = anonymous
        PROVE  SerialInv'
    BY <1>1, <1>7, ClockSerial
  <1>8. CASE PhoneNext /\ UNCHANGED anonymous
    BY <1>3, <1>4, <1>7, <1>8 DEF PhoneNext
  <1>9. CASE \E h \in Requests :
       \/ \E l \in Links, name \in {Unchanged, "set", "unset"}, e \in Emails \cup {Unchanged} :
            ReadMe(h, l, name, e)
       \/ \E e \in Emails : ReadNewUser(h, e)
    BY <1>3, <1>9 DEF ReadMe, ReadNewUser
  <1> QED BY <1>2, <1>5, <1>6, <1>8, <1>9 DEF Next

LEMMA SerialInvariance == ASSUME Serial PROVE Spec => []SerialInv
  <1>1. SerialInv /\ [Next]_vars => SerialInv'
    BY SerialStep
  <1> QED BY <1>1, SerialInit, PTL DEF Spec

\* When requests do not overlap, a phone is sent no more than MaxAttempts
\* links in one window (isRateLimited), wherever requests fail in between.
THEOREM RateLimitAlways == ASSUME Serial PROVE Spec => []RateLimitHolds
  <1>1. ASSUME SerialInv, NEW p \in Phones PROVE sent[p] <= MaxAttempts
    <2>1. sent[p] \in Nat /\ limit[p].count \in 0..MaxAttempts
      BY <1>1 DEF SerialInv, IInv, TypeOK
    <2>2. sent[p] <= limit[p].count
      BY <1>1 DEF SerialInv, TablesAgree
    <2> QED BY <2>1, <2>2, MaxAttemptsAssumption
  <1>2. SerialInv => RateLimitHolds
    BY <1>1 DEF RateLimitHolds
  <1> QED BY <1>2, SerialInvariance, PTL

\* When requests do not overlap, a link logs in once (verifyPhoneLogin).
THEOREM SingleUseAlways == ASSUME Serial PROVE Spec => []SingleUse
  <1>1. SerialInv => SingleUse
    BY DEF SerialInv
  <1> QED BY <1>1, SerialInvariance, PTL

\* When requests do not overlap, who gets past the guards without a name is a
\* user without a role, at a handler that demands none (ProfileCompleteGuard,
\* RolesGuard).
THEOREM NamelessHaveNoRoleAlways == ASSUME Serial PROVE Spec => []NamelessHaveNoRole
  <1>1. SerialInv => NamelessHaveNoRole
    BY DEF SerialInv
  <1> QED BY <1>1, SerialInvariance, PTL
=============================================================================
