----------------------------- MODULE PhoneLogin -----------------------------
(***************************************************************************)
(* Login by a link sent to a phone: startPhoneLogin (with isRateLimited)   *)
(* and verifyPhoneLogin (with lazyCreateCustomer and the flush of          *)
(* generateTokenPair) in src/tenancy/auth/auth.service.ts, for the phones  *)
(* of one tenant in good standing.                                         *)
(*                                                                         *)
(* Each flush of a handler is a step, with everything the handler has      *)
(* changed so far: there is no transaction around the handler, and it may  *)
(* end between any two steps.                                              *)
(***************************************************************************)
EXTENDS Integers, Sequences

CONSTANTS
  Phones,
  Links,       \* links that may be sent
  Requests,    \* HTTP requests that may be in flight at once
  Serial,      \* TRUE: a request starts only when no other is in flight
  MaxAttempts  \* RATE_LIMIT_MAX_ATTEMPTS

ASSUME SerialAssumption == Serial \in BOOLEAN
ASSUME MaxAttemptsAssumption == MaxAttempts \in Nat \ {0}

VARIABLES
  limit,     \* table magic_link_rate_limits, count 0 while there is no row
  link,      \* table magic_link_attempts
  users,     \* table users with user_roles; a phone is its synthetic e-mail
  sessions,  \* what each link gave: one entry per session, its user and roles
  txn,
  sent,      \* links sent to each phone since its window was started
  creators   \* links whose verification created a user

phoneVars == <<limit, link, users, sessions, txn, sent, creators>>

NoLink == [state |-> "none"]
Idle == [op |-> "idle"]

Init ==
  /\ limit = [p \in Phones |-> [count |-> 0, over |-> FALSE]]
  /\ link = [l \in Links |-> NoLink]
  /\ users = <<>>
  /\ sessions = [l \in Links |-> <<>>]
  /\ txn = [h \in Requests |-> Idle]
  /\ sent = [p \in Phones |-> 0]
  /\ creators = {}

CanStart(h) ==
  /\ txn[h] = Idle
  /\ Serial => \A g \in Requests : txn[g] = Idle

Begin(h, work) ==
  /\ CanStart(h)
  /\ txn' = [txn EXCEPT ![h] = work]
  /\ UNCHANGED <<limit, link, users, sessions, sent, creators>>

Continue(h, work) == txn' = [txn EXCEPT ![h] = work]

-----------------------------------------------------------------------------
(* startPhoneLogin                                                         *)

\* Mutant: the attempt after the last one allowed is let through.
ReadLimitLate(h, p) ==
  /\ limit[p].over \/ limit[p].count <= MaxAttempts
  /\ Begin(h, [op |-> "limit", phone |-> p, seen |-> limit[p]])

\* A phone that has used up its window gets no further.
ReadLimit(h, p) ==
  /\ limit[p].over \/ limit[p].count < MaxAttempts
  /\ Begin(h, [op |-> "limit", phone |-> p, seen |-> limit[p]])

\* The first attempt inserts the row, whose key is the phone: of two that
\* saw none, one fails.  An attempt after the window starts it again; the
\* count is in the UPDATE only if it was not 1 already.
WriteLimit(h) ==
  LET p == txn[h].phone
      seen == txn[h].seen
  IN  /\ txn[h].op = "limit"
      /\ \/ /\ seen.count = 0 /\ limit[p].count = 0
            /\ limit' = [limit EXCEPT ![p].count = 1]
            /\ UNCHANGED sent
         \/ /\ seen.over
            /\ limit' = [limit EXCEPT ![p] =
                 [count |-> IF seen.count = 1 THEN @.count ELSE 1, over |-> FALSE]]
            /\ sent' = [sent EXCEPT ![p] = 0]
         \/ /\ seen.count # 0 /\ ~seen.over
            /\ limit' = [limit EXCEPT ![p].count = seen.count + 1]
            /\ UNCHANGED sent
      /\ Continue(h, [op |-> "send", phone |-> p])
      /\ UNCHANGED <<link, users, sessions, creators>>

\* Whether the message arrives makes no difference to what is stored.
SendLink(h, l) ==
  LET p == txn[h].phone IN
  /\ txn[h].op = "send"
  /\ link[l] = NoLink
  /\ link' = [link EXCEPT ![l] = [state |-> "sent", phone |-> p, expired |-> FALSE]]
  /\ sent' = [sent EXCEPT ![p] = @ + 1]
  /\ Continue(h, Idle)
  /\ UNCHANGED <<limit, users, sessions, creators>>

-----------------------------------------------------------------------------
(* verifyPhoneLogin                                                        *)

\* Mutant: consumed_at is not looked at.
ReadLinkAgain(h, l) ==
  /\ link[l].state # "none"
  /\ ~link[l].expired
  /\ Begin(h, [op |-> "find", link |-> l])

ReadLink(h, l) ==
  /\ link[l].state = "sent"
  /\ ~link[l].expired
  /\ Begin(h, [op |-> "find", link |-> l])

\* At most one user has an e-mail: (tenant, email) is unique.
WithEmail(e) == {u \in DOMAIN users : users[u].email = e}

\* The user is looked for by the e-mail that stands for the phone, and is
\* loaded with its roles; if there is none it is created.
FindUser(h) ==
  LET found == WithEmail(link[txn[h].link].phone) IN
  /\ txn[h].op = "find"
  /\ IF found = {}
       THEN Continue(h, [op |-> "user", link |-> txn[h].link])
       ELSE \E u \in found :
              Continue(h, [op |-> "session", link |-> txn[h].link,
                           user |-> u, roles |-> users[u].roles])
  /\ UNCHANGED <<limit, link, users, sessions, sent, creators>>

Customer(p) == [email |-> p, named |-> FALSE, roles |-> {}]

\* Mutant: the user is inserted apart from what else has changed.
CreateUserAlone(h) ==
  LET l == txn[h].link IN
  /\ txn[h].op = "user"
  /\ WithEmail(link[l].phone) = {}
  /\ users' = Append(users, Customer(link[l].phone))
  /\ creators' = creators \cup {l}
  /\ Continue(h, [op |-> "role", link |-> l, user |-> Len(users) + 1])
  /\ UNCHANGED <<limit, link, sessions, sent>>

\* The flush that inserts the user also writes consumed_at; (tenant, email)
\* is unique, and a second insert fails with all its flush.
CreateUser(h) ==
  LET l == txn[h].link IN
  /\ txn[h].op = "user"
  /\ WithEmail(link[l].phone) = {}
  /\ users' = Append(users, Customer(link[l].phone))
  /\ creators' = creators \cup {l}
  /\ link' = [link EXCEPT ![l].state = "consumed"]
  /\ Continue(h, [op |-> "role", link |-> l, user |-> Len(users) + 1])
  /\ UNCHANGED <<limit, sessions, sent>>

\* Mutant: the user goes on as it was created, without the role.
CreateRoleUnloaded(h) ==
  LET u == txn[h].user IN
  /\ txn[h].op = "role"
  /\ users' = [users EXCEPT ![u].roles = {"customer"}]
  /\ Continue(h, [op |-> "session", link |-> txn[h].link, user |-> u, roles |-> {}])
  /\ UNCHANGED <<limit, link, sessions, sent, creators>>

\* The user is loaded again, now with its role.
CreateRole(h) ==
  LET u == txn[h].user IN
  /\ txn[h].op = "role"
  /\ users' = [users EXCEPT ![u].roles = {"customer"}]
  /\ Continue(h, [op |-> "session", link |-> txn[h].link, user |-> u,
                  roles |-> {"customer"}])
  /\ UNCHANGED <<limit, link, sessions, sent, creators>>

\* generateTokenPair, with the roles the user had when it was loaded.
IssueSession(h) ==
  LET l == txn[h].link IN
  /\ txn[h].op = "session"
  /\ link' = [link EXCEPT ![l].state = "consumed"]
  /\ sessions' = [sessions EXCEPT ![l] =
       <<[user |-> txn[h].user, roles |-> txn[h].roles]>> \o @]
  /\ Continue(h, Idle)
  /\ UNCHANGED <<limit, users, sent, creators>>

-----------------------------------------------------------------------------
\* The request fails (a unique violation, a crash): later steps are missing.
Abort(h) ==
  /\ txn[h] # Idle
  /\ Continue(h, Idle)
  /\ UNCHANGED <<limit, link, users, sessions, sent, creators>>

WindowPasses(p) ==
  /\ limit[p].count # 0 /\ ~limit[p].over
  /\ limit' = [limit EXCEPT ![p].over = TRUE]
  /\ UNCHANGED <<link, users, sessions, txn, sent, creators>>

LinkExpires(l) ==
  /\ link[l].state # "none" /\ ~link[l].expired
  /\ link' = [link EXCEPT ![l].expired = TRUE]
  /\ UNCHANGED <<limit, users, sessions, txn, sent, creators>>

PhoneNext ==
  \/ \E h \in Requests :
       \/ \E p \in Phones : ReadLimit(h, p)
       \/ WriteLimit(h)
       \/ \E l \in Links : SendLink(h, l) \/ ReadLink(h, l)
       \/ FindUser(h)
       \/ CreateUser(h)
       \/ CreateRole(h)
       \/ IssueSession(h)
       \/ Abort(h)
  \/ \E p \in Phones : WindowPasses(p)
  \/ \E l \in Links : LinkExpires(l)

-----------------------------------------------------------------------------
\* When requests do not overlap, a phone is sent no more than MaxAttempts
\* links in one window, wherever requests fail in between.
RateLimitHolds == \A p \in Phones : sent[p] <= MaxAttempts

\* A magic link logs in once: "Single-use" (auth.service.ts:113).  Requests that
\* do not overlap keep to it; two verifications of one link that do, do not.
SingleUse == \A l \in Links : Len(sessions[l]) <= 1

\* Wherever requests fail, a link is used up when, and only when, it gave a
\* session or created the customer: a verification that fails before leaves
\* its link as it was, and the link that created the customer cannot be used
\* again if the rest fails.
UsedUpForSomething ==
  \A l \in Links : link[l].state # "none" =>
    (link[l].state = "consumed" <=> sessions[l] # <<>> \/ l \in creators)
=============================================================================
