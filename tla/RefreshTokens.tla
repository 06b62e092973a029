---------------------------- MODULE RefreshTokens ---------------------------
(***************************************************************************)
(* Refresh tokens and their rotation: refresh and generateTokenPair in     *)
(* src/tenancy/auth/auth.service.ts.                                       *)
(*                                                                         *)
(* A refresh token is a JWT of the user, the tenant, the roles and the     *)
(* second it was signed in: two tokens of a user signed in one second are  *)
(* the same text, and have the same hash in two rows of refresh_tokens.    *)
(* A refresh looks its row up in one query and writes in a later one.      *)
(***************************************************************************)
EXTENDS Integers, Sequences, FiniteSets

CONSTANTS
  Users,
  Requests,  \* refresh requests that may be in flight at once
  Serial,    \* TRUE: a refresh starts only when no other is in flight
  Ttl,       \* JWT_REFRESH_TTL in seconds
  MaxTime,   \* bound: the clock stops there
  MaxRows    \* bound: rows of refresh_tokens

ASSUME SerialAssumption == Serial \in BOOLEAN
ASSUME TtlAssumption == Ttl \in Nat \ {0}

VARIABLES
  now,     \* the clock, in seconds
  rows,    \* table refresh_tokens; exchanged counts the successful refreshes
  txn,     \* the row a refresh has found, or the user whose rows it revokes
  logins   \* how often each user has logged in

vars == <<now, rows, txn, logins>>

Idle == [op |-> "idle"]

Init ==
  /\ now = 0
  /\ rows = <<>>
  /\ txn = [h \in Requests |-> Idle]
  /\ logins = [u \in Users |-> 0]

RowIds == DOMAIN rows
SameToken(i, j) == rows[i].user = rows[j].user /\ rows[i].issued = rows[j].issued
Live(u) == {i \in RowIds : rows[i].user = u /\ ~rows[i].revoked}

-----------------------------------------------------------------------------
\* Mutant: iat is set back by a second, to allow for clocks that differ.
NewRowBackdated(u) == [user |-> u, issued |-> now - 1, revoked |-> FALSE, exchanged |-> 0]

\* generateTokenPair
NewRow(u) == [user |-> u, issued |-> now, revoked |-> FALSE, exchanged |-> 0]

\* Both ways to log in, by password and by magic link, end in it.
Login(u) ==
  /\ Len(rows) < MaxRows
  /\ rows' = Append(rows, NewRow(u))
  /\ logins' = [logins EXCEPT ![u] = @ + 1]
  /\ UNCHANGED <<now, txn>>

CanStart(h) ==
  /\ txn[h] = Idle
  /\ Serial => \A g \in Requests : txn[g] = Idle

\* refresh with the token of row i, up to the query by hash, which may find
\* any row that has the token's text.
FindToken(h, i) ==
  /\ CanStart(h)
  /\ now < rows[i].issued + Ttl
  /\ \E j \in RowIds :
       /\ SameToken(i, j)
       /\ txn' = [txn EXCEPT ![h] =
            IF rows[j].revoked THEN [op |-> "revokeAll", user |-> rows[j].user]
            ELSE [op |-> "rotate", row |-> j]]
  /\ UNCHANGED <<now, rows, logins>>

\* Mutant: the token that was exchanged is not revoked.
RotateKeeping(h) ==
  /\ txn[h].op = "rotate"
  /\ Len(rows) < MaxRows
  /\ LET i == txn[h].row
     IN  rows' = Append([rows EXCEPT ![i].exchanged = @ + 1], NewRow(rows[i].user))
  /\ txn' = [txn EXCEPT ![h] = Idle]
  /\ UNCHANGED <<now, logins>>

\* The old row is revoked and the new one inserted by one flush.
Rotate(h) ==
  /\ txn[h].op = "rotate"
  /\ Len(rows) < MaxRows
  /\ LET i == txn[h].row
     IN  rows' = Append([rows EXCEPT ![i].revoked = TRUE, ![i].exchanged = @ + 1],
                        NewRow(rows[i].user))
  /\ txn' = [txn EXCEPT ![h] = Idle]
  /\ UNCHANGED <<now, logins>>

\* A token that was exchanged comes back: every row of its user is revoked.
RevokeAll(h) ==
  /\ txn[h].op = "revokeAll"
  /\ rows' = [i \in RowIds |->
       IF rows[i].user = txn[h].user THEN [rows[i] EXCEPT !.revoked = TRUE] ELSE rows[i]]
  /\ txn' = [txn EXCEPT ![h] = Idle]
  /\ UNCHANGED <<now, logins>>

Abort(h) ==
  /\ txn[h] # Idle
  /\ txn' = [txn EXCEPT ![h] = Idle]
  /\ UNCHANGED <<now, rows, logins>>

Tick ==
  /\ now < MaxTime
  /\ now' = now + 1
  /\ UNCHANGED <<rows, txn, logins>>

Next ==
  \/ \E u \in Users : Login(u)
  \/ \E h \in Requests :
       \/ \E i \in RowIds : FindToken(h, i)
       \/ Rotate(h)
       \/ RevokeAll(h)
       \/ Abort(h)
  \/ Tick

Spec == Init /\ [][Next]_vars

-----------------------------------------------------------------------------
Row == [user: Users, issued: Nat, revoked: BOOLEAN, exchanged: Nat]

Work == {Idle} \cup [op: {"rotate"}, row: RowIds] \cup [op: {"revokeAll"}, user: Users]

TypeOK ==
  /\ now \in Nat
  /\ rows \in Seq(Row)
  /\ \A h \in Requests : txn[h] \in Work
  /\ logins \in [Users -> Nat]

Contract == INSTANCE SessionContract WITH
  sessions <- [u \in Users |-> Cardinality(Live(u))]

\* When refreshes do not overlap, a user never has more live tokens than
\* logins, and a replay leaves none.
ImplementsContract == Contract!Spec

\* A token that was exchanged once is refused from then on: "Old refresh
\* token should be revoked (replay -> 401)" (test/auth.e2e-spec.ts:173).
ReplayRefused ==
  [][\A h \in Requests : \A i \in RowIds :
       txn[h] = Idle /\ txn'[h].op = "rotate" /\ SameToken(i, txn'[h].row)
         => rows[i].exchanged = 0]_vars
=============================================================================
