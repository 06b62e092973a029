--------------------------- MODULE SessionContract --------------------------
(***************************************************************************)
(* What refresh tokens promise: a login opens one session of its user,     *)
(* exchanging the session's token for the next one leaves it open, and a   *)
(* token presented twice closes all sessions of the user.                  *)
(* RefreshTokens implements this as long as its requests do not overlap.   *)
(***************************************************************************)
EXTENDS Naturals

CONSTANT Users

VARIABLES
  logins,   \* how often each user has logged in
  sessions  \* how many sessions of the user are open

svars == <<logins, sessions>>

Init ==
  /\ logins = [u \in Users |-> 0]
  /\ sessions = [u \in Users |-> 0]

Login(u) ==
  /\ logins' = [logins EXCEPT ![u] = @ + 1]
  /\ sessions' = [sessions EXCEPT ![u] = @ + 1]

CloseAll(u) ==
  /\ sessions' = [sessions EXCEPT ![u] = 0]
  /\ UNCHANGED logins

Next == \E u \in Users : Login(u) \/ CloseAll(u)

Spec == Init /\ [][Next]_svars
=============================================================================
