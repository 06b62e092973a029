--------------------------- MODULE MCRefreshTokens --------------------------
(***************************************************************************)
(* Small instances of RefreshTokens: interchangeable users and requests,   *)
(* tokens that live two seconds, a clock that stops at the third.          *)
(***************************************************************************)
EXTENDS RefreshTokens, TLC

Symmetry == Permutations(Users) \cup Permutations(Requests)
=============================================================================
