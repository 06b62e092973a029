--------------------------- MODULE MCRegistration ---------------------------
(***************************************************************************)
(* A small instance of Registration, with the code's three retries.  No    *)
(* symmetry: the run checks liveness.                                      *)
(***************************************************************************)
EXTENDS Registration
=============================================================================
