----------------------------- MODULE MCPhoneLogin ---------------------------
(***************************************************************************)
(* Small instances of Accounts: interchangeable phones, links, requests,   *)
(* and e-mails.                                                            *)
(***************************************************************************)
EXTENDS Accounts, TLC

Symmetry ==
  Permutations(Phones) \cup Permutations(Links) \cup Permutations(Requests)
=============================================================================
