--------------------------- MODULE MCOrderPayment ---------------------------
(***************************************************************************)
(* Small instances of OrderPayment: the orders and requests are            *)
(* interchangeable model values.                                           *)
(***************************************************************************)
EXTENDS OrderPayment, TLC

Symmetry == Permutations(Orders) \cup Permutations(Requests)
=============================================================================
