----------------------------- MODULE MCPayments -----------------------------
(***************************************************************************)
(* Instances of Payments for TLC.                                          *)
(***************************************************************************)
EXTENDS Payments, TLC

\* Requests, deliveries and orders of one kind are interchangeable.
PaymentSymmetry ==
  Permutations(Orders) \cup Permutations(Payers) \cup Permutations(Handlers)
=============================================================================
