----------------------------- MODULE MCBookings -----------------------------
(***************************************************************************)
(* Instances of Bookings for TLC.                                          *)
(***************************************************************************)
EXTENDS Bookings, TLC

\* Any stay is long enough and only one guest fits.
NoHouseRules == [u \in Units |-> 1]

RequestSymmetry == Permutations(Requests)
=============================================================================
