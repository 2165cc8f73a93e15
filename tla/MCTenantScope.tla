---------------------------- MODULE MCTenantScope ----------------------------
(***************************************************************************)
(* An instance of TenantScope for TLC: two tenants, one with two properties *)
(* and a staff member who is assigned one of them.                         *)
(***************************************************************************)
EXTENDS TenantScope, TLC

CONSTANTS t1, t2, p1, p2, p3, s1

TwoTenants == p1 :> t1 @@ p2 :> t1 @@ p3 :> t2

SeatAtFirst == s1 :> t1

OneOfTwo == s1 :> {p1}
=============================================================================
