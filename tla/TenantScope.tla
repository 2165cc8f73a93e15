----------------------------- MODULE TenantScope -----------------------------
(***************************************************************************)
(* How a request of the Sambung API gets to tenant data: who it acts for   *)
(* (JwtAuthGuard, PublicScope, TenantContext, RolesGuard), the scoped      *)
(* transactions it runs (TenantDbService.run) on a pool of connections,    *)
(* and the row-level security that reads the three settings a transaction  *)
(* has made on its connection.                                             *)
(*                                                                         *)
(* Work that a callback leaves behind (an un-awaited query, a builder that *)
(* is awaited later, a run() that is not awaited) keeps the handle of a    *)
(* transaction that has settled, whose connection may serve somebody else. *)
(***************************************************************************)
EXTENDS Naturals, FiniteSets

CONSTANTS
  Requests,
  Conns,       \* the pool
  Props,       \* the properties of all tenants
  TenantOf,    \* property.tenant_id
  Staff,       \* staff members
  SeatOf,      \* the tenant at which each of them has a seat
  Assigned,    \* user_property
  MaxRuns,     \* transactions that a request opens
  None

ASSUME TenantScopeAssumption ==
  /\ MaxRuns \in Nat
  /\ Assigned \in [Staff -> SUBSET Props]
  /\ \A u \in Staff, p \in Props : p \in Assigned[u] => TenantOf[p] = SeatOf[u]
  /\ None \notin Requests \cup Conns \cup Props \cup Staff \cup {TenantOf[p] : p \in Props}

VARIABLES
  route,      \* what each request is: its bearer token, the public id it names, who may
  principal,  \* TenantContext: whom the request acts for
  pc,
  conn,       \* the connection of the request's open transaction
  active,     \* ActiveTx: the tenant and the scope it was opened for
  alive,      \* ActiveTx.alive
  runs,       \* transactions opened so far; the last one is the current one
  loose,      \* work left behind: the transaction, its connection, and the kind
  guc,        \* the three settings of each connection
  saw         \* history: the rows that a request's statements reached

vars == <<route, principal, pc, conn, active, alive, runs, loose, guc, saw>>

-----------------------------------------------------------------------------
Tenants == {TenantOf[p] : p \in Props}

Principal ==
  [kind: {"owner", "visitor"}, tenant: Tenants, user: {None}]
    \cup {[kind |-> "staff", tenant |-> SeatOf[u], user |-> u] : u \in Staff}

Forged == [kind |-> "invalid", tenant |-> None, user |-> None]

ASSUME NoneIsNoCredential == None \notin Principal \cup {Forged}

\* A route behind JwtAuthGuard has a bearer, which may not verify; a public one
\* names a slug, a unit or a booking, reduced to its property, which may not exist.
\* One that does both is the wiring mistake that TenantContext.set is there for.
Route ==
  [bearer: {p \in Principal : p.kind # "visitor"} \cup {Forged}, names: {None},
     ownersOnly: BOOLEAN]
    \cup [bearer: {None}, names: Props \cup {"unknown"}, ownersOnly: {FALSE}]
    \cup [bearer: {p \in Principal : p.kind = "owner"}, names: Props, ownersOnly: {FALSE}]

\* The reset value of a setting is '', which the policies read as no value.
Unset == [tenant |-> None, mode |-> None, staff |-> None]

\* scopeFor, with the tenant: the only place where a principal becomes a scope.
ScopeFor(p) ==
  IF p.kind = "staff" THEN [tenant |-> p.tenant, mode |-> "assigned", staff |-> p.user]
  ELSE [tenant |-> p.tenant, mode |-> "all", staff |-> None]

\* app_property_visible
AppPropertyVisible(g, p) == g.mode = "all" \/ (g.staff # None /\ p \in Assigned[g.staff])

\* The tenant_isolation policies of property, unit, booking, channel_connection and
\* sync_conflict: both axes, and nothing at all when they are not set.
Visible(g) == {p \in Props : TenantOf[p] = g.tenant /\ AppPropertyVisible(g, p)}

Work == [run: 1 .. MaxRuns, conn: Conns, kind: {"statement", "run"}]

TypeOK ==
  /\ route \in [Requests -> Route]
  /\ principal \in [Requests -> Principal \cup {None}]
  /\ pc \in [Requests -> {"arrived", "ready", "opening", "begun", "inside", "nesting",
                          "settling", "served", "refused", "failed"}]
  /\ conn \in [Requests -> Conns \cup {None}]
  /\ active \in [Requests -> {ScopeFor(p) : p \in Principal} \cup {Unset}]
  /\ alive \in [Requests -> BOOLEAN]
  /\ runs \in [Requests -> 0 .. MaxRuns]
  /\ loose \in [Requests -> SUBSET Work]
  /\ guc \in [Conns -> {ScopeFor(p) : p \in Principal} \cup {Unset}]
  /\ saw \in [Requests -> SUBSET Props]

Free == {c \in Conns : \A r \in Requests : conn[r] # c}

Over(r) == pc[r] \in {"served", "refused", "failed"}

-----------------------------------------------------------------------------
Init ==
  /\ route \in [Requests -> Route]
  /\ principal = [r \in Requests |-> None]
  /\ pc = [r \in Requests |-> "arrived"]
  /\ conn = [r \in Requests |-> None]
  /\ active = [r \in Requests |-> Unset]
  /\ alive = [r \in Requests |-> FALSE]
  /\ runs = [r \in Requests |-> 0]
  /\ loose = [r \in Requests |-> {}]
  /\ guc = [c \in Conns |-> Unset]
  /\ saw = [r \in Requests |-> {}]

\* The request is over without a transaction open.
End(r, how) ==
  /\ pc' = [pc EXCEPT ![r] = how]
  /\ UNCHANGED <<route, principal, conn, active, alive, runs, loose, guc, saw>>

\* TenantContext.set: one request acts for one principal.
Mint(r, p) ==
  \/ principal[r] # None /\ End(r, "failed")
  \/ /\ principal[r] = None
     /\ principal' = [principal EXCEPT ![r] = p]
     /\ pc' = [pc EXCEPT ![r] = "ready"]
     /\ UNCHANGED <<route, conn, active, alive, runs, loose, guc, saw>>

\* JwtAuthGuard, then RolesGuard.
Authenticate(r) ==
  LET b == route[r].bearer
  IN /\ pc[r] = "arrived" /\ b # None
     /\ \/ b = Forged /\ End(r, "refused")
        \/ b # Forged /\ route[r].ownersOnly /\ b.kind # "owner" /\ End(r, "refused")
        \/ b # Forged /\ (route[r].ownersOnly => b.kind = "owner") /\ Mint(r, b)

\* enterFromSlug, enterFromUnitId, enterFromBookingId: one column, on the owner
\* connection, then a visitor of that tenant.
EnterPublicScope(r) ==
  /\ route[r].names # None /\ runs[r] = 0
  /\ pc[r] = IF route[r].bearer = None THEN "arrived" ELSE "ready"
  /\ \/ route[r].names = "unknown" /\ End(r, "refused")
     \/ /\ route[r].names # "unknown"
        /\ Mint(r, [kind |-> "visitor", tenant |-> TenantOf[route[r].names], user |-> None])

\* run, outside a transaction: it waits for a connection of the pool.
Run(r) ==
  /\ pc[r] = "ready" /\ runs[r] < MaxRuns
  /\ pc' = [pc EXCEPT ![r] = "opening"]
  /\ UNCHANGED <<route, principal, conn, active, alive, runs, loose, guc, saw>>

Checkout(r, c) ==
  /\ pc[r] = "opening" /\ c \in Free
  /\ pc' = [pc EXCEPT ![r] = "begun"]
  /\ conn' = [conn EXCEPT ![r] = c]
  /\ active' = [active EXCEPT ![r] = ScopeFor(principal[r])]
  /\ alive' = [alive EXCEPT ![r] = TRUE]
  /\ runs' = [runs EXCEPT ![r] = @ + 1]
  /\ UNCHANGED <<route, principal, loose, guc, saw>>

\* The three set_config calls, in one statement and for this transaction only.
SetConfig(r) ==
  /\ pc[r] = "begun"
  /\ guc' = [guc EXCEPT ![conn[r]] = active[r]]
  /\ pc' = [pc EXCEPT ![r] = "inside"]
  /\ UNCHANGED <<route, principal, conn, active, alive, runs, loose, saw>>

\* A statement of the callback.
Statement(r) ==
  /\ pc[r] = "inside"
  /\ saw' = [saw EXCEPT ![r] = @ \cup Visible(guc[conn[r]])]
  /\ UNCHANGED <<route, principal, pc, conn, active, alive, runs, loose, guc>>

\* The callback calls run again, and waits for it.
Nest(r) ==
  /\ pc[r] = "inside"
  /\ pc' = [pc EXCEPT ![r] = "nesting"]
  /\ UNCHANGED <<route, principal, conn, active, alive, runs, loose, guc, saw>>

\* Mutant: a nested call opens a transaction of its own, on a second connection.
OpenNested(r) ==
  /\ pc[r] = "nesting" /\ Free # {}
  /\ pc' = [pc EXCEPT ![r] = "inside"]
  /\ saw' = [saw EXCEPT ![r] = @ \cup Visible(ScopeFor(principal[r]))]
  /\ UNCHANGED <<route, principal, conn, active, alive, runs, loose, guc>>

\* run, inside a transaction: it joins, unless the principal has changed.
Join(r) ==
  /\ pc[r] = "nesting"
  /\ IF ScopeFor(principal[r]) = active[r]
     THEN /\ saw' = [saw EXCEPT ![r] = @ \cup Visible(guc[conn[r]])]
          /\ pc' = [pc EXCEPT ![r] = "inside"] /\ UNCHANGED alive
     ELSE /\ pc' = [pc EXCEPT ![r] = "settling"] /\ alive' = [alive EXCEPT ![r] = FALSE]
          /\ UNCHANGED saw
  /\ UNCHANGED <<route, principal, conn, active, runs, loose, guc>>

\* The callback starts something and does not wait for it; one at a time.
LeaveBehind(r, kind) ==
  /\ pc[r] = "inside" /\ loose[r] = {}
  /\ loose' = [loose EXCEPT ![r] = @ \cup {[run |-> runs[r], conn |-> conn[r], kind |-> kind]}]
  /\ UNCHANGED <<route, principal, pc, conn, active, alive, runs, guc, saw>>

\* The callback returns or throws: dead at once, before COMMIT or ROLLBACK.
Return(r) ==
  /\ pc[r] = "inside"
  /\ alive' = [alive EXCEPT ![r] = FALSE]
  /\ pc' = [pc EXCEPT ![r] = "settling"]
  /\ UNCHANGED <<route, principal, conn, active, runs, loose, guc, saw>>

\* Mutant: set_config was called with is_local false.
SettleKeepingSettings(r) ==
  /\ pc[r] = "settling"
  /\ conn' = [conn EXCEPT ![r] = None]
  /\ active' = [active EXCEPT ![r] = Unset]
  /\ pc' = [pc EXCEPT ![r] = "ready"]
  /\ UNCHANGED <<route, principal, alive, runs, loose, guc, saw>>

\* COMMIT or ROLLBACK: the settings go back to '' and the connection to the pool.
Settle(r) ==
  /\ pc[r] = "settling"
  /\ guc' = [guc EXCEPT ![conn[r]] = Unset]
  /\ conn' = [conn EXCEPT ![r] = None]
  /\ active' = [active EXCEPT ![r] = Unset]
  /\ pc' = [pc EXCEPT ![r] = "ready"]
  /\ UNCHANGED <<route, principal, alive, runs, loose, saw>>

\* The connection is lost before the callback is through; what is left behind
\* goes on.
Lose(r) ==
  /\ pc[r] \in {"begun", "inside", "nesting"}
  /\ guc' = [guc EXCEPT ![conn[r]] = Unset]
  /\ conn' = [conn EXCEPT ![r] = None]
  /\ active' = [active EXCEPT ![r] = Unset]
  /\ alive' = [alive EXCEPT ![r] = FALSE]
  /\ pc' = [pc EXCEPT ![r] = "failed"]
  /\ UNCHANGED <<route, principal, runs, loose, saw>>

Answer(r) == pc[r] = "ready" /\ End(r, "served")

\* Mutant: a statement that was built while the transaction was open is not asked.
WorkIsDead(r, w) == w.kind = "run" /\ (w.run # runs[r] \/ ~alive[r])

\* guardSession, and the first check of run: the transaction has settled.
Settled(r, w) == w.run # runs[r] \/ ~alive[r]

\* What was left behind gets its turn.  It throws, or is issued on the connection of
\* its transaction, whoever has that now.
Fire(r, w) ==
  /\ w \in loose[r]
  /\ loose' = [loose EXCEPT ![r] = @ \ {w}]
  /\ saw' = IF Settled(r, w) THEN saw
            ELSE [saw EXCEPT ![r] = @ \cup Visible(guc[w.conn])]
  /\ UNCHANGED <<route, principal, pc, conn, active, alive, runs, guc>>

-----------------------------------------------------------------------------
Step(r) ==
  \/ Authenticate(r) \/ EnterPublicScope(r) \/ Run(r) \/ SetConfig(r) \/ Statement(r)
  \/ Nest(r) \/ Join(r) \/ Return(r) \/ Settle(r) \/ Lose(r) \/ Answer(r)
  \/ \E c \in Conns : Checkout(r, c)
  \/ \E kind \in {"statement", "run"} : LeaveBehind(r, kind)
  \/ \E w \in Work : Fire(r, w)

Next == \E r \in Requests : Step(r)

\* A handler is run on, its callback makes finitely many calls, and a pool serves
\* its waiters in turn.
Fairness ==
  \A r \in Requests :
    /\ WF_vars(Authenticate(r) \/ EnterPublicScope(r) \/ SetConfig(r) \/ Join(r)
              \/ Settle(r) \/ Answer(r))
    /\ SF_vars(\E c \in Conns : Checkout(r, c))
    /\ SF_vars(Return(r))

Spec == Init /\ [][Next]_vars

FairSpec == Spec /\ Fairness

-----------------------------------------------------------------------------
\* The credential that a request came with.
Came(r) ==
  IF route[r].bearer \notin {None, Forged} THEN {route[r].bearer}
  ELSE IF route[r].names \in Props
  THEN {[kind |-> "visitor", tenant |-> TenantOf[route[r].names], user |-> None]}
  ELSE {}

\* Whatever a request runs, joins or leaves behind, on whichever connection, it
\* reaches only rows of the tenant it came for, and a staff member only those of
\* the assigned properties.
ReachesItsOwnRows ==
  \A r \in Requests : saw[r] \subseteq UNION {Visible(ScopeFor(p)) : p \in Came(r)}

\* A connection of the pool carries nobody's settings, so that a forgotten
\* set_config finds no rows.
PoolIsClean == \A c \in Free : Visible(guc[c]) = {}

\* A request that came in is answered: nested calls never wait for a connection
\* while they hold one.
EveryRequestEnds == \A r \in Requests : pc[r] = "arrived" ~> Over(r)
=============================================================================
