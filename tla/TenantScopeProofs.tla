-------------------------- MODULE TenantScopeProofs --------------------------
(***************************************************************************)
(* Proofs about the scoped transactions, for any number of requests and    *)
(* connections, any properties and any assignment of staff to them.        *)
(*                                                                         *)
(* PoolProtocol is the inductive invariant: a connection belongs to one    *)
(* transaction, carries that transaction's scope while its callback runs   *)
(* and nothing when it is free, and what was left behind is on the         *)
(* connection of its transaction for as long as that is alive.             *)
(***************************************************************************)
EXTENDS TenantScope, TLAPS

InTransaction(r) == pc[r] \in {"begun", "inside", "nesting", "settling"}

\* An open transaction has a connection, and no other request has it; it was counted.
OwnsItsConnection ==
  /\ \A r \in Requests : conn[r] # None <=> InTransaction(r)
  /\ \A r, s \in Requests : r # s /\ conn[r] = conn[s] => conn[r] = None
  /\ \A r \in Requests : InTransaction(r) => runs[r] > 0
  /\ \A r \in Requests : pc[r] = "opening" => runs[r] < MaxRuns

\* What a connection carries: the scope of the transaction whose callback runs on
\* it, and nothing until its set_config.
CarriesItsScope ==
  /\ \A r \in Requests : pc[r] \in {"inside", "nesting"} => guc[conn[r]] = active[r]
  /\ \A c \in Free : guc[c] = Unset

\* A request acts for the principal it came as, and opens transactions for nobody
\* else.
ActsAsItself ==
  /\ \A r \in Requests : principal[r] # None => principal[r] \in Came(r)
  /\ \A r \in Requests :
       pc[r] \notin {"arrived", "refused", "failed"} => principal[r] # None
  /\ \A r \in Requests : InTransaction(r) => active[r] = ScopeFor(principal[r])

\* ActiveTx.alive is true while the callback runs, and what was left behind by the
\* current transaction is then on the connection that it still has.
LooseWorkIsKept ==
  /\ \A r \in Requests : alive[r] => pc[r] \in {"begun", "inside", "nesting"}
  /\ \A r \in Requests : \A w \in loose[r] :
       /\ w.run <= runs[r]
       /\ w.run = runs[r] /\ alive[r] => w.conn = conn[r] /\ pc[r] # "begun"

PoolProtocol ==
  /\ TypeOK
  /\ OwnsItsConnection
  /\ CarriesItsScope
  /\ ActsAsItself
  /\ LooseWorkIsKept
  /\ ReachesItsOwnRows

-----------------------------------------------------------------------------
\* Every scope that a transaction can have is one of a principal's, and a setting
\* that was reset shows nothing.
LEMMA UnsetShowsNothing == Visible(Unset) = {}
BY TenantScopeAssumption DEF Visible, Unset

\* A bearer that verifies is the credential of its request.
LEMMA BearerIsACredential ==
  ASSUME NEW r \in Requests, TypeOK, route[r].bearer # None, route[r].bearer # Forged
  PROVE  route[r].bearer \in Principal /\ Came(r) = {route[r].bearer}
<1>1. route[r] \in Route
  BY DEF TypeOK
<1>2. route[r].bearer \in Principal
  BY <1>1 DEF Route
<1>3. QED BY <1>2 DEF Came

\* A public id that exists makes a visitor of its tenant the credential of a
\* request without a bearer.
LEMMA NameIsACredential ==
  ASSUME NEW r \in Requests, TypeOK, route[r].bearer = None,
         route[r].names # None, route[r].names # "unknown"
  PROVE  LET p == [kind |-> "visitor", tenant |-> TenantOf[route[r].names], user |-> None]
         IN  p \in Principal /\ Came(r) = {p}
<1>1. route[r] \in Route
  BY DEF TypeOK
<1>2. route[r].names \in Props
  BY <1>1 DEF Route
<1>3. QED BY <1>2 DEF Came, Principal, Tenants

-----------------------------------------------------------------------------
\* The type invariant: every step keeps every variable in its type.
LEMMA TypeStep ==
  ASSUME TypeOK, OwnsItsConnection, ActsAsItself, [Next]_vars
  PROVE  TypeOK'
<1> USE DEF TypeOK
<1>1. CASE UNCHANGED vars
  BY <1>1 DEF vars
<1>2. ASSUME NEW r \in Requests, NEW how \in {"served", "refused", "failed"}, End(r, how)
      PROVE  TypeOK'
  BY <1>2 DEF End
<1>3. ASSUME NEW r \in Requests, NEW p \in Principal, Mint(r, p)
      PROVE  TypeOK'
  BY <1>2, <1>3 DEF Mint
<1>4. ASSUME NEW r \in Requests, Authenticate(r) PROVE TypeOK'
  BY <1>2, <1>3, <1>4, BearerIsACredential DEF Authenticate
<1>5. ASSUME NEW r \in Requests, EnterPublicScope(r) PROVE TypeOK'
  <2>1. CASE End(r, "refused")
    BY <1>2, <2>1
  <2>2. ASSUME route[r].names # "unknown"
        PROVE  [kind |-> "visitor", tenant |-> TenantOf[route[r].names], user |-> None]
                 \in Principal
    <3>1. route[r].names \in Props
      BY <1>5, <2>2 DEF EnterPublicScope, Route
    <3>2. QED BY <3>1 DEF Principal, Tenants
  <2>3. QED BY <1>3, <1>5, <2>1, <2>2 DEF EnterPublicScope
<1>6. ASSUME NEW r \in Requests, Run(r) PROVE TypeOK'
  BY <1>6 DEF Run
<1>7. ASSUME NEW r \in Requests, NEW c \in Conns, Checkout(r, c) PROVE TypeOK'
  <2>1. principal[r] \in Principal
    BY <1>7 DEF Checkout, ActsAsItself
  <2>2. /\ active' \in [Requests -> {ScopeFor(p) : p \in Principal} \cup {Unset}]
        /\ runs' \in [Requests -> 0 .. MaxRuns]
    <3>1. runs[r] + 1 \in 0 .. MaxRuns
      BY <1>7, TenantScopeAssumption DEF Checkout, OwnsItsConnection
    <3>2. QED BY <1>7, <2>1, <3>1 DEF Checkout
  <2>3. QED BY <1>7, <2>2 DEF Checkout
<1>8. ASSUME NEW r \in Requests, SetConfig(r) PROVE TypeOK'
  BY <1>8 DEF SetConfig
<1>9. ASSUME NEW r \in Requests, Statement(r) PROVE TypeOK'
  BY <1>9 DEF Statement, Visible
<1>10. ASSUME NEW r \in Requests, Nest(r) PROVE TypeOK'
  BY <1>10 DEF Nest
<1>11. ASSUME NEW r \in Requests, Join(r) PROVE TypeOK'
  <2>1. Visible(guc[conn[r]]) \subseteq Props
    BY DEF Visible
  <2>2. saw' \in [Requests -> SUBSET Props]
    BY <1>11, <2>1 DEF Join
  <2>3. CASE ScopeFor(principal[r]) = active[r]
    BY <1>11, <2>2, <2>3 DEF Join
  <2>4. CASE ScopeFor(principal[r]) # active[r]
    BY <1>11, <2>2, <2>4 DEF Join
  <2>5. QED BY <2>3, <2>4
<1>12. ASSUME NEW r \in Requests, Return(r) PROVE TypeOK'
  BY <1>12 DEF Return
<1>13. ASSUME NEW r \in Requests, Settle(r) PROVE TypeOK'
  BY <1>13 DEF Settle
<1>14. ASSUME NEW r \in Requests, Lose(r) PROVE TypeOK'
  BY <1>14 DEF Lose
<1>15. ASSUME NEW r \in Requests, Answer(r) PROVE TypeOK'
  BY <1>2, <1>15 DEF Answer
<1>16. ASSUME NEW r \in Requests, NEW kind \in {"statement", "run"}, LeaveBehind(r, kind)
       PROVE  TypeOK'
  <2>1. conn[r] \in Conns /\ runs[r] \in 1 .. MaxRuns
    BY <1>16 DEF LeaveBehind, OwnsItsConnection, InTransaction
  <2>2. QED BY <1>16, <2>1 DEF LeaveBehind, Work
<1>17. ASSUME NEW r \in Requests, NEW w \in Work, Fire(r, w) PROVE TypeOK'
  <2>1. Visible(guc[w.conn]) \subseteq Props
    BY DEF Visible
  <2>2. QED BY <1>17, <2>1 DEF Fire
<1>18. QED
  BY <1>1, <1>4, <1>5, <1>6, <1>7, <1>8, <1>9, <1>10, <1>11, <1>12, <1>13, <1>14, <1>15,
     <1>16, <1>17 DEF Next, Step

-----------------------------------------------------------------------------
\* A connection that is checked out is nobody's, and one that is given back was
\* its transaction's alone.
LEMMA OwnsStep ==
  ASSUME TypeOK, OwnsItsConnection, NEW r \in Requests, Step(r)
  PROVE  OwnsItsConnection'
<1> USE TenantScopeAssumption DEF TypeOK, OwnsItsConnection, InTransaction
<1>1. CASE Authenticate(r) \/ EnterPublicScope(r) \/ Run(r) \/ Answer(r)
  BY <1>1 DEF Authenticate, EnterPublicScope, Run, Answer, Mint, End
<1>2. CASE SetConfig(r) \/ Statement(r) \/ Nest(r) \/ Join(r) \/ Return(r)
  BY <1>2 DEF SetConfig, Statement, Nest, Join, Return
<1>3. ASSUME NEW c \in Conns, Checkout(r, c) PROVE OwnsItsConnection'
  BY <1>3 DEF Checkout, Free
<1>4. CASE Settle(r) \/ Lose(r)
  BY <1>4 DEF Settle, Lose
<1>5. CASE \E kind \in {"statement", "run"} : LeaveBehind(r, kind)
  BY <1>5 DEF LeaveBehind
<1>6. CASE \E w \in Work : Fire(r, w)
  BY <1>6 DEF Fire
<1>7. QED BY <1>1, <1>2, <1>3, <1>4, <1>5, <1>6 DEF Step

\* set_config reaches the connection of its own transaction only, and COMMIT or
\* ROLLBACK takes the settings back before the connection is free.
LEMMA CarriesStep ==
  ASSUME TypeOK, OwnsItsConnection, CarriesItsScope, NEW r \in Requests, Step(r)
  PROVE  CarriesItsScope'
<1> USE TenantScopeAssumption DEF TypeOK, OwnsItsConnection, InTransaction, CarriesItsScope, Free
<1>1. CASE Authenticate(r) \/ EnterPublicScope(r) \/ Run(r) \/ Answer(r)
  BY <1>1 DEF Authenticate, EnterPublicScope, Run, Answer, Mint, End
<1>2. CASE SetConfig(r)
  BY <1>2 DEF SetConfig
<1>3. CASE Statement(r) \/ Nest(r) \/ Join(r) \/ Return(r)
  BY <1>3 DEF Statement, Nest, Join, Return
<1>4. ASSUME NEW c \in Conns, Checkout(r, c) PROVE CarriesItsScope'
  BY <1>4 DEF Checkout
<1>5. CASE Settle(r) \/ Lose(r)
  BY <1>5 DEF Settle, Lose
<1>6. CASE \E kind \in {"statement", "run"} : LeaveBehind(r, kind)
  BY <1>6 DEF LeaveBehind
<1>7. CASE \E w \in Work : Fire(r, w)
  BY <1>7 DEF Fire
<1>8. QED BY <1>1, <1>2, <1>3, <1>4, <1>5, <1>6, <1>7 DEF Step

\* A principal is minted once and from the request's own credential: the second
\* one, of a route that asks for both, is refused.
LEMMA ActsStep ==
  ASSUME TypeOK, OwnsItsConnection, ActsAsItself, NEW r \in Requests, Step(r)
  PROVE  ActsAsItself'
<1> USE NoneIsNoCredential DEF TypeOK, InTransaction, ActsAsItself
<1>1. CASE Authenticate(r)
  <2>1. ASSUME NEW how \in {"refused", "failed"}, End(r, how) PROVE ActsAsItself'
    BY <2>1 DEF End, Came
  <2>2. ASSUME route[r].bearer # Forged, Mint(r, route[r].bearer) PROVE ActsAsItself'
    <3>1. route[r].bearer \in Principal /\ Came(r) = {route[r].bearer}
      BY <1>1, <2>2, BearerIsACredential DEF Authenticate
    <3>2. QED BY ZenonT(60), <1>1, <2>1, <2>2, <3>1 DEF Mint, Authenticate, Came
  <2>3. QED BY <1>1, <2>1, <2>2 DEF Authenticate
<1>2. CASE EnterPublicScope(r)
  <2>1. ASSUME NEW how \in {"refused", "failed"}, End(r, how) PROVE ActsAsItself'
    BY <2>1 DEF End, Came
  <2>2. CASE route[r].bearer # None
    BY <1>2, <2>1, <2>2 DEF EnterPublicScope, Mint
  <2>3. CASE route[r].bearer = None /\ route[r].names # "unknown"
    <3>1. PICK p \in Principal : Came(r) = {p} /\ Mint(r, p)
      BY <1>2, <2>3, NameIsACredential DEF EnterPublicScope
    <3>2. CASE principal[r] # None
      BY <2>1, <3>1, <3>2 DEF Mint
    <3>3. CASE principal[r] = None
      <4>1. \A s \in Requests : Came(s)' = Came(s)
        BY <3>1, <3>3 DEF Mint, Came
      <4>2. QED BY <3>1, <3>3, <4>1 DEF Mint
    <3>4. QED BY <3>2, <3>3
  <2>4. QED BY <1>2, <2>1, <2>2, <2>3 DEF EnterPublicScope
<1>3. CASE Run(r) \/ Answer(r) \/ SetConfig(r) \/ Statement(r) \/ Nest(r) \/ Join(r)
           \/ Return(r)
  BY <1>3 DEF Run, Answer, End, SetConfig, Statement, Nest, Join, Return, Came
<1>4. ASSUME NEW c \in Conns, Checkout(r, c) PROVE ActsAsItself'
  BY <1>4 DEF Checkout, Came
<1>5. CASE Settle(r) \/ Lose(r)
  BY <1>5 DEF Settle, Lose, Came
<1>6. CASE \E kind \in {"statement", "run"} : LeaveBehind(r, kind)
  BY <1>6 DEF LeaveBehind, Came
<1>7. CASE \E w \in Work : Fire(r, w)
  BY <1>7 DEF Fire, Came
<1>8. QED BY <1>1, <1>2, <1>3, <1>4, <1>5, <1>6, <1>7 DEF Step

\* alive goes off with the callback, before the connection does, and a later
\* transaction has a later number: what was left behind never finds another one.
LEMMA LooseStep ==
  ASSUME TypeOK, OwnsItsConnection, LooseWorkIsKept, NEW r \in Requests, Step(r)
  PROVE  LooseWorkIsKept'
<1> USE TenantScopeAssumption DEF TypeOK, LooseWorkIsKept
<1>1. CASE Authenticate(r) \/ EnterPublicScope(r) \/ Run(r) \/ Answer(r)
  BY <1>1 DEF Authenticate, EnterPublicScope, Run, Answer, Mint, End
<1>2. CASE SetConfig(r) \/ Statement(r) \/ Nest(r) \/ Join(r) \/ Return(r)
  BY <1>2 DEF SetConfig, Statement, Nest, Join, Return
<1>3. ASSUME NEW c \in Conns, Checkout(r, c) PROVE LooseWorkIsKept'
  <2>1. \A w \in loose[r] : w.run < runs'[r]
    BY <1>3 DEF Checkout, Work
  <2>2. QED BY <1>3, <2>1 DEF Checkout, Work
<1>4. CASE Settle(r) \/ Lose(r)
  BY <1>4 DEF Settle, Lose
<1>5. CASE \E kind \in {"statement", "run"} : LeaveBehind(r, kind)
  BY <1>5 DEF LeaveBehind
<1>6. CASE \E w \in Work : Fire(r, w)
  BY <1>6 DEF Fire
<1>7. QED BY <1>1, <1>2, <1>3, <1>4, <1>5, <1>6 DEF Step

-----------------------------------------------------------------------------
\* A connection on which a callback of r runs shows what r came for.
LEMMA ConnectionShowsItsOwn ==
  ASSUME TypeOK, CarriesItsScope, ActsAsItself, NEW r \in Requests,
         pc[r] \in {"inside", "nesting"}
  PROVE  Visible(guc[conn[r]]) \subseteq UNION {Visible(ScopeFor(p)) : p \in Came(r)}
<1>1. principal[r] \in Came(r) /\ guc[conn[r]] = ScopeFor(principal[r])
  BY DEF CarriesItsScope, ActsAsItself, InTransaction, TypeOK
<1>2. QED BY <1>1

\* The statements of a callback, of a nested run and of what was left behind all
\* read a connection that shows the request's own rows.
LEMMA ReachesStep ==
  ASSUME PoolProtocol, NEW r \in Requests, Step(r)
  PROVE  ReachesItsOwnRows'
<1> DEFINE Own(s) == UNION {Visible(ScopeFor(p)) : p \in Came(s)}
<1> USE DEF PoolProtocol
<1>1. \A s \in Requests : Came(s)' = Came(s)
  BY DEF Step, Authenticate, EnterPublicScope, Run, Answer, Mint, End, SetConfig, Statement,
         Nest, Join, Return, Checkout, Settle, Lose, LeaveBehind, Fire, Came
<1>2. ASSUME saw' = saw PROVE ReachesItsOwnRows'
  BY <1>1, <1>2 DEF ReachesItsOwnRows
<1>3. ASSUME pc[r] \in {"inside", "nesting"},
             saw' = [saw EXCEPT ![r] = @ \cup Visible(guc[conn[r]])]
      PROVE  ReachesItsOwnRows'
  <2>1. Visible(guc[conn[r]]) \subseteq Own(r)
    BY <1>3, ConnectionShowsItsOwn
  <2>2. \A s \in Requests : saw[s] \subseteq Own(s)
    BY DEF ReachesItsOwnRows
  <2>3. \A s \in Requests : saw'[s] \subseteq Own(s)
    BY <1>3, <2>1, <2>2 DEF TypeOK
  <2>4. QED BY <1>1, <2>3 DEF ReachesItsOwnRows
<1>4. ASSUME NEW w \in Work, Fire(r, w) PROVE ReachesItsOwnRows'
  <2>1. CASE Settled(r, w)
    BY <1>2, <1>4, <2>1 DEF Fire
  <2>2. CASE ~Settled(r, w)
    <3>1. w.conn = conn[r] /\ pc[r] \in {"inside", "nesting"}
      BY <1>4, <2>2 DEF Fire, Settled, LooseWorkIsKept
    <3>2. QED BY <1>3, <1>4, <2>2, <3>1 DEF Fire
  <2>3. QED BY <2>1, <2>2
<1>5. CASE Statement(r) \/ Join(r)
  BY <1>2, <1>3, <1>5 DEF Statement, Join
<1>6. QED
  BY <1>2, <1>4, <1>5 DEF Step, Authenticate, EnterPublicScope, Run, Answer, Mint, End,
     SetConfig, Nest, Return, Checkout, Settle, Lose, LeaveBehind

-----------------------------------------------------------------------------
\* The protocol of the pool is inductive.
LEMMA PoolProtocolInit == Init => PoolProtocol
<1> SUFFICES ASSUME Init PROVE PoolProtocol
  OBVIOUS
<1> USE DEF Init
<1>1. TypeOK
  BY TenantScopeAssumption DEF TypeOK
<1>2. OwnsItsConnection /\ CarriesItsScope /\ ActsAsItself /\ LooseWorkIsKept
  BY DEF OwnsItsConnection, InTransaction, CarriesItsScope, ActsAsItself, LooseWorkIsKept, Free
<1>3. QED BY <1>1, <1>2 DEF PoolProtocol, ReachesItsOwnRows

LEMMA PoolProtocolStep == PoolProtocol /\ [Next]_vars => PoolProtocol'
<1> SUFFICES ASSUME PoolProtocol, [Next]_vars PROVE PoolProtocol'
  OBVIOUS
<1>1. CASE UNCHANGED vars
  BY <1>1 DEF vars, PoolProtocol, TypeOK, OwnsItsConnection, InTransaction, CarriesItsScope,
     ActsAsItself, LooseWorkIsKept, ReachesItsOwnRows, Free, Came
<1>2. ASSUME NEW r \in Requests, Step(r) PROVE PoolProtocol'
  <2>1. TypeOK'
    BY <1>2, TypeStep DEF PoolProtocol, Next
  <2>2. QED
    BY <1>2, <2>1, OwnsStep, CarriesStep, ActsStep, LooseStep, ReachesStep DEF PoolProtocol
<1>3. QED BY <1>1, <1>2 DEF Next

THEOREM PoolKept == Spec => []PoolProtocol
BY PoolProtocolInit, PoolProtocolStep, PTL DEF Spec

\* Whatever a request runs, joins or leaves behind, on whichever connection
\* (TenantDbService.run, guardSession), it reaches only rows of the tenant it came
\* for, and a staff member only the assigned ones.
THEOREM OwnRows == Spec => []ReachesItsOwnRows
<1>1. PoolProtocol => ReachesItsOwnRows
  BY DEF PoolProtocol
<1>2. QED BY <1>1, PoolKept, PTL

\* A connection in the pool carries nobody's settings: set_config is local to its
\* transaction, and a statement without one finds no rows.
THEOREM CleanPool == Spec => []PoolIsClean
<1>1. PoolProtocol => PoolIsClean
  BY UnsetShowsNothing DEF PoolProtocol, CarriesItsScope, PoolIsClean
<1>2. QED BY <1>1, PoolKept, PTL
=============================================================================
