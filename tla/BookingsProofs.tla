--------------------------- MODULE BookingsProofs ---------------------------
(***************************************************************************)
(* Proofs about the booking write path, for any number of requests, units, *)
(* days and ticks.  WriteProtocol is the inductive invariant: the safety   *)
(* properties follow from it, and the action properties from it and one    *)
(* step.                                                                   *)
(***************************************************************************)
EXTENDS Bookings, TLAPS

\* Two stays that are not empty overlap as half-open ranges exactly when they
\* have a night in common: the constraint's && means what a guest means.
LEMMA ConflictIsASharedNight ==
  ASSUME TypeOK, StaysAreNonempty, NEW a \in Requests, NEW b \in Requests
  PROVE  Conflict(a, b) <=> ShareANight(a, b)
<1> DEFINE later == IF req[a].from < req[b].from THEN req[b].from ELSE req[a].from
<1>1. /\ req[a].from \in Int /\ req[a].to \in Int /\ req[a].from < req[a].to
      /\ req[b].from \in Int /\ req[b].to \in Int /\ req[b].from < req[b].to
  BY BookingsAssumption DEF TypeOK, StaysAreNonempty, Request, Day
<1>2. ASSUME Conflict(a, b) PROVE ShareANight(a, b)
  <2>1. later \in NightsOf(a) /\ later \in NightsOf(b)
    BY <1>1, <1>2 DEF Conflict, NightsOf
  <2>2. QED BY <2>1, <1>2 DEF Conflict, ShareANight
<1>3. ASSUME ShareANight(a, b) PROVE Conflict(a, b)
  <2>1. PICK n : n \in NightsOf(a) /\ n \in NightsOf(b)
    BY <1>3 DEF ShareANight
  <2>2. QED BY <1>1, <1>3, <2>1 DEF Conflict, ShareANight, NightsOf
<1>4. QED BY <1>2, <1>3

-----------------------------------------------------------------------------
\* A refusal keeps the types: it only ends the request.
LEMMA RefuseType ==
  ASSUME TypeOK, NEW r \in Requests, NEW why \in SUBSET Reply, Refuse(r, why)
  PROVE  TypeOK'
BY DEF TypeOK, Refuse, Pc, rowVars

\* The reasons of the re-check are answers.
LEMMA ReasonsType ==
  ASSUME NEW r \in Requests
  PROVE  Reasons(r) \in SUBSET Reply
BY DEF Reasons, Reply

\* Every step keeps every variable in its type.
LEMMA TypeStep ==
  ASSUME TypeOK, [Next]_vars
  PROVE  TypeOK'
<1> USE BookingsAssumption
<1>1. CASE UNCHANGED vars
  BY <1>1 DEF TypeOK, vars, requestVars, rowVars
<1>2. ASSUME NEW r \in Requests, Enter(r) PROVE TypeOK'
  <2>1. CASE Refuse(r, {"not_found"})
    BY <2>1, RefuseType DEF Reply
  <2>2. CASE Refuse(r, {"payments_not_configured"})
    BY <2>2, RefuseType DEF Reply
  <2>3. CASE /\ pc' = [pc EXCEPT ![r] = "begun"]
             /\ start' = [start EXCEPT ![r] = clock]
             /\ sawActive' = [sawActive EXCEPT ![r] = (unitState[req[r].unit] = "active")]
             /\ UNCHANGED <<clock, unitState, req, swept, reply, rowVars>>
    <3>1. sawActive' \in [Requests -> BOOLEAN]
      BY <2>3 DEF TypeOK
    <3>2. QED BY <2>3, <3>1 DEF TypeOK, Pc, rowVars
  <2>4. QED BY <1>2, <2>1, <2>2, <2>3 DEF Enter
<1>3. ASSUME NEW r \in Requests, SweepUnit(r) PROVE TypeOK'
  <2>1. LapsedHolds(req[r].unit, start[r]) \in SUBSET Requests
    BY DEF LapsedHolds
  <2>2. QED BY <1>3, <2>1 DEF TypeOK, SweepUnit, Pc, rowVars
<1>4. ASSUME NEW r \in Requests, ReadUnit(r) PROVE TypeOK'
  <2>1. CASE \E why \in SUBSET Reply : Refuse(r, why)
    BY <2>1, RefuseType
  <2>2. CASE /\ pc' = [pc EXCEPT ![r] = "priced"]
             /\ UNCHANGED <<clock, unitState, req, start, swept, reply, sawActive, rowVars>>
    BY <2>2 DEF TypeOK, Pc, rowVars
  <2>3. QED BY <1>4, <2>1, <2>2 DEF ReadUnit, Reply
<1>5. ASSUME NEW r \in Requests, Recheck(r) PROVE TypeOK'
  <2>1. CASE \E why \in SUBSET Reply : Refuse(r, why)
    BY <2>1, RefuseType
  <2>2. CASE /\ pc' = [pc EXCEPT ![r] = "checked"]
             /\ UNCHANGED <<clock, unitState, req, start, swept, reply, sawActive, rowVars>>
    BY <2>2 DEF TypeOK, Pc, rowVars
  <2>3. {"not_found"} \in SUBSET Reply
    BY DEF Reply
  <2>4. QED BY <1>5, <2>1, <2>2, <2>3, ReasonsType DEF Recheck
<1>6. ASSUME NEW r \in Requests, InsertTuple(r) PROVE TypeOK'
  BY <1>6 DEF TypeOK, InsertTuple, Pc, rowVars
<1>7. ASSUME NEW r \in Requests, Arbitrate(r) PROVE TypeOK'
  <2>1. CASE \E why \in SUBSET Reply : Refuse(r, why)
    BY <2>1, RefuseType
  <2>2. CASE /\ pc' = [pc EXCEPT ![r] = "inserted"]
             /\ UNCHANGED <<clock, unitState, req, start, swept, reply, sawActive, rowVars>>
    BY <2>2 DEF TypeOK, Pc, rowVars
  <2>3. QED BY <1>7, <2>1, <2>2 DEF Arbitrate, Reply
<1>8. ASSUME NEW r \in Requests, DeadlockVictim(r) PROVE TypeOK'
  BY <1>8, RefuseType DEF DeadlockVictim, Reply
<1>9. ASSUME NEW r \in Requests, Commit(r) PROVE TypeOK'
  <2>1. status' \in [Requests -> BookingStatus \cup {"none"}]
    BY <1>9 DEF TypeOK, Commit, BookingStatus
  <2>2. hold' \in [Requests -> Nat] /\ start' \in [Requests -> Nat]
    BY <1>9 DEF TypeOK, Commit
  <2>3. QED BY <1>9, <2>1, <2>2 DEF TypeOK, Commit, Pc, Reply
<1>10. ASSUME NEW b \in Requests, CancelById(b) \/ ConfirmPaid(b) PROVE TypeOK'
  BY <1>10 DEF TypeOK, CancelById, ConfirmPaid, BookingStatus, requestVars
<1>11. ASSUME NEW u \in Units, Archive(u) \/ RemoveUnit(u) PROVE TypeOK'
  BY <1>11 DEF TypeOK, Archive, RemoveUnit, UnitState, requestVars, rowVars
<1>12. ASSUME NEW u \in Units, Unarchive(u) PROVE TypeOK'
  <2>1. sawActive' \in [Requests -> BOOLEAN]
    BY <1>12 DEF TypeOK, Unarchive
  <2>2. QED BY <1>12, <2>1 DEF TypeOK, Unarchive, UnitState, rowVars
<1>13. CASE SweepExpiredHolds
  BY <1>13 DEF TypeOK, SweepExpiredHolds, BookingStatus, requestVars
<1>14. CASE Tick
  BY <1>14 DEF TypeOK, Tick, requestVars, rowVars
<1>15. QED
  BY <1>1, <1>2, <1>3, <1>4, <1>5, <1>6, <1>7, <1>8, <1>9, <1>10, <1>11, <1>12,
     <1>13, <1>14 DEF Next, Step

-----------------------------------------------------------------------------
\* Overlap does not depend on which of the two bookings came first.
LEMMA ConflictIsSymmetric ==
  ASSUME NEW a, NEW b, Conflict(a, b)
  PROVE  Conflict(b, a)
BY DEF Conflict

\* A rollback keeps the protocol: it gives up locks and a tuple, and no row
\* changes.
LEMMA RefuseProtocol ==
  ASSUME WriteProtocol, NEW r \in Requests, NEW why \in SUBSET Reply, Refuse(r, why)
  PROVE  WriteProtocol'
<1> USE DEF WriteProtocol
<1>1. TypeOK'
  BY RefuseType
<1>2. StaysAreNonempty' /\ OccupyingRowsAreClear' /\ LedgerKeepsItsUnit'
  BY DEF Refuse, rowVars, StaysAreNonempty, OccupyingRowsAreClear, LedgerKeepsItsUnit,
         Occupying, Conflict
<1>3. LocksAreExclusive'
  BY DEF TypeOK, Refuse, rowVars, LocksAreExclusive, InTransaction
<1>4. RowsAppearAtCommit'
  BY DEF TypeOK, Refuse, rowVars, RowsAppearAtCommit
<1>5. PassedInsertsAreClear'
  BY DEF TypeOK, Refuse, rowVars, PassedInsertsAreClear, BlockedBy, Occupying, Conflict
<1>6. QED BY <1>1, <1>2, <1>3, <1>4, <1>5

\* A statement that only reads, or puts the tuple in the index, moves the
\* handler on and keeps the protocol.
LEMMA AdvanceProtocol ==
  ASSUME WriteProtocol, NEW r \in Requests, NEW next \in {"priced", "checked", "inserting"},
         InTransaction(r),
         pc' = [pc EXCEPT ![r] = next],
         UNCHANGED <<clock, unitState, req, start, swept, reply, sawActive, rowVars>>
  PROVE  WriteProtocol'
<1> USE DEF WriteProtocol
<1>1. TypeOK'
  BY DEF TypeOK, Pc, rowVars
<1>2. StaysAreNonempty' /\ OccupyingRowsAreClear' /\ LedgerKeepsItsUnit'
  BY DEF rowVars, StaysAreNonempty, OccupyingRowsAreClear, LedgerKeepsItsUnit,
         Occupying, Conflict
<1>3. LocksAreExclusive'
  BY DEF TypeOK, rowVars, LocksAreExclusive, InTransaction
<1>4. RowsAppearAtCommit'
  BY DEF TypeOK, rowVars, RowsAppearAtCommit, InTransaction
<1>5. PassedInsertsAreClear'
  BY DEF TypeOK, rowVars, PassedInsertsAreClear, BlockedBy, Occupying, Conflict
<1>6. QED BY <1>1, <1>2, <1>3, <1>4, <1>5

-----------------------------------------------------------------------------
\* Starting a transaction fixes its now() at the clock and takes no lock.
LEMMA EnterProtocol ==
  ASSUME WriteProtocol, TypeOK', NEW r \in Requests, Enter(r)
  PROVE  WriteProtocol'
<1> USE DEF WriteProtocol
<1>1. CASE \E why \in SUBSET Reply : Refuse(r, why)
  BY <1>1, RefuseProtocol
<1>2. CASE /\ pc' = [pc EXCEPT ![r] = "begun"]
           /\ start' = [start EXCEPT ![r] = clock]
           /\ UNCHANGED <<clock, unitState, req, swept, reply, rowVars>>
  <2>1. pc[r] = "idle"
    BY DEF Enter
  <2>2. StaysAreNonempty' /\ OccupyingRowsAreClear' /\ LedgerKeepsItsUnit'
    BY <1>2 DEF rowVars, StaysAreNonempty, OccupyingRowsAreClear, LedgerKeepsItsUnit,
                Occupying, Conflict
  <2>3. LocksAreExclusive'
    BY <1>2, <2>1 DEF TypeOK, rowVars, LocksAreExclusive, InTransaction
  <2>4. RowsAppearAtCommit'
    BY <1>2, <2>1 DEF TypeOK, rowVars, RowsAppearAtCommit
  <2>5. PassedInsertsAreClear'
    BY <1>2 DEF TypeOK, rowVars, PassedInsertsAreClear, BlockedBy, Occupying, Conflict
  <2>6. QED BY <2>2, <2>3, <2>4, <2>5
<1>3. QED BY <1>1, <1>2 DEF Enter, Reply

\* The sweep locks only rows no other transaction has locked.
LEMMA SweepUnitProtocol ==
  ASSUME WriteProtocol, TypeOK', NEW r \in Requests, SweepUnit(r)
  PROVE  WriteProtocol'
<1> USE DEF WriteProtocol
<1>1. StaysAreNonempty' /\ OccupyingRowsAreClear' /\ LedgerKeepsItsUnit'
  BY DEF SweepUnit, rowVars, StaysAreNonempty, OccupyingRowsAreClear, LedgerKeepsItsUnit,
         Occupying, Conflict
<1>2. LocksAreExclusive'
  <2>1. \A q \in Requests \ {r} : swept'[q] = swept[q] /\ swept'[q] \cap swept'[r] = {}
    BY DEF TypeOK, SweepUnit, LocksAreExclusive, LockedByOther
  <2>2. \A b \in swept'[r] : status[b] = "pending_payment" /\ hold[b] < start[r]
    BY DEF TypeOK, SweepUnit, LapsedHolds
  <2>3. \A q \in Requests : InTransaction(q)' <=> InTransaction(q)
    BY DEF TypeOK, SweepUnit, InTransaction
  <2>4. InTransaction(r)
    BY DEF SweepUnit, InTransaction
  <2>5. UNCHANGED <<status, hold, start>>
    BY DEF SweepUnit, rowVars
  <2>6. QED BY <2>1, <2>2, <2>3, <2>4, <2>5 DEF LocksAreExclusive
<1>3. RowsAppearAtCommit'
  BY DEF TypeOK, SweepUnit, rowVars, RowsAppearAtCommit
<1>4. PassedInsertsAreClear'
  BY DEF TypeOK, SweepUnit, rowVars, PassedInsertsAreClear, BlockedBy, Occupying, Conflict
<1>5. QED BY <1>1, <1>2, <1>3, <1>4

\* The exclusion constraint lets an insert pass only when no row and no
\* undecided tuple is in its way.
LEMMA ArbitrateProtocol ==
  ASSUME WriteProtocol, TypeOK', NEW r \in Requests, Arbitrate(r)
  PROVE  WriteProtocol'
<1> USE DEF WriteProtocol
<1>1. CASE \E why \in SUBSET Reply : Refuse(r, why)
  BY <1>1, RefuseProtocol
<1>2. CASE /\ BlockedBy(r) = {} /\ WaitsFor(r) = {}
           /\ unitState[req[r].unit] # "gone"
           /\ pc' = [pc EXCEPT ![r] = "inserted"]
           /\ UNCHANGED <<clock, unitState, req, start, swept, reply, sawActive, rowVars>>
  <2>1. pc[r] = "inserting"
    BY DEF Arbitrate
  <2>2. StaysAreNonempty' /\ OccupyingRowsAreClear' /\ LedgerKeepsItsUnit'
    BY <1>2 DEF rowVars, StaysAreNonempty, OccupyingRowsAreClear, LedgerKeepsItsUnit,
                Occupying, Conflict
  <2>3. LocksAreExclusive'
    BY <1>2, <2>1 DEF TypeOK, rowVars, LocksAreExclusive, InTransaction
  <2>4. RowsAppearAtCommit'
    BY <1>2, <2>1 DEF TypeOK, rowVars, RowsAppearAtCommit
  <2>5. PassedInsertsAreClear'
    <3>1. \A q \in Requests \ {r} : pc[q] = "inserted" => ~Conflict(r, q) /\ ~Conflict(q, r)
      BY <1>2, ConflictIsSymmetric DEF WaitsFor, TupleInIndex
    <3>2. \A q \in Requests : pc'[q] = "inserted" => q = r \/ pc[q] = "inserted"
      BY <1>2 DEF TypeOK
    <3>3. \A q, x \in Requests : Conflict(q, x)' <=> Conflict(q, x)
      BY <1>2 DEF Conflict
    <3>4. \A q \in Requests : BlockedBy(q)' = BlockedBy(q)
      BY <1>2 DEF BlockedBy, Occupying, Conflict, rowVars
    <3>5. QED BY <1>2, <3>1, <3>2, <3>3, <3>4 DEF PassedInsertsAreClear
  <2>6. QED BY <2>2, <2>3, <2>4, <2>5
<1>3. QED BY <1>1, <1>2 DEF Arbitrate, Reply

\* The commit publishes the new booking and frees the swept holds in one step:
\* what it adds was clear of everything that stays.
LEMMA CommitProtocol ==
  ASSUME WriteProtocol, TypeOK', NEW r \in Requests, Commit(r)
  PROVE  WriteProtocol'
<1> USE DEF WriteProtocol
<1>1. /\ pc[r] = "inserted" /\ status[r] = "none"
      /\ BlockedBy(r) = {} /\ unitState[req[r].unit] # "gone"
  BY DEF Commit, RowsAppearAtCommit, PassedInsertsAreClear
<1>2. /\ \A q \in Requests \ {r} : /\ swept'[q] = swept[q] /\ pc'[q] = pc[q]
                                   /\ start'[q] = start[q] /\ hold'[q] = hold[q]
      /\ swept'[r] = {} /\ pc'[r] = "done" /\ start'[r] = 0
      /\ UNCHANGED <<clock, unitState, req>>
  BY DEF TypeOK, Commit
<1>3. \A b \in Requests \ {r} :
        status'[b] = IF b \in swept[r] THEN "expired" ELSE status[b]
  BY DEF Commit
<1>4. \A a, b \in Requests : Conflict(a, b)' <=> Conflict(a, b)
  BY <1>2 DEF Conflict
<1>5. \A b \in Requests \ {r} : Occupying(b)' => Occupying(b) /\ b \notin swept[r]
  BY <1>3 DEF Occupying, OCCUPYING_STATUSES
<1>6. StaysAreNonempty'
  BY <1>2 DEF StaysAreNonempty
<1>7. LocksAreExclusive'
  <2>1. \A q \in Requests \ {r} : r \notin swept[q] /\ swept[q] \cap swept[r] = {}
    BY <1>1 DEF LocksAreExclusive
  <2>2. \A q \in Requests \ {r} : InTransaction(q)' <=> InTransaction(q)
    BY <1>2 DEF InTransaction
  <2>3. \A q \in Requests \ {r} : \A b \in swept[q] :
          status'[b] = status[b] /\ hold'[b] = hold[b]
    BY <1>2, <1>3, <2>1 DEF TypeOK
  <2>4. QED BY <1>2, <2>2, <2>3 DEF LocksAreExclusive
<1>8. RowsAppearAtCommit'
  <2>1. \A q \in Requests \ {r} : pc[q] # "done" => status'[q] = "none"
    BY <1>3 DEF RowsAppearAtCommit, LocksAreExclusive
  <2>2. clock \in Nat
    BY DEF TypeOK
  <2>3. QED BY <1>2, <2>1, <2>2 DEF RowsAppearAtCommit
<1>9. PassedInsertsAreClear'
  <2> SUFFICES ASSUME NEW q \in Requests, pc'[q] = "inserted"
               PROVE  /\ BlockedBy(q)' = {}
                      /\ \A x \in Requests \ {q} : pc'[x] = "inserted" => ~Conflict(q, x)'
                      /\ unitState'[req'[q].unit] # "gone"
    BY DEF PassedInsertsAreClear
  <2>1. q # r /\ pc[q] = "inserted" /\ BlockedBy(q) = {} /\ ~Conflict(q, r)
    BY <1>1, <1>2 DEF PassedInsertsAreClear
  <2>2. \A b \in Requests : Occupying(b)' /\ Conflict(q, b)' => b \in swept'[q]
    BY <1>2, <1>4, <1>5, <2>1 DEF BlockedBy
  <2>3. BlockedBy(q)' = {}
    BY <2>2 DEF BlockedBy
  <2>4. QED BY <1>2, <1>4, <2>1, <2>3 DEF PassedInsertsAreClear
<1>10. OccupyingRowsAreClear'
  <2>1. \A b \in Requests \ {r} : Occupying(b)' => ~Conflict(r, b) /\ ~Conflict(b, r)
    BY <1>1, <1>5, ConflictIsSymmetric DEF BlockedBy
  <2>2. QED BY <1>4, <1>5, <2>1 DEF OccupyingRowsAreClear
<1>11. LedgerKeepsItsUnit'
  <2>1. \A b \in Requests \ {r} : status'[b] # "none" => status[b] # "none"
    BY <1>3 DEF LocksAreExclusive
  <2>2. QED BY <1>1, <1>2, <2>1 DEF LedgerKeepsItsUnit
<1>12. QED BY <1>6, <1>7, <1>8, <1>9, <1>10, <1>11

\* A step that only changes rows no transaction has locked, makes no booking
\* occupy that did not, and creates or removes no row, keeps the protocol:
\* a cancel, a settlement and the cron sweep are such steps.
LEMMA RowUpdateProtocol ==
  ASSUME WriteProtocol, TypeOK',
         UNCHANGED <<clock, unitState, requestVars, hold>>,
         NEW rows \in SUBSET Requests,
         \A b \in rows : ~Locked(b) /\ Occupying(b) /\ status'[b] # "none",
         \A b \in Requests \ rows : status'[b] = status[b]
  PROVE  WriteProtocol'
<1> USE DEF WriteProtocol
<1>1. \A b \in Requests : /\ Occupying(b)' => Occupying(b)
                          /\ status'[b] # "none" <=> status[b] # "none"
  BY DEF Occupying, OCCUPYING_STATUSES
<1>2. \A a, b \in Requests : Conflict(a, b)' <=> Conflict(a, b)
  BY DEF Conflict, requestVars
<1>3. StaysAreNonempty' /\ RowsAppearAtCommit' /\ LedgerKeepsItsUnit'
  BY <1>1 DEF StaysAreNonempty, RowsAppearAtCommit, LedgerKeepsItsUnit, requestVars
<1>4. OccupyingRowsAreClear'
  BY <1>1, <1>2 DEF OccupyingRowsAreClear
<1>5. LocksAreExclusive'
  <2>1. \A r \in Requests : \A b \in swept[r] : status'[b] = status[b]
    BY DEF Locked, TypeOK
  <2>2. QED BY <2>1 DEF LocksAreExclusive, InTransaction, requestVars
<1>6. PassedInsertsAreClear'
  <2>1. \A q \in Requests : BlockedBy(q)' \subseteq BlockedBy(q)
    BY <1>1, <1>2 DEF BlockedBy, requestVars
  <2>2. QED BY <1>2, <2>1 DEF PassedInsertsAreClear, requestVars
<1>7. QED BY <1>3, <1>4, <1>5, <1>6

\* The archive flag, the guarded delete and the clock leave every row and every
\* transaction alone; the delete needs the unit free of both.
LEMMA UnitStepProtocol ==
  ASSUME WriteProtocol, TypeOK', UNCHANGED <<req, pc, start, swept, reply, rowVars>>,
         clock' >= clock,
         \A u \in Units : unitState'[u] = "gone" =>
           \/ unitState[u] = "gone"
           \/ /\ \A r \in Requests : pc[r] = "inserted" => req[r].unit # u
              /\ BookingsOf(u) = {}
  PROVE  WriteProtocol'
<1> USE DEF WriteProtocol
<1>1. \A r \in Requests : req[r].unit \in Units
  BY DEF TypeOK, Request
<1>2. StaysAreNonempty' /\ LocksAreExclusive' /\ OccupyingRowsAreClear'
  BY DEF StaysAreNonempty, LocksAreExclusive, OccupyingRowsAreClear, Occupying, Conflict,
         InTransaction, rowVars
<1>3. RowsAppearAtCommit'
  BY DEF RowsAppearAtCommit, rowVars, TypeOK
<1>4. PassedInsertsAreClear'
  BY <1>1 DEF PassedInsertsAreClear, BlockedBy, Occupying, Conflict, rowVars
<1>5. LedgerKeepsItsUnit'
  BY <1>1 DEF LedgerKeepsItsUnit, BookingsOf, rowVars
<1>6. QED BY <1>2, <1>3, <1>4, <1>5

-----------------------------------------------------------------------------
\* The protocol holds of an empty ledger.
LEMMA ProtocolInit ==
  ASSUME Init
  PROVE  WriteProtocol
<1> USE BookingsAssumption DEF Init
<1>1. TypeOK
  BY DEF TypeOK, UnitState, Pc
<1>2. StaysAreNonempty /\ LocksAreExclusive /\ RowsAppearAtCommit
  BY DEF StaysAreNonempty, LocksAreExclusive, RowsAppearAtCommit
<1>3. PassedInsertsAreClear /\ OccupyingRowsAreClear /\ LedgerKeepsItsUnit
  BY DEF PassedInsertsAreClear, OccupyingRowsAreClear, LedgerKeepsItsUnit, Occupying,
         OCCUPYING_STATUSES
<1>4. QED BY <1>1, <1>2, <1>3 DEF WriteProtocol

\* Every step of the write path keeps the protocol.
LEMMA ProtocolStep ==
  ASSUME WriteProtocol, [Next]_vars
  PROVE  WriteProtocol'
<1>1. TypeOK /\ TypeOK'
  BY TypeStep DEF WriteProtocol
<1>2. CASE UNCHANGED vars
  BY <1>1, <1>2, UnitStepProtocol DEF vars, requestVars, rowVars, TypeOK
<1>3. ASSUME NEW r \in Requests, Enter(r) PROVE WriteProtocol'
  BY <1>1, <1>3, EnterProtocol
<1>4. ASSUME NEW r \in Requests, SweepUnit(r) PROVE WriteProtocol'
  BY <1>1, <1>4, SweepUnitProtocol
<1>5. ASSUME NEW r \in Requests, ReadUnit(r) PROVE WriteProtocol'
  <2>1. InTransaction(r)
    BY <1>5 DEF ReadUnit, InTransaction
  <2>2. CASE \E why \in SUBSET Reply : Refuse(r, why)
    BY <2>2, RefuseProtocol
  <2>3. CASE /\ pc' = [pc EXCEPT ![r] = "priced"]
             /\ UNCHANGED <<clock, unitState, req, start, swept, reply, sawActive, rowVars>>
    BY <2>1, <2>3, AdvanceProtocol
  <2>4. QED BY <1>5, <2>2, <2>3 DEF ReadUnit, Reply
<1>6. ASSUME NEW r \in Requests, Recheck(r) PROVE WriteProtocol'
  <2>1. InTransaction(r)
    BY <1>6 DEF Recheck, InTransaction
  <2>2. CASE \E why \in SUBSET Reply : Refuse(r, why)
    BY <2>2, RefuseProtocol
  <2>3. CASE /\ pc' = [pc EXCEPT ![r] = "checked"]
             /\ UNCHANGED <<clock, unitState, req, start, swept, reply, sawActive, rowVars>>
    BY <2>1, <2>3, AdvanceProtocol
  <2>4. {"not_found"} \in SUBSET Reply
    BY DEF Reply
  <2>5. QED BY <1>6, <2>2, <2>3, <2>4, ReasonsType DEF Recheck
<1>7. ASSUME NEW r \in Requests, InsertTuple(r) PROVE WriteProtocol'
  BY <1>7, AdvanceProtocol DEF InsertTuple, InTransaction
<1>8. ASSUME NEW r \in Requests, Arbitrate(r) PROVE WriteProtocol'
  BY <1>1, <1>8, ArbitrateProtocol
<1>9. ASSUME NEW r \in Requests, DeadlockVictim(r) PROVE WriteProtocol'
  BY <1>9, RefuseProtocol DEF DeadlockVictim, Reply
<1>10. ASSUME NEW r \in Requests, Commit(r) PROVE WriteProtocol'
  BY <1>1, <1>10, CommitProtocol
<1>11. ASSUME NEW b \in Requests, CancelById(b) \/ ConfirmPaid(b) PROVE WriteProtocol'
  <2>1. \A x \in {b} : ~Locked(x) /\ Occupying(x) /\ status'[x] # "none"
    BY <1>1, <1>11 DEF CancelById, ConfirmPaid, Occupying, OCCUPYING_STATUSES, TypeOK
  <2>2. /\ \A x \in Requests \ {b} : status'[x] = status[x]
        /\ UNCHANGED <<clock, unitState, requestVars, hold>>
    BY <1>1, <1>11 DEF CancelById, ConfirmPaid, TypeOK
  <2>3. {b} \in SUBSET Requests
    OBVIOUS
  <2>4. QED BY <1>1, <2>1, <2>2, <2>3, RowUpdateProtocol
<1>12. CASE SweepExpiredHolds
  <2>1. LapsedNow \in SUBSET Requests
    BY DEF LapsedNow, LapsedHolds
  <2>2. \A x \in LapsedNow : ~Locked(x) /\ Occupying(x) /\ status'[x] # "none"
    BY <1>12, <2>1 DEF SweepExpiredHolds, LapsedNow, LapsedHolds, Occupying,
                       OCCUPYING_STATUSES
  <2>3. /\ \A x \in Requests \ LapsedNow : status'[x] = status[x]
        /\ UNCHANGED <<clock, unitState, requestVars, hold>>
    BY <1>12 DEF SweepExpiredHolds
  <2>4. QED BY <1>1, <2>1, <2>2, <2>3, RowUpdateProtocol
<1>13. ASSUME NEW u \in Units, Archive(u) \/ Unarchive(u) \/ RemoveUnit(u)
       PROVE  WriteProtocol'
  <2>1. /\ UNCHANGED <<req, pc, start, swept, reply, rowVars>>
        /\ clock' >= clock
    BY <1>1, <1>13 DEF Archive, Unarchive, RemoveUnit, requestVars, TypeOK
  <2>2. \A v \in Units : unitState'[v] = "gone" =>
          \/ unitState[v] = "gone"
          \/ /\ \A r \in Requests : pc[r] = "inserted" => req[r].unit # v
             /\ BookingsOf(v) = {}
    BY <1>1, <1>13 DEF Archive, Unarchive, RemoveUnit, TypeOK
  <2>3. QED BY <1>1, <2>1, <2>2, UnitStepProtocol
<1>14. CASE Tick
  BY <1>1, <1>14, UnitStepProtocol DEF Tick, requestVars, TypeOK
<1>15. QED
  BY <1>2, <1>3, <1>4, <1>5, <1>6, <1>7, <1>8, <1>9, <1>10, <1>11, <1>12, <1>13, <1>14,
     BookingsAssumption DEF Next, Step

-----------------------------------------------------------------------------
\* The protocol between concurrent create transactions, sweeps, cancels,
\* settlements and unit deletes is never broken.
THEOREM ProtocolHolds == Spec => []WriteProtocol
<1>1. Init => WriteProtocol
  BY ProtocolInit
<1>2. WriteProtocol /\ [Next]_vars => WriteProtocol'
  BY ProtocolStep
<1>3. QED BY <1>1, <1>2, PTL DEF Spec

\* Every variable keeps its type.
THEOREM TypeCorrect == Spec => []TypeOK
<1>1. WriteProtocol => TypeOK
  BY DEF WriteProtocol
<1>2. QED BY <1>1, ProtocolHolds, PTL

\* However many requests race for however many nights, no night of a unit is
\* occupied by two committed bookings.
THEOREM CalendarIsSafe == Spec => []NoDoubleBooking
<1>1. WriteProtocol => NoDoubleBooking
  <2> SUFFICES ASSUME WriteProtocol, NEW a \in Requests, NEW b \in Requests,
                      a # b, Occupying(a), Occupying(b)
               PROVE  ~ShareANight(a, b)
    BY DEF NoDoubleBooking
  <2>1. ~Conflict(a, b)
    BY DEF WriteProtocol, OccupyingRowsAreClear
  <2>2. QED BY <2>1, ConflictIsASharedNight DEF WriteProtocol
<1>2. QED BY <1>1, ProtocolHolds, PTL

\* No committed booking ever loses its unit to a delete.
THEOREM LedgerIsSafe == Spec => []LedgerKeepsItsUnit
<1>1. WriteProtocol => LedgerKeepsItsUnit
  BY DEF WriteProtocol
<1>2. QED BY <1>1, ProtocolHolds, PTL

\* The steps that change a row: what each may do to a booking's status.
LEMMA RowSteps ==
  ASSUME WriteProtocol, [Next]_vars, NEW b \in Requests, status'[b] # status[b]
  PROVE  \/ status[b] = "none"
         \/ status[b] = "pending_payment" /\ status'[b] = "confirmed"
         \/ status[b] \in OCCUPYING_STATUSES /\ status'[b] = "cancelled"
         \/ status[b] = "pending_payment" /\ status'[b] = "expired" /\ hold[b] < clock
<1> USE DEF WriteProtocol
<1>1. CASE status' = status
  BY <1>1
<1>2. ASSUME NEW r \in Requests, Commit(r)
      PROVE  \/ status[b] = "none"
             \/ status[b] = "pending_payment" /\ status'[b] = "expired" /\ hold[b] < clock
  <2>1. CASE b = r
    BY <1>2, <2>1 DEF Commit, RowsAppearAtCommit
  <2>2. CASE b # r
    <3>1. b \in swept[r] /\ status'[b] = "expired"
      BY <1>2, <2>2 DEF Commit
    <3>2. status[b] = "pending_payment" /\ hold[b] < start[r] /\ start[r] <= clock
      BY <3>1 DEF LocksAreExclusive, RowsAppearAtCommit
    <3>3. hold[b] \in Int /\ start[r] \in Int /\ clock \in Int
      BY DEF TypeOK
    <3>4. QED BY <3>1, <3>2, <3>3
  <2>3. QED BY <2>1, <2>2
<1>3. ASSUME NEW x \in Requests, CancelById(x)
      PROVE  status[b] \in OCCUPYING_STATUSES /\ status'[b] = "cancelled"
  BY <1>3 DEF CancelById, Occupying, TypeOK
<1>4. ASSUME NEW x \in Requests, ConfirmPaid(x)
      PROVE  status[b] = "pending_payment" /\ status'[b] = "confirmed"
  BY <1>4 DEF ConfirmPaid, TypeOK
<1>5. CASE SweepExpiredHolds
  BY <1>5 DEF SweepExpiredHolds, LapsedNow, LapsedHolds
<1>6. QED
  <2>1. \/ UNCHANGED vars \/ SweepExpiredHolds \/ Tick
        \/ \E r \in Requests : \/ Enter(r) \/ Step(r) \/ CancelById(r) \/ ConfirmPaid(r)
        \/ \E u \in Units : Archive(u) \/ Unarchive(u) \/ RemoveUnit(u)
    BY BookingsAssumption DEF Next
  <2>2. ASSUME NEW r \in Requests, Enter(r) \/ (Step(r) /\ ~Commit(r)) PROVE status' = status
    BY <2>2 DEF Step, Enter, SweepUnit, ReadUnit, Recheck, InsertTuple, Arbitrate,
                DeadlockVictim, Refuse, rowVars
  <2>3. ASSUME NEW u \in Units, Archive(u) \/ Unarchive(u) \/ RemoveUnit(u)
        PROVE  status' = status
    BY <2>3 DEF Archive, Unarchive, RemoveUnit, rowVars
  <2>4. CASE UNCHANGED vars \/ Tick
    BY <2>4 DEF Tick, vars, rowVars
  <2>5. QED BY <1>1, <1>2, <1>3, <1>4, <1>5, <2>1, <2>2, <2>3, <2>4

\* The booking FSM never goes back, whichever of the sweeps, the cancel and a
\* late settlement comes last.
THEOREM FsmIsOneWay == Spec => DeadBookingsStayDead
<1>1. WriteProtocol /\ [Next]_vars =>
        [\A b \in Requests :
           /\ status[b] \in {"cancelled", "expired"} => status'[b] = status[b]
           /\ status[b] = "confirmed" => status'[b] \in {"confirmed", "cancelled"}]_vars
  BY RowSteps DEF OCCUPYING_STATUSES
<1>2. QED BY <1>1, ProtocolHolds, PTL DEF Spec, DeadBookingsStayDead

\* No sweep, cron or opportunistic, takes a hold whose TTL is not over.
THEOREM HoldsAreHonoured == Spec => HoldsKeepTheirTtl
<1>1. WriteProtocol /\ [Next]_vars =>
        [\A b \in Requests :
           status[b] = "pending_payment" /\ status'[b] = "expired" => hold[b] < clock]_vars
  BY RowSteps
<1>2. QED BY <1>1, ProtocolHolds, PTL DEF Spec, HoldsKeepTheirTtl

-----------------------------------------------------------------------------
(* Refusals and sales.                                                      *)

\* A request in its transaction remembers that its unit was on sale, and has read an
\* active unit before it prices; only a finished request has its answer.
OnSaleWhileItRan ==
  \A r \in Requests :
    /\ InTransaction(r) /\ unitState[req[r].unit] = "active" => sawActive[r]
    /\ pc[r] \in {"priced", "checked", "inserting", "inserted"} => sawActive[r]
    /\ reply[r] # {} => pc[r] = "done"
    /\ "created" \in reply[r] => sawActive[r]

LEMMA OnSaleStep ==
  ASSUME TypeOK, OnSaleWhileItRan, [Next]_vars
  PROVE  OnSaleWhileItRan'
<1> USE DEF OnSaleWhileItRan
<1>1. CASE UNCHANGED vars
  BY <1>1 DEF InTransaction, vars, requestVars
<1>2. ASSUME NEW r \in Requests, NEW why \in SUBSET Reply, "created" \notin why, Refuse(r, why)
      PROVE  OnSaleWhileItRan'
  BY <1>2 DEF TypeOK, Refuse, InTransaction
<1>3. ASSUME NEW r \in Requests, Enter(r) PROVE OnSaleWhileItRan'
  <2>1. CASE Refuse(r, {"not_found"}) \/ Refuse(r, {"payments_not_configured"})
    BY <1>2, <2>1 DEF Reply
  <2>2. CASE /\ pc' = [pc EXCEPT ![r] = "begun"]
             /\ sawActive' = [sawActive EXCEPT ![r] = (unitState[req[r].unit] = "active")]
             /\ UNCHANGED <<unitState, req, reply>>
    <3>1. reply[r] = {}
      BY <1>3 DEF Enter
    <3>2. sawActive'[r] <=> unitState[req[r].unit] = "active"
      BY <2>2 DEF TypeOK
    <3>3. \A q \in Requests \ {r} : sawActive'[q] = sawActive[q] /\ pc'[q] = pc[q]
      BY <2>2 DEF TypeOK
    <3>4. pc'[r] = "begun"
      BY <2>2 DEF TypeOK
    <3>5. QED BY <2>2, <3>1, <3>2, <3>3, <3>4 DEF InTransaction
  <2>3. QED BY <1>3, <2>1, <2>2 DEF Enter
<1>4. ASSUME NEW r \in Requests, NEW next \in {"swept", "priced", "checked", "inserting", "inserted"},
             InTransaction(r), next # "swept" => sawActive[r],
             pc' = [pc EXCEPT ![r] = next],
             UNCHANGED <<unitState, req, reply, sawActive>>
      PROVE  OnSaleWhileItRan'
  BY <1>4 DEF TypeOK, InTransaction
<1>5. ASSUME NEW r \in Requests, SweepUnit(r) PROVE OnSaleWhileItRan'
  BY <1>4, <1>5 DEF SweepUnit, InTransaction
<1>6. ASSUME NEW r \in Requests, ReadUnit(r) PROVE OnSaleWhileItRan'
  <2>1. CASE \E why \in SUBSET (Reply \ {"created"}) : Refuse(r, why)
    BY <1>2, <2>1
  <2>2. CASE unitState[req[r].unit] = "active" /\ pc' = [pc EXCEPT ![r] = "priced"]
             /\ UNCHANGED <<unitState, req, reply, sawActive>>
    <3>1. InTransaction(r)
      BY <1>6 DEF ReadUnit, InTransaction
    <3>2. QED BY <1>4, <2>2, <3>1
  <2>3. QED BY <1>6, <2>1, <2>2 DEF ReadUnit, Reply
<1>7. ASSUME NEW r \in Requests, Recheck(r) PROVE OnSaleWhileItRan'
  <2>1. InTransaction(r) /\ sawActive[r]
    BY <1>7 DEF Recheck, InTransaction
  <2>2. CASE Refuse(r, {"not_found"})
    BY <1>2, <2>2 DEF Reply
  <2>3. CASE Refuse(r, Reasons(r))
    <3>1. "created" \notin Reasons(r)
      BY DEF Reasons
    <3>2. QED BY <1>2, <2>3, <3>1, ReasonsType
  <2>4. CASE pc' = [pc EXCEPT ![r] = "checked"] /\ UNCHANGED <<unitState, req, reply, sawActive>>
    BY <1>4, <2>1, <2>4
  <2>5. QED BY <1>7, <2>2, <2>3, <2>4 DEF Recheck
<1>8. ASSUME NEW r \in Requests, InsertTuple(r) PROVE OnSaleWhileItRan'
  BY <1>4, <1>8 DEF InsertTuple, InTransaction
<1>9. ASSUME NEW r \in Requests, Arbitrate(r) PROVE OnSaleWhileItRan'
  <2>1. InTransaction(r) /\ sawActive[r]
    BY <1>9 DEF Arbitrate, InTransaction
  <2>2. CASE Refuse(r, {"overlap"}) \/ Refuse(r, {"server_error"})
    BY <1>2, <2>2 DEF Reply
  <2>3. CASE pc' = [pc EXCEPT ![r] = "inserted"] /\ UNCHANGED <<unitState, req, reply, sawActive>>
    BY <1>4, <2>1, <2>3
  <2>4. QED BY <1>9, <2>2, <2>3 DEF Arbitrate
<1>10. ASSUME NEW r \in Requests, DeadlockVictim(r) PROVE OnSaleWhileItRan'
  BY <1>2, <1>10 DEF DeadlockVictim, Reply
<1>11. ASSUME NEW r \in Requests, Commit(r) PROVE OnSaleWhileItRan'
  <2>1. sawActive[r] /\ pc'[r] = "done" /\ UNCHANGED <<unitState, req, sawActive>>
    BY <1>11 DEF TypeOK, Commit
  <2>2. \A q \in Requests \ {r} : pc'[q] = pc[q] /\ reply'[q] = reply[q]
    BY <1>11 DEF TypeOK, Commit
  <2>3. QED BY <2>1, <2>2 DEF InTransaction
<1>12. ASSUME NEW u \in Units, Unarchive(u) PROVE OnSaleWhileItRan'
  <2>1. /\ UNCHANGED <<req, pc, reply>>
        /\ \A v \in Units : unitState'[v] = IF v = u THEN "active" ELSE unitState[v]
    BY <1>12 DEF TypeOK, Unarchive
  <2>2. \A r \in Requests :
          /\ req[r].unit \in Units
          /\ sawActive'[r] <=> sawActive[r] \/ (InTransaction(r) /\ req[r].unit = u)
    BY <1>12 DEF TypeOK, Unarchive, Request
  <2>3. QED BY <2>1, <2>2 DEF InTransaction
<1>13. ASSUME NEW u \in Units, Archive(u) \/ RemoveUnit(u) PROVE OnSaleWhileItRan'
  BY <1>13 DEF TypeOK, Archive, RemoveUnit, InTransaction, requestVars, Request
<1>14. ASSUME UNCHANGED <<unitState, requestVars>> PROVE OnSaleWhileItRan'
  BY <1>14 DEF InTransaction, requestVars
<1>15. \A b \in Requests : CancelById(b) \/ ConfirmPaid(b) => UNCHANGED <<unitState, requestVars>>
  BY DEF CancelById, ConfirmPaid
<1>16. SweepExpiredHolds \/ Tick => UNCHANGED <<unitState, requestVars>>
  BY DEF SweepExpiredHolds, Tick
<1>17. QED
  BY <1>1, <1>3, <1>5, <1>6, <1>7, <1>8, <1>9, <1>10, <1>11, <1>12, <1>13, <1>14, <1>15,
     <1>16, BookingsAssumption DEF Next, Step

\* ADR-0005: archive honours a booking in flight and refuses every later one; also when it
\* comes between two statements of the request.
THEOREM ArchiveIsHonoured == Spec => []ArchivedUnitTakesNoNewSale
<1>1. Init => OnSaleWhileItRan
  BY DEF Init, OnSaleWhileItRan, InTransaction
<1>2. WriteProtocol /\ OnSaleWhileItRan /\ [Next]_vars => OnSaleWhileItRan'
  BY OnSaleStep DEF WriteProtocol
<1>3. OnSaleWhileItRan => ArchivedUnitTakesNoNewSale
  BY DEF OnSaleWhileItRan, ArchivedUnitTakesNoNewSale
<1>4. QED BY <1>1, <1>2, <1>3, ProtocolHolds, PTL DEF Spec

\* A transaction is open for no longer than TxnLimit, and once it has swept its unit it
\* has every hold of the unit that had lapsed as it started.
SweepsAreThorough ==
  \A r \in Requests :
    /\ InTransaction(r) => clock <= start[r] + TxnLimit
    /\ InTransaction(r) /\ pc[r] # "begun" =>
         LapsedHolds(req[r].unit, start[r]) \subseteq swept[r]

\* A statement moves one request on; the other steps leave the requests alone.
LEMMA WhoSteps ==
  ASSUME [Next]_vars
  PROVE  \/ \E r \in Requests : Enter(r) \/ Step(r)
         \/ UNCHANGED <<req, pc, start, swept>>
BY BookingsAssumption
   DEF Next, vars, requestVars, CancelById, ConfirmPaid, Archive, Unarchive, RemoveUnit,
       SweepExpiredHolds, Tick

\* What a statement makes of the requests' transactions.
LEMMA StatementSteps ==
  ASSUME TypeOK, NEW r \in Requests, Enter(r) \/ Step(r)
  PROVE  /\ \A q \in Requests \ {r} :
              pc'[q] = pc[q] /\ start'[q] = start[q] /\ swept'[q] = swept[q]
         /\ UNCHANGED <<clock, req>>
         /\ \/ pc'[r] = "done"
            \/ pc'[r] = "begun" /\ start'[r] = clock
            \/ SweepUnit(r)
            \/ InTransaction(r) /\ pc[r] # "begun" /\ start'[r] = start[r] /\ swept'[r] = swept[r]
<1> DEFINE Goal ==
      /\ \A q \in Requests \ {r} :
           pc'[q] = pc[q] /\ start'[q] = start[q] /\ swept'[q] = swept[q]
      /\ UNCHANGED <<clock, req>>
      /\ \/ pc'[r] = "done"
         \/ pc'[r] = "begun" /\ start'[r] = clock
         \/ SweepUnit(r)
         \/ InTransaction(r) /\ pc[r] # "begun" /\ start'[r] = start[r] /\ swept'[r] = swept[r]
<1>1. ASSUME NEW why, Refuse(r, why) PROVE Goal
  BY <1>1 DEF TypeOK, Refuse
<1>2. CASE Enter(r)
  <2>1. CASE \E why : Refuse(r, why)
    BY <1>1, <2>1
  <2>2. CASE /\ pc' = [pc EXCEPT ![r] = "begun"] /\ start' = [start EXCEPT ![r] = clock]
             /\ UNCHANGED <<clock, req, swept>>
    BY <2>2 DEF TypeOK
  <2>3. QED BY <1>2, <2>1, <2>2 DEF Enter
<1>3. CASE SweepUnit(r)
  BY <1>3 DEF TypeOK, SweepUnit
<1>4. ASSUME NEW next, pc' = [pc EXCEPT ![r] = next], InTransaction(r), pc[r] # "begun",
             UNCHANGED <<clock, req, start, swept>>
      PROVE  Goal
  BY <1>4 DEF TypeOK
<1>5. CASE ReadUnit(r)
  <2>1. InTransaction(r) /\ pc[r] # "begun"
    BY <1>5 DEF ReadUnit, InTransaction
  <2>2. QED BY <1>1, <1>4, <1>5, <2>1 DEF ReadUnit
<1>6. CASE Recheck(r)
  <2>1. InTransaction(r) /\ pc[r] # "begun"
    BY <1>6 DEF Recheck, InTransaction
  <2>2. QED BY <1>1, <1>4, <1>6, <2>1 DEF Recheck
<1>7. CASE InsertTuple(r)
  BY <1>4, <1>7 DEF InsertTuple, InTransaction
<1>8. CASE Arbitrate(r)
  <2>1. InTransaction(r) /\ pc[r] # "begun"
    BY <1>8 DEF Arbitrate, InTransaction
  <2>2. QED BY <1>1, <1>4, <1>8, <2>1 DEF Arbitrate
<1>9. CASE DeadlockVictim(r)
  BY <1>1, <1>9 DEF DeadlockVictim
<1>10. CASE Commit(r)
  BY <1>10 DEF TypeOK, Commit
<1>11. QED BY <1>2, <1>3, <1>5, <1>6, <1>7, <1>8, <1>9, <1>10 DEF Step

\* A hold is born with its whole TTL, at a commit; else its expiry never changes.
LEMMA HoldSteps ==
  ASSUME WriteProtocol, [Next]_vars, NEW b \in Requests, status'[b] = "pending_payment"
  PROVE  \/ status[b] = "pending_payment" /\ hold'[b] = hold[b]
         \/ InTransaction(b) /\ hold'[b] = start[b] + HoldTtl
<1> USE DEF WriteProtocol
<1>1. ASSUME NEW r \in Requests, Commit(r)
      PROVE  \/ status[b] = "pending_payment" /\ hold'[b] = hold[b]
             \/ InTransaction(b) /\ hold'[b] = start[b] + HoldTtl
  <2>1. CASE b = r
    BY <1>1, <2>1 DEF Commit, TypeOK, InTransaction
  <2>2. CASE b # r
    BY <1>1, <2>2 DEF Commit, TypeOK
  <2>3. QED BY <2>1, <2>2
<1>2. ASSUME NEW r \in Requests, Enter(r) \/ (Step(r) /\ ~Commit(r))
      PROVE  status' = status /\ hold' = hold
  BY <1>2 DEF Step, Enter, SweepUnit, ReadUnit, Recheck, InsertTuple, Arbitrate,
              DeadlockVictim, Refuse, rowVars
<1>3. ASSUME NEW u \in Units, Archive(u) \/ Unarchive(u) \/ RemoveUnit(u)
      PROVE  status' = status /\ hold' = hold
  BY <1>3 DEF Archive, Unarchive, RemoveUnit, rowVars
<1>4. ASSUME NEW x \in Requests, CancelById(x) \/ ConfirmPaid(x)
      PROVE  status[b] = "pending_payment" /\ hold'[b] = hold[b]
  BY <1>4 DEF CancelById, ConfirmPaid, TypeOK
<1>5. SweepExpiredHolds => status[b] = "pending_payment" /\ hold'[b] = hold[b]
  BY DEF SweepExpiredHolds
<1>6. UNCHANGED vars \/ Tick => status' = status /\ hold' = hold
  BY DEF Tick, vars, rowVars
<1>7. QED BY <1>1, <1>2, <1>3, <1>4, <1>5, <1>6, BookingsAssumption DEF Next

LEMMA ThoroughStep ==
  ASSUME TxnLimit <= HoldTtl, WriteProtocol, SweepsAreThorough, [Next]_vars
  PROVE  SweepsAreThorough'
<1> USE DEF WriteProtocol
<1>1. TypeOK /\ TypeOK'
  BY TypeStep
<1>2. ASSUME NEW r \in Requests
      PROVE  /\ InTransaction(r)' => clock' <= start'[r] + TxnLimit
             /\ InTransaction(r)' /\ pc'[r] # "begun" =>
                  LapsedHolds(req[r].unit, start[r])' \subseteq swept'[r]
  <2>1. /\ clock \in Nat /\ start[r] \in Nat /\ TxnLimit \in Nat /\ HoldTtl \in Nat
        /\ clock' \in Nat /\ start'[r] \in Nat /\ start[r] <= clock /\ req' = req
    <3>1. req' = req
      BY <1>1, WhoSteps, StatementSteps
    <3>2. QED BY <1>1, <3>1, BookingsAssumption DEF TypeOK, RowsAppearAtCommit
  <2>2. \/ ~InTransaction(r)'
        \/ pc'[r] = "begun" /\ start'[r] = clock /\ clock' = clock
        \/ SweepUnit(r)
        \/ /\ InTransaction(r) /\ start'[r] = start[r] /\ swept'[r] = swept[r]
           /\ pc'[r] # "begun" => pc[r] # "begun"
    BY <1>1, WhoSteps, StatementSteps DEF InTransaction
  <2>3. InTransaction(r)' => clock' <= start'[r] + TxnLimit
    <3>1. CASE SweepUnit(r)
      <4>1. clock' = clock /\ start' = start /\ InTransaction(r)
        BY <3>1 DEF SweepUnit, InTransaction
      <4>2. QED BY <4>1 DEF SweepsAreThorough
    <3>2. CASE InTransaction(r) /\ start'[r] = start[r]
      <4>1. clock' = clock \/ (clock' = clock + 1 /\ clock < start[r] + TxnLimit)
        <5>1. CASE Tick
          BY <3>2, <5>1 DEF Tick
        <5>2. CASE ~Tick
          <6>1. clock' = clock
            <7>1. \A q \in Requests : Enter(q) \/ Step(q) => clock' = clock
              BY <1>1, StatementSteps
            <7>2. QED BY <5>2, <7>1
                      DEF Next, vars, CancelById, ConfirmPaid, Archive, Unarchive, RemoveUnit,
                          SweepExpiredHolds
          <6>2. QED BY <6>1
        <5>3. QED BY <5>1, <5>2
      <4>2. clock <= start[r] + TxnLimit
        BY <3>2 DEF SweepsAreThorough
      <4>3. QED BY <2>1, <3>2, <4>1, <4>2
    <3>3. CASE start'[r] = clock /\ clock' = clock
      BY <2>1, <3>3
    <3>4. QED BY <2>2, <3>1, <3>2, <3>3
  <2>4. ASSUME InTransaction(r)', pc'[r] # "begun"
        PROVE  LapsedHolds(req[r].unit, start[r])' \subseteq swept'[r]
    <3>1. CASE SweepUnit(r)
      BY <2>1, <3>1, <1>1 DEF SweepUnit, LapsedHolds, TypeOK, rowVars
    <3>2. CASE /\ InTransaction(r) /\ start'[r] = start[r] /\ swept'[r] = swept[r]
               /\ pc[r] # "begun"
      <4>1. SUFFICES ASSUME NEW b \in Requests, req[b].unit = req[r].unit,
                            status'[b] = "pending_payment", hold'[b] < start[r]
                     PROVE  b \in swept[r]
        BY <2>1, <3>2 DEF LapsedHolds
      <4>2. CASE status[b] = "pending_payment" /\ hold'[b] = hold[b]
        BY <3>2, <4>1, <4>2 DEF SweepsAreThorough, LapsedHolds
      <4>3. CASE InTransaction(b) /\ hold'[b] = start[b] + HoldTtl
        <5>1. clock <= start[b] + TxnLimit /\ start[b] \in Nat
          BY <1>1, <4>3 DEF SweepsAreThorough, TypeOK
        <5>2. QED BY <2>1, <4>1, <4>3, <5>1
      <4>4. QED BY <4>1, <4>2, <4>3, HoldSteps
    <3>3. QED BY <2>2, <2>4, <3>1, <3>2
  <2>5. QED BY <2>3, <2>4
<1>3. QED BY <1>2 DEF SweepsAreThorough

\* ADR-0009: a request that is refused for overlap met a booking of one of its nights that
\* had not lapsed as its transaction started; provided that no transaction is open for
\* longer than a hold lives.
THEOREM DeadHoldsBlockNobody ==
  ASSUME TxnLimit <= HoldTtl
  PROVE  Spec => OverlapIsNeverADeadHold
<1>1. Init => SweepsAreThorough
  BY DEF Init, SweepsAreThorough, InTransaction
<1>2. WriteProtocol /\ SweepsAreThorough /\ [Next]_vars => SweepsAreThorough'
  BY ThoroughStep
<1>3. WriteProtocol /\ SweepsAreThorough /\ [Next]_vars =>
        [\A r \in Requests :
           "overlap" \in reply'[r] \ reply[r] =>
             \E b \in Requests \ {r} :
               /\ Occupying(b) /\ ShareANight(r, b)
               /\ ~(status[b] = "pending_payment" /\ hold[b] < start[r])]_vars
  <2> USE DEF WriteProtocol
  <2>1. SUFFICES ASSUME WriteProtocol, SweepsAreThorough, Next, NEW r \in Requests,
                        "overlap" \in reply'[r] \ reply[r]
                 PROVE  \E b \in Requests \ {r} :
                          /\ Occupying(b) /\ ShareANight(r, b)
                          /\ ~(status[b] = "pending_payment" /\ hold[b] < start[r])
    OBVIOUS
  <2>2. ASSUME NEW q \in Requests, NEW why, Refuse(q, why) PROVE q = r /\ "overlap" \in why
    BY <2>1, <2>2 DEF TypeOK, Refuse
  <2>3. InTransaction(r) /\ pc[r] # "begun" /\ status[r] = "none" /\ BlockedBy(r) # {}
    <3>1. ASSUME NEW q \in Requests, Enter(q) PROVE FALSE
      BY <2>1, <2>2, <3>1 DEF Enter
    <3>2. ASSUME NEW q \in Requests, Recheck(q) PROVE q = r /\ BlockedBy(r) # {}
      BY <2>1, <2>2, <3>2 DEF Recheck, Reasons
    <3>3. ASSUME NEW q \in Requests, Arbitrate(q) PROVE q = r /\ BlockedBy(r) # {}
      BY <2>1, <2>2, <3>3 DEF Arbitrate
    <3>4. ASSUME NEW q \in Requests,
                 SweepUnit(q) \/ ReadUnit(q) \/ InsertTuple(q) \/ DeadlockVictim(q)
          PROVE  FALSE
      <4>1. CASE SweepUnit(q) \/ InsertTuple(q)
        BY <2>1, <4>1 DEF SweepUnit, InsertTuple
      <4>2. CASE ReadUnit(q)
        BY <2>1, <2>2, <4>2 DEF ReadUnit
      <4>3. CASE DeadlockVictim(q)
        BY <2>1, <2>2, <4>3 DEF DeadlockVictim
      <4>4. QED BY <3>4, <4>1, <4>2, <4>3
    <3>5. ASSUME NEW q \in Requests, Commit(q) PROVE FALSE
      BY <2>1, <3>5 DEF TypeOK, Commit
    <3>6. reply' # reply
      BY <2>1
    <3>7. \E q \in Requests : Recheck(q) \/ Arbitrate(q)
      BY <2>1, <3>1, <3>4, <3>5, <3>6, BookingsAssumption
         DEF Next, Step, CancelById, ConfirmPaid, Archive, Unarchive, RemoveUnit,
             SweepExpiredHolds, Tick, requestVars
    <3>8. (Recheck(r) \/ Arbitrate(r)) /\ BlockedBy(r) # {}
      BY <3>2, <3>3, <3>7
    <3>9. InTransaction(r) /\ pc[r] # "begun" /\ pc[r] # "done"
      BY <3>8 DEF Recheck, Arbitrate, InTransaction
    <3>10. QED BY <2>1, <3>8, <3>9 DEF RowsAppearAtCommit
  <2>4. PICK b \in Requests : Occupying(b) /\ Conflict(r, b) /\ b \notin swept[r]
    BY <2>3 DEF BlockedBy
  <2>5. b # r
    BY <2>3, <2>4 DEF Occupying, OCCUPYING_STATUSES
  <2>6. ShareANight(r, b) /\ req[b].unit = req[r].unit
    BY <2>1, <2>4, ConflictIsASharedNight DEF Conflict
  <2>7. ~(status[b] = "pending_payment" /\ hold[b] < start[r])
    BY <2>1, <2>3, <2>4, <2>6 DEF SweepsAreThorough, LapsedHolds
  <2>8. QED BY <2>4, <2>5, <2>6, <2>7
<1>4. QED BY <1>1, <1>2, <1>3, ProtocolHolds, PTL DEF Spec, OverlapIsNeverADeadHold

-----------------------------------------------------------------------------
(* The write path implements the calendar.                                  *)

NightSet == 0 .. (LastDay - 1)

\* Who has each night, and until when, as the calendar sees the committed rows.
Owner == [u \in Units |-> [n \in NightSet |-> OwnerOf(u, n)]]

Lease == [b \in Requests |-> IF status[b] = "pending_payment" THEN hold[b] ELSE -1]

\* A night belongs to the one booking that occupies it.
OwnersOccupy ==
  \A u \in Units, n \in NightSet :
    /\ OwnerOf(u, n) \in Requests \cup {Nobody}
    /\ \A b \in Requests :
         OwnerOf(u, n) = b <=> Occupying(b) /\ req[b].unit = u /\ n \in NightsOf(b)

LEMMA NightsHaveOneOwner == WriteProtocol => OwnersOccupy
<1> SUFFICES ASSUME WriteProtocol, NEW u \in Units, NEW n \in NightSet
             PROVE  /\ OwnerOf(u, n) \in Requests \cup {Nobody}
                    /\ \A b \in Requests :
                         OwnerOf(u, n) = b <=>
                           Occupying(b) /\ req[b].unit = u /\ n \in NightsOf(b)
  BY DEF OwnersOccupy
<1> DEFINE on == {b \in Requests : Occupying(b) /\ req[b].unit = u /\ n \in NightsOf(b)}
<1>1. OwnerOf(u, n) = IF on = {} THEN Nobody ELSE CHOOSE b \in on : TRUE
  BY DEF OwnerOf
<1>2. on # {} => OwnerOf(u, n) \in on
  BY <1>1
<1>3. \A a, b \in on : a = b
  <2>1. ASSUME NEW a \in on, NEW b \in on, a # b PROVE FALSE
    <3>1. ~Conflict(a, b)
      BY <2>1 DEF WriteProtocol, OccupyingRowsAreClear
    <3>2. ShareANight(a, b)
      BY <2>1 DEF ShareANight
    <3>3. QED BY <2>1, <3>1, <3>2, ConflictIsASharedNight DEF WriteProtocol
  <2>2. QED BY <2>1
<1>4. on = {} => OwnerOf(u, n) = Nobody
  BY <1>1
<1>5. QED BY <1>2, <1>3, <1>4, BookingsAssumption

\* A booking that occupies has a night.
LEMMA OccupyingOwns ==
  ASSUME WriteProtocol, NEW b \in Requests
  PROVE  /\ NightsOf(b) \subseteq NightSet /\ req[b].from \in NightsOf(b)
         /\ req[b].unit \in Units
         /\ req[b].from \in NightSet /\ req[b].to - 1 \in NightSet
         /\ req[b].from <= req[b].to - 1
         /\ Occupying(b) <=> \E u \in Units, n \in NightSet : Owner[u][n] = b
<1>1. /\ req[b].from \in 0 .. LastDay /\ req[b].to \in 0 .. LastDay /\ req[b].unit \in Units
      /\ req[b].from < req[b].to /\ LastDay \in Nat
  BY BookingsAssumption DEF WriteProtocol, TypeOK, StaysAreNonempty, Request, Day
<1>2. /\ NightsOf(b) \subseteq NightSet /\ req[b].from \in NightsOf(b)
      /\ req[b].from \in NightSet /\ req[b].to - 1 \in NightSet
      /\ req[b].from <= req[b].to - 1
  BY <1>1 DEF NightsOf, NightSet
<1>3. \A u \in Units, n \in NightSet : Owner[u][n] = OwnerOf(u, n)
  BY DEF Owner
<1>4. QED BY <1>1, <1>2, <1>3, NightsHaveOneOwner DEF OwnersOccupy

\* The rows that a sweep takes are owners whose lease is over.
LEMMA LapsedRowsAreLapsedOwners ==
  ASSUME WriteProtocol, NEW b \in Requests, status[b] = "pending_payment", hold[b] < clock
  PROVE  b \in Cal!LapsedOwners
<1>1. Occupying(b)
  BY DEF Occupying, OCCUPYING_STATUSES
<1>2. b \in Cal!Owners
  BY <1>1, OccupyingOwns DEF Cal!Owners, Cal!Owns, Owner, NightSet
<1>3. hold[b] \in Nat /\ Lease[b] = hold[b]
  BY DEF WriteProtocol, TypeOK, Lease
<1>4. Lease[b] # -1 /\ Lease[b] < clock
  BY <1>3
<1>5. QED BY <1>2, <1>4 DEF Cal!LapsedOwners, Cal!Firm, Lease

\* Bookings that stop to occupy give their nights, and nothing else, back.
LEMMA ReleaseStep ==
  ASSUME WriteProtocol, WriteProtocol', UNCHANGED <<clock, req>>,
         NEW gone \in SUBSET Requests, gone # {},
         \A b \in Requests :
           /\ Occupying(b)' <=> Occupying(b) /\ b \notin gone
           /\ Lease'[b] = IF b \in gone THEN -1 ELSE Lease[b]
  PROVE  Cal!Release(gone)
<1>1. OwnersOccupy /\ OwnersOccupy'
  BY NightsHaveOneOwner, PTL
<1>2. ASSUME NEW u \in Units, NEW n \in NightSet
      PROVE  OwnerOf(u, n)' = IF OwnerOf(u, n) \in gone THEN Nobody ELSE OwnerOf(u, n)
  <2>1. \A b \in Requests : NightsOf(b)' = NightsOf(b)
    BY DEF NightsOf
  <2>2. \A b \in Requests :
          OwnerOf(u, n) = b <=> Occupying(b) /\ req[b].unit = u /\ n \in NightsOf(b)
    BY <1>1 DEF OwnersOccupy
  <2>3. \A b \in Requests :
          OwnerOf(u, n)' = b <=> Occupying(b)' /\ req[b].unit = u /\ n \in NightsOf(b)
    BY <1>1, <2>1 DEF OwnersOccupy
  <2>4. OwnerOf(u, n) \in Requests \cup {Nobody} /\ OwnerOf(u, n)' \in Requests \cup {Nobody}
    BY <1>1 DEF OwnersOccupy
  <2>5. QED BY <2>2, <2>3, <2>4, BookingsAssumption
<1>3. Owner' = [u \in Units |-> [n \in NightSet |->
                   IF Owner[u][n] \in gone THEN Nobody ELSE Owner[u][n]]]
  BY <1>2 DEF Owner
<1>4. Lease' = [x \in Requests |-> IF x \in gone THEN -1 ELSE Lease[x]]
  BY DEF Lease
<1>5. QED BY <1>3, <1>4 DEF Cal!Release, Cal!Freed, Cal!Firm, Owner, Lease, NightSet

\* A commit takes the nights of its stay, and reclaims those of the holds it has swept.
LEMMA CommitTakes ==
  ASSUME WriteProtocol, WriteProtocol', NEW r \in Requests, Commit(r),
         NEW v \in Units, NEW a \in NightSet, NEW z \in NightSet,
         v = req[r].unit, a = req[r].from, z = req[r].to - 1
  PROVE  Cal!Take(r, v, a, z)
<1> USE DEF WriteProtocol
<1>1. OwnersOccupy /\ OwnersOccupy'
  BY NightsHaveOneOwner, PTL
<1>2. /\ pc[r] = "inserted" /\ status[r] = "none" /\ BlockedBy(r) = {}
      /\ UNCHANGED <<clock, req>>
  BY DEF Commit, RowsAppearAtCommit, PassedInsertsAreClear
<1>3. /\ swept[r] \in SUBSET Requests /\ swept[r] \subseteq Cal!LapsedOwners
  <2>1. swept[r] \in SUBSET Requests
    BY DEF TypeOK
  <2>2. ASSUME NEW b \in swept[r] PROVE b \in Cal!LapsedOwners
    <3>1. status[b] = "pending_payment" /\ hold[b] < start[r] /\ start[r] <= clock
      BY DEF LocksAreExclusive, RowsAppearAtCommit
    <3>2. b \in Requests /\ hold[b] \in Nat /\ start[r] \in Nat /\ clock \in Nat
      BY <2>1 DEF TypeOK
    <3>3. QED BY <3>1, <3>2, LapsedRowsAreLapsedOwners
  <2>3. QED BY <2>1, <2>2
<1>4. /\ Occupying(r)' /\ ~Occupying(r)
      /\ \A b \in Requests \ {r} : Occupying(b)' <=> Occupying(b) /\ b \notin swept[r]
  <2>1. \A b \in Requests : status'[b] =
          IF b = r THEN (IF req[r].kind = "guest" THEN "pending_payment" ELSE "confirmed")
          ELSE IF b \in swept[r] THEN "expired" ELSE status[b]
    BY DEF Commit
  <2>2. QED BY <1>2, <2>1 DEF Occupying, OCCUPYING_STATUSES
<1>5. ASSUME NEW u \in Units, NEW n \in NightSet
      PROVE  /\ u = req[r].unit /\ n \in NightsOf(r) =>
                  OwnerOf(u, n) \in swept[r] \cup {Nobody}
             /\ OwnerOf(u, n)' =
                  IF u = req[r].unit /\ n \in NightsOf(r) THEN r
                  ELSE IF OwnerOf(u, n) \in swept[r] THEN Nobody ELSE OwnerOf(u, n)
  <2>1. \A b \in Requests : NightsOf(b)' = NightsOf(b)
    BY <1>2 DEF NightsOf
  <2>2. \A b \in Requests :
          OwnerOf(u, n) = b <=> Occupying(b) /\ req[b].unit = u /\ n \in NightsOf(b)
    BY <1>1 DEF OwnersOccupy
  <2>3. \A b \in Requests :
          OwnerOf(u, n)' = b <=> Occupying(b)' /\ req[b].unit = u /\ n \in NightsOf(b)
    BY <1>1, <1>2, <2>1 DEF OwnersOccupy
  <2>4. OwnerOf(u, n) \in Requests \cup {Nobody} /\ OwnerOf(u, n)' \in Requests \cup {Nobody}
    BY <1>1 DEF OwnersOccupy
  <2>5. u = req[r].unit /\ n \in NightsOf(r) => OwnerOf(u, n)' = r
    BY <1>4, <2>3
  <2>6. ASSUME u = req[r].unit, n \in NightsOf(r)
        PROVE  OwnerOf(u, n) \in swept[r] \cup {Nobody}
    <3>1. ASSUME NEW b \in Requests, OwnerOf(u, n) = b PROVE b \in swept[r]
      <4>1. Occupying(b) /\ ShareANight(r, b)
        BY <2>2, <2>6, <3>1 DEF ShareANight
      <4>2. Conflict(r, b)
        BY <4>1, ConflictIsASharedNight
      <4>3. QED BY <1>2, <4>1, <4>2 DEF BlockedBy
    <3>2. QED BY <2>4, <3>1
  <2>7. ASSUME ~(u = req[r].unit /\ n \in NightsOf(r))
        PROVE  OwnerOf(u, n)' = IF OwnerOf(u, n) \in swept[r] THEN Nobody ELSE OwnerOf(u, n)
    <3>1. \A b \in Requests :
            OwnerOf(u, n)' = b <=> OwnerOf(u, n) = b /\ b \notin swept[r]
      BY <1>4, <2>2, <2>3, <2>7
    <3>2. QED BY <1>3, <2>4, <3>1, BookingsAssumption
  <2>8. QED BY <2>5, <2>6, <2>7
<1> DEFINE freed == [u \in Units |-> [n \in NightSet |->
                       IF Owner[u][n] \in swept[r] THEN Nobody ELSE Owner[u][n]]]
<1>6. NightsOf(r) = req[r].from .. (req[r].to - 1) /\ NightsOf(r) \subseteq NightSet
      /\ req[r].unit \in Units
  BY OccupyingOwns DEF NightsOf
<1>7. \A n \in NightsOf(r) : freed[req[r].unit][n] = Nobody
  BY <1>5, <1>6 DEF Owner
<1>8. Owner' = [freed EXCEPT ![req[r].unit] =
                  [n \in NightSet |-> IF n \in NightsOf(r) THEN r ELSE freed[req[r].unit][n]]]
  <2>1. Owner' = [u \in Units |-> [n \in NightSet |-> OwnerOf(u, n)']]
    BY DEF Owner
  <2>2. QED BY <1>5, <2>1 DEF Owner
<1>9. /\ Lease' \in [Requests -> Nat \cup {-1}]
      /\ \A x \in Requests \ {r} : Lease'[x] = IF x \in swept[r] THEN -1 ELSE Lease[x]
  <2>1. Lease' \in [Requests -> Nat \cup {-1}]
    BY DEF Lease, TypeOK
  <2>2. ASSUME NEW x \in Requests \ {r}
        PROVE  Lease'[x] = IF x \in swept[r] THEN -1 ELSE Lease[x]
    <3>1. /\ status'[x] = IF x \in swept[r] THEN "expired" ELSE status[x]
          /\ hold'[x] = hold[x]
      BY DEF Commit, TypeOK
    <3>2. QED BY <3>1 DEF Lease
  <2>3. QED BY <2>1, <2>2
<1>10. r \notin Cal!Owners
  BY <1>4, OccupyingOwns DEF Cal!Owners, Cal!Owns, Owner, NightSet
<1>11. freed = Cal!Freed(swept[r])
  BY DEF Cal!Freed, Owner, NightSet
<1>12. /\ \A n \in a .. z : Cal!Freed(swept[r])[v][n] = Nobody
       /\ Owner' = [Cal!Freed(swept[r]) EXCEPT ![v] =
                      [n \in NightSet |-> IF n \in a .. z THEN r
                                         ELSE Cal!Freed(swept[r])[v][n]]]
  <2> HIDE DEF freed
  <2>1. QED BY <1>7, <1>8, <1>11 DEF NightsOf
<1> HIDE DEF WriteProtocol
<1>13. \E gone \in SUBSET Cal!LapsedOwners :
         /\ r \notin Cal!Owners
         /\ \A n \in a .. z : Cal!Freed(gone)[v][n] = Nobody
         /\ Owner' = [Cal!Freed(gone) EXCEPT ![v] =
                        [n \in NightSet |-> IF n \in a .. z THEN r
                                           ELSE Cal!Freed(gone)[v][n]]]
         /\ Lease' \in [Requests -> Nat \cup {-1}]
         /\ \A x \in Requests \ {r} : Lease'[x] = IF x \in gone THEN -1 ELSE Lease[x]
         /\ UNCHANGED clock
  BY <1>2, <1>3, <1>9, <1>10, <1>12, Zenon
<1>14. QED BY <1>13 DEF Cal!Take, Cal!Firm, Owner, Lease, NightSet

\* The owners of the nights are a matter of who occupies.
LEMMA OwnersFollowOccupancy ==
  ASSUME req' = req, \A b \in Requests : Occupying(b)' <=> Occupying(b)
  PROVE  Owner' = Owner
<1>1. ASSUME NEW u \in Units, NEW n \in NightSet PROVE OwnerOf(u, n)' = OwnerOf(u, n)
  <2> DEFINE on == {b \in Requests : Occupying(b) /\ req[b].unit = u /\ n \in NightsOf(b)}
  <2>1. \A b \in Requests : NightsOf(b)' = NightsOf(b)
    BY DEF NightsOf
  <2>2. on' = on
    BY <2>1
  <2>3. OwnerOf(u, n) = IF on = {} THEN Nobody ELSE CHOOSE b \in on : TRUE
    BY DEF OwnerOf
  <2>4. OwnerOf(u, n)' = IF on' = {} THEN Nobody ELSE CHOOSE b \in on' : TRUE
    BY DEF OwnerOf
  <2> HIDE DEF on
  <2>5. QED BY <2>2, <2>3, <2>4
<1>2. QED BY <1>1 DEF Owner

\* A step that leaves the clock, the stays and the rows alone leaves the calendar alone.
LEMMA RowsAreTheCalendar ==
  ASSUME UNCHANGED <<clock, req, status, hold>>
  PROVE  UNCHANGED Cal!calendarVars
<1>1. \A b \in Requests : Occupying(b)' <=> Occupying(b)
  BY DEF Occupying
<1>2. Owner' = Owner /\ Lease' = Lease
  BY <1>1, OwnersFollowOccupancy DEF Lease
<1>3. QED BY <1>2 DEF Cal!calendarVars, Owner, Lease, NightSet

\* Every step of the write path is a step of the calendar, or none.
LEMMA StepsAreCalendarSteps ==
  ASSUME WriteProtocol, WriteProtocol', [Next]_vars
  PROVE  [Cal!CalendarNext]_(Cal!calendarVars)
<1>1. ASSUME NEW r \in Requests, Commit(r) PROVE Cal!CalendarNext
  <2>1. /\ req[r].unit \in Units /\ req[r].from \in NightSet /\ req[r].to - 1 \in NightSet
        /\ req[r].from <= req[r].to - 1
    BY OccupyingOwns
  <2>2. PICK v \in Units, a \in NightSet, z \in NightSet :
          a <= z /\ v = req[r].unit /\ a = req[r].from /\ z = req[r].to - 1
    BY <2>1
  <2>3. Cal!Take(r, v, a, z)
    BY <1>1, <2>2, CommitTakes
  <2>4. \E b \in Requests, u \in Units, first, last \in NightSet :
          first <= last /\ Cal!Take(b, u, first, last)
    BY <2>2, <2>3
  <2>5. QED BY <2>4 DEF Cal!CalendarNext, NightSet
<1>2. ASSUME NEW r \in Requests, Enter(r) \/ (Step(r) /\ ~Commit(r))
      PROVE  UNCHANGED <<clock, req, status, hold>>
  BY <1>2 DEF Step, Enter, SweepUnit, ReadUnit, Recheck, InsertTuple, Arbitrate,
              DeadlockVictim, Refuse, rowVars
<1>3. ASSUME NEW u \in Units, Archive(u) \/ Unarchive(u) \/ RemoveUnit(u)
      PROVE  UNCHANGED <<clock, req, status, hold>>
  BY <1>3 DEF Archive, Unarchive, RemoveUnit, rowVars, requestVars
<1>4. ASSUME NEW b \in Requests, CancelById(b) PROVE Cal!CalendarNext
  <2>1. /\ Occupying(b) /\ UNCHANGED <<clock, req, hold>>
        /\ \A x \in Requests : status'[x] = IF x = b THEN "cancelled" ELSE status[x]
    BY <1>4 DEF CancelById, requestVars, WriteProtocol, TypeOK
  <2>2. \A x \in Requests : /\ Occupying(x)' <=> Occupying(x) /\ x \notin {b}
                            /\ Lease'[x] = IF x \in {b} THEN -1 ELSE Lease[x]
    BY <2>1 DEF Occupying, OCCUPYING_STATUSES, Lease
  <2>3. Cal!Release({b})
    BY <2>1, <2>2, ReleaseStep
  <2>4. b \in Cal!Owners
    BY <2>1, OccupyingOwns DEF Cal!Owners, Cal!Owns, Owner, NightSet
  <2>5. QED BY <2>3, <2>4 DEF Cal!CalendarNext
<1>5. ASSUME NEW b \in Requests, ConfirmPaid(b) PROVE Cal!CalendarNext
  <2>1. /\ Occupying(b) /\ UNCHANGED <<clock, req, hold>>
        /\ \A x \in Requests : status'[x] = IF x = b THEN "confirmed" ELSE status[x]
    BY <1>5 DEF ConfirmPaid, requestVars, WriteProtocol, TypeOK, Occupying, OCCUPYING_STATUSES
  <2>3. \A x \in Requests : Occupying(x)' <=> Occupying(x)
    BY <2>1 DEF Occupying, OCCUPYING_STATUSES
  <2>4. Owner' = Owner
    BY <2>1, <2>3, OwnersFollowOccupancy
  <2>5. Lease' = [Lease EXCEPT ![b] = -1]
    BY <2>1 DEF Lease
  <2>6. b \in Cal!Owners
    BY <2>1, OccupyingOwns DEF Cal!Owners, Cal!Owns, Owner, NightSet
  <2>7. Cal!Settle(b)
    BY <2>1, <2>4, <2>5, <2>6 DEF Cal!Settle, Cal!Firm, Owner, Lease, NightSet
  <2>8. QED BY <2>7 DEF Cal!CalendarNext
<1>6. ASSUME SweepExpiredHolds PROVE Cal!CalendarNext
  <2>1. /\ LapsedNow \in SUBSET Requests /\ LapsedNow # {} /\ UNCHANGED <<clock, req, hold>>
        /\ \A x \in Requests : status'[x] = IF x \in LapsedNow THEN "expired" ELSE status[x]
        /\ \A x \in LapsedNow : status[x] = "pending_payment" /\ hold[x] < clock
    BY <1>6 DEF SweepExpiredHolds, requestVars, LapsedNow, LapsedHolds
  <2>2. \A x \in Requests : /\ Occupying(x)' <=> Occupying(x) /\ x \notin LapsedNow
                            /\ Lease'[x] = IF x \in LapsedNow THEN -1 ELSE Lease[x]
    BY <2>1 DEF Occupying, OCCUPYING_STATUSES, Lease
  <2>3. LapsedNow \in SUBSET Cal!LapsedOwners
    BY <2>1, LapsedRowsAreLapsedOwners
  <2>4. PICK gone : gone = LapsedNow
    OBVIOUS
  <2>5. Cal!Release(gone)
    BY <2>1, <2>2, <2>4, ReleaseStep
  <2>6. QED BY <2>3, <2>4, <2>5 DEF Cal!CalendarNext
<1>7. ASSUME Tick PROVE Cal!CalendarNext
  <2>1. UNCHANGED <<req, status, hold>> /\ clock' = clock + 1
    BY <1>7 DEF Tick, requestVars, rowVars
  <2>2. \A b \in Requests : Occupying(b)' <=> Occupying(b)
    BY <2>1 DEF Occupying
  <2>3. Owner' = Owner /\ Lease' = Lease
    BY <2>1, <2>2, OwnersFollowOccupancy DEF Lease
  <2>4. Cal!CalendarTick
    BY <2>1, <2>3 DEF Cal!CalendarTick, Owner, Lease, NightSet
  <2>5. QED BY <2>4 DEF Cal!CalendarNext
<1>8. UNCHANGED vars => UNCHANGED <<clock, req, status, hold>>
  BY DEF vars, requestVars, rowVars
<1>9. QED
  BY <1>1, <1>2, <1>3, <1>4, <1>5, <1>6, <1>7, <1>8, RowsAreTheCalendar, BookingsAssumption
     DEF Next

\* The transactions of the write path implement the calendar: nights change hands in one
\* step, and only free ones or those of holds whose lease is over.
THEOREM WritePathIsACalendar == Spec => ImplementsCalendar
<1>1. Init => Cal!CalendarInit
  <2>1. SUFFICES ASSUME Init PROVE Cal!CalendarInit
    OBVIOUS
  <2>2. /\ clock = 0 /\ \A b \in Requests : ~Occupying(b) /\ status[b] = "none"
    BY <2>1 DEF Init, Occupying, OCCUPYING_STATUSES
  <2>3. \A u \in Units, n \in NightSet : OwnerOf(u, n) = Nobody
    BY <2>2 DEF OwnerOf
  <2>4. Owner = [u \in Units |-> [n \in NightSet |-> Nobody]] /\ Lease = [b \in Requests |-> -1]
    BY <2>2, <2>3 DEF Owner, Lease
  <2>5. QED BY <2>2, <2>4 DEF Cal!CalendarInit, Cal!Firm, Owner, Lease, NightSet
<1>2. WriteProtocol /\ WriteProtocol' /\ [Next]_vars => [Cal!CalendarNext]_(Cal!calendarVars)
  BY StepsAreCalendarSteps
<1>3. QED BY <1>1, <1>2, ProtocolHolds, PTL DEF Spec, ImplementsCalendar, Cal!CalendarSpec
===============================================================================
