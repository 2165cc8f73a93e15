------------------------------ MODULE Bookings ------------------------------
(***************************************************************************)
(* The booking write path of the Sambung API: guest checkout, owner blocks *)
(* and walk-ins, cancel, the two hold sweeps, the archive flag and the     *)
(* guarded delete of a unit, on one Postgres database.                     *)
(*                                                                         *)
(* A create request is one READ COMMITTED transaction of several           *)
(* statements (sweep, read the unit, read the blocking bookings, insert),  *)
(* and each statement is a step of its own, so the requests interleave     *)
(* between statements exactly where the database lets them.  What a        *)
(* transaction wrote and has not committed is kept beside the table:       *)
(* swept[r] are the rows it set to 'expired' and still has locked, and a   *)
(* request at "inserting" or "inserted" has its own tuple in the           *)
(* exclusion constraint's index.  A request inserts at most one booking,   *)
(* so a booking is identified with the request that created it.            *)
(***************************************************************************)
EXTENDS Integers, FiniteSets

CONSTANTS
  Requests,            \* create requests; also the ids of the bookings they insert
  Units,               \* the sellable units of the fleet
  RetirableUnits,      \* those the owner may archive or delete in this workload
  LastDay,             \* stays lie in [0, LastDay]
  HoldTtl,             \* HOLD_TTL_MINUTES, in ticks of the database clock
  MaxClock,            \* bound on the clock
  TxnLimit,            \* a transaction is open for at most this many ticks
  MinStay,             \* unit.min_stay
  MaxGuests,           \* unit.max_guests
  PartySizes,          \* the guest counts a checkout may ask for
  PaymentsConfigured,  \* units whose tenant has a gateway credential
  Nobody               \* the owner of a free night in the abstract calendar

ASSUME BookingsAssumption ==
  /\ LastDay \in Nat /\ HoldTtl \in Nat /\ MaxClock \in Nat /\ TxnLimit \in Nat
  /\ MinStay \in [Units -> Nat \ {0}]
  /\ MaxGuests \in [Units -> Nat \ {0}]
  /\ PartySizes \subseteq Nat \ {0}
  /\ PaymentsConfigured \subseteq Units /\ RetirableUnits \subseteq Units
  /\ Nobody \notin Requests

VARIABLES
  clock,      \* the database clock, read by now()
  unitState,  \* active, archived (effective) or gone (deleted)
  req,        \* the body of each request; never changes
  pc,         \* how far the request's handler has got
  start,      \* now() of the request's open transaction: its start time
  swept,      \* holds the open transaction has expired, not yet committed
  status,     \* booking.status of the committed row, "none" when there is none
  hold,       \* booking.hold_expires_at of the committed row
  reply,      \* what the request was answered: {} while it runs
  sawActive   \* history: the unit was active at some time since the request began

requestVars == <<req, pc, start, swept, reply, sawActive>>
rowVars == <<status, hold>>
vars == <<clock, unitState, requestVars, rowVars>>

-----------------------------------------------------------------------------
Day == 0 .. LastDay

\* A create request: the guest's checkout or the owner's block / walk-in.
Request == [kind: {"guest", "owner"}, unit: Units, from: Day, to: Day,
            guests: PartySizes]

BookingStatus == {"pending_payment", "confirmed", "cancelled", "expired"}

OCCUPYING_STATUSES == {"pending_payment", "confirmed"}

UnitState == {"active", "archived", "gone"}

Pc == {"idle", "begun", "swept", "priced", "checked", "inserting", "inserted",
       "done"}

\* The answers of a request: 201, the 409 reasons, 404 and 500.
Reply == {"created", "overlap", "min_stay", "max_guests", "unavailable", "archived",
          "payments_not_configured", "not_found", "server_error"}

TypeOK ==
  /\ clock \in Nat
  /\ unitState \in [Units -> UnitState]
  /\ req \in [Requests -> Request]
  /\ pc \in [Requests -> Pc]
  /\ start \in [Requests -> Nat]
  /\ swept \in [Requests -> SUBSET Requests]
  /\ status \in [Requests -> BookingStatus \cup {"none"}]
  /\ hold \in [Requests -> Nat]
  /\ reply \in [Requests -> SUBSET Reply]
  /\ sawActive \in [Requests -> BOOLEAN]

-----------------------------------------------------------------------------
\* daterange(check_in, check_out, '[)') && on one unit: half-open, so a
\* check-out day is free for the next check-in.
Conflict(a, b) ==
  /\ req[a].unit = req[b].unit
  /\ req[a].from < req[b].to
  /\ req[b].from < req[a].to

Nights(r) == req[r].to - req[r].from

Occupying(b) == status[b] \in OCCUPYING_STATUSES

\* The holds a sweep of unit u at time `now` matches.
LapsedHolds(u, now) ==
  {b \in Requests : /\ req[b].unit = u
                    /\ status[b] = "pending_payment"
                    /\ hold[b] < now}

\* Row b carries the uncommitted update of a transaction other than r's.
LockedByOther(b, r) == \E q \in Requests \ {r} : b \in swept[q]

Locked(b) == \E q \in Requests : b \in swept[q]

\* The occupying rows transaction r sees across its own stay: the committed
\* ones, without those it has swept itself.
BlockedBy(r) == {b \in Requests : Occupying(b) /\ Conflict(r, b)} \ swept[r]

\* The refusals of the in-transaction re-check.  The owner obeys only overlap.
Reasons(r) ==
  {s \in {"overlap", "min_stay", "max_guests"} :
     \/ s = "overlap" /\ BlockedBy(r) # {}
     \/ s = "min_stay" /\ req[r].kind = "guest" /\ Nights(r) < MinStay[req[r].unit]
     \/ s = "max_guests" /\ req[r].kind = "guest"
                         /\ req[r].guests > MaxGuests[req[r].unit]}

InTransaction(r) == pc[r] \notin {"idle", "done"}

\* Transaction r has its tuple in the index, committed or not yet.
TupleInIndex(r) == pc[r] \in {"inserting", "inserted"}

\* Mutant: the constraint looks only at committed tuples.
WaitsForRowsOnly(r) ==
  {q \in Requests \ {r} : swept[q] \cap BlockedBy(r) # {}}

\* The transactions whose end the constraint check of r has to wait for: those
\* with an uncommitted conflicting tuple, and those whose uncommitted update
\* would free a conflicting row.
WaitsFor(r) ==
  {q \in Requests \ {r} : \/ TupleInIndex(q) /\ Conflict(r, q)
                          \/ swept[q] \cap BlockedBy(r) # {}}

-----------------------------------------------------------------------------
Init ==
  /\ clock = 0
  /\ unitState = [u \in Units |-> "active"]
  /\ req \in {f \in [Requests -> Request] : \A r \in Requests : f[r].from < f[r].to}
  /\ pc = [r \in Requests |-> "idle"]
  /\ start = [r \in Requests |-> 0]
  /\ swept = [r \in Requests |-> {}]
  /\ status = [r \in Requests |-> "none"]
  /\ hold = [r \in Requests |-> 0]
  /\ reply = [r \in Requests |-> {}]
  /\ sawActive = [r \in Requests |-> FALSE]

\* The request ends without a booking: its transaction rolls back, the sweep in
\* it included, and the rows it had locked are released.
Refuse(r, why) ==
  /\ pc' = [pc EXCEPT ![r] = "done"]
  /\ reply' = [reply EXCEPT ![r] = why]
  /\ swept' = [swept EXCEPT ![r] = {}]
  /\ start' = [start EXCEPT ![r] = 0]
  /\ UNCHANGED <<clock, unitState, req, sawActive, rowVars>>

\* Before the transaction.  A guest's unit must resolve and its tenant must
\* have a gateway; then the transaction starts and fixes now().
Enter(r) ==
  /\ pc[r] = "idle"
  /\ LET guest == req[r].kind = "guest"
         u == req[r].unit
     IN \/ guest /\ unitState[u] = "gone" /\ Refuse(r, {"not_found"})
        \/ /\ guest /\ unitState[u] # "gone" /\ u \notin PaymentsConfigured
           /\ Refuse(r, {"payments_not_configured"})
        \/ /\ guest => unitState[u] # "gone" /\ u \in PaymentsConfigured
           /\ pc' = [pc EXCEPT ![r] = "begun"]
           /\ start' = [start EXCEPT ![r] = clock]
           /\ sawActive' = [sawActive EXCEPT ![r] = (unitState[u] = "active")]
           /\ UNCHANGED <<clock, unitState, req, swept, reply, rowVars>>

\* Mutant: the opportunistic sweep is left to the cron.
SkipSweep(r) ==
  /\ pc[r] = "begun"
  /\ pc' = [pc EXCEPT ![r] = "swept"]
  /\ UNCHANGED <<clock, unitState, req, start, swept, reply, sawActive, rowVars>>

\* Mutant: the sweep takes rows another transaction has locked.
SweepUnitWithoutWaiting(r) ==
  /\ pc[r] = "begun"
  /\ swept' = [swept EXCEPT ![r] = LapsedHolds(req[r].unit, start[r])]
  /\ pc' = [pc EXCEPT ![r] = "swept"]
  /\ UNCHANGED <<clock, unitState, req, start, reply, sawActive, rowVars>>

\* expireLapsedHolds: waits for any lapsed row another transaction has locked,
\* then locks and expires the unit's lapsed holds.
SweepUnit(r) ==
  /\ pc[r] = "begun"
  /\ \A b \in LapsedHolds(req[r].unit, start[r]) : ~LockedByOther(b, r)
  /\ swept' = [swept EXCEPT ![r] = LapsedHolds(req[r].unit, start[r])]
  /\ pc' = [pc EXCEPT ![r] = "swept"]
  /\ UNCHANGED <<clock, unitState, req, start, reply, sawActive, rowVars>>

\* Mutant: the write trusts the resolver and does not judge the archive flag.
ReadUnitUnjudged(r) ==
  /\ pc[r] = "swept"
  /\ \/ unitState[req[r].unit] = "gone" /\ Refuse(r, {"not_found"})
     \/ /\ unitState[req[r].unit] # "gone"
        /\ pc' = [pc EXCEPT ![r] = "priced"]
        /\ UNCHANGED <<clock, unitState, req, start, swept, reply, sawActive, rowVars>>

\* Mutant: a unit that vanished under the transaction is left without an answer.
ReadUnitUnanswered(r) ==
  /\ pc[r] = "swept"
  /\ \/ /\ unitState[req[r].unit] = "archived"
        /\ Refuse(r, {IF req[r].kind = "guest" THEN "unavailable" ELSE "archived"})
     \/ /\ unitState[req[r].unit] = "active"
        /\ pc' = [pc EXCEPT ![r] = "priced"]
        /\ UNCHANGED <<clock, unitState, req, start, swept, reply, sawActive, rowVars>>

\* fetchUnitPricing: the unit may have vanished or been archived, which only
\* the owner is told in so many words.
ReadUnit(r) ==
  /\ pc[r] = "swept"
  /\ \/ unitState[req[r].unit] = "gone" /\ Refuse(r, {"not_found"})
     \/ /\ unitState[req[r].unit] = "archived"
        /\ Refuse(r, {IF req[r].kind = "guest" THEN "unavailable" ELSE "archived"})
     \/ /\ unitState[req[r].unit] = "active"
        /\ pc' = [pc EXCEPT ![r] = "priced"]
        /\ UNCHANGED <<clock, unitState, req, start, swept, reply, sawActive, rowVars>>

\* findBlockedRanges and, for a guest, fetchMaxGuests: every refusal is
\* collected into one answer.
Recheck(r) ==
  /\ pc[r] = "priced"
  /\ LET vanished == req[r].kind = "guest" /\ unitState[req[r].unit] = "gone"
     IN \/ vanished /\ Refuse(r, {"not_found"})
        \/ ~vanished /\ Reasons(r) # {} /\ Refuse(r, Reasons(r))
        \/ /\ ~vanished /\ Reasons(r) = {}
           /\ pc' = [pc EXCEPT ![r] = "checked"]
           /\ UNCHANGED <<clock, unitState, req, start, swept, reply, sawActive,
                          rowVars>>

\* insertHold / insertConfirmed: the tuple enters the index before the
\* constraint is checked against it.
InsertTuple(r) ==
  /\ pc[r] = "checked"
  /\ pc' = [pc EXCEPT ![r] = "inserting"]
  /\ UNCHANGED <<clock, unitState, req, start, swept, reply, sawActive, rowVars>>

\* booking_no_overlap, then the foreign key to the unit.  A committed
\* conflicting row refuses the insert; an undecided one is waited for.
Arbitrate(r) ==
  /\ pc[r] = "inserting"
  /\ \/ /\ \E b \in BlockedBy(r) : ~LockedByOther(b, r)
        /\ Refuse(r, {"overlap"})
     \/ /\ BlockedBy(r) = {} /\ WaitsFor(r) = {}
        /\ unitState[req[r].unit] = "gone"
        /\ Refuse(r, {"server_error"})
     \/ /\ BlockedBy(r) = {} /\ WaitsFor(r) = {}
        /\ unitState[req[r].unit] # "gone"
        /\ pc' = [pc EXCEPT ![r] = "inserted"]
        /\ UNCHANGED <<clock, unitState, req, start, swept, reply, sawActive, rowVars>>

\* Two inserts that each wait for the other's tuple: the deadlock detector
\* aborts one with 40P01, which names no constraint and so maps to no 409.
DeadlockVictim(r) ==
  /\ pc[r] = "inserting"
  /\ \E q \in WaitsFor(r) : pc[q] = "inserting" /\ r \in WaitsFor(q)
  /\ Refuse(r, {"server_error"})

\* Mutant: the sweep's UPDATE is lost when the transaction commits.
CommitWithoutSweep(r) ==
  /\ pc[r] = "inserted"
  /\ status' = [status EXCEPT ![r] = IF req[r].kind = "guest" THEN "pending_payment"
                                                             ELSE "confirmed"]
  /\ hold' = [hold EXCEPT ![r] =
                IF req[r].kind = "guest" THEN start[r] + HoldTtl ELSE 0]
  /\ pc' = [pc EXCEPT ![r] = "done"]
  /\ reply' = [reply EXCEPT ![r] = {"created"}]
  /\ swept' = [swept EXCEPT ![r] = {}]
  /\ start' = [start EXCEPT ![r] = 0]
  /\ UNCHANGED <<clock, unitState, req, sawActive>>

\* The transaction commits: the swept holds and the new booking become visible
\* together.  A guest's hold lives HoldTtl from the transaction's start; an
\* owner's booking is born confirmed, with no hold.
Commit(r) ==
  /\ pc[r] = "inserted"
  /\ status' = [b \in Requests |->
       IF b = r THEN (IF req[r].kind = "guest" THEN "pending_payment" ELSE "confirmed")
       ELSE IF b \in swept[r] THEN "expired" ELSE status[b]]
  /\ hold' = [hold EXCEPT ![r] =
                IF req[r].kind = "guest" THEN start[r] + HoldTtl ELSE 0]
  /\ pc' = [pc EXCEPT ![r] = "done"]
  /\ reply' = [reply EXCEPT ![r] = {"created"}]
  /\ swept' = [swept EXCEPT ![r] = {}]
  /\ start' = [start EXCEPT ![r] = 0]
  /\ UNCHANGED <<clock, unitState, req, sawActive>>

\* One statement of the handler, once it has begun.
Step(r) ==
  \/ SweepUnit(r) \/ ReadUnit(r) \/ Recheck(r) \/ InsertTuple(r)
  \/ Arbitrate(r) \/ DeadlockVictim(r) \/ Commit(r)

-----------------------------------------------------------------------------
\* The owner cancels: one guarded UPDATE, which waits for a locked row.  A
\* booking already cancelled or expired is a 409 and changes nothing.
CancelById(b) ==
  /\ Occupying(b)
  /\ ~Locked(b)
  /\ status' = [status EXCEPT ![b] = "cancelled"]
  /\ UNCHANGED <<clock, unitState, requestVars, hold>>

\* Mutant: the settlement is applied to whatever status the booking has.
ConfirmPaidUnguarded(b) ==
  /\ status[b] # "none"
  /\ ~Locked(b)
  /\ status' = [status EXCEPT ![b] = "confirmed"]
  /\ UNCHANGED <<clock, unitState, requestVars, hold>>

\* A settlement confirms the hold: guarded on the status alone, never on the
\* time the hold lapses.
ConfirmPaid(b) ==
  /\ status[b] = "pending_payment"
  /\ ~Locked(b)
  /\ status' = [status EXCEPT ![b] = "confirmed"]
  /\ UNCHANGED <<clock, unitState, requestVars, hold>>

\* Mutant: the cron sweeps only units that are on sale.
LapsedOnActiveUnits ==
  UNION {LapsedHolds(u, clock) : u \in {v \in Units : unitState[v] = "active"}}

\* The cron sweep: one UPDATE over every unit, which waits for locked rows.
LapsedNow == UNION {LapsedHolds(u, clock) : u \in Units}

SweepExpiredHolds ==
  /\ LapsedNow # {}
  /\ \A b \in LapsedNow : ~Locked(b)
  /\ status' = [b \in Requests |-> IF b \in LapsedNow THEN "expired" ELSE status[b]]
  /\ UNCHANGED <<clock, unitState, requestVars, hold>>

\* Archive takes no lock that an insert would wait for.
Archive(u) ==
  /\ unitState[u] = "active"
  /\ unitState' = [unitState EXCEPT ![u] = "archived"]
  /\ UNCHANGED <<clock, requestVars, rowVars>>

Unarchive(u) ==
  /\ unitState[u] = "archived"
  /\ unitState' = [unitState EXCEPT ![u] = "active"]
  /\ sawActive' = [r \in Requests |->
                     sawActive[r] \/ (InTransaction(r) /\ req[r].unit = u)]
  /\ UNCHANGED <<clock, req, pc, start, swept, reply, rowVars>>

\* The guarded delete: FOR UPDATE on the unit waits for inserts that hold the
\* key share lock of the foreign key; the count under it must then be zero.
BookingsOf(u) == {b \in Requests : status[b] # "none" /\ req[b].unit = u}

\* Mutant: the count is read without locking the unit first.
RemoveUnitUnlocked(u) ==
  /\ unitState[u] # "gone"
  /\ BookingsOf(u) = {}
  /\ unitState' = [unitState EXCEPT ![u] = "gone"]
  /\ UNCHANGED <<clock, requestVars, rowVars>>

RemoveUnit(u) ==
  /\ unitState[u] # "gone"
  /\ \A r \in Requests : pc[r] = "inserted" => req[r].unit # u
  /\ BookingsOf(u) = {}
  /\ unitState' = [unitState EXCEPT ![u] = "gone"]
  /\ UNCHANGED <<clock, requestVars, rowVars>>

Tick ==
  /\ clock < MaxClock
  /\ \A r \in Requests : InTransaction(r) => clock < start[r] + TxnLimit
  /\ clock' = clock + 1
  /\ UNCHANGED <<unitState, requestVars, rowVars>>

Next ==
  \/ \E r \in Requests : Enter(r) \/ Step(r) \/ CancelById(r) \/ ConfirmPaid(r)
  \/ \E u \in RetirableUnits : Archive(u) \/ Unarchive(u) \/ RemoveUnit(u)
  \/ SweepExpiredHolds
  \/ Tick

\* A handler that has begun runs to its end (the database resolves its waits),
\* the clock advances and the cron fires.
Fairness ==
  /\ \A r \in Requests : WF_vars(Step(r))
  /\ WF_vars(SweepExpiredHolds)
  /\ WF_vars(Tick)

Spec == Init /\ [][Next]_vars

FairSpec == Spec /\ Fairness

-----------------------------------------------------------------------------
NightsOf(b) == req[b].from .. (req[b].to - 1)

\* Two bookings are for the same night of the same unit.
ShareANight(a, b) ==
  req[a].unit = req[b].unit /\ NightsOf(a) \cap NightsOf(b) # {}

\* Boss fight #1: however the checks and inserts of concurrent requests
\* interleave, no night of a unit is occupied by two committed bookings.
NoDoubleBooking ==
  \A a, b \in Requests :
    a # b /\ Occupying(a) /\ Occupying(b) => ~ShareANight(a, b)

\* What each transaction holds while it runs.  The row locks of two
\* transactions are disjoint, and a locked row is a hold that lapsed before its
\* transaction started.
LocksAreExclusive ==
  /\ \A r, q \in Requests : r # q => swept[r] \cap swept[q] = {}
  /\ \A r \in Requests : ~InTransaction(r) => swept[r] = {}
  /\ \A r \in Requests : \A b \in swept[r] :
       status[b] = "pending_payment" /\ hold[b] < start[r]

\* A booking has no committed row until its transaction commits, and a
\* transaction's now() is never ahead of the clock.
RowsAppearAtCommit ==
  \A r \in Requests : /\ pc[r] # "done" => status[r] = "none"
                      /\ start[r] <= clock

\* Inserts that passed the constraint and are not committed yet conflict neither
\* with the rows that will stay occupying nor with each other, and hold their
\* unit's row against a delete.
PassedInsertsAreClear ==
  \A r \in Requests : pc[r] = "inserted" =>
    /\ BlockedBy(r) = {}
    /\ \A q \in Requests \ {r} : pc[q] = "inserted" => ~Conflict(r, q)
    /\ unitState[req[r].unit] # "gone"

OccupyingRowsAreClear ==
  \A a, b \in Requests : a # b /\ Occupying(a) /\ Occupying(b) => ~Conflict(a, b)

StaysAreNonempty == \A r \in Requests : req[r].from < req[r].to

\* Deleting inventory never destroys the ledger (ADR-0002): a committed
\* booking, whatever its status, belongs to a unit that still exists.
LedgerKeepsItsUnit ==
  \A b \in Requests : status[b] # "none" => unitState[req[b].unit] # "gone"

\* The protocol between the transactions: why concurrent inserts, sweeps and
\* deletes cannot break NoDoubleBooking and LedgerKeepsItsUnit.  Inductive.
WriteProtocol ==
  /\ TypeOK
  /\ StaysAreNonempty
  /\ LocksAreExclusive
  /\ RowsAppearAtCommit
  /\ PassedInsertsAreClear
  /\ OccupyingRowsAreClear
  /\ LedgerKeepsItsUnit

\* The booking FSM: a cancelled or expired booking stays so, and a confirmed
\* one can only be cancelled, whichever of the sweeps, the cancel and a late
\* settlement comes last.
DeadBookingsStayDead ==
  [][\A b \in Requests :
       /\ status[b] \in {"cancelled", "expired"} => status'[b] = status[b]
       /\ status[b] = "confirmed" => status'[b] \in {"confirmed", "cancelled"}]_vars

\* A hold loses its nights to a sweep only once its TTL is over on the database
\* clock, although the sweep used the now() of a transaction started earlier.
HoldsKeepTheirTtl ==
  [][\A b \in Requests :
       status[b] = "pending_payment" /\ status'[b] = "expired" => hold[b] < clock]_vars

\* A guest is never blocked by a dead hold on the unit they are booking
\* (ADR-0009): a request refused for overlap met a booking of one of its nights
\* that was not already lapsed when the request's transaction started.
OverlapIsNeverADeadHold ==
  [][\A r \in Requests :
       "overlap" \in reply'[r] \ reply[r] =>
         \E b \in Requests \ {r} :
           /\ Occupying(b) /\ ShareANight(r, b)
           /\ ~(status[b] = "pending_payment" /\ hold[b] < start[r])]_vars

\* Archive honours a booking in flight and refuses every later one (ADR-0005):
\* a request creates a booking only if its unit was on sale at some time while
\* the request ran.
ArchivedUnitTakesNoNewSale ==
  \A r \in Requests : "created" \in reply[r] => sawActive[r]

\* The committed rows as a calendar: who has each night, and until when.
OwnerOf(u, n) ==
  LET on == {b \in Requests : Occupying(b) /\ req[b].unit = u /\ n \in NightsOf(b)}
  IN IF on = {} THEN Nobody ELSE CHOOSE b \in on : TRUE

Cal == INSTANCE Calendar WITH
  Bookings <- Requests,
  Night <- 0 .. (LastDay - 1),
  now <- clock,
  owner <- [u \in Units |-> [n \in 0 .. (LastDay - 1) |-> OwnerOf(u, n)]],
  lease <- [b \in Requests |-> IF status[b] = "pending_payment" THEN hold[b] ELSE -1]

\* The multi-statement transactions of the write path, with their sweeps,
\* re-checks, waits and rollbacks, are a calendar on which nights change hands
\* in one step and never while their owner's hold is alive.
ImplementsCalendar == Cal!CalendarSpec

\* Every request that entered its transaction is answered, whatever it has to
\* wait for.
EveryRequestAnswered ==
  \A r \in Requests : pc[r] = "begun" ~> pc[r] = "done"

\* A lapsed hold stops occupying even if nobody books its unit again.
LapsedHoldIsFreed ==
  \A b \in Requests :
    (status[b] = "pending_payment" /\ hold[b] < clock) ~> status[b] # "pending_payment"
=============================================================================
