------------------------------ MODULE Payments ------------------------------
(***************************************************************************)
(* The payment path of the Sambung API: the pay step that mints or reuses  *)
(* a checkout session, the webhook and the confirmation page's             *)
(* reconcile-on-read that settle it, the confirmation mail and the owner's *)
(* paid-but-lapsed inbox, against a Provider that delivers its             *)
(* notifications at least once and in any order.                           *)
(*                                                                         *)
(* A booking here is a guest's booking, born as a hold; all of them are on *)
(* one unit, which is the scope of a sweep.  An order is a payment row:    *)
(* its id is the Provider's order id.  The steps of a handler are its      *)
(* transactions and the points where another transaction can come between  *)
(* two of its statements; a fault (a crash, a refused call, a bounced      *)
(* mail, a retry sent before the answer) may hit between any two of them.  *)
(***************************************************************************)
EXTENDS Integers, FiniteSets

CONSTANTS
  Bookings,
  Orders,
  Payers,       \* concurrent pay requests
  Handlers,     \* concurrent webhook deliveries
  Readers,      \* concurrent reads of the confirmation page
  Keys,         \* server keys the owner may store
  Attempts,     \* how often a guest may try to pay within one session
  ProviderMay,  \* what the Provider may do beside taking a payment 
  MaxFaults,    \* bound on the faults of a behaviour
  None

ASSUME PaymentsAssumption ==
  /\ Attempts \in Nat \ {0} /\ MaxFaults \in Nat
  /\ ProviderMay \subseteq {"deny", "challenge", "misreport", "refund"}
  /\ None \notin Bookings \cup Orders \cup Keys
  /\ Keys # {} /\ Handlers \cap Readers = {}

VARIABLES
  status,     \* booking.status
  lapsed,     \* booking.hold_expires_at < now()
  payment,    \* payment.status, "none" when there is no row
  owner,      \* payment.booking_id
  handled,    \* orders whose payment.handled_at is set
  recorded,   \* the payment_event rows
  key,        \* the tenant's stored server key
  mintKey,    \* the key whose account holds the order at the Provider
  charge,     \* the Provider's current transaction for each order
  sent,       \* notifications the Provider has sent
  acked,      \* those it has a 200 for
  pay,        \* the pay requests
  work,       \* the webhook deliveries and page reads
  mails,      \* confirmation mails sent per booking
  faults

bookingVars == <<status, lapsed>>
paymentVars == <<payment, owner, mintKey>>
providerVars == <<charge, sent>>
vars == <<bookingVars, paymentVars, handled, recorded, key, providerVars, acked, pay,
          work, mails, faults>>

-----------------------------------------------------------------------------
Workers == Handlers \cup Readers

\* A signed notification or status answer.  Its transaction id is the attempt.
Event == [order: Orders, attempt: 1 .. Attempts,
          txn: {"pending", "capture", "settlement", "deny", "expire", "refund"},
          fraud: {"accept", "challenge", "none"}, amount: {"charged", "other"}]

\* What a worker has before it has an event.
Blank(o) == [order |-> o, attempt |-> 0, txn |-> "none", fraud |-> "none",
             amount |-> "charged"]

Idle == [at |-> "idle", event |-> Blank(None)]

NotPaying == [at |-> "idle", booking |-> None, swept |-> {}, key |-> None]

Answered == [NotPaying EXCEPT !.at = "done"]

TypeOK ==
  /\ status \in [Bookings -> {"pending_payment", "confirmed", "cancelled", "expired"}]
  /\ lapsed \in [Bookings -> BOOLEAN]
  /\ payment \in [Orders -> {"none", "pending", "paid", "failed"}]
  /\ owner \in [Orders -> Bookings \cup {None}]
  /\ handled \in SUBSET Orders
  /\ recorded \in SUBSET Event
  /\ key \in Keys
  /\ mintKey \in [Orders -> Keys \cup {None}]
  /\ charge \in [Orders -> Event \cup {Blank(o) : o \in Orders}]
  /\ sent \in SUBSET Event
  /\ acked \in SUBSET Event
  /\ pay \in [Payers -> [at: {"idle", "entered", "locked", "minting", "done"},
                         booking: Bookings \cup {None}, swept: SUBSET Bookings,
                         key: Keys \cup {None}]]
  /\ work \in [Workers -> [at: {"idle", "fetching", "verified", "recorded", "committed",
                                "done"},
                           event: Event \cup {Blank(o) : o \in Orders \cup {None}}]]
  /\ mails \in [Bookings -> Nat]
  /\ faults \in Nat

\* midtransOutcome: the Provider's words in the app's own.
Outcome(e) ==
  IF e.txn = "settlement" \/ (e.txn = "capture" /\ e.fraud = "accept") THEN "settlement"
  ELSE IF e.txn = "pending" \/ (e.txn = "capture" /\ e.fraud = "challenge") THEN "pending"
  ELSE IF e.txn \in {"capture", "deny", "expire"} THEN "failure" ELSE "ignore"

\* providerEventId: transaction_id:transaction_status.  The fraud status is no
\* part of it.
EventId(e) == <<e.order, e.attempt, e.txn>>

Recorded(e) == \E x \in recorded : EventId(x) = EventId(e)

OpenOrders(b) == {o \in Orders : owner[o] = b /\ payment[o] = "pending"}

LapsedHolds == {b \in Bookings : status[b] = "pending_payment" /\ lapsed[b]}

\* The booking rows the transaction of a pay request has locked.
LocksOf(p) ==
  IF pay[p].at \in {"locked", "minting"} THEN {pay[p].booking} \cup pay[p].swept ELSE {}

\* Mutant: the row lock is let go while the Provider is called.
LockedByPayBriefly(b) ==
  \E p \in Payers : pay[p].at = "locked" /\ pay[p].booking = b

LockedByPay(b) == \E p \in Payers : b \in LocksOf(p)

\* FOR UPDATE, which even a key share lock waits for.
LoadedByPay(b) ==
  \E p \in Payers : pay[p].at \in {"locked", "minting"} /\ pay[p].booking = b

\* An event insert in flight holds a key share lock on its booking, which
\* FOR UPDATE waits for and a plain UPDATE does not.
EventInFlightFor(b) ==
  \E w \in Workers : work[w].at = "recorded" /\ owner[work[w].event.order] = b

Expire(rows) == [b \in Bookings |-> IF b \in rows THEN "expired" ELSE status[b]]

-----------------------------------------------------------------------------
Init ==
  /\ status = [b \in Bookings |-> "pending_payment"]
  /\ lapsed = [b \in Bookings |-> FALSE]
  /\ payment = [o \in Orders |-> "none"]
  /\ owner = [o \in Orders |-> None]
  /\ handled = {} /\ recorded = {} /\ sent = {} /\ acked = {}
  /\ key \in Keys
  /\ mintKey = [o \in Orders |-> None]
  /\ charge = [o \in Orders |-> Blank(o)]
  /\ pay = [p \in Payers |-> NotPaying]
  /\ work = [w \in Workers |-> Idle]
  /\ mails = [b \in Bookings |-> 0]
  /\ faults = 0

-----------------------------------------------------------------------------
\* The pay step.  The key is resolved before the transaction.
PayEnter(p, b) ==
  /\ pay[p].at = "idle"
  /\ pay' = [pay EXCEPT ![p] = [NotPaying EXCEPT !.at = "entered", !.booking = b,
                                                 !.key = key]]
  /\ UNCHANGED <<bookingVars, paymentVars, handled, recorded, key, providerVars, acked,
                 work, mails, faults>>

\* lockAndLoad: FOR UPDATE on the booking.
PayLock(p) ==
  /\ pay[p].at = "entered"
  /\ ~LockedByPay(pay[p].booking) /\ ~EventInFlightFor(pay[p].booking)
  /\ pay' = [pay EXCEPT ![p].at = "locked"]
  /\ UNCHANGED <<bookingVars, paymentVars, handled, recorded, key, providerVars, acked,
                 work, mails, faults>>

\* The unit's lapsed holds that another pay request has locked: the sweep of p
\* waits for them.
SweepWaitsFor(p) == {q \in Payers \ {p} : LocksOf(q) \cap LapsedHolds # {}}

\* Mutant: the 409 is answered and its transaction left open.
PaySweepLeaks(p) ==
  /\ pay[p].at = "locked" /\ SweepWaitsFor(p) = {}
  /\ status[pay[p].booking] = "pending_payment" /\ ~lapsed[pay[p].booking]
  /\ pay' = [pay EXCEPT ![p] =
               IF OpenOrders(pay[p].booking) # {} THEN Answered
               ELSE [@ EXCEPT !.at = "minting", !.swept = LapsedHolds]]
  /\ status' = IF OpenOrders(pay[p].booking) # {} THEN Expire(LapsedHolds) ELSE status
  /\ UNCHANGED <<lapsed, paymentVars, handled, recorded, key, providerVars, acked, work,
                 mails, faults>>

\* The sweep and the reads after it.  The locked booking and its payments cannot
\* change between them.  A booking that is not a live hold is a 409, whose
\* rollback undoes the sweep too; an open session is reused; otherwise one is to
\* be minted, with the transaction open across the call of the Provider.
PaySweep(p) ==
  /\ pay[p].at = "locked" /\ SweepWaitsFor(p) = {}
  /\ LET b == pay[p].booking
         live == status[b] = "pending_payment" /\ ~lapsed[b]
     IN \/ /\ ~live
           /\ pay' = [pay EXCEPT ![p] = Answered]
           /\ UNCHANGED status
        \/ /\ live /\ OpenOrders(b) # {}
           /\ pay' = [pay EXCEPT ![p] = Answered]
           /\ status' = Expire(LapsedHolds)
        \/ /\ live /\ OpenOrders(b) = {}
           /\ pay' = [pay EXCEPT ![p].at = "minting", ![p].swept = LapsedHolds]
           /\ UNCHANGED status
  /\ UNCHANGED <<lapsed, paymentVars, handled, recorded, key, providerVars, acked, work,
                 mails, faults>>

\* createSession succeeded: the row is inserted with its session and the
\* transaction commits.
PayMint(p, o) ==
  /\ pay[p].at = "minting" /\ payment[o] = "none"
  /\ payment' = [payment EXCEPT ![o] = "pending"]
  /\ owner' = [owner EXCEPT ![o] = pay[p].booking]
  /\ mintKey' = [mintKey EXCEPT ![o] = pay[p].key]
  /\ status' = Expire(pay[p].swept)
  /\ pay' = [pay EXCEPT ![p] = Answered]
  /\ UNCHANGED <<lapsed, handled, recorded, key, providerVars, acked, work, mails, faults>>

\* The Provider refuses or times out, or the process dies: everything is rolled
\* back and the hold survives for a retry.
PayFault(p) ==
  /\ pay[p].at \notin {"idle", "done"} /\ faults < MaxFaults
  /\ pay' = [pay EXCEPT ![p] = Answered]
  /\ faults' = faults + 1
  /\ UNCHANGED <<bookingVars, paymentVars, handled, recorded, key, providerVars, acked,
                 work, mails>>

\* The Provider refuses a session beyond the order ids of the model, which bound
\* the sessions of a behaviour.
PayRefused(p) ==
  /\ pay[p].at = "minting" /\ \A o \in Orders : payment[o] # "none"
  /\ pay' = [pay EXCEPT ![p] = Answered]
  /\ UNCHANGED <<bookingVars, paymentVars, handled, recorded, key, providerVars, acked,
                 work, mails, faults>>

\* Two pay requests for two lapsed holds of the unit each wait to sweep the
\* other's; the database aborts one of them.
PayDeadlock(p) ==
  /\ pay[p].at = "locked"
  /\ \E q \in SweepWaitsFor(p) : pay[q].at = "locked" /\ p \in SweepWaitsFor(q)
  /\ pay' = [pay EXCEPT ![p] = Answered]
  /\ UNCHANGED <<bookingVars, paymentVars, handled, recorded, key, providerVars, acked,
                 work, mails, faults>>

-----------------------------------------------------------------------------
\* The Provider (external).  What a transaction may become; a guest whose card
\* was denied may try again in the same session.
Moves(e) ==
  LET opening == {"none", "deny"}
      choices ==
        IF e.txn \in opening THEN {<<"pending", "none">>, <<"capture", "accept">>,
                                   <<"capture", "challenge">>, <<"deny", "none">>}
        ELSE IF e.txn = "pending" THEN {<<"settlement", "none">>, <<"expire", "none">>}
        ELSE IF e.fraud = "challenge" THEN {<<"capture", "accept">>, <<"deny", "none">>}
        ELSE IF e.txn = "capture" THEN {<<"settlement", "none">>}
        ELSE IF e.txn = "settlement" THEN {<<"refund", "none">>} ELSE {}
  IN {m \in choices : /\ m[1] \in {"deny", "refund"} => m[1] \in ProviderMay
                      /\ m[2] = "challenge" => "challenge" \in ProviderMay}

\* The transaction of an order moves, which is notified.
ProviderMove(o) ==
  /\ payment[o] # "none"
  /\ LET e == charge[o]
         attempt == IF e.txn \in {"none", "deny"} THEN e.attempt + 1 ELSE e.attempt
     IN /\ attempt <= Attempts
        /\ \E m \in Moves(e), a \in {"charged", "other"} :
             /\ a = "other" => "misreport" \in ProviderMay
             /\ charge' = [charge EXCEPT ![o] = [order |-> o, attempt |-> attempt,
                              txn |-> m[1], fraud |-> m[2], amount |-> a]]
             /\ sent' = sent \cup {charge'[o]}
  /\ UNCHANGED <<bookingVars, paymentVars, handled, recorded, key, acked, pay, work, mails,
                 faults>>

\* A delivery whose signature verifies under the tenant's current key.  The
\* Provider repeats a notification until it has a 200, and may do so before the
\* handler of an earlier delivery is through.
Deliver(h, e) ==
  /\ work[h].at = "idle" /\ e \in sent \ acked
  /\ mintKey[e.order] = key
  /\ LET again == \E w \in Handlers : work[w].at # "idle" /\ work[w].event = e
     IN /\ again => faults < MaxFaults
        /\ faults' = IF again THEN faults + 1 ELSE faults
  /\ work' = [work EXCEPT ![h] = [at |-> "verified", event |-> e]]
  /\ UNCHANGED <<bookingVars, paymentVars, handled, recorded, key, providerVars, acked,
                 pay, mails>>

\* Mutant: the event row is committed on its own, before the state change.
RecordEventAlone(w) ==
  /\ work[w].at = "verified"
  /\ LET e == work[w].event
     IN /\ ~LoadedByPay(owner[e.order])
        /\ work' = [work EXCEPT ![w].at = IF Recorded(e) THEN "done" ELSE "recorded"]
        /\ recorded' = recorded \cup {e}
  /\ UNCHANGED <<bookingVars, paymentVars, handled, key, providerVars, acked, pay, mails,
                 faults>>

\* The payment_event insert: it waits for a pay request that has its booking
\* locked and for an undecided insert of the same event id.  A duplicate aborts
\* the transaction and is answered 200.
RecordEvent(w) ==
  /\ work[w].at = "verified"
  /\ LET e == work[w].event
     IN /\ ~LoadedByPay(owner[e.order])
        /\ \A x \in Workers : work[x].at = "recorded" => EventId(work[x].event) # EventId(e)
        /\ work' = [work EXCEPT ![w].at = IF Recorded(e) THEN "done" ELSE "recorded"]
  /\ UNCHANGED <<bookingVars, paymentVars, handled, recorded, key, providerVars, acked,
                 pay, mails, faults>>

\* Mutant: the amount of the settlement is not compared with the snapshot.
SettlesAnyAmount(e) == Outcome(e) = "settlement"

\* An amount that differs from the payment's snapshot drives no transition.
Settles(e) == e.amount = "charged" /\ Outcome(e) = "settlement"

Fails(e) == e.amount = "charged" /\ Outcome(e) = "failure"

\* The guarded confirm flips a row.
Confirms(e) == Settles(e) /\ status[owner[e.order]] = "pending_payment"

\* Mutant: the UPDATEs of the payment are not guarded on its status.
PaymentAfterUnguarded(e) ==
  IF Settles(e) THEN "paid" ELSE IF Fails(e) THEN "failed" ELSE payment[e.order]

\* Mutant: a settlement that comes too late to confirm leaves the payment alone.
PaymentAfterConfirm(e) ==
  IF payment[e.order] = "pending" /\ Confirms(e) THEN "paid"
  ELSE IF payment[e.order] = "pending" /\ Fails(e) THEN "failed" ELSE payment[e.order]

\* The payment's status after the event, each UPDATE guarded on 'pending'.
PaymentAfter(e) ==
  IF payment[e.order] = "pending" /\ Settles(e) THEN "paid"
  ELSE IF payment[e.order] = "pending" /\ Fails(e) THEN "failed" ELSE payment[e.order]

\* Mutant: every settlement is mailed, not only the one that confirmed.
MailsEverySettlement(e) == Settles(e)

Mails(e) == Confirms(e)

\* applyOutcome and the commit: the event row and the transition become visible
\* together.
ApplyOutcome(w) ==
  /\ work[w].at = "recorded"
  /\ LET e == work[w].event
         b == owner[e.order]
     IN /\ Settles(e) => ~LockedByPay(b)
        /\ recorded' = recorded \cup {e}
        /\ payment' = [payment EXCEPT ![e.order] = PaymentAfter(e)]
        /\ status' = IF Confirms(e) THEN [status EXCEPT ![b] = "confirmed"] ELSE status
        /\ work' = [work EXCEPT ![w].at = IF Mails(e) THEN "committed" ELSE "done"]
  /\ UNCHANGED <<lapsed, owner, mintKey, handled, key, providerVars, acked, pay, mails,
                 faults>>

\* afterCommit: the mail goes out, or bounces and is only logged.
Notify(w) ==
  /\ work[w].at = "committed"
  /\ LET b == owner[work[w].event.order]
     IN \/ mails' = [mails EXCEPT ![b] = @ + 1] /\ UNCHANGED faults
        \/ faults < MaxFaults /\ faults' = faults + 1 /\ UNCHANGED mails
  /\ work' = [work EXCEPT ![w].at = "done"]
  /\ UNCHANGED <<bookingVars, paymentVars, handled, recorded, key, providerVars, acked, pay>>

\* The webhook answers 200.
Ack(h) ==
  /\ work[h].at = "done"
  /\ acked' = acked \cup {work[h].event}
  /\ work' = [work EXCEPT ![h] = Idle]
  /\ UNCHANGED <<bookingVars, paymentVars, handled, recorded, key, providerVars, pay, mails,
                 faults>>

\* The process dies: what it had not committed is rolled back, and a delivery
\* stays without its 200.
WorkerCrash(w) ==
  /\ work[w].at # "idle" /\ faults < MaxFaults
  /\ work' = [work EXCEPT ![w] = Idle]
  /\ faults' = faults + 1
  /\ UNCHANGED <<bookingVars, paymentVars, handled, recorded, key, providerVars, acked,
                 pay, mails>>

-----------------------------------------------------------------------------
\* The confirmation page: a booking still pending is reconciled, if it has an
\* open order, and swept.
ReadPage(r, b) ==
  /\ work[r].at = "idle" /\ status[b] = "pending_payment"
  /\ \/ OpenOrders(b) = {} /\ work' = [work EXCEPT ![r].at = "done"]
     \/ \E o \in OpenOrders(b) :
          work' = [work EXCEPT ![r] = [at |-> "fetching", event |-> Blank(o)]]
  /\ UNCHANGED <<bookingVars, paymentVars, handled, recorded, key, providerVars, acked,
                 pay, mails, faults>>

\* fetchStatus: the Provider's current transaction, unless it has none yet or
\* the order is not of the stored key's account.  A call that fails is swallowed.
FetchStatus(r) ==
  /\ work[r].at = "fetching"
  /\ LET o == work[r].event.order
         known == charge[o].txn # "none" /\ mintKey[o] = key
     IN \/ known /\ work' = [work EXCEPT ![r] = [at |-> "verified", event |-> charge[o]]]
                 /\ UNCHANGED faults
        \/ ~known /\ work' = [work EXCEPT ![r].at = "done"] /\ UNCHANGED faults
        \/ /\ faults < MaxFaults /\ faults' = faults + 1
           /\ work' = [work EXCEPT ![r].at = "done"]
  /\ UNCHANGED <<bookingVars, paymentVars, handled, recorded, key, providerVars, acked,
                 pay, mails>>

\* The opportunistic sweep after the reconcile.
SweepOnRead(r) ==
  /\ work[r].at = "done"
  /\ \A b \in LapsedHolds : ~LockedByPay(b)
  /\ status' = Expire(LapsedHolds)
  /\ work' = [work EXCEPT ![r] = Idle]
  /\ UNCHANGED <<lapsed, paymentVars, handled, recorded, key, providerVars, acked, pay,
                 mails, faults>>

-----------------------------------------------------------------------------
\* The hold's TTL passes.
Lapse(b) ==
  /\ status[b] = "pending_payment" /\ ~lapsed[b]
  /\ lapsed' = [lapsed EXCEPT ![b] = TRUE]
  /\ UNCHANGED <<status, paymentVars, handled, recorded, key, providerVars, acked, pay,
                 work, mails, faults>>

\* The cron sweep.
SweepExpiredHolds ==
  /\ LapsedHolds # {} /\ \A b \in LapsedHolds : ~LockedByPay(b)
  /\ status' = Expire(LapsedHolds)
  /\ UNCHANGED <<lapsed, paymentVars, handled, recorded, key, providerVars, acked, pay,
                 work, mails, faults>>

\* The owner cancels.
CancelById(b) ==
  /\ status[b] \in {"pending_payment", "confirmed"} /\ ~LockedByPay(b)
  /\ status' = [status EXCEPT ![b] = "cancelled"]
  /\ UNCHANGED <<lapsed, paymentVars, handled, recorded, key, providerVars, acked, pay,
                 work, mails, faults>>

\* listLapsed: money in for a booking that no longer has its nights.
Inbox ==
  {o \in Orders : /\ payment[o] = "paid" /\ o \notin handled
                  /\ status[owner[o]] \in {"expired", "cancelled"}}

\* The owner has dealt with an inbox item: only the marker is written.
MarkHandled(o) ==
  /\ o \in Inbox
  /\ handled' = handled \cup {o}
  /\ UNCHANGED <<bookingVars, paymentVars, recorded, key, providerVars, acked, pay, work,
                 mails, faults>>

\* The owner stores another server key.
SaveCredential(k) ==
  /\ k # key
  /\ key' = k
  /\ UNCHANGED <<bookingVars, paymentVars, handled, recorded, providerVars, acked, pay,
                 work, mails, faults>>

PayStep(p) ==
  \/ PayLock(p) \/ PaySweep(p) \/ PayDeadlock(p) \/ PayRefused(p)
  \/ \E o \in Orders : PayMint(p, o)

WorkStep(w) == RecordEvent(w) \/ ApplyOutcome(w) \/ Notify(w)

Next ==
  \/ \E p \in Payers : PayStep(p) \/ PayFault(p) \/ \E b \in Bookings : PayEnter(p, b)
  \/ \E o \in Orders : ProviderMove(o) \/ MarkHandled(o)
  \/ \E h \in Handlers : Ack(h) \/ \E e \in sent : Deliver(h, e)
  \/ \E w \in Workers : WorkStep(w) \/ WorkerCrash(w)
  \/ \E r \in Readers :
       FetchStatus(r) \/ SweepOnRead(r) \/ \E b \in Bookings : ReadPage(r, b)
  \/ \E b \in Bookings : Lapse(b) \/ CancelById(b)
  \/ SweepExpiredHolds
  \/ \E k \in Keys : SaveCredential(k)

\* A handler that has begun goes on; one that waits for a row lock gets it, since
\* the database queues its waiters; the Provider repeats a notification until it
\* has a 200.
Fairness ==
  /\ \A p \in Payers : SF_vars(PayStep(p))
  /\ \A w \in Workers : SF_vars(WorkStep(w))
  /\ \A h \in Handlers : WF_vars(Ack(h))
  /\ \A r \in Readers : WF_vars(FetchStatus(r)) /\ WF_vars(SweepOnRead(r))
  /\ WF_vars(\E h \in Handlers, e \in sent : Deliver(h, e))

Spec == Init /\ [][Next]_vars

FairSpec == Spec /\ Fairness

-----------------------------------------------------------------------------
\* Money is in at the Provider for this event.
MoneyIn(e) == e.txn = "settlement" \/ (e.txn = "capture" /\ e.fraud = "accept")

\* Retry is safe (ADR-0015): however pay requests race each other, the webhook
\* and a Provider that fails in the middle of one, a booking has at most one open
\* payment.
OneOpenSession == \A b \in Bookings : Cardinality(OpenOrders(b)) <= 1

\* The nights are given away only for money: a confirmed booking has a payment
\* the Provider itself reported as captured, in the amount that was asked for.
ConfirmedIsPaidFor ==
  \A b \in Bookings : status[b] = "confirmed" =>
    \E e \in sent : owner[e.order] = b /\ MoneyIn(e) /\ e.amount = "charged"

\* ADR-0020: push, pull, repeats and crashes send at most one confirmation mail,
\* and never one for a booking that was not confirmed.
MailedAtMostOnce ==
  \A b \in Bookings :
    /\ mails[b] <= 1
    /\ mails[b] = 1 => status[b] \in {"confirmed", "cancelled"}

\* ADR-0018: no reordering or replay can un-pay a payment, un-confirm a booking
\* or resurrect a dead one.
NothingIsUndone ==
  [][/\ \A o \in Orders : payment[o] \in {"paid", "failed"} => payment'[o] = payment[o]
     /\ \A b \in Bookings :
          /\ status[b] \in {"cancelled", "expired"} => status'[b] = status[b]
          /\ status[b] = "confirmed" => status'[b] \in {"confirmed", "cancelled"}]_vars

\* A session is only ever opened for a booking that is still a hold when the
\* session becomes visible, although the Provider was called in between.
SessionsAreForHolds ==
  [][\A o \in Orders : payment[o] = "none" /\ payment'[o] = "pending" =>
       status[owner'[o]] = "pending_payment"]_vars

\* A settlement that was taken in is never silently lost: its payment is paid, and
\* its booking is confirmed or the owner finds it in the inbox.  The exception is an
\* order of which an earlier attempt was reported as failed: the UPDATE that would
\* make the payment paid is guarded on 'pending'.
SettledMoneyIsVisible ==
  \A e \in recorded : MoneyIn(e) /\ e.amount = "charged" =>
    \/ \E f \in recorded : f.order = e.order /\ Fails(f)
    \/ /\ payment[e.order] = "paid"
       /\ status[owner[e.order]] = "confirmed" \/ e.order \in Inbox \cup handled

\* Money that came in at the Provider reaches the ledger, in spite of crashes,
\* lost answers and repeats.
CapturedIsRecorded ==
  \A o \in Orders : (\E e \in sent : e.order = o /\ MoneyIn(e)) ~> payment[o] = "paid"

\* A pay request is answered, whomever it has to wait for.
EveryPayAnswered ==
  \A p \in Payers : pay[p].at = "entered" ~> pay[p].at = "done"

\* payment-gateway.ts, "a settlement is never mistaken for a duplicate of the
\* pending that preceded it": a delivery dropped as a duplicate reports no money
\* that the recorded event did not report.
SettlementIsNoDuplicate ==
  [][\A w \in Workers :
       work[w].at = "verified" /\ work'[w].at = "done" /\ MoneyIn(work[w].event) =>
         \E x \in recorded : EventId(x) = EventId(work[w].event) /\ MoneyIn(x)]_vars
=============================================================================
