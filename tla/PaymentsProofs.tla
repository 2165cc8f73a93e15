---------------------------- MODULE PaymentsProofs ----------------------------
(***************************************************************************)
(* Proofs about the payment path, for any number of bookings, orders, pay  *)
(* requests, deliveries and page reads, any keys and any Provider.         *)
(*                                                                         *)
(* MoneyProtocol is the inductive invariant: what a pay request owes the   *)
(* rows it has locked while it calls the Provider, which notifications     *)
(* there can be, and what a worker between its commit and its mail may     *)
(* rely on.                                                                *)
(***************************************************************************)
EXTENDS Payments, FiniteSetTheorems, TLAPS

\* A pay request past its first step is for a booking, and no two have the same
\* row locked; what it swept it knows only while it calls the Provider.
LocksAreExclusive ==
  /\ \A p \in Payers : pay[p].at \in {"entered", "locked", "minting"} =>
       pay[p].booking \in Bookings
  /\ \A p \in Payers : pay[p].at # "minting" => pay[p].swept = {}
  /\ \A p, q \in Payers : p # q => LocksOf(p) \cap LocksOf(q) = {}

\* While the Provider is called the booking is a hold without an open order,
\* and what was swept is still a lapsed hold.
MintingIsForAHold ==
  \A p \in Payers : pay[p].at = "minting" =>
    /\ status[pay[p].booking] = "pending_payment"
    /\ OpenOrders(pay[p].booking) = {}
    /\ pay[p].swept \subseteq LapsedHolds

\* OneOpenSession, without counting.
OneOpenOrder == \A b \in Bookings : \A o, x \in OpenOrders(b) : o = x

\* An order that was minted has a booking.
OrdersHaveBookings ==
  \A o \in Orders : payment[o] # "none" => owner[o] \in Bookings

\* Whatever the Provider reports is about an order that was minted, and whatever a
\* worker holds was reported.
EventsAreReported ==
  /\ \A o \in Orders : /\ charge[o].order = o
                       /\ charge[o].txn # "none" => charge[o] \in sent
  /\ \A e \in sent : payment[e.order] # "none"
  /\ recorded \subseteq sent
  /\ \A w \in Workers :
       /\ work[w].at = "fetching" =>
            work[w].event.order \in Orders /\ payment[work[w].event.order] # "none"
       /\ work[w].at \in {"verified", "recorded", "committed"} => work[w].event \in sent
  /\ \A h \in Handlers : work[h].at # "idle" => work[h].event \in sent

\* Whose confirmation a worker is about to mail.
MailsFor(w) == owner[work[w].event.order]

\* The one commit that confirmed a booking mails it, later.
MailIsForTheConfirm ==
  /\ \A w \in Workers : work[w].at = "committed" =>
       /\ mails[MailsFor(w)] = 0
       /\ status[MailsFor(w)] \in {"confirmed", "cancelled"}
  /\ \A w, x \in Workers :
       work[w].at = "committed" /\ work[x].at = "committed" /\ MailsFor(w) = MailsFor(x) => w = x

\* A payment is failed because the Provider said so.
FailureWasReported ==
  \A o \in Orders : payment[o] = "failed" => \E f \in recorded : f.order = o /\ Fails(f)

MoneyProtocol ==
  /\ TypeOK
  /\ LocksAreExclusive
  /\ MintingIsForAHold
  /\ OneOpenOrder
  /\ OrdersHaveBookings
  /\ EventsAreReported
  /\ ConfirmedIsPaidFor
  /\ MailedAtMostOnce
  /\ MailIsForTheConfirm
  /\ FailureWasReported
  /\ SettledMoneyIsVisible
-----------------------------------------------------------------------------
\* The types of the pay requests and of the workers.
PayState ==
  [at: {"idle", "entered", "locked", "minting", "done"}, booking: Bookings \cup {None},
   swept: SUBSET Bookings, key: Keys \cup {None}]

WorkState ==
  [at: {"idle", "fetching", "verified", "recorded", "committed", "done"},
   event: Event \cup {Blank(o) : o \in Orders \cup {None}}]

\* A step of a request or of a worker leaves a record of its type.
LEMMA PayStateMoves ==
  /\ Answered \in PayState
  /\ \A s \in PayState, at \in {"locked", "minting"} : [s EXCEPT !.at = at] \in PayState
  /\ \A s \in PayState, rows \in SUBSET Bookings :
       [s EXCEPT !.at = "minting", !.swept = rows] \in PayState
  /\ \A b \in Bookings, k \in Keys :
       [NotPaying EXCEPT !.at = "entered", !.booking = b, !.key = k] \in PayState
BY DEF PayState, Answered, NotPaying

LEMMA WorkStateMoves ==
  /\ Idle \in WorkState
  /\ \A s \in WorkState, at \in {"recorded", "committed", "done"} :
       [s EXCEPT !.at = at] \in WorkState
  /\ \A e \in Event : [at |-> "verified", event |-> e] \in WorkState
  /\ \A o \in Orders : [at |-> "fetching", event |-> Blank(o)] \in WorkState
BY DEF WorkState, Idle

LEMMA StatesAreTyped ==
  TypeOK => pay \in [Payers -> PayState] /\ work \in [Workers -> WorkState]
BY DEF TypeOK, PayState, WorkState

\* Every step keeps every variable in its type.
LEMMA TypeStep ==
  ASSUME TypeOK, LocksAreExclusive, OrdersHaveBookings, EventsAreReported, [Next]_vars
  PROVE  TypeOK'
<1> USE PaymentsAssumption
    DEF TypeOK, vars, bookingVars, paymentVars, providerVars
<1>1. CASE UNCHANGED vars
  BY <1>1
<1>2. ASSUME NEW p \in Payers,
             PayLock(p) \/ PayDeadlock(p) \/ PayRefused(p) \/ PayFault(p)
               \/ \E b \in Bookings : PayEnter(p, b)
      PROVE  TypeOK'
  <2>1. PICK s \in PayState : pay' = [pay EXCEPT ![p] = s]
    BY <1>2, PayStateMoves, StatesAreTyped
       DEF PayLock, PayDeadlock, PayRefused, PayFault, PayEnter
  <2>2. pay' \in [Payers -> PayState]
    BY <2>1, StatesAreTyped
  <2>3. UNCHANGED <<bookingVars, paymentVars, handled, recorded, key, providerVars, acked,
                    work, mails>>
    BY <1>2 DEF PayLock, PayDeadlock, PayRefused, PayFault, PayEnter
  <2>4. faults' \in Nat
    <3>1. faults' = faults \/ faults' = faults + 1
      BY <1>2 DEF PayLock, PayDeadlock, PayRefused, PayFault, PayEnter
    <3>2. QED BY <3>1
  <2>5. QED BY <2>2, <2>3, <2>4 DEF PayState
<1>3. ASSUME NEW p \in Payers, PaySweep(p) \/ \E o \in Orders : PayMint(p, o)
      PROVE  TypeOK'
  <2>1. LapsedHolds \in SUBSET Bookings
    BY DEF LapsedHolds
  <2>2. \A rows \in SUBSET Bookings : Expire(rows) \in
          [Bookings -> {"pending_payment", "confirmed", "cancelled", "expired"}]
    BY DEF Expire
  <2>3. pay[p] \in PayState /\ pay[p].swept \in SUBSET Bookings
    BY StatesAreTyped DEF PayState
  <2>4. PICK s \in PayState : pay' = [pay EXCEPT ![p] = s]
    BY ZenonT(60), <1>3, <2>1, <2>3, PayStateMoves, StatesAreTyped DEF PaySweep, PayMint
  <2>5. pay' \in [Payers -> PayState]
    BY <2>4, StatesAreTyped
  <2>6. status' \in [Bookings -> {"pending_payment", "confirmed", "cancelled", "expired"}]
    BY <1>3, <2>1, <2>2, <2>3 DEF PaySweep, PayMint
  <2>7. CASE PaySweep(p)
    BY <2>5, <2>6, <2>7 DEF PaySweep, PayState
  <2>8. ASSUME NEW o \in Orders, PayMint(p, o) PROVE TypeOK'
    <3>1. pay[p].booking \in Bookings /\ pay[p].key \in Keys \cup {None}
      BY <2>3, <2>8 DEF PayMint, LocksAreExclusive, PayState
    <3>2. QED BY <2>5, <2>6, <2>8, <3>1 DEF PayMint, PayState
  <2>9. QED BY <1>3, <2>7, <2>8
<1>4. ASSUME NEW o \in Orders, ProviderMove(o) PROVE TypeOK'
  <2>1. PICK attempt \in 1 .. Attempts, m \in Moves(charge[o]), a \in {"charged", "other"} :
          /\ charge' = [charge EXCEPT ![o] = [order |-> o, attempt |-> attempt,
                          txn |-> m[1], fraud |-> m[2], amount |-> a]]
          /\ sent' = sent \cup {charge'[o]}
    <3> DEFINE next == IF charge[o].txn \in {"none", "deny"} THEN charge[o].attempt + 1
                       ELSE charge[o].attempt
    <3>1. next \in 1 .. Attempts
      <4>1. charge[o] \in Event \cup {Blank(x) : x \in Orders}
        OBVIOUS
      <4>2. charge[o].attempt \in 0 .. Attempts
        BY <4>1 DEF Event, Blank
      <4>3. charge[o].txn \notin {"none", "deny"} => charge[o].attempt \in 1 .. Attempts
        BY <4>1 DEF Event, Blank
      <4>4. next <= Attempts
        BY <1>4 DEF ProviderMove
      <4>5. QED BY <4>2, <4>3, <4>4
    <3>2. QED BY <1>4, <3>1 DEF ProviderMove
  <2>2. /\ m[1] \in {"pending", "capture", "settlement", "deny", "expire", "refund"}
        /\ m[2] \in {"accept", "challenge", "none"}
    BY DEF Moves
  <2>3. charge'[o] \in Event
    BY <2>1, <2>2 DEF Event
  <2>4. QED BY <1>4, <2>1, <2>3 DEF ProviderMove
<1>5. ASSUME NEW o \in Orders, MarkHandled(o) PROVE TypeOK'
  BY <1>5 DEF MarkHandled
<1>6. ASSUME NEW h \in Handlers, Ack(h) PROVE TypeOK'
  BY <1>6 DEF Ack, Workers, Idle, EventsAreReported
<1>7. ASSUME NEW h \in Handlers, NEW e \in sent, Deliver(h, e) PROVE TypeOK'
  BY <1>7 DEF Deliver, Workers
<1>8. ASSUME NEW w \in Workers, RecordEvent(w) PROVE TypeOK'
  <2>1. work' \in [Workers -> WorkState]
    BY <1>8, WorkStateMoves, StatesAreTyped DEF RecordEvent
  <2>2. QED BY <1>8, <2>1 DEF RecordEvent, WorkState
<1>9. ASSUME NEW w \in Workers, ApplyOutcome(w) PROVE TypeOK'
  <2>1. work[w].event \in Event
    BY <1>9 DEF ApplyOutcome, EventsAreReported
  <2>2. PaymentAfter(work[w].event) \in {"none", "pending", "paid", "failed"}
    BY <2>1 DEF PaymentAfter, Event
  <2>3. work' \in [Workers -> WorkState]
    BY ZenonT(60), <1>9, WorkStateMoves, StatesAreTyped DEF ApplyOutcome
  <2>4. /\ payment' \in [Orders -> {"none", "pending", "paid", "failed"}]
        /\ status' \in [Bookings -> {"pending_payment", "confirmed", "cancelled", "expired"}]
        /\ recorded' \in SUBSET Event
    BY <1>9, <2>1, <2>2 DEF ApplyOutcome
  <2>5. QED BY <1>9, <2>3, <2>4 DEF ApplyOutcome, WorkState
<1>10. ASSUME NEW w \in Workers, Notify(w) PROVE TypeOK'
  BY <1>10 DEF Notify
<1>11. ASSUME NEW w \in Workers, WorkerCrash(w) PROVE TypeOK'
  BY <1>11 DEF WorkerCrash, Idle
<1>12. ASSUME NEW r \in Readers, FetchStatus(r) PROVE TypeOK'
  BY <1>12 DEF FetchStatus, Workers, EventsAreReported
<1>13. ASSUME NEW r \in Readers, SweepOnRead(r) PROVE TypeOK'
  BY <1>13 DEF SweepOnRead, Workers, Idle, Expire
<1>14. ASSUME NEW r \in Readers, NEW b \in Bookings, ReadPage(r, b) PROVE TypeOK'
  BY <1>14 DEF ReadPage, Workers, OpenOrders
<1>15. ASSUME NEW b \in Bookings, Lapse(b) \/ CancelById(b) PROVE TypeOK'
  BY ZenonT(60), <1>15 DEF Lapse, CancelById
<1>16. CASE SweepExpiredHolds
  BY <1>16 DEF SweepExpiredHolds, Expire
<1>17. ASSUME NEW k \in Keys, SaveCredential(k) PROVE TypeOK'
  BY <1>17 DEF SaveCredential
<1>18. QED
  BY <1>1, <1>2, <1>3, <1>4, <1>5, <1>6, <1>7, <1>8, <1>9, <1>10, <1>11, <1>12, <1>13, <1>14,
     <1>15, <1>16, <1>17 DEF Next, PayStep, WorkStep

-----------------------------------------------------------------------------
\* What a step does to the pay requests.
LEMMA PayMoves ==
  ASSUME [Next]_vars
  PROVE  \/ pay' = pay
         \/ \E p \in Payers : \/ PayLock(p) \/ PaySweep(p)
                              \/ pay' = [pay EXCEPT ![p] = Answered]
                              \/ \E b \in Bookings : PayEnter(p, b)
BY DEF Next, PayStep, PayMint, PayFault, PayDeadlock, PayRefused, ProviderMove, MarkHandled,
       Ack, Deliver, WorkStep, RecordEvent, ApplyOutcome, Notify, WorkerCrash, FetchStatus,
       SweepOnRead, ReadPage, Lapse, CancelById, SweepExpiredHolds, SaveCredential, vars

\* Which actions write what.
LEMMA WhoWrites ==
  ASSUME [Next]_vars
  PROVE  /\ (charge' = charge /\ sent' = sent) \/ \E o \in Orders : ProviderMove(o)
         /\ recorded' = recorded \/ \E w \in Workers : ApplyOutcome(w)
         /\ handled' = handled \/ \E o \in Orders : MarkHandled(o)
         /\ mails' = mails \/ \E w \in Workers : Notify(w)
         /\ lapsed' = lapsed \/ \E b \in Bookings : Lapse(b)
         /\ \/ work' = work
            \/ \E h \in Handlers : Ack(h) \/ \E e \in sent : Deliver(h, e)
            \/ \E w \in Workers : RecordEvent(w) \/ ApplyOutcome(w) \/ Notify(w) \/ WorkerCrash(w)
            \/ \E r \in Readers : \/ FetchStatus(r) \/ SweepOnRead(r)
                                  \/ \E b \in Bookings : ReadPage(r, b)
BY DEF Next, PayStep, PayLock, PaySweep, PayMint, PayFault, PayDeadlock, PayRefused, PayEnter,
       ProviderMove, MarkHandled, Ack, Deliver, WorkStep, RecordEvent, ApplyOutcome, Notify,
       WorkerCrash, FetchStatus, SweepOnRead, ReadPage, Lapse, CancelById, SweepExpiredHolds,
       SaveCredential, vars, bookingVars, providerVars

\* What a step does to the status of a booking: it expires as a lapsed hold, is
\* cancelled, or is confirmed by a settlement, and no pay request that has it locked
\* goes on.
LEMMA StatusMoves ==
  ASSUME TypeOK, LocksAreExclusive, MintingIsForAHold, [Next]_vars,
         NEW b \in Bookings, status'[b] # status[b]
  PROVE  /\ \A q \in Payers : b \in LocksOf(q) => pay'[q] = Answered
         /\ \/ b \in LapsedHolds /\ status'[b] = "expired"
            \/ status[b] \in {"pending_payment", "confirmed"} /\ status'[b] = "cancelled"
            \/ /\ status[b] = "pending_payment" /\ status'[b] = "confirmed"
               /\ \E w \in Workers : /\ ApplyOutcome(w) /\ Confirms(work[w].event)
                                     /\ owner[work[w].event.order] = b
<1>1. ASSUME NEW p \in Payers, PaySweep(p)
      PROVE  /\ b \in LapsedHolds /\ status'[b] = "expired"
             /\ \A q \in Payers : b \in LocksOf(q) => pay'[q] = Answered
  <2>1. status' = Expire(LapsedHolds) /\ pay' = [pay EXCEPT ![p] = Answered]
    BY <1>1 DEF PaySweep
  <2>2. b \in LapsedHolds
    BY <2>1 DEF Expire
  <2>3. \A q \in Payers \ {p} : b \notin LocksOf(q)
    BY <1>1, <2>2 DEF PaySweep, SweepWaitsFor
  <2>4. QED BY <2>1, <2>2, <2>3 DEF Expire, TypeOK
<1>2. ASSUME NEW p \in Payers, NEW o \in Orders, PayMint(p, o)
      PROVE  /\ b \in LapsedHolds /\ status'[b] = "expired"
             /\ \A q \in Payers : b \in LocksOf(q) => pay'[q] = Answered
  <2>1. b \in pay[p].swept
    BY <1>2 DEF PayMint, Expire
  <2>2. b \in LapsedHolds /\ b \in LocksOf(p)
    BY <1>2, <2>1 DEF PayMint, MintingIsForAHold, LocksOf
  <2>3. \A q \in Payers \ {p} : b \notin LocksOf(q)
    BY <2>2 DEF LocksAreExclusive
  <2>4. QED BY <1>2, <2>1, <2>2, <2>3 DEF PayMint, Expire, TypeOK
<1>3. ASSUME (\E r \in Readers : SweepOnRead(r)) \/ SweepExpiredHolds
      PROVE  b \in LapsedHolds /\ status'[b] = "expired" /\ ~LockedByPay(b)
  BY <1>3 DEF SweepOnRead, SweepExpiredHolds, Expire
<1>4. ASSUME NEW c \in Bookings, CancelById(c)
      PROVE  /\ status[b] \in {"pending_payment", "confirmed"} /\ status'[b] = "cancelled"
             /\ ~LockedByPay(b)
  BY <1>4 DEF CancelById, TypeOK
<1>5. ASSUME NEW w \in Workers, ApplyOutcome(w)
      PROVE  /\ status[b] = "pending_payment" /\ status'[b] = "confirmed"
             /\ Confirms(work[w].event) /\ owner[work[w].event.order] = b
             /\ ~LockedByPay(b)
  <2>1. Confirms(work[w].event) /\ owner[work[w].event.order] = b
    BY <1>5 DEF ApplyOutcome, TypeOK
  <2>2. QED BY <1>5, <2>1 DEF ApplyOutcome, TypeOK, Confirms
<1>6. \/ \E p \in Payers : PaySweep(p) \/ \E o \in Orders : PayMint(p, o)
      \/ (\E r \in Readers : SweepOnRead(r)) \/ SweepExpiredHolds
      \/ \E c \in Bookings : CancelById(c)
      \/ \E w \in Workers : ApplyOutcome(w)
  BY DEF Next, PayStep, PayLock, PayFault, PayDeadlock, PayRefused, PayEnter, ProviderMove,
         MarkHandled, Ack, Deliver, WorkStep, RecordEvent, Notify, WorkerCrash, FetchStatus,
         ReadPage, Lapse, SaveCredential, vars, bookingVars
<1>7. QED BY <1>1, <1>2, <1>3, <1>4, <1>5, <1>6 DEF LockedByPay

\* What a step does to an order: it is minted, or paid or failed by an event.
LEMMA OrderMoves ==
  ASSUME TypeOK, [Next]_vars, NEW o \in Orders,
         payment'[o] # payment[o] \/ owner'[o] # owner[o]
  PROVE  \/ \E p \in Payers : PayMint(p, o)
         \/ /\ owner'[o] = owner[o] /\ payment[o] = "pending" /\ payment'[o] \in {"paid", "failed"}
            /\ \E w \in Workers : /\ ApplyOutcome(w) /\ work[w].event.order = o
                                  /\ payment'[o] = "paid" => Settles(work[w].event)
                                  /\ payment'[o] = "failed" => Fails(work[w].event)
<1>1. ASSUME NEW p \in Payers, NEW x \in Orders, PayMint(p, x) PROVE x = o
  BY <1>1 DEF PayMint, TypeOK
<1>2. ASSUME NEW w \in Workers, ApplyOutcome(w)
      PROVE  /\ owner'[o] = owner[o] /\ payment[o] = "pending" /\ payment'[o] \in {"paid", "failed"}
             /\ work[w].event.order = o
             /\ payment'[o] = "paid" => Settles(work[w].event)
             /\ payment'[o] = "failed" => Fails(work[w].event)
  <2>1. work[w].event.order = o /\ payment'[o] = PaymentAfter(work[w].event)
    BY <1>2 DEF ApplyOutcome, TypeOK
  <2>2. QED BY <1>2, <2>1 DEF ApplyOutcome, PaymentAfter
<1>3. \/ \E p \in Payers, x \in Orders : PayMint(p, x)
      \/ \E w \in Workers : ApplyOutcome(w)
  BY DEF Next, PayStep, PayLock, PaySweep, PayFault, PayDeadlock, PayRefused, PayEnter,
         ProviderMove, MarkHandled, Ack, Deliver, WorkStep, RecordEvent, Notify, WorkerCrash,
         FetchStatus, SweepOnRead, ReadPage, Lapse, CancelById, SweepExpiredHolds,
         SaveCredential, vars, paymentVars
<1>4. QED BY <1>1, <1>2, <1>3

-----------------------------------------------------------------------------
\* FOR UPDATE and the sweep wait for each other's rows.
LEMMA LocksStep ==
  ASSUME TypeOK, LocksAreExclusive, [Next]_vars
  PROVE  LocksAreExclusive'
<1> USE StatesAreTyped DEF LocksAreExclusive, LocksOf, PayState
<1>1. CASE pay' = pay
  BY <1>1
<1>2. ASSUME NEW p \in Payers, PayLock(p) PROVE LocksAreExclusive'
  <2>1. \A q \in Payers \ {p} : pay[p].booking \notin LocksOf(q)
    BY <1>2 DEF PayLock, LockedByPay
  <2>2. /\ pay'[p].booking = pay[p].booking /\ pay'[p].swept = {} /\ pay'[p].at = "locked"
        /\ \A q \in Payers \ {p} : pay'[q] = pay[q]
    BY <1>2 DEF PayLock
  <2>3. pay[p].booking \in Bookings
    BY <1>2 DEF PayLock
  <2>4. \A q \in Payers \ {p} : LocksOf(p)' \cap LocksOf(q)' = {}
    <3>1. LocksOf(p)' = {pay[p].booking}
      BY <2>2
    <3>2. \A q \in Payers \ {p} : LocksOf(q)' = LocksOf(q)
      BY <2>2
    <3>3. QED BY ZenonT(60), <2>1, <3>1, <3>2
  <2>5. \A q, x \in Payers \ {p} : q # x => LocksOf(q)' \cap LocksOf(x)' = {}
    BY <2>2
  <2>6. /\ \A q \in Payers : pay'[q].at \in {"entered", "locked", "minting"} =>
             pay'[q].booking \in Bookings
        /\ \A q \in Payers : pay'[q].at # "minting" => pay'[q].swept = {}
    BY <2>2, <2>3
  <2>7. QED BY SMTT(30), <2>4, <2>5, <2>6
<1>3. ASSUME NEW p \in Payers, pay' = [pay EXCEPT ![p] = Answered] PROVE LocksAreExclusive'
  BY SMTT(30), <1>3 DEF Answered, NotPaying
<1>4. ASSUME NEW p \in Payers, NEW b \in Bookings, PayEnter(p, b) PROVE LocksAreExclusive'
  BY SMTT(30), <1>4 DEF PayEnter, NotPaying
<1>5. ASSUME NEW p \in Payers, PaySweep(p), pay' # [pay EXCEPT ![p] = Answered]
      PROVE  LocksAreExclusive'
  <2>1. \A q \in Payers \ {p} : LocksOf(q) \cap LapsedHolds = {}
    BY <1>5 DEF PaySweep, SweepWaitsFor
  <2>2. /\ pay[p].at = "locked" /\ pay'[p].at = "minting" /\ pay'[p].swept = LapsedHolds
        /\ pay'[p].booking = pay[p].booking
        /\ \A q \in Payers \ {p} : pay'[q] = pay[q]
    BY <1>5 DEF PaySweep
  <2>3. QED BY SMTT(30), <2>1, <2>2
<1>6. QED BY <1>1, <1>2, <1>3, <1>4, <1>5, PayMoves

\* Nothing takes the hold, or the absence of an open order, from a request that is
\* at the Provider: whoever would, waits for its locks.
LEMMA MintingStep ==
  ASSUME TypeOK, LocksAreExclusive, MintingIsForAHold, [Next]_vars
  PROVE  MintingIsForAHold'
<1> USE StatesAreTyped DEF PayState
<1> SUFFICES ASSUME NEW q \in Payers, pay'[q].at = "minting"
             PROVE  (/\ status[pay[q].booking] = "pending_payment"
                     /\ OpenOrders(pay[q].booking) = {}
                     /\ pay[q].swept \subseteq LapsedHolds)'
  BY DEF MintingIsForAHold
<1> DEFINE b == pay[q].booking
<1>1. b \in Bookings /\ pay'[q].booking = b /\ b \in LocksOf(q) /\ pay'[q].swept \subseteq LapsedHolds
  <2>1. CASE pay'[q] = pay[q]
    BY <2>1 DEF LocksAreExclusive, LocksOf, MintingIsForAHold
  <2>2. CASE PaySweep(q)
    BY <2>2 DEF PaySweep, LocksAreExclusive, LocksOf, Answered, NotPaying
  <2>3. pay'[q] = pay[q] \/ PaySweep(q)
    BY ZenonT(60), PayMoves DEF PayLock, PaySweep, PayEnter, Answered, NotPaying
  <2>4. QED BY <2>1, <2>2, <2>3
<1>2. pay'[q] # Answered
  BY DEF Answered, NotPaying
<1>3. status[b] = "pending_payment" /\ OpenOrders(b) = {}
  <2>1. CASE pay'[q] = pay[q]
    BY <2>1 DEF MintingIsForAHold
  <2>2. CASE PaySweep(q)
    BY <1>2, <2>2 DEF PaySweep
  <2>3. pay'[q] = pay[q] \/ PaySweep(q)
    BY ZenonT(60), PayMoves DEF PayLock, PaySweep, PayEnter, Answered, NotPaying
  <2>4. QED BY <2>1, <2>2, <2>3
<1>4. status'[b] = "pending_payment"
  BY <1>1, <1>2, <1>3, StatusMoves
<1>5. \A o \in Orders : ~(owner'[o] = b /\ payment'[o] = "pending")
  <2>1. SUFFICES ASSUME NEW o \in Orders, owner'[o] = b, payment'[o] = "pending" PROVE FALSE
    OBVIOUS
  <2>2. payment'[o] # payment[o] \/ owner'[o] # owner[o]
    BY <1>3, <2>1 DEF OpenOrders
  <2>3. PICK p \in Payers : PayMint(p, o)
    BY <2>1, <2>2, OrderMoves
  <2>4. b \in LocksOf(p) /\ pay'[p] = Answered
    BY <2>1, <2>3 DEF PayMint, LocksOf, TypeOK
  <2>5. QED BY <1>1, <1>2, <2>4 DEF LocksAreExclusive
<1>6. pay'[q].swept \subseteq LapsedHolds'
  <2>1. SUFFICES ASSUME NEW c \in pay'[q].swept PROVE c \in LapsedHolds'
    OBVIOUS
  <2>2. c \in Bookings /\ status[c] = "pending_payment" /\ lapsed[c]
    BY <1>1, <2>1 DEF LapsedHolds
  <2>3. lapsed'[c]
    BY <2>2, WhoWrites DEF TypeOK, Lapse
  <2>4. status'[c] = status[c]
    <3>1. CASE pay'[q] = pay[q]
      BY <1>2, <2>1, <2>2, <3>1, StatusMoves DEF LocksOf
    <3>2. CASE PaySweep(q)
      BY <1>2, <3>2 DEF PaySweep
    <3>3. pay'[q] = pay[q] \/ PaySweep(q)
      BY ZenonT(60), PayMoves DEF PayLock, PaySweep, PayEnter, Answered, NotPaying
    <3>4. QED BY <3>1, <3>2, <3>3
  <2>5. QED BY <2>2, <2>3, <2>4 DEF LapsedHolds
<1>7. QED BY <1>1, <1>4, <1>5, <1>6 DEF OpenOrders

-----------------------------------------------------------------------------
\* A session is opened under the lock of its booking, which had none.
LEMMA OrdersStep ==
  ASSUME TypeOK, LocksAreExclusive, MintingIsForAHold, OneOpenOrder, OrdersHaveBookings,
         [Next]_vars
  PROVE  OneOpenOrder' /\ OrdersHaveBookings'
<1>1. ASSUME NEW p \in Payers, NEW o \in Orders, PayMint(p, o)
      PROVE  /\ pay[p].booking \in Bookings /\ OpenOrders(pay[p].booking) = {}
             /\ owner'[o] = pay[p].booking
             /\ \A x \in Orders \ {o} : payment'[x] = payment[x] /\ owner'[x] = owner[x]
  BY <1>1 DEF PayMint, LocksAreExclusive, MintingIsForAHold, TypeOK
<1>2. OrdersHaveBookings'
  BY <1>1, OrderMoves DEF OrdersHaveBookings
<1>3. ASSUME NEW b \in Bookings, NEW o \in Orders, NEW x \in Orders, o # x,
             owner'[o] = b, payment'[o] = "pending", owner'[x] = b, payment'[x] = "pending"
      PROVE  FALSE
  <2>1. \A y \in {o, x} : y \in OpenOrders(b) \/ \E p \in Payers : PayMint(p, y)
    BY <1>3, OrderMoves DEF OpenOrders
  <2>2. ASSUME NEW p \in Payers, NEW y \in {o, x}, PayMint(p, y) PROVE FALSE
    BY <1>1, <1>3, <2>2 DEF OpenOrders
  <2>3. QED BY <1>3, <2>1, <2>2 DEF OneOpenOrder
<1>4. QED BY <1>2, <1>3 DEF OneOpenOrder, OpenOrders

\* A notification is about an order that exists, and stays so: orders are never
\* deleted, and the Provider takes nothing back.
LEMMA ReportsStep ==
  ASSUME TypeOK, TypeOK', EventsAreReported, [Next]_vars
  PROVE  EventsAreReported'
<1>1. /\ \A o \in Orders : payment[o] # "none" => payment'[o] # "none"
      /\ sent \subseteq sent'
  <2>1. \A o \in Orders : payment[o] # "none" => payment'[o] # "none"
    BY OrderMoves DEF PayMint
  <2>2. sent \subseteq sent'
    BY WhoWrites DEF ProviderMove
  <2>3. QED BY <2>1, <2>2
<1>2. (\A o \in Orders : charge[o].order = o /\ (charge[o].txn # "none" => charge[o] \in sent))'
  <2>1. CASE charge' = charge
    BY <1>1, <2>1 DEF EventsAreReported
  <2>2. ASSUME NEW o \in Orders, ProviderMove(o)
        PROVE  (\A x \in Orders : charge[x].order = x /\ (charge[x].txn # "none" => charge[x] \in sent))'
    <3>1. charge'[o].order = o /\ charge'[o] \in sent'
      BY <2>2 DEF ProviderMove, TypeOK
    <3>2. \A x \in Orders \ {o} : charge'[x] = charge[x]
      BY <2>2 DEF ProviderMove, TypeOK
    <3>3. QED BY <1>1, <3>1, <3>2 DEF EventsAreReported
  <2>3. QED BY <2>1, <2>2, WhoWrites
<1>3. (\A e \in sent : payment[e.order] # "none")'
  <2>1. SUFFICES ASSUME NEW e \in sent' PROVE payment'[e.order] # "none"
    OBVIOUS
  <2>2. e \in sent \/ payment[e.order] # "none"
    <3>1. ASSUME NEW o \in Orders, ProviderMove(o) PROVE e \in sent \/ e = charge'[o]
      BY <3>1 DEF ProviderMove
    <3>2. ASSUME NEW o \in Orders, ProviderMove(o) PROVE charge'[o].order = o /\ payment[o] # "none"
      BY <3>2 DEF ProviderMove, TypeOK
    <3>3. QED BY <3>1, <3>2, WhoWrites
  <2>3. e.order \in Orders
    BY DEF TypeOK, Event
  <2>4. QED BY <1>1, <2>2, <2>3 DEF EventsAreReported
<1>4. (recorded \subseteq sent)'
  <2>1. ASSUME NEW w \in Workers, ApplyOutcome(w) PROVE recorded' \subseteq sent
    BY <2>1 DEF ApplyOutcome, EventsAreReported
  <2>2. QED BY <1>1, <2>1, WhoWrites DEF EventsAreReported
<1>5. ASSUME NEW w \in Workers
      PROVE  (/\ work[w].at = "fetching" =>
                   work[w].event.order \in Orders /\ payment[work[w].event.order] # "none"
              /\ work[w].at \in {"verified", "recorded", "committed"} => work[w].event \in sent
              /\ w \in Handlers /\ work[w].at # "idle" => work[w].event \in sent)'
  <2> USE <1>1, PaymentsAssumption DEF TypeOK, EventsAreReported
  <2>1. CASE work'[w] = work[w]
    BY <2>1
  <2>2. ASSUME NEW e \in sent, w \in Handlers, Deliver(w, e) PROVE work'[w].event \in sent /\ work'[w].at = "verified"
    BY <2>2 DEF Deliver
  <2>3. ASSUME RecordEvent(w) \/ ApplyOutcome(w) \/ Notify(w)
        PROVE  work'[w].event = work[w].event /\ work[w].event \in sent /\ work'[w].at # "fetching"
    BY <2>3 DEF RecordEvent, ApplyOutcome, Notify
  <2>4. ASSUME w \in Readers, FetchStatus(w)
        PROVE  \/ work'[w].at = "done"
               \/ work'[w].at = "verified" /\ work'[w].event \in sent
    BY <2>4 DEF FetchStatus
  <2>5. ASSUME w \in Readers, NEW b \in Bookings, ReadPage(w, b)
        PROVE  \/ work'[w].at = "done"
               \/ /\ work'[w].at = "fetching" /\ work'[w].event.order \in Orders
                  /\ payment[work'[w].event.order] # "none"
    BY <2>5 DEF ReadPage, OpenOrders, Blank
  <2>6. ASSUME work'[w] = Idle PROVE work'[w].at = "idle"
    BY <2>6 DEF Idle
  <2>7. \/ work'[w] = work[w] \/ work'[w] = Idle
        \/ w \in Handlers /\ \E e \in sent : Deliver(w, e)
        \/ RecordEvent(w) \/ ApplyOutcome(w) \/ Notify(w)
        \/ w \in Readers /\ (FetchStatus(w) \/ \E b \in Bookings : ReadPage(w, b))
    <3>1. CASE work' = work
      BY <3>1
    <3>2. ASSUME NEW h \in Handlers, Ack(h) PROVE work'[w] = work[w] \/ work'[w] = Idle
      BY <3>2 DEF Ack
    <3>3. ASSUME NEW h \in Handlers, NEW e \in sent, Deliver(h, e) 
          PROVE  work'[w] = work[w] \/ (w \in Handlers /\ Deliver(w, e))
      <4>1. CASE h = w
        BY <3>3, <4>1
      <4>2. CASE h # w
        BY <3>3, <4>2 DEF Deliver
      <4>3. QED BY <4>1, <4>2
    <3>4. ASSUME NEW x \in Workers, RecordEvent(x) \/ ApplyOutcome(x) \/ Notify(x)
          PROVE  work'[w] = work[w] \/ RecordEvent(w) \/ ApplyOutcome(w) \/ Notify(w)
      <4>1. CASE x = w
        BY <3>4, <4>1
      <4>2. CASE x # w
        <5>1. work'[w] = work[w] \/ ~RecordEvent(x)
          BY <4>2 DEF RecordEvent
        <5>2. work'[w] = work[w] \/ ~ApplyOutcome(x)
          BY <4>2 DEF ApplyOutcome
        <5>3. work'[w] = work[w] \/ ~Notify(x)
          BY <4>2 DEF Notify
        <5>4. QED BY <3>4, <5>1, <5>2, <5>3
      <4>3. QED BY <4>1, <4>2
    <3>5. ASSUME NEW x \in Workers, WorkerCrash(x) PROVE work'[w] = work[w] \/ work'[w] = Idle
      BY <3>5 DEF WorkerCrash
    <3>6. ASSUME NEW r \in Readers, FetchStatus(r) \/ \E b \in Bookings : ReadPage(r, b)
          PROVE  \/ work'[w] = work[w]
                 \/ w \in Readers /\ (FetchStatus(w) \/ \E b \in Bookings : ReadPage(w, b))
      <4>1. CASE r = w
        BY <3>6, <4>1
      <4>2. CASE r # w
        BY <3>6, <4>2 DEF FetchStatus, ReadPage
      <4>3. QED BY <4>1, <4>2
    <3>7. ASSUME NEW r \in Readers, SweepOnRead(r) PROVE work'[w] = work[w] \/ work'[w] = Idle
      BY <3>7 DEF SweepOnRead
    <3>8. QED BY <3>1, <3>2, <3>3, <3>4, <3>5, <3>6, <3>7, WhoWrites
  <2>8. QED BY <2>1, <2>2, <2>3, <2>4, <2>5, <2>6, <2>7
<1>6. QED BY <1>2, <1>3, <1>4, <1>5 DEF EventsAreReported, Workers

-----------------------------------------------------------------------------
\* An order that was minted keeps its booking, and one that is closed its status.
LEMMA OrdersAreKept ==
  ASSUME TypeOK, [Next]_vars, NEW o \in Orders, payment[o] # "none"
  PROVE  /\ owner'[o] = owner[o]
         /\ payment[o] \in {"paid", "failed"} => payment'[o] = payment[o]
BY OrderMoves DEF PayMint

\* A settlement is money in.
LEMMA SettlesIsMoneyIn ==
  ASSUME NEW e
  PROVE  Settles(e) <=> MoneyIn(e) /\ e.amount = "charged"
BY DEF Settles, Outcome, MoneyIn

\* Only a settlement that the Provider has sent confirms a booking, and what was sent
\* is not taken back.
LEMMA ConfirmedStep ==
  ASSUME MoneyProtocol, [Next]_vars
  PROVE  ConfirmedIsPaidFor'
<1> USE DEF MoneyProtocol
<1> SUFFICES ASSUME NEW b \in Bookings, status'[b] = "confirmed"
             PROVE  \E e \in sent' : owner'[e.order] = b /\ MoneyIn(e) /\ e.amount = "charged"
  BY DEF ConfirmedIsPaidFor, MoneyIn
<1>1. \E e \in sent : owner[e.order] = b /\ MoneyIn(e) /\ e.amount = "charged"
  <2>1. CASE status'[b] = status[b]
    BY <2>1 DEF ConfirmedIsPaidFor
  <2>2. CASE status'[b] # status[b]
    <3>1. PICK w \in Workers : /\ ApplyOutcome(w) /\ Confirms(work[w].event)
                               /\ owner[work[w].event.order] = b
      BY <2>2, StatusMoves
    <3>2. work[w].event \in sent
      BY <3>1 DEF ApplyOutcome, EventsAreReported
    <3>3. QED BY <3>1, <3>2, SettlesIsMoneyIn DEF Confirms
  <2>3. QED BY <2>1, <2>2
<1>2. PICK e \in sent : owner[e.order] = b /\ MoneyIn(e) /\ e.amount = "charged"
  BY <1>1
<1>3. e \in sent'
  BY WhoWrites DEF ProviderMove
<1>4. owner'[e.order] = owner[e.order]
  <2>1. e.order \in Orders /\ payment[e.order] # "none"
    BY DEF TypeOK, Event, EventsAreReported
  <2>2. QED BY <2>1, OrdersAreKept
<1>5. QED BY <1>2, <1>3, <1>4

\* The commit that confirms finds no mail sent and nobody about to send one, since
\* both need a booking that is not pending; and that is what it mails for.
LEMMA MailStep ==
  ASSUME MoneyProtocol, TypeOK', [Next]_vars
  PROVE  MailedAtMostOnce' /\ MailIsForTheConfirm'
<1> USE DEF MoneyProtocol
<1> DEFINE Confirmed(b) == status[b] \in {"confirmed", "cancelled"}
<1>1. \A b \in Bookings : Confirmed(b) => Confirmed(b)'
  BY StatusMoves DEF LapsedHolds
<1>2. \A w \in Workers : work[w].at = "committed" =>
        MailsFor(w) \in Bookings /\ work[w].event.order \in Orders
          /\ owner'[work[w].event.order] = MailsFor(w)
  <2>1. SUFFICES ASSUME NEW w \in Workers, work[w].at = "committed"
                 PROVE  /\ MailsFor(w) \in Bookings /\ work[w].event.order \in Orders
                        /\ owner'[work[w].event.order] = MailsFor(w)
    OBVIOUS
  <2>2. work[w].event.order \in Orders /\ payment[work[w].event.order] # "none"
    BY <2>1 DEF EventsAreReported, TypeOK, Event
  <2>3. QED BY <2>2, OrdersAreKept DEF OrdersHaveBookings, MailsFor
<1>3. CASE \E w \in Workers : Notify(w)
  <2>1. PICK w \in Workers : Notify(w)
    BY <1>3
  <2>2. /\ work[w].at = "committed" /\ MailsFor(w) \in Bookings
        /\ mails[MailsFor(w)] = 0 /\ Confirmed(MailsFor(w))
        /\ \A x \in Workers : work[x].at = "committed" /\ MailsFor(x) = MailsFor(w) => x = w
    BY <1>2, <2>1 DEF Notify, MailIsForTheConfirm
  <2>3. /\ \A b \in Bookings \ {MailsFor(w)} : mails'[b] = mails[b]
        /\ mails'[MailsFor(w)] \in {0, 1}
    BY <2>1, <2>2 DEF Notify, TypeOK, MailsFor
  <2>4. /\ \A x \in Workers : work'[x].at = "committed" => x # w /\ work'[x] = work[x]
        /\ owner' = owner /\ status' = status
    BY <2>1 DEF Notify, TypeOK, paymentVars, bookingVars
  <2>5. MailedAtMostOnce'
    BY <2>2, <2>3, <2>4 DEF MailedAtMostOnce
  <2>6. MailIsForTheConfirm'
    BY <1>2, <2>2, <2>3, <2>4 DEF MailIsForTheConfirm, MailsFor
  <2>7. QED BY <2>5, <2>6
<1>4. CASE mails' = mails /\ ~\E w \in Workers : ApplyOutcome(w) /\ Mails(work[w].event)
  <2>1. MailedAtMostOnce'
    BY <1>1, <1>4 DEF MailedAtMostOnce
  <2>2. \A x \in Workers : work'[x].at = "committed" => work'[x] = work[x]
    <3> USE DEF TypeOK, Workers
    <3>1. ASSUME NEW x \in Workers, work'[x].at = "committed", work'[x] # work[x] PROVE FALSE
      <4>1. ASSUME NEW h \in Handlers, Ack(h) \/ \E e \in sent : Deliver(h, e) PROVE FALSE
        BY <3>1, <4>1 DEF Ack, Deliver, Idle
      <4>2. ASSUME NEW w \in Workers, RecordEvent(w) \/ Notify(w) \/ WorkerCrash(w) PROVE FALSE
        BY <3>1, <4>2 DEF RecordEvent, Notify, WorkerCrash, Idle
      <4>3. ASSUME NEW w \in Workers, ApplyOutcome(w) PROVE FALSE
        <5>1. ~Mails(work[w].event)
          BY <1>4, <4>3
        <5>2. work' = [work EXCEPT ![w].at = "done"]
          BY <4>3, <5>1 DEF ApplyOutcome
        <5>3. QED BY <3>1, <5>2
      <4>4. ASSUME NEW r \in Readers,
                   FetchStatus(r) \/ SweepOnRead(r) \/ \E b \in Bookings : ReadPage(r, b)
            PROVE  FALSE
        BY <3>1, <4>4 DEF FetchStatus, SweepOnRead, ReadPage, Idle
      <4>5. QED BY <3>1, <4>1, <4>2, <4>3, <4>4, WhoWrites
    <3>2. QED BY <3>1
  <2>3. QED BY <1>1, <1>2, <1>4, <2>1, <2>2 DEF MailIsForTheConfirm, MailsFor
<1>5. ASSUME NEW w \in Workers, ApplyOutcome(w), Mails(work[w].event)
      PROVE  MailedAtMostOnce' /\ MailIsForTheConfirm'
  <2> DEFINE b == owner[work[w].event.order]
  <2>1. b \in Bookings /\ work[w].event.order \in Orders
    BY <1>5 DEF ApplyOutcome, EventsAreReported, OrdersHaveBookings, TypeOK, Event
  <2>2. status[b] = "pending_payment" /\ status'[b] = "confirmed"
    BY <1>5, <2>1 DEF ApplyOutcome, Mails, Confirms, TypeOK
  <2>3. mails[b] = 0 /\ mails' = mails /\ owner' = owner
    <3>1. mails[b] \in Nat /\ mails[b] <= 1 /\ mails[b] # 1
      BY <2>1, <2>2 DEF MailedAtMostOnce, TypeOK
    <3>2. mails[b] = 0
      BY <3>1
    <3>3. QED BY <1>5, <3>2 DEF ApplyOutcome
  <2>4. \A x \in Workers : work[x].at = "committed" => MailsFor(x) # b
    BY <2>2 DEF MailIsForTheConfirm
  <2>5. /\ \A x \in Workers \ {w} : work'[x] = work[x]
        /\ work'[w].event = work[w].event
    BY <1>5 DEF ApplyOutcome, TypeOK
  <2>6. QED
    BY <1>1, <1>2, <2>1, <2>2, <2>3, <2>4, <2>5
       DEF MailedAtMostOnce, MailIsForTheConfirm, MailsFor
<1>6. \A w \in Workers : ApplyOutcome(w) => mails' = mails
  BY DEF ApplyOutcome
<1>7. QED BY <1>3, <1>4, <1>5, WhoWrites

\* A closed payment was closed by an event that is on record.
LEMMA FailureStep ==
  ASSUME MoneyProtocol, [Next]_vars
  PROVE  FailureWasReported'
<1> USE DEF MoneyProtocol
<1>1. recorded \subseteq recorded'
  BY WhoWrites DEF ApplyOutcome
<1>2. ASSUME NEW o \in Orders, payment'[o] = "failed"
      PROVE  \E f \in recorded' : f.order = o /\ Fails(f)
  <2>1. CASE payment'[o] = payment[o]
    BY <1>1, <1>2, <2>1 DEF FailureWasReported
  <2>2. CASE payment'[o] # payment[o]
    BY <1>2, <2>2, OrderMoves DEF ApplyOutcome, PayMint, TypeOK
  <2>3. QED BY <2>1, <2>2
<1>3. QED BY <1>2 DEF FailureWasReported, Fails, Outcome

\* An inbox item leaves the inbox only when it is handled.
LEMMA SettledStep ==
  ASSUME MoneyProtocol, TypeOK', FailureWasReported', [Next]_vars
  PROVE  SettledMoneyIsVisible'
<1> USE DEF MoneyProtocol
<1> DEFINE Shown(o) == payment[o] = "paid" /\ (status[owner[o]] = "confirmed" \/ o \in Inbox \cup handled)
<1>1. recorded \subseteq recorded'
  BY WhoWrites DEF ApplyOutcome
<1>2. ASSUME NEW o \in Orders, Shown(o) PROVE Shown(o)'
  <2>1. payment'[o] = "paid" /\ owner'[o] = owner[o] /\ owner[o] \in Bookings
    BY <1>2, OrdersAreKept DEF OrdersHaveBookings
  <2>2. handled \subseteq handled'
    BY WhoWrites DEF MarkHandled
  <2>3. CASE o \in handled
    BY <2>1, <2>2, <2>3
  <2>4. CASE status[owner[o]] \in {"confirmed", "cancelled", "expired"}
    <3>1. status'[owner[o]] \in {"confirmed", "cancelled", "expired"}
      BY <2>1, <2>4, StatusMoves DEF LapsedHolds
    <3>2. QED BY <2>1, <3>1 DEF Inbox
  <2>5. QED BY <1>2, <2>3, <2>4 DEF Inbox
<1>3. ASSUME NEW e \in recorded', e \notin recorded, MoneyIn(e), e.amount = "charged"
      PROVE  payment'[e.order] = "failed" \/ Shown(e.order)'
  <2>1. PICK w \in Workers : ApplyOutcome(w) /\ e = work[w].event
    BY <1>3, WhoWrites DEF ApplyOutcome
  <2>2. e.order \in Orders /\ payment[e.order] # "none" /\ owner[e.order] \in Bookings
    BY <2>1 DEF ApplyOutcome, EventsAreReported, OrdersHaveBookings, TypeOK, Event
  <2>3. Settles(e)
    BY <1>3, SettlesIsMoneyIn
  <2>4. payment'[e.order] = "paid" \/ payment'[e.order] = "failed"
    <3>1. payment'[e.order] = PaymentAfter(e)
      BY <2>1, <2>2 DEF ApplyOutcome, TypeOK
    <3>2. QED BY <2>2, <2>3, <3>1 DEF PaymentAfter, TypeOK
  <2>5. owner' = owner /\ status'[owner[e.order]] # "pending_payment"
    BY <2>1, <2>2, <2>3 DEF ApplyOutcome, Confirms, TypeOK
  <2>6. status'[owner[e.order]] \in {"confirmed", "cancelled", "expired"}
    BY <2>2, <2>5 DEF TypeOK
  <2>7. QED BY <2>2, <2>4, <2>5, <2>6 DEF Inbox
<1>4. ASSUME NEW e \in recorded', MoneyIn(e), e.amount = "charged"
      PROVE  (\E f \in recorded' : f.order = e.order /\ Fails(f)) \/ Shown(e.order)'
  <2>1. e.order \in Orders
    BY DEF TypeOK, Event
  <2>2. CASE e \in recorded
    BY <1>1, <1>2, <1>4, <2>1, <2>2 DEF SettledMoneyIsVisible
  <2>3. CASE e \notin recorded
    BY <1>3, <1>4, <2>1, <2>3 DEF FailureWasReported, Fails, Outcome
  <2>4. QED BY <2>2, <2>3
<1>5. QED BY <1>4 DEF SettledMoneyIsVisible, MoneyIn, Fails, Outcome

-----------------------------------------------------------------------------
\* The protocol is inductive.
LEMMA MoneyProtocolInit == Init => MoneyProtocol
<1> SUFFICES ASSUME Init PROVE MoneyProtocol
  OBVIOUS
<1> USE DEF Init
<1>1. TypeOK
  <2>1. NotPaying \in PayState /\ Idle \in WorkState
    BY WorkStateMoves DEF NotPaying, PayState
  <2>2. pay \in [Payers -> PayState] /\ work \in [Workers -> WorkState]
    BY <2>1
  <2>3. QED BY <2>2 DEF TypeOK, PayState, WorkState
<1>2. LocksAreExclusive /\ MintingIsForAHold
  BY DEF LocksAreExclusive, MintingIsForAHold, LocksOf, NotPaying
<1>3. OneOpenOrder /\ OrdersHaveBookings
  BY DEF OneOpenOrder, OrdersHaveBookings, OpenOrders
<1>4. EventsAreReported
  BY DEF EventsAreReported, Blank, Idle, Workers
<1>5. ConfirmedIsPaidFor /\ MailedAtMostOnce /\ MailIsForTheConfirm
  BY DEF ConfirmedIsPaidFor, MailedAtMostOnce, MailIsForTheConfirm, Idle
<1>6. FailureWasReported /\ SettledMoneyIsVisible
  BY DEF FailureWasReported, SettledMoneyIsVisible
<1>7. QED BY <1>1, <1>2, <1>3, <1>4, <1>5, <1>6 DEF MoneyProtocol

LEMMA MoneyProtocolStep == MoneyProtocol /\ [Next]_vars => MoneyProtocol'
<1> SUFFICES ASSUME MoneyProtocol, [Next]_vars PROVE MoneyProtocol'
  OBVIOUS
<1>1. TypeOK'
  BY TypeStep DEF MoneyProtocol
<1>2. LocksAreExclusive' /\ MintingIsForAHold' /\ OneOpenOrder' /\ OrdersHaveBookings'
  BY LocksStep, MintingStep, OrdersStep DEF MoneyProtocol
<1>3. EventsAreReported'
  BY <1>1, ReportsStep DEF MoneyProtocol
<1>4. ConfirmedIsPaidFor' /\ MailedAtMostOnce' /\ MailIsForTheConfirm'
  BY <1>1, ConfirmedStep, MailStep
<1>5. FailureWasReported' /\ SettledMoneyIsVisible'
  BY <1>1, FailureStep, SettledStep
<1>6. QED BY <1>1, <1>2, <1>3, <1>4, <1>5 DEF MoneyProtocol

THEOREM MoneyProtocolKept == Spec => []MoneyProtocol
BY MoneyProtocolInit, MoneyProtocolStep, PTL DEF Spec

\* ADR-0015: however pay requests race, a booking has at most one open payment.
THEOREM OneSession == Spec => []OneOpenSession
<1>1. MoneyProtocol => OneOpenSession
  <2>1. SUFFICES ASSUME MoneyProtocol, NEW b \in Bookings
                 PROVE  Cardinality(OpenOrders(b)) <= 1
    BY DEF OneOpenSession
  <2>2. CASE OpenOrders(b) = {}
    BY <2>2, FS_EmptySet
  <2>3. CASE OpenOrders(b) # {}
    <3>1. PICK o : OpenOrders(b) = {o}
      BY <2>1, <2>3 DEF MoneyProtocol, OneOpenOrder
    <3>2. QED BY <3>1, FS_Singleton
  <2>4. QED BY <2>2, <2>3
<1>2. QED BY <1>1, MoneyProtocolKept, PTL

\* The nights are given away only for money the Provider itself reported, in the
\* amount that was asked for (applyOutcome's guards).
THEOREM NoFreeNights == Spec => []ConfirmedIsPaidFor
<1>1. MoneyProtocol => ConfirmedIsPaidFor
  BY DEF MoneyProtocol
<1>2. QED BY <1>1, MoneyProtocolKept, PTL

\* ADR-0020: push and pull, repeats and crashes send at most one confirmation mail.
THEOREM OneMail == Spec => []MailedAtMostOnce
<1>1. MoneyProtocol => MailedAtMostOnce
  BY DEF MoneyProtocol
<1>2. QED BY <1>1, MoneyProtocolKept, PTL

\* A settlement that was taken in shows as a paid payment with a confirmed booking or
\* an inbox item, unless a failure of the same order was recorded.
THEOREM MoneyIsVisible == Spec => []SettledMoneyIsVisible
<1>1. MoneyProtocol => SettledMoneyIsVisible
  BY DEF MoneyProtocol
<1>2. QED BY <1>1, MoneyProtocolKept, PTL

\* ADR-0018: no reordering or replay un-pays a payment, un-confirms a booking or
\* resurrects a dead one.
THEOREM LedgerIsOneWay == Spec => NothingIsUndone
<1>1. MoneyProtocol /\ [Next]_vars =>
        /\ \A o \in Orders : payment[o] \in {"paid", "failed"} => payment'[o] = payment[o]
        /\ \A b \in Bookings :
             /\ status[b] \in {"cancelled", "expired"} => status'[b] = status[b]
             /\ status[b] = "confirmed" => status'[b] \in {"confirmed", "cancelled"}
  BY OrdersAreKept, StatusMoves DEF MoneyProtocol, LapsedHolds
<1>2. QED BY <1>1, MoneyProtocolKept, PTL DEF Spec, NothingIsUndone

\* A session becomes visible only for a booking that is still a hold, although the
\* Provider was called since that was read.
THEOREM SessionsForHolds == Spec => SessionsAreForHolds
<1>1. MoneyProtocol /\ [Next]_vars =>
        \A o \in Orders : payment[o] = "none" /\ payment'[o] = "pending" =>
          status[owner'[o]] = "pending_payment"
  <2>1. SUFFICES ASSUME MoneyProtocol, [Next]_vars, NEW o \in Orders,
                        payment[o] = "none", payment'[o] = "pending"
                 PROVE  status[owner'[o]] = "pending_payment"
    OBVIOUS
  <2>2. PICK p \in Payers : PayMint(p, o)
    BY <2>1, OrderMoves DEF MoneyProtocol
  <2>3. owner'[o] = pay[p].booking /\ pay[p].at = "minting"
    BY <2>1, <2>2 DEF PayMint, MoneyProtocol, TypeOK
  <2>4. QED BY <2>1, <2>3 DEF MoneyProtocol, MintingIsForAHold
<1>2. QED BY <1>1, MoneyProtocolKept, PTL DEF Spec, SessionsAreForHolds
=============================================================================
