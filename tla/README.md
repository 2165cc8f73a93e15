# A verification of Sambung

Sambung sells stays in small properties: guests check out on a public site, owners
enter bookings by hand, payments come in through a gateway, and other channels are
imported from iCal feeds. The API (`src/apps/api`, NestJS over Postgres through
Drizzle) decides; the web application (`src/apps/web`, React Query) caches and asks.
This directory models the parts in which several transactions, processes, tabs or
messages meet, checks them with TLC on small instances, and proves their safety
properties with TLAPS for instances of every size.

## 1. Inventory

| Component | State it keeps | Operations | Meets | Module |
|---|---|---|---|---|
| Booking write path (`bookings/`) | `booking` rows, status, hold TTL | guest checkout, owner block or walk-in, cancel, sweep inside a transaction, cron sweep | units, payments, channel sync: all write the same nights | `Bookings` |
| Units (`units/`) | `unit` rows, archive flag | create, edit, archive, unarchive, guarded delete | every booking transaction reads the unit; a foreign key ties them | `Bookings`, `Funnel` |
| Price overrides (`units/`) | `unit_price_override` rows | create, remove | the quote of every stay | `Pricing`, `Funnel` |
| Payments (`payments/`) | `payment`, `payment_event` rows | pay, webhook, reconcile-on-read, paid-but-lapsed inbox | the Provider, bookings, credentials, notifications | `Payments` |
| Payment credentials | one sealed key per tenant | store, verify, rotate | a session lives in the account of its key | `Payments`, `Funnel` |
| Notifications | none (mail adapter) | mail after a commit | called by the settlement | `Payments` |
| Channel sync (`channel-sync/`) | `channel_connection`, `sync_conflict`, imported rows | connect, disconnect, cron import, sync now, dismiss, export | inserts bookings, which the constraint may refuse | `ChannelSync` |
| Staff (`staff/`), auth (`auth/`) | `app_user`, `membership`, `staff_invite`, assignments, tokens | invite, reissue, revoke, accept, register, log in, refresh, switch | accounts are shared by tenants | `Accounts` |
| Photo storage (`storage/`), galleries (`properties/`), settings | object store, `property.photos`, gallery cap | presign, upload, change a gallery, set the cap, garbage-collect | two stores without a common transaction | `Gallery` |
| Tenant-scoped transactions (`db/`, `common/`) | the principal of a request, the settings of a connection | authenticate, enter a public scope, run, join, settle | every read and write of a tenant's rows | `TenantScope` |
| Guest funnel (`web/features/public-booking`) | URL, query cache, mutations of a tab | pick, quote, book, pay, return, poll | bookings, payments, units, overrides | `Funnel` |
| Dashboard (`web/features/*`, `web/lib`) | session in memory, refresh cookie, query cache | every owner operation, sign-in and out, the switcher | all of the authenticated API | `Console` |
| Booking reads, CSV, controllers, e2e, scripts | none | reads, formatting, routing | | |

What is hard in this code:

* **Read committed transactions of several statements.** A checkout sweeps, reads
  the unit, reads the blocking bookings and inserts. Any other transaction may
  commit between two of these statements. The last word is an exclusion constraint.
* **Waits.** An insert waits for undecided conflicting tuples, a sweep for locked
  rows, a delete for the foreign key's lock, a pay request for another one that is
  still talking to the Provider, a request for a connection. Waits can form cycles.
* **Time.** `now()` is the start of the transaction and not the present; a hold may
  lapse while a transaction that found it alive is still open.
* **At-least-once delivery.** Notifications are repeated, reordered, pushed and
  pulled at the same time, and the process may die between two steps.
* **Money that comes too late**, for a booking that was swept or cancelled.
* **What was true when it was read.** A token outlives its seat, a quote its prices, a
  gallery check its object, a query its tenant.

`PROJECT.json` lists these at their lines under `hazards`.

## 2. Modules

| Module | What it models |
|---|---|
| `Bookings` | the write path, statement by statement, with archive and guarded delete of its units |
| `Calendar` | what the write path promises: nights with owners, and no transactions |
| `Payments` | pay, webhook, reconcile-on-read, mail, inbox and the Provider |
| `ChannelSync` | the reconciliation of a channel's feed with the booking table, the conflict inbox, connect and disconnect |
| `Accounts` | accounts, seats, invites, assignments and the tokens that outlive them |
| `TenantScope` | principals, scoped transactions, the pool and row-level security |
| `Gallery` | uploads, galleries, the cap and the sweep of the object store |
| `Pricing` | the arithmetic of a quote, with its reference definitions |
| `Funnel` | a guest's tab from the picker to the confirmation page, over `Pricing` |
| `Console` | an owner's tab: session, query cache, every screen and every operation |
| `XProofs` | the theorems about module `X`: `Bookings`, `Payments`, `ChannelSync`, `Accounts`, `TenantScope`, `Gallery`, `Funnel` and `Console` each have one |
| `MC...` | house rules, symmetries and small sets for TLC |

The modules compose by promise and not by import: a direct booking is one step in
`ChannelSync` because `Calendar` says so and `Bookings` implements `Calendar`; the
create of `Funnel` is one commit for the same reason; the rows a token sees in
`Accounts` are those that `TenantScope` derives from a connection's settings.

### Bookings

A create request inserts at most one booking, so a request and its booking have one
identity. The committed table is `status` and `hold`. What a transaction has written
and not committed is kept beside it: `swept[r]` are the rows that `r` has expired and
still has locked; a request at `inserting` or `inserted` has its tuple in the index of
`booking_no_overlap`. `start[r]` is the transaction's `now()`.

| Action | Code |
|---|---|
| `Enter` | `createPublicBooking` up to the transaction: resolve, gateway check |
| `SweepUnit` | `expireLapsedHolds`: locks and expires the unit's lapsed holds |
| `ReadUnit` | `fetchUnitPricing`: vanished or archived |
| `Recheck` | `findBlockedRanges`, `quote`, `fetchMaxGuests` |
| `InsertTuple`, `Arbitrate`, `DeadlockVictim` | the INSERT, split where the database lets another transaction in: the tuple goes into the index, then the constraint is checked |
| `Commit`, `Refuse` | the end of `TenantDbService.run`; a refusal rolls its sweep back |
| `CancelById`, `ConfirmPaid`, `SweepExpiredHolds` | one guarded UPDATE each |
| `Archive`, `Unarchive`, `RemoveUnit` | the unit's operations; the delete locks the unit, counts, deletes |

Pricing, guest details and rendering are left out. Row locks, the wait of an exclusion
constraint and the deadlock detector are Postgres's and are marked external.

`Calendar` is the abstract specification. Every night has one owner; a booking takes
nights that are free or belong to lapsed holds, in one step. `ImplementsCalendar` maps
the committed rows of `Bookings` to it: a rollback, a wait or a re-check is a stutter,
and a commit with its sweep is one `Take`.

### Payments

All bookings of the model are guest holds on one unit, since one unit is the scope of
a sweep. An order is a payment row. TTLs are reduced to the flag `lapsed`.

| Action | Code |
|---|---|
| `PayEnter`, `PayLock`, `PaySweep`, `PayMint` | `pay`: resolve the key, lock the booking, sweep and read, call the Provider with the transaction open, insert |
| `PayFault`, `PayRefused`, `PayDeadlock` | a failed or timed-out call, a crash, an aborted transaction: all roll back |
| `Deliver`, `RecordEvent`, `ApplyOutcome`, `Notify`, `Ack`, `WorkerCrash` | the webhook: verify, insert the event, apply it in the same transaction, mail after the commit, 200 |
| `ReadPage`, `FetchStatus`, `SweepOnRead` | reconcile-on-read of the confirmation page: the same path, pulled |
| `CancelById`, `SweepExpiredHolds`, `Lapse` | the booking side |
| `MarkHandled`, `SaveCredential` | the owner |
| `ProviderMove` | external: a transaction at the Provider changes and is notified |

A signature is reduced to what it decides: whether the order was minted under the key
that is stored now. `transaction_id:transaction_status`, the idempotency key, keeps its
structure (`EventId`), since collisions of it matter.

### ChannelSync

One channel of one unit. `Conns` are its connections, one after the other: a
disconnected feed that is connected again is a new row with keys of its own. A row of
`row` is the import of a uid through a connection, which is the unique key
`(channel_connection_id, external_uid)`, or a local booking: a direct one or one of
another channel. `imp[i]` is an importer, which is the cron or a "Sync now" click. Its
`rows` and `conflicts` are what its open transaction has written; they lock those rows
and become visible at `Finish`.

| Action | Code |
|---|---|
| `Begin` | `syncAllConnections`, `syncNow`: the connection is read |
| `Fetch`, `MarkError` | `fetchFeed` and `parseCalendar`, before the transaction; a feed that cannot be read marks the connection and touches nothing else |
| `Import` | `upsertEvent` in its savepoint; a refused one goes on to `recordConflict` |
| `SkipEvent` | any other error of an event: it is logged and counts as not imported |
| `CancelAbsent`, `Finish` | `cancelAbsent`; `closeHealed`, the stamp of the connection, the commit |
| `Abort` | a crash, or a lost deadlock outside a savepoint: the whole reconciliation rolls back |
| `Connect`, `Disconnect`, `Dismiss` | the owner's side of the connection and of the inbox |
| `CancelById`, `BookDirect` | the booking side; a direct booking is one step, which is what `Calendar` promises of it |
| `ChannelChanges` | external: the channel sells, moves or withdraws a stay |

`Import` writes `confirmed` over whatever the row was, also over the owner's cancel, as
`upsertEvent` does. So the one-way FSM of `Bookings` is a property of bookings that
Sambung took itself, and not of imported ones.

### Accounts

An account is an address. `seat[e][t]` is the role of its membership in a tenant, `inv`
the invites, `tokens` every session ever handed out. A create of an invite is four
steps (supersede what has expired, look for a live one, insert, mail), each with its
failure: a mail that bounces revokes the invite, a crash leaves it. An accept is one
transaction of three (`Spend`, the guarded UPDATE; `LockAccount`, SELECT FOR UPDATE
and the second look at the account; `Seat`), and `Explain` finds out afterwards why it
lost. `Register`, `Login`, `Refresh` and `SwitchTenant` mint tokens; `Landing` is the
seat that a session starts in. `RemoveStaff` and `ReplaceAssignments` are the owner's.
What a token opens of the tenant's properties (`Sees`: the property, its units,
bookings, prices, channels and conflicts) is read from the grants of the moment, as the
row-level policies on those tables do (`app_property_visible`). The rows that a policy
opens on `app.tenant_id` alone are outside `Sees`; section 5 says which of them a token
without a seat still reads.

### TenantScope

A request has a bearer, a public id, both (the wiring mistake that `TenantContext.set`
refuses) or neither. `Authenticate` and `EnterPublicScope` mint its principal; `Run`,
`Checkout`, `SetConfig` open a transaction on a pooled connection; `Nest` and `Join`
are the flat join of a nested `run`, which must name the same tenant and scope. `LeaveBehind`
is work that a callback forgets (an un-awaited query, a builder awaited later, a `run`
not awaited), `Fire` the moment it executes, on whatever its connection serves by
then. `Settle` is COMMIT or ROLLBACK, after which the settings (`is_local`) are gone.

### Gallery

A tab presigns, uploads and PATCHes the whole set. The PATCH is `ReadExisting`,
`CheckCap`, `CheckObjects`, `Write`, with no transaction around them; `PatchElsewhere`
is a PATCH from somewhere else, in one step. The sweep is `SweepRead`, `SweepList`,
`SweepStrip` (one key of a gallery per step), `SweepDelete` and may die between any two. `exposed` is a history
variable: photos linked while a sweep has already condemned them.

### Pricing and Funnel

`Pricing` has `quoteTotalIdr` (base price times nights, corrected by clipped
overrides) and `coalesceRanges` as the code computes them, and night-by-night
references. `Funnel` is one guest's tab and one unit: `Select`, `Settle` (the debounce),
`QuoteAnswers`, `Book`, `Submit`, `CreateReadsUnit`, `CreateDecides`, `PayAnswers`,
`GuestPays`, `Return`, `BackFromProvider`, `Poll`, with `Reload`, failed calls and a
phone kit that may not load. The owner reprices, adds overrides that race for the exclusion
constraint (`CheckOverride`, `InsertOverride`), archives or removes the unit and
removes the gateway; other guests book.

Abstractions: the party fits; a quote is one step (an edit between its reads counts as
one that has overtaken it); the re-check and the insert of a create are one step; the
guest leaves the checkout only when it has no request in flight; no request is in
flight for as long as a hold lives; the cached quotes of other stays are dropped at
Book; overrides race only before the guest arrives, and the owner edits only while the
tab is on the property or the checkout page.

### Console

One tab. `session` is the tenant of the token in memory, `cookie` that of the refresh
cookie, which the browser shares between tabs. A behaviour follows one query key:
`cache` is its answer, reduced to whose rows they are and whether the tab's last write
is among them; `req` are the query's request and the operation's. What each screen
reads is a set per hook and section (`UseCalendarData`, `UnitsSection`,
`PropertyEditPage`...). What each operation touches on the server, invalidates, paints and
does on a refusal is a record per operation (`Cancel`, `SaveUnit`, `SyncConnection`...).
What a failed read leaves on screen is a matter of the region. Most of them show an error line
instead of their rows. `KeptInPlace` are the reads whose rows stay, with their controls, beside
the line or without one; `KeptInPart` those that stay in a count or in the choices of a form;
`SaysItFailed` those that have a line. From these follow what is `Shown` and what is
`Offered` to a click. `kept` is the tenant whose rows stand in for a page of bookings that
is still loading (`keepPreviousData`).

| Action | Code |
|---|---|
| `GuardPasses`, `GuardRefreshes`, `GuardTurnsAway`, `GuardRefreshFails`, `LeaveErrorPage` | `ensureSession` before `/app` and `/login`, and the error page of a guard whose call is lost |
| `Login`, `Register`, `AcceptInvite`, `Logout` | the auth pages, the account menu |
| `Refresh`, `RefreshFails`, `Resend`, `SessionGone` | `sendWithSession`: one refresh, one retry, then a new page load; a refresh may be lost (`ComesToNothing`) or answered with an error while the cookie is good |
| `Open`, `TurnPage`, `Refetch`, `QueryAnswered`, `QueryFails` | screens mounting queries; another month or filter; React Query's staleness and its one retry |
| `Click`, `OperationAnswered`, `OperationRefused`, `OperationFails` | a mutation with its onSuccess, onError and onSettled |
| `SwitchTo`, `Switched`, `SwitchFails` | the workspace switcher; `ResetQueries` is `resetQueries` |
| `TokenExpires`, `SeatLost`, `OtherTab`, `ServeQuery`, `ServeOperation`, `ServeSwitch` | the server and the other tab |

`mixed` is a history variable: the session moved without the switcher (a refresh that
lands in another seat, a sign-in over a kept cache), or an answer painted the rows of a
tenant that is no longer the session's. `owed` says that the user has just changed what
the screen shows. Abstractions: the validity of a token is fixed when the request is
sent; a fetch that React Query has cancelled is not followed further; one operation at
a time; an operation navigates as soon as it succeeds; roles do not hide controls;
sign-out is one step, and so is a refresh of the guard that succeeds; a query that no screen mounts is never
collected; a page turned to is one that was not read before, and a request that paging or an
invalidation has replaced is not followed; rows that stand in for a page are gone after its final
failure and do not come back with the next fetch; a 404, which two queries do not retry, counts as
a failure like any other; a section whose parent shows an error line counts as shown.

## 3. Runs

| Run | Checks | Instance |
|---|---|---|
| `bookings_race` | `WriteProtocol` (which contains `TypeOK`), `NoDoubleBooking`, `DeadBookingsStayDead`, `OverlapIsNeverADeadHold` | three requests, all stays in two nights, two ticks |
| `bookings_live` | `LedgerKeepsItsUnit`, `ArchivedUnitTakesNoNewSale`, `ImplementsCalendar`, `EveryRequestAnswered`, `LapsedHoldIsFreed` | two requests, two units (one retirable, one without a gateway), a party that may not fit, transactions of any length |
| `payments_session` | `OneOpenSession`, `SettledMoneyIsVisible`, `SessionsAreForHolds`, `NothingIsUndone` | one hold, two pay requests, two orders, two attempts in a session, one fault |
| `payments_money` | `ConfirmedIsPaidFor`, `MailedAtMostOnce` | wrong amounts, refunds, a replaced key, a webhook and a page, one fault |
| `payments_live` | `CapturedIsRecorded`, `EveryPayAnswered` | two pay requests that sweep each other's holds, one order, one fault |
| `payments_challenge` | `SettlementIsNoDuplicate` (violated) | one capture that is reviewed |
| `channel_import` | `NoDoubleBooking`, `DismissalStands`, `ClosedByMeasurement`, `EventuallyMirrored` | the cron and a click, one connection, two uids, a local booking, one change, one fault |
| `accounts` | `SpentExactlyOnce`, `TokenSeesItsSeat`, `RefusalNamesALiveInvite`, `LiveAccountKeepsItsPassword` | one address, two tenants and one to be founded, two invites, one create, two visits, one fault |
| `tenant_scope` | `ReachesItsOwnRows`, `PoolIsClean`, `EveryRequestEnds` | two requests of any kind, one connection, two tenants, a staff member with one of two properties |
| `gallery` | `OnlyTheGapBreaks`, `NeverOverEveryCap`, `OrphansAreReclaimed`, `OversizeIsEvicted` | one tab and saves from elsewhere, two keys, caps 1 and 2, one fault |
| `funnel` | `PriceShownIsForThisStay`, `QuoteArithmetic`, `LapsedMeansLapsed`, `QuoteIsHonoured`, `NeverLeftWaiting` | two overlapping stays of three nights, two prices, two minimum stays, two submits, one edit, one fault |
| `console` | `OwnWritesAreShown`, `SwitcherMixesNothing`, `DeadSessionEndsAtLogin` | two workspaces, four query keys one by one, two events |

**Bounds.** `LastDay` bounds the nights: two nights give disjoint, equal, contained and
adjacent stays. Three requests are one sweeper, one re-checker and one inserter that
all contend. `MaxClock` and `TxnLimit` let a hold lapse before, during and after a
transaction that started while it was alive. In `Payments`, `Attempts` bounds the
transactions of an order, `MaxFaults` the crashes, failed calls, bounced mails and
unnecessary repeats (a repeat after a lost answer is a fault too), and the number of
orders the sessions of a behaviour. `ProviderMay` switches the Provider's unusual
behaviours on one group at a time. In `ChannelSync`, `MaxChanges` bounds what the
channel and the owner's cancels change after the start; `FirstFeeds` are all calendars
the channel may start with, up to renaming the two uids, and a change may lead to any other
one, so one change is enough for a sale, a move, a withdrawal and a resold night between two
pulls. `MaxNights` keeps stays to one of two nights, since what a longer stay overlaps
is the matter of `Bookings`. `MaxFaults` bounds empty, failed or partly parsed pulls and
crashes; deadlocks are not bounded, they happen where waits form a cycle.
In `Accounts` two visits are enough for every pair of accept, register, log in, refresh
and switch, and two invites for a reissue and for two tenants that invite one address.
In `TenantScope` one connection makes every request follow another one on it, and makes
a second checkout of a nested run a deadlock. In `Gallery` two keys and caps of one and
two let a set be over the cap, at it and under it. In `Funnel` the two stays share one night,
so an override of one prices part of the other. In `Console`, `MaxEvents` bounds
switches, sign-outs, expiries, lost seats, moves of the other tab, turned pages and failed
calls, refreshes included: two of them let a token expire after its seat went, a switch meet a
failure or a turned page, and a fetch fail with its retry. Keys differ in their operations and in what a
failed read leaves on screen. The four are `bookings`, the only one that is paged, which hides
its rows behind an error; `credentials`, which keeps them in place; `lapsed`, which the badge
keeps counting; `invites`, whose path is under `/auth`. The eleven others pass the same run one
at a time and are left out for its length, and `OneWorkspaceOnScreen` and `WritesAreShown`
are proved for every key.

`CHECK_DEADLOCK FALSE` everywhere: a workload ends when every request is answered and
the bounds are used up.

**Fairness.** In `Bookings` weak fairness of a begun handler (Node runs it on; the
database ends its waits, by a commit or the deadlock detector), of the clock and of the
cron. In `Payments` strong fairness of a begun handler: it waits for a row lock, which
Postgres grants in the order of arrival, so a waiter that could proceed again and again
does proceed. Delivery is weakly fair because the Provider repeats a notification until
it has a 200. In `ChannelSync` strong fairness of a begun reconciliation, for the same
reason, and of the cron's visit to every connection: it comes round on a timer, but a
visit that is under way disables the next. In `TenantScope` strong fairness of the
checkout, since the pool serves its queue in order, and of the callback's return. In `Gallery` weak
fairness of the sweep, which is a cron, and of the ageing of objects. In `Funnel` weak
fairness of answers (a create's, a pay's, the phone kit's), of the poll's timer and
of a hold's TTL; a failed call is an answer too. In `Console` weak fairness of the guard
that passes or turns away, of answers and of the continuation of a refresh. Nothing is assumed of
guests, of owners or of faults.

## 4. What is proved

Every invariant and every action property of a passing run is a theorem, for all
values of the constants; only liveness is left to the runs (end of this section). A run
shows that the property is not vacuous and that a bug in the code would break it; the
theorem shows that the small instance hid nothing.

Each `XProofs` has one inductive invariant, from which its theorems follow. None of the
properties is inductive by itself: each speaks of what is committed, on screen or
answered, and a step is safe because of what somebody in the middle of a transaction
holds, has read or has locked. The invariant says what that is.

| Module | Invariant | Theorems (and the property, where the name differs) |
|---|---|---|
| `BookingsProofs` | `WriteProtocol` | `ProtocolHolds`, `TypeCorrect`, `CalendarIsSafe` (`NoDoubleBooking`), `LedgerIsSafe` (`LedgerKeepsItsUnit`), `FsmIsOneWay` (`DeadBookingsStayDead`), `HoldsAreHonoured` (`HoldsKeepTheirTtl`), `ArchiveIsHonoured` (`ArchivedUnitTakesNoNewSale`), `DeadHoldsBlockNobody` (`OverlapIsNeverADeadHold`), `WritePathIsACalendar` (`ImplementsCalendar`) |
| `PaymentsProofs` | `MoneyProtocol` | `MoneyProtocolKept`, `OneSession` (`OneOpenSession`), `NoFreeNights` (`ConfirmedIsPaidFor`), `OneMail` (`MailedAtMostOnce`), `MoneyIsVisible` (`SettledMoneyIsVisible`), `LedgerIsOneWay` (`NothingIsUndone`), `SessionsForHolds` (`SessionsAreForHolds`) |
| `ChannelSyncProofs` | `SyncProtocol` | `SyncProtocolKept`, `NothingIsSoldTwice` (`NoDoubleBooking`), `JudgementsStand` (`DismissalStands`), `FailureIsNoMeasurement` (`ClosedByMeasurement`) |
| `AccountsProofs` | `AccountsProtocol` | `AccountsProtocolKept`, `OneSeatPerInvite` (`SpentExactlyOnce`), `PasswordsAreSafe` (`LiveAccountKeepsItsPassword`), `TokensFollowSeats` (`TokenSeesItsSeat`), `RefusalsAreForLiveInvites` (`RefusalNamesALiveInvite`) |
| `TenantScopeProofs` | `PoolProtocol` | `PoolKept`, `OwnRows` (`ReachesItsOwnRows`), `CleanPool` (`PoolIsClean`) |
| `GalleryProofs` | `GalleryProtocol` | `GalleryProtocolKept`, `PhotosAreBacked` (`OnlyTheGapBreaks`), `CapHolds` (`NeverOverEveryCap`) |
| `FunnelProofs` | `FunnelProtocol` | `FunnelProtocolKept`, `PriceIsForThisStay` (`PriceShownIsForThisStay`), `LapsedIsLapsed` (`LapsedMeansLapsed`), `QuotesAreHonoured` (`QuoteIsHonoured`), `QuotesAddUp` (`QuoteArithmetic`), `SalesAreAtPrice` |
| `ConsoleProofs` | `ConsoleProtocol` | `ConsoleProtocolKept`, `OneWorkspaceOnScreen` (`SwitcherMixesNothing`), `WritesAreShown` (`OwnWritesAreShown`) |

**Assumptions.** Every theorem assumes its module's named assumptions on the constants,
which give their types and which TLC evaluates in every run. Beyond types they say that `None` is
neither a principal (`NoneIsNoCredential`) nor a version of a row (`NoneIsNoVersion`), and
that the keys of the object store are finitely many, since a gallery is counted. One theorem
has a premise of its own: `DeadHoldsBlockNobody` needs `TxnLimit <= HoldTtl`. A hold is
dated from the start of its transaction, so a transaction that stays open for longer than
the TTL commits a hold that has lapsed before anybody can see it, and the next request is
refused for it. The code's TTL is minutes and its transactions are not.

**Bookings.** `WriteProtocol` has what the transactions owe each other:

* `LocksAreExclusive`: two transactions never have the same row swept, and a swept row
  is a hold that had lapsed when its transaction started. So a commit's sweep can only
  free nights, and it cannot undo a cancel or a settlement that came in between.
* `PassedInsertsAreClear`: an insert that passed the constraint conflicts with no row
  that stays occupying and with no other passed insert, and its unit exists. `WaitsFor`
  maintains this: the check looks at undecided tuples and at undecided sweeps.
* `RowsAppearAtCommit`, `OccupyingRowsAreClear`, `StaysAreNonempty`, `LedgerKeepsItsUnit`.

`ConflictIsASharedNight` connects the constraint's half-open ranges with nights. The
archive needs that a request in its transaction has seen its unit on sale
(`OnSaleWhileItRan`), and the refusals that a transaction past its sweep has every hold of
the unit that had lapsed at its start (`SweepsAreThorough`). The refinement goes step
by step: a night has one owner (`NightsHaveOneOwner`), a commit is a `Take` of the nights of its
stay and of those of the holds it has swept (`CommitTakes`), a cancel and the cron are
releases, a settlement ends a lease, and every other step leaves the owners alone.

**Payments.** The Provider is called with the transaction open, so the proof is about
locks that outlive a remote call. `LocksAreExclusive` and `MintingIsForAHold` say that the
booking at the Provider is still a hold without an open order, because whoever would
change that waits (`OneOpenOrder` is `OneOpenSession` without counting). `EventsAreReported`
says that a worker holds only what was sent, for an order that was minted;
`MailIsForTheConfirm` that one commit confirmed the booking and it is the one that mails.

**ChannelSync.** Two reconciliations write versions of rows that nobody else sees.
`NoTwoVersionsOverlap` has three parts: the table, what each transaction sees, and what any two have
written. The constraint in `Import` looks at exactly these. `WritesAreExclusive` gives each version
one writer and keeps a dismissal that a transaction met; `WritesAreByTheFeed` says that
what is cancelled was absent from a pull that had events.

**Accounts.** `InviteIsLocked` and `AccountIsLocked` are the two row locks of an accept;
`OneWinner` is `SpentExactlyOnce` without counting. `NobodyInvitesAnOwner` closes
the case in which an accept would seat the owner as staff.

**TenantScope.** `OwnsItsConnection` and `CarriesItsScope` say whose settings a
connection has; `LooseWorkIsKept` that work left behind is on the connection of its
transaction for as long as `alive` is true, so that what it reads is its request's own.

**Gallery.** `PatchesAreBacked` and `NewKeysAreNowhere` say what a PATCH knows of the
keys it is about to link, `SweepsCondemnOrphans` what a sweep knows of those it is
about to delete, and `PatchesKeepTheCap` that a set was checked against some cap or was no
larger than the one it replaces.

**Funnel.** `AnswersAreForTheirStay` files every answer under its stay, `KitGatesSubmits`
keeps creates behind the phone kit, and `VerdictsAreOnTheHeld` says that no create is
on its way when a held hold lapses. The totals are members of a set `T` of which nothing
is assumed, since this part does not depend on the arithmetic. `QuotesAreHonoured` adds
`OffersStand` to it: an answer or an offer that nothing has overtaken is the quote that the
write would compute now. Whatever changes the unit or its overrides, or takes a night, overtakes
them all; every other step can only free nights (`DisturbedMeansOvertaken`). That a quote
with no taken night is available needs that the merge of the blocked ranges is empty only
for none (`RangesDoNotVanish`), and so that a finite set of ranges can be sorted.
`LeastNatural` is an induction over a finite set without an operator parameter, by a
minimal element, and the lemmas about sorting and folding go by the least prefix that fails.

**The arithmetic of a quote.** `QuotesAddUp` is about the quote as the code computes it, from
overrides clipped to the stay, for every window at once. Its inductive invariant is
`PricesAreDisjoint`: however many inserts race, the exclusion constraint leaves no night with
two prices. The rest is data. `MapThenSumSet` is a recursion on a `CHOOSE`n element; `Sums`
replaces it by a function on all parts of a set that may take off any element, which
exists and is unique (`SumsExist`, `SumsAgree`), and which the fold finds
(`SumsByRecursion`, `RecursionExists`). With it the correction by each override is shown to be
the sum over the nights one more night at a time (`CorrectionGrows`, `SumsDiffer`,
`TotalIsNightByNight`), and clipping to change no night's price (`ClippingKeepsThePrice`).
For the blocked ranges, `MergedUpTo` is the loop invariant of `coalesceRanges`: after each turn the
ranges are in order, apart, and have the nights of the input so far (`MergeTurn`), and ranges that
are apart are the maximal runs of their nights (`ApartMeansMaximal`). `SalesAreAtPrice` puts
the two halves together at the commit of a create: nights that are free after its own sweep, as
many as the unit asks for, at the sum of their prices, the overrides as they are at
the commit and the base price and the minimum stay as the request has read them. The two can be
of different moments, since each statement of the transaction reads what is committed by then.

**Console.** `TabIsOfOneWorkspace` says whose rows the fetch under way will bring, to a page
that others stand in for too. `OwedIsOnItsWay` says that it brings the write that is owed, or that the
page says that it failed. `OperationsCoverTheirPage` is the
table of operations and pages: what an operation touches of its own page it invalidates
or fills in. `OwedKeysSayTheyFailed` is the one of operations and error lines: whatever is touched
by an operation of its own page has a line there, which the team's list of properties does not.

`TypeCorrect`, `HoldsAreHonoured` and `SalesAreAtPrice` have no run of their own: the first is a
conjunct of `WriteProtocol`, the others were settled by their proofs.

**Only model-checked.** Liveness, which is out of the prover's reach (`EveryRequestAnswered`,
`LapsedHoldIsFreed`, `CapturedIsRecorded`, `EveryPayAnswered`, `EventuallyMirrored`,
`EveryRequestEnds`, `OrphansAreReclaimed`, `OversizeIsEvicted`, `NeverLeftWaiting`,
`DeadSessionEndsAtLogin`).

## 5. Where the code and its documentation disagree

Checked by a run:

* **An accepted review is dropped** (`payments_challenge`). `capture` under review and
  `capture` accepted have one idempotency key; the second is a duplicate.
  `payment-gateway.ts` says that a settlement is never mistaken for a duplicate.

Met while modelling, and part of the models:

* **A lost race can be a 500.** Two inserts of the same night may both be in the index
  before either is checked. They wait for each other and Postgres aborts one with
  40P01, which names no constraint (`DeadlockVictim`). `docs/api-spec.md:24` and `:291`
  promise a 409.
* **A settlement after a failure is not recorded paid.** The payment UPDATE is guarded
  on `pending` (`PaymentAfter`); `docs/adr/0018` and `docs/api-spec.md:324` say it is recorded.
  It takes no race: a guest whose first card is denied and who pays with a second one in the
  same session has a payment that stays failed, while the booking is confirmed or,
  if it has lapsed, the money is not in the inbox. `SettledMoneyIsVisible` names this
  as its only exception, and the proof found that it is the only one.
* **An older pull cancels what a newer one imported.** The feed is pulled before the
  transaction and nothing orders two reconciliations of a connection; the next cycle
  imports it again (`EventuallyMirrored`). `ical-import.service.ts:398` calls what
  `cancelAbsent` cancels an OTA-side cancellation.
* **The owner's cancel of an imported booking does not stand**: the next pull that has
  the event confirms it again. `docs/api-spec.md` §5.6 makes cancel the universal verb to free dates.
* **The check-then-write gap of a gallery can leave a bad row.**
  `properties.service.ts:126-131` says it costs a wasted PATCH at worst; a sweep that
  read the galleries before the PATCH and deletes after it leaves a photo without an
  object, also against `photo-gc-sweeper.service.ts:61` ("NEVER deleted").
  `OnlyTheGapBreaks` shows that this is the only way.
* **The checkout's quote can be up to 30 seconds old.** `checkout-page.tsx:47-49` says
  re-quoted and fresh; the picker's quote is in the cache, and `staleTime` keeps it.
  The create request carries no price, so the booking is sold at the price of the
  moment. A quote is three reads of a READ COMMITTED transaction and may mix two prices.
* **The switcher's promise holds for the switcher, and for cached rows.**
  `workspace-switcher.tsx:16-19` wants no frame of one tenant's rows under another's name. A
  refresh that lands in another seat (another tab moved the cookie, or the seat is gone), a refresh
  answered after a switch, a sign-in over the cache of the last user, and a PATCH of the settings
  answered after a switch all mix them (`mixed`). The switch itself does too while a
  month of the calendar or a filter of the reservations is loading: the rows that stand in for it
  (`keepPreviousData`, `use-calendar.ts:48`, `use-reservations.ts:79`) are the observer's and not the
  cache's, so the reset does not drop them (`workspace-switcher.tsx:46-48`) and the old
  tenant's bookings stay until the new page lands. `SwitcherMixesNothing` shows that it is the
  switched session's.
* **A failed read does not always replace the rows.** `list-state.tsx:14-16` has error checked
  before data, in a branch of its own. The settings form, the payment section and the list of properties
  test the two side by side, so the last rows stay, editable, next to "We couldn't load"; the
  calendar and the reservations keep their filter of properties, and the team section offers
  the properties of the last good read and has no line for a failed one. An owner whose saved key
  cannot be read back sees "No key saved yet" and the error. `use-inbox-count.ts:12` says that
  a load error reads as 0, and the badge counts the rows of the last good read.
  `OwnWritesAreShown` is the promise that is left: the write, or the line.
* **A refresh that fails ends a good session.** `refreshSession` clears the session on every answer
  but 2xx, a 500 or a 429 included. `api-client.ts:85-90` goes to `/login?next=...`, "remembering
  where the user was"; the guard there refreshes once more, finds the cookie good and leads
  to the dashboard's first page, without the `next`. A refresh call that is lost throws instead and keeps the
  session, also one whose last seat is gone, until a call gets through (`DeadSessionEndsAtLogin`).
* **A token without a seat still reads its tenant's settings.** `auth.service.ts:188-191` says that
  every scoped read behind such a token returns nothing, since row-level security reads `membership`.
  That is so for the tables of a property (`property`, `unit`, `booking`, `channel_connection`,
  `sync_conflict`, `unit_price_override`), whose policies ask `app_property_visible`;
  `TokenSeesItsSeat` is about these. The policies of `tenant`, `membership`, `staff_invite` and
  `tenant_payment_credential` compare `app.tenant_id` alone. The last three are read behind
  `@Roles('owner')`, which reads the role of the token; `GET /settings`
  (`settings.controller.ts:26-29`) has no role, and the guard reads no membership
  (`auth.guard.ts:55-64`), so a removed staff member reads the tenant's photo cap until the
  token expires.
* **A painted answer can be overwritten.** `use-settings.ts` and `photos-section.tsx:58`
  fill the cache from the PATCH response and cancel nothing, so an older read that is
  under way lands on top of it.
* **An invalidation during a query's first load is not followed by a refetch**, so a
  write made meanwhile may be missing until the rows are stale.
* **A change of a unit leaves the calendar's and the reservations' `["units"]` stale** for
  up to 30 seconds, and a disconnect the conflict badge, which `use-inbox-count.ts` calls
  current wherever you are.
* **Creating or revoking an invite fails on an expired token**, since `/auth` paths are
  exempt from the refresh (`api-client.ts:69`: their 401s are answers).
* **A sign-out whose call fails is undone** by the guard of `/login`, which finds the
  cookie and signs the user in again (`account-menu.tsx:55`: "drop the local session").

## 6. Not modelled, and the plan

Cryptography, rendering, e-mail texts, validation of wire shapes, reads without state
(booking lists, CSV, the iCal export), throttling, the edge worker, seeds and
documentation tooling are not modelled: they keep no state that two steps could
disagree about, or are text. `PROJECT.json` gives each part's status.

Two successive connections of a channel, two channels of a unit, and two operations of
a tab at a time would be larger instances of the models that are here.
