------------------------------- MODULE Funnel -------------------------------
(***************************************************************************)
(* The guest funnel of the web application against the public API: the     *)
(* availability picker and its quote cache, the checkout page, the handoff *)
(* to the Provider and the confirmation page, while the owner reprices,    *)
(* retires the unit or removes the payment gateway and other guests book.  *)
(*                                                                         *)
(* One unit, one guest tab.  A create reads the unit first and the         *)
(* bookings and overrides later, as the statements of its READ COMMITTED   *)
(* transaction do; its re-check and its insert are one step here, which    *)
(* module Bookings has apart.  A quote is one step: an edit between its    *)
(* reads counts as one that has overtaken it.  The guest leaves the        *)
(* checkout only when it has no request in flight, and no request stays in *)
(* flight for as long as a hold lives.  The party fits the unit.           *)
(***************************************************************************)
EXTENDS Pricing

CONSTANTS
  Picks,       \* the stays the guest may select
  OtherStays,  \* the stays other guests may book
  Seasons,     \* the spans the owner may price
  Prices,      \* nightly prices the owner may set
  MinStays,    \* minimum stays the owner may set
  MaxSubmits,  \* bound on the create requests the tab has in flight
  MaxHolds,    \* bound on the bookings of this guest
  MaxEdits,    \* bound on what the owner and other guests do
  MaxFaults,   \* bound on failed calls and reloads
  None

ASSUME FunnelAssumption ==
  /\ Picks \cup OtherStays \cup Seasons \subseteq Spans /\ Prices \subseteq Nat /\ MinStays \subseteq Nat
  /\ Prices # {} /\ MinStays # {}
  /\ MaxSubmits \in Nat /\ MaxHolds \in Nat /\ MaxEdits \in Nat /\ MaxFaults \in Nat
  /\ None \notin Picks

VARIABLES
  unit,       \* the unit row: state, base_price_idr, min_stay
  overrides,  \* its unit_price_override rows
  adding,     \* overrides whose create has passed its pre-check
  gateway,    \* the tenant has a payment credential
  taken,      \* stays of other occupying bookings
  mine,       \* this guest's bookings, in the order of their inserts
  page,       \* where the tab is
  online,     \* onlinePaymentsAvailable, as the tab last loaded it
  picked,     \* the ?from&to of the URL
  settled,    \* the debounced selection: the key the quote observes
  cache,      \* the query cache, by stay
  fetch,      \* the quote requests, by stay
  kit,        \* the lazily loaded phone kit
  submit,     \* the create requests of the tab
  latest,     \* the one the mutation's state follows
  held,       \* the booking in the checkout's `held` state: an index of mine
  pay,        \* the state of the pay mutation
  holdLapsed, \* the countdown has reached zero
  shown,      \* the booking status the confirmation page has loaded
  edits, faults

serverVars == <<unit, overrides, adding, gateway, taken, mine>>
quoteVars == <<picked, settled, cache, fetch>>
checkoutVars == <<kit, submit, latest, held, pay, holdLapsed>>
vars == <<serverVars, page, online, quoteVars, checkoutVars, shown, edits, faults>>

-----------------------------------------------------------------------------
Submits == 1 .. MaxSubmits

Quote == [stay : Picks, available : BOOLEAN, total : Nat]

Booking == [stay : Picks, total : Nat, paid : BOOLEAN, lapsed : BOOLEAN,
            status : {"pending_payment", "confirmed", "expired", "cancelled"}]

NoEntry == [data |-> None, fresh |-> FALSE, isError |-> FALSE, current |-> FALSE]
NoSubmit == [step |-> "none", base |-> 0, minStay |-> 0, offer |-> None]

TypeOK ==
  /\ unit \in [state : {"active", "archived", "gone"}, base : Prices, minStay : MinStays]
  /\ overrides \subseteq [from : 0 .. LastDay, to : 0 .. LastDay, price : Prices]
  /\ adding \subseteq [from : 0 .. LastDay, to : 0 .. LastDay, price : Prices]
  /\ gateway \in BOOLEAN /\ online \in BOOLEAN /\ holdLapsed \in BOOLEAN
  /\ taken \subseteq Spans
  /\ mine \in Seq(Booking)
  /\ edits \in 0 .. MaxEdits /\ faults \in 0 .. MaxFaults
  /\ page \in {"property", "checkout", "provider", "confirmation"}
  /\ picked \in Picks \cup {None} /\ settled \in Picks \cup {None}
  /\ cache \in [Picks -> [data : Quote \cup {None}, fresh : BOOLEAN, isError : BOOLEAN,
                          current : BOOLEAN]]
  /\ fetch \in [Picks -> {"idle", "sent", "overtaken"}]
  /\ kit \in {"loading", "loaded", "failed"}
  /\ submit \in [Submits -> [step : {"none", "waiting", "sent", "priced"}, base : Nat,
                             minStay : Nat, offer : Quote \cup {None}]]
  /\ latest \in 0 .. MaxSubmits
  /\ held \in 0 .. Len(mine)
  /\ pay \in {"idle", "pending", "payments_not_configured", "booking_not_payable",
              "provider_error"}
  /\ shown \in {"none", "pending_payment", "confirmed", "expired", "cancelled"}

-----------------------------------------------------------------------------
OCCUPYING_STATUSES == {"pending_payment", "confirmed"}

\* The occupying bookings of the unit, this guest's being `rows`.
OccupiedBy(rows) ==
  taken \cup {rows[b].stay : b \in {i \in DOMAIN rows : rows[i].status \in OCCUPYING_STATUSES}}

\* expireLapsedHolds, over this guest's rows.
Swept(rows) ==
  [b \in DOMAIN rows |->
     IF rows[b].status = "pending_payment" /\ rows[b].lapsed
     THEN [rows[b] EXCEPT !.status = "expired"] ELSE rows[b]]

\* AvailabilityService.quote: from the unit as it was read and the rows as they
\* are now.
quote(rows, s, base, minStay) ==
  [stay |-> s,
   available |-> /\ coalesceRanges(findBlockedRanges(OccupiedBy(rows), s)) = <<>>
                 /\ meetsMinStay(countNights(s.from, s.to), minStay),
   total |-> quoteTotalIdr(base, s, {Clip(o, s) : o \in {p \in overrides : Overlaps(p, s)}})]

\* A stay's query is asked again when it is observed without fresh data.
Observe(s) ==
  IF s # None /\ fetch[s] = "idle" /\ ~cache[s].fresh
  THEN [fetch EXCEPT ![s] = "sent"] ELSE fetch

IsFetching(s) == fetch[s] # "idle"

\* History: a change that may make a quote untrue overtakes the answers the tab
\* has, those on their way, and the offers its submissions were made on.
Overtake ==
  /\ cache' = [s \in Picks |-> [cache[s] EXCEPT !.current = FALSE]]
  /\ fetch' = [s \in Picks |-> IF IsFetching(s) THEN "overtaken" ELSE "idle"]

WithoutOffer(sub) == [k \in Submits |-> [sub[k] EXCEPT !.offer = None]]

\* Mutant: the card trusts whatever the query holds.
NotSyncing == FALSE

\* The live selection is ahead of the debounced one.
syncing == picked # None /\ picked # settled

\* QuoteCard: the quote it renders, None in its other states.
CardQuote ==
  IF /\ page = "property" /\ picked # None /\ settled # None
     /\ ~syncing /\ ~IsFetching(settled) /\ ~cache[settled].isError
  THEN cache[settled].data ELSE None

\* The quote the checkout page has, None while there is none.
CheckoutQuote == IF page = "checkout" /\ picked # None THEN cache[picked].data ELSE None

\* What the checkout page renders, in the order of its early returns.
View ==
  CASE page # "checkout" -> "elsewhere"
    [] page = "checkout" /\ picked = None -> "choose_dates"
    [] page = "checkout" /\ picked # None /\ (~online \/ pay = "payments_not_configured")
         -> "payments_unavailable"
    [] OTHER -> IF holdLapsed \/ pay = "booking_not_payable" THEN "hold_lapsed"
                ELSE IF held # 0 THEN "payment_retry" ELSE "form"

InFlight(k) == submit[k].step \in {"sent", "priced"}

\* createMut.isPending: the mutation's state follows its latest call.
IsPending == latest # 0 /\ InFlight(latest)

Busy == pay = "pending" \/ \E k \in Submits : submit[k].step # "none"

Fault == faults < MaxFaults /\ faults' = faults + 1
Edit == edits < MaxEdits /\ edits' = edits + 1

\* The tab runs the application: away at the Provider it is frozen.
Running == page \in {"property", "checkout"}

Init ==
  /\ unit = [state |-> "active", base |-> Min(Prices), minStay |-> Min(MinStays)]
  /\ overrides = {} /\ adding = {}
  /\ gateway = TRUE /\ online = TRUE
  /\ taken = {} /\ mine = <<>>
  /\ page = "property" /\ picked = None /\ settled = None
  /\ cache = [s \in Picks |-> NoEntry] /\ fetch = [s \in Picks |-> "idle"]
  /\ kit = "loading" /\ submit = [k \in Submits |-> NoSubmit] /\ latest = 0
  /\ held = 0 /\ pay = "idle" /\ holdLapsed = FALSE
  /\ shown = "none" /\ edits = 0 /\ faults = 0

-----------------------------------------------------------------------------
\* The picker.

\* onSelect: a full selection goes to the URL.
Select(s) ==
  /\ page = "property" /\ picked # s /\ Cardinality(adding) <= 1
  /\ picked' = s
  /\ UNCHANGED <<serverVars, page, online, settled, cache, fetch, checkoutVars, shown,
                 edits, faults>>

\* useDebounced settles and the quote observes the new key.
Settle ==
  /\ page = "property" /\ settled # picked
  /\ settled' = picked
  /\ fetch' = Observe(picked)
  /\ UNCHANGED <<serverVars, page, online, picked, cache, checkoutVars, shown, edits,
                 faults>>

\* staleTime passes.
GoStale(s) ==
  /\ Running /\ cache[s].fresh
  /\ cache' = [cache EXCEPT ![s].fresh = FALSE]
  /\ UNCHANGED <<serverVars, page, online, picked, settled, fetch, checkoutVars, shown,
                 edits, faults>>

\* The card's inline retry, or a refetch when the window regains focus.
Refetch ==
  /\ Running /\ settled # None
  /\ ~cache[settled].fresh
  /\ Observe(settled) # fetch
  /\ fetch' = Observe(settled)
  /\ UNCHANGED <<serverVars, page, online, picked, settled, cache, checkoutVars, shown,
                 edits, faults>>

\* getPublicQuote, and its answer in the cache: unknown and archived are the
\* same 404, which ends in an error after its retry.
QuoteAnswers(s) ==
  /\ Running /\ IsFetching(s)
  /\ fetch' = [fetch EXCEPT ![s] = "idle"]
  /\ cache' = [cache EXCEPT ![s] =
       IF unit.state = "active"
       THEN [data |-> quote(mine, s, unit.base, unit.minStay),
             fresh |-> TRUE, isError |-> FALSE, current |-> fetch[s] = "sent"]
       ELSE [@ EXCEPT !.isError = TRUE, !.fresh = FALSE]]
  /\ UNCHANGED <<serverVars, page, online, picked, settled, checkoutVars, shown, edits,
                 faults>>

\* The request and its one retry fail.  Data of an earlier answer stays.
QuoteFails(s) ==
  /\ Running /\ IsFetching(s) /\ Fault
  /\ fetch' = [fetch EXCEPT ![s] = "idle"]
  /\ cache' = [cache EXCEPT ![s].isError = TRUE, ![s].fresh = FALSE]
  /\ UNCHANGED <<serverVars, page, online, picked, settled, checkoutVars, shown, edits>>

\* The property query is loaded again.
RefetchProperty ==
  /\ Running /\ online # gateway
  /\ online' = gateway
  /\ UNCHANGED <<serverVars, page, quoteVars, checkoutVars, shown, edits, faults>>

\* The Book link of an available quote: the checkout page mounts with its state
\* empty and observes the stay.  The guest is done with the other stays.
Book ==
  /\ CardQuote # None /\ CardQuote.available /\ online
  /\ page' = "checkout"
  /\ fetch' = [s \in Picks |-> IF s = picked THEN Observe(picked)[s] ELSE "idle"]
  /\ cache' = [s \in Picks |-> IF s = picked THEN cache[s] ELSE NoEntry]
  /\ kit' = IF kit = "failed" THEN "loading" ELSE kit
  /\ UNCHANGED <<serverVars, online, picked, settled, submit, latest, held, pay,
                 holdLapsed, shown, edits, faults>>

\* Back to the picker: the frame's link, or the one a lapsed hold offers.  A
\* guest at the bound of bookings has no reason to.
BackToPicker ==
  /\ page = "checkout" /\ ~Busy /\ Len(mine) < MaxHolds
  /\ page' = "property"
  /\ held' = 0 /\ pay' = "idle" /\ holdLapsed' = FALSE /\ latest' = 0
  /\ submit' = [k \in Submits |-> NoSubmit]
  /\ fetch' = Observe(settled)
  /\ UNCHANGED <<serverVars, online, picked, settled, cache, kit, shown, edits, faults>>

\* The guest reloads the checkout: everything but the URL is lost.
Reload ==
  /\ page = "checkout" /\ Fault
  /\ cache' = [s \in Picks |-> NoEntry]
  /\ fetch' = [s \in Picks |-> IF s = picked THEN "sent" ELSE "idle"]
  /\ kit' = "loading" /\ online' = gateway
  /\ submit' = [k \in Submits |-> NoSubmit] /\ latest' = 0
  /\ held' = 0 /\ pay' = "idle" /\ holdLapsed' = FALSE
  /\ UNCHANGED <<serverVars, page, picked, settled, shown, edits>>

-----------------------------------------------------------------------------
\* The checkout.

\* loadPhoneKit succeeds: the submissions that awaited it go out.
KitLoads ==
  /\ page = "checkout" /\ kit = "loading"
  /\ kit' = "loaded"
  /\ submit' = [k \in Submits |->
       IF submit[k].step = "waiting" THEN [submit[k] EXCEPT !.step = "sent"] ELSE submit[k]]
  /\ latest' \in IF \E k \in Submits : submit[k].step = "waiting"
                 THEN {k \in Submits : submit[k].step = "waiting"} ELSE {latest}
  /\ UNCHANGED <<serverVars, page, online, quoteVars, held, pay, holdLapsed, shown,
                 edits, faults>>

\* Mutant: the loader's rejection is swallowed and the await never settles.
KitFailsSilently ==
  /\ page = "checkout" /\ kit = "loading" /\ Fault
  /\ kit' = "failed"
  /\ UNCHANGED <<serverVars, page, online, quoteVars, submit, latest, held, pay,
                 holdLapsed, shown, edits>>

\* The chunk does not load: the submissions that awaited it stop, Retry shows.
KitFails ==
  /\ page = "checkout" /\ kit = "loading" /\ Fault
  /\ kit' = "failed"
  /\ submit' = [k \in Submits |->
       IF submit[k].step = "waiting" THEN NoSubmit ELSE submit[k]]
  /\ UNCHANGED <<serverVars, page, online, quoteVars, latest, held, pay, holdLapsed,
                 shown, edits>>

\* The Retry beside the country list.
RetryKit ==
  /\ View = "form" /\ kit = "failed"
  /\ kit' = "loading"
  /\ UNCHANGED <<serverVars, page, online, quoteVars, submit, latest, held, pay,
                 holdLapsed, shown, edits, faults>>

\* onSubmit of a form that parses.  The button is disabled only while the latest
\* create or a payment is pending, not while a submission awaits the kit.
Submit(k) ==
  /\ View = "form"
  /\ k = Min({j \in Submits : submit[j].step = "none"} \cup {MaxSubmits + 1})
  /\ ~IsPending /\ pay # "pending"
  /\ CheckoutQuote # None => CheckoutQuote.available
  /\ submit' = [submit EXCEPT ![k] =
       [NoSubmit EXCEPT !.step = IF kit = "loaded" THEN "sent" ELSE "waiting",
                        !.offer = IF cache[picked].current THEN CheckoutQuote
                                  ELSE None]]
  /\ latest' = IF kit = "loaded" THEN k ELSE latest
  /\ kit' = IF kit = "failed" THEN "loading" ELSE kit
  /\ UNCHANGED <<serverVars, page, online, quoteVars, held, pay, holdLapsed, shown,
                 edits, faults>>

\* The mutation of submission k ends without a booking.
Refused(k) ==
  /\ submit' = [submit EXCEPT ![k] = NoSubmit]
  /\ latest' = IF latest = k THEN 0 ELSE latest
  /\ UNCHANGED <<page, online, quoteVars, kit, held, pay, holdLapsed, shown, edits>>

\* createPublicBooking up to the read of the unit: an unknown unit, a missing
\* gateway and an archived unit are refused.
CreateReadsUnit(k) ==
  /\ submit[k].step = "sent"
  /\ \/ (unit.state # "active" \/ ~gateway) /\ Refused(k)
     \/ /\ unit.state = "active" /\ gateway
        /\ submit' = [submit EXCEPT ![k].step = "priced", ![k].base = unit.base,
                                    ![k].minStay = unit.minStay]
        /\ UNCHANGED <<page, online, quoteVars, kit, latest, held, pay, holdLapsed,
                       shown, edits>>
  /\ UNCHANGED <<serverVars, faults>>

\* The hold a create inserts.
NewHold(q) ==
  [stay |-> q.stay, total |-> q.total, paid |-> FALSE, lapsed |-> FALSE,
   status |-> "pending_payment"]

\* Mutant: the write prices the stay at its base price.
WriteQuoteAtBase(k, rows) ==
  [quote(rows, picked, submit[k].base, submit[k].minStay)
     EXCEPT !.total = submit[k].base * countNights(picked.from, picked.to)]

\* The write's own quote, inside its transaction and after its sweep.
WriteQuote(k, rows) == quote(rows, picked, submit[k].base, submit[k].minStay)

\* The transaction commits its sweep and the hold together.  The tab holds the
\* booking and asks for its payment, unless the answer is lost on its way.
CreateCommits(k, rows, q) ==
  /\ mine' = Append(rows, NewHold(q))
  /\ submit' = WithoutOffer([submit EXCEPT ![k] = NoSubmit])
  /\ latest' = IF latest = k THEN 0 ELSE latest
  /\ Overtake
  /\ \/ held' = Len(mine') /\ pay' = "pending" /\ UNCHANGED faults
     \/ UNCHANGED <<held, pay>> /\ Fault
  /\ UNCHANGED <<page, online, picked, settled, kit, holdLapsed, shown, edits>>

\* The rest of the transaction: it is refused its dates, or commits.
CreateDecides(k) ==
  /\ submit[k].step = "priced"
  /\ LET rows == Swept(mine)
         q == WriteQuote(k, rows)
         sold == q.available /\ unit.state # "gone" /\ Len(mine) < MaxHolds
     IN \/ sold /\ CreateCommits(k, rows, q)
        \/ ~sold /\ Refused(k) /\ UNCHANGED <<mine, faults>>
  /\ UNCHANGED <<unit, overrides, adding, gateway, taken>>

\* The create never reaches the server, or dies in it.
CreateFails(k) ==
  /\ InFlight(k) /\ Fault
  /\ Refused(k)
  /\ UNCHANGED serverVars

-----------------------------------------------------------------------------
\* The payment handoff.

\* Mutant: every 409 of the pay step reads as a lapsed hold.
AnyConflictIsALapse(b) ==
  IF ~gateway \/ mine[b].status # "pending_payment" THEN "booking_not_payable" ELSE "idle"

\* What the tab makes of the pay step's answer for booking b: the gateway is
\* judged before the swept status.
PayAnswer(b) ==
  IF ~gateway THEN "payments_not_configured"
  ELSE IF mine[b].status # "pending_payment" \/ mine[b].lapsed THEN "booking_not_payable"
  ELSE "idle"

\* The pay step answers.  A session takes the tab to the Provider; the sweep of
\* the pay transaction rolls back with its 409.
PayAnswers ==
  /\ pay = "pending"
  /\ pay' = PayAnswer(held)
  /\ page' = IF PayAnswer(held) = "idle" THEN "provider" ELSE page
  /\ UNCHANGED <<serverVars, online, quoteVars, kit, submit, latest, held, holdLapsed,
                 shown, edits, faults>>

\* The Provider or the network fails the pay step.
PayFails ==
  /\ pay = "pending" /\ Fault
  /\ pay' = "provider_error"
  /\ UNCHANGED <<serverVars, page, online, quoteVars, kit, submit, latest, held,
                 holdLapsed, shown, edits>>

\* Retry against the same booking.
RetryPayment ==
  /\ View = "payment_retry" /\ pay # "pending"
  /\ pay' = "pending"
  /\ UNCHANGED <<serverVars, page, online, quoteVars, kit, submit, latest, held,
                 holdLapsed, shown, edits, faults>>

\* HoldCountdown reaches zero while its panel is mounted.
CountdownEnds ==
  /\ View = "payment_retry" /\ mine[held].lapsed
  /\ holdLapsed' = TRUE
  /\ UNCHANGED <<serverVars, page, online, quoteVars, kit, submit, latest, held, pay,
                 shown, edits, faults>>

\* The guest pays on the Provider's page.
GuestPays ==
  /\ page = "provider" /\ ~mine[held].paid
  /\ mine' = [mine EXCEPT ![held].paid = TRUE]
  /\ UNCHANGED <<unit, overrides, adding, gateway, taken, page, online,
                 quoteVars, checkoutVars, shown, edits, faults>>

\* The Provider sends the guest on to /booking/:id, paid or not: a new document,
\* of which only the id of the booking is left.
Return ==
  /\ page = "provider"
  /\ page' = "confirmation" /\ shown' = "none"
  /\ picked' = None /\ settled' = None
  /\ cache' = [s \in Picks |-> NoEntry] /\ fetch' = [s \in Picks |-> "idle"]
  /\ kit' = "loading" /\ submit' = [k \in Submits |-> NoSubmit] /\ latest' = 0
  /\ pay' = "idle" /\ holdLapsed' = FALSE
  /\ UNCHANGED <<serverVars, online, held, edits, faults>>

\* The browser's Back restores the checkout as it was left.
BackFromProvider ==
  /\ page = "provider" /\ Fault
  /\ page' = "checkout"
  /\ UNCHANGED <<serverVars, online, quoteVars, checkoutVars, shown, edits>>

-----------------------------------------------------------------------------
\* The confirmation page.

\* A settled payment confirms a booking that is still pending.
Confirmed(row) ==
  IF row.paid /\ row.status = "pending_payment" THEN [row EXCEPT !.status = "confirmed"] ELSE row

\* refetchInterval: every 5 s while the status last read is pending.
Polls == shown \in {"none", "pending_payment"}

\* The read, which reconciles with the Provider and sweeps the unit first.
Poll ==
  /\ page = "confirmation" /\ Polls
  /\ mine' = Swept([mine EXCEPT ![held] = Confirmed(mine[held])])
  /\ shown' = mine'[held].status
  /\ UNCHANGED <<unit, overrides, adding, gateway, taken, page, online,
                 quoteVars, checkoutVars, edits, faults>>

\* A read fails: the data of the last one stays.
PollFails ==
  /\ page = "confirmation" /\ Polls /\ Fault
  /\ UNCHANGED <<serverVars, page, online, quoteVars, checkoutVars, shown, edits>>

-----------------------------------------------------------------------------
\* Time, the Provider's webhook and the cron sweep.

HoldLapses(b) ==
  /\ mine[b].status = "pending_payment" /\ ~mine[b].lapsed
  /\ b = held => \A k \in Submits : ~InFlight(k)
  /\ mine' = [mine EXCEPT ![b].lapsed = TRUE]
  /\ UNCHANGED <<unit, overrides, adding, gateway, taken, page, online,
                 quoteVars, checkoutVars, shown, edits, faults>>

Webhook(b) ==
  /\ Confirmed(mine[b]) # mine[b]
  /\ mine' = [mine EXCEPT ![b] = Confirmed(mine[b])]
  /\ UNCHANGED <<unit, overrides, adding, gateway, taken, page, online,
                 quoteVars, checkoutVars, shown, edits, faults>>

SweepHolds ==
  /\ Swept(mine) # mine
  /\ mine' = Swept(mine)
  /\ UNCHANGED <<unit, overrides, adding, gateway, taken, page, online,
                 quoteVars, checkoutVars, shown, edits, faults>>

-----------------------------------------------------------------------------
\* The owner and the other guests.

\* An edit: none is made while the tab is away from the pages that read it.
EditWhileRunning == Running /\ Edit

\* What an edit leaves alone: of the tab it touches only the history.
pageVars == <<page, online, picked, settled, kit, latest, held, pay, holdLapsed, shown,
              faults>>
tabVars == <<pageVars, cache, fetch, submit>>

\* The change may make a quote untrue.
Unsettles == Overtake /\ submit' = WithoutOffer(submit)

\* PATCH /units/:id of the price or the minimum stay: an absent field is left.
EditUnit(change) ==
  /\ EditWhileRunning /\ unit.state # "gone" /\ change # unit
  /\ unit' = change
  /\ Unsettles
  /\ UNCHANGED <<overrides, adding, gateway, taken, mine, pageVars>>

\* setArchived, of the unit or of its property.
ArchiveUnit ==
  /\ EditWhileRunning /\ unit.state = "active"
  /\ unit' = [unit EXCEPT !.state = "archived"]
  /\ Unsettles
  /\ UNCHANGED <<overrides, adding, gateway, taken, mine, pageVars>>

\* The guarded delete: only a unit without any booking; its overrides cascade.
RemoveUnit ==
  /\ EditWhileRunning /\ unit.state # "gone" /\ taken = {} /\ mine = <<>>
  /\ unit' = [unit EXCEPT !.state = "gone"]
  /\ overrides' = {}
  /\ Unsettles
  /\ UNCHANGED <<adding, gateway, taken, mine, pageVars>>

\* PriceOverridesService.create: the ownership 404 and the friendly pre-check.
\* A create that races the first one costs no edit, and does so before the guest
\* arrives.
CheckOverride(row) ==
  /\ IF adding = {} THEN EditWhileRunning
     ELSE picked = None /\ overrides = {} /\ UNCHANGED edits
  /\ unit.state # "gone" /\ row \notin adding
  /\ \A p \in overrides : ~Overlaps(p, row)
  /\ adding' = adding \cup {row}
  /\ UNCHANGED <<unit, overrides, gateway, taken, mine, tabVars>>

\* Mutant: the pre-check is the only guard.
RaceIsClear(row) == TRUE

\* price_override_no_overlap and the foreign key to the unit.
ConstraintHolds(row) ==
  /\ unit.state # "gone"
  /\ \A p \in overrides : ~Overlaps(p, row)

\* The INSERT: a create that raced past the pre-check loses at the constraint.
InsertOverride(row) ==
  /\ adding' = adding \ {row}
  /\ \/ /\ ConstraintHolds(row)
        /\ overrides' = overrides \cup {row}
        /\ Unsettles
     \/ /\ ~ConstraintHolds(row)
        /\ UNCHANGED <<overrides, cache, fetch, submit>>
  /\ UNCHANGED <<unit, gateway, taken, mine, pageVars, edits>>

\* PriceOverridesService.remove; bounded by the creates.
RemoveOverride(p) ==
  /\ Running /\ adding = {}
  /\ overrides' = overrides \ {p}
  /\ Unsettles
  /\ UNCHANGED <<unit, adding, gateway, taken, mine, pageVars, edits>>

\* The owner disconnects the payment gateway, or connects one.
SetGateway ==
  /\ EditWhileRunning
  /\ gateway' = ~gateway
  /\ UNCHANGED <<unit, overrides, adding, taken, mine, tabVars>>

\* Any other booking of the unit, and its end.
OtherBooks(s) ==
  /\ EditWhileRunning /\ unit.state = "active"
  /\ \A t \in OccupiedBy(mine) : ~Overlaps(s, t)
  /\ taken' = taken \cup {s}
  /\ Unsettles
  /\ UNCHANGED <<unit, overrides, adding, gateway, mine, pageVars>>

OwnerCancels(b) ==
  /\ Edit /\ mine[b].status \in OCCUPYING_STATUSES
  /\ mine' = [mine EXCEPT ![b].status = "cancelled"]
  /\ UNCHANGED <<unit, overrides, adding, gateway, taken, tabVars>>

-----------------------------------------------------------------------------
GuestActs ==
  \/ \E s \in Picks : Select(s)
  \/ Refetch \/ Book \/ BackToPicker \/ Reload \/ RetryKit
  \/ \E k \in Submits : Submit(k)
  \/ RetryPayment \/ GuestPays \/ Return \/ BackFromProvider

Fails ==
  \/ \E s \in Picks : QuoteFails(s)
  \/ KitFails \/ (\E k \in Submits : CreateFails(k)) \/ PayFails \/ PollFails

OwnerActs ==
  \/ \E base \in Prices : EditUnit([unit EXCEPT !.base = base])
  \/ \E minStay \in MinStays : EditUnit([unit EXCEPT !.minStay = minStay])
  \/ ArchiveUnit \/ RemoveUnit \/ SetGateway
  \/ \E s \in Seasons, price \in Prices \ {unit.base} :
       CheckOverride([from |-> s.from, to |-> s.to, price |-> price])
  \/ \E p \in overrides : RemoveOverride(p)
  \/ \E s \in OtherStays : OtherBooks(s)
  \/ \E b \in DOMAIN mine : OwnerCancels(b)

\* What the browser and the API do on their own.
Runs ==
  \/ Settle \/ RefetchProperty \/ KitLoads \/ PayAnswers \/ CountdownEnds \/ Poll
  \/ \E s \in Picks : GoStale(s) \/ QuoteAnswers(s)
  \/ \E k \in Submits : CreateReadsUnit(k) \/ CreateDecides(k)
  \/ \E row \in adding : InsertOverride(row)

Next ==
  \/ GuestActs \/ Fails \/ OwnerActs \/ Runs
  \/ SweepHolds \/ \E b \in DOMAIN mine : HoldLapses(b) \/ Webhook(b)

\* The phone kit's chunk, a create and a pay request end one way or the other,
\* the page polls, and time passes.  The guest, the owner, the webhook and the
\* cron owe nobody a step.
Fairness ==
  /\ WF_vars(KitLoads) /\ WF_vars(PayAnswers) /\ WF_vars(Poll)
  /\ \A k \in Submits : WF_vars(CreateReadsUnit(k) \/ CreateDecides(k))
  /\ WF_vars(\E b \in DOMAIN mine : HoldLapses(b))

Spec == Init /\ [][Next]_vars /\ Fairness

-----------------------------------------------------------------------------
\* The picker never prices one stay with another's quote: while the debounce
\* lags behind the selection, or an earlier selection's answer arrives late, the
\* card shows no price.
PriceShownIsForThisStay == CardQuote # None => CardQuote.stay = picked

\* The quote is right for every window, in every state the racing edits and
\* bookings can leave the tables in: the identity of quoteTotalIdr over clipped
\* overrides is the night-by-night price, which needs disjoint overrides; the
\* window is available when its nights are free and enough; and the blocked
\* ranges are the maximal runs of taken nights, every taken one, no free one and
\* never the seam between two bookings.
QuoteArithmetic ==
  \A w \in Spans :
    LET q == quote(mine, w, unit.base, unit.minStay)
        ranges == coalesceRanges(findBlockedRanges(OccupiedBy(mine), w))
        isFree == \A t \in OccupiedBy(mine) : Nights(w) \cap Nights(t) = {}
    IN /\ q.total = NightByNight(unit.base, w, overrides)
       /\ q.available <=> isFree /\ Cardinality(Nights(w)) >= unit.minStay
       /\ {ranges[i] : i \in DOMAIN ranges} = MaximalRuns(OccupiedBy(mine), w)

\* The page says the hold has lapsed only of a booking that can no longer be
\* paid: a gateway that vanished mid-checkout must not send away a guest who
\* still owns the dates.
LapsedMeansLapsed ==
  View = "hold_lapsed" /\ held # 0 =>
    mine[held].lapsed \/ mine[held].status # "pending_payment"

\* A quote that nothing has overtaken is honoured: a create submitted on it is
\* not refused its dates, and is sold at exactly the total the page showed.
QuoteIsHonoured ==
  [][\A k \in Submits :
       /\ InFlight(k) /\ submit'[k].step = "none"
       /\ submit[k].offer # None /\ gateway /\ Len(mine) < MaxHolds /\ faults' = faults
       => /\ Len(mine') = Len(mine) + 1
          /\ mine'[Len(mine')].total = submit[k].offer.total]_vars

\* The guest is never left waiting: every press of the submit button ends,
\* whatever becomes of the phone kit and the calls it starts; and a confirmation
\* page that says "pending" polls past failed reads until it can say confirmed,
\* expired or cancelled.
NeverLeftWaiting ==
  /\ Busy ~> ~Busy
  /\ (page = "confirmation" /\ shown = "pending_payment") ~> shown # "pending_payment"

=============================================================================
