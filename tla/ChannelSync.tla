----------------------------- MODULE ChannelSync -----------------------------
(***************************************************************************)
(* The iCal import of the Sambung API: the cron and the owner's "Sync now" *)
(* reconcile the feed of one channel of one unit with the booking table,   *)
(* while the channel sells, moves and withdraws stays, the owner cancels,  *)
(* dismisses, disconnects and connects again, and direct bookings are      *)
(* taken.                                                                  *)
(*                                                                         *)
(* A reconciliation is one transaction with a savepoint per event.  Each   *)
(* statement is a step; what it has written and not committed is kept in   *)
(* the importer, where it locks the rows it is about.  A row of the        *)
(* booking table is a direct booking or the import of one uid through one  *)
(* connection, which is the unique key of an import.                       *)
(***************************************************************************)
EXTENDS Integers

CONSTANTS
  Conns,       \* connections of the channel to the unit, one after the other
  Uids,        \* the uids of the channel's events
  Locals,      \* direct bookings of the unit, and those of other channels
  Cron,        \* the importer of the cron
  Clicks,      \* "Sync now" requests
  FirstFeeds,  \* the calendars the channel may start with
  LastDay,     \* stays lie in [0, LastDay]
  MaxNights,   \* bound on the nights of a stay
  MaxChanges,  \* bound on the changes of the channel and the owner's cancels
  MaxFaults,   \* bound on the bad pulls and the crashes
  None

ASSUME ChannelSyncAssumption ==
  /\ LastDay \in Nat /\ MaxNights \in Nat /\ MaxChanges \in Nat /\ MaxFaults \in Nat
  /\ Cron \notin Clicks
  /\ Locals \cap (Conns \X Uids) = {}

VARIABLES
  feed,       \* what the channel's calendar says, for each uid
  link,       \* channel_connection: the row's last_status, or no row
  row,        \* the committed bookings
  conflict,   \* sync_conflict.status of each uid of each connection
  imp,        \* the importers and their open transactions
  changes, faults

vars == <<feed, link, row, conflict, imp, changes, faults>>

-----------------------------------------------------------------------------
Importers == Clicks \cup {Cron}

Imports == Conns \X Uids

Key == Imports \cup Locals

Stay == {s \in [from: 0 .. LastDay, to: 0 .. LastDay] : s.to - s.from \in 1 .. MaxNights}

NoStay == [from |-> 0, to |-> 0]

Row == [status: {"none", "confirmed", "cancelled"}, stay: Stay \cup {NoStay}]

NoRow == [status |-> "none", stay |-> NoStay]

Confirmed(s) == [status |-> "confirmed", stay |-> s]

ConflictStatus == {"none", "open", "resolved", "dismissed"}

\* What an importer has not written is neither a row nor a status.
ASSUME NoneIsNoVersion == None \notin Row /\ None \notin ConflictStatus

\* Half-open stays share a night.
Overlap(s, t) == s.from < t.to /\ t.from < s.to

\* A calendar of the channel, which never sells a night twice itself.
Feed == {f \in [Uids -> Stay \cup {NoStay}] :
           \A u, v \in Uids : u # v => ~Overlap(f[u], f[v])}

ASSUME FirstFeedsAssumption == FirstFeeds \subseteq Feed

Offered(f) == {u \in Uids : f[u] # NoStay}

Quiet == [uid \in Uids |-> NoStay]

\* parseCalendar skips the events that do not parse and keeps the rest.
Parsed(f, bad) == [u \in Uids |-> IF u \in bad THEN NoStay ELSE f[u]]

\* An importer that has no transaction: rows and conflicts are what an open
\* transaction has written, None where it has not.
At(where) == [at |-> where, conn |-> None, feed |-> Quiet, todo |-> {}, failed |-> {},
              rows |-> [u \in Uids |-> None], conflicts |-> [u \in Uids |-> None]]

TypeOK ==
  /\ feed \in Feed
  /\ link \in [Conns -> {"unborn", "ok", "error", "gone"}]
  /\ row \in [Key -> Row]
  /\ conflict \in [Imports -> ConflictStatus]
  /\ imp \in [Importers -> [at: {"idle", "fetching", "importing", "closing", "done"},
                            conn: Conns \cup {None}, feed: Feed, todo: SUBSET Uids,
                            failed: SUBSET Uids, rows: [Uids -> Row \cup {None}],
                            conflicts: [Uids -> ConflictStatus \cup {None}]]]
  /\ changes \in 0 .. MaxChanges /\ faults \in 0 .. MaxFaults

-----------------------------------------------------------------------------
\* Importer j has an uncommitted version of row k, or of conflict k.
Wrote(j, k) == \E u \in Uids : k = <<imp[j].conn, u>> /\ imp[j].rows[u] # None

Filed(j, k) == \E u \in Uids : k = <<imp[j].conn, u>> /\ imp[j].conflicts[u] # None

Writers(k) == {j \in Importers : Wrote(j, k)}

Filers(k) == {j \in Importers : Filed(j, k)}

\* The rows as the transaction of i sees them: the committed ones and its own.
Seen(i) == [k \in Key |-> IF Wrote(i, k) THEN imp[i].rows[k[2]] ELSE row[k]]

Takes(r, s) == r.status = "confirmed" /\ Overlap(r.stay, s)

\* The decided rows that refuse the stay s of row k to transaction i.
Refusers(i, k, s) ==
  {x \in Key \ {k} : Takes(Seen(i)[x], s) /\ Writers(x) \subseteq {i}}

\* Mutant: the constraint looks only at committed rows.
UndecidedRows(i, k, s) == {}

\* The transactions the check of s has to wait for: those that are writing a row
\* which has or would have a night of s.
Undecided(i, k, s) ==
  {j \in Importers \ {i} :
     \E x \in Key \ {k} : Wrote(j, x) /\ (Takes(row[x], s) \/ Takes(Seen(j)[x], s))}

\* Whom the event u of i waits for: another writer of its row, the constraint,
\* and, when it is refused, another writer of its conflict.
WaitsForEvent(i, u) ==
  LET k == <<imp[i].conn, u>>
      s == imp[i].feed[u]
  IN (Writers(k) \ {i}) \cup
     (IF Refusers(i, k, s) # {} THEN Filers(k) \ {i} ELSE Undecided(i, k, s))

\* The rows cancelAbsent matches: confirmed imports of a live connection whose
\* uid a feed with at least one event no longer has.
Absent(i) ==
  {u \in Uids : /\ imp[i].conn # None
                /\ Offered(imp[i].feed) # {} /\ u \notin Offered(imp[i].feed)
                /\ link[imp[i].conn] # "gone"
                /\ row[<<imp[i].conn, u>>].status = "confirmed"}

\* The open conflicts closeHealed matches: all but those of the events that did
\* not land, and only for a feed with at least one event.
Healed(i) ==
  {u \in Uids : /\ imp[i].conn # None
                /\ Offered(imp[i].feed) # {} /\ u \notin imp[i].failed
                /\ conflict[<<imp[i].conn, u>>] = "open"}

RowsOf(i, us) == {<<imp[i].conn, u>> : u \in us}

\* Whom the next statement of i may be waiting for.
BlockedOn(i) ==
  IF imp[i].at = "importing" /\ imp[i].todo # {}
  THEN UNION {WaitsForEvent(i, u) : u \in imp[i].todo}
  ELSE IF imp[i].at = "importing"
  THEN (UNION {Writers(k) : k \in RowsOf(i, Absent(i))}) \ {i}
  ELSE IF imp[i].at = "closing"
  THEN (UNION {Filers(k) : k \in RowsOf(i, Healed(i))}) \ {i}
  ELSE {}

-----------------------------------------------------------------------------
Init ==
  /\ feed \in FirstFeeds
  /\ link = [c \in Conns |-> "unborn"]
  /\ row = [k \in Key |-> NoRow]
  /\ conflict = [k \in Imports |-> "none"]
  /\ imp = [i \in Importers |-> At("idle")]
  /\ changes = 0 /\ faults = 0

Linked(c) == link[c] \in {"ok", "error"}

\* The cron comes round again; a click has its answer.
Ended(i) == At(IF i = Cron THEN "idle" ELSE "done")

\* Mutant: the cron leaves out feeds that are in error.
BeginHealthy(i, c) ==
  /\ imp[i].at = "idle" /\ link[c] = "ok"
  /\ imp' = [imp EXCEPT ![i] = [At("fetching") EXCEPT !.conn = c]]
  /\ UNCHANGED <<feed, link, row, conflict, changes, faults>>

\* The connection's row is read, by syncAllConnections or syncNow.
Begin(i, c) ==
  /\ imp[i].at = "idle" /\ Linked(c)
  /\ imp' = [imp EXCEPT ![i] = [At("fetching") EXCEPT !.conn = c]]
  /\ UNCHANGED <<feed, link, row, conflict, changes, faults>>

\* The pull, outside the transaction: the channel's calendar as it is now or, by
\* a fault of the channel, a whole calendar in which events do not parse, and
\* are skipped, or which has none.
Fetch(i) ==
  /\ imp[i].at = "fetching"
  /\ \E bad \in SUBSET Offered(feed) : LET pulled == Parsed(feed, bad) IN
       /\ pulled # feed => faults < MaxFaults
       /\ faults' = IF pulled = feed THEN faults ELSE faults + 1
       /\ imp' = [imp EXCEPT ![i].at = "importing", ![i].feed = pulled,
                             ![i].todo = Offered(pulled)]
  /\ UNCHANGED <<feed, link, row, conflict, changes>>

\* An unreachable feed or one that is cut short: markError and nothing else.
MarkError(i) ==
  /\ imp[i].at = "fetching" /\ faults < MaxFaults
  /\ faults' = faults + 1
  /\ link' = [c \in Conns |-> IF c = imp[i].conn /\ Linked(c) THEN "error" ELSE link[c]]
  /\ imp' = [imp EXCEPT ![i] = Ended(i)]
  /\ UNCHANGED <<feed, row, conflict, changes>>

\* Mutant: every refusal opens the conflict again.
RefiledAlways(status) == "open"

\* recordConflict: what a refusal makes of the conflict's status.
Refiled(status) == IF status \in {"none", "resolved"} THEN "open" ELSE status

\* One event in its savepoint: the row is written, or the constraint refuses it
\* and a conflict is filed, or, when the connection is gone, the foreign key
\* does and nothing is.
Import(i, u) ==
  LET c == imp[i].conn
      k == <<c, u>>
      s == imp[i].feed[u]
  IN /\ imp[i].at = "importing" /\ u \in imp[i].todo
     /\ WaitsForEvent(i, u) = {}
     /\ \/ /\ link[c] = "gone"
           /\ imp' = [imp EXCEPT ![i].todo = @ \ {u}, ![i].failed = @ \cup {u}]
        \/ /\ link[c] # "gone" /\ Refusers(i, k, s) # {}
           /\ imp' = [imp EXCEPT ![i].todo = @ \ {u}, ![i].failed = @ \cup {u},
                                 ![i].conflicts[u] = Refiled(conflict[k])]
        \/ /\ link[c] # "gone" /\ Refusers(i, k, s) = {}
           /\ imp' = [imp EXCEPT ![i].todo = @ \ {u}, ![i].rows[u] = Confirmed(s)]
     /\ UNCHANGED <<feed, link, row, conflict, changes, faults>>

\* Mutant: only what overlapped is kept from being closed.
SkipEventUnfailed(i, u) ==
  /\ imp[i].at = "importing" /\ u \in imp[i].todo
  /\ \E j \in WaitsForEvent(i, u) : i \in BlockedOn(j)
  /\ imp' = [imp EXCEPT ![i].todo = @ \ {u}]
  /\ UNCHANGED <<feed, link, row, conflict, changes, faults>>

\* Two importers wait for each other and the database aborts the statement of
\* one: its event is logged and skipped.
SkipEvent(i, u) ==
  /\ imp[i].at = "importing" /\ u \in imp[i].todo
  /\ \E j \in WaitsForEvent(i, u) : i \in BlockedOn(j)
  /\ imp' = [imp EXCEPT ![i].todo = @ \ {u}, ![i].failed = @ \cup {u}]
  /\ UNCHANGED <<feed, link, row, conflict, changes, faults>>

\* The absent uids are cancelled.
CancelAbsent(i) ==
  /\ imp[i].at = "importing" /\ imp[i].todo = {} /\ BlockedOn(i) = {}
  /\ imp' = [imp EXCEPT ![i].at = "closing",
               ![i].rows = [u \in Uids |->
                  IF u \in Absent(i)
                  THEN [row[<<imp[i].conn, u>>] EXCEPT !.status = "cancelled"]
                  ELSE @[u]]]
  /\ UNCHANGED <<feed, link, row, conflict, changes, faults>>

\* closeHealed, the stamp of the connection and the commit.
Finish(i) ==
  LET c == imp[i].conn
  IN /\ imp[i].at = "closing" /\ BlockedOn(i) = {}
     /\ row' = Seen(i)
     /\ conflict' = [k \in Imports |->
          IF Filed(i, k) THEN imp[i].conflicts[k[2]]
          ELSE IF k \in RowsOf(i, Healed(i)) THEN "resolved" ELSE conflict[k]]
     /\ link' = IF Linked(c) THEN [link EXCEPT ![c] = "ok"] ELSE link
     /\ imp' = [imp EXCEPT ![i] = Ended(i)]
     /\ UNCHANGED <<feed, changes, faults>>

\* The transaction is rolled back whole: the process dies, or a statement
\* outside a savepoint loses a deadlock.
Abort(i) ==
  /\ imp[i].at \in {"importing", "closing"}
  /\ \/ faults < MaxFaults /\ faults' = faults + 1
     \/ /\ imp[i].todo = {} /\ \E j \in BlockedOn(i) : i \in BlockedOn(j)
        /\ UNCHANGED faults
  /\ imp' = [imp EXCEPT ![i] = Ended(i)]
  /\ UNCHANGED <<feed, link, row, conflict, changes>>

-----------------------------------------------------------------------------
\* The channel sells, moves and withdraws stays (external): between two pulls its
\* calendar may have become any other.
ChannelChanges(f) ==
  /\ changes < MaxChanges /\ f # feed
  /\ feed' = f
  /\ changes' = changes + 1
  /\ UNCHANGED <<link, row, conflict, imp, faults>>

\* One connection of a channel to a unit at a time; the probe decides its status.
Connect(c) ==
  /\ link[c] = "unborn" /\ \A d \in Conns : ~Linked(d)
  /\ \E health \in {"ok", "error"} : link' = [link EXCEPT ![c] = health]
  /\ UNCHANGED <<feed, row, conflict, imp, changes, faults>>

\* Bookings are kept, conflicts go with the connection.  The delete waits for an
\* importer that has written a row which refers to it.
Disconnect(c) ==
  /\ Linked(c)
  /\ \A u \in Uids : Writers(<<c, u>>) = {} /\ Filers(<<c, u>>) = {}
  /\ link' = [link EXCEPT ![c] = "gone"]
  /\ conflict' = [k \in Imports |-> IF k[1] = c THEN "none" ELSE conflict[k]]
  /\ UNCHANGED <<feed, row, imp, changes, faults>>

\* The owner's judgement: a guarded UPDATE, which waits for a locked row.
Dismiss(k) ==
  /\ conflict[k] = "open" /\ Filers(k) = {}
  /\ conflict' = [conflict EXCEPT ![k] = "dismissed"]
  /\ UNCHANGED <<feed, link, row, imp, changes, faults>>

\* The owner cancels a booking, wherever it came from.
CancelById(k) ==
  /\ row[k].status = "confirmed" /\ Writers(k) = {}
  /\ changes < MaxChanges /\ changes' = changes + 1
  /\ row' = [row EXCEPT ![k].status = "cancelled"]
  /\ UNCHANGED <<feed, link, conflict, imp, faults>>

\* A direct booking is taken: the write path, as one step of the calendar it
\* implements.
BookDirect(l, s) ==
  /\ row[l] = NoRow
  /\ \A x \in Key : ~Takes(row[x], s)
  /\ \A j \in Importers, x \in Key : ~Takes(Seen(j)[x], s)
  /\ row' = [row EXCEPT ![l] = Confirmed(s)]
  /\ UNCHANGED <<feed, link, conflict, imp, changes, faults>>

ImportStep(i) ==
  \/ Fetch(i) \/ CancelAbsent(i) \/ Finish(i) \/ Abort(i)
  \/ \E u \in Uids : Import(i, u) \/ SkipEvent(i, u)

Next ==
  \/ \E i \in Importers : ImportStep(i) \/ MarkError(i) \/ \E c \in Conns : Begin(i, c)
  \/ \E f \in Feed : ChannelChanges(f)
  \/ \E c \in Conns : Connect(c) \/ Disconnect(c)
  \/ \E k \in Imports : Dismiss(k)
  \/ \E k \in Key : CancelById(k)
  \/ \E l \in Locals, s \in Stay : BookDirect(l, s)

\* A reconciliation that has begun goes on; one that waits for a row lock gets
\* it, since the database queues its waiters; and the cron keeps visiting every
\* connection.
Fairness ==
  /\ \A i \in Importers : SF_vars(ImportStep(i))
  /\ \A c \in Conns : SF_vars(Begin(Cron, c))

Spec == Init /\ [][Next]_vars

FairSpec == Spec /\ Fairness

-----------------------------------------------------------------------------
NightsOf(r) == r.stay.from .. (r.stay.to - 1)

\* However two reconciliations, direct bookings and cancels interleave, no night
\* is in two confirmed bookings.
NoDoubleBooking ==
  \A x, y \in Key :
    x # y /\ row[x].status = "confirmed" /\ row[y].status = "confirmed" =>
      NightsOf(row[x]) \cap NightsOf(row[y]) = {}

\* ADR-0027, "a judgement stands": nothing but a disconnect ends a dismissal,
\* also when a reconciliation was under way as the owner dismissed.
DismissalStands ==
  [][\A k \in Imports :
       conflict[k] = "dismissed" =>
         conflict'[k] = "dismissed" \/ link'[k[1]] = "gone"]_vars

\* ADR-0027, "a failure of any kind is not a measurement", and ADR-0025, "a
\* doubtful feed does nothing": a reconciliation takes a stay for withdrawn,
\* cancelling its booking or closing its conflict, only on a pull that has events
\* and not this one; otherwise a conflict is closed only with its import.
ClosedByMeasurement ==
  [][\A i \in Importers : \A u \in Uids :
       LET k == <<imp[i].conn, u>>
           gone == Offered(imp[i].feed) # {} /\ u \notin Offered(imp[i].feed)
       IN imp'[i] # imp[i] /\ imp[i].conn # None =>
            /\ row[k].status = "confirmed" /\ row'[k].status = "cancelled" => gone
            /\ conflict[k] = "open" /\ conflict'[k] = "resolved" =>
                 gone \/ row'[k] = Confirmed(imp[i].feed[u])]_vars

\* The calendar of a connected channel is in the booking table: nothing that was
\* withdrawn is still sold, and nothing it sold is lost without a conflict.  An
\* empty calendar promises nothing.
Mirrored ==
  \A c \in Conns : Linked(c) /\ Offered(feed) # {} =>
    \A u \in Uids :
      LET k == <<c, u>>
      IN /\ feed[u] = NoStay => row[k].status # "confirmed" /\ conflict[k] # "open"
         /\ feed[u] # NoStay =>
              \/ row[k] = Confirmed(feed[u]) /\ conflict[k] # "open"
              \/ row[k] # Confirmed(feed[u]) /\ conflict[k] \in {"open", "dismissed"}

\* Once the channel and the owner are quiet, the table comes to mirror the
\* channel, whatever pulls failed, crashed, lost a deadlock or overtook each
\* other before.
EventuallyMirrored == <>[]Mirrored
==============================================================================
