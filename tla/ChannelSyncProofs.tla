-------------------------- MODULE ChannelSyncProofs --------------------------
(***************************************************************************)
(* Proofs about the iCal import, for any connections, uids, calendars and  *)
(* direct bookings and any number of importers at once.                    *)
(*                                                                         *)
(* SyncProtocol is the inductive invariant: what an open reconciliation    *)
(* may have written, which rows and conflicts it has to itself, and that   *)
(* the calendar is free of overlaps as every transaction sees it and       *)
(* between what any two have written.                                      *)
(***************************************************************************)
EXTENDS ChannelSync, TLAPS

\* Not two confirmed stays that share a night.
Apart(r, q) == ~(r.status = "confirmed" /\ Takes(q, r.stay))

\* However the open transactions end, no two rows overlap: not the committed ones, not
\* those that one transaction sees, and not the versions that two have written.
NoTwoVersionsOverlap ==
  /\ \A x, y \in Key : x # y => Apart(row[x], row[y])
  /\ \A i \in Importers : \A x, y \in Key : x # y => Apart(Seen(i)[x], Seen(i)[y])
  /\ \A i, j \in Importers : \A x, y \in Key :
       i # j /\ x # y /\ Wrote(i, x) /\ Wrote(j, y) => Apart(Seen(i)[x], Seen(j)[y])

\* A row, and a conflict, has one transaction that writes it; and a dismissal that a
\* transaction met is in what it has filed.
WritesAreExclusive ==
  \A i, j \in Importers : \A k \in Imports :
    /\ Wrote(i, k) /\ Wrote(j, k) => i = j
    /\ Filed(i, k) /\ Filed(j, k) => i = j
    /\ Filed(i, k) /\ conflict[k] = "dismissed" => imp[i].conflicts[k[2]] = "dismissed"

\* What a transaction has written is by its feed: a stay of it that landed, or the cancel
\* of one that it, having events, no longer has.
ByItsFeed(r) ==
  /\ r.at \notin {"idle", "done"} => r.conn \in Conns
  /\ r.at \in {"idle", "fetching", "done"} =>
       \A u \in Uids : r.rows[u] = None /\ r.conflicts[u] = None
  /\ r.at = "closing" => r.todo = {}
  /\ r.at \in {"importing", "closing"} =>
       \A u \in Uids :
         /\ u \in Offered(r.feed) =>
              u \in r.todo \cup r.failed \/ r.rows[u] = Confirmed(r.feed[u])
         /\ r.rows[u] # None /\ r.rows[u].status = "cancelled" =>
              Offered(r.feed) # {} /\ u \notin Offered(r.feed)
         /\ r.conflicts[u] \in {None, "open", "dismissed"}

WritesAreByTheFeed == \A i \in Importers : ByItsFeed(imp[i])

SyncProtocol ==
  TypeOK /\ NoTwoVersionsOverlap /\ WritesAreExclusive /\ WritesAreByTheFeed
-----------------------------------------------------------------------------
\* The type of an importer and its open transaction.
ImpRow ==
  [at: {"idle", "fetching", "importing", "closing", "done"},
   conn: Conns \cup {None}, feed: Feed, todo: SUBSET Uids, failed: SUBSET Uids,
   rows: [Uids -> Row \cup {None}], conflicts: [Uids -> ConflictStatus \cup {None}]]

LEMMA RowsAreTyped ==
  TypeOK <=> /\ feed \in Feed
             /\ link \in [Conns -> {"unborn", "ok", "error", "gone"}]
             /\ row \in [Key -> Row]
             /\ conflict \in [Imports -> ConflictStatus]
             /\ imp \in [Importers -> ImpRow]
             /\ changes \in 0 .. MaxChanges /\ faults \in 0 .. MaxFaults
BY DEF TypeOK, ImpRow

\* A pull is a calendar, whatever did not parse; and so is an empty one.
LEMMA PullsAreCalendars ==
  /\ Quiet \in Feed
  /\ \A f \in Feed : \A bad : Parsed(f, bad) \in Feed
<1>1. \A s \in Stay \cup {NoStay} : ~Overlap(NoStay, s) /\ ~Overlap(s, NoStay)
  BY DEF Stay, NoStay, Overlap
<1>2. Quiet \in Feed
  <2>1. Quiet \in [Uids -> Stay \cup {NoStay}]
    BY DEF Quiet
  <2>2. \A u, v \in Uids : ~Overlap(Quiet[u], Quiet[v])
    BY <1>1 DEF Quiet
  <2> QED BY <2>1, <2>2 DEF Feed
<1>3. ASSUME NEW f \in Feed, NEW bad PROVE Parsed(f, bad) \in Feed
  <2>1. f \in [Uids -> Stay \cup {NoStay}]
    BY DEF Feed
  <2>2. Parsed(f, bad) \in [Uids -> Stay \cup {NoStay}]
    BY <2>1 DEF Parsed
  <2>3. \A u \in Uids : Parsed(f, bad)[u] \in {NoStay, f[u]}
    BY DEF Parsed
  <2>4. ASSUME NEW u \in Uids, NEW v \in Uids, u # v
        PROVE  ~Overlap(Parsed(f, bad)[u], Parsed(f, bad)[v])
    <3>1. ~Overlap(f[u], f[v])
      BY <2>4 DEF Feed
    <3>2. /\ f[u] \in Stay \cup {NoStay} /\ f[v] \in Stay \cup {NoStay}
          /\ NoStay \in Stay \cup {NoStay}
      BY <2>1
    <3> QED BY <1>1, <2>3, <3>1, <3>2
  <2> QED BY <2>2, <2>4 DEF Feed
<1> QED BY <1>2, <1>3

\* Stays that do not overlap share no night, and overlapping is symmetric.
LEMMA ApartSharesNoNight ==
  ASSUME NEW r \in Row, NEW q \in Row, Apart(r, q),
         r.status = "confirmed", q.status = "confirmed"
  PROVE  NightsOf(r) \cap NightsOf(q) = {}
<1>1. /\ r.stay.from \in Int /\ r.stay.to \in Int
      /\ q.stay.from \in Int /\ q.stay.to \in Int
  BY DEF Row, Stay, NoStay
<1>2. ~(q.stay.from < r.stay.to /\ r.stay.from < q.stay.to)
  BY DEF Apart, Takes, Overlap
<1> QED BY <1>1, <1>2 DEF NightsOf

LEMMA ApartIsSymmetric == \A r, q : Apart(r, q) => Apart(q, r)
BY DEF Apart, Takes, Overlap

\* What a statement leaves is a row, and a status.
LEMMA RowMoves ==
  /\ NoRow \in Row /\ \A s \in Stay \cup {NoStay} : Confirmed(s) \in Row
  /\ \A r \in Row : [r EXCEPT !.status = "cancelled"] \in Row
  /\ \A x \in ConflictStatus : Refiled(x) \in {"open", "dismissed"}
<1>1. NoRow \in Row
  BY DEF NoRow, Row
<1>2. \A s \in Stay \cup {NoStay} : Confirmed(s) \in Row
  BY DEF Confirmed, Row
<1>3. \A r \in Row : [r EXCEPT !.status = "cancelled"] \in Row
  BY DEF Row
<1>4. \A x \in ConflictStatus : Refiled(x) \in {"open", "dismissed"}
  BY DEF ConflictStatus, Refiled
<1> QED BY <1>1, <1>2, <1>3, <1>4

\* An importer that has no transaction, and one that is about to pull.
LEMMA ImpRowMoves ==
  /\ \A where \in {"idle", "done", "fetching"} : At(where) \in ImpRow
  /\ \A c \in Conns : [At("fetching") EXCEPT !.conn = c] \in ImpRow
<1>1. \A where \in {"idle", "done", "fetching"} : At(where) \in ImpRow
  BY PullsAreCalendars DEF At, ImpRow
<1>2. \A c \in Conns : [At("fetching") EXCEPT !.conn = c] \in ImpRow
  BY <1>1 DEF ImpRow
<1> QED BY <1>1, <1>2

-----------------------------------------------------------------------------
(* Who writes what.                                                         *)

\* A statement of importer i.
StepOf(i) == ImportStep(i) \/ MarkError(i) \/ \E c \in Conns : Begin(i, c)

\* Event u of i fails, with the conflicts cs filed; or it lands, with the rows rs.
EventFails(i, u, cs) ==
  imp'[i] = [imp[i] EXCEPT !.todo = imp[i].todo \ {u}, !.failed = imp[i].failed \cup {u},
                           !.conflicts = cs]

EventLands(i, u, rs) == imp'[i] = [imp[i] EXCEPT !.todo = imp[i].todo \ {u}, !.rows = rs]

\* The outcomes of an event: logged and skipped, filed as a conflict, or written.
LEMMA ImportLeaves ==
  ASSUME TypeOK, NEW i \in Importers, NEW u \in Uids, Import(i, u)
  PROVE  /\ \A j \in Importers : j # i => imp'[j] = imp[j]
         /\ \/ EventFails(i, u, imp[i].conflicts)
            \/ /\ Refusers(i, <<imp[i].conn, u>>, imp[i].feed[u]) # {}
               /\ link[imp[i].conn] # "gone"
               /\ EventFails(i, u, [imp[i].conflicts EXCEPT
                                      ![u] = Refiled(conflict[<<imp[i].conn, u>>])])
            \/ /\ Refusers(i, <<imp[i].conn, u>>, imp[i].feed[u]) = {}
               /\ link[imp[i].conn] # "gone"
               /\ EventLands(i, u, [imp[i].rows EXCEPT ![u] = Confirmed(imp[i].feed[u])])
<1>1. imp \in [Importers -> ImpRow] /\ imp[i] \in ImpRow
  BY RowsAreTyped
<1>2. CASE imp' = [imp EXCEPT ![i].todo = @ \ {u}, ![i].failed = @ \cup {u}]
  <2>1. imp' = [imp EXCEPT ![i] = [imp[i] EXCEPT !.todo = @ \ {u}, !.failed = @ \cup {u}]]
    BY <1>1, <1>2
  <2>2. [imp[i] EXCEPT !.todo = @ \ {u}, !.failed = @ \cup {u}]
          = [imp[i] EXCEPT !.todo = @ \ {u}, !.failed = @ \cup {u},
                           !.conflicts = imp[i].conflicts]
    BY <1>1 DEF ImpRow
  <2> QED BY <1>1, <2>1, <2>2 DEF EventFails
<1>3. ASSUME NEW x, link[imp[i].conn] # "gone",
             Refusers(i, <<imp[i].conn, u>>, imp[i].feed[u]) # {},
             x = Refiled(conflict[<<imp[i].conn, u>>]),
             imp' = [imp EXCEPT ![i].todo = @ \ {u}, ![i].failed = @ \cup {u},
                                ![i].conflicts[u] = x]
      PROVE  /\ \A j \in Importers : j # i => imp'[j] = imp[j]
             /\ EventFails(i, u, [imp[i].conflicts EXCEPT ![u] = x])
  <2>1. imp' = [imp EXCEPT ![i] = [imp[i] EXCEPT !.todo = @ \ {u}, !.failed = @ \cup {u},
                                     !.conflicts = [imp[i].conflicts EXCEPT ![u] = x]]]
    BY <1>1, <1>3
  <2> QED BY <1>1, <2>1 DEF EventFails
<1>4. ASSUME NEW x, imp' = [imp EXCEPT ![i].todo = @ \ {u}, ![i].rows[u] = x]
      PROVE  /\ \A j \in Importers : j # i => imp'[j] = imp[j]
             /\ EventLands(i, u, [imp[i].rows EXCEPT ![u] = x])
  <2>1. imp' = [imp EXCEPT ![i] = [imp[i] EXCEPT !.todo = @ \ {u},
                                     !.rows = [imp[i].rows EXCEPT ![u] = x]]]
    BY <1>1, <1>4
  <2> QED BY <1>1, <2>1 DEF EventLands
<1>5. \/ imp' = [imp EXCEPT ![i].todo = @ \ {u}, ![i].failed = @ \cup {u}]
      \/ /\ link[imp[i].conn] # "gone"
         /\ Refusers(i, <<imp[i].conn, u>>, imp[i].feed[u]) # {}
         /\ imp' = [imp EXCEPT ![i].todo = @ \ {u}, ![i].failed = @ \cup {u},
                               ![i].conflicts[u] = Refiled(conflict[<<imp[i].conn, u>>])]
      \/ /\ link[imp[i].conn] # "gone"
         /\ Refusers(i, <<imp[i].conn, u>>, imp[i].feed[u]) = {}
         /\ imp' = [imp EXCEPT ![i].todo = @ \ {u},
                               ![i].rows[u] = Confirmed(imp[i].feed[u])]
  BY DEF Import
<1>6. CASE /\ link[imp[i].conn] # "gone"
           /\ Refusers(i, <<imp[i].conn, u>>, imp[i].feed[u]) # {}
           /\ imp' = [imp EXCEPT ![i].todo = @ \ {u}, ![i].failed = @ \cup {u},
                                 ![i].conflicts[u] = Refiled(conflict[<<imp[i].conn, u>>])]
  BY <1>3, <1>6
<1>7. CASE /\ link[imp[i].conn] # "gone"
           /\ Refusers(i, <<imp[i].conn, u>>, imp[i].feed[u]) = {}
           /\ imp' = [imp EXCEPT ![i].todo = @ \ {u},
                                 ![i].rows[u] = Confirmed(imp[i].feed[u])]
  BY <1>4, <1>7
<1> QED BY <1>2, <1>5, <1>6, <1>7

\* The rows that an importer has written once it has cancelled the absent ones.
Cancels(i) ==
  [u \in Uids |-> IF u \in Absent(i)
                  THEN [row[<<imp[i].conn, u>>] EXCEPT !.status = "cancelled"]
                  ELSE imp[i].rows[u]]

\* The other statements of an importer.
LEMMA StatementsLeave ==
  ASSUME TypeOK, NEW i \in Importers
  PROVE  /\ \A u \in Uids : SkipEvent(i, u) =>
              /\ \A j \in Importers : j # i => imp'[j] = imp[j]
              /\ EventFails(i, u, imp[i].conflicts)
         /\ CancelAbsent(i) =>
              /\ \A j \in Importers : j # i => imp'[j] = imp[j]
              /\ imp'[i] = [imp[i] EXCEPT !.at = "closing", !.rows = Cancels(i)]
         /\ Fetch(i) =>
              /\ \A j \in Importers : j # i => imp'[j] = imp[j]
              /\ \E f \in Feed :
                   imp'[i] = [imp[i] EXCEPT !.at = "importing", !.feed = f, !.todo = Offered(f)]
         /\ MarkError(i) \/ Finish(i) \/ Abort(i) =>
              /\ \A j \in Importers : j # i => imp'[j] = imp[j]
              /\ imp'[i] \in {At("idle"), At("done")}
         /\ \A c \in Conns : Begin(i, c) =>
              /\ \A j \in Importers : j # i => imp'[j] = imp[j]
              /\ imp'[i] = [At("fetching") EXCEPT !.conn = c]
<1>1. imp \in [Importers -> ImpRow] /\ imp[i] \in ImpRow /\ feed \in Feed
  BY RowsAreTyped
<1>2. ASSUME NEW u \in Uids, SkipEvent(i, u)
      PROVE  /\ \A j \in Importers : j # i => imp'[j] = imp[j]
             /\ EventFails(i, u, imp[i].conflicts)
  <2>1. imp' = [imp EXCEPT ![i] = [imp[i] EXCEPT !.todo = @ \ {u}, !.failed = @ \cup {u}]]
    BY <1>1, <1>2 DEF SkipEvent
  <2>2. [imp[i] EXCEPT !.todo = @ \ {u}, !.failed = @ \cup {u}]
          = [imp[i] EXCEPT !.todo = @ \ {u}, !.failed = @ \cup {u},
                           !.conflicts = imp[i].conflicts]
    BY <1>1 DEF ImpRow
  <2> QED BY <1>1, <2>1, <2>2 DEF EventFails
<1>3. ASSUME CancelAbsent(i)
      PROVE  /\ \A j \in Importers : j # i => imp'[j] = imp[j]
             /\ imp'[i] = [imp[i] EXCEPT !.at = "closing", !.rows = Cancels(i)]
  <2>1. imp' = [imp EXCEPT ![i] = [imp[i] EXCEPT !.at = "closing", !.rows = Cancels(i)]]
    BY <1>1, <1>3 DEF CancelAbsent, Cancels
  <2> QED BY <1>1, <2>1
<1>4. ASSUME Fetch(i)
      PROVE  /\ \A j \in Importers : j # i => imp'[j] = imp[j]
             /\ \E f \in Feed :
                  imp'[i] = [imp[i] EXCEPT !.at = "importing", !.feed = f, !.todo = Offered(f)]
  <2>1. PICK bad : imp' = [imp EXCEPT ![i].at = "importing", ![i].feed = Parsed(feed, bad),
                                      ![i].todo = Offered(Parsed(feed, bad))]
    BY <1>4 DEF Fetch
  <2>2. Parsed(feed, bad) \in Feed
    BY <1>1, PullsAreCalendars
  <2> QED BY <1>1, <2>1, <2>2
<1>5. ASSUME MarkError(i) \/ Finish(i) \/ Abort(i)
      PROVE  /\ \A j \in Importers : j # i => imp'[j] = imp[j]
             /\ imp'[i] \in {At("idle"), At("done")}
  <2>1. imp' = [imp EXCEPT ![i] = Ended(i)]
    BY <1>5 DEF MarkError, Finish, Abort
  <2>2. Ended(i) \in {At("idle"), At("done")}
    BY DEF Ended
  <2> QED BY <1>1, <2>1, <2>2
<1>6. ASSUME NEW c \in Conns, Begin(i, c)
      PROVE  /\ \A j \in Importers : j # i => imp'[j] = imp[j]
             /\ imp'[i] = [At("fetching") EXCEPT !.conn = c]
  BY <1>1, <1>6 DEF Begin
<1> QED BY <1>2, <1>3, <1>4, <1>5, <1>6

\* An importer moves by a statement of its own, one at a time, and otherwise none does.
LEMMA WhoMoves ==
  ASSUME Next
  PROVE  \/ \E i \in Importers : StepOf(i)
         \/ imp' = imp /\ link' = link /\ conflict' = conflict
              /\ (row' = row \/ (\E k \in Key : CancelById(k))
                             \/ \E l \in Locals, s \in Stay : BookDirect(l, s))
         \/ UNCHANGED <<imp, row, link>> /\ \E k \in Imports : Dismiss(k)
         \/ UNCHANGED <<imp, row>> /\ \E c \in Conns : Connect(c) \/ Disconnect(c)
BY DEF Next, StepOf, ChannelChanges, Connect, Disconnect, Dismiss, CancelById, BookDirect

\* Rows are committed by Finish and changed by a cancel or a direct booking only.
LEMMA StatementsLeaveRows ==
  ASSUME NEW i \in Importers, StepOf(i), ~Finish(i)
  PROVE  UNCHANGED <<row, conflict>>
BY DEF StepOf, ImportStep, Fetch, CancelAbsent, Import, SkipEvent, Abort, MarkError, Begin

\* What the statements of an importer do to the channel and to the bounds.
LEMMA StatementsLeaveFeed ==
  ASSUME NEW i \in Importers, StepOf(i)
  PROVE  /\ feed' = feed /\ changes' = changes
         /\ faults' = faults \/ (faults < MaxFaults /\ faults' = faults + 1)
<1>1. ASSUME Fetch(i)
      PROVE  /\ feed' = feed /\ changes' = changes
             /\ faults' = faults \/ (faults < MaxFaults /\ faults' = faults + 1)
  <2>1. PICK pulled : (pulled # feed => faults < MaxFaults)
                      /\ faults' = IF pulled = feed THEN faults ELSE faults + 1
    BY <1>1 DEF Fetch
  <2>2. feed' = feed /\ changes' = changes
    BY <1>1 DEF Fetch
  <2> QED BY <2>1, <2>2
<1>2. CancelAbsent(i) => UNCHANGED <<feed, changes, faults>>
  BY DEF CancelAbsent
<1>3. Finish(i) => UNCHANGED <<feed, changes, faults>>
  BY DEF Finish
<1>4. Abort(i) \/ MarkError(i) =>
        /\ feed' = feed /\ changes' = changes
        /\ faults' = faults \/ (faults < MaxFaults /\ faults' = faults + 1)
  BY DEF Abort, MarkError
<1>5. \A u : Import(i, u) \/ SkipEvent(i, u) => UNCHANGED <<feed, changes, faults>>
  BY DEF Import, SkipEvent
<1>6. \A c : Begin(i, c) => UNCHANGED <<feed, changes, faults>>
  BY DEF Begin
<1> QED BY <1>1, <1>2, <1>3, <1>4, <1>5, <1>6 DEF StepOf, ImportStep

\* What transaction i sees and has written, spelled out.
LEMMA WhatIsSeen ==
  ASSUME NEW i, NEW k \in Key
  PROVE  /\ Seen(i)[k] = IF Wrote(i, k) THEN imp[i].rows[k[2]] ELSE row[k]
         /\ Seen(i)'[k] = IF Wrote(i, k)' THEN imp'[i].rows[k[2]] ELSE row'[k]
BY DEF Seen

LEMMA WhatIsWritten ==
  ASSUME NEW i, NEW c, NEW u \in Uids
  PROVE  /\ Wrote(i, <<c, u>>) <=> imp[i].conn = c /\ imp[i].rows[u] # None
         /\ Wrote(i, <<c, u>>)' <=> imp'[i].conn = c /\ imp'[i].rows[u] # None
         /\ Filed(i, <<c, u>>) <=> imp[i].conn = c /\ imp[i].conflicts[u] # None
         /\ Filed(i, <<c, u>>)' <=> imp'[i].conn = c /\ imp'[i].conflicts[u] # None
         /\ <<c, u>>[2] = u
BY DEF Wrote, Filed

\* What a transaction sees are rows.
LEMMA SeenRows ==
  ASSUME TypeOK, NEW i \in Importers
  PROVE  Seen(i) \in [Key -> Row]
<1>1. row \in [Key -> Row] /\ imp[i].rows \in [Uids -> Row \cup {None}]
  BY RowsAreTyped DEF ImpRow
<1>2. ASSUME NEW k \in Key PROVE Seen(i)[k] \in Row
  <2>1. CASE ~Wrote(i, k)
    BY <1>1, <2>1, WhatIsSeen
  <2>2. ASSUME NEW u \in Uids, k = <<imp[i].conn, u>>, imp[i].rows[u] # None
        PROVE  Seen(i)[k] \in Row
    <3>1. Wrote(i, k) /\ k[2] = u
      BY <2>2 DEF Wrote
    <3> QED BY <1>1, <2>2, <3>1, WhatIsSeen
  <2> QED BY <2>1, <2>2 DEF Wrote
<1> QED BY <1>2 DEF Seen

\* Every step keeps the types.
LEMMA StepsAreTyped ==
  ASSUME TypeOK, WritesAreByTheFeed, Next
  PROVE  TypeOK'
<1>1. /\ feed \in Feed
      /\ link \in [Conns -> {"unborn", "ok", "error", "gone"}]
      /\ row \in [Key -> Row] /\ conflict \in [Imports -> ConflictStatus]
      /\ imp \in [Importers -> ImpRow]
      /\ changes \in 0 .. MaxChanges /\ faults \in 0 .. MaxFaults
  BY RowsAreTyped
<1>0. \/ \E i \in Importers : StepOf(i)
      \/ \E f \in Feed : ChannelChanges(f)
      \/ \E c \in Conns : Connect(c) \/ Disconnect(c)
      \/ \E k \in Imports : Dismiss(k)
      \/ \E k \in Key : CancelById(k)
      \/ \E l \in Locals, s \in Stay : BookDirect(l, s)
  BY DEF Next, StepOf
<1>2. feed' \in Feed
  <2>1. \A i \in Importers : StepOf(i) => feed' = feed
    BY StatementsLeaveFeed
  <2> QED BY <1>0, <1>1, <2>1
          DEF ChannelChanges, Connect, Disconnect, Dismiss, CancelById, BookDirect
<1>3. link' \in [Conns -> {"unborn", "ok", "error", "gone"}]
  <2>1. ASSUME NEW i \in Importers, StepOf(i)
        PROVE  link' \in [Conns -> {"unborn", "ok", "error", "gone"}]
    BY <1>1, <2>1 DEF StepOf, ImportStep, Fetch, CancelAbsent, Finish, Abort, Import, SkipEvent,
                      MarkError, Begin
  <2> QED BY <1>0, <1>1, <2>1
          DEF ChannelChanges, Connect, Disconnect, Dismiss, CancelById, BookDirect
<1>4. changes' \in 0 .. MaxChanges
  <2>1. changes' = changes \/ (changes < MaxChanges /\ changes' = changes + 1)
    <3>1. \A i \in Importers : StepOf(i) => changes' = changes
      BY StatementsLeaveFeed
    <3> QED BY <1>0, <3>1
            DEF ChannelChanges, Connect, Disconnect, Dismiss, CancelById, BookDirect
  <2> QED BY <1>1, <2>1, ChannelSyncAssumption
<1>5. faults' \in 0 .. MaxFaults
  <2>1. faults' = faults \/ (faults < MaxFaults /\ faults' = faults + 1)
    <3>1. \A i \in Importers : StepOf(i) =>
            faults' = faults \/ (faults < MaxFaults /\ faults' = faults + 1)
      BY StatementsLeaveFeed
    <3> QED BY <1>0, <3>1
            DEF ChannelChanges, Connect, Disconnect, Dismiss, CancelById, BookDirect
  <2> QED BY <1>1, <2>1, ChannelSyncAssumption
<1>6. imp' \in [Importers -> ImpRow]
  <2>1. \A f : f \in [Importers -> ImpRow] =>
          f = [i \in Importers |-> f[i]] /\ DOMAIN f = Importers
    OBVIOUS
  <2>2. DOMAIN imp' = Importers /\ imp' = [i \in Importers |-> imp'[i]]
    <3>1. imp' = imp \/ \E i \in Importers : \E r : imp' = [imp EXCEPT ![i] = r]
      <4>1. imp' = imp \/ \E i \in Importers : StepOf(i)
        BY <1>0 DEF ChannelChanges, Connect, Disconnect, Dismiss, CancelById, BookDirect
      <4>0. ASSUME NEW i \in Importers, StepOf(i)
            PROVE  \/ \E r : imp' = [imp EXCEPT ![i] = r]
                   \/ \E a, b : imp' = [imp EXCEPT ![i].at = a, ![i].rows = b]
                   \/ \E a, b, c : imp' = [imp EXCEPT ![i].at = a, ![i].feed = b, ![i].todo = c]
                   \/ \E u : Import(i, u) \/ SkipEvent(i, u)
        <5>1. CancelAbsent(i) => \E a, b : imp' = [imp EXCEPT ![i].at = a, ![i].rows = b]
          BY DEF CancelAbsent
        <5>2. Fetch(i) =>
                \E a, b, c : imp' = [imp EXCEPT ![i].at = a, ![i].feed = b, ![i].todo = c]
          BY DEF Fetch
        <5>3. Finish(i) \/ Abort(i) \/ MarkError(i) \/ (\E c \in Conns : Begin(i, c)) =>
                \E r : imp' = [imp EXCEPT ![i] = r]
          BY DEF Finish, Abort, MarkError, Begin
        <5> QED BY <4>0, <5>1, <5>2, <5>3, Zenon DEF StepOf, ImportStep
      <4>2. ASSUME NEW i \in Importers, NEW u, Import(i, u) \/ SkipEvent(i, u)
            PROVE  \E r : imp' = [imp EXCEPT ![i] = r]
        <5>1. CASE imp' = [imp EXCEPT ![i].todo = @ \ {u}, ![i].failed = @ \cup {u}]
          BY <1>1, <5>1
        <5>2. ASSUME NEW x, imp' = [imp EXCEPT ![i].todo = @ \ {u}, ![i].failed = @ \cup {u},
                                               ![i].conflicts[u] = x]
              PROVE  \E r : imp' = [imp EXCEPT ![i] = r]
          <6>1. imp' = [imp EXCEPT ![i] =
                          [imp[i] EXCEPT !.todo = @ \ {u}, !.failed = @ \cup {u},
                                         !.conflicts = [imp[i].conflicts EXCEPT ![u] = x]]]
            BY <1>1, <5>2
          <6> QED BY <6>1
        <5>3. ASSUME NEW x, imp' = [imp EXCEPT ![i].todo = @ \ {u}, ![i].rows[u] = x]
              PROVE  \E r : imp' = [imp EXCEPT ![i] = r]
          <6>1. imp' = [imp EXCEPT ![i] = [imp[i] EXCEPT !.todo = @ \ {u},
                                             !.rows = [imp[i].rows EXCEPT ![u] = x]]]
            BY <1>1, <5>3
          <6> QED BY <6>1
        <5>4. SkipEvent(i, u) =>
                imp' = [imp EXCEPT ![i].todo = @ \ {u}, ![i].failed = @ \cup {u}]
          BY DEF SkipEvent
        <5>5. Import(i, u) =>
                \/ imp' = [imp EXCEPT ![i].todo = @ \ {u}, ![i].failed = @ \cup {u}]
                \/ \E x : imp' = [imp EXCEPT ![i].todo = @ \ {u}, ![i].failed = @ \cup {u},
                                             ![i].conflicts[u] = x]
                \/ \E x : imp' = [imp EXCEPT ![i].todo = @ \ {u}, ![i].rows[u] = x]
          BY DEF Import
        <5> QED BY <4>2, <5>1, <5>2, <5>3, <5>4, <5>5
      <4>3. ASSUME NEW i \in Importers, NEW a, NEW b,
                   imp' = [imp EXCEPT ![i].at = a, ![i].rows = b]
            PROVE  \E r : imp' = [imp EXCEPT ![i] = r]
        <5>1. imp' = [imp EXCEPT ![i] = [imp[i] EXCEPT !.at = a, !.rows = b]]
          BY <1>1, <4>3
        <5> QED BY <5>1
      <4>4. ASSUME NEW i \in Importers, NEW a, NEW b, NEW c,
                   imp' = [imp EXCEPT ![i].at = a, ![i].feed = b, ![i].todo = c]
            PROVE  \E r : imp' = [imp EXCEPT ![i] = r]
        <5>1. imp' = [imp EXCEPT ![i] = [imp[i] EXCEPT !.at = a, !.feed = b, !.todo = c]]
          BY <1>1, <4>4
        <5> QED BY <5>1
      <4>5. ASSUME NEW i \in Importers, StepOf(i) PROVE \E r : imp' = [imp EXCEPT ![i] = r]
        <5>1. CASE \E a, b : imp' = [imp EXCEPT ![i].at = a, ![i].rows = b]
          <6>1. PICK a, b : imp' = [imp EXCEPT ![i].at = a, ![i].rows = b]
            BY <5>1
          <6> QED BY <4>3, <6>1
        <5>2. CASE \E a, b, c : imp' = [imp EXCEPT ![i].at = a, ![i].feed = b, ![i].todo = c]
          <6>1. PICK a, b, c : imp' = [imp EXCEPT ![i].at = a, ![i].feed = b, ![i].todo = c]
            BY <5>2
          <6> QED BY <4>4, <6>1
        <5>3. CASE \E u : Import(i, u) \/ SkipEvent(i, u)
          BY <4>2, <5>3
        <5> QED BY <4>0, <4>5, <5>1, <5>2, <5>3
      <4> QED BY <4>1, <4>5, Zenon
    <3> QED BY <1>1, <3>1
  <2>3. ASSUME NEW i \in Importers PROVE imp'[i] \in ImpRow
    <3>1. /\ imp[i] \in ImpRow
          /\ imp[i].todo \subseteq Uids /\ imp[i].failed \subseteq Uids
          /\ imp[i].conn \in Conns \cup {None} /\ imp[i].feed \in Feed
          /\ imp[i].feed \in [Uids -> Stay \cup {NoStay}]
          /\ imp[i].rows \in [Uids -> Row \cup {None}]
          /\ imp[i].conflicts \in [Uids -> ConflictStatus \cup {None}]
      BY <1>1 DEF ImpRow, Feed
    <3>2. CASE imp'[i] = imp[i]
      BY <3>1, <3>2
    <3>3. ASSUME NEW u \in Uids, NEW cs \in [Uids -> ConflictStatus \cup {None}],
                 EventFails(i, u, cs)
          PROVE  imp'[i] \in ImpRow
      <4>1. imp[i].todo \ {u} \in SUBSET Uids /\ imp[i].failed \cup {u} \in SUBSET Uids
        BY <3>1
      <4> QED BY <3>1, <3>3, <4>1 DEF EventFails, ImpRow
    <3>4. ASSUME NEW u \in Uids, Import(i, u) PROVE imp'[i] \in ImpRow
      <4>1. CASE EventFails(i, u, imp[i].conflicts)
        BY <3>1, <3>3, <4>1
      <4>2. CASE /\ link[imp[i].conn] # "gone"
                 /\ EventFails(i, u, [imp[i].conflicts EXCEPT
                                        ![u] = Refiled(conflict[<<imp[i].conn, u>>])])
        <5>1. imp[i].conn \in Conns
          BY <3>4 DEF Import, WritesAreByTheFeed, ByItsFeed
        <5>2. conflict[<<imp[i].conn, u>>] \in ConflictStatus
          BY <1>1, <5>1 DEF Imports
        <5>3. Refiled(conflict[<<imp[i].conn, u>>]) \in ConflictStatus
          BY <5>2, RowMoves DEF ConflictStatus
        <5>4. [imp[i].conflicts EXCEPT ![u] = Refiled(conflict[<<imp[i].conn, u>>])]
                \in [Uids -> ConflictStatus \cup {None}]
          BY <3>1, <5>3
        <5> QED BY <3>3, <4>2, <5>4
      <4>3. CASE EventLands(i, u, [imp[i].rows EXCEPT ![u] = Confirmed(imp[i].feed[u])])
        <5>1. /\ [imp[i].rows EXCEPT ![u] = Confirmed(imp[i].feed[u])]
                   \in [Uids -> Row \cup {None}]
              /\ imp[i].todo \ {u} \in SUBSET Uids
          BY <3>1, RowMoves
        <5> QED BY <3>1, <4>3, <5>1 DEF EventLands, ImpRow
      <4> QED BY <3>4, <4>1, <4>2, <4>3, ImportLeaves
    <3>5. ASSUME CancelAbsent(i) PROVE imp'[i] \in ImpRow
      <4>1. \A u \in Absent(i) : row[<<imp[i].conn, u>>] \in Row
        BY <1>1, <3>1 DEF Absent, Key, Imports
      <4>2. Cancels(i) \in [Uids -> Row \cup {None}]
        BY <3>1, <4>1, RowMoves DEF Cancels
      <4>3. imp'[i] = [imp[i] EXCEPT !.at = "closing", !.rows = Cancels(i)]
        BY <3>5, StatementsLeave
      <4> QED BY <3>1, <4>2, <4>3 DEF ImpRow
    <3>6. ASSUME Fetch(i) PROVE imp'[i] \in ImpRow
      <4>1. \A f \in Feed : Offered(f) \in SUBSET Uids
        BY DEF Offered
      <4>2. PICK f \in Feed :
              imp'[i] = [imp[i] EXCEPT !.at = "importing", !.feed = f, !.todo = Offered(f)]
        BY <3>6, StatementsLeave
      <4> QED BY <3>1, <4>1, <4>2 DEF ImpRow
    <3>7. ASSUME NEW u \in Uids, SkipEvent(i, u) PROVE imp'[i] \in ImpRow
      BY <3>1, <3>3, <3>7, StatementsLeave
    <3>8. ASSUME StepOf(i) PROVE imp'[i] \in ImpRow
      BY <3>4, <3>5, <3>6, <3>7, <3>8, StatementsLeave, ImpRowMoves DEF StepOf, ImportStep
    <3>9. ASSUME NEW j \in Importers, j # i, StepOf(j) PROVE imp'[i] = imp[i]
      <4>1. \A u \in Uids : Import(j, u) => imp'[i] = imp[i]
        BY <3>9, ImportLeaves
      <4> QED BY <3>9, <4>1, StatementsLeave DEF StepOf, ImportStep
    <3> QED BY <3>2, <3>8, <3>9, WhoMoves
  <2> QED BY <2>2, <2>3
<1>7. row' \in [Key -> Row]
  <2>1. ASSUME NEW k \in Key, CancelById(k) PROVE row' \in [Key -> Row]
    <3>1. row' = [row EXCEPT ![k] = [row[k] EXCEPT !.status = "cancelled"]]
      BY <1>1, <2>1 DEF CancelById
    <3> QED BY <1>1, <3>1, RowMoves
  <2>2. ASSUME NEW l \in Locals, NEW s \in Stay, BookDirect(l, s) PROVE row' \in [Key -> Row]
    BY <1>1, <2>2, RowMoves DEF BookDirect
  <2>3. ASSUME NEW i \in Importers, StepOf(i) PROVE row' \in [Key -> Row]
    <3>1. CASE Finish(i)
      BY <3>1, SeenRows DEF Finish
    <3> QED BY <1>1, <2>3, <3>1, StatementsLeaveRows
  <2> QED BY <1>1, <2>1, <2>2, <2>3, WhoMoves
<1>8. conflict' \in [Imports -> ConflictStatus]
  <2>1. ASSUME NEW i \in Importers, Finish(i) PROVE conflict' \in [Imports -> ConflictStatus]
    <3>1. imp[i].conflicts \in [Uids -> ConflictStatus \cup {None}]
      BY <1>1 DEF ImpRow
    <3>2. \A k \in Imports : Filed(i, k) => imp[i].conflicts[k[2]] \in ConflictStatus
      BY <3>1 DEF Filed
    <3>3. "resolved" \in ConflictStatus
      BY DEF ConflictStatus
    <3> QED BY <1>1, <2>1, <3>2, <3>3 DEF Finish
  <2>2. ASSUME NEW k \in Imports, Dismiss(k) PROVE conflict' \in [Imports -> ConflictStatus]
    BY <1>1, <2>2 DEF Dismiss, ConflictStatus
  <2>3. ASSUME NEW c \in Conns, Connect(c) \/ Disconnect(c)
        PROVE  conflict' \in [Imports -> ConflictStatus]
    BY <1>1, <2>3 DEF Connect, Disconnect, ConflictStatus
  <2> QED BY <1>1, <2>1, <2>2, <2>3, WhoMoves, StatementsLeaveRows
<1> QED BY <1>2, <1>3, <1>4, <1>5, <1>6, <1>7, <1>8 DEF TypeOK, ImpRow

\* Every statement of an importer, spelled out: what an open transaction is before it and
\* after it.
LEMMA WritesStayByTheFeed ==
  ASSUME TypeOK, WritesAreByTheFeed, Next
  PROVE  WritesAreByTheFeed'
<1> SUFFICES ASSUME NEW i \in Importers PROVE ByItsFeed(imp'[i])
  BY DEF WritesAreByTheFeed
<1>1. /\ imp[i] \in ImpRow /\ ByItsFeed(imp[i])
      /\ conflict \in [Imports -> ConflictStatus] /\ row \in [Key -> Row]
  BY RowsAreTyped DEF WritesAreByTheFeed
<1>2. /\ imp[i].todo \subseteq Uids /\ imp[i].failed \subseteq Uids
      /\ imp[i].rows \in [Uids -> Row \cup {None}]
      /\ imp[i].conflicts \in [Uids -> ConflictStatus \cup {None}]
  BY <1>1 DEF ImpRow
<1>3. CASE imp'[i] = imp[i]
  BY <1>1, <1>3
<1>4. \A where \in {"idle", "fetching", "done"} :
        /\ At(where).at = where
        /\ \A u \in Uids : At(where).rows[u] = None /\ At(where).conflicts[u] = None
  BY DEF At
<1>5. CASE MarkError(i) \/ Finish(i) \/ Abort(i)
  <2>1. imp'[i] \in {At("idle"), At("done")}
    BY <1>5, StatementsLeave
  <2> QED BY <1>4, <2>1 DEF ByItsFeed
<1>6. ASSUME NEW c \in Conns, Begin(i, c) PROVE ByItsFeed(imp'[i])
  <2>1. imp'[i] = [At("fetching") EXCEPT !.conn = c]
    BY <1>6, StatementsLeave
  <2>2. /\ imp'[i].at = "fetching" /\ imp'[i].conn = c
        /\ imp'[i].rows = At("fetching").rows /\ imp'[i].conflicts = At("fetching").conflicts
    BY <2>1 DEF At
  <2> QED BY <1>4, <2>2 DEF ByItsFeed
<1>7. CASE Fetch(i)
  <2>1. imp[i].at = "fetching"
    BY <1>7 DEF Fetch
  <2>2. PICK f \in Feed :
          imp'[i] = [imp[i] EXCEPT !.at = "importing", !.feed = f, !.todo = Offered(f)]
    BY <1>7, StatementsLeave
  <2>3. /\ imp'[i].at = "importing" /\ imp'[i].feed = f /\ imp'[i].todo = Offered(f)
        /\ imp'[i].conn = imp[i].conn /\ imp'[i].rows = imp[i].rows
        /\ imp'[i].conflicts = imp[i].conflicts
    BY <1>1, <2>2 DEF ImpRow
  <2> QED BY <1>1, <2>1, <2>3 DEF ByItsFeed
<1>8. ASSUME NEW u \in Uids, imp[i].at = "importing",
             NEW cs, EventFails(i, u, cs),
             cs = imp[i].conflicts
               \/ \E x \in {"open", "dismissed"} : cs = [imp[i].conflicts EXCEPT ![u] = x]
      PROVE  ByItsFeed(imp'[i])
  <2>1. /\ imp'[i].at = "importing" /\ imp'[i].feed = imp[i].feed
        /\ imp'[i].conn = imp[i].conn /\ imp'[i].rows = imp[i].rows
        /\ imp'[i].conflicts = cs
        /\ imp'[i].todo = imp[i].todo \ {u} /\ imp'[i].failed = imp[i].failed \cup {u}
    BY <1>1, <1>8 DEF EventFails, ImpRow
  <2>2. \A v \in Uids : cs[v] \in {None, "open", "dismissed"}
    BY <1>1, <1>2, <1>8 DEF ByItsFeed
  <2>3. \A v : v \in imp[i].todo \cup imp[i].failed =>
               v \in imp'[i].todo \cup imp'[i].failed
    BY <2>1
  <2> QED BY <1>1, <1>8, <2>1, <2>2, <2>3 DEF ByItsFeed
<1>9. ASSUME NEW u \in Uids, imp[i].at = "importing",
             EventLands(i, u, [imp[i].rows EXCEPT ![u] = Confirmed(imp[i].feed[u])])
      PROVE  ByItsFeed(imp'[i])
  <2>1. /\ imp'[i].at = "importing" /\ imp'[i].feed = imp[i].feed
        /\ imp'[i].conn = imp[i].conn /\ imp'[i].conflicts = imp[i].conflicts
        /\ imp'[i].rows = [imp[i].rows EXCEPT ![u] = Confirmed(imp[i].feed[u])]
        /\ imp'[i].todo = imp[i].todo \ {u} /\ imp'[i].failed = imp[i].failed
    BY <1>1, <1>9 DEF EventLands, ImpRow
  <2>2. /\ imp'[i].rows[u] = Confirmed(imp[i].feed[u])
        /\ imp'[i].rows[u].status = "confirmed"
        /\ \A v \in Uids \ {u} : imp'[i].rows[v] = imp[i].rows[v]
    BY <1>2, <2>1 DEF Confirmed
  <2>3. ASSUME NEW v \in Uids
        PROVE  /\ v \in Offered(imp[i].feed) =>
                    \/ v \in imp'[i].todo \cup imp'[i].failed
                    \/ imp'[i].rows[v] = Confirmed(imp[i].feed[v])
               /\ imp'[i].rows[v] # None /\ imp'[i].rows[v].status = "cancelled" =>
                    Offered(imp[i].feed) # {} /\ v \notin Offered(imp[i].feed)
    <3>1. CASE v = u
      BY <2>2, <3>1
    <3>2. CASE v # u
      BY <1>1, <1>9, <2>1, <2>2, <3>2 DEF ByItsFeed
    <3> QED BY <3>1, <3>2
  <2> QED BY <1>1, <1>9, <2>1, <2>3 DEF ByItsFeed
<1>10. CASE CancelAbsent(i)
  <2>1. imp[i].at = "importing" /\ imp[i].todo = {}
    BY <1>10 DEF CancelAbsent
  <2>2. imp'[i] = [imp[i] EXCEPT !.at = "closing", !.rows = Cancels(i)]
    BY <1>10, StatementsLeave
  <2>3. /\ imp'[i].at = "closing" /\ imp'[i].feed = imp[i].feed
        /\ imp'[i].conn = imp[i].conn /\ imp'[i].conflicts = imp[i].conflicts
        /\ imp'[i].rows = Cancels(i)
        /\ imp'[i].todo = imp[i].todo /\ imp'[i].failed = imp[i].failed
    BY <1>1, <2>2 DEF ImpRow
  <2>4. ASSUME NEW v \in Uids
        PROVE  /\ v \in Offered(imp[i].feed) => imp'[i].rows[v] = imp[i].rows[v]
               /\ imp'[i].rows[v] # imp[i].rows[v] =>
                    Offered(imp[i].feed) # {} /\ v \notin Offered(imp[i].feed)
    BY <2>3 DEF Cancels, Absent
  <2> QED BY <1>1, <2>1, <2>3, <2>4 DEF ByItsFeed
<1>11. ASSUME NEW u \in Uids, Import(i, u) PROVE ByItsFeed(imp'[i])
  <2>1. imp[i].at = "importing" /\ imp[i].conn \in Conns
    BY <1>1, <1>11 DEF Import, ByItsFeed
  <2>2. Refiled(conflict[<<imp[i].conn, u>>]) \in {"open", "dismissed"}
    BY <1>1, <2>1, RowMoves DEF Imports
  <2> QED BY <1>8, <1>9, <1>11, <2>1, <2>2, ImportLeaves
<1>12. ASSUME NEW u \in Uids, SkipEvent(i, u) PROVE ByItsFeed(imp'[i])
  <2>1. imp[i].at = "importing" /\ EventFails(i, u, imp[i].conflicts)
    BY <1>12, StatementsLeave DEF SkipEvent
  <2> QED BY <1>8, <2>1
<1>13. CASE StepOf(i)
  BY <1>5, <1>6, <1>7, <1>10, <1>11, <1>12, <1>13 DEF StepOf, ImportStep
<1>14. ASSUME NEW j \in Importers, j # i, StepOf(j) PROVE imp'[i] = imp[i]
  <2>1. \A u \in Uids : Import(j, u) => imp'[i] = imp[i]
    BY <1>14, ImportLeaves
  <2> QED BY <1>14, <2>1, StatementsLeave DEF StepOf, ImportStep
<1> QED BY <1>3, <1>13, <1>14, WhoMoves

-----------------------------------------------------------------------------
(* Rows and conflicts are written by one transaction at a time.             *)

\* Only an import is written or filed, and only by a transaction that is open.
LEMMA OpenOnesWrite ==
  ASSUME TypeOK, WritesAreByTheFeed, NEW j \in Importers, NEW k, Wrote(j, k) \/ Filed(j, k)
  PROVE  /\ k \in Imports /\ k \in Key /\ k \notin Locals
         /\ imp[j].at \in {"importing", "closing"}
<1>1. imp[j] \in ImpRow /\ ByItsFeed(imp[j])
  BY RowsAreTyped DEF WritesAreByTheFeed
<1>2. PICK u \in Uids : k = <<imp[j].conn, u>> /\ (imp[j].rows[u] # None \/ imp[j].conflicts[u] # None)
  BY DEF Wrote, Filed
<1>3. imp[j].at \in {"importing", "closing"} /\ imp[j].conn \in Conns
  BY <1>1, <1>2 DEF ByItsFeed, ImpRow
<1> QED BY <1>2, <1>3, ChannelSyncAssumption DEF Imports, Key

\* What a statement makes of row u and of conflict u of its importer.
WritesRow(i, u) ==
  LET k == <<imp[i].conn, u>>
      s == imp[i].feed[u]
  IN /\ imp'[i].conn = imp[i].conn /\ imp[i].at = "importing"
     /\ ~Finish(i)
     /\ \A j \in Importers : j # i => ~Wrote(j, k)
     /\ \/ imp'[i].rows[u] = [row[k] EXCEPT !.status = "cancelled"]
        \/ /\ imp'[i].rows[u] = Confirmed(s)
           /\ Refusers(i, k, s) = {} /\ Undecided(i, k, s) = {}
           /\ \A v \in Uids \ {u} : imp'[i].rows[v] = imp[i].rows[v]

FilesConflict(i, u) ==
  LET k == <<imp[i].conn, u>>
  IN /\ imp'[i].conn = imp[i].conn /\ conflict' = conflict
     /\ \A j \in Importers : j # i => ~Filed(j, k)
     /\ imp'[i].conflicts[u] = Refiled(conflict[k])

LEMMA WhoWrites ==
  ASSUME TypeOK, WritesAreByTheFeed, NEW i \in Importers, StepOf(i), NEW u \in Uids
  PROVE  /\ \/ imp'[i].rows[u] = None
            \/ imp'[i].rows[u] = imp[i].rows[u] /\ imp'[i].conn = imp[i].conn
            \/ WritesRow(i, u)
         /\ \/ imp'[i].conflicts[u] = None
            \/ imp'[i].conflicts[u] = imp[i].conflicts[u] /\ imp'[i].conn = imp[i].conn
            \/ FilesConflict(i, u)
         /\ \A j \in Importers : j # i => imp'[j] = imp[j]
<1> DEFINE Goal ==
       /\ \/ imp'[i].rows[u] = None
          \/ imp'[i].rows[u] = imp[i].rows[u] /\ imp'[i].conn = imp[i].conn
          \/ WritesRow(i, u)
       /\ \/ imp'[i].conflicts[u] = None
          \/ imp'[i].conflicts[u] = imp[i].conflicts[u] /\ imp'[i].conn = imp[i].conn
          \/ FilesConflict(i, u)
       /\ \A j \in Importers : j # i => imp'[j] = imp[j]
<1>1. /\ imp[i] \in ImpRow /\ imp[i].rows \in [Uids -> Row \cup {None}]
      /\ imp[i].conflicts \in [Uids -> ConflictStatus \cup {None}]
  BY RowsAreTyped DEF ImpRow
<1>2. \A where \in {"idle", "fetching", "done"} :
        At(where).rows[u] = None /\ At(where).conflicts[u] = None
  BY DEF At
<1>3. CASE MarkError(i) \/ Finish(i) \/ Abort(i)
  BY <1>2, <1>3, StatementsLeave
<1>4. ASSUME NEW c \in Conns, Begin(i, c) PROVE Goal
  <2>1. imp'[i] = [At("fetching") EXCEPT !.conn = c] /\ \A j \in Importers : j # i => imp'[j] = imp[j]
    BY <1>4, StatementsLeave
  <2>2. imp'[i].rows = At("fetching").rows /\ imp'[i].conflicts = At("fetching").conflicts
    BY <2>1 DEF At
  <2> QED BY <1>2, <2>1, <2>2
<1>5. CASE Fetch(i)
  <2>1. /\ imp'[i].conn = imp[i].conn /\ imp'[i].rows = imp[i].rows
        /\ imp'[i].conflicts = imp[i].conflicts
        /\ \A j \in Importers : j # i => imp'[j] = imp[j]
    <3>1. /\ \E f \in Feed : imp'[i] = [imp[i] EXCEPT !.at = "importing", !.feed = f,
                                                     !.todo = Offered(f)]
          /\ \A j \in Importers : j # i => imp'[j] = imp[j]
      BY <1>5, StatementsLeave
    <3> QED BY <1>1, <3>1 DEF ImpRow
  <2> QED BY <2>1
<1>6. CASE CancelAbsent(i)
  <2>1. imp[i].at = "importing" /\ imp[i].todo = {} /\ BlockedOn(i) = {}
    BY <1>6 DEF CancelAbsent
  <2>2. /\ imp'[i].conn = imp[i].conn /\ imp'[i].conflicts = imp[i].conflicts
        /\ imp'[i].rows = Cancels(i)
        /\ \A j \in Importers : j # i => imp'[j] = imp[j]
    <3>1. /\ imp'[i] = [imp[i] EXCEPT !.at = "closing", !.rows = Cancels(i)]
          /\ \A j \in Importers : j # i => imp'[j] = imp[j]
      BY <1>6, StatementsLeave
    <3> QED BY <1>1, <3>1 DEF ImpRow
  <2>3. CASE u \notin Absent(i)
    BY <2>2, <2>3 DEF Cancels
  <2>4. CASE u \in Absent(i)
    <3>1. imp'[i].rows[u] = [row[<<imp[i].conn, u>>] EXCEPT !.status = "cancelled"]
      BY <2>2, <2>4 DEF Cancels
    <3>2. <<imp[i].conn, u>> \in RowsOf(i, Absent(i))
      BY <2>4 DEF RowsOf
    <3>3. (UNION {Writers(k) : k \in RowsOf(i, Absent(i))}) \ {i} = {}
      BY <2>1 DEF BlockedOn
    <3>4. \A j \in Importers : j # i => ~Wrote(j, <<imp[i].conn, u>>)
      <4>1. ASSUME NEW j \in Writers(<<imp[i].conn, u>>), j # i PROVE FALSE
        <5>1. Writers(<<imp[i].conn, u>>) \in {Writers(k) : k \in RowsOf(i, Absent(i))}
          BY <3>2
        <5>2. j \in (UNION {Writers(k) : k \in RowsOf(i, Absent(i))}) \ {i}
          BY <4>1, <5>1, Zenon
        <5> QED BY <3>3, <5>2
      <4> QED BY <4>1 DEF Writers
    <3>5. ~Finish(i)
      BY <2>1 DEF Finish
    <3>6. WritesRow(i, u)
      BY <2>1, <2>2, <3>1, <3>4, <3>5 DEF WritesRow
    <3> QED BY <2>2, <3>6
  <2> QED BY <2>3, <2>4
<1>7. ASSUME NEW v \in Uids, Import(i, v) PROVE Goal
  <2> DEFINE k == <<imp[i].conn, v>>
             s == imp[i].feed[v]
  <2>1. /\ imp[i].at = "importing" /\ WaitsForEvent(i, v) = {} /\ conflict' = conflict
        /\ \A j \in Importers : j # i => imp'[j] = imp[j]
    BY <1>7, ImportLeaves DEF Import
  <2>2. /\ \A j \in Importers : j # i => ~Wrote(j, k)
        /\ Refusers(i, k, s) # {} => \A j \in Importers : j # i => ~Filed(j, k)
        /\ Refusers(i, k, s) = {} => Undecided(i, k, s) = {}
    BY <2>1 DEF WaitsForEvent, Writers, Filers
  <2>3. CASE EventFails(i, v, imp[i].conflicts)
    <3>1. /\ imp'[i].conn = imp[i].conn /\ imp'[i].rows = imp[i].rows
          /\ imp'[i].conflicts = imp[i].conflicts
      BY <1>1, <2>3 DEF EventFails, ImpRow
    <3> QED BY <2>1, <3>1
  <2>4. ASSUME Refusers(i, k, s) # {},
               EventFails(i, v, [imp[i].conflicts EXCEPT ![v] = Refiled(conflict[k])])
        PROVE  Goal
    <3>1. /\ imp'[i].conn = imp[i].conn /\ imp'[i].rows = imp[i].rows
          /\ imp'[i].conflicts = [imp[i].conflicts EXCEPT ![v] = Refiled(conflict[k])]
      BY <1>1, <2>4 DEF EventFails, ImpRow
    <3>2. u # v => imp'[i].conflicts[u] = imp[i].conflicts[u]
      BY <1>1, <3>1
    <3>3. u = v => imp'[i].conflicts[u] = Refiled(conflict[k])
      BY <1>1, <3>1
    <3>4. u = v => FilesConflict(i, u)
      BY <2>1, <2>2, <2>4, <3>1, <3>3 DEF FilesConflict
    <3> QED BY <2>1, <3>1, <3>2, <3>4
  <2>5. ASSUME Refusers(i, k, s) = {},
               EventLands(i, v, [imp[i].rows EXCEPT ![v] = Confirmed(s)])
        PROVE  Goal
    <3>1. /\ imp'[i].conn = imp[i].conn /\ imp'[i].conflicts = imp[i].conflicts
          /\ imp'[i].rows = [imp[i].rows EXCEPT ![v] = Confirmed(s)]
      BY <1>1, <2>5 DEF EventLands, ImpRow
    <3>2. \A w \in Uids \ {v} : imp'[i].rows[w] = imp[i].rows[w]
      BY <1>1, <3>1
    <3>3. imp'[i].rows[v] = Confirmed(s)
      BY <1>1, <3>1
    <3>4. ~Finish(i)
      BY <2>1 DEF Finish
    <3>5. u = v => WritesRow(i, u)
      BY <2>1, <2>2, <2>5, <3>1, <3>2, <3>3, <3>4 DEF WritesRow
    <3> QED BY <2>1, <3>1, <3>2, <3>5
  <2> QED BY <1>7, <2>3, <2>4, <2>5, ImportLeaves
<1>8. ASSUME NEW v \in Uids, SkipEvent(i, v) PROVE Goal
  <2>1. EventFails(i, v, imp[i].conflicts) /\ \A j \in Importers : j # i => imp'[j] = imp[j]
    BY <1>8, StatementsLeave
  <2>2. /\ imp'[i].conn = imp[i].conn /\ imp'[i].rows = imp[i].rows
        /\ imp'[i].conflicts = imp[i].conflicts
    BY <1>1, <2>1 DEF EventFails, ImpRow
  <2> QED BY <2>1, <2>2
<1> QED BY <1>3, <1>4, <1>5, <1>6, <1>7, <1>8 DEF StepOf, ImportStep

LEMMA WritesStayExclusive ==
  ASSUME TypeOK, WritesAreExclusive, WritesAreByTheFeed, Next
  PROVE  WritesAreExclusive'
<1>1. imp \in [Importers -> ImpRow] /\ conflict \in [Imports -> ConflictStatus]
  BY RowsAreTyped
<1>2. \A k \in Imports : k = <<k[1], k[2]>> /\ k[1] \in Conns /\ k[2] \in Uids
  BY DEF Imports
<1>3. ASSUME NEW i \in Importers, NEW j \in Importers, NEW u \in Uids, NEW c \in Conns
      PROVE  LET k == <<c, u>>
             IN /\ Wrote(i, k)' /\ Wrote(j, k)' => i = j
                /\ Filed(i, k)' /\ Filed(j, k)' => i = j
                /\ Filed(i, k)' /\ conflict'[k] = "dismissed" => imp'[i].conflicts[u] = "dismissed"
  <2> DEFINE k == <<c, u>>
             Goal(a, b) ==
               /\ Wrote(a, k)' /\ Wrote(b, k)' => a = b
               /\ Filed(a, k)' /\ Filed(b, k)' => a = b
               /\ Filed(a, k)' /\ conflict'[k] = "dismissed" =>
                    imp'[a].conflicts[u] = "dismissed"
  <2>1. /\ k \in Imports /\ k[2] = u /\ k[1] = c
        /\ Wrote(i, k) /\ Wrote(j, k) => i = j
        /\ Filed(i, k) /\ Filed(j, k) => i = j
        /\ Filed(i, k) /\ conflict[k] = "dismissed" => imp[i].conflicts[u] = "dismissed"
    BY DEF WritesAreExclusive, Imports
  <2>2. \A a \in Importers : (Wrote(a, k)' <=> imp'[a].conn = c /\ imp'[a].rows[u] # None)
                             /\ (Wrote(a, k) <=> imp[a].conn = c /\ imp[a].rows[u] # None)
                             /\ (Filed(a, k)' <=> imp'[a].conn = c /\ imp'[a].conflicts[u] # None)
                             /\ (Filed(a, k) <=> imp[a].conn = c /\ imp[a].conflicts[u] # None)
    BY WhatIsWritten
  <2>3. ASSUME NEW m \in Importers, StepOf(m) PROVE Goal(i, j)
    <3>1. /\ \/ imp'[m].rows[u] = None
             \/ imp'[m].rows[u] = imp[m].rows[u] /\ imp'[m].conn = imp[m].conn
             \/ WritesRow(m, u)
          /\ \/ imp'[m].conflicts[u] = None
             \/ imp'[m].conflicts[u] = imp[m].conflicts[u] /\ imp'[m].conn = imp[m].conn
             \/ FilesConflict(m, u)
          /\ \A a \in Importers : a # m => imp'[a] = imp[a]
      BY <2>3, WhoWrites
    <3>2. WritesRow(m, u) /\ imp'[m].conn = c => \A a \in Importers : a # m => ~Wrote(a, k)
      BY DEF WritesRow
    <3>3. FilesConflict(m, u) /\ imp'[m].conn = c =>
            /\ \A a \in Importers : a # m => ~Filed(a, k)
            /\ imp'[m].conflicts[u] = Refiled(conflict[k])
            /\ conflict'[k] = conflict[k]
      BY DEF FilesConflict
    <3>4. Wrote(i, k)' /\ Wrote(j, k)' => i = j
      BY <2>1, <2>2, <3>1, <3>2
    <3>5. Filed(i, k)' /\ Filed(j, k)' => i = j
      BY <2>1, <2>2, <3>1, <3>3
    <3>6. conflict'[k] = "dismissed" =>
            \/ conflict[k] = "dismissed"
            \/ Finish(m) /\ Filed(m, k)
      <4>1. CASE Finish(m)
        <5>1. conflict' = [x \in Imports |->
                IF Filed(m, x) THEN imp[m].conflicts[x[2]]
                ELSE IF x \in RowsOf(m, Healed(m)) THEN "resolved" ELSE conflict[x]]
          BY <4>1 DEF Finish
        <5>2. conflict'[k] = IF Filed(m, k) THEN imp[m].conflicts[u]
                ELSE IF k \in RowsOf(m, Healed(m)) THEN "resolved" ELSE conflict[k]
          BY <2>1, <5>1
        <5> QED BY <4>1, <5>2
      <4>2. CASE ~Finish(m)
        BY <2>3, <4>2, StatementsLeaveRows
      <4> QED BY <4>1, <4>2
    <3>7. Finish(m) => imp'[m].conflicts[u] = None
      <4>1. ASSUME Finish(m) PROVE imp'[m].conflicts[u] = None
        <5>1. imp'[m] \in {At("idle"), At("done")}
          BY <4>1, StatementsLeave
        <5> QED BY <5>1 DEF At
      <4> QED BY <4>1
    <3>8. Refiled("dismissed") = "dismissed"
      BY DEF Refiled
    <3>9. ASSUME Filed(i, k)', conflict'[k] = "dismissed"
          PROVE  imp'[i].conflicts[u] = "dismissed"
      <4>1. CASE i # m
        <5>1. Filed(i, k) /\ imp'[i] = imp[i]
          BY <2>2, <3>1, <3>9, <4>1
        <5>2. ~Filed(m, k)
          BY <4>1, <5>1, <2>1 DEF WritesAreExclusive
        <5> QED BY <2>1, <3>6, <3>9, <5>1, <5>2
      <4>2. CASE i = m
        <5>1. imp'[m].conn = c /\ imp'[m].conflicts[u] # None
          BY <2>2, <3>9, <4>2
        <5>2. conflict[k] = "dismissed"
          BY <3>6, <3>7, <3>9, <5>1
        <5>3. CASE imp'[m].conflicts[u] = imp[m].conflicts[u] /\ imp'[m].conn = imp[m].conn
          BY <2>1, <2>2, <4>2, <5>1, <5>2, <5>3
        <5>4. CASE FilesConflict(m, u)
          BY <3>3, <3>8, <4>2, <5>1, <5>2, <5>4
        <5> QED BY <3>1, <5>1, <5>3, <5>4
      <4> QED BY <4>1, <4>2
    <3> QED BY <3>4, <3>5, <3>9
  <2>4. ASSUME imp' = imp, conflict'[k] = "dismissed" /\ Filed(i, k) => conflict[k] = "dismissed"
        PROVE  Goal(i, j)
    BY <2>1, <2>2, <2>4
  <2>5. ASSUME NEW x \in Imports, UNCHANGED <<imp, row, link>>, Dismiss(x) PROVE Goal(i, j)
    <3>1. conflict'[k] = "dismissed" /\ Filed(i, k) => conflict[k] = "dismissed"
      <4>1. k # x => conflict'[k] = conflict[k]
        BY <1>1, <2>1, <2>5 DEF Dismiss
      <4>2. ~Filed(i, x)
        BY <2>5 DEF Dismiss, Filers
      <4> QED BY <4>1, <4>2
    <3> QED BY <2>4, <2>5, <3>1
  <2>6. ASSUME NEW d \in Conns, UNCHANGED <<imp, row>>, Connect(d) \/ Disconnect(d)
        PROVE  Goal(i, j)
    <3>1. conflict'[k] = "dismissed" => conflict[k] = "dismissed"
      BY <2>1, <2>6 DEF Connect, Disconnect
    <3> QED BY <2>4, <2>6, <3>1
  <2>7. ASSUME imp' = imp, conflict' = conflict PROVE Goal(i, j)
    BY <2>4, <2>7
  <2> QED BY <2>3, <2>5, <2>6, <2>7, WhoMoves
<1>4. ASSUME NEW i \in Importers, NEW j \in Importers, NEW k \in Imports
      PROVE  /\ Wrote(i, k)' /\ Wrote(j, k)' => i = j
             /\ Filed(i, k)' /\ Filed(j, k)' => i = j
             /\ Filed(i, k)' /\ conflict'[k] = "dismissed" =>
                  imp'[i].conflicts[k[2]] = "dismissed"
  <2>1. PICK c \in Conns, u \in Uids : k = <<c, u>> /\ k[2] = u
    BY <1>2
  <2> QED BY <1>3, <2>1
<1> QED BY <1>4 DEF WritesAreExclusive

-----------------------------------------------------------------------------
(* The calendar stays free of overlaps, as every transaction sees it.       *)

\* A row that is not confirmed is apart from all.
LEMMA DeadRowsAreApart ==
  \A r, q : r.status # "confirmed" \/ q.status # "confirmed" => Apart(r, q)
BY DEF Apart, Takes

\* A step that writes no stay, in the table or in a transaction, brings no overlap.
LEMMA NoStayNoOverlap ==
  ASSUME NoTwoVersionsOverlap,
         \A k \in Key : row'[k] = row[k] \/ row'[k].status # "confirmed",
         \A j \in Importers :
           \/ \A k \in Key : \/ Seen(j)'[k] = Seen(j)[k] /\ (Wrote(j, k)' => Wrote(j, k))
                             \/ Seen(j)'[k].status # "confirmed"
           \/ \A k \in Key : ~Wrote(j, k)' /\ Seen(j)'[k] = row'[k]
  PROVE  NoTwoVersionsOverlap'
<1>1. ASSUME NEW x \in Key, NEW y \in Key, x # y PROVE Apart(row'[x], row'[y])
  <2>1. Apart(row[x], row[y])
    BY <1>1 DEF NoTwoVersionsOverlap
  <2> QED BY <2>1, DeadRowsAreApart
<1>2. ASSUME NEW j \in Importers, NEW x \in Key, NEW y \in Key, x # y
      PROVE  Apart(Seen(j)'[x], Seen(j)'[y])
  <2>1. Apart(Seen(j)[x], Seen(j)[y])
    BY <1>2 DEF NoTwoVersionsOverlap
  <2> QED BY <1>1, <1>2, <2>1, DeadRowsAreApart
<1>3. ASSUME NEW i \in Importers, NEW j \in Importers, NEW x \in Key, NEW y \in Key,
             i # j, x # y, Wrote(i, x)', Wrote(j, y)'
      PROVE  Apart(Seen(i)'[x], Seen(j)'[y])
  <2>1. Wrote(i, x) /\ Wrote(j, y) => Apart(Seen(i)[x], Seen(j)[y])
    BY <1>3 DEF NoTwoVersionsOverlap
  <2>2. \/ Seen(i)'[x] = Seen(i)[x] /\ Wrote(i, x)
        \/ Seen(i)'[x].status # "confirmed"
    BY <1>3
  <2>3. \/ Seen(j)'[y] = Seen(j)[y] /\ Wrote(j, y)
        \/ Seen(j)'[y].status # "confirmed"
    BY <1>3
  <2> QED BY <2>1, <2>2, <2>3, DeadRowsAreApart
<1> QED BY <1>1, <1>2, <1>3 DEF NoTwoVersionsOverlap

\* What a transaction that does not move sees and has written.
LEMMA StandingByWrites ==
  ASSUME NEW j \in Importers, imp'[j] = imp[j], NEW k \in Key
  PROVE  /\ Wrote(j, k)' <=> Wrote(j, k)
         /\ Seen(j)'[k] = IF Wrote(j, k) THEN Seen(j)[k] ELSE row'[k]
<1>1. Wrote(j, k)' <=> Wrote(j, k)
  BY DEF Wrote
<1> QED BY <1>1, WhatIsSeen

\* The statements that write no stay.
LEMMA QuietStatements ==
  ASSUME TypeOK, NoTwoVersionsOverlap, WritesAreExclusive, WritesAreByTheFeed,
         NEW i \in Importers, StepOf(i), ~Finish(i),
         \A u \in Uids : WritesRow(i, u) =>
           imp'[i].rows[u] = [row[<<imp[i].conn, u>>] EXCEPT !.status = "cancelled"]
  PROVE  NoTwoVersionsOverlap'
<1>1. row' = row
  BY StatementsLeaveRows
<1>2. ASSUME NEW j \in Importers, j # i, NEW k \in Key
      PROVE  Seen(j)'[k] = Seen(j)[k] /\ (Wrote(j, k)' => Wrote(j, k))
  <2>1. \A u \in Uids : imp'[j] = imp[j]
    BY <1>2, WhoWrites
  <2>2. Wrote(j, k)' => Wrote(j, k)
    BY <2>1 DEF Wrote
  <2>3. CASE imp'[j] = imp[j]
    BY <1>1, <2>3, StandingByWrites, WhatIsSeen
  <2>4. CASE Uids = {}
    BY <1>1, <2>4, WhatIsSeen DEF Wrote
  <2> QED BY <2>1, <2>2, <2>3, <2>4
<1>3. ASSUME NEW k \in Key, Wrote(i, k)'
      PROVE  \/ Wrote(i, k) /\ Seen(i)'[k] = Seen(i)[k]
             \/ Seen(i)'[k].status # "confirmed"
  <2>1. PICK u \in Uids : k = <<imp'[i].conn, u>> /\ imp'[i].rows[u] # None
    BY <1>3 DEF Wrote
  <2>2. k[2] = u /\ Seen(i)'[k] = imp'[i].rows[u]
    BY <1>3, <2>1, WhatIsSeen
  <2>3. CASE imp'[i].rows[u] = imp[i].rows[u] /\ imp'[i].conn = imp[i].conn
    <3>1. Wrote(i, k)
      BY <2>1, <2>3 DEF Wrote
    <3> QED BY <2>2, <2>3, <3>1, WhatIsSeen
  <2>4. CASE WritesRow(i, u)
    <3>1. imp[i].conn = imp'[i].conn /\ imp'[i].rows[u] = [row[k] EXCEPT !.status = "cancelled"]
      BY <2>1, <2>4 DEF WritesRow
    <3>2. row[k] \in Row
      BY RowsAreTyped
    <3> QED BY <2>2, <3>1, <3>2 DEF Row
  <2> QED BY <2>1, <2>3, <2>4, WhoWrites
<1>4. \/ \A k \in Key : ~Wrote(i, k)'
      \/ \A k \in Key : Wrote(i, k) => Wrote(i, k)'
  <2>1. CASE MarkError(i) \/ Abort(i)
    <3>1. imp'[i] \in {At("idle"), At("done")}
      BY <2>1, StatementsLeave
    <3>2. \A u \in Uids : imp'[i].rows[u] = None
      BY <3>1 DEF At
    <3> QED BY <3>2 DEF Wrote
  <2>2. ASSUME imp'[i].conn = imp[i].conn,
               \A u \in Uids : imp[i].rows[u] # None => imp'[i].rows[u] # None
        PROVE  \A k \in Key : Wrote(i, k) => Wrote(i, k)'
    BY <2>2 DEF Wrote
  <2>3. /\ imp[i] \in ImpRow /\ imp[i].rows \in [Uids -> Row \cup {None}]
        /\ ByItsFeed(imp[i]) /\ row \in [Key -> Row]
    BY RowsAreTyped DEF ImpRow, WritesAreByTheFeed
  <2>4. ASSUME NEW c \in Conns, Begin(i, c) PROVE \A k \in Key : ~Wrote(i, k)'
    <3>1. imp'[i] = [At("fetching") EXCEPT !.conn = c]
      BY <2>4, StatementsLeave
    <3>2. \A u \in Uids : imp'[i].rows[u] = None
      BY <3>1 DEF At
    <3> QED BY <3>2 DEF Wrote
  <2>5. CASE Fetch(i)
    <3>1. \E f \in Feed : imp'[i] = [imp[i] EXCEPT !.at = "importing", !.feed = f,
                                                    !.todo = Offered(f)]
      BY <2>5, StatementsLeave
    <3>2. imp'[i].conn = imp[i].conn /\ imp'[i].rows = imp[i].rows
      BY <2>3, <3>1 DEF ImpRow
    <3> QED BY <2>2, <3>2
  <2>6. CASE CancelAbsent(i)
    <3>1. imp'[i] = [imp[i] EXCEPT !.at = "closing", !.rows = Cancels(i)]
      BY <2>6, StatementsLeave
    <3>2. imp'[i].conn = imp[i].conn /\ imp'[i].rows = Cancels(i)
      BY <2>3, <3>1 DEF ImpRow
    <3>3. ASSUME NEW u \in Uids, imp[i].rows[u] # None PROVE Cancels(i)[u] # None
      <4>1. CASE u \notin Absent(i)
        BY <3>3, <4>1 DEF Cancels
      <4>2. CASE u \in Absent(i)
        <5>1. row[<<imp[i].conn, u>>] \in Row
          <6>1. imp[i].conn \in Conns
            BY <2>6, <2>3 DEF CancelAbsent, ByItsFeed
          <6> QED BY <2>3, <6>1 DEF Key, Imports
        <5>2. Cancels(i)[u] \in Row
          BY <4>2, <5>1, RowMoves DEF Cancels
        <5> QED BY <5>2, NoneIsNoVersion
      <4> QED BY <4>1, <4>2
    <3> QED BY <2>2, <3>2, <3>3
  <2>7. ASSUME NEW u \in Uids, Import(i, u) PROVE \A k \in Key : Wrote(i, k) => Wrote(i, k)'
    <3>1. ASSUME NEW cs, EventFails(i, u, cs)
          PROVE  \A k \in Key : Wrote(i, k) => Wrote(i, k)'
      <4>1. imp'[i].conn = imp[i].conn /\ imp'[i].rows = imp[i].rows
        BY <2>3, <3>1 DEF EventFails, ImpRow
      <4> QED BY <2>2, <4>1
    <3>2. ASSUME EventLands(i, u, [imp[i].rows EXCEPT ![u] = Confirmed(imp[i].feed[u])])
          PROVE  \A k \in Key : Wrote(i, k) => Wrote(i, k)'
      <4>1. /\ imp'[i].conn = imp[i].conn
            /\ imp'[i].rows = [imp[i].rows EXCEPT ![u] = Confirmed(imp[i].feed[u])]
        BY <2>3, <3>2 DEF EventLands, ImpRow
      <4>2. Confirmed(imp[i].feed[u]) \in Row
        BY <2>3, RowMoves DEF ImpRow, Feed
      <4>3. \A v \in Uids : imp[i].rows[v] # None => imp'[i].rows[v] # None
        BY <2>3, <4>1, <4>2, NoneIsNoVersion
      <4> QED BY <2>2, <4>1, <4>3
    <3> QED BY <2>7, <3>1, <3>2, ImportLeaves
  <2>8. ASSUME NEW u \in Uids, SkipEvent(i, u) PROVE \A k \in Key : Wrote(i, k) => Wrote(i, k)'
    <3>1. EventFails(i, u, imp[i].conflicts)
      BY <2>8, StatementsLeave
    <3>2. imp'[i].conn = imp[i].conn /\ imp'[i].rows = imp[i].rows
      BY <2>3, <3>1 DEF EventFails, ImpRow
    <3> QED BY <2>2, <3>2
  <2> QED BY <2>1, <2>4, <2>5, <2>6, <2>7, <2>8 DEF StepOf, ImportStep
<1>5. CASE \A k \in Key : ~Wrote(i, k)'
  <2>1. \A k \in Key : Seen(i)'[k] = row'[k]
    BY <1>5, WhatIsSeen
  <2> QED BY <1>1, <1>2, <1>5, <2>1, NoStayNoOverlap
<1>6. CASE \A k \in Key : Wrote(i, k) => Wrote(i, k)'
  <2>1. ASSUME NEW k \in Key
        PROVE  \/ Seen(i)'[k] = Seen(i)[k] /\ (Wrote(i, k)' => Wrote(i, k))
               \/ Seen(i)'[k].status # "confirmed"
    <3>1. CASE ~Wrote(i, k)'
      BY <1>1, <1>6, <3>1, WhatIsSeen
    <3> QED BY <1>3, <3>1
  <2> QED BY <1>1, <1>2, <2>1, NoStayNoOverlap
<1> QED BY <1>4, <1>5, <1>6

\* A stay lands: the constraint saw every row and every version of one that there is.
LEMMA LandingsAreApart ==
  ASSUME TypeOK, NoTwoVersionsOverlap, WritesAreExclusive, WritesAreByTheFeed,
         NEW i \in Importers, StepOf(i), NEW u \in Uids, WritesRow(i, u),
         imp'[i].rows[u] = Confirmed(imp[i].feed[u]),
         Refusers(i, <<imp[i].conn, u>>, imp[i].feed[u]) = {},
         Undecided(i, <<imp[i].conn, u>>, imp[i].feed[u]) = {},
         \A v \in Uids \ {u} : imp'[i].rows[v] = imp[i].rows[v]
  PROVE  NoTwoVersionsOverlap'
<1>0. PICK k, s :
        /\ k = <<imp[i].conn, u>> /\ s = imp[i].feed[u]
        /\ imp'[i].rows[u] = Confirmed(s) /\ Refusers(i, k, s) = {} /\ Undecided(i, k, s) = {}
  OBVIOUS
<1>1. row' = row /\ imp'[i].conn = imp[i].conn /\ \A j \in Importers : j # i => imp'[j] = imp[j]
  BY WhoWrites, StatementsLeaveRows DEF WritesRow
<1>2. Confirmed(s) # None /\ Confirmed(s).status = "confirmed" /\ Confirmed(s).stay = s
  <2>1. imp[i].feed[u] \in Stay \cup {NoStay}
    BY <1>0, RowsAreTyped DEF ImpRow, Feed
  <2>2. Confirmed(s) \in Row
    BY <1>0, <2>1, RowMoves
  <2>3. Confirmed(s) # None
    BY <2>2, NoneIsNoVersion
  <2> QED BY <2>3 DEF Confirmed
<1>3. Wrote(i, k)' /\ k[2] = u
  BY <1>0, <1>1, <1>2 DEF Wrote
<1>4. ASSUME NEW x \in Key, x # k
      PROVE  (Wrote(i, x)' <=> Wrote(i, x)) /\ Seen(i)'[x] = Seen(i)[x]
  <2>1. \A v \in Uids : x = <<imp[i].conn, v>> => v # u /\ x[2] = v
    BY <1>0, <1>4
  <2>2. Wrote(i, x)' <=> Wrote(i, x)
    BY <1>1, <2>1 DEF Wrote
  <2>3. Wrote(i, x) => imp'[i].rows[x[2]] = imp[i].rows[x[2]]
    BY <2>1 DEF Wrote
  <2> QED BY <1>1, <2>2, <2>3, WhatIsSeen
<1>5. ASSUME k \in Key PROVE Seen(i)'[k] = Confirmed(s)
  <2>1. Seen(i)'[k] = imp'[i].rows[k[2]]
    BY <1>3, <1>5, WhatIsSeen
  <2> QED BY <1>0, <1>3, <2>1
<1>6. ASSUME NEW j \in Importers, j # i, NEW x \in Key
      PROVE  (Wrote(j, x)' <=> Wrote(j, x)) /\ Seen(j)'[x] = Seen(j)[x]
  <2>1. imp'[j] = imp[j]
    BY <1>1, <1>6
  <2> QED BY <1>1, <2>1, StandingByWrites, WhatIsSeen
<1>7. ASSUME NEW j \in Importers, j # i, NEW x \in Key, x # k, Wrote(j, x)
      PROVE  ~Takes(row[x], s) /\ ~Takes(Seen(j)[x], s)
  BY <1>0, <1>7 DEF Undecided
<1>8. ASSUME NEW x \in Key, x # k PROVE ~Takes(Seen(i)[x], s)
  <2>1. CASE \A j \in Importers : j # i => ~Wrote(j, x)
    <3>1. Writers(x) \subseteq {i}
      BY <2>1 DEF Writers
    <3> QED BY <1>0, <1>8, <3>1 DEF Refusers
  <2>2. ASSUME NEW j \in Importers, j # i, Wrote(j, x) PROVE ~Takes(Seen(i)[x], s)
    <3>1. x \in Imports
      BY <2>2, OpenOnesWrite
    <3>2. ~Wrote(i, x)
      BY <2>2, <3>1 DEF WritesAreExclusive
    <3>3. Seen(i)[x] = row[x]
      BY <3>2, WhatIsSeen
    <3> QED BY <1>7, <1>8, <2>2, <3>3
  <2> QED BY <2>1, <2>2
<1>9. \A r : ~Takes(r, s) => Apart(Confirmed(s), r) /\ Apart(r, Confirmed(s))
  BY <1>2, ApartIsSymmetric DEF Apart
<1>10. ASSUME NEW x \in Key, NEW y \in Key, x # y PROVE Apart(row'[x], row'[y])
  BY <1>1, <1>10 DEF NoTwoVersionsOverlap
<1>11. ASSUME NEW j \in Importers, NEW x \in Key, NEW y \in Key, x # y
       PROVE  Apart(Seen(j)'[x], Seen(j)'[y])
  <2>1. Apart(Seen(j)[x], Seen(j)[y])
    BY <1>11 DEF NoTwoVersionsOverlap
  <2>2. CASE j # i
    BY <1>6, <2>1, <2>2
  <2>3. CASE j = i /\ x # k /\ y # k
    BY <1>4, <2>1, <2>3
  <2>4. CASE j = i /\ x = k
    BY <1>4, <1>5, <1>8, <1>9, <1>11, <2>4
  <2>5. CASE j = i /\ y = k
    BY <1>4, <1>5, <1>8, <1>9, <1>11, <2>5
  <2> QED BY <2>2, <2>3, <2>4, <2>5
<1>12. ASSUME NEW j \in Importers, j # i, NEW x \in Key, NEW y \in Key, x # y,
              Wrote(i, x)', Wrote(j, y)'
       PROVE  Apart(Seen(i)'[x], Seen(j)'[y])
  <2>1. Wrote(j, y) /\ Seen(j)'[y] = Seen(j)[y]
    BY <1>6, <1>12
  <2>2. CASE x = k
    <3>1. ~Takes(Seen(j)[y], s)
      BY <1>7, <1>12, <2>1, <2>2
    <3> QED BY <1>5, <1>9, <2>1, <2>2, <3>1
  <2>3. CASE x # k
    <3>1. Wrote(i, x) /\ Seen(i)'[x] = Seen(i)[x]
      BY <1>4, <1>12, <2>3
    <3> QED BY <1>12, <2>1, <3>1 DEF NoTwoVersionsOverlap
  <2> QED BY <2>2, <2>3
<1>13. ASSUME NEW j \in Importers, NEW m \in Importers, NEW x \in Key, NEW y \in Key,
              j # m, x # y, Wrote(j, x)', Wrote(m, y)'
       PROVE  Apart(Seen(j)'[x], Seen(m)'[y])
  <2>1. CASE j = i
    BY <1>12, <1>13, <2>1
  <2>2. CASE m = i
    <3>1. Apart(Seen(m)'[y], Seen(j)'[x])
      BY <1>12, <1>13, <2>2
    <3> QED BY <3>1, ApartIsSymmetric
  <2>3. CASE j # i /\ m # i
    <3>1. /\ Wrote(j, x) /\ Seen(j)'[x] = Seen(j)[x]
          /\ Wrote(m, y) /\ Seen(m)'[y] = Seen(m)[y]
      BY <1>6, <1>13, <2>3
    <3> QED BY <1>13, <3>1 DEF NoTwoVersionsOverlap
  <2> QED BY <2>1, <2>2, <2>3
<1> QED BY <1>10, <1>11, <1>13 DEF NoTwoVersionsOverlap

\* A commit: what the transaction saw becomes the table for all.
LEMMA CommitsAreApart ==
  ASSUME TypeOK, NoTwoVersionsOverlap, NEW i \in Importers, Finish(i)
  PROVE  NoTwoVersionsOverlap'
<1>1. /\ row' = Seen(i) /\ imp'[i] \in {At("idle"), At("done")}
      /\ \A j \in Importers : j # i => imp'[j] = imp[j]
  BY StatementsLeave DEF Finish
<1>2. \A k \in Key : ~Wrote(i, k)' /\ Seen(i)'[k] = Seen(i)[k]
  <2>1. \A u \in Uids : imp'[i].rows[u] = None
    BY <1>1 DEF At
  <2>2. \A k \in Key : ~Wrote(i, k)'
    BY <2>1 DEF Wrote
  <2> QED BY <1>1, <2>2, WhatIsSeen
<1>3. ASSUME NEW j \in Importers, j # i, NEW k \in Key
      PROVE  /\ Wrote(j, k)' <=> Wrote(j, k)
             /\ Seen(j)'[k] = IF Wrote(j, k) THEN Seen(j)[k] ELSE Seen(i)[k]
  <2>1. imp'[j] = imp[j]
    BY <1>1, <1>3
  <2> QED BY <1>1, <2>1, StandingByWrites
<1>4. ASSUME NEW x \in Key, NEW y \in Key, x # y PROVE Apart(row'[x], row'[y])
  BY <1>1, <1>4 DEF NoTwoVersionsOverlap
<1>5. ASSUME NEW j \in Importers, j # i, NEW x \in Key, NEW y \in Key, x # y,
             Wrote(j, x), ~Wrote(j, y)
      PROVE  Apart(Seen(j)[x], Seen(i)[y])
  <2>1. CASE Wrote(i, y)
    BY <1>5, <2>1 DEF NoTwoVersionsOverlap
  <2>2. CASE ~Wrote(i, y)
    <3>1. Seen(i)[y] = Seen(j)[y]
      BY <1>5, <2>2, WhatIsSeen
    <3> QED BY <1>5, <3>1 DEF NoTwoVersionsOverlap
  <2> QED BY <2>1, <2>2
<1>6. ASSUME NEW j \in Importers, NEW x \in Key, NEW y \in Key, x # y
      PROVE  Apart(Seen(j)'[x], Seen(j)'[y])
  <2>1. Apart(Seen(j)[x], Seen(j)[y]) /\ Apart(Seen(i)[x], Seen(i)[y])
    BY <1>6 DEF NoTwoVersionsOverlap
  <2>2. CASE j = i
    BY <1>2, <2>1, <2>2
  <2>3. CASE j # i /\ (Wrote(j, x) <=> Wrote(j, y))
    BY <1>3, <2>1, <2>3
  <2>4. CASE j # i /\ Wrote(j, x) /\ ~Wrote(j, y)
    BY <1>3, <1>5, <1>6, <2>4
  <2>5. CASE j # i /\ Wrote(j, y) /\ ~Wrote(j, x)
    <3>1. Apart(Seen(j)[y], Seen(i)[x])
      BY <1>5, <1>6, <2>5
    <3> QED BY <1>3, <2>5, <3>1, ApartIsSymmetric
  <2> QED BY <2>2, <2>3, <2>4, <2>5
<1>7. ASSUME NEW j \in Importers, NEW m \in Importers, NEW x \in Key, NEW y \in Key,
             j # m, x # y, Wrote(j, x)', Wrote(m, y)'
      PROVE  Apart(Seen(j)'[x], Seen(m)'[y])
  <2>1. j # i /\ m # i
    BY <1>2, <1>7
  <2>2. /\ Wrote(j, x) /\ Seen(j)'[x] = Seen(j)[x]
        /\ Wrote(m, y) /\ Seen(m)'[y] = Seen(m)[y]
    BY <1>3, <1>7, <2>1
  <2> QED BY <1>7, <2>2 DEF NoTwoVersionsOverlap
<1> QED BY <1>4, <1>6, <1>7 DEF NoTwoVersionsOverlap

\* A direct booking is taken when no row, and no version of one, has a night of it.
LEMMA DirectBookingsAreApart ==
  ASSUME TypeOK, NoTwoVersionsOverlap, WritesAreByTheFeed,
         NEW l \in Locals, NEW s \in Stay, BookDirect(l, s)
  PROVE  NoTwoVersionsOverlap'
<1>1. /\ imp' = imp /\ l \in Key /\ row \in [Key -> Row]
      /\ row' = [row EXCEPT ![l] = Confirmed(s)]
      /\ \A x \in Key : ~Takes(row[x], s)
      /\ \A j \in Importers, x \in Key : ~Takes(Seen(j)[x], s)
  BY RowsAreTyped DEF BookDirect, Key
<1>2. \A j \in Importers : ~Wrote(j, l)
  BY OpenOnesWrite
<1>3. row'[l] = Confirmed(s) /\ \A x \in Key \ {l} : row'[x] = row[x]
  BY <1>1
<1>4. ASSUME NEW j \in Importers, NEW x \in Key
      PROVE  /\ Wrote(j, x)' <=> Wrote(j, x)
             /\ Seen(j)'[x] = IF x = l THEN Confirmed(s) ELSE Seen(j)[x]
  <2>1. imp'[j] = imp[j]
    BY <1>1
  <2> QED BY <1>2, <1>3, <2>1, StandingByWrites, WhatIsSeen
<1>5. \A r : ~Takes(r, s) => Apart(Confirmed(s), r) /\ Apart(r, Confirmed(s))
  BY ApartIsSymmetric DEF Apart, Confirmed
<1>6. ASSUME NEW x \in Key, NEW y \in Key, x # y PROVE Apart(row'[x], row'[y])
  <2>1. Apart(row[x], row[y])
    BY <1>6 DEF NoTwoVersionsOverlap
  <2> QED BY <1>1, <1>3, <1>5, <1>6, <2>1
<1>7. ASSUME NEW j \in Importers, NEW x \in Key, NEW y \in Key, x # y
      PROVE  Apart(Seen(j)'[x], Seen(j)'[y])
  <2>1. Apart(Seen(j)[x], Seen(j)[y])
    BY <1>7 DEF NoTwoVersionsOverlap
  <2>2. ~Takes(Seen(j)[x], s) /\ ~Takes(Seen(j)[y], s)
    BY <1>1
  <2> QED BY <1>4, <1>5, <1>7, <2>1, <2>2
<1>8. ASSUME NEW j \in Importers, NEW m \in Importers, NEW x \in Key, NEW y \in Key,
             j # m, x # y, Wrote(j, x)', Wrote(m, y)'
      PROVE  Apart(Seen(j)'[x], Seen(m)'[y])
  <2>1. /\ Wrote(j, x) /\ Seen(j)'[x] = Seen(j)[x]
        /\ Wrote(m, y) /\ Seen(m)'[y] = Seen(m)[y]
    BY <1>2, <1>4, <1>8
  <2> QED BY <1>8, <2>1 DEF NoTwoVersionsOverlap
<1> QED BY <1>6, <1>7, <1>8 DEF NoTwoVersionsOverlap

LEMMA StaysStayApart ==
  ASSUME TypeOK, NoTwoVersionsOverlap, WritesAreExclusive, WritesAreByTheFeed, Next
  PROVE  NoTwoVersionsOverlap'
<1>1. ASSUME NEW i \in Importers, StepOf(i), ~Finish(i) PROVE NoTwoVersionsOverlap'
  <2>1. CASE \A u \in Uids : WritesRow(i, u) =>
               imp'[i].rows[u] = [row[<<imp[i].conn, u>>] EXCEPT !.status = "cancelled"]
    BY <1>1, <2>1, QuietStatements
  <2>2. ASSUME NEW u \in Uids, WritesRow(i, u),
               imp'[i].rows[u] # [row[<<imp[i].conn, u>>] EXCEPT !.status = "cancelled"]
        PROVE  NoTwoVersionsOverlap'
    <3>1. /\ imp'[i].rows[u] = Confirmed(imp[i].feed[u])
          /\ Refusers(i, <<imp[i].conn, u>>, imp[i].feed[u]) = {}
          /\ Undecided(i, <<imp[i].conn, u>>, imp[i].feed[u]) = {}
          /\ \A v \in Uids \ {u} : imp'[i].rows[v] = imp[i].rows[v]
      BY <2>2 DEF WritesRow
    <3> QED BY <1>1, <2>2, <3>1, LandingsAreApart
  <2> QED BY <2>1, <2>2
<1>2. ASSUME imp' = imp, \A k \in Key : row'[k] = row[k] \/ row'[k].status # "confirmed"
      PROVE  NoTwoVersionsOverlap'
  <2>1. ASSUME NEW j \in Importers, NEW k \in Key
        PROVE  \/ Seen(j)'[k] = Seen(j)[k] /\ (Wrote(j, k)' => Wrote(j, k))
               \/ Seen(j)'[k].status # "confirmed"
    <3>1. imp'[j] = imp[j]
      BY <1>2
    <3> QED BY <1>2, <3>1, StandingByWrites, WhatIsSeen
  <2> QED BY <1>2, <2>1, NoStayNoOverlap
<1>3. ASSUME NEW k \in Key, CancelById(k) PROVE NoTwoVersionsOverlap'
  <2>1. row \in [Key -> Row] /\ imp' = imp /\ row' = [row EXCEPT ![k].status = "cancelled"]
    BY <1>3, RowsAreTyped DEF CancelById
  <2>2. row[k] \in Row
    BY <2>1
  <2>3. row'[k].status # "confirmed"
    BY <2>1, <2>2 DEF Row
  <2>4. \A x \in Key \ {k} : row'[x] = row[x]
    BY <2>1
  <2> QED BY <1>2, <2>1, <2>3, <2>4
<1>4. ASSUME imp' = imp, row' = row PROVE NoTwoVersionsOverlap'
  BY <1>2, <1>4
<1> QED BY <1>1, <1>3, <1>4, WhoMoves, CommitsAreApart, DirectBookingsAreApart
-----------------------------------------------------------------------------
LEMMA SyncProtocolInit == Init => SyncProtocol
<1> SUFFICES ASSUME Init PROVE SyncProtocol
  OBVIOUS
<1>1. /\ feed \in Feed /\ link = [c \in Conns |-> "unborn"] /\ row = [k \in Key |-> NoRow]
      /\ conflict = [k \in Imports |-> "none"] /\ imp = [i \in Importers |-> At("idle")]
      /\ changes = 0 /\ faults = 0
  BY FirstFeedsAssumption DEF Init
<1>2. TypeOK
  <2>1. 0 \in 0 .. MaxChanges /\ 0 \in 0 .. MaxFaults
    BY ChannelSyncAssumption
  <2>2. NoRow \in Row /\ At("idle") \in ImpRow /\ "none" \in ConflictStatus
    BY RowMoves, ImpRowMoves DEF ConflictStatus
  <2>3. link \in [Conns -> {"unborn", "ok", "error", "gone"}]
    BY <1>1
  <2> QED BY <1>1, <2>1, <2>2, <2>3, RowsAreTyped
<1>3. \A i \in Importers : /\ imp[i].at = "idle" /\ imp[i] = At("idle")
                           /\ \A u \in Uids : imp[i].rows[u] = None /\ imp[i].conflicts[u] = None
  BY <1>1 DEF At
<1>4. \A i \in Importers : \A k : ~Wrote(i, k) /\ ~Filed(i, k)
  BY <1>3 DEF Wrote, Filed
<1>5. \A i \in Importers : \A k \in Key : Seen(i)[k] = NoRow
  BY <1>1, <1>4, WhatIsSeen
<1>6. \A r : Apart(NoRow, r)
  BY DeadRowsAreApart DEF NoRow
<1>7. NoTwoVersionsOverlap
  BY <1>1, <1>4, <1>5, <1>6 DEF NoTwoVersionsOverlap
<1>8. WritesAreExclusive
  BY <1>4 DEF WritesAreExclusive
<1>9. WritesAreByTheFeed
  BY <1>3 DEF WritesAreByTheFeed, ByItsFeed
<1> QED BY <1>2, <1>7, <1>8, <1>9 DEF SyncProtocol

LEMMA SyncProtocolStep == SyncProtocol /\ [Next]_vars => SyncProtocol'
<1> SUFFICES ASSUME SyncProtocol, [Next]_vars PROVE SyncProtocol'
  OBVIOUS
<1>1. CASE Next
  BY <1>1, StepsAreTyped, WritesStayByTheFeed, WritesStayExclusive, StaysStayApart
     DEF SyncProtocol
<1>2. CASE UNCHANGED vars
  <2>1. TypeOK'
    BY <1>2 DEF SyncProtocol, TypeOK, vars
  <2>2. WritesAreExclusive'
    BY <1>2 DEF SyncProtocol, WritesAreExclusive, Wrote, Filed, vars
  <2>3. WritesAreByTheFeed'
    BY <1>2 DEF SyncProtocol, WritesAreByTheFeed, vars
  <2>4. NoTwoVersionsOverlap'
    <3>1. ASSUME NEW j \in Importers, NEW k \in Key
          PROVE  Seen(j)'[k] = Seen(j)[k] /\ (Wrote(j, k)' => Wrote(j, k))
      <4>1. imp'[j] = imp[j] /\ row'[k] = row[k]
        BY <1>2 DEF vars
      <4> QED BY <4>1, StandingByWrites, WhatIsSeen
    <3> QED BY <1>2, <3>1, NoStayNoOverlap DEF SyncProtocol, vars
  <2> QED BY <2>1, <2>2, <2>3, <2>4 DEF SyncProtocol
<1> QED BY <1>1, <1>2

\* The inductive invariant of the import.
THEOREM SyncProtocolKept == Spec => []SyncProtocol
BY SyncProtocolInit, SyncProtocolStep, PTL DEF Spec

\* However reconciliations, direct bookings and cancels interleave, no night is in two
\* confirmed bookings: the exclusion constraint sees every version there is.
THEOREM NothingIsSoldTwice == Spec => []NoDoubleBooking
<1>1. SyncProtocol => NoDoubleBooking
  <2>1. SUFFICES ASSUME SyncProtocol, NEW x \in Key, NEW y \in Key, x # y,
                        row[x].status = "confirmed", row[y].status = "confirmed"
                 PROVE  NightsOf(row[x]) \cap NightsOf(row[y]) = {}
    BY DEF NoDoubleBooking
  <2>2. row[x] \in Row /\ row[y] \in Row /\ Apart(row[x], row[y])
    BY <2>1, RowsAreTyped DEF SyncProtocol, NoTwoVersionsOverlap
  <2> QED BY <2>1, <2>2, ApartSharesNoNight
<1>2. QED BY <1>1, SyncProtocolKept, PTL

\* ADR-0027, "a judgement stands": no reconciliation, also none that was under way as the
\* owner dismissed, reopens or closes a conflict that is dismissed.
THEOREM JudgementsStand == Spec => DismissalStands
<1>1. SyncProtocol /\ [Next]_vars =>
        \A k \in Imports :
          conflict[k] = "dismissed" => conflict'[k] = "dismissed" \/ link'[k[1]] = "gone"
  <2>1. SUFFICES ASSUME SyncProtocol, [Next]_vars, NEW k \in Imports, conflict[k] = "dismissed"
                 PROVE  conflict'[k] = "dismissed" \/ link'[k[1]] = "gone"
    OBVIOUS
  <2>2. /\ conflict \in [Imports -> ConflictStatus]
        /\ link \in [Conns -> {"unborn", "ok", "error", "gone"}]
        /\ k[1] \in Conns /\ k[2] \in Uids /\ k = <<k[1], k[2]>>
    BY <2>1, RowsAreTyped DEF SyncProtocol, Imports
  <2>3. ASSUME NEW i \in Importers, StepOf(i) PROVE conflict'[k] = "dismissed"
    <3>1. CASE ~Finish(i)
      BY <2>1, <2>3, <3>1, StatementsLeaveRows
    <3>2. CASE Finish(i)
      <4>1. conflict'[k] = IF Filed(i, k) THEN imp[i].conflicts[k[2]]
              ELSE IF k \in RowsOf(i, Healed(i)) THEN "resolved" ELSE conflict[k]
        BY <3>2 DEF Finish
      <4>2. Filed(i, k) => imp[i].conflicts[k[2]] = "dismissed"
        BY <2>1 DEF SyncProtocol, WritesAreExclusive
      <4>3. k \notin RowsOf(i, Healed(i))
        BY <2>1 DEF RowsOf, Healed
      <4> QED BY <2>1, <4>1, <4>2, <4>3
    <3> QED BY <3>1, <3>2
  <2>4. ASSUME NEW x \in Imports, Dismiss(x) PROVE conflict'[k] = "dismissed"
    BY <2>1, <2>2, <2>4 DEF Dismiss
  <2>5. ASSUME NEW c \in Conns, Connect(c) \/ Disconnect(c)
        PROVE  conflict'[k] = "dismissed" \/ link'[k[1]] = "gone"
    BY <2>1, <2>2, <2>5 DEF Connect, Disconnect
  <2>6. CASE conflict' = conflict
    BY <2>1, <2>6
  <2> QED BY <2>1, <2>3, <2>4, <2>5, <2>6, WhoMoves DEF vars
<1>2. QED BY <1>1, SyncProtocolKept, PTL DEF Spec, DismissalStands

\* ADR-0027 and ADR-0025: whatever else happens between its pull and its commit, a
\* reconciliation withdraws a stay only on a pull that has events and not this one.
THEOREM FailureIsNoMeasurement == Spec => ClosedByMeasurement
<1>1. SyncProtocol /\ [Next]_vars =>
        \A i \in Importers : \A u \in Uids :
          LET k == <<imp[i].conn, u>>
              gone == Offered(imp[i].feed) # {} /\ u \notin Offered(imp[i].feed)
          IN imp'[i] # imp[i] /\ imp[i].conn # None =>
               /\ row[k].status = "confirmed" /\ row'[k].status = "cancelled" => gone
               /\ conflict[k] = "open" /\ conflict'[k] = "resolved" =>
                    gone \/ row'[k] = Confirmed(imp[i].feed[u])
  <2>1. SUFFICES ASSUME SyncProtocol, [Next]_vars, NEW i \in Importers, NEW u \in Uids,
                        imp'[i] # imp[i], imp[i].conn # None
                 PROVE  LET k == <<imp[i].conn, u>>
                            gone == Offered(imp[i].feed) # {} /\ u \notin Offered(imp[i].feed)
                        IN /\ row[k].status = "confirmed" /\ row'[k].status = "cancelled" => gone
                           /\ conflict[k] = "open" /\ conflict'[k] = "resolved" =>
                                gone \/ row'[k] = Confirmed(imp[i].feed[u])
    OBVIOUS
  <2> DEFINE gone == Offered(imp[i].feed) # {} /\ u \notin Offered(imp[i].feed)
  <2>2. StepOf(i)
    <3>1. \A j \in Importers : j # i => ~StepOf(j)
      BY <2>1, WhoWrites DEF SyncProtocol
    <3> QED BY <2>1, <3>1, WhoMoves DEF vars
  <2>3. CASE ~Finish(i)
    <3>1. row' = row /\ conflict' = conflict
      BY <2>2, <2>3, StatementsLeaveRows
    <3> QED BY <3>1
  <2>4. CASE Finish(i)
    <3>0. PICK k : k = <<imp[i].conn, u>>
      OBVIOUS
    <3>1. /\ imp[i].at = "closing" /\ ByItsFeed(imp[i]) /\ imp[i].feed \in Feed
      BY <2>1, <2>4, RowsAreTyped DEF Finish, SyncProtocol, WritesAreByTheFeed, ImpRow
    <3>2. imp[i].conn \in Conns /\ imp[i].todo = {}
      BY <3>1 DEF ByItsFeed
    <3>3. k \in Imports /\ k \in Key /\ k[2] = u
      BY <3>0, <3>2 DEF Imports, Key
    <3>4. /\ row'[k] = IF Wrote(i, k) THEN imp[i].rows[u] ELSE row[k]
          /\ conflict'[k] = IF Filed(i, k) THEN imp[i].conflicts[u]
               ELSE IF k \in RowsOf(i, Healed(i)) THEN "resolved" ELSE conflict[k]
      BY <2>4, <3>3, WhatIsSeen DEF Finish
    <3>5. ASSUME row[k].status = "confirmed", row'[k].status = "cancelled" PROVE gone
      <4>1. Wrote(i, k) /\ imp[i].rows[u].status = "cancelled"
        BY <3>4, <3>5
      <4>2. imp[i].rows[u] # None
        BY <3>0, <4>1 DEF Wrote
      <4> QED BY <3>1, <4>1, <4>2 DEF ByItsFeed
    <3>6. ASSUME conflict[k] = "open", conflict'[k] = "resolved", ~gone
          PROVE  row'[k] = Confirmed(imp[i].feed[u])
      <4>1. ~Filed(i, k)
        <5>1. Filed(i, k) => imp[i].conflicts[u] # None
          BY <3>0 DEF Filed
        <5>2. imp[i].conflicts[u] \in {None, "open", "dismissed"}
          BY <3>1 DEF ByItsFeed
        <5> QED BY <3>4, <3>6, <5>1, <5>2
      <4>2. k \in RowsOf(i, Healed(i))
        BY <3>4, <3>6, <4>1
      <4>3. u \in Healed(i)
        BY <3>0, <4>2 DEF RowsOf
      <4>4. u \notin imp[i].failed /\ u \in Offered(imp[i].feed)
        BY <3>6, <4>3 DEF Healed
      <4>5. imp[i].rows[u] = Confirmed(imp[i].feed[u])
        BY <3>1, <3>2, <4>4 DEF ByItsFeed
      <4>6. Confirmed(imp[i].feed[u]) # None
        <5>1. imp[i].feed[u] \in Stay \cup {NoStay}
          BY <3>1 DEF Feed
        <5>2. Confirmed(imp[i].feed[u]) \in Row
          BY <5>1, RowMoves
        <5> QED BY <5>2, NoneIsNoVersion
      <4>7. Wrote(i, k)
        BY <3>0, <4>5, <4>6 DEF Wrote
      <4> QED BY <3>4, <4>5, <4>7
    <3> QED BY <3>0, <3>5, <3>6
  <2> QED BY <2>3, <2>4
<1>2. QED BY <1>1, SyncProtocolKept, PTL DEF Spec, ClosedByMeasurement
===============================================================================
