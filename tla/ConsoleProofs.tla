---------------------------- MODULE ConsoleProofs ----------------------------
(***************************************************************************)
(* Proofs about the dashboard, for any workspaces, any followed query keys *)
(* and any number of switches, sign-outs and failures.                     *)
(*                                                                         *)
(* ConsoleProtocol is the inductive invariant: whose rows a fetch under    *)
(* way brings, and what it brings of the write that the screen owes.       *)
(***************************************************************************)
EXTENDS Console, TLAPS

\* Nothing past the switcher has mixed the tab: what the cache holds and what the fetch
\* under way will bring are the session's.
TabIsOfOneWorkspace ==
  session # None /\ ~mixed =>
    /\ cache.by \in {None, session}
    /\ req["query"].phase \in {"sent", "answered"} => req["query"].as = session

\* A write that the screen owes is in the fetch under way or in the rows, or that fetch has
\* failed, of a key whose failure has a line on this screen.
OwedIsOnItsWay ==
  owed =>
    /\ screen \in Screens /\ OnScreen /\ watched \in SaysItFailed(screen)
    /\ req["query"].phase # "idle" => req["query"].seen
    /\ req["query"].phase = "idle" => cache.seen \/ cache.failed

ConsoleProtocol == TypeOK /\ TabIsOfOneWorkspace /\ OwedIsOnItsWay
-----------------------------------------------------------------------------
\* The types of a request and of the cached answer.
RequestRow ==
  [phase: {"idle", "sent", "answered", "refused", "denied", "landed"},
   as: Tenants \cup {None}, valid: BOOLEAN, again: BOOLEAN, seen: BOOLEAN, tries: 0 .. 1]

CacheRow == [by: Tenants \cup {None}, seen: BOOLEAN, stale: BOOLEAN, failed: BOOLEAN]

LEMMA RowsAreTyped ==
  TypeOK <=> /\ watched \in Watched
             /\ screen \in Screens \cup {"guard", "login", "crashed"}
             /\ session \in Tenants \cup {None}
             /\ expired \in BOOLEAN
             /\ cookie \in Tenants \cup {None}
             /\ seats \subseteq Tenants
             /\ cache \in CacheRow
             /\ kept \in Tenants \cup {None}
             /\ req \in [Requests -> RequestRow]
             /\ op \in Operations \cup {NoOperation}
             /\ target \in Tenants \cup {None}
             /\ switching \in {"idle", "sent", "answered", "void"}
             /\ events \in 0 .. MaxEvents
             /\ mixed \in BOOLEAN /\ owed \in BOOLEAN
BY DEF TypeOK, RequestRow, CacheRow

\* What a page shows of the keys that an operation on it changes, its success
\* invalidates or fills in, unless it leads to another page.
LEMMA OperationsCoverTheirPage ==
  ASSUME NEW m \in Operations, m.goes = m.on
  PROVE  (m.touches \ m.paints) \cap Page[m.on] \subseteq m.refetch
<1>1. CASE m \in {ManualBooking, Cancel, DismissConflict, MarkHandled}
  <2>1. m.touches = m.refetch
    <3>1. CASE m = ManualBooking
      BY <3>1 DEF ManualBooking, Operation
    <3>2. CASE m = Cancel
      BY <3>2 DEF Cancel, Operation
    <3>3. CASE m = DismissConflict
      BY <3>3 DEF DismissConflict, Operation
    <3>4. CASE m = MarkHandled
      BY <3>4 DEF MarkHandled, Operation
    <3> QED BY <1>1, <3>1, <3>2, <3>3, <3>4
  <2> QED BY <2>1
<1>5. CASE m = SyncNow
  <2>1. m.on = "calendar" /\ m.touches \ {"channels"} \subseteq m.refetch
    BY <1>5 DEF SyncNow, Operation
  <2>2. "channels" \notin Page["calendar"]
    BY DEF Page, CalendarPage, UseCalendarData, UseSyncHealth
  <2> QED BY <2>1, <2>2
<1>2. CASE m \in {CreateProperty, DeleteProperty}
  BY <1>2 DEF CreateProperty, DeleteProperty, OnProperty, Operation
<1>3. CASE m \in {SaveDetails, ArchiveProperty, SavePhotos, SaveUnit, RemoveOrArchiveUnit,
                  CreateOverride, RemoveOverride, Connect, Disconnect, SyncConnection}
  <2>1. /\ m.on = "property"
        /\ (m.touches \ m.paints) \ {"units", "health", "conflicts", "bookings"} \subseteq
              m.refetch \cup {"properties"}
        /\ "properties" \in m.touches \ m.paints => "properties" \in m.refetch
    BY <1>3
       DEF SaveDetails, ArchiveProperty, SavePhotos, SaveUnit, RemoveOrArchiveUnit,
           CreateOverride, RemoveOverride, Connect, Disconnect, SyncConnection, OnProperty,
           Operation, UnderProperties
  <2>2. Page["property"] \cap {"units", "health", "conflicts", "bookings"} = {}
    BY DEF Page, PropertyEditPage, UseSettings, UnitsSection, PricesSection, ChannelsSection
  <2> QED BY <2>1, <2>2
<1>4. CASE m \in {UpdateSettings, SaveCredential, UpdateStaff, RemoveStaff, CreateInvite,
                  RevokeInvite}
  BY <1>4
     DEF UpdateSettings, SaveCredential, UpdateStaff, RemoveStaff, CreateInvite, RevokeInvite,
         Operation
<1> QED BY <1>1, <1>2, <1>3, <1>4, <1>5 DEF Operations

\* What an operation may owe its page has a line there when it cannot be read.
LEMMA OwedKeysSayTheyFailed ==
  ASSUME NEW m \in Operations,
         NEW k \in ((m.touches \ m.paints) \cup m.refused) \cap Page[m.on]
  PROVE  k \in SaysItFailed(m.on)
<1>1. CASE m \in {UpdateSettings, SaveCredential, UpdateStaff, RemoveStaff, CreateInvite,
                  RevokeInvite}
  <2>1. "properties" \notin m.touches \cup m.refused
    BY <1>1
       DEF UpdateSettings, SaveCredential, UpdateStaff, RemoveStaff, CreateInvite, RevokeInvite,
           Operation
  <2> QED BY <2>1 DEF SaysItFailed
<1>2. CASE m \in {ManualBooking, SyncNow, Cancel, DismissConflict, MarkHandled, CreateProperty}
  <2>1. m.on # "settings"
    <3>1. CASE m \in {ManualBooking, SyncNow}
      BY <3>1 DEF ManualBooking, SyncNow, Operation
    <3>2. CASE m \in {Cancel, CreateProperty}
      BY <3>2 DEF Cancel, CreateProperty, Operation
    <3>3. CASE m \in {DismissConflict, MarkHandled}
      BY <3>3 DEF DismissConflict, MarkHandled, Operation
    <3> QED BY <1>2, <3>1, <3>2, <3>3
  <2> QED BY <2>1 DEF SaysItFailed
<1>3. CASE m \in {SaveDetails, ArchiveProperty, DeleteProperty, SavePhotos, SaveUnit,
                  RemoveOrArchiveUnit, CreateOverride, RemoveOverride, Connect, Disconnect,
                  SyncConnection}
  <2>1. m.on # "settings"
    BY <1>3
       DEF SaveDetails, ArchiveProperty, DeleteProperty, SavePhotos, SaveUnit,
           RemoveOrArchiveUnit, CreateOverride, RemoveOverride, Connect, Disconnect,
           SyncConnection, OnProperty, Operation
  <2> QED BY <2>1 DEF SaysItFailed
<1> QED BY <1>1, <1>2, <1>3 DEF Operations

\* What is sent and what is fetched are requests, and every answer is one.
LEMMA RequestRowMoves ==
  /\ Idle \in RequestRow
  /\ \A t \in Tenants \cup {None}, v \in BOOLEAN, a \in BOOLEAN, n \in 0 .. 1 :
       Sent(t, v, a, n) \in RequestRow
  /\ \A t \in Tenants \cup {None} : Sent(t, TRUE, FALSE, 0) \in RequestRow
  /\ \A r \in RequestRow, p \in {"answered", "refused", "denied", "landed"} :
       [r EXCEPT !.phase = p] \in RequestRow
  /\ \A r \in RequestRow, s \in BOOLEAN : [r EXCEPT !.seen = s] \in RequestRow
  /\ \A r \in RequestRow, t \in Tenants \cup {None} :
       [r EXCEPT !.phase = "landed", !.as = t] \in RequestRow
  /\ \A r \in RequestRow : [r EXCEPT !.tries = 1] \in RequestRow
<1>1. 0 \in 0 .. 1 /\ 1 \in 0 .. 1
  OBVIOUS
<1>2. Idle \in RequestRow
  BY <1>1 DEF Idle, RequestRow
<1>3. \A t \in Tenants \cup {None}, v \in BOOLEAN, a \in BOOLEAN, n \in 0 .. 1 :
        Sent(t, v, a, n) \in RequestRow
  BY DEF Sent, RequestRow
<1>4. \A r \in RequestRow, p \in {"answered", "refused", "denied", "landed"} :
        [r EXCEPT !.phase = p] \in RequestRow
  BY DEF RequestRow
<1>5. \A r \in RequestRow, s \in BOOLEAN : [r EXCEPT !.seen = s] \in RequestRow
  BY DEF RequestRow
<1>6. \A r \in RequestRow, t \in Tenants \cup {None} :
        [r EXCEPT !.phase = "landed", !.as = t] \in RequestRow
  BY DEF RequestRow
<1>7. \A r \in RequestRow : [r EXCEPT !.tries = 1] \in RequestRow
  BY <1>1 DEF RequestRow
<1>8. \A t \in Tenants \cup {None} : Sent(t, TRUE, FALSE, 0) \in RequestRow
  BY <1>1, <1>3
<1> QED BY <1>2, <1>3, <1>4, <1>5, <1>6, <1>7, <1>8

LEMMA CacheRowMoves ==
  /\ NoData \in CacheRow
  /\ \A c \in CacheRow, s \in BOOLEAN :
       /\ [c EXCEPT !.stale = TRUE] \in CacheRow
       /\ [c EXCEPT !.failed = TRUE] \in CacheRow
       /\ [c EXCEPT !.failed = TRUE, !.stale = TRUE] \in CacheRow
       /\ [c EXCEPT !.seen = s] \in CacheRow
  /\ \A t \in Tenants \cup {None}, s \in BOOLEAN :
       [by |-> t, seen |-> s, stale |-> FALSE, failed |-> FALSE] \in CacheRow
BY DEF NoData, CacheRow

\* What the tab fetches, or still has under way, is a request.
LEMMA FetchesAreRequests ==
  ASSUME TypeOK
  PROVE  /\ Fetch \in RequestRow /\ [Fetch EXCEPT !.tries = 1] \in RequestRow
         /\ \A keys : Invalidated(keys) \in RequestRow
         /\ \A s, c : \A q, f \in RequestRow : Mounted(s, c, q, f) \in RequestRow
         /\ \A keys : Outdated(keys) \in CacheRow
<1>1. /\ session \in Tenants \cup {None} /\ expired \in BOOLEAN
      /\ req["query"] \in RequestRow /\ cache \in CacheRow
  BY RowsAreTyped DEF Requests
<1>2. Fetch \in RequestRow
  <2>1. (session # None /\ ~expired) \in BOOLEAN /\ FALSE \in BOOLEAN /\ 0 \in 0 .. 1
    OBVIOUS
  <2> QED BY <1>1, <2>1, RequestRowMoves DEF Fetch
<1>3. [Fetch EXCEPT !.tries = 1] \in RequestRow
  BY <1>2, RequestRowMoves
<1>4. \A keys : Invalidated(keys) \in RequestRow
  BY <1>1, <1>2 DEF Invalidated
<1>5. \A s, c : \A q, f \in RequestRow : Mounted(s, c, q, f) \in RequestRow
  BY DEF Mounted
<1>6. \A keys : Outdated(keys) \in CacheRow
  BY <1>1, CacheRowMoves DEF Outdated
<1> QED BY <1>2, <1>3, <1>4, <1>5, <1>6

\* The calendar is a screen, and every visited screen is one.
LEMMA VisitedScreens == "calendar" \in Screens /\ Visited \subseteq Screens
<1>1. "calendar" \in Screens
  BY DEF Screens, Page
<1>2. \A m \in Operations : m.on \in Screens
  BY ConsoleAssumption
<1> QED BY <1>1, <1>2 DEF Visited

\* Every step leaves two requests.
LEMMA RequestsStayTyped ==
  ASSUME TypeOK, Next
  PROVE  req' \in [Requests -> RequestRow]
<1>1. /\ req \in [Requests -> RequestRow] /\ session \in Tenants \cup {None}
      /\ req["query"] \in RequestRow /\ req["operation"] \in RequestRow
      /\ Requests = {"query", "operation"}
  BY RowsAreTyped DEF Requests
<1>2. ASSUME NEW r \in Requests, NEW x \in RequestRow, req' = [req EXCEPT ![r] = x]
      PROVE  req' \in [Requests -> RequestRow]
  BY <1>1, <1>2
<1>3. ASSUME NEW x \in RequestRow, req' = [req EXCEPT !["query"] = x]
      PROVE  req' \in [Requests -> RequestRow]
  BY <1>1, <1>3
<1>4. ASSUME NEW t \in Tenants, NEW s, Enter(t, s) PROVE req' \in [Requests -> RequestRow]
  <2>1. Sent(t, TRUE, FALSE, 0) \in RequestRow
    BY RequestRowMoves
  <2>2. Mounted(s, cache, req["query"], Sent(t, TRUE, FALSE, 0)) \in RequestRow
    BY <1>1, <2>1, FetchesAreRequests
  <2>3. req' = [req EXCEPT !["query"] =
                  Mounted(s, cache, req["query"], Sent(t, TRUE, FALSE, 0))]
    BY <1>4 DEF Enter
  <2> QED BY <1>3, <2>2, <2>3
<1>5. ASSUME NEW s, req' = [req EXCEPT !["query"] = Mounted(s, cache, @, Fetch)]
      PROVE  req' \in [Requests -> RequestRow]
  <2>1. Mounted(s, cache, req["query"], Fetch) \in RequestRow
    BY <1>1, FetchesAreRequests
  <2>2. req' = [req EXCEPT !["query"] = Mounted(s, cache, req["query"], Fetch)]
    BY <1>5
  <2> QED BY <1>3, <2>1, <2>2
<1>6. ASSUME NEW r \in Requests, NEW p \in {"answered", "refused", "denied", "landed"},
             req' = [req EXCEPT ![r].phase = p]
      PROVE  req' \in [Requests -> RequestRow]
  <2>1. [req[r] EXCEPT !.phase = p] \in RequestRow
    BY <1>1, RequestRowMoves
  <2>2. req' = [req EXCEPT ![r] = [req[r] EXCEPT !.phase = p]]
    BY <1>6
  <2> QED BY <1>2, <2>1, <2>2
<1>7. ASSUME QueryFails PROVE req' \in [Requests -> RequestRow]
  <2>1. req' = [req EXCEPT !["query"] =
                  IF req["query"].tries = 0 THEN [Fetch EXCEPT !.tries = 1] ELSE Idle]
    BY <1>7 DEF QueryFails
  <2>2. (IF req["query"].tries = 0 THEN [Fetch EXCEPT !.tries = 1] ELSE Idle) \in RequestRow
    BY FetchesAreRequests, RequestRowMoves
  <2> QED BY <1>3, <2>1, <2>2
<1>8. ASSUME NEW r \in Requests, Refresh(r) PROVE req' \in [Requests -> RequestRow]
  <2>1. PICK t \in Tenants \cup {None} : req' = [req EXCEPT ![r].phase = "landed", ![r].as = t]
    <3>1. Lands \subseteq Tenants \cup {None}
      BY RowsAreTyped DEF Lands, TypeOK
    <3> QED BY <1>8, <3>1 DEF Refresh
  <2>2. [req[r] EXCEPT !.phase = "landed", !.as = t] \in RequestRow
    BY <1>1, RequestRowMoves
  <2>3. req' = [req EXCEPT ![r] = [req[r] EXCEPT !.phase = "landed", !.as = t]]
    BY <1>1, <2>1
  <2> QED BY <1>2, <2>2, <2>3
<1>9. ASSUME NEW r \in Requests, Resend(r) PROVE req' \in [Requests -> RequestRow]
  <2>1. req[r].as \in Tenants \cup {None} /\ req[r].tries \in 0 .. 1
    BY <1>1 DEF RequestRow
  <2>2. Sent(req[r].as, TRUE, TRUE, req[r].tries) \in RequestRow
    BY <2>1, RequestRowMoves
  <2>3. req' = [req EXCEPT ![r] = Sent(req[r].as, TRUE, TRUE, req[r].tries)]
    BY <1>9 DEF Resend
  <2> QED BY <1>2, <2>2, <2>3
<1>10. ASSUME NEW r \in Requests, SessionGone(r) PROVE req' \in [Requests -> RequestRow]
  <2>1. req' = [req EXCEPT ![r] = Idle] \/ req' = [q \in Requests |-> Idle]
    BY <1>10 DEF SessionGone
  <2> QED BY <1>1, <2>1, RequestRowMoves
<1>11. ASSUME NEW m, Click(m) PROVE req' \in [Requests -> RequestRow]
  <2>1. req' = [req EXCEPT !["operation"] = Fetch]
    BY <1>11 DEF Click
  <2> QED BY <1>1, <2>1, FetchesAreRequests
<1>12. ASSUME ServeOperation PROVE req' \in [Requests -> RequestRow]
  <2>1. CASE req' = [req EXCEPT !["operation"].phase = "denied"]
    BY <1>1, <1>6, <2>1
  <2>2. CASE \E p \in {"answered", "refused"}, s \in BOOLEAN :
               req' = [req EXCEPT !["operation"].phase = p, !["query"].seen = s]
    <3>1. PICK p \in {"answered", "refused"}, s \in BOOLEAN :
               req' = [req EXCEPT !["operation"].phase = p, !["query"].seen = s]
      BY <2>2
    <3>2. /\ [req["operation"] EXCEPT !.phase = p] \in RequestRow
          /\ [req["query"] EXCEPT !.seen = s] \in RequestRow
      BY <1>1, RequestRowMoves
    <3>3. req' = [[req EXCEPT !["operation"] = [req["operation"] EXCEPT !.phase = p]]
                       EXCEPT !["query"] = [req["query"] EXCEPT !.seen = s]]
      BY <1>1, <3>1
    <3> QED BY <1>1, <3>2, <3>3
  <2>3. req["query"].seen \in BOOLEAN
    BY <1>1 DEF RequestRow
  <2>4. \/ req' = [req EXCEPT !["operation"].phase = "denied"]
        \/ \E p \in {"answered", "refused"}, s \in BOOLEAN :
               req' = [req EXCEPT !["operation"].phase = p, !["query"].seen = s]
    <3>1. CASE ~req["operation"].valid
      BY <1>12, <3>1 DEF ServeOperation
    <3>2. CASE req["operation"].valid
      <4> DEFINE Behind(d) == IF watched \in op.touches THEN FALSE ELSE d
                 s == IF req["query"].phase = "answered" /\ req["query"].as = req["operation"].as
                        THEN Behind(req["query"].seen) ELSE req["query"].seen
      <4>1. s \in BOOLEAN
        BY <2>3
      <4>2. \E p \in {"answered", "refused"} :
              req' = [req EXCEPT !["operation"].phase = p, !["query"].seen = s]
        BY <1>1, <1>12, <3>2 DEF ServeOperation
      <4> HIDE DEF s
      <4> QED BY <4>1, <4>2
    <3> QED BY <3>1, <3>2
  <2> QED BY <2>1, <2>2, <2>4
<1>13. ASSUME NEW x \in RequestRow,
              req' = [req EXCEPT !["operation"] = Idle, !["query"] = x]
       PROVE  req' \in [Requests -> RequestRow]
  BY <1>1, <1>13, RequestRowMoves
<1>14. ASSUME OperationAnswered PROVE req' \in [Requests -> RequestRow]
  <2>1. PICK next, c : req' = [req EXCEPT !["operation"] = Idle,
                        !["query"] = Mounted(next, c, Invalidated(op.refetch), Fetch)]
    BY <1>14 DEF OperationAnswered
  <2>2. Mounted(next, c, Invalidated(op.refetch), Fetch) \in RequestRow
    BY FetchesAreRequests
  <2> QED BY <1>13, <2>1, <2>2
<1>15. ASSUME NEW keys, OperationEnds(keys) PROVE req' \in [Requests -> RequestRow]
  <2>1. Invalidated(keys) \in RequestRow
    BY FetchesAreRequests
  <2> QED BY <1>13, <1>15, <2>1 DEF OperationEnds
<1>16. ASSUME Switched PROVE req' \in [Requests -> RequestRow]
  <2>1. target \in Tenants \cup {None}
    BY RowsAreTyped
  <2>2. Sent(target, TRUE, FALSE, 0) \in RequestRow
    BY <2>1, RequestRowMoves
  <2>3. \E x \in RequestRow : req' = [req EXCEPT !["query"] = x]
    BY <1>16, <2>2, RequestRowMoves DEF Switched, ResetQueries
  <2> QED BY <1>3, <2>3
<1>17. ASSUME ServeQuery PROVE req' \in [Requests -> RequestRow]
  BY <1>1, <1>6, <1>17 DEF ServeQuery
<1>18. ASSUME Refetch \/ QueryAnswered PROVE req' \in [Requests -> RequestRow]
  BY <1>3, <1>18, FetchesAreRequests, RequestRowMoves DEF Refetch, QueryAnswered
<1>24. ASSUME TurnPage PROVE req' \in [Requests -> RequestRow]
  BY <1>3, <1>24, FetchesAreRequests DEF TurnPage
<1>25. ASSUME NEW r \in Requests, RefreshFails(r) PROVE req' \in [Requests -> RequestRow]
  <2>1. [req[r] EXCEPT !.phase = "landed", !.as = None] \in RequestRow
    BY <1>1, RequestRowMoves
  <2>2. req' = [req EXCEPT ![r] = [req[r] EXCEPT !.phase = "landed", !.as = None]]
    BY <1>1, <1>25 DEF RefreshFails
  <2> QED BY <1>2, <2>1, <2>2
<1>19. CASE req' = req
  BY <1>1, <1>19
<1>20. ASSUME SessionSteps PROVE req' \in [Requests -> RequestRow]
  BY <1>4, <1>5, <1>19, <1>20
     DEF SessionSteps, GuardPasses, GuardTurnsAway, GuardRefreshFails, LeaveErrorPage, Logout,
         TokenExpires, GuardRefreshes, Register, AcceptInvite, SeatLost, Login, OtherTab
<1>21. ASSUME QuerySteps PROVE req' \in [Requests -> RequestRow]
  BY <1>5, <1>7, <1>8, <1>9, <1>10, <1>17, <1>18, <1>19, <1>21, <1>24, <1>25
     DEF QuerySteps, Ages, Open
<1>22. ASSUME OperationSteps PROVE req' \in [Requests -> RequestRow]
  BY <1>11, <1>12, <1>14, <1>15, <1>22 DEF OperationSteps, OperationRefused, OperationFails
<1>23. ASSUME SwitchSteps PROVE req' \in [Requests -> RequestRow]
  BY <1>16, <1>19, <1>23 DEF SwitchSteps, SwitchTo, ServeSwitch, SwitchFails
<1> QED BY <1>20, <1>21, <1>22, <1>23 DEF Next

\* Every step keeps the types.
LEMMA StepsAreTyped ==
  ASSUME TypeOK, Next
  PROVE  TypeOK'
<1>1. /\ watched \in Watched /\ screen \in Screens \cup {"guard", "login", "crashed"}
      /\ session \in Tenants \cup {None} /\ expired \in BOOLEAN
      /\ cookie \in Tenants \cup {None} /\ seats \subseteq Tenants
      /\ cache \in CacheRow /\ kept \in Tenants \cup {None} /\ req \in [Requests -> RequestRow]
      /\ op \in Operations \cup {NoOperation}
      /\ target \in Tenants \cup {None} /\ switching \in {"idle", "sent", "answered", "void"}
      /\ events \in 0 .. MaxEvents /\ mixed \in BOOLEAN /\ owed \in BOOLEAN
  BY RowsAreTyped
<1>2. /\ req["query"].as \in Tenants \cup {None} /\ req["query"].seen \in BOOLEAN
      /\ req["operation"].as \in Tenants \cup {None}
      /\ \A r \in Requests : req[r].as \in Tenants \cup {None}
  BY <1>1 DEF Requests, RequestRow
<1>3. \A m \in Operations : m.on \in Screens /\ m.goes \in Screens
  BY ConsoleAssumption
<1>4. watched' \in Watched
  BY <1>1
     DEF Next, SessionSteps, QuerySteps, OperationSteps, SwitchSteps, GuardPasses,
         GuardRefreshes, GuardTurnsAway, GuardRefreshFails, LeaveErrorPage, Login, Register,
         AcceptInvite, Enter, Logout, TokenExpires, SeatLost, OtherTab, Open, TurnPage, Ages,
         Refetch, ServeQuery, QueryAnswered, QueryFails, Refresh, RefreshFails, Resend,
         SessionGone, Click, ServeOperation, OperationAnswered, OperationRefused, OperationFails,
         OperationEnds, SwitchTo, ServeSwitch, Switched, ResetQueries, SwitchFails, authVars,
         switchVars
<1>5. screen' \in Screens \cup {"guard", "login", "crashed"}
  <2>1. op.goes # op.on => op.goes \in Screens
    BY <1>1, <1>3 DEF NoOperation, Operation
  <2> HIDE DEF Operations
  <2> QED BY ZenonT(60), <1>1, <2>1, VisitedScreens
       DEF Next, SessionSteps, QuerySteps, OperationSteps, SwitchSteps, GuardPasses,
           GuardRefreshes, GuardTurnsAway, GuardRefreshFails, LeaveErrorPage, Login, Register,
           AcceptInvite, Enter, Logout, TokenExpires, SeatLost, OtherTab, Open, TurnPage, Ages,
           Refetch, ServeQuery, QueryAnswered, QueryFails, Refresh, RefreshFails, Resend,
           SessionGone, Click, ServeOperation, OperationAnswered, OperationRefused,
           OperationFails, OperationEnds, SwitchTo, ServeSwitch, Switched, ResetQueries,
           SwitchFails, authVars, switchVars
<1>6. session' \in Tenants \cup {None} /\ cookie' \in Tenants \cup {None}
  <2>1. \A t \in Lands : t \in Tenants
    BY <1>1 DEF Lands
  <2> QED BY ZenonT(60), <1>1, <1>2, <2>1
       DEF Next, SessionSteps, QuerySteps, OperationSteps, SwitchSteps, GuardPasses,
           GuardRefreshes, GuardTurnsAway, GuardRefreshFails, LeaveErrorPage, Login, Register,
           AcceptInvite, Enter, Logout, TokenExpires, SeatLost, OtherTab, Open, TurnPage, Ages,
           Refetch, ServeQuery, QueryAnswered, QueryFails, Refresh, RefreshFails, Resend,
           SessionGone, Click, ServeOperation, OperationAnswered, OperationRefused,
           OperationFails, OperationEnds, SwitchTo, ServeSwitch, Switched, ResetQueries,
           SwitchFails, authVars, switchVars
<1>7. expired' \in BOOLEAN /\ switching' \in {"idle", "sent", "answered", "void"}
  BY ZenonT(60), <1>1
     DEF Next, SessionSteps, QuerySteps, OperationSteps, SwitchSteps, GuardPasses,
         GuardRefreshes, GuardTurnsAway, GuardRefreshFails, LeaveErrorPage, Login, Register,
         AcceptInvite, Enter, Logout, TokenExpires, SeatLost, OtherTab, Open, TurnPage, Ages,
         Refetch, ServeQuery, QueryAnswered, QueryFails, Refresh, RefreshFails, Resend,
         SessionGone, Click, ServeOperation, OperationAnswered, OperationRefused, OperationFails,
         OperationEnds, SwitchTo, ServeSwitch, Switched, ResetQueries, SwitchFails, authVars,
         switchVars
<1>8. seats' \subseteq Tenants /\ target' \in Tenants \cup {None}
  BY <1>1
     DEF Next, SessionSteps, QuerySteps, OperationSteps, SwitchSteps, GuardPasses,
         GuardRefreshes, GuardTurnsAway, GuardRefreshFails, LeaveErrorPage, Login, Register,
         AcceptInvite, Enter, Logout, TokenExpires, SeatLost, OtherTab, Open, TurnPage, Ages,
         Refetch, ServeQuery, QueryAnswered, QueryFails, Refresh, RefreshFails, Resend,
         SessionGone, Click, ServeOperation, OperationAnswered, OperationRefused, OperationFails,
         OperationEnds, SwitchTo, ServeSwitch, Switched, ResetQueries, SwitchFails, authVars,
         switchVars
<1>9. op' \in Operations \cup {NoOperation}
  BY <1>1
     DEF Next, SessionSteps, QuerySteps, OperationSteps, SwitchSteps, GuardPasses,
         GuardRefreshes, GuardTurnsAway, GuardRefreshFails, LeaveErrorPage, Login, Register,
         AcceptInvite, Enter, Logout, TokenExpires, SeatLost, OtherTab, Open, TurnPage, Ages,
         Refetch, ServeQuery, QueryAnswered, QueryFails, Refresh, RefreshFails, Resend,
         SessionGone, Click, ServeOperation, OperationAnswered, OperationRefused, OperationFails,
         OperationEnds, SwitchTo, ServeSwitch, Switched, ResetQueries, SwitchFails, authVars,
         switchVars
<1>10. events' \in 0 .. MaxEvents
  <2>1. events' = events \/ (events < MaxEvents /\ events' = events + 1)
    BY DEF Next, SessionSteps, QuerySteps, OperationSteps, SwitchSteps, GuardPasses,
           GuardRefreshes, GuardTurnsAway, GuardRefreshFails, LeaveErrorPage, Login, Register,
           AcceptInvite, Enter, Logout, TokenExpires, SeatLost, OtherTab, Open, TurnPage, Ages,
           Refetch, ServeQuery, QueryAnswered, QueryFails, Refresh, RefreshFails, Resend,
           SessionGone, Click, ServeOperation, OperationAnswered, OperationRefused,
           OperationFails, OperationEnds, SwitchTo, ServeSwitch, Switched, ResetQueries,
           SwitchFails, authVars, switchVars, Event, ComesToNothing
  <2>2. MaxEvents \in Nat
    BY ConsoleAssumption
  <2> QED BY <1>1, <2>1, <2>2
<1>11. mixed' \in BOOLEAN /\ owed' \in BOOLEAN
  BY <1>1
     DEF Next, SessionSteps, QuerySteps, OperationSteps, SwitchSteps, GuardPasses,
         GuardRefreshes, GuardTurnsAway, GuardRefreshFails, LeaveErrorPage, Login, Register,
         AcceptInvite, Enter, Logout, TokenExpires, SeatLost, OtherTab, Open, TurnPage, Ages,
         Refetch, ServeQuery, QueryAnswered, QueryFails, Refresh, RefreshFails, Resend,
         SessionGone, Click, ServeOperation, OperationAnswered, OperationRefused, OperationFails,
         OperationEnds, SwitchTo, ServeSwitch, Switched, ResetQueries, SwitchFails, authVars,
         switchVars, Owes
<1>12. cache' \in CacheRow
  <2>1. cache.seen \in BOOLEAN
    BY <1>1 DEF CacheRow
  <2>2. CASE cache' = cache
    BY <1>1, <2>2
  <2>3. CASE cache' = NoData
    BY <2>3, CacheRowMoves
  <2>4. CASE \E s \in BOOLEAN : cache' = [cache EXCEPT !.seen = s]
    BY <1>1, <2>4, CacheRowMoves
  <2>5. CASE \/ cache' = [cache EXCEPT !.stale = TRUE]
             \/ cache' = [cache EXCEPT !.failed = TRUE]
             \/ cache' = [cache EXCEPT !.failed = TRUE, !.stale = TRUE]
    <3>1. TRUE \in BOOLEAN
      OBVIOUS
    <3> QED BY <1>1, <2>5, <3>1, CacheRowMoves
  <2>6. CASE \E t \in Tenants \cup {None}, s \in BOOLEAN :
               cache' = [by |-> t, seen |-> s, stale |-> FALSE, failed |-> FALSE]
    BY <2>6, CacheRowMoves
  <2>7. CASE \E keys : cache' = Outdated(keys)
    BY <2>7, FetchesAreRequests
  <2>8. ASSUME ServeOperation PROVE \/ cache' = cache
                                    \/ \E s \in BOOLEAN : cache' = [cache EXCEPT !.seen = s]
    <3>1. CASE ~req["operation"].valid
      BY <2>8, <3>1 DEF ServeOperation
    <3>2. CASE req["operation"].valid
      <4> DEFINE Behind(d) == IF watched \in op.touches THEN FALSE ELSE d
                 s == IF cache.by = req["operation"].as THEN Behind(cache.seen) ELSE cache.seen
      <4>1. s \in BOOLEAN
        BY <2>1
      <4>2. cache' = [cache EXCEPT !.seen = s]
        BY <1>1, <2>8, <3>2 DEF ServeOperation, CacheRow
      <4> HIDE DEF s
      <4> QED BY <4>1, <4>2
    <3> QED BY <3>1, <3>2
  <2>9. ASSUME OperationAnswered
        PROVE  \/ \E t \in Tenants \cup {None}, s \in BOOLEAN :
                     cache' = [by |-> t, seen |-> s, stale |-> FALSE, failed |-> FALSE]
               \/ \E keys : cache' = Outdated(keys)
    BY <1>2, <2>9 DEF OperationAnswered
  <2>10. OperationRefused \/ OperationFails => \E keys : cache' = Outdated(keys)
    BY DEF OperationRefused, OperationFails, OperationEnds
  <2>11. \/ cache' = cache \/ cache' = NoData
         \/ cache' = [cache EXCEPT !.stale = TRUE]
         \/ cache' = [cache EXCEPT !.failed = TRUE]
         \/ cache' = [cache EXCEPT !.failed = TRUE, !.stale = TRUE]
         \/ \E t \in Tenants \cup {None}, s \in BOOLEAN :
               cache' = [by |-> t, seen |-> s, stale |-> FALSE, failed |-> FALSE]
         \/ ServeOperation \/ OperationAnswered \/ OperationRefused \/ OperationFails
    BY <1>2
       DEF Next, SessionSteps, QuerySteps, OperationSteps, SwitchSteps, GuardPasses,
           GuardRefreshes, GuardTurnsAway, GuardRefreshFails, LeaveErrorPage, Login, Register,
           AcceptInvite, Enter, Logout, TokenExpires, SeatLost, OtherTab, Open, TurnPage, Ages,
           Refetch, ServeQuery, QueryAnswered, QueryFails, Refresh, RefreshFails, Resend,
           SessionGone, Click, SwitchTo, ServeSwitch, Switched, ResetQueries, SwitchFails,
           authVars, switchVars
  <2> QED BY <2>2, <2>3, <2>4, <2>5, <2>6, <2>7, <2>8, <2>9, <2>10, <2>11
<1>13. kept' \in Tenants \cup {None}
  <2>1. cache.by \in Tenants \cup {None}
    BY <1>1 DEF CacheRow
  <2>2. kept' \in {kept, None, cache.by}
    BY DEF Next, SessionSteps, QuerySteps, OperationSteps, SwitchSteps, GuardPasses,
           GuardRefreshes, GuardTurnsAway, GuardRefreshFails, LeaveErrorPage, Login, Register,
           AcceptInvite, Enter, Logout, TokenExpires, SeatLost, OtherTab, Open, TurnPage, Ages,
           Refetch, ServeQuery, QueryAnswered, QueryFails, Refresh, RefreshFails, Resend,
           SessionGone, Click, ServeOperation, OperationAnswered, OperationRefused,
           OperationFails, OperationEnds, SwitchTo, ServeSwitch, Switched, SwitchFails
  <2> QED BY <1>1, <2>1, <2>2
<1> QED BY <1>4, <1>5, <1>6, <1>7, <1>8, <1>9, <1>10, <1>11, <1>12, <1>13, RequestsStayTyped
        DEF TypeOK, RequestRow, CacheRow

-----------------------------------------------------------------------------
(* The parts of the invariant.                                              *)

\* The rows that a request is about to bring.
Coming(q) == q.phase \in {"sent", "answered"}

\* A fetch that starts is the session's; one that goes on keeps its token.
LEMMA FetchesAreOfTheSession ==
  ASSUME TypeOK, Next, Coming(req'["query"])
  PROVE  \/ req'["query"].as = session'
         \/ Coming(req["query"]) /\ req'["query"].as = req["query"].as
<1> DEFINE Q == req["query"]
           Goal == \/ req'["query"].as = session'
                   \/ Coming(req["query"]) /\ req'["query"].as = req["query"].as
<1>1. /\ req \in [Requests -> RequestRow] /\ "query" \in Requests /\ "operation" \in Requests
      /\ \A r \in Requests : r = "query" \/ r = "operation"
      /\ req["query"] \in RequestRow
  BY RowsAreTyped DEF Requests
<1>2. CASE req'["query"] = req["query"]
  BY <1>2
<1>3. CASE req'["query"] = Idle
  BY <1>3 DEF Coming, Idle
<1>4. CASE req'["query"] = Fetch /\ session' = session
  BY <1>4 DEF Fetch, Sent
<1>5. ASSUME NEW s, NEW c, req' = [req EXCEPT !["query"] = Mounted(s, c, @, Fetch)],
             session' = session
      PROVE  Goal
  <2>1. req'["query"] = Fetch \/ req'["query"] = req["query"]
    BY <1>1, <1>5 DEF Mounted
  <2> QED BY <1>2, <1>4, <1>5, <2>1
<1>6. ASSUME NEW t \in Tenants, NEW s, Enter(t, s) PROVE Goal
  <2>1. \/ req'["query"] = Sent(t, TRUE, FALSE, 0)
        \/ req'["query"] = req["query"]
    BY <1>1, <1>6 DEF Enter, Mounted
  <2>2. session' = t
    BY <1>6 DEF Enter
  <2> QED BY <1>2, <2>1, <2>2 DEF Sent
<1>7. ASSUME SessionSteps PROVE Goal
  BY <1>2, <1>5, <1>6, <1>7
     DEF SessionSteps, GuardPasses, GuardTurnsAway, GuardRefreshFails, LeaveErrorPage, Logout,
         TokenExpires, GuardRefreshes, Register, AcceptInvite, SeatLost, Login, OtherTab,
         authVars
<1>8. ASSUME ServeQuery PROVE Goal
  <2>1. /\ Coming(req["query"])
        /\ \E p : req' = [req EXCEPT !["query"].phase = p]
    BY <1>8 DEF ServeQuery, Coming
  <2>2. req'["query"].as = req["query"].as
    BY <1>1, <2>1 DEF RequestRow
  <2> QED BY <2>1, <2>2
<1>9. ASSUME QueryFails PROVE Goal
  <2>1. req'["query"] = [Fetch EXCEPT !.tries = 1] \/ req'["query"] = Idle
    BY <1>1, <1>9 DEF QueryFails
  <2>2. [Fetch EXCEPT !.tries = 1].as = session /\ session' = session
    BY <1>9 DEF Fetch, Sent, QueryFails, authVars
  <2> QED BY <1>3, <2>1, <2>2
<1>10. ASSUME NEW r \in Requests, Refresh(r) PROVE Goal
  <2>1. PICK t : req' = [req EXCEPT ![r].phase = "landed", ![r].as = t]
    BY <1>10 DEF Refresh
  <2>2. CASE r = "query"
    <3>1. req'["query"].phase = "landed"
      BY <1>1, <2>1, <2>2 DEF RequestRow
    <3> QED BY <3>1 DEF Coming
  <2>3. CASE r # "query"
    BY <1>1, <1>2, <2>1, <2>3
  <2> QED BY <2>2, <2>3
<1>11. ASSUME NEW r \in Requests, Resend(r) PROVE Goal
  <2>1. req' = [req EXCEPT ![r] = Sent(req[r].as, TRUE, TRUE, req[r].tries)]
        /\ session' = req[r].as
    BY <1>11 DEF Resend
  <2>2. CASE r = "query"
    <3>1. req'["query"].as = session'
      BY <1>1, <2>1, <2>2 DEF Sent
    <3> QED BY <3>1
  <2>3. CASE r # "query"
    BY <1>1, <1>2, <2>1, <2>3
  <2> QED BY <2>2, <2>3
<1>12. ASSUME NEW r \in Requests, SessionGone(r) PROVE Goal
  <2>1. req'["query"] = Idle \/ req'["query"] = req["query"]
    BY <1>1, <1>12 DEF SessionGone
  <2> QED BY <1>2, <1>3, <2>1
<1>20. ASSUME NEW r \in Requests, RefreshFails(r) PROVE Goal
  <2>1. req' = [req EXCEPT ![r].phase = "landed", ![r].as = None]
    BY <1>20 DEF RefreshFails
  <2>2. CASE r = "query"
    <3>1. req'["query"].phase = "landed"
      BY <1>1, <2>1, <2>2 DEF RequestRow
    <3> QED BY <3>1 DEF Coming
  <2>3. CASE r # "query"
    BY <1>1, <1>2, <2>1, <2>3
  <2> QED BY <2>2, <2>3
<1>13. ASSUME QuerySteps PROVE Goal
  <2>1. Refetch => req'["query"] = Fetch /\ session' = session
    BY <1>1 DEF Refetch, authVars
  <2>2. QueryAnswered => req'["query"] = Idle
    BY <1>1 DEF QueryAnswered
  <2>3. TurnPage => req'["query"] = Fetch /\ session' = session
    BY <1>1 DEF TurnPage, authVars
  <2> QED BY <1>2, <1>3, <1>4, <1>5, <1>8, <1>9, <1>10, <1>11, <1>12, <1>13, <1>20, <2>1, <2>2,
             <2>3
          DEF QuerySteps, Ages, Open, authVars
<1>14. ASSUME NEW keys PROVE Invalidated(keys) \in {Fetch, Q}
  BY DEF Invalidated
<1>15. ASSUME OperationAnswered PROVE Goal
  <2>1. PICK s, c : req' = [req EXCEPT !["operation"] = Idle,
                        !["query"] = Mounted(s, c, Invalidated(op.refetch), Fetch)]
    BY <1>15 DEF OperationAnswered
  <2>2. req'["query"] = Mounted(s, c, Invalidated(op.refetch), Fetch)
    BY <1>1, <2>1
  <2>3. req'["query"] \in {Fetch, Q} /\ session' = session
    BY <1>14, <1>15, <2>2 DEF Mounted, OperationAnswered, authVars
  <2> QED BY <1>2, <1>4, <2>3
<1>16. ASSUME NEW keys, OperationEnds(keys) PROVE Goal
  <2>1. req'["query"] = Invalidated(keys) /\ session' = session
    BY <1>1, <1>16 DEF OperationEnds, authVars
  <2> QED BY <1>2, <1>4, <1>14, <2>1
<1>17. ASSUME ServeOperation PROVE Goal
  <2>1. /\ req'["query"].phase = req["query"].phase
        /\ req'["query"].as = req["query"].as
    <3>1. CASE ~req["operation"].valid
      BY <1>1, <1>17, <3>1 DEF ServeOperation
    <3>2. CASE req["operation"].valid
      <4> DEFINE Behind(d) == IF watched \in op.touches THEN FALSE ELSE d
                 s == IF req["query"].phase = "answered" /\ req["query"].as = req["operation"].as
                        THEN Behind(req["query"].seen) ELSE req["query"].seen
      <4>1. PICK p : req' = [req EXCEPT !["operation"].phase = p, !["query"].seen = s]
        BY <1>1, <1>17, <3>2 DEF ServeOperation
      <4> HIDE DEF s
      <4> QED BY <1>1, <4>1 DEF RequestRow
    <3> QED BY <3>1, <3>2
  <2> QED BY <2>1 DEF Coming
<1>18. ASSUME OperationSteps PROVE Goal
  <2>1. ASSUME NEW m, Click(m) PROVE Goal
    BY <1>1, <1>2, <2>1 DEF Click
  <2> QED BY <1>15, <1>16, <1>17, <1>18, <2>1 DEF OperationSteps, OperationRefused, OperationFails
<1>19. ASSUME SwitchSteps PROVE Goal
  <2>1. ASSUME Switched PROVE Goal
    <3>1. session' = target
          /\ req'["query"] = IF OnScreen THEN Sent(target, TRUE, FALSE, 0) ELSE Idle
      BY <1>1, <2>1 DEF Switched, ResetQueries
    <3>2. CASE OnScreen
      BY <3>1, <3>2 DEF Sent
    <3>3. CASE ~OnScreen
      BY <1>3, <3>1, <3>3
    <3> QED BY <3>2, <3>3
  <2> QED BY <1>2, <1>19, <2>1 DEF SwitchSteps, SwitchTo, ServeSwitch, SwitchFails
<1> QED BY <1>7, <1>13, <1>18, <1>19 DEF Next

\* The rows in the cache are those that a fetch has brought or that the answer of an
\* operation has painted.
LEMMA RowsComeByAnswers ==
  ASSUME TypeOK, Next
  PROVE  \/ cache'.by \in {None, cache.by}
         \/ /\ Coming(req["query"]) /\ cache'.by = req["query"].as
            /\ UNCHANGED <<session, mixed>>
         \/ /\ cache'.by = session \/ mixed'
            /\ session' = session /\ (mixed => mixed')
<1>1. cache \in CacheRow
  BY RowsAreTyped
<1>2. CASE \/ cache' = cache \/ cache' = NoData
           \/ \E x : cache' = [cache EXCEPT !.stale = x]
           \/ \E x : cache' = [cache EXCEPT !.failed = x]
           \/ \E x : cache' = [cache EXCEPT !.seen = x]
           \/ \E x, y : cache' = [cache EXCEPT !.failed = x, !.stale = y]
  <2>1. CASE cache' = NoData
    BY <2>1 DEF NoData
  <2>2. CASE cache' # NoData
    <3>1. cache'.by = cache.by
      BY <1>1, <1>2, <2>2 DEF CacheRow
    <3> QED BY <3>1
  <2> QED BY <2>1, <2>2
<1>3. CASE QueryAnswered
  <2>1. Coming(req["query"])
    BY <1>3 DEF QueryAnswered, Coming
  <2> QED BY <1>3, <2>1 DEF QueryAnswered, authVars
<1>4. CASE OperationAnswered
  <2>1. CASE watched \in op.paints
    <3>1. cache'.by = req["operation"].as
      BY <1>4, <2>1 DEF OperationAnswered
    <3>2. mixed' = (mixed \/ req["operation"].as # session) /\ session' = session
      BY <1>4, <2>1 DEF OperationAnswered, authVars
    <3> QED BY <3>1, <3>2
  <2>2. CASE watched \notin op.paints
    BY <1>2, <1>4, <2>2 DEF OperationAnswered, Outdated
  <2> QED BY <2>1, <2>2
<1>5. \/ cache' = cache \/ cache' = NoData
      \/ \E x : cache' = [cache EXCEPT !.stale = x]
      \/ \E x : cache' = [cache EXCEPT !.failed = x]
      \/ \E x : cache' = [cache EXCEPT !.seen = x]
      \/ \E x, y : cache' = [cache EXCEPT !.failed = x, !.stale = y]
      \/ QueryAnswered \/ OperationAnswered
  BY DEF Next, SessionSteps, QuerySteps, OperationSteps, SwitchSteps, GuardPasses,
         GuardRefreshes, GuardTurnsAway, GuardRefreshFails, LeaveErrorPage, Login, Register,
         AcceptInvite, Enter, Logout, TokenExpires, SeatLost, OtherTab, Open, TurnPage, Ages,
         Refetch, ServeQuery, QueryFails, Refresh, RefreshFails, Resend, SessionGone, Click,
         ServeOperation, OperationRefused, OperationFails, OperationEnds, SwitchTo, ServeSwitch,
         Switched, ResetQueries, SwitchFails, authVars, switchVars, Outdated
<1> QED BY <1>2, <1>3, <1>4, <1>5

\* The session changes unmixed only by a sign-in that finds nothing of another tenant's,
\* or by the switcher, which leaves none.
LEMMA SessionsChangeCleanly ==
  ASSUME TypeOK, Next, session' # None, ~mixed'
  PROVE  \/ session' = session /\ ~mixed
         \/ /\ cache' = cache /\ cache.by \in {None, session'}
            /\ Coming(req["query"]) => req["query"].as = session'
         \/ /\ cache'.by = None
            /\ Coming(req'["query"]) => req'["query"].as = session'
<1>1. req \in [Requests -> RequestRow] /\ "query" \in Requests
  BY RowsAreTyped DEF Requests
<1>2. ASSUME NEW t \in Tenants, NEW s, Enter(t, s)
      PROVE  /\ cache' = cache /\ cache.by \in {None, session'}
             /\ Coming(req["query"]) => req["query"].as = session'
  BY <1>2 DEF Enter, Coming
<1>3. CASE Switched
  <2>1. req'["query"] = IF OnScreen THEN Sent(target, TRUE, FALSE, 0) ELSE Idle
    BY <1>1, <1>3 DEF Switched, ResetQueries
  <2>2. session' = target /\ cache' = NoData
    BY <1>3 DEF Switched, ResetQueries
  <2>3. CASE OnScreen
    BY <2>1, <2>2, <2>3 DEF NoData, Sent
  <2>4. CASE ~OnScreen
    BY <2>1, <2>2, <2>4 DEF NoData, Idle, Coming
  <2> QED BY <2>3, <2>4
<1>4. \/ session' = session /\ (mixed => mixed')
      \/ session' = None
      \/ \E t \in Tenants : \E s : Enter(t, s)
      \/ Switched
      \/ mixed'
  <2>1. \A r : Resend(r) => mixed' \/ (session' = session /\ (mixed => mixed'))
    BY DEF Resend
  <2>2. OperationAnswered => session' = session /\ (mixed => mixed')
    BY DEF OperationAnswered, authVars
  <2> QED BY <2>1, <2>2
       DEF Next, SessionSteps, QuerySteps, OperationSteps, SwitchSteps, GuardPasses,
           GuardRefreshes, GuardTurnsAway, GuardRefreshFails, LeaveErrorPage, Login, Register,
           AcceptInvite, Logout, TokenExpires, SeatLost, OtherTab, Open, TurnPage, Ages, Refetch,
           ServeQuery, QueryAnswered, QueryFails, Refresh, RefreshFails, SessionGone, Click,
           ServeOperation, OperationRefused, OperationFails, OperationEnds, SwitchTo,
           ServeSwitch, ResetQueries, SwitchFails, authVars, switchVars
<1> QED BY <1>2, <1>3, <1>4

LEMMA TabStaysOfOneWorkspace ==
  ASSUME ConsoleProtocol, Next
  PROVE  TabIsOfOneWorkspace'
<1> SUFFICES ASSUME session' # None, ~mixed'
             PROVE  /\ cache'.by \in {None, session'}
                    /\ Coming(req'["query"]) => req'["query"].as = session'
  BY DEF TabIsOfOneWorkspace, Coming
<1>1. TypeOK
  BY DEF ConsoleProtocol
<1>2. session # None /\ ~mixed => /\ cache.by \in {None, session}
                                  /\ Coming(req["query"]) => req["query"].as = session
  BY DEF ConsoleProtocol, TabIsOfOneWorkspace, Coming
<1> QED BY <1>1, <1>2, FetchesAreOfTheSession, RowsComeByAnswers, SessionsChangeCleanly

\* The answer of an operation leaves its screen with the fetch of what it owes.
LEMMA AnswersFetchWhatTheyOwe ==
  ASSUME ConsoleProtocol, owed',
         OperationAnswered \/ OperationRefused \/ OperationFails
  PROVE  OwedIsOnItsWay'
<1>1. /\ req \in [Requests -> RequestRow] /\ "query" \in Requests /\ "operation" \in Requests
      /\ op \in Operations \cup {NoOperation}
  BY RowsAreTyped DEF Requests, ConsoleProtocol
<1>2. Fetch.phase = "sent" /\ Fetch.seen
  BY DEF Fetch, Sent
<1>3. ASSUME NEW keys, Owes(keys), op # NoOperation
      PROVE  screen \in Screens /\ OnScreen /\ cache.by # None /\ watched \in keys
             /\ op \in Operations /\ screen = op.on /\ watched \in Page[op.on]
  <2>1. screen \in Screens /\ watched \in Page[screen] /\ cache.by # None /\ watched \in keys
    BY <1>1, <1>3, ConsoleAssumption DEF Owes
  <2> QED BY <1>1, <1>3, <2>1 DEF OnScreen, Reads, Owes
<1>4. ASSUME NEW keys, keys \subseteq op.refused, OperationEnds(keys), op # NoOperation
      PROVE  OwedIsOnItsWay'
  <2>1. screen \in Screens /\ OnScreen /\ cache.by # None /\ watched \in keys
    BY <1>3, <1>4 DEF OperationEnds
  <2>2. req' = [req EXCEPT !["operation"] = Idle, !["query"] = Invalidated(keys)]
        /\ screen' = screen /\ watched' = watched
    BY <1>4 DEF OperationEnds
  <2>3. req'["query"] = Fetch
    BY <1>1, <2>1, <2>2 DEF Invalidated
  <2>4. OnScreen'
    BY <2>1, <2>2 DEF OnScreen
  <2>5. watched \in SaysItFailed(screen)
    <3>1. op \in Operations /\ screen = op.on /\ watched \in Page[op.on]
      BY <1>3, <1>4 DEF OperationEnds
    <3> QED BY <1>4, <2>1, <3>1, OwedKeysSayTheyFailed
  <2> QED BY <1>2, <2>1, <2>2, <2>3, <2>4, <2>5 DEF OwedIsOnItsWay, SaysItFailed
<1>5. ASSUME OperationAnswered, op # NoOperation PROVE OwedIsOnItsWay'
  <2>1. /\ Owes(op.touches \ op.paints) /\ op \in Operations
        /\ screen' = IF op.goes # op.on /\ screen \in Screens THEN op.goes ELSE screen
        /\ screen' = screen /\ watched' = watched
        /\ \E c : req' = [req EXCEPT !["operation"] = Idle,
                             !["query"] = Mounted(screen', c, Invalidated(op.refetch), Fetch)]
    BY <1>1, <1>5 DEF OperationAnswered
  <2>2. /\ screen \in Screens /\ OnScreen /\ cache.by # None /\ screen = op.on
        /\ watched \in op.touches \ op.paints /\ watched \in Page[op.on]
    BY <1>3, <1>5, <2>1 DEF Owes
  <2>3. op.goes = op.on
    BY <2>1, <2>2
  <2>4. watched \in op.refetch
    BY <2>1, <2>2, <2>3, OperationsCoverTheirPage
  <2>5. Invalidated(op.refetch) = Fetch
    BY <2>2, <2>4 DEF Invalidated
  <2>6. req'["query"] = Fetch
    BY <1>1, <1>2, <2>1, <2>5 DEF Mounted
  <2>7. OnScreen'
    BY <2>1, <2>2 DEF OnScreen
  <2>8. watched \in SaysItFailed(screen)
    BY <2>1, <2>2, OwedKeysSayTheyFailed
  <2> QED BY <1>2, <2>1, <2>2, <2>6, <2>7, <2>8 DEF OwedIsOnItsWay, SaysItFailed
<1>6. OperationRefused \/ OperationFails => \E keys \in {op.refused, {}} : OperationEnds(keys)
  BY DEF OperationRefused, OperationFails, OnSettled
<1>7. op # NoOperation
  <2>1. \E keys \in {op.touches \ op.paints, op.refused, {}} : watched \in keys
    BY <1>6 DEF OperationAnswered, OperationEnds, Owes
  <2> QED BY <2>1 DEF NoOperation, Operation
<1>8. \A keys \in {op.refused, {}} : keys \subseteq op.refused
  OBVIOUS
<1> QED BY <1>4, <1>5, <1>6, <1>7, <1>8

\* Until the screen shows it, what is owed stays in the fetch under way or in the rows.
LEMMA OwedStaysOnItsWay ==
  ASSUME ConsoleProtocol, Next
  PROVE  OwedIsOnItsWay'
<1> SUFFICES ASSUME owed' PROVE OwedIsOnItsWay'
  BY DEF OwedIsOnItsWay
<1>1. /\ req \in [Requests -> RequestRow] /\ "query" \in Requests /\ cache \in CacheRow
      /\ req["query"] \in RequestRow
  BY RowsAreTyped DEF Requests, ConsoleProtocol
<1>2. owed => /\ screen \in Screens /\ OnScreen /\ watched \in SaysItFailed(screen)
              /\ req["query"].phase # "idle" => req["query"].seen
              /\ req["query"].phase = "idle" => cache.seen \/ cache.failed
  BY DEF ConsoleProtocol, OwedIsOnItsWay
<1>3. "guard" \notin Screens /\ "login" \notin Screens /\ "crashed" \notin Screens
  BY DEF Screens, Page
<1>4. CASE OperationAnswered \/ OperationRefused \/ OperationFails
  BY <1>4, AnswersFetchWhatTheyOwe
<1>5. ASSUME owed, screen' = screen,
             /\ req'["query"].phase # "idle" => req'["query"].seen
             /\ req'["query"].phase = "idle" => cache'.seen \/ cache'.failed
      PROVE  OwedIsOnItsWay'
  <2>1. watched' = watched
    BY DEF Next, SessionSteps, QuerySteps, OperationSteps, SwitchSteps, GuardPasses,
           GuardRefreshes, GuardTurnsAway, GuardRefreshFails, LeaveErrorPage, Login, Register,
           AcceptInvite, Enter, Logout, TokenExpires, SeatLost, OtherTab, Open, TurnPage, Ages,
           Refetch, ServeQuery, QueryAnswered, QueryFails, Refresh, RefreshFails, Resend,
           SessionGone, Click, ServeOperation, OperationAnswered, OperationRefused,
           OperationFails, OperationEnds, SwitchTo, ServeSwitch, Switched, ResetQueries,
           SwitchFails, authVars, switchVars
  <2>2. OnScreen'
    BY <1>2, <1>5, <2>1 DEF OnScreen
  <2> QED BY <1>2, <1>5, <2>1, <2>2 DEF OwedIsOnItsWay, SaysItFailed
<1>6. ASSUME UNCHANGED <<owed, screen, cache>>, req'["query"] = req["query"]
      PROVE  OwedIsOnItsWay'
  BY <1>2, <1>5, <1>6
<1>7. CASE SessionSteps
  BY <1>2, <1>3, <1>6, <1>7
     DEF SessionSteps, GuardPasses, GuardTurnsAway, GuardRefreshFails, LeaveErrorPage, Logout,
         TokenExpires, GuardRefreshes, Register, AcceptInvite, SeatLost, Login, OtherTab, Enter
<1>8. CASE SwitchSteps
  BY <1>6, <1>8 DEF SwitchSteps, SwitchTo, ServeSwitch, Switched, SwitchFails
<1>9. ASSUME NEW m, Click(m) PROVE OwedIsOnItsWay'
  <2>1. req'["query"] = req["query"]
    BY <1>1, <1>9 DEF Click
  <2> QED BY <1>6, <1>9, <2>1 DEF Click
<1>10. CASE ServeOperation
  <2>1. ~req["operation"].valid
    BY <1>10 DEF ServeOperation
  <2>2. req'["query"] = req["query"]
    BY <1>1, <1>10, <2>1 DEF ServeOperation
  <2> QED BY <1>6, <1>10, <2>1, <2>2 DEF ServeOperation
<1>11. CASE Ages
  <2>1. cache'.seen = cache.seen /\ cache'.failed = cache.failed
    BY <1>1, <1>11 DEF Ages, CacheRow
  <2> QED BY <1>2, <1>5, <1>11, <2>1 DEF Ages
<1>12. Fetch.phase = "sent" /\ Fetch.seen /\ Fetch \in RequestRow
  BY FetchesAreRequests DEF Fetch, Sent, ConsoleProtocol
<1>13. CASE Refetch
  <2>1. req'["query"] = Fetch
    BY <1>1, <1>13 DEF Refetch
  <2> QED BY <1>5, <1>12, <1>13, <2>1 DEF Refetch
<1>14. ASSUME NEW s, Open(s) PROVE OwedIsOnItsWay'
  BY <1>14 DEF Open
<1>15. CASE ServeQuery
  <2>1. req'["query"].seen = req["query"].seen /\ req["query"].phase # "idle"
        /\ req'["query"].phase # "idle"
    BY <1>1, <1>15 DEF ServeQuery, RequestRow
  <2> QED BY <1>2, <1>5, <1>15, <2>1 DEF ServeQuery
<1>16. CASE QueryAnswered
  <2>1. cache'.seen = req["query"].seen /\ req["query"].phase # "idle"
        /\ req'["query"].phase = "idle"
    BY <1>1, <1>16 DEF QueryAnswered, Idle
  <2> QED BY <1>2, <1>5, <1>16, <2>1 DEF QueryAnswered
<1>17. CASE QueryFails
  <2>1. CASE req["query"].tries = 0
    <3>1. req'["query"] = [Fetch EXCEPT !.tries = 1]
      BY <1>1, <1>17, <2>1 DEF QueryFails
    <3>2. req'["query"].phase = "sent" /\ req'["query"].seen
      BY <1>12, <3>1 DEF RequestRow
    <3> QED BY <1>5, <1>17, <3>2 DEF QueryFails
  <2>2. CASE req["query"].tries # 0
    <3>1. req'["query"] = Idle /\ cache' = [cache EXCEPT !.failed = TRUE, !.stale = TRUE]
      BY <1>1, <1>17, <2>2 DEF QueryFails
    <3>2. req'["query"].phase = "idle" /\ cache'.failed
      BY <1>1, <3>1 DEF Idle, CacheRow
    <3> QED BY <1>5, <1>17, <3>2 DEF QueryFails
  <2> QED BY <2>1, <2>2
<1>18. ASSUME NEW r \in Requests, Refresh(r) PROVE OwedIsOnItsWay'
  <2>1. CASE r = "query"
    <3>1. PICK t : req' = [req EXCEPT ![r].phase = "landed", ![r].as = t]
      BY <1>18 DEF Refresh
    <3>2. req'["query"].seen = req["query"].seen /\ req'["query"].phase = "landed"
      BY <1>1, <2>1, <3>1 DEF RequestRow
    <3>3. req["query"].phase # "idle"
      BY <1>18, <2>1 DEF Refresh
    <3> QED BY <1>2, <1>5, <1>18, <3>2, <3>3 DEF Refresh
  <2>2. CASE r # "query"
    <3>1. req'["query"] = req["query"]
      BY <1>1, <1>18, <2>2 DEF Refresh
    <3> QED BY <1>6, <1>18, <3>1 DEF Refresh
  <2> QED BY <2>1, <2>2
<1>19. ASSUME NEW r \in Requests, Resend(r) PROVE OwedIsOnItsWay'
  <2>1. CASE r = "query"
    <3>1. req'["query"] = Sent(req[r].as, TRUE, TRUE, req[r].tries)
      BY <1>1, <1>19, <2>1 DEF Resend
    <3>2. req'["query"].seen /\ req'["query"].phase = "sent"
      BY <3>1 DEF Sent
    <3> QED BY <1>5, <1>19, <3>2 DEF Resend
  <2>2. CASE r # "query"
    <3>1. req'["query"] = req["query"]
      BY <1>1, <1>19, <2>2 DEF Resend
    <3> QED BY <1>6, <1>19, <3>1 DEF Resend
  <2> QED BY <2>1, <2>2
<1>20. ASSUME NEW r \in Requests, SessionGone(r) PROVE OwedIsOnItsWay'
  BY <1>2, <1>20 DEF SessionGone
<1>23. ASSUME TurnPage PROVE OwedIsOnItsWay'
  BY <1>23 DEF TurnPage
<1>24. ASSUME NEW r \in Requests, RefreshFails(r) PROVE OwedIsOnItsWay'
  <2>1. req' = [req EXCEPT ![r].phase = "landed", ![r].as = None]
    BY <1>24 DEF RefreshFails
  <2>2. CASE r = "query"
    <3>1. req'["query"].seen = req["query"].seen /\ req'["query"].phase = "landed"
      BY <1>1, <2>1, <2>2 DEF RequestRow
    <3>2. req["query"].phase # "idle"
      BY <1>24, <2>2 DEF RefreshFails
    <3> QED BY <1>2, <1>5, <1>24, <3>1, <3>2 DEF RefreshFails
  <2>3. CASE r # "query"
    <3>1. req'["query"] = req["query"]
      BY <1>1, <2>1, <2>3
    <3> QED BY <1>6, <1>24, <3>1 DEF RefreshFails
  <2> QED BY <2>2, <2>3
<1>21. CASE QuerySteps
  BY <1>11, <1>13, <1>14, <1>15, <1>16, <1>17, <1>18, <1>19, <1>20, <1>21, <1>23, <1>24
     DEF QuerySteps
<1>22. CASE OperationSteps
  BY <1>4, <1>9, <1>10, <1>22 DEF OperationSteps
<1> QED BY <1>7, <1>8, <1>21, <1>22 DEF Next

-----------------------------------------------------------------------------
(* The theorems.                                                            *)

\* Nothing of this depends on the query key that is followed, on how many workspaces
\* there are or on how often the session changes.
THEOREM ConsoleProtocolKept == Spec => []ConsoleProtocol
<1>1. Init => ConsoleProtocol
  <2> SUFFICES ASSUME Init PROVE ConsoleProtocol
    OBVIOUS
  <2>1. cookie \in Tenants
    BY ConsoleAssumption DEF Init
  <2>2. events \in 0 .. MaxEvents
    BY ConsoleAssumption DEF Init
  <2>3. req \in [Requests -> RequestRow] /\ cache \in CacheRow
    BY RequestRowMoves, CacheRowMoves DEF Init
  <2>4. TypeOK
    <3>1. /\ watched \in Watched /\ screen = "guard" /\ session = None /\ expired = FALSE
          /\ seats \subseteq Tenants /\ op = NoOperation /\ target = None /\ switching = "idle"
          /\ mixed = FALSE /\ owed = FALSE /\ kept = None
      BY DEF Init
    <3> QED BY <2>1, <2>2, <2>3, <3>1, RowsAreTyped
  <2> QED BY <2>4 DEF Init, ConsoleProtocol, TabIsOfOneWorkspace, OwedIsOnItsWay
<1>2. ConsoleProtocol /\ [Next]_vars => ConsoleProtocol'
  <2> SUFFICES ASSUME ConsoleProtocol, [Next]_vars PROVE ConsoleProtocol'
    OBVIOUS
  <2>1. CASE Next
    BY <2>1, StepsAreTyped, TabStaysOfOneWorkspace, OwedStaysOnItsWay DEF ConsoleProtocol
  <2>2. CASE UNCHANGED vars
    BY <2>2 DEF vars, ConsoleProtocol, TypeOK, TabIsOfOneWorkspace, OwedIsOnItsWay, OnScreen,
               SaysItFailed
  <2> QED BY <2>1, <2>2
<1> QED BY <1>1, <1>2, PTL DEF Spec

\* After a switch of workspace no screen shows cached rows of the one before, whole or in
\* part, after a failed read or none, however the switch falls among the fetches, the
\* operations and the refreshes under way; where rows stand in for a page of bookings
\* (keepPreviousData), the fetch that replaces them is the switched session's.
THEOREM OneWorkspaceOnScreen == Spec => []SwitcherMixesNothing
<1>1. ConsoleProtocol => SwitcherMixesNothing
  BY DEF ConsoleProtocol, TabIsOfOneWorkspace, SwitcherMixesNothing, Shown
<1> QED BY <1>1, ConsoleProtocolKept, PTL

\* Every operation of every screen invalidates or fills in what its own screen reads of
\* its write, no fetch that was under way brings back the rows from before it, and a screen
\* that goes on showing those, because the refetch has failed, has an error line for them.
THEOREM WritesAreShown == Spec => []OwnWritesAreShown
<1>1. ConsoleProtocol => OwnWritesAreShown
  BY DEF ConsoleProtocol, OwedIsOnItsWay, OwnWritesAreShown, Shown
<1> QED BY <1>1, ConsoleProtocolKept, PTL
===============================================================================
