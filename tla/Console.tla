------------------------------- MODULE Console -------------------------------
(***************************************************************************)
(* The owner's dashboard in one browser tab: the session in memory, the    *)
(* refresh cookie it shares with other tabs, the query cache, the screens  *)
(* with what each reads, the operations with what each must re-read, the   *)
(* workspace switcher, sign-out and sign-in.                               *)
(*                                                                         *)
(* A behaviour follows one query key, the watched one, and the operations  *)
(* that concern it: keys share nothing but the session.  One operation is  *)
(* in flight at a time.  Data is a tenant (whose rows they are) and one    *)
(* bit (whether the tab's last write is among them).                       *)
(***************************************************************************)
EXTENDS Naturals, FiniteSets

CONSTANTS
  Tenants,   \* workspaces
  Watched,   \* the query keys a behaviour may follow
  MaxEvents, \* bound on switches, sign-outs, expiries, lost seats, failed calls and turned pages
  None

VARIABLES
  watched,   \* the query key followed
  screen,    \* the route of the tab
  session,   \* the tenant of the access token in memory
  expired,   \* that token is past its TTL
  cookie,    \* the tenant of the refresh cookie
  seats,     \* the memberships of the account, on the server
  cache,     \* the cached answer of the watched query
  kept,      \* whose rows stand in for a page of bookings that is still loading
  req,       \* the two requests that may be under way: the query's, the operation's
  op,        \* the operation under way
  target,    \* the tenant that the switcher has asked for
  switching, \* how far its request has come
  events,    \* how many of the bounded events have happened
  mixed,     \* history: the session changed, or rows came in, past the switcher
  owed       \* history: the screen owes its user the write just made on it

vars == <<watched, screen, session, expired, cookie, seats, cache, kept, req, op, target,
          switching, events, mixed, owed>>

authVars == <<session, expired, cookie, seats>>
switchVars == <<target, switching>>

-----------------------------------------------------------------------------
(* What the hooks read, by query key. *)

\* invalidateQueries matches by prefix: ["properties"] covers a property and its units.
UnderProperties == {"properties", "property", "propertyUnits"}

\* The bookings of both pages have placeholderData: keepPreviousData; see TurnPage.
UseCalendarData == {"properties", "units", "bookings"}
UseSyncHealth == {"health"}
UseReservations == {"properties", "units", "bookings"}
UseSyncConflicts == {"conflicts"}
UseLapsedPayments == {"lapsed"}
UseInboxCount == UseSyncConflicts \cup UseLapsedPayments
UseSettings == {"settings"}
UseStaff == {"staff"}
UseInvites == {"invites"}

UnitsSection == {"propertyUnits"}
PricesSection == {"propertyUnits", "overrides"}
ChannelsSection == {"propertyUnits", "channels"}
PaymentsSection == {"credentials"}
TeamSection == UseStaff \cup UseInvites \cup {"properties"}

(* What the screens read. *)

CalendarPage == UseCalendarData \cup UseSyncHealth
ReservationsPage == UseReservations
BookingDetailPage == {"booking"}
InboxPage == UseSyncConflicts \cup UseLapsedPayments
PropertiesPage == {"properties"}
PropertyEditPage ==
  {"property"} \cup UseSettings \cup UnitsSection \cup PricesSection \cup ChannelsSection
SettingsPage == UseSettings \cup PaymentsSection \cup TeamSection

Page ==
  [calendar |-> CalendarPage, reservations |-> ReservationsPage, booking |-> BookingDetailPage,
   inbox |-> InboxPage, properties |-> PropertiesPage, property |-> PropertyEditPage,
   settings |-> SettingsPage]

Screens == DOMAIN Page
Keys == UNION {Page[s] : s \in Screens}

\* The shell around every screen badges the Inbox.
Reads(s) == IF s \in Screens THEN Page[s] \cup UseInboxCount ELSE {}

-----------------------------------------------------------------------------
(* The regions of a screen that go on showing the rows of a read that has failed since:
   isError is tested beside the data, not before it. *)

KeptInPlace ==
  [calendar |-> {"properties"}, reservations |-> {"properties"}, booking |-> {}, inbox |-> {},
   properties |-> {"properties"}, property |-> {"settings"},
   settings |-> {"settings", "credentials", "properties"}]

\* The rows that outlive a failed read in a count or a form: the Inbox badge, the line for a
\* property without units, the channels that the connect form leaves out.
KeptInPart(s) ==
  UseInboxCount \cup (IF s = "property" THEN {"propertyUnits", "channels"} ELSE {})

\* The reads whose failure has a line on the page: not the team's list of properties.
SaysItFailed(s) == Page[s] \ (IF s = "settings" THEN {"properties"} ELSE {})

-----------------------------------------------------------------------------
(* The operations: the screen that offers each, the queries whose rows carry
   its control, the answers it changes on the server, the keys that its
   success invalidates, and what it does besides. *)

Operation(on, needs, touches, refetch) ==
  [on |-> on, needs |-> needs, touches |-> touches, refetch |-> refetch,
   paints |-> {},       \* keys that onSuccess fills with the answer (setQueryData)
   refused |-> {},      \* keys that the refusal it looks for (404 or 409) invalidates
   settled |-> FALSE,   \* any failure invalidates them (onSettled)
   auth |-> FALSE,      \* its path is under /auth
   goes |-> on]         \* the screen that its success leads to

\* A dialog outlives the rows it was opened on: its operation needs none.
ManualBooking == Operation("calendar", {}, {"bookings"}, {"bookings"})

SyncNow ==
  Operation("calendar", {}, {"bookings", "conflicts", "health", "channels"},
            {"bookings", "conflicts", "health"})

Cancel ==
  [Operation("booking", {"booking"}, {"booking", "bookings"}, {"booking", "bookings"})
     EXCEPT !.refused = {"booking"}]

DismissConflict ==
  [Operation("inbox", {"conflicts"}, {"conflicts"}, {"conflicts"})
     EXCEPT !.refused = {"conflicts"}, !.settled = TRUE]

MarkHandled ==
  [Operation("inbox", {"lapsed"}, {"lapsed"}, {"lapsed"})
     EXCEPT !.refused = {"lapsed"}, !.settled = TRUE]

CreateProperty ==
  [Operation("properties", {}, {"properties"}, UnderProperties) EXCEPT !.goes = "property"]

\* The property page shows nothing without its property.
OnProperty(needs, touches, refetch) ==
  Operation("property", needs \cup {"property"}, touches, refetch)

SaveDetails == OnProperty({}, {"properties", "property"}, UnderProperties)

ArchiveProperty == OnProperty({}, UnderProperties \cup {"units"}, UnderProperties)

DeleteProperty ==
  [OnProperty({}, UnderProperties \cup {"units"}, UnderProperties) EXCEPT !.goes = "properties"]

SavePhotos ==
  [OnProperty({}, {"properties", "property"}, {"properties"}) EXCEPT !.paints = {"property"}]

SaveUnit == OnProperty({"propertyUnits"}, UnderProperties \cup {"units"}, UnderProperties)

RemoveOrArchiveUnit ==
  OnProperty({"propertyUnits"}, UnderProperties \cup {"units"}, UnderProperties)

CreateOverride == OnProperty({"propertyUnits"}, {"overrides"}, {"overrides"})

RemoveOverride ==
  [OnProperty({"propertyUnits", "overrides"}, {"overrides"}, {"overrides"})
     EXCEPT !.refused = {"overrides"}]

Connect == OnProperty({"propertyUnits"}, {"channels", "health"}, {"channels"})

Disconnect ==
  OnProperty({"propertyUnits", "channels"}, {"channels", "health", "conflicts"}, {"channels"})

SyncConnection ==
  OnProperty({"propertyUnits", "channels"}, {"channels", "bookings", "conflicts", "health"},
             {"channels", "bookings", "conflicts", "health"})

UpdateSettings ==
  [Operation("settings", {"settings"}, {"settings"}, {}) EXCEPT !.paints = {"settings"}]

SaveCredential == Operation("settings", {"credentials"}, {"credentials"}, {"credentials"})

UpdateStaff == Operation("settings", {"staff"}, {"staff"}, {"staff"})
RemoveStaff == Operation("settings", {"staff"}, {"staff"}, {"staff"})

CreateInvite ==
  [Operation("settings", {"properties"}, {"invites"}, {"invites"}) EXCEPT !.auth = TRUE]

RevokeInvite ==
  [Operation("settings", {"invites"}, {"invites"}, {"invites"}) EXCEPT !.auth = TRUE]

Operations ==
  {ManualBooking, SyncNow, Cancel, DismissConflict, MarkHandled, CreateProperty, SaveDetails,
   ArchiveProperty, DeleteProperty, SavePhotos, SaveUnit, RemoveOrArchiveUnit, CreateOverride,
   RemoveOverride, Connect, Disconnect, SyncConnection, UpdateSettings, SaveCredential,
   UpdateStaff, RemoveStaff, CreateInvite, RevokeInvite}

NoOperation == Operation(None, {}, {}, {})

ASSUME ConsoleAssumption ==
  /\ Watched \subseteq Keys /\ Tenants # {} /\ MaxEvents \in Nat
  /\ \A m \in Operations : m.on \in Screens /\ m.goes \in Screens /\ m.needs \subseteq Page[m.on]

-----------------------------------------------------------------------------
Requests == {"query", "operation"}

Idle == [phase |-> "idle", as |-> None, valid |-> FALSE, again |-> FALSE, seen |-> FALSE,
         tries |-> 0]

NoData == [by |-> None, seen |-> FALSE, stale |-> TRUE, failed |-> FALSE]

TypeOK ==
  /\ watched \in Watched
  /\ screen \in Screens \cup {"guard", "login", "crashed"}
  /\ session \in Tenants \cup {None}
  /\ expired \in BOOLEAN
  /\ cookie \in Tenants \cup {None}
  /\ seats \subseteq Tenants
  /\ cache \in [by: Tenants \cup {None}, seen: BOOLEAN, stale: BOOLEAN, failed: BOOLEAN]
  /\ kept \in Tenants \cup {None}
  /\ req \in [Requests -> [phase: {"idle", "sent", "answered", "refused", "denied", "landed"},
                           as: Tenants \cup {None}, valid: BOOLEAN, again: BOOLEAN,
                           seen: BOOLEAN, tries: 0 .. 1]]
  /\ op \in Operations \cup {NoOperation}
  /\ target \in Tenants \cup {None}
  /\ switching \in {"idle", "sent", "answered", "void"}
  /\ events \in 0 .. MaxEvents
  /\ mixed \in BOOLEAN /\ owed \in BOOLEAN

OnScreen == watched \in Reads(screen)

\* The watched rows are on screen with their controls: there are some, and their last read
\* has not failed, or the region keeps them all the same.
Offered ==
  OnScreen /\ cache.by # None /\ (cache.failed => watched \in KeptInPlace[screen])

\* The watched rows are on screen, be it in part.
Shown ==
  OnScreen /\ cache.by # None
    /\ (cache.failed => watched \in KeptInPlace[screen] \cup KeptInPart(screen))

\* send: the token in memory goes with the request.
Sent(t, valid, again, tries) ==
  [phase |-> "sent", as |-> t, valid |-> valid, again |-> again, seen |-> TRUE, tries |-> tries]

Fetch == Sent(session, session # None /\ ~expired, FALSE, 0)

\* A query that mounts on screen s fetches unless what it holds is fresh.
Mounted(s, c, q, fetch) ==
  IF watched \in Reads(s) /\ q.phase = "idle" /\ (c.by = None \/ c.stale) THEN fetch ELSE q

\* Mutant: a fetch under way is taken for the refetch (cancelRefetch: false).
InvalidatedKeepsTheFetch(keys) ==
  IF watched \in keys /\ OnScreen /\ req["query"].phase = "idle" THEN Fetch ELSE req["query"]

\* invalidateQueries cancels the fetch of a mounted query that has data and starts another;
\* a query still at its first fetch keeps it.
Invalidated(keys) ==
  IF watched \in keys /\ OnScreen /\ (cache.by # None \/ req["query"].phase = "idle")
    THEN Fetch ELSE req["query"]

Outdated(keys) == IF watched \in keys THEN [cache EXCEPT !.stale = TRUE] ELSE cache

IsAuth(r) == IF r = "query" THEN watched = "invites" ELSE op.auth

\* The operations and the screens that make a difference to the watched key.
Concerns(m) == watched \in m.touches \cup m.refetch \cup m.refused

Visited ==
  {"calendar"} \cup {s \in Screens : watched \in Page[s]}
               \cup {m.on : m \in {o \in Operations : Concerns(o)}}

\* refresh: the cookie's seat, or another seat of the account when that one is gone.
Lands ==
  IF cookie = None THEN {} ELSE IF cookie \in seats THEN {cookie} ELSE seats

Event == events < MaxEvents /\ events' = events + 1

Init ==
  /\ watched \in Watched
  /\ screen = "guard"
  /\ session = None
  /\ expired = FALSE
  /\ cookie = CHOOSE t \in Tenants : TRUE
  /\ seats \in {held \in SUBSET Tenants : cookie \in held}
  /\ cache = NoData
  /\ kept = None
  /\ req = [r \in Requests |-> Idle]
  /\ op = NoOperation
  /\ target = None
  /\ switching = "idle"
  /\ events = 0
  /\ mixed = FALSE
  /\ owed = FALSE

-----------------------------------------------------------------------------
(* The session. *)

\* setSession, on the way to screen s, with whatever the cache holds.
Enter(t, s) ==
  /\ session' = t
  /\ expired' = FALSE
  /\ screen' = s
  /\ req' = [req EXCEPT !["query"] = Mounted(s, cache, @, Sent(t, TRUE, FALSE, 0))]
  /\ mixed' = \/ mixed
              \/ cache.by \notin {None, t}
              \/ req["query"].phase # "idle" /\ req["query"].as # t
  /\ kept' = None /\ owed' = FALSE
  /\ UNCHANGED <<events, watched, cache, op, switchVars>>

\* ensureSession before /app and before /login: the token in memory, or one silent refresh.
GuardPasses ==
  /\ screen = "guard" /\ session # None
  /\ screen' = "calendar"
  /\ req' = [req EXCEPT !["query"] = Mounted("calendar", cache, @, Fetch)]
  /\ UNCHANGED <<events, watched, authVars, cache, kept, op, switchVars, mixed, owed>>

GuardRefreshes(t) ==
  /\ screen = "guard" /\ session = None
  /\ t \in Lands
  /\ cookie' = t
  /\ Enter(t, "calendar")
  /\ UNCHANGED seats

GuardTurnsAway ==
  /\ screen = "guard"
  /\ session = None /\ Lands = {}
  /\ screen' = "login"
  /\ UNCHANGED <<events, watched, authVars, cache, kept, req, op, switchVars, mixed, owed>>

\* The guard's refresh goes wrong, whatever the cookie is worth: an answer that is not 2xx
\* counts as no session, a call that is lost is thrown to the router's error page.
GuardRefreshFails ==
  /\ Event
  /\ screen = "guard" /\ session = None
  /\ screen' \in {"login", "crashed"}
  /\ UNCHANGED <<watched, authVars, cache, kept, req, op, switchVars, mixed, owed>>

\* The error page's link to the dashboard.
LeaveErrorPage ==
  /\ screen = "crashed"
  /\ screen' = "guard"
  /\ UNCHANGED <<events, watched, authVars, cache, kept, req, op, switchVars, mixed, owed>>

\* Anybody may sign in at this tab, back to the screen that the guard turned away.
Login(t, held, s) ==
  /\ screen = "login"
  /\ t \in held
  /\ seats' = held
  /\ cookie' = t
  /\ Enter(t, s)

Register(t) ==
  /\ screen = "login"
  /\ seats' = {t}
  /\ cookie' = t
  /\ Enter(t, "calendar")

AcceptInvite(t) ==
  /\ screen = "login"
  /\ seats' \in {{t}, seats \cup {t}}
  /\ cookie' = t
  /\ Enter(t, "calendar")

\* The session is dropped whether or not the call reached the server.
Logout ==
  /\ Event
  /\ screen \in Screens /\ session # None
  /\ cookie' \in {None, cookie}
  /\ session' = None
  /\ expired' = FALSE
  /\ screen' = "guard"
  /\ kept' = None /\ owed' = FALSE
  /\ UNCHANGED <<watched, seats, cache, req, op, switchVars, mixed>>

TokenExpires ==
  /\ Event
  /\ session # None /\ ~expired
  /\ expired' = TRUE
  /\ UNCHANGED <<watched, screen, session, cookie, seats, cache, kept, req, op,
                 switchVars, mixed, owed>>

\* An owner removes the account from a workspace.
SeatLost(t) ==
  /\ Event
  /\ t \in seats
  /\ seats' = seats \ {t}
  /\ UNCHANGED <<watched, screen, session, expired, cookie, cache, kept, req, op,
                 switchVars, mixed, owed>>

\* Another tab of this browser switches workspace or signs out: the cookie is shared.
OtherTab(t) ==
  /\ Event
  /\ cookie # t
  /\ cookie' = t
  /\ UNCHANGED <<watched, screen, session, expired, seats, cache, kept, req, op,
                 switchVars, mixed, owed>>

-----------------------------------------------------------------------------
(* Screens and their queries. *)

Open(s) ==
  /\ screen \in Screens \ {s} /\ session # None
  /\ screen' = s
  /\ req' = [req EXCEPT !["query"] = Mounted(s, cache, @, Fetch)]
  /\ kept' = None /\ owed' = FALSE
  /\ UNCHANGED <<events, watched, authVars, cache, op, switchVars, mixed>>

\* Another month of the calendar, another filter of the reservations: a query of its own, not
\* read before.  The rows of the page before, or those that stood in for it, stand in
\* until it has landed or failed (keepPreviousData).
TurnPage ==
  /\ Event
  /\ watched = "bookings" /\ screen \in {"calendar", "reservations"} /\ session # None
  /\ kept' = IF cache.by # None THEN cache.by ELSE kept
  /\ cache' = NoData
  /\ req' = [req EXCEPT !["query"] = Fetch]
  /\ owed' = FALSE
  /\ UNCHANGED <<watched, screen, authVars, op, switchVars, mixed>>

\* staleTime passes.
Ages ==
  /\ cache.by # None /\ ~cache.stale
  /\ cache' = [cache EXCEPT !.stale = TRUE]
  /\ UNCHANGED <<events, watched, screen, authVars, kept, req, op, switchVars, mixed, owed>>

\* The window is focused again, or the interval of the health line comes round.
Refetch ==
  /\ OnScreen /\ session # None
  /\ req["query"].phase = "idle"
  /\ cache.stale
  /\ req' = [req EXCEPT !["query"] = Fetch]
  /\ UNCHANGED <<events, watched, screen, authVars, cache, kept, op, switchVars, mixed, owed>>

ServeQuery ==
  /\ req["query"].phase = "sent"
  /\ req' = [req EXCEPT !["query"].phase = IF req["query"].valid THEN "answered" ELSE "denied"]
  /\ UNCHANGED <<events, watched, screen, authVars, cache, kept, op, switchVars, mixed, owed>>

QueryAnswered ==
  /\ req["query"].phase = "answered"
  /\ cache' = [by |-> req["query"].as, seen |-> req["query"].seen, stale |-> FALSE,
               failed |-> FALSE]
  /\ req' = [req EXCEPT !["query"] = Idle]
  /\ kept' = None
  /\ UNCHANGED <<events, watched, screen, authVars, op, switchVars, mixed, owed>>

\* A request comes to nothing: its call or answer is lost, or the refresh behind its 401 is
\* (fetch rejects, and the session stays), or its 401 is of an /auth path, which is no sign
\* of an expired token.
ComesToNothing(r, lost) ==
  \/ req[r].phase = "denied" /\ IsAuth(r) /\ UNCHANGED events
  \/ req[r].phase \in lost /\ Event
  \/ req[r].phase = "denied" /\ ~IsAuth(r) /\ ~req[r].again /\ Event

\* One retry, then the error; what stood in for the rows goes.
QueryFails ==
  LET q == req["query"]
  IN /\ ComesToNothing("query", {"sent"})
     /\ req' = [req EXCEPT !["query"] =
                  IF q.tries = 0 THEN [Fetch EXCEPT !.tries = 1] ELSE Idle]
     /\ cache' = IF q.tries = 0 THEN cache ELSE [cache EXCEPT !.failed = TRUE, !.stale = TRUE]
     /\ kept' = IF q.tries = 0 THEN kept ELSE None
     /\ UNCHANGED <<watched, screen, authVars, op, switchVars, mixed, owed>>

-----------------------------------------------------------------------------
(* The 401 of a request, and the refresh behind it. *)

\* The refresh is served: a session in some seat, or none.
Refresh(r) ==
  /\ req[r].phase = "denied" /\ ~IsAuth(r) /\ ~req[r].again
  /\ \E t \in IF Lands = {} THEN {None} ELSE Lands :
       req' = [req EXCEPT ![r].phase = "landed", ![r].as = t]
  /\ UNCHANGED <<events, watched, screen, authVars, cache, kept, op, switchVars, mixed, owed>>

\* The refresh is answered with anything but 2xx, though the cookie is good (a 5xx, a 429).
RefreshFails(r) ==
  /\ Event
  /\ req[r].phase = "denied" /\ ~IsAuth(r) /\ ~req[r].again
  /\ Lands # {}
  /\ req' = [req EXCEPT ![r].phase = "landed", ![r].as = None]
  /\ UNCHANGED <<watched, screen, authVars, cache, kept, op, switchVars, mixed, owed>>

\* setSession with what the refresh brought, and the one retry.
Resend(r) ==
  /\ req[r].phase = "landed" /\ req[r].as # None
  /\ session' = req[r].as
  /\ cookie' = req[r].as
  /\ expired' = FALSE
  /\ req' = [req EXCEPT ![r] = Sent(req[r].as, TRUE, TRUE, req[r].tries)]
  /\ mixed' = (mixed \/ session # req[r].as)
  /\ UNCHANGED <<events, watched, screen, seats, cache, kept, op, switchVars, owed>>

\* Mutant: the session is cleared, and the tab stays where it is.
SessionGoneInPlace(r) ==
  /\ \/ req[r].phase = "landed" /\ req[r].as = None
     \/ req[r].phase = "denied" /\ ~IsAuth(r) /\ req[r].again
  /\ session' = None
  /\ expired' = FALSE
  /\ req' = [req EXCEPT ![r] = Idle]
  /\ op' = IF r = "operation" THEN NoOperation ELSE op
  /\ owed' = FALSE
  /\ UNCHANGED <<events, watched, screen, cookie, seats, cache, kept, switchVars, mixed>>

\* No session, or a second 401: clearSession, and from a screen of /app a new page load.
SessionGone(r) ==
  /\ \/ req[r].phase = "landed" /\ req[r].as = None
     \/ req[r].phase = "denied" /\ ~IsAuth(r) /\ req[r].again
  /\ session' = None
  /\ expired' = FALSE
  /\ IF screen \in Screens
       THEN /\ screen' = "guard"
            /\ cache' = NoData
            /\ req' = [q \in Requests |-> Idle]
            /\ op' = NoOperation
            /\ target' = None /\ switching' = "idle"
            /\ kept' = None /\ mixed' = FALSE /\ owed' = FALSE
       ELSE /\ req' = [req EXCEPT ![r] = Idle]
            /\ cache' = IF r = "query" THEN [cache EXCEPT !.failed = TRUE] ELSE cache
            /\ op' = IF r = "operation" THEN NoOperation ELSE op
            /\ UNCHANGED <<screen, kept, switchVars, mixed, owed>>
  /\ UNCHANGED <<events, watched, cookie, seats>>

-----------------------------------------------------------------------------
(* The operations. *)

Click(m) ==
  /\ screen = m.on /\ session # None
  /\ op = NoOperation
  /\ watched \in m.needs => Offered
  /\ op' = m
  /\ req' = [req EXCEPT !["operation"] = Fetch]
  /\ UNCHANGED <<events, watched, screen, authVars, cache, kept, switchVars, mixed, owed>>

\* The server takes the write, or refuses it because somebody else got there first:
\* either way what was read before no longer tells the truth.
ServeOperation ==
  LET w == req["operation"]
      q == req["query"]
      Behind(d) == IF watched \in op.touches THEN FALSE ELSE d
  IN /\ w.phase = "sent"
     /\ IF w.valid
          THEN \E answer \in {"answered", "refused"} :
                 /\ req' = [req EXCEPT !["operation"].phase = answer,
                                       !["query"].seen =
                                          IF q.phase = "answered" /\ q.as = w.as
                                            THEN Behind(@) ELSE @]
                 /\ cache' = [cache EXCEPT !.seen = IF cache.by = w.as THEN Behind(@) ELSE @]
                 /\ owed' = FALSE
          ELSE /\ req' = [req EXCEPT !["operation"].phase = "denied"]
               /\ UNCHANGED <<cache, owed>>
     /\ UNCHANGED <<events, watched, screen, authVars, kept, op, switchVars, mixed>>

\* What the answer makes the screen owe: the page reads the key, its rows were there to be
\* refetched, and the key is not one that the answer itself fills in.
Owes(keys) ==
  /\ screen = op.on
  /\ watched \in keys \cap Page[op.on]
  /\ cache.by # None

\* onSuccess.
OperationAnswered ==
  LET w == req["operation"]
      painted == watched \in op.paints
      next == IF op.goes # op.on /\ screen \in Screens THEN op.goes ELSE screen
      c == IF painted THEN [by |-> w.as, seen |-> TRUE, stale |-> FALSE, failed |-> FALSE]
           ELSE Outdated(op.refetch)
  IN /\ w.phase = "answered"
     /\ cache' = c
     /\ screen' = next
     /\ kept' = IF next = screen THEN kept ELSE None
     /\ req' = [req EXCEPT !["operation"] = Idle,
                           !["query"] = Mounted(next, c, Invalidated(op.refetch), Fetch)]
     /\ op' = NoOperation
     /\ mixed' = (mixed \/ (painted /\ w.as # session))
     /\ owed' = (next = screen /\ Owes(op.touches \ op.paints))
     /\ UNCHANGED <<events, watched, authVars, switchVars>>

\* onError and onSettled.
OperationEnds(keys) ==
  /\ cache' = Outdated(keys)
  /\ req' = [req EXCEPT !["operation"] = Idle, !["query"] = Invalidated(keys)]
  /\ op' = NoOperation
  /\ owed' = Owes(keys)
  /\ UNCHANGED <<watched, screen, authVars, kept, switchVars, mixed>>

\* What a failure that the page does not look for invalidates.
OnSettled == IF op.settled THEN op.refused ELSE {}

\* The refusal that the page looks for, or another.
OperationRefused ==
  /\ req["operation"].phase = "refused"
  /\ \E keys \in {op.refused, OnSettled} : OperationEnds(keys)
  /\ UNCHANGED events

OperationFails ==
  /\ ComesToNothing("operation", {"sent", "answered", "refused"})
  /\ OperationEnds(OnSettled)

-----------------------------------------------------------------------------
(* The workspace switcher. *)

SwitchTo(t) ==
  /\ Event
  /\ screen \in Screens /\ session \notin {None, t}
  /\ switching = "idle"
  /\ target' = t
  /\ switching' = IF expired THEN "void" ELSE "sent"
  /\ UNCHANGED <<watched, screen, authVars, cache, kept, req, op, mixed, owed>>

ServeSwitch ==
  /\ switching = "sent"
  /\ switching' = IF target \in seats THEN "answered" ELSE "void"
  /\ UNCHANGED <<events, watched, screen, authVars, cache, kept, req, op, target, mixed, owed>>

\* Mutant: the data goes, the fetches under way are left to land.
ResetLeavesTheFetch(t) ==
  /\ cache' = NoData
  /\ req' = [req EXCEPT !["query"] =
                IF OnScreen /\ req["query"].phase = "idle" THEN Sent(t, TRUE, FALSE, 0) ELSE @]

\* resetQueries: every query back to no data and no fetch, and the mounted ones fetch anew.
\* Rows that stand in for a page are the screen's own and stay.
ResetQueries(t) ==
  /\ cache' = NoData
  /\ req' = [req EXCEPT !["query"] = IF OnScreen THEN Sent(t, TRUE, FALSE, 0) ELSE Idle]

Switched ==
  /\ switching = "answered"
  /\ session' = target
  /\ cookie' = target
  /\ expired' = FALSE
  /\ ResetQueries(target)
  /\ target' = None /\ switching' = "idle"
  /\ mixed' = FALSE /\ owed' = FALSE
  /\ UNCHANGED <<events, watched, screen, seats, kept, op>>

SwitchFails ==
  /\ switching \in {"sent", "answered", "void"}
  /\ target' = None /\ switching' = "idle"
  /\ UNCHANGED <<events, watched, screen, authVars, cache, kept, req, op, mixed, owed>>

-----------------------------------------------------------------------------
SessionSteps ==
  \/ GuardPasses \/ GuardTurnsAway \/ GuardRefreshFails \/ LeaveErrorPage
  \/ Logout \/ TokenExpires
  \/ \E t \in Tenants :
       \/ GuardRefreshes(t) \/ Register(t) \/ AcceptInvite(t) \/ SeatLost(t)
       \/ \E held \in SUBSET Tenants, s \in Visited : Login(t, held, s)
  \/ \E t \in seats \cup {None} : OtherTab(t)

QuerySteps ==
  \/ Ages \/ Refetch \/ ServeQuery \/ QueryAnswered \/ QueryFails
  \/ TurnPage \/ (\E s \in Visited : Open(s))
  \/ \E r \in Requests : Refresh(r) \/ RefreshFails(r) \/ Resend(r) \/ SessionGone(r)

OperationSteps ==
  \/ \E m \in Operations : Concerns(m) /\ Click(m)
  \/ ServeOperation \/ OperationAnswered \/ OperationRefused \/ OperationFails

SwitchSteps == (\E t \in Tenants : SwitchTo(t)) \/ ServeSwitch \/ Switched \/ SwitchFails

Next == SessionSteps \/ QuerySteps \/ OperationSteps \/ SwitchSteps

Spec == Init /\ [][Next]_vars

(* The network answers, and the tab's own callbacks run. *)
FairSpec ==
  /\ Spec
  /\ WF_vars(GuardPasses) /\ WF_vars(GuardTurnsAway)
  /\ WF_vars(ServeQuery) /\ WF_vars(ServeOperation)
  /\ \A r \in Requests :
       WF_vars(Refresh(r)) /\ WF_vars(Resend(r)) /\ WF_vars(SessionGone(r))

-----------------------------------------------------------------------------
(* Properties. *)

\* Once nothing is in flight, a screen shows what its user has just changed on it, or says
\* that it could not read it back: the invalidations of every operation cover what its own
\* page reads, and cancel the fetch that was under way (onSuccess of the operations,
\* invalidateQueries); no page keeps older rows without its error line.
OwnWritesAreShown ==
  owed /\ Shown /\ req["query"].phase = "idle" =>
    cache.seen \/ (cache.failed /\ watched \in SaysItFailed(screen))

\* Cached rows of another tenant are on screen only when something past the switcher has
\* changed the session or painted the cache; a switch itself leaves none, not even from the
\* fetches that were under way (resetQueries in the workspace switcher).  Rows that stand
\* in for a page of bookings may be the other tenant's, and the switched session's replace them.
SwitcherMixesNothing ==
  session # None /\ ~mixed =>
    /\ Shown => cache.by = session
    /\ kept # None /\ req["query"].phase \in {"sent", "answered"} => req["query"].as = session

\* An account with no seat left ends at the login form, or at the error page of a guard
\* whose own call was lost, once a request meets its expired token; it keeps its session
\* only while its refresh calls are lost, or when a refresh served just before the last
\* seat went brings one more token (sendWithSession, refreshSession, the guards).
DeadSessionEndsAtLogin ==
  \A r \in Requests :
    LET Dead == seats = {} /\ req[r].phase = "denied" /\ ~IsAuth(r)
        Ended == screen \in {"login", "crashed"} \/ seats # {} \/ (session # None /\ ~expired)
    IN /\ Dead ~> Ended \/ (session # None /\ req[r].phase = "idle")
       /\ Dead /\ events = MaxEvents ~> Ended

=============================================================================
