------------------------------ MODULE Accounts ------------------------------
(***************************************************************************)
(* Accounts, seats, staff invites and sessions of the Sambung API.         *)
(*                                                                         *)
(* An account is a login and is known by its address.  A seat is a         *)
(* membership of an account in a tenant; assignments say which properties  *)
(* a staff seat can see.  Owners invite addresses (Creates), guests of the *)
(* public auth routes register, log in, refresh, switch and accept         *)
(* invites (Visits), and owners edit and end seats (edit).                 *)
(*                                                                         *)
(* An accept is one transaction of several statements: the guarded update  *)
(* locks the invite, SELECT ... FOR UPDATE the account, and nothing is     *)
(* visible before the commit in Seat.                                      *)
(***************************************************************************)
EXTENDS Naturals, FiniteSets

CONSTANTS
  Emails,     \* addresses, and so the accounts
  Passwords,
  Founded,    \* tenants that exist, with owners that are not in Emails
  Fresh,      \* tenants that a registration may found
  Props,      \* the properties of a tenant
  Invites,    \* rows of staff_invite that may come to exist
  Creates,    \* requests that create an invite
  Visits,     \* requests of the auth routes
  MaxFaults,  \* bound on bounced mails and crashes
  None

ASSUME AccountsAssumption ==
  /\ MaxFaults \in Nat
  /\ Founded \cap Fresh = {}
  /\ None \notin Emails \cup Passwords \cup Founded \cup Fresh \cup Invites

VARIABLES
  account,    \* app_user: the password of an address
  seat,       \* membership.role
  grants,     \* user_property: the assignments of a seat
  inv,        \* staff_invite
  create,     \* the create requests
  visit,      \* the auth requests
  edit,       \* each owner's PATCH of a staff member's assignments
  tokens,     \* sessions that were handed out
  faults

vars == <<account, seat, grants, inv, create, visit, edit, tokens, faults>>

-----------------------------------------------------------------------------
Tenants == Founded \cup Fresh

Token == [user: Emails, tenant: Tenants, role: {"owner", "staff"}]

NoInvite == [state |-> "none", lapsed |-> FALSE, mailed |-> FALSE,
             tenant |-> None, email |-> None, props |-> {}]

NewCreate == [at |-> "idle", tenant |-> None, email |-> None, props |-> {},
              invite |-> None, sawLive |-> FALSE, answer |-> "none"]

NewVisit == [at |-> "idle", email |-> None, typed |-> None, prefer |-> None,
             invite |-> None, verified |-> FALSE, live |-> FALSE, how |-> "none",
             won |-> FALSE, answer |-> "none"]

NewEdit == [at |-> "idle", email |-> None, props |-> {}]

TypeOK ==
  /\ account \in [Emails -> Passwords \cup {None}]
  /\ seat \in [Emails -> [Tenants -> {"none", "staff", "owner"}]]
  /\ grants \in [Emails -> [Tenants -> SUBSET Props]]
  /\ inv \in [Invites -> [state: {"none", "open", "accepted", "revoked"},
                          lapsed: BOOLEAN, mailed: BOOLEAN,
                          tenant: Tenants \cup {None}, email: Emails \cup {None},
                          props: SUBSET Props]]
  /\ create \in [Creates ->
       [at: {"idle", "superseding", "checking", "inserting", "mailing", "undoing",
             "listing", "done"},
        tenant: Tenants \cup {None}, email: Emails \cup {None}, props: SUBSET Props,
        invite: Invites \cup {None}, sawLive: BOOLEAN,
        answer: {"none", "created", "email_taken", "pending", "unsent", "not_found"}]]
  /\ visit \in [Visits ->
       [at: {"idle", "entered", "begun", "spent", "locked", "explaining",
             "registering", "minting", "done"},
        email: Emails \cup {None}, typed: Passwords \cup {None},
        prefer: Tenants \cup {None}, invite: Invites \cup {None},
        verified: BOOLEAN, live: BOOLEAN,
        how: {"none", "create", "load", "reclaim"}, won: BOOLEAN,
        answer: {"none", "session", "unauthorized", "no_seat", "not_found",
                 "email_taken", "accepted", "expired", "revoked", "error"}]]
  /\ edit \in [Tenants -> [at: {"idle", "replacing"}, email: Emails \cup {None},
                           props: SUBSET Props]]
  /\ tokens \subseteq Token
  /\ faults \in 0 .. MaxFaults

-----------------------------------------------------------------------------
\* The tenants in which an account has a seat; with none it is inert.
Seats(e) == {t \in Tenants : seat[e][t] # "none"}

Born(t) == t \in Founded \/ \E e \in Emails : seat[e][t] = "owner"

\* staff_invite_live_email_uniq: the rows its predicate covers.
Open(t, e) == {i \in Invites : inv[i].state = "open" /\ inv[i].tenant = t /\ inv[i].email = e}

\* liveInviteFor: open, and not out of time.
LiveInvites(t, e) == {i \in Open(t, e) : ~inv[i].lapsed}

\* The visits that have the row of invite i locked, or the row of account e.
Spenders(i) == {a \in Visits : visit[a].at \in {"spent", "locked"} /\ visit[a].invite = i}

Holders(e) == {a \in Visits : visit[a].at = "locked" /\ visit[a].how # "create"
                              /\ visit[a].email = e}

\* refusalReason; a re-read that finds the invite live says expired as well.
RefusalReason(i) ==
  IF inv[i].state = "accepted" THEN "accepted"
  ELSE IF inv[i].lapsed THEN "expired"
  ELSE IF inv[i].state = "revoked" THEN "revoked" ELSE "expired"

AcceptMode(e) == IF account[e] # None /\ Seats(e) # {} THEN "signin" ELSE "create"

\* app_property_visible under the scope of a token, which decides on the rows that
\* belong to a property: an owner sees those of all the tenant's, a staff member those
\* of what is assigned now, whatever the token's age.  The tenant's own row is not
\* among them: its policy asks for the tenant alone.
Sees(tk) == IF tk.role = "staff" THEN grants[tk.user][tk.tenant] ELSE Props

-----------------------------------------------------------------------------
\* An invite that was sent before.
Outstanding(t, e) ==
  [NoInvite EXCEPT !.state = "open", !.mailed = TRUE, !.tenant = t, !.email = e, !.props = Props]

Init ==
  /\ account \in [Emails -> Passwords \cup {None}]
  /\ seat \in [Emails -> [Tenants -> {"none", "staff"}]]
  /\ \A e \in Emails, t \in Tenants :
       seat[e][t] = "staff" => account[e] # None /\ t \in Founded
  /\ grants = [e \in Emails |-> [t \in Tenants |->
                 IF seat[e][t] = "staff" THEN Props ELSE {}]]
  /\ inv \in [Invites -> {NoInvite} \cup {Outstanding(t, e) : t \in Founded, e \in Emails}]
  /\ \A t \in Founded, e \in Emails :
       Cardinality(Open(t, e)) + Cardinality({t} \cap Seats(e)) \leq 1
  /\ create = [c \in Creates |-> NewCreate]
  /\ visit = [a \in Visits |-> NewVisit]
  /\ edit = [t \in Tenants |-> NewEdit]
  /\ tokens = {}
  /\ faults = 0

-----------------------------------------------------------------------------
(* InvitesService.create: five reads and writes, each a transaction of its  *)
(* own, and a mail.                                                         *)

CreateAnswered(c, a) ==
  create' = [create EXCEPT ![c] = [NewCreate EXCEPT !.at = "done", !.answer = a,
                                                     !.sawLive = create[c].sawLive]]

\* isMemberOfTenant; the properties are the tenant's own.
CreateEnter(c, t, e, ps) ==
  /\ create[c].at = "idle" /\ Born(t)
  /\ create' = [create EXCEPT ![c] =
       [NewCreate EXCEPT !.tenant = t, !.email = e, !.props = ps,
          !.sawLive = LiveInvites(t, e) # {},
          !.at = IF t \in Seats(e) THEN "done" ELSE "superseding",
          !.answer = IF t \in Seats(e) THEN "email_taken" ELSE "none"]]
  /\ UNCHANGED <<account, seat, grants, inv, visit, edit, tokens, faults>>

\* Mutant: an invite that has run out of time goes on blocking its address.
SkipSupersede(c) ==
  /\ create[c].at = "superseding"
  /\ create' = [create EXCEPT ![c].at = "checking"]
  /\ UNCHANGED <<account, seat, grants, inv, visit, edit, tokens, faults>>

\* supersedeExpiredInvites: waits for the rows an accept has locked.
SupersedeExpiredInvites(c) ==
  LET stale == {i \in Open(create[c].tenant, create[c].email) : inv[i].lapsed}
  IN /\ create[c].at = "superseding"
     /\ \A i \in stale : Spenders(i) = {}
     /\ inv' = [i \in Invites |->
                  IF i \in stale THEN [inv[i] EXCEPT !.state = "revoked"] ELSE inv[i]]
     /\ create' = [create EXCEPT ![c].at = "checking"]
     /\ UNCHANGED <<account, seat, grants, visit, edit, tokens, faults>>

\* hasLiveInvite
CheckLive(c) ==
  /\ create[c].at = "checking"
  /\ IF LiveInvites(create[c].tenant, create[c].email) # {}
     THEN CreateAnswered(c, "pending")
     ELSE create' = [create EXCEPT ![c].at = "inserting"]
  /\ UNCHANGED <<account, seat, grants, inv, visit, edit, tokens, faults>>

\* createInvite: the unique index waits for an accept of the row it meets.
CreateInvite(c, i) ==
  LET t == create[c].tenant
      e == create[c].email
  IN /\ create[c].at = "inserting"
     /\ \A j \in Open(t, e) : Spenders(j) = {}
     /\ inv[i].state = "none"
     /\ \/ /\ Open(t, e) # {}
           /\ CreateAnswered(c, "pending") /\ UNCHANGED inv
        \/ /\ Open(t, e) = {}
           /\ inv' = [inv EXCEPT ![i] = [NoInvite EXCEPT !.state = "open", !.tenant = t,
                                           !.email = e, !.props = create[c].props]]
           /\ create' = [d \in Creates |->
                IF d = c THEN [create[c] EXCEPT !.at = "mailing", !.invite = i]
                ELSE IF create[d].tenant = t /\ create[d].email = e /\ create[d].at # "done"
                THEN [create[d] EXCEPT !.sawLive = TRUE]
                ELSE create[d]]
     /\ UNCHANGED <<account, seat, grants, visit, edit, tokens, faults>>

\* The mail is sent; or it fails, perhaps after it was delivered.
SendInvite(c) ==
  /\ create[c].at = "mailing"
  /\ \/ /\ inv' = [inv EXCEPT ![create[c].invite].mailed = TRUE]
        /\ create' = [create EXCEPT ![c].at = "listing"]
        /\ UNCHANGED faults
     \/ /\ faults < MaxFaults /\ faults' = faults + 1
        /\ \E arrived \in BOOLEAN : inv' = [inv EXCEPT ![create[c].invite].mailed = arrived]
        /\ create' = [create EXCEPT ![c].at = "undoing"]
  /\ UNCHANGED <<account, seat, grants, visit, edit, tokens>>

\* revokeInvite: a guarded update that waits for an accept.
RevokeIn(i) ==
  /\ Spenders(i) = {}
  /\ inv' = IF inv[i].state = "open" THEN [inv EXCEPT ![i].state = "revoked"] ELSE inv

\* The catch: revoke what cannot be reached.
UndoInvite(c) ==
  /\ create[c].at = "undoing"
  /\ RevokeIn(create[c].invite)
  /\ CreateAnswered(c, "unsent")
  /\ UNCHANGED <<account, seat, grants, visit, edit, tokens, faults>>

\* The invite is looked up in the list of pending ones.
ListCreated(c) ==
  /\ create[c].at = "listing"
  /\ CreateAnswered(c, IF inv[create[c].invite].state = "open" /\ ~inv[create[c].invite].lapsed
                       THEN "created" ELSE "not_found")
  /\ UNCHANGED <<account, seat, grants, inv, visit, edit, tokens, faults>>

\* The process dies, or the revoke fails, before the create is finished.
CreateCrash(c) ==
  /\ create[c].at \in {"superseding", "checking", "inserting", "mailing", "undoing"}
  /\ faults < MaxFaults /\ faults' = faults + 1
  /\ CreateAnswered(c, "none")
  /\ UNCHANGED <<account, seat, grants, inv, visit, edit, tokens>>

\* The owner withdraws an invite.
Revoke(i) ==
  /\ inv[i].state = "open"
  /\ RevokeIn(i)
  /\ UNCHANGED <<account, seat, grants, create, visit, edit, tokens, faults>>

\* An invite's time runs out; nobody asks that of an accepted one.
Lapse(i) ==
  /\ inv[i].state \in {"open", "revoked"} /\ ~inv[i].lapsed
  /\ inv' = [inv EXCEPT ![i].lapsed = TRUE]
  /\ UNCHANGED <<account, seat, grants, create, visit, edit, tokens, faults>>

-----------------------------------------------------------------------------
(* InvitesService.accept                                                     *)

Answered(a, r) ==
  visit' = [visit EXCEPT ![a] = [NewVisit EXCEPT !.at = "done", !.answer = r,
              !.invite = visit[a].invite, !.won = visit[a].won]]

\* The reads and the password comparison, before the transaction.  Whoever comes
\* has the mail.
AcceptEnter(a, i, pw) ==
  LET e == inv[i].email
  IN /\ visit[a].at = "idle" /\ inv[i].mailed
     /\ IF AcceptMode(e) = "signin" /\ pw # account[e]
        THEN Answered(a, "unauthorized")
        ELSE visit' = [visit EXCEPT ![a] =
               [NewVisit EXCEPT !.at = "entered", !.email = e, !.typed = pw, !.invite = i,
                                !.prefer = inv[i].tenant,
                                !.verified = AcceptMode(e) = "signin"]]
     /\ UNCHANGED <<account, seat, grants, inv, create, edit, tokens, faults>>

\* The transaction starts: the now() that the guarded update compares with.
AcceptBegin(a) ==
  /\ visit[a].at = "entered"
  /\ visit' = [visit EXCEPT ![a].at = "begun", ![a].live = ~inv[visit[a].invite].lapsed]
  /\ UNCHANGED <<account, seat, grants, inv, create, edit, tokens, faults>>

\* Mutant: an accept does not find the row that another one is spending locked.
SpendUnlocked(a) ==
  /\ visit[a].at = "begun"
  /\ visit' = [visit EXCEPT ![a].at =
       IF inv[visit[a].invite].state = "open" /\ visit[a].live THEN "spent" ELSE "explaining"]
  /\ UNCHANGED <<account, seat, grants, inv, create, edit, tokens, faults>>

\* The guarded update: it locks the invite, or matches nothing.
Spend(a) ==
  /\ visit[a].at = "begun" /\ Spenders(visit[a].invite) = {}
  /\ visit' = [visit EXCEPT ![a].at =
       IF inv[visit[a].invite].state = "open" /\ visit[a].live THEN "spent" ELSE "explaining"]
  /\ UNCHANGED <<account, seat, grants, inv, create, edit, tokens, faults>>

\* Mutant: an account that was inert when the page was shown is claimed.
LockAccountOnTrust(a) ==
  LET e == visit[a].email
  IN /\ visit[a].at = "spent" /\ Holders(e) = {}
     /\ visit' = [visit EXCEPT ![a].at = "locked", ![a].how =
          IF account[e] = None THEN "create"
          ELSE IF visit[a].verified THEN "load" ELSE "reclaim"]
     /\ UNCHANGED <<account, seat, grants, inv, create, edit, tokens, faults>>

\* SELECT ... FOR UPDATE and what to do with the account, decided again under the
\* lock.  An unproved password for an account with a seat rolls everything back.
LockAccount(a) ==
  LET e == visit[a].email
      how == IF account[e] = None THEN "create"
             ELSE IF visit[a].verified THEN "load" ELSE "reclaim"
  IN /\ visit[a].at = "spent" /\ Holders(e) = {}
     /\ IF how = "reclaim" /\ Seats(e) # {}
        THEN Answered(a, "unauthorized")
        ELSE visit' = [visit EXCEPT ![a].at = "locked", ![a].how = how]
     /\ UNCHANGED <<account, seat, grants, inv, create, edit, tokens, faults>>

\* The account, the seat, the assignments and the commit.  An address that got an
\* account in the meantime refuses a second one, and everything is rolled back.
Seat(a) ==
  LET e == visit[a].email
      i == visit[a].invite
      t == inv[i].tenant
  IN /\ visit[a].at = "locked"
     /\ \/ /\ visit[a].how = "create" /\ account[e] # None
           /\ Answered(a, "email_taken")
           /\ UNCHANGED <<account, seat, grants, inv>>
        \/ /\ visit[a].how # "create" \/ account[e] = None
           /\ account' = IF visit[a].how = "load" THEN account
                         ELSE [account EXCEPT ![e] = visit[a].typed]
           /\ seat' = IF t \in Seats(e) THEN seat ELSE [seat EXCEPT ![e][t] = "staff"]
           /\ grants' = [grants EXCEPT ![e][t] = @ \cup inv[i].props]
           /\ inv' = [inv EXCEPT ![i].state = "accepted"]
           /\ visit' = [visit EXCEPT ![a].at = "minting", ![a].won = TRUE]
     /\ UNCHANGED <<create, edit, tokens, faults>>

\* A crash, a lost connection or a refused foreign key: rolled back.
AcceptFault(a) ==
  /\ visit[a].at \in {"begun", "spent", "locked"}
  /\ faults < MaxFaults /\ faults' = faults + 1
  /\ Answered(a, "error")
  /\ UNCHANGED <<account, seat, grants, inv, create, edit, tokens>>

\* The invite is read again to say why it was not live.
Explain(a) ==
  /\ visit[a].at = "explaining"
  /\ Answered(a, RefusalReason(visit[a].invite))
  /\ UNCHANGED <<account, seat, grants, inv, create, edit, tokens, faults>>

-----------------------------------------------------------------------------
(* AuthService                                                               *)

\* register: the look-up, before the password is hashed.
RegisterEnter(a, e, pw) ==
  /\ visit[a].at = "idle"
  /\ IF account[e] # None
     THEN Answered(a, "email_taken")
     ELSE visit' = [visit EXCEPT ![a] =
            [NewVisit EXCEPT !.at = "registering", !.email = e, !.typed = pw]]
  /\ UNCHANGED <<account, seat, grants, inv, create, edit, tokens, faults>>

\* Tenant, account and seat together; the unique address has the last word.
Register(a, t) ==
  LET e == visit[a].email
  IN /\ visit[a].at = "registering" /\ t \in Fresh /\ ~Born(t)
     /\ \/ /\ account[e] # None
           /\ Answered(a, "email_taken")
           /\ UNCHANGED <<account, seat>>
        \/ /\ account[e] = None
           /\ account' = [account EXCEPT ![e] = visit[a].typed]
           /\ seat' = [seat EXCEPT ![e][t] = "owner"]
           /\ visit' = [visit EXCEPT ![a].at = "minting"]
     /\ UNCHANGED <<grants, inv, create, edit, tokens, faults>>

Login(a, e, pw) ==
  /\ visit[a].at = "idle"
  /\ IF account[e] # None /\ account[e] = pw
     THEN visit' = [visit EXCEPT ![a] = [NewVisit EXCEPT !.at = "minting", !.email = e]]
     ELSE Answered(a, "unauthorized")
  /\ UNCHANGED <<account, seat, grants, inv, create, edit, tokens, faults>>

\* The refresh token names a tenant, which may be no seat any more.
Refresh(a, tk) ==
  /\ visit[a].at = "idle"
  /\ visit' = [visit EXCEPT ![a] =
       [NewVisit EXCEPT !.at = "minting", !.email = tk.user, !.prefer = tk.tenant]]
  /\ UNCHANGED <<account, seat, grants, inv, create, edit, tokens, faults>>

\* The preferred seat, else the default one: an owner's before a staff seat, and
\* the oldest of those, which may be any.
Landing(e, prefer) ==
  IF prefer \in Seats(e) THEN {prefer}
  ELSE IF \E t \in Seats(e) : seat[e][t] = "owner"
  THEN {t \in Seats(e) : seat[e][t] = "owner"}
  ELSE Seats(e)

TokenFor(e, t) ==
  [user |-> e, tenant |-> t, role |-> IF seat[e][t] = "owner" THEN "owner" ELSE "staff"]

\* issue: read the seats, then sign.
Mint(a) ==
  LET e == visit[a].email
  IN /\ visit[a].at = "minting"
     /\ \/ /\ Seats(e) = {} /\ Answered(a, "no_seat") /\ UNCHANGED tokens
        \/ /\ Seats(e) # {} /\ Answered(a, "session")
           /\ \E t \in Landing(e, visit[a].prefer) : tokens' = tokens \cup {TokenFor(e, t)}
     /\ UNCHANGED <<account, seat, grants, inv, create, edit, faults>>

\* switchTenant: one read of the seats, for the check and for the token.
SwitchTenant(a, tk, t) ==
  /\ visit[a].at = "idle"
  /\ IF t \in Seats(tk.user)
     THEN Answered(a, "session") /\ tokens' = tokens \cup {TokenFor(tk.user, t)}
     ELSE Answered(a, "not_found") /\ UNCHANGED tokens
  /\ UNCHANGED <<account, seat, grants, inv, create, edit, faults>>

-----------------------------------------------------------------------------
(* StaffService                                                              *)

\* updateAssignments: the existence check.
EditEnter(t, e, ps) ==
  /\ edit[t].at = "idle" /\ Born(t) /\ seat[e][t] = "staff"
  /\ edit' = [edit EXCEPT ![t] = [at |-> "replacing", email |-> e, props |-> ps]]
  /\ UNCHANGED <<account, seat, grants, inv, create, visit, tokens, faults>>

\* Mutant: no foreign key ties an assignment to a seat.
ReplaceUnchecked(t) ==
  /\ edit[t].at = "replacing"
  /\ grants' = [grants EXCEPT ![edit[t].email][t] = edit[t].props]
  /\ edit' = [edit EXCEPT ![t] = NewEdit]
  /\ UNCHANGED <<account, seat, inv, create, visit, tokens, faults>>

\* replaceAssignments: the whole set in one transaction, which the foreign key to
\* the membership refuses when the seat is gone.
ReplaceAssignments(t) ==
  LET e == edit[t].email
  IN /\ edit[t].at = "replacing"
     /\ grants' = IF t \in Seats(e) THEN [grants EXCEPT ![e][t] = edit[t].props] ELSE grants
     /\ edit' = [edit EXCEPT ![t] = NewEdit]
     /\ UNCHANGED <<account, seat, inv, create, visit, tokens, faults>>

\* removeStaff: the seat, and by cascade its assignments; the account stays.
RemoveStaff(t, e) ==
  /\ Born(t) /\ seat[e][t] = "staff"
  /\ seat' = [seat EXCEPT ![e][t] = "none"]
  /\ grants' = [grants EXCEPT ![e][t] = {}]
  /\ UNCHANGED <<account, inv, create, visit, edit, tokens, faults>>

-----------------------------------------------------------------------------
CreateStep(c) ==
  \/ SupersedeExpiredInvites(c) \/ CheckLive(c) \/ SendInvite(c) \/ UndoInvite(c)
  \/ ListCreated(c) \/ \E i \in Invites : CreateInvite(c, i)

VisitStep(a) ==
  \/ AcceptBegin(a) \/ Spend(a) \/ LockAccount(a) \/ Seat(a) \/ Explain(a) \/ Mint(a)
  \/ \E t \in Fresh : Register(a, t)

Request(a) ==
  \/ \E i \in Invites, pw \in Passwords : AcceptEnter(a, i, pw)
  \/ \E e \in Emails, pw \in Passwords : RegisterEnter(a, e, pw) \/ Login(a, e, pw)
  \/ \E tk \in tokens : Refresh(a, tk) \/ \E t \in Tenants : SwitchTenant(a, tk, t)

Next ==
  \/ \E c \in Creates :
       \/ CreateStep(c) \/ CreateCrash(c)
       \/ \E t \in Tenants, e \in Emails, ps \in SUBSET Props \ {{}} : CreateEnter(c, t, e, ps)
  \/ \E a \in Visits : VisitStep(a) \/ AcceptFault(a) \/ Request(a)
  \/ \E i \in Invites : Revoke(i) \/ Lapse(i)
  \/ \E t \in Tenants :
       \/ ReplaceAssignments(t)
       \/ \E e \in Emails :
            \/ RemoveStaff(t, e)
            \/ \E ps \in SUBSET Props \ {{}} : EditEnter(t, e, ps)

Spec == Init /\ [][Next]_vars

-----------------------------------------------------------------------------
\* "The ORDER is the concurrency control": of all accepts of an invite, also those
\* that crash, lose the race or are refused for their password, exactly one seats
\* somebody when the invite is spent, and none when it is not.
SpentExactlyOnce ==
  \A i \in Invites :
    Cardinality({a \in Visits : visit[a].won /\ visit[a].invite = i})
      = IF inv[i].state = "accepted" THEN 1 ELSE 0

\* An invite "can only cost a retry, never a wrongly-claimed account": the password
\* of an account with a seat is not overwritten, whatever was true of the account
\* when the accept page was shown.
LiveAccountKeepsItsPassword ==
  [][\A e \in Emails : Seats(e) # {} => account'[e] = account[e]]_vars

\* A token outlives its seat, but opens no property of a tenant in which its holder has
\* no seat in that role: no edit of assignments and no accept leaves a grant, or brings
\* one back, behind a removal (replaceAssignments, removeStaff, user_property).
TokenSeesItsSeat ==
  \A tk \in tokens : Sees(tk) # {} => seat[tk.user][tk.tenant] = tk.role

\* invite_already_pending is never the answer because of an invite that had run
\* out of time before the request.
RefusalNamesALiveInvite ==
  \A c \in Creates : create[c].answer = "pending" => create[c].sawLive
=============================================================================
