---------------------------- MODULE AccountsProofs ----------------------------
(***************************************************************************)
(* Proofs about accounts, seats and invites, for any number of addresses,  *)
(* tenants, invites and requests.                                          *)
(*                                                                         *)
(* AccountsProtocol is the inductive invariant: what an accept between its *)
(* statements owes the two rows it has locked, for whom invites, creates   *)
(* and edits in flight can be, and what the winner of an invite left.      *)
(***************************************************************************)
EXTENDS Accounts, FiniteSetTheorems, TLAPS

\* An accept is for an invite that exists and has its address; every other request
\* past its first step has the address and the password it needs.
VisitsHaveTheirRows ==
  \A a \in Visits :
    /\ visit[a].at \in {"entered", "begun", "spent", "locked", "explaining"} =>
         /\ visit[a].email \in Emails /\ visit[a].typed \in Passwords
         /\ visit[a].invite \in Invites
         /\ inv[visit[a].invite].state # "none"
         /\ inv[visit[a].invite].email = visit[a].email
    /\ visit[a].at = "registering" => visit[a].email \in Emails /\ visit[a].typed \in Passwords
    /\ visit[a].at = "minting" => visit[a].email \in Emails

\* A tenant that exists, and an address that does not own it.
MayBeStaff(t, e) == t \in Tenants /\ e \in Emails /\ Born(t) /\ seat[e][t] # "owner"

\* Invites, creates and edits are for addresses that may be staff: an owner was one
\* before anything could name the tenant.
NobodyInvitesAnOwner ==
  /\ \A i \in Invites : /\ inv[i].state # "none" => MayBeStaff(inv[i].tenant, inv[i].email)
                        /\ inv[i].mailed => inv[i].state # "none"
  /\ \A c \in Creates :
       /\ create[c].at \notin {"idle", "done"} => MayBeStaff(create[c].tenant, create[c].email)
       /\ create[c].at \in {"mailing", "undoing", "listing"} =>
            create[c].invite \in Invites /\ inv[create[c].invite].state # "none"
  /\ \A t \in Tenants : edit[t].at = "replacing" => MayBeStaff(t, edit[t].email)

\* An accept past its guarded update has the open invite to itself.
InviteIsLocked ==
  /\ \A a \in Visits : visit[a].at \in {"spent", "locked"} => inv[visit[a].invite].state = "open"
  /\ \A a, b \in Visits :
       /\ visit[a].at \in {"spent", "locked"} /\ visit[b].at \in {"spent", "locked"}
       /\ visit[a].invite = visit[b].invite
       => a = b

\* An accept that found an account has its row to itself, and one that reclaims it
\* still finds it inert.
AccountIsLocked ==
  /\ \A e \in Emails : account[e] = None => Seats(e) = {}
  /\ \A a \in Visits : visit[a].at = "locked" =>
       /\ visit[a].how \in {"create", "load", "reclaim"}
       /\ visit[a].how # "create" => account[visit[a].email] # None
       /\ visit[a].how = "reclaim" => Seats(visit[a].email) = {}
  /\ \A e \in Emails : \A a, b \in Holders(e) : a = b

\* SpentExactlyOnce, without counting.
OneWinner ==
  /\ \A a \in Visits : visit[a].won =>
       /\ visit[a].at \in {"minting", "done"} /\ visit[a].invite \in Invites
       /\ inv[visit[a].invite].state = "accepted"
  /\ \A a, b \in Visits :
       visit[a].won /\ visit[b].won /\ visit[a].invite = visit[b].invite => a = b
  /\ \A i \in Invites : inv[i].state = "accepted" =>
       \E a \in Visits : visit[a].won /\ visit[a].invite = i

\* Assignments are those of staff, and an owner's token is an owner's.
AssignmentsAreOfStaff == \A e \in Emails, t \in Tenants : grants[e][t] # {} => seat[e][t] = "staff"

OwnersStayOwners == \A tk \in tokens : tk.role = "owner" => seat[tk.user][tk.tenant] = "owner"

\* What a create that has not inserted yet can still meet, it saw live.
MetOnlyLiveInvites ==
  \A c \in Creates :
    LET open == Open(create[c].tenant, create[c].email)
    IN /\ create[c].at = "superseding" => \A i \in open : inv[i].lapsed \/ create[c].sawLive
       /\ create[c].at \in {"checking", "inserting"} => \A i \in open : create[c].sawLive

AccountsProtocol ==
  /\ TypeOK
  /\ VisitsHaveTheirRows
  /\ NobodyInvitesAnOwner
  /\ InviteIsLocked
  /\ AccountIsLocked
  /\ OneWinner
  /\ AssignmentsAreOfStaff
  /\ OwnersStayOwners
  /\ MetOnlyLiveInvites
  /\ RefusalNamesALiveInvite
-----------------------------------------------------------------------------
\* The types of the rows and of the requests.
Roles == {"none", "staff", "owner"}

InvRow ==
  [state: {"none", "open", "accepted", "revoked"}, lapsed: BOOLEAN, mailed: BOOLEAN,
   tenant: Tenants \cup {None}, email: Emails \cup {None}, props: SUBSET Props]

CreateRow ==
  [at: {"idle", "superseding", "checking", "inserting", "mailing", "undoing", "listing", "done"},
   tenant: Tenants \cup {None}, email: Emails \cup {None}, props: SUBSET Props,
   invite: Invites \cup {None}, sawLive: BOOLEAN,
   answer: {"none", "created", "email_taken", "pending", "unsent", "not_found"}]

VisitRow ==
  [at: {"idle", "entered", "begun", "spent", "locked", "explaining", "registering", "minting",
        "done"},
   email: Emails \cup {None}, typed: Passwords \cup {None},
   prefer: Tenants \cup {None}, invite: Invites \cup {None},
   verified: BOOLEAN, live: BOOLEAN,
   how: {"none", "create", "load", "reclaim"}, won: BOOLEAN,
   answer: {"none", "session", "unauthorized", "no_seat", "not_found", "email_taken",
            "accepted", "expired", "revoked", "error"}]

EditRow == [at: {"idle", "replacing"}, email: Emails \cup {None}, props: SUBSET Props]

LEMMA RowsAreTyped ==
  TypeOK <=> /\ account \in [Emails -> Passwords \cup {None}]
             /\ seat \in [Emails -> [Tenants -> Roles]]
             /\ grants \in [Emails -> [Tenants -> SUBSET Props]]
             /\ inv \in [Invites -> InvRow]
             /\ create \in [Creates -> CreateRow]
             /\ visit \in [Visits -> VisitRow]
             /\ edit \in [Tenants -> EditRow]
             /\ tokens \subseteq Token
             /\ faults \in 0 .. MaxFaults
BY DEF TypeOK, Roles, InvRow, CreateRow, VisitRow, EditRow

\* Steps of an invite leave a row of its type.
LEMMA InvRowMoves ==
  /\ \A r \in InvRow, s \in {"open", "accepted", "revoked"} : [r EXCEPT !.state = s] \in InvRow
  /\ \A r \in InvRow, m \in BOOLEAN : [r EXCEPT !.mailed = m] \in InvRow
  /\ \A r \in InvRow : [r EXCEPT !.lapsed = TRUE] \in InvRow
  /\ \A t \in Tenants \cup {None}, e \in Emails \cup {None}, ps \in SUBSET Props :
       [NoInvite EXCEPT !.state = "open", !.tenant = t, !.email = e, !.props = ps] \in InvRow
BY DEF InvRow, NoInvite

\* Steps of a create leave a request of its type.
LEMMA CreateRowMoves ==
  /\ \A r \in CreateRow, at \in {"checking", "inserting", "listing", "undoing"} :
       [r EXCEPT !.at = at] \in CreateRow
  /\ \A r \in CreateRow : [r EXCEPT !.sawLive = TRUE] \in CreateRow
  /\ \A r \in CreateRow, i \in Invites : [r EXCEPT !.at = "mailing", !.invite = i] \in CreateRow
  /\ \A r \in CreateRow,
        x \in {"none", "created", "email_taken", "pending", "unsent", "not_found"} :
       [NewCreate EXCEPT !.at = "done", !.answer = x, !.sawLive = r.sawLive] \in CreateRow
  /\ \A t \in Tenants, e \in Emails, ps \in SUBSET Props, saw \in BOOLEAN,
        at \in {"done", "superseding"}, x \in {"email_taken", "none"} :
       [NewCreate EXCEPT !.tenant = t, !.email = e, !.props = ps, !.sawLive = saw,
                         !.at = at, !.answer = x] \in CreateRow
<1>1. \A r \in CreateRow, at \in {"checking", "inserting", "listing", "undoing"} :
       [r EXCEPT !.at = at] \in CreateRow
  BY DEF CreateRow, NewCreate
<1>2. \A r \in CreateRow : [r EXCEPT !.sawLive = TRUE] \in CreateRow
  BY DEF CreateRow, NewCreate
<1>3. \A r \in CreateRow, i \in Invites : [r EXCEPT !.at = "mailing", !.invite = i] \in CreateRow
  BY DEF CreateRow, NewCreate
<1>4. \A r \in CreateRow,
        x \in {"none", "created", "email_taken", "pending", "unsent", "not_found"} :
       [NewCreate EXCEPT !.at = "done", !.answer = x, !.sawLive = r.sawLive] \in CreateRow
  BY DEF CreateRow, NewCreate
<1>5. \A t \in Tenants, e \in Emails, ps \in SUBSET Props, saw \in BOOLEAN,
        at \in {"done", "superseding"}, x \in {"email_taken", "none"} :
       [NewCreate EXCEPT !.tenant = t, !.email = e, !.props = ps, !.sawLive = saw,
                         !.at = at, !.answer = x] \in CreateRow
  BY ZenonT(60) DEF CreateRow, NewCreate
<1>6. QED BY <1>1, <1>2, <1>3, <1>4, <1>5

\* Steps of a visit leave a request of its type.
LEMMA VisitRowMoves ==
  /\ \A r \in VisitRow, at \in {"spent", "explaining", "minting"} :
       [r EXCEPT !.at = at] \in VisitRow
  /\ \A r \in VisitRow, how \in {"create", "load", "reclaim"} :
       [r EXCEPT !.at = "locked", !.how = how] \in VisitRow
  /\ \A r \in VisitRow, live \in BOOLEAN : [r EXCEPT !.at = "begun", !.live = live] \in VisitRow
  /\ \A r \in VisitRow : [r EXCEPT !.at = "minting", !.won = TRUE] \in VisitRow
  /\ \A r \in VisitRow,
        x \in {"session", "unauthorized", "no_seat", "not_found", "email_taken", "accepted",
               "expired", "revoked", "error"} :
       [NewVisit EXCEPT !.at = "done", !.answer = x, !.invite = r.invite, !.won = r.won]
         \in VisitRow
  /\ \A e \in Emails, pw \in Passwords, i \in Invites, t \in Tenants \cup {None},
        v \in BOOLEAN :
       [NewVisit EXCEPT !.at = "entered", !.email = e, !.typed = pw, !.invite = i,
                        !.prefer = t, !.verified = v] \in VisitRow
  /\ \A e \in Emails, pw \in Passwords :
       [NewVisit EXCEPT !.at = "registering", !.email = e, !.typed = pw] \in VisitRow
  /\ \A e \in Emails : [NewVisit EXCEPT !.at = "minting", !.email = e] \in VisitRow
  /\ \A e \in Emails, t \in Tenants :
       [NewVisit EXCEPT !.at = "minting", !.email = e, !.prefer = t] \in VisitRow
<1>1. \A r \in VisitRow, at \in {"spent", "explaining", "minting"} :
       [r EXCEPT !.at = at] \in VisitRow
  BY DEF VisitRow, NewVisit
<1>2. \A r \in VisitRow, how \in {"create", "load", "reclaim"} :
       [r EXCEPT !.at = "locked", !.how = how] \in VisitRow
  BY ZenonT(60) DEF VisitRow, NewVisit
<1>3. \A r \in VisitRow, live \in BOOLEAN : [r EXCEPT !.at = "begun", !.live = live] \in VisitRow
  BY ZenonT(60) DEF VisitRow, NewVisit
<1>4. ASSUME NEW r \in VisitRow PROVE [r EXCEPT !.at = "minting", !.won = TRUE] \in VisitRow
  <2>1. [r EXCEPT !.at = "minting"] \in VisitRow
    BY DEF VisitRow
  <2>2. \A s \in VisitRow : [s EXCEPT !.won = TRUE] \in VisitRow
    BY DEF VisitRow
  <2>3. QED BY <2>1, <2>2, Zenon
<1>5. ASSUME NEW r \in VisitRow,
             NEW x \in {"session", "unauthorized", "no_seat", "not_found", "email_taken",
                        "accepted", "expired", "revoked", "error"}
      PROVE  [NewVisit EXCEPT !.at = "done", !.answer = x, !.invite = r.invite, !.won = r.won]
               \in VisitRow
  <2>1. r.invite \in Invites \cup {None} /\ r.won \in BOOLEAN
    BY DEF VisitRow
  <2>2. \A i \in Invites \cup {None} :
          [NewVisit EXCEPT !.at = "done", !.answer = x, !.invite = i] \in VisitRow
    BY DEF VisitRow, NewVisit
  <2>3. \A s \in VisitRow, won \in BOOLEAN : [s EXCEPT !.won = won] \in VisitRow
    BY DEF VisitRow
  <2>4. QED BY <2>1, <2>2, <2>3, Zenon
<1>6. \A e \in Emails, pw \in Passwords, i \in Invites, t \in Tenants \cup {None},
        v \in BOOLEAN :
       [NewVisit EXCEPT !.at = "entered", !.email = e, !.typed = pw, !.invite = i,
                        !.prefer = t, !.verified = v] \in VisitRow
  BY ZenonT(60) DEF VisitRow, NewVisit
<1>7. \A e \in Emails, pw \in Passwords :
       [NewVisit EXCEPT !.at = "registering", !.email = e, !.typed = pw] \in VisitRow
  BY DEF VisitRow, NewVisit
<1>8. \A e \in Emails : [NewVisit EXCEPT !.at = "minting", !.email = e] \in VisitRow
  BY DEF VisitRow, NewVisit
<1>9. \A e \in Emails, t \in Tenants :
       [NewVisit EXCEPT !.at = "minting", !.email = e, !.prefer = t] \in VisitRow
  BY DEF VisitRow, NewVisit
<1>10. QED BY <1>1, <1>2, <1>3, <1>4, <1>5, <1>6, <1>7, <1>8, <1>9

\* Why an invite was not live is one of the answers.
LEMMA RefusalIsAnAnswer ==
  \A i \in Invites : RefusalReason(i) \in {"accepted", "expired", "revoked"}
BY DEF RefusalReason

-----------------------------------------------------------------------------
\* A step of a visit writes one request, and it is a request again.
LEMMA VisitWrites ==
  ASSUME TypeOK, VisitsHaveTheirRows, NobodyInvitesAnOwner, NEW a \in Visits,
         VisitStep(a) \/ AcceptFault(a) \/ Request(a)
  PROVE  \E r \in VisitRow : visit' = [visit EXCEPT ![a] = r]
<1>0. visit \in [Visits -> VisitRow] /\ visit[a] \in VisitRow
  BY RowsAreTyped
<1>1. ASSUME NEW x \in {"session", "unauthorized", "no_seat", "not_found", "email_taken",
                        "accepted", "expired", "revoked", "error"},
             Answered(a, x)
      PROVE  \E r \in VisitRow : visit' = [visit EXCEPT ![a] = r]
  BY <1>0, <1>1, VisitRowMoves DEF Answered
<1>2. ASSUME NEW i \in Invites, NEW pw \in Passwords, AcceptEnter(a, i, pw)
      PROVE  \E r \in VisitRow : visit' = [visit EXCEPT ![a] = r]
  <2>1. inv[i].state # "none"
    BY <1>2 DEF AcceptEnter, NobodyInvitesAnOwner
  <2>2. inv[i].email \in Emails /\ inv[i].tenant \in Tenants
    BY <2>1 DEF NobodyInvitesAnOwner, MayBeStaff
  <2>3. CASE Answered(a, "unauthorized")
    BY <1>1, <2>3
  <2>4. CASE ~Answered(a, "unauthorized")
    <3> DEFINE signin == AcceptMode(inv[i].email) = "signin"
               r == [NewVisit EXCEPT !.at = "entered", !.email = inv[i].email, !.typed = pw,
                                     !.invite = i, !.prefer = inv[i].tenant,
                                     !.verified = signin]
    <3>1. visit' = [visit EXCEPT ![a] = r]
      BY <1>2, <2>4 DEF AcceptEnter
    <3>2. r \in VisitRow
      <4>1. signin \in BOOLEAN
        OBVIOUS
      <4> HIDE DEF signin
      <4>2. QED BY <2>2, <4>1, VisitRowMoves
    <3>3. QED BY <3>1, <3>2
  <2>5. QED BY <2>3, <2>4
<1>3. ASSUME AcceptBegin(a)
      PROVE  \E r \in VisitRow : visit' = [visit EXCEPT ![a] = r]
  <2> DEFINE live == ~inv[visit[a].invite].lapsed
             r == [visit[a] EXCEPT !.at = "begun", !.live = live]
  <2>1. r \in VisitRow
    BY <1>0, VisitRowMoves
  <2>2. visit' = [visit EXCEPT ![a] = r]
    BY <1>0, <1>3 DEF AcceptBegin
  <2>3. QED BY <2>1, <2>2
<1>4. ASSUME Spend(a)
      PROVE  \E r \in VisitRow : visit' = [visit EXCEPT ![a] = r]
  <2> DEFINE at == IF inv[visit[a].invite].state = "open" /\ visit[a].live
                   THEN "spent" ELSE "explaining"
             r == [visit[a] EXCEPT !.at = at]
  <2>1. r \in VisitRow
    BY <1>0, VisitRowMoves
  <2>2. visit' = [visit EXCEPT ![a] = r]
    BY <1>0, <1>4 DEF Spend
  <2>3. QED BY <2>1, <2>2
<1>5. ASSUME LockAccount(a)
      PROVE  \E r \in VisitRow : visit' = [visit EXCEPT ![a] = r]
  <2>1. CASE Answered(a, "unauthorized")
    BY <1>1, <2>1
  <2>2. CASE ~Answered(a, "unauthorized")
    <3> DEFINE how == IF account[visit[a].email] = None THEN "create"
                      ELSE IF visit[a].verified THEN "load" ELSE "reclaim"
               r == [visit[a] EXCEPT !.at = "locked", !.how = how]
    <3>1. r \in VisitRow
      BY <1>0, VisitRowMoves
    <3>2. visit' = [visit EXCEPT ![a] = r]
      BY <1>0, <1>5, <2>2 DEF LockAccount
    <3>3. QED BY <3>1, <3>2
  <2>3. QED BY <2>1, <2>2
<1>6. ASSUME Seat(a)
      PROVE  \E r \in VisitRow : visit' = [visit EXCEPT ![a] = r]
  <2>1. CASE Answered(a, "email_taken")
    BY <1>1, <2>1
  <2>2. CASE ~Answered(a, "email_taken")
    <3> DEFINE r == [visit[a] EXCEPT !.at = "minting", !.won = TRUE]
    <3>1. r \in VisitRow
      BY <1>0, VisitRowMoves
    <3>2. visit' = [visit EXCEPT ![a] = r]
      BY <1>0, <1>6, <2>2 DEF Seat
    <3>3. QED BY <3>1, <3>2
  <2>3. QED BY <2>1, <2>2
<1>7. ASSUME Explain(a)
      PROVE  \E r \in VisitRow : visit' = [visit EXCEPT ![a] = r]
  <2>1. RefusalReason(visit[a].invite) \in {"accepted", "expired", "revoked"}
    BY <1>7, RefusalIsAnAnswer DEF Explain, VisitsHaveTheirRows
  <2>2. Answered(a, RefusalReason(visit[a].invite))
    BY <1>7 DEF Explain
  <2>3. QED BY <1>1, <2>1, <2>2
<1>8. ASSUME Mint(a) \/ AcceptFault(a) \/ \E tk \in tokens, t \in Tenants : SwitchTenant(a, tk, t)
      PROVE  \E r \in VisitRow : visit' = [visit EXCEPT ![a] = r]
  <2>1. Answered(a, "no_seat") \/ Answered(a, "session") \/ Answered(a, "error")
          \/ Answered(a, "not_found")
    BY <1>8 DEF Mint, AcceptFault, SwitchTenant
  <2>2. QED BY <1>1, <2>1
<1>9. ASSUME NEW t \in Fresh, Register(a, t)
      PROVE  \E r \in VisitRow : visit' = [visit EXCEPT ![a] = r]
  <2>1. CASE Answered(a, "email_taken")
    BY <1>1, <2>1
  <2>2. CASE ~Answered(a, "email_taken")
    <3>1. visit' = [visit EXCEPT ![a] = [visit[a] EXCEPT !.at = "minting"]]
      BY <1>0, <1>9, <2>2 DEF Register
    <3>2. QED BY <1>0, <3>1, VisitRowMoves
  <2>3. QED BY <2>1, <2>2
<1>10. ASSUME NEW e \in Emails, NEW pw \in Passwords, RegisterEnter(a, e, pw) \/ Login(a, e, pw)
       PROVE  \E r \in VisitRow : visit' = [visit EXCEPT ![a] = r]
  <2>1. CASE Answered(a, "email_taken") \/ Answered(a, "unauthorized")
    BY <1>1, <2>1
  <2>2. CASE ~Answered(a, "email_taken") /\ ~Answered(a, "unauthorized")
    BY <1>10, <2>2, VisitRowMoves DEF RegisterEnter, Login
  <2>3. QED BY <2>1, <2>2
<1>11. ASSUME NEW tk \in tokens, Refresh(a, tk)
       PROVE  \E r \in VisitRow : visit' = [visit EXCEPT ![a] = r]
  <2>1. tk.user \in Emails /\ tk.tenant \in Tenants
    BY DEF TypeOK, Token
  <2>2. QED BY <1>11, <2>1, VisitRowMoves DEF Refresh
<1>12. QED
  BY <1>2, <1>3, <1>4, <1>5, <1>6, <1>7, <1>8, <1>9, <1>10, <1>11 DEF VisitStep, Request

\* Which actions write what.
LEMMA WhoWrites ==
  ASSUME [Next]_vars
  PROVE  /\ visit' = visit \/ \E a \in Visits : VisitStep(a) \/ AcceptFault(a) \/ Request(a)
         /\ \/ create' = create
            \/ \E c \in Creates :
                 \/ CreateStep(c) \/ CreateCrash(c)
                 \/ \E t \in Tenants, e \in Emails, ps \in SUBSET Props : CreateEnter(c, t, e, ps)
         /\ \/ edit' = edit
            \/ \E t \in Tenants :
                 \/ ReplaceAssignments(t)
                 \/ \E e \in Emails, ps \in SUBSET Props : EditEnter(t, e, ps)
         /\ \/ inv' = inv
            \/ \E c \in Creates : \/ SupersedeExpiredInvites(c) \/ SendInvite(c) \/ UndoInvite(c)
                                  \/ \E i \in Invites : CreateInvite(c, i)
            \/ \E a \in Visits : Seat(a)
            \/ \E i \in Invites : Revoke(i) \/ Lapse(i)
         /\ \/ grants' = grants
            \/ \E a \in Visits : Seat(a)
            \/ \E t \in Tenants : ReplaceAssignments(t) \/ \E e \in Emails : RemoveStaff(t, e)
         /\ \/ seat' = seat
            \/ \E a \in Visits : Seat(a) \/ \E t \in Fresh : Register(a, t)
            \/ \E t \in Tenants, e \in Emails : RemoveStaff(t, e)
         /\ \/ account' = account
            \/ \E a \in Visits : Seat(a) \/ \E t \in Fresh : Register(a, t)
         /\ \/ tokens' = tokens
            \/ \E a \in Visits :
                 Mint(a) \/ \E tk \in tokens, t \in Tenants : SwitchTenant(a, tk, t)
         /\ faults' = faults \/ (faults < MaxFaults /\ faults' = faults + 1)
<1>1. visit' = visit \/ \E a \in Visits : VisitStep(a) \/ AcceptFault(a) \/ Request(a)
  BY DEF Next, CreateStep, CheckLive, ListCreated, CreateCrash, CreateEnter, ReplaceAssignments,
         RemoveStaff, EditEnter, SupersedeExpiredInvites, SendInvite, UndoInvite, CreateInvite,
         Revoke, Lapse, vars
<1>2. \/ create' = create
      \/ \E c \in Creates :
           \/ CreateStep(c) \/ CreateCrash(c)
           \/ \E t \in Tenants, e \in Emails, ps \in SUBSET Props : CreateEnter(c, t, e, ps)
  BY ZenonT(60) DEF Next, VisitStep, AcceptBegin, Spend, LockAccount, Explain, Mint, AcceptFault, Request,
         Seat, Register, AcceptEnter, RegisterEnter, Login, Refresh, SwitchTenant,
         ReplaceAssignments, RemoveStaff, EditEnter, Revoke, Lapse, vars
<1>3. \/ edit' = edit
      \/ \E t \in Tenants :
           \/ ReplaceAssignments(t)
           \/ \E e \in Emails, ps \in SUBSET Props : EditEnter(t, e, ps)
  BY ZenonT(60) DEF Next, CreateStep, CheckLive, ListCreated, CreateCrash, CreateEnter, VisitStep,
         AcceptBegin, Spend, LockAccount, Explain, Mint, AcceptFault, Request, Seat, Register,
         AcceptEnter, RegisterEnter, Login, Refresh, SwitchTenant, RemoveStaff,
         SupersedeExpiredInvites, SendInvite, UndoInvite, CreateInvite, Revoke, Lapse, vars
<1>4. \/ inv' = inv
      \/ \E c \in Creates : \/ SupersedeExpiredInvites(c) \/ SendInvite(c) \/ UndoInvite(c)
                            \/ \E i \in Invites : CreateInvite(c, i)
      \/ \E a \in Visits : Seat(a)
      \/ \E i \in Invites : Revoke(i) \/ Lapse(i)
  BY ZenonT(60) DEF Next, CreateStep, CheckLive, ListCreated, CreateCrash, CreateEnter, VisitStep,
         AcceptBegin, Spend, LockAccount, Explain, Mint, AcceptFault, Request, Register,
         AcceptEnter, RegisterEnter, Login, Refresh, SwitchTenant, ReplaceAssignments,
         RemoveStaff, EditEnter, vars
<1>5. \/ grants' = grants
      \/ \E a \in Visits : Seat(a)
      \/ \E t \in Tenants : ReplaceAssignments(t) \/ \E e \in Emails : RemoveStaff(t, e)
  BY ZenonT(60) DEF Next, CreateStep, CheckLive, ListCreated, CreateCrash, CreateEnter, VisitStep,
         AcceptBegin, Spend, LockAccount, Explain, Mint, AcceptFault, Request, Register,
         AcceptEnter, RegisterEnter, Login, Refresh, SwitchTenant, EditEnter,
         SupersedeExpiredInvites, SendInvite, UndoInvite, CreateInvite, Revoke, Lapse, vars
<1>6. \/ seat' = seat
      \/ \E a \in Visits : Seat(a) \/ \E t \in Fresh : Register(a, t)
      \/ \E t \in Tenants, e \in Emails : RemoveStaff(t, e)
  BY ZenonT(60) DEF Next, CreateStep, CheckLive, ListCreated, CreateCrash, CreateEnter, VisitStep,
         AcceptBegin, Spend, LockAccount, Explain, Mint, AcceptFault, Request, AcceptEnter,
         RegisterEnter, Login, Refresh, SwitchTenant, ReplaceAssignments, EditEnter,
         SupersedeExpiredInvites, SendInvite, UndoInvite, CreateInvite, Revoke, Lapse, vars
<1>7. \/ account' = account
      \/ \E a \in Visits : Seat(a) \/ \E t \in Fresh : Register(a, t)
  BY ZenonT(60) DEF Next, CreateStep, CheckLive, ListCreated, CreateCrash, CreateEnter, VisitStep,
         AcceptBegin, Spend, LockAccount, Explain, Mint, AcceptFault, Request, AcceptEnter,
         RegisterEnter, Login, Refresh, SwitchTenant, ReplaceAssignments, RemoveStaff,
         EditEnter, SupersedeExpiredInvites, SendInvite, UndoInvite, CreateInvite, Revoke,
         Lapse, vars
<1>8. \/ tokens' = tokens
      \/ \E a \in Visits :
          Mint(a) \/ \E tk \in tokens, t \in Tenants : SwitchTenant(a, tk, t)
  BY ZenonT(60) DEF Next, CreateStep, CheckLive, ListCreated, CreateCrash, CreateEnter, VisitStep,
         AcceptBegin, Spend, LockAccount, Explain, AcceptFault, Request, Seat, Register,
         AcceptEnter, RegisterEnter, Login, Refresh, ReplaceAssignments, RemoveStaff, EditEnter,
         SupersedeExpiredInvites, SendInvite, UndoInvite, CreateInvite, Revoke, Lapse, vars
<1>9. faults' = faults \/ (faults < MaxFaults /\ faults' = faults + 1)
  BY ZenonT(60) DEF Next, CreateStep, CheckLive, ListCreated, CreateCrash, CreateEnter, VisitStep,
         AcceptBegin, Spend, LockAccount, Explain, Mint, AcceptFault, Request, Seat, Register,
         AcceptEnter, RegisterEnter, Login, Refresh, SwitchTenant, ReplaceAssignments,
         RemoveStaff, EditEnter, SupersedeExpiredInvites, SendInvite, UndoInvite, CreateInvite,
         Revoke, Lapse, vars
<1>10. QED BY <1>1, <1>2, <1>3, <1>4, <1>5, <1>6, <1>7, <1>8, <1>9, Zenon

\* What a step does to an invite: it is inserted by a create, revoked when nobody is
\* spending it, accepted by the accept that is, mailed, or runs out of time.
LEMMA InviteMoves ==
  ASSUME TypeOK, VisitsHaveTheirRows, NobodyInvitesAnOwner, [Next]_vars, NEW i \in Invites
  PROVE  \/ inv'[i] = inv[i]
         \/ \E c \in Creates : /\ CreateInvite(c, i) /\ inv[i].state = "none"
                               /\ Open(create[c].tenant, create[c].email) = {}
                               /\ inv'[i] = [NoInvite EXCEPT !.state = "open",
                                     !.tenant = create[c].tenant, !.email = create[c].email,
                                     !.props = create[c].props]
         \/ /\ inv[i].state = "open" /\ Spenders(i) = {}
            /\ inv'[i] = [inv[i] EXCEPT !.state = "revoked"] /\ UNCHANGED visit
         \/ \E a \in Visits : /\ Seat(a) /\ visit[a].invite = i /\ UNCHANGED create
                              /\ inv'[i] = [inv[i] EXCEPT !.state = "accepted"]
         \/ /\ \E c \in Creates : SendInvite(c) /\ create[c].invite = i
            /\ inv[i].state # "none" /\ UNCHANGED visit
            /\ \E m \in BOOLEAN : inv'[i] = [inv[i] EXCEPT !.mailed = m]
         \/ /\ inv[i].state # "none" /\ inv'[i] = [inv[i] EXCEPT !.lapsed = TRUE]
            /\ UNCHANGED <<visit, create>>
<1> USE DEF TypeOK
<1>1. \/ inv' = inv
      \/ \E c \in Creates : \/ SupersedeExpiredInvites(c) \/ SendInvite(c) \/ UndoInvite(c)
                            \/ \E j \in Invites : CreateInvite(c, j)
      \/ \E a \in Visits : Seat(a)
      \/ \E j \in Invites : Revoke(j) \/ Lapse(j)
  BY WhoWrites
<1>2. ASSUME NEW c \in Creates, SupersedeExpiredInvites(c), inv'[i] # inv[i]
      PROVE  /\ inv[i].state = "open" /\ Spenders(i) = {}
             /\ inv'[i] = [inv[i] EXCEPT !.state = "revoked"] /\ UNCHANGED visit
  <2>1. /\ i \in {j \in Open(create[c].tenant, create[c].email) : inv[j].lapsed}
        /\ Spenders(i) = {}
    BY <1>2 DEF SupersedeExpiredInvites
  <2>2. QED BY <1>2, <2>1 DEF SupersedeExpiredInvites, Open
<1>3. ASSUME NEW c \in Creates, SendInvite(c), inv'[i] # inv[i]
      PROVE  /\ create[c].invite = i /\ inv[i].state # "none" /\ UNCHANGED visit
             /\ \E m \in BOOLEAN : inv'[i] = [inv[i] EXCEPT !.mailed = m]
  <2>1. create[c].invite \in Invites /\ inv[create[c].invite].state # "none"
    BY <1>3 DEF SendInvite, NobodyInvitesAnOwner
  <2>2. PICK m \in BOOLEAN : inv' = [inv EXCEPT ![create[c].invite].mailed = m]
    BY <1>3 DEF SendInvite
  <2>3. QED BY <1>3, <2>1, <2>2 DEF SendInvite
<1>4. ASSUME NEW j \in Invites, RevokeIn(j), UNCHANGED visit, inv'[i] # inv[i]
      PROVE  /\ inv[i].state = "open" /\ Spenders(i) = {}
             /\ inv'[i] = [inv[i] EXCEPT !.state = "revoked"] /\ UNCHANGED visit
  BY <1>4 DEF RevokeIn
<1>5. ASSUME NEW c \in Creates, UndoInvite(c), inv'[i] # inv[i]
      PROVE  /\ inv[i].state = "open" /\ Spenders(i) = {}
             /\ inv'[i] = [inv[i] EXCEPT !.state = "revoked"] /\ UNCHANGED visit
  <2>1. create[c].invite \in Invites
    BY <1>5 DEF UndoInvite, NobodyInvitesAnOwner
  <2>2. QED BY <1>4, <1>5, <2>1 DEF UndoInvite
<1>6. ASSUME NEW c \in Creates, NEW j \in Invites, CreateInvite(c, j), inv'[i] # inv[i]
      PROVE  /\ CreateInvite(c, i) /\ inv[i].state = "none"
             /\ Open(create[c].tenant, create[c].email) = {}
             /\ inv'[i] = [NoInvite EXCEPT !.state = "open", !.tenant = create[c].tenant,
                                           !.email = create[c].email, !.props = create[c].props]
  <2>1. j = i
    BY <1>6 DEF CreateInvite
  <2>2. QED BY <1>6, <2>1 DEF CreateInvite
<1>7. ASSUME NEW a \in Visits, Seat(a), inv'[i] # inv[i]
      PROVE  /\ visit[a].invite = i /\ UNCHANGED create
             /\ inv'[i] = [inv[i] EXCEPT !.state = "accepted"]
  <2>1. visit[a].invite \in Invites /\ UNCHANGED create
    BY <1>7 DEF Seat, VisitsHaveTheirRows
  <2>2. inv' = [inv EXCEPT ![visit[a].invite].state = "accepted"]
    BY <1>7 DEF Seat
  <2>3. QED BY <1>7, <2>1, <2>2
<1>8. ASSUME NEW j \in Invites, Lapse(j), inv'[i] # inv[i]
      PROVE  /\ inv[i].state # "none" /\ inv'[i] = [inv[i] EXCEPT !.lapsed = TRUE]
             /\ UNCHANGED <<visit, create>>
  BY <1>8 DEF Lapse
<1>9. ASSUME NEW j \in Invites, Revoke(j), inv'[i] # inv[i]
      PROVE  /\ inv[i].state = "open" /\ Spenders(i) = {}
             /\ inv'[i] = [inv[i] EXCEPT !.state = "revoked"] /\ UNCHANGED visit
  BY <1>4, <1>9 DEF Revoke
<1>10. CASE inv'[i] = inv[i]
  BY <1>10, Zenon
<1>11. CASE \E c \in Creates, j \in Invites : CreateInvite(c, j) /\ inv'[i] # inv[i]
  BY <1>6, <1>11, Zenon
<1>12. CASE \E a \in Visits : Seat(a) /\ inv'[i] # inv[i]
  BY <1>7, <1>12, Zenon
<1>13. CASE \E c \in Creates : SendInvite(c) /\ inv'[i] # inv[i]
  BY <1>3, <1>13, Zenon
<1>14. CASE \E j \in Invites : Lapse(j) /\ inv'[i] # inv[i]
  BY <1>8, <1>14, Zenon
<1>15. CASE \/ \E c \in Creates : (SupersedeExpiredInvites(c) \/ UndoInvite(c)) /\ inv'[i] # inv[i]
            \/ \E j \in Invites : Revoke(j) /\ inv'[i] # inv[i]
  BY <1>2, <1>5, <1>9, <1>15, Zenon
<1>16. QED BY <1>1, <1>10, <1>11, <1>12, <1>13, <1>14, <1>15, Zenon

\* So an invite that exists keeps its tenant and its address, and once it is not open
\* it stays what it is.
LEMMA InvitesKeepTheirNames ==
  ASSUME TypeOK, VisitsHaveTheirRows, NobodyInvitesAnOwner, [Next]_vars, NEW i \in Invites,
         inv[i].state # "none"
  PROVE  /\ inv'[i].state # "none"
         /\ inv'[i].tenant = inv[i].tenant /\ inv'[i].email = inv[i].email
<1>1. inv[i] \in InvRow
  BY RowsAreTyped
<1>2. QED BY <1>1, InviteMoves DEF InvRow

\* What a step does to a seat: an accept adds it, a registration founds it with the
\* account, or the owner ends it.
LEMMA SeatMoves ==
  ASSUME TypeOK, VisitsHaveTheirRows, NobodyInvitesAnOwner, AccountIsLocked, [Next]_vars,
         NEW e \in Emails, NEW t \in Tenants, seat'[e][t] # seat[e][t]
  PROVE  \/ /\ seat[e][t] = "none" /\ seat'[e][t] = "staff"
            /\ \E a \in Visits : /\ Seat(a) /\ visit[a].email = e
                                 /\ inv[visit[a].invite].tenant = t
         \/ /\ seat[e][t] = "none" /\ seat'[e][t] = "owner" /\ account[e] = None
            /\ ~Born(t) /\ \E a \in Visits : Register(a, t) /\ visit[a].email = e
         \/ /\ seat[e][t] = "staff" /\ seat'[e][t] = "none"
            /\ RemoveStaff(t, e)
<1> USE DEF TypeOK
<1>1. \/ \E a \in Visits : Seat(a) \/ \E x \in Fresh : Register(a, x)
      \/ \E x \in Tenants, d \in Emails : RemoveStaff(x, d)
  BY WhoWrites
<1>2. ASSUME NEW a \in Visits, Seat(a)
      PROVE  /\ seat[e][t] = "none" /\ seat'[e][t] = "staff"
             /\ visit[a].email = e /\ inv[visit[a].invite].tenant = t
  <2>1. visit[a].email \in Emails /\ inv[visit[a].invite].tenant \in Tenants
    BY <1>2 DEF Seat, VisitsHaveTheirRows, NobodyInvitesAnOwner, MayBeStaff
  <2>2. /\ seat' = [seat EXCEPT ![visit[a].email][inv[visit[a].invite].tenant] = "staff"]
        /\ inv[visit[a].invite].tenant \notin Seats(visit[a].email)
    BY <1>2 DEF Seat
  <2>3. visit[a].email = e /\ inv[visit[a].invite].tenant = t
    BY <2>1, <2>2
  <2>4. QED BY <2>1, <2>2, <2>3 DEF Seats
<1>3. ASSUME NEW a \in Visits, NEW x \in Fresh, Register(a, x)
      PROVE  /\ seat[e][t] = "none" /\ seat'[e][t] = "owner" /\ account[e] = None
             /\ x = t /\ ~Born(t) /\ visit[a].email = e
  <2>1. visit[a].email \in Emails /\ x \in Tenants
    BY <1>3 DEF Register, VisitsHaveTheirRows, Tenants
  <2>2. /\ seat' = [seat EXCEPT ![visit[a].email][x] = "owner"]
        /\ account[visit[a].email] = None /\ ~Born(x)
    BY <1>3 DEF Register
  <2>3. visit[a].email = e /\ x = t
    BY <2>1, <2>2
  <2>4. seat[e][t] = "none"
    BY <2>2, <2>3 DEF AccountIsLocked, Seats
  <2>5. QED BY <2>1, <2>2, <2>3, <2>4
<1>4. ASSUME NEW x \in Tenants, NEW d \in Emails, RemoveStaff(x, d)
      PROVE  /\ seat[e][t] = "staff" /\ seat'[e][t] = "none" /\ x = t /\ d = e
  BY <1>4 DEF RemoveStaff
<1>5. QED BY <1>1, <1>2, <1>3, <1>4

\* Only one visit moves at a time.
LEMMA OneVisitMoves ==
  ASSUME TypeOK, VisitsHaveTheirRows, NobodyInvitesAnOwner, [Next]_vars,
         NEW a \in Visits, visit'[a] # visit[a]
  PROVE  /\ VisitStep(a) \/ AcceptFault(a) \/ Request(a)
         /\ \A b \in Visits : b # a => visit'[b] = visit[b]
<1>1. PICK x \in Visits : VisitStep(x) \/ AcceptFault(x) \/ Request(x)
  BY WhoWrites
<1>2. PICK r \in VisitRow : visit' = [visit EXCEPT ![x] = r]
  BY <1>1, VisitWrites
<1>3. x = a
  BY <1>2 DEF TypeOK
<1>4. QED BY <1>1, <1>2, <1>3 DEF TypeOK

\* A step of a create writes its request; the others at most see its invite.
LEMMA CreateMoves ==
  ASSUME TypeOK, NobodyInvitesAnOwner, NEW c \in Creates,
         \/ CreateStep(c) \/ CreateCrash(c)
         \/ \E t \in Tenants, e \in Emails, ps \in SUBSET Props : CreateEnter(c, t, e, ps)
  PROVE  /\ create' \in [Creates -> CreateRow]
         /\ \A d \in Creates : d # c =>
              create'[d] = create[d] \/ create'[d] = [create[d] EXCEPT !.sawLive = TRUE]
<1>0. create \in [Creates -> CreateRow] /\ create[c] \in CreateRow
  BY RowsAreTyped
<1>1. ASSUME NEW x \in {"none", "created", "email_taken", "pending", "unsent", "not_found"},
             CreateAnswered(c, x)
      PROVE  /\ create' \in [Creates -> CreateRow]
             /\ \A d \in Creates : d # c => create'[d] = create[d]
  BY <1>0, <1>1, CreateRowMoves DEF CreateAnswered
<1>2. ASSUME NEW r \in CreateRow, create' = [create EXCEPT ![c] = r]
      PROVE  /\ create' \in [Creates -> CreateRow]
             /\ \A d \in Creates : d # c => create'[d] = create[d]
  BY <1>0, <1>2
<1>3. CASE \/ UndoInvite(c) \/ ListCreated(c) \/ CreateCrash(c)
  <2>1. CreateAnswered(c, "unsent") \/ CreateAnswered(c, "created")
          \/ CreateAnswered(c, "not_found") \/ CreateAnswered(c, "none")
    BY <1>3 DEF UndoInvite, ListCreated, CreateCrash
  <2>2. QED BY <1>1, <2>1
<1>4. CASE SupersedeExpiredInvites(c) \/ CheckLive(c) \/ SendInvite(c)
  <2>1. CASE CreateAnswered(c, "pending")
    BY <1>1, <2>1
  <2>2. CASE ~CreateAnswered(c, "pending")
    <3>1. PICK at \in {"checking", "inserting", "listing", "undoing"} :
            create' = [create EXCEPT ![c].at = at]
      BY <1>4, <2>2 DEF SupersedeExpiredInvites, CheckLive, SendInvite
    <3>2. create' = [create EXCEPT ![c] = [create[c] EXCEPT !.at = at]]
      BY <1>0, <3>1
    <3>3. QED BY <1>0, <1>2, <3>2, CreateRowMoves
  <2>3. QED BY <2>1, <2>2
<1>5. ASSUME NEW t \in Tenants, NEW e \in Emails, NEW ps \in SUBSET Props, CreateEnter(c, t, e, ps)
      PROVE  /\ create' \in [Creates -> CreateRow]
             /\ \A d \in Creates : d # c => create'[d] = create[d]
  <2> DEFINE saw == LiveInvites(t, e) # {}
             at == IF t \in Seats(e) THEN "done" ELSE "superseding"
             x == IF t \in Seats(e) THEN "email_taken" ELSE "none"
             r == [NewCreate EXCEPT !.tenant = t, !.email = e, !.props = ps, !.sawLive = saw,
                                    !.at = at, !.answer = x]
  <2>1. create' = [create EXCEPT ![c] = r]
    BY <1>5 DEF CreateEnter
  <2>2. r \in CreateRow
    <3>1. saw \in BOOLEAN /\ at \in {"done", "superseding"} /\ x \in {"email_taken", "none"}
      OBVIOUS
    <3> HIDE DEF saw, at, x
    <3>2. QED BY <3>1, CreateRowMoves
  <2>3. QED BY <1>2, <2>1, <2>2
<1>6. ASSUME NEW i \in Invites, CreateInvite(c, i)
      PROVE  /\ create' \in [Creates -> CreateRow]
             /\ \A d \in Creates : d # c =>
                  create'[d] = create[d] \/ create'[d] = [create[d] EXCEPT !.sawLive = TRUE]
  <2>1. CASE CreateAnswered(c, "pending")
    BY <1>1, <2>1
  <2>2. CASE ~CreateAnswered(c, "pending")
    <3>1. create' = [d \in Creates |->
             IF d = c THEN [create[c] EXCEPT !.at = "mailing", !.invite = i]
             ELSE IF create[d].tenant = create[c].tenant /\ create[d].email = create[c].email
                     /\ create[d].at # "done"
             THEN [create[d] EXCEPT !.sawLive = TRUE]
             ELSE create[d]]
      BY <1>6, <2>2 DEF CreateInvite
    <3>2. \A r \in CreateRow : /\ [r EXCEPT !.at = "mailing", !.invite = i] \in CreateRow
                               /\ [r EXCEPT !.sawLive = TRUE] \in CreateRow
      BY CreateRowMoves
    <3>3. QED BY <1>0, <3>1, <3>2
  <2>3. QED BY <2>1, <2>2
<1>7. QED BY <1>3, <1>4, <1>5, <1>6 DEF CreateStep

-----------------------------------------------------------------------------
\* Every step keeps every variable in its type.
LEMMA TypeStep ==
  ASSUME TypeOK, VisitsHaveTheirRows, NobodyInvitesAnOwner, [Next]_vars
  PROVE  TypeOK'
<1> USE DEF MayBeStaff
<1>1. account' \in [Emails -> Passwords \cup {None}]
  <2>1. \/ account' = account
        \/ \E e \in Emails, pw \in Passwords : account' = [account EXCEPT ![e] = pw]
    <3>1. ASSUME NEW a \in Visits, Seat(a)
          PROVE  /\ visit[a].email \in Emails /\ visit[a].typed \in Passwords
                 /\ \/ account' = account
                    \/ account' = [account EXCEPT ![visit[a].email] = visit[a].typed]
      BY <3>1 DEF Seat, VisitsHaveTheirRows
    <3>2. ASSUME NEW a \in Visits, NEW t \in Fresh, Register(a, t)
          PROVE  /\ visit[a].email \in Emails /\ visit[a].typed \in Passwords
                 /\ \/ account' = account
                    \/ account' = [account EXCEPT ![visit[a].email] = visit[a].typed]
      BY <3>2 DEF Register, VisitsHaveTheirRows
    <3>3. QED BY <3>1, <3>2, WhoWrites
  <2>2. QED BY <2>1 DEF TypeOK
<1>2. seat' \in [Emails -> [Tenants -> Roles]]
  <2> DEFINE Entry(e, t, r) == seat' = [seat EXCEPT ![e][t] = r]
  <2>1. ASSUME NEW a \in Visits, Seat(a), seat' # seat
        PROVE  \E e \in Emails, t \in Tenants, r \in Roles : Entry(e, t, r)
    <3>1. visit[a].email \in Emails /\ inv[visit[a].invite].tenant \in Tenants
      BY <2>1 DEF Seat, VisitsHaveTheirRows, NobodyInvitesAnOwner
    <3>2. Entry(visit[a].email, inv[visit[a].invite].tenant, "staff")
      BY <2>1 DEF Seat
    <3> HIDE DEF Entry
    <3>3. QED BY <3>1, <3>2 DEF Roles
  <2>2. ASSUME NEW a \in Visits, NEW t \in Fresh, Register(a, t), seat' # seat
        PROVE  \E e \in Emails, x \in Tenants, r \in Roles : Entry(e, x, r)
    <3>1. visit[a].email \in Emails /\ t \in Tenants
      BY <2>2 DEF Register, VisitsHaveTheirRows, Tenants
    <3>2. Entry(visit[a].email, t, "owner")
      BY <2>2 DEF Register
    <3> HIDE DEF Entry
    <3>3. QED BY <3>1, <3>2 DEF Roles
  <2>3. ASSUME NEW t \in Tenants, NEW e \in Emails, RemoveStaff(t, e)
        PROVE  Entry(e, t, "none") /\ "none" \in Roles
    BY <2>3 DEF RemoveStaff, Roles
  <2>4. ASSUME NEW e \in Emails, NEW t \in Tenants, NEW r \in Roles, Entry(e, t, r)
        PROVE  seat' \in [Emails -> [Tenants -> Roles]]
    BY <2>4, RowsAreTyped
  <2> HIDE DEF Entry
  <2>5. QED BY <2>1, <2>2, <2>3, <2>4, WhoWrites, RowsAreTyped
<1>3. grants' \in [Emails -> [Tenants -> SUBSET Props]]
  <2> DEFINE Entry(e, t, ps) == grants' = [grants EXCEPT ![e][t] = ps]
  <2>1. ASSUME NEW a \in Visits, Seat(a), grants' # grants
        PROVE  \E e \in Emails, t \in Tenants, ps \in SUBSET Props : Entry(e, t, ps)
    <3> DEFINE e == visit[a].email
               t == inv[visit[a].invite].tenant
               ps == grants[e][t] \cup inv[visit[a].invite].props
    <3>1. e \in Emails /\ t \in Tenants /\ inv[visit[a].invite].props \in SUBSET Props
      BY <2>1 DEF Seat, VisitsHaveTheirRows, NobodyInvitesAnOwner, TypeOK
    <3>2. Entry(e, t, ps)
      BY <2>1 DEF Seat
    <3>3. ps \in SUBSET Props
      BY <3>1 DEF TypeOK
    <3> HIDE DEF Entry, e, t, ps
    <3>4. QED BY <3>1, <3>2, <3>3
  <2>2. ASSUME NEW t \in Tenants, ReplaceAssignments(t), grants' # grants
        PROVE  edit[t].email \in Emails /\ edit[t].props \in SUBSET Props
               /\ Entry(edit[t].email, t, edit[t].props)
    BY <2>2 DEF ReplaceAssignments, NobodyInvitesAnOwner, TypeOK
  <2>3. ASSUME NEW t \in Tenants, NEW e \in Emails, RemoveStaff(t, e)
        PROVE  Entry(e, t, {})
    BY <2>3 DEF RemoveStaff
  <2>4. ASSUME NEW e \in Emails, NEW t \in Tenants, NEW ps \in SUBSET Props, Entry(e, t, ps)
        PROVE  grants' \in [Emails -> [Tenants -> SUBSET Props]]
    BY <2>4 DEF TypeOK
  <2>5. {} \in SUBSET Props /\ grants \in [Emails -> [Tenants -> SUBSET Props]]
    BY DEF TypeOK
  <2> HIDE DEF Entry
  <2>6. QED BY <2>1, <2>2, <2>3, <2>4, <2>5, WhoWrites
<1>4. inv' \in [Invites -> InvRow]
  <2>1. DOMAIN inv' = Invites /\ inv' = [i \in Invites |-> inv'[i]]
    BY ZenonT(60), WhoWrites
       DEF TypeOK, SupersedeExpiredInvites, SendInvite, UndoInvite, CreateInvite, Revoke,
           RevokeIn, Lapse, Seat
  <2>2. ASSUME NEW i \in Invites PROVE inv'[i] \in InvRow
    <3>1. inv[i] \in InvRow
      BY RowsAreTyped
    <3>2. \A c \in Creates : /\ create[c].tenant \in Tenants \cup {None}
                             /\ create[c].email \in Emails \cup {None}
                             /\ create[c].props \in SUBSET Props
      BY DEF TypeOK
    <3>3. CASE inv'[i] = inv[i]
      BY <3>1, <3>3
    <3>4. CASE \/ inv'[i] = [inv[i] EXCEPT !.state = "revoked"]
               \/ inv'[i] = [inv[i] EXCEPT !.state = "accepted"]
               \/ \E m \in BOOLEAN : inv'[i] = [inv[i] EXCEPT !.mailed = m]
               \/ inv'[i] = [inv[i] EXCEPT !.lapsed = TRUE]
      BY <3>1, <3>4, InvRowMoves
    <3>5. CASE \E c \in Creates : inv'[i] = [NoInvite EXCEPT !.state = "open",
                    !.tenant = create[c].tenant, !.email = create[c].email,
                    !.props = create[c].props]
      <4>1. PICK c \in Creates : inv'[i] = [NoInvite EXCEPT !.state = "open",
                    !.tenant = create[c].tenant, !.email = create[c].email,
                    !.props = create[c].props]
        BY <3>5
      <4>2. QED BY <3>2, <4>1 DEF InvRow, NoInvite
    <3>6. CASE \E c \in Creates : CreateInvite(c, i) /\ inv'[i] # inv[i]
      BY <3>5, <3>6, InviteMoves DEF CreateInvite, TypeOK
    <3>7. QED BY <3>3, <3>4, <3>6, InviteMoves
  <2>3. QED BY <2>1, <2>2
<1>5. create' \in [Creates -> CreateRow]
  BY WhoWrites, CreateMoves, RowsAreTyped
<1>6. visit' \in [Visits -> VisitRow]
  BY WhoWrites, VisitWrites, RowsAreTyped
<1>7. edit' \in [Tenants -> EditRow]
  <2>1. NewEdit \in EditRow
    BY DEF NewEdit, EditRow
  <2>2. \A e \in Emails, ps \in SUBSET Props :
          [at |-> "replacing", email |-> e, props |-> ps] \in EditRow
    BY DEF EditRow
  <2>3. edit' = edit \/ \E t \in Tenants, r \in EditRow : edit' = [edit EXCEPT ![t] = r]
    BY <2>1, <2>2, WhoWrites DEF ReplaceAssignments, EditEnter
  <2>4. QED BY <2>3, RowsAreTyped
<1>8. tokens' \subseteq Token
  <2>1. \A e \in Emails, t \in Tenants : TokenFor(e, t) \in Token
    BY DEF TokenFor, Token
  <2>2. \A e, x : Landing(e, x) \subseteq Tenants
    BY DEF Landing, Seats
  <2>3. \A tk \in tokens : tk.user \in Emails
    BY DEF TypeOK, Token
  <2>4. \A a \in Visits : visit[a].at = "minting" => visit[a].email \in Emails
    BY DEF VisitsHaveTheirRows
  <2>5. ASSUME NEW a \in Visits, Mint(a) PROVE tokens' \subseteq Token
    BY <2>1, <2>2, <2>4, <2>5 DEF Mint, TypeOK
  <2>6. ASSUME NEW a \in Visits, NEW tk \in tokens, NEW t \in Tenants, SwitchTenant(a, tk, t)
        PROVE  tokens' \subseteq Token
    BY <2>1, <2>3, <2>6 DEF SwitchTenant, TypeOK
  <2>7. QED BY <2>5, <2>6, WhoWrites DEF TypeOK
<1>9. faults' \in 0 .. MaxFaults
  BY WhoWrites, AccountsAssumption DEF TypeOK
<1>10. QED
  BY <1>1, <1>2, <1>3, <1>4, <1>5, <1>6, <1>7, <1>8, <1>9
     DEF TypeOK, Roles, InvRow, CreateRow, VisitRow, EditRow

-----------------------------------------------------------------------------
\* What a visit that moves was and is.
VisitMoved(a) ==
  /\ visit'[a].at # "idle"
  /\ visit'[a].at = "entered" =>
       /\ visit[a].at = "idle" /\ inv' = inv /\ visit'[a].typed \in Passwords
       /\ \E i \in Invites : /\ inv[i].state # "none" /\ visit'[a].invite = i
                             /\ visit'[a].email = inv[i].email
  /\ visit'[a].at \in {"begun", "spent", "locked", "explaining"} =>
       /\ visit[a].at \in {"entered", "begun", "spent"}
       /\ visit'[a].invite = visit[a].invite /\ visit'[a].email = visit[a].email
       /\ visit'[a].typed = visit[a].typed /\ UNCHANGED <<account, seat, inv>>
  /\ visit'[a].at = "spent" => Spend(a) /\ inv[visit[a].invite].state = "open"
  /\ visit'[a].at = "locked" =>
       /\ LockAccount(a) /\ visit[a].at = "spent"
       /\ visit'[a].how = (IF account[visit[a].email] = None THEN "create"
                           ELSE IF visit[a].verified THEN "load" ELSE "reclaim")
       /\ visit'[a].how = "reclaim" => Seats(visit[a].email) = {}
  /\ visit'[a].at = "registering" =>
       visit'[a].email \in Emails /\ visit'[a].typed \in Passwords
  /\ visit'[a].at = "minting" => visit'[a].email \in Emails
  /\ \/ visit'[a].won = visit[a].won /\ (visit[a].won => visit'[a].invite = visit[a].invite)
          /\ (visit[a].won => visit'[a].at \in {"minting", "done"})
     \/ /\ Seat(a) /\ visit'[a].won /\ visit'[a].invite = visit[a].invite
        /\ visit'[a].at = "minting"
        /\ inv' = [inv EXCEPT ![visit[a].invite].state = "accepted"]

LEMMA VisitMoves ==
  ASSUME TypeOK, VisitsHaveTheirRows, NobodyInvitesAnOwner, OneWinner, [Next]_vars,
         NEW a \in Visits, visit'[a] # visit[a]
  PROVE  VisitMoved(a)
<1>1. VisitStep(a) \/ AcceptFault(a) \/ Request(a)
  BY OneVisitMoves
<1>2. visit[a].won => visit[a].at \in {"minting", "done"}
  BY DEF OneWinner
<1> USE DEF TypeOK
<1>3. ASSUME NEW x, Answered(a, x)
      PROVE  /\ visit'[a].at = "done" /\ visit'[a].won = visit[a].won
             /\ visit'[a].invite = visit[a].invite
  BY <1>3 DEF Answered, NewVisit
<1>4. ASSUME NEW x, Answered(a, x) PROVE VisitMoved(a)
  BY <1>2, <1>3, <1>4 DEF VisitMoved
<1>5. ASSUME NEW i \in Invites, NEW pw \in Passwords, AcceptEnter(a, i, pw) PROVE VisitMoved(a)
  <2>1. CASE Answered(a, "unauthorized")
    BY <1>4, <2>1
  <2>2. CASE ~Answered(a, "unauthorized")
    <3>1. inv[i].state # "none" /\ visit[a].at = "idle" /\ inv' = inv
      BY <1>5 DEF AcceptEnter, NobodyInvitesAnOwner
    <3>2. /\ visit'[a].at = "entered" /\ visit'[a].typed = pw /\ visit'[a].won = FALSE
          /\ visit'[a].invite = i /\ visit'[a].email = inv[i].email
      <4>1. PICK v : visit' = [visit EXCEPT ![a] =
               [NewVisit EXCEPT !.at = "entered", !.email = inv[i].email, !.typed = pw,
                                !.invite = i, !.prefer = inv[i].tenant, !.verified = v]]
        BY <1>5, <2>2, Zenon DEF AcceptEnter
      <4>2. QED BY <4>1 DEF NewVisit
    <3>3. visit[a].won = FALSE
      BY <1>2, <3>1
    <3>4. QED BY <3>1, <3>2, <3>3 DEF VisitMoved
  <2>3. QED BY <2>1, <2>2
<1>6. CASE AcceptBegin(a)
  <2>1. /\ visit'[a].at = "begun" /\ visit[a].at = "entered"
        /\ visit'[a].invite = visit[a].invite /\ visit'[a].email = visit[a].email
        /\ visit'[a].typed = visit[a].typed /\ UNCHANGED <<account, seat, inv>>
        /\ visit'[a].won = visit[a].won
    BY <1>6 DEF AcceptBegin
  <2>2. QED BY <1>2, <2>1 DEF VisitMoved
<1>7. CASE Spend(a)
  <2>1. /\ visit'[a].at \in {"spent", "explaining"} /\ visit[a].at = "begun"
        /\ visit'[a].at = "spent" => inv[visit[a].invite].state = "open"
        /\ visit'[a].invite = visit[a].invite /\ visit'[a].email = visit[a].email
        /\ visit'[a].typed = visit[a].typed /\ UNCHANGED <<account, seat, inv>>
        /\ visit'[a].won = visit[a].won
    BY <1>7 DEF Spend
  <2>2. QED BY <1>2, <1>7, <2>1 DEF VisitMoved
<1>8. CASE LockAccount(a) /\ ~Answered(a, "unauthorized")
  <2> DEFINE how == IF account[visit[a].email] = None THEN "create"
                    ELSE IF visit[a].verified THEN "load" ELSE "reclaim"
  <2>0. /\ visit[a].at = "spent" /\ UNCHANGED <<account, seat, inv>>
        /\ how = "reclaim" => Seats(visit[a].email) = {}
        /\ visit' = [visit EXCEPT ![a].at = "locked", ![a].how = how]
    BY <1>8 DEF LockAccount
  <2>1. /\ visit'[a].at = "locked" /\ visit'[a].how = how
        /\ visit'[a].invite = visit[a].invite /\ visit'[a].email = visit[a].email
        /\ visit'[a].typed = visit[a].typed
        /\ visit'[a].won = visit[a].won
    BY <2>0
  <2>2. QED BY <1>2, <1>8, <2>0, <2>1 DEF VisitMoved
<1>9. CASE Seat(a) /\ ~Answered(a, "email_taken")
  <2>1. /\ visit' = [visit EXCEPT ![a].at = "minting", ![a].won = TRUE]
        /\ inv' = [inv EXCEPT ![visit[a].invite].state = "accepted"]
        /\ visit[a].at = "locked"
    BY <1>9 DEF Seat
  <2>2. /\ visit'[a].at = "minting" /\ visit'[a].won /\ visit'[a].invite = visit[a].invite
        /\ visit'[a].email = visit[a].email /\ visit[a].email \in Emails
    BY <2>1 DEF VisitsHaveTheirRows
  <2>3. QED BY <1>9, <2>1, <2>2 DEF VisitMoved
<1>10. ASSUME NEW t \in Fresh, Register(a, t), ~Answered(a, "email_taken") PROVE VisitMoved(a)
  <2>1. visit[a].at = "registering" /\ visit[a].email \in Emails
    BY <1>10 DEF Register, VisitsHaveTheirRows
  <2>2. /\ visit'[a].at = "minting" /\ visit'[a].won = visit[a].won
        /\ visit'[a].email = visit[a].email
    BY <1>10 DEF Register
  <2>3. QED BY <1>2, <2>1, <2>2 DEF VisitMoved
<1>11. ASSUME NEW e \in Emails, NEW pw \in Passwords, RegisterEnter(a, e, pw) \/ Login(a, e, pw),
              ~Answered(a, "email_taken"), ~Answered(a, "unauthorized")
       PROVE  VisitMoved(a)
  <2>1. visit[a].at = "idle"
    BY <1>11 DEF RegisterEnter, Login
  <2>2. /\ visit'[a].at \in {"registering", "minting"} /\ visit'[a].won = FALSE
        /\ visit'[a].email = e
        /\ visit'[a].at = "registering" => visit'[a].typed = pw
    <3>1. \/ visit' = [visit EXCEPT ![a] = [NewVisit EXCEPT !.at = "minting", !.email = e]]
          \/ visit' = [visit EXCEPT ![a] =
                         [NewVisit EXCEPT !.at = "registering", !.email = e, !.typed = pw]]
      BY <1>11 DEF RegisterEnter, Login
    <3>2. CASE visit' = [visit EXCEPT ![a] = [NewVisit EXCEPT !.at = "minting", !.email = e]]
      BY <3>2 DEF NewVisit
    <3>3. CASE visit' = [visit EXCEPT ![a] =
                          [NewVisit EXCEPT !.at = "registering", !.email = e, !.typed = pw]]
      BY <3>3 DEF NewVisit
    <3>4. QED BY <3>1, <3>2, <3>3
  <2>3. QED BY <1>2, <2>1, <2>2 DEF VisitMoved
<1>12. ASSUME NEW tk \in tokens, Refresh(a, tk) PROVE VisitMoved(a)
  <2>1. visit[a].at = "idle" /\ tk.user \in Emails
    BY <1>12 DEF Refresh, Token
  <2>2. visit'[a].at = "minting" /\ visit'[a].won = FALSE /\ visit'[a].email = tk.user
    BY <1>12 DEF Refresh, NewVisit
  <2>3. QED BY <1>2, <2>1, <2>2 DEF VisitMoved
<1>13. CASE Mint(a) \/ Explain(a) \/ AcceptFault(a)
            \/ \E tk \in tokens, t \in Tenants : SwitchTenant(a, tk, t)
  <2>1. \E x : Answered(a, x)
    BY <1>13 DEF Mint, Explain, AcceptFault, SwitchTenant
  <2>2. QED BY <1>4, <2>1
<1>14. QED
  BY <1>1, <1>4, <1>5, <1>6, <1>7, <1>8, <1>9, <1>10, <1>11, <1>12, <1>13 DEF VisitStep, Request

-----------------------------------------------------------------------------
\* MayBeStaff after the step.
WillBeStaff(t, e) ==
  /\ t \in Tenants /\ e \in Emails
  /\ t \in Founded \/ \E x \in Emails : seat'[x][t] = "owner"
  /\ seat'[e][t] # "owner"

\* An owner stays one, and whoever may be staff of a tenant does not become its owner:
\* that is decided when the tenant is founded.
LEMMA OwnersAndStaff ==
  ASSUME AccountsProtocol, [Next]_vars, NEW t \in Tenants, NEW e \in Emails
  PROVE  /\ seat[e][t] = "owner" => seat'[e][t] = "owner"
         /\ MayBeStaff(t, e) => WillBeStaff(t, e)
<1> USE DEF AccountsProtocol
<1>1. \A x \in Emails : seat[x][t] = "owner" => seat'[x][t] = "owner"
  BY SeatMoves
<1>2. ASSUME MayBeStaff(t, e) PROVE WillBeStaff(t, e)
  BY <1>1, <1>2, SeatMoves DEF MayBeStaff, WillBeStaff, Born
<1>3. QED BY <1>1, <1>2

\* An accepted invite stays accepted, and who wins has just accepted it.
LEMMA AcceptsStay ==
  ASSUME AccountsProtocol, [Next]_vars, NEW i \in Invites
  PROVE  /\ inv[i].state = "accepted" => inv'[i].state = "accepted"
         /\ inv'[i].state = "accepted" /\ inv[i].state # "accepted" =>
              \E a \in Visits : Seat(a) /\ visit[a].invite = i /\ inv' # inv
<1>1. inv[i] \in InvRow
  BY RowsAreTyped DEF AccountsProtocol
<1>2. QED BY <1>1, InviteMoves DEF AccountsProtocol, InvRow, NoInvite

LEMMA RowsStep ==
  ASSUME AccountsProtocol, [Next]_vars
  PROVE  VisitsHaveTheirRows'
<1> USE DEF AccountsProtocol
<1>1. SUFFICES ASSUME NEW a \in Visits
      PROVE  /\ visit'[a].at \in {"entered", "begun", "spent", "locked", "explaining"} =>
                  /\ visit'[a].email \in Emails /\ visit'[a].typed \in Passwords
                  /\ visit'[a].invite \in Invites
                  /\ inv'[visit'[a].invite].state # "none"
                  /\ inv'[visit'[a].invite].email = visit'[a].email
             /\ visit'[a].at = "registering" =>
                  visit'[a].email \in Emails /\ visit'[a].typed \in Passwords
             /\ visit'[a].at = "minting" => visit'[a].email \in Emails
  BY DEF VisitsHaveTheirRows
<1>2. CASE visit'[a] = visit[a]
  BY <1>2, InvitesKeepTheirNames DEF VisitsHaveTheirRows
<1>3. CASE visit'[a] # visit[a]
  <2>1. VisitMoved(a)
    BY <1>3, VisitMoves
  <2>2. CASE visit'[a].at = "entered"
    <3>1. PICK i \in Invites : /\ inv[i].state # "none" /\ visit'[a].invite = i
                               /\ visit'[a].email = inv[i].email
      BY <2>1, <2>2 DEF VisitMoved
    <3>2. inv' = inv /\ visit'[a].typed \in Passwords
      BY <2>1, <2>2 DEF VisitMoved
    <3>3. inv[i].email \in Emails
      BY <3>1 DEF NobodyInvitesAnOwner, MayBeStaff
    <3>4. QED BY <2>2, <3>1, <3>2, <3>3
  <2>3. CASE visit'[a].at \in {"begun", "spent", "locked", "explaining"}
    BY <2>1, <2>3 DEF VisitMoved, VisitsHaveTheirRows
  <2>4. CASE visit'[a].at \notin {"entered", "begun", "spent", "locked", "explaining"}
    BY <2>1, <2>4 DEF VisitMoved
  <2>5. QED BY <2>2, <2>3, <2>4
<1>4. QED BY <1>2, <1>3

LEMMA StaffStep ==
  ASSUME AccountsProtocol, TypeOK', [Next]_vars
  PROVE  NobodyInvitesAnOwner'
<1> USE DEF AccountsProtocol
<1>1. ASSUME NEW i \in Invites
      PROVE  /\ inv'[i].state # "none" => WillBeStaff(inv'[i].tenant, inv'[i].email)
             /\ inv'[i].mailed => inv'[i].state # "none"
  <2>0. inv[i] \in InvRow
    BY RowsAreTyped
  <2>1. CASE inv[i].state # "none"
    BY <2>1, InvitesKeepTheirNames, OwnersAndStaff DEF NobodyInvitesAnOwner, MayBeStaff, WillBeStaff
  <2>2. CASE inv[i].state = "none" /\ inv'[i] = inv[i]
    BY <2>2 DEF NobodyInvitesAnOwner
  <2>3. CASE inv[i].state = "none" /\ inv'[i] # inv[i]
    <3>1. ASSUME NEW a \in Visits, Seat(a), visit[a].invite = i PROVE FALSE
      BY <2>3, <3>1 DEF Seat, VisitsHaveTheirRows
    <3>2. PICK c \in Creates : /\ CreateInvite(c, i)
                               /\ inv'[i] = [NoInvite EXCEPT !.state = "open",
                                     !.tenant = create[c].tenant, !.email = create[c].email,
                                     !.props = create[c].props]
      BY <2>3, <3>1, InviteMoves
    <3>3. /\ inv'[i].tenant = create[c].tenant /\ inv'[i].email = create[c].email
          /\ inv'[i].state = "open"
      BY <3>2 DEF NoInvite
    <3>4. MayBeStaff(create[c].tenant, create[c].email)
      BY <3>2 DEF CreateInvite, NobodyInvitesAnOwner
    <3>5. QED BY <3>3, <3>4, OwnersAndStaff DEF MayBeStaff
  <2>4. QED BY <2>1, <2>2, <2>3
<1>2. ASSUME NEW c \in Creates
      PROVE  /\ create'[c].at \notin {"idle", "done"} =>
                  WillBeStaff(create'[c].tenant, create'[c].email)
             /\ create'[c].at \in {"mailing", "undoing", "listing"} =>
                  create'[c].invite \in Invites /\ inv'[create'[c].invite].state # "none"
  <2>0. create[c] \in CreateRow
    BY RowsAreTyped
  <2>1. CASE \/ create'[c] = create[c] \/ create'[c] = [create[c] EXCEPT !.sawLive = TRUE]
    <3>1. /\ create'[c].at = create[c].at /\ create'[c].tenant = create[c].tenant
          /\ create'[c].email = create[c].email /\ create'[c].invite = create[c].invite
      BY <2>0, <2>1 DEF CreateRow
    <3>2. QED BY <3>1, InvitesKeepTheirNames, OwnersAndStaff DEF NobodyInvitesAnOwner, MayBeStaff, WillBeStaff
  <2>2. ASSUME NEW t \in Tenants, NEW e \in Emails, NEW ps \in SUBSET Props, CreateEnter(c, t, e, ps)
        PROVE  /\ create'[c].at \in {"done", "superseding"}
               /\ create'[c].at = "superseding" =>
                    WillBeStaff(create'[c].tenant, create'[c].email)
    <3>1. /\ create'[c].at \in {"done", "superseding"}
          /\ create'[c].at = "superseding" =>
               create'[c].tenant = t /\ create'[c].email = e /\ t \notin Seats(e)
      <4>1. PICK saw, at, x :
              /\ create' = [create EXCEPT ![c] =
                   [NewCreate EXCEPT !.tenant = t, !.email = e, !.props = ps, !.sawLive = saw,
                                     !.at = at, !.answer = x]]
              /\ at = IF t \in Seats(e) THEN "done" ELSE "superseding"
        BY <2>2, Zenon DEF CreateEnter
      <4>2. create'[c].at = at /\ create'[c].tenant = t /\ create'[c].email = e
        BY <4>1 DEF NewCreate, TypeOK
      <4>3. QED BY <4>1, <4>2
    <3>2. Born(t) /\ seat' = seat
      BY <2>2 DEF CreateEnter
    <3>3. QED BY <3>1, <3>2 DEF WillBeStaff, Seats, Born
  <2>3. CASE CreateStep(c) \/ CreateCrash(c)
    <3>1. \/ create'[c].at = "done"
          \/ /\ create[c].at \notin {"idle", "done"} /\ create'[c].at \notin {"idle", "done"}
             /\ create'[c].tenant = create[c].tenant /\ create'[c].email = create[c].email
             /\ create'[c].at \in {"mailing", "undoing", "listing"} =>
                  \/ /\ create[c].at \in {"mailing", "undoing", "listing"}
                     /\ create'[c].invite = create[c].invite
                  \/ create'[c].invite \in Invites /\ inv'[create'[c].invite].state # "none"
      <4>1. ASSUME NEW i \in Invites, CreateInvite(c, i)
            PROVE  \/ create'[c].at = "done"
                   \/ /\ create[c].at \notin {"idle", "done"}
                      /\ create'[c].tenant = create[c].tenant /\ create'[c].email = create[c].email
                      /\ create'[c].at = "mailing"
                      /\ create'[c].invite = i /\ inv'[i].state # "none"
        <5>1. CASE CreateAnswered(c, "pending")
          BY <5>1 DEF CreateAnswered, NewCreate, TypeOK
        <5>2. CASE ~CreateAnswered(c, "pending")
          <6>1. /\ create'[c] = [create[c] EXCEPT !.at = "mailing", !.invite = i]
                /\ create[c].at = "inserting"
            BY <4>1, <5>2 DEF CreateInvite
          <6>2. inv'[i].state = "open"
            <7>1. inv' = [inv EXCEPT ![i] = [NoInvite EXCEPT !.state = "open",
                            !.tenant = create[c].tenant, !.email = create[c].email,
                            !.props = create[c].props]]
              BY <4>1, <5>2 DEF CreateInvite
            <7>2. QED BY <7>1 DEF NoInvite, TypeOK
          <6>3. QED BY <2>0, <6>1, <6>2 DEF CreateRow
        <5>3. QED BY <5>1, <5>2
      <4>2. CASE \E x : CreateAnswered(c, x)
        BY <4>2 DEF CreateAnswered, NewCreate, TypeOK
      <4>3. CASE SupersedeExpiredInvites(c) \/ CheckLive(c) \/ SendInvite(c)
        <5>1. CASE CreateAnswered(c, "pending")
          BY <4>2, <5>1
        <5>2. CASE ~CreateAnswered(c, "pending")
          <6>1. /\ create[c].at \in {"superseding", "checking", "mailing"}
                /\ \E at \in {"checking", "inserting", "listing", "undoing"} :
                     /\ create' = [create EXCEPT ![c].at = at]
                     /\ at \in {"listing", "undoing"} => create[c].at = "mailing"
            BY <4>3, <5>2 DEF SupersedeExpiredInvites, CheckLive, SendInvite
          <6>2. QED BY <2>0, <6>1 DEF CreateRow, TypeOK
        <5>3. QED BY <5>1, <5>2
      <4>4. CASE UndoInvite(c) \/ ListCreated(c) \/ CreateCrash(c)
        BY <4>2, <4>4 DEF UndoInvite, ListCreated, CreateCrash
      <4>5. QED BY <2>3, <4>1, <4>3, <4>4 DEF CreateStep
    <3>2. QED
      BY SMTT(30), <3>1, InvitesKeepTheirNames, OwnersAndStaff
         DEF NobodyInvitesAnOwner, MayBeStaff, WillBeStaff
  <2>4. QED BY <2>1, <2>2, <2>3, WhoWrites, CreateMoves
<1>3. ASSUME NEW t \in Tenants
      PROVE  edit'[t].at = "replacing" => WillBeStaff(t, edit'[t].email)
  <2>1. CASE edit'[t] = edit[t]
    BY <2>1, OwnersAndStaff DEF NobodyInvitesAnOwner, MayBeStaff, WillBeStaff
  <2>2. CASE edit'[t] # edit[t]
    <3>1. ASSUME NEW x \in Tenants, ReplaceAssignments(x) PROVE edit'[t].at = "idle"
      BY <2>2, <3>1 DEF ReplaceAssignments, NewEdit, TypeOK
    <3>2. ASSUME NEW x \in Tenants, NEW e \in Emails, NEW ps \in SUBSET Props, EditEnter(x, e, ps)
          PROVE  WillBeStaff(t, edit'[t].email)
      BY <2>2, <3>2 DEF EditEnter, TypeOK, WillBeStaff, Born
    <3>3. QED BY <2>2, <3>1, <3>2, WhoWrites
  <2>3. QED BY <2>1, <2>2
<1>4. QED BY <1>1, <1>2, <1>3 DEF NobodyInvitesAnOwner, MayBeStaff, WillBeStaff, Born

LEMMA InviteLockStep ==
  ASSUME AccountsProtocol, [Next]_vars
  PROVE  InviteIsLocked'
<1> USE DEF AccountsProtocol
<1> DEFINE Spending(a) == visit[a].at \in {"spent", "locked"}
<1>1. ASSUME NEW a \in Visits, visit'[a].at \in {"spent", "locked"}, visit'[a] # visit[a]
      PROVE  /\ visit'[a].invite = visit[a].invite /\ inv' = inv
             /\ inv[visit[a].invite].state = "open"
             /\ Spending(a) \/ Spend(a)
  <2>1. VisitMoved(a)
    BY <1>1, VisitMoves
  <2>2. CASE visit'[a].at = "spent"
    BY <2>1, <2>2 DEF VisitMoved
  <2>3. CASE visit'[a].at = "locked"
    BY <2>1, <2>3 DEF VisitMoved, InviteIsLocked
  <2>4. QED BY <1>1, <2>2, <2>3
<1>2. ASSUME NEW a \in Visits, visit'[a].at \in {"spent", "locked"}
      PROVE  inv'[visit'[a].invite].state = "open"
  <2>1. CASE visit'[a] # visit[a]
    BY <1>1, <1>2, <2>1
  <2>2. CASE visit'[a] = visit[a]
    <3> DEFINE i == visit[a].invite
    <3>1. i \in Invites /\ inv[i].state = "open" /\ a \in Spenders(i)
      BY <1>2, <2>2 DEF VisitsHaveTheirRows, InviteIsLocked, Spenders
    <3>2. inv[i] \in InvRow
      BY <3>1, RowsAreTyped
    <3>3. ASSUME NEW b \in Visits, Seat(b), visit[b].invite = i, inv' # inv PROVE FALSE
      <4>1. b = a
        BY <1>2, <2>2, <3>3 DEF InviteIsLocked, Seat
      <4>2. visit'[b].at = "minting"
        BY <3>3 DEF Seat, TypeOK
      <4>3. QED BY <1>2, <2>2, <4>1, <4>2
    <3>4. inv'[i].state = "open"
      BY <3>1, <3>2, <3>3, InviteMoves DEF InvRow
    <3>5. QED BY <2>2, <3>4
  <2>3. QED BY <2>1, <2>2
<1>3. ASSUME NEW a \in Visits, NEW b \in Visits, a # b,
             visit'[a].at \in {"spent", "locked"}, visit'[b].at \in {"spent", "locked"},
             visit'[a].invite = visit'[b].invite
      PROVE  FALSE
  <2>1. ASSUME NEW x \in Visits, NEW y \in Visits, x # y, Spend(x), Spending(y),
               visit[x].invite = visit[y].invite
        PROVE  FALSE
    BY <2>1 DEF Spend, Spenders
  <2>2. CASE visit'[a] = visit[a] /\ visit'[b] = visit[b]
    BY <1>3, <2>2 DEF InviteIsLocked
  <2>3. CASE visit'[a] # visit[a]
    <3>1. visit'[b] = visit[b]
      BY <1>3, <2>3, OneVisitMoves
    <3>2. QED BY <1>1, <1>3, <2>1, <2>3, <3>1 DEF InviteIsLocked
  <2>4. CASE visit'[b] # visit[b]
    <3>1. visit'[a] = visit[a]
      BY <1>3, <2>4, OneVisitMoves
    <3>2. QED BY <1>1, <1>3, <2>1, <2>4, <3>1 DEF InviteIsLocked
  <2>5. QED BY <2>2, <2>3, <2>4
<1>4. QED BY <1>2, <1>3 DEF InviteIsLocked

\* What a step does to an account: only the registration of its address, or the accept
\* that has it locked, or that found none.
LEMMA AccountMoves ==
  ASSUME AccountsProtocol, [Next]_vars, NEW e \in Emails, account'[e] # account[e]
  PROVE  /\ account'[e] \in Passwords /\ Seats(e) = {}
         /\ \/ account[e] = None
            \/ \E a \in Holders(e) : Seat(a)
<1> USE DEF AccountsProtocol
<1>1. ASSUME NEW a \in Visits, Seat(a)
      PROVE  /\ account'[e] \in Passwords /\ Seats(e) = {}
             /\ account[e] = None \/ a \in Holders(e)
  <2>1. /\ visit[a].at = "locked" /\ visit[a].how # "load"
        /\ visit[a].how # "create" \/ account[visit[a].email] = None
        /\ account' = [account EXCEPT ![visit[a].email] = visit[a].typed]
    BY <1>1 DEF Seat
  <2>2. visit[a].email = e /\ visit[a].typed \in Passwords
    BY <2>1 DEF VisitsHaveTheirRows, TypeOK
  <2>3. Seats(e) = {}
    BY <2>1, <2>2 DEF AccountIsLocked
  <2>4. QED BY <2>1, <2>2, <2>3 DEF TypeOK, Holders
<1>2. ASSUME NEW a \in Visits, NEW t \in Fresh, Register(a, t)
      PROVE  account'[e] \in Passwords /\ Seats(e) = {} /\ account[e] = None
  <2>1. /\ account[visit[a].email] = None /\ visit[a].at = "registering"
        /\ account' = [account EXCEPT ![visit[a].email] = visit[a].typed]
    BY <1>2 DEF Register
  <2>2. visit[a].email = e /\ visit[a].typed \in Passwords
    BY <2>1 DEF VisitsHaveTheirRows, TypeOK
  <2>3. QED BY <2>1, <2>2 DEF TypeOK, AccountIsLocked
<1>3. QED BY <1>1, <1>2, WhoWrites

LEMMA AccountLockStep ==
  ASSUME AccountsProtocol, [Next]_vars
  PROVE  AccountIsLocked'
<1> USE DEF AccountsProtocol
<1>0. None \notin Passwords
  BY AccountsAssumption
<1>1. ASSUME NEW e \in Emails PROVE account'[e] = None => Seats(e)' = {}
  <2>1. SUFFICES ASSUME account'[e] = None, NEW t \in Tenants, seat'[e][t] # "none" PROVE FALSE
    BY DEF Seats
  <2>2. account[e] = None /\ account'[e] = account[e]
    BY <1>0, <2>1, AccountMoves
  <2>3. seat[e][t] = "none"
    BY <2>2 DEF AccountIsLocked, Seats
  <2>4. ASSUME NEW a \in Visits, Seat(a), visit[a].email = e, seat'[e][t] # seat[e][t] PROVE FALSE
    <3>1. /\ visit[a].at = "locked" /\ visit[a].typed \in Passwords
          /\ visit[a].how # "load" => account'[e] = visit[a].typed
          /\ visit[a].how # "create" => account[e] # None
      BY SMTT(60), <2>4 DEF Seat, AccountIsLocked, TypeOK, VisitsHaveTheirRows
    <3>2. QED BY <1>0, <2>1, <2>2, <3>1
  <2>5. ASSUME NEW a \in Visits, Register(a, t), visit[a].email = e, seat'[e][t] # seat[e][t]
        PROVE  FALSE
    <3>1. account'[e] = visit[a].typed /\ visit[a].typed \in Passwords
      BY <2>5 DEF Register, TypeOK, VisitsHaveTheirRows
    <3>2. QED BY <1>0, <2>1, <3>1
  <2>6. QED BY <2>1, <2>3, <2>4, <2>5, SeatMoves
<1>2. ASSUME NEW a \in Visits, visit'[a].at = "locked"
      PROVE  /\ visit'[a].email \in Emails
             /\ visit'[a].how \in {"create", "load", "reclaim"}
             /\ visit'[a].how # "create" => account'[visit'[a].email] # None
             /\ visit'[a].how = "reclaim" =>
                  \A t \in Tenants : seat'[visit'[a].email][t] = "none"
  <2>1. CASE visit'[a] # visit[a]
    <3>1. VisitMoved(a)
      BY <2>1, VisitMoves
    <3>2. /\ visit[a].at = "spent" /\ visit'[a].email = visit[a].email
          /\ UNCHANGED <<account, seat>>
          /\ visit'[a].how = (IF account[visit[a].email] = None THEN "create"
                              ELSE IF visit[a].verified THEN "load" ELSE "reclaim")
          /\ visit'[a].how = "reclaim" => Seats(visit[a].email) = {}
      BY <1>2, <3>1 DEF VisitMoved
    <3>3. visit[a].email \in Emails
      BY <3>2 DEF VisitsHaveTheirRows
    <3>4. QED BY <3>2, <3>3 DEF Seats
  <2>2. CASE visit'[a] = visit[a]
    <3> DEFINE e == visit[a].email
    <3>1. /\ e \in Emails /\ visit[a].at = "locked"
          /\ visit[a].how \in {"create", "load", "reclaim"}
          /\ visit[a].how # "create" => account[e] # None /\ a \in Holders(e)
          /\ visit[a].how = "reclaim" => Seats(e) = {}
      BY <1>2, <2>2 DEF AccountIsLocked, VisitsHaveTheirRows, Holders
    <3>2. visit[a].how # "create" => account'[e] # None
      BY <1>0, <3>1, AccountMoves
    <3>3. ASSUME visit[a].how = "reclaim", NEW t \in Tenants, seat'[e][t] # "none" PROVE FALSE
      <4>1. seat[e][t] = "none"
        BY <3>1, <3>3 DEF Seats
      <4>2. ASSUME NEW b \in Visits, Seat(b), visit[b].email = e, seat' # seat PROVE FALSE
        <5>1. b \in Holders(e)
          BY <3>1, <3>3, <4>2 DEF Seat, Holders
        <5>2. b = a
          BY <3>1, <3>3, <5>1 DEF AccountIsLocked
        <5>3. visit'[b].at = "minting"
          BY <4>2 DEF Seat, TypeOK
        <5>4. QED BY <1>2, <5>2, <5>3
      <4>3. account[e] # None
        BY <3>1, <3>3
      <4>4. QED BY <3>1, <3>3, <4>1, <4>2, <4>3, SeatMoves
    <3>4. QED BY <2>2, <3>1, <3>2, <3>3
  <2>3. QED BY <2>1, <2>2
<1>3. ASSUME NEW e \in Emails, NEW a \in Holders(e)', NEW b \in Holders(e)', a # b PROVE FALSE
  <2>1. ASSUME NEW x \in Visits, visit'[x] # visit[x], x \in Holders(e)'
        PROVE  Holders(e) = {}
    <3>1. VisitMoved(x)
      BY <2>1, VisitMoves
    <3>2. LockAccount(x) /\ visit[x].email = e
      BY <2>1, <3>1 DEF VisitMoved, Holders
    <3>3. QED BY <3>2 DEF LockAccount
  <2>2. a \in Visits /\ b \in Visits
    BY DEF Holders
  <2>3. CASE visit'[a] = visit[a] /\ visit'[b] = visit[b]
    <3>1. a \in Holders(e) /\ b \in Holders(e)
      BY <2>3 DEF Holders
    <3>2. QED BY <1>3, <3>1 DEF AccountIsLocked
  <2>4. CASE visit'[a] # visit[a]
    <3>1. visit'[b] = visit[b]
      BY <1>3, <2>2, <2>4, OneVisitMoves
    <3>2. b \in Holders(e)
      BY <3>1 DEF Holders
    <3>3. QED BY <2>1, <2>2, <2>4, <3>2
  <2>5. CASE visit'[b] # visit[b]
    <3>1. visit'[a] = visit[a]
      BY <1>3, <2>2, <2>5, OneVisitMoves
    <3>2. a \in Holders(e)
      BY <3>1 DEF Holders
    <3>3. QED BY <2>1, <2>2, <2>5, <3>2
  <2>6. QED BY <2>3, <2>4, <2>5
<1>4. \A a \in Visits : visit'[a].at = "locked" =>
        /\ visit'[a].how \in {"create", "load", "reclaim"}
        /\ visit'[a].how # "create" => account'[visit'[a].email] # None
        /\ visit'[a].how = "reclaim" => Seats(visit[a].email)' = {}
  BY <1>2 DEF Seats
<1>5. QED BY <1>1, <1>3, <1>4 DEF AccountIsLocked

LEMMA WinnerStep ==
  ASSUME AccountsProtocol, [Next]_vars
  PROVE  OneWinner'
<1> USE DEF AccountsProtocol
<1> DEFINE Seated(a) ==
      /\ Seat(a) /\ visit'[a].won /\ visit'[a].invite = visit[a].invite
      /\ visit'[a].at = "minting" /\ visit[a].invite \in Invites
      /\ inv[visit[a].invite].state = "open" /\ inv'[visit[a].invite].state = "accepted"
\* Who has won had won, or seats somebody now.
<1>1. ASSUME NEW a \in Visits, visit'[a].won
      PROVE  /\ visit'[a].at \in {"minting", "done"}
             /\ (visit[a].won /\ visit'[a].invite = visit[a].invite) \/ Seated(a)
  <2>1. CASE visit'[a] = visit[a]
    BY <1>1, <2>1 DEF OneWinner
  <2>2. CASE visit'[a] # visit[a]
    <3>1. VisitMoved(a)
      BY <2>2, VisitMoves
    <3>2. CASE visit'[a].won = visit[a].won
      BY <1>1, <3>1, <3>2 DEF VisitMoved, OneWinner, Seat
    <3>3. CASE visit'[a].won # visit[a].won
      <4>1. /\ Seat(a) /\ visit'[a].invite = visit[a].invite /\ visit'[a].at = "minting"
            /\ inv' = [inv EXCEPT ![visit[a].invite].state = "accepted"]
        BY <3>1, <3>3 DEF VisitMoved
      <4>2. visit[a].invite \in Invites /\ inv[visit[a].invite].state = "open"
        BY <4>1 DEF Seat, VisitsHaveTheirRows, InviteIsLocked
      <4>3. inv'[visit[a].invite].state = "accepted"
        BY <4>1, <4>2 DEF TypeOK
      <4>4. QED BY <1>1, <4>1, <4>2, <4>3
    <3>4. QED BY <3>2, <3>3
  <2>3. QED BY <2>1, <2>2
<1>2. ASSUME NEW a \in Visits, visit[a].won
      PROVE  visit'[a].won /\ visit'[a].invite = visit[a].invite
  <2>1. CASE visit'[a] = visit[a]
    BY <1>2, <2>1
  <2>2. CASE visit'[a] # visit[a]
    <3>1. VisitMoved(a)
      BY <2>2, VisitMoves
    <3>2. QED BY <1>2, <3>1 DEF VisitMoved
  <2>3. QED BY <2>1, <2>2
<1>3. ASSUME NEW a \in Visits, visit'[a].won
      PROVE  visit'[a].invite \in Invites /\ inv'[visit'[a].invite].state = "accepted"
  BY <1>1, <1>3, AcceptsStay DEF OneWinner
<1>4. ASSUME NEW a \in Visits, NEW b \in Visits, visit'[a].won, visit'[b].won,
             visit'[a].invite = visit'[b].invite, a # b
      PROVE  FALSE
  <2>1. CASE Seated(a) /\ Seated(b)
    <3>1. visit[a].at = "locked" /\ visit[b].at = "locked"
      BY <2>1 DEF Seat
    <3>2. visit[a].invite = visit[b].invite
      BY <1>4, <2>1
    <3>3. QED BY <1>4, <3>1, <3>2 DEF InviteIsLocked
  <2>2. ASSUME NEW x \in Visits, NEW y \in Visits, Seated(x), visit[y].won,
               visit'[x].invite = visit'[y].invite
        PROVE  FALSE
    <3>1. visit[y].invite = visit[x].invite
      BY <1>2, <2>2
    <3>2. QED BY <2>2, <3>1 DEF OneWinner
  <2>3. CASE visit[a].won /\ visit[b].won
    BY <1>2, <1>4, <2>3 DEF OneWinner
  <2> HIDE DEF Seated
  <2>4. (visit[a].won \/ Seated(a)) /\ (visit[b].won \/ Seated(b))
    BY <1>1, <1>4
  <2>5. QED BY <1>4, <2>1, <2>2, <2>3, <2>4
<1>5. ASSUME NEW i \in Invites, inv'[i].state = "accepted"
      PROVE  \E a \in Visits : visit'[a].won /\ visit'[a].invite = i
  <2>1. CASE inv[i].state = "accepted"
    BY <1>2, <2>1 DEF OneWinner
  <2>2. CASE inv[i].state # "accepted"
    <3>1. PICK a \in Visits : Seat(a) /\ visit[a].invite = i /\ inv' # inv
      BY <1>5, <2>2, AcceptsStay
    <3>2. visit' = [visit EXCEPT ![a].at = "minting", ![a].won = TRUE]
      BY <3>1 DEF Seat
    <3>3. visit'[a].won /\ visit'[a].invite = i
      BY <3>1, <3>2 DEF TypeOK
    <3>4. QED BY <3>3
  <2>3. QED BY <2>1, <2>2
<1>6. QED BY <1>1, <1>3, <1>4, <1>5 DEF OneWinner

LEMMA AssignmentsStep ==
  ASSUME AccountsProtocol, [Next]_vars
  PROVE  AssignmentsAreOfStaff'
<1> USE DEF AccountsProtocol
<1>1. SUFFICES ASSUME NEW e \in Emails, NEW t \in Tenants, grants'[e][t] # {}
               PROVE  seat'[e][t] = "staff"
  BY DEF AssignmentsAreOfStaff
<1>2. ASSUME NEW a \in Visits, Seat(a) PROVE seat'[e][t] = "staff"
  <2> DEFINE d == visit[a].email
             x == inv[visit[a].invite].tenant
  <2>1. d \in Emails /\ x \in Tenants /\ seat[d][x] # "owner"
    BY <1>2 DEF Seat, VisitsHaveTheirRows, NobodyInvitesAnOwner, MayBeStaff
  <2>2. CASE grants' = grants /\ seat' = seat
    BY <1>1, <2>2 DEF AssignmentsAreOfStaff
  <2>3. CASE ~(grants' = grants /\ seat' = seat)
    <3>1. PICK ps : grants' = [grants EXCEPT ![d][x] = ps]
      BY <1>2, <2>3 DEF Seat
    <3>2. seat' = IF x \in Seats(d) THEN seat ELSE [seat EXCEPT ![d][x] = "staff"]
      BY <1>2, <2>3 DEF Seat
    <3>3. CASE e = d /\ t = x
      <4>1. x \in Seats(d) => seat[d][x] = "staff"
        BY <2>1 DEF Seats, TypeOK
      <4>2. QED BY <2>1, <3>2, <3>3, <4>1 DEF TypeOK
    <3>4. CASE ~(e = d /\ t = x)
      <4>1. grants[e][t] # {}
        BY <1>1, <2>1, <3>1, <3>4 DEF TypeOK
      <4>2. seat'[e][t] = seat[e][t]
        BY <2>1, <3>2, <3>4 DEF TypeOK
      <4>3. QED BY <4>1, <4>2 DEF AssignmentsAreOfStaff
    <3>5. QED BY <3>3, <3>4
  <2>4. QED BY <2>2, <2>3
<1>3. ASSUME NEW x \in Tenants, ReplaceAssignments(x) PROVE seat'[e][t] = "staff"
  <2> DEFINE d == edit[x].email
  <2>1. d \in Emails /\ seat[d][x] # "owner" /\ seat' = seat
    BY <1>3 DEF ReplaceAssignments, NobodyInvitesAnOwner, MayBeStaff
  <2>2. CASE e = d /\ t = x /\ x \in Seats(d)
    BY <2>1, <2>2 DEF Seats, TypeOK
  <2>3. CASE ~(e = d /\ t = x /\ x \in Seats(d))
    <3>1. grants'[e][t] = grants[e][t]
      BY <1>3, <2>1, <2>3 DEF ReplaceAssignments, TypeOK
    <3>2. QED BY <1>1, <2>1, <3>1 DEF AssignmentsAreOfStaff
  <2>4. QED BY <2>2, <2>3
<1>4. ASSUME NEW x \in Tenants, NEW d \in Emails, RemoveStaff(x, d) PROVE seat'[e][t] = "staff"
  <2>1. ~(e = d /\ t = x)
    BY <1>1, <1>4 DEF RemoveStaff, TypeOK
  <2>2. grants[e][t] # {} /\ seat'[e][t] = seat[e][t]
    BY <1>1, <1>4, <2>1 DEF RemoveStaff, TypeOK
  <2>3. QED BY <2>2 DEF AssignmentsAreOfStaff
<1>5. CASE grants' = grants
  <2>1. seat[e][t] = "staff"
    BY <1>1, <1>5 DEF AssignmentsAreOfStaff
  <2>2. QED BY <1>4, <2>1, SeatMoves
<1>6. QED BY <1>2, <1>3, <1>4, <1>5, WhoWrites

LEMMA TokensStep ==
  ASSUME AccountsProtocol, [Next]_vars
  PROVE  OwnersStayOwners'
<1> USE DEF AccountsProtocol
<1>1. SUFFICES ASSUME NEW tk \in tokens', tk.role = "owner"
               PROVE  seat'[tk.user][tk.tenant] = "owner"
  BY DEF OwnersStayOwners
<1>2. CASE tk \in tokens
  <2>1. tk.user \in Emails /\ tk.tenant \in Tenants
    BY <1>2 DEF TypeOK, Token
  <2>2. QED BY <1>1, <1>2, <2>1, OwnersAndStaff DEF OwnersStayOwners
<1>3. ASSUME NEW e, NEW t, tk = TokenFor(e, t), seat' = seat PROVE seat'[tk.user][tk.tenant] = "owner"
  BY <1>1, <1>3 DEF TokenFor
<1>4. ASSUME NEW a \in Visits, Mint(a), tk \notin tokens PROVE \E e, t : tk = TokenFor(e, t) /\ seat' = seat
  BY <1>4 DEF Mint
<1>5. ASSUME NEW a \in Visits, NEW x \in tokens, NEW t \in Tenants, SwitchTenant(a, x, t),
             tk \notin tokens
      PROVE  \E e, u : tk = TokenFor(e, u) /\ seat' = seat
  BY <1>5 DEF SwitchTenant
<1>6. QED BY <1>2, <1>3, <1>4, <1>5, WhoWrites

\* An invite that is open after the step was open before it, as lapsed as it was or less,
\* or is the one a create just inserted for an address that had none.
LEMMA OpenMoves ==
  ASSUME AccountsProtocol, [Next]_vars, NEW t, NEW e, NEW i \in Invites, inv'[i].state = "open",
         inv'[i].tenant = t, inv'[i].email = e
  PROVE  \/ i \in Open(t, e) /\ (inv[i].lapsed => inv'[i].lapsed)
         \/ \E c \in Creates : /\ CreateInvite(c, i) /\ inv' # inv
                               /\ create[c].tenant = t /\ create[c].email = e
<1>1. inv[i] \in InvRow
  BY RowsAreTyped DEF AccountsProtocol
<1>2. ASSUME NEW c \in Creates, CreateInvite(c, i),
             inv'[i] = [NoInvite EXCEPT !.state = "open", !.tenant = create[c].tenant,
                                        !.email = create[c].email, !.props = create[c].props]
      PROVE  create[c].tenant = t /\ create[c].email = e
  BY <1>2 DEF NoInvite
<1>3. CASE inv'[i] = inv[i]
  BY <1>3 DEF Open
<1>4. CASE \/ inv'[i] = [inv[i] EXCEPT !.lapsed = TRUE]
           \/ \E m \in BOOLEAN : inv'[i] = [inv[i] EXCEPT !.mailed = m]
  BY <1>1, <1>4 DEF Open, InvRow
<1>5. CASE \/ inv'[i] = [inv[i] EXCEPT !.state = "revoked"]
           \/ inv'[i] = [inv[i] EXCEPT !.state = "accepted"]
  BY <1>1, <1>5 DEF InvRow
<1>6. QED BY <1>2, <1>3, <1>4, <1>5, InviteMoves DEF AccountsProtocol

LEMMA RefusalStep ==
  ASSUME AccountsProtocol, [Next]_vars
  PROVE  MetOnlyLiveInvites' /\ RefusalNamesALiveInvite'
<1> USE DEF AccountsProtocol
<1> DEFINE Met(c) == /\ create[c].at = "superseding" =>
                          \A i \in Open(create[c].tenant, create[c].email) :
                            inv[i].lapsed \/ create[c].sawLive
                     /\ create[c].at \in {"checking", "inserting"} =>
                          \A i \in Open(create[c].tenant, create[c].email) : create[c].sawLive
                     /\ create[c].answer = "pending" => create[c].sawLive
<1>1. SUFFICES ASSUME NEW c \in Creates PROVE Met(c)'
  BY DEF MetOnlyLiveInvites, RefusalNamesALiveInvite
<1>2. create[c] \in CreateRow /\ Met(c)
  BY RowsAreTyped DEF MetOnlyLiveInvites, RefusalNamesALiveInvite
\* A request that another create's insertion does not concern is as it was.
<1>3. ASSUME create'[c].at = create[c].at, create'[c].tenant = create[c].tenant,
             create'[c].email = create[c].email, create'[c].answer = create[c].answer,
             create[c].sawLive => create'[c].sawLive,
             \A d \in Creates, i \in Invites :
               /\ CreateInvite(d, i) /\ inv' # inv
               /\ create[d].tenant = create[c].tenant /\ create[d].email = create[c].email
               /\ create[c].at \in {"superseding", "checking", "inserting"}
               => create'[c].sawLive
      PROVE  Met(c)'
  <2>1. ASSUME NEW i \in Invites, create[c].at \in {"superseding", "checking", "inserting"},
               i \in Open(create[c].tenant, create[c].email)'
        PROVE  \/ create'[c].sawLive
               \/ i \in Open(create[c].tenant, create[c].email) /\ (inv[i].lapsed => inv'[i].lapsed)
    <3>1. inv'[i].state = "open" /\ inv'[i].tenant = create[c].tenant /\ inv'[i].email = create[c].email
      BY <1>3, <2>1 DEF Open
    <3>2. QED BY <1>3, <2>1, <3>1, OpenMoves
  <2>2. \A i \in Open(create[c].tenant, create[c].email)' : i \in Invites
    BY DEF Open
  <2>3. QED BY <1>2, <1>3, <2>1, <2>2
<1>4. CASE create'[c] = create[c] \/ create'[c] = [create[c] EXCEPT !.sawLive = TRUE]
  <2>1. /\ create'[c].at = create[c].at /\ create'[c].tenant = create[c].tenant
        /\ create'[c].email = create[c].email /\ create'[c].answer = create[c].answer
        /\ create[c].sawLive => create'[c].sawLive
    BY <1>2, <1>4 DEF CreateRow
  <2>2. ASSUME NEW d \in Creates, NEW i \in Invites, CreateInvite(d, i), inv' # inv,
               create[d].tenant = create[c].tenant, create[d].email = create[c].email,
               create[c].at \in {"superseding", "checking", "inserting"}
        PROVE  create'[c].sawLive
    <3>1. create' = [x \in Creates |->
             IF x = d THEN [create[d] EXCEPT !.at = "mailing", !.invite = i]
             ELSE IF create[x].tenant = create[d].tenant /\ create[x].email = create[d].email
                     /\ create[x].at # "done"
             THEN [create[x] EXCEPT !.sawLive = TRUE]
             ELSE create[x]]
      BY <2>2 DEF CreateInvite
    <3>2. CASE c = d
      <4>1. create'[c].at = "mailing"
        BY <1>2, <3>1, <3>2 DEF CreateRow
      <4>2. QED BY <2>1, <2>2, <4>1
    <3>3. CASE c # d
      BY <1>2, <2>2, <3>1, <3>3 DEF CreateRow
    <3>4. QED BY <3>2, <3>3
  <2>3. QED BY <1>3, <2>1, <2>2
<1>5. ASSUME NEW x, CreateAnswered(c, x), x = "pending" => create[c].sawLive PROVE Met(c)'
  BY <1>5 DEF CreateAnswered, NewCreate, TypeOK
<1>6. ASSUME NEW t \in Tenants, NEW e \in Emails, NEW ps \in SUBSET Props, CreateEnter(c, t, e, ps)
      PROVE  Met(c)'
  <2>1. PICK saw, at, x :
          /\ create' = [create EXCEPT ![c] =
               [NewCreate EXCEPT !.tenant = t, !.email = e, !.props = ps, !.sawLive = saw,
                                 !.at = at, !.answer = x]]
          /\ at \in {"done", "superseding"} /\ x \in {"email_taken", "none"}
          /\ saw = (LiveInvites(t, e) # {})
    BY <1>6, Zenon DEF CreateEnter
  <2>2. /\ create'[c].at = at /\ create'[c].tenant = t /\ create'[c].email = e
        /\ create'[c].answer = x /\ create'[c].sawLive = saw /\ inv' = inv
    <3>1. create' = [create EXCEPT ![c] =
            [NewCreate EXCEPT !.tenant = t, !.email = e, !.props = ps, !.sawLive = saw,
                              !.at = at, !.answer = x]]
      BY <2>1, Zenon
    <3>2. /\ create'[c].at = at /\ create'[c].tenant = t /\ create'[c].email = e
          /\ create'[c].answer = x /\ create'[c].sawLive = saw
      BY <3>1 DEF NewCreate, TypeOK
    <3>3. inv' = inv
      BY <1>6 DEF CreateEnter
    <3>4. QED BY <3>2, <3>3, Zenon
  <2>3. \A i \in Open(t, e) : ~inv[i].lapsed => saw
    BY <2>1 DEF LiveInvites
  <2>4. QED BY <2>1, <2>2, <2>3 DEF Open
<1>7. CASE SupersedeExpiredInvites(c)
  <2>1. /\ create'[c].at = "checking" /\ create'[c].tenant = create[c].tenant
        /\ create'[c].email = create[c].email /\ create'[c].answer = create[c].answer
        /\ create'[c].sawLive = create[c].sawLive
    BY <1>2, <1>7 DEF SupersedeExpiredInvites, TypeOK
  <2>2. ASSUME NEW i \in Open(create[c].tenant, create[c].email)' PROVE create'[c].sawLive
    <3>1. i \in Invites /\ inv[i] \in InvRow
      BY RowsAreTyped DEF Open
    <3>2. i \in Open(create[c].tenant, create[c].email) /\ ~inv[i].lapsed
      BY <1>7, <2>1, <3>1 DEF SupersedeExpiredInvites, Open, InvRow
    <3>3. QED BY <1>2, <1>7, <2>1, <3>2 DEF SupersedeExpiredInvites
  <2>3. QED BY <1>2, <2>1, <2>2
<1>8. CASE CheckLive(c)
  <2>1. CASE CreateAnswered(c, "pending") /\ LiveInvites(create[c].tenant, create[c].email) # {}
    BY <1>2, <1>5, <1>8, <2>1 DEF CheckLive, LiveInvites
  <2>2. CASE create' = [create EXCEPT ![c].at = "inserting"]
    BY <1>2, <1>8, <2>2 DEF CheckLive, TypeOK, Open
  <2>3. QED BY <1>8, <2>1, <2>2 DEF CheckLive
<1>9. ASSUME NEW i \in Invites, CreateInvite(c, i) PROVE Met(c)'
  <2>1. CASE CreateAnswered(c, "pending") /\ Open(create[c].tenant, create[c].email) # {}
    BY <1>2, <1>5, <1>9, <2>1 DEF CreateInvite
  <2>2. CASE create'[c] = [create[c] EXCEPT !.at = "mailing", !.invite = i]
    BY <1>2, <2>2 DEF CreateRow
  <2>3. QED BY <1>9, <2>1, <2>2 DEF CreateInvite
<1>10. CASE SendInvite(c)
  <2>1. /\ create'[c].at \in {"listing", "undoing"} /\ create'[c].answer = create[c].answer
        /\ create'[c].sawLive = create[c].sawLive
    BY <1>2, <1>10 DEF SendInvite, TypeOK
  <2>2. QED BY <1>2, <2>1
<1>11. CASE UndoInvite(c) \/ ListCreated(c) \/ CreateCrash(c)
  BY <1>5, <1>11 DEF UndoInvite, ListCreated, CreateCrash
<1>12. QED
  BY <1>4, <1>6, <1>7, <1>8, <1>9, <1>10, <1>11, WhoWrites, CreateMoves DEF CreateStep

-----------------------------------------------------------------------------
\* The protocol is inductive.
LEMMA AccountsProtocolInit == Init => AccountsProtocol
<1> SUFFICES ASSUME Init PROVE AccountsProtocol
  OBVIOUS
<1>0. None \notin Passwords /\ 0 \in 0 .. MaxFaults
  BY AccountsAssumption
<1>1. ASSUME NEW i \in Invites
      PROVE  inv[i] = NoInvite \/ \E t \in Founded, e \in Emails : inv[i] = Outstanding(t, e)
  <2>1. inv \in [Invites -> {NoInvite} \cup {Outstanding(t, e) : t \in Founded, e \in Emails}]
    BY DEF Init
  <2>2. QED BY <2>1
<1>2. ASSUME NEW t \in Founded, NEW e \in Emails
      PROVE  /\ Outstanding(t, e) \in InvRow
             /\ Outstanding(t, e).state = "open" /\ Outstanding(t, e).tenant = t /\ Outstanding(t, e).email = e
  BY DEF Outstanding, NoInvite, InvRow, Tenants
<1>3. NoInvite \in InvRow /\ NoInvite.state = "none" /\ NoInvite.mailed = FALSE
  BY DEF NoInvite, InvRow
<1>4. ASSUME NEW i \in Invites
      PROVE  \/ inv[i].state = "none" /\ inv[i].mailed = FALSE
             \/ inv[i].state = "open" /\ inv[i].tenant \in Founded /\ inv[i].email \in Emails
  BY <1>1, <1>2, <1>3
<1>5. /\ seat \in [Emails -> [Tenants -> {"none", "staff"}]]
      /\ \A e \in Emails, t \in Tenants :
           seat[e][t] = "staff" => account[e] # None /\ t \in Founded
      /\ account \in [Emails -> Passwords \cup {None}]
  BY DEF Init
<1>6. \A e \in Emails, t \in Tenants : seat[e][t] \in {"none", "staff"}
  BY <1>5
<1>7. grants = [e \in Emails |-> [t \in Tenants |->
                  IF seat[e][t] = "staff" THEN Props ELSE {}]]
  BY DEF Init
<1>8. /\ create = [c \in Creates |-> NewCreate] /\ visit = [a \in Visits |-> NewVisit]
      /\ edit = [t \in Tenants |-> NewEdit] /\ tokens = {} /\ faults = 0
  BY DEF Init
<1>9. TypeOK
  <2>1. NewCreate \in CreateRow /\ NewVisit \in VisitRow /\ NewEdit \in EditRow
    BY DEF NewCreate, CreateRow, NewVisit, VisitRow, NewEdit, EditRow
  <2>2. inv \in [Invites -> InvRow]
    <3>1. \A i \in Invites : inv[i] \in InvRow
      BY <1>1, <1>2, <1>3
    <3>2. inv = [i \in Invites |-> inv[i]]
      BY DEF Init
    <3>3. QED BY <3>1, <3>2
  <2>3. seat \in [Emails -> [Tenants -> Roles]]
    <3>1. [Tenants -> {"none", "staff"}] \subseteq [Tenants -> Roles]
      BY DEF Roles
    <3>2. QED BY <1>5, <3>1
  <2>4. grants \in [Emails -> [Tenants -> SUBSET Props]]
    BY <1>7
  <2>5. QED BY <1>0, <1>5, <1>8, <2>1, <2>2, <2>3, <2>4, RowsAreTyped
<1>10. VisitsHaveTheirRows /\ InviteIsLocked
  BY <1>8 DEF VisitsHaveTheirRows, InviteIsLocked, NewVisit
<1>11. NobodyInvitesAnOwner
  BY <1>4, <1>6, <1>8 DEF NobodyInvitesAnOwner, MayBeStaff, Born, Tenants, NewCreate, NewEdit
<1>12. AccountIsLocked
  <2>1. \A e \in Emails : account[e] = None => Seats(e) = {}
    BY <1>5, <1>6 DEF Seats
  <2>2. \A a \in Visits : visit[a].at = "idle"
    BY <1>8 DEF NewVisit
  <2>3. QED BY <2>1, <2>2 DEF AccountIsLocked, Holders
<1>13. OneWinner
  BY <1>4, <1>8 DEF OneWinner, NewVisit
<1>14. AssignmentsAreOfStaff /\ OwnersStayOwners
  BY <1>7, <1>8 DEF AssignmentsAreOfStaff, OwnersStayOwners
<1>15. MetOnlyLiveInvites /\ RefusalNamesALiveInvite
  BY <1>8 DEF MetOnlyLiveInvites, RefusalNamesALiveInvite, NewCreate
<1>16. QED BY <1>9, <1>10, <1>11, <1>12, <1>13, <1>14, <1>15 DEF AccountsProtocol

LEMMA AccountsProtocolStep == AccountsProtocol /\ [Next]_vars => AccountsProtocol'
<1> SUFFICES ASSUME AccountsProtocol, [Next]_vars PROVE AccountsProtocol'
  OBVIOUS
<1>1. TypeOK'
  BY TypeStep DEF AccountsProtocol
<1>2. VisitsHaveTheirRows' /\ NobodyInvitesAnOwner'
  BY <1>1, RowsStep, StaffStep
<1>3. InviteIsLocked' /\ AccountIsLocked' /\ OneWinner'
  BY InviteLockStep, AccountLockStep, WinnerStep
<1>4. AssignmentsAreOfStaff' /\ OwnersStayOwners'
  BY AssignmentsStep, TokensStep
<1>5. MetOnlyLiveInvites' /\ RefusalNamesALiveInvite'
  BY RefusalStep
<1>6. QED BY <1>1, <1>2, <1>3, <1>4, <1>5 DEF AccountsProtocol

THEOREM AccountsProtocolKept == Spec => []AccountsProtocol
BY AccountsProtocolInit, AccountsProtocolStep, PTL DEF Spec

\* invites.repository: of all accepts of an invite, however they race, crash or are
\* refused, exactly one seats somebody if the invite is spent, and none if it is not.
THEOREM OneSeatPerInvite == Spec => []SpentExactlyOnce
<1>1. AccountsProtocol => SpentExactlyOnce
  <2>1. SUFFICES ASSUME AccountsProtocol, NEW i \in Invites
                 PROVE  Cardinality({a \in Visits : visit[a].won /\ visit[a].invite = i})
                          = IF inv[i].state = "accepted" THEN 1 ELSE 0
    BY DEF SpentExactlyOnce
  <2> DEFINE winners == {a \in Visits : visit[a].won /\ visit[a].invite = i}
  <2>2. CASE inv[i].state = "accepted"
    <3>1. PICK a \in Visits : visit[a].won /\ visit[a].invite = i
      BY <2>1, <2>2 DEF AccountsProtocol, OneWinner
    <3>2. winners = {a}
      BY <2>1, <3>1 DEF AccountsProtocol, OneWinner
    <3>3. QED BY <2>2, <3>2, FS_Singleton
  <2>3. CASE inv[i].state # "accepted"
    <3>1. winners = {}
      BY <2>1, <2>3 DEF AccountsProtocol, OneWinner
    <3>2. QED BY <2>3, <3>1, FS_EmptySet
  <2>4. QED BY <2>2, <2>3
<1>2. QED BY <1>1, AccountsProtocolKept, PTL

\* invites.service: the password of an account with a seat survives every accept and
\* every registration of its address.
THEOREM PasswordsAreSafe == Spec => LiveAccountKeepsItsPassword
<1>1. AccountsProtocol /\ [Next]_vars =>
        \A e \in Emails : Seats(e) # {} => account'[e] = account[e]
  BY AccountMoves
<1>2. QED BY <1>1, AccountsProtocolKept, PTL DEF Spec, LiveAccountKeepsItsPassword

\* A token of any age opens no property of a tenant in which its holder has no seat in the
\* token's role: a grant is tied to the seat, and goes and comes with it.
THEOREM TokensFollowSeats == Spec => []TokenSeesItsSeat
<1>1. AccountsProtocol => TokenSeesItsSeat
  <2>1. SUFFICES ASSUME AccountsProtocol, NEW tk \in tokens, Sees(tk) # {}
                 PROVE  seat[tk.user][tk.tenant] = tk.role
    BY DEF TokenSeesItsSeat
  <2>2. tk.user \in Emails /\ tk.tenant \in Tenants /\ tk.role \in {"owner", "staff"}
    BY <2>1 DEF AccountsProtocol, TypeOK, Token
  <2>3. QED
    BY <2>1, <2>2 DEF AccountsProtocol, AssignmentsAreOfStaff, OwnersStayOwners, Sees
<1>2. QED BY <1>1, AccountsProtocolKept, PTL

\* invite_already_pending is only ever answered for an invite that was live while the
\* request ran.
THEOREM RefusalsAreForLiveInvites == Spec => []RefusalNamesALiveInvite
<1>1. AccountsProtocol => RefusalNamesALiveInvite
  BY DEF AccountsProtocol
<1>2. QED BY <1>1, AccountsProtocolKept, PTL
===============================================================================
