--------------------------- MODULE SaaSMembership ---------------------------
(***************************************************************************)
(* One person's memberships of a customer account of the referral SaaS:    *)
(* invited, mailed, given an acceptance link, edited, cancelled, activated *)
(* and seated (services/referral_saas_account_membership_service), while   *)
(* the account foundation is activated and gets its seats.                 *)
(*                                                                         *)
(* A command reads outside any transaction, decides, and writes in one     *)
(* transaction; most writes name again the status they rely on, those of   *)
(* a delivery, a link's expiry and a login completion do not.              *)
(* Accepting a link is three such steps on three connections. A retry with *)
(* a known idempotency key and a refusal change no row and are left out.   *)
(***************************************************************************)
EXTENDS Naturals

CONSTANTS Calls,    \* concurrent commands
          Members,  \* bound: the membership rows of the person
          Roles,    \* role families
          Links,    \* bound: the acceptance tokens that can be issued
          Seats,    \* seat types; the account gets one seat of each
          None      \* no role, no link, no seat, no membership

ASSUME NoneAssumption == None \notin Members \cup Roles \cup Links \cup Seats

VARIABLES account,  \* platform_accounts.status
          member,   \* platform_memberships
          link,     \* referral_saas_membership_acceptance_tokens
          seat,     \* platform_seats
          lapsed,   \* links whose expires_at passed while they were issued
          call,     \* what each command is about to write
          crossed,  \* history: memberships edited under a command that activates them
          lost      \* history: links whose acceptance a crash or an expiry overtook

vars == <<account, member, link, seat, lapsed, call, crossed, lost>>

\* A login that needs a seat, or none: not required, managed elsewhere or not recorded yet.
Logins == {"NONE", "PLATFORM"}
Absent == [status |-> "ABSENT", role |-> None, delivery |-> "NONE", seat |-> None,
           login |-> "NONE", via |-> None, audited |-> None]
Idle == [op |-> "NONE", member |-> None, role |-> None, link |-> None, seat |-> None,
         out |-> "NONE"]

Init == /\ account = "PENDING_ONBOARDING"
        /\ member = [m \in Members |-> Absent]
        /\ link = [l \in Links |-> [status |-> "UNISSUED", of |-> None]]
        /\ seat = [s \in Seats |-> [status |-> "UNMADE", to |-> None]]
        /\ lapsed = {}
        /\ call = [c \in Calls |-> Idle]
        /\ crossed = {}
        /\ lost = {}

-----------------------------------------------------------------------------
Status(m, status) == m \in Members /\ member[m].status = status

(* The usable memberships of a role, but for m: what the duplicate check    *)
(* and the unique index idx_platform_memberships_active_user_role look at.  *)
Usable(role, m) == \E n \in Members \ {m} :
                      member[n].role = role /\ member[n].status \in {"INVITED", "ACTIVE"}

Begin(c, k) == /\ call[c] = Idle
               /\ call' = [call EXCEPT ![c] = k]
               /\ UNCHANGED <<account, member, link, seat, lapsed, crossed, lost>>
End(c) == call' = [call EXCEPT ![c] = Idle]

(* The end of a command that writes membership m, where its WHERE clause    *)
(* holds; where it does not, the transaction rolls back and nothing is      *)
(* written.                                                                 *)
Write(c, m, where, row) ==
    /\ member' = IF where THEN [member EXCEPT ![m] = row] ELSE member
    /\ UNCHANGED <<account, link, lapsed, lost>>

-----------------------------------------------------------------------------
Invite(c, role) ==
    /\ ~Usable(role, None)
    /\ Begin(c, [Idle EXCEPT !.op = "INVITE", !.role = role])
WriteInvitation(c, m) ==
    /\ call[c].op = "INVITE" /\ Status(m, "ABSENT")
    /\ Write(c, m, ~Usable(call[c].role, None),
             [Absent EXCEPT !.status = "INVITED", !.role = call[c].role])
    /\ End(c)
    /\ UNCHANGED <<seat, crossed>>

(* The mail is out before its outcome is written, over whatever has become  *)
(* of the membership.                                                       *)
Deliver(c, m, outcome) ==
    /\ Status(m, "INVITED")
    /\ Begin(c, [Idle EXCEPT !.op = "DELIVER", !.member = m, !.out = outcome])
WriteDelivery(c) ==
    /\ call[c].op = "DELIVER"
    /\ LET m == call[c].member IN
       Write(c, m, TRUE, [member[m] EXCEPT !.delivery = call[c].out])
    /\ End(c)
    /\ UNCHANGED <<seat, crossed>>

(* An edit of the role needs an invited membership, and no other of that    *)
(* role.                                                                    *)
Edit(c, m, role) ==
    /\ Status(m, "INVITED") /\ ~Usable(role, m)
    /\ Begin(c, [Idle EXCEPT !.op = "EDIT", !.member = m, !.role = role])
EditHolds(m, role) == Status(m, "INVITED") /\ ~Usable(role, m)
\* Mutant: the write no longer asks for the invited status.
WriteEditMutant(c) ==
    /\ call[c].op = "EDIT"
    /\ LET m == call[c].member IN
       /\ Write(c, m, ~Usable(call[c].role, m), [member[m] EXCEPT !.role = call[c].role])
       /\ crossed' = crossed \cup {n \in {m} : \E d \in Calls : call[d].op = "ACTIVATE"
                                                             /\ call[d].member = n}
    /\ End(c)
    /\ UNCHANGED seat
WriteEdit(c) ==
    /\ call[c].op = "EDIT"
    /\ LET m == call[c].member IN
       /\ Write(c, m, EditHolds(m, call[c].role), [member[m] EXCEPT !.role = call[c].role])
       /\ crossed' = crossed \cup {n \in {m} : \E d \in Calls : call[d].op = "ACTIVATE"
                                                             /\ call[d].member = n}
    /\ End(c)
    /\ UNCHANGED seat

(* A cancelled membership keeps its row, disabled, and its links.           *)
Cancel(c, m) ==
    /\ Status(m, "INVITED")
    /\ Begin(c, [Idle EXCEPT !.op = "CANCEL", !.member = m])
\* Mutant: the row gets the name of the command as its status.
WriteCancelMutant(c) ==
    /\ call[c].op = "CANCEL"
    /\ LET m == call[c].member IN
       Write(c, m, Status(m, "INVITED"), [member[m] EXCEPT !.status = "CANCELLED"])
    /\ End(c)
    /\ UNCHANGED <<seat, crossed>>
WriteCancel(c) ==
    /\ call[c].op = "CANCEL"
    /\ LET m == call[c].member IN
       Write(c, m, Status(m, "INVITED"), [member[m] EXCEPT !.status = "DISABLED"])
    /\ End(c)
    /\ UNCHANGED <<seat, crossed>>

-----------------------------------------------------------------------------
(* A link needs a mail that was sent; its row is inserted whatever has      *)
(* become of the membership, and earlier links stay good.                   *)
IssueLink(c, m) ==
    /\ Status(m, "INVITED") /\ member[m].delivery = "SENT"
    /\ Begin(c, [Idle EXCEPT !.op = "ISSUE", !.member = m])
WriteLink(c, l) ==
    /\ call[c].op = "ISSUE" /\ link[l].status = "UNISSUED"
    /\ link' = [link EXCEPT ![l] = [status |-> "ISSUED", of |-> call[c].member]]
    /\ End(c)
    /\ UNCHANGED <<account, member, seat, lapsed, crossed, lost>>
Lapse(l) ==
    /\ link[l].status = "ISSUED" /\ l \notin lapsed
    /\ lapsed' = lapsed \cup {l}
    /\ UNCHANGED <<account, member, link, seat, call, crossed, lost>>

(* Whoever opens a link, to look at it or to accept it, and finds it issued *)
(* and past its time marks it expired, whatever it has become meanwhile.    *)
FindLapsed(c, l) ==
    /\ link[l].status = "ISSUED" /\ l \in lapsed
    /\ Begin(c, [Idle EXCEPT !.op = "EXPIRE", !.link = l])
Accepting(l) == \E d \in Calls : call[d].op \in {"ACCEPT", "ACTIVATE", "SPEND"} /\ call[d].link = l
WriteExpiry(c) ==
    /\ call[c].op = "EXPIRE"
    /\ LET l == call[c].link IN
       /\ link' = [link EXCEPT ![l].status = "EXPIRED"]
       /\ lost' = IF Accepting(l) \/ link[l].status = "ACCEPTED" THEN lost \cup {l} ELSE lost
    /\ End(c)
    /\ UNCHANGED <<account, member, seat, lapsed, crossed>>

(* Accepting a link: the link is read, on a second connection the           *)
(* membership is read and activated, on a third the link is marked.         *)
Accept(c, l) ==
    /\ link[l].status = "ISSUED" /\ l \notin lapsed /\ account = "ACTIVE"
    /\ Begin(c, [Idle EXCEPT !.op = "ACCEPT", !.member = link[l].of, !.link = l])
CheckAccepted(c) ==
    /\ call[c].op = "ACCEPT"
    /\ LET m == call[c].member IN
       call' = [call EXCEPT ![c] =
          IF Status(m, "INVITED") /\ ~(\E n \in Members \ {m} : member[n].status = "ACTIVE"
                                                             /\ member[n].role = member[m].role)
            THEN [@ EXCEPT !.op = "ACTIVATE", !.role = member[m].role] ELSE Idle]
    /\ UNCHANGED <<account, member, link, seat, lapsed, crossed, lost>>

(* An operator's activation, or an administrator's for an account that is   *)
(* still pending, goes the same way without a link.                         *)
RequestActivation(c, m) ==
    /\ Status(m, "INVITED")
    /\ ~(\E n \in Members \ {m} : member[n].status = "ACTIVE" /\ member[n].role = member[m].role)
    /\ Begin(c, [Idle EXCEPT !.op = "ACTIVATE", !.member = m, !.role = member[m].role])
Activated(k) == [member[k.member] EXCEPT !.status = "ACTIVE", !.via = k.link, !.audited = k.role]
\* Mutant: the write does not ask for the invited status again.
WriteActivationMutant(c) ==
    /\ call[c].op = "ACTIVATE"
    /\ Write(c, call[c].member, TRUE, Activated(call[c]))
    /\ call' = [call EXCEPT ![c] = IF call[c].link # None THEN [@ EXCEPT !.op = "SPEND"] ELSE Idle]
    /\ UNCHANGED <<seat, crossed>>
WriteActivation(c) ==
    /\ call[c].op = "ACTIVATE"
    /\ LET m == call[c].member IN
       /\ Write(c, m, Status(m, "INVITED"), Activated(call[c]))
       /\ call' = [call EXCEPT ![c] =
             IF Status(m, "INVITED") /\ call[c].link # None THEN [@ EXCEPT !.op = "SPEND"] ELSE Idle]
    /\ UNCHANGED <<seat, crossed>>
\* Mutant: a link that has lapsed since it was read is not marked.
SpendLinkMutant(c) ==
    /\ call[c].op = "SPEND"
    /\ LET l == call[c].link IN
       link' = IF link[l].status = "ISSUED" /\ l \notin lapsed
                 THEN [link EXCEPT ![l].status = "ACCEPTED"] ELSE link
    /\ End(c)
    /\ UNCHANGED <<account, member, seat, lapsed, crossed, lost>>
SpendLink(c) ==
    /\ call[c].op = "SPEND"
    /\ LET l == call[c].link IN
       link' = IF link[l].status = "ISSUED" THEN [link EXCEPT ![l].status = "ACCEPTED"] ELSE link
    /\ End(c)
    /\ UNCHANGED <<account, member, seat, lapsed, crossed, lost>>

-----------------------------------------------------------------------------
(* Activating the account's foundation adds the seat types it lacks.        *)
ActivateFoundation(types) ==
    /\ account' = "ACTIVE"
    /\ seat' = [s \in Seats |-> IF s \in types /\ seat[s].status = "UNMADE"
                                  THEN [seat[s] EXCEPT !.status = "AVAILABLE"] ELSE seat[s]]
    /\ UNCHANGED <<member, link, lapsed, call, crossed, lost>>

(* A seat is chosen without a lock that lasts; the transaction asks again   *)
(* for the free seat, for the index idx_platform_seats_assigned_membership  *)
(* and for an active membership without a seat.                             *)
Provision(c, m, s) ==
    /\ account = "ACTIVE" /\ Status(m, "ACTIVE") /\ member[m].seat = None
    /\ seat[s].status = "AVAILABLE"
    /\ Begin(c, [Idle EXCEPT !.op = "SEAT", !.member = m, !.seat = s])
\* Mutant: only the seat is asked for again.
SeatHoldsMutant(m, s) == seat[s].status = "AVAILABLE"
SeatHolds(m, s) ==
    /\ seat[s].status = "AVAILABLE"
    /\ \A t \in Seats : seat[t].to # m
    /\ Status(m, "ACTIVE") /\ member[m].seat = None
WriteSeat(c) ==
    /\ call[c].op = "SEAT"
    /\ LET m == call[c].member
           s == call[c].seat IN
       /\ Write(c, m, SeatHolds(m, s), [member[m] EXCEPT !.seat = s])
       /\ seat' = IF SeatHolds(m, s)
                    THEN [seat EXCEPT ![s] = [status |-> "ASSIGNED", to |-> m]] ELSE seat
    /\ End(c)
    /\ UNCHANGED crossed

(* A login on the platform needs a seat; the other intents need none, and   *)
(* replace a platform login.                                                *)
CompleteLogin(c, m, intent) ==
    /\ account = "ACTIVE" /\ Status(m, "ACTIVE")
    /\ intent = "PLATFORM" => member[m].seat # None
    /\ Begin(c, [Idle EXCEPT !.op = "LOGIN", !.member = m, !.out = intent])
WriteLogin(c) ==
    /\ call[c].op = "LOGIN"
    /\ LET m == call[c].member IN Write(c, m, TRUE, [member[m] EXCEPT !.login = call[c].out])
    /\ End(c)
    /\ UNCHANGED <<seat, crossed>>

(* The process of a command dies between two of its steps.                  *)
Die(c) ==
    /\ call[c] # Idle
    /\ End(c)
    /\ lost' = IF call[c].op = "SPEND" THEN lost \cup {call[c].link} ELSE lost
    /\ UNCHANGED <<account, member, link, seat, lapsed, crossed>>

-----------------------------------------------------------------------------
Next == \/ \E c \in Calls :
             \/ \E role \in Roles : Invite(c, role) \/ \E m \in Members : Edit(c, m, role)
             \/ \E m \in Members : \/ WriteInvitation(c, m)
                                   \/ \E o \in {"SENT", "FAILED"} : Deliver(c, m, o)
                                   \/ Cancel(c, m) \/ IssueLink(c, m) \/ RequestActivation(c, m)
                                   \/ \E s \in Seats : Provision(c, m, s)
                                   \/ \E i \in Logins : CompleteLogin(c, m, i)
             \/ \E l \in Links : WriteLink(c, l) \/ FindLapsed(c, l) \/ Accept(c, l)
             \/ WriteDelivery(c) \/ WriteEdit(c) \/ WriteCancel(c) \/ WriteExpiry(c)
             \/ CheckAccepted(c) \/ WriteActivation(c) \/ SpendLink(c)
             \/ WriteSeat(c) \/ WriteLogin(c) \/ Die(c)
        \/ \E l \in Links : Lapse(l)
        \/ \E types \in SUBSET Seats : ActivateFoundation(types)

Spec == Init /\ [][Next]_vars
-----------------------------------------------------------------------------
MemberType == [status: {"ABSENT", "INVITED", "ACTIVE", "DISABLED"}, role: Roles \cup {None},
               delivery: {"NONE", "SENT", "FAILED"}, seat: Seats \cup {None}, login: Logins,
               via: Links \cup {None}, audited: Roles \cup {None}]
LinkType == [status: {"UNISSUED", "ISSUED", "ACCEPTED", "EXPIRED"}, of: Members \cup {None}]
SeatType == [status: {"UNMADE", "AVAILABLE", "ASSIGNED"}, to: Members \cup {None}]
CallType == [op: {"NONE", "INVITE", "DELIVER", "EDIT", "CANCEL", "ISSUE", "EXPIRE", "ACCEPT",
                  "ACTIVATE", "SPEND", "SEAT", "LOGIN"},
             member: Members \cup {None}, role: Roles \cup {None}, link: Links \cup {None},
             seat: Seats \cup {None}, out: Logins \cup {"SENT", "FAILED"}]

TypeOK == /\ account \in {"PENDING_ONBOARDING", "ACTIVE"}
          /\ member \in [Members -> MemberType]
          /\ link \in [Links -> LinkType]
          /\ seat \in [Seats -> SeatType]
          /\ lapsed \in SUBSET Links
          /\ call \in [Calls -> CallType]
          /\ crossed \in SUBSET Members
          /\ lost \in SUBSET Links

(* A cancelled membership stays cancelled, whatever links to it are still   *)
(* out and whatever commands read it before, and it never gets a seat.      *)
CancelledStaysOut ==
    [][\A m \in Members : member[m].status = "DISABLED" =>
          member'[m].status = "DISABLED" /\ member'[m].seat = None]_vars

(* A seat and its membership name each other, only an active membership has *)
(* a seat, and a platform login has one.                                    *)
SeatsAgree ==
    /\ \A s \in Seats, m \in Members : seat[s].to = m <=> member[m].seat = s
    /\ \A m \in Members : /\ member[m].seat # None => member[m].status = "ACTIVE"
                          /\ member[m].login = "PLATFORM" => member[m].seat # None

(* A link reads ACCEPTED only if it let its own membership in; a link that  *)
(* let someone in reads ACCEPTED once its call is through, unless the call  *)
(* died before the last statement or an expiry was written over it.         *)
LinkIsSpent ==
    /\ \A l \in Links : link[l].status = "ACCEPTED" =>
          /\ Status(link[l].of, "ACTIVE") /\ member[link[l].of].via = l
    /\ \A m \in Members : LET l == member[m].via IN
          l # None /\ l \notin lost /\ ~(\E c \in Calls : call[c].op = "SPEND" /\ call[c].link = l)
             => link[l].status = "ACCEPTED"

(* An active membership has the role its activation was audited with,       *)
(* unless an edit was written between the activation's check and its write. *)
AuditedRoleStands ==
    \A m \in Members \ crossed :
       member[m].status = "ACTIVE" => member[m].role = member[m].audited
=============================================================================
