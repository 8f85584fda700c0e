------------------------ MODULE SaaSMembershipProofs ------------------------
(***************************************************************************)
(* What holds of the memberships of a person for any number of commands,   *)
(* memberships, roles, links and seats: the types, that a cancelled        *)
(* membership stays cancelled, that seats and memberships name each other, *)
(* what a used link says, and that an audited role stands.                 *)
(***************************************************************************)
EXTENDS SaaSMembership, TLAPS

(* What a command under way knows: its membership exists, and so on. Only   *)
(* an edit that crosses the command, an expiry or a crash takes the rest    *)
(* away.                                                                    *)
OnMember == {"DELIVER", "EDIT", "CANCEL", "ISSUE", "ACCEPT", "ACTIVATE", "SPEND", "SEAT", "LOGIN"}
OnLink == {"ACCEPT", "ACTIVATE", "SPEND"}
Fit(k) ==
    /\ k.op \in OnMember => k.member \in Members /\ member[k.member].status # "ABSENT"
    /\ k.op = "INVITE" \/ k.op = "EDIT" => k.role \in Roles
    /\ k.op \in {"EXPIRE", "ACCEPT", "SPEND"} => k.link \in Links
    /\ k.op = "EXPIRE" => link[k.link].status # "UNISSUED"
    /\ k.op \in OnLink /\ k.link # None =>
          /\ link[k.link].of = k.member
          /\ link[k.link].status # "UNISSUED"
          /\ k.link \notin lost => link[k.link].status \in {"ISSUED", "ACCEPTED"}
    /\ k.op = "SPEND" => member[k.member].status = "ACTIVE" /\ member[k.member].via = k.link
    /\ k.op = "SEAT" => k.seat \in Seats
    /\ k.op = "DELIVER" => k.out \in {"SENT", "FAILED"}
    /\ k.op = "LOGIN" => k.out \in Logins
    /\ k.op = "LOGIN" /\ k.out = "PLATFORM" => member[k.member].seat # None
    /\ k.op = "ACTIVATE" /\ k.member \notin crossed /\ member[k.member].status = "INVITED" =>
          k.role = member[k.member].role
CallInv == \A c \in Calls : Fit(call[c])

(* A seat that is not assigned is nobody's.                                 *)
SeatInv == /\ SeatsAgree
           /\ \A s \in Seats : seat[s].status # "ASSIGNED" => seat[s].to = None

(* A link in use belongs to a membership; who came in through a link came   *)
(* in through one of their own.                                             *)
Spending(l) == \E c \in Calls : call[c].op = "SPEND" /\ call[c].link = l
LinkInv ==
    /\ \A l \in Links : link[l].status # "UNISSUED" =>
          link[l].of \in Members /\ member[link[l].of].status # "ABSENT"
    /\ \A l \in Links : link[l].status = "ACCEPTED" =>
          Status(link[l].of, "ACTIVE") /\ member[link[l].of].via = l
    /\ \A m \in Members : member[m].via # None =>
          /\ member[m].status = "ACTIVE"
          /\ link[member[m].via].status # "UNISSUED" /\ link[member[m].via].of = m
          /\ \/ link[member[m].via].status = "ACCEPTED"
             \/ member[m].via \in lost \/ Spending(member[m].via)

Inv == TypeOK /\ CallInv /\ SeatInv /\ LinkInv /\ AuditedRoleStands

-----------------------------------------------------------------------------
LEMMA IdleType == Idle \in CallType /\ Idle.op = "NONE"
BY DEF Idle, CallType, Logins

LEMMA InitInv == Init => Inv
<1> SUFFICES ASSUME Init PROVE Inv
    OBVIOUS
<1>1. Absent \in MemberType
    BY DEF Absent, MemberType, Logins
<1>2. TypeOK
    BY <1>1, IdleType DEF Init, TypeOK, LinkType, SeatType
<1>3. CallInv
    BY IdleType DEF Init, CallInv, Fit, OnMember, OnLink
<1>4. SeatInv
    BY NoneAssumption DEF Init, SeatInv, SeatsAgree, Absent
<1>5. LinkInv
    BY DEF Init, LinkInv, Absent
<1>6. AuditedRoleStands
    BY DEF Init, AuditedRoleStands, Absent
<1> QED
    BY <1>2, <1>3, <1>4, <1>5, <1>6 DEF Inv

-----------------------------------------------------------------------------
(* A step that only takes a call further, not out of its last statement.    *)
LEMMA CallStep ==
    ASSUME Inv, NEW c \in Calls, NEW k \in CallType, Fit(k), call[c].op # "SPEND",
           call' = [call EXCEPT ![c] = k],
           UNCHANGED <<account, member, link, seat, lapsed, crossed, lost>>
    PROVE  Inv'
<1>1. call' \in [Calls -> CallType]
    BY DEF Inv, TypeOK
<1>2. TypeOK'
    BY <1>1 DEF Inv, TypeOK
<1>3. CallInv'
    <2> SUFFICES ASSUME NEW d \in Calls PROVE Fit(call[d])'
        BY DEF CallInv
    <2>1. call'[d] = k \/ call'[d] = call[d]
        BY DEF Inv, TypeOK
    <2>2. Fit(call[d])
        BY DEF Inv, CallInv
    <2> QED
        BY <2>1, <2>2 DEF Fit
<1>4. SeatInv'
    BY DEF Inv, SeatInv, SeatsAgree
<1>5. ASSUME NEW l, Spending(l) PROVE Spending(l)'
    BY <1>5 DEF Spending, Inv, TypeOK
<1>6. LinkInv'
    BY <1>5 DEF Inv, LinkInv, Status
<1>7. AuditedRoleStands'
    BY DEF Inv, AuditedRoleStands
<1> QED
    BY <1>2, <1>3, <1>4, <1>6, <1>7 DEF Inv

(* A row that a command may write over membership m: it keeps seat and      *)
(* entrance, and what an active membership is.                              *)
Keeps(old, row) ==
    /\ row \in MemberType /\ row.status # "ABSENT"
    /\ row.status = "ACTIVE" <=> old.status = "ACTIVE"
    /\ row.seat = old.seat /\ row.via = old.via
    /\ row.login = "PLATFORM" => row.seat # None
    /\ row.status = "ACTIVE" => row.role = old.role /\ row.audited = old.audited

LEMMA RowStep ==
    ASSUME Inv, NEW c \in Calls, NEW m \in Members, NEW row, Keeps(member[m], row),
           member' = [member EXCEPT ![m] = row], call' = [call EXCEPT ![c] = Idle],
           call[c].op # "SPEND", crossed \subseteq crossed', crossed' \in SUBSET Members,
           \/ member[m].status = "ABSENT" \/ row.role = member[m].role
           \/ \A d \in Calls : call[d].op = "ACTIVATE" /\ call[d].member = m => m \in crossed',
           row.status = "INVITED" => member[m].status \in {"ABSENT", "INVITED"},
           UNCHANGED <<account, link, seat, lapsed, lost>>
    PROVE  Inv'
<1>1. TypeOK'
    BY IdleType DEF Inv, TypeOK, Keeps
<1>2. /\ member'[m] = row /\ \A n \in Members \ {m} : member'[n] = member[n]
      /\ call'[c] = Idle /\ \A d \in Calls \ {c} : call'[d] = call[d]
    BY DEF Inv, TypeOK
<1>3. CallInv'
    <2> SUFFICES ASSUME NEW d \in Calls PROVE Fit(call[d])'
        BY DEF CallInv
    <2>1. CASE d = c
        BY <2>1, <1>2, IdleType DEF Fit, OnMember, OnLink
    <2>2. CASE d # c
        <3>1. call'[d] = call[d] /\ Fit(call[d])
            BY <2>2, <1>2 DEF Inv, CallInv
        <3>2. CASE call[d].op \in OnMember /\ call[d].member = m
            BY <3>1, <3>2, <1>2 DEF Fit, Keeps, OnMember, OnLink
        <3>3. CASE ~(call[d].op \in OnMember /\ call[d].member = m)
            BY <3>1, <3>3, <1>2 DEF Fit, OnMember, OnLink
        <3> QED
            BY <3>2, <3>3
    <2> QED
        BY <2>1, <2>2
<1>4. SeatInv'
    <2>1. \A s \in Seats, n \in Members : seat[s].to = n <=> member'[n].seat = s
        BY <1>2 DEF Inv, SeatInv, SeatsAgree, Keeps
    <2>2. \A n \in Members : /\ member'[n].seat # None => member'[n].status = "ACTIVE"
                             /\ member'[n].login = "PLATFORM" => member'[n].seat # None
        BY <1>2 DEF Inv, SeatInv, SeatsAgree, Keeps
    <2> QED
        BY <2>1, <2>2 DEF Inv, SeatInv, SeatsAgree
<1>5. ASSUME NEW l, Spending(l) PROVE Spending(l)'
    BY <1>2, <1>5 DEF Spending
<1>6. LinkInv'
    <2>1. \A l \in Links : link'[l].status # "UNISSUED" =>
             link'[l].of \in Members /\ member'[link'[l].of].status # "ABSENT"
        BY <1>2 DEF Inv, LinkInv, Keeps
    <2>2. \A l \in Links : link'[l].status = "ACCEPTED" =>
             Status(link[l].of, "ACTIVE")' /\ member'[link'[l].of].via = l
        BY <1>2 DEF Inv, LinkInv, Keeps, Status
    <2>3. \A n \in Members : member'[n].via = member[n].via
                             /\ (member[n].status = "ACTIVE" => member'[n].status = "ACTIVE")
        BY <1>2 DEF Keeps
    <2>4. \A n \in Members : member'[n].via # None =>
             /\ member'[n].status = "ACTIVE"
             /\ link'[member'[n].via].status # "UNISSUED" /\ link'[member'[n].via].of = n
             /\ \/ link'[member'[n].via].status = "ACCEPTED"
                \/ member'[n].via \in lost' \/ Spending(member[n].via)'
        BY <2>3, <1>5 DEF Inv, LinkInv
    <2> QED
        BY <2>1, <2>2, <2>4 DEF LinkInv
<1>7. AuditedRoleStands'
    BY <1>2 DEF Inv, AuditedRoleStands, Keeps
<1> QED
    BY <1>1, <1>3, <1>4, <1>6, <1>7 DEF Inv

(* A step that ends a call without touching a membership.                   *)
LEMMA EndStep ==
    ASSUME Inv, NEW c \in Calls, call' = [call EXCEPT ![c] = Idle], call[c].op # "SPEND",
           UNCHANGED <<account, member, link, seat, lapsed, crossed, lost>>
    PROVE  Inv'
<1>1. Fit(Idle)
    BY IdleType DEF Fit, OnMember, OnLink
<1> QED
    BY <1>1, IdleType, CallStep

(* The commands that rewrite a row.                                         *)
LEMMA InvitationStep ==
    ASSUME Inv, NEW c \in Calls, NEW m \in Members, WriteInvitation(c, m) PROVE Inv'
<1> DEFINE row == [Absent EXCEPT !.status = "INVITED", !.role = call[c].role]
<1>1. call[c].op = "INVITE" /\ call[c].role \in Roles /\ member[m].status = "ABSENT"
    BY DEF WriteInvitation, Status, Inv, CallInv, Fit
<1>2. member[m].seat = None /\ member[m].via = None
    BY <1>1 DEF Inv, SeatInv, SeatsAgree, LinkInv
<1>3. Keeps(member[m], row)
    BY <1>1, <1>2 DEF Keeps, Absent, MemberType, Logins
<1>4. UNCHANGED <<account, link, seat, lapsed, crossed, lost>> /\ call' = [call EXCEPT ![c] = Idle]
    BY DEF WriteInvitation, Write, End
<1>5. CASE member' = [member EXCEPT ![m] = row]
    BY <1>1, <1>3, <1>4, <1>5, RowStep DEF Inv, TypeOK
<1>6. CASE member' = member
    BY <1>1, <1>4, <1>6, EndStep
<1> QED
    BY <1>5, <1>6 DEF WriteInvitation, Write

LEMMA DeliveryStep ==
    ASSUME Inv, NEW c \in Calls, WriteDelivery(c) PROVE Inv'
<1> DEFINE m == call[c].member
           row == [member[m] EXCEPT !.delivery = call[c].out]
<1>1. call[c].op = "DELIVER" /\ m \in Members /\ member[m].status # "ABSENT"
    BY DEF WriteDelivery, Inv, CallInv, Fit, OnMember
<1>2. call[c].out \in {"NONE", "SENT", "FAILED"}
    BY <1>1 DEF Inv, CallInv, Fit
<1>3. Keeps(member[m], row)
    BY <1>1, <1>2 DEF Keeps, Inv, TypeOK, MemberType, SeatInv, SeatsAgree
<1>4. UNCHANGED <<account, link, seat, lapsed, crossed, lost>> /\ call' = [call EXCEPT ![c] = Idle]
      /\ member' = [member EXCEPT ![m] = row]
    BY DEF WriteDelivery, Write, End
<1>5. row.status = member[m].status /\ row.role = member[m].role
    BY <1>1 DEF Inv, TypeOK, MemberType
<1> QED
    BY <1>1, <1>3, <1>4, <1>5, RowStep DEF Inv, TypeOK, MemberType

LEMMA EditStep ==
    ASSUME Inv, NEW c \in Calls, WriteEdit(c) PROVE Inv'
<1> DEFINE m == call[c].member
           row == [member[m] EXCEPT !.role = call[c].role]
<1>1. call[c].op = "EDIT" /\ m \in Members /\ call[c].role \in Roles
    BY DEF WriteEdit, Inv, CallInv, Fit, OnMember
<1>2. UNCHANGED <<account, link, seat, lapsed, lost>> /\ call' = [call EXCEPT ![c] = Idle]
    BY DEF WriteEdit, Write, End
<1>3. crossed \subseteq crossed' /\ crossed' \in SUBSET Members
    BY <1>1 DEF WriteEdit, Inv, TypeOK
<1>4. \A d \in Calls : call[d].op = "ACTIVATE" /\ call[d].member = m => m \in crossed'
    BY DEF WriteEdit
<1>5. CASE member' = [member EXCEPT ![m] = row] /\ Status(m, "INVITED")
    <2>1. Keeps(member[m], row)
        BY <1>1, <1>5 DEF Keeps, Status, Inv, TypeOK, MemberType, SeatInv, SeatsAgree
    <2> QED
        BY <1>1, <1>2, <1>3, <1>4, <1>5, <2>1, RowStep DEF Status
<1>6. CASE member' = member
    <2>1. \A old : old = member[m] => Keeps(old, member[m]) \/ old.status = "ABSENT"
        BY <1>1 DEF Keeps, Inv, TypeOK, SeatInv, SeatsAgree
    <2>2. Keeps(member[m], member[m])
        BY <1>1, <2>1 DEF Inv, CallInv, Fit, OnMember
    <2>3. member' = [member EXCEPT ![m] = member[m]]
        BY <1>1, <1>6 DEF Inv, TypeOK
    <2> QED
        BY <1>1, <1>2, <1>3, <1>4, <2>2, <2>3, RowStep DEF Inv, TypeOK, MemberType
<1> QED
    BY <1>5, <1>6 DEF WriteEdit, Write, EditHolds

LEMMA CancelStep ==
    ASSUME Inv, NEW c \in Calls, WriteCancel(c) PROVE Inv'
<1> DEFINE m == call[c].member
           row == [member[m] EXCEPT !.status = "DISABLED"]
<1>1. call[c].op = "CANCEL" /\ m \in Members
    BY DEF WriteCancel, Inv, CallInv, Fit, OnMember
<1>2. UNCHANGED <<account, link, seat, lapsed, crossed, lost>> /\ call' = [call EXCEPT ![c] = Idle]
    BY DEF WriteCancel, Write, End
<1>3. CASE member' = [member EXCEPT ![m] = row] /\ Status(m, "INVITED")
    <2>1. Keeps(member[m], row)
        <3>1. member[m] \in MemberType /\ member[m].status = "INVITED"
            BY <1>1, <1>3 DEF Status, Inv, TypeOK
        <3>2. member[m].login = "PLATFORM" => member[m].seat # None
            BY <1>1 DEF Inv, SeatInv, SeatsAgree
        <3> QED
            BY <3>1, <3>2 DEF Keeps, MemberType
    <2>2. row.role = member[m].role /\ row.status # "INVITED"
        BY <1>1 DEF Inv, TypeOK, MemberType
    <2> QED
        BY <1>1, <1>2, <1>3, <2>1, <2>2, RowStep DEF Inv, TypeOK
<1>4. CASE member' = member
    BY <1>1, <1>2, <1>4, EndStep
<1> QED
    BY <1>3, <1>4 DEF WriteCancel, Write

LEMMA LoginStep ==
    ASSUME Inv, NEW c \in Calls, WriteLogin(c) PROVE Inv'
<1> DEFINE m == call[c].member
           row == [member[m] EXCEPT !.login = call[c].out]
<1>1. /\ call[c].op = "LOGIN" /\ m \in Members /\ member[m].status # "ABSENT"
      /\ call[c].out = "PLATFORM" => member[m].seat # None
    BY DEF WriteLogin, Inv, CallInv, Fit, OnMember
<1>2. call[c].out \in Logins
    BY <1>1 DEF Inv, CallInv, Fit
<1>3. Keeps(member[m], row)
    BY <1>1, <1>2 DEF Keeps, Inv, TypeOK, MemberType
<1>4. UNCHANGED <<account, link, seat, lapsed, crossed, lost>> /\ call' = [call EXCEPT ![c] = Idle]
      /\ member' = [member EXCEPT ![m] = row]
    BY DEF WriteLogin, Write, End
<1>5. row.status = member[m].status /\ row.role = member[m].role
    BY <1>1 DEF Inv, TypeOK, MemberType
<1> QED
    BY <1>1, <1>3, <1>4, <1>5, RowStep DEF Inv, TypeOK, MemberType

-----------------------------------------------------------------------------
(* An activation lets in an invited membership with the role it has read,   *)
(* unless an edit crossed it, and goes on to mark its link.                 *)
LEMMA ActivationStep ==
    ASSUME Inv, NEW c \in Calls, WriteActivation(c) PROVE Inv'
<1> DEFINE m == call[c].member
           l == call[c].link
           k == [call[c] EXCEPT !.op = "SPEND"]
<1>1. /\ call[c].op = "ACTIVATE" /\ m \in Members /\ Fit(call[c])
      /\ call[c] \in CallType /\ member[m] \in MemberType
    BY DEF WriteActivation, Inv, TypeOK, CallInv, Fit, OnMember
<1>2. UNCHANGED <<account, link, seat, lapsed, crossed, lost>>
    BY DEF WriteActivation, Write
<1>3. CASE ~Status(m, "INVITED")
    <2>1. member' = member /\ call' = [call EXCEPT ![c] = Idle]
        BY <1>3 DEF WriteActivation, Write
    <2> QED
        BY <1>1, <1>2, <2>1, EndStep
<1>4. CASE Status(m, "INVITED")
    <2> DEFINE row == Activated(call[c])
    <2>1. /\ row \in MemberType /\ row.status = "ACTIVE" /\ row.via = l
          /\ row.audited = call[c].role /\ row.role = member[m].role
          /\ row.seat = member[m].seat /\ row.login = member[m].login
        BY <1>1 DEF Activated, MemberType, CallType
    <2>2. /\ member' = [member EXCEPT ![m] = row]
          /\ call' = [call EXCEPT ![c] = IF l # None THEN k ELSE Idle]
        BY <1>4 DEF WriteActivation, Write
    <2> HIDE DEF row
    <2>3. member'[m] = row /\ \A n \in Members \ {m} : member'[n] = member[n]
        BY <2>2, <1>1 DEF Inv, TypeOK
    <2>4. k \in CallType /\ k.op = "SPEND" /\ k.link = l /\ k.member = m
        BY <1>1 DEF CallType
    <2> HIDE DEF k
    <2>5. /\ call'[c] = IF l # None THEN k ELSE Idle
          /\ \A d \in Calls \ {c} : call'[d] = call[d]
        BY <2>2 DEF Inv, TypeOK
    <2>6. member[m].status = "INVITED" /\ member[m].via = None
        BY <1>1, <1>4 DEF Status, Inv, LinkInv
    <2>7. TypeOK'
        <3>1. member' \in [Members -> MemberType]
            BY <2>1, <2>2 DEF Inv, TypeOK
        <3>2. call' \in [Calls -> CallType]
            BY <2>2, <2>4, IdleType DEF Inv, TypeOK
        <3> QED
            BY <3>1, <3>2, <1>2 DEF Inv, TypeOK
    <2>8. CallInv'
        <3> SUFFICES ASSUME NEW d \in Calls PROVE Fit(call[d])'
            BY DEF CallInv
        <3>1. CASE d = c /\ l # None
            <4>1. l \in Links
                BY <1>1, <3>1 DEF CallType
            <4> QED
                BY <4>1, <3>1, <1>1, <1>2, <2>1, <2>3, <2>4, <2>5 DEF Fit, OnMember, OnLink
        <3>2. CASE d = c /\ l = None
            BY <3>2, <2>5, IdleType DEF Fit, OnMember, OnLink
        <3>3. CASE d # c
            <4>1. call'[d] = call[d] /\ Fit(call[d])
                BY <3>3, <2>5 DEF Inv, CallInv
            <4>2. CASE call[d].op \in OnMember /\ call[d].member = m
                BY <4>1, <4>2, <1>2, <2>1, <2>3, <2>6 DEF Fit, OnMember, OnLink
            <4>3. CASE ~(call[d].op \in OnMember /\ call[d].member = m)
                BY <4>1, <4>3, <1>2, <2>3 DEF Fit, OnMember, OnLink
            <4> QED
                BY <4>2, <4>3
        <3> QED
            BY <3>1, <3>2, <3>3
    <2>9. SeatInv'
        BY <1>2, <2>1, <2>3, <2>6 DEF Inv, SeatInv, SeatsAgree
    <2>10. ASSUME NEW x, Spending(x) PROVE Spending(x)'
        BY <2>5, <2>10, <1>1 DEF Spending
    <2>11. LinkInv'
        <3>1. \A x \in Links : link'[x].status # "UNISSUED" =>
                 link'[x].of \in Members /\ member'[link'[x].of].status # "ABSENT"
            BY <1>2, <2>1, <2>3 DEF Inv, LinkInv
        <3>2. \A x \in Links : link'[x].status = "ACCEPTED" =>
                 Status(link[x].of, "ACTIVE")' /\ member'[link'[x].of].via = x
            BY <1>2, <2>3, <2>6 DEF Inv, LinkInv, Status
        <3>3. ASSUME NEW n \in Members, member'[n].via # None
              PROVE  /\ member'[n].status = "ACTIVE"
                     /\ link'[member'[n].via].status # "UNISSUED" /\ link'[member'[n].via].of = n
                     /\ \/ link'[member'[n].via].status = "ACCEPTED"
                        \/ member'[n].via \in lost' \/ Spending(member[n].via)'
            <4>1. CASE n = m
                <5>1. member'[n].via = l /\ l # None /\ Spending(l)'
                    BY <4>1, <3>3, <2>1, <2>3, <2>4, <2>5 DEF Spending
                <5>2. Spending(member[n].via)'
                    BY <4>1, <5>1, <2>1, <2>3, <2>4, <2>5 DEF Spending
                <5> QED
                    BY <4>1, <5>1, <5>2, <1>1, <1>2, <2>1, <2>3 DEF Fit, OnLink
            <4>2. CASE n # m
                BY <4>2, <3>3, <1>2, <2>3, <2>10 DEF Inv, LinkInv
            <4> QED
                BY <4>1, <4>2
        <3> QED
            BY <3>1, <3>2, <3>3 DEF LinkInv
    <2>12. AuditedRoleStands'
        BY <1>1, <1>2, <2>1, <2>3, <2>6 DEF Inv, AuditedRoleStands, Fit
    <2> QED
        BY <2>7, <2>8, <2>9, <2>11, <2>12 DEF Inv
<1> QED
    BY <1>3, <1>4

(* A seat is given to a membership that has none, from those nobody has.    *)
LEMMA SeatStep ==
    ASSUME Inv, NEW c \in Calls, WriteSeat(c) PROVE Inv'
<1> DEFINE m == call[c].member
           s == call[c].seat
<1>1. call[c].op = "SEAT" /\ m \in Members /\ s \in Seats
    BY DEF WriteSeat, Inv, CallInv, Fit, OnMember
<1>2. UNCHANGED <<account, link, lapsed, crossed, lost>> /\ call' = [call EXCEPT ![c] = Idle]
    BY DEF WriteSeat, Write, End
<1>3. CASE ~SeatHolds(m, s)
    <2>1. member' = member /\ seat' = seat
        BY <1>3 DEF WriteSeat, Write
    <2> QED
        BY <1>1, <1>2, <2>1, EndStep
<1>4. CASE SeatHolds(m, s)
    <2> DEFINE row == [member[m] EXCEPT !.seat = s]
    <2>1. /\ member' = [member EXCEPT ![m] = row]
          /\ seat' = [seat EXCEPT ![s] = [status |-> "ASSIGNED", to |-> m]]
        BY <1>4 DEF WriteSeat, Write
    <2>2. /\ row \in MemberType /\ row.seat = s /\ row.status = "ACTIVE"
          /\ row.via = member[m].via /\ row.role = member[m].role
          /\ row.audited = member[m].audited /\ member[m].status = "ACTIVE"
        BY <1>1, <1>4 DEF SeatHolds, Status, Inv, TypeOK, MemberType
    <2> HIDE DEF row
    <2>3. member'[m] = row /\ \A n \in Members \ {m} : member'[n] = member[n]
        BY <2>1, <1>1 DEF Inv, TypeOK
    <2>4. /\ seat'[s].status = "ASSIGNED" /\ seat'[s].to = m
          /\ \A t \in Seats \ {s} : seat'[t] = seat[t]
        BY <2>1, <1>1 DEF Inv, TypeOK
    <2>5. TypeOK'
        <3>1. seat' \in [Seats -> SeatType]
            BY <2>1, <1>1 DEF Inv, TypeOK, SeatType
        <3>2. member' \in [Members -> MemberType]
            BY <2>1, <2>2 DEF Inv, TypeOK
        <3> QED
            BY <3>1, <3>2, <1>2, IdleType DEF Inv, TypeOK
    <2>6. call'[c] = Idle /\ \A d \in Calls \ {c} : call'[d] = call[d]
        BY <1>2 DEF Inv, TypeOK
    <2>7. s # None
        BY <1>1, NoneAssumption
    <2>8. CallInv'
        <3> SUFFICES ASSUME NEW d \in Calls PROVE Fit(call[d])'
            BY DEF CallInv
        <3>1. CASE d = c
            BY <3>1, <2>6, IdleType DEF Fit, OnMember, OnLink
        <3>2. CASE d # c
            <4>1. call'[d] = call[d] /\ Fit(call[d])
                BY <3>2, <2>6 DEF Inv, CallInv
            <4>2. CASE call[d].op \in OnMember /\ call[d].member = m
                BY <4>1, <4>2, <1>2, <2>2, <2>3, <2>7 DEF Fit, OnMember, OnLink
            <4>3. CASE ~(call[d].op \in OnMember /\ call[d].member = m)
                BY <4>1, <4>3, <1>2, <2>3 DEF Fit, OnMember, OnLink
            <4> QED
                BY <4>2, <4>3
        <3> QED
            BY <3>1, <3>2
    <2>9. SeatInv'
        <3>1. seat[s].to = None /\ \A t \in Seats : seat[t].to # m
            BY <1>1, <1>4 DEF SeatHolds, Inv, SeatInv
        <3>2. \A n \in Members : member[n].seat # s
            BY <3>1, <1>1, NoneAssumption DEF Inv, SeatInv, SeatsAgree
        <3>3. ASSUME NEW t \in Seats, NEW n \in Members
              PROVE  seat'[t].to = n <=> member'[n].seat = t
            BY <3>1, <3>2, <1>1, <2>2, <2>3, <2>4 DEF Inv, SeatInv, SeatsAgree
        <3>4. \A n \in Members : /\ member'[n].seat # None => member'[n].status = "ACTIVE"
                                 /\ member'[n].login = "PLATFORM" => member'[n].seat # None
            BY <2>2, <2>3, <2>7 DEF Inv, SeatInv, SeatsAgree
        <3>5. \A t \in Seats : seat'[t].status # "ASSIGNED" => seat'[t].to = None
            BY <2>4 DEF Inv, SeatInv
        <3> QED
            BY <3>3, <3>4, <3>5 DEF SeatInv, SeatsAgree
    <2>10. ASSUME NEW x, Spending(x) PROVE Spending(x)'
        BY <2>6, <2>10, <1>1 DEF Spending
    <2>11. \A n \in Members : /\ member'[n].via = member[n].via /\ member'[n].status = member[n].status
                              /\ member'[n].role = member[n].role
                              /\ member'[n].audited = member[n].audited
        BY <2>2, <2>3
    <2>12. LinkInv'
        BY <1>2, <2>10, <2>11 DEF Inv, LinkInv, Status
    <2>13. AuditedRoleStands'
        BY <1>2, <2>11 DEF Inv, AuditedRoleStands
    <2> QED
        BY <2>5, <2>8, <2>9, <2>12, <2>13 DEF Inv
<1> QED
    BY <1>3, <1>4

-----------------------------------------------------------------------------
(* The steps that write a link, and the deaths that leave one unmarked.     *)
LEMMA LinkStep ==
    ASSUME Inv, NEW c \in Calls, NEW l \in Links, WriteLink(c, l) PROVE Inv'
<1> DEFINE m == call[c].member
<1>1. call[c].op = "ISSUE" /\ m \in Members /\ member[m].status # "ABSENT"
    BY DEF WriteLink, Inv, CallInv, Fit, OnMember
<1>2. /\ link[l].status = "UNISSUED"
      /\ link' = [link EXCEPT ![l] = [status |-> "ISSUED", of |-> m]]
      /\ call' = [call EXCEPT ![c] = Idle]
      /\ UNCHANGED <<account, member, seat, lapsed, crossed, lost>>
    BY DEF WriteLink, End
<1>3. /\ link'[l].status = "ISSUED" /\ link'[l].of = m
      /\ \A x \in Links \ {l} : link'[x] = link[x]
    BY <1>2 DEF Inv, TypeOK
<1>4. call'[c] = Idle /\ \A d \in Calls \ {c} : call'[d] = call[d]
    BY <1>2 DEF Inv, TypeOK
<1>5. TypeOK'
    <2>1. link' \in [Links -> LinkType]
        BY <1>1, <1>2 DEF Inv, TypeOK, LinkType
    <2> QED
        BY <2>1, <1>2, IdleType DEF Inv, TypeOK
<1>6. CallInv'
    <2> SUFFICES ASSUME NEW d \in Calls PROVE Fit(call[d])'
        BY DEF CallInv
    <2>1. CASE d = c
        BY <2>1, <1>4, IdleType DEF Fit, OnMember, OnLink
    <2>2. CASE d # c
        <3>1. call'[d] = call[d] /\ Fit(call[d]) /\ call[d] \in CallType
            BY <2>2, <1>4 DEF Inv, TypeOK, CallInv
        <3>2. CASE call[d].link = l
            BY <3>1, <3>2, <1>2, NoneAssumption DEF Fit, OnMember, OnLink
        <3>3. CASE call[d].link # l
            BY <3>1, <3>3, <1>2, <1>3 DEF Fit, OnMember, OnLink, CallType
        <3> QED
            BY <3>2, <3>3
    <2> QED
        BY <2>1, <2>2
<1>7. ASSUME NEW x, Spending(x) PROVE Spending(x)'
    BY <1>1, <1>4, <1>7 DEF Spending
<1>8. LinkInv'
    <2>1. \A n \in Members : member[n].via # None => member[n].via \in Links /\ member[n].via # l
        BY <1>2 DEF Inv, TypeOK, MemberType, LinkInv
    <2>2. \A x \in Links : link'[x].status # "UNISSUED" =>
             link'[x].of \in Members /\ member[link'[x].of].status # "ABSENT"
        BY <1>1, <1>3 DEF Inv, LinkInv
    <2>3. \A x \in Links : link'[x].status = "ACCEPTED" =>
             Status(link'[x].of, "ACTIVE") /\ member[link'[x].of].via = x
        BY <1>3 DEF Inv, LinkInv
    <2> QED
        BY <2>1, <2>2, <2>3, <1>2, <1>3, <1>7 DEF Inv, LinkInv, Status
<1>9. SeatInv' /\ AuditedRoleStands'
    BY <1>2 DEF Inv, SeatInv, SeatsAgree, AuditedRoleStands
<1> QED
    BY <1>5, <1>6, <1>8, <1>9 DEF Inv

(* A step that ends a call and writes link l a verdict on itself.           *)
LEMMA VerdictStep ==
    ASSUME Inv, NEW c \in Calls, NEW l \in Links, NEW status \in {"ACCEPTED", "EXPIRED"},
           link[l].status # "UNISSUED",
           link' = [link EXCEPT ![l].status = status], call' = [call EXCEPT ![c] = Idle],
           lost \subseteq lost', lost' \in SUBSET Links,
           call[c].op = "SPEND" => call[c].link = l /\ status = "ACCEPTED",
           status = "ACCEPTED" =>
              Status(link[l].of, "ACTIVE") /\ member[link[l].of].via = l,
           status = "EXPIRED" /\ (Accepting(l) \/ link[l].status = "ACCEPTED") => l \in lost',
           UNCHANGED <<account, member, seat, lapsed, crossed>>
    PROVE  Inv'
<1>1. /\ link'[l].status = status /\ link'[l].of = link[l].of
      /\ \A x \in Links \ {l} : link'[x] = link[x]
    BY DEF Inv, TypeOK, LinkType
<1>2. call'[c] = Idle /\ \A d \in Calls \ {c} : call'[d] = call[d]
    BY DEF Inv, TypeOK
<1>3. TypeOK'
    <2>1. link' \in [Links -> LinkType]
        BY DEF Inv, TypeOK, LinkType
    <2> QED
        BY <2>1, IdleType DEF Inv, TypeOK
<1>4. CallInv'
    <2> SUFFICES ASSUME NEW d \in Calls PROVE Fit(call[d])'
        BY DEF CallInv
    <2>1. CASE d = c
        BY <2>1, <1>2, IdleType DEF Fit, OnMember, OnLink
    <2>2. CASE d # c
        <3>1. call'[d] = call[d] /\ Fit(call[d]) /\ call[d] \in CallType
            BY <2>2, <1>2 DEF Inv, TypeOK, CallInv
        <3>2. CASE call[d].link = l
            <4>1. call[d].op \in OnLink => Accepting(l)
                BY <3>2 DEF Accepting, OnLink
            <4> QED
                BY <3>1, <3>2, <4>1, <1>1 DEF Fit, OnMember, OnLink
        <3>3. CASE call[d].link # l
            BY <3>1, <3>3, <1>1 DEF Fit, OnMember, OnLink, CallType
        <3> QED
            BY <3>2, <3>3
    <2> QED
        BY <2>1, <2>2
<1>5. ASSUME NEW x, x # l, Spending(x) PROVE Spending(x)'
    BY <1>2, <1>5 DEF Spending
<1>6. LinkInv'
    <2>1. \A x \in Links : link'[x].status # "UNISSUED" =>
             link'[x].of \in Members /\ member[link'[x].of].status # "ABSENT"
        BY <1>1 DEF Inv, LinkInv
    <2>2. \A x \in Links : link'[x].status = "ACCEPTED" =>
             Status(link'[x].of, "ACTIVE") /\ member[link'[x].of].via = x
        BY <1>1 DEF Inv, LinkInv
    <2>3. ASSUME NEW n \in Members, member[n].via # None
          PROVE  /\ member[n].status = "ACTIVE"
                 /\ link'[member[n].via].status # "UNISSUED" /\ link'[member[n].via].of = n
                 /\ \/ link'[member[n].via].status = "ACCEPTED"
                    \/ member[n].via \in lost' \/ Spending(member[n].via)'
        <3>1. /\ member[n].via \in Links /\ member[n].status = "ACTIVE"
              /\ link[member[n].via].status # "UNISSUED" /\ link[member[n].via].of = n
              /\ \/ link[member[n].via].status = "ACCEPTED"
                 \/ member[n].via \in lost \/ Spending(member[n].via)
            BY <2>3 DEF Inv, TypeOK, MemberType, LinkInv
        <3>2. CASE member[n].via = l
            <4>1. Spending(l) => Accepting(l)
                BY DEF Spending, Accepting
            <4> QED
                BY <3>1, <3>2, <4>1, <1>1
        <3>3. CASE member[n].via # l
            BY <3>1, <3>3, <1>1, <1>5
        <3> QED
            BY <3>2, <3>3
    <2>4. \A x : Status(x, "ACTIVE") => Status(x, "ACTIVE")'
        BY DEF Status
    <2>5. \A x \in Links : link'[x].status = "ACCEPTED" =>
             Status(link[x].of, "ACTIVE")' /\ member'[link'[x].of].via = x
        BY <2>2 DEF Status
    <2>6. member' = member
        OBVIOUS
    <2> QED
        BY <2>1, <2>3, <2>5, <2>6 DEF LinkInv
<1>7. SeatInv' /\ AuditedRoleStands'
    BY DEF Inv, SeatInv, SeatsAgree, AuditedRoleStands
<1> QED
    BY <1>3, <1>4, <1>6, <1>7 DEF Inv

LEMMA ExpiryStep ==
    ASSUME Inv, NEW c \in Calls, WriteExpiry(c) PROVE Inv'
<1> DEFINE l == call[c].link
<1>1. call[c].op = "EXPIRE" /\ l \in Links /\ link[l].status # "UNISSUED"
    BY DEF WriteExpiry, Inv, CallInv, Fit
<1>2. /\ lost \subseteq lost' /\ lost' \in SUBSET Links
      /\ Accepting(l) \/ link[l].status = "ACCEPTED" => l \in lost'
    BY <1>1 DEF WriteExpiry, Inv, TypeOK
<1>3. /\ link' = [link EXCEPT ![l].status = "EXPIRED"] /\ call' = [call EXCEPT ![c] = Idle]
      /\ UNCHANGED <<account, member, seat, lapsed, crossed>>
    BY DEF WriteExpiry, End
<1> QED
    BY <1>1, <1>2, <1>3, VerdictStep

(* A call ends in its last statement: the link is marked, or lost.          *)
LEMMA ReleaseStep ==
    ASSUME Inv, NEW c \in Calls, call[c].op = "SPEND", call' = [call EXCEPT ![c] = Idle],
           lost \subseteq lost', lost' \in SUBSET Links,
           link[call[c].link].status = "ACCEPTED" \/ call[c].link \in lost',
           UNCHANGED <<account, member, link, seat, lapsed, crossed>>
    PROVE  Inv'
<1>1. call'[c] = Idle /\ \A d \in Calls \ {c} : call'[d] = call[d]
    BY DEF Inv, TypeOK
<1>2. TypeOK'
    BY IdleType DEF Inv, TypeOK
<1>3. CallInv'
    <2> SUFFICES ASSUME NEW d \in Calls PROVE Fit(call[d])'
        BY DEF CallInv
    <2>1. CASE d = c
        BY <2>1, <1>1, IdleType DEF Fit, OnMember, OnLink
    <2>2. CASE d # c
        BY <2>2, <1>1 DEF Inv, CallInv, Fit
    <2> QED
        BY <2>1, <2>2
<1>4. ASSUME NEW x, Spending(x), x # call[c].link PROVE Spending(x)'
    BY <1>1, <1>4 DEF Spending
<1>5. LinkInv'
    BY <1>4 DEF Inv, LinkInv, Status
<1>6. SeatInv' /\ AuditedRoleStands'
    BY DEF Inv, SeatInv, SeatsAgree, AuditedRoleStands
<1> QED
    BY <1>2, <1>3, <1>5, <1>6 DEF Inv

LEMMA SpendStep ==
    ASSUME Inv, NEW c \in Calls, SpendLink(c) PROVE Inv'
<1> DEFINE l == call[c].link
<1>1. call[c].op = "SPEND" /\ l \in Links /\ l # None /\ Fit(call[c])
    BY NoneAssumption DEF SpendLink, Inv, CallInv, Fit
<1>2. /\ call[c].member \in Members /\ link[l].of = call[c].member
      /\ link[l].status # "UNISSUED"
      /\ Status(link[l].of, "ACTIVE") /\ member[link[l].of].via = l
    BY <1>1 DEF Fit, OnMember, OnLink, Status
<1>3. call' = [call EXCEPT ![c] = Idle] /\ UNCHANGED <<account, member, seat, lapsed, crossed, lost>>
    BY DEF SpendLink, End
<1>4. CASE link[l].status = "ISSUED"
    <2>1. link' = [link EXCEPT ![l].status = "ACCEPTED"]
        BY <1>4 DEF SpendLink
    <2> QED
        BY <1>1, <1>2, <1>3, <2>1, VerdictStep DEF Inv, TypeOK
<1>5. CASE link[l].status # "ISSUED"
    <2>1. link' = link
        BY <1>5 DEF SpendLink
    <2>2. link[l].status = "ACCEPTED" \/ l \in lost
        BY <1>1, <1>5 DEF Fit, OnLink
    <2> QED
        BY <1>1, <1>3, <2>1, <2>2, ReleaseStep DEF Inv, TypeOK
<1> QED
    BY <1>4, <1>5

LEMMA DeathStep ==
    ASSUME Inv, NEW c \in Calls, Die(c) PROVE Inv'
<1>1. call' = [call EXCEPT ![c] = Idle] /\ UNCHANGED <<account, member, link, seat, lapsed, crossed>>
    BY DEF Die, End
<1>2. CASE call[c].op = "SPEND"
    <2>1. call[c].link \in Links /\ lost' = lost \cup {call[c].link}
        BY <1>2 DEF Die, Inv, CallInv, Fit
    <2> QED
        BY <1>1, <1>2, <2>1, ReleaseStep DEF Inv, TypeOK
<1>3. CASE call[c].op # "SPEND"
    BY <1>1, <1>3, EndStep DEF Die
<1> QED
    BY <1>2, <1>3

LEMMA LapseStep ==
    ASSUME Inv, NEW l \in Links, Lapse(l) PROVE Inv'
<1>1. TypeOK'
    BY DEF Inv, TypeOK, Lapse
<1>2. CallInv' /\ SeatInv'
    BY DEF Inv, CallInv, Fit, SeatInv, SeatsAgree, Lapse
<1>3. LinkInv' /\ AuditedRoleStands'
    BY DEF Inv, LinkInv, Spending, Status, AuditedRoleStands, Lapse
<1> QED
    BY <1>1, <1>2, <1>3 DEF Inv

LEMMA FoundationStep ==
    ASSUME Inv, NEW types \in SUBSET Seats, ActivateFoundation(types) PROVE Inv'
<1>1. \A s \in Seats : /\ seat'[s] \in SeatType /\ seat'[s].to = seat[s].to
                       /\ seat[s].status = "ASSIGNED" => seat'[s].status = "ASSIGNED"
    BY DEF ActivateFoundation, Inv, TypeOK, SeatType
<1>2. TypeOK'
    BY <1>1 DEF ActivateFoundation, Inv, TypeOK
<1>3. CallInv'
    BY DEF ActivateFoundation, Inv, CallInv, Fit
<1>4. SeatInv'
    BY <1>1 DEF ActivateFoundation, Inv, SeatInv, SeatsAgree
<1>5. LinkInv' /\ AuditedRoleStands'
    BY DEF ActivateFoundation, Inv, LinkInv, Spending, Status, AuditedRoleStands
<1> QED
    BY <1>2, <1>3, <1>4, <1>5 DEF Inv

-----------------------------------------------------------------------------
(* The first statements of the commands: what each takes with it fits.      *)
LEMMA BeginStep ==
    ASSUME Inv, NEW c \in Calls, NEW k \in CallType, Begin(c, k), Fit(k) PROVE Inv'
BY CallStep, IdleType DEF Begin

LEMMA ReadStep ==
    ASSUME Inv, NEW c \in Calls, NEW m \in Members,
           \/ \E role \in Roles : Invite(c, role) \/ Edit(c, m, role)
           \/ \E o \in {"SENT", "FAILED"} : Deliver(c, m, o)
           \/ Cancel(c, m) \/ IssueLink(c, m) \/ RequestActivation(c, m)
    PROVE  Inv'
<1>1. member[m] \in MemberType
    BY DEF Inv, TypeOK
<1>2. ASSUME NEW role \in Roles, Invite(c, role) PROVE Inv'
    <2> DEFINE k == [Idle EXCEPT !.op = "INVITE", !.role = role]
    <2>1. k \in CallType /\ Fit(k)
        BY DEF Idle, CallType, Logins, Fit, OnMember, OnLink
    <2> QED
        BY <1>2, <2>1, BeginStep DEF Invite
<1>3. ASSUME NEW role \in Roles, Edit(c, m, role) PROVE Inv'
    <2> DEFINE k == [Idle EXCEPT !.op = "EDIT", !.member = m, !.role = role]
    <2>1. k \in CallType /\ Fit(k)
        BY <1>3 DEF Edit, Status, Idle, CallType, Logins, Fit, OnMember, OnLink
    <2> QED
        BY <1>3, <2>1, BeginStep DEF Edit
<1>4. ASSUME NEW o \in {"SENT", "FAILED"}, Deliver(c, m, o) PROVE Inv'
    <2> DEFINE k == [Idle EXCEPT !.op = "DELIVER", !.member = m, !.out = o]
    <2>1. k \in CallType /\ Fit(k)
        BY <1>4 DEF Deliver, Status, Idle, CallType, Logins, Fit, OnMember, OnLink
    <2> QED
        BY <1>4, <2>1, BeginStep DEF Deliver
<1>5. ASSUME Cancel(c, m) PROVE Inv'
    <2> DEFINE k == [Idle EXCEPT !.op = "CANCEL", !.member = m]
    <2>1. k \in CallType /\ Fit(k)
        BY <1>5 DEF Cancel, Status, Idle, CallType, Logins, Fit, OnMember, OnLink
    <2> QED
        BY <1>5, <2>1, BeginStep DEF Cancel
<1>6. ASSUME IssueLink(c, m) PROVE Inv'
    <2> DEFINE k == [Idle EXCEPT !.op = "ISSUE", !.member = m]
    <2>1. k \in CallType /\ Fit(k)
        BY <1>6 DEF IssueLink, Status, Idle, CallType, Logins, Fit, OnMember, OnLink
    <2> QED
        BY <1>6, <2>1, BeginStep DEF IssueLink
<1>7. ASSUME RequestActivation(c, m) PROVE Inv'
    <2> DEFINE k == [Idle EXCEPT !.op = "ACTIVATE", !.member = m, !.role = member[m].role]
    <2>1. k \in CallType /\ Fit(k)
        BY <1>1, <1>7 DEF RequestActivation, Status, Idle, CallType, MemberType, Logins, Fit,
                          OnMember, OnLink
    <2> QED
        BY <1>7, <2>1, BeginStep DEF RequestActivation
<1> QED
    BY <1>2, <1>3, <1>4, <1>5, <1>6, <1>7

LEMMA ProvisionStep ==
    ASSUME Inv, NEW c \in Calls, NEW m \in Members, NEW s \in Seats, Provision(c, m, s) PROVE Inv'
<1> DEFINE k == [Idle EXCEPT !.op = "SEAT", !.member = m, !.seat = s]
<1>1. k \in CallType /\ Fit(k)
    BY DEF Provision, Status, Idle, CallType, Logins, Fit, OnMember, OnLink
<1> QED
    BY <1>1, BeginStep DEF Provision

LEMMA CompleteLoginStep ==
    ASSUME Inv, NEW c \in Calls, NEW m \in Members, NEW i \in Logins, CompleteLogin(c, m, i) PROVE Inv'
<1> DEFINE k == [Idle EXCEPT !.op = "LOGIN", !.member = m, !.out = i]
<1>1. k \in CallType /\ Fit(k)
    BY DEF CompleteLogin, Status, Idle, CallType, Fit, OnMember, OnLink
<1> QED
    BY <1>1, BeginStep DEF CompleteLogin

LEMMA FindLapsedStep ==
    ASSUME Inv, NEW c \in Calls, NEW l \in Links, FindLapsed(c, l) PROVE Inv'
<1> DEFINE k == [Idle EXCEPT !.op = "EXPIRE", !.link = l]
<1>1. k \in CallType /\ Fit(k)
    BY DEF FindLapsed, Idle, CallType, Logins, Fit, OnMember, OnLink
<1> QED
    BY <1>1, BeginStep DEF FindLapsed

LEMMA AcceptStep ==
    ASSUME Inv, NEW c \in Calls, NEW l \in Links, Accept(c, l) PROVE Inv'
<1> DEFINE k == [Idle EXCEPT !.op = "ACCEPT", !.member = link[l].of, !.link = l]
<1>1. link[l].status = "ISSUED" /\ link[l].of \in Members /\ member[link[l].of].status # "ABSENT"
    BY DEF Accept, Inv, LinkInv
<1>2. k \in CallType /\ Fit(k)
    BY <1>1 DEF Idle, CallType, Logins, Fit, OnMember, OnLink
<1> QED
    BY <1>2, BeginStep DEF Accept

LEMMA CheckAcceptedStep ==
    ASSUME Inv, NEW c \in Calls, CheckAccepted(c) PROVE Inv'
<1> DEFINE m == call[c].member
           k == [call[c] EXCEPT !.op = "ACTIVATE", !.role = member[m].role]
<1>1. /\ call[c].op = "ACCEPT" /\ m \in Members /\ Fit(call[c])
      /\ call[c] \in CallType /\ member[m] \in MemberType
    BY DEF CheckAccepted, Inv, TypeOK, CallInv, Fit, OnMember
<1>2. k \in CallType /\ Fit(k)
    <2>1. /\ k \in CallType /\ k.op = "ACTIVATE" /\ k.role = member[m].role
          /\ k.member = m /\ k.link = call[c].link
        BY <1>1 DEF CallType, MemberType
    <2> HIDE DEF k
    <2> QED
        BY <1>1, <2>1 DEF Fit, OnMember, OnLink
<1>3. CASE call' = [call EXCEPT ![c] = k]
    BY <1>1, <1>2, <1>3, CallStep DEF CheckAccepted
<1>4. CASE call' = [call EXCEPT ![c] = Idle]
    BY <1>1, <1>4, EndStep DEF CheckAccepted
<1>5. call' = [call EXCEPT ![c] = k] \/ call' = [call EXCEPT ![c] = Idle]
    BY DEF CheckAccepted
<1> QED
    BY <1>3, <1>4, <1>5

-----------------------------------------------------------------------------
LEMMA Induction == Inv /\ [Next]_vars => Inv'
<1> SUFFICES ASSUME Inv, [Next]_vars PROVE Inv'
    OBVIOUS
<1>1. ASSUME NEW c \in Calls, NEW m \in Members,
             \/ WriteInvitation(c, m)
             \/ \E o \in {"SENT", "FAILED"} : Deliver(c, m, o)
             \/ Cancel(c, m) \/ IssueLink(c, m) \/ RequestActivation(c, m)
             \/ \E s \in Seats : Provision(c, m, s)
             \/ \E i \in Logins : CompleteLogin(c, m, i)
             \/ \E role \in Roles : Edit(c, m, role)
      PROVE  Inv'
    BY <1>1, InvitationStep, ReadStep, ProvisionStep, CompleteLoginStep
<1>2. ASSUME NEW c \in Calls, NEW l \in Links, WriteLink(c, l) \/ FindLapsed(c, l) \/ Accept(c, l)
      PROVE  Inv'
    BY <1>2, LinkStep, FindLapsedStep, AcceptStep
<1>3. ASSUME NEW c \in Calls,
             \/ WriteDelivery(c) \/ WriteEdit(c) \/ WriteCancel(c) \/ WriteExpiry(c)
             \/ CheckAccepted(c) \/ WriteActivation(c) \/ SpendLink(c)
             \/ WriteSeat(c) \/ WriteLogin(c) \/ Die(c)
      PROVE  Inv'
    BY <1>3, DeliveryStep, EditStep, CancelStep, ExpiryStep, CheckAcceptedStep, ActivationStep,
       SpendStep, SeatStep, LoginStep, DeathStep
<1>4. ASSUME NEW c \in Calls, NEW role \in Roles, Invite(c, role) PROVE Inv'
    <2> DEFINE k == [Idle EXCEPT !.op = "INVITE", !.role = role]
    <2>1. k \in CallType /\ Fit(k)
        BY DEF Idle, CallType, Logins, Fit, OnMember, OnLink
    <2> QED
        BY <1>4, <2>1, BeginStep DEF Invite
<1>5. ASSUME NEW l \in Links, Lapse(l) PROVE Inv'
    BY <1>5, LapseStep
<1>6. ASSUME NEW types \in SUBSET Seats, ActivateFoundation(types) PROVE Inv'
    BY <1>6, FoundationStep
<1>7. CASE UNCHANGED vars
    <2>1. TypeOK'
        BY <1>7 DEF Inv, TypeOK, vars
    <2>2. CallInv' /\ SeatInv'
        BY <1>7 DEF Inv, CallInv, Fit, SeatInv, SeatsAgree, vars
    <2>3. LinkInv' /\ AuditedRoleStands'
        BY <1>7 DEF Inv, LinkInv, Spending, Status, AuditedRoleStands, vars
    <2> QED
        BY <2>1, <2>2, <2>3 DEF Inv
<1> QED
    BY <1>1, <1>2, <1>3, <1>4, <1>5, <1>6, <1>7 DEF Next

THEOREM Invariance == Spec => []Inv
<1>1. Init => Inv
    BY InitInv
<1>2. Inv /\ [Next]_vars => Inv'
    BY Induction
<1> QED
    BY <1>1, <1>2, PTL DEF Spec

(* Rows, links, seats and calls keep their types.                           *)
THEOREM TypeCorrect == Spec => []TypeOK
BY Invariance, PTL DEF Inv

(* Seats and memberships name each other, and a platform login has a seat.  *)
THEOREM SeatsAreConsistent == Spec => []SeatsAgree
BY Invariance, PTL DEF Inv, SeatInv

(* A link that let someone in is marked, unless its mark was overtaken.     *)
THEOREM LinksAreSpent == Spec => []LinkIsSpent
<1>1. Inv => LinkIsSpent
    BY NoneAssumption DEF Inv, LinkInv, Spending, LinkIsSpent
<1> QED
    BY <1>1, Invariance, PTL

(* The role of an active membership is the audited one, unless an edit      *)
(* crossed the activation.                                                  *)
THEOREM AuditedRolesStand == Spec => []AuditedRoleStands
BY Invariance, PTL DEF Inv

(* What a write to another row, or of a cancelled row, leaves of it.        *)
LEMMA WriteOut ==
    ASSUME Inv, NEW c, NEW n, NEW where, NEW row, NEW m \in Members, Write(c, n, where, row),
           member[m].status = "DISABLED",
           n = m /\ where => row.status = "DISABLED" /\ row.seat = member[m].seat
    PROVE  member'[m].status = "DISABLED" /\ member'[m].seat = None
<1>1. member[m].seat = None
    BY DEF Inv, SeatInv, SeatsAgree
<1>2. CASE where /\ n = m
    BY <1>1, <1>2 DEF Write, Inv, TypeOK
<1>3. CASE ~(where /\ n = m)
    BY <1>1, <1>3 DEF Write, Inv, TypeOK
<1> QED
    BY <1>2, <1>3

(* A cancelled membership stays cancelled and without a seat.               *)
THEOREM CancelledIsOut == Spec => CancelledStaysOut
<1> DEFINE Out == \A m \in Members : member[m].status = "DISABLED" =>
                     member'[m].status = "DISABLED" /\ member'[m].seat = None
<1>1. ASSUME Inv, [Next]_vars PROVE Out
    <2> SUFFICES ASSUME NEW m \in Members, member[m].status = "DISABLED"
                 PROVE  member'[m].status = "DISABLED" /\ member'[m].seat = None
        OBVIOUS
    <2>1. member[m] \in MemberType /\ member[m].seat = None
        BY <1>1 DEF Inv, TypeOK, SeatInv, SeatsAgree
    <2>2. CASE member' = member
        BY <2>1, <2>2
    <2>3. ASSUME NEW c \in Calls, NEW n \in Members, WriteInvitation(c, n)
          PROVE  member'[m].status = "DISABLED" /\ member'[m].seat = None
        <3>1. n # m
            BY <2>3 DEF WriteInvitation, Status
        <3> QED
            BY <3>1, <2>3, <1>1, WriteOut DEF WriteInvitation
    <2>4. ASSUME NEW c \in Calls, WriteDelivery(c) \/ WriteLogin(c) \/ WriteEdit(c)
          PROVE  member'[m].status = "DISABLED" /\ member'[m].seat = None
        <3>1. call[c].member = m =>
                 /\ [member[m] EXCEPT !.delivery = call[c].out].status = "DISABLED"
                 /\ [member[m] EXCEPT !.delivery = call[c].out].seat = member[m].seat
                 /\ [member[m] EXCEPT !.login = call[c].out].status = "DISABLED"
                 /\ [member[m] EXCEPT !.login = call[c].out].seat = member[m].seat
                 /\ ~EditHolds(m, call[c].role)
            BY <2>1 DEF MemberType, EditHolds, Status
        <3>2. CASE WriteDelivery(c)
            <4>1. Write(c, call[c].member, TRUE,
                        [member[call[c].member] EXCEPT !.delivery = call[c].out])
                BY <3>2 DEF WriteDelivery
            <4> QED
                BY <4>1, <3>1, <2>1, <1>1 DEF Write, Inv, TypeOK
        <3>3. CASE WriteLogin(c)
            <4>1. Write(c, call[c].member, TRUE,
                        [member[call[c].member] EXCEPT !.login = call[c].out])
                BY <3>3 DEF WriteLogin
            <4> QED
                BY <4>1, <3>1, <2>1, <1>1 DEF Write, Inv, TypeOK
        <3>4. CASE WriteEdit(c)
            BY <3>1, <3>4, <1>1, WriteOut DEF WriteEdit
        <3> QED
            BY <2>4, <3>2, <3>3, <3>4
    <2>5. ASSUME NEW c \in Calls, WriteCancel(c) \/ WriteActivation(c) \/ WriteSeat(c)
          PROVE  member'[m].status = "DISABLED" /\ member'[m].seat = None
        <3>1. call[c].member = m => ~Status(m, "INVITED") /\ ~SeatHolds(m, call[c].seat)
            BY DEF Status, SeatHolds
        <3>2. CASE WriteCancel(c)
            BY <3>1, <3>2, <1>1, WriteOut DEF WriteCancel
        <3>3. CASE WriteActivation(c)
            BY <3>1, <3>3, <1>1, WriteOut DEF WriteActivation
        <3>4. CASE WriteSeat(c)
            BY <3>1, <3>4, <1>1, WriteOut DEF WriteSeat
        <3> QED
            BY <2>5, <3>2, <3>3, <3>4
    <2>6. ASSUME NEW c \in Calls, NEW n \in Members,
                 \/ \E o \in {"SENT", "FAILED"} : Deliver(c, n, o)
                 \/ Cancel(c, n) \/ IssueLink(c, n) \/ RequestActivation(c, n)
                 \/ \E s \in Seats : Provision(c, n, s)
                 \/ \E i \in Logins : CompleteLogin(c, n, i)
                 \/ \E role \in Roles : Edit(c, n, role)
          PROVE  member' = member
        BY <2>6 DEF Deliver, Cancel, IssueLink, RequestActivation, Provision, CompleteLogin, Edit, Begin
    <2>7. ASSUME NEW c \in Calls,
                 \/ \E role \in Roles : Invite(c, role)
                 \/ \E l \in Links : WriteLink(c, l) \/ FindLapsed(c, l) \/ Accept(c, l)
                 \/ WriteExpiry(c) \/ CheckAccepted(c) \/ SpendLink(c) \/ Die(c)
          PROVE  member' = member
        BY <2>7 DEF Invite, WriteLink, FindLapsed, Accept, WriteExpiry, CheckAccepted, SpendLink,
                    Die, Begin
    <2>8. ASSUME \/ \E l \in Links : Lapse(l)
                 \/ \E types \in SUBSET Seats : ActivateFoundation(types)
                 \/ UNCHANGED vars
          PROVE  member' = member
        BY <2>8 DEF Lapse, ActivateFoundation, vars
    <2> QED
        BY <1>1, <2>2, <2>3, <2>4, <2>5, <2>6, <2>7, <2>8 DEF Next
<1>2. ASSUME Inv, [Next]_vars PROVE [Out]_vars
    BY <1>1, <1>2
<1> QED
    BY <1>2, Invariance, PTL DEF Spec, CancelledStaysOut
=============================================================================
