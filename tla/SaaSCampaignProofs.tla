------------------------- MODULE SaaSCampaignProofs -------------------------
(***************************************************************************)
(* What holds of every campaign, any number of commands, actors, versions  *)
(* and policy writes: the types, that an active campaign was approved by   *)
(* someone else than its submitter, and, until a command overwrites a      *)
(* change it has not read, how is_active, lifecycle and review agree.      *)
(***************************************************************************)
EXTENDS SaaSCampaign, TLAPS

CallType == [op: {"NONE", "POLICY"} \cup RowOps, next: Rows, stale: BOOLEAN, stamp: Nat]

(* Rows, stored or about to be stored, never hold an approval by the        *)
(* submitter, and hold the traces of a launch or an approval only after one *)
(* was stored; a decision about to be stored is the first to hold its own.  *)
Fair(row) == row.review.status = "APPROVED" => row.review.submitter # row.review.decider
Traces(row) == row.active \/ row.activated \/ row.lifecycle # "NONE"
Backed(k) == /\ Fair(k.next)
             /\ Traces(k.next) => approved
             /\ k.op # "DECIDE" /\ k.next.review.status = "APPROVED" => approved
             /\ k.op \in {"ACTIVATE"} \cup Commands => approved
ApprovalInv == /\ Fair(campaign)
               /\ Traces(campaign) => approved
               /\ campaign.review.status = "APPROVED" => approved
               /\ \A c \in Calls : Backed(call[c])

(* What a command about to write knows of the row as long as the row is the *)
(* one it has read.                                                         *)
Keeps(k) == k.next.lifecycle = campaign.lifecycle /\ k.next.activated = campaign.activated
Derived(k) ==
    /\ k.op \in {"BIND", "OVERRIDE"} =>
          ~campaign.active /\ Keeps(k) /\ k.next.review = campaign.review
    /\ k.op = "SUBMIT" => ~campaign.active /\ Keeps(k) /\ campaign.review.status # "APPROVED"
    /\ k.op = "DECIDE" => ~campaign.active /\ Keeps(k) /\ campaign.review.status = "READY"
    /\ k.op = "ACTIVATE" =>
          /\ ~campaign.active
          /\ campaign.review.status = "APPROVED" /\ k.next.review = campaign.review
          /\ k.next.lifecycle = "ACTIVE" /\ k.next.activated
    /\ k.op \in Commands =>
          /\ k.op \in Allowed(Effective(campaign))
          /\ k.next.lifecycle = Outcome(k.op) /\ k.next.activated = campaign.activated
          /\ k.next.review = campaign.review
Standing(row) == /\ row.active <=> row.lifecycle = "ACTIVE"
                 /\ row.activated => row.lifecycle # "NONE"
                 /\ row.lifecycle # "NONE" => row.review.status = "APPROVED"
RaceInv == /\ ~raced => Standing(campaign)
           /\ \A c \in Calls : call[c].op \in RowOps /\ ~call[c].stale => Derived(call[c])

-----------------------------------------------------------------------------
(* The rows that commands prepare are rows.                                 *)
LEMMA TypeCalls == TypeOK => call \in [Calls -> CallType] /\ \A c \in Calls : call[c].next \in Rows
BY DEF TypeOK, CallType

LEMMA PrepareType ==
    ASSUME TypeOK, NEW c \in Calls, NEW op \in RowOps, NEW next \in Rows,
           Prepare(c, op, next), now' \in 0 .. MaxTime
    PROVE  TypeOK'
<1>1. [op |-> op, next |-> next, stale |-> FALSE, stamp |-> 0] \in CallType
    BY DEF CallType
<1>2. call' \in [Calls -> CallType]
    BY <1>1, TypeCalls DEF Prepare
<1>3. approved' \in BOOLEAN /\ raced' \in BOOLEAN
    BY Zenon DEF TypeOK, Prepare
<1>4. campaign' \in Rows /\ policy' \in Nat
      /\ version' \in [Versions -> {"NONE", "PUBLISHED", "RETIRED"}]
    BY DEF TypeOK, Prepare
<1> QED
    BY <1>2, <1>3, <1>4 DEF TypeOK, CallType

LEMMA StoreType ==
    ASSUME TypeOK, NEW c \in Calls, NEW op \in RowOps, NEW active \in BOOLEAN,
           Store(c, op, active), approved' \in BOOLEAN
    PROVE  TypeOK'
<1>1. campaign' \in Rows
    BY TypeCalls DEF Store, Rows
<1>2. Idle \in CallType
    BY DEF CallType, Idle, Draft, NoReview, Rows, Reviews, Lifecycles
<1>3. ASSUME NEW d \in Calls PROVE call'[d] \in CallType
    BY <1>2, <1>3, TypeCalls DEF Store, CallType
<1>4. call' \in [Calls -> CallType]
    BY <1>3 DEF Store
<1>5. raced' \in BOOLEAN
    BY DEF Store
<1>6. policy' \in Nat /\ version' \in [Versions -> {"NONE", "PUBLISHED", "RETIRED"}]
      /\ now' \in 0 .. MaxTime
    BY DEF TypeOK, Store
<1> QED
    BY <1>1, <1>4, <1>5, <1>6 DEF TypeOK, CallType

LEMMA TypeInit == Init => TypeOK
<1> SUFFICES ASSUME Init PROVE TypeOK
    OBVIOUS
<1>1. Draft \in Rows
    BY DEF Draft, NoReview, Rows, Reviews, Lifecycles
<1>2. Idle \in CallType
    BY <1>1 DEF Idle, CallType
<1>3. campaign \in Rows
    BY <1>1 DEF Init, Rows
<1>4. call \in [Calls -> CallType]
    BY <1>2 DEF Init
<1>5. version \in [Versions -> {"NONE", "PUBLISHED", "RETIRED"}]
    BY DEF Init
<1>6. policy \in Nat /\ now \in 0 .. MaxTime
    BY TimeAssumption DEF Init
<1>7. approved \in BOOLEAN /\ raced \in BOOLEAN
    BY Zenon DEF Init
<1> QED
    BY <1>3, <1>4, <1>5, <1>6, <1>7 DEF TypeOK, CallType

(* A command that has prepared what it will write disturbs nothing.         *)
Prepared(op, next) == [op |-> op, next |-> next, stale |-> FALSE, stamp |-> 0]

LEMMA PrepareSound ==
    ASSUME TypeOK, ApprovalInv, RaceInv, NEW c \in Calls, NEW op \in RowOps, NEW next \in Rows,
           Prepare(c, op, next), Backed(Prepared(op, next)), Derived(Prepared(op, next))
    PROVE  ApprovalInv' /\ RaceInv'
<1>1. call'[c] = Prepared(op, next) /\ \A d \in Calls \ {c} : call'[d] = call[d]
    BY TypeCalls DEF Prepare, Prepared
<1>2. campaign' = campaign /\ approved' = approved /\ raced' = raced
    BY DEF Prepare
<1>3. Backed(call[c])' /\ Derived(call[c])'
    BY <1>1, <1>2 DEF Backed, Fair, Traces, Derived, Keeps, Allowed, Effective
<1>4. \A d \in Calls \ {c} : Backed(call[d])'
    BY <1>1, <1>2 DEF ApprovalInv, Backed, Fair, Traces
<1>5. ASSUME NEW d \in Calls \ {c}, call'[d].op \in RowOps, ~call'[d].stale
      PROVE  Derived(call[d])'
    <2>1. Derived(call[d])
        BY <1>1, <1>5 DEF RaceInv
    <2> QED
        BY <2>1, <1>1, <1>2 DEF Derived, Keeps, Allowed, Effective
<1>6. ApprovalInv'
    BY <1>2, <1>3, <1>4 DEF ApprovalInv, Fair, Traces
<1>7. ~raced' => Standing(campaign)'
    BY <1>2 DEF RaceInv, Standing
<1> QED
    BY <1>3, <1>5, <1>6, <1>7 DEF RaceInv

(* A command that writes leaves every other command that saw the same row   *)
(* where it was, and makes the others stale when it has changed the row.    *)
LEMMA StoreOthers ==
    ASSUME TypeOK, ApprovalInv, RaceInv, NEW c \in Calls, NEW op \in RowOps, NEW active \in BOOLEAN,
           Store(c, op, active), approved => approved'
    PROVE  /\ \A d \in Calls : Backed(call[d])'
           /\ \A d \in Calls : (call[d].op)' \in RowOps /\ ~(call[d].stale)' => Derived(call[d])'
<1>1. call'[c] = Idle
    BY TypeCalls DEF Store
<1>2. Backed(call[c])'
    BY <1>1 DEF Idle, Draft, NoReview, Backed, Fair, Traces, Commands
<1>3. (call[c].op)' \notin RowOps
    BY <1>1 DEF Idle, RowOps, Commands
<1>4. ASSUME NEW d \in Calls \ {c}
      PROVE  /\ call'[d].op = call[d].op /\ call'[d].next = call[d].next
             /\ call[d].op \in RowOps /\ ~call'[d].stale
                   => campaign' = campaign /\ ~call[d].stale
    BY TypeCalls, <1>4 DEF Store, CallType
<1>5. ASSUME NEW d \in Calls \ {c} PROVE Backed(call[d])'
    BY <1>4 DEF ApprovalInv, Backed, Fair, Traces
<1>6. ASSUME NEW d \in Calls \ {c}, call'[d].op \in RowOps, ~call'[d].stale
      PROVE  Derived(call[d])'
    <2>1. Derived(call[d])
        BY <1>4, <1>6 DEF RaceInv
    <2> QED
        BY <2>1, <1>4, <1>6 DEF Derived, Keeps, Allowed, Effective
<1> QED
    BY <1>2, <1>3, <1>5, <1>6

LEMMA Outcomes ==
    \A k \in Commands : Outcome(k) \in {"ACTIVE", "PAUSED", "ENDED", "ARCHIVED"}
<1> SUFFICES ASSUME NEW k \in Commands
             PROVE  Outcome(k) \in {"ACTIVE", "PAUSED", "ENDED", "ARCHIVED"}
    OBVIOUS
<1>1. CASE k = "PAUSE"
    BY <1>1 DEF Outcome
<1>2. CASE k = "RESUME"
    BY <1>2 DEF Outcome
<1>3. CASE k = "END"
    BY <1>3 DEF Outcome
<1>4. CASE k = "ARCHIVE"
    BY <1>4 DEF Outcome
<1> QED
    BY <1>1, <1>2, <1>3, <1>4 DEF Commands

(* A command that the lifecycle allows finds the campaign launched.         *)
LEMMA AllowedTraces ==
    ASSUME NEW row \in Rows, NEW k \in Commands, k \in Allowed(Effective(row))
    PROVE  /\ Traces(row)
           /\ row.lifecycle = "NONE" => row.active \/ row.activated
<1>1. row.lifecycle \in Lifecycles
    BY DEF Rows
<1>2. CASE row.lifecycle = "PAUSED"
    BY <1>2 DEF Traces
<1>3. CASE row.lifecycle = "ENDED"
    <2>1. Effective(row) = "ENDED"
        BY <1>3 DEF Effective
    <2>2. Allowed(Effective(row)) = {"ARCHIVE"}
        BY <2>1 DEF Allowed
    <2> QED
        BY <1>3, <2>2 DEF Traces
<1>4. CASE row.lifecycle = "ARCHIVED"
    <2>1. Effective(row) = "ARCHIVED"
        BY <1>4 DEF Effective
    <2>2. Allowed(Effective(row)) = {}
        BY <2>1 DEF Allowed
    <2> QED
        BY <2>2
<1>5. CASE row.lifecycle = "ACTIVE"
    BY <1>5 DEF Traces
<1>6. CASE row.lifecycle = "NONE"
    <2>1. CASE row.active \/ row.activated
        BY <1>6, <2>1 DEF Traces
    <2>2. CASE ~row.active /\ ~row.activated
        <3>1. Effective(row) = "DRAFT"
            BY <1>6, <2>2 DEF Effective
        <3>2. Allowed(Effective(row)) = {}
            BY <3>1 DEF Allowed
        <3> QED
            BY <3>2
    <2> QED
        BY <2>1, <2>2
<1> QED
    BY <1>1, <1>2, <1>3, <1>4, <1>5, <1>6 DEF Lifecycles

Inv == TypeOK /\ ApprovalInv /\ RaceInv

LEMMA PrepareStep ==
    ASSUME Inv, NEW c \in Calls, NEW op \in RowOps, NEW next \in Rows, Prepare(c, op, next),
           now' \in 0 .. MaxTime, Backed(Prepared(op, next)), Derived(Prepared(op, next))
    PROVE  Inv'
BY PrepareType, PrepareSound DEF Inv

LEMMA StoreStep ==
    ASSUME Inv, NEW c \in Calls, NEW op \in RowOps, NEW active \in BOOLEAN, Store(c, op, active),
           approved' \in BOOLEAN, approved => approved', active => approved',
           call[c].next.review.status = "APPROVED" => approved',
           ~raced /\ ~call[c].stale => Standing(campaign)'
    PROVE  Inv'
<1>1. TypeOK'
    BY StoreType DEF Inv
<1>2. /\ \A d \in Calls : Backed(call[d])'
      /\ \A d \in Calls : (call[d].op)' \in RowOps /\ ~(call[d].stale)' => Derived(call[d])'
    BY StoreOthers DEF Inv
<1>3. call[c].next \in Rows /\ Backed(call[c])
    BY TypeCalls DEF Inv, ApprovalInv
<1>4. /\ campaign'.active = active /\ campaign'.review = call[c].next.review
      /\ campaign'.lifecycle = call[c].next.lifecycle
      /\ campaign'.activated = call[c].next.activated
    BY <1>3 DEF Store, Rows
<1>5. Fair(campaign)' /\ (Traces(campaign) => approved)'
      /\ (campaign.review.status = "APPROVED" => approved)'
    BY <1>3, <1>4 DEF Fair, Traces, Backed
<1>6. ~raced' => Standing(campaign)'
    BY DEF Store
<1> QED
    BY <1>1, <1>2, <1>5, <1>6 DEF Inv, ApprovalInv, RaceInv

-----------------------------------------------------------------------------
(* The first halves.                                                        *)
LEMMA CampaignType == Inv => campaign \in Rows /\ campaign.review \in Reviews
BY DEF Inv, TypeOK, Rows

LEMMA BindStep == ASSUME Inv, NEW c \in Calls, NEW v \in Versions, Bind(c, v) PROVE Inv'
<1> DEFINE next == [campaign EXCEPT !.binding = v]
<1>1. /\ next \in Rows /\ next.review = campaign.review
      /\ next.lifecycle = campaign.lifecycle /\ next.activated = campaign.activated
      /\ next.active = campaign.active
    BY CampaignType DEF Rows
<1>2. Backed(Prepared("BIND", next))
    BY <1>1 DEF Inv, ApprovalInv, Backed, Fair, Traces, Prepared, Commands
<1>3. Derived(Prepared("BIND", next))
    BY <1>1 DEF Bind, Derived, Keeps, Prepared, Commands
<1>4. Prepare(c, "BIND", next) /\ now' \in 0 .. MaxTime /\ "BIND" \in RowOps
    BY DEF Bind, Inv, TypeOK, RowOps
<1> HIDE DEF next
<1> QED
    BY <1>1, <1>2, <1>3, <1>4, PrepareStep

LEMMA OverrideStep == ASSUME Inv, NEW c \in Calls, RecordOverride(c) PROVE Inv'
<1> DEFINE next == [campaign EXCEPT !.override = campaign.binding]
<1>1. /\ next \in Rows /\ next.review = campaign.review
      /\ next.lifecycle = campaign.lifecycle /\ next.activated = campaign.activated
      /\ next.active = campaign.active
    BY CampaignType DEF Rows
<1>2. Backed(Prepared("OVERRIDE", next))
    BY <1>1 DEF Inv, ApprovalInv, Backed, Fair, Traces, Prepared, Commands
<1>3. Derived(Prepared("OVERRIDE", next))
    BY <1>1 DEF RecordOverride, Derived, Keeps, Prepared, Commands
<1>4. Prepare(c, "OVERRIDE", next) /\ now' \in 0 .. MaxTime /\ "OVERRIDE" \in RowOps
    BY DEF RecordOverride, Inv, TypeOK, RowOps
<1> HIDE DEF next
<1> QED
    BY <1>1, <1>2, <1>3, <1>4, PrepareStep

LEMMA SubmitStep ==
    ASSUME Inv, NEW c \in Calls, NEW actor \in Actors, SubmitReview(c, actor)
    PROVE  Inv'
<1> DEFINE review == [status |-> "READY", submitter |-> actor, decider |-> None, at |-> 0]
           next == [campaign EXCEPT !.review = review]
<1>1. review \in Reviews /\ review.status = "READY"
    BY DEF Reviews
<1> HIDE DEF review
<1>2. /\ next \in Rows /\ next.review = review
      /\ next.lifecycle = campaign.lifecycle /\ next.activated = campaign.activated
      /\ next.active = campaign.active
    BY <1>1, CampaignType DEF Rows
<1>3. Backed(Prepared("SUBMIT", next))
    BY <1>1, <1>2 DEF Inv, ApprovalInv, Backed, Fair, Traces, Prepared, Commands
<1>4. Derived(Prepared("SUBMIT", next))
    BY <1>2 DEF SubmitReview, MaySubmit, Derived, Keeps, Prepared, Commands
<1>5. Prepare(c, "SUBMIT", next) /\ now' \in 0 .. MaxTime /\ "SUBMIT" \in RowOps
    BY DEF SubmitReview, Inv, TypeOK, RowOps, review
<1> HIDE DEF next
<1> QED
    BY <1>2, <1>3, <1>4, <1>5, PrepareStep

LEMMA DecideStep ==
    ASSUME Inv, NEW c \in Calls, NEW actor \in Actors, NEW verdict \in {"APPROVED", "BLOCKED"},
           DecideReview(c, actor, verdict)
    PROVE  Inv'
<1> DEFINE review == [campaign.review EXCEPT !.status = verdict, !.decider = actor, !.at = now + 1]
           next == [campaign EXCEPT !.review = review]
<1>1. now \in Nat /\ now' \in 0 .. MaxTime
    BY TimeAssumption DEF DecideReview, Tick, Inv, TypeOK
<1>2. /\ review \in Reviews /\ review.status = verdict /\ review.decider = actor
      /\ review.submitter = campaign.review.submitter
    <2> HIDE DEF next
    <2>1. campaign.review \in Reviews
        BY CampaignType
    <2>2. PICK at \in Nat : at = now + 1
        BY <1>1
    <2>3. review = [campaign.review EXCEPT !.status = verdict, !.decider = actor, !.at = at]
        BY <2>2
    <2> HIDE DEF review
    <2> QED
        BY <2>1, <2>2, <2>3 DEF Reviews
<1>3. Prepare(c, "DECIDE", next) /\ "DECIDE" \in RowOps
    BY DEF DecideReview, RowOps
<1> HIDE DEF review
<1>4. /\ next \in Rows /\ next.review = review
      /\ next.lifecycle = campaign.lifecycle /\ next.activated = campaign.activated
      /\ next.active = campaign.active
    BY <1>2, CampaignType DEF Rows
<1>5. Backed(Prepared("DECIDE", next))
    BY <1>2, <1>4 DEF DecideReview, Inv, ApprovalInv, Backed, Fair, Traces, Prepared, Commands
<1>6. Derived(Prepared("DECIDE", next))
    BY <1>4 DEF DecideReview, Derived, Keeps, Prepared, Commands
<1> HIDE DEF next
<1> QED
    BY <1>1, <1>3, <1>4, <1>5, <1>6, PrepareStep

LEMMA ActivateStep == ASSUME Inv, NEW c \in Calls, Activate(c) PROVE Inv'
<1> DEFINE next == Launched(campaign)
<1>1. /\ next \in Rows /\ next.review = campaign.review
      /\ next.lifecycle = "ACTIVE" /\ next.activated = TRUE /\ next.active = campaign.active
    BY CampaignType DEF Launched, Rows, Lifecycles
<1>2. Backed(Prepared("ACTIVATE", next))
    BY <1>1 DEF Activate, Inv, ApprovalInv, Backed, Fair, Traces, Prepared, Commands
<1>3. Derived(Prepared("ACTIVATE", next))
    BY <1>1 DEF Activate, Derived, Prepared, Commands
<1>4. Prepare(c, "ACTIVATE", next) /\ now' \in 0 .. MaxTime /\ "ACTIVATE" \in RowOps
    BY DEF Activate, Inv, TypeOK, RowOps
<1> HIDE DEF next
<1> QED
    BY <1>1, <1>2, <1>3, <1>4, PrepareStep

LEMMA CommandStep ==
    ASSUME Inv, NEW c \in Calls, NEW k \in Commands, LifecycleCommand(c, k)
    PROVE  Inv'
<1> DEFINE next == [campaign EXCEPT !.lifecycle = Outcome(k)]
<1>1. Outcome(k) \in Lifecycles
    BY Outcomes DEF Lifecycles
<1>2. /\ next \in Rows /\ next.review = campaign.review
      /\ next.lifecycle = Outcome(k) /\ next.activated = campaign.activated
      /\ next.active = campaign.active
    BY <1>1, CampaignType DEF Rows
<1>3. Traces(campaign)
    BY CampaignType, AllowedTraces DEF LifecycleCommand
<1>4. Backed(Prepared(k, next))
    BY <1>2, <1>3 DEF Inv, ApprovalInv, Backed, Fair, Traces, Prepared, Commands
<1>5. Derived(Prepared(k, next))
    BY <1>2 DEF LifecycleCommand, Derived, Prepared, Commands
<1>6. Prepare(c, k, next) /\ now' \in 0 .. MaxTime /\ k \in RowOps
    BY DEF LifecycleCommand, Inv, TypeOK, RowOps
<1> HIDE DEF next
<1> QED
    BY <1>2, <1>4, <1>5, <1>6, PrepareStep

-----------------------------------------------------------------------------
(* The second halves: what is stored stands as long as it was derived from  *)
(* the row it replaces.                                                     *)
LEMMA StoredRow ==
    ASSUME Inv, NEW c \in Calls, NEW op \in RowOps, NEW active \in BOOLEAN, Store(c, op, active)
    PROVE  /\ call[c].op = op /\ Backed(call[c])
           /\ campaign'.active = active /\ campaign'.review = call[c].next.review
           /\ campaign'.lifecycle = call[c].next.lifecycle
           /\ campaign'.activated = call[c].next.activated
           /\ ~raced /\ ~call[c].stale => Standing(campaign) /\ Derived(call[c])
<1>1. call[c].next \in Rows
    BY TypeCalls DEF Inv
<1>2. Backed(call[c])
    BY DEF Inv, ApprovalInv
<1>3. ~raced /\ ~call[c].stale => Standing(campaign) /\ Derived(call[c])
    BY DEF Inv, RaceInv, Store
<1> QED
    BY <1>1, <1>2, <1>3 DEF Store, Rows

(* Four of the commands leave is_active as it is in the row they overwrite. *)
Keeping == {"BIND", "OVERRIDE", "SUBMIT", "DECIDE"}

LEMMA KeepingStep ==
    ASSUME Inv, NEW c \in Calls, NEW op \in Keeping, Store(c, op, campaign.active),
           approved' \in BOOLEAN, approved => approved',
           call[c].next.review.status = "APPROVED" => approved'
    PROVE  Inv'
<1>1. op \in RowOps /\ campaign.active \in BOOLEAN
    BY CampaignType DEF Keeping, RowOps, Rows
<1>2. campaign.active => approved'
    BY DEF Inv, ApprovalInv, Traces
<1>3. ASSUME ~raced, ~call[c].stale PROVE Standing(campaign)'
    <2>1. Standing(campaign) /\ Derived(call[c]) /\ call[c].op = op
        BY <1>1, <1>3, StoredRow
    <2>2. /\ campaign'.active = campaign.active /\ campaign'.review = call[c].next.review
          /\ campaign'.lifecycle = call[c].next.lifecycle
          /\ campaign'.activated = call[c].next.activated
        BY <1>1, StoredRow
    <2>3. CASE op \in {"BIND", "OVERRIDE"}
        BY <2>1, <2>2, <2>3 DEF Standing, Derived, Keeps
    <2>4. CASE op = "SUBMIT"
        BY <2>1, <2>2, <2>4 DEF Standing, Derived, Keeps
    <2>5. CASE op = "DECIDE"
        BY <2>1, <2>2, <2>5 DEF Standing, Derived, Keeps
    <2> QED
        BY <2>3, <2>4, <2>5 DEF Keeping
<1> QED
    BY <1>1, <1>2, <1>3, StoreStep

LEMMA WriteKeptStep ==
    ASSUME Inv, NEW c \in Calls, WriteBinding(c) \/ WriteOverride(c) \/ WriteReview(c)
    PROVE  Inv'
<1>1. PICK op \in {"BIND", "OVERRIDE", "SUBMIT"} : Store(c, op, campaign.active)
    BY DEF WriteBinding, WriteOverride, WriteReview
<1>2. approved' = approved /\ approved' \in BOOLEAN
    BY DEF WriteBinding, WriteOverride, WriteReview, Inv, TypeOK
<1>3. op \in RowOps /\ campaign.active \in BOOLEAN
    BY CampaignType DEF RowOps, Rows
<1>4. call[c].next.review.status = "APPROVED" => approved
    BY <1>1, <1>3, StoredRow DEF Backed
<1> QED
    BY <1>1, <1>2, <1>4, KeepingStep DEF Keeping

LEMMA WriteDecisionStep == ASSUME Inv, NEW c \in Calls, WriteDecision(c) PROVE Inv'
<1>1. Store(c, "DECIDE", campaign.active) /\ "DECIDE" \in RowOps /\ campaign.active \in BOOLEAN
    BY CampaignType DEF WriteDecision, RowOps, Rows
<1>2. approved' \in BOOLEAN /\ (approved => approved')
    BY DEF WriteDecision, Inv, TypeOK
<1>3. Fair(call[c].next)
    BY <1>1, StoredRow DEF Backed
<1>4. call[c].next.review.status = "APPROVED" => approved'
    BY <1>3 DEF WriteDecision, Fair
<1> QED
    BY <1>1, <1>2, <1>4, KeepingStep DEF Keeping

LEMMA WriteActivationStep == ASSUME Inv, NEW c \in Calls, WriteActivation(c) PROVE Inv'
<1>1. Store(c, "ACTIVATE", TRUE) /\ "ACTIVATE" \in RowOps
    BY DEF WriteActivation, RowOps
<1>2. approved' = approved /\ approved' \in BOOLEAN
    BY DEF WriteActivation, Inv, TypeOK
<1>3. call[c].op = "ACTIVATE" /\ Backed(call[c])
    BY <1>1, StoredRow
<1>4. approved
    BY <1>3 DEF Backed
<1>5. ASSUME ~raced, ~call[c].stale PROVE Standing(campaign)'
    <2>1. Derived(call[c])
        BY <1>1, <1>5, StoredRow
    <2>2. /\ campaign'.active = TRUE /\ campaign'.review = call[c].next.review
          /\ campaign'.lifecycle = call[c].next.lifecycle
        BY <1>1, StoredRow
    <2> QED
        BY <1>3, <2>1, <2>2 DEF Standing, Derived
<1> QED
    BY <1>1, <1>2, <1>4, <1>5, StoreStep

LEMMA WriteLifecycleStep ==
    ASSUME Inv, NEW c \in Calls, NEW k \in Commands, WriteLifecycle(c, k)
    PROVE  Inv'
<1> DEFINE active == Outcome(k) = "ACTIVE"
<1>1. Store(c, k, active) /\ k \in RowOps /\ active \in BOOLEAN
    BY DEF WriteLifecycle, RowOps
<1>2. approved' = approved /\ approved' \in BOOLEAN
    BY DEF WriteLifecycle, Inv, TypeOK
<1> HIDE DEF active
<1>3. call[c].op = k /\ Backed(call[c])
    BY <1>1, StoredRow
<1>4. approved
    BY <1>3 DEF Backed
<1>5. ASSUME ~raced, ~call[c].stale PROVE Standing(campaign)'
    <2>1. Standing(campaign) /\ Derived(call[c])
        BY <1>1, <1>5, StoredRow
    <2>2. /\ campaign'.active = active /\ campaign'.review = call[c].next.review
          /\ campaign'.lifecycle = call[c].next.lifecycle
          /\ campaign'.activated = call[c].next.activated
        BY <1>1, StoredRow
    <2>3. /\ k \in Allowed(Effective(campaign)) /\ call[c].next.lifecycle = Outcome(k)
          /\ call[c].next.activated = campaign.activated
          /\ call[c].next.review = campaign.review
        BY <1>3, <2>1 DEF Derived
    <2>4. campaign.lifecycle # "NONE"
        BY <2>1, <2>3, CampaignType, AllowedTraces DEF Standing
    <2>5. Outcome(k) # "NONE"
        BY Outcomes
    <2> QED
        BY <2>1, <2>2, <2>3, <2>4, <2>5 DEF Standing, active
<1> QED
    BY <1>1, <1>2, <1>4, <1>5, StoreStep

(* What touches no row: the policy and the programme versions.              *)
LEMMA OtherStep ==
    ASSUME Inv, \/ \E c \in Calls : StartPolicy(c) \/ CommitPolicy(c)
                \/ WithdrawPolicy
                \/ \E v \in Versions : PublishVersion(v) \/ RetireVersion(v)
                \/ UNCHANGED vars
    PROVE  Inv'
<1>1. /\ campaign' = campaign /\ approved' = approved /\ raced' = raced
    BY DEF StartPolicy, CommitPolicy, WithdrawPolicy, PublishVersion, RetireVersion, vars
<1>2. Draft \in Rows /\ Idle \in CallType
    BY DEF Draft, NoReview, Rows, Reviews, Lifecycles, Idle, CallType
<1>3. \A c \in Calls : call'[c] = call[c]
         \/ (call'[c].op \in {"NONE", "POLICY"} /\ call'[c].next = Draft)
    <2>1. ASSUME NEW c \in Calls, StartPolicy(c)
          PROVE  call'[c].op = "POLICY" /\ call'[c].next = Draft
                 /\ \A d \in Calls \ {c} : call'[d] = call[d]
        BY <2>1, TypeCalls DEF Inv, StartPolicy, Idle
    <2>2. ASSUME NEW c \in Calls, CommitPolicy(c)
          PROVE  call'[c].op = "NONE" /\ call'[c].next = Draft
                 /\ \A d \in Calls \ {c} : call'[d] = call[d]
        BY <2>2, TypeCalls DEF Inv, CommitPolicy, Idle
    <2>3. CASE UNCHANGED call
        BY <2>3
    <2> QED
        BY <2>1, <2>2, <2>3 DEF WithdrawPolicy, PublishVersion, RetireVersion, vars
<1>4. call' \in [Calls -> CallType] /\ now' \in 0 .. MaxTime /\ policy' \in Nat
      /\ version' \in [Versions -> {"NONE", "PUBLISHED", "RETIRED"}]
    <2>1. CASE \E c \in Calls : StartPolicy(c)
        <3>1. PICK c \in Calls : StartPolicy(c)
            BY <2>1
        <3>2. now + 1 \in Nat /\ now' \in 0 .. MaxTime
            BY <3>1, TimeAssumption DEF Inv, TypeOK, StartPolicy, Tick
        <3>3. [Idle EXCEPT !.op = "POLICY", !.stamp = now + 1] \in CallType
            BY <1>2, <3>2 DEF CallType
        <3> QED
            BY <3>1, <3>2, <3>3, TypeCalls DEF Inv, TypeOK, StartPolicy
    <2>2. CASE \E c \in Calls : CommitPolicy(c)
        <3>1. PICK c \in Calls : CommitPolicy(c)
            BY <2>2
        <3>2. policy' \in Nat
            BY <3>1, TypeCalls DEF Inv, CommitPolicy, CallType
        <3> QED
            BY <1>2, <3>1, <3>2, TypeCalls DEF Inv, TypeOK, CommitPolicy
    <2>3. CASE \E v \in Versions : PublishVersion(v) \/ RetireVersion(v)
        BY <2>3, TypeCalls DEF Inv, TypeOK, PublishVersion, RetireVersion
    <2>4. CASE WithdrawPolicy
        <3>1. now' \in 0 .. MaxTime
            BY <2>4, TimeAssumption DEF Inv, TypeOK, WithdrawPolicy, Tick
        <3> QED
            BY <2>4, <3>1, TypeCalls DEF Inv, TypeOK, WithdrawPolicy
    <2>5. CASE UNCHANGED vars
        BY <2>5, TypeCalls DEF Inv, TypeOK, vars
    <2> QED
        BY <2>1, <2>2, <2>3, <2>4, <2>5
<1>5. approved' \in BOOLEAN /\ raced' \in BOOLEAN
    BY <1>1, Zenon DEF Inv, TypeOK
<1>6. TypeOK'
    BY <1>1, <1>4, <1>5 DEF Inv, TypeOK, CallType
<1>7. ASSUME NEW c \in Calls
      PROVE  Backed(call[c])' /\ ((call[c].op)' \in RowOps /\ ~(call[c].stale)' => Derived(call[c])')
    <2>1. CASE call'[c] = call[c]
        <3>1. Backed(call[c]) /\ (call[c].op \in RowOps /\ ~call[c].stale => Derived(call[c]))
            BY DEF Inv, ApprovalInv, RaceInv
        <3>2. Backed(call[c])'
            BY <1>1, <2>1, <3>1 DEF Backed, Fair, Traces
        <3> QED
            BY <1>1, <2>1, <3>1, <3>2 DEF Derived, Keeps, Allowed, Effective
    <2>2. CASE call'[c].op \in {"NONE", "POLICY"} /\ call'[c].next = Draft
        BY <2>2 DEF Backed, Fair, Traces, Draft, NoReview, RowOps, Commands
    <2> QED
        BY <1>3, <2>1, <2>2
<1> QED
    BY <1>1, <1>6, <1>7 DEF Inv, ApprovalInv, RaceInv, Fair, Traces, Standing

LEMMA InvInit == Init => Inv
<1> SUFFICES ASSUME Init PROVE Inv
    OBVIOUS
<1>1. /\ campaign.review = NoReview /\ ~campaign.active /\ ~campaign.activated
      /\ campaign.lifecycle = "NONE"
    BY DEF Init, Draft
<1>2. \A c \in Calls : call[c] = Idle
    BY DEF Init
<1>3. ApprovalInv
    BY <1>1, <1>2 DEF ApprovalInv, Backed, Fair, Traces, Idle, Draft, NoReview, Commands
<1>4. RaceInv
    BY <1>1, <1>2 DEF RaceInv, Standing, Idle, RowOps, Commands
<1> QED
    BY <1>3, <1>4, TypeInit DEF Inv

LEMMA InvNext == Inv /\ [Next]_vars => Inv'
<1> SUFFICES ASSUME Inv, [Next]_vars PROVE Inv'
    OBVIOUS
<1>1. ASSUME NEW c \in Calls, NEW v \in Versions, Bind(c, v) PROVE Inv'
    BY <1>1, BindStep
<1>2. ASSUME NEW c \in Calls, RecordOverride(c) PROVE Inv'
    BY <1>2, OverrideStep
<1>3. ASSUME NEW c \in Calls, NEW a \in Actors, SubmitReview(c, a) PROVE Inv'
    BY <1>3, SubmitStep
<1>4. ASSUME NEW c \in Calls, NEW a \in Actors, NEW v \in {"APPROVED", "BLOCKED"},
             DecideReview(c, a, v)
      PROVE  Inv'
    BY <1>4, DecideStep
<1>5. ASSUME NEW c \in Calls, Activate(c) PROVE Inv'
    BY <1>5, ActivateStep
<1>6. ASSUME NEW c \in Calls, NEW k \in Commands, LifecycleCommand(c, k) PROVE Inv'
    BY <1>6, CommandStep
<1>7. ASSUME NEW c \in Calls, WriteBinding(c) \/ WriteOverride(c) \/ WriteReview(c) PROVE Inv'
    BY <1>7, WriteKeptStep
<1>8. ASSUME NEW c \in Calls, WriteDecision(c) PROVE Inv'
    BY <1>8, WriteDecisionStep
<1>9. ASSUME NEW c \in Calls, WriteActivation(c) PROVE Inv'
    BY <1>9, WriteActivationStep
<1>10. ASSUME NEW c \in Calls, NEW k \in Commands, WriteLifecycle(c, k) PROVE Inv'
    BY <1>10, WriteLifecycleStep
<1> QED
    BY <1>1, <1>2, <1>3, <1>4, <1>5, <1>6, <1>7, <1>8, <1>9, <1>10, OtherStep DEF Next

-----------------------------------------------------------------------------
(* Rows, calls, the policy and the versions keep their types.               *)
THEOREM TypeCorrect == Spec => []TypeOK
<1>1. Inv => TypeOK
    BY DEF Inv
<1> QED
    BY <1>1, InvInit, InvNext, PTL DEF Spec

(* However commands overwrite each other, a campaign becomes active only    *)
(* after an actor other than the submitter approved a review of it: the     *)
(* trace of that approval is in every row a command has read.               *)
THEOREM ActivationWasApproved == Spec => []ActiveWasApproved
<1>1. Inv => ActiveWasApproved
    BY DEF Inv, ApprovalInv, Traces, ActiveWasApproved
<1> QED
    BY <1>1, InvInit, InvNext, PTL DEF Spec

(* Until a command overwrites a change it has not read, an active campaign  *)
(* carries its approval.                                                    *)
THEOREM ApprovalIsKept == Spec => []ApprovalStands
<1>1. Inv => ApprovalStands
    BY DEF Inv, ApprovalInv, RaceInv, Standing, Fair, ApprovalStands
<1> QED
    BY <1>1, InvInit, InvNext, PTL DEF Spec

(* Until a command overwrites a change it has not read, is_active and the   *)
(* lifecycle of the attributes agree.                                       *)
THEOREM LifecycleIsConsistent == Spec => []LifecycleAgrees
<1>1. Inv => LifecycleAgrees
    BY DEF Inv, RaceInv, Standing, LifecycleAgrees
<1> QED
    BY <1>1, InvInit, InvNext, PTL DEF Spec
=============================================================================
