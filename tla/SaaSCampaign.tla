---------------------------- MODULE SaaSCampaign ----------------------------
(***************************************************************************)
(* One customer campaign of the referral SaaS, from its draft to its       *)
(* archive (services/referral_saas_campaign_service).                      *)
(*                                                                         *)
(* A command reads the campaign's row, its policy and the programme        *)
(* version outside any transaction, decides, and then writes the whole     *)
(* attributes document back in a transaction that checks nothing again.    *)
(* A retry with a known idempotency key changes nothing and is left out.   *)
(***************************************************************************)
EXTENDS Naturals

CONSTANTS Calls,     \* concurrent commands
          Actors,    \* who submits and who decides
          Versions,  \* programme versions of the customer
          None,      \* no actor, no version
          MaxTime    \* bound: policy writes and review decisions

ASSUME NoneAssumption == None \notin Actors \cup Versions
ASSUME TimeAssumption == MaxTime \in Nat

VARIABLES campaign,  \* marketing_campaigns: is_active and attributes
          policy,    \* marketing_campaign_policies: updated_at, 0 without a policy
          version,   \* referral_saas_programme_versions: status per version
          call,      \* what each command is about to write
          now,       \* the clock, moved by the events whose time is compared
          approved,  \* history: an actor other than the submitter approved a review
          raced      \* history: a command wrote over a change it had not read

vars == <<campaign, policy, version, call, now, approved, raced>>

Lifecycles == {"NONE", "ACTIVE", "PAUSED", "ENDED", "ARCHIVED"}
Commands == {"PAUSE", "RESUME", "END", "ARCHIVE"}
RowOps == {"BIND", "OVERRIDE", "SUBMIT", "DECIDE", "ACTIVATE"} \cup Commands
NoReview == [status |-> "NONE", submitter |-> None, decider |-> None, at |-> 0]
Draft == [active |-> FALSE, binding |-> None, override |-> None, review |-> NoReview,
          lifecycle |-> "NONE", activated |-> FALSE]
Idle == [op |-> "NONE", next |-> Draft, stale |-> FALSE, stamp |-> 0]

(* A draft is created inactive, bound to a published version or to none.    *)
Init == /\ version \in [Versions -> {"NONE", "PUBLISHED"}]
        /\ \E b \in {None} \cup {v \in Versions : version[v] = "PUBLISHED"} :
              campaign = [Draft EXCEPT !.binding = b]
        /\ policy = 0
        /\ call = [c \in Calls |-> Idle]
        /\ now = 0
        /\ approved = FALSE
        /\ raced = FALSE

-----------------------------------------------------------------------------
Published(v) == v \in Versions /\ version[v] = "PUBLISHED"
Tick == now < MaxTime /\ now' = now + 1

(* The first half of a command: what it will write, from what it has read.  *)
Prepare(c, op, next) ==
    /\ call[c].op = "NONE"
    /\ call' = [call EXCEPT ![c] = [op |-> op, next |-> next, stale |-> FALSE, stamp |-> 0]]
    /\ UNCHANGED <<campaign, policy, version, approved, raced>>

(* The second half: the attributes as prepared, and is_active as given. The *)
(* other commands under way have now read an older row.                     *)
Store(c, op, active) ==
    /\ call[c].op = op
    /\ campaign' = [call[c].next EXCEPT !.active = active]
    /\ raced' = (raced \/ call[c].stale)
    /\ call' = [d \in Calls |->
                   IF d = c THEN Idle
                   ELSE IF call[d].op \in RowOps /\ campaign' # campaign
                          THEN [call[d] EXCEPT !.stale = TRUE] ELSE call[d]]
    /\ UNCHANGED <<policy, version, now>>

-----------------------------------------------------------------------------
(* Binding a programme version keeps the override and the review.           *)
Bind(c, v) ==
    /\ ~campaign.active /\ Published(v)
    /\ Prepare(c, "BIND", [campaign EXCEPT !.binding = v])
    /\ UNCHANGED now
WriteBinding(c) == Store(c, "BIND", campaign.active) /\ UNCHANGED approved

(* An override is recorded approved, for the version that is bound.         *)
RecordOverride(c) ==
    /\ ~campaign.active /\ Published(campaign.binding)
    /\ Prepare(c, "OVERRIDE", [campaign EXCEPT !.override = campaign.binding])
    /\ UNCHANGED now
WriteOverride(c) == Store(c, "OVERRIDE", campaign.active) /\ UNCHANGED approved

(* A policy is stamped with the start of the transaction that writes it,    *)
(* whatever the campaign's state. The campaign has one policy version here; *)
(* the code takes the latest stamp of its active versions.                  *)
StartPolicy(c) ==
    /\ call[c].op = "NONE"
    /\ Tick
    /\ call' = [call EXCEPT ![c] = [Idle EXCEPT !.op = "POLICY", !.stamp = now + 1]]
    /\ UNCHANGED <<campaign, policy, version, approved, raced>>
CommitPolicy(c) ==
    /\ call[c].op = "POLICY"
    /\ policy' = call[c].stamp
    /\ call' = [call EXCEPT ![c] = Idle]
    /\ UNCHANGED <<campaign, version, now, approved, raced>>

(* The administrators' route can also switch the policy off.                *)
WithdrawPolicy ==
    /\ policy > 0
    /\ Tick
    /\ policy' = 0
    /\ UNCHANGED <<campaign, version, call, approved, raced>>

(* A submission starts the review over; an approved one cannot.             *)
\* Mutant: an approved review can be submitted again.
MaySubmitMutant == ~campaign.active /\ policy > 0
MaySubmit == ~campaign.active /\ policy > 0 /\ campaign.review.status # "APPROVED"
SubmitReview(c, actor) ==
    /\ MaySubmit
    /\ Prepare(c, "SUBMIT", [campaign EXCEPT !.review =
          [status |-> "READY", submitter |-> actor, decider |-> None, at |-> 0]])
    /\ UNCHANGED now
WriteReview(c) == Store(c, "SUBMIT", campaign.active) /\ UNCHANGED approved

(* The verdict and its time; only another actor than the submitter          *)
(* approves.                                                                *)
DecideReview(c, actor, verdict) ==
    /\ ~campaign.active
    /\ campaign.review.status = "READY"
    /\ verdict = "APPROVED" => actor # campaign.review.submitter
    /\ Published(campaign.binding)
    /\ policy > 0
    /\ Tick
    /\ Prepare(c, "DECIDE", [campaign EXCEPT !.review =
          [@ EXCEPT !.status = verdict, !.decider = actor, !.at = now + 1]])
WriteDecision(c) ==
    LET review == call[c].next.review IN
    /\ Store(c, "DECIDE", campaign.active)
    /\ approved' = (approved \/ (/\ review.status = "APPROVED"
                                 /\ review.submitter # review.decider))

(* The launch: every gate is read from the row, the policy and the version. *)
Fresh == policy <= campaign.review.at
Launched(row) == [row EXCEPT !.lifecycle = "ACTIVE", !.activated = TRUE]
\* Mutant: a launch takes a review that waits for its decision, which has no time yet.
ActivateMutant(c) ==
    /\ ~campaign.active /\ policy > 0
    /\ campaign.review.status \in {"READY", "APPROVED"}
    /\ campaign.review.submitter # campaign.review.decider
    /\ Published(campaign.binding)
    /\ campaign.override \in {None, campaign.binding}
    /\ Prepare(c, "ACTIVATE", Launched(campaign))
    /\ UNCHANGED now
Activate(c) ==
    /\ ~campaign.active /\ policy > 0
    /\ campaign.review.status = "APPROVED"
    /\ campaign.review.submitter # campaign.review.decider
    /\ Fresh
    /\ Published(campaign.binding)
    /\ campaign.override \in {None, campaign.binding}
    /\ Prepare(c, "ACTIVATE", Launched(campaign))
    /\ UNCHANGED now
WriteActivation(c) == Store(c, "ACTIVATE", TRUE) /\ UNCHANGED approved

-----------------------------------------------------------------------------
(* _campaign_effective_lifecycle. A campaign that waits for its start takes *)
(* the same commands as an active one; one past its end takes none.         *)
Effective(row) ==
    CASE row.lifecycle \in {"PAUSED", "ENDED", "ARCHIVED"} -> row.lifecycle
      [] row.lifecycle \in {"NONE", "ACTIVE"} /\ row.active -> "ACTIVE"
      [] OTHER -> IF row.activated THEN "PAUSED" ELSE "DRAFT"

Allowed(lifecycle) ==
    CASE lifecycle = "ACTIVE" -> {"PAUSE", "END"}
      [] lifecycle = "PAUSED" -> {"RESUME", "END", "ARCHIVE"}
      [] lifecycle = "ENDED" -> {"ARCHIVE"}
      [] OTHER -> {}

\* Mutant: a resumption stores the name of the command.
OutcomeMutant(command) == CASE command = "PAUSE" -> "PAUSED" [] command = "RESUME" -> "RESUMED"
                            [] command = "END" -> "ENDED" [] command = "ARCHIVE" -> "ARCHIVED"
Outcome(command) == CASE command = "PAUSE" -> "PAUSED" [] command = "RESUME" -> "ACTIVE"
                      [] command = "END" -> "ENDED" [] command = "ARCHIVE" -> "ARCHIVED"

LifecycleCommand(c, command) ==
    /\ command \in Allowed(Effective(campaign))
    /\ Prepare(c, command, [campaign EXCEPT !.lifecycle = Outcome(command)])
    /\ UNCHANGED now
\* Mutant: a pause leaves the campaign active.
WriteLifecycleMutant(c, command) ==
    Store(c, command, command \in {"RESUME", "PAUSE"}) /\ UNCHANGED approved
WriteLifecycle(c, command) ==
    Store(c, command, Outcome(command) = "ACTIVE") /\ UNCHANGED approved

-----------------------------------------------------------------------------
(* The programme service publishes versions and retires them at any time.   *)
PublishVersion(v) ==
    /\ version[v] = "NONE"
    /\ version' = [version EXCEPT ![v] = "PUBLISHED"]
    /\ UNCHANGED <<campaign, policy, call, now, approved, raced>>
RetireVersion(v) ==
    /\ version[v] = "PUBLISHED"
    /\ version' = [version EXCEPT ![v] = "RETIRED"]
    /\ UNCHANGED <<campaign, policy, call, now, approved, raced>>

Next == \/ \E c \in Calls :
             \/ (\E v \in Versions : Bind(c, v)) \/ WriteBinding(c)
             \/ RecordOverride(c) \/ WriteOverride(c)
             \/ StartPolicy(c) \/ CommitPolicy(c)
             \/ (\E a \in Actors : SubmitReview(c, a)) \/ WriteReview(c)
             \/ \E a \in Actors, v \in {"APPROVED", "BLOCKED"} : DecideReview(c, a, v)
             \/ WriteDecision(c)
             \/ Activate(c) \/ WriteActivation(c)
             \/ \E k \in Commands : LifecycleCommand(c, k) \/ WriteLifecycle(c, k)
        \/ WithdrawPolicy
        \/ \E v \in Versions : PublishVersion(v) \/ RetireVersion(v)

Spec == Init /\ [][Next]_vars
-----------------------------------------------------------------------------
Reviews == [status: {"NONE", "READY", "APPROVED", "BLOCKED"}, submitter: Actors \cup {None},
            decider: Actors \cup {None}, at: Nat]
Rows == [active: BOOLEAN, binding: Versions \cup {None}, override: Versions \cup {None},
         review: Reviews, lifecycle: Lifecycles, activated: BOOLEAN]

TypeOK ==
    /\ campaign \in Rows
    /\ policy \in Nat
    /\ version \in [Versions -> {"NONE", "PUBLISHED", "RETIRED"}]
    /\ call \in [Calls -> [op: {"NONE", "POLICY"} \cup RowOps, next: Rows, stale: BOOLEAN,
                           stamp: Nat]]
    /\ now \in 0 .. MaxTime
    /\ approved \in BOOLEAN
    /\ raced \in BOOLEAN

(* However commands overwrite each other, a campaign is active only after   *)
(* an actor other than the submitter approved a review of it.               *)
ActiveWasApproved == campaign.active => approved

(* While no command writes over a change it had not read, an active         *)
(* campaign still carries that approval: rebinding, pausing and resuming    *)
(* do not lose it, and nothing starts a review over while it is active.     *)
ApprovalStands == ~raced /\ campaign.active =>
    /\ campaign.review.status = "APPROVED"
    /\ campaign.review.submitter # campaign.review.decider

(* While no command writes over a change it had not read, is_active and the *)
(* lifecycle kept in the attributes agree.                                  *)
LifecycleAgrees == ~raced => (campaign.active <=> campaign.lifecycle = "ACTIVE")

(* "policy changes after approval block activation until re-review"         *)
(* (docs/roadmap/ORDERED_TASK_LIST.md, TASK-370): where the policy is newer *)
(* than the approval, the campaign can be submitted again.                  *)
StaleCanBeReviewed ==
    ~campaign.active /\ campaign.review.status = "APPROVED" /\ ~Fresh => MaySubmit

(* "Campaign ended. It cannot be used for new referral activity."           *)
(* (referral_saas_campaign_service._campaign_lifecycle_plain_language) and  *)
(* an archived one is "retained for history and reporting": no command      *)
(* makes an ended or archived campaign active.                              *)
ClosedForGood ==
    [][campaign.lifecycle \in {"ENDED", "ARCHIVED"} => ~campaign'.active]_vars
=============================================================================
