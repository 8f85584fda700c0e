-------------------------- MODULE ReferralProgress --------------------------
(***************************************************************************)
(* One referral instance, the progress facts reported about it, the queue  *)
(* that carries them to the workers and the base rewards its completion    *)
(* pays (services/progress_service.py, journey_orchestrator.py,            *)
(* replay_service.py, reward_service.py, enterprise_event_inbox_service.py,*)
(* apps/Workers/ids_consumer.py, apps/api/routers/worker.py).              *)
(*                                                                         *)
(* Rows of different referrals never meet in this code, so one row is      *)
(* enough.  A worker's step is one committed transaction or one local      *)
(* decision; everything between two steps of a worker may interleave with  *)
(* the other workers, the API and a rebuild.                               *)
(***************************************************************************)
EXTENDS JourneyRules, FiniteSets, SequencesExt

CONSTANTS
  Facts,          \* the facts source systems report, by (source, event id)
  Inbound,        \* those that come through the IDS connector, not the API
  Raw,            \* the raw event type of each fact
  SelfReferring,  \* facts whose payload names the referrer as the referee
  Workers,        \* concurrent deliveries to POST /worker/referral-events
  Journey,        \* the journey the row is bound to
  Instructions,   \* beneficiaries build_base_reward_instructions returns
  MaxLate,        \* bound on the facts a late insert comes before
  MaxFaults       \* bound on crashes, exceptions and lost sends

Beneficiaries == {"REFERRER", "REFEREE"}

ASSUME ProgressAssumption ==
  /\ Inbound \subseteq Facts
  /\ Raw \in [Facts -> STRING]
  /\ SelfReferring \subseteq Facts
  /\ Journey \in Persistent
  /\ Instructions \in Seq(Beneficiaries)
  /\ MaxLate \in Nat
  /\ MaxFaults \in Nat

VARIABLES
  recorded,   \* referral_progress_events in occurred_at order
  inbox,      \* enterprise_event_inbox: the IDS facts routed to this referral
  unsent,     \* facts inserted by a call that has not enqueued them yet
  queue,      \* messages SQS still holds (delivered or not)
  dlq,        \* messages published to the dead letter queue
  row,        \* the committed referral_instances row
  worker,     \* what each delivery is doing
  audit,      \* referral_processing_audit: <<fact, outcome>>
  rewards,    \* number of BASE rows in rewards for each beneficiary
  requests,   \* REWARD_FULFILMENT_REQUESTED events sent for each beneficiary
  rebuild,    \* what a replay_service rebuild is doing
  faults      \* crashes, exceptions and lost sends so far

vars == <<recorded, inbox, unsent, queue, dlq, row, worker, audit, rewards,
          requests, rebuild, faults>>

Event(f) == Normalized(IF f \in Inbound THEN Routed(Raw[f]) ELSE Raw[f])

RecordedFacts == {recorded[k] : k \in DOMAIN recorded}

KnownFacts == RecordedFacts \cup inbox

(***************************************************************************)
(* What a delivery holds: the phase it is in, its fact, where the fact     *)
(* came from, the row as it was when loaded, and the reward instructions   *)
(* it has not applied yet.                                                 *)
(*   loaded      the row has been SELECTed (no FOR UPDATE)                 *)
(*   updated     the row is UPDATEd but not committed (its lock is held);  *)
(*               the PROCESSED audit is committed on another connection    *)
(*   issuing     committed; applying the head of todo                      *)
(*   publishing  the head of todo is inserted, its event not yet sent      *)
(*   finished    about to answer sqsd, which deletes the message           *)
(***************************************************************************)
Idle == [phase |-> "idle"]

Paying == {"issuing", "publishing"}

\* A delivery has instructions left exactly while it pays.
Busy ==
  {d \in [phase : {"loaded", "updated", "finished"} \cup Paying, fact : Facts,
          source : {"queue", "dlq"}, before : Instances(Journey),
          todo : Seq(Beneficiaries)] :
     d.phase \in Paying <=> d.todo # <<>>}

NotRebuilding == [active |-> FALSE, events |-> <<>>]

Outcomes == {"PROCESSED", "FAILED", "SELF_REFERRAL_NOT_ALLOWED",
             "duplicate", "out_of_order", "backward", "invalid"}

TypeOK ==
  /\ recorded \in Seq(Facts)
  /\ inbox \subseteq Inbound
  /\ unsent \subseteq Facts
  /\ queue \subseteq Facts
  /\ dlq \subseteq Facts
  /\ row \in Instances(Journey)
  /\ worker \in [Workers -> Busy \cup {Idle}]
  /\ audit \subseteq Facts \X Outcomes
  /\ rewards \in [Beneficiaries -> Nat]
  /\ requests \in [Beneficiaries -> Nat]
  /\ rebuild \in [active : BOOLEAN, events : Seq(Facts)]
  /\ faults \in 0..MaxFaults

Init ==
  /\ recorded = <<>>
  /\ inbox = {}
  /\ unsent = {}
  /\ queue = {}
  /\ dlq = {}
  /\ row = Fresh
  /\ worker = [w \in Workers |-> Idle]
  /\ audit = {}
  /\ rewards = [b \in Beneficiaries |-> 0]
  /\ requests = [b \in Beneficiaries |-> 0]
  /\ rebuild = NotRebuilding
  /\ faults = 0

Faulty == faults < MaxFaults /\ faults' = faults + 1

InPhase(w, phase) == worker[w].phase = phase

GoTo(w, phase) == worker' = [worker EXCEPT ![w].phase = phase]

\* The PostgreSQL row lock an uncommitted UPDATE holds.
RowLocked == \E w \in Workers : InPhase(w, "updated")

-----------------------------------------------------------------------------
(***************************************************************************)
(* Where facts come from: handle_progress_event and ingest_event.          *)
(***************************************************************************)

\* Mutant: the fact is sent on, its INSERT rolled back.
RecordMutant(f) ==
  /\ f \notin Inbound \cup RecordedFacts
  /\ unsent' = unsent \cup {f}
  /\ UNCHANGED <<recorded, inbox, queue, dlq, row, worker, audit, rewards,
                 requests, rebuild, faults>>

(***************************************************************************)
(* INSERT ... ON CONFLICT (dedupe_key) DO NOTHING: a repeated fact changes *)
(* nothing and is not enqueued.  occurred_at is the time the call began,   *)
(* so a fact that is inserted late may come before others in that order.   *)
(***************************************************************************)
Record(f) ==
  /\ f \notin Inbound \cup RecordedFacts
  /\ \E k \in 1..(Len(recorded) + 1) :
       /\ Len(recorded) < k + MaxLate
       /\ recorded' = InsertAt(recorded, k, f)
  /\ unsent' = unsent \cup {f}
  /\ UNCHANGED <<inbox, queue, dlq, row, worker, audit, rewards, requests,
                 rebuild, faults>>

\* The IDS connector has a table of its own, with the same dedupe; its facts
\* are never inserted into referral_progress_events.
Ingest(f) ==
  /\ f \in Inbound \ inbox
  /\ inbox' = inbox \cup {f}
  /\ unsent' = unsent \cup {f}
  /\ UNCHANGED <<recorded, queue, dlq, row, worker, audit, rewards,
                 requests, rebuild, faults>>

Enqueue(f) ==
  /\ f \in unsent
  /\ unsent' = unsent \ {f}
  /\ queue' = queue \cup {f}
  /\ UNCHANGED <<recorded, inbox, dlq, row, worker, audit, rewards,
                 requests, rebuild, faults>>

\* The process dies, or send_message raises, after the INSERT committed.
LoseSend(f) ==
  /\ f \in unsent
  /\ Faulty
  /\ unsent' = unsent \ {f}
  /\ UNCHANGED <<recorded, inbox, queue, dlq, row, worker, audit, rewards,
                 requests, rebuild>>

\* replay_enterprise_event enqueues an inbox row again, whatever its status.
\* A second copy of a message still in the queue is what a redelivery is.
ReplayInbox(f) ==
  /\ f \in inbox \ queue
  /\ queue' = queue \cup {f}
  /\ UNCHANGED <<recorded, inbox, unsent, dlq, row, worker, audit, rewards,
                 requests, rebuild, faults>>

-----------------------------------------------------------------------------
(***************************************************************************)
(* A delivery: handle_referral_progress_recorded.                          *)
(***************************************************************************)

Load(w, f, source) ==
  /\ InPhase(w, "idle")
  /\ worker' = [worker EXCEPT ![w] =
                  [phase |-> "loaded", fact |-> f, source |-> source,
                   before |-> row, todo |-> <<>>]]
  /\ UNCHANGED <<recorded, inbox, unsent, queue, dlq, row, audit, rewards,
                 requests, rebuild, faults>>

\* SQS delivers at least once: a message can be in the hands of several
\* workers until one of them deletes it.
Receive(w, f) == f \in queue /\ Load(w, f, "queue")

\* replay_dlq_event runs the handler on a dead-lettered event.
ReplayDlq(w, f) == f \in dlq /\ Load(w, f, "dlq")

(***************************************************************************)
(* What the handler decides from the row it loaded.  _bind_event_context   *)
(* keeps a referee the row already names, so a self-referring fact is      *)
(* refused or classified; which referee the row names is not modelled.     *)
(***************************************************************************)
Verdicts(w) ==
  {Classify(Journey, worker[w].before, Event(worker[w].fact))}
    \cup (IF worker[w].fact \in SelfReferring
         THEN {"SELF_REFERRAL_NOT_ALLOWED"} ELSE {})

After(w) == Applied(Journey, worker[w].before, Event(worker[w].fact))

\* Mutant: an ignored event leaves no audit.
IgnoreMutant(w) ==
  /\ InPhase(w, "loaded")
  /\ Verdicts(w) # {"valid"}
  /\ GoTo(w, "finished")
  /\ UNCHANGED <<recorded, inbox, unsent, queue, dlq, row, audit, rewards,
                 requests, rebuild, faults>>

Ignore(w) ==
  /\ InPhase(w, "loaded")
  /\ \E verdict \in Verdicts(w) \ {"valid"} :
       audit' = audit \cup {<<worker[w].fact, verdict>>}
  /\ GoTo(w, "finished")
  /\ UNCHANGED <<recorded, inbox, unsent, queue, dlq, row, rewards,
                 requests, rebuild, faults>>

\* UPDATE takes the row lock; the audit row commits on its own connection
\* before the transaction of the UPDATE does.
Update(w) ==
  /\ InPhase(w, "loaded")
  /\ "valid" \in Verdicts(w)
  /\ ~RowLocked
  /\ audit' = audit \cup {<<worker[w].fact, "PROCESSED">>}
  /\ GoTo(w, "updated")
  /\ UNCHANGED <<recorded, inbox, unsent, queue, dlq, row, rewards,
                 requests, rebuild, faults>>

\* Mutant: the last core milestone is enough.
BecameEligibleMutant(w) ==
  /\ worker[w].before.status # Journey.minimum
  /\ After(w).status = Journey.minimum

\* _became_reward_eligible compares the two images this delivery holds.
BecameEligible(w) == ~worker[w].before.complete /\ After(w).complete

\* The whole row is written from the loaded image, whatever it holds now.
Commit(w) ==
  /\ InPhase(w, "updated")
  /\ row' = Persisted(Journey, After(w))
  /\ worker' = IF BecameEligible(w) /\ Instructions # <<>>
               THEN [worker EXCEPT ![w].phase = "issuing",
                                   ![w].todo = Instructions]
               ELSE [worker EXCEPT ![w].phase = "finished"]
  /\ UNCHANGED <<recorded, inbox, unsent, queue, dlq, audit, rewards,
                 requests, rebuild, faults>>

\* Mutant: the loop over the instructions does not notice it is at its end.
NextInstructionMutant(w) ==
  [worker EXCEPT ![w].phase = "issuing", ![w].todo = Tail(@)]

\* Mutant: the loop returns after its first instruction.
FirstInstructionOnly(w) ==
  [worker EXCEPT ![w].phase = "finished", ![w].todo = <<>>]

\* Where a delivery goes once the head of its todo list is dealt with.
NextInstruction(w) ==
  IF Len(worker[w].todo) = 1
  THEN [worker EXCEPT ![w].phase = "finished", ![w].todo = <<>>]
  ELSE [worker EXCEPT ![w].phase = "issuing", ![w].todo = Tail(@)]

\* Mutant: a plain INSERT, with no unique index behind it.
InsertRewardMutant(w) ==
  /\ InPhase(w, "issuing")
  /\ rewards' = [rewards EXCEPT ![Head(worker[w].todo)] = @ + 1]
  /\ GoTo(w, "publishing")
  /\ UNCHANGED <<recorded, inbox, unsent, queue, dlq, row, audit, requests,
                 rebuild, faults>>

(***************************************************************************)
(* apply_reward: INSERT ... ON CONFLICT DO NOTHING against the unique      *)
(* index uq_rewards_base, then, only if a row was inserted, the fulfilment *)
(* request.                                                                *)
(***************************************************************************)
InsertReward(w) ==
  /\ InPhase(w, "issuing")
  /\ \/ /\ rewards[Head(worker[w].todo)] = 0
        /\ rewards' = [rewards EXCEPT ![Head(worker[w].todo)] = @ + 1]
        /\ GoTo(w, "publishing")
     \/ /\ rewards[Head(worker[w].todo)] > 0
        /\ worker' = NextInstruction(w)
        /\ UNCHANGED rewards
  /\ UNCHANGED <<recorded, inbox, unsent, queue, dlq, row, audit, requests,
                 rebuild, faults>>

PublishRequest(w) ==
  /\ InPhase(w, "publishing")
  /\ requests' = [requests EXCEPT ![Head(worker[w].todo)] = @ + 1]
  /\ worker' = NextInstruction(w)
  /\ UNCHANGED <<recorded, inbox, unsent, queue, dlq, row, audit, rewards,
                 rebuild, faults>>

\* An exception while rewards are issued is logged and swallowed.
AbandonRewards(w) ==
  /\ worker[w].phase \in Paying
  /\ Faulty
  /\ worker' = [worker EXCEPT ![w].phase = "finished", ![w].todo = <<>>]
  /\ UNCHANGED <<recorded, inbox, unsent, queue, dlq, row, audit, rewards,
                 requests, rebuild>>

\* An exception before the commit (a query timeout while another delivery
\* holds the row lock, a lost connection) rolls back.  The handler writes a
\* FAILED audit and the worker route publishes to the DLQ, then answers 200;
\* both swallow their own errors, each of which is a further fault.
Fail(w) ==
  /\ worker[w].phase \in {"loaded", "updated"}
  /\ \E audited, published \in BOOLEAN :
       /\ faults' = faults + 1 + (IF audited THEN 0 ELSE 1)
                              + (IF published THEN 0 ELSE 1)
       /\ audit' = IF audited
                   THEN audit \cup {<<worker[w].fact, "FAILED">>} ELSE audit
       /\ dlq' = IF published /\ worker[w].source = "queue"
                 THEN dlq \cup {worker[w].fact} ELSE dlq
  /\ faults' <= MaxFaults
  /\ GoTo(w, "finished")
  /\ UNCHANGED <<recorded, inbox, unsent, queue, row, rewards, requests,
                 rebuild>>

\* Mutant: the answer does not make sqsd delete the message.
AcknowledgeMutant(w) ==
  /\ InPhase(w, "finished")
  /\ worker' = [worker EXCEPT ![w] = Idle]
  /\ UNCHANGED <<recorded, inbox, unsent, queue, dlq, row, audit, rewards,
                 requests, rebuild, faults>>

\* The 200 answer makes sqsd delete the message.
Acknowledge(w) ==
  /\ InPhase(w, "finished")
  /\ queue' = IF worker[w].source = "queue"
              THEN queue \ {worker[w].fact} ELSE queue
  /\ worker' = [worker EXCEPT ![w] = Idle]
  /\ UNCHANGED <<recorded, inbox, unsent, dlq, row, audit, rewards,
                 requests, rebuild, faults>>

\* The process dies: an open transaction rolls back, the message stays.
Crash(w) ==
  /\ ~InPhase(w, "idle")
  /\ Faulty
  /\ worker' = [worker EXCEPT ![w] = Idle]
  /\ UNCHANGED <<recorded, inbox, unsent, queue, dlq, row, audit, rewards,
                 requests, rebuild>>

-----------------------------------------------------------------------------
(***************************************************************************)
(* rebuild_referral_instance(dry_run=False): read the facts, fold the      *)
(* rules over them from a fresh projection, write the result.              *)
(***************************************************************************)

Replayed(facts) == Replay(Journey, [k \in DOMAIN facts |-> Event(facts[k])])

RebuildLoad ==
  /\ ~rebuild.active
  /\ rebuild' = [active |-> TRUE, events |-> recorded]
  /\ UNCHANGED <<recorded, inbox, unsent, queue, dlq, row, worker, audit,
                 rewards, requests, faults>>

RebuildCommit ==
  /\ rebuild.active
  /\ ~RowLocked
  /\ row' = Persisted(Journey, Replayed(rebuild.events))
  /\ rebuild' = NotRebuilding
  /\ UNCHANGED <<recorded, inbox, unsent, queue, dlq, worker, audit,
                 rewards, requests, faults>>

RebuildAbort ==
  /\ rebuild.active
  /\ Faulty
  /\ rebuild' = NotRebuilding
  /\ UNCHANGED <<recorded, inbox, unsent, queue, dlq, row, worker, audit,
                 rewards, requests>>

-----------------------------------------------------------------------------
Api(f) ==
  \/ Record(f)
  \/ Ingest(f)
  \/ Enqueue(f)
  \/ LoseSend(f)
  \/ ReplayInbox(f)

Proceed(w) ==
  \/ Ignore(w)
  \/ Update(w)
  \/ Commit(w)
  \/ InsertReward(w)
  \/ PublishRequest(w)
  \/ Acknowledge(w)

Deliver(w) ==
  \/ \E f \in Facts : Receive(w, f) \/ ReplayDlq(w, f)
  \/ Proceed(w)
  \/ AbandonRewards(w)
  \/ Fail(w)
  \/ Crash(w)

Rebuild == RebuildLoad \/ RebuildCommit \/ RebuildAbort

Traffic == (\E f \in Facts : Api(f)) \/ (\E w \in Workers : Deliver(w))

Next == Traffic \/ Rebuild

Spec == Init /\ [][Next]_vars

(***************************************************************************)
(* SQS keeps offering a message until it is deleted; a handler that runs   *)
(* goes on to its next await; PostgreSQL grants row locks in the order     *)
(* they are asked for.  Nothing makes the API, a fault, an operator's      *)
(* replay or a rebuild happen.                                             *)
(***************************************************************************)
FairTo(facts) ==
  /\ \A f \in facts : SF_vars(\E w \in Workers : Receive(w, f))
  /\ \A w \in Workers : SF_vars(Proceed(w))

Fairness == FairTo(Facts)

-----------------------------------------------------------------------------
(***************************************************************************)
(* Safety.                                                                 *)
(***************************************************************************)

(***************************************************************************)
(* However deliveries, redeliveries and rebuilds overwrite each other, the *)
(* row is one the journey can be in: no milestone without the earlier      *)
(* ones, status and completion those its timestamps imply.                 *)
(***************************************************************************)
RowIsLegal == Coherent(Journey, row)

(***************************************************************************)
(* A beneficiary has one base reward and one fulfilment request at most,   *)
(* with concurrent completions, redeliveries and referrals that complete,  *)
(* are overwritten and complete again.                                     *)
(***************************************************************************)
PaidOnce ==
  \A b \in Beneficiaries : requests[b] <= rewards[b] /\ rewards[b] <= 1

\* The milestones of the facts on record, FUNDED back-filling the activation.
Evidence == UNION {Marked({}, Event(f)) : f \in KnownFacts}

(***************************************************************************)
(* A base reward is backed by facts on record: one for every milestone of  *)
(* the journey and one completion event.                                   *)
(***************************************************************************)
RewardBackedByFacts ==
  (\E b \in Beneficiaries : rewards[b] > 0) =>
    /\ \A m \in Core(Journey) : Journey.rank[m] > 0 => m \in Evidence
    /\ Evidence \cap Journey.completion # {}

(***************************************************************************)
(* Unlocked whole-row writes lose progress: a delivery commits an image    *)
(* older than the row, and a rebuild, with or without a delivery beside    *)
(* it, writes what the facts it has read make in the order of their        *)
(* occurred_at.  What any of them takes away can be handled again: a fact  *)
(* on record leads on from the row that is left.  (Nothing in the code     *)
(* sends that fact again by itself.)                                       *)
(***************************************************************************)
LossIsRecoverable ==
  [][~(row.marks \subseteq row'.marks) =>
       \E f \in KnownFacts : Classify(Journey, row', Event(f)) = "valid"]_row

\* No rebuild is under way, alone or not, and no delivery is about to write an
\* image the committed row has left behind.
Undisturbed ==
  ~rebuild.active /\ \A w \in Workers : InPhase(w, "updated") => worker[w].before = row

(***************************************************************************)
(* Where deliveries do not overlap and no rebuild is under way, the row    *)
(* moves as JourneyReplay lets it: by one fact on record, handled on the   *)
(* row as it is, whatever was redelivered, rolled back or lost on the way. *)
(***************************************************************************)
HandledInSequence ==
  [][Undisturbed => \E f \in KnownFacts :
       row' = Persisted(Journey, Step(Journey, row, Event(f)))]_row

\* Some outcome of the fact is in the audit trail.
Audited(f) == \E o \in Outcomes : <<f, o>> \in audit

(***************************************************************************)
(* A message leaves the queue only when an outcome of it is in the audit   *)
(* trail or the message in the dead letter queue: to lose it silently      *)
(* takes an exception whose FAILED audit and whose DLQ publish both fail.  *)
(***************************************************************************)
DeletedOnlyWithTrace ==
  [][\A f \in queue \ queue' : Audited(f) \/ f \in dlq \/ faults >= 3]_queue

(***************************************************************************)
(* A queued message is handled, whatever a crash does to the delivery that *)
(* holds it: it leaves the queue, with an audit or in the DLQ.             *)
(***************************************************************************)
MessageSettles(f) ==
  f \in queue ~> f \notin queue /\ (Audited(f) \/ f \in dlq \/ faults >= 3)

\* Every beneficiary of the product's policy is rewarded.
Paid ==
  \A k \in DOMAIN Instructions :
    rewards[Instructions[k]] = 1 /\ requests[Instructions[k]] = 1

(***************************************************************************)
(* A completion that starts to pay pays every beneficiary and requests     *)
(* each fulfilment, even if it races another one, unless a fault cuts it   *)
(* short.                                                                  *)
(***************************************************************************)
PayoutFinishes ==
  (\E w \in Workers : worker[w].phase \in Paying) ~> Paid \/ faults > 0

(***************************************************************************)
(* docs/FRONT_TO_BACK_TEST_CASES.md, FTBE-012 "Backward progress does not  *)
(* regress state", "Referral remains `FUNDED`": no event takes a referral  *)
(* out of FUNDED (stated of traffic without a rebuild).                    *)
(***************************************************************************)
FundedStaysFunded ==
  [][row.status = "FUNDED" => row'.status = "FUNDED"]_row

(***************************************************************************)
(* docs/FRONT_TO_BACK_TEST_CASES.md, FTBE-005 "One idempotent reward       *)
(* exists for the referral and beneficiary": a completed referral ends     *)
(* with its rewards (stated of traffic without a rebuild).                 *)
(***************************************************************************)
CompletedIsPaid == row.complete ~> Paid

(***************************************************************************)
(* test/test_replay_service.py:269 test_rebuild_referral_instance_matches_ *)
(* current_state: a rebuild that read every recorded fact of a referral    *)
(* with no message left to process keeps a completed referral completed.   *)
(***************************************************************************)
SettledRebuildKeepsCompletion ==
  [][/\ unsent = {} /\ queue = {} /\ dlq = {}
     /\ \A w \in Workers : InPhase(w, "idle")
     /\ rebuild.events = recorded
     => (row.complete => row'.complete)]_row
=============================================================================
