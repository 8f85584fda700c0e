-------------------------- MODULE RewardFulfilment --------------------------
(***************************************************************************)
(* Requests to fulfil rewards, handled by fulfil_reward: its audit row,    *)
(* the hold on the tenant's funding account, the provider and the failure  *)
(* path (services/fulfilment, services/funding, funding_service.py), with  *)
(* the operator's replay (fulfilment_replay_service.py).                   *)
(*                                                                         *)
(* One tenant with one funding account and one active limit.  A step is    *)
(* one committed transaction, with the reads just before it of rows that   *)
(* only this delivery writes (OneDeliveryPerReward).  Sponsor funding is   *)
(* left out: fulfil_reward passes no sponsor_code, which such an account   *)
(* requires.                                                               *)
(***************************************************************************)
EXTENDS Integers, FiniteSetsExt

CONSTANTS
  Workers,      \* deliveries handled at a time
  Rewards,      \* rewards that were applied and ask for their fulfilment
  Keys,         \* idempotency keys
  KeyOf,        \* the key of a reward's own request
  ReplayKeyOf,  \* the key of a replay of it, which names no milestone
  Amount,       \* the amount of a reward
  Deposit,      \* what the account held at first
  Limit,        \* the smallest of the active limits; negative if none is active
  MaxAttempts,  \* the retry policy's max_attempts
  MaxFaults,    \* bound on crashes, failed statements and copied messages
  MaxReplays    \* bound on an operator's replays

ASSUME FulfilmentAssumption ==
  /\ IsFiniteSet(Keys)
  /\ KeyOf \in [Rewards -> Keys] /\ ReplayKeyOf \in [Rewards -> Keys]
  /\ Amount \in [Rewards -> Nat \ {0}]
  /\ Deposit \in Nat /\ Limit \in Int /\ MaxAttempts \in Nat
  /\ MaxFaults \in Nat /\ MaxReplays \in Nat

VARIABLES
  queue,        \* how many messages ask for each request
  step,         \* where each worker is
  request,      \* the request each worker handles
  audit,        \* fulfilment_audit: the row of each key
  account,      \* funding_accounts: the account's balances
  reservation,  \* funding_reservations: the status of each reward's row
  paid,         \* how often the provider was asked, under each key
  dlq,          \* requests published to the dead letter queue
  replaying,    \* replays that read the key's audit row and go on to mark it
  copies, faults, replays   \* counters for the bounds

vars == <<queue, step, request, audit, account, reservation, paid, dlq,
          replaying, copies, faults, replays>>

money == <<account, reservation>>
operatorVars == <<replaying, replays>>
rest == <<copies, faults, operatorVars>>

Requests == [reward : Rewards, replay : BOOLEAN]
NoRequest == [replay |-> FALSE]

\* A replay publishes reward_value 0.0 and no milestone_code.
RequestKey(q) == IF q.replay THEN ReplayKeyOf[q.reward] ELSE KeyOf[q.reward]
RequestAmount(q) == IF q.replay THEN 0 ELSE Amount[q.reward]

Rew(w) == request[w].reward
Key(w) == RequestKey(request[w])

(***************************************************************************)
(*   idle     between two messages                                         *)
(*   check    looks for an audit row with the key                          *)
(*   create   found none; inserts one                                      *)
(*   mark     marks it PROCESSING                                          *)
(*   hold     routes to a provider and reserves funds                      *)
(*   insert   funds are held; inserts the reservation                      *)
(*   pay      asks the provider                                            *)
(*   succeed  marks the audit SUCCESS                                      *)
(*   settle   settles the funds held for the reward                        *)
(*   settled  marks the reservation SETTLED, then records the settlement   *)
(*   release  an exception was raised; releases the funds held             *)
(*   released marks the reservation RELEASED                               *)
(*   count    counts the attempt                                           *)
(*   retry    asks for the fulfilment once more                            *)
(*   fail     marks the audit failed                                       *)
(*   park     the exception left fulfil_reward; the route publishes to the *)
(*            DLQ and answers 200                                          *)
(***************************************************************************)
Before == {"check", "create", "mark"}
Try == {"hold", "insert", "pay", "succeed", "settle", "settled"}
Release == {"release", "released"}
Handler == {"count", "retry", "fail"}
Steps == {"idle", "park"} \cup Before \cup Try \cup Release \cup Handler

\* Workers between the audit row's INSERT and fulfil_reward's last statement.
InFlight(w) == step[w] \in {"mark"} \cup Try \cup Release \cup Handler

Failed == {"FAILED_RETRYABLE", "FAILED_FINAL"}
Statuses == {"PENDING", "PROCESSING", "SUCCESS"} \cup Failed
Audits == [status : Statuses, attempt : Nat, reward : Rewards]
NoAudit == [status |-> "none"]

\* For the account, the CHECKs of funding_accounts (migration 041): were one
\* to fail, the transaction would, which the actions leave out.
TypeOK ==
  /\ queue \in [Requests -> Nat]
  /\ step \in [Workers -> Steps]
  /\ request \in [Workers -> Requests \cup {NoRequest}]
  /\ audit \in [Keys -> Audits \cup {NoAudit}]
  /\ account \in [current : Nat, reserved : Nat, available : Nat]
  /\ account.available = account.current - account.reserved
  /\ reservation \in [Rewards -> {"none", "RESERVED", "RELEASED", "SETTLED"}]
  /\ paid \in [Keys -> Nat]
  /\ dlq \subseteq Requests
  /\ replaying \in [Keys -> Nat]
  /\ copies \in Nat /\ faults \in Nat /\ copies + faults <= MaxFaults
  /\ replays \in 0..MaxReplays
  /\ \A w \in Workers : step[w] # "idle" => request[w] \in Requests
  /\ \A w \in Workers : InFlight(w) => audit[Key(w)] \in Audits

Init ==
  /\ queue = [q \in Requests |-> IF q.replay THEN 0 ELSE 1]
  /\ step = [w \in Workers |-> "idle"]
  /\ request = [w \in Workers |-> NoRequest]
  /\ audit = [k \in Keys |-> NoAudit]
  /\ account = [current |-> Deposit, reserved |-> 0, available |-> Deposit]
  /\ reservation = [r \in Rewards |-> "none"]
  /\ paid = [k \in Keys |-> 0]
  /\ dlq = {}
  /\ replaying = [k \in Keys |-> 0]
  /\ copies = 0 /\ faults = 0 /\ replays = 0

-----------------------------------------------------------------------------
(***************************************************************************)
(* The queue and the worker route.                                         *)
(***************************************************************************)
Goto(w, from, to) == step[w] = from /\ step' = [step EXCEPT ![w] = to]

Sent(q) == [queue EXCEPT ![q] = @ + 1]

CanFault == copies + faults < MaxFaults

\* A message is delivered.  SQS may keep one it should have hidden.
Take(w, q) ==
  /\ queue[q] > 0
  /\ Goto(w, "idle", "check")
  /\ request' = [request EXCEPT ![w] = q]
  /\ \/ queue' = [queue EXCEPT ![q] = @ - 1] /\ UNCHANGED copies
     \/ CanFault /\ copies' = copies + 1 /\ UNCHANGED queue
  /\ UNCHANGED <<audit, money, paid, dlq, faults, operatorVars>>

\* fulfil_reward has returned or raised; answered 200, the message is deleted.
Done(w) ==
  /\ step' = [step EXCEPT ![w] = "idle"]
  /\ request' = [request EXCEPT ![w] = NoRequest]

\* publish_to_dlq swallows its own failure.
PublishToDlq(w) ==
  \/ dlq' = dlq \cup {request[w]} /\ UNCHANGED faults
  \/ CanFault /\ faults' = faults + 1 /\ UNCHANGED dlq

Park(w) ==
  /\ step[w] = "park"
  /\ Done(w)
  /\ PublishToDlq(w)
  /\ UNCHANGED <<queue, audit, money, paid, copies, operatorVars>>

(***************************************************************************)
(* What follows an exception at a step: before the try block and in the    *)
(* handler it leaves fulfil_reward, in the try block the handler begins    *)
(* with the release, and an exception of the release is swallowed.         *)
(***************************************************************************)
AfterRaise(s) ==
  CASE s \in Before \cup Handler -> "park"
    [] s \in Try -> "release"
    [] s \in Release -> "count"

\* A statement fails (or, before the hold, no provider's circuit is closed).
Raise(w) ==
  /\ step[w] \notin {"idle", "park"}
  /\ CanFault /\ faults' = faults + 1
  /\ step' = [step EXCEPT ![w] = AfterRaise(step[w])]
  /\ UNCHANGED <<queue, request, audit, money, paid, dlq, copies, operatorVars>>

\* The process stops; SQS offers the message again.
Crash(w) ==
  /\ step[w] # "idle"
  /\ CanFault /\ faults' = faults + 1
  /\ Done(w)
  /\ queue' = Sent(request[w])
  /\ UNCHANGED <<audit, money, paid, dlq, copies, operatorVars>>

-----------------------------------------------------------------------------
(***************************************************************************)
(* fulfil_reward up to its try block.                                      *)
(***************************************************************************)
\* SKIPPED_DUPLICATE, whatever the status of the row that is there.
Skip(w) ==
  /\ step[w] = "check" /\ audit[Key(w)] # NoAudit
  /\ Done(w)
  /\ UNCHANGED <<queue, audit, money, paid, dlq, rest>>

Check(w) ==
  /\ Goto(w, "check", "create")
  /\ audit[Key(w)] = NoAudit
  /\ UNCHANGED <<queue, request, audit, money, paid, dlq, rest>>

\* Mutant: an idempotency key that is not UNIQUE.
CreateMutant(w) ==
  /\ Goto(w, "create", "mark")
  /\ audit' = [audit EXCEPT ![Key(w)] =
                 [status |-> "PENDING", attempt |-> 1, reward |-> Rew(w)]]
  /\ UNCHANGED <<queue, request, money, paid, dlq, rest>>

Create(w) ==
  /\ Goto(w, "create", "mark")
  /\ audit[Key(w)] = NoAudit
  /\ audit' = [audit EXCEPT ![Key(w)] =
                 [status |-> "PENDING", attempt |-> 1, reward |-> Rew(w)]]
  /\ UNCHANGED <<queue, request, money, paid, dlq, rest>>

\* idempotency_key is UNIQUE: the INSERT of the loser of a race raises.
CreateRefused(w) ==
  /\ Goto(w, "create", "park")
  /\ audit[Key(w)] # NoAudit
  /\ UNCHANGED <<queue, request, audit, money, paid, dlq, rest>>

SetStatus(w, status) == audit' = [audit EXCEPT ![Key(w)].status = status]

MarkProcessing(w) ==
  /\ Goto(w, "mark", "hold")
  /\ SetStatus(w, "PROCESSING")
  /\ UNCHANGED <<queue, request, money, paid, dlq, rest>>

-----------------------------------------------------------------------------
\* Mutant: a reward with a reservation is taken for one that was delivered.
ReserveSkippedMutant(w) ==
  /\ Goto(w, "hold", "settle")
  /\ reservation[Rew(w)] # "none" \/ RequestAmount(request[w]) > Limit
  /\ UNCHANGED <<queue, request, audit, money, paid, dlq, rest>>

(***************************************************************************)
(* reserve_reward_funding.  Its result is not looked at: a reservation of  *)
(* whatever status counts as held, and so does a rejected request.  No     *)
(* code writes funding_exposure, so validate_exposure compares the amount  *)
(* alone with the limits.                                                  *)
(***************************************************************************)
ReserveSkipped(w) ==
  /\ Goto(w, "hold", "pay")
  /\ reservation[Rew(w)] # "none" \/ RequestAmount(request[w]) > Limit
  /\ UNCHANGED <<queue, request, audit, money, paid, dlq, rest>>

Fundable(w) ==
  /\ RequestAmount(request[w]) > 0
  /\ account.available >= RequestAmount(request[w])

ReserveRefused(w) ==
  /\ Goto(w, "hold", "release")
  /\ reservation[Rew(w)] = "none" /\ RequestAmount(request[w]) <= Limit
  /\ ~Fundable(w)
  /\ UNCHANGED <<queue, request, audit, money, paid, dlq, rest>>

ReserveFunds(w) ==
  LET v == RequestAmount(request[w]) IN
  /\ Goto(w, "hold", "insert")
  /\ reservation[Rew(w)] = "none" /\ v <= Limit
  /\ Fundable(w)
  /\ account' = [account EXCEPT !.reserved = @ + v, !.available = @ - v]
  /\ UNCHANGED <<queue, request, audit, reservation, paid, dlq, rest>>

\* reward_id is UNIQUE: were a row there, the INSERT would raise.
InsertReservation(w) ==
  LET new == reservation[Rew(w)] = "none" IN
  /\ Goto(w, "insert", IF new THEN "pay" ELSE "release")
  /\ reservation' = [reservation EXCEPT ![Rew(w)] =
                       IF new THEN "RESERVED" ELSE @]
  /\ UNCHANGED <<queue, request, audit, account, paid, dlq, rest>>

Pay(w) ==
  /\ Goto(w, "pay", "succeed")
  /\ paid' = [paid EXCEPT ![Key(w)] = @ + 1]
  /\ UNCHANGED <<queue, request, audit, money, dlq, rest>>

MarkSuccess(w) ==
  /\ Goto(w, "succeed", "settle")
  /\ SetStatus(w, "SUCCESS")
  /\ UNCHANGED <<queue, request, money, paid, dlq, rest>>

\* Mutant: the reserved balance is not looked at.
CanTakeMutant(w) == reservation[Rew(w)] # "none"

(***************************************************************************)
(* settle_reward_funding and release_reward_funding move the amount of the *)
(* reservation, whatever its status, before they set the status.           *)
(***************************************************************************)
CanTake(w) ==
  reservation[Rew(w)] # "none" /\ account.reserved >= Amount[Rew(w)]

SettleFunds(w) ==
  LET v == Amount[Rew(w)] IN
  /\ Goto(w, "settle", "settled")
  /\ CanTake(w)
  /\ account' = [account EXCEPT !.current = @ - v, !.reserved = @ - v]
  /\ UNCHANGED <<queue, request, audit, reservation, paid, dlq, rest>>

SettleRefused(w) ==
  /\ Goto(w, "settle", "release")
  /\ ~CanTake(w)
  /\ UNCHANGED <<queue, request, audit, money, paid, dlq, rest>>

Marked(w, status) ==
  reservation' = [reservation EXCEPT ![Rew(w)] =
                    IF @ = "RESERVED" THEN status ELSE @]

(***************************************************************************)
(* mark_reservation_settled raises unless the row is RESERVED.  If it is,  *)
(* record_pending_settlement raises next: it casts the reward's id, a      *)
(* BIGSERIAL, to the UUID column fulfilment_settlement_ledger.reward_id.   *)
(***************************************************************************)
MarkSettled(w) ==
  /\ Goto(w, "settled", "release")
  /\ Marked(w, "SETTLED")
  /\ UNCHANGED <<queue, request, audit, account, paid, dlq, rest>>

-----------------------------------------------------------------------------
(***************************************************************************)
(* The exception handler of fulfil_reward.                                 *)
(***************************************************************************)
ReleaseFunds(w) ==
  LET v == Amount[Rew(w)] IN
  /\ Goto(w, "release", "released")
  /\ CanTake(w)
  /\ account' = [account EXCEPT !.reserved = @ - v, !.available = @ + v]
  /\ UNCHANGED <<queue, request, audit, reservation, paid, dlq, rest>>

ReleaseRefused(w) ==
  /\ Goto(w, "release", "count")
  /\ ~CanTake(w)
  /\ UNCHANGED <<queue, request, audit, money, paid, dlq, rest>>

MarkReleased(w) ==
  /\ Goto(w, "released", "count")
  /\ Marked(w, "RELEASED")
  /\ UNCHANGED <<queue, request, audit, account, paid, dlq, rest>>

\* should_retry, without an error code.
Retryable(w) == audit[Key(w)].attempt < MaxAttempts

CountAttempt(w) ==
  /\ Goto(w, "count", IF audit[Key(w)].attempt + 1 < MaxAttempts
                      THEN "retry" ELSE "fail")
  /\ audit' = [audit EXCEPT ![Key(w)].attempt = @ + 1]
  /\ UNCHANGED <<queue, request, money, paid, dlq, rest>>

\* schedule_fulfilment_retry: the same request again, at once.
ScheduleRetry(w) ==
  /\ Goto(w, "retry", "fail")
  /\ queue' = Sent(request[w])
  /\ UNCHANGED <<request, audit, money, paid, dlq, rest>>

\* A final failure goes to the DLQ here, then the exception does once more.
MarkFailed(w) ==
  /\ Goto(w, "fail", "park")
  /\ SetStatus(w, IF Retryable(w) THEN "FAILED_RETRYABLE" ELSE "FAILED_FINAL")
  /\ IF Retryable(w) THEN UNCHANGED <<dlq, faults>> ELSE PublishToDlq(w)
  /\ UNCHANGED <<queue, request, money, paid, copies, operatorVars>>

\* Mutant: only a success is not replayed.
ReadForReplayMutant(k) ==
  /\ audit[k] # NoAudit /\ audit[k].status # "SUCCESS"
  /\ replays < MaxReplays /\ replays' = replays + 1
  /\ replaying' = [replaying EXCEPT ![k] = @ + 1]
  /\ UNCHANGED <<queue, step, request, audit, money, paid, dlq, copies, faults>>

(***************************************************************************)
(* replay_failed_fulfilment of one audit row, started when the row that it *)
(* reads is a failed one.                                                  *)
(***************************************************************************)
ReadForReplay(k) ==
  /\ audit[k].status \in Failed
  /\ replays < MaxReplays /\ replays' = replays + 1
  /\ replaying' = [replaying EXCEPT ![k] = @ + 1]
  /\ UNCHANGED <<queue, step, request, audit, money, paid, dlq, copies, faults>>

\* It marks the row PENDING, whatever became of it since, and publishes the
\* request, unless the process stops in between.
Replay(k) ==
  /\ replaying[k] > 0 /\ replaying' = [replaying EXCEPT ![k] = @ - 1]
  /\ audit' = [audit EXCEPT ![k].status = "PENDING"]
  /\ \/ /\ queue' = Sent([reward |-> audit[k].reward, replay |-> TRUE])
        /\ UNCHANGED faults
     \/ CanFault /\ faults' = faults + 1 /\ UNCHANGED queue
  /\ UNCHANGED <<step, request, money, paid, dlq, copies, replays>>

-----------------------------------------------------------------------------
Fulfil(w) ==
  \/ Skip(w) \/ Check(w) \/ Create(w) \/ CreateRefused(w)
  \/ MarkProcessing(w)
  \/ ReserveSkipped(w) \/ ReserveRefused(w) \/ ReserveFunds(w)
  \/ InsertReservation(w)
  \/ Pay(w) \/ MarkSuccess(w)
  \/ SettleFunds(w) \/ SettleRefused(w) \/ MarkSettled(w)
  \/ ReleaseFunds(w) \/ ReleaseRefused(w) \/ MarkReleased(w)
  \/ CountAttempt(w) \/ ScheduleRetry(w) \/ MarkFailed(w)
  \/ Park(w)

Next ==
  \/ \E w \in Workers, q \in Requests : Take(w, q)
  \/ \E w \in Workers : Fulfil(w) \/ Raise(w) \/ Crash(w)
  \/ \E k \in Keys : ReadForReplay(k) \/ Replay(k)

Spec == Init /\ [][Next]_vars

\* Messages are offered until deleted, and a running handler goes on.
Fairness ==
  \A w \in Workers :
    WF_vars(Fulfil(w) \/ \E q \in Requests : Take(w, q))

FairSpec == Spec /\ Fairness

-----------------------------------------------------------------------------
(***************************************************************************)
(* No two deliveries of one reward are past the INSERT of their audit      *)
(* rows: redeliveries and retries share its key, and a replay, which has   *)
(* another, is only possible once the first has ended.                     *)
(***************************************************************************)
OneDeliveryPerReward ==
  \A v, w \in Workers :
    InFlight(v) /\ InFlight(w) /\ Rew(v) = Rew(w) => v = w

(***************************************************************************)
(* The provider is asked at most once under an idempotency key, however    *)
(* often its request is delivered, retried, replayed or cut short.         *)
(***************************************************************************)
PaidOncePerKey == \A k \in Keys : paid[k] <= 1

(***************************************************************************)
(* Money leaves the account only for deliveries the provider was asked     *)
(* for: what was settled is at most the amounts of the paid requests.      *)
(***************************************************************************)
Owed(k) == IF paid[k] > 0 THEN Amount[audit[k].reward] ELSE 0
OutflowIsPaid ==
  Deposit - account.current <= SumFunction([k \in Keys |-> Owed(k)])

\* A worker has moved the reward's money and not yet its reservation.
Moving(r) ==
  \E w \in Workers : step[w] \in {"settled", "released"} /\ Rew(w) = r

(***************************************************************************)
(* docs/sa/AUDIT_RETRY_POLICY_STANDARD.md:83 "Duplicate release/settle     *)
(* must not double-count available funds or liabilities": the account      *)
(* still reserves what the RESERVED rows say is reserved, but for the      *)
(* reward whose money has just moved and whose row is next.                *)
(***************************************************************************)
ReservationsAreHeld ==
  MapThenSumSet(LAMBDA r : Amount[r],
                {r \in Rewards : reservation[r] = "RESERVED" /\ ~Moving(r)})
    <= account.reserved

\* The audit row of an ended fulfilment, as the documents have it.
Concluded(k) ==
  audit[k].status = IF paid[k] > 0 THEN "SUCCESS" ELSE "FAILED_FINAL"

(***************************************************************************)
(* docs/FRONT_TO_BACK_TEST_CASES.md:50 of a fulfilment that succeeds:      *)
(* "fulfilment_audit records SUCCESS", :71 of a replay: "updates status to *)
(* SUCCESS"; docs/sa/AUDIT_RETRY_POLICY_STANDARD.md:99 of one that fails:  *)
(* "Retry with max attempts and backoff".  So every fulfilment ends with   *)
(* SUCCESS if the provider was asked for it, else its attempts used up.    *)
(***************************************************************************)
FulfilmentConcludes ==
  <>[](\A k \in Keys : audit[k] # NoAudit => Concluded(k))
=============================================================================
