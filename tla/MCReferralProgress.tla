------------------------- MODULE MCReferralProgress -------------------------
(***************************************************************************)
(* TLC instances of ReferralProgress: the histories that complete a        *)
(* banking referral.  The account events come from the API; what a         *)
(* configuration lists as Inbound comes from the IDS connector, where a    *)
(* salary switch is reported as SALARY_DEPOSIT.                            *)
(***************************************************************************)
EXTENDS ReferralProgress, TLC

CONSTANTS captured, opened, activated, funded, salary

ShortestPath == {captured, opened, funded, salary}

FullPath == ShortestPath \cup {activated}

BackwardPath == {captured, opened, activated, funded}

RawOf(facts) ==
  [f \in facts |->
     CASE f = captured  -> "UCN_CAPTURED"
       [] f = opened    -> "ACCOUNT_OPENED"
       [] f = activated -> "ACCOUNT_ACTIVATED"
       [] f = funded    -> "FUNDED"
       [] f = salary    -> IF f \in Inbound THEN "SALARY_DEPOSIT"
                           ELSE "SALARY_SWITCHED"]

ShortestRaw == RawOf(ShortestPath)

FullRaw == RawOf(FullPath)

BackwardRaw == RawOf(BackwardPath)

BothBeneficiaries == <<"REFERRER", "REFEREE">>

WorkerSymmetry == Permutations(Workers)

\* The state Spec reaches when the facts of a history, none of them inbound,
\* have been processed one after the other, deliveries of them have crashed a
\* number of times and nothing else has happened.
StartFrom(history, crashes) ==
  /\ recorded = history
  /\ inbox = {}
  /\ unsent = {}
  /\ queue = {}
  /\ dlq = {}
  /\ row = Persisted(Journey, Replayed(history))
  /\ worker = [w \in Workers |-> Idle]
  /\ audit = {history[k] : k \in DOMAIN history} \X {"PROCESSED"}
  /\ rewards = [b \in Beneficiaries |-> 0]
  /\ requests = [b \in Beneficiaries |-> 0]
  /\ rebuild = NotRebuilding
  /\ faults = crashes

Opened == <<captured, opened>>

Funded == <<captured, opened, funded>>

\* The account is open: two events may come next, and overtake each other.
OpenedSpec == StartFrom(Opened, 0) /\ [][Next]_vars

OpenedTraffic == StartFrom(Opened, 0) /\ [][Traffic]_vars

\* The account is funded: the next fact completes the referral.
FundedSpec == StartFrom(Funded, 0) /\ [][Next]_vars

(***************************************************************************)
(* Both starts: no more faults while two events overtake each other, and   *)
(* every fault around the completion.  The completing event is the one     *)
(* whose settling is checked, so fairness to it is enough.                 *)
(***************************************************************************)
BothStarts == StartFrom(Opened, MaxFaults) \/ StartFrom(Funded, 0)

FairSpec == BothStarts /\ [][Next]_vars /\ FairTo({salary})

CompletionSettles == MessageSettles(salary)

FundedFairTraffic == StartFrom(Funded, 0) /\ [][Traffic]_vars /\ Fairness
=============================================================================
