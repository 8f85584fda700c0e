---------------------------- MODULE JourneyReplay ----------------------------
(***************************************************************************)
(* One referral whose events are handled one after the other, on each of   *)
(* the three journeys: the worker reads the row back from its columns      *)
(* before every event (services/journey_orchestrator.py), a replay keeps   *)
(* the instance in memory from the first event to the last                 *)
(* (services/replay_service.py).                                           *)
(***************************************************************************)
EXTENDS JourneyRules

CONSTANTS
  Journeys,    \* the journeys a referral may be bound to
  MaxEvents    \* bound on the events of a history

ASSUME ReplayAssumption ==
  /\ Journeys \subseteq Defined
  /\ MaxEvents \in Nat

VARIABLES
  journey,      \* the journey the row is bound to
  projection,   \* the referral_instances row
  history       \* the milestones handled, in order

replayVars == <<journey, projection, history>>

\* A row never holds a timestamp the orchestrator does not store.
ReplayTypeOK ==
  /\ journey \in Journeys
  /\ projection \in Instances(journey)
  /\ projection.marks \subseteq journey.stored
  /\ history \in Seq(journey.timed)

ReplayInit ==
  /\ journey \in Journeys
  /\ projection = Fresh
  /\ history = <<>>

\* A valid event rewrites the row; any other leaves it alone.
Process(e) ==
  /\ Len(history) < MaxEvents
  /\ projection' = Persisted(journey, Step(journey, projection, e))
  /\ history' = Append(history, e)
  /\ UNCHANGED journey

ReplayNext == \E e \in journey.timed : Process(e)

ReplaySpec == ReplayInit /\ [][ReplayNext]_replayVars

-----------------------------------------------------------------------------
(***************************************************************************)
(* A replay of the events in the order they were handled reproduces the    *)
(* row, though the worker forgets the columns it does not store between    *)
(* two events and the replay does not.                                     *)
(***************************************************************************)
ReplayMatchesLive == projection = Persisted(journey, Replay(journey, history))

(***************************************************************************)
(* In sequence, no event - late, repeated or out of order - takes the      *)
(* referral back to an earlier milestone or out of completion.             *)
(***************************************************************************)
OnlyForward ==
  [][/\ Rank(journey, projection'.status) >= Rank(journey, projection.status)
     /\ projection.complete => projection'.complete]_replayVars

(***************************************************************************)
(* An event that has been applied, or back-filled, never changes the row   *)
(* again, however late it is repeated and though the row of RetailLoyalty  *)
(* has no column that remembers it.                                        *)
(***************************************************************************)
RepeatIsIgnored ==
  \A e \in Replay(journey, history).marks :
    Persisted(journey, Step(journey, projection, e)) = projection

\* The events handled, with the activation FUNDED back-fills.
Handled ==
  {history[k] : k \in DOMAIN history}
    \cup (IF journey = BankingTransactional THEN {"ACCOUNT_ACTIVATED"} ELSE {})

(***************************************************************************)
(* A completed referral went through every milestone of its journey, also  *)
(* when its row (RetailLoyalty's) keeps no trace of them.                  *)
(***************************************************************************)
CompletedInFull ==
  projection.complete =>
    /\ \A m \in Core(journey) : journey.rank[m] > 0 => m \in Handled
    /\ Handled \cap journey.completion # {}
=============================================================================
