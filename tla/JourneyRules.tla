---------------------------- MODULE JourneyRules ----------------------------
(***************************************************************************)
(* The referral journeys of services/journey_definitions.py and the pure   *)
(* transition rules of services/journey_orchestrator.py that both the live *)
(* worker and the replay service apply.                                    *)
(*                                                                         *)
(* A referral instance is abstracted to                                    *)
(*    status    the milestone stored in referral_instances.status          *)
(*    marks     the events whose timestamp column is not NULL              *)
(*    complete  is_complete (completed_at is set exactly when it is)       *)
(* The times themselves are not kept: the rules only ask whether a column  *)
(* is NULL.                                                                *)
(***************************************************************************)
EXTENDS Integers, Sequences

(***************************************************************************)
(* A journey: rank is the position of each milestone in core_sequence,     *)
(* next is allowed_transitions, timed is the domain of                     *)
(* event_to_timestamp_field and stored the part of it whose column the     *)
(* orchestrator's SELECT and UPDATE list.  The transition from None is     *)
(* left out: validate_referral_code inserts every instance as VALIDATED.   *)
(***************************************************************************)
SideEvents ==
  {"DEBIT_ORDER_SWITCHED", "SALARY_SWITCHED", "FIRST_TRANSACTION_COMPLETED"}

NoMilestone == "none"

BankingTransactional ==
  [rank |-> [VALIDATED |-> 0, UCN_CAPTURED |-> 1, ACCOUNT_OPENED |-> 2,
             ACCOUNT_ACTIVATED |-> 3, FUNDED |-> 4],
   next |-> [VALIDATED |-> {"UCN_CAPTURED"},
             UCN_CAPTURED |-> {"ACCOUNT_OPENED"},
             ACCOUNT_OPENED |-> {"ACCOUNT_ACTIVATED", "FUNDED"},
             ACCOUNT_ACTIVATED |-> {"FUNDED"},
             FUNDED |-> SideEvents],
   timed |-> {"UCN_CAPTURED", "ACCOUNT_OPENED", "ACCOUNT_ACTIVATED", "FUNDED"}
               \cup SideEvents,
   stored |-> {"UCN_CAPTURED", "ACCOUNT_OPENED", "ACCOUNT_ACTIVATED", "FUNDED"}
               \cup SideEvents,
   completion |-> SideEvents,
   minimum |-> "FUNDED"]

InsurancePolicy ==
  [rank |-> [VALIDATED |-> 0, QUOTE_REQUESTED |-> 1, QUOTE_ACCEPTED |-> 2,
             POLICY_ISSUED |-> 3, FIRST_PREMIUM_PAID |-> 4],
   next |-> [VALIDATED |-> {"QUOTE_REQUESTED"},
             QUOTE_REQUESTED |-> {"QUOTE_ACCEPTED"},
             QUOTE_ACCEPTED |-> {"POLICY_ISSUED"},
             POLICY_ISSUED |-> {"FIRST_PREMIUM_PAID"}],
   timed |-> {"QUOTE_REQUESTED", "QUOTE_ACCEPTED", "POLICY_ISSUED",
              "FIRST_PREMIUM_PAID"},
   stored |-> {"QUOTE_REQUESTED", "QUOTE_ACCEPTED", "POLICY_ISSUED",
               "FIRST_PREMIUM_PAID"},
   completion |-> {"FIRST_PREMIUM_PAID"},
   minimum |-> NoMilestone]

\* None of this journey's timestamp columns is read or written by the
\* orchestrator: only its status survives from one event to the next.
RetailLoyalty ==
  [rank |-> [VALIDATED |-> 0, BASKET_CREATED |-> 1, ORDER_PLACED |-> 2,
             FIRST_PURCHASE_COMPLETED |-> 3],
   next |-> [VALIDATED |-> {"BASKET_CREATED"},
             BASKET_CREATED |-> {"ORDER_PLACED"},
             ORDER_PLACED |-> {"FIRST_PURCHASE_COMPLETED"}],
   timed |-> {"BASKET_CREATED", "ORDER_PLACED", "FIRST_PURCHASE_COMPLETED"},
   stored |-> {},
   completion |-> {"FIRST_PURCHASE_COMPLETED"},
   minimum |-> NoMilestone]

\* The journeys whose every timestamp survives in the row.
Persistent == {BankingTransactional, InsurancePolicy}

\* JOURNEY_DEFINITIONS.
Defined == Persistent \cup {RetailLoyalty}

\* EVENT_TYPE_MAPPING: the raw event types that are renamed; every other
\* type is its own milestone.
Normalized(raw) ==
  CASE raw = "REFEREE_UCN_CAPTURED" -> "UCN_CAPTURED"
    [] raw = "UCN_CREATED"          -> "ACCOUNT_OPENED"
    [] raw = "ACCOUNT_FUNDED"       -> "FUNDED"
    [] OTHER                        -> raw

\* IDS_PROGRESS_EVENT_MAPPING: what the IDS connector makes of the types it
\* renames.
Routed(raw) ==
  CASE raw = "SALARY_DEPOSIT"   -> "SALARY_SWITCHED"
    [] raw = "POLICY_ACTIVATED" -> "POLICY_ISSUED"
    [] raw = "QUOTE_CREATED"    -> "QUOTE_REQUESTED"
    [] OTHER                    -> raw

Core(j) == DOMAIN j.rank

Instances(j) ==
  [status : Core(j), marks : SUBSET j.timed, complete : BOOLEAN]

\* -1 stands for a status or an event outside core_sequence.
Rank(j, m) == IF m \in Core(j) THEN j.rank[m] ELSE -1

Allowed(j, m) == IF m \in DOMAIN j.next THEN j.next[m] ELSE {}

\* Mutant: a core event is taken whenever it is ahead of the row.
ClassifyMutant(j, i, e) ==
  IF e \in j.timed \cap i.marks THEN "duplicate"
  ELSE IF \/ Rank(j, e) > Rank(j, i.status)
          \/ e \in j.completion \ Core(j) /\ i.status = j.minimum
       THEN "valid" ELSE "out_of_order"

(***************************************************************************)
(* _classify_transition, in the order of its returns: several of the       *)
(* conditions may hold, and the first that does decides.                   *)
(***************************************************************************)
Classify(j, i, e) ==
  LET in == Rank(j, e)
      at == Rank(j, i.status)
      side == e \in j.completion \ Core(j)
  IN IF e \in j.timed \cap i.marks                    THEN "duplicate"
     ELSE IF \/ e \in Allowed(j, i.status)
             \/ side /\ i.status = j.minimum          THEN "valid"
     ELSE IF side /\ at >= 0                          THEN "out_of_order"
     ELSE IF in >= 0 /\ at >= 0 /\ in < at            THEN "backward"
     ELSE IF in >= 0 /\ (at = -1 \/ in > at)          THEN "out_of_order"
     ELSE "invalid"

\* Mutant: only the column of the incoming event survives.
MarkedMutant(marks, e) == {e}

\* _apply_event_fields.  FUNDED also fills a missing account_activated_at.
\* Every valid event of the three journeys has a timestamp field, so the
\* function's fallback for events without one is never taken.
Marked(marks, e) ==
  marks \cup {e} \cup (IF e = "FUNDED" THEN {"ACCOUNT_ACTIVATED"} ELSE {})

\* _derive_current_milestone: the highest core milestone with a timestamp.
Milestone(j, marks) ==
  CHOOSE m \in Core(j) :
    /\ m \in marks \/ (j.rank[m] = 0 /\ marks \cap Core(j) = {})
    /\ \A n \in marks \cap Core(j) : j.rank[n] <= j.rank[m]

\* Mutant: every milestone must have its timestamp.
CompletedMutant(j, marks) ==
  /\ \A m \in Core(j) : j.rank[m] > 0 => m \in marks
  /\ marks \cap j.completion # {}

\* _derive_completion.
Completed(j, marks) ==
  /\ j.minimum = NoMilestone \/ j.minimum \in marks
  /\ marks \cap j.completion # {}

\* The instance referral_code.py inserts and _reset_instance_projection
\* returns to.
Fresh == [status |-> "VALIDATED", marks |-> {}, complete |-> FALSE]

\* What a valid event makes of an instance.
Applied(j, i, e) ==
  LET marks == Marked(i.marks, e)
  IN [status |-> Milestone(j, marks), marks |-> marks,
      complete |-> Completed(j, marks)]

\* apply_progress_event_to_instance: the in-memory effect of one event.
Step(j, i, e) == IF Classify(j, i, e) = "valid" THEN Applied(j, i, e) ELSE i

\* The replay service's loop over the events, from a reset projection.
Replay(j, events) ==
  LET image[k \in 0..Len(events)] ==
        IF k = 0 THEN Fresh ELSE Step(j, image[k - 1], events[k])
  IN image[Len(events)]

\* Mutant: an UPDATE that writes every timestamp.
PersistedMutant(j, i) == i

(***************************************************************************)
(* The columns an UPDATE of referral_instances writes.  Migrations 016 and *)
(* 017 restrict status and event_type to the banking values, COMPLETED and *)
(* CANCELLED, so a database with these CHECKs refuses to store what an     *)
(* insurance or retail referral is between its start and its completion.   *)
(* That failure is left out: those journeys are modelled as the code       *)
(* handles them where the statuses can be stored.                          *)
(***************************************************************************)
Persisted(j, i) ==
  [status |-> i.status, marks |-> i.marks \cap j.stored,
   complete |-> i.complete]

(***************************************************************************)
(* The instances a journey can have: a core milestone comes with every     *)
(* earlier one and a side event with the milestone completion requires;    *)
(* status and completion are what the marks imply.                         *)
(***************************************************************************)
Legal(j, marks) ==
  /\ \A m \in marks \cap Core(j), n \in Core(j) :
       0 < j.rank[n] /\ j.rank[n] < j.rank[m] => n \in marks
  /\ marks \ Core(j) # {} => j.minimum \in marks

Coherent(j, i) ==
  /\ Legal(j, i.marks)
  /\ i.status = Milestone(j, i.marks)
  /\ i.complete = Completed(j, i.marks)
=============================================================================
