---------------------------- MODULE DeliveryPool ----------------------------
(***************************************************************************)
(* The connections concurrent deliveries take from the process's asyncpg   *)
(* pool (utils/db.py) while handle_referral_progress_recorded runs.        *)
(*                                                                         *)
(* A delivery keeps one connection for the transaction on the referral and *)
(* takes a second for write_processing_audit before it returns the first.  *)
(* pool.acquire has no timeout; a statement has (command_timeout).  What   *)
(* ReferralProgress says about rows and facts is left out here; what is    *)
(* kept is the order in which connections and row locks are taken.         *)
(***************************************************************************)
EXTENDS Integers, FiniteSets

CONSTANTS
  Deliveries,   \* the requests the worker process handles at a time
  Referral,     \* the referral each of them is about
  PoolSize      \* max_size of the pool

ASSUME PoolAssumption ==
  /\ IsFiniteSet(Deliveries)
  /\ DOMAIN Referral = Deliveries
  /\ PoolSize \in Nat

VARIABLES
  stage,    \* where each delivery is
  writes    \* the deliveries whose event is valid: they update the row

poolVars == <<stage, writes>>

(***************************************************************************)
(*   idle       between two messages                                       *)
(*   arrived    waits for the connection of its transaction                *)
(*   open       has it; loads the row, decides, and may wait for the row   *)
(*   decided    has updated the row or ignored the event; waits for a      *)
(*              second connection to write the audit                       *)
(*   auditing   writes the audit                                           *)
(*   closing    has returned the second connection; about to commit        *)
(*   failed     rolled back; waits for a connection for the FAILED audit   *)
(*   reporting  writes the FAILED audit                                    *)
(***************************************************************************)
Stages == {"idle", "arrived", "open", "decided", "auditing", "closing",
           "failed", "reporting"}

In(stages) == {d \in Deliveries : stage[d] \in stages}

\* Connections taken: one for a transaction or a FAILED audit, two while the
\* audit of an open transaction is written.
Conns ==
  Cardinality(In({"open", "decided", "auditing", "closing", "reporting"}))
    + Cardinality(In({"auditing"}))

PoolTypeOK ==
  /\ stage \in [Deliveries -> Stages]
  /\ writes \subseteq Deliveries
  /\ Conns <= PoolSize

PoolInit ==
  /\ stage = [d \in Deliveries |-> "idle"]
  /\ writes = {}

Move(d, from, to) == stage[d] = from /\ stage' = [stage EXCEPT ![d] = to]

\* Mutant: a pool that overshoots by one.
CanAcquireOneMore == Conns <= PoolSize

\* Mutant: a pool that keeps one connection back.
CanAcquireOneLess == Conns + 1 < PoolSize

CanAcquire == Conns < PoolSize

\* The row lock an updated, uncommitted row holds.
HasLock(d) == d \in writes /\ stage[d] \in {"decided", "auditing", "closing"}

RowFree(d) ==
  \A e \in Deliveries \ {d} : Referral[e] = Referral[d] => ~HasLock(e)

Arrive(d) == Move(d, "idle", "arrived") /\ UNCHANGED writes

Open(d) == CanAcquire /\ Move(d, "arrived", "open") /\ UNCHANGED writes

\* A duplicate, backward, out-of-order, invalid or self-referring event.
IgnoreEvent(d) == Move(d, "open", "decided") /\ writes' = writes \ {d}

UpdateRow(d) ==
  /\ RowFree(d)
  /\ Move(d, "open", "decided")
  /\ writes' = writes \cup {d}

\* command_timeout while another delivery holds the row lock.
TimeOut(d) ==
  /\ ~RowFree(d)
  /\ Move(d, "open", "failed")
  /\ writes' = writes \ {d}

OpenAudit(d) ==
  CanAcquire /\ Move(d, "decided", "auditing") /\ UNCHANGED writes

CloseAudit(d) == Move(d, "auditing", "closing") /\ UNCHANGED writes

Close(d) == Move(d, "closing", "idle") /\ UNCHANGED writes

OpenReport(d) ==
  CanAcquire /\ Move(d, "failed", "reporting") /\ UNCHANGED writes

CloseReport(d) == Move(d, "reporting", "idle") /\ UNCHANGED writes

Handle(d) ==
  \/ Open(d)
  \/ IgnoreEvent(d)
  \/ UpdateRow(d)
  \/ TimeOut(d)
  \/ OpenAudit(d)
  \/ CloseAudit(d)
  \/ Close(d)
  \/ OpenReport(d)
  \/ CloseReport(d)

PoolNext == \E d \in Deliveries : Arrive(d) \/ Handle(d)

PoolSpec == PoolInit /\ [][PoolNext]_poolVars

\* The pool's waiters and a row's waiters are served in the order they asked.
PoolFairness == \A d \in Deliveries : SF_poolVars(Handle(d))

PoolFairSpec == PoolSpec /\ PoolFairness

-----------------------------------------------------------------------------
(***************************************************************************)
(* Deliveries that wait for a connection can be given one, or one of those *)
(* that hold connections is not itself waiting for another.                *)
(***************************************************************************)
NoPoolDeadlock ==
  CanAcquire \/ In({"open", "auditing", "closing", "reporting"}) # {}

(***************************************************************************)
(* docs/sa/AUDIT_RETRY_POLICY_STANDARD.md:127 "Must record accepted,       *)
(* queued, duplicate, ignored, failed, and replayed outcomes": every       *)
(* delivery that begins ends, and every way to end writes an audit.        *)
(***************************************************************************)
EveryDeliveryIsAudited ==
  \A d \in Deliveries :
    stage[d] = "arrived" ~> stage[d] \in {"closing", "reporting"}
=============================================================================
