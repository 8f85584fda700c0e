----------------------------- MODULE Settlement -----------------------------
(***************************************************************************)
(* The settlement package (services/fulfilment/settlement): batches of     *)
(* reward settlements with their approvals, and reversals of ledger rows.  *)
(*                                                                         *)
(* No function opens a transaction: asyncpg commits every statement, so a  *)
(* call is a sequence of steps (read the row, write, write again), and     *)
(* calls interleave between them. A call that refuses after its first      *)
(* SELECT writes nothing: it is not begun here.                            *)
(*                                                                         *)
(* Settlement periods are left out. settlement_batches has no period_id    *)
(* column, so _has_batch_period_id answers False and every batch and       *)
(* approval operation skips the period's check; no caller dates a ledger   *)
(* row, so create_settlement_reversal skips it too.                        *)
(***************************************************************************)
EXTENDS Naturals, FiniteSets

CONSTANTS Calls,       \* concurrent API calls
          Batches,     \* ids of batches
          Approvals,   \* ids of approval requests
          BatchOf,     \* the batch an approval request is for
          Reversals,   \* ids of reversal requests
          Rows,        \* fulfilment_settlement_ledger rows
          RowOf,       \* the ledger row a reversal is for
          MaxItems,    \* bound: items added to a batch
          MaxFaults    \* bound: calls that die between two statements

ASSUME BatchOfAssumption == BatchOf \in [Approvals -> Batches]
ASSUME RowOfAssumption == RowOf \in [Reversals -> Rows]
ASSUME CallsAssumption == IsFiniteSet(Calls)
ASSUME BoundsAssumption == MaxItems \in Nat /\ MaxFaults \in Nat
ASSUME IdsAssumption ==
    /\ Batches \cap Approvals = {} /\ Batches \cap Reversals = {}
    /\ Approvals \cap Reversals = {}

VARIABLES batch,        \* settlement_batches: status and total_count
          items,        \* settlement_batch_items per batch: how many ADDED, how many SETTLED
          approval,     \* settlement_approvals: approval_status
          reversal,     \* settlement_reversals: status
          ledger,       \* fulfilment_settlement_ledger: status
          call,         \* what each call has done and read so far
          lost,         \* history: items whose call died before total_count was raised
          overlapped,   \* history: batches that two calls worked on at a time
          undone,       \* history: reversals whose execution wrote its ledger row
          faults        \* calls that died so far

vars == <<batch, items, approval, reversal, ledger, call,
          lost, overlapped, undone, faults>>
tables == <<batch, items, approval, reversal, ledger>>
history == <<lost, overlapped, undone, faults>>

Statuses == {"NONE", "DRAFT", "READY_FOR_APPROVAL", "APPROVED", "PROCESSING", "SETTLED"}
BatchOps == {"add", "submit", "approve", "execute", "request"}
Targets == Batches \cup Approvals \cup Reversals
SettlementStatus == {"PENDING", "PROCESSING", "SETTLED", "FAILED", "REVERSED", "DISPUTED"}
Idle == [at |-> "idle"]

Init == /\ batch = [b \in Batches |-> [status |-> "NONE", total |-> 0]]
        /\ items = [b \in Batches |-> [added |-> 0, settled |-> 0]]
        /\ approval = [a \in Approvals |-> "NONE"]
        /\ reversal = [r \in Reversals |-> "NONE"]
        /\ ledger = [l \in Rows |-> "PENDING"]
        /\ call = [c \in Calls |-> Idle]
        /\ lost = [b \in Batches |-> 0]
        /\ overlapped = {}
        /\ undone = {}
        /\ faults = 0

-----------------------------------------------------------------------------
(* The batch a call works on, if it works on one.                           *)
Concerns(x, b) == x = b \/ (x \in Approvals /\ BatchOf[x] = b)

Busy(x) == \E c \in Calls : call[c].at # "idle" /\ call[c].on = x
Working(b) == {c \in Calls : call[c].at # "idle" /\ Concerns(call[c].on, b)}

(* The first statement of a call: SELECT the row. Two calls look at the     *)
(* status it holds, add and request: they go on if it is the one they need, *)
(* and write whatever it has become.                                        *)
Start(c, op, x) ==
    /\ call[c].at = "idle"
    /\ call' = [call EXCEPT ![c] = [at |-> "read", op |-> op, on |-> x]]
    /\ overlapped' = overlapped \cup {b \in Batches : Concerns(x, b) /\ Working(b) # {}}
    /\ UNCHANGED <<tables, lost, undone, faults>>

CreateBatch(c, b) == batch[b].status = "NONE" /\ ~Busy(b) /\ Start(c, "create", b)

Adding(b) == {c \in Calls : call[c].at = "read" /\ call[c].op = "add" /\ call[c].on = b}
RoomFor(b) == items[b].added + items[b].settled + Cardinality(Adding(b)) < MaxItems

ReadBatch(c, op, b) == /\ batch[b].status # "NONE"
                       /\ op = "add" => batch[b].status = "DRAFT" /\ RoomFor(b)
                       /\ op = "request" => batch[b].status = "READY_FOR_APPROVAL"
                       /\ Start(c, op, b)

ReadApproval(c, op, a) == approval[a] = "PENDING" /\ Start(c, op, a)

CreateReversal(c, r) == reversal[r] = "NONE" /\ ~Busy(r) /\ Start(c, "reverse", r)

-----------------------------------------------------------------------------
(* Writes. Each is one statement; At names the point the call has reached.  *)
At(c, op, at) == call[c].at = at /\ call[c].op = op
Goto(c, at) == call' = [call EXCEPT ![c].at = at]
Return(c) == call' = [call EXCEPT ![c] = Idle]

(* UPDATE ... SET status = to WHERE batch_id = b AND status = from          *)
Advance(b, from, to) ==
    batch' = [batch EXCEPT ![b].status = IF @ = from THEN to ELSE @]

InsertBatch(c) ==
    /\ At(c, "create", "read")
    /\ Advance(call[c].on, "NONE", "DRAFT")
    /\ Return(c)
    /\ UNCHANGED <<items, approval, reversal, ledger, history>>

InsertItem(c) ==
    /\ At(c, "add", "read")
    /\ items' = [items EXCEPT ![call[c].on].added = @ + 1]
    /\ Goto(c, "inserted")
    /\ UNCHANGED <<batch, approval, reversal, ledger, history>>

\* Mutant: the total is written from the image of another statement.
RaiseTotalMutant(c) ==
    /\ At(c, "add", "inserted")
    /\ batch' = [batch EXCEPT ![call[c].on].total = 1]
    /\ Return(c)
    /\ UNCHANGED <<items, approval, reversal, ledger, history>>
RaiseTotal(c) ==
    /\ At(c, "add", "inserted")
    /\ batch' = [batch EXCEPT ![call[c].on].total = @ + 1]
    /\ Return(c)
    /\ UNCHANGED <<items, approval, reversal, ledger, history>>

SubmitBatch(c) ==
    /\ At(c, "submit", "read")
    /\ IF batch[call[c].on].total > 0
         THEN Advance(call[c].on, "DRAFT", "READY_FOR_APPROVAL") ELSE UNCHANGED batch
    /\ Return(c)
    /\ UNCHANGED <<items, approval, reversal, ledger, history>>

\* Mutant: a status the schema does not know.
ApproveBatchMutant(c) ==
    /\ At(c, "approve", "read")
    /\ Advance(call[c].on, "READY_FOR_APPROVAL", "REVIEWED")
    /\ Return(c)
    /\ UNCHANGED <<items, approval, reversal, ledger, history>>
ApproveBatch(c) ==
    /\ At(c, "approve", "read")
    /\ Advance(call[c].on, "READY_FOR_APPROVAL", "APPROVED")
    /\ Return(c)
    /\ UNCHANGED <<items, approval, reversal, ledger, history>>

(* execute_batch: claim the batch, settle its items, close it.              *)
\* Mutant: the claim does not look at the status.
ClaimBatchMutant(c) ==
    /\ At(c, "execute", "read")
    /\ batch' = [batch EXCEPT ![call[c].on].status = "PROCESSING"]
    /\ Goto(c, "claimed")
    /\ UNCHANGED <<items, approval, reversal, ledger, history>>
ClaimBatch(c) ==
    /\ At(c, "execute", "read")
    /\ Advance(call[c].on, "APPROVED", "PROCESSING")
    /\ IF batch[call[c].on].status = "APPROVED" THEN Goto(c, "claimed") ELSE Return(c)
    /\ UNCHANGED <<items, approval, reversal, ledger, history>>

SettleItems(c) ==
    /\ At(c, "execute", "claimed")
    /\ items' = [items EXCEPT ![call[c].on] = [added |-> 0, settled |-> @.added + @.settled]]
    /\ Goto(c, "paid")
    /\ UNCHANGED <<batch, approval, reversal, ledger, history>>

CloseBatch(c) ==
    /\ At(c, "execute", "paid")
    /\ batch' = [batch EXCEPT ![call[c].on].status = "SETTLED"]
    /\ Return(c)
    /\ UNCHANGED <<items, approval, reversal, ledger, history>>

(* request_batch_approval looks for a pending request, then inserts one.    *)
Pending(b) == {a \in Approvals : BatchOf[a] = b /\ approval[a] = "PENDING"}

\* Mutant: a request is inserted without looking for a pending one.
FindPendingMutant(c) ==
    /\ At(c, "request", "read")
    /\ Goto(c, "none")
    /\ UNCHANGED <<tables, history>>
FindPending(c) ==
    /\ At(c, "request", "read")
    /\ IF Pending(call[c].on) # {} THEN Return(c) ELSE Goto(c, "none")
    /\ UNCHANGED <<tables, history>>

InsertApproval(c, a) ==
    /\ At(c, "request", "none")
    /\ BatchOf[a] = call[c].on
    /\ approval[a] = "NONE"
    /\ approval' = [approval EXCEPT ![a] = "PENDING"]
    /\ Return(c)
    /\ UNCHANGED <<batch, items, reversal, ledger, history>>

(* The request is decided under a guard, the batch follows under its own.   *)
Decide(c, op, decision) ==
    /\ At(c, op, "read")
    /\ IF approval[call[c].on] = "PENDING"
         THEN Goto(c, "decided") /\ approval' = [approval EXCEPT ![call[c].on] = decision]
         ELSE Return(c) /\ UNCHANGED approval
    /\ UNCHANGED <<batch, items, reversal, ledger, history>>

GrantRequest(c) == Decide(c, "grant", "APPROVED")
RejectRequest(c) == Decide(c, "reject", "REJECTED")

Follow(c, op, to) ==
    /\ At(c, op, "decided")
    /\ Advance(BatchOf[call[c].on], "READY_FOR_APPROVAL", to)
    /\ Return(c)
    /\ UNCHANGED <<items, approval, reversal, ledger, history>>

ApproveRequested(c) == Follow(c, "grant", "APPROVED")
RejectRequested(c) == Follow(c, "reject", "DRAFT")

-----------------------------------------------------------------------------
(* Reversals: requested, approved under a guard, executed by two UPDATEs    *)
(* without one: the execution trusts the status it read.                    *)
InsertReversal(c) ==
    /\ At(c, "reverse", "read")
    /\ reversal' = [reversal EXCEPT ![call[c].on] = "REQUESTED"]
    /\ Return(c)
    /\ UNCHANGED <<batch, items, approval, ledger, history>>

ApproveReversal(r) ==
    /\ reversal[r] = "REQUESTED"
    /\ reversal' = [reversal EXCEPT ![r] = "APPROVED"]
    /\ UNCHANGED <<batch, items, approval, ledger, call, history>>

\* Mutant: any reversal that was requested can be executed.
ReadReversalMutant(c, r) == reversal[r] # "NONE" /\ Start(c, "undo", r)
ReadReversal(c, r) == reversal[r] = "APPROVED" /\ Start(c, "undo", r)

ReverseRow(c) ==
    /\ At(c, "undo", "read")
    /\ ledger' = [ledger EXCEPT ![RowOf[call[c].on]] = "REVERSED"]
    /\ undone' = undone \cup {call[c].on}
    /\ Goto(c, "reversed")
    /\ UNCHANGED <<batch, items, approval, reversal, lost, overlapped, faults>>

CloseReversal(c) ==
    /\ At(c, "undo", "reversed")
    /\ reversal' = [reversal EXCEPT ![call[c].on] = "EXECUTED"]
    /\ Return(c)
    /\ UNCHANGED <<batch, items, approval, ledger, history>>

(* update_settlement_status, under mark_processing, mark_settled,           *)
(* mark_failed, mark_reversed and mark_disputed: one UPDATE of the ledger   *)
(* row, whatever its status and whatever reversals there are.               *)
UpdateStatus(l, status) ==
    /\ ledger' = [ledger EXCEPT ![l] = status]
    /\ UNCHANGED <<batch, items, approval, reversal, call, history>>

(* The process stops, the client disconnects or a statement fails.          *)
Die(c) ==
    /\ call[c].at # "idle"
    /\ faults < MaxFaults
    /\ faults' = faults + 1
    /\ lost' = IF At(c, "add", "inserted") THEN [lost EXCEPT ![call[c].on] = @ + 1] ELSE lost
    /\ Return(c)
    /\ UNCHANGED <<tables, overlapped, undone>>

-----------------------------------------------------------------------------
Arrive(c) == \/ \E b \in Batches : CreateBatch(c, b) \/ \E op \in BatchOps : ReadBatch(c, op, b)
             \/ \E a \in Approvals : \E op \in {"grant", "reject"} : ReadApproval(c, op, a)
             \/ \E r \in Reversals : CreateReversal(c, r) \/ ReadReversal(c, r)

Step(c) == \/ InsertBatch(c) \/ InsertItem(c) \/ RaiseTotal(c) \/ SubmitBatch(c)
           \/ ApproveBatch(c) \/ ClaimBatch(c) \/ SettleItems(c) \/ CloseBatch(c)
           \/ FindPending(c) \/ \E a \in Approvals : InsertApproval(c, a)
           \/ GrantRequest(c) \/ RejectRequest(c)
           \/ ApproveRequested(c) \/ RejectRequested(c)
           \/ InsertReversal(c) \/ ReverseRow(c) \/ CloseReversal(c)

Next == \/ \E c \in Calls : Arrive(c) \/ Step(c) \/ Die(c)
        \/ \E r \in Reversals : ApproveReversal(r)
        \/ \E l \in Rows, status \in SettlementStatus : UpdateStatus(l, status)

Spec == Init /\ [][Next]_vars
-----------------------------------------------------------------------------
Points == {"read", "inserted", "claimed", "paid", "none", "decided", "reversed"}
Ops == BatchOps \cup {"create", "grant", "reject", "reverse", "undo"}

TypeOK ==
    /\ batch \in [Batches -> [status: Statuses, total: Nat]]
    /\ items \in [Batches -> [added: Nat, settled: Nat]]
    /\ approval \in [Approvals -> {"NONE", "PENDING", "APPROVED", "REJECTED"}]
    /\ reversal \in [Reversals -> {"NONE", "REQUESTED", "APPROVED", "EXECUTED"}]
    /\ ledger \in [Rows -> SettlementStatus]
    /\ call \in [Calls -> {Idle} \cup [at: Points, op: Ops, on: Targets]]
    /\ \A c \in Calls : call[c].at # "idle" =>
          /\ call[c].op \in BatchOps \cup {"create"} => call[c].on \in Batches
          /\ call[c].op \in {"grant", "reject"} => call[c].on \in Approvals
          /\ call[c].op \in {"reverse", "undo"} => call[c].on \in Reversals
    /\ lost \in [Batches -> Nat]
    /\ overlapped \subseteq Batches
    /\ undone \subseteq Reversals
    /\ faults \in 0 .. MaxFaults

(* The batch's total counts its items: the only ones missing are those of   *)
(* calls between their two statements and of calls that died there. The two *)
(* statements of add_settlement_to_batch commit separately, and the status  *)
(* may have left DRAFT since it was read.                                   *)
Inserted(b) == {c \in Calls : At(c, "add", "inserted") /\ call[c].on = b}
TotalsMatch == \A b \in Batches :
    items[b].added + items[b].settled = batch[b].total + lost[b] + Cardinality(Inserted(b))

(* As long as no two calls worked on a batch at a time, nothing is left out *)
(* of a settled batch, one approval request at most waits for it, and a     *)
(* waiting request is never about a batch that went back to DRAFT. The      *)
(* stale images of add and request and the split decisions break each of    *)
(* these once calls overlap.                                                *)
OrderlyAlone == \A b \in Batches \ overlapped :
    /\ batch[b].status = "SETTLED" => items[b].added = 0
    /\ Cardinality(Pending(b)) <= 1
    /\ batch[b].status = "DRAFT" => Pending(b) = {}

(* An execution reverses a ledger row only for a reversal that was approved,*)
(* and a reversal is EXECUTED only after an execution of it has written its *)
(* row, although the execution trusts the status it read, guards neither    *)
(* UPDATE and may die between the two. (This says nothing of the row        *)
(* itself: mark_reversed writes REVERSED with no reversal at all, and       *)
(* mark_settled may undo what an execution wrote.)                          *)
ExecutionsBacked ==
    /\ \A r \in undone : reversal[r] \in {"APPROVED", "EXECUTED"}
    /\ \A r \in Reversals : reversal[r] = "EXECUTED" => r \in undone

(* The statuses and settled items of the batches are those of               *)
(* BatchLifecycle: submission, approval, one execution, settled for good.   *)
Lifecycle == INSTANCE BatchLifecycle WITH
    status <- [b \in Batches |-> batch[b].status],
    settled <- [b \in Batches |-> items[b].settled]
ImplementsLifecycle == Lifecycle!Spec
=============================================================================
