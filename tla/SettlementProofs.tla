-------------------------- MODULE SettlementProofs --------------------------
(***************************************************************************)
(* Proofs about Settlement: types, one executor per batch, the refinement  *)
(* of BatchLifecycle, what two calls make of a batch one after the other,  *)
(* and executed reversals, for any number of calls, batches and requests.  *)
(***************************************************************************)
EXTENDS Settlement, FiniteSetTheorems, TLAPS

CallRecord == [at: Points, op: Ops, on: Targets]

(* The part of TypeOK about the calls.                                      *)
CallsTyped ==
    /\ call \in [Calls -> {Idle} \cup CallRecord]
    /\ \A c \in Calls : call[c].at # "idle" =>
          /\ call[c].op \in BatchOps \cup {"create"} => call[c].on \in Batches
          /\ call[c].op \in {"grant", "reject"} => call[c].on \in Approvals
          /\ call[c].op \in {"reverse", "undo"} => call[c].on \in Reversals

(* A call that is running has a whole record.                               *)
LEMMA Running ==
    ASSUME CallsTyped, NEW c \in Calls, call[c].at # "idle"
    PROVE  call[c] \in CallRecord
BY DEF CallsTyped, Idle

LEMMA StartTyped ==
    ASSUME CallsTyped, NEW c \in Calls, NEW op \in Ops, NEW x \in Targets,
           Start(c, op, x),
           op \in BatchOps \cup {"create"} => x \in Batches,
           op \in {"grant", "reject"} => x \in Approvals,
           op \in {"reverse", "undo"} => x \in Reversals
    PROVE  CallsTyped'
<1> DEFINE k == [at |-> "read", op |-> op, on |-> x]
<1>1. k \in CallRecord
  BY DEF CallRecord, Points
<1>2. call' = [call EXCEPT ![c] = k]
  BY DEF Start
<1> HIDE DEF k
<1>3. call' \in [Calls -> {Idle} \cup CallRecord]
  BY <1>1, <1>2 DEF CallsTyped
<1>4. k.op = op /\ k.on = x
  BY DEF k
<1>5. ASSUME NEW d \in Calls, call'[d].at # "idle"
      PROVE  /\ call'[d].op \in BatchOps \cup {"create"} => call'[d].on \in Batches
             /\ call'[d].op \in {"grant", "reject"} => call'[d].on \in Approvals
             /\ call'[d].op \in {"reverse", "undo"} => call'[d].on \in Reversals
  <2>1. CASE d = c
    <3>1. call'[d] = k
      BY <2>1, <1>2 DEF CallsTyped
    <3> QED BY <3>1, <1>4
  <2>2. CASE d # c
    <3>1. call'[d] = call[d]
      BY <2>2, <1>2 DEF CallsTyped
    <3> QED BY <3>1, <1>5 DEF CallsTyped
  <2> QED BY <2>1, <2>2
<1> QED BY <1>3, <1>5 DEF CallsTyped

LEMMA GotoTyped ==
    ASSUME CallsTyped, NEW c \in Calls, call[c].at # "idle", NEW p \in Points, Goto(c, p)
    PROVE  CallsTyped'
<1> DEFINE k == [call[c] EXCEPT !.at = p]
<1>1. call[c] \in CallRecord
  BY Running
<1>2. k \in CallRecord /\ k.op = call[c].op /\ k.on = call[c].on
  BY <1>1 DEF CallRecord
<1>3. call' = [call EXCEPT ![c] = k]
  BY DEF Goto
<1> HIDE DEF k
<1>4. call' \in [Calls -> {Idle} \cup CallRecord]
  BY <1>2, <1>3 DEF CallsTyped
<1>5. \A d \in Calls : call'[d] = IF d = c THEN k ELSE call[d]
  BY <1>3 DEF CallsTyped
<1> QED BY <1>2, <1>4, <1>5 DEF CallsTyped

LEMMA ReturnTyped ==
    ASSUME CallsTyped, NEW c \in Calls, Return(c)
    PROVE  CallsTyped'
<1>1. call' = [call EXCEPT ![c] = Idle]
  BY DEF Return
<1>2. call' \in [Calls -> {Idle} \cup CallRecord]
  BY <1>1 DEF CallsTyped
<1>3. \A d \in Calls : call'[d] = IF d = c THEN Idle ELSE call[d]
  BY <1>1 DEF CallsTyped
<1> QED BY <1>2, <1>3 DEF CallsTyped, Idle

(* An UPDATE guarded by a status moves the row or leaves it alone.          *)
LEMMA AdvanceTyped ==
    ASSUME TypeOK, NEW b \in Batches, NEW from \in Statuses, NEW to \in Statuses,
           Advance(b, from, to)
    PROVE  /\ batch' \in [Batches -> [status: Statuses, total: Nat]]
           /\ \A d \in Batches : batch'[d].total = batch[d].total
           /\ \A d \in Batches \ {b} : batch'[d].status = batch[d].status
           /\ batch'[b].status = IF batch[b].status = from THEN to ELSE batch[b].status
BY DEF TypeOK, Advance

TablesTyped ==
    /\ batch \in [Batches -> [status: Statuses, total: Nat]]
    /\ items \in [Batches -> [added: Nat, settled: Nat]]
    /\ approval \in [Approvals -> {"NONE", "PENDING", "APPROVED", "REJECTED"}]
    /\ reversal \in [Reversals -> {"NONE", "REQUESTED", "APPROVED", "EXECUTED"}]
    /\ ledger \in [Rows -> SettlementStatus]

HistoryTyped ==
    /\ lost \in [Batches -> Nat]
    /\ overlapped \subseteq Batches
    /\ undone \subseteq Reversals
    /\ faults \in 0 .. MaxFaults

LEMMA TypeParts == TypeOK <=> CallsTyped /\ TablesTyped /\ HistoryTyped
BY DEF TypeOK, CallsTyped, CallRecord, TablesTyped, HistoryTyped

LEMMA ArriveTyped ==
    ASSUME TypeOK, NEW c \in Calls, Arrive(c)
    PROVE  TypeOK'
<1>0. CallsTyped /\ TablesTyped /\ HistoryTyped
  BY TypeParts
<1>1. SUFFICES CallsTyped' /\ TablesTyped' /\ HistoryTyped'
  BY TypeParts, PTL
<1>2. ASSUME NEW op \in Ops, NEW x \in Targets, Start(c, op, x)
      PROVE  TablesTyped' /\ HistoryTyped'
  BY <1>0, <1>2 DEF Start, tables, TablesTyped, HistoryTyped
<1>3. ASSUME NEW b \in Batches, CreateBatch(c, b)
      PROVE  CallsTyped' /\ TablesTyped' /\ HistoryTyped'
  <2>1. Start(c, "create", b)
    BY <1>3 DEF CreateBatch
  <2>2. "create" \in Ops /\ b \in Targets
    BY DEF Ops, Targets
  <2> QED BY <2>1, <2>2, <1>0, <1>2, StartTyped
<1>4. ASSUME NEW b \in Batches, NEW op \in BatchOps, ReadBatch(c, op, b)
      PROVE  CallsTyped' /\ TablesTyped' /\ HistoryTyped'
  <2>1. Start(c, op, b)
    BY <1>4 DEF ReadBatch
  <2>2. op \in Ops /\ b \in Targets
    BY DEF Ops, Targets
  <2>3. op \notin {"grant", "reject", "reverse", "undo"}
    BY DEF BatchOps
  <2> QED BY <2>1, <2>2, <2>3, <1>0, <1>2, StartTyped
<1>5. ASSUME NEW a \in Approvals, NEW op \in {"grant", "reject"}, ReadApproval(c, op, a)
      PROVE  CallsTyped' /\ TablesTyped' /\ HistoryTyped'
  <2>1. Start(c, op, a)
    BY <1>5 DEF ReadApproval
  <2>2. op \in Ops /\ a \in Targets
    BY DEF Ops, Targets
  <2>3. op \notin BatchOps \cup {"create", "reverse", "undo"}
    BY DEF BatchOps
  <2> QED BY <2>1, <2>2, <2>3, <1>0, <1>2, StartTyped
<1>6. ASSUME NEW r \in Reversals, CreateReversal(c, r) \/ ReadReversal(c, r)
      PROVE  CallsTyped' /\ TablesTyped' /\ HistoryTyped'
  <2>1. Start(c, "reverse", r) \/ Start(c, "undo", r)
    BY <1>6 DEF CreateReversal, ReadReversal
  <2>2. {"reverse", "undo"} \subseteq Ops /\ r \in Targets
    BY DEF Ops, Targets
  <2>3. \A op \in {"reverse", "undo"} :
           op \notin BatchOps \cup {"create", "grant", "reject"}
    BY DEF BatchOps
  <2> QED BY <2>1, <2>2, <2>3, <1>0, <1>2, StartTyped
<1> QED BY <1>3, <1>4, <1>5, <1>6 DEF Arrive

LEMMA StepTyped ==
    ASSUME TypeOK, NEW c \in Calls, Step(c)
    PROVE  TypeOK'
<1>0. CallsTyped /\ TablesTyped /\ HistoryTyped
  BY TypeParts
<1>1. SUFFICES CallsTyped' /\ TablesTyped' /\ HistoryTyped'
  BY TypeParts, PTL
<1> USE <1>0
<1>2. call[c].at # "idle"
  BY DEF Step, At, InsertBatch, InsertItem, RaiseTotal, SubmitBatch, ApproveBatch,
         ClaimBatch, SettleItems, CloseBatch, FindPending, InsertApproval, GrantRequest,
         RejectRequest, Decide, ApproveRequested, RejectRequested, Follow, InsertReversal,
         ReverseRow, CloseReversal
<1>3. \A op \in Ops, at \in Points : At(c, op, at) =>
          /\ op \in BatchOps \cup {"create"} => call[c].on \in Batches
          /\ op \in {"grant", "reject"} => call[c].on \in Approvals
          /\ op \in {"reverse", "undo"} => call[c].on \in Reversals
  BY <1>2 DEF CallsTyped, At
<1>4. HistoryTyped' /\ CallsTyped'
  <2>1. CallsTyped'
    <3>1. (\E p \in Points : Goto(c, p)) \/ Return(c)
      BY DEF Step, InsertBatch, InsertItem, RaiseTotal, SubmitBatch, ApproveBatch,
         ClaimBatch, SettleItems, CloseBatch, FindPending, InsertApproval, GrantRequest,
         RejectRequest, Decide, ApproveRequested, RejectRequested, Follow, InsertReversal,
         ReverseRow, CloseReversal, Points, Goto, Return
    <3> QED BY <3>1, <1>2, GotoTyped, ReturnTyped
  <2>2. HistoryTyped'
    <3>1. CASE ReverseRow(c)
      <4>1. call[c].on \in Reversals
        BY <3>1, <1>3 DEF ReverseRow, Points, Ops
      <4> QED BY <3>1, <4>1 DEF ReverseRow, HistoryTyped
    <3>2. CASE ~ReverseRow(c)
      BY <3>2 DEF Step, InsertBatch, InsertItem, RaiseTotal, SubmitBatch, ApproveBatch,
         ClaimBatch, SettleItems, CloseBatch, FindPending, InsertApproval, GrantRequest,
         RejectRequest, Decide, ApproveRequested, RejectRequested, Follow, InsertReversal,
         CloseReversal, HistoryTyped, history
    <3> QED BY <3>1, <3>2
  <2> QED BY <2>1, <2>2
<1>5. TablesTyped'
  <2>1. CASE FindPending(c)
    BY <2>1 DEF FindPending, tables, TablesTyped
  <2>2. CASE InsertBatch(c)
    <3>1. call[c].on \in Batches
      BY <2>2, <1>3 DEF InsertBatch, Points, Ops
    <3> QED BY <2>2, <3>1, AdvanceTyped DEF InsertBatch, Statuses, TablesTyped
  <2>3. CASE InsertItem(c)
    <3>1. call[c].on \in Batches
      BY <2>3, <1>3 DEF InsertItem, Points, Ops, BatchOps
    <3>2. items'[call[c].on] = [items[call[c].on] EXCEPT !.added = @ + 1]
      BY <2>3, <3>1 DEF InsertItem, TablesTyped
    <3> QED BY <2>3, <3>1 DEF InsertItem, TablesTyped
  <2>4. CASE RaiseTotal(c)
    <3>1. call[c].on \in Batches
      BY <2>4, <1>3 DEF RaiseTotal, Points, Ops, BatchOps
    <3> QED BY <2>4, <3>1 DEF RaiseTotal, TablesTyped
  <2>5. CASE SubmitBatch(c)
    <3>1. call[c].on \in Batches
      BY <2>5, <1>3 DEF SubmitBatch, Points, Ops, BatchOps
    <3> QED BY <2>5, <3>1, AdvanceTyped DEF SubmitBatch, Statuses, TablesTyped
  <2>6. CASE ApproveBatch(c)
    <3>1. call[c].on \in Batches
      BY <2>6, <1>3 DEF ApproveBatch, Points, Ops, BatchOps
    <3> QED BY <2>6, <3>1, AdvanceTyped DEF ApproveBatch, Statuses, TablesTyped
  <2>7. CASE ClaimBatch(c)
    <3>1. call[c].on \in Batches
      BY <2>7, <1>3 DEF ClaimBatch, Points, Ops, BatchOps
    <3> QED BY <2>7, <3>1, AdvanceTyped DEF ClaimBatch, Statuses, TablesTyped
  <2>8. CASE SettleItems(c)
    <3>1. call[c].on \in Batches
      BY <2>8, <1>3 DEF SettleItems, Points, Ops, BatchOps
    <3>2. [added |-> 0, settled |-> items[call[c].on].added + items[call[c].on].settled]
             \in [added: Nat, settled: Nat]
      BY <3>1 DEF TablesTyped
    <3> QED BY <2>8, <3>1, <3>2 DEF SettleItems, TablesTyped
  <2>9. CASE CloseBatch(c)
    <3>1. call[c].on \in Batches
      BY <2>9, <1>3 DEF CloseBatch, Points, Ops, BatchOps
    <3> QED BY <2>9, <3>1 DEF CloseBatch, Statuses, TablesTyped
  <2>10. CASE \E a \in Approvals : InsertApproval(c, a)
    BY <2>10 DEF InsertApproval, TablesTyped
  <2>11. CASE GrantRequest(c) \/ RejectRequest(c)
    BY <2>11 DEF GrantRequest, RejectRequest, Decide, TablesTyped
  <2>12. CASE ApproveRequested(c) \/ RejectRequested(c)
    <3>1. BatchOf[call[c].on] \in Batches
      BY <2>12, <1>3, BatchOfAssumption DEF ApproveRequested, RejectRequested, Follow, Points, Ops
    <3>2. PICK to \in Statuses : Advance(BatchOf[call[c].on], "READY_FOR_APPROVAL", to)
      BY <2>12 DEF ApproveRequested, RejectRequested, Follow, Statuses
    <3>3. "READY_FOR_APPROVAL" \in Statuses
      BY DEF Statuses
    <3>4. batch' \in [Batches -> [status: Statuses, total: Nat]]
      BY <3>1, <3>2, <3>3, AdvanceTyped
    <3> QED BY <2>12, <3>4 DEF ApproveRequested, RejectRequested, Follow, TablesTyped
  <2>13. CASE InsertReversal(c) \/ CloseReversal(c)
    BY <2>13 DEF InsertReversal, CloseReversal, TablesTyped
  <2>14. CASE ReverseRow(c)
    BY <2>14 DEF ReverseRow, TablesTyped, SettlementStatus
  <2> QED BY <2>1, <2>2, <2>3, <2>4, <2>5, <2>6, <2>7, <2>8, <2>9, <2>10, <2>11, <2>12, <2>13,
             <2>14 DEF Step
<1> QED BY <1>4, <1>5

LEMMA TypeStep == TypeOK /\ [Next]_vars => TypeOK'
<1> SUFFICES ASSUME TypeOK, [Next]_vars PROVE TypeOK'
  OBVIOUS
<1>0. CallsTyped /\ TablesTyped /\ HistoryTyped
  BY TypeParts
<1>1. ASSUME NEW c \in Calls, Die(c) PROVE TypeOK'
  <2>1. CallsTyped'
    BY <1>0, <1>1, ReturnTyped DEF Die
  <2>2. TablesTyped'
    BY <1>0, <1>1 DEF Die, tables, TablesTyped
  <2>3. lost' \in [Batches -> Nat]
    <3>1. At(c, "add", "inserted") => call[c].on \in Batches
      BY <1>0 DEF At, CallsTyped, BatchOps
    <3> QED BY <1>0, <1>1, <3>1 DEF Die, HistoryTyped
  <2>4. HistoryTyped'
    <3>1. faults \in Nat /\ faults < MaxFaults
      BY <1>0, <1>1, BoundsAssumption DEF Die, HistoryTyped
    <3> QED BY <1>0, <1>1, <2>3, <3>1, BoundsAssumption DEF Die, HistoryTyped
  <2> QED BY <2>1, <2>2, <2>4, TypeParts, PTL
<1>2. ASSUME NEW r \in Reversals, ApproveReversal(r) PROVE TypeOK'
  BY <1>2 DEF ApproveReversal, TypeOK, history
<1>3. ASSUME NEW l \in Rows, NEW status \in SettlementStatus, UpdateStatus(l, status)
      PROVE  TypeOK'
  BY <1>3 DEF UpdateStatus, TypeOK, history
<1>4. CASE UNCHANGED vars
  BY <1>4 DEF TypeOK, vars
<1> QED BY <1>1, <1>2, <1>3, <1>4, ArriveTyped, StepTyped DEF Next

(* Rows, calls and histories keep their types.                              *)
THEOREM TypeCorrect == Spec => []TypeOK
<1>1. Init => TypeOK
  BY BoundsAssumption DEF Init, TypeOK, Statuses, SettlementStatus, Idle
<1> QED BY <1>1, TypeStep, PTL DEF Spec

-----------------------------------------------------------------------------
(* One call at most executes a batch, the batch is PROCESSING while it      *)
(* does, and no item is settled before that.                                *)
Executing(c) == call[c].at \in {"claimed", "paid"}
Executed == {"PROCESSING", "SETTLED"}

ExecutionInv ==
    /\ \A c \in Calls : Executing(c) =>
          /\ call[c].op = "execute"
          /\ batch[call[c].on].status = "PROCESSING"
          /\ call[c].at = "claimed" => items[call[c].on].settled = 0
    /\ \A c, d \in Calls : Executing(c) /\ Executing(d) /\ call[c].on = call[d].on => c = d
    /\ \A b \in Batches : batch[b].status \notin Executed => items[b].settled = 0

(* What a step outside an execution leaves as it is.                        *)
Aside ==
    /\ \A c \in Calls : call'[c].at \in {"claimed", "paid"} => call'[c] = call[c]
    /\ \A b \in Batches : /\ items'[b].settled = items[b].settled
                          /\ batch[b].status \in Executed => batch'[b].status = batch[b].status
                          /\ batch'[b].status \in Executed => batch[b].status \in Executed

LEMMA AsideKeeps ==
    ASSUME TypeOK, ExecutionInv, Aside
    PROVE  ExecutionInv'
<1>1. \A c \in Calls : Executing(c) => call[c].on \in Batches
  BY DEF Executing, ExecutionInv, TypeOK, BatchOps
<1>2. \A c \in Calls : Executing(c)' => call'[c] = call[c] /\ Executing(c)
  BY DEF Aside, Executing
<1> QED BY <1>1, <1>2 DEF Aside, ExecutionInv, Executed

LEMMA AdvanceAside ==
    ASSUME TypeOK, NEW b \in Batches, NEW from \in Statuses \ Executed,
           NEW to \in Statuses \ Executed, Advance(b, from, to)
    PROVE  \A d \in Batches :
              /\ batch[d].status \in Executed => batch'[d].status = batch[d].status
              /\ batch'[d].status \in Executed => batch[d].status \in Executed
BY AdvanceTyped

(* A call that returns or moves to another point does not execute a batch.  *)
LEMMA CallAside ==
    ASSUME TypeOK, NEW c \in Calls,
           \/ Return(c)
           \/ \E p \in Points \ {"claimed", "paid"} : Goto(c, p)
           \/ \E op, x : Start(c, op, x)
    PROVE  \A d \in Calls : call'[d].at \in {"claimed", "paid"} => call'[d] = call[d]
<1>1. CASE Return(c)
  BY <1>1 DEF Return, TypeOK, Idle
<1>2. CASE \E p \in Points \ {"claimed", "paid"} : Goto(c, p)
  <2>1. PICK p \in Points \ {"claimed", "paid"} : Goto(c, p)
    BY <1>2
  <2>2. \A d \in Calls \ {c} : call'[d] = call[d]
    BY <2>1 DEF Goto, TypeOK
  <2>3. call'[c] = [call[c] EXCEPT !.at = p]
    BY <2>1 DEF Goto, TypeOK
  <2>4. call'[c].at \notin {"claimed", "paid"}
    <3>1. CASE call[c] = Idle
      BY <3>1, <2>3 DEF Idle
    <3>2. CASE call[c] # Idle
      BY <3>2, <2>3 DEF TypeOK
    <3> QED BY <3>1, <3>2
  <2> QED BY <2>2, <2>4
<1>3. CASE \E op, x : Start(c, op, x)
  <2>1. PICK op, x : Start(c, op, x)
    BY <1>3
  <2>2. call'[c] = [at |-> "read", op |-> op, on |-> x]
    BY <2>1 DEF Start, TypeOK
  <2>3. \A d \in Calls \ {c} : call'[d] = call[d]
    BY <2>1 DEF Start, TypeOK
  <2>4. call'[c].at = "read"
    BY <2>2
  <2> QED BY <2>3, <2>4
<1> QED BY <1>1, <1>2, <1>3

(* Every call begins by reading a row.                                      *)
LEMMA ArriveStarts ==
    ASSUME NEW c \in Calls, Arrive(c)
    PROVE  \E op, x : Start(c, op, x)
<1>1. CASE \E b \in Batches : CreateBatch(c, b)
  BY <1>1, Zenon DEF CreateBatch
<1>2. CASE \E b \in Batches, op \in BatchOps : ReadBatch(c, op, b)
  <2>1. PICK b \in Batches, op \in BatchOps : ReadBatch(c, op, b)
    BY <1>2
  <2> QED BY <2>1, Zenon DEF ReadBatch
<1>3. CASE \E a \in Approvals, op \in {"grant", "reject"} : ReadApproval(c, op, a)
  BY <1>3, Zenon DEF ReadApproval
<1>4. CASE \E r \in Reversals : CreateReversal(c, r) \/ ReadReversal(c, r)
  BY <1>4, Zenon DEF CreateReversal, ReadReversal
<1> QED BY <1>1, <1>2, <1>3, <1>4, Zenon DEF Arrive

LEMMA ExecutionStep ==
    ASSUME TypeOK, TypeOK', ExecutionInv, [Next]_vars
    PROVE  ExecutionInv'
<1>1. ASSUME NEW c \in Calls, Arrive(c) PROVE ExecutionInv'
  <2>1. \E op, x : Start(c, op, x)
    BY <1>1, ArriveStarts
  <2>2. UNCHANGED <<batch, items>>
    BY <2>1 DEF Start, tables
  <2> QED BY <2>1, <2>2, CallAside, AsideKeeps DEF Aside
<1>2. ASSUME NEW c \in Calls, Step(c) PROVE ExecutionInv'
  <2>1. CASE FindPending(c) \/ (\E a \in Approvals : InsertApproval(c, a))
             \/ GrantRequest(c) \/ RejectRequest(c) \/ InsertReversal(c) \/ ReverseRow(c)
             \/ CloseReversal(c) \/ RaiseTotal(c) \/ InsertItem(c)
    <3>1. Return(c) \/ \E p \in Points \ {"claimed", "paid"} : Goto(c, p)
      BY <2>1 DEF FindPending, InsertApproval, GrantRequest, RejectRequest, Decide,
                  InsertReversal, ReverseRow, CloseReversal, RaiseTotal, InsertItem, Points, Goto,
                  Return
    <3>2. \A b \in Batches : /\ items'[b].settled = items[b].settled
                             /\ batch'[b].status = batch[b].status
      <4>1. CASE UNCHANGED <<batch, items>>
        BY <4>1
      <4>2. CASE RaiseTotal(c)
        <5>1. call[c].on \in Batches
          BY <4>2 DEF RaiseTotal, At, TypeOK, BatchOps
        <5> QED BY <4>2, <5>1 DEF RaiseTotal, TypeOK
      <4>3. CASE InsertItem(c)
        <5>1. call[c].on \in Batches
          BY <4>3 DEF InsertItem, At, TypeOK, BatchOps
        <5> QED BY <4>3, <5>1 DEF InsertItem, TypeOK
      <4> QED BY <2>1, <4>1, <4>2, <4>3 DEF FindPending, InsertApproval, GrantRequest,
                 RejectRequest, Decide, InsertReversal, ReverseRow, CloseReversal, tables
    <3> QED BY <3>1, <3>2, CallAside, AsideKeeps DEF Aside
  <2>2. CASE InsertBatch(c) \/ SubmitBatch(c) \/ ApproveBatch(c) \/ ApproveRequested(c)
             \/ RejectRequested(c)
    <3>1. PICK b \in Batches, from \in Statuses \ Executed, to \in Statuses \ Executed :
             Advance(b, from, to) \/ UNCHANGED batch
      <4>1. CASE InsertBatch(c) \/ SubmitBatch(c) \/ ApproveBatch(c)
        <5>1. call[c].on \in Batches
          BY <4>1 DEF InsertBatch, SubmitBatch, ApproveBatch, At, TypeOK, BatchOps
        <5> QED BY <4>1, <5>1 DEF InsertBatch, SubmitBatch, ApproveBatch, Statuses, Executed
      <4>2. CASE ApproveRequested(c) \/ RejectRequested(c)
        <5>1. BatchOf[call[c].on] \in Batches
          BY <4>2, BatchOfAssumption DEF ApproveRequested, RejectRequested, Follow, At, TypeOK
        <5> QED BY <4>2, <5>1 DEF ApproveRequested, RejectRequested, Follow, Statuses, Executed
      <4> QED BY <2>2, <4>1, <4>2
    <3>2. Return(c) /\ UNCHANGED items
      BY <2>2 DEF InsertBatch, SubmitBatch, ApproveBatch, ApproveRequested, RejectRequested, Follow
    <3>3. \A d \in Batches :
              /\ batch[d].status \in Executed => batch'[d].status = batch[d].status
              /\ batch'[d].status \in Executed => batch[d].status \in Executed
      BY <3>1, AdvanceAside
    <3> QED BY <3>2, <3>3, CallAside, AsideKeeps DEF Aside
  <2>3. CASE ClaimBatch(c)
    <3> DEFINE b == call[c].on
    <3>1. b \in Batches /\ call[c].at = "read" /\ call[c].op = "execute"
      BY <2>3 DEF ClaimBatch, At, TypeOK, BatchOps
    <3>2. Advance(b, "APPROVED", "PROCESSING") /\ UNCHANGED items
      BY <2>3 DEF ClaimBatch
    <3>3. /\ \A d \in Batches \ {b} : batch'[d].status = batch[d].status
          /\ batch'[b].status = IF batch[b].status = "APPROVED" THEN "PROCESSING" ELSE batch[b].status
      BY <3>1, <3>2, AdvanceTyped DEF Statuses
    <3>4. CASE batch[b].status # "APPROVED"
      <4>1. Return(c)
        BY <2>3, <3>4 DEF ClaimBatch
      <4>2. \A d \in Batches : batch'[d].status = batch[d].status
        BY <3>3, <3>4
      <4> QED BY <4>1, <4>2, <3>2, CallAside, AsideKeeps DEF Aside
    <3>5. CASE batch[b].status = "APPROVED"
      <4>1. Goto(c, "claimed")
        BY <2>3, <3>5 DEF ClaimBatch
      <4>2. /\ \A d \in Calls \ {c} : call'[d] = call[d]
            /\ call'[c].at = "claimed" /\ call'[c].on = b /\ call'[c].op = "execute"
        BY <4>1, <3>1 DEF Goto, TypeOK, Idle
      <4>3. \A d \in Calls : Executing(d) => call[d].on # b
        BY <3>5 DEF ExecutionInv
      <4>4. items[b].settled = 0
        BY <3>1, <3>5 DEF ExecutionInv, Executed
      <4>5. \A d \in Calls : Executing(d) => call[d].on \in Batches
        BY DEF Executing, ExecutionInv, TypeOK, BatchOps
      <4>6. ASSUME NEW d \in Calls, Executing(d)'
            PROVE  /\ call'[d].op = "execute"
                   /\ batch'[call'[d].on].status = "PROCESSING"
                   /\ call'[d].at = "claimed" => items'[call'[d].on].settled = 0
        <5>1. CASE d = c
          BY <5>1, <3>2, <3>3, <3>5, <4>2, <4>4
        <5>2. CASE d # c
          <6>1. call'[d] = call[d] /\ Executing(d)
            BY <5>2, <4>2, <4>6 DEF Executing
          <6> QED BY <6>1, <3>2, <3>3, <4>3, <4>5 DEF ExecutionInv
        <5> QED BY <5>1, <5>2
      <4>7. \A d, e \in Calls : Executing(d)' /\ Executing(e)' /\ call'[d].on = call'[e].on => d = e
        BY <4>2, <4>3 DEF Executing, ExecutionInv
      <4>8. \A d \in Batches : batch'[d].status \notin Executed => items'[d].settled = 0
        BY <3>2, <3>3, <3>5 DEF ExecutionInv, Executed
      <4> QED BY <4>6, <4>7, <4>8 DEF ExecutionInv
    <3> QED BY <3>4, <3>5
  <2>4. CASE SettleItems(c)
    <3> DEFINE b == call[c].on
    <3>1. b \in Batches /\ call[c].at = "claimed" /\ Executing(c)
      BY <2>4 DEF SettleItems, At, TypeOK, BatchOps, Executing
    <3>2. batch[b].status = "PROCESSING"
      BY <3>1 DEF ExecutionInv
    <3>3. /\ \A d \in Calls \ {c} : call'[d] = call[d]
          /\ call'[c].at = "paid" /\ call'[c].on = b /\ call'[c].op = call[c].op
      BY <2>4, <3>1 DEF SettleItems, Goto, TypeOK, Idle
    <3>4. UNCHANGED batch /\ \A d \in Batches \ {b} : items'[d] = items[d]
      BY <2>4 DEF SettleItems, TypeOK
    <3>5. \A d \in Calls : Executing(d) => call[d].on \in Batches
      BY DEF Executing, ExecutionInv, TypeOK, BatchOps
    <3>6. \A d \in Calls \ {c} : Executing(d) => call[d].on # b
      BY <3>1 DEF ExecutionInv
    <3>7. ASSUME NEW d \in Calls, Executing(d)'
          PROVE  /\ call'[d].op = "execute"
                 /\ batch'[call'[d].on].status = "PROCESSING"
                 /\ call'[d].at = "claimed" => items'[call'[d].on].settled = 0
      <4>1. CASE d = c
        BY <4>1, <3>1, <3>2, <3>3, <3>4 DEF ExecutionInv
      <4>2. CASE d # c
        <5>1. call'[d] = call[d] /\ Executing(d)
          BY <4>2, <3>3, <3>7 DEF Executing
        <5> QED BY <5>1, <4>2, <3>4, <3>5, <3>6 DEF ExecutionInv
      <4> QED BY <4>1, <4>2
    <3>8. \A d, e \in Calls : Executing(d)' /\ Executing(e)' /\ call'[d].on = call'[e].on => d = e
      BY <3>1, <3>3 DEF Executing, ExecutionInv
    <3>9. \A d \in Batches : batch'[d].status \notin Executed => items'[d].settled = 0
      BY <3>2, <3>4 DEF ExecutionInv, Executed
    <3> QED BY <3>7, <3>8, <3>9 DEF ExecutionInv
  <2>5. CASE CloseBatch(c)
    <3> DEFINE b == call[c].on
    <3>1. b \in Batches /\ Executing(c)
      BY <2>5 DEF CloseBatch, At, TypeOK, BatchOps, Executing
    <3>2. batch'[b].status = "SETTLED" /\ \A d \in Batches \ {b} : batch'[d] = batch[d]
      BY <2>5, <3>1 DEF CloseBatch, TypeOK
    <3>3. Return(c) /\ UNCHANGED items
      BY <2>5 DEF CloseBatch
    <3>4. \A d \in Calls : Executing(d)' => d # c /\ call'[d] = call[d] /\ Executing(d)
      BY <3>3 DEF Return, Executing, TypeOK, Idle
    <3>5. \A d \in Calls : Executing(d)' => call[d].on \in Batches \ {b}
      BY <3>1, <3>4 DEF Executing, ExecutionInv, TypeOK, BatchOps
    <3>6. ASSUME NEW d \in Calls, Executing(d)'
          PROVE  /\ call'[d].op = "execute"
                 /\ batch'[call'[d].on].status = "PROCESSING"
                 /\ call'[d].at = "claimed" => items'[call'[d].on].settled = 0
      BY <3>2, <3>3, <3>4, <3>5, <3>6 DEF ExecutionInv
    <3>7. \A d, e \in Calls : Executing(d)' /\ Executing(e)' /\ call'[d].on = call'[e].on => d = e
      BY <3>4 DEF ExecutionInv
    <3>8. \A d \in Batches : batch'[d].status \notin Executed => items'[d].settled = 0
      BY <3>2, <3>3 DEF ExecutionInv, Executed
    <3> QED BY <3>6, <3>7, <3>8 DEF ExecutionInv
  <2> QED BY <1>2, <2>1, <2>2, <2>3, <2>4, <2>5 DEF Step
<1>3. ASSUME NEW c \in Calls, Die(c) PROVE ExecutionInv'
  <2>1. Return(c) /\ UNCHANGED <<batch, items>>
    BY <1>3 DEF Die, tables
  <2> QED BY <2>1, CallAside, AsideKeeps DEF Aside
<1>4. CASE UNCHANGED <<batch, items, call>>
  BY <1>4, AsideKeeps DEF Aside
<1> QED BY <1>1, <1>2, <1>3, <1>4 DEF Next, ApproveReversal, UpdateStatus, tables, vars

-----------------------------------------------------------------------------
(* A batch's total lacks the items of calls between their two statements    *)
(* and of those that died there: the items and the total move together      *)
(* with the set of these calls.                                             *)
LEMMA InsertedFinite == \A b : IsFiniteSet(Inserted(b))
<1> SUFFICES ASSUME NEW b PROVE IsFiniteSet(Inserted(b))
  OBVIOUS
<1>1. Inserted(b) \in SUBSET Calls
  BY DEF Inserted
<1> QED BY <1>1, CallsAssumption, FS_Subset

(* A call that neither comes to that point nor leaves it.                   *)
LEMMA SameInserted ==
    ASSUME TypeOK, NEW c \in Calls, ~At(c, "add", "inserted"),
           \/ Return(c)
           \/ call[c].at # "idle" /\ \E p \in Points \ {"inserted"} : Goto(c, p)
           \/ \E op, x : Start(c, op, x)
    PROVE  \A b \in Batches : Inserted(b)' = Inserted(b)
<1>1. \A d \in Calls \ {c} : call'[d] = call[d]
  BY DEF Return, Goto, Start, TypeOK
<1>2. call'[c].at # "inserted"
  <2>1. CASE Return(c)
    BY <2>1 DEF Return, TypeOK, Idle
  <2>2. CASE call[c].at # "idle" /\ \E p \in Points \ {"inserted"} : Goto(c, p)
    <3>1. call[c] \in CallRecord
      BY <2>2, TypeParts, Running
    <3> QED BY <2>2, <3>1 DEF Goto, CallRecord, TypeOK
  <2>3. CASE \E op, x : Start(c, op, x)
    <3>1. PICK op, x : Start(c, op, x)
      BY <2>3
    <3>2. call'[c] = [at |-> "read", op |-> op, on |-> x]
      BY <3>1 DEF Start, TypeOK
    <3> QED BY <3>2
  <2> QED BY <2>1, <2>2, <2>3
<1> QED BY <1>1, <1>2 DEF Inserted, At

(* The call that leaves it is one less for its batch and for no other.      *)
LEMMA OneInsertedLess ==
    ASSUME TypeOK, NEW c \in Calls, At(c, "add", "inserted"), Return(c),
           NEW b \in Batches, call[c].on = b
    PROVE  /\ Cardinality(Inserted(b)) \in Nat
           /\ Cardinality(Inserted(b)') = Cardinality(Inserted(b)) - 1
           /\ \A d \in Batches \ {b} : Inserted(d)' = Inserted(d)
<1>1. call'[c].at = "idle" /\ \A d \in Calls \ {c} : call'[d] = call[d]
  BY DEF Return, TypeOK, Idle
<1>2. c \in Inserted(b) /\ Inserted(b)' = Inserted(b) \ {c}
  BY <1>1 DEF Inserted, At
<1>3. Cardinality(Inserted(b)) \in Nat
  BY InsertedFinite, FS_CardinalityType
<1>4. Cardinality(Inserted(b) \ {c}) = Cardinality(Inserted(b)) - 1
  BY <1>2, InsertedFinite, FS_RemoveElement
<1>5. \A d \in Batches \ {b} : Inserted(d)' = Inserted(d)
  BY <1>1 DEF Inserted, At
<1> QED BY <1>2, <1>3, <1>4, <1>5

(* What leaves every term of the equation as it is.                         *)
LEMMA TotalsUntouched ==
    ASSUME TotalsMatch, UNCHANGED <<items, lost>>,
           \A b \in Batches : /\ batch'[b].total = batch[b].total
                              /\ Inserted(b)' = Inserted(b)
    PROVE  TotalsMatch'
BY DEF TotalsMatch

LEMMA TotalsStep ==
    ASSUME TypeOK, TotalsMatch, [Next]_vars
    PROVE  TotalsMatch'
<1>1. ASSUME NEW c \in Calls, Arrive(c) PROVE TotalsMatch'
  <2>1. PICK op, x : Start(c, op, x)
    BY <1>1, ArriveStarts
  <2>2. UNCHANGED <<batch, items, lost>> /\ ~At(c, "add", "inserted")
    BY <2>1 DEF Start, tables, At
  <2> QED BY <2>1, <2>2, SameInserted, TotalsUntouched
<1>2. ASSUME NEW c \in Calls, Step(c) PROVE TotalsMatch'
  <2>1. CASE InsertItem(c)
    <3>1. PICK b \in Batches : call[c].on = b /\ call[c].at = "read" /\ call[c].op = "add"
      BY <2>1 DEF InsertItem, At, TypeOK, BatchOps
    <3>2. /\ call'[c].at = "inserted" /\ call'[c].op = "add" /\ call'[c].on = b
          /\ \A d \in Calls \ {c} : call'[d] = call[d]
      <4>1. call[c] \in CallRecord
        BY <3>1, TypeParts, Running
      <4> QED BY <2>1, <3>1, <4>1 DEF InsertItem, Goto, CallRecord, TypeOK
    <3>3. c \notin Inserted(b) /\ Inserted(b)' = Inserted(b) \cup {c}
      BY <3>1, <3>2 DEF Inserted, At
    <3>4. Cardinality(Inserted(b)') = Cardinality(Inserted(b)) + 1
      BY <3>3, InsertedFinite, FS_AddElement
    <3>5. \A d \in Batches \ {b} : Inserted(d)' = Inserted(d)
      BY <3>1, <3>2 DEF Inserted, At
    <3>6. /\ items'[b].added = items[b].added + 1 /\ items'[b].settled = items[b].settled
          /\ \A d \in Batches \ {b} : items'[d] = items[d]
          /\ UNCHANGED <<batch, lost>>
      BY <2>1, <3>1 DEF InsertItem, TypeOK, history
    <3>7. Cardinality(Inserted(b)) \in Nat
      BY InsertedFinite, FS_CardinalityType
    <3>8. items'[b].added + items'[b].settled
             = batch'[b].total + lost'[b] + Cardinality(Inserted(b)')
      <4>1. items[b].added \in Nat /\ items[b].settled \in Nat /\ batch[b].total \in Nat /\ lost[b] \in Nat
        BY DEF TypeOK
      <4>2. items[b].added + items[b].settled = batch[b].total + lost[b] + Cardinality(Inserted(b))
        BY DEF TotalsMatch
      <4> QED BY <3>4, <3>6, <3>7, <4>1, <4>2
    <3> QED BY <3>5, <3>6, <3>8 DEF TotalsMatch
  <2>2. CASE RaiseTotal(c)
    <3>1. PICK b \in Batches : call[c].on = b /\ At(c, "add", "inserted") /\ Return(c)
      BY <2>2 DEF RaiseTotal, At, TypeOK, BatchOps
    <3>2. /\ Cardinality(Inserted(b)) \in Nat
          /\ Cardinality(Inserted(b)') = Cardinality(Inserted(b)) - 1
          /\ \A d \in Batches \ {b} : Inserted(d)' = Inserted(d)
      BY <3>1, OneInsertedLess
    <3>3. /\ batch'[b].total = batch[b].total + 1
          /\ \A d \in Batches \ {b} : batch'[d] = batch[d]
          /\ UNCHANGED <<items, lost>>
      BY <2>2, <3>1 DEF RaiseTotal, TypeOK, history
    <3>4. items'[b].added + items'[b].settled
             = batch'[b].total + lost'[b] + Cardinality(Inserted(b)')
      <4>1. items[b].added \in Nat /\ items[b].settled \in Nat /\ batch[b].total \in Nat /\ lost[b] \in Nat
        BY DEF TypeOK
      <4>2. items[b].added + items[b].settled = batch[b].total + lost[b] + Cardinality(Inserted(b))
        BY DEF TotalsMatch
      <4>3. PICK n \in Nat : n = Cardinality(Inserted(b)) /\ Cardinality(Inserted(b)') = n - 1
        BY <3>2
      <4>4. items[b].added + items[b].settled = (batch[b].total + 1) + lost[b] + (n - 1)
        BY <4>1, <4>2, <4>3
      <4> QED BY <3>3, <4>1, <4>3, <4>4
    <3> QED BY <3>2, <3>3, <3>4 DEF TotalsMatch
  <2>3. CASE SettleItems(c)
    <3>1. PICK b \in Batches : call[c].on = b /\ call[c].at = "claimed"
      BY <2>3 DEF SettleItems, At, TypeOK, BatchOps
    <3>2. \A d \in Batches : Inserted(d)' = Inserted(d)
      <4>1. Goto(c, "paid") /\ "paid" \in Points \ {"inserted"}
        BY <2>3 DEF SettleItems, Points
      <4> QED BY <3>1, <4>1, SameInserted DEF At
    <3>3. /\ items'[b].added = 0 /\ items'[b].settled = items[b].added + items[b].settled
          /\ \A d \in Batches \ {b} : items'[d] = items[d]
          /\ UNCHANGED <<batch, lost>>
      BY <2>3, <3>1 DEF SettleItems, TypeOK, history
    <3>4. items[b].added \in Nat /\ items[b].settled \in Nat
      BY DEF TypeOK
    <3>5. items'[b].added + items'[b].settled = items[b].added + items[b].settled
      BY <3>3, <3>4
    <3> QED BY <3>2, <3>3, <3>5 DEF TotalsMatch
  <2>4. CASE ~InsertItem(c) /\ ~RaiseTotal(c) /\ ~SettleItems(c)
    <3>1. /\ call[c].at # "idle" /\ ~At(c, "add", "inserted")
          /\ Return(c) \/ \E p \in Points \ {"inserted"} : Goto(c, p)
          /\ UNCHANGED <<items, lost>>
      BY <1>2, <2>4 DEF Step, InsertBatch, SubmitBatch, ApproveBatch, ClaimBatch,
         CloseBatch, FindPending, InsertApproval, GrantRequest, RejectRequest, Decide,
         ApproveRequested, RejectRequested, Follow, InsertReversal, ReverseRow, CloseReversal,
         At, Points, Goto, Return, tables, history
    <3>2. \A b \in Batches : batch'[b].total = batch[b].total
      <4>1. \/ UNCHANGED batch
            \/ CloseBatch(c)
            \/ \E b, from, to : Advance(b, from, to)
        BY <1>2, <2>4 DEF Step, InsertBatch, SubmitBatch, ApproveBatch, ClaimBatch,
           FindPending, InsertApproval, GrantRequest, RejectRequest, Decide, ApproveRequested,
           RejectRequested, Follow, InsertReversal, ReverseRow, CloseReversal, tables
      <4>2. CASE CloseBatch(c)
        BY <4>2 DEF CloseBatch, TypeOK
      <4>3. CASE \E b, from, to : Advance(b, from, to)
        BY <4>3 DEF Advance, TypeOK
      <4> QED BY <4>1, <4>2, <4>3
    <3> QED BY <3>1, <3>2, SameInserted, TotalsUntouched
  <2> QED BY <2>1, <2>2, <2>3, <2>4
<1>3. ASSUME NEW c \in Calls, Die(c) PROVE TotalsMatch'
  <2>1. Return(c) /\ UNCHANGED <<batch, items>>
    BY <1>3 DEF Die, tables
  <2>2. CASE At(c, "add", "inserted")
    <3>0. PICK b \in Batches : call[c].on = b
      BY <2>2 DEF At, TypeOK, BatchOps
    <3>1. /\ Cardinality(Inserted(b)) \in Nat
          /\ Cardinality(Inserted(b)') = Cardinality(Inserted(b)) - 1
          /\ \A d \in Batches \ {b} : Inserted(d)' = Inserted(d)
      BY <2>1, <2>2, <3>0, OneInsertedLess
    <3>2. /\ lost'[b] = lost[b] + 1
          /\ \A d \in Batches \ {b} : lost'[d] = lost[d]
      BY <1>3, <2>2, <3>0 DEF Die, TypeOK
    <3>3. batch[b].total \in Nat /\ lost[b] \in Nat
      BY DEF TypeOK
    <3>4. batch[b].total + lost'[b] + Cardinality(Inserted(b)')
             = batch[b].total + lost[b] + Cardinality(Inserted(b))
      BY <3>1, <3>2, <3>3
    <3> QED BY <2>1, <3>1, <3>2, <3>4 DEF TotalsMatch
  <2>3. CASE ~At(c, "add", "inserted")
    <3>1. UNCHANGED lost
      BY <1>3, <2>3 DEF Die
    <3> QED BY <2>1, <2>3, <3>1, SameInserted, TotalsUntouched
  <2> QED BY <2>2, <2>3
<1>4. CASE UNCHANGED <<batch, items, lost, call>>
  BY <1>4 DEF TotalsMatch, Inserted, At
<1> QED BY <1>1, <1>2, <1>3, <1>4
        DEF Next, ApproveReversal, UpdateStatus, tables, history, vars

(* A batch's total counts its items, but for those of calls between their   *)
(* two statements and of calls that died there.                             *)
THEOREM TotalsAreCounted == Spec => []TotalsMatch
<1>1. Init => TotalsMatch
  <2> SUFFICES ASSUME Init, NEW b \in Batches
               PROVE  items[b].added + items[b].settled
                        = batch[b].total + lost[b] + Cardinality(Inserted(b))
    BY DEF TotalsMatch
  <2>1. Inserted(b) = {}
    BY DEF Init, Inserted, At, Idle
  <2>2. Cardinality(Inserted(b)) = 0
    BY <2>1, FS_EmptySet
  <2> QED BY <2>2 DEF Init
<1>2. TypeOK /\ TotalsMatch /\ [Next]_vars => TotalsMatch'
  BY TotalsStep
<1> QED BY <1>1, <1>2, TypeCorrect, PTL DEF Spec

-----------------------------------------------------------------------------
(* While calls work on a batch one after the other, what a call has read of *)
(* it or found out about it still holds when the call writes.               *)
WorkerInv(c, b) ==
    /\ At(c, "add", "read") => batch[b].status = "DRAFT"
    /\ At(c, "request", "read") \/ At(c, "request", "none") =>
          batch[b].status = "READY_FOR_APPROVAL"
    /\ call[c].at \in {"none", "decided"} => Pending(b) = {}
    /\ call[c].at = "paid" => items[b].added = 0

Orderly(b) ==
    /\ batch[b].status = "SETTLED" => items[b].added = 0
    /\ \A p, q \in Pending(b) : p = q
    /\ batch[b].status \in {"NONE", "DRAFT"} => Pending(b) = {}

AloneAt(b) ==
    /\ Orderly(b)
    /\ \A c, d \in Working(b) : c = d
    /\ \A c \in Working(b) : WorkerInv(c, b)

AloneInv == \A b \in Batches \ overlapped : AloneAt(b)

(* The batch a running call works on.                                       *)
LEMMA Subject ==
    ASSUME TypeOK, NEW c \in Calls, NEW b \in Batches
    PROVE  c \in Working(b) <=>
              \/ call[c].at # "idle" /\ call[c].op \in BatchOps \cup {"create"} /\ call[c].on = b
              \/ /\ call[c].at # "idle" /\ call[c].op \in {"grant", "reject"}
                 /\ BatchOf[call[c].on] = b
<1>1. CASE call[c].at = "idle"
  BY <1>1 DEF Working
<1>2. CASE call[c].at # "idle"
  <2>1. call[c].op \in Ops
    BY <1>2, TypeParts, Running DEF CallRecord
  <2>2. CASE call[c].op \in BatchOps \cup {"create"}
    <3>1. call[c].on \in Batches /\ call[c].on \notin Approvals
      BY <1>2, <2>2, IdsAssumption DEF TypeOK
    <3>2. call[c].op \notin {"grant", "reject"}
      BY <2>2 DEF BatchOps
    <3> QED BY <1>2, <2>2, <3>1, <3>2 DEF Working, Concerns
  <2>3. CASE call[c].op \in {"grant", "reject"}
    <3>1. call[c].on \in Approvals /\ call[c].on \notin Batches
      BY <1>2, <2>3, IdsAssumption DEF TypeOK
    <3>2. call[c].op \notin BatchOps \cup {"create"}
      BY <2>3 DEF BatchOps
    <3> QED BY <1>2, <2>3, <3>1, <3>2 DEF Working, Concerns
  <2>4. CASE call[c].op \in {"reverse", "undo"}
    <3>1. call[c].on \notin Approvals /\ call[c].on \notin Batches
      BY <1>2, <2>4, IdsAssumption DEF TypeOK
    <3>2. call[c].op \notin BatchOps \cup {"create", "grant", "reject"}
      BY <2>4 DEF BatchOps
    <3> QED BY <3>1, <3>2 DEF Working, Concerns
  <2> QED BY <2>1, <2>2, <2>3, <2>4 DEF Ops
<1> QED BY <1>1, <1>2

(* What concerns other batches leaves this one and its calls as they are.   *)
Quiet(b) == /\ batch'[b] = batch[b] /\ items'[b] = items[b]
            /\ Pending(b)' = Pending(b)
            /\ Working(b)' \subseteq Working(b)
            /\ \A c \in Working(b)' : call'[c] = call[c]

LEMMA QuietKeeps ==
    ASSUME NEW b \in Batches, AloneAt(b), Quiet(b)
    PROVE  AloneAt(b)'
<1>1. Orderly(b)'
  BY DEF Quiet, AloneAt, Orderly
<1>2. \A c \in Working(b)' : WorkerInv(c, b)'
  BY DEF Quiet, AloneAt, WorkerInv, At
<1> QED BY <1>1, <1>2 DEF Quiet, AloneAt

(* A step keeps its call on the same target, or ends it.                    *)
LEMMA OnlyCaller ==
    ASSUME TypeOK, NEW c \in Calls, call[c].at # "idle", Return(c) \/ \E p \in Points : Goto(c, p)
    PROVE  /\ \A d \in Calls \ {c} : call'[d] = call[d]
           /\ \/ call'[c].at = "idle"
              \/ \E p \in Points : call'[c] = [call[c] EXCEPT !.at = p]
BY DEF Return, Goto, TypeOK, Idle

LEMMA StepReturnsOrGoes ==
    ASSUME TypeOK, NEW c \in Calls, Step(c) \/ Die(c)
    PROVE  call[c].at # "idle" /\ (Return(c) \/ \E p \in Points : Goto(c, p))
<1>1. CASE Die(c)
  BY <1>1 DEF Die
<1>2. CASE Step(c)
  <2>1. call[c].at # "idle"
    BY <1>2 DEF Step, At, InsertBatch, InsertItem, RaiseTotal, SubmitBatch,
       ApproveBatch, ClaimBatch, SettleItems, CloseBatch, FindPending, InsertApproval,
       GrantRequest, RejectRequest, Decide, ApproveRequested, RejectRequested, Follow,
       InsertReversal, ReverseRow, CloseReversal
  <2>2. Return(c) \/ \E p \in Points : Goto(c, p)
    BY <1>2 DEF Step, InsertBatch, InsertItem, RaiseTotal, SubmitBatch, ApproveBatch,
       ClaimBatch, SettleItems, CloseBatch, FindPending, InsertApproval, GrantRequest,
       RejectRequest, Decide, ApproveRequested, RejectRequested, Follow, InsertReversal,
       ReverseRow, CloseReversal, Points, Goto, Return
  <2> QED BY <2>1, <2>2
<1> QED BY <1>1, <1>2

LEMMA OthersQuiet ==
    ASSUME TypeOK, NEW c \in Calls, Step(c) \/ Die(c), NEW b \in Batches, c \notin Working(b)
    PROVE  Quiet(b)
<1>1. /\ call[c].at # "idle"
      /\ \A d \in Calls \ {c} : call'[d] = call[d]
      /\ \/ call'[c].at = "idle"
         \/ call'[c].on = call[c].on
  <2>1. call[c].at # "idle" /\ (Return(c) \/ \E p \in Points : Goto(c, p))
    BY StepReturnsOrGoes
  <2>2. call[c] \in CallRecord
    BY <2>1, TypeParts, Running
  <2> QED BY <2>1, <2>2, OnlyCaller DEF CallRecord
<1>2. ~Concerns(call[c].on, b)
  BY <1>1 DEF Working
<1>3. /\ Working(b)' \subseteq Working(b)
      /\ \A d \in Working(b)' : call'[d] = call[d]
  BY <1>1, <1>2 DEF Working
<1>4. /\ call[c].op \in BatchOps \cup {"create"} => call[c].on \in Batches \ {b}
      /\ call[c].op \in {"grant", "reject"} =>
            call[c].on \in Approvals /\ BatchOf[call[c].on] # b
  BY <1>1, <1>2 DEF Concerns, TypeOK
<1>5. batch'[b] = batch[b]
  <2>1. \/ UNCHANGED batch
        \/ /\ call[c].op \in BatchOps \cup {"create"}
           /\ \E v : batch' = [batch EXCEPT ![call[c].on] = v]
        \/ /\ call[c].op \in {"grant", "reject"}
           /\ \E v : batch' = [batch EXCEPT ![BatchOf[call[c].on]] = v]
    BY DEF Step, Die, InsertBatch, InsertItem, RaiseTotal, SubmitBatch,
       ApproveBatch, ClaimBatch, SettleItems, CloseBatch, FindPending, InsertApproval,
       GrantRequest, RejectRequest, Decide, ApproveRequested, RejectRequested, Follow,
       InsertReversal, ReverseRow, CloseReversal, At, Advance, tables, BatchOps
  <2> QED BY <2>1, <1>4, BatchOfAssumption DEF TypeOK
<1>6. items'[b] = items[b]
  <2>1. \/ UNCHANGED items
        \/ /\ call[c].op \in BatchOps
           /\ \E v : items' = [items EXCEPT ![call[c].on] = v]
    BY DEF Step, Die, InsertBatch, InsertItem, RaiseTotal, SubmitBatch,
       ApproveBatch, ClaimBatch, SettleItems, CloseBatch, FindPending, InsertApproval,
       GrantRequest, RejectRequest, Decide, ApproveRequested, RejectRequested, Follow,
       InsertReversal, ReverseRow, CloseReversal, At, tables, BatchOps
  <2> QED BY <2>1, <1>4 DEF TypeOK
<1>7. Pending(b)' = Pending(b)
  <2>1. CASE \E a \in Approvals : InsertApproval(c, a)
    <3>1. PICK a \in Approvals : InsertApproval(c, a)
      BY <2>1
    <3>2. BatchOf[a] # b
      BY <3>1, <1>4 DEF InsertApproval, At, BatchOps
    <3> QED BY <3>1, <3>2 DEF InsertApproval, Pending, TypeOK
  <2>2. CASE GrantRequest(c) \/ RejectRequest(c)
    <3>1. call[c].on \in Approvals /\ BatchOf[call[c].on] # b
      BY <2>2, <1>4 DEF GrantRequest, RejectRequest, Decide, At
    <3> QED BY <2>2, <3>1 DEF GrantRequest, RejectRequest, Decide, Pending, TypeOK
  <2>3. CASE UNCHANGED approval
    BY <2>3 DEF Pending
  <2> QED BY <2>1, <2>2, <2>3 DEF Step, Die, InsertBatch, InsertItem, RaiseTotal,
             SubmitBatch, ApproveBatch, ClaimBatch, SettleItems, CloseBatch, FindPending,
             ApproveRequested, RejectRequested, Follow, InsertReversal, ReverseRow,
             CloseReversal, tables
<1> QED BY <1>3, <1>5, <1>6, <1>7 DEF Quiet

(* A batch one call works on: what that call's step makes of it.            *)
LEMMA WorkerAlone ==
    ASSUME TypeOK, NEW c \in Calls, Step(c) \/ Die(c), NEW b \in Batches, AloneAt(b),
           c \in Working(b), Orderly(b)', Return(c) \/ WorkerInv(c, b)'
    PROVE  AloneAt(b)'
<1>1. Working(b) = {c}
  BY DEF AloneAt
<1>2. /\ call[c].at # "idle"
      /\ \A d \in Calls \ {c} : call'[d] = call[d]
  <2>1. call[c].at # "idle" /\ (Return(c) \/ \E p \in Points : Goto(c, p))
    BY StepReturnsOrGoes
  <2> QED BY <2>1, OnlyCaller
<1>3. Working(b)' \subseteq {c}
  BY <1>1, <1>2 DEF Working
<1>4. Return(c) => Working(b)' = {}
  <2>1. Return(c) => call'[c].at = "idle"
    BY DEF Return, TypeOK, Idle
  <2> QED BY <1>3, <2>1 DEF Working
<1> QED BY <1>3, <1>4 DEF AloneAt

LEMMA GoesOn ==
    ASSUME TypeOK, NEW c \in Calls, call[c].at # "idle", NEW p, Goto(c, p)
    PROVE  /\ call'[c].at = p /\ call'[c].op = call[c].op
           /\ call'[c].on = call[c].on
<1>1. call[c] \in CallRecord
  BY TypeParts, Running
<1> QED BY <1>1 DEF Goto, CallRecord, TypeOK

LEMMA OrderlySame ==
    ASSUME NEW b \in Batches, Orderly(b), UNCHANGED <<batch, items, approval>>
    PROVE  Orderly(b)'
BY DEF Orderly, Pending

LEMMA OwnStep ==
    ASSUME TypeOK, NEW c \in Calls, Step(c), NEW b \in Batches, AloneAt(b), c \in Working(b)
    PROVE  AloneAt(b)'
<1>1. Orderly(b) /\ WorkerInv(c, b)
  BY DEF AloneAt
<1>2. call[c].at # "idle"
  BY DEF Working
<1>3. /\ call[c].op \in BatchOps \cup {"create"} => call[c].on = b
      /\ call[c].op \in {"grant", "reject"} =>
            call[c].on \in Approvals /\ BatchOf[call[c].on] = b
      /\ call[c].op \notin {"reverse", "undo"}
  <2>1. call[c].op \in {"grant", "reject"} => call[c].on \in Approvals
    BY <1>2 DEF TypeOK
  <2> QED BY <2>1, <1>2, Subject DEF BatchOps
<1> SUFFICES Orderly(b)' /\ (Return(c) \/ WorkerInv(c, b)')
  BY WorkerAlone
<1>5. CASE InsertBatch(c) \/ SubmitBatch(c) \/ ApproveBatch(c)
  <2>1. call[c].on = b
    BY <1>5, <1>3 DEF InsertBatch, SubmitBatch, ApproveBatch, At, BatchOps
  <2>2. /\ Return(c) /\ UNCHANGED <<items, approval>>
        /\ \/ UNCHANGED batch
           \/ Advance(b, "NONE", "DRAFT")
           \/ Advance(b, "DRAFT", "READY_FOR_APPROVAL")
           \/ Advance(b, "READY_FOR_APPROVAL", "APPROVED")
    BY <1>5, <2>1 DEF InsertBatch, SubmitBatch, ApproveBatch
  <2>3. Pending(b)' = Pending(b)
    BY <2>2 DEF Pending
  <2>4. \/ batch'[b].status = batch[b].status
        \/ batch[b].status = "NONE" /\ batch'[b].status = "DRAFT"
        \/ batch'[b].status \in {"READY_FOR_APPROVAL", "APPROVED"}
    BY <2>2 DEF Advance, TypeOK
  <2> QED BY <2>2, <2>3, <2>4, <1>1 DEF Orderly
<1>6. CASE InsertItem(c)
  <2>1. call[c].on = b /\ batch[b].status = "DRAFT" /\ call[c].op = "add"
    BY <1>6, <1>3, <1>1 DEF InsertItem, At, BatchOps, WorkerInv
  <2>2. call'[c].at = "inserted" /\ call'[c].op = "add"
    BY <1>6, <1>2, <2>1, GoesOn DEF InsertItem
  <2>3. UNCHANGED <<batch, approval>>
    BY <1>6 DEF InsertItem
  <2>4. Orderly(b)'
    BY <2>1, <2>3, <1>1 DEF Orderly, Pending
  <2>5. WorkerInv(c, b)'
    BY <2>2 DEF WorkerInv, At
  <2> QED BY <2>4, <2>5
<1>7. CASE RaiseTotal(c)
  <2>1. Return(c) /\ UNCHANGED <<items, approval>> /\ batch'[b].status = batch[b].status
    <3>1. call[c].on = b
      BY <1>7, <1>3 DEF RaiseTotal, At, BatchOps
    <3> QED BY <1>7, <3>1 DEF RaiseTotal, TypeOK
  <2> QED BY <2>1, <1>1 DEF Orderly, Pending
<1>8. CASE ClaimBatch(c)
  <2>1. call[c].on = b
    BY <1>8, <1>3 DEF ClaimBatch, At, BatchOps
  <2>2. UNCHANGED <<items, approval>> /\ Advance(b, "APPROVED", "PROCESSING")
    BY <1>8, <2>1 DEF ClaimBatch
  <2>3. batch'[b].status = batch[b].status \/ batch'[b].status = "PROCESSING"
    BY <2>2 DEF Advance, TypeOK
  <2>4. Orderly(b)'
    BY <2>2, <2>3, <1>1 DEF Orderly, Pending
  <2>5. Return(c) \/ Goto(c, "claimed")
    BY <1>8 DEF ClaimBatch
  <2>6. CASE Goto(c, "claimed")
    <3>1. call'[c].at = "claimed"
      BY <2>6, <1>2, GoesOn
    <3> QED BY <2>4, <3>1 DEF WorkerInv, At
  <2> QED BY <2>4, <2>5, <2>6
<1>9. CASE SettleItems(c)
  <2>1. call[c].on = b
    BY <1>9, <1>3 DEF SettleItems, At, BatchOps
  <2>2. UNCHANGED <<batch, approval>> /\ items'[b].added = 0
    BY <1>9, <2>1 DEF SettleItems, TypeOK
  <2>3. call'[c].at = "paid"
    BY <1>9, <1>2, GoesOn DEF SettleItems
  <2>4. Orderly(b)'
    BY <2>2, <1>1 DEF Orderly, Pending
  <2>5. WorkerInv(c, b)'
    BY <2>2, <2>3 DEF WorkerInv, At
  <2> QED BY <2>4, <2>5
<1>10. CASE CloseBatch(c)
  <2>1. call[c].on = b /\ items[b].added = 0
    BY <1>10, <1>3, <1>1 DEF CloseBatch, At, BatchOps, WorkerInv
  <2>2. Return(c) /\ UNCHANGED <<items, approval>> /\ batch'[b].status = "SETTLED"
    BY <1>10, <2>1 DEF CloseBatch, TypeOK
  <2> QED BY <2>1, <2>2, <1>1 DEF Orderly, Pending
<1>11. CASE FindPending(c)
  <2>1. call[c].on = b /\ UNCHANGED <<batch, items, approval>> /\ call[c].op = "request"
    BY <1>11, <1>3 DEF FindPending, At, BatchOps, tables
  <2>2. Orderly(b)'
    BY <2>1, <1>1, OrderlySame
  <2>3. CASE Pending(b) # {}
    BY <1>11, <2>1, <2>2, <2>3 DEF FindPending
  <2>4. CASE Pending(b) = {}
    <3>1. Goto(c, "none") /\ call[c].at = "read"
      BY <1>11, <2>1, <2>4 DEF FindPending, At
    <3>2. call'[c].at = "none" /\ call'[c].op = "request"
      BY <3>1, <2>1, <1>2, GoesOn
    <3>3. WorkerInv(c, b)'
      BY <3>1, <3>2, <2>1, <2>4, <1>1 DEF WorkerInv, At, Pending
    <3> QED BY <2>2, <3>3
  <2> QED BY <2>3, <2>4
<1>12. CASE \E a \in Approvals : InsertApproval(c, a)
  <2>1. PICK a \in Approvals : InsertApproval(c, a)
    BY <1>12
  <2>2. /\ call[c].on = b /\ batch[b].status = "READY_FOR_APPROVAL" /\ Pending(b) = {}
    BY <2>1, <1>3, <1>1 DEF InsertApproval, At, BatchOps, WorkerInv
  <2>3. Return(c) /\ UNCHANGED <<batch, items>> /\ Pending(b)' \subseteq {a}
    BY <2>1, <2>2 DEF InsertApproval, Pending, TypeOK
  <2> QED BY <2>2, <2>3 DEF Orderly
<1>13. CASE GrantRequest(c) \/ RejectRequest(c)
  <2>1. PICK a \in Approvals : a = call[c].on /\ BatchOf[a] = b
    BY <1>13, <1>3 DEF GrantRequest, RejectRequest, Decide, At
  <2>2. UNCHANGED <<batch, items>>
    BY <1>13 DEF GrantRequest, RejectRequest, Decide
  <2>3. CASE approval[a] # "PENDING"
    <3>1. Return(c) /\ UNCHANGED approval
      BY <1>13, <2>1, <2>3 DEF GrantRequest, RejectRequest, Decide
    <3> QED BY <2>2, <3>1, <1>1, OrderlySame
  <2>4. CASE approval[a] = "PENDING"
    <3>1. /\ Goto(c, "decided") /\ call[c].op \in {"grant", "reject"}
          /\ \E v \in {"APPROVED", "REJECTED"} : approval' = [approval EXCEPT ![a] = v]
      BY <1>13, <2>1, <2>4 DEF GrantRequest, RejectRequest, Decide, At
    <3>2. Pending(b) = {a}
      BY <2>1, <2>4, <1>1 DEF Orderly, Pending
    <3>3. Pending(b)' = {}
      BY <3>1, <3>2 DEF Pending, TypeOK
    <3>4. call'[c].at = "decided"
      BY <3>1, <1>2, GoesOn
    <3>5. WorkerInv(c, b)'
      BY <3>3, <3>4 DEF WorkerInv, At
    <3> QED BY <2>2, <3>3, <3>5, <1>1 DEF Orderly
  <2> QED BY <2>3, <2>4
<1>14. CASE ApproveRequested(c) \/ RejectRequested(c)
  <2>1. BatchOf[call[c].on] = b /\ Pending(b) = {}
    BY <1>14, <1>3, <1>1 DEF ApproveRequested, RejectRequested, Follow, At, WorkerInv
  <2>2. /\ Return(c) /\ UNCHANGED <<items, approval>>
        /\ \/ Advance(b, "READY_FOR_APPROVAL", "APPROVED")
           \/ Advance(b, "READY_FOR_APPROVAL", "DRAFT")
    BY <1>14, <2>1 DEF ApproveRequested, RejectRequested, Follow
  <2>3. Pending(b)' = {}
    BY <2>1, <2>2 DEF Pending
  <2>4. batch'[b].status = batch[b].status \/ batch'[b].status \in {"APPROVED", "DRAFT"}
    BY <2>2 DEF Advance, TypeOK
  <2> QED BY <2>2, <2>3, <2>4, <1>1 DEF Orderly
<1>15. CASE InsertReversal(c) \/ ReverseRow(c) \/ CloseReversal(c)
  BY <1>15, <1>3 DEF InsertReversal, ReverseRow, CloseReversal, At
<1> QED BY <1>5, <1>6, <1>7, <1>8, <1>9, <1>10, <1>11, <1>12, <1>13, <1>14, <1>15 DEF Step

(* A call that arrives finds the batch free, or the batch is overlapped.    *)
LEMMA ArriveImage ==
    ASSUME NEW c \in Calls, Arrive(c)
    PROVE  \E op, x : /\ Start(c, op, x)
                      /\ op = "add" => x \in Batches /\ batch[x].status = "DRAFT"
                      /\ op = "request" =>
                            x \in Batches /\ batch[x].status = "READY_FOR_APPROVAL"
<1>1. CASE \E b \in Batches : CreateBatch(c, b)
  <2>1. PICK b \in Batches : Start(c, "create", b)
    BY <1>1, Zenon DEF CreateBatch
  <2> QED BY <2>1
<1>2. CASE \E b \in Batches, op \in BatchOps : ReadBatch(c, op, b)
  <2>1. PICK b \in Batches, op \in BatchOps : ReadBatch(c, op, b)
    BY <1>2
  <2>2. /\ Start(c, op, b)
        /\ op = "add" => batch[b].status = "DRAFT"
        /\ op = "request" => batch[b].status = "READY_FOR_APPROVAL"
    BY <2>1 DEF ReadBatch
  <2> QED BY <2>2, Zenon
<1>3. CASE \E a \in Approvals, op \in {"grant", "reject"} : ReadApproval(c, op, a)
  <2>1. PICK a \in Approvals, op \in {"grant", "reject"} : Start(c, op, a)
    BY <1>3, Zenon DEF ReadApproval
  <2> QED BY <2>1
<1>4. CASE \E r \in Reversals : CreateReversal(c, r) \/ ReadReversal(c, r)
  <2>1. PICK r \in Reversals, op \in {"reverse", "undo"} : Start(c, op, r)
    BY <1>4, Zenon DEF CreateReversal, ReadReversal
  <2> QED BY <2>1
<1> QED BY <1>1, <1>2, <1>3, <1>4, Zenon DEF Arrive

LEMMA AloneStep ==
    ASSUME TypeOK, AloneInv, [Next]_vars
    PROVE  AloneInv'
<1>1. ASSUME NEW c \in Calls, Arrive(c), NEW b \in Batches, b \notin overlapped'
      PROVE  AloneAt(b)'
  <2>1. PICK op, x : /\ Start(c, op, x)
                     /\ op = "add" => x \in Batches /\ batch[x].status = "DRAFT"
                     /\ op = "request" =>
                           x \in Batches /\ batch[x].status = "READY_FOR_APPROVAL"
    BY <1>1, ArriveImage
  <2>2. /\ AloneAt(b) /\ UNCHANGED tables /\ call[c].at = "idle"
        /\ Concerns(x, b) => Working(b) = {}
    BY <1>1, <2>1 DEF Start, AloneInv
  <2>3. /\ call'[c] = [at |-> "read", op |-> op, on |-> x]
        /\ \A d \in Calls \ {c} : call'[d] = call[d]
    BY <2>1 DEF Start, TypeOK
  <2>4. call'[c].at = "read" /\ call'[c].op = op /\ call'[c].on = x
    BY <2>3
  <2>5. Pending(b)' = Pending(b) /\ batch' = batch /\ items' = items
    BY <2>2 DEF tables, Pending
  <2>6. CASE Concerns(x, b)
    <3>1. Working(b)' \subseteq {c}
      BY <2>2, <2>3, <2>6 DEF Working
    <3>2. /\ op = "add" => batch[b].status = "DRAFT"
          /\ op = "request" => batch[b].status = "READY_FOR_APPROVAL"
      BY <2>1, <2>6, IdsAssumption DEF Concerns
    <3>3. WorkerInv(c, b)'
      BY <2>4, <2>5, <3>2 DEF WorkerInv, At
    <3>4. Orderly(b)'
      BY <2>2, <2>5 DEF AloneAt, Orderly
    <3> QED BY <3>1, <3>3, <3>4 DEF AloneAt
  <2>7. CASE ~Concerns(x, b)
    <3>1. Working(b)' \subseteq Working(b) /\ \A d \in Working(b)' : call'[d] = call[d]
      BY <2>3, <2>4, <2>7 DEF Working
    <3> QED BY <2>2, <2>5, <3>1, QuietKeeps DEF Quiet
  <2> QED BY <2>6, <2>7
<1>2. ASSUME NEW c \in Calls, Step(c) \/ Die(c), NEW b \in Batches, b \notin overlapped'
      PROVE  AloneAt(b)'
  <2>1. overlapped' = overlapped
    BY <1>2 DEF Die, Step, InsertBatch, InsertItem, RaiseTotal, SubmitBatch,
       ApproveBatch, ClaimBatch, SettleItems, CloseBatch, FindPending, InsertApproval,
       GrantRequest, RejectRequest, Decide, ApproveRequested, RejectRequested, Follow,
       InsertReversal, ReverseRow, CloseReversal, history
  <2>2. AloneAt(b)
    BY <1>2, <2>1 DEF AloneInv
  <2>3. CASE c \notin Working(b)
    BY <1>2, <2>2, <2>3, OthersQuiet, QuietKeeps
  <2>4. CASE c \in Working(b) /\ Step(c)
    BY <2>2, <2>4, OwnStep
  <2>5. CASE c \in Working(b) /\ Die(c)
    <3>1. Return(c) /\ UNCHANGED <<batch, items, approval>>
      BY <2>5 DEF Die, tables
    <3>2. Orderly(b)'
      BY <2>2, <3>1, OrderlySame DEF AloneAt
    <3> QED BY <2>2, <2>5, <3>1, <3>2, WorkerAlone
  <2> QED BY <1>2, <2>3, <2>4, <2>5
<1>3. CASE UNCHANGED <<batch, items, approval, call, overlapped>>
  <2> SUFFICES ASSUME NEW b \in Batches, b \notin overlapped' PROVE AloneAt(b)'
    BY DEF AloneInv
  <2>1. Quiet(b) /\ AloneAt(b)
    BY <1>3 DEF Quiet, Pending, Working, AloneInv
  <2> QED BY <2>1, QuietKeeps
<1> QED BY <1>1, <1>2, <1>3
        DEF AloneInv, Next, ApproveReversal, UpdateStatus, tables, history, vars

LEMMA AloneInvariant == Spec => []AloneInv
<1>1. Init => AloneInv
  BY DEF Init, AloneInv, AloneAt, Orderly, Working, Pending, Idle
<1>2. TypeOK /\ AloneInv /\ [Next]_vars => AloneInv'
  BY AloneStep
<1> QED BY <1>1, <1>2, TypeCorrect, PTL DEF Spec

(* On a batch that calls worked on one after the other a settled batch left *)
(* no item out, one approval request at most waits, and none for a draft.   *)
THEOREM OrderlyWhenAlone == Spec => []OrderlyAlone
<1>1. AloneInv => OrderlyAlone
  <2> SUFFICES ASSUME AloneInv, NEW b \in Batches \ overlapped
               PROVE  /\ batch[b].status = "SETTLED" => items[b].added = 0
                      /\ Cardinality(Pending(b)) <= 1
                      /\ batch[b].status = "DRAFT" => Pending(b) = {}
    BY DEF OrderlyAlone
  <2>1. Orderly(b)
    BY DEF AloneInv, AloneAt
  <2>2. Pending(b) = {} \/ \E a : Pending(b) = {a}
    BY <2>1 DEF Orderly
  <2>3. Cardinality(Pending(b)) <= 1
    <3>1. Cardinality(Pending(b)) = 0 \/ Cardinality(Pending(b)) = 1
      BY <2>2, FS_EmptySet, FS_Singleton
    <3> QED BY <3>1
  <2> QED BY <2>1, <2>3 DEF Orderly
<1> QED BY <1>1, AloneInvariant, PTL

-----------------------------------------------------------------------------
(* Every step moves one batch along BatchLifecycle or none.                 *)
Unmoved == /\ \A b \in Batches : batch'[b].status = batch[b].status
           /\ \A b \in Batches : items'[b].settled = items[b].settled

LEMMA UnmovedStutters == Unmoved => UNCHANGED Lifecycle!vars
BY DEF Unmoved, Lifecycle!vars

LEMMA AdvanceMoves ==
    ASSUME TypeOK, NEW b \in Batches, NEW from \in Statuses, NEW to \in Statuses,
           Advance(b, from, to), \A d \in Batches : items'[d].settled = items[d].settled
    PROVE  Lifecycle!Move(b, from, to) \/ UNCHANGED Lifecycle!vars
<1>1. /\ \A d \in Batches \ {b} : batch'[d].status = batch[d].status
      /\ batch'[b].status = IF batch[b].status = from THEN to ELSE batch[b].status
  BY AdvanceTyped
<1>2. CASE batch[b].status = from
  BY <1>1, <1>2 DEF Lifecycle!Move
<1>3. CASE batch[b].status # from
  BY <1>1, <1>3, UnmovedStutters DEF Unmoved
<1> QED BY <1>2, <1>3

LEMMA LifecycleStep ==
    ASSUME TypeOK, TypeOK', ExecutionInv, [Next]_vars
    PROVE  [Lifecycle!Next]_(Lifecycle!vars)
<1>1. CASE Unmoved
  BY <1>1, UnmovedStutters
<1>2. ASSUME NEW c \in Calls, Step(c) PROVE Lifecycle!Next \/ UNCHANGED Lifecycle!vars
  <2>1. CASE InsertBatch(c)
    <3>1. call[c].on \in Batches /\ Advance(call[c].on, "NONE", "DRAFT") /\ UNCHANGED items
      BY <2>1 DEF InsertBatch, At, TypeOK
    <3> QED BY <3>1, AdvanceMoves DEF Statuses, Lifecycle!Create, Lifecycle!Next
  <2>2. CASE SubmitBatch(c)
    <3>1. /\ call[c].on \in Batches /\ UNCHANGED items
          /\ Advance(call[c].on, "DRAFT", "READY_FOR_APPROVAL") \/ UNCHANGED batch
      BY <2>2 DEF SubmitBatch, At, TypeOK, BatchOps
    <3>2. CASE UNCHANGED batch
      BY <3>1, <3>2, UnmovedStutters DEF Unmoved
    <3> QED BY <3>1, <3>2, AdvanceMoves DEF Statuses, Lifecycle!Submit, Lifecycle!Next
  <2>3. CASE ApproveBatch(c)
    <3>1. call[c].on \in Batches /\ Advance(call[c].on, "READY_FOR_APPROVAL", "APPROVED")
          /\ UNCHANGED items
      BY <2>3 DEF ApproveBatch, At, TypeOK, BatchOps
    <3> QED BY <3>1, AdvanceMoves DEF Statuses, Lifecycle!Approve, Lifecycle!Next
  <2>4. CASE ApproveRequested(c) \/ RejectRequested(c)
    <3>1. BatchOf[call[c].on] \in Batches /\ UNCHANGED items
      BY <2>4, BatchOfAssumption DEF ApproveRequested, RejectRequested, Follow, At, TypeOK
    <3>2. \/ Advance(BatchOf[call[c].on], "READY_FOR_APPROVAL", "APPROVED")
          \/ Advance(BatchOf[call[c].on], "READY_FOR_APPROVAL", "DRAFT")
      BY <2>4 DEF ApproveRequested, RejectRequested, Follow
    <3> QED BY <3>1, <3>2, AdvanceMoves
            DEF Statuses, Lifecycle!Approve, Lifecycle!Reject, Lifecycle!Next
  <2>5. CASE ClaimBatch(c)
    <3>1. call[c].on \in Batches /\ Advance(call[c].on, "APPROVED", "PROCESSING")
          /\ UNCHANGED items
      BY <2>5 DEF ClaimBatch, At, TypeOK, BatchOps
    <3> QED BY <3>1, AdvanceMoves DEF Statuses, Lifecycle!Claim, Lifecycle!Next
  <2>6. CASE SettleItems(c)
    <3>1. PICK b \in Batches : b = call[c].on /\ call[c].at = "claimed" /\ Executing(c)
      BY <2>6 DEF SettleItems, At, TypeOK, BatchOps, Executing
    <3>2. batch[b].status = "PROCESSING" /\ items[b].settled = 0
      BY <3>1 DEF ExecutionInv
    <3>3. UNCHANGED batch /\ \A d \in Batches \ {b} : items'[d] = items[d]
      BY <2>6, <3>1 DEF SettleItems, TypeOK
    <3>4. items'[b].settled \in Nat
      BY <3>1 DEF TypeOK
    <3>5. [d \in Batches |-> items'[d].settled]
             = [[d \in Batches |-> items[d].settled] EXCEPT ![b] = items'[b].settled]
      BY <3>1, <3>3
    <3>6. Lifecycle!Pay(b)
      BY <3>1, <3>2, <3>3, <3>4, <3>5 DEF Lifecycle!Pay
    <3> QED BY <3>6 DEF Lifecycle!Next
  <2>7. CASE CloseBatch(c)
    <3>1. PICK b \in Batches : b = call[c].on /\ Executing(c)
      BY <2>7 DEF CloseBatch, At, TypeOK, BatchOps, Executing
    <3>2. batch[b].status = "PROCESSING"
      BY <3>1 DEF ExecutionInv
    <3>3. /\ batch'[b].status = "SETTLED" /\ UNCHANGED items
          /\ \A d \in Batches \ {b} : batch'[d] = batch[d]
      BY <2>7, <3>1 DEF CloseBatch, TypeOK
    <3>4. [d \in Batches |-> batch'[d].status]
             = [[d \in Batches |-> batch[d].status] EXCEPT ![b] = "SETTLED"]
      BY <3>1, <3>3
    <3>5. Lifecycle!Finish(b)
      BY <3>1, <3>2, <3>3, <3>4 DEF Lifecycle!Finish, Lifecycle!Move
    <3> QED BY <3>5 DEF Lifecycle!Next
  <2>8. CASE InsertItem(c) \/ RaiseTotal(c)
    <3>1. call[c].on \in Batches
      BY <2>8 DEF InsertItem, RaiseTotal, At, TypeOK, BatchOps
    <3>2. CASE InsertItem(c)
      BY <3>1, <3>2, UnmovedStutters DEF InsertItem, TypeOK, Unmoved
    <3>3. CASE RaiseTotal(c)
      BY <3>1, <3>3, UnmovedStutters DEF RaiseTotal, TypeOK, Unmoved
    <3> QED BY <2>8, <3>2, <3>3
  <2>9. CASE UNCHANGED <<batch, items>>
    BY <2>9, UnmovedStutters DEF Unmoved
  <2> QED BY <1>2, <2>1, <2>2, <2>3, <2>4, <2>5, <2>6, <2>7, <2>8, <2>9
          DEF Step, FindPending, InsertApproval, GrantRequest, RejectRequest, Decide,
              InsertReversal, ReverseRow, CloseReversal, tables
<1>3. CASE UNCHANGED <<batch, items>>
  BY <1>3, UnmovedStutters DEF Unmoved
<1> QED BY <1>2, <1>3 DEF Next, Arrive, CreateBatch, ReadBatch, ReadApproval, CreateReversal,
           ReadReversal, Start, Die, ApproveReversal, UpdateStatus, tables, vars

(* Settlement implements BatchLifecycle: whatever calls overlap or die, a   *)
(* batch is approved after its submission, executed once after an approval, *)
(* pays its items in that execution only, and stays SETTLED.                *)
THEOREM LifecycleImplemented == Spec => ImplementsLifecycle
<1>1. Init => Lifecycle!Init /\ ExecutionInv
  BY DEF Init, Lifecycle!Init, ExecutionInv, Executing, Idle
<1>2. TypeOK /\ TypeOK' /\ ExecutionInv /\ [Next]_vars =>
         ExecutionInv' /\ [Lifecycle!Next]_(Lifecycle!vars)
  BY ExecutionStep, LifecycleStep
<1> QED BY <1>1, <1>2, TypeCorrect, PTL DEF Spec, ImplementsLifecycle, Lifecycle!Spec

\* What BatchLifecycle promises, of whatever implements it.
LEMMA LifecyclePays ==
    ASSUME Lifecycle!PaidWhenExecuted, [Lifecycle!Next]_(Lifecycle!vars)
    PROVE  Lifecycle!PaidWhenExecuted'
BY DEF Lifecycle!PaidWhenExecuted, Lifecycle!Next, Lifecycle!vars, Lifecycle!Create, Lifecycle!Submit,
       Lifecycle!Approve, Lifecycle!Reject, Lifecycle!Claim, Lifecycle!Finish, Lifecycle!Pay, Lifecycle!Move

(* Whatever calls overlap or die, items are settled only in a batch that an *)
(* execution has claimed.                                                   *)
THEOREM PaidOnlyWhenExecuted == Spec => []Lifecycle!PaidWhenExecuted
<1>1. Lifecycle!Init => Lifecycle!PaidWhenExecuted
  BY DEF Lifecycle!Init, Lifecycle!PaidWhenExecuted
<1> QED BY <1>1, LifecyclePays, LifecycleImplemented, PTL DEF ImplementsLifecycle, Lifecycle!Spec

LEMMA MoveKeepsSettled ==
    ASSUME NEW b \in Batches, NEW from, NEW to, from # "SETTLED", Lifecycle!Move(b, from, to)
    PROVE  Lifecycle!KeepsSettled
BY DEF Lifecycle!Move, Lifecycle!KeepsSettled

LEMMA PayKeepsSettled ==
    ASSUME NEW b \in Batches, Lifecycle!Pay(b)
    PROVE  Lifecycle!KeepsSettled
<1> DEFINE was == [d \in Batches |-> batch[d].status]
           paid == [d \in Batches |-> items[d].settled]
<1>1. was[b] = "PROCESSING" /\ paid[b] = 0 /\ was' = was
  BY DEF Lifecycle!Pay
<1>2. \A d \in Batches \ {b} : paid'[d] = paid[d]
  BY DEF Lifecycle!Pay
<1> QED BY <1>1, <1>2 DEF Lifecycle!KeepsSettled

(* Overlapping executions never settle a batch twice, and no call leaves    *)
(* the state SETTLED.                                                       *)
THEOREM BatchSettledForGood == Spec => Lifecycle!SettledForGood
<1>1. ASSUME NEW b \in Batches, Lifecycle!Create(b) \/ Lifecycle!Submit(b) \/ Lifecycle!Approve(b)
      PROVE  Lifecycle!KeepsSettled
  <2>1. CASE Lifecycle!Create(b)  BY <2>1, MoveKeepsSettled DEF Lifecycle!Create
  <2>2. CASE Lifecycle!Submit(b)  BY <2>2, MoveKeepsSettled DEF Lifecycle!Submit
  <2>3. CASE Lifecycle!Approve(b) BY <2>3, MoveKeepsSettled DEF Lifecycle!Approve
  <2> QED BY <1>1, <2>1, <2>2, <2>3
<1>2. ASSUME NEW b \in Batches, Lifecycle!Reject(b) \/ Lifecycle!Claim(b) \/ Lifecycle!Finish(b)
      PROVE  Lifecycle!KeepsSettled
  <2>1. CASE Lifecycle!Reject(b) BY <2>1, MoveKeepsSettled DEF Lifecycle!Reject
  <2>2. CASE Lifecycle!Claim(b)  BY <2>2, MoveKeepsSettled DEF Lifecycle!Claim
  <2>3. CASE Lifecycle!Finish(b) BY <2>3, MoveKeepsSettled DEF Lifecycle!Finish
  <2> QED BY <1>2, <2>1, <2>2, <2>3
<1>3. Lifecycle!Next => Lifecycle!KeepsSettled
  BY <1>1, <1>2, PayKeepsSettled DEF Lifecycle!Next
<1> QED BY <1>3, LifecycleImplemented, PTL DEF ImplementsLifecycle, Lifecycle!Spec, Lifecycle!SettledForGood

-----------------------------------------------------------------------------
(* A reversal is executed only once it was approved: the execution trusts   *)
(* the status it read, but APPROVED and EXECUTED are never left for less.   *)
Runs(c, op) == call[c].at # "idle" /\ call[c].op = op

ReversalInv ==
    /\ ExecutionsBacked
    /\ \A c \in Calls : Runs(c, "undo") =>
          /\ reversal[call[c].on] \in {"APPROVED", "EXECUTED"}
          /\ call[c].at = "reversed" => call[c].on \in undone
    /\ \A c \in Calls : Runs(c, "reverse") => reversal[call[c].on] = "NONE"
    /\ \A c, d \in Calls :
          Runs(c, "reverse") /\ Runs(d, "reverse") /\ call[c].on = call[d].on => c = d

(* What a step does to the calls that work on reversals, if it only moves   *)
(* them on or ends them.                                                    *)
Onwards ==
    \A c \in Calls : call'[c].at # "idle" /\ call'[c].op \in {"undo", "reverse"} =>
        /\ call[c].at # "idle" /\ call[c].op = call'[c].op /\ call[c].on = call'[c].on
        /\ call'[c].at = "reversed" => call[c].at = "reversed"

LEMMA OnwardsKeeps ==
    ASSUME TypeOK, ReversalInv, Onwards, UNCHANGED <<reversal, undone>>
    PROVE  ReversalInv'
BY DEF Onwards, ReversalInv, ExecutionsBacked, Runs

LEMMA ReturnOnwards ==
    ASSUME TypeOK, NEW c \in Calls, Return(c)
    PROVE  Onwards
BY DEF Return, TypeOK, Onwards, Idle

LEMMA GotoOnwards ==
    ASSUME TypeOK, NEW c \in Calls, call[c].at # "idle", NEW p \in Points \ {"reversed"}, Goto(c, p)
    PROVE  Onwards
<1>1. call[c] \in CallRecord
  BY TypeParts, Running
<1>2. \A d \in Calls \ {c} : call'[d] = call[d]
  BY DEF Goto, TypeOK
<1>3. call'[c].at = p /\ call'[c].op = call[c].op /\ call'[c].on = call[c].on
  BY <1>1 DEF Goto, TypeOK, CallRecord
<1> QED BY <1>2, <1>3 DEF Onwards

LEMMA StartCall ==
    ASSUME TypeOK, NEW c \in Calls, NEW op \in Ops, NEW x \in Targets,
           Start(c, op, x)
    PROVE  /\ call[c].at = "idle"
           /\ call'[c].at = "read" /\ call'[c].op = op /\ call'[c].on = x
           /\ \A d \in Calls \ {c} : call'[d] = call[d]
           /\ UNCHANGED <<reversal, undone>>
BY DEF Start, TypeOK, tables

LEMMA ReversalStep ==
    ASSUME TypeOK, TypeOK', ReversalInv, [Next]_vars
    PROVE  ReversalInv'
<1>1. ASSUME NEW c \in Calls, Arrive(c) PROVE ReversalInv'
  <2>1. ASSUME NEW op \in Ops \ {"undo", "reverse"}, NEW x \in Targets,
               Start(c, op, x)
        PROVE  ReversalInv'
    BY <2>1, StartCall, OnwardsKeeps DEF Onwards
  <2>2. ASSUME NEW b \in Batches, CreateBatch(c, b) PROVE ReversalInv'
    <3>1. "create" \in Ops \ {"undo", "reverse"} /\ b \in Targets
      BY DEF Ops, Targets
    <3> QED BY <3>1, <2>1, <2>2 DEF CreateBatch
  <2>3. ASSUME NEW b \in Batches, NEW op \in BatchOps, ReadBatch(c, op, b) PROVE ReversalInv'
    <3>1. op \in Ops \ {"undo", "reverse"} /\ b \in Targets
      BY DEF Ops, Targets, BatchOps
    <3> QED BY <3>1, <2>1, <2>3 DEF ReadBatch
  <2>4. ASSUME NEW a \in Approvals, NEW op \in {"grant", "reject"}, ReadApproval(c, op, a)
        PROVE  ReversalInv'
    <3>1. op \in Ops \ {"undo", "reverse"} /\ a \in Targets
      BY DEF Ops, Targets
    <3> QED BY <3>1, <2>1, <2>4 DEF ReadApproval
  <2>5. ASSUME NEW r \in Reversals, CreateReversal(c, r) PROVE ReversalInv'
    <3>1. /\ call[c].at = "idle"
          /\ call'[c].at = "read" /\ call'[c].op = "reverse" /\ call'[c].on = r
          /\ \A d \in Calls \ {c} : call'[d] = call[d]
          /\ UNCHANGED <<reversal, undone>>
      BY <2>5, StartCall DEF CreateReversal, Ops, Targets
    <3>2. reversal[r] = "NONE" /\ \A d \in Calls : call[d].at # "idle" => call[d].on # r
      BY <2>5 DEF CreateReversal, Busy
    <3> QED BY <3>1, <3>2 DEF ReversalInv, ExecutionsBacked, Runs
  <2>6. ASSUME NEW r \in Reversals, ReadReversal(c, r) PROVE ReversalInv'
    <3>1. /\ call[c].at = "idle"
          /\ call'[c].at = "read" /\ call'[c].op = "undo" /\ call'[c].on = r
          /\ \A d \in Calls \ {c} : call'[d] = call[d]
          /\ UNCHANGED <<reversal, undone>>
      BY <2>6, StartCall DEF ReadReversal, Ops, Targets
    <3>2. reversal[r] = "APPROVED"
      BY <2>6 DEF ReadReversal
    <3> QED BY <3>1, <3>2 DEF ReversalInv, ExecutionsBacked, Runs
  <2> QED BY <1>1, <2>2, <2>3, <2>4, <2>5, <2>6 DEF Arrive
<1>2. ASSUME NEW c \in Calls, Step(c) PROVE ReversalInv'
  <2>1. CASE InsertReversal(c)
    <3>1. Runs(c, "reverse") /\ call[c].on \in Reversals
      BY <2>1 DEF InsertReversal, At, Runs, TypeOK
    <3>2. /\ reversal'[call[c].on] = "REQUESTED" /\ UNCHANGED undone
          /\ \A r \in Reversals \ {call[c].on} : reversal'[r] = reversal[r]
      BY <2>1, <3>1 DEF InsertReversal, TypeOK, history
    <3>3. reversal[call[c].on] = "NONE"
      BY <3>1 DEF ReversalInv
    <3>4. call'[c].at = "idle" /\ \A d \in Calls \ {c} : call'[d] = call[d]
      BY <2>1 DEF InsertReversal, Return, TypeOK, Idle
    <3>5. ExecutionsBacked'
      BY <3>2, <3>3 DEF ReversalInv, ExecutionsBacked, TypeOK
    <3>6. \A d \in Calls \ {c} :
             /\ Runs(d, "undo") => call[d].on # call[c].on /\ call[d].on \in Reversals
             /\ Runs(d, "reverse") => call[d].on # call[c].on /\ call[d].on \in Reversals
      BY <3>1, <3>3 DEF ReversalInv, Runs, TypeOK
    <3> QED BY <3>2, <3>4, <3>5, <3>6 DEF ReversalInv, Runs
  <2>2. CASE ReverseRow(c)
    <3>1. Runs(c, "undo") /\ call[c].on \in Reversals
      BY <2>2 DEF ReverseRow, At, Runs, TypeOK
    <3>2. UNCHANGED reversal /\ undone' = undone \cup {call[c].on}
      BY <2>2 DEF ReverseRow
    <3>3. /\ \A d \in Calls \ {c} : call'[d] = call[d]
          /\ call'[c].op = "undo" /\ call'[c].on = call[c].on
      BY <2>2, <3>1 DEF ReverseRow, Goto, TypeOK, Idle, Runs
    <3>4. reversal[call[c].on] \in {"APPROVED", "EXECUTED"}
      BY <3>1 DEF ReversalInv
    <3>5. ExecutionsBacked'
      BY <3>2, <3>4 DEF ReversalInv, ExecutionsBacked
    <3>6. ASSUME NEW d \in Calls, Runs(d, "undo")'
          PROVE  /\ reversal'[call'[d].on] \in {"APPROVED", "EXECUTED"}
                 /\ call'[d].at = "reversed" => call'[d].on \in undone'
      <4>1. CASE d = c
        BY <4>1, <3>2, <3>3, <3>4
      <4>2. CASE d # c
        <5>1. Runs(d, "undo") /\ call'[d] = call[d]
          BY <4>2, <3>3, <3>6 DEF Runs
        <5> QED BY <5>1, <3>2 DEF ReversalInv
      <4> QED BY <4>1, <4>2
    <3>7. \A d \in Calls : Runs(d, "reverse")' => d # c /\ Runs(d, "reverse") /\ call'[d] = call[d]
      BY <3>3 DEF Runs
    <3> QED BY <3>2, <3>5, <3>6, <3>7 DEF ReversalInv
  <2>3. CASE CloseReversal(c)
    <3>1. Runs(c, "undo") /\ call[c].on \in Reversals /\ call[c].at = "reversed"
      BY <2>3 DEF CloseReversal, At, Runs, TypeOK
    <3>2. /\ reversal'[call[c].on] = "EXECUTED" /\ UNCHANGED undone
          /\ \A r \in Reversals \ {call[c].on} : reversal'[r] = reversal[r]
      BY <2>3, <3>1 DEF CloseReversal, TypeOK, history
    <3>3. call[c].on \in undone /\ reversal[call[c].on] \in {"APPROVED", "EXECUTED"}
      BY <3>1 DEF ReversalInv
    <3>4. call'[c].at = "idle" /\ \A d \in Calls \ {c} : call'[d] = call[d]
      BY <2>3 DEF CloseReversal, Return, TypeOK, Idle
    <3>5. ExecutionsBacked'
      BY <3>2, <3>3 DEF ReversalInv, ExecutionsBacked, TypeOK
    <3>6. \A d \in Calls : /\ Runs(d, "undo") => call[d].on \in Reversals
                           /\ Runs(d, "reverse") => call[d].on \in Reversals \ {call[c].on}
      BY <3>3 DEF ReversalInv, Runs, TypeOK
    <3> QED BY <3>2, <3>4, <3>5, <3>6 DEF ReversalInv, Runs
  <2>4. CASE InsertBatch(c) \/ InsertItem(c) \/ RaiseTotal(c) \/ SubmitBatch(c)
             \/ ApproveBatch(c) \/ ClaimBatch(c) \/ SettleItems(c) \/ CloseBatch(c)
             \/ FindPending(c) \/ (\E a \in Approvals : InsertApproval(c, a))
             \/ GrantRequest(c) \/ RejectRequest(c) \/ ApproveRequested(c) \/ RejectRequested(c)
    <3>1. call[c].at # "idle"
      BY <2>4 DEF InsertBatch, InsertItem, RaiseTotal, SubmitBatch, ApproveBatch,
         ClaimBatch, SettleItems, CloseBatch, FindPending, InsertApproval, GrantRequest,
         RejectRequest, Decide, ApproveRequested, RejectRequested, Follow, At
    <3>2. Return(c) \/ \E p \in Points \ {"reversed"} : Goto(c, p)
      BY <2>4 DEF InsertBatch, InsertItem, RaiseTotal, SubmitBatch, ApproveBatch,
         ClaimBatch, SettleItems, CloseBatch, FindPending, InsertApproval, GrantRequest,
         RejectRequest, Decide, ApproveRequested, RejectRequested, Follow, Points, Return, Goto
    <3>3. UNCHANGED <<reversal, undone>>
      BY <2>4 DEF InsertBatch, InsertItem, RaiseTotal, SubmitBatch, ApproveBatch,
         ClaimBatch, SettleItems, CloseBatch, FindPending, InsertApproval, GrantRequest,
         RejectRequest, Decide, ApproveRequested, RejectRequested, Follow, tables, history
    <3> QED BY <3>1, <3>2, <3>3, ReturnOnwards, GotoOnwards, OnwardsKeeps
  <2> QED BY <1>2, <2>1, <2>2, <2>3, <2>4 DEF Step
<1>3. ASSUME NEW c \in Calls, Die(c) PROVE ReversalInv'
  <2>1. Return(c) /\ UNCHANGED <<reversal, undone>>
    BY <1>3 DEF Die, tables
  <2> QED BY <2>1, ReturnOnwards, OnwardsKeeps
<1>4. ASSUME NEW r \in Reversals, ApproveReversal(r) PROVE ReversalInv'
  <2>1. /\ reversal[r] = "REQUESTED" /\ reversal'[r] = "APPROVED" /\ UNCHANGED <<undone, call>>
        /\ \A q \in Reversals \ {r} : reversal'[q] = reversal[q]
    BY <1>4 DEF ApproveReversal, TypeOK, history
  <2>2. \A d \in Calls : /\ Runs(d, "undo") => call[d].on \in Reversals \ {r}
                         /\ Runs(d, "reverse") => call[d].on \in Reversals \ {r}
    BY <2>1 DEF ReversalInv, Runs, TypeOK
  <2>3. ExecutionsBacked'
    BY <2>1 DEF ReversalInv, ExecutionsBacked, TypeOK
  <2> QED BY <2>1, <2>2, <2>3 DEF ReversalInv, Runs
<1>5. CASE UNCHANGED <<reversal, undone, call>>
  BY <1>5, OnwardsKeeps DEF Onwards
<1> QED BY <1>1, <1>2, <1>3, <1>4, <1>5 DEF Next, UpdateStatus, history, tables, vars

LEMMA ReversalInvariant == Spec => []ReversalInv
<1>1. Init => ReversalInv
  BY DEF Init, ReversalInv, ExecutionsBacked, Runs, Idle
<1>2. TypeOK /\ TypeOK' /\ ReversalInv /\ [Next]_vars => ReversalInv'
  BY ReversalStep
<1> QED BY <1>1, <1>2, TypeCorrect, PTL DEF Spec

(* Whatever calls overlap, die or rewrite the ledger row, an execution       *)
(* reverses a row only for an approved reversal, and a reversal is EXECUTED  *)
(* only after an execution of it wrote its row.                              *)
THEOREM ExecutionsAreBacked == Spec => []ExecutionsBacked
<1>1. ReversalInv => ExecutionsBacked
  BY DEF ReversalInv
<1> QED BY <1>1, ReversalInvariant, PTL
=============================================================================
