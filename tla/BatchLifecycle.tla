--------------------------- MODULE BatchLifecycle ---------------------------
(***************************************************************************)
(* What the settlement package promises of a batch, whatever calls         *)
(* overlap: it is approved only after submission, executed once and only   *)
(* after an approval, its items are settled only while it is executed, and *)
(* a settled batch stays settled.                                          *)
(***************************************************************************)
EXTENDS Naturals

CONSTANT Batches

VARIABLES status,   \* the batch's status column, "NONE" before the INSERT
          settled   \* how many of its items are SETTLED

vars == <<status, settled>>

Init == /\ status = [b \in Batches |-> "NONE"]
        /\ settled = [b \in Batches |-> 0]

Move(b, from, to) == /\ status[b] = from
                     /\ status' = [status EXCEPT ![b] = to]
                     /\ UNCHANGED settled

Create(b)  == Move(b, "NONE", "DRAFT")
Submit(b)  == Move(b, "DRAFT", "READY_FOR_APPROVAL")
Approve(b) == Move(b, "READY_FOR_APPROVAL", "APPROVED")
Reject(b)  == Move(b, "READY_FOR_APPROVAL", "DRAFT")
Claim(b)   == Move(b, "APPROVED", "PROCESSING")
Finish(b)  == Move(b, "PROCESSING", "SETTLED")

(* One payment of all the items at once, while the batch is executed.      *)
Pay(b) == /\ status[b] = "PROCESSING"
          /\ settled[b] = 0
          /\ settled'[b] \in Nat
          /\ settled' = [settled EXCEPT ![b] = settled'[b]]
          /\ UNCHANGED status

Next == \E b \in Batches : \/ Create(b) \/ Submit(b) \/ Approve(b) \/ Reject(b)
                           \/ Claim(b) \/ Pay(b) \/ Finish(b)

Spec == Init /\ [][Next]_vars

(* Items are paid only once an execution has claimed the batch.             *)
PaidWhenExecuted ==
    \A b \in Batches : settled[b] > 0 => status[b] \in {"PROCESSING", "SETTLED"}

(* What is settled is never paid again, and no batch is reopened.           *)
KeepsSettled ==
    \A b \in Batches :
       /\ settled[b] > 0 => settled'[b] = settled[b]
       /\ status[b] = "SETTLED" => status'[b] = "SETTLED" /\ settled'[b] = settled[b]
SettledForGood == [][KeepsSettled]_vars
=============================================================================
