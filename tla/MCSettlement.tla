---------------------------- MODULE MCSettlement ----------------------------
(***************************************************************************)
(* TLC instance of Settlement: a batch with two approval requests, and a   *)
(* ledger row with one reversal.                                           *)
(***************************************************************************)
EXTENDS Settlement, TLC

CONSTANTS c1, c2, b1, a1, a2, r1, row1

AllOfOneBatch == [a \in {a1, a2} |-> b1]
AllOfOneRow == [r \in {r1} |-> row1]
Alike == Permutations({c1, c2}) \cup Permutations({a1, a2})
=============================================================================
