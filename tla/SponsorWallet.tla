---------------------------- MODULE SponsorWallet ----------------------------
(***************************************************************************)
(* A sponsor's wallet and the allocations rewards take from it             *)
(* (services/marketplace_funding: sponsor_funding_service and              *)
(* sponsor_wallet_balance_service), as the funding orchestrator and the    *)
(* top-up route call them.                                                 *)
(*                                                                         *)
(* A call reads the allocation, reads the wallet, writes both balances     *)
(* back as absolute values, inserts a ledger row and moves the allocation, *)
(* each a statement that commits on a connection of its own.               *)
(***************************************************************************)
EXTENDS Integers, FiniteSetsExt

CONSTANTS Calls,      \* concurrent calls
          Rewards,    \* rewards a sponsor pays for
          Uuids,      \* those whose id is a UUID, as the allocations table wants it
          Amount,     \* what each of them costs
          Deposit,    \* what a top-up pays in
          MaxTopups,  \* bound: top-ups
          MaxFaults   \* bound: calls that die between two statements

ASSUME AmountAssumption == Amount \in [Rewards -> Nat \ {0}]
ASSUME BoundsAssumption == Deposit \in Nat \ {0} /\ MaxTopups \in Nat /\ MaxFaults \in Nat
ASSUME RewardsAssumption == "TOPUP" \notin Rewards
ASSUME UuidsAssumption == Uuids \subseteq Rewards
ASSUME FinitenessAssumption == IsFiniteSet(Calls) /\ IsFiniteSet(Rewards)

VARIABLES wallet,      \* sponsor_wallets: current and reserved balance
          allocation,  \* marketplace_funding_allocations: status per reward
          topped,      \* sponsor_wallet_ledger: how many TOPUP rows
          rows,        \* sponsor_wallet_ledger: how many of each other type per reward
          call,        \* where each call is and the balances it read
          raced,       \* history: a balance was overwritten that the call had not read
          torn,        \* history: rewards on which two calls met or one died
          unrecorded,  \* history: changes of the balances whose ledger row was never written
          faults       \* calls that died so far

vars == <<wallet, allocation, topped, rows, call, raced, torn, unrecorded, faults>>
history == <<raced, torn, unrecorded, faults>>

Statuses == {"NONE", "RESERVED", "RELEASED", "DEBITED", "REVERSED"}
Ops == {"TOPUP", "RESERVE", "RELEASE", "DEBIT", "REVERSE"}
Empty == [current |-> 0, reserved |-> 0]
Idle == [at |-> "idle"]

Init == /\ wallet = Empty
        /\ allocation = [r \in Rewards |-> "NONE"]
        /\ topped = 0
        /\ rows = [r \in Rewards |-> [t \in {"RESERVE", "RELEASE", "DEBIT"} |-> 0]]
        /\ call = [c \in Calls |-> Idle]
        /\ raced = FALSE
        /\ torn = {}
        /\ unrecorded = Empty
        /\ faults = 0

-----------------------------------------------------------------------------
At(c, at) == call[c].at = at
Goto(c, at) == call' = [call EXCEPT ![c].at = at]
Return(c) == call' = [call EXCEPT ![c] = Idle]
On(r) == {c \in Calls : ~At(c, "idle") /\ call[c].on = r}
Begin(c, op, on) ==
    call' = [call EXCEPT ![c] = [at |-> "begun", op |-> op, on |-> on, seen |-> Empty]]

(* The amount of a call.                                                    *)
Price(k) == IF k.op = "TOPUP" THEN Deposit ELSE Amount[k.on]

(* topup_wallet. (The route that is meant to call it leaves out its          *)
(* tenant_code, so that a request raises TypeError before it gets here.)    *)
TopUp(c) ==
    /\ At(c, "idle")
    /\ topped + faults + Cardinality(On("TOPUP")) < MaxTopups
    /\ Begin(c, "TOPUP", "TOPUP")
    /\ UNCHANGED <<wallet, allocation, topped, rows, history>>

(* get_allocation_by_reward: the call goes on only from this status. For an *)
(* id that is no UUID (rewards.id is a BIGSERIAL) it answers None, which is *)
(* NONE here: such a reward can be reserved, again and again, and nothing   *)
(* else.                                                                    *)
\* Mutant: a debit asks only for an allocation that was not debited yet.
ExpectedMutant(op) == CASE op = "RESERVE" -> {"NONE"}
                        [] op = "DEBIT" -> {"RESERVED", "RELEASED"}
                        [] op = "RELEASE" -> {"RESERVED"}
                        [] op = "REVERSE" -> {"DEBITED"}
Expected(op) == CASE op = "RESERVE" -> {"NONE"}
                  [] op \in {"RELEASE", "DEBIT"} -> {"RESERVED"}
                  [] op = "REVERSE" -> {"DEBITED"}

ReadAllocation(c, op, r) ==
    /\ At(c, "idle")
    /\ allocation[r] \in Expected(op)
    /\ Begin(c, op, r)
    /\ torn' = IF On(r) = {} THEN torn ELSE torn \cup {r}
    /\ UNCHANGED <<wallet, allocation, topped, rows, raced, unrecorded, faults>>

(* get_sponsor_wallet and the check of the amount against what was read.    *)
\* Mutant: a reservation is checked against the whole balance.
CoversMutant(w, op, a) == CASE op = "TOPUP" -> TRUE
                            [] op = "RESERVE" -> a <= w.current
                            [] op = "RELEASE" -> a <= w.reserved
                            [] op = "DEBIT" -> a <= w.current /\ a <= w.reserved
Covers(w, op, a) == CASE op = "TOPUP" -> TRUE
                      [] op = "RESERVE" -> a <= w.current - w.reserved
                      [] op = "RELEASE" -> a <= w.reserved
                      [] op = "DEBIT" -> a <= w.current /\ a <= w.reserved

ReadWallet(c) ==
    /\ At(c, "begun") /\ call[c].op # "REVERSE"
    /\ call' = [call EXCEPT ![c] = IF Covers(wallet, @.op, Price(@))
                                     THEN [@ EXCEPT !.at = "read", !.seen = wallet] ELSE Idle]
    /\ UNCHANGED <<wallet, allocation, topped, rows, history>>

(* The two balances after an operation, computed from the ones it read.     *)
\* Mutant: a release takes the amount from the balance as well.
AfterMutant(w, op, a) ==
    [current |-> w.current + (IF op = "TOPUP" THEN a ELSE IF op \in {"DEBIT", "RELEASE"} THEN -a ELSE 0),
     reserved |-> w.reserved + (IF op = "RESERVE" THEN a ELSE IF op = "TOPUP" THEN 0 ELSE -a)]
After(w, op, a) ==
    [current |-> w.current + (IF op = "TOPUP" THEN a ELSE IF op = "DEBIT" THEN -a ELSE 0),
     reserved |-> w.reserved + (IF op = "RESERVE" THEN a ELSE IF op = "TOPUP" THEN 0 ELSE -a)]

WriteWallet(c) ==
    /\ At(c, "read")
    /\ wallet' = After(call[c].seen, call[c].op, Price(call[c]))
    /\ raced' = (raced \/ wallet # call[c].seen)
    /\ call' = [call EXCEPT ![c] = [@ EXCEPT !.at = "moved", !.seen = Empty]]
    /\ UNCHANGED <<allocation, topped, rows, torn, unrecorded, faults>>

RecordTopup(c) ==
    /\ At(c, "moved") /\ call[c].op = "TOPUP"
    /\ topped' = topped + 1
    /\ Return(c)
    /\ UNCHANGED <<wallet, allocation, rows, history>>

RecordTransaction(c) ==
    /\ At(c, "moved") /\ call[c].op # "TOPUP"
    /\ rows' = [rows EXCEPT ![call[c].on][call[c].op] = @ + 1]
    /\ Goto(c, "recorded")
    /\ UNCHANGED <<wallet, allocation, topped, history>>

(* Last the allocation. An INSERT fails when the reward has one, as         *)
(* reward_id is unique, and when the id is no UUID; the UPDATEs ask for the *)
(* status again and otherwise change no row. The money has moved by then.   *)
Outcome(op) == CASE op = "RESERVE" -> "RESERVED" [] op = "RELEASE" -> "RELEASED"
                 [] op = "DEBIT" -> "DEBITED" [] op = "REVERSE" -> "REVERSED"

Settle(c) ==
    /\ allocation' = [allocation EXCEPT ![call[c].on] =
                          IF call[c].on \in Uuids /\ @ \in Expected(call[c].op)
                          THEN Outcome(call[c].op) ELSE @]
    /\ Return(c)
    /\ UNCHANGED <<wallet, topped, rows, history>>

InsertAllocation(c) == At(c, "recorded") /\ call[c].op = "RESERVE" /\ Settle(c)

\* Mutant: a status the schema does not know.
UpdateAllocationMutant(c) ==
    /\ At(c, "recorded") /\ call[c].op \in {"RELEASE", "DEBIT"}
    /\ allocation' = [allocation EXCEPT ![call[c].on] = "SETTLED"]
    /\ Return(c)
    /\ UNCHANGED <<wallet, topped, rows, history>>
UpdateAllocation(c) ==
    At(c, "recorded") /\ call[c].op \in {"RELEASE", "DEBIT"} /\ Settle(c)

(* A reversal gives the sponsor no money back: it only moves the status.    *)
ReverseAllocation(c) == At(c, "begun") /\ call[c].op = "REVERSE" /\ Settle(c)

(* The process stops or a statement fails.                                  *)
Die(c) ==
    /\ ~At(c, "idle")
    /\ faults < MaxFaults
    /\ faults' = faults + 1
    /\ torn' = torn \cup ({call[c].on} \cap Rewards)
    /\ unrecorded' = IF At(c, "moved") THEN After(unrecorded, call[c].op, Price(call[c]))
                                       ELSE unrecorded
    /\ Return(c)
    /\ UNCHANGED <<wallet, allocation, topped, rows, raced>>

Next == \E c \in Calls :
          \/ TopUp(c)
          \/ \E op \in Ops \ {"TOPUP"}, r \in Rewards : ReadAllocation(c, op, r)
          \/ ReadWallet(c) \/ WriteWallet(c)
          \/ RecordTopup(c) \/ RecordTransaction(c)
          \/ InsertAllocation(c) \/ UpdateAllocation(c) \/ ReverseAllocation(c)
          \/ Die(c)

Spec == Init /\ [][Next]_vars
-----------------------------------------------------------------------------
Balances == [current: Int, reserved: Int]

TypeOK ==
    /\ wallet \in Balances
    /\ allocation \in [Rewards -> Statuses]
    /\ topped \in Nat
    /\ rows \in [Rewards -> [{"RESERVE", "RELEASE", "DEBIT"} -> Nat]]
    /\ call \in [Calls -> {Idle} \cup [at: {"begun", "read", "moved", "recorded"}, op: Ops,
                                      on: Rewards \cup {"TOPUP"}, seen: Balances]]
    /\ \A c \in Calls : ~At(c, "idle") =>
          /\ call[c].op = "TOPUP" <=> call[c].on = "TOPUP"
          /\ call[c].op = "REVERSE" => At(c, "begun")
          /\ call[c].op = "TOPUP" => ~At(c, "recorded")
    /\ raced \in BOOLEAN
    /\ torn \subseteq Rewards
    /\ unrecorded \in Balances
    /\ faults \in 0 .. MaxFaults

(* However calls overlap or die, the wallet never holds back more than it   *)
(* has: every balance written was computed from a pair that was sound, by   *)
(* an operation that pair could pay for.                                    *)
Solvent == 0 <= wallet.reserved /\ wallet.reserved <= wallet.current

(* As long as no call has overwritten a balance it had not read, the ledger *)
(* explains both balances: the only changes it lacks are those of calls     *)
(* that are about to insert their row and of calls that died there.         *)
Moving(on, t) == {c \in Calls : At(c, "moved") /\ call[c].on = on /\ call[c].op = t}
Moved(r, t) == rows[r][t] + Cardinality(Moving(r, t))
Spent(r) == Moved(r, "DEBIT") * Amount[r]
Held(r) == (Moved(r, "RESERVE") - Moved(r, "RELEASE")) * Amount[r]
AllSpent == SumFunction([r \in Rewards |-> Spent(r)])
AllHeld == SumFunction([r \in Rewards |-> Held(r)])
LedgerExplains == ~raced =>
    /\ wallet.current = Deposit * (topped + Cardinality(Moving("TOPUP", "TOPUP")))
                          + unrecorded.current - AllSpent
    /\ wallet.reserved = AllHeld + unrecorded.reserved - AllSpent

(* The ledger's rows against the allocation, whatever happened to the       *)
(* balances. No allocation is ever ahead of the ledger: a status it reached *)
(* has its row, whichever calls overlapped or died. And a reward on which   *)
(* calls came one after the other and none died has exactly one row for     *)
(* each step of its allocation. Other rewards of the wallet, whose calls    *)
(* overlap with these, change none of this. (Rewards whose id is no UUID    *)
(* have no allocation: each reservation of one leaves a row and no more.)   *)
Made(s) == [t \in {"RESERVE", "RELEASE", "DEBIT"} |->
               CASE t = "RESERVE" -> IF s = "NONE" THEN 0 ELSE 1
                 [] t = "RELEASE" -> IF s = "RELEASED" THEN 1 ELSE 0
                 [] t = "DEBIT" -> IF s \in {"DEBITED", "REVERSED"} THEN 1 ELSE 0]
StepsRecorded ==
    /\ \A r \in Rewards, t \in {"RESERVE", "RELEASE", "DEBIT"} :
          rows[r][t] >= Made(allocation[r])[t]
    /\ \A r \in Uuids \ torn : On(r) = {} => rows[r] = Made(allocation[r])
=============================================================================
