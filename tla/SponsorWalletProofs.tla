------------------------- MODULE SponsorWalletProofs -------------------------
(***************************************************************************)
(* What holds of every wallet, any number of calls, rewards, top-ups and   *)
(* faults: the types, solvency, that the ledger has a row for every step   *)
(* of an allocation, and that it explains both balances.                   *)
(***************************************************************************)
EXTENDS SponsorWallet, SumTheorems

Kinds == {"RESERVE", "RELEASE", "DEBIT"}
Points == {"begun", "read", "moved", "recorded"}
Busy(c) == call[c].at # "idle"
CallType == {Idle} \cup [at: Points, op: Ops, on: Rewards \cup {"TOPUP"}, seen: Balances]

(* What a busy call is known to be about.                                   *)
CallOK(k) == k.at # "idle" => /\ k.op = "TOPUP" <=> k.on = "TOPUP"
                              /\ k.op = "REVERSE" => k.at = "begun"
                              /\ k.op = "TOPUP" => k.at # "recorded"

(* A pair of balances that is solvent, and what a call keeps of the pair it *)
(* read: it was, and it covers the operation the call is about to write.    *)
Sound(w) == 0 <= w.reserved /\ w.reserved <= w.current
Ready(k) == k.at = "read" => Sound(k.seen) /\ Covers(k.seen, k.op, Price(k))
SolvencyInv == Sound(wallet) /\ \A c \in Calls : Ready(call[c])

(* A reward that is not torn has one call at most, whose status is the one  *)
(* it expects, and its rows are one step ahead only once that call has      *)
(* inserted its own.                                                        *)
Alone == \A c, d \in Calls : Busy(c) /\ Busy(d) /\ call[c].on = call[d].on
                               /\ call[c].on \in Uuids \ torn => c = d
Ahead(c) == [t \in Kinds |-> Made(allocation[call[c].on])[t]
                               + IF call[c].at = "recorded" /\ t = call[c].op THEN 1 ELSE 0]
InStep == \A c \in Calls : Busy(c) /\ call[c].on \in Uuids \ torn =>
             /\ allocation[call[c].on] \in Expected(call[c].op)
             /\ rows[call[c].on] = Ahead(c)
AtRest == \A r \in Uuids \ torn :
             (\A c \in Calls : Busy(c) => call[c].on # r) => rows[r] = Made(allocation[r])
OnceInv == Alone /\ InStep /\ AtRest

(* Whatever overlaps or dies, the rows are never behind: those of every     *)
(* step made are there, and so is that of a call about to make one.         *)
Lead == /\ \A r \in Rewards, t \in Kinds : rows[r][t] >= Made(allocation[r])[t]
        /\ \A c \in Calls : call[c].at = "recorded" => rows[call[c].on][call[c].op] >= 1

-----------------------------------------------------------------------------
(* The balances an operation computes are numbers when what it read was.    *)
LEMMA AfterType ==
    ASSUME NEW w \in Balances, NEW op \in Ops, NEW a \in Nat
    PROVE  After(w, op, a) \in Balances
BY DEF After, Balances, Ops

LEMMA PriceType ==
    ASSUME NEW k \in CallType, k.at # "idle", CallOK(k)
    PROVE  Price(k) \in Nat \ {0}
BY AmountAssumption, BoundsAssumption DEF CallType, CallOK, Price, Idle

(* An operation a sound pair covers leaves a sound pair.                    *)
LEMMA AfterSound ==
    ASSUME NEW w \in Balances, NEW op \in Ops \ {"REVERSE"}, NEW a \in Nat,
           Sound(w), Covers(w, op, a)
    PROVE  Sound(After(w, op, a))
<1>1. w.current \in Int /\ w.reserved \in Int
    BY DEF Balances
<1>2. CASE op = "TOPUP"
    BY <1>1, <1>2 DEF After, Sound
<1>3. CASE op = "RESERVE"
    BY <1>1, <1>3 DEF After, Sound, Covers
<1>4. CASE op = "RELEASE"
    BY <1>1, <1>4 DEF After, Sound, Covers
<1>5. CASE op = "DEBIT"
    BY <1>1, <1>5 DEF After, Sound, Covers
<1> QED
    BY <1>2, <1>3, <1>4, <1>5 DEF Ops

LEMMA TypeCalls ==
    TypeOK <=> /\ wallet \in Balances
               /\ allocation \in [Rewards -> Statuses]
               /\ topped \in Nat
               /\ rows \in [Rewards -> [Kinds -> Nat]]
               /\ call \in [Calls -> CallType]
               /\ \A c \in Calls : CallOK(call[c])
               /\ raced \in BOOLEAN
               /\ torn \subseteq Rewards
               /\ unrecorded \in Balances
               /\ faults \in 0 .. MaxFaults
BY DEF TypeOK, Kinds, Points, CallType, CallOK, At

LEMMA InitType == Init => TypeOK
<1> SUFFICES ASSUME Init PROVE TypeOK
    OBVIOUS
<1>1. wallet \in Balances /\ unrecorded \in Balances
    BY DEF Init, Empty, Balances
<1>2. allocation \in [Rewards -> Statuses] /\ rows \in [Rewards -> [Kinds -> Nat]]
    BY DEF Init, Statuses, Kinds
<1>3. call \in [Calls -> CallType] /\ \A c \in Calls : CallOK(call[c])
    BY DEF Init, CallType, CallOK, Idle
<1>4. topped \in Nat /\ faults \in 0 .. MaxFaults
    BY BoundsAssumption DEF Init
<1>5. raced \in BOOLEAN /\ torn \subseteq Rewards
    BY Zenon DEF Init
<1> QED
    BY <1>1, <1>2, <1>3, <1>4, <1>5, TypeCalls

(* Each action keeps the types.                                             *)
LEMMA StepType == TypeOK /\ [Next]_vars => TypeOK'
<1> SUFFICES ASSUME TypeOK, [Next]_vars PROVE TypeOK'
    OBVIOUS
<1>1. CASE UNCHANGED vars
    BY <1>1 DEF vars, TypeOK, At, Balances
<1>2. ASSUME NEW c \in Calls, TopUp(c) PROVE TypeOK'
    <2>1. call' \in [Calls -> CallType] /\ \A d \in Calls : CallOK(call'[d])
        BY <1>2, TypeCalls DEF TopUp, Begin, CallType, CallOK, Ops, Points, Empty, Balances, At
    <2> QED
        BY <1>2, <2>1, TypeCalls DEF TopUp, history, TypeOK, At, CallType, CallOK, Points
<1>3. ASSUME NEW c \in Calls, NEW op \in Ops \ {"TOPUP"}, NEW r \in Rewards,
             ReadAllocation(c, op, r)
      PROVE  TypeOK'
    <2>1. call' \in [Calls -> CallType] /\ \A d \in Calls : CallOK(call'[d])
        BY <1>3, TypeCalls, RewardsAssumption
        DEF ReadAllocation, Begin, CallType, CallOK, Ops, Points, Empty, Balances, At
    <2>2. torn' \subseteq Rewards
        BY <1>3 DEF ReadAllocation, TypeOK
    <2> QED
        BY <1>3, <2>1, <2>2 DEF ReadAllocation, TypeOK, At, CallType, CallOK, Points
<1>4. ASSUME NEW c \in Calls, ReadWallet(c) PROVE TypeOK'
    <2>1. call[c] \in [at: Points, op: Ops, on: Rewards \cup {"TOPUP"}, seen: Balances]
        BY <1>4, TypeCalls DEF ReadWallet, At, CallType, Idle
    <2>2. call'[c] \in CallType /\ CallOK(call'[c])
        BY <1>4, <2>1, TypeCalls DEF ReadWallet, At, CallType, CallOK, Points, Idle
    <2>3. call' \in [Calls -> CallType] /\ \A d \in Calls : CallOK(call'[d])
        BY <1>4, <2>2, TypeCalls DEF ReadWallet
    <2> QED
        BY <1>4, <2>3 DEF ReadWallet, history, TypeOK, At, CallType, CallOK, Points
<1>5. ASSUME NEW c \in Calls, WriteWallet(c) PROVE TypeOK'
    <2>1. call[c] \in [at: Points, op: Ops, on: Rewards \cup {"TOPUP"}, seen: Balances]
        BY <1>5, TypeCalls DEF WriteWallet, At, CallType, Idle
    <2>2. call'[c] \in CallType /\ CallOK(call'[c])
        <3>1. call'[c] = [call[c] EXCEPT !.at = "moved", !.seen = Empty]
            BY <1>5, TypeCalls DEF WriteWallet
        <3>2. Empty \in Balances /\ CallOK(call[c]) /\ call[c].at = "read"
            BY <1>5, TypeCalls DEF WriteWallet, At, Empty, Balances
        <3> QED
            BY <2>1, <3>1, <3>2 DEF CallType, CallOK, Points
    <2>3. call' \in [Calls -> CallType] /\ \A d \in Calls : CallOK(call'[d])
        BY <1>5, <2>2, TypeCalls DEF WriteWallet
    <2>4. wallet' \in Balances
        <3>1. Price(call[c]) \in Nat
            BY <1>5, <2>1, PriceType, TypeCalls DEF WriteWallet, At, CallType
        <3> QED
            BY <1>5, <2>1, <3>1, AfterType DEF WriteWallet
    <2>5. raced' \in BOOLEAN
        BY <1>5 DEF WriteWallet, TypeOK
    <2> QED
        BY <1>5, <2>3, <2>4, <2>5 DEF WriteWallet, TypeOK, At, CallType, CallOK, Points
<1>6. ASSUME NEW c \in Calls, RecordTopup(c) PROVE TypeOK'
    <2>1. call' \in [Calls -> CallType] /\ \A d \in Calls : CallOK(call'[d])
        BY <1>6, TypeCalls DEF RecordTopup, Return, CallType, CallOK, Idle
    <2> QED
        BY <1>6, <2>1 DEF RecordTopup, history, TypeOK, At, CallType, CallOK, Points
<1>7. ASSUME NEW c \in Calls, RecordTransaction(c) PROVE TypeOK'
    <2>1. /\ call[c] \in [at: Points, op: Ops, on: Rewards \cup {"TOPUP"}, seen: Balances]
          /\ call[c].op \in Kinds /\ call[c].on \in Rewards
        BY <1>7, TypeCalls DEF RecordTransaction, At, CallType, Idle, Ops, Kinds, CallOK
    <2>2. call'[c] \in CallType /\ CallOK(call'[c])
        BY <1>7, <2>1, TypeCalls DEF RecordTransaction, Goto, At, CallType, CallOK, Points, Kinds
    <2>3. call' \in [Calls -> CallType] /\ \A d \in Calls : CallOK(call'[d])
        BY <1>7, <2>2, TypeCalls DEF RecordTransaction, Goto
    <2>4. rows' \in [Rewards -> [Kinds -> Nat]]
        BY <1>7, <2>1, TypeCalls DEF RecordTransaction
    <2> QED
        BY <1>7, <2>3, <2>4 DEF RecordTransaction, history, TypeOK, At, CallType, CallOK, Points, Kinds
<1>8. ASSUME NEW c \in Calls, Settle(c), call[c].op \in Ops \ {"TOPUP"} PROVE TypeOK'
    <2>1. call' \in [Calls -> CallType] /\ \A d \in Calls : CallOK(call'[d])
        BY <1>8, TypeCalls DEF Settle, Return, CallType, CallOK, Idle
    <2>2. Outcome(call[c].op) \in Statuses
        BY <1>8 DEF Outcome, Ops, Statuses
    <2>3. allocation' \in [Rewards -> Statuses]
        BY <1>8, <2>2 DEF Settle, TypeOK
    <2> QED
        BY <1>8, <2>1, <2>3 DEF Settle, history, TypeOK, At, CallType, CallOK, Points
<1>9. ASSUME NEW c \in Calls, Die(c) PROVE TypeOK'
    <2>1. call[c] \in [at: Points, op: Ops, on: Rewards \cup {"TOPUP"}, seen: Balances]
        BY <1>9, TypeCalls DEF Die, At, CallType, Idle
    <2>2. call' \in [Calls -> CallType] /\ \A d \in Calls : CallOK(call'[d])
        BY <1>9, TypeCalls DEF Die, Return, CallType, CallOK, Idle
    <2>3. unrecorded' \in Balances
        <3>1. Price(call[c]) \in Nat
            BY <1>9, <2>1, PriceType, TypeCalls DEF Die, At, CallType
        <3> QED
            BY <1>9, <2>1, <3>1, AfterType DEF Die, TypeOK
    <2>4. torn' \subseteq Rewards /\ faults' \in 0 .. MaxFaults
        BY <1>9, BoundsAssumption DEF Die, TypeOK
    <2> QED
        BY <1>9, <2>2, <2>3, <2>4 DEF Die, TypeOK, At, CallType, CallOK, Points
<1> QED
    BY <1>1, <1>2, <1>3, <1>4, <1>5, <1>6, <1>7, <1>8, <1>9
    DEF Next, InsertAllocation, UpdateAllocation, ReverseAllocation, Ops

(* Every value of wallet, allocation, ledger and calls has its type.        *)
THEOREM TypeCorrect == Spec => []TypeOK
BY InitType, StepType, PTL DEF Spec

-----------------------------------------------------------------------------
(* Solvency is inductive together with what a call keeps of what it read.   *)
LEMMA StepSound == TypeOK /\ SolvencyInv /\ [Next]_vars => SolvencyInv'
<1> SUFFICES ASSUME TypeOK, SolvencyInv, [Next]_vars PROVE SolvencyInv'
    OBVIOUS
<1>1. CASE UNCHANGED vars
    BY <1>1 DEF vars, SolvencyInv, Sound, Ready
<1>2. ASSUME NEW c \in Calls, ReadWallet(c) PROVE SolvencyInv'
    <2>1. call[c] \in [at: Points, op: Ops, on: Rewards \cup {"TOPUP"}, seen: Balances]
        BY <1>2, TypeCalls DEF ReadWallet, At, CallType, Idle
    <2>2. Ready(call'[c])
        <3>1. CASE Covers(wallet, call[c].op, Price(call[c]))
            <4>1. call'[c] = [call[c] EXCEPT !.at = "read", !.seen = wallet]
                BY <1>2, <3>1, TypeCalls DEF ReadWallet
            <4>2. /\ call'[c].seen = wallet /\ call'[c].op = call[c].op
                  /\ call'[c].on = call[c].on
                BY <2>1, <4>1
            <4>3. Price(call'[c]) = Price(call[c])
                BY <4>2 DEF Price
            <4> QED
                BY <3>1, <4>2, <4>3 DEF Ready, SolvencyInv
        <3>2. CASE ~Covers(wallet, call[c].op, Price(call[c]))
            BY <1>2, <3>2, TypeCalls DEF ReadWallet, Ready, Idle
        <3> QED
            BY <3>1, <3>2
    <2>3. \A d \in Calls : Ready(call'[d])
        BY <1>2, <2>2, TypeCalls DEF ReadWallet, SolvencyInv
    <2> QED
        BY <1>2, <2>3 DEF ReadWallet, SolvencyInv, Ready, Sound
<1>3. ASSUME NEW c \in Calls, WriteWallet(c) PROVE SolvencyInv'
    <2>1. call[c] \in [at: Points, op: Ops, on: Rewards \cup {"TOPUP"}, seen: Balances]
        BY <1>3, TypeCalls DEF WriteWallet, At, CallType, Idle
    <2>2. Price(call[c]) \in Nat /\ call[c].op # "REVERSE" /\ call[c].at = "read"
        BY <1>3, <2>1, PriceType, TypeCalls DEF WriteWallet, At, CallType, CallOK
    <2>3. Sound(wallet')
        BY <1>3, <2>1, <2>2, AfterSound DEF WriteWallet, SolvencyInv, Ready
    <2>4. \A d \in Calls : Ready(call'[d])
        BY <1>3, <2>1, TypeCalls DEF WriteWallet, SolvencyInv, Ready, Price
    <2> QED
        BY <2>3, <2>4 DEF SolvencyInv, Sound, Ready
<1>4. ASSUME wallet' = wallet, NEW c \in Calls,
             \A d \in Calls \ {c} : call'[d] = call[d], call'[c].at # "read"
      PROVE  SolvencyInv'
    BY <1>4 DEF SolvencyInv, Ready, Sound
<1>5. ASSUME NEW c \in Calls, TopUp(c) PROVE SolvencyInv'
    BY <1>4, <1>5, TypeCalls DEF TopUp, Begin
<1>6. ASSUME NEW c \in Calls, NEW op \in Ops, NEW r \in Rewards, ReadAllocation(c, op, r)
      PROVE  SolvencyInv'
    BY <1>4, <1>6, TypeCalls DEF ReadAllocation, Begin
<1>7. ASSUME NEW c \in Calls, RecordTopup(c) \/ Settle(c) \/ Die(c) PROVE SolvencyInv'
    BY <1>4, <1>7, TypeCalls DEF RecordTopup, Settle, Die, Return, Idle
<1>8. ASSUME NEW c \in Calls, RecordTransaction(c) PROVE SolvencyInv'
    <2>1. [call[c] EXCEPT !.at = "recorded"].at # "read"
        BY <1>8, TypeCalls DEF RecordTransaction, At, CallType, Idle
    <2> QED
        BY <1>4, <1>8, <2>1, TypeCalls DEF RecordTransaction, Goto
<1> QED
    BY <1>1, <1>2, <1>3, <1>5, <1>6, <1>7, <1>8
    DEF Next, InsertAllocation, UpdateAllocation, ReverseAllocation

(* No interleaving of calls and deaths makes the wallet hold back more than *)
(* it has.                                                                  *)
THEOREM WalletIsSolvent == Spec => []Solvent
<1>1. Init => SolvencyInv
    BY DEF Init, SolvencyInv, Sound, Ready, Empty, Idle
<1>2. SolvencyInv => Solvent
    BY DEF SolvencyInv, Sound, Solvent
<1> QED
    BY <1>1, <1>2, StepSound, TypeCorrect, PTL DEF Spec

-----------------------------------------------------------------------------
(* One row for each step: a reward leaves the claim as soon as two calls    *)
(* meet on it or one dies, so only a reward's single call matters.          *)
LEMMA MadeType == ASSUME NEW s PROVE Made(s) \in [Kinds -> Nat]
BY DEF Made, Kinds

(* A completed step of the allocation is one more row of its kind.          *)
LEMMA MadeNext ==
    ASSUME NEW op \in Kinds, NEW s \in Expected(op)
    PROVE  Made(Outcome(op)) = [t \in Kinds |-> Made(s)[t] + IF t = op THEN 1 ELSE 0]
BY DEF Made, Kinds, Outcome, Expected

LEMMA MadeReversed == Made("REVERSED") = Made("DEBITED")
BY DEF Made

(* A step of one call that leaves allocation, rows and torn alone.          *)
LEMMA QuietStep ==
    ASSUME TypeOK, OnceInv, NEW c \in Calls, Busy(c), Busy(c)',
           UNCHANGED <<allocation, rows, torn>>,
           call' \in [Calls -> CallType],
           \A d \in Calls \ {c} : call'[d] = call[d],
           call'[c].on = call[c].on, call'[c].op = call[c].op,
           call[c].at # "recorded", call'[c].at # "recorded"
    PROVE  OnceInv'
<1> USE UuidsAssumption
<1>1. \A d \in Calls : Busy(d)' = Busy(d) /\ call'[d].on = call[d].on /\ call'[d].op = call[d].op
                           /\ (call'[d].at = "recorded" <=> call[d].at = "recorded")
    BY DEF Busy
<1>2. Alone'
    BY <1>1 DEF OnceInv, Alone
<1>3. \A d \in Calls : Ahead(d)' = Ahead(d)
    BY <1>1 DEF Ahead
<1>4. InStep'
    BY <1>1, <1>3 DEF OnceInv, InStep
<1>5. AtRest'
    BY <1>1 DEF OnceInv, AtRest
<1> QED
    BY <1>2, <1>4, <1>5 DEF OnceInv

(* A call that returns: its reward is torn, or it is at rest in step.       *)
LEMMA ReturnStep ==
    ASSUME TypeOK, OnceInv, NEW c \in Calls, Busy(c), ~Busy(c)',
           \A d \in Calls \ {c} : call'[d] = call[d],
           torn \subseteq torn',
           \A r \in Rewards : r # call[c].on => allocation'[r] = allocation[r] /\ rows'[r] = rows[r],
           call[c].on \in Uuids \ torn' =>
               rows'[call[c].on] = Made(allocation'[call[c].on])
    PROVE  OnceInv'
<1> USE UuidsAssumption
<1>1. \A d \in Calls : Busy(d)' => d # c /\ Busy(d) /\ call'[d] = call[d]
    BY DEF Busy
<1>2. Alone'
    BY <1>1 DEF OnceInv, Alone, Busy
<1>3. \A d \in Calls : Busy(d)' /\ call'[d].on \in Uuids \ torn' => call[d].on # call[c].on
    BY <1>1 DEF OnceInv, Alone, Busy
<1>4. InStep'
    <2> SUFFICES ASSUME NEW d \in Calls, Busy(d)', call'[d].on \in Uuids \ torn'
                 PROVE  /\ allocation'[call'[d].on] \in Expected(call'[d].op)
                        /\ rows'[call'[d].on] = Ahead(d)'
        BY DEF InStep
    <2>1. /\ call'[d] = call[d] /\ Busy(d) /\ call[d].on \in Uuids \ torn
          /\ allocation'[call[d].on] = allocation[call[d].on] /\ rows'[call[d].on] = rows[call[d].on]
        BY <1>1, <1>3
    <2>2. Ahead(d)' = Ahead(d)
        BY <2>1 DEF Ahead
    <2> QED
        BY <2>1, <2>2 DEF OnceInv, InStep
<1>5. AtRest'
    <2> SUFFICES ASSUME NEW r \in Uuids \ torn',
                        \A d \in Calls : Busy(d)' => call'[d].on # r
                 PROVE  rows'[r] = Made(allocation'[r])
        BY DEF AtRest
    <2>1. CASE r = call[c].on
        BY <2>1
    <2>2. CASE r # call[c].on
        <3>1. \A d \in Calls : Busy(d) => call[d].on # r
            BY <2>2 DEF Busy
        <3>2. rows[r] = Made(allocation[r])
            BY <3>1 DEF OnceInv, AtRest
        <3> QED
            BY <2>2, <3>2
    <2> QED
        BY <2>1, <2>2
<1> QED
    BY <1>2, <1>4, <1>5 DEF OnceInv

LEMMA StepOnce == TypeOK /\ OnceInv /\ [Next]_vars /\ TypeOK' => OnceInv'
<1> SUFFICES ASSUME TypeOK, OnceInv, [Next]_vars, TypeOK' PROVE OnceInv'
    OBVIOUS
<1> USE UuidsAssumption
<1>0. call \in [Calls -> CallType] /\ call' \in [Calls -> CallType] /\ \A d \in Calls : CallOK(call[d])
    BY TypeCalls DEF TypeOK, CallType, Points
<1>1. CASE UNCHANGED vars
    BY <1>1 DEF vars, OnceInv, Alone, InStep, AtRest, Busy, Ahead
<1>2. ASSUME NEW c \in Calls, TopUp(c) PROVE OnceInv'
    <2>1. /\ call'[c].on = "TOPUP" /\ ~Busy(c) /\ UNCHANGED <<allocation, rows, torn>>
          /\ \A d \in Calls \ {c} : call'[d] = call[d]
        BY <1>0, <1>2 DEF TopUp, Begin, Busy, At, history
    <2>2. \A d \in Calls : Busy(d)' /\ call'[d].on \in Rewards =>
              d # c /\ Busy(d) /\ call'[d] = call[d] /\ Ahead(d)' = Ahead(d)
        BY <2>1, RewardsAssumption DEF Busy, Ahead
    <2>3. \A d \in Calls : Busy(d) => d # c
        BY <2>1
    <2>4. Alone'
        BY <2>1, <2>2 DEF OnceInv, Alone
    <2>5. InStep'
        BY <2>1, <2>2 DEF OnceInv, InStep
    <2>6. AtRest'
        BY <2>1, <2>3 DEF OnceInv, AtRest, Busy
    <2> QED
        BY <2>4, <2>5, <2>6 DEF OnceInv
<1>3. ASSUME NEW c \in Calls, NEW op \in Ops \ {"TOPUP"}, NEW r \in Rewards,
             ReadAllocation(c, op, r)
      PROVE  OnceInv'
    <2>1. /\ call'[c].on = r /\ call'[c].op = op /\ call'[c].at = "begun" /\ ~Busy(c)
          /\ UNCHANGED <<allocation, rows>> /\ allocation[r] \in Expected(op)
          /\ \A d \in Calls \ {c} : call'[d] = call[d]
          /\ torn' = IF On(r) = {} THEN torn ELSE torn \cup {r}
        BY <1>0, <1>3 DEF ReadAllocation, Begin, Busy, At
    <2>2. r \notin torn' => \A d \in Calls : Busy(d) => call[d].on # r
        BY <2>1 DEF On, Busy, At
    <2>3. torn \subseteq torn'
        BY <2>1
    <2>4. Alone'
        BY <2>1, <2>2, <2>3 DEF OnceInv, Alone, Busy
    <2>5. InStep'
        <3> SUFFICES ASSUME NEW d \in Calls, Busy(d)', call'[d].on \in Uuids \ torn'
                     PROVE  /\ allocation'[call'[d].on] \in Expected(call'[d].op)
                            /\ rows'[call'[d].on] = Ahead(d)'
            BY DEF InStep
        <3>1. CASE d = c
            <4>1. rows[r] = Made(allocation[r])
                BY <2>1, <2>2, <2>3, <3>1 DEF OnceInv, AtRest
            <4>2. Ahead(d)' = Made(allocation[r])
                BY <2>1, <3>1 DEF Ahead, Made, Kinds
            <4> QED
                BY <2>1, <3>1, <4>1, <4>2
        <3>2. CASE d # c
            BY <2>1, <2>3, <3>2 DEF OnceInv, InStep, Busy, Ahead
        <3> QED
            BY <3>1, <3>2
    <2>6. AtRest'
        BY <2>1, <2>3 DEF OnceInv, AtRest, Busy
    <2> QED
        BY <2>4, <2>5, <2>6 DEF OnceInv
<1>4. ASSUME NEW c \in Calls, ReadWallet(c) PROVE OnceInv'
    <2>1. /\ call[c].at = "begun" /\ call[c] # Idle /\ UNCHANGED <<allocation, rows, torn>>
          /\ \A d \in Calls \ {c} : call'[d] = call[d]
        BY <1>0, <1>4 DEF ReadWallet, At, history, Idle
    <2>2. CASE Covers(wallet, call[c].op, Price(call[c]))
        <3>1. call'[c] = [call[c] EXCEPT !.at = "read", !.seen = wallet]
            BY <1>0, <1>4, <2>2 DEF ReadWallet
        <3>2. call'[c].at = "read" /\ call'[c].on = call[c].on /\ call'[c].op = call[c].op
            BY <1>0, <2>1, <3>1 DEF CallType
        <3> QED
            BY <1>0, <2>1, <3>2, QuietStep DEF Busy
    <2>3. CASE ~Covers(wallet, call[c].op, Price(call[c]))
        <3>1. call'[c] = Idle
            BY <1>0, <1>4, <2>3 DEF ReadWallet
        <3>2. call[c].on \in Uuids \ torn => rows[call[c].on] = Made(allocation[call[c].on])
            BY <2>1 DEF OnceInv, InStep, Ahead, Busy, Made, Kinds
        <3> QED
            BY <2>1, <3>1, <3>2, ReturnStep DEF Busy, Idle
    <2> QED
        BY <2>2, <2>3
<1>5. ASSUME NEW c \in Calls, WriteWallet(c) PROVE OnceInv'
    <2>1. call'[c] = [call[c] EXCEPT !.at = "moved", !.seen = Empty] /\ call[c].at = "read"
        BY <1>0, <1>5 DEF WriteWallet, At
    <2>2. call'[c].at = "moved" /\ call'[c].on = call[c].on /\ call'[c].op = call[c].op
        BY <1>0, <2>1 DEF CallType, Idle
    <2>3. UNCHANGED <<allocation, rows, torn>> /\ \A d \in Calls \ {c} : call'[d] = call[d]
        BY <1>0, <1>5 DEF WriteWallet
    <2> QED
        BY <1>0, <2>1, <2>2, <2>3, QuietStep DEF Busy
<1>6. ASSUME NEW c \in Calls, RecordTopup(c) PROVE OnceInv'
    <2>1. call[c].on = "TOPUP" /\ call'[c] = Idle /\ Busy(c) /\ UNCHANGED <<allocation, rows, torn>>
        BY <1>0, <1>6 DEF RecordTopup, Return, At, CallOK, Busy, history
    <2>2. \A d \in Calls \ {c} : call'[d] = call[d]
        BY <1>0, <1>6 DEF RecordTopup, Return
    <2> QED
        BY <2>1, <2>2, ReturnStep, RewardsAssumption DEF Busy, Idle
<1>7. ASSUME NEW c \in Calls, RecordTransaction(c) PROVE OnceInv'
    <2> DEFINE r == call[c].on
               op == call[c].op
    <2>1. /\ call[c] \in [at: Points, op: Ops, on: Rewards \cup {"TOPUP"}, seen: Balances]
          /\ call[c].at = "moved" /\ op \in Kinds /\ r \in Rewards /\ Busy(c)
        BY <1>0, <1>7 DEF RecordTransaction, At, CallType, Idle, Ops, Kinds, CallOK, Busy
    <2>2. /\ call'[c] = [call[c] EXCEPT !.at = "recorded"]
          /\ \A d \in Calls \ {c} : call'[d] = call[d]
          /\ UNCHANGED <<allocation, torn>>
        BY <1>0, <1>7 DEF RecordTransaction, Goto, history
    <2>3. call'[c].at = "recorded" /\ call'[c].on = r /\ call'[c].op = op
        BY <2>1, <2>2
    <2>4. rows \in [Rewards -> [Kinds -> Nat]] /\ rows' = [rows EXCEPT ![r][op] = @ + 1]
        BY <1>7, TypeCalls DEF RecordTransaction
    <2>5. \A d \in Calls : Busy(d)' = Busy(d) /\ call'[d].on = call[d].on /\ call'[d].op = call[d].op
        BY <2>1, <2>2, <2>3 DEF Busy
    <2>6. Alone'
        BY <2>2, <2>5 DEF OnceInv, Alone
    <2>7. InStep'
        <3> SUFFICES ASSUME NEW d \in Calls, Busy(d)', call'[d].on \in Uuids \ torn'
                     PROVE  /\ allocation'[call'[d].on] \in Expected(call'[d].op)
                            /\ rows'[call'[d].on] = Ahead(d)'
            BY DEF InStep
        <3>1. CASE d = c
            <4>1. rows[r] = Ahead(c) /\ allocation[r] \in Expected(op)
                BY <2>1, <2>2, <2>5, <3>1 DEF OnceInv, InStep
            <4>2. \A t \in Kinds : rows[r][t] = Made(allocation[r])[t]
                BY <2>1, <4>1, MadeType DEF Ahead
            <4>3. rows'[r] = [rows[r] EXCEPT ![op] = @ + 1]
                BY <2>1, <2>4
            <4>4. rows'[r] = [t \in Kinds |-> Made(allocation[r])[t] + IF t = op THEN 1 ELSE 0]
                BY <2>1, <2>4, <4>2, <4>3, MadeType
            <4>5. Ahead(c)' = [t \in Kinds |-> Made(allocation[r])[t] + IF t = op THEN 1 ELSE 0]
                BY <2>2, <2>3 DEF Ahead
            <4> QED
                BY <2>2, <2>3, <3>1, <4>1, <4>4, <4>5
        <3>2. CASE d # c
            <4>1. call[d].on # r /\ call[d].on \in Rewards
                BY <2>1, <2>2, <2>5, <3>2 DEF OnceInv, Alone
            <4>2. rows'[call[d].on] = rows[call[d].on] /\ Ahead(d)' = Ahead(d)
                BY <2>2, <2>4, <3>2, <4>1 DEF Ahead
            <4> QED
                BY <2>2, <2>5, <3>2, <4>2 DEF OnceInv, InStep
        <3> QED
            BY <3>1, <3>2
    <2>8. AtRest'
        <3> SUFFICES ASSUME NEW q \in Uuids \ torn',
                            \A d \in Calls : Busy(d)' => call'[d].on # q
                     PROVE  rows'[q] = Made(allocation'[q])
            BY DEF AtRest
        <3>1. q # r /\ \A d \in Calls : Busy(d) => call[d].on # q
            BY <2>1, <2>5
        <3> QED
            BY <2>2, <2>4, <3>1 DEF OnceInv, AtRest
    <2> QED
        BY <2>6, <2>7, <2>8 DEF OnceInv
<1>8. ASSUME NEW c \in Calls, Settle(c), Busy(c), call[c].on \in Rewards,
             \/ call[c].at = "recorded" /\ call[c].op \in Kinds
             \/ call[c].at = "begun" /\ call[c].op = "REVERSE"
      PROVE  OnceInv'
    <2> DEFINE r == call[c].on
               op == call[c].op
    <2>1. /\ call'[c] = Idle /\ \A d \in Calls \ {c} : call'[d] = call[d]
          /\ UNCHANGED <<rows, torn>>
          /\ allocation' = [allocation EXCEPT ![r] = IF r \in Uuids /\ @ \in Expected(op) THEN Outcome(op) ELSE @]
        BY <1>0, <1>8 DEF Settle, Return, history
    <2>2. ASSUME r \in Uuids \ torn PROVE rows'[r] = Made(allocation'[r])
        <3>1. allocation[r] \in Expected(op) /\ rows[r] = Ahead(c)
            BY <1>8, <2>2 DEF OnceInv, InStep
        <3>2. allocation'[r] = Outcome(op)
            BY <2>1, <2>2, <3>1 DEF TypeOK
        <3>3. CASE call[c].at = "recorded" /\ op \in Kinds
            <4>1. Ahead(c) = [t \in Kinds |-> Made(allocation[r])[t] + IF t = op THEN 1 ELSE 0]
                BY <3>3 DEF Ahead
            <4> QED
                BY <2>1, <3>1, <3>2, <3>3, <4>1, MadeNext
        <3>4. CASE call[c].at = "begun" /\ op = "REVERSE"
            <4>1. Ahead(c) = Made(allocation[r])
                BY <3>4 DEF Ahead, Made, Kinds
            <4>2. allocation[r] = "DEBITED" /\ Outcome(op) = "REVERSED"
                BY <3>1, <3>4 DEF Expected, Outcome
            <4> QED
                BY <2>1, <3>1, <3>2, <4>1, <4>2, MadeReversed
        <3> QED
            BY <1>8, <3>3, <3>4
    <2>3. \A q \in Rewards : q # r => allocation'[q] = allocation[q] /\ rows'[q] = rows[q]
        BY <2>1 DEF TypeOK
    <2> QED
        BY <1>8, <2>1, <2>2, <2>3, ReturnStep DEF Busy, Idle
<1>9. ASSUME NEW c \in Calls, Die(c) PROVE OnceInv'
    <2>1. /\ Busy(c) /\ call'[c] = Idle /\ \A d \in Calls \ {c} : call'[d] = call[d]
          /\ torn' = torn \cup ({call[c].on} \cap Rewards) /\ UNCHANGED <<allocation, rows>>
        BY <1>0, <1>9 DEF Die, Return, At, Busy
    <2> QED
        BY <2>1, ReturnStep DEF Busy, Idle
<1>10. ASSUME NEW c \in Calls, InsertAllocation(c) \/ UpdateAllocation(c) \/ ReverseAllocation(c)
       PROVE  OnceInv'
    <2>1. call[c] \in [at: Points, op: Ops, on: Rewards \cup {"TOPUP"}, seen: Balances]
        BY <1>0, <1>10 DEF InsertAllocation, UpdateAllocation, ReverseAllocation, At, CallType, Idle
    <2>2. call[c].on \in Rewards
        BY <1>0, <1>10, <2>1 DEF InsertAllocation, UpdateAllocation, ReverseAllocation, CallOK, At, Points
    <2> QED
        BY <1>8, <1>10, <2>2
        DEF InsertAllocation, UpdateAllocation, ReverseAllocation, At, Kinds, Busy
<1> QED
    BY <1>1, <1>2, <1>3, <1>4, <1>5, <1>6, <1>7, <1>9, <1>10 DEF Next

(* An allocation is never ahead of the ledger.                              *)
LEMMA MadeAfter ==
    ASSUME NEW op \in Kinds \cup {"REVERSE"}, NEW s \in Expected(op), NEW t \in Kinds
    PROVE  Made(Outcome(op))[t] = IF t = op THEN 1 ELSE Made(s)[t]
<1>1. CASE op \in Kinds
    <2>1. Made(s)[t] \in Nat /\ Made(s)[op] = 0
        BY <1>1 DEF Made, Kinds, Expected
    <2> QED
        BY <1>1, <2>1, MadeNext
<1>2. CASE op = "REVERSE"
    BY <1>2, MadeReversed DEF Outcome, Expected, Kinds
<1> QED
    BY <1>1, <1>2

LEMMA StepLead == TypeOK /\ TypeOK' /\ Lead /\ [Next]_vars => Lead'
<1> SUFFICES ASSUME TypeOK, TypeOK', Lead, [Next]_vars PROVE Lead'
    OBVIOUS
<1>0. /\ call \in [Calls -> CallType] /\ call' \in [Calls -> CallType]
      /\ \A d \in Calls : CallOK(call[d])
      /\ rows \in [Rewards -> [Kinds -> Nat]]
    BY TypeCalls DEF TypeOK, CallType, Points
<1>1. ASSUME UNCHANGED <<allocation, rows>>,
             \A d \in Calls : call'[d].at = "recorded" => call'[d] = call[d]
      PROVE  Lead'
    BY <1>1 DEF Lead
<1>2. ASSUME NEW c \in Calls, Die(c) \/ RecordTopup(c) PROVE Lead'
    <2>1. UNCHANGED <<allocation, rows>> /\ call' = [call EXCEPT ![c] = Idle]
        BY <1>2 DEF Die, RecordTopup, Return
    <2>2. \A d \in Calls : call'[d] = call[d] \/ call'[d].at # "recorded"
        BY <1>0, <2>1 DEF Idle
    <2> QED
        BY <1>1, <2>1, <2>2
<1>3. ASSUME NEW c \in Calls, NEW k, call' = [call EXCEPT ![c] = k], k.at # "recorded",
             UNCHANGED <<allocation, rows>>
      PROVE  Lead'
    <2>1. \A d \in Calls : call'[d] = call[d] \/ call'[d].at # "recorded"
        BY <1>0, <1>3
    <2> QED
        BY <1>1, <1>3, <2>1
<1>4. ASSUME NEW c \in Calls, NEW op, NEW on, Begin(c, op, on), UNCHANGED <<allocation, rows>>
      PROVE  Lead'
    <2> DEFINE k == [at |-> "begun", op |-> op, on |-> on, seen |-> Empty]
    <2>1. k.at # "recorded" /\ call' = [call EXCEPT ![c] = k]
        BY <1>4 DEF Begin
    <2> HIDE DEF k
    <2> QED
        BY <1>3, <1>4, <2>1
<1>5. ASSUME NEW c \in Calls, ReadWallet(c) PROVE Lead'
    <2>1. call[c].at = "begun" /\ UNCHANGED <<allocation, rows>>
        BY <1>5 DEF ReadWallet, At
    <2>2. call[c] \in [at: Points, op: Ops, on: Rewards \cup {"TOPUP"}, seen: Balances]
        BY <1>0, <2>1 DEF CallType, Idle
    <2>3. [call[c] EXCEPT !.at = "read", !.seen = wallet].at # "recorded" /\ Idle.at # "recorded"
        BY <2>2 DEF Idle
    <2> QED
        BY <1>3, <1>5, <2>1, <2>3 DEF ReadWallet
<1>6. ASSUME NEW c \in Calls, WriteWallet(c) PROVE Lead'
    <2>1. call[c].at = "read" /\ UNCHANGED <<allocation, rows>>
        BY <1>6 DEF WriteWallet, At
    <2>2. call[c] \in [at: Points, op: Ops, on: Rewards \cup {"TOPUP"}, seen: Balances]
        BY <1>0, <2>1 DEF CallType, Idle
    <2>3. [call[c] EXCEPT !.at = "moved", !.seen = Empty].at # "recorded"
        BY <2>2
    <2> QED
        BY <1>3, <1>6, <2>1, <2>3 DEF WriteWallet
<1>7. ASSUME NEW c \in Calls, RecordTransaction(c) PROVE Lead'
    <2> DEFINE r == call[c].on
               op == call[c].op
    <2>1. /\ call[c] \in [at: Points, op: Ops, on: Rewards \cup {"TOPUP"}, seen: Balances]
          /\ op \in Kinds /\ r \in Rewards
        BY <1>0, <1>7 DEF RecordTransaction, At, CallType, Idle, Ops, Kinds, CallOK
    <2>2. /\ rows' = [rows EXCEPT ![r][op] = @ + 1] /\ UNCHANGED allocation
          /\ call' = [call EXCEPT ![c] = [call[c] EXCEPT !.at = "recorded"]]
        BY <1>0, <1>7 DEF RecordTransaction, Goto
    <2>3. \A q \in Rewards, t \in Kinds : rows'[q][t] >= rows[q][t]
        BY <1>0, <2>1, <2>2
    <2>4. rows'[r][op] >= 1
        BY <1>0, <2>1, <2>2
    <2>5. call'[c].on = r /\ call'[c].op = op
        BY <1>0, <2>1, <2>2
    <2>6. ASSUME NEW d \in Calls, call'[d].at = "recorded"
          PROVE  rows'[call'[d].on][call'[d].op] >= 1
        <3>1. CASE d = c
            BY <2>4, <2>5, <3>1
        <3>2. CASE d # c
            <4>1. call'[d] = call[d] /\ call[d].at = "recorded"
                BY <1>0, <2>2, <2>6, <3>2
            <4>2. call[d].on \in Rewards /\ call[d].op \in Kinds
                BY <1>0, <4>1 DEF CallType, CallOK, Idle, Ops, Kinds
            <4>3. rows[call[d].on][call[d].op] >= 1
                BY <4>1 DEF Lead
            <4>4. rows[call[d].on][call[d].op] \in Nat /\ rows'[call[d].on][call[d].op] \in Nat
                BY <1>0, <2>1, <2>2, <4>2
            <4> QED
                BY <2>3, <4>1, <4>2, <4>3, <4>4
        <3> QED
            BY <3>1, <3>2
    <2>7. ASSUME NEW q \in Rewards, NEW t \in Kinds
          PROVE  rows'[q][t] >= Made(allocation'[q])[t]
        <3>1. rows[q][t] >= Made(allocation[q])[t] /\ Made(allocation[q])[t] \in Nat
            BY MadeType DEF Lead
        <3>2. rows[q][t] \in Nat /\ rows'[q][t] \in Nat /\ rows'[q][t] >= rows[q][t]
            BY <1>0, <2>1, <2>2, <2>3
        <3> QED
            BY <2>2, <3>1, <3>2
    <2> QED
        BY <2>6, <2>7 DEF Lead
<1>8. ASSUME NEW c \in Calls, InsertAllocation(c) \/ UpdateAllocation(c) \/ ReverseAllocation(c)
      PROVE  Lead'
    <2> DEFINE r == call[c].on
               op == call[c].op
    <2>1. /\ call[c] \in [at: Points, op: Ops, on: Rewards \cup {"TOPUP"}, seen: Balances]
          /\ op \in Kinds \cup {"REVERSE"} /\ r \in Rewards
          /\ op \in Kinds => call[c].at = "recorded"
        BY <1>0, <1>8 DEF InsertAllocation, UpdateAllocation, ReverseAllocation, At, CallType, Idle,
                          Ops, Kinds, CallOK
    <2>2. /\ UNCHANGED rows /\ call' = [call EXCEPT ![c] = Idle]
          /\ \A q \in Rewards \ {r} : allocation'[q] = allocation[q]
          /\ \/ allocation'[r] = allocation[r]
             \/ allocation[r] \in Expected(op) /\ allocation'[r] = Outcome(op)
        BY <1>8 DEF InsertAllocation, UpdateAllocation, ReverseAllocation, Settle, Return, TypeOK
    <2>3. ASSUME NEW q \in Rewards, NEW t \in Kinds
          PROVE  rows'[q][t] >= Made(allocation'[q])[t]
        <3>1. rows[q][t] >= Made(allocation[q])[t]
            BY DEF Lead
        <3>2. CASE allocation'[q] = allocation[q]
            BY <2>2, <3>1, <3>2
        <3>3. CASE /\ q = r /\ allocation[r] \in Expected(op) /\ allocation'[r] = Outcome(op)
            <4>1. Made(allocation'[q])[t] = IF t = op THEN 1 ELSE Made(allocation[q])[t]
                BY <2>1, <3>3, MadeAfter
            <4>2. t = op => rows[q][t] >= 1
                BY <2>1, <3>3 DEF Lead
            <4> QED
                BY <2>2, <3>1, <4>1, <4>2
        <3> QED
            BY <2>2, <3>2, <3>3
    <2>4. \A d \in Calls : call'[d].at = "recorded" => call'[d] = call[d]
        BY <1>0, <2>2 DEF Idle
    <2> QED
        BY <2>2, <2>3, <2>4 DEF Lead
<1>9. CASE UNCHANGED vars
    BY <1>9 DEF vars, Lead
<1>10. ASSUME NEW c \in Calls, TopUp(c) PROVE Lead'
    BY <1>4, <1>10 DEF TopUp
<1>11. ASSUME NEW c \in Calls, NEW op \in Ops \ {"TOPUP"}, NEW r \in Rewards, ReadAllocation(c, op, r)
       PROVE  Lead'
    BY <1>4, <1>11 DEF ReadAllocation
<1> QED
    BY <1>2, <1>5, <1>6, <1>7, <1>8, <1>9, <1>10, <1>11 DEF Next

(* Whatever overlaps or dies, no allocation is ahead of the ledger; and a   *)
(* reward with one call at a time has one row for each step of its          *)
(* allocation, whatever calls do to other rewards of the wallet.            *)
THEOREM LedgerRecordsSteps == Spec => []StepsRecorded
<1>1. Init => OnceInv
    BY UuidsAssumption DEF Init, OnceInv, Alone, InStep, AtRest, Busy, Idle, Made
<1>2. Init => Lead
    BY DEF Init, Lead, Idle, Made, Kinds
<1>3. OnceInv /\ Lead => StepsRecorded
    BY DEF OnceInv, Lead, AtRest, StepsRecorded, On, At, Busy, Kinds
<1> QED
    BY <1>1, <1>2, <1>3, StepOnce, StepLead, TypeCorrect, PTL DEF Spec

-----------------------------------------------------------------------------
(* The ledger: the totals LedgerExplains adds up, of any calls k, top-ups   *)
(* tp and rows rw, so that they can be compared before and after a step.    *)
MovingIn(k, on, t) == {c \in Calls : k[c].at = "moved" /\ k[c].on = on /\ k[c].op = t}
MovedIn(k, rw, r, t) == rw[r][t] + Cardinality(MovingIn(k, r, t))
SpentIn(k, rw) == [r \in Rewards |-> MovedIn(k, rw, r, "DEBIT") * Amount[r]]
HeldIn(k, rw) ==
    [r \in Rewards |-> (MovedIn(k, rw, r, "RESERVE") - MovedIn(k, rw, r, "RELEASE")) * Amount[r]]
Totals(k, tp, rw) ==
    [current |-> Deposit * (tp + Cardinality(MovingIn(k, "TOPUP", "TOPUP")))
                   - SumFunction(SpentIn(k, rw)),
     reserved |-> SumFunction(HeldIn(k, rw)) - SumFunction(SpentIn(k, rw))]
LedgerInv == ~raced =>
    /\ wallet.current = Totals(call, topped, rows).current + unrecorded.current
    /\ wallet.reserved = Totals(call, topped, rows).reserved + unrecorded.reserved
LedgerType == [Rewards -> [Kinds -> Nat]]

(* Two states of the calls that differ in one call only; one more row of a  *)
(* kind for a reward, written or about to be.                               *)
OnlyOf(c, k, h) == \A d \in Calls \ {c} : h[d] = k[d]
OneMore(k, h, rw, r, op) ==
    \A q \in Rewards, t \in Kinds :
        MovedIn(h, rw, q, t) = MovedIn(k, rw, q, t) + IF q = r /\ t = op THEN 1 ELSE 0

(* What an operation of amount a adds to the money spent and held back.     *)
SpentBy(op, a) == IF op = "DEBIT" THEN a ELSE 0
HeldBy(op, a) == IF op = "RESERVE" THEN a ELSE IF op = "RELEASE" THEN -a ELSE 0

LEMMA MovingFinite ==
    ASSUME NEW k, NEW on, NEW t
    PROVE  IsFiniteSet(MovingIn(k, on, t)) /\ Cardinality(MovingIn(k, on, t)) \in Nat
BY FinitenessAssumption, FS_Subset, FS_CardinalityType DEF MovingIn

LEMMA MovedType ==
    ASSUME NEW k, NEW rw \in LedgerType, NEW r \in Rewards, NEW t \in Kinds
    PROVE  MovedIn(k, rw, r, t) \in Nat
BY MovingFinite DEF MovedIn, LedgerType

LEMMA SpentType ==
    ASSUME NEW k, NEW rw \in LedgerType
    PROVE  SpentIn(k, rw) \in [Rewards -> Int] /\ HeldIn(k, rw) \in [Rewards -> Int]
<1>1. ASSUME NEW r \in Rewards
      PROVE  /\ MovedIn(k, rw, r, "DEBIT") * Amount[r] \in Int
             /\ (MovedIn(k, rw, r, "RESERVE") - MovedIn(k, rw, r, "RELEASE")) * Amount[r] \in Int
    <2>1. Amount[r] \in Nat
        BY AmountAssumption
    <2>2. \A t \in Kinds : MovedIn(k, rw, r, t) \in Nat
        BY MovedType
    <2> QED
        BY <2>1, <2>2 DEF Kinds
<1> QED
    BY <1>1 DEF SpentIn, HeldIn

LEMMA TotalsType ==
    ASSUME NEW k, NEW tp \in Nat, NEW rw \in LedgerType
    PROVE  /\ Totals(k, tp, rw) \in Balances
           /\ SumFunction(SpentIn(k, rw)) \in Int /\ SumFunction(HeldIn(k, rw)) \in Int
           /\ Deposit * (tp + Cardinality(MovingIn(k, "TOPUP", "TOPUP"))) \in Int
<1>1. SumFunction(SpentIn(k, rw)) \in Int /\ SumFunction(HeldIn(k, rw)) \in Int
    BY SpentType, SumType, FinitenessAssumption
<1>2. Deposit * (tp + Cardinality(MovingIn(k, "TOPUP", "TOPUP"))) \in Int
    <2>1. PICK n \in Nat : n = Cardinality(MovingIn(k, "TOPUP", "TOPUP"))
        BY MovingFinite
    <2> QED
        BY <2>1, BoundsAssumption
<1> QED
    BY <1>1, <1>2 DEF Totals, Balances

(* When only one call changes and is not about to insert a row before or    *)
(* after, nothing counts differently; when it comes to be, its row does.    *)
LEMMA SameMoving ==
    ASSUME NEW k, NEW h, NEW c \in Calls, OnlyOf(c, k, h),
           k[c].at # "moved", h[c].at # "moved", NEW on, NEW t
    PROVE  MovingIn(h, on, t) = MovingIn(k, on, t)
BY DEF MovingIn, OnlyOf

LEMMA OneMoreMoving ==
    ASSUME NEW k, NEW h, NEW c \in Calls, OnlyOf(c, k, h),
           k[c].at # "moved", h[c].at = "moved", NEW on, NEW t
    PROVE  Cardinality(MovingIn(h, on, t)) =
               Cardinality(MovingIn(k, on, t))
                 + IF on = h[c].on /\ t = h[c].op THEN 1 ELSE 0
<1>1. CASE on = h[c].on /\ t = h[c].op
    <2>1. MovingIn(h, on, t) = MovingIn(k, on, t) \cup {c} /\ c \notin MovingIn(k, on, t)
        BY <1>1 DEF MovingIn, OnlyOf
    <2>2. IsFiniteSet(MovingIn(k, on, t))
        BY MovingFinite
    <2>3. Cardinality(MovingIn(k, on, t) \cup {c}) = Cardinality(MovingIn(k, on, t)) + 1
        BY <2>1, <2>2, FS_AddElement
    <2> QED
        BY <1>1, <2>1, <2>3
<1>2. CASE ~(on = h[c].on /\ t = h[c].op)
    <2>1. MovingIn(h, on, t) = MovingIn(k, on, t)
        BY <1>2 DEF MovingIn, OnlyOf
    <2>2. Cardinality(MovingIn(k, on, t)) \in Nat
        BY MovingFinite
    <2> QED
        BY <1>2, <2>1, <2>2
<1> QED
    BY <1>1, <1>2

(* A reward's money moved once more changes the totals by its amount.       *)
LEMMA OneMoreMoved ==
    ASSUME NEW k, NEW h, NEW rw \in LedgerType, NEW r \in Rewards, NEW op \in Kinds,
           OneMore(k, h, rw, r, op)
    PROVE  /\ SumFunction(SpentIn(h, rw)) =
                  SumFunction(SpentIn(k, rw)) + SpentBy(op, Amount[r])
           /\ SumFunction(HeldIn(h, rw)) =
                  SumFunction(HeldIn(k, rw)) + HeldBy(op, Amount[r])
<1>1. PICK a \in Nat : a = Amount[r]
    BY AmountAssumption
<1>2. PICK d \in Nat, v \in Nat, l \in Nat :
          /\ d = MovedIn(k, rw, r, "DEBIT") /\ v = MovedIn(k, rw, r, "RESERVE")
          /\ l = MovedIn(k, rw, r, "RELEASE")
    BY MovedType DEF Kinds
<1>3. SpentIn(k, rw)[r] = d * a /\ HeldIn(k, rw)[r] = (v - l) * a
    BY <1>1, <1>2 DEF SpentIn, HeldIn
<1>4. /\ MovedIn(h, rw, r, "DEBIT") = d + IF op = "DEBIT" THEN 1 ELSE 0
      /\ MovedIn(h, rw, r, "RESERVE") = v + IF op = "RESERVE" THEN 1 ELSE 0
      /\ MovedIn(h, rw, r, "RELEASE") = l + IF op = "RELEASE" THEN 1 ELSE 0
    BY <1>2 DEF Kinds, OneMore
<1>5. SpentIn(h, rw)[r] = d * a + SpentBy(op, a)
    <2>1. SpentIn(h, rw)[r] = (d + IF op = "DEBIT" THEN 1 ELSE 0) * a
        BY <1>1, <1>4 DEF SpentIn
    <2>2. CASE op = "DEBIT"
        <3>1. SpentIn(h, rw)[r] = (d + 1) * a
            BY <2>1, <2>2
        <3> QED
            BY <2>2, <3>1 DEF SpentBy
    <2>3. CASE op # "DEBIT"
        BY <2>1, <2>3 DEF SpentBy
    <2> QED
        BY <2>2, <2>3
<1>6. HeldIn(h, rw)[r] = (v - l) * a + HeldBy(op, a)
    <2>1. HeldIn(h, rw)[r] = ((v + IF op = "RESERVE" THEN 1 ELSE 0)
                                - (l + IF op = "RELEASE" THEN 1 ELSE 0)) * a
        BY <1>1, <1>4 DEF HeldIn
    <2>2. CASE op = "RESERVE"
        <3>1. HeldIn(h, rw)[r] = ((v + 1) - l) * a
            BY <2>1, <2>2
        <3> QED
            BY <2>2, <3>1 DEF HeldBy
    <2>3. CASE op = "RELEASE"
        <3>1. HeldIn(h, rw)[r] = (v - (l + 1)) * a
            BY <2>1, <2>3
        <3> QED
            BY <2>3, <3>1 DEF HeldBy
    <2>4. CASE op = "DEBIT"
        BY <2>1, <2>4 DEF HeldBy
    <2> QED
        BY <2>2, <2>3, <2>4 DEF Kinds
<1>7. \A q \in Rewards \ {r} :
          SpentIn(h, rw)[q] = SpentIn(k, rw)[q] /\ HeldIn(h, rw)[q] = HeldIn(k, rw)[q]
    <2> TAKE q \in Rewards \ {r}
    <2>1. \A t \in Kinds : MovedIn(h, rw, q, t) = MovedIn(k, rw, q, t)
        BY MovedType DEF OneMore
    <2> QED
        BY <2>1 DEF SpentIn, HeldIn, Kinds
<1>8. SumFunction(SpentIn(h, rw)) = SumFunction(SpentIn(k, rw)) + SpentIn(h, rw)[r] - SpentIn(k, rw)[r]
    BY <1>7, SumChange, SpentType, FinitenessAssumption
<1>9. SumFunction(HeldIn(h, rw)) = SumFunction(HeldIn(k, rw)) + HeldIn(h, rw)[r] - HeldIn(k, rw)[r]
    BY <1>7, SumChange, SpentType, FinitenessAssumption
<1>10. SumFunction(SpentIn(k, rw)) \in Int /\ SumFunction(HeldIn(k, rw)) \in Int
    BY SpentType, SumType, FinitenessAssumption
<1>11. d * a \in Int /\ (v - l) * a \in Int
    OBVIOUS
<1>12. SumFunction(SpentIn(h, rw)) = SumFunction(SpentIn(k, rw)) + SpentBy(op, a)
    BY <1>3, <1>5, <1>8, <1>10, <1>11 DEF SpentBy
<1>13. SumFunction(HeldIn(h, rw)) = SumFunction(HeldIn(k, rw)) + HeldBy(op, a)
    BY <1>3, <1>6, <1>9, <1>10, <1>11 DEF HeldBy
<1> QED
    BY <1>1, <1>12, <1>13

(* The call whose balances are written moves the totals as After moves a    *)
(* pair of balances.                                                        *)
LEMMA MovingCounts ==
    ASSUME NEW k, NEW h, NEW tp \in Nat, NEW rw \in LedgerType, NEW c \in Calls,
           OnlyOf(c, k, h), k[c].at # "moved",
           h[c] \in CallType, CallOK(h[c]), h[c].at = "moved"
    PROVE  Totals(h, tp, rw) = After(Totals(k, tp, rw), h[c].op, Price(h[c]))
<1>1. /\ h[c] \in [at: Points, op: Ops, on: Rewards \cup {"TOPUP"}, seen: Balances]
      /\ h[c].op \in Kinds \cup {"TOPUP"} /\ (h[c].op = "TOPUP" <=> h[c].on = "TOPUP")
    BY DEF CallType, Idle, CallOK, Ops, Kinds
<1>2. PICK op \in Kinds \cup {"TOPUP"}, r \in Rewards \cup {"TOPUP"} :
          op = h[c].op /\ r = h[c].on /\ (op = "TOPUP" <=> r = "TOPUP")
    BY <1>1
<1>3. \A on, t : Cardinality(MovingIn(h, on, t)) =
                   Cardinality(MovingIn(k, on, t)) + IF on = r /\ t = op THEN 1 ELSE 0
    BY <1>2, OneMoreMoving
<1>4. OneMore(k, h, rw, r, op)
    <2> SUFFICES ASSUME NEW q \in Rewards, NEW t \in Kinds
                 PROVE  MovedIn(h, rw, q, t) = MovedIn(k, rw, q, t) + IF q = r /\ t = op THEN 1 ELSE 0
        BY DEF OneMore
    <2>1. rw[q][t] \in Nat /\ Cardinality(MovingIn(k, q, t)) \in Nat
        BY MovingFinite DEF LedgerType
    <2> QED
        BY <1>3, <2>1 DEF MovedIn
<1>5. PICK n \in Nat : n = Cardinality(MovingIn(k, "TOPUP", "TOPUP"))
    BY MovingFinite
<1>6. SumFunction(SpentIn(k, rw)) \in Int /\ SumFunction(HeldIn(k, rw)) \in Int
    BY TotalsType
<1>7. CASE op = "TOPUP"
    <2>1. SpentIn(h, rw) = SpentIn(k, rw) /\ HeldIn(h, rw) = HeldIn(k, rw)
        <3>1. \A q \in Rewards, t \in Kinds : MovedIn(h, rw, q, t) = MovedIn(k, rw, q, t)
            BY <1>2, <1>4, <1>7, MovedType, RewardsAssumption DEF OneMore
        <3> QED
            BY <3>1 DEF SpentIn, HeldIn, Kinds
    <2>2. Cardinality(MovingIn(h, "TOPUP", "TOPUP")) = n + 1
        BY <1>2, <1>3, <1>5, <1>7
    <2>3. Deposit * (tp + (n + 1)) = Deposit * (tp + n) + Deposit /\ Deposit * (tp + n) \in Int
        BY BoundsAssumption
    <2>4. Price(h[c]) = Deposit
        BY <1>2, <1>7 DEF Price
    <2> QED
        BY <1>2, <1>5, <1>6, <1>7, <2>1, <2>2, <2>3, <2>4, BoundsAssumption DEF Totals, After
<1>8. CASE op \in Kinds
    <2>1. op # "TOPUP" /\ r \in Rewards
        BY <1>2, <1>8 DEF Kinds
    <2>2. Cardinality(MovingIn(h, "TOPUP", "TOPUP")) = n
        BY <1>2, <1>3, <1>5, <2>1
    <2>3. Price(h[c]) = Amount[r] /\ Amount[r] \in Nat
        BY <1>2, <2>1, AmountAssumption DEF Price
    <2>4. /\ SumFunction(SpentIn(h, rw)) =
                 SumFunction(SpentIn(k, rw)) + SpentBy(op, Amount[r])
          /\ SumFunction(HeldIn(h, rw)) =
                 SumFunction(HeldIn(k, rw)) + HeldBy(op, Amount[r])
        BY <1>4, <1>8, <2>1, OneMoreMoved
    <2>5. Deposit * (tp + n) \in Int
        BY BoundsAssumption
    <2> QED
        BY <1>2, <1>5, <1>6, <1>8, <2>1, <2>2, <2>3, <2>4, <2>5
        DEF Totals, After, Kinds, SpentBy, HeldBy
<1> QED
    BY <1>7, <1>8

(* The same amount added on both sides of the ledger's equation.            *)
LEMMA AfterAdds ==
    ASSUME NEW v \in Balances, NEW w \in Balances, NEW op \in Ops, NEW a \in Nat
    PROVE  /\ After(v, op, a).current + w.current = v.current + After(w, op, a).current
           /\ After(v, op, a).reserved + w.reserved = v.reserved + After(w, op, a).reserved
BY DEF After, Balances, Ops

LEMMA LedgerIs == TypeOK => (LedgerInv <=> LedgerExplains)
<1> SUFFICES ASSUME TypeOK PROVE LedgerInv <=> LedgerExplains
    OBVIOUS
<1>1. /\ \A on, t : Moving(on, t) = MovingIn(call, on, t)
      /\ AllSpent = SumFunction(SpentIn(call, rows)) /\ AllHeld = SumFunction(HeldIn(call, rows))
    BY DEF Moving, MovingIn, At, AllSpent, AllHeld, Spent, Held, Moved, SpentIn, HeldIn, MovedIn
<1>2. rows \in LedgerType /\ topped \in Nat /\ unrecorded.current \in Int /\ unrecorded.reserved \in Int
    BY TypeCalls DEF LedgerType, Balances
<1>3. PICK x \in Int, s \in Int, l \in Int :
          /\ x = Deposit * (topped + Cardinality(MovingIn(call, "TOPUP", "TOPUP")))
          /\ s = SumFunction(SpentIn(call, rows)) /\ l = SumFunction(HeldIn(call, rows))
    BY <1>2, TotalsType
<1> QED
    BY <1>1, <1>2, <1>3 DEF LedgerInv, LedgerExplains, Totals

LEMMA StepLedger == TypeOK /\ TypeOK' /\ LedgerInv /\ [Next]_vars => LedgerInv'
<1> SUFFICES ASSUME TypeOK, TypeOK', LedgerInv, [Next]_vars PROVE LedgerInv'
    OBVIOUS
<1>0. /\ call \in [Calls -> CallType] /\ \A c \in Calls : CallOK(call[c])
      /\ rows \in LedgerType /\ topped \in Nat
      /\ wallet \in Balances /\ unrecorded \in Balances
    BY TypeCalls DEF LedgerType
<1>1. CASE UNCHANGED vars
    BY <1>1 DEF vars, LedgerInv
(* A step of one call that inserts no row and does not come to that point.  *)
<1>2. ASSUME NEW c \in Calls, call[c].at # "moved", call'[c].at # "moved",
             OnlyOf(c, call, call'),
             UNCHANGED <<wallet, topped, rows, raced, unrecorded>>
      PROVE  LedgerInv'
    <2>1. \A on, t : MovingIn(call', on, t) = MovingIn(call, on, t)
        BY <1>2, SameMoving
    <2>2. SpentIn(call', rows) = SpentIn(call, rows) /\ HeldIn(call', rows) = HeldIn(call, rows)
        BY <2>1 DEF SpentIn, HeldIn, MovedIn
    <2>3. Totals(call', topped, rows) = Totals(call, topped, rows)
        BY <2>1, <2>2 DEF Totals
    <2> QED
        BY <1>2, <2>3 DEF LedgerInv
<1>3. ASSUME NEW c \in Calls, TopUp(c) PROVE LedgerInv'
    <2>1. call[c].at # "moved" /\ call'[c].at # "moved" /\ OnlyOf(c, call, call')
        BY <1>0, <1>3 DEF TopUp, Begin, At, OnlyOf
    <2> QED
        BY <1>2, <1>3, <2>1 DEF TopUp, history
<1>4. ASSUME NEW c \in Calls, NEW op \in Ops, NEW r \in Rewards, ReadAllocation(c, op, r)
      PROVE  LedgerInv'
    <2>1. call[c].at # "moved" /\ call'[c].at # "moved" /\ OnlyOf(c, call, call')
        BY <1>0, <1>4 DEF ReadAllocation, Begin, At, OnlyOf
    <2> QED
        BY <1>2, <1>4, <2>1 DEF ReadAllocation
<1>5. ASSUME NEW c \in Calls, ReadWallet(c) PROVE LedgerInv'
    <2>1. call[c].at = "begun" /\ OnlyOf(c, call, call')
        BY <1>0, <1>5 DEF ReadWallet, At, OnlyOf
    <2>2. call'[c] = [call[c] EXCEPT !.at = "read", !.seen = wallet] \/ call'[c] = Idle
        BY <1>0, <1>5 DEF ReadWallet
    <2>3. call'[c].at # "moved"
        <3>1. call[c] \in [at: Points, op: Ops, on: Rewards \cup {"TOPUP"}, seen: Balances]
            BY <1>0, <2>1 DEF CallType, Idle
        <3>2. [call[c] EXCEPT !.at = "read", !.seen = wallet].at = "read"
            BY <3>1
        <3>3. Idle.at = "idle"
            BY DEF Idle
        <3> QED
            BY <2>2, <3>2, <3>3
    <2> QED
        BY <1>2, <1>5, <2>1, <2>3 DEF ReadWallet, history
<1>6. ASSUME NEW c \in Calls, WriteWallet(c) PROVE LedgerInv'
    <2>1. call[c] \in [at: Points, op: Ops, on: Rewards \cup {"TOPUP"}, seen: Balances]
        BY <1>0, <1>6 DEF WriteWallet, At, CallType, Idle
    <2>2. /\ call'[c] = [call[c] EXCEPT !.at = "moved", !.seen = Empty]
          /\ call[c].at = "read" /\ OnlyOf(c, call, call')
          /\ UNCHANGED <<topped, rows, unrecorded>>
        BY <1>0, <1>6 DEF WriteWallet, At, OnlyOf
    <2>3. /\ call'[c].at = "moved" /\ call'[c].op = call[c].op /\ call'[c].on = call[c].on
          /\ Price(call'[c]) = Price(call[c])
        BY <2>1, <2>2 DEF Price
    <2>4. call'[c] \in CallType /\ CallOK(call'[c])
        <3>1. Empty \in Balances
            BY DEF Empty, Balances
        <3> QED
            BY <1>0, <2>1, <2>2, <2>3, <3>1 DEF CallType, CallOK, Points
    <2>5. Totals(call', topped, rows) = After(Totals(call, topped, rows), call[c].op, Price(call[c]))
        <3>1. call[c].at # "moved"
            BY <2>2
        <3>2. Totals(call', topped, rows) =
                  After(Totals(call, topped, rows), call'[c].op, Price(call'[c]))
            <4>1. topped \in Nat /\ rows \in LedgerType
                BY <1>0
            <4>2. OnlyOf(c, call, call') /\ call'[c].at = "moved"
                BY <2>2, <2>3
            <4> QED
                BY <2>4, <3>1, <4>1, <4>2, MovingCounts
        <3> QED
            BY <2>3, <3>2
    <2>6. Price(call[c]) \in Nat /\ call[c].op \in Ops /\ Totals(call, topped, rows) \in Balances
        BY <1>0, <2>1, <2>2, PriceType, TotalsType
    <2>7. SUFFICES ASSUME ~raced'
                   PROVE  /\ wallet'.current = Totals(call', topped, rows).current + unrecorded.current
                          /\ wallet'.reserved = Totals(call', topped, rows).reserved + unrecorded.reserved
        BY <2>2 DEF LedgerInv
    <2>8. ~raced /\ wallet' = After(wallet, call[c].op, Price(call[c]))
        BY <1>6, <2>7 DEF WriteWallet
    <2>9. /\ wallet.current = Totals(call, topped, rows).current + unrecorded.current
          /\ wallet.reserved = Totals(call, topped, rows).reserved + unrecorded.reserved
        BY <2>8 DEF LedgerInv
    <2>10. PICK t \in Balances, op \in Ops, a \in Nat :
               t = Totals(call, topped, rows) /\ op = call[c].op /\ a = Price(call[c])
        BY <2>6
    <2>11. /\ After(wallet, op, a).current = After(t, op, a).current + unrecorded.current
           /\ After(wallet, op, a).reserved = After(t, op, a).reserved + unrecorded.reserved
        BY <1>0, <2>9, <2>10 DEF After, Balances, Ops
    <2> QED
        BY <2>5, <2>8, <2>10, <2>11
<1>7. ASSUME NEW c \in Calls, RecordTopup(c) PROVE LedgerInv'
    <2>1. /\ call[c].at = "moved" /\ call[c].op = "TOPUP" /\ call'[c].at # "moved"
          /\ OnlyOf(c, call', call)
          /\ UNCHANGED <<wallet, rows, raced, unrecorded>> /\ topped' = topped + 1
        BY <1>0, <1>7 DEF RecordTopup, Return, At, Idle, history, OnlyOf
    <2>2. Totals(call, topped, rows) = After(Totals(call', topped, rows), call[c].op, Price(call[c]))
        BY <1>0, <2>1, MovingCounts
    <2>3. PICK n \in Nat : n = Cardinality(MovingIn(call', "TOPUP", "TOPUP"))
        BY MovingFinite
    <2>4. Deposit * ((topped + 1) + n) = Deposit * (topped + n) + Deposit /\ Deposit * (topped + n) \in Int
        BY <1>0, BoundsAssumption
    <2>5. SumFunction(SpentIn(call', rows)) \in Int /\ SumFunction(HeldIn(call', rows)) \in Int
        BY <1>0, TotalsType
    <2>6. Price(call[c]) = Deposit
        BY <2>1 DEF Price
    <2>7. Totals(call', topped + 1, rows) = Totals(call, topped, rows)
        BY <2>1, <2>2, <2>3, <2>4, <2>5, <2>6, BoundsAssumption DEF Totals, After
    <2> QED
        BY <2>1, <2>7 DEF LedgerInv
<1>8. ASSUME NEW c \in Calls, RecordTransaction(c) PROVE LedgerInv'
    <2>1. /\ call[c] \in [at: Points, op: Ops, on: Rewards \cup {"TOPUP"}, seen: Balances]
          /\ call[c].at = "moved" /\ call[c].op \in Kinds /\ call[c].on \in Rewards
        BY <1>0, <1>8 DEF RecordTransaction, At, CallType, Idle, Ops, Kinds, CallOK
    <2>2. PICK r \in Rewards, op \in Kinds : r = call[c].on /\ op = call[c].op
        BY <2>1
    <2>3. call'[c] = [call[c] EXCEPT !.at = "recorded"] /\ OnlyOf(c, call', call)
        BY <1>0, <1>8 DEF RecordTransaction, Goto, OnlyOf
    <2>4. call'[c].at # "moved"
        BY <2>1, <2>3
    <2>5. /\ rows' = [rows EXCEPT ![r][op] = @ + 1]
          /\ UNCHANGED <<wallet, topped, raced, unrecorded>>
        BY <1>8, <2>2 DEF RecordTransaction, history
    <2>6. \A on, t : Cardinality(MovingIn(call, on, t)) =
                       Cardinality(MovingIn(call', on, t)) + IF on = r /\ t = op THEN 1 ELSE 0
        BY <2>1, <2>2, <2>3, <2>4, OneMoreMoving
    <2>7. \A q \in Rewards, t \in Kinds : MovedIn(call', rows', q, t) = MovedIn(call, rows, q, t)
        <3> TAKE q \in Rewards, t \in Kinds
        <3>1. rows[q][t] \in Nat /\ Cardinality(MovingIn(call', q, t)) \in Nat
            BY <1>0, MovingFinite DEF LedgerType
        <3>2. rows'[q][t] = rows[q][t] + IF q = r /\ t = op THEN 1 ELSE 0
            BY <1>0, <2>5, <3>1 DEF LedgerType
        <3> QED
            BY <2>6, <3>1, <3>2 DEF MovedIn
    <2>8. SpentIn(call', rows') = SpentIn(call, rows) /\ HeldIn(call', rows') = HeldIn(call, rows)
        BY <2>7 DEF SpentIn, HeldIn, Kinds
    <2>9. Cardinality(MovingIn(call', "TOPUP", "TOPUP")) = Cardinality(MovingIn(call, "TOPUP", "TOPUP"))
        BY <2>6, MovingFinite, RewardsAssumption
    <2>10. Totals(call', topped, rows') = Totals(call, topped, rows)
        BY <2>8, <2>9 DEF Totals
    <2> QED
        BY <2>5, <2>10 DEF LedgerInv
<1>9. ASSUME NEW c \in Calls, InsertAllocation(c) \/ UpdateAllocation(c) \/ ReverseAllocation(c)
      PROVE  LedgerInv'
    <2>1. Settle(c) /\ call[c].at # "moved"
        BY <1>9 DEF InsertAllocation, UpdateAllocation, ReverseAllocation, At
    <2>2. call'[c].at # "moved" /\ OnlyOf(c, call, call')
        BY <1>0, <2>1 DEF Settle, Return, Idle, OnlyOf
    <2> QED
        BY <1>2, <2>1, <2>2 DEF Settle, history
<1>10. ASSUME NEW c \in Calls, Die(c) PROVE LedgerInv'
    <2>1. /\ call'[c].at # "moved" /\ OnlyOf(c, call, call') /\ OnlyOf(c, call', call)
          /\ UNCHANGED <<wallet, topped, rows, raced>>
        BY <1>0, <1>10 DEF Die, Return, Idle, OnlyOf
    <2>2. CASE call[c].at # "moved"
        BY <1>2, <1>10, <2>1, <2>2 DEF Die, At
    <2>3. CASE call[c].at = "moved"
        <3>1. call[c] \in [at: Points, op: Ops, on: Rewards \cup {"TOPUP"}, seen: Balances]
            BY <1>0, <2>3 DEF CallType, Idle
        <3>2. PICK t \in Balances, op \in Ops, a \in Nat :
                  t = Totals(call', topped, rows) /\ op = call[c].op /\ a = Price(call[c])
            BY <1>0, <2>3, <3>1, PriceType, TotalsType
        <3>3. Totals(call, topped, rows) = After(t, op, a)
            <4>1. topped \in Nat /\ rows \in LedgerType /\ call[c] \in CallType /\ CallOK(call[c])
                BY <1>0
            <4>2. OnlyOf(c, call', call) /\ call'[c].at # "moved"
                BY <2>1
            <4>3. Totals(call, topped, rows) =
                      After(Totals(call', topped, rows), call[c].op, Price(call[c]))
                BY <2>3, <4>1, <4>2, MovingCounts
            <4> QED
                BY <3>2, <4>3
        <3>4. unrecorded' = After(unrecorded, op, a)
            BY <1>10, <2>3, <3>2 DEF Die, At
        <3>5. /\ After(t, op, a).current + unrecorded.current = t.current + After(unrecorded, op, a).current
              /\ After(t, op, a).reserved + unrecorded.reserved = t.reserved + After(unrecorded, op, a).reserved
            BY <1>0, AfterAdds
        <3> QED
            BY <2>1, <3>2, <3>3, <3>4, <3>5 DEF LedgerInv
    <2> QED
        BY <2>2, <2>3
<1> QED
    BY <1>1, <1>3, <1>4, <1>5, <1>6, <1>7, <1>8, <1>9, <1>10 DEF Next

LEMMA InitLedger == Init => LedgerInv
<1> SUFFICES ASSUME Init PROVE LedgerInv
    OBVIOUS
<1>1. \A on, t : MovingIn(call, on, t) = {}
    BY DEF Init, Idle, MovingIn
<1>2. /\ \A r \in Rewards, t \in Kinds : MovedIn(call, rows, r, t) = 0
      /\ Cardinality(MovingIn(call, "TOPUP", "TOPUP")) = 0
    BY <1>1, FS_EmptySet DEF Init, MovedIn, Kinds
<1>3. SpentIn(call, rows) \in [Rewards -> {0}] /\ HeldIn(call, rows) \in [Rewards -> {0}]
    BY <1>2, AmountAssumption DEF SpentIn, HeldIn, Kinds
<1>4. SumFunction(SpentIn(call, rows)) = 0 /\ SumFunction(HeldIn(call, rows)) = 0
    BY <1>3, SumZero, FinitenessAssumption
<1> QED
    BY <1>2, <1>4, BoundsAssumption DEF Init, Empty, LedgerInv, Totals

(* Until a balance is overwritten that the writer had not read, the ledger  *)
(* and the changes known to be missing from it give both balances of the    *)
(* wallet, for any number of rewards, top-ups and deaths.                   *)
THEOREM LedgerIsComplete == Spec => []LedgerExplains
<1>1. TypeOK /\ LedgerInv => LedgerExplains
    BY LedgerIs
<1> QED
    BY <1>1, InitLedger, StepLedger, TypeCorrect, PTL DEF Spec
=============================================================================
