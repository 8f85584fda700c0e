----------------------- MODULE RewardFulfilmentProofs -----------------------
(***************************************************************************)
(* A reward has at most one delivery in progress, the provider is asked at *)
(* most once under a key, what leaves the account is paid for, and every   *)
(* audit ends failed, for any workers, rewards, keys and bounds.           *)
(***************************************************************************)
EXTENDS RewardFulfilment, SumTheorems

\* The steps from which the provider may still be asked.
Unpaid == {"mark", "hold", "insert", "pay"}

\* A message or a delivery asks for q.
Asked(q) ==
  queue[q] > 0 \/ \E w \in Workers : step[w] # "idle" /\ request[w] = q

\* A replay of the reward is on its way, or has left an audit of its own.
Reopened(r) ==
  \/ Asked([reward |-> r, replay |-> TRUE])
  \/ \E k \in Keys : audit[k] # NoAudit /\ audit[k].reward = r /\ k # KeyOf[r]

Exclusive ==
  \A v, w \in Workers :
    InFlight(v) /\ InFlight(w) /\ Key(v) = Key(w) => v = w

Undecided ==
  \A w \in Workers : InFlight(w) => audit[Key(w)].status \notin Failed

NotYetPaid ==
  /\ \A w \in Workers : step[w] \in Unpaid => paid[Key(w)] = 0
  /\ \A k \in Keys : audit[k] = NoAudit => paid[k] = 0

OriginalsEnded ==
  \A r \in Rewards : Reopened(r) =>
    /\ audit[KeyOf[r]] # NoAudit
    /\ \A w \in Workers : InFlight(w) /\ Rew(w) = r => request[w].replay

EndedBeforeReplay ==
  \A k \in Keys : replaying[k] > 0 =>
    audit[k] # NoAudit /\ \A w \in Workers : InFlight(w) => Key(w) # k

(***************************************************************************)
(* OneDeliveryPerReward is not inductive: two deliveries of a reward may   *)
(* have different keys.  What keeps them apart is that a replay starts     *)
(* from a failed audit, and the audit fails as its delivery ends.          *)
(***************************************************************************)
FulfilInv ==
  /\ TypeOK
  /\ Exclusive
  /\ Undecided
  /\ NotYetPaid
  /\ PaidOncePerKey
  /\ OriginalsEnded
  /\ EndedBeforeReplay

-----------------------------------------------------------------------------
\* A request has a key.
LEMMA KeyType == \A q \in Requests : RequestKey(q) \in Keys
BY FulfilmentAssumption DEF Requests, RequestKey

\* A delivery in flight handles a request whose audit row exists.
LEMMA InFlightType ==
  ASSUME TypeOK, NEW w \in Workers, InFlight(w)
  PROVE  /\ request[w] \in Requests /\ Key(w) \in Keys /\ Rew(w) \in Rewards
         /\ audit[Key(w)] \in Audits /\ audit[Key(w)] # NoAudit
<1>1. step[w] # "idle"
  BY DEF InFlight, Try, Release, Handler
<1>2. request[w] \in Requests /\ audit[Key(w)] \in Audits
  BY <1>1 DEF TypeOK
<1>3. Key(w) \in Keys /\ Rew(w) \in Rewards
  BY <1>2, KeyType DEF Key, Rew, Requests
<1>4. NoAudit \notin Audits
  BY DEF NoAudit, Audits, Statuses, Failed
<1> QED BY <1>2, <1>3, <1>4

\* A record of a request is built from a reward and a flag.
LEMMA ReplayRequest ==
  ASSUME NEW r \in Rewards
  PROVE  /\ [reward |-> r, replay |-> TRUE] \in Requests
         /\ [reward |-> r, replay |-> TRUE].reward = r
         /\ [reward |-> r, replay |-> TRUE].replay
BY DEF Requests

\* A step that starts no delivery, sends nothing new and fails no audit of a
\* delivery in flight keeps deliveries apart.
LEMMA KeptApart ==
  ASSUME FulfilInv,
         \A v \in Workers :
           InFlight(v)' => InFlight(v) /\ request'[v] = request[v],
         \A q \in Requests : Asked(q)' => Asked(q),
         replaying' = replaying,
         \A k \in Keys : /\ audit'[k] = NoAudit <=> audit[k] = NoAudit
                         /\ audit[k] # NoAudit =>
                              audit'[k].reward = audit[k].reward,
         \A k \in Keys : audit'[k].status \in Failed =>
             \/ audit[k].status \in Failed
             \/ \A v \in Workers : InFlight(v)' => Key(v)' # k
  PROVE  Exclusive' /\ Undecided' /\ OriginalsEnded' /\ EndedBeforeReplay'
<1>1. \A v \in Workers : InFlight(v)' => Key(v)' = Key(v) /\ Rew(v)' = Rew(v)
  BY DEF Key, Rew
<1>2. Exclusive'
  BY <1>1 DEF FulfilInv, Exclusive
<1>3. Undecided'
  <2> SUFFICES ASSUME NEW v \in Workers, InFlight(v)'
               PROVE  audit'[Key(v)'].status \notin Failed
    BY DEF Undecided
  <2>1. InFlight(v) /\ Key(v)' = Key(v)
    BY <1>1
  <2>2. Key(v) \in Keys
    BY <2>1, InFlightType DEF FulfilInv
  <2> QED BY <2>1, <2>2 DEF FulfilInv, Undecided
<1>4. OriginalsEnded'
  <2> SUFFICES ASSUME NEW r \in Rewards, Reopened(r)'
               PROVE  /\ audit'[KeyOf[r]] # NoAudit
                      /\ \A v \in Workers : InFlight(v)' /\ Rew(v)' = r =>
                           request'[v].replay
    BY DEF OriginalsEnded
  <2>1. Reopened(r)
    BY ReplayRequest DEF Reopened
  <2>2. KeyOf[r] \in Keys
    BY FulfilmentAssumption
  <2> QED BY <1>1, <2>1, <2>2 DEF FulfilInv, OriginalsEnded
<1>5. EndedBeforeReplay'
  BY <1>1 DEF FulfilInv, EndedBeforeReplay
<1> QED BY <1>2, <1>3, <1>4, <1>5

\* If besides it asks no provider, it keeps the invariant.
LEMMA Frame ==
  ASSUME FulfilInv, TypeOK',
         \A v \in Workers :
           InFlight(v)' => InFlight(v) /\ request'[v] = request[v],
         \A v \in Workers : step'[v] \in Unpaid => step[v] \in Unpaid,
         \A q \in Requests : Asked(q)' => Asked(q),
         replaying' = replaying,
         paid' = paid,
         \A k \in Keys : /\ audit'[k] = NoAudit <=> audit[k] = NoAudit
                         /\ audit[k] # NoAudit =>
                              audit'[k].reward = audit[k].reward,
         \A k \in Keys : audit'[k].status \in Failed =>
             \/ audit[k].status \in Failed
             \/ \A v \in Workers : InFlight(v)' => Key(v)' # k
  PROVE  FulfilInv'
<1>1. Exclusive' /\ Undecided' /\ OriginalsEnded' /\ EndedBeforeReplay'
  BY KeptApart
<1>2. \A v \in Workers : step'[v] \in Unpaid => InFlight(v)'
  BY DEF InFlight, Unpaid, Try
<1>3. \A v \in Workers : InFlight(v)' => Key(v)' = Key(v)
  BY DEF Key
<1>4. NotYetPaid'
  BY <1>2, <1>3 DEF FulfilInv, NotYetPaid
<1>5. PaidOncePerKey'
  BY DEF FulfilInv, PaidOncePerKey
<1> QED BY <1>1, <1>4, <1>5 DEF FulfilInv

-----------------------------------------------------------------------------
\* TypeOK of what belongs to no worker, and of the workers.
DataTyped ==
  /\ queue \in [Requests -> Nat]
  /\ audit \in [Keys -> Audits \cup {NoAudit}]
  /\ account \in [current : Nat, reserved : Nat, available : Nat]
  /\ account.available = account.current - account.reserved
  /\ reservation \in [Rewards -> {"none", "RESERVED", "RELEASED", "SETTLED"}]
  /\ paid \in [Keys -> Nat]
  /\ dlq \subseteq Requests
  /\ replaying \in [Keys -> Nat]
  /\ copies \in Nat /\ faults \in Nat /\ copies + faults <= MaxFaults
  /\ replays \in 0..MaxReplays

WorkersTyped ==
  /\ step \in [Workers -> Steps]
  /\ request \in [Workers -> Requests \cup {NoRequest}]
  /\ \A w \in Workers : step[w] # "idle" => request[w] \in Requests
  /\ \A w \in Workers : InFlight(w) => audit[Key(w)] \in Audits

Balanced(a) ==
  /\ a \in [current : Nat, reserved : Nat, available : Nat]
  /\ a.available = a.current - a.reserved

\* A hold, a settlement and a release keep the balances consistent.
LEMMA MovesBalance ==
  ASSUME NEW v \in Nat, Balanced(account),
         \/ /\ v <= account.available
            /\ account' = [account EXCEPT !.reserved = @ + v,
                                          !.available = @ - v]
         \/ /\ v <= account.reserved
            /\ account' = [account EXCEPT !.current = @ - v,
                                          !.reserved = @ - v]
         \/ /\ v <= account.reserved
            /\ account' = [account EXCEPT !.reserved = @ - v,
                                          !.available = @ + v]
  PROVE  Balanced(account')
<1>1. /\ account = [current |-> account.current, reserved |-> account.reserved,
                    available |-> account.available]
      /\ account.current \in Nat /\ account.reserved \in Nat
      /\ account.available \in Nat
      /\ account.available = account.current - account.reserved
  BY DEF Balanced
<1>2. CASE /\ v <= account.available
           /\ account' = [account EXCEPT !.reserved = @ + v,
                                         !.available = @ - v]
  <2>1. account' = [current |-> account.current,
                    reserved |-> account.reserved + v,
                    available |-> account.available - v]
    BY <1>1, <1>2
  <2>2. account.available - v \in Nat
    BY <1>1, <1>2
  <2> QED BY <1>1, <2>1, <2>2 DEF Balanced
<1>3. CASE /\ v <= account.reserved
           /\ account' = [account EXCEPT !.current = @ - v,
                                         !.reserved = @ - v]
  <2>1. account' = [current |-> account.current - v,
                    reserved |-> account.reserved - v,
                    available |-> account.available]
    BY <1>1, <1>3
  <2>2. account.current - v \in Nat /\ account.reserved - v \in Nat
    BY <1>1, <1>3
  <2> QED BY <1>1, <2>1, <2>2 DEF Balanced
<1>4. CASE /\ v <= account.reserved
           /\ account' = [account EXCEPT !.reserved = @ - v,
                                         !.available = @ + v]
  <2>1. account' = [current |-> account.current,
                    reserved |-> account.reserved - v,
                    available |-> account.available + v]
    BY <1>1, <1>4
  <2>2. account.reserved - v \in Nat
    BY <1>1, <1>4
  <2> QED BY <1>1, <2>1, <2>2 DEF Balanced
<1> QED BY <1>2, <1>3, <1>4

\* Only the account's balances change.
LEMMA AccountMove ==
  ASSUME DataTyped, Balanced(account'),
         UNCHANGED <<queue, audit, reservation, paid, dlq, rest>>
  PROVE  DataTyped'
BY DEF DataTyped, Balanced, rest, operatorVars

LEMMA TypeParts == TypeOK <=> DataTyped /\ WorkersTyped
BY DEF TypeOK, DataTyped, WorkersTyped

\* A delivery in flight that goes on, or ends in an exception, starts nothing.
LEMMA GoesOn ==
  ASSUME TypeOK, NEW w \in Workers, InFlight(w),
         NEW to \in Steps \ {"idle", "check", "create"},
         step' = [step EXCEPT ![w] = to], request' = request,
         to \in Unpaid => step[w] \in Unpaid,
         \A k \in Keys : audit[k] \in Audits => audit'[k] \in Audits
  PROVE  /\ WorkersTyped'
         /\ \A v \in Workers :
              InFlight(v)' => InFlight(v) /\ request'[v] = request[v]
         /\ \A v \in Workers : step'[v] \in Unpaid => step[v] \in Unpaid
         /\ \A q \in Requests : Asked(q)' => Asked(q) \/ queue'[q] > 0
         /\ Asked(request[w])
<1>1. step \in [Workers -> Steps] /\ step[w] # "idle"
  BY DEF TypeOK, InFlight, Try, Release, Handler
<1>2. /\ step' \in [Workers -> Steps] /\ step'[w] = to
      /\ \A v \in Workers : v # w => step'[v] = step[v]
  BY <1>1
<1>3. \A v \in Workers : step'[v] # "idle" => step[v] # "idle"
  BY <1>1, <1>2
<1>4. \A v \in Workers :
        InFlight(v)' => InFlight(v) /\ request'[v] = request[v]
  BY <1>2 DEF InFlight
<1>5. \A v \in Workers : step'[v] \in Unpaid => step[v] \in Unpaid
  BY <1>2
<1>6. ASSUME NEW v \in Workers, InFlight(v)'
      PROVE  audit'[Key(v)'] \in Audits
  <2>1. InFlight(v) /\ Key(v)' = Key(v)
    BY <1>4, <1>6 DEF Key, Rew
  <2> QED BY <2>1, InFlightType
<1>7. WorkersTyped'
  BY <1>2, <1>3, <1>6 DEF WorkersTyped, TypeOK
<1>8. \A q \in Requests : Asked(q)' => Asked(q) \/ queue'[q] > 0
  BY <1>3 DEF Asked
<1>9. Asked(request[w])
  BY <1>1 DEF Asked
<1> QED BY <1>4, <1>5, <1>7, <1>8, <1>9

\* A delivery in flight that touches no audit, message or provider.
LEMMA MoneyMove ==
  ASSUME FulfilInv, NEW w \in Workers, InFlight(w),
         NEW to \in Steps \ {"idle", "check", "create"},
         step' = [step EXCEPT ![w] = to],
         to \in Unpaid => step[w] \in Unpaid,
         UNCHANGED <<request, queue, audit, paid, replaying>>,
         DataTyped'
  PROVE  FulfilInv'
<1>1. TypeOK
  BY DEF FulfilInv
<1>2. /\ WorkersTyped'
      /\ \A v \in Workers :
           InFlight(v)' => InFlight(v) /\ request'[v] = request[v]
      /\ \A v \in Workers : step'[v] \in Unpaid => step[v] \in Unpaid
      /\ \A q \in Requests : Asked(q)' => Asked(q) \/ queue'[q] > 0
  BY <1>1, GoesOn
<1>3. TypeOK'
  BY <1>2 DEF TypeOK, DataTyped, WorkersTyped
<1>4. \A q \in Requests : Asked(q)' => Asked(q)
  BY <1>2 DEF Asked
<1> QED BY <1>2, <1>3, <1>4, Frame

\* The hold on the account and the reservation of a reward.
LEMMA ReserveKeeps ==
  ASSUME FulfilInv, NEW w \in Workers,
         \/ ReserveSkipped(w) \/ ReserveRefused(w) \/ ReserveFunds(w)
         \/ InsertReservation(w)
  PROVE  FulfilInv'
<1>1. TypeOK /\ DataTyped
  BY TypeParts DEF FulfilInv
<1>2. InFlight(w)
  BY DEF ReserveSkipped, ReserveRefused, ReserveFunds, InsertReservation,
         Goto, InFlight, Try
<1>3. Rew(w) \in Rewards /\ RequestAmount(request[w]) \in Nat
  BY <1>1, <1>2, InFlightType, FulfilmentAssumption
  DEF RequestAmount, Requests, Rew
<1>4. CASE ReserveSkipped(w)
  <2>1. DataTyped'
    BY <1>1, <1>4 DEF ReserveSkipped, DataTyped, money, rest, operatorVars
  <2> QED BY <1>2, <1>4, <2>1, MoneyMove
      DEF ReserveSkipped, Goto, Steps, Try, Unpaid, rest, operatorVars
<1>5. CASE ReserveRefused(w)
  <2>1. DataTyped'
    BY <1>1, <1>5 DEF ReserveRefused, DataTyped, money, rest, operatorVars
  <2> QED BY <1>2, <1>5, <2>1, MoneyMove
      DEF ReserveRefused, Goto, Steps, Release, Unpaid, rest, operatorVars
<1>6. CASE ReserveFunds(w)
  <2>1. DataTyped'
    <3> DEFINE v == RequestAmount(request[w])
    <3>1. /\ v <= account.available
          /\ account' = [account EXCEPT !.reserved = @ + v, !.available = @ - v]
      BY <1>1, <1>3, <1>6 DEF ReserveFunds, Fundable, DataTyped
    <3>2. Balanced(account')
      BY <1>1, <1>3, <3>1, MovesBalance DEF Balanced, DataTyped
    <3> QED BY <1>1, <1>6, <3>2, AccountMove DEF ReserveFunds
  <2> QED BY <1>2, <1>6, <2>1, MoneyMove
      DEF ReserveFunds, Goto, Steps, Try, Unpaid, rest, operatorVars
<1>7. CASE InsertReservation(w)
  <2>1. DataTyped'
    BY <1>1, <1>3, <1>7 DEF InsertReservation, DataTyped, rest, operatorVars
  <2> QED BY <1>2, <1>7, <2>1, MoneyMove
      DEF InsertReservation, Goto, Steps, Try, Release, Unpaid,
          rest, operatorVars
<1> QED BY <1>4, <1>5, <1>6, <1>7

\* The settlement and the release of what a reward holds.
LEMMA TakeKeeps ==
  ASSUME FulfilInv, NEW w \in Workers,
         \/ SettleFunds(w) \/ SettleRefused(w) \/ MarkSettled(w)
         \/ ReleaseFunds(w) \/ ReleaseRefused(w) \/ MarkReleased(w)
  PROVE  FulfilInv'
<1>1. TypeOK /\ DataTyped
  BY TypeParts DEF FulfilInv
<1>2. InFlight(w)
  BY DEF SettleFunds, SettleRefused, MarkSettled, ReleaseFunds,
         ReleaseRefused, MarkReleased, Goto, InFlight, Try, Release
<1>3. Rew(w) \in Rewards /\ Amount[Rew(w)] \in Nat
  BY <1>1, <1>2, InFlightType, FulfilmentAssumption
<1>4. CASE SettleFunds(w)
  <2>1. DataTyped'
    <3> DEFINE v == Amount[Rew(w)]
    <3>1. /\ v <= account.reserved
          /\ account' = [account EXCEPT !.current = @ - v, !.reserved = @ - v]
      BY <1>1, <1>3, <1>4 DEF SettleFunds, CanTake, DataTyped
    <3>2. Balanced(account')
      BY <1>1, <1>3, <3>1, MovesBalance DEF Balanced, DataTyped
    <3> QED BY <1>1, <1>4, <3>2, AccountMove DEF SettleFunds
  <2> QED BY <1>2, <1>4, <2>1, MoneyMove
      DEF SettleFunds, Goto, Steps, Try, Unpaid, rest, operatorVars
<1>5. CASE SettleRefused(w)
  <2>1. DataTyped'
    BY <1>1, <1>5 DEF SettleRefused, DataTyped, money, rest, operatorVars
  <2> QED BY <1>2, <1>5, <2>1, MoneyMove
      DEF SettleRefused, Goto, Steps, Release, Unpaid, rest, operatorVars
<1>6. CASE MarkSettled(w)
  <2>1. DataTyped'
    BY <1>1, <1>3, <1>6 DEF MarkSettled, Marked, DataTyped, rest, operatorVars
  <2> QED BY <1>2, <1>6, <2>1, MoneyMove
      DEF MarkSettled, Goto, Steps, Release, Unpaid, rest, operatorVars
<1>7. CASE ReleaseFunds(w)
  <2>1. DataTyped'
    <3> DEFINE v == Amount[Rew(w)]
    <3>1. /\ v <= account.reserved
          /\ account' = [account EXCEPT !.reserved = @ - v, !.available = @ + v]
      BY <1>1, <1>3, <1>7 DEF ReleaseFunds, CanTake, DataTyped
    <3>2. Balanced(account')
      BY <1>1, <1>3, <3>1, MovesBalance DEF Balanced, DataTyped
    <3> QED BY <1>1, <1>7, <3>2, AccountMove DEF ReleaseFunds
  <2> QED BY <1>2, <1>7, <2>1, MoneyMove
      DEF ReleaseFunds, Goto, Steps, Release, Unpaid, rest, operatorVars
<1>8. CASE ReleaseRefused(w)
  <2>1. DataTyped'
    BY <1>1, <1>8 DEF ReleaseRefused, DataTyped, money, rest, operatorVars
  <2> QED BY <1>2, <1>8, <2>1, MoneyMove
      DEF ReleaseRefused, Goto, Steps, Handler, Unpaid, rest, operatorVars
<1>9. CASE MarkReleased(w)
  <2>1. DataTyped'
    BY <1>1, <1>3, <1>9 DEF MarkReleased, Marked, DataTyped, rest, operatorVars
  <2> QED BY <1>2, <1>9, <2>1, MoneyMove
      DEF MarkReleased, Goto, Steps, Handler, Unpaid, rest, operatorVars
<1> QED BY <1>4, <1>5, <1>6, <1>7, <1>8, <1>9

-----------------------------------------------------------------------------
\* An audit row that is there is given another status or attempt.
LEMMA AuditMove ==
  ASSUME TypeOK, NEW k \in Keys, audit[k] \in Audits, NEW a \in Audits,
         a.reward = audit[k].reward, audit' = [audit EXCEPT ![k] = a]
  PROVE  /\ audit' \in [Keys -> Audits \cup {NoAudit}]
         /\ audit'[k] = a
         /\ \A j \in Keys : /\ audit'[j] = NoAudit <=> audit[j] = NoAudit
                            /\ audit[j] # NoAudit =>
                                 audit'[j].reward = audit[j].reward
                            /\ audit[j] \in Audits => audit'[j] \in Audits
                            /\ j # k => audit'[j] = audit[j]
<1>1. audit \in [Keys -> Audits \cup {NoAudit}]
  BY DEF TypeOK
<1>2. audit[k] # NoAudit /\ a # NoAudit
  BY DEF NoAudit, Audits, Statuses, Failed
<1> QED BY <1>1, <1>2

\* A delivery in flight writes its audit row; if it fails it, it has ended.
LEMMA AuditStep ==
  ASSUME FulfilInv, NEW w \in Workers, InFlight(w),
         NEW to \in Steps \ {"idle", "check", "create"},
         step' = [step EXCEPT ![w] = to],
         to \in Unpaid => step[w] \in Unpaid,
         NEW a \in Audits, a.reward = audit[Key(w)].reward,
         a.status \in Failed => to = "park",
         audit' = [audit EXCEPT ![Key(w)] = a],
         UNCHANGED <<request, queue, reservation, account, paid, copies,
                     operatorVars>>,
         dlq' \subseteq Requests,
         faults' \in Nat /\ copies + faults' <= MaxFaults
  PROVE  FulfilInv'
<1>1. TypeOK /\ DataTyped
  BY TypeParts DEF FulfilInv
<1>2. Key(w) \in Keys /\ audit[Key(w)] \in Audits
  BY <1>1, InFlightType
<1>3. /\ audit' \in [Keys -> Audits \cup {NoAudit}]
      /\ audit'[Key(w)] = a
      /\ \A j \in Keys : /\ audit'[j] = NoAudit <=> audit[j] = NoAudit
                         /\ audit[j] # NoAudit =>
                              audit'[j].reward = audit[j].reward
                         /\ audit[j] \in Audits => audit'[j] \in Audits
                         /\ j # Key(w) => audit'[j] = audit[j]
  BY <1>1, <1>2, AuditMove
<1>4. /\ WorkersTyped'
      /\ \A v \in Workers :
           InFlight(v)' => InFlight(v) /\ request'[v] = request[v]
      /\ \A v \in Workers : step'[v] \in Unpaid => step[v] \in Unpaid
      /\ \A q \in Requests : Asked(q)' => Asked(q) \/ queue'[q] > 0
  BY <1>1, <1>3, GoesOn
<1>5. \A q \in Requests : Asked(q)' => Asked(q)
  BY <1>4 DEF Asked
<1>6. TypeOK'
  <2>1. DataTyped'
    BY <1>1, <1>3 DEF DataTyped, operatorVars
  <2> QED BY <1>4, <2>1 DEF TypeOK, DataTyped, WorkersTyped
<1>7. ASSUME NEW k \in Keys, audit'[k].status \in Failed,
             audit[k].status \notin Failed, NEW v \in Workers, InFlight(v)'
      PROVE  Key(v)' # k
  <2>1. k = Key(w) /\ to = "park"
    BY <1>3, <1>7
  <2>2. step'[w] = "park" /\ v # w
    BY <1>1, <1>7, <2>1
    DEF TypeOK, InFlight, Try, Release, Handler
  <2>3. InFlight(v) /\ Key(v)' = Key(v)
    BY <1>4, <1>7 DEF Key
  <2> QED BY <2>1, <2>2, <2>3 DEF FulfilInv, Exclusive
<1> QED BY <1>3, <1>4, <1>5, <1>6, <1>7, Frame DEF operatorVars

\* What fulfil_reward writes to its audit row while it runs.
LEMMA AuditKeeps ==
  ASSUME FulfilInv, NEW w \in Workers,
         \/ MarkProcessing(w) \/ MarkSuccess(w) \/ CountAttempt(w)
         \/ MarkFailed(w)
  PROVE  FulfilInv'
<1>1. TypeOK
  BY DEF FulfilInv
<1>2. InFlight(w)
  BY DEF MarkProcessing, MarkSuccess, CountAttempt, MarkFailed, Goto,
         InFlight, Try, Handler
<1>3. /\ audit[Key(w)] \in Audits /\ request[w] \in Requests
      /\ dlq \subseteq Requests
      /\ copies \in Nat /\ faults \in Nat /\ copies + faults <= MaxFaults
  BY <1>1, <1>2, InFlightType DEF TypeOK
<1>4. audit[Key(w)].status \notin Failed
  BY <1>2 DEF FulfilInv, Undecided
<1> DEFINE Marked2(s) == [audit[Key(w)] EXCEPT !.status = s]
<1>5. \A s \in Statuses : /\ Marked2(s) \in Audits /\ Marked2(s).status = s
                          /\ Marked2(s).reward = audit[Key(w)].reward
  BY <1>3 DEF Audits
<1>6. CASE MarkProcessing(w)
  <2>1. audit' = [audit EXCEPT ![Key(w)] = Marked2("PROCESSING")]
    BY <1>6 DEF MarkProcessing, SetStatus
  <2>2. "PROCESSING" \in Statuses \ Failed
    BY DEF Statuses, Failed
  <2> HIDE DEF Marked2
  <2> QED BY <1>2, <1>3, <1>5, <1>6, <2>1, <2>2, AuditStep
      DEF MarkProcessing, Goto, money, rest, operatorVars, Steps, Try, Unpaid
<1>7. CASE MarkSuccess(w)
  <2>1. audit' = [audit EXCEPT ![Key(w)] = Marked2("SUCCESS")]
    BY <1>7 DEF MarkSuccess, SetStatus
  <2>2. "SUCCESS" \in Statuses \ Failed
    BY DEF Statuses, Failed
  <2> HIDE DEF Marked2
  <2> QED BY <1>2, <1>3, <1>5, <1>7, <2>1, <2>2, AuditStep
      DEF MarkSuccess, Goto, money, rest, operatorVars, Steps, Try, Unpaid
<1>8. CASE CountAttempt(w)
  <2> DEFINE a == [audit[Key(w)] EXCEPT !.attempt = @ + 1]
  <2>1. audit' = [audit EXCEPT ![Key(w)] = a]
    BY <1>8 DEF CountAttempt
  <2>2. /\ a \in Audits /\ a.reward = audit[Key(w)].reward
        /\ a.status \notin Failed
    BY <1>3, <1>4 DEF Audits
  <2>3. \E to \in {"retry", "fail"} : step' = [step EXCEPT ![w] = to]
    BY <1>8 DEF CountAttempt, Goto
  <2> HIDE DEF a
  <2> QED BY <1>2, <1>3, <1>8, <2>1, <2>2, <2>3, AuditStep
      DEF CountAttempt, money, rest, operatorVars, Steps, Handler, Unpaid
<1>9. CASE MarkFailed(w)
  <2> DEFINE s == IF Retryable(w) THEN "FAILED_RETRYABLE" ELSE "FAILED_FINAL"
  <2>1. audit' = [audit EXCEPT ![Key(w)] = Marked2(s)] /\ s \in Statuses
    BY <1>9 DEF MarkFailed, SetStatus, Statuses, Failed
  <2>2. /\ dlq' \subseteq Requests
        /\ faults' \in Nat /\ copies + faults' <= MaxFaults
    BY <1>3, <1>9, FulfilmentAssumption DEF MarkFailed, PublishToDlq, CanFault
  <2> HIDE DEF s, Marked2
  <2> QED BY <1>2, <1>3, <1>5, <1>9, <2>1, <2>2, AuditStep
      DEF MarkFailed, Goto, money, rest, operatorVars, Steps, Unpaid
<1> QED BY <1>6, <1>7, <1>8, <1>9

-----------------------------------------------------------------------------
\* The request asked for once more is one that a delivery asks for.
LEMMA RetryKeeps ==
  ASSUME FulfilInv, NEW w \in Workers, ScheduleRetry(w)
  PROVE  FulfilInv'
<1>1. TypeOK /\ DataTyped
  BY TypeParts DEF FulfilInv
<1>2. InFlight(w)
  BY DEF ScheduleRetry, Goto, InFlight, Handler
<1>3. request[w] \in Requests
  BY <1>1, <1>2, InFlightType
<1>4. /\ step' = [step EXCEPT ![w] = "fail"] /\ queue' = Sent(request[w])
      /\ UNCHANGED <<request, audit, money, paid, dlq, rest>>
  BY DEF ScheduleRetry, Goto
<1>5. /\ WorkersTyped'
      /\ \A v \in Workers :
           InFlight(v)' => InFlight(v) /\ request'[v] = request[v]
      /\ \A v \in Workers : step'[v] \in Unpaid => step[v] \in Unpaid
      /\ \A q \in Requests : Asked(q)' => Asked(q) \/ queue'[q] > 0
      /\ Asked(request[w])
  BY <1>1, <1>2, <1>4, GoesOn DEF Steps, Handler, Unpaid
<1>6. queue' \in [Requests -> Nat]
  BY <1>1, <1>3, <1>4 DEF DataTyped, Sent
<1>7. \A q \in Requests : Asked(q)' => Asked(q)
  BY <1>1, <1>3, <1>4, <1>5 DEF DataTyped, Sent, Asked
<1>8. TypeOK'
  BY <1>1, <1>4, <1>5, <1>6
  DEF TypeOK, DataTyped, WorkersTyped, money, rest, operatorVars
<1> QED BY <1>4, <1>5, <1>7, <1>8, Frame DEF rest, operatorVars

\* The provider is asked under a key that no one else is in flight with.
LEMMA PayKeeps ==
  ASSUME FulfilInv, NEW w \in Workers, Pay(w)
  PROVE  FulfilInv'
<1>1. TypeOK /\ DataTyped
  BY TypeParts DEF FulfilInv
<1>2. InFlight(w)
  BY DEF Pay, Goto, InFlight, Try
<1>3. Key(w) \in Keys /\ audit[Key(w)] # NoAudit
  BY <1>1, <1>2, InFlightType
<1>4. /\ step[w] = "pay" /\ step' = [step EXCEPT ![w] = "succeed"]
      /\ paid' = [paid EXCEPT ![Key(w)] = @ + 1]
      /\ UNCHANGED <<queue, request, audit, money, dlq, rest>>
  BY DEF Pay, Goto
<1>5. /\ WorkersTyped'
      /\ \A v \in Workers :
           InFlight(v)' => InFlight(v) /\ request'[v] = request[v]
      /\ \A v \in Workers : step'[v] \in Unpaid => step[v] \in Unpaid
      /\ \A q \in Requests : Asked(q)' => Asked(q) \/ queue'[q] > 0
  BY <1>1, <1>2, <1>4, GoesOn DEF Steps, Try, Unpaid
<1>6. \A q \in Requests : Asked(q)' => Asked(q)
  BY <1>4, <1>5 DEF Asked
<1>7. paid[Key(w)] = 0
  BY <1>4 DEF FulfilInv, NotYetPaid, Unpaid
<1>8. /\ paid' \in [Keys -> Nat] /\ paid'[Key(w)] = 1
      /\ \A k \in Keys : k # Key(w) => paid'[k] = paid[k]
  BY <1>1, <1>3, <1>4, <1>7 DEF DataTyped
<1>9. TypeOK'
  BY <1>1, <1>4, <1>5, <1>8
  DEF TypeOK, DataTyped, WorkersTyped, money, rest, operatorVars
<1>10. Exclusive' /\ Undecided' /\ OriginalsEnded' /\ EndedBeforeReplay'
  BY <1>4, <1>5, <1>6, KeptApart DEF rest, operatorVars
<1>11. ASSUME NEW v \in Workers, step'[v] \in Unpaid
       PROVE  paid'[Key(v)'] = 0
  <2>1. step[v] \in Unpaid /\ v # w
    BY <1>1, <1>4, <1>5, <1>11 DEF TypeOK, Unpaid
  <2>2. InFlight(v) /\ Key(v)' = Key(v)
    BY <1>4, <2>1 DEF InFlight, Unpaid, Try, Key
  <2>3. Key(v) # Key(w) /\ Key(v) \in Keys
    BY <1>1, <1>2, <2>1, <2>2, InFlightType DEF FulfilInv, Exclusive
  <2> QED BY <1>8, <2>1, <2>2, <2>3 DEF FulfilInv, NotYetPaid
<1>12. NotYetPaid'
  <2>1. \A k \in Keys : audit'[k] = NoAudit => paid'[k] = 0
    BY <1>3, <1>4, <1>8 DEF FulfilInv, NotYetPaid
  <2> QED BY <1>11, <2>1 DEF NotYetPaid
<1>13. PaidOncePerKey'
  BY <1>8 DEF FulfilInv, PaidOncePerKey
<1> QED BY <1>9, <1>10, <1>12, <1>13 DEF FulfilInv

\* An audit row is inserted under a key that no delivery in flight has.
LEMMA CreateKeeps ==
  ASSUME FulfilInv, NEW w \in Workers, Create(w)
  PROVE  FulfilInv'
<1>1. TypeOK /\ DataTyped
  BY TypeParts DEF FulfilInv
<1> DEFINE new == [status |-> "PENDING", attempt |-> 1, reward |-> Rew(w)]
<1>2. /\ step[w] = "create" /\ step' = [step EXCEPT ![w] = "mark"]
      /\ audit[Key(w)] = NoAudit
      /\ audit' = [audit EXCEPT ![Key(w)] = new]
      /\ UNCHANGED <<queue, request, money, paid, dlq, rest>>
  BY DEF Create, Goto
<1>3. request[w] \in Requests /\ Key(w) \in Keys /\ Rew(w) \in Rewards
  BY <1>1, <1>2, KeyType DEF TypeOK, Key, Rew, Requests
<1>4. new \in Audits /\ new.status \notin Failed /\ new # NoAudit
      /\ new.reward = Rew(w)
  BY <1>3 DEF Audits, Statuses, Failed, NoAudit
<1> HIDE DEF new
<1>5. /\ audit' \in [Keys -> Audits \cup {NoAudit}]
      /\ audit'[Key(w)] = new
      /\ \A k \in Keys : k # Key(w) => audit'[k] = audit[k]
  BY <1>1, <1>2, <1>3, <1>4 DEF DataTyped
<1>6. /\ step' \in [Workers -> Steps] /\ step'[w] = "mark"
      /\ \A v \in Workers : v # w => step'[v] = step[v]
  BY <1>1, <1>2 DEF TypeOK, Steps, Before
<1>7. \A v \in Workers : Key(v)' = Key(v) /\ Rew(v)' = Rew(v)
  BY <1>2 DEF Key, Rew
<1>8. ASSUME NEW v \in Workers, v # w, InFlight(v)'
      PROVE  /\ InFlight(v) /\ Key(v) \in Keys /\ Key(v) # Key(w)
             /\ audit'[Key(v)] = audit[Key(v)] /\ audit[Key(v)] \in Audits
  <2>1. InFlight(v)
    BY <1>6, <1>8 DEF InFlight
  <2>2. Key(v) \in Keys /\ audit[Key(v)] # NoAudit /\ audit[Key(v)] \in Audits
    BY <1>1, <2>1, InFlightType
  <2> QED BY <1>2, <1>5, <2>1, <2>2
<1>9. TypeOK'
  <2>1. \A v \in Workers : step'[v] # "idle" => request'[v] \in Requests
    BY <1>1, <1>2, <1>3, <1>6 DEF TypeOK
  <2>2. \A v \in Workers : InFlight(v)' => audit'[Key(v)'] \in Audits
    BY <1>4, <1>5, <1>7, <1>8
  <2> QED BY <1>1, <1>2, <1>5, <1>6, <2>1, <2>2
      DEF TypeOK, money, rest, operatorVars
<1>10. Exclusive'
  <2> SUFFICES ASSUME NEW u \in Workers, NEW v \in Workers,
                      InFlight(u)', InFlight(v)', Key(u)' = Key(v)'
               PROVE  u = v
    BY DEF Exclusive
  <2>1. CASE u = w \/ v = w
    BY <1>7, <1>8, <2>1
  <2>2. CASE u # w /\ v # w
    BY <1>7, <1>8, <2>2 DEF FulfilInv, Exclusive
  <2> QED BY <2>1, <2>2
<1>11. Undecided'
  BY <1>4, <1>5, <1>7, <1>8 DEF FulfilInv, Undecided
<1>12. NotYetPaid'
  <2>1. paid[Key(w)] = 0
    BY <1>2, <1>3 DEF FulfilInv, NotYetPaid
  <2>2. ASSUME NEW v \in Workers, step'[v] \in Unpaid
        PROVE  paid[Key(v)] = 0
    BY <1>6, <2>1, <2>2 DEF FulfilInv, NotYetPaid
  <2>3. \A k \in Keys : audit'[k] = NoAudit => audit[k] = NoAudit
    BY <1>4, <1>5
  <2> QED BY <1>2, <1>7, <2>2, <2>3 DEF FulfilInv, NotYetPaid
<1>13. PaidOncePerKey'
  BY <1>2 DEF FulfilInv, PaidOncePerKey
<1>14. ASSUME NEW r \in Rewards, Reopened(r)'
       PROVE  Reopened(r)
  <2>1. CASE Asked([reward |-> r, replay |-> TRUE])'
    <3>1. Asked([reward |-> r, replay |-> TRUE])
      BY <1>2, <1>6, <2>1 DEF Asked
    <3> QED BY <3>1 DEF Reopened
  <2>2. CASE \E k \in Keys : /\ audit'[k] # NoAudit /\ audit'[k].reward = r
                             /\ k # KeyOf[r]
    <3>1. PICK k \in Keys : /\ audit'[k] # NoAudit /\ audit'[k].reward = r
                            /\ k # KeyOf[r]
      BY <2>2
    <3>2. CASE k # Key(w)
      BY <1>5, <3>1, <3>2 DEF Reopened
    <3>3. CASE k = Key(w)
      <4>1. Rew(w) = r
        BY <1>4, <1>5, <3>1, <3>3
      <4>2. request[w].replay = TRUE
        BY <1>3, <3>1, <3>3, <4>1 DEF Key, Rew, RequestKey, Requests
      <4>3. request[w] = [reward |-> r, replay |-> TRUE]
        BY <1>3, <4>1, <4>2 DEF Rew, Requests
      <4>4. Asked(request[w])
        BY <1>2 DEF Asked
      <4> QED BY <4>3, <4>4 DEF Reopened
    <3> QED BY <3>2, <3>3
  <2> QED BY <1>14, <2>1, <2>2 DEF Reopened
<1>15. OriginalsEnded'
  <2> SUFFICES ASSUME NEW r \in Rewards, Reopened(r)'
               PROVE  /\ audit'[KeyOf[r]] # NoAudit
                      /\ \A v \in Workers : InFlight(v)' /\ Rew(v)' = r =>
                           request'[v].replay
    BY DEF OriginalsEnded
  <2>1. /\ audit[KeyOf[r]] # NoAudit
        /\ \A v \in Workers : InFlight(v) /\ Rew(v) = r => request[v].replay
    BY <1>14 DEF FulfilInv, OriginalsEnded
  <2>2. KeyOf[r] \in Keys /\ KeyOf[r] # Key(w)
    BY <1>2, <2>1, FulfilmentAssumption
  <2>3. Rew(w) = r => request[w].replay
    BY <1>3, <2>2 DEF Key, Rew, RequestKey, Requests
  <2> QED BY <1>2, <1>5, <1>7, <1>8, <2>1, <2>2, <2>3
<1>16. EndedBeforeReplay'
  <2>1. replaying' = replaying
    BY <1>2 DEF rest, operatorVars
  <2>2. ASSUME NEW k \in Keys, replaying[k] > 0
        PROVE  audit[k] # NoAudit /\ k # Key(w)
    BY <1>2, <2>2 DEF FulfilInv, EndedBeforeReplay
  <2> QED BY <1>5, <1>7, <1>8, <2>1, <2>2 DEF FulfilInv, EndedBeforeReplay
<1> QED BY <1>9, <1>10, <1>11, <1>12, <1>13, <1>15, <1>16 DEF FulfilInv

-----------------------------------------------------------------------------
\* A worker that neither is nor gets in flight.
LEMMA Aside ==
  ASSUME FulfilInv, NEW w \in Workers,
         NEW to \in {"idle", "check", "create", "park"},
         NEW q \in Requests \cup {NoRequest},
         to # "idle" => q \in Requests /\ Asked(q),
         step' = [step EXCEPT ![w] = to],
         request' = [request EXCEPT ![w] = q],
         \A p \in Requests : queue'[p] > 0 => Asked(p),
         UNCHANGED <<audit, paid, replaying>>, DataTyped'
  PROVE  FulfilInv'
<1>1. TypeOK
  BY DEF FulfilInv
<1>2. /\ step' \in [Workers -> Steps] /\ step'[w] = to
      /\ \A v \in Workers : v # w => step'[v] = step[v]
  BY <1>1 DEF TypeOK, Steps, Before
<1>3. /\ request' \in [Workers -> Requests \cup {NoRequest}]
      /\ request'[w] = q
      /\ \A v \in Workers : v # w => request'[v] = request[v]
  BY <1>1 DEF TypeOK
<1>4. ~InFlight(w)' /\ to \notin Unpaid
  BY <1>2 DEF InFlight, Try, Release, Handler, Unpaid
<1>5. \A v \in Workers :
        InFlight(v)' => InFlight(v) /\ request'[v] = request[v]
  BY <1>2, <1>3, <1>4 DEF InFlight
<1>6. \A v \in Workers : step'[v] \in Unpaid => step[v] \in Unpaid
  BY <1>2, <1>4
<1>7. \A p \in Requests : Asked(p)' => Asked(p)
  BY <1>2, <1>3 DEF Asked
<1>8. TypeOK'
  <2>1. \A v \in Workers : InFlight(v)' => audit'[Key(v)'] \in Audits
    BY <1>1, <1>5, InFlightType DEF Key
  <2>2. \A v \in Workers : step'[v] # "idle" => request'[v] \in Requests
    BY <1>1, <1>2, <1>3 DEF TypeOK
  <2> QED BY <1>2, <1>3, <2>1, <2>2 DEF TypeOK, DataTyped
<1> QED BY <1>5, <1>6, <1>7, <1>8, Frame

\* The steps before the audit row is there, and those that end a delivery.
LEMMA AsideKeeps ==
  ASSUME FulfilInv, NEW w \in Workers,
         \/ Skip(w) \/ Check(w) \/ CreateRefused(w) \/ Park(w) \/ Crash(w)
         \/ Raise(w) /\ ~InFlight(w)
         \/ \E q \in Requests : Take(w, q)
  PROVE  FulfilInv'
<1>1. TypeOK /\ DataTyped
  BY TypeParts DEF FulfilInv
<1>2. request = [request EXCEPT ![w] = request[w]]
  BY <1>1 DEF TypeOK
<1>3. step[w] # "idle" => request[w] \in Requests /\ Asked(request[w])
  BY <1>1 DEF TypeOK, Asked
<1>4. queue' = queue => \A p \in Requests : queue'[p] > 0 => Asked(p)
  BY DEF Asked
<1>5. CASE Skip(w)
  <2>1. DataTyped'
    BY <1>1, <1>5 DEF Skip, DataTyped, money, rest, operatorVars
  <2> QED BY <1>4, <1>5, <2>1, Aside DEF Skip, Done, rest, operatorVars
<1>6. CASE Check(w)
  <2>1. DataTyped'
    BY <1>1, <1>6 DEF Check, DataTyped, money, rest, operatorVars
  <2> QED BY <1>2, <1>3, <1>4, <1>6, <2>1, Aside
      DEF Check, Goto, rest, operatorVars
<1>7. CASE CreateRefused(w)
  <2>1. DataTyped'
    BY <1>1, <1>7 DEF CreateRefused, DataTyped, money, rest, operatorVars
  <2> QED BY <1>2, <1>3, <1>4, <1>7, <2>1, Aside
      DEF CreateRefused, Goto, rest, operatorVars
<1>8. CASE Park(w)
  <2>1. DataTyped'
    BY <1>1, <1>3, <1>8, FulfilmentAssumption
    DEF Park, PublishToDlq, CanFault, DataTyped, money, operatorVars
  <2> QED BY <1>4, <1>8, <2>1, Aside DEF Park, Done, operatorVars
<1>9. CASE Crash(w)
  <2>1. queue' = Sent(request[w]) /\ step[w] # "idle"
    BY <1>9 DEF Crash
  <2>2. DataTyped'
    BY <1>1, <1>3, <1>9, <2>1, FulfilmentAssumption
    DEF Crash, CanFault, Sent, DataTyped, money, operatorVars
  <2>3. \A p \in Requests : queue'[p] > 0 => Asked(p)
    BY <1>1, <1>3, <2>1 DEF DataTyped, Sent, Asked
  <2> QED BY <1>9, <2>2, <2>3, Aside DEF Crash, Done, rest, operatorVars
<1>10. CASE Raise(w) /\ ~InFlight(w)
  <2>1. DataTyped'
    BY <1>1, <1>10, FulfilmentAssumption
    DEF Raise, CanFault, DataTyped, money, operatorVars
  <2>2. step[w] \in {"check", "create"}
    BY <1>1, <1>10
    DEF TypeOK, Steps, Before, Raise, InFlight
  <2>3. AfterRaise(step[w]) = "park"
    BY <2>2 DEF AfterRaise, Before, Handler, Try, Release
  <2> QED BY <1>2, <1>3, <1>4, <1>10, <2>1, <2>2, <2>3, Aside
      DEF Raise, rest, operatorVars
<1>11. CASE \E q \in Requests : Take(w, q)
  <2>1. PICK q \in Requests : Take(w, q)
    BY <1>11
  <2>2. /\ queue[q] > 0 /\ queue \in [Requests -> Nat]
        /\ queue' = [queue EXCEPT ![q] = @ - 1] \/ queue' = queue
    BY <1>1, <2>1 DEF Take, DataTyped
  <2>3. DataTyped'
    BY <1>1, <2>1, <2>2, FulfilmentAssumption
    DEF Take, CanFault, DataTyped, money, operatorVars
  <2>4. Asked(q) /\ \A p \in Requests : queue'[p] > 0 => Asked(p)
    BY <2>2 DEF Asked
  <2> QED BY <2>1, <2>3, <2>4, Aside DEF Take, Goto, rest, operatorVars
<1> QED BY <1>5, <1>6, <1>7, <1>8, <1>9, <1>10, <1>11

\* An exception in flight leads to the handler, or out of fulfil_reward.
LEMMA RaiseKeeps ==
  ASSUME FulfilInv, NEW w \in Workers, Raise(w)
  PROVE  FulfilInv'
<1>1. TypeOK /\ DataTyped
  BY TypeParts DEF FulfilInv
<1>2. CASE InFlight(w)
  <2>1. DataTyped'
    BY <1>1, FulfilmentAssumption
    DEF Raise, CanFault, DataTyped, money, operatorVars
  <2>2. AfterRaise(step[w]) \in {"park", "release", "count"}
    BY <1>1 DEF TypeOK, Steps, Raise, AfterRaise
  <2>3. /\ AfterRaise(step[w]) \in Steps \ {"idle", "check", "create"}
        /\ AfterRaise(step[w]) \notin Unpaid
    BY <2>2 DEF Steps, Release, Handler, Unpaid
  <2> QED BY <1>2, <2>1, <2>3, MoneyMove DEF Raise, money, rest, operatorVars
<1> QED BY <1>2, AsideKeeps

\* A replay starts from a failed audit, whose own delivery has ended.
LEMMA ReadKeeps ==
  ASSUME FulfilInv, NEW k \in Keys, ReadForReplay(k)
  PROVE  FulfilInv'
<1>1. TypeOK
  BY DEF FulfilInv
<1>2. /\ audit[k].status \in Failed
      /\ replaying' = [replaying EXCEPT ![k] = @ + 1]
      /\ replays \in Nat /\ replays' = replays + 1 /\ replays' <= MaxReplays
      /\ UNCHANGED <<queue, step, request, audit, money, paid, dlq, copies,
                     faults>>
  BY <1>1, FulfilmentAssumption DEF ReadForReplay, TypeOK
<1>3. audit[k] # NoAudit /\ \A w \in Workers : InFlight(w) => Key(w) # k
  BY <1>2 DEF FulfilInv, Undecided, NoAudit, Failed
<1>4. /\ replaying' \in [Keys -> Nat]
      /\ \A j \in Keys : j # k => replaying'[j] = replaying[j]
  BY <1>1, <1>2 DEF TypeOK
<1>5. /\ \A w \in Workers : /\ InFlight(w)' <=> InFlight(w)
                            /\ Key(w)' = Key(w) /\ Rew(w)' = Rew(w)
      /\ \A q : Asked(q)' <=> Asked(q)
      /\ \A r : Reopened(r)' <=> Reopened(r)
  BY <1>2 DEF InFlight, Key, Rew, Asked, Reopened
<1>6. TypeOK'
  BY <1>1, <1>2, <1>4, <1>5, FulfilmentAssumption DEF TypeOK, money
<1>7. EndedBeforeReplay'
  BY <1>2, <1>3, <1>4, <1>5 DEF FulfilInv, EndedBeforeReplay
<1>8. Exclusive' /\ Undecided' /\ NotYetPaid' /\ PaidOncePerKey'
  BY <1>2, <1>5
  DEF FulfilInv, Exclusive, Undecided, NotYetPaid, PaidOncePerKey
<1>9. OriginalsEnded'
  BY <1>2, <1>5 DEF FulfilInv, OriginalsEnded
<1> QED BY <1>6, <1>7, <1>8, <1>9 DEF FulfilInv

\* It marks the audit of a delivery that has ended.
LEMMA ReplayKeeps ==
  ASSUME FulfilInv, NEW k \in Keys, Replay(k)
  PROVE  FulfilInv'
<1>1. TypeOK /\ DataTyped
  BY TypeParts DEF FulfilInv
<1> DEFINE a == [audit[k] EXCEPT !.status = "PENDING"]
           r == audit[k].reward
           again == [reward |-> r, replay |-> TRUE]
<1>2. /\ audit[k] \in Audits /\ audit[k] # NoAudit
      /\ \A w \in Workers : InFlight(w) => Key(w) # k
  BY <1>1 DEF Replay, TypeOK, FulfilInv, EndedBeforeReplay
<1>3. r \in Rewards /\ again \in Requests
  BY <1>2 DEF Audits, Requests
<1>4. a \in Audits /\ a.reward = r /\ a.status \notin Failed
  BY <1>2 DEF Audits, Statuses, Failed
<1>5. /\ audit' = [audit EXCEPT ![k] = a]
      /\ queue' = Sent(again) \/ queue' = queue
      /\ UNCHANGED <<step, request, money, paid, dlq, copies>>
  BY DEF Replay
<1> HIDE DEF a, again
<1>6. /\ audit' \in [Keys -> Audits \cup {NoAudit}] /\ audit'[k] = a
      /\ \A j \in Keys : /\ audit'[j] = NoAudit <=> audit[j] = NoAudit
                         /\ audit[j] # NoAudit =>
                              audit'[j].reward = audit[j].reward
                         /\ audit[j] \in Audits => audit'[j] \in Audits
                         /\ j # k => audit'[j] = audit[j]
  BY <1>1, <1>2, <1>4, <1>5, AuditMove
<1>7. \A v \in Workers :
        /\ InFlight(v)' <=> InFlight(v)
        /\ Key(v)' = Key(v) /\ Rew(v)' = Rew(v) /\ request'[v] = request[v]
  BY <1>5 DEF InFlight, Key, Rew
<1>8. TypeOK'
  <2>1. queue' \in [Requests -> Nat]
    BY <1>1, <1>3, <1>5 DEF DataTyped, Sent
  <2>2. DataTyped'
    BY <1>1, <1>5, <1>6, <2>1, FulfilmentAssumption
    DEF Replay, CanFault, DataTyped, money, operatorVars
  <2>3. \A v \in Workers : InFlight(v)' => audit'[Key(v)'] \in Audits
    BY <1>1, <1>6, <1>7, InFlightType
  <2>4. WorkersTyped'
    BY <1>1, <1>5, <2>3 DEF TypeOK, WorkersTyped
  <2> QED BY <2>2, <2>4 DEF TypeOK, DataTyped, WorkersTyped
<1>9. Exclusive'
  BY <1>7 DEF FulfilInv, Exclusive
<1>10. Undecided'
  <2>1. ASSUME NEW v \in Workers, InFlight(v)
        PROVE  audit'[Key(v)].status \notin Failed
    BY <1>1, <1>4, <1>6, <2>1, InFlightType DEF FulfilInv, Undecided
  <2> QED BY <1>7, <2>1 DEF Undecided
<1>11. NotYetPaid'
  BY <1>5, <1>6, <1>7 DEF FulfilInv, NotYetPaid
<1>12. PaidOncePerKey'
  BY <1>5 DEF FulfilInv, PaidOncePerKey
<1>13. ASSUME NEW x \in Rewards, Reopened(x)'
       PROVE  Reopened(x) \/ (x = r /\ k = KeyOf[r])
  <2>1. CASE Asked([reward |-> x, replay |-> TRUE])'
    <3>1. CASE x = r
      BY <1>2, <1>3, <3>1 DEF Reopened
    <3>2. CASE x # r
      <4>1. /\ [reward |-> x, replay |-> TRUE] # again
            /\ [reward |-> x, replay |-> TRUE] \in Requests
        BY <3>2, ReplayRequest, <1>3 DEF again
      <4>2. queue'[[reward |-> x, replay |-> TRUE]]
              = queue[[reward |-> x, replay |-> TRUE]]
        BY <1>1, <1>5, <4>1 DEF DataTyped, Sent
      <4> QED BY <1>5, <2>1, <4>2 DEF Asked, Reopened
    <3> QED BY <3>1, <3>2
  <2>2. CASE \E j \in Keys : /\ audit'[j] # NoAudit /\ audit'[j].reward = x
                             /\ j # KeyOf[x]
    BY <1>6, <2>2 DEF Reopened
  <2> QED BY <1>13, <2>1, <2>2 DEF Reopened
<1>14. ASSUME k = KeyOf[r], NEW v \in Workers, InFlight(v), Rew(v) = r
       PROVE  request[v].replay
  <2>1. Key(v) # k
    BY <1>2, <1>14
  <2>2. request[v] \in Requests
    BY <1>1, <1>14, InFlightType
  <2> QED BY <1>14, <2>1, <2>2 DEF Key, Rew, RequestKey, Requests
<1>15. OriginalsEnded'
  <2> SUFFICES ASSUME NEW x \in Rewards, Reopened(x)'
               PROVE  /\ audit'[KeyOf[x]] # NoAudit
                      /\ \A v \in Workers : InFlight(v)' /\ Rew(v)' = x =>
                           request'[v].replay
    BY DEF OriginalsEnded
  <2>1. CASE Reopened(x)
    <3>1. KeyOf[x] \in Keys
      BY FulfilmentAssumption
    <3> QED BY <1>6, <1>7, <2>1, <3>1 DEF FulfilInv, OriginalsEnded
  <2>2. CASE x = r /\ k = KeyOf[r]
    BY <1>2, <1>6, <1>7, <1>14, <2>2
  <2> QED BY <1>13, <2>1, <2>2
<1>16. EndedBeforeReplay'
  <2>1. \A j \in Keys : replaying'[j] > 0 => replaying[j] > 0
    BY <1>1 DEF Replay, DataTyped
  <2> QED BY <1>6, <1>7, <2>1 DEF FulfilInv, EndedBeforeReplay
<1> QED BY <1>8, <1>9, <1>10, <1>11, <1>12, <1>15, <1>16 DEF FulfilInv

-----------------------------------------------------------------------------
\* The invariant holds at first.
LEMMA InitInv == Init => FulfilInv
<1> SUFFICES ASSUME Init PROVE FulfilInv
  OBVIOUS
<1>1. \A w \in Workers : step[w] = "idle" /\ ~InFlight(w)
  BY DEF Init, InFlight, Try, Release, Handler
<1>2. TypeOK
  <2>1. DataTyped
    BY FulfilmentAssumption DEF Init, DataTyped, Requests
  <2>2. WorkersTyped
    BY <1>1 DEF Init, WorkersTyped, Steps
  <2> QED BY <2>1, <2>2 DEF TypeOK, DataTyped, WorkersTyped
<1>3. Exclusive /\ Undecided
  BY <1>1 DEF Exclusive, Undecided
<1>4. NotYetPaid /\ PaidOncePerKey
  BY <1>1 DEF Init, NotYetPaid, PaidOncePerKey, Unpaid
<1>5. \A r \in Rewards : ~Reopened(r)
  <2> SUFFICES ASSUME NEW r \in Rewards PROVE ~Reopened(r)
    OBVIOUS
  <2>1. ~Asked([reward |-> r, replay |-> TRUE])
    BY <1>1, ReplayRequest DEF Init, Asked
  <2> QED BY <2>1 DEF Init, Reopened
<1>6. OriginalsEnded
  BY <1>5 DEF OriginalsEnded
<1>7. EndedBeforeReplay
  BY DEF Init, EndedBeforeReplay
<1> QED BY <1>2, <1>3, <1>4, <1>6, <1>7 DEF FulfilInv

\* Every step keeps the invariant.
LEMMA NextInv == FulfilInv /\ [Next]_vars => FulfilInv'
<1> SUFFICES ASSUME FulfilInv, [Next]_vars PROVE FulfilInv'
  OBVIOUS
<1>1. CASE UNCHANGED vars
  BY <1>1
  DEF vars, money, rest, operatorVars, FulfilInv, TypeOK, InFlight, Key, Rew,
      Exclusive, Undecided, NotYetPaid, PaidOncePerKey, OriginalsEnded, Reopened, Asked,
      EndedBeforeReplay
<1>2. CASE \E w \in Workers, q \in Requests : Take(w, q)
  BY <1>2, AsideKeeps
<1>3. CASE \E w \in Workers : Raise(w) \/ Crash(w)
  BY <1>3, RaiseKeeps, AsideKeeps
<1>4. CASE \E w \in Workers : Fulfil(w)
  <2>1. PICK w \in Workers : Fulfil(w)
    BY <1>4
  <2> QED BY <2>1, AsideKeeps, CreateKeeps, AuditKeeps, ReserveKeeps, PayKeeps,
             TakeKeeps, RetryKeeps DEF Fulfil
<1>5. CASE \E k \in Keys : ReadForReplay(k) \/ Replay(k)
  BY <1>5, ReadKeeps, ReplayKeeps
<1> QED BY <1>1, <1>2, <1>3, <1>4, <1>5 DEF Next

\* The inductive invariant holds throughout.
THEOREM FulfilInvariant == Spec => []FulfilInv
<1> QED BY InitInv, NextInv, PTL DEF Spec

\* The state keeps its types and the account its balance: available is what
\* is not reserved, and no balance of funding_accounts gets negative.
THEOREM FulfilTypeCorrect == Spec => []TypeOK
<1>1. FulfilInv => TypeOK
  BY DEF FulfilInv
<1> QED BY <1>1, FulfilInvariant, PTL

\* The provider is asked at most once under an idempotency key.
THEOREM AskedOnce == Spec => []PaidOncePerKey
<1>1. FulfilInv => PaidOncePerKey
  BY DEF FulfilInv
<1> QED BY <1>1, FulfilInvariant, PTL

\* A reward has at most one delivery past its audit's INSERT: two that share
\* a key exclude each other, and of two keys one is a replay's, which is in
\* flight only once the original delivery has ended.
THEOREM OneDelivery == Spec => []OneDeliveryPerReward
<1>1. ASSUME FulfilInv, NEW v \in Workers, NEW w \in Workers,
             InFlight(v), InFlight(w), Rew(v) = Rew(w)
      PROVE  v = w
  <2>1. TypeOK
    BY <1>1 DEF FulfilInv
  <2>2. /\ request[v] \in Requests /\ request[w] \in Requests
        /\ Key(v) \in Keys /\ Rew(v) \in Rewards
    BY <1>1, <2>1, InFlightType
  <2>3. \A u \in Workers : InFlight(u) /\ request[u].replay /\ Rew(u) = Rew(v)
                           => Reopened(Rew(v))
    <3> SUFFICES ASSUME NEW u \in Workers, InFlight(u), request[u].replay,
                        Rew(u) = Rew(v)
                 PROVE  Asked([reward |-> Rew(v), replay |-> TRUE])
      BY DEF Reopened
    <3>1. request[u] \in Requests
      BY <2>1, InFlightType
    <3>2. request[u] = [reward |-> Rew(v), replay |-> TRUE]
      BY <3>1 DEF Rew, Requests
    <3> QED BY <3>2 DEF Asked, InFlight, Try, Release, Handler
  <2>4. request[v].replay = request[w].replay
    BY <1>1, <2>2, <2>3 DEF FulfilInv, OriginalsEnded, Requests
  <2>5. Key(v) = Key(w)
    BY <1>1, <2>4 DEF Key, Rew, RequestKey
  <2> QED BY <1>1, <2>5 DEF FulfilInv, Exclusive
<1>2. FulfilInv => OneDeliveryPerReward
  BY <1>1 DEF OneDeliveryPerReward
<1> QED BY <1>2, FulfilInvariant, PTL
-----------------------------------------------------------------------------
(***************************************************************************)
(* What one step can change.                                               *)
(***************************************************************************)
\* The provider was asked, and the money held has not left the account.
Paying == {"succeed", "settle"}

\* A step of one worker leaves the others where they are.
Only(w) ==
  \A v \in Workers : v # w => step'[v] = step[v] /\ request'[v] = request[v]

\* A worker that is in flight or paying after a step was before, with the same
\* request, unless it creates the audit row or asks the provider.
Enters(v) ==
  /\ InFlight(v)' =>
       request'[v] = request[v] /\ (InFlight(v) \/ Create(v))
  /\ step'[v] \in Paying =>
       request'[v] = request[v] /\ (step[v] \in Paying \/ Pay(v))

LEMMA WorkerStep ==
  ASSUME TypeOK, NEW w \in Workers,
         Fulfil(w) \/ Raise(w) \/ Crash(w) \/ \E q \in Requests : Take(w, q)
  PROVE  Only(w) /\ Enters(w)
<1>1. /\ step \in [Workers -> Steps]
      /\ request \in [Workers -> Requests \cup {NoRequest}]
  BY DEF TypeOK
<1>2. CASE Skip(w) \/ Park(w) \/ Crash(w)
  <2>1. /\ step' = [step EXCEPT ![w] = "idle"]
        /\ request' = [request EXCEPT ![w] = NoRequest]
    BY <1>2 DEF Skip, Park, Crash, Done
  <2> QED BY <1>1, <2>1
      DEF Only, Enters, InFlight, Try, Release, Handler, Paying
<1>3. CASE \E q \in Requests : Take(w, q)
  <2>1. PICK q \in Requests : Take(w, q)
    BY <1>3
  <2>2. /\ step' = [step EXCEPT ![w] = "check"]
        /\ request' = [request EXCEPT ![w] = q]
    BY <2>1 DEF Take, Goto
  <2> QED BY <1>1, <2>2
      DEF Only, Enters, InFlight, Try, Release, Handler, Paying
<1>4. ASSUME request' = request, NEW to,
             step' = [step EXCEPT ![w] = to],
             to \in {"mark"} \cup Try \cup Release \cup Handler =>
               InFlight(w) \/ Create(w),
             to \in Paying => step[w] \in Paying \/ Pay(w)
      PROVE  Only(w) /\ Enters(w)
  BY <1>1, <1>4 DEF Only, Enters, InFlight
<1>5. CASE Raise(w)
  <2>1. /\ step' = [step EXCEPT ![w] = AfterRaise(step[w])]
        /\ request' = request
    BY <1>5 DEF Raise
  <2>2. /\ AfterRaise(step[w]) \in {"park", "release", "count"}
        /\ AfterRaise(step[w]) # "park" => InFlight(w)
    BY <1>1, <1>5 DEF AfterRaise, Raise, Steps, InFlight
  <2> QED BY <1>4, <2>1, <2>2 DEF Try, Release, Handler, Paying
<1>6. CASE Check(w) \/ CreateRefused(w)
  <2>1. PICK to \in {"create", "park"} :
          step' = [step EXCEPT ![w] = to] /\ request' = request
    BY <1>6 DEF Check, CreateRefused, Goto
  <2> QED BY <1>4, <2>1 DEF Try, Release, Handler, Paying
<1>7. CASE Create(w)
  <2>1. step' = [step EXCEPT ![w] = "mark"] /\ request' = request
    BY <1>7 DEF Create, Goto
  <2> QED BY <1>4, <1>7, <2>1 DEF Paying
<1>8. CASE Pay(w)
  <2>1. /\ step' = [step EXCEPT ![w] = "succeed"] /\ request' = request
        /\ InFlight(w)
    BY <1>8 DEF Pay, Goto, InFlight, Try
  <2> QED BY <1>4, <1>8, <2>1
<1>9. CASE MarkSuccess(w)
  <2>1. /\ step' = [step EXCEPT ![w] = "settle"] /\ request' = request
        /\ InFlight(w) /\ step[w] \in Paying
    BY <1>9 DEF MarkSuccess, Goto, InFlight, Try, Paying
  <2> QED BY <1>4, <2>1
<1>10. CASE \/ MarkProcessing(w) \/ ReserveSkipped(w) \/ ReserveRefused(w)
            \/ ReserveFunds(w) \/ InsertReservation(w)
  <2>1. PICK to \in {"hold", "pay", "release", "insert"} :
          step' = [step EXCEPT ![w] = to] /\ request' = request
    BY <1>10 DEF MarkProcessing, ReserveSkipped, ReserveRefused, ReserveFunds,
                 InsertReservation, Goto
  <2>2. InFlight(w)
    BY <1>10 DEF MarkProcessing, ReserveSkipped, ReserveRefused, ReserveFunds,
                 InsertReservation, Goto, InFlight, Try
  <2> QED BY <1>4, <2>1, <2>2 DEF Paying
<1>11. CASE \/ SettleFunds(w) \/ SettleRefused(w) \/ MarkSettled(w)
            \/ ReleaseFunds(w) \/ ReleaseRefused(w) \/ MarkReleased(w)
  <2>1. PICK to \in {"settled", "release", "released", "count"} :
          step' = [step EXCEPT ![w] = to] /\ request' = request
    BY <1>11 DEF SettleFunds, SettleRefused, MarkSettled, ReleaseFunds,
                 ReleaseRefused, MarkReleased, Goto
  <2>2. InFlight(w)
    BY <1>11 DEF SettleFunds, SettleRefused, MarkSettled, ReleaseFunds,
                 ReleaseRefused, MarkReleased, Goto, InFlight, Try, Release
  <2> QED BY <1>4, <2>1, <2>2 DEF Paying
<1>12. CASE CountAttempt(w) \/ ScheduleRetry(w) \/ MarkFailed(w)
  <2>1. PICK to \in {"retry", "fail", "park"} :
          step' = [step EXCEPT ![w] = to] /\ request' = request
    BY <1>12 DEF CountAttempt, ScheduleRetry, MarkFailed, Goto
  <2>2. InFlight(w)
    BY <1>12 DEF CountAttempt, ScheduleRetry, MarkFailed, Goto, InFlight,
                 Handler
  <2> QED BY <1>4, <2>1, <2>2 DEF Paying
<1> QED BY <1>2, <1>3, <1>5, <1>6, <1>7, <1>8, <1>9, <1>10, <1>11, <1>12
    DEF Fulfil

\* Of every worker, whoever takes the step.
LEMMA EveryEnters ==
  ASSUME TypeOK, [Next]_vars
  PROVE  \A v \in Workers : Enters(v)
<1>1. ASSUME NEW v \in Workers, step'[v] = step[v], request'[v] = request[v]
      PROVE  Enters(v)
  BY <1>1 DEF Enters, InFlight
<1>2. ASSUME NEW w \in Workers, Only(w), Enters(w)
      PROVE  \A v \in Workers : Enters(v)
  BY <1>1, <1>2 DEF Only
<1>3. CASE UNCHANGED vars
  BY <1>1, <1>3 DEF vars
<1>4. CASE \E k \in Keys : ReadForReplay(k) \/ Replay(k)
  BY <1>1, <1>4 DEF ReadForReplay, Replay
<1> QED BY <1>2, <1>3, <1>4, WorkerStep DEF Next

\* Only an attempt, a status and a new row are written to the audit.
LEMMA RewardKept ==
  ASSUME TypeOK, [Next]_vars, NEW k \in Keys, audit[k] # NoAudit
  PROVE  audit'[k].reward = audit[k].reward
<1>1. /\ audit \in [Keys -> Audits \cup {NoAudit}] /\ audit[k] \in Audits
  BY DEF TypeOK
<1>2. ASSUME NEW w \in Workers, Fulfil(w), InFlight(w), audit' # audit
      PROVE  audit'[k].reward = audit[k].reward
  <2>1. Key(w) \in Keys /\ audit[Key(w)] \in Audits
    BY <1>2, InFlightType
  <2>2. \/ \E s : audit' = [audit EXCEPT ![Key(w)].status = s]
        \/ audit' = [audit EXCEPT ![Key(w)].attempt = @ + 1]
    BY <1>2 DEF Fulfil, Skip, Check, Create, CreateRefused, MarkProcessing,
       ReserveSkipped, ReserveRefused, ReserveFunds, InsertReservation, Pay,
       MarkSuccess, SettleFunds, SettleRefused, MarkSettled, ReleaseFunds,
       ReleaseRefused, MarkReleased, CountAttempt, ScheduleRetry, MarkFailed,
       Park, SetStatus, Goto, InFlight, Try, Release, Handler
  <2>3. CASE Key(w) # k
    BY <1>1, <2>1, <2>2, <2>3
  <2>4. CASE Key(w) = k
    <3>1. \/ \E s : audit'[k] = [audit[k] EXCEPT !.status = s]
          \/ audit'[k] = [audit[k] EXCEPT !.attempt = @ + 1]
      BY <1>1, <2>2, <2>4
    <3> QED BY <1>1, <3>1 DEF Audits
  <2> QED BY <2>3, <2>4
<1>3. ASSUME NEW w \in Workers, Create(w) PROVE audit'[k] = audit[k]
  BY <1>1, <1>3 DEF Create
<1>4. ASSUME NEW w \in Workers, Fulfil(w), ~InFlight(w), ~Create(w)
      PROVE  audit' = audit
  BY <1>4 DEF Fulfil, Skip, Check, Create, CreateRefused, MarkProcessing,
     ReserveSkipped, ReserveRefused, ReserveFunds, InsertReservation, Pay,
     MarkSuccess, SettleFunds, SettleRefused, MarkSettled, ReleaseFunds,
     ReleaseRefused, MarkReleased, CountAttempt, ScheduleRetry, MarkFailed,
     Park, Goto, InFlight, Try, Release, Handler
<1>5. ASSUME NEW j \in Keys, Replay(j) PROVE audit'[k].reward = audit[k].reward
  <2>1. audit'[k] \in {audit[k], [audit[k] EXCEPT !.status = "PENDING"]}
    BY <1>1, <1>5 DEF Replay
  <2> QED BY <1>1, <2>1 DEF Audits
<1>6. CASE \E w \in Workers : Raise(w) \/ Crash(w) \/ \E q \in Requests : Take(w, q)
  BY <1>6 DEF Raise, Crash, Take
<1>7. CASE UNCHANGED vars \/ \E j \in Keys : ReadForReplay(j)
  BY <1>7 DEF vars, ReadForReplay
<1> QED BY <1>2, <1>3, <1>4, <1>5, <1>6, <1>7 DEF Next

\* Only Pay asks the provider, only SettleFunds takes money out.
LEMMA MoneyStep ==
  ASSUME [Next]_vars
  PROVE  /\ paid' = paid \/ \E w \in Workers : Pay(w)
         /\ \/ account' = account
            \/ \E w \in Workers : SettleFunds(w)
            \/ \E w \in Workers : ReserveFunds(w) \/ ReleaseFunds(w)
<1>1. ASSUME NEW w \in Workers, Fulfil(w)
      PROVE  /\ paid' = paid \/ Pay(w)
             /\ \/ account' = account
                \/ SettleFunds(w)
                \/ ReserveFunds(w) \/ ReleaseFunds(w)
  BY <1>1 DEF Fulfil, Skip, Check, Create, CreateRefused, MarkProcessing,
     ReserveSkipped, ReserveRefused, InsertReservation, Pay, ReserveFunds,
     MarkSuccess, SettleRefused, MarkSettled, SettleFunds, ReleaseFunds,
     ReleaseRefused, MarkReleased, CountAttempt, ScheduleRetry, MarkFailed,
     Park, money
<1>2. CASE \/ UNCHANGED vars
           \/ \E k \in Keys : ReadForReplay(k) \/ Replay(k)
           \/ \E w \in Workers :
                Raise(w) \/ Crash(w) \/ \E q \in Requests : Take(w, q)
  BY <1>2 DEF vars, money, ReadForReplay, Replay, Raise, Crash, Take
<1> QED BY <1>1, <1>2 DEF Next
-----------------------------------------------------------------------------
(***************************************************************************)
(* OutflowIsPaid is not inductive: a settlement must find the amount among *)
(* the paid requests' that no earlier settlement used up.  A paid request  *)
(* is settled by the delivery that asked the provider, from then until it  *)
(* has settled; its amount counts once that delivery is past this.         *)
(***************************************************************************)
OwnRow == \A w \in Workers : InFlight(w) => audit[Key(w)].reward = Rew(w)

Open(k) == \E w \in Workers : step[w] \in Paying /\ Key(w) = k
Settled(k) == IF paid[k] > 0 /\ ~Open(k) THEN Amount[audit[k].reward] ELSE 0

OutflowInv ==
  /\ OwnRow
  /\ \A w \in Workers : step[w] \in Paying => paid[Key(w)] > 0
  /\ Deposit - account.current <= SumFunction([k \in Keys |-> Settled(k)])

\* The amount of a request that was paid, and of one that need not be.
LEMMA AmountsType ==
  ASSUME TypeOK, NotYetPaid, NEW k \in Keys
  PROVE  /\ Settled(k) \in Nat /\ Owed(k) \in Nat /\ Settled(k) <= Owed(k)
         /\ audit[k] # NoAudit => Amount[audit[k].reward] \in Nat
<1>1. audit[k] # NoAudit => Amount[audit[k].reward] \in Nat
  BY FulfilmentAssumption DEF TypeOK, Audits
<1>2. paid[k] > 0 => audit[k] # NoAudit
  BY DEF NotYetPaid
<1> QED BY <1>1, <1>2 DEF Settled, Owed

\* A delivery's own audit row names the reward it handles.
LEMMA OwnRowStep ==
  ASSUME TypeOK, OwnRow, [Next]_vars
  PROVE  OwnRow'
<1> SUFFICES ASSUME NEW v \in Workers, InFlight(v)'
             PROVE  audit'[Key(v)'].reward = Rew(v)'
  BY DEF OwnRow
<1>1. request'[v] = request[v] /\ (InFlight(v) \/ Create(v))
  BY EveryEnters DEF Enters
<1>2. Key(v)' = Key(v) /\ Rew(v)' = Rew(v)
  BY <1>1 DEF Key, Rew
<1>3. CASE InFlight(v)
  BY <1>2, <1>3, InFlightType, RewardKept DEF OwnRow
<1>4. CASE Create(v)
  <2>1. Key(v) \in Keys /\ audit \in [Keys -> Audits \cup {NoAudit}]
    BY <1>4, KeyType DEF Create, Goto, TypeOK, Key
  <2>2. audit'[Key(v)] = [status |-> "PENDING", attempt |-> 1, reward |-> Rew(v)]
    BY <1>4, <2>1 DEF Create
  <2> QED BY <1>2, <2>2
<1> QED BY <1>1, <1>3, <1>4

\* A delivery that pays is in flight, under a key of the audit.
LEMMA PayingFlies ==
  ASSUME TypeOK, NEW w \in Workers, step[w] \in Paying
  PROVE  InFlight(w) /\ Key(w) \in Keys /\ audit[Key(w)] # NoAudit
BY InFlightType DEF Paying, InFlight, Try

\* No step lets the amount of a request count less.
LEMMA SettledGrows ==
  ASSUME FulfilInv, FulfilInv', OutflowInv, [Next]_vars, NEW k \in Keys
  PROVE  Settled(k) <= Settled(k)'
<1>1. TypeOK /\ TypeOK' /\ NotYetPaid /\ NotYetPaid'
  BY DEF FulfilInv
<1>2. Settled(k) \in Nat /\ Settled(k)' \in Nat
  <2>1. Settled(k) \in Nat
    BY <1>1, AmountsType
  <2>2. audit'[k] # NoAudit => Amount[audit'[k].reward] \in Nat
    BY <1>1, FulfilmentAssumption DEF TypeOK, Audits
  <2>3. paid'[k] > 0 => audit'[k] # NoAudit
    BY <1>1 DEF NotYetPaid
  <2> QED BY <2>1, <2>2, <2>3 DEF Settled
<1>3. CASE paid[k] > 0 /\ ~Open(k)
  <2>1. audit[k] # NoAudit
    BY <1>1, <1>3 DEF NotYetPaid
  <2>2. audit'[k].reward = audit[k].reward
    BY <1>1, <2>1, RewardKept
  <2>3. paid'[k] > 0
    <3>1. CASE paid' = paid
      BY <1>3, <3>1
    <3>2. ASSUME NEW w \in Workers, Pay(w) PROVE paid'[k] > 0
      BY <1>1, <1>3, <3>2 DEF Pay, TypeOK
    <3> QED BY <3>1, <3>2, MoneyStep
  <2>4. ~Open(k)'
    <3> SUFFICES ASSUME NEW v \in Workers, step'[v] \in Paying, Key(v)' = k
                 PROVE  FALSE
      BY DEF Open
    <3>1. Key(v) = k /\ (step[v] \in Paying \/ Pay(v))
      BY <1>1, EveryEnters DEF Enters, Key
    <3>2. CASE step[v] \in Paying
      BY <1>3, <3>1, <3>2 DEF Open
    <3>3. CASE Pay(v)
      BY <1>3, <3>1, <3>3 DEF Pay, Goto, FulfilInv, NotYetPaid, Unpaid
    <3> QED BY <3>1, <3>2, <3>3
  <2> QED BY <1>2, <1>3, <2>2, <2>3, <2>4 DEF Settled
<1>4. CASE ~(paid[k] > 0 /\ ~Open(k))
  BY <1>2, <1>4 DEF Settled
<1> QED BY <1>3, <1>4

LEMMA SettledType ==
  ASSUME TypeOK, NotYetPaid
  PROVE  /\ [k \in Keys |-> Settled(k)] \in [Keys -> Int]
         /\ [k \in Keys |-> Owed(k)] \in [Keys -> Int]
         /\ SumFunction([k \in Keys |-> Settled(k)]) \in Int
         /\ SumFunction([k \in Keys |-> Owed(k)]) \in Int
         /\ SumFunction([k \in Keys |-> Settled(k)])
              <= SumFunction([k \in Keys |-> Owed(k)])
<1>1. /\ [k \in Keys |-> Settled(k)] \in [Keys -> Int]
      /\ [k \in Keys |-> Owed(k)] \in [Keys -> Int]
      /\ \A k \in Keys : Settled(k) <= Owed(k)
  BY AmountsType
<1>2. IsFiniteSet(Keys)
  BY FulfilmentAssumption
<1> QED BY <1>1, <1>2, SumType, SumLess

LEMMA OutflowStep == FulfilInv /\ FulfilInv' /\ OutflowInv /\ [Next]_vars => OutflowInv'
<1> SUFFICES ASSUME FulfilInv, FulfilInv', OutflowInv, [Next]_vars
             PROVE  OutflowInv'
  OBVIOUS
<1>1. TypeOK /\ TypeOK' /\ NotYetPaid /\ NotYetPaid'
  BY DEF FulfilInv
<1>2. OwnRow'
  BY <1>1, OwnRowStep DEF OutflowInv
<1>3. ASSUME NEW v \in Workers, step'[v] \in Paying PROVE paid'[Key(v)'] > 0
  <2>1. Key(v)' = Key(v) /\ (step[v] \in Paying \/ Pay(v))
    BY <1>1, <1>3, EveryEnters DEF Enters, Key
  <2>2. paid \in [Keys -> Nat]
    BY <1>1 DEF TypeOK
  <2>3. CASE Pay(v)
    <3>1. Key(v) \in Keys
      BY <1>1, <2>3, InFlightType DEF Pay, Goto, InFlight, Try
    <3> QED BY <2>1, <2>2, <2>3, <3>1 DEF Pay
  <2>4. CASE step[v] \in Paying
    <3>1. Key(v) \in Keys /\ paid[Key(v)] > 0
      BY <1>1, <2>4, PayingFlies DEF OutflowInv
    <3>2. CASE paid' = paid
      BY <2>1, <3>1, <3>2
    <3>3. ASSUME NEW w \in Workers, Pay(w) PROVE paid'[Key(v)] > 0
      BY <2>2, <3>1, <3>3 DEF Pay
    <3> QED BY <2>1, <3>2, <3>3, MoneyStep
  <2> QED BY <2>1, <2>3, <2>4
<1> DEFINE F == [k \in Keys |-> Settled(k)]
           E == [k \in Keys |-> Settled(k)']
<1>4. F \in [Keys -> Int] /\ SumFunction(F) \in Int
  BY <1>1, SettledType
<1>5. E \in [Keys -> Int]
  <2>1. ASSUME NEW k \in Keys PROVE Settled(k)' \in Nat
    <3>1. audit'[k] # NoAudit => Amount[audit'[k].reward] \in Nat
      BY <1>1, FulfilmentAssumption DEF TypeOK, Audits
    <3>2. paid'[k] > 0 => audit'[k] # NoAudit
      BY <1>1 DEF NotYetPaid
    <3> QED BY <3>1, <3>2 DEF Settled
  <2> QED BY <2>1
<1>6. \A k \in Keys : F[k] <= E[k]
  BY SettledGrows
<1>7. SumFunction(E) \in Int /\ SumFunction(F) <= SumFunction(E)
  <2>1. IsFiniteSet(Keys)
    BY FulfilmentAssumption
  <2> HIDE DEF E, F
  <2> QED BY <1>4, <1>5, <1>6, <2>1, SumType, SumLess
<1>8. Deposit - account.current <= SumFunction(F)
  BY DEF OutflowInv
<1>9. /\ account \in [current : Nat, reserved : Nat, available : Nat]
      /\ account' \in [current : Nat, reserved : Nat, available : Nat]
      /\ Deposit \in Nat
  BY <1>1, FulfilmentAssumption DEF TypeOK
<1>10. Deposit - account'.current <= SumFunction(E)
  <2>1. CASE account'.current = account.current
    <3> HIDE DEF E, F
    <3> QED BY <1>4, <1>7, <1>8, <1>9, <2>1
  <2>2. CASE \E w \in Workers : ReserveFunds(w) \/ ReleaseFunds(w)
    <3>1. account'.current = account.current
      BY <1>9, <2>2 DEF ReserveFunds, ReleaseFunds
    <3> QED BY <2>1, <3>1
  <2>3. ASSUME NEW w \in Workers, SettleFunds(w)
        PROVE  Deposit - account'.current <= SumFunction(E)
    <3>1. /\ InFlight(w) /\ step[w] \in Paying /\ step'[w] = "settled"
          /\ UNCHANGED <<request, audit, paid>>
      BY <1>1, <2>3 DEF SettleFunds, Goto, InFlight, Try, Paying, TypeOK
    <3>2. PICK k \in Keys : k = Key(w) /\ audit[k] # NoAudit
      BY <1>1, <3>1, InFlightType
    <3>3. audit[k].reward = Rew(w) /\ paid[k] > 0
      BY <3>1, <3>2 DEF OutflowInv, OwnRow
    <3>4. F[k] = 0
      BY <3>1, <3>2 DEF Settled, Open
    <3>5. ~Open(k)'
      <4> SUFFICES ASSUME NEW v \in Workers, step'[v] \in Paying, Key(v)' = k
                   PROVE  FALSE
        BY DEF Open
      <4>1. Key(v) = k /\ v # w
        BY <3>1 DEF Key, Paying
      <4>2. step'[v] = step[v]
        BY <1>1, <2>3, <4>1 DEF SettleFunds, Goto, TypeOK
      <4>3. InFlight(v)
        BY <1>1, <4>2, PayingFlies
      <4> QED BY <3>1, <3>2, <4>1, <4>3 DEF FulfilInv, Exclusive
    <3>6. PICK a \in Nat : a = Amount[Rew(w)]
      BY <1>1, <3>2, <3>3, AmountsType
    <3>7. E[k] = a
      BY <3>1, <3>3, <3>5, <3>6 DEF Settled
    <3> DEFINE D == [F EXCEPT ![k] = a]
    <3>8. D \in [Keys -> Int] /\ D[k] = a /\ \A j \in Keys \ {k} : D[j] = F[j]
      BY <1>4, <3>6
    <3>9. \A j \in Keys : D[j] <= E[j]
      BY <1>5, <1>6, <3>7, <3>8
    <3>10. account'.current = account.current - a
      BY <1>9, <2>3, <3>6 DEF SettleFunds
    <3>11. IsFiniteSet(Keys)
      BY FulfilmentAssumption
    <3> HIDE DEF D, E, F
    <3>12. SumFunction(D) = SumFunction(F) + D[k] - F[k]
      BY <1>4, <3>8, <3>11, SumChange
    <3>13. SumFunction(D) <= SumFunction(E) /\ SumFunction(D) \in Int
      BY <1>5, <3>8, <3>9, <3>11, SumLess, SumType
    <3> QED BY <1>4, <1>7, <1>8, <1>9, <3>4, <3>6, <3>8, <3>10, <3>12, <3>13
  <2> QED BY <2>1, <2>2, <2>3, MoneyStep
<1> QED BY <1>2, <1>3, <1>10 DEF OutflowInv

LEMMA OutflowInit == Init => OutflowInv
<1> SUFFICES ASSUME Init PROVE OutflowInv
  OBVIOUS
<1>1. \A w \in Workers : ~InFlight(w) /\ step[w] \notin Paying
  BY DEF Init, InFlight, Try, Release, Handler, Paying
<1>2. [k \in Keys |-> Settled(k)] \in [Keys -> {0}]
  BY DEF Init, Settled
<1>3. SumFunction([k \in Keys |-> Settled(k)]) = 0
  BY <1>2, SumZero, FulfilmentAssumption
<1>4. Deposit - account.current = 0
  BY FulfilmentAssumption DEF Init
<1> QED BY <1>1, <1>3, <1>4 DEF OutflowInv, OwnRow

\* Whatever is retried, replayed, raised or cut short, what left the account
\* is covered by requests the provider was asked for.
THEOREM OutflowIsCovered == Spec => []OutflowIsPaid
<1>1. FulfilInv /\ OutflowInv => OutflowIsPaid
  <2> SUFFICES ASSUME FulfilInv, OutflowInv PROVE OutflowIsPaid
    OBVIOUS
  <2>1. TypeOK /\ NotYetPaid
    BY DEF FulfilInv
  <2>2. PICK s \in Int, o \in Int :
          /\ s = SumFunction([k \in Keys |-> Settled(k)])
          /\ o = SumFunction([k \in Keys |-> Owed(k)]) /\ s <= o
    BY <2>1, SettledType
  <2>3. Deposit - account.current \in Int
    BY <2>1, FulfilmentAssumption DEF TypeOK
  <2> QED BY <2>2, <2>3 DEF OutflowInv, OutflowIsPaid
<1> QED BY <1>1, OutflowInit, OutflowStep, FulfilInvariant, PTL DEF Spec
=============================================================================
