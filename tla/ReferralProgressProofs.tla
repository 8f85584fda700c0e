----------------------- MODULE ReferralProgressProofs -----------------------
(***************************************************************************)
(* The safety of deliveries: of the row they write (ReferralProgress) for  *)
(* every set of facts, every number of workers and every bound on faults,  *)
(* and, at the end, of the connections they take (DeliveryPool) for every  *)
(* size of the pool.                                                       *)
(***************************************************************************)
EXTENDS ReferralProgress, DeliveryPool, JourneyRulesProofs, SequenceTheorems,
        FiniteSetTheorems

(***************************************************************************)
(* A delivery in good order: it holds a coherent image of the row, what it *)
(* has written or pays for is a valid event of that image, and it pays for *)
(* a completion.                                                           *)
(***************************************************************************)
Decided == {"updated"} \cup Paying

GoodDelivery(d) ==
  d # Idle =>
    /\ Coherent(Journey, d.before)
    /\ d.phase \in Decided =>
         Classify(Journey, d.before, Event(d.fact)) = "valid"
    /\ d.phase \in Paying =>
         Applied(Journey, d.before, Event(d.fact)).complete

GoodDeliveries == {d \in Busy \cup {Idle} : GoodDelivery(d)}

CoreInv ==
  /\ TypeOK
  /\ RowIsLegal
  /\ \A w \in Workers : GoodDelivery(worker[w])

\* A delivery that is doing something is not the idle record.
LEMMA BusyWorker ==
  ASSUME CoreInv, NEW w \in Workers,
         worker[w].phase \in {"loaded", "updated", "finished"} \cup Paying
  PROVE  worker[w] \in Busy /\ worker[w] # Idle
<1>1. worker[w] \in Busy \cup {Idle}
  BY DEF CoreInv, TypeOK
<1>2. Idle.phase = "idle"
  BY DEF Idle
<1> QED BY <1>1, <1>2 DEF Paying

\* A verdict is one of the audit's outcomes, or "valid".
LEMMA VerdictTyped ==
  ASSUME NEW w \in Workers
  PROVE  Verdicts(w) \subseteq Outcomes \cup {"valid"}
BY DEF Verdicts, Classify, Outcomes

\* A delivery that keeps its image keeps its good order where the new phase
\* does not ask for more.
LEMMA PhaseChange ==
  ASSUME CoreInv, NEW w \in Workers, worker[w] \in Busy,
         NEW p \in {"updated", "finished"},
         p = "updated" => "valid" \in Verdicts(w),
         worker[w].todo = <<>>
  PROVE  [worker[w] EXCEPT !.phase = p] \in GoodDeliveries
<1> DEFINE d == [worker[w] EXCEPT !.phase = p]
<1>1. /\ d \in Busy /\ d.phase = p /\ d.before = worker[w].before
      /\ d.fact = worker[w].fact
  BY DEF Busy, Paying
<1>2. worker[w] # Idle
  BY DEF Idle, Busy
<1>3. GoodDelivery(worker[w])
  BY DEF CoreInv
<1>4. p = "updated" =>
        Classify(Journey, worker[w].before, Event(worker[w].fact)) = "valid"
  BY DEF Verdicts
<1> HIDE DEF d
<1>5. GoodDelivery(d)
  BY <1>1, <1>2, <1>3, <1>4 DEF GoodDelivery, Decided, Paying
<1> QED BY <1>1, <1>5 DEF GoodDeliveries, d

\* The todo list of a delivery that pays nothing.
LEMMA EmptyTodo == <<>> \in Seq(Beneficiaries)
OBVIOUS

\* What is left of a todo list with more than one instruction.
LEMMA TailOfMore ==
  ASSUME NEW S, NEW s \in Seq(S), s # <<>>, Len(s) # 1
  PROVE  Tail(s) # <<>>
<1>1. Len(s) \in Nat \ {0}
  BY EmptySeq
<1>2. Len(Tail(s)) = Len(s) - 1
  BY HeadTailProperties
<1>3. Len(Tail(s)) # 0
  BY <1>1, <1>2
<1>4. Len(<< >>) = 0
  BY EmptySeq
<1> QED BY <1>3, <1>4, Zenon

\* What a delivery holds comes from a message and the row, or from before.
From(w, d) ==
  \/ d = Idle
  \/ /\ d.phase = "loaded" /\ d.before = row
     /\ d.fact \in (IF d.source = "queue" THEN queue ELSE dlq)
  \/ /\ worker[w] # Idle /\ d.before = worker[w].before
     /\ d.fact = worker[w].fact /\ d.source = worker[w].source

\* Where the loop over the instructions goes next.
LEMMA NextInstructionGood ==
  ASSUME CoreInv, NEW w \in Workers, worker[w].phase \in Paying
  PROVE  /\ Head(worker[w].todo) \in Beneficiaries
         /\ \E d \in GoodDeliveries : /\ NextInstruction(w) = [worker EXCEPT ![w] = d]
                                 /\ From(w, d) /\ d.phase # "publishing"
<1>1. worker[w] \in Busy /\ worker[w] # Idle /\ GoodDelivery(worker[w])
  BY BusyWorker DEF CoreInv
<1>2. /\ worker[w].todo \in Seq(Beneficiaries) /\ worker[w].todo # <<>>
      /\ worker \in [Workers -> Busy \cup {Idle}]
  BY <1>1 DEF Busy, CoreInv, TypeOK
<1>3. Head(worker[w].todo) \in Beneficiaries
  BY <1>2
<1>4. CASE Len(worker[w].todo) = 1
  <2> DEFINE d == [worker[w] EXCEPT !.phase = "finished", !.todo = <<>>]
  <2>1. /\ d \in Busy /\ d.phase = "finished" /\ d.before = worker[w].before
    BY <1>1, EmptyTodo DEF Busy, Paying
  <2>2. NextInstruction(w) = [worker EXCEPT ![w] = d]
    BY <1>2, <1>4 DEF NextInstruction
  <2>4. From(w, d)
    BY <1>1 DEF From, Busy
  <2> HIDE DEF d
  <2>3. GoodDelivery(d)
    BY <1>1, <2>1 DEF GoodDelivery, Decided, Paying
  <2> QED BY <1>3, <2>1, <2>2, <2>3, <2>4 DEF GoodDeliveries
<1>5. CASE Len(worker[w].todo) # 1
  <2> DEFINE d == [worker[w] EXCEPT !.phase = "issuing", !.todo = Tail(@)]
  <2>1. Tail(worker[w].todo) \in Seq(Beneficiaries)
    BY <1>2
  <2>2. Tail(worker[w].todo) # <<>>
    BY <1>2, <1>5, TailOfMore
  <2>3. /\ d \in Busy /\ d.phase = "issuing" /\ d.before = worker[w].before
        /\ d.fact = worker[w].fact
    BY <1>1, <2>1, <2>2 DEF Busy, Paying
  <2>4. NextInstruction(w) = [worker EXCEPT ![w] = d]
    BY <1>2, <1>5 DEF NextInstruction
  <2>6. From(w, d)
    BY <1>1 DEF From, Busy
  <2> HIDE DEF d
  <2>5. GoodDelivery(d)
    BY <1>1, <2>3 DEF GoodDelivery, Decided, Paying
  <2> QED BY <1>3, <2>3, <2>4, <2>5, <2>6 DEF GoodDeliveries
<1> QED BY <1>4, <1>5

\* An announced completion: the image and its event are coherent, and the
\* instance they make is complete.
LEMMA UpdatedRow ==
  ASSUME CoreInv, NEW w \in Workers,
         worker[w].phase \in Decided
  PROVE  /\ After(w) \in Instances(Journey)
         /\ Coherent(Journey, After(w))
         /\ Persisted(Journey, After(w)) = After(w)
         /\ worker[w].before.marks \subseteq After(w).marks
         /\ worker[w].before.complete => After(w).complete
         /\ After(w).marks \subseteq
              worker[w].before.marks \cup Marked({}, Event(worker[w].fact))
<1>1. worker[w] \in Busy /\ worker[w] # Idle /\ GoodDelivery(worker[w])
  BY BusyWorker DEF CoreInv, Decided
<1>2. /\ worker[w].before \in Instances(Journey)
      /\ Coherent(Journey, worker[w].before)
      /\ Classify(Journey, worker[w].before, Event(worker[w].fact)) = "valid"
  BY <1>1 DEF GoodDelivery, Busy
<1>3. Journey \in Persistent /\ Journey \in Defined
  BY ProgressAssumption DEF Defined
<1> QED BY <1>2, <1>3, AppliedCoherent, PersistedIsWhole DEF After

\* Every step of a delivery leaves it in good order and touches no other.
LEMMA DeliverySteps ==
  ASSUME CoreInv, NEW w \in Workers, Deliver(w)
  PROVE  \E d \in GoodDeliveries :
           /\ worker' = [worker EXCEPT ![w] = d] /\ From(w, d)
           /\ d.phase = "publishing" => InsertReward(w) /\ GoTo(w, "publishing")
<1>0. /\ worker \in [Workers -> Busy \cup {Idle}]
      /\ row \in Instances(Journey) /\ Coherent(Journey, row)
  BY DEF CoreInv, TypeOK, RowIsLegal
<1>1. ASSUME NEW f \in Facts, NEW source \in {"queue", "dlq"}, Load(w, f, source),
             f \in (IF source = "queue" THEN queue ELSE dlq)
      PROVE  \E d \in GoodDeliveries : /\ worker' = [worker EXCEPT ![w] = d]
                                 /\ From(w, d) /\ d.phase # "publishing"
  <2> DEFINE d == [phase |-> "loaded", fact |-> f, source |-> source,
                   before |-> row, todo |-> <<>>]
  <2>1. d \in Busy /\ d.phase = "loaded" /\ d.before = row
    BY <1>0 DEF Busy, Paying
  <2>2. worker' = [worker EXCEPT ![w] = d]
    BY <1>1 DEF Load
  <2>4. From(w, d)
    BY <1>1, <2>1 DEF From
  <2> HIDE DEF d
  <2>3. GoodDelivery(d)
    BY <1>0, <2>1 DEF GoodDelivery, Decided, Paying
  <2> QED BY <2>1, <2>2, <2>3, <2>4 DEF GoodDeliveries
<1>2. ASSUME NEW p \in {"updated", "finished"}, GoTo(w, p),
             p = "updated" => "valid" \in Verdicts(w),
             worker[w].phase \in {"loaded", "updated"}
      PROVE  \E d \in GoodDeliveries : /\ worker' = [worker EXCEPT ![w] = d]
                                 /\ From(w, d) /\ d.phase # "publishing"
  <2>1. worker[w] \in Busy
    BY <1>2, BusyWorker
  <2>2. worker[w].todo = <<>>
    BY <1>2, <2>1 DEF Busy, Paying
  <2>3. worker' = [worker EXCEPT ![w] = [worker[w] EXCEPT !.phase = p]]
    BY <1>0, <1>2, <2>1 DEF GoTo
  <2>4. [worker[w] EXCEPT !.phase = p] \in GoodDeliveries
    BY <1>2, <2>1, <2>2, PhaseChange
  <2>5. /\ From(w, [worker[w] EXCEPT !.phase = p])
        /\ [worker[w] EXCEPT !.phase = p].phase # "publishing"
    <3>1. worker[w] # Idle
      BY <2>1 DEF Idle, Busy
    <3> QED BY <2>1, <3>1 DEF From, Busy
  <2> QED BY <2>3, <2>4, <2>5
<1>3. CASE Commit(w)
  <2>1. /\ worker[w] \in Busy /\ worker[w] # Idle /\ GoodDelivery(worker[w])
        /\ worker[w].phase = "updated"
    BY <1>3, BusyWorker DEF Commit, InPhase, CoreInv
  <2>2. CASE BecameEligible(w) /\ Instructions # <<>>
    <3> DEFINE d == [worker[w] EXCEPT !.phase = "issuing", !.todo = Instructions]
    <3>1. Instructions \in Seq(Beneficiaries)
      BY ProgressAssumption
    <3>2. /\ d \in Busy /\ d.phase = "issuing" /\ d.before = worker[w].before
          /\ d.fact = worker[w].fact
      BY <2>1, <2>2, <3>1 DEF Busy, Paying
    <3>3. worker' = [worker EXCEPT ![w] = d]
      BY <1>0, <1>3, <2>1, <2>2 DEF Commit
    <3>4. After(w).complete
      BY <2>2 DEF BecameEligible
    <3>6. From(w, d)
      BY <2>1 DEF From, Busy
    <3> HIDE DEF d
    <3>5. GoodDelivery(d)
      BY <2>1, <3>2, <3>4 DEF GoodDelivery, Decided, Paying, After
    <3> QED BY <3>2, <3>3, <3>5, <3>6 DEF GoodDeliveries
  <2>3. CASE ~(BecameEligible(w) /\ Instructions # <<>>)
    <3>1. GoTo(w, "finished")
      BY <1>3, <2>3 DEF Commit, GoTo
    <3> QED BY <1>2, <2>1, <3>1
  <2> QED BY <2>2, <2>3
<1>4. CASE InsertReward(w)
  <2>1. /\ worker[w] \in Busy /\ worker[w] # Idle /\ GoodDelivery(worker[w])
        /\ worker[w].phase = "issuing"
    BY <1>4, BusyWorker DEF InsertReward, InPhase, CoreInv, Paying
  <2>2. CASE GoTo(w, "publishing")
    <3> DEFINE d == [worker[w] EXCEPT !.phase = "publishing"]
    <3>1. /\ d \in Busy /\ d.phase = "publishing" /\ d.before = worker[w].before
          /\ d.fact = worker[w].fact
      BY <2>1 DEF Busy, Paying
    <3>2. worker' = [worker EXCEPT ![w] = d]
      BY <1>0, <2>1, <2>2 DEF GoTo
    <3>4. From(w, d)
      BY <2>1 DEF From, Busy
    <3> HIDE DEF d
    <3>3. GoodDelivery(d)
      BY <2>1, <3>1 DEF GoodDelivery, Decided, Paying
    <3> QED BY <1>4, <2>2, <3>1, <3>2, <3>3, <3>4 DEF GoodDeliveries
  <2>3. CASE worker' = NextInstruction(w)
    BY <2>1, <2>3, NextInstructionGood DEF Paying
  <2> QED BY <1>4, <2>2, <2>3 DEF InsertReward
<1>5. CASE PublishRequest(w)
  BY <1>5, NextInstructionGood DEF PublishRequest, InPhase, Paying
<1>6. CASE AbandonRewards(w)
  <2> DEFINE d == [worker[w] EXCEPT !.phase = "finished", !.todo = <<>>]
  <2>1. /\ worker[w] \in Busy /\ worker[w] # Idle /\ GoodDelivery(worker[w])
    BY <1>6, BusyWorker DEF AbandonRewards, CoreInv
  <2>2. d \in Busy /\ d.phase = "finished" /\ d.before = worker[w].before
    BY <2>1, EmptyTodo DEF Busy, Paying
  <2>3. worker' = [worker EXCEPT ![w] = d]
    BY <1>0, <1>6, <2>1 DEF AbandonRewards
  <2>5. From(w, d)
    BY <2>1 DEF From, Busy
  <2> HIDE DEF d
  <2>4. GoodDelivery(d)
    BY <2>1, <2>2 DEF GoodDelivery, Decided, Paying
  <2> QED BY <2>2, <2>3, <2>4, <2>5 DEF GoodDeliveries
<1>7. CASE Acknowledge(w) \/ Crash(w)
  <2>1. Idle \in GoodDeliveries
    BY DEF GoodDeliveries, GoodDelivery
  <2>2. worker' = [worker EXCEPT ![w] = Idle]
    BY <1>7 DEF Acknowledge, Crash
  <2> QED BY <2>1, <2>2 DEF From, Idle
<1>8. CASE \E f \in Facts : Receive(w, f) \/ ReplayDlq(w, f)
  BY <1>1, <1>8 DEF Receive, ReplayDlq
<1>9. CASE Ignore(w)
  BY <1>2, <1>9 DEF Ignore, InPhase
<1>10. CASE Update(w)
  BY <1>2, <1>10 DEF Update, InPhase
<1>11. CASE Fail(w)
  BY <1>2, <1>11 DEF Fail
<1> QED BY <1>3, <1>4, <1>5, <1>6, <1>7, <1>8, <1>9, <1>10, <1>11
        DEF Deliver, Proceed
-----------------------------------------------------------------------------
\* What a rebuild writes, whatever the recorded order.
LEMMA RebuiltRow ==
  ASSUME NEW facts \in Seq(Facts)
  PROVE  LET image == Replayed(facts)
         IN /\ image \in Instances(Journey)
            /\ Coherent(Journey, image)
            /\ Persisted(Journey, image) = image
            /\ image.marks \subseteq
                 UNION {Marked({}, Event(facts[k])) : k \in DOMAIN facts}
<1> DEFINE E == {Event(f) : f \in Facts}
           events == [k \in DOMAIN facts |-> Event(facts[k])]
<1>1. DOMAIN facts = 1..Len(facts) /\ Len(facts) \in Nat
  OBVIOUS
<1>2. \A k \in 1..Len(facts) : facts[k] \in Facts
  OBVIOUS
<1>3. events \in [1..Len(facts) -> E]
  BY <1>1, <1>2
<1>4. events \in Seq(E) /\ Len(events) = Len(facts)
  <2> HIDE DEF E, events
  <2> QED BY <1>1, <1>3, IsASeq, LenProperties
<1>5. {Marked({}, events[k]) : k \in 1..Len(events)} =
        {Marked({}, Event(facts[k])) : k \in DOMAIN facts}
  BY <1>1, <1>4
<1>6. Journey \in Persistent /\ Journey \in Defined
  BY ProgressAssumption DEF Defined
<1> HIDE DEF E
<1>7. /\ Replay(Journey, events) \in Instances(Journey)
      /\ Coherent(Journey, Replay(Journey, events))
      /\ Replay(Journey, events).marks \subseteq
           UNION {Marked({}, events[k]) : k \in 1..Len(events)}
  <2> HIDE DEF events
  <2> QED BY <1>4, <1>6, ReplayCoherent
<1>8. Replayed(facts) = Replay(Journey, events)
  BY DEF Replayed
<1> HIDE DEF events
<1> QED BY <1>5, <1>6, <1>7, <1>8, PersistedIsWhole

\* InsertAt keeps every element of the sequence and adds the new one.
LEMMA InsertedSequence ==
  ASSUME NEW S, NEW s \in Seq(S), NEW e \in S, NEW k \in 1..(Len(s) + 1)
  PROVE  /\ InsertAt(s, k, e) \in Seq(S)
         /\ \A i \in DOMAIN s :
              \E j \in DOMAIN InsertAt(s, k, e) : InsertAt(s, k, e)[j] = s[i]
         /\ \E j \in DOMAIN InsertAt(s, k, e) : InsertAt(s, k, e)[j] = e
<1> DEFINE n == Len(s)
           a == SubSeq(s, 1, k - 1)
           b == SubSeq(s, k, n)
<1>0. /\ n \in Nat /\ k \in Int /\ k - 1 \in Int /\ 1 <= k /\ k <= n + 1
      /\ DOMAIN s = 1..n /\ \A i \in 1..n : s[i] \in S
  BY LenProperties
<1> HIDE DEF n
<1>1. /\ a \in Seq(S) /\ Len(a) = k - 1
      /\ \A i \in 1..(k - 1) : a[i] = s[i]
  BY <1>0, SubSeqProperties
<1>2. /\ b \in Seq(S) /\ Len(b) = IF k <= n THEN n - k + 1 ELSE 0
      /\ \A i \in 1..(n - k + 1) : b[i] = s[k + i - 1]
  BY <1>0, SubSeqProperties
<1> HIDE DEF a, b
<1>3. Len(b) = n - k + 1
  BY <1>0, <1>2
<1> DEFINE c == a \o <<e>>
           t == c \o b
<1>4. /\ c \in Seq(S) /\ Len(c) = k
      /\ \A i \in 1..k : c[i] = IF i < k THEN a[i] ELSE e
  <2>1. <<e>> \in Seq(S) /\ Len(<<e>>) = 1 /\ <<e>>[1] = e
    OBVIOUS
  <2> QED BY <1>0, <1>1, <2>1, ConcatProperties
<1> HIDE DEF c
<1>5. /\ t \in Seq(S) /\ Len(t) = n + 1
      /\ \A i \in 1..(n + 1) : t[i] = IF i <= k THEN c[i] ELSE b[i - k]
  <2>1. Len(c) + Len(b) = n + 1
    BY <1>0, <1>3, <1>4
  <2>2. /\ t \in Seq(S) /\ Len(t) = Len(c) + Len(b)
        /\ \A i \in 1..(Len(c) + Len(b)) :
             t[i] = IF i <= Len(c) THEN c[i] ELSE b[i - Len(c)]
    BY <1>2, <1>4, ConcatProperties
  <2> HIDE DEF t
  <2> QED BY <1>4, <2>1, <2>2
<1>6. DOMAIN t = 1..(n + 1)
  BY <1>0, <1>5, LenProperties
<1> HIDE DEF t
<1>7. t[k] = e /\ k \in DOMAIN t
  BY <1>0, <1>4, <1>5, <1>6
<1>8. ASSUME NEW i \in DOMAIN s PROVE \E j \in DOMAIN t : t[j] = s[i]
  <2>1. CASE i < k
    <3>1. i \in DOMAIN t /\ t[i] = s[i]
      BY <1>0, <1>1, <1>4, <1>5, <1>6, <2>1
    <3> QED BY <3>1
  <2>2. CASE ~(i < k)
    <3>1. i + 1 \in DOMAIN t /\ t[i + 1] = b[i + 1 - k] /\ b[i + 1 - k] = s[i]
      BY <1>0, <1>2, <1>5, <1>6, <2>2
    <3> QED BY <3>1
  <2> QED BY <2>1, <2>2
<1>9. InsertAt(s, k, e) = t
  BY DEF InsertAt, t, c, a, b, n
<1> QED BY <1>5, <1>7, <1>8, <1>9

\* What Record makes of the recorded facts.
LEMMA RecordedSequence ==
  ASSUME TypeOK, NEW f \in Facts, Record(f)
  PROVE  /\ recorded' \in Seq(Facts)
         /\ RecordedFacts \subseteq RecordedFacts' /\ f \in RecordedFacts'
         /\ UNCHANGED inbox
<1>1. PICK k \in 1..(Len(recorded) + 1) :
        recorded' = InsertAt(recorded, k, f)
  BY DEF Record
<1>2. recorded \in Seq(Facts)
  BY DEF TypeOK
<1>3. /\ recorded' \in Seq(Facts)
      /\ \A i \in DOMAIN recorded :
           \E j \in DOMAIN recorded' : recorded'[j] = recorded[i]
      /\ \E j \in DOMAIN recorded' : recorded'[j] = f
  BY <1>1, <1>2, InsertedSequence
<1> QED BY <1>3 DEF RecordedFacts, Record

\* The core invariant holds initially.
LEMMA CoreInit == Init => CoreInv
<1> SUFFICES ASSUME Init PROVE CoreInv
  OBVIOUS
<1>1. Fresh \in Instances(Journey) /\ Coherent(Journey, Fresh)
  BY ProgressAssumption, FreshCoherent DEF Defined
<1>2. \A w \in Workers : worker[w] = Idle
  BY DEF Init
<1>3. TypeOK
  BY <1>1, ProgressAssumption DEF Init, TypeOK, NotRebuilding
<1> QED BY <1>1, <1>2, <1>3 DEF Init, CoreInv, RowIsLegal, GoodDelivery

\* A step of a delivery keeps every type but the worker's.
LEMMA DeliveryTypes ==
  ASSUME CoreInv, NEW w \in Workers, Deliver(w)
  PROVE  /\ recorded' \in Seq(Facts) /\ inbox' \subseteq Inbound
         /\ unsent' \subseteq Facts /\ queue' \subseteq Facts /\ dlq' \subseteq Facts
         /\ row' \in Instances(Journey) /\ Coherent(Journey, row')
         /\ audit' \subseteq Facts \X Outcomes
         /\ rewards' \in [Beneficiaries -> Nat]
         /\ requests' \in [Beneficiaries -> Nat]
         /\ rebuild' \in [active : BOOLEAN, events : Seq(Facts)]
         /\ faults' \in 0..MaxFaults
<1> USE DEF CoreInv, TypeOK, RowIsLegal
<1>1. CASE \E f \in Facts : Receive(w, f) \/ ReplayDlq(w, f)
  BY <1>1 DEF Receive, ReplayDlq, Load
<1>2. CASE Ignore(w)
  <2>1. worker[w].fact \in Facts
    BY <1>2, BusyWorker DEF Ignore, InPhase, Busy
  <2>2. PICK verdict \in Verdicts(w) \ {"valid"} :
          audit' = audit \cup {<<worker[w].fact, verdict>>}
    BY <1>2 DEF Ignore
  <2>3. verdict \in Outcomes
    BY VerdictTyped
  <2> QED BY <1>2, <2>1, <2>2, <2>3 DEF Ignore
<1>3. CASE Update(w)
  <2>1. worker[w].fact \in Facts
    BY <1>3, BusyWorker DEF Update, InPhase, Busy
  <2> QED BY <1>3, <2>1 DEF Update, Outcomes
<1>4. CASE Commit(w)
  <2>1. worker[w].phase \in Decided
    BY <1>4 DEF Commit, InPhase, Decided
  <2> QED BY <1>4, <2>1, UpdatedRow DEF Commit
<1>5. CASE InsertReward(w)
  <2>1. Head(worker[w].todo) \in Beneficiaries
    BY <1>5, NextInstructionGood DEF InsertReward, InPhase, Paying
  <2>2. rewards' \in [Beneficiaries -> Nat]
    <3>1. \/ rewards' = [rewards EXCEPT ![Head(worker[w].todo)] = @ + 1]
          \/ rewards' = rewards
      BY <1>5, Zenon DEF InsertReward
    <3>2. rewards \in [Beneficiaries -> Nat]
      OBVIOUS
    <3> HIDE DEF CoreInv, TypeOK, RowIsLegal
    <3> DEFINE b == Head(worker[w].todo)
    <3>3. b \in Beneficiaries
      BY <2>1
    <3> HIDE DEF b
    <3>4. [rewards EXCEPT ![b] = @ + 1] \in [Beneficiaries -> Nat]
      BY <3>2, <3>3
    <3> QED BY <3>1, <3>2, <3>4 DEF b
  <2>3. UNCHANGED <<recorded, inbox, unsent, queue, dlq, row, audit, requests,
                    rebuild, faults>>
    BY <1>5 DEF InsertReward
  <2> QED BY <2>2, <2>3
<1>6. CASE PublishRequest(w)
  <2>1. Head(worker[w].todo) \in Beneficiaries
    BY <1>6, NextInstructionGood DEF PublishRequest, InPhase, Paying
  <2> QED BY <1>6, <2>1 DEF PublishRequest
<1>7. CASE AbandonRewards(w)
  BY <1>7, ProgressAssumption DEF AbandonRewards, Faulty
<1>8. CASE Fail(w)
  <2>1. worker[w].fact \in Facts
    BY <1>8, BusyWorker DEF Fail, Busy
  <2>2. faults' \in 0..MaxFaults
    BY <1>8, ProgressAssumption DEF Fail
  <2> QED BY <1>8, <2>1, <2>2 DEF Fail, Outcomes
<1>9. CASE Acknowledge(w)
  BY <1>9 DEF Acknowledge
<1>10. CASE Crash(w)
  BY <1>10, ProgressAssumption DEF Crash, Faulty
<1> QED BY <1>1, <1>2, <1>3, <1>4, <1>5, <1>6, <1>7, <1>8, <1>9, <1>10
        DEF Deliver, Proceed

\* Every step preserves it: one case per action that writes what it is about.
LEMMA CoreStep == CoreInv /\ [Next]_vars => CoreInv'
<1> SUFFICES ASSUME CoreInv, [Next]_vars PROVE CoreInv'
  OBVIOUS
<1>1. CASE \E f \in Facts : Api(f)
  <2>1. PICK f \in Facts : Api(f)
    BY <1>1
  <2>2. /\ UNCHANGED <<row, worker, dlq, audit, rewards, requests, rebuild>>
        /\ recorded' \in Seq(Facts) /\ inbox' \subseteq Inbound
        /\ unsent' \subseteq Facts /\ queue' \subseteq Facts
        /\ faults' \in 0..MaxFaults
    <3>1. CASE Record(f)
      BY <3>1, RecordedSequence DEF CoreInv, TypeOK, Record
    <3>2. CASE Ingest(f)
      BY <3>2 DEF CoreInv, TypeOK, Ingest
    <3>3. CASE Enqueue(f)
      BY <3>3 DEF CoreInv, TypeOK, Enqueue
    <3>4. CASE LoseSend(f)
      BY <3>4, ProgressAssumption DEF CoreInv, TypeOK, LoseSend, Faulty
    <3>5. CASE ReplayInbox(f)
      BY <3>5 DEF CoreInv, TypeOK, ReplayInbox
    <3> QED BY <2>1, <3>1, <3>2, <3>3, <3>4, <3>5 DEF Api
  <2> QED BY <2>2 DEF CoreInv, TypeOK, RowIsLegal
<1>2. CASE \E w \in Workers : Deliver(w)
  <2>1. PICK w \in Workers : Deliver(w)
    BY <1>2
  <2>2. PICK d \in GoodDeliveries : worker' = [worker EXCEPT ![w] = d]
    BY <2>1, DeliverySteps
  <2>3. /\ worker' \in [Workers -> Busy \cup {Idle}]
        /\ \A v \in Workers : GoodDelivery(worker'[v])
    BY <2>2 DEF CoreInv, TypeOK, GoodDeliveries
  <2> QED BY <2>1, <2>3, DeliveryTypes DEF CoreInv, TypeOK, RowIsLegal
<1>3. CASE RebuildLoad
  BY <1>3 DEF RebuildLoad, CoreInv, TypeOK, RowIsLegal
<1>4. CASE RebuildCommit
  <2>1. rebuild.events \in Seq(Facts)
    BY DEF CoreInv, TypeOK
  <2>2. row' \in Instances(Journey) /\ Coherent(Journey, row')
    BY <1>4, <2>1, RebuiltRow DEF RebuildCommit
  <2>3. rebuild' \in [active : BOOLEAN, events : Seq(Facts)]
    BY <1>4 DEF RebuildCommit, NotRebuilding
  <2>4. UNCHANGED <<recorded, inbox, unsent, queue, dlq, worker, audit, rewards,
                    requests, faults>>
    BY <1>4 DEF RebuildCommit
  <2> QED BY <2>2, <2>3, <2>4 DEF CoreInv, TypeOK, RowIsLegal
<1>5. CASE RebuildAbort
  BY <1>5, ProgressAssumption
     DEF RebuildAbort, Faulty, NotRebuilding, CoreInv, TypeOK, RowIsLegal
<1>6. CASE UNCHANGED vars
  BY <1>6 DEF vars, CoreInv, TypeOK, RowIsLegal
<1> QED BY <1>1, <1>2, <1>3, <1>4, <1>5, <1>6 DEF Next, Traffic, Rebuild

\* So it always holds.
LEMMA CoreAlways == Spec => []CoreInv
BY CoreInit, CoreStep, PTL DEF Spec

(***************************************************************************)
(* Every variable keeps its type: an outcome the audit knows, a delivery   *)
(* with instructions left exactly while it pays, a row the journey has.    *)
(***************************************************************************)
THEOREM TypeCorrect == Spec => []TypeOK
<1>1. CoreInv => TypeOK
  BY DEF CoreInv
<1> QED BY <1>1, CoreAlways, PTL

(***************************************************************************)
(* The row is legal whatever the interleaving of deliveries and rebuilds.  *)
(***************************************************************************)
THEOREM RowAlwaysLegal == Spec => []RowIsLegal
<1>1. CoreInv => RowIsLegal
  BY DEF CoreInv
<1> QED BY <1>1, CoreAlways, PTL
-----------------------------------------------------------------------------
(***************************************************************************)
(* Nothing is known of a referral that is not on record: messages, the     *)
(* images deliveries hold, what a rebuild reads and the row itself.        *)
(***************************************************************************)
Known ==
  /\ unsent \cup queue \cup dlq \subseteq KnownFacts
  /\ \A w \in Workers : worker[w] # Idle =>
       /\ worker[w].fact \in KnownFacts
       /\ worker[w].before.marks \subseteq Evidence
  /\ \A k \in DOMAIN rebuild.events : rebuild.events[k] \in KnownFacts
  /\ row.marks \subseteq Evidence
  /\ RewardBackedByFacts

\* Facts are never taken off the record.
LEMMA EvidenceGrows ==
  ASSUME CoreInv, [Next]_vars
  PROVE  KnownFacts \subseteq KnownFacts' /\ Evidence \subseteq Evidence'
<1>1. CASE recorded' = recorded /\ inbox' = inbox
  BY <1>1 DEF KnownFacts, RecordedFacts, Evidence
<1>2. CASE \E f \in Facts : Record(f)
  BY <1>2, RecordedSequence DEF KnownFacts, Evidence, CoreInv
<1>3. CASE \E f \in Facts : Ingest(f)
  BY <1>3 DEF Ingest, KnownFacts, RecordedFacts, Evidence
<1>4. CASE Rebuild
  BY <1>1, <1>4 DEF Rebuild, RebuildLoad, RebuildCommit, RebuildAbort
<1>5. CASE \E w \in Workers : Deliver(w)
  BY <1>1, <1>5 DEF Deliver, Proceed, Receive, ReplayDlq, Load, Ignore, Update,
     Commit, InsertReward, PublishRequest, AbandonRewards, Fail, Acknowledge,
     Crash
<1>6. CASE \E f \in Facts : Enqueue(f) \/ LoseSend(f) \/ ReplayInbox(f)
  BY <1>1, <1>6 DEF Enqueue, LoseSend, ReplayInbox
<1> QED BY <1>1, <1>2, <1>3, <1>4, <1>5, <1>6 DEF Next, Traffic, Api, vars

\* A complete instance whose marks are evidence backs a reward.
LEMMA CompletionIsBacked ==
  ASSUME NEW i \in Instances(Journey), Coherent(Journey, i), i.complete,
         i.marks \subseteq Evidence
  PROVE  RewardBackedByFacts
BY ProgressAssumption, CompleteHasAll DEF RewardBackedByFacts, Defined

\* Marks stay backed by known facts: the facts grow, the marks come from them.
LEMMA KnownStep == CoreInv /\ Known /\ [Next]_vars => Known'
<1> SUFFICES ASSUME CoreInv, Known, [Next]_vars PROVE Known'
  OBVIOUS
<1>0. KnownFacts \subseteq KnownFacts' /\ Evidence \subseteq Evidence'
  BY EvidenceGrows
<1>1. rewards' = rewards => RewardBackedByFacts'
  BY <1>0 DEF Known, RewardBackedByFacts
<1>2. CASE \E f \in Facts : Api(f)
  <2>1. PICK f \in Facts : Api(f)
    BY <1>2
  <2>2. UNCHANGED <<worker, row, dlq, rebuild, rewards>>
    BY <2>1 DEF Api, Record, Ingest, Enqueue, LoseSend, ReplayInbox
  <2>3. unsent' \cup queue' \subseteq KnownFacts'
    <3>1. CASE Record(f)
      <4>1. f \in KnownFacts'
        BY <3>1, RecordedSequence DEF KnownFacts, CoreInv
      <4> QED BY <1>0, <3>1, <4>1 DEF Record, Known
    <3>2. CASE Ingest(f)
      BY <1>0, <3>2 DEF Ingest, Known, KnownFacts
    <3>3. CASE Enqueue(f) \/ LoseSend(f)
      BY <1>0, <3>3 DEF Enqueue, LoseSend, Known
    <3>4. CASE ReplayInbox(f)
      BY <1>0, <3>4 DEF ReplayInbox, Known, KnownFacts
    <3> QED BY <2>1, <3>1, <3>2, <3>3, <3>4 DEF Api
  <2> QED BY <1>0, <1>1, <2>2, <2>3 DEF Known
<1>3. CASE \E w \in Workers : Deliver(w)
  <2>1. PICK w \in Workers : Deliver(w)
    BY <1>3
  <2>2. PICK d \in GoodDeliveries : worker' = [worker EXCEPT ![w] = d] /\ From(w, d)
    BY <2>1, DeliverySteps
  <2>3. d # Idle =>
          d.fact \in KnownFacts' /\ d.before.marks \subseteq Evidence'
    BY <1>0, <2>2 DEF From, Known
  <2>4. \A v \in Workers : worker'[v] # Idle =>
          /\ worker'[v].fact \in KnownFacts'
          /\ worker'[v].before.marks \subseteq Evidence'
    BY <1>0, <2>2, <2>3 DEF Known, CoreInv, TypeOK
  <2>5. worker[w] # Idle => worker[w].fact \in KnownFacts
    BY DEF Known
  <2>6. UNCHANGED <<unsent, rebuild>> /\ queue' \subseteq queue
    BY <2>1 DEF Deliver, Proceed, Receive, ReplayDlq, Load, Ignore, Update,
       Commit, InsertReward, PublishRequest, AbandonRewards, Fail, Acknowledge,
       Crash
  <2>7. dlq' \subseteq KnownFacts
    <3>1. CASE Fail(w)
      <4>1. worker[w].fact \in KnownFacts
        BY <2>5, <3>1, BusyWorker DEF Fail
      <4> QED BY <3>1, <4>1 DEF Fail, Known
    <3>2. CASE ~Fail(w)
      <4>1. dlq' = dlq
        BY <2>1, <3>2 DEF Deliver, Proceed, Receive, ReplayDlq, Load, Ignore,
           Update, Commit, InsertReward, PublishRequest, AbandonRewards,
           Acknowledge, Crash
      <4> QED BY <4>1 DEF Known
    <3> QED BY <3>1, <3>2
  <2>8. ASSUME worker[w].phase \in Decided
        PROVE  After(w).marks \subseteq Evidence
    <3>1. worker[w] # Idle
      BY <2>8, BusyWorker DEF Decided
    <3>2. /\ worker[w].before.marks \subseteq Evidence
          /\ Marked({}, Event(worker[w].fact)) \subseteq Evidence
      BY <3>1 DEF Known, Evidence
    <3>3. After(w).marks \subseteq
            worker[w].before.marks \cup Marked({}, Event(worker[w].fact))
      BY <2>8, UpdatedRow
    <3> QED BY <3>2, <3>3
  <2>9. row'.marks \subseteq Evidence
    <3>1. CASE Commit(w)
      BY <2>8, <3>1, UpdatedRow DEF Commit, InPhase, Decided
    <3>2. CASE ~Commit(w)
      <4>1. row' = row
        BY <2>1, <3>2 DEF Deliver, Proceed, Receive, ReplayDlq, Load, Ignore,
           Update, InsertReward, PublishRequest, AbandonRewards, Fail,
           Acknowledge, Crash
      <4> QED BY <4>1 DEF Known
    <3> QED BY <3>1, <3>2
  <2>10. RewardBackedByFacts'
    <3>1. CASE InsertReward(w)
      <4>1. worker[w].phase \in Paying /\ worker[w].phase \in Decided
        BY <3>1 DEF InsertReward, InPhase, Paying, Decided
      <4>2. After(w).complete
        BY <4>1, BusyWorker DEF CoreInv, GoodDelivery, After
      <4>3. /\ \A m \in Core(Journey) : Journey.rank[m] > 0 => m \in After(w).marks
            /\ After(w).marks \cap Journey.completion # {}
        BY <4>1, <4>2, UpdatedRow, CompleteHasAll, ProgressAssumption
           DEF Defined
      <4>4. After(w).marks \subseteq Evidence'
        BY <1>0, <2>8, <4>1
      <4> QED BY <4>3, <4>4 DEF RewardBackedByFacts
    <3>2. CASE ~InsertReward(w)
      <4>1. rewards' = rewards
        BY <2>1, <3>2 DEF Deliver, Proceed, Receive, ReplayDlq, Load, Ignore,
           Update, Commit, PublishRequest, AbandonRewards, Fail, Acknowledge,
           Crash
      <4> QED BY <1>1, <4>1
    <3> QED BY <3>1, <3>2
  <2> QED BY <1>0, <2>4, <2>6, <2>7, <2>9, <2>10 DEF Known
<1>4. CASE RebuildLoad
  <2>1. UNCHANGED <<recorded, inbox, unsent, queue, dlq, row, worker, rewards>>
    BY <1>4 DEF RebuildLoad
  <2>2. \A k \in DOMAIN rebuild'.events : rebuild'.events[k] \in KnownFacts'
    BY <1>4 DEF RebuildLoad, RecordedFacts, KnownFacts
  <2> QED BY <1>0, <1>1, <2>1, <2>2 DEF Known
<1>5. CASE RebuildCommit
  <2>1. UNCHANGED <<recorded, inbox, unsent, queue, dlq, worker, rewards>>
    BY <1>5 DEF RebuildCommit
  <2>2. rebuild.events \in Seq(Facts)
    BY DEF CoreInv, TypeOK
  <2>3. row'.marks \subseteq
          UNION {Marked({}, Event(rebuild.events[k])) : k \in DOMAIN rebuild.events}
    BY <1>5, <2>2, RebuiltRow DEF RebuildCommit
  <2>4. row'.marks \subseteq Evidence
    BY <2>3 DEF Known, Evidence
  <2>5. rebuild'.events = <<>>
    BY <1>5 DEF RebuildCommit, NotRebuilding
  <2> QED BY <1>0, <1>1, <2>1, <2>4, <2>5 DEF Known
<1>6. CASE RebuildAbort
  <2>1. UNCHANGED <<recorded, inbox, unsent, queue, dlq, row, worker, rewards>>
    BY <1>6 DEF RebuildAbort
  <2>2. rebuild'.events = <<>>
    BY <1>6 DEF RebuildAbort, NotRebuilding
  <2> QED BY <1>0, <1>1, <2>1, <2>2 DEF Known
<1>7. CASE UNCHANGED vars
  BY <1>0, <1>1, <1>7 DEF vars, Known
<1> QED BY <1>2, <1>3, <1>4, <1>5, <1>6, <1>7 DEF Next, Traffic, Rebuild

\* Nothing is marked initially.
LEMMA KnownInit == Init => Known
BY DEF Init, Known, KnownFacts, RecordedFacts, Evidence, RewardBackedByFacts,
  NotRebuilding, Fresh, Beneficiaries

(***************************************************************************)
(* No base reward without a recorded fact for every milestone of the       *)
(* journey and a completion event.                                         *)
(***************************************************************************)
THEOREM RewardsAreBacked == Spec => []RewardBackedByFacts
<1>1. Known => RewardBackedByFacts
  BY DEF Known
<1> QED BY <1>1, CoreAlways, KnownInit, KnownStep, PTL DEF Spec
-----------------------------------------------------------------------------
(***************************************************************************)
(* A delivery about to publish inserted its beneficiary's only reward, and *)
(* nobody has requested its fulfilment.                                    *)
(***************************************************************************)
Publishes(w, b) == worker[w].phase = "publishing" /\ Head(worker[w].todo) = b

OnePublisher ==
  \A b \in Beneficiaries : \A w \in Workers :
    Publishes(w, b) =>
      /\ rewards[b] = 1 /\ requests[b] = 0
      /\ \A v \in Workers : Publishes(v, b) => v = w

PayInv == PaidOnce /\ OnePublisher

\* Nobody pays initially.
LEMMA PayInit == Init => PayInv
<1> SUFFICES ASSUME Init PROVE PayInv
  OBVIOUS
<1>1. \A w \in Workers : worker[w].phase # "publishing"
  BY DEF Init, Idle
<1> QED BY <1>1 DEF Init, PayInv, PaidOnce, OnePublisher, Publishes

\* The unique index and the one publisher behind it survive every step.
LEMMA PayStep == CoreInv /\ PayInv /\ [Next]_vars => PayInv'
<1> SUFFICES ASSUME CoreInv, PayInv, [Next]_vars PROVE PayInv'
  OBVIOUS
<1>0. /\ rewards \in [Beneficiaries -> Nat] /\ requests \in [Beneficiaries -> Nat]
      /\ worker \in [Workers -> Busy \cup {Idle}]
  BY DEF CoreInv, TypeOK
<1>1. CASE UNCHANGED <<worker, rewards, requests>>
  BY <1>1 DEF PayInv, PaidOnce, OnePublisher, Publishes
<1>2. CASE \E w \in Workers : Deliver(w)
  <2>1. PICK w \in Workers : Deliver(w)
    BY <1>2
  <2>2. PICK d \in GoodDeliveries :
          /\ worker' = [worker EXCEPT ![w] = d]
          /\ d.phase = "publishing" => InsertReward(w) /\ GoTo(w, "publishing")
    BY <2>1, DeliverySteps
  <2>3. CASE d.phase = "publishing"
    <3> DEFINE b == Head(worker[w].todo)
    <3>1. InsertReward(w) /\ GoTo(w, "publishing")
      BY <2>2, <2>3
    <3>2. /\ worker[w].phase = "issuing" /\ worker[w] \in Busy
          /\ b \in Beneficiaries
      BY <3>1, BusyWorker, NextInstructionGood DEF InsertReward, InPhase,
        Paying
    <3>3. /\ worker'[w].phase = "publishing" /\ Head(worker'[w].todo) = b
          /\ \A v \in Workers : v # w => worker'[v] = worker[v]
      BY <1>0, <3>1, <3>2 DEF GoTo, Busy
    <3>4. /\ rewards[b] = 0 /\ rewards' = [rewards EXCEPT ![b] = @ + 1]
          /\ UNCHANGED requests
      <4>1. NextInstruction(w)[w].phase # "publishing"
        BY <1>0, <3>2, NextInstructionGood DEF Paying
      <4>2. worker' # NextInstruction(w)
        BY <3>3, <4>1
      <4> QED BY <3>1, <4>2 DEF InsertReward
    <3> HIDE DEF b
    <3>5. /\ rewards'[b] = 1 /\ requests'[b] = 0
          /\ \A c \in Beneficiaries : c # b => rewards'[c] = rewards[c]
      BY <1>0, <3>2, <3>4 DEF PayInv, PaidOnce
    <3>6. \A v \in Workers : ~Publishes(v, b)
      BY <3>2, <3>4 DEF PayInv, OnePublisher
    <3>7. PaidOnce'
      BY <3>2, <3>4, <3>5 DEF PayInv, PaidOnce
    <3>8. ASSUME NEW c \in Beneficiaries, NEW v \in Workers, Publishes(v, c)'
          PROVE  /\ rewards'[c] = 1 /\ requests'[c] = 0
                 /\ \A u \in Workers : Publishes(u, c)' => u = v
      <4>1. CASE c = b
        BY <3>3, <3>5, <3>6, <3>8, <4>1 DEF Publishes
      <4>2. CASE c # b
        BY <3>3, <3>4, <3>5, <3>8, <4>2 DEF Publishes, PayInv, OnePublisher
      <4> QED BY <4>1, <4>2
    <3> QED BY <3>7, <3>8 DEF PayInv, OnePublisher
  <2>4. CASE d.phase # "publishing"
    <3>1. /\ worker'[w].phase # "publishing"
          /\ \A v \in Workers : v # w => worker'[v] = worker[v]
      BY <1>0, <2>2, <2>4
    <3>2. \A c \in Beneficiaries, v \in Workers :
            Publishes(v, c)' => Publishes(v, c) /\ v # w
      BY <3>1 DEF Publishes
    <3>3. CASE PublishRequest(w)
      <4>0. PICK b \in Beneficiaries : b = Head(worker[w].todo)
        BY <3>3, NextInstructionGood DEF PublishRequest, InPhase, Paying
      <4>1. /\ Publishes(w, b) /\ rewards' = rewards
            /\ requests' = [requests EXCEPT ![b] = @ + 1]
        BY <3>3, <4>0 DEF PublishRequest, InPhase, Publishes
      <4>2. rewards[b] = 1 /\ requests[b] = 0
        BY <4>1 DEF PayInv, OnePublisher
      <4>3. /\ requests'[b] = 1
            /\ \A c \in Beneficiaries : c # b => requests'[c] = requests[c]
        BY <1>0, <4>1, <4>2
      <4>4. PaidOnce'
        BY <4>1, <4>2, <4>3 DEF PayInv, PaidOnce
      <4>5. \A v \in Workers : ~Publishes(v, b)'
        BY <3>2, <4>1 DEF PayInv, OnePublisher
      <4>6. OnePublisher'
        BY <3>2, <4>1, <4>3, <4>5 DEF PayInv, OnePublisher
      <4> QED BY <4>4, <4>6 DEF PayInv
    <3>4. CASE UNCHANGED <<rewards, requests>>
      BY <3>2, <3>4 DEF PayInv, PaidOnce, OnePublisher
    <3>5. CASE InsertReward(w)
      <4>1. worker'[w].phase # "publishing"
        BY <3>1
      <4>2. worker[w] \in Busy
        BY <3>5, BusyWorker DEF InsertReward, InPhase, Paying
      <4>3. ~GoTo(w, "publishing")
        BY <1>0, <4>1, <4>2 DEF GoTo, Busy
      <4>4. UNCHANGED <<rewards, requests>>
        BY <3>5, <4>3 DEF InsertReward
      <4> QED BY <3>4, <4>4
    <3> QED BY <2>1, <3>3, <3>4, <3>5 DEF Deliver, Proceed, Receive, ReplayDlq,
            Load, Ignore, Update, Commit, AbandonRewards, Fail, Acknowledge,
            Crash
  <2> QED BY <2>3, <2>4
<1> QED BY <1>1, <1>2 DEF Next, Traffic, Rebuild, Api, Record, Ingest,
      Enqueue, LoseSend, ReplayInbox, RebuildLoad, RebuildCommit,
      RebuildAbort, vars

(***************************************************************************)
(* However completions race, are redelivered, overwritten and repeated, a  *)
(* beneficiary gets one base reward and one fulfilment request at most.    *)
(***************************************************************************)
THEOREM NeverPaidTwice == Spec => []PaidOnce
<1>1. PayInv => PaidOnce
  BY DEF PayInv
<1> QED BY <1>1, CoreAlways, PayInit, PayStep, PTL DEF Spec
-----------------------------------------------------------------------------
\* What changes the row while nobody overlaps is a commit of its own image.
LEMMA UndisturbedCommit ==
  ASSUME [Next]_vars, Undisturbed, row' # row
  PROVE  \E w \in Workers : Commit(w) /\ worker[w].before = row
<1>1. CASE \E w \in Workers : Commit(w)
  BY <1>1 DEF Commit, Undisturbed
<1> QED BY <1>1 DEF Undisturbed, Next, Traffic, Rebuild, Api, Record, Ingest, Enqueue,
      LoseSend, ReplayInbox, RebuildLoad, RebuildCommit, RebuildAbort, vars,
      Deliver, Proceed, Receive, ReplayDlq, Load, Ignore, Update,
      InsertReward, PublishRequest, AbandonRewards, Fail, Acknowledge, Crash

(***************************************************************************)
(* Whatever takes marks off the row, a stale commit or a rebuild, leaves   *)
(* it where a fact on record is valid: reported again, it is taken.        *)
(***************************************************************************)
THEOREM LossCanBeRecovered == Spec => LossIsRecoverable
<1> DEFINE Recoverable ==
             ~(row.marks \subseteq row'.marks) =>
               \E f \in KnownFacts : Classify(Journey, row', Event(f)) = "valid"
<1>1. CoreInv /\ CoreInv' /\ Known /\ [Next]_vars => [Recoverable]_row
  <2> SUFFICES ASSUME CoreInv, CoreInv', Known, ~(row.marks \subseteq row'.marks)
               PROVE  \E f \in KnownFacts : Classify(Journey, row', Event(f)) = "valid"
    OBVIOUS
  <2> DEFINE events == {Event(f) : f \in KnownFacts}
  <2>1. /\ row \in Instances(Journey) /\ Coherent(Journey, row)
        /\ row' \in Instances(Journey) /\ Coherent(Journey, row')
    BY DEF CoreInv, TypeOK, RowIsLegal
  <2>2. row.marks \subseteq UNION {Marked({}, e) : e \in events}
    BY DEF Known, Evidence
  <2>3. Journey \in Persistent
    BY ProgressAssumption
  <2> HIDE DEF events
  <2>4. \E e \in events : Classify(Journey, row', e) = "valid"
    BY <2>1, <2>2, <2>3, MissingMarkLeadsOn
  <2> QED BY <2>4 DEF events
<1> QED BY <1>1, CoreAlways, KnownInit, KnownStep, PTL DEF Spec, LossIsRecoverable

(***************************************************************************)
(* Without an overlap a referral is a JourneyReplay of facts on record.    *)
(***************************************************************************)
THEOREM AloneIsInSequence == Spec => HandledInSequence
<1> DEFINE Handles(f) == row' = Persisted(Journey, Step(Journey, row, Event(f)))
<1>1. CoreInv /\ Known /\ [Next]_vars => [Undisturbed => \E f \in KnownFacts : Handles(f)]_row
  <2> SUFFICES ASSUME CoreInv, Known, [Next]_vars, Undisturbed, row' # row
               PROVE  \E f \in KnownFacts : Handles(f)
    OBVIOUS
  <2>1. PICK w \in Workers : Commit(w) /\ worker[w].before = row
    BY UndisturbedCommit
  <2>2. worker[w].phase = "updated" /\ worker[w] # Idle
    BY <2>1, BusyWorker DEF Commit, InPhase
  <2>3. worker[w].fact \in KnownFacts
    BY <2>2 DEF Known
  <2>4. Classify(Journey, row, Event(worker[w].fact)) = "valid"
    BY <2>1, <2>2 DEF CoreInv, GoodDelivery, Decided
  <2>5. After(w) = Step(Journey, row, Event(worker[w].fact))
    BY <2>1, <2>4 DEF After, Step
  <2>6. Handles(worker[w].fact)
    BY <2>1, <2>5 DEF Commit
  <2> QED BY <2>3, <2>6
<1> QED BY <1>1, CoreAlways, KnownInit, KnownStep, PTL DEF Spec, HandledInSequence

(***************************************************************************)
(* What a finished delivery of the queue leaves behind.                    *)
(***************************************************************************)
Traced(f) == Audited(f) \/ f \in dlq \/ faults >= 3

TraceInv ==
  \A w \in Workers :
    /\ worker[w].phase \in {"finished"} \cup Decided
    /\ worker[w].source = "queue"
    => Traced(worker[w].fact)

\* No delivery has anything to account for initially.
LEMMA TraceInit == Init => TraceInv
BY DEF Init, TraceInv, Idle, Decided, Paying

\* A trace is never removed.
LEMMA TraceStays ==
  ASSUME CoreInv, [Next]_vars, NEW f, Traced(f)
  PROVE  Traced(f)'
<1>1. audit \subseteq audit' /\ dlq \subseteq dlq' /\ (faults >= 3 => faults' >= 3)
  <2>1. faults \in Nat
    BY ProgressAssumption DEF CoreInv, TypeOK
  <2>2. CASE \E w \in Workers : Fail(w)
    BY <2>1, <2>2 DEF Fail
  <2>3. CASE ~\E w \in Workers : Fail(w)
    <3>1. CASE \E w \in Workers : Ignore(w) \/ Update(w)
      BY <3>1 DEF Ignore, Update
    <3>2. CASE ~\E w \in Workers : Ignore(w) \/ Update(w)
      <4>1. audit' = audit /\ dlq' = dlq /\ faults' \in {faults, faults + 1}
        BY <2>3, <3>2 DEF Next, Traffic, Rebuild, Api, Record, Ingest,
          Enqueue, LoseSend, ReplayInbox, RebuildLoad, RebuildCommit,
          RebuildAbort, vars, Deliver, Proceed, Receive, ReplayDlq, Load,
          Commit, InsertReward, PublishRequest, AbandonRewards, Acknowledge,
          Crash, Faulty
      <4> QED BY <2>1, <4>1
    <3> QED BY <3>1, <3>2
  <2> QED BY <2>2, <2>3
<1> QED BY <1>1 DEF Traced, Audited

\* A delivery is finished only once its message has left a trace.
LEMMA TraceStep == CoreInv /\ TraceInv /\ [Next]_vars => TraceInv'
<1> SUFFICES ASSUME CoreInv, TraceInv, [Next]_vars PROVE TraceInv'
  OBVIOUS
<1>1. CASE worker' = worker
  BY <1>1, TraceStays DEF TraceInv
<1>2. CASE \E w \in Workers : Deliver(w)
  <2>1. PICK w \in Workers : Deliver(w)
    BY <1>2
  <2>2. PICK d \in GoodDeliveries :
          worker' = [worker EXCEPT ![w] = d] /\ From(w, d)
    BY <2>1, DeliverySteps
  <2>3. /\ worker'[w] = d
        /\ \A v \in Workers : v # w => worker'[v] = worker[v]
    BY <2>2 DEF CoreInv, TypeOK
  <2>4. ASSUME d.phase \in {"finished"} \cup Decided, d.source = "queue"
        PROVE  Traced(d.fact)'
    <3>1. /\ worker[w] # Idle /\ d.fact = worker[w].fact
          /\ d.source = worker[w].source
      BY <2>2, <2>4 DEF From, Decided, Paying, Idle
    <3>2. CASE worker[w].phase = "loaded"
      <4>1. Ignore(w) \/ Update(w) \/ Fail(w)
        <5>1. ~Crash(w)
          BY <2>3, <2>4 DEF Crash, Idle, Decided, Paying, CoreInv, TypeOK
        <5> QED BY <2>1, <3>2, <5>1
           DEF Deliver, Proceed, Receive, ReplayDlq, Load, InPhase, Commit,
             InsertReward, PublishRequest, AbandonRewards, Acknowledge, Paying
      <4>2. CASE Ignore(w)
        BY <3>1, <4>2, VerdictTyped DEF Ignore, Traced, Audited
      <4>3. CASE Update(w)
        BY <3>1, <4>3 DEF Update, Traced, Audited, Outcomes
      <4>4. CASE Fail(w)
        <5>1. PICK audited \in BOOLEAN, published \in BOOLEAN :
                /\ faults' = faults + 1 + (IF audited THEN 0 ELSE 1)
                                       + (IF published THEN 0 ELSE 1)
                /\ audit' = IF audited
                            THEN audit \cup {<<worker[w].fact, "FAILED">>}
                            ELSE audit
                /\ dlq' = IF published /\ worker[w].source = "queue"
                          THEN dlq \cup {worker[w].fact} ELSE dlq
          BY <4>4 DEF Fail
        <5>2. CASE audited
          BY <3>1, <5>1, <5>2 DEF Traced, Audited, Outcomes
        <5>3. CASE published
          BY <2>4, <3>1, <5>1, <5>3 DEF Traced
        <5>4. CASE ~audited /\ ~published
          <6>1. faults \in Nat
            BY ProgressAssumption DEF CoreInv, TypeOK
          <6>2. faults' >= 3
            BY <5>1, <5>4, <6>1
          <6> QED BY <6>2 DEF Traced
        <5> QED BY <5>2, <5>3, <5>4
      <4> QED BY <4>1, <4>2, <4>3, <4>4
    <3>3. CASE worker[w].phase # "loaded"
      <4>1. worker[w].phase \in {"finished"} \cup Decided
        BY <3>1, <3>3 DEF CoreInv, TypeOK, Busy, Decided
      <4>2. Traced(d.fact)
        BY <2>4, <3>1, <4>1 DEF TraceInv
      <4> QED BY <4>2, TraceStays
    <3> QED BY <3>2, <3>3
  <2> QED BY <2>3, <2>4, TraceStays DEF TraceInv
<1> QED BY <1>1, <1>2 DEF Next, Traffic, Rebuild, Api, Record, Ingest,
      Enqueue, LoseSend, ReplayInbox, RebuildLoad, RebuildCommit,
      RebuildAbort, vars

(***************************************************************************)
(* A message is deleted only once its outcome is in the audit trail or the *)
(* message in the dead letter queue, or after three faults.                *)
(***************************************************************************)
THEOREM DeletionIsTraced == Spec => DeletedOnlyWithTrace
<1>1. CoreInv /\ TraceInv /\ [Next]_vars =>
        [\A f \in queue \ queue' : Audited(f) \/ f \in dlq \/ faults >= 3]_queue
  <2> SUFFICES ASSUME CoreInv, TraceInv, [Next]_vars, queue' # queue,
                      NEW f \in queue \ queue'
               PROVE  Traced(f)
    BY DEF Traced
  <2>1. PICK w \in Workers : Acknowledge(w)
    BY DEF Next, Traffic, Rebuild, Api, Record, Ingest, Enqueue, LoseSend,
      ReplayInbox, RebuildLoad, RebuildCommit, RebuildAbort, vars, Deliver,
      Proceed, Receive, ReplayDlq, Load, Ignore, Update, Commit, InsertReward,
      PublishRequest, AbandonRewards, Fail, Crash
  <2> QED BY <2>1 DEF Acknowledge, InPhase, TraceInv
<1> QED BY <1>1, CoreAlways, TraceInit, TraceStep, PTL
        DEF Spec, DeletedOnlyWithTrace

-----------------------------------------------------------------------------
(***************************************************************************)
(* The connections of concurrent deliveries: the pool is never overdrawn,  *)
(* and one connection more than there are deliveries is enough to keep     *)
(* them from starving each other.                                          *)
(***************************************************************************)

\* The stages that hold at least one connection.
Holding == {"open", "decided", "auditing", "closing", "reporting"}

\* The deliveries at some stages are finitely many.
LEMMA InIsFinite ==
  ASSUME NEW stages
  PROVE  IsFiniteSet(In(stages)) /\ Cardinality(In(stages)) \in Nat
BY PoolAssumption, FS_Subset, FS_CardinalityType DEF In

\* How a move of one delivery changes the number of deliveries in a set of
\* stages.
LEMMA MoveCounts ==
  ASSUME stage \in [Deliveries -> Stages], NEW d \in Deliveries,
         NEW from \in Stages, NEW to \in Stages, from # to, Move(d, from, to),
         NEW stages
  PROVE  Cardinality(In(stages)') =
           CASE from \notin stages /\ to \in stages -> Cardinality(In(stages)) + 1
             [] from \in stages /\ to \notin stages -> Cardinality(In(stages)) - 1
             [] OTHER -> Cardinality(In(stages))
<1>1. /\ stage[d] = from /\ stage'[d] = to
      /\ \A e \in Deliveries : e # d => stage'[e] = stage[e]
  BY DEF Move
<1>2. CASE from \notin stages /\ to \in stages
  <2>1. In(stages)' = In(stages) \cup {d} /\ d \notin In(stages)
    BY <1>1, <1>2 DEF In
  <2> QED BY <1>2, <2>1, InIsFinite, FS_AddElement
<1>3. CASE from \in stages /\ to \notin stages
  <2>1. In(stages)' = In(stages) \ {d} /\ d \in In(stages)
    BY <1>1, <1>3 DEF In
  <2> QED BY <1>3, <2>1, InIsFinite, FS_RemoveElement
<1>4. CASE (from \in stages) = (to \in stages)
  <2>1. In(stages)' = In(stages)
    BY <1>1, <1>4 DEF In
  <2> QED BY <1>4, <2>1
<1> QED BY <1>2, <1>3, <1>4

\* The pool is empty initially.
LEMMA PoolTypeInit == PoolInit => PoolTypeOK
<1> SUFFICES ASSUME PoolInit PROVE PoolTypeOK
  OBVIOUS
<1>1. stage \in [Deliveries -> Stages] /\ writes \subseteq Deliveries
  BY DEF PoolInit, Stages
<1>2. In(Holding) = {} /\ In({"auditing"}) = {}
  BY DEF PoolInit, In, Holding
<1>3. Conns = 0
  BY <1>2, FS_EmptySet DEF Conns, Holding
<1> QED BY <1>1, <1>3, PoolAssumption DEF PoolTypeOK

\* Only an action guarded by CanAcquire takes a connection.
LEMMA PoolTypeStep == PoolTypeOK /\ [PoolNext]_poolVars => PoolTypeOK'
<1> SUFFICES ASSUME PoolTypeOK, [PoolNext]_poolVars PROVE PoolTypeOK'
  OBVIOUS
<1>1. CASE UNCHANGED poolVars
  BY <1>1 DEF poolVars, PoolTypeOK, Conns, In
<1>2. ASSUME NEW d \in Deliveries, Arrive(d) \/ Handle(d) PROVE PoolTypeOK'
  <2>1. PICK from \in Stages, to \in Stages :
          /\ from # to /\ Move(d, from, to)
          /\ \/ to \in {"open", "auditing", "reporting"} /\ CanAcquire
                /\ (to = "auditing" <=> from = "decided")
                /\ from \in {"arrived", "decided", "failed"}
             \/ <<from, to>> \in {<<"idle", "arrived">>, <<"open", "decided">>,
                  <<"open", "failed">>, <<"auditing", "closing">>,
                  <<"closing", "idle">>, <<"reporting", "idle">>}
    BY <1>2 DEF Arrive, Handle, Open, IgnoreEvent, UpdateRow, TimeOut, OpenAudit,
       CloseAudit, Close, OpenReport, CloseReport, Stages
  <2>2. /\ stage' \in [Deliveries -> Stages]
        /\ writes' \subseteq Deliveries
    BY <1>2 DEF Arrive, Handle, Open, IgnoreEvent, UpdateRow, TimeOut, OpenAudit,
       CloseAudit, Close, OpenReport, CloseReport, Stages, Move, PoolTypeOK
  <2>3. /\ Cardinality(In(Holding)) \in Nat
        /\ Cardinality(In({"auditing"})) \in Nat
        /\ Conns = Cardinality(In(Holding)) + Cardinality(In({"auditing"}))
        /\ Conns' = Cardinality(In(Holding)') + Cardinality(In({"auditing"})')
    BY InIsFinite DEF Conns, Holding
  <2>4. Conns' <= Conns \/ (CanAcquire /\ Conns' <= Conns + 1)
    <3>1. stage \in [Deliveries -> Stages]
      BY DEF PoolTypeOK
    <3>2. Cardinality(In(Holding)') =
            CASE from \notin Holding /\ to \in Holding -> Cardinality(In(Holding)) + 1
              [] from \in Holding /\ to \notin Holding -> Cardinality(In(Holding)) - 1
              [] OTHER -> Cardinality(In(Holding))
      BY <2>1, <3>1, MoveCounts
    <3>3. Cardinality(In({"auditing"})') =
            CASE from \notin {"auditing"} /\ to \in {"auditing"} ->
                   Cardinality(In({"auditing"})) + 1
              [] from \in {"auditing"} /\ to \notin {"auditing"} ->
                   Cardinality(In({"auditing"})) - 1
              [] OTHER -> Cardinality(In({"auditing"}))
      BY <2>1, <3>1, MoveCounts
    <3> QED BY <2>1, <2>3, <3>2, <3>3 DEF Holding
  <2> QED BY <2>2, <2>3, <2>4, PoolAssumption DEF PoolTypeOK, CanAcquire
<1> QED BY <1>1, <1>2 DEF PoolNext

(***************************************************************************)
(* The connections taken never exceed the pool.                            *)
(***************************************************************************)
THEOREM PoolTypeCorrect == PoolSpec => []PoolTypeOK
BY PoolTypeInit, PoolTypeStep, PTL DEF PoolSpec

(***************************************************************************)
(* If the process handles fewer deliveries at a time than the pool has     *)
(* connections, they never all wait for each other's connection.           *)
(***************************************************************************)
THEOREM SpareConnectionSuffices ==
  ASSUME Cardinality(Deliveries) < PoolSize
  PROVE  PoolSpec => []NoPoolDeadlock
<1>1. PoolTypeOK => NoPoolDeadlock
  <2> SUFFICES ASSUME PoolTypeOK,
                      In({"open", "auditing", "closing", "reporting"}) = {}
               PROVE  CanAcquire
    BY DEF NoPoolDeadlock
  <2>1. In({"auditing"}) = {}
    BY DEF In
  <2>2. Cardinality(In(Holding)) <= Cardinality(Deliveries)
    BY PoolAssumption, FS_Subset DEF In
  <2>3. Conns <= Cardinality(Deliveries)
    BY <2>1, <2>2, FS_EmptySet, InIsFinite DEF Conns, Holding
  <2>4. Conns \in Nat /\ Cardinality(Deliveries) \in Nat
    BY InIsFinite, PoolAssumption, FS_CardinalityType DEF Conns
  <2> QED BY <2>3, <2>4, PoolAssumption DEF CanAcquire
<1> QED BY <1>1, PoolTypeCorrect, PTL

=============================================================================
