------------------------- MODULE JourneyRulesProofs -------------------------
(***************************************************************************)
(* What the journey rules keep on every journey the code defines: a valid  *)
(* event leads from a coherent instance to a coherent one that has lost    *)
(* nothing, and so does a replay of any sequence of events.  From this,    *)
(* that a row handled event by event is what a replay of its history       *)
(* yields (JourneyReplay), for histories of any length.                    *)
(***************************************************************************)
EXTENDS JourneyReplay, TLAPS, WellFoundedInduction

\* The core sequences, as sets.
LEMMA CoreSequences ==
  /\ Core(BankingTransactional) = {"VALIDATED", "UCN_CAPTURED",
       "ACCOUNT_OPENED", "ACCOUNT_ACTIVATED", "FUNDED"}
  /\ Core(InsurancePolicy) = {"VALIDATED", "QUOTE_REQUESTED",
       "QUOTE_ACCEPTED", "POLICY_ISSUED", "FIRST_PREMIUM_PAID"}
  /\ Core(RetailLoyalty) = {"VALIDATED", "BASKET_CREATED",
       "ORDER_PLACED", "FIRST_PURCHASE_COMPLETED"}
BY DEF Core, BankingTransactional, InsurancePolicy, RetailLoyalty

\* Only VALIDATED has rank 0, and only the events of the journey are timed.
LEMMA BankingFacts ==
  /\ \A m \in Core(BankingTransactional) :
       BankingTransactional.rank[m] = 0 => m = "VALIDATED"
  /\ BankingTransactional.timed =
       {"UCN_CAPTURED", "ACCOUNT_OPENED", "ACCOUNT_ACTIVATED", "FUNDED"}
         \cup SideEvents
  /\ BankingTransactional.stored = BankingTransactional.timed
  /\ BankingTransactional.completion = SideEvents
  /\ BankingTransactional.minimum = "FUNDED"
  /\ SideEvents \cap Core(BankingTransactional) = {}
BY CoreSequences DEF BankingTransactional, SideEvents

\* The same of the insurance journey.
LEMMA InsuranceFacts ==
  /\ \A m \in Core(InsurancePolicy) :
       InsurancePolicy.rank[m] = 0 => m = "VALIDATED"
  /\ InsurancePolicy.timed =
       {"QUOTE_REQUESTED", "QUOTE_ACCEPTED", "POLICY_ISSUED",
        "FIRST_PREMIUM_PAID"}
  /\ InsurancePolicy.stored = InsurancePolicy.timed
  /\ InsurancePolicy.completion = {"FIRST_PREMIUM_PAID"}
  /\ InsurancePolicy.minimum = NoMilestone
<1>1. \A m \in Core(InsurancePolicy) :
        InsurancePolicy.rank[m] = 0 => m = "VALIDATED"
  BY CoreSequences DEF InsurancePolicy
<1>2. /\ InsurancePolicy.completion = {"FIRST_PREMIUM_PAID"}
      /\ InsurancePolicy.minimum = NoMilestone
      /\ InsurancePolicy.timed =
           {"QUOTE_REQUESTED", "QUOTE_ACCEPTED", "POLICY_ISSUED",
            "FIRST_PREMIUM_PAID"}
  BY DEF InsurancePolicy
<1>3. InsurancePolicy.stored = InsurancePolicy.timed
  BY DEF InsurancePolicy
<1> QED BY <1>1, <1>2, <1>3

\* The same of the retail journey, whose row stores no timestamp.
LEMMA RetailFacts ==
  /\ \A m \in Core(RetailLoyalty) :
       RetailLoyalty.rank[m] = 0 => m = "VALIDATED"
  /\ RetailLoyalty.timed =
       {"BASKET_CREATED", "ORDER_PLACED", "FIRST_PURCHASE_COMPLETED"}
  /\ RetailLoyalty.stored = {}
  /\ RetailLoyalty.completion = {"FIRST_PURCHASE_COMPLETED"}
  /\ RetailLoyalty.minimum = NoMilestone
<1>1. \A m \in Core(RetailLoyalty) :
        RetailLoyalty.rank[m] = 0 => m = "VALIDATED"
  BY CoreSequences DEF RetailLoyalty
<1>2. /\ RetailLoyalty.completion = {"FIRST_PURCHASE_COMPLETED"}
      /\ RetailLoyalty.minimum = NoMilestone
      /\ RetailLoyalty.timed =
           {"BASKET_CREATED", "ORDER_PLACED", "FIRST_PURCHASE_COMPLETED"}
      /\ RetailLoyalty.stored = {}
  BY DEF RetailLoyalty
<1> QED BY <1>1, <1>2

\* The milestone a set of marks implies exists and is the highest of them.
LEMMA MilestoneIsHighest ==
  ASSUME NEW j \in Defined, NEW marks
  PROVE  LET m == Milestone(j, marks)
         IN /\ m \in Core(j)
            /\ m \in marks \/ (j.rank[m] = 0 /\ marks \cap Core(j) = {})
            /\ \A n \in marks \cap Core(j) : j.rank[n] <= j.rank[m]
<1> DEFINE Highest(m) ==
             /\ m \in Core(j)
             /\ m \in marks \/ (j.rank[m] = 0 /\ marks \cap Core(j) = {})
             /\ \A n \in marks \cap Core(j) : j.rank[n] <= j.rank[m]
<1>1. CASE j = BankingTransactional
  <2>1. \E m \in Core(j) : Highest(m)
    <3>1. CASE "FUNDED" \in marks
      BY <1>1, <3>1 DEF Core, BankingTransactional
    <3>2. CASE "FUNDED" \notin marks /\ "ACCOUNT_ACTIVATED" \in marks
      BY <1>1, <3>2 DEF Core, BankingTransactional
    <3>3. CASE /\ "FUNDED" \notin marks /\ "ACCOUNT_ACTIVATED" \notin marks
               /\ "ACCOUNT_OPENED" \in marks
      BY <1>1, <3>3 DEF Core, BankingTransactional
    <3>4. CASE /\ "FUNDED" \notin marks /\ "ACCOUNT_ACTIVATED" \notin marks
               /\ "ACCOUNT_OPENED" \notin marks /\ "UCN_CAPTURED" \in marks
      BY <1>1, <3>4 DEF Core, BankingTransactional
    <3>5. CASE /\ "FUNDED" \notin marks /\ "ACCOUNT_ACTIVATED" \notin marks
               /\ "ACCOUNT_OPENED" \notin marks /\ "UCN_CAPTURED" \notin marks
      BY <1>1, <3>5 DEF Core, BankingTransactional
    <3> QED BY <3>1, <3>2, <3>3, <3>4, <3>5
  <2> QED BY <2>1 DEF Milestone
<1>2. CASE j = InsurancePolicy
  <2>1. \E m \in Core(j) : Highest(m)
    <3>1. CASE "FIRST_PREMIUM_PAID" \in marks
      BY <1>2, <3>1 DEF Core, InsurancePolicy
    <3>2. CASE "FIRST_PREMIUM_PAID" \notin marks /\ "POLICY_ISSUED" \in marks
      BY <1>2, <3>2 DEF Core, InsurancePolicy
    <3>3. CASE /\ "FIRST_PREMIUM_PAID" \notin marks
               /\ "POLICY_ISSUED" \notin marks /\ "QUOTE_ACCEPTED" \in marks
      BY <1>2, <3>3 DEF Core, InsurancePolicy
    <3>4. CASE /\ "FIRST_PREMIUM_PAID" \notin marks
               /\ "POLICY_ISSUED" \notin marks /\ "QUOTE_ACCEPTED" \notin marks
               /\ "QUOTE_REQUESTED" \in marks
      BY <1>2, <3>4 DEF Core, InsurancePolicy
    <3>5. CASE /\ "FIRST_PREMIUM_PAID" \notin marks
               /\ "POLICY_ISSUED" \notin marks /\ "QUOTE_ACCEPTED" \notin marks
               /\ "QUOTE_REQUESTED" \notin marks
      BY <1>2, <3>5 DEF Core, InsurancePolicy
    <3> QED BY <3>1, <3>2, <3>3, <3>4, <3>5
  <2> QED BY <2>1 DEF Milestone
<1>3. CASE j = RetailLoyalty
  <2>1. \E m \in Core(j) : Highest(m)
    <3>1. CASE "FIRST_PURCHASE_COMPLETED" \in marks
      BY <1>3, <3>1 DEF Core, RetailLoyalty
    <3>2. CASE /\ "FIRST_PURCHASE_COMPLETED" \notin marks
               /\ "ORDER_PLACED" \in marks
      BY <1>3, <3>2 DEF Core, RetailLoyalty
    <3>3. CASE /\ "FIRST_PURCHASE_COMPLETED" \notin marks
               /\ "ORDER_PLACED" \notin marks /\ "BASKET_CREATED" \in marks
      BY <1>3, <3>3 DEF Core, RetailLoyalty
    <3>4. CASE /\ "FIRST_PURCHASE_COMPLETED" \notin marks
               /\ "ORDER_PLACED" \notin marks /\ "BASKET_CREATED" \notin marks
      BY <1>3, <3>4 DEF Core, RetailLoyalty
    <3> QED BY <3>1, <3>2, <3>3, <3>4
  <2> QED BY <2>1 DEF Milestone
<1> QED BY <1>1, <1>2, <1>3 DEF Defined, Persistent

\* Legality, journey by journey.
LEMMA LegalBanking ==
  ASSUME NEW marks
  PROVE  Legal(BankingTransactional, marks) <=>
           /\ "ACCOUNT_OPENED" \in marks => "UCN_CAPTURED" \in marks
           /\ "ACCOUNT_ACTIVATED" \in marks =>
                {"UCN_CAPTURED", "ACCOUNT_OPENED"} \subseteq marks
           /\ "FUNDED" \in marks =>
                {"UCN_CAPTURED", "ACCOUNT_OPENED", "ACCOUNT_ACTIVATED"}
                  \subseteq marks
           /\ marks \ Core(BankingTransactional) # {} => "FUNDED" \in marks
<1> DEFINE j == BankingTransactional
<1>1. /\ j.rank["VALIDATED"] = 0 /\ j.rank["UCN_CAPTURED"] = 1
      /\ j.rank["ACCOUNT_OPENED"] = 2 /\ j.rank["ACCOUNT_ACTIVATED"] = 3
      /\ j.rank["FUNDED"] = 4 /\ j.minimum = "FUNDED"
  BY DEF BankingTransactional
<1> HIDE DEF j
<1>2. Core(j) = {"VALIDATED", "UCN_CAPTURED", "ACCOUNT_OPENED",
                 "ACCOUNT_ACTIVATED", "FUNDED"}
  BY CoreSequences DEF j
<1> SUFFICES Legal(j, marks) <=>
           /\ "ACCOUNT_OPENED" \in marks => "UCN_CAPTURED" \in marks
           /\ "ACCOUNT_ACTIVATED" \in marks =>
                {"UCN_CAPTURED", "ACCOUNT_OPENED"} \subseteq marks
           /\ "FUNDED" \in marks =>
                {"UCN_CAPTURED", "ACCOUNT_OPENED", "ACCOUNT_ACTIVATED"}
                  \subseteq marks
           /\ marks \ Core(j) # {} => "FUNDED" \in marks
  BY DEF j
<1> QED BY <1>1, <1>2 DEF Legal

\* The legal marks of the insurance journey, as implications.
LEMMA LegalInsurance ==
  ASSUME NEW marks, marks \subseteq InsurancePolicy.timed
  PROVE  Legal(InsurancePolicy, marks) <=>
           /\ "QUOTE_ACCEPTED" \in marks => "QUOTE_REQUESTED" \in marks
           /\ "POLICY_ISSUED" \in marks =>
                {"QUOTE_REQUESTED", "QUOTE_ACCEPTED"} \subseteq marks
           /\ "FIRST_PREMIUM_PAID" \in marks =>
                {"QUOTE_REQUESTED", "QUOTE_ACCEPTED", "POLICY_ISSUED"}
                  \subseteq marks
<1> DEFINE j == InsurancePolicy
<1>1. /\ j.rank["VALIDATED"] = 0 /\ j.rank["QUOTE_REQUESTED"] = 1
      /\ j.rank["QUOTE_ACCEPTED"] = 2 /\ j.rank["POLICY_ISSUED"] = 3
      /\ j.rank["FIRST_PREMIUM_PAID"] = 4 /\ j.minimum = "none"
  BY DEF InsurancePolicy, NoMilestone
<1> HIDE DEF j
<1>2. Core(j) = {"VALIDATED", "QUOTE_REQUESTED", "QUOTE_ACCEPTED",
                 "POLICY_ISSUED", "FIRST_PREMIUM_PAID"}
  BY CoreSequences DEF j
<1> SUFFICES ASSUME marks \subseteq j.timed
             PROVE  Legal(j, marks) <=>
           /\ "QUOTE_ACCEPTED" \in marks => "QUOTE_REQUESTED" \in marks
           /\ "POLICY_ISSUED" \in marks =>
                {"QUOTE_REQUESTED", "QUOTE_ACCEPTED"} \subseteq marks
           /\ "FIRST_PREMIUM_PAID" \in marks =>
                {"QUOTE_REQUESTED", "QUOTE_ACCEPTED", "POLICY_ISSUED"}
                  \subseteq marks
  BY DEF j
<1>3. marks \subseteq Core(j)
  BY <1>2, InsuranceFacts DEF j
<1> QED BY <1>1, <1>2, <1>3 DEF Legal

\* The legal marks of the retail journey, as implications.
LEMMA LegalRetail ==
  ASSUME NEW marks, marks \subseteq RetailLoyalty.timed
  PROVE  Legal(RetailLoyalty, marks) <=>
           /\ "ORDER_PLACED" \in marks => "BASKET_CREATED" \in marks
           /\ "FIRST_PURCHASE_COMPLETED" \in marks =>
                {"BASKET_CREATED", "ORDER_PLACED"} \subseteq marks
<1> DEFINE j == RetailLoyalty
<1>1. /\ j.rank["VALIDATED"] = 0 /\ j.rank["BASKET_CREATED"] = 1
      /\ j.rank["ORDER_PLACED"] = 2
      /\ j.rank["FIRST_PURCHASE_COMPLETED"] = 3
  BY DEF RetailLoyalty
<1> HIDE DEF j
<1>2. Core(j) = {"VALIDATED", "BASKET_CREATED", "ORDER_PLACED",
                 "FIRST_PURCHASE_COMPLETED"}
  BY CoreSequences DEF j
<1> SUFFICES ASSUME marks \subseteq j.timed
             PROVE  Legal(j, marks) <=>
           /\ "ORDER_PLACED" \in marks => "BASKET_CREATED" \in marks
           /\ "FIRST_PURCHASE_COMPLETED" \in marks =>
                {"BASKET_CREATED", "ORDER_PLACED"} \subseteq marks
  BY DEF j
<1>3. marks \subseteq Core(j)
  BY <1>2, RetailFacts DEF j
<1> QED BY <1>1, <1>2, <1>3 DEF Legal

\* The transitions, journey by journey.
LEMMA AllowedBanking ==
  ASSUME NEW status, NEW e \in Allowed(BankingTransactional, status)
  PROVE  \/ e \in SideEvents /\ status = "FUNDED"
         \/ e = "UCN_CAPTURED" /\ status = "VALIDATED"
         \/ e = "ACCOUNT_OPENED" /\ status = "UCN_CAPTURED"
         \/ /\ e \in {"ACCOUNT_ACTIVATED", "FUNDED"}
            /\ status \in {"ACCOUNT_OPENED", "ACCOUNT_ACTIVATED"}
BY DEF Allowed, BankingTransactional

\* What the insurance journey allows next.
LEMMA AllowedInsurance ==
  ASSUME NEW status, NEW e \in Allowed(InsurancePolicy, status)
  PROVE  \/ e = "QUOTE_REQUESTED" /\ status = "VALIDATED"
         \/ e = "QUOTE_ACCEPTED" /\ status = "QUOTE_REQUESTED"
         \/ e = "POLICY_ISSUED" /\ status = "QUOTE_ACCEPTED"
         \/ e = "FIRST_PREMIUM_PAID" /\ status = "POLICY_ISSUED"
BY DEF Allowed, InsurancePolicy

\* What the retail journey allows next.
LEMMA AllowedRetail ==
  ASSUME NEW status, NEW e \in Allowed(RetailLoyalty, status)
  PROVE  \/ e = "BASKET_CREATED" /\ status = "VALIDATED"
         \/ e = "ORDER_PLACED" /\ status = "BASKET_CREATED"
         \/ e = "FIRST_PURCHASE_COMPLETED" /\ status = "ORDER_PLACED"
BY DEF Allowed, RetailLoyalty

\* A transition the journey allows keeps the marks legal.
LEMMA BankingStep ==
  ASSUME NEW marks, marks \subseteq BankingTransactional.timed,
         Legal(BankingTransactional, marks),
         NEW status, status \in marks \/ status = "VALIDATED",
         NEW e,
         \/ e \in Allowed(BankingTransactional, status)
         \/ e \in SideEvents /\ status = "FUNDED"
  PROVE  /\ Marked(marks, e) \subseteq BankingTransactional.timed
         /\ Legal(BankingTransactional, Marked(marks, e))
<1> USE CoreSequences, BankingFacts
<1>1. CASE e \in SideEvents /\ status = "FUNDED"
  <2>1. e # "FUNDED" BY <1>1 DEF SideEvents
  <2>2. Marked(marks, e) = marks \cup {e} BY <2>1 DEF Marked
  <2>3. "FUNDED" \in marks BY <1>1
  <2> QED BY <1>1, <2>2, <2>3, LegalBanking
<1>2. CASE e = "UCN_CAPTURED" /\ status = "VALIDATED"
  <2>1. Marked(marks, e) = marks \cup {"UCN_CAPTURED"} BY <1>2 DEF Marked
  <2> QED BY <1>2, <2>1, LegalBanking
<1>3. CASE e = "ACCOUNT_OPENED" /\ status = "UCN_CAPTURED"
  <2>1. Marked(marks, e) = marks \cup {"ACCOUNT_OPENED"} BY <1>3 DEF Marked
  <2> QED BY <1>3, <2>1, LegalBanking
<1>4. CASE /\ e \in {"ACCOUNT_ACTIVATED", "FUNDED"}
           /\ status \in {"ACCOUNT_OPENED", "ACCOUNT_ACTIVATED"}
  <2>1. {"UCN_CAPTURED", "ACCOUNT_OPENED"} \subseteq marks
    BY <1>4, LegalBanking
  <2>2. \/ Marked(marks, e) = marks \cup {"ACCOUNT_ACTIVATED"}
        \/ Marked(marks, e) = marks \cup {"ACCOUNT_ACTIVATED", "FUNDED"}
    BY <1>4 DEF Marked
  <2> QED BY <2>1, <2>2, LegalBanking
<1> QED BY <1>1, <1>2, <1>3, <1>4, AllowedBanking

\* The same of the insurance journey.
LEMMA InsuranceStep ==
  ASSUME NEW marks, marks \subseteq InsurancePolicy.timed,
         Legal(InsurancePolicy, marks),
         NEW status, status \in marks \/ status = "VALIDATED",
         NEW e \in Allowed(InsurancePolicy, status)
  PROVE  /\ Marked(marks, e) \subseteq InsurancePolicy.timed
         /\ Legal(InsurancePolicy, Marked(marks, e))
<1> USE CoreSequences, InsuranceFacts
<1>1. e # "FUNDED" BY AllowedInsurance
<1>2. Marked(marks, e) = marks \cup {e} BY <1>1 DEF Marked
<1> QED BY <1>2, AllowedInsurance, LegalInsurance

\* And of the retail journey.
LEMMA RetailStep ==
  ASSUME NEW marks, marks \subseteq RetailLoyalty.timed,
         Legal(RetailLoyalty, marks),
         NEW status, status \in marks \/ status = "VALIDATED",
         NEW e \in Allowed(RetailLoyalty, status)
  PROVE  /\ Marked(marks, e) \subseteq RetailLoyalty.timed
         /\ Legal(RetailLoyalty, Marked(marks, e))
<1> USE CoreSequences, RetailFacts
<1>1. e # "FUNDED" BY AllowedRetail
<1>2. Marked(marks, e) = marks \cup {e} BY <1>1 DEF Marked
<1> QED BY <1>2, AllowedRetail, LegalRetail

\* A valid event leads from a coherent instance to a coherent one that has
\* lost no mark and no completion and has gained the event (and, with FUNDED,
\* the activation).
LEMMA AppliedCoherent ==
  ASSUME NEW j \in Defined, NEW i \in Instances(j), Coherent(j, i), NEW e,
         Classify(j, i, e) = "valid"
  PROVE  /\ Applied(j, i, e) \in Instances(j)
         /\ Coherent(j, Applied(j, i, e))
         /\ i.marks \subseteq Applied(j, i, e).marks
         /\ i.complete => Applied(j, i, e).complete
         /\ Applied(j, i, e).marks \subseteq i.marks \cup Marked({}, e)
<1> DEFINE marked == Marked(i.marks, e)
<1>1. /\ i.status \in Core(j)
      /\ i.marks \subseteq j.timed
      /\ i.status \in i.marks \/ j.rank[i.status] = 0
      /\ Legal(j, i.marks)
  BY MilestoneIsHighest DEF Coherent, Instances
<1>2. \/ e \in Allowed(j, i.status)
      \/ e \in j.completion \ Core(j) /\ i.status = j.minimum
  BY DEF Classify
<1>3. marked \subseteq j.timed /\ Legal(j, marked)
  <2>1. CASE j = BankingTransactional
    <3>1. i.status \in i.marks \/ i.status = "VALIDATED"
      BY <1>1, <2>1, BankingFacts
    <3>2. \/ e \in Allowed(BankingTransactional, i.status)
          \/ e \in SideEvents /\ i.status = "FUNDED"
      BY <1>2, <2>1, BankingFacts
    <3> QED BY <1>1, <2>1, <3>1, <3>2, BankingStep
  <2>2. CASE j = InsurancePolicy
    <3>1. i.status \in i.marks \/ i.status = "VALIDATED"
      BY <1>1, <2>2, InsuranceFacts
    <3>2. e \in Allowed(InsurancePolicy, i.status)
      BY <1>2, <2>2, InsuranceFacts, CoreSequences
    <3> QED BY <1>1, <2>2, <3>1, <3>2, InsuranceStep
  <2>3. CASE j = RetailLoyalty
    <3>1. i.status \in i.marks \/ i.status = "VALIDATED"
      BY <1>1, <2>3, RetailFacts
    <3>2. e \in Allowed(RetailLoyalty, i.status)
      BY <1>2, <2>3, RetailFacts, CoreSequences
    <3> QED BY <1>1, <2>3, <3>1, <3>2, RetailStep
  <2> QED BY <2>1, <2>2, <2>3 DEF Defined, Persistent
<1>4. Milestone(j, marked) \in Core(j)
  BY MilestoneIsHighest
<1>5. Completed(j, marked) \in BOOLEAN
  BY DEF Completed
<1>6. /\ i.marks \subseteq marked
      /\ marked \subseteq i.marks \cup Marked({}, e)
  BY DEF Marked
<1>7. Completed(j, i.marks) => Completed(j, marked)
  BY <1>6 DEF Completed
<1> HIDE DEF marked
<1>8. Applied(j, i, e) = [status |-> Milestone(j, marked), marks |-> marked,
                          complete |-> Completed(j, marked)]
  BY DEF Applied, marked
<1> QED BY <1>3, <1>4, <1>5, <1>6, <1>7, <1>8 DEF Instances, Coherent

\* A complete instance has every milestone of its journey and a completion
\* event.
LEMMA CompleteHasAll ==
  ASSUME NEW j \in Defined, NEW i \in Instances(j), Coherent(j, i), i.complete
  PROVE  /\ \A m \in Core(j) : j.rank[m] > 0 => m \in i.marks
         /\ i.marks \cap j.completion # {}
<1>1. Legal(j, i.marks) /\ Completed(j, i.marks) /\ i.marks \subseteq j.timed
  BY DEF Coherent, Instances
<1>2. CASE j = BankingTransactional
  <2>1. {"UCN_CAPTURED", "ACCOUNT_OPENED", "ACCOUNT_ACTIVATED", "FUNDED"}
          \subseteq i.marks
    BY <1>1, <1>2, LegalBanking, BankingFacts DEF Completed, NoMilestone
  <2>2. BankingTransactional.rank["VALIDATED"] = 0
    BY DEF BankingTransactional
  <2> QED BY <1>1, <1>2, <2>1, <2>2, CoreSequences DEF Completed
<1>3. CASE j = InsurancePolicy
  <2>1. {"QUOTE_REQUESTED", "QUOTE_ACCEPTED", "POLICY_ISSUED",
         "FIRST_PREMIUM_PAID"} \subseteq i.marks
    BY <1>1, <1>3, LegalInsurance, InsuranceFacts DEF Completed
  <2>2. InsurancePolicy.rank["VALIDATED"] = 0
    BY DEF InsurancePolicy
  <2> QED BY <1>1, <1>3, <2>1, <2>2, CoreSequences DEF Completed
<1>4. CASE j = RetailLoyalty
  <2>1. {"BASKET_CREATED", "ORDER_PLACED", "FIRST_PURCHASE_COMPLETED"}
          \subseteq i.marks
    BY <1>1, <1>4, LegalRetail, RetailFacts DEF Completed
  <2>2. RetailLoyalty.rank["VALIDATED"] = 0
    BY DEF RetailLoyalty
  <2> QED BY <1>1, <1>4, <2>1, <2>2, CoreSequences DEF Completed
<1> QED BY <1>2, <1>3, <1>4 DEF Defined, Persistent

\* The row keeps all of a coherent instance.
LEMMA PersistedIsWhole ==
  ASSUME NEW j \in Persistent, NEW i \in Instances(j)
  PROVE  Persisted(j, i) = i
<1>1. j.timed = j.stored
  BY BankingFacts, InsuranceFacts DEF Persistent
<1> QED BY <1>1 DEF Persisted, Instances

\* The row validate_referral_code inserts.
LEMMA FreshCoherent ==
  ASSUME NEW j \in Defined
  PROVE  Fresh \in Instances(j) /\ Coherent(j, Fresh)
<1>1. /\ "VALIDATED" \in Core(j)
      /\ \A m \in Core(j) : j.rank[m] = 0 => m = "VALIDATED"
  BY CoreSequences, BankingFacts, InsuranceFacts, RetailFacts
     DEF Defined, Persistent
<1>2. Milestone(j, {}) = "VALIDATED"
  BY <1>1, MilestoneIsHighest
<1>3. Legal(j, {}) /\ Completed(j, {}) = FALSE
  BY DEF Legal, Completed
<1>4. /\ Fresh.status = "VALIDATED" /\ Fresh.marks = {}
      /\ Fresh.complete = FALSE
  BY DEF Fresh
<1>5. Fresh \in Instances(j)
  BY <1>1 DEF Fresh, Instances
<1>6. Coherent(j, Fresh)
  BY <1>2, <1>3, <1>4, Zenon DEF Coherent
<1> QED BY <1>5, <1>6

\* Every non-empty set of naturals has a least element: the form of induction
\* the replay lemma uses.
LEMMA LeastElement ==
  ASSUME NEW T \in SUBSET Nat, T # {}
  PROVE  \E x \in T : \A y \in T : x <= y
<1> DEFINE R == OpToRel(<, Nat)
<1>1. IsWellFoundedOn(R, Nat)
  BY NatLessThanWellFounded
<1>2. \E x \in T : \A y \in T : ~(<<y, x>> \in R)
  <2> HIDE DEF R
  <2> QED BY <1>1, WFMin, Zenon
<1>3. PICK x \in T : \A y \in T : ~(<<y, x>> \in R)
  BY <1>2
<1>4. \A y \in T : ~(y < x)
  BY <1>3 DEF OpToRel
<1> QED BY <1>4, SMT

\* f holds the images of a replay of the first m events of s.
Images(j, s, m, f) ==
  f = [k \in 0..m |-> IF k = 0 THEN Fresh ELSE Step(j, f[k - 1], s[k])]

\* A replay of any number of events has its images.
LEMMA ImagesExist ==
  ASSUME NEW j, NEW s, NEW n \in Nat
  PROVE  \E f : Images(j, s, n, f)
<1> DEFINE T == {m \in Nat : ~\E f : Images(j, s, m, f)}
<1> SUFFICES ASSUME T # {} PROVE FALSE
  OBVIOUS
<1>1. PICK m \in T : \A y \in T : m <= y
  <2>1. T \in SUBSET Nat
    OBVIOUS
  <2> HIDE DEF T
  <2> QED BY <2>1, LeastElement
<1>2. CASE m = 0
  <2> DEFINE f == [k \in 0..0 |-> Fresh]
  <2>1. f = [k \in 0..0 |-> IF k = 0 THEN Fresh ELSE Step(j, f[k - 1], s[k])]
    OBVIOUS
  <2> HIDE DEF f
  <2>2. Images(j, s, 0, f)
    BY <2>1 DEF Images
  <2> QED BY <1>1, <1>2, <2>2
<1>3. CASE m > 0
  <2>1. m - 1 \in Nat /\ m - 1 \notin T /\ m \in Nat
    BY <1>1, <1>3
  <2>2. PICK f : Images(j, s, m - 1, f)
    BY <2>1
  <2> DEFINE g == [k \in 0..m |-> IF k = m THEN Step(j, f[m - 1], s[m]) ELSE f[k]]
             h == [k \in 0..m |-> IF k = 0 THEN Fresh ELSE Step(j, g[k - 1], s[k])]
  <2>3. \A k \in 0..(m - 1) :
          f[k] = IF k = 0 THEN Fresh ELSE Step(j, f[k - 1], s[k])
    BY <2>2 DEF Images
  <2>4. \A k \in 0..m : g[k] = IF k = m THEN Step(j, f[m - 1], s[m]) ELSE f[k]
    OBVIOUS
  <2>5. \A k \in 0..m : h[k] = IF k = 0 THEN Fresh ELSE Step(j, g[k - 1], s[k])
    OBVIOUS
  <2>6. DOMAIN g = 0..m /\ DOMAIN h = 0..m
    OBVIOUS
  <2>7. g = [k \in 0..m |-> g[k]] /\ h = [k \in 0..m |-> h[k]]
    OBVIOUS
  <2>8. h = [k \in 0..m |-> IF k = 0 THEN Fresh ELSE Step(j, g[k - 1], s[k])]
    OBVIOUS
  <2> HIDE DEF g, h
  <2>9. ASSUME NEW k \in 0..m PROVE g[k] = h[k]
    <3>1. CASE k = m
      <4>1. m - 1 \in 0..m /\ m - 1 # m
        BY <2>1
      <4>2. g[m - 1] = f[m - 1]
        BY <2>4, <4>1
      <4>3. m \in 0..m /\ m # 0
        BY <1>3, <2>1
      <4>4. g[m] = Step(j, f[m - 1], s[m])
        BY <2>4, <4>3
      <4>5. h[m] = Step(j, g[m - 1], s[m])
        BY <2>5, <4>3
      <4> QED BY <3>1, <4>2, <4>4, <4>5
    <3>2. CASE k # m /\ k = 0
      <4>1. k \in 0..(m - 1)
        BY <2>1, <3>2
      <4> QED BY <2>3, <2>4, <2>5, <3>2, <4>1
    <3>3. CASE k # m /\ k # 0
      <4>1. k \in 0..(m - 1) /\ k - 1 \in 0..m /\ k - 1 # m
        BY <2>1, <3>3
      <4>2. g[k] = f[k] /\ g[k - 1] = f[k - 1]
        BY <2>4, <3>3, <4>1
      <4> QED BY <2>3, <2>5, <3>3, <4>1, <4>2
    <3> QED BY <3>1, <3>2, <3>3
  <2>10. g = h
    BY <2>7, <2>9
  <2>11. Images(j, s, m, g)
    BY <2>8, <2>10 DEF Images
  <2> QED BY <1>1, <2>11
<1> QED BY <1>1, <1>2, <1>3

\* Replays of histories that begin alike have the same first images.
LEMMA ImagesAgree ==
  ASSUME NEW j, NEW s, NEW t, NEW m \in Nat, NEW n \in Nat, m <= n,
         NEW f, Images(j, s, m, f), NEW g, Images(j, t, n, g),
         \A k \in 1..m : s[k] = t[k]
  PROVE  \A k \in 0..m : f[k] = g[k]
<1> DEFINE T == {k \in 0..m : f[k] # g[k]}
<1> SUFFICES ASSUME T # {} PROVE FALSE
  OBVIOUS
<1>1. PICK x \in T : \A y \in T : x <= y
  <2>1. T \in SUBSET Nat
    OBVIOUS
  <2> HIDE DEF T
  <2> QED BY <2>1, LeastElement
<1>2. /\ \A k \in 0..m : f[k] = IF k = 0 THEN Fresh ELSE Step(j, f[k - 1], s[k])
      /\ \A k \in 0..m : g[k] = IF k = 0 THEN Fresh ELSE Step(j, g[k - 1], t[k])
  BY DEF Images
<1>3. x \in 0..m /\ f[x] # g[x]
  BY <1>1
<1>4. x # 0
  BY <1>2, <1>3
<1>5. x \in 1..m /\ x - 1 \in 0..m /\ ~(x <= x - 1)
  BY <1>3, <1>4
<1>6. f[x - 1] = g[x - 1]
  BY <1>1, <1>5
<1>7. f[x] = Step(j, f[x - 1], s[x]) /\ g[x] = Step(j, g[x - 1], t[x])
  BY <1>2, <1>3, <1>4
<1> QED BY <1>3, <1>5, <1>6, <1>7

\* A replay ends in the last of its images.
LEMMA ReplayIsLast ==
  ASSUME NEW j, NEW E, NEW s \in Seq(E), NEW f, Images(j, s, Len(s), f)
  PROVE  Replay(j, s) = f[Len(s)]
<1> DEFINE n == Len(s)
           Def(g) == [k \in 0..n |-> IF k = 0 THEN Fresh
                                     ELSE Step(j, g[k - 1], s[k])]
           image == CHOOSE g : g = Def(g)
<1>1. n \in Nat
  OBVIOUS
<1>2. f = Def(f)
  BY DEF Images
<1>3. image = Def(image)
  <2> HIDE DEF Def
  <2> QED BY <1>2
<1>4. Replay(j, s) = image[n]
  BY DEF Replay
<1> HIDE DEF image
<1>5. Images(j, s, n, image)
  BY <1>3 DEF Images
<1>6. f[n] = image[n]
  <2>1. n \in 0..n /\ n <= n
    BY <1>1
  <2> HIDE DEF n
  <2> QED BY <1>1, <1>5, <2>1, ImagesAgree DEF n
<1> QED BY <1>4, <1>6

\* A replay of nothing, and of one event more.
LEMMA ReplayOfNone ==
  ASSUME NEW j
  PROVE  Replay(j, <<>>) = Fresh
<1> DEFINE none == <<>>
<1>1. none \in Seq({}) /\ Len(none) = 0
  OBVIOUS
<1> HIDE DEF none
<1>2. PICK f : Images(j, none, 0, f)
  BY ImagesExist
<1>3. f[0] = Fresh
  BY <1>2 DEF Images
<1>4. Replay(j, none) = f[0]
  BY <1>1, <1>2, ReplayIsLast
<1> QED BY <1>3, <1>4 DEF none

LEMMA ReplayOfMore ==
  ASSUME NEW j, NEW E, NEW s \in Seq(E), NEW e \in E
  PROVE  Replay(j, Append(s, e)) = Step(j, Replay(j, s), e)
<1> DEFINE n == Len(s)
           t == Append(s, e)
<1>1. /\ n \in Nat /\ t \in Seq(E) /\ Len(t) = n + 1 /\ t[n + 1] = e
      /\ \A k \in 1..n : s[k] = t[k]
  OBVIOUS
<1> HIDE DEF n, t
<1>2. PICK f : Images(j, s, n, f)
  BY <1>1, ImagesExist
<1>3. n + 1 \in Nat /\ n <= n + 1 /\ n \in 0..n /\ n + 1 \in 0..(n + 1)
      /\ n + 1 # 0 /\ (n + 1) - 1 = n
  BY <1>1
<1>4. PICK g : Images(j, t, n + 1, g)
  BY <1>3, ImagesExist
<1>5. g[n + 1] = Step(j, g[(n + 1) - 1], t[n + 1])
  <2>1. \A k \in 0..(n + 1) :
          g[k] = IF k = 0 THEN Fresh ELSE Step(j, g[k - 1], t[k])
    BY <1>4 DEF Images
  <2> QED BY <1>3, <2>1
<1>6. f[n] = g[n]
  <2> DEFINE p == n + 1
  <2>1. p \in Nat /\ n <= p /\ n \in Nat /\ Images(j, t, p, g)
    BY <1>1, <1>3, <1>4
  <2> HIDE DEF p
  <2>2. \A k \in 0..n : f[k] = g[k]
    BY <1>1, <1>2, <2>1, ImagesAgree
  <2> QED BY <1>3, <2>2
<1>7. Replay(j, s) = f[n]
  BY <1>2, ReplayIsLast DEF n
<1>8. Replay(j, t) = g[n + 1]
  BY <1>1, <1>4, ReplayIsLast
<1> QED BY <1>1, <1>3, <1>5, <1>6, <1>7, <1>8 DEF t

\* Whatever the events and their order, a replay ends in a coherent instance,
\* and every mark of it is one an event leaves.
LEMMA ReplayCoherent ==
  ASSUME NEW j \in Defined, NEW E, NEW events \in Seq(E)
  PROVE  /\ Replay(j, events) \in Instances(j)
         /\ Coherent(j, Replay(j, events))
         /\ Replay(j, events).marks \subseteq
              UNION {Marked({}, events[k]) : k \in 1..Len(events)}
<1> DEFINE n == Len(events)
           gained == UNION {Marked({}, events[k]) : k \in 1..n}
           Good == {i \in Instances(j) : Coherent(j, i) /\ i.marks \subseteq gained}
<1>1. n \in Nat
  OBVIOUS
<1>2. Fresh \in Good
  <2>1. Fresh.marks = {} BY DEF Fresh
  <2> QED BY <2>1, FreshCoherent
<1>3. ASSUME NEW i \in Good, NEW k \in 1..n
      PROVE  Step(j, i, events[k]) \in Good
  <2>1. CASE Classify(j, i, events[k]) = "valid"
    <3>1. /\ Applied(j, i, events[k]) \in Instances(j)
          /\ Coherent(j, Applied(j, i, events[k]))
          /\ Applied(j, i, events[k]).marks \subseteq
               i.marks \cup Marked({}, events[k])
      BY <2>1, AppliedCoherent
    <3>2. Step(j, i, events[k]) = Applied(j, i, events[k])
      BY <2>1 DEF Step
    <3>3. Marked({}, events[k]) \subseteq gained
      OBVIOUS
    <3> HIDE DEF gained
    <3> QED BY <3>1, <3>2, <3>3
  <2>2. CASE Classify(j, i, events[k]) # "valid"
    BY <2>2 DEF Step
  <2> QED BY <2>1, <2>2
<1>4. PICK f : Images(j, events, n, f)
  BY <1>1, ImagesExist
<1>5. \A k \in 0..n : f[k] = IF k = 0 THEN Fresh ELSE Step(j, f[k - 1], events[k])
  BY <1>4 DEF Images
<1>6. \A k \in 0..n : f[k] \in Good
  <2> HIDE DEF Good, n
  <2> DEFINE T == {k \in 0..n : f[k] \notin Good}
  <2> SUFFICES ASSUME T # {} PROVE FALSE
    OBVIOUS
  <2>0. T \in SUBSET Nat
    BY <1>1
  <2>1. PICK m \in T : \A y \in T : m <= y
    <3> HIDE DEF T
    <3> QED BY <2>0, LeastElement
  <2>2. m # 0
    BY <1>2, <1>5, <2>1
  <2>3. m \in 1..n /\ m - 1 \in 0..n /\ m - 1 \notin T
    BY <1>1, <2>1, <2>2
  <2>4. f[m] = Step(j, f[m - 1], events[m])
    BY <1>5, <2>1, <2>2
  <2>5. f[m - 1] \in Good
    BY <2>3
  <2> QED BY <1>3, <2>1, <2>3, <2>4, <2>5
<1>7. Replay(j, events) = f[n]
  BY <1>4, ReplayIsLast
<1>8. f[n] \in Good
  BY <1>1, <1>6
<1> QED BY <1>7, <1>8

\* Where legal marks go beyond a row of the banking journey, whatever event
\* left one of them there is valid on that row.
LEMMA BankingLeadsOn ==
  ASSUME NEW marks, marks \subseteq BankingTransactional.timed,
         Legal(BankingTransactional, marks),
         NEW r \in Instances(BankingTransactional),
         Coherent(BankingTransactional, r), ~(marks \subseteq r.marks)
  PROVE  \E m \in marks : \A e :
           m \in Marked({}, e) => Classify(BankingTransactional, r, e) = "valid"
<1> DEFINE j == BankingTransactional
           Leads(m) == \A e : m \in Marked({}, e) => Classify(j, r, e) = "valid"
<1>1. /\ r.status \in Core(j) /\ r.marks \subseteq j.timed
      /\ r.status \in r.marks \/ (j.rank[r.status] = 0 /\ r.marks \cap Core(j) = {})
      /\ \A n \in r.marks \cap Core(j) : j.rank[n] <= j.rank[r.status]
      /\ Legal(j, r.marks)
  BY MilestoneIsHighest DEF Coherent, Instances, Defined, Persistent
<1>2. /\ j.rank["VALIDATED"] = 0 /\ j.rank["UCN_CAPTURED"] = 1
      /\ j.rank["ACCOUNT_OPENED"] = 2 /\ j.rank["ACCOUNT_ACTIVATED"] = 3
      /\ j.rank["FUNDED"] = 4
  BY DEF BankingTransactional
<1>3. /\ Allowed(j, "VALIDATED") = {"UCN_CAPTURED"}
      /\ Allowed(j, "UCN_CAPTURED") = {"ACCOUNT_OPENED"}
      /\ Allowed(j, "ACCOUNT_OPENED") = {"ACCOUNT_ACTIVATED", "FUNDED"}
      /\ Allowed(j, "ACCOUNT_ACTIVATED") = {"FUNDED"}
      /\ Allowed(j, "FUNDED") = SideEvents
  BY DEF Allowed, BankingTransactional
<1>4. \A m, e : m \in Marked({}, e) =>
         e = m \/ (e = "FUNDED" /\ m = "ACCOUNT_ACTIVATED")
  BY DEF Marked
<1>5. \A e : e \in Allowed(j, r.status) /\ e \notin r.marks =>
         Classify(j, r, e) = "valid"
  BY DEF Classify
<1>6. CASE r.status = "VALIDATED"
  <2>1. r.marks = {}
    BY <1>1, <1>2, <1>6, LegalBanking, CoreSequences, BankingFacts
  <2>2. "UCN_CAPTURED" \in marks
    BY <2>1, LegalBanking, CoreSequences, BankingFacts
  <2>3. Leads("UCN_CAPTURED")
    BY <1>3, <1>4, <1>5, <1>6, <2>1
  <2> QED BY <2>2, <2>3
<1>7. CASE r.status = "UCN_CAPTURED"
  <2>1. r.marks = {"UCN_CAPTURED"}
    <3>1. "ACCOUNT_OPENED" \notin r.marks
      BY <1>1, <1>2, <1>7, CoreSequences
    <3>2. "UCN_CAPTURED" \in r.marks
      BY <1>1, <1>2, <1>7
    <3>3. "ACCOUNT_ACTIVATED" \notin r.marks /\ "FUNDED" \notin r.marks
      BY <1>1, <3>1, LegalBanking
    <3> QED BY <1>1, <3>1, <3>2, <3>3, LegalBanking, CoreSequences, BankingFacts
  <2>2. "ACCOUNT_OPENED" \in marks
    BY <2>1, LegalBanking, CoreSequences, BankingFacts
  <2>3. Leads("ACCOUNT_OPENED")
    BY <1>3, <1>4, <1>5, <1>7, <2>1
  <2> QED BY <2>2, <2>3
<1>8. CASE r.status = "ACCOUNT_OPENED"
  <2>1. r.marks = {"UCN_CAPTURED", "ACCOUNT_OPENED"}
    <3>1. "ACCOUNT_ACTIVATED" \notin r.marks
      BY <1>1, <1>2, <1>8, CoreSequences
    <3>2. "ACCOUNT_OPENED" \in r.marks
      BY <1>1, <1>2, <1>8
    <3>3. "UCN_CAPTURED" \in r.marks /\ "FUNDED" \notin r.marks
      BY <1>1, <3>1, <3>2, LegalBanking
    <3> QED BY <1>1, <3>1, <3>2, <3>3, LegalBanking, CoreSequences, BankingFacts
  <2>2. "ACCOUNT_ACTIVATED" \in marks
    BY <2>1, LegalBanking, CoreSequences, BankingFacts
  <2>3. Leads("ACCOUNT_ACTIVATED")
    BY <1>3, <1>4, <1>5, <1>8, <2>1
  <2> QED BY <2>2, <2>3
<1>9. CASE r.status = "ACCOUNT_ACTIVATED"
  <2>1. r.marks = {"UCN_CAPTURED", "ACCOUNT_OPENED", "ACCOUNT_ACTIVATED"}
    <3>1. "FUNDED" \notin r.marks
      BY <1>1, <1>2, <1>9, CoreSequences
    <3>2. "ACCOUNT_ACTIVATED" \in r.marks
      BY <1>1, <1>2, <1>9
    <3>3. "UCN_CAPTURED" \in r.marks /\ "ACCOUNT_OPENED" \in r.marks
      BY <1>1, <3>2, LegalBanking
    <3> QED BY <1>1, <3>1, <3>2, <3>3, LegalBanking, CoreSequences, BankingFacts
  <2>2. "FUNDED" \in marks
    BY <2>1, LegalBanking, CoreSequences, BankingFacts
  <2>3. Leads("FUNDED")
    BY <1>3, <1>4, <1>5, <1>9, <2>1
  <2> QED BY <2>2, <2>3
<1>10. CASE r.status = "FUNDED"
  <2>1. {"UCN_CAPTURED", "ACCOUNT_OPENED", "ACCOUNT_ACTIVATED", "FUNDED"}
          \subseteq r.marks
    <3>1. "FUNDED" \in r.marks
      BY <1>1, <1>2, <1>10
    <3> QED BY <1>1, <3>1, LegalBanking
  <2>2. PICK m \in marks : m \notin r.marks
    OBVIOUS
  <2>3. m \in SideEvents
    BY <2>1, <2>2, BankingFacts
  <2>4. Leads(m)
    BY <1>3, <1>4, <1>5, <1>10, <2>1, <2>2, <2>3
  <2> QED BY <2>2, <2>4
<1>11. r.status \in {"VALIDATED", "UCN_CAPTURED", "ACCOUNT_OPENED",
                     "ACCOUNT_ACTIVATED", "FUNDED"}
  BY <1>1, CoreSequences
<1> QED BY <1>6, <1>7, <1>8, <1>9, <1>10, <1>11

\* The same of the insurance journey.
LEMMA InsuranceLeadsOn ==
  ASSUME NEW marks, marks \subseteq InsurancePolicy.timed,
         Legal(InsurancePolicy, marks),
         NEW r \in Instances(InsurancePolicy),
         Coherent(InsurancePolicy, r), ~(marks \subseteq r.marks)
  PROVE  \E m \in marks : \A e :
           m \in Marked({}, e) => Classify(InsurancePolicy, r, e) = "valid"
<1> DEFINE j == InsurancePolicy
           Leads(m) == \A e : m \in Marked({}, e) => Classify(j, r, e) = "valid"
<1>1. /\ r.status \in Core(j) /\ r.marks \subseteq j.timed
      /\ r.status \in r.marks \/ (j.rank[r.status] = 0 /\ r.marks \cap Core(j) = {})
      /\ \A n \in r.marks \cap Core(j) : j.rank[n] <= j.rank[r.status]
      /\ Legal(j, r.marks)
  BY MilestoneIsHighest DEF Coherent, Instances, Defined, Persistent
<1>2. /\ j.rank["VALIDATED"] = 0 /\ j.rank["QUOTE_REQUESTED"] = 1
      /\ j.rank["QUOTE_ACCEPTED"] = 2 /\ j.rank["POLICY_ISSUED"] = 3
      /\ j.rank["FIRST_PREMIUM_PAID"] = 4
  BY DEF InsurancePolicy
<1>3. /\ Allowed(j, "VALIDATED") = {"QUOTE_REQUESTED"}
      /\ Allowed(j, "QUOTE_REQUESTED") = {"QUOTE_ACCEPTED"}
      /\ Allowed(j, "QUOTE_ACCEPTED") = {"POLICY_ISSUED"}
      /\ Allowed(j, "POLICY_ISSUED") = {"FIRST_PREMIUM_PAID"}
  BY DEF Allowed, InsurancePolicy
<1>4. \A m \in j.timed : \A e : m \in Marked({}, e) => e = m
  BY InsuranceFacts DEF Marked
<1>5. \A e : e \in Allowed(j, r.status) /\ e \notin r.marks =>
         Classify(j, r, e) = "valid"
  BY DEF Classify
<1>6. CASE r.status = "VALIDATED"
  <2>1. r.marks = {}
    BY <1>1, <1>2, <1>6, CoreSequences, InsuranceFacts
  <2>2. "QUOTE_REQUESTED" \in marks
    BY <2>1, LegalInsurance, InsuranceFacts
  <2>3. Leads("QUOTE_REQUESTED")
    BY <1>3, <1>4, <1>5, <1>6, <2>1, InsuranceFacts
  <2> QED BY <2>2, <2>3
<1>7. CASE r.status = "QUOTE_REQUESTED"
  <2>1. r.marks = {"QUOTE_REQUESTED"}
    <3>1. "QUOTE_ACCEPTED" \notin r.marks
      BY <1>1, <1>2, <1>7, CoreSequences
    <3>2. "QUOTE_REQUESTED" \in r.marks
      BY <1>1, <1>2, <1>7
    <3>3. "POLICY_ISSUED" \notin r.marks /\ "FIRST_PREMIUM_PAID" \notin r.marks
      BY <1>1, <3>1, LegalInsurance
    <3> QED BY <1>1, <3>1, <3>2, <3>3, InsuranceFacts
  <2>2. "QUOTE_ACCEPTED" \in marks
    BY <2>1, LegalInsurance, InsuranceFacts
  <2>3. Leads("QUOTE_ACCEPTED")
    BY <1>3, <1>4, <1>5, <1>7, <2>1, InsuranceFacts
  <2> QED BY <2>2, <2>3
<1>8. CASE r.status = "QUOTE_ACCEPTED"
  <2>1. r.marks = {"QUOTE_REQUESTED", "QUOTE_ACCEPTED"}
    <3>1. "POLICY_ISSUED" \notin r.marks
      BY <1>1, <1>2, <1>8, CoreSequences
    <3>2. "QUOTE_ACCEPTED" \in r.marks
      BY <1>1, <1>2, <1>8
    <3>3. "QUOTE_REQUESTED" \in r.marks /\ "FIRST_PREMIUM_PAID" \notin r.marks
      BY <1>1, <3>1, <3>2, LegalInsurance
    <3> QED BY <1>1, <3>1, <3>2, <3>3, InsuranceFacts
  <2>2. "POLICY_ISSUED" \in marks
    BY <2>1, LegalInsurance, InsuranceFacts
  <2>3. Leads("POLICY_ISSUED")
    BY <1>3, <1>4, <1>5, <1>8, <2>1, InsuranceFacts
  <2> QED BY <2>2, <2>3
<1>9. CASE r.status = "POLICY_ISSUED"
  <2>1. r.marks = {"QUOTE_REQUESTED", "QUOTE_ACCEPTED", "POLICY_ISSUED"}
    <3>1. "FIRST_PREMIUM_PAID" \notin r.marks
      BY <1>1, <1>2, <1>9, CoreSequences
    <3>2. "POLICY_ISSUED" \in r.marks
      BY <1>1, <1>2, <1>9
    <3>3. "QUOTE_REQUESTED" \in r.marks /\ "QUOTE_ACCEPTED" \in r.marks
      BY <1>1, <3>2, LegalInsurance
    <3> QED BY <1>1, <3>1, <3>2, <3>3, InsuranceFacts
  <2>2. "FIRST_PREMIUM_PAID" \in marks
    BY <2>1, InsuranceFacts
  <2>3. Leads("FIRST_PREMIUM_PAID")
    BY <1>3, <1>4, <1>5, <1>9, <2>1, InsuranceFacts
  <2> QED BY <2>2, <2>3
<1>10. r.status # "FIRST_PREMIUM_PAID"
  <2> SUFFICES ASSUME r.status = "FIRST_PREMIUM_PAID" PROVE FALSE
    OBVIOUS
  <2>1. "FIRST_PREMIUM_PAID" \in r.marks
    BY <1>1, <1>2
  <2>2. {"QUOTE_REQUESTED", "QUOTE_ACCEPTED", "POLICY_ISSUED"} \subseteq r.marks
    BY <1>1, <2>1, LegalInsurance
  <2> QED BY <2>1, <2>2, InsuranceFacts
<1>11. r.status \in {"VALIDATED", "QUOTE_REQUESTED", "QUOTE_ACCEPTED",
                     "POLICY_ISSUED"}
  BY <1>1, <1>10, CoreSequences
<1> QED BY <1>6, <1>7, <1>8, <1>9, <1>11

\* Whenever a row lacks a mark that events are known for, one of those events
\* is valid on it.
LEMMA MissingMarkLeadsOn ==
  ASSUME NEW j \in Persistent, NEW i \in Instances(j), Coherent(j, i),
         NEW r \in Instances(j), Coherent(j, r), ~(i.marks \subseteq r.marks),
         NEW E, i.marks \subseteq UNION {Marked({}, e) : e \in E}
  PROVE  \E e \in E : Classify(j, r, e) = "valid"
<1>1. i.marks \subseteq j.timed /\ Legal(j, i.marks)
  BY DEF Instances, Coherent
<1>2. CASE j = BankingTransactional
  <2>1. PICK m \in i.marks : \A e :
          m \in Marked({}, e) => Classify(j, r, e) = "valid"
    BY <1>1, <1>2, BankingLeadsOn
  <2> QED BY <2>1
<1>3. CASE j = InsurancePolicy
  <2>1. PICK m \in i.marks : \A e :
          m \in Marked({}, e) => Classify(j, r, e) = "valid"
    BY <1>1, <1>3, InsuranceLeadsOn
  <2> QED BY <2>1
<1> QED BY <1>2, <1>3 DEF Persistent

-----------------------------------------------------------------------------
(***************************************************************************)
(* One referral, event after event (JourneyReplay).                        *)
(***************************************************************************)

\* More marks never imply an earlier milestone.
LEMMA MilestoneGrows ==
  ASSUME NEW j \in Defined, NEW marks, NEW more, marks \subseteq more
  PROVE  Rank(j, Milestone(j, more)) >= Rank(j, Milestone(j, marks))
<1> DEFINE m == Milestone(j, marks)
           n == Milestone(j, more)
<1>1. /\ m \in Core(j)
      /\ m \in marks \/ j.rank[m] = 0
  BY MilestoneIsHighest
<1>2. /\ n \in Core(j)
      /\ \A x \in more \cap Core(j) : j.rank[x] <= j.rank[n]
  BY MilestoneIsHighest
<1>3. \A x \in Core(j) : j.rank[x] \in Nat
  <2>1. CASE j = BankingTransactional
    BY <2>1 DEF Core, BankingTransactional
  <2>2. CASE j = InsurancePolicy
    BY <2>2 DEF Core, InsurancePolicy
  <2>3. CASE j = RetailLoyalty
    BY <2>3 DEF Core, RetailLoyalty
  <2> QED BY <2>1, <2>2, <2>3 DEF Defined, Persistent
<1> HIDE DEF m, n
<1>4. j.rank[n] >= j.rank[m]
  BY <1>1, <1>2, <1>3
<1> QED BY <1>1, <1>2, <1>4 DEF Rank, m, n

\* An event, valid or not, leads from a coherent instance to a coherent one
\* that is no further back.
LEMMA StepForward ==
  ASSUME NEW j \in Defined, NEW i \in Instances(j), Coherent(j, i), NEW e
  PROVE  /\ Rank(j, Step(j, i, e).status) >= Rank(j, i.status)
         /\ i.complete => Step(j, i, e).complete
<1>1. CASE Classify(j, i, e) = "valid"
  <2> DEFINE next == Applied(j, i, e)
  <2>1. /\ Coherent(j, next) /\ i.marks \subseteq next.marks
        /\ i.complete => next.complete
    BY <1>1, AppliedCoherent
  <2> HIDE DEF next
  <2>2. /\ i.status = Milestone(j, i.marks)
        /\ next.status = Milestone(j, next.marks)
    BY <2>1 DEF Coherent
  <2>3. Rank(j, next.status) >= Rank(j, i.status)
    BY <2>1, <2>2, MilestoneGrows
  <2>4. Step(j, i, e) = next
    BY <1>1 DEF Step, next
  <2> QED BY <2>1, <2>3, <2>4
<1>2. CASE Classify(j, i, e) # "valid"
  <2>1. Step(j, i, e) = i
    BY <1>2 DEF Step
  <2>2. Rank(j, i.status) \in Int
    <3>1. i.status \in Core(j)
      BY DEF Instances
    <3>2. CASE j = BankingTransactional
      BY <3>1, <3>2 DEF Rank, Core, BankingTransactional
    <3>3. CASE j = InsurancePolicy
      BY <3>1, <3>3 DEF Rank, Core, InsurancePolicy
    <3>4. CASE j = RetailLoyalty
      BY <3>1, <3>4 DEF Rank, Core, RetailLoyalty
    <3> QED BY <3>2, <3>3, <3>4 DEF Defined, Persistent
  <2> QED BY <2>1, <2>2
<1> QED BY <1>1, <1>2

\* The retail journey's next milestone is the one the event names, whether or
\* not the earlier timestamps are there.
LEMMA RetailMilestone ==
  ASSUME NEW e \in RetailLoyalty.timed, NEW marks,
         \A x \in marks \cap Core(RetailLoyalty) :
           RetailLoyalty.rank[x] < RetailLoyalty.rank[e]
  PROVE  Milestone(RetailLoyalty, marks \cup {e}) = e
<1> DEFINE j == RetailLoyalty
           m == Milestone(RetailLoyalty, marks \cup {e})
<1>1. /\ m \in Core(j)
      /\ m \in marks \cup {e} \/ (marks \cup {e}) \cap Core(j) = {}
      /\ \A n \in (marks \cup {e}) \cap Core(j) : j.rank[n] <= j.rank[m]
  <2>1. j \in Defined
    BY DEF Defined
  <2> QED BY <2>1, MilestoneIsHighest
<1>2. e \in Core(j)
  BY CoreSequences, RetailFacts
<1>3. j.rank[e] \in Nat /\ j.rank[m] \in Nat
  BY <1>1, <1>2 DEF Core, RetailLoyalty
<1> HIDE DEF m
<1>4. m \in marks \cup {e} /\ j.rank[e] <= j.rank[m]
  BY <1>1, <1>2
<1>5. m \notin marks
  <2> SUFFICES ASSUME m \in marks PROVE FALSE
    OBVIOUS
  <2>1. j.rank[m] < j.rank[e]
    BY <1>1
  <2> HIDE DEF j
  <2> QED BY <1>3, <1>4, <2>1
<1> QED BY <1>4, <1>5 DEF m

\* So an event makes the same row of an instance and of what its row keeps.
LEMMA RetailRow ==
  ASSUME NEW i \in Instances(RetailLoyalty), Coherent(RetailLoyalty, i),
         NEW e \in RetailLoyalty.timed
  PROVE  Persisted(RetailLoyalty,
                   Step(RetailLoyalty, Persisted(RetailLoyalty, i), e))
           = Persisted(RetailLoyalty, Step(RetailLoyalty, i, e))
<1> DEFINE j == RetailLoyalty
           r == Persisted(j, i)
<1>0. /\ j.rank["VALIDATED"] = 0 /\ j.rank["BASKET_CREATED"] = 1
      /\ j.rank["ORDER_PLACED"] = 2
      /\ j.rank["FIRST_PURCHASE_COMPLETED"] = 3
      /\ Core(j) = {"VALIDATED", "BASKET_CREATED", "ORDER_PLACED",
                    "FIRST_PURCHASE_COMPLETED"}
  BY CoreSequences DEF RetailLoyalty
<1>1. /\ i.status \in Core(j) /\ i.marks \subseteq j.timed
      /\ \A n \in i.marks \cap Core(j) : j.rank[n] <= j.rank[i.status]
  <2>1. j \in Defined
    BY DEF Defined
  <2>2. i.status = Milestone(j, i.marks) /\ i.marks \subseteq j.timed
    BY DEF Coherent, Instances
  <2> QED BY <2>1, <2>2, MilestoneIsHighest
<1>2. r.status = i.status /\ r.marks = {} /\ r.complete = i.complete
  BY RetailFacts DEF Persisted
<1>3. Persisted(j, r) = r
  BY RetailFacts DEF Persisted
<1>4. CASE e \in Allowed(j, i.status)
  <2>1. /\ e \in Core(j) /\ e # "FUNDED"
        /\ j.rank[e] = j.rank[i.status] + 1
        /\ i.status # "FIRST_PURCHASE_COMPLETED"
    <3>1. \/ e = "BASKET_CREATED" /\ i.status = "VALIDATED"
          \/ e = "ORDER_PLACED" /\ i.status = "BASKET_CREATED"
          \/ e = "FIRST_PURCHASE_COMPLETED" /\ i.status = "ORDER_PLACED"
      BY <1>4, AllowedRetail
    <3> HIDE DEF j
    <3> QED BY <1>0, <3>1
  <2>2. \A n \in Core(j) : j.rank[n] \in Nat
    BY DEF Core, RetailLoyalty
  <2> HIDE DEF j, r
  <2>3. \A n \in i.marks \cap Core(j) : j.rank[n] < j.rank[e]
    <3> SUFFICES ASSUME NEW n \in i.marks \cap Core(j)
                 PROVE  j.rank[n] < j.rank[e]
      OBVIOUS
    <3>1. j.rank[n] <= j.rank[i.status]
      BY <1>1
    <3>2. j.rank[n] \in Nat /\ j.rank[i.status] \in Nat
      BY <1>1, <2>2
    <3> QED BY <2>1, <3>1, <3>2
  <2>4. e \notin i.marks
    <3> SUFFICES ASSUME e \in i.marks PROVE FALSE
      OBVIOUS
    <3>1. j.rank[e] < j.rank[e]
      BY <2>1, <2>3
    <3> QED BY <2>1, <2>2, <3>1
  <2>5. Classify(j, i, e) = "valid" /\ Classify(j, r, e) = "valid"
    BY <1>2, <1>4, <2>4 DEF Classify
  <2>6. /\ Marked(i.marks, e) = i.marks \cup {e}
        /\ Marked(r.marks, e) = {} \cup {e}
    BY <1>2, <2>1 DEF Marked
  <2>7. /\ Milestone(j, i.marks \cup {e}) = e
        /\ Milestone(j, {} \cup {e}) = e
    BY <2>3, RetailMilestone DEF j
  <2>8. "FIRST_PURCHASE_COMPLETED" \notin i.marks
    <3> SUFFICES ASSUME "FIRST_PURCHASE_COMPLETED" \in i.marks PROVE FALSE
      OBVIOUS
    <3>1. "FIRST_PURCHASE_COMPLETED" \in i.marks \cap Core(j)
      BY <1>0
    <3>2. j.rank["FIRST_PURCHASE_COMPLETED"] <= j.rank[i.status]
      BY <1>1, <3>1
    <3>3. j.rank["FIRST_PURCHASE_COMPLETED"] = 3
      BY <1>0
    <3>4. \A n \in Core(j) : n # "FIRST_PURCHASE_COMPLETED" => j.rank[n] < 3
      BY <1>0
    <3>5. j.rank[i.status] < 3
      BY <1>1, <2>1, <3>4
    <3>6. j.rank[i.status] \in Nat
      BY <1>1, <2>2
    <3> QED BY <3>2, <3>3, <3>5, <3>6
  <2>9. Completed(j, i.marks \cup {e}) = Completed(j, {} \cup {e})
    <3>1. /\ j.minimum = NoMilestone
          /\ j.completion = {"FIRST_PURCHASE_COMPLETED"}
      BY RetailFacts DEF j
    <3>2. \A marks : Completed(j, marks) =
                       (marks \cap {"FIRST_PURCHASE_COMPLETED"} # {})
      BY <3>1 DEF Completed
    <3>3. (i.marks \cup {e}) \cap {"FIRST_PURCHASE_COMPLETED"}
            = ({} \cup {e}) \cap {"FIRST_PURCHASE_COMPLETED"}
      BY <2>8
    <3> QED BY <3>2, <3>3
  <2>10. j.stored = {}
    BY RetailFacts DEF j
  <2>11. /\ Step(j, i, e) = [status |-> e, marks |-> i.marks \cup {e},
                             complete |-> Completed(j, i.marks \cup {e})]
         /\ Step(j, r, e) = [status |-> e, marks |-> {} \cup {e},
                             complete |-> Completed(j, {} \cup {e})]
    BY <2>5, <2>6, <2>7 DEF Step, Applied
  <2>12. Persisted(j, Step(j, r, e)) = Persisted(j, Step(j, i, e))
    BY <2>9, <2>10, <2>11 DEF Persisted
  <2> QED BY <2>12 DEF j, r
<1>5. CASE e \notin Allowed(j, i.status)
  <2>1. j.completion \ Core(j) = {}
    BY CoreSequences, RetailFacts
  <2> HIDE DEF j, r
  <2>2. Classify(j, i, e) # "valid" /\ Classify(j, r, e) # "valid"
    BY <1>2, <1>5, <2>1 DEF Classify
  <2>3. Step(j, i, e) = i /\ Step(j, r, e) = r
    BY <2>2 DEF Step
  <2>4. Persisted(j, Step(j, r, e)) = Persisted(j, Step(j, i, e))
    BY <1>3, <2>3 DEF r
  <2> QED BY <2>4 DEF j, r
<1> QED BY <1>4, <1>5

\* On every journey, what a row forgets makes no difference to the next row.
LEMMA RowIsEnough ==
  ASSUME NEW j \in Defined, NEW i \in Instances(j), Coherent(j, i),
         NEW e \in j.timed
  PROVE  Persisted(j, Step(j, Persisted(j, i), e)) = Persisted(j, Step(j, i, e))
<1>1. CASE j \in Persistent
  <2>1. Persisted(j, i) = i
    BY <1>1, PersistedIsWhole
  <2> QED BY <2>1
<1>2. CASE j = RetailLoyalty
  BY <1>2, RetailRow
<1> QED BY <1>1, <1>2 DEF Defined

\* The row is what a replay of the history yields; the rest follows from it.
ReplayInv ==
  /\ journey \in Journeys
  /\ history \in Seq(journey.timed)
  /\ ReplayMatchesLive

\* The image a replay of the history holds.
LEMMA HistoryImage ==
  ASSUME ReplayInv
  PROVE  LET i == Replay(journey, history)
         IN /\ journey \in Defined
            /\ i \in Instances(journey) /\ Coherent(journey, i)
            /\ i.marks \subseteq Handled
            /\ projection.status = i.status
            /\ projection.complete = i.complete
            /\ projection.marks = i.marks \cap journey.stored
<1> DEFINE i == Replay(journey, history)
<1>1. journey \in Defined
  BY ReplayAssumption DEF ReplayInv
<1>2. history \in Seq(journey.timed) /\ DOMAIN history = 1..Len(history)
  BY DEF ReplayInv
<1>3. /\ i \in Instances(journey) /\ Coherent(journey, i)
      /\ i.marks \subseteq
           {history[k] : k \in 1..Len(history)} \cup {"ACCOUNT_ACTIVATED"}
  <2>1. /\ i \in Instances(journey) /\ Coherent(journey, i)
        /\ i.marks \subseteq
             UNION {Marked({}, history[k]) : k \in 1..Len(history)}
    BY <1>1, <1>2, ReplayCoherent
  <2>2. \A e : Marked({}, e) \subseteq {e, "ACCOUNT_ACTIVATED"}
    BY DEF Marked
  <2>3. UNION {Marked({}, history[k]) : k \in 1..Len(history)} \subseteq
          {history[k] : k \in 1..Len(history)} \cup {"ACCOUNT_ACTIVATED"}
    BY <2>2
  <2> HIDE DEF i
  <2> QED BY <2>1, <2>3, Zenon
<1>4. projection = Persisted(journey, i)
  BY DEF ReplayInv, ReplayMatchesLive
<1> HIDE DEF i
<1>5. i.marks \subseteq Handled
  <2>1. CASE journey = BankingTransactional
    BY <1>2, <1>3, <2>1 DEF Handled
  <2>2. CASE journey # BankingTransactional
    <3>1. journey = InsurancePolicy \/ journey = RetailLoyalty
      BY <1>1, <2>2 DEF Defined, Persistent
    <3>2. "ACCOUNT_ACTIVATED" \notin journey.timed
      BY <3>1, InsuranceFacts, RetailFacts
    <3>3. i.marks \subseteq journey.timed
      BY <1>3 DEF Instances
    <3>4. i.marks \subseteq {history[k] : k \in 1..Len(history)}
      BY <1>3, <3>2, <3>3
    <3> QED BY <1>2, <3>4 DEF Handled
  <2> QED BY <2>1, <2>2
<1> QED BY <1>1, <1>3, <1>4, <1>5 DEF Persisted, i

\* The first row is an empty replay.
LEMMA ReplayInvInit == ReplayInit => ReplayInv
<1> SUFFICES ASSUME ReplayInit PROVE ReplayInv
  OBVIOUS
<1>1. /\ journey \in Journeys /\ history = <<>> /\ projection = Fresh
      /\ journey \in Defined
  BY ReplayAssumption DEF ReplayInit
<1>2. Replay(journey, history) = Fresh
  BY <1>1, ReplayOfNone
<1>3. Persisted(journey, Fresh) = Fresh
  BY DEF Persisted, Fresh
<1>4. history \in Seq(journey.timed)
  BY <1>1
<1> QED BY <1>1, <1>2, <1>3, <1>4 DEF ReplayInv, ReplayMatchesLive

\* One event more makes one step more of the replay.
LEMMA HistoryStep ==
  ASSUME ReplayInv, NEW e \in journey.timed, Process(e)
  PROVE  /\ journey' = journey
         /\ history' \in Seq(journey.timed)
         /\ Replay(journey, history')
              = Step(journey, Replay(journey, history), e)
<1>1. /\ journey' = journey /\ history' = Append(history, e)
      /\ history \in Seq(journey.timed)
  BY DEF Process, ReplayInv
<1>2. Append(history, e) \in Seq(journey.timed)
  BY <1>1
<1>3. Replay(journey, Append(history, e))
        = Step(journey, Replay(journey, history), e)
  BY <1>1, ReplayOfMore
<1> QED BY <1>1, <1>2, <1>3

\* What the row has forgotten makes no difference to it.
LEMMA ReplayInvStep == ReplayInv /\ [ReplayNext]_replayVars => ReplayInv'
<1> SUFFICES ASSUME ReplayInv, [ReplayNext]_replayVars PROVE ReplayInv'
  OBVIOUS
<1>1. ASSUME NEW e \in journey.timed, Process(e) PROVE ReplayInv'
  <2> DEFINE i == Replay(journey, history)
  <2>1. journey' = journey /\ history' \in Seq(journey.timed)
        /\ Replay(journey, history') = Step(journey, i, e)
    BY <1>1, HistoryStep
  <2>2. journey \in Defined /\ i \in Instances(journey) /\ Coherent(journey, i)
    BY HistoryImage
  <2>3. projection = Persisted(journey, i) /\ journey \in Journeys
    BY DEF ReplayInv, ReplayMatchesLive
  <2>4. projection' = Persisted(journey, Step(journey, projection, e))
    BY <1>1 DEF Process
  <2> HIDE DEF i
  <2>5. Persisted(journey, Step(journey, Persisted(journey, i), e))
          = Persisted(journey, Step(journey, i, e))
    BY <2>2, RowIsEnough
  <2>6. projection' = Persisted(journey, Replay(journey, history'))
    BY <2>1, <2>3, <2>4, <2>5
  <2> QED BY <2>1, <2>3, <2>6 DEF ReplayInv, ReplayMatchesLive
<1>2. CASE UNCHANGED replayVars
  BY <1>2 DEF replayVars, ReplayInv, ReplayMatchesLive
<1> QED BY <1>1, <1>2 DEF ReplayNext

\* So it always holds.
LEMMA ReplayInvAlways == ReplaySpec => []ReplayInv
BY ReplayInvInit, ReplayInvStep, PTL DEF ReplaySpec

(***************************************************************************)
(* A row handled event by event is an instance of its journey and holds no *)
(* timestamp the orchestrator does not store.                              *)
(***************************************************************************)
THEOREM ReplayTypeCorrect == ReplaySpec => []ReplayTypeOK
<1>1. ReplayInv => ReplayTypeOK
  <2> SUFFICES ASSUME ReplayInv PROVE ReplayTypeOK
    OBVIOUS
  <2> DEFINE i == Replay(journey, history)
  <2>1. /\ i \in Instances(journey)
        /\ projection = Persisted(journey, i)
    BY HistoryImage DEF ReplayInv, ReplayMatchesLive
  <2> HIDE DEF i
  <2>2. /\ projection \in Instances(journey)
        /\ projection.marks \subseteq journey.stored
    BY <2>1 DEF Persisted, Instances
  <2> QED BY <2>2 DEF ReplayTypeOK, ReplayInv
<1> QED BY <1>1, ReplayInvAlways, PTL

(***************************************************************************)
(* On every journey and for histories of any length, a replay of the       *)
(* events in the order they were handled reproduces the row.               *)
(***************************************************************************)
THEOREM LiveIsReplay == ReplaySpec => []ReplayMatchesLive
<1>1. ReplayInv => ReplayMatchesLive
  BY DEF ReplayInv
<1> QED BY <1>1, ReplayInvAlways, PTL

(***************************************************************************)
(* A redelivery of an applied event is harmless on every journey, at any   *)
(* distance.                                                               *)
(***************************************************************************)
THEOREM RepeatsAreHarmless == ReplaySpec => []RepeatIsIgnored
<1>1. ReplayInv => RepeatIsIgnored
  <2> SUFFICES ASSUME ReplayInv, NEW e \in Replay(journey, history).marks
               PROVE  Persisted(journey, Step(journey, projection, e)) = projection
    BY DEF RepeatIsIgnored
  <2> DEFINE i == Replay(journey, history)
  <2>1. /\ journey \in Defined
        /\ i \in Instances(journey) /\ Coherent(journey, i)
        /\ projection = Persisted(journey, i)
    BY HistoryImage DEF ReplayInv, ReplayMatchesLive
  <2>2. e \in i.marks
    OBVIOUS
  <2> HIDE DEF i
  <2>3. e \in journey.timed /\ Classify(journey, i, e) = "duplicate"
    BY <2>1, <2>2 DEF Instances, Classify
  <2>4. Step(journey, i, e) = i
    BY <2>3 DEF Step
  <2>5. Persisted(journey, Step(journey, Persisted(journey, i), e))
          = Persisted(journey, Step(journey, i, e))
    BY <2>1, <2>3, RowIsEnough
  <2> QED BY <2>1, <2>4, <2>5
<1> QED BY <1>1, ReplayInvAlways, PTL

(***************************************************************************)
(* A completed referral went through every milestone of its journey.       *)
(***************************************************************************)
THEOREM CompletionIsFull == ReplaySpec => []CompletedInFull
<1>1. ReplayInv => CompletedInFull
  <2> SUFFICES ASSUME ReplayInv, projection.complete
               PROVE  /\ \A m \in Core(journey) :
                           journey.rank[m] > 0 => m \in Handled
                      /\ Handled \cap journey.completion # {}
    BY DEF CompletedInFull
  <2> DEFINE i == Replay(journey, history)
  <2>1. /\ journey \in Defined
        /\ i \in Instances(journey) /\ Coherent(journey, i)
        /\ i.marks \subseteq Handled /\ i.complete
    BY HistoryImage
  <2> HIDE DEF i
  <2>2. /\ \A m \in Core(journey) : journey.rank[m] > 0 => m \in i.marks
        /\ i.marks \cap journey.completion # {}
    BY <2>1, CompleteHasAll
  <2> QED BY <2>1, <2>2
<1> QED BY <1>1, ReplayInvAlways, PTL

(***************************************************************************)
(* In sequence, no event takes a referral back to an earlier milestone or  *)
(* out of completion.                                                      *)
(***************************************************************************)
THEOREM NeverBackward == ReplaySpec => OnlyForward
<1> DEFINE Forward ==
             /\ Rank(journey, projection'.status)
                  >= Rank(journey, projection.status)
             /\ projection.complete => projection'.complete
<1>1. ReplayInv /\ [ReplayNext]_replayVars => [Forward]_replayVars
  <2> SUFFICES ASSUME ReplayInv, NEW e \in journey.timed, Process(e)
               PROVE  Forward
    BY DEF ReplayNext
  <2> DEFINE i == Replay(journey, history)
             next == Step(journey, i, e)
  <2>1. /\ journey \in Defined
        /\ i \in Instances(journey) /\ Coherent(journey, i)
        /\ projection.status = i.status /\ projection.complete = i.complete
    BY HistoryImage
  <2>2. ReplayInv'
    <3>1. ReplayNext
      BY DEF ReplayNext
    <3> QED BY <3>1, ReplayInvStep
  <2>3. projection' = Persisted(journey, next)
    BY <2>2, HistoryStep DEF ReplayInv, ReplayMatchesLive
  <2> HIDE DEF i
  <2>4. /\ Rank(journey, next.status) >= Rank(journey, i.status)
        /\ i.complete => next.complete
    BY <2>1, StepForward
  <2> HIDE DEF next
  <2>5. projection'.status = next.status /\ projection'.complete = next.complete
    BY <2>3 DEF Persisted
  <2> QED BY <2>1, <2>4, <2>5
<1> QED BY <1>1, ReplayInvAlways, PTL DEF ReplaySpec, OnlyForward
=============================================================================
