---------------------------- MODULE SumTheorems ----------------------------
(***************************************************************************)
(* Sums over a finite set, which the balances of a ledger are compared     *)
(* with.  SumFunction adds the values of a function one chosen element at  *)
(* a time; what it computes is shown by induction on the subsets of its    *)
(* domain.                                                                 *)
(***************************************************************************)
EXTENDS Integers, FiniteSetsExt, FiniteSetTheorems, TLAPS

(* The element SumFunction takes next, how it adds up the values of F on R  *)
(* and on every subset, and the function that does.                         *)
Pick(S) == CHOOSE x \in S : TRUE
Adds(F, R, g) == g = [S \in SUBSET R |-> IF S = {} THEN 0 ELSE F[Pick(S)] + g[S \ {Pick(S)}]]
Tot(F, R) == CHOOSE g : Adds(F, R, g)

(* SumFunction is that recursive function at the whole domain.               *)
LEMMA SumIs ==
    ASSUME NEW F, NEW R, DOMAIN F = R
    PROVE  SumFunction(F) = Tot(F, R)[R]
BY DEF SumFunction, SumFunctionOnSet, FoldFunctionOnSet, MapThenFoldSet, Tot, Adds, Pick

(* What every subset has as soon as its strict subsets have it, all have.    *)
LEMMA SubsetInduction ==
    ASSUME NEW R, IsFiniteSet(R), NEW G,
           \A T \in SUBSET R : (\A U \in SUBSET T : U # T => U \in G) => T \in G
    PROVE  SUBSET R \subseteq G
<1> DEFINE B == (SUBSET R) \ G
<1>1. IsWellFoundedOn(StrictSubsetOrdering(R), SUBSET R)
    BY FS_StrictSubsetOrderingWellFounded, FS_FiniteSubsetsOfFinite
<1>2. SUFFICES ASSUME B # {} PROVE FALSE
    OBVIOUS
<1>3. PICK T \in B : \A U \in B : ~(<<U, T>> \in StrictSubsetOrdering(R))
    <2>1. B \subseteq SUBSET R
        OBVIOUS
    <2> HIDE DEF B
    <2> QED
        BY <1>1, <1>2, <2>1, WFMin
<1>4. \A U \in SUBSET T : U # T => U \in G
    BY <1>3 DEF StrictSubsetOrdering
<1> QED
    BY <1>3, <1>4

(* There is one way to add up a set, and there is one.                       *)
LEMMA AddsUnique ==
    ASSUME NEW R, IsFiniteSet(R), NEW F, NEW S1 \in SUBSET R, NEW S2 \in SUBSET R, NEW g, NEW h,
           Adds(F, S1, g), Adds(F, S2, h)
    PROVE  \A T \in SUBSET (S1 \cap S2) : g[T] = h[T]
<1> DEFINE G == {T \in SUBSET R : T \subseteq S1 \cap S2 => g[T] = h[T]}
<1>1. ASSUME NEW T \in SUBSET R, \A U \in SUBSET T : U # T => U \in G
      PROVE  T \in G
    <2>1. SUFFICES ASSUME T \subseteq S1 \cap S2 PROVE g[T] = h[T]
        OBVIOUS
    <2>2. CASE T = {}
        BY <2>1, <2>2 DEF Adds
    <2>3. CASE T # {}
        <3>1. Pick(T) \in T
            BY <2>3 DEF Pick
        <3>2. T \ {Pick(T)} \in G
            BY <1>1, <3>1
        <3>3. g[T \ {Pick(T)}] = h[T \ {Pick(T)}]
            BY <2>1, <3>2
        <3>4. g[T] = F[Pick(T)] + g[T \ {Pick(T)}] /\ h[T] = F[Pick(T)] + h[T \ {Pick(T)}]
            BY <2>1, <2>3 DEF Adds
        <3> QED
            BY <3>3, <3>4
    <2> QED
        BY <2>2, <2>3
<1> HIDE DEF G
<1>2. SUBSET R \subseteq G
    BY <1>1, SubsetInduction
<1> QED
    BY <1>2 DEF G

LEMMA AddsExists ==
    ASSUME NEW R, IsFiniteSet(R), NEW F
    PROVE  \A T \in SUBSET R : \E g : Adds(F, T, g)
<1> DEFINE G == {T \in SUBSET R : \E g : Adds(F, T, g)}
<1>1. ASSUME NEW T \in SUBSET R, \A U \in SUBSET T : U # T => U \in G
      PROVE  \E g : Adds(F, T, g)
    <2> DEFINE h(U) == CHOOSE g : Adds(F, U, g)
               g == [S \in SUBSET T |-> IF S = {} THEN 0
                         ELSE F[Pick(S)] + h(S \ {Pick(S)})[S \ {Pick(S)}]]
    <2>1. \A U \in SUBSET T : U # T => Adds(F, U, h(U))
        BY <1>1
    <2> HIDE DEF h
    <2>2. ASSUME NEW S \in SUBSET T, S # {}
          PROVE  g[S] = F[Pick(S)] + g[S \ {Pick(S)}]
        <3> DEFINE U == S \ {Pick(S)}
        <3>1. Pick(S) \in S
            BY <2>2 DEF Pick
        <3>2. U \in SUBSET T /\ U # T
            BY <3>1
        <3>3. Adds(F, U, h(U))
            BY <2>1, <3>2
        <3>4. g[U] = h(U)[U]
            <4>1. CASE U = {}
                <5>1. h(U)[U] = 0
                    BY <3>3, <4>1 DEF Adds
                <5> QED
                    BY <5>1, <4>1
            <4>2. CASE U # {}
                <5> DEFINE V == U \ {Pick(U)}
                <5>1. Pick(U) \in U
                    BY <4>2 DEF Pick
                <5>2. V \in SUBSET T /\ V # T /\ V \in SUBSET U
                    BY <5>1
                <5>3. Adds(F, V, h(V))
                    BY <2>1, <5>2
                <5>4. h(U)[V] = h(V)[V]
                    <6>1. U \in SUBSET R /\ V \in SUBSET R /\ V \in SUBSET (U \cap V)
                        BY <3>2, <5>2
                    <6> HIDE DEF U, V
                    <6> QED
                        BY <3>3, <5>3, <6>1, AddsUnique
                <5>5. h(U)[U] = F[Pick(U)] + h(U)[V]
                    <6> HIDE DEF U
                    <6> QED
                        BY <3>3, <4>2 DEF Adds
                <5>6. g[U] = F[Pick(U)] + h(V)[V]
                    BY <3>2, <4>2
                <5> QED
                    BY <5>4, <5>5, <5>6
            <4> QED
                BY <4>1, <4>2
        <3>5. g[S] = F[Pick(S)] + h(U)[U]
            BY <2>2
        <3> QED
            BY <3>4, <3>5
    <2>3. g = [S \in SUBSET T |-> IF S = {} THEN 0 ELSE F[Pick(S)] + g[S \ {Pick(S)}]]
        <3>1. g[{}] = 0
            OBVIOUS
        <3>2. g = [S \in SUBSET T |-> g[S]]
            OBVIOUS
        <3> HIDE DEF g
        <3> QED
            BY <2>2, <3>1, <3>2
    <2> HIDE DEF g
    <2> QED
        BY <2>3 DEF Adds
<1> HIDE DEF G
<1>2. SUBSET R \subseteq G
    <2>1. \A T \in SUBSET R : (\A U \in SUBSET T : U # T => U \in G) => T \in G
        BY <1>1 DEF G
    <2> QED
        BY <2>1, SubsetInduction
<1> QED
    BY <1>2 DEF G

LEMMA TotAdds ==
    ASSUME NEW R, IsFiniteSet(R), NEW F
    PROVE  Adds(F, R, Tot(F, R))
<1>1. \E g : Adds(F, R, g)
    BY AddsExists
<1> QED
    BY <1>1 DEF Tot

(* A sum of integers is an integer, a sum of zeros is zero, and a sum        *)
(* changes by what one value changes.                                        *)
LEMMA SumType ==
    ASSUME NEW R, IsFiniteSet(R), NEW F \in [R -> Int]
    PROVE  SumFunction(F) \in Int
<1> DEFINE g == Tot(F, R)
           G == {T \in SUBSET R : g[T] \in Int}
<1>1. Adds(F, R, g)
    BY TotAdds
<1> HIDE DEF g
<1>2. ASSUME NEW T \in SUBSET R, \A U \in SUBSET T : U # T => U \in G
      PROVE  g[T] \in Int
    <2>1. CASE T = {}
        BY <1>1, <2>1 DEF Adds
    <2>2. CASE T # {}
        <3>1. Pick(T) \in T
            BY <2>2 DEF Pick
        <3>2. g[T] = F[Pick(T)] + g[T \ {Pick(T)}]
            BY <1>1, <2>2 DEF Adds
        <3>3. g[T \ {Pick(T)}] \in Int
            BY <1>2, <3>1
        <3> QED
            BY <3>1, <3>2, <3>3
    <2> QED
        BY <2>1, <2>2
<1>3. SUBSET R \subseteq G
    <2>1. \A T \in SUBSET R : (\A U \in SUBSET T : U # T => U \in G) => T \in G
        BY <1>2
    <2> HIDE DEF G
    <2> QED
        BY <2>1, SubsetInduction
<1>4. g[R] \in Int
    BY <1>3
<1> QED
    BY <1>4, SumIs DEF g

LEMMA SumZero ==
    ASSUME NEW R, IsFiniteSet(R), NEW F \in [R -> {0}]
    PROVE  SumFunction(F) = 0
<1> DEFINE g == Tot(F, R)
           G == {T \in SUBSET R : g[T] = 0}
<1>1. Adds(F, R, g)
    BY TotAdds
<1> HIDE DEF g
<1>2. ASSUME NEW T \in SUBSET R, \A U \in SUBSET T : U # T => U \in G
      PROVE  g[T] = 0
    <2>1. CASE T = {}
        BY <1>1, <2>1 DEF Adds
    <2>2. CASE T # {}
        <3>1. Pick(T) \in T
            BY <2>2 DEF Pick
        <3>2. g[T] = F[Pick(T)] + g[T \ {Pick(T)}]
            BY <1>1, <2>2 DEF Adds
        <3>3. g[T \ {Pick(T)}] = 0
            BY <1>2, <3>1
        <3> QED
            BY <3>1, <3>2, <3>3
    <2> QED
        BY <2>1, <2>2
<1>3. SUBSET R \subseteq G
    <2>1. \A T \in SUBSET R : (\A U \in SUBSET T : U # T => U \in G) => T \in G
        BY <1>2
    <2> HIDE DEF G
    <2> QED
        BY <2>1, SubsetInduction
<1>4. g[R] = 0
    BY <1>3
<1> QED
    BY <1>4, SumIs DEF g

LEMMA SumChange ==
    ASSUME NEW R, IsFiniteSet(R), NEW F \in [R -> Int], NEW E \in [R -> Int], NEW r \in R,
           \A x \in R \ {r} : E[x] = F[x]
    PROVE  SumFunction(E) = SumFunction(F) + E[r] - F[r]
<1> DEFINE f == Tot(F, R)
           e == Tot(E, R)
           d == E[r] - F[r]
           G == {T \in SUBSET R : f[T] \in Int /\ e[T] = f[T] + IF r \in T THEN d ELSE 0}
<1>1. Adds(F, R, f) /\ Adds(E, R, e) /\ d \in Int
    BY TotAdds
<1> HIDE DEF f, e, d
<1>2. ASSUME NEW T \in SUBSET R, \A U \in SUBSET T : U # T => U \in G
      PROVE  f[T] \in Int /\ e[T] = f[T] + IF r \in T THEN d ELSE 0
    <2>1. CASE T = {}
        BY <1>1, <2>1 DEF Adds
    <2>2. CASE T # {}
        <3> DEFINE x == Pick(T)
                   U == T \ {x}
        <3>1. x \in T
            BY <2>2 DEF Pick
        <3>2. f[T] = F[x] + f[U] /\ e[T] = E[x] + e[U]
            BY <1>1, <2>2 DEF Adds
        <3>3. f[U] \in Int /\ e[U] = f[U] + IF r \in U THEN d ELSE 0
            BY <1>2, <3>1
        <3>4. F[x] \in Int /\ E[x] \in Int
            BY <3>1
        <3>5. CASE x = r
            <4>1. E[x] = F[x] + d /\ r \in T /\ r \notin U
                BY <3>1, <3>4, <3>5 DEF d
            <4> HIDE DEF x, U
            <4> QED
                BY <3>2, <3>3, <3>4, <4>1, <1>1
        <3>6. CASE x # r
            <4>1. E[x] = F[x] /\ (r \in T <=> r \in U)
                BY <3>1, <3>6
            <4> HIDE DEF x, U
            <4> QED
                BY <3>2, <3>3, <3>4, <4>1, <1>1
        <3> QED
            BY <3>5, <3>6
    <2> QED
        BY <2>1, <2>2
<1>3. SUBSET R \subseteq G
    <2>1. \A T \in SUBSET R : (\A U \in SUBSET T : U # T => U \in G) => T \in G
        BY <1>2
    <2> HIDE DEF G
    <2> QED
        BY <2>1, SubsetInduction
<1>4. e[R] = f[R] + d /\ f[R] \in Int
    BY <1>3
<1>5. SumFunction(F) = f[R] /\ SumFunction(E) = e[R]
    BY SumIs DEF f, e
<1> QED
    BY <1>4, <1>5 DEF d

(* A function that is nowhere larger has no larger sum.                     *)
LEMMA SumLess ==
    ASSUME NEW R, IsFiniteSet(R), NEW F \in [R -> Int], NEW E \in [R -> Int],
           \A x \in R : F[x] <= E[x]
    PROVE  SumFunction(F) <= SumFunction(E)
<1> DEFINE f == Tot(F, R)
           e == Tot(E, R)
           G == {T \in SUBSET R : f[T] \in Int /\ e[T] \in Int /\ f[T] <= e[T]}
<1>1. Adds(F, R, f) /\ Adds(E, R, e)
    BY TotAdds
<1> HIDE DEF f, e
<1>2. ASSUME NEW T \in SUBSET R, \A U \in SUBSET T : U # T => U \in G
      PROVE  f[T] \in Int /\ e[T] \in Int /\ f[T] <= e[T]
    <2>1. CASE T = {}
        BY <1>1, <2>1 DEF Adds
    <2>2. CASE T # {}
        <3> DEFINE x == Pick(T)
                   U == T \ {x}
        <3>1. x \in T
            BY <2>2 DEF Pick
        <3>2. f[T] = F[x] + f[U] /\ e[T] = E[x] + e[U]
            BY <1>1, <2>2 DEF Adds
        <3>3. f[U] \in Int /\ e[U] \in Int /\ f[U] <= e[U]
            BY <1>2, <3>1
        <3>4. F[x] \in Int /\ E[x] \in Int /\ F[x] <= E[x]
            BY <3>1
        <3> HIDE DEF x, U
        <3> QED
            BY <3>2, <3>3, <3>4
    <2> QED
        BY <2>1, <2>2
<1>3. SUBSET R \subseteq G
    <2>1. \A T \in SUBSET R : (\A U \in SUBSET T : U # T => U \in G) => T \in G
        BY <1>2
    <2> HIDE DEF G
    <2> QED
        BY <2>1, SubsetInduction
<1>4. f[R] <= e[R]
    BY <1>3
<1>5. SumFunction(F) = f[R] /\ SumFunction(E) = e[R]
    BY SumIs DEF f, e
<1> QED
    BY <1>4, <1>5
=============================================================================
