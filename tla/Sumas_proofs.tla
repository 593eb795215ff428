---------------------------- MODULE Sumas_proofs ----------------------------
(***************************************************************************)
(* What MapThenSumSet of the community modules computes, for the proofs    *)
(* about totals (the payments of a sale, the quotas of a function).        *)
(*                                                                         *)
(* The sum of a set is the value on the whole set of a recursive function  *)
(* on its subsets.  A weight is counted coin by coin: the sum of S is the  *)
(* number of pairs of an element x and a number below the weight of x, and *)
(* what is known of cardinalities gives the rest.                          *)
(***************************************************************************)
EXTENDS Integers, FiniteSets, FiniteSetsExt, FiniteSetTheorems, TLAPS

\* g is the recursive function that MapThenSumSet chooses, for the weights w.
IsSum(g, w, S) ==
    g = [s \in SUBSET S |->
           IF s = {} THEN 0
           ELSE LET x == CHOOSE x \in s : TRUE IN w[x] + g[s \ {x}]]

Coins(w, T) == {c \in T \X Nat : c[2] < w[c[1]]}

LEMMA CoinsEmpty ==
  ASSUME NEW w
  PROVE  Coins(w, {}) = {}
  BY DEF Coins

\* The coins of a set with one more element are its coins and those of the element.
LEMMA CoinsOfOne ==
  ASSUME NEW w, NEW x, w[x] \in Nat
  PROVE  /\ IsFiniteSet(Coins(w, {x}))
         /\ Cardinality(Coins(w, {x})) = w[x]
<1>1. Coins(w, {x}) = {x} \X (0..(w[x] - 1))
  BY DEF Coins
<1>2. IsFiniteSet({x}) /\ Cardinality({x}) = 1
  BY FS_Singleton
<1>3. IsFiniteSet(0..(w[x] - 1)) /\ Cardinality(0..(w[x] - 1)) = w[x]
  <2>1. CASE w[x] = 0
    <3>1. 0..(w[x] - 1) = {}
      BY <2>1
    <3> QED
      BY <3>1, <2>1, FS_EmptySet
  <2>2. CASE w[x] # 0
    BY <2>2, FS_Interval, SMTT(30)
  <2> QED
    BY <2>1, <2>2
<1>4. /\ IsFiniteSet({x} \X (0..(w[x] - 1)))
      /\ Cardinality({x} \X (0..(w[x] - 1))) = Cardinality({x}) * Cardinality(0..(w[x] - 1))
  BY <1>2, <1>3, FS_Product
<1>5. 1 * w[x] = w[x]
  OBVIOUS
<1>6. Cardinality({x} \X (0..(w[x] - 1))) = w[x]
  BY <1>2, <1>3, <1>4, <1>5
<1> QED
  BY <1>1, <1>4, <1>6

LEMMA CoinsAdd ==
  ASSUME NEW w, NEW T, NEW x, x \notin T, w[x] \in Nat, IsFiniteSet(Coins(w, T))
  PROVE  /\ IsFiniteSet(Coins(w, T \cup {x}))
         /\ Cardinality(Coins(w, T \cup {x})) = Cardinality(Coins(w, T)) + w[x]
<1>1. Coins(w, T \cup {x}) = Coins(w, T) \cup Coins(w, {x})
  BY DEF Coins
<1>2. Coins(w, T) \cap Coins(w, {x}) = {}
  BY DEF Coins
<1>3. IsFiniteSet(Coins(w, {x})) /\ Cardinality(Coins(w, {x})) = w[x]
  BY CoinsOfOne
<1>4. Cardinality({}) = 0
  BY FS_EmptySet
<1>5. /\ IsFiniteSet(Coins(w, T) \cup Coins(w, {x}))
      /\ Cardinality(Coins(w, T) \cup Coins(w, {x}))
           = Cardinality(Coins(w, T)) + Cardinality(Coins(w, {x}))
               - Cardinality(Coins(w, T) \cap Coins(w, {x}))
  BY <1>3, FS_Union
<1>6. Cardinality(Coins(w, T)) \in Nat
  BY FS_CardinalityType
<1>7. Cardinality(Coins(w, T) \cup Coins(w, {x})) = Cardinality(Coins(w, T)) + w[x] - 0
  BY <1>2, <1>3, <1>4, <1>5
<1>8. Cardinality(Coins(w, T)) + w[x] - 0 = Cardinality(Coins(w, T)) + w[x]
  BY <1>6
<1> QED
  BY Zenon, <1>1, <1>5, <1>7, <1>8

\* A nonempty family of subsets of a finite set has a smallest member.
LEMMA SmallestSubset ==
  ASSUME NEW S, IsFiniteSet(S), NEW F, F \subseteq SUBSET S, F # {}
  PROVE  \E T \in F : \A U \in F : ~(U \subseteq T /\ U # T)
<1>1. IsWellFoundedOn(StrictSubsetOrdering(S), FiniteSubsetsOf(S))
  BY FS_StrictSubsetOrderingWellFounded
<1>2. F \subseteq FiniteSubsetsOf(S)
  BY FS_Subset DEF FiniteSubsetsOf
<1>3. PICK T \in F : \A U \in F : <<U, T>> \notin StrictSubsetOrdering(S)
  BY <1>1, <1>2, WFMin
<1> QED
  BY <1>3 DEF StrictSubsetOrdering

LEMMA CoinsFinite ==
  ASSUME NEW S, IsFiniteSet(S), NEW w, \A x \in S : w[x] \in Nat,
         NEW T \in SUBSET S
  PROVE  IsFiniteSet(Coins(w, T))
<1> DEFINE F == {U \in SUBSET S : ~IsFiniteSet(Coins(w, U))}
<1>1. SUFFICES ASSUME F # {} PROVE FALSE
  OBVIOUS
<1>2. PICK U \in F : \A V \in F : ~(V \subseteq U /\ V # U)
  <2>1. F \subseteq SUBSET S
    OBVIOUS
  <2> HIDE DEF F
  <2> QED
    BY <1>1, <2>1, SmallestSubset
<1>3. U # {}
  BY <1>2, CoinsEmpty, FS_EmptySet
<1>4. PICK x \in U : TRUE
  BY <1>3
<1>5. U \ {x} \notin F
  BY <1>2, <1>4
<1>6. IsFiniteSet(Coins(w, U \ {x}))
  BY <1>5
<1>7. IsFiniteSet(Coins(w, (U \ {x}) \cup {x}))
  <2>1. w[x] \in Nat /\ x \notin U \ {x}
    OBVIOUS
  <2> QED
    BY <2>1, <1>6, CoinsAdd
<1>8. (U \ {x}) \cup {x} = U
  OBVIOUS
<1> QED
  BY <1>2, <1>7, <1>8

\* The recursive equation has a solution, the number of coins, and no other.
LEMMA SumExists ==
  ASSUME NEW S, IsFiniteSet(S), NEW w, \A x \in S : w[x] \in Nat
  PROVE  IsSum([T \in SUBSET S |-> Cardinality(Coins(w, T))], w, S)
<1> DEFINE g == [T \in SUBSET S |-> Cardinality(Coins(w, T))]
<1> DEFINE Choice(s) == CHOOSE x \in s : TRUE
<1>1. ASSUME NEW s \in SUBSET S
      PROVE  g[s] = IF s = {} THEN 0 ELSE w[Choice(s)] + g[s \ {Choice(s)}]
  <2>1. CASE s = {}
    BY <2>1, CoinsEmpty, FS_EmptySet
  <2>2. CASE s # {}
    <3>1. Choice(s) \in s
      BY <2>2
    <3> DEFINE c == Choice(s)
    <3>2. c \in s
      BY <3>1
    <3> HIDE DEF c
    <3>3. w[c] \in Nat /\ c \notin s \ {c} /\ s \ {c} \in SUBSET S /\ (s \ {c}) \cup {c} = s
      BY <3>2
    <3>4. IsFiniteSet(Coins(w, s \ {c}))
      BY <3>3, CoinsFinite
    <3>5. Cardinality(Coins(w, (s \ {c}) \cup {c})) = Cardinality(Coins(w, s \ {c})) + w[c]
      BY <3>3, <3>4, CoinsAdd
    <3>6. Cardinality(Coins(w, s \ {c})) \in Nat
      BY <3>4, FS_CardinalityType
    <3>7. g[s] = w[c] + g[s \ {c}]
      <4>1. g[s] = Cardinality(Coins(w, s)) /\ g[s \ {c}] = Cardinality(Coins(w, s \ {c}))
        BY <3>3
      <4>2. Cardinality(Coins(w, s)) = Cardinality(Coins(w, s \ {c})) + w[c]
        BY <3>3, <3>5
      <4> QED
        BY <3>3, <3>6, <4>1, <4>2
    <3> QED
      BY <3>7, <2>2 DEF c
  <2> QED
    BY <2>1, <2>2
<1> QED
  BY <1>1 DEF IsSum

LEMMA SumUnique ==
  ASSUME NEW S, IsFiniteSet(S), NEW w, NEW g, NEW h, IsSum(g, w, S), IsSum(h, w, S)
  PROVE  \A T \in SUBSET S : g[T] = h[T]
<1> DEFINE Choice(s) == CHOOSE x \in s : TRUE
<1> DEFINE F == {T \in SUBSET S : g[T] # h[T]}
<1>1. \A s \in SUBSET S : g[s] = IF s = {} THEN 0 ELSE w[Choice(s)] + g[s \ {Choice(s)}]
  BY DEF IsSum
<1>2. \A s \in SUBSET S : h[s] = IF s = {} THEN 0 ELSE w[Choice(s)] + h[s \ {Choice(s)}]
  BY DEF IsSum
<1>3. SUFFICES ASSUME F # {} PROVE FALSE
  OBVIOUS
<1>4. PICK T \in F : \A U \in F : ~(U \subseteq T /\ U # T)
  <2>1. F \subseteq SUBSET S
    OBVIOUS
  <2> HIDE DEF F
  <2> QED
    BY <1>3, <2>1, SmallestSubset
<1>5. T # {}
  BY <1>1, <1>2, <1>4
<1>6. Choice(T) \in T
  BY <1>5
<1>7. T \ {Choice(T)} \notin F
  BY <1>4, <1>6
<1>8. g[T \ {Choice(T)}] = h[T \ {Choice(T)}]
  BY <1>7
<1>9. g[T] = w[Choice(T)] + g[T \ {Choice(T)}] /\ h[T] = w[Choice(T)] + h[T \ {Choice(T)}]
  BY <1>1, <1>2, <1>4, <1>5
<1>10. g[T] = h[T]
  BY <1>8, <1>9
<1> QED
  BY <1>4, <1>10

\* Whatever function solves the equation, its value on S is the number of coins of S.
LEMMA SumIsCoins ==
  ASSUME NEW S, IsFiniteSet(S), NEW w, \A x \in S : w[x] \in Nat, NEW g, IsSum(g, w, S)
  PROVE  g[S] = Cardinality(Coins(w, S))
<1> DEFINE h == [T \in SUBSET S |-> Cardinality(Coins(w, T))]
<1>1. IsSum(h, w, S)
  BY SumExists
<1>2. h[S] = Cardinality(Coins(w, S))
  OBVIOUS
<1> HIDE DEF h
<1>3. \A T \in SUBSET S : g[T] = h[T]
  BY <1>1, SumUnique
<1> QED
  BY <1>2, <1>3

\* ... and so is the value on S of the function that MapThenSumSet chooses.
LEMMA ChosenSum ==
  ASSUME NEW S, IsFiniteSet(S), NEW w, \A x \in S : w[x] \in Nat
  PROVE  /\ (CHOOSE g : IsSum(g, w, S))[S] = Cardinality(Coins(w, S))
         /\ Cardinality(Coins(w, S)) \in Nat
<1> DEFINE h == [T \in SUBSET S |-> Cardinality(Coins(w, T))]
           g == CHOOSE g : IsSum(g, w, S)
<1>1. IsSum(h, w, S)
  BY SumExists
<1> HIDE DEF h
<1>2. IsSum(g, w, S)
  BY <1>1
<1> HIDE DEF g
<1>3. g[S] = Cardinality(Coins(w, S))
  BY <1>2, SumIsCoins
<1>4. Cardinality(Coins(w, S)) \in Nat
  BY CoinsFinite, FS_CardinalityType
<1> QED
  BY <1>3, <1>4 DEF g

\* Fewer elements and smaller weights have no more coins.
LEMMA CoinsLess ==
  ASSUME NEW S, NEW T, S \subseteq T, IsFiniteSet(T), NEW v, NEW w,
         \A x \in T : w[x] \in Nat, \A x \in S : v[x] \in Nat /\ v[x] <= w[x]
  PROVE  Cardinality(Coins(v, S)) <= Cardinality(Coins(w, T))
<1>1. Coins(v, S) \subseteq Coins(w, T)
  <2> SUFFICES ASSUME NEW c \in S \X Nat, c[2] < v[c[1]]
               PROVE  c \in T \X Nat /\ c[2] < w[c[1]]
    BY DEF Coins
  <2>1. /\ c[1] \in S /\ c[2] \in Nat /\ v[c[1]] \in Nat /\ v[c[1]] <= w[c[1]]
        /\ w[c[1]] \in Nat
    OBVIOUS
  <2> QED
    BY <2>1
<1>2. IsFiniteSet(Coins(w, T))
  BY CoinsFinite
<1> QED
  BY <1>1, <1>2, FS_Subset

---------------------------------------------------------------------------
(* Totals of weights that may be below zero.                               *)

Above(w, T) == [x \in T |-> IF w[x] > 0 THEN w[x] ELSE 0]
Below(w, T) == [x \in T |-> IF w[x] < 0 THEN -w[x] ELSE 0]
Weight(w, T) == Cardinality(Coins(Above(w, T), T)) - Cardinality(Coins(Below(w, T), T))

\* A family of subsets that has the empty one, and with a set all those of one more
\* element, has the whole set.
LEMMA SubsetInduction ==
  ASSUME NEW S, IsFiniteSet(S), NEW F, {} \in F,
         \A T \in SUBSET S : T \in F => \A x \in S \ T : T \cup {x} \in F
  PROVE  S \in F
<1> DEFINE G == {T \in SUBSET S : T \notin F}
<1>1. SUFFICES ASSUME G # {} PROVE FALSE
  OBVIOUS
<1>2. PICK U \in G : \A V \in G : ~(V \subseteq U /\ V # U)
  <2>1. G \subseteq SUBSET S
    OBVIOUS
  <2> HIDE DEF G
  <2> QED
    BY <1>1, <2>1, SmallestSubset
<1>3. PICK x \in U : TRUE
  BY <1>2
<1>4. U \ {x} \in F /\ U \ {x} \in SUBSET S /\ x \in S \ (U \ {x})
  BY <1>2, <1>3
<1>5. (U \ {x}) \cup {x} = U
  BY <1>3
<1> QED
  BY <1>2, <1>4, <1>5

LEMMA CoinsSame ==
  ASSUME NEW T, NEW v, NEW w, \A x \in T : v[x] = w[x]
  PROVE  Coins(v, T) = Coins(w, T)
<1>1. \A c \in T \X Nat : c[2] < v[c[1]] <=> c[2] < w[c[1]]
  OBVIOUS
<1> QED
  BY <1>1 DEF Coins

LEMMA WeightEmpty ==
  ASSUME NEW w
  PROVE  Weight(w, {}) = 0
<1>1. \A v : Coins(v, {}) = {}
  BY CoinsEmpty
<1>2. Cardinality({}) = 0
  BY FS_EmptySet
<1> QED
  BY <1>1, <1>2 DEF Weight

LEMMA WeightType ==
  ASSUME NEW S, IsFiniteSet(S), NEW w, \A x \in S : w[x] \in Int
  PROVE  Weight(w, S) \in Int
<1>1. \A x \in S : Above(w, S)[x] \in Nat /\ Below(w, S)[x] \in Nat
  BY DEF Above, Below
<1>2. IsFiniteSet(Coins(Above(w, S), S)) /\ IsFiniteSet(Coins(Below(w, S), S))
  BY <1>1, CoinsFinite
<1>3. Cardinality(Coins(Above(w, S), S)) \in Nat /\ Cardinality(Coins(Below(w, S), S)) \in Nat
  BY <1>2, FS_CardinalityType
<1> QED
  BY <1>3 DEF Weight

LEMMA WeightAdd ==
  ASSUME NEW T, IsFiniteSet(T), NEW x, x \notin T, NEW w, \A y \in T \cup {x} : w[y] \in Int
  PROVE  Weight(w, T \cup {x}) = Weight(w, T) + w[x]
<1> DEFINE U == T \cup {x}
           a == Above(w, U)
           b == Below(w, U)
<1>1. \A y \in U : a[y] \in Nat /\ b[y] \in Nat
  BY DEF Above, Below
<1>2. a[x] - b[x] = w[x]
  BY DEF Above, Below
<1>3. Coins(a, T) = Coins(Above(w, T), T) /\ Coins(b, T) = Coins(Below(w, T), T)
  <2>1. \A y \in T : a[y] = Above(w, T)[y] /\ b[y] = Below(w, T)[y]
    BY DEF Above, Below
  <2> QED
    BY <2>1, CoinsSame
<1> HIDE DEF a, b
<1>4. IsFiniteSet(Coins(a, T)) /\ IsFiniteSet(Coins(b, T))
  BY <1>1, CoinsFinite
<1>5. /\ Cardinality(Coins(a, U)) = Cardinality(Coins(a, T)) + a[x]
      /\ Cardinality(Coins(b, U)) = Cardinality(Coins(b, T)) + b[x]
  BY <1>1, <1>4, CoinsAdd
<1>6. Cardinality(Coins(a, T)) \in Nat /\ Cardinality(Coins(b, T)) \in Nat
  BY <1>4, FS_CardinalityType
<1>7. Weight(w, U) = Cardinality(Coins(a, U)) - Cardinality(Coins(b, U))
  BY DEF Weight, a, b
<1>8. Weight(w, T) = Cardinality(Coins(a, T)) - Cardinality(Coins(b, T))
  BY <1>3 DEF Weight
<1>9. a[x] \in Nat /\ b[x] \in Nat /\ w[x] \in Int
  BY <1>1
<1> HIDE DEF U
<1>10. Weight(w, U) = Weight(w, T) + w[x]
  BY <1>2, <1>5, <1>6, <1>7, <1>8, <1>9
<1> QED
  BY <1>10 DEF U

LEMMA WeightRemove ==
  ASSUME NEW S, IsFiniteSet(S), NEW x \in S, NEW w, \A y \in S : w[y] \in Int
  PROVE  Weight(w, S) = Weight(w, S \ {x}) + w[x]
<1>1. IsFiniteSet(S \ {x})
  BY FS_Subset
<1>2. (S \ {x}) \cup {x} = S
  OBVIOUS
<1> DEFINE T == S \ {x}
<1>3. x \notin T /\ \A y \in T \cup {x} : w[y] \in Int
  OBVIOUS
<1> HIDE DEF T
<1>4. Weight(w, T \cup {x}) = Weight(w, T) + w[x]
  BY <1>1, <1>3, WeightAdd DEF T
<1> QED
  BY <1>2, <1>4 DEF T

\* A fold is a sum whichever element it takes next.
Sums(g, w, S) ==
    \A s \in SUBSET S : IF s = {} THEN g[s] = 0
                        ELSE \E x \in s : g[s] = w[x] + g[s \ {x}]

LEMMA SumIsWeight ==
  ASSUME NEW S, IsFiniteSet(S), NEW w, \A x \in S : w[x] \in Int, NEW g, Sums(g, w, S)
  PROVE  g[S] = Weight(w, S)
<1> DEFINE G == {T \in SUBSET S : g[T] # Weight(w, T)}
<1>1. SUFFICES ASSUME G # {} PROVE FALSE
  OBVIOUS
<1>2. PICK U \in G : \A V \in G : ~(V \subseteq U /\ V # U)
  <2>1. G \subseteq SUBSET S
    OBVIOUS
  <2> HIDE DEF G
  <2> QED
    BY <1>1, <2>1, SmallestSubset
<1>3. U # {}
  BY <1>2, WeightEmpty DEF Sums
<1>4. PICK x \in U : g[U] = w[x] + g[U \ {x}]
  BY <1>2, <1>3 DEF Sums
<1>5. g[U \ {x}] = Weight(w, U \ {x})
  BY <1>2, <1>4
<1>6. IsFiniteSet(U) /\ \A y \in U : w[y] \in Int
  BY <1>2, FS_Subset
<1>7. Weight(w, U) = Weight(w, U \ {x}) + w[x]
  BY <1>6, WeightRemove
<1>8. Weight(w, U \ {x}) \in Int
  <2>1. IsFiniteSet(U \ {x})
    BY <1>6, FS_Subset
  <2> QED
    BY <1>6, <2>1, WeightType
<1> QED
  BY <1>2, <1>4, <1>5, <1>6, <1>7, <1>8

\* The totals of the subsets are what the fold of a sum asks for.
LEMMA WeightChoice ==
  ASSUME NEW S, IsFiniteSet(S), NEW w, \A x \in S : w[x] \in Int, NEW s \in SUBSET S, NEW c \in s
  PROVE  w[c] + Weight(w, s \ {c}) = Weight(w, s)
<1>1. IsFiniteSet(s) /\ \A y \in s : w[y] \in Int
  BY FS_Subset
<1>2. Weight(w, s) = Weight(w, s \ {c}) + w[c]
  BY <1>1, WeightRemove
<1>3. Weight(w, s \ {c}) \in Int
  <2>1. IsFiniteSet(s \ {c})
    BY <1>1, FS_Subset
  <2> QED
    BY <1>1, <2>1, WeightType
<1> QED
  BY <1>1, <1>2, <1>3

LEMMA WeightSame ==
  ASSUME NEW S, NEW v, NEW w, \A x \in S : v[x] = w[x]
  PROVE  Weight(v, S) = Weight(w, S)
<1>1. \A x \in S : Above(v, S)[x] = Above(w, S)[x] /\ Below(v, S)[x] = Below(w, S)[x]
  BY DEF Above, Below
<1>2. Coins(Above(v, S), S) = Coins(Above(w, S), S) /\ Coins(Below(v, S), S) = Coins(Below(w, S), S)
  BY <1>1, CoinsSame
<1> QED
  BY <1>2 DEF Weight

\* What MapThenSumSet chooses for the weights w.
LEMMA ChosenWeight ==
  ASSUME NEW S, IsFiniteSet(S), NEW w, \A x \in S : w[x] \in Int
  PROVE  /\ \E g : IsSum(g, w, S)
         /\ \A g : IsSum(g, w, S) => g[S] = Weight(w, S)
<1> DEFINE h == [T \in SUBSET S |-> Weight(w, T)]
           Choice(s) == CHOOSE x \in s : TRUE
<1>1. \A s \in SUBSET S : s # {} => Choice(s) \in s
  OBVIOUS
<1>2. ASSUME NEW s \in SUBSET S
      PROVE  h[s] = IF s = {} THEN 0 ELSE w[Choice(s)] + h[s \ {Choice(s)}]
  <2>1. CASE s = {}
    BY <2>1, WeightEmpty
  <2>2. CASE s # {}
    <3> DEFINE c == Choice(s)
    <3>1. c \in s
      BY <1>1, <2>2
    <3> HIDE DEF c
    <3>2. w[c] + Weight(w, s \ {c}) = Weight(w, s)
      BY <3>1, WeightChoice
    <3>3. h[s] = w[c] + h[s \ {c}]
      BY <3>1, <3>2
    <3> QED
      BY <3>3, <2>2 DEF c
  <2> QED
    BY <2>1, <2>2
<1>3. IsSum(h, w, S)
  BY <1>2 DEF IsSum
<1>4. ASSUME NEW g, IsSum(g, w, S)
      PROVE  g[S] = Weight(w, S)
  <2>1. \A s \in SUBSET S : g[s] = IF s = {} THEN 0 ELSE w[Choice(s)] + g[s \ {Choice(s)}]
    BY <1>4 DEF IsSum
  <2> HIDE DEF Choice
  <2>2. Sums(g, w, S)
    BY <1>1, <2>1 DEF Sums
  <2> QED
    BY <2>2, SumIsWeight
<1> QED
  BY <1>3, <1>4

LEMMA WeightUnion ==
  ASSUME NEW S, IsFiniteSet(S), NEW T, IsFiniteSet(T), S \cap T = {},
         NEW w, \A x \in S \cup T : w[x] \in Int
  PROVE  Weight(w, S \cup T) = Weight(w, S) + Weight(w, T)
<1> DEFINE F == {U \in SUBSET T : Weight(w, S \cup U) = Weight(w, S) + Weight(w, U)}
<1>1. Weight(w, S) \in Int
  BY WeightType
<1>2. {} \in F
  <2>1. Weight(w, {}) = 0 /\ S \cup {} = S
    BY WeightEmpty
  <2> QED
    BY <1>1, <2>1
<1>3. ASSUME NEW U \in SUBSET T, U \in F, NEW x \in T \ U
      PROVE  U \cup {x} \in F
  <2>1. IsFiniteSet(U) /\ IsFiniteSet(S \cup U)
    BY FS_Subset, FS_Union
  <2>2. \A y \in U \cup {x} : w[y] \in Int
    OBVIOUS
  <2>3. x \notin U /\ x \notin S \cup U /\ \A y \in (S \cup U) \cup {x} : w[y] \in Int
    OBVIOUS
  <2>4. Weight(w, U \cup {x}) = Weight(w, U) + w[x]
    BY <2>1, <2>2, <2>3, WeightAdd
  <2>5. Weight(w, (S \cup U) \cup {x}) = Weight(w, S \cup U) + w[x]
    <3> DEFINE V == S \cup U
    <3>1. IsFiniteSet(V) /\ x \notin V /\ \A y \in V \cup {x} : w[y] \in Int
      BY <2>1, <2>3
    <3> HIDE DEF V
    <3>2. Weight(w, V \cup {x}) = Weight(w, V) + w[x]
      BY <3>1, WeightAdd
    <3> QED
      BY <3>2 DEF V
  <2>6. Weight(w, U) \in Int /\ w[x] \in Int
    BY <2>1, <2>2, WeightType
  <2>7. (S \cup U) \cup {x} = S \cup (U \cup {x}) /\ U \cup {x} \in SUBSET T
    OBVIOUS
  <2>8. Weight(w, S \cup U) = Weight(w, S) + Weight(w, U)
    BY <1>3
  <2>9. Weight(w, (S \cup U) \cup {x}) = Weight(w, S) + Weight(w, U \cup {x})
    BY <1>1, <2>4, <2>5, <2>6, <2>8
  <2>10. Weight(w, S \cup (U \cup {x})) = Weight(w, S) + Weight(w, U \cup {x})
    BY Zenon, <2>7, <2>9
  <2> QED
    BY <2>7, <2>10
<1> HIDE DEF F
<1>4. T \in F
  BY <1>2, <1>3, SubsetInduction
<1> QED
  BY <1>4 DEF F

LEMMA WeightPlus ==
  ASSUME NEW S, IsFiniteSet(S), NEW u, NEW v, NEW w,
         \A x \in S : v[x] \in Int /\ w[x] \in Int /\ u[x] = v[x] + w[x]
  PROVE  Weight(u, S) = Weight(v, S) + Weight(w, S)
<1> DEFINE F == {U \in SUBSET S : Weight(u, U) = Weight(v, U) + Weight(w, U)}
<1>1. {} \in F
  BY WeightEmpty
<1>2. ASSUME NEW U \in SUBSET S, U \in F, NEW x \in S \ U
      PROVE  U \cup {x} \in F
  <2>1. IsFiniteSet(U)
    BY FS_Subset
  <2>2. \A y \in U \cup {x} : v[y] \in Int /\ w[y] \in Int /\ u[y] \in Int
    OBVIOUS
  <2>3. /\ Weight(u, U \cup {x}) = Weight(u, U) + u[x]
        /\ Weight(v, U \cup {x}) = Weight(v, U) + v[x]
        /\ Weight(w, U \cup {x}) = Weight(w, U) + w[x]
    BY <2>1, <2>2, WeightAdd
  <2>4. Weight(v, U) \in Int /\ Weight(w, U) \in Int
    BY <2>1, <2>2, WeightType
  <2>5. Weight(u, U) = Weight(v, U) + Weight(w, U) /\ v[x] \in Int /\ w[x] \in Int /\ u[x] = v[x] + w[x]
    BY <1>2
  <2>6. Weight(u, U \cup {x}) = Weight(v, U \cup {x}) + Weight(w, U \cup {x})
    BY <2>3, <2>4, <2>5
  <2> QED
    BY <2>6
<1> HIDE DEF F
<1>3. S \in F
  BY <1>1, <1>2, SubsetInduction
<1> QED
  BY <1>3 DEF F

LEMMA WeightOnes ==
  ASSUME NEW S, IsFiniteSet(S), NEW w, \A x \in S : w[x] = 1
  PROVE  Weight(w, S) = Cardinality(S)
<1> DEFINE F == {U \in SUBSET S : Weight(w, U) = Cardinality(U)}
<1>1. {} \in F
  BY WeightEmpty, FS_EmptySet
<1>2. ASSUME NEW U \in SUBSET S, U \in F, NEW x \in S \ U
      PROVE  U \cup {x} \in F
  <2>1. IsFiniteSet(U)
    BY FS_Subset
  <2>2. x \notin U /\ \A y \in U \cup {x} : w[y] \in Int
    OBVIOUS
  <2>3. Weight(w, U \cup {x}) = Weight(w, U) + 1
    BY <2>1, <2>2, WeightAdd
  <2>4. Cardinality(U \cup {x}) = Cardinality(U) + 1
    BY <2>1, <2>2, FS_AddElement
  <2> QED
    BY <1>2, <2>3, <2>4
<1> HIDE DEF F
<1>3. S \in F
  BY <1>1, <1>2, SubsetInduction
<1> QED
  BY <1>3 DEF F

LEMMA WeightZero ==
  ASSUME NEW S, IsFiniteSet(S), NEW w, \A x \in S : w[x] = 0
  PROVE  Weight(w, S) = 0
<1> DEFINE F == {U \in SUBSET S : Weight(w, U) = 0}
<1>1. {} \in F
  BY WeightEmpty
<1>2. ASSUME NEW U \in SUBSET S, U \in F, NEW x \in S \ U
      PROVE  U \cup {x} \in F
  <2>1. IsFiniteSet(U)
    BY FS_Subset
  <2>2. x \notin U /\ \A y \in U \cup {x} : w[y] \in Int
    OBVIOUS
  <2>3. Weight(w, U \cup {x}) = Weight(w, U) + w[x]
    BY <2>1, <2>2, WeightAdd
  <2> QED
    BY <1>2, <2>3
<1> HIDE DEF F
<1>3. S \in F
  BY <1>1, <1>2, SubsetInduction
<1> QED
  BY <1>3 DEF F

\* What weighs nothing can be left out.
LEMMA WeightOfPart ==
  ASSUME NEW T, IsFiniteSet(T), NEW S, S \subseteq T,
         NEW w, \A x \in T : w[x] \in Int, \A x \in T \ S : w[x] = 0
  PROVE  Weight(w, S) = Weight(w, T)
<1> DEFINE R == T \ S
<1>1. IsFiniteSet(S) /\ IsFiniteSet(R)
  BY FS_Subset
<1>2. S \cap R = {} /\ S \cup R = T /\ \A x \in S \cup R : w[x] \in Int
  OBVIOUS
<1>3. Weight(w, R) = 0
  BY <1>1, WeightZero
<1> HIDE DEF R
<1>4. Weight(w, S \cup R) = Weight(w, S) + Weight(w, R)
  BY <1>1, <1>2, WeightUnion
<1>5. Weight(w, S) \in Int
  BY <1>1, <1>2, WeightType
<1>6. Weight(w, T) = Weight(w, S) + Weight(w, R)
  BY Zenon, <1>2, <1>4
<1> QED
  BY <1>3, <1>5, <1>6

LEMMA WeightPositive ==
  ASSUME NEW S, IsFiniteSet(S), NEW w, \A x \in S : w[x] \in Int /\ w[x] >= 0
  PROVE  Weight(w, S) \in Nat
<1> DEFINE F == {U \in SUBSET S : Weight(w, U) \in Nat}
<1>1. {} \in F
  BY WeightEmpty
<1>2. ASSUME NEW U \in SUBSET S, U \in F, NEW x \in S \ U
      PROVE  U \cup {x} \in F
  <2>1. IsFiniteSet(U)
    BY FS_Subset
  <2>2. x \notin U /\ \A y \in U \cup {x} : w[y] \in Int
    OBVIOUS
  <2>3. Weight(w, U \cup {x}) = Weight(w, U) + w[x]
    BY <2>1, <2>2, WeightAdd
  <2> QED
    BY <1>2, <2>3
<1> HIDE DEF F
<1>3. S \in F
  BY <1>1, <1>2, SubsetInduction
<1> QED
  BY <1>3 DEF F

\* Fewer of what weighs something weigh less.
LEMMA WeightOfFewer ==
  ASSUME NEW T, IsFiniteSet(T), NEW S, S \subseteq T, S # T,
         NEW w, \A x \in T : w[x] \in Int /\ w[x] > 0
  PROVE  Weight(w, S) < Weight(w, T)
<1>1. PICK x \in T : x \notin S
  OBVIOUS
<1> DEFINE U == T \ {x}
           R == U \ S
<1>2. IsFiniteSet(S) /\ IsFiniteSet(U) /\ IsFiniteSet(R)
  BY FS_Subset
<1>3. S \cap R = {} /\ S \cup R = U /\ \A y \in S \cup R : w[y] \in Int
  BY <1>1
<1>4. \A y \in R : w[y] \in Int /\ w[y] >= 0
  OBVIOUS
<1>5. Weight(w, T) = Weight(w, U) + w[x]
  BY WeightRemove
<1> HIDE DEF R, U
<1>6. Weight(w, S \cup R) = Weight(w, S) + Weight(w, R)
  BY <1>2, <1>3, WeightUnion
<1>7. Weight(w, R) \in Nat
  BY <1>2, <1>4, WeightPositive
<1>8. Weight(w, S) \in Int
  BY <1>2, <1>3, WeightType
<1> QED
  BY <1>3, <1>5, <1>6, <1>7, <1>8

\* The elements one by one, under other names.
Renames(h, S, J) ==
    /\ \A x, y \in S : h[x] = h[y] => x = y
    /\ J = {h[x] : x \in S}

LEMMA WeightOfImage ==
  ASSUME NEW S, IsFiniteSet(S), NEW h, NEW J, Renames(h, S, J),
         NEW v, NEW w, \A x \in S : v[x] \in Int /\ w[h[x]] = v[x]
  PROVE  /\ IsFiniteSet(J)
         /\ Weight(w, J) = Weight(v, S)
<1> DEFINE Image(U) == {h[x] : x \in U}
           F == {U \in SUBSET S : IsFiniteSet(Image(U)) /\ Weight(w, Image(U)) = Weight(v, U)}
<1>1. {} \in F
  <2>1. Image({}) = {}
    OBVIOUS
  <2>2. IsFiniteSet({}) /\ Weight(w, {}) = 0 /\ Weight(v, {}) = 0
    BY WeightEmpty, FS_EmptySet
  <2> HIDE DEF Image
  <2> QED
    BY <2>1, <2>2
<1>2. ASSUME NEW U \in SUBSET S, U \in F, NEW x \in S \ U
      PROVE  U \cup {x} \in F
  <2>1. IsFiniteSet(U)
    BY FS_Subset
  <2>2. x \notin U /\ \A y \in U \cup {x} : v[y] \in Int
    OBVIOUS
  <2>3. Weight(v, U \cup {x}) = Weight(v, U) + v[x]
    BY <2>1, <2>2, WeightAdd
  <2>4. Image(U \cup {x}) = Image(U) \cup {h[x]}
    OBVIOUS
  <2>5. h[x] \notin Image(U)
    BY DEF Renames
  <2>6. \A y \in Image(U) \cup {h[x]} : w[y] \in Int
    OBVIOUS
  <2>7. IsFiniteSet(Image(U)) /\ Weight(w, Image(U)) = Weight(v, U)
    BY <1>2
  <2> HIDE DEF Image
  <2>8. IsFiniteSet(Image(U) \cup {h[x]})
    BY <2>7, FS_AddElement
  <2>9. Weight(w, Image(U) \cup {h[x]}) = Weight(w, Image(U)) + w[h[x]]
    <3> DEFINE I == Image(U)
               y == h[x]
    <3>1. IsFiniteSet(I) /\ y \notin I /\ \A z \in I \cup {y} : w[z] \in Int
      BY <2>5, <2>6, <2>7
    <3> HIDE DEF I, y
    <3>2. Weight(w, I \cup {y}) = Weight(w, I) + w[y]
      BY <3>1, WeightAdd
    <3> QED
      BY <3>2 DEF I, y
  <2>10. w[h[x]] = v[x]
    OBVIOUS
  <2>11. Weight(w, Image(U) \cup {h[x]}) = Weight(v, U \cup {x})
    BY Zenon, <2>3, <2>7, <2>9, <2>10
  <2> QED
    BY <2>4, <2>8, <2>11
<1> HIDE DEF F
<1>3. S \in F
  BY <1>1, <1>2, SubsetInduction
<1>4. J = Image(S)
  BY DEF Renames
<1> QED
  BY <1>3, <1>4 DEF F

\* The parts of a set: every element in one of them, and in no other.
Splits(P, K, S) ==
    /\ \A a \in K : P[a] \subseteq S
    /\ \A x \in S : \E a \in K : x \in P[a]
    /\ \A a, b \in K : a # b => P[a] \cap P[b] = {}

\* A set is as heavy as its parts together.
LEMMA WeightOfParts ==
  ASSUME NEW S, IsFiniteSet(S), NEW K, IsFiniteSet(K), NEW P, Splits(P, K, S),
         NEW w, \A x \in S : w[x] \in Int,
         NEW v, \A a \in K : v[a] = Weight(w, P[a])
  PROVE  Weight(v, K) = Weight(w, S)
<1> DEFINE Part(U) == {x \in S : \E a \in U : x \in P[a]}
           F == {U \in SUBSET K : Weight(v, U) = Weight(w, Part(U))}
<1>1. {} \in F
  <2>1. Part({}) = {}
    OBVIOUS
  <2> HIDE DEF Part
  <2> QED
    BY <2>1, WeightEmpty
<1>2. ASSUME NEW U \in SUBSET K
      PROVE  /\ IsFiniteSet(U) /\ IsFiniteSet(Part(U))
             /\ \A x \in Part(U) : w[x] \in Int
  BY FS_Subset
<1>3. ASSUME NEW a \in K
      PROVE  IsFiniteSet(P[a]) /\ v[a] = Weight(w, P[a]) /\ v[a] \in Int
  <2>1. P[a] \in SUBSET S
    BY DEF Splits
  <2>2. IsFiniteSet(P[a]) /\ \A x \in P[a] : w[x] \in Int
    BY <2>1, FS_Subset
  <2> QED
    BY <2>2, WeightType
<1>4. ASSUME NEW U \in SUBSET K, U \in F, NEW a \in K \ U
      PROVE  U \cup {a} \in F
  <2>1. Part(U \cup {a}) = Part(U) \cup P[a]
    BY DEF Splits
  <2>2. Part(U) \cap P[a] = {}
    BY DEF Splits
  <2>3. \A x \in Part(U) \cup P[a] : w[x] \in Int
    BY DEF Splits
  <2>4. Weight(v, U) = Weight(w, Part(U))
    BY <1>4
  <2> HIDE DEF Part
  <2>5. Weight(w, Part(U) \cup P[a]) = Weight(w, Part(U)) + Weight(w, P[a])
    BY <1>2, <1>3, <2>2, <2>3, WeightUnion
  <2>6. Weight(v, U \cup {a}) = Weight(v, U) + v[a]
    <3>1. a \notin U /\ \A b \in U \cup {a} : v[b] \in Int
      BY <1>3
    <3> QED
      BY <1>2, <3>1, WeightAdd
  <2>7. Weight(v, U \cup {a}) = Weight(w, Part(U \cup {a}))
    BY <1>3, <2>1, <2>4, <2>5, <2>6
  <2> QED
    BY <2>7
<1>5. Part(K) = S
  BY DEF Splits
<1> HIDE DEF F
<1>6. K \in F
  BY <1>1, <1>4, SubsetInduction
<1> QED
  BY <1>5, <1>6 DEF F

\* ... and has as many elements as its parts together.
LEMMA CountOfParts ==
  ASSUME NEW S, IsFiniteSet(S), NEW K, IsFiniteSet(K), NEW P, Splits(P, K, S),
         NEW v, \A a \in K : v[a] = Cardinality(P[a])
  PROVE  Weight(v, K) = Cardinality(S)
<1> DEFINE w == [x \in S |-> 1]
<1>1. \A x \in S : w[x] = 1 /\ w[x] \in Int
  OBVIOUS
<1> HIDE DEF w
<1>2. ASSUME NEW a \in K
      PROVE  v[a] = Weight(w, P[a])
  <2>1. P[a] \in SUBSET S
    BY DEF Splits
  <2>2. IsFiniteSet(P[a]) /\ \A x \in P[a] : w[x] = 1
    BY <1>1, <2>1, FS_Subset
  <2> QED
    BY <2>2, WeightOnes
<1>3. Weight(w, S) = Cardinality(S)
  BY <1>1, WeightOnes
<1>4. Weight(v, K) = Weight(w, S)
  <2>1. \A x \in S : w[x] \in Int
    BY <1>1
  <2> QED
    BY <1>2, <2>1, WeightOfParts
<1> QED
  BY <1>3, <1>4

\* A finite set has an element with the least number.
LEMMA SomeLeast ==
  ASSUME NEW S, IsFiniteSet(S), S # {}, NEW k, \A x \in S : k[x] \in Int
  PROVE  \E x \in S : \A y \in S : k[x] <= k[y]
<1> DEFINE F == {U \in SUBSET S : U = {} \/ \E x \in U : \A y \in U : k[x] <= k[y]}
<1>1. {} \in F
  OBVIOUS
<1>2. ASSUME NEW U \in SUBSET S, U \in F, NEW z \in S \ U
      PROVE  U \cup {z} \in F
  <2>1. CASE U = {}
    <3>1. \A y \in U \cup {z} : k[z] <= k[y]
      BY <2>1
    <3> QED
      BY <3>1
  <2>2. CASE U # {}
    <3>1. PICK x \in U : \A y \in U : k[x] <= k[y]
      BY <1>2, <2>2
    <3>2. CASE k[x] <= k[z]
      <4>1. \A y \in U \cup {z} : k[x] <= k[y]
        BY <3>1, <3>2
      <4> QED
        BY <4>1
    <3>3. CASE k[z] < k[x]
      <4>1. \A y \in U \cup {z} : k[z] <= k[y]
        BY <3>1, <3>3
      <4> QED
        BY <4>1
    <3> QED
      BY <3>2, <3>3
  <2> QED
    BY <2>1, <2>2
<1> HIDE DEF F
<1>3. S \in F
  BY <1>1, <1>2, SubsetInduction
<1> QED
  BY <1>3 DEF F

\* Renaming changes no count.
LEMMA CountOfImage ==
  ASSUME NEW S, IsFiniteSet(S), NEW h, NEW J, Renames(h, S, J)
  PROVE  IsFiniteSet(J) /\ Cardinality(J) = Cardinality(S)
<1> DEFINE v == [x \in S |-> 1]
           w == [y \in J |-> 1]
<1>1. \A x \in S : h[x] \in J
  BY DEF Renames
<1>2. (\A x \in S : v[x] = 1) /\ \A y \in J : w[y] = 1
  OBVIOUS
<1> HIDE DEF v, w
<1>3. \A x \in S : v[x] \in Int /\ w[h[x]] = v[x]
  BY <1>1, <1>2
<1>4. IsFiniteSet(J) /\ Weight(w, J) = Weight(v, S)
  BY <1>3, WeightOfImage
<1>5. Weight(w, J) = Cardinality(J) /\ Weight(v, S) = Cardinality(S)
  BY <1>2, <1>4, WeightOnes
<1> QED
  BY <1>4, <1>5

\* below[x] is what comes before x in an order in which no two elements tie.
Orders(below, S) ==
    /\ \A x \in S : below[x] \subseteq S /\ x \notin below[x]
    /\ \A x, y \in S : x # y => x \in below[y] \/ y \in below[x]
    /\ \A x, y \in S : x \in below[y] => below[x] \subseteq below[y]

\* Counting what comes before each element numbers them from zero, in order.
LEMMA RanksAre ==
  ASSUME NEW S, IsFiniteSet(S), NEW below, Orders(below, S)
  PROVE  /\ \A x \in S : Cardinality(below[x]) \in 0..(Cardinality(S) - 1)
         /\ \A x, y \in S : Cardinality(below[x]) = Cardinality(below[y]) => x = y
         /\ \A x, y \in S : x \in below[y] => Cardinality(below[x]) < Cardinality(below[y])
         /\ \A i \in 0..(Cardinality(S) - 1) : \E x \in S : Cardinality(below[x]) = i
<1> DEFINE rank == [x \in S |-> Cardinality(below[x])]
           n == Cardinality(S)
           J == {rank[x] : x \in S}
<1>1. n \in Nat
  BY FS_CardinalityType
<1>2. \A x \in S : /\ rank[x] = Cardinality(below[x])
                   /\ IsFiniteSet(below[x]) /\ rank[x] \in Nat
                   /\ below[x] \subseteq S /\ x \notin below[x]
  <2>1. \A x \in S : below[x] \in SUBSET S /\ x \notin below[x]
    BY DEF Orders
  <2> QED
    BY <2>1, FS_Subset, FS_CardinalityType
<1>3. ASSUME NEW x \in S, NEW y, IsFiniteSet(y), below[x] \subseteq y, x \in y
      PROVE  rank[x] < Cardinality(y)
  <2> DEFINE b == below[x]
             c == b \cup {x}
  <2>1. IsFiniteSet(b) /\ x \notin b /\ c \in SUBSET y /\ rank[x] = Cardinality(b) /\ rank[x] \in Nat
    BY <1>2, <1>3
  <2> HIDE DEF b, rank
  <2>2. Cardinality(c) = Cardinality(b) + 1
    BY <2>1, FS_AddElement
  <2> HIDE DEF c
  <2>3. Cardinality(c) <= Cardinality(y) /\ Cardinality(y) \in Nat
    BY <1>3, <2>1, FS_Subset, FS_CardinalityType
  <2> QED
    BY <2>1, <2>2, <2>3
<1>4. \A x \in S : rank[x] < n
  BY <1>2, <1>3
<1>5. \A x, y \in S : x \in below[y] => rank[x] < rank[y]
  <2> SUFFICES ASSUME NEW x \in S, NEW y \in S, x \in below[y]
               PROVE  rank[x] < rank[y]
    OBVIOUS
  <2>1. below[x] \subseteq below[y]
    BY DEF Orders
  <2>2. IsFiniteSet(below[y]) /\ rank[y] = Cardinality(below[y])
    BY <1>2
  <2> HIDE DEF rank
  <2> QED
    BY <1>3, <2>1, <2>2
<1>6. \A x, y \in S : rank[x] = rank[y] => x = y
  <2>1. \A x, y \in S : x # y => x \in below[y] \/ y \in below[x]
    BY DEF Orders
  <2> HIDE DEF rank
  <2> QED
    BY <1>2, <1>5, <2>1
<1> HIDE DEF rank, n
<1>7. J \subseteq 0..(n - 1)
  BY <1>1, <1>2, <1>4
<1>8. J = 0..(n - 1)
  <2>1. Renames(rank, S, J)
    BY <1>6 DEF Renames
  <2>2. Cardinality(J) = n
    BY <2>1, CountOfImage DEF n
  <2>3. IsFiniteSet(0..(n - 1)) /\ Cardinality(0..(n - 1)) = n
    BY <1>1, FS_Interval
  <2> HIDE DEF J
  <2> QED
    BY <1>7, <2>2, <2>3, FS_Subset
<1>9. \A i \in 0..(n - 1) : \E x \in S : rank[x] = i
  BY <1>8
<1>10. \A x \in S : rank[x] \in 0..(n - 1)
  BY <1>7
<1> HIDE DEF J
<1> QED
  BY <1>2, <1>5, <1>6, <1>9, <1>10 DEF n

\* The first k of a set are k elements of it, or all of them if there are fewer.
LEMMA CountOfFirst ==
  ASSUME NEW S, IsFiniteSet(S), NEW below, Orders(below, S), NEW k \in Nat
  PROVE  LET T == {x \in S : Cardinality(below[x]) < k} IN
         /\ IsFiniteSet(T)
         /\ Cardinality(T) = IF Cardinality(S) < k THEN Cardinality(S) ELSE k
<1> DEFINE rank == [x \in S |-> Cardinality(below[x])]
           n == Cardinality(S)
           T == {x \in S : Cardinality(below[x]) < k}
           m == IF n < k THEN n ELSE k
<1>1. n \in Nat
  BY FS_CardinalityType
<1>2. \A x \in S : rank[x] = Cardinality(below[x])
  OBVIOUS
<1> HIDE DEF rank
<1>3. /\ \A x \in S : rank[x] \in 0..(n - 1)
      /\ \A x, y \in S : rank[x] = rank[y] => x = y
      /\ \A i \in 0..(n - 1) : \E x \in S : rank[x] = i
  BY <1>2, RanksAre
<1> HIDE DEF n
<1>4. m \in Nat /\ m <= n /\ (\A i \in 0..(n - 1) : i < k <=> i < m)
  BY <1>1
<1>5. T \subseteq S /\ T = {x \in S : rank[x] < k}
  BY <1>2
<1> HIDE DEF T, m
<1>6. 0..(m - 1) = {rank[x] : x \in T}
  <2>1. \A x \in T : rank[x] \in 0..(m - 1)
    BY <1>3, <1>4, <1>5
  <2>2. \A i \in 0..(m - 1) : i \in 0..(n - 1) /\ i < k
    BY <1>1, <1>4
  <2>3. \A i \in 0..(m - 1) : \E x \in T : rank[x] = i
    BY <1>3, <1>5, <2>2
  <2> QED
    BY <2>1, <2>3
<1>7. Renames(rank, T, 0..(m - 1))
  BY <1>3, <1>5, <1>6 DEF Renames
<1>8. IsFiniteSet(T)
  BY <1>5, FS_Subset
<1>9. Cardinality(0..(m - 1)) = Cardinality(T)
  BY <1>7, <1>8, CountOfImage
<1>10. Cardinality(0..(m - 1)) = m
  BY <1>4, FS_Interval
<1> QED
  BY <1>8, <1>9, <1>10 DEF T, m, n

\* Induction up to a bound: what holds at zero, and after a number it holds at.
LEMMA UpTo ==
  ASSUME NEW k \in Nat, NEW F, 0 \in F, \A i \in 0..(k - 1) : i \in F => i + 1 \in F
  PROVE  \A i \in 0..k : i \in F
<1> DEFINE S == {i \in 0..k : i \notin F}
           id == [i \in S |-> i]
<1> SUFFICES ASSUME S # {} PROVE FALSE
  OBVIOUS
<1>1. IsFiniteSet(S)
  <2>1. IsFiniteSet(0..k)
    BY FS_Interval
  <2> QED
    BY <2>1, FS_Subset
<1>2. \A i \in S : i \in 0..k /\ i \notin F /\ id[i] = i /\ id[i] \in Int
  OBVIOUS
<1>3. \A i \in 0..k : i \notin F => i \in S
  OBVIOUS
<1> HIDE DEF S, id
<1>4. PICK i \in S : \A j \in S : id[i] <= id[j]
  BY <1>1, <1>2, SomeLeast
<1>5. i \in 0..k /\ i \notin F /\ \A j \in S : i <= j
  BY <1>2, <1>4
<1>6. i # 0
  BY <1>5
<1>7. i - 1 \in 0..(k - 1) /\ i - 1 \notin S
  BY <1>5, <1>6
<1>8. i - 1 \in F
  BY <1>3, <1>7
<1>9. (i - 1) + 1 \in F
  BY <1>7, <1>8
<1> QED
  BY <1>5, <1>9
=============================================================================
