--------------------------- MODULE V4Quote_proofs ---------------------------
(***************************************************************************)
(* The invariants of V4Quote, proved for every tick range, word size, tick *)
(* spacing, history of liquidity changes and outcome of a swap step.       *)
(*                                                                         *)
(*   1. sums over finite sets, by induction over the subsets of the set;   *)
(*   2. the netted ranges: the liquidity at a tick is that of the history, *)
(*      changes by the net amount of an initialized tick and nowhere else; *)
(*   3. greatest and least elements, and the words of the tick bitmap;     *)
(*   4. the next tick of a swap: nothing initialized lies before it;       *)
(*   5. the invariant: the liquidity in use is that of the current tick,   *)
(*      and each iteration passed an initialized tick or a word.           *)
(***************************************************************************)
EXTENDS V4Quote, FiniteSetTheorems, TLAPS

(***************************************************************************)
(* Sums.                                                                   *)
(***************************************************************************)
(* A nonempty set of finite sets has a member without smaller ones in it.  *)
LEMMA SmallestSubset ==
  ASSUME NEW S, IsFiniteSet(S), NEW B, B \subseteq SUBSET S, B # {}
  PROVE  \E s \in B : \A t \in B : t \subseteq s => t = s
<1>1. IsWellFoundedOn(StrictSubsetOrdering(S), SUBSET S)
  BY FS_StrictSubsetOrderingWellFounded, FS_FiniteSubsetsOfFinite
<1>2. PICK s \in B : \A t \in B : <<t, s>> \notin StrictSubsetOrdering(S)
  BY <1>1, WFMin
<1>. QED
  BY <1>2 DEF StrictSubsetOrdering

(* Induction over a finite set: a set of its subsets that holds the empty  *)
(* one, and each of which some element can be taken to get another member, *)
(* holds all.                                                              *)
LEMMA SubsetInduction ==
  ASSUME NEW S, IsFiniteSet(S), NEW G,
         {} \in G,
         \A T \in SUBSET S : \A x \in T : T \ {x} \in G => T \in G
  PROVE  S \in G
<1> DEFINE B == {T \in SUBSET S : T \notin G}
<1>1. SUFFICES ASSUME B # {} PROVE FALSE
  OBVIOUS
<1>2. PICK T \in B : \A U \in B : U \subseteq T => U = T
  <2>1. B \subseteq SUBSET S
    OBVIOUS
  <2> HIDE DEF B
  <2>. QED
    BY <1>1, <2>1, SmallestSubset
<1>3. PICK x \in T : TRUE
  OBVIOUS
<1>4. T \ {x} \notin B
  BY <1>2, <1>3
<1>. QED
  BY <1>3, <1>4

(* The equation of the sum's recursion, on the subsets of T.               *)
Solves(g, f, T) ==
    g = [s \in SUBSET T |->
           IF s = {} THEN 0
           ELSE LET x == CHOOSE x \in s : TRUE IN f[x] + g[s \ {x}]]

(* Two solutions agree on every finite set both cover.                     *)
LEMMA SolutionsAgree ==
  ASSUME NEW S, IsFiniteSet(S), NEW f, NEW T, NEW U, NEW g, NEW h,
         S \subseteq T, S \subseteq U, Solves(g, f, T), Solves(h, f, U)
  PROVE  g[S] = h[S]
<1> DEFINE c(s) == CHOOSE x \in s : TRUE
           G == {s \in SUBSET S : g[s] = h[s]}
           B == {s \in SUBSET S : g[s] # h[s]}
<1>1. \A s \in SUBSET S :
        /\ g[s] = IF s = {} THEN 0 ELSE f[c(s)] + g[s \ {c(s)}]
        /\ h[s] = IF s = {} THEN 0 ELSE f[c(s)] + h[s \ {c(s)}]
  BY DEF Solves
<1>2. SUFFICES ASSUME B # {} PROVE FALSE
  OBVIOUS
<1>3. PICK s \in B : \A t \in B : t \subseteq s => t = s
  <2>1. B \subseteq SUBSET S
    OBVIOUS
  <2> HIDE DEF B
  <2>. QED
    BY <1>2, <2>1, SmallestSubset
<1>4. s # {} /\ c(s) \in s
  BY <1>1
<1>5. s \ {c(s)} \notin B
  BY <1>3, <1>4
<1>. QED
  BY <1>1, <1>4, <1>5

(* Every finite set has a solution.                                        *)
LEMMA SolutionExists ==
  ASSUME NEW S, IsFiniteSet(S), NEW f
  PROVE  \E g : Solves(g, f, S)
<1> DEFINE c(s) == CHOOSE x \in s : TRUE
           B == {T \in SUBSET S : ~ \E g : Solves(g, f, T)}
           G(T) == CHOOSE g : Solves(g, f, T)
<1>1. SUFFICES ASSUME B # {} PROVE FALSE
  OBVIOUS
<1>2. PICK T \in B : \A U \in B : U \subseteq T => U = T
  <2>1. B \subseteq SUBSET S
    OBVIOUS
  <2> HIDE DEF B
  <2>. QED
    BY <1>1, <2>1, SmallestSubset
<1>3. \A U \in SUBSET T : U # T => Solves(G(U), f, U)
  <2> TAKE U \in SUBSET T
  <2> HAVE U # T
  <2>1. U \notin B
    BY <1>2
  <2>2. U \in SUBSET S
    OBVIOUS
  <2>. QED
    BY <2>1, <2>2
<1> DEFINE value(s) == IF s = {} THEN 0 ELSE f[c(s)] + G(s \ {c(s)})[s \ {c(s)}]
           h == [s \in SUBSET T |-> value(s)]
<1> HIDE DEF G
<1>4. ASSUME NEW s \in SUBSET T, s # {}
      PROVE  G(s \ {c(s)})[s \ {c(s)}] = h[s \ {c(s)}]
  <2> DEFINE u == s \ {c(s)}
  <2>1. c(s) \in s
    BY <1>4
  <2>2. u \in SUBSET T /\ u # T /\ u \in SUBSET S
    BY <2>1
  <2>3. Solves(G(u), f, u)
    BY <1>3, <2>2
  <2>4. G(u)[u] = IF u = {} THEN 0 ELSE f[c(u)] + G(u)[u \ {c(u)}]
    BY <2>3 DEF Solves
  <2>5. CASE u = {}
    BY <2>2, <2>4, <2>5
  <2>6. CASE u # {}
    <3> DEFINE v == u \ {c(u)}
    <3>1. c(u) \in u
      BY <2>6
    <3>2. v \in SUBSET T /\ v # T /\ v \subseteq u /\ v \in SUBSET S
      BY <2>2, <3>1
    <3>3. Solves(G(v), f, v)
      BY <1>3, <3>2
    <3>4. IsFiniteSet(v)
      BY <3>2, FS_Subset
    <3> HIDE DEF u, v
    <3>5. G(u)[v] = G(v)[v]
      BY <2>3, <3>2, <3>3, <3>4, SolutionsAgree
    <3>6. h[u] = f[c(u)] + G(v)[v]
      BY <2>2, <2>6 DEF v
    <3>. QED
      BY <2>4, <2>6, <3>5, <3>6 DEF u, v
  <2>. QED
    BY <2>5, <2>6
<1>5. Solves(h, f, T)
  <2>1. \A s \in SUBSET T : value(s) = IF s = {} THEN 0 ELSE f[c(s)] + h[s \ {c(s)}]
    <3> TAKE s \in SUBSET T
    <3> HIDE DEF h
    <3>. QED
      BY <1>4
  <2>2. h = [s \in SUBSET T |-> value(s)]
    OBVIOUS
  <2> HIDE DEF h, value
  <2>3. h = [s \in SUBSET T |-> IF s = {} THEN 0 ELSE f[c(s)] + h[s \ {c(s)}]]
    BY <2>1, <2>2, Zenon
  <2>. QED
    BY <2>3 DEF Solves
<1>. QED
  BY <1>5

(* The sum is the value of a solution, so it follows the recursion.        *)
LEMMA SumSolves ==
  ASSUME NEW S, IsFiniteSet(S), NEW f
  PROVE  \E g : Solves(g, f, S) /\ SumFunctionOnSet(f, S) = g[S]
<1> DEFINE g == CHOOSE g : Solves(g, f, S)
<1>1. Solves(g, f, S)
  BY SolutionExists
<1>2. SumFunctionOnSet(f, S) = g[S]
  BY DEF SumFunctionOnSet, FoldFunctionOnSet, MapThenFoldSet, Solves
<1>. QED
  BY <1>1, <1>2

(* Nothing adds up to zero.                                                *)
LEMMA SumEmpty ==
  ASSUME NEW f
  PROVE  SumFunctionOnSet(f, {}) = 0
<1>1. PICK g : Solves(g, f, {}) /\ SumFunctionOnSet(f, {}) = g[{}]
  BY SumSolves, FS_EmptySet
<1>. QED
  BY <1>1 DEF Solves

(* The element that the fold takes first.                                  *)
LEMMA SumChosen ==
  ASSUME NEW S, IsFiniteSet(S), NEW f, S # {}
  PROVE  \E x \in S : SumFunctionOnSet(f, S) = f[x] + SumFunctionOnSet(f, S \ {x})
<1> DEFINE x == CHOOSE x \in S : TRUE
           U == S \ {x}
<1>1. x \in S
  OBVIOUS
<1>2. PICK g : Solves(g, f, S) /\ SumFunctionOnSet(f, S) = g[S]
  BY SumSolves
<1>3. IsFiniteSet(U)
  BY FS_RemoveElement
<1>4. PICK h : Solves(h, f, U) /\ SumFunctionOnSet(f, U) = h[U]
  BY <1>3, SumSolves
<1>5. g[U] = h[U]
  <2>1. U \subseteq S /\ U \subseteq U
    OBVIOUS
  <2> HIDE DEF U
  <2>. QED
    BY <1>2, <1>3, <1>4, <2>1, SolutionsAgree
<1>6. g[S] = f[x] + g[U]
  BY <1>2 DEF Solves
<1>. QED
  BY <1>1, <1>2, <1>4, <1>5, <1>6

(* A sum of integers is an integer.                                        *)
LEMMA SumInt ==
  ASSUME NEW S, IsFiniteSet(S), NEW f, \A x \in S : f[x] \in Int
  PROVE  SumFunctionOnSet(f, S) \in Int
<1> DEFINE B == {T \in SUBSET S : SumFunctionOnSet(f, T) \notin Int}
<1>1. SUFFICES ASSUME B # {} PROVE FALSE
  OBVIOUS
<1>2. PICK T \in B : \A U \in B : U \subseteq T => U = T
  <2>1. B \subseteq SUBSET S
    OBVIOUS
  <2> HIDE DEF B
  <2>. QED
    BY <1>1, <2>1, SmallestSubset
<1>3. IsFiniteSet(T)
  BY FS_Subset
<1>4. T # {}
  BY SumEmpty
<1>5. PICK x \in T : SumFunctionOnSet(f, T) = f[x] + SumFunctionOnSet(f, T \ {x})
  BY <1>3, <1>4, SumChosen
<1>6. T \ {x} \notin B
  BY <1>2
<1>. QED
  BY <1>5, <1>6

(* Any element may be taken out.                                           *)
LEMMA SumRemove ==
  ASSUME NEW S, IsFiniteSet(S), NEW f, \A x \in S : f[x] \in Int, NEW x \in S
  PROVE  SumFunctionOnSet(f, S) = f[x] + SumFunctionOnSet(f, S \ {x})
<1> DEFINE sum(T) == SumFunctionOnSet(f, T)
           B == {T \in SUBSET S : \E y \in T : sum(T) # f[y] + sum(T \ {y})}
<1>0. \A T \in SUBSET S : IsFiniteSet(T) /\ sum(T) \in Int
  BY FS_Subset, SumInt
<1>1. SUFFICES ASSUME B # {} PROVE FALSE
  OBVIOUS
<1>2. PICK T \in B : \A U \in B : U \subseteq T => U = T
  <2>1. B \subseteq SUBSET S
    OBVIOUS
  <2> HIDE DEF B
  <2>. QED
    BY <1>1, <2>1, SmallestSubset
<1>3. PICK y \in T : sum(T) # f[y] + sum(T \ {y})
  OBVIOUS
<1>4. PICK c \in T : sum(T) = f[c] + sum(T \ {c})
  BY <1>0, SumChosen
<1> HIDE DEF sum
<1>5. c # y
  BY <1>3, <1>4
<1>6. sum(T \ {c}) = f[y] + sum((T \ {c}) \ {y})
  <2>1. T \ {c} \notin B
    BY <1>2
  <2>. QED
    BY <1>5, <2>1
<1>7. sum(T \ {y}) = f[c] + sum((T \ {y}) \ {c})
  <2>1. T \ {y} \notin B
    BY <1>2
  <2>. QED
    BY <1>5, <2>1
<1>8. (T \ {c}) \ {y} = (T \ {y}) \ {c}
  OBVIOUS
<1>9. f[c] \in Int /\ f[y] \in Int /\ sum((T \ {c}) \ {y}) \in Int
  BY <1>0
<1>. QED
  BY <1>3, <1>4, <1>6, <1>7, <1>8, <1>9

(* A sum of naturals is a natural.                                         *)
LEMMA SumNat ==
  ASSUME NEW S, IsFiniteSet(S), NEW f, \A x \in S : f[x] \in Nat
  PROVE  SumFunctionOnSet(f, S) \in Nat
<1> DEFINE G == {T \in SUBSET S : SumFunctionOnSet(f, T) \in Nat}
<1>1. {} \in G
  BY SumEmpty
<1>2. ASSUME NEW T \in SUBSET S, NEW x \in T, T \ {x} \in G
      PROVE  T \in G
  <2>1. IsFiniteSet(T) /\ \A y \in T : f[y] \in Int
    BY FS_Subset
  <2>2. SumFunctionOnSet(f, T) = f[x] + SumFunctionOnSet(f, T \ {x})
    BY <2>1, SumRemove
  <2>. QED
    BY <1>2, <2>2
<1>3. S \in G
  <2> HIDE DEF G
  <2>. QED
    BY <1>1, <1>2, SubsetInduction
<1>. QED
  BY <1>3

(* Only the elements that are not mapped to zero count.                    *)
LEMMA SumOfRest ==
  ASSUME NEW S, IsFiniteSet(S), NEW f, \A x \in S : f[x] \in Int,
         NEW R \in SUBSET S, \A x \in S \ R : f[x] = 0
  PROVE  SumFunctionOnSet(f, S) = SumFunctionOnSet(f, R)
<1> DEFINE sum(T) == SumFunctionOnSet(f, T)
           G == {T \in SUBSET S : sum(T) = sum(T \cap R)}
<1>1. {} \in G
  OBVIOUS
<1>2. ASSUME NEW T \in SUBSET S, NEW x \in T, T \ {x} \in G
      PROVE  T \in G
  <2>1. /\ IsFiniteSet(T) /\ \A y \in T : f[y] \in Int
        /\ IsFiniteSet(T \cap R) /\ \A y \in T \cap R : f[y] \in Int
    BY FS_Subset
  <2>2. sum(T) = f[x] + sum(T \ {x})
    BY <2>1, SumRemove
  <2>3. sum(T \ {x}) = sum((T \ {x}) \cap R)
    BY <1>2
  <2>4. sum((T \ {x}) \cap R) \in Int
    <3>1. IsFiniteSet((T \ {x}) \cap R) /\ \A y \in (T \ {x}) \cap R : f[y] \in Int
      BY FS_Subset
    <3>. QED
      BY <3>1, SumInt
  <2>5. sum(T) = sum(T \cap R)
    <3>1. CASE x \in R
      <4>1. sum(T \cap R) = f[x] + sum((T \cap R) \ {x})
        BY <2>1, <3>1, SumRemove
      <4>2. (T \cap R) \ {x} = (T \ {x}) \cap R
        OBVIOUS
      <4> HIDE DEF sum
      <4>. QED
        BY <2>2, <2>3, <4>1, <4>2
    <3>2. CASE x \notin R
      <4>1. sum((T \ {x}) \cap R) = sum(T \cap R)
        <5>1. (T \ {x}) \cap R = T \cap R
          BY <3>2
        <5>. QED
          BY <5>1, Zenon
      <4>2. f[x] = 0
        BY <3>2
      <4> HIDE DEF sum
      <4>. QED
        BY <2>2, <2>3, <2>4, <4>1, <4>2
    <3>. QED
      BY <3>1, <3>2
  <2>. QED
    BY <2>5
<1>3. S \in G
  <2> HIDE DEF G
  <2>. QED
    BY <1>1, <1>2, SubsetInduction
<1>4. S \cap R = R
  OBVIOUS
<1>. QED
  BY <1>3, <1>4

(* A sum that is not zero has a term that is not zero.                     *)
LEMMA SumPositive ==
  ASSUME NEW S, IsFiniteSet(S), NEW f, \A x \in S : f[x] \in Int,
         SumFunctionOnSet(f, S) # 0
  PROVE  \E x \in S : f[x] # 0
<1>1. SUFFICES ASSUME \A x \in S : f[x] = 0 PROVE FALSE
  OBVIOUS
<1>2. SumFunctionOnSet(f, S) = SumFunctionOnSet(f, {})
  BY <1>1, SumOfRest
<1>. QED
  BY <1>2, SumEmpty

(* The sum over two disjoint sets is that of the one plus that of the      *)
(* other.                                                                  *)
LEMMA SumUnion ==
  ASSUME NEW S, IsFiniteSet(S), NEW T, IsFiniteSet(T), S \cap T = {},
         NEW f, \A x \in S \cup T : f[x] \in Int
  PROVE  SumFunctionOnSet(f, S \cup T) = SumFunctionOnSet(f, S) + SumFunctionOnSet(f, T)
<1> DEFINE sum(U) == SumFunctionOnSet(f, U)
           G == {U \in SUBSET S : sum(U \cup T) = sum(U) + sum(T)}
<1>0. \A U \in SUBSET S : /\ IsFiniteSet(U) /\ IsFiniteSet(U \cup T)
                          /\ sum(U) \in Int /\ sum(U \cup T) \in Int
  <2> TAKE U \in SUBSET S
  <2>1. IsFiniteSet(U) /\ IsFiniteSet(U \cup T)
    BY FS_Subset, FS_Union
  <2>. QED
    BY <2>1, SumInt
<1>1. {} \in G
  <2>1. sum(T) \in Int /\ {} \cup T = T
    BY SumInt
  <2>. QED
    BY <2>1, SumEmpty
<1>2. ASSUME NEW U \in SUBSET S, NEW x \in U, U \ {x} \in G
      PROVE  U \in G
  <2>1. sum(U) = f[x] + sum(U \ {x})
    BY <1>0, SumRemove
  <2>2. sum(U \cup T) = f[x] + sum((U \cup T) \ {x})
    BY <1>0, SumRemove
  <2>3. sum((U \cup T) \ {x}) = sum((U \ {x}) \cup T)
    <3>1. (U \cup T) \ {x} = (U \ {x}) \cup T
      OBVIOUS
    <3>. QED
      BY <3>1, Zenon
  <2>4. sum((U \ {x}) \cup T) = sum(U \ {x}) + sum(T)
    BY <1>2
  <2>5. f[x] \in Int /\ sum(U \ {x}) \in Int /\ sum(T) \in Int
    BY <1>0, SumInt
  <2>6. sum(U \cup T) = sum(U) + sum(T)
    <3> HIDE DEF sum
    <3>. QED
      BY <2>1, <2>2, <2>3, <2>4, <2>5
  <2>. QED
    BY <2>6
<1>3. S \in G
  <2> HIDE DEF G
  <2>. QED
    BY <1>1, <1>2, SubsetInduction
<1>. QED
  BY <1>3

(* The elements of S that key maps to k, and those it maps into K.         *)
Part(key, S, k) == {i \in S : key[i] = k}
Parts(key, S, K) == {i \in S : key[i] \in K}

(* Sums of the parts of a sum add up to it: g[k] is the sum of what key    *)
(* maps to k.                                                              *)
LEMMA SumOfParts ==
  ASSUME NEW S, IsFiniteSet(S), NEW f, \A i \in S : f[i] \in Int,
         NEW key, NEW K, IsFiniteSet(K), NEW g,
         \A k \in K : g[k] = SumFunctionOnSet(f, Part(key, S, k))
  PROVE  SumFunctionOnSet(g, K) = SumFunctionOnSet(f, Parts(key, S, K))
<1> DEFINE part(k) == Part(key, S, k)
           parts(L) == Parts(key, S, L)
           G == {L \in SUBSET K : SumFunctionOnSet(g, L) = SumFunctionOnSet(f, parts(L))}
<1>1. \A k \in K : IsFiniteSet(part(k)) /\ g[k] \in Int
  <2> TAKE k \in K
  <2>1. IsFiniteSet(part(k)) /\ \A i \in part(k) : f[i] \in Int
    BY FS_Subset DEF Part
  <2>. QED
    BY <2>1, SumInt
<1>2. {} \in G
  <2>1. parts({}) = {}
    BY DEF Parts
  <2>. QED
    BY <2>1, SumEmpty
<1>3. ASSUME NEW L \in SUBSET K, NEW k \in L, L \ {k} \in G
      PROVE  L \in G
  <2>1. IsFiniteSet(L) /\ \A l \in L : g[l] \in Int
    BY <1>1, FS_Subset
  <2>2. SumFunctionOnSet(g, L) = g[k] + SumFunctionOnSet(g, L \ {k})
    BY <2>1, SumRemove
  <2>3. SumFunctionOnSet(g, L \ {k}) = SumFunctionOnSet(f, parts(L \ {k}))
    BY <1>3
  <2>4. g[k] = SumFunctionOnSet(f, part(k))
    OBVIOUS
  <2>5. parts(L) = part(k) \cup parts(L \ {k})
    BY DEF Part, Parts
  <2>6. part(k) \cap parts(L \ {k}) = {}
    BY DEF Part, Parts
  <2>7. IsFiniteSet(part(k)) /\ IsFiniteSet(parts(L \ {k}))
    BY FS_Subset DEF Part, Parts
  <2>8. \A i \in part(k) \cup parts(L \ {k}) : f[i] \in Int
    BY DEF Part, Parts
  <2> HIDE DEF part, parts
  <2>9. SumFunctionOnSet(f, part(k) \cup parts(L \ {k}))
          = SumFunctionOnSet(f, part(k)) + SumFunctionOnSet(f, parts(L \ {k}))
    BY <2>6, <2>7, <2>8, SumUnion
  <2>. QED
    BY <2>2, <2>3, <2>4, <2>5, <2>9
<1>4. K \in G
  <2> HIDE DEF G
  <2>. QED
    BY <1>2, <1>3, SubsetInduction
<1>. QED
  BY <1>4

(***************************************************************************)
(* The ranges.                                                             *)
(***************************************************************************)
Covering(t) == {k \in Keys : k[1] <= t /\ t < k[2]}

(* The history is finite, and so are the ranges it nets into.              *)
LEMMA Ranges ==
  ASSUME pool \in Pools
  PROVE  /\ IsFiniteSet(DOMAIN pool.ranges)
         /\ \A i \in DOMAIN pool.ranges :
              /\ delta[i] \in Int
              /\ rangeKey[i] = <<pool.ranges[i].lower, pool.ranges[i].upper>>
              /\ pool.ranges[i].lower \in Int /\ pool.ranges[i].upper \in Int
         /\ IsFiniteSet(Keys)
         /\ \A k \in Keys : k[1] \in Int /\ k[2] \in Int /\ rangeLiquidity[k] \in Int
         /\ pool.tick \in Int /\ pool.spacing \in Nat \ {0}
         /\ pool.price \in PriceAt(MinTick) + 1..PriceAt(MaxTick) - 1
<1>1. /\ pool.ranges \in Seq([lower : Int, upper : Int, delta : Int])
      /\ pool.tick \in Int /\ pool.spacing \in Nat \ {0}
      /\ pool.price \in PriceAt(MinTick) + 1..PriceAt(MaxTick) - 1
  BY PoolsAssumption
<1>2. DOMAIN pool.ranges = 1..Len(pool.ranges) /\ Len(pool.ranges) \in Nat
  BY <1>1
<1>3. IsFiniteSet(DOMAIN pool.ranges)
  BY <1>2, FS_Interval
<1>4. \A i \in DOMAIN pool.ranges : pool.ranges[i] \in [lower : Int, upper : Int, delta : Int]
  <2> DEFINE R == [lower : Int, upper : Int, delta : Int]
  <2>1. pool.ranges \in Seq(R)
    BY <1>1
  <2> HIDE DEF R
  <2>2. \A i \in DOMAIN pool.ranges : pool.ranges[i] \in R
    BY <1>2, <2>1
  <2>. QED
    BY <2>2 DEF R
<1>5. \A i \in DOMAIN pool.ranges :
        /\ delta[i] \in Int
        /\ rangeKey[i] = <<pool.ranges[i].lower, pool.ranges[i].upper>>
        /\ pool.ranges[i].lower \in Int /\ pool.ranges[i].upper \in Int
  BY <1>4 DEF delta, rangeKey
<1>6. IsFiniteSet(Keys)
  <2>1. rangeKey \in Surjection(DOMAIN pool.ranges, Keys)
    BY DEF Surjection, rangeKey, Keys
  <2>. QED
    BY <1>3, <2>1, FS_Surjection
<1>7. \A k \in Keys : k[1] \in Int /\ k[2] \in Int /\ rangeLiquidity[k] \in Int
  <2> TAKE k \in Keys
  <2>1. k[1] \in Int /\ k[2] \in Int
    BY <1>5 DEF Keys
  <2> DEFINE P == {i \in DOMAIN pool.ranges : rangeKey[i] = k}
  <2>2. IsFiniteSet(P) /\ \A i \in P : delta[i] \in Int
    BY <1>3, <1>5, FS_Subset
  <2>3. SumFunctionOnSet(delta, P) \in Int
    <3> HIDE DEF P
    <3>. QED
      BY <2>2, SumInt
  <2>. QED
    BY <2>1, <2>3 DEF rangeLiquidity
<1>. QED
  BY <1>1, <1>3, <1>5, <1>6, <1>7

(* In a state the quote accepts, no range is empty, reaches beyond the     *)
(* ticks there are or has a negative liquidity.                            *)
LEMMA AcceptedRanges ==
  ASSUME pool \in Pools, StateOk
  PROVE  /\ \A k \in Keys : /\ k[1] < k[2] /\ MinTick <= k[1] /\ k[2] <= MaxTick
                            /\ rangeLiquidity[k] \in Nat
         /\ TicksOfRanges \subseteq MinTick..MaxTick
         /\ IsFiniteSet(TicksOfRanges)
<1>1. \A k \in Keys : k[1] < k[2] /\ MinTick <= k[1] /\ k[2] <= MaxTick
  <2> TAKE k \in Keys
  <2>1. PICK i \in DOMAIN pool.ranges : k = rangeKey[i]
    BY DEF Keys
  <2>2. k[1] = pool.ranges[i].lower /\ k[2] = pool.ranges[i].upper
    BY <2>1, Ranges
  <2>. QED
    BY <2>2 DEF StateOk, RangeOk
<1>2. \A k \in Keys : rangeLiquidity[k] \in Nat
  BY V4Assumption DEF StateOk, NotOverdrawn
<1>3. MaxTick \in Int /\ MinTick \in Int
  BY V4Assumption DEF MinTick
<1>4. TicksOfRanges \subseteq MinTick..MaxTick
  <2> SUFFICES ASSUME NEW t \in TicksOfRanges PROVE t \in MinTick..MaxTick
    OBVIOUS
  <2>1. PICK k \in Keys : t \in {k[1], k[2]}
    BY DEF TicksOfRanges
  <2>2. k[1] \in Int /\ k[2] \in Int
    BY Ranges
  <2>. QED
    BY <1>1, <1>3, <2>1, <2>2
<1>5. IsFiniteSet(TicksOfRanges)
  BY <1>3, <1>4, FS_Interval, FS_Subset
<1>. QED
  BY <1>1, <1>2, <1>4, <1>5

(* Starting, Ending and Active are integers, Active is not negative.       *)
LEMMA SumsOfRanges ==
  ASSUME pool \in Pools, StateOk, NEW t \in Int
  PROVE  Starting(t) \in Int /\ Ending(t) \in Int /\ Active(t) \in Nat
<1>1. IsFiniteSet(Keys) /\ \A k \in Keys : rangeLiquidity[k] \in Nat
  BY Ranges, AcceptedRanges
<1>2. \A K \in SUBSET Keys : SumFunctionOnSet(rangeLiquidity, K) \in Nat
  BY <1>1, FS_Subset, SumNat
<1>. QED
  BY <1>2 DEF Starting, Ending, Active

(* The liquidity at a tick is that of the changes whose range holds it.    *)
LEMMA ActiveIsOfHistory ==
  ASSUME pool \in Pools, NEW t \in Int
  PROVE  Active(t) = SumFunctionOnSet(delta,
                       {i \in DOMAIN pool.ranges :
                          pool.ranges[i].lower <= t /\ t < pool.ranges[i].upper})
<1> DEFINE K == {k \in Keys : k[1] <= t /\ t < k[2]}
           D == DOMAIN pool.ranges
           C == {i \in D : pool.ranges[i].lower <= t /\ t < pool.ranges[i].upper}
<1>1. IsFiniteSet(D) /\ \A i \in D : delta[i] \in Int
  BY Ranges
<1>2. IsFiniteSet(K)
  BY Ranges, FS_Subset
<1>3. \A k \in K : rangeLiquidity[k] = SumFunctionOnSet(delta, Part(rangeKey, D, k))
  BY DEF rangeLiquidity, Part
<1>4. Parts(rangeKey, D, K) = C
  <2>1. \A i \in D : rangeKey[i] \in Keys
    BY DEF Keys
  <2>2. \A i \in D : /\ rangeKey[i][1] = pool.ranges[i].lower
                     /\ rangeKey[i][2] = pool.ranges[i].upper
    BY Ranges
  <2>. QED
    BY <2>1, <2>2 DEF Parts
<1>5. SumFunctionOnSet(rangeLiquidity, K) = SumFunctionOnSet(delta, Parts(rangeKey, D, K))
  <2> HIDE DEF K, D
  <2>. QED
    BY <1>1, <1>2, <1>3, SumOfParts
<1>. QED
  BY <1>4, <1>5 DEF Active

(* A tick adds the liquidity that starts there and ends what ends there.   *)
LEMMA ActiveAcross ==
  ASSUME pool \in Pools, StateOk, NEW t \in Int
  PROVE  Active(t) = Active(t - 1) + Net(t)
<1> DEFINE sum(K) == SumFunctionOnSet(rangeLiquidity, K)
           A == {k \in Keys : k[1] <= t /\ t < k[2]}
           B == {k \in Keys : k[1] <= t - 1 /\ t - 1 < k[2]}
           C == {k \in Keys : k[1] < t /\ t < k[2]}
           starting == {k \in Keys : k[1] = t}
           ending == {k \in Keys : k[2] = t}
<1>1. \A K \in SUBSET Keys : /\ IsFiniteSet(K) /\ sum(K) \in Int
                             /\ \A k \in K : rangeLiquidity[k] \in Int
  BY Ranges, FS_Subset, SumInt
<1>2. \A k \in Keys : k[1] \in Int /\ k[2] \in Int /\ k[1] < k[2]
  BY Ranges, AcceptedRanges
<1>3. A = C \cup starting /\ B = C \cup ending
  BY <1>2
<1>4. C \cap starting = {} /\ C \cap ending = {}
  BY <1>2
<1>5. {C, starting, ending} \subseteq SUBSET Keys
  OBVIOUS
<1> HIDE DEF A, B, C, starting, ending
<1>6. sum(C \cup starting) = sum(C) + sum(starting)
  BY <1>1, <1>4, <1>5, SumUnion
<1>7. sum(C \cup ending) = sum(C) + sum(ending)
  BY <1>1, <1>4, <1>5, SumUnion
<1>8. sum(A) = sum(C \cup starting) /\ sum(B) = sum(C \cup ending)
  BY <1>3, Zenon
<1>9. sum(C) \in Int /\ sum(starting) \in Int /\ sum(ending) \in Int
  BY <1>1, <1>5
<1>10. Active(t) = sum(A) /\ Active(t - 1) = sum(B)
  BY DEF Active, A, B
<1>11. Net(t) = sum(starting) - sum(ending)
  BY DEF Net, Starting, Ending, starting, ending
<1> HIDE DEF sum
<1>. QED
  BY <1>6, <1>7, <1>8, <1>9, <1>10, <1>11

(* Where no range that is left starts or ends, nothing is netted.          *)
LEMMA NetElsewhere ==
  ASSUME pool \in Pools, StateOk, NEW t \in Int, t \notin TicksOfRanges
  PROVE  Net(t) = 0
<1>1. IsFiniteSet(Keys) /\ \A k \in Keys : rangeLiquidity[k] \in Nat
  BY Ranges, AcceptedRanges
<1>2. \A k \in Keys : k[1] = t \/ k[2] = t => rangeLiquidity[k] = 0
  BY <1>1 DEF TicksOfRanges
<1>3. ASSUME NEW K \in SUBSET Keys, \A k \in K : rangeLiquidity[k] = 0
      PROVE  SumFunctionOnSet(rangeLiquidity, K) = 0
  <2>1. IsFiniteSet(K)
    BY <1>1, FS_Subset
  <2>2. SumFunctionOnSet(rangeLiquidity, K) = SumFunctionOnSet(rangeLiquidity, {})
    BY <1>3, <2>1, SumOfRest
  <2>. QED
    BY <2>2, SumEmpty
<1>4. Starting(t) = 0 /\ Ending(t) = 0
  BY <1>2, <1>3 DEF Starting, Ending
<1>. QED
  BY <1>4 DEF Net

(* Between two ticks of the list the liquidity does not change.            *)
LEMMA ActiveBetween ==
  ASSUME pool \in Pools, StateOk, NEW t \in Int, NEW u \in Int, t <= u,
         \A x \in TicksOfRanges : ~ (t < x /\ x <= u)
  PROVE  Active(t) = Active(u)
<1> DEFINE sum(K) == SumFunctionOnSet(rangeLiquidity, K)
           cover(v) == {k \in Keys : k[1] <= v /\ v < k[2]}
           left(v) == {k \in cover(v) : rangeLiquidity[k] > 0}
<1>1. \A k \in Keys : k[1] \in Int /\ k[2] \in Int /\ rangeLiquidity[k] \in Nat
  BY Ranges, AcceptedRanges
<1>2. ASSUME NEW v \in Int PROVE sum(cover(v)) = sum(left(v))
  <2>1. IsFiniteSet(cover(v)) /\ \A k \in cover(v) : rangeLiquidity[k] \in Int
    BY <1>1, Ranges, FS_Subset
  <2>2. left(v) \in SUBSET cover(v)
    OBVIOUS
  <2>3. \A k \in cover(v) \ left(v) : rangeLiquidity[k] = 0
    BY <1>1
  <2> HIDE DEF cover, left
  <2>. QED
    BY <2>1, <2>2, <2>3, SumOfRest
<1>3. left(t) = left(u)
  <2>1. \A k \in Keys : rangeLiquidity[k] > 0 =>
          k[1] \in TicksOfRanges /\ k[2] \in TicksOfRanges
    BY DEF TicksOfRanges
  <2>. QED
    BY <1>1, <2>1
<1>4. sum(left(t)) = sum(left(u))
  BY <1>3, Zenon
<1>. QED
  BY <1>2, <1>4 DEF Active

(* A liquidity that is not zero is that of a range that is left, with an   *)
(* initialized tick on either side.                                        *)
LEMMA ActiveBounded ==
  ASSUME pool \in Pools, StateOk, NEW t \in Int, Active(t) # 0
  PROVE  \E k1, k2 \in TicksOfRanges : k1 <= t /\ t < k2
<1> DEFINE K == {k \in Keys : k[1] <= t /\ t < k[2]}
<1>1. IsFiniteSet(K) /\ \A k \in K : rangeLiquidity[k] \in Int
  BY Ranges, FS_Subset
<1>2. SumFunctionOnSet(rangeLiquidity, K) # 0
  BY DEF Active
<1>3. PICK k \in K : rangeLiquidity[k] # 0
  <2> HIDE DEF K
  <2>. QED
    BY <1>1, <1>2, SumPositive
<1>4. rangeLiquidity[k] > 0
  BY <1>3, AcceptedRanges
<1>5. k[1] \in TicksOfRanges /\ k[2] \in TicksOfRanges
  BY <1>3, <1>4 DEF TicksOfRanges
<1>. QED
  BY <1>3, <1>5

(***************************************************************************)
(* Greatest and least elements, words of the tick bitmap.                  *)
(***************************************************************************)

(* A finite set of integers has a greatest element.                        *)
LEMMA MaxOfFinite ==
  ASSUME NEW S, S \subseteq Int, IsFiniteSet(S), S # {}
  PROVE  Max(S) \in S /\ \A x \in S : x <= Max(S)
<1> DEFINE G == {T \in SUBSET S : T # {} => \E m \in T : \A y \in T : m >= y}
<1>1. {} \in G
  OBVIOUS
<1>2. ASSUME NEW T \in SUBSET S, NEW x \in T, T \ {x} \in G
      PROVE  T \in G
  <2>1. CASE T \ {x} = {}
    BY <2>1
  <2>2. CASE T \ {x} # {}
    <3>1. PICK m \in T \ {x} : \A y \in T \ {x} : m >= y
      BY <1>2, <2>2
    <3>2. \E n \in T : \A y \in T : n >= y
      <4>1. CASE m >= x
        BY <3>1, <4>1
      <4>2. CASE ~ (m >= x)
        BY <3>1, <4>2
      <4>. QED
        BY <4>1, <4>2
    <3>. QED
      BY <3>2
  <2>. QED
    BY <2>1, <2>2
<1>3. S \in G
  <2> HIDE DEF G
  <2>. QED
    BY <1>1, <1>2, SubsetInduction
<1>4. \E m \in S : \A y \in S : m >= y
  BY <1>3
<1>5. Max(S) \in S /\ \A y \in S : Max(S) >= y
  BY <1>4 DEF Max
<1>. QED
  BY <1>5

(* A finite set of integers has a least element.                           *)
LEMMA MinOfFinite ==
  ASSUME NEW S, S \subseteq Int, IsFiniteSet(S), S # {}
  PROVE  Min(S) \in S /\ \A x \in S : Min(S) <= x
<1> DEFINE G == {T \in SUBSET S : T # {} => \E m \in T : \A y \in T : m <= y}
<1>1. {} \in G
  OBVIOUS
<1>2. ASSUME NEW T \in SUBSET S, NEW x \in T, T \ {x} \in G
      PROVE  T \in G
  <2>1. CASE T \ {x} = {}
    BY <2>1
  <2>2. CASE T \ {x} # {}
    <3>1. PICK m \in T \ {x} : \A y \in T \ {x} : m <= y
      BY <1>2, <2>2
    <3>2. \E n \in T : \A y \in T : n <= y
      <4>1. CASE m <= x
        BY <3>1, <4>1
      <4>2. CASE ~ (m <= x)
        BY <3>1, <4>2
      <4>. QED
        BY <4>1, <4>2
    <3>. QED
      BY <3>2
  <2>. QED
    BY <2>1, <2>2
<1>3. S \in G
  <2> HIDE DEF G
  <2>. QED
    BY <1>1, <1>2, SubsetInduction
<1>4. \E m \in S : \A y \in S : m <= y
  BY <1>3
<1>. QED
  BY <1>4 DEF Min

(* Multiplying by a natural keeps the order.                               *)
LEMMA Scaled ==
  ASSUME NEW a \in Int, NEW b \in Int, NEW c \in Nat, a <= b
  PROVE  a * c <= b * c
BY SMT

(* What \div is: the greatest multiple that fits.                          *)
LEMMA Quotient ==
  ASSUME NEW a \in Int, NEW c \in Nat \ {0}
  PROVE  a \div c \in Int /\ (a \div c) * c <= a /\ a < (a \div c) * c + c
BY SMT

(* The word of a position, the positions of a word.                        *)
WordAt(x) == (x \div pool.spacing) \div WordSize
WordWidth == pool.spacing * WordSize

(* A word is at least one position wide.                                   *)
LEMMA WordWidthType ==
  ASSUME pool.spacing \in Nat \ {0}
  PROVE  WordWidth \in Nat \ {0}
<1>1. pool.spacing * WordSize \in Nat
  BY V4Assumption
<1>2. 1 * WordSize <= pool.spacing * WordSize
  BY V4Assumption, Scaled
<1>. QED
  BY <1>1, <1>2, V4Assumption DEF WordWidth

(* A position lies in its word.                                            *)
LEMMA WordBounds ==
  ASSUME pool.spacing \in Nat \ {0}, NEW x \in Int
  PROVE  /\ WordAt(x) \in Int
         /\ WordAt(x) * WordWidth <= x /\ x < WordAt(x) * WordWidth + WordWidth
<1> DEFINE s == pool.spacing
           q == x \div s
           w == q \div WordSize
<1>0. WordSize \in Nat \ {0} /\ s \in Nat \ {0}
  BY V4Assumption
<1>1. q \in Int /\ q * s <= x /\ x < q * s + s
  BY <1>0, Quotient
<1> HIDE DEF q
<1>2. w \in Int /\ w * WordSize <= q /\ q + 1 <= w * WordSize + WordSize
  BY <1>0, <1>1, Quotient
<1> HIDE DEF w, s
<1>3. (w * WordSize) * s <= q * s
  BY <1>0, <1>1, <1>2, Scaled
<1>4. (q + 1) * s <= (w * WordSize + WordSize) * s
  BY <1>0, <1>1, <1>2, Scaled
<1>5. (q + 1) * s = q * s + s
  BY <1>0, <1>1
<1>6. /\ (w * WordSize) * s = w * (s * WordSize)
      /\ (w * WordSize + WordSize) * s = w * (s * WordSize) + s * WordSize
  BY <1>0, <1>2
<1>7. /\ w * (s * WordSize) \in Int /\ s * WordSize \in Int
      /\ q * s \in Int
  BY <1>0, <1>1, <1>2
<1>8. w * (s * WordSize) <= x /\ x < w * (s * WordSize) + s * WordSize
  <2> DEFINE a == w * (s * WordSize)
             b == s * WordSize
             c == (q + 1) * s
             d == q * s
  <2>1. a <= d /\ c <= a + b /\ c = d + s /\ d <= x /\ x < d + s
    BY <1>1, <1>3, <1>4, <1>5, <1>6
  <2>2. {a, b, d} \subseteq Int
    BY <1>7
  <2> HIDE DEF a, b, c, d
  <2>3. a <= x /\ x < a + b
    BY <1>0, <2>1, <2>2
  <2>. QED
    BY <2>3 DEF a, b
<1>. QED
  BY <1>2, <1>8 DEF WordAt, WordWidth, w, q, s

(* A position is in the word that holds it.                                *)
LEMMA WordUnique ==
  ASSUME pool.spacing \in Nat \ {0}, NEW x \in Int, NEW w \in Int,
         w * WordWidth <= x, x < w * WordWidth + WordWidth
  PROVE  WordAt(x) = w
<1> DEFINE v == WordAt(x)
           m == WordWidth
<1>1. m \in Nat \ {0}
  BY WordWidthType
<1>2. v \in Int /\ v * m <= x /\ x < v * m + m
  BY WordBounds
<1> HIDE DEF v, m
<1>3. ASSUME NEW a \in Int, NEW b \in Int, a + 1 <= b
      PROVE  a * m + m <= b * m
  <2>1. (a + 1) * m <= b * m
    BY <1>1, <1>3, Scaled
  <2>2. (a + 1) * m = a * m + m
    BY <1>1
  <2>. QED
    BY <2>1, <2>2
<1>4. w * m \in Int /\ v * m \in Int
  BY <1>1, <1>2
<1>5. w * m <= x /\ x < w * m + m
  BY DEF m
<1>6. ~ (v + 1 <= w)
  <2>1. SUFFICES ASSUME v + 1 <= w PROVE FALSE
    OBVIOUS
  <2>2. v * m + m <= w * m
    BY <1>2, <1>3, <2>1
  <2>. QED
    BY <1>1, <1>2, <1>4, <1>5, <2>2
<1>7. ~ (w + 1 <= v)
  <2>1. SUFFICES ASSUME w + 1 <= v PROVE FALSE
    OBVIOUS
  <2>2. w * m + m <= v * m
    BY <1>2, <1>3, <2>1
  <2>. QED
    BY <1>1, <1>2, <1>4, <1>5, <2>2
<1>. QED
  BY <1>2, <1>6, <1>7 DEF v

(* A higher position is in no lower word.                                  *)
LEMMA WordMonotone ==
  ASSUME pool.spacing \in Nat \ {0}, NEW x \in Int, NEW y \in Int, x <= y
  PROVE  WordAt(x) <= WordAt(y)
<1> DEFINE v == WordAt(x)
           w == WordAt(y)
           m == WordWidth
<1>1. m \in Nat \ {0} /\ v \in Int /\ w \in Int
  BY WordWidthType, WordBounds
<1>2. v * m <= x /\ y < w * m + m
  BY WordBounds
<1> HIDE DEF v, w, m
<1>3. SUFFICES ASSUME w + 1 <= v PROVE FALSE
  BY <1>1 DEF v, w
<1>4. (w + 1) * m <= v * m
  BY <1>1, <1>3, Scaled
<1>5. (w + 1) * m = w * m + m /\ w * m \in Int /\ v * m \in Int
  BY <1>1
<1>. QED
  BY <1>1, <1>2, <1>4, <1>5

(* Positions not further apart than d are not more words apart than it     *)
(* takes to hold d positions.                                              *)
LEMMA WordSpan ==
  ASSUME pool.spacing \in Nat \ {0}, NEW x \in Int, NEW y \in Int, NEW d \in Nat, y - x <= d
  PROVE  WordAt(y) - WordAt(x) <= (d + WordWidth - 1) \div WordWidth
<1> DEFINE v == WordAt(x)
           w == WordAt(y)
           m == WordWidth
           n == (d + m - 1) \div m
<1>1. m \in Nat \ {0} /\ v \in Int /\ w \in Int
  BY WordWidthType, WordBounds
<1>2. x < v * m + m /\ w * m <= y
  BY WordBounds
<1> HIDE DEF v, w, m
<1>3. n \in Int /\ d + m - 1 < n * m + m
  BY <1>1, Quotient
<1> HIDE DEF n
<1>4. SUFFICES ASSUME v + n + 1 <= w PROVE FALSE
  BY <1>1, <1>3 DEF v, w, n, m
<1>5. (v + n + 1) * m <= w * m
  BY <1>1, <1>3, <1>4, Scaled
<1>6. (v + n + 1) * m = v * m + n * m + m
  BY <1>1, <1>3
<1>7. v * m \in Int /\ n * m \in Int /\ w * m \in Int
  BY <1>1, <1>3
<1>. QED
  BY <1>1, <1>2, <1>3, <1>5, <1>6, <1>7

(***************************************************************************)
(* The next tick of a swap.                                                *)
(***************************************************************************)
(* The words are those of the tick downwards, of the tick above it upwards. *)
Position(t) == IF zeroForOne THEN t ELSE t + pool.spacing

Word(t) == WordAt(Position(t))

Max2(a, b) == IF a >= b THEN a ELSE b
Min2(a, b) == IF a <= b THEN a ELSE b

(* The greater and the lesser of two.                                      *)
LEMMA TwoElements ==
  ASSUME NEW a \in Int, NEW b \in Int
  PROVE  Max({a, b}) = Max2(a, b) /\ Min({a, b}) = Min2(a, b)
<1>1. IsFiniteSet({a, b}) /\ {a, b} \subseteq Int /\ {a, b} # {}
  <2>1. IsFiniteSet({a}) /\ IsFiniteSet({b})
    BY FS_Singleton
  <2>2. IsFiniteSet({a} \cup {b})
    BY <2>1, FS_Union
  <2>3. {a} \cup {b} = {a, b}
    OBVIOUS
  <2>. QED
    BY <2>2, <2>3
<1>2. /\ Max({a, b}) \in {a, b} /\ Max({a, b}) >= a /\ Max({a, b}) >= b
      /\ Min({a, b}) \in {a, b} /\ Min({a, b}) <= a /\ Min({a, b}) <= b
  BY <1>1, MaxOfFinite, MinOfFinite
<1>. QED
  BY <1>2 DEF Max2, Min2

(* A multiple of the spacing is compressed without a remainder.            *)
LEMMA Compressed ==
  ASSUME NEW s \in Nat \ {0}, NEW t \in Int
  PROVE  (t + s) \div s = t \div s + 1
BY SMT

(* Downwards: the greatest initialized tick at or below t, or the start of *)
(* the word of t if it comes first.                                        *)
LEMMA NextTickDown ==
  ASSUME pool.spacing \in Nat \ {0}, zeroForOne, NEW t \in Int,
         DOMAIN ticks \subseteq Int, IsFiniteSet(DOMAIN ticks)
  PROVE  /\ NextTick(t) \in Int /\ NextTick(t) <= t
         /\ \A x \in DOMAIN ticks : ~ (NextTick(t) < x /\ x <= t)
         /\ NextTick(t) \in DOMAIN ticks \/ NextTick(t) = Word(t) * WordWidth
<1> DEFINE edge == ((t \div pool.spacing) \div WordSize) * WordSize * pool.spacing
           ahead == {u \in DOMAIN ticks : u <= t}
           n == NextTick(t)
<1>1. edge = Word(t) * WordWidth /\ edge \in Int /\ edge <= t
  <2>1. edge = WordAt(t) * WordSize * pool.spacing
    BY DEF WordAt
  <2>2. WordAt(t) \in Int /\ WordAt(t) * WordWidth <= t
    BY WordBounds
  <2>3. WordAt(t) * WordSize * pool.spacing = WordAt(t) * (pool.spacing * WordSize)
    BY <2>2, V4Assumption
  <2>4. edge = WordAt(t) * WordWidth
    BY <2>1, <2>3 DEF WordWidth
  <2>5. edge \in Int
    BY <2>2, <2>4, WordWidthType
  <2>. QED
    BY <2>2, <2>4, <2>5 DEF Word, Position
<1>2. ahead \subseteq Int /\ IsFiniteSet(ahead)
  BY FS_Subset
<1> HIDE DEF edge
<1>3. CASE ahead = {}
  <2>1. n = edge
    BY <1>3 DEF NextTick, edge
  <2>. QED
    BY <1>1, <1>3, <2>1
<1>4. CASE ahead # {}
  <2>1. n = Max({edge, Max(ahead)})
    BY <1>4 DEF NextTick, edge
  <2>2. Max(ahead) \in ahead /\ \A x \in ahead : x <= Max(ahead)
    <3> HIDE DEF ahead
    <3>. QED
      BY <1>2, <1>4, MaxOfFinite
  <2>3. n = Max2(edge, Max(ahead))
    <3>1. Max(ahead) \in Int
      BY <1>2, <2>2
    <3>. QED
      BY <1>1, <2>1, <3>1, TwoElements
  <2>4. n \in {edge, Max(ahead)} /\ edge <= n /\ Max(ahead) <= n
    <3> DEFINE m == Max(ahead)
    <3>1. m \in Int
      BY <1>2, <2>2
    <3>2. n = Max2(edge, m)
      BY <2>3
    <3> HIDE DEF m, ahead, n
    <3>3. n \in {edge, m} /\ edge <= n /\ m <= n
      BY <1>1, <3>1, <3>2 DEF Max2
    <3>. QED
      BY <3>3 DEF m
  <2>5. n \in Int /\ n <= t
    BY <1>1, <1>2, <2>2, <2>4
  <2>6. \A x \in DOMAIN ticks : ~ (n < x /\ x <= t)
    <3> SUFFICES ASSUME NEW x \in DOMAIN ticks, x <= t PROVE ~ (n < x)
      OBVIOUS
    <3>1. x <= Max(ahead) /\ x \in Int /\ Max(ahead) \in Int
      BY <1>2, <2>2
    <3>. QED
      BY <2>4, <2>5, <3>1
  <2>. QED
    BY <1>1, <2>2, <2>4, <2>5, <2>6
<1>. QED
  BY <1>3, <1>4

(* Upwards: the least initialized tick above t, or the last tick of the    *)
(* word of the tick above t if it comes first.                             *)
LEMMA NextTickUp ==
  ASSUME pool.spacing \in Nat \ {0}, ~ zeroForOne, NEW t \in Int,
         DOMAIN ticks \subseteq Int, IsFiniteSet(DOMAIN ticks)
  PROVE  /\ NextTick(t) \in Int /\ t < NextTick(t)
         /\ \A x \in DOMAIN ticks : ~ (t < x /\ x < NextTick(t))
         /\ \/ NextTick(t) \in DOMAIN ticks
            \/ NextTick(t) + pool.spacing = (Word(t) + 1) * WordWidth
<1> DEFINE s == pool.spacing
           w == WordAt(t + s)
           edge == ((((t \div s + 1) \div WordSize) + 1) * WordSize - 1) * s
           ahead == {u \in DOMAIN ticks : t < u}
           n == NextTick(t)
<1>1. edge + s = (Word(t) + 1) * WordWidth /\ edge \in Int /\ t < edge
  <2>1. edge = ((w + 1) * WordSize - 1) * s
    BY Compressed DEF WordAt
  <2>2. w \in Int /\ t + s < w * WordWidth + WordWidth
    BY WordBounds
  <2>3. WordWidth = s * WordSize
    BY DEF WordWidth
  <2>4. WordSize \in Nat
    BY V4Assumption
  <2> HIDE DEF w, edge, s
  <2>5. s \in Nat
    BY DEF s
  <2>6. ((w + 1) * WordSize - 1) * s + s = w * (s * WordSize) + s * WordSize
    BY <2>2, <2>4, <2>5
  <2>7. (w + 1) * (s * WordSize) = w * (s * WordSize) + s * WordSize
    BY <2>2, <2>4, <2>5
  <2>8. ((w + 1) * WordSize - 1) * s \in Int
    BY <2>2, <2>4, <2>5
  <2>9. edge + s = w * WordWidth + WordWidth
    BY <2>1, <2>3, <2>6
  <2>10. t < edge
    <3>1. edge \in Int
      BY <2>1, <2>8
    <3>. QED
      BY <2>2, <2>5, <2>9, <3>1
  <2>. QED
    BY <2>1, <2>3, <2>7, <2>8, <2>9, <2>10 DEF Word, Position, s, w
<1>2. ahead \subseteq Int /\ IsFiniteSet(ahead)
  BY FS_Subset
<1> HIDE DEF edge
<1>3. CASE ahead = {}
  <2>1. n = edge
    BY <1>3 DEF NextTick, edge
  <2>. QED
    BY <1>1, <1>3, <2>1
<1>4. CASE ahead # {}
  <2>1. n = Min({edge, Min(ahead)})
    BY <1>4 DEF NextTick, edge
  <2>2. Min(ahead) \in ahead /\ \A x \in ahead : Min(ahead) <= x
    <3> HIDE DEF ahead
    <3>. QED
      BY <1>2, <1>4, MinOfFinite
  <2>3. n = Min2(edge, Min(ahead))
    <3>1. Min(ahead) \in Int
      BY <1>2, <2>2
    <3>. QED
      BY <1>1, <2>1, <3>1, TwoElements
  <2>4. n \in {edge, Min(ahead)} /\ n <= edge /\ n <= Min(ahead)
    <3> DEFINE m == Min(ahead)
    <3>1. m \in Int
      BY <1>2, <2>2
    <3>2. n = Min2(edge, m)
      BY <2>3
    <3> HIDE DEF m, ahead, n
    <3>3. n \in {edge, m} /\ n <= edge /\ n <= m
      BY <1>1, <3>1, <3>2 DEF Min2
    <3>. QED
      BY <3>3 DEF m
  <2>. QED
    BY <1>1, <2>2, <2>4
<1>. QED
  BY <1>3, <1>4

(***************************************************************************)
(* The invariant.                                                          *)
(***************************************************************************)
(* The loop's variables: the tick list is that of the history, the price   *)
(* lies between the current tick and the next, and the liquidity is that   *)
(* of the ranges around the current tick.                                  *)
LoopInv ==
    /\ StateOk
    /\ ticks = [t \in TicksOfRanges |-> Net(t)]
    /\ tick \in MinTick..MaxTick - 1
    /\ IF zeroForOne THEN tick <= pool.tick ELSE pool.tick <= tick
    /\ price \in PriceAt(tick)..PriceAt(tick + 1)
    /\ price \in PriceAt(MinTick) + 1..PriceAt(MaxTick) - 1
    /\ liquidity = Active(tick)
    /\ remaining \in Nat /\ calculated \in Nat /\ iteration \in Nat

(* The initialized ticks and the words that lie behind the swap.           *)
TicksPassed(t) ==
    {x \in DOMAIN ticks :
       IF zeroForOne THEN t < x /\ x <= pool.tick ELSE pool.tick < x /\ x <= t}

WordsPassed(t) ==
    IF zeroForOne THEN Word(pool.tick) - Word(t) ELSE Word(t) - Word(pool.tick)

(* While the loop goes on, each iteration passed a tick or a word.         *)
Counted == LoopOn => iteration <= Cardinality(TicksPassed(tick)) + WordsPassed(tick)

IInv ==
    /\ pool \in Pools
    /\ TypeOK
    /\ pc # "done" => verdict = "none" /\ output = 0
    /\ pc = "loop" => LoopInv /\ Counted
    /\ verdict # "iterations"

(* What is derived from the pool alone stays as it is.                     *)
LEMMA SamePool ==
  ASSUME pool' = pool
  PROVE  /\ StateOk' <=> StateOk
         /\ [t \in TicksOfRanges |-> Net(t)]' = [t \in TicksOfRanges |-> Net(t)]
         /\ \A u : u = tick' => Active(tick)' = Active(u)
<1>1. delta' = delta /\ rangeKey' = rangeKey
  BY DEF delta, rangeKey
<1>2. Keys' = Keys
  BY <1>1 DEF Keys
<1>3. rangeLiquidity' = rangeLiquidity
  BY <1>1, <1>2, Zenon DEF rangeLiquidity
<1>4. TicksOfRanges' = TicksOfRanges
  BY <1>2, <1>3, Zenon DEF TicksOfRanges
<1>5. \A u : u = tick' => Active(tick)' = Active(u)
  BY <1>2, <1>3, Zenon DEF Active
<1>6. StateOk' <=> StateOk
  BY <1>2, <1>3, <1>4, Zenon
  DEF StateOk, RangeOk, NotOverdrawn, Active, Gross, Net, Starting, Ending
<1>7. [t \in TicksOfRanges |-> Net(t)]' = [t \in TicksOfRanges |-> Net(t)]
  BY <1>2, <1>3, <1>4, Zenon DEF Net, Starting, Ending
<1>. QED
  BY <1>5, <1>6, <1>7

(* So does what lies behind the swap, seen from the same tick.             *)
LEMMA SamePassed ==
  ASSUME pool' = pool, zeroForOne' = zeroForOne, ticks' = ticks, NEW u, u = tick'
  PROVE  /\ PriceLimit' = PriceLimit
         /\ TicksPassed(tick)' = TicksPassed(u)
         /\ WordsPassed(tick)' = WordsPassed(u)
<1>1. PriceLimit' = PriceLimit
  BY Zenon DEF PriceLimit
<1>2. TicksPassed(tick)' = TicksPassed(u)
  BY Zenon DEF TicksPassed
<1>3. WordsPassed(tick)' = WordsPassed(u)
  BY Zenon DEF WordsPassed, Word, Position, WordAt
<1>. QED
  BY <1>1, <1>2, <1>3

(* In the loop the tick list is finite and within the ticks there are.     *)
LEMMA ListOfLoop ==
  ASSUME pool \in Pools, LoopInv
  PROVE  /\ DOMAIN ticks = TicksOfRanges
         /\ DOMAIN ticks \subseteq MinTick..MaxTick /\ DOMAIN ticks \subseteq Int
         /\ IsFiniteSet(DOMAIN ticks)
         /\ MaxTick \in Nat \ {0} /\ MinTick = -MaxTick
         /\ tick \in Int /\ pool.tick \in MinTick..MaxTick - 1
         /\ pool.spacing \in Nat \ {0}
<1>1. DOMAIN ticks = TicksOfRanges
  BY DEF LoopInv
<1>2. MaxTick \in Nat \ {0} /\ MinTick = -MaxTick
  BY V4Assumption DEF MinTick
<1>3. TicksOfRanges \subseteq MinTick..MaxTick /\ IsFiniteSet(TicksOfRanges)
  BY AcceptedRanges DEF LoopInv
<1>4. pool.tick \in MinTick..MaxTick - 1 /\ pool.spacing \in Nat \ {0}
  BY <1>2, Ranges DEF LoopInv, StateOk
<1>. QED
  BY <1>1, <1>2, <1>3, <1>4 DEF LoopInv

(* The bound on the iterations is never met while the loop goes on: among  *)
(* the ticks passed is not the end of a range that holds the pool's tick.  *)
LEMMA IterationsLeft ==
  ASSUME IInv, LoopOn
  PROVE  iteration < MaxIterations /\ ~ (iteration >= MaxIterations)
<1> DEFINE D == DOMAIN ticks
           P == TicksPassed(tick)
<1>0. pool \in Pools /\ LoopInv /\ Counted /\ zeroForOne \in BOOLEAN
  BY DEF IInv, LoopOn, TypeOK
<1>1. /\ IsFiniteSet(D) /\ D \subseteq Int /\ D = TicksOfRanges
      /\ MaxTick \in Nat \ {0} /\ MinTick = -MaxTick
      /\ tick \in Int /\ pool.tick \in MinTick..MaxTick - 1
      /\ pool.spacing \in Nat \ {0}
  BY <1>0, ListOfLoop
<1>2. \E x \in D : x \notin P
  <2>1. PICK k1, k2 \in TicksOfRanges : k1 <= pool.tick /\ pool.tick < k2
    <3>1. Active(pool.tick) # 0
      BY <1>0 DEF LoopInv, StateOk
    <3>. QED
      BY <1>0, <1>1, <3>1, ActiveBounded DEF LoopInv
  <2>2. k1 \in D /\ k2 \in D /\ k1 \in Int /\ k2 \in Int
    BY <1>1, <2>1
  <2>3. IF zeroForOne THEN k2 \notin P ELSE k1 \notin P
    BY <1>0, <1>1, <2>1, <2>2 DEF TicksPassed
  <2>. QED
    BY <1>0, <2>2, <2>3
<1>3. Cardinality(P) \in Nat /\ Cardinality(D) \in Nat /\ Cardinality(P) < Cardinality(D)
  <2>1. P \subseteq D /\ P # D
    BY <1>2 DEF TicksPassed
  <2> HIDE DEF P, D
  <2>2. IsFiniteSet(P) /\ Cardinality(P) <= Cardinality(D) /\ Cardinality(P) # Cardinality(D)
    BY <1>1, <2>1, FS_Subset
  <2>3. Cardinality(P) \in Nat /\ Cardinality(D) \in Nat
    BY <1>1, <2>2, FS_CardinalityType
  <2>. QED
    BY <2>2, <2>3
<1>4. WordsPassed(tick) \in Int /\ WordsPassed(tick) <= Words
  <2> DEFINE x == Position(tick)
             y == Position(pool.tick)
             d == MaxTick - MinTick
  <2>0. WordWidth \in Nat \ {0}
    BY <1>1, WordWidthType
  <2>1. Words = (d + WordWidth - 1) \div WordWidth
    <3>1. WordWidth = pool.spacing * WordSize
      BY DEF WordWidth
    <3>. QED
      BY <3>1, Zenon DEF Words
  <2>2. x \in Int /\ y \in Int /\ d \in Nat /\ x - y <= d /\ y - x <= d
    <3>1. tick \in MinTick..MaxTick - 1
      BY <1>0 DEF LoopInv
    <3>. QED
      BY <1>0, <1>1, <3>1 DEF Position
  <2> HIDE DEF x, y, d
  <2>3. WordAt(x) \in Int /\ WordAt(y) \in Int
    BY <1>1, <2>2, WordBounds
  <2>4. WordAt(x) - WordAt(y) <= Words /\ WordAt(y) - WordAt(x) <= Words
    BY <1>1, <2>1, <2>2, WordSpan
  <2>5. Words \in Int
    BY <2>0, <2>1, <2>2
  <2>. QED
    BY <1>0, <2>3, <2>4, <2>5 DEF WordsPassed, Word, x, y
<1>5. Words \in Int /\ Slack \in Nat
  <2>1. WordWidth \in Nat \ {0}
    BY <1>1, WordWidthType
  <2>2. Words = (MaxTick - MinTick + WordWidth - 1) \div WordWidth
    BY Zenon DEF Words, WordWidth
  <2>. QED
    BY <1>1, <2>1, <2>2, V4Assumption
<1>6. MaxIterations = Cardinality(D) + Words + Slack
  BY DEF MaxIterations
<1>7. iteration \in Nat /\ iteration <= Cardinality(P) + WordsPassed(tick)
  BY <1>0 DEF LoopInv, Counted
<1> HIDE DEF P, D
<1>. QED
  BY <1>3, <1>4, <1>5, <1>6, <1>7

(* What a step of the swap may do: the next tick lies ahead with no        *)
(* initialized tick before it, and the price moves towards it, to it, or   *)
(* until the input or the price limit is met.                              *)
LEMMA Step ==
  ASSUME IInv, LoopOn,
         NEW next, next = Clamped(NextTick(tick)), NEW step \in SwapSteps(Target(next))
  PROVE  /\ next \in MinTick..MaxTick
         /\ step.price \in PriceAt(MinTick) + 1..PriceAt(MaxTick) - 1
         /\ step.out \in Nat /\ step.spent \in Nat /\ remaining - step.spent \in Nat
         /\ \/ step.price = PriceAt(next)
            \/ remaining = step.spent
            \/ step.price = PriceLimit
         /\ zeroForOne =>
              /\ next <= tick
              /\ PriceAt(next) <= step.price /\ step.price <= price
              /\ \A x \in TicksOfRanges : ~ (next < x /\ x <= tick)
         /\ ~ zeroForOne =>
              /\ tick < next
              /\ price <= step.price /\ step.price <= PriceAt(next)
              /\ \A x \in TicksOfRanges : ~ (tick < x /\ x < next)
         /\ step.price = PriceAt(next) => next = NextTick(tick)
<1> DEFINE n == NextTick(tick)
           target == Target(next)
<1>0. pool \in Pools /\ LoopInv /\ zeroForOne \in BOOLEAN
  BY DEF IInv, LoopOn, TypeOK
<1>1. /\ IsFiniteSet(DOMAIN ticks) /\ DOMAIN ticks \subseteq MinTick..MaxTick
      /\ DOMAIN ticks \subseteq Int /\ DOMAIN ticks = TicksOfRanges
      /\ MaxTick \in Nat \ {0} /\ MinTick = -MaxTick /\ MinTick \in Int
      /\ tick \in MinTick..MaxTick - 1 /\ pool.spacing \in Nat \ {0} /\ tick \in Int
  BY <1>0, ListOfLoop DEF LoopInv
<1>2. /\ price \in 3 * tick..3 * (tick + 1)
      /\ price \in 3 * MinTick + 1..3 * MaxTick - 1
      /\ remaining \in Nat \ {0} /\ price # PriceLimit
  BY <1>0 DEF LoopInv, PriceAt, LoopOn
<1>3. /\ StepCosts \subseteq Nat /\ StepOuts \subseteq Nat
  BY V4Assumption
<1>4. ASSUME target \in Int
      PROVE  /\ step.out \in Nat /\ step.spent \in Nat /\ remaining - step.spent \in Nat
             /\ step.price \in Int
             /\ step.price = target \/ remaining = step.spent
             /\ \/ step.price = target
                \/ IF zeroForOne THEN target + 1 <= step.price /\ step.price <= price
                                 ELSE price <= step.price /\ step.price <= target - 1
  <2> HIDE DEF target
  <2>1. \/ \E s \in {0} \cup {c \in StepCosts : c < remaining} \cup {remaining},
              o \in {0} \cup StepOuts : step = [price |-> target, spent |-> s, out |-> o]
        \/ \E p \in IF zeroForOne THEN target + 1..price ELSE price..target - 1,
              o \in {0} \cup StepOuts : step = [price |-> p, spent |-> remaining, out |-> o]
    <3> DEFINE short == IF zeroForOne THEN target + 1..price ELSE price..target - 1
    <3>1. step \in SwapSteps(target)
      BY DEF target
    <3> DEFINE costs == IF target = price THEN {0}
                        ELSE {c \in StepCosts : c < remaining} \cup {remaining}
               outs == IF target = price THEN {0} ELSE StepOuts
               reached == {[price |-> target, spent |-> s, out |-> o] : s \in costs, o \in outs}
               stopped == {[price |-> p, spent |-> remaining, out |-> o] :
                             p \in short \ {price}, o \in StepOuts}
               stayed == {[price |-> p, spent |-> remaining, out |-> 0] :
                             p \in short \cap {price}}
    <3>2. step \in reached \/ step \in stopped \/ step \in stayed
      BY <3>1 DEF SwapSteps
    <3>3. step \in reached =>
            \E s \in costs, o \in outs : step = [price |-> target, spent |-> s, out |-> o]
      <4> HIDE DEF costs, outs
      <4>. QED
        OBVIOUS
    <3>4. step \in stopped =>
            \E p \in short, o \in {0} \cup StepOuts :
               step = [price |-> p, spent |-> remaining, out |-> o]
      <4> HIDE DEF short
      <4>. QED
        OBVIOUS
    <3>5. step \in stayed =>
            \E p \in short, o \in {0} \cup StepOuts :
               step = [price |-> p, spent |-> remaining, out |-> o]
      BY Zenon
    <3>6. /\ costs \subseteq {0} \cup {c \in StepCosts : c < remaining} \cup {remaining}
          /\ outs \subseteq {0} \cup StepOuts
      OBVIOUS
    <3> HIDE DEF costs, outs, reached, stopped, stayed
    <3>. QED
      BY <3>2, <3>3, <3>4, <3>5, <3>6, Zenon
  <2>2. CASE \E s \in {0} \cup {c \in StepCosts : c < remaining} \cup {remaining},
                o \in {0} \cup StepOuts : step = [price |-> target, spent |-> s, out |-> o]
    BY <1>2, <1>3, <1>4, <2>2
  <2>3. CASE \E p \in IF zeroForOne THEN target + 1..price ELSE price..target - 1,
                o \in {0} \cup StepOuts : step = [price |-> p, spent |-> remaining, out |-> o]
    <3>1. PICK p \in IF zeroForOne THEN target + 1..price ELSE price..target - 1,
               o \in {0} \cup StepOuts : step = [price |-> p, spent |-> remaining, out |-> o]
      BY <2>3
    <3>2. step.price = p /\ step.spent = remaining /\ step.out = o
      BY <3>1
    <3>. QED
      BY <1>0, <1>2, <1>3, <1>4, <3>1, <3>2
  <2>. QED
    BY <2>1, <2>2, <2>3
<1>5. CASE zeroForOne
  <2>1. /\ n \in Int /\ n <= tick
        /\ \A x \in DOMAIN ticks : ~ (n < x /\ x <= tick)
    BY <1>1, <1>5, NextTickDown
  <2> HIDE DEF n
  <2>2. next = IF n < MinTick THEN MinTick ELSE n
    BY <1>1, <2>1 DEF Clamped, n
  <2>3. /\ next \in MinTick..MaxTick /\ next <= tick
        /\ \A x \in DOMAIN ticks : ~ (next < x /\ x <= tick)
    BY <1>1, <2>1, <2>2
  <2>4. target = Max2(3 * next, 3 * MinTick + 1) /\ PriceLimit = 3 * MinTick + 1
    <3>1. 3 * next \in Int /\ 3 * MinTick + 1 \in Int
      BY <1>1, <2>3
    <3>. QED
      BY <1>5, <3>1, TwoElements DEF Target, PriceLimit, PriceAt
  <2> HIDE DEF target
  <2>5. /\ target \in Int /\ target <= price
        /\ target = 3 * next \/ target = PriceLimit
        /\ 3 * next <= target /\ 3 * MinTick + 1 <= target
    BY <1>1, <1>2, <2>3, <2>4 DEF Max2
  <2>6. 3 * next <= step.price /\ step.price <= price /\ 3 * MinTick + 1 <= step.price
    BY <1>1, <1>2, <1>4, <1>5, <2>3, <2>5
  <2>7. step.price = 3 * next => next = n
    BY <1>1, <2>1, <2>2, <2>3, <2>6
  <2>8. \/ step.price = 3 * next \/ remaining = step.spent \/ step.price = PriceLimit
    BY <1>4, <2>5
  <2>. QED
    BY <1>1, <1>2, <1>4, <1>5, <2>3, <2>5, <2>6, <2>7, <2>8 DEF PriceAt, n
<1>6. CASE ~ zeroForOne
  <2>1. /\ n \in Int /\ tick < n
        /\ \A x \in DOMAIN ticks : ~ (tick < x /\ x < n)
    BY <1>1, <1>6, NextTickUp
  <2> HIDE DEF n
  <2>2. next = IF n > MaxTick THEN MaxTick ELSE n
    BY <1>1, <2>1 DEF Clamped, n
  <2>3. /\ next \in MinTick..MaxTick /\ tick < next
        /\ \A x \in DOMAIN ticks : ~ (tick < x /\ x < next)
    BY <1>1, <2>1, <2>2
  <2>4. target = Min2(3 * next, 3 * MaxTick - 1) /\ PriceLimit = 3 * MaxTick - 1
    <3>1. 3 * next \in Int /\ 3 * MaxTick - 1 \in Int
      BY <1>1, <2>3
    <3>. QED
      BY <1>6, <3>1, TwoElements DEF Target, PriceLimit, PriceAt
  <2> HIDE DEF target
  <2>5. /\ target \in Int /\ price <= target
        /\ target = 3 * next \/ target = PriceLimit
        /\ target <= 3 * next /\ target <= 3 * MaxTick - 1
    BY <1>1, <1>2, <2>3, <2>4 DEF Min2
  <2>6. price <= step.price /\ step.price <= 3 * next /\ step.price <= 3 * MaxTick - 1
    BY <1>1, <1>2, <1>4, <1>6, <2>3, <2>5
  <2>7. step.price = 3 * next => next = n
    BY <1>1, <2>1, <2>2, <2>3, <2>6
  <2>8. \/ step.price = 3 * next \/ remaining = step.spent \/ step.price = PriceLimit
    BY <1>4, <2>5
  <2>. QED
    BY <1>1, <1>2, <1>4, <1>6, <2>3, <2>5, <2>6, <2>7, <2>8 DEF PriceAt, n
<1>. QED
  BY <1>0, <1>5, <1>6

(* The invariant holds initially.                                          *)
LEMMA InitInv == Init => IInv
<1> SUFFICES ASSUME Init PROVE IInv
  OBVIOUS
<1>1. MaxTick \in Nat \ {0} /\ MinTick = -MaxTick
  BY V4Assumption DEF MinTick
<1>2. DOMAIN ticks = {}
  BY DEF Init
<1>3. TypeOK
  BY <1>1, <1>2 DEF Init, TypeOK, PriceAt
<1>. QED
  BY <1>3 DEF Init, IInv

(* Entering the loop establishes its part of the invariant.                *)
LEMMA StartLoopInv ==
  ASSUME IInv, StartLoop
  PROVE  IInv'
<1>0. pool \in Pools /\ zeroForOne \in BOOLEAN /\ verdict = "none" /\ output = 0
  BY DEF IInv, TypeOK, StartLoop
<1>1. /\ pool' = pool /\ zeroForOne' = zeroForOne /\ pc' = "loop"
      /\ ticks' = [t \in TicksOfRanges |-> Net(t)]
      /\ tick' = pool.tick /\ price' = pool.price /\ liquidity' = Active(pool.tick)
      /\ remaining' \in Amounts /\ calculated' = 0 /\ iteration' = 0
      /\ output' = output /\ verdict' = verdict
      /\ StateOk
  BY DEF StartLoop
<1>2. /\ TicksOfRanges \subseteq MinTick..MaxTick
      /\ pool.tick \in Int /\ pool.price \in PriceAt(MinTick) + 1..PriceAt(MaxTick) - 1
      /\ pool.spacing \in Nat \ {0}
  BY <1>0, <1>1, AcceptedRanges, Ranges
<1>3. /\ MaxTick \in Nat \ {0} /\ MinTick = -MaxTick
      /\ Amounts \subseteq Nat /\ MinTick \in Int
  BY V4Assumption DEF MinTick
<1>4. Active(pool.tick) \in Nat
  BY <1>0, <1>1, <1>2, SumsOfRanges
<1>5. /\ tick' \in MinTick..MaxTick - 1
      /\ price' \in PriceAt(tick')..PriceAt(tick' + 1)
      /\ price' \in PriceAt(MinTick) + 1..PriceAt(MaxTick) - 1
  BY <1>1, <1>2, <1>3 DEF StateOk, PriceAt
<1>6. LoopInv'
  <2>1. StateOk' /\ [t \in TicksOfRanges |-> Net(t)]' = [t \in TicksOfRanges |-> Net(t)]
    BY <1>1, SamePool
  <2>2. Active(tick)' = Active(pool.tick)
    BY <1>1, SamePool
  <2>. QED
    BY <1>1, <1>2, <1>3, <1>5, <2>1, <2>2 DEF LoopInv, PriceAt, MinTick
<1>7. Counted'
  <2>1. TicksPassed(tick)' = {}
    <3>1. DOMAIN ticks' \subseteq Int
      BY <1>1, <1>2, <1>3
    <3>2. TicksPassed(tick)' = {x \in DOMAIN ticks' :
            IF zeroForOne THEN pool.tick < x /\ x <= pool.tick ELSE pool.tick < x /\ x <= pool.tick}
      BY <1>1, Zenon DEF TicksPassed
    <3>. QED
      BY <1>2, <3>1, <3>2
  <2>2. WordsPassed(tick)' = 0
    <3> DEFINE w == Word(pool.tick)
    <3>1. w \in Int
      BY <1>0, <1>2, WordBounds DEF Word, Position
    <3>2. Word(pool.tick)' = w /\ Word(tick)' = w
      BY <1>1 DEF Word, Position, WordAt
    <3> HIDE DEF w
    <3>. QED
      BY <3>1, <3>2 DEF WordsPassed
  <2>. QED
    BY <1>1, <2>1, <2>2, FS_EmptySet DEF Counted
<1>8. \A t \in DOMAIN ticks' : t \in MinTick..MaxTick /\ FitsInt128(ticks'[t])
  BY <1>1, <1>2 DEF StateOk
<1>9. TypeOK'
  <2>1. price' \in PriceAt(MinTick)..PriceAt(MaxTick) /\ tick' \in MinTick - 1..MaxTick
    BY <1>3, <1>5 DEF PriceAt
  <2>2. {liquidity', remaining', calculated'} \subseteq Nat /\ iteration' \in Nat
    BY <1>1, <1>3, <1>4
  <2>. QED
    BY <1>0, <1>1, <1>8, <2>1, <2>2 DEF TypeOK, MinTick, PriceAt, FitsInt128
<1>. QED
  BY <1>0, <1>1, <1>6, <1>7, <1>9 DEF IInv

(* The cuts leave no more than there was.                                  *)
LEMMA CutsTake ==
  ASSUME calculated \in Nat, NEW a \in CutRates, NEW b \in CutRates
  PROVE  AfterCuts(a, b) \in Int /\ AfterCuts(a, b) <= calculated
<1>1. a \in Nat /\ b \in Nat /\ BPS \in Nat \ {0}
  BY V4Assumption
<1>2. ASSUME NEW r \in Nat PROVE (calculated * r) \div BPS \in Nat
  <2>1. calculated * r \in Nat
    OBVIOUS
  <2>. QED
    BY <1>1, <2>1
<1>3. (calculated * a) \div BPS \in Nat /\ (calculated * b) \div BPS \in Nat
  BY <1>1, <1>2
<1>. QED
  BY <1>3 DEF AfterCuts

(* The end of the loop keeps the invariant.                                *)
LEMMA LoopEndsInv ==
  ASSUME IInv, LoopEnds
  PROVE  IInv'
<1>0. /\ pool \in Pools /\ TypeOK /\ verdict = "none" /\ output = 0
      /\ calculated \in Nat
  BY DEF IInv, LoopEnds, LoopInv
<1>1. /\ pool' = pool /\ zeroForOne' = zeroForOne /\ pc' = "done"
      /\ ticks' = ticks /\ tick' = tick /\ price' = price /\ liquidity' = liquidity
      /\ remaining' = remaining /\ calculated' = calculated /\ iteration' = iteration
  BY DEF LoopEnds, Ends, loopVars
<1>2. PICK a \in CutRates, b \in CutRates :
        IF AfterCuts(a, b) > 0
        THEN output' = AfterCuts(a, b) /\ verdict' = "quoted"
        ELSE output' = output /\ verdict' = "nothing"
  BY DEF LoopEnds, Ends
<1>3. AfterCuts(a, b) \in Int /\ AfterCuts(a, b) <= calculated
  BY <1>0, CutsTake
<1>4. /\ output' \in 0..calculated' /\ (verdict' = "quoted") = (output' > 0)
      /\ verdict' \in {"quoted", "nothing"}
  <2> DEFINE c == AfterCuts(a, b)
  <2> HIDE DEF c
  <2>1. /\ c \in Int /\ c <= calculated
        /\ IF c > 0 THEN output' = c /\ verdict' = "quoted"
                    ELSE output' = output /\ verdict' = "nothing"
    BY <1>2, <1>3 DEF c
  <2>. QED
    BY <1>0, <1>1, <2>1
<1>5. TypeOK'
  BY <1>0, <1>1, <1>4 DEF TypeOK, MinTick, PriceAt, FitsInt128
<1>. QED
  BY <1>0, <1>1, <1>4, <1>5 DEF IInv

(* A refusal keeps the invariant, and is never for the iterations.         *)
LEMMA RefusedInv ==
  ASSUME IInv, RefuseState \/ RefuseIteration
  PROVE  IInv'
<1>0. pool \in Pools /\ TypeOK /\ verdict = "none" /\ output = 0
  BY DEF IInv, RefuseState, RefuseIteration, LoopOn
<1>1. /\ pool' = pool /\ zeroForOne' = zeroForOne /\ pc' = "done"
      /\ ticks' = ticks /\ tick' = tick /\ price' = price /\ liquidity' = liquidity
      /\ remaining' = remaining /\ calculated' = calculated /\ iteration' = iteration
      /\ output' = output
  BY DEF RefuseState, RefuseIteration, Ends, loopVars
<1>2. verdict' \in {"invalid", "noLiquidity"}
  <2>1. CASE RefuseState
    BY <2>1 DEF RefuseState, Ends
  <2>2. CASE RefuseIteration
    <3>1. ~ (iteration >= MaxIterations)
      BY <2>2, IterationsLeft DEF RefuseIteration
    <3>. QED
      BY <2>2, <3>1 DEF RefuseIteration, Ends
  <2>. QED
    BY <2>1, <2>2
<1>3. TypeOK'
  BY <1>0, <1>1, <1>2 DEF TypeOK, MinTick, PriceAt, FitsInt128
<1>. QED
  BY <1>0, <1>1, <1>2, <1>3 DEF IInv

(* A step that crosses the next tick.                                      *)
LEMMA Crossing ==
  ASSUME IInv, LoopOn,
         NEW next, next = Clamped(NextTick(tick)), NEW step \in SwapSteps(Target(next)),
         step.price = PriceAt(next)
  PROVE  LET u == TickAfterCrossing(next)
         IN  /\ u \in MinTick..MaxTick - 1
             /\ IF zeroForOne THEN u <= pool.tick ELSE pool.tick <= u
             /\ step.price \in PriceAt(u)..PriceAt(u + 1)
             /\ Crossed(next) = Active(u)
             /\ Cardinality(TicksPassed(tick)) + WordsPassed(tick) + 1
                  <= Cardinality(TicksPassed(u)) + WordsPassed(u)
<1> DEFINE u == TickAfterCrossing(next)
           P == TicksPassed(tick)
           Q == TicksPassed(u)
           x == Position(tick)
           y == Position(u)
<1>0. pool \in Pools /\ LoopInv /\ zeroForOne \in BOOLEAN /\ liquidity = Active(tick) /\ StateOk
  BY DEF IInv, LoopOn, TypeOK, LoopInv
<1>1. /\ IsFiniteSet(DOMAIN ticks) /\ DOMAIN ticks \subseteq Int
      /\ DOMAIN ticks = TicksOfRanges /\ ticks = [t \in TicksOfRanges |-> Net(t)]
      /\ MaxTick \in Nat \ {0} /\ MinTick = -MaxTick /\ MinTick \in Int
      /\ tick \in MinTick..MaxTick - 1 /\ tick \in Int
      /\ pool.spacing \in Nat \ {0} /\ pool.tick \in Int
      /\ IF zeroForOne THEN tick <= pool.tick ELSE pool.tick <= tick
  BY <1>0, ListOfLoop DEF LoopInv
<1>2. /\ next \in MinTick..MaxTick /\ next \in Int
      /\ step.price \in PriceAt(MinTick) + 1..PriceAt(MaxTick) - 1
      /\ zeroForOne => /\ next <= tick
                       /\ \A t \in TicksOfRanges : ~ (next < t /\ t <= tick)
      /\ ~ zeroForOne => /\ tick < next
                         /\ \A t \in TicksOfRanges : ~ (tick < t /\ t < next)
      /\ next = NextTick(tick)
  BY <1>1, Step
<1>3. u = (IF zeroForOne THEN next - 1 ELSE next) /\ u \in Int
  BY <1>2 DEF TickAfterCrossing
<1>4. /\ u \in MinTick..MaxTick - 1 /\ step.price \in PriceAt(u)..PriceAt(u + 1)
      /\ IF zeroForOne THEN u <= pool.tick ELSE pool.tick <= u
  BY <1>0, <1>1, <1>2, <1>3 DEF PriceAt
<1>5. Crossed(next) = Active(u)
  <2>1. Active(next) = Active(next - 1) + Net(next)
    BY <1>0, <1>2, ActiveAcross
  <2>2. Net(next) = IF next \in DOMAIN ticks THEN ticks[next] ELSE 0
    BY <1>0, <1>1, <1>2, NetElsewhere
  <2>3. Active(next - 1) \in Nat /\ Active(next) \in Nat /\ Active(tick) \in Nat
    <3>1. next - 1 \in Int
      BY <1>2
    <3>. QED
      BY <1>0, <1>1, <1>2, <3>1, SumsOfRanges
  <2>4. Net(next) \in Int
    BY <1>0, <1>2, SumsOfRanges DEF Net
  <2>5. CASE zeroForOne
    <3>1. Active(next) = Active(tick)
      BY <1>0, <1>1, <1>2, <2>5, ActiveBetween
    <3>2. Crossed(next) = Active(tick) - Net(next)
      BY <1>0, <2>2, <2>3, <2>4, <2>5 DEF Crossed
    <3>3. Active(u) = Active(next - 1)
      BY <1>3, <2>5
    <3>. QED
      BY <2>1, <2>3, <2>4, <3>1, <3>2, <3>3
  <2>6. CASE ~ zeroForOne
    <3>1. Active(tick) = Active(next - 1)
      <4>1. next - 1 \in Int /\ tick <= next - 1
        BY <1>1, <1>2, <2>6
      <4>2. \A t \in TicksOfRanges : ~ (tick < t /\ t <= next - 1)
        BY <1>1, <1>2, <2>6
      <4>. QED
        BY <1>0, <1>1, <4>1, <4>2, ActiveBetween
    <3>2. Crossed(next) = Active(tick) + Net(next)
      BY <1>0, <2>2, <2>3, <2>4, <2>6 DEF Crossed
    <3>3. Active(u) = Active(next)
      BY <1>3, <2>6
    <3>. QED
      BY <2>1, <2>3, <2>4, <3>1, <3>2, <3>3
  <2>. QED
    BY <1>0, <2>5, <2>6
<1>6. /\ P \subseteq Q /\ IsFiniteSet(Q) /\ IsFiniteSet(P)
      /\ Cardinality(P) \in Nat /\ Cardinality(Q) \in Nat /\ Cardinality(P) <= Cardinality(Q)
  <2>1. P \subseteq Q
    BY <1>0, <1>1, <1>2, <1>3 DEF TicksPassed
  <2>2. IsFiniteSet(Q)
    BY <1>1, FS_Subset DEF TicksPassed
  <2> HIDE DEF P, Q
  <2>3. IsFiniteSet(P) /\ Cardinality(P) <= Cardinality(Q)
    BY <2>1, <2>2, FS_Subset
  <2>. QED
    BY <2>1, <2>2, <2>3, FS_CardinalityType
<1>7. x \in Int /\ y \in Int /\ Position(pool.tick) \in Int
  BY <1>0, <1>1, <1>3 DEF Position
<1>8. /\ WordAt(x) \in Int /\ WordAt(y) \in Int /\ WordAt(Position(pool.tick)) \in Int
      /\ WordWidth \in Nat \ {0}
  <2> HIDE DEF x, y
  <2>. QED
    BY <1>1, <1>7, WordBounds, WordWidthType
<1>9. /\ zeroForOne => y <= x
      /\ ~ zeroForOne => x <= y
  BY <1>1, <1>2, <1>3 DEF Position
<1>10. /\ zeroForOne => WordAt(y) <= WordAt(x)
       /\ ~ zeroForOne => WordAt(x) <= WordAt(y)
  <2> HIDE DEF x, y
  <2>. QED
    BY <1>1, <1>7, <1>9, WordMonotone
<1>11. Cardinality(P) + WordsPassed(tick) + 1 <= Cardinality(Q) + WordsPassed(u)
  <2>1. WordsPassed(u) - WordsPassed(tick)
          = IF zeroForOne THEN WordAt(x) - WordAt(y) ELSE WordAt(y) - WordAt(x)
    <3> DEFINE w == WordAt(Position(pool.tick))
    <3>1. /\ WordsPassed(u) = IF zeroForOne THEN w - WordAt(y) ELSE WordAt(y) - w
          /\ WordsPassed(tick) = IF zeroForOne THEN w - WordAt(x) ELSE WordAt(x) - w
      BY DEF WordsPassed, Word
    <3> HIDE DEF w, x, y, u
    <3>. QED
      BY <1>0, <1>8, <3>1 DEF w
  <2>2. WordsPassed(u) \in Int /\ WordsPassed(tick) \in Int
    <3>1. /\ Word(u) = WordAt(y) /\ Word(tick) = WordAt(x)
      BY DEF Word
    <3> HIDE DEF x, y, u
    <3>. QED
      BY <1>0, <1>8, <3>1 DEF WordsPassed, Word
  <2>3. CASE next \in DOMAIN ticks
    <3>1. next \in Q /\ next \notin P
      BY <1>0, <1>1, <1>2, <1>3, <2>3 DEF TicksPassed
    <3>2. Cardinality(P) # Cardinality(Q)
      <4> HIDE DEF P, Q
      <4>. QED
        BY <1>6, <3>1, FS_Subset
    <3>3. Cardinality(P) + 1 <= Cardinality(Q)
      <4> HIDE DEF P, Q
      <4>. QED
        BY <1>6, <3>2
    <3>4. WordsPassed(tick) <= WordsPassed(u)
      <4> HIDE DEF u, x, y
      <4>. QED
        BY <1>0, <1>8, <1>10, <2>1, <2>2
    <3>5. Cardinality(P) \in Nat /\ Cardinality(Q) \in Nat
      BY <1>6
    <3> HIDE DEF P, Q, u
    <3>. QED
      BY <2>2, <3>3, <3>4, <3>5
  <2>4. CASE next \notin DOMAIN ticks
    <3>1. IF zeroForOne THEN WordAt(y) = WordAt(x) - 1 ELSE WordAt(y) = WordAt(x) + 1
      <4> DEFINE w == WordAt(x)
      <4>1. CASE zeroForOne
        <5>1. next = w * WordWidth
          BY <1>1, <1>2, <2>4, <4>1, NextTickDown DEF Word
        <5>2. y = w * WordWidth - 1
          BY <1>3, <4>1, <5>1 DEF Position
        <5> HIDE DEF w, y, x
        <5>3. w \in Int
          BY <1>8 DEF w
        <5>4. (w - 1) * WordWidth = w * WordWidth - WordWidth
          BY <1>8, <5>3
        <5>5. w * WordWidth \in Int
          BY <1>8, <5>3
        <5>6. (w - 1) * WordWidth <= y /\ y < (w - 1) * WordWidth + WordWidth
          BY <1>8, <5>2, <5>4, <5>5
        <5>7. WordAt(y) = w - 1
          <6>1. w - 1 \in Int
            BY <5>3
          <6>. QED
            BY <1>1, <1>7, <5>6, <6>1, WordUnique
        <5>. QED
          BY <4>1, <5>7 DEF w
      <4>2. CASE ~ zeroForOne
        <5>1. next + pool.spacing = (w + 1) * WordWidth
          BY <1>1, <1>2, <2>4, <4>2, NextTickUp DEF Word
        <5>2. y = (w + 1) * WordWidth
          BY <1>3, <4>2, <5>1 DEF Position
        <5> HIDE DEF w, y, x
        <5>3. w + 1 \in Int
          BY <1>8 DEF w
        <5>4. (w + 1) * WordWidth \in Int
          BY <1>8, <5>3
        <5>5. WordAt(y) = w + 1
          BY <1>1, <1>7, <1>8, <5>2, <5>3, <5>4, WordUnique
        <5>. QED
          BY <4>2, <5>5 DEF w
      <4>. QED
        BY <1>0, <4>1, <4>2
    <3> HIDE DEF P, Q, u, x, y
    <3>. QED
      BY <1>0, <1>6, <1>8, <2>1, <2>2, <3>1
  <2>. QED
    BY <2>3, <2>4
<1>. QED
  BY <1>4, <1>5, <1>11
(* What was passed can be counted.                                         *)
LEMMA PassedType ==
  ASSUME pool \in Pools, LoopInv, zeroForOne \in BOOLEAN, NEW u \in Int
  PROVE  Cardinality(TicksPassed(u)) \in Nat /\ WordsPassed(u) \in Int
<1>1. IsFiniteSet(DOMAIN ticks) /\ pool.spacing \in Nat \ {0} /\ pool.tick \in Int
  BY ListOfLoop, Ranges
<1>2. IsFiniteSet(TicksPassed(u))
  BY <1>1, FS_Subset DEF TicksPassed
<1>3. Position(u) \in Int /\ Position(pool.tick) \in Int
  BY <1>1 DEF Position
<1>4. WordsPassed(u) \in Int
  BY <1>1, <1>3, WordBounds DEF WordsPassed, Word
<1>. QED
  BY <1>2, <1>4, FS_CardinalityType

(* An iteration keeps the invariant, whichever outcome its step has.       *)
LEMMA IterateInv ==
  ASSUME IInv, Iterate
  PROVE  IInv'
<1> DEFINE next == Clamped(NextTick(tick))
<1>0. /\ LoopOn /\ pc = "loop" /\ pool \in Pools /\ TypeOK /\ LoopInv /\ Counted
      /\ verdict = "none" /\ output = 0 /\ zeroForOne \in BOOLEAN /\ StateOk
  BY DEF Iterate, LoopOn, IInv, TypeOK, LoopInv
<1>1. PICK step \in SwapSteps(Target(next)) : Advance(step, next)
  BY DEF Iterate
<1> HIDE DEF next
<1>2. next = Clamped(NextTick(tick))
  BY DEF next
<1>3. /\ pool' = pool /\ zeroForOne' = zeroForOne /\ ticks' = ticks /\ output' = output
      /\ price' = step.price /\ remaining' = remaining - step.spent
      /\ calculated' = calculated + step.out /\ iteration' = iteration + 1
  BY <1>1 DEF Advance
<1>4. /\ MaxTick \in Nat \ {0} /\ MinTick = -MaxTick /\ MinTick \in Int
      /\ tick \in MinTick..MaxTick - 1 /\ tick \in Int
      /\ pool.tick \in Int
      /\ DOMAIN ticks = TicksOfRanges /\ DOMAIN ticks \subseteq Int
  BY <1>0, ListOfLoop DEF LoopInv
<1>5. /\ next \in MinTick..MaxTick
      /\ step.price \in PriceAt(MinTick) + 1..PriceAt(MaxTick) - 1
      /\ step.out \in Nat /\ step.spent \in Nat /\ remaining - step.spent \in Nat
      /\ \/ step.price = PriceAt(next)
         \/ remaining = step.spent
         \/ step.price = PriceLimit
      /\ zeroForOne =>
           /\ next <= tick
           /\ PriceAt(next) <= step.price /\ step.price <= price
           /\ \A x \in TicksOfRanges : ~ (next < x /\ x <= tick)
      /\ ~ zeroForOne =>
           /\ tick < next
           /\ price <= step.price /\ step.price <= PriceAt(next)
           /\ \A x \in TicksOfRanges : ~ (tick < x /\ x < next)
  BY <1>0, <1>1, <1>2, Step
<1>6. /\ calculated \in Nat /\ iteration \in Nat /\ remaining \in Nat
      /\ liquidity = Active(tick)
      /\ price \in PriceAt(tick)..PriceAt(tick + 1)
      /\ price \in PriceAt(MinTick) + 1..PriceAt(MaxTick) - 1
      /\ ticks = [t \in TicksOfRanges |-> Net(t)]
      /\ IF zeroForOne THEN tick <= pool.tick ELSE pool.tick <= tick
  BY <1>0 DEF LoopInv
<1>7. /\ calculated' \in Nat /\ iteration' \in Nat /\ remaining' \in Nat
      /\ price' \in PriceAt(MinTick) + 1..PriceAt(MaxTick) - 1
  BY <1>3, <1>5, <1>6
(* The parts of the invariant that follow from the tick and the liquidity. *)
<1>8. ASSUME tick' \in MinTick..MaxTick, liquidity' \in Nat,
             verdict' \in {"none", "stuck"}, pc' \in {"loop", "done"}
      PROVE  TypeOK'
  <2>1. price' \in PriceAt(MinTick)..PriceAt(MaxTick) /\ tick' \in MinTick - 1..MaxTick
    BY <1>4, <1>7, <1>8 DEF PriceAt
  <2>2. {liquidity', remaining', calculated'} \subseteq Nat
    BY <1>7, <1>8
  <2>3. \A t \in DOMAIN ticks' : t \in MinTick..MaxTick /\ FitsInt128(ticks'[t])
    BY <1>0, <1>3 DEF TypeOK
  <2>4. output' \in 0..calculated' /\ (verdict' = "quoted") = (output' > 0)
    BY <1>0, <1>3, <1>7, <1>8
  <2>. QED
    BY <1>0, <1>3, <1>7, <1>8, <2>1, <2>2, <2>3, <2>4
    DEF TypeOK, MinTick, PriceAt, FitsInt128
<1>9. ASSUME tick' \in MinTick..MaxTick - 1,
             IF zeroForOne THEN tick' <= pool.tick ELSE pool.tick <= tick',
             price' \in PriceAt(tick')..PriceAt(tick' + 1),
             liquidity' = Active(tick')
      PROVE  LoopInv' /\ liquidity' \in Nat
  <2> DEFINE u == tick'
  <2>1. StateOk' /\ [t \in TicksOfRanges |-> Net(t)]' = [t \in TicksOfRanges |-> Net(t)]
    BY <1>0, <1>3, SamePool
  <2>2. Active(tick)' = Active(u)
    BY <1>3, SamePool
  <2>3. Active(u) \in Nat
    <3>1. u \in Int
      BY <1>4, <1>9
    <3>. QED
      BY <1>0, <3>1, SumsOfRanges
  <2>. QED
    BY <1>3, <1>6, <1>7, <1>9, <2>1, <2>2, <2>3 DEF LoopInv, PriceAt, MinTick
<1>10. CASE step.price = PriceAt(next)
  <2> DEFINE u == TickAfterCrossing(next)
  <2>1. /\ liquidity' = Crossed(next) /\ tick' = u /\ pc' = pc /\ verdict' = verdict
    BY <1>1, <1>10 DEF Advance
  <2>2. /\ u \in MinTick..MaxTick - 1
        /\ IF zeroForOne THEN u <= pool.tick ELSE pool.tick <= u
        /\ step.price \in PriceAt(u)..PriceAt(u + 1)
        /\ Crossed(next) = Active(u)
        /\ Cardinality(TicksPassed(tick)) + WordsPassed(tick) + 1
             <= Cardinality(TicksPassed(u)) + WordsPassed(u)
    BY <1>0, <1>1, <1>2, <1>10, Crossing
  <2> HIDE DEF u
  <2>3. LoopInv' /\ liquidity' \in Nat
    BY <1>3, <1>9, <2>1, <2>2
  <2>4. Counted'
    <3>1. iteration <= Cardinality(TicksPassed(tick)) + WordsPassed(tick)
      BY <1>0 DEF Counted
    <3>2. TicksPassed(tick)' = TicksPassed(u) /\ WordsPassed(tick)' = WordsPassed(u)
      BY <1>3, <2>1, SamePassed
    <3>3. Cardinality(TicksPassed(tick))' = Cardinality(TicksPassed(u))
      BY <3>2, Zenon
    <3>4. /\ Cardinality(TicksPassed(tick)) + WordsPassed(tick) \in Int
          /\ Cardinality(TicksPassed(u)) + WordsPassed(u) \in Int
      <4>1. u \in Int
        BY <1>4, <2>2
      <4>2. /\ Cardinality(TicksPassed(tick)) \in Nat /\ WordsPassed(tick) \in Int
            /\ Cardinality(TicksPassed(u)) \in Nat /\ WordsPassed(u) \in Int
        BY <1>0, <1>4, <4>1, PassedType
      <4>. QED
        BY <4>2
    <3>. QED
      BY <1>3, <1>6, <2>2, <3>1, <3>2, <3>3, <3>4 DEF Counted
  <2>5. TypeOK'
    <3>1. tick' \in MinTick..MaxTick
      BY <1>4, <2>1, <2>2
    <3>. QED
      BY <1>0, <1>8, <2>1, <2>3, <3>1
  <2>. QED
    BY <1>0, <1>3, <2>1, <2>3, <2>4, <2>5 DEF IInv
<1>11. CASE step.price # PriceAt(next) /\ step.price # price
  <2> DEFINE u == TickAt(step.price)
  <2>1. liquidity' = liquidity /\ tick' = u /\ pc' = pc /\ verdict' = verdict
    BY <1>1, <1>11 DEF Advance
  <2>2. /\ u \in Int /\ 3 * u <= step.price /\ step.price < 3 * u + 3
    BY <1>4, <1>5 DEF TickAt, PriceAt
  <2> HIDE DEF u
  <2>3. /\ u \in MinTick..MaxTick - 1 /\ step.price \in PriceAt(u)..PriceAt(u + 1)
        /\ IF zeroForOne THEN u <= tick /\ next <= u ELSE tick <= u /\ u < next
    BY <1>0, <1>4, <1>5, <1>6, <1>11, <2>2 DEF PriceAt
  <2>4. Active(tick) = Active(u)
    <3>1. CASE zeroForOne
      <4>1. \A x \in TicksOfRanges : ~ (u < x /\ x <= tick)
        BY <1>4, <1>5, <2>2, <2>3, <3>1
      <4>. QED
        BY <1>0, <1>4, <2>2, <2>3, <3>1, <4>1, ActiveBetween
    <3>2. CASE ~ zeroForOne
      <4>1. \A x \in TicksOfRanges : ~ (tick < x /\ x <= u)
        BY <1>4, <1>5, <2>2, <2>3, <3>2
      <4>. QED
        BY <1>0, <1>4, <2>2, <2>3, <3>2, <4>1, ActiveBetween
    <3>. QED
      BY <1>0, <3>1, <3>2
  <2>5. LoopInv' /\ liquidity' \in Nat
    <3>1. IF zeroForOne THEN u <= pool.tick ELSE pool.tick <= u
      BY <1>4, <1>6, <2>2, <2>3
    <3>. QED
      BY <1>3, <1>6, <1>9, <2>1, <2>3, <2>4, <3>1
  <2>6. Counted'
    <3>1. remaining' = 0 \/ price' = PriceLimit
      BY <1>3, <1>5, <1>6, <1>11
    <3>2. PriceLimit' = PriceLimit
      BY <1>3, SamePassed
    <3>. QED
      BY <3>1, <3>2 DEF Counted, LoopOn
  <2>7. TypeOK'
    <3>1. tick' \in MinTick..MaxTick
      BY <1>4, <2>1, <2>3
    <3>. QED
      BY <1>0, <1>8, <2>1, <2>5, <3>1
  <2>. QED
    BY <1>0, <1>3, <2>1, <2>5, <2>6, <2>7 DEF IInv
<1>12. CASE step.price # PriceAt(next) /\ step.price = price
  <2>1. liquidity' = liquidity /\ tick' = tick /\ pc' = "done" /\ verdict' = "stuck"
    BY <1>1, <1>12 DEF Advance, Ends
  <2>2. liquidity' \in Nat /\ tick' \in MinTick..MaxTick
    BY <1>0, <1>4, <2>1 DEF TypeOK
  <2>3. TypeOK'
    BY <1>8, <2>1, <2>2
  <2>. QED
    BY <1>0, <1>3, <2>1, <2>3 DEF IInv
<1>. QED
  BY <1>10, <1>11, <1>12

(* Every step keeps the invariant.                                         *)
LEMMA NextInv ==
  ASSUME IInv, [Next]_vars
  PROVE  IInv'
<1>1. CASE RefuseState \/ RefuseIteration
  BY <1>1, RefusedInv
<1>2. CASE StartLoop
  BY <1>2, StartLoopInv
<1>3. CASE LoopEnds
  BY <1>3, LoopEndsInv
<1>4. CASE Iterate
  BY <1>4, IterateInv
<1>5. CASE UNCHANGED vars
  <2>1. /\ pool' = pool /\ zeroForOne' = zeroForOne /\ pc' = pc /\ ticks' = ticks
        /\ tick' = tick /\ price' = price /\ liquidity' = liquidity
        /\ remaining' = remaining /\ calculated' = calculated /\ iteration' = iteration
        /\ output' = output /\ verdict' = verdict
    BY <1>5 DEF vars, loopVars
  <2>2. TypeOK'
    BY <2>1 DEF IInv, TypeOK, MinTick, PriceAt, FitsInt128
  <2>3. LoopInv => LoopInv'
    BY <2>1, SamePool DEF LoopInv, PriceAt, MinTick
  <2>4. Counted => Counted'
    BY <2>1, SamePassed DEF Counted, LoopOn
  <2>. QED
    BY <2>1, <2>2, <2>3, <2>4 DEF IInv
<1>6. CASE Finished
  BY <1>5, <1>6 DEF Finished
<1>. QED
  BY <1>1, <1>2, <1>3, <1>4, <1>5, <1>6 DEF Next

(* The invariant holds in every behaviour.                                 *)
LEMMA Invariant == Spec => []IInv
<1>1. Init => IInv
  BY InitInv
<1>2. IInv /\ [Next]_vars => IInv'
  BY NextInv
<1>. QED
  BY <1>1, <1>2, PTL DEF Spec

(* The liquidity and the input left never go negative, the net amounts of  *)
(* the tick list fit its width, the price stays in range and a quote is    *)
(* never more than what the loop computed, for every pool the quote        *)
(* accepts (QuoteV4ExactInput).                                            *)
THEOREM TypeCorrect == Spec => []TypeOK
<1>1. IInv => TypeOK
  BY DEF IInv
<1>. QED
  BY <1>1, Invariant, PTL

(* Whatever ticks quoteV4CoreExactInput crossed, in either direction and   *)
(* from a price that sits exactly on a tick, the liquidity that prices the *)
(* next step is what the history of changes adds up to around the current  *)
(* tick.                                                                   *)
THEOREM LiquidityFollowsTick == Spec => []LiquidityMatchesTick
<1>1. IInv => LiquidityMatchesTick
  <2> SUFFICES ASSUME IInv, pc = "loop" PROVE LiquidityMatchesTick
    BY DEF LiquidityMatchesTick
  <2>1. pool \in Pools /\ LoopInv /\ liquidity = Active(tick)
    BY DEF IInv, LoopInv
  <2>2. tick \in Int
    BY <2>1, ListOfLoop
  <2>3. liquidity = SumFunctionOnSet(delta,
                      {i \in DOMAIN pool.ranges :
                         pool.ranges[i].lower <= tick /\ tick < pool.ranges[i].upper})
    BY <2>1, <2>2, ActiveIsOfHistory
  <2>. QED
    BY <2>3, Zenon DEF LiquidityMatchesTick
<1>. QED
  BY <1>1, Invariant, PTL

(* maxIterations of quoteV4CoreExactInput never refuses a swap: even       *)
(* without the eight iterations of slack each iteration that does not end  *)
(* the loop passes an initialized tick or a word of the bitmap, and one    *)
(* end of a range that holds the pool's tick is never among the ticks      *)
(* passed.                                                                 *)
THEOREM IterationBoundSuffices == Spec => []IterationsSuffice
<1>1. IInv => IterationsSuffice
  BY DEF IInv, IterationsSuffice
<1>. QED
  BY <1>1, Invariant, PTL
=============================================================================
