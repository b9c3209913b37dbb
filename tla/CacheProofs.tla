---------------------------- MODULE CacheProofs ----------------------------
(***************************************************************************)
(* The packument cache, for any documents, sizes, limits and number of       *)
(* handlers: it implements LossyCache, it stays within its limits, and it    *)
(* evicts nothing that could have stayed.                                    *)
(*                                                                           *)
(* The first does not depend on which entries make_room keeps, only on what  *)
(* an entry may turn into: nothing, or what was inserted last under its key. *)
(* The other two are about sums and about a pass down an order, so the first *)
(* half of the module is about those: what MapThenSumSet and FoldLeft        *)
(* compute, by induction on the size of the set that is folded.              *)
(***************************************************************************)
EXTENDS Cache, FiniteSetTheorems, TLAPS

-----------------------------------------------------------------------------
(* Sums over finite sets.                                                   *)

(* Induction up to a natural number, of a set.                              *)
LEMMA UpTo ==
  ASSUME NEW n \in Nat, NEW T, 0 \in T,
         \A k \in 0..n : k < n /\ k \in T => k + 1 \in T
  PROVE  \A k \in 0..n : k \in T
<1> DEFINE Missing == {k \in 0..n : k \notin T}
<1> SUFFICES ASSUME Missing # {}
             PROVE  FALSE
  OBVIOUS
<1>1. Missing \subseteq Nat
  OBVIOUS
<1>2. PICK x \in Missing : \A y \in Missing : ~ (<<y, x>> \in OpToRel(<, Nat))
  <2> HIDE DEF Missing
  <2> QED
    BY <1>1, NatLessThanWellFounded, WFMin
<1>3. \A y \in Missing : ~(y < x)
  BY <1>1, <1>2 DEF OpToRel
<1>4. x \in 1..n /\ x - 1 \notin Missing
  BY <1>3
<1> QED
  BY <1>4

(* What a fold over the subsets of S is: `pick` chooses the member that a   *)
(* set gives up, and `step` adds it to what the fold makes of the others.   *)
Iterates(g, S, V, base, pick, step) ==
  /\ g \in [SUBSET S -> V]
  /\ g[{}] = base
  /\ \A s \in SUBSET S : s # {} => g[s] = step[s][g[s \ {pick[s]}]]

(* What is left of a finite set once a member is taken.                     *)
LEMMA Smaller ==
  ASSUME NEW s, IsFiniteSet(s), NEW x \in s
  PROVE  /\ IsFiniteSet(s \ {x})
         /\ Cardinality(s) \in Nat /\ Cardinality(s) >= 1
         /\ Cardinality(s \ {x}) = Cardinality(s) - 1
BY FS_RemoveElement, FS_CardinalityType, FS_EmptySet

(* Such a fold exists over every finite set, whatever chooses and adds.     *)
LEMMA IterationExists ==
  ASSUME NEW S, IsFiniteSet(S), NEW V, NEW base \in V,
         NEW pick, \A s \in SUBSET S : s # {} => pick[s] \in s,
         NEW step \in [SUBSET S -> [V -> V]]
  PROVE  \E g : Iterates(g, S, V, base, pick, step)
<1> DEFINE N == Cardinality(S)
           Rest(s) == s \ {pick[s]}
           Folded(g, s) == IF s = {} THEN base ELSE step[s][g[Rest(s)]]
           Upto(n, g) == \A s \in SUBSET S : Cardinality(s) <= n => g[s] = Folded(g, s)
           T == {n \in 0..N : \E g \in [SUBSET S -> V] : Upto(n, g)}
<1>1. N \in Nat /\ \A s \in SUBSET S : /\ IsFiniteSet(s)
                                       /\ Cardinality(s) \in Nat
                                       /\ Cardinality(s) <= N
                                       /\ s = {} <=> Cardinality(s) = 0
  BY FS_CardinalityType, FS_Subset, FS_EmptySet
<1>r. ASSUME NEW s \in SUBSET S, s # {}
      PROVE  Rest(s) \in SUBSET S /\ Cardinality(Rest(s)) = Cardinality(s) - 1
  BY <1>1, <1>r, Smaller
<1> HIDE DEF Rest
<1>2. ASSUME NEW g \in [SUBSET S -> V], NEW s \in SUBSET S
      PROVE  Folded(g, s) \in V
  <2>1. CASE s = {}
    BY <2>1
  <2>2. CASE s # {}
    <3>1. step[s] \in [V -> V] /\ g[Rest(s)] \in V
      BY <1>r, <2>2
    <3> QED
      BY <2>2, <3>1
  <2> QED
    BY <2>1, <2>2
<1>3. 0 \in T
  <2> DEFINE g == [s \in SUBSET S |-> base]
  <2>1. g \in [SUBSET S -> V]
    OBVIOUS
  <2>2. Upto(0, g)
    BY <1>1
  <2>3. 0 \in 0..N
    BY <1>1
  <2> HIDE DEF g, Upto, N
  <2> QED
    BY <2>1, <2>2, <2>3
<1>4. ASSUME NEW n \in 0..N, n < N, n \in T
      PROVE  n + 1 \in T
  <2>1. PICK g \in [SUBSET S -> V] : Upto(n, g)
    BY <1>4
  <2> DEFINE h == [s \in SUBSET S |-> Folded(g, s)]
  <2>2. h \in [SUBSET S -> V]
    BY <1>2
  <2>3. \A s \in SUBSET S : h[s] = Folded(g, s)
    OBVIOUS
  <2>4. \A s \in SUBSET S : Cardinality(s) <= n => h[s] = g[s]
    BY <2>1, <2>3
  <2> HIDE DEF h
  <2>5. ASSUME NEW s \in SUBSET S, Cardinality(s) <= n + 1
        PROVE  h[s] = Folded(h, s)
    <3>1. CASE s = {}
      BY <2>3, <3>1
    <3>2. CASE s # {}
      <4>1. Rest(s) \in SUBSET S /\ Cardinality(Rest(s)) <= n
        BY <1>1, <1>r, <1>4, <2>5, <3>2
      <4>2. h[Rest(s)] = g[Rest(s)]
        BY <2>4, <4>1
      <4> QED
        BY <2>3, <3>2, <4>2
    <3> QED
      BY <3>1, <3>2
  <2>6. Upto(n + 1, h)
    BY <2>5
  <2>7. n + 1 \in 0..N
    BY <1>1, <1>4
  <2> QED
    BY <2>2, <2>6, <2>7
<1>5. \A k \in 0..N : k \in T
  <2> HIDE DEF T, N
  <2> QED
    BY <1>1, <1>3, <1>4, UpTo, Zenon
<1>6. PICK g \in [SUBSET S -> V] : Upto(N, g)
  <2>1. N \in 0..N
    BY <1>1
  <2> HIDE DEF N, Upto
  <2> QED
    BY <1>5, <2>1
<1>7. \A s \in SUBSET S : g[s] = Folded(g, s)
  BY <1>1, <1>6
<1>8. Iterates(g, S, V, base, pick, step)
  BY <1>7 DEF Iterates, Rest
<1> QED
  BY <1>8

(* The sum of a function over a finite set, as MapThenSumSet takes it: one  *)
(* member after another, in an order of its own.                            *)
Pick(s) == CHOOSE x \in s : TRUE

Total(w, S) == MapThenSumSet(LAMBDA k : w[k], S)

Sums(g, w, S) ==
  g = [s \in SUBSET S |-> IF s = {} THEN 0 ELSE w[Pick(s)] + g[s \ {Pick(s)}]]

(* The sum of naturals exists.                                              *)
LEMMA SumsExist ==
  ASSUME NEW S, IsFiniteSet(S), NEW w, \A x \in S : w[x] \in Nat
  PROVE  \E g \in [SUBSET S -> Nat] : Sums(g, w, S)
<1> DEFINE pick == [s \in SUBSET S |-> Pick(s)]
           step == [s \in SUBSET S |-> [v \in Nat |-> IF s = {} THEN 0 ELSE w[Pick(s)] + v]]
<1>1. \A s \in SUBSET S : s # {} => Pick(s) \in s
  BY DEF Pick
<1>2. \A s \in SUBSET S : s # {} => pick[s] = Pick(s) /\ pick[s] \in s
  BY <1>1
<1>3. step \in [SUBSET S -> [Nat -> Nat]]
  BY <1>1
<1>4. PICK g : Iterates(g, S, Nat, 0, pick, step)
  <2> HIDE DEF pick, step
  <2> QED
    BY <1>2, <1>3, IterationExists
<1>5. ASSUME NEW s \in SUBSET S
      PROVE  g[s] = IF s = {} THEN 0 ELSE w[Pick(s)] + g[s \ {Pick(s)}]
  <2>1. CASE s = {}
    BY <1>4, <2>1 DEF Iterates
  <2>2. CASE s # {}
    <3>1. s \ {Pick(s)} \in SUBSET S
      OBVIOUS
    <3>2. g[s] = step[s][g[s \ {Pick(s)}]] /\ g[s \ {Pick(s)}] \in Nat
      BY <1>2, <1>4, <2>2, <3>1 DEF Iterates
    <3> QED
      BY <2>2, <3>2
  <2> QED
    BY <2>1, <2>2
<1>6. g \in [SUBSET S -> Nat]
  BY <1>4 DEF Iterates
<1>7. Sums(g, w, S)
  BY <1>5, <1>6 DEF Sums
<1> QED
  BY <1>6, <1>7

(* Once it exists, Total is one of its solutions.                           *)
LEMMA TotalIs ==
  ASSUME NEW w, NEW S, \E g : Sums(g, w, S)
  PROVE  \E g : Sums(g, w, S) /\ Total(w, S) = g[S]
<1> DEFINE g == CHOOSE g : g = [s \in SUBSET S |->
         IF s = {} THEN 0 ELSE w[CHOOSE x \in s : TRUE] + g[s \ {CHOOSE x \in s : TRUE}]]
<1>1. Sums(g, w, S)
  BY DEF Sums, Pick
<1>2. Total(w, S) = g[S]
  BY DEF Total, MapThenSumSet, MapThenFoldSet
<1> QED
  BY <1>1, <1>2

(* Two of its solutions agree where both are defined.                       *)
LEMMA SumsUnique ==
  ASSUME NEW S, IsFiniteSet(S), NEW R \in SUBSET S, NEW w,
         NEW g, NEW h, Sums(g, w, S), Sums(h, w, R)
  PROVE  \A s \in SUBSET R : g[s] = h[s]
<1> DEFINE N == Cardinality(R)
           T == {n \in 0..N : \A s \in SUBSET R : Cardinality(s) <= n => g[s] = h[s]}
<1>1. N \in Nat /\ \A s \in SUBSET R : /\ IsFiniteSet(s)
                                       /\ Cardinality(s) \in Nat
                                       /\ Cardinality(s) <= N
                                       /\ s = {} <=> Cardinality(s) = 0
  BY FS_CardinalityType, FS_Subset, FS_EmptySet
<1>2. \A s \in SUBSET R :
        /\ g[s] = IF s = {} THEN 0 ELSE w[Pick(s)] + g[s \ {Pick(s)}]
        /\ h[s] = IF s = {} THEN 0 ELSE w[Pick(s)] + h[s \ {Pick(s)}]
  BY DEF Sums
<1>3. 0 \in T
  <2>1. \A s \in SUBSET R : Cardinality(s) <= 0 => g[s] = h[s]
    <3> HIDE DEF T, N
    <3> QED
      BY <1>1, <1>2
  <2>2. 0 \in 0..N
    BY <1>1
  <2> QED
    BY <2>1, <2>2
<1>4. ASSUME NEW n \in 0..N, n < N, n \in T
      PROVE  n + 1 \in T
  <2>1. ASSUME NEW s \in SUBSET R, Cardinality(s) <= n + 1
        PROVE  g[s] = h[s]
    <3>1. CASE s = {}
      BY <1>2, <3>1
    <3>2. CASE s # {}
      <4>1. s \ {Pick(s)} \in SUBSET R /\ Cardinality(s \ {Pick(s)}) <= n
        BY <1>1, <1>4, <2>1, <3>2, Smaller DEF Pick
      <4>2. g[s \ {Pick(s)}] = h[s \ {Pick(s)}]
        BY <1>4, <4>1
      <4> QED
        BY <1>2, <3>2, <4>2
    <3> QED
      BY <3>1, <3>2
  <2>2. n + 1 \in 0..N
    BY <1>1, <1>4
  <2> QED
    BY <2>1, <2>2
<1>5. \A k \in 0..N : k \in T
  <2> HIDE DEF T, N
  <2> QED
    BY <1>1, <1>3, <1>4, UpTo, Zenon
<1>6. N \in T
  <2>1. N \in 0..N
    BY <1>1
  <2> QED
    BY <1>5, <2>1
<1> QED
  BY <1>1, <1>6

(* The sum by its first member.                                             *)
LEMMA TotalUnfolds ==
  ASSUME NEW S, IsFiniteSet(S), NEW w, \A x \in S : w[x] \in Nat
  PROVE  /\ Total(w, S) \in Nat
         /\ S = {} => Total(w, S) = 0
         /\ S # {} => Total(w, S) = w[Pick(S)] + Total(w, S \ {Pick(S)})
<1>1. PICK g \in [SUBSET S -> Nat] : Sums(g, w, S)
  BY SumsExist
<1>2. ASSUME NEW s \in SUBSET S
      PROVE  Total(w, s) = g[s]
  <2>1. IsFiniteSet(s)
    BY FS_Subset
  <2>2. \E h : Sums(h, w, s)
    BY <2>1, SumsExist
  <2>3. PICK h : Sums(h, w, s) /\ Total(w, s) = h[s]
    BY <2>2, TotalIs
  <2>4. g[s] = h[s]
    BY <1>1, <2>3, SumsUnique
  <2> QED
    BY <2>3, <2>4
<1>3. g[S] = IF S = {} THEN 0 ELSE w[Pick(S)] + g[S \ {Pick(S)}]
  BY <1>1 DEF Sums
<1> QED
  BY <1>1, <1>2, <1>3

(* The order does not matter.                                               *)
LEMMA TotalRemove ==
  ASSUME NEW S, IsFiniteSet(S), NEW w, \A x \in S : w[x] \in Nat, NEW k \in S
  PROVE  /\ Total(w, S) = w[k] + Total(w, S \ {k})
         /\ Total(w, S \ {k}) \in Nat
<1> DEFINE N == Cardinality(S)
           T == {n \in 0..N : \A s \in SUBSET S : \A x \in s :
                   Cardinality(s) <= n => Total(w, s) = w[x] + Total(w, s \ {x})}
<1>1. N \in Nat /\ \A s \in SUBSET S : /\ IsFiniteSet(s)
                                       /\ Cardinality(s) \in Nat
                                       /\ Cardinality(s) <= N
                                       /\ s = {} <=> Cardinality(s) = 0
                                       /\ Total(w, s) \in Nat
  BY FS_CardinalityType, FS_Subset, FS_EmptySet, TotalUnfolds
<1>2. 0 \in T
  BY <1>1
<1>3. ASSUME NEW n \in 0..N, n < N, n \in T
      PROVE  n + 1 \in T
  <2>1. ASSUME NEW s \in SUBSET S, Cardinality(s) <= n + 1, NEW x \in s
        PROVE  Total(w, s) = w[x] + Total(w, s \ {x})
    <3> DEFINE y == Pick(s)
    <3>0. y \in s /\ s \ {y} \in SUBSET S
      BY DEF Pick
    <3>1. /\ y \in s /\ s \ {y} \in SUBSET S /\ Cardinality(s \ {y}) <= n
          /\ Total(w, s) = w[y] + Total(w, s \ {y})
      <4>1. Cardinality(s \ {y}) <= n
        <5> HIDE DEF y, N
        <5> QED
          BY <1>1, <1>3, <2>1, <3>0, Smaller
      <4>2. Total(w, s) = w[y] + Total(w, s \ {y})
        BY <1>1, TotalUnfolds
      <4> QED
        BY <3>0, <4>1, <4>2
    <3>2. CASE x = y
      BY <3>1, <3>2
    <3>3. CASE x # y
      <4>1. s \ {x} \in SUBSET S /\ Cardinality(s \ {x}) <= n
        BY <1>1, <1>3, <2>1, FS_RemoveElement
      <4>2. Total(w, s \ {y}) = w[x] + Total(w, (s \ {y}) \ {x})
        BY <1>3, <3>1, <3>3
      <4>3. Total(w, s \ {x}) = w[y] + Total(w, (s \ {x}) \ {y})
        BY <1>3, <3>1, <3>3, <4>1
      <4>4. (s \ {y}) \ {x} = (s \ {x}) \ {y} /\ (s \ {x}) \ {y} \in SUBSET S
        OBVIOUS
      <4>5. w[x] \in Nat /\ w[y] \in Nat /\ Total(w, (s \ {x}) \ {y}) \in Nat
        BY <1>1, <3>1, <4>4
      <4>6. Total(w, (s \ {y}) \ {x}) = Total(w, (s \ {x}) \ {y})
        BY <4>4
      <4>7. /\ Total(w, s) = w[y] + Total(w, s \ {y})
            /\ Total(w, s \ {y}) = w[x] + Total(w, (s \ {x}) \ {y})
            /\ Total(w, s \ {x}) = w[y] + Total(w, (s \ {x}) \ {y})
        BY <3>1, <4>2, <4>3, <4>6
      <4> DEFINE a == Total(w, s)
                 b == Total(w, s \ {y})
                 c == Total(w, s \ {x})
                 d == Total(w, (s \ {x}) \ {y})
      <4> HIDE DEF y, a, b, c, d
      <4>8. a = w[y] + b /\ b = w[x] + d /\ c = w[y] + d
        BY <4>7 DEF a, b, c, d
      <4>9. d \in Nat
        BY <4>5 DEF d
      <4>10. a = w[x] + c
        BY <4>5, <4>8, <4>9
      <4> QED
        BY <4>10 DEF a, c
    <3> QED
      BY <3>2, <3>3
  <2>2. n + 1 \in 0..N
    BY <1>1, <1>3
  <2> QED
    BY <2>1, <2>2
<1>4. \A n \in 0..N : n \in T
  <2> HIDE DEF T, N
  <2> QED
    BY <1>1, <1>2, <1>3, UpTo, Zenon
<1>5. N \in T
  <2>1. N \in 0..N
    BY <1>1
  <2> QED
    BY <1>4, <2>1
<1>6. S \in SUBSET S /\ S \ {k} \in SUBSET S
  OBVIOUS
<1> QED
  BY <1>1, <1>5, <1>6

(* A set weighs what a part of it and the rest weigh.                       *)
LEMMA TotalSplit ==
  ASSUME NEW S, IsFiniteSet(S), NEW w, \A x \in S : w[x] \in Nat, NEW R \in SUBSET S
  PROVE  /\ Total(w, R) \in Nat /\ Total(w, S \ R) \in Nat
         /\ Total(w, S) = Total(w, R) + Total(w, S \ R)
<1> DEFINE N == Cardinality(S)
           Splits(s) == Total(w, S) = Total(w, s) + Total(w, S \ s)
           T == {n \in 0..N : \A s \in SUBSET S : Cardinality(s) <= n => Splits(s)}
<1>1. N \in Nat /\ \A s \in SUBSET S : /\ IsFiniteSet(s)
                                       /\ Cardinality(s) \in Nat
                                       /\ Cardinality(s) <= N
                                       /\ s = {} <=> Cardinality(s) = 0
                                       /\ Total(w, s) \in Nat
  BY FS_CardinalityType, FS_Subset, FS_EmptySet, TotalUnfolds
<1>2. ASSUME NEW s \in SUBSET S, s = {}
      PROVE  Splits(s)
  <2>1. Total(w, s) = 0 /\ S \ s = S /\ Total(w, S) \in Nat
    BY <1>1, <1>2, TotalUnfolds
  <2>2. Total(w, S \ s) = Total(w, S)
    BY <1>2
  <2> QED
    BY <2>1, <2>2
<1>3. 0 \in T
  <2>1. 0 \in 0..N
    BY <1>1
  <2> HIDE DEF N, Splits
  <2> QED
    BY <1>1, <1>2, <2>1
<1>4. ASSUME NEW n \in 0..N, n < N, n \in T
      PROVE  n + 1 \in T
  <2>1. ASSUME NEW s \in SUBSET S, Cardinality(s) <= n + 1, s # {}
        PROVE  Splits(s)
    <3>1. PICK x \in s : TRUE
      BY <2>1
    <3> DEFINE less == s \ {x}
               more == S \ less
    <3>2. less \in SUBSET S /\ Cardinality(less) <= n
      BY <1>1, <1>4, <2>1, Smaller
    <3>3. Total(w, S) = Total(w, less) + Total(w, more)
      BY <1>4, <3>2
    <3>4. Total(w, s) = w[x] + Total(w, less)
      BY <1>1, TotalRemove
    <3>5. Total(w, more) = w[x] + Total(w, more \ {x})
      <4>1. more \in SUBSET S /\ IsFiniteSet(more) /\ x \in more /\ \A y \in more : w[y] \in Nat
        BY <1>1, <3>1
      <4> HIDE DEF more
      <4> QED
        BY <4>1, TotalRemove
    <3>6. more \ {x} = S \ s
      BY <3>1
    <3>7. Total(w, more \ {x}) = Total(w, S \ s)
      BY <3>6
    <3>8. Total(w, S \ s) \in Nat /\ Total(w, less) \in Nat /\ w[x] \in Nat
      BY <1>1, <3>1, <3>2
    <3> HIDE DEF less, more
    <3> QED
      BY <3>3, <3>4, <3>5, <3>7, <3>8
  <2>2. n + 1 \in 0..N
    BY <1>1, <1>4
  <2> HIDE DEF Splits
  <2> QED
    BY <1>2, <2>1, <2>2
<1>5. \A n \in 0..N : n \in T
  <2> HIDE DEF T, N
  <2> QED
    BY <1>1, <1>3, <1>4, UpTo, Zenon
<1>6. N \in T
  <2>1. N \in 0..N
    BY <1>1
  <2> HIDE DEF T
  <2> QED
    BY <1>5, <2>1
<1>7. Splits(R)
  <2> HIDE DEF Splits
  <2> QED
    BY <1>1, <1>6
<1>8. S \ R \in SUBSET S
  OBVIOUS
<1> QED
  BY <1>1, <1>7, <1>8

(* What the members weigh outside of the set does not matter.               *)
LEMMA TotalSame ==
  ASSUME NEW S, IsFiniteSet(S), NEW w, NEW v, \A x \in S : w[x] \in Nat /\ v[x] = w[x]
  PROVE  Total(v, S) = Total(w, S)
<1>1. PICK g \in [SUBSET S -> Nat] : Sums(g, w, S)
  BY SumsExist
<1>2. Sums(g, v, S)
  <2>1. ASSUME NEW s \in SUBSET S
        PROVE  g[s] = IF s = {} THEN 0 ELSE v[Pick(s)] + g[s \ {Pick(s)}]
    <3>1. s # {} => Pick(s) \in S
      BY DEF Pick
    <3>2. g[s] = IF s = {} THEN 0 ELSE w[Pick(s)] + g[s \ {Pick(s)}]
      BY <1>1 DEF Sums
    <3> QED
      BY <3>1, <3>2
  <2> QED
    BY <1>1, <2>1 DEF Sums
<1>3. PICK h : Sums(h, w, S) /\ Total(w, S) = h[S]
  BY <1>1, TotalIs
<1>4. PICK i : Sums(i, v, S) /\ Total(v, S) = i[S]
  BY <1>2, TotalIs
<1>5. g[S] = h[S] /\ g[S] = i[S]
  BY <1>1, <1>2, <1>3, <1>4, SumsUnique
<1> QED
  BY <1>3, <1>4, <1>5

(* Weight is such a sum.                                                    *)
WeightIn(map, keys) == MapThenSumSet(LAMBDA k : Size[map[k].doc], keys)

Sizes(map) == [k \in CacheKey |-> Size[map[k].doc]]

Sized(map, keys) ==
  keys \subseteq CacheKey /\ IsFiniteSet(keys) /\ \A k \in keys : Size[map[k].doc] \in Nat

(* In a map whose sizes are naturals.                                       *)
LEMMA WeightIsTotal ==
  ASSUME NEW map, NEW keys, Sized(map, keys)
  PROVE  WeightIn(map, keys) = Total(Sizes(map), keys)
<1> DEFINE w == Sizes(map)
           SumsDirectly(g) == g = [s \in SUBSET keys |->
             IF s = {} THEN 0
             ELSE Size[map[CHOOSE x \in s : TRUE].doc] + g[s \ {CHOOSE x \in s : TRUE}]]
           h == CHOOSE g : SumsDirectly(g)
<1>1. \A k \in keys : w[k] \in Nat /\ w[k] = Size[map[k].doc]
  BY DEF Sized, Sizes
<1>2. PICK g \in [SUBSET keys -> Nat] : Sums(g, w, keys)
  <2> HIDE DEF w
  <2> QED
    BY <1>1, SumsExist DEF Sized
<1>3. \A s \in SUBSET keys : s # {} => Pick(s) \in keys
  BY DEF Pick
<1>4. ASSUME NEW f
      PROVE  SumsDirectly(f) <=> Sums(f, w, keys)
  <2> HIDE DEF w
  <2>1. \A s \in SUBSET keys :
          (IF s = {} THEN 0 ELSE w[Pick(s)] + f[s \ {Pick(s)}])
            = IF s = {} THEN 0 ELSE Size[map[Pick(s)].doc] + f[s \ {Pick(s)}]
    BY <1>1, <1>3
  <2>2. [s \in SUBSET keys |-> IF s = {} THEN 0 ELSE w[Pick(s)] + f[s \ {Pick(s)}]]
          = [s \in SUBSET keys |->
               IF s = {} THEN 0 ELSE Size[map[Pick(s)].doc] + f[s \ {Pick(s)}]]
    BY <2>1
  <2> QED
    BY <2>2 DEF Sums, Pick
<1>5. WeightIn(map, keys) = h[keys]
  BY DEF WeightIn, MapThenSumSet, MapThenFoldSet
<1> HIDE DEF SumsDirectly, w
<1>6. SumsDirectly(h)
  BY <1>2, <1>4
<1>7. Sums(h, w, keys)
  BY <1>4, <1>6
<1> HIDE DEF h
<1>8. PICK i : Sums(i, w, keys) /\ Total(w, keys) = i[keys]
  BY <1>2, TotalIs
<1>9. h[keys] = i[keys]
  BY <1>7, <1>8, SumsUnique DEF Sized
<1> QED
  BY <1>5, <1>8, <1>9 DEF w

(* What the entries of a map weigh: nothing, one, or a part and the rest.   *)
LEMMA WeightLaws ==
  ASSUME NEW map, NEW keys, Sized(map, keys)
  PROVE  /\ WeightIn(map, {}) = 0
         /\ WeightIn(map, keys) \in Nat
         /\ \A k \in keys : WeightIn(map, {k}) = Size[map[k].doc]
         /\ \A part \in SUBSET keys :
              /\ WeightIn(map, part) \in Nat /\ WeightIn(map, keys \ part) \in Nat
              /\ WeightIn(map, keys) = WeightIn(map, part) + WeightIn(map, keys \ part)
<1> DEFINE w == Sizes(map)
<1>1. \A k \in keys : w[k] \in Nat /\ w[k] = Size[map[k].doc]
  BY DEF Sized, Sizes
<1>2. ASSUME NEW part \in SUBSET keys
      PROVE  IsFiniteSet(part) /\ WeightIn(map, part) = Total(w, part)
  <2>1. IsFiniteSet(part)
    BY FS_Subset DEF Sized
  <2>2. Sized(map, part)
    BY <2>1 DEF Sized
  <2> QED
    BY <2>1, <2>2, WeightIsTotal
<1> HIDE DEF w
<1>3. \A part \in SUBSET keys :
        /\ Total(w, part) \in Nat /\ Total(w, keys \ part) \in Nat
        /\ Total(w, keys) = Total(w, part) + Total(w, keys \ part)
  BY <1>1, TotalSplit DEF Sized
<1>4. \A part \in SUBSET keys : keys \ part \in SUBSET keys
  OBVIOUS
<1>5. Total(w, {}) = 0
  BY TotalUnfolds, FS_EmptySet
<1>6. ASSUME NEW k \in keys
      PROVE  WeightIn(map, {k}) = Size[map[k].doc]
  <2>1. {k} \in SUBSET keys /\ k \in {k} /\ {k} \ {k} = {}
    OBVIOUS
  <2>2. IsFiniteSet({k}) /\ \A x \in {k} : w[x] \in Nat
    BY <1>1, FS_Singleton
  <2>3. Total(w, {k}) = w[k] + Total(w, {k} \ {k})
    BY <2>1, <2>2, TotalRemove
  <2>4. Total(w, {k} \ {k}) = 0
    BY <1>5, <2>1
  <2> QED
    BY <1>1, <1>2, <2>1, <2>3, <2>4
<1>7. {} \in SUBSET keys /\ keys \in SUBSET keys
  OBVIOUS
<1> QED
  BY <1>2, <1>3, <1>4, <1>5, <1>6, <1>7

(* Two maps that agree on the keys agree on what these weigh.               *)
LEMMA WeightSame ==
  ASSUME NEW map, NEW other, NEW keys, Sized(map, keys),
         \A k \in keys : other[k] = map[k]
  PROVE  WeightIn(other, keys) = WeightIn(map, keys)
<1>1. Sized(other, keys)
  BY DEF Sized
<1>2. \A k \in keys : Sizes(map)[k] \in Nat /\ Sizes(other)[k] = Sizes(map)[k]
  BY DEF Sized, Sizes
<1>3. IsFiniteSet(keys)
  BY DEF Sized
<1>4. Total(Sizes(other), keys) = Total(Sizes(map), keys)
  BY <1>2, <1>3, TotalSame
<1> QED
  BY <1>1, <1>4, WeightIsTotal

-----------------------------------------------------------------------------
(* Eviction down an order.                                                  *)

(* The greatest of some positions.                                          *)
LEMMA MaxUpTo ==
  ASSUME NEW n \in Nat, NEW s \in SUBSET (1..n), s # {}
  PROVE  Max(s) \in s /\ \A y \in s : Max(s) >= y
<1> DEFINE Left == {n - y : y \in s}
<1>0. PICK e \in s : TRUE
  OBVIOUS
<1>1. Left \subseteq Nat /\ Left # {}
  <2>1. n - e \in Left
    BY <1>0
  <2>2. \A y \in s : y \in 1..n
    OBVIOUS
  <2>3. \A x \in Left : x \in Nat
    BY <2>2
  <2> HIDE DEF Left
  <2> QED
    BY <2>1, <2>3
<1>2. PICK x \in Left : \A y \in Left : ~ (<<y, x>> \in OpToRel(<, Nat))
  <2> HIDE DEF Left
  <2> QED
    BY <1>1, NatLessThanWellFounded, WFMin
<1>3. \A y \in Left : ~(y < x)
  BY <1>1, <1>2 DEF OpToRel
<1>4. PICK m \in s : x = n - m
  OBVIOUS
<1>5. \A y \in s : m >= y
  <2>1. ASSUME NEW y \in s
        PROVE  m >= y
    <3>1. y \in 1..n /\ m \in 1..n
      OBVIOUS
    <3>2. n - y \in Left
      OBVIOUS
    <3>3. ~(n - y < n - m)
      BY <1>3, <1>4, <3>2
    <3> HIDE DEF Left
    <3> QED
      BY <3>1, <3>3
  <2> QED
    BY <2>1
<1> QED
  BY <1>5 DEF Max

(* What is kept after the order's first i, when make_room evicts down it.   *)
Stages(f, order, n, keys, total, size) ==
  /\ f \in [0..n -> SUBSET keys]
  /\ f[0] = keys
  /\ \A i \in 1..n :
       f[i] = IF Fits(f[i - 1], SaturatingSub(total, Weight(keys \ f[i - 1])), size)
              THEN f[i - 1] ELSE f[i - 1] \ {order[i]}

(* The pass down the order goes through such stages and ends at the last.   *)
LEMMA EvictDownIs ==
  ASSUME NEW keys, NEW n \in Nat, NEW order \in [1..n -> keys], NEW total, NEW size
  PROVE  \E f : /\ Stages(f, order, n, keys, total, size)
                /\ EvictDown(order, keys, total, size) = f[n]
<1> DEFINE S == 1..n
           step1(kept, k) ==
             IF Fits(kept, SaturatingSub(total, Weight(keys \ kept)), size)
             THEN kept ELSE kept \ {k}
           Iter(g) == g = [s \in SUBSET S |->
             IF s = {} THEN keys ELSE step1(g[s \ {Max(s)}], order[Max(s)])]
           pick == [s \in SUBSET S |-> Max(s)]
           step == [s \in SUBSET S |-> [v \in SUBSET keys |-> step1(v, order[Max(s)])]]
           h == CHOOSE g : Iter(g)
<1>1. IsFiniteSet(S)
  BY FS_Interval
<1>2. \A s \in SUBSET S : s # {} => Max(s) \in s /\ \A y \in s : Max(s) >= y
  BY MaxUpTo
<1>3. DOMAIN order = S
  OBVIOUS
<1>4. EvictDown(order, keys, total, size) = h[S]
  <2>1. EvictDown(order, keys, total, size)
          = LET iter[s \in SUBSET DOMAIN order] ==
                  IF s = {} THEN keys ELSE step1(iter[s \ {Max(s)}], order[Max(s)])
            IN  iter[DOMAIN order]
    BY DEF EvictDown, FoldLeft, MapThenFoldSet
  <2> QED
    BY <1>3, <2>1
<1>5. PICK g : Iterates(g, S, SUBSET keys, keys, pick, step)
  <2>1. step \in [SUBSET S -> [SUBSET keys -> SUBSET keys]]
    OBVIOUS
  <2>2. \A s \in SUBSET S : s # {} => pick[s] \in s
    BY <1>2
  <2>3. keys \in SUBSET keys
    OBVIOUS
  <2> HIDE DEF step, pick, S
  <2> QED
    BY <1>1, <2>1, <2>2, <2>3, IterationExists
<1>6. Iter(g)
  <2>1. g \in [SUBSET S -> SUBSET keys]
    BY <1>5 DEF Iterates
  <2>2. ASSUME NEW s \in SUBSET S
        PROVE  g[s] = IF s = {} THEN keys ELSE step1(g[s \ {Max(s)}], order[Max(s)])
    <3>1. CASE s = {}
      BY <1>5, <3>1 DEF Iterates
    <3>2. CASE s # {}
      <4>1. g[s] = step[s][g[s \ {pick[s]}]]
        BY <1>5, <3>2 DEF Iterates
      <4>2. pick[s] = Max(s) /\ s \ {Max(s)} \in SUBSET S
        OBVIOUS
      <4>3. g[s \ {Max(s)}] \in SUBSET keys
        BY <2>1, <4>2
      <4> HIDE DEF step1
      <4>4. step[s][g[s \ {Max(s)}]] = step1(g[s \ {Max(s)}], order[Max(s)])
        BY <4>3
      <4> QED
        BY <3>2, <4>1, <4>2, <4>4
    <3> QED
      BY <3>1, <3>2
  <2> HIDE DEF step1, S
  <2> QED
    BY <2>1, <2>2
<1>7. Iter(h)
  <2> HIDE DEF Iter
  <2> QED
    BY <1>6
<1> HIDE DEF h
<1> DEFINE f == [i \in 0..n |-> h[1..i]]
<1>8. \A s \in SUBSET S : h[s] = IF s = {} THEN keys ELSE step1(h[s \ {Max(s)}], order[Max(s)])
  <2> HIDE DEF step1
  <2> QED
    BY <1>7
<1>9. \A i \in 0..n : (1..i) \in SUBSET S
  OBVIOUS
<1>10. ASSUME NEW i \in 1..n
       PROVE  f[i] = step1(f[i - 1], order[i])
  <2>1. Max(1..i) = i
    <3>1. 1..i \in SUBSET S /\ 1..i # {} /\ i \in 1..i
      OBVIOUS
    <3>2. Max(1..i) \in 1..i /\ Max(1..i) >= i
      BY <1>2, <3>1
    <3> QED
      BY <3>2
  <2>2. (1..i) \ {i} = 1..(i - 1) /\ 1..i # {}
    <3>1. i \in Nat /\ i >= 1
      OBVIOUS
    <3>2. \A x : x \in (1..i) \ {i} <=> x \in 1..(i - 1)
      BY <3>1
    <3>3. i \in 1..i
      BY <3>1
    <3>4. (1..i) \ {i} = 1..(i - 1)
      BY <3>2, Zenon
    <3>5. 1..i # {}
      BY <3>3, Zenon
    <3> QED
      BY <3>4, <3>5
  <2>3. h[1..i] = step1(h[1..(i - 1)], order[i])
    <3> HIDE DEF step1
    <3> QED
      BY <1>8, <1>9, <2>1, <2>2
  <2>4. i - 1 \in 0..n
    OBVIOUS
  <2>5. f[i] = h[1..i] /\ f[i - 1] = h[1..(i - 1)]
    BY <2>4
  <2> HIDE DEF step1, f
  <2> QED
    BY <2>3, <2>5
<1>11. f[0] = keys
  <2>1. 1..0 = {} /\ {} \in SUBSET S
    OBVIOUS
  <2>2. h[1..0] = keys
    BY <1>8, <2>1
  <2> QED
    BY <2>2
<1>12. f \in [0..n -> SUBSET keys]
  <2> DEFINE T == {i \in 0..n : f[i] \in SUBSET keys}
  <2>1. 0 \in T
    BY <1>11
  <2>2. \A i \in 0..n : i < n /\ i \in T => i + 1 \in T
    <3>1. ASSUME NEW i \in 0..n, i < n, i \in T
          PROVE  i + 1 \in T
      <4>1. i + 1 \in 1..n /\ i + 1 \in 0..n /\ (i + 1) - 1 = i
        BY <3>1
      <4>2. f[i + 1] = step1(f[i], order[i + 1])
        <5> HIDE DEF f, step1
        <5> QED
          BY <1>10, <4>1
      <4>3. f[i] \in SUBSET keys
        BY <3>1
      <4> HIDE DEF f
      <4>4. f[i + 1] \in SUBSET keys
        BY <4>2, <4>3
      <4> QED
        BY <4>1, <4>4
    <3> QED
      BY <3>1
  <2>3. \A i \in 0..n : i \in T
    <3> HIDE DEF T
    <3> QED
      BY <2>1, <2>2, UpTo, Zenon
  <2>4. \A i \in 0..n : f[i] \in SUBSET keys
    <3> HIDE DEF f
    <3> QED
      BY <2>3
  <2> QED
    BY <2>4
<1>13. f[n] = h[S]
  OBVIOUS
<1> HIDE DEF f
<1>14. Stages(f, order, n, keys, total, size)
  BY <1>10, <1>11, <1>12 DEF Stages
<1> QED
  BY <1>4, <1>13, <1>14

(* The order's first i are evicted.                                         *)
Evicted(order, i) == {order[j] : j \in 1..i}

(* There is room for `size` beside what is kept of the keys.                *)
RoomWith(keys, kept, total, size) ==
  Fits(kept, SaturatingSub(total, Weight(keys \ kept)), size)

(* Eviction stops once there is room, and not before.                       *)
LEMMA EvictionStops ==
  ASSUME NEW keys, NEW n \in Nat, NEW order \in [1..n -> keys], NEW total, NEW size,
         \A k \in keys : \E j \in 1..n : order[j] = k
  PROVE  \E m \in 0..n :
           LET kept == EvictDown(order, keys, total, size)
           IN  /\ kept = keys \ Evicted(order, m)
               /\ kept = {} \/ RoomWith(keys, kept, total, size)
               /\ m > 0 => ~RoomWith(keys, keys \ Evicted(order, m - 1), total, size)
<1> DEFINE Room(kept) == RoomWith(keys, kept, total, size)
           Left(m) == keys \ Evicted(order, m)
<1>1. PICK f : /\ Stages(f, order, n, keys, total, size)
               /\ EvictDown(order, keys, total, size) = f[n]
  BY EvictDownIs
<1>2. \A i \in 1..n : f[i] = IF Room(f[i - 1]) THEN f[i - 1] ELSE f[i - 1] \ {order[i]}
  BY <1>1 DEF Stages, RoomWith
<1>3. f[0] = keys
  BY <1>1 DEF Stages
<1>4. \A i \in 1..n : Left(i) = Left(i - 1) \ {order[i]}
  <2>1. ASSUME NEW i \in 1..n
        PROVE  Left(i) = Left(i - 1) \ {order[i]}
    <3>1. \A j : j \in 1..i <=> j \in 1..(i - 1) \/ j = i
      OBVIOUS
    <3> QED
      BY <3>1 DEF Evicted
  <2> QED
    BY <2>1
<1> HIDE DEF Room, Left
<1> DEFINE Stopped(i) ==
             \E m \in 0..i : /\ f[i] = Left(m)
                             /\ m < i => Room(f[i])
                             /\ m > 0 => ~Room(Left(m - 1))
           T == {i \in 0..n : Stopped(i)}
<1>5. Left(0) = keys
  <2>1. \A j \in 1..0 : FALSE
    OBVIOUS
  <2>2. Evicted(order, 0) = {}
    BY <2>1 DEF Evicted
  <2> QED
    BY <2>2 DEF Left
<1>6. 0 \in T
  <2>1. 0 \in 0..0 /\ 0 \in 0..n /\ ~(0 < 0) /\ ~(0 > 0)
    OBVIOUS
  <2> QED
    BY <1>3, <1>5, <2>1
<1>7. ASSUME NEW i \in 0..n, i < n, i \in T
      PROVE  i + 1 \in T
  <2>1. PICK m \in 0..i : /\ f[i] = Left(m)
                          /\ m < i => Room(f[i])
                          /\ m > 0 => ~Room(Left(m - 1))
    BY <1>7
  <2>2. i + 1 \in 1..n /\ (i + 1) - 1 = i /\ i + 1 \in 0..n
    BY <1>7
  <2>3. f[i + 1] = IF Room(f[i]) THEN f[i] ELSE f[i] \ {order[i + 1]}
    BY <1>2, <2>2
  <2>4. CASE Room(f[i])
    <3>1. m \in 0..(i + 1)
      OBVIOUS
    <3>2. Stopped(i + 1)
      BY <2>1, <2>3, <2>4, <3>1
    <3> HIDE DEF Stopped
    <3> QED
      BY <2>2, <3>2
  <2>5. CASE ~Room(f[i])
    <3>1. m = i
      BY <2>1, <2>5
    <3>2. f[i + 1] = Left(i + 1)
      BY <1>4, <2>1, <2>2, <2>3, <2>5, <3>1
    <3>3. ~Room(Left((i + 1) - 1))
      BY <2>1, <2>2, <2>5, <3>1
    <3>4. i + 1 \in 0..(i + 1) /\ ~(i + 1 < i + 1)
      OBVIOUS
    <3>5. Stopped(i + 1)
      BY <3>2, <3>3, <3>4
    <3> HIDE DEF Stopped
    <3> QED
      BY <2>2, <3>5
  <2> QED
    BY <2>4, <2>5
<1>8. Stopped(n)
  <2>1. \A i \in 0..n : i \in T
    <3> HIDE DEF T
    <3> QED
      BY <1>6, <1>7, UpTo, Zenon
  <2>2. n \in 0..n
    OBVIOUS
  <2> HIDE DEF Stopped
  <2> QED
    BY <2>1, <2>2
<1>9. PICK m \in 0..n : /\ f[n] = Left(m)
                        /\ m < n => Room(f[n])
                        /\ m > 0 => ~Room(Left(m - 1))
  BY <1>8
<1>10. m = n => f[n] = {}
  BY <1>9 DEF Left, Evicted
<1>11. m = n \/ m < n
  OBVIOUS
<1> QED
  BY <1>1, <1>9, <1>10, <1>11 DEF Room, Left

(* An order of a finite set names every member of it, once.                 *)
LEMMA OrderIs ==
  ASSUME NEW keys, IsFiniteSet(keys), NEW order \in SetToSeqs(keys)
  PROVE  LET n == Cardinality(keys)
         IN  /\ n \in Nat
             /\ order \in [1..n -> keys]
             /\ DOMAIN order = 1..n
             /\ \A i, j \in 1..n : i # j => order[i] # order[j]
             /\ \A k \in keys : \E j \in 1..n : order[j] = k
<1> DEFINE n == Cardinality(keys)
<1>1. n \in Nat
  BY FS_CardinalityType
<1>2. order \in [1..n -> keys] /\ \A i, j \in 1..n : i # j => order[i] # order[j]
  BY DEF SetToSeqs
<1> HIDE DEF n
<1>3. order \in Injection(1..n, keys)
  BY <1>2 DEF Injection, IsInjective
<1>4. Cardinality(1..n) = n
  <2>1. Cardinality(1..n) = IF 1 > n THEN 0 ELSE n - 1 + 1
    BY <1>1, FS_Interval
  <2> QED
    BY <1>1, <2>1
<1>5. order \in Surjection(1..n, keys)
  BY <1>3, <1>4, FS_Injection DEF n
<1>6. \A k \in keys : \E j \in 1..n : order[j] = k
  BY <1>5 DEF Surjection
<1> QED
  BY <1>1, <1>2, <1>6 DEF n

(* Weight is about the current entries.                                     *)
LEMMA WeightIs ==
  ASSUME NEW keys
  PROVE  Weight(keys) = WeightIn(entries, keys)
BY DEF Weight, WeightIn

(* What make_room leaves of a set of entries whose total it is given: there *)
(* is room beside it, and if something fresh went it was the oldest there   *)
(* was, with no room beside what was left before the last of it.            *)
Needed(keys, kept, size, at) ==
  LET gone == {k \in keys : Fresh(entries[k], at) /\ k \notin kept}
  IN  gone # {} =>
        /\ \A g \in gone, k \in kept : entries[g].stored <= entries[k].stored
        /\ \E last \in gone :
             /\ \A g \in gone : entries[g].stored <= entries[last].stored
             /\ \/ Cardinality(kept) + 2 > MaxEntries
                \/ Weight(kept \cup {last}) + size > MaxBytes

(* What the running total is once some of the entries have gone.            *)
LEMMA TotalLeft ==
  ASSUME NEW keys, Sized(entries, keys), NEW kept \in SUBSET keys
  PROVE  /\ Weight(kept) \in Nat
         /\ SaturatingSub(Weight(keys), Weight(keys \ kept)) = Weight(kept)
<1>1. /\ Weight(keys) \in Nat /\ Weight(kept) \in Nat /\ Weight(keys \ kept) \in Nat
      /\ Weight(keys) = Weight(kept) + Weight(keys \ kept)
  BY WeightLaws, WeightIs
<1> DEFINE a == Weight(keys)
           b == Weight(kept)
           c == Weight(keys \ kept)
<1> HIDE DEF a, b, c
<1>2. a \in Nat /\ b \in Nat /\ c \in Nat /\ a = b + c
  BY <1>1 DEF a, b, c
<1>3. b \in Nat /\ SaturatingSub(a, c) = b
  BY <1>2 DEF SaturatingSub
<1> QED
  BY <1>3 DEF a, b, c

(* There is room when the limits allow one more entry of this size.         *)
LEMMA RoomIs ==
  ASSUME NEW keys, Sized(entries, keys), NEW kept \in SUBSET keys, NEW size \in Nat
  PROVE  RoomWith(keys, kept, Weight(keys), size)
           <=> Cardinality(kept) < MaxEntries /\ Weight(kept) + size <= MaxBytes
BY TotalLeft DEF RoomWith, Fits

(* make_room keeps its promise, whichever order of one age it takes.        *)
LEMMA MakeRoomIs ==
  ASSUME NEW keys, Sized(entries, keys), NEW size \in Nat, NEW at \in Nat,
         \A k \in keys : entries[k].stored \in Nat,
         MaxEntries \in Nat, MaxEntries > 0, MaxBytes \in Nat, size <= MaxBytes,
         NEW kept \in MakeRoom(keys, Weight(keys), size, at)
  PROVE  /\ kept \in SUBSET keys
         /\ Cardinality(kept) < MaxEntries /\ Weight(kept) + size <= MaxBytes
         /\ Needed(keys, kept, size, at)
<1>1. CASE Fits(keys, Weight(keys), size)
  <2>1. kept = keys
    BY <1>1 DEF MakeRoom
  <2> QED
    BY <1>1, <2>1 DEF Fits, Needed
<1>2. CASE ~Fits(keys, Weight(keys), size)
  <2> DEFINE fresh == {k \in keys : Fresh(entries[k], at)}
             left == SaturatingSub(Weight(keys), Weight(keys \ fresh))
             n == Cardinality(fresh)
  <2>1. kept \in {EvictDown(order, fresh, left, size) : order \in ByAge(fresh)}
    BY <1>2 DEF MakeRoom
  <2>2. PICK order \in ByAge(fresh) : kept = EvictDown(order, fresh, left, size)
    BY <2>1
  <2>3. fresh \in SUBSET keys
    OBVIOUS
  <2>4. Sized(entries, fresh) /\ IsFiniteSet(fresh)
    BY <2>3, FS_Subset DEF Sized
  <2>5. left = Weight(fresh)
    <3> HIDE DEF fresh
    <3> QED
      BY <2>3, TotalLeft
  <2> HIDE DEF fresh, left
  <2>6. /\ n \in Nat
        /\ order \in [1..n -> fresh]
        /\ DOMAIN order = 1..n
        /\ \A i, j \in 1..n : i # j => order[i] # order[j]
        /\ \A k \in fresh : \E j \in 1..n : order[j] = k
    <3>1. order \in SetToSeqs(fresh)
      BY <2>2 DEF ByAge
    <3> QED
      BY <2>4, <3>1, OrderIs
  <2>7. \A i, j \in 1..n : i < j => entries[order[i]].stored <= entries[order[j]].stored
    BY <2>2, <2>6 DEF ByAge
  <2> HIDE DEF n
  <2>n. n \in Nat
    BY <2>6
  <2>8. PICK m \in 0..n :
          /\ kept = fresh \ Evicted(order, m)
          /\ kept = {} \/ RoomWith(fresh, kept, left, size)
          /\ m > 0 => ~RoomWith(fresh, fresh \ Evicted(order, m - 1), left, size)
    BY <2>2, <2>6, EvictionStops
  <2>9. Cardinality(kept) < MaxEntries /\ Weight(kept) + size <= MaxBytes
    <3>1. CASE kept = {}
      <4>1. Weight(kept) = 0 /\ Cardinality(kept) = 0
        BY <2>4, <3>1, WeightLaws, WeightIs, FS_EmptySet
      <4> QED
        BY <4>1
    <3>2. CASE RoomWith(fresh, kept, left, size)
      BY <2>4, <2>5, <2>8, <3>2, RoomIs
    <3> QED
      BY <2>8, <3>1, <3>2
  <2>10. Needed(keys, kept, size, at)
    <3> DEFINE gone == {k \in keys : Fresh(entries[k], at) /\ k \notin kept}
    <3>1. gone = fresh \ kept
      BY DEF fresh
    <3>2. gone = fresh \cap Evicted(order, m)
      BY <2>8, <3>1
    <3>3. SUFFICES ASSUME gone # {}
                   PROVE  /\ \A g \in gone, k \in kept : entries[g].stored <= entries[k].stored
                          /\ \E last \in gone :
                               /\ \A g \in gone : entries[g].stored <= entries[last].stored
                               /\ \/ Cardinality(kept) + 2 > MaxEntries
                                  \/ Weight(kept \cup {last}) + size > MaxBytes
      BY DEF Needed
    <3> HIDE DEF gone
    <3>4. m \in 1..n
      <4>1. PICK g \in gone : g \in Evicted(order, m)
        BY <3>2, <3>3
      <4>2. PICK j \in 1..m : order[j] = g
        BY <4>1 DEF Evicted
      <4> QED
        BY <4>2
    <3>5. \A g \in gone : \E i \in 1..m : order[i] = g
      BY <3>2 DEF Evicted
    <3>6. \A k \in kept : \E j \in 1..n : j > m /\ order[j] = k
      <4>1. ASSUME NEW k \in kept
            PROVE  \E j \in 1..n : j > m /\ order[j] = k
        <5>1. k \in fresh /\ k \notin Evicted(order, m)
          BY <2>8
        <5>2. PICK j \in 1..n : order[j] = k
          BY <2>6, <5>1
        <5>3. j \notin 1..m
          BY <5>1, <5>2 DEF Evicted
        <5> QED
          BY <5>2, <5>3
      <4> QED
        BY <4>1
    <3>7. \A i \in 1..n : entries[order[i]].stored \in Nat
      BY <2>3, <2>6
    <3>8. \A i, j \in 1..n : i <= j => entries[order[i]].stored <= entries[order[j]].stored
      <4>1. ASSUME NEW i \in 1..n, NEW j \in 1..n, i <= j
            PROVE  entries[order[i]].stored <= entries[order[j]].stored
        <5>1. CASE i = j
          BY <3>7, <5>1
        <5>2. CASE i < j
          BY <2>7, <5>2
        <5> QED
          BY <4>1, <5>1, <5>2
      <4> QED
        BY <4>1
    <3>9. \A g \in gone, k \in kept : entries[g].stored <= entries[k].stored
      <4>1. ASSUME NEW g \in gone, NEW k \in kept
            PROVE  entries[g].stored <= entries[k].stored
        <5>1. PICK i \in 1..m : order[i] = g
          BY <3>5
        <5>2. PICK j \in 1..n : j > m /\ order[j] = k
          BY <3>6
        <5>3. i \in 1..n /\ i <= j
          BY <2>n, <5>2
        <5> QED
          BY <3>8, <5>1, <5>2, <5>3
      <4> QED
        BY <4>1
    <3> DEFINE last == order[m]
    <3>10. last \in gone
      <4>1. last \in Evicted(order, m)
        BY <3>4 DEF Evicted
      <4>2. last \in fresh
        BY <2>6, <3>4
      <4> QED
        BY <3>2, <4>1, <4>2
    <3>11. \A g \in gone : entries[g].stored <= entries[last].stored
      <4>1. ASSUME NEW g \in gone
            PROVE  entries[g].stored <= entries[last].stored
        <5>1. PICK i \in 1..m : order[i] = g
          BY <3>5
        <5>2. i \in 1..n /\ i <= m
          BY <2>n
        <5> QED
          BY <3>4, <3>8, <5>1, <5>2
      <4> QED
        BY <4>1
    <3>12. fresh \ Evicted(order, m - 1) = kept \cup {last}
      <4>1. \A j : j \in 1..m <=> j \in 1..(m - 1) \/ j = m
        BY <3>4
      <4>2. Evicted(order, m) = Evicted(order, m - 1) \cup {last}
        BY <4>1 DEF Evicted
      <4>3. last \notin Evicted(order, m - 1)
        <5>1. \A j \in 1..(m - 1) : j \in 1..n /\ j # m
          BY <2>n
        <5>2. \A j \in 1..(m - 1) : order[j] # last
          BY <2>6, <3>4, <5>1
        <5> QED
          BY <5>2 DEF Evicted
      <4>4. last \in fresh
        BY <2>6, <3>4
      <4> HIDE DEF last
      <4> QED
        BY <2>8, <4>2, <4>3, <4>4
    <3>13. ~(Cardinality(kept \cup {last}) < MaxEntries /\ Weight(kept \cup {last}) + size <= MaxBytes)
      <4>1. ~RoomWith(fresh, fresh \ Evicted(order, m - 1), left, size)
        BY <2>8, <3>4
      <4>2. kept \cup {last} \in SUBSET fresh
        BY <3>12
      <4> HIDE DEF last
      <4> QED
        BY <2>4, <2>5, <3>12, <4>1, <4>2, RoomIs
    <3>14. Cardinality(kept \cup {last}) = Cardinality(kept) + 1 /\ Cardinality(kept) \in Nat
      <4>1. IsFiniteSet(kept) /\ last \notin kept
        BY <2>4, <2>8, <3>1, <3>10, FS_Subset
      <4> QED
        BY <4>1, FS_AddElement, FS_CardinalityType
    <3>15. Weight(kept \cup {last}) \in Nat
      <4>1. kept \cup {last} \in SUBSET fresh
        BY <3>12
      <4> QED
        BY <2>4, <4>1, WeightLaws, WeightIs
    <3>16. \/ Cardinality(kept) + 2 > MaxEntries
           \/ Weight(kept \cup {last}) + size > MaxBytes
      <4> HIDE DEF last
      <4> QED
        BY <3>13, <3>14, <3>15
    <3> HIDE DEF last
    <3> QED
      BY <3>9, <3>10, <3>11, <3>16
  <2>11. kept \in SUBSET keys
    BY <2>3, <2>8
  <2> QED
    BY <2>9, <2>10, <2>11
<1> QED
  BY <1>1, <1>2

-----------------------------------------------------------------------------
(* Every reachable state.                                                   *)

(* Calls under way name a key and a document, and an entry that is held is  *)
(* the document last inserted under its key.                                *)
Coherent ==
  /\ entries \in [CacheKey -> Entry \cup {Nothing}]
  /\ calls \in [Task -> Call \cup {Nothing}]
  /\ latest \in [CacheKey -> Document \cup {Nothing}]
  /\ now \in 0..MaxTime
  /\ \A k \in CacheKey : entries[k] # Nothing => entries[k].doc = latest[k]

(* A call under way carries the fields of its operation.                    *)
LEMMA CallParts ==
  ASSUME Coherent, NEW t \in Task, calls[t] # Nothing
  PROVE  /\ calls[t].key \in CacheKey /\ calls[t].at \in 0..MaxTime
         /\ calls[t].op = "insert" => calls[t].doc \in Document
BY DEF Coherent, Call

(* Whichever entries are kept, what is left is still coherent.              *)
LEMMA KeepCoherent ==
  ASSUME Coherent, NEW kept, NEW k \in CacheKey
  PROVE  Keep(kept)[k] \in {entries[k], Nothing}
BY DEF Keep

(* What an insertion leaves under its key and under every other.            *)
LEMMA InsertResult ==
  ASSUME Coherent, NEW t \in Task, Insert(t)
  PROVE  /\ entries' \in [CacheKey -> Entry \cup {Nothing}]
         /\ \A k \in CacheKey \ {calls[t].key} : entries'[k] \in {entries[k], Nothing}
         /\ entries'[calls[t].key] # Nothing
              => entries'[calls[t].key].doc = calls[t].doc
<1> DEFINE key == calls[t].key
<1>1. key \in CacheKey /\ calls[t].at \in 0..MaxTime /\ calls[t].doc \in Document
  BY CallParts DEF Insert
<1>2. CASE Size[calls[t].doc] > MaxBytes
  <2>1. entries' = Keep(Held \ {key})
    BY <1>2 DEF Insert, Refuse
  <2>2. Keep(Held \ {key})[key] = Nothing
    BY <1>1 DEF Keep
  <2>3. Keep(Held \ {key}) \in [CacheKey -> Entry \cup {Nothing}]
    BY DEF Keep, Coherent
  <2> QED
    BY <1>1, <2>1, <2>2, <2>3, KeepCoherent
<1>3. CASE ~(Size[calls[t].doc] > MaxBytes)
  <2> DEFINE new == [doc |-> calls[t].doc, stored |-> calls[t].at]
  <2>1. PICK kept : entries' = [Keep(kept) EXCEPT ![key] = new]
    BY <1>3, Zenon DEF Insert, Hold
  <2>2. new \in Entry
    BY <1>1 DEF Entry
  <2>3. Keep(kept) \in [CacheKey -> Entry \cup {Nothing}]
    BY DEF Keep, Coherent
  <2>4. new.doc = calls[t].doc
    OBVIOUS
  <2> HIDE DEF new
  <2> QED
    BY <1>1, <2>1, <2>2, <2>3, <2>4, KeepCoherent
<1> QED
  BY <1>2, <1>3

(* Every reachable state is coherent.                                       *)
THEOREM CoherentHolds == CacheSpec => []Coherent
<1> USE CacheAssumption, NothingAssumption
<1>1. CacheInit => Coherent
  BY DEF CacheInit, Coherent
<1>2. Coherent /\ [CacheNext]_cacheVars => Coherent'
  <2> SUFFICES ASSUME Coherent, [CacheNext]_cacheVars
               PROVE  Coherent'
    OBVIOUS
  <2>1. CASE CacheTick
    BY <2>1 DEF CacheTick, Coherent
  <2>2. CASE Clear
    BY <2>2 DEF Clear, Coherent
  <2>3. ASSUME NEW t \in Task, NEW call \in Call, Begin(t, call)
        PROVE  Coherent'
    BY <2>3 DEF Begin, Coherent
  <2>4. ASSUME NEW t \in Task, NEW key \in CacheKey, NEW doc \in Document, StartInsert(t, key, doc)
        PROVE  Coherent'
    <3>1. [op |-> "insert", key |-> key, doc |-> doc, at |-> now] \in Call
      BY DEF Call, Coherent
    <3> QED
      BY <2>3, <2>4, <3>1 DEF StartInsert
  <2>5. ASSUME NEW t \in Task, NEW key \in CacheKey, StartGet(t, key)
        PROVE  Coherent'
    <3>1. [op |-> "get", key |-> key, at |-> now] \in Call
      BY DEF Call, Coherent
    <3> QED
      BY <2>3, <2>5, <3>1 DEF StartGet
  <2>6. ASSUME NEW t \in Task, Get(t)
        PROVE  Coherent'
    BY <2>6 DEF Get, Coherent
  <2>7. ASSUME NEW t \in Task, Insert(t)
        PROVE  Coherent'
    <3>1. calls[t].key \in CacheKey /\ calls[t].doc \in Document
      BY <2>7, CallParts DEF Insert
    <3>2. latest' = [latest EXCEPT ![calls[t].key] = calls[t].doc]
      BY <2>7 DEF Insert
    <3>3. \A k \in CacheKey : entries'[k] # Nothing => entries'[k].doc = latest'[k]
      BY <2>7, <3>1, <3>2, InsertResult DEF Coherent
    <3>4. now' = now /\ calls' = [calls EXCEPT ![t] = Nothing]
      BY <2>7 DEF Insert
    <3> QED
      BY <2>7, <3>1, <3>2, <3>3, <3>4, InsertResult DEF Coherent
  <2>8. CASE UNCHANGED cacheVars
    BY <2>8 DEF cacheVars, Coherent
  <2> QED
    BY <2>1, <2>2, <2>4, <2>5, <2>6, <2>7, <2>8 DEF CacheNext
<1> QED
  BY <1>1, <1>2, PTL DEF CacheSpec

(* The cache implements LossyCache: a lookup answers with the document last *)
(* inserted under its key or with nothing, and every other step is one of   *)
(* LossyCache's or none.                                                    *)
THEOREM CacheIsLossy == CacheSpec => LossySpec
<1>1. CacheInit => Lossy!Init
  BY DEF CacheInit, Lossy!Init
<1>2. Coherent /\ [CacheNext]_cacheVars => [Lossy!Next]_Lossy!lossyVars
  <2> SUFFICES ASSUME Coherent, [CacheNext]_cacheVars
               PROVE  Lossy!Next \/ UNCHANGED <<latest, answer>>
    BY DEF Lossy!lossyVars
  <2>1. ASSUME NEW t \in Task, Get(t)
        PROVE  Lossy!Next
    <3>1. calls[t].key \in CacheKey
      BY <2>1, CallParts DEF Get
    <3>2. \E doc \in {latest[calls[t].key], Nothing} :
            answer' = [key |-> calls[t].key, doc |-> doc]
      BY <2>1, <3>1 DEF Get, Coherent
    <3>3. latest' = latest
      BY <2>1 DEF Get
    <3> QED
      BY <3>1, <3>2, <3>3 DEF Lossy!Next, Lossy!Lookup
  <2>2. ASSUME NEW t \in Task, Insert(t)
        PROVE  Lossy!Next
    <3>1. calls[t].key \in CacheKey /\ calls[t].doc \in Document
      BY <2>2, CallParts DEF Insert
    <3> QED
      BY <2>2, <3>1 DEF Insert, Lossy!Next, Lossy!Insert
  <2>3. CASE CacheTick \/ Clear \/ UNCHANGED cacheVars
    BY <2>3 DEF CacheTick, Clear, cacheVars
  <2>4. ASSUME NEW t, NEW key, NEW doc, StartInsert(t, key, doc) \/ StartGet(t, key)
        PROVE  UNCHANGED <<latest, answer>>
    BY <2>4 DEF StartInsert, StartGet, Begin
  <2> QED
    BY <2>1, <2>2, <2>3, <2>4, Zenon DEF CacheNext
<1> QED
  BY <1>1, <1>2, CoherentHolds, PTL DEF CacheSpec, LossySpec, Lossy!Spec

(* What the running total and the limits need to stay true: an insertion    *)
(* under way found the cache enabled.                                       *)
Budgeted ==
  /\ Coherent
  /\ IsFiniteSet(Held)
  /\ BudgetHeld
  /\ \A t \in Task :
       calls[t] # Nothing /\ calls[t].op = "insert" => MaxEntries > 0

(* What is held has a size and an age.                                      *)
LEMMA HeldSized ==
  ASSUME Coherent, IsFiniteSet(Held)
  PROVE  /\ Sized(entries, Held)
         /\ \A k \in Held : entries[k].doc \in Document /\ entries[k].stored \in Nat
<1>1. \A k \in Held : k \in CacheKey /\ entries[k] \in Entry
  BY DEF Held, Coherent
<1>2. \A e \in Entry : e.doc \in Document /\ e.stored \in Nat /\ Size[e.doc] \in Nat
  BY CacheAssumption DEF Entry
<1>3. \A k \in Held : entries[k].doc \in Document /\ entries[k].stored \in Nat
                      /\ Size[entries[k].doc] \in Nat
  BY <1>1, <1>2
<1> QED
  BY <1>1, <1>3 DEF Sized

(* What CacheInner::remove leaves is within the limits.                     *)
LEMMA RemovedIs ==
  ASSUME Budgeted, NEW key
  PROVE  /\ TotalAfterRemove(key) = Weight(Held \ {key})
         /\ Weight(Held \ {key}) \in Nat /\ Weight(Held \ {key}) <= MaxBytes
         /\ IsFiniteSet(Held \ {key}) /\ Cardinality(Held \ {key}) <= MaxEntries
<1>1. Sized(entries, Held) /\ bytes = Weight(Held) /\ IsFiniteSet(Held)
  BY HeldSized DEF Budgeted, BudgetHeld
<1>2. Held \ {key} \in SUBSET Held /\ Held \ (Held \ {key}) = Held \cap {key}
  OBVIOUS
<1>3. /\ Weight(Held \ {key}) \in Nat
      /\ SaturatingSub(Weight(Held), Weight(Held \ (Held \ {key}))) = Weight(Held \ {key})
  BY <1>1, <1>2, TotalLeft
<1>4. TotalAfterRemove(key) = Weight(Held \ {key})
  BY <1>1, <1>2, <1>3 DEF TotalAfterRemove
<1>5. Weight(Held \ {key}) <= Weight(Held)
  <2>1. /\ Weight(Held \ {key}) \in Nat /\ Weight(Held \ (Held \ {key})) \in Nat
        /\ Weight(Held) = Weight(Held \ {key}) + Weight(Held \ (Held \ {key}))
    BY <1>1, <1>2, WeightLaws, WeightIs
  <2> QED
    BY <2>1
<1>6. Weight(Held) \in Nat /\ Weight(Held) <= MaxBytes /\ Cardinality(Held) <= MaxEntries
  BY <1>1, WeightLaws, WeightIs DEF Budgeted, BudgetHeld
<1>7. /\ IsFiniteSet(Held \ {key})
      /\ Cardinality(Held \ {key}) \in Nat /\ Cardinality(Held) \in Nat
      /\ Cardinality(Held \ {key}) <= Cardinality(Held)
  BY <1>1, <1>2, FS_Subset, FS_CardinalityType
<1>8. Weight(Held \ {key}) <= MaxBytes
  <2> DEFINE a == Weight(Held \ {key})
             b == Weight(Held)
  <2> HIDE DEF a, b
  <2>1. a \in Nat /\ b \in Nat /\ a <= b /\ b <= MaxBytes
    BY <1>3, <1>5, <1>6 DEF a, b
  <2>2. a <= MaxBytes
    BY <2>1, CacheAssumption
  <2> QED
    BY <2>2 DEF a
<1>9. Cardinality(Held \ {key}) <= MaxEntries
  <2> DEFINE a == Cardinality(Held \ {key})
             b == Cardinality(Held)
  <2> HIDE DEF a, b
  <2>1. a \in Nat /\ b \in Nat /\ a <= b /\ b <= MaxEntries
    BY <1>6, <1>7 DEF a, b
  <2>2. a <= MaxEntries
    BY <2>1, CacheAssumption
  <2> QED
    BY <2>2 DEF a
<1> QED
  BY <1>3, <1>4, <1>7, <1>8, <1>9

(* The entry that an insertion makes.                                       *)
Slot(call) == [doc |-> call.doc, stored |-> call.at]

(* The insertion holds its document beside what make_room kept.             *)
HoldsBeside(call, kept) ==
  /\ kept \in SUBSET (Held \ {call.key})
  /\ entries' = [Keep(kept) EXCEPT ![call.key] = Slot(call)]
  /\ bytes' = Weight(kept) + Size[call.doc]
  /\ Cardinality(kept) < MaxEntries
  /\ Weight(kept) \in Nat /\ Weight(kept) + Size[call.doc] <= MaxBytes
  /\ Needed(Held \ {call.key}, kept, Size[call.doc], call.at)

(* An insertion that is not refused holds its document beside what fits.    *)
LEMMA HoldIs ==
  ASSUME Budgeted, NEW t \in Task, Insert(t), ~(Size[calls[t].doc] > MaxBytes)
  PROVE  \E kept : HoldsBeside(calls[t], kept)
<1> DEFINE call == calls[t]
           others == Held \ {call.key}
           size == Size[call.doc]
<1>1. /\ call.key \in CacheKey /\ call.doc \in Document /\ call.at \in Nat
      /\ MaxEntries > 0 /\ MaxEntries \in Nat /\ MaxBytes \in Nat
  <2>1. Coherent /\ call # Nothing /\ call.op = "insert" /\ MaxEntries > 0
    BY DEF Budgeted, Insert
  <2> QED
    BY <2>1, CallParts, CacheAssumption
<1>2. size \in Nat /\ size <= MaxBytes
  <2>1. size \in Nat
    BY <1>1, CacheAssumption
  <2> QED
    BY <1>1, <2>1
<1>3. Sized(entries, others) /\ \A k \in others : entries[k].stored \in Nat
  <2>1. Sized(entries, Held) /\ \A k \in Held : entries[k].stored \in Nat
    BY HeldSized DEF Budgeted
  <2> QED
    BY <2>1, RemovedIs DEF Sized
<1>4. TotalAfterRemove(call.key) = Weight(others)
  BY RemovedIs
<1>5. Hold(call)
  BY DEF Insert
<1>6. PICK kept \in MakeRoom(others, Weight(others), size, call.at) :
        /\ entries' = [Keep(kept) EXCEPT ![call.key] = Slot(call)]
        /\ bytes' = SaturatingSub(Weight(others), Weight(others \ kept)) + size
  BY <1>4, <1>5 DEF Hold, Slot
<1> HIDE DEF call, size, others
<1>7. /\ kept \in SUBSET others
      /\ Cardinality(kept) < MaxEntries /\ Weight(kept) + size <= MaxBytes
      /\ Needed(others, kept, size, call.at)
  BY <1>1, <1>2, <1>3, MakeRoomIs
<1>8. /\ Weight(kept) \in Nat
      /\ SaturatingSub(Weight(others), Weight(others \ kept)) = Weight(kept)
  BY <1>3, <1>7, TotalLeft
<1>9. HoldsBeside(call, kept)
  BY <1>6, <1>7, <1>8 DEF HoldsBeside, others, size
<1> QED
  BY <1>9 DEF call

(* And what it is about after a step.                                       *)
LEMMA WeightThen == Weight(Held)' = WeightIn(entries', Held')
BY DEF Weight, WeightIn, MapThenSumSet, MapThenFoldSet

(* An insertion keeps the total and the limits.                             *)
LEMMA BudgetStep ==
  ASSUME Budgeted, NEW t \in Task, Insert(t)
  PROVE  IsFiniteSet(Held)' /\ BudgetHeld'
<1> DEFINE key == calls[t].key
           doc == calls[t].doc
<1>1. key \in CacheKey /\ doc \in Document /\ calls[t].at \in 0..MaxTime
  BY CallParts DEF Budgeted, Insert
<1>2. Sized(entries, Held)
  BY HeldSized DEF Budgeted
<1>3. CASE Size[doc] > MaxBytes
  <2>1. entries' = Keep(Held \ {key}) /\ bytes' = TotalAfterRemove(key)
    BY <1>3 DEF Insert, Refuse
  <2>2. Held' = Held \ {key}
    BY <2>1 DEF Held, Keep
  <2>3. PICK e, rest : e = entries' /\ rest = Held \ {key}
    OBVIOUS
  <2>4. \A k \in rest : e[k] = entries[k]
    BY <2>1, <2>3 DEF Keep, Held
  <2>5. Sized(entries, rest)
    BY <1>2, <2>3, RemovedIs DEF Sized
  <2>6. WeightIn(e, rest) = Weight(rest)
    BY <2>4, <2>5, WeightSame, WeightIs
  <2>7. Weight(Held)' = WeightIn(e, rest)
    BY <2>2, <2>3, WeightThen
  <2> QED
    BY <2>1, <2>2, <2>3, <2>6, <2>7, RemovedIs DEF BudgetHeld
<1>4. CASE ~(Size[doc] > MaxBytes)
  <2>1. PICK kept : HoldsBeside(calls[t], kept)
    BY <1>4, HoldIs
  <2>2. kept \in SUBSET (Held \ {key})
    BY <2>1 DEF HoldsBeside
  <2>3. PICK e : e = entries'
    OBVIOUS
  <2>4. e = [Keep(kept) EXCEPT ![key] = Slot(calls[t])]
    BY <2>1, <2>3 DEF HoldsBeside
  <2>5. Slot(calls[t]) \in Entry /\ Slot(calls[t]).doc = doc /\ Slot(calls[t]) # Nothing
    BY <1>1, NothingAssumption DEF Slot, Entry
  <2>6. /\ e[key].doc = doc
        /\ \A k \in kept : e[k] = entries[k]
        /\ \A k \in CacheKey : e[k] # Nothing <=> k \in kept \cup {key}
    BY <1>1, <2>2, <2>4, <2>5 DEF Keep, Held
  <2>7. Held' = kept \cup {key}
    BY <1>1, <2>2, <2>3, <2>6 DEF Held
  <2>8. IsFiniteSet(kept) /\ key \notin kept /\ kept \subseteq CacheKey
    BY <1>2, <2>2, FS_Subset DEF Sized
  <2>9. /\ IsFiniteSet(kept \cup {key})
        /\ Cardinality(kept \cup {key}) = Cardinality(kept) + 1
        /\ Cardinality(kept) \in Nat
    BY <2>8, FS_AddElement, FS_CardinalityType
  <2>10. Size[doc] \in Nat
    BY <1>1, CacheAssumption
  <2>11. Sized(entries, kept)
    BY <1>2, <2>2, <2>8 DEF Sized
  <2>12. Sized(e, kept \cup {key})
    BY <1>1, <2>6, <2>8, <2>9, <2>10, <2>11 DEF Sized
  <2>13. WeightIn(e, kept \cup {key}) = Weight(kept) + Size[doc]
    <3>1. WeightIn(e, kept) = Weight(kept)
      BY <2>6, <2>11, WeightSame, WeightIs
    <3>2. PICK all : all = kept \cup {key}
      OBVIOUS
    <3>3. kept \in SUBSET all /\ all \ kept = {key} /\ key \in all
      BY <2>8, <3>2
    <3>4. /\ \A k \in all : WeightIn(e, {k}) = Size[e[k].doc]
          /\ \A part \in SUBSET all :
               WeightIn(e, all) = WeightIn(e, part) + WeightIn(e, all \ part)
      <4>1. Sized(e, all)
        BY <2>12, <3>2
      <4> QED
        BY <4>1, WeightLaws
    <3> HIDE DEF key, doc
    <3>5. WeightIn(e, {key}) = Size[doc]
      BY <2>6, <3>3, <3>4
    <3>6. WeightIn(e, all) = WeightIn(e, kept) + WeightIn(e, all \ kept)
      BY <3>3, <3>4
    <3>7. WeightIn(e, all) = Weight(kept) + Size[doc]
      BY <3>1, <3>3, <3>5, <3>6
    <3> QED
      BY <3>2, <3>7
  <2>14. Weight(Held)' = WeightIn(e, kept \cup {key})
    BY <2>3, <2>7, WeightThen
  <2>15. bytes' = Weight(Held)' /\ bytes' <= MaxBytes
    BY <2>1, <2>13, <2>14 DEF HoldsBeside
  <2>16. (Cardinality(Held) <= MaxEntries)'
    <3>1. Cardinality(kept) < MaxEntries
      BY <2>1 DEF HoldsBeside
    <3>2. Cardinality(kept) + 1 <= MaxEntries
      BY <2>9, <3>1, CacheAssumption
    <3> QED
      BY <2>7, <2>9, <3>2
  <2> QED
    BY <2>7, <2>9, <2>15, <2>16 DEF BudgetHeld
<1> QED
  BY <1>3, <1>4

(* The invariant the next two theorems rest on.                             *)
LEMMA BudgetedHolds == CacheSpec => []Budgeted
<1>1. CacheInit /\ Coherent => Budgeted
  <2> SUFFICES ASSUME CacheInit, Coherent
               PROVE  Budgeted
    OBVIOUS
  <2>1. Held = {}
    BY DEF CacheInit, Held
  <2>2. Weight({}) = 0
    <3>1. Sized(entries, {})
      BY FS_EmptySet DEF Sized
    <3> QED
      BY <3>1, WeightLaws, WeightIs
  <2>3. IsFiniteSet({}) /\ Cardinality({}) = 0
    BY FS_EmptySet
  <2>4. bytes = 0 /\ \A t \in Task : calls[t] = Nothing
    BY DEF CacheInit
  <2> QED
    BY <2>1, <2>2, <2>3, <2>4, CacheAssumption DEF Budgeted, BudgetHeld
<1>2. Budgeted /\ Coherent' /\ [CacheNext]_cacheVars => Budgeted'
  <2> SUFFICES ASSUME Budgeted, Coherent', [CacheNext]_cacheVars
               PROVE  Budgeted'
    OBVIOUS
  <2> DEFINE EnabledFor(t) == calls[t] # Nothing /\ calls[t].op = "insert" => MaxEntries > 0
  <2>1. \A t \in Task : EnabledFor(t)
    BY DEF Budgeted
  <2>2. ASSUME UNCHANGED <<entries, bytes>>, \A t \in Task : EnabledFor(t)'
        PROVE  Budgeted'
    <3>1. Held' = Held
      BY <2>2 DEF Held
    <3>2. Weight(Held)' = Weight(Held)
      BY <2>2, <3>1, WeightThen, WeightIs
    <3> QED
      BY <2>2, <3>1, <3>2 DEF Budgeted, BudgetHeld
  <2>3. ASSUME NEW t \in Task, NEW call, Begin(t, call), call.op = "insert" => MaxEntries > 0
        PROVE  Budgeted'
    <3>1. calls' = [calls EXCEPT ![t] = call] /\ calls \in [Task -> Call \cup {Nothing}]
      BY <2>3 DEF Begin, Budgeted, Coherent
    <3>2. \A u \in Task : calls'[u] = IF u = t THEN call ELSE calls[u]
      BY <3>1
    <3> QED
      BY <2>1, <2>2, <2>3, <3>2 DEF Begin
  <2>4. ASSUME NEW t \in Task, NEW key \in CacheKey, NEW doc \in Document, StartInsert(t, key, doc)
        PROVE  Budgeted'
    BY <2>3, <2>4 DEF StartInsert
  <2>5. ASSUME NEW t \in Task, NEW key \in CacheKey, StartGet(t, key)
        PROVE  Budgeted'
    BY <2>3, <2>5 DEF StartGet
  <2>6. ASSUME NEW t \in Task, calls' = [calls EXCEPT ![t] = Nothing]
        PROVE  \A u \in Task : EnabledFor(u)'
    <3>1. \A u \in Task : calls'[u] = IF u = t THEN Nothing ELSE calls[u]
      BY <2>6 DEF Budgeted, Coherent
    <3> QED
      BY <2>1, <3>1
  <2>7. ASSUME NEW t \in Task, Get(t)
        PROVE  Budgeted'
    BY <2>2, <2>6, <2>7 DEF Get
  <2>8. ASSUME NEW t \in Task, Insert(t)
        PROVE  Budgeted'
    <3>1. \A u \in Task : EnabledFor(u)'
      BY <2>6, <2>8 DEF Insert
    <3>2. IsFiniteSet(Held)' /\ BudgetHeld'
      BY <2>8, BudgetStep
    <3> QED
      BY <3>1, <3>2 DEF Budgeted
  <2>9. CASE CacheTick
    <3>1. UNCHANGED <<entries, bytes, calls>>
      BY <2>9 DEF CacheTick
    <3> QED
      BY <2>1, <2>2, <3>1
  <2>10. CASE UNCHANGED cacheVars
    <3>1. UNCHANGED <<entries, bytes, calls>>
      BY <2>10 DEF cacheVars
    <3> QED
      BY <2>1, <2>2, <3>1
  <2>11. CASE Clear
    <3>1. entries' = [k \in CacheKey |-> Nothing] /\ bytes' = 0 /\ calls' = calls
      BY <2>11 DEF Clear
    <3>2. Held' = {}
      BY <3>1 DEF Held
    <3>3. PICK e : e = entries'
      OBVIOUS
    <3>4. Weight(Held)' = 0
      <4>1. Sized(e, {})
        BY FS_EmptySet DEF Sized
      <4>2. WeightIn(e, {}) = 0
        BY <4>1, WeightLaws
      <4> QED
        BY <3>2, <3>3, <4>2, WeightThen
    <3>5. IsFiniteSet({}) /\ Cardinality({}) = 0
      BY FS_EmptySet
    <3>6. \A t \in Task : EnabledFor(t)'
      BY <2>1, <3>1
    <3> QED
      BY <3>1, <3>2, <3>4, <3>5, <3>6, CacheAssumption DEF Budgeted, BudgetHeld
  <2> QED
    BY <2>4, <2>5, <2>7, <2>8, <2>9, <2>10, <2>11 DEF CacheNext
<1> QED
  BY <1>1, <1>2, CoherentHolds, PTL DEF CacheSpec

(* The type invariant: the running total is a natural number, as no removal *)
(* takes more from it than it holds, and a lookup answers with a document.  *)
THEOREM TypeCorrect == CacheSpec => []CacheTypeOK
<1> DEFINE Answered == answer \in [key : CacheKey, doc : Document \cup {Nothing}] \cup {Nothing}
<1>1. CacheInit => Answered
  BY DEF CacheInit
<1>2. Coherent /\ Answered /\ [CacheNext]_cacheVars => Answered'
  <2> SUFFICES ASSUME Coherent, Answered, [CacheNext]_cacheVars
               PROVE  Answered'
    OBVIOUS
  <2>1. ASSUME NEW t \in Task, Get(t)
        PROVE  Answered'
    <3> DEFINE key == calls[t].key
    <3>1. key \in CacheKey
      BY <2>1, CallParts DEF Get
    <3>2. entries[key] = Nothing \/ entries[key].doc \in Document
      BY <3>1 DEF Coherent, Entry
    <3>3. \/ answer' = [key |-> key, doc |-> Nothing]
          \/ entries[key] # Nothing /\ answer' = [key |-> key, doc |-> entries[key].doc]
      BY <2>1, Zenon DEF Get
    <3> HIDE DEF key
    <3> QED
      BY <3>1, <3>2, <3>3
  <2>2. CASE UNCHANGED answer
    BY <2>2
  <2> QED
    BY <2>1, <2>2 DEF CacheNext, CacheTick, Clear, StartInsert, StartGet, Begin, Insert, cacheVars
<1>3. Budgeted /\ Answered => CacheTypeOK
  <2> SUFFICES ASSUME Budgeted, Answered
               PROVE  CacheTypeOK
    OBVIOUS
  <2>1. Weight(Held) \in Nat
    BY HeldSized, WeightLaws, WeightIs DEF Budgeted
  <2>2. bytes \in Nat
    BY <2>1 DEF Budgeted, BudgetHeld
  <2> QED
    BY <2>2 DEF Budgeted, Coherent, CacheTypeOK
<1>4. Budgeted => Coherent
  BY DEF Budgeted
<1> QED
  BY <1>1, <1>2, <1>3, <1>4, BudgetedHolds, PTL DEF CacheSpec

(* The running total is what the entries weigh, and neither limit is ever   *)
(* exceeded, whatever the sizes and the limits are: insert_at never holds   *)
(* more than it was allowed to.                                             *)
THEOREM BudgetAlwaysHeld == CacheSpec => []BudgetHeld
<1>1. Budgeted => BudgetHeld
  BY DEF Budgeted
<1> QED
  BY <1>1, BudgetedHolds, PTL

(* Whatever an insertion evicts that was still fresh had to go: nothing     *)
(* stored later went before it, and what went last had no room beside what  *)
(* was kept and what came (make_room, insert_at).                           *)
THEOREM EvictionAlwaysNeeded == CacheSpec => EvictionNeeded
<1> DEFINE
      Gone(t) == {k \in Held \ {calls[t].key} :
                    Fresh(entries[k], calls[t].at) /\ entries'[k] = Nothing}
      Kept(t) == {k \in Held \ {calls[t].key} : entries'[k] # Nothing}
      Justified(t) ==
        Gone(t) # {} =>
          /\ \A g \in Gone(t), k \in Kept(t) : entries[g].stored <= entries[k].stored
          /\ \E last \in Gone(t) :
               /\ \A g \in Gone(t) : entries[g].stored <= entries[last].stored
               /\ \/ Cardinality(Kept(t)) + 2 > MaxEntries
                  \/ Weight(Kept(t) \cup {last}) + Size[calls[t].doc] > MaxBytes
<1>1. ASSUME Budgeted, NEW t \in Task, Insert(t)
      PROVE  Justified(t)
  <2> DEFINE others == Held \ {calls[t].key}
  <2>0. \A k \in others : k \in CacheKey /\ entries[k] # Nothing /\ k # calls[t].key
    BY DEF Held
  <2>1. CASE Size[calls[t].doc] > MaxBytes
    <3>1. entries' = Keep(others)
      BY <1>1, <2>1 DEF Insert, Refuse
    <3>2. \A k \in others : entries'[k] # Nothing
      BY <2>0, <3>1 DEF Keep
    <3>3. Gone(t) = {}
      BY <3>2
    <3> QED
      BY <3>3
  <2>2. CASE ~(Size[calls[t].doc] > MaxBytes)
    <3>1. PICK kept : HoldsBeside(calls[t], kept)
      BY <1>1, <2>2, HoldIs
    <3>2. /\ kept \in SUBSET others
          /\ entries' = [Keep(kept) EXCEPT ![calls[t].key] = Slot(calls[t])]
          /\ Needed(others, kept, Size[calls[t].doc], calls[t].at)
      BY <3>1 DEF HoldsBeside
    <3>3. \A k \in others : entries'[k] # Nothing <=> k \in kept
      BY <2>0, <3>2 DEF Keep
    <3>4. Kept(t) = kept
      BY <3>2, <3>3
    <3>5. Gone(t) = {k \in others : Fresh(entries[k], calls[t].at) /\ k \notin kept}
      BY <3>3
    <3> QED
      BY <3>2, <3>4, <3>5 DEF Needed
  <2> QED
    BY <2>1, <2>2
<1>2. Budgeted /\ [CacheNext]_cacheVars => [\A t \in Task : Insert(t) => Justified(t)]_cacheVars
  <2> HIDE DEF Justified
  <2> QED
    BY <1>1
<1>3. [][\A t \in Task : Insert(t) => Justified(t)]_cacheVars => EvictionNeeded
  BY PTL DEF EvictionNeeded
<1> QED
  BY <1>2, <1>3, BudgetedHolds, PTL DEF CacheSpec
=============================================================================
