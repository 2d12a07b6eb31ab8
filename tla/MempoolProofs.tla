--------------------------- MODULE MempoolProofs ---------------------------
(***************************************************************************)
(* Theorems about Mempool, for any transactions, chain, limits and order   *)
(* of operations: the links, the totals and mapNextTx of the pool are      *)
(* exact, pool and chain are free of conflicts, the pool is within its     *)
(* limit and mineable outside of a reorganisation, and a replacement pays  *)
(* for what leaves.                                                        *)
(*                                                                         *)
(* The properties are not inductive one by one: that totals are exact      *)
(* needs exact links (what an entry counts is found by links), links need  *)
(* mapNextTx (the children of what comes back are found there), mapNextTx  *)
(* needs a chain without double spends, and all of them must hold between  *)
(* the two loops of DisconnectTip, where the transactions that came back   *)
(* do not know their older children yet.  Kept and Totals say what holds   *)
(* there: U are the transactions whose older children are not linked, I    *)
(* all those that came back with the block.  With both empty they are      *)
(* the invariant (PoolInv).                                                *)
(*                                                                         *)
(* The module first proves what the recursive functions inside Reach and   *)
(* Sum compute, by induction over sets of numbers and of transactions,     *)
(* then follows each operation of the pool.                                *)
(***************************************************************************)
EXTENDS Mempool, FiniteSetTheorems, SequenceTheorems, WellFoundedInduction, TLAPS

-----------------------------------------------------------------------------
\* A set of natural numbers has a least element.
LEMMA NatLeast ==
    ASSUME NEW S \in SUBSET Nat, S # {}
    PROVE  \E n \in S : \A m \in S : n <= m
<1> DEFINE R == OpToRel(<, Nat)
<1>1. IsWellFoundedOn(R, Nat) BY NatLessThanWellFounded
<1>2. \A x, y \in Nat : y < x => <<y, x>> \in R BY DEF OpToRel
<1> HIDE DEF R
<1>3. PICK x \in S : \A y \in S : ~(<<y, x>> \in R) BY <1>1, WFMin
<1>4. \A y \in S : ~(y < x) BY <1>2, <1>3
<1>5. QED BY <1>4

\* What holds of 0 and of the successor of each number up to n holds of n: the
\* set of those of which it holds is all of 0 .. n.
LEMMA Climb ==
    ASSUME NEW n \in Nat, NEW H, 0 \in H,
           \A i \in 0 .. n : i # n /\ i \in H => i + 1 \in H
    PROVE  n \in H /\ \A i \in 0 .. n : i \in H
  <1>0. SUFFICES \A i \in 0 .. n : i \in H
    OBVIOUS
  <1> DEFINE Bad == {i \in 0 .. n : i \notin H}
  <1>1. SUFFICES ASSUME Bad # {} PROVE FALSE
    OBVIOUS
  <1>a. Bad \in SUBSET Nat
    OBVIOUS
  <1>b. \A i : i \in Bad <=> i \in 0 .. n /\ i \notin H
    OBVIOUS
  <1> HIDE DEF Bad
  <1>2. PICK i \in Bad : \A j \in Bad : i <= j
    BY <1>1, <1>a, NatLeast
  <1>3. i \in Nat /\ i # 0 /\ i - 1 \in 0 .. n /\ i - 1 # n
    BY <1>2, <1>b
  <1>4. i - 1 \in H
    BY <1>2, <1>3, <1>b
  <1>5. (i - 1) + 1 \in H
    BY <1>3, <1>4
  <1>6. (i - 1) + 1 = i
    BY <1>3
  <1> QED BY <1>2, <1>5, <1>6, <1>b

\* A proper part of a finite set has fewer elements.
LEMMA FewerElements ==
    ASSUME NEW S, IsFiniteSet(S), NEW T, T \subseteq S
    PROVE  /\ IsFiniteSet(T) /\ Cardinality(T) \in Nat /\ Cardinality(S) \in Nat
           /\ Cardinality(T) <= Cardinality(S)
           /\ T # S => Cardinality(T) < Cardinality(S)
  <1>1. IsFiniteSet(T) /\ Cardinality(T) <= Cardinality(S) /\ (Cardinality(S) = Cardinality(T) => S = T)
    BY FS_Subset
  <1>2. Cardinality(T) \in Nat /\ Cardinality(S) \in Nat
    BY <1>1, FS_CardinalityType
  <1> QED BY <1>1, <1>2

\* Induction over the subsets of a finite set: H holds every subset of S when it
\* holds the empty one and each one that it holds without any one element.
LEMMA SetClimb ==
    ASSUME NEW S, IsFiniteSet(S), NEW H, {} \in H,
           \A T \in SUBSET S : T # {} /\ (\A x \in T : T \ {x} \in H) => T \in H
    PROVE  S \in H /\ \A T \in SUBSET S : T \in H
  <1>0. SUFFICES \A T \in SUBSET S : T \in H
    OBVIOUS
  <1> DEFINE K == {k \in Nat : \A T \in SUBSET S : Cardinality(T) <= k => T \in H}
             n == Cardinality(S)
  <1>1. n \in Nat
    BY FS_CardinalityType
  <1>2. 0 \in K
    <2>1. ASSUME NEW T \in SUBSET S, Cardinality(T) <= 0
          PROVE  T \in H
      <3>1. IsFiniteSet(T) /\ Cardinality(T) \in Nat
        BY FewerElements
      <3>2. T = {}
        BY <2>1, <3>1, FS_EmptySet
      <3> QED BY <3>2
    <2> QED BY <2>1
  <1>3. ASSUME NEW k \in 0 .. n, k # n, k \in K
        PROVE  k + 1 \in K
    <2>1. ASSUME NEW T \in SUBSET S, Cardinality(T) <= k + 1
          PROVE  T \in H
      <3>1. IsFiniteSet(T) /\ Cardinality(T) \in Nat
        BY FewerElements
      <3>2. ASSUME NEW x \in T
            PROVE  T \ {x} \in H
        <4>1. Cardinality(T \ {x}) = Cardinality(T) - 1
          BY <3>1, FS_RemoveElement
        <4>2. Cardinality(T \ {x}) <= k
          BY <4>1, <3>1, <2>1, <1>1
        <4>3. T \ {x} \in SUBSET S
          OBVIOUS
        <4> QED BY <1>3, <4>2, <4>3
      <3> QED BY <3>2
    <2>2. k + 1 \in Nat
      BY <1>1
    <2> QED BY <2>1, <2>2
  <1>4. n \in K
    <2> HIDE DEF K, n
    <2> QED BY <1>1, <1>2, <1>3, Climb
  <1>5. \A T \in SUBSET S : Cardinality(T) <= n
    BY FewerElements
  <1> QED BY <1>4, <1>5

-----------------------------------------------------------------------------
\* Reach.

\* f does the first n rounds of Reach.
Rounds(S, link, n, f) ==
    f = [i \in 0 .. n |-> IF i = 0 THEN S
                          ELSE LET R == f[i - 1] IN R \cup UNION {link[t] : t \in R}]

\* The function that Reach defines exists, for any number of rounds.
LEMMA RoundsExist ==
    ASSUME NEW S, NEW link, NEW n \in Nat
    PROVE  \E f : Rounds(S, link, n, f)
  <1> DEFINE H == {k \in Nat : \E f : Rounds(S, link, k, f)}
  <1>1. 0 \in H
    <2>1. Rounds(S, link, 0, [i \in 0 .. 0 |-> S])
      BY DEF Rounds
    <2> QED BY <2>1
  <1>2. ASSUME NEW k \in 0 .. n, k # n, k \in H
        PROVE  k + 1 \in H
    <2>1. PICK f : Rounds(S, link, k, f)
      BY <1>2
    <2> DEFINE Next1(i) == IF i = 0 THEN S
                        ELSE LET R == f[i - 1] IN R \cup UNION {link[t] : t \in R}
               g == [i \in 0 .. k + 1 |-> Next1(i)]
    <2>2. f = [i \in 0 .. k |-> Next1(i)]
      BY <2>1 DEF Rounds
    <2> HIDE DEF Next1
    <2>3. \A i \in 0 .. k : g[i] = f[i]
      BY <2>2
    <2>4. \A i \in 0 .. k + 1 : i # 0 => g[i - 1] = f[i - 1]
      BY <2>3
    <2>5. \A i \in 0 .. k + 1 : Next1(i) = IF i = 0 THEN S
                        ELSE LET R == g[i - 1] IN R \cup UNION {link[t] : t \in R}
      BY <2>4 DEF Next1
    <2>6. Rounds(S, link, k + 1, g)
      BY <2>5 DEF Rounds
    <2> QED BY <2>6
  <1> HIDE DEF H
  <1>3. n \in H
    BY <1>1, <1>2, Climb
  <1> QED BY <1>3 DEF H

\* R is the least set with S that is closed under link.
IsReach(S, link, P, R) ==
    /\ S \subseteq R /\ R \subseteq P
    /\ \A t \in R : link[t] \subseteq R
    /\ \A Q \in SUBSET P : S \subseteq Q /\ (\A t \in Q : link[t] \subseteq Q) => R \subseteq Q

\* Reach is the least set with S that is closed under link: as many rounds as there are
\* transactions are enough, since each one but the last adds a transaction.
LEMMA ReachIs ==
    ASSUME NEW P \in SUBSET Tx, NEW S \in SUBSET P, NEW link,
           \A t \in P : link[t] \subseteq P
    PROVE  IsReach(S, link, P, Reach(S, link))
  <1> DEFINE n == Cardinality(Tx)
             f == CHOOSE f : Rounds(S, link, n, f)
  <1>1. n \in Nat /\ IsFiniteSet(P)
    BY TxAssumption, FS_CardinalityType, FS_Subset
  <1>2. Rounds(S, link, n, f)
    BY <1>1, RoundsExist
  <1>3. Reach(S, link) = f[n]
    BY DEF Reach, Rounds
  <1> HIDE DEF f, n
  <1>4. f[0] = S
    BY <1>1, <1>2 DEF Rounds
  <1>5. \A i \in 0 .. n : i # n => f[i + 1] = f[i] \cup UNION {link[t] : t \in f[i]}
    <2> SUFFICES ASSUME NEW i \in 0 .. n, i # n
                 PROVE  f[i + 1] = f[i] \cup UNION {link[t] : t \in f[i]}
      OBVIOUS
    <2>1. i + 1 \in 0 .. n /\ i + 1 # 0 /\ (i + 1) - 1 = i
      BY <1>1
    <2> QED BY <1>2, <2>1 DEF Rounds
  <1>6. \A i \in 0 .. n : S \subseteq f[i] /\ f[i] \subseteq P
    <2> DEFINE H == {i \in Nat : S \subseteq f[i] /\ f[i] \subseteq P}
    <2>1. 0 \in H
      BY <1>4
    <2>2. \A i \in 0 .. n : i # n /\ i \in H => i + 1 \in H
      BY <1>5
    <2> HIDE DEF H
    <2>3. \A i \in 0 .. n : i \in H
      BY <1>1, <2>1, <2>2, Climb
    <2> QED BY <2>3 DEF H
  <1>7. ASSUME NEW Q \in SUBSET P, S \subseteq Q, \A t \in Q : link[t] \subseteq Q
        PROVE  f[n] \subseteq Q
    <2> DEFINE H == {i \in Nat : f[i] \subseteq Q}
    <2>1. 0 \in H
      BY <1>4, <1>7
    <2>2. \A i \in 0 .. n : i # n /\ i \in H => i + 1 \in H
      BY <1>5, <1>7
    <2> HIDE DEF H
    <2>3. n \in H
      BY <1>1, <2>1, <2>2, Climb
    <2> QED BY <2>3 DEF H
  <1>8. \A t \in f[n] : link[t] \subseteq f[n]
    <2> DEFINE Shut(T) == \A t \in T : link[t] \subseteq T
               H == {i \in Nat : Shut(f[i]) \/ Cardinality(f[i]) >= i}
    <2>1. 0 \in H
      BY <1>1, <1>4, FS_Subset, FS_CardinalityType
    <2>2. ASSUME NEW i \in 0 .. n, i # n, i \in H
          PROVE  i + 1 \in H
      <3>0. f[i + 1] = f[i] \cup UNION {link[t] : t \in f[i]}
        BY <1>5, <2>2
      <3>1. CASE Shut(f[i])
        <4>1. f[i + 1] = f[i]
          BY <3>0, <3>1
        <4> QED BY <3>1, <4>1
      <3>2. CASE ~Shut(f[i])
        <4>1. Cardinality(f[i]) >= i
          BY <2>2, <3>2
        <4>2. PICK x : x \in f[i + 1] /\ x \notin f[i]
          BY <3>0, <3>2
        <4>3. f[i] \subseteq f[i + 1] /\ f[i + 1] \subseteq P
          BY <3>0, <1>6, <1>1, <2>2
        <4>4. IsFiniteSet(f[i + 1]) /\ IsFiniteSet(f[i])
          BY <4>3, <1>1, FS_Subset
        <4>5. f[i] # f[i + 1]
          BY <4>2
        <4>6. Cardinality(f[i]) < Cardinality(f[i + 1])
          BY <4>3, <4>4, <4>5, FewerElements
        <4>7. Cardinality(f[i]) \in Nat /\ Cardinality(f[i + 1]) \in Nat
          BY <4>4, FS_CardinalityType
        <4>8. Cardinality(f[i + 1]) >= i + 1
          BY <4>1, <4>6, <4>7
        <4> QED BY <4>8
      <3> QED BY <3>1, <3>2
    <2> HIDE DEF H
    <2>3. n \in H
      BY <1>1, <2>1, <2>2, Climb
    <2>4. CASE Shut(f[n])
      BY <2>4
    <2>5. CASE Cardinality(f[n]) >= n
      <3>1. f[n] \subseteq P /\ P \subseteq Tx
        BY <1>1, <1>6
      <3>2. f[n] = Tx
        <4>1. SUFFICES ASSUME f[n] # Tx PROVE FALSE
          OBVIOUS
        <4>2. f[n] \subseteq Tx /\ IsFiniteSet(Tx)
          BY <3>1, TxAssumption
        <4>3. Cardinality(f[n]) < Cardinality(Tx) /\ Cardinality(f[n]) \in Nat
          BY <4>1, <4>2, FewerElements
        <4>4. Cardinality(f[n]) < n
          BY <4>3 DEF n
        <4> QED BY <4>4, <4>3, <2>5, <1>1
      <3> QED BY <3>1, <3>2
    <2> QED BY <2>3, <2>4, <2>5 DEF H
  <1> QED BY <1>1, <1>3, <1>6, <1>7, <1>8 DEF IsReach

-----------------------------------------------------------------------------
\* Sum.

\* The element that Sum takes first.
Some(T) == CHOOSE t \in T : TRUE

\* g adds f up over the sets of D.
Adds(D, f, g) ==
    g = [T \in D |-> IF T = {} THEN 0
                     ELSE LET t == CHOOSE t \in T : TRUE IN f[t] + g[T \ {t}]]

\* The element that Sum takes first is one of the set.
LEMMA SomeIn ==
    ASSUME NEW T, T # {}
    PROVE  Some(T) \in T
  BY DEF Some

\* What a function that adds up f has at each set.
LEMMA AddsAt ==
    ASSUME NEW D, NEW f, NEW g, Adds(D, f, g), NEW T \in D
    PROVE  g[T] = IF T = {} THEN 0 ELSE f[Some(T)] + g[T \ {Some(T)}]
  BY DEF Adds, Some

\* The recursive function inside Sum exists for every finite set.
LEMMA AddsExist ==
    ASSUME NEW S, IsFiniteSet(S), NEW f
    PROVE  \E g : Adds(SUBSET S, f, g)
  <1> DEFINE Small(k) == {T \in SUBSET S : Cardinality(T) <= k}
             H == {k \in Nat : \E g : Adds(Small(k), f, g)}
             n == Cardinality(S)
  <1>1. n \in Nat
    BY FS_CardinalityType
  <1>2. 0 \in H
    <2> DEFINE g == [T \in Small(0) |-> 0]
    <2>1. \A T \in Small(0) : T = {}
      <3>1. ASSUME NEW T \in Small(0)
            PROVE  T = {}
        <4>1. IsFiniteSet(T) /\ Cardinality(T) \in Nat
          BY FewerElements
        <4> QED BY <3>1, <4>1, FS_EmptySet
      <3> QED BY <3>1
    <2>2. Adds(Small(0), f, g)
      <3> HIDE DEF Small
      <3> QED BY <2>1 DEF Adds
    <2> QED BY <2>2
  <1>3. ASSUME NEW k \in 0 .. n, k # n, k \in H
        PROVE  k + 1 \in H
    <2>1. PICK g : Adds(Small(k), f, g)
      BY <1>3
    <2> DEFINE Term(T) == IF T = {} THEN 0
                          ELSE LET t == CHOOSE t \in T : TRUE IN f[t] + g[T \ {t}]
               h == [T \in Small(k + 1) |-> Term(T)]
    <2>2. Small(k) \subseteq Small(k + 1)
      <3>1. ASSUME NEW T \in Small(k)
            PROVE  T \in Small(k + 1)
        <4>1. Cardinality(T) \in Nat
          BY FewerElements
        <4> QED BY <1>1, <4>1
      <3> QED BY <3>1
    <2>3. \A T \in Small(k + 1) : T # {} => T \ {Some(T)} \in Small(k)
      <3>1. ASSUME NEW T \in Small(k + 1), T # {}
            PROVE  T \ {Some(T)} \in Small(k)
        <4>1. IsFiniteSet(T) /\ Cardinality(T) \in Nat
          BY FewerElements
        <4>2. Cardinality(T \ {Some(T)}) = Cardinality(T) - 1
          <5>1. Some(T) \in T
            BY <3>1, SomeIn
          <5> QED BY <4>1, <5>1, FS_RemoveElement
        <4> QED BY <1>1, <4>1, <4>2
      <3> QED BY <3>1
    <2> HIDE DEF Small
    <2>4. g = [T \in Small(k) |-> Term(T)]
      BY <2>1 DEF Adds
    <2>5. \A T \in Small(k) : h[T] = g[T]
      <3> HIDE DEF Term
      <3> QED BY <2>4, <2>2
    <2>6. \A T \in Small(k + 1) : Term(T) = IF T = {} THEN 0
                          ELSE LET t == CHOOSE t \in T : TRUE IN f[t] + h[T \ {t}]
      <3> HIDE DEF h
      <3> QED BY <2>3, <2>5 DEF Some
    <2>7. Adds(Small(k + 1), f, h)
      <3> HIDE DEF Term
      <3> QED BY <2>6 DEF Adds
    <2>8. k + 1 \in Nat
      BY <1>1
    <2> QED BY <2>7, <2>8
  <1>4. n \in H
    <2> HIDE DEF H, n
    <2> QED BY <1>1, <1>2, <1>3, Climb
  <1>5. Small(n) = SUBSET S
    <2>1. \A T \in SUBSET S : Cardinality(T) <= n
      BY FewerElements
    <2> QED BY <2>1
  <1> HIDE DEF Small, n
  <1>6. PICK g : Adds(Small(n), f, g)
    BY <1>4
  <1> QED BY <1>5, <1>6

\* Sum is the value of that function at the whole set.
LEMMA SumIs ==
    ASSUME NEW S, IsFiniteSet(S), NEW f
    PROVE  \E g : Adds(SUBSET S, f, g) /\ Sum(S, f) = g[S]
  <1> DEFINE g == CHOOSE g : Adds(SUBSET S, f, g)
  <1>1. Adds(SUBSET S, f, g)
    BY AddsExist
  <1>2. Sum(S, f) = g[S]
    BY DEF Sum, Adds
  <1> QED BY <1>1, <1>2

\* The sum of a set is that of an element and of the rest.
LEMMA SumStep ==
    ASSUME NEW S, IsFiniteSet(S), NEW f
    PROVE  Sum(S, f) = IF S = {} THEN 0 ELSE f[Some(S)] + Sum(S \ {Some(S)}, f)
  <1>1. PICK g : Adds(SUBSET S, f, g) /\ Sum(S, f) = g[S]
    BY SumIs
  <1>2. Sum(S, f) = IF S = {} THEN 0 ELSE f[Some(S)] + g[S \ {Some(S)}]
    BY <1>1, AddsAt
  <1>3. ASSUME S # {}
        PROVE  g[S \ {Some(S)}] = Sum(S \ {Some(S)}, f)
    <2> DEFINE R == S \ {Some(S)}
    <2>1. R \subseteq S /\ IsFiniteSet(R)
      BY FS_RemoveElement
    <2> HIDE DEF R
    <2>2. PICK h : Adds(SUBSET R, f, h) /\ Sum(R, f) = h[R]
      BY <2>1, SumIs
    <2> DEFINE H == {T \in SUBSET R : g[T] = h[T]}
    <2>3. {} \in H
      <3>1. {} \in SUBSET S /\ {} \in SUBSET R
        OBVIOUS
      <3>2. g[{}] = 0 /\ h[{}] = 0
        BY <1>1, <2>2, <3>1, AddsAt
      <3> QED BY <3>2
    <2>4. ASSUME NEW T \in SUBSET R, T # {}, \A x \in T : T \ {x} \in H
          PROVE  T \in H
      <3>1. g[T] = f[Some(T)] + g[T \ {Some(T)}]
        BY <1>1, <2>1, <2>4, AddsAt
      <3>2. h[T] = f[Some(T)] + h[T \ {Some(T)}]
        BY <2>2, <2>4, AddsAt
      <3>3. T \ {Some(T)} \in H
        BY <2>4, SomeIn
      <3>4. g[T \ {Some(T)}] = h[T \ {Some(T)}]
        BY <3>3
      <3> QED BY <3>1, <3>2, <3>4
    <2>5. R \in H
      <3> HIDE DEF H
      <3> QED BY <2>1, <2>3, <2>4, SetClimb
    <2>6. g[R] = h[R]
      BY <2>5
    <2> QED BY <2>2, <2>6 DEF R
  <1> QED BY <1>2, <1>3

\* Nothing adds up to 0.
LEMMA SumEmpty ==
    ASSUME NEW f
    PROVE  Sum({}, f) = 0
  BY SumStep, FS_EmptySet

\* A sum of integers is an integer.
LEMMA SumInt ==
    ASSUME NEW S, IsFiniteSet(S), NEW f, \A t \in S : f[t] \in Int
    PROVE  \A T \in SUBSET S : Sum(T, f) \in Int
  <1> DEFINE H == {T \in SUBSET S : Sum(T, f) \in Int}
  <1>1. {} \in H
    BY SumEmpty
  <1>2. ASSUME NEW T \in SUBSET S, T # {}, \A x \in T : T \ {x} \in H
        PROVE  T \in H
    <2>1. IsFiniteSet(T)
      BY FS_Subset
    <2>2. Sum(T, f) = f[Some(T)] + Sum(T \ {Some(T)}, f)
      BY <2>1, <1>2, SumStep
    <2>3. Some(T) \in T
      BY <1>2, SomeIn
    <2>4. f[Some(T)] \in Int /\ Sum(T \ {Some(T)}, f) \in Int
      BY <1>2, <2>3
    <2> QED BY <2>2, <2>4
  <1>3. \A T \in SUBSET S : T \in H
    <2> HIDE DEF H
    <2> QED BY <1>1, <1>2, SetClimb
  <1> QED BY <1>3

\* The order does not matter.
LEMMA SumAdd ==
    ASSUME NEW S, IsFiniteSet(S), NEW f, \A t \in S : f[t] \in Int
    PROVE  Sum(S, f) \in Int /\ \A x \in S : Sum(S, f) = f[x] + Sum(S \ {x}, f)
  <1> DEFINE H == {T \in SUBSET S : /\ Sum(T, f) \in Int
                                    /\ \A x \in T : Sum(T, f) = f[x] + Sum(T \ {x}, f)}
  <1>1. {} \in H
    BY SumEmpty
  <1>2. ASSUME NEW T \in SUBSET S, T # {}, \A x \in T : T \ {x} \in H
        PROVE  T \in H
    <2>0. IsFiniteSet(T)
      BY FS_Subset
    <2> DEFINE c == Some(T)
    <2>1. Sum(T, f) = f[c] + Sum(T \ {c}, f)
      BY <2>0, <1>2, SumStep
    <2>2. c \in T
      BY <1>2, SomeIn
    <2> HIDE DEF c
    <2>3. \A x \in T : Sum(T \ {x}, f) \in Int /\ f[x] \in Int
      BY <1>2
    <2>4. Sum(T, f) \in Int
      BY <2>1, <2>2, <2>3
    <2>5. ASSUME NEW x \in T, x # c
          PROVE  Sum(T, f) = f[x] + Sum(T \ {x}, f)
      <3> DEFINE R == T \ {x, c}
      <3>1. (T \ {c}) \ {x} = R /\ (T \ {x}) \ {c} = R
        OBVIOUS
      <3>2. x \in T \ {c} /\ c \in T \ {x} /\ T \ {c} \in H /\ T \ {x} \in H
        BY <1>2, <2>2, <2>5
      <3>3. Sum(T \ {c}, f) = f[x] + Sum((T \ {c}) \ {x}, f)
        BY <3>2
      <3>4. Sum(T \ {x}, f) = f[c] + Sum((T \ {x}) \ {c}, f)
        BY <3>2
      <3>5. Sum(T \ {c}, f) = f[x] + Sum(R, f)
        BY <3>1, <3>3
      <3>6. Sum(T \ {x}, f) = f[c] + Sum(R, f)
        BY <3>1, <3>4
      <3>7. Sum(R, f) \in Int
        <4> QED BY SumInt
      <3> HIDE DEF R
      <3> QED BY <2>1, <2>2, <2>3, <3>5, <3>6, <3>7
    <2> QED BY <2>1, <2>4, <2>5
  <1>3. S \in H
    <2> HIDE DEF H
    <2> QED BY <1>1, <1>2, SetClimb
  <1> QED BY <1>3

\* Functions that agree on a set have the same sum over it.
LEMMA SumSame ==
    ASSUME NEW S, IsFiniteSet(S), NEW f, NEW g, \A t \in S : f[t] = g[t]
    PROVE  Sum(S, f) = Sum(S, g)
  <1> DEFINE H == {T \in SUBSET S : Sum(T, f) = Sum(T, g)}
  <1>1. {} \in H
    BY SumEmpty
  <1>2. ASSUME NEW T \in SUBSET S, T # {}, \A x \in T : T \ {x} \in H
        PROVE  T \in H
    <2>1. IsFiniteSet(T)
      BY FS_Subset
    <2>2. /\ Sum(T, f) = f[Some(T)] + Sum(T \ {Some(T)}, f)
          /\ Sum(T, g) = g[Some(T)] + Sum(T \ {Some(T)}, g)
      BY <2>1, <1>2, SumStep
    <2>3. Some(T) \in T
      BY <1>2, SomeIn
    <2>4. f[Some(T)] = g[Some(T)] /\ Sum(T \ {Some(T)}, f) = Sum(T \ {Some(T)}, g)
      BY <1>2, <2>3
    <2> QED BY <2>2, <2>4
  <1>3. S \in H
    <2> HIDE DEF H
    <2> QED BY <1>1, <1>2, SetClimb
  <1> QED BY <1>3

\* What a part adds is what is missing without it.
LEMMA SumWithout ==
    ASSUME NEW S, IsFiniteSet(S), NEW f, \A t \in S : f[t] \in Int,
           NEW R \in SUBSET S
    PROVE  Sum(S \ R, f) = Sum(S, f) - Sum(R, f)
  <1> DEFINE H == {T \in SUBSET R : Sum(S \ T, f) = Sum(S, f) - Sum(T, f)}
  <1>0. \A T \in SUBSET S : Sum(T, f) \in Int
    BY SumInt
  <1>1. {} \in H
    <2>1. S \ {} = S /\ Sum({}, f) = 0 /\ Sum(S, f) \in Int
      BY SumEmpty, <1>0
    <2>2. Sum(S \ {}, f) = Sum(S, f) - Sum({}, f)
      BY <2>1
    <2> QED BY <2>2
  <1>2. ASSUME NEW T \in SUBSET R, T # {}, \A x \in T : T \ {x} \in H
        PROVE  T \in H
    <2>1. PICK x : x \in T
      BY <1>2
    <2> DEFINE Q == T \ {x}
    <2>2. Sum(S \ Q, f) = Sum(S, f) - Sum(Q, f)
      BY <1>2, <2>1
    <2>3. IsFiniteSet(T) /\ IsFiniteSet(S \ Q)
      BY FewerElements
    <2>4. Sum(T, f) = f[x] + Sum(Q, f)
      BY <2>1, <2>3, SumAdd
    <2>5. Sum(S \ Q, f) = f[x] + Sum((S \ Q) \ {x}, f)
      BY <2>1, <2>3, SumAdd
    <2>6. (S \ Q) \ {x} = S \ T
      BY <2>1
    <2>7. /\ Sum(S, f) \in Int /\ Sum(Q, f) \in Int /\ Sum(S \ T, f) \in Int
          /\ f[x] \in Int
      BY <1>0, <2>1
    <2>8. Sum(S \ Q, f) = f[x] + Sum(S \ T, f)
      BY <2>5, <2>6
    <2> HIDE DEF Q
    <2>9. Sum(S \ T, f) = Sum(S, f) - Sum(T, f)
      <3>1. \A a, b, q, e \in Int : e + a = b - q => a = b - (e + q)
        OBVIOUS
      <3>2. f[x] + Sum(S \ T, f) = Sum(S, f) - Sum(Q, f)
        BY <2>2, <2>8
      <3>3. Sum(S \ T, f) = Sum(S, f) - (f[x] + Sum(Q, f))
        BY <2>7, <3>1, <3>2
      <3> QED BY <2>4, <3>3
    <2> QED BY <2>9
  <1>3. R \in H
    <2>1. IsFiniteSet(R)
      BY FS_Subset
    <2> HIDE DEF H
    <2> QED BY <2>1, <1>1, <1>2, SetClimb
  <1> QED BY <1>3

\* One summand changes by d.
LEMMA SumRaise ==
    ASSUME NEW S, IsFiniteSet(S), NEW f, \A t \in S : f[t] \in Int,
           NEW x \in S, NEW d \in Int, NEW g, g[x] = f[x] + d,
           \A t \in S : t # x => g[t] = f[t]
    PROVE  Sum(S, g) = Sum(S, f) + d
  <1>1. \A t \in S : g[t] \in Int
    <2>1. ASSUME NEW t \in S
          PROVE  g[t] \in Int
      <3>1. CASE t = x
        BY <3>1
      <3>2. CASE t # x
        BY <3>2
      <3> QED BY <3>1, <3>2
    <2> QED BY <2>1
  <1>2. Sum(S, f) = f[x] + Sum(S \ {x}, f)
    BY SumAdd
  <1>3. Sum(S, g) = g[x] + Sum(S \ {x}, g)
    BY <1>1, SumAdd
  <1>4. Sum(S \ {x}, f) = Sum(S \ {x}, g)
    <2>1. IsFiniteSet(S \ {x})
      BY FewerElements
    <2> QED BY <2>1, SumSame
  <1>5. Sum(S \ {x}, f) \in Int
    BY SumInt
  <1> QED BY <1>2, <1>3, <1>4, <1>5

\* The sum of two sets without a common element.
LEMMA SumBoth ==
    ASSUME NEW S, IsFiniteSet(S), NEW f, \A t \in S : f[t] \in Int,
           NEW R \in SUBSET S, NEW T \in SUBSET S, R \cap T = {}
    PROVE  Sum(R \cup T, f) = Sum(R, f) + Sum(T, f)
  <1>1. IsFiniteSet(R \cup T) /\ R \subseteq R \cup T
    BY FewerElements
  <1>2. Sum((R \cup T) \ R, f) = Sum(R \cup T, f) - Sum(R, f)
    BY <1>1, SumWithout
  <1>3. (R \cup T) \ R = T
    OBVIOUS
  <1>4. Sum(R, f) \in Int /\ Sum(R \cup T, f) \in Int
    BY SumInt
  <1> QED BY <1>2, <1>3, <1>4

-----------------------------------------------------------------------------
\* What holds of the pool between two operations, and inside of a reorganisation.

\* An entry before its count is known to be positive.
RawEntry == [parents : SUBSET Tx, children : SUBSET Tx, count : Int, fees : Int, mod : Int]

Shape(m) == /\ Pool(m) \subseteq Tx
            /\ \A t \in Pool(m) : m.mapTx[t] \in RawEntry
            /\ m.mapDeltas \in [Tx -> Int]

\* mapNextTx says who spends what.
Spending(m) == /\ \A t \in Pool(m) : \A o \in Vin[t] : o \in DOMAIN m.mapNextTx /\ m.mapNextTx[o] = t
               /\ \A o \in DOMAIN m.mapNextTx : /\ m.mapNextTx[o] \in Pool(m)
                                                /\ o \in Vin[m.mapNextTx[o]]

\* y spends an output of x, and the links of the pool say so.  U are the transactions
\* that came back from a block and whose older children are not linked yet, I all
\* those that came back.
Linked(U, I, x, y) == x \in Parents(y) /\ ~ (x \in U /\ y \notin I)

Links(m, U, I) ==
    \A t \in Pool(m) : /\ m.mapTx[t].children = {u \in Pool(m) : Linked(U, I, t, u)}
                       /\ m.mapTx[t].parents = {u \in Pool(m) : Linked(U, I, u, t)}

Priced(m) == \A t \in Pool(m) : m.mapTx[t].mod = ModifiedFee(m, t)

Kept(m, U, I) == Shape(m) /\ Spending(m) /\ Links(m, U, I) /\ Priced(m)

\* The descendants by the links.
Desc(m, t) == Reach({t}, ChildLinks(m))

\* Those that the totals of t are to count.
Counted(m, U, I, t) == IF t \in U THEN Desc(m, t) \cap I ELSE Desc(m, t)

Totals(m, U, I) ==
    \A t \in Pool(m) :
        IF IsDirty(m.mapTx[t]) THEN m.mapTx[t].fees = m.mapTx[t].mod
        ELSE /\ m.mapTx[t].count = Cardinality(Counted(m, U, I, t))
             /\ m.mapTx[t].fees = Sum(Counted(m, U, I, t), Mods(m))

\* A part of the pool is finite.
LEMMA PoolFinite ==
    ASSUME NEW m, Shape(m), NEW S, S \subseteq Pool(m)
    PROVE  IsFiniteSet(S) /\ Cardinality(S) \in Nat
  BY FewerElements, TxAssumption DEF Shape

\* The links of a transaction, as functions on the pool, stay in the pool.
LEMMA LinksInPool ==
    ASSUME NEW m, NEW U, NEW I, Shape(m), Links(m, U, I)
    PROVE  \A t \in Pool(m) :
              /\ ChildLinks(m)[t] = {u \in Pool(m) : Linked(U, I, t, u)}
              /\ ParentLinks(m)[t] = {u \in Pool(m) : Linked(U, I, u, t)}
              /\ m.mapTx[t].children = ChildLinks(m)[t]
              /\ m.mapTx[t].parents = ParentLinks(m)[t]
              /\ ChildLinks(m)[t] \subseteq Pool(m) /\ ParentLinks(m)[t] \subseteq Pool(m)
  BY DEF Links, ChildLinks, ParentLinks

\* CalculateDescendants is the least set with S that holds the children of its transactions.
LEMMA DescendantsAre ==
    ASSUME NEW m, NEW U, NEW I, Shape(m), Links(m, U, I), NEW S \in SUBSET Pool(m)
    PROVE  IsReach(S, ChildLinks(m), Pool(m), CalculateDescendants(m, S))
  BY LinksInPool, ReachIs DEF CalculateDescendants, Shape

\* The same for the descendants of one transaction.
LEMMA DescIs ==
    ASSUME NEW m, NEW U, NEW I, Shape(m), Links(m, U, I), NEW t \in Pool(m)
    PROVE  IsReach({t}, ChildLinks(m), Pool(m), Desc(m, t))
  BY LinksInPool, ReachIs DEF Desc, Shape

\* What the parent links reach is the least set that holds the parents of its transactions.
LEMMA AncestorsAre ==
    ASSUME NEW m, NEW U, NEW I, Shape(m), Links(m, U, I), NEW S \in SUBSET Pool(m)
    PROVE  IsReach(S, ParentLinks(m), Pool(m), Reach(S, ParentLinks(m)))
  BY LinksInPool, ReachIs DEF Shape

\* UpdateState (CTxMemPoolEntry) changes nothing but the totals.
LEMMA UpdateStateKeeps ==
    ASSUME NEW e \in RawEntry, NEW a \in Int, NEW b \in Int
    PROVE  /\ UpdateState(e, a, b) \in RawEntry
           /\ UpdateState(e, a, b).parents = e.parents
           /\ UpdateState(e, a, b).children = e.children
           /\ UpdateState(e, a, b).mod = e.mod
  <1>1. CASE IsDirty(e)
    BY <1>1 DEF UpdateState
  <1>2. CASE ~ IsDirty(e)
    <2> DEFINE c == [e EXCEPT !.count = @ + b]
               g == [c EXCEPT !.fees = @ + a]
    <2>1. UpdateState(e, a, b) = g
      BY <1>2 DEF UpdateState
    <2>2. /\ c \in RawEntry /\ c.parents = e.parents /\ c.children = e.children
          /\ c.mod = e.mod /\ c.count = e.count + b /\ c.fees = e.fees
      BY DEF RawEntry
    <2> HIDE DEF c
    <2>3. /\ g \in RawEntry /\ g.parents = c.parents /\ g.children = c.children
          /\ g.mod = c.mod
      BY <2>2 DEF RawEntry
    <2> QED BY <2>1, <2>2, <2>3
  <1> QED BY <1>1, <1>2

\* The modified fees are integers.
LEMMA ModsInt ==
    ASSUME NEW m, Shape(m)
    PROVE  \A t \in Pool(m) : Mods(m)[t] = m.mapTx[t].mod /\ Mods(m)[t] \in Int
  BY DEF Mods, Shape, RawEntry

-----------------------------------------------------------------------------
\* RemoveStaged.

\* The pool, mapNextTx and the entries after RemoveStaged.
LEMMA RemovedFields ==
    ASSUME NEW m, NEW S \in SUBSET Pool(m)
    PROVE  /\ Pool(RemoveStaged(m, S)) = Pool(m) \ S
           /\ RemoveStaged(m, S).mapDeltas = m.mapDeltas
           /\ DOMAIN RemoveStaged(m, S).mapNextTx = DOMAIN m.mapNextTx \ UNION {Vin[s] : s \in S}
           /\ \A o \in DOMAIN RemoveStaged(m, S).mapNextTx :
                 RemoveStaged(m, S).mapNextTx[o] = m.mapNextTx[o]
           /\ \A t \in Pool(m) \ S :
                 RemoveStaged(m, S).mapTx[t] =
                    UpdateState(Sever(m, S, t), - Sum(Lost(m, S, t), Mods(m)),
                                - Cardinality(Lost(m, S, t)))
  BY DEF RemoveStaged, Pool

Minus(A, S) == A \ S

\* An entry whose links to S are severed, with all else as it was.
LEMMA Severed ==
    ASSUME NEW m, NEW U, NEW I, Shape(m), Links(m, U, I), NEW S \in SUBSET Pool(m),
           NEW t \in Pool(m)
    PROVE  /\ Sever(m, S, t) \in RawEntry
           /\ Sever(m, S, t).children = Minus(m.mapTx[t].children, S)
           /\ Sever(m, S, t).parents = Minus(m.mapTx[t].parents, S)
           /\ Sever(m, S, t).mod = m.mapTx[t].mod
           /\ Sever(m, S, t).count = m.mapTx[t].count
           /\ Sever(m, S, t).fees = m.mapTx[t].fees
  <1>1. m.mapTx[t] \in RawEntry
    BY DEF Shape
  <1>2. \A s \in S : /\ t \in m.mapTx[s].parents <=> s \in m.mapTx[t].children
                     /\ t \in m.mapTx[s].children <=> s \in m.mapTx[t].parents
    BY DEF Links
  <1>3. /\ m.mapTx[t].children \ {s \in S : t \in m.mapTx[s].parents} = m.mapTx[t].children \ S
        /\ m.mapTx[t].parents \ {s \in S : t \in m.mapTx[s].children} = m.mapTx[t].parents \ S
    BY <1>2
  <1> DEFINE e == m.mapTx[t]
             c == [e EXCEPT !.children = @ \ {s \in S : t \in m.mapTx[s].parents}]
             g == [c EXCEPT !.parents = @ \ {s \in S : t \in m.mapTx[s].children}]
  <1>4. Sever(m, S, t) = g
    BY DEF Sever
  <1>5. /\ c \in RawEntry /\ c.children = e.children \ S /\ c.parents = e.parents
        /\ c.mod = e.mod /\ c.count = e.count /\ c.fees = e.fees
    BY <1>1, <1>3 DEF RawEntry
  <1> HIDE DEF c
  <1>6. /\ g \in RawEntry /\ g.children = c.children
        /\ g.parents = c.parents \ {s \in S : t \in m.mapTx[s].children}
        /\ g.mod = c.mod /\ g.count = c.count /\ g.fees = c.fees
    BY <1>5 DEF RawEntry
  <1> HIDE DEF g
  <1> QED BY <1>3, <1>4, <1>5, <1>6 DEF Minus

\* What an entry loses to RemoveStaged is an integer.
LEMMA LostInt ==
    ASSUME NEW m, Shape(m), NEW S \in SUBSET Pool(m), NEW t
    PROVE  - Sum(Lost(m, S, t), Mods(m)) \in Int /\ - Cardinality(Lost(m, S, t)) \in Int
  <1>1. Lost(m, S, t) \subseteq Pool(m)
    BY DEF Lost
  <1>2. IsFiniteSet(Lost(m, S, t)) /\ Cardinality(Lost(m, S, t)) \in Nat
    BY <1>1, PoolFinite
  <1>3. Sum(Lost(m, S, t), Mods(m)) \in Int
    BY <1>1, <1>2, ModsInt, SumInt
  <1> QED BY <1>2, <1>3

\* An entry that stays after RemoveStaged keeps its links to what stays and its own fee.
LEMMA RemovedEntry ==
    ASSUME NEW m, NEW U, NEW I, Shape(m), Links(m, U, I), NEW S \in SUBSET Pool(m),
           NEW t \in Pool(m) \ S
    PROVE  /\ RemoveStaged(m, S).mapTx[t] \in RawEntry
           /\ RemoveStaged(m, S).mapTx[t].children = m.mapTx[t].children \ S
           /\ RemoveStaged(m, S).mapTx[t].parents = m.mapTx[t].parents \ S
           /\ RemoveStaged(m, S).mapTx[t].mod = m.mapTx[t].mod
  <1>0. t \in Pool(m)
    OBVIOUS
  <1>1. /\ Sever(m, S, t) \in RawEntry
        /\ Sever(m, S, t).children = m.mapTx[t].children \ S
        /\ Sever(m, S, t).parents = m.mapTx[t].parents \ S
        /\ Sever(m, S, t).mod = m.mapTx[t].mod
    <2>1. Sever(m, S, t) \in RawEntry
      BY <1>0, Severed
    <2>2. /\ Sever(m, S, t).children = Minus(m.mapTx[t].children, S)
          /\ Sever(m, S, t).parents = Minus(m.mapTx[t].parents, S)
          /\ Sever(m, S, t).mod = m.mapTx[t].mod
      BY <1>0, Severed
    <2> QED BY <2>1, <2>2 DEF Minus
  <1> DEFINE a == - Sum(Lost(m, S, t), Mods(m))
             b == - Cardinality(Lost(m, S, t))
  <1>2. RemoveStaged(m, S).mapTx[t] = UpdateState(Sever(m, S, t), a, b)
    BY RemovedFields
  <1>3. a \in Int /\ b \in Int
    BY LostInt
  <1> HIDE DEF a, b
  <1>4. /\ UpdateState(Sever(m, S, t), a, b) \in RawEntry
        /\ UpdateState(Sever(m, S, t), a, b).parents = Sever(m, S, t).parents
        /\ UpdateState(Sever(m, S, t), a, b).children = Sever(m, S, t).children
        /\ UpdateState(Sever(m, S, t), a, b).mod = Sever(m, S, t).mod
    BY <1>1, <1>3, UpdateStateKeeps
  <1> QED BY <1>1, <1>2, <1>4

\* RemoveStaged of any part of the pool leaves the links, mapNextTx and the fees right.
LEMMA RemoveKeeps ==
    ASSUME NEW m, NEW U, NEW I, Kept(m, U, I), NEW S \in SUBSET Pool(m)
    PROVE  Kept(RemoveStaged(m, S), U, I)
  <1> DEFINE n == RemoveStaged(m, S)
  <1>0. Shape(m) /\ Spending(m) /\ Links(m, U, I) /\ Priced(m)
    BY DEF Kept
  <1>1. /\ Pool(n) = Pool(m) \ S /\ n.mapDeltas = m.mapDeltas
        /\ DOMAIN n.mapNextTx = DOMAIN m.mapNextTx \ UNION {Vin[s] : s \in S}
        /\ \A o \in DOMAIN n.mapNextTx : n.mapNextTx[o] = m.mapNextTx[o]
    BY RemovedFields
  <1>2. \A t \in Pool(m) \ S : /\ n.mapTx[t] \in RawEntry
                               /\ n.mapTx[t].children = m.mapTx[t].children \ S
                               /\ n.mapTx[t].parents = m.mapTx[t].parents \ S
                               /\ n.mapTx[t].mod = m.mapTx[t].mod
    BY <1>0, RemovedEntry
  <1> HIDE DEF n
  <1>3. Shape(n)
    BY <1>0, <1>1, <1>2 DEF Shape
  <1>4. Spending(n)
    <2>1. ASSUME NEW t \in Pool(n), NEW o \in Vin[t]
          PROVE  o \in DOMAIN n.mapNextTx /\ n.mapNextTx[o] = t
      <3>1. t \in Pool(m) /\ t \notin S /\ o \in DOMAIN m.mapNextTx /\ m.mapNextTx[o] = t
        BY <1>0, <1>1 DEF Spending
      <3>2. ASSUME NEW s \in S, o \in Vin[s]
            PROVE  FALSE
        BY <3>1, <3>2, <1>0 DEF Spending
      <3> QED BY <3>1, <3>2, <1>1
    <2>2. ASSUME NEW o \in DOMAIN n.mapNextTx
          PROVE  n.mapNextTx[o] \in Pool(n) /\ o \in Vin[n.mapNextTx[o]]
      <3>1. o \in DOMAIN m.mapNextTx /\ n.mapNextTx[o] = m.mapNextTx[o]
        BY <1>1
      <3>2. \A s \in S : o \notin Vin[s]
        BY <1>1
      <3>3. m.mapNextTx[o] \in Pool(m) /\ o \in Vin[m.mapNextTx[o]]
        BY <3>1, <1>0 DEF Spending
      <3> QED BY <3>1, <3>2, <3>3, <1>1
    <2> QED BY <2>1, <2>2 DEF Spending
  <1>5. Links(n, U, I)
    BY <1>0, <1>1, <1>2 DEF Links
  <1>6. Priced(n)
    BY <1>0, <1>1, <1>2 DEF Priced, ModifiedFee
  <1> QED BY <1>3, <1>4, <1>5, <1>6 DEF Kept, n

-----------------------------------------------------------------------------
\* Descendants and ancestors.

\* The totals of every entry that is not dirty are those of its descendants by the links.
Exact(m) ==
    \A t \in Pool(m) :
        IF IsDirty(m.mapTx[t]) THEN m.mapTx[t].fees = m.mapTx[t].mod
        ELSE /\ m.mapTx[t].count = Cardinality(Desc(m, t))
             /\ m.mapTx[t].fees = Sum(Desc(m, t), Mods(m))

\* The descendants hold the transaction itself and their children, and nothing that a set
\* closed under children leaves out.
LEMMA DescFacts ==
    ASSUME NEW m, NEW U, NEW I, Shape(m), Links(m, U, I), NEW t \in Pool(m)
    PROVE  /\ t \in Desc(m, t) /\ Desc(m, t) \subseteq Pool(m)
           /\ \A x \in Desc(m, t) : ChildLinks(m)[x] \subseteq Desc(m, t)
           /\ \A Q : t \in Q /\ (\A x \in Q \cap Pool(m) : ChildLinks(m)[x] \subseteq Q)
                    => Desc(m, t) \subseteq Q
  <1>1. IsReach({t}, ChildLinks(m), Pool(m), Desc(m, t))
    BY DescIs
  <1>2. ASSUME NEW Q, t \in Q, \A x \in Q \cap Pool(m) : ChildLinks(m)[x] \subseteq Q
        PROVE  Desc(m, t) \subseteq Q
    <2>1. \A x \in Q \cap Pool(m) : ChildLinks(m)[x] \subseteq Q \cap Pool(m)
      BY <1>2, LinksInPool
    <2>2. {t} \subseteq Q \cap Pool(m) /\ Q \cap Pool(m) \in SUBSET Pool(m)
      BY <1>2
    <2>3. Desc(m, t) \subseteq Q \cap Pool(m)
      BY <1>1, <2>1, <2>2 DEF IsReach
    <2> QED BY <2>3
  <1> QED BY <1>1, <1>2 DEF IsReach

\* The ancestors hold the parents and the parents of each, and nothing else.
LEMMA AncFacts ==
    ASSUME NEW m, NEW U, NEW I, Shape(m), Links(m, U, I), NEW t \in Pool(m)
    PROVE  /\ ParentLinks(m)[t] \subseteq LinkedAncestors(m, t)
           /\ LinkedAncestors(m, t) \subseteq Pool(m)
           /\ \A x \in LinkedAncestors(m, t) : ParentLinks(m)[x] \subseteq LinkedAncestors(m, t)
           /\ \A Q : ParentLinks(m)[t] \subseteq Q
                     /\ (\A x \in Q \cap Pool(m) : ParentLinks(m)[x] \subseteq Q)
                    => LinkedAncestors(m, t) \subseteq Q
  <1> DEFINE S == ParentLinks(m)[t]
             A == LinkedAncestors(m, t)
  <1>0. S \in SUBSET Pool(m) /\ m.mapTx[t].parents = S
    BY LinksInPool
  <1>1. A = Reach(S, ParentLinks(m))
    BY <1>0 DEF LinkedAncestors
  <1> HIDE DEF A, S
  <1>2. IsReach(S, ParentLinks(m), Pool(m), A)
    BY <1>0, <1>1, AncestorsAre
  <1>3. ASSUME NEW Q, S \subseteq Q, \A x \in Q \cap Pool(m) : ParentLinks(m)[x] \subseteq Q
        PROVE  A \subseteq Q
    <2>1. \A x \in Q \cap Pool(m) : ParentLinks(m)[x] \subseteq Q \cap Pool(m)
      BY <1>3, LinksInPool
    <2>2. S \subseteq Q \cap Pool(m) /\ Q \cap Pool(m) \in SUBSET Pool(m)
      BY <1>3, <1>0
    <2>3. A \subseteq Q \cap Pool(m)
      BY <1>2, <2>1, <2>2 DEF IsReach
    <2> QED BY <2>3
  <1>4. S \subseteq A /\ A \subseteq Pool(m) /\ \A x \in A : ParentLinks(m)[x] \subseteq A
    BY <1>2 DEF IsReach
  <1> QED BY <1>3, <1>4 DEF A, S

\* The child links are the parent links reversed.
LEMMA LinksDual ==
    ASSUME NEW m, NEW U, NEW I, Shape(m), Links(m, U, I), NEW x \in Pool(m), NEW y \in Pool(m)
    PROVE  y \in ChildLinks(m)[x] <=> x \in ParentLinks(m)[y]
  BY LinksInPool

\* The descendants of a descendant are descendants.
LEMMA DescTransitive ==
    ASSUME NEW m, NEW U, NEW I, Shape(m), Links(m, U, I), NEW t \in Pool(m), NEW x \in Desc(m, t)
    PROVE  Desc(m, x) \subseteq Desc(m, t)
  <1>1. x \in Pool(m)
    BY DescFacts
  <1>2. \A y \in Desc(m, t) : ChildLinks(m)[y] \subseteq Desc(m, t)
    BY DescFacts
  <1>3. \A Q : x \in Q /\ (\A y \in Q \cap Pool(m) : ChildLinks(m)[y] \subseteq Q)
               => Desc(m, x) \subseteq Q
    BY <1>1, DescFacts
  <1> QED BY <1>2, <1>3

\* The ancestors of an ancestor are ancestors.
LEMMA AncTransitive ==
    ASSUME NEW m, NEW U, NEW I, Shape(m), Links(m, U, I), NEW t \in Pool(m),
           NEW x \in LinkedAncestors(m, t)
    PROVE  LinkedAncestors(m, x) \subseteq LinkedAncestors(m, t)
  <1>1. x \in Pool(m)
    BY AncFacts
  <1>2. \A y \in LinkedAncestors(m, t) : ParentLinks(m)[y] \subseteq LinkedAncestors(m, t)
    BY AncFacts
  <1>3. \A Q : ParentLinks(m)[x] \subseteq Q
               /\ (\A y \in Q \cap Pool(m) : ParentLinks(m)[y] \subseteq Q)
               => LinkedAncestors(m, x) \subseteq Q
    BY <1>1, AncFacts
  <1> QED BY <1>2, <1>3

\* s descends from t when t is an ancestor of s.
LEMMA Duality ==
    ASSUME NEW m, NEW U, NEW I, Shape(m), Links(m, U, I), NEW t \in Pool(m), NEW s \in Pool(m)
    PROVE  s \in Desc(m, t) <=> s = t \/ t \in LinkedAncestors(m, s)
  <1>1. ASSUME t \in LinkedAncestors(m, s)
        PROVE  s \in Desc(m, t)
    <2> DEFINE Q == {x \in Pool(m) : s \in Desc(m, x)}
    <2>1. ParentLinks(m)[s] \subseteq Q
      <3>1. ASSUME NEW x \in ParentLinks(m)[s]
            PROVE  x \in Q
        <4>1. x \in Pool(m) /\ s \in ChildLinks(m)[x]
          BY LinksInPool, LinksDual
        <4>2. x \in Desc(m, x) /\ ChildLinks(m)[x] \subseteq Desc(m, x)
          BY <4>1, DescFacts
        <4> QED BY <4>1, <4>2
      <3> QED BY <3>1
    <2>2. ASSUME NEW x \in Q \cap Pool(m)
          PROVE  ParentLinks(m)[x] \subseteq Q
      <3>1. ASSUME NEW y \in ParentLinks(m)[x]
            PROVE  y \in Q
        <4>1. y \in Pool(m) /\ x \in ChildLinks(m)[y]
          BY LinksInPool, LinksDual
        <4>2. y \in Desc(m, y) /\ ChildLinks(m)[y] \subseteq Desc(m, y)
          BY <4>1, DescFacts
        <4>3. x \in Desc(m, y)
          BY <4>1, <4>2
        <4>4. Desc(m, x) \subseteq Desc(m, y)
          BY <4>1, <4>3, DescTransitive
        <4> QED BY <4>1, <4>4
      <3> QED BY <3>1
    <2>3. LinkedAncestors(m, s) \subseteq Q
      <3> HIDE DEF Q
      <3> QED BY <2>1, <2>2, AncFacts
    <2> QED BY <1>1, <2>3
  <1>2. ASSUME s \in Desc(m, t), s # t
        PROVE  t \in LinkedAncestors(m, s)
    <2> DEFINE Q == {t} \cup {y \in Pool(m) : t \in LinkedAncestors(m, y)}
    <2>1. ASSUME NEW x \in Q \cap Pool(m)
          PROVE  ChildLinks(m)[x] \subseteq Q
      <3>1. ASSUME NEW y \in ChildLinks(m)[x]
            PROVE  y \in Q
        <4>1. y \in Pool(m) /\ x \in ParentLinks(m)[y]
          BY LinksInPool, LinksDual
        <4>2. x \in LinkedAncestors(m, y)
          BY <4>1, AncFacts
        <4>3. LinkedAncestors(m, x) \subseteq LinkedAncestors(m, y)
          BY <4>1, <4>2, AncTransitive
        <4>4. x = t \/ t \in LinkedAncestors(m, x)
          BY <2>1
        <4> QED BY <4>1, <4>2, <4>3, <4>4
      <3> QED BY <3>1
    <2>2. t \in Q
      OBVIOUS
    <2>3. Desc(m, t) \subseteq Q
      <3> HIDE DEF Q
      <3> QED BY <2>1, <2>2, DescFacts
    <2> QED BY <1>2, <2>3
  <1>3. t \in Desc(m, t)
    BY DescFacts
  <1> QED BY <1>1, <1>2, <1>3

\* S leaves the pool without cutting a path between two that stay.
Whole(m, S) == \/ \A x \in S : ChildLinks(m)[x] \subseteq S
               \/ \A x \in S : ParentLinks(m)[x] \subseteq S

\* The child links of what stays lose S.
LEMMA RemovedLinks ==
    ASSUME NEW m, NEW U, NEW I, Kept(m, U, I), NEW S \in SUBSET Pool(m)
    PROVE  \A t \in Pool(m) \ S :
              ChildLinks(RemoveStaged(m, S))[t] = Minus(ChildLinks(m)[t], S)
  <1> DEFINE n == RemoveStaged(m, S)
  <1>1. Pool(n) = Pool(m) \ S
    BY RemovedFields
  <1>2. Shape(m) /\ Links(m, U, I) /\ Shape(n) /\ Links(n, U, I)
    BY RemoveKeeps DEF Kept
  <1> HIDE DEF n
  <1>3. \A t \in Pool(n) : ChildLinks(n)[t] = {u \in Pool(n) : Linked(U, I, t, u)}
    BY <1>2, LinksInPool
  <1>4. \A t \in Pool(m) : ChildLinks(m)[t] = {u \in Pool(m) : Linked(U, I, t, u)}
    BY <1>2, LinksInPool
  <1>5. \A t \in Pool(m) \ S : ChildLinks(n)[t] = Minus(ChildLinks(m)[t], S)
    BY <1>1, <1>3, <1>4 DEF Minus
  <1> QED BY <1>5 DEF n

\* The descendants of what stays lose S, no path being cut.
LEMMA DescRemoved ==
    ASSUME NEW m, NEW U, NEW I, Kept(m, U, I), NEW S \in SUBSET Pool(m), Whole(m, S),
           NEW t \in Pool(m) \ S
    PROVE  Desc(RemoveStaged(m, S), t) = Minus(Desc(m, t), S)
  <1> DEFINE n == RemoveStaged(m, S)
  <1>1. Pool(n) = Pool(m) \ S
    BY RemovedFields
  <1>2. Shape(m) /\ Links(m, U, I) /\ Shape(n) /\ Links(n, U, I)
    BY RemoveKeeps DEF Kept
  <1>3. \A x \in Pool(n) : ChildLinks(n)[x] = ChildLinks(m)[x] \ S
    BY <1>1, RemovedLinks DEF Minus
  <1> HIDE DEF n
  <1>4. /\ t \in Desc(n, t) /\ Desc(n, t) \subseteq Pool(n)
        /\ \A x \in Desc(n, t) : ChildLinks(n)[x] \subseteq Desc(n, t)
        /\ \A Q : t \in Q /\ (\A x \in Q \cap Pool(n) : ChildLinks(n)[x] \subseteq Q)
                 => Desc(n, t) \subseteq Q
    BY <1>1, <1>2, DescFacts
  <1>5. /\ t \in Desc(m, t) /\ Desc(m, t) \subseteq Pool(m)
        /\ \A x \in Desc(m, t) : ChildLinks(m)[x] \subseteq Desc(m, t)
        /\ \A Q : t \in Q /\ (\A x \in Q \cap Pool(m) : ChildLinks(m)[x] \subseteq Q)
                 => Desc(m, t) \subseteq Q
    BY <1>2, DescFacts
  <1>6. Desc(n, t) \subseteq Desc(m, t) \ S
    <2>1. \A x \in (Desc(m, t) \ S) \cap Pool(n) : ChildLinks(n)[x] \subseteq Desc(m, t) \ S
      BY <1>3, <1>5
    <2>2. t \in Desc(m, t) \ S
      BY <1>5
    <2> QED BY <1>4, <2>1, <2>2
  <1>7. CASE \A x \in S : ChildLinks(m)[x] \subseteq S
    <2>1. \A x \in (Desc(n, t) \cup S) \cap Pool(m) :
             ChildLinks(m)[x] \subseteq Desc(n, t) \cup S
      BY <1>1, <1>3, <1>4, <1>7
    <2>2. t \in Desc(n, t) \cup S
      BY <1>4
    <2>3. Desc(m, t) \subseteq Desc(n, t) \cup S
      BY <1>5, <2>1, <2>2
    <2> QED BY <1>6, <2>3 DEF Minus, n
  <1>8. CASE \A x \in S : ParentLinks(m)[x] \subseteq S
    <2>1. \A x \in Pool(m) \ S : ChildLinks(m)[x] \cap S = {}
      BY <1>2, <1>8, LinksInPool, LinksDual
    <2>2. \A x \in Desc(n, t) \cap Pool(m) : ChildLinks(m)[x] \subseteq Desc(n, t)
      BY <1>1, <1>3, <1>4, <2>1
    <2>3. Desc(m, t) \subseteq Desc(n, t)
      BY <1>4, <1>5, <2>2
    <2> QED BY <1>6, <2>3 DEF Minus, n
  <1> QED BY <1>7, <1>8 DEF Whole

\* What an entry loses is what it counted.
LEMMA LostAre ==
    ASSUME NEW m, NEW U, NEW I, Kept(m, U, I), NEW S \in SUBSET Pool(m), NEW t \in Pool(m) \ S
    PROVE  Lost(m, S, t) = Desc(m, t) \cap S
  <1>1. \A s \in S : s \in Desc(m, t) <=> t \in LinkedAncestors(m, s)
    BY Duality DEF Kept
  <1> QED BY <1>1 DEF Lost

\* Totals with a part of what they count taken off.
LEMMA LessCounted ==
    ASSUME NEW m, Shape(m), NEW D \in SUBSET Pool(m), NEW S \in SUBSET Pool(m)
    PROVE  /\ Cardinality(Minus(D, S)) = Cardinality(D) - Cardinality(D \cap S)
           /\ Sum(Minus(D, S), Mods(m)) = Sum(D, Mods(m)) - Sum(D \cap S, Mods(m))
           /\ Cardinality(D) \in Nat /\ Cardinality(D \cap S) \in Nat
           /\ Sum(D, Mods(m)) \in Int /\ Sum(D \cap S, Mods(m)) \in Int
  <1>1. IsFiniteSet(D) /\ Cardinality(D) \in Nat /\ D \cap S \in SUBSET D
    BY PoolFinite
  <1>2. IsFiniteSet(D \cap S) /\ Cardinality(D \cap S) \in Nat
    BY <1>1, FewerElements
  <1>3. D \ (D \cap S) = Minus(D, S)
    BY DEF Minus
  <1>4. Cardinality(Minus(D, S)) = Cardinality(D) - Cardinality(D \cap S)
    <2>1. Cardinality(D \ S) = Cardinality(D) - Cardinality(D \cap S)
      BY <1>1, FS_Difference
    <2> QED BY <2>1 DEF Minus
  <1>5. \A t \in D : Mods(m)[t] \in Int
    BY ModsInt
  <1>6. Sum(D \ (D \cap S), Mods(m)) = Sum(D, Mods(m)) - Sum(D \cap S, Mods(m))
    BY <1>1, <1>5, SumWithout
  <1>7. Sum(D, Mods(m)) \in Int /\ Sum(D \cap S, Mods(m)) \in Int
    BY <1>1, <1>5, SumInt
  <1> QED BY <1>1, <1>2, <1>3, <1>4, <1>6, <1>7

\* UpdateState adds to the totals, unless the entry is dirty.
LEMMA UpdatedTotals ==
    ASSUME NEW e \in RawEntry, NEW a \in Int, NEW b \in Int
    PROVE  /\ IsDirty(e) => UpdateState(e, a, b) = e
           /\ ~ IsDirty(e) => /\ UpdateState(e, a, b).count = e.count + b
                              /\ UpdateState(e, a, b).fees = e.fees + a
  <1>1. CASE ~ IsDirty(e)
    <2> DEFINE c == [e EXCEPT !.count = @ + b]
               g == [c EXCEPT !.fees = @ + a]
    <2>1. UpdateState(e, a, b) = g
      BY <1>1 DEF UpdateState
    <2>2. c \in RawEntry /\ c.count = e.count + b /\ c.fees = e.fees
      BY DEF RawEntry
    <2> HIDE DEF c
    <2>3. g.count = c.count /\ g.fees = c.fees + a
      BY <2>2 DEF RawEntry
    <2> QED BY <1>1, <2>1, <2>2, <2>3
  <1>2. CASE IsDirty(e)
    BY <1>2 DEF UpdateState
  <1> QED BY <1>1, <1>2

\* When no path is cut (all descendants leave, or all ancestors: a confirmed transaction has
\* no parent in the pool), the totals of those that stay are exact after RemoveStaged.
LEMMA RemoveExact ==
    ASSUME NEW m, NEW U, NEW I, Kept(m, U, I), Exact(m), NEW S \in SUBSET Pool(m), Whole(m, S)
    PROVE  Exact(RemoveStaged(m, S))
  <1> DEFINE n == RemoveStaged(m, S)
  <1>1. Pool(n) = Pool(m) \ S
    BY RemovedFields
  <1>2. Shape(m) /\ Links(m, U, I) /\ Shape(n) /\ Links(n, U, I)
    BY RemoveKeeps DEF Kept
  <1>3. ASSUME NEW t \in Pool(n)
        PROVE  IF IsDirty(n.mapTx[t]) THEN n.mapTx[t].fees = n.mapTx[t].mod
               ELSE /\ n.mapTx[t].count = Cardinality(Desc(n, t))
                    /\ n.mapTx[t].fees = Sum(Desc(n, t), Mods(n))
    <2> DEFINE D == Desc(m, t)
               e == Sever(m, S, t)
               a == - Sum(D \cap S, Mods(m))
               b == - Cardinality(D \cap S)
    <2>0. t \in Pool(m) \ S /\ t \in Pool(m)
      BY <1>1
    <2>1. D \in SUBSET Pool(m) /\ t \in D
      BY <1>2, <2>0, DescFacts
    <2>2. Desc(n, t) = Minus(D, S)
      BY <2>0, DescRemoved
    <2>3. Sum(Desc(n, t), Mods(n)) = Sum(Minus(D, S), Mods(m))
      <3>1. Desc(n, t) \subseteq Pool(n) /\ IsFiniteSet(Desc(n, t))
        BY <1>2, <1>3, DescFacts, PoolFinite
      <3>2. \A x \in Desc(n, t) : Mods(n)[x] = Mods(m)[x]
        <4>1. \A x \in Pool(n) : n.mapTx[x].mod = m.mapTx[x].mod
          BY <1>1, <1>2, RemovedEntry
        <4>2. \A x \in Pool(n) : Mods(n)[x] = n.mapTx[x].mod /\ Mods(m)[x] = m.mapTx[x].mod
          BY <1>1 DEF Mods
        <4> QED BY <3>1, <4>1, <4>2
      <3> HIDE DEF n, D
      <3> QED BY <2>2, <3>1, <3>2, SumSame
    <2>4. Lost(m, S, t) = D \cap S
      BY <2>0, LostAre
    <2>5. n.mapTx[t] = UpdateState(e, a, b)
      <3>1. n.mapTx[t] = UpdateState(Sever(m, S, t), - Sum(Lost(m, S, t), Mods(m)),
                                     - Cardinality(Lost(m, S, t)))
        BY <2>0, RemovedFields
      <3> HIDE DEF n, D
      <3> QED BY <2>4, <3>1, Zenon
    <2>6. e \in RawEntry /\ e.mod = m.mapTx[t].mod /\ e.count = m.mapTx[t].count
          /\ e.fees = m.mapTx[t].fees
      BY <1>2, <2>0, Severed
    <2>7. /\ Cardinality(Minus(D, S)) = Cardinality(D) - Cardinality(D \cap S)
          /\ Sum(Minus(D, S), Mods(m)) = Sum(D, Mods(m)) - Sum(D \cap S, Mods(m))
          /\ Cardinality(D) \in Nat /\ Cardinality(D \cap S) \in Nat
          /\ Sum(D, Mods(m)) \in Int /\ Sum(D \cap S, Mods(m)) \in Int
      BY <1>2, <2>1, LessCounted
    <2>8. a \in Int /\ b \in Int
      BY <2>7
    <2>9. IF IsDirty(m.mapTx[t]) THEN m.mapTx[t].fees = m.mapTx[t].mod
          ELSE /\ m.mapTx[t].count = Cardinality(D)
               /\ m.mapTx[t].fees = Sum(D, Mods(m))
      BY <2>0 DEF Exact
    <2>10. Cardinality(Minus(D, S)) # 0
      <3>1. t \in Minus(D, S) /\ Minus(D, S) \subseteq Pool(m)
        BY <2>0, <2>1 DEF Minus
      <3>2. IsFiniteSet(Minus(D, S))
        BY <1>2, <3>1, PoolFinite
      <3> QED BY <3>1, <3>2, FS_EmptySet
    <2>11. CASE IsDirty(m.mapTx[t])
      <3>1. IsDirty(e)
        BY <2>6, <2>11 DEF IsDirty
      <3> HIDE DEF e, a, b, n
      <3>2. n.mapTx[t] = e
        BY <2>5, <2>6, <2>8, <3>1, UpdatedTotals
      <3> QED BY <2>6, <2>9, <2>11, <3>1, <3>2
    <2>12. CASE ~ IsDirty(m.mapTx[t])
      <3>1. ~ IsDirty(e)
        BY <2>6, <2>12 DEF IsDirty
      <3>2. m.mapTx[t].count = Cardinality(D) /\ m.mapTx[t].fees = Sum(D, Mods(m))
        BY <2>9, <2>12
      <3>3. e.count + b = Cardinality(Minus(D, S)) /\ e.fees + a = Sum(Minus(D, S), Mods(m))
        BY <2>6, <2>7, <3>2
      <3> HIDE DEF e, a, b, n
      <3>4. n.mapTx[t].count = e.count + b /\ n.mapTx[t].fees = e.fees + a
        BY <2>5, <2>6, <2>8, <3>1, UpdatedTotals
      <3>5. n.mapTx[t].count = Cardinality(Desc(n, t)) /\ n.mapTx[t].fees = Sum(Desc(n, t), Mods(n))
        BY <3>3, <3>4, <2>2, <2>3
      <3>6. ~ IsDirty(n.mapTx[t])
        BY <3>3, <3>4, <2>10 DEF IsDirty
      <3> QED BY <3>5, <3>6
    <2> QED BY <2>11, <2>12
  <1> HIDE DEF n
  <1>4. Exact(n)
    BY <1>3 DEF Exact
  <1> QED BY <1>4 DEF n

-----------------------------------------------------------------------------
\* What transactions spend.

\* An input is a coin of Base or an output of another transaction.
LEMMA InputsFrom ==
    ASSUME NEW t \in Tx, NEW o \in Vin[t]
    PROVE  \/ o \in Base /\ o[1] \notin Tx
           \/ o[1] \in Tx /\ o[1] # t /\ o \in Outputs(o[1])
  <1>1. o \in Base \/ \E u \in Tx \ {t} : o \in Outputs(u)
    BY TxAssumption
  <1>2. ASSUME NEW u \in Tx \ {t}, o \in Outputs(u)
        PROVE  o[1] = u
    BY <1>2 DEF Outputs
  <1> QED BY <1>1, <1>2, HashAssumption

\* No transaction spends an output of its own.
LEMMA NotOwnParent ==
    ASSUME NEW t \in Tx
    PROVE  t \notin Parents(t)
  BY InputsFrom DEF Parents

\* The spenders of t in the pool are the transactions with t as a parent.
LEMMA SpendersAre ==
    ASSUME NEW m, Shape(m), Spending(m), NEW t \in Tx
    PROVE  Spenders(m, t) = {u \in Pool(m) : t \in Parents(u)}
  <1>1. ASSUME NEW u \in Pool(m), t \in Parents(u)
        PROVE  u \in Spenders(m, t)
    <2>1. PICK o \in Vin[u] : o[1] = t
      BY <1>1 DEF Parents
    <2>2. u \in Tx
      BY DEF Shape
    <2>3. o \in Outputs(t)
      BY <2>1, <2>2, InputsFrom
    <2>4. o \in DOMAIN m.mapNextTx /\ m.mapNextTx[o] = u
      BY <2>1 DEF Spending
    <2> QED BY <2>3, <2>4 DEF Spenders
  <1>2. ASSUME NEW u \in Spenders(m, t)
        PROVE  u \in Pool(m) /\ t \in Parents(u)
    <2>1. PICK o \in Outputs(t) : o \in DOMAIN m.mapNextTx /\ u = m.mapNextTx[o]
      BY DEF Spenders
    <2>2. u \in Pool(m) /\ o \in Vin[u]
      BY <2>1 DEF Spending
    <2>3. o[1] = t
      BY <2>1 DEF Outputs
    <2> QED BY <2>2, <2>3 DEF Parents
  <1> QED BY <1>1, <1>2

\* The conflicts of t are the transactions of the pool that spend an output with it.
LEMMA ConflictsAre ==
    ASSUME NEW m, Spending(m), NEW t
    PROVE  Conflicts(m, t) = {u \in Pool(m) : Vin[u] \cap Vin[t] # {}}
  BY DEF Conflicts, Spending

\* A fee with its delta is an integer.
LEMMA ModifiedFeeInt ==
    ASSUME NEW m, Shape(m), NEW t \in Tx
    PROVE  ModifiedFee(m, t) \in Int
  BY TxAssumption DEF ModifiedFee, Shape

-----------------------------------------------------------------------------
\* addUnchecked.

\* An older entry with the new child.
WithChild(m, t, a) == IF a \in Parents(t) THEN AddChild(m.mapTx[a], t) ELSE m.mapTx[a]

\* The pool, mapNextTx and the entries after addUnchecked.
LEMMA AddedFields ==
    ASSUME NEW m, NEW t \in Tx \ Pool(m), NEW A
    PROVE  /\ Pool(addUnchecked(m, t, A)) = Pool(m) \cup {t}
           /\ addUnchecked(m, t, A).mapDeltas = m.mapDeltas
           /\ addUnchecked(m, t, A).mapTx[t] = NewEntry(m, t)
           /\ \A a \in Pool(m) : addUnchecked(m, t, A).mapTx[a] =
                 IF a \in A THEN UpdateState(WithChild(m, t, a), ModifiedFee(m, t), 1)
                 ELSE WithChild(m, t, a)
           /\ DOMAIN addUnchecked(m, t, A).mapNextTx = DOMAIN m.mapNextTx \cup Vin[t]
           /\ \A o \in DOMAIN m.mapNextTx \cup Vin[t] : addUnchecked(m, t, A).mapNextTx[o] =
                 IF o \in Vin[t] THEN t ELSE m.mapNextTx[o]
  BY DEF addUnchecked, Pool, WithChild

\* An older entry gets the new child if it is a parent, and nothing else changes.
LEMMA WithChildIs ==
    ASSUME NEW m, Shape(m), NEW t \in Tx, NEW a \in Pool(m)
    PROVE  /\ WithChild(m, t, a) \in RawEntry
           /\ WithChild(m, t, a).parents = m.mapTx[a].parents
           /\ \A u : u \in WithChild(m, t, a).children
                     <=> u \in m.mapTx[a].children \/ (u = t /\ a \in Parents(t))
           /\ WithChild(m, t, a).count = m.mapTx[a].count
           /\ WithChild(m, t, a).fees = m.mapTx[a].fees
           /\ WithChild(m, t, a).mod = m.mapTx[a].mod
  BY DEF WithChild, AddChild, Shape, RawEntry

\* The entry that addUnchecked makes.
LEMMA NewEntryIs ==
    ASSUME NEW m, Shape(m), NEW t \in Tx
    PROVE  /\ NewEntry(m, t) \in RawEntry
           /\ NewEntry(m, t).parents = Parents(t) \cap Pool(m)
           /\ NewEntry(m, t).children = {}
           /\ NewEntry(m, t).count = 1
           /\ NewEntry(m, t).fees = ModifiedFee(m, t)
           /\ NewEntry(m, t).mod = ModifiedFee(m, t)
  BY ModifiedFeeInt DEF NewEntry, Shape, RawEntry

\* An older entry after addUnchecked: its links but for the new child, and its fee, stay.
LEMMA AddedEntry ==
    ASSUME NEW m, Shape(m), NEW t \in Tx \ Pool(m), NEW A, NEW a \in Pool(m)
    PROVE  /\ addUnchecked(m, t, A).mapTx[a] \in RawEntry
           /\ addUnchecked(m, t, A).mapTx[a].parents = m.mapTx[a].parents
           /\ \A u : u \in addUnchecked(m, t, A).mapTx[a].children
                     <=> u \in m.mapTx[a].children \/ (u = t /\ a \in Parents(t))
           /\ addUnchecked(m, t, A).mapTx[a].mod = m.mapTx[a].mod
  <1> DEFINE e == WithChild(m, t, a)
             f == ModifiedFee(m, t)
  <1>1. /\ e \in RawEntry /\ e.parents = m.mapTx[a].parents /\ e.mod = m.mapTx[a].mod
        /\ \A u : u \in e.children <=> u \in m.mapTx[a].children \/ (u = t /\ a \in Parents(t))
    BY WithChildIs
  <1>2. f \in Int
    BY ModifiedFeeInt
  <1>3. addUnchecked(m, t, A).mapTx[a] = IF a \in A THEN UpdateState(e, f, 1) ELSE e
    BY AddedFields
  <1> HIDE DEF e, f
  <1>4. /\ UpdateState(e, f, 1) \in RawEntry /\ UpdateState(e, f, 1).parents = e.parents
        /\ UpdateState(e, f, 1).children = e.children /\ UpdateState(e, f, 1).mod = e.mod
    <2>1. e \in RawEntry /\ 1 \in Int
      BY <1>1
    <2> QED BY <1>2, <2>1, UpdateStateKeeps
  <1>5. CASE a \in A
    <2>1. addUnchecked(m, t, A).mapTx[a] = UpdateState(e, f, 1)
      BY <1>3, <1>5
    <2> QED BY <1>1, <1>4, <2>1
  <1>6. CASE a \notin A
    <2>1. addUnchecked(m, t, A).mapTx[a] = e
      BY <1>3, <1>6
    <2> QED BY <1>1, <2>1
  <1> QED BY <1>5, <1>6

\* t may come into the pool: nothing there spends what it spends, and it has no children
\* there but for those that the links leave out when it comes back from a block (W).
MayEnter(m, U, I, t, W) ==
    /\ t \in Tx \ Pool(m) /\ W \subseteq {t}
    /\ \A u \in Pool(m) : t \in Parents(u) => t \in W /\ u \notin I
    /\ \A u \in Pool(m) : u \in Parents(t) /\ u \in U => t \in W
    /\ \A o \in Vin[t] : o \notin DOMAIN m.mapNextTx

\* addUnchecked leaves the links, mapNextTx and the fees right, though it takes the new
\* transaction to have no children: those of one that comes back are for
\* UpdateTransactionsFromBlock.
LEMMA AddKeeps ==
    ASSUME NEW m, NEW U, NEW I, NEW t, NEW W, NEW A, Kept(m, U, I), MayEnter(m, U, I, t, W)
    PROVE  Kept(addUnchecked(m, t, A), U \cup W, I \cup W)
  <1> DEFINE n == addUnchecked(m, t, A)
  <1>0. Shape(m) /\ Spending(m) /\ Links(m, U, I) /\ Priced(m)
    BY DEF Kept
  <1>1. t \in Tx \ Pool(m) /\ W \subseteq {t} /\ t \in Tx /\ t \notin Pool(m)
    BY DEF MayEnter
  <1>2. /\ Pool(n) = Pool(m) \cup {t} /\ n.mapDeltas = m.mapDeltas
        /\ n.mapTx[t] = NewEntry(m, t)
        /\ DOMAIN n.mapNextTx = DOMAIN m.mapNextTx \cup Vin[t]
        /\ \A o \in DOMAIN m.mapNextTx \cup Vin[t] :
              n.mapNextTx[o] = IF o \in Vin[t] THEN t ELSE m.mapNextTx[o]
    BY <1>1, AddedFields
  <1>3. \A a \in Pool(m) :
           /\ n.mapTx[a] \in RawEntry /\ n.mapTx[a].parents = m.mapTx[a].parents
           /\ \A u : u \in n.mapTx[a].children
                     <=> u \in m.mapTx[a].children \/ (u = t /\ a \in Parents(t))
           /\ n.mapTx[a].mod = m.mapTx[a].mod
    BY <1>0, <1>1, AddedEntry
  <1>4. /\ n.mapTx[t] \in RawEntry /\ n.mapTx[t].parents = Parents(t) \cap Pool(m)
        /\ n.mapTx[t].children = {} /\ n.mapTx[t].mod = ModifiedFee(m, t)
    BY <1>0, <1>1, <1>2, NewEntryIs
  <1> HIDE DEF n
  <1>5. Shape(n)
    BY <1>0, <1>1, <1>2, <1>3, <1>4 DEF Shape
  <1>6. Spending(n)
    <2>1. ASSUME NEW u \in Pool(n), NEW o \in Vin[u]
          PROVE  o \in DOMAIN n.mapNextTx /\ n.mapNextTx[o] = u
      <3>1. CASE u = t
        BY <1>2, <3>1
      <3>2. CASE u \in Pool(m)
        <4>1. o \in DOMAIN m.mapNextTx /\ m.mapNextTx[o] = u
          BY <1>0, <3>2 DEF Spending
        <4>2. o \notin Vin[t]
          BY <4>1 DEF MayEnter
        <4> QED BY <1>2, <4>1, <4>2
      <3> QED BY <1>2, <3>1, <3>2
    <2>2. ASSUME NEW o \in DOMAIN n.mapNextTx
          PROVE  n.mapNextTx[o] \in Pool(n) /\ o \in Vin[n.mapNextTx[o]]
      <3>1. CASE o \in Vin[t]
        BY <1>2, <3>1
      <3>2. CASE o \notin Vin[t]
        <4>1. o \in DOMAIN m.mapNextTx /\ n.mapNextTx[o] = m.mapNextTx[o]
          BY <1>2, <3>2
        <4> QED BY <1>0, <1>2, <4>1 DEF Spending
      <3> QED BY <3>1, <3>2
    <2> QED BY <2>1, <2>2 DEF Spending
  <1>7. Links(n, U \cup W, I \cup W)
    <2>1. \A x, y \in Pool(m) : Linked(U \cup W, I \cup W, x, y) <=> Linked(U, I, x, y)
      BY <1>1 DEF Linked
    <2>2. \A y \in Pool(m) : ~ Linked(U \cup W, I \cup W, t, y)
      BY <1>1 DEF Linked, MayEnter
    <2>3. \A x \in Pool(m) : Linked(U \cup W, I \cup W, x, t) <=> x \in Parents(t)
      BY <1>1 DEF Linked, MayEnter
    <2>4. ~ Linked(U \cup W, I \cup W, t, t)
      BY <1>1, NotOwnParent DEF Linked
    <2>5. ASSUME NEW a \in Pool(m)
          PROVE  /\ n.mapTx[a].children = {u \in Pool(n) : Linked(U \cup W, I \cup W, a, u)}
                 /\ n.mapTx[a].parents = {u \in Pool(n) : Linked(U \cup W, I \cup W, u, a)}
      <3>1. /\ m.mapTx[a].children = {u \in Pool(m) : Linked(U, I, a, u)}
            /\ m.mapTx[a].parents = {u \in Pool(m) : Linked(U, I, u, a)}
        BY <1>0 DEF Links
      <3>2. ASSUME NEW u
            PROVE  /\ u \in n.mapTx[a].children
                         <=> u \in Pool(n) /\ Linked(U \cup W, I \cup W, a, u)
                   /\ u \in n.mapTx[a].parents
                         <=> u \in Pool(n) /\ Linked(U \cup W, I \cup W, u, a)
        <4>1. CASE u \in Pool(m)
          <5>1. u # t /\ u \in Pool(n)
            BY <1>1, <1>2, <4>1
          <5>2. /\ Linked(U \cup W, I \cup W, a, u) <=> Linked(U, I, a, u)
                /\ Linked(U \cup W, I \cup W, u, a) <=> Linked(U, I, u, a)
            BY <2>1, <4>1
          <5>3. u \in n.mapTx[a].children <=> Linked(U, I, a, u)
            BY <1>3, <3>1, <4>1, <5>1
          <5>4. u \in n.mapTx[a].parents <=> Linked(U, I, u, a)
            BY <1>3, <3>1, <4>1
          <5> QED BY <5>1, <5>2, <5>3, <5>4
        <4>2. CASE u = t
          <5>1. u \in n.mapTx[a].children <=> a \in Parents(t)
            BY <1>1, <1>3, <3>1, <4>2
          <5>2. u \notin n.mapTx[a].parents
            BY <1>1, <1>3, <3>1, <4>2
          <5> QED BY <1>2, <2>2, <2>3, <4>2, <5>1, <5>2
        <4>3. CASE u # t /\ u \notin Pool(m)
          <5>1. u \notin n.mapTx[a].children
            BY <1>3, <3>1, <4>3
          <5>2. u \notin n.mapTx[a].parents
            BY <1>3, <3>1, <4>3
          <5> QED BY <1>2, <4>3, <5>1, <5>2
        <4> QED BY <4>1, <4>2, <4>3
      <3> DEFINE C == {u \in Pool(n) : Linked(U \cup W, I \cup W, a, u)}
                 P == {u \in Pool(n) : Linked(U \cup W, I \cup W, u, a)}
      <3>3. \A u : /\ u \in n.mapTx[a].children <=> u \in C
                   /\ u \in n.mapTx[a].parents <=> u \in P
        BY <3>2
      <3>4. n.mapTx[a].children = C
        <4> HIDE DEF C, P
        <4> QED BY <3>3
      <3>5. n.mapTx[a].parents = P
        <4> HIDE DEF C, P
        <4> QED BY <3>3
      <3> QED BY <3>4, <3>5
    <2>6. /\ n.mapTx[t].children = {u \in Pool(n) : Linked(U \cup W, I \cup W, t, u)}
          /\ n.mapTx[t].parents = {u \in Pool(n) : Linked(U \cup W, I \cup W, u, t)}
      <3>1. \A u : /\ u \in n.mapTx[t].children <=> u \in Pool(n) /\ Linked(U \cup W, I \cup W, t, u)
                   /\ u \in n.mapTx[t].parents <=> u \in Pool(n) /\ Linked(U \cup W, I \cup W, u, t)
        BY <1>1, <1>2, <1>4, <2>2, <2>3, <2>4
      <3> QED BY <3>1
    <2>7. ASSUME NEW a \in Pool(n)
          PROVE  /\ n.mapTx[a].children = {u \in Pool(n) : Linked(U \cup W, I \cup W, a, u)}
                 /\ n.mapTx[a].parents = {u \in Pool(n) : Linked(U \cup W, I \cup W, u, a)}
      <3>1. CASE a = t
        BY <2>6, <3>1, Zenon
      <3>2. CASE a \in Pool(m)
        BY <2>5, <3>2, Zenon
      <3> QED BY <1>2, <3>1, <3>2
    <2> HIDE DEF Linked
    <2> QED BY <2>7, Zenon DEF Links
  <1>8. Priced(n)
    BY <1>0, <1>2, <1>3, <1>4 DEF Priced, ModifiedFee
  <1> QED BY <1>5, <1>6, <1>7, <1>8 DEF Kept, n

\* The links after addUnchecked.
LEMMA AddedLinks ==
    ASSUME NEW m, NEW U, NEW I, NEW t, NEW W, NEW A, Kept(m, U, I), MayEnter(m, U, I, t, W)
    PROVE  LET n == addUnchecked(m, t, A)
           IN  /\ ChildLinks(n)[t] = {}
               /\ ParentLinks(n)[t] = Parents(t) \cap Pool(m)
               /\ \A a \in Pool(m) :
                     /\ \A u : u \in ChildLinks(n)[a]
                               <=> u \in ChildLinks(m)[a] \/ (u = t /\ a \in Parents(t))
                     /\ ParentLinks(n)[a] = ParentLinks(m)[a]
  <1> DEFINE n == addUnchecked(m, t, A)
  <1>0. Shape(m) /\ t \in Tx \ Pool(m) /\ t \in Tx
    BY DEF Kept, MayEnter
  <1>1. Pool(n) = Pool(m) \cup {t} /\ n.mapTx[t] = NewEntry(m, t)
    BY <1>0, AddedFields
  <1>2. \A a \in Pool(m) :
           /\ n.mapTx[a].parents = m.mapTx[a].parents
           /\ \A u : u \in n.mapTx[a].children
                     <=> u \in m.mapTx[a].children \/ (u = t /\ a \in Parents(t))
    BY <1>0, AddedEntry
  <1>3. NewEntry(m, t).parents = Parents(t) \cap Pool(m) /\ NewEntry(m, t).children = {}
    BY <1>0, NewEntryIs
  <1> HIDE DEF n
  <1>4. \A a \in Pool(n) : ChildLinks(n)[a] = n.mapTx[a].children /\ ParentLinks(n)[a] = n.mapTx[a].parents
    BY DEF ChildLinks, ParentLinks
  <1>5. \A a \in Pool(m) : ChildLinks(m)[a] = m.mapTx[a].children /\ ParentLinks(m)[a] = m.mapTx[a].parents
    BY DEF ChildLinks, ParentLinks
  <1>6. t \in Pool(n)
    BY <1>1
  <1>7. ChildLinks(n)[t] = {} /\ ParentLinks(n)[t] = Parents(t) \cap Pool(m)
    BY <1>1, <1>3, <1>4, <1>6
  <1>8. ASSUME NEW a \in Pool(m)
        PROVE  /\ \A u : u \in ChildLinks(n)[a]
                         <=> u \in ChildLinks(m)[a] \/ (u = t /\ a \in Parents(t))
               /\ ParentLinks(n)[a] = ParentLinks(m)[a]
    <2>1. a \in Pool(n)
      BY <1>1
    <2>2. ChildLinks(n)[a] = n.mapTx[a].children /\ ParentLinks(n)[a] = n.mapTx[a].parents
      BY <1>4, <2>1
    <2>3. ChildLinks(m)[a] = m.mapTx[a].children /\ ParentLinks(m)[a] = m.mapTx[a].parents
      BY <1>5
    <2> QED BY <1>2, <2>2, <2>3
  <1> QED BY <1>7, <1>8 DEF n

\* The ancestors of t from before it came are those it then has.
LEMMA AddedAncestors ==
    ASSUME NEW m, NEW U, NEW I, NEW t, NEW W, NEW A, Kept(m, U, I), MayEnter(m, U, I, t, W)
    PROVE  LinkedAncestors(addUnchecked(m, t, A), t) = CalculateMemPoolAncestors(m, t)
  <1> DEFINE n == addUnchecked(m, t, A)
             S == Parents(t) \cap Pool(m)
             B == CalculateMemPoolAncestors(m, t)
  <1>0. Shape(m) /\ Links(m, U, I) /\ t \in Tx \ Pool(m)
    BY DEF Kept, MayEnter
  <1>1. Pool(n) = Pool(m) \cup {t}
    BY <1>0, AddedFields
  <1>2. Shape(n) /\ Links(n, U \cup W, I \cup W)
    BY AddKeeps DEF Kept
  <1>3. ParentLinks(n)[t] = S /\ \A a \in Pool(m) : ParentLinks(n)[a] = ParentLinks(m)[a]
    BY AddedLinks
  <1>4. IsReach(S, ParentLinks(m), Pool(m), B)
    BY <1>0, AncestorsAre DEF CalculateMemPoolAncestors
  <1>5. t \in Pool(n)
    BY <1>1
  <1> HIDE DEF n, S, B
  <1>6. /\ ParentLinks(n)[t] \subseteq LinkedAncestors(n, t)
        /\ \A x \in LinkedAncestors(n, t) : ParentLinks(n)[x] \subseteq LinkedAncestors(n, t)
        /\ \A Q : ParentLinks(n)[t] \subseteq Q
                  /\ (\A x \in Q \cap Pool(n) : ParentLinks(n)[x] \subseteq Q)
                 => LinkedAncestors(n, t) \subseteq Q
    BY <1>2, <1>5, AncFacts
  <1>7. /\ S \subseteq B /\ B \subseteq Pool(m)
        /\ \A x \in B : ParentLinks(m)[x] \subseteq B
        /\ \A Q \in SUBSET Pool(m) : S \subseteq Q /\ (\A x \in Q : ParentLinks(m)[x] \subseteq Q) => B \subseteq Q
    BY <1>4 DEF IsReach
  <1>8. LinkedAncestors(n, t) \subseteq B
    <2>1. \A x \in B \cap Pool(n) : ParentLinks(n)[x] \subseteq B
      BY <1>3, <1>7
    <2> QED BY <1>3, <1>6, <1>7, <2>1
  <1>9. B \subseteq LinkedAncestors(n, t)
    <2> DEFINE Q == LinkedAncestors(n, t) \cap Pool(m)
    <2>1. S \subseteq Q
      BY <1>3, <1>6, <1>7
    <2>2. ASSUME NEW x \in Q
          PROVE  ParentLinks(m)[x] \subseteq Q
      <3>1. ParentLinks(m)[x] \subseteq LinkedAncestors(n, t)
        BY <1>3, <1>6
      <3>2. ParentLinks(m)[x] \subseteq Pool(m)
        BY <1>0, LinksInPool
      <3> QED BY <3>1, <3>2
    <2>3. B \subseteq Q
      BY <1>7, <2>1, <2>2
    <2> QED BY <2>3
  <1>10. LinkedAncestors(n, t) = B
    BY <1>8, <1>9
  <1> QED BY <1>10 DEF n, B

\* The new transaction is a new descendant of each of its ancestors and of no other.
LEMMA DescAdded ==
    ASSUME NEW m, NEW U, NEW I, NEW t, NEW W, NEW A, Kept(m, U, I), MayEnter(m, U, I, t, W)
    PROVE  LET n == addUnchecked(m, t, A)
           IN  /\ Desc(n, t) = {t}
               /\ \A a \in Pool(m) :
                     Desc(n, a) = IF a \in CalculateMemPoolAncestors(m, t) THEN Desc(m, a) \cup {t}
                                  ELSE Desc(m, a)
  <1> DEFINE n == addUnchecked(m, t, A)
             B == CalculateMemPoolAncestors(m, t)
  <1>0. Shape(m) /\ Links(m, U, I) /\ t \in Tx \ Pool(m) /\ t \notin Pool(m)
    BY DEF Kept, MayEnter
  <1>1. Pool(n) = Pool(m) \cup {t}
    BY <1>0, AddedFields
  <1>2. Shape(n) /\ Links(n, U \cup W, I \cup W)
    BY AddKeeps DEF Kept
  <1>3. /\ ChildLinks(n)[t] = {}
        /\ \A a \in Pool(m) : \A u : u \in ChildLinks(n)[a]
                               <=> u \in ChildLinks(m)[a] \/ (u = t /\ a \in Parents(t))
    BY AddedLinks
  <1>4. LinkedAncestors(n, t) = B
    BY AddedAncestors
  <1>5. t \in Pool(n)
    BY <1>1
  <1> HIDE DEF n, B
  <1>6. Desc(n, t) = {t}
    <2>1. t \in Desc(n, t)
      BY <1>2, <1>5, DescFacts
    <2>2. \A x \in {t} \cap Pool(n) : ChildLinks(n)[x] \subseteq {t}
      BY <1>3
    <2>3. Desc(n, t) \subseteq {t}
      BY <1>2, <1>5, <2>2, DescFacts
    <2> QED BY <2>1, <2>3
  <1>7. ASSUME NEW a \in Pool(m)
        PROVE  Desc(n, a) = IF a \in B THEN Desc(m, a) \cup {t} ELSE Desc(m, a)
    <2>0. a \in Pool(n) /\ a # t
      BY <1>0, <1>1
    <2>1. /\ a \in Desc(m, a) /\ Desc(m, a) \subseteq Pool(m)
          /\ \A x \in Desc(m, a) : ChildLinks(m)[x] \subseteq Desc(m, a)
          /\ \A Q : a \in Q /\ (\A x \in Q \cap Pool(m) : ChildLinks(m)[x] \subseteq Q)
                   => Desc(m, a) \subseteq Q
      BY <1>0, DescFacts
    <2>2. /\ a \in Desc(n, a) /\ Desc(n, a) \subseteq Pool(n)
          /\ \A x \in Desc(n, a) : ChildLinks(n)[x] \subseteq Desc(n, a)
          /\ \A Q : a \in Q /\ (\A x \in Q \cap Pool(n) : ChildLinks(n)[x] \subseteq Q)
                   => Desc(n, a) \subseteq Q
      BY <1>2, <2>0, DescFacts
    <2>3. Desc(n, a) \subseteq Desc(m, a) \cup {t}
      <3>1. \A x \in (Desc(m, a) \cup {t}) \cap Pool(n) : ChildLinks(n)[x] \subseteq Desc(m, a) \cup {t}
        BY <1>3, <2>1
      <3> QED BY <2>1, <2>2, <3>1
    <2>4. Desc(m, a) \subseteq Desc(n, a)
      <3>1. \A x \in Desc(n, a) \cap Pool(m) : ChildLinks(m)[x] \subseteq Desc(n, a)
        BY <1>3, <2>2
      <3> QED BY <2>1, <2>2, <3>1
    <2>5. t \in Desc(n, a) <=> a \in B
      BY <1>2, <1>4, <1>5, <2>0, Duality
    <2> QED BY <1>0, <2>1, <2>3, <2>4, <2>5
  <1> QED BY <1>6, <1>7 DEF n, B

\* The totals are exact after addUnchecked with the ancestors of the new transaction.
LEMMA AddExact ==
    ASSUME NEW m, NEW U, NEW I, NEW t, NEW W, Kept(m, U, I), Exact(m), MayEnter(m, U, I, t, W)
    PROVE  Exact(addUnchecked(m, t, CalculateMemPoolAncestors(m, t)))
  <1> DEFINE B == CalculateMemPoolAncestors(m, t)
             n == addUnchecked(m, t, B)
             f == ModifiedFee(m, t)
  <1>0. Shape(m) /\ Links(m, U, I) /\ t \in Tx \ Pool(m) /\ t \notin Pool(m) /\ t \in Tx
    BY DEF Kept, MayEnter
  <1>1. /\ Pool(n) = Pool(m) \cup {t} /\ n.mapTx[t] = NewEntry(m, t)
        /\ \A a \in Pool(m) :
              n.mapTx[a] = IF a \in B THEN UpdateState(WithChild(m, t, a), f, 1) ELSE WithChild(m, t, a)
    BY <1>0, AddedFields
  <1>2. /\ NewEntry(m, t).count = 1 /\ NewEntry(m, t).fees = f /\ NewEntry(m, t).mod = f
    BY <1>0, NewEntryIs
  <1>3. /\ Desc(n, t) = {t}
        /\ \A a \in Pool(m) :
              Desc(n, a) = IF a \in B THEN Desc(m, a) \cup {t} ELSE Desc(m, a)
    BY DescAdded
  <1>4. \A a \in Pool(m) : n.mapTx[a].mod = m.mapTx[a].mod
    BY <1>0, AddedEntry
  <1>5. Shape(n) /\ f \in Int
    BY <1>0, AddKeeps, ModifiedFeeInt DEF Kept
  <1> HIDE DEF n, B, f
  <1>6. /\ Mods(n)[t] = f
        /\ \A a \in Pool(m) : Mods(n)[a] = Mods(m)[a] /\ Mods(m)[a] \in Int
    <2>1. \A a \in Pool(n) : Mods(n)[a] = n.mapTx[a].mod
      BY DEF Mods
    <2>2. \A a \in Pool(m) : Mods(m)[a] = m.mapTx[a].mod /\ Mods(m)[a] \in Int
      BY <1>0, ModsInt
    <2> QED BY <1>1, <1>2, <1>4, <2>1, <2>2
  <1>7. Sum({t}, Mods(n)) = f
    <2>1. IsFiniteSet({t}) /\ {t} \ {t} = {} /\ \A x \in {t} : Mods(n)[x] \in Int
      BY <1>5, <1>6, FS_Singleton
    <2>2. Sum({t}, Mods(n)) = Mods(n)[t] + Sum({t} \ {t}, Mods(n))
      BY <2>1, SumAdd
    <2>3. Sum({t} \ {t}, Mods(n)) = 0
      BY <2>1, SumEmpty
    <2> QED BY <1>5, <1>6, <2>2, <2>3
  <1>8. ASSUME NEW a \in Pool(m)
        PROVE  /\ IsFiniteSet(Desc(m, a)) /\ Cardinality(Desc(m, a)) \in Nat \ {0}
               /\ Sum(Desc(m, a), Mods(n)) = Sum(Desc(m, a), Mods(m))
               /\ Sum(Desc(m, a), Mods(m)) \in Int
               /\ Cardinality(Desc(m, a) \cup {t}) = Cardinality(Desc(m, a)) + 1
               /\ Sum(Desc(m, a) \cup {t}, Mods(n)) = Sum(Desc(m, a), Mods(m)) + f
    <2> DEFINE D == Desc(m, a)
               E == D \cup {t}
    <2>1. a \in D /\ D \subseteq Pool(m)
      BY <1>0, DescFacts
    <2>2. IsFiniteSet(D) /\ Cardinality(D) \in Nat
      BY <1>0, <2>1, PoolFinite
    <2> HIDE DEF D
    <2>3. Cardinality(D) # 0
      BY <2>1, <2>2, FS_EmptySet
    <2>4. IsFiniteSet(E) /\ Cardinality(E) = Cardinality(D) + 1
      BY <1>0, <2>1, <2>2, FS_AddElement
    <2>5. Sum(D, Mods(n)) = Sum(D, Mods(m))
      BY <1>6, <2>1, <2>2, SumSame
    <2>6. Sum(D, Mods(m)) \in Int
      BY <1>6, <2>1, <2>2, SumInt
    <2>7. t \in E /\ E \ {t} = D /\ \A x \in E : Mods(n)[x] \in Int
      BY <1>0, <1>5, <1>6, <2>1
    <2>8. Sum(E, Mods(n)) = Mods(n)[t] + Sum(E \ {t}, Mods(n))
      BY <2>4, <2>7, SumAdd
    <2>9. Sum(E, Mods(n)) = f + Sum(D, Mods(m))
      BY <1>6, <2>5, <2>7, <2>8
    <2>10. Sum(E, Mods(n)) = Sum(D, Mods(m)) + f
      BY <1>5, <2>6, <2>9
    <2> QED BY <2>2, <2>3, <2>4, <2>5, <2>6, <2>10 DEF D
  <1>9. ASSUME NEW a \in Pool(n)
        PROVE  IF IsDirty(n.mapTx[a]) THEN n.mapTx[a].fees = n.mapTx[a].mod
               ELSE /\ n.mapTx[a].count = Cardinality(Desc(n, a))
                    /\ n.mapTx[a].fees = Sum(Desc(n, a), Mods(n))
    <2>1. CASE a = t
      <3>1. n.mapTx[a].count = 1 /\ n.mapTx[a].fees = f
        BY <1>1, <1>2, <2>1
      <3>2. Cardinality({t}) = 1
        BY FS_Singleton
      <3> QED BY <1>3, <1>7, <2>1, <3>1, <3>2 DEF IsDirty
    <2>2. CASE a \in Pool(m)
      <3> DEFINE e == WithChild(m, t, a)
      <3>1. /\ e \in RawEntry /\ e.count = m.mapTx[a].count /\ e.fees = m.mapTx[a].fees
            /\ e.mod = m.mapTx[a].mod
        BY <1>0, <2>2, WithChildIs
      <3>2. IF IsDirty(e) THEN e.fees = e.mod
            ELSE e.count = Cardinality(Desc(m, a)) /\ e.fees = Sum(Desc(m, a), Mods(m))
        BY <2>2, <3>1 DEF Exact, IsDirty
      <3>3. n.mapTx[a] = IF a \in B THEN UpdateState(e, f, 1) ELSE e
        BY <1>1, <2>2
      <3> HIDE DEF e
      <3>4. CASE a \notin B
        <4>1. n.mapTx[a] = e /\ Desc(n, a) = Desc(m, a)
          BY <1>3, <2>2, <3>3, <3>4
        <4>2. Sum(Desc(m, a), Mods(n)) = Sum(Desc(m, a), Mods(m))
          BY <1>8, <2>2
        <4> QED BY <3>2, <4>1, <4>2
      <3>5. CASE a \in B
        <4>1. n.mapTx[a] = UpdateState(e, f, 1) /\ Desc(n, a) = Desc(m, a) \cup {t}
          BY <1>3, <2>2, <3>3, <3>5
        <4>2. CASE IsDirty(e)
          <5>1. 1 \in Int
            OBVIOUS
          <5>2. n.mapTx[a] = e
            BY <1>5, <3>1, <4>1, <4>2, <5>1, UpdatedTotals
          <5> QED BY <3>2, <4>2, <5>2
        <4>3. CASE ~ IsDirty(e)
          <5>1. 1 \in Int
            OBVIOUS
          <5>2. n.mapTx[a].count = e.count + 1 /\ n.mapTx[a].fees = e.fees + f
            BY <1>5, <3>1, <4>1, <4>3, <5>1, UpdatedTotals
          <5>3. e.count = Cardinality(Desc(m, a)) /\ e.fees = Sum(Desc(m, a), Mods(m))
            BY <3>2, <4>3
          <5>4. /\ Cardinality(Desc(m, a)) \in Nat
                /\ Cardinality(Desc(m, a) \cup {t}) = Cardinality(Desc(m, a)) + 1
                /\ Sum(Desc(m, a) \cup {t}, Mods(n)) = Sum(Desc(m, a), Mods(m)) + f
            BY <1>8, <2>2
          <5>5. n.mapTx[a].count = Cardinality(Desc(n, a)) /\ n.mapTx[a].fees = Sum(Desc(n, a), Mods(n))
            BY <4>1, <5>2, <5>3, <5>4
          <5>6. n.mapTx[a].count # 0
            BY <5>2, <5>3, <5>4
          <5> QED BY <5>5, <5>6 DEF IsDirty
        <4> QED BY <4>2, <4>3
      <3> QED BY <3>4, <3>5
    <2> QED BY <1>1, <2>1, <2>2
  <1>10. Exact(n)
    BY <1>9 DEF Exact
  <1> QED BY <1>10 DEF n, B

-----------------------------------------------------------------------------
\* The pool against the transactions C of a chain.

Spent(C) == UNION {Vin[u] : u \in C}

\* No transaction of the pool is one of C or in conflict with C, and the parents of each are
\* in the pool or in C.
Sourced(m, C) ==
    \A t \in Pool(m) : /\ t \notin C /\ ~ IsCoinBase(t)
                       /\ \A o \in Vin[t] : /\ o \notin Spent(C)
                                            /\ o[1] \in Pool(m) \/ o \in Base \/ o[1] \in C

Settled(m, C) == Kept(m, {}, {}) /\ Exact(m) /\ Sourced(m, C)

\* CalculateDescendants holds S and the children of all it holds, and nothing else.
LEMMA DescendantsFacts ==
    ASSUME NEW m, NEW U, NEW I, Kept(m, U, I), NEW T \in SUBSET Pool(m)
    PROVE  /\ T \subseteq CalculateDescendants(m, T)
           /\ CalculateDescendants(m, T) \in SUBSET Pool(m)
           /\ \A x \in CalculateDescendants(m, T) :
                 ChildLinks(m)[x] \subseteq CalculateDescendants(m, T)
           /\ \A Q \in SUBSET Pool(m) : T \subseteq Q /\ (\A x \in Q : ChildLinks(m)[x] \subseteq Q)
                                       => CalculateDescendants(m, T) \subseteq Q
           /\ Whole(m, CalculateDescendants(m, T))
  <1>1. IsReach(T, ChildLinks(m), Pool(m), CalculateDescendants(m, T))
    BY DescendantsAre DEF Kept
  <1> QED BY <1>1 DEF IsReach, Whole

\* Transactions leave with all their descendants.
LEMMA RemoveSettled ==
    ASSUME NEW m, NEW C, Settled(m, C), NEW T \in SUBSET Pool(m)
    PROVE  LET n == RemoveStaged(m, CalculateDescendants(m, T))
           IN  Settled(n, C) /\ Pool(n) \subseteq Pool(m) \ T
  <1> DEFINE S == CalculateDescendants(m, T)
             n == RemoveStaged(m, S)
  <1>0. Kept(m, {}, {}) /\ Exact(m) /\ Sourced(m, C)
    BY DEF Settled
  <1>1. /\ T \subseteq S /\ S \in SUBSET Pool(m) /\ \A x \in S : ChildLinks(m)[x] \subseteq S
        /\ Whole(m, S)
    BY <1>0, DescendantsFacts
  <1> HIDE DEF S
  <1>2. Kept(n, {}, {}) /\ Exact(n)
    BY <1>0, <1>1, RemoveKeeps, RemoveExact
  <1>3. Pool(n) = Pool(m) \ S
    BY <1>1, RemovedFields
  <1> HIDE DEF n
  <1>4. Sourced(n, C)
    <2>1. ASSUME NEW t \in Pool(n), NEW o \in Vin[t], o[1] \in Pool(m)
          PROVE  o[1] \in Pool(n)
      <3>1. t \in Pool(m) /\ o[1] \in Parents(t)
        BY <1>3 DEF Parents
      <3>2. t \in ChildLinks(m)[o[1]]
        BY <1>0, <2>1, <3>1, LinksInPool DEF Kept, Linked
      <3> QED BY <1>1, <1>3, <2>1, <3>2
    <2> QED BY <1>0, <1>3, <2>1 DEF Sourced
  <1> QED BY <1>1, <1>2, <1>3, <1>4 DEF Settled, n, S

\* A round of eviction keeps the pool settled and makes it smaller if it is too large.
LEMMA EvictSettled ==
    ASSUME NEW m, NEW C, Settled(m, C), NEW n \in Evict(m)
    PROVE  /\ Settled(n, C) /\ Pool(n) \subseteq Pool(m)
           /\ Cardinality(Pool(m)) \in Nat /\ Cardinality(Pool(n)) \in Nat
           /\ \/ Cardinality(Pool(n)) <= MaxPool
              \/ Cardinality(Pool(n)) < Cardinality(Pool(m))
  <1>0. Shape(m) /\ IsFiniteSet(Pool(m)) /\ Cardinality(Pool(m)) \in Nat
    BY PoolFinite DEF Settled, Kept
  <1>1. CASE Cardinality(Pool(m)) <= MaxPool
    BY <1>0, <1>1 DEF Evict
  <1>2. CASE ~ Cardinality(Pool(m)) <= MaxPool
    <2>1. PICK t \in Lowest(m) : n = RemoveStaged(m, CalculateDescendants(m, {t}))
      BY <1>2 DEF Evict
    <2>2. t \in Pool(m)
      BY DEF Lowest
    <2> DEFINE T == {t}
    <2>3. T \in SUBSET Pool(m) /\ n = RemoveStaged(m, CalculateDescendants(m, T))
      BY <2>1, <2>2
    <2> HIDE DEF T
    <2>4. Settled(n, C) /\ Pool(n) \subseteq Pool(m) \ T
      BY <2>3, RemoveSettled
    <2>5. Pool(n) \subseteq Pool(m) /\ Pool(n) # Pool(m)
      BY <2>2, <2>4 DEF T
    <2>6. Cardinality(Pool(n)) \in Nat /\ Cardinality(Pool(n)) < Cardinality(Pool(m))
      BY <1>0, <2>5, FewerElements
    <2> QED BY <1>0, <2>4, <2>5, <2>6
  <1> QED BY <1>1, <1>2

\* The rounds of TrimToSize.
Trims(m, n, f) == f = [i \in 0 .. n |-> IF i = 0 THEN {m} ELSE UNION {Evict(p) : p \in f[i - 1]}]

\* The function inside TrimToSize exists for any number of rounds.
LEMMA TrimsExist ==
    ASSUME NEW m, NEW n \in Nat
    PROVE  \E f : Trims(m, n, f)
  <1> DEFINE H == {k \in Nat : \E f : Trims(m, k, f)}
  <1>1. 0 \in H
    <2>1. Trims(m, 0, [i \in 0 .. 0 |-> {m}])
      BY DEF Trims
    <2> QED BY <2>1
  <1>2. ASSUME NEW k \in 0 .. n, k # n, k \in H
        PROVE  k + 1 \in H
    <2>1. PICK f : Trims(m, k, f)
      BY <1>2
    <2> DEFINE Term(i) == IF i = 0 THEN {m} ELSE UNION {Evict(p) : p \in f[i - 1]}
               g == [i \in 0 .. k + 1 |-> Term(i)]
    <2>2. f = [i \in 0 .. k |-> Term(i)]
      BY <2>1 DEF Trims
    <2> HIDE DEF Term
    <2>3. \A i \in 0 .. k : g[i] = f[i]
      BY <2>2
    <2>4. \A i \in 0 .. k + 1 : i # 0 => g[i - 1] = f[i - 1]
      BY <2>3
    <2>5. \A i \in 0 .. k + 1 :
             Term(i) = IF i = 0 THEN {m} ELSE UNION {Evict(p) : p \in g[i - 1]}
      BY <2>4 DEF Term
    <2>6. Trims(m, k + 1, g)
      BY <2>5 DEF Trims
    <2> QED BY <2>6
  <1> HIDE DEF H
  <1>3. n \in H
    BY <1>1, <1>2, Climb
  <1> QED BY <1>3 DEF H

\* The limit is reached, since every round takes out a transaction at least.
LEMMA TrimSettled ==
    ASSUME NEW m, NEW C, Settled(m, C), NEW n \in TrimToSize(m)
    PROVE  Settled(n, C) /\ Pool(n) \subseteq Pool(m) /\ Cardinality(Pool(n)) <= MaxPool
  <1> DEFINE k == Cardinality(Tx)
             f == CHOOSE f : Trims(m, k, f)
             Good(i) == \A p \in f[i] :
                           /\ Settled(p, C) /\ Pool(p) \subseteq Pool(m)
                           /\ Cardinality(Pool(p)) \in Nat
                           /\ Cardinality(Pool(p)) <= MaxPool \/ Cardinality(Pool(p)) + i <= k
             H == {i \in Nat : Good(i)}
  <1>1. k \in Nat
    BY TxAssumption, FS_CardinalityType
  <1>2. Trims(m, k, f)
    BY <1>1, TrimsExist
  <1>3. TrimToSize(m) = f[k]
    BY DEF TrimToSize, Trims
  <1>4. Cardinality(Pool(m)) \in Nat /\ Cardinality(Pool(m)) <= k
    BY TxAssumption, FewerElements DEF Settled, Kept, Shape
  <1> HIDE DEF f, k
  <1>5. f[0] = {m}
    BY <1>1, <1>2 DEF Trims
  <1>6. 0 \in H
    BY <1>1, <1>4, <1>5
  <1>7. ASSUME NEW i \in 0 .. k, i # k, i \in H
        PROVE  i + 1 \in H
    <2>1. f[i + 1] = UNION {Evict(p) : p \in f[i]}
      <3>1. i + 1 \in 0 .. k /\ i + 1 # 0 /\ (i + 1) - 1 = i
        BY <1>1, <1>7
      <3> QED BY <1>2, <3>1 DEF Trims
    <2>2. ASSUME NEW q \in f[i + 1]
          PROVE  /\ Settled(q, C) /\ Pool(q) \subseteq Pool(m)
                 /\ Cardinality(Pool(q)) \in Nat
                 /\ Cardinality(Pool(q)) <= MaxPool \/ Cardinality(Pool(q)) + (i + 1) <= k
      <3>1. PICK p \in f[i] : q \in Evict(p)
        BY <2>1
      <3>2. /\ Settled(p, C) /\ Pool(p) \subseteq Pool(m) /\ Cardinality(Pool(p)) \in Nat
            /\ Cardinality(Pool(p)) <= MaxPool \/ Cardinality(Pool(p)) + i <= k
        BY <1>7
      <3>3. /\ Settled(q, C) /\ Pool(q) \subseteq Pool(p) /\ Cardinality(Pool(q)) \in Nat
            /\ Cardinality(Pool(q)) <= MaxPool \/ Cardinality(Pool(q)) < Cardinality(Pool(p))
        BY <3>1, <3>2, EvictSettled
      <3>4. MaxPool \in Nat /\ i \in Nat
        BY BoundAssumption
      <3>5. CASE Cardinality(Pool(p)) <= MaxPool
        BY <3>2, <3>3, <3>4, <3>5
      <3>6. CASE Cardinality(Pool(p)) + i <= k
        BY <1>1, <3>2, <3>3, <3>4, <3>6
      <3> QED BY <3>2, <3>5, <3>6
    <2>3. i + 1 \in Nat
      OBVIOUS
    <2> QED BY <2>2, <2>3
  <1>8. k \in H
    <2> HIDE DEF H
    <2> QED BY <1>1, <1>6, <1>7, Climb
  <1>9. /\ Settled(n, C) /\ Pool(n) \subseteq Pool(m) /\ Cardinality(Pool(n)) \in Nat
        /\ Cardinality(Pool(n)) <= MaxPool \/ Cardinality(Pool(n)) + k <= k
    BY <1>3, <1>8
  <1> QED BY <1>1, <1>9, BoundAssumption

\* LimitMempoolSize keeps the pool settled, adds nothing and leaves no more than MaxPool.
LEMMA LimitSettled ==
    ASSUME NEW m, NEW C, Settled(m, C), NEW may, NEW n \in LimitMempoolSize(m, may)
    PROVE  Settled(n, C) /\ Pool(n) \subseteq Pool(m) /\ Cardinality(Pool(n)) <= MaxPool
  <1>1. PICK old \in SUBSET (may \cap Pool(m)) : n \in TrimToSize(Expire(m, old))
    BY DEF LimitMempoolSize
  <1>2. Settled(Expire(m, old), C) /\ Pool(Expire(m, old)) \subseteq Pool(m)
    <2>1. old \in SUBSET Pool(m)
      OBVIOUS
    <2> QED BY <2>1, RemoveSettled DEF Expire
  <1> QED BY <1>1, <1>2, TrimSettled

\* removeForReorg keeps the pool settled and takes out all that could not be mined.
LEMMA ReorgSettled ==
    ASSUME NEW m, NEW C, Settled(m, C), NEW c
    PROVE  /\ Settled(removeForReorg(m, c), C) /\ Pool(removeForReorg(m, c)) \subseteq Pool(m)
           /\ \A t \in Pool(removeForReorg(m, c)) : ~ NotMineable(c, Len(c) + 1, m, t)
  <1> DEFINE T == {t \in Pool(m) : NotMineable(c, Len(c) + 1, m, t)}
  <1>1. T \in SUBSET Pool(m) /\ removeForReorg(m, c) = RemoveStaged(m, CalculateDescendants(m, T))
    BY DEF removeForReorg
  <1>2. \A t \in Pool(m) \ T : ~ NotMineable(c, Len(c) + 1, m, t)
    OBVIOUS
  <1> HIDE DEF T
  <1>3. Settled(removeForReorg(m, c), C) /\ Pool(removeForReorg(m, c)) \subseteq Pool(m) \ T
    BY <1>1, RemoveSettled
  <1> QED BY <1>2, <1>3

-----------------------------------------------------------------------------
\* Acceptance.

\* Nothing that leaves is an ancestor of what comes: the ancestors found before are those after.
LEMMA AncestorsStay ==
    ASSUME NEW m, NEW U, NEW I, Kept(m, U, I), NEW t, NEW T \in SUBSET Pool(m),
           T \cap CalculateMemPoolAncestors(m, t) = {}
    PROVE  /\ CalculateMemPoolAncestors(RemoveStaged(m, CalculateDescendants(m, T)), t)
                 = CalculateMemPoolAncestors(m, t)
           /\ CalculateMemPoolAncestors(m, t) \cap CalculateDescendants(m, T) = {}
           /\ Parents(t) \cap Pool(m) \subseteq CalculateMemPoolAncestors(m, t)
           /\ CalculateMemPoolAncestors(m, t) \subseteq Pool(m)
  <1> DEFINE S == CalculateDescendants(m, T)
             n == RemoveStaged(m, S)
             B == CalculateMemPoolAncestors(m, t)
             A == CalculateMemPoolAncestors(n, t)
  <1>0. Shape(m) /\ Links(m, U, I)
    BY DEF Kept
  <1>1. /\ T \subseteq S /\ S \in SUBSET Pool(m)
        /\ \A Q \in SUBSET Pool(m) : T \subseteq Q /\ (\A x \in Q : ChildLinks(m)[x] \subseteq Q)
                                    => S \subseteq Q
    BY DescendantsFacts
  <1> HIDE DEF S
  <1>2. Kept(n, U, I) /\ Pool(n) = Pool(m) \ S
    BY <1>1, RemoveKeeps, RemovedFields
  <1>3. Shape(n) /\ Links(n, U, I)
    BY <1>2 DEF Kept
  <1>4. IsReach(Parents(t) \cap Pool(m), ParentLinks(m), Pool(m), B)
    BY <1>0, AncestorsAre DEF CalculateMemPoolAncestors
  <1> HIDE DEF n
  <1>5. IsReach(Parents(t) \cap Pool(n), ParentLinks(n), Pool(n), A)
    BY <1>3, AncestorsAre DEF CalculateMemPoolAncestors
  <1> HIDE DEF A, B
  <1>6. B \cap T = {}
    BY DEF B
  <1>7. /\ Parents(t) \cap Pool(m) \subseteq B /\ B \subseteq Pool(m)
        /\ \A x \in B : ParentLinks(m)[x] \subseteq B
        /\ \A Q \in SUBSET Pool(m) :
              Parents(t) \cap Pool(m) \subseteq Q /\ (\A x \in Q : ParentLinks(m)[x] \subseteq Q)
              => B \subseteq Q
    BY <1>4 DEF IsReach
  <1>8. B \cap S = {}
    <2> DEFINE Q == Pool(m) \ B
    <2>1. T \subseteq Q
      BY <1>6
    <2>2. ASSUME NEW x \in Q
          PROVE  ChildLinks(m)[x] \subseteq Q
      <3>1. ASSUME NEW u \in ChildLinks(m)[x]
            PROVE  u \in Q
        <4>1. u \in Pool(m) /\ x \in ParentLinks(m)[u]
          BY <1>0, LinksInPool, LinksDual
        <4> QED BY <1>7, <4>1
      <3> QED BY <3>1
    <2>3. S \subseteq Q
      BY <1>1, <2>1, <2>2
    <2> QED BY <2>3
  <1>9. \A x \in B : ParentLinks(n)[x] = ParentLinks(m)[x]
    <2>1. ASSUME NEW x \in B
          PROVE  ParentLinks(n)[x] = ParentLinks(m)[x]
      <3>1. x \in Pool(m) \ S /\ x \in Pool(m) /\ x \in Pool(n)
        BY <1>2, <1>7, <1>8
      <3>2. n.mapTx[x].parents = m.mapTx[x].parents \ S
        BY <1>0, <1>1, <3>1, RemovedEntry DEF n
      <3>3. ParentLinks(n)[x] = n.mapTx[x].parents /\ ParentLinks(m)[x] = m.mapTx[x].parents
        BY <3>1 DEF ParentLinks
      <3>4. ParentLinks(m)[x] \cap S = {}
        BY <1>7, <1>8
      <3> QED BY <3>2, <3>3, <3>4
    <2> QED BY <2>1
  <1>10. Parents(t) \cap Pool(n) = Parents(t) \cap Pool(m)
    BY <1>2, <1>7, <1>8
  <1>11. /\ Parents(t) \cap Pool(n) \subseteq A /\ A \subseteq Pool(n)
         /\ \A x \in A : ParentLinks(n)[x] \subseteq A
         /\ \A Q \in SUBSET Pool(n) :
               Parents(t) \cap Pool(n) \subseteq Q /\ (\A x \in Q : ParentLinks(n)[x] \subseteq Q)
               => A \subseteq Q
    BY <1>5 DEF IsReach
  <1>12. A \subseteq B
    <2>1. B \in SUBSET Pool(n) /\ \A x \in B : ParentLinks(n)[x] \subseteq B
      BY <1>2, <1>7, <1>8, <1>9
    <2> QED BY <1>7, <1>10, <1>11, <2>1
  <1>13. B \subseteq A
    <2>1. A \in SUBSET Pool(m) /\ \A x \in A : ParentLinks(m)[x] \subseteq A
      BY <1>2, <1>9, <1>11, <1>12
    <2> QED BY <1>7, <1>10, <1>11, <2>1
  <1>14. A = B
    BY <1>12, <1>13
  <1> QED BY <1>7, <1>8, <1>14 DEF A, B, n, S

\* The pool after the conflicting transactions left.
Cleared(m, t) == RemoveStaged(m, CalculateDescendants(m, Conflicts(m, t)))

\* The conflicts are in the pool.
LEMMA ConflictsIn ==
    ASSUME NEW m, Spending(m), NEW t
    PROVE  Conflicts(m, t) \in SUBSET Pool(m)
  BY ConflictsAre

\* Without the conflicts of t and all below them the pool is as right as before, and nothing
\* in it spends an output that t spends.
LEMMA ClearedIs ==
    ASSUME NEW m, NEW U, NEW I, Kept(m, U, I), Exact(m), NEW t
    PROVE  /\ Kept(Cleared(m, t), U, I) /\ Exact(Cleared(m, t))
           /\ Pool(Cleared(m, t)) = Pool(m) \ CalculateDescendants(m, Conflicts(m, t))
           /\ \A o \in Vin[t] : o \notin DOMAIN Cleared(m, t).mapNextTx
  <1> DEFINE T == Conflicts(m, t)
             S == CalculateDescendants(m, T)
  <1>1. T \in SUBSET Pool(m)
    BY ConflictsIn DEF Kept
  <1> HIDE DEF T
  <1>2. T \subseteq S /\ S \in SUBSET Pool(m) /\ Whole(m, S)
    BY <1>1, DescendantsFacts
  <1> HIDE DEF S
  <1> DEFINE n == RemoveStaged(m, S)
  <1>3. Kept(n, U, I) /\ Exact(n) /\ Pool(n) = Pool(m) \ S
    BY <1>2, RemoveKeeps, RemoveExact, RemovedFields
  <1>4. n = Cleared(m, t)
    BY DEF Cleared, S, T
  <1> HIDE DEF n
  <1>5. ASSUME NEW o \in Vin[t], o \in DOMAIN n.mapNextTx
        PROVE  FALSE
    <2>1. n.mapNextTx[o] \in Pool(n) /\ o \in Vin[n.mapNextTx[o]]
      BY <1>3, <1>5 DEF Kept, Spending
    <2>2. n.mapNextTx[o] \in T
      BY <1>3, <2>1, ConflictsAre DEF T, Kept
    <2> QED BY <1>2, <1>3, <2>1, <2>2
  <1> QED BY <1>3, <1>4, <1>5 DEF S, T

\* A transaction that is accepted: although its ancestors are those from before the conflicts
\* left, none of them is among those that left, and links and totals are right.
LEMMA AcceptedIs ==
    ASSUME NEW m, NEW U, NEW I, NEW t, NEW W, Kept(m, U, I), Exact(m),
           Conflicts(m, t) \cap CalculateMemPoolAncestors(m, t) = {},
           MayEnter(Cleared(m, t), U, I, t, W)
    PROVE  /\ Kept(Accepted(m, t), U \cup W, I \cup W) /\ Exact(Accepted(m, t))
           /\ Pool(Accepted(m, t)) = Pool(Cleared(m, t)) \cup {t}
           /\ Parents(t) \cap Pool(m) \subseteq Pool(Cleared(m, t))
           /\ Accepted(m, t).mapDeltas = m.mapDeltas
  <1> DEFINE T == Conflicts(m, t)
             n == Cleared(m, t)
             B == CalculateMemPoolAncestors(m, t)
  <1>1. T \in SUBSET Pool(m)
    BY ConflictsIn DEF Kept
  <1>2. /\ CalculateMemPoolAncestors(n, t) = B
        /\ B \cap CalculateDescendants(m, T) = {}
        /\ Parents(t) \cap Pool(m) \subseteq B /\ B \subseteq Pool(m)
    BY <1>1, AncestorsStay DEF Cleared
  <1>3. Kept(n, U, I) /\ Exact(n) /\ Pool(n) = Pool(m) \ CalculateDescendants(m, T)
    BY ClearedIs
  <1>4. Accepted(m, t) = addUnchecked(n, t, B)
    BY DEF Accepted, Cleared
  <1>5. n.mapDeltas = m.mapDeltas
    BY <1>1, DescendantsFacts, RemovedFields DEF Cleared
  <1>6. t \in Tx \ Pool(n)
    BY DEF MayEnter
  <1> HIDE DEF n, B, T
  <1>7. Kept(addUnchecked(n, t, B), U \cup W, I \cup W)
    BY <1>3, AddKeeps DEF n
  <1>8. Exact(addUnchecked(n, t, CalculateMemPoolAncestors(n, t)))
    BY <1>3, AddExact DEF n
  <1>9. Pool(addUnchecked(n, t, B)) = Pool(n) \cup {t} /\ addUnchecked(n, t, B).mapDeltas = n.mapDeltas
    BY <1>6, AddedFields
  <1>10. Parents(t) \cap Pool(m) \subseteq Pool(n)
    BY <1>2, <1>3
  <1>11. Exact(addUnchecked(n, t, B))
    BY <1>2, <1>8
  <1> QED BY <1>4, <1>5, <1>7, <1>9, <1>10, <1>11 DEF n

-----------------------------------------------------------------------------
\* The chain.

\* The transactions of the blocks below height n.
Below(c, n) == UNION {ToSet(c[i]) : i \in 1 .. n - 1}

\* Block b of height h follows a chain with the transactions C.
Sound(C, h, b) ==
    /\ b \in Seq(Tx) /\ Len(b) >= 1 /\ b[1] = CoinBase[h]
    /\ \A i \in DOMAIN b :
          /\ i # 1 => ~ IsCoinBase(b[i])
          /\ b[i] \notin C
          /\ \A j \in DOMAIN b : j # i => b[j] # b[i] /\ Vin[b[j]] \cap Vin[b[i]] = {}
          /\ \A o \in Vin[b[i]] :
                /\ o \notin Spent(C)
                /\ o \in Base \/ o[1] \in C \/ \E j \in DOMAIN b : j < i /\ o[1] = b[j]

ChainOk(c) == /\ c \in Seq(Seq(Tx)) /\ Len(c) <= MaxHeight
              /\ \A n \in DOMAIN c : Sound(Below(c, n), n, c[n])

\* All blocks of a chain are below the next height.
LEMMA ConfirmedIs ==
    ASSUME NEW c, c \in Seq(Seq(Tx))
    PROVE  Confirmed(c) = Below(c, Len(c) + 1)
  <1>1. DOMAIN c = 1 .. Len(c) /\ 1 .. (Len(c) + 1) - 1 = 1 .. Len(c)
    OBVIOUS
  <1> QED BY <1>1 DEF Confirmed, Below

\* A chain with one more block.
LEMMA AppendIs ==
    ASSUME NEW c, c \in Seq(Seq(Tx)), NEW b, b \in Seq(Tx)
    PROVE  /\ Append(c, b) \in Seq(Seq(Tx)) /\ Len(Append(c, b)) = Len(c) + 1
           /\ \A i \in 1 .. Len(c) : Append(c, b)[i] = c[i]
           /\ Append(c, b)[Len(c) + 1] = b
           /\ Confirmed(Append(c, b)) = Confirmed(c) \cup ToSet(b)
  <1> DEFINE d == Append(c, b)
  <1>1. /\ d \in Seq(Seq(Tx)) /\ Len(d) = Len(c) + 1 /\ DOMAIN d = 1 .. Len(c) + 1
        /\ \A i \in 1 .. Len(c) : d[i] = c[i]
        /\ d[Len(c) + 1] = b /\ DOMAIN c = 1 .. Len(c) /\ Len(c) \in Nat
    OBVIOUS
  <1> HIDE DEF d
  <1>2. Confirmed(d) \subseteq Confirmed(c) \cup ToSet(b)
    <2>1. ASSUME NEW i \in DOMAIN d
          PROVE  ToSet(d[i]) \subseteq Confirmed(c) \cup ToSet(b)
      <3>1. CASE i = Len(c) + 1
        BY <1>1, <3>1
      <3>2. CASE i # Len(c) + 1
        <4>1. i \in DOMAIN c /\ d[i] = c[i]
          BY <1>1, <3>2
        <4> QED BY <4>1 DEF Confirmed
      <3> QED BY <3>1, <3>2
    <2> QED BY <2>1 DEF Confirmed
  <1>3. Confirmed(c) \subseteq Confirmed(d)
    <2>1. \A i \in DOMAIN c : i \in DOMAIN d /\ d[i] = c[i]
      BY <1>1
    <2> QED BY <2>1 DEF Confirmed
  <1>4. ToSet(b) \subseteq Confirmed(d)
    <2>1. Len(c) + 1 \in DOMAIN d
      BY <1>1
    <2> QED BY <1>1, <2>1 DEF Confirmed
  <1>5. Confirmed(d) = Confirmed(c) \cup ToSet(b)
    BY <1>2, <1>3, <1>4
  <1> QED BY <1>1, <1>5 DEF d

\* Chains with the same first blocks have the same transactions in them.
LEMMA BelowSame ==
    ASSUME NEW c, NEW d, NEW n \in Nat, \A i \in 1 .. n - 1 : c[i] = d[i]
    PROVE  Below(c, n) = Below(d, n)
  BY DEF Below

\* A chain stays sound with a sound block on top.
LEMMA ChainAppend ==
    ASSUME NEW c, ChainOk(c), Len(c) < MaxHeight, NEW b, Sound(Confirmed(c), Len(c) + 1, b)
    PROVE  ChainOk(Append(c, b))
  <1> DEFINE d == Append(c, b)
  <1>0. c \in Seq(Seq(Tx)) /\ b \in Seq(Tx) /\ Len(c) \in Nat /\ MaxHeight \in Nat
    BY BoundAssumption DEF ChainOk, Sound
  <1>1. /\ d \in Seq(Seq(Tx)) /\ Len(d) = Len(c) + 1
        /\ \A i \in 1 .. Len(c) : d[i] = c[i]
        /\ d[Len(c) + 1] = b
    BY <1>0, AppendIs
  <1> HIDE DEF d
  <1>2. ASSUME NEW n \in DOMAIN d
        PROVE  Sound(Below(d, n), n, d[n])
    <2>0. n \in 1 .. Len(c) + 1 /\ n \in Nat
      BY <1>0, <1>1
    <2>1. Below(d, n) = Below(c, n)
      <3>1. \A i \in 1 .. n - 1 : d[i] = c[i]
        BY <1>0, <1>1, <2>0
      <3> QED BY <2>0, <3>1, BelowSame
    <2>2. CASE n = Len(c) + 1
      <3>1. Confirmed(c) = Below(c, n)
        BY <1>0, <2>2, ConfirmedIs
      <3>2. Sound(Confirmed(c), n, b)
        BY <2>2
      <3>3. d[n] = b
        BY <1>1, <2>2
      <3>4. Below(d, n) = Confirmed(c)
        BY <2>1, <3>1
      <3>5. Sound(Below(d, n), n, b)
        BY <3>2, <3>4, Zenon
      <3> QED BY <3>3, <3>5
    <2>3. CASE n # Len(c) + 1
      <3>0. n \in 1 .. Len(c)
        BY <1>0, <2>0, <2>3
      <3>1. n \in DOMAIN c /\ d[n] = c[n]
        BY <1>0, <1>1, <3>0
      <3>2. Sound(Below(c, n), n, c[n])
        BY <3>1 DEF ChainOk
      <3> QED BY <2>1, <3>1, <3>2
    <2> QED BY <2>2, <2>3
  <1>3. Len(d) <= MaxHeight
    BY <1>0, <1>1
  <1>4. ChainOk(d)
    BY <1>1, <1>2, <1>3 DEF ChainOk
  <1> QED BY <1>4 DEF d

\* A chain without its last block.
LEMMA FrontIs ==
    ASSUME NEW c, c \in Seq(Seq(Tx)), c # <<>>
    PROVE  /\ Len(c) \in Nat \ {0}
           /\ Front(c) \in Seq(Seq(Tx)) /\ Len(Front(c)) = Len(c) - 1
           /\ \A i \in 1 .. Len(c) - 1 : Front(c)[i] = c[i]
           /\ Last(c) = c[Len(c)]
           /\ Last(c) \in Seq(Tx)
           /\ Confirmed(Front(c)) = Below(c, Len(c))
           /\ Confirmed(c) = Confirmed(Front(c)) \cup ToSet(Last(c))
  <1>1. Len(c) \in Nat \ {0} /\ DOMAIN c = 1 .. Len(c)
    <2>1. Len(c) \in Nat /\ DOMAIN c = 1 .. Len(c)
      OBVIOUS
    <2>2. Len(c) # 0
      OBVIOUS
    <2> QED BY <2>1, <2>2
  <1> DEFINE d == Front(c)
  <1>2. d \in Seq(Seq(Tx)) /\ Len(d) = Len(c) - 1 /\ DOMAIN d = 1 .. Len(c) - 1
    BY <1>1 DEF Front
  <1>3. \A i \in 1 .. Len(c) - 1 : d[i] = c[i]
    BY <1>1 DEF Front
  <1>4. Last(c) = c[Len(c)] /\ Len(c) \in DOMAIN c
    BY <1>1 DEF Last
  <1>5. Last(c) \in Seq(Tx)
    BY <1>1, <1>4
  <1> HIDE DEF d
  <1>6. Confirmed(d) = Below(c, Len(c))
    <2>1. Confirmed(d) = Below(d, Len(c))
      BY <1>1, <1>2, ConfirmedIs
    <2>2. Below(d, Len(c)) = Below(c, Len(c))
      BY <1>1, <1>3, BelowSame
    <2> QED BY <2>1, <2>2
  <1>7. Confirmed(c) \subseteq Confirmed(d) \cup ToSet(Last(c))
    <2>1. ASSUME NEW i \in DOMAIN c
          PROVE  ToSet(c[i]) \subseteq Confirmed(d) \cup ToSet(Last(c))
      <3>1. CASE i = Len(c)
        BY <1>4, <3>1
      <3>2. CASE i # Len(c)
        <4>1. i \in 1 .. Len(c) - 1
          BY <1>1, <3>2
        <4>2. i \in DOMAIN d /\ d[i] = c[i]
          BY <1>2, <1>3, <4>1
        <4> QED BY <4>2 DEF Confirmed
      <3> QED BY <3>1, <3>2
    <2> QED BY <2>1 DEF Confirmed
  <1>8. Confirmed(d) \subseteq Confirmed(c)
    <2>1. ASSUME NEW i \in DOMAIN d
          PROVE  i \in DOMAIN c /\ d[i] = c[i]
      <3>1. i \in 1 .. Len(c) - 1
        BY <1>2
      <3>2. i \in DOMAIN c
        BY <1>1, <3>1
      <3> QED BY <1>3, <3>1, <3>2
    <2> QED BY <2>1 DEF Confirmed
  <1>9. ToSet(Last(c)) \subseteq Confirmed(c)
    BY <1>4 DEF Confirmed
  <1>10. Confirmed(c) = Confirmed(d) \cup ToSet(Last(c))
    BY <1>7, <1>8, <1>9
  <1> QED BY <1>1, <1>2, <1>3, <1>4, <1>5, <1>6, <1>10 DEF d

\* Without its last block a chain is sound, and that block may follow it.
LEMMA ChainFront ==
    ASSUME NEW c, ChainOk(c), c # <<>>
    PROVE  /\ ChainOk(Front(c)) /\ Sound(Confirmed(Front(c)), Len(c), Last(c))
           /\ Confirmed(c) = Confirmed(Front(c)) \cup ToSet(Last(c))
  <1> DEFINE d == Front(c)
  <1>0. c \in Seq(Seq(Tx)) /\ Len(c) <= MaxHeight /\ MaxHeight \in Nat
    BY BoundAssumption DEF ChainOk
  <1>1. /\ Len(c) \in Nat \ {0}
        /\ d \in Seq(Seq(Tx)) /\ Len(d) = Len(c) - 1
        /\ \A i \in 1 .. Len(c) - 1 : d[i] = c[i]
        /\ Last(c) = c[Len(c)]
        /\ Confirmed(d) = Below(c, Len(c))
        /\ Confirmed(c) = Confirmed(d) \cup ToSet(Last(c))
    BY <1>0, FrontIs
  <1> HIDE DEF d
  <1>2. Len(c) \in DOMAIN c /\ DOMAIN c = 1 .. Len(c) /\ DOMAIN d = 1 .. Len(d)
    BY <1>0, <1>1
  <1>3. Sound(Confirmed(d), Len(c), Last(c))
    <2>1. Sound(Below(c, Len(c)), Len(c), c[Len(c)])
      BY <1>2 DEF ChainOk
    <2> QED BY <1>1, <2>1
  <1>4. ASSUME NEW n \in DOMAIN d
        PROVE  Sound(Below(d, n), n, d[n])
    <2>1. n \in DOMAIN c /\ d[n] = c[n] /\ n \in Nat
      BY <1>1, <1>2
    <2>2. Below(d, n) = Below(c, n)
      <3>1. \A i \in 1 .. n - 1 : d[i] = c[i]
        BY <1>1, <1>2
      <3> QED BY <2>1, <3>1, BelowSame
    <2>3. Sound(Below(c, n), n, c[n])
      BY <2>1 DEF ChainOk
    <2> QED BY <2>1, <2>2, <2>3
  <1>5. Len(d) <= MaxHeight
    BY <1>0, <1>1
  <1>6. ChainOk(d)
    BY <1>1, <1>4, <1>5 DEF ChainOk
  <1> QED BY <1>1, <1>3, <1>6 DEF d

\* What a transaction of the chain spends comes from the chain.
LEMMA ChainClosed ==
    ASSUME NEW c, ChainOk(c), NEW u \in Confirmed(c), NEW o \in Vin[u]
    PROVE  o \in Base \/ o[1] \in Confirmed(c)
  <1>1. PICK n \in DOMAIN c : u \in ToSet(c[n])
    BY DEF Confirmed
  <1>2. PICK i \in DOMAIN c[n] : u = c[n][i]
    BY <1>1 DEF ToSet
  <1>3. Sound(Below(c, n), n, c[n])
    BY DEF ChainOk
  <1>4. o \in Base \/ o[1] \in Below(c, n) \/ \E j \in DOMAIN c[n] : j < i /\ o[1] = c[n][j]
    BY <1>2, <1>3 DEF Sound
  <1>5. Below(c, n) \subseteq Confirmed(c)
    <2>1. c \in Seq(Seq(Tx))
      BY DEF ChainOk
    <2>2. \A k \in 1 .. n - 1 : k \in DOMAIN c
      BY <2>1
    <2> QED BY <2>2 DEF Below, Confirmed
  <1>6. ToSet(c[n]) \subseteq Confirmed(c)
    BY DEF Confirmed
  <1> QED BY <1>4, <1>5, <1>6 DEF ToSet

\* What is confirmed is one of the transactions.
LEMMA ConfirmedInTx ==
    ASSUME NEW c, ChainOk(c)
    PROVE  Confirmed(c) \subseteq Tx
  <1>1. c \in Seq(Seq(Tx))
    BY DEF ChainOk
  <1>2. ASSUME NEW n \in DOMAIN c
        PROVE  ToSet(c[n]) \subseteq Tx
    <2>1. c[n] \in Seq(Tx)
      BY <1>1
    <2> QED BY <2>1 DEF ToSet
  <1> QED BY <1>2 DEF Confirmed

\* What is left unspent was not spent, and comes from Base or from a confirmed transaction.
LEMMA LeftIs ==
    ASSUME NEW C, NEW o \in Left(C)
    PROVE  o \notin Spent(C) /\ (o \in Base \/ o[1] \in C)
  BY DEF Left, Outputs, Spent

-----------------------------------------------------------------------------
\* A transaction that is accepted outside a reorganisation.
LEMMA AcceptSettled ==
    ASSUME NEW m, NEW c, ChainOk(c), Settled(m, Confirmed(c)), NEW t \in Tx, NEW h,
           Acceptable(m, c, h, t)
    PROVE  /\ Settled(Accepted(m, t), Confirmed(c))
           /\ Pool(Accepted(m, t)) = Pool(Cleared(m, t)) \cup {t}
  <1> DEFINE C == Confirmed(c)
             n == Cleared(m, t)
             r == Accepted(m, t)
             B == CalculateMemPoolAncestors(m, t)
             T == Conflicts(m, t)
             S == CalculateDescendants(m, T)
  <1>0. Kept(m, {}, {}) /\ Exact(m) /\ Sourced(m, C) /\ Shape(m) /\ Spending(m)
    BY DEF Settled, Kept
  <1>1. /\ t \notin Pool(m) /\ ~ IsCoinBase(t) /\ T \cap B = {}
        /\ \A o \in Vin[t] : o[1] \in Pool(m) \/ o \in Unspent(c)
    BY DEF Acceptable, InputsOk
  <1>2. T \in SUBSET Pool(m)
    BY <1>0, ConflictsIn
  <1>3. /\ Kept(n, {}, {}) /\ Exact(n) /\ Pool(n) = Pool(m) \ S
        /\ \A o \in Vin[t] : o \notin DOMAIN n.mapNextTx
    BY <1>0, ClearedIs
  <1>4. Sourced(n, C) /\ Pool(n) \subseteq Pool(m)
    <2> HIDE DEF T
    <2>1. Settled(RemoveStaged(m, CalculateDescendants(m, T)), C)
          /\ Pool(RemoveStaged(m, CalculateDescendants(m, T))) \subseteq Pool(m) \ T
      BY <1>2, RemoveSettled
    <2> QED BY <2>1 DEF Cleared, T, Settled
  <1> HIDE DEF n, B, T, S, C
  <1>5. C \subseteq Tx
    BY ConfirmedInTx DEF C
  <1>6. \A o \in Vin[t] : o \notin Spent(C) /\ (o[1] \in Pool(m) \/ o \in Base \/ o[1] \in C)
    <2>1. ASSUME NEW o \in Vin[t], o[1] \in Pool(m), o \in Spent(C)
          PROVE  FALSE
      <3>1. PICK v \in C : o \in Vin[v]
        BY <2>1 DEF Spent
      <3>2. o \in Base \/ o[1] \in C
        BY <3>1, ChainClosed DEF C
      <3>3. o[1] \in Tx /\ o[1] \notin C
        BY <1>0, <2>1 DEF Shape, Sourced
      <3> QED BY <3>2, <3>3, HashAssumption
    <2>2. \A o \in Vin[t] : o \in Unspent(c) => o \notin Spent(C) /\ (o \in Base \/ o[1] \in C)
      BY LeftIs DEF Unspent, C
    <2> QED BY <1>1, <2>1, <2>2
  <1>7. t \notin C
    <2>1. SUFFICES ASSUME t \in C PROVE FALSE
      OBVIOUS
    <2>2. Vin[t] # {}
      BY <1>1, TxAssumption DEF IsCoinBase
    <2>3. PICK o : o \in Vin[t]
      BY <2>2
    <2>4. o \in Spent(C)
      BY <2>1, <2>3 DEF Spent
    <2> QED BY <1>6, <2>3, <2>4
  <1>8. \A u \in Pool(n) : t \notin Parents(u)
    <2>1. ASSUME NEW u \in Pool(m), t \in Parents(u)
          PROVE  FALSE
      <3>1. PICK o \in Vin[u] : o[1] = t
        BY <2>1 DEF Parents
      <3>2. o[1] \in Pool(m) \/ o \in Base \/ o[1] \in C
        BY <1>0, <3>1 DEF Sourced
      <3> QED BY <1>1, <1>7, <3>1, <3>2, HashAssumption
    <2> QED BY <1>4, <2>1
  <1>9. t \notin Pool(n)
    BY <1>1, <1>4
  <1>10. MayEnter(n, {}, {}, t, {})
    BY <1>3, <1>8, <1>9 DEF MayEnter
  <1>11. /\ Kept(r, {} \cup {}, {} \cup {}) /\ Exact(r) /\ Pool(r) = Pool(n) \cup {t}
         /\ Parents(t) \cap Pool(m) \subseteq Pool(n)
    BY <1>0, <1>1, <1>10, AcceptedIs DEF n, B, T
  <1>12. Kept(r, {}, {})
    <2>1. {} \cup {} = {}
      OBVIOUS
    <2> QED BY <1>11, <2>1
  <1> HIDE DEF r
  <1>13. Sourced(r, C)
    <2>1. ASSUME NEW u \in Pool(n)
          PROVE  /\ u \notin C /\ ~ IsCoinBase(u)
                 /\ \A o \in Vin[u] : /\ o \notin Spent(C)
                                      /\ o[1] \in Pool(r) \/ o \in Base \/ o[1] \in C
      BY <1>4, <1>11 DEF Sourced
    <2>2. ASSUME NEW o \in Vin[t]
          PROVE  o \notin Spent(C) /\ (o[1] \in Pool(r) \/ o \in Base \/ o[1] \in C)
      <3>1. CASE o[1] \in Pool(m)
        <4>1. o[1] \in Parents(t)
          BY DEF Parents
        <4> QED BY <1>6, <1>11, <3>1, <4>1
      <3> QED BY <1>6, <3>1
    <2> QED BY <1>1, <1>7, <1>11, <2>1, <2>2 DEF Sourced
  <1> QED BY <1>11, <1>12, <1>13 DEF Settled, r, n, C

-----------------------------------------------------------------------------
\* A block is connected.

\* A block is the coinbase followed by the others.
LEMMA BlockIs ==
    ASSUME NEW v, v \in Seq(Tx), NEW x \in Tx
    PROVE  LET b == <<x>> \o v
           IN  /\ b \in Seq(Tx) /\ Len(b) = Len(v) + 1 /\ DOMAIN b = 1 .. Len(v) + 1
               /\ b[1] = x /\ \A i \in 2 .. Len(v) + 1 : b[i] = v[i - 1]
               /\ Len(v) \in Nat
  <1> DEFINE a == <<x>>
  <1>1. a \in Seq(Tx) /\ Len(a) = 1 /\ a[1] = x
    OBVIOUS
  <1> HIDE DEF a
  <1> DEFINE b == a \o v
  <1>2. /\ b \in Seq(Tx) /\ Len(b) = Len(a) + Len(v)
        /\ \A i \in 1 .. Len(a) + Len(v) : b[i] = IF i <= Len(a) THEN a[i] ELSE v[i - Len(a)]
    BY <1>1, ConcatProperties
  <1>3. Len(v) \in Nat
    OBVIOUS
  <1> HIDE DEF b
  <1>4. Len(b) = Len(v) + 1 /\ DOMAIN b = 1 .. Len(v) + 1
    BY <1>1, <1>2, <1>3
  <1>5. \A i \in 1 .. Len(v) + 1 : b[i] = IF i <= 1 THEN a[i] ELSE v[i - 1]
    BY <1>1, <1>2, <1>3
  <1>6. b[1] = x /\ \A i \in 2 .. Len(v) + 1 : b[i] = v[i - 1]
    BY <1>1, <1>3, <1>5
  <1> QED BY <1>2, <1>3, <1>4, <1>6 DEF a, b

\* The transactions in front of the i-th of a block.
Until(v, i) == {v[j] : j \in 1 .. i - 1}

\* The blocks of ConnectTip are sound on top of the chain.
LEMMA BlockSound ==
    ASSUME ChainOk(chain), Len(chain) < MaxHeight,
           NEW S \in SUBSET (Tx \ ToSet(CoinBase)), NEW vtx \in SetToSeqs(S), ValidBlock(vtx)
    PROVE  Sound(Confirmed(chain), Len(chain) + 1, <<CoinBase[Len(chain) + 1]>> \o vtx)
  <1> DEFINE h == Len(chain) + 1
             b == <<CoinBase[h]>> \o vtx
             C == Confirmed(chain)
  <1>1. Len(chain) \in Nat /\ h \in Nat /\ h \in DOMAIN CoinBase /\ CoinBase[h] \in Tx /\ h = Len(chain) + 1
    <2>1. Len(chain) \in Nat
      BY DEF ChainOk
    <2>2. CoinBase \in Seq(Tx) /\ Len(CoinBase) = MaxHeight /\ MaxHeight \in Nat
      BY TxAssumption, BoundAssumption
    <2> QED BY <2>1, <2>2
  <1>2. /\ vtx \in [1 .. Cardinality(S) -> S]
        /\ \A i, j \in 1 .. Cardinality(S) : i # j => vtx[i] # vtx[j]
        /\ Cardinality(S) \in Nat
    <2>1. S \subseteq Tx
      OBVIOUS
    <2>2. Cardinality(S) \in Nat
      BY <2>1, TxAssumption, FewerElements
    <2> QED BY <2>2 DEF SetToSeqs
  <1>3. vtx \in Seq(Tx) /\ Len(vtx) = Cardinality(S) /\ DOMAIN vtx = 1 .. Len(vtx)
    BY <1>2
  <1>4. \A i \in DOMAIN vtx : vtx[i] \in Tx /\ ~ IsCoinBase(vtx[i])
    BY <1>2, <1>3 DEF IsCoinBase
  <1>5. \A i, j \in DOMAIN vtx : i # j => vtx[i] # vtx[j]
    BY <1>2, <1>3
  <1> HIDE DEF h
  <1>6. /\ b \in Seq(Tx) /\ Len(b) = Len(vtx) + 1 /\ DOMAIN b = 1 .. Len(vtx) + 1
        /\ b[1] = CoinBase[h] /\ \A i \in 2 .. Len(vtx) + 1 : b[i] = vtx[i - 1]
        /\ Len(vtx) \in Nat
    BY <1>1, <1>3, BlockIs
  <1> HIDE DEF b
  <1>7. IsCoinBase(CoinBase[h]) /\ Vin[CoinBase[h]] = {}
    <2>1. IsCoinBase(CoinBase[h])
      BY <1>1 DEF IsCoinBase, ToSet
    <2>2. \A t \in Tx : Vin[t] = {} <=> IsCoinBase(t)
      BY TxAssumption DEF IsCoinBase
    <2> QED BY <1>1, <2>1, <2>2
  <1>8. CoinBase[h] \notin C
    <2>1. SUFFICES ASSUME CoinBase[h] \in C PROVE FALSE
      OBVIOUS
    <2>2. PICK n \in DOMAIN chain : CoinBase[h] \in ToSet(chain[n])
      BY <2>1 DEF Confirmed
    <2>3. PICK i \in DOMAIN chain[n] : CoinBase[h] = chain[n][i]
      BY <2>2 DEF ToSet
    <2>4. Sound(Below(chain, n), n, chain[n])
      BY DEF ChainOk
    <2>5. i = 1
      BY <1>7, <2>3, <2>4 DEF Sound
    <2>6. CoinBase[h] = CoinBase[n]
      BY <2>3, <2>4, <2>5 DEF Sound
    <2>7. n \in 1 .. Len(chain)
      BY DEF ChainOk
    <2>8. n \in DOMAIN CoinBase /\ n # h
      <3>1. DOMAIN CoinBase = 1 .. MaxHeight /\ MaxHeight \in Nat
        BY TxAssumption, BoundAssumption
      <3> QED BY <1>1, <2>7, <3>1
    <2> QED BY <1>1, <2>6, <2>8, HashAssumption
  <1>9. ASSUME NEW i \in DOMAIN vtx, NEW o \in Vin[vtx[i]]
        PROVE  /\ o \notin Spent(C) /\ \A j \in 1 .. i - 1 : o \notin Vin[vtx[j]]
               /\ o \in Base \/ o[1] \in C \/ \E j \in 1 .. i - 1 : o[1] = vtx[j]
    <2> DEFINE D == C \cup Until(vtx, i)
    <2>1. o \in Left(D)
      BY <1>9 DEF ValidBlock, Until, C
    <2> HIDE DEF D
    <2>2. o \notin Spent(D) /\ (o \in Base \/ o[1] \in D)
      BY <2>1, LeftIs
    <2>3. \A u \in D : o \notin Vin[u]
      BY <2>2 DEF Spent
    <2>4. \A u : u \in D <=> u \in C \/ \E j \in 1 .. i - 1 : u = vtx[j]
      BY DEF D, Until
    <2>5. o \notin Spent(C)
      BY <2>3, <2>4 DEF Spent
    <2> QED BY <2>2, <2>3, <2>4, <2>5
  <1>10. ASSUME NEW i \in DOMAIN vtx
         PROVE  vtx[i] \notin C
    <2>0. Vin[vtx[i]] # {}
      BY <1>4, TxAssumption DEF IsCoinBase
    <2>1. PICK o : o \in Vin[vtx[i]]
      BY <2>0
    <2>2. o \notin Spent(C)
      BY <1>9, <2>1
    <2> QED BY <2>1, <2>2 DEF Spent
  <1>11. \A i \in DOMAIN b : i # 1 => i \in 2 .. Len(vtx) + 1 /\ i - 1 \in DOMAIN vtx /\ b[i] = vtx[i - 1]
    BY <1>3, <1>6
  <1>12. \A i, j \in DOMAIN vtx : i # j => Vin[vtx[j]] \cap Vin[vtx[i]] = {}
    <2>1. \A i, j \in DOMAIN vtx : j < i => Vin[vtx[j]] \cap Vin[vtx[i]] = {}
      <3>1. ASSUME NEW i \in DOMAIN vtx, NEW j \in DOMAIN vtx, j < i
            PROVE  Vin[vtx[j]] \cap Vin[vtx[i]] = {}
        <4>1. j \in 1 .. i - 1
          BY <1>3, <1>6, <3>1
        <4> QED BY <1>9, <4>1
      <3> QED BY <3>1
    <2>2. \A i, j \in DOMAIN vtx : i # j => i < j \/ j < i
      BY <1>3
    <2> QED BY <2>1, <2>2
  <1>13. ASSUME NEW i \in DOMAIN b
         PROVE  /\ i # 1 => ~ IsCoinBase(b[i])
                /\ b[i] \notin C
                /\ \A j \in DOMAIN b : j # i => b[j] # b[i] /\ Vin[b[j]] \cap Vin[b[i]] = {}
                /\ \A o \in Vin[b[i]] :
                      /\ o \notin Spent(C)
                      /\ o \in Base \/ o[1] \in C \/ \E j \in DOMAIN b : j < i /\ o[1] = b[j]
    <2>1. CASE i = 1
      <3>1. \A j \in DOMAIN b : j # i => b[j] # b[i]
        BY <1>4, <1>6, <1>7, <1>11, <2>1
      <3> QED BY <1>6, <1>7, <1>8, <2>1, <3>1
    <2>2. CASE i # 1
      <3>1. i - 1 \in DOMAIN vtx /\ b[i] = vtx[i - 1] /\ i \in Nat
        BY <1>6, <1>11, <2>2
      <3>2. ~ IsCoinBase(b[i]) /\ b[i] \notin C
        BY <1>4, <1>10, <3>1
      <3>3. ASSUME NEW j \in DOMAIN b, j # i
            PROVE  b[j] # b[i] /\ Vin[b[j]] \cap Vin[b[i]] = {}
        <4>1. CASE j = 1
          BY <1>6, <1>7, <3>2, <4>1
        <4>2. CASE j # 1
          <5>1. j - 1 \in DOMAIN vtx /\ b[j] = vtx[j - 1] /\ j - 1 # i - 1
            BY <1>6, <1>11, <3>1, <3>3, <4>2
          <5> QED BY <1>5, <1>12, <3>1, <5>1
        <4> QED BY <4>1, <4>2
      <3>4. ASSUME NEW o \in Vin[b[i]]
            PROVE  /\ o \notin Spent(C)
                   /\ o \in Base \/ o[1] \in C \/ \E j \in DOMAIN b : j < i /\ o[1] = b[j]
        <4>1. /\ o \notin Spent(C)
              /\ o \in Base \/ o[1] \in C \/ \E j \in 1 .. (i - 1) - 1 : o[1] = vtx[j]
          BY <1>9, <3>1
        <4>2. ASSUME NEW j \in 1 .. (i - 1) - 1, o[1] = vtx[j]
              PROVE  \E k \in DOMAIN b : k < i /\ o[1] = b[k]
          <5>1. j + 1 \in DOMAIN b /\ j + 1 < i /\ j + 1 # 1 /\ (j + 1) - 1 = j
            BY <1>6, <3>1
          <5>2. b[j + 1] = vtx[j]
            BY <1>11, <5>1
          <5> QED BY <4>2, <5>1, <5>2
        <4> QED BY <4>1, <4>2
      <3> QED BY <3>2, <3>3, <3>4
    <2> QED BY <2>1, <2>2
  <1>14. Len(b) >= 1
    BY <1>6
  <1> HIDE DEF C
  <1>15. Sound(C, h, b)
    BY <1>6, <1>13, <1>14 DEF Sound
  <1> QED BY <1>15 DEF C, h, b

\* ClearPrioritisation of transactions that are not in the pool changes nothing in it.
LEMMA ClearKeeps ==
    ASSUME NEW m, NEW U, NEW I, Kept(m, U, I), Exact(m), NEW S, S \cap Pool(m) = {}
    PROVE  LET n == ClearPrioritisation(m, S)
           IN  Kept(n, U, I) /\ Exact(n) /\ Pool(n) = Pool(m)
  <1> DEFINE n == ClearPrioritisation(m, S)
  <1>0. Shape(m) /\ Spending(m) /\ Links(m, U, I) /\ Priced(m)
    BY DEF Kept
  <1>1. /\ n.mapTx = m.mapTx /\ n.mapNextTx = m.mapNextTx
        /\ n.mapDeltas = [t \in Tx |-> IF t \in S THEN 0 ELSE m.mapDeltas[t]]
    BY DEF ClearPrioritisation
  <1> HIDE DEF n
  <1>2. Pool(n) = Pool(m)
    BY <1>1 DEF Pool
  <1>3. Shape(n)
    BY <1>0, <1>1, <1>2 DEF Shape
  <1>4. Spending(n) /\ Links(n, U, I)
    BY <1>0, <1>1, <1>2 DEF Spending, Links
  <1>5. Priced(n)
    <2>1. \A t \in Pool(m) : t \in Tx /\ t \notin S
      BY <1>0 DEF Shape
    <2> QED BY <1>0, <1>1, <1>2, <2>1 DEF Priced, ModifiedFee
  <1>6. ChildLinks(n) = ChildLinks(m) /\ Mods(n) = Mods(m)
    BY <1>1, <1>2 DEF ChildLinks, Mods
  <1>7. \A t : Desc(n, t) = Desc(m, t)
    BY <1>6 DEF Desc
  <1>8. Exact(n)
    BY <1>1, <1>2, <1>6, <1>7 DEF Exact
  <1> QED BY <1>2, <1>3, <1>4, <1>5, <1>8 DEF Kept, n

\* t may be the next transaction of a chain with the transactions C.
Follows(C, t) ==
    /\ t \in Tx /\ t \notin C
    /\ \A o \in Vin[t] : o \notin Spent(C) /\ (o \in Base \/ o[1] \in C)

\* What is spent with one more transaction confirmed.
LEMMA SpentAdd ==
    ASSUME NEW C, NEW t, NEW o
    PROVE  o \in Spent(C \cup {t}) <=> o \in Spent(C) \/ o \in Vin[t]
  BY DEF Spent

\* One transaction of a block: it leaves the pool, and so does what is in conflict with it.
LEMMA RemoveInBlockSettled ==
    ASSUME NEW m, NEW C, Settled(m, C), NEW t, Follows(C, t), NEW kept
    PROVE  /\ Settled(removeInBlock(m, t, kept), C \cup {t})
           /\ Pool(removeInBlock(m, t, kept)) \subseteq Pool(m)
  <1> DEFINE S == {t} \cap Pool(m)
             n == RemoveStaged(m, S)
             T == Conflicts(n, t) \ {t}
             R == CalculateDescendants(n, T)
             q == RemoveStaged(n, R)
             u == ClearPrioritisation(q, T \ kept)
             r == ClearPrioritisation(u, {t})
  <1>0. Kept(m, {}, {}) /\ Exact(m) /\ Sourced(m, C) /\ Shape(m)
    BY DEF Settled, Kept
  <1>1. r = removeInBlock(m, t, kept)
    BY DEF removeInBlock, removeConflicts, removeOne
  <1>2. S \in SUBSET Pool(m) /\ Whole(m, S)
    <2>1. ASSUME t \in Pool(m)
          PROVE  ParentLinks(m)[t] = {}
      <3>1. ASSUME NEW x \in ParentLinks(m)[t]
            PROVE  FALSE
        <4>1. x \in Pool(m) /\ x \in Parents(t)
          BY <1>0, <2>1, <3>1, LinksInPool DEF Kept, Linked
        <4>2. PICK o \in Vin[t] : o[1] = x
          BY <4>1 DEF Parents
        <4>3. x \in Tx /\ x \notin C
          BY <1>0, <4>1 DEF Shape, Sourced
        <4> QED BY <4>2, <4>3, HashAssumption DEF Follows
      <3> QED BY <3>1
    <2> QED BY <2>1 DEF Whole
  <1> HIDE DEF S
  <1>3. Kept(n, {}, {}) /\ Exact(n) /\ Pool(n) = Pool(m) \ S
    BY <1>0, <1>2, RemoveKeeps, RemoveExact, RemovedFields
  <1>4. Pool(n) = Pool(m) \ {t}
    BY <1>3 DEF S
  <1> HIDE DEF n
  <1>5. Conflicts(n, t) = {x \in Pool(n) : Vin[x] \cap Vin[t] # {}}
    BY <1>3, ConflictsAre DEF Kept
  <1>6. T \in SUBSET Pool(n) /\ \A x \in Pool(n) : Vin[x] \cap Vin[t] # {} => x \in T
    BY <1>4, <1>5
  <1> HIDE DEF T
  <1>7. /\ T \subseteq R /\ R \in SUBSET Pool(n) /\ Whole(n, R)
        /\ \A x \in R : ChildLinks(n)[x] \subseteq R
    BY <1>3, <1>6, DescendantsFacts
  <1> HIDE DEF R
  <1>8. Kept(q, {}, {}) /\ Exact(q) /\ Pool(q) = Pool(n) \ R
    BY <1>3, <1>7, RemoveKeeps, RemoveExact, RemovedFields
  <1> HIDE DEF q
  <1>9. Kept(u, {}, {}) /\ Exact(u) /\ Pool(u) = Pool(q)
    <2>1. (T \ kept) \cap Pool(q) = {}
      BY <1>7, <1>8
    <2> QED BY <1>8, <2>1, ClearKeeps
  <1> HIDE DEF u
  <1>10. Kept(r, {}, {}) /\ Exact(r) /\ Pool(r) = Pool(u)
    <2>1. {t} \cap Pool(u) = {}
      BY <1>4, <1>8, <1>9
    <2> QED BY <1>9, <2>1, ClearKeeps
  <1> HIDE DEF r
  <1>11. Pool(r) = (Pool(m) \ {t}) \ R
    BY <1>4, <1>8, <1>9, <1>10
  <1>12. Sourced(r, C \cup {t})
    <2>1. ASSUME NEW x \in Pool(r)
          PROVE  /\ x \notin C \cup {t} /\ ~ IsCoinBase(x)
                 /\ \A o \in Vin[x] : /\ o \notin Spent(C \cup {t})
                                      /\ o[1] \in Pool(r) \/ o \in Base \/ o[1] \in C \cup {t}
      <3>1. x \in Pool(m) /\ x # t /\ x \notin R /\ x \in Pool(n)
        BY <1>4, <1>11
      <3>2. ASSUME NEW o \in Vin[x]
            PROVE  /\ o \notin Spent(C \cup {t})
                   /\ o[1] \in Pool(r) \/ o \in Base \/ o[1] \in C \cup {t}
        <4>1. o \notin Spent(C) /\ (o[1] \in Pool(m) \/ o \in Base \/ o[1] \in C)
          BY <1>0, <3>1 DEF Sourced
        <4>2. o \notin Vin[t]
          BY <1>6, <1>7, <3>1
        <4>3. o[1] \notin R
          <5>1. SUFFICES ASSUME o[1] \in R PROVE FALSE
            OBVIOUS
          <5>2. o[1] \in Parents(x) /\ o[1] \in Pool(n)
            BY <1>7, <5>1 DEF Parents
          <5>3. x \in ChildLinks(n)[o[1]]
            BY <1>3, <3>1, <5>2, LinksInPool DEF Kept, Linked
          <5> QED BY <1>7, <3>1, <5>1, <5>3
        <4> QED BY <1>11, <4>1, <4>2, <4>3, SpentAdd
      <3> QED BY <1>0, <3>1, <3>2 DEF Sourced
    <2> QED BY <2>1 DEF Sourced
  <1> QED BY <1>1, <1>10, <1>11, <1>12 DEF Settled

\* The front part of a block grows by one transaction at a time.
LEMMA UntilIs ==
    ASSUME NEW b, b \in Seq(Tx)
    PROVE  /\ Until(b, 1) = {} /\ Until(b, Len(b) + 1) = ToSet(b)
           /\ \A i \in DOMAIN b : Until(b, i + 1) = Until(b, i) \cup {b[i]}
  <1>1. DOMAIN b = 1 .. Len(b) /\ Len(b) \in Nat
    OBVIOUS
  <1>2. Until(b, 1) = {}
    <2>1. 1 .. 1 - 1 = {}
      OBVIOUS
    <2> QED BY <2>1 DEF Until
  <1>3. Until(b, Len(b) + 1) = ToSet(b)
    <2>1. 1 .. (Len(b) + 1) - 1 = DOMAIN b
      BY <1>1
    <2> QED BY <2>1 DEF Until, ToSet
  <1>4. ASSUME NEW i \in DOMAIN b
        PROVE  Until(b, i + 1) = Until(b, i) \cup {b[i]}
    <2>1. \A j : j \in 1 .. (i + 1) - 1 <=> j \in 1 .. i - 1 \/ j = i
      BY <1>1
    <2> QED BY <2>1 DEF Until
  <1> QED BY <1>2, <1>3, <1>4

\* Each transaction of a sound block follows the chain with those in front of it.
LEMMA SoundFollows ==
    ASSUME NEW C, NEW h, NEW b, Sound(C, h, b), NEW i \in DOMAIN b
    PROVE  Follows(C \cup Until(b, i), b[i])
  <1>0. b \in Seq(Tx) /\ DOMAIN b = 1 .. Len(b) /\ Len(b) \in Nat
    BY DEF Sound
  <1>1. b[i] \in Tx
    BY <1>0
  <1>2. \A j \in 1 .. i - 1 : j \in DOMAIN b /\ j # i
    BY <1>0
  <1>3. b[i] \notin C \cup Until(b, i)
    BY <1>2 DEF Sound, Until
  <1>4. ASSUME NEW o \in Vin[b[i]]
        PROVE  /\ o \notin Spent(C \cup Until(b, i))
               /\ o \in Base \/ o[1] \in C \cup Until(b, i)
    <2>1. /\ o \notin Spent(C)
          /\ o \in Base \/ o[1] \in C \/ \E j \in DOMAIN b : j < i /\ o[1] = b[j]
      BY DEF Sound
    <2>2. \A j \in 1 .. i - 1 : o \notin Vin[b[j]]
      BY <1>2 DEF Sound
    <2>3. o \notin Spent(C \cup Until(b, i))
      BY <2>1, <2>2 DEF Spent, Until
    <2>4. ASSUME NEW j \in DOMAIN b, j < i, o[1] = b[j]
          PROVE  o[1] \in Until(b, i)
      <3>1. j \in 1 .. i - 1
        BY <1>0, <2>4
      <3> QED BY <2>4, <3>1 DEF Until
    <2> QED BY <2>1, <2>3, <2>4
  <1> QED BY <1>1, <1>3, <1>4 DEF Follows

\* The rounds of removeForBlock.
Removals(m, b, kept, n, f) ==
    f = [i \in 0 .. n |-> IF i = 0 THEN m ELSE removeInBlock(f[i - 1], b[i], kept)]

\* The function inside removeForBlock exists for any number of rounds.
LEMMA RemovalsExist ==
    ASSUME NEW m, NEW b, NEW kept, NEW n \in Nat
    PROVE  \E f : Removals(m, b, kept, n, f)
  <1> DEFINE H == {k \in Nat : \E f : Removals(m, b, kept, k, f)}
  <1>1. 0 \in H
    <2>1. Removals(m, b, kept, 0, [i \in 0 .. 0 |-> m])
      BY DEF Removals
    <2> QED BY <2>1
  <1>2. ASSUME NEW k \in 0 .. n, k # n, k \in H
        PROVE  k + 1 \in H
    <2>1. PICK f : Removals(m, b, kept, k, f)
      BY <1>2
    <2> DEFINE Term(i) == IF i = 0 THEN m ELSE removeInBlock(f[i - 1], b[i], kept)
               g == [i \in 0 .. k + 1 |-> Term(i)]
    <2>2. f = [i \in 0 .. k |-> Term(i)]
      BY <2>1 DEF Removals
    <2> HIDE DEF Term
    <2>3. \A i \in 0 .. k : g[i] = f[i]
      BY <2>2
    <2>4. \A i \in 0 .. k + 1 : i # 0 => g[i - 1] = f[i - 1]
      BY <2>3
    <2>5. \A i \in 0 .. k + 1 :
             Term(i) = IF i = 0 THEN m ELSE removeInBlock(g[i - 1], b[i], kept)
      BY <2>4 DEF Term
    <2>6. Removals(m, b, kept, k + 1, g)
      BY <2>5 DEF Removals
    <2> QED BY <2>6
  <1> HIDE DEF H
  <1>3. n \in H
    BY <1>1, <1>2, Climb
  <1> QED BY <1>3 DEF H

\* removeForBlock adds nothing to the pool and leaves it settled with the longer chain.
LEMMA RemoveForBlockSettled ==
    ASSUME NEW m, NEW C, Settled(m, C), NEW h, NEW b, Sound(C, h, b), NEW kept
    PROVE  /\ Settled(removeForBlock(m, b, kept), C \cup ToSet(b))
           /\ Pool(removeForBlock(m, b, kept)) \subseteq Pool(m)
  <1> DEFINE k == Len(b)
             f == CHOOSE f : Removals(m, b, kept, k, f)
             Good(i) == /\ Settled(f[i], C \cup Until(b, i + 1))
                        /\ Pool(f[i]) \subseteq Pool(m)
             H == {i \in Nat : Good(i)}
  <1>1. k \in Nat /\ b \in Seq(Tx) /\ DOMAIN b = 1 .. k
    BY DEF Sound
  <1>2. Removals(m, b, kept, k, f)
    BY <1>1, RemovalsExist
  <1>3. removeForBlock(m, b, kept) = f[k]
    BY DEF removeForBlock, Removals
  <1>4. /\ Until(b, 1) = {} /\ Until(b, k + 1) = ToSet(b)
        /\ \A i \in DOMAIN b : Until(b, i + 1) = Until(b, i) \cup {b[i]}
    BY <1>1, UntilIs
  <1> HIDE DEF f, k
  <1>5. f[0] = m
    BY <1>1, <1>2 DEF Removals
  <1>6. 0 \in H
    <2>1. 0 + 1 = 1 /\ C \cup Until(b, 1) = C
      BY <1>4
    <2>2. C \cup Until(b, 0 + 1) = C
      BY <2>1
    <2> QED BY <1>5, <2>2
  <1>7. ASSUME NEW i \in 0 .. k, i # k, i \in H
        PROVE  i + 1 \in H
    <2>0. i + 1 \in 0 .. k /\ i + 1 # 0 /\ (i + 1) - 1 = i /\ i + 1 \in DOMAIN b /\ i + 1 \in Nat
      BY <1>1, <1>7
    <2>1. f[i + 1] = removeInBlock(f[i], b[i + 1], kept)
      BY <1>2, <2>0 DEF Removals
    <2> DEFINE D == C \cup Until(b, i + 1)
               t == b[i + 1]
    <2>2. Settled(f[i], D) /\ Pool(f[i]) \subseteq Pool(m)
      BY <1>7
    <2>3. Follows(D, t)
      BY <2>0, SoundFollows
    <2>4. C \cup Until(b, (i + 1) + 1) = D \cup {t}
      BY <1>4, <2>0
    <2> HIDE DEF D, t
    <2>5. /\ Settled(removeInBlock(f[i], t, kept), D \cup {t})
          /\ Pool(removeInBlock(f[i], t, kept)) \subseteq Pool(f[i])
      BY <2>2, <2>3, RemoveInBlockSettled
    <2>6. Settled(f[i + 1], D \cup {t}) /\ Pool(f[i + 1]) \subseteq Pool(m)
      BY <2>1, <2>2, <2>5 DEF t
    <2>7. Good(i + 1)
      BY <2>4, <2>6
    <2> HIDE DEF Good
    <2> QED BY <2>0, <2>7
  <1>8. k \in H
    <2> HIDE DEF H
    <2> QED BY <1>1, <1>6, <1>7, Climb
  <1>9. Settled(f[k], C \cup Until(b, k + 1)) /\ Pool(f[k]) \subseteq Pool(m)
    BY <1>8
  <1> QED BY <1>3, <1>4, <1>9

-----------------------------------------------------------------------------
\* A block is disconnected: its transactions come back, or their spenders leave.

\* No transaction of v is a parent of an earlier one.
Ordered(v) == \A p, q \in DOMAIN v : p < q => v[p] # v[q] /\ v[q] \notin Parents(v[p])

\* Inside the loop of DisconnectTip: D was gone through, C is the chain with what is left.
Returning(x, C, D) ==
    /\ x.vHashUpdate \in Seq(Tx) /\ Ordered(x.vHashUpdate)
    /\ Kept(x.pool, ToSet(x.vHashUpdate), ToSet(x.vHashUpdate))
    /\ Exact(x.pool) /\ Sourced(x.pool, C)
    /\ ToSet(x.vHashUpdate) \subseteq Pool(x.pool) \cap D
    /\ Pool(x.pool) \cap D \subseteq ToSet(x.vHashUpdate)
    /\ \A y \in ToSet(x.vHashUpdate) : Parents(y) \cap Pool(x.pool) \subseteq ToSet(x.vHashUpdate)

\* t is next: C0 is the chain below the block, D was gone through and C is left.
Returns(C0, C, D, t) ==
    /\ t \in Tx /\ t \notin C /\ t \notin D /\ C0 \subseteq C
    /\ \A o \in Vin[t] : o \notin Spent(C) /\ (o \in Base \/ o[1] \in C0 \/ o[1] \in D)
    /\ \A y \in D : t \notin Parents(y)

\* vHashUpdate with one more transaction.
LEMMA AppendOne ==
    ASSUME NEW v, v \in Seq(Tx), NEW t \in Tx
    PROVE  /\ Append(v, t) \in Seq(Tx) /\ ToSet(Append(v, t)) = ToSet(v) \cup {t}
           /\ Len(v) \in Nat /\ DOMAIN v = 1 .. Len(v) /\ DOMAIN Append(v, t) = 1 .. Len(v) + 1
           /\ \A i \in 1 .. Len(v) : Append(v, t)[i] = v[i]
           /\ Append(v, t)[Len(v) + 1] = t
  <1> DEFINE w == Append(v, t)
  <1>1. /\ w \in Seq(Tx) /\ Len(v) \in Nat /\ DOMAIN v = 1 .. Len(v) /\ DOMAIN w = 1 .. Len(v) + 1
        /\ \A i \in 1 .. Len(v) : w[i] = v[i]
        /\ w[Len(v) + 1] = t
    OBVIOUS
  <1> HIDE DEF w
  <1>2. \A i : i \in DOMAIN w <=> i \in DOMAIN v \/ i = Len(v) + 1
    BY <1>1
  <1>3. ToSet(w) = ToSet(v) \cup {t}
    BY <1>1, <1>2 DEF ToSet
  <1> QED BY <1>1, <1>3 DEF w

\* vHashUpdate stays ordered with a transaction that nothing in it spends from.
LEMMA OrderedAppend ==
    ASSUME NEW v, v \in Seq(Tx), Ordered(v), NEW t \in Tx, t \notin ToSet(v),
           \A y \in ToSet(v) : t \notin Parents(y)
    PROVE  Ordered(Append(v, t))
  <1> DEFINE w == Append(v, t)
  <1>1. /\ Len(v) \in Nat /\ DOMAIN v = 1 .. Len(v) /\ DOMAIN w = 1 .. Len(v) + 1
        /\ \A i \in 1 .. Len(v) : w[i] = v[i]
        /\ w[Len(v) + 1] = t
    BY AppendOne
  <1> HIDE DEF w
  <1>2. ASSUME NEW p \in DOMAIN w, NEW q \in DOMAIN w, p < q
        PROVE  w[p] # w[q] /\ w[q] \notin Parents(w[p])
    <2>1. p \in 1 .. Len(v) /\ p \in DOMAIN v /\ w[p] = v[p] /\ v[p] \in ToSet(v)
      <3>1. p \in 1 .. Len(v)
        BY <1>1, <1>2
      <3> QED BY <1>1, <3>1 DEF ToSet
    <2>2. CASE q = Len(v) + 1
      BY <1>1, <2>1, <2>2
    <2>3. CASE q # Len(v) + 1
      <3>1. q \in 1 .. Len(v)
        BY <1>1, <2>3
      <3>2. q \in DOMAIN v /\ w[q] = v[q]
        BY <1>1, <3>1
      <3> QED BY <1>2, <2>1, <3>2 DEF Ordered
    <2> QED BY <2>2, <2>3
  <1>3. Ordered(w)
    BY <1>2 DEF Ordered
  <1> QED BY <1>3 DEF w

\* Nothing conflicts with a transaction of a block that is disconnected: no transaction of
\* the pool spends what the chain spent.
LEMMA NoneLeaves ==
    ASSUME NEW m, NEW U, NEW I, Kept(m, U, I)
    PROVE  CalculateDescendants(m, {}) = {}
  <1>1. {} \in SUBSET Pool(m)
    OBVIOUS
  <1> QED BY <1>1, DescendantsFacts

\* A transaction of the block that is accepted again: what else came back is its parents or
\* unrelated, and only older transactions of the pool can be its children.
LEMMA ReturnAccepted ==
    ASSUME NEW x, NEW C, NEW D, NEW t, NEW c, NEW h, Returning(x, C \cup {t}, D),
           Returns(Confirmed(c), C, D, t), Acceptable(x.pool, c, h, t)
    PROVE  Returning([pool |-> Accepted(x.pool, t), vHashUpdate |-> Append(x.vHashUpdate, t)],
                     C, D \cup {t})
  <1> DEFINE m == x.pool
             v == x.vHashUpdate
             I == ToSet(v)
             n == Cleared(m, t)
             r == Accepted(m, t)
             w == Append(v, t)
             W == {t}
  <1>0. /\ v \in Seq(Tx) /\ Ordered(v) /\ Kept(m, I, I) /\ Exact(m) /\ Sourced(m, C \cup {t})
        /\ I \subseteq Pool(m) \cap D /\ Pool(m) \cap D \subseteq I
        /\ \A y \in I : Parents(y) \cap Pool(m) \subseteq I
    BY DEF Returning
  <1>1. /\ t \in Tx /\ t \notin C /\ t \notin D /\ Confirmed(c) \subseteq C
        /\ \A o \in Vin[t] : o \notin Spent(C) /\ (o \in Base \/ o[1] \in Confirmed(c) \/ o[1] \in D)
        /\ \A y \in D : t \notin Parents(y)
    BY DEF Returns
  <1>2. /\ t \notin Pool(m) /\ ~ IsCoinBase(t)
        /\ Conflicts(m, t) \cap CalculateMemPoolAncestors(m, t) = {}
        /\ \A o \in Vin[t] : o[1] \in Pool(m) \/ o \in Unspent(c)
    BY DEF Acceptable, InputsOk
  <1>3. Conflicts(m, t) = {}
    <2>1. ASSUME NEW u \in Pool(m), NEW o, o \in Vin[u] \cap Vin[t]
          PROVE  FALSE
      <3>1. o \notin Spent(C \cup {t})
        BY <1>0, <2>1 DEF Sourced
      <3> QED BY <2>1, <3>1, SpentAdd
    <2> QED BY <1>0, <2>1, ConflictsAre DEF Kept
  <1>4. /\ Kept(n, I, I) /\ Exact(n) /\ Pool(n) = Pool(m)
        /\ \A o \in Vin[t] : o \notin DOMAIN n.mapNextTx
    <2>1. CalculateDescendants(m, Conflicts(m, t)) = {}
      BY <1>0, <1>3, NoneLeaves
    <2>2. /\ Kept(n, I, I) /\ Exact(n) /\ Pool(n) = Pool(m) \ CalculateDescendants(m, Conflicts(m, t))
          /\ \A o \in Vin[t] : o \notin DOMAIN n.mapNextTx
      BY <1>0, ClearedIs
    <2> QED BY <2>1, <2>2
  <1> HIDE DEF n, m, I, v
  <1>5. MayEnter(n, I, I, t, W)
    BY <1>0, <1>1, <1>2, <1>4 DEF MayEnter
  <1>6. /\ Kept(r, I \cup W, I \cup W) /\ Exact(r) /\ Pool(r) = Pool(n) \cup {t}
    BY <1>0, <1>2, <1>5, AcceptedIs DEF n
  <1>7. Pool(r) = Pool(m) \cup {t}
    BY <1>4, <1>6
  <1>8. w \in Seq(Tx) /\ ToSet(w) = I \cup W
    BY <1>0, <1>1, AppendOne DEF I
  <1>9. Ordered(w)
    BY <1>0, <1>1, OrderedAppend DEF I
  <1> HIDE DEF r, w
  <1>10. Sourced(r, C)
    <2>1. ASSUME NEW u \in Pool(m)
          PROVE  /\ u \notin C /\ ~ IsCoinBase(u)
                 /\ \A o \in Vin[u] : /\ o \notin Spent(C)
                                      /\ o[1] \in Pool(r) \/ o \in Base \/ o[1] \in C
      <3>1. /\ u \notin C \cup {t} /\ ~ IsCoinBase(u)
            /\ \A o \in Vin[u] : /\ o \notin Spent(C \cup {t})
                                 /\ o[1] \in Pool(m) \/ o \in Base \/ o[1] \in C \cup {t}
        BY <1>0 DEF Sourced
      <3> QED BY <1>7, <3>1, SpentAdd
    <2>2. ASSUME NEW o \in Vin[t]
          PROVE  o \notin Spent(C) /\ (o[1] \in Pool(r) \/ o \in Base \/ o[1] \in C)
      <3>1. o[1] \in Pool(m) \/ o \in Base \/ o[1] \in Confirmed(c)
        BY <1>2, LeftIs DEF Unspent
      <3> QED BY <1>1, <1>7, <3>1
    <2> QED BY <1>1, <1>2, <1>7, <2>1, <2>2 DEF Sourced
  <1>11. Parents(t) \cap Pool(m) \subseteq I
    <2>1. ASSUME NEW o \in Vin[t], o[1] \in Pool(m)
          PROVE  o[1] \in I
      <3>1. o[1] \in Tx /\ o[1] \notin C
        BY <1>0, <2>1 DEF Kept, Shape, Sourced
      <3>2. o[1] \in D
        BY <1>1, <3>1, HashAssumption
      <3> QED BY <1>0, <2>1, <3>2
    <2> QED BY <2>1 DEF Parents
  <1>12. \A y \in I \cup W : Parents(y) \cap Pool(r) \subseteq I \cup W
    BY <1>0, <1>7, <1>11
  <1>13. I \cup W \subseteq Pool(r) \cap (D \cup {t}) /\ Pool(r) \cap (D \cup {t}) \subseteq I \cup W
    BY <1>0, <1>2, <1>7
  <1> DEFINE y == [pool |-> r, vHashUpdate |-> w]
  <1>14. y.pool = r /\ y.vHashUpdate = w
    OBVIOUS
  <1> HIDE DEF y
  <1>15. Returning(y, C, D \cup {t})
    <2> HIDE DEF W
    <2> QED BY <1>6, <1>8, <1>9, <1>10, <1>12, <1>13, <1>14 DEF Returning
  <1> QED BY <1>15 DEF y, r, w, m, v

\* A transaction of the block that is refused: all that spends it leaves with its descendants,
\* none of which came back with the block.
LEMMA ReturnRefused ==
    ASSUME NEW x, NEW C, NEW D, NEW t, NEW C0, Returning(x, C \cup {t}, D),
           Returns(C0, C, D, t)
    PROVE  Returning([pool |-> removeRecursive(x.pool, t), vHashUpdate |-> x.vHashUpdate],
                     C, D \cup {t})
  <1> DEFINE m == x.pool
             v == x.vHashUpdate
             I == ToSet(v)
             T == Spenders(m, t)
             S == CalculateDescendants(m, T)
             r == RemoveStaged(m, S)
  <1>0. /\ v \in Seq(Tx) /\ Ordered(v) /\ Kept(m, I, I) /\ Exact(m) /\ Sourced(m, C \cup {t})
        /\ I \subseteq Pool(m) \cap D /\ Pool(m) \cap D \subseteq I
        /\ \A y \in I : Parents(y) \cap Pool(m) \subseteq I
    BY DEF Returning
  <1>1. /\ t \in Tx /\ t \notin C /\ t \notin D
        /\ \A y \in D : t \notin Parents(y)
    BY DEF Returns
  <1>2. t \notin Pool(m)
    BY <1>0 DEF Sourced
  <1>3. removeRecursive(m, t) = r
    BY <1>2 DEF removeRecursive
  <1>4. T = {u \in Pool(m) : t \in Parents(u)}
    BY <1>0, <1>1, SpendersAre DEF Kept
  <1> HIDE DEF T, I, m, v
  <1>5. T \in SUBSET Pool(m)
    BY <1>4
  <1>6. /\ T \subseteq S /\ S \in SUBSET Pool(m) /\ Whole(m, S)
        /\ \A y \in S : ChildLinks(m)[y] \subseteq S
        /\ \A Q \in SUBSET Pool(m) : T \subseteq Q /\ (\A y \in Q : ChildLinks(m)[y] \subseteq Q)
                                    => S \subseteq Q
    BY <1>0, <1>5, DescendantsFacts
  <1> HIDE DEF S
  <1>7. S \cap I = {}
    <2> DEFINE Q == Pool(m) \ I
    <2>1. T \subseteq Q
      BY <1>0, <1>1, <1>4
    <2>2. ASSUME NEW y \in Q
          PROVE  ChildLinks(m)[y] \subseteq Q
      <3>1. ASSUME NEW u \in ChildLinks(m)[y]
            PROVE  u \in Q
        <4>1. u \in Pool(m) /\ y \in Parents(u)
          BY <1>0, <2>2, <3>1, LinksInPool DEF Kept, Linked
        <4> QED BY <1>0, <2>2, <4>1
      <3> QED BY <3>1
    <2>3. S \subseteq Q
      BY <1>6, <2>1, <2>2
    <2> QED BY <2>3
  <1>8. Kept(r, I, I) /\ Exact(r) /\ Pool(r) = Pool(m) \ S
    BY <1>0, <1>6, RemoveKeeps, RemoveExact, RemovedFields
  <1> HIDE DEF r
  <1>9. Sourced(r, C)
    <2>1. ASSUME NEW u \in Pool(r)
          PROVE  /\ u \notin C /\ ~ IsCoinBase(u)
                 /\ \A o \in Vin[u] : /\ o \notin Spent(C)
                                      /\ o[1] \in Pool(r) \/ o \in Base \/ o[1] \in C
      <3>1. u \in Pool(m) /\ u \notin S
        BY <1>8
      <3>2. /\ u \notin C \cup {t} /\ ~ IsCoinBase(u)
            /\ \A o \in Vin[u] : /\ o \notin Spent(C \cup {t})
                                 /\ o[1] \in Pool(m) \/ o \in Base \/ o[1] \in C \cup {t}
        BY <1>0, <3>1 DEF Sourced
      <3>3. ASSUME NEW o \in Vin[u]
            PROVE  o[1] # t /\ o[1] \notin S
        <4>1. o[1] \in Parents(u)
          BY DEF Parents
        <4>2. o[1] # t
          BY <1>4, <1>6, <3>1, <4>1
        <4>3. ASSUME o[1] \in S
              PROVE  FALSE
          <5>1. o[1] \in Pool(m) /\ o[1] \notin I
            BY <1>6, <1>7, <4>3
          <5>2. u \in ChildLinks(m)[o[1]]
            BY <1>0, <3>1, <4>1, <5>1, LinksInPool DEF Kept, Linked
          <5> QED BY <1>6, <3>1, <4>3, <5>2
        <4> QED BY <4>2, <4>3
      <3> QED BY <1>8, <3>2, <3>3, SpentAdd
    <2> QED BY <2>1 DEF Sourced
  <1>10. /\ I \subseteq Pool(r) \cap (D \cup {t}) /\ Pool(r) \cap (D \cup {t}) \subseteq I
         /\ \A y \in I : Parents(y) \cap Pool(r) \subseteq I
    BY <1>0, <1>2, <1>7, <1>8
  <1> DEFINE z == [pool |-> r, vHashUpdate |-> v]
  <1>11. z.pool = r /\ z.vHashUpdate = v /\ ToSet(z.vHashUpdate) = I
    BY DEF I
  <1> HIDE DEF z
  <1>12. Returning(z, C, D \cup {t})
    BY <1>0, <1>8, <1>9, <1>10, <1>11 DEF Returning
  <1> QED BY <1>3, <1>12 DEF z, r, m, v

\* The rounds of Resurrected.
Returned(m, c, h, b, passed, n, f) ==
    f = [i \in 0 .. n |-> IF i = 0 THEN [pool |-> m, vHashUpdate |-> <<>>]
                          ELSE Resurrect(f[i - 1], c, h, b[i], passed)]

\* The function inside Resurrected exists for any number of rounds.
LEMMA ReturnedExist ==
    ASSUME NEW m, NEW c, NEW h, NEW b, NEW passed, NEW n \in Nat
    PROVE  \E f : Returned(m, c, h, b, passed, n, f)
  <1> DEFINE H == {k \in Nat : \E f : Returned(m, c, h, b, passed, k, f)}
             x == [pool |-> m, vHashUpdate |-> <<>>]
  <1>1. 0 \in H
    <2>1. Returned(m, c, h, b, passed, 0, [i \in 0 .. 0 |-> x])
      BY DEF Returned
    <2> QED BY <2>1
  <1>2. ASSUME NEW k \in 0 .. n, k # n, k \in H
        PROVE  k + 1 \in H
    <2>1. PICK f : Returned(m, c, h, b, passed, k, f)
      BY <1>2
    <2> DEFINE Term(i) == IF i = 0 THEN x ELSE Resurrect(f[i - 1], c, h, b[i], passed)
               g == [i \in 0 .. k + 1 |-> Term(i)]
    <2>2. f = [i \in 0 .. k |-> Term(i)]
      BY <2>1 DEF Returned
    <2> HIDE DEF Term
    <2>3. \A i \in 0 .. k : g[i] = f[i]
      BY <2>2
    <2>4. \A i \in 0 .. k + 1 : i # 0 => g[i - 1] = f[i - 1]
      BY <2>3
    <2>5. \A i \in 0 .. k + 1 :
             Term(i) = IF i = 0 THEN x ELSE Resurrect(g[i - 1], c, h, b[i], passed)
      <3> HIDE DEF x
      <3> QED BY <2>4 DEF Term
    <2>6. Returned(m, c, h, b, passed, k + 1, g)
      BY <2>5 DEF Returned
    <2> QED BY <2>6
  <1> HIDE DEF H
  <1>3. n \in H
    BY <1>1, <1>2, Climb
  <1> QED BY <1>3 DEF H

\* The transactions after the i-th of a block.
After(b, i) == {b[j] : j \in i + 1 .. Len(b)}

\* The rear part of a block shrinks by one transaction at a time.
LEMMA AfterIs ==
    ASSUME NEW b, b \in Seq(Tx)
    PROVE  /\ After(b, 0) = ToSet(b) /\ After(b, Len(b)) = {}
           /\ \A i \in DOMAIN b : After(b, i - 1) = After(b, i) \cup {b[i]}
  <1>1. DOMAIN b = 1 .. Len(b) /\ Len(b) \in Nat
    OBVIOUS
  <1>2. After(b, Len(b)) = {}
    <2>1. Len(b) + 1 .. Len(b) = {}
      BY <1>1
    <2> QED BY <2>1 DEF After
  <1>3. After(b, 0) = ToSet(b)
    <2>1. 0 + 1 .. Len(b) = DOMAIN b
      BY <1>1
    <2> QED BY <2>1 DEF After, ToSet
  <1>4. ASSUME NEW i \in DOMAIN b
        PROVE  After(b, i - 1) = After(b, i) \cup {b[i]}
    <2>1. \A j : j \in (i - 1) + 1 .. Len(b) <=> j \in i + 1 .. Len(b) \/ j = i
      BY <1>1
    <2> QED BY <2>1 DEF After
  <1> QED BY <1>2, <1>3, <1>4

\* The transactions of a sound block can come back in its order.
LEMMA SoundReturns ==
    ASSUME NEW C, NEW h, NEW b, Sound(C, h, b), NEW i \in DOMAIN b
    PROVE  Returns(C, C \cup After(b, i), Until(b, i), b[i])
  <1>0. b \in Seq(Tx) /\ DOMAIN b = 1 .. Len(b) /\ Len(b) \in Nat
    BY DEF Sound
  <1>1. b[i] \in Tx /\ b[i] \notin C
    BY <1>0 DEF Sound
  <1>2. \A j \in i + 1 .. Len(b) : j \in DOMAIN b /\ j # i
    BY <1>0
  <1>3. \A j \in 1 .. i - 1 : j \in DOMAIN b /\ j # i
    BY <1>0
  <1>4. b[i] \notin After(b, i)
    BY <1>2 DEF Sound, After
  <1>5. b[i] \notin Until(b, i)
    BY <1>3 DEF Sound, Until
  <1>6. ASSUME NEW o \in Vin[b[i]]
        PROVE  /\ o \notin Spent(C \cup After(b, i))
               /\ o \in Base \/ o[1] \in C \/ o[1] \in Until(b, i)
    <2>1. /\ o \notin Spent(C)
          /\ o \in Base \/ o[1] \in C \/ \E j \in DOMAIN b : j < i /\ o[1] = b[j]
      BY DEF Sound
    <2>2. \A j \in i + 1 .. Len(b) : o \notin Vin[b[j]]
      BY <1>2 DEF Sound
    <2>3. o \notin Spent(C \cup After(b, i))
      BY <2>1, <2>2 DEF Spent, After
    <2>4. ASSUME NEW j \in DOMAIN b, j < i, o[1] = b[j]
          PROVE  o[1] \in Until(b, i)
      <3>1. j \in 1 .. i - 1
        BY <1>0, <2>4
      <3> QED BY <2>4, <3>1 DEF Until
    <2> QED BY <2>1, <2>3, <2>4
  <1>7. ASSUME NEW y \in Until(b, i), b[i] \in Parents(y)
        PROVE  FALSE
    <2>1. PICK j \in 1 .. i - 1 : y = b[j]
      BY DEF Until
    <2>2. PICK o \in Vin[b[j]] : o[1] = b[i]
      BY <1>7, <2>1 DEF Parents
    <2>3. j \in DOMAIN b /\ j < i
      BY <1>0
    <2>4. o \in Base \/ o[1] \in C \/ \E k \in DOMAIN b : k < j /\ o[1] = b[k]
      BY <2>3 DEF Sound
    <2>5. ASSUME NEW k \in DOMAIN b, k < j, b[i] = b[k]
          PROVE  FALSE
      <3>1. k # i
        BY <1>0, <2>3, <2>5
      <3> QED BY <2>5, <3>1 DEF Sound
    <2> QED BY <1>1, <2>2, <2>4, <2>5, HashAssumption
  <1> QED BY <1>1, <1>4, <1>5, <1>6, <1>7 DEF Returns

\* After the loop of DisconnectTip all of the block came back or is gone, with the older
\* children of what came back not linked.
LEMMA ResurrectedReturning ==
    ASSUME NEW m, NEW c, NEW h, NEW g, NEW b, NEW passed, Sound(Confirmed(c), g, b),
           Settled(m, Confirmed(c) \cup ToSet(b))
    PROVE  Returning(Resurrected(m, c, h, b, passed), Confirmed(c), ToSet(b))
  <1> DEFINE k == Len(b)
             C == Confirmed(c)
             f == CHOOSE f : Returned(m, c, h, b, passed, k, f)
             x == [pool |-> m, vHashUpdate |-> <<>>]
             Good(i) == Returning(f[i], C \cup After(b, i), Until(b, i + 1))
             H == {i \in Nat : Good(i)}
  <1>1. k \in Nat /\ b \in Seq(Tx) /\ DOMAIN b = 1 .. k
    BY DEF Sound
  <1>2. Returned(m, c, h, b, passed, k, f)
    BY <1>1, ReturnedExist
  <1>3. Resurrected(m, c, h, b, passed) = f[k]
    BY DEF Resurrected, Returned
  <1>4. /\ Until(b, 1) = {} /\ Until(b, k + 1) = ToSet(b)
        /\ \A i \in DOMAIN b : Until(b, i + 1) = Until(b, i) \cup {b[i]}
    BY <1>1, UntilIs
  <1>5. /\ After(b, 0) = ToSet(b) /\ After(b, k) = {}
        /\ \A i \in DOMAIN b : After(b, i - 1) = After(b, i) \cup {b[i]}
    BY <1>1, AfterIs
  <1> HIDE DEF f, k
  <1>6. f[0] = x
    BY <1>1, <1>2 DEF Returned
  <1>7. 0 \in H
    <2>1. x.pool = m /\ x.vHashUpdate = <<>> /\ <<>> \in Seq(Tx) /\ ToSet(<<>>) = {}
      BY DEF ToSet
    <2>2. Ordered(<<>>)
      BY DEF Ordered
    <2> HIDE DEF x, C
    <2>3. Returning(x, C \cup ToSet(b), {})
      BY <2>1, <2>2 DEF Settled, Returning, C
    <2>4. 0 + 1 = 1
      OBVIOUS
    <2>5. Until(b, 0 + 1) = {}
      BY <1>4, <2>4
    <2>6. Good(0)
      BY <1>5, <1>6, <2>3, <2>5
    <2> HIDE DEF Good
    <2> QED BY <2>6
  <1>8. ASSUME NEW i \in 0 .. k, i # k, i \in H
        PROVE  i + 1 \in H
    <2>0. i + 1 \in 0 .. k /\ i + 1 # 0 /\ (i + 1) - 1 = i /\ i + 1 \in DOMAIN b /\ i + 1 \in Nat
      BY <1>1, <1>8
    <2>1. f[i + 1] = Resurrect(f[i], c, h, b[i + 1], passed)
      BY <1>2, <2>0 DEF Returned
    <2> DEFINE E == C \cup After(b, i + 1)
               D == Until(b, i + 1)
               t == b[i + 1]
               y == f[i]
    <2>2. Returning(y, C \cup After(b, i), D)
      BY <1>8
    <2>3. C \cup After(b, i) = E \cup {t}
      BY <1>5, <2>0
    <2>4. Returns(C, E, D, t)
      BY <2>0, SoundReturns
    <2>5. Until(b, (i + 1) + 1) = D \cup {t}
      BY <1>4, <2>0
    <2> HIDE DEF E, D, t, y
    <2>6. Returning(y, E \cup {t}, D)
      BY <2>2, <2>3
    <2>7. Returning(Resurrect(y, c, h, t, passed), E, D \cup {t})
      <3>1. CASE t \in passed /\ Acceptable(y.pool, c, h, t)
        BY <2>4, <2>6, <3>1, ReturnAccepted DEF Resurrect
      <3>2. CASE ~ (t \in passed /\ Acceptable(y.pool, c, h, t))
        BY <2>4, <2>6, <3>2, ReturnRefused DEF Resurrect
      <3> QED BY <3>1, <3>2
    <2>8. Good(i + 1)
      BY <2>1, <2>5, <2>7 DEF E, D, t, y
    <2> HIDE DEF Good
    <2> QED BY <2>0, <2>8
  <1>9. k \in H
    <2> HIDE DEF H
    <2> QED BY <1>1, <1>7, <1>8, Climb
  <1>10. Returning(f[k], C \cup After(b, k), Until(b, k + 1))
    BY <1>9
  <1>11. C \cup After(b, k) = C
    BY <1>5
  <1> QED BY <1>3, <1>4, <1>10, <1>11

-----------------------------------------------------------------------------
\* UpdateTransactionsFromBlock.

\* t is the next transaction of U == V \cup {t}: the ones of V come before it in the block.
Updates(m, V, I, t) ==
    /\ Kept(m, V \cup {t}, I) /\ I \subseteq Pool(m) /\ V \subseteq I /\ t \in I /\ t \notin V
    /\ \A y \in I : Parents(y) \cap Pool(m) \subseteq I
    /\ \A y \in V \cup {t} : Parents(y) \cap Pool(m) \subseteq V

\* The older children of t are linked; the links of all others stay.
LEMMA LinkedChildren ==
    ASSUME NEW m, NEW V, NEW I, NEW t, Updates(m, V, I, t), NEW S,
           S = {u \in Pool(m) : t \in Parents(u) /\ u \notin I}
    PROVE  LET l == LinkChildren(m, t, S)
           IN  /\ Kept(l, V, I) /\ Pool(l) = Pool(m) /\ l.mapNextTx = m.mapNextTx
               /\ l.mapDeltas = m.mapDeltas
               /\ \A u \in Pool(m) : /\ l.mapTx[u].count = m.mapTx[u].count
                                     /\ l.mapTx[u].fees = m.mapTx[u].fees
                                     /\ l.mapTx[u].mod = m.mapTx[u].mod
               /\ \A u \in Pool(m) : u # t => ChildLinks(l)[u] = ChildLinks(m)[u]
               /\ ChildLinks(l)[t] = ChildLinks(m)[t] \cup S
  <1> DEFINE l == LinkChildren(m, t, S)
             U == V \cup {t}
  <1>0. /\ Shape(m) /\ Spending(m) /\ Links(m, U, I) /\ Priced(m)
        /\ t \in I /\ t \in Pool(m) /\ t \notin V /\ t \notin S /\ S \subseteq Pool(m)
    BY DEF Updates, Kept
  <1>1. Pool(l) = Pool(m) /\ l.mapNextTx = m.mapNextTx /\ l.mapDeltas = m.mapDeltas
    BY DEF LinkChildren, Pool
  <1>2. \A u \in Pool(m) :
           l.mapTx[u] = IF u = t THEN [m.mapTx[u] EXCEPT !.children = @ \cup S]
                        ELSE IF u \in S THEN [m.mapTx[u] EXCEPT !.parents = @ \cup {t}]
                        ELSE m.mapTx[u]
    BY DEF LinkChildren
  <1> HIDE DEF l
  <1>3. ASSUME NEW u \in Pool(m)
        PROVE  /\ l.mapTx[u] \in RawEntry
               /\ l.mapTx[u].count = m.mapTx[u].count /\ l.mapTx[u].fees = m.mapTx[u].fees
               /\ l.mapTx[u].mod = m.mapTx[u].mod
               /\ l.mapTx[u].children = IF u = t THEN m.mapTx[u].children \cup S
                                        ELSE m.mapTx[u].children
               /\ l.mapTx[u].parents = IF u \in S THEN m.mapTx[u].parents \cup {t}
                                       ELSE m.mapTx[u].parents
    <2> DEFINE e == m.mapTx[u]
    <2>0. e \in RawEntry /\ S \subseteq Tx /\ t \in Tx
      BY <1>0 DEF Shape
    <2>1. CASE u = t
      <3>1. l.mapTx[u] = [e EXCEPT !.children = @ \cup S]
        BY <1>2, <2>1
      <3> HIDE DEF e
      <3>2. l.mapTx[u] \in RawEntry /\ l.mapTx[u].count = e.count /\ l.mapTx[u].fees = e.fees
            /\ l.mapTx[u].mod = e.mod /\ l.mapTx[u].children = e.children \cup S
            /\ l.mapTx[u].parents = e.parents
        BY <2>0, <3>1 DEF RawEntry
      <3> QED BY <1>0, <2>1, <3>2 DEF e
    <2>2. CASE u \in S
      <3>1. l.mapTx[u] = [e EXCEPT !.parents = @ \cup {t}] /\ u # t
        BY <1>0, <1>2, <2>2
      <3> HIDE DEF e
      <3>2. l.mapTx[u] \in RawEntry /\ l.mapTx[u].count = e.count /\ l.mapTx[u].fees = e.fees
            /\ l.mapTx[u].mod = e.mod /\ l.mapTx[u].children = e.children
            /\ l.mapTx[u].parents = e.parents \cup {t}
        BY <2>0, <3>1 DEF RawEntry
      <3> QED BY <2>2, <3>1, <3>2 DEF e
    <2>3. CASE u # t /\ u \notin S
      BY <1>2, <2>0, <2>3
    <2> QED BY <2>1, <2>2, <2>3
  <1>4. Shape(l)
    BY <1>0, <1>1, <1>3 DEF Shape
  <1>5. Spending(l)
    BY <1>0, <1>1 DEF Spending
  <1>6. Priced(l)
    BY <1>0, <1>1, <1>3 DEF Priced, ModifiedFee
  <1>7. \A x, y : Linked(V, I, x, y)
                  <=> Linked(U, I, x, y) \/ (x = t /\ t \in Parents(y) /\ y \notin I)
    BY <1>0 DEF Linked
  <1>8. \A u \in Pool(m) : /\ m.mapTx[u].children = {y \in Pool(m) : Linked(U, I, u, y)}
                           /\ m.mapTx[u].parents = {x \in Pool(m) : Linked(U, I, x, u)}
    BY <1>0 DEF Links
  <1> HIDE DEF U
  <1>9. ASSUME NEW u \in Pool(m)
        PROVE  /\ l.mapTx[u].children = {y \in Pool(m) : Linked(V, I, u, y)}
               /\ l.mapTx[u].parents = {x \in Pool(m) : Linked(V, I, x, u)}
    <2> DEFINE e == m.mapTx[u]
               g == l.mapTx[u]
    <2>1. \A y : y \in g.children <=> y \in e.children \/ (u = t /\ y \in S)
      BY <1>3
    <2>2. \A x : x \in g.parents <=> x \in e.parents \/ (u \in S /\ x = t)
      BY <1>3
    <2>3. /\ \A y : y \in e.children <=> y \in Pool(m) /\ Linked(U, I, u, y)
          /\ \A x : x \in e.parents <=> x \in Pool(m) /\ Linked(U, I, x, u)
      BY <1>8
    <2> HIDE DEF e, g
    <2>4. \A y : y \in g.children <=> y \in Pool(m) /\ Linked(V, I, u, y)
      BY <1>7, <2>1, <2>3
    <2>5. \A x : x \in g.parents <=> x \in Pool(m) /\ Linked(V, I, x, u)
      <3>1. u \in S <=> t \in Parents(u) /\ u \notin I
        OBVIOUS
      <3> QED BY <1>0, <1>7, <2>2, <2>3, <3>1
    <2>6. g.children = {y \in Pool(m) : Linked(V, I, u, y)}
      BY <2>4
    <2>7. g.parents = {x \in Pool(m) : Linked(V, I, x, u)}
      BY <2>5
    <2> QED BY <2>6, <2>7 DEF g
  <1>10. Links(l, V, I)
    BY <1>1, <1>9 DEF Links
  <1>11. \A u \in Pool(m) : /\ ChildLinks(l)[u] = l.mapTx[u].children
                            /\ ChildLinks(m)[u] = m.mapTx[u].children
    BY <1>1 DEF ChildLinks
  <1>12. /\ \A u \in Pool(m) : u # t => ChildLinks(l)[u] = ChildLinks(m)[u]
         /\ ChildLinks(l)[t] = ChildLinks(m)[t] \cup S
    <2>1. \A u \in Pool(m) : u # t => l.mapTx[u].children = m.mapTx[u].children
      BY <1>3
    <2>2. t \in Pool(m) /\ l.mapTx[t].children = m.mapTx[t].children \cup S
      BY <1>0, <1>3
    <2> QED BY <1>11, <2>1, <2>2
  <1>13. Kept(l, V, I)
    BY <1>4, <1>5, <1>6, <1>10 DEF Kept
  <1> QED BY <1>1, <1>3, <1>12, <1>13 DEF l

\* The descendants once the older children of t are linked.
LEMMA DescLinked ==
    ASSUME NEW m, NEW V, NEW I, NEW t, Updates(m, V, I, t), NEW l, Kept(l, V, I),
           Pool(l) = Pool(m),
           \A u \in Pool(m) : u # t => ChildLinks(l)[u] = ChildLinks(m)[u],
           ChildLinks(l)[t] = ChildLinks(m)[t] \cup {u \in Pool(m) : t \in Parents(u) /\ u \notin I}
    PROVE  \A u \in Pool(m) :
              /\ u \notin V \cup {t} => Desc(l, u) = Desc(m, u)
              /\ Desc(l, u) \cap I = Desc(m, u) \cap I
  <1> DEFINE S == {u \in Pool(m) : t \in Parents(u) /\ u \notin I}
             U == V \cup {t}
  <1>0. /\ Shape(m) /\ Links(m, U, I) /\ Shape(l) /\ Links(l, V, I)
        /\ t \in I /\ t \in Pool(m) /\ t \notin V /\ S \subseteq Pool(m) /\ S \cap I = {}
        /\ \A y \in I : Parents(y) \cap Pool(m) \subseteq I
        /\ \A y \in U : Parents(y) \cap Pool(m) \subseteq V
    BY DEF Updates, Kept
  <1>1. \A x \in Pool(m) : \A y \in ChildLinks(m)[x] : y \in Pool(m) /\ x \in Parents(y)
    BY <1>0, LinksInPool DEF Linked
  <1>2. \A x \in Pool(m) : \A y \in ChildLinks(l)[x] : y \in Pool(m) /\ x \in Parents(y)
    BY <1>0, LinksInPool DEF Linked
  <1>3. ChildLinks(l)[t] = ChildLinks(m)[t] \cup S
    OBVIOUS
  <1> HIDE DEF S, U
  <1>4. ASSUME NEW u \in Pool(m)
        PROVE  /\ u \notin U => Desc(l, u) = Desc(m, u)
               /\ Desc(l, u) \cap I = Desc(m, u) \cap I
    <2>1. /\ u \in Desc(m, u) /\ Desc(m, u) \subseteq Pool(m)
          /\ \A x \in Desc(m, u) : ChildLinks(m)[x] \subseteq Desc(m, u)
          /\ \A Q : u \in Q /\ (\A x \in Q \cap Pool(m) : ChildLinks(m)[x] \subseteq Q)
                   => Desc(m, u) \subseteq Q
      BY <1>0, DescFacts
    <2>2. /\ u \in Desc(l, u) /\ Desc(l, u) \subseteq Pool(m)
          /\ \A x \in Desc(l, u) : ChildLinks(l)[x] \subseteq Desc(l, u)
          /\ \A Q : u \in Q /\ (\A x \in Q \cap Pool(m) : ChildLinks(l)[x] \subseteq Q)
                   => Desc(l, u) \subseteq Q
      BY <1>0, DescFacts
    <2>3. Desc(m, u) \subseteq Desc(l, u)
      <3>1. \A x \in Desc(l, u) \cap Pool(m) : ChildLinks(m)[x] \subseteq Desc(l, u)
        BY <1>3, <2>2
      <3> QED BY <2>1, <2>2, <3>1
    <2>4. Desc(l, u) \cap I \subseteq Desc(m, u)
      <3> DEFINE Q == Desc(m, u) \cup (Pool(m) \ I)
      <3>1. ASSUME NEW x \in Q \cap Pool(m), NEW y \in ChildLinks(l)[x]
            PROVE  y \in Q
        <4>0. y \in Pool(m) /\ x \in Parents(y)
          BY <1>2
        <4>1. CASE x \in Desc(m, u)
          BY <1>0, <1>3, <2>1, <4>1
        <4>2. CASE x \notin I
          BY <1>0, <4>0, <4>2
        <4> QED BY <3>1, <4>1, <4>2
      <3>2. Desc(l, u) \subseteq Q
        <4>1. u \in Q
          BY <2>1
        <4> HIDE DEF Q
        <4> QED BY <2>2, <3>1, <4>1
      <3> QED BY <3>2
    <2>5. ASSUME u \notin U
          PROVE  Desc(l, u) \subseteq Desc(m, u)
      <3> DEFINE Q == Pool(m) \ U
      <3>1. ASSUME NEW x \in Q \cap Pool(m), NEW y \in ChildLinks(m)[x]
            PROVE  y \in Q
        <4>1. y \in Pool(m) /\ x \in Parents(y) /\ x \notin V
          BY <1>1 DEF U
        <4> QED BY <1>0, <4>1
      <3>2. Desc(m, u) \subseteq Q
        <4>1. u \in Q
          BY <2>5
        <4> HIDE DEF Q
        <4> QED BY <2>1, <3>1, <4>1
      <3>3. t \notin Desc(m, u)
        BY <3>2 DEF U
      <3>4. \A x \in Desc(m, u) \cap Pool(m) : ChildLinks(l)[x] \subseteq Desc(m, u)
        BY <2>1, <3>3
      <3> QED BY <2>1, <2>2, <3>4
    <2> QED BY <2>3, <2>4, <2>5
  <1> QED BY <1>4 DEF U


\* SetDirty changes nothing but the totals.
LEMMA DirtyIs ==
    ASSUME NEW e \in RawEntry
    PROVE  /\ SetDirty(e) \in RawEntry /\ SetDirty(e).parents = e.parents
           /\ SetDirty(e).children = e.children /\ SetDirty(e).mod = e.mod
           /\ SetDirty(e).count = 0 /\ SetDirty(e).fees = e.mod
  <1> DEFINE c == [e EXCEPT !.count = 0]
             g == [c EXCEPT !.fees = e.mod]
  <1>1. SetDirty(e) = g
    BY DEF SetDirty
  <1>2. /\ c \in RawEntry /\ c.parents = e.parents /\ c.children = e.children
        /\ c.mod = e.mod /\ c.count = 0 /\ e.mod \in Int
    BY DEF RawEntry
  <1> HIDE DEF c
  <1>3. /\ g \in RawEntry /\ g.parents = c.parents /\ g.children = c.children
        /\ g.mod = c.mod /\ g.count = c.count /\ g.fees = e.mod
    BY <1>2 DEF RawEntry
  <1> QED BY <1>1, <1>2, <1>3

\* The descendants of t that are not t itself, without those of I.
NewBelow(l, t, I) == CalculateDescendants(l, l.mapTx[t].children) \ I

\* What is visited below t are the descendants of t outside of the block.
LEMMA NewBelowIs ==
    ASSUME NEW l, NEW V, NEW I, Shape(l), Links(l, V, I), NEW t \in Pool(l), t \in I
    PROVE  NewBelow(l, t, I) = Minus(Desc(l, t), I)
  <1> DEFINE S == ChildLinks(l)[t]
             B == CalculateDescendants(l, S)
             D == Desc(l, t)
  <1>1. S \in SUBSET Pool(l) /\ l.mapTx[t].children = S
    BY LinksInPool
  <1>2. NewBelow(l, t, I) = B \ I
    BY <1>1 DEF NewBelow
  <1>3. /\ t \in D /\ D \subseteq Pool(l)
        /\ \A x \in D : ChildLinks(l)[x] \subseteq D
        /\ \A Q : t \in Q /\ (\A x \in Q \cap Pool(l) : ChildLinks(l)[x] \subseteq Q) => D \subseteq Q
    BY DescFacts
  <1>4. IsReach(S, ChildLinks(l), Pool(l), B)
    BY <1>1, DescendantsAre
  <1>5. S \subseteq D
    BY <1>3
  <1> HIDE DEF S, B, D
  <1>6. /\ S \subseteq B /\ B \subseteq Pool(l) /\ \A x \in B : ChildLinks(l)[x] \subseteq B
        /\ \A Q \in SUBSET Pool(l) : S \subseteq Q /\ (\A x \in Q : ChildLinks(l)[x] \subseteq Q) => B \subseteq Q
    BY <1>4 DEF IsReach
  <1>7. B \subseteq D
    BY <1>3, <1>5, <1>6
  <1>8. D \subseteq B \cup {t}
    <2>1. \A x \in (B \cup {t}) \cap Pool(l) : ChildLinks(l)[x] \subseteq B \cup {t}
      BY <1>6 DEF S
    <2> QED BY <1>3, <2>1
  <1>9. B \ I = D \ I
    BY <1>7, <1>8
  <1> QED BY <1>2, <1>9 DEF Minus, D

\* UpdateForDescendants changes the totals of t and no more: it is dirty, or has counted what
\* is below it outside of the block.
LEMMA UpdatedFor ==
    ASSUME NEW l, NEW V, NEW I, Kept(l, V, I), NEW t \in Pool(l), t \in I, I \subseteq Pool(l)
    PROVE  LET n == UpdateForDescendants(l, t, I)
               new == Minus(Desc(l, t), I)
           IN  /\ Kept(n, V, I) /\ Pool(n) = Pool(l) /\ ChildLinks(n) = ChildLinks(l)
               /\ \A u \in Pool(l) : Mods(n)[u] = Mods(l)[u]
               /\ \A u \in Pool(l) : u # t => n.mapTx[u] = l.mapTx[u]
               /\ \/ n.mapTx[t].count = 0 /\ n.mapTx[t].fees = n.mapTx[t].mod
                  \/ n.mapTx[t] = UpdateState(l.mapTx[t], Sum(new, Mods(l)), Cardinality(new))
               /\ Sum(new, Mods(l)) \in Int /\ Cardinality(new) \in Nat
  <1> DEFINE n == UpdateForDescendants(l, t, I)
             new == Minus(Desc(l, t), I)
             e == l.mapTx[t]
             a == Sum(new, Mods(l))
             b == Cardinality(new)
  <1>0. Shape(l) /\ Spending(l) /\ Links(l, V, I) /\ Priced(l)
    BY DEF Kept
  <1>1. Pool(n) = Pool(l) /\ n.mapNextTx = l.mapNextTx /\ n.mapDeltas = l.mapDeltas
    BY DEF UpdateForDescendants, Pool
  <1>2. \A u \in Pool(l) : u # t => n.mapTx[u] = l.mapTx[u]
    BY DEF UpdateForDescendants
  <1>3. NewBelow(l, t, I) = new
    BY <1>0, NewBelowIs
  <1>4. n.mapTx[t] = SetDirty(e) \/ n.mapTx[t] = UpdateState(e, a, b)
    <2>1. n.mapTx[t] = IF TooMany(l, t, I) THEN SetDirty(e)
                       ELSE UpdateState(e, Sum(NewBelow(l, t, I), Mods(l)), Cardinality(NewBelow(l, t, I)))
      BY DEF UpdateForDescendants, NewBelow
    <2> HIDE DEF n, e, new
    <2>2. n.mapTx[t] = IF TooMany(l, t, I) THEN SetDirty(e) ELSE UpdateState(e, a, b)
      BY <1>3, <2>1, Zenon
    <2> QED BY <2>2
  <1>5. a \in Int /\ b \in Nat
    <2>1. new \subseteq Pool(l)
      BY <1>0, DescFacts DEF Minus
    <2>2. IsFiniteSet(new) /\ b \in Nat
      BY <1>0, <2>1, PoolFinite
    <2>3. \A x \in new : Mods(l)[x] \in Int
      BY <1>0, <2>1, ModsInt
    <2> HIDE DEF new
    <2>4. a \in Int
      BY <2>2, <2>3, SumInt
    <2> QED BY <2>2, <2>4
  <1>6. e \in RawEntry
    BY <1>0 DEF Shape
  <1> HIDE DEF n, new, e, a, b
  <1>7. /\ n.mapTx[t] \in RawEntry /\ n.mapTx[t].parents = e.parents
        /\ n.mapTx[t].children = e.children /\ n.mapTx[t].mod = e.mod
    <2>1. a \in Int /\ b \in Int
      BY <1>5
    <2> QED BY <1>4, <1>6, <2>1, DirtyIs, UpdateStateKeeps
  <1>8. \A u \in Pool(l) : /\ n.mapTx[u] \in RawEntry /\ n.mapTx[u].parents = l.mapTx[u].parents
                           /\ n.mapTx[u].children = l.mapTx[u].children
                           /\ n.mapTx[u].mod = l.mapTx[u].mod
    BY <1>0, <1>2, <1>7 DEF Shape, e
  <1>9. Kept(n, V, I)
    <2>1. Shape(n)
      BY <1>0, <1>1, <1>8 DEF Shape
    <2>2. Spending(n)
      BY <1>0, <1>1 DEF Spending
    <2>3. Links(n, V, I)
      BY <1>0, <1>1, <1>8 DEF Links
    <2>4. Priced(n)
      BY <1>0, <1>1, <1>8 DEF Priced, ModifiedFee
    <2> QED BY <2>1, <2>2, <2>3, <2>4 DEF Kept
  <1>10. ChildLinks(n) = ChildLinks(l)
    BY <1>1, <1>8 DEF ChildLinks
  <1>11. \A u \in Pool(l) : Mods(n)[u] = Mods(l)[u]
    BY <1>1, <1>8 DEF Mods
  <1>12. \/ n.mapTx[t].count = 0 /\ n.mapTx[t].fees = n.mapTx[t].mod
         \/ n.mapTx[t] = UpdateState(e, a, b)
    BY <1>4, <1>6, <1>7, DirtyIs
  <1> QED BY <1>1, <1>2, <1>5, <1>9, <1>10, <1>11, <1>12 DEF n, new, e, a, b

\* One transaction of UpdateTransactionsFromBlock.
LEMMA UpdateFromBlockExact ==
    ASSUME NEW m, NEW V, NEW I, NEW t, Updates(m, V, I, t), Totals(m, V \cup {t}, I)
    PROVE  LET n == UpdateFromBlock(m, t, I)
           IN  Kept(n, V, I) /\ Totals(n, V, I) /\ Pool(n) = Pool(m)
  <1> DEFINE S == {u \in Pool(m) : t \in Parents(u) /\ u \notin I}
             l == LinkChildren(m, t, S)
             n == UpdateForDescendants(l, t, I)
             new == Minus(Desc(l, t), I)
             U == V \cup {t}
  <1>0. /\ Shape(m) /\ Spending(m) /\ Links(m, U, I) /\ t \in I /\ t \in Pool(m) /\ t \notin V
        /\ I \subseteq Pool(m) /\ t \in Tx
    BY DEF Updates, Kept, Shape
  <1>1. UpdateFromBlock(m, t, I) = n
    <2>1. Spenders(m, t) \ I = S
      BY <1>0, SpendersAre
    <2> HIDE DEF S
    <2> QED BY <1>0, <2>1 DEF UpdateFromBlock
  <1>2. /\ Kept(l, V, I) /\ Pool(l) = Pool(m)
        /\ \A u \in Pool(m) : /\ l.mapTx[u].count = m.mapTx[u].count
                              /\ l.mapTx[u].fees = m.mapTx[u].fees
                              /\ l.mapTx[u].mod = m.mapTx[u].mod
        /\ \A u \in Pool(m) : u # t => ChildLinks(l)[u] = ChildLinks(m)[u]
        /\ ChildLinks(l)[t] = ChildLinks(m)[t] \cup S
    BY LinkedChildren
  <1> HIDE DEF l
  <1>3. \A u \in Pool(m) : /\ u \notin U => Desc(l, u) = Desc(m, u)
                           /\ Desc(l, u) \cap I = Desc(m, u) \cap I
    BY <1>2, DescLinked
  <1> HIDE DEF S
  <1>4. /\ Kept(n, V, I) /\ Pool(n) = Pool(m) /\ ChildLinks(n) = ChildLinks(l)
        /\ \A u \in Pool(m) : Mods(n)[u] = Mods(l)[u]
        /\ \A u \in Pool(m) : u # t => n.mapTx[u] = l.mapTx[u]
        /\ \/ n.mapTx[t].count = 0 /\ n.mapTx[t].fees = n.mapTx[t].mod
           \/ n.mapTx[t] = UpdateState(l.mapTx[t], Sum(new, Mods(l)), Cardinality(new))
        /\ Sum(new, Mods(l)) \in Int /\ Cardinality(new) \in Nat
    BY <1>0, <1>2, UpdatedFor
  <1>5. \A u : Desc(n, u) = Desc(l, u)
    BY <1>4 DEF Desc
  <1>6. Shape(l) /\ Links(l, V, I)
    BY <1>2 DEF Kept
  <1> HIDE DEF n
  <1>7. \A u \in Pool(m) : Mods(l)[u] = Mods(m)[u] /\ Mods(l)[u] \in Int
    <2>1. \A u \in Pool(m) : Mods(l)[u] = l.mapTx[u].mod /\ Mods(l)[u] \in Int
      BY <1>2, <1>6, ModsInt
    <2>2. \A u \in Pool(m) : Mods(m)[u] = m.mapTx[u].mod
      BY <1>0, ModsInt
    <2> QED BY <1>2, <2>1, <2>2
  <1>8. ASSUME NEW u \in Pool(m)
        PROVE  IF IsDirty(m.mapTx[u]) THEN m.mapTx[u].fees = m.mapTx[u].mod
               ELSE /\ m.mapTx[u].count = Cardinality(Counted(m, U, I, u))
                    /\ m.mapTx[u].fees = Sum(Counted(m, U, I, u), Mods(m))
    BY DEF Totals
  <1>9. ASSUME NEW u \in Pool(m), u # t
        PROVE  IF IsDirty(n.mapTx[u]) THEN n.mapTx[u].fees = n.mapTx[u].mod
               ELSE /\ n.mapTx[u].count = Cardinality(Counted(n, V, I, u))
                    /\ n.mapTx[u].fees = Sum(Counted(n, V, I, u), Mods(n))
    <2> DEFINE D == Counted(m, U, I, u)
    <2>1. Counted(n, V, I, u) = D
      BY <1>3, <1>5, <1>9 DEF Counted
    <2>2. D \subseteq Pool(m)
      <3>1. Desc(m, u) \subseteq Pool(m)
        BY <1>0, DescFacts
      <3> QED BY <3>1 DEF Counted
    <2>3. /\ n.mapTx[u].count = m.mapTx[u].count /\ n.mapTx[u].fees = m.mapTx[u].fees
          /\ n.mapTx[u].mod = m.mapTx[u].mod
      BY <1>2, <1>4, <1>9
    <2> HIDE DEF D
    <2>4. IsFiniteSet(D)
      BY <1>0, <2>2, PoolFinite
    <2>5. Sum(D, Mods(n)) = Sum(D, Mods(m))
      BY <1>4, <1>7, <2>2, <2>4, SumSame
    <2>6. IF IsDirty(m.mapTx[u]) THEN m.mapTx[u].fees = m.mapTx[u].mod
          ELSE m.mapTx[u].count = Cardinality(D) /\ m.mapTx[u].fees = Sum(D, Mods(m))
      BY <1>8 DEF D
    <2> QED BY <2>1, <2>3, <2>5, <2>6 DEF IsDirty
  <1>10. IF IsDirty(n.mapTx[t]) THEN n.mapTx[t].fees = n.mapTx[t].mod
         ELSE /\ n.mapTx[t].count = Cardinality(Counted(n, V, I, t))
              /\ n.mapTx[t].fees = Sum(Counted(n, V, I, t), Mods(n))
    <2>1. CASE n.mapTx[t].count = 0 /\ n.mapTx[t].fees = n.mapTx[t].mod
      BY <2>1 DEF IsDirty
    <2>2. CASE n.mapTx[t] = UpdateState(l.mapTx[t], Sum(new, Mods(l)), Cardinality(new))
      <3> DEFINE e == l.mapTx[t]
                 a == Sum(new, Mods(l))
                 b == Cardinality(new)
                 E == Desc(l, t)
                 F == E \cap I
      <3>0. e \in RawEntry /\ a \in Int /\ b \in Int
        BY <1>0, <1>2, <1>4, <1>6 DEF Shape
      <3>1. Counted(n, V, I, t) = E
        BY <1>0, <1>5 DEF Counted
      <3>2. t \in E /\ E \in SUBSET Pool(l) /\ I \in SUBSET Pool(l)
        BY <1>0, <1>2, <1>6, DescFacts
      <3>3. IsFiniteSet(E) /\ Cardinality(E) \in Nat
        BY <1>6, <3>2, PoolFinite
      <3>4. Cardinality(E) # 0
        <4> HIDE DEF E
        <4> QED BY <3>2, <3>3, FS_EmptySet
      <3>5. Sum(E, Mods(n)) = Sum(E, Mods(l))
        <4>1. \A x \in E : Mods(n)[x] = Mods(l)[x]
          BY <1>2, <1>4, <3>2
        <4> HIDE DEF E
        <4> QED BY <3>3, <4>1, SumSame
      <3>6. /\ b = Cardinality(E) - Cardinality(F) /\ a = Sum(E, Mods(l)) - Sum(F, Mods(l))
            /\ Cardinality(F) \in Nat /\ Sum(E, Mods(l)) \in Int /\ Sum(F, Mods(l)) \in Int
        BY <1>6, <3>2, LessCounted
      <3>7. Counted(m, U, I, t) = F
        BY <1>0, <1>3 DEF Counted
      <3>8. Sum(F, Mods(m)) = Sum(F, Mods(l))
        <4>1. IsFiniteSet(F)
          BY <3>3, FewerElements
        <4>2. \A x \in F : Mods(m)[x] = Mods(l)[x]
          BY <1>2, <1>7, <3>2
        <4> HIDE DEF F
        <4> QED BY <4>1, <4>2, SumSame
      <3>9. IF IsDirty(m.mapTx[t]) THEN m.mapTx[t].fees = m.mapTx[t].mod
            ELSE m.mapTx[t].count = Cardinality(F) /\ m.mapTx[t].fees = Sum(F, Mods(l))
        <4> HIDE DEF F
        <4> QED BY <1>0, <1>8, <3>7, <3>8
      <3>10. IF IsDirty(e) THEN e.fees = e.mod
             ELSE e.count = Cardinality(F) /\ e.fees = Sum(F, Mods(l))
        BY <1>0, <1>2, <3>9 DEF IsDirty
      <3> HIDE DEF e, a, b, E, F
      <3>11. n.mapTx[t] = UpdateState(e, a, b)
        BY <2>2 DEF e, a, b
      <3>12. CASE IsDirty(e)
        <4>1. n.mapTx[t] = e
          BY <3>0, <3>11, <3>12, UpdatedTotals
        <4> QED BY <3>10, <3>12, <4>1
      <3>13. CASE ~ IsDirty(e)
        <4>1. n.mapTx[t].count = e.count + b /\ n.mapTx[t].fees = e.fees + a
          BY <3>0, <3>11, <3>13, UpdatedTotals
        <4>2. n.mapTx[t].count = Cardinality(E) /\ n.mapTx[t].fees = Sum(E, Mods(l))
          BY <3>3, <3>6, <3>10, <3>13, <4>1
        <4> QED BY <3>1, <3>4, <3>5, <4>2 DEF IsDirty
      <3> QED BY <3>12, <3>13
    <2> QED BY <1>4, <2>1, <2>2
  <1>11. Totals(n, V, I)
    BY <1>4, <1>9, <1>10 DEF Totals
  <1> QED BY <1>1, <1>4, <1>11


\* The next transaction in reverse order is one that the lemmas above are about.
LEMMA OrderedUpdates ==
    ASSUME NEW v, v \in Seq(Tx), Ordered(v), NEW p \in DOMAIN v, NEW n,
           Kept(n, Until(v, p) \cup {v[p]}, ToSet(v)), ToSet(v) \subseteq Pool(n),
           \A y \in ToSet(v) : Parents(y) \cap Pool(n) \subseteq ToSet(v)
    PROVE  Updates(n, Until(v, p), ToSet(v), v[p])
  <1> DEFINE V == Until(v, p)
             I == ToSet(v)
  <1>1. DOMAIN v = 1 .. Len(v) /\ Len(v) \in Nat
    OBVIOUS
  <1>2. \A x : x \in I <=> \E q \in DOMAIN v : x = v[q]
    BY DEF ToSet
  <1>3. \A x : x \in V <=> \E q \in DOMAIN v : q < p /\ x = v[q]
    BY <1>1 DEF Until
  <1>4. v[p] \in I /\ V \subseteq I
    BY <1>2, <1>3
  <1>5. v[p] \notin V
    BY <1>1, <1>3 DEF Ordered
  <1> HIDE DEF V
  <1>6. ASSUME NEW y \in V \cup {v[p]}, NEW x \in Parents(y), x \in Pool(n)
        PROVE  x \in V
    <2>1. PICK q \in DOMAIN v : q <= p /\ y = v[q]
      BY <1>1, <1>3
    <2>2. x \in I
      BY <1>4, <1>6
    <2>3. PICK r \in DOMAIN v : x = v[r]
      BY <1>2, <2>2
    <2>4. r # q
      <3>1. v[q] \in Tx
        BY <1>1
      <3> QED BY <1>6, <2>1, <2>3, <3>1, NotOwnParent
    <2>5. ~ (q < r)
      BY <1>6, <2>1, <2>3 DEF Ordered
    <2>6. r < p
      BY <1>1, <2>1, <2>4, <2>5
    <2> QED BY <1>3, <2>3, <2>6
  <1>7. \A y \in V \cup {v[p]} : Parents(y) \cap Pool(n) \subseteq V
    BY <1>6
  <1>8. Updates(n, V, I, v[p])
    BY <1>4, <1>5, <1>7 DEF Updates, V
  <1> QED BY <1>8 DEF V

\* The rounds of UpdateTransactionsFromBlock.
BlockUpdates(m, v, n, f) ==
    f = [i \in 0 .. n |-> IF i = 0 THEN m
                          ELSE UpdateFromBlock(f[i - 1], v[Len(v) + 1 - i], ToSet(v))]

\* The function inside UpdateTransactionsFromBlock exists for any number of rounds.
LEMMA BlockUpdatesExist ==
    ASSUME NEW m, NEW v, NEW n \in Nat
    PROVE  \E f : BlockUpdates(m, v, n, f)
  <1> DEFINE H == {k \in Nat : \E f : BlockUpdates(m, v, k, f)}
  <1>1. 0 \in H
    <2>1. BlockUpdates(m, v, 0, [i \in 0 .. 0 |-> m])
      BY DEF BlockUpdates
    <2> QED BY <2>1
  <1>2. ASSUME NEW k \in 0 .. n, k # n, k \in H
        PROVE  k + 1 \in H
    <2>1. PICK f : BlockUpdates(m, v, k, f)
      BY <1>2
    <2> DEFINE Term(i) == IF i = 0 THEN m
                          ELSE UpdateFromBlock(f[i - 1], v[Len(v) + 1 - i], ToSet(v))
               g == [i \in 0 .. k + 1 |-> Term(i)]
    <2>2. f = [i \in 0 .. k |-> Term(i)]
      BY <2>1 DEF BlockUpdates
    <2> HIDE DEF Term
    <2>3. \A i \in 0 .. k : g[i] = f[i]
      BY <2>2
    <2>4. \A i \in 0 .. k + 1 : i # 0 => g[i - 1] = f[i - 1]
      BY <2>3
    <2>5. \A i \in 0 .. k + 1 :
             Term(i) = IF i = 0 THEN m
                       ELSE UpdateFromBlock(g[i - 1], v[Len(v) + 1 - i], ToSet(v))
      BY <2>4 DEF Term
    <2>6. BlockUpdates(m, v, k + 1, g)
      BY <2>5 DEF BlockUpdates
    <2> QED BY <2>6
  <1> HIDE DEF H
  <1>3. n \in H
    BY <1>1, <1>2, Climb
  <1> QED BY <1>3 DEF H

\* Before the first round: what came back counts what came back with it.
LEMMA ReturnedTotals ==
    ASSUME NEW m, NEW I, Kept(m, I, I), Exact(m)
    PROVE  Totals(m, I, I)
  <1>1. Shape(m) /\ Links(m, I, I)
    BY DEF Kept
  <1>2. ASSUME NEW t \in Pool(m)
        PROVE  Counted(m, I, I, t) = Desc(m, t)
    <2>1. CASE t \in I
      <3>1. \A x \in I \cap Pool(m) : ChildLinks(m)[x] \subseteq I
        BY <1>1, LinksInPool DEF Linked
      <3>2. Desc(m, t) \subseteq I
        BY <1>1, <2>1, <3>1, DescFacts
      <3> QED BY <2>1, <3>2 DEF Counted
    <2>2. CASE t \notin I
      BY <2>2 DEF Counted
    <2> QED BY <2>1, <2>2
  <1> QED BY <1>2 DEF Exact, Totals

\* After the last round all older children are linked and counted.
LEMMA AllUpdated ==
    ASSUME NEW m, NEW I, Kept(m, {}, I), Totals(m, {}, I)
    PROVE  Kept(m, {}, {}) /\ Exact(m)
  <1>1. \A t \in Pool(m) : Counted(m, {}, I, t) = Desc(m, t)
    BY DEF Counted
  <1>2. Exact(m)
    BY <1>1 DEF Totals, Exact
  <1>3. \A x, y : Linked({}, I, x, y) <=> Linked({}, {}, x, y)
    BY DEF Linked
  <1>4. Links(m, {}, {})
    BY <1>3 DEF Kept, Links
  <1> QED BY <1>2, <1>4 DEF Kept

\* UpdateTransactionsFromBlock leaves all links in place and all totals exact: in reverse
\* order each transaction comes after its children, whose links are final then.
LEMMA UpdatedFromBlock ==
    ASSUME NEW m, NEW v, v \in Seq(Tx), Ordered(v), Kept(m, ToSet(v), ToSet(v)), Exact(m),
           ToSet(v) \subseteq Pool(m), \A y \in ToSet(v) : Parents(y) \cap Pool(m) \subseteq ToSet(v)
    PROVE  LET n == UpdateTransactionsFromBlock(m, v)
           IN  Kept(n, {}, {}) /\ Exact(n) /\ Pool(n) = Pool(m)
  <1> DEFINE k == Len(v)
             I == ToSet(v)
             f == CHOOSE f : BlockUpdates(m, v, k, f)
             U(i) == Until(v, k - i + 1)
             Good(i) == Kept(f[i], U(i), I) /\ Totals(f[i], U(i), I) /\ Pool(f[i]) = Pool(m)
             H == {i \in Nat : Good(i)}
  <1>1. k \in Nat /\ DOMAIN v = 1 .. k
    OBVIOUS
  <1>2. BlockUpdates(m, v, k, f)
    BY <1>1, BlockUpdatesExist
  <1>3. UpdateTransactionsFromBlock(m, v) = f[k]
    BY DEF UpdateTransactionsFromBlock, BlockUpdates
  <1>4. /\ Until(v, 1) = {} /\ Until(v, k + 1) = I
        /\ \A i \in DOMAIN v : Until(v, i + 1) = Until(v, i) \cup {v[i]}
    BY UntilIs
  <1> HIDE DEF f, k, I
  <1>5. f[0] = m
    BY <1>1, <1>2 DEF BlockUpdates
  <1>6. 0 \in H
    <2>1. k - 0 + 1 = k + 1
      BY <1>1
    <2>2. U(0) = I
      BY <1>4, <2>1
    <2>3. Totals(m, I, I)
      BY ReturnedTotals DEF I
    <2> HIDE DEF U
    <2>4. Good(0)
      BY <1>5, <2>2, <2>3 DEF I
    <2> HIDE DEF Good
    <2> QED BY <2>4
  <1>7. ASSUME NEW i \in 0 .. k, i # k, i \in H
        PROVE  i + 1 \in H
    <2> DEFINE p == k - i
               x == f[i]
               V == Until(v, p)
    <2>0. /\ p \in DOMAIN v /\ i + 1 \in 0 .. k /\ i + 1 # 0 /\ (i + 1) - 1 = i
          /\ k + 1 - (i + 1) = p /\ k - (i + 1) + 1 = p /\ i + 1 \in Nat
      BY <1>1, <1>7
    <2>1. f[i + 1] = UpdateFromBlock(x, v[p], I)
      BY <1>2, <2>0 DEF BlockUpdates, k, I
    <2>2. U(i) = V \cup {v[p]}
      BY <1>4, <2>0
    <2>3. U(i + 1) = V
      BY <2>0
    <2> HIDE DEF p
    <2>4. Kept(x, U(i), I) /\ Totals(x, U(i), I) /\ Pool(x) = Pool(m)
      BY <1>7
    <2> HIDE DEF U, x, V
    <2>5. Kept(x, V \cup {v[p]}, I) /\ Totals(x, V \cup {v[p]}, I)
      BY <2>2, <2>4
    <2>6. Updates(x, V, I, v[p])
      BY <2>0, <2>4, <2>5, OrderedUpdates DEF V, I
    <2>7. /\ Kept(UpdateFromBlock(x, v[p], I), V, I) /\ Totals(UpdateFromBlock(x, v[p], I), V, I)
          /\ Pool(UpdateFromBlock(x, v[p], I)) = Pool(x)
      BY <2>5, <2>6, UpdateFromBlockExact
    <2>8. Good(i + 1)
      BY <2>1, <2>3, <2>4, <2>7
    <2> HIDE DEF Good
    <2> QED BY <2>0, <2>8
  <1>8. k \in H
    <2> HIDE DEF H
    <2> QED BY <1>1, <1>6, <1>7, Climb
  <1>9. Kept(f[k], {}, I) /\ Totals(f[k], {}, I) /\ Pool(f[k]) = Pool(m)
    <2>1. k - k + 1 = 1
      BY <1>1
    <2>2. U(k) = {}
      BY <1>4, <2>1
    <2> HIDE DEF U
    <2>3. Good(k)
      BY <1>8
    <2> QED BY <2>2, <2>3
  <1> QED BY <1>3, <1>9, AllUpdated

\* A block less on the chain: what came back is settled again.
LEMMA DisconnectSettled ==
    ASSUME NEW m, NEW c, ChainOk(c), c # <<>>, Settled(m, Confirmed(c)), NEW h, NEW passed
    PROVE  LET back == Resurrected(m, Front(c), h, Last(c), passed)
           IN  Settled(UpdateTransactionsFromBlock(back.pool, back.vHashUpdate),
                       Confirmed(Front(c)))
  <1> DEFINE b == Last(c)
             C == Confirmed(Front(c))
             x == Resurrected(m, Front(c), h, b, passed)
             r == x.pool
             v == x.vHashUpdate
             n == UpdateTransactionsFromBlock(r, v)
  <1>1. Sound(C, Len(c), b) /\ Settled(m, C \cup ToSet(b))
    BY ChainFront
  <1>2. Returning(x, C, ToSet(b))
    BY <1>1, ResurrectedReturning
  <1> HIDE DEF x, C
  <1>3. /\ v \in Seq(Tx) /\ Ordered(v) /\ Kept(r, ToSet(v), ToSet(v)) /\ Exact(r) /\ Sourced(r, C)
        /\ ToSet(v) \subseteq Pool(r)
        /\ \A y \in ToSet(v) : Parents(y) \cap Pool(r) \subseteq ToSet(v)
    BY <1>2 DEF Returning
  <1> HIDE DEF r, v
  <1>4. Kept(n, {}, {}) /\ Exact(n) /\ Pool(n) = Pool(r)
    BY <1>3, UpdatedFromBlock
  <1> HIDE DEF n
  <1>5. Sourced(n, C)
    BY <1>3, <1>4 DEF Sourced
  <1>6. Settled(n, C)
    BY <1>4, <1>5 DEF Settled
  <1> QED BY <1>6 DEF n, r, v, x, C, b

-----------------------------------------------------------------------------
\* prioritisetransaction.

\* What PrioritiseTransaction makes of the pool.
Raised(m, t, d) ==
    LET above == IF t \in Pool(m) THEN LinkedAncestors(m, t) ELSE {}
        Raise(u) == LET e == m.mapTx[u]
                    IN  IF u = t THEN [e EXCEPT !.mod = @ + d, !.fees = @ + d]
                        ELSE IF u \in above THEN UpdateState(e, d, 0) ELSE e
    IN  [mapTx |-> [u \in Pool(m) |-> Raise(u)],
         mapNextTx |-> m.mapNextTx,
         mapDeltas |-> [m.mapDeltas EXCEPT ![t] = @ + d]]

\* An entry with another fee of its own.
Repriced(e, d) == [e EXCEPT !.mod = @ + d, !.fees = @ + d]

\* It differs from the entry in its two fees.
LEMMA RepricedIs ==
    ASSUME NEW e \in RawEntry, NEW d \in Int, NEW r, r = Repriced(e, d)
    PROVE  /\ r \in RawEntry /\ r.parents = e.parents /\ r.children = e.children
           /\ r.count = e.count /\ r.mod = e.mod + d /\ r.fees = e.fees + d
  <1> DEFINE c == [e EXCEPT !.mod = @ + d]
             g == [c EXCEPT !.fees = @ + d]
  <1>1. r = g
    BY DEF Repriced
  <1>2. /\ c \in RawEntry /\ c.parents = e.parents /\ c.children = e.children
        /\ c.count = e.count /\ c.mod = e.mod + d /\ c.fees = e.fees
    BY DEF RawEntry
  <1> HIDE DEF c
  <1>3. /\ g \in RawEntry /\ g.parents = c.parents /\ g.children = c.children
        /\ g.count = c.count /\ g.mod = c.mod /\ g.fees = c.fees + d
    BY <1>2 DEF RawEntry
  <1> QED BY <1>1, <1>2, <1>3

\* Each entry after a change of the priority of t.
LEMMA RaisedEntry ==
    ASSUME NEW m, Shape(m), NEW t \in Tx, NEW d \in Int, NEW u \in Pool(m)
    PROVE  LET e == m.mapTx[u]
               r == Raised(m, t, d).mapTx[u]
           IN  /\ r \in RawEntry /\ r.parents = e.parents /\ r.children = e.children
               /\ r.mod = IF u = t THEN e.mod + d ELSE e.mod
               /\ r.count = e.count
               /\ r.fees = IF u = t \/ (t \in Pool(m) /\ u \in LinkedAncestors(m, t) /\ ~ IsDirty(e))
                           THEN e.fees + d ELSE e.fees
  <1> DEFINE e == m.mapTx[u]
             r == Raised(m, t, d).mapTx[u]
             Counts == t \in Pool(m) /\ u \in LinkedAncestors(m, t)
  <1>1. e \in RawEntry /\ e.count \in Int
    BY DEF Shape, RawEntry
  <1>2. r = IF u = t THEN Repriced(e, d) ELSE IF Counts THEN UpdateState(e, d, 0) ELSE e
    BY DEF Raised, Repriced
  <1> HIDE DEF e, r, Counts
  <1>3. CASE u = t
    <2>1. r = Repriced(e, d)
      BY <1>2, <1>3
    <2>2. /\ r \in RawEntry /\ r.parents = e.parents /\ r.children = e.children
          /\ r.count = e.count /\ r.mod = e.mod + d /\ r.fees = e.fees + d
      BY <1>1, <2>1, RepricedIs
    <2> QED BY <1>3, <2>2 DEF e, r
  <1>4. CASE u # t /\ Counts
    <2>0. 0 \in Int
      OBVIOUS
    <2>1. r = UpdateState(e, d, 0)
      BY <1>2, <1>4
    <2>2. /\ r \in RawEntry /\ r.parents = e.parents /\ r.children = e.children /\ r.mod = e.mod
      BY <1>1, <2>0, <2>1, UpdateStateKeeps
    <2>3. IsDirty(e) => r = e
      BY <1>1, <2>0, <2>1, UpdatedTotals
    <2>4. ~ IsDirty(e) => r.count = e.count /\ r.fees = e.fees + d
      <3>1. ~ IsDirty(e) => r.count = e.count + 0 /\ r.fees = e.fees + d
        BY <1>1, <2>0, <2>1, UpdatedTotals
      <3> QED BY <1>1, <3>1
    <2> QED BY <1>4, <2>2, <2>3, <2>4 DEF e, r, Counts
  <1>5. CASE u # t /\ ~ Counts
    <2>1. r = e
      BY <1>2, <1>5
    <2> QED BY <1>1, <1>5, <2>1 DEF e, r, Counts
  <1> QED BY <1>3, <1>4, <1>5

\* prioritisetransaction changes the fee of the transaction, and the totals of its ancestors
\* by as much.
LEMMA RaisedSettled ==
    ASSUME NEW m, NEW C, Settled(m, C), NEW t \in Tx, NEW d \in Int
    PROVE  Settled(Raised(m, t, d), C) /\ Pool(Raised(m, t, d)) = Pool(m)
  <1> DEFINE n == Raised(m, t, d)
  <1>0. Shape(m) /\ Spending(m) /\ Links(m, {}, {}) /\ Priced(m) /\ Exact(m) /\ Sourced(m, C)
    BY DEF Settled, Kept
  <1>1. /\ Pool(n) = Pool(m) /\ n.mapNextTx = m.mapNextTx
        /\ n.mapDeltas = [m.mapDeltas EXCEPT ![t] = @ + d]
    BY DEF Raised, Pool
  <1>2. \A u \in Pool(m) :
           /\ n.mapTx[u] \in RawEntry /\ n.mapTx[u].parents = m.mapTx[u].parents
           /\ n.mapTx[u].children = m.mapTx[u].children
           /\ n.mapTx[u].mod = IF u = t THEN m.mapTx[u].mod + d ELSE m.mapTx[u].mod
           /\ n.mapTx[u].count = m.mapTx[u].count
           /\ n.mapTx[u].fees =
                 IF u = t \/ (t \in Pool(m) /\ u \in LinkedAncestors(m, t) /\ ~ IsDirty(m.mapTx[u]))
                 THEN m.mapTx[u].fees + d ELSE m.mapTx[u].fees
    BY <1>0, RaisedEntry
  <1> HIDE DEF n
  <1>3. Shape(n)
    <2>1. n.mapDeltas \in [Tx -> Int]
      <3>1. m.mapDeltas \in [Tx -> Int] /\ m.mapDeltas[t] + d \in Int
        BY <1>0 DEF Shape
      <3> QED BY <1>1, <3>1
    <2> QED BY <1>0, <1>1, <1>2, <2>1 DEF Shape
  <1>4. Spending(n)
    BY <1>0, <1>1 DEF Spending
  <1>5. Links(n, {}, {})
    BY <1>0, <1>1, <1>2 DEF Links
  <1>6. Priced(n)
    <2>1. ASSUME NEW u \in Pool(m)
          PROVE  n.mapTx[u].mod = ModifiedFee(n, u)
      <3>0. /\ u \in Tx /\ m.mapDeltas \in [Tx -> Int] /\ Fee[u] \in Int
            /\ m.mapTx[u].mod = Fee[u] + m.mapDeltas[u]
        BY <1>0, TxAssumption DEF Shape, Priced, ModifiedFee
      <3>1. n.mapDeltas[u] = IF u = t THEN m.mapDeltas[u] + d ELSE m.mapDeltas[u]
        BY <1>1, <3>0
      <3>2. m.mapDeltas[u] \in Int
        BY <3>0
      <3>3. n.mapTx[u].mod = Fee[u] + n.mapDeltas[u]
        BY <1>2, <3>0, <3>1, <3>2
      <3> QED BY <3>3 DEF ModifiedFee
    <2> QED BY <1>1, <2>1 DEF Priced
  <1>7. \A u : Desc(n, u) = Desc(m, u)
    <2>1. ChildLinks(n) = ChildLinks(m)
      BY <1>1, <1>2 DEF ChildLinks
    <2> QED BY <2>1 DEF Desc
  <1>8. \A u \in Pool(m) : /\ Mods(m)[u] = m.mapTx[u].mod /\ Mods(m)[u] \in Int
                           /\ Mods(n)[u] = IF u = t THEN Mods(m)[u] + d ELSE Mods(m)[u]
    <2>1. \A u \in Pool(m) : Mods(m)[u] = m.mapTx[u].mod /\ Mods(m)[u] \in Int
      BY <1>0, ModsInt
    <2>2. \A u \in Pool(m) : Mods(n)[u] = n.mapTx[u].mod
      BY <1>1 DEF Mods
    <2> QED BY <1>2, <2>1, <2>2
  <1>9. ASSUME NEW u \in Pool(m)
        PROVE  IF IsDirty(n.mapTx[u]) THEN n.mapTx[u].fees = n.mapTx[u].mod
               ELSE /\ n.mapTx[u].count = Cardinality(Desc(n, u))
                    /\ n.mapTx[u].fees = Sum(Desc(n, u), Mods(n))
    <2> DEFINE D == Desc(m, u)
    <2>0. Desc(n, u) = D
      BY <1>7
    <2>1. D \subseteq Pool(m) /\ u \in D
      BY <1>0, DescFacts
    <2>2. IF IsDirty(m.mapTx[u]) THEN m.mapTx[u].fees = m.mapTx[u].mod
          ELSE m.mapTx[u].count = Cardinality(D) /\ m.mapTx[u].fees = Sum(D, Mods(m))
      BY <1>0 DEF Exact
    <2>3. t \in Pool(m) => (t \in D <=> t = u \/ u \in LinkedAncestors(m, t))
      BY <1>0, Duality
    <2> HIDE DEF D
    <2>4. IsFiniteSet(D) /\ \A x \in D : Mods(m)[x] \in Int
      BY <1>0, <1>8, <2>1, PoolFinite
    <2>5. IsDirty(n.mapTx[u]) <=> IsDirty(m.mapTx[u])
      BY <1>2 DEF IsDirty
    <2>6. CASE t \in D
      <3>1. Sum(D, Mods(n)) = Sum(D, Mods(m)) + d
        <4>1. Mods(n)[t] = Mods(m)[t] + d /\ \A x \in D : x # t => Mods(n)[x] = Mods(m)[x]
          BY <1>8, <2>1, <2>6
        <4> QED BY <2>4, <2>6, <4>1, SumRaise
      <3>2. t = u \/ (t \in Pool(m) /\ u \in LinkedAncestors(m, t))
        BY <2>1, <2>3, <2>6
      <3>3. CASE IsDirty(m.mapTx[u])
        <4>1. m.mapTx[u].fees = m.mapTx[u].mod
          BY <2>2, <3>3
        <4> QED BY <1>2, <2>5, <3>3, <4>1
      <3>4. CASE ~ IsDirty(m.mapTx[u])
        <4>1. n.mapTx[u].fees = m.mapTx[u].fees + d /\ n.mapTx[u].count = m.mapTx[u].count
          BY <1>2, <3>2, <3>4
        <4>2. m.mapTx[u].count = Cardinality(D) /\ m.mapTx[u].fees = Sum(D, Mods(m))
          BY <2>2, <3>4
        <4> QED BY <2>0, <2>5, <3>1, <3>4, <4>1, <4>2
      <3> QED BY <3>3, <3>4
    <2>7. CASE t \notin D
      <3>1. u # t
        BY <2>1, <2>7
      <3>2. ~ (t \in Pool(m) /\ u \in LinkedAncestors(m, t))
        BY <2>3, <2>7
      <3>3. Sum(D, Mods(n)) = Sum(D, Mods(m))
        <4>1. \A x \in D : Mods(n)[x] = Mods(m)[x]
          BY <1>8, <2>1, <2>7
        <4> QED BY <2>4, <4>1, SumSame
      <3>4. /\ n.mapTx[u].fees = m.mapTx[u].fees /\ n.mapTx[u].mod = m.mapTx[u].mod
            /\ n.mapTx[u].count = m.mapTx[u].count
        BY <1>2, <3>1, <3>2
      <3> QED BY <2>0, <2>2, <2>5, <3>3, <3>4
    <2> QED BY <2>6, <2>7
  <1>10. Exact(n)
    BY <1>1, <1>9 DEF Exact
  <1>11. Sourced(n, C)
    BY <1>0, <1>1 DEF Sourced
  <1>12. Settled(n, C)
    BY <1>3, <1>4, <1>5, <1>6, <1>10, <1>11 DEF Settled, Kept
  <1> QED BY <1>1, <1>12 DEF n

-----------------------------------------------------------------------------
\* The inductive invariant and the steps.

PoolInv == /\ ChainOk(chain)
           /\ Settled(mempool, Confirmed(chain))
           /\ stage \in {"idle", "step", "connect", "invalidate"}

\* The invariant holds at the start.
LEMMA InitStep ==
    ASSUME Init
    PROVE  PoolInv /\ Pool(mempool) = {}
  <1> DEFINE m == mempool
  <1>1. /\ Pool(m) = {} /\ DOMAIN m.mapNextTx = {} /\ m.mapDeltas \in [Tx -> Int]
    BY DEF Init, Pool
  <1>2. chain = <<>> /\ ChainOk(chain)
    <2>1. MaxHeight \in Nat /\ <<>> \in Seq(Seq(Tx)) /\ Len(<<>>) = 0 /\ DOMAIN <<>> = {}
      BY BoundAssumption
    <2> QED BY <2>1 DEF Init, ChainOk
  <1> HIDE DEF m
  <1>3. Settled(m, Confirmed(chain))
    BY <1>1 DEF Settled, Kept, Shape, Spending, Links, Priced, Exact, Sourced
  <1> QED BY <1>1, <1>2, <1>3 DEF Init, PoolInv, m

\* AcceptToMemoryPool keeps the invariant, with no more than MaxPool and the new one only.
LEMMA AcceptStep ==
    ASSUME PoolInv, NEW t \in Tx, AcceptToMemoryPool(t)
    PROVE  /\ PoolInv' /\ Cardinality(Pool(mempool')) <= MaxPool
           /\ Pool(mempool') \subseteq Pool(Cleared(mempool, t)) \cup {t}
  <1>1. PICK n : n = mempool'
    OBVIOUS
  <1>2. PICK m : m = mempool
    OBVIOUS
  <1>3. PICK c : c = chain
    OBVIOUS
  <1>4. /\ ChainOk(c) /\ Settled(m, Confirmed(c)) /\ Acceptable(m, c, Len(c) + 1, t)
        /\ n \in LimitMempoolSize(Accepted(m, t), Tx \ {t})
    BY <1>1, <1>2, <1>3 DEF PoolInv, AcceptToMemoryPool
  <1>5. /\ Settled(Accepted(m, t), Confirmed(c))
        /\ Pool(Accepted(m, t)) = Pool(Cleared(m, t)) \cup {t}
    BY <1>4, AcceptSettled
  <1>6. /\ Settled(n, Confirmed(c)) /\ Pool(n) \subseteq Pool(Accepted(m, t))
        /\ Cardinality(Pool(n)) <= MaxPool
    BY <1>4, <1>5, LimitSettled
  <1>7. PoolInv'
    <2>1. chain' = c /\ stage' = stage
      BY <1>3 DEF AcceptToMemoryPool
    <2> QED BY <1>1, <1>4, <1>6, <2>1 DEF PoolInv
  <1> QED BY <1>1, <1>2, <1>5, <1>6, <1>7

\* PrioritiseTransaction keeps the invariant and the pool.
LEMMA PrioritiseStep ==
    ASSUME PoolInv, NEW t \in Prioritised, NEW d \in Deltas, PrioritiseTransaction(t, d)
    PROVE  PoolInv' /\ Pool(mempool') = Pool(mempool)
  <1>1. mempool' = Raised(mempool, t, d) /\ chain' = chain /\ stage' = stage
    BY DEF PrioritiseTransaction, Raised
  <1>2. t \in Tx /\ d \in Int
    BY TxAssumption, BoundAssumption
  <1>3. Settled(mempool, Confirmed(chain))
    BY DEF PoolInv
  <1>4. /\ Settled(Raised(mempool, t, d), Confirmed(chain))
        /\ Pool(Raised(mempool, t, d)) = Pool(mempool)
    BY <1>2, <1>3, RaisedSettled
  <1> QED BY <1>1, <1>4 DEF PoolInv

\* ConnectTip keeps the invariant, adds nothing to the pool and puts a sound block on top.
LEMMA ConnectStep ==
    ASSUME PoolInv, NEW S \in SUBSET (Tx \ ToSet(CoinBase)), NEW vtx \in SetToSeqs(S), ConnectTip(vtx)
    PROVE  /\ PoolInv' /\ Pool(mempool') \subseteq Pool(mempool) /\ chain' # chain
           /\ \E b : /\ Sound(Confirmed(chain), Len(chain) + 1, b)
                     /\ chain' = Append(chain, b)
  <1> DEFINE b == <<CoinBase[Len(chain) + 1]>> \o vtx
  <1>1. ChainOk(chain) /\ Len(chain) < MaxHeight /\ Settled(mempool, Confirmed(chain))
    BY DEF PoolInv, ConnectTip
  <1>2. Sound(Confirmed(chain), Len(chain) + 1, b)
    BY <1>1, BlockSound DEF ConnectTip
  <1>3. PICK kept : mempool' = removeForBlock(mempool, b, kept)
    BY DEF ConnectTip
  <1>4. chain' = Append(chain, b)
    BY DEF ConnectTip
  <1> HIDE DEF b
  <1>5. /\ Settled(removeForBlock(mempool, b, kept), Confirmed(chain) \cup ToSet(b))
        /\ Pool(removeForBlock(mempool, b, kept)) \subseteq Pool(mempool)
    BY <1>1, <1>2, RemoveForBlockSettled
  <1>6. ChainOk(Append(chain, b))
    BY <1>1, <1>2, ChainAppend
  <1>7. /\ Confirmed(Append(chain, b)) = Confirmed(chain) \cup ToSet(b)
        /\ Len(Append(chain, b)) = Len(chain) + 1
    BY <1>1, <1>2, AppendIs DEF ChainOk, Sound
  <1>8. stage' \in {"idle", "step", "connect", "invalidate"}
    BY DEF ConnectTip
  <1>9. Settled(mempool', Confirmed(chain'))
    <2>1. Settled(removeForBlock(mempool, b, kept), Confirmed(Append(chain, b)))
      BY <1>5, <1>7
    <2> QED BY <1>3, <1>4, <2>1
  <1>10. PoolInv'
    BY <1>4, <1>6, <1>8, <1>9 DEF PoolInv
  <1>11. chain' # chain
    <2>1. Len(chain) \in Nat
      BY <1>1 DEF ChainOk
    <2> QED BY <1>4, <1>7, <2>1
  <1> QED BY <1>2, <1>3, <1>4, <1>5, <1>10, <1>11

\* DisconnectTip keeps the invariant, in the middle of a reorganisation too.
LEMMA DisconnectStep ==
    ASSUME PoolInv, NEW next \in {"step", "invalidate"}, DisconnectTip(next)
    PROVE  PoolInv' /\ chain' # chain /\ stage' # "idle"
  <1>1. ChainOk(chain) /\ chain # <<>> /\ Settled(mempool, Confirmed(chain))
    BY DEF PoolInv, DisconnectTip
  <1>2. chain' = Front(chain) /\ stage' = next
    BY DEF DisconnectTip
  <1>3. PICK passed :
           LET back == Resurrected(mempool, Front(chain), Len(chain) + 1, Last(chain), passed)
           IN  mempool' = UpdateTransactionsFromBlock(back.pool, back.vHashUpdate)
    BY DEF DisconnectTip
  <1> DEFINE h == Len(chain) + 1
             back == Resurrected(mempool, Front(chain), h, Last(chain), passed)
             n == UpdateTransactionsFromBlock(back.pool, back.vHashUpdate)
  <1>4. Settled(n, Confirmed(Front(chain)))
    <2> HIDE DEF h
    <2> QED BY <1>1, DisconnectSettled
  <1>5. mempool' = n
    BY <1>3
  <1> HIDE DEF n
  <1>6. ChainOk(Front(chain))
    BY <1>1, ChainFront
  <1>7. chain' # chain
    <2>1. Len(Front(chain)) = Len(chain) - 1 /\ Len(chain) \in Nat
      BY <1>1, FrontIs DEF ChainOk
    <2> QED BY <1>2, <2>1
  <1>8. PoolInv'
    BY <1>2, <1>4, <1>5, <1>6 DEF PoolInv
  <1> QED BY <1>2, <1>7, <1>8

\* The end of a reorganisation keeps the invariant, limits the pool and takes out what could
\* not be mined.
LEMMA FinishStepStep ==
    ASSUME PoolInv, FinishStep
    PROVE  /\ PoolInv' /\ Cardinality(Pool(mempool')) <= MaxPool
           /\ \A t \in Pool(mempool') : ~ NotMineable(chain, Len(chain) + 1, mempool, t)
  <1>1. PICK n : n = mempool'
    OBVIOUS
  <1>2. PICK m : m = mempool
    OBVIOUS
  <1>3. PICK c : c = chain
    OBVIOUS
  <1>4. /\ ChainOk(c) /\ Settled(m, Confirmed(c)) /\ n \in LimitMempoolSize(removeForReorg(m, c), Tx)
    BY <1>1, <1>2, <1>3 DEF PoolInv, FinishStep
  <1>5. /\ Settled(removeForReorg(m, c), Confirmed(c))
        /\ \A t \in Pool(removeForReorg(m, c)) : ~ NotMineable(c, Len(c) + 1, m, t)
    BY <1>4, ReorgSettled
  <1>6. /\ Settled(n, Confirmed(c)) /\ Pool(n) \subseteq Pool(removeForReorg(m, c))
        /\ Cardinality(Pool(n)) <= MaxPool
    BY <1>4, <1>5, LimitSettled
  <1>7. PoolInv'
    <2>1. chain' = c /\ stage' = "idle"
      BY <1>3 DEF FinishStep
    <2> QED BY <1>1, <1>4, <1>6, <2>1 DEF PoolInv
  <1> QED BY <1>1, <1>2, <1>3, <1>5, <1>6, <1>7

\* The end of InvalidateBlock does the same in the other order.
LEMMA FinishInvalidateStep ==
    ASSUME PoolInv, FinishInvalidate
    PROVE  /\ PoolInv' /\ Cardinality(Pool(mempool')) <= MaxPool
           /\ \E l : \A t \in Pool(mempool') : ~ NotMineable(chain, Len(chain) + 1, l, t)
  <1>1. PICK n : n = mempool'
    OBVIOUS
  <1>2. PICK m : m = mempool
    OBVIOUS
  <1>3. PICK c : c = chain
    OBVIOUS
  <1>4. /\ ChainOk(c) /\ Settled(m, Confirmed(c))
        /\ \E l \in LimitMempoolSize(m, Tx) : n = removeForReorg(l, c)
    BY <1>1, <1>2, <1>3 DEF PoolInv, FinishInvalidate
  <1>5. PICK l \in LimitMempoolSize(m, Tx) : n = removeForReorg(l, c)
    BY <1>4
  <1>6. Settled(l, Confirmed(c)) /\ Cardinality(Pool(l)) <= MaxPool
    BY <1>4, LimitSettled
  <1>7. /\ Settled(n, Confirmed(c)) /\ Pool(n) \subseteq Pool(l)
        /\ \A t \in Pool(n) : ~ NotMineable(c, Len(c) + 1, l, t)
    BY <1>5, <1>6, ReorgSettled
  <1>8. Cardinality(Pool(n)) <= MaxPool
    <2>1. IsFiniteSet(Pool(l))
      BY <1>6, PoolFinite DEF Settled, Kept
    <2>2. /\ Cardinality(Pool(n)) \in Nat /\ Cardinality(Pool(l)) \in Nat
          /\ Cardinality(Pool(n)) <= Cardinality(Pool(l))
      BY <1>7, <2>1, FewerElements
    <2> QED BY <1>6, <2>2, BoundAssumption
  <1>9. PoolInv'
    <2>1. chain' = c /\ stage' = "idle"
      BY <1>3 DEF FinishInvalidate
    <2> QED BY <1>1, <1>4, <1>7, <2>1 DEF PoolInv
  <1> QED BY <1>1, <1>3, <1>7, <1>8, <1>9

\* Every step keeps the invariant.
LEMMA PoolInvStep ==
    ASSUME PoolInv, [Next]_vars
    PROVE  PoolInv'
  <1>1. ASSUME NEW t \in Tx, AcceptToMemoryPool(t) PROVE PoolInv'
    BY <1>1, AcceptStep
  <1>2. ASSUME NEW t \in Prioritised, NEW d \in Deltas, PrioritiseTransaction(t, d) PROVE PoolInv'
    BY <1>2, PrioritiseStep
  <1>3. ASSUME NEW S \in SUBSET (Tx \ ToSet(CoinBase)), NEW vtx \in SetToSeqs(S), ConnectTip(vtx)
        PROVE  PoolInv'
    BY <1>3, ConnectStep
  <1>4. ASSUME NEW next \in {"step", "invalidate"}, DisconnectTip(next) PROVE PoolInv'
    BY <1>4, DisconnectStep
  <1>5. CASE FinishStep
    BY <1>5, FinishStepStep
  <1>6. CASE FinishInvalidate
    BY <1>6, FinishInvalidateStep
  <1>7. CASE UNCHANGED vars
    BY <1>7 DEF vars, PoolInv
  <1> QED BY <1>1, <1>2, <1>3, <1>4, <1>5, <1>6, <1>7 DEF Next

\* In every state, also between two steps of a reorganisation, the pool's links, totals,
\* mapNextTx and fees are right and it fits the chain (PoolInv), whatever came in, was replaced,
\* prioritised, mined, disconnected or evicted.
THEOREM PoolKept == Spec => []PoolInv
  <1>1. Init => PoolInv
    BY InitStep
  <1>2. PoolInv /\ [Next]_vars => PoolInv'
    BY PoolInvStep
  <1> QED BY <1>1, <1>2, PTL DEF Spec

-----------------------------------------------------------------------------
\* What the invariant says of the pool.

\* By the invariant the links are those of the transactions themselves.
LEMMA PoolInvLinks ==
    ASSUME PoolInv
    PROVE  LinksExact
  <1>1. Links(mempool, {}, {})
    BY DEF PoolInv, Settled, Kept
  <1>2. \A x, y : Linked({}, {}, x, y) <=> x \in Parents(y)
    BY DEF Linked
  <1>3. ASSUME NEW t \in Pool(mempool)
        PROVE  /\ mempool.mapTx[t].parents = Parents(t) \cap Pool(mempool)
               /\ mempool.mapTx[t].children = {u \in Pool(mempool) : t \in Parents(u)}
    <2>1. /\ mempool.mapTx[t].children = {u \in Pool(mempool) : Linked({}, {}, t, u)}
          /\ mempool.mapTx[t].parents = {u \in Pool(mempool) : Linked({}, {}, u, t)}
      BY <1>1 DEF Links
    <2> QED BY <1>2, <2>1
  <1> QED BY <1>3 DEF LinksExact

\* By the invariant the descendants by links are those by what the transactions spend.
LEMMA PoolInvDescendants ==
    ASSUME PoolInv
    PROVE  /\ \A t : Descendants(t) = Desc(mempool, t)
           /\ Fees = Mods(mempool)
  <1>1. ChildLinks(mempool) = [p \in Pool(mempool) |-> {u \in Pool(mempool) : p \in Parents(u)}]
    BY PoolInvLinks DEF LinksExact, ChildLinks
  <1>2. Fees = Mods(mempool)
    BY DEF PoolInv, Settled, Kept, Priced, Fees, Mods
  <1> QED BY <1>1, <1>2 DEF Descendants, Desc

\* By the invariant the totals are those of the descendants.
LEMMA PoolInvTotals ==
    ASSUME PoolInv
    PROVE  TotalsExact
  <1>1. Exact(mempool) /\ Priced(mempool)
    BY DEF PoolInv, Settled, Kept
  <1>2. ASSUME NEW t \in Pool(mempool)
        PROVE  /\ mempool.mapTx[t].mod = Fees[t]
               /\ IF IsDirty(mempool.mapTx[t]) THEN mempool.mapTx[t].fees = mempool.mapTx[t].mod
                  ELSE /\ mempool.mapTx[t].count = Cardinality(Descendants(t))
                       /\ mempool.mapTx[t].fees = Sum(Descendants(t), Fees)
    <2>1. mempool.mapTx[t].mod = Fees[t]
      BY <1>1 DEF Priced, Fees
    <2>2. Descendants(t) = Desc(mempool, t) /\ Fees = Mods(mempool)
      BY PoolInvDescendants
    <2> QED BY <1>1, <2>1, <2>2 DEF Exact
  <1> QED BY <1>2 DEF TotalsExact

\* By the invariant the inputs of the pool are there to be spent.
LEMMA PoolInvInputs ==
    ASSUME PoolInv
    PROVE  InputsAvailable
  <1> DEFINE m == mempool
             C == Confirmed(chain)
  <1>1. Shape(m) /\ Spending(m) /\ Sourced(m, C)
    BY DEF PoolInv, Settled, Kept
  <1>2. ASSUME NEW t \in Pool(m), NEW o \in Vin[t]
        PROVE  o[1] \in Pool(m) \/ o \in Unspent(chain)
    <2>1. o \notin Spent(C) /\ (o[1] \in Pool(m) \/ o \in Base \/ o[1] \in C)
      BY <1>1 DEF Sourced
    <2>2. t \in Tx
      BY <1>1 DEF Shape
    <2>3. o \in Base \/ o \in Outputs(o[1])
      BY <2>2, InputsFrom
    <2> QED BY <2>1, <2>3 DEF Unspent, Left, Spent
  <1>3. \A t \in Pool(m) : t \notin C
    BY <1>1 DEF Sourced
  <1> QED BY <1>1, <1>2, <1>3 DEF InputsAvailable, Spending

\* By the invariant the variables have their types.
LEMMA PoolInvTyped ==
    ASSUME PoolInv
    PROVE  TypeOK
  <1> DEFINE m == mempool
  <1>1. Shape(m) /\ Spending(m) /\ Links(m, {}, {}) /\ Exact(m)
    BY DEF PoolInv, Settled, Kept
  <1>2. ASSUME NEW t \in Pool(m)
        PROVE  /\ m.mapTx[t] \in Entry /\ m.mapTx[t].parents \subseteq Pool(m)
               /\ m.mapTx[t].children \subseteq Pool(m)
    <2>1. m.mapTx[t].count \in Nat
      <3>1. CASE IsDirty(m.mapTx[t])
        BY <3>1 DEF IsDirty
      <3>2. CASE ~ IsDirty(m.mapTx[t])
        <4>1. m.mapTx[t].count = Cardinality(Desc(m, t))
          BY <1>1, <3>2 DEF Exact
        <4>2. Desc(m, t) \subseteq Pool(m)
          BY <1>1, DescFacts
        <4> QED BY <1>1, <4>1, <4>2, PoolFinite
      <3> QED BY <3>1, <3>2
    <2>2. m.mapTx[t] \in RawEntry
      BY <1>1 DEF Shape
    <2>3. m.mapTx[t] \in Entry
      BY <2>1, <2>2 DEF RawEntry, Entry
    <2> QED BY <1>1, <2>3 DEF Links
  <1> QED BY <1>1, <1>2 DEF TypeOK, PoolInv, ChainOk, Shape, Spending

\* The variables have their types, and links and mapNextTx name transactions of the pool only
\* (they hold iterators and pointers into mapTx).
THEOREM PoolTyped == Spec => []TypeOK
  BY PoolKept, PoolInvTyped, PTL

\* Whatever comes, leaves or comes back in a reorganisation, the links of the pool are those of
\* the transactions themselves (addUnchecked, UpdateForRemoveFromMempool and
\* UpdateTransactionsFromBlock together).
THEOREM LinksAgree == Spec => []LinksExact
  BY PoolKept, PoolInvLinks, PTL

\* The count and fees of every entry that is not dirty are those of all its descendants, with
\* their deltas, through acceptance, removal, prioritisetransaction and reorganisations.
THEOREM TotalsAgree == Spec => []TotalsExact
  BY PoolKept, PoolInvTotals, PTL

\* Pool and chain are free of conflicts: the inputs of the pool are unspent coins or outputs of
\* the pool, no two spend the same one, and mapNextTx says which (removeForBlock,
\* removeConflicts, DisconnectTip).
THEOREM NoConflicts == Spec => []InputsAvailable
  BY PoolKept, PoolInvInputs, PTL

\* Outside a reorganisation LimitMempoolSize has kept the pool within -maxmempool.
THEOREM PoolBounded == Spec => []SizeBounded
  <1>1. Init => SizeBounded
    BY InitStep, FS_EmptySet, BoundAssumption DEF SizeBounded
  <1>2. ASSUME PoolInv, SizeBounded, [Next]_vars
        PROVE  SizeBounded'
    <2>0. ASSUME Pool(mempool') \subseteq Pool(mempool), stage = "idle"
          PROVE  Cardinality(Pool(mempool')) <= MaxPool
      <3>1. IsFiniteSet(Pool(mempool))
        BY <1>2, PoolFinite DEF PoolInv, Settled, Kept
      <3>2. /\ Cardinality(Pool(mempool')) \in Nat /\ Cardinality(Pool(mempool)) \in Nat
            /\ Cardinality(Pool(mempool')) <= Cardinality(Pool(mempool))
        BY <2>0, <3>1, FewerElements
      <3> QED BY <1>2, <2>0, <3>2, BoundAssumption DEF SizeBounded
    <2>1. ASSUME NEW t \in Tx, AcceptToMemoryPool(t) PROVE SizeBounded'
      BY <1>2, <2>1, AcceptStep DEF SizeBounded
    <2>2. ASSUME NEW t \in Prioritised, NEW d \in Deltas, PrioritiseTransaction(t, d)
          PROVE  SizeBounded'
      <3>1. Pool(mempool') = Pool(mempool) /\ stage = "idle"
        BY <1>2, <2>2, PrioritiseStep DEF PrioritiseTransaction
      <3> QED BY <2>0, <3>1 DEF SizeBounded
    <2>3. ASSUME NEW S \in SUBSET (Tx \ ToSet(CoinBase)), NEW vtx \in SetToSeqs(S), ConnectTip(vtx)
          PROVE  SizeBounded'
      <3>1. Pool(mempool') \subseteq Pool(mempool)
        BY <1>2, <2>3, ConnectStep
      <3>2. stage' = "idle" => stage = "idle"
        BY <2>3 DEF ConnectTip
      <3> QED BY <2>0, <3>1, <3>2 DEF SizeBounded
    <2>4. ASSUME NEW next \in {"step", "invalidate"}, DisconnectTip(next) PROVE SizeBounded'
      BY <1>2, <2>4, DisconnectStep DEF SizeBounded
    <2>5. CASE FinishStep
      BY <1>2, <2>5, FinishStepStep DEF SizeBounded
    <2>6. CASE FinishInvalidate
      BY <1>2, <2>6, FinishInvalidateStep DEF SizeBounded
    <2>7. CASE UNCHANGED vars
      BY <1>2, <2>7 DEF vars, SizeBounded
    <2> QED BY <1>2, <2>1, <2>2, <2>3, <2>4, <2>5, <2>6, <2>7 DEF Next
  <1> QED BY <1>1, <1>2, PoolKept, PTL DEF Spec


\* The first transaction of a block of the chain is the coinbase of its height.
LEMMA CoinHeightIs ==
    ASSUME NEW c, ChainOk(c), NEW i \in DOMAIN c
    PROVE  c[i][1] = CoinBase[i] /\ CoinHeight(c, CoinBase[i]) = i
  <1>1. \A j \in DOMAIN c : c[j][1] = CoinBase[j]
    <2>1. \A j \in DOMAIN c : Sound(Below(c, j), j, c[j])
      BY DEF ChainOk
    <2>2. \A j : Sound(Below(c, j), j, c[j]) => c[j][1] = CoinBase[j]
      BY DEF Sound
    <2> QED BY <2>1, <2>2
  <1>2. DOMAIN c \subseteq DOMAIN CoinBase
    <2>1. c \in Seq(Seq(Tx)) /\ Len(c) <= MaxHeight
      BY DEF ChainOk
    <2>2. CoinBase \in Seq(Tx) /\ Len(CoinBase) = MaxHeight /\ MaxHeight \in Nat
      BY TxAssumption, BoundAssumption
    <2>3. DOMAIN c = 1 .. Len(c) /\ Len(c) \in Nat
      BY <2>1
    <2> QED BY <2>1, <2>2, <2>3
  <1>3. \A j \in DOMAIN c : c[j][1] = CoinBase[i] <=> j = i
    BY <1>1, <1>2, HashAssumption
  <1> QED BY <1>1, <1>3 DEF CoinHeight

\* The immature coinbases are those near the tip, by their heights.
LEMMA ImmatureIs ==
    ASSUME NEW c, ChainOk(c), NEW t, NEW h
    PROVE  Immature(c, t, h) <=> \E i \in DOMAIN c : CoinBase[i] \in Parents(t) /\ h - i < Maturity
  BY CoinHeightIs DEF Immature

\* What could be in the next block still can when a block came in between.
LEMMA StillMineable ==
    ASSUME NEW c, ChainOk(c), NEW b, Sound(Confirmed(c), Len(c) + 1, b), ChainOk(Append(c, b)),
           NEW m, Settled(m, Confirmed(c)), NEW t \in Pool(m),
           CheckFinalTx(t, Len(c) + 1), ~ Immature(c, t, Len(c) + 1)
    PROVE  LET d == Append(c, b)
           IN  CheckFinalTx(t, Len(d) + 1) /\ ~ Immature(d, t, Len(d) + 1)
  <1> DEFINE d == Append(c, b)
             h == Len(c) + 1
             C == Confirmed(c)
  <1>1. /\ Len(c) \in Nat /\ DOMAIN c = 1 .. Len(c) /\ Len(d) = h /\ DOMAIN d = 1 .. h
        /\ Len(CoinBase) = MaxHeight /\ CoinBase \in Seq(Tx) /\ MaxHeight \in Nat /\ Maturity \in Nat
    <2>1. c \in Seq(Seq(Tx)) /\ b \in Seq(Tx)
      BY DEF ChainOk, Sound
    <2>2. d \in Seq(Seq(Tx)) /\ Len(d) = h
      BY <2>1, AppendIs
    <2> HIDE DEF d
    <2> QED BY <2>1, <2>2, TxAssumption, BoundAssumption
  <1> HIDE DEF d
  <1>2. t \in Tx /\ LockTime[t] \in Nat
    BY TxAssumption DEF Settled, Kept, Shape
  <1>3. CheckFinalTx(t, Len(d) + 1)
    BY <1>1, <1>2 DEF CheckFinalTx
  <1>4. ~ \E i \in DOMAIN c : CoinBase[i] \in Parents(t) /\ h - i < Maturity
    BY ImmatureIs
  <1>5. CoinBase[h] \notin Parents(t)
    <2>1. SUFFICES ASSUME NEW o \in Vin[t], o[1] = CoinBase[h] PROVE FALSE
      BY DEF Parents
    <2>2. h <= MaxHeight
      BY <1>1 DEF ChainOk, d
    <2>3. CoinBase[h] \in Tx /\ IsCoinBase(CoinBase[h])
      BY <1>1, <2>2 DEF IsCoinBase, ToSet
    <2>4. b[1] = CoinBase[h] /\ 1 \in DOMAIN b /\ b[1] \notin C
      BY DEF Sound
    <2>5. o[1] \in Pool(m) \/ o \in Base \/ o[1] \in C
      BY DEF Settled, Sourced
    <2>6. o[1] \notin Pool(m)
      BY <2>1, <2>3 DEF Settled, Sourced
    <2> QED BY <2>1, <2>3, <2>4, <2>5, <2>6, HashAssumption
  <1>6. ASSUME NEW i \in DOMAIN d, CoinBase[i] \in Parents(t), h + 1 - i < Maturity
        PROVE  FALSE
    <2>1. i # h
      BY <1>5, <1>6
    <2>2. i \in DOMAIN c /\ h - i < Maturity
      BY <1>1, <1>6, <2>1
    <2> QED BY <1>4, <1>6, <2>2
  <1>7. ChainOk(d)
    BY DEF d
  <1>8. ~ Immature(d, t, Len(d) + 1)
    BY <1>1, <1>6, <1>7, ImmatureIs
  <1> QED BY <1>3, <1>8 DEF d

\* What removeForReorg leaves is final and spends mature coinbases only.
LEMMA MineableIs ==
    ASSUME NEW c, ChainOk(c), NEW h, NEW m, NEW t, ~ NotMineable(c, h, m, t)
    PROVE  CheckFinalTx(t, h) /\ ~ Immature(c, t, h)
  <1>1. CheckFinalTx(t, h)
    BY DEF NotMineable
  <1>2. ASSUME Immature(c, t, h)
        PROVE  FALSE
    <2>1. PICK i \in DOMAIN c : CoinBase[i] \in Parents(t)
      BY <1>2, ImmatureIs
    <2>2. i \in DOMAIN CoinBase
      <3>1. c \in Seq(Seq(Tx)) /\ Len(c) <= MaxHeight
        BY DEF ChainOk
      <3>2. CoinBase \in Seq(Tx) /\ Len(CoinBase) = MaxHeight /\ MaxHeight \in Nat
        BY TxAssumption, BoundAssumption
      <3>3. i \in 1 .. Len(c) /\ Len(c) \in Nat
        BY <3>1
      <3> QED BY <3>1, <3>2, <3>3
    <2>3. IsCoinBase(CoinBase[i])
      BY <2>2 DEF IsCoinBase, ToSet
    <2> QED BY <1>2, <2>1, <2>3 DEF NotMineable
  <1> QED BY <1>1, <1>2

\* Outside a reorganisation every transaction of the pool is final and spends mature coinbases
\* only, whatever blocks were connected and disconnected (AcceptToMemoryPool, removeForReorg).
THEOREM PoolMineable == Spec => []Mineable
  <1>1. Init => Mineable
    BY InitStep DEF Mineable
  <1>2. ASSUME PoolInv, Mineable, [Next]_vars
        PROVE  Mineable'
    <2>0. ChainOk(chain) /\ Settled(mempool, Confirmed(chain))
      BY <1>2 DEF PoolInv
    <2>1. ASSUME NEW t \in Tx, AcceptToMemoryPool(t) PROVE Mineable'
      <3>1. /\ Acceptable(mempool, chain, Len(chain) + 1, t) /\ chain' = chain /\ stage = "idle"
        BY <2>1 DEF AcceptToMemoryPool
      <3>2. CheckFinalTx(t, Len(chain) + 1) /\ ~ Immature(chain, t, Len(chain) + 1)
        BY <3>1 DEF Acceptable, InputsOk
      <3>3. Pool(mempool') \subseteq Pool(mempool) \cup {t}
        <4>1. Pool(mempool') \subseteq Pool(Cleared(mempool, t)) \cup {t}
          BY <1>2, <2>1, AcceptStep
        <4>2. Pool(Cleared(mempool, t)) \subseteq Pool(mempool)
          BY <2>0, ClearedIs DEF Settled
        <4> QED BY <4>1, <4>2
      <3> QED BY <1>2, <3>1, <3>2, <3>3 DEF Mineable
    <2>2. ASSUME NEW t \in Prioritised, NEW d \in Deltas, PrioritiseTransaction(t, d)
          PROVE  Mineable'
      <3>1. Pool(mempool') = Pool(mempool) /\ stage = "idle" /\ chain' = chain
        BY <1>2, <2>2, PrioritiseStep DEF PrioritiseTransaction
      <3> QED BY <1>2, <3>1 DEF Mineable
    <2>3. ASSUME NEW S \in SUBSET (Tx \ ToSet(CoinBase)), NEW vtx \in SetToSeqs(S), ConnectTip(vtx)
          PROVE  Mineable'
      <3>1. Pool(mempool') \subseteq Pool(mempool) /\ PoolInv'
        BY <1>2, <2>3, ConnectStep
      <3>2. PICK b : Sound(Confirmed(chain), Len(chain) + 1, b) /\ chain' = Append(chain, b)
        BY <1>2, <2>3, ConnectStep
      <3>3. ChainOk(Append(chain, b))
        BY <3>1, <3>2 DEF PoolInv
      <3>4. ASSUME stage' = "idle", NEW t \in Pool(mempool')
            PROVE  /\ CheckFinalTx(t, Len(Append(chain, b)) + 1)
                   /\ ~ Immature(Append(chain, b), t, Len(Append(chain, b)) + 1)
        <4>1. stage = "idle" /\ t \in Pool(mempool)
          BY <2>3, <3>1, <3>4 DEF ConnectTip
        <4>2. CheckFinalTx(t, Len(chain) + 1) /\ ~ Immature(chain, t, Len(chain) + 1)
          BY <1>2, <4>1 DEF Mineable
        <4> QED BY <2>0, <3>2, <3>3, <4>1, <4>2, StillMineable
      <3> QED BY <3>2, <3>4 DEF Mineable
    <2>4. ASSUME NEW next \in {"step", "invalidate"}, DisconnectTip(next) PROVE Mineable'
      BY <1>2, <2>4, DisconnectStep DEF Mineable
    <2>5. CASE FinishStep
      <3>1. \A t \in Pool(mempool') : ~ NotMineable(chain, Len(chain) + 1, mempool, t)
        BY <1>2, <2>5, FinishStepStep
      <3>2. chain' = chain
        BY <2>5 DEF FinishStep
      <3> QED BY <2>0, <3>1, <3>2, MineableIs DEF Mineable
    <2>6. CASE FinishInvalidate
      <3>1. PICK l : \A t \in Pool(mempool') : ~ NotMineable(chain, Len(chain) + 1, l, t)
        BY <1>2, <2>6, FinishInvalidateStep
      <3>2. chain' = chain
        BY <2>6 DEF FinishInvalidate
      <3> QED BY <2>0, <3>1, <3>2, MineableIs DEF Mineable
    <2>7. CASE UNCHANGED vars
      BY <1>2, <2>7 DEF vars, Mineable
    <2> QED BY <1>2, <2>1, <2>2, <2>3, <2>4, <2>5, <2>6, <2>7 DEF Next
  <1> QED BY <1>1, <1>2, PoolKept, PTL DEF Spec

-----------------------------------------------------------------------------
\* Replacement.

\* All that is below a set is what is below each of its transactions.
LEMMA DescendantsUnion ==
    ASSUME NEW m, NEW U, NEW I, Kept(m, U, I), NEW T \in SUBSET Pool(m)
    PROVE  CalculateDescendants(m, T) = UNION {Desc(m, x) : x \in T}
  <1> DEFINE A == CalculateDescendants(m, T)
             B == UNION {Desc(m, x) : x \in T}
  <1>1. Shape(m) /\ Links(m, U, I)
    BY DEF Kept
  <1>2. /\ T \subseteq A /\ A \in SUBSET Pool(m) /\ \A x \in A : ChildLinks(m)[x] \subseteq A
        /\ \A Q \in SUBSET Pool(m) : T \subseteq Q /\ (\A x \in Q : ChildLinks(m)[x] \subseteq Q)
                                    => A \subseteq Q
    BY DescendantsFacts
  <1>3. \A x \in T : /\ x \in Desc(m, x) /\ Desc(m, x) \subseteq Pool(m)
                     /\ \A y \in Desc(m, x) : ChildLinks(m)[y] \subseteq Desc(m, x)
    BY <1>1, DescFacts
  <1> HIDE DEF A
  <1>4. B \subseteq A
    <2>1. ASSUME NEW x \in T
          PROVE  Desc(m, x) \subseteq A
      BY <1>1, <1>2, DescFacts
    <2> QED BY <2>1
  <1>5. A \subseteq B
    <2>1. T \subseteq B /\ B \in SUBSET Pool(m)
      BY <1>3
    <2>2. \A y \in B : ChildLinks(m)[y] \subseteq B
      BY <1>3
    <2> HIDE DEF B
    <2> QED BY <1>2, <2>1, <2>2
  <1> QED BY <1>4, <1>5 DEF A

\* A transaction that comes in place of others pays more than all that leave for it, by at
\* least the fee for its own relay (the replacement rules of AcceptToMemoryPool).
THEOREM ReplacementPays == Spec => PaysForReplaced
  <1> DEFINE spent(t) == {u \in Pool(mempool) : Vin[u] \cap Vin[t] # {}}
             left(t) == UNION {Descendants(u) : u \in spent(t)}
             Fair(t) == (stage = "idle" /\ chain' = chain /\ spent(t) # {}
                         /\ t \in Pool(mempool') \ Pool(mempool))
                        => /\ left(t) \cap Pool(mempool') = {}
                           /\ ModifiedFee(mempool, t) >= Sum(left(t), Fees) + MinRelayFee
  <1>1. ASSUME PoolInv, [Next]_vars, NEW t \in Tx
        PROVE  Fair(t)
    <2>0. /\ Kept(mempool, {}, {}) /\ Exact(mempool) /\ Shape(mempool) /\ Spending(mempool)
      BY <1>1 DEF PoolInv, Settled, Kept
    <2>1. ASSUME NEW u \in Tx, AcceptToMemoryPool(u), spent(t) # {},
                 t \in Pool(mempool') \ Pool(mempool)
          PROVE  /\ left(t) \cap Pool(mempool') = {}
                 /\ ModifiedFee(mempool, t) >= Sum(left(t), Fees) + MinRelayFee
      <3> DEFINE T == Conflicts(mempool, t)
                 A == CalculateDescendants(mempool, T)
      <3>1. Pool(mempool') \subseteq Pool(Cleared(mempool, u)) \cup {u}
        BY <1>1, <2>1, AcceptStep
      <3>2. /\ Pool(Cleared(mempool, u)) = Pool(mempool) \ CalculateDescendants(mempool, Conflicts(mempool, u))
        BY <2>0, ClearedIs
      <3>3. t = u
        BY <2>1, <3>1, <3>2
      <3>4. T = spent(t) /\ T \in SUBSET Pool(mempool)
        BY <2>0, ConflictsAre
      <3>5. A = left(t)
        <4>1. A = UNION {Desc(mempool, x) : x \in T}
          BY <2>0, <3>4, DescendantsUnion
        <4>2. \A x : Descendants(x) = Desc(mempool, x)
          BY <1>1, PoolInvDescendants
        <4> QED BY <3>4, <4>1, <4>2
      <3>6. A \in SUBSET Pool(mempool)
        BY <2>0, <3>4, DescendantsFacts
      <3>7. left(t) \cap Pool(mempool') = {}
        <4>1. Pool(mempool') \subseteq (Pool(mempool) \ A) \cup {t}
          BY <3>1, <3>2, <3>3
        <4> QED BY <2>1, <3>5, <3>6, <4>1
      <3>8. Replaces(mempool, t)
        BY <2>1, <3>3, <3>4 DEF AcceptToMemoryPool, Acceptable
      <3>9. ModifiedFee(mempool, t) - Sum(A, Mods(mempool)) >= MinRelayFee
        BY <3>8 DEF Replaces
      <3>10. /\ ModifiedFee(mempool, t) \in Int /\ Sum(A, Mods(mempool)) \in Int
             /\ MinRelayFee \in Nat
        <4>1. ModifiedFee(mempool, t) \in Int
          BY <1>1, <2>0, ModifiedFeeInt
        <4>2. IsFiniteSet(A) /\ \A x \in A : Mods(mempool)[x] \in Int
          BY <2>0, <3>6, PoolFinite, ModsInt
        <4> HIDE DEF A
        <4>3. Sum(A, Mods(mempool)) \in Int
          BY <4>2, SumInt
        <4> QED BY <4>1, <4>3, BoundAssumption
      <3>11. Fees = Mods(mempool)
        BY <1>1, PoolInvDescendants
      <3> HIDE DEF A, T, left, spent
      <3>12. ModifiedFee(mempool, t) >= Sum(A, Mods(mempool)) + MinRelayFee
        BY <3>9, <3>10
      <3>13. Sum(A, Mods(mempool)) = Sum(left(t), Fees)
        BY <3>5, <3>11
      <3> QED BY <3>7, <3>12, <3>13
    <2>2. ASSUME NEW p \in Prioritised, NEW d \in Deltas, PrioritiseTransaction(p, d)
          PROVE  Fair(t)
      BY <1>1, <2>2, PrioritiseStep
    <2>3. ASSUME NEW S \in SUBSET (Tx \ ToSet(CoinBase)), NEW vtx \in SetToSeqs(S), ConnectTip(vtx)
          PROVE  Fair(t)
      BY <1>1, <2>3, ConnectStep
    <2>4. ASSUME NEW next \in {"step", "invalidate"}, DisconnectTip(next) PROVE Fair(t)
      BY <1>1, <2>4, DisconnectStep
    <2>5. CASE FinishStep
      BY <2>5 DEF FinishStep
    <2>6. CASE FinishInvalidate
      BY <2>6 DEF FinishInvalidate
    <2>7. CASE UNCHANGED vars
      BY <2>7 DEF vars
    <2>8. ASSUME NEW u \in Tx, AcceptToMemoryPool(u) PROVE Fair(t)
      BY <2>1, <2>8
    <2> HIDE DEF Fair
    <2> QED BY <1>1, <2>2, <2>3, <2>4, <2>5, <2>6, <2>7, <2>8 DEF Next
  <1>2. PoolInv /\ [Next]_vars => [\A t \in Tx : Fair(t)]_vars
    BY <1>1
  <1> QED BY <1>2, PoolKept, PTL DEF Spec, PaysForReplaced
=============================================================================
