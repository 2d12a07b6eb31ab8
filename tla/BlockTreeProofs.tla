--------------------------- MODULE BlockTreeProofs ---------------------------
(***************************************************************************)
(* Theorems about BlockTree, for any number of blocks and threads: which   *)
(* blocks are marked as failed, the types and the bits of nStatus, which   *)
(* blocks have an nChainTx, and which are candidates.                      *)
(*                                                                         *)
(* A block is marked as failed only if it or an ancestor of it was found   *)
(* invalid or invalidated by the operator, as long as reconsiderblock is   *)
(* not called (TLC finds a failed block without a cause as soon as it is:  *)
(* see the README).  The property is not inductive: BLOCK_FAILED_CHILD is  *)
(* set on blocks between a candidate and a failed ancestor, and on the tip *)
(* while it is being disconnected from an invalidated block, so FailedInv  *)
(* says that branches are nested in each other and which block a thread    *)
(* invalidates.                                                            *)
(*                                                                         *)
(* The other theorems share LinkInv.  It treats the blocks that are linked *)
(* and those in the queue of the thread that links as one set (Reached),   *)
(* which is closed under ancestors at every step, and says what waits in   *)
(* mapBlocksUnlinked and what a thread that moves the tip relies on.       *)
(*                                                                         *)
(* The last part adds to LinkInv what mapBlocksUnlinked holds while the    *)
(* operator only restarts the node and, where nothing is pruned, that      *)
(* ActivateBestChain leaves the best chain active and                      *)
(* setBlockIndexCandidates complete.                                       *)
(***************************************************************************)
EXTENDS BlockTree, FiniteSetTheorems, WellFoundedInduction, TLAPS

-----------------------------------------------------------------------------
\* Sequences, and the positions of blocks in them.

\* No element is repeated.
Once(s) == \A i, j \in 1..Len(s) : s[i] = s[j] => i = j

\* A set of natural numbers has a least element.
LEMMA NatLeast ==
    ASSUME NEW S \in SUBSET Nat, S # {}
    PROVE  \E n \in S : \A m \in S : n <= m
<1> DEFINE R == OpToRel(<, Nat)
<1>1. IsWellFoundedOn(R, Nat) BY NatLessThanWellFounded
<1>2. \A x, y \in Nat : y < x => <<y, x>> \in R BY DEF OpToRel
<1> HIDE DEF R
<1>3. PICK x \in S : \A y \in S : ~(<<y, x>> \in R) BY <1>1, WFMin
<1>4. \A y \in S : ~(y < x) BY <1>2, <1>3
<1>5. QED BY <1>4

\* k computes Filter on the first n elements of s.
Computes(s, S, n, k) ==
    k = [i \in 0..n |-> IF i = 0 THEN <<>>
                        ELSE IF s[i] \in S THEN Append(k[i - 1], s[i]) ELSE k[i - 1]]

\* r has the elements of s[1..n] that are in S, in their order: h says where.
Selects(s, S, n, r, h) ==
    /\ h \in [1..Len(r) -> 1..n]
    /\ \A i, j \in 1..Len(r) : i < j => h[i] < h[j]
    /\ \A j \in 1..Len(r) : r[j] = s[h[j]] /\ r[j] \in S
    /\ \A i \in 1..n : s[i] \in S => \E j \in 1..Len(r) : h[j] = i

\* The function Filter is defined by exists, for the first n elements ...
LEMMA FilterStart == ASSUME NEW s, NEW S PROVE \E k : Computes(s, S, 0, k)
  <1>1. Computes(s, S, 0, [i \in 0..0 |-> <<>>])
    BY DEF Computes
  <1> QED BY <1>1

\* ... and one more ...
LEMMA FilterStep ==
   ASSUME NEW s, NEW S, NEW n \in Nat, NEW k, Computes(s, S, n, k)
   PROVE \E l : Computes(s, S, n + 1, l)
 <1> DEFINE f(i) == IF i = 0 THEN <<>>
                     ELSE IF s[i] \in S THEN Append(k[i - 1], s[i]) ELSE k[i - 1]
            l == [i \in 0..(n + 1) |-> f(i)]
 <1>0. k = [i \in 0..n |-> f(i)] BY DEF Computes
 <1> HIDE DEF f
 <1>1. \A i \in 0..n : l[i] = k[i]
   <2> SUFFICES ASSUME NEW i \in 0..n PROVE l[i] = k[i] OBVIOUS
   <2>1. k[i] = f(i) BY <1>0
   <2>2. i \in 0..(n + 1) OBVIOUS
   <2>3. l[i] = f(i) BY <2>2
   <2> QED BY <2>1, <2>3
 <1>2. \A i \in 0..(n + 1) : i = 0 \/ l[i - 1] = k[i - 1] 
   <2> SUFFICES ASSUME NEW i \in 0..(n + 1), i # 0 PROVE l[i - 1] = k[i - 1] OBVIOUS
   <2>1. i - 1 \in 0..n OBVIOUS
   <2> HIDE DEF l
   <2> QED BY <1>1, <2>1
 <1>3. l = [i \in 0..(n + 1) |-> IF i = 0 THEN <<>>
                     ELSE IF s[i] \in S THEN Append(l[i - 1], s[i]) ELSE l[i - 1]]
   <2> DEFINE g(i) == IF i = 0 THEN <<>>
                     ELSE IF s[i] \in S THEN Append(l[i - 1], s[i]) ELSE l[i - 1]
   <2>1. \A i \in 0..(n + 1) : f(i) = g(i)
     <3> HIDE DEF l 
     <3> QED BY <1>2 DEF f
   <2> HIDE DEF g
   <2>2. l = [i \in 0..(n + 1) |-> g(i)] BY <2>1
   <2> QED BY <2>2 DEF g
 <1> HIDE DEF l
 <1> QED BY <1>3 DEF Computes

\* ... and so for all of them.
LEMMA FilterExists ==
   ASSUME NEW s, NEW S, NEW n \in Nat
   PROVE  \E k : Computes(s, S, n, k)
  <1> DEFINE bad == {m \in Nat : ~\E k : Computes(s, S, m, k)}
  <1> SUFFICES ASSUME bad # {} PROVE FALSE OBVIOUS
  <1>1. PICK m \in bad : \A i \in bad : m <= i
    <2>1. bad \in SUBSET Nat OBVIOUS
    <2> HIDE DEF bad
    <2> QED BY <2>1, NatLeast
  <1>2. m # 0
    <2>1. \E k : Computes(s, S, 0, k) BY FilterStart
    <2> QED BY <2>1
  <1>3. m - 1 \in Nat /\ m - 1 \notin bad
    <2>1. m \in Nat OBVIOUS
    <2> HIDE DEF bad
    <2> QED BY <1>1, <1>2, <2>1
  <1>4. PICK k : Computes(s, S, m - 1, k) BY <1>3
  <1>5. \E l : Computes(s, S, (m - 1) + 1, l) BY <1>3, <1>4, FilterStep
  <1>6. (m - 1) + 1 = m BY <1>3
  <1>7. \E l : Computes(s, S, m, l) BY <1>5, <1>6
  <1> QED BY <1>7

\* Filter is what that function computes.
LEMMA FilterIs ==
   ASSUME NEW s, NEW S, Len(s) \in Nat
   PROVE  \E l : Computes(s, S, Len(s), l) /\ Filter(s, S) = l[Len(s)]
  <1>1. PICK k : Computes(s, S, Len(s), k) BY FilterExists
  <1> QED BY <1>1 DEF Filter, Computes

\* Looking at one element more.
LEMMA SelectsMore ==
   ASSUME NEW T, NEW s \in Seq(T), NEW S, NEW n \in Nat, n + 1 <= Len(s), NEW r \in Seq(T), NEW h,
          Selects(s, S, n, r, h),
          NEW q, q = IF s[n + 1] \in S THEN Append(r, s[n + 1]) ELSE r
   PROVE q \in Seq(T) /\ \E g : Selects(s, S, n + 1, q, g)
  <1>0. s[n + 1] \in T OBVIOUS
  <1>1. CASE s[n + 1] \in S
    <2> DEFINE m == Len(r)
               x == s[n + 1]
               g == [j \in 1..(m + 1) |-> IF j = m + 1 THEN n + 1 ELSE h[j]]
    <2>1. q = Append(r, x) /\ q \in Seq(T) /\ Len(q) = m + 1 /\ q[m + 1] = x /\ \A j \in 1..m : q[j] = r[j]
      BY <1>0, <1>1
    <2>2. m \in Nat /\ h \in [1..m -> 1..n] BY DEF Selects
    <2> HIDE DEF m
    <2>3. g[m + 1] = n + 1 /\ \A j \in 1..m : g[j] = h[j] /\ h[j] \in 1..n BY <2>2
    <2>4. g \in [1..(m + 1) -> 1..(n + 1)] BY <2>2
    <2> HIDE DEF g
    <2>5. \A i, j \in 1..(m + 1) : i < j => g[i] < g[j]
      <3> SUFFICES ASSUME NEW i \in 1..(m + 1), NEW j \in 1..(m + 1), i < j PROVE g[i] < g[j]
        OBVIOUS
      <3>0. i \in 1..m BY <2>2
      <3>1. CASE j = m + 1
        <4>1. g[i] \in 1..n /\ g[j] = n + 1 BY <2>3, <3>0, <3>1
        <4> QED BY <4>1
      <3>2. CASE j # m + 1
        <4>1. j \in 1..m BY <2>2, <3>2
        <4>2. h[i] < h[j] BY <3>0, <4>1 DEF Selects, m
        <4> QED BY <2>3, <3>0, <4>1, <4>2
      <3> QED BY <3>1, <3>2
    <2>6. \A j \in 1..(m + 1) : q[j] = s[g[j]] /\ q[j] \in S
      <3> TAKE j \in 1..(m + 1)
      <3>1. CASE j = m + 1 BY <1>1, <2>1, <2>3, <3>1
      <3>2. CASE j # m + 1
         <4>1. j \in 1..m BY <2>2, <3>2
         <4> QED BY <2>1, <2>3, <4>1 DEF Selects, m
      <3> QED BY <3>1, <3>2
    <2>7. \A i \in 1..(n + 1) : s[i] \in S => \E j \in 1..(m + 1) : g[j] = i
      <3> SUFFICES ASSUME NEW i \in 1..(n + 1), s[i] \in S PROVE \E j \in 1..(m + 1) : g[j] = i OBVIOUS
      <3>1. CASE i = n + 1 BY <2>2, <2>3, <3>1
      <3>2. CASE i # n + 1
         <4>1. i \in 1..n BY <3>2
         <4>2. PICK j \in 1..m : h[j] = i BY <4>1 DEF Selects, m
         <4>3. j \in 1..(m + 1) BY <2>2
         <4>4. g[j] = i BY <2>3, <4>2
         <4> QED BY <4>3, <4>4
      <3> QED BY <3>1, <3>2
    <2>8. Len(q) = m + 1 BY <2>1
    <2> HIDE DEF x
    <2>9. Selects(s, S, n + 1, q, g)
      BY <2>4, <2>5, <2>6, <2>7, <2>8 DEF Selects
    <2> QED BY <2>1, <2>9
  <1>2. CASE s[n + 1] \notin S
    <2>0. q = r BY <1>2
    <2>1. h \in [1..Len(r) -> 1..(n + 1)] BY DEF Selects
    <2>2. \A i \in 1..(n + 1) : s[i] \in S => \E j \in 1..Len(r) : h[j] = i
      <3> SUFFICES ASSUME NEW i \in 1..(n + 1), s[i] \in S PROVE \E j \in 1..Len(r) : h[j] = i OBVIOUS
      <3>1. i \in 1..n BY <1>2
      <3> QED BY <3>1 DEF Selects
    <2>3. Selects(s, S, n + 1, r, h) BY <2>1, <2>2 DEF Selects
    <2> QED BY <2>0, <2>3
  <1> QED BY <1>1, <1>2

\* What the function computes on every prefix.
LEMMA ComputesSelects ==
   ASSUME NEW T, NEW s \in Seq(T), NEW S, NEW k, Computes(s, S, Len(s), k), NEW n \in 0..Len(s)
   PROVE  k[n] \in Seq(T) /\ \E h : Selects(s, S, n, k[n], h)
  <1> DEFINE ok(m) == k[m] \in Seq(T) /\ \E h : Selects(s, S, m, k[m], h)
             bad == {m \in 0..Len(s) : ~ok(m)}
  <1>0. Len(s) \in Nat OBVIOUS
  <1> SUFFICES ASSUME bad # {} PROVE FALSE OBVIOUS
  <1>1. PICK m \in bad : \A i \in bad : m <= i
    <2>1. bad \in SUBSET Nat OBVIOUS
    <2> HIDE DEF bad
    <2> QED BY <2>1, NatLeast
  <1>a. m \in 0..Len(s) /\ ~ok(m) OBVIOUS
  <1>e. \A i \in 0..Len(s) : i < m => ok(i)
    <2> SUFFICES ASSUME NEW i \in 0..Len(s), i < m, ~ok(i) PROVE FALSE OBVIOUS
    <2>1. i \in bad OBVIOUS
    <2> HIDE DEF bad, ok
    <2> QED BY <2>1, <1>1, <1>a
  <1> HIDE DEF bad
  <1>2. k[0] = <<>> BY <1>0 DEF Computes
  <1>3. m # 0
    <2>1. Selects(s, S, 0, <<>>, <<>>) BY DEF Selects
    <2>2. ok(0) BY <1>2, <2>1
    <2> HIDE DEF ok
    <2> QED BY <2>2, <1>a
  <1> DEFINE n0 == m - 1
  <1>4. n0 \in Nat /\ n0 \in 0..Len(s) /\ n0 < m /\ m = n0 + 1 /\ n0 + 1 <= Len(s) BY <1>a, <1>3, <1>0
  <1>5. ok(n0) 
    <2> HIDE DEF ok, n0
    <2> QED BY <1>e, <1>4
  <1>6. k[m] = IF s[m] \in S THEN Append(k[m - 1], s[m]) ELSE k[m - 1] BY <1>a, <1>3 DEF Computes
  <1>7. PICK h : Selects(s, S, n0, k[n0], h) BY <1>5
  <1>8. k[n0] \in Seq(T) BY <1>5
  <1>9. k[n0 + 1] = IF s[n0 + 1] \in S THEN Append(k[n0], s[n0 + 1]) ELSE k[n0]
    <2>1. m = n0 + 1 BY <1>4
    <2> HIDE DEF n0
    <2>2. m - 1 = n0 BY <1>4
    <2> QED BY <1>6, <2>1, <2>2
  <1> HIDE DEF n0
  <1>10. k[n0 + 1] \in Seq(T) /\ \E g : Selects(s, S, n0 + 1, k[n0 + 1], g)
    BY <1>4, <1>7, <1>8, <1>9, SelectsMore
  <1>11. ok(m) BY <1>4, <1>10
  <1> QED BY <1>11, <1>a

\* Filter picks the elements of s that are in S (the range of mapBlocksUnlinked
\* that is moved or erased, the blocks that stay).
LEMMA FilterSelects ==
   ASSUME NEW T, NEW s \in Seq(T), NEW S
   PROVE  Filter(s, S) \in Seq(T) /\ \E h : Selects(s, S, Len(s), Filter(s, S), h)
  <1>1. Len(s) \in Nat /\ Len(s) \in 0..Len(s) OBVIOUS
  <1>2. PICK k : Computes(s, S, Len(s), k) /\ Filter(s, S) = k[Len(s)] BY <1>1, FilterIs
  <1> QED BY <1>1, <1>2, ComputesSelects

\* What Filter keeps.
LEMMA FilterMembers ==
   ASSUME NEW T, NEW s \in Seq(T), NEW S
   PROVE  /\ Filter(s, S) \in Seq(T)
          /\ Members(Filter(s, S)) = Members(s) \cap S
          /\ Once(s) => Once(Filter(s, S))
          /\ Len(Filter(s, S)) \in Nat
  <1> DEFINE r == Filter(s, S)
  <1>1. r \in Seq(T) /\ Len(r) \in Nat /\ Len(s) \in Nat BY FilterSelects
  <1>2. PICK h : Selects(s, S, Len(s), r, h) BY FilterSelects
  <1> HIDE DEF r
  <1>3. ASSUME NEW x \in Members(r) PROVE x \in Members(s) \cap S
    <2>1. PICK j \in 1..Len(r) : x = r[j] BY DEF Members
    <2>2. h[j] \in 1..Len(s) /\ x = s[h[j]] /\ x \in S BY <1>2, <2>1 DEF Selects
    <2> QED BY <2>2 DEF Members
  <1>4. ASSUME NEW x \in Members(s) \cap S PROVE x \in Members(r)
    <2>1. PICK i \in 1..Len(s) : x = s[i] BY DEF Members
    <2>2. PICK j \in 1..Len(r) : h[j] = i BY <1>2, <2>1 DEF Selects
    <2>3. r[j] = x BY <1>2, <2>1, <2>2 DEF Selects
    <2> QED BY <2>3 DEF Members
  <1>5. ASSUME Once(s) PROVE Once(r)
    <2> SUFFICES ASSUME NEW i \in 1..Len(r), NEW j \in 1..Len(r), r[i] = r[j] PROVE i = j BY DEF Once
    <2>1. h[i] \in 1..Len(s) /\ h[j] \in 1..Len(s) /\ s[h[i]] = s[h[j]] BY <1>2 DEF Selects
    <2>2. h[i] = h[j] BY <1>5, <2>1 DEF Once
    <2>3. ~(i < j) /\ ~(j < i) BY <1>2, <2>1, <2>2 DEF Selects
    <2> QED BY <2>3
  <1> QED BY <1>1, <1>3, <1>4, <1>5 DEF r

\* A member of a sequence has a position.
LEMMA PositionIs ==
   ASSUME NEW s, NEW b \in Members(s)
   PROVE Position(s, b) \in 1..Len(s) /\ s[Position(s, b)] = b
  BY DEF Members, Position

\* Position in a sequence without repetitions.
LEMMA PositionOf ==
   ASSUME NEW s, Once(s), NEW i \in 1..Len(s)
   PROVE Position(s, s[i]) = i
  <1>1. s[i] \in Members(s) BY DEF Members
  <1>2. Position(s, s[i]) \in 1..Len(s) /\ s[Position(s, s[i])] = s[i] BY <1>1, PositionIs
  <1> QED BY <1>2 DEF Once

\* Filter keeps the order.
LEMMA FilterOrder ==
   ASSUME NEW T, NEW s \in Seq(T), NEW S, Once(s), NEW a \in Members(s) \cap S, NEW b \in Members(s) \cap S
   PROVE  Position(Filter(s, S), a) > Position(Filter(s, S), b) <=> Position(s, a) > Position(s, b)
  <1> DEFINE r == Filter(s, S)
  <1>1. r \in Seq(T) /\ Len(r) \in Nat /\ Len(s) \in Nat /\ a \in Members(r) /\ b \in Members(r)
    BY FilterMembers
  <1>2. PICK h : Selects(s, S, Len(s), r, h) BY FilterSelects
  <1> HIDE DEF r
  <1> DEFINE i == Position(r, a) 
             j == Position(r, b)
  <1>3. i \in 1..Len(r) /\ j \in 1..Len(r) /\ r[i] = a /\ r[j] = b BY <1>1, PositionIs
  <1> HIDE DEF i, j
  <1>4. s[h[i]] = a /\ s[h[j]] = b /\ h[i] \in 1..Len(s) /\ h[j] \in 1..Len(s) BY <1>2, <1>3 DEF Selects
  <1>5. Position(s, a) = h[i] /\ Position(s, b) = h[j] BY <1>4, PositionOf
  <1>6. i < j => h[i] < h[j] BY <1>2, <1>3 DEF Selects
  <1>7. j < i => h[j] < h[i] BY <1>2, <1>3 DEF Selects
  <1>8. i = j => h[j] = h[i] OBVIOUS
  <1>9. i > j <=> h[i] > h[j] BY <1>3, <1>4, <1>6, <1>7, <1>8
  <1> QED BY <1>5, <1>9 DEF i, j, r

\* Filtered and one appended.
LEMMA AppendOrder ==
   ASSUME NEW T, NEW s \in Seq(T), Once(s), NEW x \in T, x \notin Members(s)
   PROVE  /\ Append(s, x) \in Seq(T)
          /\ Members(Append(s, x)) = Members(s) \cup {x}
          /\ Once(Append(s, x))
          /\ Position(Append(s, x), x) = Len(s) + 1
          /\ \A a \in Members(s) : Position(Append(s, x), a) = Position(s, a) /\ Position(s, a) \in 1..Len(s)
          /\ Len(s) \in Nat
  <1> DEFINE r == Append(s, x)
             n == Len(s)
  <1>1. r \in Seq(T) /\ Len(r) = n + 1 /\ r[n + 1] = x /\ n \in Nat /\ \A i \in 1..n : r[i] = s[i] OBVIOUS
  <1>2. \A i \in 1..n : s[i] # x BY DEF Members
  <1> HIDE DEF r, n
  <1>3. Once(r)
    <2> SUFFICES ASSUME NEW i \in 1..(n + 1), NEW j \in 1..(n + 1), r[i] = r[j] PROVE i = j BY <1>1 DEF Once
    <2>1. CASE i = n + 1 /\ j = n + 1 BY <2>1
    <2>2. CASE i = n + 1 /\ j # n + 1
      <3>1. j \in 1..n BY <1>1, <2>2
      <3> QED BY <1>1, <1>2, <3>1, <2>2
    <2>3. CASE i # n + 1 /\ j = n + 1
      <3>1. i \in 1..n BY <1>1, <2>3
      <3> QED BY <1>1, <1>2, <3>1, <2>3
    <2>4. CASE i # n + 1 /\ j # n + 1
      <3>1. i \in 1..n /\ j \in 1..n BY <1>1, <2>4
      <3> QED BY <1>1, <3>1 DEF Once, n
    <2> QED BY <2>1, <2>2, <2>3, <2>4
  <1>4. Position(r, x) = n + 1
    <2>1. n + 1 \in 1..Len(r) BY <1>1
    <2> QED BY <1>1, <1>3, <2>1, PositionOf
  <1>5. \A a \in Members(s) : Position(r, a) = Position(s, a) /\ Position(s, a) \in 1..n
    <2> TAKE a \in Members(s)
    <2>1. Position(s, a) \in 1..n /\ s[Position(s, a)] = a BY PositionIs DEF n
    <2>2. r[Position(s, a)] = a /\ Position(s, a) \in 1..Len(r) BY <1>1, <2>1
    <2> QED BY <1>3, <2>1, <2>2, PositionOf
  <1>6. Members(r) = Members(s) \cup {x}
    <2>1. ASSUME NEW y \in Members(r) PROVE y \in Members(s) \cup {x}
      <3>1. PICK i \in 1..(n + 1) : y = r[i] BY <1>1 DEF Members
      <3>2. CASE i = n + 1 BY <1>1, <3>1, <3>2
      <3>3. CASE i # n + 1
        <4>1. i \in 1..n BY <1>1, <3>3
        <4> QED BY <1>1, <3>1, <4>1 DEF Members, n
      <3> QED BY <3>2, <3>3
    <2>2. x \in Members(r)
      <3>1. n + 1 \in 1..Len(r) BY <1>1
      <3> QED BY <1>1, <3>1 DEF Members
    <2>3. ASSUME NEW y \in Members(s) PROVE y \in Members(r)
      <3>1. PICK i \in 1..n : y = s[i] BY DEF Members, n
      <3>2. i \in 1..Len(r) /\ r[i] = y BY <1>1, <3>1
      <3> QED BY <3>2 DEF Members
    <2> QED BY <2>1, <2>2, <2>3
  <1> QED BY <1>1, <1>3, <1>4, <1>5, <1>6 DEF r, n

\* Joining two sequences (the blocks that waited join the queue, the discarded
\* candidates join mapBlocksUnlinked).
LEMMA ConcatMembers ==
    ASSUME NEW T, NEW r \in Seq(T), NEW s \in Seq(T)
    PROVE  /\ r \o s \in Seq(T)
           /\ Members(r \o s) = Members(r) \cup Members(s)
           /\ Once(r) /\ Once(s) /\ Members(r) \cap Members(s) = {} => Once(r \o s)
  <1> DEFINE q == r \o s
             m == Len(r)
             n == Len(s)
  <1>1. /\ q \in Seq(T) /\ Len(q) = m + n /\ m \in Nat /\ n \in Nat
        /\ \A i \in 1..(m + n) : q[i] = IF i <= m THEN r[i] ELSE s[i - m]
    OBVIOUS
  <1> HIDE DEF q, m, n
  <1>2. ASSUME NEW i \in 1..(m + n)
        PROVE  \/ i \in 1..m /\ q[i] = r[i] /\ q[i] \in Members(r)
               \/ i \notin 1..m /\ i - m \in 1..n /\ q[i] = s[i - m] /\ q[i] \in Members(s)
    <2>1. CASE i <= m
      <3>1. i \in 1..m /\ q[i] = r[i]
        BY <1>1, <2>1
      <3> QED BY <3>1 DEF Members, m
    <2>2. CASE ~(i <= m)
      <3>1. i \notin 1..m /\ i - m \in 1..n /\ q[i] = s[i - m]
        BY <1>1, <2>2
      <3> QED BY <3>1 DEF Members, n
    <2> QED BY <2>1, <2>2
  <1>3. ASSUME NEW x \in Members(q)
        PROVE  x \in Members(r) \cup Members(s)
    <2>1. PICK i \in 1..(m + n) : x = q[i]
      BY <1>1 DEF Members
    <2> QED BY <1>2, <2>1
  <1>4. ASSUME NEW x \in Members(r)
        PROVE  x \in Members(q)
    <2>1. PICK i \in 1..m : x = r[i]
      BY DEF Members, m
    <2>2. i \in 1..Len(q) /\ q[i] = x
      BY <1>1, <2>1
    <2> QED BY <2>2 DEF Members
  <1>5. ASSUME NEW x \in Members(s)
        PROVE  x \in Members(q)
    <2>1. PICK i \in 1..n : x = s[i]
      BY DEF Members, n
    <2>2. m + i \in 1..Len(q) /\ ~(m + i <= m) /\ (m + i) - m = i
      BY <1>1, <2>1
    <2>3. q[m + i] = x
      BY <1>1, <2>1, <2>2
    <2> QED BY <2>2, <2>3 DEF Members
  <1>6. ASSUME Once(r), Once(s), Members(r) \cap Members(s) = {}
        PROVE  Once(q)
    <2> SUFFICES ASSUME NEW i \in 1..(m + n), NEW j \in 1..(m + n), q[i] = q[j]
                 PROVE  i = j
      BY <1>1 DEF Once
    <2>1. CASE i \in 1..m /\ j \in 1..m
      BY <1>2, <1>6, <2>1 DEF Once, m
    <2>2. CASE i \notin 1..m /\ j \notin 1..m
      <3>1. i - m \in 1..n /\ j - m \in 1..n /\ s[i - m] = s[j - m]
        BY <1>2, <2>2
      <3>2. i - m = j - m
        BY <1>6, <3>1 DEF Once, n
      <3> QED BY <1>1, <3>2
    <2> QED BY <1>2, <1>6, <2>1, <2>2
  <1> QED BY <1>1, <1>3, <1>4, <1>5, <1>6 DEF q

\* Taking the first element (std::deque::pop_front).
LEMMA TailMembers ==
    ASSUME NEW T, NEW s \in Seq(T), s # <<>>
    PROVE  /\ Head(s) \in T /\ Tail(s) \in Seq(T)
           /\ Head(s) \in Members(s)
           /\ Members(s) = {Head(s)} \cup Members(Tail(s))
           /\ Once(s) => Once(Tail(s)) /\ Head(s) \notin Members(Tail(s))
  <1> DEFINE q == Tail(s)
             n == Len(s)
  <1>1. /\ q \in Seq(T) /\ n \in Nat /\ n # 0 /\ Len(q) = n - 1
        /\ Head(s) = s[1] /\ Head(s) \in T
        /\ \A i \in 1..(n - 1) : q[i] = s[i + 1]
    OBVIOUS
  <1> HIDE DEF q, n
  <1>2. Head(s) \in Members(s)
    BY <1>1 DEF Members, n
  <1>3. ASSUME NEW x \in Members(s)
        PROVE  x = Head(s) \/ x \in Members(q)
    <2>1. PICK i \in 1..n : x = s[i]
      BY DEF Members, n
    <2>2. CASE i = 1
      BY <1>1, <2>1, <2>2
    <2>3. CASE i # 1
      <3>1. i - 1 \in 1..(n - 1) /\ (i - 1) + 1 = i
        BY <1>1, <2>3
      <3>2. q[i - 1] = x
        BY <1>1, <2>1, <3>1
      <3> QED BY <1>1, <3>1, <3>2 DEF Members
    <2> QED BY <2>2, <2>3
  <1>4. ASSUME NEW x \in Members(q)
        PROVE  x \in Members(s)
    <2>1. PICK i \in 1..(n - 1) : x = q[i]
      BY <1>1 DEF Members
    <2>2. i + 1 \in 1..n /\ s[i + 1] = x
      BY <1>1, <2>1
    <2> QED BY <2>2 DEF Members, n
  <1>5. ASSUME Once(s)
        PROVE  Once(q) /\ Head(s) \notin Members(q)
    <2>1. ASSUME NEW i \in 1..(n - 1), NEW j \in 1..(n - 1), q[i] = q[j]
          PROVE  i = j
      <3>1. i + 1 \in 1..n /\ j + 1 \in 1..n /\ s[i + 1] = s[j + 1]
        BY <1>1, <2>1
      <3>2. i + 1 = j + 1
        BY <1>5, <3>1 DEF Once, n
      <3> QED BY <3>2
    <2>2. ASSUME NEW i \in 1..(n - 1), q[i] = Head(s)
          PROVE  FALSE
      <3>1. i + 1 \in 1..n /\ 1 \in 1..n /\ s[i + 1] = s[1]
        BY <1>1, <2>2
      <3>2. i + 1 = 1
        BY <1>5, <3>1 DEF Once, n
      <3> QED BY <3>2
    <2> QED BY <1>1, <2>1, <2>2 DEF Once, Members
  <1> QED BY <1>1, <1>2, <1>3, <1>4, <1>5 DEF q

\* The order of addresses names every block once.
LEMMA AddressesOnce ==
    ASSUME NEW S, IsFiniteSet(S), NEW order \in addresses(S)
    PROVE  order \in Seq(S) /\ Members(order) = S /\ Once(order)
  <1> DEFINE n == Cardinality(S)
  <1>1. n \in Nat
    BY FS_CardinalityType
  <1>2. order \in [1..n -> S] /\ S \subseteq Members(order)
    BY DEF addresses
  <1> HIDE DEF n
  <1>3. order \in Seq(S) /\ Len(order) = n
    BY <1>1, <1>2
  <1>4. Members(order) = S
    BY <1>2, <1>3 DEF Members
  <1>5. order \in Surjection(1..n, S)
    BY <1>2, <1>3 DEF Surjection, Members
  <1>6. IsFiniteSet(1..n) /\ Cardinality(1..n) = n
    <2>1. IsFiniteSet(1..n) /\ Cardinality(1..n) = IF 1 > n THEN 0 ELSE n - 1 + 1
      BY <1>1, FS_Interval
    <2> QED BY <1>1, <2>1
  <1>7. Cardinality(S) = Cardinality(1..n)
    BY <1>6 DEF n
  <1>8. order \in Injection(1..n, S)
    BY <1>5, <1>6, <1>7, FS_Surjection
  <1>9. Once(order)
    BY <1>2, <1>3, <1>8 DEF Injection, IsInjective, Once
  <1> QED BY <1>3, <1>4, <1>9

-----------------------------------------------------------------------------
\* The block tree, and the marks on it.

\* A known block ends its branch.
Ends == \A b \in Block : Known(b) => branch[b][Len(branch[b])] = b

\* The branch of an ancestor is the beginning of the branch.
Nested ==
    \A b \in Block : \A i \in 1..Len(branch[b]) :
        /\ Len(branch[branch[b][i]]) = i
        /\ \A j \in 1..i : branch[branch[b][i]][j] = branch[b][j]

Tree == branch \in [Block -> Seq(Block)] /\ Ends /\ Nested

\* A failed block has a cause, at any time.
Caused == \A b \in Block : Failed(b) => Lineage(b) \cap failedValid # {}

\* Blocks with data are known.
Stored == \A b \in data : b \in Block /\ Known(b)

\* A thread in the loop of InvalidateBlock has marked its block.
Invalidating ==
    /\ pc \in [Thread -> Label]
    /\ most \in [Thread -> Block \cup {None}]
    /\ \A t \in Thread : pc[t] = "invalidate" => most[t] \in failedValid

\* The inductive invariant.
FailedInv == Tree /\ Caused /\ Stored /\ Invalidating

-----------------------------------------------------------------------------
\* A known block belongs to its own lineage (CBlockIndex::GetAncestor of its
\* own height).
LEMMA InLineage ==
    ASSUME Tree, NEW b \in Block, Known(b)
    PROVE  b \in Lineage(b)
  <1>1. Len(branch[b]) \in 1..Len(branch[b]) /\ branch[b][Len(branch[b])] = b
    BY DEF Tree, Ends, Known
  <1> QED BY <1>1 DEF Lineage, Members

\* An ancestor's lineage is part of the block's (following pprev).
LEMMA LineageNested ==
    ASSUME Tree, NEW b \in Block, NEW y \in Lineage(b)
    PROVE  Lineage(y) \subseteq Lineage(b)
  <1>1. PICK i \in 1..Len(branch[b]) : branch[b][i] = y
    BY DEF Lineage, Members
  <1>2. Len(branch[y]) = i /\ \A j \in 1..i : branch[y][j] = branch[b][j]
    BY <1>1 DEF Tree, Nested
  <1>3. Len(branch[b]) \in Nat
    BY DEF Tree
  <1>4. \A j \in 1..Len(branch[y]) : j \in 1..Len(branch[b]) /\ branch[y][j] = branch[b][j]
    BY <1>2, <1>3
  <1> QED BY <1>4 DEF Lineage, Members

\* The blocks FindMostWorkChain marks, from the candidate down to the failed
\* block, descend from it.
LEMMA AboveDescends ==
    ASSUME Tree, NEW c \in Block, NEW x \in Lineage(c), NEW a \in Members(Above(c, x))
    PROVE  a \in Block /\ x \in Lineage(a)
  <1> DEFINE n == nHeight(c) - nHeight(x)
  <1>1. PICK i \in 1..Len(branch[c]) : branch[c][i] = x
    BY DEF Lineage, Members
  <1>2. Len(branch[x]) = i /\ Len(branch[c]) \in Nat /\ i \in Nat
    BY <1>1 DEF Tree, Nested
  <1>3. n \in Nat /\ n = Len(branch[c]) - i
    BY <1>1, <1>2 DEF nHeight
  <1>4. Len(Above(c, x)) = n
    BY <1>3 DEF Above
  <1>5. PICK k \in 1..n : a = branch[c][Len(branch[c]) + 1 - k]
    BY <1>3, <1>4 DEF Members, Above
  <1> DEFINE m == Len(branch[c]) + 1 - k
  <1>6. m \in 1..Len(branch[c]) /\ i \in 1..m
    BY <1>1, <1>2, <1>3, <1>5
  <1>7. a \in Block
    BY <1>5, <1>6 DEF Tree
  <1>8. Len(branch[a]) = m /\ branch[a][i] = branch[c][i]
    BY <1>5, <1>6 DEF Tree, Nested
  <1> QED BY <1>1, <1>6, <1>7, <1>8 DEF Lineage, Members

\* A header that is accepted extends the tree and leaves known branches alone
\* (AddToBlockIndex).
LEMMA TreeGrows ==
    ASSUME Tree, NEW b \in Hash, NEW p \in Block, HeaderOk(b, p), AddToBlockIndex(b, p)
    PROVE  /\ Tree'
           /\ Known(b)'
           /\ \A a \in Block : Known(a) => branch'[a] = branch[a] /\ Known(a)'
  <1>1. b \in Block
    BY DEF Block
  <1>2. CASE Known(b)
    BY <1>1, <1>2 DEF AddToBlockIndex, Tree, Ends, Nested, Known
  <1>3. CASE ~Known(b)
    <2>1. branch' = [branch EXCEPT ![b] = Append(branch[p], b)] /\ Known(p) /\ p # b
      BY <1>3 DEF AddToBlockIndex, HeaderOk
    <2> DEFINE n == Len(branch[p])
    <2>2. branch \in [Block -> Seq(Block)] /\ branch[p] \in Seq(Block) /\ n \in Nat
      BY DEF Tree
    <2>3. /\ branch'[b] = Append(branch[p], b)
          /\ Len(branch'[b]) = n + 1
          /\ branch'[b][n + 1] = b
          /\ \A i \in 1..n : branch'[b][i] = branch[p][i]
      BY <1>1, <2>1, <2>2
    <2>4. \A a \in Block \ {b} : branch'[a] = branch[a]
      BY <2>1, <2>2
    <2>5. branch' \in [Block -> Seq(Block)]
      BY <1>1, <2>1, <2>2
    <2>6. \A a \in Block : Known(a) => branch'[a] = branch[a] /\ Known(a)'
      BY <1>3, <2>4 DEF Known
    <2>7. Known(b)'
      BY <2>2, <2>3 DEF Known
    <2>8. Ends'
      BY <1>1, <2>2, <2>3, <2>4 DEF Tree, Ends, Known
    <2>9. \A a \in Block : \A i \in 1..Len(branch[a]) : branch[a][i] \in Block \ {b}
      <3> SUFFICES ASSUME NEW a \in Block, NEW i \in 1..Len(branch[a])
                   PROVE  branch[a][i] \in Block \ {b}
        OBVIOUS
      <3>1. branch[a] \in Seq(Block)
        BY <2>2
      <3>2. branch[a][i] \in Block /\ i # 0
        BY <3>1
      <3>3. Len(branch[branch[a][i]]) = i
        BY DEF Tree, Nested
      <3>4. Len(branch[b]) = 0
        BY <1>3 DEF Known
      <3> QED BY <3>2, <3>3, <3>4
    <2>10. Nested'
      <3> SUFFICES ASSUME NEW a \in Block, NEW i \in 1..Len(branch'[a])
                   PROVE  /\ Len(branch'[branch'[a][i]]) = i
                          /\ \A j \in 1..i : branch'[branch'[a][i]][j] = branch'[a][j]
        BY DEF Nested
      <3>1. CASE a # b
        <4>1. branch'[a] = branch[a] /\ branch'[branch[a][i]] = branch[branch[a][i]]
          BY <2>4, <2>9, <3>1
        <4> QED BY <4>1 DEF Tree, Nested
      <3>2. CASE a = b /\ i = n + 1
        BY <2>3, <3>2
      <3>3. CASE a = b /\ i # n + 1
        <4>1. i \in 1..n
          BY <2>2, <2>3, <3>3
        <4>2. branch'[a][i] = branch[p][i] /\ branch'[branch[p][i]] = branch[branch[p][i]]
          BY <2>3, <2>4, <2>9, <3>3, <4>1
        <4>3. /\ Len(branch[branch[p][i]]) = i
              /\ \A j \in 1..i : branch[branch[p][i]][j] = branch[p][j]
          BY <4>1 DEF Tree, Nested
        <4>4. \A j \in 1..i : j \in 1..n
          BY <2>2, <4>1
        <4>5. \A j \in 1..i : branch'[a][j] = branch[p][j]
          BY <2>3, <3>3, <4>4
        <4> QED BY <4>2, <4>3, <4>5
      <3> QED BY <3>1, <3>2, <3>3
    <2> QED BY <2>5, <2>6, <2>7, <2>8, <2>10 DEF Tree
  <1> QED BY <1>2, <1>3

-----------------------------------------------------------------------------
\* What a step needs to show when it leaves the tree alone and takes no mark
\* away: the new marks have causes.
LEMMA MarksKept ==
    ASSUME Caused, UNCHANGED branch, failedValid \subseteq failedValid',
           NEW M, failedChild' = failedChild \cup M,
           \A b \in Block : b \in M => Lineage(b) \cap failedValid' # {},
           \A b \in Block : b \in failedValid' \ failedValid => b \in Lineage(b)
    PROVE  Caused'
  <1> SUFFICES ASSUME NEW b \in Block, Failed(b)'
               PROVE  (Lineage(b) \cap failedValid # {})'
    BY DEF Caused
  <1>1. Lineage(b)' = Lineage(b)
    BY DEF Lineage, Members
  <1>2. b \in failedValid' \/ b \in failedChild \/ b \in M
    BY DEF Failed
  <1>3. CASE Failed(b)
    BY <1>1, <1>3 DEF Caused
  <1>4. CASE b \in M
    BY <1>1, <1>4
  <1>5. CASE b \in failedValid' \ failedValid
    BY <1>1, <1>5
  <1> QED BY <1>2, <1>3, <1>4, <1>5 DEF Failed

\* A header or block that arrives keeps the marks' causes, and a block that is
\* rejected is its own.
LEMMA ArrivalKept ==
    ASSUME Tree, Caused, NEW b \in Hash, NEW p \in Block,
           HeaderOk(b, p), AddToBlockIndex(b, p), failedChild' = failedChild,
           failedValid' = failedValid \/ failedValid' = failedValid \cup {b}
    PROVE  Tree' /\ Caused' /\ Known(b)' /\ \A a \in Block : Known(a) => Known(a)'
  <1>1. /\ Tree'
        /\ Known(b)'
        /\ \A a \in Block : Known(a) => branch'[a] = branch[a] /\ Known(a)'
    BY TreeGrows
  <1>2. b \in Block
    BY DEF Block
  <1>3. (b \in Lineage(b))'
    <2>1. Len(branch'[b]) \in 1..Len(branch'[b]) /\ branch'[b][Len(branch'[b])] = b
      BY <1>1, <1>2 DEF Tree, Ends, Known
    <2> QED BY <2>1 DEF Lineage, Members
  <1>4. Caused'
    <2> SUFFICES ASSUME NEW a \in Block, Failed(a)'
                 PROVE  (Lineage(a) \cap failedValid # {})'
      BY DEF Caused
    <2>1. CASE Failed(a)
      <3>1. Lineage(a) \cap failedValid # {}
        BY <2>1 DEF Caused
      <3>2. Known(a)
        BY <3>1 DEF Lineage, Members, Known
      <3>3. Lineage(a)' = Lineage(a)
        BY <1>1, <3>2 DEF Lineage, Members
      <3> QED BY <3>1, <3>3
    <2>2. CASE ~Failed(a)
      <3>1. a = b /\ b \in failedValid'
        BY <2>2 DEF Failed
      <3> QED BY <1>3, <3>1
    <2> QED BY <2>1, <2>2
  <1> QED BY <1>1, <1>4

-----------------------------------------------------------------------------
\* The invariant holds at the start (InitBlockIndex).
LEMMA FailedInit == Init => FailedInv
  <1> SUFFICES ASSUME Init PROVE FailedInv
    OBVIOUS
  <1>1. Genesis \in Block
    BY DEF Block
  <1>2. Tree
    BY <1>1 DEF Init, Tree, Ends, Nested, Known
  <1>3. Caused /\ Stored
    BY <1>1 DEF Init, Caused, Stored, Failed, Known
  <1>4. Invalidating
    BY DEF Init, Invalidating, Label
  <1> QED BY <1>2, <1>3, <1>4 DEF FailedInv

\* The steps that leave the tree, the data and the marks alone and do not enter
\* InvalidateBlock.
LEMMA QuietKept ==
    ASSUME FailedInv, UNCHANGED <<branch, failedValid, failedChild>>,
           data' \subseteq data,
           Invalidating'
    PROVE  FailedInv'
  <1>1. Tree'
    BY DEF FailedInv, Tree, Ends, Nested, Known
  <1>2. Caused'
    BY DEF FailedInv, Caused, Failed, Lineage, Members
  <1>3. Stored'
    BY DEF FailedInv, Stored, Known
  <1> QED BY <1>1, <1>2, <1>3 DEF FailedInv

\* A call of reconsiderblock is remembered.
LEMMA Remembered ==
    ASSUME commands \in Seq(Commands), [Next]_vars
    PROVE  commands' \in Seq(Commands) /\ (Reconsidered => Reconsidered')
  <1>1. CASE UNCHANGED commands
    BY <1>1 DEF Reconsidered, Members
  <1>2. ASSUME NEW t \in Thread, NEW name, NEW b \in Block, Command(t, name, b)
        PROVE  commands' \in Seq(Commands) /\ (Reconsidered => Reconsidered')
    <2>1. commands' = Append(commands, name) /\ name \in Commands
      BY <1>2 DEF Command
    <2>2. commands' \in Seq(Commands) /\ Len(commands') = Len(commands) + 1
      BY <2>1
    <2>3. \A i \in 1..Len(commands) : i \in 1..Len(commands') /\ commands'[i] = commands[i]
      BY <2>1, <2>2
    <2> QED BY <2>2, <2>3 DEF Reconsidered, Members
  <1>3. Genesis \in Block
    BY DEF Block
  <1>4. CASE UNCHANGED vars
    BY <1>1, <1>4 DEF vars
  <1>5. CASE Next
    <2>1. ASSUME NEW b \in Hash, NEW p \in Block, AcceptBlockHeader(b, p)
          PROVE  UNCHANGED commands
      BY <2>1 DEF AcceptBlockHeader
    <2>2. ASSUME NEW t \in Thread, ProcessNewBlock(t) \/ Activate(t)
          PROVE  UNCHANGED commands
      BY <2>2 DEF ProcessNewBlock, IgnoreBlock, RejectBlock, StoreBlock, Activate
    <2>3. ASSUME NEW t \in Thread, Proceed(t)
          PROVE  UNCHANGED commands
      BY <2>3
         DEF Proceed, LinkBlock, FindMostWorkChain, DiscardCandidate, ChooseCandidate,
             NothingToDo, ActivateBestChainStep, DisconnectTip, StepFails, ConnectTip,
             InvalidBlockFound, Loop, InvalidateTip, InvalidateEnd
    <2>4. ASSUME NEW b \in Block, PruneOneBlockFile(b)
          PROVE  UNCHANGED commands
      BY <2>4 DEF PruneOneBlockFile
    <2>5. ASSUME NEW t \in Thread, NEW b \in Block, InvalidateBlock(t, b)
          PROVE  Command(t, "invalidateblock", b)
      BY <2>5 DEF InvalidateBlock
    <2>6. ASSUME NEW t \in Thread, NEW b \in Block, ReconsiderBlock(t, b)
          PROVE  Command(t, "reconsiderblock", b)
      BY <2>6 DEF ReconsiderBlock
    <2>7. ASSUME NEW t \in Thread, Restart(t)
          PROVE  Command(t, "restart", Genesis)
      BY <2>7 DEF Restart
    <2> QED BY <1>1, <1>2, <1>3, <1>5, <2>1, <2>2, <2>3, <2>4, <2>5, <2>6, <2>7 DEF Next
  <1> QED BY <1>4, <1>5

\* A call of reconsiderblock is one.
LEMMA Recorded ==
    ASSUME commands \in Seq(Commands), NEW t \in Thread, NEW b \in Block,
           ReconsiderBlock(t, b)
    PROVE  Reconsidered'
  <1>1. commands' = Append(commands, "reconsiderblock")
    BY DEF ReconsiderBlock, Command
  <1>2. Len(commands') \in 1..Len(commands') /\ commands'[Len(commands')] = "reconsiderblock"
    BY <1>1
  <1> QED BY <1>2 DEF Reconsidered, Members

\* Every step other than reconsiderblock keeps the invariant.
LEMMA FailedStep ==
    ASSUME commands \in Seq(Commands), ~Reconsidered', FailedInv, [Next]_vars
    PROVE  FailedInv'
  <1> USE DEF FailedInv
  <1>1. ASSUME NEW b \in Hash, NEW p \in Block, AcceptBlockHeader(b, p)
        PROVE  FailedInv'
    <2>1. Tree' /\ Caused' /\ \A a \in Block : Known(a) => Known(a)'
      BY <1>1, ArrivalKept DEF AcceptBlockHeader, status
    <2>2. Stored'
      BY <1>1, <2>1 DEF AcceptBlockHeader, status, Stored
    <2>3. Invalidating'
      BY <1>1 DEF AcceptBlockHeader, status, threads, Invalidating
    <2> QED BY <2>1, <2>2, <2>3
  <1>2. ASSUME NEW t \in Thread, NEW b \in Hash, NEW p \in Block, NEW r \in BOOLEAN,
               IgnoreBlock(t, b, p, r)
        PROVE  FailedInv'
    <2>1. Tree' /\ Caused' /\ \A a \in Block : Known(a) => Known(a)'
      BY <1>2, ArrivalKept DEF IgnoreBlock, Arrives, status
    <2>2. Stored'
      BY <1>2, <2>1 DEF IgnoreBlock, status, Stored
    <2>3. Invalidating'
      BY <1>2 DEF IgnoreBlock, status, Goto, Invalidating, Label
    <2> QED BY <2>1, <2>2, <2>3
  <1>3. ASSUME NEW t \in Thread, NEW b \in Hash, NEW p \in Block, NEW r \in BOOLEAN,
               RejectBlock(t, b, p, r)
        PROVE  FailedInv'
    <2>1. Tree' /\ Caused' /\ \A a \in Block : Known(a) => Known(a)'
      BY <1>3, ArrivalKept DEF RejectBlock, Arrives
    <2>2. Stored'
      BY <1>3, <2>1 DEF RejectBlock, Stored
    <2>3. Invalidating'
      BY <1>3 DEF RejectBlock, threads, Invalidating
    <2> QED BY <2>1, <2>2, <2>3
  <1>4. ASSUME NEW t \in Thread, NEW b \in Hash, NEW p \in Block, NEW r \in BOOLEAN,
               StoreBlock(t, b, p, r)
        PROVE  FailedInv'
    <2>1. Tree' /\ Caused' /\ Known(b)' /\ \A a \in Block : Known(a) => Known(a)'
      BY <1>4, ArrivalKept DEF StoreBlock, Arrives
    <2>2. Stored'
      BY <1>4, <2>1 DEF StoreBlock, Stored, Block
    <2>3. Invalidating'
      BY <1>4 DEF StoreBlock, Goto, Invalidating, Label
    <2> QED BY <2>1, <2>2, <2>3
  <1>5. ASSUME NEW t \in Thread, LinkBlock(t) \/ Activate(t) \/ NothingToDo(t) \/ Loop(t)
        PROVE  FailedInv'
    <2>1. UNCHANGED <<branch, failedValid, failedChild, data>>
      BY <1>5 DEF LinkBlock, Activate, NothingToDo, Loop, index, status
    <2>2. Invalidating'
      BY <1>5 DEF LinkBlock, Activate, NothingToDo, Loop, index, status, Goto, Invalidating, Label
    <2> QED BY <2>1, <2>2, QuietKept
  <1>6. ASSUME NEW t \in Thread, NEW c \in Block, ChooseCandidate(t, c)
        PROVE  FailedInv'
    <2>1. UNCHANGED <<branch, failedValid, failedChild, data>>
      BY <1>6 DEF ChooseCandidate, index, status
    <2>2. Invalidating'
      BY <1>6 DEF ChooseCandidate, index, status, Goto, Invalidating, Label
    <2> QED BY <2>1, <2>2, QuietKept
  <1>7. ASSUME NEW t \in Thread, DisconnectTip(t) \/ StepFails(t) \/ ConnectTip(t)
        PROVE  FailedInv'
    <2>1. UNCHANGED <<branch, failedValid, failedChild, data>>
      BY <1>7 DEF DisconnectTip, StepFails, ConnectTip, index, status
    <2>2. Invalidating'
      BY <1>7 DEF DisconnectTip, StepFails, ConnectTip, index, status, threads, Release,
                  Goto, Invalidating, Label
    <2> QED BY <2>1, <2>2, QuietKept
  <1>8. ASSUME NEW b \in Block, PruneOneBlockFile(b)
        PROVE  FailedInv'
    <2>1. UNCHANGED <<branch, failedValid, failedChild>> /\ data' \subseteq data
      BY <1>8 DEF PruneOneBlockFile, index
    <2>2. Invalidating'
      BY <1>8 DEF PruneOneBlockFile, threads, Invalidating
    <2> QED BY <2>1, <2>2, QuietKept
  <1>9. ASSUME NEW t \in Thread, NEW c \in Block, NEW x \in Block, DiscardCandidate(t, c, x)
        PROVE  FailedInv'
    <2> DEFINE M == IF Failed(x) THEN Members(Above(c, x)) ELSE {}
    <2>1. /\ UNCHANGED <<branch, failedValid, data>>
          /\ failedChild' = failedChild \cup M
          /\ x \in Lineage(c)
      BY <1>9 DEF DiscardCandidate, IsLastObstacle, Obstacles, OffChain, index
    <2>2. ASSUME NEW b \in Block, b \in M
          PROVE  Lineage(b) \cap failedValid' # {}
      <3>1. Lineage(x) \cap failedValid # {}
        BY <2>2 DEF Caused
      <3>2. x \in Lineage(b)
        BY <2>1, <2>2, AboveDescends
      <3>3. Lineage(x) \subseteq Lineage(b)
        BY <3>2, LineageNested
      <3> QED BY <2>1, <3>1, <3>3
    <2>3. Caused'
      <3> HIDE DEF M
      <3> QED BY <2>1, <2>2, MarksKept
    <2>4. Tree' /\ Stored'
      BY <2>1 DEF Tree, Ends, Nested, Known, Stored
    <2>5. Invalidating'
      BY <1>9, <2>1 DEF DiscardCandidate, threads, Invalidating
    <2> QED BY <2>3, <2>4, <2>5
  <1>10. ASSUME NEW t \in Thread, InvalidBlockFound(t)
         PROVE  FailedInv'
    <2> DEFINE b == NextBlock(t)
    <2>1. /\ UNCHANGED <<branch, failedChild, data>>
          /\ failedValid' = failedValid \cup {b}
          /\ b \in data
      BY <1>10 DEF InvalidBlockFound, index
    <2>2. b \in Block /\ b \in Lineage(b)
      BY <2>1, InLineage DEF Stored
    <2>3. Caused'
      <3>1. failedChild' = failedChild \cup {}
        BY <2>1
      <3> HIDE DEF b
      <3> QED BY <2>1, <2>2, <3>1, MarksKept
    <2>4. Tree' /\ Stored'
      BY <2>1 DEF Tree, Ends, Nested, Known, Stored
    <2>5. Invalidating'
      BY <1>10, <2>1 DEF InvalidBlockFound, Release, Goto, Invalidating, Label
    <2> QED BY <2>3, <2>4, <2>5
  <1>11. ASSUME NEW t \in Thread, NEW b \in Block, InvalidateBlock(t, b)
         PROVE  FailedInv'
    <2>1. /\ UNCHANGED <<branch, failedChild, data>>
          /\ failedValid' = failedValid \cup {b}
          /\ Known(b)
      BY <1>11 DEF InvalidateBlock, Command, index
    <2>2. b \in Lineage(b)
      BY <2>1, InLineage
    <2>3. Caused'
      <3>1. failedChild' = failedChild \cup {}
        BY <2>1
      <3> QED BY <2>1, <2>2, <3>1, MarksKept
    <2>4. Tree' /\ Stored'
      BY <2>1 DEF Tree, Ends, Nested, Known, Stored
    <2>5. Invalidating'
      BY <1>11, <2>1 DEF InvalidateBlock, Goto, Invalidating, Label
    <2> QED BY <2>3, <2>4, <2>5
  <1>12. ASSUME NEW t \in Thread, InvalidateTip(t)
         PROVE  FailedInv'
    <2>1. /\ UNCHANGED <<branch, failedValid, data>>
          /\ failedChild' = failedChild \cup {tip}
          /\ most[t] \in Lineage(tip)
          /\ most[t] \in failedValid
      BY <1>12 DEF InvalidateTip, Invalidating, chainActive, index
    <2>2. \A b \in Block : b \in {tip} => Lineage(b) \cap failedValid' # {}
      BY <2>1
    <2>3. Caused'
      BY <2>1, <2>2, MarksKept
    <2>4. Tree' /\ Stored'
      BY <2>1 DEF Tree, Ends, Nested, Known, Stored
    <2>5. Invalidating'
      BY <1>12, <2>1 DEF InvalidateTip, Goto, Invalidating, Label
    <2> QED BY <2>3, <2>4, <2>5
  <1>13. ASSUME NEW t \in Thread, InvalidateEnd(t)
         PROVE  FailedInv'
    <2>1. UNCHANGED <<branch, failedValid, failedChild, data>>
      BY <1>13 DEF InvalidateEnd, index, status
    <2>2. Invalidating'
      BY <1>13 DEF InvalidateEnd, index, status, Goto, Invalidating, Label
    <2> QED BY <2>1, <2>2, QuietKept
  <1>14. ASSUME NEW t \in Thread, NEW b \in Block, ReconsiderBlock(t, b)
         PROVE  FALSE
    BY <1>14, Recorded
  <1>15. ASSUME NEW t \in Thread, Restart(t)
         PROVE  FailedInv'
    <2>1. UNCHANGED <<branch, failedValid, data>> /\ failedChild' \subseteq failedChild
      BY <1>15 DEF Restart, index
    <2>2. Caused'
      BY <2>1 DEF Caused, Failed, Lineage
    <2>3. Tree' /\ Stored'
      BY <2>1 DEF Tree, Ends, Nested, Known, Stored
    <2>4. Invalidating'
      BY <1>15, <2>1 DEF Restart, Goto, Invalidating, Label
    <2> QED BY <2>2, <2>3, <2>4
  <1>16. CASE UNCHANGED vars
    <2>1. UNCHANGED <<branch, failedValid, failedChild, data>> /\ UNCHANGED <<pc, most>>
      BY <1>16 DEF vars, index, status, threads
    <2>2. Invalidating'
      BY <2>1 DEF Invalidating
    <2> QED BY <2>1, <2>2, QuietKept
  <1> HIDE DEF FailedInv
  <1> QED BY <1>1, <1>2, <1>3, <1>4, <1>5, <1>6, <1>7, <1>8, <1>9, <1>10, <1>11, <1>12, <1>13,
             <1>14, <1>15, <1>16
          DEF Next, ProcessNewBlock, Proceed, FindMostWorkChain, ActivateBestChainStep

\* As long as reconsiderblock was not called, whenever cs_main is free a block is
\* marked as failed only if it or an ancestor failed validation or was
\* invalidated: the assertion "The failed mask cannot be set for blocks without
\* invalid parents" of CheckBlockIndex (src/src/main.cpp:4219), for any block tree.
THEOREM FailedCaused == Spec => [](~Reconsidered => FailedHasCause)
  <1> DEFINE I == commands \in Seq(Commands) /\ (~Reconsidered => FailedInv)
  <1>1. Init => I
    BY FailedInit DEF Init
  <1>2. I /\ [Next]_vars => I'
    BY FailedStep, Remembered
  <1>3. I => (~Reconsidered => FailedHasCause)
    BY DEF FailedInv, Caused, FailedHasCause
  <1> HIDE DEF I
  <1> QED BY <1>1, <1>2, <1>3, PTL DEF Spec

-----------------------------------------------------------------------------
(***************************************************************************)
(* Which blocks are linked, which wait and which are candidates, whatever  *)
(* the operator does and whether or not files are pruned.                  *)
(***************************************************************************)

\* Branches start at the genesis block.
Rooted == branch[Genesis] = <<Genesis>> /\ \A b \in Block : Known(b) => branch[b][1] = Genesis

\* Work grows along a branch.
Heavier ==
    /\ nChainWork \in [Block -> Nat]
    /\ \A b \in Block : \A j \in 1..Len(branch[b]) : \A i \in 1..(j - 1) :
          nChainWork[branch[b][i]] < nChainWork[branch[b][j]]

Grounded == Tree /\ Rooted /\ Heavier

Bits ==
    /\ undo \subseteq data /\ data \subseteq processed /\ linked \subseteq processed
    /\ \A b \in processed : b \in Block /\ Known(b)
    /\ Genesis \in linked /\ BadContext \cap processed = {} /\ IsFiniteSet(processed)
    /\ havePruned \in BOOLEAN /\ (~havePruned => data = processed)
    /\ aborted \in BOOLEAN

Marks == \A b \in failedValid \cup failedChild : b \in Block /\ Known(b)

Sequenced == arrival \in Seq(Block) /\ linked \subseteq Members(arrival) /\ Once(arrival)

\* One thread at a time is inside a critical section, and the queue belongs to
\* the one that links blocks.
Turns ==
    /\ pc \in [Thread -> Label]
    /\ most \in [Thread -> Block \cup {None}]
    /\ oldTip \in Block \cup {None}
    /\ queue \in Seq(Block) /\ Members(queue) \subseteq processed
    /\ \A t, u \in Thread : Holding(t) /\ Holding(u) => t = u
    /\ queue # <<>> => \E t \in Thread : pc[t] = "link"
    /\ \A t \in Thread : pc[t] = "link" => queue # <<>>

\* The blocks that are linked or about to be.
Reached == linked \cup Members(queue)

Closed == \A b \in Reached : Lineage(b) \subseteq Reached

Tips ==
    /\ candidates \subseteq Reached /\ tip \in Reached
    /\ \A c \in candidates : nChainWork[c] >= nChainWork[tip]

\* A thread that moves the tip has not arrived, and gains work by it.
Switching ==
    \A t \in Thread :
        /\ pc[t] = "step" => /\ most[t] \in linked /\ tip # most[t] /\ oldTip \in Block
                             /\ nChainWork[tip] <= nChainWork[most[t]]
        /\ pc[t] = "invalidate" => most[t] \in Block \ {Genesis}

\* A block in mapBlocksUnlinked waits for its parent, or was linked and waits for
\* the data of an ancestor.
Waits ==
    /\ unlinked \in Seq(Block) /\ Members(unlinked) \subseteq processed
    /\ Members(queue) \cap Members(unlinked) = {}
    /\ \A b \in Members(unlinked) : /\ b # Genesis
                                    /\ b \in linked => b \in data
                                    /\ b \notin Reached => Prev(b) \notin linked

\* Until something is pruned, no block is received twice.
NeverAgain ==
    ~havePruned =>
        /\ linked \cap Members(queue) = {} /\ linked \cap Members(unlinked) = {}
        /\ Once(queue) /\ Once(unlinked)
        /\ Members(arrival) = linked
        /\ candidates \subseteq linked /\ tip \in linked
        /\ \A c \in candidates : ~Worse(c, tip)

\* No ancestor is marked as invalid.
Valid(b) == Lineage(b) \cap failedValid = {}

\* Valid blocks that are not linked wait.
WaitsAll == \A b \in data : b \notin Reached /\ Valid(b) => b \in Members(unlinked)

LinkBase == /\ Grounded /\ Bits /\ Marks /\ Sequenced /\ Turns /\ Closed /\ Tips /\ Switching
            /\ Waits /\ NeverAgain /\ commands \in Seq(Commands)

\* The inductive invariant.
LinkInv == LinkBase /\ (~Reconsidered => FailedInv /\ WaitsAll)

-----------------------------------------------------------------------------
\* The ancestors of a block are known blocks.
LEMMA LineageKnown ==
    ASSUME Tree, NEW b \in Block, NEW y \in Lineage(b)
    PROVE  y \in Block /\ Known(y) /\ y \in Lineage(y)
  <1>1. PICK i \in 1..Len(branch[b]) : branch[b][i] = y
    BY DEF Lineage, Members
  <1>2. y \in Block
    BY <1>1 DEF Tree
  <1>3. Len(branch[y]) = i /\ i # 0
    BY <1>1 DEF Tree, Nested
  <1>4. Known(y)
    BY <1>3 DEF Known
  <1> QED BY <1>2, <1>4, InLineage

\* A block's ancestors are its parent's and itself (pprev).
LEMMA LineagePrev ==
    ASSUME Grounded, NEW b \in Block, Known(b), b # Genesis
    PROVE  /\ Prev(b) \in Block /\ Known(Prev(b)) /\ Prev(b) # b
           /\ Prev(b) \in Lineage(b)
           /\ Lineage(b) = Lineage(Prev(b)) \cup {b}
           /\ Len(branch[Prev(b)]) = Len(branch[b]) - 1
           /\ nChainWork[Prev(b)] < nChainWork[b]
  <1> DEFINE n == Len(branch[b])
             p == Prev(b)
  <1>1. branch[b] \in Seq(Block) /\ n \in Nat /\ n # 0
    BY DEF Grounded, Tree, Known
  <1>2. branch[b][n] = b /\ branch[b][1] = Genesis
    BY DEF Grounded, Tree, Ends, Rooted
  <1>3. n # 1
    BY <1>2
  <1>0. p = branch[b][n - 1]
    BY DEF Prev
  <1> HIDE DEF n
  <1>4. n - 1 \in 1..n /\ n \in 1..n /\ n - 1 \in 1..(n - 1) /\ p = branch[b][n - 1]
    BY <1>0, <1>1, <1>3
  <1>5. p \in Block
    BY <1>1, <1>4 DEF n
  <1>6. Len(branch[p]) = n - 1 /\ \A j \in 1..(n - 1) : branch[p][j] = branch[b][j]
    BY <1>4 DEF Grounded, Tree, Nested, n
  <1>7. nChainWork[branch[b][n - 1]] < nChainWork[branch[b][n]]
    BY <1>4 DEF Grounded, Heavier, n
  <1>8. p \in Lineage(b)
    BY <1>4 DEF Lineage, Members, n
  <1>9. Known(p)
    BY <1>8, LineageKnown DEF Grounded
  <1>10. p # b
    BY <1>1, <1>6 DEF n
  <1>11. ASSUME NEW y \in Lineage(b)
         PROVE  y \in Lineage(p) \/ y = b
    <2>1. PICK i \in 1..n : y = branch[b][i]
      BY DEF Lineage, Members, n
    <2>2. CASE i = n
      BY <1>2, <2>1, <2>2
    <2>3. CASE i # n
      <3>1. i \in 1..(n - 1)
        BY <1>1, <2>3
      <3> QED BY <1>6, <2>1, <3>1 DEF Lineage, Members
    <2> QED BY <2>2, <2>3
  <1>12. Lineage(p) \subseteq Lineage(b) /\ b \in Lineage(b)
    BY <1>8, LineageNested, InLineage DEF Grounded
  <1> HIDE DEF p
  <1>13. Lineage(b) = Lineage(p) \cup {b}
    BY <1>11, <1>12
  <1>14. nChainWork[p] < nChainWork[b]
    BY <1>2, <1>4, <1>7
  <1> QED BY <1>5, <1>6, <1>8, <1>9, <1>10, <1>13, <1>14 DEF n, p

\* The genesis block is everyone's ancestor, and has none.
LEMMA GenesisLineage ==
    ASSUME Grounded
    PROVE  /\ Lineage(Genesis) = {Genesis}
           /\ \A b \in Block : Known(b) => Genesis \in Lineage(b)
  <1>1. branch[Genesis] = <<Genesis>>
    BY DEF Grounded, Rooted
  <1>2. Lineage(Genesis) = {Genesis}
    BY <1>1 DEF Lineage, Members
  <1>3. ASSUME NEW b \in Block, Known(b)
        PROVE  Genesis \in Lineage(b)
    <2>1. 1 \in 1..Len(branch[b]) /\ branch[b][1] = Genesis
      BY <1>3 DEF Grounded, Rooted, Tree, Known
    <2> QED BY <2>1 DEF Lineage, Members
  <1> QED BY <1>2, <1>3

\* An ancestor other than the block itself has less work.
LEMMA AncestorLighter ==
    ASSUME Grounded, NEW b \in Block, NEW y \in Lineage(b), y # b
    PROVE  nChainWork[y] < nChainWork[b] /\ Len(branch[y]) < Len(branch[b])
  <1>1. PICK i \in 1..Len(branch[b]) : branch[b][i] = y
    BY DEF Lineage, Members
  <1>2. Len(branch[b]) \in Nat /\ Known(b)
    BY <1>1 DEF Grounded, Tree, Known
  <1>3. branch[b][Len(branch[b])] = b
    BY <1>2 DEF Grounded, Tree, Ends
  <1>4. i \in 1..(Len(branch[b]) - 1) /\ Len(branch[b]) \in 1..Len(branch[b])
    BY <1>1, <1>2, <1>3
  <1>5. nChainWork[branch[b][i]] < nChainWork[branch[b][Len(branch[b])]]
    BY <1>4 DEF Grounded, Heavier
  <1>6. Len(branch[y]) = i
    BY <1>1 DEF Grounded, Tree, Nested
  <1> QED BY <1>1, <1>2, <1>3, <1>4, <1>5, <1>6

\* A step leaves the known blocks' branches and work alone.
Grown == \A a \in Block : Known(a) => /\ branch'[a] = branch[a] /\ Known(a)'
                                      /\ nChainWork'[a] = nChainWork[a]

\* The functions of a known block that such a step keeps.
LEMMA GrownKeeps ==
    ASSUME Grown, NEW a \in Block, Known(a)
    PROVE  /\ Known(a)' /\ Lineage(a)' = Lineage(a) /\ Prev(a)' = Prev(a)
           /\ nChainWork'[a] = nChainWork[a]
  BY DEF Grown, Lineage, Members, Prev

\* AddToBlockIndex.
LEMMA GroundedGrows ==
    ASSUME Grounded, NEW b \in Hash, NEW p \in Block, HeaderOk(b, p), AddToBlockIndex(b, p)
    PROVE  /\ Grounded' /\ Grown /\ Known(b)' /\ Known(p)
           /\ Prev(b)' = p /\ Lineage(b)' = Lineage(p) \cup {b}
  <1>1. b \in Block /\ b # Genesis
    BY BlockAssumption DEF Block
  <1>2. Tree' /\ Known(b)' /\ \A a \in Block : Known(a) => branch'[a] = branch[a] /\ Known(a)'
    BY TreeGrows DEF Grounded
  <1>3. CASE Known(b)
    <2>1. branch' = branch /\ nChainWork' = nChainWork /\ p = Prev(b)
      BY <1>3 DEF AddToBlockIndex, HeaderOk
    <2>2. Grounded'
      BY <1>2, <2>1 DEF Grounded, Rooted, Heavier, Known
    <2>3. Grown
      BY <1>2, <2>1 DEF Grown
    <2>4. Known(p) /\ Lineage(b) = Lineage(p) \cup {b}
      BY <1>1, <1>3, <2>1, LineagePrev
    <2>5. Prev(b)' = p /\ Lineage(b)' = Lineage(b)
      BY <2>1 DEF Prev, Lineage, Members
    <2> QED BY <1>2, <2>2, <2>3, <2>4, <2>5
  <1>4. CASE ~Known(b)
    <2>1. /\ branch' = [branch EXCEPT ![b] = Append(branch[p], b)] /\ Known(p) /\ p # b
          /\ nChainWork' = [nChainWork EXCEPT ![b] = nChainWork[p] + Proof[b]]
      BY <1>4 DEF AddToBlockIndex, HeaderOk
    <2> DEFINE n == Len(branch[p])
    <2>2. /\ branch \in [Block -> Seq(Block)] /\ branch[p] \in Seq(Block) /\ n \in Nat /\ n # 0
          /\ nChainWork \in [Block -> Nat]
      BY <2>1 DEF Grounded, Tree, Heavier, Known
    <2>3. /\ branch'[b] = Append(branch[p], b)
          /\ Len(branch'[b]) = n + 1
          /\ branch'[b][n + 1] = b
          /\ \A i \in 1..n : branch'[b][i] = branch[p][i]
      BY <1>1, <2>1, <2>2
    <2>4. \A a \in Block \ {b} : branch'[a] = branch[a] /\ nChainWork'[a] = nChainWork[a]
      BY <2>1, <2>2
    <2>5. nChainWork'[b] = nChainWork[p] + Proof[b] /\ Proof[b] \in Nat \ {0}
      BY <1>1, <2>1, <2>2, WorkAssumption
    <2>6. nChainWork' \in [Block -> Nat]
      <3>1. nChainWork[p] + Proof[b] \in Nat
        BY <2>2, <2>5
      <3> QED BY <2>1, <2>2, <3>1
    <2>7. Grown
      BY <1>2, <1>4, <2>4 DEF Grown
    <2>8. branch[p][n] = p
      BY <2>1 DEF Grounded, Tree, Ends
    <2>9. Prev(b)' = p
      <3>1. branch'[b][Len(branch'[b]) - 1] = branch'[b][n]
        BY <2>2, <2>3
      <3> QED BY <2>2, <2>3, <2>8, <3>1 DEF Prev
    <2> HIDE DEF n
    <2>10. Lineage(b)' = Lineage(p) \cup {b}
      <3>1. ASSUME NEW y \in Lineage(b)'
            PROVE  y \in Lineage(p) \cup {b}
        <4>1. PICK i \in 1..(n + 1) : y = branch'[b][i]
          BY <2>3 DEF Lineage, Members
        <4>2. CASE i = n + 1
          BY <2>3, <4>1, <4>2
        <4>3. CASE i # n + 1
          <5>1. i \in 1..n
            BY <2>2, <4>3
          <5> QED BY <2>3, <4>1, <5>1 DEF Lineage, Members, n
        <4> QED BY <4>2, <4>3
      <3>2. ASSUME NEW y \in Lineage(p)
            PROVE  y \in Lineage(b)'
        <4>1. PICK i \in 1..n : y = branch[p][i]
          BY DEF Lineage, Members, n
        <4>2. i \in 1..(n + 1) /\ y = branch'[b][i]
          BY <2>2, <2>3, <4>1
        <4> QED BY <2>3, <4>2 DEF Lineage, Members
      <3>3. b \in Lineage(b)'
        <4>1. n + 1 \in 1..(n + 1)
          BY <2>2
        <4> QED BY <2>3, <4>1 DEF Lineage, Members
      <3> QED BY <3>1, <3>2, <3>3
    <2>11. Rooted'
      <3>1. branch'[Genesis] = <<Genesis>>
        BY <1>1, <2>4 DEF Block, Grounded, Rooted
      <3>2. ASSUME NEW a \in Block, Known(a)'
            PROVE  branch'[a][1] = Genesis
        <4>1. CASE a = b
          <5>1. 1 \in 1..n
            BY <2>2
          <5> QED BY <2>1, <2>3, <4>1, <5>1 DEF Grounded, Rooted
        <4>2. CASE a # b
          BY <2>4, <3>2, <4>2 DEF Grounded, Rooted, Known
        <4> QED BY <4>1, <4>2
      <3> QED BY <3>1, <3>2 DEF Rooted
    <2>12. Heavier'
      <3> SUFFICES ASSUME NEW a \in Block, NEW j \in 1..Len(branch'[a]), NEW i \in 1..(j - 1)
                   PROVE  nChainWork'[branch'[a][i]] < nChainWork'[branch'[a][j]]
        BY <2>6 DEF Heavier
      <3>1. ASSUME NEW d \in Block, NEW k \in 1..Len(branch[d])
            PROVE  branch[d][k] \in Block \ {b}
        <4>1. branch[d][k] \in Lineage(d)
          BY DEF Lineage, Members
        <4>2. branch[d][k] \in Block /\ Known(branch[d][k])
          BY <4>1, LineageKnown DEF Grounded
        <4> QED BY <1>4, <4>2
      <3>2. CASE a # b
        <4>1. branch'[a] = branch[a] /\ Len(branch[a]) \in Nat
          BY <2>2, <2>4, <3>2
        <4>2. i \in 1..Len(branch[a]) /\ j \in 1..Len(branch[a])
          BY <4>1
        <4>3. branch[a][i] \in Block \ {b} /\ branch[a][j] \in Block \ {b}
          BY <3>1, <4>2
        <4>4. nChainWork[branch[a][i]] < nChainWork[branch[a][j]]
          BY <4>2 DEF Grounded, Heavier
        <4> QED BY <2>4, <4>1, <4>3, <4>4
      <3>3. CASE a = b
        <4>0. j \in 1..(n + 1)
          BY <2>3, <3>3
        <4>1. i \in 1..n /\ branch'[b][i] = branch[p][i]
          BY <2>2, <2>3, <4>0
        <4>2. branch[p][i] \in Block \ {b}
          BY <3>1, <4>1 DEF n
        <4>3. nChainWork'[branch'[a][i]] = nChainWork[branch[p][i]]
          BY <2>4, <3>3, <4>1, <4>2
        <4>4. CASE j = n + 1
          <5>1. nChainWork'[branch'[a][j]] = nChainWork[p] + Proof[b]
            BY <2>3, <2>5, <3>3, <4>4
          <5>2. branch[p][i] \in Lineage(p)
            BY <4>1 DEF Lineage, Members, n
          <5>3. branch[p][i] = p \/ nChainWork[branch[p][i]] < nChainWork[p]
            BY <5>2, AncestorLighter
          <5>4. nChainWork[p] \in Nat /\ nChainWork[branch[p][i]] \in Nat
            BY <2>2, <4>2
          <5>5. nChainWork[branch[p][i]] <= nChainWork[p]
            BY <5>3, <5>4
          <5> QED BY <2>5, <4>3, <5>1, <5>4, <5>5
        <4>5. CASE j # n + 1
          <5>1. j \in 1..n
            BY <2>2, <4>0, <4>5
          <5>2. branch'[a][j] = branch[p][j]
            BY <2>3, <3>3, <5>1
          <5>3. branch[p][j] \in Block \ {b}
            BY <3>1, <5>1 DEF n
          <5>4. nChainWork[branch[p][i]] < nChainWork[branch[p][j]]
            BY <5>1 DEF Grounded, Heavier, n
          <5> QED BY <2>4, <4>3, <5>2, <5>3, <5>4
        <4> QED BY <4>4, <4>5
      <3> QED BY <3>2, <3>3
    <2> QED BY <1>2, <2>1, <2>7, <2>9, <2>10, <2>11, <2>12 DEF Grounded
  <1> QED BY <1>3, <1>4

-----------------------------------------------------------------------------
\* What a step keeps when it leaves known blocks and some of the variables alone.

\* The bits of nStatus.
LEMMA BitsKept ==
    ASSUME LinkBase, Grown,
           UNCHANGED <<data, undo, processed, linked, havePruned, aborted>>
    PROVE  Bits'
  BY DEF LinkBase, Bits, Grown

\* The BLOCK_FAILED marks.
LEMMA FlagsKept ==
    ASSUME LinkBase, Grown, UNCHANGED <<failedValid, failedChild>>
    PROVE  Marks'
  BY DEF LinkBase, Marks, Grown

\* The blocks that are linked, queued or waiting are known.
LEMMA ReachedKnown ==
    ASSUME LinkBase
    PROVE  /\ \A b \in Reached \cup Members(unlinked) \cup data \cup processed :
                 b \in Block /\ Known(b)
           /\ Reached \subseteq processed
           /\ \A c \in candidates \cup {tip} : c \in Reached
           /\ tip \in Block /\ Known(tip)
  BY DEF LinkBase, Bits, Turns, Waits, Tips, Reached

\* The ancestors of linked and queued blocks.
LEMMA ClosedKept ==
    ASSUME LinkBase, Grown, UNCHANGED <<linked, queue>>
    PROVE  Closed' /\ Reached' = Reached
  <1>1. Reached' = Reached
    BY DEF Reached, Members
  <1>2. \A b \in Reached : Lineage(b)' = Lineage(b)
    BY ReachedKnown, GrownKeeps
  <1> QED BY <1>1, <1>2 DEF Closed, LinkBase

\* The tip and the candidates.
LEMMA TipsKept ==
    ASSUME LinkBase, Grown, UNCHANGED <<linked, queue, candidates, tip>>
    PROVE  Tips'
  <1>1. Reached' = Reached
    BY ClosedKept
  <1>2. \A b \in candidates \cup {tip} : nChainWork'[b] = nChainWork[b]
    BY ReachedKnown, GrownKeeps
  <1> QED BY <1>1, <1>2 DEF Tips, LinkBase

\* What a thread is switching to, or invalidates.
LEMMA SwitchingKept ==
    ASSUME LinkBase, Grown, UNCHANGED <<linked, tip>>,
           \A t \in Thread : pc'[t] = "step" => /\ pc[t] = "step" /\ most'[t] = most[t]
                                                /\ oldTip' = oldTip,
           \A t \in Thread : pc'[t] = "invalidate" => pc[t] = "invalidate" /\ most'[t] = most[t]
    PROVE  Switching'
  <1> SUFFICES ASSUME NEW t \in Thread
               PROVE  (/\ pc[t] = "step" => /\ most[t] \in linked /\ tip # most[t]
                                            /\ oldTip \in Block
                                            /\ nChainWork[tip] <= nChainWork[most[t]]
                       /\ pc[t] = "invalidate" => most[t] \in Block \ {Genesis})'
    BY DEF Switching
  <1>1. CASE pc'[t] = "step"
    <2>1. /\ most[t] \in linked /\ tip # most[t] /\ oldTip \in Block
          /\ nChainWork[tip] <= nChainWork[most[t]]
      BY <1>1 DEF LinkBase, Switching
    <2>2. most[t] \in Block /\ Known(most[t])
      BY <2>1, ReachedKnown DEF Reached
    <2>3. nChainWork'[tip] = nChainWork[tip] /\ nChainWork'[most[t]] = nChainWork[most[t]]
      BY <2>2, ReachedKnown, GrownKeeps
    <2> QED BY <1>1, <2>1, <2>3
  <1>2. CASE pc'[t] = "invalidate"
    BY <1>2 DEF LinkBase, Switching
  <1> QED BY <1>1, <1>2

\* The blocks in mapBlocksUnlinked and in the queue.
LEMMA WaitsKept ==
    ASSUME LinkBase, Grown, UNCHANGED <<unlinked, queue, linked, data, processed>>
    PROVE  Waits'
  <1>1. Reached' = Reached
    BY ClosedKept
  <1>2. \A b \in Members(unlinked) : Prev(b)' = Prev(b)
    BY ReachedKnown, GrownKeeps
  <1> QED BY <1>1, <1>2 DEF Waits, LinkBase, Members

\* The order of two known blocks.
LEMMA WorseKept ==
    ASSUME LinkBase, Grown, UNCHANGED arrival,
           NEW a \in Block, Known(a), NEW b \in Block, Known(b)
    PROVE  Worse(a, b)' <=> Worse(a, b)
  <1>1. nChainWork'[a] = nChainWork[a] /\ nChainWork'[b] = nChainWork[b]
    BY GrownKeeps
  <1> QED BY <1>1 DEF Worse, WorseIn, Position

\* What holds as long as nothing was pruned.
LEMMA NeverKept ==
    ASSUME LinkBase, Grown,
           UNCHANGED <<havePruned, linked, queue, unlinked, arrival, candidates, tip>>
    PROVE  NeverAgain'
  <1>1. \A c \in candidates : Worse(c, tip)' <=> Worse(c, tip)
    BY ReachedKnown, WorseKept
  <1> QED BY <1>1 DEF NeverAgain, LinkBase, Members, Once

\* WaitsAll, where no data is added and no mark taken away.
LEMMA WaitsAllKept ==
    ASSUME LinkBase, WaitsAll, Grown, data' \subseteq data, Reached \subseteq Reached',
           failedValid \subseteq failedValid',
           \A b \in Members(unlinked) : \/ b \in Members(unlinked)' \/ b \in Reached'
                                        \/ b \notin data'
    PROVE  WaitsAll'
  <1> SUFFICES ASSUME NEW b \in data', b \notin Reached', Valid(b)'
               PROVE  b \in Members(unlinked)'
    BY DEF WaitsAll
  <1>1. b \in data /\ b \notin Reached
    OBVIOUS
  <1>2. b \in Block /\ Known(b)
    BY <1>1, ReachedKnown
  <1>3. Lineage(b)' = Lineage(b)
    BY <1>2, GrownKeeps
  <1>4. Valid(b)
    BY <1>3 DEF Valid
  <1>5. b \in Members(unlinked)
    BY <1>1, <1>4 DEF WaitsAll
  <1> QED BY <1>5

\* A thread moves on without the queue: it holds cs_main, takes it when it is
\* free, or does not need it.
LEMMA TurnsMove ==
    ASSUME Turns, processed \subseteq processed', UNCHANGED queue,
           NEW t \in Thread, NEW l \in Label \ {"link"}, Goto(t, l), pc[t] # "link",
           Free \/ Holding(t) \/ l \in {"idle", "activate", "loop"},
           most' \in [Thread -> Block \cup {None}], oldTip' \in Block \cup {None}
    PROVE  Turns'
  <1>1. pc' = [pc EXCEPT ![t] = l] /\ pc \in [Thread -> Label]
    BY DEF Goto, Turns
  <1>2. pc' \in [Thread -> Label] /\ pc'[t] = l /\ \A u \in Thread \ {t} : pc'[u] = pc[u]
    BY <1>1
  <1>3. \A u \in Thread : pc'[u] = "link" <=> pc[u] = "link"
    BY <1>2
  <1>4. \A u \in Thread \ {t} : Holding(u)' <=> Holding(u)
    BY <1>2 DEF Holding
  <1>5. Holding(t)' => Holding(t) \/ Free
    BY <1>2 DEF Holding
  <1>6. \A u, v \in Thread : Holding(u)' /\ Holding(v)' => u = v
    BY <1>4, <1>5 DEF Turns, Free
  <1>7. queue' \in Seq(Block) /\ Members(queue)' \subseteq processed'
    BY DEF Turns, Members
  <1> QED BY <1>2, <1>3, <1>6, <1>7 DEF Turns

\* A step that leaves the threads alone.
LEMMA TurnsKept ==
    ASSUME Turns, processed \subseteq processed', UNCHANGED threads
    PROVE  Turns'
  BY DEF Turns, threads, Holding, Members

\* When cs_main is free, or held by a thread that does not link, no block is
\* about to be linked.
LEMMA NothingQueued ==
    ASSUME Turns, Free \/ \E t \in Thread : Holding(t) /\ pc[t] # "link"
    PROVE  queue = <<>> /\ Members(queue) = {} /\ Reached = linked
  <1>1. queue = <<>>
    BY DEF Turns, Free, Holding
  <1>2. Members(queue) = {}
    BY <1>1 DEF Members
  <1> QED BY <1>1, <1>2 DEF Reached

-----------------------------------------------------------------------------
\* The steps, one by one.

\* A step that leaves mapBlockIndex alone.
LEMMA IndexKept ==
    ASSUME Grounded, UNCHANGED index
    PROVE  Grounded' /\ Grown
  BY DEF index, Grounded, Tree, Ends, Nested, Rooted, Heavier, Known, Grown

\* One element more.
LEMMA AppendMembers ==
    ASSUME NEW T, NEW s \in Seq(T), NEW x \in T
    PROVE  Append(s, x) \in Seq(T) /\ Members(Append(s, x)) = Members(s) \cup {x}
  <1> DEFINE q == <<x>>
  <1>1. q \in Seq(T) /\ Members(q) = {x}
    BY DEF Members
  <1>2. Append(s, x) = s \o q
    OBVIOUS
  <1> HIDE DEF q
  <1>3. s \o q \in Seq(T) /\ Members(s \o q) = Members(s) \cup Members(q)
    BY <1>1, ConcatMembers
  <1> QED BY <1>1, <1>2, <1>3

\* A header, or a block that is not looked at or rejected, adds at most a block
\* to mapBlockIndex and a mark to it.
LEMMA ArrivalLinks ==
    ASSUME LinkBase, commands' \in Seq(Commands), NEW b \in Hash, NEW p \in Block,
           HeaderOk(b, p), AddToBlockIndex(b, p),
           UNCHANGED <<data, undo, processed, linked, failedChild, choice, flags, queue>>,
           failedValid' = failedValid \/ failedValid' = failedValid \cup {b},
           Turns', Switching'
    PROVE  LinkBase' /\ (WaitsAll => WaitsAll')
  <1>1. Grounded' /\ Grown /\ Known(b)'
    BY GroundedGrows DEF LinkBase
  <1>2. UNCHANGED <<arrival, candidates, unlinked, tip, havePruned, aborted>>
    BY DEF choice, flags
  <1>3. Bits' /\ Closed' /\ Reached' = Reached /\ Tips' /\ Waits' /\ NeverAgain'
    BY <1>1, <1>2, BitsKept, ClosedKept, TipsKept, WaitsKept, NeverKept
  <1>4. Marks'
    BY <1>1 DEF LinkBase, Marks, Grown, Block
  <1>5. Sequenced'
    BY <1>2 DEF LinkBase, Sequenced, Members, Once
  <1>6. LinkBase'
    BY <1>1, <1>3, <1>4, <1>5 DEF LinkBase
  <1>7. Members(unlinked)' = Members(unlinked)
    BY <1>2 DEF Members
  <1>8. ASSUME WaitsAll
        PROVE  WaitsAll'
    BY <1>1, <1>2, <1>3, <1>7, <1>8, WaitsAllKept
  <1> QED BY <1>6, <1>8

\* LinkBase is kept by AcceptBlockHeader ...
LEMMA LinkHeader ==
    ASSUME LinkBase, commands' \in Seq(Commands), NEW b \in Hash, NEW p \in Block,
           AcceptBlockHeader(b, p)
    PROVE  LinkBase' /\ (WaitsAll => WaitsAll')
  <1>1. /\ HeaderOk(b, p) /\ AddToBlockIndex(b, p)
        /\ UNCHANGED <<status, choice, flags, threads>>
    BY DEF AcceptBlockHeader
  <1>2. Turns'
    BY <1>1, TurnsKept DEF LinkBase, status
  <1>3. Grown
    BY <1>1, GroundedGrows DEF LinkBase
  <1>4. Switching'
    BY <1>1, <1>3, SwitchingKept DEF threads, status, choice
  <1> QED BY <1>1, <1>2, <1>4, ArrivalLinks DEF status, threads

\* ... by a block that AcceptBlock ignores ...
LEMMA LinkIgnore ==
    ASSUME LinkBase, commands' \in Seq(Commands), NEW t \in Thread, NEW b \in Hash,
           NEW p \in Block, NEW r \in BOOLEAN, IgnoreBlock(t, b, p, r)
    PROVE  LinkBase' /\ (WaitsAll => WaitsAll')
  <1>1. /\ HeaderOk(b, p) /\ AddToBlockIndex(b, p) /\ pc[t] = "idle" /\ Goto(t, "activate")
        /\ UNCHANGED <<status, choice, flags, most, oldTip, queue>>
    BY DEF IgnoreBlock, Arrives
  <1>2. Turns'
    BY <1>1, TurnsMove DEF LinkBase, Turns, status, Label
  <1>3. Grown
    BY <1>1, GroundedGrows DEF LinkBase
  <1>4. Switching'
    BY <1>1, <1>3, SwitchingKept DEF LinkBase, Turns, Goto, status, choice
  <1> QED BY <1>1, <1>2, <1>4, ArrivalLinks DEF status

\* ... and by one that fails ContextualCheckBlock.
LEMMA LinkReject ==
    ASSUME LinkBase, commands' \in Seq(Commands), NEW t \in Thread, NEW b \in Hash,
           NEW p \in Block, NEW r \in BOOLEAN, RejectBlock(t, b, p, r)
    PROVE  LinkBase' /\ (WaitsAll => WaitsAll')
  <1>1. /\ HeaderOk(b, p) /\ AddToBlockIndex(b, p)
        /\ failedValid' = failedValid \cup {b}
        /\ UNCHANGED <<data, undo, processed, linked, failedChild, choice, flags, threads>>
    BY DEF RejectBlock, Arrives
  <1>2. Turns'
    BY <1>1, TurnsKept DEF LinkBase
  <1>3. Grown
    BY <1>1, GroundedGrows DEF LinkBase
  <1>4. Switching'
    BY <1>1, <1>3, SwitchingKept DEF threads, choice
  <1> QED BY <1>1, <1>2, <1>4, ArrivalLinks DEF threads

\* ReceivedBlockTransactions.
LEMMA LinkStore ==
    ASSUME LinkBase, commands' \in Seq(Commands), NEW t \in Thread, NEW b \in Hash,
           NEW p \in Block, NEW r \in BOOLEAN, StoreBlock(t, b, p, r)
    PROVE  LinkBase' /\ (WaitsAll /\ Caused => WaitsAll')
  <1>1. /\ pc[t] = "idle" /\ Free /\ HeaderOk(b, p) /\ AddToBlockIndex(b, p)
        /\ b \notin data /\ b \notin BadContext
        /\ data' = data \cup {b} /\ processed' = processed \cup {b} /\ linked' = linked \ {b}
        /\ UNCHANGED <<undo, failedValid, failedChild, arrival, candidates, tip, most, oldTip>>
        /\ UNCHANGED <<havePruned, aborted>>
    BY DEF StoreBlock, Arrives, Ignored, flags
  <1>2. b \in Block /\ b # Genesis
    BY BlockAssumption DEF Block
  <1>3. Grounded' /\ Grown /\ Known(b)' /\ Known(p) /\ Prev(b)' = p
        /\ Lineage(b)' = Lineage(p) \cup {b}
    BY <1>1, GroundedGrows DEF LinkBase
  <1>4. queue = <<>> /\ Members(queue) = {} /\ Reached = linked
    BY <1>1, NothingQueued DEF LinkBase
  <1>5. b \in linked => p \in linked
    <2> SUFFICES ASSUME b \in linked
                 PROVE  p \in linked
      OBVIOUS
    <2>1. Known(b)
      BY ReachedKnown DEF Reached
    <2>2. Lineage(b) = Lineage(p) \cup {b}
      BY <1>2, <1>3, <2>1, GrownKeeps
    <2>3. p \in Lineage(p)
      BY <1>3, InLineage DEF LinkBase, Grounded
    <2> QED BY <1>4, <2>2, <2>3 DEF LinkBase, Closed
  <1>6. p \in linked => b \notin Members(unlinked)
    <2> SUFFICES ASSUME p \in linked, b \in Members(unlinked)
                 PROVE  FALSE
      OBVIOUS
    <2>1. Known(b)
      BY ReachedKnown
    <2>2. Prev(b) = p
      BY <1>2, <1>3, <2>1, GrownKeeps
    <2> QED BY <1>1, <1>4, <2>2 DEF LinkBase, Waits
  <1>7. ~havePruned => b \notin processed /\ b \notin linked /\ b \notin Members(unlinked)
    BY <1>1 DEF LinkBase, Bits, Waits
  <1>8. Bits'
    <2>1. IsFiniteSet(processed')
      BY <1>1, FS_AddElement DEF LinkBase, Bits
    <2>2. \A x \in processed' : x \in Block /\ Known(x)'
      BY <1>1, <1>2, <1>3 DEF LinkBase, Bits, Grown
    <2> QED BY <1>1, <1>2, <2>1, <2>2 DEF LinkBase, Bits
  <1>9. Marks'
    BY <1>1, <1>3, FlagsKept
  <1>10. Sequenced'
    BY <1>1 DEF LinkBase, Sequenced, Members, Once
  <1>11. Switching'
    <2>1. \A u \in Thread : pc'[u] # "step" /\ pc'[u] # "invalidate"
      BY <1>1 DEF StoreBlock, Goto, LinkBase, Turns, Free, Holding
    <2> QED BY <2>1 DEF Switching
  <1>12. \A c \in candidates \cup {tip} : nChainWork'[c] = nChainWork[c]
    BY <1>3, ReachedKnown, GrownKeeps
  <1>13. \A c \in candidates : Worse(c, tip)' <=> Worse(c, tip)
    BY <1>1, <1>3, ReachedKnown, WorseKept
  <1>14. \A x \in Members(unlinked) : Prev(x)' = Prev(x)
    BY <1>3, ReachedKnown, GrownKeeps
  <1>15. \A x \in Reached : Lineage(x)' = Lineage(x)
    BY <1>3, ReachedKnown, GrownKeeps
  <1>16. CASE p \in linked
    <2>1. /\ queue' = <<b>> /\ unlinked' = unlinked /\ Goto(t, "link")
      BY <1>16 DEF StoreBlock
    <2>2. Members(queue)' = {b} /\ Members(unlinked)' = Members(unlinked)
      BY <2>1 DEF Members
    <2>3. Reached' = Reached \cup {b}
      BY <1>1, <1>4, <2>2 DEF Reached
    <2>4. Turns'
      <3>1. pc' \in [Thread -> Label] /\ pc'[t] = "link" /\ \A u \in Thread \ {t} : pc'[u] = pc[u]
        BY <2>1 DEF LinkBase, Turns, Goto, Label
      <3>2. \A u \in Thread \ {t} : ~Holding(u)'
        BY <1>1, <3>1 DEF Free, Holding
      <3>3. queue' \in Seq(Block) /\ queue' # <<>> /\ Members(queue)' \subseteq processed'
        BY <1>1, <1>2, <2>1, <2>2
      <3>4. \A u, v \in Thread : Holding(u)' /\ Holding(v)' => u = v
        BY <3>2
      <3>5. most' \in [Thread -> Block \cup {None}] /\ oldTip' \in Block \cup {None}
        BY <1>1 DEF LinkBase, Turns
      <3> QED BY <3>1, <3>3, <3>4, <3>5 DEF Turns
    <2>5. Closed'
      <3> SUFFICES ASSUME NEW x \in Reached \cup {b}
                   PROVE  Lineage(x)' \subseteq Reached \cup {b}
        BY <2>3 DEF Closed
      <3>1. CASE x \in Reached
        BY <1>15, <3>1 DEF LinkBase, Closed
      <3>2. CASE x = b
        BY <1>3, <1>4, <1>16, <3>2 DEF LinkBase, Closed
      <3> QED BY <3>1, <3>2
    <2>6. Tips'
      BY <1>1, <1>12, <2>3 DEF LinkBase, Tips
    <2>7. Waits'
      <3>1. unlinked' \in Seq(Block) /\ Members(unlinked)' \subseteq processed'
        BY <1>1, <2>1, <2>2 DEF LinkBase, Waits
      <3>2. ASSUME NEW x \in Members(unlinked)
            PROVE  /\ x # Genesis
                   /\ x \in linked' => x \in data'
                   /\ x \notin Reached' => Prev(x)' \notin linked'
        BY <1>1, <1>14, <2>3 DEF LinkBase, Waits
      <3> QED BY <1>6, <1>16, <2>2, <3>1, <3>2 DEF Waits
    <2>8. NeverAgain'
      <3> SUFFICES ASSUME ~havePruned
                   PROVE  NeverAgain'
        BY <1>1 DEF NeverAgain
      <3>1. linked' = linked /\ Members(arrival)' = Members(arrival)
        BY <1>1, <1>7 DEF Members
      <3>2. Once(queue)' /\ Once(unlinked)'
        BY <2>1 DEF Once, LinkBase, NeverAgain
      <3> QED BY <1>1, <1>7, <1>13, <2>2, <3>1, <3>2 DEF LinkBase, NeverAgain
    <2>9. LinkBase'
      BY <1>3, <1>8, <1>9, <1>10, <1>11, <2>4, <2>5, <2>6, <2>7, <2>8 DEF LinkBase
    <2>10. ASSUME WaitsAll
           PROVE  WaitsAll'
      <3> SUFFICES ASSUME NEW x \in data', x \notin Reached', Valid(x)'
                   PROVE  x \in Members(unlinked)'
        BY DEF WaitsAll
      <3>1. x \in data /\ x \notin Reached
        BY <1>1, <2>3
      <3>2. Lineage(x)' = Lineage(x)
        BY <1>3, <3>1, ReachedKnown, GrownKeeps
      <3> QED BY <1>1, <2>2, <2>10, <3>1, <3>2 DEF WaitsAll, Valid
    <2> QED BY <2>9, <2>10
  <1>17. CASE p \notin linked
    <2>1. /\ queue' = queue /\ Goto(t, "activate")
          /\ unlinked' = IF Failed(p) THEN unlinked ELSE Append(unlinked, b)
      BY <1>17 DEF StoreBlock
    <2>2. linked' = linked /\ Members(queue)' = {} /\ Reached' = Reached
      BY <1>1, <1>4, <1>5, <1>17, <2>1 DEF Reached, Members
    <2>3. unlinked \in Seq(Block) /\ Members(unlinked) \subseteq processed
      BY DEF LinkBase, Waits
    <2>4. /\ unlinked' \in Seq(Block)
          /\ Members(unlinked)' = IF Failed(p) THEN Members(unlinked)
                                  ELSE Members(unlinked) \cup {b}
      <3>1. CASE Failed(p)
        BY <2>1, <2>3, <3>1 DEF Members
      <3>2. CASE ~Failed(p)
        <4>1. unlinked' = Append(unlinked, b)
          BY <2>1, <3>2
        <4>2. Append(unlinked, b) \in Seq(Block)
              /\ Members(Append(unlinked, b)) = Members(unlinked) \cup {b}
          BY <1>2, <2>3, AppendMembers
        <4>3. Members(unlinked)' = Members(Append(unlinked, b))
          BY <4>1 DEF Members
        <4> QED BY <3>2, <4>1, <4>2, <4>3
      <3> QED BY <3>1, <3>2
    <2>5. Turns'
      BY <1>1, <2>1, TurnsMove DEF LinkBase, Turns, Label
    <2>6. Closed'
      BY <1>15, <2>2 DEF LinkBase, Closed
    <2>7. Tips'
      BY <1>1, <1>12, <2>2 DEF LinkBase, Tips
    <2>8. Waits'
      <3>1. Members(unlinked)' \subseteq processed'
        BY <1>1, <2>3, <2>4
      <3>2. ASSUME NEW x \in Members(unlinked) \cup {b}
            PROVE  /\ x # Genesis
                   /\ x \in linked' => x \in data'
                   /\ x \notin Reached' => Prev(x)' \notin linked'
        BY <1>1, <1>2, <1>3, <1>14, <1>17, <2>2 DEF LinkBase, Waits
      <3> QED BY <2>2, <2>4, <3>1, <3>2 DEF Waits
    <2>9. NeverAgain'
      <3> SUFFICES ASSUME ~havePruned
                   PROVE  NeverAgain'
        BY <1>1 DEF NeverAgain
      <3>1. Members(arrival)' = Members(arrival)
        BY <1>1 DEF Members
      <3>2. Once(queue)' /\ Once(unlinked)
        BY <2>1 DEF Once, LinkBase, NeverAgain
      <3>3. Once(Append(unlinked, b))
        BY <1>2, <1>7, <2>3, <3>2, AppendOrder
      <3>4. Once(unlinked)'
        BY <2>1, <3>2, <3>3 DEF Once
      <3>5. linked' \cap Members(unlinked)' = {}
        BY <1>7, <2>2, <2>4 DEF LinkBase, NeverAgain
      <3> QED BY <1>1, <1>13, <2>2, <3>1, <3>2, <3>4, <3>5 DEF LinkBase, NeverAgain
    <2>10. LinkBase'
      BY <1>3, <1>8, <1>9, <1>10, <1>11, <2>5, <2>6, <2>7, <2>8, <2>9 DEF LinkBase
    <2>11. ASSUME WaitsAll, Caused
           PROVE  WaitsAll'
      <3> SUFFICES ASSUME NEW x \in data', x \notin Reached', Valid(x)'
                   PROVE  x \in Members(unlinked)'
        BY DEF WaitsAll
      <3>1. CASE x = b
        <4>1. Valid(p)
          BY <1>1, <1>3, <3>1 DEF Valid
        <4>2. ~Failed(p)
          BY <2>11, <4>1 DEF Valid, Caused
        <4> QED BY <2>4, <3>1, <4>2
      <3>2. CASE x # b
        <4>1. x \in data /\ x \notin Reached
          BY <1>1, <2>2, <3>2
        <4>2. Lineage(x)' = Lineage(x)
          BY <1>3, <4>1, ReachedKnown, GrownKeeps
        <4> QED BY <1>1, <2>4, <2>11, <4>1, <4>2 DEF WaitsAll, Valid
      <3> QED BY <3>1, <3>2
    <2> QED BY <2>10, <2>11
  <1> QED BY <1>16, <1>17

\* The sequence ids after b is linked.
Resequenced(s, b) == Append(Filter(s, Block \ {b}), b)

\* The other blocks keep their order.
LEMMA Reordered ==
    ASSUME NEW s \in Seq(Block), Once(s), NEW b \in Block
    PROVE  /\ Resequenced(s, b) \in Seq(Block) /\ Once(Resequenced(s, b))
           /\ Members(Resequenced(s, b)) = Members(s) \cup {b}
           /\ Position(Resequenced(s, b), b) = Len(Resequenced(s, b))
           /\ Len(Resequenced(s, b)) \in Nat
           /\ \A a, c \in Members(s) \ {b} :
                 Position(Resequenced(s, b), a) > Position(Resequenced(s, b), c)
                     <=> Position(s, a) > Position(s, c)
           /\ \A a \in Members(s) \ {b} :
                 Position(Resequenced(s, b), a) < Len(Resequenced(s, b))
  <1> DEFINE order == Resequenced(s, b)
             q == Filter(s, Block \ {b})
  <1>1. /\ q \in Seq(Block) /\ Once(q) /\ Members(q) = Members(s) \cap (Block \ {b})
    BY FilterMembers
  <1>2. Members(s) \subseteq Block
    BY DEF Members
  <1>3. b \notin Members(q)
    BY <1>1
  <1>4. ASSUME NEW a \in Members(s) \ {b}, NEW c \in Members(s) \ {b}
        PROVE  Position(q, a) > Position(q, c) <=> Position(s, a) > Position(s, c)
    <2>1. a \in Members(s) \cap (Block \ {b}) /\ c \in Members(s) \cap (Block \ {b})
      BY <1>2
    <2> QED BY <2>1, FilterOrder
  <1> HIDE DEF q
  <1>5. order = Append(q, b)
    BY DEF q, Resequenced
  <1> HIDE DEF order
  <1>6. /\ order \in Seq(Block)
        /\ Members(order) = Members(q) \cup {b}
        /\ Once(order)
        /\ Position(order, b) = Len(q) + 1
        /\ \A a \in Members(q) : /\ Position(order, a) = Position(q, a)
                                 /\ Position(q, a) \in 1..Len(q)
        /\ Len(q) \in Nat
    <2>1. /\ Append(q, b) \in Seq(Block)
          /\ Members(Append(q, b)) = Members(q) \cup {b}
          /\ Once(Append(q, b))
          /\ Position(Append(q, b), b) = Len(q) + 1
          /\ \A a \in Members(q) : /\ Position(Append(q, b), a) = Position(q, a)
                                   /\ Position(q, a) \in 1..Len(q)
          /\ Len(q) \in Nat
      BY <1>1, <1>3, AppendOrder
    <2> QED BY <1>5, <2>1, Zenon
  <1>7. Len(order) = Len(q) + 1
    BY <1>1, <1>5
  <1>8. Members(order) = Members(s) \cup {b}
    BY <1>1, <1>2, <1>6
  <1>9. \A a \in Members(s) \ {b} : a \in Members(q)
    BY <1>1, <1>2
  <1>10. ASSUME NEW a \in Members(s) \ {b}
         PROVE  Position(order, a) < Len(order)
    <2>1. Position(order, a) \in 1..Len(q)
      BY <1>6, <1>9
    <2> QED BY <1>6, <1>7, <2>1
  <1>11. \A a, c \in Members(s) \ {b} :
            Position(order, a) > Position(order, c) <=> Position(s, a) > Position(s, c)
    BY <1>4, <1>6, <1>9
  <1>12. Position(order, b) = Len(order) /\ Len(order) \in Nat
    BY <1>6, <1>7
  <1> QED BY <1>6, <1>8, <1>10, <1>11, <1>12 DEF order

\* The loop of ReceivedBlockTransactions.
LEMMA LinkLinks ==
    ASSUME LinkBase, commands' \in Seq(Commands), NEW t \in Thread, LinkBlock(t)
    PROVE  LinkBase' /\ (WaitsAll => WaitsAll') /\ Reached \subseteq Reached'
  <1> DEFINE b == Head(queue)
             rest == Tail(queue)
             order == Resequenced(arrival, b)
  <1>1. /\ pc[t] = "link"
        /\ linked' = linked \cup {b} /\ arrival' = order
        /\ candidates' = IF WorseIn(order, b, tip) THEN candidates ELSE candidates \cup {b}
        /\ queue' = rest \o Waiting(b) /\ unlinked' = Remaining(b)
        /\ Goto(t, IF queue' = <<>> THEN "activate" ELSE "link")
        /\ UNCHANGED <<index, data, undo, processed, failedValid, failedChild, tip, most, oldTip>>
        /\ UNCHANGED <<havePruned, aborted>>
    BY DEF LinkBlock, Resequenced, flags
  <1>2. queue # <<>> /\ queue \in Seq(Block) /\ Members(queue) \subseteq processed
    BY <1>1 DEF LinkBase, Turns
  <1>3. /\ b \in Block /\ rest \in Seq(Block) /\ b \in Members(queue)
        /\ Members(queue) = {b} \cup Members(rest)
        /\ Once(queue) => Once(rest) /\ b \notin Members(rest)
    BY <1>2, TailMembers
  <1>4. /\ arrival' \in Seq(Block) /\ Once(arrival)'
        /\ Members(arrival)' = Members(arrival) \cup {b}
        /\ \A a, c \in Members(arrival) \ {b} :
              Position(order, a) > Position(order, c)
                  <=> Position(arrival, a) > Position(arrival, c)
    <2>1. arrival \in Seq(Block) /\ Once(arrival)
      BY DEF LinkBase, Sequenced
    <2>2. /\ order \in Seq(Block) /\ Once(order)
          /\ Members(order) = Members(arrival) \cup {b}
          /\ \A a, c \in Members(arrival) \ {b} :
                Position(order, a) > Position(order, c)
                    <=> Position(arrival, a) > Position(arrival, c)
      <3> HIDE DEF b
      <3> QED BY <1>3, <2>1, Reordered
    <2> QED BY <1>1, <2>2 DEF Once, Members
  <1> HIDE DEF b, rest, order
  <1>5. unlinked \in Seq(Block) /\ Members(unlinked) \subseteq processed
    BY DEF LinkBase, Waits
  <1>6. /\ Waiting(b) \in Seq(Block) /\ Members(Waiting(b)) = Members(unlinked) \cap Children(b)
        /\ Once(unlinked) => Once(Waiting(b))
    BY <1>5, FilterMembers DEF Waiting
  <1>7. /\ Remaining(b) \in Seq(Block)
        /\ Members(Remaining(b)) = Members(unlinked) \cap (Block \ Children(b))
        /\ Once(unlinked) => Once(Remaining(b))
    BY <1>5, FilterMembers DEF Remaining
  <1>8. /\ queue' \in Seq(Block)
        /\ Members(queue)' = Members(rest) \cup Members(Waiting(b))
        /\ Once(rest) /\ Once(Waiting(b)) /\ Members(rest) \cap Members(Waiting(b)) = {}
              => Once(queue)'
    <2>1. /\ rest \o Waiting(b) \in Seq(Block)
          /\ Members(rest \o Waiting(b)) = Members(rest) \cup Members(Waiting(b))
          /\ Once(rest) /\ Once(Waiting(b)) /\ Members(rest) \cap Members(Waiting(b)) = {}
                => Once(rest \o Waiting(b))
      BY <1>3, <1>6, ConcatMembers
    <2>2. Members(queue)' = Members(rest \o Waiting(b)) /\ (Once(queue)' <=> Once(rest \o Waiting(b)))
      BY <1>1 DEF Members, Once
    <2> QED BY <1>1, <2>1, <2>2
  <1>9. Members(unlinked)' = Members(Remaining(b)) /\ (Once(unlinked)' <=> Once(Remaining(b)))
    BY <1>1 DEF Members, Once
  <1>10. Reached' = Reached \cup Members(Waiting(b))
    BY <1>1, <1>3, <1>8 DEF Reached
  <1>11. Grounded' /\ Grown
    BY <1>1, IndexKept DEF LinkBase
  <1>12. \A x \in Block : Lineage(x)' = Lineage(x) /\ Prev(x)' = Prev(x) /\ (Known(x)' <=> Known(x))
    BY <1>1 DEF index, Lineage, Members, Prev, Known
  <1>13. Bits'
    BY <1>1, <1>2, <1>3, <1>12 DEF LinkBase, Bits
  <1>14. Marks'
    BY <1>1, <1>11, FlagsKept
  <1>15. Sequenced'
    BY <1>1, <1>4 DEF LinkBase, Sequenced
  <1>16. Turns'
    <2> DEFINE l == IF queue' = <<>> THEN "activate" ELSE "link"
    <2>1. pc' = [pc EXCEPT ![t] = l] /\ pc \in [Thread -> Label] /\ l \in Label
      BY <1>1 DEF Goto, LinkBase, Turns, Label
    <2>2. pc' \in [Thread -> Label] /\ pc'[t] = l /\ \A u \in Thread \ {t} : pc'[u] = pc[u]
      BY <2>1
    <2>3. \A u \in Thread \ {t} : ~Holding(u)
      BY <1>1 DEF LinkBase, Turns, Holding
    <2>4. \A u \in Thread \ {t} : ~Holding(u)' /\ pc'[u] # "link"
      BY <2>2, <2>3 DEF Holding
    <2>5. \A u, v \in Thread : Holding(u)' /\ Holding(v)' => u = v
      BY <2>4
    <2>6. queue' # <<>> => \E u \in Thread : pc'[u] = "link"
      BY <2>2
    <2>7. \A u \in Thread : pc'[u] = "link" => queue' # <<>>
      BY <2>2, <2>4
    <2>8. Members(queue)' \subseteq processed'
      BY <1>1, <1>2, <1>3, <1>5, <1>6, <1>8
    <2>9. most' \in [Thread -> Block \cup {None}] /\ oldTip' \in Block \cup {None}
      BY <1>1 DEF LinkBase, Turns
    <2> QED BY <1>8, <2>2, <2>5, <2>6, <2>7, <2>8, <2>9 DEF Turns
  <1>17. Closed'
    <2> SUFFICES ASSUME NEW x \in Reached \cup Members(Waiting(b))
                 PROVE  Lineage(x)' \subseteq Reached'
      BY <1>10 DEF Closed
    <2>1. CASE x \in Reached
      BY <1>10, <1>12, <2>1, ReachedKnown DEF LinkBase, Closed
    <2>2. CASE x \in Members(Waiting(b))
      <3>1. x \in Block /\ Known(x) /\ x # Genesis /\ Prev(x) = b
        BY <1>6, <2>2 DEF Children
      <3>2. Lineage(x) = Lineage(b) \cup {x}
        BY <3>1, LineagePrev DEF LinkBase
      <3>3. Lineage(b) \subseteq Reached
        BY <1>3 DEF LinkBase, Closed, Reached
      <3> QED BY <1>10, <1>12, <2>2, <3>1, <3>2, <3>3
    <2> QED BY <2>1, <2>2
  <1>18. Tips'
    <2>1. nChainWork' = nChainWork /\ nChainWork[b] \in Nat /\ nChainWork[tip] \in Nat
      BY <1>1, <1>3, ReachedKnown DEF index, LinkBase, Grounded, Heavier
    <2>2. ~WorseIn(order, b, tip) => nChainWork[b] >= nChainWork[tip]
      BY <2>1 DEF WorseIn
    <2>3. b \in Reached'
      BY <1>1 DEF Reached
    <2> QED BY <1>1, <1>10, <2>1, <2>2, <2>3 DEF LinkBase, Tips
  <1>19. Switching'
    <2>1. \A u \in Thread : pc'[u] # "step" /\ pc'[u] # "invalidate"
      <3>1. \A u \in Thread \ {t} : ~Holding(u)
        BY <1>1 DEF LinkBase, Turns, Holding
      <3>2. pc \in [Thread -> Label]
        BY DEF LinkBase, Turns
      <3> QED BY <1>1, <3>1, <3>2 DEF Goto, Holding
    <2> QED BY <2>1 DEF Switching
  <1>20. Waits'
    <2>1. unlinked' \in Seq(Block) /\ Members(unlinked)' \subseteq processed'
      BY <1>1, <1>5, <1>7, <1>9
    <2>2. Members(queue) \cap Members(unlinked) = {}
      BY DEF LinkBase, Waits
    <2>3. Members(queue)' \cap Members(unlinked)' = {}
      BY <1>3, <1>6, <1>7, <1>8, <1>9, <2>2
    <2>4. ASSUME NEW x \in Members(unlinked)'
          PROVE  /\ x # Genesis
                 /\ x \in linked' => x \in data'
                 /\ x \notin Reached' => Prev(x)' \notin linked'
      <3>1. x \in Members(unlinked) /\ x \in Block /\ x \notin Children(b)
        BY <1>7, <1>9, <2>4
      <3>2. Known(x) /\ x # Genesis /\ (x \in linked => x \in data)
        BY <3>1, ReachedKnown DEF LinkBase, Waits
      <3>3. Prev(x) # b
        BY <3>1, <3>2 DEF Children
      <3>4. x # b
        BY <1>3, <2>2, <3>1
      <3>5. x \notin Reached' => Prev(x) \notin linked
        BY <1>10, <3>1 DEF LinkBase, Waits
      <3> QED BY <1>1, <1>12, <3>1, <3>2, <3>3, <3>4, <3>5
    <2> QED BY <2>1, <2>3, <2>4 DEF Waits
  <1>21. NeverAgain'
    <2> SUFFICES ASSUME ~havePruned
                 PROVE  NeverAgain'
      BY <1>1 DEF NeverAgain
    <2>1. /\ linked \cap Members(queue) = {} /\ linked \cap Members(unlinked) = {}
          /\ Once(queue) /\ Once(unlinked) /\ Members(arrival) = linked
          /\ candidates \subseteq linked /\ tip \in linked
          /\ \A c \in candidates : ~Worse(c, tip)
      BY DEF LinkBase, NeverAgain
    <2>2. Members(queue) \cap Members(unlinked) = {}
      BY DEF LinkBase, Waits
    <2>3. b \notin linked /\ b \notin Members(rest) /\ b \notin Members(unlinked)
      BY <1>3, <2>1, <2>2
    <2>4. Once(queue)' /\ Once(unlinked)'
      BY <1>3, <1>6, <1>7, <1>8, <1>9, <2>1, <2>2
    <2>5. linked' \cap Members(queue)' = {} /\ linked' \cap Members(unlinked)' = {}
      BY <1>1, <1>3, <1>6, <1>7, <1>8, <1>9, <2>1, <2>3
    <2>6. Members(arrival)' = linked'
      BY <1>1, <1>4, <2>1
    <2>7. candidates' \subseteq linked' /\ tip' \in linked'
      BY <1>1, <2>1
    <2>8. \A c \in candidates' : ~WorseIn(order, c, tip)
      <3>1. ASSUME NEW c \in candidates
            PROVE  ~WorseIn(order, c, tip)
        <4>1. c \in Members(arrival) \ {b} /\ tip \in Members(arrival) \ {b}
          BY <2>1, <2>3
        <4> QED BY <1>4, <2>1, <4>1 DEF Worse, WorseIn
      <3> QED BY <1>1, <3>1
    <2>9. \A c \in candidates' : ~Worse(c, tip)'
      BY <1>1, <2>8 DEF Worse, WorseIn, Position, index
    <2> QED BY <2>4, <2>5, <2>6, <2>7, <2>9 DEF NeverAgain
  <1>22. LinkBase'
    BY <1>11, <1>13, <1>14, <1>15, <1>16, <1>17, <1>18, <1>19, <1>20, <1>21 DEF LinkBase
  <1>23. ASSUME WaitsAll
         PROVE  WaitsAll'
    <2>1. \A x \in Members(unlinked) : x \in Members(unlinked)' \/ x \in Reached'
      BY <1>5, <1>6, <1>7, <1>9, <1>10, ReachedKnown
    <2> QED BY <1>1, <1>10, <1>11, <1>23, <2>1, WaitsAllKept
  <1> QED BY <1>10, <1>22, <1>23

\* A step that links nothing and leaves mapBlocksUnlinked alone: it may change
\* the tip, the candidates and the marks.
LEMMA ChoiceLinks ==
    ASSUME LinkBase, commands' \in Seq(Commands),
           UNCHANGED <<index, data, processed, linked, arrival, unlinked, queue, havePruned>>,
           undo' \subseteq data', aborted' \in BOOLEAN,
           Marks', Turns', Switching', Tips',
           ~havePruned => /\ candidates' \subseteq linked /\ tip' \in linked
                          /\ \A c \in candidates' : ~WorseIn(arrival, c, tip')
    PROVE  LinkBase' /\ (WaitsAll /\ failedValid \subseteq failedValid' => WaitsAll')
  <1>1. Grounded' /\ Grown
    BY IndexKept DEF LinkBase
  <1>2. Bits'
    BY <1>1 DEF LinkBase, Bits, Grown
  <1>3. Closed' /\ Reached' = Reached /\ Waits'
    BY <1>1, ClosedKept, WaitsKept
  <1>4. Sequenced'
    BY DEF LinkBase, Sequenced, Members, Once
  <1>5. NeverAgain'
    <2> SUFFICES ASSUME ~havePruned
                 PROVE  NeverAgain'
      BY DEF NeverAgain
    <2>1. \A c \in candidates' : ~Worse(c, tip)'
      BY DEF Worse, WorseIn, Position, index
    <2>2. /\ Members(queue)' = Members(queue) /\ Members(unlinked)' = Members(unlinked)
          /\ Members(arrival)' = Members(arrival)
      BY DEF Members
    <2>3. Once(queue)' /\ Once(unlinked)'
      BY DEF LinkBase, NeverAgain, Once
    <2> QED BY <2>1, <2>2, <2>3 DEF LinkBase, NeverAgain
  <1>6. LinkBase'
    BY <1>1, <1>2, <1>3, <1>4, <1>5 DEF LinkBase
  <1>7. ASSUME WaitsAll, failedValid \subseteq failedValid'
        PROVE  WaitsAll'
    <2>1. Members(unlinked)' = Members(unlinked)
      BY DEF Members
    <2> QED BY <1>1, <1>3, <1>7, <2>1, WaitsAllKept
  <1> QED BY <1>6, <1>7

\* A step that only moves a thread.
LEMMA ThreadLinks ==
    ASSUME LinkBase, commands' \in Seq(Commands),
           UNCHANGED <<index, status, choice, flags, queue>>, Turns', Switching'
    PROVE  LinkBase' /\ (WaitsAll => WaitsAll')
  <1>1. UNCHANGED <<data, undo, processed, linked, failedValid, failedChild, arrival, candidates,
                    unlinked, tip, havePruned, aborted>>
    BY DEF status, choice, flags
  <1>2. Grown
    BY IndexKept DEF LinkBase
  <1>3. Marks' /\ Tips'
    BY <1>1, <1>2, FlagsKept, TipsKept
  <1>4. undo' \subseteq data' /\ aborted' \in BOOLEAN
    BY <1>1 DEF LinkBase, Bits
  <1>5. ~havePruned => /\ candidates' \subseteq linked /\ tip' \in linked
                       /\ \A c \in candidates' : ~WorseIn(arrival, c, tip')
    BY <1>1 DEF LinkBase, NeverAgain, Worse
  <1> QED BY <1>1, <1>3, <1>4, <1>5, ChoiceLinks

\* LinkBase is kept by the steps that only move a thread on.
LEMMA LinkTurn ==
    ASSUME LinkBase, commands' \in Seq(Commands), NEW t \in Thread,
           Activate(t) \/ NothingToDo(t) \/ Loop(t)
    PROVE  LinkBase' /\ (WaitsAll => WaitsAll')
  <1>1. /\ UNCHANGED <<index, status, choice, flags, queue, oldTip>>
        /\ pc[t] \in {"activate", "find", "loop"}
    BY DEF Activate, NothingToDo, Loop
  <1>2. PICK l \in {"find", "idle", "activate"} : /\ Goto(t, l)
                                                  /\ Free \/ l \in {"idle", "activate"}
    BY DEF Activate, NothingToDo, Loop
  <1>3. most' \in [Thread -> Block \cup {None}] /\ \A u \in Thread \ {t} : most'[u] = most[u]
    BY DEF Activate, NothingToDo, Loop, LinkBase, Turns
  <1>4. Turns'
    BY <1>1, <1>2, <1>3, TurnsMove DEF LinkBase, Turns, status, Label
  <1>5. pc' = [pc EXCEPT ![t] = l] /\ pc \in [Thread -> Label]
    BY <1>2 DEF Goto, LinkBase, Turns
  <1>6. \A u \in Thread : pc'[u] \in {"step", "invalidate"} => u # t /\ pc'[u] = pc[u]
    BY <1>2, <1>5
  <1>7. Grown
    BY <1>1, IndexKept DEF LinkBase
  <1>8. Switching'
    BY <1>1, <1>3, <1>6, <1>7, SwitchingKept DEF status, choice
  <1> QED BY <1>1, <1>4, <1>8, ThreadLinks

\* The thread that holds cs_main is alone in a critical section.
LEMMA Alone ==
    ASSUME Turns, NEW t \in Thread, Holding(t), NEW u \in Thread \ {t}
    PROVE  pc[u] \notin {"link", "find", "step", "invalidate"}
  BY DEF Turns, Holding

\* LinkBase is kept when FindMostWorkChain returns a block to switch to.
LEMMA LinkChoose ==
    ASSUME LinkBase, commands' \in Seq(Commands), NEW t \in Thread, NEW c \in Block,
           ChooseCandidate(t, c)
    PROVE  LinkBase' /\ (WaitsAll => WaitsAll')
  <1>1. /\ UNCHANGED <<index, status, choice, flags, queue>>
        /\ pc[t] = "find" /\ Goto(t, "step") /\ oldTip' = tip
        /\ most' = [most EXCEPT ![t] = c] /\ c \in candidates /\ c # tip
    BY DEF ChooseCandidate, IsBestCandidate
  <1>2. Holding(t)
    BY <1>1 DEF Holding
  <1>3. Reached = linked
    BY <1>1, <1>2, NothingQueued DEF LinkBase
  <1>4. tip \in Block /\ c \in linked /\ nChainWork[c] >= nChainWork[tip]
    BY <1>1, <1>3, ReachedKnown DEF LinkBase, Tips
  <1>5. most' \in [Thread -> Block \cup {None}] /\ most'[t] = c
    BY <1>1 DEF LinkBase, Turns
  <1>6. Turns'
    BY <1>1, <1>2, <1>4, <1>5, TurnsMove DEF LinkBase, Turns, status, Label
  <1>7. nChainWork[c] \in Nat /\ nChainWork[tip] \in Nat
    BY <1>4 DEF LinkBase, Grounded, Heavier
  <1>8. pc'[t] = "step" /\ \A u \in Thread \ {t} : pc'[u] \notin {"step", "invalidate"}
    <2>1. pc \in [Thread -> Label]
      BY DEF LinkBase, Turns
    <2> QED BY <1>1, <1>2, <2>1, Alone DEF LinkBase, Goto
  <1>9. Switching'
    BY <1>1, <1>4, <1>5, <1>7, <1>8 DEF Switching, status, choice, index
  <1> QED BY <1>1, <1>6, <1>9, ThreadLinks

\* The block after an ancestor on the way to m.
LEMMA NextOnBranch ==
    ASSUME Grounded, NEW m \in Block, NEW y \in Lineage(m), y # m
    PROVE  LET b == branch[m][Len(branch[y]) + 1] IN
           /\ b \in Block /\ Known(b) /\ b \in Lineage(m) /\ b # Genesis
           /\ Prev(b) = y /\ Lineage(b) = Lineage(y) \cup {b}
           /\ nChainWork[y] < nChainWork[b]
           /\ b # m => nChainWork[b] < nChainWork[m]
  <1> DEFINE k == Len(branch[y])
             b == branch[m][k + 1]
  <1>1. PICK i \in 1..Len(branch[m]) : branch[m][i] = y
    BY DEF Lineage, Members
  <1>2. Len(branch[m]) \in Nat /\ k = i
    BY <1>1 DEF Grounded, Tree, Nested
  <1>3. Len(branch[y]) < Len(branch[m])
    BY AncestorLighter
  <1>4. i + 1 \in 1..Len(branch[m])
    BY <1>1, <1>2, <1>3
  <1>5. b \in Lineage(m) /\ b = branch[m][i + 1]
    BY <1>2, <1>4 DEF Lineage, Members
  <1>6. b \in Block /\ Known(b)
    BY <1>5, LineageKnown DEF Grounded
  <1> HIDE DEF b
  <1>7. Len(branch[b]) = i + 1 /\ \A j \in 1..(i + 1) : branch[b][j] = branch[m][j]
    BY <1>4, <1>5 DEF Grounded, Tree, Nested
  <1>8. Prev(b) = y
    <2>1. i \in 1..(i + 1) /\ Len(branch[b]) - 1 = i
      BY <1>7
    <2> QED BY <1>1, <1>7, <2>1 DEF Prev
  <1>9. b # Genesis
    <2>1. branch[Genesis] = <<Genesis>>
      BY DEF Grounded, Rooted
    <2> QED BY <1>7, <2>1
  <1>10. Lineage(b) = Lineage(y) \cup {b} /\ nChainWork[y] < nChainWork[b]
    BY <1>6, <1>8, <1>9, LineagePrev
  <1>11. b # m => nChainWork[b] < nChainWork[m]
    BY <1>5, AncestorLighter
  <1> QED BY <1>5, <1>6, <1>8, <1>9, <1>10, <1>11 DEF b

\* LinkBase is kept by DisconnectTip ...
LEMMA LinkDisconnect ==
    ASSUME LinkBase, commands' \in Seq(Commands), NEW t \in Thread, DisconnectTip(t)
    PROVE  LinkBase' /\ (WaitsAll => WaitsAll')
  <1>1. /\ UNCHANGED <<index, status, arrival, candidates, unlinked, flags, threads>>
        /\ pc[t] = "step" /\ tip \notin Lineage(most[t]) /\ tip' = Prev(tip)
    BY DEF DisconnectTip
  <1>2. Holding(t)
    BY <1>1 DEF Holding
  <1>3. Reached = linked
    BY <1>1, <1>2, NothingQueued DEF LinkBase
  <1>4. /\ most[t] \in linked /\ oldTip \in Block /\ nChainWork[tip] <= nChainWork[most[t]]
        /\ most[t] \in Block /\ Known(most[t])
    BY <1>1, ReachedKnown DEF LinkBase, Switching, Reached
  <1>5. tip # Genesis
    BY <1>1, <1>4, GenesisLineage DEF LinkBase
  <1>6. tip \in Block /\ Known(tip) /\ tip \in linked
    BY <1>3, ReachedKnown DEF LinkBase, Tips
  <1>7. /\ Prev(tip) \in Block /\ Prev(tip) \in Lineage(tip)
        /\ nChainWork[Prev(tip)] < nChainWork[tip]
    BY <1>5, <1>6, LineagePrev DEF LinkBase
  <1>8. tip' \in linked
    BY <1>1, <1>3, <1>6, <1>7 DEF LinkBase, Closed
  <1>9. /\ nChainWork[tip'] \in Nat /\ nChainWork[tip] \in Nat /\ nChainWork[most[t]] \in Nat
        /\ \A c \in candidates : nChainWork[c] \in Nat /\ nChainWork[c] >= nChainWork[tip]
    BY <1>1, <1>4, <1>6, <1>7, ReachedKnown DEF LinkBase, Grounded, Heavier, Tips
  <1>10. \A c \in candidates : nChainWork[c] > nChainWork[tip']
    BY <1>1, <1>7, <1>9
  <1>11. UNCHANGED <<linked, queue, candidates, nChainWork, pc, most, oldTip, data, undo, processed,
                     failedValid, failedChild, havePruned, aborted>>
    BY <1>1 DEF status, threads, index, flags
  <1>12. Tips'
    <2>1. Reached' = Reached
      BY <1>11 DEF Reached, Members
    <2> QED BY <1>3, <1>8, <1>9, <1>10, <1>11, <2>1 DEF LinkBase, Tips
  <1>13. Switching'
    <2>1. \A u \in Thread \ {t} : pc[u] \notin {"step", "invalidate"}
      BY <1>2, Alone DEF LinkBase
    <2>2. tip' # most[t] /\ nChainWork[tip'] <= nChainWork[most[t]]
      BY <1>1, <1>4, <1>7, <1>9
    <2> QED BY <1>1, <1>4, <1>11, <2>1, <2>2 DEF Switching
  <1>14. Turns'
    BY <1>1, <1>11, TurnsKept DEF LinkBase
  <1>15. Marks'
    BY <1>1, <1>11, FlagsKept, IndexKept DEF LinkBase
  <1>16. undo' \subseteq data' /\ aborted' \in BOOLEAN
    BY <1>11 DEF LinkBase, Bits
  <1>17. \A c \in candidates' : ~WorseIn(arrival, c, tip')
    BY <1>1, <1>9, <1>10, <1>11 DEF WorseIn
  <1>18. ~havePruned => candidates' \subseteq linked
    BY <1>11 DEF LinkBase, NeverAgain
  <1>19. UNCHANGED <<index, data, processed, linked, arrival, unlinked, queue, havePruned>>
    BY <1>1, <1>11
  <1> QED BY <1>8, <1>11, <1>12, <1>13, <1>14, <1>15, <1>16, <1>17, <1>18, <1>19, ChoiceLinks

\* ... and when it fails.
LEMMA LinkStepFails ==
    ASSUME LinkBase, commands' \in Seq(Commands), NEW t \in Thread, StepFails(t)
    PROVE  LinkBase' /\ (WaitsAll => WaitsAll')
  <1>1. /\ UNCHANGED <<index, status, choice, havePruned, queue>>
        /\ pc[t] = "step" /\ Goto(t, "idle") /\ oldTip' = None
        /\ most' = [most EXCEPT ![t] = None] /\ aborted' = TRUE
    BY DEF StepFails, Release
  <1>2. Holding(t)
    BY <1>1 DEF Holding
  <1>3. UNCHANGED <<data, undo, processed, linked, failedValid, failedChild, arrival, candidates,
                    unlinked, tip>>
    BY <1>1 DEF status, choice
  <1>4. most' \in [Thread -> Block \cup {None}]
    BY <1>1 DEF LinkBase, Turns
  <1>5. Turns'
    BY <1>1, <1>2, <1>3, <1>4, TurnsMove DEF LinkBase, Label
  <1>6. \A u \in Thread : pc'[u] \notin {"step", "invalidate"}
    <2>1. pc \in [Thread -> Label]
      BY DEF LinkBase, Turns
    <2> QED BY <1>1, <1>2, <2>1, Alone DEF LinkBase, Goto
  <1>7. Switching'
    BY <1>6 DEF Switching
  <1>8. Grown
    BY <1>1, IndexKept DEF LinkBase
  <1>9. Marks' /\ Tips'
    BY <1>1, <1>3, <1>8, FlagsKept, TipsKept
  <1>10. undo' \subseteq data'
    BY <1>3 DEF LinkBase, Bits
  <1>11. ~havePruned => /\ candidates' \subseteq linked /\ tip' \in linked
                        /\ \A c \in candidates' : ~WorseIn(arrival, c, tip')
    BY <1>3 DEF LinkBase, NeverAgain, Worse
  <1> QED BY <1>1, <1>3, <1>5, <1>7, <1>9, <1>10, <1>11, ChoiceLinks

\* The block that is connected next, or found invalid.
LEMMA NextOnWay ==
    ASSUME LinkBase, NEW t \in Thread, pc[t] = "step", tip \in Lineage(most[t])
    PROVE  /\ NextBlock(t) \in Block /\ Known(NextBlock(t)) /\ NextBlock(t) \in linked
           /\ NextBlock(t) \in Lineage(most[t])
           /\ NextBlock(t) # Genesis
           /\ Lineage(NextBlock(t)) = Lineage(tip) \cup {NextBlock(t)}
           /\ nChainWork[tip] < nChainWork[NextBlock(t)]
           /\ NextBlock(t) # most[t] => nChainWork[NextBlock(t)] < nChainWork[most[t]]
  <1>1. Holding(t)
    BY DEF Holding
  <1>2. Reached = linked
    BY <1>1, NothingQueued DEF LinkBase
  <1>3. most[t] \in linked /\ tip # most[t] /\ most[t] \in Block
    BY ReachedKnown DEF LinkBase, Switching, Reached
  <1>4. /\ NextBlock(t) \in Block /\ Known(NextBlock(t))
        /\ NextBlock(t) \in Lineage(most[t])
        /\ NextBlock(t) # Genesis
        /\ Lineage(NextBlock(t)) = Lineage(tip) \cup {NextBlock(t)}
        /\ nChainWork[tip] < nChainWork[NextBlock(t)]
        /\ NextBlock(t) # most[t] => nChainWork[NextBlock(t)] < nChainWork[most[t]]
    BY <1>3, NextOnBranch DEF LinkBase, NextBlock
  <1>5. NextBlock(t) \in linked
    BY <1>2, <1>3, <1>4 DEF LinkBase, Closed
  <1> QED BY <1>4, <1>5

\* LinkBase is kept by ConnectTip.
LEMMA LinkConnect ==
    ASSUME LinkBase, commands' \in Seq(Commands), NEW t \in Thread, ConnectTip(t)
    PROVE  LinkBase' /\ (WaitsAll => WaitsAll')
  <1> DEFINE b == NextBlock(t)
  <1>1. /\ UNCHANGED <<index, data, processed, linked, failedValid, failedChild, arrival, unlinked,
                       flags, most, queue>>
        /\ pc[t] = "step" /\ tip \in Lineage(most[t]) /\ tip' = b
        /\ b \in data /\ undo' = undo \cup {b}
        /\ candidates' = {c \in candidates : ~Worse(c, b)}
        /\ \/ Goto(t, "loop") /\ oldTip' = None
           \/ UNCHANGED <<pc, oldTip>> /\ b # most[t]
    BY DEF ConnectTip, Release, PruneBlockIndexCandidates
  <1>2. Holding(t)
    BY <1>1 DEF Holding
  <1>3. Reached = linked
    BY <1>1, <1>2, NothingQueued DEF LinkBase
  <1>4. /\ b \in Block /\ b \in linked
        /\ b # most[t] => nChainWork[b] < nChainWork[most[t]]
    BY <1>1, NextOnWay
  <1> HIDE DEF b
  <1>5. most[t] \in linked /\ oldTip \in Block /\ most[t] \in Block
    BY <1>1, ReachedKnown DEF LinkBase, Switching, Reached
  <1>6. nChainWork' = nChainWork /\ UNCHANGED <<havePruned, aborted>>
    BY <1>1 DEF index, flags
  <1>7. /\ nChainWork[b] \in Nat /\ nChainWork[most[t]] \in Nat
        /\ \A c \in candidates : nChainWork[c] \in Nat
    BY <1>4, <1>5, ReachedKnown DEF LinkBase, Grounded, Heavier
  <1>8. Tips'
    <2>1. Reached' = Reached
      BY <1>1 DEF Reached, Members
    <2>2. \A c \in candidates' : nChainWork[c] >= nChainWork[b]
      BY <1>1, <1>7 DEF Worse, WorseIn
    <2> QED BY <1>1, <1>3, <1>4, <1>6, <2>1, <2>2 DEF LinkBase, Tips
  <1>9. pc \in [Thread -> Label] /\ most' \in [Thread -> Block \cup {None}]
    BY <1>1 DEF LinkBase, Turns
  <1>10. Turns'
    <2>1. CASE Goto(t, "loop") /\ oldTip' = None
      BY <1>1, <1>2, <1>9, <2>1, TurnsMove DEF LinkBase, Label
    <2>2. CASE UNCHANGED <<pc, oldTip>>
      BY <1>1, <2>2, TurnsKept DEF LinkBase, threads
    <2> QED BY <1>1, <2>1, <2>2
  <1>11. Switching'
    <2>1. \A u \in Thread \ {t} : pc'[u] \notin {"step", "invalidate"}
      BY <1>1, <1>2, <1>9, Alone DEF LinkBase, Goto
    <2>2. /\ pc'[t] # "invalidate"
          /\ pc'[t] = "step" => b # most[t] /\ oldTip' = oldTip
      BY <1>1, <1>9 DEF Goto
    <2>3. b # most[t] => nChainWork[b] <= nChainWork[most[t]]
      BY <1>4, <1>7
    <2> QED BY <1>1, <1>5, <1>6, <2>1, <2>2, <2>3 DEF Switching
  <1>12. Marks'
    BY <1>1, FlagsKept, IndexKept DEF LinkBase
  <1>13. undo' \subseteq data' /\ aborted' \in BOOLEAN
    BY <1>1, <1>6 DEF LinkBase, Bits
  <1>14. ~havePruned => candidates' \subseteq linked
    BY <1>1 DEF LinkBase, NeverAgain
  <1>15. \A c \in candidates' : ~WorseIn(arrival, c, tip')
    BY <1>1 DEF Worse
  <1>16. UNCHANGED <<index, data, processed, linked, arrival, unlinked, queue, havePruned>>
    BY <1>1, <1>6
  <1> QED BY <1>1, <1>4, <1>8, <1>10, <1>11, <1>12, <1>13, <1>14, <1>15, <1>16, ChoiceLinks

\* A step that marks blocks as failed and takes candidates away, with the tip
\* where it was.
LEMMA MarkLinks ==
    ASSUME LinkBase, commands' \in Seq(Commands),
           UNCHANGED <<index, data, undo, processed, linked, arrival, unlinked, tip, queue,
                       havePruned>>,
           candidates' \subseteq candidates, aborted' \in BOOLEAN,
           Marks', Turns', Switching'
    PROVE  LinkBase' /\ (WaitsAll /\ failedValid \subseteq failedValid' => WaitsAll')
  <1>1. Tips'
    <2>1. Reached' = Reached
      BY DEF Reached, Members
    <2> QED BY <2>1 DEF LinkBase, Tips, index
  <1>2. undo' \subseteq data'
    BY DEF LinkBase, Bits
  <1>3. ~havePruned => /\ candidates' \subseteq linked /\ tip' \in linked
                       /\ \A c \in candidates' : ~WorseIn(arrival, c, tip')
    BY DEF LinkBase, NeverAgain, Worse
  <1> QED BY <1>1, <1>2, <1>3, ChoiceLinks

\* LinkBase is kept when ConnectBlock finds a block invalid.
LEMMA LinkInvalidFound ==
    ASSUME LinkBase, commands' \in Seq(Commands), NEW t \in Thread, InvalidBlockFound(t)
    PROVE  LinkBase' /\ (WaitsAll => WaitsAll')
  <1>1. /\ UNCHANGED <<index, data, undo, processed, linked, failedChild, arrival, unlinked, tip,
                       flags, most, queue>>
        /\ pc[t] = "step" /\ tip \in Lineage(most[t])
        /\ failedValid' = failedValid \cup {NextBlock(t)}
        /\ candidates' = candidates \ {NextBlock(t)}
        /\ Goto(t, "loop") /\ oldTip' = None
    BY DEF InvalidBlockFound, Release
  <1>2. Holding(t)
    BY <1>1 DEF Holding
  <1>3. NextBlock(t) \in Block /\ Known(NextBlock(t))
    BY <1>1, NextOnWay
  <1>4. Marks'
    BY <1>1, <1>3 DEF LinkBase, Marks, Known, index
  <1>5. pc \in [Thread -> Label] /\ most' \in [Thread -> Block \cup {None}]
    BY <1>1 DEF LinkBase, Turns
  <1>6. Turns'
    BY <1>1, <1>2, <1>5, TurnsMove DEF LinkBase, Label
  <1>7. Switching'
    <2>1. \A u \in Thread : pc'[u] \notin {"step", "invalidate"}
      BY <1>1, <1>2, <1>5, Alone DEF LinkBase, Goto
    <2> QED BY <2>1 DEF Switching
  <1>8. aborted' \in BOOLEAN /\ UNCHANGED havePruned
    BY <1>1 DEF LinkBase, Bits, flags
  <1>9. candidates' \subseteq candidates /\ failedValid \subseteq failedValid'
    BY <1>1
  <1> QED BY <1>1, <1>4, <1>6, <1>7, <1>8, <1>9, MarkLinks

\* LinkBase is kept by invalidateblock, as the block is marked ...
LEMMA LinkInvalidate ==
    ASSUME LinkBase, commands' \in Seq(Commands), NEW t \in Thread, NEW b \in Block,
           InvalidateBlock(t, b)
    PROVE  LinkBase' /\ (WaitsAll => WaitsAll')
  <1>1. /\ UNCHANGED <<index, data, undo, processed, linked, failedChild, arrival, unlinked, tip,
                       flags, oldTip, queue>>
        /\ pc[t] = "idle" /\ Free /\ Known(b) /\ b # Genesis
        /\ failedValid' = failedValid \cup {b}
        /\ candidates' = candidates \ {b}
        /\ Goto(t, "invalidate") /\ most' = [most EXCEPT ![t] = b]
    BY DEF InvalidateBlock, Command
  <1>2. Marks'
    BY <1>1 DEF LinkBase, Marks, Known, index
  <1>3. pc \in [Thread -> Label] /\ most' \in [Thread -> Block \cup {None}] /\ most'[t] = b
        /\ oldTip' \in Block \cup {None}
    BY <1>1 DEF LinkBase, Turns
  <1>4. Turns'
    BY <1>1, <1>3, TurnsMove DEF LinkBase, Label
  <1>5. Switching'
    <2>1. pc'[t] = "invalidate" /\ \A u \in Thread \ {t} : pc'[u] \notin {"step", "invalidate"}
      BY <1>1, <1>3 DEF Free, Holding, Goto
    <2> QED BY <1>1, <1>3, <2>1 DEF Switching
  <1>6. aborted' \in BOOLEAN /\ UNCHANGED havePruned
    BY <1>1 DEF LinkBase, Bits, flags
  <1>7. candidates' \subseteq candidates /\ failedValid \subseteq failedValid'
    BY <1>1
  <1> QED BY <1>1, <1>2, <1>4, <1>5, <1>6, <1>7, MarkLinks

\* ... as the tip is disconnected ...
LEMMA LinkInvalidateTip ==
    ASSUME LinkBase, commands' \in Seq(Commands), NEW t \in Thread, InvalidateTip(t)
    PROVE  LinkBase' /\ (WaitsAll => WaitsAll')
  <1>1. /\ UNCHANGED <<index, data, undo, processed, linked, failedValid, arrival, unlinked,
                       havePruned, oldTip, queue>>
        /\ pc[t] = "invalidate" /\ most[t] \in Lineage(tip)
        /\ failedChild' = failedChild \cup {tip} /\ candidates' = candidates \ {tip}
        /\ \/ tip' = Prev(tip) /\ UNCHANGED <<pc, most, aborted>>
           \/ /\ Goto(t, "activate") \/ Goto(t, "idle")
              /\ most' = [most EXCEPT ![t] = None]
              /\ aborted' = TRUE /\ UNCHANGED tip
    BY DEF InvalidateTip, chainActive
  <1>2. Holding(t)
    BY <1>1 DEF Holding
  <1>3. Reached = linked
    BY <1>1, <1>2, NothingQueued DEF LinkBase
  <1>4. tip \in Block /\ Known(tip) /\ tip \in linked
    BY <1>3, ReachedKnown DEF LinkBase, Tips
  <1>5. Marks'
    BY <1>1, <1>4 DEF LinkBase, Marks, Known, index
  <1>6. pc \in [Thread -> Label] /\ oldTip \in Block \cup {None}
    BY DEF LinkBase, Turns
  <1>7. \A u \in Thread \ {t} : pc[u] \notin {"step", "invalidate"}
    BY <1>2, Alone DEF LinkBase
  <1>8. candidates' \subseteq candidates
    BY <1>1
  <1>9. CASE tip' = Prev(tip) /\ UNCHANGED <<pc, most, aborted>>
    <2>1. tip # Genesis
      BY <1>1, GenesisLineage DEF LinkBase, Switching
    <2>2. /\ Prev(tip) \in Block /\ Prev(tip) \in Lineage(tip)
          /\ nChainWork[Prev(tip)] < nChainWork[tip]
      BY <1>4, <2>1, LineagePrev DEF LinkBase
    <2>3. tip' \in linked
      BY <1>3, <1>4, <1>9, <2>2 DEF LinkBase, Closed
    <2>4. /\ nChainWork[tip'] \in Nat /\ nChainWork[tip] \in Nat
          /\ \A c \in candidates : nChainWork[c] \in Nat /\ nChainWork[c] >= nChainWork[tip]
      BY <1>4, <1>9, <2>2, ReachedKnown DEF LinkBase, Grounded, Heavier, Tips
    <2>5. \A c \in candidates : nChainWork[c] > nChainWork[tip']
      BY <1>9, <2>2, <2>4
    <2>6. Tips'
      <3>1. Reached' = Reached /\ nChainWork' = nChainWork
        BY <1>1 DEF Reached, Members, index
      <3> QED BY <1>3, <1>8, <2>3, <2>4, <2>5, <3>1 DEF LinkBase, Tips
    <2>7. \A c \in candidates' : ~WorseIn(arrival, c, tip')
      BY <1>8, <2>4, <2>5 DEF WorseIn
    <2>8. Switching'
      BY <1>1, <1>7, <1>9 DEF LinkBase, Switching
    <2>9. Turns'
      BY <1>1, <1>9, TurnsKept DEF LinkBase, threads
    <2>10. undo' \subseteq data' /\ aborted' \in BOOLEAN
      BY <1>1, <1>9 DEF LinkBase, Bits
    <2>11. ~havePruned => candidates' \subseteq linked
      BY <1>8 DEF LinkBase, NeverAgain
    <2> QED BY <1>1, <1>5, <2>3, <2>6, <2>7, <2>8, <2>9, <2>10, <2>11, ChoiceLinks
  <1>10. CASE /\ Goto(t, "activate") \/ Goto(t, "idle")
              /\ most' = [most EXCEPT ![t] = None]
              /\ aborted' = TRUE /\ UNCHANGED tip
    <2>1. most' \in [Thread -> Block \cup {None}]
      BY <1>10 DEF LinkBase, Turns
    <2>2. Turns'
      BY <1>1, <1>2, <1>6, <1>10, <2>1, TurnsMove DEF LinkBase, Label
    <2>3. Switching'
      <3>1. \A u \in Thread : pc'[u] \notin {"step", "invalidate"}
        BY <1>6, <1>7, <1>10 DEF Goto
      <3> QED BY <3>1 DEF Switching
    <2> QED BY <1>1, <1>5, <1>8, <1>10, <2>2, <2>3, MarkLinks
  <1> QED BY <1>1, <1>9, <1>10

\* ... and as the candidates are completed.
LEMMA LinkInvalidateEnd ==
    ASSUME LinkBase, commands' \in Seq(Commands), NEW t \in Thread, InvalidateEnd(t)
    PROVE  LinkBase' /\ (WaitsAll => WaitsAll')
  <1>1. /\ UNCHANGED <<index, status, arrival, unlinked, tip, flags, oldTip, queue>>
        /\ pc[t] = "invalidate" /\ Goto(t, "activate")
        /\ most' = [most EXCEPT ![t] = None]
        /\ candidates' = candidates \cup Reinstated
    BY DEF InvalidateEnd
  <1>2. Holding(t)
    BY <1>1 DEF Holding
  <1>3. Reached = linked
    BY <1>1, <1>2, NothingQueued DEF LinkBase
  <1>4. UNCHANGED <<data, undo, processed, linked, failedValid, failedChild, havePruned, aborted,
                    nChainWork>>
    BY <1>1 DEF status, flags, index
  <1>5. Reinstated \subseteq linked /\ \A c \in Reinstated : ~WorseIn(arrival, c, tip)
    BY DEF Reinstated, Worse
  <1>6. \A c \in linked \cup {tip} : c \in Block /\ nChainWork[c] \in Nat
    BY <1>3, ReachedKnown DEF LinkBase, Grounded, Heavier
  <1>7. Tips'
    <2>1. \A c \in Reinstated : nChainWork[c] >= nChainWork[tip]
      BY <1>5, <1>6 DEF WorseIn
    <2>2. Reached' = Reached
      BY <1>1, <1>4 DEF Reached, Members
    <2> QED BY <1>1, <1>3, <1>4, <1>5, <2>1, <2>2 DEF LinkBase, Tips
  <1>8. pc \in [Thread -> Label] /\ most' \in [Thread -> Block \cup {None}]
        /\ oldTip' \in Block \cup {None}
    BY <1>1 DEF LinkBase, Turns
  <1>9. Turns'
    BY <1>1, <1>2, <1>4, <1>8, TurnsMove DEF LinkBase, Label
  <1>10. Switching'
    <2>1. \A u \in Thread : pc'[u] \notin {"step", "invalidate"}
      BY <1>1, <1>2, <1>8, Alone DEF LinkBase, Goto
    <2> QED BY <2>1 DEF Switching
  <1>11. Marks'
    BY <1>1, <1>4, FlagsKept, IndexKept DEF LinkBase
  <1>12. undo' \subseteq data' /\ aborted' \in BOOLEAN
    BY <1>4 DEF LinkBase, Bits
  <1>13. ~havePruned => /\ candidates' \subseteq linked /\ tip' \in linked
                        /\ \A c \in candidates' : ~WorseIn(arrival, c, tip')
    BY <1>1, <1>5 DEF LinkBase, NeverAgain, Worse
  <1>14. UNCHANGED <<index, data, processed, linked, arrival, unlinked, queue, havePruned>>
    BY <1>1, <1>4
  <1> QED BY <1>4, <1>7, <1>9, <1>10, <1>11, <1>12, <1>13, <1>14, ChoiceLinks

\* LinkBase is kept by reconsiderblock; WaitsAll need not be.
LEMMA LinkReconsider ==
    ASSUME LinkBase, commands' \in Seq(Commands), NEW t \in Thread, NEW b \in Block,
           ReconsiderBlock(t, b)
    PROVE  LinkBase'
  <1> DEFINE back == {d \in Descendants(b) : Failed(d) /\ d \in linked /\ Worse(tip, d)}
  <1>1. /\ UNCHANGED <<index, data, undo, processed, linked, arrival, unlinked, tip, flags, most,
                       oldTip, queue>>
        /\ pc[t] = "idle" /\ Free /\ Goto(t, "activate")
        /\ failedValid' \subseteq failedValid /\ failedChild' \subseteq failedChild
        /\ candidates' = candidates \cup back
    BY DEF ReconsiderBlock, Command
  <1>2. Reached = linked
    BY <1>1, NothingQueued DEF LinkBase
  <1>3. UNCHANGED <<havePruned, aborted, nChainWork>>
    BY <1>1 DEF flags, index
  <1>4. \A c \in linked \cup {tip} : c \in Block /\ nChainWork[c] \in Nat
    BY <1>2, ReachedKnown DEF LinkBase, Grounded, Heavier
  <1>5. back \subseteq linked /\ \A c \in back : WorseIn(arrival, tip, c)
    BY DEF Worse
  <1> HIDE DEF back
  <1>6. Tips'
    <2>1. \A c \in back : nChainWork[c] >= nChainWork[tip]
      BY <1>4, <1>5 DEF WorseIn
    <2>2. Reached' = Reached
      BY <1>1 DEF Reached, Members
    <2> QED BY <1>1, <1>2, <1>3, <1>5, <2>1, <2>2 DEF LinkBase, Tips
  <1>7. pc \in [Thread -> Label] /\ most' \in [Thread -> Block \cup {None}]
        /\ oldTip' \in Block \cup {None}
    BY <1>1 DEF LinkBase, Turns
  <1>8. Turns'
    BY <1>1, <1>7, TurnsMove DEF LinkBase, Label
  <1>9. Switching'
    <2>1. \A u \in Thread : pc'[u] \notin {"step", "invalidate"}
      BY <1>1, <1>7 DEF Free, Holding, Goto
    <2> QED BY <2>1 DEF Switching
  <1>10. Marks'
    BY <1>1 DEF LinkBase, Marks, Known, index
  <1>11. undo' \subseteq data' /\ aborted' \in BOOLEAN
    BY <1>1, <1>3 DEF LinkBase, Bits
  <1>12. ASSUME ~havePruned
         PROVE  /\ candidates' \subseteq linked /\ tip' \in linked
                /\ \A c \in candidates' : ~WorseIn(arrival, c, tip')
    <2>1. candidates \subseteq linked /\ tip \in linked /\ \A c \in candidates : ~WorseIn(arrival, c, tip)
      BY <1>12 DEF LinkBase, NeverAgain, Worse
    <2>2. \A c \in linked : Position(arrival, c) \in Nat
      <3> SUFFICES ASSUME NEW c \in linked
                   PROVE  Position(arrival, c) \in Nat
        OBVIOUS
      <3>1. c \in Members(arrival)
        BY DEF LinkBase, Sequenced
      <3>2. Position(arrival, c) \in 1..Len(arrival)
        BY <3>1, PositionIs
      <3> QED BY <3>2
    <2>3. \A c \in back : ~WorseIn(arrival, c, tip)
      BY <1>4, <1>5, <2>1, <2>2 DEF WorseIn
    <2> QED BY <1>1, <1>5, <2>1, <2>3
  <1>13. UNCHANGED <<index, data, processed, linked, arrival, unlinked, queue, havePruned>>
    BY <1>1, <1>3
  <1> QED BY <1>6, <1>8, <1>9, <1>10, <1>11, <1>12, <1>13, ChoiceLinks

\* The blocks FindMostWorkChain walks over.
LEMMA AboveIs ==
    ASSUME Tree, NEW c \in Block, NEW x \in Lineage(c)
    PROVE  /\ Above(c, x) \in Seq(Block)
           /\ \A a \in Members(Above(c, x)) : /\ a \in Lineage(c) /\ x \in Lineage(a)
                                              /\ nHeight(a) > nHeight(x)
                                              /\ Len(branch[a]) > 1
  <1> DEFINE n == nHeight(c) - nHeight(x)
  <1>1. PICK i \in 1..Len(branch[c]) : branch[c][i] = x
    BY DEF Lineage, Members
  <1>2. Len(branch[x]) = i /\ Len(branch[c]) \in Nat /\ i \in Nat
    BY <1>1 DEF Tree, Nested
  <1>3. n \in Nat /\ n = Len(branch[c]) - i
    BY <1>1, <1>2 DEF nHeight
  <1>4. ASSUME NEW k \in 1..n
        PROVE  Len(branch[c]) + 1 - k \in 1..Len(branch[c]) /\ Len(branch[c]) + 1 - k > i
    BY <1>1, <1>2, <1>3
  <1>5. Above(c, x) \in [1..n -> Block]
    <2>1. \A k \in 1..n : branch[c][Len(branch[c]) + 1 - k] \in Block
      BY <1>4 DEF Tree
    <2> QED BY <2>1 DEF Above
  <1>6. Above(c, x) \in Seq(Block) /\ Len(Above(c, x)) = n
    BY <1>3, <1>5
  <1>7. ASSUME NEW a \in Members(Above(c, x))
        PROVE  /\ a \in Lineage(c) /\ x \in Lineage(a)
               /\ nHeight(a) > nHeight(x) /\ Len(branch[a]) > 1
    <2>1. PICK k \in 1..n : a = branch[c][Len(branch[c]) + 1 - k]
      BY <1>6 DEF Members, Above
    <2> DEFINE m == Len(branch[c]) + 1 - k
    <2>2. m \in 1..Len(branch[c]) /\ m > i /\ a = branch[c][m]
      BY <1>4, <2>1
    <2> HIDE DEF m
    <2>3. Len(branch[a]) = m
      BY <2>2 DEF Tree, Nested
    <2>4. a \in Lineage(c)
      BY <2>2 DEF Lineage, Members
    <2>5. nHeight(a) > nHeight(x) /\ Len(branch[a]) > 1
      BY <1>1, <1>2, <2>2, <2>3 DEF nHeight
    <2> QED BY <1>7, <2>4, <2>5, AboveDescends
  <1> QED BY <1>6, <1>7

\* What a discarded candidate's branch looks like: x is off the active chain, and
\* everything above it has its data and is not marked.
LEMMA AboveSound ==
    ASSUME LinkBase, NEW c \in candidates, c \in linked, NEW x, IsLastObstacle(c, x),
           Reached = linked
    PROVE  /\ c \in Block /\ x \in Lineage(c) /\ x \in linked /\ x \notin Lineage(tip)
           /\ Above(c, x) \in Seq(Block)
           /\ \A a \in Members(Above(c, x)) :
                 /\ a \in Lineage(c) /\ x \in Lineage(a) /\ a \in linked /\ a \in data
                 /\ ~Failed(a) /\ a # Genesis /\ a \notin Lineage(tip)
  <1>1. c \in Block /\ x \in Lineage(c) /\ x \notin Lineage(tip)
    BY ReachedKnown DEF IsLastObstacle, Obstacles, OffChain, chainActive
  <1>2. Lineage(c) \subseteq linked
    BY DEF LinkBase, Closed
  <1>3. Tree /\ tip \in Block
    BY ReachedKnown DEF LinkBase, Grounded
  <1>4. Above(c, x) \in Seq(Block)
    BY <1>1, <1>3, AboveIs
  <1>5. ASSUME NEW a \in Members(Above(c, x))
        PROVE  /\ a \in Lineage(c) /\ x \in Lineage(a) /\ a \in linked /\ a \in data
               /\ ~Failed(a) /\ a # Genesis /\ a \notin Lineage(tip)
    <2>1. a \in Lineage(c) /\ x \in Lineage(a) /\ nHeight(a) > nHeight(x) /\ Len(branch[a]) > 1
      BY <1>1, <1>3, AboveIs
    <2>2. a \notin Lineage(tip)
      BY <1>1, <1>3, <2>1, LineageNested
    <2>3. a # Genesis
      <3>1. Len(branch[Genesis]) = 1
        BY DEF LinkBase, Grounded, Rooted
      <3> DEFINE n == Len(branch[a])
      <3>2. n > 1
        BY <2>1
      <3>3. a \in Block
        BY <1>1, <1>3, <2>1, LineageKnown
      <3>4. n \in Nat
        BY <1>3, <3>3 DEF Tree
      <3> HIDE DEF n
      <3>5. n # 1
        BY <3>2, <3>4
      <3> QED BY <3>1, <3>5 DEF n
    <2>4. a \in Block /\ x \in Block
      BY <1>1, <1>3, <2>1, LineageKnown
    <2>5. nHeight(a) \in Int /\ nHeight(x) \in Int
      BY <1>3, <2>4 DEF Tree, nHeight
    <2>6. a \notin Obstacles(c)
      BY <2>1, <2>5 DEF IsLastObstacle
    <2>7. a \in data /\ ~Failed(a)
      BY <2>1, <2>2, <2>6 DEF Obstacles, OffChain, chainActive
    <2> QED BY <1>2, <2>1, <2>2, <2>3, <2>7
  <1> QED BY <1>1, <1>2, <1>4, <1>5

\* LinkBase is kept when FindMostWorkChain discards a candidate.
LEMMA LinkDiscard ==
    ASSUME LinkBase, commands' \in Seq(Commands), NEW t \in Thread, NEW c \in Block,
           NEW x \in Block, DiscardCandidate(t, c, x)
    PROVE  LinkBase' /\ (WaitsAll => WaitsAll')
  <1>1. /\ UNCHANGED <<index, data, undo, processed, linked, failedValid, arrival, tip, flags,
                       threads>>
        /\ pc[t] = "find" /\ c \in candidates /\ IsLastObstacle(c, x)
        /\ candidates' \subseteq candidates
        /\ failedChild' \subseteq failedChild \cup Members(Above(c, x))
        /\ unlinked' = IF Failed(x) THEN unlinked ELSE unlinked \o Above(c, x)
    BY DEF DiscardCandidate, IsBestCandidate
  <1>2. Holding(t)
    BY <1>1 DEF Holding
  <1>3. Reached = linked
    BY <1>1, <1>2, NothingQueued DEF LinkBase
  <1>4. c \in linked
    BY <1>1, <1>3 DEF LinkBase, Tips
  <1>5. /\ x \in Lineage(c) /\ x \in linked /\ x \notin Lineage(tip)
        /\ Above(c, x) \in Seq(Block)
        /\ \A a \in Members(Above(c, x)) : a \in linked /\ a \in data /\ a # Genesis
    BY <1>1, <1>3, <1>4, AboveSound
  <1>6. Grounded' /\ Grown
    BY <1>1, IndexKept DEF LinkBase
  <1>7. UNCHANGED <<havePruned, aborted, queue, pc, most, oldTip>>
    BY <1>1 DEF flags, threads
  <1>8. Bits' /\ Closed' /\ Reached' = Reached
    BY <1>1, <1>6, <1>7, BitsKept, ClosedKept
  <1>9. Marks'
    <2>1. \A a \in Members(Above(c, x)) : a \in Block /\ Known(a)
      BY <1>3, <1>5, ReachedKnown
    <2> QED BY <1>1, <2>1 DEF LinkBase, Marks, Known, index
  <1>10. Sequenced'
    BY <1>1 DEF LinkBase, Sequenced, Members, Once
  <1>11. Turns'
    BY <1>1, TurnsKept DEF LinkBase
  <1>12. Tips'
    BY <1>1, <1>8 DEF LinkBase, Tips, index
  <1>13. Switching'
    BY <1>1, <1>6, <1>7, SwitchingKept
  <1>14. unlinked \in Seq(Block)
    BY DEF LinkBase, Waits
  <1>15. /\ unlinked' \in Seq(Block)
         /\ \/ Members(unlinked)' = Members(unlinked)
            \/ Members(unlinked)' = Members(unlinked) \cup Members(Above(c, x))
    <2>1. CASE Failed(x)
      <3>1. unlinked' = unlinked
        BY <1>1, <2>1
      <3>2. Members(unlinked)' = Members(unlinked)
        BY <3>1 DEF Members
      <3> QED BY <1>14, <3>1, <3>2
    <2>2. CASE ~Failed(x)
      <3>1. unlinked' = unlinked \o Above(c, x)
        BY <1>1, <2>2
      <3>2. /\ unlinked \o Above(c, x) \in Seq(Block)
            /\ Members(unlinked \o Above(c, x)) = Members(unlinked) \cup Members(Above(c, x))
        BY <1>5, <1>14, ConcatMembers
      <3>3. Members(unlinked)' = Members(unlinked \o Above(c, x))
        BY <3>1 DEF Members
      <3> QED BY <2>2, <3>1, <3>2, <3>3
    <2> QED BY <2>1, <2>2
  <1>16. Waits'
    <2>1. Members(queue) = {} /\ Members(queue)' = {}
      BY <1>1, <1>2, <1>7, NothingQueued DEF LinkBase, Members
    <2>2. Members(unlinked)' \subseteq processed'
      BY <1>1, <1>5, <1>15 DEF LinkBase, Waits, Bits
    <2>3. \A a \in Members(unlinked) \cup Members(Above(c, x)) :
             /\ a # Genesis
             /\ a \in linked => a \in data
             /\ a \notin Reached => Prev(a) \notin linked
      BY <1>3, <1>5 DEF LinkBase, Waits
    <2>4. \A a : Prev(a)' = Prev(a)
      BY <1>1 DEF Prev, index
    <2> QED BY <1>1, <1>8, <1>15, <2>1, <2>2, <2>3, <2>4 DEF Waits
  <1>17. NeverAgain'
    <2> SUFFICES ASSUME ~havePruned
                 PROVE  NeverAgain'
      BY <1>7 DEF NeverAgain
    <2>1. x \in data
      BY <1>5 DEF LinkBase, Bits
    <2>2. Failed(x)
      BY <1>1, <2>1 DEF IsLastObstacle, Obstacles
    <2>3. unlinked' = unlinked
      BY <1>1, <2>2
    <2>4. /\ Members(queue)' = Members(queue) /\ Members(unlinked)' = Members(unlinked)
          /\ Members(arrival)' = Members(arrival)
      BY <1>1, <1>7, <2>3 DEF Members
    <2>5. Once(queue)' /\ Once(unlinked)'
      BY <1>7, <2>3 DEF LinkBase, NeverAgain, Once
    <2>6. \A d \in candidates' : ~Worse(d, tip)'
      BY <1>1 DEF LinkBase, NeverAgain, Worse, WorseIn, Position, index
    <2> QED BY <1>1, <2>4, <2>5, <2>6 DEF LinkBase, NeverAgain
  <1>18. LinkBase'
    BY <1>6, <1>8, <1>9, <1>10, <1>11, <1>12, <1>13, <1>16, <1>17 DEF LinkBase
  <1>19. ASSUME WaitsAll
         PROVE  WaitsAll'
    BY <1>1, <1>6, <1>8, <1>15, <1>19, WaitsAllKept
  <1> QED BY <1>18, <1>19

\* LinkBase is kept when a block file is pruned.
LEMMA LinkPrune ==
    ASSUME LinkBase, commands' \in Seq(Commands), NEW b \in Block, PruneOneBlockFile(b)
    PROVE  LinkBase' /\ (WaitsAll => WaitsAll')
  <1>1. /\ UNCHANGED <<index, processed, linked, failedValid, failedChild, arrival, candidates, tip,
                       aborted, threads>>
        /\ data' = data \ {b} /\ undo' = undo \ {b} /\ havePruned' = TRUE
        /\ unlinked' = Filter(unlinked, Block \ {b})
    BY DEF PruneOneBlockFile
  <1>2. UNCHANGED <<queue, pc, most, oldTip>>
    BY <1>1 DEF threads
  <1>3. Grounded' /\ Grown
    BY <1>1, IndexKept DEF LinkBase
  <1>4. Marks' /\ Closed' /\ Reached' = Reached /\ Tips' /\ Switching'
    BY <1>1, <1>2, <1>3, FlagsKept, ClosedKept, TipsKept, SwitchingKept
  <1>5. Bits'
    BY <1>1, <1>3 DEF LinkBase, Bits, Grown
  <1>6. Sequenced'
    BY <1>1 DEF LinkBase, Sequenced, Members, Once
  <1>7. Turns'
    BY <1>1, TurnsKept DEF LinkBase
  <1>8. unlinked \in Seq(Block)
    BY DEF LinkBase, Waits
  <1>9. unlinked' \in Seq(Block) /\ Members(unlinked)' = Members(unlinked) \cap (Block \ {b})
    <2>1. /\ Filter(unlinked, Block \ {b}) \in Seq(Block)
          /\ Members(Filter(unlinked, Block \ {b})) = Members(unlinked) \cap (Block \ {b})
      BY <1>8, FilterMembers
    <2>2. Members(unlinked)' = Members(Filter(unlinked, Block \ {b}))
      BY <1>1 DEF Members
    <2> QED BY <1>1, <2>1, <2>2
  <1>10. Waits'
    <2>1. Members(queue)' = Members(queue)
      BY <1>2 DEF Members
    <2>2. \A a : Prev(a)' = Prev(a)
      BY <1>1 DEF Prev, index
    <2>3. \A x \in Members(unlinked)' : /\ x # Genesis
                                        /\ x \in linked' => x \in data'
                                        /\ x \notin Reached' => Prev(x)' \notin linked'
      BY <1>1, <1>4, <1>9, <2>2 DEF LinkBase, Waits
    <2> QED BY <1>1, <1>9, <2>1, <2>3 DEF LinkBase, Waits
  <1>11. NeverAgain'
    BY <1>1 DEF NeverAgain
  <1>12. LinkBase'
    BY <1>3, <1>4, <1>5, <1>6, <1>7, <1>10, <1>11 DEF LinkBase
  <1>13. ASSUME WaitsAll
         PROVE  WaitsAll'
    <2>1. \A x \in Members(unlinked) : x \in Members(unlinked)' \/ x \notin data'
      BY <1>1, <1>9, ReachedKnown
    <2> QED BY <1>1, <1>3, <1>4, <1>13, <2>1, WaitsAllKept
  <1> QED BY <1>12, <1>13

\* After a restart LinkBase holds, and every block received is linked or waits.
LEMMA LinkRestart ==
    ASSUME LinkBase, commands' \in Seq(Commands), NEW t \in Thread, Restart(t)
    PROVE  /\ LinkBase' /\ WaitsAll'
           /\ \A b \in processed : b \in linked' \/ b \in Members(unlinked)'
           /\ \A b \in Members(unlinked)' : Prev(b) \in processed => Prev(b) \in Members(unlinked)'
           /\ linked \subseteq linked'
  <1>1. /\ UNCHANGED <<index, data, undo, processed, failedValid, tip, flags, most, oldTip, queue>>
        /\ Quiet /\ pc[t] = "idle" /\ Goto(t, "activate") /\ linked' = Linkable
    BY DEF Restart, Command
  <1>2. PICK order \in addresses(processed), child \in SUBSET failedChild :
           /\ failedChild' = child
           /\ arrival' = Filter(order, Linkable)
           /\ unlinked' = Filter(order, Block \ Linkable)
           /\ candidates' = LoadedCandidates(order, child)
    BY DEF Restart
  <1>3. Free
    BY <1>1 DEF Quiet, Free, Holding
  <1>4. queue = <<>> /\ Members(queue) = {} /\ Reached = linked
    BY <1>3, NothingQueued DEF LinkBase
  <1>5. UNCHANGED <<havePruned, aborted, branch, nChainWork>>
    BY <1>1 DEF flags, index
  <1>6. order \in Seq(Block) /\ Members(order) = processed /\ Once(order)
    <2>1. order \in Seq(processed) /\ Members(order) = processed /\ Once(order)
      BY AddressesOnce DEF LinkBase, Bits
    <2>2. processed \subseteq Block
      BY DEF LinkBase, Bits
    <2> QED BY <2>1, <2>2
  <1>7. Linkable \subseteq processed /\ linked \subseteq Linkable
    BY <1>4 DEF LinkBase, Closed, Bits, Linkable
  <1>8. Members(queue)' = {} /\ Reached' = Linkable
    BY <1>1, <1>4 DEF Reached, Members
  <1>9. /\ arrival' \in Seq(Block) /\ Members(arrival)' = Linkable /\ Once(arrival)'
    <2>1. /\ Filter(order, Linkable) \in Seq(Block) /\ Once(Filter(order, Linkable))
          /\ Members(Filter(order, Linkable)) = processed \cap Linkable
      BY <1>6, FilterMembers
    <2>2. Members(arrival)' = Members(Filter(order, Linkable))
      BY <1>2 DEF Members
    <2>3. Once(arrival)'
      BY <1>2, <2>1 DEF Once
    <2> QED BY <1>2, <1>7, <2>1, <2>2, <2>3
  <1>10. /\ unlinked' \in Seq(Block) /\ Members(unlinked)' = processed \ Linkable
         /\ Once(unlinked)'
    <2>1. /\ Filter(order, Block \ Linkable) \in Seq(Block)
          /\ Once(Filter(order, Block \ Linkable))
          /\ Members(Filter(order, Block \ Linkable)) = processed \cap (Block \ Linkable)
      BY <1>6, FilterMembers
    <2>2. Members(unlinked)' = Members(Filter(order, Block \ Linkable))
      BY <1>2 DEF Members
    <2>3. Once(unlinked)'
      BY <1>2, <2>1 DEF Once
    <2>4. processed \subseteq Block
      BY DEF LinkBase, Bits
    <2> QED BY <1>2, <2>1, <2>2, <2>3, <2>4
  <1>11. Grounded' /\ Grown
    BY <1>1, IndexKept DEF LinkBase
  <1>12. Bits'
    BY <1>1, <1>5, <1>7, <1>11 DEF LinkBase, Bits, Grown
  <1>13. Marks'
    BY <1>1, <1>2, <1>5 DEF LinkBase, Marks, Known
  <1>14. Sequenced'
    BY <1>1, <1>9 DEF Sequenced
  <1>15. pc \in [Thread -> Label] /\ most' \in [Thread -> Block \cup {None}]
         /\ oldTip' \in Block \cup {None}
    BY <1>1 DEF LinkBase, Turns
  <1>16. Turns'
    BY <1>1, <1>15, TurnsMove DEF LinkBase, Label
  <1>17. Switching'
    <2>1. \A u \in Thread : pc'[u] \notin {"step", "invalidate"}
      BY <1>1, <1>15 DEF Quiet, Goto
    <2> QED BY <2>1 DEF Switching
  <1>18. \A b \in processed : b \in Block /\ Known(b) /\ b \in Lineage(b)
    BY InLineage DEF LinkBase, Bits, Grounded
  <1>19. \A b \in Linkable : Lineage(b) \subseteq Linkable
    <2> SUFFICES ASSUME NEW b \in Linkable, NEW y \in Lineage(b)
                 PROVE  y \in Linkable
      OBVIOUS
    <2>1. b \in Block /\ Lineage(b) \subseteq processed
      BY <1>18 DEF Linkable
    <2>2. Lineage(y) \subseteq Lineage(b)
      BY <2>1, LineageNested DEF LinkBase, Grounded
    <2> QED BY <2>1, <2>2 DEF Linkable
  <1>20. Closed'
    BY <1>5, <1>8, <1>19 DEF Closed, Lineage, Members
  <1>21. /\ candidates' \subseteq Linkable
         /\ \A c \in candidates' : ~WorseIn(order, c, tip)
    BY <1>2 DEF LoadedCandidates
  <1>22. tip \in Linkable
    BY <1>4, <1>7 DEF LinkBase, Tips
  <1>23. \A c \in Linkable : c \in Block /\ nChainWork[c] \in Nat
    BY <1>7, <1>18 DEF LinkBase, Grounded, Heavier
  <1>24. Tips'
    <2>1. \A c \in candidates' : nChainWork[c] >= nChainWork[tip]
      BY <1>21, <1>22, <1>23 DEF WorseIn
    <2> QED BY <1>1, <1>5, <1>8, <1>21, <1>22, <2>1 DEF Tips
  <1>25. Genesis \in Linkable
    BY <1>7 DEF LinkBase, Bits
  <1>26. ASSUME NEW b \in processed \ Linkable
         PROVE  b # Genesis /\ Prev(b) \notin Linkable
    <2>1. b # Genesis /\ b \in Block /\ Known(b)
      BY <1>18, <1>25
    <2>2. Lineage(b) = Lineage(Prev(b)) \cup {b}
      BY <2>1, LineagePrev DEF LinkBase
    <2> QED BY <2>1, <2>2 DEF Linkable
  <1>27. Waits'
    <2>1. \A b : Prev(b)' = Prev(b)
      BY <1>5 DEF Prev
    <2> QED BY <1>1, <1>8, <1>10, <1>26, <2>1 DEF Waits
  <1>28. NeverAgain'
    <2>1. \A c \in candidates' : ~Worse(c, tip)'
      <3> SUFFICES ASSUME NEW c \in candidates'
                   PROVE  ~Worse(c, tip)'
        OBVIOUS
      <3>1. c \in Members(order) \cap Linkable /\ tip \in Members(order) \cap Linkable
        BY <1>6, <1>7, <1>21, <1>22
      <3>2. Position(Filter(order, Linkable), c) > Position(Filter(order, Linkable), tip)
              <=> Position(order, c) > Position(order, tip)
        BY <1>6, <3>1, FilterOrder
      <3>3. Worse(c, tip)' <=> WorseIn(Filter(order, Linkable), c, tip)
        BY <1>1, <1>2, <1>5 DEF Worse, WorseIn, Position
      <3> QED BY <1>21, <3>2, <3>3 DEF WorseIn
    <2>2. Once(queue)'
      BY <1>1, <1>4 DEF Once
    <2> QED BY <1>1, <1>8, <1>9, <1>10, <1>21, <1>22, <2>1, <2>2 DEF NeverAgain
  <1>29. LinkBase'
    BY <1>11, <1>12, <1>13, <1>14, <1>16, <1>17, <1>20, <1>24, <1>27, <1>28 DEF LinkBase
  <1>30. WaitsAll'
    BY <1>1, <1>8, <1>10 DEF WaitsAll, LinkBase, Bits
  <1>31. ASSUME NEW b \in Members(unlinked)', Prev(b) \in processed
         PROVE  Prev(b) \in Members(unlinked)'
    BY <1>10, <1>26, <1>31
  <1> QED BY <1>1, <1>7, <1>10, <1>29, <1>30, <1>31

\* A step that changes nothing.
LEMMA LinkStutter ==
    ASSUME LinkBase, UNCHANGED vars
    PROVE  LinkBase' /\ (WaitsAll => WaitsAll')
  <1>1. UNCHANGED <<index, status, choice, flags, threads, commands>>
    BY DEF vars
  <1>2. Grown
    BY <1>1, IndexKept DEF LinkBase
  <1>3. Turns'
    BY <1>1, TurnsKept DEF LinkBase, status
  <1>4. Switching'
    BY <1>1, <1>2, SwitchingKept DEF status, threads, choice
  <1>5. commands' \in Seq(Commands) /\ UNCHANGED queue
    BY <1>1 DEF LinkBase, threads
  <1> QED BY <1>1, <1>3, <1>4, <1>5, ThreadLinks

\* The invariant holds at the start (InitBlockIndex).
LEMMA LinkInit == Init => LinkInv
  <1> SUFFICES ASSUME Init
               PROVE  LinkInv
    OBVIOUS
  <1> USE DEF Init
  <1>1. Genesis \in Block
    BY DEF Block
  <1>2. FailedInv /\ Tree
    BY FailedInit DEF FailedInv
  <1>3. Rooted
    BY <1>1 DEF Rooted, Known
  <1>4. Heavier
    <2>1. nChainWork \in [Block -> Nat]
      BY <1>1, WorkAssumption
    <2>2. \A b \in Block : \A j \in 1..Len(branch[b]) : j = 1
      BY <1>1
    <2>3. ASSUME NEW b \in Block, NEW j \in 1..Len(branch[b]), NEW i \in 1..(j - 1)
          PROVE  FALSE
      <3>1. j = 1
        BY <2>2
      <3> QED BY <3>1
    <2> QED BY <2>1, <2>3 DEF Heavier
  <1>5. Bits
    <2>1. IsFiniteSet(processed)
      BY FS_Singleton
    <2>2. BadContext \cap processed = {}
      BY BlockAssumption, BadAssumption
    <2> QED BY <1>1, <2>1, <2>2 DEF Bits, Known
  <1>6. Members(queue) = {} /\ Members(unlinked) = {} /\ Members(arrival) = {Genesis}
    BY DEF Members
  <1>7. Reached = {Genesis}
    BY <1>6 DEF Reached
  <1>8. Lineage(Genesis) = {Genesis}
    BY <1>1 DEF Lineage, Members
  <1>9. Once(arrival) /\ Once(queue) /\ Once(unlinked)
    BY DEF Once
  <1>10. Marks /\ Sequenced
    BY <1>1, <1>6, <1>9 DEF Marks, Sequenced
  <1>11. Turns
    BY <1>6 DEF Turns, Holding, Label
  <1>12. Closed /\ Switching
    BY <1>7, <1>8 DEF Closed, Switching
  <1>13. nChainWork[Genesis] \in Nat
    BY <1>1, <1>4 DEF Heavier
  <1>14. Tips
    BY <1>7, <1>13 DEF Tips
  <1>15. Waits
    BY <1>6 DEF Waits
  <1>16. NeverAgain
    <2>1. Position(arrival, Genesis) \in 1..Len(arrival)
      BY <1>6, PositionIs
    <2>2. ~Worse(Genesis, Genesis)
      BY <1>13, <2>1 DEF Worse, WorseIn
    <2> QED BY <1>6, <1>9, <2>2 DEF NeverAgain
  <1>17. WaitsAll
    BY <1>7 DEF WaitsAll
  <1>18. commands \in Seq(Commands)
    OBVIOUS
  <1> QED BY <1>2, <1>3, <1>4, <1>5, <1>10, <1>11, <1>12, <1>14, <1>15, <1>16, <1>17, <1>18
          DEF LinkInv, LinkBase, Grounded

\* Every step keeps it.
LEMMA LinkStep ==
    ASSUME LinkInv, [Next]_vars
    PROVE  LinkInv'
  <1>1. LinkBase /\ commands' \in Seq(Commands) /\ (Reconsidered => Reconsidered')
    BY Remembered DEF LinkInv, LinkBase
  <1>2. ASSUME ~Reconsidered'
        PROVE  FailedInv' /\ WaitsAll /\ Caused
    BY <1>1, <1>2, FailedStep DEF LinkInv, LinkBase, FailedInv
  <1>3. LinkBase' /\ (WaitsAll /\ Caused /\ ~Reconsidered' => WaitsAll')
    <2>1. ASSUME NEW b \in Hash, NEW p \in Block, AcceptBlockHeader(b, p)
          PROVE  LinkBase' /\ (WaitsAll => WaitsAll')
      BY <1>1, <2>1, LinkHeader
    <2>2. ASSUME NEW t \in Thread, NEW b \in Hash, NEW p \in Block, NEW r \in BOOLEAN,
                 IgnoreBlock(t, b, p, r)
          PROVE  LinkBase' /\ (WaitsAll => WaitsAll')
      BY <1>1, <2>2, LinkIgnore
    <2>3. ASSUME NEW t \in Thread, NEW b \in Hash, NEW p \in Block, NEW r \in BOOLEAN,
                 RejectBlock(t, b, p, r)
          PROVE  LinkBase' /\ (WaitsAll => WaitsAll')
      BY <1>1, <2>3, LinkReject
    <2>4. ASSUME NEW t \in Thread, NEW b \in Hash, NEW p \in Block, NEW r \in BOOLEAN,
                 StoreBlock(t, b, p, r)
          PROVE  LinkBase' /\ (WaitsAll /\ Caused => WaitsAll')
      BY <1>1, <2>4, LinkStore
    <2>5. ASSUME NEW t \in Thread, LinkBlock(t)
          PROVE  LinkBase' /\ (WaitsAll => WaitsAll')
      BY <1>1, <2>5, LinkLinks
    <2>6. ASSUME NEW t \in Thread, Activate(t) \/ NothingToDo(t) \/ Loop(t)
          PROVE  LinkBase' /\ (WaitsAll => WaitsAll')
      BY <1>1, <2>6, LinkTurn
    <2>7. ASSUME NEW t \in Thread, NEW c \in Block, ChooseCandidate(t, c)
          PROVE  LinkBase' /\ (WaitsAll => WaitsAll')
      BY <1>1, <2>7, LinkChoose
    <2>8. ASSUME NEW t \in Thread, NEW c \in Block, NEW x \in Block, DiscardCandidate(t, c, x)
          PROVE  LinkBase' /\ (WaitsAll => WaitsAll')
      BY <1>1, <2>8, LinkDiscard
    <2>9. ASSUME NEW t \in Thread, ActivateBestChainStep(t)
          PROVE  LinkBase' /\ (WaitsAll => WaitsAll')
      BY <1>1, <2>9, LinkDisconnect, LinkStepFails, LinkConnect, LinkInvalidFound
         DEF ActivateBestChainStep
    <2>10. ASSUME NEW t \in Thread, InvalidateTip(t) \/ InvalidateEnd(t)
           PROVE  LinkBase' /\ (WaitsAll => WaitsAll')
      BY <1>1, <2>10, LinkInvalidateTip, LinkInvalidateEnd
    <2>11. ASSUME NEW t \in Thread, NEW b \in Block, InvalidateBlock(t, b)
           PROVE  LinkBase' /\ (WaitsAll => WaitsAll')
      BY <1>1, <2>11, LinkInvalidate
    <2>12. ASSUME NEW t \in Thread, NEW b \in Block, ReconsiderBlock(t, b)
           PROVE  LinkBase' /\ Reconsidered'
      BY <1>1, <2>12, LinkReconsider, Recorded DEF LinkBase
    <2>13. ASSUME NEW t \in Thread, Restart(t)
           PROVE  LinkBase' /\ WaitsAll'
      BY <1>1, <2>13, LinkRestart
    <2>14. ASSUME NEW b \in Block, PruneOneBlockFile(b)
           PROVE  LinkBase' /\ (WaitsAll => WaitsAll')
      BY <1>1, <2>14, LinkPrune
    <2>15. CASE UNCHANGED vars
      BY <1>1, <2>15, LinkStutter
    <2> QED BY <2>1, <2>2, <2>3, <2>4, <2>5, <2>6, <2>7, <2>8, <2>9, <2>10, <2>11, <2>12, <2>13,
               <2>14, <2>15
            DEF Next, ProcessNewBlock, Proceed, FindMostWorkChain
  <1> QED BY <1>2, <1>3 DEF LinkInv

\* Types, and the bits of nStatus that imply each other: BLOCK_HAVE_UNDO implies
\* BLOCK_HAVE_DATA, and a block with data, an nChainTx or a place in
\* mapBlocksUnlinked was received (src/src/main.cpp:4195).
THEOREM TreeTyped == Spec => []TypeOK
  <1>1. LinkInv => TypeOK
    <2> SUFFICES ASSUME LinkInv
                 PROVE  TypeOK
      OBVIOUS
    <2>1. /\ branch \in [Block -> Seq(Block)] /\ nChainWork \in [Block -> Nat]
          /\ undo \subseteq data /\ data \subseteq processed /\ linked \subseteq processed
          /\ \A b \in processed \cup failedValid \cup failedChild : b \in Block /\ Known(b)
      BY DEF LinkInv, LinkBase, Grounded, Tree, Heavier, Bits, Marks
    <2>2. arrival \in Seq(Block) /\ linked \subseteq Members(arrival)
      BY DEF LinkInv, LinkBase, Sequenced
    <2>3. candidates \subseteq linked \cup Members(queue) /\ tip \in linked \cup Members(queue)
      BY DEF LinkInv, LinkBase, Tips, Reached
    <2>4. unlinked \in Seq(processed)
      <3>1. unlinked \in Seq(Block) /\ \A i \in 1..Len(unlinked) : unlinked[i] \in processed
        BY DEF LinkInv, LinkBase, Waits, Members
      <3> QED BY <3>1
    <2>5. havePruned \in BOOLEAN /\ (~havePruned => data = processed) /\ aborted \in BOOLEAN
      BY DEF LinkInv, LinkBase, Bits
    <2>6. /\ pc \in [Thread -> Label] /\ most \in [Thread -> Block \cup {None}]
          /\ oldTip \in Block \cup {None} /\ queue \in Seq(Block)
      BY DEF LinkInv, LinkBase, Turns
    <2>7. commands \in Seq(Commands)
      BY DEF LinkInv, LinkBase
    <2> QED BY <2>1, <2>2, <2>3, <2>4, <2>5, <2>6, <2>7 DEF TypeOK
  <1> QED BY <1>1, LinkInit, LinkStep, PTL DEF Spec

\* Whenever cs_main is free, the blocks with an nChainTx were received with all
\* their ancestors, and every block that has its data and those of its unlinked
\* ancestors, none of them invalid, has one (src/src/main.cpp:4208), for any
\* number of blocks and threads and whatever the operator does short of
\* reconsiderblock.
THEOREM LinksExact == Spec => []LinkedExact
  <1>1. LinkInv => LinkedExact
    <2> SUFFICES ASSUME LinkInv, Free, NEW b \in Block, Known(b)
                 PROVE  /\ b \in linked => Lineage(b) \subseteq processed
                        /\ /\ ~Reconsidered
                           /\ Lineage(b) \subseteq linked \cup data
                           /\ Lineage(b) \cap failedValid = {}
                           => b \in linked
      BY DEF LinkedExact
    <2>1. LinkBase
      BY DEF LinkInv
    <2>2. Reached = linked
      BY <2>1, NothingQueued DEF LinkBase
    <2>3. b \in linked => Lineage(b) \subseteq processed
      BY <2>1, <2>2 DEF LinkBase, Closed, Bits
    <2>4. ASSUME ~Reconsidered, Lineage(b) \subseteq linked \cup data,
                 Lineage(b) \cap failedValid = {}, b \notin linked
          PROVE  FALSE
      <3> DEFINE bad == {n \in Nat : \E y \in Lineage(b) : y \notin linked /\ Len(branch[y]) = n}
      <3>1. WaitsAll
        BY <2>4 DEF LinkInv
      <3>2. Tree /\ Grounded
        BY <2>1 DEF LinkBase, Grounded
      <3>3. b \in Lineage(b) /\ Len(branch[b]) \in Nat
        BY <3>2, InLineage DEF Tree
      <3>4. bad # {} /\ bad \in SUBSET Nat
        BY <2>4, <3>3
      <3>5. PICK n \in bad : \A m \in bad : n <= m
        <4> HIDE DEF bad
        <4> QED BY <3>4, NatLeast
      <3>6. PICK y \in Lineage(b) : y \notin linked /\ Len(branch[y]) = n
        OBVIOUS
      <3>7. y \in Block /\ Known(y) /\ Lineage(y) \subseteq Lineage(b)
        BY <3>2, LineageKnown, LineageNested
      <3>8. y \in data /\ Valid(y)
        BY <2>4, <3>6, <3>7 DEF Valid
      <3>9. y \in Members(unlinked)
        BY <2>2, <3>1, <3>6, <3>8 DEF WaitsAll
      <3>10. y # Genesis /\ Prev(y) \notin linked
        BY <2>1, <2>2, <3>6, <3>9 DEF LinkBase, Waits
      <3>11. Prev(y) \in Lineage(y) /\ Len(branch[Prev(y)]) = Len(branch[y]) - 1
             /\ Prev(y) \in Block
        BY <3>2, <3>7, <3>10, LineagePrev
      <3>12. Len(branch[Prev(y)]) \in Nat
        BY <3>2, <3>11 DEF Tree
      <3>13. Len(branch[Prev(y)]) \in bad
        BY <3>7, <3>10, <3>11, <3>12
      <3>14. n <= Len(branch[Prev(y)]) /\ Len(branch[Prev(y)]) = n - 1 /\ n \in Nat
        BY <3>5, <3>6, <3>11, <3>13
      <3> HIDE DEF bad
      <3> QED BY <3>14
    <2> QED BY <2>3, <2>4
  <1> QED BY <1>1, LinkInit, LinkStep, PTL DEF Spec

\* Whenever cs_main is free, a candidate is linked and has at least the work of
\* the tip, and does not sort before it as long as nothing was pruned, whatever
\* the operator does: "If this block sorts worse than the current tip [...], it
\* cannot be in setBlockIndexCandidates" (src/src/main.cpp:4234).
THEOREM CandidatesKept == Spec => []CandidatesUseful
  <1>1. LinkInv => CandidatesUseful
    <2> SUFFICES ASSUME LinkInv, Free
                 PROVE  \A b \in candidates : /\ b \in linked
                                              /\ nChainWork[b] >= nChainWork[tip]
                                              /\ ~havePruned => ~Worse(b, tip)
      BY DEF CandidatesUseful
    <2>1. LinkBase
      BY DEF LinkInv
    <2>2. Reached = linked
      BY <2>1, NothingQueued DEF LinkBase
    <2> QED BY <2>1, <2>2 DEF LinkBase, Tips, NeverAgain
  <1> QED BY <1>1, LinkInit, LinkStep, PTL DEF Spec

-----------------------------------------------------------------------------
(***************************************************************************)
(* mapBlocksUnlinked, while the operator does nothing but restart the node *)
(* (with invalidateblock a block can stay in it that waits for nothing:    *)
(* see the README).                                                        *)
(***************************************************************************)

\* Only a block that fails ContextualCheckBlock is marked before it is linked.
MarksReached == \A x \in Block : Failed(x) => x \in Reached \cup BadContext

\* A block that was not put in mapBlocksUnlinked has a parent that failed.
DataWaits == \A b \in data : b \notin Reached => b \in Members(unlinked) \/ Prev(b) \in BadContext

\* A block waits for a parent that is missing or waits too, unless it has an
\* ancestor that failed.
WaitsForData ==
    \A b \in Members(unlinked) : \/ Prev(b) \notin data
                                 \/ Prev(b) \in Members(unlinked) \cup Members(queue)
                                 \/ Lineage(b) \cap BadContext # {}

Waiters == MarksReached /\ DataWaits /\ WaitsForData

\* The inductive invariant.
WaitInv == LinkInv /\ Waiters

\* A step that adds no data and leaves mapBlocksUnlinked alone.
LEMMA WaitersKept ==
    ASSUME LinkBase, Waiters, Grown, UNCHANGED <<data, unlinked, queue>>,
           Reached \subseteq Reached',
           \A x \in Block : Failed(x)' => Failed(x) \/ x \in Reached' \cup BadContext
    PROVE  Waiters'
  <1>1. /\ Members(unlinked)' = Members(unlinked) /\ Members(queue)' = Members(queue)
    BY DEF Members
  <1>2. \A b \in data \cup Members(unlinked) : Prev(b)' = Prev(b) /\ Lineage(b)' = Lineage(b)
    BY ReachedKnown, GrownKeeps
  <1>3. MarksReached'
    BY DEF Waiters, MarksReached
  <1>4. DataWaits'
    BY <1>1, <1>2 DEF Waiters, DataWaits
  <1>5. WaitsForData'
    BY <1>1, <1>2 DEF Waiters, WaitsForData
  <1> QED BY <1>3, <1>4, <1>5 DEF Waiters

\* The parents of the blocks FindMostWorkChain walks over.
LEMMA AbovePrev ==
    ASSUME Tree, NEW c \in Block, NEW x \in Lineage(c), NEW a \in Members(Above(c, x))
    PROVE  Prev(a) = x \/ Prev(a) \in Members(Above(c, x))
  <1> DEFINE n == nHeight(c) - nHeight(x)
             l == Len(branch[c])
  <1>1. PICK i \in 1..l : branch[c][i] = x
    BY DEF Lineage, Members
  <1>2. Len(branch[x]) = i /\ l \in Nat /\ i \in Nat
    BY <1>1 DEF Tree, Nested
  <1>3. n \in Nat /\ n = l - i
    BY <1>1, <1>2 DEF nHeight
  <1>4. Len(Above(c, x)) = n /\ \A k \in 1..n : Above(c, x)[k] = branch[c][l + 1 - k]
    BY <1>3 DEF Above
  <1> HIDE DEF n
  <1>5. PICK k \in 1..n : a = branch[c][l + 1 - k]
    BY <1>4 DEF Members
  <1> HIDE DEF l
  <1>6. l + 1 - k \in 1..l /\ l + 1 - k > i /\ l - k \in 1..(l + 1 - k) /\ l - k >= i
    BY <1>1, <1>2, <1>3, <1>5
  <1>7. /\ Len(branch[a]) = l + 1 - k
        /\ branch[a][l - k] = branch[c][l - k]
    BY <1>5, <1>6 DEF Tree, Nested, l
  <1>8. (l + 1 - k) - 1 = l - k
    BY <1>2, <1>5
  <1>9. Prev(a) = branch[c][l - k]
    BY <1>7, <1>8 DEF Prev
  <1>10. CASE l - k = i
    BY <1>1, <1>9, <1>10
  <1>11. CASE l - k # i
    <2>1. k + 1 \in 1..n /\ l + 1 - (k + 1) = l - k
      BY <1>1, <1>2, <1>3, <1>5, <1>6, <1>11
    <2>2. Above(c, x)[k + 1] = Prev(a)
      BY <1>4, <1>9, <2>1
    <2> QED BY <1>4, <2>1, <2>2 DEF Members
  <1> QED BY <1>10, <1>11

\* Waiters is kept when a block is stored.
LEMMA WaitersStore ==
    ASSUME LinkBase, Waiters, NEW t \in Thread, NEW b \in Hash, NEW p \in Block,
           NEW r \in BOOLEAN, StoreBlock(t, b, p, r)
    PROVE  Waiters'
  <1>1. /\ Free /\ HeaderOk(b, p) /\ AddToBlockIndex(b, p)
        /\ data' = data \cup {b} /\ linked' = linked \ {b}
        /\ UNCHANGED <<failedValid, failedChild>>
        /\ IF p \in linked
           THEN queue' = <<b>> /\ UNCHANGED unlinked
           ELSE /\ unlinked' = IF Failed(p) THEN unlinked ELSE Append(unlinked, b)
                /\ UNCHANGED queue
    BY DEF StoreBlock, Arrives
  <1>2. b \in Block /\ b # Genesis
    BY BlockAssumption DEF Block
  <1>3. Grounded' /\ Grown /\ Known(b)' /\ Known(p) /\ Prev(b)' = p
        /\ Lineage(b)' = Lineage(p) \cup {b}
    BY <1>1, GroundedGrows DEF LinkBase
  <1>4. Members(queue) = {} /\ Reached = linked
    BY <1>1, NothingQueued DEF LinkBase
  <1>5. \A x \in data \cup Members(unlinked) \cup {tip} : /\ Prev(x)' = Prev(x)
                                                          /\ Lineage(x)' = Lineage(x)
                                                          /\ x \in Block /\ Known(x)
    BY <1>3, ReachedKnown, GrownKeeps
  <1>6. b \in linked => p \in linked
    <2> SUFFICES ASSUME b \in linked
                 PROVE  p \in linked
      OBVIOUS
    <2>1. Known(b)
      BY ReachedKnown DEF Reached
    <2>2. Lineage(b) = Lineage(p) \cup {b} /\ p \in Lineage(p)
      BY <1>2, <1>3, <2>1, GrownKeeps, InLineage DEF LinkBase, Grounded
    <2> QED BY <1>4, <2>2 DEF LinkBase, Closed
  <1>7. /\ p \in linked => Members(queue)' = {b} /\ Members(unlinked)' = Members(unlinked)
        /\ p \notin linked => Members(queue)' = {}
        /\ p \notin linked /\ Failed(p) => Members(unlinked)' = Members(unlinked)
        /\ p \notin linked /\ ~Failed(p) => Members(unlinked)' = Members(unlinked) \cup {b}
    <2>1. CASE p \in linked
      <3> DEFINE q == <<b>>
      <3>1. queue' = q /\ unlinked' = unlinked /\ Members(q) = {b}
        BY <1>1, <2>1 DEF Members
      <3> HIDE DEF q
      <3>2. Members(queue)' = Members(q) /\ Members(unlinked)' = Members(unlinked)
        BY <3>1 DEF Members
      <3> QED BY <2>1, <3>1, <3>2
    <2>2. CASE p \notin linked
      <3>1. Members(queue)' = {}
        BY <1>1, <1>4, <2>2 DEF Members
      <3>2. Failed(p) => Members(unlinked)' = Members(unlinked)
        BY <1>1, <2>2 DEF Members
      <3>3. ASSUME ~Failed(p)
            PROVE  Members(unlinked)' = Members(unlinked) \cup {b}
        <4>1. unlinked' = Append(unlinked, b) /\ unlinked \in Seq(Block)
          BY <1>1, <2>2, <3>3 DEF LinkBase, Waits
        <4>2. Members(Append(unlinked, b)) = Members(unlinked) \cup {b}
          BY <1>2, <4>1, AppendMembers
        <4>3. Members(unlinked)' = Members(Append(unlinked, b))
          BY <4>1 DEF Members
        <4> QED BY <4>2, <4>3
      <3> QED BY <2>2, <3>1, <3>2, <3>3
    <2> QED BY <2>1, <2>2
  <1>8. Reached \subseteq Reached'
    BY <1>1, <1>4, <1>6, <1>7 DEF Reached
  <1>9. MarksReached'
    BY <1>1, <1>8 DEF Waiters, MarksReached, Failed
  <1>10. p \notin linked /\ Failed(p) => p \in BadContext
    BY <1>4 DEF Waiters, MarksReached
  <1>11. Members(unlinked) \subseteq Members(unlinked)'
    BY <1>7
  <1>12. DataWaits'
    <2> SUFFICES ASSUME NEW x \in data', x \notin Reached'
                 PROVE  x \in Members(unlinked)' \/ Prev(x)' \in BadContext
      BY DEF DataWaits
    <2>1. CASE x = b
      <3>1. p \notin linked
        BY <1>7, <2>1 DEF Reached
      <3> QED BY <1>3, <1>7, <1>10, <2>1, <3>1
    <2>2. CASE x # b
      <3>1. x \in data /\ x \notin Reached
        BY <1>1, <1>8, <2>2
      <3> QED BY <1>5, <1>11, <3>1 DEF Waiters, DataWaits
    <2> QED BY <2>1, <2>2
  <1>13. \A w \in Members(unlinked) \cup data : w # Genesis => Prev(w) \in Lineage(w)
    BY <1>5, LineagePrev DEF LinkBase
  <1>14. WaitsForData'
    <2> SUFFICES ASSUME NEW w \in Members(unlinked)'
                 PROVE  \/ Prev(w)' \notin data'
                        \/ Prev(w)' \in Members(unlinked)' \cup Members(queue)'
                        \/ Lineage(w)' \cap BadContext # {}
      BY DEF WaitsForData
    <2>1. CASE w \in Members(unlinked)
      <3>1. Prev(w)' = Prev(w) /\ Lineage(w)' = Lineage(w)
        BY <1>5, <2>1
      <3>2. CASE Prev(w) # b
        BY <1>1, <1>4, <1>11, <2>1, <3>1, <3>2 DEF Waiters, WaitsForData
      <3>3. CASE Prev(w) = b
        <4>1. CASE p \in linked
          BY <1>7, <3>1, <3>3, <4>1
        <4>2. CASE p \notin linked /\ ~Failed(p)
          BY <1>7, <3>1, <3>3, <4>2
        <4>3. CASE p \notin linked /\ Failed(p)
          <5>1. w # Genesis /\ w \in Block /\ Known(w)
            BY <1>5, <2>1 DEF LinkBase, Waits
          <5>2. b \in Lineage(w)
            BY <1>13, <2>1, <3>3, <5>1
          <5>3. Known(b) /\ Lineage(b) \subseteq Lineage(w)
            BY <5>1, <5>2, LineageKnown, LineageNested DEF LinkBase, Grounded
          <5>4. p \in Lineage(b)
            <6>1. Lineage(b)' = Lineage(b)
              BY <1>2, <1>3, <5>3, GrownKeeps
            <6>2. p \in Lineage(p)
              BY <1>3, InLineage DEF LinkBase, Grounded
            <6> QED BY <1>3, <6>1, <6>2
          <5> QED BY <1>10, <3>1, <4>3, <5>3, <5>4
        <4> QED BY <4>1, <4>2, <4>3
      <3> QED BY <3>2, <3>3
    <2>2. CASE w \notin Members(unlinked)
      <3>1. w = b /\ p \notin linked
        BY <1>7, <2>2
      <3>2. p # b
        <4>1. Known(b) => Prev(b) # b /\ p = Prev(b)
          BY <1>1, <1>2, LineagePrev DEF LinkBase, HeaderOk
        <4> QED BY <1>3, <4>1
      <3>3. ASSUME p \in data, p \notin Members(unlinked)
            PROVE  Lineage(b)' \cap BadContext # {}
        <4>1. Prev(p) \in BadContext /\ p # Genesis
          BY <1>4, <3>1, <3>3 DEF Waiters, DataWaits, LinkBase, Bits
        <4>2. Prev(p) \in Lineage(p)
          BY <1>3, <4>1, LineagePrev DEF LinkBase
        <4> QED BY <1>3, <4>1, <4>2
      <3> QED BY <1>1, <1>3, <1>11, <3>1, <3>2, <3>3
    <2> QED BY <2>1, <2>2
  <1> QED BY <1>9, <1>12, <1>14 DEF Waiters

\* What LinkBlock moves: the head of the queue is linked, and the blocks that
\* waited for it leave mapBlocksUnlinked for the queue.
LEMMA LinkMoves ==
    ASSUME LinkBase, NEW t \in Thread, LinkBlock(t)
    PROVE  /\ Head(queue) \in Block /\ Head(queue) \in Members(queue)
           /\ Members(unlinked)' = Members(unlinked) \ Children(Head(queue))
           /\ Members(queue) \ {Head(queue)} \subseteq Members(queue)'
           /\ Members(unlinked) \cap Children(Head(queue)) \subseteq Members(queue)'
  <1> DEFINE b == Head(queue)
             rest == Tail(queue)
  <1>1. queue # <<>> /\ queue \in Seq(Block) /\ unlinked \in Seq(Block)
    BY DEF LinkBlock, LinkBase, Turns, Waits
  <1>2. /\ b \in Block /\ rest \in Seq(Block) /\ b \in Members(queue)
        /\ Members(queue) = {b} \cup Members(rest)
    BY <1>1, TailMembers
  <1>3. queue' = rest \o Waiting(b) /\ unlinked' = Remaining(b)
    BY DEF LinkBlock
  <1> HIDE DEF b, rest
  <1>4. Waiting(b) \in Seq(Block) /\ Members(Waiting(b)) = Members(unlinked) \cap Children(b)
    BY <1>1, FilterMembers DEF Waiting
  <1>5. Members(Remaining(b)) = Members(unlinked) \cap (Block \ Children(b))
    BY <1>1, FilterMembers DEF Remaining
  <1>6. Members(unlinked) \subseteq Block
    BY <1>1 DEF Members
  <1>7. Members(rest \o Waiting(b)) = Members(rest) \cup Members(Waiting(b))
    BY <1>2, <1>4, ConcatMembers
  <1>8. Members(queue)' = Members(rest \o Waiting(b)) /\ Members(unlinked)' = Members(Remaining(b))
    BY <1>3 DEF Members
  <1>9. /\ Members(unlinked)' = Members(unlinked) \ Children(b)
        /\ Members(queue) \ {b} \subseteq Members(queue)'
        /\ Members(unlinked) \cap Children(b) \subseteq Members(queue)'
    BY <1>2, <1>4, <1>5, <1>6, <1>7, <1>8
  <1> QED BY <1>2, <1>9 DEF b

\* The loop of ReceivedBlockTransactions.
LEMMA WaitersLink ==
    ASSUME LinkBase, Waiters, NEW t \in Thread, LinkBlock(t), Reached \subseteq Reached'
    PROVE  Waiters'
  <1> DEFINE b == Head(queue)
  <1>1. UNCHANGED <<index, data, failedValid, failedChild>>
    BY DEF LinkBlock
  <1>2. /\ b \in Block /\ b \in Members(queue)
        /\ Members(unlinked)' = Members(unlinked) \ Children(b)
        /\ Members(queue) \ {b} \subseteq Members(queue)'
        /\ Members(unlinked) \cap Children(b) \subseteq Members(queue)'
    BY LinkMoves
  <1> HIDE DEF b
  <1>3. \A x : Prev(x)' = Prev(x) /\ Lineage(x)' = Lineage(x)
    BY <1>1 DEF index, Prev, Lineage, Members
  <1>4. MarksReached'
    BY <1>1 DEF Waiters, MarksReached, Failed
  <1>5. DataWaits'
    BY <1>1, <1>2, <1>3 DEF Waiters, DataWaits, Reached
  <1>6. WaitsForData'
    <2> SUFFICES ASSUME NEW w \in Members(unlinked)'
                 PROVE  \/ Prev(w) \notin data
                        \/ Prev(w) \in Members(unlinked)' \cup Members(queue)'
                        \/ Lineage(w) \cap BadContext # {}
      BY <1>1, <1>3 DEF WaitsForData
    <2>1. w \in Members(unlinked) /\ w \in Block /\ Known(w) /\ w # Genesis
      BY <1>2, ReachedKnown DEF LinkBase, Waits
    <2>2. Prev(w) # b
      BY <1>2, <2>1 DEF Children
    <2> QED BY <1>2, <2>1, <2>2 DEF Waiters, WaitsForData
  <1> QED BY <1>4, <1>5, <1>6 DEF Waiters

\* FindMostWorkChain puts the blocks above a missing one into mapBlocksUnlinked.
LEMMA WaitersDiscard ==
    ASSUME LinkBase, Waiters, NEW t \in Thread, NEW c \in Block, NEW x \in Block,
           DiscardCandidate(t, c, x)
    PROVE  Waiters'
  <1>1. /\ UNCHANGED <<index, data, linked, failedValid, queue>>
        /\ pc[t] = "find" /\ c \in candidates /\ IsLastObstacle(c, x)
        /\ failedChild' \subseteq failedChild \cup Members(Above(c, x))
        /\ unlinked' = IF Failed(x) THEN unlinked ELSE unlinked \o Above(c, x)
    BY DEF DiscardCandidate, IsBestCandidate, threads
  <1>2. Holding(t)
    BY <1>1 DEF Holding
  <1>3. Reached = linked /\ Members(queue) = {}
    BY <1>1, <1>2, NothingQueued DEF LinkBase
  <1>4. c \in linked
    BY <1>1, <1>3 DEF LinkBase, Tips
  <1>5. /\ x \in Lineage(c) /\ Above(c, x) \in Seq(Block)
        /\ \A a \in Members(Above(c, x)) : a \in linked
    BY <1>1, <1>3, <1>4, AboveSound
  <1>6. UNCHANGED Reached
    BY <1>1 DEF Reached, Members
  <1>7. \A b : Prev(b)' = Prev(b) /\ Lineage(b)' = Lineage(b)
    BY <1>1 DEF index, Prev, Lineage, Members
  <1>8. MarksReached'
    BY <1>1, <1>3, <1>5, <1>6 DEF Waiters, MarksReached, Failed
  <1>9. /\ Members(unlinked) \subseteq Members(unlinked)'
        /\ \/ Members(unlinked)' = Members(unlinked)
           \/ /\ ~Failed(x)
              /\ Members(unlinked)' = Members(unlinked) \cup Members(Above(c, x))
    <2>1. CASE Failed(x)
      BY <1>1, <2>1 DEF Members
    <2>2. CASE ~Failed(x)
      <3>1. Members(unlinked \o Above(c, x)) = Members(unlinked) \cup Members(Above(c, x))
        BY <1>5, ConcatMembers DEF LinkBase, Waits
      <3>2. Members(unlinked)' = Members(unlinked \o Above(c, x))
        BY <1>1, <2>2 DEF Members
      <3> QED BY <2>2, <3>1, <3>2
    <2> QED BY <2>1, <2>2
  <1>10. DataWaits'
    BY <1>1, <1>6, <1>7, <1>9 DEF Waiters, DataWaits
  <1>11. WaitsForData'
    <2> SUFFICES ASSUME NEW w \in Members(unlinked)'
                 PROVE  \/ Prev(w) \notin data
                        \/ Prev(w) \in Members(unlinked)'
                        \/ Lineage(w) \cap BadContext # {}
      BY <1>1, <1>7 DEF WaitsForData
    <2>1. CASE w \in Members(unlinked)
      BY <1>3, <1>9, <2>1 DEF Waiters, WaitsForData
    <2>2. CASE w \notin Members(unlinked)
      <3>1. ~Failed(x) /\ w \in Members(Above(c, x))
            /\ Members(Above(c, x)) \subseteq Members(unlinked)'
        BY <1>9, <2>2
      <3>2. x \notin data
        BY <1>1, <3>1 DEF IsLastObstacle, Obstacles
      <3>3. Prev(w) = x \/ Prev(w) \in Members(Above(c, x))
        BY <1>5, <3>1, AbovePrev DEF LinkBase, Grounded
      <3> QED BY <3>1, <3>2, <3>3
    <2> QED BY <2>1, <2>2
  <1> QED BY <1>8, <1>10, <1>11 DEF Waiters

\* A pruned block leaves mapBlocksUnlinked, and those that wait for it wait for
\* its data.
LEMMA WaitersPrune ==
    ASSUME LinkBase, Waiters, NEW b \in Block, PruneOneBlockFile(b)
    PROVE  Waiters'
  <1>1. /\ UNCHANGED <<index, linked, failedValid, failedChild, queue>>
        /\ data' = data \ {b} /\ unlinked' = Filter(unlinked, Block \ {b})
    BY DEF PruneOneBlockFile, threads
  <1>2. Members(unlinked)' = Members(unlinked) \ {b}
    <2>1. unlinked \in Seq(Block) /\ Members(unlinked) \subseteq Block
      BY ReachedKnown DEF LinkBase, Waits
    <2>2. Members(Filter(unlinked, Block \ {b})) = Members(unlinked) \cap (Block \ {b})
      BY <2>1, FilterMembers
    <2>3. Members(unlinked)' = Members(Filter(unlinked, Block \ {b}))
      BY <1>1 DEF Members
    <2> QED BY <2>1, <2>2, <2>3
  <1>3. UNCHANGED Reached /\ Members(queue)' = Members(queue)
    BY <1>1 DEF Reached, Members
  <1>4. \A x : Prev(x)' = Prev(x) /\ Lineage(x)' = Lineage(x)
    BY <1>1 DEF index, Prev, Lineage, Members
  <1>5. MarksReached'
    BY <1>1, <1>3 DEF Waiters, MarksReached, Failed
  <1>6. DataWaits'
    BY <1>1, <1>2, <1>3, <1>4 DEF Waiters, DataWaits
  <1>7. WaitsForData'
    BY <1>1, <1>2, <1>3, <1>4 DEF Waiters, WaitsForData
  <1> QED BY <1>5, <1>6, <1>7 DEF Waiters

\* LoadBlockIndexDB puts every block it cannot link into mapBlocksUnlinked.
LEMMA WaitersRestart ==
    ASSUME LinkBase, Waiters, commands' \in Seq(Commands), NEW t \in Thread, Restart(t)
    PROVE  Waiters'
  <1>1. /\ UNCHANGED <<index, data, processed, failedValid, queue>>
        /\ failedChild' \subseteq failedChild /\ Free
    BY DEF Restart, Command
  <1>2. /\ \A b \in processed : b \in linked' \/ b \in Members(unlinked)'
        /\ \A b \in Members(unlinked)' : Prev(b) \in processed => Prev(b) \in Members(unlinked)'
        /\ linked \subseteq linked'
    BY LinkRestart
  <1>3. Reached \subseteq Reached' /\ linked' \subseteq Reached'
    BY <1>1, <1>2, NothingQueued DEF LinkBase, Reached
  <1>4. data \subseteq processed
    BY DEF LinkBase, Bits
  <1>5. \A x : Prev(x)' = Prev(x)
    BY <1>1 DEF index, Prev
  <1>6. MarksReached'
    BY <1>1, <1>3 DEF Waiters, MarksReached, Failed
  <1>7. DataWaits'
    BY <1>1, <1>2, <1>3, <1>4 DEF DataWaits
  <1>8. WaitsForData'
    BY <1>1, <1>2, <1>4, <1>5 DEF WaitsForData
  <1> QED BY <1>6, <1>7, <1>8 DEF Waiters

\* Every step keeps it, where the operator only restarts the node.
LEMMA WaitersStep ==
    ASSUME Commands \subseteq {"restart"}, LinkInv, Waiters, [Next]_vars
    PROVE  Waiters'
  <1>1. LinkBase /\ commands' \in Seq(Commands)
    BY Remembered DEF LinkInv, LinkBase
  <1>2. ASSUME NEW b \in Hash, NEW p \in Block, HeaderOk(b, p), AddToBlockIndex(b, p),
               UNCHANGED <<data, linked, failedChild, choice, queue>>,
               \/ UNCHANGED failedValid
               \/ failedValid' = failedValid \cup {b} /\ b \in BadContext
        PROVE  Waiters'
    <2>1. Grown
      BY <1>1, <1>2, GroundedGrows DEF LinkBase
    <2>2. UNCHANGED Reached /\ UNCHANGED unlinked
      BY <1>2 DEF Reached, Members, choice
    <2>3. \A x \in Block : Failed(x)' => Failed(x) \/ x \in BadContext
      BY <1>2 DEF Failed
    <2> QED BY <1>1, <1>2, <2>1, <2>2, <2>3, WaitersKept
  <1>3. ASSUME UNCHANGED <<index, data, linked, unlinked, queue>>,
               \A x \in Block : Failed(x)' => Failed(x) \/ x \in Reached
        PROVE  Waiters'
    <2>1. Grown
      BY <1>1, <1>3, IndexKept DEF LinkBase
    <2>2. UNCHANGED Reached
      BY <1>3 DEF Reached, Members
    <2> QED BY <1>1, <1>3, <2>1, <2>2, WaitersKept
  <1>4. ASSUME NEW b \in Hash, NEW p \in Block, AcceptBlockHeader(b, p)
        PROVE  Waiters'
    <2>1. /\ HeaderOk(b, p) /\ AddToBlockIndex(b, p)
          /\ UNCHANGED <<data, linked, failedChild, failedValid, choice, queue>>
      BY <1>4 DEF AcceptBlockHeader, status, threads
    <2> QED BY <1>2, <2>1
  <1>5. ASSUME NEW t \in Thread, NEW b \in Hash, NEW p \in Block, NEW r \in BOOLEAN,
               IgnoreBlock(t, b, p, r)
        PROVE  Waiters'
    <2>1. /\ HeaderOk(b, p) /\ AddToBlockIndex(b, p)
          /\ UNCHANGED <<data, linked, failedChild, failedValid, choice, queue>>
      BY <1>5 DEF IgnoreBlock, Arrives, status
    <2> QED BY <1>2, <2>1
  <1>6. ASSUME NEW t \in Thread, NEW b \in Hash, NEW p \in Block, NEW r \in BOOLEAN,
               RejectBlock(t, b, p, r)
        PROVE  Waiters'
    BY <1>2, <1>6 DEF RejectBlock, Arrives, threads
  <1>7. ASSUME NEW t \in Thread, NEW b \in Hash, NEW p \in Block, NEW r \in BOOLEAN,
               StoreBlock(t, b, p, r)
        PROVE  Waiters'
    BY <1>1, <1>7, WaitersStore
  <1>8. ASSUME NEW t \in Thread, LinkBlock(t)
        PROVE  Waiters'
    BY <1>1, <1>8, LinkLinks, WaitersLink
  <1>9. ASSUME NEW t \in Thread, NEW c \in Block, NEW x \in Block, DiscardCandidate(t, c, x)
        PROVE  Waiters'
    BY <1>1, <1>9, WaitersDiscard
  <1>10. ASSUME NEW t \in Thread, NEW c \in Block, ChooseCandidate(t, c)
         PROVE  Waiters'
    BY <1>3, <1>10 DEF ChooseCandidate, status, choice, Failed
  <1>11. ASSUME NEW t \in Thread, Activate(t) \/ NothingToDo(t) \/ Loop(t)
         PROVE  Waiters'
    BY <1>3, <1>11 DEF Activate, NothingToDo, Loop, status, choice, Failed
  <1>12. ASSUME NEW t \in Thread, DisconnectTip(t) \/ StepFails(t) \/ ConnectTip(t)
         PROVE  Waiters'
    BY <1>3, <1>12 DEF DisconnectTip, StepFails, ConnectTip, status, choice, threads, Failed
  <1>13. ASSUME NEW t \in Thread, InvalidBlockFound(t)
         PROVE  Waiters'
    <2>1. NextBlock(t) \in linked
      BY <1>1, <1>13, NextOnWay DEF InvalidBlockFound
    <2>2. /\ UNCHANGED <<index, data, linked, failedChild, unlinked, queue>>
          /\ failedValid' = failedValid \cup {NextBlock(t)}
      BY <1>13 DEF InvalidBlockFound
    <2>3. \A x \in Block : Failed(x)' => Failed(x) \/ x \in Reached
      BY <2>1, <2>2 DEF Failed, Reached
    <2> QED BY <1>3, <2>2, <2>3
  <1>14. ASSUME NEW t \in Thread, InvalidateTip(t)
         PROVE  Waiters'
    <2>1. /\ UNCHANGED <<index, data, linked, failedValid, unlinked, queue>>
          /\ failedChild' = failedChild \cup {tip}
      BY <1>14 DEF InvalidateTip
    <2>2. tip \in Reached
      BY <1>1 DEF LinkBase, Tips
    <2>3. \A x \in Block : Failed(x)' => Failed(x) \/ x \in Reached
      BY <2>1, <2>2 DEF Failed
    <2> QED BY <1>3, <2>1, <2>3
  <1>15. ASSUME NEW t \in Thread, InvalidateEnd(t)
         PROVE  Waiters'
    BY <1>3, <1>15 DEF InvalidateEnd, status, Failed
  <1>16. \A t \in Thread, b \in Block : ~InvalidateBlock(t, b) /\ ~ReconsiderBlock(t, b)
    BY DEF InvalidateBlock, ReconsiderBlock, Command
  <1>17. ASSUME NEW t \in Thread, Restart(t)
         PROVE  Waiters'
    BY <1>1, <1>17, WaitersRestart
  <1>18. ASSUME NEW b \in Block, PruneOneBlockFile(b)
         PROVE  Waiters'
    BY <1>1, <1>18, WaitersPrune
  <1>19. CASE UNCHANGED vars
    BY <1>3, <1>19 DEF vars, status, choice, threads, Failed
  <1> QED BY <1>4, <1>5, <1>6, <1>7, <1>8, <1>9, <1>10, <1>11, <1>12, <1>13, <1>14, <1>15, <1>16,
             <1>17, <1>18, <1>19
          DEF Next, ProcessNewBlock, Proceed, FindMostWorkChain, ActivateBestChainStep

\* Whenever cs_main is free, mapBlocksUnlinked has every block with data that
\* waits for an ancestor never received, and no block that has all its data down
\* to the genesis block: "cannot be in mapBlocksUnlinked"
\* (src/src/main.cpp:4253), for any number of blocks and threads, with pruning
\* and restarts.  With invalidateblock the second half fails (see the README).
THEOREM WaitingExact ==
    ASSUME Commands \subseteq {"restart"}
    PROVE  Spec => []UnlinkedExact
  <1>1. Init => Waiters
    <2> SUFFICES ASSUME Init
                 PROVE  Waiters
      OBVIOUS
    <2>1. Members(unlinked) = {}
      BY DEF Init, Members
    <2> QED BY <2>1 DEF Init, Waiters, MarksReached, DataWaits, WaitsForData, Failed, Reached
  <1>2. WaitInv /\ [Next]_vars => WaitInv'
    BY LinkStep, WaitersStep DEF WaitInv
  <1>3. WaitInv => UnlinkedExact
    <2> SUFFICES ASSUME WaitInv, Free, NEW b \in data, b # Genesis
                 PROVE  /\ b \in Members(unlinked) => ~(Lineage(b) \subseteq data)
                        /\ (b \notin linked /\ Valid(b)) => b \in Members(unlinked)
      BY DEF UnlinkedExact, Valid
    <2>1. LinkBase /\ Waiters /\ ~Reconsidered
      BY DEF WaitInv, LinkInv, LinkBase, Reconsidered, Members
    <2>2. WaitsAll /\ Reached = linked /\ Members(queue) = {}
      BY <2>1, NothingQueued DEF WaitInv, LinkInv, LinkBase
    <2>3. (b \notin linked /\ Valid(b)) => b \in Members(unlinked)
      BY <2>2 DEF WaitsAll
    <2>4. ASSUME b \in Members(unlinked), Lineage(b) \subseteq data
          PROVE  FALSE
      <3> DEFINE bad == {Len(branch[y]) : y \in Lineage(b) \cap Members(unlinked)}
      <3>1. b \in Block /\ Known(b) /\ Tree /\ b \in Lineage(b)
        BY <2>1, ReachedKnown, InLineage DEF LinkBase, Grounded
      <3>2. bad \subseteq Nat /\ bad # {}
        <4>1. \A y \in Lineage(b) : Len(branch[y]) \in Nat
          BY <3>1, LineageKnown DEF Tree
        <4> QED BY <2>4, <3>1, <4>1
      <3>3. PICK n \in bad : \A m \in bad : n <= m
        <4> HIDE DEF bad
        <4> QED BY <3>2, NatLeast
      <3>4. PICK y \in Lineage(b) \cap Members(unlinked) : Len(branch[y]) = n
        OBVIOUS
      <3>5. y \in Block /\ Known(y) /\ Lineage(y) \subseteq Lineage(b) /\ y # Genesis
        BY <2>1, <3>1, <3>4, LineageKnown, LineageNested DEF LinkBase, Waits
      <3>6. Prev(y) \in Lineage(y) /\ Len(branch[Prev(y)]) = Len(branch[y]) - 1
        BY <2>1, <3>5, LineagePrev DEF LinkBase
      <3>7. Lineage(y) \cap BadContext = {}
        BY <2>1, <2>4, <3>5 DEF LinkBase, Bits
      <3>8. Prev(y) \in Members(unlinked)
        BY <2>1, <2>2, <2>4, <3>4, <3>5, <3>6, <3>7 DEF Waiters, WaitsForData
      <3>9. Len(branch[Prev(y)]) \in bad
        BY <3>5, <3>6, <3>8
      <3>10. n <= Len(branch[Prev(y)]) /\ Len(branch[Prev(y)]) = n - 1 /\ n \in Nat
        BY <3>2, <3>3, <3>4, <3>6, <3>9
      <3> HIDE DEF bad
      <3> QED BY <3>10
    <2> QED BY <2>3, <2>4
  <1> QED BY <1>1, <1>2, <1>3, LinkInit, PTL DEF Spec, WaitInv

-----------------------------------------------------------------------------
(***************************************************************************)
(* The choice of the chain, where nothing is pruned.                       *)
(*                                                                         *)
(* Blocks leave setBlockIndexCandidates when a tip is connected, and that  *)
(* tip may be left again before its branch turns out to be invalid: the    *)
(* set is not complete at every moment.  What is kept is an anchor: a      *)
(* candidate that no validation will reject, as good as the tip, and such  *)
(* that every valid block better than it is a candidate too.               *)
(***************************************************************************)

\* The active chain holds no block that ConnectBlock rejects, and only
\* invalidateblock, at work, leaves an invalid one on it.
TipSound ==
    /\ Lineage(tip) \cap BadConnect = {}
    /\ \A x \in Lineage(tip) \cap failedValid :
          \E t \in Thread : pc[t] = "invalidate" /\ most[t] = x

\* The candidate a thread moves the tip to is still the best one.
Aims == \A t \in Thread : pc[t] = "step" => IsBestCandidate(most[t]) /\ Valid(most[t])

IsAnchor(a) ==
    /\ a \in candidates /\ a \in linked /\ Valid(a) /\ Lineage(a) \cap BadConnect = {}
    /\ ~Worse(a, tip)
    /\ \A b \in linked : Valid(b) => b \in candidates \/ Worse(b, a)

Invalidates == \E t \in Thread : pc[t] = "invalidate"

Anchored == Invalidates \/ \E a \in linked : IsAnchor(a)

\* Thread t will look for the best candidate.
Pending(t) == \/ pc[t] \in {"link", "activate", "find", "step", "invalidate"}
              \/ pc[t] = "loop" /\ most[t] # tip

\* The tip is the best candidate, or some thread has still to look for it.
Settling == IsBestCandidate(tip) \/ \E t \in Thread : Pending(t)

Chosen == TipSound /\ Aims /\ Anchored /\ Settling

\* The inductive invariant.
ActInv == LinkInv /\ ~havePruned /\ (Reconsidered \/ aborted \/ Chosen)

\* CBlockIndexWorkComparator is a strict total order on the linked blocks.
LEMMA Ordered ==
    ASSUME LinkBase
    PROVE  /\ \A a \in linked : ~Worse(a, a)
           /\ \A a, b \in linked : Worse(a, b) => ~Worse(b, a)
           /\ \A a, b \in linked : a # b => Worse(a, b) \/ Worse(b, a)
           /\ \A a, b, c \in linked : Worse(a, b) /\ Worse(b, c) => Worse(a, c)
  <1>1. \A a \in linked : a \in Block /\ nChainWork[a] \in Nat
    BY ReachedKnown DEF LinkBase, Grounded, Heavier, Reached
  <1>2. \A a \in linked : /\ Position(arrival, a) \in 1..Len(arrival)
                          /\ arrival[Position(arrival, a)] = a
    BY PositionIs DEF LinkBase, Sequenced
  <1>3. Len(arrival) \in Nat
    BY DEF LinkBase, Sequenced
  <1>4. \A a \in linked : Position(arrival, a) \in Nat
    BY <1>2, <1>3
  <1>5. \A a, b \in linked : Position(arrival, a) = Position(arrival, b) => a = b
    BY <1>2
  <1> QED BY <1>1, <1>4, <1>5 DEF Worse, WorseIn

\* A step that changes neither the candidates nor the tip nor anything about the
\* linked blocks.
Still ==
    /\ UNCHANGED <<linked, candidates, tip>>
    /\ \A a \in linked : /\ Lineage(a)' = Lineage(a)
                         /\ Lineage(a)' \cap failedValid' = Lineage(a) \cap failedValid
                         /\ \A b \in linked : Worse(a, b)' <=> Worse(a, b)

\* Such a step that only moves threads.
LEMMA StillIndex ==
    ASSUME UNCHANGED <<index, linked, candidates, tip, arrival, failedValid>>
    PROVE  Still
  <1>1. \A a : Lineage(a)' = Lineage(a)
    BY DEF index, Lineage, Members
  <1>2. \A a, b : Worse(a, b)' <=> Worse(a, b)
    BY DEF index, Worse, WorseIn, Position
  <1> QED BY <1>1, <1>2 DEF Still

\* A header or a block arrives, and is rejected at most.
LEMMA StillArrives ==
    ASSUME LinkBase, Free, NEW b \in Hash, NEW p \in Block, HeaderOk(b, p), AddToBlockIndex(b, p),
           UNCHANGED <<linked, candidates, tip, arrival>>,
           failedValid' = failedValid \/ (failedValid' = failedValid \cup {b} /\ b \notin linked)
    PROVE  Still
  <1>1. Grown
    BY GroundedGrows DEF LinkBase
  <1>2. \A a \in linked : a \in Block /\ Known(a)
    BY ReachedKnown DEF Reached
  <1>3. \A a \in linked : Lineage(a)' = Lineage(a) /\ Lineage(a) \subseteq linked
    BY <1>1, <1>2, GrownKeeps, NothingQueued DEF LinkBase, Closed
  <1>4. \A a, c \in linked : Worse(a, c)' <=> Worse(a, c)
    BY <1>1, <1>2, WorseKept
  <1> QED BY <1>3, <1>4 DEF Still

\* What such a step keeps, if the threads that invalidate a block go on.
LEMMA StillChosen ==
    ASSUME LinkBase, ~havePruned, Still, TipSound, Anchored,
           \A t \in Thread : pc[t] = "invalidate" => pc'[t] = "invalidate" /\ most'[t] = most[t]
    PROVE  /\ TipSound' /\ Anchored'
           /\ \A c \in linked : IsBestCandidate(c) => IsBestCandidate(c)'
           /\ \A c \in linked : Valid(c) => Valid(c)'
  <1>1. candidates \subseteq linked /\ tip \in linked
    BY DEF LinkBase, NeverAgain
  <1>2. UNCHANGED <<linked, candidates, tip>>
    BY DEF Still
  <1>3. \A c \in linked : (Valid(c) <=> Valid(c)') /\ Lineage(c)' = Lineage(c)
    BY DEF Still, Valid
  <1>4. TipSound'
    <2>1. /\ Lineage(tip)' = Lineage(tip)
          /\ Lineage(tip)' \cap failedValid' = Lineage(tip) \cap failedValid
      BY <1>1, <1>2 DEF Still, Lineage, Members
    <2> QED BY <2>1 DEF TipSound
  <1>5. Anchored'
    <2>1. CASE Invalidates
      BY <2>1 DEF Anchored, Invalidates
    <2>2. ASSUME NEW a \in linked, IsAnchor(a)
          PROVE  IsAnchor(a)'
      BY <1>1, <1>2, <1>3, <2>2 DEF IsAnchor, Still
    <2> QED BY <1>2, <2>1, <2>2 DEF Anchored
  <1>6. \A c \in linked : IsBestCandidate(c) => IsBestCandidate(c)'
    BY <1>1, <1>2 DEF IsBestCandidate, Still
  <1> QED BY <1>3, <1>4, <1>5, <1>6

\* A step of that kind keeps the invariant, if a thread that starts to move the
\* tip aims at the best candidate.
LEMMA MovesChosen ==
    ASSUME LinkBase, ~havePruned, Still, Chosen,
           \A u \in Thread : pc[u] = "invalidate" => pc'[u] = "invalidate" /\ most'[u] = most[u],
           \A u \in Thread : pc'[u] = "step" =>
               \/ pc[u] = "step" /\ most'[u] = most[u]
               \/ most'[u] \in linked /\ IsBestCandidate(most'[u]) /\ Valid(most'[u]),
           IsBestCandidate(tip) \/ \E u \in Thread : Pending(u)'
    PROVE  Chosen'
  <1>1. /\ TipSound' /\ Anchored'
        /\ \A c \in linked : IsBestCandidate(c) => IsBestCandidate(c)'
        /\ \A c \in linked : Valid(c) => Valid(c)'
    BY StillChosen DEF Chosen
  <1>2. Aims'
    <2> SUFFICES ASSUME NEW u \in Thread, pc'[u] = "step"
                 PROVE  (IsBestCandidate(most[u]) /\ Valid(most[u]))'
      BY DEF Aims
    <2>1. most'[u] \in linked /\ IsBestCandidate(most'[u]) /\ Valid(most'[u])
      BY DEF LinkBase, Switching, Chosen, Aims
    <2>2. PICK c \in linked : c = most'[u]
      BY <2>1
    <2>3. IsBestCandidate(c)' /\ Valid(c)'
      BY <1>1, <2>1, <2>2
    <2>4. IsBestCandidate(most[u])'
      BY <2>2, <2>3 DEF IsBestCandidate, Worse, WorseIn
    <2>5. Valid(most[u])'
      BY <2>2, <2>3 DEF Valid, Lineage
    <2> QED BY <2>4, <2>5
  <1>3. Settling'
    <2>1. CASE IsBestCandidate(tip)
      <3>1. tip \in linked /\ tip' = tip
        BY DEF LinkBase, NeverAgain, Still
      <3>2. IsBestCandidate(tip)'
        BY <1>1, <2>1, <3>1 DEF IsBestCandidate, Worse, WorseIn
      <3> QED BY <3>2 DEF Settling
    <2> QED BY <2>1 DEF Settling
  <1> QED BY <1>1, <1>2, <1>3 DEF Chosen

\* Headers, and blocks up to the loop that links them.
LEMMA ChosenArrives ==
    ASSUME LinkBase, ~havePruned, Chosen, NEW b \in Hash, NEW p \in Block,
           \/ AcceptBlockHeader(b, p)
           \/ \E t \in Thread, r \in BOOLEAN : \/ IgnoreBlock(t, b, p, r)
                                               \/ RejectBlock(t, b, p, r)
                                               \/ StoreBlock(t, b, p, r)
    PROVE  Chosen'
  <1>1. /\ Free /\ HeaderOk(b, p) /\ AddToBlockIndex(b, p)
        /\ UNCHANGED <<candidates, tip, arrival, most>>
    BY DEF AcceptBlockHeader, IgnoreBlock, RejectBlock, StoreBlock, Arrives, choice, threads
  <1>2. UNCHANGED linked /\ (\/ failedValid' = failedValid
                             \/ failedValid' = failedValid \cup {b} /\ b \notin linked)
    <2>1. CASE AcceptBlockHeader(b, p)
      BY <2>1 DEF AcceptBlockHeader, status
    <2>2. ASSUME NEW t \in Thread, NEW r \in BOOLEAN, IgnoreBlock(t, b, p, r)
          PROVE  UNCHANGED <<linked, failedValid>>
      BY <2>2 DEF IgnoreBlock, status
    <2>3. ASSUME NEW t \in Thread, NEW r \in BOOLEAN, RejectBlock(t, b, p, r)
          PROVE  UNCHANGED linked /\ failedValid' = failedValid \cup {b} /\ b \notin linked
      BY <2>3 DEF RejectBlock, LinkBase, Bits
    <2>4. ASSUME NEW t \in Thread, NEW r \in BOOLEAN, StoreBlock(t, b, p, r)
          PROVE  UNCHANGED <<linked, failedValid>>
      BY <2>4 DEF StoreBlock, Ignored, LinkBase, Bits
    <2> QED BY <2>1, <2>2, <2>3, <2>4
  <1>3. Still
    BY <1>1, <1>2, StillArrives
  <1>4. \/ UNCHANGED pc
        \/ \E t \in Thread : pc[t] = "idle" /\ (Goto(t, "activate") \/ Goto(t, "link"))
    BY DEF AcceptBlockHeader, IgnoreBlock, RejectBlock, StoreBlock, Arrives, threads
  <1>5. pc \in [Thread -> Label]
    BY DEF LinkBase, Turns
  <1>6. \A u \in Thread : /\ pc[u] = "invalidate" => pc'[u] = "invalidate"
                          /\ pc'[u] = "step" => pc[u] = "step"
    BY <1>4, <1>5 DEF Goto
  <1>7. IsBestCandidate(tip) \/ \E u \in Thread : Pending(u)'
    <2>1. CASE UNCHANGED pc
      BY <1>1, <2>1 DEF Chosen, Settling, Pending
    <2>2. ASSUME NEW t \in Thread, Goto(t, "activate") \/ Goto(t, "link")
          PROVE  Pending(t)'
      BY <1>5, <2>2 DEF Goto, Pending
    <2> QED BY <1>4, <2>1, <2>2
  <1> QED BY <1>1, <1>3, <1>6, <1>7, MovesChosen

\* A thread takes cs_main, finds nothing to do or looks at its loop condition.
LEMMA ChosenTurn ==
    ASSUME LinkBase, ~havePruned, Chosen, NEW t \in Thread,
           Activate(t) \/ NothingToDo(t) \/ Loop(t)
    PROVE  Chosen'
  <1>1. UNCHANGED <<index, linked, candidates, tip, arrival, failedValid>>
    BY DEF Activate, NothingToDo, Loop, status, choice
  <1>2. Still
    BY <1>1, StillIndex
  <1>3. /\ pc \in [Thread -> Label] /\ most \in [Thread -> Block \cup {None}]
        /\ pc[t] \in {"activate", "find", "loop"}
        /\ Goto(t, "find") \/ Goto(t, "idle") \/ Goto(t, "activate")
        /\ \A u \in Thread \ {t} : most'[u] = most[u]
    BY DEF LinkBase, Turns, Activate, NothingToDo, Loop
  <1>4. \A u \in Thread : /\ pc[u] = "invalidate" => pc'[u] = "invalidate" /\ most'[u] = most[u]
                          /\ pc'[u] = "step" => pc[u] = "step" /\ most'[u] = most[u]
    BY <1>3 DEF Goto
  <1>5. IsBestCandidate(tip) \/ \E u \in Thread : Pending(u)'
    <2>1. CASE Activate(t)
      <3>1. pc'[t] = "find"
        BY <1>3, <2>1 DEF Activate, Goto
      <3> QED BY <3>1 DEF Pending
    <2>2. CASE NothingToDo(t)
      <3>1. candidates = {} \/ IsBestCandidate(tip)
        BY <2>2 DEF NothingToDo
      <3>2. Holding(t) /\ pc[t] # "invalidate"
        BY <2>2 DEF NothingToDo, Holding
      <3>3. ~Invalidates
        BY <3>2, Alone DEF LinkBase, Invalidates
      <3> QED BY <3>1, <3>3 DEF Chosen, Anchored, IsAnchor
    <2>3. CASE Loop(t)
      <3>1. CASE most[t] = tip
        <4>1. ~Pending(t)
          BY <2>3, <3>1 DEF Loop, Pending
        <4>2. \A u \in Thread \ {t} : pc'[u] = pc[u] /\ most'[u] = most[u]
          BY <1>3 DEF Goto
        <4>3. \A u \in Thread : Pending(u) => Pending(u)'
          BY <1>1, <4>1, <4>2 DEF Pending
        <4> QED BY <4>3 DEF Chosen, Settling
      <3>2. CASE most[t] # tip
        <4>1. pc'[t] = "activate"
          BY <1>3, <2>3, <3>2 DEF Loop, Goto
        <4> QED BY <4>1 DEF Pending
      <3> QED BY <3>1, <3>2
    <2> QED BY <2>1, <2>2, <2>3
  <1> QED BY <1>2, <1>4, <1>5, MovesChosen

\* FindMostWorkChain has found something to do.
LEMMA ChosenChoose ==
    ASSUME LinkBase, ~havePruned, Chosen, NEW t \in Thread, NEW c \in Block, ChooseCandidate(t, c)
    PROVE  Chosen'
  <1>1. /\ UNCHANGED <<index, linked, candidates, tip, arrival, failedValid>>
        /\ pc[t] = "find" /\ IsBestCandidate(c) /\ Obstacles(c) = {}
        /\ most' = [most EXCEPT ![t] = c] /\ Goto(t, "step")
    BY DEF ChooseCandidate, status, choice
  <1>2. Still
    BY <1>1, StillIndex
  <1>3. pc \in [Thread -> Label] /\ most \in [Thread -> Block \cup {None}]
    BY DEF LinkBase, Turns
  <1>4. pc'[t] = "step" /\ most'[t] = c
        /\ \A u \in Thread \ {t} : pc'[u] = pc[u] /\ most'[u] = most[u]
    BY <1>1, <1>3 DEF Goto
  <1>5. c \in linked
    BY <1>1 DEF IsBestCandidate, LinkBase, NeverAgain
  <1>6. Lineage(tip) \cap failedValid = {}
    <2>1. Holding(t)
      BY <1>1 DEF Holding
    <2>2. \A u \in Thread : pc[u] # "invalidate"
      BY <1>1, <2>1, Alone DEF LinkBase
    <2> QED BY <2>2 DEF Chosen, TipSound
  <1>7. Valid(c)
    BY <1>1, <1>6 DEF Valid, Obstacles, OffChain, chainActive, Failed
  <1>8. IsBestCandidate(most'[t]) /\ Valid(most'[t]) /\ most'[t] \in linked
    BY <1>1, <1>4, <1>5, <1>7
  <1>9. Pending(t)'
    BY <1>4 DEF Pending
  <1> QED BY <1>1, <1>2, <1>4, <1>8, <1>9, MovesChosen

\* The thread that holds cs_main is the only one that moves the tip or
\* invalidates a block, and goes on to do something else.
LEMMA NobodyAims ==
    ASSUME Turns, NEW t \in Thread, Holding(t), NEW l, l \notin {"step", "invalidate"}, Goto(t, l)
    PROVE  \A u \in Thread : pc'[u] \notin {"step", "invalidate"}
  <1>1. pc' = [pc EXCEPT ![t] = l] /\ pc \in [Thread -> Label]
    BY DEF Turns, Goto
  <1> QED BY <1>1, Alone

\* The active chain stays sound where no block of it is invalidated, and neither
\* is one marked.
LEMMA TipSoundKept ==
    ASSUME TipSound, UNCHANGED index, Lineage(tip)' \subseteq Lineage(tip),
           Lineage(tip)' \cap failedValid' \subseteq failedValid,
           \A t \in Thread : pc[t] = "invalidate" => pc'[t] = "invalidate" /\ most'[t] = most[t]
    PROVE  TipSound'
  BY DEF TipSound

\* A block is linked: it is the last one by nSequenceId.
LEMMA ChosenLink ==
    ASSUME LinkBase, ~havePruned, Chosen, NEW t \in Thread, LinkBlock(t)
    PROVE  Chosen'
  <1>0. PICK b : b = Head(queue)
    OBVIOUS
  <1> DEFINE order == Resequenced(arrival, b)
  <1>1. /\ pc[t] = "link"
        /\ linked' = linked \cup {b} /\ arrival' = order
        /\ candidates' = IF WorseIn(order, b, tip) THEN candidates ELSE candidates \cup {b}
        /\ Goto(t, IF queue' = <<>> THEN "activate" ELSE "link")
        /\ UNCHANGED <<index, failedValid, tip, most>>
    BY <1>0 DEF LinkBlock, Resequenced
  <1>2. Holding(t) /\ pc \in [Thread -> Label]
    BY <1>1 DEF Holding, LinkBase, Turns
  <1>3. b \in Block /\ b \in Members(queue)
    BY <1>0, LinkMoves
  <1>4. b \notin linked /\ candidates \subseteq linked /\ tip \in linked /\ Members(arrival) = linked
    BY <1>3 DEF LinkBase, NeverAgain
  <1>5. /\ \A a, c \in linked : Position(order, a) > Position(order, c)
                                   <=> Position(arrival, a) > Position(arrival, c)
        /\ \A a \in linked : Position(order, b) > Position(order, a)
    <2>1. arrival \in Seq(Block) /\ Once(arrival)
      BY DEF LinkBase, Sequenced
    <2>2. /\ \A a, c \in Members(arrival) \ {b} :
                Position(order, a) > Position(order, c)
                    <=> Position(arrival, a) > Position(arrival, c)
          /\ Position(order, b) = Len(order)
          /\ Len(order) \in Nat
          /\ \A a \in Members(arrival) \ {b} : Position(order, a) < Len(order)
      BY <1>3, <2>1, Reordered
    <2>3. Members(arrival) \ {b} = linked
      BY <1>4
    <2>4. order \in Seq(Block) /\ Members(order) = Members(arrival) \cup {b}
      BY <1>3, <2>1, Reordered
    <2> HIDE DEF order
    <2>5. \A a \in linked : Position(order, a) \in 1..Len(order)
      BY <1>4, <2>4, PositionIs
    <2>6. ASSUME NEW a \in linked
          PROVE  Position(order, b) > Position(order, a)
      BY <2>2, <2>3, <2>5
    <2> QED BY <2>2, <2>3, <2>6
  <1> HIDE DEF order
  <1>6. \A a, c \in linked : Worse(a, c)' <=> Worse(a, c)
    BY <1>1, <1>5 DEF Worse, WorseIn, index
  <1>7. \A a \in linked \cup {b} : a \in Block /\ nChainWork[a] \in Nat
    BY <1>3, ReachedKnown DEF LinkBase, Grounded, Heavier, Reached
  <1>8. \A a \in linked : Worse(b, a)' <=> nChainWork[b] <= nChainWork[a]
    BY <1>1, <1>5, <1>7 DEF Worse, WorseIn, index
  <1>9. WorseIn(order, b, tip) <=> nChainWork[b] <= nChainWork[tip]
    BY <1>4, <1>5, <1>7 DEF WorseIn
  <1>10. \A a : Lineage(a)' = Lineage(a) /\ (Valid(a)' <=> Valid(a))
    BY <1>1 DEF index, Lineage, Members, Valid
  <1>11. PICK l \in {"activate", "link"} : Goto(t, l)
    BY <1>1
  <1>12. \A u \in Thread : pc'[u] \notin {"step", "invalidate"} /\ pc[u] \notin {"step", "invalidate"}
    BY <1>1, <1>2, <1>11, NobodyAims, Alone DEF LinkBase
  <1>13. TipSound'
    <2>1. Lineage(tip)' = Lineage(tip)
      BY <1>1 DEF index, Lineage, Members
    <2> QED BY <1>1, <1>12, <2>1, TipSoundKept DEF Chosen
  <1>14. Anchored'
    <2>1. PICK a \in linked : IsAnchor(a)
      BY <1>12 DEF Chosen, Anchored, Invalidates
    <2>2. candidates \subseteq candidates'
      BY <1>1
    <2>3. ~Worse(a, tip) /\ ~Worse(a, tip)'
      BY <1>1, <1>4, <1>6, <2>1 DEF IsAnchor, Worse, WorseIn
    <2>4. nChainWork[a] >= nChainWork[tip]
      BY <1>4, <1>7, <2>3 DEF Worse, WorseIn
    <2>5. ASSUME NEW c \in linked', Valid(c)'
          PROVE  c \in candidates' \/ Worse(c, a)'
      <3>1. CASE c = b
        <4>1. b \in candidates' \/ nChainWork[b] <= nChainWork[tip]
          BY <1>1, <1>9
        <4>2. nChainWork[b] <= nChainWork[tip] => nChainWork[b] <= nChainWork[a]
          BY <1>4, <1>7, <2>4
        <4> QED BY <1>8, <3>1, <4>1, <4>2
      <3>2. CASE c # b
        <4>1. c \in linked /\ Valid(c)
          BY <1>1, <1>10, <2>5, <3>2
        <4> QED BY <1>6, <2>1, <2>2, <4>1 DEF IsAnchor
      <3> QED BY <3>1, <3>2
    <2>6. IsAnchor(a)'
      BY <1>1, <1>10, <2>1, <2>2, <2>3, <2>5 DEF IsAnchor
    <2> QED BY <1>1, <2>6 DEF Anchored
  <1>15. Aims'
    BY <1>12 DEF Aims
  <1>16. Settling'
    <2>1. pc'[t] = l
      BY <1>2, <1>11 DEF Goto
    <2> QED BY <2>1 DEF Settling, Pending
  <1> QED BY <1>13, <1>14, <1>15, <1>16 DEF Chosen

\* FindMostWorkChain discards a candidate: what it discards has a failed
\* ancestor, the anchor has none.
LEMMA ChosenDiscard ==
    ASSUME LinkBase, ~havePruned, Caused, Chosen, NEW t \in Thread, NEW c \in Block,
           NEW x \in Block, DiscardCandidate(t, c, x)
    PROVE  Chosen'
  <1>1. /\ UNCHANGED <<index, linked, arrival, tip, failedValid, pc, most>>
        /\ pc[t] = "find" /\ c \in candidates /\ IsLastObstacle(c, x)
        /\ candidates' = candidates \ (Members(Above(c, x)) \cup {x})
    BY DEF DiscardCandidate, IsBestCandidate, threads
  <1>2. Holding(t) /\ Tree
    BY <1>1 DEF Holding, LinkBase, Grounded
  <1>3. \A u \in Thread : pc[u] \notin {"step", "invalidate"}
    BY <1>1, <1>2, Alone DEF LinkBase
  <1>4. candidates \subseteq linked /\ tip \in linked /\ Reached = linked /\ linked \subseteq data
    BY <1>2, <1>1, NothingQueued DEF LinkBase, NeverAgain, Bits
  <1>5. /\ x \in Lineage(c) /\ x \in linked
        /\ \A a \in Members(Above(c, x)) : a \in linked /\ x \in Lineage(a) /\ a \in Block
    BY <1>1, <1>4, AboveSound, ReachedKnown
  <1>6. Failed(x)
    BY <1>1, <1>4, <1>5 DEF IsLastObstacle, Obstacles
  <1>7. Lineage(x) \cap failedValid # {}
    BY <1>6 DEF Caused
  <1>8. \A a \in Members(Above(c, x)) \cup {x} : ~Valid(a)
    BY <1>5, <1>7, <1>2, LineageNested DEF Valid
  <1>9. \A a : Lineage(a)' = Lineage(a) /\ (Valid(a)' <=> Valid(a))
    BY <1>1 DEF index, Lineage, Members, Valid
  <1>10. \A a, b : Worse(a, b)' <=> Worse(a, b)
    BY <1>1 DEF index, Worse, WorseIn, Position
  <1>11. TipSound'
    <2>1. Lineage(tip)' = Lineage(tip)
      BY <1>1 DEF index, Lineage, Members
    <2> QED BY <1>1, <2>1, TipSoundKept DEF Chosen
  <1>12. Anchored'
    <2>1. PICK a \in linked : IsAnchor(a)
      BY <1>3 DEF Chosen, Anchored, Invalidates
    <2>2. ~Worse(a, tip)'
      BY <1>1, <1>10, <2>1 DEF IsAnchor, Worse, WorseIn
    <2>3. IsAnchor(a)'
      BY <1>1, <1>8, <1>9, <1>10, <2>1, <2>2 DEF IsAnchor
    <2> QED BY <1>1, <2>3 DEF Anchored
  <1>13. Aims'
    BY <1>1, <1>3 DEF Aims
  <1>14. Settling'
    BY <1>1 DEF Settling, Pending
  <1> QED BY <1>11, <1>12, <1>13, <1>14 DEF Chosen

\* The tip is disconnected: the candidates have more work than its parent.
LEMMA ChosenDisconnect ==
    ASSUME LinkBase, ~havePruned, Chosen, NEW t \in Thread, DisconnectTip(t)
    PROVE  Chosen'
  <1>1. /\ UNCHANGED <<index, linked, arrival, candidates, failedValid, pc, most>>
        /\ pc[t] = "step" /\ tip \notin Lineage(most[t]) /\ tip' = Prev(tip)
    BY DEF DisconnectTip, status, threads
  <1>2. Holding(t)
    BY <1>1 DEF Holding
  <1>3. \A u \in Thread \ {t} : pc[u] \notin {"step", "invalidate"}
    BY <1>2, Alone DEF LinkBase
  <1>4. candidates \subseteq linked /\ tip \in linked /\ tip \in Block /\ Known(tip)
    BY ReachedKnown DEF LinkBase, NeverAgain
  <1>5. most[t] \in linked /\ most[t] \in Block /\ Known(most[t])
    BY <1>1, ReachedKnown DEF LinkBase, Switching, Reached
  <1>6. tip # Genesis
    BY <1>1, <1>5, GenesisLineage DEF LinkBase
  <1>7. /\ Prev(tip) \in Block /\ nChainWork[Prev(tip)] < nChainWork[tip]
        /\ Lineage(Prev(tip)) \subseteq Lineage(tip)
    BY <1>4, <1>6, LineagePrev DEF LinkBase
  <1>8. \A a : Lineage(a)' = Lineage(a) /\ (Valid(a)' <=> Valid(a))
    BY <1>1 DEF index, Lineage, Members, Valid
  <1>9. \A a, b : Worse(a, b)' <=> Worse(a, b)
    BY <1>1 DEF index, Worse, WorseIn, Position
  <1>10. TipSound'
    <2>1. Lineage(tip)' \subseteq Lineage(tip)
      BY <1>1, <1>7 DEF index, Lineage, Members
    <2> QED BY <1>1, <2>1, TipSoundKept DEF Chosen
  <1>11. Anchored'
    <2>1. PICK a \in linked : IsAnchor(a)
      BY <1>1, <1>3 DEF Chosen, Anchored, Invalidates
    <2>2. /\ nChainWork[a] \in Nat /\ nChainWork[tip] \in Nat /\ nChainWork[tip'] \in Nat
          /\ nChainWork[a] >= nChainWork[tip]
      BY <1>1, <1>4, <1>7, <2>1, ReachedKnown DEF LinkBase, Grounded, Heavier, Tips, IsAnchor
    <2>3. ~Worse(a, tip)'
      BY <1>1, <1>7, <2>2 DEF Worse, WorseIn, index
    <2>4. IsAnchor(a)'
      BY <1>1, <1>8, <1>9, <2>1, <2>3 DEF IsAnchor
    <2> QED BY <1>1, <2>4 DEF Anchored
  <1>12. Aims'
    <2>1. IsBestCandidate(most[t])' /\ Valid(most[t])'
      <3>1. IsBestCandidate(most[t]) /\ Valid(most[t])
        BY <1>1 DEF Chosen, Aims
      <3>2. most' = most /\ candidates' = candidates
        BY <1>1
      <3>3. IsBestCandidate(most[t])'
        BY <1>9, <3>1, <3>2 DEF IsBestCandidate
      <3> QED BY <1>8, <3>1, <3>2, <3>3
    <2> QED BY <1>1, <1>3, <2>1 DEF Aims
  <1>13. Settling'
    BY <1>1 DEF Settling, Pending
  <1> QED BY <1>10, <1>11, <1>12, <1>13 DEF Chosen

\* A block is connected.  If it is as good as the anchor it is the new one.
LEMMA ChosenConnect ==
    ASSUME LinkBase, ~havePruned, Chosen, NEW t \in Thread, ConnectTip(t)
    PROVE  Chosen'
  <1>1. PICK b, m : b = NextBlock(t) /\ m = most[t]
    OBVIOUS
  <1>2. /\ UNCHANGED <<index, linked, failedValid, arrival, most>>
        /\ pc[t] = "step" /\ tip \in Lineage(m) /\ tip' = b /\ b \notin BadConnect
        /\ candidates' = {c \in candidates : ~Worse(c, b)}
        /\ Goto(t, "loop") \/ (b # m /\ UNCHANGED pc)
    BY <1>1 DEF ConnectTip, PruneBlockIndexCandidates, Release
  <1>3. Holding(t) /\ pc \in [Thread -> Label]
    BY <1>2 DEF Holding, LinkBase, Turns
  <1>4. \A u \in Thread \ {t} : pc[u] \notin {"step", "invalidate"} /\ pc'[u] = pc[u]
    BY <1>2, <1>3, Alone DEF LinkBase, Goto
  <1>5. candidates \subseteq linked /\ tip \in linked
    BY DEF LinkBase, NeverAgain
  <1>6. /\ m \in linked /\ IsBestCandidate(m) /\ Valid(m)
        /\ m \in Block
    BY <1>1, <1>2, ReachedKnown DEF LinkBase, Switching, Chosen, Aims, Reached
  <1>7. /\ b \in Block /\ b \in linked /\ b \in Lineage(m)
        /\ Lineage(b) = Lineage(tip) \cup {b}
        /\ b # m => nChainWork[b] < nChainWork[m]
    BY <1>1, <1>2, NextOnWay
  <1>8. Valid(b)
    BY <1>6, <1>7, LineageNested DEF LinkBase, Grounded, Valid
  <1>9. Lineage(b) \cap BadConnect = {}
    BY <1>2, <1>7 DEF Chosen, TipSound
  <1>10. \A a : Lineage(a)' = Lineage(a) /\ (Valid(a)' <=> Valid(a))
    BY <1>2 DEF index, Lineage, Members, Valid
  <1>11. \A a, c : Worse(a, c)' <=> Worse(a, c)
    BY <1>2 DEF index, Worse, WorseIn, Position
  <1>12. TipSound'
    <2>1. Lineage(tip)' = Lineage(b)
      BY <1>2 DEF index, Lineage, Members
    <2> QED BY <1>2, <1>8, <1>9, <2>1 DEF TipSound, Valid
  <1>13. Anchored'
    <2>1. PICK a \in linked : IsAnchor(a)
      BY <1>2, <1>4 DEF Chosen, Anchored, Invalidates
    <2>2. CASE Worse(b, a)
      <3>1. a \in candidates' /\ ~Worse(a, b)
        BY <1>2, <1>7, <2>1, <2>2, Ordered DEF IsAnchor
      <3>2. ~Worse(a, tip)'
        BY <1>2, <1>11, <3>1 DEF Worse, WorseIn
      <3>3. ASSUME NEW c \in linked, Valid(c)
            PROVE  c \in candidates' \/ Worse(c, a)
        BY <1>2, <1>5, <1>7, <2>1, <2>2, <3>3, Ordered DEF IsAnchor
      <3>4. IsAnchor(a)'
        BY <1>2, <1>10, <1>11, <2>1, <3>1, <3>2, <3>3 DEF IsAnchor
      <3> QED BY <1>2, <3>4 DEF Anchored
    <2>3. CASE ~Worse(b, a)
      <3>1. b \in candidates /\ ~Worse(b, b)
        BY <1>7, <1>8, <2>1, <2>3, Ordered DEF IsAnchor
      <3>2. b \in candidates'
        BY <1>2, <3>1
      <3>3. ~Worse(b, tip)'
        BY <1>2, <1>11, <3>1 DEF Worse, WorseIn
      <3>4. ASSUME NEW c \in linked, Valid(c)
            PROVE  c \in candidates' \/ Worse(c, b)
        <4>1. c \in candidates \/ Worse(c, a)
          BY <2>1, <3>4 DEF IsAnchor
        <4>2. Worse(c, a) => Worse(c, b)
          BY <1>7, <2>1, <2>3, Ordered
        <4> QED BY <1>2, <4>1, <4>2
      <3>5. IsAnchor(b)'
        BY <1>2, <1>7, <1>8, <1>9, <1>10, <1>11, <3>2, <3>3, <3>4 DEF IsAnchor
      <3> QED BY <1>2, <1>7, <3>5 DEF Anchored
    <2> QED BY <2>2, <2>3
  <1>14. /\ m \in candidates' /\ \A d \in candidates' \ {m} : Worse(d, m)'
    <2>1. ~Worse(m, b)
      <3>1. nChainWork[m] \in Nat /\ nChainWork[b] \in Nat
        BY <1>6, <1>7 DEF LinkBase, Grounded, Heavier
      <3> QED BY <1>6, <1>7, <3>1, Ordered DEF Worse, WorseIn
    <2> QED BY <1>2, <1>6, <1>11, <2>1 DEF IsBestCandidate
  <1>15. most'[t] = m
    BY <1>1, <1>2
  <1>16. Aims'
    <2>1. IsBestCandidate(most[t])'
      BY <1>14, <1>15 DEF IsBestCandidate, Worse, WorseIn
    <2>2. Valid(most[t])'
      BY <1>6, <1>10, <1>15 DEF Valid, Lineage
    <2> QED BY <1>4, <2>1, <2>2 DEF Aims
  <1>17. Settling'
    <2>1. CASE m = b
      <3>1. IsBestCandidate(tip)'
        BY <1>2, <1>14, <2>1 DEF IsBestCandidate, Worse, WorseIn
      <3> QED BY <3>1 DEF Settling
    <2>2. CASE m # b
      <3>1. pc'[t] = "step" \/ (pc'[t] = "loop" /\ most'[t] # tip')
        BY <1>2, <1>3, <1>15, <2>2 DEF Goto
      <3> QED BY <3>1 DEF Settling, Pending
    <2> QED BY <2>1, <2>2
  <1> QED BY <1>12, <1>13, <1>16, <1>17 DEF Chosen

\* ConnectBlock finds a block invalid: it is no ancestor of the anchor.
LEMMA ChosenInvalidFound ==
    ASSUME LinkBase, ~havePruned, Chosen, NEW t \in Thread, InvalidBlockFound(t)
    PROVE  Chosen'
  <1>1. PICK b : b = NextBlock(t)
    OBVIOUS
  <1>2. /\ UNCHANGED <<index, linked, arrival, tip, most>>
        /\ pc[t] = "step" /\ tip \in Lineage(most[t]) /\ b \in BadConnect
        /\ failedValid' = failedValid \cup {b} /\ candidates' = candidates \ {b}
        /\ Goto(t, "loop")
    BY <1>1 DEF InvalidBlockFound, Release
  <1>3. Holding(t) /\ pc \in [Thread -> Label]
    BY <1>2 DEF Holding, LinkBase, Turns
  <1>4. \A u \in Thread : pc'[u] \notin {"step", "invalidate"} /\ pc[u] # "invalidate"
    BY <1>2, <1>3, NobodyAims, Alone DEF LinkBase
  <1>5. b \in Block /\ Known(b) /\ b \in Lineage(b) /\ nChainWork[tip] < nChainWork[b]
    BY <1>1, <1>2, NextOnWay, InLineage DEF LinkBase, Grounded
  <1>6. \A a : Lineage(a)' = Lineage(a)
    BY <1>2 DEF index, Lineage, Members
  <1>7. \A a, c : Worse(a, c)' <=> Worse(a, c)
    BY <1>2 DEF index, Worse, WorseIn, Position
  <1>8. \A a : b \notin Lineage(a) => (Valid(a)' <=> Valid(a))
    BY <1>2, <1>6 DEF Valid
  <1>9. \A a : Valid(a)' => Valid(a) /\ a # b
    BY <1>2, <1>5, <1>6 DEF Valid
  <1>10. TipSound'
    <2>1. Lineage(tip)' = Lineage(tip)
      BY <1>2 DEF index, Lineage, Members
    <2>2. b \notin Lineage(tip)
      BY <1>2 DEF Chosen, TipSound
    <2> QED BY <1>2, <1>4, <2>1, <2>2, TipSoundKept DEF Chosen
  <1>11. Anchored'
    <2>1. PICK a \in linked : IsAnchor(a)
      BY <1>4 DEF Chosen, Anchored, Invalidates
    <2>2. b \notin Lineage(a) /\ Valid(a)'
      BY <1>2, <1>8, <2>1 DEF IsAnchor
    <2>3. ~Worse(a, tip)'
      BY <1>2, <1>7, <2>1 DEF IsAnchor, Worse, WorseIn
    <2>4. IsAnchor(a)'
      BY <1>2, <1>6, <1>7, <1>9, <2>1, <2>2, <2>3 DEF IsAnchor
    <2> QED BY <1>2, <2>4 DEF Anchored
  <1>12. Aims'
    BY <1>4 DEF Aims
  <1>13. Settling'
    <2>1. pc'[t] = "loop" /\ most'[t] # tip'
      BY <1>2, <1>3 DEF Goto, LinkBase, Switching
    <2> QED BY <2>1 DEF Settling, Pending
  <1> QED BY <1>10, <1>11, <1>12, <1>13 DEF Chosen

\* invalidateblock marks a block, which may be on the active chain.
LEMMA ChosenInvalidate ==
    ASSUME LinkBase, ~havePruned, Chosen, NEW t \in Thread, NEW b \in Block, InvalidateBlock(t, b)
    PROVE  Chosen'
  <1>1. /\ UNCHANGED <<index, tip>> /\ Free
        /\ failedValid' = failedValid \cup {b}
        /\ most' = [most EXCEPT ![t] = b] /\ Goto(t, "invalidate")
    BY DEF InvalidateBlock, Command
  <1>2. pc \in [Thread -> Label] /\ most \in [Thread -> Block \cup {None}]
    BY DEF LinkBase, Turns
  <1>3. /\ pc'[t] = "invalidate" /\ most'[t] = b
        /\ \A u \in Thread : pc[u] \notin {"step", "invalidate"}
        /\ \A u \in Thread : pc'[u] # "step"
    BY <1>1, <1>2 DEF Goto, Free, Holding
  <1>4. TipSound'
    <2>1. Lineage(tip)' = Lineage(tip)
      BY <1>1 DEF index, Lineage, Members
    <2>2. Lineage(tip) \cap failedValid = {} /\ Lineage(tip) \cap BadConnect = {}
      BY <1>3 DEF Chosen, TipSound
    <2> QED BY <1>1, <1>3, <2>1, <2>2 DEF TipSound
  <1>5. Aims' /\ Anchored' /\ Settling'
    BY <1>3 DEF Aims, Anchored, Invalidates, Settling, Pending
  <1> QED BY <1>4, <1>5 DEF Chosen

\* invalidateblock disconnects the tip.
LEMMA ChosenInvalidateTip ==
    ASSUME LinkBase, ~havePruned, Chosen, NEW t \in Thread, InvalidateTip(t), ~aborted'
    PROVE  Chosen'
  <1>1. /\ UNCHANGED <<index, failedValid, pc, most>>
        /\ pc[t] = "invalidate" /\ most[t] \in Lineage(tip) /\ tip' = Prev(tip)
    BY DEF InvalidateTip, chainActive
  <1>2. Holding(t)
    BY <1>1 DEF Holding
  <1>3. \A u \in Thread : pc[u] # "step"
    BY <1>1, <1>2, Alone DEF LinkBase
  <1>4. tip \in Block /\ Known(tip)
    BY ReachedKnown
  <1>5. tip # Genesis
    <2>1. most[t] \in Block \ {Genesis}
      BY <1>1 DEF LinkBase, Switching
    <2>2. Lineage(Genesis) = {Genesis}
      BY DEF LinkBase, Grounded, Rooted, Lineage, Members
    <2> QED BY <1>1, <2>1, <2>2
  <1>6. Lineage(Prev(tip)) \subseteq Lineage(tip)
    BY <1>4, <1>5, LineagePrev DEF LinkBase
  <1>7. TipSound'
    <2>1. Lineage(tip)' \subseteq Lineage(tip)
      BY <1>1, <1>6 DEF index, Lineage, Members
    <2> QED BY <1>1, <2>1, TipSoundKept DEF Chosen
  <1>8. Aims' /\ Anchored' /\ Settling'
    BY <1>1, <1>3 DEF Aims, Anchored, Invalidates, Settling, Pending
  <1> QED BY <1>7, <1>8 DEF Chosen

\* invalidateblock puts every valid block that is not worse than the tip back into
\* setBlockIndexCandidates: the tip is the anchor.
LEMMA ChosenInvalidateEnd ==
    ASSUME LinkBase, ~havePruned, Caused, Chosen, NEW t \in Thread, InvalidateEnd(t)
    PROVE  Chosen'
  <1>1. /\ UNCHANGED <<index, linked, arrival, tip, failedValid>>
        /\ pc[t] = "invalidate" /\ most[t] \notin Lineage(tip)
        /\ candidates' = candidates \cup Reinstated /\ Goto(t, "activate")
    BY DEF InvalidateEnd, status, chainActive
  <1>2. Holding(t) /\ pc \in [Thread -> Label]
    BY <1>1 DEF Holding, LinkBase, Turns
  <1>3. \A u \in Thread : /\ pc'[u] \notin {"step", "invalidate"}
                          /\ pc[u] = "invalidate" => u = t
    BY <1>1, <1>2, NobodyAims, Alone DEF LinkBase
  <1>4. Valid(tip) /\ Lineage(tip) \cap BadConnect = {}
    BY <1>1, <1>3 DEF Chosen, TipSound, Valid
  <1>5. tip \in linked /\ \A a \in linked : a \in Block /\ (Valid(a) => ~Failed(a))
    BY ReachedKnown DEF LinkBase, NeverAgain, Reached, Caused, Valid
  <1>6. \A a \in linked : Valid(a) => a \in candidates' \/ Worse(a, tip)
    BY <1>1, <1>5 DEF Reinstated
  <1>7. PICK a \in linked : a = tip
    BY <1>5
  <1>8. ~Worse(a, a) /\ a \in candidates'
    BY <1>4, <1>6, <1>7, Ordered
  <1>9. \A x : Lineage(x)' = Lineage(x) /\ (Valid(x)' <=> Valid(x))
    BY <1>1 DEF index, Lineage, Members, Valid
  <1>10. \A x, y : Worse(x, y)' <=> Worse(x, y)
    BY <1>1 DEF index, Worse, WorseIn, Position
  <1>11. TipSound'
    <2>1. Lineage(tip)' = Lineage(tip)
      BY <1>1 DEF index, Lineage, Members
    <2> QED BY <1>1, <1>4, <2>1 DEF TipSound, Valid
  <1>12. Anchored'
    <2>1. ~Worse(a, tip)'
      BY <1>1, <1>7, <1>8, <1>10 DEF Worse, WorseIn
    <2>2. IsAnchor(a)'
      BY <1>1, <1>4, <1>6, <1>7, <1>8, <1>9, <1>10, <2>1 DEF IsAnchor
    <2> QED BY <1>1, <2>2 DEF Anchored
  <1>13. Aims'
    BY <1>3 DEF Aims
  <1>14. Settling'
    <2>1. pc'[t] = "activate"
      BY <1>1, <1>2 DEF Goto
    <2> QED BY <2>1 DEF Settling, Pending
  <1> QED BY <1>11, <1>12, <1>13, <1>14 DEF Chosen

\* So does LoadBlockIndexDB.
LEMMA ChosenRestart ==
    ASSUME LinkBase, ~havePruned, Caused, Chosen, NEW t \in Thread, Restart(t)
    PROVE  Chosen'
  <1>1. /\ UNCHANGED <<index, processed, tip, failedValid>>
        /\ Quiet /\ pc[t] = "idle" /\ Goto(t, "activate") /\ linked' = Linkable
    BY DEF Restart, Command
  <1>2. PICK order \in addresses(processed), child \in SUBSET failedChild :
           arrival' = Filter(order, Linkable) /\ candidates' = LoadedCandidates(order, child)
    BY DEF Restart
  <1>3. Free /\ pc \in [Thread -> Label]
    BY <1>1 DEF Quiet, Free, Holding, LinkBase, Turns
  <1>4. /\ \A u \in Thread : pc[u] = "idle" /\ pc'[u] \in {"idle", "activate"}
        /\ pc'[t] = "activate"
    BY <1>1, <1>3 DEF Quiet, Goto
  <1>5. order \in Seq(Block) /\ Members(order) = processed /\ Once(order)
    <2>1. order \in Seq(processed) /\ Members(order) = processed /\ Once(order)
      BY AddressesOnce DEF LinkBase, Bits
    <2>2. processed \subseteq Block
      BY DEF LinkBase, Bits
    <2> QED BY <2>1, <2>2
  <1>6. Valid(tip) /\ Lineage(tip) \cap BadConnect = {}
    BY <1>4 DEF Chosen, TipSound, Valid
  <1>7. tip \in Linkable /\ Linkable \subseteq processed
    <2>1. Reached = linked
      BY <1>3, NothingQueued DEF LinkBase
    <2> QED BY <2>1 DEF LinkBase, NeverAgain, Closed, Bits, Linkable
  <1>8. \A a \in Linkable : Valid(a) => a \notin failedValid \cup child
    BY <1>7 DEF Caused, Valid, Failed, LinkBase, Bits
  <1>9. \A a \in Linkable : Valid(a) => a \in candidates' \/ WorseIn(order, a, tip)
    BY <1>2, <1>8 DEF LoadedCandidates
  <1>10. ASSUME NEW a \in Linkable
         PROVE  WorseIn(order, a, tip) <=> WorseIn(Filter(order, Linkable), a, tip)
    <2>1. a \in Members(order) \cap Linkable /\ tip \in Members(order) \cap Linkable
      BY <1>5, <1>7
    <2>2. Position(Filter(order, Linkable), a) > Position(Filter(order, Linkable), tip)
              <=> Position(order, a) > Position(order, tip)
      BY <1>5, <2>1, FilterOrder
    <2> QED BY <2>2 DEF WorseIn
  <1>11. ~WorseIn(order, tip, tip)
    <2>1. Position(order, tip) \in 1..Len(order) /\ Len(order) \in Nat
      BY <1>5, <1>7, PositionIs
    <2>2. nChainWork[tip] \in Nat
      BY ReachedKnown DEF LinkBase, Grounded, Heavier
    <2> QED BY <2>1, <2>2 DEF WorseIn
  <1>12. PICK a \in Linkable : a = tip
    BY <1>7
  <1>13. \A x : Worse(x, a)' <=> WorseIn(Filter(order, Linkable), x, tip)
    BY <1>1, <1>2, <1>12 DEF Worse, WorseIn, Position, index
  <1>14. a \in candidates' /\ ~Worse(a, a)'
    BY <1>6, <1>7, <1>9, <1>10, <1>11, <1>12, <1>13
  <1>15. \A x : Lineage(x)' = Lineage(x) /\ (Valid(x)' <=> Valid(x))
    BY <1>1 DEF index, Lineage, Members, Valid
  <1>16. TipSound'
    <2>1. Lineage(tip)' = Lineage(tip)
      BY <1>1 DEF index, Lineage, Members
    <2> QED BY <1>1, <1>6, <2>1 DEF TipSound, Valid
  <1>17. Anchored'
    <2>1. ~Worse(a, tip)'
      BY <1>1, <1>12, <1>14 DEF Worse, WorseIn
    <2>2. \A x \in linked' : Valid(x)' => x \in candidates' \/ Worse(x, a)'
      BY <1>1, <1>9, <1>10, <1>13, <1>15
    <2>3. IsAnchor(a)'
      BY <1>1, <1>6, <1>12, <1>14, <1>15, <2>1, <2>2 DEF IsAnchor
    <2> QED BY <1>1, <2>3 DEF Anchored
  <1>18. Aims' /\ Settling'
    BY <1>4 DEF Aims, Settling, Pending
  <1> QED BY <1>16, <1>17, <1>18 DEF Chosen

\* An aborted node stays so, and nothing is pruned unless the node prunes.
LEMMA FlagsStay ==
    ASSUME ~Prunes, [Next]_vars
    PROVE  (aborted => aborted') /\ (~havePruned => ~havePruned')
  <1>1. ASSUME NEW t \in Thread, ProcessNewBlock(t) \/ Activate(t)
        PROVE  UNCHANGED flags
    BY <1>1 DEF ProcessNewBlock, IgnoreBlock, RejectBlock, StoreBlock, Activate
  <1>2. ASSUME NEW t \in Thread, LinkBlock(t) \/ FindMostWorkChain(t) \/ Loop(t) \/ InvalidateEnd(t)
        PROVE  UNCHANGED flags
    BY <1>2 DEF LinkBlock, FindMostWorkChain, DiscardCandidate, ChooseCandidate, NothingToDo, Loop,
                InvalidateEnd
  <1>3. ASSUME NEW t \in Thread, ActivateBestChainStep(t) \/ InvalidateTip(t)
        PROVE  UNCHANGED havePruned /\ (aborted => aborted')
    BY <1>3 DEF ActivateBestChainStep, DisconnectTip, StepFails, ConnectTip,
                InvalidBlockFound, InvalidateTip, flags
  <1>4. ASSUME NEW t \in Thread, NEW b \in Block, InvalidateBlock(t, b) \/ ReconsiderBlock(t, b)
        PROVE  UNCHANGED flags
    BY <1>4 DEF InvalidateBlock, ReconsiderBlock
  <1>5. ASSUME NEW t \in Thread, Restart(t)
        PROVE  UNCHANGED flags
    BY <1>5 DEF Restart
  <1>6. \A b \in Block : ~PruneOneBlockFile(b)
    BY DEF PruneOneBlockFile
  <1>7. ASSUME NEW b \in Hash, NEW p \in Block, AcceptBlockHeader(b, p)
        PROVE  UNCHANGED flags
    BY <1>7 DEF AcceptBlockHeader
  <1>8. CASE UNCHANGED vars
    BY <1>8 DEF vars, flags
  <1>9. UNCHANGED flags => UNCHANGED <<havePruned, aborted>>
    BY DEF flags
  <1> QED BY <1>1, <1>2, <1>3, <1>4, <1>5, <1>6, <1>7, <1>8, <1>9 DEF Next, Proceed

\* A step that changes nothing.
LEMMA ChosenStutter ==
    ASSUME LinkBase, ~havePruned, Chosen, UNCHANGED vars
    PROVE  Chosen'
  <1>1. UNCHANGED <<index, linked, candidates, tip, arrival, failedValid, pc, most>>
    BY DEF vars, status, choice, threads
  <1>2. Still
    BY <1>1, StillIndex
  <1>3. IsBestCandidate(tip) \/ \E u \in Thread : Pending(u)'
    BY <1>1 DEF Chosen, Settling, Pending
  <1> QED BY <1>1, <1>2, <1>3, MovesChosen

\* Every step keeps the invariant.
LEMMA ActStep ==
    ASSUME ~Prunes, ActInv, [Next]_vars
    PROVE  ActInv'
  <1>1. LinkInv /\ LinkInv' /\ LinkBase /\ ~havePruned /\ ~havePruned'
    BY LinkStep, FlagsStay DEF ActInv, LinkInv
  <1>2. ASSUME ~Reconsidered', ~aborted'
        PROVE  Chosen'
    <2>1. ~Reconsidered /\ ~aborted
      BY <1>1, <1>2, Remembered, FlagsStay DEF LinkBase
    <2>2. Chosen /\ Caused
      BY <2>1 DEF ActInv, LinkInv, FailedInv
    <2>3. ASSUME NEW b \in Hash, NEW p \in Block, AcceptBlockHeader(b, p)
          PROVE  Chosen'
      BY <1>1, <2>2, <2>3, ChosenArrives
    <2>4. ASSUME NEW t \in Thread, ProcessNewBlock(t)
          PROVE  Chosen'
      BY <1>1, <2>2, <2>4, ChosenArrives DEF ProcessNewBlock
    <2>5. ASSUME NEW t \in Thread, Activate(t) \/ NothingToDo(t) \/ Loop(t)
          PROVE  Chosen'
      BY <1>1, <2>2, <2>5, ChosenTurn
    <2>6. ASSUME NEW t \in Thread, LinkBlock(t)
          PROVE  Chosen'
      BY <1>1, <2>2, <2>6, ChosenLink
    <2>7. ASSUME NEW t \in Thread, NEW c \in Block, NEW x \in Block, DiscardCandidate(t, c, x)
          PROVE  Chosen'
      BY <1>1, <2>2, <2>7, ChosenDiscard
    <2>8. ASSUME NEW t \in Thread, NEW c \in Block, ChooseCandidate(t, c)
          PROVE  Chosen'
      BY <1>1, <2>2, <2>8, ChosenChoose
    <2>9. ASSUME NEW t \in Thread, ActivateBestChainStep(t)
          PROVE  Chosen'
      <3>1. ~StepFails(t)
        BY <1>2 DEF StepFails
      <3> QED BY <1>1, <2>2, <2>9, <3>1, ChosenDisconnect, ChosenConnect, ChosenInvalidFound
              DEF ActivateBestChainStep
    <2>10. ASSUME NEW t \in Thread, InvalidateTip(t) \/ InvalidateEnd(t)
           PROVE  Chosen'
      BY <1>1, <1>2, <2>2, <2>10, ChosenInvalidateTip, ChosenInvalidateEnd
    <2>11. ASSUME NEW t \in Thread, NEW b \in Block, InvalidateBlock(t, b) \/ ReconsiderBlock(t, b)
           PROVE  Chosen'
      BY <1>1, <1>2, <2>2, <2>11, ChosenInvalidate, Recorded DEF LinkBase
    <2>12. ASSUME NEW t \in Thread, Restart(t)
           PROVE  Chosen'
      BY <1>1, <2>2, <2>12, ChosenRestart
    <2>13. \A b \in Block : ~PruneOneBlockFile(b)
      BY DEF PruneOneBlockFile
    <2>14. CASE UNCHANGED vars
      BY <1>1, <2>2, <2>14, ChosenStutter
    <2> QED BY <2>3, <2>4, <2>5, <2>6, <2>7, <2>8, <2>9, <2>10, <2>11, <2>12, <2>13, <2>14
            DEF Next, Proceed, FindMostWorkChain
  <1> QED BY <1>1, <1>2 DEF ActInv

\* The genesis block is the tip, the only candidate and the anchor.
LEMMA ActInit == Init => ActInv
  <1> SUFFICES ASSUME Init
               PROVE  ActInv
    OBVIOUS
  <1>1. LinkInv /\ ~havePruned /\ LinkBase
    BY LinkInit DEF Init, LinkInv
  <1>2. /\ linked = {Genesis} /\ candidates = {Genesis} /\ tip = Genesis /\ failedValid = {}
        /\ \A t \in Thread : pc[t] = "idle"
    BY DEF Init
  <1>3. Lineage(Genesis) = {Genesis}
    BY <1>1 DEF LinkBase, Grounded, Rooted, Lineage, Members
  <1>4. TipSound
    BY <1>2, <1>3, BadAssumption, BlockAssumption DEF TipSound
  <1>5. IsAnchor(Genesis)
    BY <1>1, <1>2, <1>3, BadAssumption, BlockAssumption, Ordered DEF IsAnchor, Valid
  <1>6. Aims /\ Anchored /\ Settling
    BY <1>2, <1>5 DEF Aims, Anchored, Settling, IsBestCandidate
  <1> QED BY <1>1, <1>4, <1>6 DEF ActInv, Chosen

\* When all calls have returned the tip is the anchor, so every valid block that is
\* not worse is a candidate.
LEMMA TipAnchored ==
    ASSUME ActInv, Quiet, ~aborted, ~Reconsidered
    PROVE  /\ IsBestCandidate(tip) /\ tip \in linked
           /\ \A b \in linked : Valid(b) => b \in candidates \/ Worse(b, tip)
  <1>1. Chosen /\ LinkBase /\ candidates \subseteq linked /\ tip \in linked
    BY DEF ActInv, LinkInv, LinkBase, NeverAgain
  <1>2. IsBestCandidate(tip)
    BY <1>1 DEF Chosen, Settling, Pending, Quiet
  <1>3. PICK a \in linked : IsAnchor(a)
    BY <1>1 DEF Chosen, Anchored, Invalidates, Quiet
  <1>4. a = tip
    BY <1>2, <1>3 DEF IsBestCandidate, IsAnchor
  <1> QED BY <1>1, <1>2, <1>3, <1>4 DEF IsAnchor

\* When ActivateBestChain has returned in every thread, no block it could switch
\* to is better than the tip: "The result is either failure or an activated best
\* chain" (src/src/main.cpp:2915).  For any number of blocks and threads, any
\* order of arrival, invalid blocks and any calls of invalidateblock and
\* restarts, where nothing is pruned.
THEOREM BestActive ==
    ASSUME ~Prunes
    PROVE  Spec => []BestChain
  <1>1. ActInv => BestChain
    <2> SUFFICES ASSUME ActInv, Quiet, ~aborted, ~Reconsidered, NEW b \in Block, CanSwitchTo(b)
                 PROVE  FALSE
      BY DEF BestChain
    <2>1. /\ IsBestCandidate(tip) /\ tip \in linked
          /\ Valid(b) => b \in candidates \/ Worse(b, tip)
      BY TipAnchored DEF CanSwitchTo
    <2>2. b \in linked /\ Worse(tip, b) /\ Valid(b)
      BY DEF CanSwitchTo, Valid, Failed
    <2>3. LinkBase
      BY DEF ActInv, LinkInv
    <2> QED BY <2>1, <2>2, <2>3, Ordered DEF IsBestCandidate
  <1>2. ActInv /\ [Next]_vars => ActInv'
    BY ActStep
  <1> QED BY <1>1, <1>2, ActInit, PTL DEF Spec

\* Then every valid block that is not worse than the tip is in
\* setBlockIndexCandidates (src/src/main.cpp:4228), where nothing is pruned, though
\* candidates were erased for tips that were left again.
THEOREM CandidatesBack ==
    ASSUME ~Prunes
    PROVE  Spec => []CandidatesSettled
  <1>1. ActInv => CandidatesSettled
    BY TipAnchored DEF CandidatesSettled, Valid
  <1>2. ActInv /\ [Next]_vars => ActInv'
    BY ActStep
  <1> QED BY <1>1, <1>2, ActInit, PTL DEF Spec
=============================================================================
