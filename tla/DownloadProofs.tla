--------------------------- MODULE DownloadProofs ---------------------------
(***************************************************************************)
(* Proofs about Download, for every tree of blocks, every finite set of    *)
(* peers and every limit and timeout.                                      *)
(***************************************************************************)
EXTENDS Download, FiniteSetTheorems, SequenceTheorems, WellFoundedInduction, TLAPS

------------------------------------------------------------------------------
(* Numbers. *)

\* A set of natural numbers has a least element.
LEMMA NatLeast ==
    ASSUME NEW S \in SUBSET Nat, S # {}
    PROVE  \E n \in S : \A m \in S : n <= m
<1> DEFINE R == OpToRel(<, Nat)
<1>1. IsWellFoundedOn(R, Nat) BY NatLessThanWellFounded
<1>2. \A x, y \in Nat : y < x => <<y, x>> \in R BY DEF OpToRel
<1> HIDE DEF R
<1>3. PICK x \in S : \A y \in S : ~(<<y, x>> \in R) BY <1>1, WFMin
<1>4. \A y \in S : ~(y < x) BY <1>2, <1>3
<1>5. QED BY <1>4

\* A bounded set of natural numbers has a greatest element.
LEMMA NatGreatest ==
    ASSUME NEW S \in SUBSET Nat, S # {}, NEW b \in Nat, \A m \in S : m <= b
    PROVE  \E n \in S : \A m \in S : m <= n
<1> DEFINE U == {n \in Nat : \A m \in S : m <= n}
<1>1. b \in U OBVIOUS
<1>2. PICK n \in U : \A m \in U : n <= m BY <1>1, NatLeast
<1>3. n \in S
  <2> SUFFICES ASSUME n \notin S PROVE FALSE OBVIOUS
  <2>1. PICK x \in S : TRUE OBVIOUS
  <2>2. n \in Nat /\ x <= n /\ x # n BY <1>2, <2>1
  <2>3. n - 1 \in Nat BY <2>1, <2>2
  <2>4. \A m \in S : m <= n - 1 BY <1>2, <2>2
  <2>5. n - 1 \in U BY <2>3, <2>4
  <2>6. QED BY <1>2, <2>2, <2>5
<1>4. QED BY <1>2, <1>3

\* The numbers up to n.
LEMMA CountUpTo == ASSUME NEW n \in Nat PROVE IsFiniteSet(1..n) /\ Cardinality(1..n) = n
<1>1. /\ IsFiniteSet(1..n)
      /\ Cardinality(1..n) = IF 1 > n THEN 0 ELSE n - 1 + 1
  BY FS_Interval
<1>2. QED BY <1>1

\* Lowest returns the least element.
LEMMA LowestIs ==
    ASSUME NEW S \in SUBSET Nat, S # {}, NEW default
    PROVE  Lowest(S, default) \in S /\ \A j \in S : Lowest(S, default) <= j
BY NatLeast DEF Lowest

\* The blocks to fetch are requested in an order that has each of them once: a finite set of
\* heights can be listed upwards.
Listed(S) == \E s \in [1..Cardinality(S) -> S] : \A i, j \in DOMAIN s : i < j => s[i] < s[j]

\* A listing goes on with a larger number.
LEMMA ListedGrows ==
    ASSUME NEW T \in SUBSET Nat, IsFiniteSet(T), Listed(T), NEW m \in Nat, \A x \in T : x < m
    PROVE  Listed(T \cup {m})
<1>1. m \notin T OBVIOUS
<1> DEFINE k == Cardinality(T)
<1>2. k \in Nat /\ Cardinality(T \cup {m}) = k + 1
  BY <1>1, FS_AddElement, FS_CardinalityType
<1>3. PICK s \in [1..k -> T] : \A i, j \in DOMAIN s : i < j => s[i] < s[j] BY DEF Listed
<1> HIDE DEF k
<1> DEFINE t == [i \in 1..k + 1 |-> IF i = k + 1 THEN m ELSE s[i]]
<1>4. \A i \in 1..k + 1 : i # k + 1 => i \in 1..k BY <1>2
<1>5. t \in [1..k + 1 -> T \cup {m}] BY <1>3, <1>4
<1>6. ASSUME NEW i \in 1..k + 1, NEW j \in 1..k + 1, i < j PROVE t[i] < t[j]
  <2>1. i \in 1..k /\ t[i] = s[i] /\ s[i] \in T BY <1>2, <1>3, <1>6
  <2>2. CASE j = k + 1
    BY <2>1, <2>2
  <2>3. CASE j # k + 1
    BY <1>3, <1>4, <1>6, <2>1, <2>3
  <2>4. QED BY <2>2, <2>3
<1>7. QED BY <1>2, <1>5, <1>6 DEF Listed

\* Every set of heights up to some height can be listed.
LEMMA FiniteListed ==
    ASSUME NEW b \in Nat, NEW S \in SUBSET (0..b)
    PROVE  Listed(S)
<1>0. IsFiniteSet(S)
  <2>1. IsFiniteSet(0..b) BY FS_Interval
  <2>2. QED BY <2>1, FS_Subset
<1> DEFINE Unlisted == {n \in Nat : \E T \in SUBSET S : Cardinality(T) = n /\ ~Listed(T)}
<1>1. SUFFICES ASSUME ~Listed(S) PROVE FALSE OBVIOUS
<1>2. Cardinality(S) \in Unlisted
  BY <1>0, <1>1, FS_CardinalityType
<1>3. PICK n \in Unlisted : \A k \in Unlisted : n <= k BY <1>2, NatLeast
<1>4. PICK T \in SUBSET S : Cardinality(T) = n /\ ~Listed(T) BY <1>3
<1>5. IsFiniteSet(T) BY <1>0, FS_Subset
<1>6. T # {}
  <2>1. Listed({})
    <3>1. Cardinality({}) = 0 BY FS_EmptySet
    <3>2. 1..0 = {} OBVIOUS
    <3> DEFINE f == [i \in {} |-> i]
    <3>3. f \in [{} -> {}] /\ DOMAIN f = {} OBVIOUS
    <3>4. f \in [1..Cardinality({}) -> {}] BY <3>1, <3>2, <3>3, Zenon
    <3> HIDE DEF f
    <3>5. \A i, j \in DOMAIN f : i < j => f[i] < f[j] BY <3>3
    <3>6. QED BY <3>4, <3>5 DEF Listed
  <2>2. QED BY <1>4, <2>1
<1>7. \A x \in T : x <= b OBVIOUS
<1>8. PICK m \in T : \A x \in T : x <= m
  <2>1. T \in SUBSET Nat OBVIOUS
  <2>2. QED BY <1>6, <1>7, <2>1, NatGreatest
<1>9. /\ IsFiniteSet(T \ {m}) /\ Cardinality(T \ {m}) = n - 1 /\ n - 1 \in Nat
  <2>1. IsFiniteSet(T \ {m}) /\ Cardinality(T \ {m}) = n - 1
    BY <1>4, <1>5, <1>8, FS_RemoveElement
  <2>2. QED BY <2>1, FS_CardinalityType
<1>10. n - 1 \notin Unlisted BY <1>3, <1>9
<1>11. Listed(T \ {m}) BY <1>9, <1>10
<1>12. \A x \in T \ {m} : x < m BY <1>8
<1>13. Listed((T \ {m}) \cup {m}) BY <1>8, <1>9, <1>11, <1>12, ListedGrows
<1>14. (T \ {m}) \cup {m} = T BY <1>8
<1>15. QED BY <1>4, <1>13, <1>14

\* What BlocksAt lists: the blocks at the given heights, as many as there are heights.
LEMMA AscendingIs ==
    ASSUME NEW b \in Nat, NEW S \in SUBSET (0..b)
    PROVE  /\ Ascending(S) \in [1..Cardinality(S) -> S]
           /\ \A i, j \in 1..Cardinality(S) : i # j => Ascending(S)[i] # Ascending(S)[j]
<1>1. Listed(S) BY FiniteListed
<1>2. /\ Ascending(S) \in [1..Cardinality(S) -> S]
      /\ \A i, j \in DOMAIN Ascending(S) : i < j => Ascending(S)[i] < Ascending(S)[j]
  BY <1>1 DEF Listed, Ascending
<1>3. IsFiniteSet(S) /\ Cardinality(S) \in Nat
  <2>1. IsFiniteSet(0..b) BY FS_Interval
  <2>2. IsFiniteSet(S) BY <2>1, FS_Subset
  <2>3. QED BY <2>2, FS_CardinalityType
<1>4. S \subseteq Nat OBVIOUS
<1> DEFINE k == Cardinality(S)
           s == Ascending(S)
<1> HIDE DEF k, s
<1>5. s \in [1..k -> S] /\ k \in Nat /\ \A i, j \in 1..k : i < j => s[i] < s[j]
  BY <1>2, <1>3 DEF k, s
<1>6. ASSUME NEW i \in 1..k, NEW j \in 1..k, i # j PROVE s[i] # s[j]
  <2>1. s[i] \in Nat /\ s[j] \in Nat
    <3>1. s[i] \in S /\ s[j] \in S BY <1>5
    <3>2. QED BY <1>4, <3>1
  <2>2. i < j \/ j < i BY <1>5, <1>6
  <2>3. QED BY <1>5, <2>1, <2>2
<1>7. QED BY <1>2, <1>6 DEF k, s

------------------------------------------------------------------------------
(* The tree of blocks. *)

\* A branch is a sequence that ends in its block; only the genesis block has none before it.
LEMMA BranchType ==
    ASSUME NEW h \in Block
    PROVE  /\ Branch[h] \in Seq(Block) /\ Len(Branch[h]) \in Nat /\ Len(Branch[h]) >= 1
           /\ Branch[h][Len(Branch[h])] = h
           /\ h = Genesis => Branch[h] = <<Genesis>> /\ Len(Branch[h]) = 1
           /\ h # Genesis => \E p \in Block : /\ Branch[h] = Append(Branch[p], h)
                                              /\ Len(Branch[h]) = Len(Branch[p]) + 1
                                              /\ Len(Branch[p]) >= 1
                                              /\ \A k \in 1..Len(Branch[p]) : Branch[h][k] = Branch[p][k]
<1>1. \A x \in Block : Branch[x] \in Seq(Block) /\ Len(Branch[x]) \in Nat
  BY BranchAssumption, LenProperties
<1>2. CASE h = Genesis
  <2>1. Branch[h] = <<Genesis>> BY <1>2, BranchAssumption
  <2>2. Len(<<Genesis>>) = 1 /\ <<Genesis>>[1] = Genesis OBVIOUS
  <2>3. QED BY <1>1, <1>2, <2>1, <2>2
<1>3. CASE h # Genesis
  <2>1. h \in Hash BY <1>3 DEF Block
  <2>2. PICK p \in Block : Branch[h] = Append(Branch[p], h) BY <2>1, BranchAssumption
  <2>3. Branch[p] \in Seq(Block) BY <1>1
  <2>4. /\ Len(Branch[h]) = Len(Branch[p]) + 1 /\ Branch[h][Len(Branch[p]) + 1] = h
        /\ \A k \in 1..Len(Branch[p]) : Branch[h][k] = Branch[p][k]
    BY <2>2, <2>3, AppendProperties
  <2>5. Len(Branch[p]) >= 1
    <3>1. CASE p = Genesis
      <4>1. Branch[p] = <<Genesis>> BY <3>1, BranchAssumption
      <4>2. Len(<<Genesis>>) = 1 OBVIOUS
      <4>3. QED BY <4>1, <4>2
    <3>2. CASE p \in Hash
      <4>1. PICK q \in Block : Branch[p] = Append(Branch[q], p) BY <3>2, BranchAssumption
      <4>2. Len(Branch[p]) = Len(Branch[q]) + 1 BY <1>1, <4>1, AppendProperties
      <4>3. QED BY <1>1, <4>2
    <3>3. QED BY <3>1, <3>2 DEF Block
  <2>6. QED BY <1>1, <1>3, <2>2, <2>4, <2>5
<1>4. QED BY <1>2, <1>3

\* The branch of a block on the branch to h is the beginning of the branch to h.
Begins(h, k) == /\ Branch[h][k] \in Block /\ Len(Branch[Branch[h][k]]) = k
                /\ \A i \in 1..k : Branch[Branch[h][k]][i] = Branch[h][i]

\* It is so for every block of the branch.
LEMMA BranchBegins ==
    ASSUME NEW h \in Block, NEW k \in 1..Len(Branch[h])
    PROVE  Begins(h, k)
<1> DEFINE Wrong == {n \in Nat : \E x \in Block : Len(Branch[x]) = n /\ \E i \in 1..n : ~Begins(x, i)}
<1>1. SUFFICES ASSUME ~Begins(h, k) PROVE FALSE OBVIOUS
<1>2. Len(Branch[h]) \in Wrong BY <1>1, BranchType
<1>3. PICK n \in Wrong : \A m \in Wrong : n <= m BY <1>2, NatLeast
<1>4. PICK x \in Block, i \in 1..n : Len(Branch[x]) = n /\ ~Begins(x, i) BY <1>3
<1>5. Branch[x][n] = x /\ n \in Nat BY <1>4, BranchType
<1>6. i # n BY <1>4, <1>5 DEF Begins
<1>7. x # Genesis BY <1>4, <1>6, BranchType
<1>8. PICK p \in Block : /\ n = Len(Branch[p]) + 1 /\ Len(Branch[p]) \in Nat
                         /\ \A j \in 1..Len(Branch[p]) : Branch[x][j] = Branch[p][j]
  BY <1>4, <1>7, BranchType
<1> DEFINE l == Len(Branch[p])
<1> HIDE DEF l
<1>9. n = l + 1 /\ l \in Nat /\ \A j \in 1..l : Branch[x][j] = Branch[p][j] BY <1>8 DEF l
<1>10. i \in 1..l BY <1>6, <1>9
<1>11. l \notin Wrong BY <1>3, <1>9
<1>12. Begins(p, i) BY <1>9, <1>10, <1>11 DEF l
<1>13. \A j \in 1..i : Branch[x][j] = Branch[p][j] BY <1>9, <1>10
<1>14. Branch[x][i] = Branch[p][i] BY <1>9, <1>10
<1>15. QED BY <1>4, <1>12, <1>13, <1>14 DEF Begins

\* Heights and ancestors.
LEMMA AncestorFacts ==
    ASSUME NEW h \in Block
    PROVE  /\ nHeight(h) \in Nat /\ GetAncestor(h, nHeight(h)) = h
           /\ GetAncestor(h, 0) = Genesis
           /\ Ancestors(h) = {GetAncestor(h, i) : i \in 0..nHeight(h)}
           /\ \A i \in 0..nHeight(h) :
                  /\ GetAncestor(h, i) \in Block /\ nHeight(GetAncestor(h, i)) = i
                  /\ Ancestors(GetAncestor(h, i)) = {GetAncestor(h, j) : j \in 0..i}
<1> DEFINE l == Len(Branch[h])
<1>1. l \in Nat /\ l >= 1 /\ Branch[h] \in Seq(Block) /\ Branch[h][l] = h BY BranchType
<1>2. DOMAIN Branch[h] = 1..l BY <1>1, LenProperties
<1>3. nHeight(h) = l - 1 /\ nHeight(h) + 1 = l /\ nHeight(h) \in Nat BY <1>1 DEF nHeight
<1>4. GetAncestor(h, nHeight(h)) = h BY <1>1, <1>3 DEF GetAncestor
<1> HIDE DEF l
<1>5. Ancestors(h) = {GetAncestor(h, i) : i \in 0..nHeight(h)}
  <2>1. Ancestors(h) = {Branch[h][k] : k \in 1..l} BY <1>2 DEF Ancestors, AncestorSets, ToSet
  <2>2. ASSUME NEW k \in 1..l PROVE \E i \in 0..nHeight(h) : GetAncestor(h, i) = Branch[h][k]
    <3>1. k - 1 \in 0..nHeight(h) /\ (k - 1) + 1 = k BY <1>1, <1>3
    <3>2. QED BY <3>1 DEF GetAncestor
  <2>3. ASSUME NEW i \in 0..nHeight(h) PROVE \E k \in 1..l : GetAncestor(h, i) = Branch[h][k]
    <3>1. i + 1 \in 1..l BY <1>1, <1>3
    <3>2. QED BY <3>1 DEF GetAncestor
  <2>4. QED BY <2>1, <2>2, <2>3
<1>6. ASSUME NEW i \in 0..nHeight(h)
      PROVE  /\ GetAncestor(h, i) \in Block /\ nHeight(GetAncestor(h, i)) = i
             /\ Ancestors(GetAncestor(h, i)) = {GetAncestor(h, j) : j \in 0..i}
  <2> DEFINE a == GetAncestor(h, i)
  <2>1. i + 1 \in 1..l /\ i \in Nat BY <1>1, <1>3
  <2>2. Begins(h, i + 1) BY <2>1, BranchBegins DEF l
  <2>3. /\ a \in Block /\ Len(Branch[a]) = i + 1
        /\ \A k \in 1..i + 1 : Branch[a][k] = Branch[h][k]
    BY <2>2 DEF Begins, GetAncestor
  <2> HIDE DEF a
  <2>4. nHeight(a) = i BY <2>1, <2>3 DEF nHeight
  <2>5. DOMAIN Branch[a] = 1..i + 1 BY <2>3, BranchType, LenProperties
  <2>6. Ancestors(a) = {Branch[h][k] : k \in 1..i + 1}
    BY <2>3, <2>5 DEF Ancestors, AncestorSets, ToSet
  <2>7. ASSUME NEW k \in 1..i + 1 PROVE \E j \in 0..i : GetAncestor(h, j) = Branch[h][k]
    <3>1. k - 1 \in 0..i /\ (k - 1) + 1 = k BY <2>1
    <3>2. QED BY <3>1 DEF GetAncestor
  <2>8. ASSUME NEW j \in 0..i PROVE \E k \in 1..i + 1 : GetAncestor(h, j) = Branch[h][k]
    <3>1. j + 1 \in 1..i + 1 BY <2>1
    <3>2. QED BY <3>1 DEF GetAncestor
  <2>9. Ancestors(a) = {GetAncestor(h, j) : j \in 0..i} BY <2>6, <2>7, <2>8
  <2>10. QED BY <2>3, <2>4, <2>9 DEF a
<1>7. GetAncestor(h, 0) = Genesis
  <2>1. 0 \in 0..nHeight(h) BY <1>3
  <2>2. nHeight(GetAncestor(h, 0)) = 0 /\ GetAncestor(h, 0) \in Block BY <1>6, <2>1
  <2>3. Len(Branch[GetAncestor(h, 0)]) = 1 BY <2>2, BranchType DEF nHeight
  <2>4. QED BY <2>2, <2>3, BranchType
<1>8. QED BY <1>3, <1>4, <1>5, <1>6, <1>7

\* The ancestors of an ancestor are ancestors.
LEMMA AncestorsClosed ==
    ASSUME NEW h \in Block, NEW a \in Ancestors(h)
    PROVE  a \in Block /\ Ancestors(a) \subseteq Ancestors(h)
<1>1. PICK i \in 0..nHeight(h) : a = GetAncestor(h, i) BY AncestorFacts
<1>2. a \in Block /\ Ancestors(a) = {GetAncestor(h, j) : j \in 0..i} BY <1>1, AncestorFacts
<1>3. 0..i \subseteq 0..nHeight(h) BY AncestorFacts
<1>4. QED BY <1>2, <1>3, AncestorFacts

\* A block is its own ancestor and the genesis block is everyone's.
LEMMA OwnAncestor ==
    ASSUME NEW h \in Block PROVE h \in Ancestors(h) /\ Genesis \in Ancestors(h)
<1>1. 0 \in 0..nHeight(h) /\ nHeight(h) \in 0..nHeight(h) BY AncestorFacts
<1>2. QED BY <1>1, AncestorFacts

\* A block above the genesis block is not the genesis block.
LEMMA AboveGenesis ==
    ASSUME NEW h \in Block, NEW i \in 1..nHeight(h) PROVE GetAncestor(h, i) \in Hash
<1>1. i \in 0..nHeight(h) /\ i # 0 BY AncestorFacts
<1>2. GetAncestor(h, i) \in Block /\ nHeight(GetAncestor(h, i)) # 0 BY <1>1, AncestorFacts
<1>3. nHeight(Genesis) = 0
  <2>1. Len(Branch[Genesis]) = 1 BY BranchType DEF Block
  <2>2. QED BY <2>1 DEF nHeight
<1>4. QED BY <1>2, <1>3 DEF Block

\* The last common ancestor of two blocks is an ancestor of both.
LEMMA CommonAncestor ==
    ASSUME NEW a \in Block, NEW b \in Block
    PROVE  LastCommonAncestor(a, b) \in Ancestors(a) \cap Ancestors(b)
<1> DEFINE C == Ancestors(a) \cap Ancestors(b)
           H == {nHeight(x) : x \in C}
<1>1. C \subseteq Block BY AncestorsClosed
<1>2. Genesis \in C BY OwnAncestor
<1>3. H \in SUBSET Nat /\ H # {} BY <1>1, <1>2, AncestorFacts
<1>4. nHeight(a) \in Nat /\ \A m \in H : m <= nHeight(a)
  <2>1. nHeight(a) \in Nat BY AncestorFacts
  <2>2. ASSUME NEW x \in C PROVE nHeight(x) <= nHeight(a)
    <3>1. PICK i \in 0..nHeight(a) : x = GetAncestor(a, i) BY AncestorFacts
    <3>2. nHeight(x) = i BY <3>1, AncestorFacts
    <3>3. QED BY <2>1, <3>2
  <2>3. QED BY <2>1, <2>2
<1>5. PICK n \in H : \A m \in H : m <= n BY <1>3, <1>4, NatGreatest
<1>6. \E c \in C : \A x \in C : nHeight(x) <= nHeight(c) BY <1>5
<1>7. QED BY <1>6 DEF LastCommonAncestor

------------------------------------------------------------------------------
(* Queues of requests. *)

Requests == [hash : Hash, fValidatedHeaders : BOOLEAN]

Validated(q) == {e \in ToSet(q) : e.fValidatedHeaders}

\* No block is twice in a queue.
Once(q) == \A i, j \in 1..Len(q) : q[i].hash = q[j].hash => i = j

Hashes(q) == {q[i].hash : i \in 1..Len(q)}

\* The set of requests of a queue.
LEMMA QueueSet ==
    ASSUME NEW q \in Seq(Requests)
    PROVE  /\ Len(q) \in Nat /\ DOMAIN q = 1..Len(q)
           /\ ToSet(q) = {q[i] : i \in 1..Len(q)} /\ ToSet(q) \subseteq Requests
           /\ IsFiniteSet(ToSet(q)) /\ IsFiniteSet(Validated(q)) /\ Cardinality(Validated(q)) \in Nat
           /\ Hashes(q) = {e.hash : e \in ToSet(q)} /\ Hashes(q) \subseteq Hash
<1>1. Len(q) \in Nat /\ DOMAIN q = 1..Len(q) BY LenProperties
<1>2. ToSet(q) = {q[i] : i \in 1..Len(q)} BY <1>1 DEF ToSet
<1>3. \A i \in 1..Len(q) : q[i] \in Requests BY ElementOfSeq
<1>4. IsFiniteSet(ToSet(q))
  <2> DEFINE f == [i \in 1..Len(q) |-> q[i]]
  <2>1. IsFiniteSet(1..Len(q)) BY <1>1, FS_Interval
  <2>2. f \in Surjection(1..Len(q), ToSet(q)) BY <1>2 DEF Surjection
  <2>3. QED BY <2>1, <2>2, FS_Surjection
<1>5. Validated(q) \in SUBSET ToSet(q) BY DEF Validated
<1>6. IsFiniteSet(Validated(q)) BY <1>4, <1>5, FS_Subset
<1>7. Cardinality(Validated(q)) \in Nat BY <1>6, FS_CardinalityType
<1>8. Hashes(q) = {e.hash : e \in ToSet(q)} BY <1>2 DEF Hashes
<1>9. Hashes(q) \subseteq Hash BY <1>3 DEF Hashes, Requests
<1>10. QED BY <1>1, <1>2, <1>3, <1>4, <1>6, <1>7, <1>8, <1>9

\* The number of blocks in a queue.
LEMMA QueueLength ==
    ASSUME NEW q \in Seq(Requests), Once(q)
    PROVE  IsFiniteSet(Hashes(q)) /\ Cardinality(Hashes(q)) = Len(q)
<1> DEFINE f == [i \in 1..Len(q) |-> q[i].hash]
<1>1. Len(q) \in Nat BY LenProperties
<1>2. IsFiniteSet(1..Len(q)) /\ Cardinality(1..Len(q)) = Len(q)
  BY <1>1, CountUpTo
<1>3. f \in Bijection(1..Len(q), Hashes(q))
  <2>1. f \in [1..Len(q) -> Hashes(q)] BY DEF Hashes
  <2>2. \A y \in Hashes(q) : \E x \in 1..Len(q) : f[x] = y BY DEF Hashes
  <2>3. \A x, y \in 1..Len(q) : f[x] = f[y] => x = y BY DEF Once
  <2>4. QED BY <2>1, <2>2, <2>3 DEF Bijection, Injection, Surjection, IsInjective
<1>4. ExistsBijection(1..Len(q), Hashes(q)) BY <1>3 DEF ExistsBijection
<1>5. QED BY <1>2, <1>4, FS_Bijection

\* Erasing an element moves the later ones down by one.
LEMMA RemoveAtIs ==
    ASSUME NEW q \in Seq(Requests), NEW i \in 1..Len(q)
    PROVE  /\ RemoveAt(q, i) \in Seq(Requests) /\ Len(RemoveAt(q, i)) = Len(q) - 1
           /\ \A j \in 1..Len(q) - 1 : RemoveAt(q, i)[j] = IF j < i THEN q[j] ELSE q[j + 1]
<1> DEFINE a == SubSeq(q, 1, i - 1)
           b == SubSeq(q, i + 1, Len(q))
<1>1. Len(q) \in Nat /\ i \in Nat BY LenProperties
<1>2. a \in Seq(Requests) /\ Len(a) = i - 1 /\ \A j \in 1..i - 1 : a[j] = q[j]
  <2>1. \A k \in 1..i - 1 : q[k] \in Requests BY <1>1, ElementOfSeq
  <2>2. QED BY <1>1, <2>1, SubSeqProperties
<1>3. /\ b \in Seq(Requests) /\ Len(b) = Len(q) - i
      /\ \A j \in 1..Len(q) - i : b[j] = q[i + j]
  <2>1. \A k \in i + 1..Len(q) : q[k] \in Requests BY <1>1, ElementOfSeq
  <2>2. /\ b \in Seq(Requests)
        /\ Len(b) = IF i + 1 <= Len(q) THEN Len(q) - (i + 1) + 1 ELSE 0
        /\ \A j \in 1..Len(q) - (i + 1) + 1 : b[j] = q[(i + 1) + j - 1]
    BY <1>1, <2>1, SubSeqProperties
  <2>3. Len(b) = Len(q) - i BY <1>1, <2>2
  <2>4. Len(q) - (i + 1) + 1 = Len(q) - i /\ \A j \in 1..Len(q) - i : (i + 1) + j - 1 = i + j BY <1>1
  <2>5. QED BY <2>2, <2>3, <2>4
<1>4. RemoveAt(q, i) = a \o b BY DEF RemoveAt
<1> HIDE DEF a, b
<1>5. /\ a \o b \in Seq(Requests) /\ Len(a \o b) = Len(a) + Len(b)
      /\ \A j \in 1..Len(a) + Len(b) :
             (a \o b)[j] = IF j <= Len(a) THEN a[j] ELSE b[j - Len(a)]
  BY <1>2, <1>3, ConcatProperties
<1>6. Len(a) + Len(b) = Len(q) - 1 BY <1>1, <1>2, <1>3
<1>7. ASSUME NEW j \in 1..Len(q) - 1 PROVE (a \o b)[j] = IF j < i THEN q[j] ELSE q[j + 1]
  <2>1. CASE j < i
    <3>1. j \in 1..i - 1 /\ j <= Len(a) BY <1>1, <1>2, <1>7, <2>1
    <3>2. QED BY <1>2, <1>5, <1>6, <2>1, <3>1
  <2>2. CASE ~(j < i)
    <3>1. /\ ~(j <= Len(a)) /\ j - Len(a) \in 1..Len(q) - i /\ i + (j - Len(a)) = j + 1
      BY <1>1, <1>2, <1>7, <2>2
    <3>2. QED BY <1>3, <1>5, <1>6, <2>2, <3>1
  <2>3. QED BY <2>1, <2>2
<1>8. QED BY <1>4, <1>5, <1>6, <1>7

\* A queue without one of its requests.
LEMMA QueueErase ==
    ASSUME NEW q \in Seq(Requests), Once(q), NEW i \in 1..Len(q), NEW r, r = RemoveAt(q, i)
    PROVE  /\ r \in Seq(Requests) /\ Len(r) = Len(q) - 1 /\ Once(r)
           /\ Hashes(r) = Hashes(q) \ {q[i].hash}
           /\ Cardinality(Validated(r)) =
                 IF q[i].fValidatedHeaders THEN Cardinality(Validated(q)) - 1
                 ELSE Cardinality(Validated(q))
<1>1. Len(q) \in Nat /\ i \in Nat BY LenProperties
<1>2. /\ r \in Seq(Requests) /\ Len(r) = Len(q) - 1
      /\ \A j \in 1..Len(q) - 1 : r[j] = IF j < i THEN q[j] ELSE q[j + 1]
  BY RemoveAtIs
<1> DEFINE from(j) == IF j < i THEN j ELSE j + 1
<1>3. \A j \in 1..Len(r) : from(j) \in 1..Len(q) /\ from(j) # i /\ r[j] = q[from(j)]
  BY <1>1, <1>2
<1>4. \A j, k \in 1..Len(r) : from(j) = from(k) => j = k BY <1>1, <1>2
<1>5. ASSUME NEW k \in 1..Len(q), k # i PROVE \E j \in 1..Len(r) : from(j) = k
  <2>1. CASE k < i BY <1>1, <1>2, <1>5, <2>1
  <2>2. CASE k > i
    <3>1. k - 1 \in 1..Len(r) /\ ~(k - 1 < i) /\ (k - 1) + 1 = k BY <1>1, <1>2, <1>5, <2>2
    <3>2. QED BY <3>1
  <2>3. QED BY <1>1, <1>5, <2>1, <2>2
<1> HIDE DEF from
<1>6. Once(r) BY <1>3, <1>4 DEF Once
<1>7. ToSet(r) = ToSet(q) \ {q[i]}
  <2>1. ToSet(r) = {r[j] : j \in 1..Len(r)} /\ ToSet(q) = {q[k] : k \in 1..Len(q)}
    BY <1>2, QueueSet
  <2>2. \A j \in 1..Len(r) : r[j] \in ToSet(q) /\ r[j] # q[i]
    BY <1>3, <2>1 DEF Once
  <2>3. \A k \in 1..Len(q) : q[k] # q[i] => q[k] \in ToSet(r)
    BY <1>3, <1>5, <2>1
  <2>4. QED BY <2>1, <2>2, <2>3
<1>8. Hashes(r) = Hashes(q) \ {q[i].hash}
  <2>1. \A j \in 1..Len(r) : r[j].hash \in Hashes(q) /\ r[j].hash # q[i].hash
    BY <1>3 DEF Once, Hashes
  <2>2. ASSUME NEW k \in 1..Len(q), q[k].hash # q[i].hash PROVE q[k].hash \in Hashes(r)
    <3>1. PICK j \in 1..Len(r) : from(j) = k BY <1>5, <2>2
    <3>2. r[j] = q[k] BY <1>3, <3>1
    <3>3. QED BY <3>2 DEF Hashes
  <2>3. ASSUME NEW x \in Hashes(r) PROVE x \in Hashes(q) \ {q[i].hash}
    <3>1. PICK j \in 1..Len(r) : x = r[j].hash BY DEF Hashes
    <3>2. QED BY <2>1, <3>1
  <2>4. ASSUME NEW x \in Hashes(q) \ {q[i].hash} PROVE x \in Hashes(r)
    <3>1. PICK k \in 1..Len(q) : x = q[k].hash BY DEF Hashes
    <3>2. QED BY <2>2, <3>1
  <2>5. QED BY <2>3, <2>4
<1>9. Validated(r) = Validated(q) \ {q[i]} BY <1>7 DEF Validated
<1>10. IsFiniteSet(Validated(q)) /\ (q[i] \in Validated(q) <=> q[i].fValidatedHeaders)
  <2>1. q[i] \in ToSet(q) BY QueueSet
  <2>2. QED BY <2>1, QueueSet DEF Validated
<1>11. Cardinality(Validated(q) \ {q[i]}) =
          IF q[i] \in Validated(q) THEN Cardinality(Validated(q)) - 1
          ELSE Cardinality(Validated(q))
  BY <1>10, FS_RemoveElement
<1>12. QED BY <1>2, <1>6, <1>8, <1>9, <1>10, <1>11

\* A queue with more requests.
LEMMA QueueExtend ==
    ASSUME NEW q \in Seq(Requests), Once(q), NEW es \in Seq(Requests), Once(es),
           Hashes(q) \cap Hashes(es) = {}, NEW validated \in BOOLEAN,
           \A i \in 1..Len(es) : es[i].fValidatedHeaders = validated,
           NEW r, r = q \o es
    PROVE  /\ r \in Seq(Requests) /\ Len(r) = Len(q) + Len(es) /\ Once(r)
           /\ Hashes(r) = Hashes(q) \cup Hashes(es)
           /\ Cardinality(Validated(r)) =
                 IF validated THEN Cardinality(Validated(q)) + Len(es)
                 ELSE Cardinality(Validated(q))
<1>1. Len(q) \in Nat /\ Len(es) \in Nat BY LenProperties
<1>2. /\ r \in Seq(Requests) /\ Len(r) = Len(q) + Len(es)
      /\ \A i \in 1..Len(q) + Len(es) : r[i] = IF i <= Len(q) THEN q[i] ELSE es[i - Len(q)]
  BY ConcatProperties
<1>3. \A i \in 1..Len(q) : i \in 1..Len(r) /\ r[i] = q[i] BY <1>1, <1>2
<1>4. ASSUME NEW i \in 1..Len(es) PROVE Len(q) + i \in 1..Len(r) /\ r[Len(q) + i] = es[i]
  <2>1. /\ Len(q) + i \in 1..Len(q) + Len(es) /\ ~(Len(q) + i <= Len(q))
        /\ (Len(q) + i) - Len(q) = i
    BY <1>1, <1>4
  <2>2. QED BY <1>2, <2>1
<1>5. ASSUME NEW i \in 1..Len(r)
      PROVE  i \in 1..Len(q) \/ \E j \in 1..Len(es) : i = Len(q) + j
  <2>1. CASE i <= Len(q) BY <1>1, <1>2, <1>5, <2>1
  <2>2. CASE i > Len(q)
    <3>1. i - Len(q) \in 1..Len(es) /\ i = Len(q) + (i - Len(q)) BY <1>1, <1>2, <1>5, <2>2
    <3>2. QED BY <3>1
  <2>3. QED BY <1>1, <1>5, <2>1, <2>2
<1>6. Hashes(r) = Hashes(q) \cup Hashes(es)
  <2>1. ASSUME NEW i \in 1..Len(r) PROVE r[i].hash \in Hashes(q) \cup Hashes(es)
    <3>1. CASE i \in 1..Len(q)
      <4>1. r[i] = q[i] BY <1>3, <3>1
      <4>2. q[i].hash \in Hashes(q) BY <3>1 DEF Hashes
      <4>3. QED BY <4>1, <4>2
    <3>2. CASE \E j \in 1..Len(es) : i = Len(q) + j
      <4>1. PICK j \in 1..Len(es) : i = Len(q) + j BY <3>2
      <4>2. r[i] = es[j] BY <1>4, <4>1
      <4>3. es[j].hash \in Hashes(es) BY DEF Hashes
      <4>4. QED BY <4>2, <4>3
    <3>3. QED BY <1>5, <3>1, <3>2
  <2>2. \A i \in 1..Len(q) : q[i].hash \in Hashes(r) BY <1>3 DEF Hashes
  <2>3. \A i \in 1..Len(es) : es[i].hash \in Hashes(r) BY <1>4 DEF Hashes
  <2>4. Hashes(r) \subseteq Hashes(q) \cup Hashes(es)
    <3> SUFFICES ASSUME NEW x \in Hashes(r) PROVE x \in Hashes(q) \cup Hashes(es) OBVIOUS
    <3>1. PICK i \in 1..Len(r) : x = r[i].hash BY DEF Hashes
    <3>2. QED BY <2>1, <3>1
  <2>5. Hashes(q) \subseteq Hashes(r) /\ Hashes(es) \subseteq Hashes(r)
    <3>1. ASSUME NEW x \in Hashes(q) PROVE x \in Hashes(r)
      <4>1. PICK i \in 1..Len(q) : x = q[i].hash BY DEF Hashes
      <4>2. QED BY <2>2, <4>1
    <3>2. ASSUME NEW x \in Hashes(es) PROVE x \in Hashes(r)
      <4>1. PICK i \in 1..Len(es) : x = es[i].hash BY DEF Hashes
      <4>2. QED BY <2>3, <4>1
    <3>3. QED BY <3>1, <3>2
  <2>6. QED BY <2>4, <2>5
<1>7. \A i \in 1..Len(q), j \in 1..Len(es) : q[i].hash # es[j].hash BY DEF Hashes
<1>8. Once(r)
  <2>1. SUFFICES ASSUME NEW i \in 1..Len(r), NEW j \in 1..Len(r), r[i].hash = r[j].hash
                 PROVE  i = j
    BY DEF Once
  <2>2. CASE i \in 1..Len(q) /\ j \in 1..Len(q)
    BY <1>3, <2>1, <2>2 DEF Once
  <2>3. CASE \E k \in 1..Len(es) : i = Len(q) + k
    <3>1. PICK k \in 1..Len(es) : i = Len(q) + k BY <2>3
    <3>2. r[i] = es[k] BY <1>4, <3>1
    <3>3. PICK l \in 1..Len(es) : j = Len(q) + l BY <1>3, <1>5, <1>7, <2>1, <3>2
    <3>4. r[j] = es[l] BY <1>4, <3>3
    <3>5. k = l BY <2>1, <3>2, <3>4 DEF Once
    <3>6. QED BY <3>1, <3>3, <3>5
  <2>4. CASE \E l \in 1..Len(es) : j = Len(q) + l
    <3>1. PICK l \in 1..Len(es) : j = Len(q) + l BY <2>4
    <3>2. r[j] = es[l] BY <1>4, <3>1
    <3>3. PICK k \in 1..Len(es) : i = Len(q) + k BY <1>3, <1>5, <1>7, <2>1, <3>2
    <3>4. QED BY <2>3, <3>3
  <2>5. QED BY <1>5, <2>2, <2>3, <2>4
<1>9. ToSet(r) = ToSet(q) \cup ToSet(es)
  <2>1. /\ ToSet(r) = {r[j] : j \in 1..Len(r)} /\ ToSet(q) = {q[k] : k \in 1..Len(q)}
        /\ ToSet(es) = {es[k] : k \in 1..Len(es)}
    BY <1>2, QueueSet
  <2>2. ASSUME NEW i \in 1..Len(r) PROVE r[i] \in ToSet(q) \cup ToSet(es)
    <3>1. CASE i \in 1..Len(q)
      <4>1. r[i] = q[i] /\ q[i] \in ToSet(q) BY <1>3, <2>1, <3>1
      <4>2. QED BY <4>1
    <3>2. CASE \E j \in 1..Len(es) : i = Len(q) + j
      <4>1. PICK j \in 1..Len(es) : i = Len(q) + j BY <3>2
      <4>2. r[i] = es[j] /\ es[j] \in ToSet(es) BY <1>4, <2>1, <4>1
      <4>3. QED BY <4>2
    <3>3. QED BY <1>5, <3>1, <3>2
  <2>3. \A i \in 1..Len(q) : q[i] \in ToSet(r) BY <1>3, <2>1
  <2>4. \A i \in 1..Len(es) : es[i] \in ToSet(r) BY <1>4, <2>1
  <2>5. ToSet(r) \subseteq ToSet(q) \cup ToSet(es) BY <2>1, <2>2
  <2>6. ToSet(q) \subseteq ToSet(r) BY <2>1, <2>3
  <2>7. ToSet(es) \subseteq ToSet(r) BY <2>1, <2>4
  <2>8. QED BY <2>5, <2>6, <2>7
<1>10. Validated(r) = Validated(q) \cup Validated(es) BY <1>9 DEF Validated
<1>11. Validated(q) \cap Validated(es) = {}
  <2>1. \A e \in Validated(q) : e.hash \in Hashes(q) BY QueueSet DEF Validated
  <2>2. \A e \in Validated(es) : e.hash \in Hashes(es) BY QueueSet DEF Validated
  <2>3. QED BY <2>1, <2>2
<1>12. Cardinality(Validated(es)) = IF validated THEN Len(es) ELSE 0
  <2>1. ToSet(es) = {es[k] : k \in 1..Len(es)} BY QueueSet
  <2>2. CASE validated
    <3> DEFINE f == [i \in 1..Len(es) |-> es[i]]
    <3>1. Validated(es) = ToSet(es) BY <2>1, <2>2 DEF Validated
    <3>2. f \in Bijection(1..Len(es), ToSet(es))
      <4>1. f \in [1..Len(es) -> ToSet(es)] BY <2>1
      <4>2. \A y \in ToSet(es) : \E x \in 1..Len(es) : f[x] = y BY <2>1
      <4>3. \A x, y \in 1..Len(es) : f[x] = f[y] => x = y BY DEF Once
      <4>4. QED BY <4>1, <4>2, <4>3 DEF Bijection, Injection, Surjection, IsInjective
    <3>3. ExistsBijection(1..Len(es), ToSet(es)) BY <3>2 DEF ExistsBijection
    <3>4. IsFiniteSet(1..Len(es)) /\ Cardinality(1..Len(es)) = Len(es) BY <1>1, CountUpTo
    <3>5. Cardinality(ToSet(es)) = Len(es) BY <3>3, <3>4, FS_Bijection
    <3>6. QED BY <2>2, <3>1, <3>5
  <2>3. CASE ~validated
    <3>1. Validated(es) = {} BY <2>1, <2>3 DEF Validated
    <3>2. Cardinality(Validated(es)) = 0 BY <3>1, FS_EmptySet, Zenon
    <3>3. QED BY <2>3, <3>2
  <2>4. QED BY <2>2, <2>3
<1>13. /\ IsFiniteSet(Validated(q)) /\ IsFiniteSet(Validated(es))
       /\ Cardinality(Validated(q)) \in Nat
  BY QueueSet
<1>14. Cardinality(Validated(q) \cup Validated(es))
          = Cardinality(Validated(q)) + Cardinality(Validated(es))
              - Cardinality(Validated(q) \cap Validated(es))
  BY <1>13, FS_Union
<1>15. Cardinality(Validated(q) \cap Validated(es)) = 0 BY <1>11, FS_EmptySet, Zenon
<1>16. Cardinality(Validated(r)) = Cardinality(Validated(q) \cup Validated(es)) BY <1>10, Zenon
<1>17. Cardinality(Validated(r)) = IF validated THEN Cardinality(Validated(q)) + Len(es)
                                   ELSE Cardinality(Validated(q))
  <2> DEFINE a == Cardinality(Validated(q))
             b == Cardinality(Validated(es))
             c == Cardinality(Validated(r))
             z == Cardinality(Validated(q) \cap Validated(es))
  <2>1. c = a + b - z /\ z = 0 /\ a \in Nat /\ b = IF validated THEN Len(es) ELSE 0
    BY <1>12, <1>13, <1>14, <1>15, <1>16
  <2> HIDE DEF a, b, c, z
  <2>2. c = IF validated THEN a + Len(es) ELSE a BY <1>1, <2>1
  <2>3. QED BY <2>2 DEF a, c
<1>18. QED BY <1>2, <1>6, <1>8, <1>17

------------------------------------------------------------------------------
(* The bookkeeping of blocks in flight. *)

\* The blocks requested from p.
Held(flight, p) == {h \in DOMAIN flight : flight[h] = p}

\* The queue and the counters of a node, against the blocks requested from it.
QueueExact(s, held) ==
    /\ Once(s.vBlocksInFlight) /\ Hashes(s.vBlocksInFlight) = held
    /\ s.nBlocksInFlight = Len(s.vBlocksInFlight)
    /\ s.nBlocksInFlightValidHeaders = Cardinality(Validated(s.vBlocksInFlight))

\* What holds of each node by itself when the blocks of have were received.  A prompt peer is not
\* to be banned, and neither of its clocks has run.
Healthy(p, s, have) ==
    /\ s \in NodeStates
    /\ s.stalling # None => s.vBlocksInFlight # <<>>
    /\ s.pindexLastCommonBlock # None => Ancestors(s.pindexLastCommonBlock) \subseteq have
    /\ p \in Prompt => /\ s.fShouldBan = FALSE /\ s.stalling \in {None, 0}
                       /\ s.vBlocksInFlight # <<>> => s.downloading = 0

Downloaders(nodes) == {p \in Peer : nodes[p].nBlocksInFlightValidHeaders > 0}

\* The bookkeeping agrees, requests are held by the peers of live, and none is for a block of have.
Book(d, live, have) ==
    /\ d = [state |-> d.state, flight |-> d.flight, peers |-> d.peers]
    /\ d.state = [p \in Peer |-> d.state[p]]
    /\ \A p \in Peer : Healthy(p, d.state[p], have)
    /\ \A p \in Peer : QueueExact(d.state[p], Held(d.flight, p))
    /\ DOMAIN d.flight \subseteq Hash /\ DOMAIN d.flight \cap have = {}
    /\ \A h \in DOMAIN d.flight : d.flight[h] \in live
    /\ d.peers = Cardinality(Downloaders(d.state))

\* The fields of a node.
LEMMA NodeFields ==
    ASSUME NEW s \in NodeStates
    PROVE  /\ s.vBlocksInFlight \in Seq(Requests)
           /\ s.nBlocksInFlight \in Nat /\ s.nBlocksInFlight <= MaxInTransit
           /\ s.nBlocksInFlightValidHeaders \in Nat
BY BoundAssumption DEF NodeStates, Requests

\* The longest age.
LEMMA MaxAgeType == ASSUME NEW p \in Peer PROVE MaxAge \in Nat /\ 0 \in 0..MaxAge
<1> DEFINE n == Cardinality(Peer)
<1>1. IsFiniteSet(Peer) BY PeerAssumption
<1>2. n \in Nat /\ n # 0
  <2>1. n \in Nat BY <1>1, FS_CardinalityType
  <2>2. n # 0 BY <1>1, FS_EmptySet
  <2>3. QED BY <2>1, <2>2
<1> HIDE DEF n
<1>3. n - 1 \in Nat BY <1>2
<1> DEFINE m == TimeoutPerPeer * (n - 1)
<1>4. m \in Nat BY <1>3, BoundAssumption
<1> HIDE DEF m
<1>5. MaxAge = TimeoutBase + m + 1 BY DEF MaxAge, m, n
<1>6. QED BY <1>4, <1>5, BoundAssumption

\* One node, and what is requested from it, changes.
LEMMA BookOne ==
    ASSUME NEW live \in SUBSET Peer, NEW have, NEW d, Book(d, live, have), NEW p \in Peer,
           NEW s, NEW flight, NEW peers, NEW e,
           e = [state |-> [d.state EXCEPT ![p] = s], flight |-> flight, peers |-> peers],
           Healthy(p, s, have), QueueExact(s, Held(flight, p)),
           \A r \in Peer \ {p} : Held(flight, r) = Held(d.flight, r),
           DOMAIN flight \subseteq Hash, DOMAIN flight \cap have = {},
           \A h \in DOMAIN flight : flight[h] \in live,
           peers = CASE s.nBlocksInFlightValidHeaders > 0
                           /\ ~(d.state[p].nBlocksInFlightValidHeaders > 0) -> d.peers + 1
                     [] ~(s.nBlocksInFlightValidHeaders > 0)
                           /\ d.state[p].nBlocksInFlightValidHeaders > 0 -> d.peers - 1
                     [] OTHER -> d.peers
    PROVE  Book(e, live, have)
<1>1. /\ e.state = [d.state EXCEPT ![p] = s] /\ e.flight = flight /\ e.peers = peers
      /\ e = [state |-> e.state, flight |-> e.flight, peers |-> e.peers]
  OBVIOUS
<1>2. DOMAIN d.state = Peer BY DEF Book
<1>3. /\ e.state = [r \in Peer |-> e.state[r]] /\ e.state[p] = s
      /\ \A r \in Peer \ {p} : e.state[r] = d.state[r]
  BY <1>1, <1>2
<1>4. \A r \in Peer : Healthy(r, e.state[r], have) BY <1>3 DEF Book
<1>5. \A r \in Peer : QueueExact(e.state[r], Held(e.flight, r)) BY <1>1, <1>3 DEF Book
<1> DEFINE old == Downloaders(d.state)
           new == Downloaders(e.state)
<1>6. IsFiniteSet(old) /\ d.peers = Cardinality(old)
  <2>1. old \in SUBSET Peer BY DEF Downloaders
  <2>2. QED BY <2>1, FS_Subset, PeerAssumption DEF Book
<1>7. /\ p \in old <=> d.state[p].nBlocksInFlightValidHeaders > 0
      /\ p \in new <=> s.nBlocksInFlightValidHeaders > 0
      /\ \A r \in Peer \ {p} : r \in old <=> r \in new
      /\ old \subseteq Peer /\ new \subseteq Peer
  BY <1>3 DEF Downloaders
<1> HIDE DEF old, new
<1>8. e.peers = Cardinality(new)
  <2>1. CASE p \in new /\ p \notin old
    <3>1. new = old \cup {p} BY <1>7, <2>1
    <3>2. Cardinality(old \cup {p}) = Cardinality(old) + 1 BY <1>6, <2>1, FS_AddElement
    <3>3. e.peers = Cardinality(old) + 1 BY <1>1, <1>6, <1>7, <2>1
    <3>4. QED BY <3>1, <3>2, <3>3
  <2>2. CASE p \notin new /\ p \in old
    <3>1. new = old \ {p} BY <1>7, <2>2
    <3>2. Cardinality(old \ {p}) = Cardinality(old) - 1 BY <1>6, <2>2, FS_RemoveElement
    <3>3. e.peers = Cardinality(old) - 1 BY <1>1, <1>6, <1>7, <2>2
    <3>4. QED BY <3>1, <3>2, <3>3
  <2>3. CASE p \in new <=> p \in old
    <3>1. new = old BY <1>7, <2>3
    <3>2. e.peers = d.peers BY <1>1, <1>7, <2>3
    <3>3. QED BY <1>6, <3>1, <3>2
  <2>4. QED BY <2>1, <2>2, <2>3
<1>9. QED BY <1>1, <1>3, <1>4, <1>5, <1>8 DEF Book, new

\* Only what a node says of itself changes.
LEMMA BookState ==
    ASSUME NEW live \in SUBSET Peer, NEW have, NEW d, Book(d, live, have), NEW p \in Peer,
           NEW s, Healthy(p, s, have),
           s.vBlocksInFlight = d.state[p].vBlocksInFlight,
           s.nBlocksInFlight = d.state[p].nBlocksInFlight,
           s.nBlocksInFlightValidHeaders = d.state[p].nBlocksInFlightValidHeaders
    PROVE  Book([d EXCEPT !.state[p] = s], live, have)
<1> DEFINE e == [state |-> [d.state EXCEPT ![p] = s], flight |-> d.flight, peers |-> d.peers]
<1>1. [d EXCEPT !.state[p] = s] = e
  <2>1. d = [state |-> d.state, flight |-> d.flight, peers |-> d.peers] BY DEF Book
  <2>2. QED BY <2>1
<1>2. QueueExact(s, Held(d.flight, p)) BY DEF Book, QueueExact
<1>3. Book(e, live, have)
  <2>1. /\ DOMAIN d.flight \subseteq Hash /\ DOMAIN d.flight \cap have = {}
        /\ \A h \in DOMAIN d.flight : d.flight[h] \in live
    BY DEF Book
  <2>2. QED BY <1>2, <2>1, BookOne
<1>4. QED BY <1>1, <1>3

\* MarkBlockAsReceived: the block leaves the queue it is in, whoever sent it.
LEMMA BookReceived ==
    ASSUME NEW live \in SUBSET Peer, NEW have, NEW d, Book(d, live, have), NEW h
    PROVE  /\ Book(MarkBlockAsReceived(d, h), live, have)
           /\ h \notin DOMAIN MarkBlockAsReceived(d, h).flight
           /\ \A r \in Peer : MarkBlockAsReceived(d, h).state[r].fShouldBan = d.state[r].fShouldBan
<1>1. CASE h \notin DOMAIN d.flight
  BY <1>1 DEF MarkBlockAsReceived
<1>2. CASE h \in DOMAIN d.flight
  <2> DEFINE p == d.flight[h]
             s == d.state[p]
             q == s.vBlocksInFlight
             i == Position(s, h)
             t == Received(s, h)
             flight == [x \in DOMAIN d.flight \ {h} |-> d.flight[x]]
             peers == IF LastValidated(s, h) THEN d.peers - 1 ELSE d.peers
             e == [state |-> [d.state EXCEPT ![p] = t], flight |-> flight, peers |-> peers]
  <2>1. MarkBlockAsReceived(d, h) = e BY <1>2 DEF MarkBlockAsReceived
  <2>2. p \in live /\ p \in Peer BY <1>2 DEF Book
  <2>3. Healthy(p, s, have) /\ QueueExact(s, Held(d.flight, p)) BY <2>2 DEF Book
  <2>4. s \in NodeStates BY <2>3 DEF Healthy
  <2>5. /\ q \in Seq(Requests) /\ Once(q) /\ Hashes(q) = Held(d.flight, p)
        /\ s.nBlocksInFlight = Len(q)
        /\ s.nBlocksInFlightValidHeaders = Cardinality(Validated(q))
    BY <2>3, <2>4, NodeFields DEF QueueExact
  <2>6. h \in Hashes(q) BY <1>2, <2>5 DEF Held
  <2>7. i \in 1..Len(q) /\ q[i].hash = h
    <3>1. \E j \in DOMAIN q : q[j].hash = h BY <2>5, <2>6, LenProperties DEF Hashes
    <3>2. i \in DOMAIN q /\ q[i].hash = h BY <3>1 DEF Position
    <3>3. QED BY <2>5, <3>2, LenProperties
  <2> DEFINE r == RemoveAt(q, i)
  <2>8. /\ r \in Seq(Requests) /\ Len(r) = Len(q) - 1 /\ Once(r)
        /\ Hashes(r) = Hashes(q) \ {h}
        /\ Cardinality(Validated(r)) =
              IF q[i].fValidatedHeaders THEN Cardinality(Validated(q)) - 1
              ELSE Cardinality(Validated(q))
    <3>1. r = RemoveAt(q, i) OBVIOUS
    <3> HIDE DEF q, i, r
    <3>2. /\ r \in Seq(Requests) /\ Len(r) = Len(q) - 1 /\ Once(r)
          /\ Hashes(r) = Hashes(q) \ {q[i].hash}
          /\ Cardinality(Validated(r)) =
                IF q[i].fValidatedHeaders THEN Cardinality(Validated(q)) - 1
                ELSE Cardinality(Validated(q))
      BY <2>5, <2>7, <3>1, QueueErase
    <3>3. QED BY <2>7, <3>2
  <2> DEFINE n == IF q[i].fValidatedHeaders THEN s.nBlocksInFlightValidHeaders - 1
                  ELSE s.nBlocksInFlightValidHeaders
             age == IF Head(q).hash = h THEN 0 ELSE s.downloading
  <2>9. t = [s EXCEPT !.vBlocksInFlight = r, !.nBlocksInFlight = Len(q) - 1,
                      !.nBlocksInFlightValidHeaders = n, !.stalling = None, !.downloading = age]
    BY <2>5 DEF Received, Entry
  <2>10. LastValidated(s, h) <=> t.nBlocksInFlightValidHeaders = 0 /\ q[i].fValidatedHeaders
    BY DEF LastValidated, Entry
  <2>11. n \in Nat /\ n = Cardinality(Validated(r)) /\ q[i].fValidatedHeaders \in BOOLEAN
         /\ s.nBlocksInFlightValidHeaders \in Nat
    <3>1. n = Cardinality(Validated(r)) BY <2>5, <2>8
    <3>2. Cardinality(Validated(r)) \in Nat /\ Cardinality(Validated(q)) \in Nat
      BY <2>5, <2>8, QueueSet
    <3>3. q[i].fValidatedHeaders \in BOOLEAN
      <4>1. q[i] \in Requests BY <2>5, <2>7, ElementOfSeq
      <4>2. QED BY <4>1 DEF Requests
    <3>4. QED BY <2>5, <3>1, <3>2, <3>3
  <2>12. Len(q) \in Nat /\ Len(q) - 1 \in 0..MaxInTransit /\ n \in 0..MaxInTransit
    <3> DEFINE l == Len(q)
               v == s.nBlocksInFlightValidHeaders
    <3>1. l \in Nat /\ l >= 1
      <4> HIDE DEF q, i
      <4>1. l \in Nat BY <2>5, LenProperties
      <4>2. i \in 1..l BY <2>7
      <4> HIDE DEF l
      <4>3. QED BY <4>1, <4>2
    <3>2. l <= MaxInTransit /\ MaxInTransit \in Nat
      BY <2>4, <2>5, NodeFields, BoundAssumption
    <3>3. v \in 0..MaxInTransit BY <2>4 DEF NodeStates
    <3>4. n \in Nat /\ (n = v - 1 \/ n = v) BY <2>11
    <3> HIDE DEF l, v, n
    <3>5. l \in Nat /\ l - 1 \in 0..MaxInTransit /\ n \in 0..MaxInTransit
      BY <3>1, <3>2, <3>3, <3>4
    <3>6. QED BY <3>5 DEF l
  <2>13. age \in 0..MaxAge
    <3>1. s.downloading \in 0..MaxAge BY <2>4 DEF NodeStates
    <3>2. QED BY <2>2, <3>1, MaxAgeType
  <2>14. q # <<>>
    <3>1. Len(q) # 0 BY <2>7
    <3>2. Len(<<>>) = 0 BY EmptySeq
    <3>3. QED BY <3>1, <3>2
  <2>15. p \in Prompt => age = 0 BY <2>3, <2>14 DEF Healthy
  <2> HIDE DEF n, age, r, i, t, q, s
  <2>16. /\ t \in NodeStates /\ t.vBlocksInFlight = r /\ t.nBlocksInFlight = Len(q) - 1
         /\ t.nBlocksInFlightValidHeaders = n /\ t.stalling = None /\ t.downloading = age
         /\ t.fShouldBan = s.fShouldBan /\ t.pindexLastCommonBlock = s.pindexLastCommonBlock
    BY <2>4, <2>8, <2>9, <2>12, <2>13 DEF NodeStates, Requests
  <2>17. Healthy(p, t, have)
    BY <2>3, <2>16, <2>15 DEF Healthy
  <2>18. /\ Held(flight, p) = Held(d.flight, p) \ {h}
         /\ \A x \in Peer \ {p} : Held(flight, x) = Held(d.flight, x)
    BY <1>2 DEF Held
  <2>19. QueueExact(t, Held(flight, p))
    BY <2>5, <2>8, <2>11, <2>16, <2>18 DEF QueueExact
  <2>20. /\ DOMAIN flight \subseteq Hash /\ DOMAIN flight \cap have = {}
         /\ \A x \in DOMAIN flight : flight[x] \in live
    BY DEF Book
  <2>21. Book(e, live, have)
    <3> DEFINE m == s.nBlocksInFlightValidHeaders
    <3>1. /\ m = d.state[p].nBlocksInFlightValidHeaders /\ m \in Nat /\ n \in Nat
          /\ n = IF q[i].fValidatedHeaders THEN m - 1 ELSE m
          /\ peers = IF n = 0 /\ q[i].fValidatedHeaders THEN d.peers - 1 ELSE d.peers
      BY <2>10, <2>11, <2>16 DEF n, s
    <3> HIDE DEF peers, m
    <3>2. /\ (n > 0 /\ ~(m > 0)) => FALSE
          /\ (~(n > 0) /\ m > 0) <=> (n = 0 /\ q[i].fValidatedHeaders)
      BY <3>1
    <3>3. peers = CASE t.nBlocksInFlightValidHeaders > 0
                           /\ ~(d.state[p].nBlocksInFlightValidHeaders > 0) -> d.peers + 1
                     [] ~(t.nBlocksInFlightValidHeaders > 0)
                           /\ d.state[p].nBlocksInFlightValidHeaders > 0 -> d.peers - 1
                     [] OTHER -> d.peers
      BY <2>16, <3>1, <3>2
    <3> HIDE DEF flight, p
    <3>4. QED BY <2>2, <2>17, <2>18, <2>19, <2>20, <3>3, BookOne
  <2>22. h \notin DOMAIN e.flight OBVIOUS
  <2>23. \A x \in Peer : e.state[x].fShouldBan = d.state[x].fShouldBan
    <3>1. DOMAIN d.state = Peer BY DEF Book
    <3>2. t.fShouldBan = d.state[p].fShouldBan BY <2>16 DEF s
    <3>3. QED BY <2>2, <3>1, <3>2
  <2>24. QED BY <2>1, <2>21, <2>22, <2>23
<1>3. QED BY <1>1, <1>2

\* MarkBlockAsInFlight for blocks that are in no queue, as many as the node has room for.
LEMMA BookInFlight ==
    ASSUME NEW live \in SUBSET Peer, NEW have, NEW d, Book(d, live, have), NEW p \in live,
           NEW hashes \in Seq(Hash), NEW validated \in BOOLEAN,
           \A i, j \in 1..Len(hashes) : hashes[i] = hashes[j] => i = j,
           ToSet(hashes) \cap (DOMAIN d.flight \cup have) = {},
           hashes # <<>> => Len(hashes) <= Room(d.state[p])
    PROVE  Book(MarkBlocksAsInFlight(d, p, hashes, validated), live, have)
<1>1. CASE hashes = <<>>
  BY <1>1 DEF MarkBlocksAsInFlight
<1>2. CASE hashes # <<>>
  <2> DEFINE s == d.state[p]
             q == s.vBlocksInFlight
             es == [i \in DOMAIN hashes |-> [hash |-> hashes[i], fValidatedHeaders |-> validated]]
             r == q \o es
             n == IF validated THEN s.nBlocksInFlightValidHeaders + Len(hashes)
                  ELSE s.nBlocksInFlightValidHeaders
             age == IF s.nBlocksInFlight = 0 THEN 0 ELSE s.downloading
             t == [s EXCEPT !.vBlocksInFlight = r, !.nBlocksInFlight = s.nBlocksInFlight + Len(hashes),
                            !.nBlocksInFlightValidHeaders = n, !.downloading = age]
             flight == [h \in DOMAIN d.flight \cup ToSet(hashes) |->
                            IF h \in ToSet(hashes) THEN p ELSE d.flight[h]]
             peers == IF validated /\ s.nBlocksInFlightValidHeaders = 0 THEN d.peers + 1 ELSE d.peers
             e == [state |-> [d.state EXCEPT ![p] = t], flight |-> flight, peers |-> peers]
  <2>1. MarkBlocksAsInFlight(d, p, hashes, validated) = e
    BY <1>2 DEF MarkBlocksAsInFlight, Restarted
  <2>2. p \in Peer OBVIOUS
  <2>3. Healthy(p, s, have) /\ QueueExact(s, Held(d.flight, p)) BY <2>2 DEF Book
  <2>4. s \in NodeStates BY <2>3 DEF Healthy
  <2>5. /\ q \in Seq(Requests) /\ Once(q) /\ Hashes(q) = Held(d.flight, p) /\ Len(q) \in Nat
        /\ s.nBlocksInFlight = Len(q)
        /\ s.nBlocksInFlightValidHeaders = Cardinality(Validated(q))
        /\ s.nBlocksInFlightValidHeaders \in Nat
    BY <2>3, <2>4, NodeFields, LenProperties DEF QueueExact
  <2>6. /\ DOMAIN hashes = 1..Len(hashes) /\ Len(hashes) \in Nat /\ Len(hashes) > 0
        /\ \A i \in 1..Len(hashes) : hashes[i] \in Hash
        /\ ToSet(hashes) = {hashes[i] : i \in 1..Len(hashes)}
    <3>1. /\ DOMAIN hashes = 1..Len(hashes) /\ Len(hashes) \in Nat
          /\ \A i \in 1..Len(hashes) : hashes[i] \in Hash
      BY LenProperties, ElementOfSeq
    <3>2. Len(hashes) > 0 BY <1>2, <3>1, EmptySeq
    <3>3. QED BY <3>1, <3>2 DEF ToSet
  <2>7. /\ es \in Seq(Requests) /\ Len(es) = Len(hashes)
        /\ \A i \in 1..Len(hashes) : es[i].hash = hashes[i] /\ es[i].fValidatedHeaders = validated
    <3>1. es \in [1..Len(hashes) -> Requests] BY <2>6 DEF Requests
    <3>2. es \in Seq(Requests) /\ Len(es) = Len(hashes) BY <2>6, <3>1
    <3>3. QED BY <2>6, <3>2
  <2> HIDE DEF es
  <2>8. Once(es) /\ Hashes(es) = ToSet(hashes)
    BY <2>6, <2>7 DEF Once, Hashes
  <2>9. Hashes(q) \cap Hashes(es) = {} BY <2>5, <2>8 DEF Held
  <2>10. /\ r \in Seq(Requests) /\ Len(r) = Len(q) + Len(hashes) /\ Once(r)
         /\ Hashes(r) = Hashes(q) \cup ToSet(hashes)
         /\ Cardinality(Validated(r)) =
               IF validated THEN Cardinality(Validated(q)) + Len(hashes)
               ELSE Cardinality(Validated(q))
    <3>1. r = q \o es /\ \A i \in 1..Len(es) : es[i].fValidatedHeaders = validated BY <2>7
    <3> HIDE DEF q, r
    <3>2. /\ r \in Seq(Requests) /\ Len(r) = Len(q) + Len(es) /\ Once(r)
          /\ Hashes(r) = Hashes(q) \cup Hashes(es)
          /\ Cardinality(Validated(r)) =
                IF validated THEN Cardinality(Validated(q)) + Len(es)
                ELSE Cardinality(Validated(q))
      <4>1. q \in Seq(Requests) /\ Once(q) BY <2>5
      <4>2. es \in Seq(Requests) /\ Once(es) /\ Hashes(q) \cap Hashes(es) = {}
        BY <2>7, <2>8, <2>9
      <4>3. QED BY <3>1, <4>1, <4>2, QueueExtend, Zenon
    <3>3. QED BY <2>7, <2>8, <3>2
  <2>11. Len(q) + Len(hashes) <= MaxInTransit /\ MaxInTransit \in Nat
    <3>1. Len(hashes) <= MaxInTransit - Len(q) BY <1>2, <2>5 DEF Room
    <3>2. QED BY <2>5, <2>6, <3>1, BoundAssumption
  <2>12. Cardinality(Validated(r)) <= Len(r) /\ n = Cardinality(Validated(r)) /\ n \in Nat
    <3>1. n = Cardinality(Validated(r)) BY <2>5, <2>10
    <3>2. Hashes(r) \subseteq Hash /\ IsFiniteSet(Hashes(r)) /\ Cardinality(Hashes(r)) = Len(r)
      BY <2>10, QueueLength, QueueSet
    <3> DEFINE f == [x \in Validated(r) |-> x.hash]
    <3>3. f \in Injection(Validated(r), Hashes(r))
      <4>1. /\ Hashes(r) = {x.hash : x \in ToSet(r)} /\ ToSet(r) = {r[i] : i \in 1..Len(r)}
        BY <2>10, QueueSet
      <4>2. f \in [Validated(r) -> Hashes(r)] BY <4>1 DEF Validated
      <4>3. \A x, y \in ToSet(r) : x.hash = y.hash => x = y BY <2>10, <4>1 DEF Once
      <4>4. \A x, y \in Validated(r) : f[x] = f[y] => x = y BY <4>3 DEF Validated
      <4>5. QED BY <4>2, <4>4 DEF Injection, IsInjective
    <3>4. Cardinality(Validated(r)) <= Cardinality(Hashes(r)) BY <3>2, <3>3, FS_Injection
    <3>5. Cardinality(Validated(r)) \in Nat BY <2>10, QueueSet
    <3>6. QED BY <3>1, <3>2, <3>4, <3>5
  <2>13. Len(q) + Len(hashes) \in 0..MaxInTransit /\ n \in 0..MaxInTransit
    <3> DEFINE v == Cardinality(Validated(r))
               a == Len(q)
               b == Len(hashes)
               c == Len(r)
    <3>1. v <= c /\ n = v /\ n \in Nat /\ c = a + b /\ a + b <= MaxInTransit
          /\ a \in Nat /\ b \in Nat /\ MaxInTransit \in Nat
      BY <2>5, <2>6, <2>10, <2>11, <2>12
    <3> HIDE DEF n, v, a, b, c
    <3>2. a + b \in 0..MaxInTransit /\ n \in 0..MaxInTransit BY <3>1
    <3>3. QED BY <3>2 DEF a, b
  <2>14. age \in 0..MaxAge
    <3>1. s.downloading \in 0..MaxAge BY <2>4 DEF NodeStates
    <3>2. QED BY <2>2, <3>1, MaxAgeType
  <2>15. p \in Prompt => age = 0
    <3>1. CASE s.nBlocksInFlight = 0 BY <3>1
    <3>2. CASE s.nBlocksInFlight # 0
      <4>1. q # <<>> BY <2>5, <3>2, EmptySeq
      <4>2. QED BY <2>3, <4>1 DEF Healthy
    <3>3. QED BY <3>1, <3>2
  <2>16. r # <<>>
    <3>1. Len(r) # 0 BY <2>5, <2>6, <2>10
    <3>2. Len(<<>>) = 0 BY EmptySeq
    <3>3. QED BY <3>1, <3>2
  <2>17. n > 0 <=> (validated \/ s.nBlocksInFlightValidHeaders > 0)
    BY <2>5, <2>6
  <2>18. t.nBlocksInFlight = Len(r) /\ s.nBlocksInFlight + Len(hashes) = Len(q) + Len(hashes)
    <3>1. t.nBlocksInFlight = s.nBlocksInFlight + Len(hashes) BY <2>4 DEF NodeStates
    <3>2. QED BY <2>5, <2>10, <3>1
  <2> HIDE DEF r, q, n, age
  <2>19. /\ t \in NodeStates /\ t.vBlocksInFlight = r
         /\ t.nBlocksInFlightValidHeaders = n /\ t.stalling = s.stalling /\ t.downloading = age
         /\ t.fShouldBan = s.fShouldBan /\ t.pindexLastCommonBlock = s.pindexLastCommonBlock
    BY <2>4, <2>10, <2>13, <2>14, <2>18 DEF NodeStates, Requests
  <2> HIDE DEF t
  <2>20. Healthy(p, t, have)
    BY <2>3, <2>15, <2>16, <2>19 DEF Healthy
  <2>21. /\ Held(flight, p) = Held(d.flight, p) \cup ToSet(hashes)
         /\ \A x \in Peer \ {p} : Held(flight, x) = Held(d.flight, x)
    BY DEF Held
  <2>22. QueueExact(t, Held(flight, p))
    BY <2>5, <2>10, <2>12, <2>18, <2>19, <2>21 DEF QueueExact
  <2>23. /\ DOMAIN flight \subseteq Hash /\ DOMAIN flight \cap have = {}
         /\ \A x \in DOMAIN flight : flight[x] \in live
    BY <2>6 DEF Book
  <2>24. peers = CASE t.nBlocksInFlightValidHeaders > 0
                           /\ ~(d.state[p].nBlocksInFlightValidHeaders > 0) -> d.peers + 1
                     [] ~(t.nBlocksInFlightValidHeaders > 0)
                           /\ d.state[p].nBlocksInFlightValidHeaders > 0 -> d.peers - 1
                     [] OTHER -> d.peers
    BY <2>5, <2>17, <2>19
  <2> HIDE DEF flight, peers
  <2>25. Book(e, live, have)
    BY <2>2, <2>20, <2>21, <2>22, <2>23, <2>24, BookOne
  <2>26. QED BY <2>1, <2>25
<1>3. QED BY <1>1, <1>2

\* More peers are connected, and more blocks received that nobody was asked for.
LEMMA BookMore ==
    ASSUME NEW live, NEW more, live \subseteq more, NEW have, NEW now, have \subseteq now,
           NEW d, Book(d, live, have), DOMAIN d.flight \cap now = {}
    PROVE  Book(d, more, now)
<1>1. \A p \in Peer : Healthy(p, d.state[p], now) BY DEF Book, Healthy
<1>2. QED BY <1>1 DEF Book

------------------------------------------------------------------------------
(* What is known of a peer. *)

\* The requests of two states of a node are the same.
SameQueue(s, t) ==
    /\ t.vBlocksInFlight = s.vBlocksInFlight /\ t.nBlocksInFlight = s.nBlocksInFlight
    /\ t.nBlocksInFlightValidHeaders = s.nBlocksInFlightValidHeaders

\* The better of two blocks is one of them.
LEMMA BetterType ==
    ASSUME NEW best \in Block \cup {None}, NEW h \in Block PROVE Better(best, h) \in Block
BY DEF Better

\* ProcessBlockAvailability leaves the requests and the common block alone.
LEMMA ProcessHealthy ==
    ASSUME NEW p, NEW have, NEW s, Healthy(p, s, have), NEW known \in SUBSET Block
    PROVE  /\ Healthy(p, ProcessBlockAvailability(s, known), have)
           /\ SameQueue(s, ProcessBlockAvailability(s, known))
<1> DEFINE b == Better(s.pindexBestKnownBlock, s.hashLastUnknownBlock)
           t == [s EXCEPT !.pindexBestKnownBlock = b, !.hashLastUnknownBlock = None]
<1>1. CASE s.hashLastUnknownBlock \notin known
  BY <1>1 DEF ProcessBlockAvailability, SameQueue
<1>2. CASE s.hashLastUnknownBlock \in known
  <2>1. s \in NodeStates BY DEF Healthy
  <2>2. s.pindexBestKnownBlock \in Block \cup {None} BY <2>1 DEF NodeStates
  <2>3. b \in Block BY <1>2, <2>2, BetterType
  <2>4. ProcessBlockAvailability(s, known) = t BY <1>2 DEF ProcessBlockAvailability
  <2> HIDE DEF b
  <2>5. t \in NodeStates BY <2>1, <2>3 DEF NodeStates
  <2>6. /\ SameQueue(s, t) /\ t.stalling = s.stalling /\ t.downloading = s.downloading
        /\ t.fShouldBan = s.fShouldBan /\ t.pindexLastCommonBlock = s.pindexLastCommonBlock
    BY <2>1 DEF NodeStates, SameQueue
  <2>7. Healthy(p, t, have) BY <2>5, <2>6 DEF Healthy, SameQueue
  <2>8. QED BY <2>4, <2>6, <2>7
<1>3. QED BY <1>1, <1>2

\* UpdateBlockAvailability leaves the requests and the common block alone.
LEMMA UpdateHealthy ==
    ASSUME NEW p, NEW have, NEW s, Healthy(p, s, have), NEW known \in SUBSET Block, NEW h \in Hash
    PROVE  /\ Healthy(p, UpdateBlockAvailability(s, h, known), have)
           /\ SameQueue(s, UpdateBlockAvailability(s, h, known))
<1> DEFINE u == ProcessBlockAvailability(s, known)
           b == Better(u.pindexBestKnownBlock, h)
           known1 == [u EXCEPT !.pindexBestKnownBlock = b]
           unknown == [u EXCEPT !.hashLastUnknownBlock = h]
<1>1. Healthy(p, u, have) /\ SameQueue(s, u) BY ProcessHealthy
<1>2. UpdateBlockAvailability(s, h, known) = IF h \in known THEN known1 ELSE unknown
  BY DEF UpdateBlockAvailability
<1> HIDE DEF u
<1>3. u \in NodeStates BY <1>1 DEF Healthy
<1>4. b \in Block
  <2>1. u.pindexBestKnownBlock \in Block \cup {None} BY <1>3 DEF NodeStates
  <2>2. h \in Block BY DEF Block
  <2>3. QED BY <2>1, <2>2, BetterType
<1> HIDE DEF b
<1>5. Healthy(p, known1, have) /\ SameQueue(s, known1)
  <2>1. known1 \in NodeStates BY <1>3, <1>4 DEF NodeStates
  <2>2. /\ SameQueue(u, known1) /\ known1.stalling = u.stalling /\ known1.downloading = u.downloading
        /\ known1.fShouldBan = u.fShouldBan /\ known1.pindexLastCommonBlock = u.pindexLastCommonBlock
    BY <1>3 DEF NodeStates, SameQueue
  <2>3. QED BY <1>1, <2>1, <2>2 DEF Healthy, SameQueue
<1>6. Healthy(p, unknown, have) /\ SameQueue(s, unknown)
  <2>1. unknown \in NodeStates BY <1>3 DEF NodeStates
  <2>2. /\ SameQueue(u, unknown) /\ unknown.stalling = u.stalling
        /\ unknown.downloading = u.downloading
        /\ unknown.fShouldBan = u.fShouldBan /\ unknown.pindexLastCommonBlock = u.pindexLastCommonBlock
    BY <1>3 DEF NodeStates, SameQueue
  <2>3. QED BY <1>1, <2>1, <2>2 DEF Healthy, SameQueue
<1>7. QED BY <1>2, <1>5, <1>6

------------------------------------------------------------------------------
(* The inductive invariant. *)

\* The headers known come with their ancestors, the tip is linked, failed blocks are bad ones, and
\* no connection to a prompt peer is being closed.
Base ==
    /\ index \subseteq Block /\ \A h \in index : Ancestors(h) \subseteq index
    /\ data \subseteq index /\ failed \subseteq index \cap Bad
    /\ tip \in data /\ Ancestors(tip) \subseteq data
    /\ synced \in BOOLEAN
    /\ connected \subseteq Peer /\ closing \subseteq connected /\ Prompt \cap closing = {}
    /\ connects \in 0..MaxConnect

DownloadInv == Base /\ Book(Downloads, connected, data)

------------------------------------------------------------------------------
(* FindNextBlocksToDownload. *)

\* The common block found is linked, and the walk has only heights of the peer's branch above it.
LEMMA LocatedHealthy ==
    ASSUME Base, NEW p, NEW s, Healthy(p, s, data)
    PROVE  /\ Healthy(p, Located(s), data) /\ SameQueue(s, Located(s))
           /\ Interesting(Located(s)) => Located(s).pindexLastCommonBlock \in Block
<1> DEFINE best == s.pindexBestKnownBlock
           guess == IF s.pindexLastCommonBlock = None THEN GuessedCommonBlock(best)
                    ELSE s.pindexLastCommonBlock
           c == LastCommonAncestor(guess, best)
           t == [s EXCEPT !.pindexLastCommonBlock = c]
<1>0. s \in NodeStates BY DEF Healthy
<1>1. CASE ~Interesting(s)
  BY <1>1 DEF Located, SameQueue
<1>2. CASE Interesting(s)
  <2>1. best \in Block BY <1>0, <1>2 DEF NodeStates, Interesting
  <2>2. tip \in Block /\ Ancestors(tip) \subseteq data BY DEF Base
  <2>3. guess \in Block /\ Ancestors(guess) \subseteq data
    <3>1. CASE s.pindexLastCommonBlock # None
      <4>1. s.pindexLastCommonBlock \in Block \cup {None} BY <1>0 DEF NodeStates
      <4>2. QED BY <3>1, <4>1 DEF Healthy
    <3>2. CASE s.pindexLastCommonBlock = None
      <4> DEFINE i == IF nHeight(best) < nHeight(tip) THEN nHeight(best) ELSE nHeight(tip)
      <4>1. i \in 0..nHeight(tip) BY <2>1, <2>2, AncestorFacts
      <4>2. guess = GetAncestor(tip, i) BY <3>2 DEF GuessedCommonBlock
      <4> HIDE DEF i, guess
      <4>3. guess \in Ancestors(tip) BY <2>2, <4>1, <4>2, AncestorFacts
      <4>4. QED BY <2>2, <4>3, AncestorsClosed
    <3>3. QED BY <3>1, <3>2
  <2> HIDE DEF guess, best
  <2>4. c \in Ancestors(guess) BY <2>1, <2>3, CommonAncestor
  <2>5. c \in Block /\ Ancestors(c) \subseteq data BY <2>3, <2>4, AncestorsClosed
  <2>6. Located(s) = t BY <1>2 DEF Located, guess, best
  <2> HIDE DEF c
  <2>7. t \in NodeStates /\ t.pindexLastCommonBlock = c BY <1>0, <2>5 DEF NodeStates
  <2>8. /\ SameQueue(s, t) /\ t.stalling = s.stalling /\ t.downloading = s.downloading
        /\ t.fShouldBan = s.fShouldBan
    BY <1>0 DEF NodeStates, SameQueue
  <2>9. Healthy(p, t, data) BY <2>5, <2>7, <2>8 DEF Healthy, SameQueue
  <2>10. QED BY <2>5, <2>6, <2>7, <2>8, <2>9
<1>3. QED BY <1>1, <1>2, <1>0 DEF Located

\* The heights of the walk are heights of the peer's branch above the genesis block.
LEMMA AheadIs ==
    ASSUME NEW s \in NodeStates, Interesting(s) => s.pindexLastCommonBlock \in Block
    PROVE  /\ Interesting(s) => /\ s.pindexBestKnownBlock \in Block
                                /\ nHeight(s.pindexBestKnownBlock) \in Nat
                                /\ Ahead(s) \subseteq 1..nHeight(s.pindexBestKnownBlock)
           /\ ~Interesting(s) => Ahead(s) = {}
<1>1. CASE ~Interesting(s) BY <1>1 DEF Ahead
<1>2. CASE Interesting(s)
  <2> DEFINE best == s.pindexBestKnownBlock
             start == nHeight(s.pindexLastCommonBlock)
             top == nHeight(best)
  <2>1. best \in Block BY <1>2 DEF NodeStates, Interesting
  <2>2. start \in Nat /\ top \in Nat BY <1>2, <2>1, AncestorFacts
  <2>3. Ahead(s) = start + 1..(IF top <= start + Window THEN top ELSE start + Window + 1)
    BY <1>2 DEF Ahead
  <2> HIDE DEF start, top
  <2>4. Ahead(s) \subseteq 1..top BY <2>2, <2>3, BoundAssumption
  <2>5. QED BY <1>2, <2>1, <2>2, <2>4 DEF top
<1>3. QED BY <1>1, <1>2

\* The common block moves to a linked one.
LEMMA AdvancedHealthy ==
    ASSUME NEW p, NEW s, Healthy(p, s, data), NEW end,
           Interesting(s) => s.pindexLastCommonBlock \in Block
    PROVE  Healthy(p, Advanced(s, end), data) /\ SameQueue(s, Advanced(s, end))
<1> DEFINE ours == {i \in Ahead(s) : i < end /\ At(s, i) \in data \cup chainActive /\ Linked(At(s, i))}
           last == CHOOSE i \in ours : \A j \in ours : j <= i
           c == At(s, last)
           t == [s EXCEPT !.pindexLastCommonBlock = c]
<1>0. s \in NodeStates BY DEF Healthy
<1>1. CASE ours = {}
  <2>1. Advanced(s, end) = s BY <1>1 DEF Advanced
  <2>2. QED BY <2>1 DEF SameQueue
<1>2. CASE ours # {}
  <2> DEFINE best == s.pindexBestKnownBlock
  <2>1. Interesting(s) BY <1>0, <1>2, AheadIs
  <2>2. best \in Block /\ nHeight(best) \in Nat /\ Ahead(s) \subseteq 1..nHeight(best)
    BY <1>0, <2>1, AheadIs
  <2>3. ours \in SUBSET Nat /\ \A m \in ours : m <= nHeight(best) BY <2>2
  <2>4. \E n \in ours : \A m \in ours : m <= n BY <1>2, <2>2, <2>3, NatGreatest
  <2>5. last \in ours BY <2>4
  <2>6. last \in 0..nHeight(best) /\ Linked(c) BY <2>2, <2>5
  <2>7. Advanced(s, end) = t BY <1>2 DEF Advanced
  <2> HIDE DEF last
  <2>8. c \in Block BY <2>2, <2>6, AncestorFacts DEF At
  <2>9. Ancestors(c) \subseteq data BY <2>6 DEF Linked
  <2> HIDE DEF c
  <2>10. t \in NodeStates /\ t.pindexLastCommonBlock = c BY <1>0, <2>8 DEF NodeStates
  <2>11. /\ SameQueue(s, t) /\ t.stalling = s.stalling /\ t.downloading = s.downloading
         /\ t.fShouldBan = s.fShouldBan
    BY <1>0 DEF NodeStates, SameQueue
  <2>12. Healthy(p, t, data) BY <2>9, <2>10, <2>11 DEF Healthy, SameQueue
  <2>13. QED BY <2>7, <2>11, <2>12
<1>3. QED BY <1>1, <1>2

\* The first k numbers of a set are at most k.
LEMMA FirstFew ==
    ASSUME NEW b \in Nat, NEW S \in SUBSET (0..b), NEW k \in Nat
    PROVE  /\ IsFiniteSet({i \in S : Cardinality({j \in S : j <= i}) <= k})
           /\ Cardinality({i \in S : Cardinality({j \in S : j <= i}) <= k}) <= k
<1> DEFINE upTo(i) == {j \in S : j <= i}
           T == {i \in S : Cardinality(upTo(i)) <= k}
<1>1. IsFiniteSet(S)
  <2>1. IsFiniteSet(0..b) BY FS_Interval
  <2>2. QED BY <2>1, FS_Subset
<1>2. IsFiniteSet(T) /\ \A i : IsFiniteSet(upTo(i)) BY <1>1, FS_Subset
<1>3. CASE T = {}
  <2>1. Cardinality(T) = 0 BY <1>3, FS_EmptySet, Zenon
  <2>2. QED BY <1>2, <2>1
<1>4. CASE T # {}
  <2>1. T \in SUBSET Nat /\ \A m \in T : m <= b
    <3>1. \A x \in S : x \in Nat /\ x <= b OBVIOUS
    <3>2. \A x \in T : x \in S OBVIOUS
    <3> HIDE DEF T
    <3>3. QED BY <3>1, <3>2
  <2>2. PICK m \in T : \A x \in T : x <= m BY <1>4, <2>1, NatGreatest
  <2>3. T \subseteq upTo(m) /\ Cardinality(upTo(m)) <= k BY <2>2
  <2> HIDE DEF T, upTo
  <2>4. Cardinality(T) <= Cardinality(upTo(m)) BY <1>2, <2>3, FS_Subset
  <2>5. Cardinality(T) \in Nat /\ Cardinality(upTo(m)) \in Nat BY <1>2, FS_CardinalityType
  <2>6. Cardinality(T) <= k BY <2>3, <2>4, <2>5
  <2>7. QED BY <1>2, <2>6 DEF T, upTo
<1>5. QED BY <1>3, <1>4

\* The numbers of S up to i.
UpTo(S, i) == {j \in S : j <= i}

\* A set with more than k numbers up to e has a k-th one, and it is below the last of them.
LEMMA ReachesCount ==
    ASSUME NEW b \in Nat, NEW S \in SUBSET (0..b), NEW k \in Nat \ {0}, NEW e \in Nat,
           ~(Cardinality(UpTo(S, e)) <= k)
    PROVE  \E i \in S : Cardinality(UpTo(S, i)) = k /\ i < e
<1> USE DEF UpTo
<1> DEFINE upTo(i) == UpTo(S, i)
           c(i) == Cardinality(upTo(i))
<1>1. IsFiniteSet(S) /\ \A x \in S : x \in Nat
  <2>1. IsFiniteSet(0..b) BY FS_Interval
  <2>2. IsFiniteSet(S) BY <2>1, FS_Subset
  <2>3. QED BY <2>2
<1>2. \A i : IsFiniteSet(upTo(i)) /\ c(i) \in Nat
  <2>1. \A i : IsFiniteSet(upTo(i)) BY <1>1, FS_Subset
  <2>2. QED BY <2>1, FS_CardinalityType
<1>3. \A i, j : j \in upTo(i) <=> j \in S /\ j <= i OBVIOUS
<1>4. \A i : upTo(i) = {} => c(i) = 0
  <2> SUFFICES ASSUME NEW i, upTo(i) = {} PROVE c(i) = 0 OBVIOUS
  <2>1. QED BY FS_EmptySet, Zenon
<1>5. ~(c(e) <= k) OBVIOUS
<1>6. \A i \in S : Cardinality(upTo(i) \ {i}) = c(i) - 1
  <2> SUFFICES ASSUME NEW i \in S PROVE Cardinality(upTo(i) \ {i}) = c(i) - 1 OBVIOUS
  <2>1. i \in upTo(i) /\ IsFiniteSet(upTo(i)) BY <1>1, <1>2
  <2> HIDE DEF upTo
  <2>2. QED BY <2>1, FS_RemoveElement
<1> HIDE DEF upTo
<1>7. PICK m \in upTo(e) : \A x \in upTo(e) : x <= m
  <2>1. upTo(e) # {}
    <3>1. c(e) # 0 BY <1>5
    <3>2. QED BY <1>4, <3>1
  <2>2. upTo(e) \in SUBSET Nat /\ \A x \in upTo(e) : x <= e BY <1>1, <1>3
  <2>3. QED BY <2>1, <2>2, NatGreatest
<1>8. m \in S /\ m \in Nat /\ m <= e BY <1>1, <1>3, <1>7
<1>9. c(m) > k
  <2>1. \A x \in upTo(m) : x \in upTo(e)
    <3> SUFFICES ASSUME NEW x \in upTo(m) PROVE x \in upTo(e) OBVIOUS
    <3>1. x \in S /\ x \in Nat /\ x <= m BY <1>1, <1>3
    <3>2. x <= e BY <1>8, <3>1
    <3>3. QED BY <1>3, <3>1, <3>2
  <2>2. \A x \in upTo(e) : x \in upTo(m) BY <1>3, <1>7
  <2>3. upTo(m) = upTo(e) BY <2>1, <2>2
  <2>4. c(m) = c(e) BY <2>3
  <2> HIDE DEF c
  <2>5. QED BY <1>2, <1>5, <2>4
<1> DEFINE E == {i \in S : c(i) >= k}
<1>10. m \in E
  <2> HIDE DEF c
  <2>1. c(m) \in Nat BY <1>2
  <2>2. QED BY <1>8, <1>9, <2>1
<1>11. PICK i \in E : \A x \in E : i <= x
  <2>1. E \in SUBSET Nat BY <1>1
  <2>2. QED BY <1>10, <2>1, NatLeast
<1>12. i \in S /\ i \in Nat /\ c(i) >= k BY <1>1, <1>11
<1> DEFINE P == upTo(i) \ {i}
<1>13. P \subseteq S /\ \A x \in S : x \in P <=> x < i
  <2>1. P \subseteq S /\ \A x \in S : x \in P <=> x <= i /\ x # i BY <1>3
  <2>2. \A x \in S : x <= i /\ x # i <=> x < i BY <1>1, <1>12
  <2>3. QED BY <2>1, <2>2
<1>14. Cardinality(P) = c(i) - 1 BY <1>6, <1>12
<1> HIDE DEF P
<1>15. c(i) <= k
  <2>1. CASE P = {}
    <3>1. Cardinality(P) = 0 BY <2>1, FS_EmptySet, Zenon
    <3>2. c(i) \in Nat BY <1>2
    <3> HIDE DEF c
    <3>3. QED BY <1>14, <3>1, <3>2
  <2>2. CASE P # {}
    <3>1. P \in SUBSET Nat /\ \A x \in P : x <= i
      <4>1. \A x \in P : x \in Nat /\ x < i BY <1>1, <1>13
      <4>2. QED BY <1>12, <4>1
    <3>2. PICK l \in P : \A x \in P : x <= l BY <1>12, <2>2, <3>1, NatGreatest
    <3>3. l \in S /\ l \in Nat /\ l < i BY <1>1, <1>13, <3>2
    <3>4. upTo(l) = P
      <4>1. \A x \in upTo(l) : x \in P
        <5> SUFFICES ASSUME NEW x \in upTo(l) PROVE x \in P OBVIOUS
        <5>1. x \in S /\ x \in Nat /\ x <= l BY <1>1, <1>3
        <5>2. x < i BY <1>12, <3>3, <5>1
        <5>3. QED BY <1>13, <5>1, <5>2
      <4>2. \A x \in P : x \in upTo(l) BY <1>3, <1>13, <3>2
      <4>3. QED BY <4>1, <4>2
    <3>5. c(l) = c(i) - 1 BY <1>14, <3>4, Zenon
    <3>6. l \notin E BY <1>11, <1>12, <3>3
    <3>7. ~(c(l) >= k) BY <3>3, <3>6
    <3>8. c(l) \in Nat /\ c(i) \in Nat BY <1>2
    <3> HIDE DEF c, E
    <3>9. QED BY <3>5, <3>7, <3>8
  <2>3. QED BY <2>1, <2>2
<1>16. c(i) = k
  <2>1. c(i) \in Nat BY <1>2
  <2> HIDE DEF c
  <2>2. QED BY <1>12, <1>15, <2>1
<1>17. i < m
  <2>1. i <= m BY <1>10, <1>11
  <2>2. i # m BY <1>9, <1>16
  <2>3. QED BY <1>8, <1>12, <2>1, <2>2
<1>18. i < e BY <1>8, <1>12, <1>17
<1>19. QED BY <1>12, <1>16, <1>18 DEF upTo

\* The blocks listed: each of the branch to h once, as many as there are heights.
LEMMA BlocksAtIs ==
    ASSUME NEW h \in Block, NEW heights \in SUBSET (1..nHeight(h)), NEW X,
           \A i \in heights : GetAncestor(h, i) \notin X
    PROVE  /\ BlocksAt(h, heights) \in Seq(Hash)
           /\ Len(BlocksAt(h, heights)) = Cardinality(heights)
           /\ \A i, j \in 1..Len(BlocksAt(h, heights)) :
                  BlocksAt(h, heights)[i] = BlocksAt(h, heights)[j] => i = j
           /\ ToSet(BlocksAt(h, heights)) \cap X = {}
<1> DEFINE top == nHeight(h)
           k == Cardinality(heights)
           o == Ascending(heights)
           bs == [i \in 1..k |-> GetAncestor(h, o[i])]
<1>1. top \in Nat BY AncestorFacts
<1>2. heights \in SUBSET (0..top) BY <1>1
<1>3. k \in Nat
  <2>1. IsFiniteSet(0..top) BY <1>1, FS_Interval
  <2>2. IsFiniteSet(heights) BY <1>2, <2>1, FS_Subset
  <2>3. QED BY <2>2, FS_CardinalityType
<1>4. o \in [1..k -> heights] /\ \A i, j \in 1..k : i # j => o[i] # o[j]
  <2> HIDE DEF top
  <2>1. QED BY <1>1, <1>2, AscendingIs
<1>5. BlocksAt(h, heights) = bs BY DEF BlocksAt
<1> HIDE DEF k, o
<1>6. \A i \in 1..k : o[i] \in heights BY <1>4
<1>7. \A i \in 1..k : bs[i] \in Hash /\ bs[i] = GetAncestor(h, o[i]) BY <1>6, AboveGenesis
<1>8. \A i \in 1..k : nHeight(GetAncestor(h, o[i])) = o[i]
  <2> SUFFICES ASSUME NEW i \in 1..k PROVE nHeight(GetAncestor(h, o[i])) = o[i] OBVIOUS
  <2>1. o[i] \in 0..top BY <1>2, <1>6
  <2>2. QED BY <2>1, AncestorFacts
<1>9. bs \in Seq(Hash) /\ Len(bs) = k
  <2>1. bs \in [1..k -> Hash] BY <1>7
  <2> HIDE DEF bs
  <2>2. QED BY <1>3, <2>1
<1>10. \A i, j \in 1..k : bs[i] = bs[j] => i = j BY <1>4, <1>7, <1>8
<1>11. ToSet(bs) \cap X = {}
  <2>1. DOMAIN bs = 1..k OBVIOUS
  <2>2. \A i \in 1..k : bs[i] \notin X BY <1>6, <1>7
  <2> HIDE DEF bs
  <2>3. QED BY <2>1, <2>2 DEF ToSet
<1> HIDE DEF bs
<1>12. QED BY <1>5, <1>9, <1>10, <1>11 DEF k

\* Nothing is listed where nothing is to be fetched.
LEMMA BlocksAtNone == ASSUME NEW h PROVE BlocksAt(h, {}) = <<>>
<1>1. Cardinality({}) = 0 BY FS_EmptySet
<1>2. 1..0 = {} OBVIOUS
<1>3. BlocksAt(h, {}) = [i \in 1..Cardinality({}) |-> GetAncestor(h, Ascending({})[i])] BY DEF BlocksAt
<1>4. BlocksAt(h, {}) = [i \in 1..0 |-> GetAncestor(h, Ascending({})[i])] BY <1>1, <1>3, Zenon
<1>5. BlocksAt(h, {}) \in [1..0 -> Hash] BY <1>2, <1>4
<1>6. BlocksAt(h, {}) \in Seq(Hash) /\ Len(BlocksAt(h, {})) = 0 BY <1>5
<1>7. QED BY <1>6, EmptySeq

\* The walk finds blocks nobody was asked for, no more than it looks for: it ends where the last
\* of count wanted blocks is.
LEMMA FetchedIs ==
    ASSUME NEW s \in NodeStates, Interesting(s), s.pindexLastCommonBlock \in Block,
           NEW count \in Nat \ {0}, NEW wanted, wanted = WantedAhead(s),
           NEW end, end = WalkEnd(s, wanted, count)
    PROVE  /\ Fetched(s, wanted, end) \in SUBSET (1..nHeight(s.pindexBestKnownBlock))
           /\ Cardinality(Fetched(s, wanted, end)) <= count
           /\ \A i \in Fetched(s, wanted, end) :
                  GetAncestor(s.pindexBestKnownBlock, i) \notin DOMAIN inFlight \cup data
<1> DEFINE top == nHeight(s.pindexBestKnownBlock)
           F == Fetched(s, wanted, end)
           ends(i) == \/ At(s, i) \in failed
                      \/ i \in wanted /\ ~InWindow(s, i)
                      \/ i \in wanted /\ Cardinality({j \in wanted : j <= i}) = count
           E == {i \in Ahead(s) : ends(i)}
<1>1. top \in Nat /\ Ahead(s) \subseteq 1..top BY AheadIs
<1>2. wanted \subseteq Ahead(s) /\ \A i \in wanted : Wanted(At(s, i)) BY DEF WantedAhead
<1>3. F \subseteq wanted /\ F \subseteq {j \in wanted : j <= end} BY DEF Fetched
<1>4. end = Lowest(E, top + 1) BY DEF WalkEnd
<1>5. \A i \in wanted : Cardinality({j \in wanted : j <= i}) = count => i \in E BY <1>2
<1> HIDE DEF top, F, E
<1>6. E \subseteq 1..top BY <1>1 DEF E
<1>7. end \in Nat /\ \A i \in E : end <= i
  <2>1. CASE E = {} BY <1>1, <1>4, <2>1 DEF Lowest
  <2>2. CASE E # {}
    <3>1. E \in SUBSET Nat BY <1>6
    <3>2. end \in E /\ \A j \in E : end <= j BY <1>4, <2>2, <3>1, LowestIs
    <3>3. QED BY <3>1, <3>2
  <2>3. QED BY <2>1, <2>2
<1>8. wanted \in SUBSET (0..top)
  <2>1. \A x \in 1..top : x \in 0..top BY <1>1
  <2>2. QED BY <1>1, <1>2, <2>1
<1> DEFINE upTo == {j \in wanted : j <= end}
<1>9. Cardinality(upTo) <= count
  <2> SUFFICES ASSUME ~(Cardinality(upTo) <= count) PROVE FALSE OBVIOUS
  <2>1. PICK i \in wanted : Cardinality(UpTo(wanted, i)) = count /\ i < end
    <3>1. count \in Nat \ {0} /\ top \in Nat /\ end \in Nat BY <1>1, <1>7
    <3>2. ~(Cardinality(UpTo(wanted, end)) <= count) BY DEF UpTo
    <3> HIDE DEF upTo, ends
    <3>3. QED BY <1>8, <3>1, <3>2, ReachesCount
  <2>2. i \in E BY <1>5, <2>1 DEF UpTo
  <2>3. i \in Nat BY <1>6, <2>2
  <2>4. QED BY <1>7, <2>1, <2>2, <2>3
<1>10. IsFiniteSet(upTo)
  <2>1. IsFiniteSet(0..top) BY <1>1, FS_Interval
  <2>2. upTo \subseteq 0..top BY <1>8
  <2>3. QED BY <2>1, <2>2, FS_Subset
<1>11. Cardinality(F) <= count
  <2> HIDE DEF upTo
  <2>1. F \subseteq upTo BY <1>3 DEF upTo
  <2>2. IsFiniteSet(F) /\ Cardinality(F) <= Cardinality(upTo) BY <1>10, <2>1, FS_Subset
  <2>3. Cardinality(F) \in Nat /\ Cardinality(upTo) \in Nat BY <1>10, <2>2, FS_CardinalityType
  <2>4. QED BY <1>9, <2>2, <2>3
<1>12. \A i \in F : GetAncestor(s.pindexBestKnownBlock, i) \notin DOMAIN inFlight \cup data
  BY <1>2, <1>3 DEF Wanted, At
<1>13. F \in SUBSET (1..top) BY <1>1, <1>2, <1>3
<1>14. QED BY <1>11, <1>12, <1>13 DEF F, top

\* The node the window waits for has a block in its queue, and is another one.
LEMMA StallerIs ==
    ASSUME DownloadInv, NEW s \in NodeStates, Interesting(s) => s.pindexLastCommonBlock \in Block,
           NEW p, NEW wanted, NEW end, Staller(s, p, wanted, end) # None
    PROVE  /\ Staller(s, p, wanted, end) \in Peer \ {p}
           /\ state[Staller(s, p, wanted, end)].vBlocksInFlight # <<>>
<1> DEFINE waiting == {i \in Ahead(s) : i < end /\ At(s, i) \in DOMAIN inFlight}
           x == At(s, Lowest(waiting, 0))
           r == Staller(s, p, wanted, end)
<1>1. waiting # {} /\ r = inFlight[x] /\ r # p BY DEF Staller
<1>2. waiting \in SUBSET Nat BY AheadIs
<1> HIDE DEF r
<1>3. x \in DOMAIN inFlight
  <2>1. Lowest(waiting, 0) \in waiting BY <1>1, <1>2, LowestIs
  <2>2. QED BY <2>1
<1> HIDE DEF x
<1>4. Downloads.state = state /\ Downloads.flight = inFlight BY DEF Downloads
<1>5. r \in Peer BY <1>1, <1>3, <1>4 DEF DownloadInv, Book, Base
<1>6. QueueExact(state[r], Held(inFlight, r)) /\ Healthy(r, state[r], data)
  BY <1>4, <1>5 DEF DownloadInv, Book
<1>7. x \in Hashes(state[r].vBlocksInFlight) BY <1>1, <1>3, <1>6 DEF QueueExact, Held
<1>8. Len(state[r].vBlocksInFlight) # 0
  <2>1. state[r].vBlocksInFlight \in Seq(Requests) BY <1>6, NodeFields DEF Healthy
  <2>2. Len(state[r].vBlocksInFlight) \in Nat BY <2>1, LenProperties
  <2>3. PICK i \in 1..Len(state[r].vBlocksInFlight) : TRUE BY <1>7 DEF Hashes
  <2>4. QED BY <2>2, <2>3
<1>9. state[r].vBlocksInFlight # <<>>
  <2>1. Len(<<>>) = 0 BY EmptySeq
  <2>2. QED BY <1>8, <2>1
<1>10. QED BY <1>1, <1>5, <1>9 DEF r

\* A node with a block in its queue is accused.
LEMMA BookAccuse ==
    ASSUME NEW live \in SUBSET Peer, NEW have, NEW d, Book(d, live, have), NEW p, NEW staller,
           staller # None => staller \in Peer /\ d.state[staller].vBlocksInFlight # <<>>
    PROVE  Book(Accuse(d, p, staller), live, have)
<1>1. CASE Accuse(d, p, staller) = d BY <1>1
<1>2. CASE Accuse(d, p, staller) # d
  <2> DEFINE s == d.state[staller]
             t == [s EXCEPT !.stalling = 0]
  <2>1. staller \in Peer /\ s.vBlocksInFlight # <<>> BY <1>2 DEF Accuse
  <2>2. Accuse(d, p, staller) = [d EXCEPT !.state[staller].stalling = 0] BY <1>2 DEF Accuse
  <2>3. [d EXCEPT !.state[staller].stalling = 0] = [d EXCEPT !.state[staller] = t]
    <3>1. DOMAIN d.state = Peer BY DEF Book
    <3>2. QED BY <2>1, <3>1
  <2>4. Healthy(staller, s, have) BY <2>1 DEF Book
  <2>5. s \in NodeStates BY <2>4 DEF Healthy
  <2>6. 0 \in 0..StallTimeout + 1 BY BoundAssumption
  <2> HIDE DEF s
  <2>7. /\ t \in NodeStates /\ SameQueue(s, t) /\ t.stalling = 0 /\ t.downloading = s.downloading
        /\ t.fShouldBan = s.fShouldBan /\ t.pindexLastCommonBlock = s.pindexLastCommonBlock
    BY <2>5, <2>6 DEF NodeStates, SameQueue
  <2> HIDE DEF t
  <2>8. Healthy(staller, t, have) BY <2>1, <2>4, <2>7 DEF Healthy, SameQueue
  <2>9. Book([d EXCEPT !.state[staller] = t], live, have)
    BY <2>1, <2>7, <2>8, BookState DEF SameQueue, s
  <2>10. QED BY <2>2, <2>3, <2>9
<1>3. QED BY <1>1, <1>2

------------------------------------------------------------------------------
(* The actions. *)

\* The invariant after a step, with the new bookkeeping as one record.
LEMMA NextBook ==
    ASSUME Base', NEW d, state' = d.state, inFlight' = d.flight,
           nPeersWithValidatedDownloads' = d.peers, Book(d, connected', data')
    PROVE  DownloadInv'
<1>1. d = [state |-> d.state, flight |-> d.flight, peers |-> d.peers] BY DEF Book
<1>2. Downloads' = d BY <1>1 DEF Downloads
<1>3. Book(Downloads', connected', data') BY <1>2
<1>4. QED BY <1>3 DEF DownloadInv

\* The parts of the bookkeeping, seen from a node.
LEMMA BookNow ==
    ASSUME DownloadInv, NEW p \in Peer
    PROVE  /\ Base /\ Book(Downloads, connected, data) /\ connected \in SUBSET Peer
           /\ Downloads.state = state /\ Downloads.flight = inFlight
           /\ Downloads.peers = nPeersWithValidatedDownloads
           /\ Healthy(p, state[p], data) /\ state[p] \in NodeStates
           /\ QueueExact(state[p], Held(inFlight, p))
<1>1. /\ Downloads.state = state /\ Downloads.flight = inFlight
      /\ Downloads.peers = nPeersWithValidatedDownloads
  BY DEF Downloads
<1>2. Base /\ Book(Downloads, connected, data) BY DEF DownloadInv
<1>3. Healthy(p, state[p], data) /\ QueueExact(state[p], Held(inFlight, p)) BY <1>1, <1>2 DEF Book
<1>4. QED BY <1>1, <1>2, <1>3 DEF Base, Healthy

\* A node that just connected.
LEMMA NewNode ==
    ASSUME NEW p \in Peer, NEW have
    PROVE  Healthy(p, CNodeState, have) /\ QueueExact(CNodeState, {})
<1>1. CNodeState \in NodeStates
  <2>1. MaxAge \in 0..MaxAge BY MaxAgeType
  <2>2. 0 \in 0..MaxInTransit BY BoundAssumption
  <2>3. <<>> \in Seq([hash : Hash, fValidatedHeaders : BOOLEAN]) BY EmptySeq
  <2>4. 0 \in 0..BanScore BY BoundAssumption
  <2>5. QED BY <2>1, <2>2, <2>3, <2>4 DEF CNodeState, NodeStates
<1>2. Healthy(p, CNodeState, have) BY <1>1 DEF Healthy, CNodeState
<1>3. QueueExact(CNodeState, {})
  <2>1. Len(<<>>) = 0 BY EmptySeq
  <2>2. Once(<<>>) /\ Hashes(<<>>) = {} BY <2>1 DEF Once, Hashes
  <2>3. Validated(<<>>) = {} BY DEF Validated, ToSet
  <2>4. Cardinality(Validated(<<>>)) = 0 BY <2>3, FS_EmptySet, Zenon
  <2>5. QED BY <2>1, <2>2, <2>4 DEF QueueExact, CNodeState
<1>4. QED BY <1>2, <1>3

\* Nothing is known and nobody is connected.
LEMMA InitDownload == Init => DownloadInv
<1> SUFFICES ASSUME Init PROVE DownloadInv OBVIOUS
<1>1. Genesis \in Block /\ Ancestors(Genesis) = {Genesis}
  <2>1. Genesis \in Block BY DEF Block
  <2>2. Branch[Genesis] = <<Genesis>> BY BranchAssumption
  <2>3. ToSet(<<Genesis>>) = {Genesis} BY DEF ToSet
  <2>4. QED BY <2>1, <2>2, <2>3 DEF Ancestors, AncestorSets
<1>2. Base
  <2>1. /\ index \subseteq Block /\ \A h \in index : Ancestors(h) \subseteq index
        /\ data \subseteq index /\ tip \in data /\ Ancestors(tip) \subseteq data
    BY <1>1 DEF Init
  <2>2. failed \subseteq index \cap Bad /\ synced \in BOOLEAN BY DEF Init
  <2>3. connected \subseteq Peer /\ closing \subseteq connected /\ Prompt \cap closing = {} BY DEF Init
  <2>4. connects \in 0..MaxConnect BY BoundAssumption DEF Init
  <2>5. QED BY <2>1, <2>2, <2>3, <2>4 DEF Base
<1>3. \A p \in Peer : Healthy(p, CNodeState, data) BY NewNode
<1>4. \A p \in Peer : QueueExact(CNodeState, {}) BY NewNode
<1>5. DOMAIN inFlight = {} /\ \A p \in Peer : Held(inFlight, p) = {} BY DEF Init, Held
<1>6. Cardinality(Downloaders(state)) = 0
  <2>1. Downloaders(state) = {} BY DEF Downloaders, Init, CNodeState
  <2>2. QED BY <2>1, FS_EmptySet, Zenon
<1>7. Downloads = [state |-> state, flight |-> inFlight, peers |-> 0] BY DEF Downloads, Init
<1>8. state = [p \in Peer |-> state[p]] /\ \A p \in Peer : state[p] = CNodeState BY DEF Init
<1>9. Book(Downloads, connected, data)
  <2>1. /\ Downloads.state = state /\ Downloads.flight = inFlight /\ Downloads.peers = 0
        /\ Downloads = [state |-> Downloads.state, flight |-> Downloads.flight, peers |-> Downloads.peers]
    BY <1>7
  <2>2. \A p \in Peer : Healthy(p, state[p], data) BY <1>3, <1>8
  <2>3. \A p \in Peer : QueueExact(state[p], Held(inFlight, p)) BY <1>4, <1>5, <1>8
  <2>4. QED BY <1>5, <1>6, <1>8, <2>1, <2>2, <2>3 DEF Book
<1>10. QED BY <1>2, <1>9 DEF DownloadInv

\* A node connects.
LEMMA InitializeKeeps ==
    ASSUME DownloadInv, NEW p \in Peer, InitializeNode(p) PROVE DownloadInv'
<1>1. Base /\ Book(Downloads, connected, data) BY BookNow
<1>2. Base' BY <1>1, BoundAssumption DEF Base, InitializeNode, chain
<1>3. /\ state' = Downloads.state /\ inFlight' = Downloads.flight
      /\ nPeersWithValidatedDownloads' = Downloads.peers
  BY DEF InitializeNode, Downloads
<1>4. connected \subseteq connected' /\ data' = data BY DEF InitializeNode, chain
<1>5. DOMAIN Downloads.flight \cap data = {} BY <1>1 DEF Book
<1>6. Book(Downloads, connected', data') BY <1>1, <1>4, <1>5, BookMore
<1>7. QED BY <1>2, <1>3, <1>6, NextBook

\* The initial download may be found to be over.
LEMMA AskedKeeps ==
    ASSUME DownloadInv, Asked PROVE DownloadInv'
<1>1. Base /\ Book(Downloads, connected, data) BY DEF DownloadInv
<1>2. /\ UNCHANGED <<index, data, failed, tip, connected, closing, connects>>
      /\ synced' \in BOOLEAN
  BY DEF Asked, chain
<1>3. Base' BY <1>1, <1>2 DEF Base
<1>4. /\ state' = Downloads.state /\ inFlight' = Downloads.flight
      /\ nPeersWithValidatedDownloads' = Downloads.peers
  BY DEF Asked, Downloads
<1>5. Book(Downloads, connected', data') BY <1>1, <1>2
<1>6. QED BY <1>3, <1>4, <1>5, NextBook

\* A connection is to be closed.
LEMMA DropKeeps ==
    ASSUME DownloadInv, NEW p \in Peer, Drop(p) PROVE DownloadInv'
<1>1. Base /\ Book(Downloads, connected, data) BY BookNow
<1>2. Base' BY <1>1 DEF Base, Drop, Open, chain
<1>3. /\ state' = Downloads.state /\ inFlight' = Downloads.flight
      /\ nPeersWithValidatedDownloads' = Downloads.peers
      /\ connected' = connected /\ data' = data
  BY DEF Drop, Downloads, chain
<1>4. Book(Downloads, connected', data') BY <1>1, <1>3
<1>5. QED BY <1>2, <1>3, <1>4, NextBook

\* A node leaves, with its queue and its share of the counters.
LEMMA FinalizeKeeps ==
    ASSUME DownloadInv, NEW p \in Peer, FinalizeNode(p) PROVE DownloadInv'
<1> DEFINE q == state[p].vBlocksInFlight
           flight == Abandoned(p)
           peers == IF state[p].nBlocksInFlightValidHeaders # 0 THEN nPeersWithValidatedDownloads - 1
                    ELSE nPeersWithValidatedDownloads
           e == [state |-> [state EXCEPT ![p] = CNodeState], flight |-> flight, peers |-> peers]
<1>1. /\ Base /\ Book(Downloads, connected, data) /\ connected \in SUBSET Peer
      /\ Downloads.state = state /\ Downloads.flight = inFlight
      /\ Downloads.peers = nPeersWithValidatedDownloads
      /\ state[p] \in NodeStates /\ QueueExact(state[p], Held(inFlight, p))
  BY BookNow
<1>2. /\ connected' = connected \ {p} /\ closing' = closing \ {p} /\ data' = data
      /\ UNCHANGED <<index, failed, tip, synced, connects>>
  BY DEF FinalizeNode, chain
<1>3. Base' BY <1>1, <1>2 DEF Base
<1>4. DOMAIN flight = DOMAIN inFlight \ Held(inFlight, p) /\ \A h \in DOMAIN flight : flight[h] = inFlight[h]
  <2>1. q \in Seq(Requests) BY <1>1, NodeFields
  <2>2. Hashes(q) = {x.hash : x \in ToSet(q)} BY <2>1, QueueSet
  <2>3. {x.hash : x \in ToSet(q)} = Held(inFlight, p) BY <1>1, <2>2 DEF QueueExact
  <2>4. flight = [h \in DOMAIN inFlight \ Held(inFlight, p) |-> inFlight[h]] BY <2>3 DEF Abandoned
  <2> HIDE DEF flight
  <2>5. QED BY <2>4
<1> HIDE DEF flight
<1>5. Held(flight, p) = {} /\ \A r \in Peer \ {p} : Held(flight, r) = Held(inFlight, r)
  BY <1>4 DEF Held
<1>6. /\ DOMAIN inFlight \subseteq Hash /\ DOMAIN inFlight \cap data = {}
      /\ \A h \in DOMAIN inFlight : inFlight[h] \in connected
  BY <1>1 DEF Book
<1>7. /\ DOMAIN flight \subseteq Hash /\ DOMAIN flight \cap data = {}
      /\ \A h \in DOMAIN flight : flight[h] \in connected /\ flight[h] # p
  BY <1>4, <1>6 DEF Held
<1>8. Healthy(p, CNodeState, data) /\ QueueExact(CNodeState, Held(flight, p)) BY <1>5, NewNode
<1>9. CNodeState.nBlocksInFlightValidHeaders = 0 BY DEF CNodeState
<1>10. state[p].nBlocksInFlightValidHeaders \in Nat BY <1>1, NodeFields
<1>11. peers = CASE CNodeState.nBlocksInFlightValidHeaders > 0
                       /\ ~(Downloads.state[p].nBlocksInFlightValidHeaders > 0) -> Downloads.peers + 1
                 [] ~(CNodeState.nBlocksInFlightValidHeaders > 0)
                       /\ Downloads.state[p].nBlocksInFlightValidHeaders > 0 -> Downloads.peers - 1
                 [] OTHER -> Downloads.peers
  BY <1>1, <1>9, <1>10
<1> HIDE DEF peers
<1>12. e = [state |-> [Downloads.state EXCEPT ![p] = CNodeState], flight |-> flight, peers |-> peers]
  BY <1>1
<1>13. Book(e, connected, data)
  <2>1. \A r \in Peer \ {p} : Held(flight, r) = Held(Downloads.flight, r) BY <1>1, <1>5
  <2> HIDE DEF e
  <2>2. QED BY <1>1, <1>7, <1>8, <1>11, <1>12, <2>1, BookOne
<1>14. e.state = [state EXCEPT ![p] = CNodeState] /\ e.flight = flight /\ e.peers = peers OBVIOUS
<1>15. Book(e, connected', data')
  <2>1. \A h \in DOMAIN e.flight : e.flight[h] \in connected' BY <1>2, <1>7, <1>14
  <2> HIDE DEF e
  <2>2. QED BY <1>2, <1>13, <2>1 DEF Book
<1>16. /\ state' = e.state /\ inFlight' = e.flight /\ nPeersWithValidatedDownloads' = e.peers
  BY <1>14 DEF FinalizeNode, flight, peers
<1> HIDE DEF e
<1>17. QED BY <1>3, <1>15, <1>16, NextBook

\* Time passes: the clocks of the prompt peers do not run, for nothing is owed by them.
LEMMA TickKeeps ==
    ASSUME DownloadInv, Tick PROVE DownloadInv'
<1>1. Base /\ Book(Downloads, connected, data) BY DEF DownloadInv
<1>2. /\ UNCHANGED <<index, data, failed, tip, synced, connected, closing, connects>>
      /\ inFlight' = inFlight /\ nPeersWithValidatedDownloads' = nPeersWithValidatedDownloads
  BY DEF Tick, chain
<1>3. Base' BY <1>1, <1>2 DEF Base
<1> DEFINE age(p) == Older(state[p].downloading, MaxAge)
           stalled(p) == IF state[p].stalling = None THEN None
                         ELSE Older(state[p].stalling, StallTimeout + 1)
           new(p) == [state[p] EXCEPT !.downloading = age(p), !.stalling = stalled(p)]
<1>4. state' = [p \in Peer |-> new(p)] BY DEF Tick
<1>5. ASSUME NEW p \in Peer
      PROVE  Healthy(p, new(p), data) /\ SameQueue(state[p], new(p))
  <2>1. Healthy(p, state[p], data) /\ state[p] \in NodeStates BY BookNow
  <2>2. age(p) \in 0..MaxAge
    <3>1. state[p].downloading \in 0..MaxAge BY <2>1 DEF NodeStates
    <3>2. MaxAge \in Nat BY MaxAgeType
    <3>3. QED BY <3>1, <3>2 DEF Older
  <2>3. stalled(p) \in 0..StallTimeout + 1 \cup {None}
    <3>1. state[p].stalling \in 0..StallTimeout + 1 \cup {None} BY <2>1 DEF NodeStates
    <3>2. QED BY <3>1, BoundAssumption DEF Older
  <2>4. state[p].stalling = None => stalled(p) = None OBVIOUS
  <2> DEFINE s == state[p]
             a == age(p)
             b == stalled(p)
             t == [s EXCEPT !.downloading = a, !.stalling = b]
  <2>5. new(p) = t OBVIOUS
  <2> HIDE DEF s, a, b
  <2>6. /\ t \in NodeStates /\ SameQueue(s, t) /\ t.downloading = a /\ t.stalling = b
        /\ t.fShouldBan = s.fShouldBan /\ t.pindexLastCommonBlock = s.pindexLastCommonBlock
    BY <2>1, <2>2, <2>3 DEF NodeStates, SameQueue, s, a, b
  <2> HIDE DEF t
  <2>7. t.stalling # None => t.vBlocksInFlight # <<>>
    BY <2>1, <2>4, <2>6 DEF Healthy, SameQueue, s, b
  <2>8. p \in Prompt => t.vBlocksInFlight = <<>> /\ t.stalling = None
    <3>1. p \in Prompt => s.vBlocksInFlight = <<>> BY DEF Tick, s
    <3>2. QED BY <2>6, <2>7, <3>1 DEF SameQueue
  <2>9. Healthy(p, t, data) BY <2>1, <2>6, <2>7, <2>8 DEF Healthy, SameQueue, s
  <2>10. QED BY <2>5, <2>6, <2>9 DEF s
<1> HIDE DEF new
<1>6. \A p \in Peer : state'[p] = new(p) BY <1>4
<1>7. \A p \in Peer : Healthy(p, state'[p], data) BY <1>5, <1>6
<1>8. \A p \in Peer : QueueExact(state'[p], Held(inFlight, p))
  <2> SUFFICES ASSUME NEW p \in Peer PROVE QueueExact(state'[p], Held(inFlight, p)) OBVIOUS
  <2>1. QueueExact(state[p], Held(inFlight, p)) BY BookNow
  <2>2. SameQueue(state[p], state'[p]) BY <1>5, <1>6
  <2>3. QED BY <2>1, <2>2 DEF QueueExact, SameQueue
<1>9. Downloaders(state') = Downloaders(state)
  <2>1. \A p \in Peer : state'[p].nBlocksInFlightValidHeaders = state[p].nBlocksInFlightValidHeaders
    BY <1>5, <1>6 DEF SameQueue
  <2>2. QED BY <2>1 DEF Downloaders
<1> DEFINE d == [state |-> state', flight |-> inFlight, peers |-> nPeersWithValidatedDownloads]
<1>10. d.state = state' /\ d.flight = inFlight /\ d.peers = nPeersWithValidatedDownloads
       /\ d = [state |-> d.state, flight |-> d.flight, peers |-> d.peers]
  OBVIOUS
<1>11. Downloads.state = state /\ Downloads.flight = inFlight
       /\ Downloads.peers = nPeersWithValidatedDownloads BY DEF Downloads
<1>12. state' = [p \in Peer |-> state'[p]] BY <1>4
<1> HIDE DEF d
<1>13. Book(d, connected, data)
  BY <1>1, <1>7, <1>8, <1>9, <1>10, <1>11, <1>12 DEF Book
<1>14. Book(d, connected', data') BY <1>2, <1>13
<1>15. QED BY <1>2, <1>3, <1>10, <1>14, NextBook

\* A block is announced, and perhaps requested.
LEMMA InvKeeps ==
    ASSUME DownloadInv, NEW p \in Peer, NEW h \in Hash, InvMessage(p, h) PROVE DownloadInv'
<1> DEFINE s == UpdateBlockAvailability(state[p], h, index)
           fetch == /\ h \notin index /\ h \notin DOMAIN inFlight
                    /\ CanDirectFetch /\ s.nBlocksInFlight < MaxInTransit
           hashes == IF fetch THEN <<h>> ELSE <<>>
           d == [Downloads EXCEPT !.state[p] = s]
           e == MarkBlocksAsInFlight(d, p, hashes, FALSE)
<1>1. /\ Base /\ Book(Downloads, connected, data) /\ connected \in SUBSET Peer
      /\ Downloads.state = state /\ Downloads.flight = inFlight
      /\ Healthy(p, state[p], data)
  BY BookNow
<1>2. /\ UNCHANGED <<index, data, failed, tip, synced, connected, closing, connects>>
      /\ p \in connected
  BY DEF InvMessage, Open, chain
<1>3. SetDownloads(e) BY DEF InvMessage
<1>4. Base' BY <1>1, <1>2 DEF Base
<1>5. Healthy(p, s, data) /\ SameQueue(state[p], s)
  <2>1. index \in SUBSET Block BY <1>1 DEF Base
  <2>2. QED BY <1>1, <2>1, UpdateHealthy
<1> HIDE DEF s
<1>6. Book(d, connected, data) BY <1>1, <1>5, BookState DEF SameQueue
<1>7. d.state[p] = s /\ d.flight = inFlight
  <2>1. DOMAIN state = Peer BY <1>1 DEF Book
  <2>2. Downloads = [state |-> state, flight |-> inFlight, peers |-> nPeersWithValidatedDownloads]
    BY DEF Downloads
  <2>3. QED BY <2>1, <2>2
<1> HIDE DEF d
<1>8. s.nBlocksInFlight \in Nat BY <1>5, NodeFields DEF Healthy
<1>9. /\ hashes \in Seq(Hash) /\ \A i, j \in 1..Len(hashes) : hashes[i] = hashes[j] => i = j
      /\ ToSet(hashes) \cap (DOMAIN d.flight \cup data) = {}
      /\ hashes # <<>> => Len(hashes) <= Room(d.state[p])
  <2>1. CASE ~fetch
    <3>1. hashes = <<>> BY <2>1
    <3>2. <<>> \in Seq(Hash) /\ Len(<<>>) = 0 BY EmptySeq
    <3>3. ToSet(<<>>) = {} BY DEF ToSet
    <3> HIDE DEF hashes
    <3>4. QED BY <3>1, <3>2, <3>3
  <2>2. CASE fetch
    <3>1. hashes = <<h>> BY <2>2
    <3>2. <<h>> \in Seq(Hash) /\ Len(<<h>>) = 1 OBVIOUS
    <3>3. ToSet(<<h>>) = {h} BY DEF ToSet
    <3>4. h \notin DOMAIN d.flight \cup data BY <1>1, <1>7, <2>2 DEF Base
    <3>5. 1 <= Room(d.state[p]) BY <1>7, <1>8, <2>2, BoundAssumption DEF Room
    <3> HIDE DEF hashes
    <3>6. QED BY <3>1, <3>2, <3>3, <3>4, <3>5
  <2>3. QED BY <2>1, <2>2
<1> HIDE DEF hashes
<1>10. Book(e, connected, data) BY <1>1, <1>2, <1>6, <1>9, BookInFlight
<1> HIDE DEF e
<1>11. Book(e, connected', data') BY <1>2, <1>10
<1>12. state' = e.state /\ inFlight' = e.flight /\ nPeersWithValidatedDownloads' = e.peers
  BY <1>3 DEF SetDownloads
<1>13. QED BY <1>4, <1>11, <1>12, NextBook

\* The parent of a block on the branch to h.
LEMMA ParentIs ==
    ASSUME NEW h \in Block, NEW i \in 1..nHeight(h)
    PROVE  Parent(GetAncestor(h, i)) = GetAncestor(h, i - 1)
<1> DEFINE a == GetAncestor(h, i)
<1>1. nHeight(h) \in Nat /\ nHeight(h) = Len(Branch[h]) - 1 /\ Len(Branch[h]) \in Nat
  BY AncestorFacts, BranchType DEF nHeight
<1>2. i + 1 \in 1..Len(Branch[h]) /\ i \in Nat /\ i - 1 \in Nat BY <1>1
<1>3. Begins(h, i + 1) BY <1>2, BranchBegins
<1>4. Len(Branch[a]) = i + 1 /\ \A k \in 1..i + 1 : Branch[a][k] = Branch[h][k]
  BY <1>3 DEF Begins, GetAncestor
<1> HIDE DEF a
<1>5. Parent(a) = Branch[a][(Len(Branch[a]) - 1 - 1) + 1] BY DEF Parent, GetAncestor, nHeight
<1>6. (Len(Branch[a]) - 1 - 1) + 1 = i /\ i \in 1..i + 1 BY <1>2, <1>4
<1>7. Parent(a) = Branch[h][i] BY <1>4, <1>5, <1>6
<1>8. GetAncestor(h, i - 1) = Branch[h][i]
  <2>1. (i - 1) + 1 = i BY <1>2
  <2>2. QED BY <2>1 DEF GetAncestor
<1>9. QED BY <1>7, <1>8 DEF a

\* A header that is not refused has its ancestors in the index.
LEMMA NotRefused ==
    ASSUME NEW h \in Block, NEW i \in 1..nHeight(h), NEW known, \A x \in known : Ancestors(x) \subseteq known,
           Refused(GetAncestor(h, i), known) = "no"
    PROVE  \A j \in 0..i : GetAncestor(h, j) \in known \cup {GetAncestor(h, i)}
<1> DEFINE a == GetAncestor(h, i)
<1>1. nHeight(h) \in Nat /\ i \in 0..nHeight(h) /\ i - 1 \in 0..nHeight(h) /\ i \in Nat
  BY AncestorFacts
<1>2. CASE a \in known
  <2>1. Ancestors(a) = {GetAncestor(h, j) : j \in 0..i} BY <1>1, AncestorFacts
  <2>2. QED BY <1>2, <2>1
<1>3. CASE a \notin known
  <2>1. Parent(a) \in known BY <1>3 DEF Refused
  <2>2. Parent(a) = GetAncestor(h, i - 1) BY ParentIs
  <2>3. Ancestors(GetAncestor(h, i - 1)) = {GetAncestor(h, j) : j \in 0..i - 1} BY <1>1, AncestorFacts
  <2>4. \A j \in 0..i - 1 : GetAncestor(h, j) \in known BY <2>1, <2>2, <2>3
  <2>5. \A j \in 0..i : j \in 0..i - 1 \/ j = i BY <1>1
  <2>6. QED BY <2>4, <2>5
<1>4. QED BY <1>2, <1>3

\* The reasons to refuse a header.
LEMMA RefusedPrev ==
    ASSUME NEW h, NEW known, Refused(h, known) = "prev" PROVE Parent(h) \in failed
BY DEF Refused

\* A header refused as an orphan has no known parent.
LEMMA RefusedOrphan ==
    ASSUME NEW h, NEW known, Refused(h, known) = "orphan" PROVE Parent(h) \notin known
BY DEF Refused

\* Only orphans and the successors of failed blocks cost points.
LEMMA DoSIs ==
    ASSUME NEW refusal
    PROVE  DoS(refusal) \in Nat /\ (DoS(refusal) # 0 => refusal \in {"orphan", "prev"})
BY DEF DoS

\* Points change nothing else of a node, and no points change nothing.
LEMMA MisbehavingIs ==
    ASSUME NEW s \in NodeStates, NEW m \in Nat
    PROVE  LET t == Misbehaving(s, m) IN
           /\ t \in NodeStates /\ SameQueue(s, t) /\ t.stalling = s.stalling
           /\ t.pindexLastCommonBlock = s.pindexLastCommonBlock /\ t.downloading = s.downloading
           /\ m = 0 => t.fShouldBan = s.fShouldBan
<1> DEFINE score == s.nMisbehavior + m
           points == IF score < BanScore THEN score ELSE BanScore
           ban == s.fShouldBan \/ (s.nMisbehavior < BanScore /\ score >= BanScore)
           t == [s EXCEPT !.nMisbehavior = points, !.fShouldBan = ban]
<1>1. s.nMisbehavior \in 0..BanScore /\ s.fShouldBan \in BOOLEAN BY DEF NodeStates
<1>2. Misbehaving(s, m) = t BY DEF Misbehaving
<1>3. points \in 0..BanScore BY <1>1, BoundAssumption
<1>4. ban \in BOOLEAN BY <1>1
<1>5. m = 0 => (ban <=> s.fShouldBan) BY <1>1, BoundAssumption
<1> HIDE DEF points, ban
<1>6. t \in NodeStates BY <1>3, <1>4 DEF NodeStates
<1>7. /\ SameQueue(s, t) /\ t.stalling = s.stalling /\ t.fShouldBan = ban
      /\ t.pindexLastCommonBlock = s.pindexLastCommonBlock /\ t.downloading = s.downloading
  BY DEF NodeStates, SameQueue
<1> HIDE DEF t
<1>8. m = 0 => t.fShouldBan = s.fShouldBan BY <1>1, <1>4, <1>5, <1>7
<1>9. QED BY <1>2, <1>6, <1>7, <1>8

\* A peer gets points, a prompt one none.
LEMMA BookPenalty ==
    ASSUME NEW live \in SUBSET Peer, NEW have, NEW d, Book(d, live, have), NEW p \in Peer,
           NEW m \in Nat, p \in Prompt => m = 0
    PROVE  Book([d EXCEPT !.state[p] = Misbehaving(@, m)], live, have)
<1> DEFINE s == d.state[p]
           t == Misbehaving(s, m)
<1>1. [d EXCEPT !.state[p] = Misbehaving(@, m)] = [d EXCEPT !.state[p] = t]
  <2>1. DOMAIN d.state = Peer BY DEF Book
  <2>2. QED BY <2>1
<1>2. Healthy(p, s, have) /\ s \in NodeStates BY DEF Book, Healthy
<1> HIDE DEF s
<1>3. /\ t \in NodeStates /\ SameQueue(s, t) /\ t.stalling = s.stalling
      /\ t.pindexLastCommonBlock = s.pindexLastCommonBlock /\ t.downloading = s.downloading
      /\ m = 0 => t.fShouldBan = s.fShouldBan
  BY <1>2, MisbehavingIs
<1> HIDE DEF t
<1>4. Healthy(p, t, have) BY <1>2, <1>3 DEF Healthy, SameQueue
<1>5. Book([d EXCEPT !.state[p] = t], live, have) BY <1>3, <1>4, BookState DEF SameQueue, s
<1>6. QED BY <1>1, <1>5

\* What is fetched after a headers message: blocks nobody was asked for, no more than there is room for.
LEMMA DirectFetchIs ==
    ASSUME Base, NEW s \in NodeStates, NEW h \in Hash
    PROVE  /\ DirectFetch(s, h) \in SUBSET (1..nHeight(h))
           /\ Cardinality(DirectFetch(s, h)) <= Room(s)
           /\ \A i \in DirectFetch(s, h) : GetAncestor(h, i) \notin DOMAIN inFlight \cup data
<1> DEFINE fork == nHeight(LastCommonAncestor(h, tip))
           missing == {i \in fork + 1..nHeight(h) : Wanted(GetAncestor(h, i))}
           few == {i \in missing : Cardinality({j \in missing : j <= i}) <= Room(s)}
<1>1. h \in Block /\ tip \in Block BY DEF Base, Block
<1>2. fork \in Nat /\ nHeight(h) \in Nat
  <2>1. LastCommonAncestor(h, tip) \in Block BY <1>1, CommonAncestor, AncestorsClosed
  <2>2. QED BY <1>1, <2>1, AncestorFacts
<1>3. Room(s) \in Nat
  <2>1. s.nBlocksInFlight \in 0..MaxInTransit BY DEF NodeStates
  <2>2. QED BY <2>1, BoundAssumption DEF Room
<1>4. DirectFetch(s, h) = few \/ DirectFetch(s, h) = {} BY DEF DirectFetch
<1> HIDE DEF fork
<1>5. \A i \in missing : i \in 1..nHeight(h) /\ i \in 0..nHeight(h) BY <1>2
<1>6. \A i \in missing : GetAncestor(h, i) \notin DOMAIN inFlight \cup data BY DEF Wanted
<1> HIDE DEF missing
<1>7. Cardinality(few) <= Room(s)
  <2>1. missing \in SUBSET (0..nHeight(h)) BY <1>5
  <2>2. QED BY <1>2, <1>3, <2>1, FirstFew
<1>8. \A i \in few : i \in missing OBVIOUS
<1> HIDE DEF few
<1>9. CASE DirectFetch(s, h) = few BY <1>5, <1>6, <1>7, <1>8, <1>9
<1>10. CASE DirectFetch(s, h) = {}
  <2>1. Cardinality(DirectFetch(s, h)) = 0 BY <1>10, FS_EmptySet, Zenon
  <2>2. QED BY <1>3, <1>10, <2>1
<1>11. QED BY <1>4, <1>9, <1>10

\* Blocks of the branch to h are requested that nobody was asked for.
LEMMA BookFetch ==
    ASSUME NEW live \in SUBSET Peer, NEW have, NEW d, Book(d, live, have), NEW p \in live,
           NEW h \in Block, NEW heights \in SUBSET (1..nHeight(h)),
           Cardinality(heights) <= Room(d.state[p]),
           \A i \in heights : GetAncestor(h, i) \notin DOMAIN d.flight \cup have
    PROVE  Book(MarkBlocksAsInFlight(d, p, BlocksAt(h, heights), TRUE), live, have)
<1> DEFINE bs == BlocksAt(h, heights)
<1>1. /\ bs \in Seq(Hash) /\ Len(bs) = Cardinality(heights)
      /\ \A i, j \in 1..Len(bs) : bs[i] = bs[j] => i = j
      /\ ToSet(bs) \cap (DOMAIN d.flight \cup have) = {}
  BY BlocksAtIs
<1> HIDE DEF bs
<1>2. Len(bs) <= Room(d.state[p]) BY <1>1
<1>3. Book(MarkBlocksAsInFlight(d, p, bs, TRUE), live, have) BY <1>1, <1>2, BookInFlight
<1>4. QED BY <1>3 DEF bs

\* The index before the header at height i is looked at.
HeadersUpTo(h, first, i) == index \cup {GetAncestor(h, j) : j \in first..i - 1}

\* Headers enter the index with their ancestors before them.
LEMMA HeadersIndex ==
    ASSUME Base, NEW h \in Hash, NEW first \in 1..nHeight(h), NEW end \in first..nHeight(h) + 1,
           NEW known, known = HeadersUpTo(h, first, end),
           \A i \in first..end - 1 : Refused(GetAncestor(h, i), HeadersUpTo(h, first, i)) = "no"
    PROVE  known \subseteq Block /\ \A x \in known : Ancestors(x) \subseteq known
<1>0. known = index \cup {GetAncestor(h, j) : j \in first..end - 1} BY DEF HeadersUpTo
<1>1. h \in Block /\ nHeight(h) \in Nat BY AncestorFacts DEF Block
<1>2. first \in Nat /\ end \in Nat /\ first \in 0..nHeight(h) /\ first >= 1 BY <1>1
<1>3. \A i \in first..end - 1 : i \in 0..nHeight(h) /\ i \in Nat BY <1>1, <1>2
<1>4. known \subseteq Block
  <2>1. \A i \in first..end - 1 : GetAncestor(h, i) \in Block BY <1>1, <1>3, AncestorFacts
  <2>2. index \subseteq Block BY DEF Base
  <2>3. QED BY <1>0, <2>1, <2>2
<1>5. ASSUME NEW i \in first..end - 1, NEW k \in 0..i PROVE GetAncestor(h, k) \in known
  <2>1. CASE k \in first..end - 1 BY <1>0, <2>1
  <2>2. CASE k \notin first..end - 1
    <3>1. k \in 0..first /\ k # first /\ first \in first..end - 1
      BY <1>2, <1>3, <1>5, <2>2
    <3>2. first..first - 1 = {} BY <1>2
    <3>3. HeadersUpTo(h, first, first) = index BY <3>2 DEF HeadersUpTo
    <3>4. Refused(GetAncestor(h, first), index) = "no" BY <3>1, <3>3
    <3>5. GetAncestor(h, k) \in index \cup {GetAncestor(h, first)}
      BY <1>1, <3>1, <3>4, NotRefused DEF Base
    <3>6. GetAncestor(h, first) \in known BY <1>0, <3>1
    <3>7. QED BY <1>0, <3>5, <3>6
  <2>3. QED BY <2>1, <2>2
<1>6. ASSUME NEW x \in known PROVE Ancestors(x) \subseteq known
  <2>1. CASE x \in index BY <1>0, <2>1 DEF Base
  <2>2. CASE x \notin index
    <3>1. PICK i \in first..end - 1 : x = GetAncestor(h, i) BY <1>0, <2>2
    <3>2. Ancestors(x) = {GetAncestor(h, k) : k \in 0..i} BY <1>1, <1>3, <3>1, AncestorFacts
    <3>3. QED BY <1>5, <3>2
  <2>3. QED BY <2>1, <2>2
<1>7. QED BY <1>4, <1>6

\* Headers come: they enter the index, and blocks are requested at once.
LEMMA HeadersKeeps ==
    ASSUME DownloadInv, NEW p \in Peer, NEW h \in Hash, NEW first \in 1..nHeight(h),
           HeadersMessage(p, h, first)
    PROVE  DownloadInv'
<1> DEFINE before(i) == index \cup {GetAncestor(h, j) : j \in first..i - 1}
           refused == {i \in first..nHeight(h) : Refused(GetAncestor(h, i), before(i)) # "no"}
           end == Lowest(refused, nHeight(h) + 1)
           known == before(end)
           s == UpdateBlockAvailability(state[p], h, known)
           d == [Downloads EXCEPT !.state[p] = s]
           fetched == MarkBlocksAsInFlight(d, p, BlocksAt(h, DirectFetch(s, h)), TRUE)
           m == DoS(Refused(GetAncestor(h, end), known))
           fined == [Downloads EXCEPT !.state[p] = Misbehaving(@, m)]
<1>1. /\ Base /\ Book(Downloads, connected, data) /\ connected \in SUBSET Peer
      /\ Downloads.state = state /\ Downloads.flight = inFlight
      /\ Healthy(p, state[p], data)
  BY BookNow
<1>2. /\ UNCHANGED <<data, failed, tip, synced, connected, closing, connects>>
      /\ p \in connected /\ index' = known /\ Sends(p, h)
      /\ p \in Prompt => Parent(GetAncestor(h, first)) \in index
  BY DEF HeadersMessage, Open
<1>3. SetDownloads(fetched) \/ (refused # {} /\ SetDownloads(fined))
  BY DEF HeadersMessage
<1>4. h \in Block /\ nHeight(h) \in Nat BY AncestorFacts DEF Block
<1>5. /\ end \in first..nHeight(h) + 1
      /\ refused # {} => end \in 1..nHeight(h)
  <2>1. CASE refused = {}
    <3>1. end = nHeight(h) + 1 BY <2>1 DEF Lowest
    <3> HIDE DEF end, refused
    <3>2. QED BY <1>4, <2>1, <3>1
  <2>2. CASE refused # {}
    <3>1. refused \in SUBSET Nat /\ \A i \in refused : i \in first..nHeight(h) BY <1>4
    <3> HIDE DEF refused
    <3>2. end \in refused BY <2>2, <3>1, LowestIs
    <3> HIDE DEF end
    <3>3. end \in first..nHeight(h) BY <3>1, <3>2
    <3>4. QED BY <1>4, <3>3
  <2>3. QED BY <2>1, <2>2
<1>6. \A i \in first..end - 1 : Refused(GetAncestor(h, i), before(i)) = "no"
  <2> SUFFICES ASSUME NEW i \in first..end - 1, Refused(GetAncestor(h, i), before(i)) # "no"
               PROVE  FALSE
    OBVIOUS
  <2>1. end \in Nat /\ i \in Nat /\ i < end /\ i \in first..nHeight(h)
    <3> HIDE DEF end
    <3>1. end \in Nat BY <1>4, <1>5
    <3>2. QED BY <1>4, <1>5, <3>1
  <2>2. i \in refused BY <2>1
  <2>3. refused \in SUBSET Nat BY <1>4
  <2> HIDE DEF refused
  <2>4. end <= i BY <2>2, <2>3, LowestIs
  <2> HIDE DEF end
  <2>5. QED BY <2>1, <2>4
<1> HIDE DEF refused, end
<1>7. /\ index \subseteq known /\ known = HeadersUpTo(h, first, end)
      /\ \A i \in first..end - 1 : Refused(GetAncestor(h, i), HeadersUpTo(h, first, i)) = "no"
  BY <1>6 DEF HeadersUpTo
<1> HIDE DEF known
<1>8. known \subseteq Block /\ \A x \in known : Ancestors(x) \subseteq known
  BY <1>1, <1>5, <1>7, HeadersIndex
<1>9. Base' BY <1>1, <1>2, <1>7, <1>8 DEF Base
<1>10. CASE SetDownloads(fetched)
  <2>1. Healthy(p, s, data) /\ SameQueue(state[p], s) BY <1>1, <1>8, UpdateHealthy
  <2> HIDE DEF s
  <2>2. s \in NodeStates BY <2>1 DEF Healthy
  <2>3. Book(d, connected, data) BY <1>1, <2>1, BookState DEF SameQueue
  <2>4. d.state[p] = s /\ d.flight = inFlight
    <3>1. DOMAIN state = Peer BY <1>1 DEF Book
    <3>2. Downloads = [state |-> state, flight |-> inFlight, peers |-> nPeersWithValidatedDownloads]
      BY DEF Downloads
    <3>3. QED BY <3>1, <3>2
  <2> HIDE DEF d
  <2>5. /\ DirectFetch(s, h) \in SUBSET (1..nHeight(h))
        /\ Cardinality(DirectFetch(s, h)) <= Room(d.state[p])
        /\ \A i \in DirectFetch(s, h) : GetAncestor(h, i) \notin DOMAIN d.flight \cup data
    BY <1>1, <2>2, <2>4, DirectFetchIs
  <2>6. Book(fetched, connected, data) BY <1>1, <1>2, <1>4, <2>3, <2>5, BookFetch
  <2> HIDE DEF fetched
  <2>7. Book(fetched, connected', data') BY <1>2, <2>6
  <2>8. QED BY <1>9, <1>10, <2>7, NextBook DEF SetDownloads
<1>11. CASE refused # {} /\ SetDownloads(fined)
  <2> DEFINE refusal == Refused(GetAncestor(h, end), known)
  <2>1. end \in 1..nHeight(h) /\ end - 1 \in 0..nHeight(h) BY <1>4, <1>5, <1>11
  <2>2. Parent(GetAncestor(h, end)) = GetAncestor(h, end - 1) BY <1>4, <2>1, ParentIs
  <2>3. ASSUME p \in Prompt, refusal = "prev" PROVE FALSE
    <3>1. GetAncestor(h, end - 1) \in Bad BY <1>1, <2>2, <2>3, RefusedPrev DEF Base
    <3>2. GetAncestor(h, end - 1) \in Ancestors(h) BY <1>4, <2>1, AncestorFacts
    <3>3. QED BY <1>2, <2>3, <3>1, <3>2 DEF Sends
  <2>4. ASSUME p \in Prompt, refusal = "orphan" PROVE FALSE
    <3>1. GetAncestor(h, end - 1) \notin known BY <2>2, <2>4, RefusedOrphan
    <3>2. CASE end = first
      <4>1. Parent(GetAncestor(h, first)) \in index BY <1>2, <2>4
      <4>2. QED BY <1>7, <2>2, <3>1, <3>2, <4>1
    <3>3. CASE end # first
      <4>1. end - 1 \in first..end - 1 BY <1>4, <1>5, <2>1, <3>3
      <4>2. QED BY <1>7, <3>1, <4>1 DEF HeadersUpTo
    <3>4. QED BY <3>2, <3>3
  <2>5. m \in Nat /\ (m # 0 => refusal \in {"orphan", "prev"}) BY DoSIs
  <2>6. p \in Prompt => m = 0 BY <2>3, <2>4, <2>5
  <2> HIDE DEF m, refusal
  <2>7. Book(fined, connected, data) BY <1>1, <2>5, <2>6, BookPenalty
  <2> HIDE DEF fined
  <2>8. Book(fined, connected', data') BY <1>2, <2>7
  <2>9. QED BY <1>9, <1>11, <2>8, NextBook DEF SetDownloads
<1>12. QED BY <1>3, <1>10, <1>11

\* A block comes: it is in no queue any more, and the tip may move.
LEMMA BlockKeeps ==
    ASSUME DownloadInv, NEW p \in Peer, NEW h \in Hash, NEW intact \in BOOLEAN,
           BlockMessage(p, h, intact)
    PROVE  DownloadInv'
<1> DEFINE refused == Refused(h, index)
           accepted == intact /\ refused = "no"
           stored == accepted /\ Processed(h, h \in DOMAIN inFlight)
           d == MarkBlockAsReceived(Downloads, h)
           m == IF ~intact \/ (stored /\ h \in Bad) THEN 10 ELSE DoS(refused)
           fined == [d EXCEPT !.state[p] = Misbehaving(@, m)]
<1>1. Base /\ Book(Downloads, connected, data) /\ connected \in SUBSET Peer BY BookNow
<1>2. /\ UNCHANGED <<connected, closing, connects>> /\ synced' \in BOOLEAN
      /\ Sends(p, h) /\ (p \in Prompt => intact /\ Parent(h) \in index)
      /\ index' = IF accepted THEN index \cup {h} ELSE index
      /\ failed' = IF stored /\ h \in Bad THEN failed \cup {h} ELSE failed
      /\ data' = IF stored /\ h \notin Bad THEN data \cup {h} ELSE data
      /\ tip' \in Tips(data')
      /\ SetDownloads(fined)
  BY DEF BlockMessage, Arrived
<1>3. h \in Block /\ nHeight(h) \in Nat /\ nHeight(h) \in 1..nHeight(h) /\ GetAncestor(h, nHeight(h)) = h
  <2>1. h \in Block BY DEF Block
  <2>2. nHeight(h) \in Nat /\ GetAncestor(h, nHeight(h)) = h BY <2>1, AncestorFacts
  <2>3. nHeight(h) # 0
    <3>1. h # Genesis BY BlockAssumption
    <3>2. Len(Branch[h]) \in Nat /\ Len(Branch[h]) > 1 BY <2>1, <3>1, BranchType
    <3> DEFINE l == Len(Branch[h])
    <3>3. nHeight(h) = l - 1 /\ l \in Nat /\ l > 1 BY <3>2 DEF nHeight
    <3> HIDE DEF l
    <3>4. QED BY <3>3
  <2>4. QED BY <2>1, <2>2, <2>3
<1>4. Parent(h) \in Ancestors(h)
  <2>1. Parent(h) = GetAncestor(h, nHeight(h) - 1) BY DEF Parent
  <2>2. nHeight(h) - 1 \in 0..nHeight(h) BY <1>3
  <2>3. QED BY <1>3, <2>1, <2>2, AncestorFacts
<1>5. accepted => Ancestors(h) \subseteq index \cup {h}
  <2> SUFFICES ASSUME accepted PROVE Ancestors(h) \subseteq index \cup {h} OBVIOUS
  <2>1. \A j \in 0..nHeight(h) : GetAncestor(h, j) \in index \cup {GetAncestor(h, nHeight(h))}
    BY <1>1, <1>3, NotRefused DEF Base
  <2>2. QED BY <1>3, <2>1, AncestorFacts
<1>6. index' \subseteq Block /\ (\A x \in index' : Ancestors(x) \subseteq index') /\ index \subseteq index'
  BY <1>1, <1>2, <1>3, <1>5 DEF Base
<1>7. data' \subseteq index' /\ data \subseteq data' /\ failed' \subseteq index' \cap Bad
  BY <1>1, <1>2 DEF Base
<1>8. tip' \in data' /\ Ancestors(tip') \subseteq data'
  <2>1. tip \in data' /\ Ancestors(tip) \subseteq data' BY <1>1, <1>7 DEF Base
  <2> DEFINE have == data'
  <2> HIDE DEF have
  <2>2. \A x \in Tips(have) : x = tip \/ (x \in have /\ Ancestors(x) \subseteq have) BY DEF Tips
  <2>3. tip' \in Tips(have) BY <1>2 DEF have
  <2>4. QED BY <2>1, <2>2, <2>3 DEF have
<1>9. Base' BY <1>1, <1>2, <1>6, <1>7, <1>8 DEF Base
<1>10. m \in Nat /\ (p \in Prompt => m = 0)
  <2>1. DoS(refused) \in Nat /\ (DoS(refused) # 0 => refused \in {"orphan", "prev"}) BY DoSIs
  <2>2. ASSUME p \in Prompt, refused = "prev" PROVE FALSE
    <3>1. Parent(h) \in Bad BY <1>1, <2>2, RefusedPrev DEF Base
    <3>2. QED BY <1>2, <1>4, <2>2, <3>1 DEF Sends
  <2>3. ASSUME p \in Prompt, refused = "orphan" PROVE FALSE
    <3>1. Parent(h) \notin index BY <2>3, RefusedOrphan
    <3>2. QED BY <1>2, <2>3, <3>1
  <2>4. ASSUME p \in Prompt, h \in Bad PROVE FALSE
    <3>1. h \in Ancestors(h) BY <1>3, OwnAncestor
    <3>2. QED BY <1>2, <2>4, <3>1 DEF Sends
  <2>5. m \in Nat BY <2>1
  <2>6. p \in Prompt => m = 0 BY <1>2, <2>1, <2>2, <2>3, <2>4
  <2>7. QED BY <2>5, <2>6
<1> HIDE DEF m
<1>11. Book(d, connected, data) /\ h \notin DOMAIN d.flight BY <1>1, BookReceived
<1> HIDE DEF d
<1>12. Book(d, connected', data')
  <2>1. DOMAIN d.flight \cap data = {} BY <1>11 DEF Book
  <2>2. DOMAIN d.flight \cap data' = {} BY <1>2, <1>11, <2>1
  <2>3. QED BY <1>2, <1>7, <1>11, <2>2, BookMore
<1>13. Book(fined, connected', data')
  <2>1. connected' \in SUBSET Peer BY <1>1, <1>2
  <2>2. QED BY <1>10, <1>12, <2>1, BookPenalty
<1> HIDE DEF fined
<1>14. QED BY <1>2, <1>9, <1>13, NextBook DEF SetDownloads

\* The ban of a node is dealt with, and its last announcement looked up.
LEMMA JudgedHealthy ==
    ASSUME Base, NEW p, NEW have, Healthy(p, state[p], have)
    PROVE  Healthy(p, Judged(p), have) /\ SameQueue(state[p], Judged(p))
<1> DEFINE s == state[p]
           t == [s EXCEPT !.fShouldBan = FALSE]
<1>1. s \in NodeStates BY DEF Healthy
<1>2. Judged(p) = ProcessBlockAvailability(t, index) BY DEF Judged
<1> HIDE DEF s
<1>3. /\ t \in NodeStates /\ SameQueue(s, t) /\ t.stalling = s.stalling /\ t.fShouldBan = FALSE
      /\ t.pindexLastCommonBlock = s.pindexLastCommonBlock /\ t.downloading = s.downloading
  BY <1>1 DEF NodeStates, SameQueue
<1> HIDE DEF t
<1>4. Healthy(p, t, have) BY <1>3 DEF Healthy, SameQueue, s
<1>5. index \in SUBSET Block BY DEF Base
<1>6. /\ Healthy(p, ProcessBlockAvailability(t, index), have)
      /\ SameQueue(t, ProcessBlockAvailability(t, index))
  BY <1>4, <1>5, ProcessHealthy
<1>7. QED BY <1>2, <1>3, <1>6 DEF SameQueue, s

\* The connection to a prompt peer is not closed: it was not banned, it does not stall, and what it
\* was asked for is not late.
LEMMA PromptNotClosed ==
    ASSUME DownloadInv, NEW p \in Peer, p \in Prompt PROVE ~Closes(p)
<1> DEFINE s == state[p]
           n == nPeersWithValidatedDownloads
           v == s.nBlocksInFlightValidHeaders
<1>1. /\ Healthy(p, s, data) /\ s \in NodeStates /\ Book(Downloads, connected, data)
      /\ Downloads.state = state /\ Downloads.peers = n
  BY BookNow
<1>2. s.fShouldBan = FALSE /\ s.stalling \in {None, 0} /\ (s.vBlocksInFlight # <<>> => s.downloading = 0)
  BY <1>1 DEF Healthy
<1>3. ~Stalls(p) BY <1>2, BoundAssumption DEF Stalls
<1>4. n \in Nat /\ (v > 0 => n >= 1)
  <2> DEFINE D == Downloaders(state)
  <2>1. n = Cardinality(D) BY <1>1 DEF Book
  <2>2. D \subseteq Peer /\ (v > 0 => p \in D) BY DEF Downloaders
  <2>3. IsFiniteSet(D) BY <2>2, FS_Subset, PeerAssumption
  <2> HIDE DEF D
  <2>4. Cardinality(D) \in Nat /\ (D # {} => Cardinality(D) # 0)
    BY <2>3, FS_CardinalityType, FS_EmptySet
  <2>5. QED BY <2>1, <2>2, <2>4
<1>5. ~TimesOut(p)
  <2> DEFINE others == nOtherPeersWithValidatedDownloads(p)
             extra == TimeoutPerPeer * others
  <2>1. others \in Nat
    <3>1. others = n - (IF v > 0 THEN 1 ELSE 0) BY DEF nOtherPeersWithValidatedDownloads
    <3> HIDE DEF others, n, v
    <3>2. QED BY <1>4, <3>1
  <2> HIDE DEF others
  <2>2. extra \in Nat BY <2>1, BoundAssumption
  <2> HIDE DEF extra
  <2>3. ~(0 > TimeoutBase + extra) BY <2>2, BoundAssumption
  <2>4. TimesOut(p) => s.vBlocksInFlight # <<>> /\ s.downloading > TimeoutBase + extra
    BY DEF TimesOut, extra, others
  <2>5. QED BY <1>2, <2>3, <2>4
<1>6. QED BY <1>2, <1>3, <1>5 DEF Closes

\* A node is visited: its connection is closed, or blocks are requested from it and the node that
\* holds up the window is accused.
LEMMA SendKeeps ==
    ASSUME DownloadInv, NEW p \in Peer, SendMessages(p) PROVE DownloadInv'
<1>1. /\ Base /\ Book(Downloads, connected, data) /\ connected \in SUBSET Peer
      /\ Downloads.state = state /\ Downloads.flight = inFlight
      /\ Healthy(p, state[p], data) /\ state[p] \in NodeStates
  BY BookNow
<1>2. /\ UNCHANGED <<index, data, failed, tip, connected, connects>>
      /\ p \in connected /\ synced' = ~IsInitialBlockDownload
      /\ closing' = IF Closes(p) THEN closing \cup {p} ELSE closing
  BY DEF SendMessages, Open, chain
<1>3. Prompt \cap closing' = {} /\ closing' \subseteq connected
  BY <1>1, <1>2, PromptNotClosed DEF Base
<1>4. synced' \in BOOLEAN BY <1>2
<1>5. Base' BY <1>1, <1>2, <1>3, <1>4 DEF Base
<1> DEFINE j == Judged(p)
<1>6. Healthy(p, j, data) /\ SameQueue(state[p], j) BY <1>1, JudgedHealthy
<1>7. DOMAIN state = Peer BY <1>1 DEF Book
<1>8. Downloads = [state |-> state, flight |-> inFlight, peers |-> nPeersWithValidatedDownloads]
  BY DEF Downloads
<1>9. CASE ~Fetches(p)
  <2> DEFINE d == [Downloads EXCEPT !.state[p] = j]
  <2>1. SetDownloads(d) BY <1>9 DEF SendMessages
  <2> HIDE DEF j
  <2>2. Book(d, connected, data) BY <1>1, <1>6, BookState DEF SameQueue
  <2> HIDE DEF d
  <2>3. Book(d, connected', data') BY <1>2, <2>2
  <2>4. QED BY <1>5, <2>1, <2>3, NextBook DEF SetDownloads
<1>10. CASE Fetches(p)
  <2> DEFINE s == Located(j)
             wanted == WantedAhead(s)
             end == IF Interesting(s) THEN WalkEnd(s, wanted, Room(s)) ELSE 0
             heights == Fetched(s, wanted, end)
             a == Advanced(s, end)
             with(x) == [Downloads EXCEPT !.state[p] = x]
             d == with(a)
             e == MarkBlocksAsInFlight(d, p, BlocksAt(s.pindexBestKnownBlock, heights), TRUE)
             r == Staller(s, p, wanted, end)
             f == Accuse(e, p, r)
  <2>1. SetDownloads(f)
    <3>1. \E s_ \in {s} : \E wanted_ \in {WantedAhead(s_)} :
          \E end_ \in {IF Interesting(s_) THEN WalkEnd(s_, wanted_, Room(s_)) ELSE 0} :
          \E hashes_ \in {BlocksAt(s_.pindexBestKnownBlock, Fetched(s_, wanted_, end_))} :
          \E d_ \in {with(Advanced(s_, end_))} :
          \E marked_ \in {MarkBlocksAsInFlight(d_, p, hashes_, TRUE)} :
          \E staller_ \in {Staller(s_, p, wanted_, end_)} :
              SetDownloads(Accuse(marked_, p, staller_))
      BY <1>10 DEF SendMessages
    <3> HIDE DEF s, with
    <3>2. PICK s_, wanted_, end_ :
             /\ s_ = s /\ wanted_ = WantedAhead(s_)
             /\ end_ = IF Interesting(s_) THEN WalkEnd(s_, wanted_, Room(s_)) ELSE 0
             /\ \E hashes_ \in {BlocksAt(s_.pindexBestKnownBlock, Fetched(s_, wanted_, end_))} :
                \E d_ \in {with(Advanced(s_, end_))} :
                \E marked_ \in {MarkBlocksAsInFlight(d_, p, hashes_, TRUE)} :
                \E staller_ \in {Staller(s_, p, wanted_, end_)} :
                    SetDownloads(Accuse(marked_, p, staller_))
      BY <3>1
    <3>3. wanted_ = wanted BY <3>2
    <3>4. end_ = end BY <3>2, <3>3
    <3> HIDE DEF wanted, end
    <3>5. PICK hashes_, d_ :
             /\ hashes_ = BlocksAt(s.pindexBestKnownBlock, heights) /\ d_ = d
             /\ \E marked_ \in {MarkBlocksAsInFlight(d_, p, hashes_, TRUE)} :
                \E staller_ \in {r} : SetDownloads(Accuse(marked_, p, staller_))
      BY <3>2, <3>3, <3>4
    <3> HIDE DEF heights, d, r
    <3>6. \E staller_ \in {r} : SetDownloads(Accuse(e, p, staller_)) BY <3>5
    <3> HIDE DEF e
    <3>7. QED BY <3>6
  <2> HIDE DEF j
  <2>2. /\ Healthy(p, s, data) /\ SameQueue(j, s)
        /\ Interesting(s) => s.pindexLastCommonBlock \in Block
    BY <1>1, <1>6, LocatedHealthy
  <2> HIDE DEF s
  <2>3. s \in NodeStates BY <2>2 DEF Healthy
  <2>4. Healthy(p, a, data) /\ SameQueue(s, a) BY <2>2, AdvancedHealthy
  <2>5. SameQueue(state[p], a) BY <1>6, <2>2, <2>4 DEF SameQueue
  <2>6. Room(s) \in Nat \ {0} /\ Room(a) = Room(s)
    <3>1. s.nBlocksInFlight = state[p].nBlocksInFlight BY <1>6, <2>2 DEF SameQueue
    <3>2. a.nBlocksInFlight = s.nBlocksInFlight BY <2>4 DEF SameQueue
    <3>3. state[p].nBlocksInFlight < MaxInTransit /\ state[p].nBlocksInFlight \in Nat
      BY <1>1, <1>10, NodeFields DEF Fetches
    <3>4. QED BY <3>1, <3>2, <3>3, BoundAssumption DEF Room
  <2> HIDE DEF a
  <2>7. Book(d, connected, data) BY <1>1, <2>4, <2>5, BookState DEF SameQueue
  <2>8. d.state[p] = a /\ d.flight = inFlight /\ \A x \in Peer \ {p} : d.state[x] = state[x]
    BY <1>7, <1>8
  <2> HIDE DEF d
  <2>9. Book(e, connected, data)
    <3>1. CASE Interesting(s)
      <4>1. end = WalkEnd(s, wanted, Room(s)) BY <3>1
      <4> DEFINE w == wanted
      <4> HIDE DEF end, w
      <4>2. /\ Fetched(s, w, end) \in SUBSET (1..nHeight(s.pindexBestKnownBlock))
            /\ Cardinality(Fetched(s, w, end)) <= Room(s)
            /\ \A i \in Fetched(s, w, end) :
                  GetAncestor(s.pindexBestKnownBlock, i) \notin DOMAIN inFlight \cup data
        <5>1. w = WantedAhead(s) /\ end = WalkEnd(s, w, Room(s)) BY <4>1 DEF w
        <5>2. QED BY <2>2, <2>3, <2>6, <3>1, <5>1, FetchedIs
      <4>3. s.pindexBestKnownBlock \in Block BY <2>2, <2>3, <3>1, AheadIs
      <4>4. heights = Fetched(s, w, end) BY DEF w
      <4> HIDE DEF heights
      <4>5. QED BY <1>1, <1>2, <2>6, <2>7, <2>8, <4>2, <4>3, <4>4, BookFetch
    <3>2. CASE ~Interesting(s)
      <4>1. Ahead(s) = {} BY <2>2, <2>3, <3>2, AheadIs
      <4>2. heights = {} BY <4>1 DEF Fetched, WantedAhead
      <4> HIDE DEF heights
      <4>3. BlocksAt(s.pindexBestKnownBlock, heights) = <<>> BY <4>2, BlocksAtNone
      <4>4. e = d BY <4>3 DEF MarkBlocksAsInFlight
      <4>5. QED BY <2>7, <4>4
    <3>3. QED BY <3>1, <3>2
  <2>10. \A x \in Peer \ {p} : e.state[x] = d.state[x]
    <3>1. DOMAIN d.state = Peer BY <2>7 DEF Book
    <3> DEFINE bs == BlocksAt(s.pindexBestKnownBlock, heights)
    <3> HIDE DEF bs
    <3>2. \A x \in Peer \ {p} : MarkBlocksAsInFlight(d, p, bs, TRUE).state[x] = d.state[x]
      BY <3>1 DEF MarkBlocksAsInFlight
    <3>3. QED BY <3>2 DEF bs
  <2> HIDE DEF e
  <2>11. r # None => r \in Peer /\ e.state[r].vBlocksInFlight # <<>>
    <3> DEFINE w == wanted
               n == end
    <3> HIDE DEF w, n
    <3>1. Staller(s, p, w, n) # None => /\ Staller(s, p, w, n) \in Peer \ {p}
                                        /\ state[Staller(s, p, w, n)].vBlocksInFlight # <<>>
      BY <2>2, <2>3, StallerIs
    <3>2. r # None => r \in Peer \ {p} /\ state[r].vBlocksInFlight # <<>> BY <3>1 DEF w, n
    <3> HIDE DEF r
    <3>3. QED BY <2>8, <2>10, <3>2
  <2> HIDE DEF r
  <2>12. Book(f, connected, data) BY <1>1, <2>9, <2>11, BookAccuse
  <2> HIDE DEF f
  <2>13. Book(f, connected', data') BY <1>2, <2>12
  <2>14. QED BY <1>5, <2>1, <2>13, NextBook DEF SetDownloads
<1>11. QED BY <1>9, <1>10

------------------------------------------------------------------------------
(* The theorems. *)

\* The bookkeeping is inductive.
LEMMA DownloadInductive == Spec => []DownloadInv
<1>1. Init => DownloadInv BY InitDownload
<1>2. DownloadInv /\ [Next]_vars => DownloadInv'
  <2> SUFFICES ASSUME DownloadInv, [Next]_vars PROVE DownloadInv' OBVIOUS
  <2>1. ASSUME NEW p \in Peer, InitializeNode(p) PROVE DownloadInv' BY <2>1, InitializeKeeps
  <2>2. ASSUME NEW p \in Peer, Drop(p) PROVE DownloadInv' BY <2>2, DropKeeps
  <2>3. ASSUME NEW p \in Peer, FinalizeNode(p) PROVE DownloadInv' BY <2>3, FinalizeKeeps
  <2>4. ASSUME NEW p \in Peer, SendMessages(p) PROVE DownloadInv' BY <2>4, SendKeeps
  <2>5. ASSUME NEW p \in Peer, NEW h \in Hash, InvMessage(p, h) PROVE DownloadInv'
    BY <2>5, InvKeeps
  <2>6. ASSUME NEW p \in Peer, NEW h \in Hash, NEW first \in 1..nHeight(h), HeadersMessage(p, h, first)
        PROVE  DownloadInv'
    BY <2>6, HeadersKeeps
  <2>7. ASSUME NEW p \in Peer, NEW h \in Hash, NEW intact \in BOOLEAN, BlockMessage(p, h, intact)
        PROVE  DownloadInv'
    BY <2>7, BlockKeeps
  <2>8. CASE Tick BY <2>8, TickKeeps
  <2>9. CASE Asked BY <2>9, AskedKeeps
  <2>10. CASE UNCHANGED vars
    <3>1. /\ UNCHANGED <<index, data, failed, tip, synced, connected, closing, connects>>
          /\ state' = Downloads.state /\ inFlight' = Downloads.flight
          /\ nPeersWithValidatedDownloads' = Downloads.peers
      BY <2>10 DEF vars, chain, Downloads
    <3>2. Base' BY <3>1 DEF Base, DownloadInv
    <3>3. Book(Downloads, connected', data') BY <3>1 DEF DownloadInv
    <3>4. QED BY <3>1, <3>2, <3>3, NextBook
  <2>11. QED BY <2>1, <2>2, <2>3, <2>4, <2>5, <2>6, <2>7, <2>8, <2>9, <2>10 DEF Next
<1>3. QED BY <1>1, <1>2, PTL DEF Spec

\* In every state headers are known only with their ancestors, blocks are in flight only from
\* connected peers, and no more of them from a peer than it may have.
THEOREM DownloadTyped == Spec => []TypeOK
<1>1. DownloadInv => TypeOK
  <2> SUFFICES ASSUME DownloadInv PROVE TypeOK OBVIOUS
  <2>1. Base /\ Book(Downloads, connected, data) BY DEF DownloadInv
  <2>2. /\ Downloads.state = state /\ Downloads.flight = inFlight
        /\ Downloads.peers = nPeersWithValidatedDownloads
    BY DEF Downloads
  <2>3. state \in [Peer -> NodeStates] BY <2>1, <2>2 DEF Book, Healthy
  <2>4. nPeersWithValidatedDownloads \in 0..Cardinality(Peer)
    <3> DEFINE D == Downloaders(state)
    <3>1. nPeersWithValidatedDownloads = Cardinality(D) BY <2>1, <2>2 DEF Book
    <3>2. D \subseteq Peer BY DEF Downloaders
    <3> HIDE DEF D
    <3>3. /\ Cardinality(D) <= Cardinality(Peer) /\ Cardinality(D) \in Nat
          /\ Cardinality(Peer) \in Nat
      BY <3>2, FS_Subset, FS_CardinalityType, PeerAssumption
    <3>4. QED BY <3>1, <3>3
  <2>5. DOMAIN inFlight \subseteq Hash /\ \A h \in DOMAIN inFlight : inFlight[h] \in connected
    BY <2>1, <2>2 DEF Book
  <2>6. QED BY <2>1, <2>3, <2>4, <2>5 DEF TypeOK, Base
<1>2. QED BY <1>1, DownloadInductive, PTL

\* In every state mapBlocksInFlight, the queues of the nodes and the counters agree:
\* MarkBlockAsInFlight, MarkBlockAsReceived and FinalizeNode keep them so whichever peer sends a
\* block and whenever one leaves.
THEOREM BookkeepingExact == Spec => []InFlightExact
<1>1. DownloadInv => InFlightExact
  <2> SUFFICES ASSUME DownloadInv PROVE InFlightExact OBVIOUS
  <2>1. /\ DOMAIN inFlight \cap data = {}
        /\ nPeersWithValidatedDownloads = Cardinality(Downloaders(state))
    BY DEF DownloadInv, Book, Downloads
  <2>2. ASSUME NEW p \in Peer
        PROVE  /\ {e.hash : e \in ToSet(state[p].vBlocksInFlight)} = Held(inFlight, p)
               /\ Len(state[p].vBlocksInFlight) = Cardinality(Held(inFlight, p))
               /\ Len(state[p].vBlocksInFlight) = state[p].nBlocksInFlight
               /\ state[p].nBlocksInFlightValidHeaders = Cardinality(Validated(state[p].vBlocksInFlight))
    <3> DEFINE q == state[p].vBlocksInFlight
    <3>1. state[p] \in NodeStates /\ QueueExact(state[p], Held(inFlight, p)) BY BookNow
    <3>2. q \in Seq(Requests) BY <3>1, NodeFields
    <3>3. /\ Once(q) /\ Hashes(q) = Held(inFlight, p) /\ state[p].nBlocksInFlight = Len(q)
          /\ state[p].nBlocksInFlightValidHeaders = Cardinality(Validated(q))
      BY <3>1 DEF QueueExact
    <3> HIDE DEF q
    <3>4. Hashes(q) = {e.hash : e \in ToSet(q)} BY <3>2, QueueSet
    <3>5. Cardinality(Hashes(q)) = Len(q) BY <3>2, <3>3, QueueLength
    <3>6. QED BY <3>3, <3>4, <3>5 DEF q
  <2>3. QED BY <2>1, <2>2 DEF InFlightExact, Held, Validated, Downloaders
<1>2. QED BY <1>1, DownloadInductive, PTL

\* An accusation of stalling does not outlive the block that was owed.
THEOREM AccusedOwe == Spec => []StallerOwes
<1>1. DownloadInv => StallerOwes
  <2> SUFFICES ASSUME DownloadInv, NEW p \in Peer, state[p].stalling # None
               PROVE  state[p].vBlocksInFlight # <<>>
    BY DEF StallerOwes
  <2>1. QED BY BookNow DEF Healthy
<1>2. QED BY <1>1, DownloadInductive, PTL

\* The window of every node starts at a block we have with all its ancestors.
THEOREM WindowLinked == Spec => []CommonBlockLinked
<1>1. DownloadInv => CommonBlockLinked
  <2> SUFFICES ASSUME DownloadInv, NEW p \in Peer, state[p].pindexLastCommonBlock # None
               PROVE  Linked(state[p].pindexLastCommonBlock)
    BY DEF CommonBlockLinked
  <2>1. QED BY BookNow DEF Healthy, Linked
<1>2. QED BY <1>1, DownloadInductive, PTL

\* However the other peers behave and are scheduled, neither timeout and no ban of SendMessages closes
\* the connection to a peer that keeps to the protocol: nothing it sends costs it a point
\* (Misbehaving), and what it was asked for comes in time.
THEOREM PromptKept == Spec => []PromptPeerKept
<1>1. DownloadInv => PromptPeerKept BY DEF DownloadInv, Base, PromptPeerKept
<1>2. QED BY <1>1, DownloadInductive, PTL
=============================================================================
