--------------------------- MODULE CheckQueueProofs ---------------------------
(***************************************************************************)
(* The script check queue, for any number of threads and checks: the       *)
(* constructor of CCheckQueueControl finds the queue idle, and Wait        *)
(* returns the conjunction of exactly the checks of its block.             *)
(*                                                                         *)
(* The proof accounts for the counters: nTodo is the number of checks in   *)
(* the queue and in the batches of threads, nIdle the number of threads    *)
(* that wait or were interrupted as they waited, and nTotal those and the  *)
(* threads with a batch.  So when nTodo is 0 no thread has a batch, which  *)
(* is what the master relies on.  That Wait returns at all is left to      *)
(* model checking.                                                         *)
(***************************************************************************)
EXTENDS CheckQueue, FiniteSetTheorems, SequenceTheorems, TLAPS

\* The checks in the batches v, as a thread and a number.
Pending(v) == UNION {{t} \X (1..Len(v[t])) : t \in Thread}

\* Threads counted in nIdle, and threads with a batch.
Waiters(p) == {t \in Thread : p[t] \in {"wait", "woken", "gone"}}
Busy(p) == {t \in Thread : p[t] \in {"work", "done"}}

\* The master's wait that was interrupted is still counted.
Stray == IF shutdown THEN 1 ELSE 0

Counters == /\ nTodo = Len(queue) + Cardinality(Pending(vChecks))
            /\ nIdle = Cardinality(Waiters(pc)) + Stray
            /\ nTotal = nIdle + Cardinality(Busy(pc))

\* A thread has a batch while it works on it, and knows of its failures when it
\* is done.
Batches == \A t \in Thread :
              /\ pc[t] \in {"work", "done"} <=> vChecks[t] # <<>>
              /\ vChecks[t] = <<>> => fOk[t]
              /\ pc[t] = "done" /\ fOk[t] => AllGood(vChecks[t])

\* The master is in Loop when Wait was called, and without a controller nothing
\* is left to do.
Phases == /\ phase = "waiting" <=> pc[Master] # "out"
          /\ pc[Master] # "gone"
          /\ phase = "closed" => queue = <<>> /\ nTodo = 0 /\ fAllOk

QueueInv == TypeOK /\ IsFiniteSet(Pending(vChecks)) /\ Counters /\ Batches /\ Phases

-----------------------------------------------------------------------------
\* Counting.

\* There are finitely many threads.
LEMMA ThreadsFinite ==
    ASSUME NEW S \in SUBSET Thread
    PROVE  IsFiniteSet(S) /\ Cardinality(S) \in Nat
  <1>1. IsFiniteSet(Worker \cup {Master})
    BY WorkerAssumption, FS_AddElement
  <1>2. IsFiniteSet(S)
    BY <1>1, FS_Subset DEF Thread
  <1> QED BY <1>2, FS_CardinalityType

\* The checks of one thread.
LEMMA OneBatch ==
    ASSUME NEW t, NEW n \in Nat
    PROVE  IsFiniteSet({t} \X (1..n)) /\ Cardinality({t} \X (1..n)) = n
  <1>1. IsFiniteSet({t}) /\ Cardinality({t}) = 1
    BY FS_Singleton
  <1>2. IsFiniteSet(1..n) /\ Cardinality(1..n) = n
    BY FS_Interval
  <1>3. /\ IsFiniteSet({t} \X (1..n))
        /\ Cardinality({t} \X (1..n)) = Cardinality({t}) * Cardinality(1..n)
    BY <1>1, <1>2, FS_Product
  <1> QED BY <1>1, <1>2, <1>3

\* Replacing the batch of a thread changes the number of pending checks by the
\* difference of the lengths (vChecks.resize in Loop).
LEMMA PendingChange ==
    ASSUME NEW v \in [Thread -> Seq(BOOLEAN)], NEW t \in Thread, NEW s \in Seq(BOOLEAN),
           IsFiniteSet(Pending(v))
    PROVE  /\ IsFiniteSet(Pending([v EXCEPT ![t] = s]))
           /\ Cardinality(Pending([v EXCEPT ![t] = s])) = Cardinality(Pending(v)) - Len(v[t]) + Len(s)
           /\ Cardinality(Pending(v)) \in Nat
           /\ Cardinality(Pending(v)) >= Len(v[t])
  <1> DEFINE w == [v EXCEPT ![t] = s]
  <1> DEFINE rest == UNION {{u} \X (1..Len(v[u])) : u \in Thread \ {t}}
  <1> DEFINE old == {t} \X (1..Len(v[t]))
  <1> DEFINE new == {t} \X (1..Len(s))
  <1>1. Pending(v) = rest \cup old /\ rest \cap old = {}
    BY DEF Pending
  <1>2. Pending(w) = rest \cup new /\ rest \cap new = {}
    <2>1. w[t] = s /\ \A u \in Thread \ {t} : w[u] = v[u]
      OBVIOUS
    <2> QED BY <2>1 DEF Pending
  <1>3. /\ IsFiniteSet(old) /\ Cardinality(old) = Len(v[t]) /\ Len(v[t]) \in Nat
        /\ IsFiniteSet(new) /\ Cardinality(new) = Len(s) /\ Len(s) \in Nat
    <2>1. Len(v[t]) \in Nat /\ Len(s) \in Nat
      OBVIOUS
    <2> QED BY <2>1, OneBatch, Zenon
  <1> HIDE DEF rest, old, new, w
  <1>4. IsFiniteSet(rest) /\ Cardinality(rest) \in Nat
    <2>1. rest \in SUBSET Pending(v)
      BY <1>1
    <2> QED BY <2>1, FS_Subset, FS_CardinalityType
  <1>5. Cardinality({}) = 0
    BY FS_EmptySet
  <1>6. Cardinality(rest \cup old) = Cardinality(rest) + Cardinality(old) - Cardinality(rest \cap old)
    BY <1>3, <1>4, FS_Union
  <1>7. /\ IsFiniteSet(rest \cup new)
        /\ Cardinality(rest \cup new) = Cardinality(rest) + Cardinality(new) - Cardinality(rest \cap new)
    BY <1>3, <1>4, FS_Union
  <1>8. Cardinality(Pending(v)) = Cardinality(rest) + Len(v[t])
    <2>1. Cardinality(rest \cup old) = Cardinality(rest) + Len(v[t]) - 0
      BY <1>1, <1>3, <1>5, <1>6, Zenon
    <2>2. Cardinality(Pending(v)) = Cardinality(rest) + Len(v[t]) - 0
      BY <1>1, <2>1, Zenon
    <2> QED BY <1>3, <1>4, <2>2
  <1>9. IsFiniteSet(Pending(w)) /\ Cardinality(Pending(w)) = Cardinality(rest) + Len(s)
    <2>1. Cardinality(rest \cup new) = Cardinality(rest) + Len(s) - 0
      BY <1>2, <1>3, <1>5, <1>7, Zenon
    <2>2. IsFiniteSet(Pending(w)) /\ Cardinality(Pending(w)) = Cardinality(rest) + Len(s) - 0
      BY <1>2, <1>7, <2>1, Zenon
    <2> QED BY <1>3, <1>4, <2>2
  <1> QED BY <1>3, <1>4, <1>8, <1>9 DEF w

\* Without pending checks no thread has a batch.
LEMMA NonePending ==
    ASSUME NEW v \in [Thread -> Seq(BOOLEAN)], IsFiniteSet(Pending(v)), Cardinality(Pending(v)) = 0,
           NEW t \in Thread
    PROVE  v[t] = <<>>
  <1>1. Pending(v) = {}
    BY FS_EmptySet
  <1>2. 1 \notin 1..Len(v[t])
    <2> SUFFICES ASSUME 1 \in 1..Len(v[t]) PROVE FALSE
      OBVIOUS
    <2>1. <<t, 1>> \in {t} \X (1..Len(v[t]))
      OBVIOUS
    <2>2. <<t, 1>> \in Pending(v)
      BY <2>1, Zenon DEF Pending
    <2> QED BY <1>1, <2>2
  <1> QED BY <1>2

\* A thread takes at least one check and no more than there are (nNow in Loop).
LEMMA BatchFits ==
    ASSUME NEW n \in Nat \ {0}, NEW total \in Nat, NEW idle \in Nat
    PROVE  BatchSize(n, total, idle) \in 1..n
  <1> DEFINE d == total + idle + 1
  <1>1. d \in Nat \ {0} /\ d >= 1
    OBVIOUS
  <1> HIDE DEF d
  <1>2. n \div d \in Nat /\ n \div d <= n
    BY <1>1
  <1> QED BY <1>2, BatchAssumption DEF BatchSize, d

\* The checks that remain in the queue and the batch taken from its end.
LEMMA Split ==
    ASSUME NEW q \in Seq(BOOLEAN), NEW n \in 1..Len(q)
    PROVE  /\ SubSeq(q, 1, Len(q) - n) \in Seq(BOOLEAN) /\ Len(SubSeq(q, 1, Len(q) - n)) = Len(q) - n
           /\ SubSeq(q, Len(q) - n + 1, Len(q)) \in Seq(BOOLEAN)
           /\ Len(SubSeq(q, Len(q) - n + 1, Len(q))) = n
           /\ AllGood(q) <=> /\ AllGood(SubSeq(q, 1, Len(q) - n))
                             /\ AllGood(SubSeq(q, Len(q) - n + 1, Len(q)))
  <1> DEFINE r == Len(q) - n
  <1> DEFINE s1 == SubSeq(q, 1, r)
  <1> DEFINE s2 == SubSeq(q, r + 1, Len(q))
  <1>1. Len(q) \in Nat /\ r \in 0..Len(q) /\ n \in Nat \ {0} /\ n = Len(q) - r
    OBVIOUS
  <1>2. \A i \in 1..Len(q) : q[i] \in BOOLEAN
    OBVIOUS
  <1> HIDE DEF r
  <1>3. s1 \in Seq(BOOLEAN) /\ Len(s1) = r /\ \A i \in 1..r : s1[i] = q[i]
    BY <1>1, <1>2, SubSeqProperties
  <1>4. s2 \in Seq(BOOLEAN) /\ Len(s2) = n /\ \A i \in 1..n : s2[i] = q[r + i]
    BY <1>1, <1>2, SubSeqProperties
  <1> HIDE DEF s1, s2
  <1>5. AllGood(q) <=> AllGood(s1) /\ AllGood(s2)
    <2>1. ASSUME AllGood(q) PROVE AllGood(s1) /\ AllGood(s2)
      <3>1. \A i \in 1..n : r + i \in 1..Len(q)
        BY <1>1
      <3>2. \A i \in 1..r : i \in 1..Len(q)
        BY <1>1
      <3> QED BY <1>3, <1>4, <2>1, <3>1, <3>2 DEF AllGood
    <2>2. ASSUME AllGood(s1), AllGood(s2) PROVE AllGood(q)
      <3> SUFFICES ASSUME NEW i \in 1..Len(q) PROVE q[i]
        BY DEF AllGood
      <3>1. CASE i <= r
        <4>1. i \in 1..r
          BY <1>1, <3>1
        <4> QED BY <1>3, <2>2, <4>1 DEF AllGood
      <3>2. CASE i > r
        <4>1. i - r \in 1..n /\ r + (i - r) = i
          BY <1>1, <3>2
        <4>2. s2[i - r] = q[i]
          BY <1>4, <4>1
        <4> QED BY <1>4, <2>2, <4>1, <4>2 DEF AllGood
      <3> QED BY <1>1, <3>1, <3>2
    <2> QED BY <2>1, <2>2
  <1> QED BY <1>1, <1>3, <1>4, <1>5 DEF r, s1, s2

\* What a thread at label l adds to the two counts.
AsWaiter(l) == IF l \in {"wait", "woken", "gone"} THEN 1 ELSE 0
AsBusy(l) == IF l \in {"work", "done"} THEN 1 ELSE 0

\* What a move of thread t to label l does to the counts.
LEMMA Moved ==
    ASSUME NEW p \in [Thread -> Label], NEW t \in Thread, NEW l \in Label
    PROVE  /\ Cardinality(Waiters([p EXCEPT ![t] = l]))
                 = Cardinality(Waiters(p) \ {t}) + AsWaiter(l)
           /\ Cardinality(Busy([p EXCEPT ![t] = l]))
                 = Cardinality(Busy(p) \ {t}) + AsBusy(l)
           /\ Cardinality(Waiters(p)) = Cardinality(Waiters(p) \ {t})
                                        + AsWaiter(p[t])
           /\ Cardinality(Busy(p)) = Cardinality(Busy(p) \ {t})
                                     + AsBusy(p[t])
           /\ Cardinality(Waiters(p) \ {t}) \in Nat /\ Cardinality(Busy(p) \ {t}) \in Nat
  <1> DEFINE q == [p EXCEPT ![t] = l]
  <1>1. /\ IsFiniteSet(Waiters(p) \ {t}) /\ Cardinality(Waiters(p) \ {t}) \in Nat
        /\ IsFiniteSet(Busy(p) \ {t}) /\ Cardinality(Busy(p) \ {t}) \in Nat
    <2>1. Waiters(p) \ {t} \in SUBSET Thread /\ Busy(p) \ {t} \in SUBSET Thread
      BY DEF Waiters, Busy
    <2> QED BY <2>1, ThreadsFinite
  <1>2. ASSUME NEW S, IsFiniteSet(S), t \notin S
        PROVE  Cardinality(S \cup {t}) = Cardinality(S) + 1
    BY <1>2, FS_AddElement
  <1>3. /\ Waiters(q) = IF l \in {"wait", "woken", "gone"} THEN (Waiters(p) \ {t}) \cup {t}
                        ELSE Waiters(p) \ {t}
        /\ Busy(q) = IF l \in {"work", "done"} THEN (Busy(p) \ {t}) \cup {t} ELSE Busy(p) \ {t}
    BY DEF Waiters, Busy
  <1>4. /\ Waiters(p) = IF p[t] \in {"wait", "woken", "gone"} THEN (Waiters(p) \ {t}) \cup {t}
                        ELSE Waiters(p) \ {t}
        /\ Busy(p) = IF p[t] \in {"work", "done"} THEN (Busy(p) \ {t}) \cup {t} ELSE Busy(p) \ {t}
    BY DEF Waiters, Busy
  <1>5. /\ Cardinality((Waiters(p) \ {t}) \cup {t}) = Cardinality(Waiters(p) \ {t}) + 1
        /\ Cardinality((Busy(p) \ {t}) \cup {t}) = Cardinality(Busy(p) \ {t}) + 1
    BY <1>1, <1>2
  <1> DEFINE A == Waiters(p) \ {t}
  <1> DEFINE B == Busy(p) \ {t}
  <1> HIDE DEF A, B, q
  <1>6. /\ Waiters(q) = IF l \in {"wait", "woken", "gone"} THEN A \cup {t} ELSE A
        /\ Waiters(p) = IF p[t] \in {"wait", "woken", "gone"} THEN A \cup {t} ELSE A
        /\ Busy(q) = IF l \in {"work", "done"} THEN B \cup {t} ELSE B
        /\ Busy(p) = IF p[t] \in {"work", "done"} THEN B \cup {t} ELSE B
        /\ Cardinality(A \cup {t}) = Cardinality(A) + 1 /\ Cardinality(A) \in Nat
        /\ Cardinality(B \cup {t}) = Cardinality(B) + 1 /\ Cardinality(B) \in Nat
    BY <1>1, <1>3, <1>4, <1>5 DEF A, B, q
  <1>7. /\ Cardinality(Waiters(q)) = Cardinality(A) + AsWaiter(l)
        /\ Cardinality(Waiters(p)) = Cardinality(A) + AsWaiter(p[t])
    BY <1>6 DEF AsWaiter
  <1>8. /\ Cardinality(Busy(q)) = Cardinality(B) + AsBusy(l)
        /\ Cardinality(Busy(p)) = Cardinality(B) + AsBusy(p[t])
    BY <1>6 DEF AsBusy
  <1> QED BY <1>6, <1>7, <1>8 DEF A, B, q

-----------------------------------------------------------------------------
\* Critical sections.

\* What holds of the values a thread t has computed in its critical section when
\* it tests the queue: they count t neither as waiting nor with its batch.
Entered(t, todo, ok, total, idle, pcs) ==
    /\ pcs \in [Thread -> Label] /\ pcs[t] \notin {"out", "gone"}
    /\ ok \in BOOLEAN
    /\ todo = Len(queue) + Cardinality(Pending(vChecks)) - Len(vChecks[t])
    /\ idle = Cardinality(Waiters(pcs) \ {t}) + Stray
    /\ total = idle + Cardinality(Busy(pcs) \ {t}) + 1
    /\ \A u \in Thread \ {t} :
          /\ pcs[u] \in {"work", "done"} <=> vChecks[u] # <<>>
          /\ vChecks[u] = <<>> => fOk[u]
          /\ pcs[u] = "done" /\ fOk[u] => AllGood(vChecks[u])
    /\ phase = "waiting" <=> pcs[Master] # "out"
    /\ pcs[Master] # "gone"
    /\ phase = "closed" => queue = <<>> /\ todo = 0 /\ ok

\* A critical section that started well ends well: the counters count t again
\* where it now is.
LEMMA ContinueStep ==
    ASSUME TypeOK, IsFiniteSet(Pending(vChecks)), NEW t \in Thread, NEW todo, NEW ok, NEW total,
           NEW idle, NEW pcs, Entered(t, todo, ok, total, idle, pcs),
           Continue(t, todo, ok, total, idle, pcs)
    PROVE  QueueInv'
  <1> DEFINE A == Cardinality(Waiters(pcs) \ {t})
  <1> DEFINE B == Cardinality(Busy(pcs) \ {t})
  <1> DEFINE C == Cardinality(Pending(vChecks)) - Len(vChecks[t])
  <1>1. /\ pcs \in [Thread -> Label] /\ ok \in BOOLEAN /\ Master \in Thread
        /\ A \in Nat /\ B \in Nat
    <2>1. Waiters(pcs) \ {t} \in SUBSET Thread /\ Busy(pcs) \ {t} \in SUBSET Thread
      BY DEF Waiters, Busy
    <2> QED BY <2>1, ThreadsFinite DEF Entered, Thread
  <1>2. /\ C \in Nat /\ Len(queue) \in Nat /\ Stray \in {0, 1}
        /\ \A s \in Seq(BOOLEAN) :
              /\ IsFiniteSet(Pending([vChecks EXCEPT ![t] = s]))
              /\ Cardinality(Pending([vChecks EXCEPT ![t] = s])) = C + Len(s)
    <2>1. \A s \in Seq(BOOLEAN) :
             /\ IsFiniteSet(Pending([vChecks EXCEPT ![t] = s]))
             /\ Cardinality(Pending([vChecks EXCEPT ![t] = s])) = C + Len(s)
      BY PendingChange DEF TypeOK
    <2>2. <<>> \in Seq(BOOLEAN) /\ Len(vChecks[t]) \in Nat
      BY EmptySeq DEF TypeOK
    <2>3. Cardinality(Pending(vChecks)) \in Nat /\ Cardinality(Pending(vChecks)) >= Len(vChecks[t])
      BY <2>2, PendingChange DEF TypeOK
    <2> QED BY <2>1, <2>2, <2>3 DEF TypeOK, Stray
  <1>3. /\ todo = Len(queue) + C /\ idle = A + Stray /\ total = idle + B + 1
        /\ todo \in Nat /\ idle \in Nat /\ total \in Nat /\ total - 1 \in Nat
    <2>1. todo = Len(queue) + Cardinality(Pending(vChecks)) - Len(vChecks[t])
      BY DEF Entered
    <2>2. Cardinality(Pending(vChecks)) \in Nat /\ Len(vChecks[t]) \in Nat
      BY FS_CardinalityType DEF TypeOK
    <2>3. idle = A + Stray /\ total = idle + B + 1
      BY DEF Entered
    <2>4. todo = Len(queue) + C
      BY <1>2, <2>1, <2>2
    <2> HIDE DEF A, B, C
    <2> QED BY <1>1, <1>2, <2>3, <2>4
  <1> HIDE DEF A, B, C
  <1>4. ASSUME NEW l \in Label
        PROVE  /\ Cardinality(Waiters([pcs EXCEPT ![t] = l]))
                     = A + AsWaiter(l)
               /\ Cardinality(Busy([pcs EXCEPT ![t] = l]))
                     = B + AsBusy(l)
    <2>1. pcs \in [Thread -> Label] BY <1>1
    <2>2. /\ Cardinality(Waiters([pcs EXCEPT ![t] = l]))
                 = Cardinality(Waiters(pcs) \ {t}) + AsWaiter(l)
          /\ Cardinality(Busy([pcs EXCEPT ![t] = l]))
                 = Cardinality(Busy(pcs) \ {t}) + AsBusy(l)
      BY <2>1, Moved, Zenon
    <2> QED BY <2>2 DEF A, B
  <1>5. nTodo' = todo /\ UNCHANGED shutdown /\ Stray' = Stray
    BY DEF Continue, Stray
  <1>6. CASE queue # <<>> /\ TakeBatch(t, ok, total, idle, pcs)
    <2> DEFINE n == BatchSize(Len(queue), total, idle)
    <2> DEFINE s == SubSeq(queue, Len(queue) - n + 1, Len(queue))
    <2>1. n \in 1..Len(queue)
      BY <1>2, <1>3, <1>6, BatchFits DEF TypeOK
    <2>2. /\ queue' = SubSeq(queue, 1, Len(queue) - n)
          /\ vChecks' = [vChecks EXCEPT ![t] = s]
          /\ fOk' = [fOk EXCEPT ![t] = ok]
          /\ fAllOk' = ok /\ nTotal' = total /\ nIdle' = idle
          /\ pc' = [pcs EXCEPT ![t] = "work"]
          /\ UNCHANGED <<phase, result>>
      BY <1>6 DEF TakeBatch
    <2> HIDE DEF n
    <2>3. s \in Seq(BOOLEAN) /\ Len(s) = n /\ queue' \in Seq(BOOLEAN) /\ Len(queue') = Len(queue) - n
      BY <2>1, <2>2, Split DEF TypeOK
    <2> HIDE DEF s
    <2>4. TypeOK'
      BY <1>1, <1>3, <1>5, <2>2, <2>3 DEF TypeOK, Label
    <2>5. IsFiniteSet(Pending(vChecks))' /\ Cardinality(Pending(vChecks))' = C + n
      BY <1>2, <2>2, <2>3
    <2>6. Counters'
      <3>1. Cardinality(Waiters(pc))' = A /\ Cardinality(Busy(pc))' = B + 1
        BY <1>1, <1>4, <2>2 DEF Label, AsWaiter, AsBusy
      <3>2. nTodo' = Len(queue)' + Cardinality(Pending(vChecks))'
        BY <1>2, <1>3, <1>5, <2>1, <2>3, <2>5
      <3>3. nIdle' = Cardinality(Waiters(pc))' + Stray' /\ nTotal' = nIdle' + Cardinality(Busy(pc))'
        BY <1>1, <1>2, <1>3, <1>5, <2>2, <3>1
      <3> QED BY <3>2, <3>3 DEF Counters
    <2>7. Batches'
      <3>1. s # <<>>
        BY <1>2, <2>1, <2>3
      <3>2. pc'[t] = "work" /\ vChecks'[t] = s
        BY <1>1, <2>2 DEF TypeOK
      <3>3. \A u \in Thread \ {t} : pc'[u] = pcs[u] /\ vChecks'[u] = vChecks[u] /\ fOk'[u] = fOk[u]
        BY <1>1, <2>2 DEF TypeOK
      <3> QED BY <3>1, <3>2, <3>3 DEF Batches, Entered
    <2>8. Phases'
      BY <1>1, <1>6, <2>2 DEF Phases, Entered
    <2> QED BY <2>4, <2>5, <2>6, <2>7, <2>8 DEF QueueInv
  <1>7. CASE queue = <<>> /\ t = Master /\ todo = 0 /\ ReturnStatus(ok, total, idle, pcs)
    <2>1. /\ result' = ok /\ fAllOk' = TRUE /\ nTotal' = total - 1 /\ nIdle' = idle
          /\ pc' = [pcs EXCEPT ![t] = "out"]
          /\ phase' = "closed"
          /\ vChecks' = [vChecks EXCEPT ![t] = <<>>]
          /\ fOk' = [fOk EXCEPT ![t] = TRUE]
          /\ UNCHANGED queue
      BY <1>7 DEF ReturnStatus, NoBatch
    <2>2. TypeOK'
      <3>1. /\ pc' \in [Thread -> Label]
            /\ vChecks' \in [Thread -> Seq(BOOLEAN)]
            /\ fOk' \in [Thread -> BOOLEAN]
        BY <1>1, <2>1, EmptySeq DEF TypeOK, Label
      <3>2. nTodo' \in Nat /\ nIdle' \in Nat /\ nTotal' \in Nat
        BY <1>3, <1>5, <2>1
      <3> QED BY <1>1, <1>5, <2>1, <3>1, <3>2 DEF TypeOK
    <2>3. <<>> \in Seq(BOOLEAN) /\ Len(<<>>) = 0
      BY EmptySeq
    <2>4. IsFiniteSet(Pending(vChecks))' /\ Cardinality(Pending(vChecks))' = C
      <3>1. Cardinality(Pending(vChecks))' = C + 0 /\ IsFiniteSet(Pending(vChecks))'
        BY <1>2, <2>1, <2>3, Zenon
      <3> QED BY <1>2, <3>1
    <2>5. Counters'
      <3>1. Cardinality(Waiters(pc))' = A /\ Cardinality(Busy(pc))' = B
        BY <1>1, <1>4, <2>1 DEF Label, AsWaiter, AsBusy
      <3> QED BY <1>1, <1>2, <1>3, <1>5, <2>1, <2>4, <3>1 DEF Counters
    <2>6. Batches'
      <3>1. pc'[t] = "out" /\ vChecks'[t] = <<>> /\ fOk'[t]
        BY <1>1, <2>1 DEF TypeOK
      <3>2. \A u \in Thread \ {t} : pc'[u] = pcs[u] /\ vChecks'[u] = vChecks[u] /\ fOk'[u] = fOk[u]
        BY <1>1, <2>1 DEF TypeOK
      <3> QED BY <3>1, <3>2 DEF Batches, Entered
    <2>7. Phases'
      BY <1>1, <1>5, <1>7, <2>1 DEF Phases
    <2> QED BY <2>2, <2>4, <2>5, <2>6, <2>7 DEF QueueInv
  <1>8. CASE queue = <<>> /\ ~(t = Master /\ todo = 0) /\ Idle(t, ok, total, idle, pcs)
    <2>1. /\ fAllOk' = ok /\ nTotal' = total /\ nIdle' = idle + 1
          /\ pc' = [pcs EXCEPT ![t] = "wait"]
          /\ vChecks' = [vChecks EXCEPT ![t] = <<>>]
          /\ fOk' = [fOk EXCEPT ![t] = TRUE]
          /\ UNCHANGED <<queue, phase, result>>
      BY <1>8 DEF Idle, NoBatch
    <2>2. TypeOK'
      <3>1. /\ pc' \in [Thread -> Label]
            /\ vChecks' \in [Thread -> Seq(BOOLEAN)]
            /\ fOk' \in [Thread -> BOOLEAN]
        BY <1>1, <2>1, EmptySeq DEF TypeOK, Label
      <3>2. nTodo' \in Nat /\ nIdle' \in Nat /\ nTotal' \in Nat
        BY <1>3, <1>5, <2>1
      <3> QED BY <1>1, <1>5, <2>1, <3>1, <3>2 DEF TypeOK
    <2>3. <<>> \in Seq(BOOLEAN) /\ Len(<<>>) = 0
      BY EmptySeq
    <2>4. IsFiniteSet(Pending(vChecks))' /\ Cardinality(Pending(vChecks))' = C
      <3>1. Cardinality(Pending(vChecks))' = C + 0 /\ IsFiniteSet(Pending(vChecks))'
        BY <1>2, <2>1, <2>3, Zenon
      <3> QED BY <1>2, <3>1
    <2>5. Counters'
      <3>1. Cardinality(Waiters(pc))' = A + 1 /\ Cardinality(Busy(pc))' = B
        BY <1>1, <1>4, <2>1 DEF Label, AsWaiter, AsBusy
      <3> QED BY <1>1, <1>2, <1>3, <1>5, <2>1, <2>4, <3>1 DEF Counters
    <2>6. Batches'
      <3>1. pc'[t] = "wait" /\ vChecks'[t] = <<>> /\ fOk'[t]
        BY <1>1, <2>1 DEF TypeOK
      <3>2. \A u \in Thread \ {t} : pc'[u] = pcs[u] /\ vChecks'[u] = vChecks[u] /\ fOk'[u] = fOk[u]
        BY <1>1, <2>1 DEF TypeOK
      <3> QED BY <3>1, <3>2 DEF Batches, Entered
    <2>7. Phases'
      BY <1>1, <1>5, <1>8, <2>1 DEF Phases, Entered
    <2> QED BY <2>2, <2>4, <2>5, <2>6, <2>7 DEF QueueInv
  <1> QED BY <1>6, <1>7, <1>8 DEF Continue

-----------------------------------------------------------------------------
\* The steps.

\* No thread is in Loop at first.
LEMMA QueueInit == Init => QueueInv
  <1> SUFFICES ASSUME Init PROVE QueueInv
    OBVIOUS
  <1>1. TypeOK
    <2>1. <<>> \in Seq(BOOLEAN)
      BY EmptySeq
    <2> QED BY <2>1 DEF Init, TypeOK, Label
  <1>2. Pending(vChecks) = {}
    BY DEF Init, Pending
  <1>3. Waiters(pc) = {} /\ Busy(pc) = {}
    BY DEF Init, Waiters, Busy
  <1>4. IsFiniteSet(Pending(vChecks)) /\ Cardinality(Pending(vChecks)) = 0
    BY <1>2, FS_EmptySet, Zenon
  <1>5. Cardinality(Waiters(pc)) = 0 /\ Cardinality(Busy(pc)) = 0
    BY <1>3, FS_EmptySet, Zenon
  <1>6. Counters
    BY <1>4, <1>5 DEF Init, Counters, Stray
  <1>7. Batches /\ Phases
    BY DEF Init, Batches, Phases, Thread
  <1> QED BY <1>1, <1>4, <1>6, <1>7 DEF QueueInv

\* A thread that has no batch enters its first critical section.
LEMMA EnterEntered ==
    ASSUME QueueInv, NEW t \in Thread, Enter(t)
    PROVE  Entered(t, nTodo, fAllOk, nTotal + 1, nIdle, pc)
  <1>1. pc[t] = "enter"
    BY DEF Enter
  <1>2. TypeOK /\ IsFiniteSet(Pending(vChecks)) /\ Counters /\ Batches /\ Phases
    BY DEF QueueInv
  <1>3. vChecks[t] = <<>> /\ Len(vChecks[t]) = 0
    BY <1>1, <1>2, EmptySeq DEF Batches
  <1>4. Waiters(pc) \ {t} = Waiters(pc) /\ Busy(pc) \ {t} = Busy(pc)
    BY <1>1 DEF Waiters, Busy
  <1>5. Cardinality(Pending(vChecks)) \in Nat
    BY <1>2, FS_CardinalityType
  <1>6. Entered(t, nTodo, fAllOk, nTotal + 1, nIdle, pc)
    <2>1. nTodo = Len(queue) + Cardinality(Pending(vChecks)) - Len(vChecks[t])
      BY <1>2, <1>3, <1>5 DEF Counters, TypeOK
    <2>2. nIdle = Cardinality(Waiters(pc) \ {t}) + Stray
      BY <1>2, <1>4, Zenon DEF Counters
    <2>3. nTotal = nIdle + Cardinality(Busy(pc) \ {t})
      BY <1>2, <1>4, Zenon DEF Counters
    <2>4. pc \in [Thread -> Label] /\ pc[t] \notin {"out", "gone"} /\ fAllOk \in BOOLEAN
      BY <1>1, <1>2 DEF TypeOK
    <2> QED BY <1>2, <2>1, <2>2, <2>3, <2>4 DEF Entered, Batches, Phases
  <1> QED BY <1>6

\* A thread takes off its batch; the master that is told waits no less.
LEMMA CleanUpEntered ==
    ASSUME QueueInv, NEW t \in Thread, CleanUp(t)
    PROVE  Entered(t, nTodo - Len(vChecks[t]), fAllOk /\ fOk[t], nTotal, nIdle,
                   NotifyMaster(t, nTodo - Len(vChecks[t])))
  <1> DEFINE todo == nTodo - Len(vChecks[t])
  <1> DEFINE pcs == NotifyMaster(t, todo)
  <1>1. pc[t] = "done"
    BY DEF CleanUp
  <1>2. /\ TypeOK /\ IsFiniteSet(Pending(vChecks)) /\ Counters /\ Batches /\ Phases
        /\ Master \in Thread
    BY DEF QueueInv, Thread
  <1>3. /\ pcs \in [Thread -> Label] /\ pcs[t] = "done"
        /\ \A u \in Thread : \/ pcs[u] = pc[u]
                             \/ u = Master /\ pc[u] = "wait" /\ pcs[u] = "woken"
    BY <1>1, <1>2 DEF NotifyMaster, TypeOK, Label
  <1> HIDE DEF pcs
  <1>4. Waiters(pcs) \ {t} = Waiters(pc) \ {t} /\ Busy(pcs) \ {t} = Busy(pc) \ {t}
    BY <1>3 DEF Waiters, Busy
  <1>5. /\ Cardinality(Waiters(pc)) = Cardinality(Waiters(pc) \ {t})
        /\ Cardinality(Busy(pc)) = Cardinality(Busy(pc) \ {t}) + 1
        /\ Cardinality(Waiters(pc) \ {t}) \in Nat /\ Cardinality(Busy(pc) \ {t}) \in Nat
    <2>1. pc \in [Thread -> Label] /\ "out" \in Label
      BY <1>2 DEF TypeOK, Label
    <2>2. /\ Cardinality(Waiters(pc)) = Cardinality(Waiters(pc) \ {t})
                + AsWaiter(pc[t])
          /\ Cardinality(Busy(pc)) = Cardinality(Busy(pc) \ {t})
                + AsBusy(pc[t])
          /\ Cardinality(Waiters(pc) \ {t}) \in Nat /\ Cardinality(Busy(pc) \ {t}) \in Nat
      BY <2>1, Moved, Zenon
    <2> QED BY <1>1, <2>2 DEF AsWaiter, AsBusy
  <1>6. Cardinality(Pending(vChecks)) \in Nat /\ Len(vChecks[t]) \in Nat
    BY <1>2, FS_CardinalityType DEF TypeOK
  <1>7. phase # "closed"
    <2> SUFFICES ASSUME phase = "closed" PROVE FALSE
      OBVIOUS
    <2>1. Len(queue) = 0 /\ nTodo = 0
      BY <1>2, EmptySeq DEF Phases
    <2>2. Cardinality(Pending(vChecks)) = 0
      BY <1>2, <1>6, <2>1 DEF Counters
    <2>3. vChecks[t] = <<>>
      BY <1>2, <2>2, NonePending DEF TypeOK
    <2> QED BY <1>1, <1>2, <2>3 DEF Batches
  <1>8. Entered(t, todo, fAllOk /\ fOk[t], nTotal, nIdle, pcs)
    <2>1. todo = Len(queue) + Cardinality(Pending(vChecks)) - Len(vChecks[t])
      BY <1>2, <1>6 DEF Counters, TypeOK
    <2> HIDE DEF todo
    <2>2. nIdle = Cardinality(Waiters(pcs) \ {t}) + Stray
      <3>1. nIdle = Cardinality(Waiters(pc) \ {t}) + Stray
        BY <1>2, <1>5 DEF Counters
      <3> QED BY <1>4, <3>1, Zenon
    <2>3. nTotal = nIdle + Cardinality(Busy(pcs) \ {t}) + 1
      <3>1. nTotal = nIdle + Cardinality(Busy(pc) \ {t}) + 1
        BY <1>2, <1>5 DEF Counters, TypeOK
      <3> QED BY <1>4, <3>1, Zenon
    <2>4. (fAllOk /\ fOk[t]) \in BOOLEAN
      OBVIOUS
    <2>5. \A u \in Thread \ {t} :
             /\ pcs[u] \in {"work", "done"} <=> vChecks[u] # <<>>
             /\ vChecks[u] = <<>> => fOk[u]
             /\ pcs[u] = "done" /\ fOk[u] => AllGood(vChecks[u])
      BY <1>2, <1>3 DEF Batches
    <2>6. (phase = "waiting" <=> pcs[Master] # "out") /\ pcs[Master] # "gone"
      BY <1>2, <1>3 DEF Phases
    <2> QED BY <1>3, <1>7, <2>1, <2>2, <2>3, <2>4, <2>5, <2>6 DEF Entered
  <1> QED BY <1>8 DEF pcs

\* A thread that was woken is no longer idle.
LEMMA ResumeEntered ==
    ASSUME QueueInv, NEW t \in Thread, Resume(t)
    PROVE  Entered(t, nTodo, fAllOk, nTotal, nIdle - 1, pc)
  <1>1. pc[t] = "woken"
    BY DEF Resume
  <1>2. TypeOK /\ IsFiniteSet(Pending(vChecks)) /\ Counters /\ Batches /\ Phases
    BY DEF QueueInv
  <1>3. vChecks[t] = <<>> /\ Len(vChecks[t]) = 0
    BY <1>1, <1>2, EmptySeq DEF Batches
  <1>4. /\ Cardinality(Waiters(pc)) = Cardinality(Waiters(pc) \ {t}) + 1
        /\ Cardinality(Busy(pc)) = Cardinality(Busy(pc) \ {t})
        /\ Cardinality(Waiters(pc) \ {t}) \in Nat /\ Cardinality(Busy(pc) \ {t}) \in Nat
    <2>1. pc \in [Thread -> Label] /\ "out" \in Label
      BY <1>2 DEF TypeOK, Label
    <2>2. /\ Cardinality(Waiters(pc)) = Cardinality(Waiters(pc) \ {t})
                + AsWaiter(pc[t])
          /\ Cardinality(Busy(pc)) = Cardinality(Busy(pc) \ {t})
                + AsBusy(pc[t])
          /\ Cardinality(Waiters(pc) \ {t}) \in Nat /\ Cardinality(Busy(pc) \ {t}) \in Nat
      BY <2>1, Moved, Zenon
    <2> QED BY <1>1, <2>2 DEF AsWaiter, AsBusy
  <1>5. Cardinality(Pending(vChecks)) \in Nat
    BY <1>2, FS_CardinalityType
  <1>6. Entered(t, nTodo, fAllOk, nTotal, nIdle - 1, pc)
    <2>1. nTodo = Len(queue) + Cardinality(Pending(vChecks)) - Len(vChecks[t])
      BY <1>2, <1>3, <1>5 DEF Counters, TypeOK
    <2>2. nIdle - 1 = Cardinality(Waiters(pc) \ {t}) + Stray
      BY <1>2, <1>4 DEF Counters, Stray
    <2>3. nTotal = (nIdle - 1) + Cardinality(Busy(pc) \ {t}) + 1
      BY <1>2, <1>4 DEF Counters, TypeOK
    <2>4. pc \in [Thread -> Label] /\ pc[t] \notin {"out", "gone"} /\ fAllOk \in BOOLEAN
      BY <1>1, <1>2 DEF TypeOK
    <2> QED BY <1>2, <2>1, <2>2, <2>3, <2>4 DEF Entered, Batches, Phases
  <1> QED BY <1>6

\* A step that moves threads among the labels without a batch, and keeps the
\* count of those that wait, keeps the invariant.
LEMMA RelabelStep ==
    ASSUME QueueInv, UNCHANGED <<queue, nTodo, nIdle, nTotal, fAllOk, vChecks, fOk, result>>,
           pc' \in [Thread -> Label], phase' \in {"closed", "open", "waiting"},
           shutdown' \in BOOLEAN, Phases',
           \A t \in Thread : pc'[t] # pc[t] => /\ pc[t] \notin {"work", "done"}
                                               /\ pc'[t] \notin {"work", "done"},
           Cardinality(Waiters(pc')) + Stray' = Cardinality(Waiters(pc)) + Stray
    PROVE  QueueInv'
  <1>1. TypeOK'
    BY DEF QueueInv, TypeOK
  <1>2. Busy(pc') = Busy(pc)
    BY DEF Busy
  <1>3. Cardinality(Busy(pc')) = Cardinality(Busy(pc))
    BY <1>2, Zenon
  <1>4. Counters'
    BY <1>3 DEF QueueInv, Counters
  <1>5. Batches'
    BY DEF QueueInv, Batches
  <1>6. IsFiniteSet(Pending(vChecks))'
    BY DEF QueueInv, Pending
  <1> QED BY <1>1, <1>4, <1>5, <1>6 DEF QueueInv

\* Every step keeps the invariant.
LEMMA QueueStep == QueueInv /\ [Next]_vars => QueueInv'
  <1> SUFFICES ASSUME QueueInv, [Next]_vars PROVE QueueInv'
    OBVIOUS
  <1>0. TypeOK /\ IsFiniteSet(Pending(vChecks)) /\ Counters /\ Batches /\ Phases /\ Master \in Thread
    BY DEF QueueInv, Thread
  <1>1. CASE Open
    <2>1. Phases'
      BY <1>0, <1>1 DEF Open, Phases, counters, batch
    <2> QED BY <1>0, <1>1, <2>1, RelabelStep DEF Open, counters, batch, TypeOK, Stray
  <1>2. CASE Wait
    <2>1. Phases'
      BY <1>0, <1>2 DEF Wait, Phases, counters, batch, TypeOK, Label
    <2>2. pc[Master] = "out"
      BY <1>0, <1>2 DEF Wait, Phases
    <2>3. Waiters(pc') = Waiters(pc)
      BY <1>0, <1>2, <2>2 DEF Wait, Waiters, TypeOK
    <2>4. Cardinality(Waiters(pc')) + Stray' = Cardinality(Waiters(pc)) + Stray
      BY <1>2, <2>3 DEF Wait, Stray
    <2> QED BY <1>0, <1>2, <2>1, <2>2, <2>4, RelabelStep DEF Wait, counters, batch, TypeOK, Label
  <1>3. ASSUME NEW n \in 0..MaxQueue, NEW checks \in [1..n -> BOOLEAN], Add(checks)
        PROVE  QueueInv'
    <2>1. checks \in Seq(BOOLEAN) /\ Len(checks) \in Nat
      BY BatchAssumption
    <2>2. PICK told \in SUBSET Waiting :
             pc' = [t \in Thread |-> IF t \in told THEN "woken" ELSE pc[t]]
      BY <1>3 DEF Add
    <2>3. /\ phase = "open" /\ queue' = queue \o checks /\ nTodo' = nTodo + Len(checks)
          /\ UNCHANGED <<nIdle, nTotal, fAllOk, vChecks, fOk, phase, result, shutdown>>
      BY <1>3 DEF Add, batch
    <2>4. pc' \in [Thread -> Label]
          /\ \A t \in Thread : \/ pc'[t] = pc[t]
                               \/ t # Master /\ pc[t] = "wait" /\ pc'[t] = "woken"
      BY <1>0, <2>2, WorkerAssumption DEF Waiting, TypeOK, Label
    <2>5. queue' \in Seq(BOOLEAN) /\ Len(queue') = Len(queue) + Len(checks) /\ Len(queue) \in Nat
      BY <1>0, <2>1, <2>3, ConcatProperties DEF TypeOK
    <2>6. TypeOK'
      BY <1>0, <2>1, <2>3, <2>4, <2>5 DEF TypeOK
    <2>7. Waiters(pc') = Waiters(pc) /\ Busy(pc') = Busy(pc)
      BY <2>4 DEF Waiters, Busy
    <2>8. Counters'
      <3>1. Cardinality(Waiters(pc')) = Cardinality(Waiters(pc)) /\ Cardinality(Busy(pc')) = Cardinality(Busy(pc))
        BY <2>7, Zenon
      <3>2. Cardinality(Pending(vChecks)) \in Nat
        BY <1>0, FS_CardinalityType
      <3> QED BY <1>0, <2>1, <2>3, <2>5, <3>1, <3>2 DEF Counters, Stray
    <2>9. Batches'
      BY <1>0, <2>3, <2>4 DEF Batches
    <2>10. Phases'
      BY <1>0, <2>3, <2>4 DEF Phases
    <2>11. IsFiniteSet(Pending(vChecks))'
      BY <1>0, <2>3 DEF Pending
    <2> QED BY <2>6, <2>8, <2>9, <2>10, <2>11 DEF QueueInv
  <1>4. ASSUME NEW w \in Worker, StartThread(w)
        PROVE  QueueInv'
    <2>1. w \in Thread /\ w # Master
      BY WorkerAssumption DEF Thread
    <2>2. Phases'
      BY <1>0, <1>4, <2>1 DEF StartThread, Phases, counters, batch, TypeOK
    <2>3. Waiters(pc') = Waiters(pc)
      BY <1>0, <1>4, <2>1 DEF StartThread, Waiters, TypeOK
    <2>4. Cardinality(Waiters(pc')) + Stray' = Cardinality(Waiters(pc)) + Stray
      BY <1>4, <2>3 DEF StartThread, Stray
    <2> QED BY <1>0, <1>4, <2>1, <2>2, <2>4, RelabelStep
            DEF StartThread, counters, batch, TypeOK, Label
  <1>5. ASSUME NEW w \in Worker, Interrupt(w)
        PROVE  QueueInv'
    <2>1. w \in Thread /\ w # Master
      BY WorkerAssumption DEF Thread
    <2>2. Phases'
      BY <1>0, <1>5, <2>1 DEF Interrupt, Phases, counters, batch, TypeOK
    <2>3. Waiters(pc') = Waiters(pc)
      BY <1>0, <1>5, <2>1 DEF Interrupt, Waiters, TypeOK
    <2>4. Cardinality(Waiters(pc')) + Stray' = Cardinality(Waiters(pc)) + Stray
      BY <1>5, <2>3 DEF Interrupt, Stray
    <2> QED BY <1>0, <1>5, <2>1, <2>2, <2>4, RelabelStep
            DEF Interrupt, counters, batch, TypeOK, Label
  <1>6. CASE InterruptMaster
    <2>1. Phases'
      BY <1>0, <1>6 DEF InterruptMaster, Phases, counters, batch, TypeOK
    <2>2. /\ Cardinality(Waiters(pc')) = Cardinality(Waiters(pc) \ {Master})
          /\ Cardinality(Waiters(pc)) = Cardinality(Waiters(pc) \ {Master}) + 1
          /\ Cardinality(Waiters(pc) \ {Master}) \in Nat
      <3>1. pc' = [pc EXCEPT ![Master] = "enter"] /\ pc[Master] \in {"wait", "woken"}
        BY <1>6 DEF InterruptMaster
      <3>2. pc \in [Thread -> Label] /\ "enter" \in Label
        BY <1>0 DEF TypeOK, Label
      <3>3. /\ Cardinality(Waiters([pc EXCEPT ![Master] = "enter"]))
                 = Cardinality(Waiters(pc) \ {Master})
                   + AsWaiter("enter")
            /\ Cardinality(Waiters(pc)) = Cardinality(Waiters(pc) \ {Master})
                   + AsWaiter(pc[Master])
            /\ Cardinality(Waiters(pc) \ {Master}) \in Nat
        <4>1. Master \in Thread BY DEF Thread
        <4> QED BY <3>2, <4>1, Moved, Zenon
      <3> QED BY <3>1, <3>3 DEF AsWaiter
    <2>3. Stray = 0 /\ Stray' = 1
      BY <1>6 DEF InterruptMaster, Stray
    <2>4. Cardinality(Waiters(pc')) + Stray' = Cardinality(Waiters(pc)) + Stray
      BY <2>2, <2>3
    <2> QED BY <1>0, <1>6, <2>1, <2>4, RelabelStep
            DEF InterruptMaster, counters, batch, TypeOK, Label
  <1>7. ASSUME NEW t \in Thread, Enter(t) PROVE QueueInv'
    <2>1. Continue(t, nTodo, fAllOk, nTotal + 1, nIdle, pc)
      BY <1>7 DEF Enter
    <2> QED BY <1>0, <1>7, <2>1, EnterEntered, ContinueStep
  <1>8. ASSUME NEW t \in Thread, Execute(t) PROVE QueueInv'
    <2>1. /\ pc[t] = "work" /\ pc' = [pc EXCEPT ![t] = "done"]
          /\ fOk' = [fOk EXCEPT ![t] = @ /\ AllGood(vChecks[t])]
          /\ UNCHANGED <<queue, nTodo, nIdle, nTotal, fAllOk, vChecks, phase, result, shutdown>>
      BY <1>8 DEF Execute, counters
    <2>2. TypeOK'
      <3>1. (fOk[t] /\ AllGood(vChecks[t])) \in BOOLEAN
        OBVIOUS
      <3>2. fOk' \in [Thread -> BOOLEAN]
        BY <1>0, <2>1, <3>1 DEF TypeOK
      <3> QED BY <1>0, <2>1, <3>2 DEF TypeOK, Label
    <2>3. Waiters(pc') = Waiters(pc) /\ Busy(pc') = Busy(pc)
      BY <1>0, <2>1 DEF Waiters, Busy, TypeOK
    <2>4. Counters'
      <3>1. Cardinality(Waiters(pc')) = Cardinality(Waiters(pc)) /\ Cardinality(Busy(pc')) = Cardinality(Busy(pc))
        BY <2>3, Zenon
      <3> QED BY <1>0, <2>1, <3>1 DEF Counters, Stray
    <2>5. Batches'
      <3>1. \A u \in Thread \ {t} : pc'[u] = pc[u] /\ fOk'[u] = fOk[u]
        BY <1>0, <2>1 DEF TypeOK
      <3>2. pc'[t] = "done" /\ vChecks[t] # <<>>
        BY <1>0, <2>1 DEF TypeOK, Batches
      <3>3. fOk'[t] => AllGood(vChecks[t])
        BY <1>0, <2>1 DEF TypeOK
      <3>4. AllGood(vChecks[t])' = AllGood(vChecks[t])
        BY <2>1 DEF AllGood
      <3> QED BY <1>0, <2>1, <3>1, <3>2, <3>3, <3>4 DEF Batches
    <2>6. Phases'
      BY <1>0, <2>1 DEF Phases, TypeOK
    <2>7. IsFiniteSet(Pending(vChecks))'
      BY <1>0, <2>1 DEF Pending
    <2> QED BY <2>2, <2>4, <2>5, <2>6, <2>7 DEF QueueInv
  <1>9. ASSUME NEW t \in Thread, CleanUp(t) PROVE QueueInv'
    <2>1. Continue(t, nTodo - Len(vChecks[t]), fAllOk /\ fOk[t], nTotal, nIdle,
                   NotifyMaster(t, nTodo - Len(vChecks[t])))
      BY <1>9 DEF CleanUp
    <2> QED BY <1>0, <1>9, <2>1, CleanUpEntered, ContinueStep
  <1>10. ASSUME NEW t \in Thread, Resume(t) PROVE QueueInv'
    <2>1. Continue(t, nTodo, fAllOk, nTotal, nIdle - 1, pc)
      BY <1>10 DEF Resume
    <2> QED BY <1>0, <1>10, <2>1, ResumeEntered, ContinueStep
  <1>11. ASSUME NEW t \in Thread, SpuriousWakeup(t) PROVE QueueInv'
    <2>1. Phases'
      BY <1>0, <1>11 DEF SpuriousWakeup, Phases, counters, batch, TypeOK
    <2>2. Waiters(pc') = Waiters(pc)
      BY <1>0, <1>11 DEF SpuriousWakeup, Waiters, TypeOK
    <2>3. Cardinality(Waiters(pc')) + Stray' = Cardinality(Waiters(pc)) + Stray
      BY <1>11, <2>2 DEF SpuriousWakeup, Stray
    <2> QED BY <1>0, <1>11, <2>1, <2>3, RelabelStep
            DEF SpuriousWakeup, counters, batch, TypeOK, Label
  <1>12. CASE UNCHANGED vars
    <2>1. Phases'
      BY <1>0, <1>12 DEF vars, counters, Phases
    <2> QED BY <1>0, <1>12, <2>1, RelabelStep DEF vars, counters, batch, TypeOK, Stray
  <1> QED BY <1>1, <1>2, <1>3, <1>4, <1>5, <1>6, <1>7, <1>8, <1>9, <1>10, <1>11, <1>12 DEF Next, Loop

\* IsIdle follows when there is no controller.
LEMMA IdleClosed == QueueInv => IdleAtStart
  <1> SUFFICES ASSUME QueueInv, phase = "closed" PROVE IsIdle
    BY DEF IdleAtStart
  <1>1. nTodo = 0 /\ fAllOk /\ Len(queue) = 0
    BY EmptySeq DEF QueueInv, Phases
  <1>2. Cardinality(Pending(vChecks)) = 0
    <2>1. Cardinality(Pending(vChecks)) \in Nat
      BY FS_CardinalityType DEF QueueInv
    <2> QED BY <1>1, <2>1 DEF QueueInv, Counters
  <1>3. \A t \in Thread : vChecks[t] = <<>>
    BY <1>2, NonePending DEF QueueInv, TypeOK
  <1>4. Busy(pc) = {}
    BY <1>3 DEF QueueInv, Batches, Busy
  <1>5. Cardinality(Busy(pc)) = 0
    BY <1>4, FS_EmptySet, Zenon
  <1> QED BY <1>1, <1>5 DEF IsIdle, QueueInv, Counters, TypeOK

-----------------------------------------------------------------------------
\* The refinement of CheckControl.

\* The safety part of CheckControl, without the promise that Wait returns.
ControlSafety == Control!Init /\ [][Control!Next]_(Control!vars)

\* What is good does not depend on where the checks are.
LEMMA GoodKept ==
    ASSUME UNCHANGED <<queue, fAllOk, vChecks, fOk>>
    PROVE  GoodSoFar' = GoodSoFar
  BY DEF GoodSoFar, AllGood

\* A critical section moves checks from the queue into a batch and their results
\* into fAllOk, or is the return of Wait.
LEMMA ContinueRefines ==
    ASSUME TypeOK, IsFiniteSet(Pending(vChecks)), NEW t \in Thread, NEW todo, NEW ok, NEW total,
           NEW idle, NEW pcs, Entered(t, todo, ok, total, idle, pcs),
           Continue(t, todo, ok, total, idle, pcs),
           GoodSoFar <=> /\ ok /\ AllGood(queue)
                         /\ \A u \in Thread \ {t} : fOk[u] /\ AllGood(vChecks[u])
    PROVE  Control!Return \/ UNCHANGED <<phase, GoodSoFar, result>>
  <1>1. ok \in BOOLEAN /\ Len(queue) \in Nat /\ total \in Nat /\ idle \in Nat
    <2>1. Waiters(pcs) \ {t} \in SUBSET Thread /\ Busy(pcs) \ {t} \in SUBSET Thread
      BY DEF Waiters, Busy
    <2>2. Cardinality(Waiters(pcs) \ {t}) \in Nat /\ Cardinality(Busy(pcs) \ {t}) \in Nat
      BY <2>1, ThreadsFinite
    <2>3. Stray \in Nat
      BY DEF Stray
    <2>4. ok \in BOOLEAN /\ Len(queue) \in Nat
      BY DEF Entered, TypeOK
    <2>5. /\ idle = Cardinality(Waiters(pcs) \ {t}) + Stray
          /\ total = idle + Cardinality(Busy(pcs) \ {t}) + 1
      BY DEF Entered
    <2> QED BY <2>2, <2>3, <2>4, <2>5
  <1>2. CASE queue # <<>> /\ TakeBatch(t, ok, total, idle, pcs)
    <2> DEFINE n == BatchSize(Len(queue), total, idle)
    <2> DEFINE s == SubSeq(queue, Len(queue) - n + 1, Len(queue))
    <2>1. n \in 1..Len(queue)
      BY <1>1, <1>2, BatchFits DEF TypeOK
    <2>2. /\ queue' = SubSeq(queue, 1, Len(queue) - n)
          /\ vChecks' = [vChecks EXCEPT ![t] = s]
          /\ fOk' = [fOk EXCEPT ![t] = ok]
          /\ fAllOk' = ok
          /\ UNCHANGED <<phase, result>>
      BY <1>2 DEF TakeBatch
    <2> HIDE DEF n
    <2>3. AllGood(queue) <=> AllGood(queue') /\ AllGood(s)
      BY <2>1, <2>2, Split DEF TypeOK
    <2> HIDE DEF s
    <2>4. /\ vChecks'[t] = s /\ fOk'[t] = ok
          /\ \A u \in Thread \ {t} : vChecks'[u] = vChecks[u] /\ fOk'[u] = fOk[u]
      BY <2>2 DEF TypeOK
    <2>5. GoodSoFar' <=> /\ ok /\ AllGood(queue') /\ AllGood(s)
                         /\ \A u \in Thread \ {t} : fOk[u] /\ AllGood(vChecks[u])
      BY <2>2, <2>4 DEF GoodSoFar, AllGood
    <2>6. GoodSoFar' = GoodSoFar
      BY <2>3, <2>5 DEF GoodSoFar
    <2> QED BY <2>2, <2>6
  <1>3. CASE queue = <<>> /\ t = Master /\ todo = 0 /\ ReturnStatus(ok, total, idle, pcs)
    <2>1. /\ result' = ok /\ fAllOk' = TRUE /\ phase' = "closed" /\ UNCHANGED queue
          /\ vChecks' = [vChecks EXCEPT ![t] = <<>>]
          /\ fOk' = [fOk EXCEPT ![t] = TRUE]
      BY <1>3 DEF ReturnStatus, NoBatch
    <2>2. phase = "waiting"
      BY <1>3 DEF Entered
    <2>3. \A u \in Thread : vChecks'[u] = <<>>
      <3>1. /\ IsFiniteSet(Pending(vChecks'))
            /\ Cardinality(Pending(vChecks')) = Cardinality(Pending(vChecks)) - Len(vChecks[t]) + Len(<<>>)
            /\ Cardinality(Pending(vChecks)) \in Nat
        BY <2>1, PendingChange, EmptySeq DEF TypeOK
      <3>2. Len(<<>>) = 0 /\ Len(vChecks[t]) \in Nat /\ vChecks' \in [Thread -> Seq(BOOLEAN)]
        BY <2>1, EmptySeq DEF TypeOK
      <3>3. Len(queue) = 0
        BY <1>3, <3>2
      <3>4. 0 = Len(queue) + Cardinality(Pending(vChecks)) - Len(vChecks[t])
        BY <1>3 DEF Entered
      <3>5. Cardinality(Pending(vChecks')) = 0
        BY <3>1, <3>2, <3>3, <3>4
      <3> QED BY <3>1, <3>2, <3>5, NonePending
    <2>4. \A u \in Thread \ {t} : vChecks[u] = <<>> /\ fOk[u]
      BY <2>1, <2>3 DEF Entered, TypeOK
    <2>5. AllGood(<<>>)
      BY DEF AllGood
    <2>6. GoodSoFar <=> ok
      BY <1>3, <2>4, <2>5, Zenon
    <2>7. GoodSoFar'
      <3>1. \A u \in Thread : fOk'[u]
        BY <2>1, <2>4 DEF TypeOK
      <3>2. AllGood(queue')
        BY <1>3, <2>1, <2>5
      <3>3. \A u \in Thread : AllGood(vChecks'[u])
        BY <2>3, <2>5, Zenon
      <3> QED BY <2>1, <3>1, <3>2, <3>3 DEF GoodSoFar, AllGood
    <2>8. GoodSoFar \in BOOLEAN /\ GoodSoFar' \in BOOLEAN
      BY DEF GoodSoFar
    <2>9. result' = GoodSoFar /\ GoodSoFar' = TRUE
      BY <1>1, <2>1, <2>6, <2>7, <2>8
    <2> QED BY <2>1, <2>2, <2>9 DEF Control!Return
  <1>4. CASE queue = <<>> /\ ~(t = Master /\ todo = 0) /\ Idle(t, ok, total, idle, pcs)
    <2>1. /\ fAllOk' = ok /\ UNCHANGED <<queue, phase, result>>
          /\ vChecks' = [vChecks EXCEPT ![t] = <<>>]
          /\ fOk' = [fOk EXCEPT ![t] = TRUE]
      BY <1>4 DEF Idle, NoBatch
    <2>2. /\ vChecks'[t] = <<>> /\ fOk'[t]
          /\ \A u \in Thread \ {t} : vChecks'[u] = vChecks[u] /\ fOk'[u] = fOk[u]
      BY <2>1 DEF TypeOK
    <2>3. GoodSoFar' <=> /\ ok /\ AllGood(queue)
                         /\ \A u \in Thread \ {t} : fOk[u] /\ AllGood(vChecks[u])
      BY <2>1, <2>2 DEF GoodSoFar, AllGood
    <2>4. GoodSoFar' = GoodSoFar
      BY <2>3 DEF GoodSoFar
    <2> QED BY <2>1, <2>4
  <1> QED BY <1>2, <1>3, <1>4 DEF Continue

\* Every step is one of CheckControl, or none.
LEMMA ControlStep == QueueInv /\ [Next]_vars => [Control!Next]_(Control!vars)
  <1> SUFFICES ASSUME QueueInv, [Next]_vars PROVE [Control!Next]_(Control!vars)
    OBVIOUS
  <1>0. TypeOK /\ IsFiniteSet(Pending(vChecks)) /\ Counters /\ Batches /\ Phases /\ Master \in Thread
    BY DEF QueueInv, Thread
  <1>1. CASE Open
    <2>1. GoodSoFar' = GoodSoFar
      BY <1>1, GoodKept DEF Open, batch
    <2> QED BY <1>1, <2>1 DEF Open, Control!Open, Control!Next
  <1>2. CASE Wait
    <2>1. GoodSoFar' = GoodSoFar
      BY <1>2, GoodKept DEF Wait, batch
    <2> QED BY <1>2, <2>1 DEF Wait, Control!Wait, Control!Next
  <1>3. ASSUME NEW n \in 0..MaxQueue, NEW checks \in [1..n -> BOOLEAN], Add(checks)
        PROVE  Control!Next
    <2>1. checks \in Seq(BOOLEAN) /\ Len(checks) \in Nat
      BY BatchAssumption
    <2>2. /\ phase = "open" /\ queue' = queue \o checks
          /\ UNCHANGED <<fAllOk, vChecks, fOk, phase, result>>
      BY <1>3 DEF Add, batch
    <2>3. AllGood(queue') <=> AllGood(queue) /\ AllGood(checks)
      <3> DEFINE a == Len(queue)
      <3> DEFINE c == Len(checks)
      <3>1. a \in Nat /\ c \in Nat /\ Len(queue') = a + c
        BY <1>0, <2>1, <2>2, ConcatProperties DEF TypeOK
      <3>2. \A i \in 1..a + c : queue'[i] = IF i <= a THEN queue[i] ELSE checks[i - a]
        BY <1>0, <2>1, <2>2, ConcatProperties DEF TypeOK
      <3> HIDE DEF a, c
      <3>3. ASSUME AllGood(queue') PROVE AllGood(queue) /\ AllGood(checks)
        <4>1. \A i \in 1..a : i \in 1..a + c /\ i <= a
          BY <3>1
        <4>2. \A i \in 1..c : i + a \in 1..a + c /\ ~(i + a <= a) /\ (i + a) - a = i
          BY <3>1
        <4>3. \A i \in 1..a : queue'[i] = queue[i]
          BY <3>2, <4>1
        <4>4. \A i \in 1..c : queue'[i + a] = checks[i]
          BY <3>2, <4>2
        <4> QED BY <3>1, <3>3, <4>1, <4>2, <4>3, <4>4 DEF AllGood, a, c
      <3>4. ASSUME AllGood(queue), AllGood(checks) PROVE AllGood(queue')
        <4> SUFFICES ASSUME NEW i \in 1..a + c PROVE queue'[i]
          BY <3>1 DEF AllGood
        <4>1. CASE i <= a
          <5>1. i \in 1..a /\ queue'[i] = queue[i]
            BY <3>1, <3>2, <4>1
          <5> QED BY <3>4, <5>1 DEF AllGood, a
        <4>2. CASE ~(i <= a)
          <5>1. i - a \in 1..c /\ queue'[i] = checks[i - a]
            BY <3>1, <3>2, <4>2
          <5> QED BY <3>4, <5>1 DEF AllGood, c
        <4> QED BY <4>1, <4>2
      <3> QED BY <3>3, <3>4
    <2>4. AllGood(checks) \in BOOLEAN
      BY DEF AllGood
    <2>5. GoodSoFar' = (GoodSoFar /\ AllGood(checks))
      BY <2>2, <2>3 DEF GoodSoFar, AllGood
    <2>6. Control!Add(AllGood(checks))
      BY <2>2, <2>5 DEF Control!Add
    <2> QED BY <2>4, <2>6 DEF Control!Next
  <1>4. ASSUME NEW w \in Worker, StartThread(w) \/ Interrupt(w)
        PROVE  UNCHANGED <<phase, GoodSoFar, result>>
    BY <1>4, GoodKept DEF StartThread, Interrupt, batch
  <1>5. CASE InterruptMaster
    <2>1. UNCHANGED <<phase, GoodSoFar, result>>
      BY <1>5, GoodKept DEF InterruptMaster, batch
    <2> QED BY <2>1 DEF Control!vars
  <1>6. ASSUME NEW t \in Thread, Enter(t)
        PROVE  Control!Return \/ UNCHANGED <<phase, GoodSoFar, result>>
    <2>1. Continue(t, nTodo, fAllOk, nTotal + 1, nIdle, pc) /\ pc[t] = "enter"
      BY <1>6 DEF Enter
    <2>2. fOk[t] /\ vChecks[t] = <<>> /\ AllGood(<<>>)
      BY <1>0, <2>1 DEF Batches, AllGood
    <2>3. GoodSoFar <=> /\ fAllOk /\ AllGood(queue)
                        /\ \A u \in Thread \ {t} : fOk[u] /\ AllGood(vChecks[u])
      BY <2>2, Zenon DEF GoodSoFar
    <2> QED BY <1>0, <1>6, <2>1, <2>3, EnterEntered, ContinueRefines
  <1>7. ASSUME NEW t \in Thread, Execute(t)
        PROVE  UNCHANGED <<phase, GoodSoFar, result>>
    <2>1. /\ fOk' = [fOk EXCEPT ![t] = @ /\ AllGood(vChecks[t])]
          /\ UNCHANGED <<queue, fAllOk, vChecks, phase, result>>
      BY <1>7 DEF Execute
    <2>2. /\ fOk'[t] <=> fOk[t] /\ AllGood(vChecks[t])
          /\ \A u \in Thread \ {t} : fOk'[u] = fOk[u]
      BY <1>0, <2>1 DEF TypeOK
    <2>3. GoodSoFar' = GoodSoFar
      BY <2>1, <2>2 DEF GoodSoFar, AllGood
    <2> QED BY <2>1, <2>3
  <1>8. ASSUME NEW t \in Thread, CleanUp(t)
        PROVE  Control!Return \/ UNCHANGED <<phase, GoodSoFar, result>>
    <2>1. /\ Continue(t, nTodo - Len(vChecks[t]), fAllOk /\ fOk[t], nTotal, nIdle,
                      NotifyMaster(t, nTodo - Len(vChecks[t])))
          /\ pc[t] = "done"
      BY <1>8 DEF CleanUp
    <2>2. fOk[t] => AllGood(vChecks[t])
      BY <1>0, <2>1 DEF Batches
    <2>3. GoodSoFar <=> /\ (fAllOk /\ fOk[t]) /\ AllGood(queue)
                        /\ \A u \in Thread \ {t} : fOk[u] /\ AllGood(vChecks[u])
      BY <2>2, Zenon DEF GoodSoFar
    <2> QED BY <1>0, <1>8, <2>1, <2>3, CleanUpEntered, ContinueRefines
  <1>9. ASSUME NEW t \in Thread, Resume(t)
        PROVE  Control!Return \/ UNCHANGED <<phase, GoodSoFar, result>>
    <2>1. Continue(t, nTodo, fAllOk, nTotal, nIdle - 1, pc) /\ pc[t] = "woken"
      BY <1>9 DEF Resume
    <2>2. fOk[t] /\ vChecks[t] = <<>> /\ AllGood(<<>>)
      BY <1>0, <2>1 DEF Batches, AllGood
    <2>3. GoodSoFar <=> /\ fAllOk /\ AllGood(queue)
                        /\ \A u \in Thread \ {t} : fOk[u] /\ AllGood(vChecks[u])
      BY <2>2, Zenon DEF GoodSoFar
    <2> QED BY <1>0, <1>9, <2>1, <2>3, ResumeEntered, ContinueRefines
  <1>10. ASSUME NEW t \in Thread, SpuriousWakeup(t)
         PROVE  UNCHANGED <<phase, GoodSoFar, result>>
    BY <1>10, GoodKept DEF SpuriousWakeup, batch
  <1>11. CASE UNCHANGED vars
    <2>1. UNCHANGED <<phase, GoodSoFar, result>>
      BY <1>11, GoodKept DEF vars, batch
    <2> QED BY <2>1 DEF Control!vars
  <1> QED BY <1>1, <1>2, <1>3, <1>4, <1>5, <1>6, <1>7, <1>8, <1>9, <1>10, <1>11
          DEF Next, Loop, Control!Next, Control!vars

-----------------------------------------------------------------------------
\* The counters of the queue stay natural numbers: nIdle-- and nTodo -= nNow in
\* Loop never go below zero (src/src/checkqueue.h:82).
THEOREM QueueTyped == Spec => []TypeOK
  <1>1. QueueInv => TypeOK
    BY DEF QueueInv
  <1> QED BY <1>1, QueueInit, QueueStep, PTL DEF Spec

\* The assertion of the constructor of CCheckQueueControl never fails, for any
\* number of workers that start late, are in the middle of Loop or were
\* interrupted.
THEOREM QueueIdle == Spec => []IdleAtStart
  <1>1. QueueInv => IdleAtStart
    BY IdleClosed DEF QueueInv
  <1> QED BY <1>1, QueueInit, QueueStep, PTL DEF Spec

\* Every behaviour of the pool is one of CheckControl: checks are added between
\* the constructor and Wait, and Wait returns the conjunction of exactly those.
\* (ImplementsControl without the fairness of Return.)
THEOREM QueueRefinement == Spec => ControlSafety
  <1>1. Init => Control!Init
    <2> SUFFICES ASSUME Init PROVE Control!Init
      OBVIOUS
    <2>1. AllGood(<<>>)
      BY DEF AllGood
    <2>2. GoodSoFar
      BY <2>1 DEF Init, GoodSoFar
    <2>3. GoodSoFar = TRUE
      BY <2>2 DEF GoodSoFar
    <2> QED BY <2>3 DEF Init, Control!Init
  <1> QED BY <1>1, QueueInit, QueueStep, ControlStep, PTL DEF Spec, ControlSafety
=============================================================================
