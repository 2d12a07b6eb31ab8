-------------------------- MODULE CoinsCacheProofs --------------------------
(***************************************************************************)
(* Proofs about CoinsCache, for every set of transactions, outputs,        *)
(* heights and blocks.  The caches act on each transaction id by itself,   *)
(* so the lemmas speak of one id: what each operation does to an entry's   *)
(* flags (the Honest lemmas) and to the answer of the stack of views (the  *)
(* Answer lemmas).                                                         *)
(***************************************************************************)
EXTENDS CoinsCache, TLAPS

MaybeCoins == Coins \cup {Absent}
MaybeEntry == Entry \cup {Absent}

\* The coins a cache answers with, given what its base answers.
Answer(entry, base) == IF entry # Absent THEN entry.coins ELSE base

\* FetchCoins on one entry.
FetchedEntry(entry, base) ==
    IF entry # Absent \/ base = Absent THEN entry
    ELSE [coins |-> base, dirty |-> FALSE, fresh |-> IsPruned(base)]

\* The two halves of FetchCoins: it touches t only, and only to fetch it.
LEMMA FetchPointwise ==
    ASSUME NEW cache \in Cache, NEW base \in [Txid -> MaybeCoins], NEW t \in Txid
    PROVE  /\ FetchCoins(cache, base, t) \in Cache
           /\ \A u \in Txid : FetchCoins(cache, base, t)[u] =
                 IF u = t THEN FetchedEntry(cache[u], base[u]) ELSE cache[u]
BY DEF FetchCoins, FetchedEntry, Cache, Entry, MaybeCoins, IsPruned

\* Reading an entry changes neither its honesty nor the answer.
LEMMA FetchHonest ==
    ASSUME NEW e \in MaybeEntry, NEW base \in MaybeCoins, Honest(e, base)
    PROVE  /\ Honest(FetchedEntry(e, base), base)
           /\ Answer(FetchedEntry(e, base), base) = Answer(e, base)
BY AbsentAssumption
   DEF Honest, FetchedEntry, Answer, MaybeEntry, MaybeCoins, Entry, IsUnspent, IsPruned

\* ModifyCoins and the modifier's destructor on one entry.
ModifiedEntry(entry, base) ==
    IF entry # Absent THEN [entry EXCEPT !.dirty = TRUE]
    ELSE IF base = Absent THEN [coins |-> Cleared, dirty |-> TRUE, fresh |-> TRUE]
    ELSE [coins |-> base, dirty |-> TRUE, fresh |-> IsPruned(base)]

ReleasedEntry(entry, c) ==
    IF entry.fresh /\ IsPruned(c) THEN Absent ELSE [entry EXCEPT !.coins = c]

\* The destructor of CCoinsModifier touches one entry only.
LEMMA ReleasePointwise ==
    ASSUME NEW cache \in Cache, NEW t \in Txid, NEW m \in Entry, NEW c \in Coins
    PROVE  /\ Release(cache, t, m, c) \in Cache
           /\ \A u \in Txid : Release(cache, t, m, c)[u] =
                 IF u = t THEN ReleasedEntry(m, c) ELSE cache[u]
BY DEF Release, ReleasedEntry, Cache, Entry

\* A modifier's entry is typed, and honest whether it was cached or not.
LEMMA ModifyHonest ==
    ASSUME NEW e \in MaybeEntry, NEW base \in MaybeCoins, Honest(e, base)
    PROVE  LET m == ModifiedEntry(e, base) IN
           /\ m \in Entry
           /\ m.dirty
           /\ m.fresh => ~IsUnspent(base)
           /\ Canon(m.coins) = Canon(Answer(e, base))
<1>1. CASE e # Absent
  BY <1>1 DEF ModifiedEntry, MaybeEntry, Entry, Honest, Answer
<1>2. CASE e = Absent /\ base = Absent
  BY <1>2, AbsentAssumption
     DEF ModifiedEntry, Entry, IsUnspent, Answer, Canon, Cleared, Coins, IsPruned
<1>3. CASE e = Absent /\ base # Absent
  BY <1>3 DEF ModifiedEntry, MaybeCoins, Entry, IsUnspent, Answer, IsPruned
<1>4. QED BY <1>1, <1>2, <1>3

\* Whatever coins the modifier leaves, the entry stays honest and the cache
\* answers with those coins: a FRESH entry may be erased once it is spent.
LEMMA ReleaseHonest ==
    ASSUME NEW m \in Entry, NEW base \in MaybeCoins, NEW c \in Coins,
           m.dirty, m.fresh => ~IsUnspent(base)
    PROVE  LET r == ReleasedEntry(m, c) IN
           /\ Honest(r, base)
           /\ Canon(Answer(r, base)) = Canon(c)
<1>1. c # Absent BY AbsentAssumption
<1>2. CASE m.fresh /\ IsPruned(c)
  BY <1>1, <1>2 DEF ReleasedEntry, Honest, Answer, Canon, IsUnspent
<1>3. CASE ~(m.fresh /\ IsPruned(c))
  <2>1. /\ ReleasedEntry(m, c) \in Entry
        /\ ReleasedEntry(m, c).coins = c
        /\ ReleasedEntry(m, c).dirty = m.dirty
        /\ ReleasedEntry(m, c).fresh = m.fresh
    BY <1>3 DEF ReleasedEntry, Entry
  <2>2. QED BY <2>1, AbsentAssumption DEF Honest, Answer
<1>4. QED BY <1>2, <1>3

\* Merging a child's entry into its parent keeps the parent's flags honest
\* and makes the parent answer what the child answered.
LEMMA BatchWriteHonest ==
    ASSUME NEW us \in MaybeEntry, NEW child \in MaybeEntry, NEW base \in MaybeCoins,
           Honest(us, base), Honest(child, Answer(us, base))
    PROVE  LET r == BatchWriteEntry(us, child) IN
           /\ r \in MaybeEntry
           /\ Honest(r, base)
           /\ Canon(Answer(r, base)) = Canon(Answer(child, Answer(us, base)))
<1> DEFINE r == BatchWriteEntry(us, child)
<1>1. CASE child = Absent
  BY <1>1 DEF BatchWriteEntry, Answer
<1>2. CASE child # Absent /\ ~child.dirty
  BY <1>2 DEF BatchWriteEntry, Answer, Honest
<1>3. CASE child # Absent /\ child.dirty /\ us = Absent
  <2>1. CASE child.fresh /\ IsPruned(child.coins)
    BY <1>3, <2>1, AbsentAssumption
       DEF BatchWriteEntry, Answer, Honest, Canon, IsUnspent, MaybeEntry, Entry
  <2>2. CASE ~(child.fresh /\ IsPruned(child.coins))
    <3>1. r = [coins |-> child.coins, dirty |-> TRUE, fresh |-> child.fresh]
      BY <1>3, <2>2 DEF BatchWriteEntry
    <3>2. r \in Entry /\ r.coins = child.coins /\ r.dirty /\ r.fresh = child.fresh
      BY <1>3, <3>1 DEF MaybeEntry, Entry
    <3>3. QED BY <1>3, <3>2, AbsentAssumption DEF Answer, Honest, MaybeEntry
  <2>3. QED BY <2>1, <2>2
<1>4. CASE child # Absent /\ child.dirty /\ us # Absent
  <2>1. CASE us.fresh /\ IsPruned(child.coins)
    BY <1>4, <2>1, AbsentAssumption
       DEF BatchWriteEntry, Answer, Honest, Canon, IsUnspent, MaybeEntry, Entry
  <2>2. CASE ~(us.fresh /\ IsPruned(child.coins))
    <3>1. r = [coins |-> child.coins, dirty |-> TRUE, fresh |-> us.fresh]
      BY <1>4, <2>2 DEF BatchWriteEntry
    <3>2. r \in Entry /\ r.coins = child.coins /\ r.dirty /\ r.fresh = us.fresh
      BY <1>4, <3>1 DEF MaybeEntry, Entry
    <3>3. QED BY <1>4, <3>2, AbsentAssumption DEF Answer, Honest, MaybeEntry
  <2>3. QED BY <2>1, <2>2
<1>5. QED BY <1>1, <1>2, <1>3, <1>4

\* Writing an honest cache to the database makes the database answer what the
\* cache answered, and leaves no spent transaction in it.
LEMMA DBWriteHonest ==
    ASSUME NEW e \in MaybeEntry, NEW base \in MaybeCoins, Honest(e, base),
           base # Absent => ~IsPruned(base)
    PROVE  LET r == DBWriteEntry(base, e) IN
           /\ r \in MaybeCoins
           /\ r # Absent => ~IsPruned(r)
           /\ Canon(r) = Canon(Answer(e, base))
<1>1. CASE e = Absent
  BY <1>1 DEF DBWriteEntry, Answer
<1>2. CASE e # Absent
  BY <1>2, AbsentAssumption
     DEF DBWriteEntry, Answer, Honest, MaybeEntry, MaybeCoins, Entry, Canon
<1>3. QED BY <1>1, <1>2

-----------------------------------------------------------------------------
\* The answers of pcoinsTip and of the block's view, one id at a time.
LEMMA ViewAnswers ==
    ASSUME TypeOK
    PROVE  /\ TipView \in [Txid -> MaybeCoins]
           /\ \A t \in Txid : TipView[t] = Answer(tip[t], db[t])
           /\ BlockView \in [Txid -> MaybeCoins]
           /\ \A t \in Txid : BlockView[t] = Answer(view[t], TipView[t])
<1>1. /\ TipView \in [Txid -> MaybeCoins]
      /\ \A t \in Txid : TipView[t] = Answer(tip[t], db[t])
  BY DEF TypeOK, TipView, Through, Answer, MaybeCoins, Cache, Entry
<1>2. /\ BlockView \in [Txid -> MaybeCoins]
      /\ \A t \in Txid : BlockView[t] = Answer(view[t], TipView[t])
  <2> HIDE DEF TipView
  <2> QED BY <1>1 DEF TypeOK, BlockView, Through, Answer, MaybeCoins, Cache, Entry
<1>3. QED BY <1>1, <1>2

\* A read that fills pcoinsTip changes no answer of pcoinsTip.
LEMMA TipFill ==
    ASSUME CacheInv, NEW t \in Txid, db' = db,
           tip' = tip \/ tip' = FetchCoins(tip, db, t)
    PROVE  /\ tip' \in Cache
           /\ \A u \in Txid : Honest(tip'[u], db[u])
           /\ TipView' = TipView
<1>1. /\ tip \in Cache /\ db \in [Txid -> MaybeCoins]
      /\ \A u \in Txid : Honest(tip[u], db[u])
      /\ \A u \in Txid : tip[u] \in MaybeEntry
  BY DEF CacheInv, TypeOK, FlagsHonest, MaybeCoins, Cache, MaybeEntry
<1>2. /\ tip' \in Cache
      /\ \A u \in Txid : tip'[u] = tip[u] \/ tip'[u] = FetchedEntry(tip[u], db[u])
  BY <1>1, FetchPointwise
<1>3. \A u \in Txid : /\ Honest(tip'[u], db[u])
                      /\ Answer(tip'[u], db[u]) = Answer(tip[u], db[u])
  <2>1. TAKE u \in Txid
  <2>2. tip[u] \in MaybeEntry /\ db[u] \in MaybeCoins /\ Honest(tip[u], db[u])
    BY <1>1
  <2>3. QED BY <1>2, <2>2, FetchHonest
<1>4. TipView' = TipView
  BY <1>3 DEF TipView, Through, Answer
<1>5. QED BY <1>2, <1>3, <1>4

\* ModifyCoins on the block's view: the invariant holds again, pcoinsTip's
\* answers stay, and the view answers with the new coins.
LEMMA ViewModifyEffect ==
    ASSUME CacheInv, NEW t \in Txid, NEW c \in Coins, mode # "idle", ViewModify(t, c)
    PROVE  /\ CacheInv'
           /\ TipView' = TipView
           /\ \A u \in Txid : Canon(BlockView'[u]) =
                 IF u = t THEN Canon(c) ELSE Canon(BlockView[u])
<1> DEFINE m == ModifyCoins(view, TipView, t)
<1>0. TypeOK /\ FlagsHonest BY DEF CacheInv
<1>1. /\ tip' \in Cache
      /\ \A u \in Txid : Honest(tip'[u], db[u])
      /\ TipView' = TipView
  <2>1. db' = db /\ (tip' = tip \/ tip' = FetchCoins(tip, db, t))
    BY DEF ViewModify
  <2>2. QED BY <2>1, TipFill
<1>2. view \in Cache /\ \A u \in Txid : view[u] \in MaybeEntry /\ Honest(view[u], TipView[u])
  BY <1>0 DEF TypeOK, FlagsHonest, Cache, MaybeEntry
<1>3. \A u \in Txid : TipView[u] \in MaybeCoins
  BY <1>0, ViewAnswers
<1>4. m = ModifiedEntry(view[t], TipView[t])
  BY DEF ModifyCoins, ModifiedEntry
<1>5. m \in Entry /\ m.dirty /\ (m.fresh => ~IsUnspent(TipView[t]))
  BY <1>2, <1>3, <1>4, ModifyHonest
<1>6. /\ view' \in Cache
      /\ \A u \in Txid : view'[u] = IF u = t THEN ReleasedEntry(m, c) ELSE view[u]
  <2>1. view' = Release(view, t, m, c) BY DEF ViewModify
  <2>2. QED BY <2>1, <1>2, <1>5, ReleasePointwise
<1>7. /\ Honest(ReleasedEntry(m, c), TipView[t])
      /\ Canon(Answer(ReleasedEntry(m, c), TipView[t])) = Canon(c)
  BY <1>3, <1>5, ReleaseHonest
<1>8. CacheInv'
  <2>1. TypeOK' BY <1>0, <1>1, <1>6 DEF TypeOK, ViewModify
  <2>2. FlagsHonest'
    BY <1>1, <1>2, <1>6, <1>7 DEF FlagsHonest, ViewModify
  <2>3. ViewClosed' BY DEF ViewClosed, ViewModify
  <2>4. QED BY <2>1, <2>2, <2>3 DEF CacheInv
<1>9. \A u \in Txid : Canon(BlockView'[u]) = IF u = t THEN Canon(c) ELSE Canon(BlockView[u])
  <2>1. \A u \in Txid : BlockView'[u] = Answer(view'[u], TipView'[u])
    BY DEF BlockView, Through, Answer
  <2>2. QED BY <2>1, <1>0, <1>1, <1>6, <1>7, ViewAnswers
<1>10. QED BY <1>1, <1>8, <1>9

\* ModifyNewCoins on the block's view, where BIP30 allows it: as ModifyCoins.
LEMMA AddCoinsEffect ==
    ASSUME CacheInv, NEW t \in Txid, NEW outs \in SUBSET Outs, NEW h \in Heights,
           AddCoins(t, outs, h)
    PROVE  LET c == [outs |-> outs, height |-> h] IN
           /\ CacheInv'
           /\ TipView' = TipView
           /\ \A u \in Txid : Canon(BlockView'[u]) =
                 IF u = t THEN Canon(c) ELSE Canon(BlockView[u])
<1> DEFINE c == [outs |-> outs, height |-> h]
<1>0. TypeOK /\ FlagsHonest BY DEF CacheInv
<1>1. TipView' = TipView /\ c \in Coins
  BY DEF AddCoins, TipView, Coins
<1>2. view \in Cache /\ \A u \in Txid : Honest(view[u], TipView[u]) /\ Honest(tip[u], db[u])
  BY <1>0 DEF TypeOK, FlagsHonest
<1>3. \A u \in Txid : TipView[u] \in MaybeCoins
  BY <1>0, ViewAnswers
<1>4. /\ ModifyNewCoins \in Entry /\ ModifyNewCoins.dirty
      /\ ~IsUnspent(TipView[t])
  BY DEF ModifyNewCoins, Entry, Coins, AddCoins, NotUnspentAtTip
<1>5. /\ view' \in Cache
      /\ \A u \in Txid : view'[u] = IF u = t THEN ReleasedEntry(ModifyNewCoins, c) ELSE view[u]
  <2>1. view' = Release(view, t, ModifyNewCoins, c) BY DEF AddCoins
  <2>2. QED BY <2>1, <1>1, <1>2, <1>4, ReleasePointwise
<1>6. /\ Honest(ReleasedEntry(ModifyNewCoins, c), TipView[t])
      /\ Canon(Answer(ReleasedEntry(ModifyNewCoins, c), TipView[t])) = Canon(c)
  BY <1>1, <1>3, <1>4, ReleaseHonest
<1>7. CacheInv'
  <2>1. TypeOK' BY <1>0, <1>5 DEF TypeOK, AddCoins
  <2>2. FlagsHonest' BY <1>1, <1>2, <1>5, <1>6 DEF FlagsHonest, AddCoins
  <2>3. ViewClosed' BY DEF ViewClosed, AddCoins
  <2>4. QED BY <2>1, <2>2, <2>3 DEF CacheInv
<1>8. \A u \in Txid : BlockView'[u] = Answer(view'[u], TipView'[u])
  BY DEF BlockView, Through, Answer
<1>9. QED BY <1>0, <1>1, <1>5, <1>6, <1>7, <1>8, ViewAnswers

\* What a modifier finds is a CCoins, equal to the view's answer.
LEMMA ModifiedAnswer ==
    ASSUME CacheInv, NEW t \in Txid
    PROVE  /\ Modified(t) \in Coins
           /\ Canon(Modified(t)) = Canon(BlockView[t])
<1>1. TypeOK /\ FlagsHonest BY DEF CacheInv
<1>2. /\ view[t] \in MaybeEntry /\ TipView[t] \in MaybeCoins
      /\ Honest(view[t], TipView[t])
      /\ BlockView[t] = Answer(view[t], TipView[t])
  BY <1>1, ViewAnswers DEF TypeOK, FlagsHonest, Cache, MaybeEntry
<1>3. Modified(t) = ModifiedEntry(view[t], TipView[t]).coins
  BY DEF Modified, ModifyCoins, ModifiedEntry
<1>4. QED BY <1>2, <1>3, ModifyHonest DEF Entry

\* Merging the view of a block into pcoinsTip, and pcoinsTip into the database.
LEMMA CommitViewEffect ==
    ASSUME CacheInv, NEW b \in Block, CommitView(b)
    PROVE  /\ CacheInv'
           /\ \A u \in Txid : /\ Canon(TipView'[u]) = Canon(BlockView[u])
                              /\ BlockView'[u] = TipView'[u]
<1>0. TypeOK /\ FlagsHonest BY DEF CacheInv
<1>1. \A u \in Txid : /\ tip[u] \in MaybeEntry /\ view[u] \in MaybeEntry
                      /\ db[u] \in MaybeCoins
                      /\ Honest(tip[u], db[u]) /\ Honest(view[u], Answer(tip[u], db[u]))
                      /\ BlockView[u] = Answer(view[u], Answer(tip[u], db[u]))
  BY <1>0, ViewAnswers DEF TypeOK, FlagsHonest, Cache, MaybeEntry, MaybeCoins
<1>2. tip' = [u \in Txid |-> BatchWriteEntry(tip[u], view[u])]
  BY DEF CommitView, BatchWrite
<1>3. \A u \in Txid : /\ tip'[u] \in MaybeEntry
                      /\ Honest(tip'[u], db[u])
                      /\ Canon(Answer(tip'[u], db[u])) = Canon(BlockView[u])
  BY <1>1, <1>2, BatchWriteHonest
<1>4. \A u \in Txid : /\ view'[u] = Absent
                      /\ TipView'[u] = Answer(tip'[u], db[u])
                      /\ BlockView'[u] = TipView'[u]
  BY DEF CommitView, EmptyCache, TipView, BlockView, Through, Answer
<1>5. CacheInv'
  <2>1. TypeOK'
    BY <1>0, <1>2, <1>3 DEF TypeOK, CommitView, EmptyCache, Cache, MaybeEntry
  <2>2. FlagsHonest' BY <1>3, <1>4 DEF FlagsHonest, CommitView, Honest
  <2>3. ViewClosed' BY DEF ViewClosed, CommitView, EmptyCache
  <2>4. QED BY <2>1, <2>2, <2>3 DEF CacheInv
<1>6. QED BY <1>3, <1>4, <1>5

\* Flushing pcoinsTip changes the database to what the tip answered and
\* nothing a reader sees.
LEMMA FlushTipEffect ==
    ASSUME CacheInv, FlushTip
    PROVE  /\ CacheInv'
           /\ \A u \in Txid : /\ Canon(db'[u]) = Canon(TipView[u])
                              /\ TipView'[u] = db'[u]
                              /\ BlockView'[u] = db'[u]
                              /\ BlockView[u] = TipView[u]
<1>0. TypeOK /\ FlagsHonest /\ ViewClosed BY DEF CacheInv
<1>1. \A u \in Txid : /\ tip[u] \in MaybeEntry /\ db[u] \in MaybeCoins
                      /\ db[u] # Absent => ~IsPruned(db[u])
                      /\ Honest(tip[u], db[u])
                      /\ TipView[u] = Answer(tip[u], db[u])
  BY <1>0, ViewAnswers DEF TypeOK, FlagsHonest, Cache, MaybeEntry, MaybeCoins
<1>2. db' = [u \in Txid |-> DBWriteEntry(db[u], tip[u])]
  BY DEF FlushTip
<1>3. \A u \in Txid : /\ db'[u] \in MaybeCoins
                      /\ db'[u] # Absent => ~IsPruned(db'[u])
                      /\ Canon(db'[u]) = Canon(TipView[u])
  BY <1>1, <1>2, DBWriteHonest
<1>4. view = EmptyCache /\ view' = EmptyCache /\ tip' = EmptyCache
  BY <1>0 DEF ViewClosed, FlushTip
<1>5. \A u \in Txid : TipView'[u] = db'[u] /\ BlockView'[u] = db'[u] /\ BlockView[u] = TipView[u]
  BY <1>4 DEF EmptyCache, TipView, BlockView, Through
<1>6. CacheInv'
  <2>1. TypeOK'
    BY <1>0, <1>2, <1>3, <1>4 DEF TypeOK, FlushTip, EmptyCache, Cache, MaybeCoins
  <2>2. FlagsHonest' BY <1>4 DEF FlagsHonest, EmptyCache, Honest
  <2>3. ViewClosed' BY <1>4 DEF ViewClosed, EmptyCache
  <2>4. QED BY <2>1, <2>2, <2>3 DEF CacheInv
<1>7. QED BY <1>3, <1>5, <1>6

\* The coins that spending an output leaves.
LEMMA SpentCoins ==
    ASSUME NEW c \in Coins, NEW o \in c.outs
    PROVE  [outs |-> c.outs \ {o}, height |-> c.height] \in Coins
BY DEF Coins, Cleared

\* The coins that undoing a spend leaves.
LEMMA RestoredCoins ==
    ASSUME NEW c \in Coins, ~IsPruned(c), NEW o \in Outs
    PROVE  /\ [outs |-> c.outs \cup {o}, height |-> c.height] \in Coins
           /\ c.height \in Heights
BY DEF Coins, Cleared, IsPruned

\* The inductive step of the invariant, one case for each action.
LEMMA CacheInvStep == CacheInv /\ [Next]_vars => CacheInv'
<1> SUFFICES ASSUME CacheInv, [Next]_vars PROVE CacheInv'
  OBVIOUS
<1>a. TypeOK /\ FlagsHonest /\ ViewClosed BY DEF CacheInv
<1>b. \A t \in Txid : /\ tip[t] \in MaybeEntry /\ view[t] \in MaybeEntry
                      /\ db[t] \in MaybeCoins /\ TipView[t] \in MaybeCoins
                      /\ TipView[t] = Answer(tip[t], db[t])
                      /\ Honest(tip[t], db[t]) /\ Honest(view[t], TipView[t])
  BY <1>a, ViewAnswers DEF TypeOK, FlagsHonest, Cache, MaybeEntry, MaybeCoins
<1>c. EmptyCache \in Cache /\ \A t \in Txid : EmptyCache[t] = Absent
  BY DEF EmptyCache, Cache
<1>1. ASSUME NEW t \in Txid, TipFetch(t) PROVE CacheInv'
  <2>1. tip' \in Cache /\ (\A u \in Txid : Honest(tip'[u], db[u])) /\ TipView' = TipView
    BY <1>1, TipFill DEF TipFetch
  <2>2. QED BY <1>1, <1>a, <2>1 DEF CacheInv, TypeOK, FlagsHonest, ViewClosed, TipFetch, EmptyCache
<1>2. ASSUME NEW t \in Txid, Uncache(t) PROVE CacheInv'
  <2>1. tip' \in Cache /\ \A u \in Txid : tip'[u] = IF u = t THEN Absent ELSE tip[u]
    BY <1>2, <1>a DEF Uncache, TypeOK, Cache
  <2>2. TipView' = TipView
    <3>1. \A u \in Txid : Answer(tip'[u], db[u]) = Answer(tip[u], db[u])
      BY <1>2, <1>b, <2>1 DEF Uncache, Honest, Answer
    <3>2. QED BY <3>1, <1>2 DEF TipView, Through, Answer, Uncache
  <2>3. \A u \in Txid : Honest(tip'[u], db[u])
    BY <1>b, <2>1 DEF Honest
  <2>4. QED BY <1>2, <1>a, <2>1, <2>2, <2>3
            DEF CacheInv, TypeOK, FlagsHonest, ViewClosed, Uncache, EmptyCache
<1>3. ASSUME NEW t \in Txid, ViewFetch(t) PROVE CacheInv'
  <2>1. tip' \in Cache /\ (\A u \in Txid : Honest(tip'[u], db[u])) /\ TipView' = TipView
    BY <1>3, TipFill DEF ViewFetch
  <2>2. /\ view' \in Cache
        /\ \A u \in Txid : view'[u] = view[u] \/ view'[u] = FetchedEntry(view[u], TipView[u])
    <3>1. view \in Cache /\ TipView \in [Txid -> MaybeCoins]
      BY <1>a, ViewAnswers DEF TypeOK
    <3>2. view' = FetchCoins(view, TipView, t)
      BY <1>3 DEF ViewFetch
    <3>3. QED BY <3>1, <3>2, FetchPointwise
  <2>3. \A u \in Txid : Honest(view'[u], TipView[u])
    BY <1>b, <2>2, FetchHonest
  <2>4. QED BY <1>3, <1>a, <2>1, <2>2, <2>3
            DEF CacheInv, TypeOK, FlagsHonest, ViewClosed, ViewFetch
<1>4. CASE TipGetBestBlock
  BY <1>4, <1>a DEF CacheInv, TypeOK, FlagsHonest, ViewClosed, TipGetBestBlock, TipView, EmptyCache
<1>5. ASSUME NEW md \in {"connect", "disconnect"}, OpenView(md) PROVE CacheInv'
  BY <1>5, <1>a, <1>b, <1>c
     DEF CacheInv, TypeOK, FlagsHonest, ViewClosed, OpenView, TipView, Honest
<1>6. ASSUME NEW t \in Txid, NEW o \in Outs, SpendCoins(t, o) PROVE CacheInv'
  BY <1>6, ModifiedAnswer, SpentCoins, ViewModifyEffect DEF SpendCoins
<1>7. ASSUME NEW t \in Txid, NEW outs \in SUBSET Outs, NEW h \in Heights, AddCoins(t, outs, h)
      PROVE CacheInv'
  BY <1>7, AddCoinsEffect
<1>8. ASSUME NEW t \in Txid, NEW outs \in SUBSET Outs, NEW h \in Heights, AddCoinBase(t, outs, h)
      PROVE CacheInv'
  BY <1>8, ViewModifyEffect DEF AddCoinBase, Coins
<1>9. ASSUME NEW t \in Txid, RemoveCoins(t) PROVE CacheInv'
  BY <1>9, ViewModifyEffect DEF RemoveCoins, Coins
<1>10. ASSUME NEW t \in Txid, NEW o \in Outs, NEW h \in Heights \cup {0}, UndoSpend(t, o, h)
       PROVE CacheInv'
  <2>1. CASE h # 0
    <3>1. [outs |-> {o}, height |-> h] \in Coins BY <2>1 DEF Coins
    <3>2. QED BY <1>10, <2>1, <3>1, ViewModifyEffect DEF UndoSpend
  <2>2. CASE h = 0
    <3>1. [outs |-> Modified(t).outs \cup {o}, height |-> Modified(t).height] \in Coins
      BY <1>10, <2>2, ModifiedAnswer, RestoredCoins DEF UndoSpend
    <3>2. QED BY <1>10, <2>2, <3>1, ViewModifyEffect DEF UndoSpend
  <2>3. QED BY <2>1, <2>2
<1>11. ASSUME NEW b \in Block, CommitView(b) PROVE CacheInv'
  BY <1>11, CommitViewEffect
<1>12. CASE DropView
  BY <1>12, <1>a, <1>b, <1>c
     DEF CacheInv, TypeOK, FlagsHonest, ViewClosed, DropView, TipView, Honest
<1>13. CASE FlushTip
  BY <1>13, FlushTipEffect
<1>14. CASE Crash
  BY <1>14, <1>a, <1>b, <1>c
     DEF CacheInv, TypeOK, FlagsHonest, ViewClosed, Crash, TipView, Honest
<1>15. CASE UNCHANGED vars
  BY <1>15, <1>a DEF CacheInv, TypeOK, FlagsHonest, ViewClosed, vars, TipView, EmptyCache
<1>16. QED
  BY <1>1, <1>2, <1>3, <1>4, <1>5, <1>6, <1>7, <1>8, <1>9, <1>10, <1>11, <1>12,
     <1>13, <1>14, <1>15 DEF Next

\* Both caches keep the promise of their flags, for ever: what coins.h says of
\* DIRTY and FRESH is an invariant of every run of the node.
THEOREM CacheInvariant == Spec => [](TypeOK /\ FlagsHonest)
<1>1. Init => CacheInv
  BY AbsentAssumption
     DEF Init, CacheInv, TypeOK, FlagsHonest, ViewClosed, Cache, EmptyCache, Honest
<1>2. CacheInv => TypeOK /\ FlagsHonest
  BY DEF CacheInv
<1>3. QED BY <1>1, <1>2, CacheInvStep, PTL DEF Spec

-----------------------------------------------------------------------------
\* A step that changes the view's answer for one id is a Change of CoinsView.
LEMMA ChangeStep ==
    ASSUME NEW t \in Txid, NEW c, NEW md, mode = md, mode' = mode,
           db' = db, dbBest' = dbBest, tipBest' = tipBest, TipView' = TipView,
           \A u \in Txid : Canon(BlockView'[u]) = IF u = t THEN c ELSE Canon(BlockView[u])
    PROVE  Plainly!Change(md, t, c)
<1>1. Plain(BlockView)' = [Plain(BlockView) EXCEPT ![t] = c]
  BY DEF Plain
<1>2. Plain(db)' = Plain(db) /\ Plain(TipView)' = Plain(TipView)
  BY DEF Plain, Canon
<1>3. QED BY <1>1, <1>2 DEF Plainly!Change

\* A step that changes no answer of any layer is a stuttering step.
LEMMA StutterStep ==
    ASSUME mode' = mode, db' = db, dbBest' = dbBest,
           (IF tipBest = NoBlock THEN dbBest ELSE tipBest)' =
               (IF tipBest = NoBlock THEN dbBest ELSE tipBest),
           \A u \in Txid : TipView'[u] = TipView[u] /\ BlockView'[u] = BlockView[u]
    PROVE  UNCHANGED Plainly!vars
BY DEF Plainly!vars, Plain, Canon

\* The canonical form of the coins an operation leaves.
LEMMA CanonCoins ==
    ASSUME NEW c \in Coins
    PROVE  /\ Canon(c) = Plainly!Unspent(c.outs, c.height)
           /\ Canon(c).outs = c.outs
           /\ ~IsPruned(c) => Canon(c) = c
<1>1. c # Absent BY AbsentAssumption
<1>2. c = [outs |-> c.outs, height |-> c.height] BY DEF Coins, Cleared
<1>3. QED BY <1>1, <1>2 DEF Canon, IsPruned, Cleared, Plainly!Unspent, Plainly!Spent

\* Every step of the caches is a step of CoinsView or a stutter of it.
LEMMA RefinementStep ==
    CacheInv /\ [Next]_vars => [Plainly!Next]_(Plainly!vars)
<1> SUFFICES ASSUME CacheInv, [Next]_vars
             PROVE  Plainly!Next \/ UNCHANGED Plainly!vars
  OBVIOUS
<1>a. TypeOK /\ FlagsHonest /\ ViewClosed BY DEF CacheInv
<1>b. \A u \in Txid : /\ tip[u] \in MaybeEntry /\ view[u] \in MaybeEntry
                      /\ db[u] \in MaybeCoins /\ TipView[u] \in MaybeCoins
                      /\ Honest(tip[u], db[u]) /\ Honest(view[u], TipView[u])
                      /\ TipView[u] = Answer(tip[u], db[u])
                      /\ BlockView[u] = Answer(view[u], TipView[u])
  BY <1>a, ViewAnswers DEF TypeOK, FlagsHonest, Cache, MaybeEntry, MaybeCoins
<1>c. \A u \in Txid : /\ TipView'[u] = Answer(tip'[u], db'[u])
                      /\ BlockView'[u] = Answer(view'[u], TipView'[u])
  BY DEF TipView, BlockView, Through, Answer
<1>d. \A u \in Txid : Plain(BlockView)[u] = Canon(BlockView[u])
  BY DEF Plain
<1>1. ASSUME NEW t \in Txid, TipFetch(t) PROVE UNCHANGED Plainly!vars
  <2>1. TipView' = TipView BY <1>1, TipFill DEF TipFetch
  <2>2. QED BY <1>1, <1>b, <1>c, <2>1, StutterStep DEF TipFetch
<1>2. ASSUME NEW t \in Txid, Uncache(t) PROVE UNCHANGED Plainly!vars
  <2>1. \A u \in Txid : tip'[u] = IF u = t THEN Absent ELSE tip[u]
    BY <1>2, <1>a DEF Uncache, TypeOK, Cache
  <2>2. \A u \in Txid : TipView'[u] = TipView[u]
    BY <1>2, <1>b, <1>c, <2>1 DEF Uncache, Honest, Answer
  <2>3. QED BY <1>2, <1>b, <1>c, <2>2, StutterStep DEF Uncache
<1>3. ASSUME NEW t \in Txid, ViewFetch(t) PROVE UNCHANGED Plainly!vars
  <2>1. TipView' = TipView BY <1>3, TipFill DEF ViewFetch
  <2>2. \A u \in Txid : view'[u] = view[u] \/ view'[u] = FetchedEntry(view[u], TipView[u])
    <3>1. view \in Cache /\ TipView \in [Txid -> MaybeCoins]
      BY <1>a, ViewAnswers DEF TypeOK
    <3>2. view' = FetchCoins(view, TipView, t)
      BY <1>3 DEF ViewFetch
    <3>3. QED BY <3>1, <3>2, FetchPointwise
  <2>3. \A u \in Txid : BlockView'[u] = BlockView[u]
    BY <1>b, <1>c, <2>1, <2>2, FetchHonest
  <2>4. QED BY <1>3, <2>1, <2>3, StutterStep DEF ViewFetch
<1>4. CASE TipGetBestBlock
  <2>1. \A u \in Txid : TipView'[u] = TipView[u] /\ BlockView'[u] = BlockView[u]
    BY <1>4, <1>b, <1>c DEF TipGetBestBlock
  <2>2. QED BY <1>4, <2>1, StutterStep DEF TipGetBestBlock
<1>5. ASSUME NEW md \in {"connect", "disconnect"}, OpenView(md) PROVE Plainly!Begin(md)
  <2>1. view' = view BY <1>5, <1>a DEF OpenView, ViewClosed
  <2>2. \A u \in Txid : TipView'[u] = TipView[u] /\ BlockView'[u] = BlockView[u]
    BY <1>5, <1>b, <1>c, <2>1 DEF OpenView
  <2>3. QED BY <1>5, <2>2 DEF OpenView, Plainly!Begin, Plain, Canon
<1>6. ASSUME NEW t \in Txid, NEW o \in Outs, SpendCoins(t, o) PROVE Plainly!Spend(t, o)
  <2> DEFINE c == [outs |-> Modified(t).outs \ {o}, height |-> Modified(t).height]
  <2>1. /\ Modified(t) \in Coins /\ o \in Modified(t).outs /\ c \in Coins
        /\ Canon(Modified(t)) = Canon(BlockView[t])
    BY <1>6, ModifiedAnswer, SpentCoins DEF SpendCoins
  <2>2. Plain(BlockView)[t] = Modified(t)
    BY <1>d, <2>1, CanonCoins DEF IsPruned
  <2>3. /\ TipView' = TipView
        /\ \A u \in Txid : Canon(BlockView'[u]) = IF u = t THEN Canon(c) ELSE Canon(BlockView[u])
    BY <1>6, <2>1, ViewModifyEffect DEF SpendCoins
  <2>4. Plainly!Change("connect", t, Canon(c))
    BY <1>6, <2>3, ChangeStep DEF SpendCoins, ViewModify
  <2>5. Canon(c) = Plainly!Unspent(Modified(t).outs \ {o}, Modified(t).height)
    BY <2>1, CanonCoins
  <2>6. QED BY <2>1, <2>2, <2>4, <2>5 DEF Plainly!Spend
<1>7. ASSUME NEW t \in Txid, NEW outs \in SUBSET Outs, NEW h \in Heights,
             AddCoins(t, outs, h) \/ AddCoinBase(t, outs, h)
      PROVE  Plainly!Add(t, outs, h)
  <2> DEFINE c == [outs |-> outs, height |-> h]
  <2>1. c \in Coins /\ Canon(c) = Plainly!Unspent(outs, h)
    <3>1. c \in Coins BY DEF Coins
    <3>2. QED BY <3>1, CanonCoins
  <2>2. /\ TipView' = TipView
        /\ \A u \in Txid : Canon(BlockView'[u]) = IF u = t THEN Canon(c) ELSE Canon(BlockView[u])
    <3>1. CASE AddCoins(t, outs, h) BY <3>1, AddCoinsEffect
    <3>2. CASE AddCoinBase(t, outs, h) BY <2>1, <3>2, ViewModifyEffect DEF AddCoinBase
    <3>3. QED BY <1>7, <3>1, <3>2
  <2>3. Plainly!Change("connect", t, Canon(c))
    BY <1>7, <2>2, ChangeStep DEF AddCoins, AddCoinBase, ViewModify
  <2>4. QED BY <2>1, <2>3 DEF Plainly!Add
<1>9. ASSUME NEW t \in Txid, RemoveCoins(t) PROVE Plainly!Remove(t)
  <2>1. Cleared \in Coins /\ Canon(Cleared) = Plainly!Spent
    <3>1. Cleared \in Coins /\ IsPruned(Cleared) BY DEF Coins, Cleared, IsPruned
    <3>2. QED BY <3>1 DEF Canon, Plainly!Spent, Cleared
  <2>2. /\ TipView' = TipView
        /\ \A u \in Txid : Canon(BlockView'[u]) = IF u = t THEN Canon(Cleared) ELSE Canon(BlockView[u])
    BY <1>9, <2>1, ViewModifyEffect DEF RemoveCoins
  <2>3. Plainly!Change("disconnect", t, Canon(Cleared))
    BY <1>9, <2>2, ChangeStep DEF RemoveCoins, ViewModify
  <2>4. QED BY <2>1, <2>3 DEF Plainly!Remove
<1>10. ASSUME NEW t \in Txid, NEW o \in Outs, NEW h \in Heights \cup {0}, UndoSpend(t, o, h)
       PROVE \E k \in Heights : Plainly!Restore(t, o, k)
  <2> DEFINE k == IF h # 0 THEN h ELSE Modified(t).height
             c == [outs |-> Modified(t).outs \cup {o}, height |-> k]
  <2>1. Modified(t) \in Coins /\ Canon(Modified(t)) = Canon(BlockView[t])
    BY ModifiedAnswer
  <2>2. ViewModify(t, c) /\ k \in Heights /\ c \in Coins /\ mode = "disconnect"
    <3>1. CASE h # 0
      <4>1. IsPruned(Modified(t)) /\ ViewModify(t, [outs |-> {o}, height |-> h])
        BY <1>10, <3>1 DEF UndoSpend
      <4>2. c = [outs |-> {o}, height |-> h] BY <3>1, <4>1 DEF IsPruned
      <4>3. c \in Coins /\ k \in Heights BY <3>1, <4>2 DEF Coins
      <4>4. QED BY <1>10, <4>1, <4>2, <4>3 DEF UndoSpend
    <3>2. CASE h = 0
      BY <1>10, <2>1, <3>2, RestoredCoins DEF UndoSpend
    <3>3. QED BY <3>1, <3>2
  <2>3. ~IsPruned(c) /\ Canon(c) = c
    <3>1. ~IsPruned(c) BY DEF IsPruned
    <3>2. QED BY <2>2, <3>1, CanonCoins
  <2>4. Plain(BlockView)[t].outs = Modified(t).outs
    BY <1>d, <2>1, CanonCoins
  <2>5. /\ TipView' = TipView
        /\ \A u \in Txid : Canon(BlockView'[u]) = IF u = t THEN c ELSE Canon(BlockView[u])
    BY <2>2, <2>3, ViewModifyEffect
  <2>6. Plainly!Change("disconnect", t, c)
    BY <2>2, <2>5, ChangeStep DEF ViewModify
  <2>7. Plainly!Restore(t, o, k)
    BY <2>4, <2>6 DEF Plainly!Restore
  <2>8. QED BY <2>2, <2>7
<1>11. ASSUME NEW b \in Block, CommitView(b) PROVE Plainly!Commit(b)
  <2>1. \A u \in Txid : /\ Canon(TipView'[u]) = Canon(BlockView[u])
                        /\ BlockView'[u] = TipView'[u]
    BY <1>11, CommitViewEffect
  <2>2. Plain(TipView)' = Plain(BlockView) /\ Plain(BlockView)' = Plain(BlockView)
    BY <2>1 DEF Plain
  <2>3. b # NoBlock BY BlockAssumption
  <2>4. Plain(db)' = Plain(db) BY <1>11 DEF CommitView, Plain, Canon
  <2>5. QED BY <1>11, <2>2, <2>3, <2>4 DEF CommitView, Plainly!Commit
<1>12. CASE DropView
  <2>1. \A u \in Txid : TipView'[u] = TipView[u] /\ BlockView'[u] = TipView[u]
    BY <1>12, <1>b, <1>c DEF DropView, EmptyCache, Answer
  <2>2. Plain(TipView)' = Plain(TipView) /\ Plain(BlockView)' = Plain(TipView)
    BY <2>1 DEF Plain
  <2>3. Plain(db)' = Plain(db) BY <1>12 DEF DropView, Plain, Canon
  <2>4. Plainly!Abort BY <1>12, <2>2, <2>3 DEF DropView, Plainly!Abort
  <2>5. QED BY <2>4 DEF Plainly!Next
<1>13. CASE FlushTip
  <2>1. \A u \in Txid : /\ Canon(db'[u]) = Canon(TipView[u]) /\ TipView'[u] = db'[u]
                        /\ BlockView'[u] = db'[u] /\ BlockView[u] = TipView[u]
    BY <1>13, FlushTipEffect
  <2>2. /\ Plain(db)' = Plain(TipView) /\ Plain(TipView)' = Plain(TipView)
        /\ Plain(BlockView)' = Plain(BlockView)
    BY <2>1 DEF Plain
  <2>3. Plainly!Flush BY <1>13, <2>2 DEF FlushTip, Plainly!Flush
  <2>4. QED BY <2>3 DEF Plainly!Next
<1>14. CASE Crash
  <2>1. \A u \in Txid : TipView'[u] = db[u] /\ BlockView'[u] = db[u]
    BY <1>14, <1>c DEF Crash, EmptyCache, Answer
  <2>2. Plain(TipView)' = Plain(db) /\ Plain(BlockView)' = Plain(db) /\ Plain(db)' = Plain(db)
    <3>1. db' = db BY <1>14 DEF Crash
    <3>2. QED BY <2>1, <3>1 DEF Plain
  <2>3. Plainly!Crash BY <1>14, <2>2 DEF Crash, Plainly!Crash
  <2>4. QED BY <2>3 DEF Plainly!Next
<1>15. CASE UNCHANGED vars
  <2>1. \A u \in Txid : TipView'[u] = TipView[u] /\ BlockView'[u] = BlockView[u]
    BY <1>15, <1>b, <1>c DEF vars
  <2>2. QED BY <1>15, <2>1, StutterStep DEF vars
<1>16. QED
  BY <1>1, <1>2, <1>3, <1>4, <1>5, <1>6, <1>7, <1>9, <1>10, <1>11, <1>12, <1>13, <1>14,
     <1>15 DEF Next, Plainly!Next

\* The stack of caches implements the plain maps of CoinsView: for every set
\* of transactions, no order of operations loses or revives a coin.
THEOREM CacheRefinement == Spec => ImplementsCoinsView
<1>1. Init => CacheInv
  BY AbsentAssumption
     DEF Init, CacheInv, TypeOK, FlagsHonest, ViewClosed, Cache, EmptyCache, Honest
<1>2. Init => Plainly!Init
  <2> SUFFICES ASSUME Init PROVE Plainly!Init
    OBVIOUS
  <2>1. \A u \in Txid : db[u] = Absent /\ TipView[u] = Absent /\ BlockView[u] = Absent
    BY DEF Init, EmptyCache, TipView, BlockView, Through
  <2>2. Canon(Absent) = Plainly!Spent BY DEF Canon, Cleared, Plainly!Spent
  <2>3. /\ Plain(db) = [t \in Txid |-> Plainly!Spent]
        /\ Plain(TipView) = [t \in Txid |-> Plainly!Spent]
        /\ Plain(BlockView) = [t \in Txid |-> Plainly!Spent]
    BY <2>1, <2>2 DEF Plain
  <2>4. QED BY <2>3 DEF Init, Plainly!Init
<1>3. QED
  BY <1>1, <1>2, CacheInvStep, RefinementStep, PTL DEF Spec, ImplementsCoinsView, Plainly!Spec

=============================================================================
