----------------------------- MODULE CoinsCache -----------------------------
(***************************************************************************)
(* The UTXO caches of the node (src/src/coins.cpp): the short-lived view   *)
(* that ConnectTip and DisconnectTip put over pcoinsTip, pcoinsTip itself, *)
(* and the LevelDB chainstate under it (CCoinsViewDB, src/src/txdb.cpp).   *)
(*                                                                         *)
(* A cache maps a transaction id to an entry with the flags DIRTY (may     *)
(* differ from the parent) and FRESH (the parent has no unspent output of  *)
(* it), or to Absent.  The flags only save work, and nothing else in the   *)
(* code records what the UTXO set really is: a wrong flag loses or revives *)
(* coins when the layers are merged.  The refinement of CoinsView states   *)
(* that this never happens, whatever the interleaving of reads, block      *)
(* connections, disconnections, rejected blocks, flushes and crashes.      *)
(*                                                                         *)
(* CCoins is abstracted to the set of its available outputs and nHeight    *)
(* (fCoinBase and nVersion travel with nHeight).                           *)
(***************************************************************************)
EXTENDS Naturals

CONSTANTS Txid, Outs, Heights, Block, Genesis,
          Absent,    \* no entry in a map
          NoBlock    \* uint256(): the null hash

\* Block 0 is never undone, so undo data with nHeight = 0 carries no height.
ASSUME HeightsAssumption == Heights \subseteq Nat \ {0}

Cleared == [outs |-> {}, height |-> 0]

\* CCoins: a transaction keeps its height when its last output is spent, and
\* loses it when it is cleared.
Coins == [outs : SUBSET Outs, height : Heights] \cup {Cleared}

Entry == [coins : Coins, dirty : BOOLEAN, fresh : BOOLEAN]

ASSUME AbsentAssumption == Absent \notin Coins /\ Absent \notin Entry

ASSUME BlockAssumption == NoBlock \notin Block /\ Genesis # NoBlock

VARIABLES
    db,        \* chainstate database: txid -> coins, no entry for a spent one
    dbBest,    \* DB_BEST_BLOCK
    tip,       \* pcoinsTip->cacheCoins
    tipBest,   \* pcoinsTip->hashBlock, null until it is read or set
    view,      \* cacheCoins of the view of the block being processed
    mode       \* what that view is for: "idle" when there is none

vars == <<db, dbBest, tip, tipBest, view, mode>>

EmptyCache == [t \in Txid |-> Absent]

IsPruned(c) == c.outs = {}

\* The answer c of a view names an unspent output.
IsUnspent(c) == c # Absent /\ ~IsPruned(c)

-----------------------------------------------------------------------------
\* What GetCoins finds through a cache: a cached entry hides the base.
Through(cache, base) ==
    [t \in Txid |-> IF cache[t] # Absent THEN cache[t].coins ELSE base[t]]

TipView == Through(tip, db)
BlockView == Through(view, TipView)

\* FetchCoins: copy the base's coins into the cache, if the base has them.
FetchCoins(cache, base, t) ==
    IF cache[t] # Absent \/ base[t] = Absent THEN cache
    ELSE [cache EXCEPT ![t] = [coins |-> base[t], dirty |-> FALSE,
                               fresh |-> IsPruned(base[t])]]

\* The entry ModifyCoins hands out.
ModifyCoins(cache, base, t) ==
    IF cache[t] # Absent THEN [cache[t] EXCEPT !.dirty = TRUE]
    ELSE IF base[t] = Absent THEN [coins |-> Cleared, dirty |-> TRUE, fresh |-> TRUE]
    ELSE [coins |-> base[t], dirty |-> TRUE, fresh |-> IsPruned(base[t])]

\* The entry ModifyNewCoins hands out, without looking at the base.
ModifyNewCoins == [coins |-> Cleared, dirty |-> TRUE, fresh |-> TRUE]

\* The destructor of CCoinsModifier, once the entry's coins have become c.
Release(cache, t, entry, c) ==
    [cache EXCEPT ![t] = IF entry.fresh /\ IsPruned(c) THEN Absent
                         ELSE [entry EXCEPT !.coins = c]]

\* Variant: a spent entry is erased though the grandparent may have the coins.
BatchWriteAlwaysErases(us, child) ==
    IF child = Absent \/ ~child.dirty THEN us
    ELSE IF IsPruned(child.coins) THEN Absent
    ELSE [coins |-> child.coins, dirty |-> TRUE,
          fresh |-> IF us = Absent THEN child.fresh ELSE us.fresh]

\* CCoinsViewCache::BatchWrite, for one transaction id.
BatchWriteEntry(us, child) ==
    IF child = Absent \/ ~child.dirty THEN us
    ELSE IF us = Absent
      THEN IF child.fresh /\ IsPruned(child.coins) THEN Absent
           ELSE [coins |-> child.coins, dirty |-> TRUE, fresh |-> child.fresh]
    ELSE IF us.fresh /\ IsPruned(child.coins) THEN Absent
    ELSE [coins |-> child.coins, dirty |-> TRUE, fresh |-> us.fresh]

BatchWrite(parent, child) == [t \in Txid |-> BatchWriteEntry(parent[t], child[t])]

\* CCoinsViewDB::BatchWrite, for one transaction id.
DBWriteEntry(old, entry) ==
    IF entry = Absent \/ ~entry.dirty THEN old
    ELSE IF IsPruned(entry.coins) THEN Absent
    ELSE entry.coins

-----------------------------------------------------------------------------
Init == /\ db = EmptyCache
        /\ dbBest = Genesis
        /\ tip = EmptyCache
        /\ tipBest = NoBlock
        /\ view = EmptyCache
        /\ mode = "idle"

\* A read through pcoinsTip: AcceptToMemoryPool, the RPC calls, AlreadyHave.
TipFetch(t) == /\ mode = "idle"
               /\ tip' = FetchCoins(tip, db, t)
               /\ UNCHANGED <<db, dbBest, tipBest, view, mode>>

\* Uncache: a rejected transaction's inputs leave the cache if unmodified.
Uncache(t) == /\ mode = "idle"
              /\ tip[t] # Absent
              /\ ~tip[t].dirty /\ ~tip[t].fresh
              /\ tip' = [tip EXCEPT ![t] = Absent]
              /\ UNCHANGED <<db, dbBest, tipBest, view, mode>>

\* GetBestBlock memoises the base's answer.
TipGetBestBlock == /\ tipBest = NoBlock
                   /\ tipBest' = dbBest
                   /\ UNCHANGED <<db, dbBest, tip, view, mode>>

\* ConnectTip and DisconnectTip put a new view over pcoinsTip.
OpenView(m) == /\ mode = "idle"
               /\ mode' = m
               /\ view' = EmptyCache
               /\ UNCHANGED <<db, dbBest, tip, tipBest>>

\* A read through the block's view also fills pcoinsTip.
ViewFetch(t) == /\ mode # "idle"
                /\ view' = FetchCoins(view, TipView, t)
                /\ tip' = IF view[t] = Absent THEN FetchCoins(tip, db, t) ELSE tip
                /\ UNCHANGED <<db, dbBest, tipBest, mode>>

\* ModifyCoins(t) on the block's view, giving the coins the value c.
ViewModify(t, c) ==
    /\ view' = Release(view, t, ModifyCoins(view, TipView, t), c)
    /\ tip' = IF view[t] = Absent THEN FetchCoins(tip, db, t) ELSE tip
    /\ UNCHANGED <<db, dbBest, tipBest, mode>>

\* What the modifier reads before it changes anything.
Modified(t) == ModifyCoins(view, TipView, t).coins

\* UpdateCoins: an input of a transaction that HaveInputs accepted is spent.
SpendCoins(t, o) ==
    /\ mode = "connect"
    /\ o \in Modified(t).outs
    /\ ViewModify(t, [outs |-> Modified(t).outs \ {o}, height |-> Modified(t).height])

\* Variant: BIP30 is looked up when the transaction's turn comes, after the
\* block's earlier transactions, instead of once before all of them.
NotUnspentInBlock(t) == ~IsUnspent(BlockView[t])

\* The BIP30 rule: no transaction of the block is unspent at the tip.
NotUnspentAtTip(t) == ~IsUnspent(TipView[t])

\* UpdateCoins: the outputs of a transaction that is not a coinbase.  It is in
\* the block once only, for its inputs are gone after it.
AddCoins(t, outs, h) ==
    /\ mode = "connect"
    /\ NotUnspentAtTip(t)
    /\ view' = Release(view, t, ModifyNewCoins, [outs |-> outs, height |-> h])
    /\ UNCHANGED <<db, dbBest, tip, tipBest, mode>>

\* UpdateCoins: the outputs of the coinbase, which may overwrite a coinbase
\* with the same id in the two blocks exempt from BIP30.
AddCoinBase(t, outs, h) ==
    /\ mode = "connect"
    /\ ViewModify(t, [outs |-> outs, height |-> h])

\* DisconnectBlock: the transaction's outputs are removed.
RemoveCoins(t) == /\ mode = "disconnect"
                  /\ ViewModify(t, Cleared)

\* ApplyTxInUndo: undo data with a height rebuilds the spent transaction, undo
\* data without one adds an output to coins that are still there.
UndoSpend(t, o, h) ==
    /\ mode = "disconnect"
    /\ IF h # 0
       THEN IsPruned(Modified(t)) /\ ViewModify(t, [outs |-> {o}, height |-> h])
       ELSE /\ ~IsPruned(Modified(t)) /\ o \notin Modified(t).outs
            /\ ViewModify(t, [outs |-> Modified(t).outs \cup {o}, height |-> Modified(t).height])

\* SetBestBlock(b), then Flush: the view is merged into pcoinsTip.
CommitView(b) == /\ mode # "idle"
                 /\ mode' = "idle"
                 /\ tip' = BatchWrite(tip, view)
                 /\ tipBest' = b
                 /\ view' = EmptyCache
                 /\ UNCHANGED <<db, dbBest>>

\* The block failed: the view is destroyed, what it read stays in pcoinsTip.
DropView == /\ mode # "idle"
            /\ mode' = "idle"
            /\ view' = EmptyCache
            /\ UNCHANGED <<db, dbBest, tip, tipBest>>

\* FlushStateToDisk: one batch with the coins and DB_BEST_BLOCK.
FlushTip == /\ mode = "idle"
            /\ db' = [t \in Txid |-> DBWriteEntry(db[t], tip[t])]
            /\ dbBest' = IF tipBest = NoBlock THEN dbBest ELSE tipBest
            /\ tip' = EmptyCache
            /\ UNCHANGED <<tipBest, view, mode>>

\* The process dies; the next one opens the database with empty caches.
Crash == /\ tip' = EmptyCache
         /\ tipBest' = NoBlock
         /\ view' = EmptyCache
         /\ mode' = "idle"
         /\ UNCHANGED <<db, dbBest>>

Next == \/ \E t \in Txid : TipFetch(t) \/ Uncache(t) \/ ViewFetch(t) \/ RemoveCoins(t)
        \/ TipGetBestBlock
        \/ \E m \in {"connect", "disconnect"} : OpenView(m)
        \/ \E t \in Txid, o \in Outs : SpendCoins(t, o)
        \/ \E t \in Txid, outs \in SUBSET Outs, h \in Heights :
              AddCoins(t, outs, h) \/ AddCoinBase(t, outs, h)
        \/ \E t \in Txid, o \in Outs, h \in Heights \cup {0} : UndoSpend(t, o, h)
        \/ \E b \in Block : CommitView(b)
        \/ DropView
        \/ FlushTip
        \/ Crash

Spec == Init /\ [][Next]_vars

-----------------------------------------------------------------------------
Cache == [Txid -> Entry \cup {Absent}]

\* Every map and flag has its type; the database holds no spent transaction.
TypeOK == /\ db \in [Txid -> Coins \cup {Absent}]
          /\ \A t \in Txid : db[t] # Absent => ~IsPruned(db[t])
          /\ dbBest \in Block \cup {Genesis}
          /\ tip \in Cache
          /\ tipBest \in Block \cup {Genesis, NoBlock}
          /\ view \in Cache
          /\ mode \in {"idle", "connect", "disconnect"}

\* What the flags of an entry promise about the parent's answer for it: FRESH,
\* that the parent has no unspent output; not DIRTY, that the parent agrees.
\* A clean entry of an absent parent cannot be dropped, so it is never made.
Honest(entry, base) ==
    entry # Absent =>
        /\ entry.fresh => ~IsUnspent(base)
        /\ ~entry.dirty => (base # Absent /\ entry.coins = base)

\* The flags of both caches keep their promise: "FRESH: The parent view does
\* not have this entry (or it is pruned)" (src/src/coins.h:292), and an entry
\* that is not DIRTY is what the parent would answer.
FlagsHonest == \A t \in Txid : Honest(tip[t], db[t]) /\ Honest(view[t], TipView[t])

\* A view exists only while its block is processed.
ViewClosed == mode = "idle" => view = EmptyCache

\* The inductive invariant the proofs rest on.
CacheInv == TypeOK /\ FlagsHonest /\ ViewClosed

-----------------------------------------------------------------------------
\* Pruned CCoins are all equal, whatever their height (CCoins::operator==).
Canon(c) == IF c = Absent THEN Cleared ELSE IF IsPruned(c) THEN Cleared ELSE c

Plain(v) == [t \in Txid |-> Canon(v[t])]

\* The UTXO sets a reader sees at each layer, without the caches.
Plainly == INSTANCE CoinsView WITH
    durable       <- Plain(db),
    durableBest   <- dbBest,
    committed     <- Plain(TipView),
    committedBest <- IF tipBest = NoBlock THEN dbBest ELSE tipBest,
    scratch       <- Plain(BlockView),
    mode          <- mode

\* Two layers of cache behave as three plain maps: no sequence of reads,
\* block connections and disconnections, rejections, flushes and crashes
\* makes a cached UTXO set differ from the one the operations describe.
ImplementsCoinsView == Plainly!Spec
=============================================================================
