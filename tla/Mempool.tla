-------------------------------- MODULE Mempool --------------------------------
(***************************************************************************)
(* The memory pool (src/src/txmempool.cpp) and the code of                 *)
(* src/src/main.cpp that keeps it in step with the active chain:           *)
(* acceptance and replacement, connected and disconnected blocks, the      *)
(* clean-up after a reorganisation and the size limit.                     *)
(*                                                                         *)
(* Every operation holds cs_main, so each is one step.  A reorganisation   *)
(* holds it from the first DisconnectTip to the clean-up and is several    *)
(* steps here (stage), because other threads read the pool in between.     *)
(* All transactions have size one, and memory usage is the number of       *)
(* entries.  The checks that refuse a transaction for a reason outside     *)
(* this state (standardness, priority, rate limit, rolling minimum fee,    *)
(* scripts) are a free choice to refuse.  Lock times are heights; the      *)
(* relative locks of BIP 68, checked at the same places, are left out.     *)
(***************************************************************************)
EXTENDS Integers, Sequences, FiniteSets, SequencesExt

CONSTANTS Tx,              \* transactions
          Vin,             \* the outputs each one spends, pairs <<transaction, n>>
          Vout,            \* the number of outputs of each one
          Fee,             \* nFees
          LockTime,        \* nLockTime, a height
          OptIn,           \* transactions that signal replacement
          Base,            \* coins confirmed before the model starts
          CoinBase,        \* the coinbase transaction of each height
          Maturity,        \* COINBASE_MATURITY
          MaxPool,         \* -maxmempool
          LimitAncestors,  \* -limitancestorcount
          LimitDescendants,\* -limitdescendantcount
          MaxVisit,        \* 100, descendants visited after a block is disconnected
          MaxReplace,      \* 100, transactions a replacement may evict
          MinRelayFee,     \* minRelayTxFee for one transaction
          Prioritised,     \* hashes given to prioritisetransaction
          Deltas,          \* fee deltas of prioritisetransaction
          MaxDelta,        \* bound: sum of the deltas of a transaction
          MaxBlock,        \* bound: transactions of a block besides the coinbase
          MaxHeight        \* bound: height of the chain

Parents(t) == {o[1] : o \in Vin[t]}
Outputs(t) == {<<t, n>> : n \in 0 .. Vout[t] - 1}

ASSUME TxAssumption == /\ IsFiniteSet(Tx) /\ OptIn \subseteq Tx /\ Prioritised \subseteq Tx
                       /\ CoinBase \in Seq(Tx) /\ Len(CoinBase) = MaxHeight
                       /\ Vout \in [Tx -> Nat \ {0}]
                       /\ \A t \in Tx :
                             Vin[t] \subseteq Base \cup UNION {Outputs(u) : u \in Tx \ {t}}
                       /\ Fee \in [Tx -> Nat] /\ LockTime \in [Tx -> Nat]
                       /\ \A t \in Tx : Vin[t] = {} <=> t \in ToSet(CoinBase)
\* Hashes do not collide: the coins of Base come from other transactions, and the coinbases, which
\* name their heights, differ.
ASSUME HashAssumption == /\ \A o \in Base : o[1] \notin Tx
                         /\ \A i, j \in DOMAIN CoinBase : CoinBase[i] = CoinBase[j] => i = j
ASSUME BoundAssumption == /\ Maturity \in Nat /\ MaxPool \in Nat /\ LimitAncestors \in Nat \ {0}
                          /\ LimitDescendants \in Nat \ {0} /\ MaxVisit \in Nat
                          /\ MaxReplace \in Nat /\ MinRelayFee \in Nat /\ Deltas \subseteq Int
                          /\ MaxDelta \in Nat /\ MaxBlock \in Nat /\ MaxHeight \in Nat

VARIABLES
    mempool,   \* CTxMemPool: mapTx with mapLinks, mapNextTx and mapDeltas
    chain,     \* chainActive: the transactions of each block, the coinbase first
    stage      \* "idle", or in a reorganisation: "step" (disconnecting), "connect", "invalidate"

vars == <<mempool, chain, stage>>

IsCoinBase(t) == t \in ToSet(CoinBase)

(***************************************************************************)
(* The coins of the active chain (pcoinsTip) and what it lets the next     *)
(* transaction spend.                                                      *)
(***************************************************************************)
Confirmed(c) == UNION {ToSet(c[i]) : i \in DOMAIN c}

\* The coins that transactions T leave.
Left(T) == (Base \cup UNION {Outputs(t) : t \in T}) \ UNION {Vin[t] : t \in T}
Unspent(c) == Left(Confirmed(c))

CheckFinalTx(t, height) == LockTime[t] < height
CoinHeight(c, t) == CHOOSE i \in DOMAIN c : c[i][1] = t
Immature(c, t, height) ==
    \E p \in Parents(t) \cap {c[i][1] : i \in DOMAIN c} : height - CoinHeight(c, p) < Maturity

(***************************************************************************)
(* The pool.  count = 0 marks an entry as dirty: its descendants are not   *)
(* tracked.                                                                *)
(***************************************************************************)
Pool(m) == DOMAIN m.mapTx
IsDirty(e) == e.count = 0
nSizeWithDescendants(e) == IF IsDirty(e) THEN 1 ELSE e.count
ModifiedFee(m, t) == Fee[t] + m.mapDeltas[t]

\* Everything that links reach from S, S included: as many rounds as there are transactions.
Reach(S, link) ==
    LET reached[i \in 0 .. Cardinality(Tx)] ==
            IF i = 0 THEN S
            ELSE LET R == reached[i - 1] IN R \cup UNION {link[t] : t \in R}
    IN  reached[Cardinality(Tx)]

ParentLinks(m) == [t \in Pool(m) |-> m.mapTx[t].parents]
ChildLinks(m) == [t \in Pool(m) |-> m.mapTx[t].children]

CalculateDescendants(m, S) == Reach(S, ChildLinks(m))
LinkedAncestors(m, t) == Reach(m.mapTx[t].parents, ParentLinks(m))
CalculateMemPoolAncestors(m, t) == Reach(Parents(t) \cap Pool(m), ParentLinks(m))

UpdateState(e, modifyFee, modifyCount) ==
    IF IsDirty(e) THEN e
    ELSE [e EXCEPT !.count = @ + modifyCount, !.fees = @ + modifyFee]

\* The sum of f over the finite set S.
Sum(S, f) ==
    LET sum[T \in SUBSET S] == IF T = {} THEN 0
                               ELSE LET t == CHOOSE t \in T : TRUE IN f[t] + sum[T \ {t}]
    IN  sum[S]

\* The modified fees of the entries.
Mods(m) == [t \in Pool(m) |-> m.mapTx[t].mod]

\* The new entry is linked to its parents and counted by its ancestors.  It is taken to have no
\* children.
NewEntry(m, t) == [parents |-> Parents(t) \cap Pool(m), children |-> {}, count |-> 1,
                   fees |-> ModifiedFee(m, t), mod |-> ModifiedFee(m, t)]
AddChild(e, t) == [e EXCEPT !.children = @ \cup {t}]

addUnchecked(m, t, setAncestors) ==
    LET Add(a) == LET e == IF a \in Parents(t) THEN AddChild(m.mapTx[a], t) ELSE m.mapTx[a]
                  IN  IF a \in setAncestors THEN UpdateState(e, ModifiedFee(m, t), 1) ELSE e
    IN  [mapTx |-> [a \in Pool(m) \cup {t} |-> IF a = t THEN NewEntry(m, t) ELSE Add(a)],
         mapNextTx |-> [o \in DOMAIN m.mapNextTx \cup Vin[t] |->
                            IF o \in Vin[t] THEN t ELSE m.mapNextTx[o]],
         mapDeltas |-> m.mapDeltas]

\* Variant: the children of a removed transaction keep it as a parent.
SeverParents(m, S, t) ==
    [m.mapTx[t] EXCEPT !.children = @ \ {s \in S : t \in m.mapTx[s].parents}]

\* UpdateAncestorsOf and UpdateChildrenForRemoval: the links of t to the transactions of S are
\* severed.
Sever(m, S, t) ==
    [m.mapTx[t] EXCEPT !.children = @ \ {s \in S : t \in m.mapTx[s].parents},
                       !.parents = @ \ {s \in S : t \in m.mapTx[s].children}]

\* The transactions of S that count t as an ancestor, by links.
Lost(m, S, t) == {s \in S : t \in LinkedAncestors(m, s)}

\* Every ancestor reached by links forgets the transactions of S, which then leave.
RemoveStaged(m, S) ==
    [mapTx |-> [t \in Pool(m) \ S |->
                   UpdateState(Sever(m, S, t), - Sum(Lost(m, S, t), Mods(m)),
                               - Cardinality(Lost(m, S, t)))],
     mapNextTx |-> [o \in DOMAIN m.mapNextTx \ UNION {Vin[s] : s \in S} |-> m.mapNextTx[o]],
     mapDeltas |-> m.mapDeltas]

\* The transaction itself, or when the pool does not have it the ones that spend its outputs; with
\* all descendants.
Spenders(m, t) == {m.mapNextTx[o] : o \in Outputs(t) \cap DOMAIN m.mapNextTx}
removeRecursive(m, t) ==
    RemoveStaged(m, CalculateDescendants(m, IF t \in Pool(m) THEN {t} ELSE Spenders(m, t)))
removeOne(m, t) == RemoveStaged(m, {t} \cap Pool(m))

ClearPrioritisation(m, S) == [mapTx |-> m.mapTx, mapNextTx |-> m.mapNextTx,
                              mapDeltas |-> [t \in Tx |-> IF t \in S THEN 0 ELSE m.mapDeltas[t]]]

\* The transactions of the pool that spend an output t spends.
Conflicts(m, t) == {m.mapNextTx[o] : o \in Vin[t] \cap DOMAIN m.mapNextTx}

\* They leave one after the other, each with all its descendants.  The hash of one is read after it
\* was freed, and one that left with another is not met again: some keep their priority (kept).
removeConflicts(m, t, kept) ==
    LET direct == Conflicts(m, t) \ {t}
    IN  ClearPrioritisation(RemoveStaged(m, CalculateDescendants(m, direct)), direct \ kept)

\* Variant: only the transactions of the block leave, not those in conflict with them.
removeOneForBlock(m, t, kept) == ClearPrioritisation(removeOne(m, t), {t})

\* What removeForBlock does for one transaction of the block.
removeInBlock(m, t, kept) ==
    ClearPrioritisation(removeConflicts(removeOne(m, t), t, kept), {t})

removeForBlock(m, vtx, kept) ==
    LET after[i \in 0 .. Len(vtx)] ==
            IF i = 0 THEN m ELSE removeInBlock(after[i - 1], vtx[i], kept)
    IN  after[Len(vtx)]

(***************************************************************************)
(* UpdateTransactionsFromBlock: the transactions of a disconnected block   *)
(* may have children in the pool that they do not know of.  They are       *)
(* taken in reverse, so that the children of each are final.               *)
(***************************************************************************)
LinkChildren(m, t, S) ==
    [mapTx |-> [u \in Pool(m) |->
                   IF u = t THEN [m.mapTx[u] EXCEPT !.children = @ \cup S]
                   ELSE IF u \in S THEN [m.mapTx[u] EXCEPT !.parents = @ \cup {t}]
                   ELSE m.mapTx[u]],
     mapNextTx |-> m.mapNextTx,
     mapDeltas |-> m.mapDeltas]

\* There is too much below t to visit, or an entry below it is dirty itself.
TooMany(m, t, setExclude) ==
    LET direct == m.mapTx[t].children
        below == CalculateDescendants(m, direct)
    IN  \/ \E d \in below : IsDirty(m.mapTx[d])
        \/ Cardinality(below \ (direct \cup setExclude)) > MaxVisit

SetDirty(e) == [e EXCEPT !.count = 0, !.fees = e.mod]

\* Variant: the children that came back with the block are counted a second time.
UpdateForAllDescendants(m, t, setExclude) ==
    LET new == CalculateDescendants(m, m.mapTx[t].children)
    IN  [mapTx |-> [u \in Pool(m) |->
                       IF u # t THEN m.mapTx[u]
                       ELSE IF TooMany(m, t, setExclude) THEN SetDirty(m.mapTx[u])
                       ELSE UpdateState(m.mapTx[u], Sum(new, Mods(m)), Cardinality(new))],
         mapNextTx |-> m.mapNextTx,
         mapDeltas |-> m.mapDeltas]

\* setExclude is accounted for already.  With too much to visit the entry becomes dirty.
UpdateForDescendants(m, t, setExclude) ==
    LET new == CalculateDescendants(m, m.mapTx[t].children) \ setExclude
    IN  [mapTx |-> [u \in Pool(m) |->
                       IF u # t THEN m.mapTx[u]
                       ELSE IF TooMany(m, t, setExclude) THEN SetDirty(m.mapTx[u])
                       ELSE UpdateState(m.mapTx[u], Sum(new, Mods(m)), Cardinality(new))],
         mapNextTx |-> m.mapNextTx,
         mapDeltas |-> m.mapDeltas]

\* What UpdateTransactionsFromBlock does for one transaction.
UpdateFromBlock(m, t, included) ==
    IF t \notin Pool(m) THEN m
    ELSE UpdateForDescendants(LinkChildren(m, t, Spenders(m, t) \ included), t, included)

\* Variant: the pool is left as addUnchecked made it.
UpdateNothing(m, hashes) == m

UpdateTransactionsFromBlock(m, hashes) ==
    LET after[i \in 0 .. Len(hashes)] ==
            IF i = 0 THEN m
            ELSE UpdateFromBlock(after[i - 1], hashes[Len(hashes) + 1 - i], ToSet(hashes))
    IN  after[Len(hashes)]

(***************************************************************************)
(* Cleaning up and limiting the pool.                                      *)
(***************************************************************************)
\* Variant: a height too high.
NotMineableLater(c, height, m, t) ==
    \/ ~ CheckFinalTx(t, height + 1)
    \/ /\ \E p \in Parents(t) : IsCoinBase(p)
       /\ \/ \E p \in Parents(t) \ Pool(m) : p \notin {o[1] : o \in Unspent(c)}
          \/ Immature(c, t, height + 1)

\* What removeForReorg takes out: no longer final, or a coinbase spender whose coin is gone or is
\* too young.
NotMineable(c, height, m, t) ==
    \/ ~ CheckFinalTx(t, height)
    \/ /\ \E p \in Parents(t) : IsCoinBase(p)
       /\ \/ \E p \in Parents(t) \ Pool(m) : p \notin {o[1] : o \in Unspent(c)}
          \/ Immature(c, t, height)

\* They leave one after the other, each with all its descendants.
removeForReorg(m, c) ==
    RemoveStaged(m, CalculateDescendants(m, {t \in Pool(m) : NotMineable(c, Len(c) + 1, m, t)}))

\* The larger of the fee rate of an entry and of its package, as a fraction.
Score(e) == IF e.fees > e.mod * nSizeWithDescendants(e)
            THEN <<e.fees, nSizeWithDescendants(e)>> ELSE <<e.mod, 1>>
NotAbove(x, y) == x[1] * y[2] <= y[1] * x[2]
Lowest(m) == {t \in Pool(m) : \A u \in Pool(m) : NotAbove(Score(m.mapTx[t]), Score(m.mapTx[u]))}

\* One round of eviction; the time of entry decides between equal scores.
Evict(m) == IF Cardinality(Pool(m)) <= MaxPool THEN {m}
            ELSE {RemoveStaged(m, CalculateDescendants(m, {t})) : t \in Lowest(m)}

\* The pools that eviction may end in.
TrimToSize(m) ==
    LET pools[i \in 0 .. Cardinality(Tx)] ==
            IF i = 0 THEN {m} ELSE UNION {Evict(p) : p \in pools[i - 1]}
    IN  pools[Cardinality(Tx)]

Expire(m, old) == RemoveStaged(m, CalculateDescendants(m, old))

\* Transactions of may have passed the -mempoolexpiry age.
LimitMempoolSize(m, may) ==
    UNION {TrimToSize(Expire(m, old)) : old \in SUBSET (may \cap Pool(m))}

(***************************************************************************)
(* AcceptToMemoryPool.  c is the chain of pcoinsTip, height the next       *)
(* height of chainActive: DisconnectTip calls it before UpdateTip.         *)
(***************************************************************************)
InputsOk(m, c, t) ==
    /\ Outputs(t) \cap Unspent(c) = {}
    /\ \A o \in Vin[t] : o[1] \in Pool(m) \/ o \in Unspent(c)
    /\ ~ Immature(c, t, Len(c) + 1)

WithinLimits(m, ancestors) ==
    /\ Cardinality(ancestors) + 1 <= LimitAncestors
    /\ \A a \in ancestors : m.mapTx[a].count + 1 <= LimitDescendants

\* Variant: the whole of what is replaced is not looked at.
ReplacesDirect(m, t) == \A u \in Conflicts(m, t) : ModifiedFee(m, t) > m.mapTx[u].mod

\* The rules a replacement of the conflicting transactions must meet.
Replaces(m, t) ==
    LET direct == Conflicts(m, t)
        all == CalculateDescendants(m, direct)
        fees == Sum(all, Mods(m))
    IN  /\ \A u \in direct : ~ IsDirty(m.mapTx[u]) /\ ModifiedFee(m, t) > m.mapTx[u].mod
        /\ Sum(direct, [u \in direct |-> m.mapTx[u].count]) <= MaxReplace
        /\ (Parents(t) \cap Pool(m)) \subseteq UNION {Parents(u) : u \in direct}
        /\ ModifiedFee(m, t) - fees >= MinRelayFee

Acceptable(m, c, height, t) ==
    LET ancestors == CalculateMemPoolAncestors(m, t)
    IN  /\ t \notin Pool(m) /\ ~ IsCoinBase(t)
        /\ CheckFinalTx(t, height)
        /\ Conflicts(m, t) \subseteq OptIn
        /\ InputsOk(m, c, t)
        /\ WithinLimits(m, ancestors)
        /\ Conflicts(m, t) \cap ancestors = {}
        /\ Conflicts(m, t) # {} => Replaces(m, t)

\* The ancestors are the ones from before the conflicting transactions leave.
Accepted(m, t) ==
    addUnchecked(RemoveStaged(m, CalculateDescendants(m, Conflicts(m, t))), t,
                 CalculateMemPoolAncestors(m, t))

-------------------------------------------------------------------------------
Init == /\ mempool = [mapTx |-> <<>>, mapNextTx |-> <<>>, mapDeltas |-> [t \in Tx |-> 0]]
        /\ chain = <<>>
        /\ stage = "idle"

\* A transaction from a peer, the wallet or sendrawtransaction.
AcceptToMemoryPool(t) ==
    /\ stage = "idle"
    /\ Acceptable(mempool, chain, Len(chain) + 1, t)
    /\ mempool' \in LimitMempoolSize(Accepted(mempool, t), Tx \ {t})
    /\ UNCHANGED <<chain, stage>>

PrioritiseTransaction(t, d) ==
    /\ stage = "idle"
    /\ mempool.mapDeltas[t] + d \in 0 .. MaxDelta
    /\ LET above == IF t \in Pool(mempool) THEN LinkedAncestors(mempool, t) ELSE {}
           Raise(u) == LET e == mempool.mapTx[u]
                       IN  IF u = t THEN [e EXCEPT !.mod = @ + d, !.fees = @ + d]
                           ELSE IF u \in above THEN UpdateState(e, d, 0) ELSE e
       IN  mempool' = [mapTx |-> [u \in Pool(mempool) |-> Raise(u)],
                       mapNextTx |-> mempool.mapNextTx,
                       mapDeltas |-> [mempool.mapDeltas EXCEPT ![t] = @ + d]]
    /\ UNCHANGED <<chain, stage>>

\* The blocks of valid transactions that may follow the tip.
ValidBlock(vtx) ==
    \A i \in DOMAIN vtx :
        LET before == Left(Confirmed(chain) \cup {vtx[j] : j \in 1 .. i - 1})
        IN  /\ Vin[vtx[i]] \subseteq before
            /\ Outputs(vtx[i]) \cap before = {}
            /\ CheckFinalTx(vtx[i], Len(chain) + 1)
            /\ ~ Immature(chain, vtx[i], Len(chain) + 1)

ConnectTip(vtx) ==
    /\ stage # "invalidate" /\ Len(chain) < MaxHeight
    /\ ValidBlock(vtx)
    /\ LET block == <<CoinBase[Len(chain) + 1]>> \o vtx
       IN  /\ \E kept \in SUBSET (Prioritised \cap Pool(mempool)) :
                 mempool' = removeForBlock(mempool, block, kept)
           /\ chain' = Append(chain, block)
    /\ stage' = IF stage = "idle" THEN "idle" ELSE "connect"

\* One transaction of the disconnected block goes back, or its spenders leave.
Resurrect(x, c, height, t, passed) ==
    IF t \in passed /\ Acceptable(x.pool, c, height, t)
    THEN [pool |-> Accepted(x.pool, t), vHashUpdate |-> Append(x.vHashUpdate, t)]
    ELSE [pool |-> removeRecursive(x.pool, t), vHashUpdate |-> x.vHashUpdate]

\* All transactions of the disconnected block; passed are those that meet the other checks.
Resurrected(m, c, height, block, passed) ==
    LET after[i \in 0 .. Len(block)] ==
            IF i = 0 THEN [pool |-> m, vHashUpdate |-> <<>>]
            ELSE Resurrect(after[i - 1], c, height, block[i], passed)
    IN  after[Len(block)]

DisconnectTip(next) ==
    /\ \/ stage = "idle" /\ next \in {"step", "invalidate"}
       \/ stage = next
    /\ chain # <<>>
    /\ chain' = Front(chain)
    /\ \E passed \in SUBSET ToSet(Last(chain)) :
          LET back == Resurrected(mempool, Front(chain), Len(chain) + 1, Last(chain), passed)
          IN  mempool' = UpdateTransactionsFromBlock(back.pool, back.vHashUpdate)
    /\ stage' = next

\* Variant: the limit is left to the next acceptance.
FinishUnlimited == /\ stage \in {"step", "connect"}
                   /\ mempool' = removeForReorg(mempool, chain)
                   /\ stage' = "idle"
                   /\ UNCHANGED chain

\* The end of ActivateBestChainStep when blocks were disconnected.
FinishStep == /\ stage \in {"step", "connect"}
              /\ mempool' \in LimitMempoolSize(removeForReorg(mempool, chain), Tx)
              /\ stage' = "idle"
              /\ UNCHANGED chain

\* The end of InvalidateBlock.
FinishInvalidate == /\ stage = "invalidate"
                    /\ \E m \in LimitMempoolSize(mempool, Tx) : mempool' = removeForReorg(m, chain)
                    /\ stage' = "idle"
                    /\ UNCHANGED chain

Next == \/ \E t \in Tx : AcceptToMemoryPool(t)
        \/ \E t \in Prioritised, d \in Deltas : PrioritiseTransaction(t, d)
        \/ \E S \in SUBSET (Tx \ ToSet(CoinBase)) :
              Cardinality(S) <= MaxBlock /\ \E vtx \in SetToSeqs(S) : ConnectTip(vtx)
        \/ \E next \in {"step", "invalidate"} : DisconnectTip(next)
        \/ FinishStep
        \/ FinishInvalidate

Spec == Init /\ [][Next]_vars

-------------------------------------------------------------------------------
(* The links hold iterators and mapNextTx pointers into mapTx: both must   *)
(* only name transactions of the pool.                                     *)
Entry == [parents : SUBSET Tx, children : SUBSET Tx, count : Nat, fees : Int, mod : Int]

TypeOK ==
    /\ Pool(mempool) \subseteq Tx
    /\ \A t \in Pool(mempool) : /\ mempool.mapTx[t] \in Entry
                                /\ mempool.mapTx[t].parents \subseteq Pool(mempool)
                                /\ mempool.mapTx[t].children \subseteq Pool(mempool)
    /\ \A o \in DOMAIN mempool.mapNextTx : mempool.mapNextTx[o] \in Pool(mempool)
    /\ mempool.mapDeltas \in [Tx -> Int]
    /\ chain \in Seq(Seq(Tx)) /\ Len(chain) <= MaxHeight
    /\ stage \in {"idle", "step", "connect", "invalidate"}

\* The links are those of the transactions themselves (CTxMemPool::check), in every state between
\* two steps of a reorganisation too, although addUnchecked never links children.
LinksExact ==
    \A t \in Pool(mempool) :
        /\ mempool.mapTx[t].parents = Parents(t) \cap Pool(mempool)
        /\ mempool.mapTx[t].children = {u \in Pool(mempool) : t \in Parents(u)}

\* The descendants of a transaction by what the transactions spend.
Descendants(t) == Reach({t}, [p \in Pool(mempool) |-> {u \in Pool(mempool) : p \in Parents(u)}])

\* The fees of the transactions of the pool, with the deltas of prioritisetransaction.
Fees == [t \in Pool(mempool) |-> ModifiedFee(mempool, t)]

\* The count and the fees an entry keeps, which decide on eviction, replacement and the limits, are
\* those of the entry and all its descendants, with the deltas of prioritisetransaction; an entry
\* marked dirty keeps its own fee (CTxMemPool::check).
TotalsExact ==
    \A t \in Pool(mempool) :
        LET e == mempool.mapTx[t]
        IN  /\ e.mod = Fees[t]
            /\ IF IsDirty(e) THEN e.fees = e.mod
               ELSE e.count = Cardinality(Descendants(t)) /\ e.fees = Sum(Descendants(t), Fees)

\* The pool and the chain together are free of conflicts: every input is an output of the pool or
\* an unspent coin, no two transactions of the pool spend the same one, no transaction of the pool
\* is in the chain, and mapNextTx says who spends what.
InputsAvailable ==
    /\ \A t \in Pool(mempool) :
          /\ t \notin Confirmed(chain)
          /\ \A o \in Vin[t] : /\ o[1] \in Pool(mempool) \/ o \in Unspent(chain)
                               /\ o \in DOMAIN mempool.mapNextTx /\ mempool.mapNextTx[o] = t
    /\ \A o \in DOMAIN mempool.mapNextTx : o \in Vin[mempool.mapNextTx[o]]

\* A transaction that comes in place of others pays more than all that leave for it, their
\* descendants in the pool included, by at least the fee for its own relay.
PaysForReplaced ==
    [][\A t \in Tx :
          LET spent == {u \in Pool(mempool) : Vin[u] \cap Vin[t] # {}}
              left == UNION {Descendants(u) : u \in spent}
          IN  (stage = "idle" /\ chain' = chain /\ spent # {}
               /\ t \in Pool(mempool') \ Pool(mempool))
              => /\ left \cap Pool(mempool') = {}
                 /\ ModifiedFee(mempool, t) >=
                       Sum(left, Fees) + MinRelayFee]_vars

\* Outside a reorganisation every transaction of the pool could be in the next block once its
\* parents are: it is final, and the coinbases it spends are mature, whatever the chain went
\* through.
Mineable ==
    stage = "idle" => \A t \in Pool(mempool) : /\ CheckFinalTx(t, Len(chain) + 1)
                                               /\ ~ Immature(chain, t, Len(chain) + 1)

\* Outside a reorganisation the pool is within -maxmempool, although a reorganisation puts
\* transactions back without a limit.
SizeBounded == stage = "idle" => Cardinality(Pool(mempool)) <= MaxPool
===============================================================================
