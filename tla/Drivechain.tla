----------------------------- MODULE Drivechain -----------------------------
(***************************************************************************)
(* The sidechain half of a drivechain: deposits made on the mainchain are  *)
(* credited by the coinbase of sidechain blocks, withdrawals (WTs) made on *)
(* the sidechain are collected every SIDECHAIN_TAU blocks into one         *)
(* mainchain transaction, the WT^.                                         *)
(*                                                                         *)
(* Each node keeps its active chain and the drivechain index, a database   *)
(* of the D (deposit), W (withdrawal) and J (joined WT^) objects seen in   *)
(* connected blocks.  The index is the only memory of what was credited or *)
(* joined: no consensus rule looks at it, and disconnecting a block does   *)
(* not remove anything from it.                                            *)
(*                                                                         *)
(* Every node mines one block at a time.  A miner reads the tip, the index *)
(* and the chain WITHOUT cs_main and assembles the block later, under      *)
(* cs_main, on whatever the tip has become; the steps of a miner, of the   *)
(* validation code (which holds cs_main from Switch to the tip it leads    *)
(* to) and of other nodes interleave here as they do in the program.       *)
(*                                                                         *)
(* Abstractions.  A block is its chain of ancestors and its body.  A WT    *)
(* withdraws one unit and a deposit is worth one unit (module WTJoin has   *)
(* the amounts).  A deposit's index key is its number, so the numbers give *)
(* the order GetDeposits reads them in.                                    *)
(***************************************************************************)
EXTENDS Integers, Sequences, FiniteSets

CONSTANTS Node,
          Deposit,      \* mainchain deposits, numbered in index key order
          Wt,           \* sidechain transactions with a W output
          Key,          \* mainchain keys a WT can pay
          KeyOf,        \* the key each WT pays: all the W object contains
          TAU,          \* SIDECHAIN_TAU
          Work,         \* what a block can add to nChainWork (GetBlockProof)
          EnforceBIP34, \* the coinbase height rule is in force
          Gbt,          \* nodes that serve getblocktemplate as well
          RpcFails,     \* calls to the mainchain node can fail
          MaxHeight,    \* bound: height of a chain
          MaxCrash,     \* bound: crashes of all nodes together
          MaxSetback,   \* bound: switches to a tip without more work
          None          \* no record, no WT^, no chain

ASSUME DepositAssumption == Deposit \subseteq Nat
ASSUME KeyAssumption == KeyOf \in [Wt -> Key]
ASSUME TauAssumption == TAU \in Nat \ {0}
ASSUME FlagAssumption == EnforceBIP34 \in BOOLEAN /\ RpcFails \in BOOLEAN /\ Gbt \subseteq Node
ASSUME WorkAssumption == Work \subseteq Nat \ {0}
ASSUME BoundAssumption == MaxHeight \in Nat /\ MaxCrash \in Nat /\ MaxSetback \in Nat

\* A WT^: the WTs it pays and the deposits it spends.
WTJoined == [pays : SUBSET Wt, spends : SUBSET Deposit]

\* A block: the work of the chain it ends, the deposits its coinbase credits,
\* the WT^ its coinbase records, and its WT transactions.  replaced is history
\* that no guard reads: the heights at which its miner, when it read the tip,
\* saw another block than the block's own ancestor.
Block == [miner : Node, nChainWork : Nat, credits : SUBSET Deposit,
          join : WTJoined \cup {None}, wts : SUBSET Wt, replaced : SUBSET Nat]

Chain == Seq(Block)

ASSUME NoneAssumption == None \notin WTJoined /\ None \notin Chain /\ None \notin Wt

VARIABLES
    chain,      \* chainActive of each node, the genesis block left out
    target,     \* chain a node is switching to under cs_main, or None
    indexed,    \* ConnectBlock has written the objects of target's next block
    depIndex,   \* D records of each node's index
    wtIndex,    \* W records: key hash -> last WT written under it
    joinIndex,  \* J records
    mempool,    \* unconfirmed WTs
    disk,       \* the chain of the last FlushStateToDisk
    miner,      \* the miner of each node: where it is and what it has read
    deposited,  \* deposits the mainchain has
    sent,       \* WT^s the mainchain node has received
    mined,      \* every chain that ends in a block some miner has found
    crashes,    \* number of crashes so far
    setbacks    \* number of switches without more work so far

nodeVars == <<chain, target, indexed, depIndex, wtIndex, joinIndex, mempool, disk>>
mainVars == <<deposited, sent>>
bounds == <<crashes, setbacks>>
vars == <<nodeVars, miner, mainVars, mined, bounds>>

-----------------------------------------------------------------------------
Height(c) == Len(c)

Credits(c) == UNION {c[i].credits : i \in 1..Len(c)}
Wts(c) == UNION {c[i].wts : i \in 1..Len(c)}
Joins(c) == {c[i].join : i \in 1..Len(c)} \ {None}

Prefix(c, k) == SubSeq(c, 1, k)

IsPrefixOf(c, d) == Len(c) <= Len(d) /\ c = Prefix(d, Len(c))

\* nChainWork of the tip.
ChainWork(c) == IF c = <<>> THEN 0 ELSE c[Len(c)].nChainWork

\* Nobody is switching the chain of n: cs_main can be taken.
Unlocked(n) == target[n] = None

IdleMiner == [pc |-> "idle", prev |-> <<>>, credits |-> {}, height |-> 0, records |-> {},
              join |-> None, parent |-> <<>>, wts |-> {}]

-----------------------------------------------------------------------------
\* The heights at which GetDrivechainObjectHeight finds w on the active chain.
GetDrivechainObjectHeight(n, w) == {h \in 1..Height(chain[n]) : w \in chain[n][h].wts}

\* The W records of the index, one for each key.
GetWTs(n) == {wtIndex[n][k] : k \in Key} \ {None}

\* Variants of ToJoin: the window starts one block late, or one block early.
ToJoinLate(n, h, ws) ==
    {w \in ws : \E k \in GetDrivechainObjectHeight(n, w) : h - TAU < k /\ k <= h}

ToJoinEarly(n, h, ws) ==
    {w \in ws : \E k \in GetDrivechainObjectHeight(n, w) : h - TAU - 1 <= k /\ k <= h}

\* The W records ws that GetWTJoinTX puts in a WT^ for height h.
ToJoin(n, h, ws) ==
    {w \in ws : \E k \in GetDrivechainObjectHeight(n, w) : h - TAU <= k /\ k <= h}

\* The deposits GetWTJoinTX takes as inputs: in key order, until wts are paid.
JoinInputs(n, wts) ==
    {d \in depIndex[n] : Cardinality({e \in depIndex[n] : e < d}) < Cardinality(wts)}

\* The WT^ of the W records ws for height h, None if there is nothing to join
\* or the deposits do not cover it.
WTJoinTX(n, h, ws) ==
    LET wts == ToJoin(n, h, ws) IN
    IF wts = {} \/ Cardinality(depIndex[n]) < Cardinality(wts)
    THEN None
    ELSE [pays |-> wts, spends |-> JoinInputs(n, wts)]

\* The W records the call for height h goes through.
RecordsFor(n, h) == IF h % TAU = 0 THEN GetWTs(n) ELSE {}

-----------------------------------------------------------------------------
Init == /\ chain = [n \in Node |-> <<>>]
        /\ target = [n \in Node |-> None]
        /\ indexed = [n \in Node |-> FALSE]
        /\ depIndex = [n \in Node |-> {}]
        /\ wtIndex = [n \in Node |-> [k \in Key |-> None]]
        /\ joinIndex = [n \in Node |-> {}]
        /\ mempool = [n \in Node |-> {}]
        /\ disk = [n \in Node |-> <<>>]
        /\ miner = [n \in Node |-> IdleMiner]
        /\ deposited = {}
        /\ sent = {}
        /\ mined = {}
        /\ crashes = 0
        /\ setbacks = 0

\* A user deposits on the mainchain.
MainchainDeposit(d) ==
    /\ d \notin deposited
    /\ deposited' = deposited \cup {d}
    /\ UNCHANGED <<nodeVars, miner, sent, mined, bounds>>

\* A WT transaction enters the mempool of n: from its wallet (the sidechain
\* page), or relayed or rebroadcast by a peer.
AcceptWithdraw(n, w) ==
    /\ Unlocked(n)
    /\ w \notin Wts(chain[n]) \cup mempool[n]
    /\ mempool' = [mempool EXCEPT ![n] = @ \cup {w}]
    /\ UNCHANGED <<chain, target, indexed, depIndex, wtIndex, joinIndex, disk, miner,
                   mainVars, mined, bounds>>

-----------------------------------------------------------------------------
\* The validation code.  It takes cs_main to lead the active chain to c, block
\* by block, and releases it there.
Switch(n, c) ==
    /\ Unlocked(n)
    /\ c # chain[n]
    /\ target' = [target EXCEPT ![n] = c]
    /\ indexed' = [indexed EXCEPT ![n] = FALSE]

\* ActivateBestChainStep towards a chain with more work, whatever its height.
\* It returns as soon as the tip is better than it was, so that c is better
\* and its last block makes the difference; the rest is the next call's.
StartActivate(n, c) ==
    /\ ChainWork(c) > ChainWork(chain[n])
    /\ ChainWork(Prefix(c, Height(c) - 1)) <= ChainWork(chain[n])
    /\ Switch(n, c)

\* A block has arrived that makes a better chain: from a peer, or read again
\* from the files.
ReceiveBlock(n, c) ==
    /\ StartActivate(n, c)
    /\ UNCHANGED <<chain, depIndex, wtIndex, joinIndex, mempool, disk, miner, mainVars, mined,
                   bounds>>

\* A step that ends without more work: a block above c could not be connected,
\* or c has as much work as the tip and comes first by sequence number (which
\* a restart resets).  Back at the genesis block it is as after
\* InvalidateBlock.
FailedStep(n, c) ==
    /\ setbacks < MaxSetback
    /\ ChainWork(c) <= ChainWork(chain[n])
    /\ Switch(n, c)
    /\ setbacks' = setbacks + 1
    /\ UNCHANGED <<chain, depIndex, wtIndex, joinIndex, mempool, disk, miner, mainVars, mined,
                   crashes>>

\* invalidateblock on the block after height k of the active chain.
InvalidateBlock(n, k) ==
    /\ setbacks < MaxSetback
    /\ k < Height(chain[n])
    /\ Switch(n, Prefix(chain[n], k))
    /\ setbacks' = setbacks + 1
    /\ UNCHANGED <<chain, depIndex, wtIndex, joinIndex, mempool, disk, miner, mainVars, mined,
                   crashes>>

\* The tip of n leaves the active chain; cs_main is released if that was all.
PopTip(n) ==
    /\ target[n] # None
    /\ ~IsPrefixOf(chain[n], target[n])
    /\ chain' = [chain EXCEPT ![n] = Prefix(@, Height(@) - 1)]
    /\ target' = [target EXCEPT ![n] = IF chain'[n] = @ THEN None ELSE @]

\* Variant of DisconnectTip: the objects of the block leave the index with it.
DisconnectTipErases(n) ==
    /\ PopTip(n)
    /\ depIndex' = [depIndex EXCEPT ![n] = @ \ chain[n][Height(chain[n])].credits]
    /\ UNCHANGED <<indexed, wtIndex, joinIndex, mempool, disk, miner, mainVars, mined, bounds>>

\* The tip is not on the new chain: its WTs go back to the mempool if it still
\* takes them, its objects stay in the index.
DisconnectTip(n) ==
    /\ PopTip(n)
    /\ \E back \in SUBSET chain[n][Height(chain[n])].wts :
          mempool' = [mempool EXCEPT ![n] = @ \cup back]
    /\ UNCHANGED <<indexed, depIndex, wtIndex, joinIndex, disk, miner, mainVars, mined, bounds>>

\* The next block of the new chain.
NextBlock(n) == target[n][Height(chain[n]) + 1]

\* It is the last one.
LastBlock(n) == Height(target[n]) = Height(chain[n]) + 1

\* W objects of one block: later ones overwrite earlier ones with the same key.
WriteWTs(old, wts, new) ==
    \A k \in Key : LET ws == {w \in wts : KeyOf[w] = k} IN
                   IF ws = {} THEN new[k] = old[k] ELSE new[k] \in ws

\* ConnectBlock writes the objects of the block to the index, in one batch,
\* before the tip moves.
ConnectBlock(n) ==
    /\ target[n] # None
    /\ IsPrefixOf(chain[n], target[n])
    /\ ~indexed[n]
    /\ indexed' = [indexed EXCEPT ![n] = TRUE]
    /\ depIndex' = [depIndex EXCEPT ![n] = @ \cup NextBlock(n).credits]
    /\ \E new \in [Key -> Wt \cup {None}] :
          /\ WriteWTs(wtIndex[n], NextBlock(n).wts, new)
          /\ wtIndex' = [wtIndex EXCEPT ![n] = new]
    /\ joinIndex' = [joinIndex EXCEPT ![n] = @ \cup ({NextBlock(n).join} \ {None})]
    /\ UNCHANGED <<chain, target, mempool, disk, miner, mainVars, mined, bounds>>

\* The rest of ConnectTip: the block's WTs leave the mempool and the tip moves.
\* At the end of the new chain cs_main is released, and a miner that submitted
\* the block returns from ProcessNewBlock.
UpdateTip(n) ==
    /\ target[n] # None
    /\ indexed[n]
    /\ chain' = [chain EXCEPT ![n] = Prefix(target[n], Height(@) + 1)]
    /\ mempool' = [mempool EXCEPT ![n] = @ \ NextBlock(n).wts]
    /\ target' = [target EXCEPT ![n] = IF LastBlock(n) THEN None ELSE @]
    /\ indexed' = [indexed EXCEPT ![n] = FALSE]
    /\ miner' = [miner EXCEPT ![n] = IF LastBlock(n) /\ @.pc = "submitted" THEN IdleMiner ELSE @]
    /\ UNCHANGED <<depIndex, wtIndex, joinIndex, disk, mainVars, mined, bounds>>

\* FlushStateToDisk, which ConnectTip also calls between ConnectBlock and
\* UpdateTip: the coins are then those of the new block.
Flush(n) ==
    /\ disk' = [disk EXCEPT ![n] =
                    IF indexed[n] THEN Prefix(target[n], Height(chain[n]) + 1) ELSE chain[n]]
    /\ UNCHANGED <<chain, target, indexed, depIndex, wtIndex, joinIndex, mempool, miner,
                   mainVars, mined, bounds>>

\* The process dies and starts again: blocks connected since the last flush
\* are forgotten, what they wrote to the index is not.
Restart(n) ==
    /\ chain' = [chain EXCEPT ![n] = disk[n]]
    /\ target' = [target EXCEPT ![n] = None]
    /\ indexed' = [indexed EXCEPT ![n] = FALSE]
    /\ mempool' = [mempool EXCEPT ![n] = {}]
    /\ miner' = [miner EXCEPT ![n] = IdleMiner]
    /\ UNCHANGED <<depIndex, wtIndex, joinIndex, disk, mainVars, mined, setbacks>>

Crash(n) ==
    /\ crashes < MaxCrash
    /\ crashes' = crashes + 1
    /\ Restart(n)

-----------------------------------------------------------------------------
\* The miner thread (BitcoinMiner and CreateNewBlock).

\* pindexPrev = chainActive.Tip(), read without cs_main.
MinerStart(n) ==
    /\ miner[n].pc = "idle"
    /\ Height(chain[n]) < MaxHeight
    /\ miner' = [miner EXCEPT ![n] = [IdleMiner EXCEPT !.pc = "start", !.prev = chain[n]]]
    /\ UNCHANGED <<nodeVars, mainVars, mined, bounds>>

\* Variant of NewDeposits: the test for a duplicate is inverted.
KnownDeposits(n, answer) == answer \cap depIndex[n]

\* The deposits of the mainchain's answer that the index does not have.
NewDeposits(n, answer) == answer \ depIndex[n]

\* GetDepositTX: ask the mainchain for its deposits, skip those in the index.
\* No cs_main.  getDeposits answers with an empty list when the call fails.
GetDepositTX(n) ==
    /\ miner[n].pc = "start"
    /\ \E answer \in {deposited} \cup (IF RpcFails THEN {{}} ELSE {}) :
          miner' = [miner EXCEPT ![n] = [@ EXCEPT !.pc = "deposits",
                                                  !.credits = NewDeposits(n, answer)]]
    /\ UNCHANGED <<nodeVars, mainVars, mined, bounds>>

\* chainActive.Height() + 1, the argument of GetWTJoinTX, read without cs_main.
ReadHeight(n) ==
    /\ miner[n].pc = "deposits"
    /\ miner' = [miner EXCEPT ![n] = [@ EXCEPT !.pc = "height", !.height = Height(chain[n]) + 1]]
    /\ UNCHANGED <<nodeVars, mainVars, mined, bounds>>

\* GetWTJoinTX reads the W records without cs_main, if a WT^ is due.
ReadRecords(n) ==
    /\ miner[n].pc = "height"
    /\ miner' = [miner EXCEPT ![n] = [@ EXCEPT !.pc = "records",
                                               !.records = RecordsFor(n, miner[n].height)]]
    /\ UNCHANGED <<nodeVars, mainVars, mined, bounds>>

\* GetWTJoinTX looks up the transaction of each record, under cs_main, and
\* joins those in the window.
GetWTJoinTX(n) ==
    /\ miner[n].pc = "records"
    /\ miner[n].records # {} => Unlocked(n)
    /\ miner[n].records \cap mempool[n] = {}
    /\ miner' = [miner EXCEPT ![n] =
                    [@ EXCEPT !.pc = "join", !.height = 0, !.records = {},
                              !.join = WTJoinTX(n, miner[n].height, miner[n].records)]]
    /\ UNCHANGED <<nodeVars, mainVars, mined, bounds>>

\* The W records a call of GetWTJoinTX is about to look up.
PendingLookups(n) ==
    IF miner[n].pc = "records" THEN miner[n].records
    ELSE IF n \in Gbt /\ miner[n].pc = "idle" THEN RecordsFor(n, Height(chain[n]) + 1)
    ELSE {}

\* A record whose transaction is in the mempool has no block: mapBlockIndex.end()
\* is dereferenced and the process dies.
GetWTJoinTXFaults(n) ==
    /\ Unlocked(n)
    /\ PendingLookups(n) \cap mempool[n] # {}
    /\ crashes < MaxCrash
    /\ crashes' = crashes + 1
    /\ Restart(n)

\* The WT^ of a template reaches the mainchain node (sendDrivechainWT).
SendWT(join) == sent' = sent \cup ({join} \ {None})

\* CreateNewBlock under cs_main: the template is built on the tip of now, from
\* the deposits and the WT^ read before.  The WT^ is sent to the mainchain now,
\* whatever becomes of the block.
CreateNewBlock(n) ==
    /\ miner[n].pc = "join"
    /\ Unlocked(n)
    /\ Height(chain[n]) < MaxHeight
    /\ miner' = [miner EXCEPT ![n] =
                    [@ EXCEPT !.pc = "mining", !.parent = chain[n], !.wts = mempool[n],
                              !.join = IF miner[n].join \in joinIndex[n] THEN None
                                       ELSE miner[n].join]]
    /\ SendWT(miner[n].join)
    /\ UNCHANGED <<nodeVars, deposited, mined, bounds>>

\* sendDrivechainWT fails: CreateNewBlock throws and the miner thread returns.
BroadcastFails(n) ==
    /\ RpcFails
    /\ miner[n].pc = "join"
    /\ Unlocked(n)
    /\ miner[n].join # None
    /\ miner' = [miner EXCEPT ![n] = [IdleMiner EXCEPT !.pc = "dead"]]
    /\ UNCHANGED <<nodeVars, mainVars, mined, bounds>>

\* getblocktemplate holds cs_main all along.  It hands out the WT transactions
\* and a coinbase value: the external miner writes the coinbase, which credits
\* and records nothing.  The WT^ is sent.
GetBlockTemplate(n) ==
    /\ n \in Gbt
    /\ miner[n].pc = "idle"
    /\ Unlocked(n)
    /\ Height(chain[n]) < MaxHeight
    /\ PendingLookups(n) \cap mempool[n] = {}
    /\ miner' = [miner EXCEPT ![n] = [IdleMiner EXCEPT !.pc = "mining", !.prev = chain[n],
                                                       !.parent = chain[n], !.wts = mempool[n]]]
    /\ SendWT(WTJoinTX(n, Height(chain[n]) + 1, PendingLookups(n)))
    /\ UNCHANGED <<nodeVars, deposited, mined, bounds>>

\* Variant of CoinbaseHeightOk: the height in the coinbase is not checked.
AnyCoinbaseHeight(n) == TRUE

\* ContextualCheckBlock: IncrementExtraNonce has put the height after
\* pindexPrev in the coinbase; the rule wants the block's own height.
CoinbaseHeightOk(n) == EnforceBIP34 => Height(miner[n].prev) = Height(miner[n].parent)

\* The heights at which d has not the block of c.
Replaced(c, d) == {k \in 1..Len(c) : k <= Len(d) => Prefix(c, k) # Prefix(d, k)}

\* The block of a miner's template, which adds work w.
MinedBlock(n, w) == [miner |-> n, nChainWork |-> ChainWork(miner[n].parent) + w,
                     credits |-> miner[n].credits, join |-> miner[n].join, wts |-> miner[n].wts,
                     replaced |-> Replaced(miner[n].prev, miner[n].parent)]

\* ProcessBlockFound and submitblock: a solved block on the current tip that
\* passes the height rule becomes the chain to switch to.
ProcessBlockFound(n) ==
    /\ miner[n].pc = "mining"
    /\ miner[n].parent = chain[n]
    /\ CoinbaseHeightOk(n)
    /\ \E w \in Work : LET c == Append(chain[n], MinedBlock(n, w)) IN
          StartActivate(n, c) /\ mined' = mined \cup {c}
    /\ miner' = [miner EXCEPT ![n] = [IdleMiner EXCEPT !.pc = "submitted"]]
    /\ UNCHANGED <<chain, depIndex, wtIndex, joinIndex, mempool, disk, mainVars, bounds>>

\* The template is given up: the tip moved, the mempool changed or the nonces
\* ran out; or the solved block is stale or has the wrong height.
DropTemplate(n) ==
    /\ miner[n].pc = "mining"
    /\ miner' = [miner EXCEPT ![n] = IdleMiner]
    /\ UNCHANGED <<nodeVars, mainVars, mined, bounds>>

-----------------------------------------------------------------------------
Validate(n) == DisconnectTip(n) \/ ConnectBlock(n) \/ UpdateTip(n)

Mine(n) == \/ MinerStart(n) \/ GetDepositTX(n) \/ ReadHeight(n)
           \/ ReadRecords(n) \/ GetWTJoinTX(n) \/ CreateNewBlock(n) \/ GetBlockTemplate(n)

Next == \/ \E d \in Deposit : MainchainDeposit(d)
        \/ \E n \in Node, w \in Wt : AcceptWithdraw(n, w)
        \/ \E n \in Node, c \in mined : ReceiveBlock(n, c) \/ FailedStep(n, c)
        \/ \E n \in Node, k \in 0..MaxHeight : InvalidateBlock(n, k)
        \/ \E n \in Node : \/ Validate(n) \/ Flush(n) \/ Crash(n)
                           \/ Mine(n) \/ GetWTJoinTXFaults(n) \/ BroadcastFails(n)
                           \/ ProcessBlockFound(n) \/ DropTemplate(n)

Spec == Init /\ [][Next]_vars

\* The miner thread runs for ever, validation finishes what it started, and a
\* miner that keeps building templates solves one now and then.
Fairness == \A n \in Node : /\ WF_vars(Validate(n))
                            /\ WF_vars(Mine(n))
                            /\ SF_vars(ProcessBlockFound(n))

FairSpec == Spec /\ Fairness

-----------------------------------------------------------------------------
Miner == [pc : {"idle", "start", "deposits", "height", "records", "join", "mining",
                "submitted", "dead"},
          prev : Chain, credits : SUBSET Deposit, height : Nat, records : SUBSET Wt,
          join : WTJoined \cup {None}, parent : Chain, wts : SUBSET Wt]

\* Every variable has its type, a switch leads somewhere, and a block is
\* connected to the tip only.
TypeOK == /\ chain \in [Node -> Chain]
          /\ target \in [Node -> Chain \cup {None}]
          /\ indexed \in [Node -> BOOLEAN]
          /\ depIndex \in [Node -> SUBSET Deposit]
          /\ wtIndex \in [Node -> [Key -> Wt \cup {None}]]
          /\ joinIndex \in [Node -> SUBSET WTJoined]
          /\ mempool \in [Node -> SUBSET Wt]
          /\ disk \in [Node -> Chain]
          /\ miner \in [Node -> Miner]
          /\ deposited \subseteq Deposit
          /\ sent \subseteq WTJoined
          /\ mined \subseteq Chain
          /\ crashes \in Nat /\ setbacks \in Nat
          /\ \A n \in Node :
                /\ target[n] # chain[n]
                /\ indexed[n] => target[n] # None /\ IsPrefixOf(chain[n], target[n])

\* A W record of the key w pays: of w itself, or of a WT with the same key.
RecordedUnder(n, w) ==
    \E v \in Wt : wtIndex[n][KeyOf[w]] = v /\ KeyOf[v] = KeyOf[w]

\* What the index has of a chain: all of its objects.
Covers(n, c) == /\ Credits(c) \subseteq depIndex[n]
                /\ Joins(c) \subseteq joinIndex[n]
                /\ \A w \in Wts(c) : RecordedUnder(n, w)

\* The index never misses an object of the active chain, nor of the chain a
\* restart would come back to, at any point of a reorganisation or crash:
\* what GetDepositTX and GetWTJoinTX rely on ("Skip duplicates",
\* src/src/miner.cpp:579).
IndexCoversChain == \A n \in Node : Covers(n, chain[n]) /\ Covers(n, disk[n])

\* No two blocks of c credit the same deposit.
CreditsOnce(c) == \A i, j \in 1..Len(c) : i # j => c[i].credits \cap c[j].credits = {}

\* A deposit is credited at most once on any active chain, as the comment "Skip
\* duplicates" in GetDepositTX (src/src/miner.cpp:579) has it.  Miners read the
\* index without cs_main and no consensus rule checks the credits, so that it
\* does not hold, with or without the rule for the coinbase height.
CreditedAtMostOnce == \A n \in Node : CreditsOnce(chain[n])

\* Where two blocks of c credit the same deposit, the earlier one stands where
\* the miner of the later one had read another block.
RepeatsReplaced(c) ==
    \A i, j \in 1..Len(c) :
        i < j /\ c[i].credits \cap c[j].credits # {} => i \in c[j].replaced

\* What the height rule does for the credits: a deposit is credited twice on an
\* active chain only if the first of the two blocks replaced a block of the tip
\* that the miner of the second had read (miner.cpp:462), in a reorganisation
\* before it built its template (miner.cpp:142).  A block that only extends
\* that tip makes the coinbase height wrong.
CreditedTwiceOnlyByReorg == \A n \in Node : RepeatsReplaced(chain[n])

\* The WTs confirmed in the cycle that ends before height h.
CycleWts(c, h) == UNION {c[i].wts : i \in {k \in 1..Len(c) : h - TAU <= k /\ k < h}}

PaidBy(joins) == UNION {j.pays : j \in joins}

\* The WTs of every finished cycle that the deposits known by then can pay
\* have been sent to the mainchain in a WT^.
WithdrawalsJoined ==
    \A n \in Node : \A h \in 1..Height(chain[n]) :
        LET due == CycleWts(chain[n], h)
            funds == Credits(Prefix(chain[n], h - 1))
        IN (h % TAU = 0 /\ Cardinality(due) <= Cardinality(funds)) => due \subseteq PaidBy(sent)

\* No WT is paid by two different WT^s: the windows of successive cycles,
\* [h - TAU, h] with both ends included, do not overlap in effect.
PaidOnce == \A j, k \in sent : j # k => j.pays \cap k.pays = {}

\* Two WT^s never spend the same deposit, so the mainchain can accept both.
SpendsDisjoint == \A j, k \in sent : j # k => j.spends \cap k.spends = {}

\* A WT that a WT^ could not pay is paid by a later one, once it is funded.
WithdrawalsRolled ==
    \A n \in Node : \A h \in 1..Height(chain[n]) :
        LET due == Wts(Prefix(chain[n], h - 1))
            funds == Credits(Prefix(chain[n], h - 1))
        IN (h % TAU = 0 /\ Cardinality(due) <= Cardinality(funds)) => due \subseteq PaidBy(sent)

\* Every W record that GetWTJoinTX looks up is on a block or is not found.
RecordsResolve ==
    \A n \in Node : Unlocked(n) => PendingLookups(n) \cap mempool[n] = {}

\* A deposit made while there is room for two more blocks is credited.
DepositsCredited ==
    \A d \in Deposit :
        (d \in deposited /\ \A n \in Node : Height(chain[n]) <= MaxHeight - 2)
            ~> (\E n \in Node : d \in Credits(chain[n]))
=============================================================================
