# A TLA+ model of the drivechain sidechain node

The program is a fork of Bitcoin Core (about version 0.12.99) that is the child
half of a drivechain: deposits made on a mainchain are credited on this chain,
and withdrawals made on this chain are collected into mainchain transactions.
Paths below are relative to the repository (its code is in `src/src/`).

This directory holds the specifications, the TLC configurations that check them
on small instances, and proofs that TLAPS checks. `PROJECT.json` lists the runs,
the theorems, which lines each definition translates, the findings and the
hazards the properties are aimed at.

    tlc -workers 2 -config MCSingle.cfg MCDrivechain    # one run
    tlapm DrivechainProofs.tla                           # one proof module

## The system

Inventory of the parts that keep state, with what makes each one correct.

| Part | State | Operations | Hard because | Correct if |
|---|---|---|---|---|
| Drivechain index and WT^ (`miner.cpp`, `main.cpp`, `txdb.cpp`, `drivechainclient.cpp`) | D, W and J records in a database of their own; the mainchain's deposits | `GetDepositTX`, `GetWTJoinTX`, `CreateNewBlock`, `ConnectBlock` writing records, `getblocktemplate`, calls to the mainchain node | the miner reads tip, index and chain without `cs_main`; records are never removed; no consensus rule checks a credit; calls fail; crashes | a deposit is credited exactly once; every funded WT is paid exactly once, by a WT^ the mainchain accepts |
| UTXO caches (`coins.cpp`, `txdb.cpp`) | `pcoinsTip`, the view of the block in progress, the chainstate database | fetch, modify, flush, uncache, undo | DIRTY and FRESH flags are the only record of what a layer may forget | a cached UTXO set is the plain map the operations describe, also after a crash |
| Block tree (`main.cpp`, `chain.h`) | `mapBlockIndex`, `nStatus`, `nSequenceId`, `setBlockIndexCandidates`, `mapBlocksUnlinked`, `chainActive` | headers and blocks arriving, `ActivateBestChain`, `InvalidateBlock`, `ReconsiderBlock`, pruning | any order of arrival; `cs_main` released between steps; reorganisations that fail half way; data that disappears | the assertions of `CheckBlockIndex`; the best valid chain known is active; every call returns |
| Chain state on disk (`FlushStateToDisk`, `LoadBlockIndexDB`, `VerifyDB`) | block files, undo files, block tree and chainstate databases | flush, prune, load, verify, reindex | order of writes, a crash between them, slots that are written over afterwards | what the databases refer to is on disk; the node starts again |
| Memory pool (`txmempool.cpp`, `AcceptToMemoryPoolWorker`) | transactions, their links, the spenders of outputs, descendant totals, fee deltas | accept, replace, remove, trim, expire, reorganise | totals are kept incrementally; blocks that are disconnected bring back parents of what is there | links and totals equal their definition; no conflict with the chain, no missing input; a replacement pays for what it evicts |
| Transaction selection (`CreateNewBlock`) | priority queue, what depends on what | two phases | order and limits | every parent precedes its child; limits hold |
| Messages and block download (`ProcessMessage`, `SendMessages`) | `mapBlocksInFlight`, orphans, per-peer state, misbehaviour | one handler per message | peers lie, stall, send twice and disconnect; counters are kept by hand | a request is open at most once; a silent peer cannot hold a block for ever; a peer that answers is kept |
| Script check queue (`checkqueue.h`) | queue, counters, condition variables | `Add`, `Wait`, worker loop | lost and spurious wake-ups, early exit, interruption | `Wait` returns, with the conjunction of all checks of this block |
| Scheduler (`scheduler.cpp`) | timed tasks, number of threads servicing | `schedule`, `serviceQueue`, `stop` | wake-ups, stop with drain | every task runs once |
| Soft forks (`IsSuperMajority`) | versions of the last blocks | count | boundary | a rule never switches off |
| Wallet, address manager, connections, RPC/HTTP server, fee estimation, interpreter, GUI | | | | see "Not modelled" |

How they interact. Validation (`ProcessNewBlock` and below) runs under `cs_main`
and owns the block tree, the caches and the index. Peers' message handlers, the
RPC threads and the miner thread all call it. The miner reads the index and the
tip before it takes `cs_main`. `DisconnectTip` returns transactions to the
memory pool. `FlushStateToDisk` is called from the tip updates and writes
the caches and prunes block files. The mainchain node is reached by HTTP calls
from the miner and the template RPC.

The README of the repository also names merged mining and an `OP_BlockDivTen`;
this commit has neither.

## Modules

| Module | Models | Uses |
|---|---|---|
| `CoinsView` | what a stack of coin views promises: three plain maps | |
| `CoinsCache` | the block's view, `pcoinsTip` and the database, with their flags | refines `CoinsView` |
| `CoinsCacheProofs` | flags and refinement, for all constants | `CoinsCache` |
| `Drivechain` | nodes, chains, index, miners, mainchain | |
| `DrivechainProofs` | index, credits and payments, for all constants | `Drivechain` |
| `WTJoin` | the loops of `GetWTJoinTX`, with amounts | |
| `WTJoinProofs` | conservation of value in a WT^ | `WTJoin` |
| `BlockTree` | block index, candidates, activation, operator, pruning, restart | |
| `BlockTreeProofs` | failed marks, types, links, candidates, waiting blocks, and the best chain where nothing is pruned, for all constants | `BlockTree` |
| `CheckControl` | what `CCheckQueueControl` promises to `ConnectBlock` | |
| `CheckQueue` | master, workers, mutex, condition variables, interruption | refines `CheckControl` |
| `CheckQueueProofs` | counters and refinement, for any number of workers | `CheckQueue` |
| `ChainState` | block and undo files, the two databases, flush, crash, restart | |
| `ChainStateProofs` | what a crash leaves behind, for all constants | `ChainState` |
| `Download` | block download from several peers, timeouts | |
| `DownloadProofs` | bookkeeping, stalling, window and bans, for all constants | `Download` |
| `Mempool` | the memory pool and the chain it follows | |
| `MempoolProofs` | links, totals, conflicts, limit and replacement, for all constants | `Mempool` |
| `MC*` | constants, symmetry and reference definitions for TLC | |

Definitions called "Variant of X" are wrong versions of X, each a plausible
mistake in that code. They are never used by a specification. Putting one in the
place of X must make TLC report the property that `PROJECT.json` pairs it with;
that is how each property is known to depend on the code.

### CoinsCache

A cache maps a transaction id to an entry (coins, DIRTY, FRESH) or to `Absent`.
`CCoins` is abstracted to its set of available outputs and its height; the
height distinguishes undo data that rebuilds a transaction (`nHeight` non-zero)
from undo data that adds an output to one. `FetchCoins`, `ModifyCoins`,
`ModifyNewCoins`, `Release` (the destructor of `CCoinsModifier`),
`BatchWriteEntry` and `DBWriteEntry` are the functions of `coins.cpp` and
`txdb.cpp`. The actions are how the program calls them: reads through the tip,
`Uncache`, a view opened for a block to connect or disconnect, its spends,
creations and undos, its commit or its destruction, a flush, a crash. A read
through the block's view also fills `pcoinsTip`, as in the code. BIP30 is looked
up against the tip before the block's transactions, and the two exempt coinbases
are why `AddCoinBase` has no such guard. The flush is one LevelDB batch with the
best block, so that it is one step and a crash comes before or after it.

### Drivechain

State per node: active chain, the chain it is switching to while it holds
`cs_main` (`target`), the three kinds of record, the WTs in the memory pool, the
chain of the last flush, and a miner with what it has read so far. A block is
the work of the chain it ends, what its coinbase credits, the WT^ it records and
its WTs; `mined` has every chain that some miner has completed.

Which chain is switched to is decided by work, as in `CBlockIndexWorkComparator`,
and not by height: `StartActivate` leads to more work (`ReceiveBlock`,
`ProcessBlockFound`), `FailedStep` to what is left when a step fails, or to a
block of equal work that the order of sequence ids prefers, and `InvalidateBlock`
down the active chain. The tip may therefore be replaced by a sibling of its own
height, or go down, while a miner has read it and not yet built its template.
Blocks are disconnected and connected one at a time, and `cs_main` is released
where the switch ends.

Every unlocked read of `BitcoinMiner` and `CreateNewBlock` is a step of its own:
the tip (`MinerStart`), the deposits (`GetDepositTX`), the height
(`ReadHeight`), the W records (`ReadRecords`). The lookups of one `GetWTJoinTX`
call, each under `cs_main`, are one step. `CreateNewBlock` is the locked part;
it sends the WT^ to the mainchain whatever becomes of the block. Between
them the node may receive blocks, reorganise, flush or crash.
`getblocktemplate` holds `cs_main` all along; its block credits nothing, for
the coinbase is written by the external miner. A `GetWTJoinTX` that looks up a
WT that is back in the memory pool dereferences `mapBlockIndex.end()`; the
model takes the outcome to be the death of the process
(`GetWTJoinTXFaults`).

Abstractions: unit amounts (`WTJoin` has the
amounts); why a step fails or a block is preferred is left open; one miner per node; a restart comes back to the last flush and forgets
blocks after it; the memory pool does not evict (a disconnected WT may or
may not be accepted back); `GetTransaction` finds a confirmed WT
(with `-txindex`, or while it has an unspent output; without either the code
treats the WT as not found); index writes survive a crash of the process. The
mainchain is external: it makes deposits, answers or fails, and receives WT^s.

### WTJoin

`GetWTJoinTX` from the WTs in the window to the transaction it returns, one step
per iteration: `AddWithdraw`, `AddJoinFee`, `NextDeposit`, `NextOutput`,
`EndDeposit`, `Finish`. The transaction is kept as totals in and out, the number
of change outputs and whether an output is negative. `MAX_MONEY` bounds every
amount, so 64-bit overflow is out of reach and integers are unbounded.

### BlockTree

One set per bit of `nStatus`; `branch[b]` is the path of `pprev` pointers;
`arrival` orders blocks by `nSequenceId`; `linked` is `nChainTx > 0`. A thread
is idle, or in `ProcessNewBlock`, `ActivateBestChain` or an RPC call, and `pc`
says where. The steps of one critical section of `cs_main` are separate steps,
but no other thread moves between them (`Holding`, `Free`): interleaving happens
exactly where the code releases the lock, which is after the block is stored,
after every `ActivateBestChainStep`, and before the RPC calls go on to
`ActivateBestChain`. The comparison of `pindexMostWork` with the tip (`Loop`) is
made without the lock, as in the code.

Abstractions: one block per block file; `setBlockIndexCandidates` is a set, with
the order applied when it is searched; `invalidateblock` of the genesis block
is left out; `AbortNode`, or a reorganisation that cannot read a pruned block,
sets `aborted`, after which the properties about the best chain ask nothing.

`Restart` is `LoadBlockIndexDB` after a clean stop: links, waiting blocks and
candidates are computed again from what was flushed, all sequence ids become 0,
so that any order of the index entries in memory may break ties
(`addresses`), and any of the `BLOCK_FAILED_CHILD` marks may be missing,
because `FindMostWorkChain` does not put the blocks it marks into
`setDirtyBlockIndex`. `ActivateBestChain` follows, as in `AppInit2`.

### CheckQueue

State: the fields of `CCheckQueue`, and for every thread where it is in `Loop`
and the batch it has. Every critical section of the mutex is one step. A thread
in `cond.wait` must be notified, or wake up without a reason, before it takes
the mutex again (`Resume`). `Interrupt` is what shutdown does to the workers and
`InterruptMaster` to a master in `Wait`: the exception leaves `cond.wait`
without any clean-up, and the destructor of the controller waits again.
`CheckControl` is the promise: checks are added, and `Wait` returns whether all
of them were good. The refinement mapping needs no history: the checks in the
queue, those in the batches and `fAllOk` are all that was added since the last
`Wait`.

### ChainState

State: the block index in memory (which blocks have data and undo data, and
where), sizes of the files, `setDirtyBlockIndex`, `setDirtyFileInfo`; on disk,
the slots of the block and undo files, the block index database and the best
blocks the coin database was given. `FlushStateToDisk` is one step per write:
decide what to do and what to prune, `FlushBlockFile`, `WriteBatchSync`,
unlinking one file after the other, `FlushCoins`. `ProcessCrash` loses what is
in memory. `PowerLoss` also loses any of the slots written since their file was
last committed and the last batches of the coin database, which is written
without sync. `LoadBlockIndexDB` then starts from what is there, including the
file sizes, so that new blocks are written over slots the database does not know
of; it fails where the code's checks and `VerifyDB` fail.

Abstractions: files have a fixed number of slots, so that a block and its undo
data have the same size; which block is connected next is left open; a flush may
happen at any time, full or not (the code's sizes and times are a free choice);
writes do not fail.

### Download

State: known headers, blocks with data, the tip, and the record `CNodeState` of
every peer with `mapBlocksInFlight` and the counters beside it. The actions are
the handlers of `inv`, `headers` and `block` messages, `SendMessages` with its
two timeouts and `FindNextBlocksToDownload`, the beginning and end of a
connection, and the clock. There is no message queue, because a peer may say
anything at any time: a message is an action that is possible while the
connection is open. Peers in `Prompt` differ, they keep to the protocol: they
send only valid blocks, headers that connect, and no block before its parent's
header, and the clock does not tick while they owe an answer.

A header or block that is refused costs its sender what `AcceptBlockHeader` and
`CheckBlock` ask for: 10 points for an unknown parent, 100 for a failed one or
for an invalid block. The points add up (`Misbehaving`), and `BanScore`, in tens
of points, is where they ban. The points of a prompt peer are counted like those
of the others; that they never ban it is what `PromptPeerKept` has to show.
Points for other messages are behind `Drop`, which only peers that are not
prompt take. `IsInitialBlockDownload` has a side effect, it notices that the
initial download is over; it is called in `SendMessages`, when the tip moves and,
from other threads and messages, at any time (`Asked`).

`mapBlocksInFlight` keeps an iterator into the queue of the node; `Position` is
where it points to, and what is erased is that entry. Times are ages in ticks,
counted up to one more than the largest timeout. The
walk of `FindNextBlocksToDownload` is described by where it ends (`WalkEnd`)
instead of by its loop. Storing a block and connecting it are one step; module
`BlockTree` has them apart.

### Mempool

State: one record with `mapTx` (each entry with its links, descendant count,
descendant fees and modified fee), `mapNextTx` and `mapDeltas`; the active chain
as sequences of transactions; and how far a reorganisation is. The operations of
`txmempool.cpp` are functions from pool to pool, composed as the code composes
them: `removeForBlock` removes each transaction and its conflicts and then the
priorities, `TrimToSize` removes the package with the lowest score until the
pool fits. Where the code's order is that of a container and cannot matter to
the properties, the function returns the set of outcomes. `AcceptToMemoryPool`
is one step, replacement and limit included; a reorganisation is one step per
block, and `FinishStep` or `FinishInvalidate` at its end. `Reach` is the walk
over links that the code writes three times with a set of staged entries, and
`Sum` adds what such a walk collects; both are recursive functions.

Transactions spend outputs of `Tx` and of `Base` only, and coinbases of different
heights differ (`HashAssumption`): hashes do not collide, which is what BIP 34
gives coinbases.

Abstractions: size one for every transaction, so that counts and sizes are the
same; memory usage is the number of entries; a check on something outside this
state (scripts, standardness, priority, rolling minimum fee) is a free choice to
refuse; lock times are heights; relative lock times, checked at the same places,
are left out.

## Runs

Passing runs. Deadlock is not checked in any of them: a node with nothing left
to receive may stop, and so may the bounded instance.

| Run | Instance | Shows |
|---|---|---|
| `coins_cache` | 2 transactions, 2 outputs, 1 height, 2 blocks | `FlagsHonest`, `ImplementsCoinsView` |
| `single_miner` | 1 node, 2 deposits, 2 WTs with different keys, TAU = 2, height up to 4 | `WithdrawalsJoined`, `PaidOnce`, and `DepositsCredited` under fairness |
| `reorganising_miner` | 1 node that mines and serves `getblocktemplate`, 1 deposit, a WT, TAU = 1, height up to 2, failing calls, 1 crash, 1 switch without more work, coinbase height rule | `IndexCoversChain`, `CreditedTwiceOnlyByReorg` |
| `wt_amounts` | all inputs of up to 2 WTs and 2 deposits of up to 2 outputs, amounts 1 to 3, fees 0 and 1 | `FeeSplit`, `SpendsShortestRun` |
| `block_tree` | 4 blocks, one invalid, one heavy, 2 threads, pruning | `LinkedExact`, `CandidatesUseful`, `CandidatesSettled`, `UnlinkedExact`, `FailedHasCause` |
| `activation` | 3 blocks, 2 of them invalid (one in context, one when connected), 2 threads, 2 of the commands `invalidateblock`, `reconsiderblock` and restart | `BestChain`, `LinkedExact`, `CandidatesSettled`, and `ActivationEnds` under fairness |
| `check_queue` | 2 workers and the master, batches of up to 2, up to 4 queued checks of which any may fail | `IdleAtStart`, `ImplementsControl` |
| `chain_state` | 3 blocks on 2 branches, 3 files of 2 blocks, 1 crash of either kind | `BlocksOnDisk`, `UndoOnDisk`, `BestBlockKnown`, `StartsAgain` |
| `download` | a chain of 3 blocks, the last invalid, window 1, 2 in transit, 1 prompt peer and 1 arbitrary one, 2 connections | `InFlightExact`, `StallerOwes`, `CommonBlockLinked`, `PromptPeerKept`, and `BlocksArrive` under fairness |
| `mempool` | a chain of 4 transactions, a replacement of the first, a lone one, one that spends a coinbase; pool of 4, blocks of up to 3, height up to 3 | `LinksExact`, `TotalsExact`, `InputsAvailable`, `Mineable`, `SizeBounded`, `PaysForReplaced` |

Why these bounds reach the interesting cases.

* Two outputs per transaction separate "spent" from "partly spent", and two
  transactions show that an operation on one leaves the other alone. Flags are
  per transaction, and three layers are all the program has.
* Height 2 and one switch without more work (`MaxSetback`) allow a tip to be
  replaced by a sibling while a miner is at any of its steps, and the lost block
  to come back (`mined`); the repeated credit that the height rule leaves open
  does occur in `reorganising_miner`. Blocks of the same work are enough there,
  since the setback is what makes room for the sibling; in `two_miners` the
  sibling has more work. `RepeatedCredits` and `IndexCovers` below remove these
  bounds altogether.
* Height 4 with TAU = 2 is two complete cycles, so that the windows of
  successive WT^s meet.
* Two deposits of two outputs give a deposit that is not needed, one that is
  needed partly, and two change outputs.
* Four blocks give forks of depth two, a subtree waiting for a missing root, and
  a heavy block that makes a short branch the better one. `MIN_BLOCKS_TO_KEEP`
  and `PruneAfterHeight` are 1, so that a block can be pruned at height 1. A
  block that is pruned while it waits for its parent takes five ("Known
  disagreements"); the theorems about `BlockTree` are not bound to any number.
* Two commands are enough for a restart after an invalidation and for two
  restarts with different orders of the entries.
* Two workers give one that finishes while another one sleeps; four checks with
  batches of two give a queue that is not emptied by one round of batches, and
  `nBatchSize` limits some batches and not others.
* Two files of two blocks and a third make `nLastBlockFile` move on while undo
  data still goes to the earlier file; one crash is followed by writes over what
  it lost, which is what could go wrong.
* A window of one block makes every out-of-order block reach its end, so that
  stalling detection runs. Two connections are one peer that leaves and comes
  back, or both peers. The invalid last block gives a request that ends with a
  rejection. `BanScore` is 2, so that one unknown parent leaves a score behind and
  the second one bans. Both peers are preferred: beside a silent preferred peer
  that announces nothing, one that is not preferred is asked for nothing during
  the initial download (`fFetch`), and `BlocksArrive` does not claim otherwise.
* The pool's four-transaction chain is one longer than what a reorganisation can
  bring back at once (`MaxBlock` 3), so that returning parents find children
  that stayed, and with `MaxVisit` 0 entries become dirty as soon as a
  grandchild has to be visited, while children alone are still counted.

Symmetry is used for outputs, identical nodes, and blocks and threads that
differ in nothing but their names, and in no run that checks liveness.

`TypeOK` is checked in one run of each module except those where the proof of an
other theorem establishes it on the way (`CoinsCache`, `Drivechain`, `WTJoin`).

### Fairness

`Drivechain!Fairness`: validation goes on with what it started (weak: it holds
the lock and nothing blocks it); the miner thread keeps running (weak); a miner
that keeps building templates solves one now and then (strong on
`ProcessBlockFound`: each attempt may come to nothing). Deposits, incoming
blocks, flushes and crashes are not fair: they need not happen.

`BlockTree!Fairness`: a thread in the middle of a call goes on (weak on
`Proceed`), and a thread that waits for `cs_main` gets it in the end (strong on
`Activate`). The second is an assumption about the scheduling of threads: a
recursive mutex does not promise it by itself, but `cs_main` is only held for
bounded work, is released after every step of a switch, and the operating system
lets a waiter in at some point.

`CheckQueue!Spec`: a thread that is in `Loop` and not waiting goes on (weak on
`Loop`). Nothing is assumed of a sleeping thread, so that a lost notification
would show. The controller need not go on either.

`Download!FairSpec`: `ThreadMessageHandler` visits every node
(`net.cpp:1710`), the socket thread removes nodes that are to be closed, time
goes on, and prompt peers answer (all weak). Nothing is assumed of other peers.
That prompt peers answer is not the code's doing; it is the condition under
which the code promises progress, and the peer that does not answer is the case
of interest.

### Runs that show a disagreement

Each checks one property that the repository's documentation or comments state,
and TLC must find it violated; `PROJECT.json` quotes the line.

`invalid_wt`: `ValidWT`. The change output alone pays the fees: with no change,
small change or two change outputs the WT^ spends more than it has or has a
negative output.

`two_miners`: `CreditedAtMostOnce`, with two nodes, blocks that add 1 or 2 to the
work, and the coinbase height rule in force. A miner reads the tip and the index
(`miner.cpp:462`, `miner.cpp:101`); a sibling of that tip with more work, which
credits the deposit, replaces it; the template is built on the sibling
(`miner.cpp:142`), carries the right height and credits the deposit again.
`IncrementExtraNonce` writes the height after the tip read first, so that the rule
rejects a template whose tip has only grown since; `CreditedTwiceOnlyByReorg`
says that the replaced tip is the one case it leaves open. Its statement reads
`replaced`, which a block keeps for this purpose: the heights at which its miner
had read another block than the one below it.

### Known disagreements

Properties of the modules that do not hold in wider instances than the passing
runs. To see the counterexample, take the configuration, make the change and
name the property as its only INVARIANT (with `Spec`, without symmetry;
`DepositsCredited` is a PROPERTY and keeps its `FairSpec`).

| Configuration | Change | Property | What happens |
|---|---|---|---|
| `MCNetwork.cfg` | `EnforceBIP34 = FALSE`, `Work = {1}` | `CreditedTwiceOnlyByReorg` | before the coinbase height rule is in force, a block that only extends the tip between the miner's read of the deposits (`miner.cpp:101`) and the locked part of `CreateNewBlock` is enough for a second credit |
| `MCSingle.cfg` | `MaxCrash = 1`, `Deposit = {1}`, `Wt = {}`, `Key = {}`, `KeyOf <- NoWt`, `MaxHeight = 3`, `EnforceBIP34 = TRUE` | `DepositsCredited` | a crash after the D records were written (`main.cpp:2446`) and before the chain was flushed: the index has the deposit, no chain does, and no miner of that node credits it again, although `README.md:12` says "Credit those balances" |
| `MCSingle.cfg` | `MaxCrash = 1` | `PaidOnce` | a crash after the D record of a block was written and before the chain was flushed: the template for the same height is built again, and its WT^ finds the additional deposit in the index (`miner.cpp:667`) and spends that one, so that two WT^s pay the same WT from different deposits |
| `MCSingle.cfg` | `KeyOf <- SameKey` | `WithdrawalsJoined` | the W record's key is the hash of an object that holds only the key to pay (`txdb.cpp:274`): a second WT to the same key replaces the first, which is never joined |
| `MCSingle.cfg` | | `SpendsDisjoint` | deposits are taken from the start of the index each time (`miner.cpp:667`): successive WT^s spend the same one |
| `MCSingle.cfg` | | `WithdrawalsRolled` | a cycle the deposits do not cover is dropped (`miner.cpp:692`) and is outside the next window, while `README.md:18` says it must be "rolled" into the next WT^ |
| `MCReorg.cfg` | | `RecordsResolve` | after a reorganisation or a restart a W record's transaction is in the memory pool when it is looked up and has no block (`main.cpp:91`) |
| `MCBlockTree.cfg` | `Hash = {b1, b2, b3}`, `Heavy = {}`, `Prunes = FALSE` | `CandidatesComplete` | a reorganisation fails, `cs_main` is released with the tip at the fork, and `CheckBlockIndex` (`main.cpp:4228`) in another thread finds better blocks that are not candidates |
| `MCActivation.cfg` | no condition on `Reconsidered` | `LinkedExact` | a block received while its parent is marked failed is not put into `mapBlocksUnlinked` (`main.cpp:3140`) and stays unlinked when the parent is reconsidered; the assertion is `main.cpp:4208` |
| `MCActivation.cfg` | | `FailedHasCause` | `reconsiderblock` forgives ancestors but not their other descendants (`main.cpp:3060`); the assertion is `main.cpp:4219` |
| `MCActivation.cfg` | no condition on `Reconsidered` | `BestChain` | `reconsiderblock` does not make the ancestors it forgives candidates (`main.cpp:3057`): a better chain stays unused |
| `MCActivation.cfg` | `Prunes = TRUE`, `Commands = {"invalidateblock"}`, no invalid blocks | `CandidatesSettled` | a block that was pruned, disconnected and received again has a later sequence id than before (`main.cpp:3126`): its sibling of equal work is now the better one and not a candidate |
| `MCBlockTree.cfg` | `Hash = {b1, b2, b3, b4, b5}`, `BadConnect = {}`, `Heavy = {}`, `Thread = {t1}`, with symmetry | `ChainTxExact` | a block that waits for its parent is at a prunable height, and `PruneOneBlockFile` removes it from `mapBlocksUnlinked` (`main.cpp:3611`): when the parent arrives nothing links the block, although it and all its ancestors were processed, until it is received again. `CheckBlockIndex` (`main.cpp:4208`) asserts "nChainTx != 0 is used to signal that all parent blocks have been processed (but may have been pruned)". `LinkedExact` is what holds |
| `MCBlockTree.cfg` | `BadConnect = {}`, `Heavy = {}`, `Thread = {t1}`, `Prunes = FALSE`, `Commands = {"invalidateblock"}`, `MaxCommands = 1`, with symmetry | `UnlinkedExact` | a block stored while its parent is marked as failed is not put into `mapBlocksUnlinked` (`main.cpp:3140`); if the parent was waiting itself it is linked later and the block is not, and what waits for the block stays in the map with nothing missing; the assertion is `main.cpp:4253`, "We aren't missing data for any parent -- cannot be in mapBlocksUnlinked" |
| `MCBlockTree.cfg` | no condition on `havePruned`, `BadConnect = {}`, `Heavy = {b1}`, `Commands = {"restart"}`, `MaxCommands = 1` | `CandidatesUseful` | after a restart a pruned block with the work of the tip sorts after it and is a candidate; received again, it gets a new sequence id (`main.cpp:3126`), sorts before the tip and stays in the set (the assertion is `main.cpp:4235`) |
| `MCBlockTree.cfg` | `Commands = {"restart"}`, `MaxCommands = 1`, `Thread = {t1}` | `CandidatesSettled` | a heavy tip is pruned while a reorganisation away from it fails: it is no candidate any more, and the tip it fell back to never becomes one |

`CandidatesSettled` is the counterpart of `CandidatesComplete`: once all calls
have returned, the candidates are complete.

Met while modelling, where the modules are stated so that they allow what the
code does:

* `FlushBlockFile` (`main.cpp:2074`) commits the last block file only, while
  `main.cpp:2532` says "First make sure all block and undo data is flushed to
  disk". Undo data goes to the file of its block, which may be an older one, and
  a loss of power can take it. This is why `UndoOnDisk` is about crashes of the
  process.
* Files are unlinked before the coins are flushed (`main.cpp:2554`), and
  `VerifyDB` reads one block more than `-checkblocks`; a restart whose best
  block is older than the tip the pruning went by can stop at a pruned block.
  `init.cpp:1377` warns only if `-checkblocks` exceeds `MIN_BLOCKS_TO_KEEP`.
  `StartsAgain` excepts it.
* `AcceptBlock` calls `AbortNode` when the block cannot be written and goes on
  (`main.cpp:3498`).
* `LoadBlockIndexDB` puts every unlinked block into `mapBlocksUnlinked`
  (`main.cpp:3781`), pruned ones included, which `CheckBlockIndex` excludes
  (`main.cpp:4252`). `UnlinkedExact` speaks of blocks with data.
* `main.cpp:5921` says that a download may take "2 + 0.5 * N times the block
  interval"; the base is one interval (`main.h:104`).
* `FindFilesToPrune` subtracts `MIN_BLOCKS_TO_KEEP` from an unsigned height. It
  does not wrap around because `PruneAfterHeight` is larger, which is
  `KeepAssumption`.
* The direct fetch after a headers message (`main.cpp:5203`) looks only at
  whether the blocks below the last one are there or in flight: a block that was
  received and failed is asked for again. This is why `InFlightExact` excludes
  blocks we have, and not failed ones.
* `removeConflicts` reads `txConflict` after `remove` freed the transaction it is
  a reference to (`txmempool.cpp:551`-`555`), so that the priority that is cleared
  may be another one's. `ConnectTip` lets any of them keep its priority (`kept`);
  no property depends on it.
* The fee deltas of `prioritisetransaction` count in the memory usage of the
  pool, but the call does not trim the pool; `SizeBounded` counts entries.

## Proofs

All theorems hold for every value of the constants under the named assumptions
of the component modules, which say no more than what sets and numbers the
constants are. TLC evaluates each assumption in a run of the same module.

**`CacheInvariant`, `CacheRefinement`** (`CoinsCacheProofs`).
`Spec => [](TypeOK /\ FlagsHonest)` and `Spec => ImplementsCoinsView`. The
inductive invariant is `CacheInv`: types, honest flags at both layers, and no
view outside the processing of a block. Honest flags are what make dropping,
merging and erasing an entry safe; the lemmas show for each operation of
`coins.cpp` that it keeps one entry honest and what it does to the answer of the
layer (`FetchHonest`, `ModifyHonest`, `ReleaseHonest`, `BatchWriteHonest`,
`DBWriteHonest`). The delicate one is `BatchWriteHonest`: FRESH of the child
speaks of the parent's answer, and after the merge it has to speak of the
grandparent. Each action then maps to one action of `CoinsView` or to a stutter.

**`IndexCovers`** (`DrivechainProofs`). `Spec => [](TypeOK /\ IndexCoversChain)`.
The invariant adds to it that between `ConnectBlock` and `UpdateTip` the index
already has the next block (`IndexOf`); nothing ever leaves the index, and a
restart goes back to a chain it covers.

**`RepeatedCredits`** (`DrivechainProofs`). If `EnforceBIP34`, then
`Spec => []CreditedTwiceOnlyByReorg`, for any number of nodes and any
interleaving: switches to any chain, failed steps, invalidated blocks and crashes.
`CreditInv` states `RepeatsReplaced` of every chain a node may come to (active,
flushed, switched to, mined by anyone), and that a miner's deposits are not
credited by the tip it read first (`ReadsNew`), which rests on `IndexCovers`: the
tip was read before the index was. When a block is found whose coinbase has the
height of its parent, a block below it that credits the same deposit is not on
the tip that was read, which has a block of that height too (`FoundRepeats`).

**`WTsPaidOnce`, `CyclesJoined`** (`DrivechainProofs`). For a node that is alone
(`Node = {n}`), does not crash (`MaxCrash = 0`) and neither fails a step nor has a
block invalidated (`MaxSetback = 0`), `Spec => []PaidOnce`, and, if
moreover no two WTs pay the same key (`FiniteDistinct`),
`Spec => []WithdrawalsJoined`. These are the conditions of run `single_miner`. A
crash breaks the first and a shared key the second ("Known disagreements"); with
several nodes a WT^ may come from a chain this node does not have. `NothingBetter`
says that the node knows no chain with more work than its own but for the block
it is connecting. `PaidInv` says that nothing the miner has read
without `cs_main` is overtaken (`ReadsHold`), that the chain only grows by the
miner's own block (`OwnBlock`), that a WT is in the pool or in one block
(`ConfirmedOnce`), and, the heart of it, that a WT^ that was sent pays WTs of one
finished cycle, and is the one any further template would have if the block that
ends its cycle is still to come (`SentInv`). Windows of different heights do not
overlap, so that two WT^s paying the same WT are equal. `DueInv` adds that the D
records are the credits of the chain and the block being connected, and that a
cycle is settled as soon as there is a template for the height that ends it; it
needs that the record of a WT is found under its key (`NextWTComplete`), which is
where distinct keys come in.

**`FeesBalance`** (`WTJoinProofs`). `Spec => [](TypeOK /\ FeeSplit /\ Conserved)`, for all
amounts. `Conserved` is the equation between inputs, outputs, what is left to
pay and the fees each change output was charged; `FeeSplit` is the case of one
change output. The same equation shows why no change, or two, is wrong.

**`FailedCaused`** (`BlockTreeProofs`).
`Spec => [](~Reconsidered => FailedHasCause)`, for any tree, any number of
threads, invalid blocks, pruning, restarts and `invalidateblock`. `FailedInv`
adds the shape of the tree (a branch ends in its block and ancestors' branches
are prefixes), that blocks with data are known, and that a thread in the loop of
`InvalidateBlock` has marked its block.

**`TreeTyped`, `LinksExact`, `CandidatesKept`** (`BlockTreeProofs`).
`Spec => []TypeOK`, `Spec => []LinkedExact` and `Spec => []CandidatesUseful`,
without any condition on the constants. One invariant, `LinkInv`, carries all
three. The properties hold only while `cs_main` is free; inside
`ReceivedBlockTransactions` a block is already processed and not linked yet. So
the invariant speaks of `Reached`, the linked blocks and those in the queue of
the thread that links: it is closed under ancestors in every state (`Closed`),
has the tip and the candidates (`Tips`), and a block with data and no invalid
ancestor is reached or waits (`WaitsAll`). `Sequenced` has every linked block
once in the order of arrival, `Switching` that a thread between two steps of a
switch has a linked goal with at least the work of the tip, and `Grounded` that
work grows along a branch, so that disconnecting never leaves a candidate with
less work than the tip. `NeverAgain` is what holds as long as nothing was
pruned: a block is linked once, so its sequence id does not change any more.
`WaitsAll` is dropped when `reconsiderblock` is used, as the property is.
`Filter`, a recursive function, is treated by lemmas about which positions it
selects.

**`WaitingExact`** (`BlockTreeProofs`). If `Commands \subseteq {"restart"}`,
`Spec => []UnlinkedExact`, with pruning and invalid blocks. The condition is
needed ("Known disagreements"). `WaitInv` adds that a block that is marked before
it is linked failed `ContextualCheckBlock`, and that a block waits for a parent
that is missing or waits too; a smallest counterexample then shows that one with
all its data does not wait.

**`BestActive`, `CandidatesBack`** (`BlockTreeProofs`). If `~Prunes`,
`Spec => []BestChain` and `Spec => []CandidatesSettled`, for any tree, order of
arrival, number of threads, invalid blocks, and calls of `invalidateblock` and
restarts. These are about states in which every call has returned, and what they
say is false at most points in between: a failed reorganisation leaves the tip
at the fork with the candidates of the old tip erased. The invariant `ActInv`
therefore names an anchor: a candidate, not worse than the tip, with nothing
invalid below it, such that every valid linked block is a candidate or worse than
it (`Anchored`). It is the tip most of the time, and while a reorganisation is on
its way or has failed it is the tip that was left, or a better one that was met.
The other parts say that the active chain is sound (`TipSound`), that the
candidate a thread moves to is still the best one when it goes on after a step
(`Aims`), and that the tip is the best candidate or some thread has still to go
through `FindMostWorkChain` (`Settling`). When the last thread returns, the tip
is the best candidate, so it is the anchor. With pruning the argument fails where
the sequence id of a block changes, and `CandidatesSettled` is indeed violated
then ("Known disagreements").

**`QueueTyped`, `QueueIdle`, `QueueRefinement`** (`CheckQueueProofs`).
`Spec => []TypeOK`, `Spec => []IdleAtStart` and `Spec => ControlSafety`, the initial
condition and the steps of `CheckControl`, for any number of workers, batch size
and checks. `QueueInv` says that `nTodo` is the number of checks in the queue and
in the batches, `nIdle` the number of waiting threads and one more after an
interrupted wait of the master, and `nTotal` counts the threads in `Loop`; that a
thread has a batch exactly while it works on it; and that without a controller
nothing is left to do. A thread's critical section is treated in two halves:
what holds when it has taken its batch off the counters (`Entered`), and each way
to leave. The refinement then shows that moving a check from the queue into a
batch, and a result from a batch into `fAllOk`, changes neither the number of
checks nor whether all of them are good.

**`ChainTyped`, `BlocksSurvive`, `UndoSurvives`, `BestBlockIndexed`,
`RestartSucceeds`** (`ChainStateProofs`). `Spec => []` of `TypeOK`,
`BlocksOnDisk`, `UndoOnDisk`, `BestBlockKnown` and `StartsAgain`, for any tree of blocks, file size, depth of pruning and
number of crashes. `ChainInv` says of the database, and of memory while the node
runs, that positions are below the file sizes and that no slot is used twice
(`Sound`); that whatever differs between the two is dirty (`Tracked`), so that
after the batch the database is as memory is; that sizes only grow except while
files are being pruned; that blocks that are not committed are in the last file
(`LastFile`), which is why committing only that one is enough for blocks (and not
for undo data, hence the condition of `UndoOnDisk`); and where `FlushStateToDisk`
is. A lineage is the least set that has the block and is closed under parents,
which is what makes it usable in a proof.

**`DownloadTyped`, `BookkeepingExact`, `AccusedOwe`, `WindowLinked`,
`PromptKept`** (`DownloadProofs`). `Spec => []` of `TypeOK`, `InFlightExact`,
`StallerOwes`, `CommonBlockLinked` and `PromptPeerKept`, for any tree of
blocks, finite set of peers, limits and timeouts. One invariant, `DownloadInv`,
carries all five. `Base` has the index closed under ancestors, failed blocks among
the bad ones and a linked tip. `Book` is stated of the record that the
bookkeeping functions pass on, so that `MarkBlockAsReceived` (`BookReceived`),
`MarkBlockAsInFlight` (`BookInFlight`), the accusation and the points
(`BookPenalty`) each have one lemma and an action is a chain of them: queues without duplicates hold exactly
the blocks requested from the node, the counters count them, an accused node owes
a block, a common block is linked, and a prompt peer is not to be banned and
neither of its clocks has run. That there is room for what is requested is
counting: the walk ends at the last of the wanted blocks (`FetchedIs`,
`ReachesCount`), and the direct fetch takes the first few (`FirstFew`). A prompt
peer is not closed because its download clock is 0 while it owes a block and the
number of other downloading peers is not negative, which is where the exactness
of `nPeersWithValidatedDownloads` is needed (`PromptNotClosed`). It gets no
points because its first header connects and each of the others follows one that
was accepted, so that none is an orphan (`HeadersKeeps`), and a block of its
comes after the header of its parent (`BlockKeeps`).

**`PoolKept`, `PoolTyped`, `LinksAgree`, `TotalsAgree`, `NoConflicts`,
`PoolBounded`, `PoolMineable`, `ReplacementPays`** (`MempoolProofs`).
`Spec => []` of the invariant `PoolInv`, of `TypeOK`, `LinksExact`,
`TotalsExact`, `InputsAvailable`, `SizeBounded` and `Mineable`, and
`Spec => PaysForReplaced`, for any finite set of transactions, chain, limits,
fees and priorities. None of them is inductive by itself. What an entry counts is
found by walking links, so totals need exact links (`Links`). The children of a
transaction that comes back are found in `mapNextTx`, so links need it exact
(`Spending`), and it has one spender per output only if pool and chain have no
double spend (`ChainOk`, `Sourced`). `PoolInv` is a chain without double spends
and a pool that is exact and fits it (`Settled`).

Inside `DisconnectTip` links and totals are not exact: transactions have come back
and do not know their children that stayed. `Kept(m, U, I)` and `Totals(m, U, I)`
say what holds there. `U` are the transactions whose older children are not
linked yet, `I` all that came back with the block: links are exact but for those
from `U` to transactions outside `I`, and an entry of `U` counts only what it
reaches among `I`. The first loop adds to both sets (`Resurrect`: accepted with its
ancestors, or refused and its spenders removed); the second takes them out of `U`
in reverse (`UpdateFromBlock`), each one adding what its new children reach. In
reverse, because then what is reached below them is final. With `U` empty this is
`Settled` again. Removal is treated once (`RemoveStaged` of a set closed
under children), and eviction, expiry, replacement, conflicts and the clean-up
are instances of it.

`SizeBounded` holds because every round of eviction takes at least one entry and
there are as many rounds as transactions. `Mineable` needs that a block in
between does not make anything worse: heights only grow while transactions are
accepted, and the clean-up looks at every entry when the chain is what it will
be. That `Reach` and `Sum` compute the least closed set and the sum, whatever
order they choose, is proved by induction over sets of numbers and of
transactions (`Climb`, `SetClimb`): as sets, not as predicates, so that no
operator has to be instantiated.

Only model-checked:

* everything about liveness (`DepositsCredited`, `ActivationEnds`,
  `BlocksArrive`, the fairness part of `ImplementsControl`), which needs fairness
  and ENABLED;
* `SpendsShortestRun`, which compares the loops with a fold over the inputs;
* `BestChain` and `CandidatesSettled` with pruning, where they hold in the
  instances of the runs and not in all. The theorems ask for `~Prunes`.

Where a fact about heights or counts needs induction (`BranchBegins`,
`FiniteListed`), the proof takes a smallest counterexample, which exists because
the natural numbers are well-founded (`NatLeast`).

## Not modelled, and why

* The script interpreter, signatures, hashing and serialisation: large pure
  functions over byte strings. Drivechain objects keep what matters of theirs,
  which is what their hash is made of.
* Sockets, HTTP, JSON, ZMQ, the GUI, logging: input and output. The 83
  translation catalogues of the GUI (`src/src/qt/locale/*.ts`) are tables of
  sentences, and no definition here stands for any of their lines.
* LevelDB, secp256k1, univalue: third-party code. LevelDB is taken to write a
  batch atomically.
* Writes that fail (a full disk), disk corruption, and a block that fails with
  "corruption possible". A loss of power is modelled for the chain state and not
  for the drivechain index (`txdb.cpp:283`).
* Reindexing and `-txindex`.
* The requests for headers (`fSyncStarted`), orphan transactions, relay of
  transactions and addresses, and the misbehaviour points for these messages and
  for malformed `headers` messages (more than 2000, or not in sequence).
* Fee estimation: floating-point statistics.
* Everything in the plan below.

## Plan

What is left, in this order.

1. `Scheduler`: every task runs once, stop with and without drain.
2. Transaction selection of `CreateNewBlock` over the pool of `Mempool`.
3. Requests for headers and orphan transactions beside `Download`.
4. `IsSuperMajority`, retargeting and the median time filter as operators
   against reference definitions.
5. HTTP work queue, address manager tables, wallet conflicts.
