------------------------------ MODULE ChainState ------------------------------
(***************************************************************************)
(* What the node keeps on disk and what survives a crash                   *)
(* (src/src/main.cpp, src/src/txdb.cpp): block and undo files, the block   *)
(* index database with the sizes of the files, and the best block of the   *)
(* coin database.  FlushStateToDisk writes them in a certain order; the    *)
(* process or the machine may stop between any two writes, after which     *)
(* LoadBlockIndexDB and VerifyDB start from what is there.                 *)
(*                                                                         *)
(* A file has room for FileSize blocks, and an undo file for their undo    *)
(* data; a position is a file and a slot in it.  The sizes of the files    *)
(* come from the database, so that after a crash the slots written since   *)
(* the last flush are used again.                                          *)
(*                                                                         *)
(* Which block is connected next is left open: module BlockTree has the    *)
(* choice of the chain, module CoinsCache the coins.  A clean stop is a    *)
(* crash of the process after a full flush.                                *)
(***************************************************************************)
EXTENDS Integers, Sequences, FiniteSets

CONSTANTS Hash,        \* blocks other than the genesis block
          Genesis,
          Parent,      \* the parent of each block
          nHeight,     \* and its height
          FileSize,    \* blocks in a file
          MaxFile,     \* bound: number of the last file
          Keep,        \* MIN_BLOCKS_TO_KEEP
          PruneAfter,  \* PruneAfterHeight
          CheckBlocks, \* -checkblocks
          MaxCrash,    \* bound: crashes
          MaxBatch,    \* bound: batches of the coin database a loss of power can undo
          None         \* no position, nothing in a slot

Block == Hash \cup {Genesis}
File == 0..MaxFile
Pos == File \X (1..FileSize)

ASSUME BlockAssumption == Genesis \notin Hash /\ None \notin Block /\ None \notin Pos
ASSUME TreeAssumption == /\ Parent \in [Hash -> Block]
                         /\ nHeight \in [Block -> Nat]
                         /\ nHeight[Genesis] = 0
                         /\ \A b \in Hash : nHeight[b] = nHeight[Parent[b]] + 1
ASSUME SizeAssumption == /\ FileSize \in Nat \ {0} /\ MaxFile \in Nat
                         /\ MaxCrash \in Nat /\ MaxBatch \in Nat
ASSUME KeepAssumption == /\ Keep \in Nat \ {0} /\ PruneAfter \in Nat /\ CheckBlocks \in Nat
                         /\ PruneAfter + 1 >= Keep

VARIABLES
    node,        \* "up", "down", or "corrupt": a restart failed
    processed,   \* nTx > 0
    dataPos,     \* nFile and nDataPos of blocks with BLOCK_HAVE_DATA
    undoPos,     \* nFile and nUndoPos of blocks with BLOCK_HAVE_UNDO
    nSize,       \* vinfoBlockFile: blocks in each file
    nUndoSize,   \* and undo data in each undo file
    nLastBlockFile,
    dirty,       \* setDirtyBlockIndex
    dirtyFiles,  \* setDirtyFileInfo
    tip,         \* chainActive.Tip(), the best block of pcoinsTip
    step,        \* how far FlushStateToDisk is
    full,        \* fDoFullFlush
    doomed,      \* setFilesToPrune
    blk,         \* the block in each slot of the block files
    rev,         \* the block whose undo data is in each slot of the undo files
    unsynced,    \* slots written since the file was last committed
    index,       \* the block index database
    coins,       \* the last best blocks written to the coin database
    crashes,     \* number of crashes
    powerLost,   \* one of them was a loss of power
    pruned       \* blocks that were pruned at some time

memory == <<processed, dataPos, undoPos, nSize, nUndoSize, nLastBlockFile, dirty, dirtyFiles, tip>>
flush == <<step, full, doomed>>
disk == <<blk, rev, unsynced, index, coins>>
history == <<crashes, powerLost, pruned>>
vars == <<node, memory, flush, disk, history>>

Last(s) == s[Len(s)]

\* What the block index database says of blocks and files.
Record == [processed : SUBSET Block, dataPos : [Block -> Pos \cup {None}],
           undoPos : [Block -> Pos \cup {None}], nSize : [File -> Nat],
           nUndoSize : [File -> Nat], last : File]

\* InitBlockIndex stored the genesis block and flushed.
Init == /\ node = "up"
        /\ processed = {Genesis}
        /\ dataPos = [b \in Block |-> IF b = Genesis THEN <<0, 1>> ELSE None]
        /\ undoPos = [b \in Block |-> None]
        /\ nSize = [f \in File |-> IF f = 0 THEN 1 ELSE 0]
        /\ nUndoSize = [f \in File |-> 0]
        /\ nLastBlockFile = 0
        /\ dirty = {} /\ dirtyFiles = {}
        /\ tip = Genesis
        /\ step = "idle" /\ full = FALSE /\ doomed = {}
        /\ blk = [p \in Pos |-> IF p = <<0, 1>> THEN Genesis ELSE None]
        /\ rev = [p \in Pos |-> None]
        /\ unsynced = {}
        /\ index = [processed |-> processed, dataPos |-> dataPos, undoPos |-> undoPos,
                    nSize |-> nSize, nUndoSize |-> nUndoSize, last |-> 0]
        /\ coins = <<Genesis>>
        /\ crashes = 0
        /\ powerLost = FALSE
        /\ pruned = {}

\* cs_main can be taken.
Ready == node = "up" /\ step = "idle"

-----------------------------------------------------------------------------
\* Blocks.

\* FlushBlockFile commits the block and the undo file of the last file only.
Committed(s, f) == {w \in s : w[2][1] # f}

\* Variant of FindBlockPos: a full file has room for one more.
FindBlockPosFull(f) == /\ f >= nLastBlockFile
                       /\ nSize[f] <= FileSize
                       /\ \A g \in nLastBlockFile..(f - 1) : nSize[g] > FileSize

\* FindBlockPos: the first file from nLastBlockFile on that has room.
FindBlockPos(f) == /\ f >= nLastBlockFile
                   /\ nSize[f] < FileSize
                   /\ \A g \in nLastBlockFile..(f - 1) : nSize[g] >= FileSize

\* AcceptBlock: a block that is not on disk is written to a file.  The file
\* that is left is committed.
AcceptBlock(b, f) ==
    /\ Ready
    /\ dataPos[b] = None
    /\ FindBlockPos(f)
    /\ LET p == <<f, nSize[f] + 1>>
           left == IF f = nLastBlockFile THEN unsynced ELSE Committed(unsynced, nLastBlockFile)
       IN /\ dataPos' = [dataPos EXCEPT ![b] = p]
          /\ undoPos' = [undoPos EXCEPT ![b] = None]
          /\ blk' = [blk EXCEPT ![p] = b]
          /\ unsynced' = left \cup {<<"blk", p>>}
    /\ nSize' = [nSize EXCEPT ![f] = @ + 1]
    /\ nLastBlockFile' = f
    /\ processed' = processed \cup {b}
    /\ dirty' = dirty \cup {b}
    /\ dirtyFiles' = dirtyFiles \cup {f}
    /\ UNCHANGED <<node, nUndoSize, tip, flush, rev, index, coins, history>>

\* ConnectTip: undo data is written next to the block's file, unless the block
\* was connected before.
ConnectTip(b) ==
    /\ Ready
    /\ Parent[b] = tip
    /\ dataPos[b] # None
    /\ tip' = b
    /\ IF undoPos[b] # None
       THEN UNCHANGED <<undoPos, nUndoSize, rev, unsynced, dirty, dirtyFiles>>
       ELSE LET f == dataPos[b][1]
                p == <<f, nUndoSize[f] + 1>>
            IN /\ undoPos' = [undoPos EXCEPT ![b] = p]
               /\ nUndoSize' = [nUndoSize EXCEPT ![f] = @ + 1]
               /\ rev' = [rev EXCEPT ![p] = b]
               /\ unsynced' = unsynced \cup {<<"rev", p>>}
               /\ dirty' = dirty \cup {b}
               /\ dirtyFiles' = dirtyFiles \cup {f}
    /\ UNCHANGED <<node, processed, dataPos, nSize, nLastBlockFile, flush, blk, index, coins,
                   history>>

\* DisconnectTip.
DisconnectTip ==
    /\ Ready
    /\ tip # Genesis
    /\ dataPos[tip] # None /\ undoPos[tip] # None
    /\ tip' = Parent[tip]
    /\ UNCHANGED <<node, processed, dataPos, undoPos, nSize, nUndoSize, nLastBlockFile, dirty,
                   dirtyFiles, flush, disk, history>>

-----------------------------------------------------------------------------
\* FlushStateToDisk, which other code calls with cs_main held.

InFile(b, f) == dataPos[b] # None /\ dataPos[b][1] = f

\* The files FindFilesToPrune may choose from; how many it needs is a question
\* of their sizes in bytes.
Prunable == {f \in 0..(nLastBlockFile - 1) :
                /\ nSize[f] # 0
                /\ nHeight[tip] > PruneAfter
                /\ \A b \in Block : InFile(b, f) => nHeight[b] <= nHeight[tip] - Keep}

\* It is called, to write the index, or all (for want of space in the cache,
\* after some time, to prune).  PruneOneBlockFile forgets what is in the files.
FlushStateToDisk(all, files) ==
    /\ Ready
    /\ files \subseteq Prunable
    /\ files # {} => all
    /\ LET gone == {b \in Block : \E f \in files : InFile(b, f)} IN
       /\ dataPos' = [b \in Block |-> IF b \in gone THEN None ELSE dataPos[b]]
       /\ undoPos' = [b \in Block |-> IF b \in gone THEN None ELSE undoPos[b]]
       /\ dirty' = dirty \cup gone
       /\ pruned' = pruned \cup gone
    /\ nSize' = [f \in File |-> IF f \in files THEN 0 ELSE nSize[f]]
    /\ nUndoSize' = [f \in File |-> IF f \in files THEN 0 ELSE nUndoSize[f]]
    /\ dirtyFiles' = dirtyFiles \cup files
    /\ doomed' = files
    /\ full' = all
    /\ step' = "commit"
    /\ UNCHANGED <<node, processed, nLastBlockFile, tip, disk, crashes, powerLost>>

\* FlushBlockFile.
FlushBlockFile ==
    /\ node = "up" /\ step = "commit"
    /\ unsynced' = Committed(unsynced, nLastBlockFile)
    /\ step' = "index"
    /\ UNCHANGED <<node, memory, full, doomed, blk, rev, index, coins, history>>

\* Variants of what the batch writes: nothing of it.
OldSizes == index.nSize
OldUndoSizes == index.nUndoSize
OldUndoPos == index.undoPos

\* The sizes and positions in the database after CBlockTreeDB::WriteBatchSync,
\* which writes what is dirty.
NewSizes == [f \in File |-> IF f \in dirtyFiles THEN nSize[f] ELSE index.nSize[f]]
NewUndoSizes == [f \in File |-> IF f \in dirtyFiles THEN nUndoSize[f] ELSE index.nUndoSize[f]]
NewDataPos == [b \in Block |-> IF b \in dirty THEN dataPos[b] ELSE index.dataPos[b]]
NewUndoPos == [b \in Block |-> IF b \in dirty THEN undoPos[b] ELSE index.undoPos[b]]

\* The database after it: one batch for blocks and files.
Batch == [processed |-> index.processed \cup (dirty \cap processed), dataPos |-> NewDataPos,
          undoPos |-> NewUndoPos, nSize |-> NewSizes, nUndoSize |-> NewUndoSizes,
          last |-> nLastBlockFile]

\* Variant of WriteBatchSync: a full flush leaves the index for later.
WriteBatchLater ==
    /\ node = "up" /\ step = "index"
    /\ index' = IF full THEN index ELSE Batch
    /\ dirty' = IF full THEN dirty ELSE {}
    /\ dirtyFiles' = IF full THEN dirtyFiles ELSE {}
    /\ step' = IF full THEN "unlink" ELSE "idle"
    /\ UNCHANGED <<node, processed, dataPos, undoPos, nSize, nUndoSize, nLastBlockFile, tip, full,
                   doomed, blk, rev, unsynced, coins, history>>

WriteBatchSync ==
    /\ node = "up" /\ step = "index"
    /\ index' = Batch
    /\ dirty' = {} /\ dirtyFiles' = {}
    /\ step' = IF full THEN "unlink" ELSE "idle"
    /\ UNCHANGED <<node, processed, dataPos, undoPos, nSize, nUndoSize, nLastBlockFile, tip, full,
                   doomed, blk, rev, unsynced, coins, history>>

\* UnlinkPrunedFiles deletes a block file and its undo file.
UnlinkPrunedFile(f) ==
    /\ node = "up" /\ step = "unlink"
    /\ f \in doomed
    /\ doomed' = doomed \ {f}
    /\ blk' = [p \in Pos |-> IF p[1] = f THEN None ELSE blk[p]]
    /\ rev' = [p \in Pos |-> IF p[1] = f THEN None ELSE rev[p]]
    /\ unsynced' = Committed(unsynced, f)
    /\ UNCHANGED <<node, memory, step, full, index, coins, history>>

\* The last batches of the coin database, which are not synchronous.
Recent(s) == IF Len(s) > MaxBatch + 1 THEN Tail(s) ELSE s

\* pcoinsTip->Flush(): one batch with the coins and the best block.
FlushCoins ==
    /\ node = "up" /\ step = "unlink"
    /\ doomed = {}
    /\ coins' = IF tip = Last(coins) THEN coins ELSE Recent(Append(coins, tip))
    /\ step' = "idle"
    /\ full' = FALSE
    /\ UNCHANGED <<node, memory, doomed, blk, rev, unsynced, index, history>>

-----------------------------------------------------------------------------
\* Crashes and restarts.

\* What is lost when the node stops: nothing that was written if it is only
\* the process, else any of what was not committed: slots of files, and the
\* last batches of the coin database.
Stops(lost, kept) ==
    /\ node = "up"
    /\ crashes < MaxCrash
    /\ crashes' = crashes + 1
    /\ node' = "down"
    /\ blk' = [p \in Pos |-> IF <<"blk", p>> \in lost THEN None ELSE blk[p]]
    /\ rev' = [p \in Pos |-> IF <<"rev", p>> \in lost THEN None ELSE rev[p]]
    /\ coins' = SubSeq(coins, 1, kept)
    /\ step' = "idle" /\ full' = FALSE /\ doomed' = {}
    /\ UNCHANGED <<memory, index, pruned>>

ProcessCrash == /\ Stops({}, Len(coins))
                /\ UNCHANGED <<unsynced, powerLost>>

PowerLoss(lost, kept) == /\ Stops(lost, kept)
                         /\ unsynced' = {}
                         /\ powerLost' = TRUE

\* The blocks from b back to the genesis block: those in every set that has b
\* and the parents of its blocks.
lineage ==
    [b \in Block |-> {x \in Block : \A S \in SUBSET Block :
                          b \in S /\ (\A y \in S \ {Genesis} : Parent[y] \in S) => x \in S}]

Readable(b) == index.dataPos[b] # None /\ blk[index.dataPos[b]] = b
Undoable(b) == index.undoPos[b] # None /\ rev[index.undoPos[b]] = b

\* The blocks VerifyDB looks at, CheckBlocks below the best one included.
Verified(best) ==
    {b \in lineage[best] \ {Genesis} : nHeight[b] >= nHeight[best] - CheckBlocks}

\* LoadBlockIndexDB finds the files it needs, and the blocks VerifyDB reads and
\* disconnects are there.
LoadsOk(best) ==
    /\ \A b \in Block : index.dataPos[b] # None =>
          \E p \in Pos : p[1] = index.dataPos[b][1] /\ blk[p] # None
    /\ best \in index.processed
    /\ \A b \in Verified(best) : Readable(b) /\ Undoable(b)

\* The node starts with what the databases say.
LoadBlockIndexDB ==
    /\ node = "down"
    /\ node' = IF LoadsOk(Last(coins)) THEN "up" ELSE "corrupt"
    /\ processed' = index.processed
    /\ dataPos' = index.dataPos
    /\ undoPos' = index.undoPos
    /\ nSize' = index.nSize
    /\ nUndoSize' = index.nUndoSize
    /\ nLastBlockFile' = index.last
    /\ dirty' = {} /\ dirtyFiles' = {}
    /\ tip' = Last(coins)
    /\ UNCHANGED <<flush, disk, history>>

-----------------------------------------------------------------------------
Next == \/ \E b \in Hash, f \in File : AcceptBlock(b, f)
        \/ \E b \in Hash : ConnectTip(b)
        \/ DisconnectTip
        \/ \E all \in BOOLEAN, files \in SUBSET File : FlushStateToDisk(all, files)
        \/ FlushBlockFile \/ WriteBatchSync
        \/ \E f \in File : UnlinkPrunedFile(f)
        \/ FlushCoins
        \/ ProcessCrash
        \/ \E lost \in SUBSET unsynced, kept \in 1..Len(coins) : PowerLoss(lost, kept)
        \/ LoadBlockIndexDB

Spec == Init /\ [][Next]_vars

-----------------------------------------------------------------------------
TypeOK == /\ node \in {"up", "down", "corrupt"}
          /\ processed \subseteq Block
          /\ dataPos \in [Block -> Pos \cup {None}]
          /\ undoPos \in [Block -> Pos \cup {None}]
          /\ nSize \in [File -> 0..FileSize]
          /\ nUndoSize \in [File -> 0..FileSize]
          /\ nLastBlockFile \in File
          /\ dirty \subseteq processed
          /\ dirtyFiles \subseteq File
          /\ tip \in Block
          /\ step \in {"idle", "commit", "index", "unlink"}
          /\ full \in BOOLEAN
          /\ doomed \subseteq File
          /\ blk \in [Pos -> Block \cup {None}]
          /\ rev \in [Pos -> Block \cup {None}]
          /\ unsynced \subseteq ({"blk", "rev"} \X Pos)
          /\ index \in Record
          /\ coins \in Seq(Block) /\ coins # <<>>
          /\ crashes \in 0..MaxCrash
          /\ powerLost \in BOOLEAN
          /\ pruned \subseteq Block

\* A block that the node, or a node that would start now, believes to have is
\* in its slot, whatever was lost in crashes, written over since or pruned:
\* "First make sure all block and undo data is flushed to disk"
\* (src/src/main.cpp:2532) holds of the blocks.
BlocksOnDisk ==
    /\ \A b \in Block : index.dataPos[b] # None => blk[index.dataPos[b]] = b
    /\ node = "up" => \A b \in Block : dataPos[b] # None => blk[dataPos[b]] = b

\* So is its undo data, as long as only processes crash: blocks of the active
\* chain can be disconnected.
UndoOnDisk ==
    ~powerLost =>
        /\ \A b \in Block : index.undoPos[b] # None => rev[index.undoPos[b]] = b
        /\ node = "up" => \A b \in Block : undoPos[b] # None => rev[undoPos[b]] = b

\* Whatever best block is found in the coin database, the block index database
\* has it and its ancestors: "Flush the chainstate (which may refer to block
\* index entries)" (src/src/main.cpp:2566).
BestBlockKnown == \A i \in 1..Len(coins) : lineage[coins[i]] \subseteq index.processed

\* A restart fails only after a loss of power, or because VerifyDB looks at a
\* block that was pruned (src/src/main.cpp:3897).
StartsAgain ==
    node = "corrupt" => powerLost \/ Verified(Last(coins)) \cap pruned # {}
=============================================================================
