--------------------------- MODULE ChainStateProofs ---------------------------
(***************************************************************************)
(* What FlushStateToDisk keeps in order, for any tree of blocks, size of   *)
(* the files, number of crashes and depth of pruning: the blocks the index *)
(* names are in their files, their undo data too until power is lost, the  *)
(* best block of the coin database is in the index, and a restart fails    *)
(* only for want of undo data that power loss or pruning took.             *)
(*                                                                         *)
(* None of this is inductive by itself.  A slot is not written twice while *)
(* the database refers to it because the sizes in the database are not     *)
(* above those in memory unless files are being pruned; a block the index  *)
(* names is committed because only the last file can have uncommitted      *)
(* blocks; and the database after a batch is the state in memory, because  *)
(* all that differs is dirty.                                              *)
(***************************************************************************)
EXTENDS ChainState, FiniteSetTheorems, SequenceTheorems, TLAPS

\* The blocks with a position in file f.
In(pos, f) == {b \in Block : pos[b] # None /\ pos[b][1] = f}

\* Conditions on the state in memory and on the one in the database alike.
\* Blocks with data are processed and lie below the end of their file.
BlockSlots(proc, dp, ns) ==
    \A b \in Block : dp[b] # None => b \in proc /\ dp[b][2] <= ns[dp[b][1]]

\* Undo data lies in the undo file of the block's file, below its end.
UndoSlots(dp, up, nu) ==
    \A b \in Block : up[b] # None => /\ dp[b] # None /\ up[b][1] = dp[b][1]
                                     /\ up[b][2] <= nu[up[b][1]]

\* The sizes count what is in the files.
Counted(pos, size) ==
    \A f \in File : /\ size[f] \in 0..FileSize
                    /\ IsFiniteSet(In(pos, f)) /\ Cardinality(In(pos, f)) = size[f]

\* What a file has in the slots.
Intact(dp) == \A b \in Block : dp[b] # None => blk[dp[b]] = b
UndoIntact(up) == powerLost \/ \A b \in Block : up[b] # None => rev[up[b]] = b

\* Processed blocks have data until they are pruned.
HasData(proc, dp) == \A b \in proc \ pruned : dp[b] # None

\* The chain of best is processed and has undo data until it is pruned.
HasChain(proc, up, best) ==
    /\ lineage[best] \subseteq proc
    /\ \A b \in lineage[best] \ {Genesis} : b \notin pruned => up[b] # None
HasChains(proc, up) == \A i \in 1..Len(coins) : HasChain(proc, up, coins[i])

Sound(proc, dp, up, ns, nu) ==
    /\ BlockSlots(proc, dp, ns) /\ UndoSlots(dp, up, nu)
    /\ Counted(dp, ns) /\ Counted(up, nu)
    /\ Intact(dp) /\ UndoIntact(up)
    /\ HasData(proc, dp) /\ HasChains(proc, up)

SoundIndex == Sound(index.processed, index.dataPos, index.undoPos, index.nSize, index.nUndoSize)
SoundMemory == Sound(processed, dataPos, undoPos, nSize, nUndoSize)

\* What memory and the database differ in is dirty.
Tracked ==
    /\ \A b \in Block \ dirty : dataPos[b] = index.dataPos[b] /\ undoPos[b] = index.undoPos[b]
    /\ \A f \in File \ dirtyFiles : nSize[f] = index.nSize[f] /\ nUndoSize[f] = index.nUndoSize[f]
    /\ index.processed \subseteq processed
    /\ processed \ dirty \subseteq index.processed

\* The database is as memory is.
Written ==
    /\ index.processed = processed /\ index.dataPos = dataPos /\ index.undoPos = undoPos
    /\ index.nSize = nSize /\ index.nUndoSize = nUndoSize /\ index.last = nLastBlockFile

\* Files only grow, but for those being pruned.
Growing == \A f \in File : index.nSize[f] <= nSize[f] /\ index.nUndoSize[f] <= nUndoSize[f]

\* Blocks that are not committed are in the last file.
LastFile == \A b \in Block : dataPos[b] # None /\ <<"blk", dataPos[b]>> \in unsynced =>
                                dataPos[b][1] = nLastBlockFile

\* Blocks at dp are committed.
AllCommitted(dp) == \A b \in Block : dp[b] # None => <<"blk", dp[b]>> \notin unsynced

\* The steps of FlushStateToDisk.
Flushing ==
    /\ step = "idle" => ~full
    /\ ~full => doomed = {}
    /\ \A f \in doomed : nSize[f] = 0 /\ nUndoSize[f] = 0

Running ==
    /\ SoundMemory
    /\ HasChain(processed, undoPos, tip)
    /\ Tracked
    /\ step \in {"idle", "unlink"} => Growing
    /\ step = "unlink" => Written
    /\ LastFile
    /\ step = "index" => AllCommitted(dataPos)

ChainInv ==
    /\ TypeOK
    /\ SoundIndex
    /\ AllCommitted(index.dataPos)
    /\ Flushing
    /\ node = "down" => step = "idle"
    /\ node = "up" => Running
    /\ StartsAgain

-----------------------------------------------------------------------------
\* Lineages.

\* A block belongs to its lineage.
LEMMA OwnLineage ==
    ASSUME NEW b \in Block
    PROVE  b \in lineage[b] /\ lineage[b] \subseteq Block
  BY DEF lineage

\* A set of blocks with their parents has the lineage of its blocks.
LEMMA LineageLeast ==
    ASSUME NEW b \in Block, NEW S \in SUBSET Block, b \in S,
           \A y \in S \ {Genesis} : Parent[y] \in S
    PROVE  lineage[b] \subseteq S
  BY DEF lineage

\* A lineage has the parents of its blocks (CBlockIndex::pprev).
LEMMA LineageClosed ==
    ASSUME NEW b \in Block, NEW y \in lineage[b] \ {Genesis}
    PROVE  Parent[y] \in lineage[b]
  <1>1. y \in Block /\ y \in Hash /\ Parent[y] \in Block
    BY TreeAssumption DEF lineage, Block
  <1>2. ASSUME NEW S \in SUBSET Block, b \in S, \A z \in S \ {Genesis} : Parent[z] \in S
        PROVE  Parent[y] \in S
    <2>1. y \in S
      BY <1>2 DEF lineage
    <2> QED BY <2>1, <1>2
  <1> QED BY <1>1, <1>2 DEF lineage

\* Moving the tip by one block changes the chain by that block
\* (CChain::SetTip in ConnectTip and DisconnectTip).
LEMMA LineageParent ==
    ASSUME NEW b \in Hash
    PROVE  /\ lineage[Parent[b]] \subseteq lineage[b]
           /\ lineage[b] \subseteq {b} \cup lineage[Parent[b]]
  <1>1. b \in Block /\ b # Genesis /\ Parent[b] \in Block
    BY TreeAssumption, BlockAssumption DEF Block
  <1>2. lineage[Parent[b]] \subseteq lineage[b]
    <2>1. Parent[b] \in lineage[b] /\ lineage[b] \in SUBSET Block
      BY <1>1, OwnLineage, LineageClosed
    <2>2. \A y \in lineage[b] \ {Genesis} : Parent[y] \in lineage[b]
      BY <1>1, LineageClosed
    <2> QED BY <1>1, <2>1, <2>2, LineageLeast
  <1>3. lineage[b] \subseteq {b} \cup lineage[Parent[b]]
    <2> DEFINE S == {b} \cup lineage[Parent[b]]
    <2>1. S \in SUBSET Block /\ b \in S
      BY <1>1, OwnLineage
    <2>2. \A y \in S \ {Genesis} : Parent[y] \in S
      BY <1>1, LineageClosed, OwnLineage
    <2> HIDE DEF S
    <2>3. lineage[b] \subseteq S
      BY <1>1, <2>1, <2>2, LineageLeast
    <2> QED BY <2>3 DEF S
  <1> QED BY <1>2, <1>3

-----------------------------------------------------------------------------
\* Positions and sizes.

\* A block that gets a position in file f is one more in it (AddToBlock and
\* the undo size in FindUndoPos).
LEMMA CountedMore ==
    ASSUME NEW pos, NEW size, NEW pos2, NEW size2, NEW b \in Block, NEW f \in File, NEW p,
           Counted(pos, size), pos \in [Block -> Pos \cup {None}], size \in [File -> Nat],
           pos[b] = None, p \in Pos, p[1] = f, size[f] < FileSize,
           pos2 = [pos EXCEPT ![b] = p], size2 = [size EXCEPT ![f] = @ + 1]
    PROVE  Counted(pos2, size2)
  <1>1. p # None
    BY BlockAssumption
  <1>2. ASSUME NEW g \in File
        PROVE  /\ size2[g] \in 0..FileSize
               /\ IsFiniteSet(In(pos2, g)) /\ Cardinality(In(pos2, g)) = size2[g]
    <2>1. size[g] \in 0..FileSize /\ IsFiniteSet(In(pos, g)) /\ Cardinality(In(pos, g)) = size[g]
      BY DEF Counted
    <2>2. CASE g = f
      <3>1. In(pos2, f) = In(pos, f) \cup {b} /\ b \notin In(pos, f)
        BY <1>1 DEF In
      <3>2. IsFiniteSet(In(pos, f))
        BY <2>1, <2>2
      <3>3. /\ IsFiniteSet(In(pos, f) \cup {b})
            /\ Cardinality(In(pos, f) \cup {b}) = Cardinality(In(pos, f)) + 1
        BY <3>1, <3>2, FS_AddElement
      <3>4. size2[f] = size[f] + 1
        OBVIOUS
      <3>5. IsFiniteSet(In(pos2, f)) /\ Cardinality(In(pos2, f)) = Cardinality(In(pos, f)) + 1
        BY <3>1, <3>3, Zenon
      <3>6. Cardinality(In(pos, f)) = size[f] /\ size[f] \in 0..FileSize
        BY <2>1, <2>2
      <3> QED BY <2>2, <3>4, <3>5, <3>6, SizeAssumption
    <2>3. CASE g # f
      <3>1. In(pos2, g) = In(pos, g)
        BY <1>1, <2>3 DEF In
      <3>2. size2[g] = size[g]
        BY <2>3
      <3> QED BY <2>1, <3>1, <3>2
    <2> QED BY <2>2, <2>3
  <1> QED BY <1>2 DEF Counted

\* Files that lose all their blocks count none (PruneOneBlockFile).
LEMMA CountedLess ==
    ASSUME NEW pos, NEW size, NEW pos2, NEW size2, NEW files \in SUBSET File,
           Counted(pos, size),
           \A f \in File : In(pos2, f) = IF f \in files THEN {} ELSE In(pos, f),
           \A f \in File : size2[f] = IF f \in files THEN 0 ELSE size[f]
    PROVE  Counted(pos2, size2)
  BY FS_EmptySet, SizeAssumption DEF Counted

\* A position is a slot of a file.
LEMMA Positions ==
    ASSUME NEW p \in Pos
    PROVE  p = <<p[1], p[2]>> /\ p[1] \in File /\ p[2] \in 1..FileSize /\ p # None
  BY BlockAssumption DEF Pos

\* There is room for the undo data of every block in its file: the undo file
\* never has more entries than the block file has blocks.
LEMMA UndoRoom ==
    ASSUME NEW dp, NEW up, NEW ns, NEW nu, NEW b \in Block, NEW f \in File,
           Counted(dp, ns), Counted(up, nu), UndoSlots(dp, up, nu),
           dp[b] # None, dp[b][1] = f, up[b] = None
    PROVE  nu[f] < FileSize /\ nu[f] \in Nat
  <1>1. In(up, f) \subseteq In(dp, f) \ {b} /\ b \in In(dp, f)
    BY DEF In, UndoSlots
  <1>2. /\ IsFiniteSet(In(dp, f)) /\ Cardinality(In(dp, f)) \in 0..FileSize
        /\ Cardinality(In(up, f)) = nu[f] /\ nu[f] \in 0..FileSize
    BY DEF Counted
  <1>3. IsFiniteSet(In(dp, f) \ {b}) /\ Cardinality(In(dp, f) \ {b}) = Cardinality(In(dp, f)) - 1
    BY <1>1, <1>2, FS_RemoveElement
  <1>4. Cardinality(In(up, f)) <= Cardinality(In(dp, f) \ {b})
    BY <1>1, <1>3, FS_Subset
  <1> QED BY <1>2, <1>3, <1>4, SizeAssumption

-----------------------------------------------------------------------------
\* The inductive invariant.

\* It holds when InitBlockIndex has stored the genesis block.
LEMMA ChainInit == Init => ChainInv
  <1> SUFFICES ASSUME Init PROVE ChainInv
    OBVIOUS
  <1> USE DEF Init
  <1>1. <<0, 1>> \in Pos /\ <<0, 1>> # None /\ 0 \in File /\ 1 <= FileSize
    BY SizeAssumption, BlockAssumption DEF Pos, File
  <1>2. TypeOK
    <2>1. coins \in Seq(Block) /\ coins # <<>>
      BY DEF Block
    <2>2. index \in Record
      BY <1>1 DEF Record, Block, File
    <2>3. /\ dataPos \in [Block -> Pos \cup {None}] /\ undoPos \in [Block -> Pos \cup {None}]
          /\ blk \in [Pos -> Block \cup {None}] /\ rev \in [Pos -> Block \cup {None}]
      BY <1>1 DEF Block
    <2>4. nSize \in [File -> 0..FileSize] /\ nUndoSize \in [File -> 0..FileSize]
      BY <1>1, SizeAssumption
    <2>5. crashes \in 0..MaxCrash /\ nLastBlockFile \in File
      BY <1>1, SizeAssumption
    <2>6. /\ processed \subseteq Block /\ dirty \subseteq processed /\ dirtyFiles \subseteq File
          /\ tip \in Block /\ doomed \subseteq File /\ pruned \subseteq Block
          /\ unsynced \subseteq ({"blk", "rev"} \X Pos)
      BY DEF Block
    <2>7. node \in {"up", "down", "corrupt"} /\ step \in {"idle", "commit", "index", "unlink"}
      OBVIOUS
    <2>8. full \in BOOLEAN /\ powerLost \in BOOLEAN
      OBVIOUS
    <2> QED BY <2>1, <2>2, <2>3, <2>4, <2>5, <2>6, <2>7, <2>8, Zenon DEF TypeOK
  <1>3. lineage[Genesis] \subseteq {Genesis}
    BY LineageLeast DEF Block
  <1>4. HasChain(processed, undoPos, Genesis)
    BY <1>3 DEF HasChain
  <1>5. HasChains(processed, undoPos)
    BY <1>4 DEF HasChains
  <1>6. Counted(dataPos, nSize)
    <2> SUFFICES ASSUME NEW f \in File
                 PROVE  /\ nSize[f] \in 0..FileSize
                        /\ IsFiniteSet(In(dataPos, f)) /\ Cardinality(In(dataPos, f)) = nSize[f]
      BY DEF Counted
    <2>1. CASE f = 0
      <3>1. In(dataPos, f) = {Genesis}
        BY <1>1, <2>1 DEF In, Block
      <3>2. IsFiniteSet(In(dataPos, f)) /\ Cardinality(In(dataPos, f)) = 1
        BY <3>1, FS_Singleton, Zenon
      <3> QED BY <1>1, <2>1, <3>2, SizeAssumption
    <2>2. CASE f # 0
      <3>1. In(dataPos, f) = {}
        BY <2>2 DEF In
      <3>2. IsFiniteSet(In(dataPos, f)) /\ Cardinality(In(dataPos, f)) = 0
        BY <3>1, FS_EmptySet, Zenon
      <3> QED BY <1>1, <2>2, <3>2, SizeAssumption
    <2> QED BY <2>1, <2>2
  <1>7. Counted(undoPos, nUndoSize)
    <2>1. \A f \in File : In(undoPos, f) = {}
      BY DEF In
    <2>2. \A f \in File : IsFiniteSet(In(undoPos, f)) /\ Cardinality(In(undoPos, f)) = 0
      BY <2>1, FS_EmptySet, Zenon
    <2> QED BY <2>2, SizeAssumption DEF Counted
  <1>8. SoundMemory
    <2>1. BlockSlots(processed, dataPos, nSize)
      BY <1>1 DEF BlockSlots, Block
    <2>2. UndoSlots(dataPos, undoPos, nUndoSize)
      BY DEF UndoSlots
    <2>3. Intact(dataPos) /\ UndoIntact(undoPos)
      BY <1>1 DEF Intact, UndoIntact
    <2>4. HasData(processed, dataPos)
      BY <1>1 DEF HasData, Block
    <2> QED BY <1>5, <1>6, <1>7, <2>1, <2>2, <2>3, <2>4 DEF SoundMemory, Sound
  <1>9. Written
    BY DEF Written
  <1>10. SoundIndex
    BY <1>8, <1>9 DEF SoundIndex, SoundMemory, Written
  <1>11. AllCommitted(index.dataPos) /\ Flushing /\ LastFile /\ StartsAgain
    BY DEF AllCommitted, Flushing, LastFile, StartsAgain
  <1>12. Tracked /\ Growing
    BY <1>9, <1>1 DEF Tracked, Growing, Written
  <1> QED BY <1>2, <1>4, <1>8, <1>10, <1>11, <1>12 DEF ChainInv, Running

\* What does not change what the database says, the files and the bookkeeping
\* of the flush keeps the database sound.
LEMMA IndexKept ==
    ASSUME SoundIndex, AllCommitted(index.dataPos),
           UNCHANGED <<blk, rev, unsynced, index, coins, powerLost>>, pruned \subseteq pruned'
    PROVE  SoundIndex' /\ AllCommitted(index.dataPos)'
  <1>1. Intact(index.dataPos)' /\ UndoIntact(index.undoPos)' /\ AllCommitted(index.dataPos)'
    BY DEF SoundIndex, Sound, Intact, UndoIntact, AllCommitted
  <1>2. HasData(index.processed, index.dataPos)' /\ HasChains(index.processed, index.undoPos)'
    BY DEF SoundIndex, Sound, HasData, HasChains, HasChain
  <1> QED BY <1>1, <1>2 DEF SoundIndex, Sound, BlockSlots, UndoSlots, Counted, In

\* AcceptBlock writes a new block into a slot that neither memory nor the
\* database refers to.
LEMMA AcceptBlockStep ==
    ASSUME ChainInv, NEW b \in Hash, NEW f \in File, AcceptBlock(b, f)
    PROVE  ChainInv'
  <1> DEFINE p == <<f, nSize[f] + 1>>
  <1>1. /\ node = "up" /\ step = "idle" /\ dataPos[b] = None /\ b \in Block
        /\ nSize[f] \in 0..FileSize /\ nSize[f] < FileSize
    BY DEF AcceptBlock, Ready, FindBlockPos, ChainInv, TypeOK, Block
  <1>2. TypeOK /\ SoundIndex /\ SoundMemory /\ Tracked /\ Growing /\ LastFile /\ Flushing
    BY <1>1 DEF ChainInv, Running
  <1>3. p \in Pos /\ p # None /\ p[1] = f /\ p[2] = nSize[f] + 1
    BY <1>1, BlockAssumption, SizeAssumption DEF Pos
  <1> HIDE DEF p
  <1>4. /\ dataPos' = [dataPos EXCEPT ![b] = p]
        /\ blk' = [blk EXCEPT ![p] = b]
        /\ unsynced' = (IF f = nLastBlockFile THEN unsynced
                        ELSE Committed(unsynced, nLastBlockFile)) \cup {<<"blk", p>>}
        /\ nSize' = [nSize EXCEPT ![f] = @ + 1]
        /\ nLastBlockFile' = f
        /\ processed' = processed \cup {b}
        /\ dirty' = dirty \cup {b}
        /\ dirtyFiles' = dirtyFiles \cup {f}
        /\ UNCHANGED <<node, nUndoSize, tip, step, full, doomed, rev, index, coins, crashes,
                       powerLost, pruned>>
    BY DEF AcceptBlock, p, flush, history
  <1>5. undoPos' = undoPos
    BY <1>1, <1>2 DEF AcceptBlock, SoundMemory, Sound, UndoSlots, TypeOK
  <1>6. \A c \in Block : dataPos[c] # None => dataPos[c] # p
    BY <1>1, <1>2, <1>3 DEF SoundMemory, Sound, BlockSlots, TypeOK
  <1>7. \A c \in Block : index.dataPos[c] # None => index.dataPos[c] # p
    <2>1. index.nSize[f] \in Nat /\ index.nSize[f] <= nSize[f]
      BY <1>2 DEF Growing, TypeOK, Record
    <2> QED BY <1>1, <1>2, <1>3, <2>1 DEF SoundIndex, Sound, BlockSlots
  <1>8. TypeOK'
    <2>1. unsynced' \subseteq ({"blk", "rev"} \X Pos)
      BY <1>2, <1>3, <1>4 DEF TypeOK, Committed
    <2>2. /\ dataPos' \in [Block -> Pos \cup {None}]
          /\ nSize' \in [File -> 0..FileSize]
          /\ blk' \in [Pos -> Block \cup {None}]
      BY <1>1, <1>2, <1>3, <1>4, SizeAssumption DEF TypeOK
    <2>3. processed' \subseteq Block /\ dirty' \subseteq processed' /\ dirtyFiles' \subseteq File
      BY <1>1, <1>2, <1>4 DEF TypeOK
    <2> QED BY <1>2, <1>4, <1>5, <2>1, <2>2, <2>3 DEF TypeOK
  <1>9. SoundIndex'
    <2>1. Intact(index.dataPos)'
      BY <1>2, <1>4, <1>7 DEF SoundIndex, Sound, Intact, TypeOK, Record
    <2>2. UndoIntact(index.undoPos)'
      BY <1>2, <1>4 DEF SoundIndex, Sound, UndoIntact
    <2>3. HasData(index.processed, index.dataPos)' /\ HasChains(index.processed, index.undoPos)'
      BY <1>2, <1>4 DEF SoundIndex, Sound, HasData, HasChains, HasChain
    <2> QED BY <1>2, <1>4, <2>1, <2>2, <2>3
            DEF SoundIndex, Sound, BlockSlots, UndoSlots, Counted, In
  <1>10. AllCommitted(index.dataPos)'
    BY <1>4, <1>7 DEF ChainInv, AllCommitted, Committed
  <1>11. SoundMemory'
    <2>1. BlockSlots(processed, dataPos, nSize)'
      <3>1. ASSUME NEW c \in Block, dataPos'[c] # None
            PROVE  c \in processed' /\ dataPos'[c][2] <= nSize'[dataPos'[c][1]]
        <4>1. CASE c = b
          BY <1>1, <1>2, <1>3, <1>4, <4>1 DEF TypeOK
        <4>2. CASE c # b
          <5>1. dataPos'[c] = dataPos[c] /\ dataPos[c] \in Pos
            BY <1>2, <1>4, <3>1, <4>2 DEF TypeOK
          <5>2. c \in processed /\ dataPos[c][2] <= nSize[dataPos[c][1]]
            BY <1>2, <3>1, <5>1 DEF SoundMemory, Sound, BlockSlots
          <5>3. /\ dataPos[c][1] \in File /\ dataPos[c][2] \in Int
                /\ \A g \in File : nSize'[g] \in Int /\ nSize[g] \in Int /\ nSize[g] <= nSize'[g]
            <6>1. dataPos[c][1] \in File /\ dataPos[c][2] \in Int
              BY <5>1, Positions, SizeAssumption
            <6>2. nSize \in [File -> Nat]
              BY <1>2, SizeAssumption DEF TypeOK
            <6> QED BY <1>4, <6>1, <6>2
          <5> QED BY <1>4, <5>1, <5>2, <5>3
        <4> QED BY <4>1, <4>2
      <3> QED BY <3>1 DEF BlockSlots
    <2>2. UndoSlots(dataPos, undoPos, nUndoSize)'
      BY <1>1, <1>2, <1>4, <1>5 DEF SoundMemory, Sound, UndoSlots, TypeOK
    <2>3. Counted(dataPos', nSize')
      <3>1. Counted(dataPos, nSize) /\ dataPos \in [Block -> Pos \cup {None}] /\ nSize \in [File -> Nat]
        BY <1>2, SizeAssumption DEF SoundMemory, Sound, TypeOK
      <3> QED BY <1>1, <1>3, <1>4, <3>1, CountedMore
    <2>4. Counted(undoPos', nUndoSize')
      BY <1>2, <1>4, <1>5 DEF SoundMemory, Sound
    <2>5. Intact(dataPos)'
      BY <1>2, <1>3, <1>4, <1>6 DEF SoundMemory, Sound, Intact, TypeOK
    <2>6. UndoIntact(undoPos)'
      BY <1>2, <1>4, <1>5 DEF SoundMemory, Sound, UndoIntact
    <2>7. HasData(processed, dataPos)'
      BY <1>1, <1>2, <1>3, <1>4 DEF SoundMemory, Sound, HasData, TypeOK
    <2>8. HasChains(processed, undoPos)'
      BY <1>2, <1>4, <1>5 DEF SoundMemory, Sound, HasChains, HasChain
    <2> QED BY <2>1, <2>2, <2>3, <2>4, <2>5, <2>6, <2>7, <2>8 DEF SoundMemory, Sound
  <1>12. HasChain(processed, undoPos, tip)'
    BY <1>1, <1>4, <1>5 DEF ChainInv, Running, HasChain
  <1>13. Tracked'
    BY <1>2, <1>4, <1>5 DEF Tracked, TypeOK
  <1>14. Growing'
    <2>1. \A g \in File : nSize[g] \in Int /\ nSize'[g] \in Int /\ nSize[g] <= nSize'[g]
      BY <1>2, <1>4, SizeAssumption DEF TypeOK
    <2>2. \A g \in File : index.nSize[g] \in Int
      BY <1>2 DEF TypeOK, Record
    <2> QED BY <1>2, <1>4, <2>1, <2>2 DEF Growing
  <1>15. LastFile'
    BY <1>2, <1>3, <1>4 DEF LastFile, Committed, TypeOK
  <1>16. Flushing'
    BY <1>1, <1>2, <1>4 DEF Flushing
  <1> QED BY <1>1, <1>4, <1>8, <1>9, <1>10, <1>11, <1>12, <1>13, <1>14, <1>15, <1>16
          DEF ChainInv, Running, StartsAgain

\* A step that leaves memory, the files and the database alone keeps memory
\* sound.
LEMMA MemoryKept ==
    ASSUME SoundMemory,
           UNCHANGED <<processed, dataPos, undoPos, nSize, nUndoSize, blk, rev, coins, powerLost,
                       pruned>>
    PROVE  SoundMemory'
  <1>1. Intact(dataPos)' /\ UndoIntact(undoPos)'
    BY DEF SoundMemory, Sound, Intact, UndoIntact
  <1>2. HasData(processed, dataPos)' /\ HasChains(processed, undoPos)'
    BY DEF SoundMemory, Sound, HasData, HasChains, HasChain
  <1> QED BY <1>1, <1>2 DEF SoundMemory, Sound, BlockSlots, UndoSlots, Counted, In

\* ConnectTip of a block whose undo data exists only moves the tip.
LEMMA ConnectAgainStep ==
    ASSUME ChainInv, NEW b \in Hash, ConnectTip(b), undoPos[b] # None
    PROVE  ChainInv'
  <1>1. /\ node = "up" /\ step = "idle" /\ dataPos[b] # None /\ tip = Parent[b] /\ tip' = b
        /\ b \in Block
        /\ UNCHANGED <<node, processed, dataPos, undoPos, nSize, nUndoSize, nLastBlockFile, dirty,
                       dirtyFiles, step, full, doomed, blk, rev, unsynced, index, coins, crashes,
                       powerLost, pruned>>
    BY DEF ConnectTip, Ready, flush, history, Block
  <1>2. TypeOK /\ SoundMemory /\ Tracked /\ Growing /\ LastFile /\ Flushing
    BY <1>1 DEF ChainInv, Running
  <1>3. TypeOK'
    BY <1>1, <1>2 DEF TypeOK
  <1>4. SoundIndex' /\ AllCommitted(index.dataPos)'
    BY <1>1, IndexKept DEF ChainInv
  <1>5. SoundMemory'
    BY <1>1, <1>2, MemoryKept
  <1>6. HasChain(processed, undoPos, tip)'
    <2>1. HasChain(processed, undoPos, tip) /\ b \in processed
      BY <1>1, <1>2 DEF ChainInv, Running, SoundMemory, Sound, BlockSlots
    <2>2. lineage[b] \subseteq {b} \cup lineage[tip]
      BY <1>1, LineageParent
    <2> QED BY <1>1, <2>1, <2>2 DEF HasChain
  <1>7. Tracked' /\ Growing' /\ LastFile' /\ Flushing'
    BY <1>1, <1>2 DEF Tracked, Growing, LastFile, Flushing
  <1> QED BY <1>1, <1>3, <1>4, <1>5, <1>6, <1>7 DEF ChainInv, Running, StartsAgain

\* ConnectTip writes undo data into a slot that neither memory nor the database
\* refers to (WriteUndoDataForBlock's part of ConnectBlock).
LEMMA ConnectTipStep ==
    ASSUME ChainInv, NEW b \in Hash, ConnectTip(b), undoPos[b] = None
    PROVE  ChainInv'
  <1> DEFINE f == dataPos[b][1]
  <1> DEFINE p == <<f, nUndoSize[f] + 1>>
  <1>1. node = "up" /\ step = "idle" /\ dataPos[b] # None /\ tip = Parent[b] /\ b \in Block
    BY DEF ConnectTip, Ready, Block
  <1>2. TypeOK /\ SoundIndex /\ SoundMemory /\ Tracked /\ Growing /\ LastFile /\ Flushing
    BY <1>1 DEF ChainInv, Running
  <1>3. dataPos[b] \in Pos /\ f \in File /\ b \in processed
    BY <1>1, <1>2, Positions DEF TypeOK, SoundMemory, Sound, BlockSlots
  <1>4. nUndoSize[f] < FileSize /\ nUndoSize[f] \in Nat
    BY <1>1, <1>2, <1>3, UndoRoom DEF SoundMemory, Sound
  <1>5. p \in Pos /\ p # None /\ p[1] = f /\ p[2] = nUndoSize[f] + 1
    BY <1>3, <1>4, BlockAssumption, SizeAssumption DEF Pos
  <1>6. /\ undoPos' = [undoPos EXCEPT ![b] = p]
        /\ nUndoSize' = [nUndoSize EXCEPT ![f] = @ + 1]
        /\ rev' = [rev EXCEPT ![p] = b]
        /\ unsynced' = unsynced \cup {<<"rev", p>>}
        /\ dirty' = dirty \cup {b}
        /\ dirtyFiles' = dirtyFiles \cup {f}
        /\ tip' = b
        /\ UNCHANGED <<node, processed, dataPos, nSize, nLastBlockFile, step, full, doomed, blk,
                       index, coins, crashes, powerLost, pruned>>
    BY DEF ConnectTip, flush, history
  <1> HIDE DEF p, f
  <1>7. \A c \in Block : undoPos[c] # None => undoPos[c] # p
    BY <1>4, <1>2, <1>5 DEF SoundMemory, Sound, UndoSlots, TypeOK
  <1>8. \A c \in Block : index.undoPos[c] # None => index.undoPos[c] # p
    <2>1. index.nUndoSize[f] \in Nat /\ index.nUndoSize[f] <= nUndoSize[f]
      BY <1>2, <1>3 DEF Growing, TypeOK, Record
    <2> QED BY <1>2, <1>4, <1>5, <2>1 DEF SoundIndex, Sound, UndoSlots
  <1>9. \A g \in File : nUndoSize[g] \in Int /\ nUndoSize'[g] \in Int /\ nUndoSize[g] <= nUndoSize'[g]
    BY <1>2, <1>6, SizeAssumption DEF TypeOK
  <1>10. TypeOK'
    <2>1. undoPos' \in [Block -> Pos \cup {None}] /\ rev' \in [Pos -> Block \cup {None}]
      BY <1>1, <1>2, <1>5, <1>6 DEF TypeOK
    <2>2. nUndoSize' \in [File -> 0..FileSize]
      BY <1>2, <1>3, <1>4, <1>6, SizeAssumption DEF TypeOK
    <2>3. unsynced' \subseteq ({"blk", "rev"} \X Pos)
      BY <1>2, <1>5, <1>6 DEF TypeOK
    <2>4. dirty' \subseteq processed' /\ dirtyFiles' \subseteq File /\ tip' \in Block
      BY <1>1, <1>2, <1>3, <1>6 DEF TypeOK
    <2> QED BY <1>2, <1>6, <2>1, <2>2, <2>3, <2>4 DEF TypeOK
  <1>11. SoundIndex'
    <2>1. UndoIntact(index.undoPos)'
      BY <1>2, <1>6, <1>8 DEF SoundIndex, Sound, UndoIntact, TypeOK, Record
    <2>2. Intact(index.dataPos)'
      BY <1>2, <1>6 DEF SoundIndex, Sound, Intact
    <2>3. HasData(index.processed, index.dataPos)' /\ HasChains(index.processed, index.undoPos)'
      BY <1>2, <1>6 DEF SoundIndex, Sound, HasData, HasChains, HasChain
    <2> QED BY <1>2, <1>6, <2>1, <2>2, <2>3
            DEF SoundIndex, Sound, BlockSlots, UndoSlots, Counted, In
  <1>12. AllCommitted(index.dataPos)'
    BY <1>6 DEF ChainInv, AllCommitted
  <1>13. SoundMemory'
    <2>1. UndoSlots(dataPos, undoPos, nUndoSize)'
      <3>1. ASSUME NEW c \in Block, undoPos'[c] # None
            PROVE  /\ dataPos'[c] # None /\ undoPos'[c][1] = dataPos'[c][1]
                   /\ undoPos'[c][2] <= nUndoSize'[undoPos'[c][1]]
        <4>1. CASE c = b
          BY <1>1, <1>2, <1>3, <1>4, <1>5, <1>6, <4>1 DEF TypeOK, f
        <4>2. CASE c # b
          <5>1. undoPos'[c] = undoPos[c] /\ undoPos[c] \in Pos
            BY <1>2, <1>6, <3>1, <4>2 DEF TypeOK
          <5>2. /\ dataPos[c] # None /\ undoPos[c][1] = dataPos[c][1]
                /\ undoPos[c][2] <= nUndoSize[undoPos[c][1]]
            BY <1>2, <3>1, <5>1 DEF SoundMemory, Sound, UndoSlots
          <5>3. undoPos[c][1] \in File /\ undoPos[c][2] \in Int
            BY <5>1, Positions
          <5> QED BY <1>6, <1>9, <5>1, <5>2, <5>3
        <4> QED BY <4>1, <4>2
      <3> QED BY <3>1 DEF UndoSlots
    <2>2. Counted(undoPos', nUndoSize')
      <3>1. /\ Counted(undoPos, nUndoSize) /\ undoPos \in [Block -> Pos \cup {None}]
            /\ nUndoSize \in [File -> Nat]
        BY <1>2, SizeAssumption DEF SoundMemory, Sound, TypeOK
      <3> QED BY <1>1, <1>3, <1>4, <1>5, <1>6, <3>1, CountedMore
    <2>3. UndoIntact(undoPos)'
      BY <1>2, <1>5, <1>6, <1>7 DEF SoundMemory, Sound, UndoIntact, TypeOK
    <2>4. HasChains(processed, undoPos)'
      <3>1. \A c \in Block : undoPos[c] # None => undoPos'[c] # None
        BY <1>2, <1>5, <1>6 DEF TypeOK
      <3>2. \A i \in 1..Len(coins) : lineage[coins[i]] \subseteq Block
        BY <1>2, OwnLineage DEF TypeOK
      <3> QED BY <1>2, <1>6, <3>1, <3>2 DEF SoundMemory, Sound, HasChains, HasChain
    <2>5. Intact(dataPos)' /\ HasData(processed, dataPos)'
      BY <1>2, <1>6 DEF SoundMemory, Sound, Intact, HasData
    <2>6. BlockSlots(processed, dataPos, nSize)' /\ Counted(dataPos', nSize')
      BY <1>2, <1>6 DEF SoundMemory, Sound, BlockSlots
    <2> QED BY <2>1, <2>2, <2>3, <2>4, <2>5, <2>6 DEF SoundMemory, Sound
  <1>14. HasChain(processed, undoPos, tip)'
    <2>1. HasChain(processed, undoPos, tip)
      BY <1>1 DEF ChainInv, Running
    <2>2. lineage[b] \subseteq {b} \cup lineage[tip]
      BY <1>1, LineageParent
    <2>3. undoPos'[b] # None /\ \A c \in Block : undoPos[c] # None => undoPos'[c] # None
      BY <1>1, <1>2, <1>5, <1>6 DEF TypeOK
    <2>4. lineage[b] \subseteq Block
      BY <1>1, OwnLineage
    <2> QED BY <1>3, <1>6, <2>1, <2>2, <2>3, <2>4 DEF HasChain
  <1>15. Tracked'
    BY <1>2, <1>6 DEF Tracked, TypeOK
  <1>16. Growing'
    <2>1. \A g \in File : index.nUndoSize[g] \in Int
      BY <1>2 DEF TypeOK, Record
    <2> QED BY <1>2, <1>6, <1>9, <2>1 DEF Growing
  <1>17. LastFile' /\ Flushing'
    BY <1>1, <1>2, <1>6 DEF LastFile, Flushing
  <1> QED BY <1>1, <1>6, <1>10, <1>11, <1>12, <1>13, <1>14, <1>15, <1>16, <1>17
          DEF ChainInv, Running, StartsAgain

\* DisconnectTip leaves blocks and undo data where they are.
LEMMA DisconnectTipStep ==
    ASSUME ChainInv, DisconnectTip
    PROVE  ChainInv'
  <1>1. /\ node = "up" /\ step = "idle" /\ tip # Genesis /\ tip' = Parent[tip]
        /\ UNCHANGED <<node, processed, dataPos, undoPos, nSize, nUndoSize, nLastBlockFile, dirty,
                       dirtyFiles, step, full, doomed, blk, rev, unsynced, index, coins, crashes,
                       powerLost, pruned>>
    BY DEF DisconnectTip, Ready, flush, disk, history
  <1>2. TypeOK /\ SoundMemory /\ Tracked /\ Growing /\ LastFile /\ Flushing
    BY <1>1 DEF ChainInv, Running
  <1>3. tip \in Hash /\ tip' \in Block
    BY <1>1, <1>2, TreeAssumption DEF TypeOK, Block
  <1>4. TypeOK'
    BY <1>1, <1>2, <1>3 DEF TypeOK
  <1>5. SoundIndex' /\ AllCommitted(index.dataPos)'
    BY <1>1, IndexKept DEF ChainInv
  <1>6. SoundMemory'
    BY <1>1, <1>2, MemoryKept
  <1>7. HasChain(processed, undoPos, tip)'
    <2>1. lineage[tip'] \subseteq lineage[tip]
      BY <1>1, <1>3, LineageParent
    <2> QED BY <1>1, <2>1 DEF ChainInv, Running, HasChain
  <1>8. Tracked' /\ Growing' /\ LastFile' /\ Flushing'
    BY <1>1, <1>2 DEF Tracked, Growing, LastFile, Flushing
  <1> QED BY <1>1, <1>4, <1>5, <1>6, <1>7, <1>8 DEF ChainInv, Running, StartsAgain

\* The start of FlushStateToDisk forgets the blocks of the files to prune in
\* memory only: the database still has them.
LEMMA FlushStateStep ==
    ASSUME ChainInv, NEW all \in BOOLEAN, NEW files \in SUBSET File, FlushStateToDisk(all, files)
    PROVE  ChainInv'
  <1> DEFINE gone == {b \in Block : \E f \in files : InFile(b, f)}
  <1>1. /\ node = "up" /\ step = "idle" /\ (files # {} => all)
        /\ dataPos' = [b \in Block |-> IF b \in gone THEN None ELSE dataPos[b]]
        /\ undoPos' = [b \in Block |-> IF b \in gone THEN None ELSE undoPos[b]]
        /\ dirty' = dirty \cup gone
        /\ pruned' = pruned \cup gone
        /\ nSize' = [f \in File |-> IF f \in files THEN 0 ELSE nSize[f]]
        /\ nUndoSize' = [f \in File |-> IF f \in files THEN 0 ELSE nUndoSize[f]]
        /\ dirtyFiles' = dirtyFiles \cup files
        /\ doomed' = files
        /\ full' = all
        /\ step' = "commit"
        /\ UNCHANGED <<node, processed, nLastBlockFile, tip, blk, rev, unsynced, index, coins,
                       crashes, powerLost>>
    BY DEF FlushStateToDisk, Ready, disk
  <1>2. TypeOK /\ SoundMemory /\ Tracked /\ LastFile
    BY <1>1 DEF ChainInv, Running
  <1>3. gone \subseteq Block /\ \A b \in Block : b \in gone <=> dataPos[b] # None /\ dataPos[b][1] \in files
    BY DEF InFile
  <1> HIDE DEF gone
  <1>4. ASSUME NEW b \in Block, dataPos'[b] # None
        PROVE  dataPos'[b] = dataPos[b] /\ dataPos[b][1] \notin files
    BY <1>1, <1>3, <1>4
  <1>5. ASSUME NEW b \in Block, undoPos'[b] # None
        PROVE  /\ undoPos'[b] = undoPos[b] /\ dataPos'[b] = dataPos[b] /\ dataPos[b] # None
               /\ undoPos[b][1] = dataPos[b][1] /\ undoPos[b][1] \notin files
    <2>1. undoPos'[b] = undoPos[b] /\ undoPos[b] # None /\ b \notin gone /\ dataPos'[b] = dataPos[b]
      BY <1>1, <1>5
    <2>2. dataPos[b] # None /\ undoPos[b][1] = dataPos[b][1]
      BY <1>2, <2>1 DEF SoundMemory, Sound, UndoSlots
    <2> QED BY <1>3, <2>1, <2>2
  <1>6. TypeOK'
    <2>1. dataPos' \in [Block -> Pos \cup {None}] /\ undoPos' \in [Block -> Pos \cup {None}]
      BY <1>1, <1>2 DEF TypeOK
    <2>2. nSize' \in [File -> 0..FileSize] /\ nUndoSize' \in [File -> 0..FileSize]
      BY <1>1, <1>2, SizeAssumption DEF TypeOK
    <2>3. gone \subseteq processed
      BY <1>2, <1>3 DEF SoundMemory, Sound, BlockSlots
    <2>4. dirty' \subseteq processed' /\ dirtyFiles' \subseteq File /\ doomed' \subseteq File
          /\ pruned' \subseteq Block /\ step' \in {"idle", "commit", "index", "unlink"}
          /\ full' \in BOOLEAN
      BY <1>1, <1>2, <1>3, <2>3 DEF TypeOK
    <2> QED BY <1>1, <1>2, <2>1, <2>2, <2>4 DEF TypeOK
  <1>7. SoundIndex' /\ AllCommitted(index.dataPos)'
    BY <1>1, IndexKept DEF ChainInv
  <1>8. SoundMemory'
    <2>1. BlockSlots(processed, dataPos, nSize)'
      <3>1. ASSUME NEW b \in Block, dataPos'[b] # None
            PROVE  b \in processed' /\ dataPos'[b][2] <= nSize'[dataPos'[b][1]]
        <4>1. dataPos'[b] = dataPos[b] /\ dataPos[b][1] \notin files /\ dataPos[b][1] \in File
          BY <1>2, <1>4, <3>1, Positions DEF TypeOK
        <4> QED BY <1>1, <1>2, <3>1, <4>1 DEF SoundMemory, Sound, BlockSlots
      <3> QED BY <3>1 DEF BlockSlots
    <2>2. UndoSlots(dataPos, undoPos, nUndoSize)'
      <3>1. ASSUME NEW b \in Block, undoPos'[b] # None
            PROVE  /\ dataPos'[b] # None /\ undoPos'[b][1] = dataPos'[b][1]
                   /\ undoPos'[b][2] <= nUndoSize'[undoPos'[b][1]]
        <4>1. undoPos'[b] = undoPos[b] /\ undoPos[b][1] \notin files /\ undoPos[b][1] \in File
          BY <1>2, <1>5, <3>1, Positions DEF TypeOK
        <4> QED BY <1>1, <1>2, <1>5, <3>1, <4>1 DEF SoundMemory, Sound, UndoSlots
      <3> QED BY <3>1 DEF UndoSlots
    <2>3. Counted(dataPos', nSize')
      <3>1. \A f \in File : In(dataPos', f) = IF f \in files THEN {} ELSE In(dataPos, f)
        BY <1>1, <1>3, <1>4 DEF In
      <3>2. \A f \in File : nSize'[f] = IF f \in files THEN 0 ELSE nSize[f]
        BY <1>1
      <3> QED BY <1>2, <3>1, <3>2, CountedLess DEF SoundMemory, Sound
    <2>4. Counted(undoPos', nUndoSize')
      <3>1. ASSUME NEW f \in File
            PROVE  In(undoPos', f) = IF f \in files THEN {} ELSE In(undoPos, f)
        <4>1. CASE f \in files
          BY <1>5, <4>1 DEF In
        <4>2. CASE f \notin files
          <5>1. \A b \in In(undoPos, f) : b \notin gone
            BY <1>2, <1>3, <4>2 DEF In, SoundMemory, Sound, UndoSlots
          <5>2. \A b \in Block : b \notin gone => undoPos'[b] = undoPos[b]
            BY <1>1
          <5> QED BY <1>5, <4>2, <5>1, <5>2 DEF In
        <4> QED BY <4>1, <4>2
      <3>2. \A f \in File : nUndoSize'[f] = IF f \in files THEN 0 ELSE nUndoSize[f]
        BY <1>1
      <3> QED BY <1>2, <3>1, <3>2, CountedLess DEF SoundMemory, Sound
    <2>5. Intact(dataPos)'
      BY <1>1, <1>2, <1>4 DEF SoundMemory, Sound, Intact
    <2>6. UndoIntact(undoPos)'
      BY <1>1, <1>2, <1>5 DEF SoundMemory, Sound, UndoIntact
    <2>7. HasData(processed, dataPos)'
      BY <1>1, <1>2 DEF SoundMemory, Sound, HasData, TypeOK
    <2>8. HasChains(processed, undoPos)'
      <3>1. \A i \in 1..Len(coins) : lineage[coins[i]] \subseteq Block
        BY <1>2, OwnLineage DEF TypeOK
      <3> QED BY <1>1, <1>2, <3>1 DEF SoundMemory, Sound, HasChains, HasChain
    <2> QED BY <2>1, <2>2, <2>3, <2>4, <2>5, <2>6, <2>7, <2>8 DEF SoundMemory, Sound
  <1>9. HasChain(processed, undoPos, tip)'
    <2>1. lineage[tip] \subseteq Block
      BY <1>2, OwnLineage DEF TypeOK
    <2> QED BY <1>1, <2>1 DEF ChainInv, Running, HasChain
  <1>10. Tracked'
    BY <1>1, <1>2 DEF Tracked, TypeOK
  <1>11. LastFile'
    BY <1>1, <1>2, <1>4 DEF LastFile
  <1>12. Flushing'
    BY <1>1 DEF Flushing
  <1> QED BY <1>1, <1>6, <1>7, <1>8, <1>9, <1>10, <1>11, <1>12
          DEF ChainInv, Running, StartsAgain

\* FlushBlockFile commits the last file, and so every block there is.
LEMMA FlushBlockFileStep ==
    ASSUME ChainInv, FlushBlockFile
    PROVE  ChainInv'
  <1>1. /\ node = "up" /\ step = "commit" /\ step' = "index"
        /\ unsynced' = Committed(unsynced, nLastBlockFile)
        /\ UNCHANGED <<node, processed, dataPos, undoPos, nSize, nUndoSize, nLastBlockFile, dirty,
                       dirtyFiles, tip, full, doomed, blk, rev, index, coins, crashes, powerLost,
                       pruned>>
    BY DEF FlushBlockFile, memory, history
  <1>2. TypeOK /\ SoundMemory /\ Tracked /\ LastFile /\ Flushing
    BY <1>1 DEF ChainInv, Running
  <1>3. unsynced' \subseteq unsynced
    BY <1>1 DEF Committed
  <1>4. TypeOK'
    BY <1>1, <1>2, <1>3 DEF TypeOK
  <1>5. SoundIndex' /\ AllCommitted(index.dataPos)'
    <2>1. Intact(index.dataPos)' /\ UndoIntact(index.undoPos)' /\ AllCommitted(index.dataPos)'
      BY <1>1, <1>3 DEF ChainInv, SoundIndex, Sound, Intact, UndoIntact, AllCommitted
    <2>2. HasData(index.processed, index.dataPos)' /\ HasChains(index.processed, index.undoPos)'
      BY <1>1 DEF ChainInv, SoundIndex, Sound, HasData, HasChains, HasChain
    <2> QED BY <1>1, <2>1, <2>2
            DEF ChainInv, SoundIndex, Sound, BlockSlots, UndoSlots, Counted, In
  <1>6. SoundMemory'
    BY <1>1, <1>2, MemoryKept
  <1>7. HasChain(processed, undoPos, tip)' /\ Tracked' /\ Flushing'
    BY <1>1, <1>2 DEF ChainInv, Running, HasChain, Tracked, Flushing
  <1>8. AllCommitted(dataPos)'
    BY <1>1, <1>2 DEF AllCommitted, LastFile, Committed
  <1>9. LastFile'
    BY <1>1, <1>8 DEF LastFile, AllCommitted
  <1> QED BY <1>1, <1>4, <1>5, <1>6, <1>7, <1>8, <1>9 DEF ChainInv, Running, StartsAgain

\* After WriteBatchSync the database is what memory was: all that differed was
\* dirty.
LEMMA BatchIsMemory ==
    ASSUME TypeOK, Tracked
    PROVE  /\ Batch.processed = processed /\ Batch.dataPos = dataPos /\ Batch.undoPos = undoPos
           /\ Batch.nSize = nSize /\ Batch.nUndoSize = nUndoSize /\ Batch.last = nLastBlockFile
  <1>1. NewDataPos = dataPos /\ NewUndoPos = undoPos
    BY DEF TypeOK, Tracked, NewDataPos, NewUndoPos
  <1>2. NewSizes = nSize /\ NewUndoSizes = nUndoSize
    BY DEF TypeOK, Tracked, NewSizes, NewUndoSizes
  <1>3. index.processed \cup (dirty \cap processed) = processed
    BY DEF TypeOK, Tracked
  <1> QED BY <1>1, <1>2, <1>3 DEF Batch

\* WriteBatchSync makes memory durable, which has no uncommitted block.
LEMMA WriteBatchStep ==
    ASSUME ChainInv, WriteBatchSync
    PROVE  ChainInv'
  <1>1. /\ node = "up" /\ step = "index" /\ index' = Batch /\ dirty' = {} /\ dirtyFiles' = {}
        /\ step' = IF full THEN "unlink" ELSE "idle"
        /\ UNCHANGED <<node, processed, dataPos, undoPos, nSize, nUndoSize, nLastBlockFile, tip,
                       full, doomed, blk, rev, unsynced, coins, crashes, powerLost, pruned>>
    BY DEF WriteBatchSync, history
  <1>2. TypeOK /\ SoundMemory /\ Tracked /\ LastFile /\ Flushing /\ AllCommitted(dataPos)
    BY <1>1 DEF ChainInv, Running
  <1>3. Written'
    BY <1>1, <1>2, BatchIsMemory DEF Written
  <1>4. TypeOK'
    <2>1. index' \in Record
      <3>1. /\ Batch = [processed |-> processed, dataPos |-> dataPos, undoPos |-> undoPos,
                        nSize |-> nSize, nUndoSize |-> nUndoSize, last |-> nLastBlockFile]
        BY <1>2, BatchIsMemory DEF Batch
      <3> QED BY <1>1, <1>2, <3>1, SizeAssumption DEF TypeOK, Record
    <2> QED BY <1>1, <1>2, <2>1 DEF TypeOK
  <1>5. SoundMemory'
    BY <1>1, <1>2, MemoryKept
  <1>6. SoundIndex'
    BY <1>3, <1>5 DEF SoundIndex, SoundMemory, Written
  <1>7. AllCommitted(index.dataPos)'
    BY <1>1, <1>2, <1>3 DEF AllCommitted, Written
  <1>8. HasChain(processed, undoPos, tip)' /\ LastFile' /\ AllCommitted(dataPos)'
    BY <1>1, <1>2 DEF ChainInv, Running, HasChain, LastFile, AllCommitted
  <1>9. Tracked' /\ Growing'
    <2>1. \A f \in File : nSize'[f] \in Int /\ nUndoSize'[f] \in Int
      BY <1>4, SizeAssumption DEF TypeOK
    <2> QED BY <1>3, <2>1 DEF Tracked, Growing, Written
  <1>10. Flushing'
    BY <1>1, <1>2 DEF Flushing
  <1> QED BY <1>1, <1>3, <1>4, <1>5, <1>6, <1>7, <1>8, <1>9, <1>10
          DEF ChainInv, Running, StartsAgain

\* UnlinkPrunedFiles deletes files that neither memory nor the database refers
\* to any more.
LEMMA UnlinkStep ==
    ASSUME ChainInv, NEW f \in File, UnlinkPrunedFile(f)
    PROVE  ChainInv'
  <1>1. /\ node = "up" /\ step = "unlink" /\ f \in doomed /\ doomed' = doomed \ {f}
        /\ blk' = [p \in Pos |-> IF p[1] = f THEN None ELSE blk[p]]
        /\ rev' = [p \in Pos |-> IF p[1] = f THEN None ELSE rev[p]]
        /\ unsynced' = Committed(unsynced, f)
        /\ UNCHANGED <<node, processed, dataPos, undoPos, nSize, nUndoSize, nLastBlockFile, dirty,
                       dirtyFiles, tip, step, full, index, coins, crashes, powerLost, pruned>>
    BY DEF UnlinkPrunedFile, memory, history
  <1>2. TypeOK /\ SoundMemory /\ Tracked /\ Growing /\ Written /\ LastFile /\ Flushing
    BY <1>1 DEF ChainInv, Running
  <1>3. ASSUME NEW b \in Block
        PROVE  /\ dataPos[b] # None => dataPos[b] \in Pos /\ dataPos[b][1] # f
               /\ undoPos[b] # None => undoPos[b] \in Pos /\ undoPos[b][1] # f
    <2>1. nSize[f] = 0 /\ nUndoSize[f] = 0
      BY <1>1, <1>2 DEF Flushing
    <2>2. dataPos[b] # None => dataPos[b] \in Pos /\ dataPos[b][2] \in 1..FileSize
      BY <1>2, Positions DEF TypeOK
    <2>3. undoPos[b] # None => undoPos[b] \in Pos /\ undoPos[b][2] \in 1..FileSize
      BY <1>2, Positions DEF TypeOK
    <2>4. dataPos[b] # None => dataPos[b][2] <= nSize[dataPos[b][1]]
      BY <1>2 DEF SoundMemory, Sound, BlockSlots
    <2>5. undoPos[b] # None => undoPos[b][2] <= nUndoSize[undoPos[b][1]]
      BY <1>2 DEF SoundMemory, Sound, UndoSlots
    <2> QED BY <2>1, <2>2, <2>3, <2>4, <2>5, SizeAssumption
  <1>4. unsynced' \subseteq unsynced
    BY <1>1 DEF Committed
  <1>5. TypeOK'
    <2>1. blk' \in [Pos -> Block \cup {None}] /\ rev' \in [Pos -> Block \cup {None}]
      BY <1>1, <1>2 DEF TypeOK
    <2> QED BY <1>1, <1>2, <1>4, <2>1 DEF TypeOK
  <1>6. SoundMemory'
    <2>1. Intact(dataPos)'
      BY <1>1, <1>2, <1>3 DEF SoundMemory, Sound, Intact
    <2>2. UndoIntact(undoPos)'
      BY <1>1, <1>2, <1>3 DEF SoundMemory, Sound, UndoIntact
    <2>3. HasData(processed, dataPos)' /\ HasChains(processed, undoPos)'
      BY <1>1, <1>2 DEF SoundMemory, Sound, HasData, HasChains, HasChain
    <2> QED BY <1>1, <1>2, <2>1, <2>2, <2>3
            DEF SoundMemory, Sound, BlockSlots, UndoSlots, Counted, In
  <1>7. Written'
    BY <1>1, <1>2 DEF Written
  <1>8. SoundIndex'
    BY <1>6, <1>7 DEF SoundIndex, SoundMemory, Written
  <1>9. AllCommitted(index.dataPos)' /\ LastFile'
    BY <1>1, <1>2, <1>4 DEF ChainInv, AllCommitted, LastFile
  <1>10. HasChain(processed, undoPos, tip)' /\ Tracked' /\ Growing' /\ Flushing'
    BY <1>1, <1>2 DEF ChainInv, Running, HasChain, Tracked, Growing, Flushing
  <1> QED BY <1>1, <1>5, <1>6, <1>7, <1>8, <1>9, <1>10 DEF ChainInv, Running, StartsAgain

\* The batches of the coin database after another: each is an earlier one or
\* the new one.
LEMMA RecentBatches ==
    ASSUME NEW s \in Seq(Block), NEW b \in Block, s # <<>>
    PROVE  /\ Recent(Append(s, b)) \in Seq(Block) /\ Recent(Append(s, b)) # <<>>
           /\ \A i \in 1..Len(Recent(Append(s, b))) :
                 Recent(Append(s, b))[i] = b \/ \E j \in 1..Len(s) : Recent(Append(s, b))[i] = s[j]
  <1> DEFINE r == Append(s, b)
  <1>1. /\ r \in Seq(Block) /\ Len(r) = Len(s) + 1 /\ Len(s) \in Nat /\ Len(s) # 0
        /\ \A i \in 1..Len(s) : r[i] = s[i]
        /\ r[Len(s) + 1] = b
    OBVIOUS
  <1> HIDE DEF r
  <1>2. CASE Len(r) > MaxBatch + 1
    <2>1. Recent(r) = Tail(r)
      BY <1>2 DEF Recent
    <2>2. /\ Tail(r) \in Seq(Block) /\ Len(Tail(r)) = Len(r) - 1
          /\ \A i \in 1..Len(Tail(r)) : Tail(r)[i] = r[i + 1]
      BY <1>1
    <2> QED BY <1>1, <2>1, <2>2 DEF r
  <1>3. CASE ~(Len(r) > MaxBatch + 1)
    <2>1. Recent(r) = r
      BY <1>3 DEF Recent
    <2> QED BY <1>1, <2>1 DEF r
  <1> QED BY <1>2, <1>3

\* The best block is written after the index that has its chain.
LEMMA FlushCoinsStep ==
    ASSUME ChainInv, FlushCoins
    PROVE  ChainInv'
  <1>1. /\ node = "up" /\ step = "unlink" /\ doomed = {} /\ step' = "idle" /\ full' = FALSE
        /\ coins' = IF tip = Last(coins) THEN coins ELSE Recent(Append(coins, tip))
        /\ UNCHANGED <<node, processed, dataPos, undoPos, nSize, nUndoSize, nLastBlockFile, dirty,
                       dirtyFiles, tip, doomed, blk, rev, unsynced, index, crashes, powerLost,
                       pruned>>
    BY DEF FlushCoins, memory, history
  <1>2. /\ TypeOK /\ SoundMemory /\ Tracked /\ Growing /\ Written /\ LastFile /\ Flushing
        /\ HasChain(processed, undoPos, tip)
    BY <1>1 DEF ChainInv, Running
  <1>3. /\ coins' \in Seq(Block) /\ coins' # <<>>
        /\ \A i \in 1..Len(coins') : coins'[i] = tip \/ \E j \in 1..Len(coins) : coins'[i] = coins[j]
    <2>1. coins \in Seq(Block) /\ coins # <<>> /\ tip \in Block
      BY <1>2 DEF TypeOK
    <2>2. CASE tip = Last(coins)
      BY <1>1, <2>1, <2>2
    <2>3. CASE tip # Last(coins)
      <3>1. coins' = Recent(Append(coins, tip))
        BY <1>1, <2>3
      <3> QED BY <2>1, <3>1, RecentBatches
    <2> QED BY <2>2, <2>3
  <1>4. TypeOK'
    <2>1. full' \in BOOLEAN /\ step' \in {"idle", "commit", "index", "unlink"}
      BY <1>1
    <2> QED BY <1>1, <1>2, <1>3, <2>1 DEF TypeOK
  <1>5. SoundMemory'
    <2>1. Intact(dataPos)' /\ UndoIntact(undoPos)'
      BY <1>1, <1>2 DEF SoundMemory, Sound, Intact, UndoIntact
    <2>2. HasData(processed, dataPos)'
      BY <1>1, <1>2 DEF SoundMemory, Sound, HasData
    <2>3. HasChains(processed, undoPos)'
      <3>1. \A j \in 1..Len(coins) : HasChain(processed, undoPos, coins[j])
        BY <1>2 DEF SoundMemory, Sound, HasChains
      <3>2. \A i \in 1..Len(coins') : HasChain(processed, undoPos, coins'[i])
        BY <1>2, <1>3, <3>1
      <3> QED BY <1>1, <3>2 DEF HasChains, HasChain
    <2> QED BY <1>1, <1>2, <2>1, <2>2, <2>3
            DEF SoundMemory, Sound, BlockSlots, UndoSlots, Counted, In
  <1>6. Written'
    BY <1>1, <1>2 DEF Written
  <1>7. SoundIndex'
    BY <1>5, <1>6 DEF SoundIndex, SoundMemory, Written
  <1>8. AllCommitted(index.dataPos)' /\ LastFile'
    BY <1>1, <1>2 DEF ChainInv, AllCommitted, LastFile
  <1>9. HasChain(processed, undoPos, tip)' /\ Tracked' /\ Growing'
    BY <1>1, <1>2 DEF HasChain, Tracked, Growing
  <1>10. Flushing'
    BY <1>1, <1>2 DEF Flushing
  <1> QED BY <1>1, <1>4, <1>5, <1>7, <1>8, <1>9, <1>10 DEF ChainInv, Running, StartsAgain

\* A crash takes nothing that was committed, and no undo data unless power is
\* lost.
LEMMA StopsStep ==
    ASSUME ChainInv, NEW lost \in SUBSET unsynced, NEW kept \in 1..Len(coins), Stops(lost, kept),
           unsynced' \subseteq unsynced, powerLost' \in BOOLEAN,
           powerLost' \/ (lost = {} /\ ~powerLost)
    PROVE  ChainInv'
  <1>1. /\ node = "up" /\ crashes < MaxCrash /\ crashes' = crashes + 1 /\ node' = "down"
        /\ blk' = [p \in Pos |-> IF <<"blk", p>> \in lost THEN None ELSE blk[p]]
        /\ rev' = [p \in Pos |-> IF <<"rev", p>> \in lost THEN None ELSE rev[p]]
        /\ coins' = SubSeq(coins, 1, kept)
        /\ step' = "idle" /\ full' = FALSE /\ doomed' = {}
        /\ UNCHANGED <<processed, dataPos, undoPos, nSize, nUndoSize, nLastBlockFile, dirty,
                       dirtyFiles, tip, index, pruned>>
    BY DEF Stops, memory
  <1>2. TypeOK /\ SoundIndex /\ AllCommitted(index.dataPos)
    BY DEF ChainInv
  <1>3. /\ coins' \in Seq(Block) /\ coins' # <<>> /\ Len(coins') = kept
        /\ \A i \in 1..Len(coins') : i \in 1..Len(coins) /\ coins'[i] = coins[i]
    <2>1. coins \in Seq(Block) /\ Len(coins) \in Nat
      BY <1>2 DEF TypeOK
    <2>2. SubSeq(coins, 1, kept) \in Seq(Block) /\ Len(SubSeq(coins, 1, kept)) = kept
      BY <2>1
    <2>3. \A i \in 1..kept : SubSeq(coins, 1, kept)[i] = coins[i]
      BY <2>1
    <2> QED BY <1>1, <2>1, <2>2, <2>3
  <1>4. TypeOK'
    <2>1. blk' \in [Pos -> Block \cup {None}] /\ rev' \in [Pos -> Block \cup {None}]
      BY <1>1, <1>2 DEF TypeOK
    <2>2. crashes' \in 0..MaxCrash
      BY <1>1, <1>2, SizeAssumption DEF TypeOK
    <2>3. /\ full' \in BOOLEAN /\ step' \in {"idle", "commit", "index", "unlink"}
          /\ node' \in {"up", "down", "corrupt"} /\ doomed' \subseteq File
      BY <1>1
    <2> QED BY <1>1, <1>2, <1>3, <2>1, <2>2, <2>3 DEF TypeOK
  <1>5. SoundIndex'
    <2>1. \A b \in Block : index.dataPos[b] \in Pos \cup {None} /\ index.undoPos[b] \in Pos \cup {None}
      BY <1>2 DEF TypeOK, Record
    <2>2. Intact(index.dataPos)'
      BY <1>1, <1>2, <2>1 DEF SoundIndex, Sound, Intact, AllCommitted
    <2>3. UndoIntact(index.undoPos)'
      BY <1>1, <1>2, <2>1 DEF SoundIndex, Sound, UndoIntact
    <2>4. HasData(index.processed, index.dataPos)'
      BY <1>1, <1>2 DEF SoundIndex, Sound, HasData
    <2>5. HasChains(index.processed, index.undoPos)'
      BY <1>1, <1>2, <1>3 DEF SoundIndex, Sound, HasChains, HasChain
    <2> QED BY <1>1, <1>2, <2>2, <2>3, <2>4, <2>5
            DEF SoundIndex, Sound, BlockSlots, UndoSlots, Counted, In
  <1>6. AllCommitted(index.dataPos)'
    BY <1>1, <1>2 DEF AllCommitted
  <1>7. Flushing' /\ StartsAgain'
    BY <1>1 DEF Flushing, StartsAgain
  <1> QED BY <1>1, <1>4, <1>5, <1>6, <1>7 DEF ChainInv

\* With no power lost, a restart finds what it looks for unless it was pruned
\* (the checks of LoadBlockIndexDB and VerifyDB).
LEMMA LoadsUnpruned ==
    ASSUME TypeOK, SoundIndex, ~powerLost, Verified(Last(coins)) \cap pruned = {}
    PROVE  LoadsOk(Last(coins))
  <1> DEFINE best == Last(coins)
  <1>1. best \in Block /\ HasChain(index.processed, index.undoPos, best)
    <2>1. coins \in Seq(Block) /\ Len(coins) \in 1..Len(coins)
      BY DEF TypeOK
    <2> QED BY <2>1 DEF SoundIndex, Sound, HasChains, Last
  <1>2. \A b \in Block : index.dataPos[b] # None =>
           \E p \in Pos : p[1] = index.dataPos[b][1] /\ blk[p] # None
    <2> SUFFICES ASSUME NEW b \in Block, index.dataPos[b] # None
                 PROVE  \E p \in Pos : p[1] = index.dataPos[b][1] /\ blk[p] # None
      OBVIOUS
    <2>1. index.dataPos[b] \in Pos /\ blk[index.dataPos[b]] = b /\ b # None
      BY BlockAssumption DEF TypeOK, Record, SoundIndex, Sound, Intact
    <2> QED BY <2>1
  <1>3. best \in index.processed
    BY <1>1, OwnLineage DEF HasChain
  <1>4. ASSUME NEW b \in Verified(best)
        PROVE  Readable(b) /\ Undoable(b)
    <2>1. b \in lineage[best] /\ b # Genesis /\ b \notin pruned /\ b \in Block
      BY <1>1, OwnLineage DEF Verified
    <2>2. b \in index.processed /\ index.undoPos[b] # None
      BY <1>1, <2>1 DEF HasChain
    <2>3. index.dataPos[b] # None
      BY <2>1, <2>2 DEF SoundIndex, Sound, HasData
    <2>4. Readable(b)
      BY <2>1, <2>3 DEF Readable, SoundIndex, Sound, Intact
    <2>5. Undoable(b)
      BY <2>1, <2>2 DEF Undoable, SoundIndex, Sound, UndoIntact
    <2> QED BY <2>4, <2>5
  <1> QED BY <1>2, <1>3, <1>4 DEF LoadsOk

\* LoadBlockIndexDB starts from a sound database.
LEMMA LoadStep ==
    ASSUME ChainInv, LoadBlockIndexDB
    PROVE  ChainInv'
  <1>1. /\ node = "down" /\ step = "idle"
        /\ node' = IF LoadsOk(Last(coins)) THEN "up" ELSE "corrupt"
        /\ processed' = index.processed /\ dataPos' = index.dataPos /\ undoPos' = index.undoPos
        /\ nSize' = index.nSize /\ nUndoSize' = index.nUndoSize /\ nLastBlockFile' = index.last
        /\ dirty' = {} /\ dirtyFiles' = {} /\ tip' = Last(coins)
        /\ UNCHANGED <<step, full, doomed, blk, rev, unsynced, index, coins, crashes, powerLost,
                       pruned>>
    BY DEF LoadBlockIndexDB, ChainInv, flush, disk, history
  <1>2. TypeOK /\ SoundIndex /\ AllCommitted(index.dataPos) /\ Flushing /\ doomed = {}
    BY <1>1 DEF ChainInv, Flushing
  <1>3. Len(coins) \in 1..Len(coins) /\ Last(coins) \in Block /\ Last(coins) = coins[Len(coins)]
    BY <1>2 DEF TypeOK, Last
  <1>4. TypeOK'
    <2>1. /\ index.processed \subseteq Block /\ index.dataPos \in [Block -> Pos \cup {None}]
          /\ index.undoPos \in [Block -> Pos \cup {None}] /\ index.last \in File
      BY <1>2 DEF TypeOK, Record
    <2>2. index.nSize \in [File -> 0..FileSize] /\ index.nUndoSize \in [File -> 0..FileSize]
      <3>1. index.nSize \in [File -> Nat] /\ index.nUndoSize \in [File -> Nat]
        BY <1>2 DEF TypeOK, Record
      <3>2. \A f \in File : index.nSize[f] \in 0..FileSize /\ index.nUndoSize[f] \in 0..FileSize
        BY <1>2 DEF SoundIndex, Sound, Counted
      <3> QED BY <3>1, <3>2
    <2>3. node' \in {"up", "down", "corrupt"}
      BY <1>1
    <2> QED BY <1>1, <1>2, <1>3, <2>1, <2>2, <2>3 DEF TypeOK
  <1>5. SoundIndex' /\ AllCommitted(index.dataPos)'
    BY <1>1, <1>2, IndexKept
  <1>6. Written'
    BY <1>1 DEF Written
  <1>7. Running'
    <2>1. SoundMemory'
      BY <1>5, <1>6 DEF SoundIndex, SoundMemory, Written
    <2>2. HasChain(processed, undoPos, tip)'
      BY <1>1, <1>2, <1>3 DEF SoundIndex, Sound, HasChains, HasChain
    <2>3. Tracked' /\ LastFile'
      BY <1>1, <1>2 DEF Tracked, LastFile, AllCommitted
    <2>4. Growing'
      <3>1. \A f \in File : index.nSize[f] \in Int /\ index.nUndoSize[f] \in Int
        BY <1>2 DEF TypeOK, Record
      <3> QED BY <1>1, <3>1 DEF Growing
    <2> QED BY <1>1, <2>1, <2>2, <2>3, <2>4 DEF Running
  <1>8. Flushing'
    BY <1>1, <1>2 DEF Flushing
  <1>9. StartsAgain'
    <2>1. LoadsOk(Last(coins)) \/ powerLost \/ Verified(Last(coins)) \cap pruned # {}
      BY <1>2, LoadsUnpruned
    <2>2. (Verified(Last(coins)) \cap pruned)' = Verified(Last(coins)) \cap pruned
      BY <1>1 DEF Verified, Last
    <2> QED BY <1>1, <2>1, <2>2 DEF StartsAgain
  <1> QED BY <1>1, <1>4, <1>5, <1>7, <1>8, <1>9 DEF ChainInv

\* Every step keeps the invariant.
LEMMA ChainStep == ChainInv /\ [Next]_vars => ChainInv'
  <1> SUFFICES ASSUME ChainInv, [Next]_vars PROVE ChainInv'
    OBVIOUS
  <1>1. ASSUME NEW b \in Hash, NEW f \in File, AcceptBlock(b, f) PROVE ChainInv'
    BY <1>1, AcceptBlockStep
  <1>2. ASSUME NEW b \in Hash, ConnectTip(b) PROVE ChainInv'
    BY <1>2, ConnectAgainStep, ConnectTipStep
  <1>3. CASE DisconnectTip
    BY <1>3, DisconnectTipStep
  <1>4. ASSUME NEW all \in BOOLEAN, NEW files \in SUBSET File, FlushStateToDisk(all, files)
        PROVE  ChainInv'
    BY <1>4, FlushStateStep
  <1>5. CASE FlushBlockFile
    BY <1>5, FlushBlockFileStep
  <1>6. CASE WriteBatchSync
    BY <1>6, WriteBatchStep
  <1>7. ASSUME NEW f \in File, UnlinkPrunedFile(f) PROVE ChainInv'
    BY <1>7, UnlinkStep
  <1>8. CASE FlushCoins
    BY <1>8, FlushCoinsStep
  <1>9. CASE ProcessCrash
    <2>1. {} \in SUBSET unsynced /\ Len(coins) \in 1..Len(coins) /\ powerLost \in BOOLEAN
      BY DEF ChainInv, TypeOK
    <2>2. Stops({}, Len(coins)) /\ unsynced' = unsynced /\ powerLost' = powerLost
      BY <1>9 DEF ProcessCrash
    <2>3. unsynced' \subseteq unsynced /\ powerLost' \in BOOLEAN /\ (powerLost' \/ ~powerLost)
      BY <2>1, <2>2
    <2> QED BY <2>1, <2>2, <2>3, StopsStep
  <1>10. ASSUME NEW lost \in SUBSET unsynced, NEW kept \in 1..Len(coins), PowerLoss(lost, kept)
         PROVE  ChainInv'
    <2>1. Stops(lost, kept) /\ unsynced' \subseteq unsynced /\ powerLost' = TRUE
      BY <1>10 DEF PowerLoss
    <2> QED BY <2>1, StopsStep
  <1>11. CASE LoadBlockIndexDB
    BY <1>11, LoadStep
  <1>12. CASE UNCHANGED vars
    <2>1. UNCHANGED <<node, processed, dataPos, undoPos, nSize, nUndoSize, nLastBlockFile, dirty,
                      dirtyFiles, tip, step, full, doomed, blk, rev, unsynced, index, coins,
                      crashes, powerLost, pruned>>
      BY <1>12 DEF vars, memory, flush, disk, history
    <2>2. TypeOK'
      BY <2>1 DEF ChainInv, TypeOK
    <2>3. SoundIndex' /\ AllCommitted(index.dataPos)'
      BY <2>1, IndexKept DEF ChainInv
    <2>4. node = "up" => Running'
      <3> SUFFICES ASSUME node = "up" PROVE Running'
        OBVIOUS
      <3>1. SoundMemory'
        BY <2>1, MemoryKept DEF ChainInv, Running
      <3> QED BY <2>1, <3>1 DEF ChainInv, Running, HasChain, Tracked, Growing, Written, LastFile,
                                AllCommitted
    <2>5. Flushing' /\ StartsAgain'
      BY <2>1 DEF ChainInv, Flushing, StartsAgain, Verified, Last
    <2> QED BY <2>1, <2>2, <2>3, <2>4, <2>5 DEF ChainInv
  <1> QED BY <1>1, <1>2, <1>3, <1>4, <1>5, <1>6, <1>7, <1>8, <1>9, <1>10, <1>11, <1>12 DEF Next

\* What follows from it.
LEMMA ChainInvImplies ==
    ChainInv => TypeOK /\ BlocksOnDisk /\ UndoOnDisk /\ BestBlockKnown /\ StartsAgain
  <1> SUFFICES ASSUME ChainInv
               PROVE  TypeOK /\ BlocksOnDisk /\ UndoOnDisk /\ BestBlockKnown /\ StartsAgain
    OBVIOUS
  <1>1. SoundIndex /\ (node = "up" => SoundMemory)
    BY DEF ChainInv, Running
  <1>2. BlocksOnDisk
    BY <1>1 DEF BlocksOnDisk, SoundIndex, SoundMemory, Sound, Intact
  <1>3. UndoOnDisk
    BY <1>1 DEF UndoOnDisk, SoundIndex, SoundMemory, Sound, UndoIntact
  <1>4. BestBlockKnown
    BY <1>1 DEF BestBlockKnown, SoundIndex, Sound, HasChains, HasChain
  <1> QED BY <1>2, <1>3, <1>4 DEF ChainInv

-----------------------------------------------------------------------------
\* A block that the node, or a node that would start now, believes to have is
\* in its slot of the block files, for any number of crashes and losses of power
\* between the writes of FlushStateToDisk.
THEOREM BlocksSurvive == Spec => []BlocksOnDisk
  BY ChainInit, ChainStep, ChainInvImplies, PTL DEF Spec

\* So is its undo data, as long as only processes crash: DisconnectBlock finds
\* what ConnectBlock wrote (src/src/main.cpp:2019).
THEOREM UndoSurvives == Spec => []UndoOnDisk
  BY ChainInit, ChainStep, ChainInvImplies, PTL DEF Spec

\* Sizes and positions stay in the bounds of the files (FindBlockPos,
\* FindUndoPos), and what is dirty was received.
THEOREM ChainTyped == Spec => []TypeOK
  BY ChainInit, ChainStep, ChainInvImplies, PTL DEF Spec

\* Whatever batches of the coin database are lost, the block index database has
\* the best block that remains, with all its ancestors: the order of the writes
\* in FlushStateToDisk.
THEOREM BestBlockIndexed == Spec => []BestBlockKnown
  BY ChainInit, ChainStep, ChainInvImplies, PTL DEF Spec

\* LoadBlockIndexDB and VerifyDB fail only after a loss of power, or because
\* VerifyDB is told to look at blocks that were pruned.
THEOREM RestartSucceeds == Spec => []StartsAgain
  BY ChainInit, ChainStep, ChainInvImplies, PTL DEF Spec
=============================================================================
