-------------------------- MODULE DrivechainProofs --------------------------
(***************************************************************************)
(* Proofs about Drivechain, for every set of nodes, deposits, WTs and      *)
(* keys and every bound.                                                   *)
(***************************************************************************)
EXTENDS Drivechain, SequenceTheorems, FiniteSetTheorems, TLAPS

-----------------------------------------------------------------------------
(* Chains. *)

\* The first k blocks of a chain.
LEMMA PrefixProperties ==
    ASSUME NEW c \in Chain, NEW k \in 0..Len(c)
    PROVE  /\ Prefix(c, k) \in Chain
           /\ Len(Prefix(c, k)) = k
           /\ \A i \in 1..k : Prefix(c, k)[i] = c[i]
<1>1. \A i \in 1..k : c[i] \in Block
  BY ElementOfSeq DEF Chain
<1>2. QED BY <1>1, SubSeqProperties DEF Prefix, Chain

\* c agrees with d as far as c goes.
Agrees(c, d) == Len(c) <= Len(d) /\ \A i \in 1..Len(c) : c[i] = d[i]

\* A prefix has the blocks of the chain it is a prefix of.
LEMMA PrefixAgrees ==
    ASSUME NEW c \in Chain, NEW d \in Chain, IsPrefixOf(c, d)
    PROVE  Agrees(c, d)
<1>1. Len(c) \in 0..Len(d)
  BY LenProperties DEF IsPrefixOf, Chain
<1>2. QED BY <1>1, PrefixProperties DEF IsPrefixOf, Agrees

\* A chain that is not a prefix has a tip to disconnect.
LEMMA EmptyIsPrefix ==
    ASSUME NEW c \in Chain, NEW d \in Chain, ~IsPrefixOf(c, d)
    PROVE  Len(c) > 0
<1> SUFFICES ASSUME Len(c) = 0 PROVE FALSE
  BY LenProperties DEF Chain
<1>1. 0 \in 0..Len(d) BY LenProperties DEF Chain
<1>2. Prefix(d, 0) \in Chain /\ Len(Prefix(d, 0)) = 0
  BY <1>1, PrefixProperties
<1>3. c = <<>> /\ Prefix(d, 0) = <<>>
  BY <1>2, EmptySeq DEF Chain
<1>4. QED BY <1>1, <1>3 DEF IsPrefixOf

\* What a chain credits, joins and confirms grows with it.
LEMMA AgreesMonotone ==
    ASSUME NEW c \in Chain, NEW d \in Chain, Agrees(c, d)
    PROVE  /\ Credits(c) \subseteq Credits(d)
           /\ Joins(c) \subseteq Joins(d)
           /\ Wts(c) \subseteq Wts(d)
<1>1. Len(c) \in Nat /\ Len(d) \in Nat
  BY LenProperties DEF Chain
<1>2. 1..Len(c) \subseteq 1..Len(d)
  BY <1>1 DEF Agrees
<1>3. QED BY <1>2 DEF Agrees, Credits, Joins, Wts

\* One more block adds its own objects.
LEMMA ExtendedBy ==
    ASSUME NEW c \in Chain, NEW d \in Chain, Agrees(c, d), Len(d) = Len(c) + 1
    PROVE  /\ Credits(d) = Credits(c) \cup d[Len(d)].credits
           /\ Joins(d) = Joins(c) \cup ({d[Len(d)].join} \ {None})
           /\ Wts(d) = Wts(c) \cup d[Len(d)].wts
<1>1. Len(c) \in Nat /\ Len(d) \in Nat
  BY LenProperties DEF Chain
<1>2. 1..Len(d) = 1..Len(c) \cup {Len(d)}
  BY <1>1
<1>3. \A i \in 1..Len(c) : c[i] = d[i]
  BY DEF Agrees
<1>4. QED BY <1>2, <1>3 DEF Credits, Joins, Wts

-----------------------------------------------------------------------------
(* Types. *)

\* The WT^ that GetWTJoinTX builds from W records is one.
LEMMA WTJoinType ==
    ASSUME TypeOK, NEW n \in Node, NEW h, NEW ws \in SUBSET Wt
    PROVE  WTJoinTX(n, h, ws) \in WTJoined \cup {None}
<1>1. ToJoin(n, h, ws) \subseteq Wt
  BY DEF ToJoin
<1>2. JoinInputs(n, ToJoin(n, h, ws)) \subseteq Deposit
  BY DEF JoinInputs, TypeOK
<1>3. QED BY <1>1, <1>2 DEF WTJoinTX, WTJoined

\* GetWTs returns WTs.
LEMMA RecordsType ==
    ASSUME TypeOK, NEW n \in Node, NEW h
    PROVE  RecordsFor(n, h) \subseteq Wt /\ PendingLookups(n) \subseteq Wt
<1>1. \A g : RecordsFor(n, g) \subseteq Wt
  BY DEF RecordsFor, GetWTs, TypeOK
<1>2. miner[n].records \subseteq Wt
  BY DEF TypeOK, Miner
<1>3. QED BY <1>1, <1>2 DEF PendingLookups

\* Heights are natural numbers.
LEMMA HeightType ==
    ASSUME TypeOK, NEW n \in Node
    PROVE  /\ chain[n] \in Chain /\ Len(chain[n]) \in Nat
           /\ disk[n] \in Chain /\ Len(disk[n]) \in Nat
           /\ target[n] # None => target[n] \in Chain /\ Len(target[n]) \in Nat
           /\ target[n] # chain[n]
           /\ indexed[n] => target[n] # None /\ IsPrefixOf(chain[n], target[n])
<1>1. chain[n] \in Chain /\ disk[n] \in Chain /\ (target[n] # None => target[n] \in Chain)
  BY DEF TypeOK
<1>2. /\ target[n] # chain[n]
      /\ indexed[n] => target[n] # None /\ IsPrefixOf(chain[n], target[n])
  BY DEF TypeOK
<1>3. QED BY <1>1, <1>2, LenProperties DEF Chain

\* A chain that is a prefix of another one is shorter.
LEMMA ProperPrefix ==
    ASSUME NEW c \in Chain, NEW d \in Chain, IsPrefixOf(c, d), c # d
    PROVE  Len(c) < Len(d)
<1>1. Len(c) \in Nat /\ Len(d) \in Nat /\ Len(c) <= Len(d) /\ Len(d) \in 0..Len(d)
  BY LenProperties DEF Chain, IsPrefixOf
<1> SUFFICES ASSUME Len(c) = Len(d) PROVE FALSE
  BY <1>1
<1>2. c = Prefix(d, Len(d)) BY DEF IsPrefixOf
<1>3. \A i \in 1..Len(d) : c[i] = d[i]
  BY <1>1, <1>2, PrefixProperties
<1>4. QED BY <1>3, SeqEqual DEF Chain

\* The fields of a miner have their types.
LEMMA MinerType ==
    ASSUME TypeOK, NEW n \in Node PROVE miner[n] \in Miner
BY DEF TypeOK

\* A miner that keeps what it has read of the deposits or of the W records.
LEMMA MinerReads ==
    ASSUME NEW m \in Miner
    PROVE  /\ \A d \in SUBSET Deposit : [m EXCEPT !.pc = "deposits", !.credits = d] \in Miner
           /\ \A ws \in SUBSET Wt : [m EXCEPT !.pc = "records", !.records = ws] \in Miner
BY DEF Miner

\* A miner that has built its WT^ forgets the records.
LEMMA MinerJoins ==
    ASSUME NEW m \in Miner, NEW j \in WTJoined \cup {None}
    PROVE  [m EXCEPT !.pc = "join", !.height = 0, !.records = {}, !.join = j] \in Miner
BY DEF Miner

\* The work of a chain is a number.
LEMMA ChainWorkType == ASSUME NEW c \in Chain PROVE ChainWork(c) \in Nat
<1>1. CASE c = <<>> BY <1>1 DEF ChainWork
<1>2. CASE c # <<>>
  <2>1. Len(c) \in 1..Len(c) BY <1>2, EmptySeq, LenProperties DEF Chain
  <2>2. c[Len(c)] \in Block BY <2>1, ElementOfSeq DEF Chain
  <2>3. QED BY <1>2, <2>2 DEF ChainWork, Block
<1>3. QED BY <1>1, <1>2

\* A solved template is a block.
LEMMA MinedBlockType ==
    ASSUME TypeOK, NEW n \in Node, NEW w \in Work
    PROVE  MinedBlock(n, w) \in Block
<1>1. /\ miner[n].parent \in Chain /\ miner[n].prev \in Chain
      /\ miner[n].credits \subseteq Deposit /\ miner[n].wts \subseteq Wt
      /\ miner[n].join \in WTJoined \cup {None}
  BY MinerType DEF Miner
<1>2. ChainWork(miner[n].parent) + w \in Nat
  BY <1>1, ChainWorkType, WorkAssumption
<1>3. Replaced(miner[n].prev, miner[n].parent) \subseteq Nat
  BY <1>1, LenProperties DEF Replaced, Chain
<1>4. QED BY <1>1, <1>2, <1>3 DEF MinedBlock, Block

\* A miner that has read nothing is a miner.
LEMMA IdleType == IdleMiner \in Miner
<1>1. <<>> \in Chain BY EmptySeq DEF Chain
<1>2. QED BY <1>1 DEF IdleMiner, Miner

\* What validation does next: the next block of the new chain, and the chain
\* with it.
LEMMA NextBlockType ==
    ASSUME TypeOK, NEW n \in Node, target[n] # None, IsPrefixOf(chain[n], target[n])
    PROVE  /\ NextBlock(n) \in Block
           /\ Len(chain[n]) < Len(target[n])
           /\ Prefix(target[n], Len(chain[n]) + 1) \in Chain
           /\ Len(Prefix(target[n], Len(chain[n]) + 1)) = Len(chain[n]) + 1
           /\ Agrees(Prefix(target[n], Len(chain[n]) + 1), target[n])
           /\ Prefix(target[n], Len(chain[n]) + 1)[Len(chain[n]) + 1] = NextBlock(n)
<1>0. Len(chain[n]) < Len(target[n])
  BY HeightType, ProperPrefix
<1>1. Len(chain[n]) + 1 \in 1..Len(target[n]) /\ target[n] \in Chain
  BY <1>0, HeightType
<1>2. NextBlock(n) \in Block
  BY <1>1, ElementOfSeq DEF NextBlock, Height, Chain
<1>3. QED BY <1>0, <1>1, <1>2, PrefixProperties DEF NextBlock, Height, Agrees

\* Where the switch of a node stands.
Switching(n) == /\ target[n] # chain[n]
                /\ indexed[n] => target[n] # None /\ IsPrefixOf(chain[n], target[n])

\* Steps of one node leave the switches of the others alone.
LEMMA SwitchingFrame ==
    ASSUME TypeOK, NEW n \in Node, Switching(n)',
           \A m \in Node \ {n} : /\ chain'[m] = chain[m] /\ target'[m] = target[m]
                                 /\ indexed'[m] = indexed[m]
    PROVE  \A m \in Node : Switching(m)'
<1>1. \A m \in Node : Switching(m)
  BY DEF TypeOK, Switching
<1>2. QED BY <1>1 DEF Switching

\* All blocks of a chain are the chain.
LEMMA WholePrefix == ASSUME NEW c \in Chain PROVE Prefix(c, Len(c)) = c
<1>1. Len(c) \in 0..Len(c) BY LenProperties DEF Chain
<1>2. QED BY <1>1, PrefixProperties, SeqEqual DEF Chain

\* What is left of the active chain when its tip is disconnected.
LEMMA PopTipType ==
    ASSUME TypeOK, NEW n \in Node, PopTip(n)
    PROVE  /\ Prefix(chain[n], Len(chain[n]) - 1) \in Chain
           /\ Agrees(Prefix(chain[n], Len(chain[n]) - 1), chain[n])
           /\ chain' = [chain EXCEPT ![n] = Prefix(chain[n], Len(chain[n]) - 1)]
           /\ chain'[n] = Prefix(chain[n], Len(chain[n]) - 1)
           /\ chain[n][Len(chain[n])] \in Block
           /\ target'[n] \in {None, target[n]} /\ target'[n] # chain'[n]
           /\ target' = [target EXCEPT ![n] = target'[n]]
           /\ ~indexed[n]
<1> DEFINE k == Len(chain[n]) - 1
           shorter == Prefix(chain[n], k)
<1>1. chain[n] \in Chain /\ target[n] \in Chain /\ ~IsPrefixOf(chain[n], target[n])
  BY HeightType DEF PopTip
<1>2. Len(chain[n]) > 0 /\ k \in 0..Len(chain[n]) /\ Len(chain[n]) \in Nat
  BY <1>1, EmptyIsPrefix, HeightType
<1>3. /\ shorter \in Chain /\ Len(shorter) = k
      /\ \A i \in 1..k : shorter[i] = chain[n][i]
  BY <1>1, <1>2, PrefixProperties
<1>4. Agrees(shorter, chain[n])
  BY <1>2, <1>3 DEF Agrees
<1>5. chain' = [chain EXCEPT ![n] = shorter] /\ chain'[n] = shorter
  BY DEF PopTip, Height, TypeOK
<1>6. chain[n][Len(chain[n])] \in Block
  BY <1>1, <1>2, ElementOfSeq DEF Chain
<1>7. /\ target' = [target EXCEPT ![n] = IF chain'[n] = target[n] THEN None ELSE target[n]]
      /\ target'[n] = IF chain'[n] = target[n] THEN None ELSE target[n]
  BY DEF PopTip, TypeOK
<1>8. shorter # None BY <1>3, NoneAssumption
<1> HIDE DEF k, shorter
<1>9. target'[n] \in {None, target[n]} /\ target'[n] # chain'[n]
  BY <1>5, <1>7, <1>8
<1>10. ~indexed[n] BY <1>1, HeightType
<1>11. QED BY <1>3, <1>4, <1>5, <1>6, <1>7, <1>9, <1>10 DEF k, shorter

\* A switch to a chain, which the code takes from those it knows.
LEMMA SwitchType ==
    ASSUME TypeOK, NEW n \in Node, NEW c \in Chain, Switch(n, c), UNCHANGED chain
    PROVE  /\ target' \in [Node -> Chain \cup {None}]
           /\ indexed' \in [Node -> BOOLEAN]
           /\ \A m \in Node : Switching(m)'
<1>1. /\ target' = [target EXCEPT ![n] = c] /\ c # chain[n]
      /\ indexed' = [indexed EXCEPT ![n] = FALSE]
  BY DEF Switch
<1>2. Switching(n)' BY <1>1 DEF Switching, TypeOK
<1>3. \A m \in Node \ {n} : target'[m] = target[m] /\ indexed'[m] = indexed[m]
  BY <1>1 DEF TypeOK
<1>4. \A m \in Node : Switching(m)'
  BY <1>2, <1>3, SwitchingFrame
<1>5. QED BY <1>1, <1>4 DEF TypeOK

\* A chain without its last blocks, as invalidateblock leaves it.
LEMMA LowerType ==
    ASSUME TypeOK, NEW n \in Node, NEW k \in 0..MaxHeight, k < Height(chain[n])
    PROVE  Prefix(chain[n], k) \in Chain /\ Agrees(Prefix(chain[n], k), chain[n])
<1>1. chain[n] \in Chain /\ k \in 0..Len(chain[n])
  BY HeightType, BoundAssumption DEF Height
<1>2. QED BY <1>1, PrefixProperties, HeightType DEF Agrees

\* A restart goes back to the flushed chain and keeps the types.
LEMMA RestartType ==
    ASSUME TypeOK, NEW n \in Node, Restart(n), crashes' \in Nat
    PROVE  TypeOK'
<1>1. \A m \in Node : Switching(m)'
  <2>1. chain'[n] = disk[n] /\ target'[n] = None /\ disk[n] # None /\ ~indexed'[n]
    BY HeightType, NoneAssumption DEF Restart, TypeOK
  <2>2. \A m \in Node \ {n} : /\ chain'[m] = chain[m] /\ target'[m] = target[m]
                               /\ indexed'[m] = indexed[m]
    BY DEF Restart, TypeOK
  <2>3. QED BY <2>1, <2>2, SwitchingFrame DEF Switching
<1>2. QED BY <1>1, IdleType, HeightType DEF Restart, TypeOK, mainVars, Switching

\* Every step keeps the types.
LEMMA TypeStep == TypeOK /\ [Next]_vars => TypeOK'
<1> SUFFICES ASSUME TypeOK, [Next]_vars PROVE TypeOK'
  OBVIOUS
<1> USE DEF Height
<1>1. ASSUME NEW d \in Deposit, MainchainDeposit(d) PROVE TypeOK'
  BY <1>1 DEF MainchainDeposit, TypeOK, nodeVars, bounds
<1>2. ASSUME NEW n \in Node, NEW w \in Wt, AcceptWithdraw(n, w) PROVE TypeOK'
  BY <1>2 DEF AcceptWithdraw, TypeOK, mainVars, bounds
<1>3. ASSUME NEW n \in Node, NEW c \in Chain, Switch(n, c), UNCHANGED <<chain, depIndex, wtIndex, joinIndex, mempool, disk, deposited, sent, crashes>>,
             UNCHANGED setbacks \/ setbacks' = setbacks + 1,
             miner' \in [Node -> Miner], mined' \subseteq Chain
      PROVE  TypeOK'
  <2>1. setbacks' \in Nat BY <1>3 DEF TypeOK
  <2>2. QED BY <1>3, <2>1, SwitchType DEF TypeOK, Switching
<1>30. ASSUME NEW n \in Node, NEW c \in mined, ReceiveBlock(n, c) \/ FailedStep(n, c) PROVE TypeOK'
  <2>1. c \in Chain /\ mined \subseteq Chain /\ miner \in [Node -> Miner] BY DEF TypeOK
  <2>2. QED BY <1>3, <1>30, <2>1 DEF ReceiveBlock, StartActivate, FailedStep, mainVars, bounds
<1>31. ASSUME NEW n \in Node, NEW k \in 0..MaxHeight, InvalidateBlock(n, k) PROVE TypeOK'
  <2>1. Prefix(chain[n], k) \in Chain BY <1>31, LowerType DEF InvalidateBlock
  <2>2. mined \subseteq Chain /\ miner \in [Node -> Miner] BY DEF TypeOK
  <2>3. QED BY <1>3, <1>31, <2>1, <2>2 DEF InvalidateBlock, mainVars, bounds
<1>4. ASSUME NEW n \in Node, DisconnectTip(n) PROVE TypeOK'
  <2>1. PopTip(n) BY <1>4 DEF DisconnectTip
  <2>2. chain[n][Len(chain[n])].wts \subseteq Wt BY <2>1, PopTipType DEF Block
  <2>3. mempool' \in [Node -> SUBSET Wt]
    BY <1>4, <2>2 DEF DisconnectTip, TypeOK
  <2>4. chain' \in [Node -> Chain] /\ target' \in [Node -> Chain \cup {None}]
    <3>1. chain' \in [Node -> Chain]
      BY <2>1, PopTipType DEF TypeOK
    <3>2. target'[n] \in Chain \cup {None}
      BY <2>1, PopTipType DEF TypeOK
    <3>3. target' = [target EXCEPT ![n] = target'[n]] BY <2>1, PopTipType
    <3>4. QED BY <3>1, <3>2, <3>3 DEF TypeOK
  <2>5. \A m \in Node : Switching(m)'
    <3>1. \A m \in Node \ {n} : target'[m] = target[m] /\ chain'[m] = chain[m]
      BY <2>1 DEF PopTip, TypeOK
    <3>2. UNCHANGED indexed BY <1>4 DEF DisconnectTip
    <3>3. Switching(n)' BY <2>1, <3>2, PopTipType DEF Switching
    <3>4. QED BY <3>1, <3>2, <3>3, SwitchingFrame
  <2>6. QED BY <1>4, <2>3, <2>4, <2>5 DEF DisconnectTip, TypeOK, mainVars, bounds, Switching
<1>5. ASSUME NEW n \in Node, ConnectBlock(n) PROVE TypeOK'
  <2>1. /\ NextBlock(n).credits \subseteq Deposit
        /\ {NextBlock(n).join} \ {None} \subseteq WTJoined
    BY <1>5, NextBlockType DEF ConnectBlock, Block
  <2>2. depIndex' \in [Node -> SUBSET Deposit] /\ joinIndex' \in [Node -> SUBSET WTJoined]
    BY <1>5, <2>1 DEF ConnectBlock, TypeOK
  <2>3. wtIndex' \in [Node -> [Key -> Wt \cup {None}]]
    BY <1>5 DEF ConnectBlock, TypeOK
  <2>4. \A m \in Node : Switching(m)'
    <3>1. Switching(n)' BY <1>5 DEF ConnectBlock, TypeOK, Switching, IsPrefixOf
    <3>2. \A m \in Node \ {n} : indexed'[m] = indexed[m]
      BY <1>5 DEF ConnectBlock, TypeOK
    <3>3. QED BY <1>5, <3>1, <3>2, SwitchingFrame DEF ConnectBlock
  <2>5. QED BY <1>5, <2>2, <2>3, <2>4 DEF ConnectBlock, TypeOK, mainVars, bounds, Switching
<1>6. ASSUME NEW n \in Node, UpdateTip(n) PROVE TypeOK'
  <2> DEFINE new == Prefix(target[n], Len(chain[n]) + 1)
  <2>1. /\ new \in Chain /\ Len(new) = Len(chain[n]) + 1
        /\ target[n] \in Chain /\ Len(chain[n]) < Len(target[n])
        /\ Len(chain[n]) \in Nat /\ Len(target[n]) \in Nat
    BY <1>6, NextBlockType, HeightType DEF UpdateTip
  <2>2. /\ indexed' = [indexed EXCEPT ![n] = FALSE]
        /\ chain' = [chain EXCEPT ![n] = new]
        /\ target' = [target EXCEPT ![n] = IF Len(target[n]) = Len(chain[n]) + 1 THEN None ELSE @]
    BY <1>6 DEF UpdateTip, LastBlock
  <2> HIDE DEF new
  <2>3. chain' \in [Node -> Chain] /\ target' \in [Node -> Chain \cup {None}]
    BY <2>1, <2>2 DEF TypeOK
  <2>4. \A m \in Node : Switching(m)'
    <3>1. chain'[n] = new /\ ~indexed'[n] /\ (target'[n] = None \/ (target'[n] = target[n] /\ Len(target[n]) # Len(chain[n]) + 1))
      BY <2>2 DEF TypeOK
    <3>2. new # None BY <2>1, NoneAssumption
    <3>3. target'[n] # chain'[n] BY <2>1, <3>1, <3>2
    <3>4. \A m \in Node \ {n} : /\ target'[m] = target[m] /\ chain'[m] = chain[m]
                                 /\ indexed'[m] = indexed[m]
      BY <2>2 DEF TypeOK
    <3>5. QED BY <3>1, <3>3, <3>4, SwitchingFrame DEF Switching
  <2>5. miner' \in [Node -> Miner]
    BY <1>6, IdleType DEF UpdateTip, TypeOK
  <2>6. mempool' \in [Node -> SUBSET Wt] /\ indexed' \in [Node -> BOOLEAN]
    BY <1>6 DEF UpdateTip, TypeOK
  <2>7. QED BY <1>6, <2>3, <2>4, <2>5, <2>6 DEF UpdateTip, TypeOK, mainVars, bounds, Switching
<1>7. ASSUME NEW n \in Node, Flush(n) PROVE TypeOK'
  <2> DEFINE flushed == IF indexed[n] THEN Prefix(target[n], Len(chain[n]) + 1) ELSE chain[n]
  <2>1. flushed \in Chain BY <1>7, NextBlockType, HeightType
  <2>2. disk' = [disk EXCEPT ![n] = flushed] BY <1>7 DEF Flush
  <2> HIDE DEF flushed
  <2>3. QED BY <1>7, <2>1, <2>2 DEF Flush, TypeOK, mainVars, bounds
<1>8. ASSUME NEW n \in Node, Crash(n) PROVE TypeOK'
  <2>1. crashes' \in Nat BY <1>8 DEF Crash, TypeOK
  <2>2. QED BY <1>8, <2>1, RestartType DEF Crash
<1>9. ASSUME NEW n \in Node, MinerStart(n) PROVE TypeOK'
  <2>1. [IdleMiner EXCEPT !.pc = "start", !.prev = chain[n]] \in Miner
    BY IdleType, HeightType DEF Miner
  <2>2. QED BY <1>9, <2>1 DEF MinerStart, TypeOK, nodeVars, mainVars, bounds
<1>10. ASSUME NEW n \in Node, GetDepositTX(n) PROVE TypeOK'
  <2>1. PICK answer \in {deposited} \cup (IF RpcFails THEN {{}} ELSE {}) :
            miner' = [miner EXCEPT ![n] = [@ EXCEPT !.pc = "deposits",
                                                    !.credits = NewDeposits(n, answer)]]
    BY <1>10 DEF GetDepositTX
  <2>2. NewDeposits(n, answer) \subseteq Deposit
    BY FlagAssumption DEF NewDeposits, TypeOK
  <2>3. [miner[n] EXCEPT !.pc = "deposits", !.credits = NewDeposits(n, answer)] \in Miner
    BY <2>2, MinerType, MinerReads
  <2>4. QED BY <1>10, <2>1, <2>3 DEF GetDepositTX, TypeOK, nodeVars, mainVars, bounds
<1>11. ASSUME NEW n \in Node, ReadHeight(n) PROVE TypeOK'
  <2>1. [miner[n] EXCEPT !.pc = "height", !.height = Len(chain[n]) + 1] \in Miner
    <3>1. Len(chain[n]) + 1 \in Nat BY HeightType
    <3>2. QED BY <3>1, MinerType DEF Miner
  <2>2. QED BY <1>11, <2>1 DEF ReadHeight, TypeOK, nodeVars, mainVars, bounds
<1>12. ASSUME NEW n \in Node, ReadRecords(n) PROVE TypeOK'
  <2>1. [miner[n] EXCEPT !.pc = "records", !.records = RecordsFor(n, miner[n].height)] \in Miner
    BY RecordsType, MinerType, MinerReads
  <2>2. QED BY <1>12, <2>1 DEF ReadRecords, TypeOK, nodeVars, mainVars, bounds
<1>13. ASSUME NEW n \in Node, GetWTJoinTX(n) PROVE TypeOK'
  <2>1. WTJoinTX(n, miner[n].height, miner[n].records) \in WTJoined \cup {None}
    BY WTJoinType DEF TypeOK, Miner
  <2>2. [miner[n] EXCEPT !.pc = "join", !.height = 0, !.records = {},
                         !.join = WTJoinTX(n, miner[n].height, miner[n].records)] \in Miner
    BY <2>1, MinerType, MinerJoins
  <2>3. QED BY <1>13, <2>2 DEF GetWTJoinTX, TypeOK, nodeVars, mainVars, bounds
<1>14. ASSUME NEW n \in Node, GetWTJoinTXFaults(n) PROVE TypeOK'
  <2>1. crashes' \in Nat BY <1>14 DEF GetWTJoinTXFaults, TypeOK
  <2>2. QED BY <1>14, <2>1, RestartType DEF GetWTJoinTXFaults
<1>15. ASSUME NEW n \in Node, CreateNewBlock(n) PROVE TypeOK'
  <2>1. [miner[n] EXCEPT !.pc = "mining", !.parent = chain[n], !.wts = mempool[n],
                         !.join = IF miner[n].join \in joinIndex[n] THEN None
                                  ELSE miner[n].join] \in Miner
    <3>1. mempool[n] \subseteq Wt BY DEF TypeOK
    <3>2. QED BY <3>1, MinerType, HeightType DEF Miner
  <2>2. sent' \subseteq WTJoined
    BY <1>15 DEF CreateNewBlock, SendWT, TypeOK, Miner
  <2>3. QED BY <1>15, <2>1, <2>2 DEF CreateNewBlock, TypeOK, nodeVars, bounds
<1>16. ASSUME NEW n \in Node, BroadcastFails(n) PROVE TypeOK'
  <2>1. [IdleMiner EXCEPT !.pc = "dead"] \in Miner
    BY IdleType DEF Miner
  <2>2. QED BY <1>16, <2>1 DEF BroadcastFails, TypeOK, nodeVars, mainVars, bounds
<1>17. ASSUME NEW n \in Node, GetBlockTemplate(n) PROVE TypeOK'
  <2>1. [IdleMiner EXCEPT !.pc = "mining", !.prev = chain[n], !.parent = chain[n],
                          !.wts = mempool[n]] \in Miner
    BY IdleType, HeightType DEF Miner, TypeOK
  <2>2. WTJoinTX(n, Len(chain[n]) + 1, PendingLookups(n)) \in WTJoined \cup {None}
    BY WTJoinType, RecordsType
  <2>3. sent' \subseteq WTJoined
    BY <1>17, <2>2 DEF GetBlockTemplate, SendWT, TypeOK
  <2>4. QED BY <1>17, <2>1, <2>3 DEF GetBlockTemplate, TypeOK, nodeVars, bounds
<1>18. ASSUME NEW n \in Node, ProcessBlockFound(n) PROVE TypeOK'
  <2>1. PICK w \in Work : LET c == Append(chain[n], MinedBlock(n, w)) IN
                          StartActivate(n, c) /\ mined' = mined \cup {c}
    BY <1>18 DEF ProcessBlockFound
  <2> DEFINE c == Append(chain[n], MinedBlock(n, w))
  <2>2. c \in Chain BY MinedBlockType, HeightType, AppendProperties DEF Chain
  <2>3. Switch(n, c) /\ mined' = mined \cup {c} BY <2>1 DEF StartActivate
  <2> HIDE DEF c
  <2>4. [IdleMiner EXCEPT !.pc = "submitted"] \in Miner
    BY IdleType DEF Miner
  <2>5. miner' \in [Node -> Miner] /\ mined' \subseteq Chain
    BY <1>18, <2>2, <2>3, <2>4 DEF ProcessBlockFound, TypeOK
  <2>6. QED BY <1>3, <1>18, <2>2, <2>3, <2>5 DEF ProcessBlockFound, mainVars, bounds
<1>19. ASSUME NEW n \in Node, DropTemplate(n) PROVE TypeOK'
  BY <1>19, IdleType DEF DropTemplate, TypeOK, nodeVars, mainVars, bounds
<1>20. CASE UNCHANGED vars
  BY <1>20 DEF vars, nodeVars, mainVars, bounds, TypeOK
<1>21. QED
  BY <1>1, <1>2, <1>3, <1>4, <1>5, <1>6, <1>7, <1>8, <1>9, <1>10, <1>11, <1>12, <1>13,
     <1>14, <1>15, <1>16, <1>17, <1>18, <1>19, <1>20, <1>30, <1>31
     DEF Next, Validate, Mine

-----------------------------------------------------------------------------
(* The index covers the chain. *)

\* The index of n has the objects of block b.
Holds(n, b) == /\ b.credits \subseteq depIndex[n]
               /\ {b.join} \ {None} \subseteq joinIndex[n]
               /\ \A w \in b.wts : RecordedUnder(n, w)

\* The inductive invariant: the index covers the active chain and the chain on
\* disk, and between ConnectBlock and UpdateTip it also has the next block.
IndexOf(n) == /\ Covers(n, chain[n])
              /\ Covers(n, disk[n])
              /\ indexed[n] => Holds(n, NextBlock(n))

IndexInv == \A n \in Node : IndexOf(n)

\* An index that covers a chain covers a shorter one: DisconnectTip.
LEMMA CoversShorter ==
    ASSUME NEW n \in Node, NEW c \in Chain, NEW d \in Chain, Agrees(c, d), Covers(n, d)
    PROVE  Covers(n, c)
BY AgreesMonotone DEF Covers

\* An index that covers a chain and has the next block covers the longer
\* chain: UpdateTip.
LEMMA CoversLonger ==
    ASSUME NEW n \in Node, NEW c \in Chain, NEW d \in Chain, Agrees(c, d),
           Len(d) = Len(c) + 1, Covers(n, c), Holds(n, d[Len(d)])
    PROVE  Covers(n, d)
<1>1. /\ Credits(d) = Credits(c) \cup d[Len(d)].credits
      /\ Joins(d) = Joins(c) \cup ({d[Len(d)].join} \ {None})
      /\ Wts(d) = Wts(c) \cup d[Len(d)].wts
  BY ExtendedBy
<1>2. QED BY <1>1 DEF Covers, Holds

\* Steps that touch neither the chains nor the index of a node.
LEMMA IndexFrame ==
    ASSUME NEW n \in Node, IndexOf(n),
           chain'[n] = chain[n], disk'[n] = disk[n], target'[n] = target[n],
           indexed'[n] = indexed[n], depIndex'[n] = depIndex[n],
           wtIndex'[n] = wtIndex[n], joinIndex'[n] = joinIndex[n]
    PROVE  IndexOf(n)'
BY DEF IndexOf, Covers, Holds, RecordedUnder, NextBlock, Height

\* Steps that leave the index alone and end with nothing half indexed.
LEMMA IndexKept ==
    ASSUME NEW n \in Node, UNCHANGED <<depIndex, wtIndex, joinIndex>>,
           Covers(n, chain'[n]), Covers(n, disk'[n]), ~indexed'[n]
    PROVE  IndexOf(n)'
BY DEF IndexOf, Covers, RecordedUnder

\* The chain with the block that ConnectBlock has indexed: UpdateTip, and a
\* flush before it.
LEMMA CoversNext ==
    ASSUME TypeOK, IndexInv, NEW n \in Node, indexed[n]
    PROVE  Covers(n, Prefix(target[n], Len(chain[n]) + 1))
<1> DEFINE longer == Prefix(target[n], Len(chain[n]) + 1)
<1>1. /\ target[n] # None /\ target[n] \in Chain /\ IsPrefixOf(chain[n], target[n])
      /\ chain[n] \in Chain /\ Len(chain[n]) \in Nat
  BY HeightType
<1>2. /\ longer \in Chain /\ Len(longer) = Len(chain[n]) + 1
      /\ longer[Len(longer)] = NextBlock(n) /\ Agrees(longer, target[n])
  BY <1>1, NextBlockType
<1>3. Holds(n, NextBlock(n)) /\ Covers(n, chain[n])
  BY DEF IndexInv, IndexOf
<1> HIDE DEF longer
<1>4. Agrees(chain[n], longer)
  <2>1. Agrees(chain[n], target[n]) BY <1>1, PrefixAgrees
  <2>2. QED BY <1>1, <1>2, <2>1 DEF Agrees
<1>5. Covers(n, longer) BY <1>1, <1>2, <1>3, <1>4, CoversLonger
<1>6. QED BY <1>5 DEF longer

\* The WTs of a chain are WTs.
LEMMA WtsType == ASSUME NEW c \in Chain PROVE Wts(c) \subseteq Wt
<1>1. \A i \in 1..Len(c) : c[i] \in Block
  BY ElementOfSeq DEF Chain
<1>2. QED BY <1>1 DEF Wts, Block

\* Every step keeps the index invariant.
LEMMA IndexStep == TypeOK /\ IndexInv /\ [Next]_vars => IndexInv'
<1> SUFFICES ASSUME TypeOK, IndexInv, [Next]_vars PROVE IndexInv'
  OBVIOUS
<1> DEFINE frame == <<chain, target, indexed, depIndex, wtIndex, joinIndex, disk>>
<1>1. ASSUME UNCHANGED frame PROVE IndexInv'
  BY <1>1, IndexFrame DEF IndexInv
<1>2. ASSUME NEW n \in Node, UNCHANGED <<depIndex, wtIndex, joinIndex>>,
             Covers(n, chain'[n]), Covers(n, disk'[n]), ~indexed'[n],
             \A m \in Node \ {n} : /\ chain'[m] = chain[m] /\ disk'[m] = disk[m]
                                   /\ target'[m] = target[m] /\ indexed'[m] = indexed[m]
      PROVE  IndexInv'
  <2>1. IndexOf(n)' BY <1>2, IndexKept
  <2>2. ASSUME NEW m \in Node \ {n} PROVE IndexOf(m)'
    BY <1>2, <2>2, IndexFrame DEF IndexInv
  <2>3. QED BY <2>1, <2>2 DEF IndexInv
<1>3. ASSUME NEW n \in Node, NEW c, Switch(n, c), UNCHANGED <<chain, depIndex, wtIndex, joinIndex, disk>>
      PROVE  IndexInv'
  <2>1. Covers(n, chain'[n]) /\ Covers(n, disk'[n])
    BY <1>3 DEF IndexInv, IndexOf
  <2>2. ~indexed'[n]
    BY <1>3 DEF Switch, TypeOK
  <2>3. \A m \in Node \ {n} : target'[m] = target[m] /\ indexed'[m] = indexed[m]
    BY <1>3 DEF Switch, TypeOK
  <2>4. QED BY <1>2, <1>3, <2>1, <2>2, <2>3
<1>4. ASSUME NEW n \in Node, DisconnectTip(n) PROVE IndexInv'
  <2>1. PopTip(n) /\ UNCHANGED <<indexed, depIndex, wtIndex, joinIndex, disk>>
    BY <1>4 DEF DisconnectTip
  <2>2. /\ chain'[n] \in Chain /\ Agrees(chain'[n], chain[n]) /\ ~indexed[n]
        /\ chain[n] \in Chain
    BY <2>1, PopTipType, HeightType
  <2>3. Covers(n, chain'[n]) /\ Covers(n, disk'[n])
    BY <2>1, <2>2, CoversShorter DEF IndexInv, IndexOf
  <2>4. \A m \in Node \ {n} : chain'[m] = chain[m] /\ target'[m] = target[m]
    BY <2>1 DEF PopTip, TypeOK
  <2>5. QED BY <1>2, <2>1, <2>2, <2>3, <2>4
<1>5. ASSUME NEW n \in Node, ConnectBlock(n) PROVE IndexInv'
  <2>1. PICK new \in [Key -> Wt \cup {None}] :
            /\ WriteWTs(wtIndex[n], NextBlock(n).wts, new)
            /\ wtIndex' = [wtIndex EXCEPT ![n] = new]
    BY <1>5 DEF ConnectBlock
  <2>2. /\ depIndex'[n] = depIndex[n] \cup NextBlock(n).credits
        /\ joinIndex'[n] = joinIndex[n] \cup ({NextBlock(n).join} \ {None})
        /\ wtIndex'[n] = new
        /\ \A m \in Node \ {n} : /\ depIndex'[m] = depIndex[m] /\ wtIndex'[m] = wtIndex[m]
                                 /\ joinIndex'[m] = joinIndex[m] /\ indexed'[m] = indexed[m]
        /\ UNCHANGED <<chain, target, disk>>
    BY <1>5, <2>1 DEF ConnectBlock, TypeOK
  <2>3. NextBlock(n) \in Block /\ target[n] # None /\ IsPrefixOf(chain[n], target[n])
    BY <1>5, NextBlockType DEF ConnectBlock
  <2>4. NextBlock(n).wts \subseteq Wt BY <2>3 DEF Block
  <2>5. \A w \in Wt : KeyOf[w] \in Key BY KeyAssumption
  <2>6. ASSUME NEW w \in Wt, RecordedUnder(n, w) \/ w \in NextBlock(n).wts
        PROVE  RecordedUnder(n, w)'
    <3> DEFINE ws == {v \in NextBlock(n).wts : KeyOf[v] = KeyOf[w]}
    <3>1. IF ws = {} THEN new[KeyOf[w]] = wtIndex[n][KeyOf[w]] ELSE new[KeyOf[w]] \in ws
      BY <2>1, <2>5 DEF WriteWTs
    <3>2. CASE ws = {}
      <4>1. RecordedUnder(n, w) BY <2>6, <3>2
      <4>2. QED BY <2>2, <3>1, <3>2, <4>1 DEF RecordedUnder
    <3>3. CASE ws # {}
      BY <2>2, <2>4, <3>1, <3>3 DEF RecordedUnder
    <3>4. QED BY <3>2, <3>3
  <2>8. Covers(n, chain[n])' /\ Covers(n, disk[n])'
    <3>1. Covers(n, chain[n]) /\ Covers(n, disk[n]) BY DEF IndexInv, IndexOf
    <3>2. chain[n] \in Chain /\ disk[n] \in Chain BY HeightType
    <3>3. /\ Credits(chain[n]) \subseteq depIndex'[n] /\ Credits(disk[n]) \subseteq depIndex'[n]
          /\ Joins(chain[n]) \subseteq joinIndex'[n] /\ Joins(disk[n]) \subseteq joinIndex'[n]
      BY <2>2, <3>1 DEF Covers
    <3>4. \A w \in Wts(chain[n]) \cup Wts(disk[n]) : RecordedUnder(n, w)'
      BY <2>6, <3>1, <3>2, WtsType DEF Covers
    <3>5. QED BY <2>2, <3>3, <3>4 DEF Covers
  <2>9. Holds(n, NextBlock(n))'
    <3>1. NextBlock(n)' = NextBlock(n) BY <2>2 DEF NextBlock, Height
    <3>2. QED BY <2>2, <2>4, <2>6, <3>1 DEF Holds
  <2>10. IndexOf(n)' BY <2>8, <2>9 DEF IndexOf
  <2>11. ASSUME NEW m \in Node \ {n} PROVE IndexOf(m)'
    BY <2>2, <2>11, IndexFrame DEF IndexInv
  <2>12. QED BY <2>10, <2>11 DEF IndexInv
<1>6. ASSUME NEW n \in Node, UpdateTip(n) PROVE IndexInv'
  <2> DEFINE longer == Prefix(target[n], Len(chain[n]) + 1)
  <2>1. /\ target[n] # None /\ indexed[n] /\ chain' = [chain EXCEPT ![n] = longer]
        /\ UNCHANGED <<depIndex, wtIndex, joinIndex, disk>>
    BY <1>6 DEF UpdateTip, Height
  <2>2. /\ longer \in Chain /\ Len(longer) = Len(chain[n]) + 1
        /\ Agrees(longer, target[n])
    BY <2>1, HeightType, NextBlockType
  <2>5. Covers(n, longer) BY <2>1, CoversNext
  <2>6. Covers(n, chain'[n]) /\ Covers(n, disk'[n])
    BY <2>1, <2>5 DEF IndexInv, IndexOf, TypeOK
  <2>7. ~indexed'[n]
    BY <1>6 DEF UpdateTip, TypeOK
  <2>8. \A m \in Node \ {n} : /\ chain'[m] = chain[m] /\ target'[m] = target[m]
                              /\ indexed'[m] = indexed[m]
    BY <1>6 DEF UpdateTip, TypeOK
  <2>9. QED BY <1>2, <2>1, <2>6, <2>7, <2>8
<1>7. ASSUME NEW n \in Node, Flush(n) PROVE IndexInv'
  <2> DEFINE flushed == IF indexed[n] THEN Prefix(target[n], Len(chain[n]) + 1) ELSE chain[n]
  <2>1. /\ disk' = [disk EXCEPT ![n] = flushed]
        /\ UNCHANGED <<chain, target, indexed, depIndex, wtIndex, joinIndex>>
    BY <1>7 DEF Flush, Height
  <2>2. Covers(n, flushed)
    <3>1. CASE indexed[n] BY <3>1, CoversNext
    <3>2. CASE ~indexed[n] BY <3>2 DEF IndexInv, IndexOf
    <3>3. QED BY <3>1, <3>2
  <2> HIDE DEF flushed
  <2>3. disk'[n] = flushed /\ \A m \in Node \ {n} : disk'[m] = disk[m] BY <2>1 DEF TypeOK
  <2>4. IndexOf(n)'
    <3>1. Covers(n, disk[n])' BY <2>1, <2>2, <2>3 DEF Covers, RecordedUnder
    <3>2. Covers(n, chain[n])' BY <2>1 DEF IndexInv, IndexOf, Covers, RecordedUnder
    <3>3. (indexed[n] => Holds(n, NextBlock(n)))'
      BY <2>1 DEF IndexInv, IndexOf, Holds, RecordedUnder, NextBlock
    <3>4. QED BY <3>1, <3>2, <3>3 DEF IndexOf
  <2>5. ASSUME NEW m \in Node \ {n} PROVE IndexOf(m)'
    BY <2>1, <2>3, <2>5, IndexFrame DEF IndexInv
  <2>6. QED BY <2>4, <2>5 DEF IndexInv
<1>8. ASSUME NEW n \in Node, Restart(n) PROVE IndexInv'
  <2>1. /\ chain'[n] = disk[n] /\ ~indexed'[n] /\ UNCHANGED <<depIndex, wtIndex, joinIndex, disk>>
        /\ \A m \in Node \ {n} : /\ chain'[m] = chain[m] /\ target'[m] = target[m]
                                 /\ indexed'[m] = indexed[m]
    BY <1>8 DEF Restart, TypeOK
  <2>2. Covers(n, chain'[n]) /\ Covers(n, disk'[n])
    BY <2>1 DEF IndexInv, IndexOf
  <2>3. QED BY <1>2, <2>1, <2>2
<1>9. ASSUME NEW n \in Node, \/ \E c \in mined : ReceiveBlock(n, c) \/ FailedStep(n, c)
                             \/ \E k \in 0..MaxHeight : InvalidateBlock(n, k)
      PROVE  IndexInv'
  BY <1>3, <1>9 DEF ReceiveBlock, StartActivate, FailedStep, InvalidateBlock
<1>10. ASSUME NEW n \in Node, ProcessBlockFound(n) PROVE IndexInv'
  BY <1>3, <1>10 DEF ProcessBlockFound, StartActivate
<1>11. ASSUME NEW n \in Node, Crash(n) \/ GetWTJoinTXFaults(n) PROVE IndexInv'
  BY <1>8, <1>11 DEF Crash, GetWTJoinTXFaults
<1>12. ASSUME NEW n \in Node,
              \/ Mine(n) \/ BroadcastFails(n) \/ DropTemplate(n)
              \/ \E w \in Wt : AcceptWithdraw(n, w)
       PROVE  IndexInv'
  <2>1. UNCHANGED frame
    BY <1>12 DEF Mine, MinerStart, GetDepositTX, ReadHeight, ReadRecords, GetWTJoinTX,
                 CreateNewBlock, GetBlockTemplate, BroadcastFails, DropTemplate,
                 AcceptWithdraw, nodeVars
  <2>2. QED BY <1>1, <2>1
<1>13. ASSUME NEW d \in Deposit, MainchainDeposit(d) PROVE IndexInv'
  BY <1>1, <1>13 DEF MainchainDeposit, nodeVars
<1>14. CASE UNCHANGED vars
  BY <1>1, <1>14 DEF vars, nodeVars
<1>15. QED
  BY <1>4, <1>5, <1>6, <1>7, <1>9, <1>10, <1>11, <1>12, <1>13, <1>14 DEF Next, Validate

\* The genesis block has no objects.
LEMMA InitialChain == <<>> \in Chain /\ Credits(<<>>) = {} /\ Joins(<<>>) = {} /\ Wts(<<>>) = {}
<1>1. <<>> \in Chain /\ 1..Len(<<>>) = {}
  BY EmptySeq, LenProperties DEF Chain
<1>2. QED BY <1>1 DEF Credits, Joins, Wts

\* Types and index at the start.
LEMMA InitType == Init => TypeOK /\ IndexInv
<1> SUFFICES ASSUME Init PROVE TypeOK /\ IndexInv
  OBVIOUS
<1>1. TypeOK
  <2>1. <<>> # None BY InitialChain, NoneAssumption
  <2>2. QED BY <2>1, InitialChain, IdleType DEF Init, TypeOK
<1>2. IndexInv BY InitialChain DEF Init, IndexInv, IndexOf, Covers
<1>3. QED BY <1>1, <1>2

\* The index of every node always has every object of its active chain and of
\* the chain a restart returns to, whatever interleaving of mining, validation,
\* reorganisations and crashes: ConnectBlock writes the batch before the tip
\* moves and nothing is ever removed.
THEOREM IndexCovers == Spec => [](TypeOK /\ IndexCoversChain)
<1>1. Init => TypeOK /\ IndexInv
  BY InitType
<1>2. TypeOK /\ IndexInv /\ [Next]_vars => TypeOK' /\ IndexInv'
  BY TypeStep, IndexStep
<1>3. TypeOK /\ IndexInv => TypeOK /\ IndexCoversChain
  BY DEF IndexInv, IndexOf, IndexCoversChain
<1>4. QED BY <1>1, <1>2, <1>3, PTL DEF Spec

-----------------------------------------------------------------------------
(* A deposit is credited twice only by reorganisation. *)

\* A chain that stops earlier repeats no more credits.
LEMMA RepeatsShorter ==
    ASSUME NEW c \in Chain, NEW d \in Chain, Agrees(c, d), RepeatsReplaced(d)
    PROVE  RepeatsReplaced(c)
<1>1. Len(c) \in Nat /\ Len(d) \in Nat
  BY LenProperties DEF Chain
<1>2. 1..Len(c) \subseteq 1..Len(d)
  BY <1>1 DEF Agrees
<1>3. QED BY <1>2 DEF Agrees, RepeatsReplaced

\* A block that Replaced does not name is the same in both chains.
LEMMA KeptBlock ==
    ASSUME NEW c \in Chain, NEW d \in Chain, NEW i \in 1..Len(c), i \notin Replaced(c, d)
    PROVE  i \in 1..Len(d) /\ c[i] = d[i]
<1>1. i <= Len(d) /\ Prefix(c, i) = Prefix(d, i)
  BY DEF Replaced
<1>2. Len(c) \in Nat /\ Len(d) \in Nat
  BY LenProperties DEF Chain
<1>3. i \in 0..Len(c) /\ i \in 0..Len(d) /\ i \in 1..i /\ i \in 1..Len(d)
  BY <1>1, <1>2
<1>4. Prefix(c, i)[i] = c[i] /\ Prefix(d, i)[i] = d[i]
  BY <1>3, PrefixProperties
<1>5. QED BY <1>1, <1>3, <1>4

\* What a miner has read of the deposits: once it has read the tip, the index
\* has all that this tip's chain credits; the deposits it means to credit are
\* none of those.
ReadsNew(n) ==
    /\ miner[n].pc = "start" => Credits(miner[n].prev) \subseteq depIndex[n]
    /\ miner[n].pc \in {"deposits", "height", "records", "join", "mining"}
          => miner[n].credits \cap Credits(miner[n].prev) = {}

CreditOf(n) == /\ RepeatsReplaced(chain[n])
               /\ RepeatsReplaced(disk[n])
               /\ target[n] # None => RepeatsReplaced(target[n])
               /\ ReadsNew(n)

CreditInv == /\ \A n \in Node : CreditOf(n)
             /\ \A c \in mined : RepeatsReplaced(c)

\* Steps that change neither the chains nor the miner of a node, and forget
\* nothing that its index has.
LEMMA CreditFrame ==
    ASSUME NEW n \in Node, CreditOf(n), chain'[n] = chain[n], disk'[n] = disk[n],
           target'[n] = target[n], miner'[n] = miner[n], depIndex[n] \subseteq depIndex'[n]
    PROVE  CreditOf(n)'
BY DEF CreditOf, ReadsNew

\* The block of a template that carries the height of its parent credits again
\* only what blocks credit that replaced others its miner had read.
LEMMA FoundRepeats ==
    ASSUME EnforceBIP34 = TRUE, TypeOK, NEW n \in Node, NEW w \in Work, ReadsNew(n),
           miner[n].pc = "mining", CoinbaseHeightOk(n), RepeatsReplaced(miner[n].parent)
    PROVE  RepeatsReplaced(Append(miner[n].parent, MinedBlock(n, w)))
<1> DEFINE p == miner[n].parent
           r == miner[n].prev
           b == MinedBlock(n, w)
           c == Append(p, b)
<1>1. p \in Chain /\ r \in Chain /\ b \in Block
  BY MinerType, MinedBlockType DEF Miner
<1>2. Len(r) = Len(p) /\ Len(p) \in Nat
  BY <1>1, LenProperties DEF CoinbaseHeightOk, Height, Chain
<1>3. b.credits \cap Credits(r) = {} /\ b.replaced = Replaced(r, p)
  BY DEF ReadsNew, MinedBlock
<1>4. RepeatsReplaced(p) OBVIOUS
<1> HIDE DEF p, r, b
<1>5. /\ Len(c) = Len(p) + 1 /\ c[Len(p) + 1] = b
      /\ \A i \in 1..Len(p) : c[i] = p[i]
  BY <1>1, AppendProperties DEF Chain
<1> HIDE DEF c
<1>6. SUFFICES ASSUME NEW i \in 1..Len(c), NEW j \in 1..Len(c), i < j,
                      c[i].credits \cap c[j].credits # {}
               PROVE  i \in c[j].replaced
  BY DEF RepeatsReplaced, c, p, b
<1>7. i \in 1..Len(p) /\ (j \in 1..Len(p) \/ j = Len(p) + 1)
  BY <1>2, <1>5, <1>6
<1>8. CASE j \in 1..Len(p)
  BY <1>4, <1>5, <1>6, <1>7, <1>8 DEF RepeatsReplaced
<1>9. CASE j = Len(p) + 1
  <2> SUFFICES ASSUME i \notin Replaced(r, p) PROVE FALSE
    BY <1>3, <1>5, <1>9
  <2>1. i \in 1..Len(r) /\ r[i] = p[i]
    BY <1>1, <1>2, <1>7, KeptBlock
  <2>2. r[i].credits \subseteq Credits(r) BY <2>1 DEF Credits
  <2>3. c[i] = r[i] /\ c[j] = b BY <1>5, <1>7, <1>9, <2>1
  <2>4. QED BY <1>3, <1>6, <2>2, <2>3
<1>10. QED BY <1>7, <1>8, <1>9

\* Every step keeps it so, if the coinbase height is checked.
LEMMA CreditStep ==
    ASSUME EnforceBIP34 = TRUE
    PROVE  TypeOK /\ IndexInv /\ CreditInv /\ [Next]_vars => CreditInv'
<1> SUFFICES ASSUME TypeOK, IndexInv, CreditInv, [Next]_vars PROVE CreditInv'
  OBVIOUS
<1> USE DEF Height
\* Only the steps of n itself have to be looked at.
<1>1. ASSUME NEW n \in Node, CreditOf(n)', UNCHANGED mined,
             \A m \in Node \ {n} : /\ chain'[m] = chain[m] /\ disk'[m] = disk[m]
                                   /\ target'[m] = target[m] /\ miner'[m] = miner[m]
                                   /\ depIndex'[m] = depIndex[m]
      PROVE  CreditInv'
  <2>1. ASSUME NEW m \in Node \ {n} PROVE CreditOf(m)'
    BY <1>1, <2>1, CreditFrame DEF CreditInv
  <2>2. QED BY <1>1, <2>1 DEF CreditInv
<1>2. ASSUME UNCHANGED <<chain, disk, target, miner, depIndex, mined>> PROVE CreditInv'
  BY <1>2, CreditFrame DEF CreditInv
\* Steps of a miner.
<1>3. ASSUME NEW n \in Node, NEW new \in Miner, miner' = [miner EXCEPT ![n] = new],
             UNCHANGED <<nodeVars, mined>>, ReadsNew(n)'
      PROVE  CreditInv'
  <2>1. UNCHANGED <<chain, disk, target, depIndex>> BY <1>3 DEF nodeVars
  <2>2. CreditOf(n)' BY <1>3, <2>1 DEF CreditInv, CreditOf
  <2>3. QED BY <1>1, <1>3, <2>1, <2>2 DEF TypeOK
<1>4. ASSUME NEW n \in Node, NEW new \in Miner, miner' = [miner EXCEPT ![n] = new],
             UNCHANGED <<nodeVars, mined>>, new.pc \in {"idle", "dead"}
      PROVE  CreditInv'
  <2>1. miner'[n] = new BY <1>4 DEF TypeOK
  <2>2. ReadsNew(n)' BY <1>4, <2>1 DEF ReadsNew
  <2>3. QED BY <1>3, <1>4, <2>2
<1>5. ASSUME NEW n \in Node, MinerStart(n) PROVE CreditInv'
  <2> DEFINE new == [IdleMiner EXCEPT !.pc = "start", !.prev = chain[n]]
  <2>1. new \in Miner /\ new.pc = "start" /\ new.prev = chain[n]
    BY IdleType, HeightType DEF Miner
  <2>2. miner' = [miner EXCEPT ![n] = new] /\ UNCHANGED <<nodeVars, mined>> /\ miner'[n] = new
    BY <1>5 DEF MinerStart, TypeOK
  <2> HIDE DEF new
  <2>3. Credits(chain[n]) \subseteq depIndex[n] BY DEF IndexInv, IndexOf, Covers
  <2>4. ReadsNew(n)' BY <2>1, <2>2, <2>3 DEF ReadsNew, nodeVars
  <2>5. QED BY <1>3, <2>1, <2>2, <2>4
<1>6. ASSUME NEW n \in Node, GetDepositTX(n) PROVE CreditInv'
  <2>1. PICK answer \in {deposited} \cup (IF RpcFails THEN {{}} ELSE {}) :
            miner' = [miner EXCEPT ![n] = [@ EXCEPT !.pc = "deposits",
                                                    !.credits = NewDeposits(n, answer)]]
    BY <1>6 DEF GetDepositTX
  <2> DEFINE new == [miner[n] EXCEPT !.pc = "deposits", !.credits = NewDeposits(n, answer)]
  <2>2. NewDeposits(n, answer) \subseteq Deposit
    BY FlagAssumption DEF NewDeposits, TypeOK
  <2>3. /\ new \in Miner /\ new.pc = "deposits" /\ new.prev = miner[n].prev
        /\ new.credits = NewDeposits(n, answer)
    BY <2>2, MinerType DEF Miner
  <2>4. miner' = [miner EXCEPT ![n] = new] /\ UNCHANGED <<nodeVars, mined>> /\ miner'[n] = new
    BY <1>6, <2>1 DEF GetDepositTX, TypeOK
  <2> HIDE DEF new
  <2>5. Credits(miner[n].prev) \subseteq depIndex[n]
    BY <1>6 DEF CreditInv, CreditOf, ReadsNew, GetDepositTX
  <2>6. ReadsNew(n)' BY <2>3, <2>4, <2>5 DEF ReadsNew, NewDeposits
  <2>7. QED BY <1>3, <2>3, <2>4, <2>6
\* The reads that follow change neither what is credited nor prev.
<1>7. ASSUME NEW n \in Node, NEW new \in Miner, miner' = [miner EXCEPT ![n] = new],
             UNCHANGED <<nodeVars, mined>>,
             miner[n].pc \in {"deposits", "height", "records", "join"},
             new.pc \in {"height", "records", "join", "mining"}, new.prev = miner[n].prev,
             new.credits = miner[n].credits
      PROVE  CreditInv'
  <2>1. miner'[n] = new BY <1>7 DEF TypeOK
  <2>2. ReadsNew(n) BY DEF CreditInv, CreditOf
  <2>3. ReadsNew(n)' BY <1>7, <2>1, <2>2 DEF ReadsNew
  <2>4. QED BY <1>3, <1>7, <2>3
<1>8. ASSUME NEW n \in Node, ReadHeight(n) PROVE CreditInv'
  <2> DEFINE new == [miner[n] EXCEPT !.pc = "height", !.height = Len(chain[n]) + 1]
  <2>1. Len(chain[n]) + 1 \in Nat BY HeightType
  <2>2. /\ new \in Miner /\ new.pc = "height" /\ new.prev = miner[n].prev
        /\ new.credits = miner[n].credits
    BY <2>1, MinerType DEF Miner
  <2>3. /\ miner' = [miner EXCEPT ![n] = new] /\ UNCHANGED <<nodeVars, mined>>
        /\ miner[n].pc = "deposits"
    BY <1>8 DEF ReadHeight
  <2>4. QED BY <1>7, <2>2, <2>3
<1>9. ASSUME NEW n \in Node, ReadRecords(n) PROVE CreditInv'
  <2> DEFINE new == [miner[n] EXCEPT !.pc = "records",
                                     !.records = RecordsFor(n, miner[n].height)]
  <2>1. RecordsFor(n, miner[n].height) \subseteq Wt BY RecordsType
  <2>2. /\ new \in Miner /\ new.pc = "records" /\ new.prev = miner[n].prev
        /\ new.credits = miner[n].credits
    BY <2>1, MinerType DEF Miner
  <2>3. miner' = [miner EXCEPT ![n] = new] /\ UNCHANGED <<nodeVars, mined>> /\ miner[n].pc = "height"
    BY <1>9 DEF ReadRecords
  <2>4. QED BY <1>7, <2>2, <2>3
<1>10. ASSUME NEW n \in Node, GetWTJoinTX(n) PROVE CreditInv'
  <2> DEFINE joined == WTJoinTX(n, miner[n].height, miner[n].records)
             new == [miner[n] EXCEPT !.pc = "join", !.height = 0, !.records = {}, !.join = joined]
  <2>1. joined \in WTJoined \cup {None}
    BY WTJoinType, MinerType DEF Miner
  <2>2. miner' = [miner EXCEPT ![n] = new] /\ UNCHANGED <<nodeVars, mined>> /\ miner[n].pc = "records"
    BY <1>10 DEF GetWTJoinTX
  <2> HIDE DEF joined
  <2>3. /\ new \in Miner /\ new.pc = "join" /\ new.prev = miner[n].prev
        /\ new.credits = miner[n].credits
    BY <2>1, MinerType DEF Miner
  <2>4. QED BY <1>7, <2>2, <2>3
<1>11. ASSUME NEW n \in Node, CreateNewBlock(n) PROVE CreditInv'
  <2> DEFINE joined == IF miner[n].join \in joinIndex[n] THEN None ELSE miner[n].join
             new == [miner[n] EXCEPT !.pc = "mining", !.parent = chain[n],
                                     !.wts = mempool[n], !.join = joined]
  <2>1. /\ new \in Miner /\ new.pc = "mining" /\ new.prev = miner[n].prev
        /\ new.credits = miner[n].credits
    <3>1. mempool[n] \subseteq Wt BY DEF TypeOK
    <3>2. chain[n] \in Chain BY HeightType
    <3>3. QED BY <3>1, <3>2, MinerType DEF Miner
  <2>2. /\ miner' = [miner EXCEPT ![n] = new] /\ UNCHANGED <<nodeVars, mined>>
        /\ miner[n].pc = "join"
    BY <1>11 DEF CreateNewBlock
  <2> HIDE DEF new
  <2>3. QED BY <1>7, <2>1, <2>2
<1>12. ASSUME NEW n \in Node, GetBlockTemplate(n) PROVE CreditInv'
  <2> DEFINE new == [IdleMiner EXCEPT !.pc = "mining", !.prev = chain[n],
                                      !.parent = chain[n], !.wts = mempool[n]]
  <2>1. new \in Miner /\ new.pc = "mining" /\ new.credits = {}
    <3>1. mempool[n] \subseteq Wt BY DEF TypeOK
    <3>2. IdleMiner.credits = {} BY DEF IdleMiner
    <3>3. QED BY <3>1, <3>2, IdleType, HeightType DEF Miner
  <2>2. miner' = [miner EXCEPT ![n] = new] /\ UNCHANGED <<nodeVars, mined>>
    BY <1>12 DEF GetBlockTemplate
  <2>3. miner'[n] = new BY <2>2 DEF TypeOK
  <2> HIDE DEF new
  <2>4. ReadsNew(n)' BY <2>1, <2>3 DEF ReadsNew
  <2>5. QED BY <1>3, <2>1, <2>2, <2>4
<1>13. ASSUME NEW n \in Node, BroadcastFails(n) \/ DropTemplate(n) PROVE CreditInv'
  <2>1. /\ IdleMiner \in Miner /\ IdleMiner.pc = "idle"
        /\ [IdleMiner EXCEPT !.pc = "dead"] \in Miner
        /\ [IdleMiner EXCEPT !.pc = "dead"].pc = "dead"
    <3>1. IdleMiner.pc = "idle" BY DEF IdleMiner
    <3>2. QED BY <3>1, IdleType DEF Miner
  <2>2. CASE BroadcastFails(n)
    BY <1>4, <2>1, <2>2 DEF BroadcastFails
  <2>3. CASE DropTemplate(n)
    BY <1>4, <2>1, <2>3 DEF DropTemplate
  <2>4. QED BY <1>13, <2>2, <2>3
\* A chain to switch to.
<1>14. ASSUME NEW n \in Node, NEW c \in Chain, Switch(n, c), RepeatsReplaced(c),
              UNCHANGED <<chain, disk, depIndex>>,
              \A m \in Node \ {n} : miner'[m] = miner[m],
              miner'[n] = miner[n] \/ miner'[n].pc = "submitted"
       PROVE  \A m \in Node : CreditOf(m)'
  <2>1. target'[n] = c /\ \A m \in Node \ {n} : target'[m] = target[m]
    BY <1>14 DEF Switch, TypeOK
  <2>2. ReadsNew(n)' BY <1>14 DEF CreditInv, CreditOf, ReadsNew
  <2>3. CreditOf(n)' BY <1>14, <2>1, <2>2 DEF CreditInv, CreditOf
  <2>4. ASSUME NEW m \in Node \ {n} PROVE CreditOf(m)'
    BY <1>14, <2>1, <2>4, CreditFrame DEF CreditInv
  <2>5. QED BY <2>3, <2>4
<1>15. ASSUME NEW n \in Node, \/ \E c \in mined : ReceiveBlock(n, c) \/ FailedStep(n, c)
                              \/ \E k \in 0..MaxHeight : InvalidateBlock(n, k)
       PROVE  CreditInv'
  <2>1. UNCHANGED <<chain, disk, depIndex, miner, mined>>
    BY <1>15 DEF ReceiveBlock, FailedStep, InvalidateBlock
  <2>2. PICK c \in Chain : Switch(n, c) /\ RepeatsReplaced(c)
    <3>1. CASE \E c \in mined : ReceiveBlock(n, c) \/ FailedStep(n, c)
      <4>1. PICK c \in mined : Switch(n, c)
        BY <3>1 DEF ReceiveBlock, StartActivate, FailedStep
      <4>2. c \in Chain /\ RepeatsReplaced(c) BY DEF TypeOK, CreditInv
      <4>3. QED BY <4>1, <4>2
    <3>2. CASE \E k \in 0..MaxHeight : InvalidateBlock(n, k)
      <4>1. PICK k \in 0..MaxHeight : Switch(n, Prefix(chain[n], k)) /\ k < Len(chain[n])
        BY <3>2 DEF InvalidateBlock
      <4>2. /\ Prefix(chain[n], k) \in Chain /\ Agrees(Prefix(chain[n], k), chain[n])
            /\ chain[n] \in Chain
        BY <4>1, LowerType, HeightType
      <4>3. RepeatsReplaced(Prefix(chain[n], k))
        BY <4>2, RepeatsShorter DEF CreditInv, CreditOf
      <4>4. QED BY <4>1, <4>2, <4>3
    <3>3. QED BY <1>15, <3>1, <3>2
  <2>3. \A m \in Node : CreditOf(m)' BY <1>14, <2>1, <2>2
  <2>4. QED BY <2>1, <2>3 DEF CreditInv
<1>16. ASSUME NEW n \in Node, ProcessBlockFound(n) PROVE CreditInv'
  <2>1. PICK w \in Work : LET c == Append(chain[n], MinedBlock(n, w)) IN
                          StartActivate(n, c) /\ mined' = mined \cup {c}
    BY <1>16 DEF ProcessBlockFound
  <2> DEFINE c == Append(chain[n], MinedBlock(n, w))
  <2>2. /\ Switch(n, c) /\ mined' = mined \cup {c} /\ UNCHANGED <<chain, disk, depIndex>>
        /\ miner' = [miner EXCEPT ![n] = [IdleMiner EXCEPT !.pc = "submitted"]]
    BY <1>16, <2>1 DEF ProcessBlockFound, StartActivate
  <2>3. c \in Chain
    BY MinedBlockType, HeightType, AppendProperties DEF Chain
  <2>4. RepeatsReplaced(c)
    <3>1. /\ miner[n].pc = "mining" /\ miner[n].parent = chain[n] /\ CoinbaseHeightOk(n)
          /\ ReadsNew(n) /\ RepeatsReplaced(chain[n])
      BY <1>16 DEF ProcessBlockFound, CreditInv, CreditOf
    <3>2. QED BY <3>1, FoundRepeats
  <2> HIDE DEF c
  <2>5. /\ miner'[n].pc = "submitted"
        /\ \A m \in Node \ {n} : miner'[m] = miner[m]
    <3>1. [IdleMiner EXCEPT !.pc = "submitted"].pc = "submitted"
      BY IdleType DEF Miner
    <3>2. QED BY <2>2, <3>1 DEF TypeOK
  <2>6. \A m \in Node : CreditOf(m)' BY <1>14, <2>2, <2>3, <2>4, <2>5
  <2>7. \A d \in mined' : RepeatsReplaced(d) BY <2>2, <2>4 DEF CreditInv
  <2>8. QED BY <2>6, <2>7 DEF CreditInv
<1>17. ASSUME NEW n \in Node, DisconnectTip(n) PROVE CreditInv'
  <2>1. PopTip(n) /\ UNCHANGED <<disk, miner, depIndex, mined>>
    BY <1>17 DEF DisconnectTip
  <2>2. /\ chain'[n] \in Chain /\ Agrees(chain'[n], chain[n]) /\ chain[n] \in Chain
        /\ target'[n] \in {None, target[n]}
    BY <2>1, PopTipType, HeightType
  <2>3. \A m \in Node \ {n} : chain'[m] = chain[m] /\ target'[m] = target[m]
    BY <2>1 DEF PopTip, TypeOK
  <2>4. CreditOf(n) BY DEF CreditInv
  <2>5. RepeatsReplaced(chain'[n])
    BY <2>2, <2>4, RepeatsShorter DEF CreditOf
  <2>6. CreditOf(n)' BY <2>1, <2>2, <2>4, <2>5 DEF CreditOf, ReadsNew
  <2>7. QED BY <1>1, <2>1, <2>3, <2>6
<1>18. ASSUME NEW n \in Node, target[n] # None, IsPrefixOf(chain[n], target[n])
       PROVE  RepeatsReplaced(Prefix(target[n], Len(chain[n]) + 1))
  <2>1. /\ Prefix(target[n], Len(chain[n]) + 1) \in Chain /\ target[n] \in Chain
        /\ Agrees(Prefix(target[n], Len(chain[n]) + 1), target[n])
    BY <1>18, NextBlockType, HeightType
  <2>2. RepeatsReplaced(target[n]) BY <1>18 DEF CreditInv, CreditOf
  <2>3. QED BY <2>1, <2>2, RepeatsShorter
<1>19. ASSUME NEW n \in Node, UpdateTip(n) PROVE CreditInv'
  <2> DEFINE longer == Prefix(target[n], Len(chain[n]) + 1)
  <2>1. RepeatsReplaced(longer) BY <1>18, <1>19, HeightType DEF UpdateTip
  <2>2. /\ chain'[n] = longer /\ UNCHANGED <<disk, depIndex, mined>>
        /\ target'[n] \in {None, target[n]}
        /\ miner'[n] = miner[n] \/ miner'[n] = IdleMiner
        /\ \A m \in Node \ {n} : /\ chain'[m] = chain[m] /\ target'[m] = target[m]
                                 /\ miner'[m] = miner[m]
    BY <1>19 DEF UpdateTip, TypeOK
  <2>3. CreditOf(n) /\ IdleMiner.pc = "idle"
    BY DEF CreditInv, IdleMiner
  <2> HIDE DEF longer
  <2>4. ReadsNew(n)' BY <2>2, <2>3 DEF CreditOf, ReadsNew
  <2>5. CreditOf(n)' BY <2>1, <2>2, <2>3, <2>4 DEF CreditOf
  <2>6. QED BY <1>1, <2>2, <2>5
<1>20. ASSUME NEW n \in Node, Flush(n) PROVE CreditInv'
  <2> DEFINE flushed == IF indexed[n] THEN Prefix(target[n], Len(chain[n]) + 1) ELSE chain[n]
  <2>1. RepeatsReplaced(flushed)
    <3>1. CASE indexed[n] BY <1>18, <3>1, HeightType
    <3>2. CASE ~indexed[n] BY <3>2 DEF CreditInv, CreditOf
    <3>3. QED BY <3>1, <3>2
  <2>2. /\ disk'[n] = flushed /\ UNCHANGED <<chain, target, miner, depIndex, mined>>
        /\ \A m \in Node \ {n} : disk'[m] = disk[m]
    BY <1>20 DEF Flush, TypeOK
  <2> HIDE DEF flushed
  <2>3. CreditOf(n)' BY <2>1, <2>2 DEF CreditInv, CreditOf, ReadsNew
  <2>4. QED BY <1>1, <2>2, <2>3
<1>21. ASSUME NEW n \in Node, Crash(n) \/ GetWTJoinTXFaults(n) PROVE CreditInv'
  <2>1. /\ chain'[n] = disk[n] /\ target'[n] = None /\ miner'[n] = IdleMiner
        /\ UNCHANGED <<disk, depIndex, mined>>
        /\ \A m \in Node \ {n} : /\ chain'[m] = chain[m] /\ target'[m] = target[m]
                                 /\ miner'[m] = miner[m]
    BY <1>21 DEF Crash, GetWTJoinTXFaults, Restart, TypeOK
  <2>2. IdleMiner.pc = "idle" BY DEF IdleMiner
  <2>3. CreditOf(n)' BY <2>1, <2>2 DEF CreditInv, CreditOf, ReadsNew
  <2>4. QED BY <1>1, <2>1, <2>3
<1>22. ASSUME NEW n \in Node, ConnectBlock(n) PROVE CreditInv'
  <2>1. /\ depIndex[n] \subseteq depIndex'[n] /\ UNCHANGED <<chain, disk, target, miner, mined>>
        /\ \A m \in Node \ {n} : depIndex'[m] = depIndex[m]
    BY <1>22 DEF ConnectBlock, TypeOK
  <2>2. CreditOf(n)' BY <2>1, CreditFrame DEF CreditInv
  <2>3. QED BY <1>1, <2>1, <2>2
<1>23. ASSUME NEW n \in Node, NEW w \in Wt, AcceptWithdraw(n, w) PROVE CreditInv'
  BY <1>2, <1>23 DEF AcceptWithdraw
<1>24. ASSUME NEW d \in Deposit, MainchainDeposit(d) PROVE CreditInv'
  BY <1>2, <1>24 DEF MainchainDeposit, nodeVars
<1>25. CASE UNCHANGED vars
  BY <1>2, <1>25 DEF vars, nodeVars
<1>26. QED
  BY <1>5, <1>6, <1>8, <1>9, <1>10, <1>11, <1>12, <1>13, <1>15, <1>16, <1>17, <1>19, <1>20,
     <1>21, <1>22, <1>23, <1>24, <1>25
     DEF Next, Validate, Mine

\* Where the coinbase height rule is in force (BIP34), a deposit is credited
\* twice on an active chain only if the first block that credits it replaced a
\* block of the tip which the miner of the second had read: the index it read
\* had all credits of that tip, and a tip that has only grown since makes the
\* coinbase height wrong.  Any chain may be switched to, of whatever height
\* and work, blocks of lost chains may come back, and any step may fail.
THEOREM RepeatedCredits ==
    ASSUME EnforceBIP34 = TRUE
    PROVE  Spec => []CreditedTwiceOnlyByReorg
<1>1. Init => TypeOK /\ IndexInv /\ CreditInv
  <2> SUFFICES ASSUME Init PROVE CreditInv
    BY InitType
  <2>1. RepeatsReplaced(<<>>)
    BY InitialChain, EmptySeq DEF RepeatsReplaced
  <2>2. IdleMiner.pc = "idle" BY DEF IdleMiner
  <2>3. QED BY <2>1, <2>2 DEF Init, CreditInv, CreditOf, ReadsNew
<1>2. TypeOK /\ IndexInv /\ CreditInv /\ [Next]_vars => TypeOK' /\ IndexInv' /\ CreditInv'
  BY TypeStep, IndexStep, CreditStep
<1>3. CreditInv => CreditedTwiceOnlyByReorg
  BY DEF CreditInv, CreditOf, CreditedTwiceOnlyByReorg
<1>4. QED BY <1>1, <1>2, <1>3, PTL DEF Spec

-----------------------------------------------------------------------------
(* Withdrawals, on a node that is alone and does not crash. *)

\* No two blocks of c confirm the same WT.
WtsOnce(c) == \A i, j \in 1..Len(c) : i # j => c[i].wts \cap c[j].wts = {}

\* The WT^ a miner would build on the tip.
NextWT(n) == WTJoinTX(n, Len(chain[n]) + 1, RecordsFor(n, Len(chain[n]) + 1))

\* A WT waits in the mempool or is in one block.
ConfirmedOnce(n) == WtsOnce(chain[n]) /\ mempool[n] \cap Wts(chain[n]) = {}

\* The node only switches to its own miner's block, one block up.
OwnBlock(n) ==
    target[n] # None => /\ miner[n].pc = "submitted"
                        /\ IsPrefixOf(chain[n], target[n])
                        /\ Len(target[n]) = Len(chain[n]) + 1
                        /\ NextBlock(n).wts \cap Wts(chain[n]) = {}

\* Nothing a miner has read without cs_main is overtaken.
ReadsHold(n) ==
    /\ miner[n].pc \in {"height", "records"} => miner[n].height = Len(chain[n]) + 1
    /\ miner[n].pc = "records" => miner[n].records = RecordsFor(n, Len(chain[n]) + 1)
    /\ miner[n].pc = "join" => miner[n].join = NextWT(n)
    /\ miner[n].pc = "mining" => /\ miner[n].parent = chain[n]
                                 /\ miner[n].wts \cap Wts(chain[n]) = {}

\* A WT^ that was sent pays WTs of one cycle; if the next block ends that cycle, it is the WT^ any
\* further template would have.
PaysCycle(n, j, h) == /\ h % TAU = 0 /\ h <= Len(chain[n]) + 1
                      /\ j.pays \subseteq CycleWts(chain[n], h)
                      /\ h = Len(chain[n]) + 1 /\ ~indexed[n] => j = NextWT(n)

SentInv(n) == \A j \in sent : \E h \in Nat : PaysCycle(n, j, h)

PaidInv(n) == ConfirmedOnce(n) /\ OwnBlock(n) /\ ReadsHold(n) /\ SentInv(n) /\ PaidOnce

\* The next WT^ depends on the chain and the index only.
LEMMA NextWTFrame ==
    ASSUME NEW n \in Node, UNCHANGED <<chain, depIndex, wtIndex>>
    PROVE  /\ NextWT(n)' = NextWT(n)
           /\ RecordsFor(n, Len(chain[n]) + 1)' = RecordsFor(n, Len(chain[n]) + 1)
<1>1. RecordsFor(n, Len(chain[n]) + 1)' = RecordsFor(n, Len(chain[n]) + 1)
  BY DEF RecordsFor, GetWTs
<1>2. QED BY <1>1 DEF NextWT, WTJoinTX, ToJoin, JoinInputs, GetDrivechainObjectHeight, Height

\* The WT^ of a height pays WTs confirmed in the cycle before it.
LEMMA NextWTPays ==
    ASSUME TypeOK, NEW n \in Node, NextWT(n) # None
    PROVE  /\ (Len(chain[n]) + 1) % TAU = 0
           /\ NextWT(n).pays \subseteq CycleWts(chain[n], Len(chain[n]) + 1)
<1> DEFINE h == Len(chain[n]) + 1
           ws == RecordsFor(n, h)
<1>1. Len(chain[n]) \in Nat BY HeightType
<1>2. NextWT(n).pays = ToJoin(n, h, ws) /\ ToJoin(n, h, ws) # {}
  BY DEF NextWT, WTJoinTX
<1>3. ws # {} BY <1>2 DEF ToJoin
<1>4. h % TAU = 0 BY <1>3 DEF RecordsFor
<1>5. ASSUME NEW w \in ToJoin(n, h, ws) PROVE w \in CycleWts(chain[n], h)
  <2>1. PICK k \in 1..Len(chain[n]) : w \in chain[n][k].wts /\ h - TAU <= k
    BY <1>5 DEF ToJoin, GetDrivechainObjectHeight, Height
  <2>2. k \in {i \in 1..Len(chain[n]) : h - TAU <= i /\ i < h}
    BY <1>1, <2>1
  <2>3. QED BY <2>1, <2>2 DEF CycleWts
<1>6. QED BY <1>2, <1>4, <1>5

\* Two cycles of one chain have no WT in common.
LEMMA CyclesDisjoint ==
    ASSUME NEW c \in Chain, WtsOnce(c), NEW g \in Nat, NEW h \in Nat,
           g % TAU = 0, h % TAU = 0, g < h
    PROVE  CycleWts(c, g) \cap CycleWts(c, h) = {}
<1>1. TAU \in Nat /\ TAU > 0 BY TauAssumption
<1>2. g <= h - TAU
  <2>1. /\ g = TAU * (g \div TAU) + (g % TAU) /\ (g \div TAU) \in Int
        /\ h = TAU * (h \div TAU) + (h % TAU) /\ (h \div TAU) \in Int
    BY <1>1, Z3
  <2> DEFINE a == g \div TAU
             b == h \div TAU
  <2> HIDE DEF a, b
  <2>2. g = TAU * a /\ h = TAU * b /\ a \in Int /\ b \in Int
    <3>1. g = TAU * a + 0 /\ h = TAU * b + 0 /\ a \in Int /\ b \in Int BY <2>1 DEF a, b
    <3>2. QED BY <1>1, <3>1
  <2>3. a < b BY <1>1, <2>2
  <2>4. TAU * a + TAU <= TAU * b
    <3>1. b - a - 1 \in Nat BY <2>2, <2>3
    <3>2. TAU * (b - a - 1) >= 0 BY <1>1, <3>1
    <3>3. TAU * (b - a - 1) = TAU * b - TAU * a - TAU BY <1>1, <2>2
    <3>4. QED BY <1>1, <2>2, <3>2, <3>3
  <2>5. QED BY <1>1, <2>2, <2>4
<1>3. ASSUME NEW w \in CycleWts(c, g) \cap CycleWts(c, h) PROVE FALSE
  <2>1. PICK i \in 1..Len(c) : w \in c[i].wts /\ i < g
    BY <1>3 DEF CycleWts
  <2>2. PICK j \in 1..Len(c) : w \in c[j].wts /\ h - TAU <= j
    BY <1>3 DEF CycleWts
  <2>3. i # j BY <1>1, <1>2, <2>1, <2>2
  <2>4. QED BY <2>1, <2>2, <2>3 DEF WtsOnce
<1>4. QED BY <1>3

\* A longer chain has the same finished cycles.
LEMMA CycleKept ==
    ASSUME NEW c \in Chain, NEW d \in Chain, Agrees(c, d), NEW h \in Nat, h <= Len(c) + 1
    PROVE  CycleWts(d, h) = CycleWts(c, h)
<1>1. Len(c) \in Nat /\ Len(d) \in Nat /\ Len(c) <= Len(d)
  BY LenProperties DEF Chain, Agrees
<1>2. TAU \in Nat BY TauAssumption
<1>3. {k \in 1..Len(c) : h - TAU <= k /\ k < h} = {k \in 1..Len(d) : h - TAU <= k /\ k < h}
  BY <1>1, <1>2
<1>4. \A k \in 1..Len(c) : c[k] = d[k] BY DEF Agrees
<1>5. QED BY <1>3, <1>4 DEF CycleWts

\* A block whose WTs are new keeps WtsOnce.
LEMMA ExtendedWtsOnce ==
    ASSUME NEW c \in Chain, NEW d \in Chain, Agrees(c, d), Len(d) = Len(c) + 1, WtsOnce(c),
           d[Len(d)].wts \cap Wts(c) = {}
    PROVE  WtsOnce(d)
<1>1. Len(c) \in Nat BY LenProperties DEF Chain
<1>2. \A i \in 1..Len(c) : d[i] = c[i] /\ d[Len(d)].wts \cap d[i].wts = {}
  BY DEF Agrees, Wts
<1>3. SUFFICES ASSUME NEW i \in 1..Len(d), NEW j \in 1..Len(d), i # j
               PROVE  d[i].wts \cap d[j].wts = {}
  BY DEF WtsOnce
<1>4. CASE i \in 1..Len(c) /\ j \in 1..Len(c)
  BY <1>2, <1>3, <1>4 DEF WtsOnce
<1>5. CASE i = Len(d)
  <2>1. j \in 1..Len(c) BY <1>1, <1>3, <1>5
  <2>2. QED BY <1>2, <1>5, <2>1
<1>6. CASE j = Len(d)
  <2>1. i \in 1..Len(c) BY <1>1, <1>3, <1>6
  <2>2. QED BY <1>2, <1>6, <2>1
<1>7. QED BY <1>1, <1>4, <1>5, <1>6

\* A chain is a prefix of itself with one more block.
LEMMA AppendPrefix ==
    ASSUME NEW c \in Chain, NEW b \in Block
    PROVE  /\ Append(c, b) \in Chain /\ Len(Append(c, b)) = Len(c) + 1
           /\ Append(c, b)[Len(c) + 1] = b
           /\ IsPrefixOf(c, Append(c, b))
<1> DEFINE d == Append(c, b)
<1>1. /\ d \in Chain /\ Len(d) = Len(c) + 1 /\ d[Len(c) + 1] = b /\ Len(c) \in Nat
      /\ \A i \in 1..Len(c) : d[i] = c[i]
  BY AppendProperties, LenProperties DEF Chain
<1> HIDE DEF d
<1>2. Len(c) \in 0..Len(d) BY <1>1
<1>3. /\ Prefix(d, Len(c)) \in Chain /\ Len(Prefix(d, Len(c))) = Len(c)
      /\ \A i \in 1..Len(c) : Prefix(d, Len(c))[i] = d[i]
  BY <1>1, <1>2, PrefixProperties
<1>4. \A i \in 1..Len(c) : Prefix(d, Len(c))[i] = c[i] BY <1>1, <1>3
<1>5. c = Prefix(d, Len(c))
  BY <1>3, <1>4, SeqEqual DEF Chain
<1>6. QED BY <1>1, <1>5 DEF IsPrefixOf, d

\* Steps that change neither the chain nor the index, nor what was sent.
LEMMA SentFrame ==
    ASSUME NEW n \in Node, SentInv(n), PaidOnce,
           UNCHANGED <<chain, indexed, depIndex, wtIndex, sent>>
    PROVE  SentInv(n)' /\ PaidOnce'
<1>1. NextWT(n)' = NextWT(n) BY NextWTFrame
<1>2. \A j, h : PaysCycle(n, j, h) => PaysCycle(n, j, h)'
  BY <1>1 DEF PaysCycle, CycleWts
<1>3. SentInv(n)' BY <1>2 DEF SentInv
<1>4. QED BY <1>3 DEF PaidOnce

\* The steps of the miner before it sends, and of giving a template up.
LEMMA PaidMiner ==
    ASSUME TypeOK, NEW n \in Node, PaidInv(n), NEW new \in Miner,
           miner' = [miner EXCEPT ![n] = new], UNCHANGED nodeVars, UNCHANGED sent,
           miner[n].pc # "submitted", ReadsHold(n)'
    PROVE  PaidInv(n)'
<1>1. target[n] = None BY DEF PaidInv, OwnBlock
<1>2. OwnBlock(n)' BY <1>1 DEF OwnBlock, nodeVars
<1>3. ConfirmedOnce(n)' BY DEF PaidInv, ConfirmedOnce, nodeVars
<1>4. SentInv(n)' /\ PaidOnce' BY SentFrame DEF PaidInv, nodeVars
<1>5. QED BY <1>2, <1>3, <1>4 DEF PaidInv

\* A template sends the next WT^: it is the one sent for this cycle before, or pays WTs that none
\* of the earlier ones pays.
LEMMA PaidSend ==
    ASSUME TypeOK, NEW n \in Node, PaidInv(n), NEW new \in Miner, new.pc = "mining",
           new.parent = chain[n], new.wts = mempool[n],
           miner' = [miner EXCEPT ![n] = new], UNCHANGED nodeVars, SendWT(NextWT(n)),
           ~indexed[n], target[n] = None
    PROVE  PaidInv(n)'
<1>1. miner'[n] = new BY DEF TypeOK
<1>2. OwnBlock(n)' /\ ConfirmedOnce(n)'
  BY DEF PaidInv, ConfirmedOnce, OwnBlock, nodeVars
<1>3. ReadsHold(n)'
  <2>1. new.wts \cap Wts(chain[n]) = {} BY DEF PaidInv, ConfirmedOnce
  <2>2. QED BY <1>1, <2>1 DEF ReadsHold, nodeVars
<1> DEFINE top == Len(chain[n]) + 1
<1>4. NextWT(n)' = NextWT(n) BY NextWTFrame DEF nodeVars
<1>5. Len(chain[n]) \in Nat /\ chain[n] \in Chain BY HeightType
<1>6. NextWT(n) # None => PaysCycle(n, NextWT(n), top)
  BY <1>5, NextWTPays DEF PaysCycle
<1>7. \A j, h : PaysCycle(n, j, h) => PaysCycle(n, j, h)'
  BY <1>4 DEF PaysCycle, CycleWts, nodeVars
<1>8. SentInv(n)'
  <2>1. \A j \in sent' : \E h \in Nat : PaysCycle(n, j, h)
    BY <1>5, <1>6 DEF SendWT, SentInv, PaidInv
  <2>2. QED BY <1>7, <2>1 DEF SentInv
<1>9. ASSUME NEW j \in sent, j # NextWT(n), NextWT(n) # None
      PROVE  j.pays \cap NextWT(n).pays = {}
  <2>1. PICK h \in Nat : PaysCycle(n, j, h) BY DEF PaidInv, SentInv
  <2>2. h < top BY <1>5, <1>9, <2>1 DEF PaysCycle
  <2>3. WtsOnce(chain[n]) BY DEF PaidInv, ConfirmedOnce
  <2>4. CycleWts(chain[n], h) \cap CycleWts(chain[n], top) = {}
    BY <1>5, <1>6, <1>9, <2>1, <2>2, <2>3, CyclesDisjoint DEF PaysCycle
  <2>5. QED BY <1>6, <1>9, <2>1, <2>4 DEF PaysCycle
<1>10. PaidOnce'
  BY <1>9 DEF PaidOnce, SendWT, PaidInv
<1>11. QED BY <1>2, <1>3, <1>8, <1>10 DEF PaidInv

\* A lone node knows no chain with more work than its own, but for the one it
\* is switching to.
NothingBetter(n) ==
    /\ target[n] # None => ChainWork(target[n]) > ChainWork(chain[n])
    /\ \A c \in mined : c = target[n] \/ ChainWork(c) <= ChainWork(chain[n])

\* A lone node has no other block to switch to, and without crashes no restart.
LEMMA Alone ==
    ASSUME NEW n, Node = {n}, MaxCrash = 0, MaxSetback = 0, TypeOK, NothingBetter(n), [Next]_vars
    PROVE  \/ \E d \in Deposit : MainchainDeposit(d)
           \/ \E w \in Wt : AcceptWithdraw(n, w)
           \/ Validate(n) \/ Flush(n) \/ Mine(n) \/ BroadcastFails(n)
           \/ ProcessBlockFound(n) \/ DropTemplate(n)
           \/ UNCHANGED vars
<1>1. ASSUME NEW c \in mined, ReceiveBlock(n, c) PROVE FALSE
  <2>1. c \in Chain /\ c # None BY NoneAssumption DEF TypeOK
  <2>2. target[n] = None /\ ChainWork(c) > ChainWork(chain[n])
    BY <1>1 DEF ReceiveBlock, StartActivate, Switch, Unlocked
  <2>3. ChainWork(c) <= ChainWork(chain[n]) BY <2>1, <2>2 DEF NothingBetter
  <2>4. ChainWork(c) \in Nat /\ ChainWork(chain[n]) \in Nat
    BY <2>1, ChainWorkType, HeightType
  <2>5. QED BY <2>2, <2>3, <2>4
<1>2. crashes \in Nat /\ setbacks \in Nat BY DEF TypeOK
<1>3. ~Crash(n) /\ ~GetWTJoinTXFaults(n) BY <1>2 DEF Crash, GetWTJoinTXFaults
<1>4. (\A c : ~FailedStep(n, c)) /\ (\A k : ~InvalidateBlock(n, k))
  BY <1>2 DEF FailedStep, InvalidateBlock
<1>5. QED BY <1>1, <1>3, <1>4 DEF Next

\* The steps of a lone node bring no better chain than its own block.
LEMMA NothingBetterStep ==
    ASSUME NEW n, Node = {n}, MaxCrash = 0, MaxSetback = 0, TypeOK, OwnBlock(n),
           NothingBetter(n), [Next]_vars
    PROVE  NothingBetter(n)'
<1>0. n \in Node /\ chain[n] \in Chain /\ ChainWork(chain[n]) \in Nat /\ mined \subseteq Chain
  BY HeightType, ChainWorkType DEF TypeOK
<1>1. ASSUME UNCHANGED <<chain, target, mined>> PROVE NothingBetter(n)'
  BY <1>1 DEF NothingBetter
<1>2. CASE ProcessBlockFound(n)
  <2>1. PICK w \in Work : LET c == Append(chain[n], MinedBlock(n, w)) IN
                              StartActivate(n, c) /\ mined' = mined \cup {c}
    BY <1>2 DEF ProcessBlockFound
  <2> DEFINE c == Append(chain[n], MinedBlock(n, w))
  <2>2. /\ mined' = mined \cup {c} /\ target'[n] = c /\ chain' = chain /\ target[n] = None
        /\ ChainWork(c) > ChainWork(chain[n])
    BY <1>0, <1>2, <2>1 DEF StartActivate, Switch, Unlocked, ProcessBlockFound, TypeOK
  <2> HIDE DEF c
  <2>3. \A d \in mined : ChainWork(d) <= ChainWork(chain[n])
    BY <1>0, <2>2, NoneAssumption DEF NothingBetter
  <2>4. QED BY <2>2, <2>3 DEF NothingBetter
<1>3. CASE UpdateTip(n)
  <2>1. target[n] # None /\ chain'[n] = Prefix(target[n], Len(chain[n]) + 1)
    BY <1>0, <1>3 DEF UpdateTip, TypeOK, Height
  <2>2. Len(target[n]) = Len(chain[n]) + 1 /\ target[n] \in Chain
    BY <1>0, <2>1, HeightType DEF OwnBlock
  <2>3. chain'[n] = target[n] BY <2>1, <2>2, WholePrefix
  <2>4. target'[n] = None /\ mined' = mined
    BY <1>0, <1>3, <2>2 DEF UpdateTip, LastBlock, Height, TypeOK
  <2>5. /\ ChainWork(target[n]) \in Nat
        /\ \A d \in mined : ChainWork(d) \in Nat
    BY <1>0, <2>2, ChainWorkType
  <2>6. \A d \in mined : ChainWork(d) <= ChainWork(target[n])
    BY <1>0, <2>1, <2>5 DEF NothingBetter
  <2>7. QED BY <2>3, <2>4, <2>6 DEF NothingBetter
<1>4. CASE DisconnectTip(n)
  BY <1>4 DEF DisconnectTip, PopTip, OwnBlock
<1>5. CASE \/ (\E d \in Deposit : MainchainDeposit(d)) \/ (\E w \in Wt : AcceptWithdraw(n, w))
           \/ ConnectBlock(n) \/ Flush(n) \/ BroadcastFails(n) \/ DropTemplate(n)
           \/ UNCHANGED vars
  BY <1>1, <1>5 DEF MainchainDeposit, AcceptWithdraw, ConnectBlock, Flush, BroadcastFails,
                    DropTemplate, vars, nodeVars
<1>6. CASE Mine(n)
  BY <1>1, <1>6 DEF Mine, MinerStart, GetDepositTX, ReadHeight, ReadRecords, GetWTJoinTX,
                    CreateNewBlock, GetBlockTemplate, nodeVars
<1>7. QED BY <1>2, <1>3, <1>4, <1>5, <1>6, Alone DEF Validate

\* Every step of a lone node keeps the invariant of the WT^s.
LEMMA PaidStep ==
    ASSUME NEW n, Node = {n}, MaxCrash = 0, MaxSetback = 0, TypeOK, IndexInv, PaidInv(n),
           NothingBetter(n), [Next]_vars
    PROVE  PaidInv(n)'
<1> USE DEF Height
<1>0. n \in Node /\ miner[n] \in Miner /\ chain[n] \in Chain /\ Len(chain[n]) \in Nat
  BY MinerType, HeightType
<1>1. ASSUME UNCHANGED <<chain, target, indexed, depIndex, wtIndex, mempool, miner, sent>>
      PROVE  PaidInv(n)'
  <2>1. SentInv(n)' /\ PaidOnce' BY <1>0, <1>1, SentFrame DEF PaidInv
  <2>2. NextWT(n)' = NextWT(n) /\
        RecordsFor(n, Len(chain[n]) + 1)' = RecordsFor(n, Len(chain[n]) + 1)
    BY <1>0, <1>1, NextWTFrame
  <2>3. ReadsHold(n)' BY <1>1, <2>2 DEF PaidInv, ReadsHold
  <2>4. ConfirmedOnce(n)' /\ OwnBlock(n)'
    BY <1>1 DEF PaidInv, ConfirmedOnce, OwnBlock, NextBlock
  <2>5. QED BY <2>1, <2>3, <2>4 DEF PaidInv
<1>2. ASSUME NEW w \in Wt, AcceptWithdraw(n, w) PROVE PaidInv(n)'
  <2>1. /\ UNCHANGED <<chain, target, indexed, depIndex, wtIndex, miner, sent>>
        /\ mempool'[n] = mempool[n] \cup {w} /\ w \notin Wts(chain[n])
    BY <1>0, <1>2 DEF AcceptWithdraw, TypeOK, mainVars
  <2>2. SentInv(n)' /\ PaidOnce' BY <1>0, <2>1, SentFrame DEF PaidInv
  <2>3. NextWT(n)' = NextWT(n) /\
        RecordsFor(n, Len(chain[n]) + 1)' = RecordsFor(n, Len(chain[n]) + 1)
    BY <1>0, <2>1, NextWTFrame
  <2>4. ReadsHold(n)' BY <2>1, <2>3 DEF PaidInv, ReadsHold
  <2>5. ConfirmedOnce(n)' BY <2>1 DEF PaidInv, ConfirmedOnce
  <2>6. OwnBlock(n)' BY <2>1 DEF PaidInv, OwnBlock, NextBlock
  <2>7. QED BY <2>2, <2>4, <2>5, <2>6 DEF PaidInv
<1>3. CASE MinerStart(n)
  <2> DEFINE new == [IdleMiner EXCEPT !.pc = "start", !.prev = chain[n]]
  <2>1. new \in Miner /\ new.pc = "start" BY <1>0, IdleType DEF Miner
  <2>2. /\ miner' = [miner EXCEPT ![n] = new] /\ UNCHANGED nodeVars /\ miner'[n] = new
        /\ UNCHANGED sent /\ miner[n].pc = "idle"
    BY <1>0, <1>3 DEF MinerStart, TypeOK, mainVars
  <2> HIDE DEF new
  <2>3. ReadsHold(n)' BY <2>1, <2>2 DEF ReadsHold
  <2>4. QED BY <1>0, <2>1, <2>2, <2>3, PaidMiner
<1>4. CASE GetDepositTX(n)
  <2>1. PICK answer \in {deposited} \cup (IF RpcFails THEN {{}} ELSE {}) :
            miner' = [miner EXCEPT ![n] = [@ EXCEPT !.pc = "deposits",
                                                    !.credits = NewDeposits(n, answer)]]
    BY <1>4 DEF GetDepositTX
  <2> DEFINE new == [miner[n] EXCEPT !.pc = "deposits", !.credits = NewDeposits(n, answer)]
  <2>2. NewDeposits(n, answer) \subseteq Deposit
    BY FlagAssumption DEF NewDeposits, TypeOK
  <2>3. new \in Miner /\ new.pc = "deposits" BY <1>0, <2>2 DEF Miner
  <2>4. /\ miner' = [miner EXCEPT ![n] = new] /\ UNCHANGED nodeVars /\ miner'[n] = new
        /\ UNCHANGED sent /\ miner[n].pc = "start"
    BY <1>0, <1>4, <2>1 DEF GetDepositTX, TypeOK, mainVars
  <2> HIDE DEF new
  <2>5. ReadsHold(n)' BY <2>3, <2>4 DEF ReadsHold
  <2>6. QED BY <1>0, <2>3, <2>4, <2>5, PaidMiner
<1>5. CASE ReadHeight(n)
  <2> DEFINE new == [miner[n] EXCEPT !.pc = "height", !.height = Len(chain[n]) + 1]
  <2>1. new \in Miner /\ new.pc = "height" /\ new.height = Len(chain[n]) + 1
    <3>1. Len(chain[n]) + 1 \in Nat BY <1>0
    <3>2. QED BY <1>0, <3>1 DEF Miner
  <2>2. /\ miner' = [miner EXCEPT ![n] = new] /\ UNCHANGED nodeVars /\ miner'[n] = new
        /\ UNCHANGED sent /\ miner[n].pc = "deposits"
    BY <1>0, <1>5 DEF ReadHeight, TypeOK, mainVars
  <2> HIDE DEF new
  <2>3. ReadsHold(n)' BY <2>1, <2>2 DEF ReadsHold, nodeVars
  <2>4. QED BY <1>0, <2>1, <2>2, <2>3, PaidMiner
<1>6. CASE ReadRecords(n)
  <2> DEFINE new == [miner[n] EXCEPT !.pc = "records",
                                     !.records = RecordsFor(n, miner[n].height)]
  <2>1. RecordsFor(n, miner[n].height) \subseteq Wt BY <1>0, RecordsType
  <2>2. /\ miner' = [miner EXCEPT ![n] = new] /\ UNCHANGED nodeVars /\ miner'[n] = new
        /\ UNCHANGED sent /\ miner[n].pc = "height"
    BY <1>0, <1>6 DEF ReadRecords, TypeOK, mainVars
  <2>3. miner[n].height = Len(chain[n]) + 1 BY <2>2 DEF PaidInv, ReadsHold
  <2>4. /\ new \in Miner /\ new.pc = "records" /\ new.height = Len(chain[n]) + 1
        /\ new.records = RecordsFor(n, Len(chain[n]) + 1)
    BY <1>0, <2>1, <2>3 DEF Miner
  <2> HIDE DEF new
  <2>5. RecordsFor(n, Len(chain[n]) + 1)' = RecordsFor(n, Len(chain[n]) + 1)
    BY <1>0, <2>2, NextWTFrame DEF nodeVars
  <2>6. ReadsHold(n)' BY <2>2, <2>4, <2>5 DEF ReadsHold, nodeVars
  <2>7. QED BY <1>0, <2>2, <2>4, <2>6, PaidMiner
<1>7. CASE GetWTJoinTX(n)
  <2> DEFINE joined == WTJoinTX(n, miner[n].height, miner[n].records)
             new == [miner[n] EXCEPT !.pc = "join", !.height = 0, !.records = {}, !.join = joined]
  <2>1. joined \in WTJoined \cup {None} BY <1>0, WTJoinType DEF Miner
  <2>2. /\ miner' = [miner EXCEPT ![n] = new] /\ UNCHANGED nodeVars /\ miner'[n] = new
        /\ UNCHANGED sent /\ miner[n].pc = "records"
    BY <1>0, <1>7 DEF GetWTJoinTX, TypeOK, mainVars
  <2>3. joined = NextWT(n) BY <2>2 DEF PaidInv, ReadsHold, NextWT
  <2> HIDE DEF joined
  <2>4. new \in Miner /\ new.pc = "join" /\ new.join = joined
    BY <1>0, <2>1 DEF Miner
  <2> HIDE DEF new
  <2>5. NextWT(n)' = NextWT(n) BY <1>0, <2>2, NextWTFrame DEF nodeVars
  <2>6. ReadsHold(n)' BY <2>2, <2>3, <2>4, <2>5 DEF ReadsHold
  <2>7. QED BY <1>0, <2>2, <2>4, <2>6, PaidMiner
<1>8. CASE BroadcastFails(n) \/ DropTemplate(n)
  <2>1. PICK new \in Miner : /\ new.pc \in {"idle", "dead"} /\ miner' = [miner EXCEPT ![n] = new]
                             /\ UNCHANGED nodeVars /\ UNCHANGED sent
                             /\ miner[n].pc # "submitted"
    <3>1. /\ IdleMiner \in Miner /\ IdleMiner.pc = "idle"
          /\ [IdleMiner EXCEPT !.pc = "dead"] \in Miner
          /\ [IdleMiner EXCEPT !.pc = "dead"].pc = "dead"
      <4>1. IdleMiner.pc = "idle" BY DEF IdleMiner
      <4>2. QED BY <4>1, IdleType DEF Miner
    <3>2. QED BY <1>8, <3>1 DEF BroadcastFails, DropTemplate, mainVars
  <2>2. miner'[n] = new BY <1>0, <2>1 DEF TypeOK
  <2>3. ReadsHold(n)' BY <2>1, <2>2 DEF ReadsHold
  <2>4. QED BY <1>0, <2>1, <2>3, PaidMiner
<1>9. target[n] = None => ~indexed[n] BY <1>0, HeightType
<1>10. CASE CreateNewBlock(n)
  <2> DEFINE joined == IF miner[n].join \in joinIndex[n] THEN None ELSE miner[n].join
             new == [miner[n] EXCEPT !.pc = "mining", !.parent = chain[n],
                                     !.wts = mempool[n], !.join = joined]
  <2>1. mempool[n] \subseteq Wt BY <1>0 DEF TypeOK
  <2>2. new \in Miner /\ new.pc = "mining" /\ new.parent = chain[n] /\ new.wts = mempool[n]
    BY <1>0, <2>1 DEF Miner
  <2>3. /\ miner' = [miner EXCEPT ![n] = new] /\ UNCHANGED nodeVars
        /\ SendWT(miner[n].join) /\ miner[n].pc = "join" /\ target[n] = None
    BY <1>10 DEF CreateNewBlock, Unlocked
  <2>4. miner[n].join = NextWT(n) BY <2>3 DEF PaidInv, ReadsHold
  <2> HIDE DEF new
  <2>5. SendWT(NextWT(n)) BY <2>3, <2>4
  <2>6. QED BY <1>0, <1>9, <2>2, <2>3, <2>5, PaidSend
<1>11. CASE GetBlockTemplate(n)
  <2> DEFINE new == [IdleMiner EXCEPT !.pc = "mining", !.prev = chain[n],
                                      !.parent = chain[n], !.wts = mempool[n]]
  <2>1. mempool[n] \subseteq Wt BY <1>0 DEF TypeOK
  <2>2. new \in Miner /\ new.pc = "mining" /\ new.parent = chain[n] /\ new.wts = mempool[n]
    BY <1>0, <2>1, IdleType DEF Miner
  <2>3. /\ miner' = [miner EXCEPT ![n] = new] /\ UNCHANGED nodeVars /\ target[n] = None
        /\ SendWT(WTJoinTX(n, Len(chain[n]) + 1, PendingLookups(n)))
        /\ PendingLookups(n) = RecordsFor(n, Len(chain[n]) + 1)
    BY <1>11 DEF GetBlockTemplate, Unlocked, PendingLookups
  <2>4. SendWT(NextWT(n)) BY <2>3 DEF NextWT
  <2> HIDE DEF new
  <2>5. QED BY <1>0, <1>9, <2>2, <2>3, <2>4, PaidSend
<1>12. CASE ProcessBlockFound(n)
  <2>0. PICK w \in Work : StartActivate(n, Append(chain[n], MinedBlock(n, w)))
    BY <1>12 DEF ProcessBlockFound
  <2> DEFINE b == MinedBlock(n, w)
             c == Append(chain[n], b)
  <2>1. /\ miner[n].pc = "mining" /\ target[n] = None /\ target'[n] = c
        /\ UNCHANGED <<chain, depIndex, wtIndex, mempool, sent>> /\ ~indexed'[n]
        /\ miner' = [miner EXCEPT ![n] = [IdleMiner EXCEPT !.pc = "submitted"]]
    BY <1>0, <1>12, <2>0 DEF ProcessBlockFound, StartActivate, Switch, Unlocked, TypeOK, mainVars
  <2>2. b \in Block /\ b.wts = miner[n].wts
    BY <1>0, MinedBlockType DEF MinedBlock
  <2>3. b.wts \cap Wts(chain[n]) = {} BY <2>1, <2>2 DEF PaidInv, ReadsHold
  <2> HIDE DEF b
  <2>4. /\ Len(c) = Len(chain[n]) + 1 /\ c[Len(chain[n]) + 1] = b /\ IsPrefixOf(chain[n], c)
    BY <1>0, <2>2, AppendPrefix
  <2> HIDE DEF c
  <2>5. miner'[n].pc = "submitted"
    <3>1. [IdleMiner EXCEPT !.pc = "submitted"].pc = "submitted" BY IdleType DEF Miner
    <3>2. QED BY <1>0, <2>1, <3>1 DEF TypeOK
  <2>6. OwnBlock(n)' BY <2>1, <2>3, <2>4, <2>5 DEF OwnBlock, NextBlock
  <2>7. ReadsHold(n)' BY <2>5 DEF ReadsHold
  <2>8. ConfirmedOnce(n)' BY <2>1 DEF PaidInv, ConfirmedOnce
  <2>9. indexed'[n] = indexed[n]
    <3>1. indexed' = [indexed EXCEPT ![n] = FALSE] BY <2>0 DEF StartActivate, Switch
    <3>2. indexed'[n] = FALSE /\ indexed[n] \in BOOLEAN BY <1>0, <3>1 DEF TypeOK
    <3>3. QED BY <1>9, <2>1, <3>2
  <2>10. NextWT(n)' = NextWT(n) BY <1>0, <2>1, NextWTFrame
  <2>11. \A j, h : PaysCycle(n, j, h) => PaysCycle(n, j, h)'
    BY <2>1, <2>9, <2>10 DEF PaysCycle, CycleWts
  <2>12. SentInv(n)' /\ PaidOnce' BY <2>1, <2>11 DEF SentInv, PaidInv, PaidOnce
  <2>13. QED BY <2>6, <2>7, <2>8, <2>12 DEF PaidInv
<1>13. CASE DisconnectTip(n)
  BY <1>13 DEF DisconnectTip, PopTip, PaidInv, OwnBlock
<1>14. CASE ConnectBlock(n)
  <2>1. /\ UNCHANGED <<chain, target, mempool, miner, sent>> /\ indexed'[n] /\ target[n] # None
    BY <1>0, <1>14 DEF ConnectBlock, TypeOK, mainVars
  <2>2. miner[n].pc = "submitted" BY <2>1 DEF PaidInv, OwnBlock
  <2>3. ReadsHold(n)' BY <2>1, <2>2 DEF ReadsHold
  <2>4. ConfirmedOnce(n)' /\ OwnBlock(n)'
    BY <2>1 DEF PaidInv, ConfirmedOnce, OwnBlock, NextBlock
  <2>5. \A j, h : PaysCycle(n, j, h) => PaysCycle(n, j, h)'
    BY <2>1 DEF PaysCycle, CycleWts
  <2>6. SentInv(n)' /\ PaidOnce' BY <2>1, <2>5 DEF SentInv, PaidInv, PaidOnce
  <2>7. QED BY <2>3, <2>4, <2>6 DEF PaidInv
<1>15. CASE UpdateTip(n)
  <2> DEFINE longer == Prefix(target[n], Len(chain[n]) + 1)
  <2>1. /\ target[n] # None /\ UNCHANGED sent
        /\ chain'[n] = longer /\ mempool'[n] = mempool[n] \ NextBlock(n).wts
        /\ target'[n] = IF LastBlock(n) THEN None ELSE target[n]
        /\ miner'[n] = IF LastBlock(n) /\ miner[n].pc = "submitted" THEN IdleMiner ELSE miner[n]
    BY <1>0, <1>15 DEF UpdateTip, TypeOK, mainVars
  <2>2. LastBlock(n) /\ miner[n].pc = "submitted" /\ IsPrefixOf(chain[n], target[n])
        /\ NextBlock(n).wts \cap Wts(chain[n]) = {}
    BY <2>1 DEF PaidInv, OwnBlock, LastBlock
  <2>3. target'[n] = None /\ miner'[n] = IdleMiner BY <2>1, <2>2
  <2>4. /\ longer \in Chain /\ Len(longer) = Len(chain[n]) + 1
        /\ longer[Len(longer)] = NextBlock(n) /\ Agrees(longer, target[n])
    BY <1>0, <2>1, <2>2, NextBlockType
  <2>5. Agrees(chain[n], longer)
    <3>1. Agrees(chain[n], target[n]) BY <1>0, <2>1, <2>2, PrefixAgrees, HeightType
    <3>2. QED BY <1>0, <2>4, <3>1 DEF Agrees
  <2> HIDE DEF longer
  <2>6. OwnBlock(n)' BY <2>3 DEF OwnBlock
  <2>7. ReadsHold(n)'
    <3>1. IdleMiner.pc = "idle" BY DEF IdleMiner
    <3>2. QED BY <2>3, <3>1 DEF ReadsHold
  <2>8. ConfirmedOnce(n)'
    <3>1. WtsOnce(longer)
      BY <1>0, <2>2, <2>4, <2>5, ExtendedWtsOnce DEF PaidInv, ConfirmedOnce
    <3>2. Wts(longer) = Wts(chain[n]) \cup NextBlock(n).wts
      BY <1>0, <2>4, <2>5, ExtendedBy
    <3>3. mempool'[n] \cap Wts(longer) = {}
      BY <2>1, <3>2 DEF PaidInv, ConfirmedOnce
    <3>4. QED BY <2>1, <3>1, <3>3 DEF ConfirmedOnce
  <2>9. ASSUME NEW j, NEW h \in Nat, PaysCycle(n, j, h) PROVE PaysCycle(n, j, h)'
    <3>1. h % TAU = 0 /\ h <= Len(chain[n]) + 1 /\ j.pays \subseteq CycleWts(chain[n], h)
      BY <2>9 DEF PaysCycle
    <3>2. CycleWts(longer, h) = CycleWts(chain[n], h)
      BY <1>0, <2>4, <2>5, <3>1, CycleKept
    <3>3. h <= Len(longer) + 1 /\ h # Len(longer) + 1 BY <1>0, <2>4, <3>1
    <3>4. QED BY <2>1, <3>1, <3>2, <3>3 DEF PaysCycle
  <2>10. SentInv(n)' BY <2>1, <2>9 DEF SentInv, PaidInv
  <2>11. PaidOnce' BY <2>1 DEF PaidInv, PaidOnce
  <2>12. QED BY <2>6, <2>7, <2>8, <2>10, <2>11 DEF PaidInv
<1>16. CASE Flush(n) \/ (\E d \in Deposit : MainchainDeposit(d)) \/ UNCHANGED vars
  BY <1>1, <1>16 DEF Flush, MainchainDeposit, vars, nodeVars, mainVars
<1>17. QED
  BY <1>2, <1>3, <1>4, <1>5, <1>6, <1>7, <1>8, <1>10, <1>11, <1>12, <1>13, <1>14, <1>15,
     <1>16, Alone DEF Validate, Mine

\* The invariant of a lone node at the start.
LEMMA PaidInit == ASSUME NEW n, Node = {n}, Init PROVE PaidInv(n) /\ NothingBetter(n)
<1>1. 1..Len(<<>>) = {} BY EmptySeq
<1>2. WtsOnce(<<>>) BY <1>1 DEF WtsOnce
<1>3. ConfirmedOnce(n) BY <1>2, InitialChain DEF Init, ConfirmedOnce
<1>4. ReadsHold(n)
  <2>1. IdleMiner.pc = "idle" BY DEF IdleMiner
  <2>2. QED BY <2>1 DEF Init, ReadsHold
<1>5. OwnBlock(n) /\ SentInv(n) /\ PaidOnce BY DEF Init, OwnBlock, SentInv, PaidOnce
<1>6. QED BY <1>3, <1>4, <1>5 DEF PaidInv, NothingBetter, Init

\* A node that is alone, does not crash and has no block invalidated never pays a WT with two
\* different WT^s, however often it builds a template for the height that ends a cycle: the window of GetWTJoinTX has both ends
\* in it, but the WTs of its last height are not confirmed yet when it is read.
THEOREM WTsPaidOnce ==
    ASSUME NEW n, Node = {n}, MaxCrash = 0, MaxSetback = 0
    PROVE  Spec => []PaidOnce
<1> DEFINE Inv == TypeOK /\ IndexInv /\ PaidInv(n) /\ NothingBetter(n)
<1>1. Init => Inv
  BY InitType, PaidInit
<1>2. Inv /\ [Next]_vars => Inv'
  BY TypeStep, IndexStep, PaidStep, NothingBetterStep DEF PaidInv
<1>3. Inv => PaidOnce
  BY DEF PaidInv
<1>4. QED BY <1>1, <1>2, <1>3, PTL DEF Spec

-----------------------------------------------------------------------------
(* The WTs of a cycle are joined when it ends. *)

\* WithdrawalsJoined at height h.
Settled(n, h) ==
    (h % TAU = 0 /\ Cardinality(CycleWts(chain[n], h)) <= Cardinality(Credits(Prefix(chain[n], h - 1))))
        => CycleWts(chain[n], h) \subseteq PaidBy(sent)

\* The D records are the credits of the chain, and of the block that is being connected.  The cycle
\* that ends at the next height is settled as soon as there is a template for it.
DueInv(n) ==
    /\ ~indexed[n] => depIndex[n] = Credits(chain[n])
    /\ indexed[n] => depIndex[n] = Credits(chain[n]) \cup NextBlock(n).credits
    /\ \A h \in 1..Len(chain[n]) : Settled(n, h)
    /\ target[n] # None \/ miner[n].pc = "mining" => Settled(n, Len(chain[n]) + 1)

\* More WT^s settle no less.
LEMMA SettledKept ==
    ASSUME NEW n \in Node, chain'[n] = chain[n], sent \subseteq sent', NEW h, Settled(n, h)
    PROVE  Settled(n, h)'
BY DEF Settled, PaidBy

\* The blocks below a height are the same in a longer chain.
LEMMA PrefixKept ==
    ASSUME NEW c \in Chain, NEW d \in Chain, Agrees(c, d), NEW k \in 0..Len(c)
    PROVE  Prefix(d, k) = Prefix(c, k)
<1>1. Len(c) \in Nat /\ Len(d) \in Nat /\ Len(c) <= Len(d)
  BY LenProperties DEF Chain, Agrees
<1>2. k \in 0..Len(d) BY <1>1
<1>3. /\ Prefix(c, k) \in Chain /\ Len(Prefix(c, k)) = k
      /\ \A i \in 1..k : Prefix(c, k)[i] = c[i]
  BY PrefixProperties
<1>4. /\ Prefix(d, k) \in Chain /\ Len(Prefix(d, k)) = k
      /\ \A i \in 1..k : Prefix(d, k)[i] = d[i]
  BY <1>2, PrefixProperties
<1>5. \A i \in 1..k : Prefix(c, k)[i] = Prefix(d, k)[i]
  BY <1>1, <1>3, <1>4 DEF Agrees
<1>6. QED BY <1>3, <1>4, <1>5, SeqEqual DEF Chain

\* The whole chain as a prefix credits the same.
LEMMA WholeChain == ASSUME NEW c \in Chain PROVE Credits(Prefix(c, Len(c))) = Credits(c)
<1>1. Len(c) \in Nat /\ Len(c) \in 0..Len(c) BY LenProperties DEF Chain
<1>2. /\ Len(Prefix(c, Len(c))) = Len(c)
      /\ \A i \in 1..Len(c) : Prefix(c, Len(c))[i] = c[i]
  BY <1>1, PrefixProperties
<1>3. QED BY <1>2 DEF Credits

\* WTs and deposits are identified by hashes, of which there are finitely many; each WT pays a key
\* of its own.
FiniteDistinct == /\ IsFiniteSet(Wt) /\ IsFiniteSet(Deposit)
                  /\ \A v, w \in Wt : KeyOf[v] = KeyOf[w] => v = w

\* If every WT has a key of its own, the next WT^ pays the whole cycle that ends at its height,
\* unless the deposits do not cover it.
LEMMA NextWTComplete ==
    ASSUME TypeOK, IndexInv, NEW n \in Node, FiniteDistinct,
           (Len(chain[n]) + 1) % TAU = 0, depIndex[n] = Credits(chain[n]),
           Cardinality(CycleWts(chain[n], Len(chain[n]) + 1)) <= Cardinality(Credits(chain[n])),
           CycleWts(chain[n], Len(chain[n]) + 1) # {}
    PROVE  NextWT(n) # None /\ NextWT(n).pays = CycleWts(chain[n], Len(chain[n]) + 1)
<1> DEFINE h == Len(chain[n]) + 1
           ws == RecordsFor(n, h)
           due == CycleWts(chain[n], h)
<1>1. chain[n] \in Chain /\ Len(chain[n]) \in Nat BY HeightType
<1>2. ws = GetWTs(n) BY DEF RecordsFor
<1>3. ASSUME NEW w \in due PROVE w \in ToJoin(n, h, ws)
  <2>1. PICK k \in 1..Len(chain[n]) : w \in chain[n][k].wts /\ h - TAU <= k /\ k < h
    BY <1>3 DEF CycleWts
  <2>2. w \in Wts(chain[n]) BY <2>1 DEF Wts
  <2>3. w \in Wt BY <1>1, <2>2, WtsType
  <2>4. RecordedUnder(n, w) BY <2>2 DEF IndexInv, IndexOf, Covers
  <2>5. wtIndex[n][KeyOf[w]] = w BY <2>3, <2>4 DEF RecordedUnder, FiniteDistinct
  <2>6. w \in GetWTs(n) BY <2>3, <2>5, KeyAssumption, NoneAssumption DEF GetWTs
  <2>7. k \in GetDrivechainObjectHeight(n, w) BY <2>1 DEF GetDrivechainObjectHeight, Height
  <2>8. k <= h BY <1>1, <2>1
  <2>9. QED BY <1>2, <2>1, <2>6, <2>7, <2>8 DEF ToJoin
<1>4. ASSUME NEW w \in ToJoin(n, h, ws) PROVE w \in due
  <2>1. PICK k \in 1..Len(chain[n]) : w \in chain[n][k].wts /\ h - TAU <= k
    BY <1>4 DEF ToJoin, GetDrivechainObjectHeight, Height
  <2>2. k \in {i \in 1..Len(chain[n]) : h - TAU <= i /\ i < h}
    BY <1>1, <2>1
  <2>3. QED BY <2>1, <2>2 DEF CycleWts
<1>5. ToJoin(n, h, ws) = due BY <1>3, <1>4
<1> HIDE DEF due, ws, h
<1>6. due # {} BY DEF due, h
<1>7. due \subseteq Wt /\ Credits(chain[n]) \subseteq Deposit
  BY <1>5 DEF ToJoin, ws, RecordsFor, GetWTs, TypeOK
<1>8. ~(Cardinality(depIndex[n]) < Cardinality(due))
  <2> DEFINE a == Cardinality(due)
             b == Cardinality(Credits(chain[n]))
  <2>1. a <= b BY DEF due, h
  <2>2. a \in Nat /\ b \in Nat
    BY <1>7, FS_Subset, FS_CardinalityType DEF FiniteDistinct
  <2> HIDE DEF a, b
  <2>3. ~(b < a) BY <2>1, <2>2
  <2>4. QED BY <2>3 DEF a, b
<1>9. NextWT(n) = WTJoinTX(n, h, ws) BY DEF NextWT, h, ws
<1>10. WTJoinTX(n, h, ws) = [pays |-> due, spends |-> JoinInputs(n, due)]
  BY <1>5, <1>6, <1>8 DEF WTJoinTX
<1>11. [pays |-> due, spends |-> JoinInputs(n, due)] \in WTJoined
  <2>1. JoinInputs(n, due) \subseteq Deposit BY DEF JoinInputs, TypeOK
  <2>2. QED BY <1>7, <2>1 DEF WTJoined
<1>12. QED BY <1>9, <1>10, <1>11, NoneAssumption DEF due, h

\* Sending the next WT^ settles the cycle that ends at the next height.
LEMMA SendSettles ==
    ASSUME TypeOK, IndexInv, NEW n \in Node, FiniteDistinct, SendWT(NextWT(n)), ~indexed[n],
           DueInv(n), chain'[n] = chain[n]
    PROVE  Settled(n, Len(chain[n]) + 1)'
<1> DEFINE h == Len(chain[n]) + 1
           due == CycleWts(chain[n], h)
<1>1. chain[n] \in Chain /\ Len(chain[n]) \in Nat BY HeightType
<1>2. h - 1 = Len(chain[n]) BY <1>1
<1>3. Credits(Prefix(chain[n], h - 1)) = Credits(chain[n]) BY <1>1, <1>2, WholeChain
<1>4. depIndex[n] = Credits(chain[n]) BY DEF DueInv
<1>5. SUFFICES ASSUME h % TAU = 0, Cardinality(due) <= Cardinality(Credits(chain[n])), due # {}
               PROVE  due \subseteq PaidBy(sent')
  BY <1>3 DEF Settled
<1>6. NextWT(n) # None /\ NextWT(n).pays = due BY <1>4, <1>5, NextWTComplete
<1>7. NextWT(n) \in sent' BY <1>6 DEF SendWT
<1>8. QED BY <1>6, <1>7 DEF PaidBy

\* Every step of a lone node keeps finished cycles settled.
LEMMA DueStep ==
    ASSUME NEW n, Node = {n}, MaxCrash = 0, MaxSetback = 0, FiniteDistinct, TypeOK, IndexInv,
           PaidInv(n), NothingBetter(n), DueInv(n), [Next]_vars
    PROVE  DueInv(n)'
<1> USE DEF Height
<1>0. n \in Node /\ miner[n] \in Miner /\ chain[n] \in Chain /\ Len(chain[n]) \in Nat
  BY MinerType, HeightType
\* Steps that neither move the tip nor build a template.
<1>1. ASSUME UNCHANGED <<chain, target, indexed, depIndex>>, sent \subseteq sent',
             miner'[n].pc # "mining" \/ miner'[n] = miner[n]
      PROVE  DueInv(n)'
  <2>1. \A h : Settled(n, h) => Settled(n, h)' BY <1>0, <1>1, SettledKept
  <2>2. NextBlock(n)' = NextBlock(n) BY <1>1 DEF NextBlock
  <2>3. QED BY <1>1, <2>1, <2>2 DEF DueInv
<1>2. CASE \/ (\E d \in Deposit : MainchainDeposit(d)) \/ (\E w \in Wt : AcceptWithdraw(n, w))
           \/ Flush(n) \/ UNCHANGED vars
  BY <1>1, <1>2 DEF MainchainDeposit, AcceptWithdraw, Flush, vars, nodeVars, mainVars
<1>3. CASE \/ MinerStart(n) \/ GetDepositTX(n) \/ ReadHeight(n) \/ ReadRecords(n)
           \/ GetWTJoinTX(n) \/ BroadcastFails(n) \/ DropTemplate(n)
  <2>1. UNCHANGED nodeVars /\ UNCHANGED sent
    BY <1>3 DEF MinerStart, GetDepositTX, ReadHeight, ReadRecords, GetWTJoinTX,
                BroadcastFails, DropTemplate, mainVars
  <2>2. IdleMiner \in Miner /\ IdleMiner.pc = "idle" BY IdleType DEF IdleMiner
  <2>3. miner'[n].pc # "mining"
    <3>1. CASE MinerStart(n)
      BY <1>0, <2>2, <3>1 DEF MinerStart, TypeOK, Miner
    <3>2. CASE GetDepositTX(n)
      BY <1>0, <3>2 DEF GetDepositTX, TypeOK, Miner
    <3>3. CASE ReadHeight(n)
      BY <1>0, <3>3 DEF ReadHeight, TypeOK, Miner
    <3>4. CASE ReadRecords(n)
      BY <1>0, <3>4 DEF ReadRecords, TypeOK, Miner
    <3>5. CASE GetWTJoinTX(n)
      BY <1>0, <3>5 DEF GetWTJoinTX, TypeOK, Miner
    <3>6. CASE BroadcastFails(n)
      BY <1>0, <2>2, <3>6 DEF BroadcastFails, TypeOK, Miner
    <3>7. CASE DropTemplate(n)
      BY <1>0, <2>2, <3>7 DEF DropTemplate, TypeOK
    <3>8. QED BY <1>3, <3>1, <3>2, <3>3, <3>4, <3>5, <3>6, <3>7
  <2>4. QED BY <1>1, <2>1, <2>3 DEF nodeVars
<1>4. ASSUME SendWT(NextWT(n)), UNCHANGED nodeVars, target[n] = None PROVE DueInv(n)'
  <2>1. ~indexed[n] BY <1>0, <1>4, HeightType
  <2>2. Settled(n, Len(chain[n]) + 1)'
    BY <1>0, <1>4, <2>1, SendSettles DEF nodeVars
  <2>3. \A h : Settled(n, h) => Settled(n, h)'
    BY <1>0, <1>4, SettledKept DEF SendWT, nodeVars
  <2>4. QED BY <1>4, <2>1, <2>2, <2>3 DEF DueInv, nodeVars
<1>5. CASE CreateNewBlock(n)
  <2>1. miner[n].join = NextWT(n) BY <1>5 DEF CreateNewBlock, PaidInv, ReadsHold
  <2>2. QED BY <1>4, <1>5, <2>1 DEF CreateNewBlock, Unlocked
<1>6. CASE GetBlockTemplate(n)
  <2>1. PendingLookups(n) = RecordsFor(n, Len(chain[n]) + 1)
    BY <1>6 DEF GetBlockTemplate, PendingLookups
  <2>2. QED BY <1>4, <1>6, <2>1 DEF GetBlockTemplate, Unlocked, NextWT
<1>7. CASE ProcessBlockFound(n)
  <2>1. /\ miner[n].pc = "mining" /\ target[n] = None /\ ~indexed'[n]
        /\ UNCHANGED <<chain, depIndex, sent>>
    BY <1>0, <1>7 DEF ProcessBlockFound, StartActivate, Switch, Unlocked, TypeOK, mainVars
  <2>2. ~indexed[n] BY <1>0, <2>1, HeightType
  <2>3. \A h : Settled(n, h) => Settled(n, h)' BY <1>0, <2>1, SettledKept
  <2>4. QED BY <2>1, <2>2, <2>3 DEF DueInv
<1>8. CASE DisconnectTip(n)
  BY <1>8 DEF DisconnectTip, PopTip, PaidInv, OwnBlock
<1>9. CASE ConnectBlock(n)
  <2>1. /\ UNCHANGED <<chain, target, miner, sent>> /\ indexed'[n] /\ ~indexed[n]
        /\ depIndex'[n] = depIndex[n] \cup NextBlock(n).credits
    BY <1>0, <1>9 DEF ConnectBlock, TypeOK, mainVars
  <2>2. NextBlock(n)' = NextBlock(n) BY <2>1 DEF NextBlock
  <2>3. \A h : Settled(n, h) => Settled(n, h)' BY <1>0, <2>1, SettledKept
  <2>4. QED BY <2>1, <2>2, <2>3 DEF DueInv
<1>10. CASE UpdateTip(n)
  <2> DEFINE longer == Prefix(target[n], Len(chain[n]) + 1)
  <2>1. /\ target[n] # None /\ indexed[n] /\ ~indexed'[n] /\ UNCHANGED <<sent, depIndex>>
        /\ chain'[n] = longer
        /\ target'[n] = IF LastBlock(n) THEN None ELSE target[n]
        /\ miner'[n] = IF LastBlock(n) /\ miner[n].pc = "submitted" THEN IdleMiner ELSE miner[n]
    BY <1>0, <1>10 DEF UpdateTip, TypeOK, mainVars
  <2>2. LastBlock(n) /\ miner[n].pc = "submitted" /\ IsPrefixOf(chain[n], target[n])
    BY <2>1 DEF PaidInv, OwnBlock, LastBlock
  <2>3. target'[n] = None /\ miner'[n] = IdleMiner /\ IdleMiner.pc = "idle"
    BY <2>1, <2>2 DEF IdleMiner
  <2>4. /\ longer \in Chain /\ Len(longer) = Len(chain[n]) + 1
        /\ longer[Len(longer)] = NextBlock(n) /\ Agrees(longer, target[n])
    BY <1>0, <2>1, <2>2, NextBlockType
  <2>5. Agrees(chain[n], longer)
    <3>1. Agrees(chain[n], target[n]) BY <1>0, <2>1, <2>2, PrefixAgrees, HeightType
    <3>2. QED BY <1>0, <2>4, <3>1 DEF Agrees
  <2> HIDE DEF longer
  <2>6. depIndex'[n] = Credits(chain'[n])
    <3>1. Credits(longer) = Credits(chain[n]) \cup NextBlock(n).credits
      BY <1>0, <2>4, <2>5, ExtendedBy
    <3>2. QED BY <2>1, <3>1 DEF DueInv
  <2>7. ASSUME NEW h \in 1..Len(longer) PROVE Settled(n, h)'
    <3>1. h \in Nat /\ h <= Len(chain[n]) + 1 /\ h - 1 \in 0..Len(chain[n])
      BY <1>0, <2>4, <2>7
    <3>2. CycleWts(longer, h) = CycleWts(chain[n], h)
      BY <1>0, <2>4, <2>5, <3>1, CycleKept
    <3>3. Prefix(longer, h - 1) = Prefix(chain[n], h - 1)
      BY <1>0, <2>4, <2>5, <3>1, PrefixKept
    <3>4. Settled(n, h)
      <4>1. h \in 1..Len(chain[n]) \/ h = Len(chain[n]) + 1 BY <1>0, <2>4, <2>7
      <4>2. QED BY <2>1, <4>1 DEF DueInv
    <3>5. QED BY <2>1, <3>2, <3>3, <3>4 DEF Settled
  <2>8. QED BY <2>1, <2>3, <2>6, <2>7 DEF DueInv
<1>11. QED
  BY <1>2, <1>3, <1>5, <1>6, <1>7, <1>8, <1>9, <1>10, Alone DEF Validate, Mine

\* On a node that is alone, does not crash and has no block invalidated, where no two WTs pay the
\* same key, the WTs of every finished cycle that the credited deposits cover have been sent to the mainchain: the reads of
\* the miner without cs_main are not overtaken, and the block that ends the cycle cannot be mined
\* before its WT^ was sent.  With a shared key the W record of one WT replaces the other's.
THEOREM CyclesJoined ==
    ASSUME NEW n, Node = {n}, MaxCrash = 0, MaxSetback = 0, FiniteDistinct
    PROVE  Spec => []WithdrawalsJoined
<1> DEFINE Inv == TypeOK /\ IndexInv /\ PaidInv(n) /\ NothingBetter(n) /\ DueInv(n)
<1>1. Init => Inv
  <2> SUFFICES ASSUME Init PROVE DueInv(n)
    BY InitType, PaidInit
  <2>1. 1..Len(<<>>) = {} BY EmptySeq
  <2>2. IdleMiner.pc = "idle" BY DEF IdleMiner
  <2>3. QED BY <2>1, <2>2, InitialChain DEF Init, DueInv
<1>2. Inv /\ [Next]_vars => Inv'
  BY TypeStep, IndexStep, PaidStep, NothingBetterStep, DueStep DEF PaidInv
<1>3. Inv => WithdrawalsJoined
  BY DEF DueInv, Settled, WithdrawalsJoined, Height
<1>4. QED BY <1>1, <1>2, <1>3, PTL DEF Spec
=============================================================================
