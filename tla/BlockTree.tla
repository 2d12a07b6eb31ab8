------------------------------ MODULE BlockTree ------------------------------
(***************************************************************************)
(* The block tree and the choice of the active chain (src/src/main.cpp):   *)
(* headers and blocks arrive in any order, setBlockIndexCandidates holds   *)
(* the tips worth switching to, mapBlocksUnlinked the blocks whose parents *)
(* are missing, and ActivateBestChain moves the tip to the candidate with  *)
(* the most work, marking what turns out to be invalid.  Old block files   *)
(* are pruned, the operator can invalidate and reconsider blocks, and the  *)
(* node can be stopped and started again.                                  *)
(*                                                                         *)
(* Everything happens under cs_main, but ActivateBestChain releases it     *)
(* after every step, and ProcessNewBlock and the RPC calls release it      *)
(* before they call ActivateBestChain: several threads take turns.  The    *)
(* loops inside one critical section are steps of the model, and no other  *)
(* thread moves between them (Holding).                                    *)
(*                                                                         *)
(* A set of blocks stands for each bit of nStatus.  A block file holds one *)
(* block.  nSequenceId is the position in arrival.                         *)
(***************************************************************************)
EXTENDS Integers, Sequences, FiniteSets

CONSTANTS Hash,        \* blocks other than the genesis block
          Genesis,
          Proof,       \* the work of each block
          BadContext,  \* blocks that fail ContextualCheckBlock
          BadConnect,  \* blocks that fail ConnectBlock
          Thread,      \* threads that process blocks and RPC calls
          Keep,        \* MIN_BLOCKS_TO_KEEP
          PruneAfter,  \* PruneAfterHeight
          Prunes,      \* fPruneMode
          Commands,    \* the calls the operator makes
          MaxCommands, \* bound: calls of the operator
          None         \* no block

Block == Hash \cup {Genesis}

ASSUME BlockAssumption == Genesis \notin Hash /\ None \notin Block
ASSUME WorkAssumption == Proof \in [Block -> Nat \ {0}]
ASSUME BadAssumption == BadContext \subseteq Hash /\ BadConnect \subseteq Hash
ASSUME PruneAssumption == /\ Keep \in Nat \ {0}
                          /\ PruneAfter \in Nat
                          /\ Prunes \in BOOLEAN
ASSUME CommandAssumption == /\ Commands \subseteq {"invalidateblock", "reconsiderblock", "restart"}
                            /\ MaxCommands \in Nat

VARIABLES
    branch,       \* mapBlockIndex: the blocks from genesis to each known one
    nChainWork,   \* total work of that branch
    data,         \* BLOCK_HAVE_DATA
    undo,         \* BLOCK_HAVE_UNDO
    processed,    \* nTx > 0: the block was received at some point
    linked,       \* nChainTx > 0: so were all its ancestors
    failedValid,  \* BLOCK_FAILED_VALID
    failedChild,  \* BLOCK_FAILED_CHILD
    arrival,      \* linked blocks by nSequenceId
    candidates,   \* setBlockIndexCandidates
    unlinked,     \* mapBlocksUnlinked: second components, in insertion order
    tip,          \* chainActive.Tip()
    havePruned,   \* fHavePruned
    aborted,      \* a block could not be disconnected or read (AbortNode, or an error)
    pc,           \* what each thread is doing
    most,         \* pindexMostWork of each thread, or the block it invalidates
    oldTip,       \* pindexOldTip of the thread that holds cs_main
    queue,        \* blocks it has still to link
    commands      \* the operator's calls so far

index == <<branch, nChainWork>>
status == <<data, undo, processed, linked, failedValid, failedChild>>
choice == <<arrival, candidates, unlinked, tip>>
flags == <<havePruned, aborted>>
threads == <<pc, most, oldTip, queue>>
vars == <<index, status, choice, flags, threads, commands>>

-----------------------------------------------------------------------------
Last(s) == s[Len(s)]
Members(s) == {s[i] : i \in 1..Len(s)}

\* The elements of s that are in S, in their order.
Filter(s, S) ==
    LET kept[i \in 0..Len(s)] == IF i = 0 THEN <<>>
                                 ELSE IF s[i] \in S THEN Append(kept[i - 1], s[i])
                                 ELSE kept[i - 1]
    IN kept[Len(s)]

Known(b) == branch[b] # <<>>
nHeight(b) == Len(branch[b]) - 1
Prev(b) == branch[b][Len(branch[b]) - 1]

\* The block and its ancestors.
Lineage(b) == Members(branch[b])

Failed(b) == b \in failedValid \cup failedChild

chainActive == Lineage(tip)

\* The blocks of b's branch that are not on the active chain.
OffChain(b) == Lineage(b) \ chainActive

Position(order, b) == CHOOSE i \in 1..Len(order) : order[i] = b

\* CBlockIndexWorkComparator: a sorts before b, with sequence ids given by order.
WorseIn(order, a, b) ==
    \/ nChainWork[a] < nChainWork[b]
    \/ nChainWork[a] = nChainWork[b] /\ Position(order, a) > Position(order, b)

Worse(a, b) == WorseIn(arrival, a, b)

\* Thread t is inside a critical section of cs_main.
Holding(t) == pc[t] \in {"link", "find", "step", "invalidate"}

\* cs_main can be taken.
Free == \A t \in Thread : ~Holding(t)

Goto(t, l) == pc' = [pc EXCEPT ![t] = l]

-----------------------------------------------------------------------------
Init == /\ branch = [b \in Block |-> IF b = Genesis THEN <<Genesis>> ELSE <<>>]
        /\ nChainWork = [b \in Block |-> IF b = Genesis THEN Proof[b] ELSE 0]
        /\ data = {Genesis}
        /\ undo = {}
        /\ processed = {Genesis}
        /\ linked = {Genesis}
        /\ failedValid = {}
        /\ failedChild = {}
        /\ arrival = <<Genesis>>
        /\ candidates = {Genesis}
        /\ unlinked = <<>>
        /\ tip = Genesis
        /\ havePruned = FALSE
        /\ aborted = FALSE
        /\ pc = [t \in Thread |-> "idle"]
        /\ most = [t \in Thread |-> None]
        /\ oldTip = None
        /\ queue = <<>>
        /\ commands = <<>>

-----------------------------------------------------------------------------
\* Headers and blocks arrive.

\* AcceptBlockHeader lets a header of b with parent p pass: it is known and not
\* failed, or its parent is.
HeaderOk(b, p) ==
    IF Known(b) THEN p = Prev(b) /\ ~Failed(b) ELSE Known(p) /\ ~Failed(p)

AddToBlockIndex(b, p) ==
    /\ branch' = IF Known(b) THEN branch ELSE [branch EXCEPT ![b] = Append(branch[p], b)]
    /\ nChainWork' = IF Known(b) THEN nChainWork
                     ELSE [nChainWork EXCEPT ![b] = nChainWork[p] + Proof[b]]

\* The "headers" message.
AcceptBlockHeader(b, p) ==
    /\ Free
    /\ ~Known(b)
    /\ HeaderOk(b, p)
    /\ AddToBlockIndex(b, p)
    /\ UNCHANGED <<status, choice, flags, threads, commands>>

\* AcceptBlock does not look further at a block: it has it, or it did not ask
\* for it and the block was pruned, has no more work than the tip or is too
\* far ahead.
Ignored(b, p, requested) ==
    \/ b \in data
    \/ /\ ~requested
       /\ \/ b \in processed
          \/ nChainWork[p] + Proof[b] <= nChainWork[tip]
          \/ nHeight(p) + 1 > nHeight(tip) + Keep

\* ProcessNewBlock, up to the end of its critical section.
Arrives(t, b, p) ==
    /\ pc[t] = "idle"
    /\ Free
    /\ HeaderOk(b, p)
    /\ AddToBlockIndex(b, p)

IgnoreBlock(t, b, p, requested) ==
    /\ Arrives(t, b, p)
    /\ Ignored(b, p, requested)
    /\ Goto(t, "activate")
    /\ UNCHANGED <<status, choice, flags, most, oldTip, queue, commands>>

RejectBlock(t, b, p, requested) ==
    /\ Arrives(t, b, p)
    /\ ~Ignored(b, p, requested)
    /\ b \in BadContext
    /\ failedValid' = failedValid \cup {b}
    /\ UNCHANGED <<data, undo, processed, linked, failedChild, choice, flags, threads,
                   commands>>

\* ReceivedBlockTransactions: the block is on disk.  It is linked if its
\* parent is, otherwise it waits for its ancestors.
StoreBlock(t, b, p, requested) ==
    /\ Arrives(t, b, p)
    /\ ~Ignored(b, p, requested)
    /\ b \notin BadContext
    /\ data' = data \cup {b}
    /\ processed' = processed \cup {b}
    /\ linked' = linked \ {b}
    /\ IF p \in linked
       THEN /\ queue' = <<b>>
            /\ Goto(t, "link")
            /\ UNCHANGED unlinked
       ELSE /\ unlinked' = IF Failed(p) THEN unlinked ELSE Append(unlinked, b)
            /\ Goto(t, "activate")
            /\ UNCHANGED queue
    /\ UNCHANGED <<undo, failedValid, failedChild, arrival, candidates, tip, flags, most,
                   oldTip, commands>>

Children(b) == {x \in Block : Known(x) /\ x # Genesis /\ Prev(x) = b}

\* Variant of Waiting: only one block that waits for b is found.
WaitingFirst(b) ==
    LET range == Filter(unlinked, Children(b))
    IN IF range = <<>> THEN <<>> ELSE <<Head(range)>>

\* The range of b in mapBlocksUnlinked.
Waiting(b) == Filter(unlinked, Children(b))

\* Variant of Remaining: the blocks that join the queue stay in the map.
RemainingAll(b) == unlinked

\* mapBlocksUnlinked without the range of b.
Remaining(b) == Filter(unlinked, Block \ Children(b))

\* The next block of the queue gets its sequence id; the blocks that waited
\* for it join the queue.
LinkBlock(t) ==
    /\ pc[t] = "link"
    /\ LET b == Head(queue)
           order == Append(Filter(arrival, Block \ {b}), b)
       IN /\ linked' = linked \cup {b}
          /\ arrival' = order
          /\ candidates' = IF WorseIn(order, b, tip) THEN candidates ELSE candidates \cup {b}
          /\ queue' = Tail(queue) \o Waiting(b)
          /\ unlinked' = Remaining(b)
    /\ Goto(t, IF queue' = <<>> THEN "activate" ELSE "link")
    /\ UNCHANGED <<index, data, undo, processed, failedValid, failedChild, tip, flags, most,
                   oldTip, commands>>

-----------------------------------------------------------------------------
\* ActivateBestChain: a loop of critical sections.

\* LOCK(cs_main) at the head of the loop.
Activate(t) ==
    /\ pc[t] = "activate"
    /\ Free
    /\ Goto(t, "find")
    /\ UNCHANGED <<index, status, choice, flags, most, oldTip, queue, commands>>

\* The last element of setBlockIndexCandidates.
IsBestCandidate(c) == c \in candidates /\ \A d \in candidates \ {c} : Worse(d, c)

\* The blocks that keep c from being switched to; x is the last of them.
Obstacles(c) == {x \in OffChain(c) : Failed(x) \/ x \notin data}
IsLastObstacle(c, x) == x \in Obstacles(c) /\ \A y \in Obstacles(c) : nHeight(y) <= nHeight(x)

\* The blocks of c's branch above x, from c down.
Above(c, x) == [i \in 1..(nHeight(c) - nHeight(x)) |-> branch[c][Len(branch[c]) + 1 - i]]

\* Variant of DiscardCandidate: missing data counts as a failure.
DiscardAsFailed(t, c, x) ==
    /\ pc[t] = "find"
    /\ IsBestCandidate(c)
    /\ IsLastObstacle(c, x)
    /\ candidates' = candidates \ (Members(Above(c, x)) \cup {x})
    /\ failedChild' = failedChild \cup Members(Above(c, x))
    /\ UNCHANGED <<index, data, undo, processed, linked, failedValid, arrival, unlinked, tip,
                   flags, threads, commands>>

\* FindMostWorkChain meets a candidate with an obstacle: it and its ancestors
\* down to the obstacle leave the set, as failed or to wait for the data.
DiscardCandidate(t, c, x) ==
    /\ pc[t] = "find"
    /\ IsBestCandidate(c)
    /\ IsLastObstacle(c, x)
    /\ candidates' = candidates \ (Members(Above(c, x)) \cup {x})
    /\ failedChild' = IF Failed(x) THEN failedChild \cup Members(Above(c, x)) ELSE failedChild
    /\ unlinked' = IF Failed(x) THEN unlinked ELSE unlinked \o Above(c, x)
    /\ UNCHANGED <<index, data, undo, processed, linked, failedValid, arrival, tip, flags,
                   threads, commands>>

\* FindMostWorkChain returns c, and there is something to do.
ChooseCandidate(t, c) ==
    /\ pc[t] = "find"
    /\ IsBestCandidate(c)
    /\ Obstacles(c) = {}
    /\ c # tip
    /\ most' = [most EXCEPT ![t] = c]
    /\ oldTip' = tip
    /\ Goto(t, "step")
    /\ UNCHANGED <<index, status, choice, flags, queue, commands>>

\* The best candidate is the tip, or there is none.
NothingToDo(t) ==
    /\ pc[t] = "find"
    /\ candidates = {} \/ IsBestCandidate(tip)
    /\ Goto(t, "idle")
    /\ most' = [most EXCEPT ![t] = None]
    /\ UNCHANGED <<index, status, choice, flags, oldTip, queue, commands>>

\* ActivateBestChainStep is over: cs_main is released.
Release(t, l) == Goto(t, l) /\ oldTip' = None

CanDisconnect(b) == b \in data /\ b \in undo

\* The tip is not on the way to the most-work chain.
DisconnectTip(t) ==
    /\ pc[t] = "step"
    /\ tip \notin Lineage(most[t])
    /\ CanDisconnect(tip)
    /\ tip' = Prev(tip)
    /\ UNCHANGED <<index, status, arrival, candidates, unlinked, flags, threads, commands>>

\* The block to connect next.
NextBlock(t) == branch[most[t]][Len(branch[tip]) + 1]

\* The tip cannot be disconnected, for its data or its undo data is gone, or the
\* next block cannot be connected, for its data was pruned in the meantime.
StepFails(t) ==
    /\ pc[t] = "step"
    /\ IF tip \in Lineage(most[t]) THEN NextBlock(t) \notin data ELSE ~CanDisconnect(tip)
    /\ Release(t, "idle")
    /\ most' = [most EXCEPT ![t] = None]
    /\ aborted' = TRUE
    /\ UNCHANGED <<index, status, choice, havePruned, queue, commands>>

\* Variants of PruneBlockIndexCandidates: it erases nothing, or one too many.
PruneNoCandidates(b) == candidates
PruneNotBetter(b) == {c \in candidates : Worse(b, c)}

\* PruneBlockIndexCandidates, when the tip becomes b.
PruneBlockIndexCandidates(b) == {c \in candidates : ~Worse(c, b)}

\* ConnectTip.  The step is over when the tip has more work than it had.
ConnectTip(t) ==
    /\ pc[t] = "step"
    /\ tip \in Lineage(most[t])
    /\ LET b == NextBlock(t) IN
       /\ b \in data
       /\ b \notin BadConnect
       /\ tip' = b
       /\ undo' = undo \cup {b}
       /\ candidates' = PruneBlockIndexCandidates(b)
       /\ IF nChainWork[b] > nChainWork[oldTip] \/ b = most[t]
          THEN Release(t, "loop")
          ELSE UNCHANGED <<pc, oldTip>>
    /\ UNCHANGED <<index, data, processed, linked, failedValid, failedChild, arrival, unlinked,
                   flags, most, queue, commands>>

\* Variant of InvalidBlockFound: the block is not remembered as invalid.
InvalidBlockForgotten(t) ==
    /\ pc[t] = "step"
    /\ tip \in Lineage(most[t])
    /\ NextBlock(t) \in data \cap BadConnect
    /\ Release(t, "loop")
    /\ UNCHANGED <<index, status, choice, flags, most, queue, commands>>

\* ConnectBlock finds the block invalid: InvalidBlockFound.
InvalidBlockFound(t) ==
    /\ pc[t] = "step"
    /\ tip \in Lineage(most[t])
    /\ LET b == NextBlock(t) IN
       /\ b \in data
       /\ b \in BadConnect
       /\ failedValid' = failedValid \cup {b}
       /\ candidates' = candidates \ {b}
    /\ Release(t, "loop")
    /\ UNCHANGED <<index, data, undo, processed, linked, failedChild, arrival, unlinked, tip,
                   flags, most, queue, commands>>

\* while (pindexMostWork != chainActive.Tip()), without cs_main.
Loop(t) ==
    /\ pc[t] = "loop"
    /\ IF most[t] = tip
       THEN Goto(t, "idle") /\ most' = [most EXCEPT ![t] = None]
       ELSE Goto(t, "activate") /\ UNCHANGED most
    /\ UNCHANGED <<index, status, choice, flags, oldTip, queue, commands>>

-----------------------------------------------------------------------------
\* The operator's calls.

Command(t, name, b) ==
    /\ name \in Commands
    /\ Len(commands) < MaxCommands
    /\ commands' = Append(commands, name)
    /\ pc[t] = "idle"
    /\ Free
    /\ Known(b)

\* invalidateblock, up to the loop that disconnects the block.
InvalidateBlock(t, b) ==
    /\ Command(t, "invalidateblock", b)
    /\ b # Genesis
    /\ failedValid' = failedValid \cup {b}
    /\ candidates' = candidates \ {b}
    /\ most' = [most EXCEPT ![t] = b]
    /\ Goto(t, "invalidate")
    /\ UNCHANGED <<index, data, undo, processed, linked, failedChild, arrival, unlinked, tip,
                   flags, oldTip, queue>>

\* The tip is the block or descends from it.  If its data is gone the node is
\* aborted, if its undo data is gone the call goes on to ActivateBestChain.
InvalidateTip(t) ==
    /\ pc[t] = "invalidate"
    /\ most[t] \in chainActive
    /\ failedChild' = failedChild \cup {tip}
    /\ candidates' = candidates \ {tip}
    /\ IF CanDisconnect(tip)
       THEN tip' = Prev(tip) /\ UNCHANGED <<pc, most, aborted>>
       ELSE /\ Goto(t, IF tip \in data THEN "activate" ELSE "idle")
            /\ most' = [most EXCEPT ![t] = None]
            /\ aborted' = TRUE
            /\ UNCHANGED tip
    /\ UNCHANGED <<index, data, undo, processed, linked, failedValid, arrival, unlinked,
                   havePruned, oldTip, queue, commands>>

\* Variant of Reinstated: only the new tip is.
ReinstatedTip == {tip}

\* Every valid block that is not worse than the new tip is a candidate again.
Reinstated == {b \in linked : ~Failed(b) /\ ~Worse(b, tip)}

InvalidateEnd(t) ==
    /\ pc[t] = "invalidate"
    /\ most[t] \notin chainActive
    /\ candidates' = candidates \cup Reinstated
    /\ most' = [most EXCEPT ![t] = None]
    /\ Goto(t, "activate")
    /\ UNCHANGED <<index, status, arrival, unlinked, tip, flags, oldTip, queue, commands>>

\* The blocks reconsiderblock b forgives: its descendants, then its ancestors.
Descendants(b) == {d \in Block : Known(d) /\ b \in Lineage(d)}

ReconsiderBlock(t, b) ==
    /\ Command(t, "reconsiderblock", b)
    /\ failedValid' = failedValid \ (Descendants(b) \cup Lineage(b))
    /\ failedChild' = failedChild \ (Descendants(b) \cup Lineage(b))
    /\ candidates' = candidates \cup
          {d \in Descendants(b) : Failed(d) /\ d \in linked /\ Worse(tip, d)}
    /\ Goto(t, "activate")
    /\ UNCHANGED <<index, data, undo, processed, linked, arrival, unlinked, tip, flags,
                   most, oldTip, queue>>

\* No thread is inside ProcessNewBlock, ActivateBestChain or an RPC call.
Quiet == \A t \in Thread : pc[t] = "idle"

\* The orders in which the allocator can place the members of a set.
addresses(S) == {order \in [1..Cardinality(S) -> S] : S \subseteq Members(order)}

\* Variant of Linkable: only the parent is looked at.
LinkableByParent == {b \in processed : b = Genesis \/ Prev(b) \in processed}

\* The blocks LoadBlockIndexDB can link: those received with their ancestors.
Linkable == {b \in processed : Lineage(b) \subseteq processed}

\* Variant of LoadedCandidates: the tip is not one.
LoadedWithoutTip(order, child) ==
    {b \in Linkable \ {tip} : b \notin failedValid \cup child /\ ~WorseIn(order, b, tip)}

\* setBlockIndexCandidates after LoadBlockIndexDB, given the addresses of the
\* blocks and the BLOCK_FAILED_CHILD marks that were on disk.
LoadedCandidates(order, child) ==
    {b \in Linkable : b \notin failedValid \cup child /\ ~WorseIn(order, b, tip)}

\* The node is stopped, with all of its state flushed, and started again.  The
\* blocks loaded all have the sequence id 0, which leaves their addresses to
\* tell them apart.  A mark that FindMostWorkChain set is written only if the
\* block is for another reason.  ThreadImport calls ActivateBestChain.
Restart(t) ==
    /\ Command(t, "restart", Genesis)
    /\ Quiet
    /\ linked' = Linkable
    /\ \E order \in addresses(processed), child \in SUBSET failedChild :
          /\ failedChild' = child
          /\ arrival' = Filter(order, Linkable)
          /\ unlinked' = Filter(order, Block \ Linkable)
          /\ candidates' = LoadedCandidates(order, child)
    /\ Goto(t, "activate")
    /\ UNCHANGED <<index, data, undo, processed, failedValid, tip, flags, most, oldTip, queue>>

-----------------------------------------------------------------------------
\* Variant of PruneOneBlockFile: BLOCK_HAVE_UNDO stays.
PruneKeepsUndo(b) ==
    /\ Prunes
    /\ Free \/ \E t \in Thread : pc[t] \in {"step", "invalidate"}
    /\ b \in data
    /\ nHeight(tip) > PruneAfter
    /\ nHeight(b) <= nHeight(tip) - Keep
    /\ data' = data \ {b}
    /\ unlinked' = Filter(unlinked, Block \ {b})
    /\ havePruned' = TRUE
    /\ UNCHANGED <<index, undo, processed, linked, failedValid, failedChild, arrival, candidates,
                   tip, aborted, threads, commands>>

\* FlushStateToDisk deletes an old block file: when cs_main is free, or in the
\* flush of ConnectTip and DisconnectTip.
PruneOneBlockFile(b) ==
    /\ Prunes
    /\ Free \/ \E t \in Thread : pc[t] \in {"step", "invalidate"}
    /\ b \in data
    /\ nHeight(tip) > PruneAfter
    /\ nHeight(b) <= nHeight(tip) - Keep
    /\ data' = data \ {b}
    /\ undo' = undo \ {b}
    /\ unlinked' = Filter(unlinked, Block \ {b})
    /\ havePruned' = TRUE
    /\ UNCHANGED <<index, processed, linked, failedValid, failedChild, arrival, candidates, tip,
                   aborted, threads, commands>>

-----------------------------------------------------------------------------
ProcessNewBlock(t) ==
    \E b \in Hash, p \in Block, requested \in BOOLEAN :
        \/ IgnoreBlock(t, b, p, requested)
        \/ RejectBlock(t, b, p, requested)
        \/ StoreBlock(t, b, p, requested)

FindMostWorkChain(t) ==
    \/ \E c, x \in Block : DiscardCandidate(t, c, x)
    \/ \E c \in Block : ChooseCandidate(t, c)
    \/ NothingToDo(t)

ActivateBestChainStep(t) ==
    DisconnectTip(t) \/ StepFails(t) \/ ConnectTip(t) \/ InvalidBlockFound(t)

\* What a thread does on its own, once it has been given something to do.
Proceed(t) == \/ LinkBlock(t) \/ FindMostWorkChain(t) \/ ActivateBestChainStep(t)
              \/ Loop(t) \/ InvalidateTip(t) \/ InvalidateEnd(t)

Next == \/ \E b \in Hash, p \in Block : AcceptBlockHeader(b, p)
        \/ \E t \in Thread : \/ ProcessNewBlock(t) \/ Activate(t) \/ Proceed(t)
                             \/ \E b \in Block : InvalidateBlock(t, b) \/ ReconsiderBlock(t, b)
                             \/ Restart(t)
        \/ \E b \in Block : PruneOneBlockFile(b)

Spec == Init /\ [][Next]_vars

\* A thread goes on with what it does, and a thread that waits for cs_main gets
\* it in the end, though others take it in between.
Fairness == \A t \in Thread : WF_vars(Proceed(t)) /\ SF_vars(Activate(t))

FairSpec == Spec /\ Fairness

-----------------------------------------------------------------------------
\* What CheckBlockIndex asserts (src/src/main.cpp:4137), and what the choice of
\* the chain is for.

Label == {"idle", "link", "activate", "find", "step", "loop", "invalidate"}

\* Types, and the bits of nStatus that imply each other.
TypeOK == /\ branch \in [Block -> Seq(Block)]
          /\ nChainWork \in [Block -> Nat]
          /\ undo \subseteq data /\ data \subseteq processed /\ linked \subseteq processed
          /\ \A b \in processed \cup failedValid \cup failedChild : b \in Block /\ Known(b)
          /\ arrival \in Seq(Block)
          /\ linked \subseteq Members(arrival)
          /\ candidates \subseteq linked \cup Members(queue)
          /\ unlinked \in Seq(processed)
          /\ tip \in linked \cup Members(queue)
          /\ havePruned \in BOOLEAN /\ (~havePruned => data = processed)
          /\ aborted \in BOOLEAN
          /\ pc \in [Thread -> Label]
          /\ most \in [Thread -> Block \cup {None}]
          /\ oldTip \in Block \cup {None}
          /\ queue \in Seq(Block)
          /\ commands \in Seq(Commands)

\* reconsiderblock was called: it does not link the descendants of a block that
\* arrived while it was marked as failed, and does not make candidates of the
\* ancestors it forgives.
Reconsidered == "reconsiderblock" \in Members(commands)

\* Whenever cs_main is free, nChainTx is set only for blocks that were received
\* with all their ancestors, and for all of those that have no invalid
\* ancestor, in whatever order they arrived and however often the node was
\* restarted (src/src/main.cpp:4208), unless reconsiderblock was used.  A block
\* that was pruned before its ancestors arrived, and those that wait for it, are
\* excepted.
LinkedExact ==
    Free => \A b \in Block : Known(b) =>
        /\ b \in linked => Lineage(b) \subseteq processed
        /\ /\ ~Reconsidered
           /\ Lineage(b) \subseteq linked \cup data
           /\ Lineage(b) \cap failedValid = {}
           => b \in linked

\* Whenever cs_main is free, a block is marked as failed only if it or an
\* ancestor failed validation or was invalidated.
FailedHasCause == Free => \A b \in Block : Failed(b) => Lineage(b) \cap failedValid # {}

\* A block at least as good as the tip, with no invalid ancestor and with the
\* data of its ancestors (the tip itself may have lost them).
MustBeCandidate(b) ==
    /\ b \in linked
    /\ ~Worse(b, tip)
    /\ Lineage(b) \cap failedValid = {}
    /\ Lineage(b) \subseteq data \/ b = tip

\* Whenever cs_main is free, setBlockIndexCandidates has every such block: what
\* CheckBlockIndex asserts, from whichever thread it is called.
CandidatesComplete == Free => \A b \in Block : MustBeCandidate(b) => b \in candidates

\* Once no thread is inside ActivateBestChain, unless a call failed or was
\* reconsiderblock, it has, and a block with data that would be a candidate but
\* for a pruned ancestor waits in mapBlocksUnlinked: it comes back when the
\* data does.
CandidatesSettled ==
    (Quiet /\ ~aborted /\ ~Reconsidered) => \A b \in linked :
        (~Worse(b, tip) /\ Lineage(b) \cap failedValid = {} /\ b \in data) =>
            \/ b \in candidates
            \/ b # tip /\ ~(Lineage(b) \subseteq data) /\ b \in Members(unlinked)

\* Whenever cs_main is free, a candidate is linked and has the work of the tip,
\* though tips change in between.  It does not sort before the tip either, as
\* long as nothing was pruned: a block received again gets a new sequence id.
CandidatesUseful ==
    Free => \A b \in candidates : /\ b \in linked
                                  /\ nChainWork[b] >= nChainWork[tip]
                                  /\ ~havePruned => ~Worse(b, tip)

\* nChainTx is set exactly for the blocks received with all their ancestors:
\* what CheckBlockIndex asserts (src/src/main.cpp:4208), where no block failed.
ChainTxExact ==
    (Free /\ failedValid = {}) =>
        \A b \in Block : Known(b) => (b \in linked <=> Lineage(b) \subseteq processed)

\* Whenever cs_main is free, mapBlocksUnlinked has every block that waits for
\* an ancestor never received, and no block that waits for nothing: a block
\* that is not in it when its ancestor arrives is never connected.
UnlinkedExact ==
    Free => \A b \in data \ {Genesis} :
        /\ b \in Members(unlinked) => ~(Lineage(b) \subseteq data)
        /\ (b \notin linked /\ Lineage(b) \cap failedValid = {}) => b \in Members(unlinked)

\* The tip could be moved to b, which is better.
CanSwitchTo(b) ==
    /\ b \in linked
    /\ Worse(tip, b)
    /\ \A x \in Lineage(b) : ~Failed(x)
    /\ OffChain(b) \subseteq data
    /\ \A x \in chainActive \ Lineage(b) : CanDisconnect(x)

\* When all calls have returned, the active chain is the best one known: "The
\* result is either failure or an activated best chain"
\* (src/src/main.cpp:2915), unless reconsiderblock was used.
BestChain == (Quiet /\ ~aborted /\ ~Reconsidered) => \A b \in Block : ~CanSwitchTo(b)

\* Every call returns: ActivateBestChain makes progress each time round its
\* loop, whatever turns out to be invalid.
ActivationEnds == \A t \in Thread : pc[t] # "idle" ~> pc[t] = "idle"
=============================================================================
