------------------------------- MODULE Download -------------------------------
(***************************************************************************)
(* Block download from several peers (src/src/main.cpp): what each peer    *)
(* announced, the blocks in flight from it, the moving window, and the two *)
(* timeouts that close a connection, for stalling the window and for a     *)
(* block that does not come.                                               *)
(*                                                                         *)
(* Peers are free: they announce, send headers and send blocks in any      *)
(* order, twice, unasked or never, and close the connection.  So no        *)
(* message queue is kept: a message is an action that may happen while the *)
(* connection is open.  Peers in Prompt keep to the protocol: they answer  *)
(* what they are asked for before the next tick of the clock, and send     *)
(* only valid blocks, headers that connect, and no block before its        *)
(* parent's header.                                                        *)
(*                                                                         *)
(* All handlers run under cs_main, in the message thread; FinalizeNode     *)
(* runs in the socket thread.  Work is height: blocks of one difficulty.   *)
(* Blocks from height Recent on are close to the present.  The number of   *)
(* a node is used again after FinalizeNode.  Left out are whitelisted and  *)
(* one-shot peers, messages other than these three and malformed ones,     *)
(* with the points they can cost (see Drop), and the requests for headers: *)
(* headers may come unasked, so that fSyncStarted decides nothing here.    *)
(***************************************************************************)
EXTENDS Integers, Sequences, FiniteSets, SequencesExt

CONSTANTS Hash,           \* blocks other than the genesis block
          Genesis,
          Branch,         \* the blocks from the genesis block to each block
          Bad,            \* blocks that fail ContextualCheckBlock
          Peer,           \* node ids
          Prompt,         \* peers that answer in time
          Preferred,      \* peers with fPreferredDownload
          MaxInTransit,   \* MAX_BLOCKS_IN_TRANSIT_PER_PEER
          Window,         \* BLOCK_DOWNLOAD_WINDOW
          Keep,           \* MIN_BLOCKS_TO_KEEP
          CatchUp,        \* 24 * 6, blocks the tip may be behind after the initial download
          Recent,         \* height from which blocks are close to the present
          TimeoutBase,    \* BLOCK_DOWNLOAD_TIMEOUT_BASE, in ticks
          TimeoutPerPeer, \* BLOCK_DOWNLOAD_TIMEOUT_PER_PEER
          StallTimeout,   \* BLOCK_STALLING_TIMEOUT
          BanScore,       \* -banscore, in tens of points
          MaxConnect,     \* bound: connections
          None            \* no block, no peer

Block == Hash \cup {Genesis}
nHeight(h) == Len(Branch[h]) - 1
GetAncestor(h, i) == Branch[h][i + 1]
Parent(h) == GetAncestor(h, nHeight(h) - 1)

\* The blocks on the way from the genesis block to each block, itself included.
AncestorSets == [h \in Block |-> ToSet(Branch[h])]
Ancestors(h) == AncestorSets[h]

ASSUME BlockAssumption == Genesis \notin Hash /\ None \notin Block \cup Peer
ASSUME BranchAssumption == /\ Branch \in [Block -> Seq(Block)]
                           /\ Branch[Genesis] = <<Genesis>>
                           /\ \A h \in Hash : \E p \in Block : Branch[h] = Append(Branch[p], h)
ASSUME PeerAssumption == /\ IsFiniteSet(Peer) /\ Prompt \subseteq Peer /\ Preferred \subseteq Peer
                         /\ Bad \subseteq Hash
ASSUME BoundAssumption == /\ MaxInTransit \in Nat \ {0} /\ Window \in Nat \ {0}
                          /\ Keep \in Nat /\ CatchUp \in Nat /\ Recent \in Nat /\ MaxConnect \in Nat
                          /\ TimeoutBase \in Nat /\ TimeoutPerPeer \in Nat /\ StallTimeout \in Nat
                          /\ BanScore \in Nat \ {0}

VARIABLES
    index,        \* mapBlockIndex: known headers
    data,         \* BLOCK_HAVE_DATA
    failed,       \* BLOCK_FAILED_VALID
    tip,          \* chainActive.Tip()
    synced,       \* lockIBDState: the initial block download is over
    connected,    \* mapNodeState: nodes that were initialised and not finalised
    closing,      \* fDisconnect
    state,        \* CNodeState of each node
    inFlight,     \* mapBlocksInFlight: the node each block is requested from
    nPeersWithValidatedDownloads,
    connects      \* number of connections so far

chain == <<index, data, failed, tip>>
vars == <<chain, synced, connected, closing, state, inFlight,
          nPeersWithValidatedDownloads, connects>>

\* Ticks are not counted past the longest timeout.
MaxAge == TimeoutBase + TimeoutPerPeer * (Cardinality(Peer) - 1) + 1

\* A node right after it connected.
CNodeState == [pindexBestKnownBlock |-> None, hashLastUnknownBlock |-> None,
               pindexLastCommonBlock |-> None, nMisbehavior |-> 0, fShouldBan |-> FALSE,
               stalling |-> None, vBlocksInFlight |-> <<>>, downloading |-> MaxAge,
               nBlocksInFlight |-> 0, nBlocksInFlightValidHeaders |-> 0]

Init ==
    /\ index = {Genesis} /\ data = {Genesis} /\ failed = {} /\ tip = Genesis
    /\ synced = FALSE
    /\ connected = {} /\ closing = {}
    /\ state = [p \in Peer |-> CNodeState]
    /\ inFlight = << >>
    /\ nPeersWithValidatedDownloads = 0
    /\ connects = 0
------------------------------------------------------------------------------
(***************************************************************************)
(* Blocks.                                                                 *)
(***************************************************************************)
chainActive == Ancestors(tip)

\* nChainTx is set: the block and all its ancestors were received.
Linked(h) == Ancestors(h) \subseteq data

\* ActivateBestChain with the blocks of have: the tip becomes a linked block with the most work.
Tips(have) ==
    LET linked == {h \in have : Ancestors(h) \subseteq have}
        better == {h \in linked : nHeight(h) > nHeight(tip)}
        most == {h \in better : \A other \in better : nHeight(other) <= nHeight(h)}
    IN IF better = {} THEN {tip} ELSE most

BestHeader == CHOOSE n \in {nHeight(h) : h \in index} : \A h \in index : nHeight(h) <= n

Behind == nHeight(tip) < BestHeader - CatchUp \/ BestHeader < Recent

\* Who calls it when the tip is not behind ends the initial download for good.
IsInitialBlockDownload == ~synced /\ Behind

CanDirectFetch == nHeight(tip) >= Recent

\* Variant: headers are accepted without their parent.
RefusedFailed(h, known) == IF h \in known /\ h \in failed THEN "duplicate" ELSE "no"

\* Why AcceptBlockHeader refuses a header when the headers of known are in the index.
Refused(h, known) ==
    CASE h \in known -> IF h \in failed THEN "duplicate" ELSE "no"
      [] h \notin known /\ Parent(h) \notin known -> "orphan"
      [] h \notin known /\ Parent(h) \in known -> IF Parent(h) \in failed THEN "prev" ELSE "no"

\* What the refusal of a header costs its sender, in tens of points.
DoS(refusal) == CASE refusal = "orphan" -> 1
                  [] refusal = "prev" -> 10
                  [] refusal \notin {"orphan", "prev"} -> 0

\* Points are counted up to the threshold; crossing it is what bans.
Misbehaving(s, howmuch) ==
    LET score == s.nMisbehavior + howmuch
    IN [s EXCEPT !.nMisbehavior = IF score < BanScore THEN score ELSE BanScore,
                 !.fShouldBan = @ \/ (s.nMisbehavior < BanScore /\ score >= BanScore)]

\* A block that was not received and is not requested.
Wanted(h) == h \notin data /\ h \notin DOMAIN inFlight /\ h \notin chainActive
------------------------------------------------------------------------------
(***************************************************************************)
(* The bookkeeping of blocks in flight, on a record of the three           *)
(* variables it changes.                                                   *)
(***************************************************************************)
Downloads == [state |-> state, flight |-> inFlight, peers |-> nPeersWithValidatedDownloads]

SetDownloads(d) ==
    \E r \in {d} :
        state' = r.state /\ inFlight' = r.flight /\ nPeersWithValidatedDownloads' = r.peers

\* Where h is in the queue of a node (the iterator that mapBlocksInFlight keeps), and its entry.
Position(s, h) == CHOOSE i \in DOMAIN s.vBlocksInFlight : s.vBlocksInFlight[i].hash = h
Entry(s, h) == s.vBlocksInFlight[Position(s, h)]

\* Variant: the accusation of stalling stays.
ReceivedStalling(s, h) ==
    LET queue == s.vBlocksInFlight
    IN [s EXCEPT !.vBlocksInFlight = RemoveAt(queue, Position(s, h)),
                 !.nBlocksInFlight = @ - 1,
                 !.nBlocksInFlightValidHeaders = IF Entry(s, h).fValidatedHeaders THEN @ - 1 ELSE @,
                 !.downloading = IF Head(queue).hash = h THEN 0 ELSE @]

\* A node after h, which was requested from it, arrived from some node.
Received(s, h) ==
    LET queue == s.vBlocksInFlight
    IN [s EXCEPT !.vBlocksInFlight = RemoveAt(queue, Position(s, h)),
                 !.nBlocksInFlight = @ - 1,
                 !.nBlocksInFlightValidHeaders = IF Entry(s, h).fValidatedHeaders THEN @ - 1 ELSE @,
                 !.stalling = None,
                 !.downloading = IF Head(queue).hash = h THEN 0 ELSE @]

\* Variant: the entry itself is not looked at.
LastOfAny(s, h) == Received(s, h).nBlocksInFlightValidHeaders = 0

\* Last validated block on the queue was received.
LastValidated(s, h) ==
    Received(s, h).nBlocksInFlightValidHeaders = 0 /\ Entry(s, h).fValidatedHeaders

MarkBlockAsReceived(d, h) ==
    IF h \notin DOMAIN d.flight THEN d
    ELSE LET s == d.state[d.flight[h]]
         IN [state |-> [d.state EXCEPT ![d.flight[h]] = Received(s, h)],
             flight |-> [x \in DOMAIN d.flight \ {h} |-> d.flight[x]],
             peers |-> IF LastValidated(s, h) THEN d.peers - 1 ELSE d.peers]

\* Variant: the clock of the last download goes on.
RestartedNever(s) == s.downloading

\* The clock starts with the first block requested.
Restarted(s) == IF s.nBlocksInFlight = 0 THEN 0 ELSE s.downloading

\* The blocks of a sequence are marked as in flight from p, one after the other.  They are in no
\* queue: every caller has looked in mapBlocksInFlight.  validated is pindex != NULL.
MarkBlocksAsInFlight(d, p, hashes, validated) ==
    LET s == d.state[p]
        entries == [i \in DOMAIN hashes |-> [hash |-> hashes[i], fValidatedHeaders |-> validated]]
    IN IF hashes = <<>> THEN d
       ELSE [state |-> [d.state EXCEPT ![p] =
                 [s EXCEPT !.vBlocksInFlight = @ \o entries,
                           !.nBlocksInFlight = @ + Len(hashes),
                           !.nBlocksInFlightValidHeaders = IF validated THEN @ + Len(hashes) ELSE @,
                           !.downloading = Restarted(s)]],
             flight |-> [h \in DOMAIN d.flight \cup ToSet(hashes) |->
                            IF h \in ToSet(hashes) THEN p ELSE d.flight[h]],
             peers |-> IF validated /\ s.nBlocksInFlightValidHeaders = 0 THEN d.peers + 1 ELSE d.peers]

\* The blocks of the branch to h at the given heights, lowest first.
Ascending(heights) == CHOOSE s \in [1..Cardinality(heights) -> heights] :
                          \A i, j \in DOMAIN s : i < j => s[i] < s[j]
BlocksAt(h, heights) == LET order == Ascending(heights)
                        IN [i \in 1..Cardinality(heights) |-> GetAncestor(h, order[i])]

\* The better of two blocks a peer announced, the later one if they have equal work.
Better(best, h) == IF best = None \/ nHeight(h) >= nHeight(best) THEN h ELSE best

\* The last unknown block may have become known; known is the index.
ProcessBlockAvailability(s, known) ==
    IF s.hashLastUnknownBlock \in known
    THEN [s EXCEPT !.pindexBestKnownBlock = Better(@, s.hashLastUnknownBlock),
                   !.hashLastUnknownBlock = None]
    ELSE s

UpdateBlockAvailability(s, h, known) ==
    LET u == ProcessBlockAvailability(s, known)
    IN IF h \in known THEN [u EXCEPT !.pindexBestKnownBlock = Better(@, h)]
       ELSE [u EXCEPT !.hashLastUnknownBlock = h]
------------------------------------------------------------------------------
(***************************************************************************)
(* FindNextBlocksToDownload: Located brings a node's state up to date,     *)
(* then a walk from the last common block towards the node's best block    *)
(* finds the heights to fetch on that branch and the node that stalls the  *)
(* window.                                                                 *)
(***************************************************************************)
LastCommonAncestor(a, b) ==
    CHOOSE c \in Ancestors(a) \cap Ancestors(b) :
        \A x \in Ancestors(a) \cap Ancestors(b) : nHeight(x) <= nHeight(c)

Lowest(S, default) == IF S = {} THEN default ELSE CHOOSE i \in S : \A j \in S : i <= j

\* chainActive[min(height of the peer's best block, our height)]
GuessedCommonBlock(best) ==
    GetAncestor(tip, IF nHeight(best) < nHeight(tip) THEN nHeight(best) ELSE nHeight(tip))

Interesting(s) ==
    s.pindexBestKnownBlock # None /\ nHeight(s.pindexBestKnownBlock) >= nHeight(tip)

Located(s) ==
    LET best == s.pindexBestKnownBlock
        guess == IF s.pindexLastCommonBlock = None THEN GuessedCommonBlock(best)
                 ELSE s.pindexLastCommonBlock
    IN IF Interesting(s) THEN [s EXCEPT !.pindexLastCommonBlock = LastCommonAncestor(guess, best)]
       ELSE s

\* The heights the walk can look at: up to one beyond the window.
Ahead(s) ==
    LET start == nHeight(s.pindexLastCommonBlock)
        best == nHeight(s.pindexBestKnownBlock)
    IN IF Interesting(s) THEN start + 1..(IF best <= start + Window THEN best ELSE start + Window + 1)
       ELSE {}

\* The block of the walk at height i.
At(s, i) == GetAncestor(s.pindexBestKnownBlock, i)

InWindow(s, i) == i <= nHeight(s.pindexLastCommonBlock) + Window

WantedAhead(s) == {i \in Ahead(s) : Wanted(At(s, i))}

\* The height where the walk ends: an invalid block, a wanted one beyond the window, or the
\* last of count wanted ones.
WalkEnd(s, wanted, count) ==
    Lowest({i \in Ahead(s) : \/ At(s, i) \in failed
                             \/ i \in wanted /\ ~InWindow(s, i)
                             \/ i \in wanted /\ Cardinality({j \in wanted : j <= i}) = count},
           nHeight(s.pindexBestKnownBlock) + 1)

\* The wanted heights within the walk.
Fetched(s, wanted, end) ==
    {i \in wanted : i <= end /\ InWindow(s, i) /\ At(s, i) \notin failed}

\* Variant: nChainTx is not looked at.
AdvancedUnlinked(s, end) ==
    LET ours == {i \in Ahead(s) : i < end /\ At(s, i) \in data \cup chainActive}
    IN IF ours = {} THEN s
       ELSE [s EXCEPT !.pindexLastCommonBlock = At(s, CHOOSE i \in ours : \A j \in ours : j <= i)]

\* The last common block moves up to the last linked one the walk has seen.
Advanced(s, end) ==
    LET ours == {i \in Ahead(s) : i < end /\ At(s, i) \in data \cup chainActive /\ Linked(At(s, i))}
    IN IF ours = {} THEN s
       ELSE [s EXCEPT !.pindexLastCommonBlock = At(s, CHOOSE i \in ours : \A j \in ours : j <= i)]

\* nodeStaller: nothing can be fetched because the window waits for a block from another node.
Staller(s, p, wanted, end) ==
    LET waiting == {i \in Ahead(s) : i < end /\ At(s, i) \in DOMAIN inFlight}
        stuck == end \in wanted /\ ~InWindow(s, end) /\ At(s, end) \notin failed
    IN IF waiting # {} /\ stuck /\ Fetched(s, wanted, end) = {} /\ inFlight[At(s, Lowest(waiting, 0))] # p
       THEN inFlight[At(s, Lowest(waiting, 0))] ELSE None
------------------------------------------------------------------------------
(***************************************************************************)
(* Connections.                                                            *)
(***************************************************************************)
Open(p) == p \in connected \ closing

\* InitializeNode, and the version message that makes a peer useful.
InitializeNode(p) ==
    /\ p \notin connected /\ connects < MaxConnect
    /\ connected' = connected \cup {p}
    /\ connects' = connects + 1
    /\ UNCHANGED <<chain, synced, closing, state, inFlight, nPeersWithValidatedDownloads>>

\* The peer goes away, is evicted, or is banned for other messages.
Drop(p) ==
    /\ Open(p) /\ p \notin Prompt
    /\ closing' = closing \cup {p}
    /\ UNCHANGED <<chain, synced, connected, state, inFlight, nPeersWithValidatedDownloads,
                   connects>>

\* mapBlocksInFlight without the blocks in the queue of p.
Abandoned(p) ==
    LET hashes == {e.hash : e \in ToSet(state[p].vBlocksInFlight)}
    IN [h \in DOMAIN inFlight \ hashes |-> inFlight[h]]

FinalizeNode(p) ==
    /\ p \in closing
    /\ UNCHANGED <<chain, synced, connects>>
    /\ connected' = connected \ {p} /\ closing' = closing \ {p}
    /\ state' = [state EXCEPT ![p] = CNodeState]
    /\ inFlight' = Abandoned(p)
    /\ nPeersWithValidatedDownloads' = IF state[p].nBlocksInFlightValidHeaders # 0
                                       THEN nPeersWithValidatedDownloads - 1
                                       ELSE nPeersWithValidatedDownloads
------------------------------------------------------------------------------
(***************************************************************************)
(* Messages of a peer.                                                     *)
(***************************************************************************)

\* Only valid blocks come from a prompt peer.
Sends(p, h) == p \in Prompt => Ancestors(h) \cap Bad = {}

\* inv: a block announced by its hash, fetched at once if we are close to the present.
InvMessage(p, h) ==
    /\ Open(p) /\ Sends(p, h)
    /\ LET s == UpdateBlockAvailability(state[p], h, index)
           new == h \notin index /\ h \notin DOMAIN inFlight
           fetch == new /\ CanDirectFetch /\ s.nBlocksInFlight < MaxInTransit
       IN SetDownloads(MarkBlocksAsInFlight([Downloads EXCEPT !.state[p] = s], p,
                                            IF fetch THEN <<h>> ELSE <<>>, FALSE))
    /\ UNCHANGED <<chain, synced, connected, closing, connects>>

\* How many more blocks can be requested from a node.
Room(s) == MaxInTransit - s.nBlocksInFlight

\* Heights fetched after headers up to h were accepted: all that is missing on the way from the
\* active chain to h, unless that is too much, as many as the node may have in transit.
DirectFetch(s, h) ==
    LET fork == nHeight(LastCommonAncestor(h, tip))
        missing == {i \in fork + 1..nHeight(h) : Wanted(GetAncestor(h, i))}
        reached == \/ Cardinality(missing) <= MaxInTransit
                   \/ Cardinality(missing) = MaxInTransit + 1 /\ fork + 1 \in missing
    IN IF CanDirectFetch /\ nHeight(tip) <= nHeight(h) /\ reached
       THEN {i \in missing : Cardinality({j \in missing : j <= i}) <= Room(s)} ELSE {}

\* headers: those of the branch to h from height first on.  They enter the index one by one up to
\* the first that is refused.
HeadersMessage(p, h, first) ==
    /\ Open(p) /\ Sends(p, h) /\ (p \in Prompt => Parent(GetAncestor(h, first)) \in index)
    /\ UNCHANGED <<data, failed, tip, synced, connected, closing, connects>>
    /\ LET before(i) == index \cup {GetAncestor(h, j) : j \in first..i - 1}
           refused == {i \in first..nHeight(h) : Refused(GetAncestor(h, i), before(i)) # "no"}
           end == Lowest(refused, nHeight(h) + 1)
           known == before(end)
           s == UpdateBlockAvailability(state[p], h, known)
           d == [Downloads EXCEPT !.state[p] = s]
       IN /\ index' = known
          /\ IF refused = {} THEN SetDownloads(MarkBlocksAsInFlight(d, p, BlocksAt(h, DirectFetch(s, h)), TRUE))
             ELSE SetDownloads([Downloads EXCEPT !.state[p] =
                                    Misbehaving(@, DoS(Refused(GetAncestor(h, end), known)))])

\* Blocks AcceptBlock keeps: all that were requested, others only if they lead the tip.
Processed(h, requested) ==
    /\ h \notin data
    /\ requested \/ (nHeight(h) > nHeight(tip) /\ nHeight(h) <= nHeight(tip) + Keep)

\* The bookkeeping after h came from p, whoever was asked for it.
Arrived(p, h) == MarkBlockAsReceived(Downloads, h)

\* block: ProcessNewBlock.  The block is no longer in flight whatever becomes of it; intact says
\* that it passes CheckBlock (a block with a changed body has the same hash).
BlockMessage(p, h, intact) ==
    /\ Open(p) /\ Sends(p, h) /\ (p \in Prompt => intact /\ Parent(h) \in index)
    /\ UNCHANGED <<connected, closing, connects>>
    /\ \E refused \in {Refused(h, index)} :
       \E accepted \in {intact /\ refused = "no"} :
       \E stored \in {accepted /\ Processed(h, h \in DOMAIN inFlight)} :
       \E d \in {Arrived(p, h)} :
          /\ index' = IF accepted THEN index \cup {h} ELSE index
          /\ failed' = IF stored /\ h \in Bad THEN failed \cup {h} ELSE failed
          /\ data' = IF stored /\ h \notin Bad THEN data \cup {h} ELSE data
          /\ tip' \in Tips(data')
          /\ synced' = (synced \/ (tip' # tip /\ ~Behind'))
          /\ SetDownloads([d EXCEPT !.state[p] =
                 Misbehaving(@, IF ~intact \/ (stored /\ h \in Bad) THEN 10 ELSE DoS(refused))])
------------------------------------------------------------------------------
(***************************************************************************)
(* SendMessages: ban, the two timeouts, and the request of blocks.         *)
(***************************************************************************)
fFetch(p) == p \in Preferred \/ connected \cap Preferred = {}

\* A node that holds the window up for too long.
Stalls(p) == state[p].stalling # None /\ state[p].stalling > StallTimeout

nOtherPeersWithValidatedDownloads(p) ==
    nPeersWithValidatedDownloads - (IF state[p].nBlocksInFlightValidHeaders > 0 THEN 1 ELSE 0)

\* Variant: a node that was never accused does not time out.
TimesOutStalled(p) ==
    /\ state[p].vBlocksInFlight # <<>> /\ state[p].stalling # None
    /\ state[p].downloading > TimeoutBase + TimeoutPerPeer * nOtherPeersWithValidatedDownloads(p)

TimesOut(p) ==
    /\ state[p].vBlocksInFlight # <<>>
    /\ state[p].downloading > TimeoutBase + TimeoutPerPeer * nOtherPeersWithValidatedDownloads(p)

\* The node the window waits for is stalling from now on.
Accuse(d, p, staller) ==
    IF d.state[p].nBlocksInFlight = 0 /\ staller # None /\ d.state[staller].stalling = None
    THEN [d EXCEPT !.state[staller].stalling = 0] ELSE d

\* The state of a node once its ban is dealt with and its last announcement looked up.
Judged(p) == ProcessBlockAvailability([state[p] EXCEPT !.fShouldBan = FALSE], index)

Closes(p) == state[p].fShouldBan \/ Stalls(p) \/ TimesOut(p)

Fetches(p) ==
    /\ ~Closes(p)
    /\ fFetch(p) \/ ~IsInitialBlockDownload
    /\ state[p].nBlocksInFlight < MaxInTransit

SendMessages(p) ==
    /\ Open(p)
    /\ UNCHANGED <<chain, connected, connects>>
    /\ synced' = ~IsInitialBlockDownload
    /\ closing' = IF Closes(p) THEN closing \cup {p} ELSE closing
    /\ IF Fetches(p)
       THEN \E s \in {Located(Judged(p))} :
            \E wanted \in {WantedAhead(s)} :
            \E end \in {IF Interesting(s) THEN WalkEnd(s, wanted, Room(s)) ELSE 0} :
            \E hashes \in {BlocksAt(s.pindexBestKnownBlock, Fetched(s, wanted, end))} :
            \E d \in {[Downloads EXCEPT !.state[p] = Advanced(s, end)]} :
            \E marked \in {MarkBlocksAsInFlight(d, p, hashes, TRUE)} :
            \E staller \in {Staller(s, p, wanted, end)} :
                SetDownloads(Accuse(marked, p, staller))
       ELSE SetDownloads([Downloads EXCEPT !.state[p] = Judged(p)])

\* IsInitialBlockDownload is called from elsewhere too: getheaders, the miner, RPCs, the GUI.
Asked ==
    /\ synced' = ~IsInitialBlockDownload
    /\ UNCHANGED <<chain, connected, closing, state, inFlight, nPeersWithValidatedDownloads,
                   connects>>

\* Time passes, once the prompt peers have answered.
Older(age, max) == IF age < max THEN age + 1 ELSE age

Tick ==
    /\ \A p \in Prompt : state[p].vBlocksInFlight = <<>>
    /\ UNCHANGED <<chain, synced, connected, closing, inFlight, nPeersWithValidatedDownloads,
                   connects>>
    /\ state' = [p \in Peer |->
           [state[p] EXCEPT !.downloading = Older(@, MaxAge),
                            !.stalling = IF @ = None THEN @ ELSE Older(@, StallTimeout + 1)]]

Next ==
    \/ \E p \in Peer : InitializeNode(p) \/ Drop(p) \/ FinalizeNode(p) \/ SendMessages(p)
    \/ \E p \in Peer, h \in Hash : InvMessage(p, h)
    \/ \E p \in Peer, h \in Hash : \E first \in 1..nHeight(h) : HeadersMessage(p, h, first)
    \/ \E p \in Peer, h \in Hash, intact \in BOOLEAN : BlockMessage(p, h, intact)
    \/ Asked \/ Tick

Spec == Init /\ [][Next]_vars

\* A prompt peer sends a block that was requested from it, after the headers that lead to it (every
\* inv of an unknown block is answered with a getheaders, before the getdata).
Answer(p) == \E h \in DOMAIN inFlight :
                /\ inFlight[h] = p
                /\ \/ BlockMessage(p, h, TRUE)
                   \/ h \notin index /\ \E first \in 1..nHeight(h) : HeadersMessage(p, h, first)

\* The message thread visits every node (ThreadMessageHandler), the socket thread removes closed
\* ones, time goes on, and prompt peers answer.  Nothing is assumed of the others.
FairSpec ==
    /\ Spec
    /\ \A p \in Peer : WF_vars(SendMessages(p)) /\ WF_vars(FinalizeNode(p))
    /\ \A p \in Prompt : WF_vars(Answer(p))
    /\ WF_vars(Tick)
------------------------------------------------------------------------------
(***************************************************************************)
(* Properties.                                                             *)
(***************************************************************************)
NodeStates ==
    [pindexBestKnownBlock : Block \cup {None}, hashLastUnknownBlock : Hash \cup {None},
     pindexLastCommonBlock : Block \cup {None}, nMisbehavior : 0..BanScore, fShouldBan : BOOLEAN,
     stalling : 0..StallTimeout + 1 \cup {None},
     vBlocksInFlight : Seq([hash : Hash, fValidatedHeaders : BOOLEAN]), downloading : 0..MaxAge,
     nBlocksInFlight : 0..MaxInTransit, nBlocksInFlightValidHeaders : 0..MaxInTransit]

\* The variables have their types; no peer has more than MAX_BLOCKS_IN_TRANSIT_PER_PEER blocks in
\* flight, and a header is known only with all its ancestors.
TypeOK ==
    /\ \A h \in index : h \in Block /\ Ancestors(h) \subseteq index
    /\ data \subseteq index /\ failed \subseteq index \cap Bad /\ tip \in data
    /\ synced \in BOOLEAN
    /\ connected \subseteq Peer /\ closing \subseteq connected
    /\ state \in [Peer -> NodeStates]
    /\ DOMAIN inFlight \subseteq Hash /\ \A h \in DOMAIN inFlight : inFlight[h] \in connected
    /\ nPeersWithValidatedDownloads \in 0..Cardinality(Peer)
    /\ connects \in 0..MaxConnect

\* mapBlocksInFlight, the queues of the nodes and the three counters kept beside them agree in every
\* state, so that the assertions of FinalizeNode hold when the last node leaves: a block is in at
\* most one queue, and nPeersWithValidatedDownloads, which stretches everyone's timeout, counts
\* exactly the nodes with a validated block in flight.  No block we have, from whichever peer it
\* came, is still in flight (ProcessNewBlock calls MarkBlockAsReceived for the peer it was asked
\* from).  A block that failed may be: the direct fetch after a headers message does not look at
\* BLOCK_FAILED_MASK of the blocks below the last one, and asks for it again.
InFlightExact ==
    /\ \A p \in Peer : LET queue == state[p].vBlocksInFlight IN
           /\ {e.hash : e \in ToSet(queue)} = {h \in DOMAIN inFlight : inFlight[h] = p}
           /\ Len(queue) = Cardinality({h \in DOMAIN inFlight : inFlight[h] = p})
           /\ Len(queue) = state[p].nBlocksInFlight
           /\ state[p].nBlocksInFlightValidHeaders =
                  Cardinality({e \in ToSet(queue) : e.fValidatedHeaders})
    /\ nPeersWithValidatedDownloads =
           Cardinality({p \in Peer : state[p].nBlocksInFlightValidHeaders > 0})
    /\ DOMAIN inFlight \cap data = {}

\* A node accused of stalling owes us a block; the accusation does not outlive the debt
\* (MarkBlockAsReceived resets nStallingSince).
StallerOwes == \A p \in Peer : state[p].stalling # None => state[p].vBlocksInFlight # <<>>

\* The last common block is one we have with all its ancestors, on the branch of a block the
\* peer announced: the window never starts beyond a missing block.
CommonBlockLinked ==
    \A p \in Peer : state[p].pindexLastCommonBlock # None =>
        Linked(state[p].pindexLastCommonBlock)

\* A peer that keeps to the protocol is never closed, neither by the timeouts of SendMessages nor
\* for points (Misbehaving), whatever the others do and however they are scheduled: nobody pays for
\* a block that another one was asked for or has sent, and none of its own messages costs anything.
PromptPeerKept == Prompt \cap closing = {}

\* We have the best block a peer announced, or a branch with more work.
CaughtUp(p) ==
    LET best == state[p].pindexBestKnownBlock
    IN best = None \/ Linked(best) \/ nHeight(best) < nHeight(tip)

\* Time and again we catch up with every prompt peer: another peer can hold a block up, by taking
\* the request and not answering, but not for ever (stalling detection, download timeout and the
\* new request after FinalizeNode).
BlocksArrive == \A p \in Prompt : []<>CaughtUp(p)
=============================================================================
