--------------------------- MODULE BlockDownload ---------------------------
(***************************************************************************)
(* What the node knows of its peers and which blocks it has asked them for *)
(* (CNodeState and its users in main.cpp).  The message thread takes       *)
(* "version", "inv", "headers" and "block" messages in any order from any  *)
(* peer and runs SendMessages for each peer in turn; the socket threads    *)
(* create and destroy peers.                                               *)
(*                                                                         *)
(* What holds cs_main.  InitializeNode, FinalizeNode and SendMessages do,  *)
(* and so do "inv" and "headers" around all they change, one step each.    *)
(* "block" takes it once to store the block, again for each step of        *)
(* ActivateBestChain and for Misbehaving: it is one step because it stays  *)
(* on the message thread, and what the socket threads may do in between    *)
(* is to the records of other peers.  "version" never takes it:            *)
(* UpdatePreferredDownload reads and writes nPreferredDownload twice while *)
(* FinalizeNode may do so for another peer.  These two are split at the    *)
(* reads and writes of that count.                                         *)
(*                                                                         *)
(* A block and its hash are one name.  The clock is abstracted: a timeout  *)
(* may have passed at any call of SendMessages, and so may the tip be      *)
(* recent or not.  Honest peers are those assumed to answer in time; any   *)
(* other peer may send anything or nothing.  Which chain is activated is   *)
(* BlockIndex's subject: here ActivateBestChain is what it does when it    *)
(* runs to its end.  A misbehaviour score is abstracted to its effect: it  *)
(* may or may not pass the threshold.                                      *)
(***************************************************************************)
EXTENDS Integers, FiniteSets

CONSTANTS
    Blocks, Genesis,
    Parent,         \* pprev
    Anc,            \* the ancestors of a block, the block included
    Height,         \* nHeight
    Work,           \* nChainWork
    BadHeader,      \* the headers that AcceptBlockHeader refuses
    Bad,            \* the blocks that AcceptBlock or, later, ConnectBlock refuses
    Peers,          \* node ids; each connection has a new one
    Outbound,       \* the peers that this node connected to
    OneShot,        \* peers connected only to ask for addresses
    Clients,        \* peers that do not serve blocks
    Honest,         \* peers that stay, announce HonestTip and answer in time
    HonestTip,
    NoBlock, NoPeer,
    MAX_BLOCKS_IN_TRANSIT_PER_PEER,
    BLOCK_DOWNLOAD_WINDOW

ASSUME TreeAssumption ==
    /\ IsFiniteSet(Blocks) /\ Genesis \in Blocks /\ NoBlock \notin Blocks
    /\ Parent \in [Blocks \ {Genesis} -> Blocks]
    /\ Anc \in [Blocks -> SUBSET Blocks]
    /\ Anc[Genesis] = {Genesis}
    /\ \A b \in Blocks \ {Genesis} : Anc[b] = Anc[Parent[b]] \cup {b}
    /\ \A b \in Blocks : Genesis \in Anc[b]
    /\ \A b \in Blocks : \A a \in Anc[b] : Anc[a] \subseteq Anc[b]
    /\ \A b \in Blocks : \A a, c \in Anc[b] : a \in Anc[c] \/ c \in Anc[a]
    /\ Height \in [Blocks -> Nat]
    /\ Height[Genesis] = 0
    /\ \A b \in Blocks \ {Genesis} : Height[b] = Height[Parent[b]] + 1
    /\ \A b \in Blocks : \A a \in Anc[b] : Height[a] <= Height[b]
    /\ Work \in [Blocks -> Nat]
    /\ \A b \in Blocks \ {Genesis} : Work[Parent[b]] < Work[b]
ASSUME VerdictAssumption ==
    BadHeader \cup Bad \subseteq Blocks \ {Genesis}
ASSUME PeerAssumption ==
    /\ IsFiniteSet(Peers) /\ NoPeer \notin Peers
    /\ Outbound \cup OneShot \cup Clients \cup Honest \subseteq Peers
ASSUME HonestAssumption ==
    /\ Honest \subseteq Outbound \ (OneShot \cup Clients)
    /\ HonestTip \in Blocks
    /\ Anc[HonestTip] \cap (BadHeader \cup Bad) = {}
ASSUME LimitAssumption ==
    /\ MAX_BLOCKS_IN_TRANSIT_PER_PEER \in Nat \ {0}
    /\ BLOCK_DOWNLOAD_WINDOW \in Nat \ {0}

VARIABLES
    \* CNode
    node,               \* "new", "live" or "gone" (destroyed) for each node id
    greeted,            \* the peers with nVersion # 0
    fDisconnect,        \* the peers to be disconnected
    \* mapNodeState: the fields of CNodeState, each a set of peers or a function
    fShouldBan, fPreferredDownload, fSyncStarted,
    stalling,           \* the peers with nStallingSince # 0
    pindexBestKnownBlock, hashLastUnknownBlock, pindexLastCommonBlock,
    vBlocksInFlight,    \* the hashes of each peer's list of QueuedBlock
    nBlocksInFlight,
    \* globals under cs_main
    mapBlocksInFlight,  \* the peer each hash is asked from
    fValidatedHeaders,  \* the hashes in flight that were asked for with a header
    nQueuedValidatedHeaders, nPreferredDownload, nSyncStarted,
    \* the block index, as far as it matters here
    header,             \* mapBlockIndex
    have,               \* the blocks with BLOCK_HAVE_DATA
    failed,             \* the blocks with BLOCK_FAILED_MASK
    tip,                \* chainActive.Tip()
    \* UpdatePreferredDownload on the message thread, and FinalizeNode on another
    greeting,           \* the peer whose "version" is being handled
    updating,           \* which of its two updates is under way, or "idle"
    versionRead,        \* the value it has read of nPreferredDownload
    finalizing,         \* the peer whose FinalizeNode holds cs_main
    finalizeRead,       \* the value it has read of nPreferredDownload
    overlapped          \* history: some two of them have been under way together

connection == <<node, greeted>>
availability == <<pindexBestKnownBlock, hashLastUnknownBlock>>
inflight == <<vBlocksInFlight, nBlocksInFlight, mapBlocksInFlight, fValidatedHeaders,
              nQueuedValidatedHeaders>>
sync == <<fPreferredDownload, fSyncStarted, nPreferredDownload, nSyncStarted>>
index == <<header, have, failed, tip>>
unlocked == <<greeting, updating, versionRead, finalizing, finalizeRead, overlapped>>
vars == <<node, greeted, fDisconnect, fShouldBan, fPreferredDownload, fSyncStarted, stalling,
          pindexBestKnownBlock, hashLastUnknownBlock, pindexLastCommonBlock, vBlocksInFlight,
          nBlocksInFlight, mapBlocksInFlight, fValidatedHeaders, nQueuedValidatedHeaders,
          nPreferredDownload, nSyncStarted, header, have, failed, tip,
          greeting, updating, versionRead, finalizing, finalizeRead, overlapped>>

Live == {p \in Peers : node[p] = "live"}

\* cs_main is free, and so is the message thread.
LockFree == finalizing = NoPeer
ThreadFree == greeting = NoPeer

\* The hashes in flight: the keys of mapBlocksInFlight.
InFlight == {b \in Blocks : mapBlocksInFlight[b] # NoPeer}

\* The blocks with nChainTx # 0: no transaction is missing below them.
Linked(data) == {b \in data : Anc[b] \subseteq data}

\* The highest of a set of blocks of one branch.
Highest(S) == CHOOSE b \in S : \A c \in S : Height[c] <= Height[b]

Init ==
    /\ node = [p \in Peers |-> "new"]
    /\ greeted = {} /\ fDisconnect = {} /\ fShouldBan = {}
    /\ fPreferredDownload = {} /\ fSyncStarted = {} /\ stalling = {}
    /\ pindexBestKnownBlock = [p \in Peers |-> NoBlock]
    /\ hashLastUnknownBlock = [p \in Peers |-> NoBlock]
    /\ pindexLastCommonBlock = [p \in Peers |-> NoBlock]
    /\ vBlocksInFlight = [p \in Peers |-> {}]
    /\ nBlocksInFlight = [p \in Peers |-> 0]
    /\ mapBlocksInFlight = [b \in Blocks |-> NoPeer]
    /\ fValidatedHeaders = {}
    /\ nQueuedValidatedHeaders = 0 /\ nPreferredDownload = 0 /\ nSyncStarted = 0
    /\ header = {Genesis} /\ have = {Genesis} /\ failed = {} /\ tip = Genesis
    /\ greeting = NoPeer /\ updating = "idle" /\ versionRead = 0
    /\ finalizing = NoPeer /\ finalizeRead = 0 /\ overlapped = FALSE

-----------------------------------------------------------------------------
(* Peers come and go.                                                      *)

InitializeNode(p) ==
    /\ LockFree
    /\ node[p] = "new"
    /\ node' = [node EXCEPT ![p] = "live"]
    /\ UNCHANGED <<greeted, fDisconnect, fShouldBan, stalling, pindexLastCommonBlock>>
    /\ UNCHANGED <<availability, inflight, sync, index, unlocked>>

\* What UpdatePreferredDownload sets the flag to.
Preferable(p) == p \in Outbound \ (OneShot \cup Clients)

\* The "version" message, to where UpdatePreferredDownload has read the count for the
\* first time.  cs_main may be held by FinalizeNode.
Version(p) ==
    /\ ThreadFree
    /\ p \in Live \ greeted
    /\ greeted' = greeted \cup {p}
    /\ greeting' = p /\ updating' = "subtracting"
    /\ versionRead' = nPreferredDownload
    /\ overlapped' = (overlapped \/ ~LockFree)
    /\ UNCHANGED <<node, fDisconnect, fShouldBan, stalling, pindexLastCommonBlock,
                   finalizing, finalizeRead>>
    /\ UNCHANGED <<availability, inflight, sync, index>>

\* One of an obsolete version, or from this node itself.
VersionRefused(p) ==
    /\ ThreadFree
    /\ p \in Live \ (greeted \cup Honest)
    /\ greeted' = greeted \cup {p}
    /\ fDisconnect' = fDisconnect \cup {p}
    /\ UNCHANGED <<node, fShouldBan, stalling, pindexLastCommonBlock>>
    /\ UNCHANGED <<availability, inflight, sync, index, unlocked>>

\* A count of the peers in S without p, and with p.
Uncounted(n, S, p) == n
CountWithout(n, S, p) == n - IF p \in S THEN 1 ELSE 0
CountWith(n, S, p) == n + IF p \in S THEN 1 ELSE 0

\* UpdatePreferredDownload stores the count without the old flag, sets the flag and
\* reads the count again, and then stores it with the new flag.  A build that keeps the
\* count in a register between the two updates has no outcome that these do not have.
SubtractPreferred ==
    /\ updating = "subtracting"
    /\ nPreferredDownload' = CountWithout(versionRead, fPreferredDownload, greeting)
    /\ versionRead' = nPreferredDownload'
    /\ fPreferredDownload' = {q \in fPreferredDownload \cup {greeting} :
                                   q = greeting => Preferable(q)}
    /\ updating' = "adding"
    /\ UNCHANGED <<fDisconnect, fShouldBan, fSyncStarted, nSyncStarted, stalling,
                   pindexLastCommonBlock, greeting, finalizing, finalizeRead, overlapped>>
    /\ UNCHANGED <<connection, availability, inflight, index>>

AddPreferred ==
    /\ updating = "adding"
    /\ nPreferredDownload' = CountWith(versionRead, fPreferredDownload, greeting)
    /\ greeting' = NoPeer /\ updating' = "idle" /\ versionRead' = 0
    /\ UNCHANGED <<fDisconnect, fShouldBan, fPreferredDownload, fSyncStarted, nSyncStarted,
                   stalling, pindexLastCommonBlock, finalizing, finalizeRead, overlapped>>
    /\ UNCHANGED <<connection, availability, inflight, index>>

\* The connection is lost, or something that is not modelled makes the node give
\* it up: the socket, a second "version", a ban for a block that fails to connect.
Disconnect(p) ==
    /\ p \in Live \ (fDisconnect \cup Honest)
    /\ fDisconnect' = fDisconnect \cup {p}
    /\ UNCHANGED <<fShouldBan, stalling, pindexLastCommonBlock>>
    /\ UNCHANGED <<connection, availability, inflight, sync, index, unlocked>>

\* What FinalizeNode does to mapBlocksInFlight.
NotReleased(p) == mapBlocksInFlight
Released(p) ==
    [b \in Blocks |-> IF b \in vBlocksInFlight[p] THEN NoPeer ELSE mapBlocksInFlight[b]]

\* FinalizeNode, from the destructor of CNode, takes cs_main and reads the count.  The
\* message thread holds a reference to the peer whose message it handles, so that one is
\* not destroyed.
EnterFinalizeNode(p) ==
    /\ LockFree
    /\ p \in (Live \cap fDisconnect) \ {greeting}
    /\ finalizing' = p
    /\ finalizeRead' = nPreferredDownload
    /\ overlapped' = (overlapped \/ ~ThreadFree)
    /\ UNCHANGED <<fDisconnect, fShouldBan, stalling, pindexLastCommonBlock,
                   greeting, updating, versionRead>>
    /\ UNCHANGED <<connection, availability, inflight, sync, index>>

\* The rest of FinalizeNode.  nQueuedValidatedHeaders is left alone.
FinalizeNode(p) ==
    /\ finalizing = p
    /\ finalizing' = NoPeer /\ finalizeRead' = 0
    /\ node' = [node EXCEPT ![p] = "gone"]
    /\ nSyncStarted' = CountWithout(nSyncStarted, fSyncStarted, p)
    /\ nPreferredDownload' = CountWithout(finalizeRead, fPreferredDownload, p)
    /\ mapBlocksInFlight' = Released(p)
    \* the CNodeState is erased
    /\ greeted' = greeted \ {p}
    /\ fDisconnect' = fDisconnect \ {p}
    /\ fShouldBan' = fShouldBan \ {p}
    /\ fPreferredDownload' = fPreferredDownload \ {p}
    /\ fSyncStarted' = fSyncStarted \ {p}
    /\ stalling' = stalling \ {p}
    /\ pindexBestKnownBlock' = [pindexBestKnownBlock EXCEPT ![p] = NoBlock]
    /\ hashLastUnknownBlock' = [hashLastUnknownBlock EXCEPT ![p] = NoBlock]
    /\ pindexLastCommonBlock' = [pindexLastCommonBlock EXCEPT ![p] = NoBlock]
    /\ fValidatedHeaders' = fValidatedHeaders \ vBlocksInFlight[p]
    /\ vBlocksInFlight' = [vBlocksInFlight EXCEPT ![p] = {}]
    /\ nBlocksInFlight' = [nBlocksInFlight EXCEPT ![p] = 0]
    /\ UNCHANGED <<greeting, updating, versionRead, overlapped>>
    /\ UNCHANGED <<nQueuedValidatedHeaders, index>>

\* Misbehaving: the score may pass the threshold.
Misbehaving(p) == fShouldBan' \in {fShouldBan, fShouldBan \cup {p}}

-----------------------------------------------------------------------------
(* Which peer has been asked for which block.                              *)

\* The peers that stop being stallers when b arrives from anywhere.
NobodyExcused(b) == {}
Excused(b) == {p \in Peers : mapBlocksInFlight[b] = p}

\* nQueuedValidatedHeaders when b leaves.
QueuedWithout(b) == nQueuedValidatedHeaders - IF b \in fValidatedHeaders THEN 1 ELSE 0

MarkBlockAsReceived(b) ==
    \/ /\ b \notin InFlight
       /\ UNCHANGED <<inflight, stalling>>
    \/ /\ b \in InFlight
       /\ LET owner == mapBlocksInFlight[b] IN
          /\ vBlocksInFlight' = [vBlocksInFlight EXCEPT ![owner] = @ \ {b}]
          /\ nBlocksInFlight' = [nBlocksInFlight EXCEPT ![owner] = @ - 1]
       /\ nQueuedValidatedHeaders' = QueuedWithout(b)
       /\ fValidatedHeaders' = fValidatedHeaders \ {b}
       /\ stalling' = stalling \ Excused(b)
       /\ mapBlocksInFlight' = [mapBlocksInFlight EXCEPT ![b] = NoPeer]

\* MarkBlockAsInFlight for each of the blocks of S.  Both callers have made sure
\* that none is in flight, so the MarkBlockAsReceived in it does nothing.
MarkBlocksAsInFlight(p, S, validated) ==
    /\ vBlocksInFlight' = [vBlocksInFlight EXCEPT ![p] = @ \cup S]
    /\ nBlocksInFlight' = [nBlocksInFlight EXCEPT ![p] = @ + Cardinality(S)]
    /\ mapBlocksInFlight' =
          [b \in Blocks |-> IF b \in S THEN p ELSE mapBlocksInFlight[b]]
    /\ fValidatedHeaders' = fValidatedHeaders \cup IF validated THEN S ELSE {}
    /\ nQueuedValidatedHeaders' =
          nQueuedValidatedHeaders + IF validated THEN Cardinality(S) ELSE 0

-----------------------------------------------------------------------------
(* What a peer is known to have.                                           *)

\* b is at least as good as the best block known of a peer.
AsGood(b, best) == best = NoBlock \/ Work[b] >= Work[best]

\* ProcessBlockAvailability, with the given mapBlockIndex: the new
\* pindexBestKnownBlock and hashLastUnknownBlock of p.
ProcessedBest(p, known) ==
    IF hashLastUnknownBlock[p] \in known /\ AsGood(hashLastUnknownBlock[p], pindexBestKnownBlock[p])
    THEN hashLastUnknownBlock[p]
    ELSE pindexBestKnownBlock[p]
ProcessedUnknown(p, known) ==
    IF hashLastUnknownBlock[p] \in known THEN NoBlock ELSE hashLastUnknownBlock[p]

UpdateBlockAvailability(p, b, known) ==
    LET best == ProcessedBest(p, known) IN
    /\ pindexBestKnownBlock' =
          [pindexBestKnownBlock EXCEPT ![p] = IF b \in known /\ AsGood(b, best) THEN b ELSE best]
    /\ hashLastUnknownBlock' =
          [hashLastUnknownBlock EXCEPT ![p] = IF b \in known THEN ProcessedUnknown(p, known) ELSE b]

\* One entry of an "inv" message.  An unknown block is asked for at once if the tip
\* is recent, which it may or may not be; the request for headers that goes out in
\* both cases changes no state.
HasRoom(p) == nBlocksInFlight[p] < MAX_BLOCKS_IN_TRANSIT_PER_PEER

Inv(p, b) ==
    /\ ThreadFree /\ LockFree
    /\ p \in greeted
    /\ UpdateBlockAvailability(p, b, header)
    /\ \/ /\ b \notin header \cup InFlight
          /\ HasRoom(p)
          /\ MarkBlocksAsInFlight(p, {b}, FALSE)
       \/ UNCHANGED inflight
    /\ UNCHANGED <<fDisconnect, fShouldBan, stalling, pindexLastCommonBlock>>
    /\ UNCHANGED <<connection, sync, index, unlocked>>

\* AcceptBlockHeader for x, when the blocks of before are in the index already.
HeaderOk(x, before) ==
    IF x \in header
    THEN x \notin failed
    ELSE x \notin BadHeader /\ Parent[x] \in before /\ Parent[x] \notin failed

\* A "headers" message with the blocks from first to last; continuous says whether
\* a header that does not fit follows them.
Headers(p, first, last, continuous) ==
    LET msg == {x \in Anc[last] : first \in Anc[x]}
        accepted == {x \in msg : \A y \in msg \cap Anc[x] : HeaderOk(y, header \cup msg)}
    IN
    /\ ThreadFree /\ LockFree
    /\ p \in greeted
    /\ header' = header \cup accepted
    /\ \/ /\ accepted = msg /\ continuous
          /\ UpdateBlockAvailability(p, last, header')
          /\ UNCHANGED fShouldBan
       \/ /\ ~(accepted = msg /\ continuous)
          /\ Misbehaving(p)
          /\ UNCHANGED availability
    /\ UNCHANGED <<fDisconnect, stalling, pindexLastCommonBlock, have, failed, tip>>
    /\ UNCHANGED <<connection, inflight, sync, unlocked>>

-----------------------------------------------------------------------------
(* A block arrives.                                                        *)

\* The tips that ActivateBestChain may end with once the blocks of data are there,
\* and the blocks that it marks on its way: those on a chain with more work
\* from the first one that cannot be connected.
Connectable(data) == {b \in Linked(data) : Anc[b] \cap (failed \cup Bad) = {}}
Activated(data) ==
    LET better == {b \in Connectable(data) : Work[b] > Work[tip]}
    IN  IF better = {} THEN {tip} ELSE {b \in better : \A c \in better : Work[c] <= Work[b]}
FoundInvalid(data, newTip) ==
    UNION {{d \in Anc[c] : Anc[d] \cap (failed \cup Bad) # {}} :
              c \in {c \in Linked(data) : Work[c] > Work[newTip]}}

\* AcceptBlock and then ActivateBestChain, for a block that passes CheckBlock.  A
\* bad block is refused here or stored, to fail when it is connected.
AcceptBlock(p, b) ==
    \/ /\ ~HeaderOk(b, header)
       /\ Misbehaving(p)
       /\ UNCHANGED index
    \/ /\ HeaderOk(b, header) /\ b \in Bad \ have
       /\ header' = header \cup {b}
       /\ failed' = failed \cup {b}
       /\ Misbehaving(p)
       /\ UNCHANGED <<have, tip>>
    \/ /\ HeaderOk(b, header)
       /\ header' = header \cup {b}
       /\ have' = have \cup {b}
       /\ tip' \in Activated(have')
       /\ failed' = failed \cup FoundInvalid(have', tip')
       /\ UNCHANGED fShouldBan

\* ProcessNewBlock takes b out of flight whoever has sent it.
Received(p, b) == MarkBlockAsReceived(b)

\* A "block" message whose header is b's.  If the rest does not fit it (intact is
\* FALSE) CheckBlock refuses it, which costs the peer the full score.
Block(p, b, intact) ==
    /\ ThreadFree /\ LockFree
    /\ p \in greeted
    /\ Received(p, b)
    /\ \/ /\ intact
          /\ AcceptBlock(p, b)
       \/ /\ ~intact
          /\ fShouldBan' = fShouldBan \cup {p}
          /\ UNCHANGED index
    /\ UNCHANGED <<fDisconnect, pindexLastCommonBlock>>
    /\ UNCHANGED <<connection, availability, sync, unlocked>>

-----------------------------------------------------------------------------
(* FindNextBlocksToDownload for peer p, which is known to have best.       *)

\* "This peer has nothing interesting" if best is not as good as the tip.
Interesting(best) == best # NoBlock /\ Work[best] >= Work[tip]

\* The last common ancestor of best and of what p and this node had in common
\* before, or of a guess at it on the active chain.
LastCommonAncestor(p, best) ==
    LET before == IF pindexLastCommonBlock[p] = NoBlock
                  THEN Highest({b \in Anc[tip] : Height[b] <= Height[best]})
                  ELSE pindexLastCommonBlock[p]
    IN  Highest(Anc[before] \cap Anc[best])

\* The blocks visited: up to one more than the window, and to the first failed one.
Walk(from, best) ==
    LET path == {b \in Anc[best] : /\ Height[b] > Height[from]
                                   /\ Height[b] <= Height[from] + BLOCK_DOWNLOAD_WINDOW + 1}
    IN  {b \in path : Anc[b] \cap path \cap failed = {}}

\* pindexLastCommonBlock moves up along the blocks with nChainTx # 0.
AdvancedOverData(from, walk) == Highest({from} \cup (walk \cap have))
Advanced(from, walk) == Highest({from} \cup (walk \cap Linked(have)))

\* The blocks of the walk that are neither there nor in flight.
Missing(walk) == walk \ (have \cup InFlight)
InShorterWindow(from, b) == Height[b] < Height[from] + BLOCK_DOWNLOAD_WINDOW
InWindow(from, b) == Height[b] <= Height[from] + BLOCK_DOWNLOAD_WINDOW

\* vBlocks: the first of the missing blocks, as many as p may still have in flight.
ToDownload(p, from, walk) ==
    LET wanted == {b \in Missing(walk) : InWindow(from, b)}
    IN  {b \in wanted : Cardinality(Anc[b] \cap wanted) + nBlocksInFlight[p]
                            <= MAX_BLOCKS_IN_TRANSIT_PER_PEER}

\* nodeStaller: the peer that has the first block in flight, if that keeps p from
\* fetching the block just beyond the window.
Staller(p, from, walk) ==
    LET asked == (walk \cap InFlight) \ have
        first == {b \in asked : asked \cap Anc[b] = {b}}
        stuck == Missing(walk) # {} /\ \A b \in Missing(walk) : ~InWindow(from, b)
    IN  {q \in Peers \ {p} : stuck /\ \E b \in first : mapBlocksInFlight[b] = q}

-----------------------------------------------------------------------------
(* SendMessages.                                                           *)

\* "Download if this is a nice peer, or we have no nice peers and this one might do."
Fetch(p) ==
    \/ p \in fPreferredDownload
    \/ nPreferredDownload = 0 /\ p \notin Clients \cup OneShot

\* Headers synchronisation starts with one peer, and with any peer if the best
\* header is recent, which it may or may not be.
StartSync(p) ==
    \/ /\ p \notin fSyncStarted \cup Clients
       /\ fSyncStarted' = fSyncStarted \cup {p}
       /\ nSyncStarted' = nSyncStarted + 1
    \/ /\ p \in fSyncStarted \cup Clients \/ nSyncStarted # 0 \/ ~Fetch(p)
       /\ UNCHANGED <<fSyncStarted, nSyncStarted>>

\* The part that asks p for blocks.
RequestBlocks(p) ==
    \E best \in {ProcessedBest(p, header)} :
        /\ pindexBestKnownBlock' = [pindexBestKnownBlock EXCEPT ![p] = best]
        /\ hashLastUnknownBlock' =
              [hashLastUnknownBlock EXCEPT ![p] = ProcessedUnknown(p, header)]
        /\ \/ /\ ~Interesting(best)
              /\ UNCHANGED <<pindexLastCommonBlock, stalling, inflight>>
           \/ /\ Interesting(best)
              /\ \E from \in {LastCommonAncestor(p, best)} : \E walk \in {Walk(from, best)} :
                    /\ pindexLastCommonBlock' =
                          [pindexLastCommonBlock EXCEPT ![p] = Advanced(from, walk)]
                    /\ MarkBlocksAsInFlight(p, ToDownload(p, from, walk), TRUE)
                    /\ stalling' = stalling \cup
                          IF nBlocksInFlight'[p] = 0 THEN Staller(p, from, walk) ELSE {}

\* One call of SendMessages for p.  late names the timeout that has passed, if one
\* has: that of a peer that stalls the others, or that of a block.  It is assumed
\* of honest peers that they answer in time.
SendMessages(p, late) ==
    /\ ThreadFree /\ LockFree
    /\ p \in greeted
    /\ late = "stalling" => p \in stalling \ Honest
    /\ late = "block" => vBlocksInFlight[p] # {} /\ p \notin Honest
    /\ fDisconnect' = fDisconnect \cup {q \in {p} : q \in fShouldBan \/ late # "none"}
    /\ fShouldBan' = fShouldBan \ {p}
    /\ UNCHANGED <<connection, fPreferredDownload, nPreferredDownload, index, unlocked>>
    /\ StartSync(p)
    \* a peer that is not one to fetch from is asked only after the initial
    \* download, which may or may not be over
    /\ \/ /\ p \notin fDisconnect' \cup Clients
          /\ HasRoom(p)
          /\ RequestBlocks(p)
       \/ /\ p \in fDisconnect' \cup Clients \/ ~HasRoom(p) \/ ~Fetch(p)
          /\ UNCHANGED <<availability, pindexLastCommonBlock, stalling, inflight>>

-----------------------------------------------------------------------------
(* The specification.  Nobody announces the genesis block.  An honest peer *)
(* announces its tip, and sends a block of its chain after the header.     *)

Announced(p) == (IF p \in Honest THEN {HonestTip} ELSE Blocks) \ {Genesis}
Sent(p) == (IF p \in Honest THEN Anc[HonestTip] \cap header ELSE Blocks) \ {Genesis}

\* ProcessMessages takes no message of a peer that is to be disconnected.  (One that it
\* is handling as another thread decides so might as well have come before.)
Message(p) ==
    /\ p \notin fDisconnect
    /\ \/ Version(p) \/ VersionRefused(p)
       \/ \E b \in Announced(p) : Inv(p, b)
       \/ \E last \in Announced(p) : \E first \in Anc[last] \ {Genesis}, continuous \in BOOLEAN :
             /\ p \in Honest => continuous /\ Parent[first] \in header
             /\ Headers(p, first, last, continuous)
       \/ \E b \in Sent(p), intact \in BOOLEAN :
             /\ p \in Honest => intact
             /\ Block(p, b, intact)

Next ==
    \/ SubtractPreferred \/ AddPreferred
    \/ \E p \in Peers :
        \/ InitializeNode(p)
        \/ Disconnect(p)
        \/ EnterFinalizeNode(p)
        \/ FinalizeNode(p)
        \/ Message(p)
        \/ \E late \in {"none", "stalling", "block"} : SendMessages(p, late)

Spec == Init /\ [][Next]_vars

-----------------------------------------------------------------------------
(* Properties.                                                             *)

\* The types.
TypeOK ==
    /\ node \in [Peers -> {"new", "live", "gone"}]
    /\ greeted \subseteq Live /\ fDisconnect \subseteq Live /\ fShouldBan \subseteq Live
    /\ fPreferredDownload \subseteq Live /\ fSyncStarted \subseteq Live /\ stalling \subseteq Live
    /\ pindexBestKnownBlock \in [Peers -> header \cup {NoBlock}]
    /\ hashLastUnknownBlock \in [Peers -> Blocks \cup {NoBlock}]
    /\ pindexLastCommonBlock \in [Peers -> header \cup {NoBlock}]
    /\ vBlocksInFlight \in [Peers -> SUBSET Blocks]
    /\ nBlocksInFlight \in [Peers -> 0 .. MAX_BLOCKS_IN_TRANSIT_PER_PEER]
    /\ mapBlocksInFlight \in [Blocks -> Peers \cup {NoPeer}]
    /\ fValidatedHeaders \subseteq InFlight
    /\ nQueuedValidatedHeaders \in Int /\ nPreferredDownload \in Int /\ nSyncStarted \in Int
    /\ have \subseteq header /\ header \subseteq Blocks /\ failed \subseteq header
    /\ tip \in have
    /\ greeting \in greeted \cup {NoPeer} /\ updating \in {"idle", "subtracting", "adding"}
    /\ finalizing \in (Live \cup {NoPeer}) \ (Peers \cap {greeting})
    /\ versionRead \in Int /\ finalizeRead \in Int /\ overlapped \in BOOLEAN

\* mapBlocksInFlight, the lists of the peers and their counts say the same, and
\* only live peers are in them: State() of a block's peer, which
\* MarkBlockAsReceived and the stall check dereference, is never NULL.
InFlightAgrees ==
    /\ \A b \in Blocks, p \in Peers :
          mapBlocksInFlight[b] = p <=> b \in vBlocksInFlight[p]
    /\ \A p \in Peers : nBlocksInFlight[p] = Cardinality(vBlocksInFlight[p])
    /\ \A p \in Peers \ Live : vBlocksInFlight[p] = {}

\* nSyncStarted and nPreferredDownload count the peers with the flag: with a count
\* that is too high no peer is fetched from, or none is asked for headers, any more.
\* nPreferredDownload does so, whenever "version" is not in the middle of changing it,
\* as long as no such change has met a FinalizeNode; when they do meet, one of the two
\* updates is lost for good, because "version" does not take cs_main.
CountsExact ==
    /\ nSyncStarted = Cardinality(fSyncStarted)
    /\ ThreadFree /\ ~overlapped => nPreferredDownload = Cardinality(fPreferredDownload)

\* A block that has arrived, from whichever peer, is no longer waited for.
NothingHadInFlight == InFlight \cap have = {}

\* A peer that is timed as a staller still owes a block.
StallerOwes == \A p \in stalling : vBlocksInFlight[p] # {}

\* "The last full block we both have": pindexLastCommonBlock and everything below
\* is there, so that no missing block is ever skipped.
LastCommonIsLinked ==
    \A p \in Peers :
        pindexLastCommonBlock[p] # NoBlock => pindexLastCommonBlock[p] \in Linked(have)

\* The number that lengthens the download timeouts is never too small.
QueuedHeadersEnough == nQueuedValidatedHeaders >= Cardinality(fValidatedHeaders)

\* The two timeouts of SendMessages hit only peers that deserve it: nothing that has
\* arrived is waited for, a peer timed as a staller owes a block, and the block
\* timeout is never shorter than the queue before it justifies.
TimeoutsDeserved == NothingHadInFlight /\ StallerOwes /\ QueuedHeadersEnough

\* An honest peer connects, sends the headers of its tip until the node knows that it
\* has it, and sends each block that it is asked for.
Answers(p) ==
    \/ InitializeNode(p)
    \/ Version(p)
    \/ /\ pindexBestKnownBlock[p] # HonestTip
       /\ \E first \in Anc[HonestTip] \ {Genesis} :
             Parent[first] \in header /\ Headers(p, first, HonestTip, TRUE)
    \/ \E b \in vBlocksInFlight[p] \cap Sent(p) : Block(p, b, TRUE)

\* Fairness.  The threads keep running: a handler that has begun ends, the message
\* thread comes to each honest peer and to each one that is to be banned, and a peer to
\* be disconnected is destroyed.  A block that a peer keeps in flight times out in the
\* end; honest peers answer.
Fairness ==
    /\ WF_vars(SubtractPreferred \/ AddPreferred)
    /\ \A p \in Peers \ Honest : WF_vars(EnterFinalizeNode(p) \/ FinalizeNode(p))
    /\ \A p \in Peers \ Honest : WF_vars(p \in fShouldBan /\ SendMessages(p, "none"))
    /\ \A p \in Peers \ Honest, b \in Blocks \ {Genesis} :
          WF_vars(b \in vBlocksInFlight[p] /\ SendMessages(p, "block"))
    /\ \A p \in Honest : WF_vars(Answers(p)) /\ WF_vars(SendMessages(p, "none"))
FairSpec == Spec /\ Fairness

\* With one honest peer the node reaches a chain as good as that peer's, whatever
\* the other peers keep in flight, stall, announce or send.
CatchesUp == <>(Work[tip] >= Work[HonestTip])
=============================================================================
