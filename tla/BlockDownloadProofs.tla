------------------------ MODULE BlockDownloadProofs ------------------------
(***************************************************************************)
(* Proofs about peers and requested blocks, for every tree of blocks,      *)
(* every set of peers, honest or not, and every window and limit.          *)
(***************************************************************************)
EXTENDS BlockDownload, FiniteSetTheorems, WellFoundedInduction, TLAPS

\* The inductive invariant, by what its parts are about.  Peers and the two counts:
Flags ==
    /\ node \in [Peers -> {"new", "live", "gone"}]
    /\ greeted \subseteq Live /\ fDisconnect \subseteq Live /\ fShouldBan \subseteq Live
    /\ fPreferredDownload \subseteq greeted /\ fSyncStarted \subseteq Live
    /\ stalling \subseteq Live
    /\ nPreferredDownload \in Int /\ nSyncStarted \in Int
    /\ nSyncStarted = Cardinality(fSyncStarted)

\* where the two threads are that change nPreferredDownload,
Threads ==
    /\ greeting \in greeted \cup {NoPeer} /\ updating \in {"idle", "subtracting", "adding"}
    /\ updating = "idle" <=> ThreadFree
    /\ finalizing \in (Live \cap fDisconnect) \cup {NoPeer}
    /\ ~LockFree => finalizing # greeting
    /\ updating = "subtracting" => greeting \notin fPreferredDownload
    /\ versionRead \in Int /\ finalizeRead \in Int /\ overlapped \in BOOLEAN

\* and, as long as they have not met, what the count is at each place: it counts the
\* peers with the flag but for the one that is being added, and what has been read of it
\* is still true.
Preferred ==
    ~overlapped =>
        /\ nPreferredDownload = Cardinality(fPreferredDownload \ {greeting})
        /\ ~ThreadFree => LockFree /\ versionRead = nPreferredDownload
        /\ ~LockFree => finalizeRead = nPreferredDownload

\* the blocks in flight:
Books ==
    /\ vBlocksInFlight \in [Peers -> SUBSET Blocks]
    /\ nBlocksInFlight \in [Peers -> 0 .. MAX_BLOCKS_IN_TRANSIT_PER_PEER]
    /\ mapBlocksInFlight \in [Blocks -> Peers \cup {NoPeer}]
    /\ fValidatedHeaders \subseteq InFlight
    /\ nQueuedValidatedHeaders \in Int
    /\ InFlightAgrees
    /\ StallerOwes
    /\ QueuedHeadersEnough

\* what is known of the peers:
Known ==
    /\ pindexBestKnownBlock \in [Peers -> header \cup {NoBlock}]
    /\ hashLastUnknownBlock \in [Peers -> Blocks \cup {NoBlock}]
    /\ pindexLastCommonBlock \in [Peers -> header \cup {NoBlock}]
    /\ LastCommonIsLinked

\* and the block index, where no header is without its parent and the tip is linked.
IndexSound ==
    /\ have \subseteq header /\ header \subseteq Blocks /\ failed \subseteq header
    /\ \A b \in header : Anc[b] \subseteq header
    /\ tip \in Linked(have)

IInv == Flags /\ Threads /\ Preferred /\ Books /\ Known /\ IndexSound /\ NothingHadInFlight

-----------------------------------------------------------------------------
(* The tree.                                                               *)

\* What the proofs use of the tree.
LEMMA Tree ==
    /\ Genesis \in Blocks
    /\ \A b \in Blocks :
        /\ Anc[b] \in SUBSET Blocks
        /\ b \in Anc[b]
        /\ Genesis \in Anc[b]
        /\ Height[b] \in Nat
        /\ \A a \in Anc[b] : Anc[a] \subseteq Anc[b] /\ Height[a] <= Height[b]
        /\ \A a, c \in Anc[b] : a \in Anc[c] \/ c \in Anc[a]
    /\ \A b \in Blocks \ {Genesis} :
        /\ Parent[b] \in Blocks
        /\ Anc[b] = Anc[Parent[b]] \cup {b}
        /\ Height[b] = Height[Parent[b]] + 1
BY TreeAssumption

\* An ancestor that is as high as the block is the block.
LEMMA SameHeight ==
    ASSUME NEW b \in Blocks, NEW a \in Anc[b], Height[a] >= Height[b]
    PROVE  a = b
<1>1. CASE b = Genesis
  BY <1>1, TreeAssumption
<1>2. CASE b # Genesis
  <2>1. Parent[b] \in Blocks /\ Anc[b] = Anc[Parent[b]] \cup {b}
        /\ Height[b] = Height[Parent[b]] + 1
    BY <1>2, Tree
  <2>2. a \in Anc[Parent[b]] => Height[a] <= Height[Parent[b]]
    BY <2>1, Tree
  <2>3. a \in Blocks /\ Height[a] \in Nat /\ Height[b] \in Nat /\ Height[Parent[b]] \in Nat
    BY <2>1, Tree
  <2> QED BY <2>1, <2>2, <2>3
<1> QED BY <1>1, <1>2

\* A set of naturals has a least member.
LEMMA LeastNatural ==
    ASSUME NEW T \in SUBSET Nat, T # {}
    PROVE  \E x \in T : \A y \in T : x <= y
<1> DEFINE R == OpToRel(<, Nat)
<1>1. IsWellFoundedOn(R, Nat)
  BY NatLessThanWellFounded
<1>2. \E x \in T : \A y \in T : ~(<<y, x>> \in R)
  <2> HIDE DEF R
  <2> QED BY <1>1, WFMin
<1>3. PICK x \in T : \A y \in T : ~(<<y, x>> \in R)
  BY <1>2
<1>4. ASSUME NEW y \in T PROVE x <= y
  <2>1. y \in Nat /\ x \in Nat
    OBVIOUS
  <2>2. ~(y < x)
    BY <1>3, <2>1 DEF OpToRel
  <2> QED BY <2>1, <2>2
<1> QED BY <1>4

\* Highest is what its name says on a part of a branch.
LEMMA HighestOf ==
    ASSUME NEW best \in Blocks, NEW S \in SUBSET Anc[best], S # {}
    PROVE  /\ Highest(S) \in S
           /\ \A c \in S : Height[c] <= Height[Highest(S)]
<1> DEFINE T == {Height[best] - Height[b] : b \in S}
<1>1. \A b \in S : b \in Blocks /\ Height[b] \in Nat /\ Height[best] \in Nat
                   /\ Height[b] <= Height[best]
  BY Tree
<1>2. T \in SUBSET Nat /\ T # {}
  BY <1>1
<1>3. PICK x \in T : \A y \in T : x <= y
  <2> HIDE DEF T
  <2> QED BY <1>2, LeastNatural
<1>4. PICK b \in S : x = Height[best] - Height[b]
  BY <1>3
<1>5. \A c \in S : Height[c] <= Height[b]
  <2> SUFFICES ASSUME NEW c \in S PROVE Height[c] <= Height[b]
    OBVIOUS
  <2>1. Height[best] - Height[c] \in T
    OBVIOUS
  <2>2. Height[best] - Height[b] <= Height[best] - Height[c]
    BY <1>3, <1>4, <2>1
  <2> QED BY <1>1, <2>2
<1> QED BY <1>4, <1>5 DEF Highest

-----------------------------------------------------------------------------
(* Sets of blocks and of peers.                                            *)

LEMMA BlockSets ==
    ASSUME NEW S \in SUBSET Blocks
    PROVE  IsFiniteSet(S) /\ Cardinality(S) \in Nat
BY TreeAssumption, FS_Subset, FS_CardinalityType

LEMMA PeerSets ==
    ASSUME NEW S \in SUBSET Peers
    PROVE  IsFiniteSet(S) /\ Cardinality(S) \in Nat
BY PeerAssumption, FS_Subset, FS_CardinalityType

LEMMA DisjointBlocks ==
    ASSUME NEW S \in SUBSET Blocks, NEW T \in SUBSET Blocks, S \cap T = {}
    PROVE  Cardinality(S \cup T) = Cardinality(S) + Cardinality(T)
<1>1. /\ IsFiniteSet(S) /\ IsFiniteSet(T)
      /\ Cardinality(S) \in Nat /\ Cardinality(T) \in Nat
  BY BlockSets
<1>2. Cardinality(S \cup T) = Cardinality(S) + Cardinality(T) - Cardinality(S \cap T)
  BY <1>1, FS_Union
<1>3. Cardinality(S \cap T) = 0
  BY FS_EmptySet
<1> QED BY <1>1, <1>2, <1>3

\* The blocks below a linked block are linked, and more data unlinks nothing.
LEMMA LinkedClosed ==
    ASSUME NEW data \in SUBSET Blocks, NEW b \in Linked(data), NEW a \in Anc[b]
    PROVE  a \in Linked(data)
BY Tree DEF Linked

LEMMA LinkedGrows ==
    ASSUME NEW data, NEW more, data \subseteq more
    PROVE  Linked(data) \subseteq Linked(more)
BY DEF Linked

-----------------------------------------------------------------------------
(* Requests.                                                               *)

\* A block that has come in is nobody's any more.
LEMMA MarkedReceived ==
    ASSUME Books, NEW b \in Blocks, MarkBlockAsReceived(b), node' = node
    PROVE  /\ Books'
           /\ stalling' \subseteq stalling
           /\ InFlight' \subseteq InFlight \ {b}
<1>1. CASE b \notin InFlight
  <2>1. UNCHANGED <<inflight, stalling>>
    BY <1>1 DEF MarkBlockAsReceived
  <2> QED
    BY <1>1, <2>1 DEF inflight, Books, InFlightAgrees, StallerOwes, QueuedHeadersEnough,
                      InFlight, Live
<1>2. CASE b \in InFlight
  <2> DEFINE owner == mapBlocksInFlight[b]
  <2>1. /\ vBlocksInFlight' = [vBlocksInFlight EXCEPT ![owner] = @ \ {b}]
        /\ nBlocksInFlight' = [nBlocksInFlight EXCEPT ![owner] = @ - 1]
        /\ nQueuedValidatedHeaders' = QueuedWithout(b)
        /\ fValidatedHeaders' = fValidatedHeaders \ {b}
        /\ stalling' = stalling \ Excused(b)
        /\ mapBlocksInFlight' = [mapBlocksInFlight EXCEPT ![b] = NoPeer]
    BY <1>2 DEF MarkBlockAsReceived
  <2>2. owner \in Peers /\ b \in vBlocksInFlight[owner] /\ NoPeer \notin Peers
    BY <1>2, PeerAssumption DEF Books, InFlight, InFlightAgrees
  <2>3. vBlocksInFlight[owner] \in SUBSET Blocks
    BY <2>2 DEF Books
  <2>4. /\ Cardinality(vBlocksInFlight[owner] \ {b}) = Cardinality(vBlocksInFlight[owner]) - 1
        /\ Cardinality(vBlocksInFlight[owner] \ {b}) \in Nat
    BY <2>2, <2>3, BlockSets, FS_RemoveElement
  <2>5. nBlocksInFlight[owner] = Cardinality(vBlocksInFlight[owner])
    BY <2>2 DEF Books, InFlightAgrees
  <2>6. vBlocksInFlight' \in [Peers -> SUBSET Blocks]
    BY <2>1 DEF Books
  <2>7. nBlocksInFlight' \in [Peers -> 0 .. MAX_BLOCKS_IN_TRANSIT_PER_PEER]
    BY <2>1, <2>2, <2>4, <2>5, LimitAssumption DEF Books
  <2>8. mapBlocksInFlight' \in [Blocks -> Peers \cup {NoPeer}]
    BY <2>1 DEF Books
  <2>9. InFlight' = InFlight \ {b}
    BY <2>1, <2>8 DEF InFlight, Books
  <2>10. fValidatedHeaders' \subseteq InFlight'
    BY <2>1, <2>9 DEF Books
  <2>11. InFlightAgrees'
    <3>1. \A c \in Blocks, p \in Peers :
             mapBlocksInFlight'[c] = p <=> c \in vBlocksInFlight'[p]
      BY <2>1, <2>2 DEF Books, InFlightAgrees
    <3>2. \A p \in Peers : nBlocksInFlight'[p] = Cardinality(vBlocksInFlight'[p])
      BY <2>1, <2>2, <2>4, <2>5 DEF Books, InFlightAgrees
    <3>3. \A p \in Peers \ Live' : vBlocksInFlight'[p] = {}
      BY <2>1, <2>2 DEF Books, InFlightAgrees, Live
    <3> QED BY <3>1, <3>2, <3>3 DEF InFlightAgrees
  <2>12. stalling' = stalling \ {owner}
    BY <2>1, <2>2 DEF Excused
  <2>13. StallerOwes'
    BY <2>1, <2>2, <2>12 DEF Books, StallerOwes
  <2>14. nQueuedValidatedHeaders' \in Int /\ QueuedHeadersEnough'
    <3>1. fValidatedHeaders \in SUBSET Blocks
      BY DEF Books, InFlight
    <3>2. /\ IsFiniteSet(fValidatedHeaders) /\ Cardinality(fValidatedHeaders) \in Nat
          /\ Cardinality(fValidatedHeaders \ {b}) =
                IF b \in fValidatedHeaders THEN Cardinality(fValidatedHeaders) - 1
                ELSE Cardinality(fValidatedHeaders)
      BY <3>1, BlockSets, FS_RemoveElement
    <3> QED BY <2>1, <3>2 DEF Books, QueuedHeadersEnough, QueuedWithout
  <2> QED BY <2>6, <2>7, <2>8, <2>9, <2>10, <2>11, <2>12, <2>13, <2>14 DEF Books
<1> QED BY <1>1, <1>2

\* Blocks that were not in flight are entered for one live peer.  Whoever is timed
\* as a staller from then on is another peer, with a block to send.
LEMMA MarkedInFlight ==
    ASSUME Books, NEW p \in Live, NEW S \in SUBSET (Blocks \ InFlight), NEW validated \in BOOLEAN,
           nBlocksInFlight[p] + Cardinality(S) <= MAX_BLOCKS_IN_TRANSIT_PER_PEER,
           MarkBlocksAsInFlight(p, S, validated),
           node' = node,
           \A q \in stalling' \ stalling : q \in Peers /\ vBlocksInFlight[q] # {}
    PROVE  /\ Books'
           /\ InFlight' = InFlight \cup S
           /\ \A q \in stalling' \ stalling : q \in Live
<1> USE DEF MarkBlocksAsInFlight
<1>1. p \in Peers /\ NoPeer \notin Peers /\ p # NoPeer
  BY PeerAssumption DEF Live
<1>2. S \in SUBSET Blocks /\ IsFiniteSet(S) /\ Cardinality(S) \in Nat
  BY BlockSets
<1>3. vBlocksInFlight' \in [Peers -> SUBSET Blocks]
  BY <1>1 DEF Books
<1>4. nBlocksInFlight' \in [Peers -> 0 .. MAX_BLOCKS_IN_TRANSIT_PER_PEER]
  BY <1>1, <1>2, LimitAssumption DEF Books
<1>5. mapBlocksInFlight' \in [Blocks -> Peers \cup {NoPeer}]
  BY <1>1 DEF Books
<1>6. InFlight' = InFlight \cup S
  BY <1>1 DEF InFlight, Books
<1>7. fValidatedHeaders' \subseteq InFlight' /\ fValidatedHeaders \in SUBSET (Blocks \ S)
  BY <1>6 DEF Books, InFlight
<1>8. S \cap vBlocksInFlight[p] = {}
  BY <1>1 DEF Books, InFlight, InFlightAgrees
<1>9. Cardinality(vBlocksInFlight[p] \cup S) = Cardinality(vBlocksInFlight[p]) + Cardinality(S)
  <2>1. vBlocksInFlight[p] \in SUBSET Blocks
    BY <1>1 DEF Books
  <2> QED BY <2>1, <1>2, <1>8, DisjointBlocks
<1>10. InFlightAgrees'
  <2>1. \A c \in Blocks, q \in Peers :
           mapBlocksInFlight'[c] = q <=> c \in vBlocksInFlight'[q]
    <3> SUFFICES ASSUME NEW c \in Blocks, NEW q \in Peers
                 PROVE  mapBlocksInFlight'[c] = q <=> c \in vBlocksInFlight'[q]
      OBVIOUS
    <3>1. c \in S => mapBlocksInFlight[c] # q
      BY <1>1 DEF InFlight
    <3>2. mapBlocksInFlight[c] = q <=> c \in vBlocksInFlight[q]
      BY DEF Books, InFlightAgrees
    <3>3. vBlocksInFlight'[q] = IF q = p THEN vBlocksInFlight[p] \cup S ELSE vBlocksInFlight[q]
      BY <1>1 DEF Books
    <3>4. mapBlocksInFlight'[c] = IF c \in S THEN p ELSE mapBlocksInFlight[c]
      OBVIOUS
    <3> QED BY <3>1, <3>2, <3>3, <3>4
  <2>2. \A q \in Peers : nBlocksInFlight'[q] = Cardinality(vBlocksInFlight'[q])
    BY <1>1, <1>9 DEF Books, InFlightAgrees
  <2>3. \A q \in Peers \ Live' : vBlocksInFlight'[q] = {}
    BY <1>1 DEF Books, InFlightAgrees, Live
  <2> QED BY <2>1, <2>2, <2>3 DEF InFlightAgrees
<1>11. StallerOwes'
  BY <1>1 DEF Books, StallerOwes
<1>12. nQueuedValidatedHeaders' \in Int /\ QueuedHeadersEnough'
  <2>1. CASE ~validated
    BY <2>1 DEF Books, QueuedHeadersEnough
  <2>2. CASE validated
    <3>1. IsFiniteSet(fValidatedHeaders) /\ Cardinality(fValidatedHeaders) \in Nat
          /\ fValidatedHeaders \cap S = {}
      BY <1>7, BlockSets
    <3>2. Cardinality(fValidatedHeaders \cup S) = Cardinality(fValidatedHeaders) + Cardinality(S)
      BY <3>1, <1>2, <1>7, DisjointBlocks
    <3> QED BY <2>2, <3>1, <3>2, <1>2 DEF Books, QueuedHeadersEnough
  <2> QED BY <2>1, <2>2
<1>13. \A q \in stalling' \ stalling : q \in Live
  BY DEF Books, InFlightAgrees
<1> QED BY <1>3, <1>4, <1>5, <1>6, <1>7, <1>10, <1>11, <1>12, <1>13 DEF Books

-----------------------------------------------------------------------------
(* FindNextBlocksToDownload.                                               *)

\* ProcessBlockAvailability keeps the types.
LEMMA Availability ==
    ASSUME Known, IndexSound, NEW p \in Peers, NEW known, header \subseteq known, known \subseteq Blocks
    PROVE  /\ ProcessedBest(p, known) \in known \cup {NoBlock}
           /\ ProcessedUnknown(p, known) \in Blocks \cup {NoBlock}
BY DEF Known, ProcessedBest, ProcessedUnknown

\* The block from which the walk starts is below the peer's best and linked.
LEMMA StartLinked ==
    ASSUME Known, IndexSound, NEW p \in Peers, NEW best \in header
    PROVE  /\ LastCommonAncestor(p, best) \in Anc[best]
           /\ LastCommonAncestor(p, best) \in Linked(have)
<1>1. best \in Blocks /\ tip \in Blocks /\ have \in SUBSET Blocks
  BY DEF IndexSound, Linked
<1> DEFINE below == {b \in Anc[tip] : Height[b] <= Height[best]}
           before == IF pindexLastCommonBlock[p] = NoBlock THEN Highest(below)
                     ELSE pindexLastCommonBlock[p]
<1>2. Highest(below) \in below
  <2>1. Genesis \in below
    BY <1>1, Tree, TreeAssumption
  <2> QED BY <1>1, <2>1, HighestOf
<1>3. Highest(below) \in Linked(have)
  BY <1>1, <1>2, LinkedClosed DEF IndexSound
<1>4. before \in Linked(have)
  BY <1>3 DEF Known, LastCommonIsLinked
<1>5. before \in Blocks
  BY <1>1, <1>4 DEF Linked
<1> HIDE DEF before, below
<1>6. Highest(Anc[before] \cap Anc[best]) \in Anc[before] \cap Anc[best]
  <2>1. Anc[before] \cap Anc[best] \in SUBSET Anc[best] /\ Genesis \in Anc[before] \cap Anc[best]
    BY <1>1, <1>5, Tree
  <2> QED BY <1>1, <2>1, HighestOf
<1>7. Highest(Anc[before] \cap Anc[best]) \in Linked(have)
  BY <1>1, <1>4, <1>6, LinkedClosed
<1>8. LastCommonAncestor(p, best) = Highest(Anc[before] \cap Anc[best])
  BY DEF LastCommonAncestor, before, below
<1> QED BY <1>6, <1>7, <1>8

\* pindexLastCommonBlock moves to a linked block.
LEMMA AdvanceLinked ==
    ASSUME NEW best \in Blocks, NEW from \in Anc[best], NEW walk \in SUBSET Anc[best],
           from \in Linked(have)
    PROVE  Advanced(from, walk) \in Linked(have)
<1>1. {from} \cup (walk \cap Linked(have)) \in SUBSET Anc[best]
  OBVIOUS
<1>2. Advanced(from, walk) \in {from} \cup (walk \cap Linked(have))
  BY <1>1, HighestOf DEF Advanced
<1> QED BY <1>2

\* The blocks asked for are neither there nor in flight, and within the limit: the
\* highest of them has all others below it.
LEMMA DownloadsFit ==
    ASSUME Books, NEW p \in Peers, NEW best \in Blocks, NEW from, NEW walk \in SUBSET Anc[best],
           HasRoom(p)
    PROVE  /\ ToDownload(p, from, walk) \in SUBSET (Blocks \ (have \cup InFlight))
           /\ nBlocksInFlight[p] + Cardinality(ToDownload(p, from, walk))
                 <= MAX_BLOCKS_IN_TRANSIT_PER_PEER
<1> DEFINE S == ToDownload(p, from, walk)
           wanted == {b \in Missing(walk) : InWindow(from, b)}
           n == nBlocksInFlight[p]
           limit == MAX_BLOCKS_IN_TRANSIT_PER_PEER
<1>1. S = {b \in wanted : Cardinality(Anc[b] \cap wanted) + n <= limit}
  BY DEF ToDownload
<1>2. wanted \in SUBSET Anc[best] /\ wanted \in SUBSET (Blocks \ (have \cup InFlight))
  BY Tree DEF Missing
<1>3. n \in Nat /\ limit \in Nat /\ n < limit
  BY LimitAssumption DEF Books, HasRoom
<1> HIDE DEF S, wanted, n, limit
<1>4. S \in SUBSET wanted
  BY <1>1
<1>5. n + Cardinality(S) <= limit
  <2>1. CASE S = {}
    BY <2>1, <1>3, FS_EmptySet
  <2>2. CASE S # {}
    <3> DEFINE top == Highest(S)
    <3>1. top \in S /\ \A c \in S : Height[c] <= Height[top]
      BY <1>2, <1>4, <2>2, HighestOf
    <3> HIDE DEF top
    <3>2. top \in Blocks /\ Anc[top] \cap wanted \in SUBSET Blocks
      BY <1>2, <1>4, <3>1
    <3>3. S \subseteq Anc[top] \cap wanted
      <4> SUFFICES ASSUME NEW c \in S PROVE c \in Anc[top]
        BY <1>4
      <4>1. c \in Anc[best] /\ top \in Anc[best] /\ c \in Blocks
        BY <1>2, <1>4, <3>1
      <4>2. c \in Anc[top] \/ top \in Anc[c]
        BY <4>1, Tree
      <4>3. top \in Anc[c] => top = c
        <5> SUFFICES ASSUME top \in Anc[c] PROVE top = c
          OBVIOUS
        <5>1. Height[top] >= Height[c]
          BY <3>1, <3>2, <4>1, Tree
        <5> QED BY <5>1, <4>1, SameHeight
      <4> QED BY <4>1, <4>2, <4>3, Tree
    <3>4. Cardinality(S) <= Cardinality(Anc[top] \cap wanted)
      BY <3>2, <3>3, BlockSets, FS_Subset
    <3>5. Cardinality(Anc[top] \cap wanted) + n <= limit
      BY <1>1, <3>1
    <3>6. Cardinality(S) \in Nat /\ Cardinality(Anc[top] \cap wanted) \in Nat
      BY <1>2, <1>4, <3>2, BlockSets
    <3> QED BY <1>3, <3>4, <3>5, <3>6
  <2> QED BY <2>1, <2>2
<1>6. S \in SUBSET (Blocks \ (have \cup InFlight))
  BY <1>2, <1>4
<1> QED BY <1>5, <1>6 DEF S, n, limit

-----------------------------------------------------------------------------
(* The initial state and the steps.                                        *)

LEMMA InitHolds == Init => IInv
<1> SUFFICES ASSUME Init PROVE IInv
  OBVIOUS
<1> USE DEF Init
<1>1. Flags
  BY FS_EmptySet DEF Flags, Live
<1>2. Books
  BY FS_EmptySet, LimitAssumption, PeerAssumption
     DEF Books, InFlightAgrees, StallerOwes, QueuedHeadersEnough, InFlight
<1>3. Known
  BY DEF Known, LastCommonIsLinked
<1>4. IndexSound
  BY TreeAssumption DEF IndexSound, Linked
<1>5. NothingHadInFlight
  BY DEF NothingHadInFlight, InFlight
<1>6. Threads
  <2>1. overlapped \in BOOLEAN
    BY Zenon
  <2>2. versionRead \in Int /\ finalizeRead \in Int
    OBVIOUS
  <2> QED BY <2>1, <2>2, Zenon DEF Threads, ThreadFree, LockFree
<1>7. Preferred
  <2>1. fPreferredDownload \ {greeting} = {}
    OBVIOUS
  <2> QED BY <2>1, FS_EmptySet DEF Preferred, ThreadFree, LockFree
<1> QED BY <1>1, <1>2, <1>3, <1>4, <1>5, <1>6, <1>7 DEF IInv

\* The parts of the invariant that a step leaves alone.
LEMMA SameBooks ==
    ASSUME Books, UNCHANGED inflight, stalling' \subseteq stalling, Live \subseteq Live'
    PROVE  Books'
BY DEF inflight, Books, InFlightAgrees, StallerOwes, QueuedHeadersEnough, InFlight

LEMMA SameNothing ==
    ASSUME NothingHadInFlight, UNCHANGED <<mapBlocksInFlight, have>>
    PROVE  NothingHadInFlight'
BY DEF NothingHadInFlight, InFlight

LEMMA SameIndex ==
    ASSUME IndexSound, UNCHANGED index
    PROVE  IndexSound'
BY DEF index, IndexSound, Linked

LEMMA SameKnown ==
    ASSUME Known, UNCHANGED <<availability, pindexLastCommonBlock>>,
           header \subseteq header', have \subseteq have'
    PROVE  Known'
<1>1. Linked(have) \subseteq Linked(have')
  BY LinkedGrows
<1> QED BY <1>1 DEF availability, Known, LastCommonIsLinked, Linked

LEMMA SameThreads ==
    ASSUME Threads, Preferred, UNCHANGED unlocked,
           UNCHANGED <<fPreferredDownload, nPreferredDownload>>,
           greeted \subseteq greeted', fDisconnect \subseteq fDisconnect', Live \subseteq Live'
    PROVE  Threads' /\ Preferred'
BY DEF unlocked, Threads, Preferred, ThreadFree, LockFree

LEMMA InitializeNodeKeeps ==
    ASSUME IInv, NEW p \in Peers, InitializeNode(p)
    PROVE  IInv'
<1> USE DEF InitializeNode
<1>1. Live \subseteq Live'
  BY DEF IInv, Flags, Live
<1>2. Flags'
  BY <1>1 DEF IInv, Flags, sync
<1> QED
  BY <1>1, <1>2, SameThreads, SameBooks, SameKnown, SameIndex, SameNothing
     DEF IInv, index, inflight, sync

LEMMA VersionKeeps ==
    ASSUME IInv, NEW p \in Peers, p \notin fDisconnect, Version(p)
    PROVE  IInv'
<1> USE DEF Version
<1>1. Live' = Live
  BY DEF Live
<1>2. Flags'
  BY <1>1 DEF IInv, Flags, sync
<1>3. p # NoPeer /\ p \notin fPreferredDownload /\ p # finalizing
  BY PeerAssumption DEF IInv, Flags, Live, Threads
<1>4. Threads'
  BY <1>1, <1>3 DEF IInv, Flags, Threads, ThreadFree, LockFree, sync
<1>5. Preferred'
  <2> SUFFICES ASSUME ~overlapped, LockFree PROVE Preferred'
    BY DEF Preferred
  <2>1. nPreferredDownload = Cardinality(fPreferredDownload \ {NoPeer})
    BY DEF IInv, Preferred, ThreadFree
  <2>2. fPreferredDownload \ {NoPeer} = fPreferredDownload \ {p}
    BY <1>3, PeerAssumption DEF IInv, Flags, Live
  <2> QED BY <2>1, <2>2 DEF Preferred, ThreadFree, LockFree, sync
<1> QED
  BY <1>1, <1>2, <1>4, <1>5, SameBooks, SameKnown, SameIndex, SameNothing
     DEF IInv, index, inflight

LEMMA VersionRefusedKeeps ==
    ASSUME IInv, NEW p \in Peers, VersionRefused(p)
    PROVE  IInv'
<1> USE DEF VersionRefused
<1>1. Live' = Live
  BY DEF Live
<1>2. Flags'
  BY <1>1 DEF IInv, Flags, sync
<1> QED
  BY <1>1, <1>2, SameThreads, SameBooks, SameKnown, SameIndex, SameNothing
     DEF IInv, index, inflight, sync

\* The two updates of "version": the first one takes nothing off, because the flag is
\* not set before, and the second one counts the peer if it sets the flag.
LEMMA SubtractPreferredKeeps ==
    ASSUME IInv, SubtractPreferred
    PROVE  IInv'
<1> USE DEF SubtractPreferred, connection
<1>1. Live' = Live
  BY DEF Live
<1>2. greeting \in greeted /\ greeting \notin fPreferredDownload /\ ~ThreadFree
  BY DEF IInv, Threads, ThreadFree
<1>3. nPreferredDownload' = versionRead
  BY <1>2 DEF CountWithout, IInv, Threads
<1>4. Flags'
  BY <1>1, <1>2, <1>3 DEF IInv, Flags, Threads
<1>5. Threads'
  BY <1>1, <1>2, <1>3 DEF IInv, Threads, ThreadFree, LockFree
<1>6. Preferred'
  <2>1. fPreferredDownload' \ {greeting} = fPreferredDownload \ {greeting}
    OBVIOUS
  <2> QED BY <1>2, <1>3, <2>1 DEF IInv, Preferred, ThreadFree, LockFree
<1> QED
  BY <1>1, <1>4, <1>5, <1>6, SameBooks, SameKnown, SameIndex, SameNothing
     DEF IInv, index, inflight

LEMMA AddPreferredKeeps ==
    ASSUME IInv, AddPreferred
    PROVE  IInv'
<1> USE DEF AddPreferred, connection
<1>1. Live' = Live
  BY DEF Live
<1>2. nPreferredDownload' = CountWith(versionRead, fPreferredDownload, greeting)
      /\ nPreferredDownload' \in Int
  BY DEF CountWith, IInv, Threads
<1>3. Flags'
  BY <1>1, <1>2 DEF IInv, Flags
<1>4. Threads'
  BY <1>1 DEF IInv, Threads, ThreadFree, LockFree
<1>5. Preferred'
  <2> SUFFICES ASSUME ~overlapped PROVE Preferred'
    BY DEF Preferred
  <2> DEFINE S == fPreferredDownload
  <2>1. S \in SUBSET Peers /\ NoPeer \notin S
    BY PeerAssumption DEF IInv, Flags, Live
  <2>2. versionRead = Cardinality(S \ {greeting}) /\ LockFree
    BY DEF IInv, Preferred, Threads, ThreadFree
  <2>3. Cardinality(S) = CountWith(Cardinality(S \ {greeting}), S, greeting)
    BY <2>1, PeerSets, FS_RemoveElement DEF CountWith
  <2>4. S \ {NoPeer} = S
    BY <2>1
  <2> QED BY <1>2, <2>2, <2>3, <2>4 DEF Preferred, ThreadFree, LockFree
<1> QED
  BY <1>1, <1>3, <1>4, <1>5, SameBooks, SameKnown, SameIndex, SameNothing
     DEF IInv, index, inflight

LEMMA DisconnectKeeps ==
    ASSUME IInv, NEW p \in Peers, Disconnect(p)
    PROVE  IInv'
<1> USE DEF Disconnect, connection
<1>1. Live' = Live
  BY DEF Live
<1>2. Flags'
  BY <1>1 DEF IInv, Flags, sync
<1> QED
  BY <1>1, <1>2, SameThreads, SameBooks, SameKnown, SameIndex, SameNothing
     DEF IInv, index, inflight, sync

\* A count of peers without one of them.
LEMMA PeerLeavesCount ==
    ASSUME NEW S \in SUBSET Peers, NEW p, NEW n, n = Cardinality(S)
    PROVE  /\ CountWithout(n, S, p) = Cardinality(S \ {p})
           /\ CountWithout(n, S, p) \in Int
BY PeerSets, FS_RemoveElement DEF CountWithout

LEMMA EnterFinalizeNodeKeeps ==
    ASSUME IInv, NEW p \in Peers, EnterFinalizeNode(p)
    PROVE  IInv'
<1> USE DEF EnterFinalizeNode, connection
<1>1. Live' = Live
  BY DEF Live
<1>2. Flags'
  BY <1>1 DEF IInv, Flags, sync
<1>3. Threads'
  BY <1>1 DEF IInv, Flags, Threads, ThreadFree, LockFree, sync
<1>4. Preferred'
  BY DEF IInv, Preferred, ThreadFree, LockFree, sync
<1> QED
  BY <1>1, <1>2, <1>3, <1>4, SameBooks, SameKnown, SameIndex, SameNothing
     DEF IInv, index, inflight

LEMMA FinalizeNodeKeeps ==
    ASSUME IInv, NEW p \in Peers, FinalizeNode(p)
    PROVE  IInv'
<1> USE DEF FinalizeNode
<1>1. Live' = Live \ {p}
  BY DEF IInv, Flags, Live
<1>2. Flags'
  <2>1. fPreferredDownload \in SUBSET Peers /\ fSyncStarted \in SUBSET Peers
    BY DEF IInv, Flags, Live
  <2>2. /\ nSyncStarted' = Cardinality(fSyncStarted') /\ nSyncStarted' \in Int
        /\ nPreferredDownload' \in Int
    BY <2>1, PeerLeavesCount DEF IInv, Flags, Threads, CountWithout
  <2>3. node' \in [Peers -> {"new", "live", "gone"}]
    BY DEF IInv, Flags
  <2> QED BY <1>1, <2>2, <2>3 DEF IInv, Flags
<1>3. p # NoPeer /\ p # greeting /\ ~LockFree
  BY PeerAssumption DEF IInv, Threads, LockFree
<1>4. Threads'
  BY <1>1, <1>3 DEF IInv, Threads, ThreadFree, LockFree
<1>5. Preferred'
  <2> SUFFICES ASSUME ~overlapped PROVE Preferred'
    BY DEF Preferred
  <2>1. ThreadFree /\ finalizeRead = Cardinality(fPreferredDownload \ {NoPeer})
    BY <1>3 DEF IInv, Preferred, ThreadFree
  <2>2. fPreferredDownload \in SUBSET Peers /\ NoPeer \notin fPreferredDownload
    BY PeerAssumption DEF IInv, Flags, Live
  <2>3. finalizeRead = Cardinality(fPreferredDownload)
    BY <2>1, <2>2
  <2>4. nPreferredDownload' = Cardinality(fPreferredDownload \ {p})
    BY <2>2, <2>3, PeerLeavesCount
  <2>5. fPreferredDownload' \ {NoPeer} = fPreferredDownload \ {p}
    BY <2>2
  <2> QED BY <2>1, <2>4, <2>5 DEF Preferred, ThreadFree, LockFree
<1>6. InFlight' = InFlight \ vBlocksInFlight[p]
  BY PeerAssumption DEF InFlight, Released
<1>7. Books'
  <2>1. /\ vBlocksInFlight' \in [Peers -> SUBSET Blocks]
        /\ nBlocksInFlight' \in [Peers -> 0 .. MAX_BLOCKS_IN_TRANSIT_PER_PEER]
        /\ mapBlocksInFlight' \in [Blocks -> Peers \cup {NoPeer}]
    BY LimitAssumption DEF IInv, Books, Released
  <2>2. fValidatedHeaders' \subseteq InFlight' /\ nQueuedValidatedHeaders' \in Int
    BY <1>6 DEF IInv, Books
  <2>3. InFlightAgrees'
    <3>1. \A c \in Blocks, q \in Peers :
             mapBlocksInFlight'[c] = q <=> c \in vBlocksInFlight'[q]
      <4> SUFFICES ASSUME NEW c \in Blocks, NEW q \in Peers
                   PROVE  mapBlocksInFlight'[c] = q <=> c \in vBlocksInFlight'[q]
        OBVIOUS
      <4>1. /\ mapBlocksInFlight[c] = q <=> c \in vBlocksInFlight[q]
            /\ mapBlocksInFlight[c] = p <=> c \in vBlocksInFlight[p]
        BY DEF IInv, Books, InFlightAgrees
      <4>2. vBlocksInFlight'[q] = IF q = p THEN {} ELSE vBlocksInFlight[q]
        BY DEF IInv, Books
      <4>3. mapBlocksInFlight'[c] =
               IF c \in vBlocksInFlight[p] THEN NoPeer ELSE mapBlocksInFlight[c]
        BY DEF Released
      <4> QED BY <4>1, <4>2, <4>3, PeerAssumption
    <3>2. \A q \in Peers : nBlocksInFlight'[q] = Cardinality(vBlocksInFlight'[q])
      BY FS_EmptySet DEF IInv, Books, InFlightAgrees
    <3>3. \A q \in Peers \ Live' : vBlocksInFlight'[q] = {}
      BY <1>1 DEF IInv, Books, InFlightAgrees
    <3> QED BY <3>1, <3>2, <3>3 DEF InFlightAgrees
  <2>4. StallerOwes'
    BY DEF IInv, Flags, Live, Books, StallerOwes
  <2>5. QueuedHeadersEnough'
    <3>1. /\ fValidatedHeaders \in SUBSET Blocks
          /\ fValidatedHeaders' \in SUBSET fValidatedHeaders
      BY DEF IInv, Books, InFlight
    <3>2. /\ Cardinality(fValidatedHeaders') <= Cardinality(fValidatedHeaders)
          /\ Cardinality(fValidatedHeaders') \in Nat /\ Cardinality(fValidatedHeaders) \in Nat
      BY <3>1, BlockSets, FS_Subset
    <3> QED BY <3>2 DEF IInv, Books, QueuedHeadersEnough
  <2> QED BY <2>1, <2>2, <2>3, <2>4, <2>5 DEF Books
<1>8. IndexSound'
  BY SameIndex DEF IInv
<1>9. Known'
  BY DEF IInv, Known, LastCommonIsLinked, index, Linked
<1>10. NothingHadInFlight'
  BY <1>6 DEF IInv, NothingHadInFlight, index
<1> QED BY <1>2, <1>4, <1>5, <1>7, <1>8, <1>9, <1>10 DEF IInv

\* What an announcement does to what is known of the peers.
LEMMA UpdateKeepsKnown ==
    ASSUME Known, IndexSound, NEW p \in Peers, NEW b \in Blocks,
           header \subseteq header', header' \subseteq Blocks,
           UNCHANGED <<pindexLastCommonBlock, have>>,
           UpdateBlockAvailability(p, b, header')
    PROVE  Known'
<1>1. /\ ProcessedBest(p, header') \in header' \cup {NoBlock}
      /\ ProcessedUnknown(p, header') \in Blocks \cup {NoBlock}
  BY Availability
<1>2. /\ pindexBestKnownBlock' \in [Peers -> header' \cup {NoBlock}]
      /\ hashLastUnknownBlock' \in [Peers -> Blocks \cup {NoBlock}]
  BY <1>1 DEF Known, UpdateBlockAvailability
<1> QED BY <1>2 DEF Known, LastCommonIsLinked, Linked

LEMMA InvKeeps ==
    ASSUME IInv, NEW p \in Peers, NEW b \in Blocks, Inv(p, b)
    PROVE  IInv'
<1> USE DEF Inv, connection
<1>1. Live' = Live /\ p \in Live
  BY DEF Live, IInv, Flags
<1>2. Flags'
  BY <1>1 DEF IInv, Flags, sync
<1>3. IndexSound'
  BY SameIndex DEF IInv
<1>4. Known'
  BY UpdateKeepsKnown DEF IInv, index, IndexSound
<1>5. Books' /\ NothingHadInFlight'
  <2>1. CASE UNCHANGED inflight
    BY <1>1, <2>1, SameBooks, SameNothing DEF IInv, index, inflight
  <2>2. CASE /\ b \notin header \cup InFlight
             /\ HasRoom(p)
             /\ MarkBlocksAsInFlight(p, {b}, FALSE)
    <3>1. nBlocksInFlight[p] + Cardinality({b}) <= MAX_BLOCKS_IN_TRANSIT_PER_PEER
      <4>1. Cardinality({b}) = 1
        BY FS_Singleton
      <4>2. nBlocksInFlight[p] \in Nat
        BY <1>1 DEF IInv, Books, Live
      <4> QED BY <2>2, <4>1, <4>2, LimitAssumption DEF HasRoom
    <3>2. Books' /\ InFlight' = InFlight \cup {b}
      BY <1>1, <2>2, <3>1, MarkedInFlight DEF IInv
    <3> QED BY <2>2, <3>2 DEF IInv, NothingHadInFlight, IndexSound, index
  <2> QED BY <2>1, <2>2
<1> QED BY <1>1, <1>2, <1>3, <1>4, <1>5, SameThreads DEF IInv, sync

\* The headers of a message, and those of them that are accepted.
Msg(first, last) == {x \in Anc[last] : first \in Anc[x]}
Accepted(first, last) ==
    {x \in Msg(first, last) :
        \A y \in Msg(first, last) \cap Anc[x] : HeaderOk(y, header \cup Msg(first, last))}

\* The accepted headers hang on the index: the first one's parent is in it, and the
\* others follow the first.
LEMMA HeadersClosed ==
    ASSUME IndexSound, NEW last \in Blocks, NEW first \in Anc[last]
    PROVE  \A b \in header \cup Accepted(first, last) :
              Anc[b] \subseteq header \cup Accepted(first, last)
<1> USE DEF Msg, Accepted
<1> DEFINE msg == Msg(first, last)
           accepted == Accepted(first, last)
<1> SUFFICES ASSUME NEW x \in accepted, NEW y \in Anc[x], y \notin header
             PROVE  y \in accepted
  BY DEF IndexSound
<1>1. /\ x \in msg /\ x \in Anc[last] /\ first \in Anc[x] /\ x \in Blocks
      /\ y \in Blocks /\ first \in Blocks
  BY Tree
<1>2. y \in Anc[last] /\ Anc[y] \subseteq Anc[x]
  BY <1>1, Tree
<1>3. CASE first \in Anc[y]
  BY <1>1, <1>2, <1>3
<1>4. CASE first \notin Anc[y]
  <2>1. y \in Anc[first] /\ y # first
    BY <1>1, <1>4, Tree
  <2>2. first \in msg \cap Anc[x]
    BY <1>1, Tree
  <2>3. HeaderOk(first, header \cup msg)
    BY <2>2
  <2>4. first \notin header
    BY <2>1 DEF IndexSound
  <2>5. first # Genesis
    BY <2>1, TreeAssumption
  <2>6. Parent[first] \notin msg
    <3>1. first \in Anc[Parent[first]] => Height[first] <= Height[Parent[first]]
      BY <1>1, <2>5, Tree
    <3>2. Height[first] = Height[Parent[first]] + 1 /\ Height[Parent[first]] \in Nat
      BY <1>1, <2>5, Tree
    <3> QED BY <3>1, <3>2
  <2>7. Parent[first] \in header
    BY <2>3, <2>4, <2>6 DEF HeaderOk
  <2>8. y \in Anc[Parent[first]]
    BY <1>1, <2>1, <2>5, Tree
  <2> QED BY <2>7, <2>8 DEF IndexSound
<1> QED BY <1>3, <1>4

LEMMA HeadersKeeps ==
    ASSUME IInv, NEW p \in Peers, NEW last \in Blocks, NEW first \in Anc[last],
           NEW continuous \in BOOLEAN, Headers(p, first, last, continuous)
    PROVE  IInv'
<1> DEFINE accepted == Accepted(first, last)
<1>1. /\ p \in greeted
      /\ header' = header \cup accepted
      /\ \/ UpdateBlockAvailability(p, last, header') /\ UNCHANGED fShouldBan
         \/ Misbehaving(p) /\ UNCHANGED availability
      /\ UNCHANGED <<fDisconnect, stalling, pindexLastCommonBlock, have, failed, tip>>
      /\ UNCHANGED <<connection, inflight, sync>>
  BY DEF Headers, Msg, Accepted
<1>2. \A b \in header' : Anc[b] \subseteq header'
  BY <1>1, HeadersClosed DEF IInv
<1>3. accepted \subseteq Blocks
  BY Tree DEF Msg, Accepted
<1> HIDE DEF accepted
<1>4. Live' = Live /\ p \in Live
  BY <1>1 DEF Live, IInv, Flags, connection
<1>5. Flags'
  BY <1>1, <1>4 DEF IInv, Flags, sync, connection, Misbehaving
<1>6. IndexSound'
  BY <1>1, <1>2, <1>3 DEF IInv, IndexSound, Linked
<1>7. Known'
  <2>1. header \subseteq header' /\ header' \subseteq Blocks
    BY <1>1, <1>3 DEF IInv, IndexSound
  <2> QED BY <1>1, <2>1, UpdateKeepsKnown, SameKnown DEF IInv
<1>8. Threads' /\ Preferred'
  BY <1>4, SameThreads DEF IInv, Headers, connection, sync
<1> QED BY <1>1, <1>4, <1>5, <1>6, <1>7, <1>8, SameBooks, SameNothing DEF IInv, inflight

\* A block that is accepted hangs on the index, and activation ends on linked blocks.
LEMMA AcceptBlockKeepsIndex ==
    ASSUME IndexSound, NEW p, NEW b \in Blocks, AcceptBlock(p, b)
    PROVE  /\ IndexSound'
           /\ header \subseteq header' /\ have \subseteq have' /\ have' \subseteq have \cup {b}
<1>1. Genesis \in header
  BY Tree DEF IndexSound, Linked
<1>2. HeaderOk(b, header) => \A c \in header \cup {b} : Anc[c] \subseteq header \cup {b}
  BY <1>1, Tree DEF IndexSound, HeaderOk
<1>3. CASE UNCHANGED index
  BY <1>3, SameIndex DEF index
<1>4. CASE /\ HeaderOk(b, header)
           /\ header' = header \cup {b}
           /\ failed' = failed \cup {b}
           /\ UNCHANGED <<have, tip>>
  BY <1>2, <1>4 DEF IndexSound, Linked
<1>5. CASE /\ HeaderOk(b, header)
           /\ header' = header \cup {b}
           /\ have' = have \cup {b}
           /\ tip' \in Activated(have')
           /\ failed' = failed \cup FoundInvalid(have', tip')
  <2>1. have' \subseteq header' /\ header' \subseteq Blocks
    BY <1>5 DEF IndexSound
  <2>2. \A c \in header' : Anc[c] \subseteq header'
    BY <1>2, <1>5
  <2>3. tip' \in Linked(have')
    <3>1. tip \in Linked(have')
      BY <1>5, LinkedGrows DEF IndexSound
    <3> QED BY <1>5, <3>1 DEF Activated, Connectable
  <2>4. FoundInvalid(have', tip') \subseteq header'
    BY <2>1, <2>2 DEF FoundInvalid, Linked
  <2> QED BY <1>5, <2>1, <2>2, <2>3, <2>4 DEF IndexSound
<1> QED BY <1>3, <1>4, <1>5 DEF AcceptBlock

LEMMA BlockKeeps ==
    ASSUME IInv, NEW p \in Peers, NEW b \in Blocks, NEW intact \in BOOLEAN, Block(p, b, intact)
    PROVE  IInv'
<1> USE DEF Block, connection
<1>1. Live' = Live /\ p \in Live
  BY DEF Live, IInv, Flags
<1>2. Books' /\ stalling' \subseteq stalling /\ InFlight' \subseteq InFlight \ {b}
  BY MarkedReceived DEF IInv, Received
<1>3. fShouldBan' \subseteq fShouldBan \cup {p}
  BY DEF AcceptBlock, Misbehaving
<1>4. Flags'
  BY <1>1, <1>2, <1>3 DEF IInv, Flags, sync
<1>5. /\ IndexSound'
      /\ header \subseteq header' /\ have \subseteq have' /\ have' \subseteq have \cup {b}
  <2>1. CASE intact
    BY <2>1, AcceptBlockKeepsIndex DEF IInv
  <2>2. CASE ~intact
    BY <2>2, SameIndex DEF IInv, index
  <2> QED BY <2>1, <2>2
<1>6. Known'
  BY <1>5, SameKnown DEF IInv
<1>7. NothingHadInFlight'
  BY <1>2, <1>5 DEF IInv, NothingHadInFlight
<1>8. Threads' /\ Preferred'
  BY <1>1, SameThreads DEF IInv, sync
<1> QED BY <1>2, <1>4, <1>5, <1>6, <1>7, <1>8 DEF IInv

\* The part of SendMessages that asks for blocks.
LEMMA RequestBlocksKeeps ==
    ASSUME IInv, NEW p \in Live, HasRoom(p), RequestBlocks(p), UNCHANGED <<node, index>>
    PROVE  /\ Books' /\ Known' /\ NothingHadInFlight'
           /\ \A q \in stalling' \ stalling : q \in Live
<1> DEFINE best == ProcessedBest(p, header)
<1>1. p \in Peers /\ Live' = Live
  BY DEF Live
<1>2. /\ best \in header \cup {NoBlock}
      /\ ProcessedUnknown(p, header) \in Blocks \cup {NoBlock}
      /\ header \subseteq Blocks
  BY <1>1, Availability DEF IInv, IndexSound
<1>3. /\ pindexBestKnownBlock' = [pindexBestKnownBlock EXCEPT ![p] = best]
      /\ hashLastUnknownBlock' = [hashLastUnknownBlock EXCEPT ![p] = ProcessedUnknown(p, header)]
  BY DEF RequestBlocks
<1>4. /\ pindexBestKnownBlock' \in [Peers -> header' \cup {NoBlock}]
      /\ hashLastUnknownBlock' \in [Peers -> Blocks \cup {NoBlock}]
  BY <1>1, <1>2, <1>3 DEF IInv, Known, index
<1>5. CASE UNCHANGED <<pindexLastCommonBlock, stalling, inflight>>
  <2>1. Known'
    BY <1>4, <1>5 DEF IInv, Known, LastCommonIsLinked, index, Linked
  <2> QED BY <1>1, <1>5, <2>1, SameBooks, SameNothing DEF IInv, inflight, index
<1>6. CASE Interesting(best)
  <2> DEFINE from == LastCommonAncestor(p, best)
             walk == Walk(from, best)
             S == ToDownload(p, from, walk)
  <2>1. best \in header /\ best \in Blocks
    BY <1>2, <1>6 DEF Interesting
  <2>2. /\ pindexLastCommonBlock' = [pindexLastCommonBlock EXCEPT ![p] = Advanced(from, walk)]
        /\ MarkBlocksAsInFlight(p, S, TRUE)
        /\ stalling' \subseteq stalling \cup Staller(p, from, walk)
    BY <1>6 DEF RequestBlocks
  <2>3. from \in Anc[best] /\ from \in Linked(have)
    BY <1>1, <2>1, StartLinked DEF IInv
  <2>4. walk \in SUBSET Anc[best]
    BY DEF Walk
  <2>5. Advanced(from, walk) \in Linked(have)
    BY <2>1, <2>3, <2>4, AdvanceLinked
  <2>6. /\ S \in SUBSET (Blocks \ (have \cup InFlight))
        /\ nBlocksInFlight[p] + Cardinality(S) <= MAX_BLOCKS_IN_TRANSIT_PER_PEER
    BY <1>1, <2>1, <2>4, DownloadsFit DEF IInv
  <2>7. \A q \in stalling' \ stalling : q \in Peers /\ vBlocksInFlight[q] # {}
    <3>1. \A q \in Staller(p, from, walk) :
             q \in Peers /\ \E b \in InFlight : mapBlocksInFlight[b] = q
      BY DEF Staller
    <3>2. \A b \in InFlight, q \in Peers :
             mapBlocksInFlight[b] = q => b \in vBlocksInFlight[q]
      BY DEF IInv, Books, InFlightAgrees, InFlight
    <3> QED BY <2>2, <3>1, <3>2
  <2> HIDE DEF best, from, walk, S
  <2>8. Known'
    <3>1. pindexLastCommonBlock' \in [Peers -> header' \cup {NoBlock}]
      BY <1>1, <2>2, <2>5 DEF IInv, Known, IndexSound, index, Linked
    <3>2. LastCommonIsLinked'
      BY <1>1, <2>2, <2>5 DEF IInv, Known, LastCommonIsLinked, index, Linked
    <3> QED BY <1>4, <3>1, <3>2 DEF Known
  <2>9. /\ Books' /\ InFlight' = InFlight \cup S
        /\ \A q \in stalling' \ stalling : q \in Live
    BY <2>2, <2>6, <2>7, MarkedInFlight DEF IInv
  <2>10. NothingHadInFlight'
    BY <2>6, <2>9 DEF IInv, NothingHadInFlight, index
  <2> QED BY <2>8, <2>9, <2>10
<1> QED BY <1>5, <1>6 DEF RequestBlocks

LEMMA SendMessagesKeeps ==
    ASSUME IInv, NEW p \in Peers, NEW late, SendMessages(p, late)
    PROVE  IInv'
<1> USE DEF SendMessages, connection
<1>1. Live' = Live /\ p \in Live
  BY DEF Live, IInv, Flags
<1>2. /\ Books' /\ Known' /\ NothingHadInFlight'
      /\ \A q \in stalling' \ stalling : q \in Live
  <2>1. CASE HasRoom(p) /\ RequestBlocks(p)
    BY <1>1, <2>1, RequestBlocksKeeps
  <2>2. CASE UNCHANGED <<availability, pindexLastCommonBlock, stalling, inflight>>
    BY <1>1, <2>2, SameBooks, SameKnown, SameNothing DEF IInv, inflight, index
  <2> QED BY <2>1, <2>2
<1>3. /\ nSyncStarted' = Cardinality(fSyncStarted') /\ nSyncStarted' \in Int
      /\ fSyncStarted' \subseteq Live
  <2>1. fSyncStarted \in SUBSET Peers
    BY DEF IInv, Flags, Live
  <2>2. CASE UNCHANGED <<fSyncStarted, nSyncStarted>>
    BY <2>2 DEF IInv, Flags
  <2>3. CASE /\ p \notin fSyncStarted
             /\ fSyncStarted' = fSyncStarted \cup {p}
             /\ nSyncStarted' = nSyncStarted + 1
    <3>1. Cardinality(fSyncStarted \cup {p}) = Cardinality(fSyncStarted) + 1
      BY <2>1, <2>3, PeerSets, FS_AddElement
    <3> QED BY <1>1, <2>3, <3>1 DEF IInv, Flags
  <2> QED BY <2>2, <2>3 DEF StartSync
<1>4. Flags'
  BY <1>1, <1>2, <1>3 DEF IInv, Flags
<1>5. IndexSound'
  BY SameIndex DEF IInv
<1>6. Threads' /\ Preferred'
  BY <1>1, SameThreads DEF IInv
<1> QED BY <1>2, <1>4, <1>5, <1>6 DEF IInv

LEMMA NextHolds == IInv /\ [Next]_vars => IInv'
<1> SUFFICES ASSUME IInv, [Next]_vars PROVE IInv'
  OBVIOUS
<1>1. CASE UNCHANGED vars
  <2>1. Live' = Live
    BY <1>1 DEF vars, Live
  <2>2. Flags'
    BY <1>1, <2>1 DEF vars, IInv, Flags
  <2> QED
    BY <1>1, <2>1, <2>2, SameThreads, SameBooks, SameKnown, SameIndex, SameNothing
       DEF vars, IInv, inflight, index, availability, unlocked
<1>2. CASE Next
  <2>1. CASE SubtractPreferred \/ AddPreferred
    BY <2>1, SubtractPreferredKeeps, AddPreferredKeeps
  <2>2. CASE \E p \in Peers : \/ InitializeNode(p) \/ Disconnect(p)
                             \/ EnterFinalizeNode(p) \/ FinalizeNode(p)
    BY <2>2, InitializeNodeKeeps, DisconnectKeeps, EnterFinalizeNodeKeeps, FinalizeNodeKeeps
  <2>3. CASE \E p \in Peers, late \in {"none", "stalling", "block"} : SendMessages(p, late)
    BY <2>3, SendMessagesKeeps
  <2>4. ASSUME NEW p \in Peers, Message(p) PROVE IInv'
    <3>1. Announced(p) \subseteq Blocks /\ Sent(p) \subseteq Blocks
      BY HonestAssumption, Tree DEF Announced, Sent
    <3>2. CASE Version(p) \/ VersionRefused(p)
      BY <2>4, <3>2, VersionKeeps, VersionRefusedKeeps DEF Message
    <3>3. CASE \E b \in Announced(p) : Inv(p, b)
      BY <3>1, <3>3, InvKeeps
    <3>4. CASE \E last \in Announced(p) : \E first \in Anc[last] \ {Genesis}, c \in BOOLEAN :
                  Headers(p, first, last, c)
      BY <3>1, <3>4, HeadersKeeps
    <3>5. CASE \E b \in Sent(p), intact \in BOOLEAN : Block(p, b, intact)
      BY <3>1, <3>5, BlockKeeps
    <3> QED BY <2>4, <3>2, <3>3, <3>4, <3>5 DEF Message
  <2> QED BY <1>2, <2>1, <2>2, <2>3, <2>4 DEF Next
<1> QED BY <1>1, <1>2

LEMMA InvariantHolds == Spec => []IInv
BY InitHolds, NextHolds, PTL DEF Spec

-----------------------------------------------------------------------------
(* The theorems.                                                           *)

\* The types hold, and no peer ever has more than MAX_BLOCKS_IN_TRANSIT_PER_PEER
\* blocks in flight: FindNextBlocksToDownload and "inv" respect the limit.
THEOREM TypeCorrect == Spec => []TypeOK
<1>1. IInv => TypeOK
  BY PeerAssumption
     DEF IInv, Flags, Threads, Books, Known, IndexSound, Linked, TypeOK, Live, LockFree
<1> QED BY <1>1, InvariantHolds, PTL

\* mapBlocksInFlight and the lists and counts in the CNodeStates always agree and
\* name live peers only, so that MarkBlockAsReceived and the stall check never
\* dereference the state of a peer that FinalizeNode has erased.
THEOREM InFlightAlwaysAgrees == Spec => []InFlightAgrees
<1>1. IInv => InFlightAgrees
  BY DEF IInv, Books
<1> QED BY <1>1, InvariantHolds, PTL

\* FinalizeNode gives back what "version" and SendMessages have counted.  For nSyncStarted
\* this holds without a condition, because every change of it is under cs_main; for
\* nPreferredDownload until an UpdatePreferredDownload, which is not, has met a
\* FinalizeNode, and only then: nothing else can make the count wrong.
THEOREM CountsAlwaysExact == Spec => []CountsExact
<1>1. IInv => CountsExact
  <2> SUFFICES ASSUME IInv, ThreadFree, ~overlapped
               PROVE  nPreferredDownload = Cardinality(fPreferredDownload)
    BY DEF IInv, Flags, CountsExact
  <2>1. nPreferredDownload = Cardinality(fPreferredDownload \ {NoPeer})
    BY DEF IInv, Preferred, ThreadFree
  <2>2. fPreferredDownload \ {NoPeer} = fPreferredDownload
    BY PeerAssumption DEF IInv, Flags, Live
  <2> QED BY <2>1, <2>2
<1> QED BY <1>1, InvariantHolds, PTL

\* No block that has arrived is waited for, a peer that is timed as a staller owes a
\* block, and nQueuedValidatedHeaders is never below the blocks in flight with a
\* header: neither timeout of SendMessages disconnects a peer for a block that this
\* node has, nor too early.
THEOREM TimeoutsAlwaysDeserved == Spec => []TimeoutsDeserved
<1>1. IInv => TimeoutsDeserved
  BY DEF IInv, Books, TimeoutsDeserved
<1> QED BY <1>1, InvariantHolds, PTL

\* FindNextBlocksToDownload never moves pindexLastCommonBlock past a block that is
\* missing, and what it starts from is always linked.
THEOREM NothingSkipped == Spec => []LastCommonIsLinked
<1>1. IInv => LastCommonIsLinked
  BY DEF IInv, Known
<1> QED BY <1>1, InvariantHolds, PTL

=============================================================================
