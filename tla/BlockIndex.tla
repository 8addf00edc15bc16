----------------------------- MODULE BlockIndex -----------------------------
(***************************************************************************)
(* The block tree and the choice of the active chain (main.cpp, chain.h):  *)
(* headers and blocks arrive in any order from several threads, each       *)
(* thread runs ActivateBestChain, which gives up cs_main between its steps;*)
(* an operator may call invalidateblock and reconsiderblock; the index and *)
(* the chain state reach the disk in two separate writes, with a crash     *)
(* possible before, between and after them.                                *)
(*                                                                         *)
(* A block is a name.  What it contains is its Verdict: whether            *)
(* ContextualCheckBlock and ConnectBlock will accept it.  (A header or a   *)
(* block that fails CheckBlockHeader or CheckBlock changes nothing, so it  *)
(* does not occur.)  Block files are never pruned: HAVE_DATA is nTx > 0.   *)
(***************************************************************************)
EXTENDS Integers, FiniteSets

CONSTANTS
    Blocks,         \* every block that may be seen
    Genesis,        \* the genesis block
    Parent,         \* pprev
    Anc,            \* the ancestors of a block, the block included
    Work,           \* nChainWork
    Verdicts,       \* possible assignments of a verdict to each block
    AddrOrders,     \* possible orders of the CBlockIndex objects in memory
    Threads,        \* threads that hand in blocks or serve RPCs
    NoBlock,        \* the NULL pointer
    Manual,         \* the blocks that the operator may invalidate
    Reconsidered,   \* the blocks that the operator may reconsider
    MaxManual,      \* bound on the calls of the operator
    MaxCrashes      \* bound on the crashes

ASSUME TreeAssumption ==
    /\ IsFiniteSet(Blocks) /\ Genesis \in Blocks /\ NoBlock \notin Blocks
    /\ Parent \in [Blocks \ {Genesis} -> Blocks]
    /\ Anc \in [Blocks -> SUBSET Blocks]
    /\ Anc[Genesis] = {Genesis}
    /\ \A b \in Blocks \ {Genesis} : Anc[b] = Anc[Parent[b]] \cup {b}
    /\ \A b \in Blocks \ {Genesis} : b \notin Anc[Parent[b]]
    /\ \A b \in Blocks : Genesis \in Anc[b]
    /\ \A b \in Blocks : \A a \in Anc[b] : Anc[a] \subseteq Anc[b]
    /\ \A b \in Blocks : \A a, c \in Anc[b] : a \in Anc[c] \/ c \in Anc[a]
ASSUME WorkAssumption ==
    /\ Work \in [Blocks -> Nat]
    /\ \A b \in Blocks \ {Genesis} : Work[Parent[b]] < Work[b]
ASSUME VerdictAssumption ==
    \A v \in Verdicts :
        /\ v \in [Blocks -> {"ok", "badcontext", "badconnect"}]
        /\ v[Genesis] = "ok"
ASSUME AddrAssumption ==
    \A o \in AddrOrders :
        /\ o \in [Blocks -> Nat]
        /\ \A b, c \in Blocks : o[b] = o[c] => b = c
ASSUME OperatorAssumption ==
    /\ Manual \subseteq Blocks \ {Genesis} /\ Reconsidered \subseteq Blocks
    /\ MaxManual \in Nat /\ MaxCrashes \in Nat

VARIABLES
    \* the outside world
    verdict,        \* what each block contains
    addr,           \* where this process has put each CBlockIndex
    \* mapBlockIndex
    idx,            \* nStatus of each block
    linked,         \* the blocks with nChainTx # 0
    seq,            \* nSequenceId
    nBlockSequenceId,
    \* the rest of the chain state, all under cs_main
    candidates,     \* setBlockIndexCandidates
    unlinked,       \* mapBlocksUnlinked: the blocks B of its pairs A->B
    tip,            \* chainActive.Tip() and pcoinsTip's best block
    bestInvalid,    \* pindexBestInvalid
    bestHeader,     \* pindexBestHeader
    \* persistence
    dirty,          \* setDirtyBlockIndex
    disk,           \* nStatus of each block in the block index database
    diskTip,        \* best block of the coin database
    flushing,       \* FlushStateToDisk is between its two writes
    \* threads
    pc,             \* where each thread is
    target,         \* its pindexMostWork, or the block it invalidates
    oldTip,         \* pindexOldTip of the step in progress
    \* counters for the bounds
    manuals, crashes

tree == <<idx, linked, seq, nBlockSequenceId>>
world == <<verdict, addr>>
durable == <<dirty, disk, diskTip, flushing>>
counters == <<manuals, crashes>>
vars == <<verdict, addr, idx, linked, seq, nBlockSequenceId, candidates, unlinked,
          tip, bestInvalid, bestHeader, dirty, disk, diskTip, flushing, pc, target,
          oldTip, manuals, crashes>>

\* nStatus: is the block in the map, does it have its transactions
\* (VALID_TRANSACTIONS, HAVE_DATA), its undo data, VALID_SCRIPTS, and the two
\* failure flags.
Status == [known : BOOLEAN, tx : BOOLEAN, undo : BOOLEAN, scripts : BOOLEAN,
           fvalid : BOOLEAN, fchild : BOOLEAN]

Unknown == [known |-> FALSE, tx |-> FALSE, undo |-> FALSE, scripts |-> FALSE,
            fvalid |-> FALSE, fchild |-> FALSE]
Header == [Unknown EXCEPT !.known = TRUE]
GenesisStatus == [Header EXCEPT !.tx = TRUE]

-----------------------------------------------------------------------------
(* Reading the index.                                                      *)

\* nStatus & BLOCK_FAILED_MASK
Failed(b) == idx[b].fvalid \/ idx[b].fchild

\* IsValid(BLOCK_VALID_TRANSACTIONS)
IsValidTx(b) == idx[b].tx /\ ~Failed(b)

\* CBlockIndexWorkComparator()(a, b): a sorts before (is worse than) b.
Worse(a, b) ==
    \/ Work[a] < Work[b]
    \/ Work[a] = Work[b] /\ seq[a] > seq[b]
    \/ Work[a] = Work[b] /\ seq[a] = seq[b] /\ addr[a] > addr[b]

\* The last element of a set sorted by the comparator (none if the set is empty).
FirstNotLast(S) == {b \in S : \A c \in S \ {b} : Worse(b, c)}
Best(S) == {b \in S : \A c \in S \ {b} : Worse(c, b)}

Descendants(b) == {d \in Blocks : b \in Anc[d]}

\* Nobody is inside cs_main.
LockFree == ~flushing /\ \A th \in Threads : pc[th] \notin {"reorg", "invalidate"}

\* nStatus |= BLOCK_FAILED_VALID
MarkedAsChild(status) == [status EXCEPT !.fchild = TRUE]
MarkedInvalid(status) == [status EXCEPT !.fvalid = TRUE]

\* PruneBlockIndexCandidates, when t has become the tip.
PruneNothing(t) == candidates
PruneTipToo(t) == {c \in candidates : Worse(t, c)}
PruneBlockIndexCandidates(t) == {c \in candidates : ~Worse(c, t)}

\* InvalidChainFound: pindexBestInvalid after b was found invalid.
BestInvalidWith(b) ==
    IF bestInvalid = NoBlock THEN b
    ELSE IF Work[b] > Work[bestInvalid] THEN b ELSE bestInvalid

-----------------------------------------------------------------------------
(* FindMostWorkChain.                                                      *)

\* The blocks on the way from the active chain to c.
Path(c) == Anc[c] \ Anc[tip]

\* No block on the way is marked as failed.
Usable(c) == \A b \in Path(c) : ~Failed(b)

\* The part of the way that the inner loop removes: from c down to the first
\* failed block it meets.
RemovedOneTooMany(c) ==
    {b \in Anc[c] : \A f \in Path(c) : Failed(f) /\ b \in Anc[f] => b \in {f, Parent[f]}}
Removed(c) == {b \in Path(c) : \A f \in Path(c) : Failed(f) /\ b \in Anc[f] => b = f}

\* The candidates that the outer loop takes up before it finds a usable one.
Discarded ==
    {c \in candidates : ~Usable(c) /\ \A g \in candidates : Usable(g) => Worse(g, c)}

\* What it returns (nothing for NULL).
MostWork == Best({c \in candidates : Usable(c)})

-----------------------------------------------------------------------------
(* Headers and blocks.                                                     *)

Init ==
    /\ verdict \in Verdicts
    /\ addr \in AddrOrders
    /\ idx = [b \in Blocks |-> IF b = Genesis THEN GenesisStatus ELSE Unknown]
    /\ linked = {Genesis}
    /\ seq = [b \in Blocks |-> IF b = Genesis THEN 1 ELSE 0]
    /\ nBlockSequenceId = 2
    /\ candidates = {Genesis}
    /\ unlinked = {}
    /\ tip = Genesis
    /\ bestInvalid = NoBlock
    /\ bestHeader = Genesis
    /\ dirty = {}
    /\ disk = idx
    /\ diskTip = Genesis
    /\ flushing = FALSE
    /\ pc = [th \in Threads |-> "idle"]
    /\ target = [th \in Threads |-> NoBlock]
    /\ oldTip = NoBlock
    /\ manuals = 0 /\ crashes = 0

\* AcceptBlockHeader succeeds: the header is known and not failed, or it is new
\* and its parent is known and not failed.
HeaderAccepted(b) ==
    IF idx[b].known THEN ~Failed(b)
    ELSE idx[Parent[b]].known /\ ~Failed(Parent[b])

\* The index and pindexBestHeader after AddToBlockIndex(b).
Added(b) == IF idx[b].known THEN idx ELSE [idx EXCEPT ![b] = Header]
BestHeaderWith(b) ==
    IF ~idx[b].known /\ Work[bestHeader] < Work[b] THEN b ELSE bestHeader

\* One header of a "headers" message.
AcceptBlockHeader(th, b) ==
    /\ pc[th] = "idle" /\ LockFree
    /\ ~idx[b].known /\ HeaderAccepted(b)
    /\ idx' = Added(b)
    /\ bestHeader' = BestHeaderWith(b)
    /\ dirty' = dirty \cup {b}
    /\ UNCHANGED <<world, linked, seq, nBlockSequenceId, candidates, unlinked, tip,
                   bestInvalid, disk, diskTip, flushing, pc, target, oldTip, counters>>

\* The blocks that ReceivedBlockTransactions links when b has arrived: b and
\* what waits for it in mapBlocksUnlinked.
NewlyLinkedOnlyFirst(b) == {b}
NewlyLinked(b) == {d \in Descendants(b) : Anc[d] \ Anc[b] \subseteq unlinked}

\* The orders in which its queue may hold them: breadth first.
QueueOrders(S) ==
    {q \in [S -> 1..Cardinality(S)] :
        \A d, e \in S :
            /\ q[d] = q[e] => d = e
            /\ Cardinality(Anc[d]) < Cardinality(Anc[e]) => q[d] < q[e]}

\* mapBlocksUnlinked after b arrived before its parent was linked.
NotRecorded(b) == unlinked
Waiting(b) == IF Failed(Parent[b]) THEN unlinked ELSE unlinked \cup {b}

\* nBlockSequenceId after it was handed out to n blocks.
Counted(n) == nBlockSequenceId + n

\* ReceivedBlockTransactions: b has its data.
ReceivedBlockTransactions(b) ==
    /\ idx' = [Added(b) EXCEPT ![b] = [@ EXCEPT !.tx = TRUE]]
    /\ dirty' = dirty \cup {b}
    /\ \/ /\ Parent[b] \in linked
          /\ \E q \in QueueOrders(NewlyLinked(b)) :
               seq' = [d \in Blocks |-> IF d \in NewlyLinked(b)
                                        THEN nBlockSequenceId + q[d] - 1 ELSE seq[d]]
          /\ nBlockSequenceId' = Counted(Cardinality(NewlyLinked(b)))
          /\ linked' = linked \cup NewlyLinked(b)
          /\ candidates' = candidates \cup {d \in NewlyLinked(b) :
                \/ Work[d] > Work[tip]
                \/ Work[d] = Work[tip] /\ seq'[d] < seq[tip]}
          /\ unlinked' = unlinked \ NewlyLinked(b)
       \/ /\ Parent[b] \notin linked
          /\ unlinked' = Waiting(b)
          /\ UNCHANGED <<seq, nBlockSequenceId, linked, candidates>>

\* ProcessNewBlock up to ActivateBestChain: the data of b is new.
AcceptBlock(th, b) ==
    /\ pc[th] = "idle" /\ LockFree
    /\ b # Genesis /\ HeaderAccepted(b) /\ ~idx[b].tx
    /\ verdict[b] # "badcontext"
    /\ ReceivedBlockTransactions(b)
    /\ bestHeader' = BestHeaderWith(b)
    /\ pc' = [pc EXCEPT ![th] = "activating"]
    /\ UNCHANGED <<world, tip, bestInvalid, disk, diskTip, flushing, target, oldTip,
                   counters>>

\* ContextualCheckBlock refuses b: its header stays, marked.
AcceptBlockFails(th, b) ==
    /\ pc[th] = "idle" /\ LockFree
    /\ b # Genesis /\ HeaderAccepted(b) /\ ~idx[b].tx
    /\ verdict[b] = "badcontext"
    /\ idx' = [Added(b) EXCEPT ![b] = MarkedInvalid(@)]
    /\ bestHeader' = BestHeaderWith(b)
    /\ dirty' = dirty \cup {b}
    /\ UNCHANGED <<world, linked, seq, nBlockSequenceId, candidates, unlinked, tip,
                   bestInvalid, disk, diskTip, flushing, pc, target, oldTip, counters>>

\* A block that we have already: ProcessNewBlock still runs ActivateBestChain.
AcceptDuplicate(th, b) ==
    /\ pc[th] = "idle" /\ LockFree
    /\ idx[b].tx /\ ~Failed(b)
    /\ pc' = [pc EXCEPT ![th] = "activating"]
    /\ UNCHANGED <<world, tree, candidates, unlinked, tip, bestInvalid, bestHeader,
                   durable, target, oldTip, counters>>

-----------------------------------------------------------------------------
(* ActivateBestChain.                                                      *)

\* An iteration takes cs_main and runs FindMostWorkChain; it returns when there
\* is nothing better than the tip and otherwise starts a step towards it.
ActivateBestChain(th) ==
    /\ pc[th] = "activating" /\ LockFree
    /\ LET gone == UNION {Removed(c) : c \in Discarded} IN
       /\ idx' = [b \in Blocks |->
                    IF b \in gone /\ ~Failed(b) THEN [idx[b] EXCEPT !.fchild = TRUE]
                    ELSE idx[b]]
       /\ candidates' = candidates \ gone
    /\ \/ Discarded = {} /\ UNCHANGED bestInvalid
       \/ \E c \in Best(Discarded) : bestInvalid' = BestInvalidWith(c)
    /\ \/ /\ MostWork \subseteq {tip}
          /\ pc' = [pc EXCEPT ![th] = "idle"]
          /\ UNCHANGED <<target, oldTip>>
       \/ /\ \E c \in MostWork \ {tip} : target' = [target EXCEPT ![th] = c]
          /\ pc' = [pc EXCEPT ![th] = "reorg"]
          /\ oldTip' = tip
    /\ UNCHANGED <<world, linked, seq, nBlockSequenceId, unlinked, tip, bestHeader,
                   durable, counters>>

\* DisconnectTip, while the tip is not an ancestor of pindexMostWork.
DisconnectTip(th) ==
    /\ pc[th] = "reorg" /\ ~flushing
    /\ tip \notin Anc[target[th]]
    /\ tip' = Parent[tip]
    /\ pc' = [pc EXCEPT ![th] = IF tip' = target[th] THEN "looptest" ELSE "reorg"]
    /\ UNCHANGED <<world, tree, candidates, unlinked, bestInvalid, bestHeader, durable,
                   target, oldTip, counters>>

\* What ConnectBlock leaves in the index entry of b, and in setDirtyBlockIndex.
ConnectedNoUndo(b) == [idx[b] EXCEPT !.scripts = @ \/ ~Failed(b)]
Connected(b) == [idx[b] EXCEPT !.undo = TRUE, !.scripts = @ \/ ~Failed(b)]
NotDirtied(b) == dirty
DirtyWith(b) ==
    IF idx[b].undo /\ idx[b].scripts /\ ~Failed(b) THEN dirty ELSE dirty \cup {b}

\* A step ends at its target, or when the new tip b has more work than the old.
StepEndsEarly(th, b) == b = target[th] \/ Work[b] >= Work[oldTip]
StepEnds(th, b) == b = target[th] \/ Work[b] > Work[oldTip]

\* ConnectTip of the next block on the way succeeds; ConnectBlock writes its
\* undo data; PruneBlockIndexCandidates; the lock is given up as soon as the
\* new tip has more work than the one the step started from.
ConnectTip(th, b) ==
    /\ pc[th] = "reorg" /\ ~flushing
    /\ b \in Anc[target[th]] \ {Genesis} /\ Parent[b] = tip /\ b \notin Anc[tip]
    /\ tip \in Anc[target[th]]
    /\ verdict[b] # "badconnect"
    /\ idx' = [idx EXCEPT ![b] = Connected(b)]
    /\ dirty' = DirtyWith(b)
    /\ tip' = b
    /\ candidates' = PruneBlockIndexCandidates(b)
    /\ pc' = [pc EXCEPT ![th] = IF StepEnds(th, b) THEN "looptest" ELSE "reorg"]
    /\ UNCHANGED <<world, linked, seq, nBlockSequenceId, unlinked, bestInvalid,
                   bestHeader, disk, diskTip, flushing, target, oldTip, counters>>

\* A ConnectTip that leaves the block as if the refusal did not concern it.
ConnectTipFailsUnmarked(th, b) ==
    /\ pc[th] = "reorg" /\ ~flushing
    /\ b \in Anc[target[th]] \ {Genesis} /\ Parent[b] = tip /\ b \notin Anc[tip]
    /\ tip \in Anc[target[th]]
    /\ verdict[b] = "badconnect"
    /\ pc' = [pc EXCEPT ![th] = "looptest"]
    /\ UNCHANGED <<world, tree, candidates, unlinked, tip, bestInvalid, bestHeader,
                   durable, target, oldTip, counters>>

\* ConnectBlock refuses the block: InvalidBlockFound, and the step ends.
ConnectTipFails(th, b) ==
    /\ pc[th] = "reorg" /\ ~flushing
    /\ b \in Anc[target[th]] \ {Genesis} /\ Parent[b] = tip /\ b \notin Anc[tip]
    /\ tip \in Anc[target[th]]
    /\ verdict[b] = "badconnect"
    /\ idx' = [idx EXCEPT ![b] = MarkedInvalid(@)]
    /\ dirty' = dirty \cup {b}
    /\ candidates' = candidates \ {b}
    /\ bestInvalid' = BestInvalidWith(b)
    /\ pc' = [pc EXCEPT ![th] = "looptest"]
    /\ UNCHANGED <<world, linked, seq, nBlockSequenceId, unlinked, tip, bestHeader,
                   disk, diskTip, flushing, target, oldTip, counters>>

\* while (pindexMostWork != chainActive.Tip()), read without the lock.
LoopTest(th) ==
    /\ pc[th] = "looptest"
    /\ pc' = [pc EXCEPT ![th] = IF target[th] = tip THEN "idle" ELSE "activating"]
    /\ UNCHANGED <<world, tree, candidates, unlinked, tip, bestInvalid, bestHeader,
                   durable, target, oldTip, counters>>

-----------------------------------------------------------------------------
(* The RPCs of the operator; both run ActivateBestChain afterwards.        *)

\* One turn of the loop of InvalidateBlock: the tip is marked and disconnected.
MarkAndDisconnect(index) ==
    /\ idx' = [index EXCEPT ![tip] = [@ EXCEPT !.fchild = TRUE]]
    /\ tip' = Parent[tip]

\* InvalidateBlock: the mark on the block itself and, when the block is active,
\* the first turn of the loop.
InvalidateBlock(th, b) ==
    /\ pc[th] = "idle" /\ LockFree
    /\ manuals < MaxManual /\ manuals' = manuals + 1
    /\ b \in Manual /\ idx[b].known
    /\ LET marked == [idx EXCEPT ![b] = MarkedInvalid(@)] IN
       \/ /\ b \in Anc[tip]
          /\ MarkAndDisconnect(marked)
          /\ candidates' = candidates \ {b, tip}
          /\ dirty' = dirty \cup {b, tip}
       \/ /\ b \notin Anc[tip]
          /\ idx' = marked
          /\ candidates' = candidates \ {b}
          /\ dirty' = dirty \cup {b}
          /\ UNCHANGED tip
    /\ target' = [target EXCEPT ![th] = b]
    /\ pc' = [pc EXCEPT ![th] = "invalidate"]
    /\ UNCHANGED <<world, linked, seq, nBlockSequenceId, unlinked, bestInvalid,
                   bestHeader, disk, diskTip, flushing, oldTip, crashes>>

\* A further turn of the loop.
InvalidateTurn(th) ==
    /\ pc[th] = "invalidate" /\ ~flushing
    /\ target[th] \in Anc[tip]
    /\ MarkAndDisconnect(idx)
    /\ candidates' = candidates \ {tip}
    /\ dirty' = dirty \cup {tip}
    /\ UNCHANGED <<world, linked, seq, nBlockSequenceId, unlinked, bestInvalid,
                   bestHeader, disk, diskTip, flushing, pc, target, oldTip, counters>>

\* The blocks that are now as good as the tip.
Readmitted == {b \in linked : IsValidTx(b) /\ ~Worse(b, tip)}

\* An InvalidateBlock that takes off one block only.
InvalidateEndAfterOneTurn(th) ==
    /\ pc[th] = "invalidate" /\ ~flushing
    /\ candidates' = candidates \cup Readmitted
    /\ bestInvalid' = BestInvalidWith(target[th])
    /\ pc' = [pc EXCEPT ![th] = "activating"]
    /\ UNCHANGED <<world, tree, unlinked, tip, bestHeader, durable, target, oldTip,
                   counters>>

\* The end of InvalidateBlock: every block that is now as good as the tip is a
\* candidate again.
InvalidateEnd(th) ==
    /\ pc[th] = "invalidate" /\ ~flushing
    /\ target[th] \notin Anc[tip]
    /\ candidates' = candidates \cup Readmitted
    /\ bestInvalid' = BestInvalidWith(target[th])
    /\ pc' = [pc EXCEPT ![th] = "activating"]
    /\ UNCHANGED <<world, tree, unlinked, tip, bestHeader, durable, target, oldTip,
                   counters>>

\* The first loop of ReconsiderBlock: the blocks it clears, and those of them
\* that become candidates.
Reconsiderable(b) == {d \in Descendants(b) : idx[d].known /\ ~IsValidTx(d)}
Reinstated(b) == {d \in Reconsiderable(b) : idx[d].tx /\ d \in linked /\ Worse(tip, d)}

\* ReconsiderBlock: clears the flags of the block, of its descendants and of
\* its ancestors; of these, only the block and its descendants can become
\* candidates.
ReconsiderBlock(th, b) ==
    /\ pc[th] = "idle" /\ LockFree
    /\ manuals < MaxManual /\ manuals' = manuals + 1
    /\ b \in Reconsidered /\ idx[b].known
    /\ LET below == Reconsiderable(b)
           above == {a \in Anc[b] : Failed(a)}
       IN  /\ idx' = [d \in Blocks |->
                        IF d \in below \cup above
                        THEN [idx[d] EXCEPT !.fvalid = FALSE, !.fchild = FALSE]
                        ELSE idx[d]]
           /\ dirty' = dirty \cup below \cup above
           /\ candidates' = candidates \cup Reinstated(b)
           /\ bestInvalid' = IF bestInvalid \in below THEN NoBlock ELSE bestInvalid
    /\ pc' = [pc EXCEPT ![th] = "activating"]
    /\ UNCHANGED <<world, linked, seq, nBlockSequenceId, unlinked, tip, bestHeader,
                   disk, diskTip, flushing, target, oldTip, crashes>>

-----------------------------------------------------------------------------
(* Persistence.                                                            *)

\* FlushStateToDisk, first write: the dirty index entries, in one batch.  It is
\* called with cs_main held: after a periodic decision or by an RPC (nobody else
\* is inside), or in the middle of a step from ConnectTip and DisconnectTip.  A
\* flush that finds nothing to write is left out.
FlushIndex ==
    /\ ~flushing /\ (dirty # {} \/ diskTip # tip)
    /\ flushing' = TRUE
    /\ disk' = [b \in Blocks |-> IF b \in dirty THEN idx[b] ELSE disk[b]]
    /\ dirty' = {}
    /\ UNCHANGED <<world, tree, candidates, unlinked, tip, bestInvalid, bestHeader,
                   diskTip, pc, target, oldTip, counters>>

\* Second write: the coins with their best block.
FlushCoins ==
    /\ flushing
    /\ flushing' = FALSE
    /\ diskTip' = tip
    /\ UNCHANGED <<world, tree, candidates, unlinked, tip, bestInvalid, bestHeader,
                   dirty, disk, pc, target, oldTip, counters>>

\* nChainTx as LoadBlockIndexDB recomputes it.
LoadedLinked == {b \in Blocks : \A a \in Anc[b] : disk[a].tx}

\* setBlockIndexCandidates: the linked blocks not marked as failed, pruned of
\* those that sort before the tip (every loaded block has sequence number 0).
LoadedCandidatesUnpruned == {b \in LoadedLinked : ~disk[b].fvalid /\ ~disk[b].fchild}
LoadedCandidates ==
    {b \in LoadedLinked :
        /\ ~disk[b].fvalid /\ ~disk[b].fchild
        /\ ~(\/ Work[b] < Work[diskTip]
             \/ Work[b] = Work[diskTip] /\ addr'[b] > addr'[diskTip])}

\* Some maximum by work, as a scan in any order of equals may leave it.
MaxWork(S) == {b \in S : \A c \in S : Work[c] <= Work[b]}

\* The process dies and is started again: LoadBlockIndexDB, then AppInit2 runs
\* ActivateBestChain before it starts the other threads.
Restart(th) ==
    /\ crashes < MaxCrashes /\ crashes' = crashes + 1
    /\ addr' \in AddrOrders
    /\ idx' = disk
    /\ linked' = LoadedLinked
    /\ seq' = [b \in Blocks |-> 0]
    /\ nBlockSequenceId' = 1
    /\ unlinked' = {b \in Blocks \ {Genesis} : disk[b].tx /\ Parent[b] \notin LoadedLinked}
    /\ tip' = diskTip
    /\ candidates' = LoadedCandidates
    /\ LET bad == {b \in Blocks : disk[b].fvalid \/ disk[b].fchild}
           good == {b \in Blocks : disk[b].known} \ bad
       IN  /\ IF bad = {} THEN bestInvalid' = NoBlock ELSE bestInvalid' \in MaxWork(bad)
           /\ bestHeader' \in {b \in MaxWork(good) :
                                  \A c \in MaxWork(good) : addr'[b] <= addr'[c]}
    /\ dirty' = {}
    /\ flushing' = FALSE
    /\ pc' = [t \in Threads |-> IF t = th THEN "activating" ELSE "down"]
    /\ target' = [t \in Threads |-> NoBlock]
    /\ oldTip' = NoBlock
    /\ UNCHANGED <<verdict, disk, diskTip, manuals>>

\* A thread starts to serve once the first activation is over.
StartThread(th) ==
    /\ pc[th] = "down"
    /\ \A t \in Threads : pc[t] \in {"down", "idle"}
    /\ pc' = [pc EXCEPT ![th] = "idle"]
    /\ UNCHANGED <<world, tree, candidates, unlinked, tip, bestInvalid, bestHeader,
                   durable, target, oldTip, counters>>

-----------------------------------------------------------------------------
\* What a thread does inside ActivateBestChain and InvalidateBlock.
Step(th) ==
    \/ ActivateBestChain(th)
    \/ DisconnectTip(th)
    \/ \E b \in Blocks : ConnectTip(th, b)
    \/ \E b \in Blocks : ConnectTipFails(th, b)
    \/ LoopTest(th)
    \/ InvalidateTurn(th)
    \/ InvalidateEnd(th)

Next ==
    \/ \E th \in Threads, b \in Blocks : AcceptBlockHeader(th, b)
    \/ \E th \in Threads, b \in Blocks : AcceptBlock(th, b)
    \/ \E th \in Threads, b \in Blocks : AcceptBlockFails(th, b)
    \/ \E th \in Threads, b \in Blocks : AcceptDuplicate(th, b)
    \/ \E th \in Threads : Step(th)
    \/ \E th \in Threads, b \in Blocks : InvalidateBlock(th, b)
    \/ \E th \in Threads, b \in Blocks : ReconsiderBlock(th, b)
    \/ FlushIndex
    \/ FlushCoins
    \/ \E th \in Threads : Restart(th)
    \/ \E th \in Threads : StartThread(th)

Spec == Init /\ [][Next]_vars

\* Threads are scheduled, cs_main is handed over, writes return.
FairSpec ==
    /\ Spec
    /\ \A th \in Threads : SF_vars(Step(th))
    /\ WF_vars(FlushCoins)

-----------------------------------------------------------------------------
(* Properties.                                                             *)

PCs == {"idle", "activating", "reorg", "looptest", "invalidate", "down"}

\* The types of the variables; the sequence numbers given out are below the
\* counter nBlockSequenceId.
TypeOK ==
    /\ verdict \in Verdicts /\ addr \in AddrOrders
    /\ idx \in [Blocks -> Status] /\ disk \in [Blocks -> Status]
    /\ linked \subseteq Blocks /\ nBlockSequenceId \in Nat
    /\ seq \in [Blocks -> 0..(nBlockSequenceId - 1)]
    /\ candidates \subseteq Blocks /\ unlinked \subseteq Blocks
    /\ tip \in Blocks /\ diskTip \in Blocks
    /\ bestInvalid \in Blocks \cup {NoBlock} /\ bestHeader \in Blocks
    /\ dirty \subseteq Blocks /\ flushing \in BOOLEAN
    /\ pc \in [Threads -> PCs] /\ target \in [Threads -> Blocks \cup {NoBlock}]
    /\ oldTip \in Blocks \cup {NoBlock}
    /\ manuals \in 0..MaxManual /\ crashes \in 0..MaxCrashes

\* No block with an invalid self or ancestor (pindexFirstInvalid == NULL).
CleanBranch(b) == \A a \in Anc[b] : ~idx[a].fvalid

\* pindexFirstNeverProcessed == NULL
Processed(b) == \A a \in Anc[b] : idx[a].tx

Quiescent == \A th \in Threads : pc[th] \in {"idle", "down"}

\* CheckBlockIndex, failed mask: a block carries a failure flag only if it or
\* one of its ancestors has BLOCK_FAILED_VALID.
FailedMaskExplained == \A b \in Blocks : CleanBranch(b) => ~Failed(b)

\* CheckBlockIndex and chain.h: nChainTx is set exactly for the blocks whose
\* transactions, and those of all their ancestors, have arrived.
LinkedIsProcessed == \A b \in Blocks : b \in linked <=> Processed(b)

\* CheckBlockIndex, candidates: a block at least as good as the tip, with all
\* data and no invalid ancestor, is a candidate; a worse one is not.
CandidatesExact ==
    \A b \in Blocks :
        IF Processed(b) /\ ~Worse(b, tip)
        THEN CleanBranch(b) => b \in candidates
        ELSE b \notin candidates

\* That check as it can be relied on: between the calls of ActivateBestChain.
CandidatesExactAtRest == Quiescent /\ LockFree => CandidatesExact

\* CheckBlockIndex, mapBlocksUnlinked: a block with data that waits for an
\* ancestor is found there, unless an ancestor is invalid; nothing else is.
UnlinkedExact ==
    LockFree =>
        \A b \in Blocks \ {Genesis} :
            /\ idx[b].tx /\ ~Processed(b) /\ CleanBranch(b) => b \in unlinked
            /\ b \in unlinked => idx[b].tx /\ ~Processed(b)

\* The active chain holds no block that is marked as failed, outside the turns
\* of InvalidateBlock: FindMostWorkChain takes this for granted when it stops
\* looking at the first active block.
ActiveChainUnmarked == LockFree => \A b \in Anc[tip] : ~Failed(b)

\* The active chain holds no block that validation refuses, and the undo data
\* of every block that a reorganisation may have to take off.
ActiveChainSound ==
    /\ \A b \in Anc[tip] : verdict[b] = "ok"
    /\ \A b \in Anc[tip] \ {Genesis} : idx[b].undo

\* When every call of ActivateBestChain has returned, no chain of received,
\* unmarked blocks sorts above the active one.
BestChainAtRest ==
    Quiescent /\ LockFree =>
        \A b \in linked : (\A a \in Anc[b] : ~Failed(a)) => ~Worse(tip, b)

\* A failure mark is deserved: some block at or below it is refused by
\* validation or was invalidated by the operator.
MarksDeserved ==
    \A b \in Blocks : Failed(b) => \E a \in Anc[b] : verdict[a] # "ok" \/ a \in Manual

\* The two databases agree in the order of the writes: the best block of the
\* coins, and all its ancestors, are in the stored index with their data and
\* undo data, whatever moment the process dies.
DiskTipRecoverable ==
    \A b \in Anc[diskTip] : disk[b].tx /\ (b # Genesis => disk[b].undo)

\* The assert of PruneBlockIndexCandidates, also as the last step of
\* LoadBlockIndexDB: some candidate is always left.
CandidatesNeverEmpty == LockFree => candidates # {}

\* Every call of ActivateBestChain returns, unless the process dies first.
ActivationEnds ==
    \A th \in Threads : pc[th] \notin {"idle", "down"} ~> pc[th] \in {"idle", "down"}

\* A step of ActivateBestChain gives the lock back only with a tip that sorts
\* above the one it started from, or with a block newly marked as failed: no
\* reader outside cs_main sees the chain shrink for nothing.
StepImproves ==
    [][\A th \in Threads :
          pc[th] = "reorg" /\ pc'[th] = "looptest" =>
             \/ Worse(oldTip, tip')
             \/ \E b \in Blocks : ~Failed(b) /\ Failed(b)']_vars
=============================================================================
