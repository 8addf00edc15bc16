-------------------------- MODULE BlockIndexProofs --------------------------
(***************************************************************************)
(* Proofs about the block tree and the active chain, for every tree of     *)
(* blocks, every assignment of work and of verdicts, every number of       *)
(* threads, operator calls and crashes.                                    *)
(***************************************************************************)
EXTENDS BlockIndex, FiniteSetTheorems, TLAPS

\* Some block at or below b is refused by validation or by the operator.
Deserved(b) == \E a \in Anc[b] : verdict[a] # "ok" \/ a \in Manual

\* Only the blocks of the index have data and undo data.
OnlyKnown ==
    \A b \in Blocks :
        /\ ~idx[b].known => ~idx[b].tx /\ ~idx[b].undo
        /\ ~disk[b].known => ~disk[b].tx /\ ~disk[b].undo

\* A block has data, in memory or on disk, only after ContextualCheckBlock.
DataValidated ==
    \A b \in Blocks : idx[b].tx \/ disk[b].tx => verdict[b] # "badcontext"

\* Data behind the links: a block that waits has its own, a linked block also
\* that of its ancestors.
LinksHaveData ==
    /\ \A b \in unlinked : idx[b].tx
    /\ \A b \in linked : \A a \in Anc[b] : idx[a].tx

CandidatesLinked == candidates \subseteq linked

\* What the threads work on.
TargetsKnown ==
    \A th \in Threads :
        /\ pc[th] = "reorg" => target[th] \in linked
        /\ pc[th] = "invalidate" => target[th] \in Manual

ActiveHasData == \A b \in Anc[tip] : idx[b].tx

\* An index entry that is not dirty is on disk, as far as its data goes (the
\* mark BLOCK_FAILED_CHILD of FindMostWorkChain is not written); a dirty one may
\* have gained data, never lost it.
Synced ==
    /\ flushing => dirty = {}
    /\ \A b \in Blocks : (disk[b].tx => idx[b].tx) /\ (disk[b].undo => idx[b].undo)
    /\ \A b \in Blocks \ dirty : disk[b].tx = idx[b].tx /\ disk[b].undo = idx[b].undo

\* What a restart begins with.
DiskTipValid == \A b \in Anc[diskTip] : verdict[b] = "ok"
DiskMarksDeserved ==
    \A b \in Blocks : disk[b].fvalid \/ disk[b].fchild => Deserved(b)

\* The inductive invariant.
IInv ==
    /\ TypeOK
    /\ OnlyKnown
    /\ DataValidated
    /\ LinksHaveData
    /\ CandidatesLinked
    /\ TargetsKnown
    /\ ActiveHasData
    /\ ActiveChainSound
    /\ Synced
    /\ DiskTipRecoverable
    /\ DiskTipValid
    /\ MarksDeserved
    /\ DiskMarksDeserved

-----------------------------------------------------------------------------
(* The tree and the index entries.                                         *)

\* What the proofs use of the tree.
LEMMA TreeFacts ==
    /\ Genesis \in Blocks
    /\ \A b \in Blocks : b \in Anc[b] /\ Anc[b] \subseteq Blocks /\ Genesis \in Anc[b]
    /\ \A b \in Blocks \ {Genesis} :
          Parent[b] \in Blocks /\ Anc[b] = Anc[Parent[b]] \cup {b}
    /\ Anc[Genesis] = {Genesis}
BY TreeAssumption

\* The ways in which an entry changes keep it an entry, and its other fields.
LEMMA MarkedFacts ==
    ASSUME NEW s \in Status
    PROVE  LET m == MarkedInvalid(s) IN
           m \in Status /\ m.known = s.known /\ m.tx = s.tx /\ m.undo = s.undo
BY DEF Status, MarkedInvalid

LEMMA ChildFacts ==
    ASSUME NEW s \in Status
    PROVE  LET m == [s EXCEPT !.fchild = TRUE] IN
           m \in Status /\ m.known = s.known /\ m.tx = s.tx /\ m.undo = s.undo
BY DEF Status

LEMMA ClearedFacts ==
    ASSUME NEW s \in Status
    PROVE  LET m == [s EXCEPT !.fvalid = FALSE, !.fchild = FALSE] IN
           /\ m \in Status /\ m.known = s.known /\ m.tx = s.tx /\ m.undo = s.undo
           /\ ~m.fvalid /\ ~m.fchild
BY DEF Status

LEMMA DataFacts ==
    ASSUME NEW s \in Status
    PROVE  LET m == [s EXCEPT !.tx = TRUE] IN
           /\ m \in Status /\ m.known = s.known /\ m.tx /\ m.undo = s.undo
           /\ m.fvalid = s.fvalid /\ m.fchild = s.fchild
BY DEF Status

LEMMA UndoFacts ==
    ASSUME NEW s \in Status, NEW v \in BOOLEAN
    PROVE  LET m == [s EXCEPT !.undo = TRUE, !.scripts = v] IN
           /\ m \in Status /\ m.known = s.known /\ m.tx = s.tx /\ m.undo
           /\ m.fvalid = s.fvalid /\ m.fchild = s.fchild
BY DEF Status

LEMMA HeaderFacts ==
    /\ Unknown \in Status /\ Header \in Status /\ GenesisStatus \in Status
    /\ ~Unknown.tx /\ ~Unknown.undo /\ ~Unknown.fvalid /\ ~Unknown.fchild
    /\ Header.known /\ Header.tx = FALSE /\ Header.undo = FALSE
    /\ ~Header.fvalid /\ ~Header.fchild
    /\ GenesisStatus.known /\ GenesisStatus.tx /\ ~GenesisStatus.fvalid /\ ~GenesisStatus.fchild
BY DEF Status, Unknown, Header, GenesisStatus

\* How an action may change the index without a write to disk: data is only
\* added, after its check; a mark is deserved; what changes becomes dirty.
Grows ==
    /\ idx' \in [Blocks -> Status]
    /\ dirty \subseteq dirty' /\ dirty' \subseteq Blocks
    /\ \A b \in Blocks :
        /\ ~idx'[b].known => ~idx'[b].tx /\ ~idx'[b].undo
        /\ idx[b].tx => idx'[b].tx
        /\ idx[b].undo => idx'[b].undo
        /\ idx'[b].tx /\ ~idx[b].tx => verdict[b] # "badcontext"
        /\ idx'[b].fvalid \/ idx'[b].fchild => Failed(b) \/ Deserved(b)
        /\ b \notin dirty' => idx'[b].tx = idx[b].tx /\ idx'[b].undo = idx[b].undo

\* Such an action keeps the parts of the invariant that compare the index with
\* the blocks and with the disk.
LEMMA GrowsKeeps ==
    ASSUME IInv, Grows, ~flushing,
           UNCHANGED <<verdict, disk, diskTip, flushing>>
    PROVE  /\ OnlyKnown' /\ DataValidated' /\ Synced' /\ DiskTipRecoverable' /\ DiskTipValid'
           /\ MarksDeserved' /\ DiskMarksDeserved'
<1>1. OnlyKnown' /\ DataValidated'
  BY DEF IInv, Grows, OnlyKnown, DataValidated
<1>2. Synced'
  BY DEF IInv, Grows, Synced, TypeOK, Status
<1>3. DiskTipRecoverable' /\ DiskTipValid'
  BY DEF IInv, DiskTipRecoverable, DiskTipValid
<1>4. MarksDeserved'
  BY DEF IInv, Grows, MarksDeserved, Deserved, Failed
<1>5. DiskMarksDeserved'
  BY DEF IInv, DiskMarksDeserved, Deserved
<1> QED
  BY <1>1, <1>2, <1>3, <1>4, <1>5

\* The usual case: one entry changes.
LEMMA GrowsAt ==
    ASSUME IInv, NEW b \in Blocks,
           idx' \in [Blocks -> Status],
           \A x \in Blocks \ {b} : idx'[x] = idx[x],
           dirty \subseteq dirty', dirty' \subseteq Blocks,
           idx'[b].known,
           idx[b].tx => idx'[b].tx,
           idx[b].undo => idx'[b].undo,
           idx'[b].tx /\ ~idx[b].tx => verdict[b] # "badcontext",
           idx'[b].fvalid \/ idx'[b].fchild => Failed(b) \/ Deserved(b),
           b \in dirty' \/ (idx'[b].tx = idx[b].tx /\ idx'[b].undo = idx[b].undo)
    PROVE  Grows
<1> SUFFICES ASSUME NEW x \in Blocks \ {b}
             PROVE  /\ ~idx'[x].known => ~idx'[x].tx /\ ~idx'[x].undo
                    /\ idx'[x].fvalid \/ idx'[x].fchild => Failed(x)
  BY DEF Grows
<1>1. idx'[x] = idx[x]
  OBVIOUS
<1> QED
  BY <1>1 DEF IInv, OnlyKnown, Failed

\* And the case where none does.
LEMMA GrowsNot ==
    ASSUME IInv, UNCHANGED <<idx, dirty>>
    PROVE  Grows
BY DEF Grows, IInv, TypeOK, OnlyKnown, Failed

\* It also keeps what is said of data and undo data, when the links, the
\* candidates and the tip stay.
LEMMA GrowsLinks ==
    ASSUME IInv, Grows, UNCHANGED <<verdict, unlinked, linked>>
    PROVE  LinksHaveData'
BY TreeFacts DEF IInv, Grows, LinksHaveData, TypeOK

\* The case where only marks change.
LEMMA GrowsMarks ==
    ASSUME IInv, idx' \in [Blocks -> Status],
           dirty \subseteq dirty', dirty' \subseteq Blocks,
           \A b \in Blocks :
             /\ idx'[b].known = idx[b].known
             /\ idx'[b].tx = idx[b].tx
             /\ idx'[b].undo = idx[b].undo
             /\ idx'[b].fvalid \/ idx'[b].fchild => Failed(b) \/ Deserved(b)
    PROVE  Grows
BY DEF Grows, IInv, OnlyKnown

\* The active chain may also lose blocks.
LEMMA GrowsShrink ==
    ASSUME IInv, Grows, UNCHANGED verdict, tip' \in Blocks, Anc[tip'] \subseteq Anc[tip]
    PROVE  ActiveHasData' /\ ActiveChainSound'
BY TreeFacts DEF IInv, Grows, ActiveHasData, ActiveChainSound, TypeOK

LEMMA GrowsActive ==
    ASSUME IInv, Grows, UNCHANGED <<verdict, tip>>
    PROVE  ActiveHasData' /\ ActiveChainSound'
BY TreeFacts DEF IInv, Grows, ActiveHasData, ActiveChainSound, TypeOK

-----------------------------------------------------------------------------
(* Headers and blocks.                                                     *)

LEMMA AddedFacts ==
    ASSUME IInv, NEW b \in Blocks
    PROVE  /\ Added(b) \in [Blocks -> Status]
           /\ \A x \in Blocks \ {b} : Added(b)[x] = idx[x]
           /\ Added(b)[b].known
           /\ Added(b)[b].tx = idx[b].tx
           /\ Added(b)[b].undo = idx[b].undo
           /\ Added(b)[b].fvalid \/ Added(b)[b].fchild => Failed(b)
<1>1. idx \in [Blocks -> Status]
  BY DEF IInv, TypeOK
<1>2. CASE idx[b].known
  BY <1>1, <1>2 DEF Added, Failed
<1>3. CASE ~idx[b].known
  <2>1. Added(b) = [idx EXCEPT ![b] = Header]
    BY <1>3 DEF Added
  <2>2. idx[b].tx \in BOOLEAN /\ idx[b].undo \in BOOLEAN
    BY <1>1 DEF Status
  <2>3. idx[b].tx = FALSE /\ idx[b].undo = FALSE
    BY <1>3, <2>2 DEF IInv, OnlyKnown
  <2>4. Added(b)[b] = Header
    BY <2>1, <1>1
  <2>5. Added(b) \in [Blocks -> Status] /\ \A x \in Blocks \ {b} : Added(b)[x] = idx[x]
    BY <2>1, <1>1, HeaderFacts
  <2> QED
    BY <2>3, <2>4, <2>5, HeaderFacts
<1> QED
  BY <1>2, <1>3

LEMMA BestHeaderFacts ==
    ASSUME IInv, NEW b \in Blocks
    PROVE  BestHeaderWith(b) \in Blocks
BY DEF BestHeaderWith, IInv, TypeOK

LEMMA BestInvalidFacts ==
    ASSUME IInv, NEW b \in Blocks
    PROVE  BestInvalidWith(b) \in Blocks \cup {NoBlock}
BY DEF BestInvalidWith, IInv, TypeOK

\* AcceptBlockHeader keeps the invariant.
LEMMA AcceptBlockHeaderInv ==
    ASSUME IInv, NEW th \in Threads, NEW b \in Blocks, AcceptBlockHeader(th, b)
    PROVE  IInv'
<1>0. idx' = Added(b) /\ dirty' = dirty \cup {b} /\ dirty \subseteq Blocks
  BY DEF AcceptBlockHeader, IInv, TypeOK
<1>1. Grows
  <2> SUFFICES ASSUME NEW x \in Blocks
               PROVE  /\ ~idx'[x].known => ~idx'[x].tx /\ ~idx'[x].undo
                      /\ idx'[x].tx = idx[x].tx
                      /\ idx'[x].undo = idx[x].undo
                      /\ idx'[x].fvalid \/ idx'[x].fchild => Failed(x)
    BY <1>0, AddedFacts DEF Grows
  <2>1. CASE x = b
    BY <2>1, <1>0, AddedFacts
  <2>2. CASE x # b
    <3>1. idx'[x] = idx[x]
      BY <2>2, <1>0, AddedFacts
    <3> QED
      BY <3>1 DEF IInv, OnlyKnown, Failed
  <2> QED
    BY <2>1, <2>2
<1>2. TypeOK'
  BY <1>1, BestHeaderFacts DEF AcceptBlockHeader, Grows, IInv, TypeOK, world, counters
<1>3. ~flushing /\ UNCHANGED <<verdict, disk, diskTip, flushing, unlinked, linked, tip,
                               candidates, pc, target>>
  BY DEF AcceptBlockHeader, LockFree, world
<1>4. CandidatesLinked' /\ TargetsKnown'
  BY <1>3 DEF IInv, CandidatesLinked, TargetsKnown
<1> QED
  BY <1>1, <1>2, <1>3, <1>4, GrowsKeeps, GrowsLinks, GrowsActive DEF IInv

\* AcceptBlockFails keeps it: the mark is deserved.
LEMMA AcceptBlockFailsInv ==
    ASSUME IInv, NEW th \in Threads, NEW b \in Blocks, AcceptBlockFails(th, b)
    PROVE  IInv'
<1>1. idx' = [Added(b) EXCEPT ![b] = MarkedInvalid(Added(b)[b])] /\ dirty' = dirty \cup {b}
  BY DEF AcceptBlockFails
<1>2. Deserved(b)
  BY TreeFacts DEF AcceptBlockFails, Deserved
<1>3. /\ idx' \in [Blocks -> Status]
      /\ \A x \in Blocks \ {b} : idx'[x] = idx[x]
      /\ idx'[b].known /\ idx'[b].tx = idx[b].tx /\ idx'[b].undo = idx[b].undo
  <2>1. Added(b)[b] \in Status
    BY AddedFacts
  <2> QED
    <3> DEFINE s == Added(b)[b]
    <3>1. /\ MarkedInvalid(s) \in Status
          /\ MarkedInvalid(s).tx = s.tx /\ MarkedInvalid(s).undo = s.undo
          /\ MarkedInvalid(s).known = s.known
      BY <2>1, MarkedFacts
    <3>2. idx'[b] = MarkedInvalid(s)
      BY <1>1, AddedFacts
    <3>3. idx' \in [Blocks -> Status] /\ \A x \in Blocks \ {b} : idx'[x] = idx[x]
      BY <1>1, <3>1, AddedFacts
    <3> QED
      BY <3>1, <3>2, <3>3, AddedFacts
<1>4. Grows
  BY <1>1, <1>2, <1>3 DEF Grows, IInv, TypeOK, OnlyKnown, Failed
<1>5. TypeOK'
  BY <1>4, BestHeaderFacts DEF AcceptBlockFails, Grows, IInv, TypeOK, world, counters
<1>6. ~flushing /\ UNCHANGED <<verdict, disk, diskTip, flushing, unlinked, linked, tip,
                               candidates, pc, target>>
  BY DEF AcceptBlockFails, LockFree, world
<1>7. CandidatesLinked' /\ TargetsKnown'
  BY <1>6 DEF IInv, CandidatesLinked, TargetsKnown
<1> QED
  BY <1>4, <1>5, <1>6, <1>7, GrowsKeeps, GrowsLinks, GrowsActive DEF IInv

\* ReceivedBlockTransactions gives out sequence numbers below the new counter.
LEMMA SequenceFacts ==
    ASSUME IInv, NEW b \in Blocks, NEW q \in QueueOrders(NewlyLinked(b)),
           seq' = [d \in Blocks |-> IF d \in NewlyLinked(b)
                                    THEN nBlockSequenceId + q[d] - 1 ELSE seq[d]],
           nBlockSequenceId' = Counted(Cardinality(NewlyLinked(b)))
    PROVE  /\ nBlockSequenceId' \in Nat
           /\ seq' \in [Blocks -> 0..(nBlockSequenceId' - 1)]
<1> DEFINE S == NewlyLinked(b)
<1>1. S \subseteq Blocks
  BY DEF NewlyLinked, Descendants
<1>2. Cardinality(S) \in Nat
  BY <1>1, TreeAssumption, FS_Subset, FS_CardinalityType
<1>3. q \in [S -> 1..Cardinality(S)]
  BY DEF QueueOrders
<1>4. nBlockSequenceId \in Nat /\ seq \in [Blocks -> 0..(nBlockSequenceId - 1)]
  BY DEF IInv, TypeOK
<1>5. nBlockSequenceId' = nBlockSequenceId + Cardinality(S)
  BY DEF Counted
<1> HIDE DEF S
<1>6. seq' = [d \in Blocks |-> IF d \in S THEN nBlockSequenceId + q[d] - 1 ELSE seq[d]]
  BY DEF S
<1> QED
  BY <1>2, <1>3, <1>4, <1>5, <1>6

\* AcceptBlock keeps the invariant: the blocks it links have their data.
LEMMA AcceptBlockInv ==
    ASSUME IInv, NEW th \in Threads, NEW b \in Blocks, AcceptBlock(th, b)
    PROVE  IInv'
<1>1. /\ idx' = [Added(b) EXCEPT ![b] = [Added(b)[b] EXCEPT !.tx = TRUE]]
      /\ dirty' = dirty \cup {b} /\ dirty \subseteq Blocks
      /\ b # Genesis
  BY DEF AcceptBlock, ReceivedBlockTransactions, IInv, TypeOK
<1>2. /\ idx' \in [Blocks -> Status]
      /\ \A x \in Blocks \ {b} : idx'[x] = idx[x]
      /\ idx'[b].known /\ idx'[b].tx /\ idx'[b].undo = idx[b].undo
      /\ idx'[b].fvalid \/ idx'[b].fchild => Failed(b)
  <2> DEFINE s == Added(b)[b]
  <2>1. s \in Status
    BY AddedFacts
  <2> DEFINE t == [s EXCEPT !.tx = TRUE]
  <2>2. /\ t \in Status /\ t.tx /\ t.undo = s.undo /\ t.known = s.known
        /\ t.fvalid = s.fvalid /\ t.fchild = s.fchild
    BY <2>1, DataFacts
  <2>3. idx'[b] = t
    BY <1>1, AddedFacts
  <2>4. idx' \in [Blocks -> Status] /\ \A x \in Blocks \ {b} : idx'[x] = idx[x]
    BY <1>1, <2>2, AddedFacts
  <2> QED
    BY <2>2, <2>3, <2>4, AddedFacts
<1>3. verdict[b] # "badcontext"
  BY DEF AcceptBlock
<1>4. Grows
  BY <1>1, <1>2, <1>3, GrowsAt
<1>5. /\ ~flushing
      /\ UNCHANGED <<verdict, addr, disk, diskTip, flushing, tip, target, bestInvalid,
                     oldTip, manuals, crashes>>
      /\ pc' = [pc EXCEPT ![th] = "activating"] /\ bestHeader' = BestHeaderWith(b)
  BY DEF AcceptBlock, LockFree, world, counters
<1>6. CASE /\ Parent[b] \in linked
           /\ \E q \in QueueOrders(NewlyLinked(b)) :
                seq' = [d \in Blocks |-> IF d \in NewlyLinked(b)
                                         THEN nBlockSequenceId + q[d] - 1 ELSE seq[d]]
           /\ nBlockSequenceId' = Counted(Cardinality(NewlyLinked(b)))
           /\ linked' = linked \cup NewlyLinked(b)
           /\ candidates' = candidates \cup {d \in NewlyLinked(b) :
                 \/ Work[d] > Work[tip]
                 \/ Work[d] = Work[tip] /\ seq'[d] < seq[tip]}
           /\ unlinked' = unlinked \ NewlyLinked(b)
  <2>1. nBlockSequenceId' \in Nat /\ seq' \in [Blocks -> 0..(nBlockSequenceId' - 1)]
    BY <1>6, SequenceFacts
  <2>2. NewlyLinked(b) \subseteq Blocks
    BY DEF NewlyLinked, Descendants
  <2>3. TypeOK'
    BY <1>4, <1>5, <1>6, <2>1, <2>2, BestHeaderFacts DEF Grows, IInv, TypeOK, PCs
  <2>4. LinksHaveData'
    <3>1. \A x \in Blocks : idx[x].tx => idx'[x].tx
      BY <1>4 DEF Grows
    <3>2. \A a \in Anc[b] : idx'[a].tx
      BY <1>1, <1>2, <1>6, <3>1, TreeFacts DEF IInv, LinksHaveData, TypeOK
    <3>3. \A d \in NewlyLinked(b) : \A a \in Anc[d] : a \in Anc[b] \/ a \in unlinked
      BY DEF NewlyLinked
    <3>4. \A d \in NewlyLinked(b) : \A a \in Anc[d] : idx'[a].tx
      BY <3>1, <3>2, <3>3 DEF IInv, LinksHaveData, TypeOK
    <3>5. \A d \in linked : \A a \in Anc[d] : idx'[a].tx
      BY <3>1, TreeFacts DEF IInv, LinksHaveData, TypeOK
    <3>6. \A d \in unlinked' : idx'[d].tx
      BY <1>6, <3>1 DEF IInv, LinksHaveData, TypeOK
    <3> QED
      BY <1>6, <3>4, <3>5, <3>6 DEF LinksHaveData
  <2>5. CandidatesLinked'
    BY <1>6 DEF IInv, CandidatesLinked
  <2>6. TargetsKnown'
    BY <1>5, <1>6 DEF IInv, TargetsKnown, TypeOK
  <2> QED
    BY <1>4, <1>5, <2>3, <2>4, <2>5, <2>6, GrowsKeeps, GrowsActive DEF IInv
<1>7. CASE /\ Parent[b] \notin linked
           /\ unlinked' = Waiting(b)
           /\ UNCHANGED <<seq, nBlockSequenceId, linked, candidates>>
  <2>1. unlinked' \subseteq unlinked \cup {b}
    BY <1>7 DEF Waiting
  <2>2. TypeOK'
    BY <1>4, <1>5, <1>7, <2>1, BestHeaderFacts DEF Grows, IInv, TypeOK, PCs
  <2>3. LinksHaveData'
    BY <1>2, <1>4, <1>7, <2>1, TreeFacts DEF Grows, IInv, LinksHaveData, TypeOK
  <2>4. CandidatesLinked' /\ TargetsKnown'
    BY <1>5, <1>7 DEF IInv, CandidatesLinked, TargetsKnown, TypeOK
  <2> QED
    BY <1>4, <1>5, <2>2, <2>3, <2>4, GrowsKeeps, GrowsActive DEF IInv
<1> QED
  BY <1>6, <1>7 DEF AcceptBlock, ReceivedBlockTransactions

\* The actions that only move a thread, to a place where it has no target.
LEMMA MoveInv ==
    ASSUME IInv, NEW th \in Threads, NEW p \in PCs \ {"reorg", "invalidate"},
           pc' = [pc EXCEPT ![th] = p],
           UNCHANGED <<world, tree, candidates, unlinked, tip, bestInvalid, bestHeader,
                       durable, target, oldTip, counters>>
    PROVE  IInv'
<1>1. TypeOK'
  BY DEF IInv, TypeOK, world, tree, durable, counters
<1>2. TargetsKnown'
  BY DEF IInv, TypeOK, TargetsKnown, tree
<1>3. OnlyKnown' /\ DataValidated' /\ LinksHaveData' /\ CandidatesLinked'
  BY DEF IInv, OnlyKnown, DataValidated, LinksHaveData, CandidatesLinked, world, tree,
         durable
<1>4. ActiveHasData' /\ ActiveChainSound' /\ Synced'
  BY DEF IInv, ActiveHasData, ActiveChainSound, Synced, world, tree, durable
<1>5. DiskTipRecoverable' /\ DiskTipValid' /\ MarksDeserved' /\ DiskMarksDeserved'
  BY DEF IInv, DiskTipRecoverable, DiskTipValid, MarksDeserved, DiskMarksDeserved,
         Deserved, Failed, world, tree, durable
<1> QED
  BY <1>1, <1>2, <1>3, <1>4, <1>5 DEF IInv

LEMMA AcceptDuplicateInv ==
    ASSUME IInv, NEW th \in Threads, NEW b \in Blocks, AcceptDuplicate(th, b)
    PROVE  IInv'
BY MoveInv DEF AcceptDuplicate, PCs

LEMMA LoopTestInv ==
    ASSUME IInv, NEW th \in Threads, LoopTest(th)
    PROVE  IInv'
<1> DEFINE p == IF target[th] = tip THEN "idle" ELSE "activating"
<1>1. p \in PCs \ {"reorg", "invalidate"}
  BY DEF PCs
<1> QED
  BY <1>1, MoveInv DEF LoopTest

LEMMA StartThreadInv ==
    ASSUME IInv, NEW th \in Threads, StartThread(th)
    PROVE  IInv'
BY MoveInv DEF StartThread, PCs

-----------------------------------------------------------------------------
(* ActivateBestChain.                                                      *)

\* FindMostWorkChain marks only blocks above a marked one.
LEMMA RemovedDeserved ==
    ASSUME IInv, NEW c \in Discarded, NEW b \in Removed(c), ~Failed(b)
    PROVE  b \in Blocks /\ Deserved(b)
<1>1. c \in Blocks /\ ~Usable(c)
  BY DEF Discarded, IInv, TypeOK
<1>2. PICK f \in Path(c) : Failed(f)
  BY <1>1 DEF Usable
<1>3. b \in Anc[c] /\ f \in Anc[c] /\ b \in Blocks /\ f \in Blocks
  BY <1>1, <1>2, TreeFacts DEF Removed, Path
<1>4. b \notin Anc[f]
  BY <1>2 DEF Removed
<1>5. f \in Anc[b]
  BY <1>1, <1>3, <1>4, TreeAssumption
<1>6. Deserved(f)
  BY <1>2, <1>3 DEF IInv, MarksDeserved, Deserved
<1>7. Anc[f] \subseteq Anc[b]
  BY <1>3, <1>5, TreeAssumption
<1> QED
  BY <1>3, <1>6, <1>7 DEF Deserved

LEMMA ActivateBestChainInv ==
    ASSUME IInv, NEW th \in Threads, ActivateBestChain(th)
    PROVE  IInv'
<1> DEFINE gone == UNION {Removed(c) : c \in Discarded}
<1>1. /\ idx' = [b \in Blocks |->
                   IF b \in gone /\ ~Failed(b) THEN [idx[b] EXCEPT !.fchild = TRUE]
                   ELSE idx[b]]
      /\ candidates' = candidates \ gone
  BY DEF ActivateBestChain
<1>2. \A b \in gone : ~Failed(b) => Deserved(b)
  BY RemovedDeserved
<1> HIDE DEF gone
<1>3. /\ ~flushing
      /\ UNCHANGED <<verdict, addr, linked, seq, nBlockSequenceId, unlinked, tip,
                     bestHeader, dirty, disk, diskTip, flushing, manuals, crashes>>
  BY DEF ActivateBestChain, LockFree, world, durable, counters
<1>4. Grows
  <2>1. \A b \in Blocks :
            /\ idx'[b] \in Status
            /\ idx'[b].known = idx[b].known
            /\ idx'[b].tx = idx[b].tx
            /\ idx'[b].undo = idx[b].undo
            /\ idx'[b] = idx[b] \/ Deserved(b)
    <3> SUFFICES ASSUME NEW b \in Blocks
                 PROVE  /\ idx'[b] \in Status
                        /\ idx'[b].known = idx[b].known
                        /\ idx'[b].tx = idx[b].tx
                        /\ idx'[b].undo = idx[b].undo
                        /\ idx'[b] = idx[b] \/ Deserved(b)
      OBVIOUS
    <3>1. idx[b] \in Status
      BY DEF IInv, TypeOK
    <3>2. CASE b \in gone /\ ~Failed(b)
      <4>1. idx'[b] = [idx[b] EXCEPT !.fchild = TRUE]
        BY <1>1, <3>2
      <4> QED
        BY <4>1, <3>1, <3>2, <1>2, ChildFacts
    <3>3. CASE ~(b \in gone /\ ~Failed(b))
      BY <1>1, <3>1, <3>3
    <3> QED
      BY <3>2, <3>3
  <2>2. idx' \in [Blocks -> Status]
    BY <1>1, <2>1
  <2> QED
    BY <2>1, <2>2, <1>3 DEF Grows, IInv, TypeOK, OnlyKnown, Failed
<1>5. bestInvalid' \in Blocks \cup {NoBlock}
  <2>1. CASE UNCHANGED bestInvalid
    BY <2>1 DEF IInv, TypeOK
  <2>2. CASE \E c \in Best(Discarded) : bestInvalid' = BestInvalidWith(c)
    <3>1. Best(Discarded) \subseteq Blocks
      BY DEF Best, Discarded, IInv, TypeOK
    <3> QED
      BY <2>2, <3>1, BestInvalidFacts
  <2> QED
    BY <2>1, <2>2 DEF ActivateBestChain
<1>6. CandidatesLinked'
  BY <1>1, <1>3 DEF IInv, CandidatesLinked
<1>7. CASE pc' = [pc EXCEPT ![th] = "idle"] /\ UNCHANGED <<target, oldTip>>
  <2>1. TypeOK'
    BY <1>1, <1>3, <1>4, <1>5, <1>7 DEF Grows, IInv, TypeOK, PCs
  <2>2. TargetsKnown'
    BY <1>3, <1>7 DEF IInv, TargetsKnown, TypeOK
  <2> QED
    BY <1>3, <1>4, <1>6, <2>1, <2>2, GrowsKeeps, GrowsLinks, GrowsActive DEF IInv
<1>8. CASE /\ \E c \in MostWork \ {tip} : target' = [target EXCEPT ![th] = c]
           /\ pc' = [pc EXCEPT ![th] = "reorg"]
           /\ oldTip' = tip
  <2>1. PICK c \in MostWork : target' = [target EXCEPT ![th] = c]
    BY <1>8
  <2>2. c \in linked /\ c \in Blocks
    BY DEF MostWork, Best, IInv, CandidatesLinked, TypeOK
  <2>3. TypeOK'
    BY <1>1, <1>3, <1>4, <1>5, <1>8, <2>1, <2>2 DEF Grows, IInv, TypeOK, PCs
  <2>4. TargetsKnown'
    BY <1>3, <1>8, <2>1, <2>2 DEF IInv, TargetsKnown, TypeOK
  <2> QED
    BY <1>3, <1>4, <1>6, <2>3, <2>4, GrowsKeeps, GrowsLinks, GrowsActive DEF IInv
<1> QED
  BY <1>7, <1>8 DEF ActivateBestChain

LEMMA DisconnectTipInv ==
    ASSUME IInv, NEW th \in Threads, DisconnectTip(th)
    PROVE  IInv'
<1>1. target[th] \in Blocks /\ tip \in Blocks
  BY DEF DisconnectTip, IInv, TargetsKnown, TypeOK
<1>2. tip # Genesis
  BY <1>1, TreeFacts DEF DisconnectTip
<1>3. tip' \in Blocks /\ Anc[tip'] \subseteq Anc[tip]
  BY <1>1, <1>2, TreeFacts DEF DisconnectTip
<1>4. /\ ~flushing
      /\ UNCHANGED <<verdict, addr, idx, linked, seq, nBlockSequenceId, candidates,
                     unlinked, bestInvalid, bestHeader, dirty, disk, diskTip, flushing,
                     target, oldTip, manuals, crashes>>
      /\ \/ pc' = [pc EXCEPT ![th] = "looptest"]
         \/ pc' = [pc EXCEPT ![th] = "reorg"]
      /\ pc[th] = "reorg"
  BY DEF DisconnectTip, world, tree, durable, counters
<1>5. TypeOK'
  BY <1>3, <1>4 DEF IInv, TypeOK, PCs
<1>6. Grows
  BY <1>4, GrowsNot
<1>7. ActiveHasData' /\ ActiveChainSound'
  BY <1>3, <1>4 DEF IInv, ActiveHasData, ActiveChainSound
<1>8. CandidatesLinked' /\ TargetsKnown'
  BY <1>4 DEF IInv, CandidatesLinked, TargetsKnown, TypeOK
<1> QED
  BY <1>4, <1>5, <1>6, <1>7, <1>8, GrowsKeeps, GrowsLinks DEF IInv

\* ConnectTip: a block on the way to a linked block has passed
\* ContextualCheckBlock, and now ConnectBlock.
LEMMA ConnectTipInv ==
    ASSUME IInv, NEW th \in Threads, NEW b \in Blocks, ConnectTip(th, b)
    PROVE  IInv'
<1>1. /\ idx' = [idx EXCEPT ![b] = Connected(b)]
      /\ dirty' = DirtyWith(b)
      /\ candidates' \subseteq candidates
      /\ tip' = b
      /\ b \in Anc[target[th]] /\ b # Genesis /\ Parent[b] = tip
      /\ verdict[b] # "badconnect"
      /\ pc[th] = "reorg"
      /\ ~flushing
      /\ UNCHANGED <<verdict, addr, linked, seq, nBlockSequenceId, unlinked, bestInvalid,
                     bestHeader, disk, diskTip, flushing, target, oldTip, manuals, crashes>>
  BY DEF ConnectTip, PruneBlockIndexCandidates, world, counters
<1>2. \/ pc' = [pc EXCEPT ![th] = "looptest"]
      \/ pc' = [pc EXCEPT ![th] = "reorg"]
  BY DEF ConnectTip
<1>3. idx[b].tx
  BY <1>1 DEF IInv, TargetsKnown, LinksHaveData
<1>4. verdict[b] = "ok"
  BY <1>1, <1>3, VerdictAssumption DEF IInv, TypeOK, DataValidated
<1>5. /\ idx' \in [Blocks -> Status]
      /\ \A x \in Blocks \ {b} : idx'[x] = idx[x]
      /\ idx'[b].known = idx[b].known /\ idx'[b].tx = idx[b].tx /\ idx'[b].undo
      /\ idx'[b].fvalid = idx[b].fvalid /\ idx'[b].fchild = idx[b].fchild
  <2>1. idx[b] \in Status
    BY DEF IInv, TypeOK
  <2> DEFINE v == idx[b].scripts \/ ~Failed(b)
             c == [idx[b] EXCEPT !.undo = TRUE, !.scripts = v]
  <2>2. v \in BOOLEAN
    BY <2>1 DEF Status
  <2>3. Connected(b) = c
    BY DEF Connected
  <2> HIDE DEF v
  <2>4. /\ c \in Status /\ c.tx = idx[b].tx /\ c.undo /\ c.known = idx[b].known
        /\ c.fvalid = idx[b].fvalid /\ c.fchild = idx[b].fchild
    BY <2>1, <2>2, UndoFacts
  <2> HIDE DEF c
  <2>5. /\ idx'[b] = c /\ \A x \in Blocks \ {b} : idx'[x] = idx[x]
        /\ idx' \in [Blocks -> Status]
    BY <1>1, <2>3, <2>4 DEF IInv, TypeOK
  <2> QED
    BY <2>4, <2>5
<1>6. /\ dirty \subseteq dirty' /\ dirty' \subseteq Blocks
      /\ b \in dirty' \/ idx[b].undo
  BY <1>1 DEF DirtyWith, IInv, TypeOK
<1>7. idx[b].known
  BY <1>3 DEF IInv, OnlyKnown
<1>8. b \in dirty' \/ idx'[b].undo = idx[b].undo
  BY <1>5, <1>6 DEF IInv, TypeOK, Status
<1>9. Grows
  BY <1>3, <1>5, <1>6, <1>7, <1>8, GrowsAt DEF Failed
<1>10. TypeOK'
  BY <1>1, <1>2, <1>9 DEF Grows, IInv, TypeOK, PCs
<1>11. CandidatesLinked' /\ TargetsKnown'
  BY <1>1, <1>2 DEF IInv, CandidatesLinked, TargetsKnown, TypeOK
<1>12. ActiveHasData' /\ ActiveChainSound'
  <2>1. Anc[b] = Anc[tip] \cup {b} /\ Anc[tip] \subseteq Blocks
    BY <1>1, TreeFacts DEF IInv, TypeOK
  <2>2. \A a \in Anc[tip] : idx'[a].tx /\ verdict[a] = "ok" /\ (a # Genesis => idx'[a].undo)
    BY <1>9, <2>1 DEF Grows, IInv, ActiveHasData, ActiveChainSound
  <2>3. idx'[b].tx /\ idx'[b].undo
    BY <1>3, <1>5
  <2> QED
    BY <1>1, <1>4, <2>1, <2>2, <2>3 DEF ActiveHasData, ActiveChainSound
<1> QED
  BY <1>1, <1>9, <1>10, <1>11, <1>12, GrowsKeeps, GrowsLinks DEF IInv

LEMMA ConnectTipFailsInv ==
    ASSUME IInv, NEW th \in Threads, NEW b \in Blocks, ConnectTipFails(th, b)
    PROVE  IInv'
<1>1. /\ idx' = [idx EXCEPT ![b] = MarkedInvalid(idx[b])]
      /\ dirty' = dirty \cup {b} /\ dirty \subseteq Blocks
      /\ candidates' \subseteq candidates
      /\ bestInvalid' = BestInvalidWith(b)
      /\ b \in Anc[target[th]]
      /\ verdict[b] = "badconnect"
      /\ pc[th] = "reorg" /\ pc' = [pc EXCEPT ![th] = "looptest"]
      /\ ~flushing
      /\ UNCHANGED <<verdict, addr, linked, seq, nBlockSequenceId, unlinked, tip,
                     bestHeader, disk, diskTip, flushing, target, oldTip, manuals, crashes>>
  BY DEF ConnectTipFails, IInv, TypeOK, world, counters
<1>2. idx[b] \in Status /\ idx \in [Blocks -> Status]
  BY DEF IInv, TypeOK
<1>3. idx[b].tx
  BY <1>1 DEF IInv, TargetsKnown, LinksHaveData
<1>4. idx[b].known
  BY <1>3 DEF IInv, OnlyKnown
<1>5. Deserved(b)
  BY <1>1, TreeFacts DEF Deserved
<1>6. idx'[b] = MarkedInvalid(idx[b])
  BY <1>1, <1>2
<1>7. idx' \in [Blocks -> Status] /\ \A x \in Blocks \ {b} : idx'[x] = idx[x]
  BY <1>1, <1>2, MarkedFacts
<1>8. idx'[b].known = idx[b].known /\ idx'[b].tx = idx[b].tx /\ idx'[b].undo = idx[b].undo
  BY <1>2, <1>6, MarkedFacts
<1>9. Grows
  BY <1>1, <1>4, <1>5, <1>7, <1>8, GrowsAt
<1>10. TypeOK'
  BY <1>1, <1>9, BestInvalidFacts DEF Grows, IInv, TypeOK, PCs
<1>11. CandidatesLinked' /\ TargetsKnown'
  BY <1>1 DEF IInv, CandidatesLinked, TargetsKnown, TypeOK
<1> QED
  BY <1>1, <1>9, <1>10, <1>11, GrowsKeeps, GrowsLinks, GrowsActive DEF IInv

-----------------------------------------------------------------------------
(* The RPCs.                                                               *)

LEMMA InvalidateBlockInv ==
    ASSUME IInv, NEW th \in Threads, NEW b \in Blocks, InvalidateBlock(th, b)
    PROVE  IInv'
<1> DEFINE marked == [idx EXCEPT ![b] = MarkedInvalid(idx[b])]
<1>1. /\ b \in Manual /\ b # Genesis
      /\ manuals' = manuals + 1 /\ manuals < MaxManual
      /\ target' = [target EXCEPT ![th] = b]
      /\ pc' = [pc EXCEPT ![th] = "invalidate"]
      /\ candidates' \subseteq candidates
      /\ ~flushing
      /\ UNCHANGED <<verdict, addr, linked, seq, nBlockSequenceId, unlinked, bestInvalid,
                     bestHeader, disk, diskTip, flushing, oldTip, crashes>>
  BY OperatorAssumption DEF InvalidateBlock, LockFree, world
<1>2. idx \in [Blocks -> Status] /\ tip \in Blocks /\ dirty \subseteq Blocks
  BY DEF IInv, TypeOK
<1>3. Deserved(b)
  BY <1>1, TreeFacts DEF Deserved
<1>4. /\ marked \in [Blocks -> Status]
      /\ \A x \in Blocks :
            /\ marked[x].known = idx[x].known /\ marked[x].tx = idx[x].tx
            /\ marked[x].undo = idx[x].undo
            /\ marked[x].fvalid \/ marked[x].fchild => Failed(x) \/ Deserved(x)
  <2>1. idx[b] \in Status /\ marked[b] = MarkedInvalid(idx[b])
    BY <1>2
  <2>2. \A x \in Blocks \ {b} : marked[x] = idx[x]
    BY <1>2
  <2>3. marked \in [Blocks -> Status]
    BY <1>2, <2>1, MarkedFacts
  <2>4. /\ marked[b].known = idx[b].known /\ marked[b].tx = idx[b].tx
        /\ marked[b].undo = idx[b].undo
    BY <2>1, MarkedFacts
  <2> QED
    BY <2>2, <2>3, <2>4, <1>3 DEF Failed
<1>5. InvalidateBlock(th, b) =>
        \/ /\ b \in Anc[tip] /\ MarkAndDisconnect(marked) /\ dirty' = dirty \cup {b, tip}
        \/ /\ b \notin Anc[tip] /\ idx' = marked /\ dirty' = dirty \cup {b}
           /\ UNCHANGED tip
  BY DEF InvalidateBlock
<1> HIDE DEF marked
<1>6. Grows /\ tip' \in Blocks /\ Anc[tip'] \subseteq Anc[tip]
  <2>1. CASE /\ b \in Anc[tip] /\ MarkAndDisconnect(marked)
             /\ dirty' = dirty \cup {b, tip}
    <3>1. tip # Genesis
      BY <1>1, <2>1, TreeFacts
    <3>2. tip' \in Blocks /\ Anc[tip'] \subseteq Anc[tip]
      BY <1>2, <2>1, <3>1, TreeFacts DEF MarkAndDisconnect
    <3>3. Deserved(tip)
      BY <1>1, <2>1 DEF Deserved
    <3>4. idx' = [marked EXCEPT ![tip] = [marked[tip] EXCEPT !.fchild = TRUE]]
      BY <2>1 DEF MarkAndDisconnect
    <3>5. marked[tip] \in Status /\ idx'[tip] = [marked[tip] EXCEPT !.fchild = TRUE]
      BY <1>2, <1>4, <3>4
    <3>6. \A x \in Blocks \ {tip} : idx'[x] = marked[x]
      BY <1>4, <3>4
    <3>7. idx' \in [Blocks -> Status]
      BY <1>4, <3>4, <3>5, ChildFacts
    <3>8. /\ idx'[tip].known = idx[tip].known /\ idx'[tip].tx = idx[tip].tx
          /\ idx'[tip].undo = idx[tip].undo
      BY <1>2, <1>4, <3>5, ChildFacts
    <3>9. dirty \subseteq dirty' /\ dirty' \subseteq Blocks
      BY <1>2, <2>1
    <3>10. Grows
      BY <1>4, <3>3, <3>6, <3>7, <3>8, <3>9, GrowsMarks
    <3> QED
      BY <3>2, <3>10
  <2>2. CASE b \notin Anc[tip] /\ idx' = marked /\ dirty' = dirty \cup {b} /\ UNCHANGED tip
    BY <1>2, <1>4, <2>2, GrowsMarks
  <2> QED
    BY <1>5, <2>1, <2>2
<1>7. TypeOK'
  BY <1>1, <1>6, OperatorAssumption DEF Grows, IInv, TypeOK, PCs
<1>8. CandidatesLinked' /\ TargetsKnown'
  BY <1>1 DEF IInv, CandidatesLinked, TargetsKnown, TypeOK
<1> QED
  BY <1>1, <1>6, <1>7, <1>8, GrowsKeeps, GrowsLinks, GrowsShrink DEF IInv

LEMMA InvalidateTurnInv ==
    ASSUME IInv, NEW th \in Threads, InvalidateTurn(th)
    PROVE  IInv'
<1>1. /\ idx' = [idx EXCEPT ![tip] = [idx[tip] EXCEPT !.fchild = TRUE]]
      /\ tip' = Parent[tip]
      /\ dirty' = dirty \cup {tip}
      /\ candidates' \subseteq candidates
      /\ target[th] \in Anc[tip]
      /\ ~flushing
      /\ UNCHANGED <<verdict, addr, linked, seq, nBlockSequenceId, unlinked, bestInvalid,
                     bestHeader, disk, diskTip, flushing, pc, target, oldTip, manuals,
                     crashes>>
  BY DEF InvalidateTurn, MarkAndDisconnect, world, counters
<1>2. idx \in [Blocks -> Status] /\ tip \in Blocks /\ dirty \subseteq Blocks
  BY DEF IInv, TypeOK
<1>3. target[th] \in Manual /\ target[th] # Genesis
  BY OperatorAssumption DEF InvalidateTurn, IInv, TargetsKnown
<1>4. tip # Genesis /\ tip' \in Blocks /\ Anc[tip'] \subseteq Anc[tip]
  BY <1>1, <1>2, <1>3, TreeFacts
<1>5. Deserved(tip)
  BY <1>1, <1>3 DEF Deserved
<1>6. idx[tip] \in Status /\ idx'[tip] = [idx[tip] EXCEPT !.fchild = TRUE]
  BY <1>1, <1>2
<1>7. \A x \in Blocks \ {tip} : idx'[x] = idx[x]
  BY <1>1, <1>2
<1>8. idx' \in [Blocks -> Status]
  BY <1>1, <1>2, <1>6, ChildFacts
<1>9. /\ idx'[tip].known = idx[tip].known /\ idx'[tip].tx = idx[tip].tx
      /\ idx'[tip].undo = idx[tip].undo
  BY <1>6, ChildFacts
<1>10. dirty \subseteq dirty' /\ dirty' \subseteq Blocks
  BY <1>1, <1>2
<1>11. Grows
  BY <1>5, <1>7, <1>8, <1>9, <1>10, GrowsMarks DEF Failed
<1>12. TypeOK'
  BY <1>1, <1>4, <1>11 DEF Grows, IInv, TypeOK
<1>13. CandidatesLinked' /\ TargetsKnown'
  BY <1>1 DEF IInv, CandidatesLinked, TargetsKnown
<1> QED
  BY <1>1, <1>4, <1>11, <1>12, <1>13, GrowsKeeps, GrowsLinks, GrowsShrink DEF IInv

LEMMA InvalidateEndInv ==
    ASSUME IInv, NEW th \in Threads, InvalidateEnd(th)
    PROVE  IInv'
<1>1. /\ candidates' = candidates \cup Readmitted
      /\ bestInvalid' = BestInvalidWith(target[th])
      /\ pc[th] = "invalidate" /\ pc' = [pc EXCEPT ![th] = "activating"]
      /\ ~flushing
      /\ UNCHANGED <<verdict, addr, idx, linked, seq, nBlockSequenceId, unlinked, tip,
                     bestHeader, dirty, disk, diskTip, flushing, target, oldTip, manuals,
                     crashes>>
  BY DEF InvalidateEnd, world, tree, durable, counters
<1>2. target[th] \in Blocks
  BY <1>1, OperatorAssumption DEF IInv, TargetsKnown
<1>3. Readmitted \subseteq linked
  BY DEF Readmitted
<1>4. Grows
  BY <1>1, GrowsNot
<1>5. TypeOK'
  BY <1>1, <1>2, <1>3, BestInvalidFacts DEF IInv, TypeOK, PCs
<1>6. CandidatesLinked' /\ TargetsKnown'
  BY <1>1, <1>3 DEF IInv, CandidatesLinked, TargetsKnown, TypeOK
<1> QED
  BY <1>1, <1>4, <1>5, <1>6, GrowsKeeps, GrowsLinks, GrowsActive DEF IInv

LEMMA ReconsiderBlockInv ==
    ASSUME IInv, NEW th \in Threads, NEW b \in Blocks, ReconsiderBlock(th, b)
    PROVE  IInv'
<1> DEFINE cleared == Reconsiderable(b) \cup {a \in Anc[b] : Failed(a)}
<1>1. /\ idx' = [d \in Blocks |->
                   IF d \in cleared
                   THEN [idx[d] EXCEPT !.fvalid = FALSE, !.fchild = FALSE] ELSE idx[d]]
      /\ dirty' = dirty \cup cleared
  BY DEF ReconsiderBlock
<1>2. cleared \subseteq Blocks
  BY TreeFacts DEF Reconsiderable, Descendants
<1> HIDE DEF cleared
<1>3. /\ candidates' = candidates \cup Reinstated(b)
      /\ \/ bestInvalid' = NoBlock
         \/ bestInvalid' = bestInvalid
      /\ manuals' = manuals + 1 /\ manuals < MaxManual
      /\ pc' = [pc EXCEPT ![th] = "activating"]
      /\ ~flushing
      /\ UNCHANGED <<verdict, addr, linked, seq, nBlockSequenceId, unlinked, tip,
                     bestHeader, disk, diskTip, flushing, target, oldTip, crashes>>
  BY DEF ReconsiderBlock, LockFree, world
<1>4. Reinstated(b) \subseteq linked
  BY DEF Reinstated
<1>5. Grows
  <2>1. \A d \in Blocks :
            /\ idx'[d] \in Status
            /\ idx'[d].known = idx[d].known
            /\ idx'[d].tx = idx[d].tx
            /\ idx'[d].undo = idx[d].undo
            /\ idx'[d].fvalid \/ idx'[d].fchild => Failed(d)
    <3> SUFFICES ASSUME NEW d \in Blocks
                 PROVE  /\ idx'[d] \in Status
                        /\ idx'[d].known = idx[d].known
                        /\ idx'[d].tx = idx[d].tx
                        /\ idx'[d].undo = idx[d].undo
                        /\ idx'[d].fvalid \/ idx'[d].fchild => Failed(d)
      OBVIOUS
    <3>1. idx[d] \in Status
      BY DEF IInv, TypeOK
    <3>2. CASE d \in cleared
      <4>1. idx'[d] = [idx[d] EXCEPT !.fvalid = FALSE, !.fchild = FALSE]
        BY <1>1, <3>2
      <4> QED
        BY <4>1, <3>1, ClearedFacts
    <3>3. CASE d \notin cleared
      BY <1>1, <3>1, <3>3 DEF Failed
    <3> QED
      BY <3>2, <3>3
  <2>2. idx' \in [Blocks -> Status]
    BY <1>1, <2>1
  <2>3. dirty \subseteq dirty' /\ dirty' \subseteq Blocks
    BY <1>1, <1>2 DEF IInv, TypeOK
  <2> QED
    BY <2>1, <2>2, <2>3, GrowsMarks
<1>6. TypeOK'
  BY <1>3, <1>4, <1>5, OperatorAssumption DEF Grows, IInv, TypeOK, PCs
<1>7. CandidatesLinked' /\ TargetsKnown'
  BY <1>3, <1>4 DEF IInv, CandidatesLinked, TargetsKnown, TypeOK
<1> QED
  BY <1>3, <1>5, <1>6, <1>7, GrowsKeeps, GrowsLinks, GrowsActive DEF IInv

-----------------------------------------------------------------------------
(* Persistence.                                                            *)

\* The first write of a flush only adds to what the stored index says of data.
LEMMA FlushIndexInv ==
    ASSUME IInv, FlushIndex
    PROVE  IInv'
<1>1. /\ disk' = [b \in Blocks |-> IF b \in dirty THEN idx[b] ELSE disk[b]]
      /\ dirty' = {} /\ flushing' = TRUE
      /\ UNCHANGED <<verdict, addr, idx, linked, seq, nBlockSequenceId, candidates,
                     unlinked, tip, bestInvalid, bestHeader, diskTip, pc, target, oldTip,
                     manuals, crashes>>
  BY DEF FlushIndex, world, tree, counters
<1>2. \A b \in Blocks : disk'[b] = idx[b] \/ (b \notin dirty /\ disk'[b] = disk[b])
  BY <1>1
<1>3. TypeOK'
  BY <1>1 DEF IInv, TypeOK
<1>4. OnlyKnown' /\ DataValidated'
  BY <1>1, <1>2 DEF IInv, OnlyKnown, DataValidated
<1>5. LinksHaveData' /\ CandidatesLinked' /\ TargetsKnown'
  BY <1>1 DEF IInv, LinksHaveData, CandidatesLinked, TargetsKnown
<1>6. ActiveHasData' /\ ActiveChainSound' /\ MarksDeserved'
  BY <1>1 DEF IInv, ActiveHasData, ActiveChainSound, MarksDeserved, Failed
<1>7. \A b \in Blocks : disk'[b].tx = idx[b].tx /\ disk'[b].undo = idx[b].undo
  BY <1>2 DEF IInv, Synced
<1>8. Synced'
  BY <1>1, <1>7 DEF Synced
<1>9. DiskTipRecoverable'
  <2>1. Anc[diskTip] \subseteq Blocks
    BY TreeFacts DEF IInv, TypeOK
  <2>2. \A b \in Anc[diskTip] : idx[b].tx /\ (b # Genesis => idx[b].undo)
    BY <2>1 DEF IInv, DiskTipRecoverable, Synced
  <2> QED
    BY <1>1, <1>7, <2>1, <2>2 DEF DiskTipRecoverable
<1>10. DiskTipValid'
  BY <1>1 DEF IInv, DiskTipValid
<1>11. DiskMarksDeserved'
  BY <1>1, <1>2 DEF IInv, DiskMarksDeserved, MarksDeserved, Deserved, Failed
<1> QED
  BY <1>3, <1>4, <1>5, <1>6, <1>8, <1>9, <1>10, <1>11 DEF IInv

\* The second write comes when the stored index has caught up.
LEMMA FlushCoinsInv ==
    ASSUME IInv, FlushCoins
    PROVE  IInv'
<1>1. /\ flushing /\ flushing' = FALSE /\ diskTip' = tip
      /\ UNCHANGED <<verdict, addr, idx, linked, seq, nBlockSequenceId, candidates,
                     unlinked, tip, bestInvalid, bestHeader, dirty, disk, pc, target,
                     oldTip, manuals, crashes>>
  BY DEF FlushCoins, world, tree, counters
<1>2. TypeOK'
  BY <1>1 DEF IInv, TypeOK
<1>3. OnlyKnown' /\ DataValidated' /\ LinksHaveData' /\ CandidatesLinked' /\ TargetsKnown'
  BY <1>1 DEF IInv, OnlyKnown, DataValidated, LinksHaveData, CandidatesLinked, TargetsKnown
<1>4. ActiveHasData' /\ ActiveChainSound' /\ Synced'
  BY <1>1 DEF IInv, ActiveHasData, ActiveChainSound, Synced
<1>5. MarksDeserved' /\ DiskMarksDeserved'
  BY <1>1 DEF IInv, MarksDeserved, DiskMarksDeserved, Deserved, Failed
<1>6. \A b \in Anc[tip] : b \in Blocks /\ disk[b].tx = idx[b].tx /\ disk[b].undo = idx[b].undo
  BY <1>1, TreeFacts DEF IInv, TypeOK, Synced
<1>7. DiskTipRecoverable'
  BY <1>1, <1>6 DEF IInv, DiskTipRecoverable, ActiveHasData, ActiveChainSound
<1>8. DiskTipValid'
  BY <1>1 DEF IInv, DiskTipValid, ActiveChainSound
<1> QED
  BY <1>2, <1>3, <1>4, <1>5, <1>7, <1>8 DEF IInv

\* LoadBlockIndexDB rebuilds the chain state from what is on disk.
LEMMA RestartInv ==
    ASSUME IInv, NEW th \in Threads, Restart(th)
    PROVE  IInv'
<1>1. /\ idx' = disk /\ linked' = LoadedLinked /\ candidates' = LoadedCandidates
      /\ unlinked' = {b \in Blocks \ {Genesis} :
                         disk[b].tx /\ Parent[b] \notin LoadedLinked}
      /\ tip' = diskTip
      /\ dirty' = {} /\ flushing' = FALSE
      /\ pc' = [t \in Threads |-> IF t = th THEN "activating" ELSE "down"]
      /\ UNCHANGED <<verdict, disk, diskTip, manuals>>
  BY DEF Restart
<1>2. /\ LoadedLinked \subseteq Blocks
      /\ \A b \in LoadedLinked : \A a \in Anc[b] : disk[a].tx
      /\ LoadedCandidates \subseteq LoadedLinked
  BY DEF LoadedLinked, LoadedCandidates
<1>3. TypeOK'
  <2>1. bestInvalid' \in Blocks \cup {NoBlock} /\ bestHeader' \in Blocks
    BY DEF Restart, MaxWork
  <2>2. addr' \in AddrOrders /\ crashes' \in 0..MaxCrashes
    BY OperatorAssumption DEF Restart, IInv, TypeOK
  <2>3. nBlockSequenceId' = 1 /\ seq' = [b \in Blocks |-> 0]
    BY DEF Restart
  <2>4. nBlockSequenceId' \in Nat /\ seq' \in [Blocks -> 0..(nBlockSequenceId' - 1)]
    BY <2>3
  <2>5. target' = [t \in Threads |-> NoBlock] /\ oldTip' = NoBlock
    BY DEF Restart
  <2>6. pc' \in [Threads -> PCs] /\ target' \in [Threads -> Blocks \cup {NoBlock}]
    BY <1>1, <2>5 DEF PCs
  <2> QED
    BY <1>1, <1>2, <2>1, <2>2, <2>4, <2>5, <2>6 DEF IInv, TypeOK
<1>4. OnlyKnown' /\ DataValidated'
  BY <1>1 DEF IInv, OnlyKnown, DataValidated
<1>5. LinksHaveData' /\ CandidatesLinked'
  BY <1>1, <1>2 DEF LinksHaveData, CandidatesLinked
<1>6. TargetsKnown'
  BY <1>1 DEF TargetsKnown
<1>7. ActiveHasData' /\ ActiveChainSound'
  BY <1>1 DEF IInv, ActiveHasData, ActiveChainSound, DiskTipRecoverable, DiskTipValid
<1>8. Synced'
  BY <1>1 DEF Synced
<1>9. DiskTipRecoverable' /\ DiskTipValid'
  BY <1>1 DEF IInv, DiskTipRecoverable, DiskTipValid
<1>10. MarksDeserved' /\ DiskMarksDeserved'
  BY <1>1 DEF IInv, MarksDeserved, DiskMarksDeserved, Deserved, Failed
<1> QED
  BY <1>3, <1>4, <1>5, <1>6, <1>7, <1>8, <1>9, <1>10 DEF IInv

-----------------------------------------------------------------------------
(* The theorems.                                                           *)

LEMMA InitInv == Init => IInv
<1> SUFFICES ASSUME Init PROVE IInv
  OBVIOUS
<1>1. /\ idx = [b \in Blocks |-> IF b = Genesis THEN GenesisStatus ELSE Unknown]
      /\ disk = idx /\ tip = Genesis /\ diskTip = Genesis /\ linked = {Genesis}
      /\ unlinked = {} /\ candidates = {Genesis} /\ dirty = {} /\ flushing = FALSE
      /\ pc = [th \in Threads |-> "idle"]
      /\ verdict \in Verdicts
  BY DEF Init
<1>2. /\ verdict[Genesis] = "ok"
      /\ idx \in [Blocks -> Status] /\ idx[Genesis].tx /\ idx[Genesis].known
      /\ \A b \in Blocks : ~idx[b].fvalid /\ ~idx[b].fchild
      /\ \A b \in Blocks \ {Genesis} : ~idx[b].tx /\ ~idx[b].undo
  BY <1>1, HeaderFacts, TreeFacts, VerdictAssumption
<1>3. TypeOK
  <2>1. nBlockSequenceId = 2 /\ seq = [b \in Blocks |-> IF b = Genesis THEN 1 ELSE 0]
    BY DEF Init
  <2>2. seq \in [Blocks -> 0..(nBlockSequenceId - 1)] /\ nBlockSequenceId \in Nat
    BY <2>1
  <2>3. manuals \in 0..MaxManual /\ crashes \in 0..MaxCrashes
    BY OperatorAssumption DEF Init
  <2> QED
    BY <1>1, <1>2, <2>2, <2>3, TreeFacts DEF Init, TypeOK, PCs
<1>4. OnlyKnown /\ DataValidated /\ LinksHaveData /\ CandidatesLinked /\ TargetsKnown
  BY <1>1, <1>2, TreeFacts
  DEF OnlyKnown, DataValidated, LinksHaveData, CandidatesLinked, TargetsKnown
<1>5. ActiveHasData /\ ActiveChainSound /\ Synced
  BY <1>1, <1>2, TreeFacts DEF ActiveHasData, ActiveChainSound, Synced
<1>6. DiskTipRecoverable /\ DiskTipValid
  BY <1>1, <1>2, TreeFacts DEF DiskTipRecoverable, DiskTipValid
<1>7. MarksDeserved /\ DiskMarksDeserved
  BY <1>1, <1>2 DEF MarksDeserved, DiskMarksDeserved, Failed
<1> QED
  BY <1>3, <1>4, <1>5, <1>6, <1>7 DEF IInv

LEMMA StepInv ==
    ASSUME IInv, NEW th \in Threads, Step(th)
    PROVE  IInv'
BY ActivateBestChainInv, DisconnectTipInv, ConnectTipInv, ConnectTipFailsInv,
   LoopTestInv, InvalidateTurnInv, InvalidateEndInv
DEF Step

LEMMA StutterInv ==
    ASSUME IInv, UNCHANGED vars
    PROVE  IInv'
<1>1. UNCHANGED <<verdict, addr, idx, linked, seq, nBlockSequenceId, candidates, unlinked,
                  tip, bestInvalid, bestHeader, dirty, disk, diskTip, flushing, pc, target,
                  oldTip, manuals, crashes>>
  BY DEF vars
<1>2. TypeOK' /\ OnlyKnown' /\ DataValidated' /\ LinksHaveData' /\ CandidatesLinked'
  BY <1>1 DEF IInv, TypeOK, OnlyKnown, DataValidated, LinksHaveData, CandidatesLinked
<1>3. TargetsKnown' /\ ActiveHasData' /\ ActiveChainSound' /\ Synced'
  BY <1>1 DEF IInv, TargetsKnown, ActiveHasData, ActiveChainSound, Synced
<1>4. DiskTipRecoverable' /\ DiskTipValid' /\ MarksDeserved' /\ DiskMarksDeserved'
  BY <1>1 DEF IInv, DiskTipRecoverable, DiskTipValid, MarksDeserved, DiskMarksDeserved,
              Deserved, Failed
<1> QED
  BY <1>2, <1>3, <1>4 DEF IInv

\* The invariant is inductive.
THEOREM Inductive == Spec => []IInv
<1>1. IInv /\ [Next]_vars => IInv'
  <2> SUFFICES ASSUME IInv, Next PROVE IInv'
    BY StutterInv
  <2> QED
    BY AcceptBlockHeaderInv, AcceptBlockInv, AcceptBlockFailsInv, AcceptDuplicateInv,
       StepInv, InvalidateBlockInv, ReconsiderBlockInv, FlushIndexInv, FlushCoinsInv,
       RestartInv, StartThreadInv
    DEF Next
<1> QED
  BY InitInv, <1>1, PTL DEF Spec

\* Every variable keeps its type, for every tree of blocks and any number of
\* threads: nBlockSequenceId stays above every number it has given out.
THEOREM TypeCorrect == Spec => []TypeOK
<1>1. IInv => TypeOK
  BY DEF IInv
<1> QED
  BY Inductive, <1>1, PTL

\* The active chain never holds a block that ContextualCheckBlock or
\* ConnectBlock refuses, and DisconnectTip always finds undo data: through
\* reorganisations, invalidateblock, reconsiderblock, crashes and restarts.
THEOREM ActiveChainAlwaysSound == Spec => []ActiveChainSound
<1>1. IInv => ActiveChainSound
  BY DEF IInv
<1> QED
  BY Inductive, <1>1, PTL

\* A crash at any moment, also between the two writes of FlushStateToDisk,
\* leaves a stored best block whose chain the stored index can replay and undo.
THEOREM AlwaysRecoverable == Spec => []DiskTipRecoverable
<1>1. IInv => DiskTipRecoverable
  BY DEF IInv
<1> QED
  BY Inductive, <1>1, PTL

\* No block is ever marked as failed unless it or an ancestor was refused by
\* validation or named by the operator.
THEOREM MarksAlwaysDeserved == Spec => []MarksDeserved
<1>1. IInv => MarksDeserved
  BY DEF IInv
<1> QED
  BY Inductive, <1>1, PTL
=============================================================================
