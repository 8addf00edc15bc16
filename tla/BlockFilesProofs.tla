-------------------------- MODULE BlockFilesProofs --------------------------
(***************************************************************************)
(* Proofs about module BlockFiles: for any tree of blocks, any sizes of    *)
(* files and chunks and any number of faults, a block the index says it    *)
(* has is in its file, in memory and on disk, through kills and power      *)
(* failures; undo data, and what pruning must keep, through kills.         *)
(***************************************************************************)
EXTENDS BlockFiles, TLAPS

-----------------------------------------------------------------------------
(* The inductive invariant *)

(* What the index and the information on the files, in memory or on disk, *)
(* say together: the next free place of a file lies above all places that  *)
(* are in use, nHeightLast above all heights, and undo data is in the file *)
(* of its block.                                                           *)
Consistent(position, undoPosition, rcv, info) ==
    /\ \A b \in Block : position[b] # NoPos =>
          /\ position[b][2] < info[position[b][1]].nSize
          /\ Height[b] <= info[position[b][1]].nHeightLast
          /\ b \in rcv
    /\ \A b \in Block : undoPosition[b] # NoPos =>
          /\ position[b] # NoPos
          /\ undoPosition[b][1] = position[b][1]
          /\ undoPosition[b][2] < info[undoPosition[b][1]].nUndoSize

MemoryConsistent == Consistent(pos, undoPos, received, vinfoBlockFile)
DiskConsistent == Consistent(disk.pos, disk.undoPos, disk.received, disk.info)

(* What is not dirty is on disk as it is in memory. *)
Synced ==
    /\ \A b \in Block \ setDirtyBlockIndex :
          /\ disk.pos[b] = pos[b]
          /\ disk.undoPos[b] = undoPos[b]
          /\ b \in received => b \in disk.received
    /\ disk.received \subseteq received
    /\ \A f \in Files \ setDirtyFileInfo : disk.info[f] = vinfoBlockFile[f]

(* Between two flushes files only grow. *)
Grown ==
    \A f \in Files :
       /\ disk.info[f].nSize <= vinfoBlockFile[f].nSize
       /\ disk.info[f].nUndoSize <= vinfoBlockFile[f].nUndoSize

(* The places of the stored index are intact for the running process too,  *)
(* and of the files only the last holds blocks that are not committed.     *)
StoredIntact == \A b \in Block : disk.pos[b] # NoPos => Holds(blk, disk.pos[b], b)
OthersCommitted ==
    \A b \in Block : (pos[b] # NoPos /\ pos[b][1] # nLastBlockFile) => Holds(blkSafe, pos[b], b)

(* Files that are about to be removed are referred to by nothing. *)
PrunedForgotten ==
    /\ pc \notin {"coins", "unlink"} => setFilesToPrune = {}
    /\ pc \in {"coins", "unlink"} => setDirtyBlockIndex = {} /\ setDirtyFileInfo = {}
    /\ \A b \in Block :
          /\ pos[b] # NoPos => pos[b][1] \notin setFilesToPrune
          /\ disk.pos[b] # NoPos => disk.pos[b][1] \notin setFilesToPrune

ChainReceived == Anc[coins] \subseteq received

StoredKept == ~powerFailed => KeptFor(storedTip, pos, undoPos)

Inv ==
    /\ TypeOK
    /\ MemoryConsistent /\ DiskConsistent /\ Synced /\ Grown
    /\ BlocksReadable /\ StoredIntact /\ OthersCommitted
    /\ PrunedForgotten
    /\ UndoReadable
    /\ ChainReceived /\ StoredTipIndexed
    /\ RecentKept /\ StoredKept

-----------------------------------------------------------------------------
(* The content of files *)

(* Writing elsewhere leaves a place alone, and what was written is there. *)
LEMMA WriteKeeps ==
    ASSUME NEW content, NEW p, NEW b, NEW q, NEW c, Holds(content, q, c), q # p
    PROVE  Holds(WriteAt(content, p, b), q, c)
BY DEF Holds, WriteAt

LEMMA WriteHolds ==
    ASSUME NEW content, NEW p, NEW b
    PROVE  Holds(WriteAt(content, p, b), p, b)
BY DEF Holds, WriteAt

(* A commit keeps what is in both copies, and brings one file over. *)
LEMMA CommitKeeps ==
    ASSUME NEW safe, NEW content, NEW f, NEW g, NEW n, NEW c,
           g # f => Holds(safe, <<g, n>>, c),
           g = f => Holds(content, <<g, n>>, c)
    PROVE  Holds(Committed(safe, content, f), <<g, n>>, c)
BY DEF Holds, Committed, In, NotIn

(* Removing files leaves the others alone. *)
LEMMA RemoveKeeps ==
    ASSUME NEW content, NEW S, NEW p, NEW c, Holds(content, p, c), p[1] \notin S
    PROVE  Holds(NotIn(content, S), p, c)
BY DEF Holds, NotIn

(* A power failure leaves what both copies hold. *)
LEMMA PowerLossKeeps ==
    ASSUME NEW content, NEW safe, NEW lost, NEW g, NEW n, NEW c,
           Holds(content, <<g, n>>, c), Holds(safe, <<g, n>>, c)
    PROVE  Holds(AfterPowerLoss(content, safe, lost), <<g, n>>, c)
BY DEF Holds, AfterPowerLoss, In, NotIn

(* A place is a pair of a file and a number. *)
LEMMA PositionPair ==
    ASSUME NEW p \in Positions
    PROVE  /\ p[1] \in Files /\ p[2] \in Nat
           /\ p = <<p[1], p[2]>>
BY DEF Positions

(* The information on a file with one more block, or one more undo record. *)
LEMMA WithBlockInfo ==
    ASSUME NEW info \in Info, NEW h \in Nat
    PROVE  /\ WithBlock(info, h) \in Info
           /\ WithBlock(info, h).nSize = info.nSize + 1
           /\ WithBlock(info, h).nUndoSize = info.nUndoSize
           /\ WithBlock(info, h).nHeightLast >= info.nHeightLast
           /\ WithBlock(info, h).nHeightLast >= h
BY DEF WithBlock, Info, Larger

LEMMA WithUndoInfo ==
    ASSUME NEW info \in Info
    PROVE  /\ WithUndo(info) \in Info
           /\ WithUndo(info).nSize = info.nSize
           /\ WithUndo(info).nUndoSize = info.nUndoSize + 1
           /\ WithUndo(info).nHeightLast = info.nHeightLast
BY DEF WithUndo, Info

LEMMA NullInfoInfo == NullInfo \in Info /\ NullInfo.nSize = 0 /\ NullInfo.nUndoSize = 0
BY DEF NullInfo, Info

LEMMA NoPosIsNone == NoPos \notin Positions
BY BoundAssumption DEF NoPos, Positions, Files

-----------------------------------------------------------------------------
LEMMA InitInv == Init => Inv
<1> SUFFICES ASSUME Init PROVE Inv
  OBVIOUS
<1> USE TreeAssumption, BoundAssumption
<1>0. 0 \in Files /\ <<0, 0>> \in Positions /\ <<0, 0>> # NoPos
  BY DEF Files, Positions, NoPos
<1> DEFINE info0 == WithBlock(NullInfo, Height[Genesis])
<1>1. info0 \in Info /\ NullInfo \in Info /\ info0.nSize = 1 /\ info0.nHeightLast >= Height[Genesis]
  BY NullInfoInfo, WithBlockInfo
<1> HIDE DEF info0
<1>a. vinfoBlockFile = [f \in Files |-> IF f = 0 THEN info0 ELSE NullInfo]
  BY DEF Init, info0
<1>b. pos \in Places /\ undoPos \in Places /\ vinfoBlockFile \in [Files -> Info]
  BY <1>0, <1>1, <1>a DEF Init, Places
<1>c. disk \in [pos : Places, undoPos : Places, received : SUBSET Block, info : [Files -> Info], last : Files]
  BY <1>0, <1>b DEF Init
<1>d. blk \in Contents /\ blkSafe \in Contents /\ rev \in Contents /\ revSafe \in Contents
  BY <1>0 DEF Init, Contents
<1>2. TypeOK
  BY <1>0, <1>b, <1>c, <1>d DEF Init, TypeOK
<1>3. MemoryConsistent /\ DiskConsistent
  BY <1>0, <1>1, <1>a DEF Init, MemoryConsistent, DiskConsistent, Consistent
<1>4. Synced
  BY DEF Init, Synced
<1>5. Grown
  BY <1>1, <1>a DEF Init, Grown, Info
<1>6. BlocksReadable /\ StoredIntact /\ OthersCommitted
  BY DEF Init, BlocksReadable, StoredIntact, OthersCommitted, Holds
<1>7. PrunedForgotten /\ UndoReadable
  BY DEF Init, PrunedForgotten, UndoReadable
<1>8. ChainReceived /\ StoredTipIndexed /\ RecentKept /\ StoredKept
  BY DEF Init, ChainReceived, StoredTipIndexed, RecentKept, StoredKept, KeptFor
<1> QED
  BY <1>2, <1>3, <1>4, <1>5, <1>6, <1>7, <1>8 DEF Inv

-----------------------------------------------------------------------------
(* Places in use and places that are free *)

LEMMA Typed ==
    ASSUME TypeOK, NEW b \in Block
    PROVE  /\ pos[b] # NoPos => pos[b] \in Positions
           /\ undoPos[b] # NoPos => undoPos[b] \in Positions
           /\ disk.pos[b] # NoPos => disk.pos[b] \in Positions
           /\ disk.undoPos[b] # NoPos => disk.undoPos[b] \in Positions
           /\ \A f \in Files : vinfoBlockFile[f] \in Info /\ disk.info[f] \in Info
BY DEF TypeOK, Places

(* No block, in memory or on disk, is at the next free place of a file. *)
LEMMA NextPlaceFree ==
    ASSUME Inv, NEW f \in Files, NEW c \in Block
    PROVE  /\ pos[c] # NoPos => pos[c] # <<f, vinfoBlockFile[f].nSize>>
           /\ disk.pos[c] # NoPos => disk.pos[c] # <<f, vinfoBlockFile[f].nSize>>
<1>1. vinfoBlockFile[f] \in Info /\ disk.info[f] \in Info
  BY Typed DEF Inv
<1>2. pos[c] # NoPos => pos[c][2] < vinfoBlockFile[pos[c][1]].nSize
  BY DEF Inv, MemoryConsistent, Consistent
<1>3. disk.pos[c] # NoPos => disk.pos[c][2] < disk.info[disk.pos[c][1]].nSize
  BY DEF Inv, DiskConsistent, Consistent
<1>4. disk.info[f].nSize <= vinfoBlockFile[f].nSize
  BY DEF Inv, Grown
<1> QED
  BY <1>1, <1>2, <1>3, <1>4 DEF Info

(* Nor is undo data at the next free place of an undo file. *)
LEMMA NextUndoFree ==
    ASSUME Inv, NEW f \in Files, NEW c \in Block
    PROVE  /\ undoPos[c] # NoPos => undoPos[c] # <<f, vinfoBlockFile[f].nUndoSize>>
           /\ disk.undoPos[c] # NoPos => disk.undoPos[c] # <<f, vinfoBlockFile[f].nUndoSize>>
<1>1. vinfoBlockFile[f] \in Info /\ disk.info[f] \in Info
  BY Typed DEF Inv
<1>2. undoPos[c] # NoPos => undoPos[c][2] < vinfoBlockFile[undoPos[c][1]].nUndoSize
  BY DEF Inv, MemoryConsistent, Consistent
<1>3. disk.undoPos[c] # NoPos => disk.undoPos[c][2] < disk.info[disk.undoPos[c][1]].nUndoSize
  BY DEF Inv, DiskConsistent, Consistent
<1>4. disk.info[f].nUndoSize <= vinfoBlockFile[f].nUndoSize
  BY DEF Inv, Grown
<1> QED
  BY <1>1, <1>2, <1>3, <1>4 DEF Info

-----------------------------------------------------------------------------
LEMMA AcceptBlockInv ==
    ASSUME Inv, NEW b \in Block, AcceptBlock(b)
    PROVE  Inv'
<1> USE TreeAssumption, BoundAssumption
<1>1. PICK f \in Files :
        /\ IsNextFile(f)
        /\ pos' = [pos EXCEPT ![b] = <<f, vinfoBlockFile[f].nSize>>]
        /\ received' = received \cup {b}
        /\ setDirtyBlockIndex' = DirtyWith(b)
        /\ vinfoBlockFile' = [vinfoBlockFile EXCEPT ![f] = WithBlock(@, Height[b])]
        /\ setDirtyFileInfo' = DirtyFilesWith(f)
        /\ nLastBlockFile' = f
        /\ blk' = WriteAt(blk, <<f, vinfoBlockFile[f].nSize>>, b)
        /\ blkSafe' = CommittedOnLeaving(blkSafe, blk, f)
        /\ revSafe' = CommittedOnLeaving(revSafe, rev, f)
        /\ fCheckForPruning' \in BOOLEAN
        /\ pc' \in {"idle", "flush"}
  BY DEF AcceptBlock
<1>2. /\ pc = "idle" /\ tip = coins /\ pos[b] = NoPos /\ b \notin Anc[tip]
      /\ undoPos' = undoPos /\ rev' = rev /\ disk' = disk /\ storedTip' = storedTip
      /\ tip' = tip /\ coins' = coins /\ setFilesToPrune' = setFilesToPrune
      /\ faults' = faults /\ powerFailed' = powerFailed /\ nPrunedFor' = nPrunedFor
  BY DEF AcceptBlock, HaveData, stored, chain, aux
<1> DEFINE p == <<f, vinfoBlockFile[f].nSize>>
<1>3. TypeOK /\ vinfoBlockFile[f] \in Info /\ Height[b] \in Nat
  BY DEF Inv, TypeOK
<1>4. p \in Positions /\ p # NoPos /\ p[1] = f /\ p[2] = vinfoBlockFile[f].nSize
  BY <1>3, NoPosIsNone DEF Positions, Info
<1>5. pos' = [pos EXCEPT ![b] = p] /\ blk' = WriteAt(blk, p, b)
  BY <1>1
<1>6. /\ pos'[b] = p
      /\ \A c \in Block \ {b} : pos'[c] = pos[c]
  BY <1>1, <1>3 DEF TypeOK, Places
<1>7. \A c \in Block : /\ pos[c] # NoPos => pos[c] # p
                       /\ disk.pos[c] # NoPos => disk.pos[c] # p
  BY NextPlaceFree
<1> HIDE DEF p
<1>8. /\ vinfoBlockFile' \in [Files -> Info]
      /\ vinfoBlockFile'[f] = WithBlock(vinfoBlockFile[f], Height[b])
      /\ \A g \in Files \ {f} : vinfoBlockFile'[g] = vinfoBlockFile[g]
  BY <1>1, <1>3, WithBlockInfo DEF TypeOK
<1>9. \A g \in Files :
        /\ vinfoBlockFile'[g].nSize >= vinfoBlockFile[g].nSize
        /\ vinfoBlockFile'[g].nUndoSize = vinfoBlockFile[g].nUndoSize
        /\ vinfoBlockFile'[g].nHeightLast >= vinfoBlockFile[g].nHeightLast
        /\ vinfoBlockFile[g] \in Info
  <2> SUFFICES ASSUME NEW g \in Files
               PROVE  /\ vinfoBlockFile'[g].nSize >= vinfoBlockFile[g].nSize
                      /\ vinfoBlockFile'[g].nUndoSize = vinfoBlockFile[g].nUndoSize
                      /\ vinfoBlockFile'[g].nHeightLast >= vinfoBlockFile[g].nHeightLast
                      /\ vinfoBlockFile[g] \in Info
    OBVIOUS
  <2>1. vinfoBlockFile[g] \in Info
    BY <1>3 DEF TypeOK
  <2>2. CASE g = f
    <3>1. vinfoBlockFile'[f].nSize = vinfoBlockFile[f].nSize + 1
      BY <1>8 DEF WithBlock
    <3>2. vinfoBlockFile'[f].nUndoSize = vinfoBlockFile[f].nUndoSize
      BY <1>8 DEF WithBlock
    <3>3. vinfoBlockFile'[f].nHeightLast >= vinfoBlockFile[f].nHeightLast
      <4>1. WithBlock(vinfoBlockFile[f], Height[b]).nHeightLast >= vinfoBlockFile[f].nHeightLast
        BY <1>3, WithBlockInfo
      <4> QED
        BY <1>8, <4>1
    <3> QED
      BY <3>1, <3>2, <3>3, <2>1, <2>2 DEF Info
  <2>3. CASE g # f
    BY <2>1, <2>3, <1>8 DEF Info
  <2> QED
    BY <2>2, <2>3
<1>10. /\ vinfoBlockFile'[f].nSize = vinfoBlockFile[f].nSize + 1
       /\ vinfoBlockFile'[f].nHeightLast >= Height[b]
  <2>1. /\ WithBlock(vinfoBlockFile[f], Height[b]).nSize = vinfoBlockFile[f].nSize + 1
        /\ WithBlock(vinfoBlockFile[f], Height[b]).nHeightLast >= Height[b]
    BY <1>3, WithBlockInfo
  <2> QED
    BY <1>8, <2>1
<1>11. setFilesToPrune = {}
  BY <1>2 DEF Inv, PrunedForgotten
<1>12. TypeOK'
  <2>1. pos' \in Places
    BY <1>3, <1>4, <1>5 DEF TypeOK, Places
  <2>2. blk' \in Contents /\ blkSafe' \in Contents /\ revSafe' \in Contents
    BY <1>1, <1>3, <1>4, <1>5 DEF TypeOK, Contents, WriteAt, CommittedOnLeaving, Committed, In, NotIn
  <2> QED
    BY <1>1, <1>2, <1>3, <1>8, <2>1, <2>2 DEF TypeOK, DirtyWith, DirtyFilesWith
<1>13. MemoryConsistent'
  <2>1. \A c \in Block : undoPos[c] # NoPos => c # b
    BY <1>2 DEF Inv, MemoryConsistent, Consistent
  <2>2. ASSUME NEW c \in Block, pos'[c] # NoPos
        PROVE  /\ pos'[c][2] < vinfoBlockFile'[pos'[c][1]].nSize
               /\ Height[c] <= vinfoBlockFile'[pos'[c][1]].nHeightLast
               /\ c \in received'
    <3>1. CASE c = b
      BY <3>1, <1>1, <1>3, <1>4, <1>6, <1>10 DEF Info
    <3>2. CASE c # b
      <4>1. pos[c] # NoPos /\ pos'[c] = pos[c] /\ pos[c][1] \in Files /\ pos[c][2] \in Nat
        BY <3>2, <2>2, <1>3, <1>6, Typed, PositionPair
      <4>2. /\ pos[c][2] < vinfoBlockFile[pos[c][1]].nSize
            /\ Height[c] <= vinfoBlockFile[pos[c][1]].nHeightLast
            /\ c \in received
        BY <4>1 DEF Inv, MemoryConsistent, Consistent
      <4>3. vinfoBlockFile'[pos[c][1]] \in Info /\ Height[c] \in Nat
        BY <4>1, <1>8
      <4> QED
        BY <4>1, <4>2, <4>3, <1>1, <1>9 DEF Info
    <3> QED
      BY <3>1, <3>2
  <2>3. ASSUME NEW c \in Block, undoPos'[c] # NoPos
        PROVE  /\ pos'[c] # NoPos
               /\ undoPos'[c][1] = pos'[c][1]
               /\ undoPos'[c][2] < vinfoBlockFile'[undoPos'[c][1]].nUndoSize
    <3>1. c # b /\ pos'[c] = pos[c] /\ undoPos'[c] = undoPos[c] /\ undoPos[c][1] \in Files
      BY <2>1, <2>3, <1>2, <1>3, <1>6, Typed, PositionPair
    <3> QED
      BY <3>1, <2>3, <1>2, <1>9 DEF Inv, MemoryConsistent, Consistent
  <2> QED
    BY <2>2, <2>3 DEF MemoryConsistent, Consistent
<1>14. DiskConsistent'
  BY <1>2 DEF Inv, DiskConsistent
<1>15. Synced'
  BY <1>1, <1>2, <1>6, <1>8 DEF Inv, Synced, DirtyWith, DirtyFilesWith
<1>16. Grown'
  <2> SUFFICES ASSUME NEW g \in Files
               PROVE  /\ disk.info[g].nSize <= vinfoBlockFile'[g].nSize
                      /\ disk.info[g].nUndoSize <= vinfoBlockFile'[g].nUndoSize
    BY <1>2 DEF Grown
  <2>1. disk.info[g] \in Info /\ vinfoBlockFile'[g] \in Info
    BY <1>3, <1>8 DEF TypeOK
  <2> QED
    BY <2>1, <1>9 DEF Inv, Grown, Info
<1>17. \A c \in Block : /\ pos'[c] # NoPos => Holds(blk', pos'[c], c)
                        /\ disk.pos[c] # NoPos => Holds(blk', disk.pos[c], c)
  BY <1>5, <1>6, <1>7, WriteKeeps, WriteHolds DEF Inv, BlocksReadable, StoredIntact
<1>18. \A c \in Block : disk.pos[c] # NoPos => Holds(blkSafe', disk.pos[c], c)
  <2> SUFFICES ASSUME NEW c \in Block, disk.pos[c] # NoPos
               PROVE  Holds(blkSafe', disk.pos[c], c)
    OBVIOUS
  <2>1. Holds(blk, disk.pos[c], c) /\ Holds(blkSafe, disk.pos[c], c)
    BY DEF Inv, BlocksReadable, StoredIntact
  <2>2. disk.pos[c] = <<disk.pos[c][1], disk.pos[c][2]>>
    BY <1>3, Typed, PositionPair
  <2> QED
    BY <2>1, <2>2, <1>1, CommitKeeps DEF CommittedOnLeaving
<1>19. BlocksReadable' /\ StoredIntact'
  BY <1>2, <1>17, <1>18 DEF BlocksReadable, StoredIntact
<1>20. OthersCommitted'
  <2> SUFFICES ASSUME NEW c \in Block, pos'[c] # NoPos, pos'[c][1] # f
               PROVE  Holds(blkSafe', pos'[c], c)
    BY <1>1 DEF OthersCommitted
  <2>1. pos[c] # NoPos /\ pos'[c] = pos[c]
    BY <1>4, <1>6
  <2>2. pos[c] = <<pos[c][1], pos[c][2]>>
    BY <2>1, <1>3, Typed, PositionPair
  <2>3. /\ Holds(blk, pos[c], c)
        /\ pos[c][1] # nLastBlockFile => Holds(blkSafe, pos[c], c)
    BY <2>1 DEF Inv, BlocksReadable, OthersCommitted
  <2> QED
    BY <2>1, <2>2, <2>3, <1>1, CommitKeeps DEF CommittedOnLeaving
<1>21. PrunedForgotten' /\ UndoReadable' /\ ChainReceived' /\ StoredTipIndexed'
  BY <1>1, <1>2, <1>11 DEF Inv, PrunedForgotten, UndoReadable, ChainReceived, StoredTipIndexed
<1>22. RecentKept' /\ StoredKept'
  <2>0. Anc[coins] \subseteq Block /\ Anc[storedTip] \subseteq Block
    BY <1>3 DEF TypeOK
  <2>1. ASSUME ~powerFailed PROVE KeptFor(coins, pos, undoPos)'
    BY <2>0, <2>1, <1>2, <1>6, <1>17 DEF Inv, RecentKept, KeptFor
  <2>2. ASSUME ~powerFailed PROVE KeptFor(storedTip, disk.pos, disk.undoPos)'
    BY <2>0, <2>2, <1>2, <1>17 DEF Inv, RecentKept, KeptFor
  <2>3. ASSUME ~powerFailed PROVE KeptFor(storedTip, pos, undoPos)'
    BY <2>0, <2>3, <1>2, <1>6, <1>17 DEF Inv, StoredKept, KeptFor
  <2> QED
    BY <2>1, <2>2, <2>3, <1>2 DEF RecentKept, StoredKept
<1> QED
  BY <1>12, <1>13, <1>14, <1>15, <1>16, <1>19, <1>20, <1>21, <1>22 DEF Inv

-----------------------------------------------------------------------------
LEMMA ConnectTipInv ==
    ASSUME Inv, NEW b \in Block, ConnectTip(b)
    PROVE  Inv'
<1> USE TreeAssumption, BoundAssumption
<1>1. /\ pc = "idle" /\ tip = coins /\ b # Genesis /\ Parent[b] = tip
      /\ pos[b] # NoPos /\ Holds(blk, pos[b], b)
      /\ pc' = "flush" /\ coins' = b
      /\ pos' = pos /\ received' = received /\ nLastBlockFile' = nLastBlockFile
      /\ blk' = blk /\ blkSafe' = blkSafe /\ revSafe' = revSafe /\ disk' = disk
      /\ storedTip' = storedTip /\ tip' = tip /\ setFilesToPrune' = setFilesToPrune
      /\ faults' = faults /\ powerFailed' = powerFailed /\ nPrunedFor' = nPrunedFor
  BY DEF ConnectTip, Readable, HaveData, stored, aux
<1>2. TypeOK /\ setFilesToPrune = {} /\ Anc[coins] \subseteq Block /\ Anc[storedTip] \subseteq Block
  BY <1>1 DEF Inv, PrunedForgotten, TypeOK
<1>3. Anc[b] = {b} \cup Anc[coins]
  BY <1>1
<1>4. StoredTipIndexed' /\ DiskConsistent' /\ BlocksReadable' /\ StoredIntact' /\ OthersCommitted'
      /\ PrunedForgotten'
  BY <1>1, <1>2
     DEF Inv, StoredTipIndexed, DiskConsistent, BlocksReadable, StoredIntact, OthersCommitted, PrunedForgotten
<1>5. ChainReceived'
  <2>1. b \in received
    BY <1>1 DEF Inv, MemoryConsistent, Consistent
  <2> QED
    BY <2>1, <1>1, <1>3 DEF Inv, ChainReceived
<1>6. CASE HaveUndo(b)
  <2>1. /\ undoPos' = undoPos /\ vinfoBlockFile' = vinfoBlockFile /\ setDirtyFileInfo' = setDirtyFileInfo
        /\ rev' = rev /\ fCheckForPruning' = fCheckForPruning /\ setDirtyBlockIndex' = setDirtyBlockIndex
    BY <1>6 DEF ConnectTip
  <2>2. TypeOK' /\ MemoryConsistent' /\ Synced' /\ Grown' /\ UndoReadable'
    BY <2>1, <1>1, <1>2 DEF Inv, TypeOK, MemoryConsistent, Synced, Grown, UndoReadable
  <2>3. RecentKept' /\ StoredKept'
    BY <2>1, <1>1, <1>2, <1>3, <1>6
       DEF Inv, RecentKept, StoredKept, KeptFor, HaveUndo, UndoReadable
  <2> QED
    BY <2>2, <2>3, <1>4, <1>5 DEF Inv
<1>7. CASE ~HaveUndo(b)
  <2> DEFINE f == pos[b][1]
             p == <<f, vinfoBlockFile[f].nUndoSize>>
  <2>1. /\ undoPos' = [undoPos EXCEPT ![b] = p]
        /\ vinfoBlockFile' = [vinfoBlockFile EXCEPT ![f] = WithUndo(@)]
        /\ setDirtyFileInfo' = setDirtyFileInfo \cup {f}
        /\ rev' = WriteAt(rev, p, b)
        /\ fCheckForPruning' \in BOOLEAN
        /\ setDirtyBlockIndex' = setDirtyBlockIndex \cup {b}
    BY <1>7 DEF ConnectTip, DirtyFilesWith, DirtyWith
  <2>2. f \in Files /\ vinfoBlockFile[f] \in Info
    BY <1>1, <1>2, Typed, PositionPair
  <2>3. p \in Positions /\ p # NoPos /\ p[1] = f /\ p[2] = vinfoBlockFile[f].nUndoSize
    BY <2>2, NoPosIsNone DEF Positions, Info
  <2>4. \A c \in Block : /\ undoPos[c] # NoPos => undoPos[c] # p
                         /\ disk.undoPos[c] # NoPos => disk.undoPos[c] # p
    BY <2>2, NextUndoFree
  <2> HIDE DEF p, f
  <2>5. undoPos[b] = NoPos
    BY <1>7 DEF HaveUndo
  <2>6. undoPos'[b] = p /\ \A c \in Block \ {b} : undoPos'[c] = undoPos[c]
    BY <2>1, <1>2 DEF TypeOK, Places
  <2>7. /\ vinfoBlockFile' \in [Files -> Info]
        /\ vinfoBlockFile'[f] = WithUndo(vinfoBlockFile[f])
        /\ \A g \in Files \ {f} : vinfoBlockFile'[g] = vinfoBlockFile[g]
    BY <2>1, <2>2, <1>2, WithUndoInfo DEF TypeOK
  <2>8. /\ vinfoBlockFile'[f].nSize = vinfoBlockFile[f].nSize
        /\ vinfoBlockFile'[f].nHeightLast = vinfoBlockFile[f].nHeightLast
        /\ vinfoBlockFile'[f].nUndoSize = vinfoBlockFile[f].nUndoSize + 1
    BY <2>7 DEF WithUndo
  <2>9. \A g \in Files :
          /\ vinfoBlockFile'[g].nSize = vinfoBlockFile[g].nSize
          /\ vinfoBlockFile'[g].nHeightLast = vinfoBlockFile[g].nHeightLast
    BY <2>7, <2>8
  <2>10. \A g \in Files : vinfoBlockFile'[g].nUndoSize >= vinfoBlockFile[g].nUndoSize
    BY <2>7, <2>8, <1>2 DEF TypeOK, Info
  <2>11. TypeOK'
    <3>1. undoPos' \in Places
      BY <2>1, <2>3, <1>2 DEF TypeOK, Places
    <3>2. rev' \in Contents
      BY <2>1, <2>3, <1>2 DEF TypeOK, Contents, WriteAt
    <3> QED
      BY <3>1, <3>2, <2>1, <2>2, <2>7, <1>1, <1>2 DEF TypeOK
  <2>12. MemoryConsistent'
    <3>1. ASSUME NEW c \in Block, pos[c] # NoPos
          PROVE  /\ pos[c][2] < vinfoBlockFile'[pos[c][1]].nSize
                 /\ Height[c] <= vinfoBlockFile'[pos[c][1]].nHeightLast
                 /\ c \in received
      <4>1. pos[c][1] \in Files
        BY <3>1, <1>2, Typed, PositionPair
      <4> QED
        BY <4>1, <3>1, <2>9 DEF Inv, MemoryConsistent, Consistent
    <3>2. ASSUME NEW c \in Block, undoPos'[c] # NoPos
          PROVE  /\ pos[c] # NoPos
                 /\ undoPos'[c][1] = pos[c][1]
                 /\ undoPos'[c][2] < vinfoBlockFile'[undoPos'[c][1]].nUndoSize
      <4>1. CASE c = b
        BY <4>1, <2>2, <2>3, <2>6, <2>8, <1>1 DEF Info, f
      <4>2. CASE c # b
        <5>1. undoPos'[c] = undoPos[c] /\ undoPos[c][1] \in Files /\ undoPos[c][2] \in Nat
          BY <4>2, <3>2, <2>6, <1>2, Typed, PositionPair
        <5>2. /\ pos[c] # NoPos /\ undoPos[c][1] = pos[c][1]
              /\ undoPos[c][2] < vinfoBlockFile[undoPos[c][1]].nUndoSize
          BY <5>1, <3>2 DEF Inv, MemoryConsistent, Consistent
        <5>3. vinfoBlockFile[undoPos[c][1]] \in Info /\ vinfoBlockFile'[undoPos[c][1]] \in Info
          BY <5>1, <2>7, <1>2 DEF TypeOK
        <5> QED
          BY <5>1, <5>2, <5>3, <2>10 DEF Info
      <4> QED
        BY <4>1, <4>2
    <3> QED
      BY <3>1, <3>2, <1>1 DEF MemoryConsistent, Consistent
  <2>13. Synced'
    BY <2>1, <2>6, <2>7, <1>1 DEF Inv, Synced
  <2>14. Grown'
    <3> SUFFICES ASSUME NEW g \in Files
                 PROVE  /\ disk.info[g].nSize <= vinfoBlockFile'[g].nSize
                        /\ disk.info[g].nUndoSize <= vinfoBlockFile'[g].nUndoSize
      BY <1>1 DEF Grown
    <3>1. disk.info[g] \in Info /\ vinfoBlockFile'[g] \in Info /\ vinfoBlockFile[g] \in Info
      BY <1>2, <2>7 DEF TypeOK
    <3> QED
      BY <3>1, <2>9, <2>10 DEF Inv, Grown, Info
  <2>15. ASSUME ~powerFailed
         PROVE  \A c \in Block : /\ undoPos'[c] # NoPos => Holds(rev', undoPos'[c], c)
                                 /\ disk.undoPos[c] # NoPos => Holds(rev', disk.undoPos[c], c)
    BY <2>15, <2>1, <2>4, <2>6, WriteKeeps, WriteHolds DEF Inv, UndoReadable
  <2>16. UndoReadable'
    BY <2>15, <1>1 DEF UndoReadable
  <2>17. RecentKept' /\ StoredKept'
    <3>1. ASSUME ~powerFailed PROVE KeptFor(coins, pos, undoPos)'
      BY <3>1, <2>3, <2>6, <2>15, <1>1, <1>2, <1>3 DEF Inv, RecentKept, KeptFor
    <3>2. ASSUME ~powerFailed PROVE KeptFor(storedTip, disk.pos, disk.undoPos)'
      BY <3>2, <2>15, <1>1, <1>2 DEF Inv, RecentKept, KeptFor
    <3>3. ASSUME ~powerFailed PROVE KeptFor(storedTip, pos, undoPos)'
      BY <3>3, <2>3, <2>6, <2>15, <1>1, <1>2 DEF Inv, StoredKept, KeptFor
    <3> QED
      BY <3>1, <3>2, <3>3, <1>1 DEF RecentKept, StoredKept
  <2> QED
    BY <2>11, <2>12, <2>13, <2>14, <2>16, <2>17, <1>4, <1>5 DEF Inv
<1> QED
  BY <1>6, <1>7

LEMMA DisconnectTipInv ==
    ASSUME Inv, DisconnectTip
    PROVE  Inv'
<1> USE TreeAssumption
<1>1. /\ pc = "idle" /\ tip = coins /\ tip # Genesis /\ pc' = "flush" /\ coins' = Parent[tip]
      /\ UNCHANGED <<index, books, fCheckForPruning, files, stored, tip, setFilesToPrune, aux>>
  BY DEF DisconnectTip
<1>2. coins' \in Block /\ Anc[coins'] \subseteq Anc[coins]
  BY <1>1 DEF Inv, TypeOK
<1>3. TypeOK'
  BY <1>1, <1>2 DEF Inv, TypeOK, index, books, files, stored, aux
<1>4. MemoryConsistent' /\ DiskConsistent' /\ Synced' /\ Grown' /\ BlocksReadable' /\ StoredIntact'
      /\ OthersCommitted' /\ UndoReadable' /\ StoredTipIndexed' /\ StoredKept'
  BY <1>1 DEF Inv, MemoryConsistent, DiskConsistent, Consistent, Synced, Grown, BlocksReadable, StoredIntact,
     OthersCommitted, UndoReadable, StoredTipIndexed, StoredKept, KeptFor, index, books, files, stored, aux
<1>5. PrunedForgotten'
  BY <1>1 DEF Inv, PrunedForgotten, index, books, stored
<1>6. ChainReceived' /\ RecentKept'
  BY <1>1, <1>2 DEF Inv, ChainReceived, RecentKept, KeptFor, index, files, stored, aux
<1> QED
  BY <1>3, <1>4, <1>5, <1>6 DEF Inv

(* Steps that change neither the index, nor the files, nor the databases. *)
LEMMA OtherStepsInv ==
    ASSUME Inv, UpdateTip \/ SkipFlush
    PROVE  Inv'
<1>1. /\ UNCHANGED <<index, books, fCheckForPruning, files, stored, coins, setFilesToPrune, aux>>
      /\ tip' \in Block /\ pc' = "idle" /\ pc \in {"idle", "flush"}
  BY DEF Inv, TypeOK, UpdateTip, SkipFlush, chain
<1>2. TypeOK'
  BY <1>1 DEF Inv, TypeOK, index, books, files, stored, aux
<1>3. MemoryConsistent' /\ DiskConsistent' /\ Synced' /\ Grown' /\ BlocksReadable' /\ StoredIntact'
      /\ OthersCommitted' /\ UndoReadable' /\ StoredTipIndexed' /\ StoredKept'
  BY <1>1 DEF Inv, MemoryConsistent, DiskConsistent, Consistent, Synced, Grown, BlocksReadable, StoredIntact,
     OthersCommitted, UndoReadable, StoredTipIndexed, StoredKept, KeptFor, index, books, files, stored, aux
<1>4. PrunedForgotten'
  BY <1>1 DEF Inv, PrunedForgotten, index, books, stored
<1>5. ChainReceived' /\ RecentKept'
  BY <1>1 DEF Inv, ChainReceived, RecentKept, KeptFor, index, files, stored, aux
<1> QED
  BY <1>2, <1>3, <1>4, <1>5 DEF Inv

-----------------------------------------------------------------------------
(* After the write of the block index, disk and memory agree. *)
LEMMA FlushIndexMirrors ==
    ASSUME Inv, NEW S \in SUBSET Files,
           pos' = Pruned(pos, S), undoPos' = Pruned(undoPos, S), vinfoBlockFile' = InfoPruned(S),
           received' = received,
           WriteBatchSync(setDirtyBlockIndex \cup PrunedBlocks(S), setDirtyFileInfo \cup S)
    PROVE  disk' = [pos |-> pos', undoPos |-> undoPos', received |-> received',
                    info |-> vinfoBlockFile', last |-> nLastBlockFile]
<1> DEFINE D == setDirtyBlockIndex \cup PrunedBlocks(S)
<1>0. TypeOK
  BY DEF Inv
<1>1. \A b \in Block \ D : disk.pos[b] = pos'[b] /\ disk.undoPos[b] = undoPos'[b]
  BY DEF Inv, Synced, Pruned
<1>2. Written(pos', disk.pos, D) = pos'
  <2>1. \A b \in Block : Written(pos', disk.pos, D)[b] = pos'[b]
    BY <1>1 DEF Written
  <2> QED
    BY <2>1 DEF Written, Pruned
<1>3. Written(undoPos', disk.undoPos, D) = undoPos'
  <2>1. \A b \in Block : Written(undoPos', disk.undoPos, D)[b] = undoPos'[b]
    BY <1>1 DEF Written
  <2> QED
    BY <2>1 DEF Written, Pruned
<1>4. disk.received \cup (received \cap D) = received
  BY <1>0 DEF Inv, Synced, TypeOK
<1>5. [f \in Files |-> IF f \in setDirtyFileInfo \cup S THEN vinfoBlockFile'[f] ELSE disk.info[f]] = vinfoBlockFile'
  <2>1. \A f \in Files : f \notin setDirtyFileInfo \cup S => vinfoBlockFile'[f] = disk.info[f]
    BY DEF Inv, Synced, InfoPruned
  <2> QED
    BY <2>1 DEF InfoPruned
<1> QED
  BY <1>2, <1>3, <1>4, <1>5 DEF WriteBatchSync

LEMMA FlushIndexInv ==
    ASSUME Inv, FlushIndex
    PROVE  Inv'
<1> USE TreeAssumption, BoundAssumption
<1>1. PICK S \in FindFilesToPrune :
        /\ pos' = Pruned(pos, S) /\ undoPos' = Pruned(undoPos, S) /\ vinfoBlockFile' = InfoPruned(S)
        /\ FlushBlockFile
        /\ WriteBatchSync(setDirtyBlockIndex \cup PrunedBlocks(S), setDirtyFileInfo \cup S)
        /\ setDirtyBlockIndex' = {} /\ setDirtyFileInfo' = {} /\ setFilesToPrune' = S /\ pc' = "coins"
        /\ nPrunedFor' = (IF S = {} THEN nPrunedFor ELSE Larger(nPrunedFor, Height[tip]))
        /\ received' = received /\ nLastBlockFile' = nLastBlockFile /\ fCheckForPruning' = fCheckForPruning
        /\ blk' = blk /\ rev' = rev /\ storedTip' = storedTip /\ tip' = tip /\ coins' = coins
        /\ faults' = faults /\ powerFailed' = powerFailed
  BY DEF FlushIndex, chain
<1>2. /\ TypeOK /\ Height[tip] \in Nat /\ nPrunedFor \in Nat /\ MIN_BLOCKS_TO_KEEP \in Nat
      /\ Anc[coins] \subseteq Block /\ Anc[storedTip] \subseteq Block
  BY DEF Inv, TypeOK
<1>3. /\ S \subseteq Files
      /\ \A f \in S : vinfoBlockFile[f].nHeightLast <= Height[tip] - MIN_BLOCKS_TO_KEEP
  <2>1. CASE S = {}
    BY <2>1
  <2>2. CASE S # {}
    <3>1. /\ S \subseteq 0 .. nLastBlockFile - 1
          /\ \A f \in S : vinfoBlockFile[f].nSize # 0
          /\ \A f \in S : \A g \in 0 .. f : vinfoBlockFile[g].nSize # 0 => g \in S /\ MayPrune(g)
      BY <2>2, <1>1 DEF FindFilesToPrune
    <3>2. nLastBlockFile \in 0 .. LastFile
      BY <1>2 DEF TypeOK, Files
    <3>3. S \subseteq Files
      BY <3>1, <3>2 DEF Files
    <3>4. \A f \in S : f \in 0 .. f
      BY <3>3 DEF Files
    <3>5. \A f \in S : MayPrune(f)
      BY <3>1, <3>4
    <3> QED
      BY <3>3, <3>5 DEF MayPrune, nLastBlockWeMustKeep
  <2> QED
    BY <2>1, <2>2
<1>4. disk' = [pos |-> pos', undoPos |-> undoPos', received |-> received',
               info |-> vinfoBlockFile', last |-> nLastBlockFile]
  BY <1>1, <1>3, FlushIndexMirrors
<1>5. /\ disk'.pos = pos' /\ disk'.undoPos = undoPos' /\ disk'.received = received'
      /\ disk'.info = vinfoBlockFile'
  BY <1>4
<1>6. \A c \in Block : /\ pos'[c] # NoPos => pos'[c] = pos[c] /\ pos[c][1] \notin S
                       /\ undoPos'[c] # NoPos => undoPos'[c] = undoPos[c] /\ pos'[c] = pos[c]
  BY <1>1 DEF Pruned, PrunedBlocks, HaveData
<1>7. \A f \in Files \ S : vinfoBlockFile'[f] = vinfoBlockFile[f]
  BY <1>1 DEF InfoPruned
<1>8. TypeOK'
  <2>1. pos' \in Places /\ undoPos' \in Places
    BY <1>1, <1>2 DEF Pruned, TypeOK, Places
  <2>2. vinfoBlockFile' \in [Files -> Info]
    BY <1>1, <1>2, NullInfoInfo DEF InfoPruned, TypeOK
  <2>3. blkSafe' \in Contents /\ revSafe' \in Contents
    BY <1>1, <1>2 DEF FlushBlockFile, Committed, In, NotIn, TypeOK, Contents
  <2>4. disk' \in [pos : Places, undoPos : Places, received : SUBSET Block, info : [Files -> Info], last : Files]
    BY <2>1, <2>2, <1>1, <1>2, <1>4 DEF TypeOK
  <2>5. nPrunedFor' \in Nat
    BY <1>1, <1>2 DEF Larger
  <2> QED
    BY <2>1, <2>2, <2>3, <2>4, <2>5, <1>1, <1>2, <1>3 DEF TypeOK
<1>9. MemoryConsistent'
  <2>1. ASSUME NEW c \in Block, pos'[c] # NoPos
        PROVE  /\ pos'[c][2] < vinfoBlockFile'[pos'[c][1]].nSize
               /\ Height[c] <= vinfoBlockFile'[pos'[c][1]].nHeightLast
               /\ c \in received'
    <3>1. pos'[c] = pos[c] /\ pos[c] # NoPos /\ pos[c][1] \in Files \ S
      BY <2>1, <1>2, <1>6, Typed, PositionPair
    <3>2. vinfoBlockFile'[pos[c][1]] = vinfoBlockFile[pos[c][1]]
      BY <3>1, <1>7
    <3> QED
      BY <3>1, <3>2, <1>1 DEF Inv, MemoryConsistent, Consistent
  <2>2. ASSUME NEW c \in Block, undoPos'[c] # NoPos
        PROVE  /\ pos'[c] # NoPos
               /\ undoPos'[c][1] = pos'[c][1]
               /\ undoPos'[c][2] < vinfoBlockFile'[undoPos'[c][1]].nUndoSize
    <3>1. undoPos'[c] = undoPos[c] /\ undoPos[c] # NoPos /\ pos'[c] = pos[c]
      BY <2>2, <1>6
    <3>2. /\ pos[c] # NoPos /\ undoPos[c][1] = pos[c][1]
          /\ undoPos[c][2] < vinfoBlockFile[undoPos[c][1]].nUndoSize
      BY <3>1 DEF Inv, MemoryConsistent, Consistent
    <3>3. pos[c][1] \in Files \ S
      BY <3>1, <3>2, <1>2, <1>6, Typed, PositionPair
    <3>4. vinfoBlockFile'[pos[c][1]] = vinfoBlockFile[pos[c][1]]
      BY <3>3, <1>7
    <3> QED
      BY <3>1, <3>2, <3>4
  <2> QED
    BY <2>1, <2>2 DEF MemoryConsistent, Consistent
<1>10. DiskConsistent'
  BY <1>5, <1>9 DEF MemoryConsistent, DiskConsistent, Consistent
<1>11. Synced'
  BY <1>5 DEF Synced
<1>12. Grown'
  <2>1. \A f \in Files : vinfoBlockFile'[f] \in Info
    BY <1>8 DEF TypeOK
  <2> QED
    BY <2>1, <1>5 DEF Grown, Info
<1>13. \A c \in Block : pos'[c] # NoPos => Holds(blk', pos'[c], c)
  BY <1>1, <1>6 DEF Inv, BlocksReadable
<1>14. \A c \in Block : pos'[c] # NoPos => Holds(blkSafe', pos'[c], c)
  <2> SUFFICES ASSUME NEW c \in Block, pos'[c] # NoPos
               PROVE  Holds(blkSafe', pos'[c], c)
    OBVIOUS
  <2>1. pos'[c] = pos[c] /\ pos[c] # NoPos
    BY <1>6
  <2>2. pos[c] = <<pos[c][1], pos[c][2]>>
    BY <2>1, <1>2, Typed, PositionPair
  <2>3. /\ Holds(blk, pos[c], c)
        /\ pos[c][1] # nLastBlockFile => Holds(blkSafe, pos[c], c)
    BY <2>1 DEF Inv, BlocksReadable, OthersCommitted
  <2>4. blkSafe' = Committed(blkSafe, blk, nLastBlockFile)
    BY <1>1 DEF FlushBlockFile
  <2>5. Holds(Committed(blkSafe, blk, nLastBlockFile), <<pos[c][1], pos[c][2]>>, c)
    BY <2>2, <2>3, CommitKeeps
  <2> QED
    BY <2>1, <2>2, <2>4, <2>5
<1>15. BlocksReadable' /\ StoredIntact' /\ OthersCommitted'
  BY <1>5, <1>13, <1>14 DEF BlocksReadable, StoredIntact, OthersCommitted
<1>16. PrunedForgotten'
  BY <1>1, <1>5, <1>6 DEF PrunedForgotten
<1>17. UndoReadable'
  BY <1>1, <1>5, <1>6 DEF Inv, UndoReadable
<1>18. ChainReceived' /\ StoredTipIndexed'
  BY <1>1, <1>5 DEF Inv, Synced, ChainReceived, StoredTipIndexed
<1>19. /\ nPrunedFor' >= nPrunedFor /\ nPrunedFor' \in Nat
       /\ S # {} => nPrunedFor' >= Height[tip]
  BY <1>1, <1>2 DEF Larger
<1>20. ASSUME NEW c \in Block, Height[c] > nPrunedFor' - MIN_BLOCKS_TO_KEEP
       PROVE  Height[c] > nPrunedFor - MIN_BLOCKS_TO_KEEP /\ pos'[c] = pos[c] /\ undoPos'[c] = undoPos[c]
  <2>0. Height[c] \in Nat
    OBVIOUS
  <2>1. Height[c] > nPrunedFor - MIN_BLOCKS_TO_KEEP
    BY <2>0, <1>2, <1>19, <1>20
  <2>2. c \notin PrunedBlocks(S)
    <3> SUFFICES ASSUME pos[c] # NoPos, pos[c][1] \in S PROVE FALSE
      BY DEF PrunedBlocks, HaveData
    <3>1. Height[c] <= vinfoBlockFile[pos[c][1]].nHeightLast
      BY DEF Inv, MemoryConsistent, Consistent
    <3>2. vinfoBlockFile[pos[c][1]].nHeightLast <= Height[tip] - MIN_BLOCKS_TO_KEEP
      BY <1>3
    <3>3. vinfoBlockFile[pos[c][1]].nHeightLast \in Nat
      BY <1>2, <1>3 DEF TypeOK, Info
    <3>4. nPrunedFor' >= Height[tip]
      BY <1>19
    <3> QED
      BY <3>1, <3>2, <3>3, <3>4, <2>0, <1>2, <1>19, <1>20
  <2> QED
    BY <2>1, <2>2, <1>1 DEF Pruned
<1>21. RecentKept' /\ StoredKept'
  <2>1. ASSUME ~powerFailed PROVE KeptFor(coins, pos, undoPos)'
    BY <2>1, <1>1, <1>2, <1>20 DEF Inv, RecentKept, KeptFor
  <2>2. ASSUME ~powerFailed PROVE KeptFor(storedTip, pos, undoPos)'
    BY <2>2, <1>1, <1>2, <1>20 DEF Inv, StoredKept, KeptFor
  <2>3. ASSUME ~powerFailed PROVE KeptFor(storedTip, disk.pos, disk.undoPos)'
    BY <2>2, <2>3, <1>5 DEF KeptFor
  <2> QED
    BY <2>1, <2>2, <2>3, <1>1 DEF RecentKept, StoredKept
<1> QED
  BY <1>8, <1>9, <1>10, <1>11, <1>12, <1>15, <1>16, <1>17, <1>18, <1>21 DEF Inv

-----------------------------------------------------------------------------
LEMMA FlushCoinsInv ==
    ASSUME Inv, FlushCoins
    PROVE  Inv'
<1> USE TreeAssumption
<1>1. /\ pc = "coins" /\ storedTip' = coins /\ pc' \in {"idle", "unlink"}
      /\ setFilesToPrune # {} => pc' = "unlink"
      /\ UNCHANGED <<index, books, fCheckForPruning, files, disk, chain, setFilesToPrune, aux>>
  BY DEF FlushCoins
<1>2. setDirtyBlockIndex = {} /\ setDirtyFileInfo = {}
  BY <1>1 DEF Inv, PrunedForgotten
<1>3. TypeOK'
  BY <1>1 DEF Inv, TypeOK, index, books, files, chain, aux
<1>4. MemoryConsistent' /\ DiskConsistent' /\ Synced' /\ Grown' /\ BlocksReadable' /\ StoredIntact'
      /\ OthersCommitted' /\ UndoReadable'
  BY <1>1 DEF Inv, MemoryConsistent, DiskConsistent, Consistent, Synced, Grown, BlocksReadable, StoredIntact,
     OthersCommitted, UndoReadable, index, books, files, aux
<1>5. PrunedForgotten' /\ ChainReceived'
  BY <1>1, <1>2 DEF Inv, PrunedForgotten, ChainReceived, index, books, chain
<1>6. \A b \in Block : disk.pos[b] = pos[b] /\ disk.undoPos[b] = undoPos[b]
  BY <1>2 DEF Inv, Synced
<1>7. Anc[coins] \subseteq Block /\ received \subseteq disk.received
  BY <1>2 DEF Inv, Synced, TypeOK
<1>8. StoredTipIndexed'
  BY <1>1, <1>7 DEF Inv, StoredTipIndexed, ChainReceived
<1>9. RecentKept' /\ StoredKept'
  <2>1. ASSUME ~powerFailed PROVE KeptFor(coins, pos, undoPos)
    BY <2>1 DEF Inv, RecentKept
  <2>2. ASSUME ~powerFailed PROVE KeptFor(coins, disk.pos, disk.undoPos)
    BY <2>1, <2>2, <1>6, <1>7 DEF KeptFor
  <2> QED
    BY <2>1, <2>2, <1>1 DEF RecentKept, StoredKept, KeptFor, index, files, chain, aux
<1> QED
  BY <1>3, <1>4, <1>5, <1>8, <1>9 DEF Inv

LEMMA UnlinkInv ==
    ASSUME Inv, UnlinkPrunedFile
    PROVE  Inv'
<1> USE TreeAssumption
<1>1. PICK f \in setFilesToPrune :
        /\ blk' = NotIn(blk, {f}) /\ blkSafe' = NotIn(blkSafe, {f})
        /\ rev' = NotIn(rev, {f}) /\ revSafe' = NotIn(revSafe, {f})
        /\ setFilesToPrune' = setFilesToPrune \ {f}
  BY DEF UnlinkPrunedFile
<1>2. /\ pc = "unlink" /\ pc' \in {"idle", "unlink"} /\ fCheckForPruning' \in BOOLEAN
      /\ setFilesToPrune' # {} => pc' = "unlink"
      /\ pos' = pos /\ undoPos' = undoPos /\ received' = received /\ setDirtyBlockIndex' = setDirtyBlockIndex
      /\ vinfoBlockFile' = vinfoBlockFile /\ setDirtyFileInfo' = setDirtyFileInfo
      /\ nLastBlockFile' = nLastBlockFile /\ disk' = disk /\ storedTip' = storedTip
      /\ tip' = tip /\ coins' = coins
      /\ faults' = faults /\ powerFailed' = powerFailed /\ nPrunedFor' = nPrunedFor
  BY DEF UnlinkPrunedFile, index, books, stored, chain, aux, Inv, TypeOK
<1>3. TypeOK
  BY DEF Inv
<1>4. TypeOK'
  <2>1. blk' \in Contents /\ blkSafe' \in Contents /\ rev' \in Contents /\ revSafe' \in Contents
    BY <1>1, <1>3 DEF TypeOK, Contents, NotIn
  <2> QED
    BY <2>1, <1>1, <1>2, <1>3 DEF TypeOK
<1>5. MemoryConsistent' /\ DiskConsistent' /\ Synced' /\ Grown' /\ ChainReceived' /\ StoredTipIndexed'
  BY <1>2 DEF Inv, MemoryConsistent, DiskConsistent, Consistent, Synced, Grown, ChainReceived, StoredTipIndexed
<1>6. PrunedForgotten'
  BY <1>1, <1>2 DEF Inv, PrunedForgotten
(* Nothing refers to the file that goes. *)
<1>7. \A c \in Block : /\ pos[c] # NoPos => pos[c][1] # f
                       /\ disk.pos[c] # NoPos => disk.pos[c][1] # f
  BY <1>1 DEF Inv, PrunedForgotten
<1>8. \A c \in Block : /\ undoPos[c] # NoPos => undoPos[c][1] # f
                       /\ disk.undoPos[c] # NoPos => disk.undoPos[c][1] # f
  <2> SUFFICES ASSUME NEW c \in Block
               PROVE  /\ undoPos[c] # NoPos => undoPos[c][1] # f
                      /\ disk.undoPos[c] # NoPos => disk.undoPos[c][1] # f
    OBVIOUS
  <2>1. /\ undoPos[c] # NoPos => pos[c] # NoPos /\ undoPos[c][1] = pos[c][1]
        /\ disk.undoPos[c] # NoPos => disk.pos[c] # NoPos /\ disk.undoPos[c][1] = disk.pos[c][1]
    BY DEF Inv, MemoryConsistent, DiskConsistent, Consistent
  <2> QED
    BY <2>1, <1>7
<1>9. \A c \in Block : /\ pos[c] # NoPos => Holds(blk', pos[c], c)
                       /\ disk.pos[c] # NoPos => Holds(blk', disk.pos[c], c) /\ Holds(blkSafe', disk.pos[c], c)
                       /\ pos[c] # NoPos /\ pos[c][1] # nLastBlockFile => Holds(blkSafe', pos[c], c)
  <2> SUFFICES ASSUME NEW c \in Block
               PROVE  /\ pos[c] # NoPos => Holds(blk', pos[c], c)
                      /\ disk.pos[c] # NoPos => Holds(blk', disk.pos[c], c) /\ Holds(blkSafe', disk.pos[c], c)
                      /\ pos[c] # NoPos /\ pos[c][1] # nLastBlockFile => Holds(blkSafe', pos[c], c)
    OBVIOUS
  <2>1. /\ pos[c] # NoPos => Holds(blk, pos[c], c)
        /\ disk.pos[c] # NoPos => Holds(blk, disk.pos[c], c) /\ Holds(blkSafe, disk.pos[c], c)
        /\ pos[c] # NoPos /\ pos[c][1] # nLastBlockFile => Holds(blkSafe, pos[c], c)
    BY DEF Inv, BlocksReadable, StoredIntact, OthersCommitted
  <2>2. /\ pos[c] # NoPos => pos[c][1] \notin {f}
        /\ disk.pos[c] # NoPos => disk.pos[c][1] \notin {f}
    BY <1>7
  <2> QED
    BY <2>1, <2>2, <1>1, RemoveKeeps
<1>10. BlocksReadable' /\ StoredIntact' /\ OthersCommitted'
  BY <1>2, <1>9 DEF BlocksReadable, StoredIntact, OthersCommitted
<1>11. ASSUME ~powerFailed
       PROVE  \A c \in Block : /\ undoPos[c] # NoPos => Holds(rev', undoPos[c], c)
                               /\ disk.undoPos[c] # NoPos => Holds(rev', disk.undoPos[c], c)
  <2> SUFFICES ASSUME NEW c \in Block
               PROVE  /\ undoPos[c] # NoPos => Holds(rev', undoPos[c], c)
                      /\ disk.undoPos[c] # NoPos => Holds(rev', disk.undoPos[c], c)
    OBVIOUS
  <2>1. /\ undoPos[c] # NoPos => Holds(rev, undoPos[c], c)
        /\ disk.undoPos[c] # NoPos => Holds(rev, disk.undoPos[c], c)
    BY <1>11 DEF Inv, UndoReadable
  <2>2. /\ undoPos[c] # NoPos => undoPos[c][1] \notin {f}
        /\ disk.undoPos[c] # NoPos => disk.undoPos[c][1] \notin {f}
    BY <1>8
  <2> QED
    BY <2>1, <2>2, <1>1, RemoveKeeps
<1>12. UndoReadable'
  BY <1>2, <1>11 DEF UndoReadable
<1>13. RecentKept' /\ StoredKept'
  <2>1. Anc[coins] \subseteq Block /\ Anc[storedTip] \subseteq Block
    BY <1>3 DEF TypeOK
  <2>2. ASSUME ~powerFailed PROVE KeptFor(coins, pos, undoPos)'
    BY <2>1, <2>2, <1>2, <1>9, <1>11 DEF Inv, RecentKept, KeptFor
  <2>3. ASSUME ~powerFailed PROVE KeptFor(storedTip, disk.pos, disk.undoPos)'
    BY <2>1, <2>3, <1>2, <1>9, <1>11 DEF Inv, RecentKept, KeptFor
  <2>4. ASSUME ~powerFailed PROVE KeptFor(storedTip, pos, undoPos)'
    BY <2>1, <2>4, <1>2, <1>9, <1>11 DEF Inv, StoredKept, KeptFor
  <2> QED
    BY <2>2, <2>3, <2>4, <1>2 DEF RecentKept, StoredKept
<1> QED
  BY <1>4, <1>5, <1>6, <1>10, <1>12, <1>13 DEF Inv

-----------------------------------------------------------------------------
(* Start-up: memory becomes what the databases hold. *)
LEMMA LoadInv ==
    ASSUME Inv, NEW blkFiles \in Contents, NEW revFiles \in Contents,
           Load(storedTip, blkFiles, revFiles),
           blkSafe' \in Contents, revSafe' \in Contents,
           storedTip' = storedTip, nPrunedFor' = nPrunedFor, faults' \in Nat, powerFailed' \in BOOLEAN,
           \A b \in Block : disk.pos[b] # NoPos => Holds(blkFiles, disk.pos[b], b) /\ Holds(blkSafe', disk.pos[b], b),
           ~powerFailed' => ~powerFailed /\ blkFiles = blk /\ revFiles = rev
    PROVE  Inv'
<1> USE TreeAssumption
<1>1. /\ pos' = disk.pos /\ undoPos' = disk.undoPos /\ received' = disk.received /\ setDirtyBlockIndex' = {}
      /\ vinfoBlockFile' = disk.info /\ setDirtyFileInfo' = {} /\ nLastBlockFile' = disk.last
      /\ blk' = blkFiles /\ rev' = revFiles /\ tip' = storedTip /\ coins' = storedTip
      /\ fCheckForPruning' = TRUE /\ setFilesToPrune' = {} /\ pc' \in {"flush", "down"} /\ disk' = disk
  BY DEF Load
<1>2. TypeOK
  BY DEF Inv
<1>3. TypeOK'
  BY <1>1, <1>2 DEF TypeOK
<1>4. MemoryConsistent' /\ DiskConsistent' /\ Synced'
  BY <1>1 DEF Inv, MemoryConsistent, DiskConsistent, Consistent, Synced
<1>5. Grown'
  <2>1. \A f \in Files : disk.info[f] \in Info
    BY <1>2 DEF TypeOK
  <2> QED
    BY <2>1, <1>1 DEF Grown, Info
<1>6. BlocksReadable' /\ StoredIntact' /\ OthersCommitted'
  BY <1>1 DEF BlocksReadable, StoredIntact, OthersCommitted
<1>7. PrunedForgotten' /\ ChainReceived' /\ StoredTipIndexed'
  BY <1>1 DEF Inv, PrunedForgotten, ChainReceived, StoredTipIndexed
<1>8. UndoReadable'
  BY <1>1 DEF Inv, UndoReadable
<1>9. RecentKept' /\ StoredKept'
  BY <1>1 DEF Inv, RecentKept, StoredKept, KeptFor
<1> QED
  BY <1>3, <1>4, <1>5, <1>6, <1>7, <1>8, <1>9 DEF Inv

LEMMA FaultInv ==
    ASSUME Inv, Restart \/ PowerLoss
    PROVE  Inv'
<1>1. TypeOK /\ \A b \in Block : disk.pos[b] # NoPos =>
                   /\ Holds(blk, disk.pos[b], b) /\ Holds(blkSafe, disk.pos[b], b)
                   /\ disk.pos[b] = <<disk.pos[b][1], disk.pos[b][2]>>
  BY Typed, PositionPair DEF Inv, BlocksReadable, StoredIntact
<1>2. CASE Restart
  <2>1. blk \in Contents /\ rev \in Contents /\ blkSafe' = blkSafe /\ revSafe' = revSafe
        /\ blkSafe \in Contents /\ revSafe \in Contents
    BY <1>1, <1>2 DEF TypeOK, Restart
  <2>2. Load(storedTip, blk, rev) /\ storedTip' = storedTip /\ nPrunedFor' = nPrunedFor
        /\ faults' \in Nat /\ powerFailed' = powerFailed /\ powerFailed \in BOOLEAN
    BY <1>1, <1>2 DEF TypeOK, Restart
  <2> QED
    BY <2>1, <2>2, <1>1, LoadInv
<1>3. CASE PowerLoss
  <2>1. PICK lost \in SUBSET Files :
          /\ Load(storedTip, AfterPowerLoss(blk, blkSafe, lost), AfterPowerLoss(rev, revSafe, lost))
          /\ blkSafe' = AfterPowerLoss(blk, blkSafe, lost)
          /\ revSafe' = AfterPowerLoss(rev, revSafe, lost)
    BY <1>3 DEF PowerLoss
  <2> DEFINE B == AfterPowerLoss(blk, blkSafe, lost)
             R == AfterPowerLoss(rev, revSafe, lost)
  <2>2. B \in Contents /\ R \in Contents
    BY <1>1 DEF TypeOK, Contents, AfterPowerLoss, In, NotIn
  <2>3. \A b \in Block : disk.pos[b] # NoPos => Holds(B, disk.pos[b], b)
    <3> SUFFICES ASSUME NEW b \in Block, disk.pos[b] # NoPos
                 PROVE  Holds(B, disk.pos[b], b)
      OBVIOUS
    <3>1. Holds(blk, <<disk.pos[b][1], disk.pos[b][2]>>, b) /\ Holds(blkSafe, <<disk.pos[b][1], disk.pos[b][2]>>, b)
      BY <1>1
    <3>2. Holds(B, <<disk.pos[b][1], disk.pos[b][2]>>, b)
      BY <3>1, PowerLossKeeps
    <3> QED
      BY <3>2, <1>1
  <2>4. storedTip' = storedTip /\ nPrunedFor' = nPrunedFor /\ faults' \in Nat /\ powerFailed' = TRUE
    BY <1>1, <1>3 DEF TypeOK, PowerLoss
  <2> HIDE DEF B, R
  <2>5. Load(storedTip, B, R) /\ blkSafe' = B /\ revSafe' = R
    BY <2>1 DEF B, R
  <2> QED
    BY <2>2, <2>3, <2>4, <2>5, LoadInv
<1> QED
  BY <1>2, <1>3

-----------------------------------------------------------------------------
LEMMA NextInv == Inv /\ [Next]_vars => Inv'
<1> SUFFICES ASSUME Inv, [Next]_vars PROVE Inv'
  OBVIOUS
<1>1. CASE UNCHANGED vars
  BY <1>1 DEF vars, index, books, files, stored, chain, aux, Inv, TypeOK, MemoryConsistent, DiskConsistent,
     Consistent, Synced, Grown, BlocksReadable, StoredIntact, OthersCommitted, PrunedForgotten, UndoReadable,
     ChainReceived, StoredTipIndexed, RecentKept, StoredKept, KeptFor
<1>2. ASSUME NEW b \in Block, AcceptBlock(b) \/ ConnectTip(b) PROVE Inv'
  BY <1>2, AcceptBlockInv, ConnectTipInv
<1>3. CASE DisconnectTip \/ UpdateTip \/ SkipFlush
  BY <1>3, DisconnectTipInv, OtherStepsInv
<1>4. CASE FlushIndex \/ FlushCoins \/ UnlinkPrunedFile
  BY <1>4, FlushIndexInv, FlushCoinsInv, UnlinkInv
<1>5. CASE Restart \/ PowerLoss
  BY <1>5, FaultInv
<1>6. CASE StartAgain
  BY <1>1, <1>6 DEF StartAgain
<1> QED
  BY <1>1, <1>2, <1>3, <1>4, <1>5, <1>6 DEF Next

(* The inductive invariant: the index in memory, the stored index and the  *)
(* files agree, for any block tree, any sizes and any faults.              *)
THEOREM Invariance == Spec => []Inv
BY InitInv, NextInv, PTL DEF Spec

(* Every block the index says it has is in its file, and what the stored   *)
(* index says is committed: for any sizes and any faults (FindBlockPos,    *)
(* FlushStateToDisk, UnlinkPrunedFiles).                                   *)
THEOREM BlocksAlwaysReadable == Spec => []BlocksReadable
<1>1. Inv => BlocksReadable
  BY DEF Inv
<1> QED
  BY <1>1, Invariance, PTL

(* Undo data that the index refers to is in its file until the power fails *)
(* (FindUndoPos, UndoWriteToDisk).                                         *)
THEOREM UndoAlwaysReadable == Spec => []UndoReadable
<1>1. Inv => UndoReadable
  BY DEF Inv
<1> QED
  BY <1>1, Invariance, PTL

(* The stored index knows the chain of the coin database at every moment   *)
(* at which the process can die (FlushStateToDisk).                        *)
THEOREM StoredTipAlwaysIndexed == Spec => []StoredTipIndexed
<1>1. Inv => StoredTipIndexed
  BY DEF Inv
<1> QED
  BY <1>1, Invariance, PTL

(* Pruning leaves the last MIN_BLOCKS_TO_KEEP blocks of both chains with   *)
(* their data and undo data (FindFilesToPrune, PruneOneBlockFile).         *)
THEOREM RecentAlwaysKept == Spec => []RecentKept
<1>1. Inv => RecentKept
  BY DEF Inv
<1> QED
  BY <1>1, Invariance, PTL

=============================================================================
