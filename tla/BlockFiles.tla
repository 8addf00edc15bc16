----------------------------- MODULE BlockFiles -----------------------------
(***************************************************************************)
(* The block and undo files of the node (blk?????.dat and rev?????.dat),   *)
(* the part of the block index that refers to them, FlushStateToDisk and   *)
(* pruning.                                                                *)
(*                                                                         *)
(* A block and its undo data take one unit of their file, so that a        *)
(* position is <<nFile, nPos>> with nPos counting units.  BLOCK_HAVE_DATA  *)
(* is "pos[b] is not NoPos", BLOCK_HAVE_UNDO "undoPos[b] is not NoPos".    *)
(* Which chain is best is the business of module BlockIndex: here any      *)
(* block with data may be connected and the tip may be disconnected.       *)
(*                                                                         *)
(* Two faults: the process is killed, which loses its memory but not what  *)
(* it gave to the operating system, and the power fails, which also loses  *)
(* what was not committed with FileCommit.  The databases keep what they   *)
(* were given: the batches of the index are written with the sync option;  *)
(* those of the coins are not, but an older best block than the stored one *)
(* is always one that an older index knew.                                 *)
(***************************************************************************)
EXTENDS Integers, FiniteSets

CONSTANTS Block,              \* all blocks
          Genesis,            \* the genesis block
          Parent,             \* pprev
          Anc,                \* a block with its ancestors
          Height,             \* nHeight
          MAX_BLOCKFILE_SIZE, \* in units
          BLOCKFILE_CHUNK_SIZE, UNDOFILE_CHUNK_SIZE,
          MIN_BLOCKS_TO_KEEP,
          PruneAfterHeight,   \* of the chain parameters
          CheckBlocks,        \* -checkblocks, the depth of VerifyDB
          LastFile,           \* bound: files are numbered 0 .. LastFile
          MaxAhead,           \* bound: how far above the tip blocks arrive
          MaxFaults           \* bound: faults of a behaviour

Files == 0 .. LastFile
Positions == Files \X Nat
NoPos == <<-1, 0>>

ASSUME TreeAssumption ==
    /\ Genesis \in Block
    /\ Parent \in [Block -> Block]
    /\ Anc \in [Block -> SUBSET Block]
    /\ Anc[Genesis] = {Genesis}
    /\ \A b \in Block \ {Genesis} : Anc[b] = {b} \cup Anc[Parent[b]]
    /\ Height \in [Block -> Nat]

ASSUME BoundAssumption ==
    /\ MAX_BLOCKFILE_SIZE \in Nat /\ MAX_BLOCKFILE_SIZE > 2
    /\ BLOCKFILE_CHUNK_SIZE \in Nat \ {0} /\ UNDOFILE_CHUNK_SIZE \in Nat \ {0}
    /\ MIN_BLOCKS_TO_KEEP \in Nat
    /\ PruneAfterHeight \in Nat /\ PruneAfterHeight >= MIN_BLOCKS_TO_KEEP
    /\ CheckBlocks \in Nat
    /\ LastFile \in Nat
    /\ MaxAhead \in Nat
    /\ MaxFaults \in Nat

VARIABLES
  \* mapBlockIndex, as far as the files go
    pos,                  \* nFile, nDataPos with BLOCK_HAVE_DATA
    undoPos,              \* nFile, nUndoPos with BLOCK_HAVE_UNDO
    received,             \* the blocks with nTx > 0
    setDirtyBlockIndex,
  \* the files' bookkeeping
    vinfoBlockFile, setDirtyFileInfo, nLastBlockFile,
    fCheckForPruning,
  \* the block index database
    disk,
  \* what the files hold: in the operating system, and committed
    blk, blkSafe, rev, revSafe,
  \* the chain
    tip,                  \* chainActive.Tip()
    coins,                \* the best block of pcoinsTip
    storedTip,            \* the best block of the coin database
  \* FlushStateToDisk
    pc,                   \* "idle", "flush" (about to be called), "coins", "unlink",
                          \* "abort" (shutting down after a failed write) or "down"
    setFilesToPrune,
  \* auxiliary
    faults,               \* number of faults so far
    powerFailed,          \* the power has failed
    nPrunedFor            \* the height of the highest tip for which files were pruned

index == <<pos, undoPos, received, setDirtyBlockIndex>>
books == <<vinfoBlockFile, setDirtyFileInfo, nLastBlockFile>>
files == <<blk, blkSafe, rev, revSafe>>
stored == <<disk, storedTip>>
chain == <<tip, coins>>
aux == <<faults, powerFailed, nPrunedFor>>
vars == <<index, books, fCheckForPruning, files, stored, chain, pc, setFilesToPrune, aux>>

-----------------------------------------------------------------------------
(* CBlockFileInfo *)

NullInfo == [nSize |-> 0, nUndoSize |-> 0, nHeightLast |-> 0]

Larger(a, b) == IF a > b THEN a ELSE b

WithBlockLast(info, h) ==
    [nSize |-> info.nSize + 1, nUndoSize |-> info.nUndoSize, nHeightLast |-> h]
WithBlock(info, h) ==
    [nSize |-> info.nSize + 1, nUndoSize |-> info.nUndoSize, nHeightLast |-> Larger(info.nHeightLast, h)]

WithUndo(info) ==
    [nSize |-> info.nSize, nUndoSize |-> info.nUndoSize + 1, nHeightLast |-> info.nHeightLast]

(* The content of the files is a set of pairs <<position, block>>, at most *)
(* one for a position.                                                     *)
Holds(content, p, b) == <<p, b>> \in content

In(content, S) == {x \in content : x[1][1] \in S}
NotIn(content, S) == {x \in content : x[1][1] \notin S}

WriteAt(content, p, b) == {x \in content : x[1] # p} \cup {<<p, b>>}

(* FileCommit of file f. *)
Committed(safe, content, f) == NotIn(safe, {f}) \cup In(content, {f})

(* A new data directory, after InitBlockIndex has stored the genesis block. *)
Init ==
    /\ pos = [b \in Block |-> IF b = Genesis THEN <<0, 0>> ELSE NoPos]
    /\ undoPos = [b \in Block |-> NoPos]
    /\ received = {Genesis}
    /\ setDirtyBlockIndex = {}
    /\ vinfoBlockFile = [f \in Files |-> IF f = 0 THEN WithBlock(NullInfo, Height[Genesis]) ELSE NullInfo]
    /\ setDirtyFileInfo = {}
    /\ nLastBlockFile = 0
    /\ fCheckForPruning = FALSE
    /\ disk = [pos |-> pos, undoPos |-> undoPos, received |-> received,
               info |-> vinfoBlockFile, last |-> nLastBlockFile]
    /\ blk = {<<<<0, 0>>, Genesis>>}
    /\ blkSafe = blk
    /\ rev = {}
    /\ revSafe = {}
    /\ tip = Genesis
    /\ coins = Genesis
    /\ storedTip = Genesis
    /\ pc = "idle"
    /\ setFilesToPrune = {}
    /\ faults = 0
    /\ powerFailed = FALSE
    /\ nPrunedFor = 0

-----------------------------------------------------------------------------
(* Storing a block *)

HaveData(b) == pos[b] # NoPos
HaveUndo(b) == undoPos[b] # NoPos

HasRoom(f) == vinfoBlockFile[f].nSize + 1 < MAX_BLOCKFILE_SIZE

(* The file FindBlockPos ends in: the first one with room, from the last file on. *)
IsNextFile(f) ==
    /\ f >= nLastBlockFile
    /\ HasRoom(f)
    /\ \A g \in nLastBlockFile .. f - 1 : ~HasRoom(g)

(* Leaving a file commits it; the file left is nLastBlockFile. *)
NotCommittedOnLeaving(safe, content, f) == safe
CommittedOnLeaving(safe, content, f) ==
    IF f = nLastBlockFile THEN safe ELSE Committed(safe, content, nLastBlockFile)

(* Whether writing at nPos reaches into a chunk that is not allocated yet. *)
NeedsChunk(nPos, nChunk) == nPos % nChunk = 0

DirtyFilesWithout(f) == setDirtyFileInfo
DirtyFilesWith(f) == setDirtyFileInfo \cup {f}

NotDirtied(b) == setDirtyBlockIndex
DirtyWith(b) == setDirtyBlockIndex \cup {b}

(* AcceptBlock of a block that passes the checks, with FindBlockPos,       *)
(* WriteBlockToDisk and ReceivedBlockTransactions.  A new chunk of the     *)
(* file asks for a look at pruning.                                        *)
AcceptBlock(b) ==
    /\ pc = "idle" /\ tip = coins
    /\ ~HaveData(b) /\ b \notin Anc[tip]
    /\ Height[b] <= Height[tip] + MaxAhead
    /\ \E f \in Files :
          LET p == <<f, vinfoBlockFile[f].nSize>>
          IN  /\ IsNextFile(f)
              /\ pos' = [pos EXCEPT ![b] = p]
              /\ received' = received \cup {b}
              /\ setDirtyBlockIndex' = DirtyWith(b)
              /\ vinfoBlockFile' = [vinfoBlockFile EXCEPT ![f] = WithBlock(@, Height[b])]
              /\ setDirtyFileInfo' = DirtyFilesWith(f)
              /\ nLastBlockFile' = f
              /\ blk' = WriteAt(blk, p, b)
              /\ blkSafe' = CommittedOnLeaving(blkSafe, blk, f)
              /\ revSafe' = CommittedOnLeaving(revSafe, rev, f)
              /\ fCheckForPruning' = (fCheckForPruning \/ NeedsChunk(p[2], BLOCKFILE_CHUNK_SIZE))
              /\ pc' = IF fCheckForPruning' THEN "flush" ELSE "idle"
    /\ UNCHANGED <<undoPos, rev, stored, chain, setFilesToPrune, aux>>

-----------------------------------------------------------------------------
(* Moving the tip *)

Readable(b) == HaveData(b) /\ Holds(blk, pos[b], b)
UndoReadableOf(b) == HaveUndo(b) /\ Holds(rev, undoPos[b], b)

(* ConnectTip up to the flush: the undo data goes to the file of the block, *)
(* which need not be the last one.                                          *)
ConnectTip(b) ==
    /\ pc = "idle" /\ tip = coins
    /\ b # Genesis /\ Parent[b] = tip /\ Readable(b)
    /\ \/ /\ ~HaveUndo(b)
          /\ LET f == pos[b][1]
                 p == <<f, vinfoBlockFile[f].nUndoSize>>
             IN  /\ undoPos' = [undoPos EXCEPT ![b] = p]
                 /\ vinfoBlockFile' = [vinfoBlockFile EXCEPT ![f] = WithUndo(@)]
                 /\ setDirtyFileInfo' = DirtyFilesWith(f)
                 /\ rev' = WriteAt(rev, p, b)
                 /\ fCheckForPruning' = (fCheckForPruning \/ NeedsChunk(p[2], UNDOFILE_CHUNK_SIZE))
          /\ setDirtyBlockIndex' = DirtyWith(b)
       \/ /\ HaveUndo(b)
          /\ UNCHANGED <<undoPos, vinfoBlockFile, setDirtyFileInfo, rev, fCheckForPruning, setDirtyBlockIndex>>
    /\ coins' = b
    /\ pc' = "flush"
    /\ UNCHANGED <<pos, received, nLastBlockFile, blk, blkSafe, revSafe, stored, tip, setFilesToPrune, aux>>

(* DisconnectTip up to the flush.  Without the block or its undo data it   *)
(* fails, which ends in a shutdown and changes nothing here.               *)
DisconnectTip ==
    /\ pc = "idle" /\ tip = coins
    /\ tip # Genesis /\ Readable(tip) /\ UndoReadableOf(tip)
    /\ coins' = Parent[tip]
    /\ pc' = "flush"
    /\ UNCHANGED <<index, books, fCheckForPruning, files, stored, tip, setFilesToPrune, aux>>

(* The end of ConnectTip and of DisconnectTip, after the flush. *)
UpdateTip ==
    /\ pc = "idle" /\ tip # coins
    /\ tip' = coins
    /\ UNCHANGED <<index, books, fCheckForPruning, files, stored, coins, pc, setFilesToPrune, aux>>

-----------------------------------------------------------------------------
(* FlushStateToDisk *)

nLastBlockWeMustKeep == Height[tip] - MIN_BLOCKS_TO_KEEP

MayPrune(f) == vinfoBlockFile[f].nHeightLast <= nLastBlockWeMustKeep

(* FindFilesToPrune: the used files from the first one on, until one has   *)
(* to stay or the usage is under the target (the target is abstracted to   *)
(* the choice of where to stop).                                           *)
FindFilesToPrune ==
    IF fCheckForPruning /\ Height[tip] > PruneAfterHeight
    THEN {S \in SUBSET (0 .. nLastBlockFile - 1) :
            /\ \A f \in S : vinfoBlockFile[f].nSize # 0
            /\ \A f \in S : \A g \in 0 .. f : vinfoBlockFile[g].nSize # 0 => g \in S /\ MayPrune(g)}
    ELSE {{}}

(* FlushStateToDisk up to the write of the block index: PruneOneBlockFile  *)
(* for each file, FlushBlockFile, WriteBatchSync.  It is called with mode  *)
(* NONE by AcceptBlock and at start-up, where only files to prune make it  *)
(* write; with mode IF_NEEDED while the tip moves; periodically or at      *)
(* shutdown when nothing else goes on.                                     *)
PrunedBlocks(S) == {b \in Block : HaveData(b) /\ pos[b][1] \in S}

Pruned(position, S) == [b \in Block |-> IF b \in PrunedBlocks(S) THEN NoPos ELSE position[b]]

InfoPruned(S) == [f \in Files |-> IF f \in S THEN NullInfo ELSE vinfoBlockFile[f]]

FlushBlockFile ==
    /\ blkSafe' = Committed(blkSafe, blk, nLastBlockFile)
    /\ revSafe' = Committed(revSafe, rev, nLastBlockFile)

(* The stored index after the dirty entries have been written. *)
Written(position, old, dirty) == [b \in Block |-> IF b \in dirty THEN position[b] ELSE old[b]]

WriteBatchSync(dirty, dirtyFiles) ==
    disk' = [pos |-> Written(pos', disk.pos, dirty),
             undoPos |-> Written(undoPos', disk.undoPos, dirty),
             received |-> disk.received \cup (received \cap dirty),
             info |-> [f \in Files |-> IF f \in dirtyFiles THEN vinfoBlockFile'[f] ELSE disk.info[f]],
             last |-> nLastBlockFile]

MayFlush(S) ==
    \/ pc = "idle" /\ tip = coins
    \/ pc = "abort"
    \/ pc = "flush" /\ (S # {} \/ tip # coins)

FlushIndex ==
    \E S \in FindFilesToPrune :
       /\ MayFlush(S)
       /\ pos' = Pruned(pos, S)
       /\ undoPos' = Pruned(undoPos, S)
       /\ vinfoBlockFile' = InfoPruned(S)
       /\ FlushBlockFile
       /\ WriteBatchSync(setDirtyBlockIndex \cup PrunedBlocks(S), setDirtyFileInfo \cup S)
       /\ setDirtyBlockIndex' = {}
       /\ setDirtyFileInfo' = {}
       /\ setFilesToPrune' = S
       /\ pc' = "coins"
       /\ nPrunedFor' = IF S = {} THEN nPrunedFor ELSE Larger(nPrunedFor, Height[tip])
       /\ UNCHANGED <<received, nLastBlockFile, fCheckForPruning, blk, rev, storedTip, chain,
                      faults, powerFailed>>

(* Nothing to write. *)
SkipFlush ==
    /\ pc = "flush"
    /\ pc' = "idle"
    /\ UNCHANGED <<index, books, fCheckForPruning, files, stored, chain, setFilesToPrune, aux>>

(* pcoinsTip->Flush(). *)
FlushCoins ==
    /\ pc = "coins"
    /\ storedTip' = coins
    /\ pc' = IF setFilesToPrune = {} THEN "idle" ELSE "unlink"
    /\ UNCHANGED <<index, books, fCheckForPruning, files, disk, chain, setFilesToPrune, aux>>

(* One turn of UnlinkPrunedFiles. *)
UnlinkPrunedFile ==
    /\ pc = "unlink"
    /\ \E f \in setFilesToPrune :
          /\ \A g \in setFilesToPrune : f <= g
          /\ blk' = NotIn(blk, {f})
          /\ blkSafe' = NotIn(blkSafe, {f})
          /\ rev' = NotIn(rev, {f})
          /\ revSafe' = NotIn(revSafe, {f})
          /\ setFilesToPrune' = setFilesToPrune \ {f}
    /\ IF setFilesToPrune' = {}
       THEN pc' = "idle" /\ fCheckForPruning' = FALSE
       ELSE UNCHANGED <<pc, fCheckForPruning>>
    /\ UNCHANGED <<index, books, stored, chain, aux>>

-----------------------------------------------------------------------------
(* Faults and start-up *)

(* VerifyDB at its default level of 3: it reads the last blocks of the     *)
(* chain and their undo data.                                              *)
ToVerify(t) ==
    {b \in Anc[t] \ {Genesis} : CheckBlocks = 0 \/ Height[b] >= Height[t] - CheckBlocks}

VerifyDB(t, position, undoPosition, blkFiles, revFiles) ==
    \A b \in ToVerify(t) :
       /\ position[b] # NoPos /\ Holds(blkFiles, position[b], b)
       /\ undoPosition[b] # NoPos /\ Holds(revFiles, undoPosition[b], b)

(* LoadBlockIndexDB, VerifyDB and PruneAndFlush, from the stored best block *)
(* t and the files as they are found.  A node that does not start is down.  *)
Load(t, blkFiles, revFiles) ==
    /\ pos' = disk.pos
    /\ undoPos' = disk.undoPos
    /\ received' = disk.received
    /\ setDirtyBlockIndex' = {}
    /\ vinfoBlockFile' = disk.info
    /\ setDirtyFileInfo' = {}
    /\ nLastBlockFile' = disk.last
    /\ blk' = blkFiles
    /\ rev' = revFiles
    /\ tip' = t
    /\ coins' = t
    /\ fCheckForPruning' = TRUE
    /\ setFilesToPrune' = {}
    /\ pc' = IF VerifyDB(t, disk.pos, disk.undoPos, blkFiles, revFiles) THEN "flush" ELSE "down"
    /\ UNCHANGED disk

(* The process is killed, or ends, and is started again. *)
Restart ==
    /\ faults < MaxFaults
    /\ faults' = faults + 1
    /\ Load(storedTip, blk, rev)
    /\ UNCHANGED <<powerFailed, nPrunedFor, blkSafe, revSafe, storedTip>>

(* The power fails: any of the files may lose what was not committed. *)
AfterPowerLoss(content, safe, lost) == NotIn(content, lost) \cup In(safe, lost)

PowerLoss ==
    /\ faults < MaxFaults
    /\ faults' = faults + 1
    /\ powerFailed' = TRUE
    /\ \E lost \in SUBSET Files :
          LET blkFiles == AfterPowerLoss(blk, blkSafe, lost)
              revFiles == AfterPowerLoss(rev, revSafe, lost)
          IN  /\ Load(storedTip, blkFiles, revFiles)
              /\ blkSafe' = blkFiles
              /\ revSafe' = revFiles
    /\ UNCHANGED <<nPrunedFor, storedTip>>

(* The operator starts a node that is down once more, in vain. *)
StartAgain ==
    /\ pc = "down"
    /\ UNCHANGED vars

Next ==
    \/ \E b \in Block : AcceptBlock(b) \/ ConnectTip(b)
    \/ DisconnectTip \/ UpdateTip
    \/ FlushIndex \/ SkipFlush \/ FlushCoins \/ UnlinkPrunedFile
    \/ Restart \/ PowerLoss \/ StartAgain

Spec == Init /\ [][Next]_vars

(* The write of the block index fails: both dirty sets are empty by then.  *)
(* AbortNode asks for a shutdown, whose flush is tried in any case.        *)
FlushIndexFails ==
    \E S \in FindFilesToPrune :
       /\ MayFlush(S)
       /\ pos' = Pruned(pos, S)
       /\ undoPos' = Pruned(undoPos, S)
       /\ vinfoBlockFile' = InfoPruned(S)
       /\ FlushBlockFile
       /\ setDirtyBlockIndex' = {}
       /\ setDirtyFileInfo' = {}
       /\ pc' = "abort"
       /\ nPrunedFor' = IF S = {} THEN nPrunedFor ELSE Larger(nPrunedFor, Height[tip])
       /\ UNCHANGED <<received, nLastBlockFile, fCheckForPruning, blk, rev, stored, chain, setFilesToPrune,
                      faults, powerFailed>>

FaultySpec == Init /\ [][Next \/ FlushIndexFails]_vars

-----------------------------------------------------------------------------
(* Properties *)

Places == [Block -> Positions \cup {NoPos}]
Info == [nSize : Nat, nUndoSize : Nat, nHeightLast : Nat]
Contents == SUBSET (Positions \X Block)

TypeOK ==
    /\ pos \in Places /\ undoPos \in Places
    /\ received \in SUBSET Block /\ setDirtyBlockIndex \in SUBSET Block
    /\ vinfoBlockFile \in [Files -> Info]
    /\ setDirtyFileInfo \in SUBSET Files /\ nLastBlockFile \in Files
    /\ fCheckForPruning \in BOOLEAN
    /\ disk \in [pos : Places, undoPos : Places, received : SUBSET Block, info : [Files -> Info], last : Files]
    /\ blk \in Contents /\ blkSafe \in Contents /\ rev \in Contents /\ revSafe \in Contents
    /\ tip \in Block /\ coins \in Block /\ storedTip \in Block
    /\ pc \in {"idle", "flush", "coins", "unlink", "abort", "down"}
    /\ setFilesToPrune \in SUBSET Files
    /\ faults \in Nat /\ powerFailed \in BOOLEAN /\ nPrunedFor \in Nat

(* Every block the index says it has is at its place in its file, and the  *)
(* one the stored index says it has is there in what was committed, so     *)
(* that neither a kill nor a power failure at this moment loses it: a      *)
(* rolled-over file is committed in time, a restart with an older nSize    *)
(* overwrites only what the index never knew, and a pruned file is         *)
(* forgotten on disk before it is removed (AcceptBlock, FindBlockPos,      *)
(* FlushStateToDisk, UnlinkPrunedFiles).                                   *)
BlocksReadable ==
    \A b \in Block :
       /\ pos[b] # NoPos => Holds(blk, pos[b], b)
       /\ disk.pos[b] # NoPos => Holds(blkSafe, disk.pos[b], b)

(* The same of undo data, but only while the power has not failed: undo    *)
(* data appended to a file that is not the last one is never committed     *)
(* (ConnectBlock, FindUndoPos, FlushBlockFile).                            *)
UndoReadable ==
    ~powerFailed => \A b \in Block :
       /\ undoPos[b] # NoPos => Holds(rev, undoPos[b], b)
       /\ disk.undoPos[b] # NoPos => Holds(rev, disk.undoPos[b], b)

(* The stored index knows the best block of the coin database and all its  *)
(* ancestors as received, so that LoadBlockIndexDB finds a linked chain    *)
(* for it whenever the process dies.                                       *)
StoredTipIndexed == Anc[storedTip] \subseteq disk.received

(* Of the chain that is active, and of the one the coin database would     *)
(* bring back now, no block that lies within MIN_BLOCKS_TO_KEEP of the     *)
(* highest tip for which files were removed has lost its data or its undo  *)
(* data, whatever order blocks were stored in and whichever flush, kill or *)
(* reorganisation came between: they can be disconnected and verified      *)
(* (FindFilesToPrune, CBlockFileInfo::AddBlock, LoadBlockIndexDB).         *)
KeptFor(t, position, undoPosition) ==
    \A b \in Anc[t] \ {Genesis} :
       Height[b] > nPrunedFor - MIN_BLOCKS_TO_KEEP =>
          /\ position[b] # NoPos /\ Holds(blk, position[b], b)
          /\ undoPosition[b] # NoPos /\ Holds(rev, undoPosition[b], b)

RecentKept ==
    ~powerFailed => /\ KeptFor(coins, pos, undoPos)
                    /\ KeptFor(storedTip, disk.pos, disk.undoPos)

(* A node that is stopped in order, with everything flushed, passes        *)
(* VerifyDB when it is started again (AppInit2).                           *)
StartsAgain ==
    (pc = "idle" /\ storedTip = tip) => VerifyDB(storedTip, disk.pos, disk.undoPos, blk, rev)

=============================================================================
