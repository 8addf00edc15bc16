----------------------------- MODULE CoinsCache -----------------------------
(***************************************************************************)
(* The stack of coin views below validation (coins.cpp, coins.h, txdb.cpp):*)
(*                                                                         *)
(*    CCoinsViewDB  <--  pcoinsTip (cache)  <--  view of one block (cache) *)
(*                                                                         *)
(* Each cache holds a partial map of entries with a DIRTY and a FRESH flag.*)
(* ConnectTip and DisconnectTip open a view on pcoinsTip, change it coin by*)
(* coin, and either Flush it into pcoinsTip or drop it; FlushStateToDisk   *)
(* flushes pcoinsTip into the database in one LevelDB batch.  All of it    *)
(* runs under cs_main, so the actions are atomic; a crash is not.          *)
(*                                                                         *)
(* A CCoins is the set of its unspent outputs; the empty set is IsPruned().*)
(* A best-block hash is a number handed out at each committed view; 0 is   *)
(* the null hash.                                                          *)
(***************************************************************************)
EXTENDS Naturals

CONSTANTS
    Txids,      \* transaction ids
    Outs,       \* output indexes of a transaction
    Absent,     \* "no entry" in a CCoinsMap (find() == end())
    MaxBest     \* bound on the number of committed views

\* CCoinsCacheEntry: the coins and the two flags.
Entry == [coins : SUBSET Outs, dirty : BOOLEAN, fresh : BOOLEAN]

ASSUME AbsentAssumption == Absent \notin Entry
ASSUME BoundAssumption == MaxBest \in Nat

VARIABLES
    db, dbBest,         \* CCoinsViewDB: coins on disk, DB_BEST_BLOCK
    tip, tipBest,       \* pcoinsTip: cacheCoins, hashBlock
    view, viewOpen,     \* the view of the block in progress; does it exist
    aborted,            \* AbortNode was called: the node is shutting down
    label,              \* best-block hashes used so far
    hist                \* auxiliary: the contents committed under each hash

vars == <<db, dbBest, tip, tipBest, view, viewOpen, aborted, label,
          hist>>

Contents == [Txids -> SUBSET Outs]
CacheMap == [Txids -> Entry \cup {Absent}]
Empty == [t \in Txids |-> Absent]
Null == 0

-----------------------------------------------------------------------------
(* Reading through the stack.                                              *)

\* What a reader of pcoinsTip, and of the view, sees for one transaction.
TipContents == [t \in Txids |-> IF tip[t] = Absent THEN db[t] ELSE tip[t].coins]
ViewContents ==
    [t \in Txids |-> IF view[t] = Absent THEN TipContents[t] ELSE view[t].coins]

\* CCoinsViewCache::FetchCoins on pcoinsTip: CCoinsViewDB::GetCoins finds a
\* record exactly for the coins that are not pruned.
FetchTip(t) ==
    IF tip[t] # Absent THEN tip[t]
    ELSE IF db[t] = {} THEN Absent
    ELSE [coins |-> db[t], dirty |-> FALSE, fresh |-> FALSE]

\* Mutant: every entry pulled into the view is taken for FRESH.
FetchViewAlwaysFresh(t) ==
    IF view[t] # Absent THEN view[t]
    ELSE IF FetchTip(t) = Absent THEN Absent
    ELSE [coins |-> FetchTip(t).coins, dirty |-> FALSE, fresh |-> TRUE]

\* CCoinsViewCache::FetchCoins on the view, over what pcoinsTip answers: a
\* pruned answer makes the new entry FRESH.
FetchView(t) ==
    IF view[t] # Absent THEN view[t]
    ELSE IF FetchTip(t) = Absent THEN Absent
    ELSE [coins |-> FetchTip(t).coins, dirty |-> FALSE,
          fresh |-> FetchTip(t).coins = {}]

\* GetBestBlock: a null hashBlock is filled from the base.
TipGetBestBlock == IF tipBest = Null THEN dbBest ELSE tipBest

-----------------------------------------------------------------------------
(* Writing through the stack.                                              *)

\* ModifyCoins and the destructor of the CCoinsModifier it returns: the entry
\* found or created takes the coins c; a FRESH entry that ends up pruned goes.
ModifyCoins(t, c) ==
    LET found == FetchView(t)
        fresh == IF found = Absent THEN TRUE ELSE found.fresh
    IN  IF fresh /\ c = {} THEN Absent
        ELSE [coins |-> c, dirty |-> TRUE, fresh |-> fresh]

\* CCoinsViewCache::BatchWrite, for one entry of the child.
BatchWriteEntry(us, child) ==
    IF child = Absent THEN us
    ELSE IF ~child.dirty THEN us
    ELSE IF us = Absent THEN
        IF child.coins = {} THEN Absent
        ELSE [coins |-> child.coins, dirty |-> TRUE, fresh |-> TRUE]
    ELSE IF us.fresh /\ child.coins = {} THEN Absent
    ELSE [coins |-> child.coins, dirty |-> TRUE, fresh |-> us.fresh]

\* Mutant: spent transactions stay in the database.
BatchWriteCoinsKeepsPruned(old, entry) ==
    IF entry = Absent THEN old
    ELSE IF entry.dirty /\ entry.coins # {} THEN entry.coins ELSE old

\* CCoinsViewDB::BatchWrite, for one entry of pcoinsTip.
BatchWriteCoins(old, entry) ==
    IF entry = Absent THEN old
    ELSE IF entry.dirty THEN entry.coins ELSE old

-----------------------------------------------------------------------------
(* Actions.                                                                *)

Init ==
    /\ db = [t \in Txids |-> {}] /\ dbBest = Null
    /\ tip = Empty /\ tipBest = Null
    /\ view = Empty /\ viewOpen = FALSE
    /\ aborted = FALSE
    /\ label = 0
    /\ hist = [n \in 0..MaxBest |-> [t \in Txids |-> {}]]

\* CCoinsViewCache view(pcoinsTip), and the GetBestBlock that ConnectBlock and
\* DisconnectBlock assert on before anything else.
OpenView ==
    /\ ~viewOpen /\ ~aborted
    /\ viewOpen' = TRUE
    /\ view' = Empty
    /\ tipBest' = TipGetBestBlock
    /\ UNCHANGED <<db, dbBest, tip, aborted, label, hist>>

\* AccessCoins, HaveCoins or GetCoins on the view fills both caches.
AccessView(t) ==
    /\ viewOpen
    /\ view' = [view EXCEPT ![t] = FetchView(t)]
    /\ tip' = [tip EXCEPT ![t] = IF view[t] = Absent THEN FetchTip(t) ELSE @]
    /\ UNCHANGED <<db, dbBest, tipBest, viewOpen, aborted, label, hist>>

\* The same on pcoinsTip itself: the mempool and the RPCs read it.
AccessTip(t) ==
    /\ ~viewOpen /\ ~aborted
    /\ tip' = [tip EXCEPT ![t] = FetchTip(t)]
    /\ UNCHANGED <<db, dbBest, tipBest, view, viewOpen, aborted, label,
                   hist>>

\* One coin changes in the view: an input is spent, outputs are added or
\* removed, an undo record is applied.
Modify(t, c) ==
    /\ viewOpen
    /\ view' = [view EXCEPT ![t] = ModifyCoins(t, c)]
    /\ tip' = [tip EXCEPT ![t] = IF view[t] = Absent THEN FetchTip(t) ELSE @]
    /\ UNCHANGED <<db, dbBest, tipBest, viewOpen, aborted, label, hist>>

\* SetBestBlock at the end of ConnectBlock or DisconnectBlock, then
\* view.Flush(): BatchWrite into pcoinsTip, which takes over the hash.
FlushView ==
    /\ viewOpen /\ label < MaxBest
    /\ label' = label + 1
    /\ hist' = [hist EXCEPT ![label'] = ViewContents]
    /\ tip' = [t \in Txids |-> BatchWriteEntry(tip[t], view[t])]
    /\ tipBest' = label'
    /\ view' = Empty /\ viewOpen' = FALSE
    /\ UNCHANGED <<db, dbBest, aborted>>

\* ConnectBlock failed, or the view only served a test: it is destroyed.
DropView ==
    /\ viewOpen
    /\ view' = Empty /\ viewOpen' = FALSE
    /\ UNCHANGED <<db, dbBest, tip, tipBest, aborted, label, hist>>

\* Mutant: the best block is written ahead of the coins.
FlushTipBestOnly ==
    /\ ~viewOpen /\ ~aborted
    /\ dbBest' = label
    /\ UNCHANGED <<db, tip, tipBest, view, viewOpen, aborted, label, hist>>

\* pcoinsTip->Flush() in FlushStateToDisk: one LevelDB batch with the dirty
\* coins and, unless it is null, the best block; then the cache is cleared.
FlushTip ==
    /\ ~viewOpen /\ ~aborted
    /\ db' = [t \in Txids |-> BatchWriteCoins(db[t], tip[t])]
    /\ dbBest' = IF tipBest = Null THEN dbBest ELSE tipBest
    /\ tip' = Empty
    /\ UNCHANGED <<tipBest, view, viewOpen, aborted, label, hist>>

\* The process dies, or shuts down after a flush, and is started again.
Crash ==
    /\ tip' = Empty /\ tipBest' = Null
    /\ view' = Empty /\ viewOpen' = FALSE
    /\ aborted' = FALSE
    /\ UNCHANGED <<db, dbBest, label, hist>>

Next ==
    \/ OpenView
    \/ \E t \in Txids : AccessView(t)
    \/ \E t \in Txids : AccessTip(t)
    \/ \E t \in Txids, c \in SUBSET Outs : Modify(t, c)
    \/ FlushView
    \/ DropView
    \/ FlushTip
    \/ Crash

Spec == Init /\ [][Next]_vars

-----------------------------------------------------------------------------
(* The same with a database that can refuse a write.                       *)

\* WriteBatch throws leveldb_error: CCoinsViewDB::BatchWrite has already
\* erased every entry of the map it was given, which is pcoinsTip's own.
FlushTipFails ==
    /\ ~viewOpen /\ ~aborted
    /\ tip' = Empty
    /\ aborted' = TRUE
    /\ UNCHANGED <<db, dbBest, tipBest, view, viewOpen, label, hist>>

\* Shutdown() calls FlushStateToDisk() once more before the process ends.
ShutdownFlush ==
    /\ aborted /\ ~viewOpen
    /\ db' = [t \in Txids |-> BatchWriteCoins(db[t], tip[t])]
    /\ dbBest' = IF tipBest = Null THEN dbBest ELSE tipBest
    /\ tip' = Empty
    /\ UNCHANGED <<tipBest, view, viewOpen, aborted, label, hist>>

FaultyNext == Next \/ FlushTipFails \/ ShutdownFlush

FaultySpec == Init /\ [][FaultyNext]_vars

-----------------------------------------------------------------------------
(* Properties.                                                             *)

\* The types of the three layers.
TypeOK ==
    /\ db \in Contents /\ dbBest \in 0..MaxBest
    /\ tip \in CacheMap /\ tipBest \in 0..MaxBest
    /\ view \in CacheMap /\ viewOpen \in BOOLEAN
    /\ aborted \in BOOLEAN
    /\ label \in 0..MaxBest
    /\ hist \in [0..MaxBest -> Contents]

\* FRESH means what coins.h says: the parent view does not have the entry, or
\* has it pruned.  Only then may a pruned entry be dropped instead of written.
FreshSound ==
    \A t \in Txids :
        /\ tip[t] # Absent => (tip[t].fresh => db[t] = {})
        /\ view[t] # Absent => (view[t].fresh => TipContents[t] = {})

\* An entry without DIRTY equals what the parent view has, so that Flush may
\* skip it.
CleanSound ==
    \A t \in Txids :
        /\ tip[t] # Absent => (tip[t].dirty \/ tip[t].coins = db[t])
        /\ view[t] # Absent => (view[t].dirty \/ view[t].coins = TipContents[t])

\* The assert in CCoinsViewCache::BatchWrite: a modified, unpruned entry of the
\* child that pcoinsTip has no entry for is FRESH.
BatchWriteAssert ==
    \A t \in Txids :
        view[t] # Absent /\ tip[t] = Absent =>
            (view[t].dirty /\ view[t].coins # {} => view[t].fresh)

\* The flags of both caches mean what coins.h says of them, and what BatchWrite
\* asserts of them: nothing is dropped, skipped or written wrongly by a flush.
FlagsSound == FreshSound /\ CleanSound /\ BatchWriteAssert

\* What pcoinsTip shows is exactly what was committed under the best block it
\* reports, whatever was cached, flushed, dropped or lost in between.
TipIsBestBlock == TipContents = hist[TipGetBestBlock]

\* The coins on disk are exactly those committed under DB_BEST_BLOCK, so a
\* crash at any moment leaves a chain state that can be rolled forward.
DbIsBestBlock == db = hist[dbBest]

\* The stack of views implements the plain map of CoinsStore: caching is
\* invisible, a block is applied entirely or not at all, and a restart falls
\* back to the last flushed state.
Store ==
    INSTANCE CoinsStore WITH
        live <- TipContents, liveBest <- TipGetBestBlock,
        disk <- db, diskBest <- dbBest,
        work <- ViewContents, working <- viewOpen

ImplementsStore == Store!StoreSpec
=============================================================================
