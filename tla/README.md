# Lycancoin in TLA+

Models, model-checking instances and machine-checked proofs for the node of
Lycancoin 1.1.2.7 (a C++ descendant of Bitcoin Core 0.10/0.11). Paths below are
relative to the repository; the C++ is in `src/`. `PROJECT.json` has the exact
source lines of every definition.

## 1. Inventory of the system

| component | source | state | operations | interacts with |
|---|---|---|---|---|
| coin views | `coins.*`, `txdb.*` | `cacheCoins` with DIRTY/FRESH flags in each layer, `hashBlock`, the LevelDB coins and `DB_BEST_BLOCK` | fetch, modify, `BatchWrite`, `Flush`, drop | used by block connection; flushed by `FlushStateToDisk` |
| block index and chain activation | `main.cpp`, `chain.*` | `mapBlockIndex`, `setBlockIndexCandidates`, `mapBlocksUnlinked`, `chainActive`, `pindexBestInvalid`, `pindexBestHeader`, `setDirtyBlockIndex` | accept header / block, `ActivateBestChain`, invalidate, reconsider, flush, load | coin views, check queue, block download, wallet callbacks |
| script check queue | `checkqueue.h` | `queue`, `nIdle`, `nTotal`, `nTodo`, `fAllOk`, two condition variables | `Add`, `Wait`, worker loop | `ConnectBlock`, shutdown |
| block connection | `main.cpp` | none of its own | `ConnectBlock`, `DisconnectBlock`, `CheckInputs`, `UpdateCoins`, undo | the three above |
| block download and peer state | `main.cpp` | `mapNodeState`, `mapBlocksInFlight`, three global counters | `version`, `inv`, `headers`, `block`, `SendMessages`, `InitializeNode`, `FinalizeNode` | sockets, block index |
| orphan transactions | `main.cpp` | `mapOrphanTransactions`, `mapOrphanTransactionsByPrev` | add, erase, limit, resolve | memory pool, messages |
| memory pool, fee estimation | `txmempool.*`, `policy/fees.*` | `mapTx`, `mapNextTx`, `mapDeltas`, statistics | add, remove (recursive), `removeForBlock`, `removeConflicts` | chain activation, miner, wallet |
| block files, pruning, reindexing | `main.cpp` | `vinfoBlockFile`, `nLastBlockFile`, `setDirtyFileInfo` | `FindBlockPos`, `FlushBlockFile`, `PruneOneBlockFile`, `LoadExternalBlockFile` | block index |
| proof of work, difficulty | `pow.*`, `arith_uint256.*` | none | `GetNextWorkRequired`, Kimoto Gravity Well, `CheckProofOfWork` | header acceptance |
| block assembly and mining | `miner.*` | template | `CreateNewBlock`, the hashing loop | memory pool, chain |
| network connections | `net.*`, `netbase.*` | `vNodes`, buffers, ban list, reference counts | connect, accept, send, receive, ban | messages |
| message processing | `main.cpp` | per-node receive queue and getdata list | `ProcessMessages`, `ProcessGetData`, `SendMessages` | most components, under `cs_main` but for `version` |
| address manager | `addrman.*` | tried and new tables with index maps | add, good, attempt, select | network |
| alerts | `alert.*` | `mapAlerts` | process, cancel, relay | messages |
| wallet | `wallet/` | `mapWallet`, spent tracking, `setKeyPool`, reservations, `wallet.dat` | sync, create and commit transactions, top-up, reserve / keep / return a key | chain and pool signals, miner |
| key store and wallet encryption | `keystore.*`, `wallet/crypter.*` | `mapKeys`, `mapCryptedKeys`, the master key, lock state | add key, encrypt, lock, unlock | wallet |
| scripts, signature cache | `script/` | signature cache | `EvalScript`, `VerifyScript` | check queue |
| merkle trees, bloom filters | `merkleblock.*`, `bloom.*` | filter bits | build, extract, match | messages |
| checkpoints, network time | `checkpoints.*`, `timedata.*` | samples | median | header acceptance |
| RPC server, start-up, shutdown | `rpc*.cpp`, `init.cpp` | – | dispatch; init and teardown order | all |
| GUI, LevelDB, secp256k1, json | `qt/` and vendored directories | – | – | – |

What is hard in this code, and where the properties are aimed:

* **lock hand-overs**: `ActivateBestChain` gives `cs_main` up between steps, so its
  target, and the test that ends its loop, are stale when used; other threads add,
  activate and mark blocks meanwhile;
* **crashes and failed writes**: index and coins are two databases, written one
  after the other; a flush empties the cache before the write may fail;
* **state changed without its lock**: the `version` handler updates a count of
  `mapNodeState`'s flags while other threads change it under `cs_main`;
* **arrival order**: headers and blocks come from any peer in any order, twice,
  damaged, or not at all, and peers leave while blocks are asked from them;
* **flags that stand for facts**: FRESH/DIRTY of a coin, candidates, unlinked
  blocks, failure marks, `nChainTx`, the counters of the peers: each is a cached
  truth that a long sequence of legal calls could make false;
* **condition variables**: a lost notification, a spurious wake-up or an
  interruption in the check queue;
* **operator calls**: `invalidateblock` and `reconsiderblock` at any time;
* **reorganisations under the pool**: a disconnected block changes which coins exist,
  which coinbases are mature, and which transactions may be mined, all under
  transactions that were accepted before;
* **files beside databases**: block, undo and wallet files are written, committed,
  removed and renamed in steps, and a kill or a power failure may fall between any two.

`PROJECT.json` lists each hazard at its line with the properties that cover it, or
the reason why none does yet.

What makes each component correct:

* coin views: the coins shown, and those on disk, are exactly those of the best
  block that is reported; the flags mean what `coins.h` says; no assertion fails;
* block index: the invariants of `CheckBlockIndex`; no invalid block is ever
  active; at rest the best valid chain is; whatever is on disk can be loaded;
  activation ends;
* check queue: `Wait` returns, with the conjunction of this block's checks;
* block download: the books on requested blocks agree; nothing is waited for in
  vain; one honest peer is enough to catch up;
* memory pool and orphans: whatever a miner collects from the pool is a valid block;
  nothing leaves the pool without need; the orphan maps agree and a parent's arrival
  leaves none of its orphans behind;
* block files: what the index (in memory or stored) says is in a file is there, at
  every moment the process or the machine may stop; the best block of the coins is in
  the stored index; pruning keeps what a reorganisation needs;
* wallet keys: the secret of a key that was given out is never lost, what is stored
  loads and unlocks, and no used key is given out again.

## 2. Modules

```
CoinsStore <--refines-- CoinsCache <-- CoinsCacheProofs
                            ^--------- MCCoinsCache
                        BlockIndex <-- BlockIndexProofs <-- BestChainProofs
                            ^--------- MCBlockIndex
                        CheckQueue <-- CheckQueueProofs,    MCCheckQueue
                     BlockDownload <-- BlockDownloadProofs, MCBlockDownload
                            TxPool <-- TxPoolProofs,        MCTxPool
                        BlockFiles <-- BlockFilesProofs,    MCBlockFiles
                        WalletKeys <-- WalletKeysProofs,    MCWalletKeys
```

### CoinsStore, CoinsCache

`CoinsCache` is the stack `CCoinsViewDB` / `pcoinsTip` / the view of one block.
`db, dbBest` are the coins and `DB_BEST_BLOCK`; `tip, tipBest` are the `cacheCoins`
and `hashBlock` of `pcoinsTip`; `view` is the cache that `ConnectTip` or
`DisconnectTip` opens on it. An entry has coins (the set of unspent outputs; the
empty set is `IsPruned()`) and the flags DIRTY and FRESH. Actions: `OpenView`,
`AccessView` / `AccessTip` (a read pulls entries in), `Modify` (`ModifyCoins` with
its destructor), `FlushView` and `DropView` (the two ends of a view), `FlushTip`
(the LevelDB batch) and `Crash`. `BatchWriteEntry` is the loop body of
`CCoinsViewCache::BatchWrite`, case by case. `hist` is an auxiliary variable: the
contents that were committed under each best-block hash. `FaultySpec` adds a refused
batch (`FlushTipFails`) and the flush that `Shutdown()` tries after it.

`CoinsStore` is the promise: one map with a working copy that is committed or
dropped as a whole, and a durable copy to which a crash returns.

### BlockIndex

`idx` is `nStatus` of each block (known, transactions, undo data, scripts valid, the
two failure flags), `linked` the blocks with `nChainTx # 0`, `seq` their
`nSequenceId`; `candidates`, `unlinked`, `tip`, `bestInvalid`, `bestHeader`, `dirty`
are the globals of the same meaning. `disk` and `diskTip` are what the two databases
hold and `flushing` says that `FlushStateToDisk` is between its two writes. Each
thread has a `pc`: `activating`, `reorg` (inside `ActivateBestChainStep`, holding
`cs_main`), `looptest` (the test that reads the tip without the lock), `invalidate`.

Actions: `AcceptBlockHeader`, `AcceptBlock`, `AcceptBlockFails`, `AcceptDuplicate`
(with `ReceivedBlockTransactions` in every order in which its queue may meet the
blocks it links), `ActivateBestChain` (choice of the target with
`FindMostWorkChain` and its marks), `DisconnectTip`, `ConnectTip`,
`ConnectTipFails`, `LoopTest`, `InvalidateBlock` / `InvalidateTurn` /
`InvalidateEnd`, `ReconsiderBlock`, `FlushIndex` and `FlushCoins`, and `Restart` (a
crash followed by `LoadBlockIndexDB`; the order of the objects in memory, which
breaks ties, is chosen anew). The content of a block is its verdict: accepted,
refused by `ContextualCheckBlock`, or refused by `ConnectBlock`.

### CheckQueue

One step is what a thread does under the mutex, or one batch of checks without it.
`Enter`, `Work` and `Wake` are the three ways to reach the top of `Loop`;
`LoopTop` is its body: wait, or take a batch of `BatchLength`, or return (the
master). `woken` are the waiting threads that have been notified; `Wake` may also
happen without a notification, and `Interrupt` ends a wait by an exception that
leaves `nIdle` and `nTotal` as they are. `StartBlock`, `Add`, `BeginWait` are the
master's side, `CCheckQueueControl` included.

### BlockDownload

Each field of `CNodeState` is a function of the peers or the set of the peers that
have it; `mapBlocksInFlight`, `nQueuedValidatedHeaders`, `nPreferredDownload` and
`nSyncStarted` are the globals. Actions: `InitializeNode`, `Inv` (one entry),
`Headers`, `Block` and `SendMessages` are one step each. All but `Block` hold `cs_main`
around what they change; `block` takes it several times (`ProcessNewBlock`, each step
of `ActivateBestChain`, `Misbehaving`), but stays on the message thread, and what the
socket threads do in between concerns the records of other peers. `version` takes
no lock (`main.cpp:3816`), and its `UpdatePreferredDownload` (3877) changes
`nPreferredDownload` twice while the `FinalizeNode` of another peer may do so under
`cs_main`. Both are split at their reads and writes of that count: `Version` (the read
for `-=`), `SubtractPreferred` (its write, the flag, the read for `+=`), `AddPreferred`
(that write); `EnterFinalizeNode` (takes `cs_main` and reads), `FinalizeNode` (writes
and erases the record). `greeting` and `finalizing` name the peers they are at,
`ThreadFree` and `LockFree` say that the message thread and `cs_main` are free, and the
history variable `overlapped` records whether the two have ever been under way
together. The message thread holds a reference to the peer whose message it handles
(`net.cpp:1459`), so that peer is not destroyed meanwhile. `VersionRefused` is a
`version` that ends the connection, `Disconnect` whatever else does. No message of a
peer that is to be disconnected is taken (`main.cpp:4623`).

`FindNextBlocksToDownload` is `LastCommonAncestor`, `Walk`, `Advanced`, `ToDownload` and
`Staller`. The clock is abstracted: a timeout may have passed at any call of
`SendMessages`, the tip may be recent or not. A misbehaviour score may or may not reach
the threshold. The block index is reduced to four sets; activation is
what `BlockIndex` shows it to do once it has ended.

Peers that are not in `Honest` announce any block, send any headers and any blocks,
damaged or not, or nothing, and leave when they like.

### TxPool

`mapTx`, `mapNextTx`, `mapOrphanTransactions` and `mapOrphanTransactionsByPrev` are the
maps of the same names; `height` gives the block of each confirmed transaction and so
stands for `pcoinsTip`, whose content `CoinsCache` shows to be that of the chain. `pc`
says which operation holds `cs_main`. Actions: `SubmitTransaction` (RPC, wallet),
`TxAccepted` and `TxMissingInputs` (the two outcomes of a `tx` message), then the orphan
loop one `AcceptToMemoryPool` at a time (`TryOrphan`, `NextParent`, `EraseQueue`);
`EraseOrphansFor` (a peer leaves); `ConnectTip` with `removeForBlock` and
`removeConflicts`; `DisconnectTip`, then `Resurrect` for each transaction of the block
and `RemoveCoinbaseSpends`; `Restart`. `Templates` is what `CreateNewBlock` may collect.
Fees, standardness, priority and the misbehaviour score are choices.

### BlockFiles

`pos`, `undoPos` are the positions in the index, `vinfoBlockFile`, `nLastBlockFile`,
`setDirtyFileInfo`, `setDirtyBlockIndex` the globals. `blk`, `rev` are what the files
hold, `blkSafe`, `revSafe` what of it was committed with `FileCommit`; `disk` is the
stored index and `storedTip` the best block of the coin database. Actions:
`AcceptBlock` (`FindBlockPos` with its roll-over, `WriteBlockToDisk`,
`ReceivedBlockTransactions`), `ConnectTip` (`FindUndoPos`), `DisconnectTip`,
`UpdateTip`; `FlushStateToDisk` in its steps: `FlushIndex` (`FindFilesToPrune`,
`FlushBlockFile`, the index batch) or `SkipFlush`, then `FlushCoins` and
`UnlinkPrunedFile`, one file at a time; `Restart`, `PowerLoss`, `StartAgain` for the
faults and the start-up with `VerifyDB`. `FaultySpec` adds `FlushIndexFails`: the index
batch throws, and `Shutdown()` flushes once more.

### WalletKeys

`mapKeys` and `mapCryptedKeys` are the key store, `mapMasterKeys` the wallet's master key,
`fUnlocked` says whether `vMasterKey` is set,
`setKeyPool` and `reserved` the pool and what each `CReserveKey` holds; `wallet` and
`rewrite` are `wallet.dat` and `wallet.dat.rewrite`. Actions: `TopUpKeyPool` /
`GenerateNewKey` / `GenerateNewKeyFails` / `WritePool` / `TopUpEnds`, `GetReservedKey`,
`KeepKey`, `ReturnKey`, `GetKeyFromPool`, `Lock`, `Unlock`, `EncryptWallet` with
`ErasePool` and `NewKeyPoolEnds`, `RewriteCopy` / `RewriteRemove` / `RewriteRename` (the
three steps of `CDB::Rewrite`), and `Restart` (a kill and `LoadWallet`). `Lock` and
`KeepKey` do not take `cs_wallet` and may come between any two steps of its holder.
`used` is auxiliary: the keys that were given out.

## 3. Runs

| run | instance | what it shows |
|---|---|---|
| `coins_cache` | 2 transactions of 2 outputs, 3 commits, symmetry in both | `FlagsSound`: DIRTY and FRESH are true of the layer below and the assert in `BatchWrite` holds. `DbIsBestBlock`: stored coins and stored best block fit, at every moment a crash may come. `ImplementsStore`: refinement of `CoinsStore` |
| `coins_fault` (violation) | 1 transaction, faults | after a refused batch, the flush of `Shutdown()` stores a best block without its coins |
| `block_index` | two branches of two blocks, two threads, at most one block bad in either way | the parts of `CheckBlockIndex` (`LinkedIsProcessed`, `CandidatesExactAtRest`, `UnlinkedExact`), `ActiveChainSound`, `BestChainAtRest`, `MarksDeserved`, and `StepImproves`: a step that gives the lock back has improved the tip or has newly marked a block as failed |
| `block_index_crash` | branches of one and two blocks, two threads, one crash anywhere, both orders in memory | `DiskTipRecoverable`, `CandidatesNeverEmpty` (the assert of `PruneBlockIndexCandidates`), `CandidatesExactAtRest` after loading, and `ActivationEnds` |
| `block_index_manual` | two branches of two blocks, up to three operator calls | `FailedMaskExplained`, `ActiveChainUnmarked` and `BestChainAtRest` with `invalidateblock`, and `reconsiderblock` of the last block of a branch |
| `check_queue` | 4 checks, at most one bad, 2 workers, batches of 2, 1 interruption | `VerdictExact`, `TodoExact`, `IdleBetweenBlocks` (the assert of `CCheckQueueControl`), `WaitReturns`, `QueueDrained` |
| `block_download` | an honest and a faulty peer, a chain of two and a bad fork, a window and a limit of 1 | `InFlightAgrees`, `CountsExact` (`nSyncStarted` always; `nPreferredDownload` until an unlocked update has overlapped a `FinalizeNode`), `TimeoutsDeserved` (what is in flight is not there yet, a staller owes a block, no timeout is computed from too few queued headers), `LastCommonIsLinked`, and `CatchesUp` |
| `tx_pool` | 5 transactions with a double spend, a common child and a height lock, 6 coinbases, maturity 2, height up to 5, 2 peers, 2 orphans | `PoolMinable`: every template is a valid block after any reorganisation. `NextTxExact`, `OrphanIndexExact`: the maps agree. `OnlyUnspendableLeave`, `OrphansResolved`, `TxMessageEnds` |
| `block_files` | a chain of four and a fork, two records per file, 3 blocks kept, one kill or power failure anywhere | `BlocksReadable`, `UndoReadable`, `StoredTipIndexed`, `RecentKept` |
| `prune_restart` (violation) | pruning keeps 2 blocks, start-up verifies 4 | a node that pruned and was stopped in order may not start again: `VerifyDB` reads deeper than pruning keeps |
| `index_fault` (violation) | the index batch may throw | the flush of `Shutdown()` then stores coins whose best block is not in the stored index |
| `wallet_keys` | 2 holders (symmetric), pool of 1, 6 keys, 2 kills | `KeysKept`, `StoredWalletLoads`, `NotUsedAgain` through top-ups, reservations, locking, encryption and its rewrite |

The runs that expect a violation are disagreements between the code and one of its own
comments, assertions or help texts; `PROJECT.json` quotes both sides under
`findings`. They are confined by a constant: in the passing runs the operator
reconsiders only last blocks of a branch (`Reconsidered`), no batch is refused
(`Spec` rather than `FaultySpec`), the verified depth is within what pruning keeps, and
no crash falls into an operator call.

**Disagreements without a run of their own.** The models also show the following. Each
is what a property is restricted for, and each can be had back with the change that is
given.

* *`CheckBlockIndex` on arrival* (`main.cpp:2784`, the asserts at 3472-3475). With one
  block that fails in `ConnectBlock` and two threads, `ProcessNewBlock` of one thread
  can run the check between two steps of the other's failed reorganisation, when a
  block better than the tip is not a candidate. `CandidatesExactAtRest` without
  "at rest" shows it.
* *A block that arrives between `invalidateblock` and `reconsiderblock`*
  (`main.cpp:2419`). The header of `a2` is known, `a1` is invalidated, `a2` arrives,
  `a1` is reconsidered and arrives: `a2` was put in no list and is never linked.
  `LinkedIsProcessed` in `block_index_manual`, `Reconsidered` with `a1`.
* *A block above an invalidated one that waits* (`main.cpp:2419`, the assert at 3455). In a
  chain of three, `a2` waits for `a1`, is invalidated, and `a3` arrives, whose header was
  known: it is put in no list. When `a1` arrives, `a2` is linked and `a3` is not, although
  all data is there: `LinkedIsProcessed`, `Manual = {a2}`, no `reconsiderblock` needed.
  With a fourth block, which is put in the list under `a3`, `UnlinkedExact` fails too.
* *A child of a refused block* (`main.cpp:2419`): `a1` is refused on arrival, then `a2`
  arrives and is put in no list; after `reconsiderblock a1` it has no invalid ancestor
  and waits nowhere. `UnlinkedExact`, `a1` refused by `ContextualCheckBlock`,
  `Reconsidered = {a1}`.
* *`reconsiderblock` of a descendant* (`main.cpp:2335`) clears the marks of its ancestors
  but makes only blocks that descend from the named one candidates again.
  `BestChainAtRest`, one thread, `Manual` and `Reconsidered` both `{a1, a2}`,
  `MaxManual` 2.
* *A crash inside `invalidateblock`* (`main.cpp:2290`): the tip is marked before it is
  disconnected, a flush stores the mark, and after the restart the marked tip is no
  candidate, so that the assert of `main.cpp:2158` may fail. `CandidatesNeverEmpty`, one
  thread, `MaxManual` 1, `MaxCrashes` 1.
* *`nQueuedValidatedHeaders`* is "Number of blocks in flight with validated headers"
  (`main.cpp:165`), but `FinalizeNode` (282) drops a peer's blocks without the decrement
  of `MarkBlockAsReceived` (295). The count only grows too large, so download timeouts
  (4910) become longer, never shorter, which is the part `TimeoutsDeserved` states.
* *`nPreferredDownload`* is the "Number of preferrable block download peers"
  (`main.cpp:168`), and `mapNodeState` "Requires cs_main" (238), but the `version` handler calls
  `UpdatePreferredDownload` (3877) without it. If the message thread has read the count
  when `FinalizeNode` (285) writes it, or the other way round, one update is lost for good.
  A count that stays too high keeps the node from using a peer that is not preferred
  (4828), one too low makes it 0 while a preferred peer is there. `CountsExact` without
  `~overlapped` shows it in nine states: the `FinalizeNode` of `s` reads 0 before `h`'s
  `version` writes 1, and writes 0 after it, with `h` preferred. `CatchesUp` holds all
  the same, because an honest outbound peer is fetched from by its own flag.
* *Undo data in an older file*: "First make sure all block and undo data is flushed to
  disk" (`main.cpp:1893`), but `FlushBlockFile` commits the last file only, and a block
  that is connected late has its undo data appended to the file its block is in. After
  a power failure the stored index can refer to undo data that is gone:
  `UndoReadable` without its `powerFailed` case. Also, a kill after the index write and
  before the unlinks leaves pruned files that nothing will remove.
* *Reserved keys*: a reservation that is outstanding while `NewKeyPool` runs, or while
  a drained pool is filled again, holds an index that is given to a new key; `KeepKey`
  then erases, and `ReturnKey` puts back, another key's record, and two holders can
  come to hold the same key. `NotUsedAgain` still holds.
* *`CDB::Rewrite`* removes `wallet.dat` before it renames the copy (`wallet/db.cpp:408`).
  A kill in between leaves the keys in `wallet.dat.rewrite` only, and the next start
  creates an empty wallet: `used \subseteq Recoverable(wallet)` alone is false. A later
  encryption opens that left-over file and, under `DB_NOOVERWRITE` (394), keeps its
  records, the old master key among them: `KeysKept` and `StoredWalletLoads` without
  `fMerged` are false.
* *`Lock` during `NewKeyPool`*: `GenerateNewKey` then throws out of `EncryptWallet`
  before `CDB::Rewrite`, so that the file is encrypted but its slack space, which the
  rewrite is there for, still has the unencrypted keys.

**Bounds and why they are enough.** Two transactions with two outputs have an
entry that is partly spent and another that is not touched; three commits allow
connect, disconnect and connect again with flushes between. Two branches of two blocks
are the smallest tree in which a reorganisation disconnects and connects more than one
block, fails in the middle, and links a block whose parent came late; two threads
are enough for one to use the gap in the other's activation. Four checks with batches
of two give two batches in flight and a rest; two workers give a worker that sleeps
while the other is notified. In the download a window and a limit of one put every
peer at its limit at once and let one peer stall the other; the block beyond the
window exists. In the pool a maturity of two below a height of five lets a spend
of a coinbase become mature, be accepted, and lose its maturity again; the five
transactions have a double spend of two outputs, a child of two parents of which one
is a child of the other, a lock, and a grandchild; two orphans with three that may be
waiting reach the limit. Files of two records with four blocks and a fork roll over
twice, mix heights and branches in a file, and append undo data to an older one; one
fault at any step, followed by more work, is what the argument on stale sizes is
about. Six keys and two kills are enough for a top-up, an encryption with its new pool,
a kill inside it, and a second encryption after the restart.
`MaxBest`, `MaxManual`, `MaxCrashes`, `MaxInterrupts`, `MaxHeight`, `MaxAhead`,
`LastFile`, `MaxFaults` and `MaxKeys` cap what is otherwise unbounded. Work is equal to
height, so that equal work happens.

**Fairness and why the code justifies it.**

* `BlockIndex`: strong fairness of each thread's `Step`: a thread that waits for
  `cs_main` gets it in the end although others take it in between; weak fairness of
  `FlushCoins`: a write returns. None on arrivals, operators or crashes.
* `CheckQueue`: weak fairness of `Enter`, `Work` and a notified `Wake`: running
  threads run and a notified thread wakes. None on spurious wake-ups, nor on the
  master adding checks or joining.
* `BlockDownload`: all weak. A `version` that has begun ends; the message thread comes in
  its loop to each honest peer and to each one that is to be banned; the socket thread
  destroys what is to be disconnected; a block that stays in flight at a peer other
  than an honest one runs into its timeout in the end (the clock advances); an honest
  peer takes one of its steps (`Answers`) as long as it has one: it connects, sends its
  version, the headers of its tip until the node knows it, and the blocks it is asked
  for. Weak fairness is enough because each node id greets and is finalized once: the
  lock and the message thread are busy with that finitely often. Nothing is assumed
  of other peers. Timeouts of honest peers do not happen: that is what honest means.
* `TxPool`: weak fairness of the orphan loop: the message thread holds `cs_main` and
  runs on.

Deadlock is checked in every run but `wallet_keys`, where the bound `MaxKeys` can stop a
top-up half-way once the kills are used up.

## 4. Proofs

All theorems hold for every value of the constants under the `ASSUME`s of the
component's module: a finite tree given by `Parent` and `Anc` with work that grows
along it, verdicts that accept the genesis block, an injective order in memory, finite
sets of threads, peers and checks, and positive limits. Each invariance proof has the
same shape: `Init => IInv`, `IInv /\ [Next]_vars => IInv'` with one lemma per action
(and, under it, a step per conjunct that the action can disturb), and a last temporal
step.

**CoinsCacheProofs.** `IInv` is the checked invariants plus: `CreatedInView` (a view
entry without a `pcoinsTip` entry under it was created in the view: FRESH and DIRTY),
`HashesUsed` (a best block is one that was handed out) and `ViewClosedEmpty`. The flags
are the heart: `FreshSound` is needed for a dropped entry to lose nothing, `CleanSound`
for a skipped one (with the assert of `BatchWrite` they make up `FlagsSound`); neither is
inductive without the other, because a flush turns one layer's facts into the next one's.
From them: `FlagsAlwaysSound`, `BestBlockExact`, and `Refinement`, where each step is mapped to a step of
`CoinsStore` or to a stutter.

**BlockIndexProofs.** `ActiveChainAlwaysSound`: no block that validation refuses is
ever active and every active block has undo data. By itself it is not preserved by a
restart, which takes the tip from disk, so `IInv` carries the same facts of the
disk: `DiskTipRecoverable` (the stored best block and its ancestors are in the stored
index with data and undo) and `DiskTipValid`. These in turn need `Synced`: the data
and undo flags of a block that is not dirty are on disk, and a block on disk never has
more of them than in memory. `MarksAlwaysDeserved` needs its image on disk, `DiskMarksDeserved`. The rest of
`IInv` (`OnlyKnown`, `DataValidated`, `LinksHaveData`, `CandidatesLinked`,
`TargetsKnown`, `ActiveHasData`) says that what a thread aims at has data and passed
the checks on arrival. The number of threads, crashes and operator calls is arbitrary.

**BestChainProofs.** The parts of `CheckBlockIndex` and the choice of the chain, for any
tree, threads and verdicts. The invariants are layered; each layer uses those before it.

* `TreeInv` (`TreeInductive`) holds of every behaviour: the linked blocks are closed under
  ancestors and hold the tip, a block that waits has a parent that is not linked, no
  candidate sorts below the tip, a mark is on a known block, what is not dirty has its
  `BLOCK_FAILED_VALID` on disk, and one thread at most is inside `cs_main`.
* `HeadingInv` gives `StepsImprove` (`StepImproves`), also of every behaviour: the target of
  a step sorts above the tip the step started from and the way to it is not marked. The
  step ends at its target, or above the old tip by work, or with a new mark. That the
  order (work, sequence number, address) is total and that a block sorts above its parent
  are lemmas.
* `MarksInv` adds to `FailedMaskExplained` the same of the disk, and that the block being
  invalidated is marked (`MarksExplained`).
* `ActiveInv` adds to `ActiveChainUnmarked` what holds inside `InvalidateBlock` (of the
  active chain only its target is marked) and that the target of a step is on a clean
  branch (`ActiveNeverMarked`).
* `ChoiceInv` is the argument for `BestChainWins` (`BestChainAtRest`) and
  `SomeCandidateLeft`. `CandidatesOpen`: outside `InvalidateBlock` there is a complete,
  valid, clean block, no worse than the tip, such that every linked and unmarked block
  that is no worse than it is a candidate; during a reorganisation this is not the tip
  itself, which is why the set is not exact then. `TargetBest`: the target of a step is
  the best of all complete clean blocks, which nothing disturbs, because the step holds
  the lock. `Responsible`: when nobody is inside `cs_main`, either the tip is the best or
  some thread will choose again, because it is about to or because its target is not the
  tip. This is what makes the loop test without the lock harmless: a thread that leaves
  because its stale target happens to be the tip was not the one that was needed.
* `LinksInv` gives `LinkedExactly` (`LinkedIsProcessed`): a block with data that is not
  linked waits, or an ancestor was refused on arrival and so never has data. The lowest
  unlinked block of a complete chain would wait for a linked parent, which `TreeInv`
  excludes. With `ChoiceInv` it gives `CandidatesExactly`; with marks instead of refusals it
  gives `UnlinkedExactly`.

The hypotheses are those without which TLC finds a counterexample (section 3). Each is an
action constraint on the calls of the operator or on what a restart finds:

* `ReconsidersLowest`: `reconsiderblock` is called for a block below which nothing is marked
  (it clears the marks below but makes no block there a candidate);
* `InvalidatesLinked`: `invalidateblock` is called for a block with `nChainTx # 0`, such as
  every active one (a child of a marked block that waits is not recorded);
* `RestartsUnmarked`: a restart finds no mark on the stored active chain, as it does when
  the process was killed in the middle of `invalidateblock`. `RestartsAlwaysUnmarked`
  proves that every behaviour meets it when the operator invalidates nothing.

| theorem | hypotheses |
|---|---|
| `TreeInductive`, `StepsImprove` | none |
| `MarksExplained` | `ReconsidersLowest` |
| `ActiveNeverMarked` | `RestartsUnmarked` |
| `BestChainWins`, `SomeCandidateLeft` | `ReconsidersLowest`, `RestartsUnmarked` |
| `LinkedExactly` | `InvalidatesLinked` |
| `CandidatesExactly` | all three |
| `UnlinkedExactly` | `InvalidatesLinked`, and `Reconsidered = {}`: a block that came when its parent was marked is not recorded, and is missed when the mark goes |

Without operator calls all of them hold of every behaviour.

**CheckQueueProofs.** `VerdictAlwaysExact`, `TodoAlwaysExact` and
`ControlAssertHolds`. `IInv` adds `Places` (where a thread may hold a batch),
`CountsExact` (`nTotal - nIdle` is the number of threads that hold a batch, also after
interrupted waits) and `ResultsSound` (while `fAllOk` is true every bad check of the
block is still outstanding, and a batch that was worked on with `fOk` true holds none).

**BlockDownloadProofs.** Five theorems: the types with the limit on blocks in flight,
`InFlightAlwaysAgrees`, `CountsAlwaysExact`, `TimeoutsAlwaysDeserved` and
`NothingSkipped` (`LastCommonIsLinked`). The invariant is grouped by what it is
about: `Flags`, `Threads`, `Preferred`, `Books`, `Known`, `IndexSound`,
`NothingHadInFlight`. `CountsAlwaysExact` is what can be true of counts one of which is
changed without the lock: `nSyncStarted` is exact, and `nPreferredDownload` is exact
whenever no `version` is in the middle of its update, as long as no such update has
overlapped a `FinalizeNode`. Its argument is in `Threads` and `Preferred`: where each of
the two threads is, and that, before any overlap, what a thread has read of the count is
still its value and the count is that of the flags without the peer being added. The
invariant adds three more facts to the checked ones: a preferred peer has sent its version
(else its flag would be set when the update begins), the index holds every ancestor of a
header it holds, and the tip is linked. Two arguments are not a matter of cases. The limit: of the blocks to download
the highest has all others among its ancestors, so that its own place in the list bounds
their number; that there is a highest one comes from the well-foundedness of the
naturals. The closure of the index under a `headers` message: what lies below the first
header is in the index because its parent is, what lies above it was accepted with it.

**TxPoolProofs.** `PoolAlwaysMinable`, `NextTxAlwaysExact`, `OrphanIndexAlwaysExact`,
`OrphansAlwaysResolved`, `OnlyUnspendableAlwaysLeave`, for any set of transactions. A
statement about all templates is not inductive; the invariant is about single inputs:
`InputsThere` (each is an output of the pool or an unspent coin), `InputsMature`,
`NextTxExact` (hence no conflicts), `PoolUnconfirmed` and `ChainSound` (what is in the
chain spends what is in the chain, no later than itself). While a disconnected block is
being taken back its transactions are in neither, so these say where the missing parents
are: in `todo`. For the orphans, `QueueComplete` says of each transaction accepted in
this message that its orphans are still to be tried or already to be erased; with the
index being exact nothing is left at the end. `OnlyUnspendableAlwaysLeave` rests on
`WithDescendants` being the smallest set that is closed under spending: whatever is in
it has a parent that goes.

**BlockFilesProofs.** `BlocksAlwaysReadable`, `UndoAlwaysReadable`,
`StoredTipAlwaysIndexed`, `RecentAlwaysKept`, for any tree, file size and chunk size.
The invariant relates three descriptions of the files: the index in memory, the stored
one and the content. `MemoryConsistent` and `DiskConsistent` say that a record lies below
the size that its own description has of the file; `Grown` that the sizes in memory are
never below the stored ones, so that a write never hits a stored record; `Synced` that
what is not dirty is stored; `StoredIntact` that the stored places hold their blocks also
for the running process; `OthersCommitted` that the blocks in files other than the last
are committed; `PrunedForgotten` that a file waiting to be unlinked is in neither index. `StoredKept`
and `ChainReceived` carry `RecentKept` and `StoredTipIndexed` over a flush and a restart.

**WalletKeysProofs.** `KeysAlwaysKept`, `StoredWalletAlwaysLoads`, `NeverUsedAgain`. The
invariant says, by the place of the holder of `cs_wallet`, that the file describes what
memory has: the same keys under the same master key, every pool record of a key that
the file has and that was not used, no key under two indices, and the secret of every
key that a reservation or a running top-up holds; a reserved key, if it still has a
record, has it under the reserved index, so that `KeepKey` erases it; during a rewrite, that the copy equals the file, and after the removal that it
alone does. All of it holds until a left-over rewrite file is merged (`fMerged`).

**Only model-checked.** Liveness (`ActivationEnds`, `WaitReturns`, `QueueDrained`,
`CatchesUp`, `TxMessageEnds`) is out of the prover's reach, as is everything that needs
ENABLED. Every safety property of a passing run, invariant or action property, has a
theorem. Seven of those on the block index hold under hypotheses that are given above;
the runs check them on instances within these hypotheses.

## 5. What is not modelled

* Data: serialisation, compression, scripts, signatures, hashes, amounts, fees. A
  check, a header, a block is good or bad. `GetStats` and the size of a cache, which
  only decides when a flush happens (it may happen at any time in the models).
* In `BlockIndex` block and undo data are flags: pruning is in `BlockFiles`, which in turn
  lets any block with data be connected and keeps no candidates. So what
  `FindMostWorkChain` does with a candidate that was pruned (`main.cpp:2133`) is in
  neither. Reindexing, `LoadExternalBlockFile` and known positions (`fKnown`) are not
  modelled. The prune target is abstracted: any set of old enough files may be over it.
  A read that fails ends in `AbortNode`.
* In `TxPool`: fee estimation, `mapDeltas`, `totalTxSize` and a `FlushStateToDisk` that fails
  inside `ConnectTip` or `DisconnectTip`. Two things a reader may not expect are in the
  code and so in the model: a transaction locked to a height stays in the pool after a
  reorganisation takes the chain below it (`CreateNewBlock` skips it), and orphans whose
  parent comes in a block, by RPC or by a reorganisation are not tried again. The
  undefined behaviour of `EraseOrphanTx` for two inputs of one parent (`main.cpp:549`) is
  either nothing or a crash (`Restart`).
* In `WalletKeys`: changing the passphrase, imported keys, `DB_NEED_REWRITE`, and power
  failures (`DB_TXN_WRITE_NOSYNC`, `wallet/db.cpp:100`). `mapWallet` and spent tracking are
  not there.
* The subsidy: its shift by `nHeight / nSubsidyHalvingInterval` (`main.cpp:1190`) would be
  undefined after 64 halvings, some 51 million blocks away.
* Translations (`qt/locale/*.ts`) hold no logic. The map covers C++ only, and the lines
  of the translations are no part of what there is to model.
* In `BlockDownload`: the lookup of `version` in `mapNodeState` without `cs_main` may meet an
  insert or an erase by another thread and crash the process; all state of the module is
  in memory, so the behaviour ends there, and no action is needed for it. Reject
  messages, `mapBlockSource`, whitelisted peers, and the exact misbehaviour score. The node asks one peer for headers and has no timeout for
  the answer; in the model peers send headers unasked, so no property is about it.
* The components listed as `not_modelled` in `PROJECT.json`, with the reason for each.
  `core.cpp` and `core.h` are not compiled; LevelDB, secp256k1, json and univalue are
  third-party code. A LevelDB batch is taken to be atomic.

## 6. Plan

Done: coin views, block index, check queue, block download, memory pool with orphans,
block files with pruning, wallet keys. What is left, in this order:

1. **Block connection**: `UpdateCoins` and `ApplyTxInUndo`; `DisconnectBlock` is the
   inverse of `ConnectBlock` (composition with `CoinsCache`).
2. **Pruning and activation together**: a candidate whose data was pruned goes back
   into `mapBlocksUnlinked` (`main.cpp:2133`); `BlockFiles` composed with `BlockIndex`;
   then reindexing.
3. **Address manager**: agreement of `mapInfo`, `mapAddr`, `vRandom` and both tables.
4. **Pure algorithms** over small widths: Kimoto Gravity Well and its limits, compact
   bits, `GetBlockValue`, `CPartialMerkleTree` against a reference.
5. **Wallet transactions**: spent tracking under reorganisations.
6. **Alerts, bans, network time**: small modules.

Theorems worth having next: those of the components above, as they are modelled.
