------------------------------- MODULE TxPool -------------------------------
(***************************************************************************)
(* The memory pool and the orphan transactions (txmempool.cpp, main.cpp):  *)
(* what AcceptToMemoryPool takes in, what a connected or a disconnected    *)
(* block takes out, and the orphans that a "tx" message may resolve.       *)
(*                                                                         *)
(* Every operation holds cs_main from its first to its last step, so one   *)
(* runs at a time; pc says which.  ConnectTip is one step; the loops that  *)
(* call AcceptToMemoryPool several times (DisconnectTip, the orphan loop of*)
(* the "tx" message) take one step per call.                               *)
(*                                                                         *)
(* The coins of pcoinsTip are given by the active chain (this is what      *)
(* CoinsCache shows): height[t] is the height of the block that holds t, 0 *)
(* when none does.  The order of the transactions of a block is any order  *)
(* in which parents come first.                                            *)
(***************************************************************************)
EXTENDS Naturals, FiniteSets, Sequences

CONSTANTS
    Txs,                \* transactions that are not coinbases
    Coinbases,          \* coinbase transactions
    Outpoints,          \* outpoints that some transaction spends
    hash,               \* COutPoint::hash of each outpoint
    vout,               \* the outpoints that are outputs of their transaction
    vin,                \* the outpoints each transaction spends
    nLockTime,          \* a block height; 0 when there is no lock
    CoinbaseHeight,     \* the height written in a coinbase (BIP 34)
    COINBASE_MATURITY,
    MaxHeight,          \* bound on the height of the chain
    Peers,
    nMaxOrphanTx        \* -maxorphantx

AllTxs == Txs \cup Coinbases

ASSUME TxAssumption ==
    /\ Txs \cap Coinbases = {}
    /\ hash \in [Outpoints -> AllTxs]
    /\ vout \subseteq Outpoints
    /\ vin \in [AllTxs -> SUBSET Outpoints]
    /\ \A c \in Coinbases : vin[c] = {}
    /\ \A t \in Txs : vin[t] # {}
    /\ nLockTime \in [Txs -> Nat]
    /\ CoinbaseHeight \in [Coinbases -> Nat \ {0}]

ASSUME BoundAssumption ==
    /\ COINBASE_MATURITY \in Nat \ {0}
    /\ MaxHeight \in Nat
    /\ nMaxOrphanTx \in Nat
    /\ IsFiniteSet(Txs)

VARIABLES
    nHeight, height,    \* pcoinsTip: its best block's height; where each transaction is
    mapTx, mapNextTx,   \* CTxMemPool: its transactions; who spends an outpoint
    mapOrphanTransactions,          \* orphan -> the peer it came from
    mapOrphanTransactionsByPrev,    \* missing parent -> the orphans that spend it
    pc,                 \* "idle", "orphans" (a "tx" message), "resurrect" (DisconnectTip)
    todo,               \* transactions of the disconnected block not yet looked at;
                        \* orphans of the current parent not yet looked at
    vWorkQueue, nWork,              \* locals of the "tx" message: the accepted
    vEraseQueue, setMisbehaving,    \* transactions and the index of the current one
    poolBefore          \* auxiliary: mapTx when the "tx" message came

chainVars == <<nHeight, height>>
poolVars == <<mapTx, mapNextTx>>
orphanVars == <<mapOrphanTransactions, mapOrphanTransactionsByPrev>>
queueVars == <<vWorkQueue, nWork, vEraseQueue, setMisbehaving, poolBefore>>
loopVars == <<pc, todo, queueVars>>
vars == <<chainVars, poolVars, orphanVars, loopVars>>

Orphans == DOMAIN mapOrphanTransactions
Parents(t) == {hash[o] : o \in vin[t]}
-----------------------------------------------------------------------------
(***************************************************************************)
(* The coins of the active chain.                                          *)
(***************************************************************************)
Confirmed(t) == height[t] # 0
Spent(o) == \E t \in AllTxs : Confirmed(t) /\ o \in vin[t]
IsCoin(o) == o \in vout /\ Confirmed(hash[o]) /\ ~Spent(o)

\* CCoinsViewMemPool on pcoinsTip; a transaction whose outputs are all
\* spent is pruned, and HaveCoins does not see it.
HaveCoins(t) == t \in mapTx \/ \E o \in vout : hash[o] = t /\ IsCoin(o)
Available(o) == o \in vout /\ (hash[o] \in mapTx \/ IsCoin(o))

\* The maturity test of CheckInputs, for a spend in the next block.
Mature(o) ==
    hash[o] \in Coinbases =>
        nHeight + 1 >= height[hash[o]] + COINBASE_MATURITY

\* IsFinalTx, with a lock by height
IsFinalTx(t, h) == nLockTime[t] < h
ActiveHeight == IF pc = "resurrect" THEN nHeight + 1 ELSE nHeight

(***************************************************************************)
(* What ContextualCheckBlock and ConnectBlock require of the transactions  *)
(* of the next block.                                                      *)
(***************************************************************************)
BlockValid(T) ==
    /\ \A t \in T :
          /\ ~Confirmed(t)
          /\ IsFinalTx(t, nHeight + 1)
          /\ \A o \in vin[t] :
                \/ IsCoin(o) /\ Mature(o)
                \/ o \in vout /\ hash[o] \in T
    /\ \A t, u \in T : t # u => vin[t] \cap vin[u] = {}
-----------------------------------------------------------------------------
(***************************************************************************)
(* AcceptToMemoryPool.  It may refuse any transaction for a reason that is *)
(* not modelled (standardness, fee, priority, rate, signatures).           *)
(***************************************************************************)
Conflicts(t) == vin[t] \cap DOMAIN mapNextTx # {}

Acceptable(t) ==
    /\ IsFinalTx(t, ActiveHeight + 1)
    /\ t \notin mapTx
    /\ ~Conflicts(t)
    /\ ~HaveCoins(t)
    /\ \A o \in vin[t] : Available(o) /\ Mature(o)

\* The refusal that sets pfMissingInputs.
MissingInputs(t) ==
    /\ IsFinalTx(t, ActiveHeight + 1)
    /\ t \notin mapTx
    /\ ~Conflicts(t)
    /\ ~HaveCoins(t)
    /\ \E o \in vin[t] : ~HaveCoins(hash[o])

NextTxWith(t) ==
    [o \in DOMAIN mapNextTx \cup vin[t] |->
        IF o \in vin[t] THEN t ELSE mapNextTx[o]]

addUnchecked(t) ==
    /\ mapTx' = mapTx \cup {t}
    /\ mapNextTx' = NextTxWith(t)

Ins(S) == UNION {vin[t] : t \in S}
NextTxKept(S) == mapNextTx
NextTxWithout(S) == [o \in DOMAIN mapNextTx \ Ins(S) |-> mapNextTx[o]]

\* Closed under "the transaction that spends one of its outputs".
ClosedUnderSpending(S) ==
    \A o \in DOMAIN mapNextTx \cap vout : hash[o] \in S => mapNextTx[o] \in S

(***************************************************************************)
(* CTxMemPool::remove(tx, removed, true) of every transaction of R: the    *)
(* transactions of the pool that are in R or reached from R, through       *)
(* mapNextTx, whether or not the members of R are in the pool themselves.  *)
(***************************************************************************)
WithDescendants(R) ==
    {d \in mapTx : \A S \in SUBSET (mapTx \cup R) :
        R \subseteq S /\ ClosedUnderSpending(S) => d \in S}

removeRecursive(R) ==
    /\ mapTx' = mapTx \ WithDescendants(R)
    /\ mapNextTx' = NextTxWithout(WithDescendants(R))

(***************************************************************************)
(* removeForBlock: the block's transactions alone (remove(..., false)),    *)
(* then whatever still spends an input of the block, with its descendants. *)
(* (No descendant of a conflict is in the block: the block is valid.)      *)
(***************************************************************************)
ConflictsOfBlock(T) ==
    {mapNextTx[o] : o \in {p \in DOMAIN mapNextTx \ Ins(T \cap mapTx) : p \in Ins(T)}}

RemovedForBlockRecursive(T) == WithDescendants(T \cup ConflictsOfBlock(T))
RemovedForBlock(T) ==
    (T \cap mapTx) \cup (WithDescendants(ConflictsOfBlock(T)) \ T)

removeForBlock(T) ==
    /\ mapTx' = mapTx \ RemovedForBlock(T)
    /\ mapNextTx' = NextTxWithout(RemovedForBlock(T))

\* removeCoinbaseSpends: those whose coin is gone or now immature.  (The cache
\* may still hold a spent-out entry of a coin that is gone, and the code then
\* keeps the transaction; but by this time no transaction has such a coin.)
CoinbaseSpendsOneLate ==
    {t \in mapTx : \E o \in vin[t] :
        /\ hash[o] \notin mapTx
        /\ \/ ~HaveCoins(hash[o])
           \/ hash[o] \in Coinbases /\ nHeight + 2 < height[hash[o]] + COINBASE_MATURITY}
CoinbaseSpends ==
    {t \in mapTx : \E o \in vin[t] :
        hash[o] \notin mapTx /\ (~HaveCoins(hash[o]) \/ ~Mature(o))}
-----------------------------------------------------------------------------
(***************************************************************************)
(* Orphan transactions.                                                    *)
(***************************************************************************)
\* The orphans mapOrphanTransactionsByPrev lists under p once S is erased.
OrphansLeftUnderFirst(p, S) ==
    mapOrphanTransactionsByPrev[p] \ {o \in S \cap Orphans : p = CHOOSE q \in Parents(o) : TRUE}
OrphansLeft(p, S) ==
    mapOrphanTransactionsByPrev[p] \ {o \in S \cap Orphans : p \in Parents(o)}

\* EraseOrphanTx of every transaction of S (EraseOrphansFor,
\* LimitOrphanTxSize, the end of the "tx" message).  For an orphan that
\* spends one parent twice the second find() may return end(), which the
\* code dereferences: either nothing comes of it, or the process dies,
\* which is Restart.
EraseOrphans(S) ==
    /\ mapOrphanTransactions' =
          [o \in Orphans \ S |-> mapOrphanTransactions[o]]
    /\ mapOrphanTransactionsByPrev' =
          [p \in {q \in DOMAIN mapOrphanTransactionsByPrev : OrphansLeft(q, S) # {}}
                |-> OrphansLeft(p, S)]

\* What is listed under p once orphan t is stored.
OrphansWith(p, t) ==
    (IF p \in DOMAIN mapOrphanTransactionsByPrev
     THEN mapOrphanTransactionsByPrev[p] ELSE {})
    \cup (IF p \in Parents(t) THEN {t} ELSE {})

\* LimitOrphanTxSize: random orphans are evicted until at most nMaxOrphanTx
\* remain.
LimitOrphanTxSize(stored, evicted) ==
    /\ evicted \subseteq stored
    /\ IF Cardinality(stored) <= nMaxOrphanTx
       THEN evicted = {}
       ELSE Cardinality(stored \ evicted) = nMaxOrphanTx

\* AddOrphanTx, and the eviction that follows it: t may be among the evicted.
AddOrphanTx(t, p, evicted) ==
    LET stored == Orphans \cup {t}
        left(q) == OrphansWith(q, t) \ {o \in evicted : q \in Parents(o)}
    IN  /\ LimitOrphanTxSize(stored, evicted)
        /\ mapOrphanTransactions' =
              [o \in stored \ evicted |-> IF o = t THEN p ELSE mapOrphanTransactions[o]]
        /\ mapOrphanTransactionsByPrev' =
              [q \in {r \in DOMAIN mapOrphanTransactionsByPrev \cup Parents(t) :
                        left(r) # {}} |-> left(q)]

-----------------------------------------------------------------------------
Init ==
    /\ nHeight = 0 /\ height = [t \in AllTxs |-> 0]
    /\ mapTx = {} /\ mapNextTx = [o \in {} |-> {}]
    /\ mapOrphanTransactions = [o \in {} |-> {}]
    /\ mapOrphanTransactionsByPrev = [p \in {} |-> {}]
    /\ pc = "idle" /\ todo = {}
    /\ vWorkQueue = <<>> /\ nWork = 0 /\ vEraseQueue = {} /\ setMisbehaving = {}
    /\ poolBefore = {}

\* sendrawtransaction, CommitTransaction, ReacceptWalletTransactions
SubmitTransaction(t) ==
    /\ pc = "idle"
    /\ Acceptable(t)
    /\ addUnchecked(t)
    /\ UNCHANGED <<chainVars, orphanVars, loopVars>>

\* The orphans that wait for t.
WaitingFor(t) ==
    IF t \in DOMAIN mapOrphanTransactionsByPrev THEN mapOrphanTransactionsByPrev[t] ELSE {}

\* "tx" message: accepted, and the orphans that depend on it come next.
TxAccepted(t) ==
    /\ pc = "idle"
    /\ Acceptable(t)
    /\ addUnchecked(t)
    /\ pc' = "orphans"
    /\ todo' = WaitingFor(t)
    /\ vWorkQueue' = <<t>> /\ nWork' = 1
    /\ vEraseQueue' = {t}
    /\ setMisbehaving' = {}
    /\ poolBefore' = mapTx
    /\ UNCHANGED <<chainVars, orphanVars>>

\* "tx" message: some parent is unknown.
TxMissingInputs(t, p) ==
    /\ pc = "idle"
    /\ MissingInputs(t)
    /\ t \notin Orphans
    /\ \E evicted \in SUBSET (Orphans \cup {t}) : AddOrphanTx(t, p, evicted)
    /\ UNCHANGED <<chainVars, poolVars, loopVars>>

QueueWithoutOrphan(o) == vWorkQueue
QueueWith(o) == Append(vWorkQueue, o)

(***************************************************************************)
(* One turn of the inner loop: the orphan will be erased whatever comes of *)
(* it; unless its peer misbehaved it is tried, and if refused as invalid   *)
(* its peer is not listened to again in this message.                      *)
(***************************************************************************)
TryOrphan(o) ==
    /\ pc = "orphans"
    /\ o \in todo
    /\ todo' = todo \ {o}
    /\ vEraseQueue' = vEraseQueue \cup {o}
    /\ \/ /\ mapOrphanTransactions[o] \notin setMisbehaving
          /\ Acceptable(o)
          /\ addUnchecked(o)
          /\ vWorkQueue' = QueueWith(o)
          /\ UNCHANGED setMisbehaving
       \/ /\ mapOrphanTransactions[o] \notin setMisbehaving
          /\ ~MissingInputs(o)
          /\ setMisbehaving' = setMisbehaving \cup {mapOrphanTransactions[o]}
          /\ UNCHANGED <<poolVars, vWorkQueue>>
       \/ UNCHANGED <<poolVars, vWorkQueue, setMisbehaving>>
    /\ UNCHANGED <<chainVars, orphanVars, pc, nWork, poolBefore>>

WorkNotDone == nWork
WorkDone == nWork + 1

\* The outer loop goes on to the next accepted transaction.
NextParent ==
    /\ pc = "orphans"
    /\ todo = {}
    /\ nWork < Len(vWorkQueue)
    /\ nWork' = WorkDone
    /\ todo' = WaitingFor(vWorkQueue[nWork + 1])
    /\ UNCHANGED <<chainVars, poolVars, orphanVars, pc, vWorkQueue, vEraseQueue,
                   setMisbehaving, poolBefore>>

EraseQueue ==
    /\ pc = "orphans"
    /\ todo = {}
    /\ nWork = Len(vWorkQueue)
    /\ EraseOrphans(vEraseQueue)
    /\ pc' = "idle"
    /\ vWorkQueue' = <<>> /\ nWork' = 0 /\ vEraseQueue' = {} /\ setMisbehaving' = {}
    /\ poolBefore' = {}
    /\ UNCHANGED <<chainVars, poolVars, todo>>

\* FinalizeNode: EraseOrphansFor
EraseOrphansFor(p) ==
    /\ pc = "idle"
    /\ EraseOrphans({o \in Orphans : mapOrphanTransactions[o] = p})
    /\ UNCHANGED <<chainVars, poolVars, loopVars>>

ConnectTip(c, T) ==
    /\ pc = "idle"
    /\ nHeight < MaxHeight
    /\ CoinbaseHeight[c] = nHeight + 1
    /\ BlockValid(T)
    /\ nHeight' = nHeight + 1
    /\ height' = [t \in AllTxs |-> IF t \in T \cup {c} THEN nHeight + 1 ELSE height[t]]
    /\ removeForBlock(T)
    /\ UNCHANGED <<orphanVars, loopVars>>

DisconnectTip ==
    /\ pc = "idle"
    /\ nHeight > 0
    /\ nHeight' = nHeight - 1
    /\ height' = [t \in AllTxs |-> IF height[t] = nHeight THEN 0 ELSE height[t]]
    /\ todo' = {t \in AllTxs : height[t] = nHeight}
    /\ pc' = "resurrect"
    /\ UNCHANGED <<poolVars, orphanVars, queueVars>>

\* The next transaction of the block: the coinbase, then parents first.
IsNext(t) ==
    /\ t \in todo
    /\ t \in Coinbases \/ todo \cap Coinbases = {}
    /\ Parents(t) \cap todo = {}

Resurrect(t) ==
    /\ pc = "resurrect"
    /\ IsNext(t)
    /\ todo' = todo \ {t}
    /\ \/ t \in Txs /\ Acceptable(t) /\ addUnchecked(t)
       \/ removeRecursive({t})
    /\ UNCHANGED <<chainVars, orphanVars, pc, queueVars>>

\* The end of DisconnectTip, up to UpdateTip.
RemoveCoinbaseSpends ==
    /\ pc = "resurrect"
    /\ todo = {}
    /\ removeRecursive(CoinbaseSpends)
    /\ pc' = "idle"
    /\ UNCHANGED <<chainVars, orphanVars, todo, queueVars>>

\* The process ends; UnloadBlockIndex clears what only memory held.
Restart ==
    /\ mapTx' = {} /\ mapNextTx' = [o \in {} |-> {}]
    /\ mapOrphanTransactions' = [o \in {} |-> {}]
    /\ mapOrphanTransactionsByPrev' = [p \in {} |-> {}]
    /\ pc' = "idle" /\ todo' = {}
    /\ vWorkQueue' = <<>> /\ nWork' = 0 /\ vEraseQueue' = {} /\ setMisbehaving' = {}
    /\ poolBefore' = {}
    /\ UNCHANGED chainVars

TxMessage(t, p) == TxAccepted(t) \/ TxMissingInputs(t, p)
TxLoop == (\E o \in Txs : TryOrphan(o)) \/ NextParent \/ EraseQueue

Next ==
    \/ \E t \in Txs : SubmitTransaction(t)
    \/ \E t \in Txs, p \in Peers : TxMessage(t, p)
    \/ TxLoop
    \/ \E p \in Peers : EraseOrphansFor(p)
    \/ \E c \in Coinbases, T \in SUBSET Txs : ConnectTip(c, T)
    \/ DisconnectTip
    \/ \E t \in AllTxs : Resurrect(t)
    \/ RemoveCoinbaseSpends
    \/ Restart

\* The thread that processes a "tx" message runs on.
Fairness == WF_vars(TxLoop)

Spec == Init /\ [][Next]_vars
FairSpec == Spec /\ Fairness
-----------------------------------------------------------------------------
TypeOK ==
    /\ nHeight \in Nat
    /\ height \in [AllTxs -> Nat]
    /\ mapTx \subseteq Txs
    /\ DOMAIN mapNextTx \subseteq Outpoints
    /\ mapNextTx \in [DOMAIN mapNextTx -> Txs]
    /\ Orphans \subseteq Txs
    /\ mapOrphanTransactions \in [Orphans -> Peers]
    /\ mapOrphanTransactionsByPrev \in [DOMAIN mapOrphanTransactionsByPrev -> SUBSET Txs]
    /\ pc \in {"idle", "orphans", "resurrect"}
    /\ todo \subseteq AllTxs
    /\ vWorkQueue \in Seq(Txs)
    /\ nWork \in Nat
    /\ vEraseQueue \subseteq Txs
    /\ setMisbehaving \subseteq Peers
    /\ poolBefore \subseteq Txs

(***************************************************************************)
(* What CreateNewBlock may collect: transactions that are final and come   *)
(* with the parents they have in the pool, any others being left out for   *)
(* size or fee.                                                            *)
(***************************************************************************)
Templates ==
    {T \in SUBSET mapTx : \A t \in T :
        IsFinalTx(t, nHeight + 1) /\ Parents(t) \cap mapTx \subseteq T}

(***************************************************************************)
(* Whatever CreateNewBlock collects from the pool makes a valid block: its *)
(* HaveInputs and CheckInputs never have to skip a transaction, and its    *)
(* TestBlockValidity never throws.  In particular every input of the pool  *)
(* is there, mature and spent once, after any reorganisation.              *)
(***************************************************************************)
PoolMinable == pc # "resurrect" => \A T \in Templates : BlockValid(T)

(***************************************************************************)
(* mapNextTx says exactly which transaction of the pool spends what, as    *)
(* CTxMemPool::check asserts, at every step.                               *)
(***************************************************************************)
NextTxExact ==
    /\ DOMAIN mapNextTx = Ins(mapTx)
    /\ \A t \in mapTx : \A o \in vin[t] : mapNextTx[o] = t

(***************************************************************************)
(* A transaction leaves the pool only because it is in the chain now or    *)
(* one of its inputs cannot be spent in the next block: removals take out  *)
(* no more than they must (a restart empties the pool).                    *)
(***************************************************************************)
OnlyUnspendableLeave ==
    [][Restart \/
        \A t \in mapTx \ mapTx' :
            \/ height'[t] # 0
            \/ \E o \in vin[t] : ~(Available(o)' /\ Mature(o)')]_vars

(***************************************************************************)
(* mapOrphanTransactionsByPrev lists every orphan under each of its        *)
(* parents and nothing else, whatever was added, evicted, resolved or      *)
(* dropped with its peer.                                                  *)
(***************************************************************************)
OrphanIndexExact ==
    /\ DOMAIN mapOrphanTransactionsByPrev = UNION {Parents(o) : o \in Orphans}
    /\ \A p \in DOMAIN mapOrphanTransactionsByPrev :
          mapOrphanTransactionsByPrev[p] = {o \in Orphans : p \in Parents(o)}

(***************************************************************************)
(* When a "tx" message is done no orphan is left that waits for a          *)
(* transaction it accepted, the orphans it accepted on the way included.   *)
(***************************************************************************)
OrphansResolved ==
    [][pc = "orphans" /\ pc' = "idle" =>
        \A t \in mapTx \ poolBefore : \A o \in Orphans' : t \notin Parents(o)]_vars

\* The orphan loop of a "tx" message ends: cs_main is given back.
TxMessageEnds == pc = "orphans" ~> pc = "idle"
=============================================================================
