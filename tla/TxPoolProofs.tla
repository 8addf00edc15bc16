---------------------------- MODULE TxPoolProofs ----------------------------
(***************************************************************************)
(* Proofs about TxPool, for every set of transactions, chain and pool.     *)
(* The pool and the orphans are proved apart: PoolInv never mentions the   *)
(* orphans.                                                                *)
(***************************************************************************)
EXTENDS TxPool, TLAPS

(***************************************************************************)
(* The inductive invariant of the pool.                                    *)
(***************************************************************************)
\* The chain: a transaction comes no earlier than what it spends.
ChainSound ==
    /\ \A t \in AllTxs : height[t] <= nHeight
    /\ \A c \in Coinbases : Confirmed(c) => height[c] = CoinbaseHeight[c]
    /\ \A t \in Txs : Confirmed(t) =>
          \A o \in vin[t] : Confirmed(hash[o]) /\ height[hash[o]] <= height[t]

\* Nothing in the pool, and nothing still to be resurrected, is in the chain.
PoolUnconfirmed ==
    /\ \A t \in mapTx : ~Confirmed(t)
    /\ pc = "resurrect" => todo \cap mapTx = {} /\ \A t \in todo : ~Confirmed(t)

\* An input is an output of the pool, a coin, or an output of a transaction
\* that DisconnectTip has still to look at.
InputsThere ==
    \A t \in mapTx : \A o \in vin[t] :
        /\ o \in vout
        /\ \/ hash[o] \in mapTx
           \/ IsCoin(o)
           \/ pc = "resurrect" /\ hash[o] \in todo

InputsMature ==
    pc # "resurrect" => \A t \in mapTx : \A o \in vin[t] : Mature(o)

\* The orphan loop only looks at orphans.
TodoOrphans == pc = "orphans" => todo \subseteq Orphans

PoolInv ==
    /\ TypeOK
    /\ NextTxExact
    /\ ChainSound
    /\ PoolUnconfirmed
    /\ InputsThere
    /\ InputsMature
-----------------------------------------------------------------------------
(***************************************************************************)
(* What recursive removal takes out.                                       *)
(***************************************************************************)
\* The removed transactions are in the pool, contain R's part of the pool,
\* and contain whatever spends an output of theirs or of R.
LEMMA DescendantsClosed ==
    ASSUME TypeOK, NextTxExact, NEW R \in SUBSET AllTxs
    PROVE  /\ WithDescendants(R) \subseteq mapTx
           /\ R \cap mapTx \subseteq WithDescendants(R)
           /\ \A t \in mapTx : \A o \in vin[t] :
                 o \in vout /\ hash[o] \in WithDescendants(R) \cup R
                     => t \in WithDescendants(R)
<1>1. WithDescendants(R) \subseteq mapTx
  BY DEF WithDescendants
<1>2. R \cap mapTx \subseteq WithDescendants(R)
  BY DEF WithDescendants
<1>3. ASSUME NEW t \in mapTx, NEW o \in vin[t], o \in vout,
             hash[o] \in WithDescendants(R) \cup R
      PROVE  t \in WithDescendants(R)
  <2>1. o \in DOMAIN mapNextTx \cap vout /\ mapNextTx[o] = t
    BY <1>3 DEF NextTxExact, Ins
  <2>2. ASSUME NEW S \in SUBSET (mapTx \cup R), R \subseteq S, ClosedUnderSpending(S)
        PROVE  t \in S
    <3>1. hash[o] \in S
      BY <1>3, <2>2 DEF WithDescendants
    <3>. QED  BY <2>1, <2>2, <3>1 DEF ClosedUnderSpending
  <2>. QED  BY <2>2 DEF WithDescendants
<1>. QED  BY <1>1, <1>2, <1>3

\* A removed transaction that is not in R spends an output of a removed one
\* or of R.
LEMMA DescendantsLeast ==
    ASSUME TypeOK, NextTxExact, NEW R \in SUBSET AllTxs,
           NEW d \in WithDescendants(R), d \notin R
    PROVE  \E o \in vin[d] : hash[o] \in WithDescendants(R) \cup R
<1>. DEFINE D == WithDescendants(R)
            S == (D \cup R) \ {d}
<1>1. SUFFICES ASSUME \A o \in vin[d] : hash[o] \notin D \cup R
               PROVE  FALSE
  OBVIOUS
<1>2. D \subseteq mapTx
  BY DescendantsClosed
<1>3. S \in SUBSET (mapTx \cup R) /\ R \subseteq S
  BY <1>2
<1>4. ClosedUnderSpending(S)
  <2>. SUFFICES ASSUME NEW o \in DOMAIN mapNextTx \cap vout, hash[o] \in S
                PROVE  mapNextTx[o] \in S
    BY DEF ClosedUnderSpending
  <2>1. PICK t \in mapTx : o \in vin[t]
    BY DEF NextTxExact, Ins
  <2>2. mapNextTx[o] = t
    BY <2>1 DEF NextTxExact
  <2>3. t \in D
    BY <2>1, DescendantsClosed
  <2>4. t # d
    BY <1>1, <2>1
  <2>. QED  BY <2>2, <2>3, <2>4
<1>. QED  BY <1>3, <1>4 DEF WithDescendants

LEMMA NextTxAfterRemoval ==
    ASSUME TypeOK, NextTxExact, NEW S \in SUBSET mapTx,
           mapTx' = mapTx \ S, mapNextTx' = NextTxWithout(S)
    PROVE  /\ NextTxExact'
           /\ DOMAIN mapNextTx' \subseteq Outpoints
           /\ mapNextTx' \in [DOMAIN mapNextTx' -> Txs]
<1>1. DOMAIN mapNextTx' = DOMAIN mapNextTx \ Ins(S)
  BY DEF NextTxWithout
<1>2. \A o \in DOMAIN mapNextTx' : mapNextTx'[o] = mapNextTx[o]
  BY DEF NextTxWithout
<1>3. \A t \in mapTx \ S : vin[t] \cap Ins(S) = {}
  BY DEF NextTxExact, Ins
<1>4. Ins(mapTx \ S) = Ins(mapTx) \ Ins(S)
  BY <1>3 DEF Ins
<1>5. NextTxExact'
  <2>1. DOMAIN mapNextTx' = Ins(mapTx')
    BY <1>1, <1>4 DEF NextTxExact
  <2>2. \A t \in mapTx' : \A o \in vin[t] : mapNextTx'[o] = t
    <3>. SUFFICES ASSUME NEW t \in mapTx', NEW o \in vin[t]
                  PROVE  mapNextTx'[o] = t
      OBVIOUS
    <3>1. o \in Ins(mapTx')
      BY DEF Ins
    <3>. QED  BY <3>1, <2>1, <1>2 DEF NextTxExact
  <2>. QED  BY <2>1, <2>2 DEF NextTxExact, Ins
<1>. QED  BY <1>1, <1>2, <1>5 DEF TypeOK, NextTxWithout

LEMMA NextTxAfterAdding ==
    ASSUME TypeOK, NextTxExact, NEW t \in Txs, ~Conflicts(t), addUnchecked(t)
    PROVE  /\ NextTxExact'
           /\ DOMAIN mapNextTx' \subseteq Outpoints
           /\ mapNextTx' \in [DOMAIN mapNextTx' -> Txs]
<1>1. /\ DOMAIN mapNextTx' = DOMAIN mapNextTx \cup vin[t]
      /\ \A o \in DOMAIN mapNextTx' :
            mapNextTx'[o] = IF o \in vin[t] THEN t ELSE mapNextTx[o]
  BY DEF addUnchecked, NextTxWith
<1>2. Ins(mapTx \cup {t}) = Ins(mapTx) \cup vin[t]
  BY DEF Ins
<1>3. mapTx' = mapTx \cup {t}
  BY DEF addUnchecked
<1>4. DOMAIN mapNextTx' = Ins(mapTx')
  BY <1>1, <1>2, <1>3 DEF NextTxExact
<1>5. \A u \in mapTx' : \A o \in vin[u] : mapNextTx'[o] = u
  <2>. SUFFICES ASSUME NEW u \in mapTx', NEW o \in vin[u]
                PROVE  mapNextTx'[o] = u
    OBVIOUS
  <2>1. o \in DOMAIN mapNextTx'
    BY <1>4 DEF Ins
  <2>2. CASE u = t
    BY <2>1, <2>2, <1>1
  <2>3. CASE u \in mapTx
    <3>1. o \in DOMAIN mapNextTx /\ mapNextTx[o] = u
      BY <2>3 DEF NextTxExact, Ins
    <3>2. o \notin vin[t]
      BY <3>1 DEF Conflicts
    <3>. QED  BY <2>1, <3>1, <3>2, <1>1
  <2>. QED  BY <2>2, <2>3, <1>3
<1>6. DOMAIN mapNextTx' \subseteq Outpoints /\ vin[t] \in SUBSET Outpoints
  BY <1>1, TxAssumption DEF TypeOK, AllTxs
<1>7. mapNextTx' \in [DOMAIN mapNextTx' -> Txs]
  BY <1>1 DEF TypeOK, addUnchecked, NextTxWith
<1>. QED  BY <1>4, <1>5, <1>6, <1>7 DEF NextTxExact
-----------------------------------------------------------------------------
(***************************************************************************)
(* Every step keeps the types.                                             *)
(***************************************************************************)
LEMMA OrphanTypes ==
    ASSUME TypeOK, NEW S \in SUBSET Txs, EraseOrphans(S)
    PROVE  /\ Orphans' \subseteq Txs
           /\ mapOrphanTransactions' \in [Orphans' -> Peers]
           /\ mapOrphanTransactionsByPrev'
                \in [DOMAIN mapOrphanTransactionsByPrev' -> SUBSET Txs]
  BY DEF TypeOK, EraseOrphans, Orphans, OrphansLeft

LEMMA AddedOrphanTypes ==
    ASSUME TypeOK, NEW t \in Txs, NEW p \in Peers, NEW evicted, AddOrphanTx(t, p, evicted)
    PROVE  /\ Orphans' \subseteq Txs
           /\ mapOrphanTransactions' \in [Orphans' -> Peers]
           /\ mapOrphanTransactionsByPrev'
                \in [DOMAIN mapOrphanTransactionsByPrev' -> SUBSET Txs]
  BY DEF TypeOK, AddOrphanTx, Orphans, OrphansWith

LEMMA WaitingForTypes ==
    ASSUME TypeOK, NEW t
    PROVE  WaitingFor(t) \subseteq Txs
  BY DEF TypeOK, WaitingFor

LEMMA AddingTypes ==
    ASSUME TypeOK, NextTxExact, NEW t \in Txs, Acceptable(t), addUnchecked(t)
    PROVE  /\ mapTx' \subseteq Txs
           /\ DOMAIN mapNextTx' \subseteq Outpoints
           /\ mapNextTx' \in [DOMAIN mapNextTx' -> Txs]
<1>1. ~Conflicts(t)
  BY DEF Acceptable
<1>. QED  BY <1>1, NextTxAfterAdding DEF addUnchecked, TypeOK

LEMMA RemovalTypes ==
    ASSUME TypeOK, NextTxExact, NEW R \in SUBSET AllTxs, removeRecursive(R)
    PROVE  /\ mapTx' \subseteq Txs
           /\ DOMAIN mapNextTx' \subseteq Outpoints
           /\ mapNextTx' \in [DOMAIN mapNextTx' -> Txs]
<1>1. WithDescendants(R) \in SUBSET mapTx
  BY DescendantsClosed
<1>. QED  BY <1>1, NextTxAfterRemoval DEF removeRecursive, TypeOK

LEMMA BlockRemovalTypes ==
    ASSUME TypeOK, NextTxExact, NEW T \in SUBSET Txs, removeForBlock(T)
    PROVE  /\ mapTx' \subseteq Txs
           /\ NextTxExact'
           /\ DOMAIN mapNextTx' \subseteq Outpoints
           /\ mapNextTx' \in [DOMAIN mapNextTx' -> Txs]
<1>1. ConflictsOfBlock(T) \in SUBSET AllTxs
  BY DEF ConflictsOfBlock, TypeOK, AllTxs
<1>2. RemovedForBlock(T) \in SUBSET mapTx
  BY <1>1, DescendantsClosed DEF RemovedForBlock
<1>. QED  BY <1>2, NextTxAfterRemoval DEF removeForBlock, TypeOK

LEMMA TypeStep ==
    ASSUME TypeOK, NextTxExact, TodoOrphans, Next
    PROVE  TypeOK'
<1>1. ASSUME NEW t \in Txs, SubmitTransaction(t)
      PROVE  TypeOK'
  BY <1>1, AddingTypes
  DEF SubmitTransaction, TypeOK, chainVars, orphanVars, loopVars, queueVars, Orphans
<1>2. ASSUME NEW t \in Txs, TxAccepted(t)
      PROVE  TypeOK'
  BY <1>2, AddingTypes, WaitingForTypes
  DEF TxAccepted, TypeOK, chainVars, orphanVars, Orphans, AllTxs
<1>3. ASSUME NEW t \in Txs, NEW p \in Peers, TxMissingInputs(t, p)
      PROVE  TypeOK'
  BY <1>3, AddedOrphanTypes
  DEF TxMissingInputs, TypeOK, chainVars, poolVars, loopVars, queueVars
<1>4. ASSUME NEW o \in Txs, TryOrphan(o)
      PROVE  TypeOK'
  <2>1. QueueWith(o) \in Seq(Txs)
    BY DEF TypeOK, QueueWith
  <2>2. mapOrphanTransactions[o] \in Peers
    BY <1>4 DEF TypeOK, TryOrphan, TodoOrphans
  <2>3. setMisbehaving' \subseteq Peers /\ vWorkQueue' \in Seq(Txs)
    BY <1>4, <2>1, <2>2 DEF TryOrphan, TypeOK
  <2>4. /\ mapTx' \subseteq Txs
        /\ DOMAIN mapNextTx' \subseteq Outpoints
        /\ mapNextTx' \in [DOMAIN mapNextTx' -> Txs]
    BY <1>4, AddingTypes DEF TryOrphan, TypeOK, poolVars
  <2>. QED
    BY <1>4, <2>3, <2>4 DEF TryOrphan, TypeOK, chainVars, orphanVars, Orphans
<1>5. CASE NextParent
  BY <1>5, WaitingForTypes
  DEF NextParent, TypeOK, chainVars, poolVars, orphanVars, Orphans, WorkDone, AllTxs
<1>6. CASE EraseQueue
  <2>1. EraseOrphans(vEraseQueue) /\ vEraseQueue \in SUBSET Txs
    BY <1>6 DEF EraseQueue, TypeOK
  <2>2. vWorkQueue' \in Seq(Txs)
    BY <1>6 DEF EraseQueue
  <2>. QED
    BY <1>6, <2>1, <2>2, OrphanTypes DEF EraseQueue, TypeOK, chainVars, poolVars
<1>7. ASSUME NEW p \in Peers, EraseOrphansFor(p)
      PROVE  TypeOK'
  <2>. DEFINE S == {o \in Orphans : mapOrphanTransactions[o] = p}
  <2>1. EraseOrphans(S) /\ S \in SUBSET Txs
    BY <1>7 DEF EraseOrphansFor, TypeOK
  <2>. HIDE DEF S
  <2>. QED
    BY <1>7, <2>1, OrphanTypes
    DEF EraseOrphansFor, TypeOK, chainVars, poolVars, loopVars, queueVars
<1>8. ASSUME NEW c \in Coinbases, NEW T \in SUBSET Txs, ConnectTip(c, T)
      PROVE  TypeOK'
  BY <1>8, BlockRemovalTypes
  DEF ConnectTip, TypeOK, orphanVars, loopVars, queueVars, Orphans
<1>9. CASE DisconnectTip
  BY <1>9 DEF DisconnectTip, TypeOK, poolVars, orphanVars, queueVars, Orphans
<1>10. ASSUME NEW t \in AllTxs, Resurrect(t)
       PROVE  TypeOK'
  <2>1. /\ mapTx' \subseteq Txs
        /\ DOMAIN mapNextTx' \subseteq Outpoints
        /\ mapNextTx' \in [DOMAIN mapNextTx' -> Txs]
    BY <1>10, AddingTypes, RemovalTypes DEF Resurrect
  <2>. QED
    BY <1>10, <2>1 DEF Resurrect, TypeOK, chainVars, orphanVars, queueVars, Orphans
<1>11. CASE RemoveCoinbaseSpends
  <2>1. removeRecursive(CoinbaseSpends) /\ CoinbaseSpends \in SUBSET AllTxs
    BY <1>11 DEF RemoveCoinbaseSpends, CoinbaseSpends, TypeOK, AllTxs
  <2>. QED
    BY <1>11, <2>1, RemovalTypes
    DEF RemoveCoinbaseSpends, TypeOK, chainVars, orphanVars, queueVars, Orphans
<1>12. CASE Restart
  BY <1>12 DEF Restart, TypeOK, chainVars, Orphans
<1>. QED
  BY <1>1, <1>2, <1>3, <1>4, <1>5, <1>6, <1>7, <1>8, <1>9, <1>10, <1>11, <1>12
  DEF Next, TxMessage, TxLoop
-----------------------------------------------------------------------------
(***************************************************************************)
(* Every step of the pool keeps PoolInv.                                   *)
(***************************************************************************)
PoolParts == NextTxExact /\ ChainSound /\ PoolUnconfirmed /\ InputsThere /\ InputsMature

\* What AcceptToMemoryPool takes is not in the chain: HaveCoins misses a
\* transaction whose outputs are all spent, but its inputs are spent too.
LEMMA AcceptableIsUnconfirmed ==
    ASSUME PoolInv, NEW t \in Txs, Acceptable(t)
    PROVE  ~Confirmed(t)
<1>. SUFFICES ASSUME Confirmed(t) PROVE FALSE
  OBVIOUS
<1>1. PICK o \in vin[t] : TRUE
  BY TxAssumption
<1>2. Confirmed(hash[o]) /\ Spent(o)
  BY <1>1 DEF PoolInv, ChainSound, Spent, AllTxs
<1>3. hash[o] \notin mapTx /\ ~IsCoin(o)
  BY <1>2 DEF PoolInv, PoolUnconfirmed, IsCoin
<1>. QED  BY <1>1, <1>3 DEF Acceptable, Available

LEMMA PoolAfterAdding ==
    ASSUME PoolInv, NEW t \in Txs, Acceptable(t), addUnchecked(t), UNCHANGED chainVars,
           \/ pc # "resurrect" /\ pc' # "resurrect"
           \/ pc = "resurrect" /\ pc' = "resurrect" /\ todo' = todo \ {t}
    PROVE  PoolParts'
<1>1. mapTx' = mapTx \cup {t} /\ nHeight' = nHeight /\ height' = height
  BY DEF addUnchecked, chainVars
<1>2. NextTxExact'
  BY NextTxAfterAdding DEF PoolInv, Acceptable
<1>3. ChainSound'
  BY <1>1 DEF PoolInv, ChainSound, Confirmed
<1>4. PoolUnconfirmed'
  BY <1>1, AcceptableIsUnconfirmed DEF PoolInv, PoolUnconfirmed, Confirmed
<1>5. InputsThere'
  BY <1>1 DEF PoolInv, InputsThere, IsCoin, Spent, Confirmed, Acceptable, Available
<1>6. InputsMature'
  BY <1>1 DEF PoolInv, InputsMature, Mature, Acceptable
<1>. QED  BY <1>2, <1>3, <1>4, <1>5, <1>6 DEF PoolParts

\* DisconnectTip: the removals that follow the block.
LEMMA PoolAfterRemoval ==
    ASSUME PoolInv, NEW R \in SUBSET AllTxs, removeRecursive(R), UNCHANGED chainVars,
           pc = "resurrect",
           \/ pc' = "resurrect" /\ todo' = todo \ R
           \/ pc' = "idle" /\ todo = {} /\ CoinbaseSpends \subseteq R
    PROVE  PoolParts'
<1>. DEFINE D == WithDescendants(R)
<1>1. /\ D \in SUBSET mapTx
      /\ R \cap mapTx \subseteq D
      /\ \A t \in mapTx : \A o \in vin[t] : o \in vout /\ hash[o] \in D \cup R => t \in D
  BY DescendantsClosed DEF PoolInv
<1>2. /\ mapTx' = mapTx \ D /\ mapNextTx' = NextTxWithout(D)
      /\ nHeight' = nHeight /\ height' = height
  BY DEF removeRecursive, chainVars
<1>. HIDE DEF D
<1>3. NextTxExact'
  BY <1>1, <1>2, NextTxAfterRemoval DEF PoolInv
<1>4. ChainSound'
  BY <1>2 DEF PoolInv, ChainSound, Confirmed
<1>5. PoolUnconfirmed'
  BY <1>2 DEF PoolInv, PoolUnconfirmed, Confirmed
<1>6. InputsThere'
  <2>. SUFFICES ASSUME NEW t \in mapTx', NEW o \in vin[t]
                PROVE  /\ o \in vout
                       /\ \/ hash[o] \in mapTx'
                          \/ IsCoin(o)'
                          \/ pc' = "resurrect" /\ hash[o] \in todo'
    BY DEF InputsThere
  <2>1. t \in mapTx /\ t \notin D
    BY <1>2
  <2>2. o \in vout /\ hash[o] \notin D /\ hash[o] \notin R
    BY <1>1, <2>1 DEF PoolInv, InputsThere
  <2>3. IsCoin(o)' <=> IsCoin(o)
    BY <1>2 DEF IsCoin, Spent, Confirmed
  <2>. QED  BY <1>2, <2>1, <2>2, <2>3 DEF PoolInv, InputsThere
<1>7. InputsMature'
  <2>. SUFFICES ASSUME pc' = "idle", CoinbaseSpends \subseteq R,
                       NEW t \in mapTx', NEW o \in vin[t]
                PROVE  Mature(o)
    BY <1>2 DEF InputsMature, Mature
  <2>1. t \in mapTx /\ t \notin CoinbaseSpends
    BY <1>1, <1>2
  <2>2. CASE hash[o] \in mapTx
    BY <2>2, TxAssumption DEF Mature, PoolInv, TypeOK
  <2>3. CASE hash[o] \notin mapTx
    BY <2>1, <2>3 DEF CoinbaseSpends
  <2>. QED  BY <2>2, <2>3
<1>. QED  BY <1>3, <1>4, <1>5, <1>6, <1>7 DEF PoolParts

\* The block itself holds nothing that descends from what it conflicts with.
LEMMA ConflictsApart ==
    ASSUME PoolInv, NEW T \in SUBSET Txs, BlockValid(T)
    PROVE  /\ ConflictsOfBlock(T) \in SUBSET mapTx
           /\ ConflictsOfBlock(T) \subseteq WithDescendants(ConflictsOfBlock(T))
           /\ WithDescendants(ConflictsOfBlock(T)) \cap T = {}
<1>. DEFINE C == ConflictsOfBlock(T)
            D == WithDescendants(C)
<1>1. ASSUME NEW t \in C
      PROVE  t \in mapTx /\ t \notin T
  <2>1. PICK o \in DOMAIN mapNextTx : o \notin Ins(T \cap mapTx) /\ o \in Ins(T) /\ t = mapNextTx[o]
    BY <1>1 DEF ConflictsOfBlock
  <2>2. t \in mapTx /\ o \in vin[t]
    BY <2>1 DEF PoolInv, NextTxExact, Ins
  <2>. QED  BY <2>1, <2>2 DEF Ins
<1>2. C \in SUBSET AllTxs
  BY <1>1 DEF PoolInv, TypeOK, AllTxs
<1>3. /\ D \subseteq mapTx
      /\ C \cap mapTx \subseteq D
      /\ \A t \in mapTx : \A o \in vin[t] : o \in vout /\ hash[o] \in D \cup C => t \in D
  BY <1>2, DescendantsClosed DEF PoolInv
<1>4. ClosedUnderSpending(D \ T)
  <2>. SUFFICES ASSUME NEW o \in DOMAIN mapNextTx \cap vout, hash[o] \in D \ T
                PROVE  mapNextTx[o] \in D \ T
    BY DEF ClosedUnderSpending
  <2>1. PICK t \in mapTx : o \in vin[t] /\ mapNextTx[o] = t
    BY DEF PoolInv, NextTxExact, Ins
  <2>2. t \in D
    BY <1>3, <2>1
  <2>3. ~Confirmed(hash[o])
    BY <1>3 DEF PoolInv, PoolUnconfirmed
  <2>4. t \notin T
    BY <2>1, <2>3 DEF BlockValid, IsCoin
  <2>. QED  BY <2>1, <2>2, <2>4
<1>5. D \ T \in SUBSET (mapTx \cup C) /\ C \subseteq D \ T
  BY <1>1, <1>3
<1>6. D \subseteq D \ T
  BY <1>4, <1>5 DEF WithDescendants
<1>. QED  BY <1>1, <1>3, <1>6

LEMMA ConnectTipKeepsPool ==
    ASSUME PoolInv, NEW c \in Coinbases, NEW T \in SUBSET Txs, ConnectTip(c, T)
    PROVE  PoolParts'
<1>. DEFINE C == ConflictsOfBlock(T)
            D == WithDescendants(C)
<1>1. /\ C \in SUBSET mapTx /\ C \subseteq D /\ D \cap T = {}
      /\ BlockValid(T)
  BY ConflictsApart DEF ConnectTip
<1>2. /\ D \in SUBSET mapTx
      /\ \A t \in mapTx : \A o \in vin[t] : o \in vout /\ hash[o] \in D => t \in D
  <2>1. C \in SUBSET AllTxs
    BY <1>1 DEF PoolInv, TypeOK, AllTxs
  <2>. QED  BY <2>1, DescendantsClosed DEF PoolInv
<1>3. mapTx' = mapTx \ (T \cup D)
  BY <1>1 DEF ConnectTip, removeForBlock, RemovedForBlock
<1>4. \A t \in mapTx : \A o \in vin[t] : o \in Ins(T) => t \in T \cup D
  <2>. SUFFICES ASSUME NEW t \in mapTx, NEW o \in vin[t], o \in Ins(T), t \notin T
                PROVE  t \in D
    OBVIOUS
  <2>1. o \in DOMAIN mapNextTx /\ mapNextTx[o] = t
    BY DEF PoolInv, NextTxExact, Ins
  <2>2. o \notin Ins(T \cap mapTx)
    BY <2>1 DEF PoolInv, NextTxExact, Ins
  <2>3. t \in C
    BY <2>1, <2>2 DEF ConflictsOfBlock
  <2>. QED  BY <2>3, <1>1
<1>. HIDE DEF C, D
<1>5. /\ nHeight' = nHeight + 1 /\ pc = "idle" /\ pc' = "idle" /\ nHeight \in Nat
      /\ height \in [AllTxs -> Nat]
      /\ c \in AllTxs /\ T \subseteq AllTxs /\ c \notin Txs
      /\ \A t \in AllTxs : height'[t] = IF t \in T \cup {c} THEN nHeight + 1 ELSE height[t]
  BY TxAssumption DEF ConnectTip, PoolInv, TypeOK, loopVars, AllTxs
<1>6. NextTxExact'
  BY BlockRemovalTypes DEF ConnectTip, PoolInv
<1>7. ~Confirmed(c) /\ CoinbaseHeight[c] = nHeight + 1
  BY <1>5 DEF PoolInv, ChainSound, Confirmed, ConnectTip
<1>8. ChainSound'
  <2>1. \A t \in AllTxs : height'[t] <= nHeight'
    BY <1>5 DEF PoolInv, ChainSound
  <2>2. \A d \in Coinbases : Confirmed(d)' => height'[d] = CoinbaseHeight[d]
    BY <1>5, <1>7, TxAssumption DEF PoolInv, ChainSound, Confirmed, AllTxs
  <2>3. ASSUME NEW t \in Txs, Confirmed(t)', NEW o \in vin[t]
        PROVE  Confirmed(hash[o])' /\ height'[hash[o]] <= height'[t]
    <3>0. t \in AllTxs /\ t # c /\ hash[o] \in AllTxs
      BY <1>5, TxAssumption DEF AllTxs
    <3>1. CASE t \in T
      <4>1. hash[o] \in T \/ Confirmed(hash[o])
        BY <1>1, <3>1 DEF BlockValid, IsCoin
      <4>2. height'[t] = nHeight + 1 /\ height'[hash[o]] <= nHeight + 1
        BY <1>5, <3>0, <3>1 DEF PoolInv, ChainSound
      <4>. QED  BY <1>5, <3>0, <4>1, <4>2 DEF Confirmed
    <3>2. CASE t \notin T
      <4>1. Confirmed(t)
        BY <1>5, <3>0, <3>2, <2>3 DEF Confirmed
      <4>2. Confirmed(hash[o]) /\ height[hash[o]] <= height[t]
        BY <4>1 DEF PoolInv, ChainSound
      <4>3. hash[o] \notin T \cup {c}
        BY <4>2, <1>7, <1>1 DEF BlockValid
      <4>. QED  BY <1>5, <3>0, <3>2, <4>2, <4>3 DEF Confirmed
    <3>. QED  BY <3>1, <3>2
  <2>. QED  BY <2>1, <2>2, <2>3 DEF ChainSound
<1>9. PoolUnconfirmed'
  <2>1. ASSUME NEW t \in mapTx' PROVE ~Confirmed(t)'
    <3>1. t \in mapTx /\ t \notin T /\ t # c /\ t \in AllTxs
      BY <1>3, <1>5 DEF PoolInv, TypeOK, AllTxs
    <3>. QED  BY <3>1, <1>5 DEF PoolInv, PoolUnconfirmed, Confirmed
  <2>. QED  BY <2>1, <1>5 DEF PoolUnconfirmed
<1>10. ASSUME NEW t \in mapTx', NEW o \in vin[t]
       PROVE  /\ o \in vout /\ (hash[o] \in mapTx' \/ IsCoin(o)')
              /\ Mature(o)'
  <2>1. t \in mapTx /\ t \notin T /\ t \notin D
    BY <1>3
  <2>2. o \in vout /\ hash[o] \in AllTxs
    BY <2>1, TxAssumption DEF PoolInv, InputsThere
  <2>3. o \notin Ins(T) /\ hash[o] \notin D
    BY <2>1, <2>2, <1>2, <1>4
  <2>4. Mature(o)
    BY <2>1, <1>5 DEF PoolInv, InputsMature
  <2>5. ASSUME NEW u \in AllTxs, Confirmed(u)', o \in vin[u]
        PROVE  Confirmed(u)
    <3>1. u \notin T
      BY <2>3, <2>5 DEF Ins
    <3>2. u # c
      BY <2>5, TxAssumption
    <3>. QED  BY <1>5, <2>5, <3>1, <3>2 DEF Confirmed
  <2>6. CASE hash[o] \in mapTx
    <3>1. hash[o] \notin Coinbases
      BY <2>6, TxAssumption DEF PoolInv, TypeOK
    <3>2. CASE hash[o] \in T
      <4>1. Confirmed(hash[o])' /\ ~Confirmed(hash[o])
        BY <1>1, <1>5, <2>2, <3>2 DEF Confirmed, BlockValid
      <4>2. ~Spent(o)'
        <5>. SUFFICES ASSUME NEW u \in AllTxs, Confirmed(u)', o \in vin[u] PROVE FALSE
          BY DEF Spent
        <5>1. Confirmed(u)
          BY <2>5
        <5>2. u \in Txs
          BY TxAssumption DEF AllTxs
        <5>. QED  BY <5>1, <5>2, <4>1 DEF PoolInv, ChainSound
      <4>. QED  BY <2>2, <3>1, <4>1, <4>2 DEF IsCoin, Mature
    <3>3. CASE hash[o] \notin T
      BY <1>3, <2>2, <2>3, <2>6, <3>1, <3>3 DEF Mature
    <3>. QED  BY <3>2, <3>3
  <2>7. CASE hash[o] \notin mapTx
    <3>1. IsCoin(o)
      BY <2>1, <2>7, <1>5 DEF PoolInv, InputsThere
    <3>2. hash[o] \notin T \cup {c}
      BY <3>1, <1>1, <1>7 DEF IsCoin, BlockValid
    <3>3. height'[hash[o]] = height[hash[o]]
      BY <1>5, <2>2, <3>2
    <3>4. ~Spent(o)'
      BY <2>5, <3>1 DEF IsCoin, Spent
    <3>5. IsCoin(o)'
      BY <3>1, <3>3, <3>4 DEF IsCoin, Confirmed
    <3>6. Mature(o)'
      BY <2>2, <2>4, <3>3, <1>5, BoundAssumption DEF Mature
    <3>. QED  BY <2>2, <3>5, <3>6
  <2>. QED  BY <2>6, <2>7
<1>11. InputsThere' /\ InputsMature'
  BY <1>10 DEF InputsThere, InputsMature
<1>. QED  BY <1>6, <1>8, <1>9, <1>11 DEF PoolParts

LEMMA DisconnectTipKeepsPool ==
    ASSUME PoolInv, DisconnectTip
    PROVE  PoolParts'
<1>1. /\ nHeight' = nHeight - 1 /\ nHeight > 0 /\ nHeight \in Nat
      /\ pc = "idle" /\ pc' = "resurrect"
      /\ height \in [AllTxs -> Nat]
      /\ todo' = {t \in AllTxs : height[t] = nHeight}
      /\ mapTx' = mapTx /\ mapNextTx' = mapNextTx /\ mapTx \subseteq AllTxs
      /\ \A t \in AllTxs : height'[t] = IF height[t] = nHeight THEN 0 ELSE height[t]
  BY DEF DisconnectTip, PoolInv, TypeOK, poolVars, AllTxs
<1>2. NextTxExact'
  BY <1>1 DEF PoolInv, NextTxExact, Ins
<1>3. ChainSound'
  <2>1. \A t \in AllTxs : height'[t] <= nHeight'
    BY <1>1 DEF PoolInv, ChainSound
  <2>2. \A d \in Coinbases : Confirmed(d)' => height'[d] = CoinbaseHeight[d]
    BY <1>1 DEF PoolInv, ChainSound, Confirmed, AllTxs
  <2>3. ASSUME NEW t \in Txs, Confirmed(t)', NEW o \in vin[t]
        PROVE  Confirmed(hash[o])' /\ height'[hash[o]] <= height'[t]
    <3>0. t \in AllTxs /\ hash[o] \in AllTxs
      BY TxAssumption DEF AllTxs
    <3>1. height[t] # nHeight /\ height'[t] = height[t] /\ Confirmed(t)
      BY <1>1, <2>3, <3>0 DEF Confirmed
    <3>2. height[t] <= nHeight
      BY <3>0 DEF PoolInv, ChainSound
    <3>3. Confirmed(hash[o]) /\ height[hash[o]] <= height[t]
      BY <3>1 DEF PoolInv, ChainSound
    <3>. QED  BY <1>1, <3>0, <3>1, <3>2, <3>3 DEF Confirmed
  <2>. QED  BY <2>1, <2>2, <2>3 DEF ChainSound
<1>4. PoolUnconfirmed'
  BY <1>1 DEF PoolInv, PoolUnconfirmed, Confirmed
<1>5. InputsThere'
  <2>. SUFFICES ASSUME NEW t \in mapTx, NEW o \in vin[t]
                PROVE  o \in vout /\ (hash[o] \in mapTx \/ IsCoin(o)' \/ hash[o] \in todo')
    BY <1>1 DEF InputsThere
  <2>1. o \in vout /\ (hash[o] \in mapTx \/ IsCoin(o)) /\ hash[o] \in AllTxs
    BY <1>1, TxAssumption DEF PoolInv, InputsThere
  <2>2. CASE IsCoin(o) /\ height[hash[o]] # nHeight
    <3>1. Confirmed(hash[o])'
      BY <1>1, <2>1, <2>2 DEF IsCoin, Confirmed
    <3>2. ~Spent(o)'
      BY <1>1, <2>2 DEF IsCoin, Spent, Confirmed
    <3>. QED  BY <2>1, <3>1, <3>2 DEF IsCoin
  <2>. QED  BY <1>1, <2>1, <2>2
<1>6. InputsMature'
  BY <1>1 DEF InputsMature
<1>. QED  BY <1>2, <1>3, <1>4, <1>5, <1>6 DEF PoolParts

LEMMA PoolStep ==
    ASSUME PoolInv, TodoOrphans, Next
    PROVE  PoolInv'
<1>. USE DEF PoolInv
<1>0. TypeOK'
  BY TypeStep
<1>. SUFFICES PoolParts'
  BY <1>0 DEF PoolParts
<1>1. ASSUME NEW t \in Txs, SubmitTransaction(t)
      PROVE  PoolParts'
  <2>1. pc # "resurrect" /\ pc' # "resurrect" /\ UNCHANGED chainVars
    BY <1>1 DEF SubmitTransaction, loopVars
  <2>. QED  BY <1>1, <2>1, PoolAfterAdding DEF SubmitTransaction
<1>2. ASSUME NEW t \in Txs, TxAccepted(t)
      PROVE  PoolParts'
  <2>1. pc # "resurrect" /\ pc' # "resurrect" /\ UNCHANGED chainVars
    BY <1>2 DEF TxAccepted
  <2>. QED  BY <1>2, <2>1, PoolAfterAdding DEF TxAccepted
<1>3. ASSUME UNCHANGED <<chainVars, poolVars>>, pc # "resurrect", pc' # "resurrect"
      PROVE  PoolParts'
  BY <1>3
  DEF PoolParts, NextTxExact, Ins, ChainSound, Confirmed, PoolUnconfirmed, InputsThere,
      InputsMature, Mature, IsCoin, Spent, chainVars, poolVars
<1>4. ASSUME NEW t \in Txs, NEW p \in Peers, TxMissingInputs(t, p)
      PROVE  PoolParts'
  BY <1>3, <1>4 DEF TxMissingInputs, loopVars
<1>5. ASSUME NEW o \in Txs, TryOrphan(o)
      PROVE  PoolParts'
  <2>1. pc # "resurrect" /\ pc' # "resurrect" /\ UNCHANGED chainVars
    BY <1>5 DEF TryOrphan
  <2>2. CASE Acceptable(o) /\ addUnchecked(o)
    BY <2>1, <2>2, PoolAfterAdding
  <2>3. CASE UNCHANGED poolVars
    BY <2>1, <2>3, <1>3
  <2>. QED  BY <1>5, <2>2, <2>3 DEF TryOrphan
<1>6. CASE NextParent \/ EraseQueue
  BY <1>3, <1>6 DEF NextParent, EraseQueue
<1>7. ASSUME NEW p \in Peers, EraseOrphansFor(p)
      PROVE  PoolParts'
  BY <1>3, <1>7 DEF EraseOrphansFor, loopVars
<1>8. ASSUME NEW c \in Coinbases, NEW T \in SUBSET Txs, ConnectTip(c, T)
      PROVE  PoolParts'
  BY <1>8, ConnectTipKeepsPool
<1>9. CASE DisconnectTip
  BY <1>9, DisconnectTipKeepsPool
<1>10. ASSUME NEW t \in AllTxs, Resurrect(t)
       PROVE  PoolParts'
  <2>1. pc = "resurrect" /\ pc' = "resurrect" /\ todo' = todo \ {t} /\ UNCHANGED chainVars
    BY <1>10 DEF Resurrect
  <2>2. CASE t \in Txs /\ Acceptable(t) /\ addUnchecked(t)
    BY <2>1, <2>2, PoolAfterAdding
  <2>3. CASE removeRecursive({t})
    BY <2>1, <2>3, PoolAfterRemoval
  <2>. QED  BY <1>10, <2>2, <2>3 DEF Resurrect
<1>11. CASE RemoveCoinbaseSpends
  <2>1. /\ pc = "resurrect" /\ pc' = "idle" /\ todo = {} /\ UNCHANGED chainVars
        /\ removeRecursive(CoinbaseSpends)
    BY <1>11 DEF RemoveCoinbaseSpends
  <2>2. CoinbaseSpends \in SUBSET AllTxs
    BY DEF CoinbaseSpends, TypeOK, AllTxs
  <2>. QED  BY <2>1, <2>2, PoolAfterRemoval
<1>12. CASE Restart
  BY <1>12
  DEF Restart, PoolParts, NextTxExact, Ins, ChainSound, Confirmed, PoolUnconfirmed,
      InputsThere, InputsMature, chainVars
<1>. QED
  BY <1>1, <1>2, <1>4, <1>5, <1>6, <1>7, <1>8, <1>9, <1>10, <1>11, <1>12
  DEF Next, TxMessage, TxLoop
-----------------------------------------------------------------------------
(***************************************************************************)
(* The orphans.  QueueComplete is the invariant of the loop over           *)
(* vWorkQueue: what the message accepted is queued, and every orphan that  *)
(* waits for a transaction already reached is in vEraseQueue or todo.      *)
(***************************************************************************)
QueueComplete ==
    pc = "orphans" =>
        /\ nWork \in 1..Len(vWorkQueue)
        /\ \A t \in mapTx \ poolBefore : \E i \in 1..Len(vWorkQueue) : vWorkQueue[i] = t
        /\ \A i \in 1..nWork : \A o \in Orphans :
              vWorkQueue[i] \in Parents(o) => o \in vEraseQueue \cup (IF i = nWork THEN todo ELSE {})

OrphanInv == OrphanIndexExact /\ TodoOrphans /\ QueueComplete

LEMMA IndexAfterErasing ==
    ASSUME TypeOK, OrphanIndexExact, NEW S, EraseOrphans(S)
    PROVE  OrphanIndexExact' /\ Orphans' = Orphans \ S
<1>1. Orphans' = Orphans \ S
  BY DEF EraseOrphans, Orphans
<1>2. \A p \in DOMAIN mapOrphanTransactionsByPrev :
         OrphansLeft(p, S) = {o \in Orphans \ S : p \in Parents(o)}
  BY DEF OrphansLeft, OrphanIndexExact
<1>3. DOMAIN mapOrphanTransactionsByPrev' = UNION {Parents(o) : o \in Orphans \ S}
  BY <1>2 DEF EraseOrphans, OrphanIndexExact
<1>4. \A p \in DOMAIN mapOrphanTransactionsByPrev' :
         mapOrphanTransactionsByPrev'[p] = {o \in Orphans \ S : p \in Parents(o)}
  BY <1>2, <1>3 DEF EraseOrphans
<1>. QED  BY <1>1, <1>3, <1>4 DEF OrphanIndexExact, Parents

LEMMA IndexAfterAdding ==
    ASSUME TypeOK, OrphanIndexExact, NEW t \in Txs, t \notin Orphans, NEW p, NEW evicted,
           AddOrphanTx(t, p, evicted)
    PROVE  OrphanIndexExact'
<1>. DEFINE stored == Orphans \cup {t}
            left(q) == OrphansWith(q, t) \ {o \in evicted : q \in Parents(o)}
            keys == DOMAIN mapOrphanTransactionsByPrev \cup Parents(t)
<1>1. Orphans' = stored \ evicted
  BY DEF AddOrphanTx, Orphans
<1>2. ASSUME NEW q \in keys
      PROVE  left(q) = {o \in stored \ evicted : q \in Parents(o)}
  <2>1. OrphansWith(q, t) = {o \in stored : q \in Parents(o)}
    BY DEF OrphansWith, OrphanIndexExact
  <2>. QED  BY <2>1
<1>3. keys = UNION {Parents(o) : o \in stored}
  BY DEF OrphanIndexExact
<1>4. mapOrphanTransactionsByPrev' = [q \in {r \in keys : left(r) # {}} |-> left(q)]
  BY DEF AddOrphanTx
<1>5. DOMAIN mapOrphanTransactionsByPrev' = UNION {Parents(o) : o \in stored \ evicted}
  <2>1. DOMAIN mapOrphanTransactionsByPrev' = {r \in keys : left(r) # {}}
    BY <1>4
  <2>2. {r \in keys : left(r) # {}} = {r \in keys : \E o \in stored \ evicted : r \in Parents(o)}
    BY <1>2
  <2>. QED  BY <1>3, <2>1, <2>2
<1>6. \A q \in DOMAIN mapOrphanTransactionsByPrev' :
         mapOrphanTransactionsByPrev'[q] = {o \in stored \ evicted : q \in Parents(o)}
  BY <1>2, <1>4
<1>. QED  BY <1>1, <1>5, <1>6 DEF OrphanIndexExact, Parents

LEMMA WaitingForExact ==
    ASSUME OrphanIndexExact, NEW t
    PROVE  WaitingFor(t) = {o \in Orphans : t \in Parents(o)}
  BY DEF OrphanIndexExact, WaitingFor

LEMMA OrphanStep ==
    ASSUME TypeOK, OrphanInv, Next
    PROVE  OrphanInv'
<1>. USE DEF OrphanInv
<1>1. ASSUME UNCHANGED orphanVars, pc' # "orphans"
      PROVE  OrphanInv'
  BY <1>1 DEF orphanVars, OrphanIndexExact, Orphans, Parents, TodoOrphans, QueueComplete
<1>2. ASSUME NEW t \in Txs, SubmitTransaction(t)
      PROVE  OrphanInv'
  BY <1>1, <1>2 DEF SubmitTransaction, loopVars
<1>3. ASSUME NEW t \in Txs, TxAccepted(t)
      PROVE  OrphanInv'
  <2>1. UNCHANGED orphanVars /\ todo' = {o \in Orphans : t \in Parents(o)}
    BY <1>3, WaitingForExact DEF TxAccepted
  <2>2. OrphanIndexExact' /\ TodoOrphans' /\ Orphans' = Orphans
    BY <2>1 DEF orphanVars, OrphanIndexExact, Orphans, Parents, TodoOrphans
  <2>3. /\ vWorkQueue' = <<t>> /\ nWork' = 1 /\ vEraseQueue' = {t}
        /\ poolBefore' = mapTx /\ mapTx' = mapTx \cup {t}
    BY <1>3 DEF TxAccepted, addUnchecked
  <2>4. /\ nWork' \in 1..Len(vWorkQueue')
        /\ \A u \in mapTx' \ poolBefore' : \E i \in 1..Len(vWorkQueue') : vWorkQueue'[i] = u
    BY <2>3
  <2>5. \A i \in 1..nWork' : \A o \in Orphans :
            vWorkQueue'[i] \in Parents(o) => o \in todo' /\ i = nWork'
    BY <2>1, <2>3
  <2>6. QueueComplete'
    BY <2>2, <2>4, <2>5 DEF QueueComplete, Parents
  <2>. QED  BY <2>2, <2>6
<1>4. ASSUME NEW t \in Txs, NEW p \in Peers, TxMissingInputs(t, p)
      PROVE  OrphanInv'
  <2>1. PICK evicted : AddOrphanTx(t, p, evicted)
    BY <1>4 DEF TxMissingInputs
  <2>2. OrphanIndexExact'
    BY <1>4, <2>1, IndexAfterAdding DEF TxMissingInputs
  <2>3. pc' # "orphans"
    BY <1>4 DEF TxMissingInputs, loopVars
  <2>. QED  BY <2>2, <2>3 DEF TodoOrphans, QueueComplete
<1>5. ASSUME NEW x \in Txs, TryOrphan(x)
      PROVE  OrphanInv'
  <2>1. /\ UNCHANGED orphanVars /\ todo' = todo \ {x} /\ vEraseQueue' = vEraseQueue \cup {x}
        /\ pc = "orphans" /\ pc' = "orphans" /\ nWork' = nWork /\ poolBefore' = poolBefore
    BY <1>5 DEF TryOrphan
  <2>2. OrphanIndexExact' /\ TodoOrphans' /\ Orphans' = Orphans
    BY <2>1 DEF orphanVars, OrphanIndexExact, Orphans, Parents, TodoOrphans
  <2>3. /\ vWorkQueue \in Seq(Txs) /\ nWork \in 1..Len(vWorkQueue)
        /\ \/ mapTx' = mapTx \cup {x} /\ vWorkQueue' = Append(vWorkQueue, x)
           \/ mapTx' = mapTx /\ vWorkQueue' = vWorkQueue
    BY <1>5, <2>1 DEF TryOrphan, addUnchecked, QueueWith, poolVars, QueueComplete, TypeOK
  <2>4. /\ Len(vWorkQueue') >= Len(vWorkQueue) /\ Len(vWorkQueue') \in Nat
        /\ \A i \in 1..Len(vWorkQueue) : vWorkQueue'[i] = vWorkQueue[i]
    BY <2>3
  <2>5. \A u \in mapTx' \ poolBefore' : \E i \in 1..Len(vWorkQueue') : vWorkQueue'[i] = u
    <3>. SUFFICES ASSUME NEW u \in mapTx' \ poolBefore
                  PROVE  \E i \in 1..Len(vWorkQueue') : vWorkQueue'[i] = u
      BY <2>1
    <3>1. CASE u \in mapTx
      <4>1. PICK i \in 1..Len(vWorkQueue) : vWorkQueue[i] = u
        BY <2>1, <3>1 DEF QueueComplete
      <4>. QED  BY <2>3, <2>4, <4>1
    <3>2. CASE u \notin mapTx
      <4>1. u = x /\ vWorkQueue' = Append(vWorkQueue, x)
        BY <2>3, <3>2
      <4>2. Len(vWorkQueue) + 1 \in 1..Len(vWorkQueue')
            /\ vWorkQueue'[Len(vWorkQueue) + 1] = x
        BY <2>3, <4>1
      <4>. QED  BY <4>1, <4>2
    <3>. QED  BY <3>1, <3>2
  <2>6. nWork' \in 1..Len(vWorkQueue')
    BY <2>1, <2>3, <2>4
  <2>7. ASSUME NEW i \in 1..nWork', NEW o \in Orphans, vWorkQueue'[i] \in Parents(o)
        PROVE  o \in vEraseQueue' \cup (IF i = nWork' THEN todo' ELSE {})
    <3>1. i \in 1..nWork /\ i \in 1..Len(vWorkQueue) /\ vWorkQueue[i] \in Parents(o)
      BY <2>1, <2>3, <2>4, <2>7
    <3>2. o \in vEraseQueue \cup (IF i = nWork THEN todo ELSE {})
      BY <2>1, <3>1 DEF QueueComplete
    <3>. QED  BY <2>1, <3>2
  <2>8. QueueComplete'
    BY <2>2, <2>5, <2>6, <2>7 DEF QueueComplete, Parents
  <2>. QED  BY <2>2, <2>8
<1>6. CASE NextParent
  <2>. DEFINE n == nWork + 1
  <2>1. /\ UNCHANGED <<orphanVars, mapTx, vWorkQueue, vEraseQueue, poolBefore>>
        /\ pc = "orphans" /\ pc' = "orphans" /\ nWork' = n /\ todo = {}
        /\ nWork < Len(vWorkQueue)
        /\ todo' = {o \in Orphans : vWorkQueue[n] \in Parents(o)}
    BY <1>6, WaitingForExact DEF NextParent, WorkDone, poolVars
  <2>2. OrphanIndexExact' /\ TodoOrphans' /\ Orphans' = Orphans
    BY <2>1 DEF orphanVars, OrphanIndexExact, Orphans, Parents, TodoOrphans
  <2>3. nWork \in 1..Len(vWorkQueue) /\ Len(vWorkQueue) \in Nat
    BY <2>1 DEF QueueComplete, TypeOK
  <2>4. ASSUME NEW i \in 1..nWork', NEW o \in Orphans, vWorkQueue[i] \in Parents(o)
        PROVE  o \in vEraseQueue \cup (IF i = nWork' THEN todo' ELSE {})
    <3>1. CASE i = n
      BY <2>1, <2>4, <3>1
    <3>2. CASE i # n
      <4>1. i \in 1..nWork
        BY <2>1, <2>3, <3>2
      <4>. QED  BY <2>1, <2>4, <4>1 DEF QueueComplete
    <3>. QED  BY <3>1, <3>2
  <2>5. nWork' \in 1..Len(vWorkQueue)
    BY <2>1, <2>3
  <2>6. QueueComplete'
    BY <2>1, <2>2, <2>4, <2>5 DEF QueueComplete, Parents
  <2>. QED  BY <2>2, <2>6
<1>7. CASE EraseQueue
  <2>1. OrphanIndexExact'
    BY <1>7, IndexAfterErasing DEF EraseQueue
  <2>. QED  BY <1>7, <2>1 DEF EraseQueue, TodoOrphans, QueueComplete
<1>8. ASSUME NEW p \in Peers, EraseOrphansFor(p)
      PROVE  OrphanInv'
  <2>1. OrphanIndexExact'
    BY <1>8, IndexAfterErasing DEF EraseOrphansFor
  <2>. QED  BY <1>8, <2>1 DEF EraseOrphansFor, loopVars, TodoOrphans, QueueComplete
<1>9. ASSUME NEW c \in Coinbases, NEW T \in SUBSET Txs, ConnectTip(c, T)
      PROVE  OrphanInv'
  BY <1>1, <1>9 DEF ConnectTip, loopVars
<1>10. CASE DisconnectTip
  BY <1>1, <1>10 DEF DisconnectTip
<1>11. ASSUME NEW t \in AllTxs, Resurrect(t)
       PROVE  OrphanInv'
  BY <1>1, <1>11 DEF Resurrect
<1>12. CASE RemoveCoinbaseSpends
  BY <1>1, <1>12 DEF RemoveCoinbaseSpends
<1>13. CASE Restart
  BY <1>13 DEF Restart, OrphanIndexExact, Orphans, TodoOrphans, QueueComplete
<1>. QED
  BY <1>2, <1>3, <1>4, <1>5, <1>6, <1>7, <1>8, <1>9, <1>10, <1>11, <1>12, <1>13
  DEF Next, TxMessage, TxLoop
-----------------------------------------------------------------------------
Inv == PoolInv /\ OrphanInv

LEMMA InitInv == Init => Inv
<1>. SUFFICES ASSUME Init PROVE Inv
  OBVIOUS
<1>1. TypeOK
  BY DEF Init, TypeOK, Orphans
<1>2. NextTxExact /\ ChainSound /\ PoolUnconfirmed /\ InputsThere /\ InputsMature
  BY DEF Init, NextTxExact, Ins, ChainSound, Confirmed, PoolUnconfirmed, InputsThere,
         InputsMature, AllTxs
<1>3. OrphanInv
  BY DEF Init, OrphanInv, OrphanIndexExact, Orphans, TodoOrphans, QueueComplete
<1>. QED  BY <1>1, <1>2, <1>3 DEF Inv, PoolInv

LEMMA NextInv == Inv /\ [Next]_vars => Inv'
<1>. SUFFICES ASSUME Inv, [Next]_vars PROVE Inv'
  OBVIOUS
<1>1. CASE Next
  BY <1>1, PoolStep, OrphanStep DEF Inv, PoolInv, OrphanInv
<1>2. CASE UNCHANGED vars
  <2>1. UNCHANGED <<nHeight, height, mapTx, mapNextTx, mapOrphanTransactions,
          mapOrphanTransactionsByPrev, pc, todo, vWorkQueue, nWork, vEraseQueue,
          setMisbehaving, poolBefore>>
    BY <1>2 DEF vars, chainVars, poolVars, orphanVars, loopVars, queueVars
  <2>2. TypeOK'
    BY <2>1 DEF Inv, PoolInv, TypeOK, Orphans
  <2>3. PoolParts'
    BY <2>1 DEF Inv, PoolInv, PoolParts, NextTxExact, Ins, ChainSound, Confirmed,
      PoolUnconfirmed, InputsThere, InputsMature, Mature, IsCoin, Spent
  <2>4. OrphanInv'
    BY <2>1 DEF Inv, OrphanInv, OrphanIndexExact, Orphans, Parents, TodoOrphans, QueueComplete
  <2>. QED  BY <2>2, <2>3, <2>4 DEF Inv, PoolInv, PoolParts
<1>. QED  BY <1>1, <1>2

(***************************************************************************)
(* The inductive invariant of the pool and the orphans, for any set of     *)
(* transactions, any peers and any limit on the orphans.                   *)
(***************************************************************************)
THEOREM Invariance == Spec => []Inv
  BY InitInv, NextInv, PTL DEF Spec

(***************************************************************************)
(* At every moment between two operations, whatever CreateNewBlock collects*)
(* from the pool is a valid next block.                                    *)
(***************************************************************************)
THEOREM PoolAlwaysMinable == Spec => []PoolMinable
<1>1. Inv => PoolMinable
  <2>. SUFFICES ASSUME Inv, pc # "resurrect", NEW T \in Templates
                PROVE  BlockValid(T)
    BY DEF PoolMinable
  <2>1. T \subseteq mapTx
    BY DEF Templates
  <2>2. ASSUME NEW t \in T, NEW o \in vin[t]
        PROVE  (IsCoin(o) /\ Mature(o)) \/ (o \in vout /\ hash[o] \in T)
    <3>1. hash[o] \in mapTx => hash[o] \in T
      BY DEF Templates, Parents
    <3>. QED  BY <2>1, <3>1 DEF Inv, PoolInv, InputsThere, InputsMature
  <2>3. \A t \in T : ~Confirmed(t) /\ IsFinalTx(t, nHeight + 1)
    BY <2>1 DEF Templates, Inv, PoolInv, PoolUnconfirmed
  <2>4. \A t, u \in T : t # u => vin[t] \cap vin[u] = {}
    BY <2>1 DEF Inv, PoolInv, NextTxExact
  <2>. QED  BY <2>2, <2>3, <2>4 DEF BlockValid
<1>. QED  BY <1>1, Invariance, PTL

(***************************************************************************)
(* mapNextTx is exactly the spends of the pool, at every step.             *)
(***************************************************************************)
THEOREM NextTxAlwaysExact == Spec => []NextTxExact
<1>1. Inv => NextTxExact
  BY DEF Inv, PoolInv
<1>. QED  BY <1>1, Invariance, PTL

(***************************************************************************)
(* mapOrphanTransactionsByPrev is exactly the index of the orphans.        *)
(***************************************************************************)
THEOREM OrphanIndexAlwaysExact == Spec => []OrphanIndexExact
<1>1. Inv => OrphanIndexExact
  BY DEF Inv, OrphanInv
<1>. QED  BY <1>1, Invariance, PTL

(***************************************************************************)
(* When a "tx" message is done, no orphan waits for what it accepted.      *)
(***************************************************************************)
THEOREM OrphansAlwaysResolved == Spec => OrphansResolved
<1>. DEFINE A == pc = "orphans" /\ pc' = "idle" =>
                   \A t \in mapTx \ poolBefore : \A o \in Orphans' : t \notin Parents(o)
<1>1. ASSUME Inv, Next, pc = "orphans", pc' = "idle",
             NEW t \in mapTx \ poolBefore, NEW o \in Orphans', t \in Parents(o)
      PROVE  FALSE
  <2>1. EraseQueue \/ Restart
    BY <1>1 DEF Next, TxMessage, TxLoop, SubmitTransaction, TxAccepted, TxMissingInputs,
      TryOrphan, NextParent, EraseOrphansFor, ConnectTip, DisconnectTip, Resurrect,
      RemoveCoinbaseSpends
  <2>2. CASE EraseQueue
    <3>1. Orphans' = Orphans \ vEraseQueue /\ nWork = Len(vWorkQueue) /\ todo = {}
      BY <1>1, <2>2, IndexAfterErasing DEF EraseQueue, Inv, PoolInv, OrphanInv
    <3>2. PICK i \in 1..nWork : vWorkQueue[i] = t
      BY <1>1, <3>1 DEF Inv, OrphanInv, QueueComplete
    <3>3. o \in vEraseQueue
      BY <1>1, <3>1, <3>2 DEF Inv, OrphanInv, QueueComplete
    <3>. QED  BY <1>1, <3>1, <3>3
  <2>3. CASE Restart
    BY <1>1, <2>3 DEF Restart, Orphans
  <2>. QED  BY <2>1, <2>2, <2>3
<1>2. Inv /\ [Next]_vars => [A]_vars
  BY <1>1
<1>. QED  BY <1>2, Invariance, PTL DEF Spec, OrphansResolved

(***************************************************************************)
(* Why a transaction that is removed recursively had to go: it is in R, or *)
(* a parent of it is neither in the pool nor in the chain any more.        *)
(***************************************************************************)
LEMMA RemovedForCause ==
    ASSUME PoolInv, NEW R \in SUBSET AllTxs, NEW t \in WithDescendants(R), t \notin R,
           \A d \in WithDescendants(R) \cup R : d \notin mapTx' /\ height'[d] = 0
    PROVE  \E o \in vin[t] : ~Available(o)'
<1>1. PICK o \in vin[t] : hash[o] \in WithDescendants(R) \cup R
  BY DescendantsLeast DEF PoolInv
<1>. QED  BY <1>1 DEF Available, IsCoin, Confirmed

LEMMA ConnectTipRemovesNoMore ==
    ASSUME PoolInv, NEW c \in Coinbases, NEW T \in SUBSET Txs, ConnectTip(c, T),
           NEW t \in mapTx \ mapTx', height'[t] = 0
    PROVE  \E o \in vin[t] : ~Available(o)'
<1>. DEFINE C == ConflictsOfBlock(T)
            D == WithDescendants(C)
<1>1. C \in SUBSET mapTx /\ C \subseteq D /\ D \cap T = {} /\ BlockValid(T)
  BY ConflictsApart DEF ConnectTip
<1>2. D \in SUBSET mapTx /\ C \in SUBSET AllTxs
  BY <1>1, DescendantsClosed DEF PoolInv, TypeOK, AllTxs
<1>3. mapTx' = mapTx \ (T \cup D)
  BY <1>1 DEF ConnectTip, removeForBlock, RemovedForBlock
<1>4. /\ \A u \in AllTxs : height'[u] = IF u \in T \cup {c} THEN nHeight + 1 ELSE height[u]
      /\ mapTx \subseteq AllTxs /\ T \subseteq AllTxs /\ c \notin mapTx /\ nHeight \in Nat
  BY TxAssumption DEF ConnectTip, PoolInv, TypeOK, AllTxs
<1>5. t \in D
  <2>1. t \notin T
    BY <1>4
  <2>. QED  BY <2>1, <1>3
<1>6. \A d \in D \cup C : d \notin mapTx' /\ height'[d] = 0
  BY <1>1, <1>2, <1>3, <1>4 DEF PoolInv, PoolUnconfirmed, Confirmed
<1>7. CASE t \notin C
  BY <1>2, <1>5, <1>6, <1>7, RemovedForCause
<1>8. CASE t \in C
  <2>1. PICK o \in DOMAIN mapNextTx : o \in Ins(T) /\ t = mapNextTx[o]
    BY <1>8 DEF ConflictsOfBlock
  <2>2. o \in vin[t]
    BY <2>1 DEF PoolInv, NextTxExact, Ins
  <2>3. PICK u \in T : o \in vin[u]
    BY <2>1 DEF Ins
  <2>4. Spent(o)'
    BY <1>4, <2>3 DEF Spent, Confirmed
  <2>5. hash[o] \notin mapTx'
    BY <1>1, <1>3, <2>3 DEF BlockValid, IsCoin, PoolInv, PoolUnconfirmed
  <2>. QED  BY <2>2, <2>4, <2>5 DEF Available, IsCoin
<1>. QED  BY <1>7, <1>8

(***************************************************************************)
(* What leaves the pool is in the chain or cannot be spent: the removals of*)
(* connected and disconnected blocks are exact.                            *)
(***************************************************************************)
THEOREM OnlyUnspendableAlwaysLeave == Spec => OnlyUnspendableLeave
<1>. DEFINE Cause(t) == \/ height'[t] # 0
                        \/ \E o \in vin[t] : ~(Available(o)' /\ Mature(o)')
<1>1. ASSUME Inv, Next, ~Restart, NEW t \in mapTx \ mapTx'
      PROVE  Cause(t)
  <2>. USE DEF Inv
  <2>1. ASSUME mapTx \subseteq mapTx' PROVE FALSE
    BY <1>1, <2>1
  <2>2. ASSUME NEW c \in Coinbases, NEW T \in SUBSET Txs, ConnectTip(c, T)
        PROVE  Cause(t)
    BY <1>1, <2>2, ConnectTipRemovesNoMore
  <2>3. ASSUME NEW r \in AllTxs, Resurrect(r)
        PROVE  Cause(t)
    <3>1. /\ removeRecursive({r}) /\ height' = height /\ r \in todo /\ pc = "resurrect"
      BY <1>1, <2>3 DEF Resurrect, IsNext, chainVars, addUnchecked
    <3>2. mapTx' = mapTx \ WithDescendants({r}) /\ r \notin mapTx /\ ~Confirmed(r)
      BY <1>1, <3>1 DEF removeRecursive, PoolInv, PoolUnconfirmed
    <3>3. WithDescendants({r}) \subseteq mapTx
      BY <1>1, DescendantsClosed DEF PoolInv
    <3>4. \A d \in WithDescendants({r}) \cup {r} : d \notin mapTx' /\ height'[d] = 0
      BY <1>1, <3>1, <3>2, <3>3 DEF PoolInv, PoolUnconfirmed, Confirmed
    <3>. QED  BY <1>1, <3>2, <3>4, RemovedForCause
  <2>4. CASE RemoveCoinbaseSpends
    <3>. DEFINE R == CoinbaseSpends
    <3>1. mapTx' = mapTx \ WithDescendants(R) /\ height' = height /\ nHeight' = nHeight
      BY <2>4 DEF RemoveCoinbaseSpends, removeRecursive, chainVars
    <3>2. R \in SUBSET AllTxs /\ R \subseteq mapTx
      BY <1>1 DEF CoinbaseSpends, PoolInv, TypeOK, AllTxs
    <3>3. WithDescendants(R) \subseteq mapTx /\ R \subseteq WithDescendants(R)
      BY <1>1, <3>2, DescendantsClosed DEF PoolInv
    <3>4. CASE t \in R
      <4>1. PICK o \in vin[t] : hash[o] \notin mapTx /\ (~HaveCoins(hash[o]) \/ ~Mature(o))
        BY <3>4 DEF CoinbaseSpends
      <4>2. ~IsCoin(o)' \/ ~Mature(o)'
        BY <3>1, <4>1 DEF HaveCoins, IsCoin, Spent, Confirmed, Mature
      <4>3. hash[o] \notin mapTx'
        BY <3>1, <4>1
      <4>. QED  BY <4>1, <4>2, <4>3 DEF Available
    <3>5. CASE t \notin R
      <4>1. \A d \in WithDescendants(R) \cup R : d \notin mapTx' /\ height'[d] = 0
        BY <1>1, <3>1, <3>3 DEF PoolInv, PoolUnconfirmed, Confirmed
      <4>. QED  BY <1>1, <3>1, <3>2, <3>5, <4>1, RemovedForCause
    <3>. QED  BY <3>4, <3>5
  <2>. QED
    BY <1>1, <2>1, <2>2, <2>3, <2>4
    DEF Next, TxMessage, TxLoop, SubmitTransaction, TxAccepted, TxMissingInputs, TryOrphan,
        NextParent, EraseQueue, EraseOrphansFor, DisconnectTip, poolVars, addUnchecked
<1>2. Inv /\ [Next]_vars => [Restart \/ \A t \in mapTx \ mapTx' : Cause(t)]_vars
  BY <1>1
<1>. QED  BY <1>2, Invariance, PTL DEF Spec, OnlyUnspendableLeave
=============================================================================
