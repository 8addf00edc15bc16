-------------------------- MODULE CoinsCacheProofs --------------------------
(***************************************************************************)
(* Proofs about the stack of coin views, for every set of transactions and *)
(* outputs and every bound on the number of commits.                       *)
(***************************************************************************)
EXTENDS CoinsCache, TLAPS

\* The two facts FlushView needs that the flags alone do not say: an entry of
\* the view that pcoinsTip lacks was created there, and best-block hashes that
\* are in use have been handed out.
CreatedInView ==
    \A t \in Txids :
        view[t] # Absent /\ tip[t] = Absent => view[t].fresh /\ view[t].dirty

HashesUsed == dbBest <= label /\ tipBest <= label

ViewClosedEmpty == ~viewOpen => view = Empty

\* The inductive invariant.
IInv ==
    /\ TypeOK
    /\ FreshSound
    /\ CleanSound
    /\ CreatedInView
    /\ HashesUsed
    /\ ViewClosedEmpty
    /\ TipIsBestBlock
    /\ DbIsBestBlock

\* The flag part of the invariant, on which the actions inside a view depend.
Flags == FreshSound /\ CleanSound /\ CreatedInView

-----------------------------------------------------------------------------
(* The helpers.                                                            *)

\* Records built from coins and flags are entries, and no entry is Absent.
LEMMA EntryFacts ==
    \A c \in SUBSET Outs, d \in BOOLEAN, f \in BOOLEAN :
        LET e == [coins |-> c, dirty |-> d, fresh |-> f]
        IN  e \in Entry /\ e # Absent
<1> SUFFICES ASSUME NEW c \in SUBSET Outs, NEW d \in BOOLEAN, NEW f \in BOOLEAN
             PROVE  LET e == [coins |-> c, dirty |-> d, fresh |-> f]
                    IN  e \in Entry /\ e # Absent
  OBVIOUS
<1>1. [coins |-> c, dirty |-> d, fresh |-> f] \in Entry
  BY DEF Entry
<1> QED
  BY <1>1, AbsentAssumption

\* FetchTip returns an entry or nothing, and what a reader sees is the same
\* after its answer has been cached.
LEMMA FetchTipFacts ==
    ASSUME TypeOK, FreshSound, CleanSound, NEW t \in Txids
    PROVE  /\ FetchTip(t) \in Entry \cup {Absent}
           /\ FetchTip(t) = Absent => tip[t] = Absent /\ db[t] = {}
           /\ FetchTip(t) # Absent =>
                /\ FetchTip(t).coins = TipContents[t]
                /\ FetchTip(t).fresh => db[t] = {}
                /\ FetchTip(t).dirty \/ FetchTip(t).coins = db[t]
<1>1. tip[t] \in Entry \cup {Absent} /\ db[t] \in SUBSET Outs
  BY DEF TypeOK, CacheMap, Contents
<1>2. TipContents[t] = IF tip[t] = Absent THEN db[t] ELSE tip[t].coins
  BY DEF TipContents
<1>3. CASE tip[t] # Absent
  BY <1>1, <1>2, <1>3 DEF FetchTip, FreshSound, CleanSound
<1>4. CASE tip[t] = Absent
  BY <1>1, <1>2, <1>4, EntryFacts DEF FetchTip
<1> QED
  BY <1>3, <1>4

\* The same for the view.
LEMMA FetchViewFacts ==
    ASSUME TypeOK, FreshSound, CleanSound, NEW t \in Txids
    PROVE  /\ FetchView(t) \in Entry \cup {Absent}
           /\ FetchView(t) = Absent => view[t] = Absent /\ TipContents[t] = {}
           /\ FetchView(t) # Absent =>
                /\ FetchView(t).coins = ViewContents[t]
                /\ FetchView(t).fresh => TipContents[t] = {}
                /\ FetchView(t).dirty \/ FetchView(t).coins = TipContents[t]
<1>1. /\ FetchTip(t) \in Entry \cup {Absent}
      /\ FetchTip(t) = Absent => tip[t] = Absent /\ db[t] = {}
      /\ FetchTip(t) # Absent => FetchTip(t).coins = TipContents[t]
  BY FetchTipFacts
<1>2. TipContents[t] \in SUBSET Outs
  BY DEF TypeOK, TipContents, CacheMap, Contents, Entry
<1>3. CASE view[t] # Absent
  BY <1>3 DEF FetchView, ViewContents, TypeOK, FreshSound, CleanSound, CacheMap
<1>4. CASE view[t] = Absent /\ FetchTip(t) = Absent
  BY <1>4, <1>1 DEF FetchView, TipContents
<1>5. CASE view[t] = Absent /\ FetchTip(t) # Absent
  BY <1>5, <1>1, <1>2, EntryFacts DEF FetchView, ViewContents
<1> QED
  BY <1>3, <1>4, <1>5

\* Filling pcoinsTip from the database changes nothing that a reader sees and
\* keeps the flags sound.
LEMMA FillTip ==
    ASSUME TypeOK, FreshSound, CleanSound, NEW t \in Txids,
           db' = db,
           \/ tip' = [tip EXCEPT ![t] = FetchTip(t)]
           \/ tip' = tip
    PROVE  /\ tip' \in CacheMap
           /\ TipContents' = TipContents
           /\ \A s \in Txids :
                /\ tip[s] # Absent => tip'[s] # Absent
                /\ tip'[s] # Absent =>
                     /\ tip'[s].fresh => db[s] = {}
                     /\ tip'[s].dirty \/ tip'[s].coins = db[s]
<1>1. /\ FetchTip(t) \in Entry \cup {Absent}
      /\ FetchTip(t) = Absent => tip[t] = Absent /\ db[t] = {}
      /\ FetchTip(t) # Absent =>
           /\ FetchTip(t).coins = TipContents[t]
           /\ FetchTip(t).fresh => db[t] = {}
           /\ FetchTip(t).dirty \/ FetchTip(t).coins = db[t]
  BY FetchTipFacts
<1>2. CASE tip' = tip
  BY <1>2 DEF TypeOK, TipContents, FreshSound, CleanSound
<1>3. CASE tip' = [tip EXCEPT ![t] = FetchTip(t)]
  <2>1. tip' \in CacheMap
    BY <1>1, <1>3 DEF TypeOK, CacheMap
  <2>2. \A s \in Txids : tip'[s] = IF s = t THEN FetchTip(t) ELSE tip[s]
    BY <1>3 DEF TypeOK, CacheMap
  <2>3. \A s \in Txids : (IF tip'[s] = Absent THEN db[s] ELSE tip'[s].coins) = TipContents[s]
    BY <2>2, <1>1 DEF TipContents
  <2>4. TipContents' = TipContents
    BY <2>3 DEF TipContents
  <2> QED
    BY <2>1, <2>2, <2>4, <1>1 DEF FreshSound, CleanSound, FetchTip
<1> QED
  BY <1>2, <1>3

-----------------------------------------------------------------------------
(* One lemma per action.                                                   *)

LEMMA InitInv == Init => IInv
<1> SUFFICES ASSUME Init PROVE IInv
  OBVIOUS
<1>1. TypeOK
  <2>1. 0 \in 0..MaxBest
    BY BoundAssumption
  <2>2. [t \in Txids |-> {}] \in Contents
    BY DEF Contents
  <2>3. Empty \in CacheMap
    BY DEF Empty, CacheMap
  <2> QED
    BY <2>1, <2>2, <2>3 DEF Init, TypeOK, Null
<1>2. TipContents = [t \in Txids |-> {}]
  BY DEF Init, TipContents, Empty
<1>3. FreshSound /\ CleanSound /\ CreatedInView /\ ViewClosedEmpty /\ HashesUsed
  BY DEF Init, FreshSound, CleanSound, CreatedInView, ViewClosedEmpty, Empty,
         HashesUsed, Null
<1>4. TipIsBestBlock /\ DbIsBestBlock
  BY <1>2, BoundAssumption DEF Init, TipIsBestBlock, DbIsBestBlock, TipGetBestBlock, Null
<1> QED
  BY <1>1, <1>3, <1>4 DEF IInv

LEMMA OpenViewInv == IInv /\ OpenView => IInv'
<1> SUFFICES ASSUME IInv, OpenView PROVE IInv'
  OBVIOUS
<1>1. TipContents' = TipContents
  BY DEF OpenView, TipContents
<1>2. TypeOK'
  BY DEF IInv, TypeOK, OpenView, CacheMap, Empty, TipGetBestBlock
<1>3. (FreshSound /\ CleanSound /\ CreatedInView)'
  BY <1>1 DEF IInv, FreshSound, CleanSound, CreatedInView, OpenView, Empty
<1>4. (HashesUsed /\ ViewClosedEmpty)'
  BY DEF IInv, HashesUsed, ViewClosedEmpty, OpenView, TipGetBestBlock
<1>5. TipGetBestBlock' = TipGetBestBlock
  BY DEF OpenView, TipGetBestBlock
<1>6. (TipIsBestBlock /\ DbIsBestBlock)'
  BY <1>1, <1>5 DEF IInv, TipIsBestBlock, DbIsBestBlock, OpenView
<1> QED
  BY <1>2, <1>3, <1>4, <1>6 DEF IInv

\* Reading or changing one coin of the view: both actions write one entry e
\* of the view and fill pcoinsTip.
LEMMA ViewWriteInv ==
    ASSUME IInv, viewOpen, NEW t \in Txids, NEW e \in Entry \cup {Absent},
           view' = [view EXCEPT ![t] = e],
           tip' = [tip EXCEPT ![t] = IF view[t] = Absent THEN FetchTip(t) ELSE @],
           UNCHANGED <<db, dbBest, tipBest, viewOpen, aborted, label, hist>>,
           e # Absent =>
              /\ e.fresh => TipContents[t] = {}
              /\ e.dirty \/ e.coins = TipContents[t]
              /\ tip'[t] = Absent => e.fresh /\ e.dirty
    PROVE  IInv'
<1>1. tip' = [tip EXCEPT ![t] = FetchTip(t)] \/ tip' = tip
  BY DEF IInv, TypeOK, CacheMap, FetchTip
<1>2. /\ tip' \in CacheMap
      /\ TipContents' = TipContents
      /\ \A s \in Txids :
           /\ tip[s] # Absent => tip'[s] # Absent
           /\ tip'[s] # Absent =>
                /\ tip'[s].fresh => db[s] = {}
                /\ tip'[s].dirty \/ tip'[s].coins = db[s]
  BY <1>1, FillTip DEF IInv
<1>3. TypeOK'
  BY <1>2 DEF IInv, TypeOK, CacheMap
<1>4. \A s \in Txids : view'[s] = IF s = t THEN e ELSE view[s]
  BY DEF IInv, TypeOK, CacheMap
<1>5. FreshSound'
  BY <1>2, <1>4 DEF IInv, FreshSound
<1>6. CleanSound'
  BY <1>2, <1>4 DEF IInv, CleanSound
<1>7. CreatedInView'
  BY <1>2, <1>4 DEF IInv, CreatedInView
<1>8. (HashesUsed /\ ViewClosedEmpty)'
  BY DEF IInv, HashesUsed, ViewClosedEmpty
<1>9. (TipIsBestBlock /\ DbIsBestBlock)'
  BY <1>2 DEF IInv, TipIsBestBlock, DbIsBestBlock, TipGetBestBlock
<1> QED
  BY <1>3, <1>5, <1>6, <1>7, <1>8, <1>9 DEF IInv

LEMMA AccessViewInv ==
    ASSUME IInv, NEW t \in Txids, AccessView(t) PROVE IInv'
<1>1. /\ FetchView(t) \in Entry \cup {Absent}
      /\ FetchView(t) # Absent =>
           /\ FetchView(t).fresh => TipContents[t] = {}
           /\ FetchView(t).dirty \/ FetchView(t).coins = TipContents[t]
  BY FetchViewFacts DEF IInv
<1>2. FetchView(t) # Absent /\ tip'[t] = Absent => FetchView(t).fresh /\ FetchView(t).dirty
  BY DEF AccessView, FetchView, IInv, CreatedInView, TypeOK, CacheMap
<1> QED
  BY <1>1, <1>2, ViewWriteInv DEF AccessView

\* ModifyCoins returns an entry that is DIRTY, FRESH only over a pruned parent.
LEMMA ModifyCoinsFacts ==
    ASSUME TypeOK, FreshSound, CleanSound, NEW t \in Txids, NEW c \in SUBSET Outs
    PROVE  /\ ModifyCoins(t, c) \in Entry \cup {Absent}
           /\ ModifyCoins(t, c) = Absent => c = {} /\ TipContents[t] = {}
           /\ ModifyCoins(t, c) # Absent =>
                /\ ModifyCoins(t, c).coins = c
                /\ ModifyCoins(t, c).dirty
                /\ ModifyCoins(t, c).fresh => TipContents[t] = {}
                /\ FetchView(t) = Absent => ModifyCoins(t, c).fresh
                /\ FetchView(t) # Absent => (ModifyCoins(t, c).fresh <=> FetchView(t).fresh)
<1> DEFINE fresh == IF FetchView(t) = Absent THEN TRUE ELSE FetchView(t).fresh
<1>1. /\ FetchView(t) \in Entry \cup {Absent}
      /\ FetchView(t) = Absent => view[t] = Absent /\ TipContents[t] = {}
      /\ FetchView(t) # Absent => (FetchView(t).fresh => TipContents[t] = {})
  BY FetchViewFacts
<1>2. fresh \in BOOLEAN /\ (fresh => TipContents[t] = {})
  BY <1>1 DEF Entry
<1>3. ModifyCoins(t, c) = IF fresh /\ c = {} THEN Absent
                          ELSE [coins |-> c, dirty |-> TRUE, fresh |-> fresh]
  BY DEF ModifyCoins
<1>4. [coins |-> c, dirty |-> TRUE, fresh |-> fresh] \in Entry
  BY <1>2 DEF Entry
<1>5. [coins |-> c, dirty |-> TRUE, fresh |-> fresh] # Absent
  BY <1>4, AbsentAssumption
<1>6. CASE fresh /\ c = {}
  BY <1>2, <1>3, <1>6
<1>7. CASE ~(fresh /\ c = {})
  <2>1. ModifyCoins(t, c) = [coins |-> c, dirty |-> TRUE, fresh |-> fresh]
    BY <1>3, <1>7
  <2>2. /\ ModifyCoins(t, c).coins = c
        /\ ModifyCoins(t, c).dirty
        /\ ModifyCoins(t, c).fresh = fresh
    BY <2>1
  <2>3. /\ FetchView(t) = Absent => fresh
        /\ FetchView(t) # Absent => fresh = FetchView(t).fresh
    OBVIOUS
  <2> HIDE DEF fresh
  <2> QED
    BY <1>2, <1>4, <1>5, <2>1, <2>2, <2>3
<1> QED
  BY <1>6, <1>7

LEMMA ModifyInv ==
    ASSUME IInv, NEW t \in Txids, NEW c \in SUBSET Outs, Modify(t, c) PROVE IInv'
<1>1. /\ ModifyCoins(t, c) \in Entry \cup {Absent}
      /\ ModifyCoins(t, c) # Absent =>
           /\ ModifyCoins(t, c).dirty
           /\ ModifyCoins(t, c).fresh => TipContents[t] = {}
           /\ FetchView(t) = Absent => ModifyCoins(t, c).fresh
           /\ FetchView(t) # Absent => (ModifyCoins(t, c).fresh <=> FetchView(t).fresh)
  BY ModifyCoinsFacts DEF IInv
<1>2. tip'[t] = Absent => (FetchView(t) # Absent => FetchView(t).fresh)
  BY DEF Modify, FetchView, IInv, CreatedInView, TypeOK, CacheMap
<1> QED
  BY <1>1, <1>2, ViewWriteInv DEF Modify

LEMMA AccessTipInv ==
    ASSUME IInv, NEW t \in Txids, AccessTip(t) PROVE IInv'
<1>1. /\ tip' \in CacheMap
      /\ TipContents' = TipContents
      /\ \A s \in Txids :
           /\ tip[s] # Absent => tip'[s] # Absent
           /\ tip'[s] # Absent =>
                /\ tip'[s].fresh => db[s] = {}
                /\ tip'[s].dirty \/ tip'[s].coins = db[s]
  BY FillTip DEF IInv, AccessTip
<1>2. TypeOK' /\ FreshSound' /\ CleanSound' /\ CreatedInView'
  BY <1>1 DEF IInv, AccessTip, TypeOK, FreshSound, CleanSound, CreatedInView
<1>3. HashesUsed' /\ ViewClosedEmpty'
  BY DEF IInv, AccessTip, HashesUsed, ViewClosedEmpty, Empty
<1>4. TipIsBestBlock' /\ DbIsBestBlock'
  BY <1>1 DEF IInv, AccessTip, TipIsBestBlock, DbIsBestBlock, TipGetBestBlock
<1> QED
  BY <1>2, <1>3, <1>4 DEF IInv

\* BatchWrite makes pcoinsTip show, for each transaction, what the view showed.
LEMMA BatchWriteFacts ==
    ASSUME IInv, NEW t \in Txids
    PROVE  LET e == BatchWriteEntry(tip[t], view[t]) IN
           /\ e \in Entry \cup {Absent}
           /\ (IF e = Absent THEN db[t] ELSE e.coins) = ViewContents[t]
           /\ e # Absent => /\ e.fresh => db[t] = {}
                            /\ e.dirty \/ e.coins = db[t]
<1> DEFINE e == BatchWriteEntry(tip[t], view[t])
<1>1. tip[t] \in Entry \cup {Absent} /\ view[t] \in Entry \cup {Absent}
  BY DEF IInv, TypeOK, CacheMap
<1>2. /\ tip[t] # Absent => (tip[t].fresh => db[t] = {})
      /\ tip[t] # Absent => (tip[t].dirty \/ tip[t].coins = db[t])
      /\ view[t] # Absent => (view[t].dirty \/ view[t].coins = TipContents[t])
      /\ view[t] # Absent => (view[t].fresh => TipContents[t] = {})
      /\ view[t] # Absent /\ tip[t] = Absent => view[t].fresh
  BY DEF IInv, FreshSound, CleanSound, CreatedInView
<1>3. /\ TipContents[t] = IF tip[t] = Absent THEN db[t] ELSE tip[t].coins
      /\ ViewContents[t] = IF view[t] = Absent THEN TipContents[t] ELSE view[t].coins
  BY DEF TipContents, ViewContents
<1>4. CASE view[t] = Absent
  BY <1>1, <1>2, <1>3, <1>4 DEF BatchWriteEntry
<1>5. CASE view[t] # Absent /\ ~view[t].dirty
  BY <1>1, <1>2, <1>3, <1>5 DEF BatchWriteEntry
<1>6. CASE view[t] # Absent /\ view[t].dirty /\ tip[t] = Absent
  <2>1. db[t] = {}
    BY <1>2, <1>3, <1>6
  <2>2. CASE view[t].coins = {}
    BY <2>1, <2>2, <1>3, <1>6 DEF BatchWriteEntry
  <2>3. CASE view[t].coins # {}
    <3>1. e = [coins |-> view[t].coins, dirty |-> TRUE, fresh |-> TRUE]
      BY <2>3, <1>6 DEF BatchWriteEntry
    <3>2. e \in Entry
      BY <3>1, <1>1, <1>6 DEF Entry
    <3>3. e.coins = view[t].coins /\ e.dirty
      BY <3>1
    <3>4. e # Absent
      BY <3>2, AbsentAssumption
    <3> QED
      BY <3>2, <3>3, <3>4, <2>1, <1>3, <1>6
  <2> QED
    BY <2>2, <2>3
<1>7. CASE view[t] # Absent /\ view[t].dirty /\ tip[t] # Absent
  <2>1. CASE tip[t].fresh /\ view[t].coins = {}
    BY <2>1, <1>2, <1>3, <1>7 DEF BatchWriteEntry
  <2>2. CASE ~(tip[t].fresh /\ view[t].coins = {})
    <3>1. e = [coins |-> view[t].coins, dirty |-> TRUE, fresh |-> tip[t].fresh]
      BY <2>2, <1>7 DEF BatchWriteEntry
    <3>2. e \in Entry
      BY <3>1, <1>1, <1>7 DEF Entry
    <3>3. e.coins = view[t].coins /\ e.dirty /\ e.fresh = tip[t].fresh
      BY <3>1
    <3>4. e # Absent
      BY <3>2, AbsentAssumption
    <3> QED
      BY <3>2, <3>3, <3>4, <1>2, <1>3, <1>7
  <2> QED
    BY <2>1, <2>2
<1> QED
  BY <1>4, <1>5, <1>6, <1>7

\* After FlushView pcoinsTip shows the whole view.
LEMMA FlushViewContents ==
    ASSUME IInv, FlushView PROVE TipContents' = ViewContents
<1>1. \A t \in Txids :
        (IF tip'[t] = Absent THEN db'[t] ELSE tip'[t].coins) = ViewContents[t]
  BY BatchWriteFacts DEF FlushView
<1> QED
  BY <1>1 DEF TipContents, ViewContents

LEMMA ContentsType ==
    ASSUME TypeOK PROVE TipContents \in Contents /\ ViewContents \in Contents
<1>1. TipContents \in Contents
  BY DEF TypeOK, TipContents, Contents, CacheMap, Entry
<1> QED
  BY <1>1 DEF TypeOK, ViewContents, Contents, CacheMap, Entry

LEMMA FlushViewInv == ASSUME IInv, FlushView PROVE IInv'
<1>1. ViewContents \in Contents
  BY ContentsType DEF IInv
<1>2. label' = label + 1 /\ label' \in 0..MaxBest /\ label \in 0..MaxBest
  BY BoundAssumption DEF IInv, TypeOK, FlushView
<1>3. \A t \in Txids :
        /\ tip'[t] \in Entry \cup {Absent}
        /\ tip'[t] # Absent => /\ tip'[t].fresh => db[t] = {}
                               /\ tip'[t].dirty \/ tip'[t].coins = db[t]
  BY BatchWriteFacts DEF FlushView
<1>4. tip' \in CacheMap
  BY <1>3 DEF FlushView, CacheMap
<1>5. TypeOK'
  BY <1>1, <1>2, <1>4 DEF IInv, TypeOK, FlushView, Empty, CacheMap
<1>6. FreshSound' /\ CleanSound' /\ CreatedInView' /\ ViewClosedEmpty'
  BY <1>3 DEF FreshSound, CleanSound, CreatedInView, ViewClosedEmpty, FlushView, Empty
<1>7. HashesUsed'
  BY <1>2 DEF IInv, TypeOK, HashesUsed, FlushView
<1>8. hist'[label'] = ViewContents /\ hist'[dbBest] = hist[dbBest]
  BY <1>2 DEF IInv, TypeOK, HashesUsed, FlushView
<1>9. TipIsBestBlock'
  <2>1. tipBest' = label' /\ label' # Null
    BY <1>2 DEF FlushView, Null
  <2>2. TipGetBestBlock' = label'
    BY <2>1 DEF TipGetBestBlock
  <2> QED
    BY <2>2, <1>8, FlushViewContents DEF TipIsBestBlock
<1>10. DbIsBestBlock'
  BY <1>8 DEF IInv, DbIsBestBlock, FlushView
<1> QED
  BY <1>5, <1>6, <1>7, <1>9, <1>10 DEF IInv

LEMMA DropViewInv == ASSUME IInv, DropView PROVE IInv'
<1>1. TipContents' = TipContents
  BY DEF DropView, TipContents
<1>2. TypeOK' /\ FreshSound' /\ CleanSound' /\ CreatedInView'
  BY <1>1 DEF IInv, TypeOK, FreshSound, CleanSound, CreatedInView, DropView, Empty, CacheMap
<1>3. HashesUsed' /\ ViewClosedEmpty' /\ TipIsBestBlock' /\ DbIsBestBlock'
  BY <1>1 DEF IInv, HashesUsed, ViewClosedEmpty, TipIsBestBlock, DbIsBestBlock,
              TipGetBestBlock, DropView
<1> QED
  BY <1>2, <1>3 DEF IInv

\* The batch carries every difference between pcoinsTip and the database.
LEMMA FlushTipContents ==
    ASSUME IInv, FlushTip
    PROVE  /\ db' = TipContents /\ TipContents' = TipContents
           /\ dbBest' = TipGetBestBlock /\ TipGetBestBlock' = TipGetBestBlock
<1>1. \A t \in Txids : BatchWriteCoins(db[t], tip[t]) = TipContents[t]
  BY DEF BatchWriteCoins, TipContents, IInv, CleanSound
<1>2. db' = TipContents
  BY <1>1 DEF FlushTip, TipContents
<1>3. TipContents' = db'
  BY DEF FlushTip, TipContents, Empty
<1> QED
  BY <1>2, <1>3 DEF FlushTip, TipGetBestBlock

LEMMA FlushTipInv == ASSUME IInv, FlushTip PROVE IInv'
<1>1. /\ db' = TipContents /\ TipContents' = TipContents
      /\ dbBest' = TipGetBestBlock /\ TipGetBestBlock' = TipGetBestBlock
  BY FlushTipContents
<1>2. TipContents \in Contents
  BY ContentsType DEF IInv
<1>3. TypeOK'
  BY <1>1, <1>2 DEF IInv, TypeOK, FlushTip, Empty, CacheMap, TipGetBestBlock
<1>4. FreshSound' /\ CleanSound' /\ CreatedInView'
  BY DEF IInv, FreshSound, CleanSound, CreatedInView, FlushTip, Empty, ViewClosedEmpty
<1>5. HashesUsed' /\ ViewClosedEmpty'
  BY <1>1 DEF IInv, HashesUsed, ViewClosedEmpty, FlushTip, TipGetBestBlock, Empty
<1>6. TipIsBestBlock' /\ DbIsBestBlock'
  BY <1>1 DEF IInv, TipIsBestBlock, DbIsBestBlock, FlushTip
<1> QED
  BY <1>3, <1>4, <1>5, <1>6 DEF IInv

LEMMA CrashContents ==
    ASSUME Crash, TypeOK
    PROVE  TipContents' = db /\ ViewContents' = db /\ TipGetBestBlock' = dbBest
<1>1. TipContents' = db
  BY DEF Crash, TipContents, Empty, TypeOK, Contents
<1>2. ViewContents' = db
  BY <1>1 DEF Crash, ViewContents, Empty, TypeOK, Contents
<1> QED
  BY <1>1, <1>2 DEF Crash, TipGetBestBlock

LEMMA CrashInv == ASSUME IInv, Crash PROVE IInv'
<1>1. TipContents' = db /\ TipGetBestBlock' = dbBest
  BY CrashContents DEF IInv
<1>2. TypeOK'
  <2>1. 0 \in 0..MaxBest
    BY BoundAssumption
  <2>2. Empty \in CacheMap
    BY DEF Empty, CacheMap
  <2> QED
    BY <2>1, <2>2 DEF IInv, TypeOK, Crash, Null
<1>5. FreshSound' /\ CleanSound' /\ CreatedInView'
  BY DEF FreshSound, CleanSound, CreatedInView, Crash, Empty
<1>3. HashesUsed' /\ ViewClosedEmpty'
  BY DEF IInv, TypeOK, HashesUsed, ViewClosedEmpty, Crash, Null
<1>4. TipIsBestBlock' /\ DbIsBestBlock'
  BY <1>1 DEF IInv, TipIsBestBlock, DbIsBestBlock, Crash
<1> QED
  BY <1>2, <1>5, <1>3, <1>4 DEF IInv

LEMMA NextInv == IInv /\ [Next]_vars => IInv'
<1> SUFFICES ASSUME IInv, [Next]_vars PROVE IInv'
  OBVIOUS
<1>1. CASE UNCHANGED vars
  BY <1>1 DEF vars, IInv, TypeOK, FreshSound, CleanSound, CreatedInView, HashesUsed,
              ViewClosedEmpty, TipIsBestBlock, DbIsBestBlock, TipContents, TipGetBestBlock
<1>2. CASE OpenView
  BY <1>2, OpenViewInv
<1>3. CASE \E t \in Txids : AccessView(t)
  BY <1>3, AccessViewInv
<1>4. CASE \E t \in Txids : AccessTip(t)
  BY <1>4, AccessTipInv
<1>5. CASE \E t \in Txids, c \in SUBSET Outs : Modify(t, c)
  BY <1>5, ModifyInv
<1>6. CASE FlushView
  BY <1>6, FlushViewInv
<1>7. CASE DropView
  BY <1>7, DropViewInv
<1>8. CASE FlushTip
  BY <1>8, FlushTipInv
<1>9. CASE Crash
  BY <1>9, CrashInv
<1> QED
  BY <1>1, <1>2, <1>3, <1>4, <1>5, <1>6, <1>7, <1>8, <1>9 DEF Next

LEMMA Invariance == Spec => []IInv
BY InitInv, NextInv, PTL DEF Spec

-----------------------------------------------------------------------------
(* The theorems.                                                           *)

\* The layers of views keep their types.
THEOREM TypeCorrect == Spec => []TypeOK
<1>1. IInv => TypeOK
  BY DEF IInv
<1> QED
  BY Invariance, <1>1, PTL

\* FRESH and DIRTY always mean what coins.h says they mean, in both caches, and
\* the assert in CCoinsViewCache::BatchWrite never fails.
THEOREM FlagsAlwaysSound == Spec => []FlagsSound
<1>1. IInv => FreshSound /\ CleanSound
  BY DEF IInv
<1>2. IInv => BatchWriteAssert
  BY DEF IInv, CreatedInView, BatchWriteAssert
<1>3. IInv => FlagsSound
  BY <1>1, <1>2 DEF FlagsSound
<1> QED
  BY Invariance, <1>3, PTL

\* Both pcoinsTip and the database always hold exactly the coins of the best
\* block they report.
THEOREM BestBlockExact == Spec => [](TipIsBestBlock /\ DbIsBestBlock)
<1>1. IInv => TipIsBestBlock /\ DbIsBestBlock
  BY DEF IInv
<1> QED
  BY Invariance, <1>1, PTL

-----------------------------------------------------------------------------
(* The views implement the plain map of CoinsStore.                        *)

\* Writing one entry e of the view changes only that transaction for readers.
LEMMA ViewWriteContents ==
    ASSUME TypeOK, NEW t \in Txids, NEW e \in Entry \cup {Absent},
           view' = [view EXCEPT ![t] = e], TipContents' = TipContents
    PROVE  ViewContents' =
              [ViewContents EXCEPT ![t] = IF e = Absent THEN TipContents[t] ELSE e.coins]
<1>1. \A s \in Txids : view'[s] = IF s = t THEN e ELSE view[s]
  BY DEF TypeOK, CacheMap
<1> DEFINE V == [ViewContents EXCEPT ![t] = IF e = Absent THEN TipContents[t] ELSE e.coins]
<1>2. \A s \in Txids : ViewContents'[s] = IF view'[s] = Absent THEN TipContents[s] ELSE view'[s].coins
  BY DEF ViewContents
<1>3. \A s \in Txids : V[s] = IF s = t THEN IF e = Absent THEN TipContents[t] ELSE e.coins
                                        ELSE ViewContents[s]
  BY DEF ViewContents
<1>4. \A s \in Txids : ViewContents[s] = IF view[s] = Absent THEN TipContents[s] ELSE view[s].coins
  BY DEF ViewContents
<1>5. \A s \in Txids : ViewContents'[s] = V[s]
  BY <1>1, <1>2, <1>3, <1>4
<1>6. V = [s \in Txids |-> V[s]]
  BY DEF ViewContents
<1>7. ViewContents' = [s \in Txids |-> IF view'[s] = Absent THEN TipContents'[s] ELSE view'[s].coins]
  BY DEF ViewContents
<1> HIDE DEF V
<1>8. ViewContents' = [s \in Txids |-> ViewContents'[s]]
  BY <1>7
<1> QED
  BY <1>5, <1>6, <1>8 DEF V

LEMMA StepRefines == IInv /\ [Next]_vars => [Store!StoreNext]_(Store!storeVars)
<1> SUFFICES ASSUME IInv, [Next]_vars PROVE [Store!StoreNext]_(Store!storeVars)
  OBVIOUS
<1> USE DEF Store!storeVars
<1>1. CASE UNCHANGED vars
  BY <1>1 DEF vars, TipContents, ViewContents, TipGetBestBlock
<1>2. CASE OpenView
  <2>1. TipContents' = TipContents /\ TipGetBestBlock' = TipGetBestBlock
    BY <1>2 DEF OpenView, TipContents, TipGetBestBlock
  <2>2. ViewContents' = TipContents
    BY <1>2, <2>1 DEF OpenView, ViewContents, Empty, TipContents
  <2>3. Store!Begin
    BY <1>2, <2>1, <2>2 DEF Store!Begin, OpenView
  <2> QED
    BY <2>3 DEF Store!StoreNext
<1>3. ASSUME NEW t \in Txids, AccessView(t) PROVE UNCHANGED Store!storeVars
  <2>1. tip' = [tip EXCEPT ![t] = FetchTip(t)] \/ tip' = tip
    BY <1>3 DEF AccessView, IInv, TypeOK, CacheMap, FetchTip
  <2>2. TipContents' = TipContents
    BY <1>3, <2>1, FillTip DEF AccessView, IInv
  <2>3. /\ FetchView(t) \in Entry \cup {Absent}
        /\ FetchView(t) = Absent => view[t] = Absent
        /\ FetchView(t) # Absent => FetchView(t).coins = ViewContents[t]
    BY FetchViewFacts DEF IInv
  <2>4. ViewContents' = [ViewContents EXCEPT ![t] =
            IF FetchView(t) = Absent THEN TipContents[t] ELSE FetchView(t).coins]
    BY <1>3, <2>2, <2>3, ViewWriteContents DEF AccessView, IInv
  <2>5. (IF FetchView(t) = Absent THEN TipContents[t] ELSE FetchView(t).coins)
           = ViewContents[t]
    BY <2>3 DEF ViewContents
  <2>6. ViewContents' = ViewContents
    BY <2>4, <2>5 DEF ViewContents
  <2> QED
    BY <1>3, <2>2, <2>6 DEF AccessView, TipGetBestBlock
<1>4. ASSUME NEW t \in Txids, AccessTip(t) PROVE UNCHANGED Store!storeVars
  <2>1. TipContents' = TipContents
    BY <1>4, FillTip DEF AccessTip, IInv
  <2>2. ViewContents' = ViewContents
    BY <1>4, <2>1 DEF AccessTip, ViewContents
  <2> QED
    BY <1>4, <2>1, <2>2 DEF AccessTip, TipGetBestBlock
<1>5. ASSUME NEW t \in Txids, NEW c \in SUBSET Outs, Modify(t, c)
      PROVE  Store!Put(t, c)
  <2>1. tip' = [tip EXCEPT ![t] = FetchTip(t)] \/ tip' = tip
    BY <1>5 DEF Modify, IInv, TypeOK, CacheMap, FetchTip
  <2>2. TipContents' = TipContents
    BY <1>5, <2>1, FillTip DEF Modify, IInv
  <2>3. /\ ModifyCoins(t, c) \in Entry \cup {Absent}
        /\ ModifyCoins(t, c) = Absent => c = {} /\ TipContents[t] = {}
        /\ ModifyCoins(t, c) # Absent => ModifyCoins(t, c).coins = c
    BY ModifyCoinsFacts DEF IInv
  <2>4. ViewContents' = [ViewContents EXCEPT ![t] =
            IF ModifyCoins(t, c) = Absent THEN TipContents[t] ELSE ModifyCoins(t, c).coins]
    BY <1>5, <2>2, <2>3, ViewWriteContents DEF Modify, IInv
  <2>5. ViewContents' = [ViewContents EXCEPT ![t] = c]
    BY <2>3, <2>4
  <2> QED
    BY <1>5, <2>2, <2>5 DEF Store!Put, Modify, TipGetBestBlock
<1>6. CASE FlushView
  <2>1. TipContents' = ViewContents
    BY <1>6, FlushViewContents
  <2>2. ViewContents' = TipContents'
    BY <1>6 DEF FlushView, ViewContents, TipContents, Empty
  <2>3. TipGetBestBlock' = label + 1
    BY <1>6 DEF FlushView, TipGetBestBlock, Null, IInv, TypeOK
  <2>4. Store!Apply
    BY <1>6, <2>1, <2>2, <2>3 DEF Store!Apply, FlushView
  <2> QED
    BY <2>4 DEF Store!StoreNext
<1>7. CASE DropView
  <2>1. TipContents' = TipContents /\ TipGetBestBlock' = TipGetBestBlock
    BY <1>7 DEF DropView, TipContents, TipGetBestBlock
  <2>2. ViewContents' = TipContents
    BY <1>7, <2>1 DEF DropView, ViewContents, TipContents, Empty
  <2>3. Store!Cancel
    BY <1>7, <2>1, <2>2 DEF Store!Cancel, DropView
  <2> QED
    BY <2>3 DEF Store!StoreNext
<1>8. CASE FlushTip
  <2>1. /\ db' = TipContents /\ TipContents' = TipContents
        /\ dbBest' = TipGetBestBlock /\ TipGetBestBlock' = TipGetBestBlock
    BY <1>8, FlushTipContents
  <2>2. ViewContents' = ViewContents
    BY <1>8, <2>1 DEF FlushTip, ViewContents
  <2>3. Store!Persist
    BY <1>8, <2>1, <2>2 DEF Store!Persist, FlushTip
  <2> QED
    BY <2>3 DEF Store!StoreNext
<1>9. CASE Crash
  <2>1. TipContents' = db /\ ViewContents' = db /\ TipGetBestBlock' = dbBest
    BY <1>9, CrashContents DEF IInv
  <2>2. Store!Restart
    BY <1>9, <2>1 DEF Store!Restart, Crash
  <2> QED
    BY <2>2 DEF Store!StoreNext
<1>10. (\E t \in Txids, c \in SUBSET Outs : Modify(t, c)) => Store!StoreNext
  BY <1>5 DEF Store!StoreNext
<1> HIDE DEF Store!storeVars
<1> QED
  BY <1>1, <1>2, <1>3, <1>4, <1>6, <1>7, <1>8, <1>9, <1>10 DEF Next

LEMMA InitRefines == Init => Store!StoreInit
<1> SUFFICES ASSUME Init PROVE Store!StoreInit
  OBVIOUS
<1>1. TipContents = [t \in Txids |-> {}]
  BY DEF Init, TipContents, Empty
<1>2. ViewContents = TipContents
  BY <1>1 DEF Init, ViewContents, Empty
<1> QED
  BY <1>1, <1>2 DEF Init, Store!StoreInit, TipGetBestBlock, Null

\* The caches are invisible: every behaviour of the stack of views is one of a
\* plain map with an atomic working copy and a durable copy.
THEOREM Refinement == Spec => ImplementsStore
<1>1. Spec => Store!StoreInit /\ [][Store!StoreNext]_(Store!storeVars)
  BY Invariance, InitRefines, StepRefines, PTL DEF Spec
<1> QED
  BY <1>1 DEF ImplementsStore, Store!StoreSpec
=============================================================================
