--------------------------- MODULE BestChainProofs ---------------------------
(***************************************************************************)
(* More proofs about the block tree: which chain is chosen, what the       *)
(* candidates, the links and the failure marks mean.                       *)
(*                                                                         *)
(* Some behaviours are excluded where a theorem says so, because the       *)
(* property is false of them (README.md, section 3): the operator          *)
(* reconsiders a block that lies above another marked one, or invalidates  *)
(* one that waits for an ancestor; a process that was killed in the middle *)
(* of invalidateblock is started again.                                    *)
(***************************************************************************)
EXTENDS BlockIndexProofs, WellFoundedInduction

\* reconsiderblock is called for blocks below which nothing is marked.
ReconsidersLowest ==
    \A th \in Threads, b \in Blocks :
        ReconsiderBlock(th, b) => \A a \in Anc[b] \ {b} : ~Failed(a)

\* invalidateblock is called for blocks with nChainTx # 0, the active ones among
\* them.
InvalidatesLinked ==
    \A th \in Threads, b \in Blocks : InvalidateBlock(th, b) => b \in linked

\* A restart finds no mark on the stored active chain.
RestartsUnmarked ==
    \A th \in Threads :
        Restart(th) => \A b \in Anc[diskTip] : ~disk[b].fvalid /\ ~disk[b].fchild

-----------------------------------------------------------------------------
(* The tree.                                                               *)

\* A set of naturals has a least member.
LEMMA LeastNatural ==
    ASSUME NEW T \in SUBSET Nat, T # {}
    PROVE  \E x \in T : \A y \in T : x <= y
<1> DEFINE R == OpToRel(<, Nat)
<1>1. IsWellFoundedOn(R, Nat)
  BY NatLessThanWellFounded
<1>2. \E x \in T : \A y \in T : ~(<<y, x>> \in R)
  <2> HIDE DEF R
  <2> QED BY <1>1, WFMin
<1>3. PICK x \in T : \A y \in T : ~(<<y, x>> \in R)
  BY <1>2
<1>4. ASSUME NEW y \in T PROVE x <= y
  <2>1. y \in Nat /\ x \in Nat
    OBVIOUS
  <2>2. ~(y < x)
    BY <1>3, <2>1 DEF OpToRel
  <2> QED BY <2>1, <2>2
<1> QED BY <1>4

\* Ancestors of each other are equal.
LEMMA AncestorsOfEachOther ==
    ASSUME NEW a \in Blocks, NEW b \in Blocks, a \in Anc[b], b \in Anc[a]
    PROVE  a = b
<1>1. CASE b = Genesis
  BY <1>1, TreeAssumption
<1>2. CASE b # Genesis
  <2>1. /\ Parent[b] \in Blocks /\ Anc[b] = Anc[Parent[b]] \cup {b}
        /\ b \notin Anc[Parent[b]]
    BY <1>2, TreeAssumption
  <2>2. a \in Anc[Parent[b]] => Anc[a] \subseteq Anc[Parent[b]]
    BY <2>1, TreeAssumption
  <2> QED
    BY <2>1, <2>2
<1> QED
  BY <1>1, <1>2

\* Who leaves a set that holds the genesis block does so from some block on.
LEMMA Frontier ==
    ASSUME NEW S, Genesis \in S, NEW b \in Blocks, b \notin S
    PROVE  \E a \in Anc[b] : a \in Blocks \ {Genesis} /\ a \notin S /\ Parent[a] \in S
<1> DEFINE T == {Work[a] : a \in Anc[b] \ S}
<1>1. Anc[b] \subseteq Blocks /\ b \in Anc[b]
  BY TreeFacts
<1>2. T \in SUBSET Nat /\ T # {}
  BY <1>1, WorkAssumption
<1>3. PICK x \in T : \A y \in T : x <= y
  <2> HIDE DEF T
  <2> QED BY <1>2, LeastNatural
<1>4. PICK a \in Anc[b] \ S : x = Work[a]
  BY <1>3
<1>5. a \in Blocks \ {Genesis}
  BY <1>1, <1>4
<1>6. Parent[a] \in Anc[b] /\ Parent[a] \in Blocks
  BY <1>4, <1>5, TreeAssumption
<1>7. Work[Parent[a]] < Work[a] /\ Work[a] \in Nat /\ Work[Parent[a]] \in Nat
  BY <1>5, <1>6, WorkAssumption
<1>8. Parent[a] \in S
  <2> SUFFICES ASSUME Parent[a] \notin S PROVE FALSE
    OBVIOUS
  <2>1. Work[Parent[a]] \in T
    BY <1>6
  <2>2. Work[a] <= Work[Parent[a]]
    BY <1>3, <1>4, <2>1
  <2> QED
    BY <1>7, <2>2
<1> QED
  BY <1>4, <1>5, <1>8

-----------------------------------------------------------------------------
(* The order of the candidates.                                            *)

\* What CBlockIndexWorkComparator compares are numbers, and no two objects share an
\* address.
LEMMA OrderTypes ==
    ASSUME IInv
    PROVE  /\ \A b \in Blocks : Work[b] \in Nat /\ seq[b] \in Nat /\ addr[b] \in Nat
           /\ \A b, c \in Blocks : addr[b] = addr[c] => b = c
           /\ tip \in Blocks /\ candidates \subseteq Blocks /\ linked \subseteq Blocks
<1>1. /\ seq \in [Blocks -> 0..(nBlockSequenceId - 1)] /\ nBlockSequenceId \in Nat
      /\ addr \in AddrOrders /\ tip \in Blocks /\ candidates \subseteq Blocks
      /\ linked \subseteq Blocks
  BY DEF IInv, TypeOK
<1>2. \A b \in Blocks : seq[b] \in Nat
  BY <1>1
<1> QED
  BY <1>1, <1>2, WorkAssumption, AddrAssumption

\* The comparator is a strict total order of the blocks.
LEMMA WorseNotSelf ==
    ASSUME IInv, NEW a \in Blocks
    PROVE  ~Worse(a, a)
BY OrderTypes DEF Worse

LEMMA WorseTrans ==
    ASSUME IInv, NEW a \in Blocks, NEW b \in Blocks, NEW c \in Blocks,
           Worse(a, b), Worse(b, c)
    PROVE  Worse(a, c)
BY OrderTypes DEF Worse

LEMMA WorseTotal ==
    ASSUME IInv, NEW a \in Blocks, NEW b \in Blocks
    PROVE  a = b \/ Worse(a, b) \/ Worse(b, a)
BY OrderTypes DEF Worse

LEMMA WorseNotBoth ==
    ASSUME IInv, NEW a \in Blocks, NEW b \in Blocks, Worse(a, b)
    PROVE  ~Worse(b, a)
BY OrderTypes DEF Worse

\* Not worse is an order too.
LEMMA NotWorseTrans ==
    ASSUME IInv, NEW a \in Blocks, NEW b \in Blocks, NEW c \in Blocks,
           ~Worse(a, b), ~Worse(b, c)
    PROVE  ~Worse(a, c)
BY WorseTrans, WorseTotal, WorseNotSelf

\* A block sorts above its parent.
LEMMA ParentWorse ==
    ASSUME IInv, NEW b \in Blocks \ {Genesis}
    PROVE  Parent[b] \in Blocks /\ Worse(Parent[b], b)
BY TreeFacts, WorkAssumption DEF Worse

\* A set of blocks has a last one in the order of the comparator.
LEMMA BestExists ==
    ASSUME IInv, NEW S \in SUBSET Blocks, S # {}
    PROVE  \E b \in S : b \in Best(S)
<1> DEFINE Above(c) == {d \in S : Worse(c, d)}
           T == {Cardinality(Above(c)) : c \in S}
<1>1. \A c \in S : IsFiniteSet(Above(c)) /\ Cardinality(Above(c)) \in Nat
  <2> SUFFICES ASSUME NEW c \in S
               PROVE  IsFiniteSet(Above(c)) /\ Cardinality(Above(c)) \in Nat
    OBVIOUS
  <2>1. Above(c) \subseteq Blocks
    OBVIOUS
  <2>2. IsFiniteSet(Above(c))
    BY <2>1, TreeAssumption, FS_Subset
  <2> QED
    BY <2>2, FS_CardinalityType
<1>2. T \in SUBSET Nat /\ T # {}
  BY <1>1
<1>3. PICK x \in T : \A y \in T : x <= y
  <2> HIDE DEF T
  <2> QED BY <1>2, LeastNatural
<1>4. PICK b \in S : x = Cardinality(Above(b))
  BY <1>3
<1>5. Above(b) = {}
  <2> SUFFICES ASSUME NEW d \in Above(b) PROVE FALSE
    OBVIOUS
  <2>1. d \in S /\ d \in Blocks /\ b \in Blocks /\ Worse(b, d)
    OBVIOUS
  <2>2. Above(d) \subseteq Above(b)
    BY <2>1, WorseTrans
  <2>3. d \notin Above(d)
    BY <2>1, WorseNotSelf
  <2>4. Above(d) # Above(b)
    BY <2>3
  <2> HIDE DEF Above
  <2>5. Cardinality(Above(d)) < Cardinality(Above(b))
    BY <1>1, <2>1, <2>2, <2>4, FS_Subset
  <2>6. Cardinality(Above(b)) <= Cardinality(Above(d))
    BY <1>3, <1>4, <2>1
  <2> QED
    BY <1>1, <2>1, <2>5, <2>6
<1>6. \A c \in S \ {b} : Worse(c, b)
  BY <1>5, WorseTotal
<1> QED
  BY <1>6 DEF Best

-----------------------------------------------------------------------------
(* What the actions do to the failure marks, the data and the order.       *)

\* No block on the way to b, b included, is marked.
Clean(b) == \A a \in Anc[b] : ~Failed(a)

MarkedKnown ==
    \A b \in Blocks :
        /\ Failed(b) => idx[b].known
        /\ disk[b].fvalid \/ disk[b].fchild => disk[b].known

KeepsMarksAt(x) ==
    (idx'[x].fvalid <=> idx[x].fvalid) /\ (idx'[x].fchild <=> idx[x].fchild)
KeepsMarks == \A x \in Blocks : KeepsMarksAt(x)
KeepsKnown == \A x \in Blocks : idx[x].known => idx'[x].known
KeepsData == \A x \in Blocks : idx'[x].tx <=> idx[x].tx
KeepsOrder == UNCHANGED <<seq, addr>>

\* The entries of the index are statuses.
LEMMA EntryTypes ==
    ASSUME IInv
    PROVE  /\ idx \in [Blocks -> Status] /\ disk \in [Blocks -> Status]
           /\ \A x \in Blocks :
                /\ idx[x] \in Status /\ idx[x].known \in BOOLEAN /\ idx[x].tx \in BOOLEAN
                /\ idx[x].fvalid \in BOOLEAN /\ idx[x].fchild \in BOOLEAN
BY DEF IInv, TypeOK, Status

\* The flags of the three ways to change an entry's marks.
LEMMA MarkFlags ==
    ASSUME NEW s \in Status
    PROVE  /\ MarkedInvalid(s).fvalid /\ MarkedInvalid(s).fchild = s.fchild
           /\ [s EXCEPT !.fchild = TRUE].fchild
           /\ [s EXCEPT !.fchild = TRUE].fvalid = s.fvalid
BY DEF Status, MarkedInvalid

\* Where the marks stay, so do the clean branches.
LEMMA MarksKept ==
    ASSUME KeepsMarks
    PROVE  \A b \in Blocks : (Failed(b)' <=> Failed(b)) /\ (Clean(b)' <=> Clean(b))
<1>1. \A b \in Blocks : Failed(b)' <=> Failed(b)
  BY DEF KeepsMarks, KeepsMarksAt, Failed
<1> QED
  BY <1>1, TreeFacts DEF Clean

\* Nothing changes where the index does not.
LEMMA SameIndex ==
    ASSUME UNCHANGED idx
    PROVE  KeepsMarks /\ KeepsKnown /\ KeepsData
BY DEF KeepsMarks, KeepsMarksAt, KeepsKnown, KeepsData

\* The order depends on sequence numbers and addresses only.
LEMMA OrderKept ==
    ASSUME KeepsOrder
    PROVE  \A a, b \in Blocks : Worse(a, b)' <=> Worse(a, b)
BY DEF KeepsOrder, Worse

\* AddToBlockIndex marks nothing.
LEMMA AddedMarks ==
    ASSUME IInv, MarkedKnown, NEW b \in Blocks
    PROVE  /\ Added(b)[b].fvalid <=> idx[b].fvalid
           /\ Added(b)[b].fchild <=> idx[b].fchild
<1>1. CASE idx[b].known
  BY <1>1 DEF Added
<1>2. CASE ~idx[b].known
  <2>1. Added(b)[b] = Header
    BY <1>2, EntryTypes DEF Added
  <2>2. ~idx[b].fvalid /\ ~idx[b].fchild
    BY <1>2 DEF MarkedKnown, Failed
  <2> QED
    BY <2>1, <2>2, HeaderFacts
<1> QED
  BY <1>1, <1>2

\* What each action does to the marks, to the data and to what is known.
LEMMA HeaderEffect ==
    ASSUME IInv, MarkedKnown, NEW th \in Threads, NEW b \in Blocks, AcceptBlockHeader(th, b)
    PROVE  KeepsMarks /\ KeepsKnown /\ KeepsData
<1>1. idx' = Added(b)
  BY DEF AcceptBlockHeader
<1>2. ASSUME NEW x \in Blocks
      PROVE  KeepsMarksAt(x) /\ (idx[x].known => idx'[x].known) /\ (idx'[x].tx <=> idx[x].tx)
  BY <1>1, AddedFacts, AddedMarks DEF KeepsMarksAt
<1> QED
  BY <1>2 DEF KeepsMarks, KeepsKnown, KeepsData

LEMMA AcceptEffect ==
    ASSUME IInv, MarkedKnown, NEW th \in Threads, NEW b \in Blocks, AcceptBlock(th, b)
    PROVE  /\ KeepsMarks /\ KeepsKnown
           /\ ~idx[b].tx /\ idx'[b].tx
           /\ \A x \in Blocks \ {b} : idx'[x].tx <=> idx[x].tx
<1> DEFINE s == Added(b)[b]
           t == [s EXCEPT !.tx = TRUE]
<1>1. idx' = [Added(b) EXCEPT ![b] = t] /\ ~idx[b].tx
  BY DEF AcceptBlock, ReceivedBlockTransactions
<1>2. s \in Status
  BY AddedFacts
<1>3. t.tx /\ t.known = s.known /\ t.fvalid = s.fvalid /\ t.fchild = s.fchild
  BY <1>2, DataFacts
<1>4. idx'[b] = t /\ \A x \in Blocks \ {b} : idx'[x] = idx[x]
  BY <1>1, AddedFacts
<1>5. idx'[b].tx /\ KeepsMarksAt(b) /\ idx'[b].known
  BY <1>3, <1>4, AddedFacts, AddedMarks DEF KeepsMarksAt
<1> QED
  BY <1>1, <1>4, <1>5 DEF KeepsMarks, KeepsMarksAt, KeepsKnown

LEMMA AcceptFailsEffect ==
    ASSUME IInv, MarkedKnown, NEW th \in Threads, NEW b \in Blocks, AcceptBlockFails(th, b)
    PROVE  /\ \A x \in Blocks \ {b} : idx'[x] = idx[x]
           /\ idx'[b].fvalid /\ (idx'[b].fchild <=> idx[b].fchild)
           /\ idx'[b].known /\ KeepsKnown /\ KeepsData
<1> DEFINE s == Added(b)[b]
<1>1. idx' = [Added(b) EXCEPT ![b] = MarkedInvalid(s)]
  BY DEF AcceptBlockFails
<1>2. s \in Status
  BY AddedFacts
<1>3. idx'[b] = MarkedInvalid(s) /\ \A x \in Blocks \ {b} : idx'[x] = idx[x]
  BY <1>1, AddedFacts
<1>4. /\ MarkedInvalid(s).fvalid /\ MarkedInvalid(s).fchild = s.fchild
      /\ MarkedInvalid(s).known = s.known /\ MarkedInvalid(s).tx = s.tx
  BY <1>2, MarkFlags, MarkedFacts
<1>5. /\ idx'[b].fvalid /\ (idx'[b].fchild <=> idx[b].fchild)
      /\ idx'[b].known /\ (idx'[b].tx <=> idx[b].tx)
  BY <1>3, <1>4, AddedFacts, AddedMarks
<1> QED
  BY <1>3, <1>5 DEF KeepsKnown, KeepsData

LEMMA ConnectEffect ==
    ASSUME IInv, NEW th \in Threads, NEW b \in Blocks, ConnectTip(th, b)
    PROVE  KeepsMarks /\ KeepsKnown /\ KeepsData
<1>1. idx' = [idx EXCEPT ![b] = Connected(b)]
  BY DEF ConnectTip
<1>2. idx[b] \in Status
  BY EntryTypes
<1> DEFINE v == idx[b].scripts \/ ~Failed(b)
           c == [idx[b] EXCEPT !.undo = TRUE, !.scripts = v]
<1>3. v \in BOOLEAN
  BY <1>2 DEF Status
<1>4. Connected(b) = c
  BY DEF Connected
<1> HIDE DEF v
<1>5. /\ c.tx = idx[b].tx /\ c.known = idx[b].known
      /\ c.fvalid = idx[b].fvalid /\ c.fchild = idx[b].fchild
  BY <1>2, <1>3, UndoFacts
<1> HIDE DEF c
<1>6. idx'[b] = c /\ \A x \in Blocks \ {b} : idx'[x] = idx[x]
  BY <1>1, <1>4, EntryTypes
<1> QED
  BY <1>5, <1>6 DEF KeepsMarks, KeepsMarksAt, KeepsKnown, KeepsData

LEMMA ConnectFailsEffect ==
    ASSUME IInv, NEW th \in Threads, NEW b \in Blocks, ConnectTipFails(th, b)
    PROVE  /\ \A x \in Blocks \ {b} : idx'[x] = idx[x]
           /\ idx'[b].fvalid /\ (idx'[b].fchild <=> idx[b].fchild)
           /\ idx'[b].known /\ KeepsKnown /\ KeepsData
<1>1. idx' = [idx EXCEPT ![b] = MarkedInvalid(idx[b])] /\ idx[b] \in Status
  BY EntryTypes DEF ConnectTipFails
<1>2. idx'[b] = MarkedInvalid(idx[b]) /\ \A x \in Blocks \ {b} : idx'[x] = idx[x]
  BY <1>1, EntryTypes
<1>3. idx[b].known
  BY DEF ConnectTipFails, IInv, TargetsKnown, LinksHaveData, OnlyKnown
<1> QED
  BY <1>1, <1>2, <1>3, MarkFlags, MarkedFacts DEF KeepsKnown, KeepsData

\* What FindMostWorkChain takes out of the candidates is above a marked block.
LEMMA GoneFacts ==
    ASSUME IInv, NEW c \in Discarded, NEW x \in Removed(c)
    PROVE  /\ x \in Blocks /\ x \notin Anc[tip] /\ \E f \in Anc[x] : Failed(f)
           /\ \E d \in linked : x \in Anc[d]
<1>1. c \in Blocks /\ c \in linked /\ ~Usable(c)
  BY DEF Discarded, IInv, TypeOK, CandidatesLinked
<1>2. PICK f \in Path(c) : Failed(f)
  BY <1>1 DEF Usable
<1>3. /\ x \in Anc[c] /\ x \notin Anc[tip] /\ f \in Anc[c] /\ x \in Blocks /\ f \in Blocks
      /\ x \in Anc[x]
  BY <1>1, <1>2, TreeFacts DEF Removed, Path
<1>4. x \in Anc[f] => x = f
  BY <1>2 DEF Removed
<1>5. f \in Anc[x]
  BY <1>1, <1>3, <1>4, TreeAssumption
<1> QED
  BY <1>1, <1>2, <1>3, <1>5

LEMMA ActivateEffect ==
    ASSUME IInv, NEW th \in Threads, ActivateBestChain(th)
    PROVE  /\ KeepsKnown /\ KeepsData
           /\ \A x \in Blocks : /\ idx'[x].fvalid <=> idx[x].fvalid
                                /\ idx[x].fchild => idx'[x].fchild
                                /\ Clean(x)' <=> Clean(x)
                                /\ Failed(x)' => ~Clean(x)
                                /\ Failed(x)' => Failed(x) \/ \E d \in linked : x \in Anc[d]
                                /\ x \in Anc[tip] => KeepsMarksAt(x)
           /\ candidates' \subseteq candidates
           /\ \A x \in candidates : Clean(x) => x \in candidates'
           /\ \A x \in candidates : ~Failed(x)' => x \in candidates'
<1> DEFINE gone == UNION {Removed(c) : c \in Discarded}
<1>1. /\ idx' = [b \in Blocks |->
                   IF b \in gone /\ ~Failed(b) THEN [idx[b] EXCEPT !.fchild = TRUE]
                   ELSE idx[b]]
      /\ candidates' = candidates \ gone
  BY DEF ActivateBestChain
<1>2. \A x \in gone : /\ x \in Blocks /\ x \notin Anc[tip] /\ \E f \in Anc[x] : Failed(f)
                     /\ \E d \in linked : x \in Anc[d]
  BY GoneFacts
<1> HIDE DEF gone
<1>3. ASSUME NEW x \in Blocks
      PROVE  /\ idx'[x].known <=> idx[x].known
             /\ idx'[x].tx <=> idx[x].tx
             /\ idx'[x].fvalid <=> idx[x].fvalid
             /\ idx[x].fchild => idx'[x].fchild
             /\ x \notin gone => KeepsMarksAt(x)
             /\ x \in gone => Failed(x)'
  <2>1. idx[x] \in Status
    BY EntryTypes
  <2>2. CASE x \in gone /\ ~Failed(x)
    <3>1. idx'[x] = [idx[x] EXCEPT !.fchild = TRUE]
      BY <1>1, <2>2
    <3> QED
      BY <2>1, <2>2, <3>1, ChildFacts, MarkFlags DEF Failed
  <2>3. CASE ~(x \in gone /\ ~Failed(x))
    <3>1. idx'[x] = idx[x]
      BY <1>1, <2>3
    <3> QED
      BY <2>3, <3>1 DEF KeepsMarksAt, Failed
  <2> QED
    BY <2>2, <2>3
<1>4. \A x \in Blocks :
        x \in Anc[x] /\ Anc[x] \subseteq Blocks /\ \A a \in Anc[x] : Anc[a] \subseteq Anc[x]
  BY TreeAssumption, TreeFacts
<1>5. \A x \in gone : ~Clean(x)
  BY <1>2 DEF Clean
<1>6. ASSUME NEW x \in Blocks, Failed(x)' PROVE ~Clean(x)
  <2>1. CASE x \in gone
    BY <1>5, <2>1
  <2>2. CASE x \notin gone
    <3>1. Failed(x)
      BY <1>3, <1>6, <2>2 DEF KeepsMarksAt, Failed
    <3> QED
      BY <1>4, <3>1 DEF Clean
  <2> QED
    BY <2>1, <2>2
<1>7. ASSUME NEW x \in Blocks PROVE Clean(x)' <=> Clean(x)
  <2>1. ASSUME Clean(x) PROVE Clean(x)'
    <3>1. \A a \in Anc[x] : a \in Blocks /\ Clean(a)
      BY <1>4, <2>1 DEF Clean
    <3> QED
      BY <1>6, <3>1 DEF Clean
  <2>2. ASSUME Clean(x)' PROVE Clean(x)
    <3>1. \A a \in Blocks : Failed(a) => Failed(a)'
      BY <1>3 DEF Failed
    <3> QED
      BY <1>4, <2>2, <3>1 DEF Clean
  <2> QED
    BY <2>1, <2>2
<1>8. KeepsKnown /\ KeepsData
  BY <1>3 DEF KeepsKnown, KeepsData
<1>9. candidates \subseteq Blocks
  BY OrderTypes
<1>10. \A x \in candidates : (Clean(x) => x \notin gone) /\ (~Failed(x)' => x \notin gone)
  BY <1>3, <1>5, <1>9
<1>11. \A x \in Blocks : Failed(x)' => Failed(x) \/ \E d \in linked : x \in Anc[d]
  BY <1>2, <1>3 DEF KeepsMarksAt, Failed
<1> QED
  BY <1>1, <1>2, <1>3, <1>6, <1>7, <1>8, <1>10, <1>11

\* The turns of InvalidateBlock mark the block and the tips they take off.
LEMMA InvalidateEffect ==
    ASSUME IInv, NEW th \in Threads, NEW b \in Blocks, InvalidateBlock(th, b)
    PROVE  /\ KeepsKnown /\ KeepsData /\ idx[b].known
           /\ \A x \in Blocks \ {b, tip} : KeepsMarksAt(x)
           /\ idx'[b].fvalid
           /\ b # tip => (idx'[tip].fvalid <=> idx[tip].fvalid)
           /\ tip' \in Blocks /\ b \in dirty' /\ dirty \subseteq dirty'
           /\ \/ /\ b \in Anc[tip] /\ tip # Genesis /\ tip' = Parent[tip] /\ idx'[tip].fchild
                 /\ candidates' = candidates \ {b, tip} /\ tip \in dirty'
              \/ /\ b \notin Anc[tip] /\ tip' = tip /\ (idx'[b].fchild <=> idx[b].fchild)
                 /\ candidates' = candidates \ {b} /\ KeepsMarksAt(tip)
<1> DEFINE marked == [idx EXCEPT ![b] = MarkedInvalid(idx[b])]
<1>1. idx \in [Blocks -> Status] /\ tip \in Blocks /\ idx[b] \in Status /\ b # Genesis
  BY EntryTypes, OrderTypes, OperatorAssumption DEF InvalidateBlock
<1>2. \/ /\ b \in Anc[tip] /\ MarkAndDisconnect(marked) /\ dirty' = dirty \cup {b, tip}
         /\ candidates' = candidates \ {b, tip}
      \/ /\ b \notin Anc[tip] /\ idx' = marked /\ dirty' = dirty \cup {b}
         /\ candidates' = candidates \ {b} /\ UNCHANGED tip
  BY DEF InvalidateBlock
<1>3. /\ marked \in [Blocks -> Status]
      /\ \A x \in Blocks \ {b} : marked[x] = idx[x]
      /\ marked[b].fvalid /\ marked[b].fchild = idx[b].fchild
      /\ marked[b].known = idx[b].known /\ marked[b].tx = idx[b].tx
  <2>1. marked[b] = MarkedInvalid(idx[b])
    BY <1>1
  <2> HIDE DEF marked
  <2>2. marked \in [Blocks -> Status]
    BY <1>1, MarkedFacts DEF marked
  <2>3. \A x \in Blocks \ {b} : marked[x] = idx[x]
    BY <1>1 DEF marked
  <2> QED
    BY <1>1, <2>1, <2>2, <2>3, MarkFlags, MarkedFacts
<1>4. idx[b].known
  BY DEF InvalidateBlock
<1> HIDE DEF marked
<1>5. CASE /\ b \in Anc[tip] /\ MarkAndDisconnect(marked) /\ dirty' = dirty \cup {b, tip}
           /\ candidates' = candidates \ {b, tip}
  <2>1. tip # Genesis
    BY <1>1, <1>5, TreeFacts
  <2>2. tip' = Parent[tip] /\ tip' \in Blocks
    BY <1>1, <1>5, <2>1, TreeFacts DEF MarkAndDisconnect
  <2>3. idx' = [marked EXCEPT ![tip] = [marked[tip] EXCEPT !.fchild = TRUE]]
    BY <1>5 DEF MarkAndDisconnect
  <2>4. /\ marked[tip] \in Status /\ idx'[tip] = [marked[tip] EXCEPT !.fchild = TRUE]
        /\ \A x \in Blocks \ {tip} : idx'[x] = marked[x]
    BY <1>1, <1>3, <2>3
  <2>5. /\ idx'[tip].fchild /\ idx'[tip].fvalid = marked[tip].fvalid
        /\ idx'[tip].known = marked[tip].known /\ idx'[tip].tx = marked[tip].tx
    BY <2>4, MarkFlags, ChildFacts
  <2>6. \A x \in Blocks \ {b, tip} : idx'[x] = idx[x]
    BY <1>3, <2>4
  <2>7. KeepsKnown /\ KeepsData
    <3>1. \A x \in Blocks : marked[x].known = idx[x].known /\ marked[x].tx = idx[x].tx
      BY <1>3
    <3>2. \A x \in Blocks : idx'[x].known = marked[x].known /\ idx'[x].tx = marked[x].tx
      BY <2>4, <2>5
    <3> QED
      BY <3>1, <3>2 DEF KeepsKnown, KeepsData
  <2>8. idx'[b].fvalid /\ (b # tip => (idx'[tip].fvalid <=> idx[tip].fvalid))
    BY <1>1, <1>3, <2>4, <2>5
  <2> QED
    BY <1>4, <1>5, <2>1, <2>2, <2>5, <2>6, <2>7, <2>8 DEF KeepsMarksAt
<1>6. CASE /\ b \notin Anc[tip] /\ idx' = marked /\ dirty' = dirty \cup {b}
           /\ candidates' = candidates \ {b} /\ UNCHANGED tip
  <2>1. b # tip
    BY <1>1, <1>6, TreeFacts
  <2>2. KeepsKnown /\ KeepsData
    BY <1>3, <1>6 DEF KeepsKnown, KeepsData
  <2> QED
    BY <1>1, <1>3, <1>4, <1>6, <2>1, <2>2 DEF KeepsMarksAt
<1> QED
  BY <1>2, <1>5, <1>6

LEMMA InvalidateTurnEffect ==
    ASSUME IInv, NEW th \in Threads, InvalidateTurn(th)
    PROVE  /\ KeepsKnown /\ KeepsData /\ idx[tip].known
           /\ \A x \in Blocks \ {tip} : KeepsMarksAt(x)
           /\ idx'[tip].fchild /\ (idx'[tip].fvalid <=> idx[tip].fvalid)
           /\ tip # Genesis /\ tip' = Parent[tip] /\ tip' \in Blocks
           /\ dirty' = dirty \cup {tip} /\ candidates' = candidates \ {tip}
<1>1. /\ idx' = [idx EXCEPT ![tip] = [idx[tip] EXCEPT !.fchild = TRUE]]
      /\ tip' = Parent[tip] /\ dirty' = dirty \cup {tip} /\ candidates' = candidates \ {tip}
      /\ target[th] \in Anc[tip] /\ tip \in Blocks /\ idx[tip] \in Status
  BY EntryTypes, OrderTypes DEF InvalidateTurn, MarkAndDisconnect
<1>2. target[th] # Genesis
  BY OperatorAssumption DEF InvalidateTurn, IInv, TargetsKnown
<1>3. tip # Genesis /\ tip' \in Blocks
  BY <1>1, <1>2, TreeFacts
<1>4. idx'[tip] = [idx[tip] EXCEPT !.fchild = TRUE] /\ \A x \in Blocks \ {tip} : idx'[x] = idx[x]
  BY <1>1, EntryTypes
<1>5. idx[tip].known
  BY <1>1, TreeFacts DEF IInv, ActiveHasData, OnlyKnown
<1>6. /\ idx'[tip].fchild /\ idx'[tip].fvalid = idx[tip].fvalid
      /\ idx'[tip].known = idx[tip].known /\ idx'[tip].tx = idx[tip].tx
  <2>1. idx[tip] \in Status
    BY <1>1
  <2> QED
    BY <1>4, <2>1, MarkFlags, ChildFacts
<1> QED
  BY <1>1, <1>3, <1>4, <1>5, <1>6 DEF KeepsMarksAt, KeepsKnown, KeepsData

\* What ReconsiderBlock clears.
Cleared(b) == Reconsiderable(b) \cup {a \in Anc[b] : Failed(a)}

LEMMA ReconsiderEffect ==
    ASSUME IInv, NEW th \in Threads, NEW b \in Blocks, ReconsiderBlock(th, b)
    PROVE  /\ KeepsKnown /\ KeepsData
           /\ dirty' = dirty \cup Cleared(b) /\ candidates' = candidates \cup Reinstated(b)
           /\ \A x \in Cleared(b) : x \in Blocks /\ ~idx'[x].fvalid /\ ~idx'[x].fchild
           /\ \A x \in Blocks \ Cleared(b) : KeepsMarksAt(x)
<1>1. /\ idx' = [d \in Blocks |->
                   IF d \in Cleared(b)
                   THEN [idx[d] EXCEPT !.fvalid = FALSE, !.fchild = FALSE] ELSE idx[d]]
      /\ dirty' = dirty \cup Cleared(b) /\ candidates' = candidates \cup Reinstated(b)
  BY DEF ReconsiderBlock, Cleared
<1>2. Cleared(b) \subseteq Blocks
  BY TreeFacts DEF Cleared, Reconsiderable, Descendants
<1>3. ASSUME NEW x \in Blocks
      PROVE  /\ idx'[x].known <=> idx[x].known
             /\ idx'[x].tx <=> idx[x].tx
             /\ x \in Cleared(b) => ~idx'[x].fvalid /\ ~idx'[x].fchild
             /\ x \notin Cleared(b) => KeepsMarksAt(x)
  <2>1. CASE x \in Cleared(b)
    <3>1. idx'[x] = [idx[x] EXCEPT !.fvalid = FALSE, !.fchild = FALSE] /\ idx[x] \in Status
      BY <1>1, <2>1, EntryTypes
    <3> QED
      BY <2>1, <3>1, ClearedFacts
  <2>2. CASE x \notin Cleared(b)
    BY <1>1, <2>2 DEF KeepsMarksAt
  <2> QED
    BY <2>1, <2>2
<1> QED
  BY <1>1, <1>2, <1>3 DEF KeepsKnown, KeepsData

-----------------------------------------------------------------------------
(* The links, the lock and the marks on disk: what holds of every          *)
(* behaviour.                                                              *)

\* The places where a thread stays inside cs_main from one action to the next.
Inside == {"reorg", "invalidate"}

OneInside == \A s, t \in Threads : pc[s] \in Inside /\ pc[t] \in Inside => s = t

\* The linked blocks are a tree, with the active chain in it.
LinkedClosed ==
    /\ Genesis \in linked /\ tip \in linked
    /\ \A b \in linked : Anc[b] \subseteq linked

\* A block of mapBlocksUnlinked is the child of a block that is not linked.
UnlinkedWaits ==
    \A b \in unlinked : b # Genesis /\ b \notin linked /\ Parent[b] \notin linked

\* PruneBlockIndexCandidates has no more to do than it does.
CandidatesNotWorse == \A c \in candidates : ~Worse(c, tip)

\* An index entry that is not dirty has the marks of its disk entry, but for the
\* mark of FindMostWorkChain, which does not make it dirty.
FlagsSynced ==
    \A b \in Blocks \ dirty :
        /\ disk[b].fvalid <=> idx[b].fvalid
        /\ disk[b].fchild => idx[b].fchild

TreeInv ==
    /\ OneInside
    /\ LinkedClosed
    /\ UnlinkedWaits
    /\ CandidatesNotWorse
    /\ MarkedKnown
    /\ FlagsSynced

\* The parts of TreeInv on the marks, for the steps that keep the marks.
LEMMA MarksKeptTree ==
    ASSUME TreeInv, KeepsMarks, KeepsKnown, UNCHANGED disk, dirty \subseteq dirty'
    PROVE  MarkedKnown' /\ FlagsSynced'
<1>1. MarkedKnown'
  BY DEF TreeInv, MarkedKnown, KeepsMarks, KeepsMarksAt, KeepsKnown, Failed
<1>2. FlagsSynced'
  BY DEF TreeInv, FlagsSynced, KeepsMarks, KeepsMarksAt
<1> QED
  BY <1>1, <1>2

\* Its parts on the links, for the steps that link nothing.
LEMMA LinksKeptTree ==
    ASSUME TreeInv, UNCHANGED <<linked, unlinked>>, tip' \in linked
    PROVE  LinkedClosed' /\ UnlinkedWaits'
BY DEF TreeInv, LinkedClosed, UnlinkedWaits

\* A thread enters cs_main only when it is free.
LEMMA MoveInside ==
    ASSUME IInv, TreeInv, NEW th \in Threads, NEW p, pc' = [pc EXCEPT ![th] = p],
           \/ p \notin Inside
           \/ pc[th] \in Inside
           \/ \A t \in Threads : pc[t] \notin Inside
    PROVE  OneInside'
BY DEF IInv, TypeOK, TreeInv, OneInside

\* A free lock: nobody is inside.
LEMMA LockFreeFacts ==
    ASSUME LockFree
    PROVE  ~flushing /\ \A t \in Threads : pc[t] \notin Inside
BY DEF LockFree, Inside

\* The candidates stay not worse than the tip when the tip goes back.
LEMMA CandidatesKeptTree ==
    ASSUME IInv, TreeInv, KeepsOrder, candidates' \subseteq candidates,
           \/ tip' = tip
           \/ tip # Genesis /\ tip' = Parent[tip]
    PROVE  CandidatesNotWorse'
<1>1. \A c \in candidates : c \in Blocks /\ ~Worse(c, tip)
  BY OrderTypes DEF TreeInv, CandidatesNotWorse
<1>2. tip \in Blocks
  BY OrderTypes
<1>3. CASE tip' = tip
  <2>1. \A c \in candidates : ~Worse(c, tip)'
    BY <1>1, <1>2, <1>3, OrderKept DEF KeepsOrder, Worse
  <2> QED
    BY <2>1 DEF CandidatesNotWorse
<1>4. CASE tip # Genesis /\ tip' = Parent[tip]
  <2>1. tip' \in Blocks /\ Worse(Parent[tip], tip) /\ Parent[tip] \in Blocks
    BY <1>2, <1>4, ParentWorse
  <2>2. ~Worse(tip, Parent[tip])
    BY <1>2, <2>1, WorseNotBoth
  <2>3. \A c \in candidates : ~Worse(c, Parent[tip])
    BY <1>1, <1>2, <2>1, <2>2, NotWorseTrans
  <2>4. \A c \in candidates : ~Worse(c, tip)'
    BY <1>1, <1>4, <2>1, <2>3 DEF KeepsOrder, Worse
  <2> QED
    BY <2>4 DEF CandidatesNotWorse
<1> QED
  BY <1>3, <1>4

\* TreeInv, action by action.
LEMMA AcceptBlockHeaderTree ==
    ASSUME IInv, TreeInv, NEW th \in Threads, NEW b \in Blocks, AcceptBlockHeader(th, b)
    PROVE  TreeInv'
<1>1. /\ KeepsMarks /\ KeepsKnown
      /\ dirty \subseteq dirty'
      /\ UNCHANGED <<linked, unlinked, tip, candidates, disk, pc, seq, addr>>
  BY HeaderEffect DEF AcceptBlockHeader, TreeInv, world
<1>2. MarkedKnown' /\ FlagsSynced' /\ LinkedClosed' /\ UnlinkedWaits' /\ CandidatesNotWorse'
  BY <1>1, MarksKeptTree, LinksKeptTree, CandidatesKeptTree
  DEF TreeInv, LinkedClosed, KeepsOrder
<1>3. OneInside'
  BY <1>1 DEF TreeInv, OneInside
<1> QED
  BY <1>2, <1>3 DEF TreeInv

\* No block that is linked already is linked by the arrival of b.
LEMMA NewlyLinkedNew ==
    ASSUME IInv, TreeInv, NEW b \in Blocks, ~idx[b].tx
    PROVE  /\ NewlyLinked(b) \subseteq Blocks
           /\ NewlyLinked(b) \cap linked = {}
           /\ b \notin linked /\ b \in NewlyLinked(b)
<1>1. \A d \in NewlyLinked(b) : d \in Blocks /\ b \in Anc[d]
  BY DEF NewlyLinked, Descendants
<1>2. b \in NewlyLinked(b) /\ b \in Anc[b]
  BY TreeFacts DEF NewlyLinked, Descendants
<1>3. \A d \in linked : b \notin Anc[d]
  BY DEF IInv, LinksHaveData
<1> QED
  BY <1>1, <1>2, <1>3

\* The numbers given out are greater than those of all linked blocks.
LEMMA AcceptOrder ==
    ASSUME IInv, TreeInv, NEW b \in Blocks, ~idx[b].tx,
           NEW q \in QueueOrders(NewlyLinked(b)),
           seq' = [d \in Blocks |-> IF d \in NewlyLinked(b)
                                    THEN nBlockSequenceId + q[d] - 1 ELSE seq[d]],
           UNCHANGED addr
    PROVE  /\ \A x, y \in linked : Worse(x, y)' <=> Worse(x, y)
           /\ \A x \in linked : seq'[x] = seq[x]
           /\ \A d \in NewlyLinked(b), x \in linked :
                 seq'[d] \in Nat /\ seq'[d] > seq[x]
<1> DEFINE S == NewlyLinked(b)
<1>1. S \subseteq Blocks /\ S \cap linked = {} /\ linked \subseteq Blocks
  BY NewlyLinkedNew, OrderTypes
<1>2. nBlockSequenceId \in Nat /\ seq \in [Blocks -> 0..(nBlockSequenceId - 1)]
  BY DEF IInv, TypeOK
<1>3. q \in [S -> 1..Cardinality(S)]
  BY DEF QueueOrders
<1>4. Cardinality(S) \in Nat
  BY <1>1, TreeAssumption, FS_Subset, FS_CardinalityType
<1> HIDE DEF S
<1>5. seq' = [d \in Blocks |-> IF d \in S THEN nBlockSequenceId + q[d] - 1 ELSE seq[d]]
  BY DEF S
<1>6. \A x \in linked : seq'[x] = seq[x]
  BY <1>1, <1>5
<1>7. ASSUME NEW d \in S, NEW x \in linked
      PROVE  seq'[d] \in Nat /\ seq'[d] > seq[x]
  <2>1. seq'[d] = nBlockSequenceId + q[d] - 1 /\ q[d] \in 1..Cardinality(S)
    BY <1>1, <1>3, <1>5
  <2>2. seq[x] \in 0..(nBlockSequenceId - 1)
    BY <1>1, <1>2
  <2> QED
    BY <1>2, <1>4, <2>1, <2>2
<1>8. \A x, y \in linked : Worse(x, y)' <=> Worse(x, y)
  BY <1>6 DEF Worse
<1> QED
  BY <1>6, <1>7, <1>8 DEF S

LEMMA AcceptBlockTree ==
    ASSUME IInv, TreeInv, NEW th \in Threads, NEW b \in Blocks, AcceptBlock(th, b)
    PROVE  TreeInv'
<1>1. /\ KeepsMarks /\ KeepsKnown /\ ~idx[b].tx
      /\ dirty \subseteq dirty' /\ b # Genesis
      /\ UNCHANGED <<tip, disk, addr>> /\ pc' = [pc EXCEPT ![th] = "activating"]
  BY AcceptEffect DEF AcceptBlock, ReceivedBlockTransactions, TreeInv, world
<1>2. MarkedKnown' /\ FlagsSynced'
  BY <1>1, MarksKeptTree
<1>3. OneInside'
  BY <1>1, MoveInside DEF Inside
<1>4. /\ NewlyLinked(b) \subseteq Blocks /\ NewlyLinked(b) \cap linked = {}
      /\ b \notin linked /\ b \in NewlyLinked(b)
  BY <1>1, NewlyLinkedNew
<1>5. CASE /\ Parent[b] \in linked
           /\ \E q \in QueueOrders(NewlyLinked(b)) :
                seq' = [d \in Blocks |-> IF d \in NewlyLinked(b)
                                         THEN nBlockSequenceId + q[d] - 1 ELSE seq[d]]
           /\ linked' = linked \cup NewlyLinked(b)
           /\ candidates' = candidates \cup {d \in NewlyLinked(b) :
                 \/ Work[d] > Work[tip]
                 \/ Work[d] = Work[tip] /\ seq'[d] < seq[tip]}
           /\ unlinked' = unlinked \ NewlyLinked(b)
  <2>1. ASSUME NEW d \in NewlyLinked(b), NEW a \in Anc[d]
        PROVE  a \in linked'
    <3>1. d \in Blocks /\ b \in Anc[d] /\ Anc[d] \ Anc[b] \subseteq unlinked /\ a \in Blocks
      BY TreeFacts DEF NewlyLinked, Descendants
    <3>2. CASE a \in Anc[b]
      BY <1>1, <1>4, <1>5, <3>2, TreeFacts DEF TreeInv, LinkedClosed
    <3>3. CASE a \notin Anc[b]
      <4>1. b \in Anc[a] /\ Anc[a] \subseteq Anc[d]
        BY <3>1, <3>3, TreeAssumption
      <4>2. a \in NewlyLinked(b)
        BY <3>1, <4>1 DEF NewlyLinked, Descendants
      <4> QED
        BY <1>5, <4>2
    <3> QED
      BY <3>2, <3>3
  <2>2. LinkedClosed'
    BY <1>1, <1>5, <2>1 DEF TreeInv, LinkedClosed
  <2>3. UnlinkedWaits'
    <3> SUFFICES ASSUME NEW d \in unlinked, d \notin NewlyLinked(b)
                 PROVE  Parent[d] \notin NewlyLinked(b)
      BY <1>4, <1>5 DEF TreeInv, UnlinkedWaits
    <3>1. d \in Blocks \ {Genesis}
      BY DEF TreeInv, UnlinkedWaits, IInv, TypeOK
    <3>2. Anc[d] = Anc[Parent[d]] \cup {d}
      BY <3>1, TreeFacts
    <3> QED
      BY <3>1, <3>2 DEF NewlyLinked, Descendants
  <2>4. CandidatesNotWorse'
    <3>1. PICK q \in QueueOrders(NewlyLinked(b)) :
              seq' = [d \in Blocks |-> IF d \in NewlyLinked(b)
                                       THEN nBlockSequenceId + q[d] - 1 ELSE seq[d]]
      BY <1>5
    <3>2. /\ \A x, y \in linked : Worse(x, y)' <=> Worse(x, y)
          /\ \A x \in linked : seq'[x] = seq[x]
          /\ \A d \in NewlyLinked(b), x \in linked : seq'[d] \in Nat /\ seq'[d] > seq[x]
      BY <1>1, <3>1, AcceptOrder
    <3>3. tip \in linked /\ candidates \subseteq linked
      BY DEF TreeInv, LinkedClosed, IInv, CandidatesLinked
    <3>4. \A c \in candidates : ~Worse(c, tip)'
      <4>1. \A c \in candidates : ~Worse(c, tip)
        BY DEF TreeInv, CandidatesNotWorse
      <4> QED
        BY <1>1, <3>2, <3>3, <4>1 DEF Worse
    <3>5. \A d \in NewlyLinked(b) : Work[d] > Work[tip] => ~Worse(d, tip)'
      BY <1>1, <1>4, OrderTypes DEF Worse
    <3>6. \A d \in NewlyLinked(b) : ~(seq'[d] < seq[tip])
      BY <1>4, <3>2, <3>3, OrderTypes
    <3> QED
      BY <1>5, <3>4, <3>5, <3>6 DEF CandidatesNotWorse
  <2> QED
    BY <1>2, <1>3, <2>2, <2>3, <2>4 DEF TreeInv
<1>6. CASE /\ Parent[b] \notin linked
           /\ unlinked' = Waiting(b)
           /\ UNCHANGED <<seq, nBlockSequenceId, linked, candidates>>
  <2>1. unlinked' \subseteq unlinked \cup {b}
    BY <1>6 DEF Waiting
  <2>2. LinkedClosed'
    BY <1>1, <1>6 DEF TreeInv, LinkedClosed
  <2>3. UnlinkedWaits'
    BY <1>1, <1>4, <1>6, <2>1 DEF TreeInv, UnlinkedWaits
  <2>4. CandidatesNotWorse'
    BY <1>1, <1>6, CandidatesKeptTree DEF KeepsOrder
  <2> QED
    BY <1>2, <1>3, <2>2, <2>3, <2>4 DEF TreeInv
<1> QED
  BY <1>5, <1>6 DEF AcceptBlock, ReceivedBlockTransactions

LEMMA AcceptBlockFailsTree ==
    ASSUME IInv, TreeInv, NEW th \in Threads, NEW b \in Blocks, AcceptBlockFails(th, b)
    PROVE  TreeInv'
<1>1. /\ dirty' = dirty \cup {b}
      /\ UNCHANGED <<linked, unlinked, tip, candidates, disk, pc, seq, addr>>
  BY DEF AcceptBlockFails, world
<1>2. idx'[b].known /\ KeepsKnown /\ \A x \in Blocks \ {b} : idx'[x] = idx[x]
  BY AcceptFailsEffect DEF TreeInv
<1>3. LinkedClosed' /\ UnlinkedWaits' /\ CandidatesNotWorse' /\ OneInside'
  BY <1>1, LinksKeptTree, CandidatesKeptTree
  DEF TreeInv, LinkedClosed, KeepsOrder, OneInside
<1>4. MarkedKnown' /\ FlagsSynced'
  BY <1>1, <1>2 DEF TreeInv, MarkedKnown, FlagsSynced, Failed
<1> QED
  BY <1>3, <1>4 DEF TreeInv

\* The actions that only move a thread.
LEMMA MoveTree ==
    ASSUME IInv, TreeInv, NEW th \in Threads, NEW p, pc' = [pc EXCEPT ![th] = p],
           p \notin Inside,
           UNCHANGED <<world, tree, candidates, unlinked, tip, durable>>
    PROVE  TreeInv'
<1>1. UNCHANGED <<linked, unlinked, tip, candidates, disk, dirty, seq, addr, idx>>
  BY DEF world, tree, durable
<1>2. MarkedKnown' /\ FlagsSynced' /\ LinkedClosed' /\ UnlinkedWaits' /\ CandidatesNotWorse'
  BY <1>1, MarksKeptTree, LinksKeptTree, CandidatesKeptTree, SameIndex
  DEF TreeInv, LinkedClosed, KeepsOrder
<1> QED
  BY <1>2, MoveInside DEF TreeInv

LEMMA AcceptDuplicateTree ==
    ASSUME IInv, TreeInv, NEW th \in Threads, NEW b \in Blocks, AcceptDuplicate(th, b)
    PROVE  TreeInv'
BY MoveTree DEF AcceptDuplicate, Inside

LEMMA LoopTestTree ==
    ASSUME IInv, TreeInv, NEW th \in Threads, LoopTest(th)
    PROVE  TreeInv'
<1> DEFINE p == IF target[th] = tip THEN "idle" ELSE "activating"
<1>1. p \notin Inside
  BY DEF Inside
<1> QED
  BY <1>1, MoveTree DEF LoopTest

LEMMA StartThreadTree ==
    ASSUME IInv, TreeInv, NEW th \in Threads, StartThread(th)
    PROVE  TreeInv'
BY MoveTree DEF StartThread, Inside

LEMMA ActivateBestChainTree ==
    ASSUME IInv, TreeInv, NEW th \in Threads, ActivateBestChain(th)
    PROVE  TreeInv'
<1>1. UNCHANGED <<linked, unlinked, tip, disk, dirty, seq, addr>>
  BY DEF ActivateBestChain, world, durable
<1>2. /\ KeepsKnown /\ candidates' \subseteq candidates
      /\ \A x \in Blocks : /\ idx'[x].fvalid <=> idx[x].fvalid
                           /\ idx[x].fchild => idx'[x].fchild
                           /\ Failed(x)' => Failed(x) \/ \E d \in linked : x \in Anc[d]
  BY ActivateEffect
<1>3. LinkedClosed' /\ UnlinkedWaits' /\ CandidatesNotWorse'
  BY <1>1, <1>2, LinksKeptTree, CandidatesKeptTree DEF TreeInv, LinkedClosed, KeepsOrder
<1>4. FlagsSynced'
  BY <1>1, <1>2 DEF TreeInv, FlagsSynced
<1>5. MarkedKnown'
  <2>1. \A x \in Blocks : Failed(x)' => idx[x].known
    BY <1>2 DEF TreeInv, MarkedKnown, IInv, LinksHaveData, OnlyKnown
  <2> QED
    BY <1>1, <1>2, <2>1 DEF TreeInv, MarkedKnown, KeepsKnown
<1>6. OneInside'
  BY LockFreeFacts, MoveInside DEF ActivateBestChain, Inside
<1> QED
  BY <1>3, <1>4, <1>5, <1>6 DEF TreeInv

\* DisconnectTip goes back to a block of the active chain.
LEMMA DisconnectFacts ==
    ASSUME IInv, NEW th \in Threads, DisconnectTip(th)
    PROVE  /\ tip \in Blocks \ {Genesis} /\ tip' = Parent[tip] /\ tip' \in Blocks
           /\ target[th] \in linked /\ target[th] \in Blocks /\ tip \notin Anc[target[th]]
           /\ Anc[tip] = Anc[tip'] \cup {tip}
<1>1. target[th] \in linked /\ target[th] \in Blocks /\ tip \in Blocks
  BY DEF DisconnectTip, IInv, TargetsKnown, TypeOK
<1>2. tip # Genesis
  BY <1>1, TreeFacts DEF DisconnectTip
<1> QED
  BY <1>1, <1>2, TreeFacts DEF DisconnectTip

LEMMA DisconnectTipTree ==
    ASSUME IInv, TreeInv, NEW th \in Threads, DisconnectTip(th)
    PROVE  TreeInv'
<1>1. /\ UNCHANGED <<linked, unlinked, candidates, disk, dirty, seq, addr, idx>>
      /\ pc[th] \in Inside
      /\ pc' = [pc EXCEPT ![th] = IF tip' = target[th] THEN "looptest" ELSE "reorg"]
  BY DEF DisconnectTip, world, tree, durable, Inside
<1>2. tip' \in linked
  BY DisconnectFacts, TreeFacts DEF TreeInv, LinkedClosed
<1>3. MarkedKnown' /\ FlagsSynced' /\ LinkedClosed' /\ UnlinkedWaits'
  BY <1>1, <1>2, MarksKeptTree, LinksKeptTree, SameIndex
<1>4. CandidatesNotWorse'
  BY <1>1, DisconnectFacts, CandidatesKeptTree DEF KeepsOrder
<1>5. OneInside'
  BY <1>1, MoveInside
<1> QED
  BY <1>3, <1>4, <1>5 DEF TreeInv

LEMMA ConnectTipTree ==
    ASSUME IInv, TreeInv, NEW th \in Threads, NEW b \in Blocks, ConnectTip(th, b)
    PROVE  TreeInv'
<1>1. /\ UNCHANGED <<linked, unlinked, disk, seq, addr>>
      /\ dirty \subseteq dirty' /\ tip' = b /\ b \in Anc[target[th]]
      /\ candidates' = PruneBlockIndexCandidates(b)
      /\ pc[th] = "reorg"
      /\ pc' = [pc EXCEPT ![th] = IF StepEnds(th, b) THEN "looptest" ELSE "reorg"]
  BY DEF ConnectTip, world, DirtyWith
<1>2. tip' \in linked
  BY <1>1 DEF IInv, TargetsKnown, TreeInv, LinkedClosed
<1>3. MarkedKnown' /\ FlagsSynced' /\ LinkedClosed' /\ UnlinkedWaits'
  BY <1>1, <1>2, MarksKeptTree, LinksKeptTree, ConnectEffect
<1>4. CandidatesNotWorse'
  <2>1. \A c \in candidates' : ~Worse(c, b)
    BY <1>1 DEF PruneBlockIndexCandidates
  <2>2. \A c \in candidates' : ~Worse(c, tip)'
    BY <1>1, <2>1 DEF Worse
  <2> QED
    BY <2>2 DEF CandidatesNotWorse
<1>5. OneInside'
  BY <1>1, MoveInside DEF Inside
<1> QED
  BY <1>3, <1>4, <1>5 DEF TreeInv

LEMMA ConnectTipFailsTree ==
    ASSUME IInv, TreeInv, NEW th \in Threads, NEW b \in Blocks, ConnectTipFails(th, b)
    PROVE  TreeInv'
<1>1. /\ UNCHANGED <<linked, unlinked, tip, disk, seq, addr>>
      /\ dirty' = dirty \cup {b} /\ candidates' \subseteq candidates
      /\ pc' = [pc EXCEPT ![th] = "looptest"]
  BY DEF ConnectTipFails, world
<1>2. idx'[b].known /\ KeepsKnown /\ \A x \in Blocks \ {b} : idx'[x] = idx[x]
  BY ConnectFailsEffect
<1>3. LinkedClosed' /\ UnlinkedWaits' /\ CandidatesNotWorse'
  BY <1>1, LinksKeptTree, CandidatesKeptTree DEF TreeInv, LinkedClosed, KeepsOrder
<1>4. MarkedKnown' /\ FlagsSynced'
  BY <1>1, <1>2 DEF TreeInv, MarkedKnown, FlagsSynced, Failed
<1>5. OneInside'
  BY <1>1, MoveInside DEF Inside
<1> QED
  BY <1>3, <1>4, <1>5 DEF TreeInv

LEMMA InvalidateBlockTree ==
    ASSUME IInv, TreeInv, NEW th \in Threads, NEW b \in Blocks, InvalidateBlock(th, b)
    PROVE  TreeInv'
<1>1. /\ UNCHANGED <<linked, unlinked, disk, seq, addr>>
      /\ pc' = [pc EXCEPT ![th] = "invalidate"] /\ LockFree
  BY DEF InvalidateBlock, world
<1>2. /\ KeepsKnown /\ idx[b].known /\ tip' \in Blocks /\ b \in dirty' /\ dirty \subseteq dirty'
      /\ \A x \in Blocks \ {b, tip} : KeepsMarksAt(x)
      /\ \/ /\ b \in Anc[tip] /\ tip # Genesis /\ tip' = Parent[tip] /\ tip \in dirty'
            /\ candidates' = candidates \ {b, tip}
         \/ /\ b \notin Anc[tip] /\ tip' = tip /\ KeepsMarksAt(tip)
            /\ candidates' = candidates \ {b}
  BY InvalidateEffect
<1>3. tip \in Blocks /\ idx[tip].known
  BY OrderTypes, TreeFacts DEF IInv, ActiveHasData, OnlyKnown
<1>4. tip' \in linked /\ candidates' \subseteq candidates
  BY <1>2, <1>3, TreeFacts DEF TreeInv, LinkedClosed
<1>5. LinkedClosed' /\ UnlinkedWaits' /\ CandidatesNotWorse'
  BY <1>1, <1>2, <1>4, LinksKeptTree, CandidatesKeptTree DEF KeepsOrder
<1>6. MarkedKnown'
  <2>1. \A x \in Blocks : Failed(x)' => idx'[x].known
    BY <1>2, <1>3 DEF TreeInv, MarkedKnown, KeepsKnown, KeepsMarksAt, Failed
  <2> QED
    BY <1>1, <2>1 DEF TreeInv, MarkedKnown
<1>7. FlagsSynced'
  <2>1. \A x \in Blocks \ dirty' : KeepsMarksAt(x) /\ x \notin dirty
    BY <1>2
  <2> QED
    BY <1>1, <2>1 DEF TreeInv, FlagsSynced, KeepsMarksAt
<1>8. OneInside'
  BY <1>1, MoveInside, LockFreeFacts
<1> QED
  BY <1>5, <1>6, <1>7, <1>8 DEF TreeInv

LEMMA InvalidateTurnTree ==
    ASSUME IInv, TreeInv, NEW th \in Threads, InvalidateTurn(th)
    PROVE  TreeInv'
<1>1. UNCHANGED <<linked, unlinked, disk, seq, addr, pc>>
  BY DEF InvalidateTurn, world
<1>2. /\ KeepsKnown /\ idx[tip].known /\ tip # Genesis /\ tip' = Parent[tip] /\ tip' \in Blocks
      /\ \A x \in Blocks \ {tip} : KeepsMarksAt(x)
      /\ dirty' = dirty \cup {tip} /\ candidates' = candidates \ {tip}
  BY InvalidateTurnEffect
<1>3. tip \in Blocks /\ tip' \in linked
  BY <1>2, OrderTypes, TreeFacts DEF TreeInv, LinkedClosed
<1>4. LinkedClosed' /\ UnlinkedWaits' /\ CandidatesNotWorse' /\ OneInside'
  BY <1>1, <1>2, <1>3, LinksKeptTree, CandidatesKeptTree DEF KeepsOrder, TreeInv, OneInside
<1>5. MarkedKnown'
  <2>1. \A x \in Blocks : Failed(x)' => idx'[x].known
    BY <1>2, <1>3 DEF TreeInv, MarkedKnown, KeepsKnown, KeepsMarksAt, Failed
  <2> QED
    BY <1>1, <2>1 DEF TreeInv, MarkedKnown
<1>6. FlagsSynced'
  BY <1>1, <1>2 DEF TreeInv, FlagsSynced, KeepsMarksAt
<1> QED
  BY <1>4, <1>5, <1>6 DEF TreeInv

LEMMA InvalidateEndTree ==
    ASSUME IInv, TreeInv, NEW th \in Threads, InvalidateEnd(th)
    PROVE  TreeInv'
<1>1. /\ UNCHANGED <<linked, unlinked, tip, disk, dirty, seq, addr, idx>>
      /\ candidates' = candidates \cup Readmitted
      /\ pc' = [pc EXCEPT ![th] = "activating"]
  BY DEF InvalidateEnd, world, tree, durable
<1>2. MarkedKnown' /\ FlagsSynced' /\ LinkedClosed' /\ UnlinkedWaits'
  BY <1>1, MarksKeptTree, LinksKeptTree, SameIndex DEF TreeInv, LinkedClosed
<1>3. CandidatesNotWorse'
  <2>1. \A c \in candidates' : ~Worse(c, tip)
    BY <1>1 DEF TreeInv, CandidatesNotWorse, Readmitted
  <2> QED
    BY <1>1, <2>1 DEF CandidatesNotWorse, Worse
<1>4. OneInside'
  BY <1>1, MoveInside DEF Inside
<1> QED
  BY <1>2, <1>3, <1>4 DEF TreeInv

LEMMA ReconsiderBlockTree ==
    ASSUME IInv, TreeInv, NEW th \in Threads, NEW b \in Blocks, ReconsiderBlock(th, b)
    PROVE  TreeInv'
<1>1. /\ UNCHANGED <<linked, unlinked, tip, disk, seq, addr>>
      /\ pc' = [pc EXCEPT ![th] = "activating"]
  BY DEF ReconsiderBlock, world
<1>2. /\ KeepsKnown /\ dirty' = dirty \cup Cleared(b)
      /\ candidates' = candidates \cup Reinstated(b)
      /\ \A x \in Cleared(b) : x \in Blocks /\ ~idx'[x].fvalid /\ ~idx'[x].fchild
      /\ \A x \in Blocks \ Cleared(b) : KeepsMarksAt(x)
  BY ReconsiderEffect
<1>3. LinkedClosed' /\ UnlinkedWaits'
  BY <1>1, LinksKeptTree DEF TreeInv, LinkedClosed
<1>4. MarkedKnown'
  <2>1. \A x \in Blocks : Failed(x)' => idx'[x].known
    BY <1>2 DEF TreeInv, MarkedKnown, KeepsKnown, KeepsMarksAt, Failed
  <2> QED
    BY <1>1, <2>1 DEF TreeInv, MarkedKnown
<1>5. FlagsSynced'
  <2>1. \A x \in Blocks \ dirty' : KeepsMarksAt(x) /\ x \notin dirty
    BY <1>2
  <2> QED
    BY <1>1, <2>1 DEF TreeInv, FlagsSynced, KeepsMarksAt
<1>6. CandidatesNotWorse'
  <2>1. \A d \in Reinstated(b) : d \in Blocks /\ Worse(tip, d)
    BY DEF Reinstated, Reconsiderable, Descendants
  <2>2. \A d \in Reinstated(b) : ~Worse(d, tip)
    BY <2>1, WorseNotBoth, OrderTypes
  <2>3. \A c \in candidates' : ~Worse(c, tip)
    BY <1>2, <2>2 DEF TreeInv, CandidatesNotWorse
  <2> QED
    BY <1>1, <2>3 DEF CandidatesNotWorse, Worse
<1>7. OneInside'
  BY <1>1, MoveInside DEF Inside
<1> QED
  BY <1>3, <1>4, <1>5, <1>6, <1>7 DEF TreeInv

LEMMA FlushIndexTree ==
    ASSUME IInv, TreeInv, FlushIndex
    PROVE  TreeInv'
<1>1. /\ UNCHANGED <<linked, unlinked, tip, candidates, seq, addr, idx, pc>>
      /\ \A b \in Blocks : disk'[b] = idx[b] \/ (b \notin dirty /\ disk'[b] = disk[b])
  BY DEF FlushIndex, world, tree
<1>2. LinkedClosed' /\ UnlinkedWaits' /\ CandidatesNotWorse' /\ OneInside'
  BY <1>1, LinksKeptTree, CandidatesKeptTree
  DEF TreeInv, LinkedClosed, KeepsOrder, OneInside
<1>3. MarkedKnown' /\ FlagsSynced'
  BY <1>1 DEF TreeInv, MarkedKnown, FlagsSynced, Failed
<1> QED
  BY <1>2, <1>3 DEF TreeInv

LEMMA FlushCoinsTree ==
    ASSUME IInv, TreeInv, FlushCoins
    PROVE  TreeInv'
<1>1. UNCHANGED <<linked, unlinked, tip, candidates, seq, addr, idx, pc, disk, dirty>>
  BY DEF FlushCoins, world, tree
<1>2. LinkedClosed' /\ UnlinkedWaits' /\ CandidatesNotWorse' /\ OneInside'
  BY <1>1, LinksKeptTree, CandidatesKeptTree
  DEF TreeInv, LinkedClosed, KeepsOrder, OneInside
<1>3. MarkedKnown' /\ FlagsSynced'
  BY <1>1, MarksKeptTree, SameIndex
<1> QED
  BY <1>2, <1>3 DEF TreeInv

\* What LoadBlockIndexDB links is a tree that holds the stored tip.
LEMMA LoadedFacts ==
    ASSUME IInv
    PROVE  /\ LoadedLinked \subseteq Blocks /\ Genesis \in LoadedLinked /\ diskTip \in LoadedLinked
           /\ \A b \in LoadedLinked : Anc[b] \subseteq LoadedLinked
<1>1. diskTip \in Blocks /\ \A b \in Anc[diskTip] : disk[b].tx
  BY DEF IInv, TypeOK, DiskTipRecoverable
<1>2. diskTip \in LoadedLinked /\ LoadedLinked \subseteq Blocks
  BY <1>1 DEF LoadedLinked
<1>3. \A b \in LoadedLinked : Anc[b] \subseteq LoadedLinked
  <2> SUFFICES ASSUME NEW b \in LoadedLinked, NEW a \in Anc[b] PROVE a \in LoadedLinked
    OBVIOUS
  <2>1. b \in Blocks /\ a \in Blocks /\ Anc[a] \subseteq Anc[b]
    BY <1>2, TreeFacts, TreeAssumption
  <2> QED
    BY <2>1 DEF LoadedLinked
<1> QED
  BY <1>1, <1>2, <1>3, TreeFacts

LEMMA RestartTree ==
    ASSUME IInv, IInv', TreeInv, NEW th \in Threads, Restart(th)
    PROVE  TreeInv'
<1>1. /\ idx' = disk /\ linked' = LoadedLinked /\ tip' = diskTip
      /\ unlinked' = {b \in Blocks \ {Genesis} :
                         disk[b].tx /\ Parent[b] \notin LoadedLinked}
      /\ seq' = [b \in Blocks |-> 0] /\ candidates' = LoadedCandidates
      /\ disk' = disk
      /\ pc' = [t \in Threads |-> IF t = th THEN "activating" ELSE "down"]
  BY DEF Restart
<1>2. LinkedClosed'
  BY <1>1, LoadedFacts DEF LinkedClosed
<1>3. UnlinkedWaits'
  <2>1. \A b \in Blocks \ {Genesis} : b \in LoadedLinked => Parent[b] \in LoadedLinked
    BY LoadedFacts, TreeFacts
  <2> QED
    BY <1>1, <2>1 DEF UnlinkedWaits
<1>4. CandidatesNotWorse'
  <2>1. diskTip \in Blocks /\ LoadedCandidates \subseteq Blocks
    BY DEF IInv, TypeOK, LoadedCandidates, LoadedLinked
  <2>2. \A c \in LoadedCandidates :
          ~(\/ Work[c] < Work[diskTip]
            \/ Work[c] = Work[diskTip] /\ addr'[c] > addr'[diskTip])
    BY DEF LoadedCandidates
  <2>3. \A c \in LoadedCandidates : seq'[c] = 0 /\ seq'[tip'] = 0
    BY <1>1, <2>1
  <2> QED
    BY <1>1, <2>2, <2>3 DEF CandidatesNotWorse, Worse
<1>5. OneInside'
  BY <1>1 DEF OneInside, Inside
<1>6. MarkedKnown' /\ FlagsSynced'
  BY <1>1 DEF TreeInv, MarkedKnown, FlagsSynced, Failed
<1> QED
  BY <1>2, <1>3, <1>4, <1>5, <1>6 DEF TreeInv

LEMMA InitTree == Init => TreeInv
<1> SUFFICES ASSUME Init PROVE TreeInv
  OBVIOUS
<1>1. /\ linked = {Genesis} /\ tip = Genesis /\ candidates = {Genesis} /\ unlinked = {}
      /\ idx = [b \in Blocks |-> IF b = Genesis THEN GenesisStatus ELSE Unknown]
      /\ disk = idx /\ dirty = {} /\ pc = [th \in Threads |-> "idle"]
  BY DEF Init
<1>2. \A b \in Blocks : ~idx[b].fvalid /\ ~idx[b].fchild
  BY <1>1, HeaderFacts
<1>3. OneInside /\ LinkedClosed /\ UnlinkedWaits
  BY <1>1, TreeFacts DEF OneInside, Inside, LinkedClosed, UnlinkedWaits
<1>4. CandidatesNotWorse
  BY <1>1, InitInv, WorseNotSelf, TreeFacts DEF CandidatesNotWorse
<1>5. MarkedKnown /\ FlagsSynced
  BY <1>1, <1>2 DEF MarkedKnown, FlagsSynced, Failed
<1> QED
  BY <1>3, <1>4, <1>5 DEF TreeInv

LEMMA StutterTree ==
    ASSUME IInv, TreeInv, UNCHANGED vars
    PROVE  TreeInv'
<1>1. UNCHANGED <<linked, unlinked, tip, candidates, seq, addr, idx, pc, disk, dirty>>
  BY DEF vars
<1>2. LinkedClosed' /\ UnlinkedWaits' /\ CandidatesNotWorse' /\ OneInside'
  BY <1>1, LinksKeptTree, CandidatesKeptTree
  DEF TreeInv, LinkedClosed, KeepsOrder, OneInside
<1>3. MarkedKnown' /\ FlagsSynced'
  BY <1>1, MarksKeptTree, SameIndex
<1> QED
  BY <1>2, <1>3 DEF TreeInv

LEMMA NextTree ==
    ASSUME IInv, IInv', TreeInv, [Next]_vars
    PROVE  TreeInv'
<1>1. ASSUME NEW th \in Threads, Step(th) PROVE TreeInv'
  BY <1>1, ActivateBestChainTree, DisconnectTipTree, ConnectTipTree, ConnectTipFailsTree,
     LoopTestTree, InvalidateTurnTree, InvalidateEndTree
  DEF Step
<1>2. CASE Next
  BY <1>1, <1>2, AcceptBlockHeaderTree, AcceptBlockTree, AcceptBlockFailsTree,
     AcceptDuplicateTree, InvalidateBlockTree, ReconsiderBlockTree, FlushIndexTree,
     FlushCoinsTree, RestartTree, StartThreadTree
  DEF Next
<1> QED
  BY <1>2, StutterTree

\* The links form a tree with the active chain in it, at most one thread is
\* inside cs_main, no candidate is worse than the tip, and what is on disk has
\* the marks of what is in memory, in every behaviour.
THEOREM TreeInductive == Spec => []TreeInv
<1>1. IInv /\ IInv' /\ TreeInv /\ [Next]_vars => TreeInv'
  BY NextTree
<1> QED
  BY Inductive, InitTree, <1>1, PTL DEF Spec

-----------------------------------------------------------------------------
(* Failure marks have a cause, while reconsiderblock is used from below.   *)

\* On disk, too, a mark is explained by BLOCK_FAILED_VALID at or below it.
DiskExplained ==
    \A b \in Blocks : disk[b].fvalid \/ disk[b].fchild => \E a \in Anc[b] : disk[a].fvalid

\* The block that InvalidateBlock works on has its mark.
InvalidateMarked == \A th \in Threads : pc[th] = "invalidate" => idx[target[th]].fvalid

MarksInv == FailedMaskExplained /\ DiskExplained /\ InvalidateMarked

\* The mark on a block is explained.
Explained(b) == Failed(b) => \E a \in Anc[b] : idx[a].fvalid

\* FailedMaskExplained, block by block and the other way round.
LEMMA ExplainedFacts ==
    FailedMaskExplained <=> \A b \in Blocks : Explained(b)
BY DEF FailedMaskExplained, CleanBranch, Explained

\* The steps that take no mark away and explain the marks they set.
LEMMA MarksAdded ==
    ASSUME IInv, MarksInv, UNCHANGED disk,
           \A x \in Blocks : idx[x].fvalid => idx'[x].fvalid,
           \A x \in Blocks : Failed(x)' => Failed(x) \/ \E a \in Anc[x] : idx'[a].fvalid,
           \A th \in Threads :
              pc'[th] = "invalidate" =>
                 \/ pc[th] = "invalidate" /\ target'[th] = target[th]
                 \/ idx'[target'[th]].fvalid
    PROVE  MarksInv'
<1>1. \A b \in Blocks : Explained(b)
  BY ExplainedFacts DEF MarksInv
<1>2. \A b \in Blocks : Explained(b)'
  BY <1>1, TreeFacts DEF Explained
<1>3. FailedMaskExplained'
  BY <1>2 DEF FailedMaskExplained, CleanBranch, Explained
<1>4. DiskExplained'
  BY DEF MarksInv, DiskExplained
<1>5. InvalidateMarked'
  <2>1. \A th \in Threads : pc[th] = "invalidate" => target[th] \in Blocks
    BY OperatorAssumption DEF IInv, TargetsKnown
  <2> QED
    BY <2>1 DEF MarksInv, InvalidateMarked
<1> QED
  BY <1>3, <1>4, <1>5 DEF MarksInv

\* MarksInv, for the steps that keep the marks.
LEMMA MarksKeptMarks ==
    ASSUME IInv, MarksInv, UNCHANGED disk, KeepsMarks,
           \A th \in Threads :
              pc'[th] = "invalidate" => pc[th] = "invalidate" /\ target'[th] = target[th]
    PROVE  MarksInv'
BY MarksAdded DEF KeepsMarks, KeepsMarksAt, Failed

\* MarksInv, action by action.
LEMMA AcceptMarks ==
    ASSUME IInv, TreeInv, MarksInv, NEW th \in Threads, NEW b \in Blocks,
           \/ AcceptBlockHeader(th, b)
           \/ AcceptBlock(th, b)
           \/ AcceptBlockFails(th, b)
           \/ AcceptDuplicate(th, b)
    PROVE  MarksInv'
<1>1. pc \in [Threads -> PCs] /\ MarkedKnown
  BY DEF IInv, TypeOK, TreeInv
<1>2. CASE AcceptBlockHeader(th, b)
  BY <1>1, <1>2, HeaderEffect, MarksKeptMarks DEF AcceptBlockHeader
<1>3. CASE AcceptBlock(th, b)
  BY <1>1, <1>3, AcceptEffect, MarksKeptMarks DEF AcceptBlock
<1>4. CASE AcceptBlockFails(th, b)
  <2>1. /\ \A x \in Blocks \ {b} : idx'[x] = idx[x]
        /\ idx'[b].fvalid
    BY <1>1, <1>4, AcceptFailsEffect
  <2>2. \A x \in Blocks : Failed(x)' => Failed(x) \/ \E a \in Anc[x] : idx'[a].fvalid
    BY <2>1, TreeFacts DEF Failed
  <2> QED
    BY <1>4, <2>1, <2>2, MarksAdded DEF AcceptBlockFails
<1>5. CASE AcceptDuplicate(th, b)
  BY <1>1, <1>5, SameIndex, MarksKeptMarks DEF AcceptDuplicate, tree, durable
<1> QED
  BY <1>2, <1>3, <1>4, <1>5

LEMMA StepMarks ==
    ASSUME IInv, TreeInv, MarksInv, NEW th \in Threads, Step(th)
    PROVE  MarksInv'
<1>1. pc \in [Threads -> PCs] /\ tip \in Blocks
  BY DEF IInv, TypeOK
<1>2. CASE ActivateBestChain(th)
  <2>1. \A x \in Blocks : /\ idx'[x].fvalid <=> idx[x].fvalid
                          /\ Failed(x)' => ~Clean(x)
    BY <1>2, ActivateEffect
  <2>2. ASSUME NEW x \in Blocks, Failed(x)' PROVE \E a \in Anc[x] : idx'[a].fvalid
    <3>1. PICK f \in Anc[x] : Failed(f)
      BY <2>1, <2>2 DEF Clean
    <3>2. f \in Blocks /\ Anc[f] \subseteq Anc[x] /\ Anc[f] \subseteq Blocks
      BY <3>1, TreeFacts, TreeAssumption
    <3>3. \E a \in Anc[f] : idx[a].fvalid
      BY <3>1, <3>2, ExplainedFacts DEF MarksInv, Explained
    <3> QED
      BY <2>1, <3>2, <3>3
  <2>3. /\ UNCHANGED disk
        /\ \A t \in Threads : pc'[t] = "invalidate" =>
                                 pc[t] = "invalidate" /\ target'[t] = target[t]
    BY <1>1, <1>2 DEF ActivateBestChain, durable, IInv, TypeOK
  <2> QED
    BY <2>1, <2>2, <2>3, MarksAdded
<1>3. CASE DisconnectTip(th)
  BY <1>1, <1>3, SameIndex, MarksKeptMarks DEF DisconnectTip, tree, durable
<1>4. ASSUME NEW b \in Blocks, ConnectTip(th, b) PROVE MarksInv'
  BY <1>1, <1>4, ConnectEffect, MarksKeptMarks DEF ConnectTip
<1>5. ASSUME NEW b \in Blocks, ConnectTipFails(th, b) PROVE MarksInv'
  <2>1. /\ \A x \in Blocks \ {b} : idx'[x] = idx[x]
        /\ idx'[b].fvalid
    BY <1>5, ConnectFailsEffect
  <2>2. \A x \in Blocks : Failed(x)' => Failed(x) \/ \E a \in Anc[x] : idx'[a].fvalid
    BY <2>1, TreeFacts DEF Failed
  <2> QED
    BY <1>1, <1>5, <2>1, <2>2, MarksAdded DEF ConnectTipFails
<1>6. CASE LoopTest(th)
  BY <1>1, <1>6, SameIndex, MarksKeptMarks DEF LoopTest, tree, durable
<1>7. CASE InvalidateTurn(th)
  <2>1. /\ \A x \in Blocks \ {tip} : KeepsMarksAt(x)
        /\ idx'[tip].fvalid <=> idx[tip].fvalid
    BY <1>7, InvalidateTurnEffect
  <2>2. /\ target[th] \in Anc[tip] /\ target[th] \in Blocks /\ idx[target[th]].fvalid
        /\ UNCHANGED <<disk, pc, target>>
    BY <1>1, <1>7, TreeFacts DEF InvalidateTurn, MarksInv, InvalidateMarked
  <2>3. \A x \in Blocks : idx'[x].fvalid <=> idx[x].fvalid
    BY <2>1 DEF KeepsMarksAt
  <2>4. \A x \in Blocks : Failed(x)' => Failed(x) \/ \E a \in Anc[x] : idx'[a].fvalid
    BY <2>1, <2>2, <2>3 DEF KeepsMarksAt, Failed
  <2> QED
    BY <2>2, <2>3, <2>4, MarksAdded
<1>8. CASE InvalidateEnd(th)
  BY <1>1, <1>8, SameIndex, MarksKeptMarks DEF InvalidateEnd, tree, durable
<1> QED
  BY <1>2, <1>3, <1>4, <1>5, <1>6, <1>7, <1>8 DEF Step

LEMMA InvalidateBlockMarks ==
    ASSUME IInv, MarksInv, NEW th \in Threads, NEW b \in Blocks, InvalidateBlock(th, b)
    PROVE  MarksInv'
<1>1. /\ \A x \in Blocks \ {b, tip} : KeepsMarksAt(x)
      /\ idx'[b].fvalid /\ (b # tip => (idx'[tip].fvalid <=> idx[tip].fvalid))
      /\ b \in Anc[tip] \/ KeepsMarksAt(tip)
  BY InvalidateEffect
<1>2. /\ UNCHANGED disk /\ target' = [target EXCEPT ![th] = b]
      /\ pc' = [pc EXCEPT ![th] = "invalidate"]
      /\ pc \in [Threads -> PCs] /\ target \in [Threads -> Blocks \cup {NoBlock}]
  BY DEF InvalidateBlock, IInv, TypeOK
<1>3. \A x \in Blocks : idx[x].fvalid => idx'[x].fvalid
  BY <1>1 DEF KeepsMarksAt
<1>4. \A x \in Blocks : Failed(x)' => Failed(x) \/ \E a \in Anc[x] : idx'[a].fvalid
  BY <1>1, TreeFacts DEF KeepsMarksAt, Failed
<1>5. \A t \in Threads :
        pc'[t] = "invalidate" =>
          \/ pc[t] = "invalidate" /\ target'[t] = target[t]
          \/ idx'[target'[t]].fvalid
  BY <1>1, <1>2
<1> QED
  BY <1>2, <1>3, <1>4, <1>5, MarksAdded

\* ReconsiderBlock clears all the marks that rest on the one of its block.
LEMMA ReconsiderBlockMarks ==
    ASSUME IInv, TreeInv, MarksInv, ReconsidersLowest,
           NEW th \in Threads, NEW b \in Blocks, ReconsiderBlock(th, b)
    PROVE  MarksInv'
<1>1. /\ \A x \in Cleared(b) : x \in Blocks /\ ~idx'[x].fvalid /\ ~idx'[x].fchild
      /\ \A x \in Blocks \ Cleared(b) : KeepsMarksAt(x)
  BY ReconsiderEffect
<1>2. \A a \in Anc[b] \ {b} : ~Failed(a)
  BY DEF ReconsidersLowest
<1>3. \A x \in Cleared(b) : b \in Anc[x]
  BY <1>2, TreeFacts DEF Cleared, Reconsiderable, Descendants
<1>4. \A x \in Blocks : b \in Anc[x] /\ Failed(x) => x \in Cleared(b)
  BY DEF Cleared, Reconsiderable, Descendants, IsValidTx, TreeInv, MarkedKnown
<1>5. ASSUME NEW x \in Blocks PROVE Explained(x)'
  <2> SUFFICES ASSUME Failed(x)' PROVE \E a \in Anc[x] : idx'[a].fvalid
    BY DEF Explained
  <2>1. x \notin Cleared(b) /\ Failed(x)
    BY <1>1 DEF Failed, KeepsMarksAt
  <2>2. b \notin Anc[x]
    BY <1>4, <2>1
  <2>3. PICK a \in Anc[x] : idx[a].fvalid
    BY <2>1, ExplainedFacts DEF MarksInv, Explained
  <2>4. a \in Blocks /\ Anc[a] \subseteq Anc[x]
    BY TreeFacts, TreeAssumption
  <2>5. a \notin Cleared(b)
    BY <1>3, <2>2, <2>4
  <2> QED
    BY <1>1, <2>3, <2>4, <2>5 DEF KeepsMarksAt
<1>6. FailedMaskExplained'
  BY <1>5 DEF FailedMaskExplained, CleanBranch, Explained
<1>7. DiskExplained'
  BY DEF ReconsiderBlock, MarksInv, DiskExplained
<1>8. InvalidateMarked'
  BY DEF ReconsiderBlock, LockFree, InvalidateMarked, IInv, TypeOK
<1> QED
  BY <1>6, <1>7, <1>8 DEF MarksInv

LEMMA PersistMarks ==
    ASSUME IInv, TreeInv, MarksInv, FlushIndex \/ FlushCoins \/ \E th \in Threads : Restart(th)
    PROVE  MarksInv'
<1>1. CASE FlushIndex
  <2>1. /\ UNCHANGED <<idx, pc, target>>
        /\ \A b \in Blocks : \/ disk'[b] = idx[b]
                             \/ b \notin dirty /\ disk'[b] = disk[b]
    BY <1>1 DEF FlushIndex, tree
  <2>2. \A b \in Blocks : /\ disk'[b].fvalid <=> idx[b].fvalid
                          /\ disk'[b].fchild => idx[b].fchild
    BY <2>1 DEF TreeInv, FlagsSynced
  <2>3. \A b \in Blocks : Explained(b)
    BY ExplainedFacts DEF MarksInv
  <2>4. DiskExplained'
    BY <2>2, <2>3, TreeFacts DEF DiskExplained, Explained, Failed
  <2>5. FailedMaskExplained' /\ InvalidateMarked'
    BY <2>1 DEF MarksInv, FailedMaskExplained, CleanBranch, Failed, InvalidateMarked
  <2> QED
    BY <2>4, <2>5 DEF MarksInv
<1>2. CASE FlushCoins
  BY <1>2, SameIndex, MarksKeptMarks DEF FlushCoins, tree
<1>3. ASSUME NEW th \in Threads, Restart(th) PROVE MarksInv'
  <2>1. /\ idx' = disk /\ disk' = disk
        /\ pc' = [t \in Threads |-> IF t = th THEN "activating" ELSE "down"]
    BY <1>3 DEF Restart
  <2>2. FailedMaskExplained'
    BY <2>1 DEF MarksInv, DiskExplained, FailedMaskExplained, CleanBranch, Failed
  <2>3. DiskExplained' /\ InvalidateMarked'
    BY <2>1 DEF MarksInv, DiskExplained, InvalidateMarked
  <2> QED
    BY <2>2, <2>3 DEF MarksInv
<1> QED
  BY <1>1, <1>2, <1>3

LEMMA StartThreadMarks ==
    ASSUME IInv, MarksInv, NEW th \in Threads, StartThread(th)
    PROVE  MarksInv'
BY SameIndex, MarksKeptMarks DEF StartThread, tree, durable, IInv, TypeOK

LEMMA NextMarks ==
    ASSUME IInv, TreeInv, MarksInv, [Next]_vars, [ReconsidersLowest]_vars
    PROVE  MarksInv'
<1>1. CASE UNCHANGED vars
  BY <1>1, SameIndex, MarksKeptMarks DEF vars
<1>2. CASE Next /\ ReconsidersLowest
  BY <1>2, AcceptMarks, StepMarks, InvalidateBlockMarks, ReconsiderBlockMarks, PersistMarks,
     StartThreadMarks
  DEF Next
<1> QED
  BY <1>1, <1>2

LEMMA InitMarks == Init => MarksInv
<1> SUFFICES ASSUME Init PROVE MarksInv
  OBVIOUS
<1>1. \A b \in Blocks : ~idx[b].fvalid /\ ~idx[b].fchild
  BY HeaderFacts DEF Init
<1> QED
  BY <1>1 DEF Init, MarksInv, FailedMaskExplained, Failed, DiskExplained, InvalidateMarked

\* Every failure mark is explained by BLOCK_FAILED_VALID on the block or on an
\* ancestor, in memory and on disk, as CheckBlockIndex asserts, as long as
\* reconsiderblock is called for blocks below which nothing is marked.
THEOREM MarksExplained == Spec /\ [][ReconsidersLowest]_vars => []FailedMaskExplained
<1>1. IInv /\ TreeInv /\ MarksInv /\ [Next]_vars /\ [ReconsidersLowest]_vars => MarksInv'
  BY NextMarks
<1>2. MarksInv => FailedMaskExplained
  BY DEF MarksInv
<1> QED
  BY Inductive, TreeInductive, InitMarks, <1>1, <1>2, PTL DEF Spec

-----------------------------------------------------------------------------
(* The active chain is not marked, while no restart can find the traces of *)
(* an invalidateblock.                                                     *)

\* Only the block that InvalidateBlock works on is marked and active.
ActiveUnmarked ==
    \A b \in Anc[tip] :
        Failed(b) => \E th \in Threads : pc[th] = "invalidate" /\ b = target[th]

TargetClean == \A th \in Threads : pc[th] = "reorg" => Clean(target[th])

ActiveInv == ActiveUnmarked /\ TargetClean

\* How the threads inside cs_main stay where they are.
SameInside ==
    \A t \in Threads :
        /\ pc[t] = "invalidate" => pc'[t] = "invalidate" /\ target'[t] = target[t]
        /\ pc'[t] = "reorg" => pc[t] = "reorg" /\ target'[t] = target[t]

\* The steps that set no mark and do not lengthen the active chain.
LEMMA ActiveKept ==
    ASSUME IInv, ActiveInv, SameInside,
           \A x \in Blocks : Failed(x)' => Failed(x),
           Anc[tip'] \subseteq Anc[tip]
    PROVE  ActiveInv'
<1>1. tip \in Blocks /\ Anc[tip] \subseteq Blocks
  BY OrderTypes, TreeFacts
<1>2. ActiveUnmarked'
  BY <1>1 DEF ActiveInv, ActiveUnmarked, SameInside
<1>3. TargetClean'
  <2>1. \A t \in Threads : pc[t] = "reorg" => target[t] \in Blocks
    BY DEF IInv, TargetsKnown, TypeOK
  <2> QED
    BY <2>1, TreeFacts DEF ActiveInv, TargetClean, Clean, SameInside
<1> QED
  BY <1>2, <1>3 DEF ActiveInv

\* ActiveInv, for the steps that keep the marks and connect nothing.
LEMMA ActiveKeptMarks ==
    ASSUME IInv, ActiveInv, SameInside, KeepsMarks, Anc[tip'] \subseteq Anc[tip]
    PROVE  ActiveInv'
BY ActiveKept, MarksKept

\* A thread that is not inside cs_main moves to another place outside.
LEMMA MoveSameInside ==
    ASSUME IInv, NEW th \in Threads, NEW p, pc' = [pc EXCEPT ![th] = p], p # "reorg",
           pc[th] # "invalidate", UNCHANGED target
    PROVE  SameInside
BY DEF SameInside, IInv, TypeOK

\* While nobody is inside cs_main the active chain is clean.
LEMMA ActiveClean ==
    ASSUME ActiveInv, \A t \in Threads : pc[t] # "invalidate"
    PROVE  Clean(tip)
BY DEF ActiveInv, ActiveUnmarked, Clean

\* ActiveInv, action by action.
LEMMA AcceptActive ==
    ASSUME IInv, TreeInv, ActiveInv, NEW th \in Threads, NEW b \in Blocks,
           \/ AcceptBlockHeader(th, b)
           \/ AcceptBlock(th, b)
           \/ AcceptBlockFails(th, b)
           \/ AcceptDuplicate(th, b)
    PROVE  ActiveInv'
<1>1. MarkedKnown
  BY DEF TreeInv
<1>2. CASE AcceptBlockHeader(th, b)
  <2>1. SameInside /\ tip' = tip
    BY <1>2 DEF AcceptBlockHeader, SameInside
  <2> QED
    BY <1>1, <1>2, <2>1, HeaderEffect, ActiveKeptMarks
<1>3. CASE AcceptBlock(th, b)
  <2>1. SameInside /\ tip' = tip
    BY <1>3, MoveSameInside DEF AcceptBlock
  <2> QED
    BY <1>1, <1>3, <2>1, AcceptEffect, ActiveKeptMarks
<1>4. CASE AcceptBlockFails(th, b)
  <2>1. /\ \A x \in Blocks \ {b} : idx'[x] = idx[x]
        /\ UNCHANGED <<pc, target, tip>>
        /\ ~idx[b].tx /\ LockFree
    BY <1>1, <1>4, AcceptFailsEffect DEF AcceptBlockFails
  <2>2. b \notin Anc[tip]
    BY <2>1 DEF IInv, ActiveHasData
  <2>3. ActiveUnmarked'
    <3>1. \A x \in Anc[tip] : Failed(x)' => Failed(x)
      BY <2>1, <2>2, OrderTypes, TreeFacts DEF Failed
    <3> QED
      BY <2>1, <3>1 DEF ActiveInv, ActiveUnmarked
  <2>4. TargetClean'
    BY <2>1 DEF TargetClean, LockFree
  <2> QED
    BY <2>3, <2>4 DEF ActiveInv
<1>5. CASE AcceptDuplicate(th, b)
  <2>1. SameInside /\ UNCHANGED <<tip, idx>>
    BY <1>5, MoveSameInside DEF AcceptDuplicate, tree
  <2> QED
    BY <2>1, SameIndex, ActiveKeptMarks
<1> QED
  BY <1>2, <1>3, <1>4, <1>5

\* The chain that FindMostWorkChain returns is clean.
LEMMA MostWorkClean ==
    ASSUME IInv, ActiveInv, LockFree, NEW c \in MostWork
    PROVE  c \in Blocks /\ c \in linked /\ c \in candidates /\ Clean(c)
<1>1. c \in candidates /\ Usable(c) /\ c \in Blocks /\ c \in linked
  BY OrderTypes DEF MostWork, Best, IInv, CandidatesLinked
<1>2. Clean(tip)
  BY ActiveClean DEF LockFree
<1> QED
  BY <1>1, <1>2 DEF Usable, Path, Clean

LEMMA ActivateActive ==
    ASSUME IInv, ActiveInv, NEW th \in Threads, ActivateBestChain(th)
    PROVE  ActiveInv'
<1>1. /\ LockFree /\ tip' = tip
      /\ \A x \in Blocks : /\ Clean(x)' <=> Clean(x)
                           /\ x \in Anc[tip] => KeepsMarksAt(x)
  BY ActivateEffect DEF ActivateBestChain
<1>2. pc \in [Threads -> PCs] /\ target \in [Threads -> Blocks \cup {NoBlock}]
  BY DEF IInv, TypeOK
<1>3. Clean(tip)
  BY <1>1, ActiveClean DEF LockFree
<1>4. ActiveUnmarked'
  BY <1>1, <1>3, OrderTypes, TreeFacts DEF ActiveUnmarked, Clean, KeepsMarksAt, Failed
<1>5. TargetClean'
  <2> SUFFICES ASSUME NEW t \in Threads, pc'[t] = "reorg" PROVE Clean(target[t])'
    BY DEF TargetClean
  <2>1. t = th /\ \E c \in MostWork : target' = [target EXCEPT ![th] = c]
    BY <1>1, <1>2 DEF ActivateBestChain, LockFree
  <2>2. PICK c \in MostWork : target'[t] = c
    BY <1>2, <2>1
  <2>3. c \in Blocks /\ Clean(c)
    BY <1>1, MostWorkClean
  <2>4. Clean(c)'
    BY <1>1, <2>3
  <2> QED
    BY <2>2, <2>4 DEF Clean
<1> QED
  BY <1>4, <1>5 DEF ActiveInv

LEMMA StepActive ==
    ASSUME IInv, TreeInv, ActiveInv, NEW th \in Threads, Step(th)
    PROVE  ActiveInv'
<1>1. pc \in [Threads -> PCs] /\ tip \in Blocks /\ Anc[tip] \subseteq Blocks
  BY TreeFacts DEF IInv, TypeOK
<1>2. CASE DisconnectTip(th)
  <2>1. SameInside
    BY <1>1, <1>2 DEF DisconnectTip, SameInside
  <2> QED
    BY <1>2, <2>1, DisconnectFacts, SameIndex, ActiveKeptMarks DEF DisconnectTip, tree
<1>3. ASSUME NEW b \in Blocks, ConnectTip(th, b) PROVE ActiveInv'
  <2>1. /\ pc[th] = "reorg" /\ tip' = b /\ b \in Anc[target[th]] /\ Parent[b] = tip
        /\ b # Genesis /\ UNCHANGED target
        /\ pc' = [pc EXCEPT ![th] = IF StepEnds(th, b) THEN "looptest" ELSE "reorg"]
    BY <1>3 DEF ConnectTip
  <2>2. KeepsMarks
    BY <1>3, ConnectEffect
  <2>3. \A x \in Blocks : (Failed(x)' <=> Failed(x)) /\ (Clean(x)' <=> Clean(x))
    BY <2>2, MarksKept
  <2>4. SameInside
    BY <1>1, <2>1 DEF SameInside
  <2>5. ~Failed(b)
    BY <2>1 DEF ActiveInv, TargetClean, Clean
  <2>6. Anc[b] = Anc[tip] \cup {b}
    BY <2>1, TreeFacts
  <2>7. ActiveUnmarked'
    BY <1>1, <2>1, <2>3, <2>4, <2>5, <2>6 DEF ActiveInv, ActiveUnmarked, SameInside
  <2>8. TargetClean'
    <3>1. \A t \in Threads : pc[t] = "reorg" => target[t] \in Blocks
      BY DEF IInv, TargetsKnown, TypeOK
    <3>2. \A t \in Threads : pc'[t] = "reorg" => target[t] \in Blocks /\ Clean(target[t])
      BY <2>4, <3>1 DEF ActiveInv, TargetClean, SameInside
    <3> QED
      BY <2>1, <2>3, <3>2, TreeFacts DEF TargetClean, Clean
  <2> QED
    BY <2>7, <2>8 DEF ActiveInv
<1>4. ASSUME NEW b \in Blocks, ConnectTipFails(th, b) PROVE ActiveInv'
  <2>1. /\ \A x \in Blocks \ {b} : idx'[x] = idx[x]
        /\ b \notin Anc[tip] /\ tip' = tip /\ UNCHANGED target
        /\ pc[th] = "reorg" /\ pc' = [pc EXCEPT ![th] = "looptest"]
    BY <1>4, ConnectFailsEffect DEF ConnectTipFails
  <2>2. ActiveUnmarked'
    <3>1. \A x \in Anc[tip] : Failed(x)' => Failed(x)
      BY <1>1, <2>1 DEF Failed
    <3>2. \A t \in Threads : pc[t] = "invalidate" => pc'[t] = "invalidate"
      BY <1>1, <2>1
    <3> QED
      BY <2>1, <3>1, <3>2 DEF ActiveInv, ActiveUnmarked
  <2>3. \A t \in Threads : pc'[t] # "reorg"
    BY <1>1, <2>1 DEF TreeInv, OneInside, Inside
  <2> QED
    BY <2>2, <2>3 DEF ActiveInv, TargetClean
<1>5. CASE LoopTest(th)
  <2>1. SameInside
    BY <1>5, MoveSameInside DEF LoopTest
  <2> QED
    BY <1>5, <2>1, SameIndex, ActiveKeptMarks DEF LoopTest, tree
<1>6. CASE InvalidateTurn(th)
  <2>1. /\ \A x \in Blocks \ {tip} : KeepsMarksAt(x)
        /\ tip # Genesis /\ tip' = Parent[tip]
        /\ pc[th] = "invalidate" /\ UNCHANGED <<pc, target>>
    BY <1>6, InvalidateTurnEffect DEF InvalidateTurn
  <2>2. Anc[tip'] \subseteq Anc[tip] \ {tip}
    BY <1>1, <2>1, TreeAssumption
  <2>3. \A x \in Anc[tip'] : x \in Anc[tip] /\ (Failed(x)' => Failed(x))
    BY <1>1, <2>1, <2>2 DEF KeepsMarksAt, Failed
  <2>4. ActiveUnmarked'
    BY <2>1, <2>3 DEF ActiveInv, ActiveUnmarked
  <2>5. \A t \in Threads : pc'[t] # "reorg"
    BY <2>1 DEF TreeInv, OneInside, Inside
  <2> QED
    BY <2>4, <2>5 DEF ActiveInv, TargetClean
<1>7. CASE InvalidateEnd(th)
  <2>1. /\ target[th] \notin Anc[tip] /\ UNCHANGED <<idx, tip, target>>
        /\ pc[th] = "invalidate" /\ pc' = [pc EXCEPT ![th] = "activating"]
    BY <1>7 DEF InvalidateEnd, tree
  <2>2. \A t \in Threads : pc[t] = "invalidate" \/ pc[t] = "reorg" => t = th
    BY <2>1 DEF TreeInv, OneInside, Inside
  <2>3. \A x \in Anc[tip] : ~Failed(x)
    BY <2>1, <2>2 DEF ActiveInv, ActiveUnmarked
  <2>4. ActiveUnmarked'
    BY <2>1, <2>3 DEF ActiveUnmarked, Failed
  <2>5. TargetClean'
    BY <1>1, <2>1, <2>2 DEF TargetClean
  <2> QED
    BY <2>4, <2>5 DEF ActiveInv
<1> QED
  BY <1>2, <1>3, <1>4, <1>5, <1>6, <1>7, ActivateActive DEF Step

LEMMA InvalidateBlockActive ==
    ASSUME IInv, ActiveInv, NEW th \in Threads, NEW b \in Blocks, InvalidateBlock(th, b)
    PROVE  ActiveInv'
<1>1. /\ \A x \in Blocks \ {b, tip} : KeepsMarksAt(x)
      /\ \/ tip # Genesis /\ tip' = Parent[tip]
         \/ b \notin Anc[tip] /\ tip' = tip /\ KeepsMarksAt(tip)
  BY InvalidateEffect
<1>2. /\ LockFree /\ target' = [target EXCEPT ![th] = b]
      /\ pc' = [pc EXCEPT ![th] = "invalidate"]
      /\ pc \in [Threads -> PCs] /\ target \in [Threads -> Blocks \cup {NoBlock}]
      /\ tip \in Blocks /\ Anc[tip] \subseteq Blocks
  BY TreeFacts DEF InvalidateBlock, IInv, TypeOK
<1>3. Clean(tip)
  BY <1>2, ActiveClean DEF LockFree
<1>4. Anc[tip'] \subseteq Anc[tip] /\ (tip # Genesis /\ tip' = Parent[tip] => tip \notin Anc[tip'])
  BY <1>1, <1>2, TreeAssumption
<1>5. \A x \in Anc[tip'] : x # b => ~Failed(x)'
  BY <1>1, <1>2, <1>3, <1>4 DEF Clean, KeepsMarksAt, Failed
<1>6. ActiveUnmarked'
  BY <1>2, <1>5 DEF ActiveUnmarked
<1>7. \A t \in Threads : pc'[t] # "reorg"
  BY <1>2 DEF LockFree
<1> QED
  BY <1>6, <1>7 DEF ActiveInv, TargetClean

LEMMA ReconsiderBlockActive ==
    ASSUME IInv, ActiveInv, NEW th \in Threads, NEW b \in Blocks, ReconsiderBlock(th, b)
    PROVE  ActiveInv'
<1>1. \A x \in Blocks : Failed(x)' => Failed(x)
  BY ReconsiderEffect DEF KeepsMarksAt, Failed
<1>2. SameInside /\ tip' = tip
  BY MoveSameInside DEF ReconsiderBlock
<1> QED
  BY <1>1, <1>2, ActiveKept

\* What a restart finds on the stored chain is not marked.
LEMMA DiskTipClean ==
    ASSUME IInv, Manual = {}
    PROVE  \A b \in Anc[diskTip] : ~disk[b].fvalid /\ ~disk[b].fchild
<1>1. \A b \in Anc[diskTip] : b \in Blocks /\ Anc[b] \subseteq Anc[diskTip]
  BY TreeAssumption DEF IInv, TypeOK
<1> QED
  BY <1>1 DEF IInv, DiskMarksDeserved, DiskTipValid, Deserved

\* Only an invalidateblock that was cut short marks the stored active chain: as
\* long as the operator invalidates nothing, every restart finds it unmarked.
THEOREM RestartsAlwaysUnmarked ==
    ASSUME Manual = {}
    PROVE  Spec => [][RestartsUnmarked]_vars
<1>1. IInv => RestartsUnmarked
  BY DiskTipClean DEF RestartsUnmarked
<1> QED
  BY Inductive, <1>1, PTL

LEMMA PersistActive ==
    ASSUME IInv, ActiveInv, RestartsUnmarked,
           FlushIndex \/ FlushCoins \/ \E th \in Threads : Restart(th)
    PROVE  ActiveInv'
<1>1. CASE FlushIndex \/ FlushCoins
  <2>1. UNCHANGED <<idx, tip, pc, target>>
    BY <1>1 DEF FlushIndex, FlushCoins, tree
  <2> QED
    BY <2>1, SameIndex, ActiveKeptMarks DEF SameInside
<1>2. ASSUME NEW th \in Threads, Restart(th) PROVE ActiveInv'
  <2>1. /\ idx' = disk /\ tip' = diskTip
        /\ pc' = [t \in Threads |-> IF t = th THEN "activating" ELSE "down"]
    BY <1>2 DEF Restart
  <2>2. ActiveUnmarked'
    BY <1>2, <2>1 DEF RestartsUnmarked, ActiveUnmarked, Failed
  <2>3. TargetClean'
    BY <2>1 DEF TargetClean
  <2> QED
    BY <2>2, <2>3 DEF ActiveInv
<1> QED
  BY <1>1, <1>2

LEMMA StartThreadActive ==
    ASSUME IInv, ActiveInv, NEW th \in Threads, StartThread(th)
    PROVE  ActiveInv'
BY MoveSameInside, SameIndex, ActiveKeptMarks DEF StartThread, tree

LEMMA NextActive ==
    ASSUME IInv, TreeInv, ActiveInv, [Next]_vars, [RestartsUnmarked]_vars
    PROVE  ActiveInv'
<1>1. CASE UNCHANGED vars
  <2>1. UNCHANGED <<idx, tip, pc, target>>
    BY <1>1 DEF vars
  <2> QED
    BY <2>1, SameIndex, ActiveKeptMarks DEF SameInside
<1>2. CASE Next /\ RestartsUnmarked
  BY <1>2, AcceptActive, StepActive, InvalidateBlockActive, ReconsiderBlockActive,
     PersistActive, StartThreadActive
  DEF Next
<1> QED
  BY <1>1, <1>2

LEMMA InitActive == Init => ActiveInv
<1> SUFFICES ASSUME Init PROVE ActiveInv
  OBVIOUS
<1>1. \A b \in Blocks : ~idx[b].fvalid /\ ~idx[b].fchild
  BY HeaderFacts DEF Init
<1>2. Anc[tip] \subseteq Blocks
  BY TreeFacts DEF Init
<1> QED
  BY <1>1, <1>2 DEF Init, ActiveInv, ActiveUnmarked, TargetClean, Failed

LEMMA ActiveInductive == Spec /\ [][RestartsUnmarked]_vars => []ActiveInv
<1>1. IInv /\ TreeInv /\ ActiveInv /\ [Next]_vars /\ [RestartsUnmarked]_vars => ActiveInv'
  BY NextActive
<1> QED
  BY Inductive, TreeInductive, InitActive, <1>1, PTL DEF Spec

\* Outside the turns of InvalidateBlock no block of the active chain is marked
\* as failed, whatever arrives, is reorganised, invalidated or reconsidered:
\* FindMostWorkChain may stop at the first active block.  It needs that no
\* restart finds the marks of an invalidateblock that was cut short.
THEOREM ActiveNeverMarked ==
    Spec /\ [][RestartsUnmarked]_vars => []ActiveChainUnmarked
<1>1. ActiveInv => ActiveChainUnmarked
  BY ActiveClean DEF ActiveChainUnmarked, LockFree, Clean
<1> QED
  BY ActiveInductive, <1>1, PTL

-----------------------------------------------------------------------------
(* A step of ActivateBestChain, in every behaviour.                        *)

\* A step goes from the old tip to a better block, and nothing on the rest of
\* its way is marked.
Heading(th) ==
    /\ oldTip \in Blocks /\ target[th] \in Blocks
    /\ Worse(oldTip, target[th])
    /\ Usable(target[th])

HeadingInv == \A th \in Threads : pc[th] = "reorg" => Heading(th)

\* The steps during which every reorganisation in progress stays where it is.
LEMMA HeadingKept ==
    ASSUME IInv, HeadingInv, UNCHANGED <<seq, addr, tip, oldTip>>,
           \A t \in Threads :
              pc'[t] = "reorg" => /\ pc[t] = "reorg" /\ target'[t] = target[t]
                                  /\ \A x \in Blocks : Failed(x)' => Failed(x)
    PROVE  HeadingInv'
<1> SUFFICES ASSUME NEW t \in Threads, pc'[t] = "reorg" PROVE Heading(t)'
  BY DEF HeadingInv
<1>1. /\ Heading(t) /\ target'[t] = target[t]
      /\ \A x \in Blocks : Failed(x)' => Failed(x)
  BY DEF HeadingInv
<1>2. Worse(oldTip, target[t])'
  BY <1>1 DEF Heading, Worse
<1>3. Usable(target[t])'
  BY <1>1, TreeFacts DEF Heading, Usable, Path
<1> QED
  BY <1>1, <1>2, <1>3 DEF Heading

\* The choice of FindMostWorkChain sorts above the tip, and the way to it is usable.
LEMMA ActivateHeading ==
    ASSUME IInv, TreeInv, HeadingInv, NEW th \in Threads, ActivateBestChain(th)
    PROVE  HeadingInv'
<1>1. /\ LockFree /\ UNCHANGED <<seq, addr, tip>>
      /\ pc \in [Threads -> PCs] /\ target \in [Threads -> Blocks \cup {NoBlock}]
  BY DEF ActivateBestChain, world, IInv, TypeOK
<1> SUFFICES ASSUME NEW t \in Threads, pc'[t] = "reorg" PROVE Heading(t)'
  BY DEF HeadingInv
<1>2. /\ t = th /\ oldTip' = tip
      /\ \E c \in MostWork \ {tip} : target' = [target EXCEPT ![th] = c]
  BY <1>1 DEF ActivateBestChain, LockFree
<1>3. PICK c \in MostWork : c # tip /\ target'[t] = c
  BY <1>1, <1>2
<1>4. c \in candidates /\ c \in Blocks /\ tip \in Blocks /\ Usable(c)
  BY OrderTypes DEF MostWork, Best
<1>5. Worse(tip, c)
  BY <1>3, <1>4, WorseTotal DEF TreeInv, CandidatesNotWorse
<1>6. Worse(oldTip, target[t])'
  BY <1>1, <1>2, <1>3, <1>5 DEF Worse
<1>7. Usable(c)'
  <2>1. ASSUME NEW x \in Path(c) PROVE ~Failed(x)'
    <3>1. x \in Anc[c] /\ x \in Blocks /\ x \notin Anc[tip]
      BY <1>4, TreeFacts DEF Path
    <3> DEFINE gone == UNION {Removed(d) : d \in Discarded}
    <3>2. idx' = [b \in Blocks |->
                    IF b \in gone /\ ~Failed(b) THEN [idx[b] EXCEPT !.fchild = TRUE]
                    ELSE idx[b]]
      BY DEF ActivateBestChain
    <3>3. x \notin gone
      <4> SUFFICES ASSUME NEW d \in Discarded, x \in Removed(d) PROVE FALSE
        OBVIOUS
      <4>1. d \in Blocks /\ ~Usable(d)
        BY OrderTypes DEF Discarded
      <4>2. PICK f \in Path(d) : Failed(f)
        BY <4>1 DEF Usable
      <4>3. x \in Anc[d] /\ f \in Anc[d] /\ f \in Blocks /\ f \notin Anc[tip] /\ x \in Anc[x]
        BY <3>1, <4>1, <4>2, TreeFacts DEF Path, Removed
      <4>4. x \in Anc[f] => x = f
        BY <4>2 DEF Removed
      <4>5. f \in Anc[x]
        BY <4>1, <4>3, <4>4, TreeAssumption
      <4>6. f \in Anc[c]
        BY <1>4, <3>1, <4>5, TreeAssumption
      <4> QED
        BY <1>4, <4>2, <4>3, <4>6 DEF Usable, Path
    <3> HIDE DEF gone
    <3>4. idx'[x] = idx[x] /\ ~Failed(x)
      BY <1>4, <2>1, <3>1, <3>2, <3>3 DEF Usable
    <3> QED
      BY <3>4 DEF Failed
  <2> QED
    BY <1>1, <2>1 DEF Usable, Path
<1> QED
  BY <1>2, <1>3, <1>4, <1>6, <1>7 DEF Heading, Usable, Path, Failed

\* No step of a thread takes that away from a thread inside ActivateBestChainStep.
LEMMA StepHeading ==
    ASSUME IInv, TreeInv, HeadingInv, NEW th \in Threads, Step(th)
    PROVE  HeadingInv'
<1>1. pc \in [Threads -> PCs] /\ tip \in Blocks
  BY DEF IInv, TypeOK
<1>2. CASE pc[th] \in Inside
  <2>1. \A t \in Threads : t # th => pc[t] \notin Inside
    BY <1>2 DEF TreeInv, OneInside
  <2>2. CASE DisconnectTip(th)
    <3>1. /\ UNCHANGED <<seq, addr, idx, oldTip, target>> /\ pc[th] = "reorg"
          /\ pc' = [pc EXCEPT ![th] = IF tip' = target[th] THEN "looptest" ELSE "reorg"]
      BY <2>2 DEF DisconnectTip, tree, world
    <3>2. \A t \in Threads : pc'[t] = "reorg" => t = th
      BY <1>1, <2>1, <3>1 DEF Inside
    <3>3. Heading(th)
      BY <3>1 DEF HeadingInv
    <3>4. tip \notin Anc[target[th]] /\ Anc[tip] = Anc[tip'] \cup {tip}
      BY <2>2, DisconnectFacts
    <3>5. Worse(oldTip, target[th])'
      BY <3>1, <3>3 DEF Heading, Worse
    <3>6. Usable(target[th])'
      <4>1. Anc[target[th]] \ Anc[tip'] = Path(target[th])
        BY <3>4 DEF Path
      <4> QED
        BY <3>1, <3>3, <4>1 DEF Heading, Usable, Path, Failed
    <3> QED
      BY <3>1, <3>2, <3>3, <3>5, <3>6 DEF HeadingInv, Heading
  <2>3. ASSUME NEW b \in Blocks, ConnectTip(th, b) PROVE HeadingInv'
    <3>1. /\ UNCHANGED <<seq, addr, oldTip, target>> /\ tip' = b /\ pc[th] = "reorg"
          /\ Parent[b] = tip /\ b # Genesis
          /\ pc' = [pc EXCEPT ![th] = IF StepEnds(th, b) THEN "looptest" ELSE "reorg"]
      BY <2>3 DEF ConnectTip, world
    <3>2. \A t \in Threads : pc'[t] = "reorg" => t = th
      BY <1>1, <2>1, <3>1 DEF Inside
    <3>3. Heading(th)
      BY <3>1 DEF HeadingInv
    <3>4. \A x \in Blocks : Failed(x)' <=> Failed(x)
      BY <2>3, ConnectEffect, MarksKept
    <3>5. Worse(oldTip, target[th])'
      BY <3>1, <3>3 DEF Heading, Worse
    <3>6. Anc[tip] \subseteq Anc[tip']
      BY <3>1, TreeFacts
    <3>7. Usable(target[th])'
      BY <3>1, <3>3, <3>4, <3>6, TreeFacts DEF Heading, Usable, Path
    <3> QED
      BY <3>1, <3>2, <3>3, <3>5, <3>7 DEF HeadingInv, Heading
  <2>4. ASSUME \/ \E b \in Blocks : ConnectTipFails(th, b)
               \/ InvalidateTurn(th)
               \/ InvalidateEnd(th)
        PROVE  HeadingInv'
    <3>1. \A t \in Threads : pc'[t] # "reorg"
      BY <1>1, <2>1, <2>4 DEF ConnectTipFails, InvalidateTurn, InvalidateEnd, Inside
    <3> QED
      BY <3>1 DEF HeadingInv
  <2> QED
    BY <1>2, <2>2, <2>3, <2>4 DEF Step, ActivateBestChain, LoopTest, Inside
<1>3. CASE LoopTest(th)
  <2>1. /\ UNCHANGED <<seq, addr, tip, oldTip, target, idx>>
        /\ \A t \in Threads : pc'[t] = "reorg" => pc[t] = "reorg"
    BY <1>1, <1>3 DEF LoopTest, world, tree
  <2>2. \A x \in Blocks : Failed(x)' => Failed(x)
    BY <2>1 DEF Failed
  <2> QED
    BY <2>1, <2>2, HeadingKept
<1>4. CASE ActivateBestChain(th)
  BY <1>4, ActivateHeading
<1> QED
  BY <1>2, <1>3, <1>4
  DEF Step, DisconnectTip, ConnectTip, ConnectTipFails, InvalidateTurn, InvalidateEnd, Inside

LEMMA NextHeading ==
    ASSUME IInv, TreeInv, HeadingInv, [Next]_vars
    PROVE  HeadingInv'
<1>1. pc \in [Threads -> PCs]
  BY DEF IInv, TypeOK
<1>2. ASSUME NEW th \in Threads, NEW b \in Blocks,
             \/ AcceptBlockHeader(th, b)
             \/ AcceptBlock(th, b)
             \/ AcceptBlockFails(th, b)
             \/ AcceptDuplicate(th, b)
             \/ InvalidateBlock(th, b)
             \/ ReconsiderBlock(th, b)
      PROVE  HeadingInv'
  <2>1. LockFree
    BY <1>2 DEF AcceptBlockHeader, AcceptBlock, AcceptBlockFails, AcceptDuplicate,
                InvalidateBlock, ReconsiderBlock
  <2>2. \/ pc' = pc
        \/ \E p \in {"activating", "invalidate"} : pc' = [pc EXCEPT ![th] = p]
    BY <1>2 DEF AcceptBlockHeader, AcceptBlock, AcceptBlockFails, AcceptDuplicate,
                InvalidateBlock, ReconsiderBlock
  <2>3. \A t \in Threads : pc'[t] # "reorg"
    BY <1>1, <2>1, <2>2 DEF LockFree
  <2> QED
    BY <2>3 DEF HeadingInv
<1>3. ASSUME \/ FlushIndex
             \/ FlushCoins
             \/ \E th \in Threads : StartThread(th)
             \/ UNCHANGED vars
      PROVE  HeadingInv'
  <2>1. UNCHANGED <<seq, addr, tip, oldTip, target, idx>>
    BY <1>3 DEF FlushIndex, FlushCoins, StartThread, world, tree, vars
  <2>2. \A t \in Threads : pc'[t] = "reorg" => pc[t] = "reorg"
    BY <1>1, <1>3 DEF FlushIndex, FlushCoins, StartThread, vars
  <2>3. \A x \in Blocks : Failed(x)' => Failed(x)
    BY <2>1 DEF Failed
  <2> QED
    BY <2>1, <2>2, <2>3, HeadingKept
<1>4. ASSUME NEW th \in Threads, Restart(th) PROVE HeadingInv'
  BY <1>4 DEF Restart, HeadingInv
<1> QED
  BY <1>2, <1>3, <1>4, StepHeading DEF Next

\* One step of ActivateBestChain: the action of the property StepImproves.
Improves ==
    \A th \in Threads :
        pc[th] = "reorg" /\ pc'[th] = "looptest" =>
            \/ Worse(oldTip, tip')
            \/ \E b \in Blocks : ~Failed(b) /\ Failed(b)'

\* Whatever gives the lock back after a step has improved the tip or marked a block.
LEMMA NextImproves ==
    ASSUME IInv, HeadingInv, Next
    PROVE  Improves
<1> SUFFICES ASSUME NEW th \in Threads, pc[th] = "reorg", pc'[th] = "looptest"
             PROVE  \/ Worse(oldTip, tip')
                    \/ \E b \in Blocks : ~Failed(b) /\ Failed(b)'
  BY DEF Improves
<1>1. pc \in [Threads -> PCs]
  BY DEF IInv, TypeOK
<1>2. Heading(th)
  BY DEF HeadingInv
<1>3. CASE DisconnectTip(th)
  <2>1. tip' = target[th]
    BY <1>1, <1>3 DEF DisconnectTip
  <2> QED
    BY <1>2, <2>1 DEF Heading
<1>4. ASSUME NEW b \in Blocks, ConnectTip(th, b) PROVE Worse(oldTip, tip')
  <2>1. tip' = b /\ StepEnds(th, b)
    BY <1>1, <1>4 DEF ConnectTip
  <2>2. b = target[th] \/ Work[oldTip] < Work[b]
    BY <1>2, <2>1, WorkAssumption DEF StepEnds, Heading
  <2> QED
    BY <1>2, <2>1, <2>2 DEF Heading, Worse
<1>5. ASSUME NEW b \in Blocks, ConnectTipFails(th, b) PROVE ~Failed(b) /\ Failed(b)'
  <2>1. Failed(b)'
    BY <1>5, ConnectFailsEffect DEF Failed
  <2>2. b \in Path(target[th])
    BY <1>5 DEF ConnectTipFails, Path
  <2> QED
    BY <1>2, <2>1, <2>2 DEF Heading, Usable
<1>6. ASSUME NEW t \in Threads, Step(t), t # th PROVE FALSE
  <2>1. \E p : pc' = [pc EXCEPT ![t] = p]
    <3>1. CASE InvalidateTurn(t)
      <4>1. pc' = [pc EXCEPT ![t] = pc[t]]
        BY <1>1, <3>1 DEF InvalidateTurn
      <4> QED
        BY <4>1
    <3>2. CASE ~InvalidateTurn(t)
      BY <1>6, <3>2 DEF Step, ActivateBestChain, DisconnectTip, ConnectTip, ConnectTipFails,
                LoopTest, InvalidateEnd
    <3> QED
      BY <3>1, <3>2
  <2> QED
    BY <1>1, <1>6, <2>1
<1>7. Step(th)
  <2>1. ~LockFree
    BY DEF LockFree
  <2>2. \A t \in Threads : ~Restart(t) /\ ~StartThread(t)
    BY <1>1 DEF Restart, StartThread
  <2>3. ~FlushIndex /\ ~FlushCoins
    BY DEF FlushIndex, FlushCoins
  <2> QED
    BY <1>6, <2>1, <2>2, <2>3
    DEF Next, AcceptBlockHeader, AcceptBlock, AcceptBlockFails, AcceptDuplicate,
        InvalidateBlock, ReconsiderBlock
<1> QED
  BY <1>3, <1>4, <1>5, <1>7
  DEF Step, ActivateBestChain, LoopTest, InvalidateTurn, InvalidateEnd

\* A step of ActivateBestChain gives cs_main back only with a tip that sorts
\* above the one it started from, or after it has marked a block as failed: in
\* every behaviour, crashes and calls of the operator included.
THEOREM StepsImprove == Spec => StepImproves
<1>1. Init => HeadingInv
  BY DEF Init, HeadingInv
<1>2. IInv /\ TreeInv /\ HeadingInv /\ [Next]_vars => HeadingInv'
  BY NextHeading
<1>3. IInv /\ HeadingInv /\ [Next]_vars => [Improves]_vars
  BY NextImproves
<1> QED
  BY Inductive, TreeInductive, <1>1, <1>2, <1>3, PTL DEF Spec, StepImproves, Improves

-----------------------------------------------------------------------------
(* The choice of the best chain.                                           *)

\* r is a sound candidate, and every unmarked linked block that does not sort
\* below r is a candidate too.
OpenFor(r) ==
    /\ r \in linked /\ Clean(r) /\ ~Worse(r, tip)
    /\ \A a \in Anc[r] : verdict[a] = "ok"
    /\ \A b \in linked : ~Failed(b) /\ ~Worse(b, r) => b \in candidates

CandidatesOpen ==
    (\A th \in Threads : pc[th] # "invalidate") => \E r \in Blocks : OpenFor(r)

\* A reorganisation goes to the best of all clean chains.
BestOf(c) == \A b \in linked : Clean(b) => b = c \/ Worse(b, c)
TargetBest == \A th \in Threads : pc[th] = "reorg" => BestOf(target[th])

\* No clean chain is better than the active one.
AtTop == \A b \in linked : Clean(b) => ~Worse(tip, b)

\* A thread that will yet run FindMostWorkChain.
Pending(th) == pc[th] = "activating" \/ (pc[th] = "looptest" /\ target[th] # tip)

Responsible ==
    (\A th \in Threads : pc[th] \notin Inside) => AtTop \/ \E th \in Threads : Pending(th)

ChoiceInv == CandidatesOpen /\ TargetBest /\ Responsible

\* The steps that change nothing the choice depends on.
SameChoice ==
    /\ \A x \in linked : Failed(x)' <=> Failed(x)
    /\ UNCHANGED <<seq, addr, linked, candidates, verdict>>

\* The links, the candidates and the tip in the tree.
LEMMA LinkedFacts ==
    ASSUME IInv, TreeInv
    PROVE  /\ linked \subseteq Blocks /\ tip \in linked /\ tip \in Blocks
           /\ \A b \in linked : Anc[b] \subseteq linked /\ b \in Anc[b]
           /\ candidates \subseteq linked
BY OrderTypes, TreeFacts DEF TreeInv, LinkedClosed, IInv, CandidatesLinked

\* What the steps keep that change no link, mark or order.
LEMMA SameChoiceFacts ==
    ASSUME IInv, TreeInv, SameChoice
    PROVE  /\ \A a, b \in Blocks : Worse(a, b)' <=> Worse(a, b)
           /\ \A b \in linked : Clean(b)' <=> Clean(b)
           /\ \A r \in Blocks : OpenFor(r) /\ ~Worse(r, tip)' => OpenFor(r)'
           /\ \A c \in Blocks : BestOf(c) => BestOf(c)'
           /\ tip' = tip => (AtTop => AtTop')
<1>1. \A a, b \in Blocks : Worse(a, b)' <=> Worse(a, b)
  BY OrderKept DEF SameChoice, KeepsOrder
<1>2. \A b \in linked : Clean(b)' <=> Clean(b)
  BY LinkedFacts DEF SameChoice, Clean
<1>3. ASSUME NEW r \in Blocks, OpenFor(r), ~Worse(r, tip)' PROVE OpenFor(r)'
  <2>1. r \in linked' /\ Clean(r)' /\ \A a \in Anc[r] : verdict'[a] = "ok"
    BY <1>2, <1>3 DEF OpenFor, SameChoice
  <2>2. \A b \in linked' : ~Failed(b)' /\ ~Worse(b, r)' => b \in candidates'
    BY <1>1, <1>3, LinkedFacts DEF OpenFor, SameChoice
  <2> QED
    BY <1>3, <2>1, <2>2 DEF OpenFor
<1>4. ASSUME NEW c \in Blocks, BestOf(c) PROVE BestOf(c)'
  BY <1>1, <1>2, <1>4, LinkedFacts DEF BestOf, SameChoice
<1>5. ASSUME tip' = tip, AtTop PROVE AtTop'
  <2>1. \A b \in linked : ~Worse(tip, b) => ~Worse(tip, b)'
    BY <1>1, <1>5, LinkedFacts DEF SameChoice, Worse
  <2> QED
    BY <1>2, <1>5, <2>1 DEF AtTop, SameChoice
<1> QED
  BY <1>1, <1>2, <1>3, <1>4, <1>5

\* A thread outside cs_main moves, or nobody does.
LEMMA ChoiceKept ==
    ASSUME IInv, TreeInv, ChoiceInv, SameChoice, UNCHANGED <<tip, target>>,
           \A t \in Threads : /\ pc[t] \in Inside \/ pc'[t] \in Inside => pc'[t] = pc[t]
                              /\ Pending(t) => pc'[t] = pc[t] \/ pc'[t] = "activating"
    PROVE  ChoiceInv'
<1>1. CandidatesOpen'
  <2> SUFFICES ASSUME \A t \in Threads : pc'[t] # "invalidate"
               PROVE  \E r \in Blocks : OpenFor(r)'
    BY DEF CandidatesOpen
  <2>1. PICK r \in Blocks : OpenFor(r)
    BY DEF ChoiceInv, CandidatesOpen, Inside
  <2>2. ~Worse(r, tip)'
    BY <2>1 DEF OpenFor, SameChoice, Worse
  <2> QED
    BY <2>1, <2>2, SameChoiceFacts
<1>2. TargetBest'
  <2> SUFFICES ASSUME NEW t \in Threads, pc'[t] = "reorg" PROVE BestOf(target[t])'
    BY DEF TargetBest
  <2>1. BestOf(target[t]) /\ target[t] \in Blocks
    BY DEF ChoiceInv, TargetBest, Inside, IInv, TargetsKnown, TypeOK
  <2>2. BestOf(target[t])' <=> \A b \in linked' : Clean(b)' => b = target[t] \/ Worse(b, target[t])'
    BY DEF BestOf, Worse
  <2> QED
    BY <2>1, <2>2, SameChoiceFacts, LinkedFacts DEF BestOf, SameChoice
<1>3. Responsible'
  <2> SUFFICES ASSUME \A t \in Threads : pc'[t] \notin Inside, ~AtTop'
               PROVE  \E t \in Threads : Pending(t)'
    BY DEF Responsible
  <2>1. PICK t \in Threads : Pending(t)
    BY SameChoiceFacts DEF ChoiceInv, Responsible
  <2>2. Pending(t)'
    BY <2>1 DEF Pending
  <2> QED
    BY <2>2
<1> QED
  BY <1>1, <1>2, <1>3 DEF ChoiceInv

\* What is left to show when a call has just begun that will activate the best
\* chain.
LEMMA ChoiceOpen ==
    ASSUME NEW th \in Threads, pc'[th] = "activating",
           \A t \in Threads : pc'[t] # "reorg",
           NEW r \in Blocks, OpenFor(r)'
    PROVE  ChoiceInv'
BY DEF ChoiceInv, CandidatesOpen, TargetBest, Responsible, Pending

\* And while a block is invalidated.
LEMMA ChoiceInvalidate ==
    ASSUME NEW th \in Threads, pc'[th] = "invalidate",
           \A t \in Threads : pc'[t] # "reorg"
    PROVE  ChoiceInv'
BY DEF ChoiceInv, CandidatesOpen, TargetBest, Responsible, Inside

\* Outside InvalidateBlock some block is open.
LEMMA OpenExists ==
    ASSUME ChoiceInv, \A t \in Threads : pc[t] # "invalidate"
    PROVE  \E r \in Blocks : OpenFor(r)
BY DEF ChoiceInv, CandidatesOpen

\* ChoiceInv, action by action.
LEMMA AcceptBlockChoice ==
    ASSUME IInv, TreeInv, ChoiceInv, NEW th \in Threads, NEW b \in Blocks, AcceptBlock(th, b)
    PROVE  ChoiceInv'
<1>1. /\ KeepsMarks /\ ~idx[b].tx /\ LockFree
      /\ UNCHANGED <<tip, verdict, addr, target>> /\ pc' = [pc EXCEPT ![th] = "activating"]
      /\ pc \in [Threads -> PCs]
  BY AcceptEffect DEF AcceptBlock, TreeInv, world, IInv, TypeOK
<1>2. pc'[th] = "activating" /\ \A t \in Threads : pc'[t] # "reorg" /\ pc[t] # "invalidate"
  BY <1>1 DEF LockFree
<1>3. PICK r \in Blocks : OpenFor(r)
  BY <1>2, OpenExists
<1>4. \A x \in Blocks : (Failed(x)' <=> Failed(x)) /\ (Clean(x)' <=> Clean(x))
  BY <1>1, MarksKept
<1>5. CASE /\ Parent[b] \notin linked
           /\ UNCHANGED <<seq, nBlockSequenceId, linked, candidates>>
  <2>1. SameChoice
    BY <1>1, <1>4, <1>5, LinkedFacts DEF SameChoice
  <2>2. ~Worse(r, tip)'
    BY <1>1, <1>3, <1>5 DEF OpenFor, Worse
  <2>3. OpenFor(r)'
    BY <1>3, <2>1, <2>2, SameChoiceFacts
  <2> QED
    BY <1>2, <2>3, ChoiceOpen
<1>6. CASE /\ \E q \in QueueOrders(NewlyLinked(b)) :
                seq' = [d \in Blocks |-> IF d \in NewlyLinked(b)
                                         THEN nBlockSequenceId + q[d] - 1 ELSE seq[d]]
           /\ linked' = linked \cup NewlyLinked(b)
           /\ candidates' = candidates \cup {d \in NewlyLinked(b) :
                 \/ Work[d] > Work[tip]
                 \/ Work[d] = Work[tip] /\ seq'[d] < seq[tip]}
  <2>1. PICK q \in QueueOrders(NewlyLinked(b)) :
            seq' = [d \in Blocks |-> IF d \in NewlyLinked(b)
                                     THEN nBlockSequenceId + q[d] - 1 ELSE seq[d]]
    BY <1>6
  <2>2. /\ \A x, y \in linked : Worse(x, y)' <=> Worse(x, y)
        /\ \A x \in linked : seq'[x] = seq[x]
        /\ \A d \in NewlyLinked(b), x \in linked : seq'[d] \in Nat /\ seq'[d] > seq[x]
    BY <1>1, <2>1, AcceptOrder
  <2>3. r \in linked /\ tip \in linked /\ ~Worse(r, tip)
    BY <1>3, LinkedFacts DEF OpenFor
  <2>4. ~Worse(r, tip)'
    BY <1>1, <2>2, <2>3 DEF Worse
  <2>5. ASSUME NEW d \in NewlyLinked(b), ~Worse(d, r)' PROVE d \in candidates'
    <3>1. d \in Blocks /\ Work[d] \in Nat /\ Work[r] \in Nat /\ Work[tip] \in Nat
      BY <1>1, NewlyLinkedNew, OrderTypes
    <3>2. Work[r] >= Work[tip]
      BY <2>3, <3>1 DEF Worse
    <3>3. Work[d] >= Work[r] /\ Work[d] # Work[r]
      BY <2>2, <2>3, <2>5, <3>1, OrderTypes DEF Worse
    <3>4. Work[d] > Work[tip]
      BY <3>1, <3>2, <3>3
    <3> QED
      BY <1>6, <3>4
  <2>6. ASSUME NEW x \in linked', ~Failed(x)', ~Worse(x, r)' PROVE x \in candidates'
    <3>1. CASE x \in NewlyLinked(b)
      BY <2>5, <2>6, <3>1
    <3>2. CASE x \in linked
      <4>1. ~Failed(x) /\ ~Worse(x, r)
        BY <1>4, <2>2, <2>3, <2>6, <3>2, LinkedFacts
      <4>2. x \in candidates
        BY <1>3, <3>2, <4>1 DEF OpenFor
      <4> QED
        BY <1>6, <4>2
    <3> QED
      BY <1>6, <3>1, <3>2
  <2>7. r \in linked' /\ Clean(r)' /\ \A a \in Anc[r] : verdict'[a] = "ok"
    BY <1>1, <1>3, <1>4, <1>6 DEF OpenFor
  <2>8. OpenFor(r)'
    BY <2>4, <2>6, <2>7 DEF OpenFor
  <2> QED
    BY <1>2, <2>8, ChoiceOpen
<1> QED
  BY <1>5, <1>6 DEF AcceptBlock, ReceivedBlockTransactions

LEMMA AcceptChoice ==
    ASSUME IInv, TreeInv, ChoiceInv, NEW th \in Threads, NEW b \in Blocks,
           \/ AcceptBlockHeader(th, b)
           \/ AcceptBlockFails(th, b)
           \/ AcceptDuplicate(th, b)
    PROVE  ChoiceInv'
<1>1. MarkedKnown /\ pc \in [Threads -> PCs]
  BY DEF TreeInv, IInv, TypeOK
<1>2. CASE AcceptBlockHeader(th, b)
  <2>1. UNCHANGED <<seq, addr, linked, candidates, verdict, tip, target, pc>>
    BY <1>2 DEF AcceptBlockHeader, world
  <2>2. SameChoice
    BY <1>1, <1>2, <2>1, HeaderEffect, MarksKept, LinkedFacts DEF SameChoice
  <2> QED
    BY <2>1, <2>2, ChoiceKept
<1>3. CASE AcceptBlockFails(th, b)
  <2>1. UNCHANGED <<seq, addr, linked, candidates, verdict, tip, target, pc>> /\ ~idx[b].tx
    BY <1>3 DEF AcceptBlockFails, world
  <2>2. \A x \in Blocks \ {b} : idx'[x] = idx[x]
    BY <1>1, <1>3, AcceptFailsEffect
  <2>3. b \notin linked
    BY <2>1, TreeFacts DEF IInv, LinksHaveData
  <2>4. SameChoice
    BY <2>1, <2>2, <2>3, LinkedFacts DEF SameChoice, Failed
  <2> QED
    BY <2>1, <2>4, ChoiceKept
<1>4. CASE AcceptDuplicate(th, b)
  <2>1. /\ UNCHANGED <<seq, addr, linked, candidates, verdict, tip, target, idx>>
        /\ pc[th] = "idle" /\ pc' = [pc EXCEPT ![th] = "activating"]
    BY <1>4 DEF AcceptDuplicate, world, tree
  <2>2. SameChoice
    BY <2>1 DEF SameChoice, Failed
  <2> QED
    BY <1>1, <2>1, <2>2, ChoiceKept DEF Inside
<1> QED
  BY <1>2, <1>3, <1>4

\* FindMostWorkChain finds the best of all clean chains.
LEMMA MostWorkBest ==
    ASSUME IInv, TreeInv, ActiveInv, ChoiceInv, LockFree
    PROVE  /\ MostWork # {}
           /\ \A c \in MostWork : BestOf(c)
<1>1. Clean(tip) /\ \A t \in Threads : pc[t] # "invalidate"
  BY ActiveClean DEF LockFree
<1>2. PICK r \in Blocks : OpenFor(r)
  BY <1>1, OpenExists
<1> DEFINE U == {c \in candidates : Usable(c)}
<1>3. \A b \in linked : Clean(b) => ~Failed(b) /\ Usable(b)
  BY LinkedFacts DEF Clean, Usable, Path
<1>4. r \in U
  BY <1>2, <1>3, WorseNotSelf DEF OpenFor
<1>5. U \in SUBSET Blocks
  BY OrderTypes
<1>6. MostWork = Best(U)
  BY DEF MostWork
<1>7. MostWork # {}
  <2> HIDE DEF U
  <2> QED
    BY <1>4, <1>5, <1>6, BestExists
<1>8. ASSUME NEW c \in MostWork, NEW b \in linked, Clean(b)
      PROVE  b = c \/ Worse(b, c)
  <2>1. c \in Blocks /\ b \in Blocks /\ r \in Blocks
    BY <1>5, <1>6, LinkedFacts DEF Best
  <2>2. \A d \in U : d = c \/ Worse(d, c)
    BY <1>6, <1>8 DEF Best
  <2>3. CASE b \in candidates
    BY <1>3, <1>8, <2>2, <2>3
  <2>4. CASE b \notin candidates
    <3>1. Worse(b, r)
      BY <1>2, <1>3, <1>8, <2>4 DEF OpenFor
    <3> QED
      BY <1>4, <2>1, <2>2, <3>1, WorseTrans
  <2> QED
    BY <2>3, <2>4
<1> QED
  BY <1>7, <1>8 DEF BestOf

LEMMA ActivateChoice ==
    ASSUME IInv, TreeInv, ActiveInv, ChoiceInv, NEW th \in Threads, ActivateBestChain(th)
    PROVE  ChoiceInv'
<1>1. /\ LockFree /\ UNCHANGED <<seq, addr, tip, linked, verdict>>
      /\ pc \in [Threads -> PCs] /\ target \in [Threads -> Blocks \cup {NoBlock}]
  BY DEF ActivateBestChain, world, IInv, TypeOK
<1>2. /\ \A x \in Blocks : /\ Clean(x)' <=> Clean(x)
                           /\ Failed(x) => Failed(x)'
      /\ \A x \in candidates : ~Failed(x)' => x \in candidates'
  BY ActivateEffect DEF Failed
<1>3. \A a, b \in Blocks : Worse(a, b)' <=> Worse(a, b)
  BY <1>1, OrderKept DEF KeepsOrder
<1>4. PICK r \in Blocks : OpenFor(r)
  BY <1>1, OpenExists DEF LockFree
<1>5. OpenFor(r)'
  <2>1. r \in linked' /\ Clean(r)' /\ \A a \in Anc[r] : verdict'[a] = "ok"
    BY <1>1, <1>2, <1>4 DEF OpenFor
  <2>2. ~Worse(r, tip)'
    BY <1>1, <1>4 DEF OpenFor, Worse
  <2>3. \A b \in linked' : ~Failed(b)' /\ ~Worse(b, r)' => b \in candidates'
    BY <1>1, <1>2, <1>3, <1>4, LinkedFacts DEF OpenFor
  <2> QED
    BY <2>1, <2>2, <2>3 DEF OpenFor
<1>6. CandidatesOpen'
  BY <1>5 DEF CandidatesOpen
<1>7. MostWork # {} /\ (\A c \in MostWork : BestOf(c)) /\ MostWork \subseteq linked
  BY <1>1, MostWorkBest, MostWorkClean
<1>8. \A c \in MostWork : \A b \in linked : Clean(b)' => b = c \/ Worse(b, c)'
  BY <1>2, <1>3, <1>7, LinkedFacts DEF BestOf
<1>9. CASE MostWork \subseteq {tip} /\ pc' = [pc EXCEPT ![th] = "idle"]
  <2>1. tip \in MostWork /\ tip \in Blocks
    BY <1>7, <1>9, LinkedFacts
  <2>2. \A b \in linked : Clean(b) => ~Worse(tip, b)
    BY <1>7, <2>1, LinkedFacts, WorseNotSelf, WorseNotBoth DEF BestOf
  <2>3. \A b \in linked : Clean(b)' => ~Worse(tip, b)'
    BY <1>1, <1>2, <2>2, LinkedFacts DEF Worse
  <2>4. AtTop'
    BY <1>1, <2>3 DEF AtTop
  <2>5. \A t \in Threads : pc'[t] # "reorg"
    BY <1>1, <1>9 DEF LockFree
  <2> QED
    BY <1>6, <2>4, <2>5 DEF ChoiceInv, TargetBest, Responsible
<1>10. CASE /\ \E c \in MostWork \ {tip} : target' = [target EXCEPT ![th] = c]
            /\ pc' = [pc EXCEPT ![th] = "reorg"]
  <2>1. PICK c \in MostWork : target' = [target EXCEPT ![th] = c]
    BY <1>10
  <2>2. target'[th] = c /\ pc'[th] = "reorg" /\ \A t \in Threads : pc'[t] = "reorg" => t = th
    BY <1>1, <1>10, <2>1 DEF LockFree
  <2>3. BestOf(target[th])'
    BY <1>1, <1>8, <2>2 DEF BestOf, Worse
  <2> QED
    BY <1>6, <2>2, <2>3 DEF ChoiceInv, TargetBest, Responsible, Inside
<1> QED
  BY <1>9, <1>10 DEF ActivateBestChain

\* The two actions that move the tip during a step.
LEMMA DisconnectChoice ==
    ASSUME IInv, TreeInv, ChoiceInv, NEW th \in Threads, DisconnectTip(th)
    PROVE  ChoiceInv'
<1>1. /\ UNCHANGED <<seq, addr, linked, candidates, verdict, target, idx>>
      /\ pc[th] = "reorg" /\ pc \in [Threads -> PCs]
      /\ pc' = [pc EXCEPT ![th] = IF tip' = target[th] THEN "looptest" ELSE "reorg"]
  BY DEF DisconnectTip, world, tree, IInv, TypeOK
<1>2. /\ tip \in Blocks \ {Genesis} /\ tip' = Parent[tip] /\ tip' \in Blocks
      /\ target[th] \in linked /\ target[th] \in Blocks
  BY DisconnectFacts
<1>3. SameChoice
  BY <1>1 DEF SameChoice, Failed
<1>4. \A t \in Threads : pc[t] \in Inside => t = th
  BY <1>1 DEF TreeInv, OneInside, Inside
<1>5. PICK r \in Blocks : OpenFor(r)
  BY <1>1, <1>4, OpenExists DEF Inside
<1>6. ~Worse(r, tip)'
  <2>1. Worse(Parent[tip], tip) /\ Parent[tip] \in Blocks
    BY <1>2, ParentWorse
  <2>2. ~Worse(tip, Parent[tip])
    BY <1>2, <2>1, WorseNotBoth
  <2>3. ~Worse(r, Parent[tip])
    BY <1>2, <1>5, <2>1, <2>2, NotWorseTrans DEF OpenFor
  <2> QED
    BY <1>1, <1>2, <2>3 DEF Worse
<1>7. CandidatesOpen'
  BY <1>3, <1>5, <1>6, SameChoiceFacts DEF CandidatesOpen
<1>8. BestOf(target[th]) /\ \A t \in Threads : pc'[t] = "reorg" => t = th
  BY <1>1, <1>4 DEF ChoiceInv, TargetBest, Inside
<1>9. \A b \in linked : Clean(b)' => b = target[th] \/ Worse(b, target[th])'
  <2>1. \A b \in linked : Clean(b)' => Clean(b)
    BY <1>3, SameChoiceFacts
  <2> QED
    BY <1>1, <1>8, <2>1 DEF BestOf, Worse
<1>10. TargetBest'
  BY <1>1, <1>8, <1>9 DEF TargetBest, BestOf, Worse
<1>11. Responsible'
  <2> SUFFICES ASSUME \A t \in Threads : pc'[t] \notin Inside PROVE AtTop'
    BY DEF Responsible
  <2>1. tip' = target[th]
    BY <1>1 DEF Inside
  <2>2. \A b \in linked : Clean(b) => ~Worse(target[th], b)
    BY <1>2, <1>8, LinkedFacts, WorseNotSelf, WorseNotBoth DEF BestOf
  <2>3. \A b \in linked : Clean(b)' => ~Worse(tip, b)'
    BY <1>1, <1>3, <2>1, <2>2, SameChoiceFacts DEF Worse
  <2> QED
    BY <1>1, <2>3 DEF AtTop
<1> QED
  BY <1>7, <1>10, <1>11 DEF ChoiceInv

LEMMA ConnectChoice ==
    ASSUME IInv, IInv', TreeInv, ActiveInv, ChoiceInv,
           NEW th \in Threads, NEW b \in Blocks, ConnectTip(th, b)
    PROVE  ChoiceInv'
<1>1. /\ UNCHANGED <<seq, addr, linked, verdict, target>>
      /\ pc[th] = "reorg" /\ pc \in [Threads -> PCs]
      /\ pc' = [pc EXCEPT ![th] = IF StepEnds(th, b) THEN "looptest" ELSE "reorg"]
      /\ tip' = b /\ candidates' = {c \in candidates : ~Worse(c, b)}
      /\ b \in Anc[target[th]]
  BY DEF ConnectTip, PruneBlockIndexCandidates, world, IInv, TypeOK
<1>2. target[th] \in linked /\ target[th] \in Blocks /\ b \in linked
  BY <1>1, LinkedFacts DEF IInv, TargetsKnown
<1>3. \A x \in Blocks : (Failed(x)' <=> Failed(x)) /\ (Clean(x)' <=> Clean(x))
  BY ConnectEffect, MarksKept
<1>4. \A x, y \in Blocks : Worse(x, y)' <=> Worse(x, y)
  BY <1>1, OrderKept DEF KeepsOrder
<1>5. \A t \in Threads : pc[t] \in Inside => t = th
  BY <1>1 DEF TreeInv, OneInside, Inside
<1>6. PICK r \in Blocks : OpenFor(r)
  BY <1>1, <1>5, OpenExists DEF Inside
<1>7. Clean(b)
  <2>1. Clean(target[th])
    BY <1>1 DEF ActiveInv, TargetClean
  <2>2. Anc[b] \subseteq Anc[target[th]]
    BY <1>1, <1>2, TreeAssumption
  <2> QED
    BY <2>1, <2>2 DEF Clean
<1>8. \E s \in Blocks : OpenFor(s)'
  <2>1. CASE ~Worse(r, b)
    <3>1. r \in linked' /\ Clean(r)' /\ \A a \in Anc[r] : verdict'[a] = "ok"
      BY <1>1, <1>3, <1>6 DEF OpenFor
    <3>2. ~Worse(r, tip)'
      BY <1>1, <2>1 DEF Worse
    <3>3. ASSUME NEW x \in linked, ~Failed(x)', ~Worse(x, r)' PROVE x \in candidates'
      <4>1. x \in Blocks /\ ~Failed(x) /\ ~Worse(x, r)
        BY <1>3, <1>4, <3>3, LinkedFacts
      <4>2. x \in candidates
        BY <1>6, <4>1 DEF OpenFor
      <4>3. ~Worse(x, b)
        BY <2>1, <4>1, NotWorseTrans
      <4> QED
        BY <1>1, <4>2, <4>3
    <3> QED
      BY <1>1, <3>1, <3>2, <3>3 DEF OpenFor
  <2>2. CASE Worse(r, b)
    <3>1. b \in linked' /\ Clean(b)' /\ \A a \in Anc[b] : verdict'[a] = "ok"
      BY <1>1, <1>2, <1>3, <1>7 DEF IInv, ActiveChainSound
    <3>2. ~Worse(b, tip)'
      BY <1>1, WorseNotSelf DEF Worse
    <3>3. ASSUME NEW x \in linked, ~Failed(x)', ~Worse(x, b)' PROVE x \in candidates'
      <4>1. x \in Blocks /\ ~Failed(x) /\ ~Worse(x, b)
        BY <1>3, <1>4, <3>3, LinkedFacts
      <4>2. ~Worse(b, r)
        BY <2>2, WorseNotBoth
      <4>3. ~Worse(x, r)
        BY <4>1, <4>2, NotWorseTrans
      <4>4. x \in candidates
        BY <1>6, <4>1, <4>3 DEF OpenFor
      <4> QED
        BY <1>1, <4>1, <4>4
    <3> QED
      BY <1>1, <3>1, <3>2, <3>3 DEF OpenFor
  <2> QED
    BY <2>1, <2>2
<1>9. CandidatesOpen'
  BY <1>8 DEF CandidatesOpen
<1>10. BestOf(target[th]) /\ \A t \in Threads : pc'[t] = "reorg" => t = th
  BY <1>1, <1>5 DEF ChoiceInv, TargetBest, Inside
<1>11. \A x \in linked : Clean(x)' => x = target[th] \/ Worse(x, target[th])'
  <2>1. \A x \in linked : Clean(x)' => Clean(x)
    BY <1>3, LinkedFacts
  <2> QED
    BY <1>1, <1>10, <2>1 DEF BestOf, Worse
<1>12. TargetBest'
  BY <1>1, <1>10, <1>11 DEF TargetBest, BestOf, Worse
<1>13. Responsible'
  <2> SUFFICES ASSUME \A t \in Threads : pc'[t] \notin Inside
               PROVE  AtTop' \/ Pending(th)'
    BY DEF Responsible
  <2>1. pc'[th] = "looptest"
    BY <1>1 DEF Inside
  <2>2. CASE b = target[th]
    <3>1. \A x \in linked : Clean(x) => ~Worse(b, x)
      BY <1>2, <1>10, <2>2, LinkedFacts, WorseNotSelf, WorseNotBoth DEF BestOf
    <3>2. \A x \in linked : Clean(x)' => ~Worse(tip, x)'
      BY <1>1, <1>3, <3>1, LinkedFacts DEF Worse
    <3> QED
      BY <1>1, <3>2 DEF AtTop
  <2>3. CASE b # target[th]
    BY <1>1, <2>1, <2>3 DEF Pending
  <2> QED
    BY <2>2, <2>3
<1> QED
  BY <1>9, <1>12, <1>13 DEF ChoiceInv

LEMMA ConnectFailsChoice ==
    ASSUME IInv, TreeInv, ChoiceInv, NEW th \in Threads, NEW b \in Blocks,
           ConnectTipFails(th, b)
    PROVE  ChoiceInv'
<1>1. /\ UNCHANGED <<seq, addr, linked, verdict, target, tip>>
      /\ pc[th] = "reorg" /\ pc \in [Threads -> PCs]
      /\ pc' = [pc EXCEPT ![th] = "looptest"] /\ candidates' = candidates \ {b}
      /\ b \in Anc[target[th]] /\ b \notin Anc[tip] /\ verdict[b] = "badconnect"
  BY DEF ConnectTipFails, world, IInv, TypeOK
<1>2. idx'[b].fvalid /\ \A x \in Blocks \ {b} : idx'[x] = idx[x]
  BY ConnectFailsEffect
<1>3. \A t \in Threads : pc[t] \in Inside => t = th
  BY <1>1 DEF TreeInv, OneInside, Inside
<1>4. PICK r \in Blocks : OpenFor(r)
  BY <1>1, <1>3, OpenExists DEF Inside
<1>5. b \notin Anc[r]
  BY <1>1, <1>4 DEF OpenFor
<1>6. OpenFor(r)'
  <2>1. Clean(r)'
    BY <1>2, <1>4, <1>5, TreeFacts DEF OpenFor, Clean, Failed
  <2>2. ~Worse(r, tip)'
    BY <1>1, <1>4 DEF OpenFor, Worse
  <2>3. ASSUME NEW x \in linked, ~Failed(x)', ~Worse(x, r)' PROVE x \in candidates'
    <3>1. x # b /\ x \in Blocks /\ ~Failed(x)
      BY <1>2, <2>3, LinkedFacts DEF Failed
    <3>2. ~Worse(x, r)
      BY <1>1, <2>3 DEF Worse
    <3> QED
      BY <1>1, <1>4, <3>1, <3>2 DEF OpenFor
  <2> QED
    BY <1>1, <1>4, <2>1, <2>2, <2>3 DEF OpenFor
<1>7. target[th] # tip
  BY <1>1
<1>8. Pending(th)'
  BY <1>1, <1>7 DEF Pending
<1>9. \A t \in Threads : pc'[t] # "reorg"
  BY <1>1, <1>3 DEF Inside
<1> QED
  BY <1>6, <1>8, <1>9 DEF ChoiceInv, CandidatesOpen, TargetBest, Responsible

LEMMA LoopTestChoice ==
    ASSUME IInv, TreeInv, ChoiceInv, NEW th \in Threads, LoopTest(th)
    PROVE  ChoiceInv'
<1>1. /\ UNCHANGED <<seq, addr, linked, candidates, verdict, tip, target, idx>>
      /\ pc[th] = "looptest" /\ pc \in [Threads -> PCs]
      /\ pc' = [pc EXCEPT ![th] = IF target[th] = tip THEN "idle" ELSE "activating"]
  BY DEF LoopTest, world, tree, IInv, TypeOK
<1>2. SameChoice
  BY <1>1 DEF SameChoice, Failed
<1> QED
  BY <1>1, <1>2, ChoiceKept DEF Inside, Pending

LEMMA InvalidateTurnChoice ==
    ASSUME TreeInv, NEW th \in Threads, InvalidateTurn(th)
    PROVE  ChoiceInv'
<1>1. pc[th] = "invalidate" /\ pc' = pc
  BY DEF InvalidateTurn
<1>2. \A t \in Threads : pc'[t] # "reorg"
  BY <1>1 DEF TreeInv, OneInside, Inside
<1> QED
  BY <1>1, <1>2, ChoiceInvalidate

LEMMA InvalidateBlockChoice ==
    ASSUME IInv, NEW th \in Threads, NEW b \in Blocks, InvalidateBlock(th, b)
    PROVE  ChoiceInv'
<1>1. pc' = [pc EXCEPT ![th] = "invalidate"] /\ LockFree /\ pc \in [Threads -> PCs]
  BY DEF InvalidateBlock, IInv, TypeOK
<1> QED
  BY <1>1, ChoiceInvalidate DEF LockFree

\* InvalidateBlock ends with every block that is as good as the tip among the
\* candidates.
LEMMA InvalidateEndChoice ==
    ASSUME IInv, TreeInv, ActiveInv, ActiveInv', ChoiceInv, NEW th \in Threads, InvalidateEnd(th)
    PROVE  ChoiceInv'
<1>1. /\ UNCHANGED <<seq, addr, linked, verdict, tip, target, idx>>
      /\ pc[th] = "invalidate" /\ pc \in [Threads -> PCs]
      /\ pc' = [pc EXCEPT ![th] = "activating"]
      /\ candidates' = candidates \cup Readmitted
  BY DEF InvalidateEnd, world, tree, IInv, TypeOK
<1>2. \A t \in Threads : pc'[t] \notin Inside
  BY <1>1 DEF TreeInv, OneInside, Inside
<1>3. Clean(tip)'
  BY <1>2 DEF ActiveInv, ActiveUnmarked, Clean, Inside
<1>4. tip \in linked /\ tip \in Blocks /\ \A a \in Anc[tip] : verdict[a] = "ok"
  BY LinkedFacts DEF IInv, ActiveChainSound
<1>5. ASSUME NEW x \in linked, ~Failed(x), ~Worse(x, tip) PROVE x \in candidates'
  <2>1. idx[x].tx
    BY LinkedFacts DEF IInv, LinksHaveData
  <2> QED
    BY <1>1, <1>5, <2>1 DEF Readmitted, IsValidTx
<1>6. OpenFor(tip)'
  <2>1. ~Worse(tip, tip)'
    BY <1>1, <1>4, WorseNotSelf DEF Worse
  <2>2. \A x \in linked' : ~Failed(x)' /\ ~Worse(x, tip)' => x \in candidates'
    BY <1>1, <1>5 DEF Failed, Worse
  <2> QED
    BY <1>1, <1>3, <1>4, <2>1, <2>2 DEF OpenFor
<1>7. \E r \in Blocks : OpenFor(r)'
  BY <1>1, <1>4, <1>6 DEF OpenFor, Clean, Worse
<1>8. pc'[th] = "activating"
  BY <1>1
<1> QED
  BY <1>2, <1>7, <1>8, ChoiceOpen DEF Inside

\* ReconsiderBlock: the blocks that it clears and that beat the tip become
\* candidates again, and every other one was one already.
LEMMA ReconsiderBlockChoice ==
    ASSUME IInv, TreeInv, ActiveInv, ChoiceInv, ReconsidersLowest,
           NEW th \in Threads, NEW b \in Blocks, ReconsiderBlock(th, b)
    PROVE  ChoiceInv'
<1>1. /\ UNCHANGED <<seq, addr, linked, verdict, tip, target>> /\ LockFree
      /\ pc \in [Threads -> PCs] /\ pc' = [pc EXCEPT ![th] = "activating"]
      /\ idx[b].known
  BY DEF ReconsiderBlock, world, IInv, TypeOK
<1>2. /\ \A x \in Blocks \ Cleared(b) : KeepsMarksAt(x)
      /\ candidates' = candidates \cup Reinstated(b)
      /\ \A x \in Blocks : Failed(x)' => Failed(x)
  BY ReconsiderEffect DEF Failed, KeepsMarksAt
<1>3. PICK r \in Blocks : OpenFor(r)
  BY <1>1, OpenExists DEF LockFree
<1>4. Clean(tip)
  BY <1>1, ActiveClean DEF LockFree
<1>5. ASSUME NEW x \in linked, x \in Cleared(b), ~Worse(x, r) PROVE x \in candidates'
  <2>1. x \in Blocks /\ tip \in Blocks /\ idx[x].tx /\ tip \in Anc[tip]
    BY LinkedFacts DEF IInv, LinksHaveData
  <2>2. x \in Reconsiderable(b)
    <3>1. x \in Reconsiderable(b) \/ (x \in Anc[b] /\ Failed(x))
      BY <1>5 DEF Cleared
    <3>2. x \in Anc[b] /\ Failed(x) => x = b
      BY DEF ReconsidersLowest
    <3>3. Failed(b) => b \in Reconsiderable(b)
      BY <1>1, TreeFacts DEF Reconsiderable, Descendants, IsValidTx
    <3> QED
      BY <3>1, <3>2, <3>3
  <2>3. Failed(x)
    BY <2>1, <2>2 DEF Reconsiderable, IsValidTx
  <2>4. x # tip
    BY <1>4, <2>1, <2>3 DEF Clean
  <2>5. ~Worse(x, tip)
    BY <1>3, <1>5, <2>1, NotWorseTrans DEF OpenFor
  <2>6. Worse(tip, x)
    BY <2>1, <2>4, <2>5, WorseTotal
  <2> QED
    BY <1>2, <2>1, <2>2, <2>6 DEF Reinstated
<1>6. OpenFor(r)'
  <2>1. Clean(r)'
    BY <1>2, <1>3, TreeFacts DEF OpenFor, Clean
  <2>2. ~Worse(r, tip)'
    BY <1>1, <1>3 DEF OpenFor, Worse
  <2>3. ASSUME NEW x \in linked, ~Failed(x)', ~Worse(x, r)' PROVE x \in candidates'
    <3>1. ~Worse(x, r) /\ x \in Blocks
      BY <1>1, <2>3, LinkedFacts DEF Worse
    <3>2. CASE x \in Cleared(b)
      BY <1>5, <3>1, <3>2
    <3>3. CASE x \notin Cleared(b)
      BY <1>2, <1>3, <2>3, <3>1, <3>3 DEF OpenFor, KeepsMarksAt, Failed
    <3> QED
      BY <3>2, <3>3
  <2> QED
    BY <1>1, <1>3, <2>1, <2>2, <2>3 DEF OpenFor
<1>7. pc'[th] = "activating" /\ \A t \in Threads : pc'[t] # "reorg"
  BY <1>1 DEF LockFree
<1> QED
  BY <1>6, <1>7, ChoiceOpen

\* LoadBlockIndexDB rebuilds the candidates around the stored tip.
LEMMA RestartChoice ==
    ASSUME IInv, IInv', RestartsUnmarked, NEW th \in Threads, Restart(th)
    PROVE  ChoiceInv'
<1>1. /\ idx' = disk /\ linked' = LoadedLinked /\ tip' = diskTip /\ diskTip' = diskTip
      /\ seq' = [b \in Blocks |-> 0] /\ candidates' = LoadedCandidates
      /\ pc' = [t \in Threads |-> IF t = th THEN "activating" ELSE "down"]
  BY DEF Restart
<1>2. diskTip \in LoadedLinked /\ diskTip \in Blocks /\ LoadedLinked \subseteq Blocks
  BY LoadedFacts
<1>3. Clean(diskTip)'
  BY <1>1 DEF RestartsUnmarked, Clean, Failed
<1>4. \A a \in Anc[diskTip] : verdict'[a] = "ok"
  BY <1>1 DEF IInv, ActiveChainSound
<1>5. ASSUME NEW x \in LoadedLinked, ~Failed(x)', ~Worse(x, diskTip)'
      PROVE  x \in candidates'
  <2>1. Worse(x, diskTip)' <=> \/ Work[x] < Work[diskTip]
                               \/ Work[x] = Work[diskTip] /\ seq'[x] > seq'[diskTip']
                               \/ /\ Work[x] = Work[diskTip] /\ seq'[x] = seq'[diskTip']
                                  /\ addr'[x] > addr'[diskTip']
    BY <1>1 DEF Worse, Restart
  <2>2. diskTip' = diskTip /\ seq'[x] = 0 /\ seq'[diskTip] = 0
    BY <1>1, <1>2 DEF Restart
  <2>3. ~(\/ Work[x] < Work[diskTip]
          \/ Work[x] = Work[diskTip] /\ addr'[x] > addr'[diskTip])
    BY <1>5, <2>1, <2>2
  <2>4. ~disk[x].fvalid /\ ~disk[x].fchild
    BY <1>1, <1>5 DEF Failed
  <2> QED
    BY <1>1, <2>3, <2>4 DEF LoadedCandidates
<1>6. ~Worse(diskTip, tip)'
  <2>1. diskTip' = diskTip
    BY DEF Restart
  <2>2. \A x \in Blocks : addr'[x] \in Nat /\ seq'[x] \in Nat /\ Work[x] \in Nat
    BY <1>1, AddrAssumption, WorkAssumption DEF Restart
  <2> QED
    BY <1>1, <1>2, <2>1, <2>2 DEF Worse
<1>7. OpenFor(diskTip)'
  <2>1. diskTip' = diskTip
    BY DEF Restart
  <2> QED
    BY <1>1, <1>2, <1>3, <1>4, <1>5, <1>6, <2>1 DEF OpenFor
<1>8. \E r \in Blocks : OpenFor(r)'
  <2>1. diskTip' = diskTip
    BY DEF Restart
  <2> QED
    BY <1>2, <1>7, <2>1 DEF OpenFor, Clean, Worse
<1>9. pc'[th] = "activating" /\ \A t \in Threads : pc'[t] # "reorg"
  BY <1>1
<1> QED
  BY <1>8, <1>9, ChoiceOpen

LEMMA QuietChoice ==
    ASSUME IInv, TreeInv, ChoiceInv,
           \/ FlushIndex
           \/ FlushCoins
           \/ \E th \in Threads : StartThread(th)
           \/ UNCHANGED vars
    PROVE  ChoiceInv'
<1>1. UNCHANGED <<seq, addr, linked, candidates, verdict, tip, target, idx>>
  BY DEF FlushIndex, FlushCoins, StartThread, world, tree, vars
<1>2. SameChoice
  BY <1>1 DEF SameChoice, Failed
<1>3. \A t \in Threads : pc'[t] = pc[t] \/ (pc[t] = "down" /\ pc'[t] = "idle")
  BY DEF FlushIndex, FlushCoins, StartThread, vars, IInv, TypeOK
<1> QED
  BY <1>1, <1>2, <1>3, ChoiceKept DEF Inside, Pending

LEMMA NextChoice ==
    ASSUME IInv, IInv', TreeInv, ActiveInv, ActiveInv', ChoiceInv,
           [Next]_vars, [ReconsidersLowest]_vars, [RestartsUnmarked]_vars
    PROVE  ChoiceInv'
<1>1. CASE UNCHANGED vars
  BY <1>1, QuietChoice
<1>2. CASE Next /\ ReconsidersLowest /\ RestartsUnmarked
  <2>1. ASSUME NEW th \in Threads, Step(th) PROVE ChoiceInv'
    BY <2>1, ActivateChoice, DisconnectChoice, ConnectChoice, ConnectFailsChoice,
       LoopTestChoice, InvalidateTurnChoice, InvalidateEndChoice
    DEF Step
  <2> QED
    BY <1>2, <2>1, AcceptBlockChoice, AcceptChoice, InvalidateBlockChoice,
       ReconsiderBlockChoice, RestartChoice, QuietChoice
    DEF Next
<1> QED
  BY <1>1, <1>2

LEMMA InitChoice == Init => ChoiceInv
<1> SUFFICES ASSUME Init PROVE ChoiceInv
  OBVIOUS
<1>1. IInv /\ ActiveInv
  BY InitInv, InitActive
<1>2. /\ tip = Genesis /\ linked = {Genesis} /\ candidates = {Genesis} /\ Genesis \in Blocks
      /\ pc = [th \in Threads |-> "idle"]
  BY TreeFacts DEF Init
<1>3. Clean(Genesis) /\ ~Worse(Genesis, Genesis)
  BY <1>1, <1>2, ActiveClean, WorseNotSelf
<1>4. \A a \in Anc[Genesis] : verdict[a] = "ok"
  BY <1>1, <1>2 DEF IInv, ActiveChainSound
<1>5. OpenFor(Genesis)
  BY <1>2, <1>3, <1>4 DEF OpenFor
<1>6. AtTop
  BY <1>2, <1>3 DEF AtTop
<1> QED
  BY <1>2, <1>5, <1>6 DEF ChoiceInv, CandidatesOpen, TargetBest, Responsible

LEMMA ChoiceInductive ==
    Spec /\ [][ReconsidersLowest]_vars /\ [][RestartsUnmarked]_vars => []ChoiceInv
<1>1. IInv /\ IInv' /\ TreeInv /\ ActiveInv /\ ActiveInv' /\ ChoiceInv
      /\ [Next]_vars /\ [ReconsidersLowest]_vars /\ [RestartsUnmarked]_vars => ChoiceInv'
  BY NextChoice
<1> QED
  BY Inductive, TreeInductive, ActiveInductive, InitChoice, <1>1, PTL DEF Spec

\* When every call of ActivateBestChain has returned, no chain of received and
\* unmarked blocks sorts above the active one, however the threads were
\* interleaved, whatever was refused, invalidated or reconsidered from below.
THEOREM BestChainWins ==
    Spec /\ [][ReconsidersLowest]_vars /\ [][RestartsUnmarked]_vars => []BestChainAtRest
<1>1. ChoiceInv => BestChainAtRest
  BY DEF ChoiceInv, Responsible, Inside, Pending, AtTop, Clean, BestChainAtRest, Quiescent
<1> QED
  BY ChoiceInductive, <1>1, PTL

\* The assert of PruneBlockIndexCandidates holds: some candidate is left
\* whenever cs_main is free.
THEOREM SomeCandidateLeft ==
    Spec /\ [][ReconsidersLowest]_vars /\ [][RestartsUnmarked]_vars => []CandidatesNeverEmpty
<1>1. IInv /\ TreeInv /\ ChoiceInv => CandidatesNeverEmpty
  <2> SUFFICES ASSUME IInv, TreeInv, ChoiceInv, LockFree PROVE candidates # {}
    BY DEF CandidatesNeverEmpty
  <2>1. PICK r \in Blocks : OpenFor(r)
    BY OpenExists DEF LockFree
  <2>2. r \in linked /\ ~Failed(r) /\ ~Worse(r, r)
    BY <2>1, LinkedFacts, WorseNotSelf DEF OpenFor, Clean
  <2> QED
    BY <2>1, <2>2 DEF OpenFor
<1> QED
  BY Inductive, TreeInductive, ChoiceInductive, <1>1, PTL

-----------------------------------------------------------------------------
(* The links are complete, while the operator invalidates nothing.         *)

\* Marked blocks are linked, or never will be.
FailedLinked ==
    \A b \in Blocks :
        /\ Failed(b) => b \in linked \/ verdict[b] = "badcontext"
        /\ disk[b].fvalid \/ disk[b].fchild =>
              (\A a \in Anc[b] : disk[a].tx) \/ verdict[b] = "badcontext"

\* A block with data that is not linked waits, or an ancestor never comes.
WaitingComplete ==
    \A b \in Blocks :
        idx[b].tx /\ b \notin linked =>
            b \in unlinked \/ \E a \in Anc[b] : verdict[a] = "badcontext"

LinksInv == FailedLinked /\ WaitingComplete

\* The steps that bring no data and link nothing.
LEMMA LinksKept ==
    ASSUME LinksInv, UNCHANGED <<verdict, linked, unlinked, disk>>, KeepsData,
           \A x \in Blocks :
              Failed(x)' => Failed(x) \/ x \in linked \/ verdict[x] = "badcontext"
    PROVE  LinksInv'
<1>1. FailedLinked'
  BY DEF LinksInv, FailedLinked
<1>2. WaitingComplete'
  BY DEF LinksInv, WaitingComplete, KeepsData
<1> QED
  BY <1>1, <1>2 DEF LinksInv

\* LinksInv, action by action.
LEMMA AcceptBlockLinks ==
    ASSUME IInv, TreeInv, LinksInv, NEW th \in Threads, NEW b \in Blocks, AcceptBlock(th, b)
    PROVE  LinksInv'
<1>1. /\ KeepsMarks /\ ~idx[b].tx /\ \A x \in Blocks \ {b} : idx'[x].tx <=> idx[x].tx
      /\ UNCHANGED <<verdict, disk>> /\ b # Genesis
  BY AcceptEffect DEF AcceptBlock, TreeInv, world
<1>2. \A x \in Blocks : Failed(x)' <=> Failed(x)
  BY <1>1, MarksKept
<1>3. b \in NewlyLinked(b) /\ Parent[b] \in Blocks /\ Parent[b] \in Anc[b]
  BY <1>1, NewlyLinkedNew, TreeFacts
<1>4. CASE /\ linked' = linked \cup NewlyLinked(b)
           /\ unlinked' = unlinked \ NewlyLinked(b)
  <2>1. FailedLinked'
    BY <1>1, <1>2, <1>4 DEF LinksInv, FailedLinked
  <2>2. WaitingComplete'
    BY <1>1, <1>3, <1>4 DEF LinksInv, WaitingComplete
  <2> QED
    BY <2>1, <2>2 DEF LinksInv
<1>5. CASE /\ Parent[b] \notin linked
           /\ unlinked' = Waiting(b)
           /\ UNCHANGED <<seq, nBlockSequenceId, linked, candidates>>
  <2>1. FailedLinked'
    BY <1>1, <1>2, <1>5 DEF LinksInv, FailedLinked
  <2>2. unlinked \subseteq unlinked' /\ (b \in unlinked' \/ Failed(Parent[b]))
    BY <1>5 DEF Waiting
  <2>3. b \in unlinked' \/ \E a \in Anc[b] : verdict[a] = "badcontext"
    BY <1>3, <1>5, <2>2 DEF LinksInv, FailedLinked
  <2>4. WaitingComplete'
    BY <1>1, <1>5, <2>2, <2>3 DEF LinksInv, WaitingComplete
  <2> QED
    BY <2>1, <2>4 DEF LinksInv
<1> QED
  BY <1>4, <1>5 DEF AcceptBlock, ReceivedBlockTransactions

LEMMA AcceptLinks ==
    ASSUME IInv, TreeInv, LinksInv, NEW th \in Threads, NEW b \in Blocks,
           \/ AcceptBlockHeader(th, b)
           \/ AcceptBlockFails(th, b)
           \/ AcceptDuplicate(th, b)
           \/ ReconsiderBlock(th, b)
    PROVE  LinksInv'
<1>1. MarkedKnown
  BY DEF TreeInv
<1>2. CASE AcceptBlockHeader(th, b)
  BY <1>1, <1>2, HeaderEffect, MarksKept, LinksKept DEF AcceptBlockHeader, world
<1>3. CASE AcceptBlockFails(th, b)
  <2>1. /\ \A x \in Blocks \ {b} : idx'[x] = idx[x]
        /\ KeepsData /\ verdict[b] = "badcontext"
        /\ UNCHANGED <<verdict, linked, unlinked, disk>>
    BY <1>1, <1>3, AcceptFailsEffect DEF AcceptBlockFails, world
  <2>2. \A x \in Blocks : Failed(x)' => Failed(x) \/ verdict[x] = "badcontext"
    BY <2>1 DEF Failed
  <2> QED
    BY <2>1, <2>2, LinksKept
<1>4. CASE AcceptDuplicate(th, b)
  BY <1>4, SameIndex, MarksKept, LinksKept DEF AcceptDuplicate, world, tree, durable
<1>5. CASE ReconsiderBlock(th, b)
  <2>1. KeepsData /\ \A x \in Blocks : Failed(x)' => Failed(x)
    BY <1>5, ReconsiderEffect DEF KeepsMarksAt, Failed
  <2> QED
    BY <1>5, <2>1, LinksKept DEF ReconsiderBlock, world
<1> QED
  BY <1>2, <1>3, <1>4, <1>5

LEMMA StepLinks ==
    ASSUME IInv, TreeInv, LinksInv, NEW th \in Threads, Step(th)
    PROVE  LinksInv'
<1>1. CASE ActivateBestChain(th)
  <2>1. /\ KeepsData
        /\ \A x \in Blocks : Failed(x)' => Failed(x) \/ \E d \in linked : x \in Anc[d]
    BY <1>1, ActivateEffect
  <2>2. \A x \in Blocks : Failed(x)' => Failed(x) \/ x \in linked
    BY <2>1, LinkedFacts
  <2> QED
    BY <1>1, <2>1, <2>2, LinksKept DEF ActivateBestChain, world, durable
<1>2. CASE DisconnectTip(th)
  BY <1>2, SameIndex, MarksKept, LinksKept DEF DisconnectTip, world, tree, durable
<1>3. ASSUME NEW b \in Blocks, ConnectTip(th, b) PROVE LinksInv'
  BY <1>3, ConnectEffect, MarksKept, LinksKept DEF ConnectTip, world
<1>4. ASSUME NEW b \in Blocks, ConnectTipFails(th, b) PROVE LinksInv'
  <2>1. /\ \A x \in Blocks \ {b} : idx'[x] = idx[x]
        /\ KeepsData /\ pc[th] = "reorg" /\ b \in Anc[target[th]]
        /\ UNCHANGED <<verdict, linked, unlinked, disk>>
    BY <1>4, ConnectFailsEffect DEF ConnectTipFails, world
  <2>2. b \in linked
    BY <2>1, LinkedFacts DEF IInv, TargetsKnown
  <2>3. \A x \in Blocks : Failed(x)' => Failed(x) \/ x \in linked
    BY <2>1, <2>2 DEF Failed
  <2> QED
    BY <2>1, <2>3, LinksKept
<1>5. CASE LoopTest(th)
  BY <1>5, SameIndex, MarksKept, LinksKept DEF LoopTest, world, tree, durable
<1>6. CASE InvalidateTurn(th)
  <2>1. KeepsData /\ \A x \in Blocks : Failed(x)' => Failed(x) \/ x = tip
    BY <1>6, InvalidateTurnEffect DEF KeepsMarksAt, Failed
  <2> QED
    BY <1>6, <2>1, LinkedFacts, LinksKept DEF InvalidateTurn, world
<1>7. CASE InvalidateEnd(th)
  BY <1>7, SameIndex, MarksKept, LinksKept DEF InvalidateEnd, world, tree, durable
<1> QED
  BY <1>1, <1>2, <1>3, <1>4, <1>5, <1>6, <1>7 DEF Step

LEMMA InvalidateBlockLinks ==
    ASSUME IInv, TreeInv, LinksInv, NEW th \in Threads, NEW b \in Blocks,
           InvalidateBlock(th, b), b \in linked
    PROVE  LinksInv'
<1>1. KeepsData /\ \A x \in Blocks \ {b, tip} : KeepsMarksAt(x)
  BY InvalidateEffect
<1>2. \A x \in Blocks : Failed(x)' => Failed(x) \/ x \in linked
  BY <1>1, LinkedFacts DEF KeepsMarksAt, Failed
<1> QED
  BY <1>1, <1>2, LinksKept DEF InvalidateBlock, world

LEMMA PersistLinks ==
    ASSUME IInv, TreeInv, LinksInv, FlushIndex \/ FlushCoins \/ \E th \in Threads : Restart(th)
    PROVE  LinksInv'
<1>1. CASE FlushIndex
  <2>1. /\ UNCHANGED <<verdict, linked, unlinked, idx>>
        /\ \A b \in Blocks : \/ disk'[b] = idx[b]
                             \/ b \notin dirty /\ disk'[b] = disk[b]
    BY <1>1 DEF FlushIndex, world, tree
  <2>2. \A b \in Blocks : idx[b].tx => disk'[b].tx
    BY <2>1 DEF IInv, Synced
  <2>3. \A b \in Blocks : disk[b].tx => idx[b].tx
    BY DEF IInv, Synced
  <2>4. ASSUME NEW b \in Blocks, disk'[b].fvalid \/ disk'[b].fchild
        PROVE  (\A a \in Anc[b] : disk'[a].tx) \/ verdict[b] = "badcontext"
    <3>1. CASE Failed(b)
      <4>1. b \in linked => \A a \in Anc[b] : a \in Blocks /\ idx[a].tx
        BY TreeFacts DEF IInv, LinksHaveData
      <4> QED
        BY <2>2, <3>1, <4>1 DEF LinksInv, FailedLinked
    <3>2. CASE disk[b].fvalid \/ disk[b].fchild
      <4>1. \A a \in Anc[b] : a \in Blocks
        BY TreeFacts
      <4> QED
        BY <2>2, <2>3, <3>2, <4>1 DEF LinksInv, FailedLinked
    <3> QED
      BY <2>1, <2>4, <3>1, <3>2 DEF Failed
  <2>5. FailedLinked'
    BY <2>1, <2>4 DEF LinksInv, FailedLinked, Failed
  <2>6. WaitingComplete'
    BY <2>1 DEF LinksInv, WaitingComplete
  <2> QED
    BY <2>5, <2>6 DEF LinksInv
<1>2. CASE FlushCoins
  BY <1>2, SameIndex, MarksKept, LinksKept DEF FlushCoins, world, tree
<1>3. ASSUME NEW th \in Threads, Restart(th) PROVE LinksInv'
  <2>1. /\ idx' = disk /\ disk' = disk /\ verdict' = verdict /\ linked' = LoadedLinked
        /\ unlinked' = {b \in Blocks \ {Genesis} :
                           disk[b].tx /\ Parent[b] \notin LoadedLinked}
    BY <1>3 DEF Restart
  <2>2. FailedLinked'
    BY <2>1 DEF LinksInv, FailedLinked, LoadedLinked, Failed
  <2>3. \A b \in Blocks : disk[b].tx /\ b \notin LoadedLinked => b \in unlinked'
    <3> SUFFICES ASSUME NEW b \in Blocks, disk[b].tx, b \notin LoadedLinked
                 PROVE  b # Genesis /\ Parent[b] \notin LoadedLinked
      BY <2>1
    <3>1. b # Genesis
      BY LoadedFacts
    <3>2. Anc[b] = Anc[Parent[b]] \cup {b}
      BY <3>1, TreeFacts
    <3> QED
      BY <3>1, <3>2 DEF LoadedLinked
  <2>4. WaitingComplete'
    BY <2>1, <2>3 DEF WaitingComplete
  <2> QED
    BY <2>2, <2>4 DEF LinksInv
<1> QED
  BY <1>1, <1>2, <1>3

LEMMA NextLinks ==
    ASSUME IInv, TreeInv, LinksInv, [Next]_vars, [InvalidatesLinked]_vars
    PROVE  LinksInv'
<1>1. CASE UNCHANGED vars
  BY <1>1, SameIndex, MarksKept, LinksKept DEF vars
<1>2. ASSUME NEW th \in Threads, StartThread(th) PROVE LinksInv'
  BY <1>2, SameIndex, MarksKept, LinksKept DEF StartThread, world, tree, durable
<1>3. CASE Next /\ InvalidatesLinked
  <2>1. ASSUME NEW th \in Threads, NEW b \in Blocks, InvalidateBlock(th, b)
        PROVE  LinksInv'
    BY <1>3, <2>1, InvalidateBlockLinks DEF InvalidatesLinked
  <2> QED
    BY <1>2, <1>3, <2>1, AcceptBlockLinks, AcceptLinks, StepLinks, PersistLinks DEF Next
<1> QED
  BY <1>1, <1>3

LEMMA InitLinks == Init => LinksInv
<1> SUFFICES ASSUME Init PROVE LinksInv
  OBVIOUS
<1>1. /\ idx = [b \in Blocks |-> IF b = Genesis THEN GenesisStatus ELSE Unknown]
      /\ disk = idx /\ linked = {Genesis}
  BY DEF Init
<1>2. /\ \A b \in Blocks : ~idx[b].fvalid /\ ~idx[b].fchild
      /\ \A b \in Blocks \ {Genesis} : ~idx[b].tx
  BY <1>1, HeaderFacts
<1> QED
  BY <1>1, <1>2 DEF LinksInv, FailedLinked, WaitingComplete, Failed

\* A complete chain is linked: its lowest unlinked block would wait for a parent
\* that is linked.
LEMMA LinksProcessed ==
    ASSUME IInv, TreeInv, LinksInv
    PROVE  LinkedIsProcessed
<1> SUFFICES ASSUME NEW b \in Blocks, Processed(b), b \notin linked PROVE FALSE
  BY DEF LinkedIsProcessed, Processed, IInv, LinksHaveData
<1>1. Genesis \in linked
  BY DEF TreeInv, LinkedClosed
<1>2. PICK a \in Anc[b] : a \in Blocks \ {Genesis} /\ a \notin linked /\ Parent[a] \in linked
  BY <1>1, Frontier
<1>3. idx[a].tx /\ Anc[a] \subseteq Anc[b] /\ Anc[b] \subseteq Blocks
  BY <1>2, TreeAssumption, TreeFacts DEF Processed
<1>4. a \notin unlinked
  BY <1>2 DEF TreeInv, UnlinkedWaits
<1>5. PICK c \in Anc[a] : verdict[c] = "badcontext"
  BY <1>2, <1>3, <1>4 DEF LinksInv, WaitingComplete
<1>6. c \in Blocks /\ idx[c].tx
  BY <1>3, <1>5 DEF Processed
<1> QED
  BY <1>5, <1>6 DEF IInv, DataValidated

LEMMA LinksInductive == Spec /\ [][InvalidatesLinked]_vars => []LinksInv
<1>1. IInv /\ TreeInv /\ LinksInv /\ [Next]_vars /\ [InvalidatesLinked]_vars => LinksInv'
  BY NextLinks
<1> QED
  BY Inductive, TreeInductive, InitLinks, <1>1, PTL DEF Spec

\* nChainTx is set exactly for the blocks whose transactions and those of all
\* their ancestors have arrived, in whatever order they came and whatever crash
\* the index was reloaded from: no completed chain is forgotten in
\* mapBlocksUnlinked.  It needs that the operator invalidates linked blocks only,
\* for a child of an invalidated block that still waits is not recorded.
THEOREM LinkedExactly ==
    Spec /\ [][InvalidatesLinked]_vars => []LinkedIsProcessed
<1>1. IInv /\ TreeInv /\ LinksInv => LinkedIsProcessed
  BY LinksProcessed
<1> QED
  BY Inductive, TreeInductive, LinksInductive, <1>1, PTL

-----------------------------------------------------------------------------
(* CheckBlockIndex, at rest.                                               *)

\* At rest the only candidate that CheckBlockIndex asks for is the tip, and it
\* is one.
LEMMA RestExact ==
    ASSUME IInv, TreeInv, FailedMaskExplained, ChoiceInv, LinkedIsProcessed,
           Quiescent, LockFree
    PROVE  CandidatesExact
<1>1. AtTop
  BY DEF ChoiceInv, Responsible, Inside, Pending, Quiescent
<1>2. PICK r \in Blocks : OpenFor(r)
  BY OpenExists DEF LockFree
<1>3. tip \in Blocks /\ tip \in linked
  BY LinkedFacts
<1>4. r = tip
  BY <1>1, <1>2, <1>3, WorseTotal DEF AtTop, OpenFor
<1>5. tip \in candidates
  BY <1>2, <1>3, <1>4, WorseNotSelf, LinkedFacts DEF OpenFor, Clean
<1> SUFFICES ASSUME NEW b \in Blocks
             PROVE  /\ Processed(b) /\ ~Worse(b, tip) /\ CleanBranch(b) => b \in candidates
                    /\ ~Processed(b) \/ Worse(b, tip) => b \notin candidates
  BY DEF CandidatesExact
<1>6. ASSUME Processed(b), ~Worse(b, tip), CleanBranch(b) PROVE b = tip
  <2>1. b \in linked
    BY <1>6 DEF LinkedIsProcessed
  <2>2. \A a \in Anc[b] : a \in Blocks /\ Anc[a] \subseteq Anc[b]
    BY TreeAssumption, TreeFacts
  <2>3. Clean(b)
    BY <1>6, <2>2 DEF CleanBranch, FailedMaskExplained, Clean
  <2> QED
    BY <1>1, <1>3, <1>6, <2>1, <2>3, WorseTotal DEF AtTop
<1>7. ~Processed(b) => b \notin candidates
  BY LinkedFacts DEF LinkedIsProcessed
<1>8. Worse(b, tip) => b \notin candidates
  BY DEF TreeInv, CandidatesNotWorse
<1> QED
  BY <1>5, <1>6, <1>7, <1>8

\* When every call of ActivateBestChain has returned, setBlockIndexCandidates
\* is what CheckBlockIndex asserts: every complete and valid chain that is at
\* least as good as the active one is in it, and nothing worse or incomplete.
THEOREM CandidatesExactly ==
    Spec /\ [][ReconsidersLowest]_vars /\ [][RestartsUnmarked]_vars
         /\ [][InvalidatesLinked]_vars
      => []CandidatesExactAtRest
<1>1. IInv /\ TreeInv /\ FailedMaskExplained /\ ChoiceInv /\ LinkedIsProcessed
        => CandidatesExactAtRest
  BY RestExact DEF CandidatesExactAtRest
<1> QED
  BY Inductive, TreeInductive, MarksExplained, ChoiceInductive, LinkedExactly, <1>1, PTL

\* A block with data that is not linked waits, or has an invalid ancestor.
WaitingUnlessInvalid ==
    \A b \in Blocks : idx[b].tx /\ b \notin linked => b \in unlinked \/ ~CleanBranch(b)

\* The steps that bring no data, link nothing and take no mark away.
LEMMA WaitingKept ==
    ASSUME WaitingUnlessInvalid, UNCHANGED <<linked, unlinked>>, KeepsData,
           \A x \in Blocks : idx[x].fvalid => idx'[x].fvalid
    PROVE  WaitingUnlessInvalid'
BY TreeFacts DEF WaitingUnlessInvalid, KeepsData, CleanBranch

\* WaitingUnlessInvalid, action by action.
LEMMA NextWaiting ==
    ASSUME IInv, TreeInv, FailedMaskExplained, WaitingUnlessInvalid, Reconsidered = {},
           [Next]_vars
    PROVE  WaitingUnlessInvalid'
<1>1. MarkedKnown
  BY DEF TreeInv
<1>2. ASSUME NEW th \in Threads, NEW b \in Blocks,
             \/ AcceptBlockHeader(th, b)
             \/ AcceptBlockFails(th, b)
             \/ AcceptDuplicate(th, b)
             \/ InvalidateBlock(th, b)
      PROVE  WaitingUnlessInvalid'
  <2>1. UNCHANGED <<linked, unlinked>>
    BY <1>2 DEF AcceptBlockHeader, AcceptBlockFails, AcceptDuplicate, InvalidateBlock, tree
  <2>2. KeepsData /\ \A x \in Blocks : idx[x].fvalid => idx'[x].fvalid
    <3>1. CASE AcceptBlockHeader(th, b)
      BY <1>1, <3>1, HeaderEffect DEF KeepsMarks, KeepsMarksAt
    <3>2. CASE AcceptBlockFails(th, b)
      BY <1>1, <3>2, AcceptFailsEffect
    <3>3. CASE AcceptDuplicate(th, b)
      BY <3>3, SameIndex DEF AcceptDuplicate, tree
    <3>4. CASE InvalidateBlock(th, b)
      <4>1. /\ KeepsData /\ idx'[b].fvalid
            /\ \A x \in Blocks \ {b, tip} : KeepsMarksAt(x)
            /\ b # tip => (idx'[tip].fvalid <=> idx[tip].fvalid)
        BY <3>4, InvalidateEffect
      <4> QED
        BY <4>1 DEF KeepsMarksAt
    <3> QED
      BY <1>2, <3>1, <3>2, <3>3, <3>4
  <2> QED
    BY <2>1, <2>2, WaitingKept
<1>3. ASSUME NEW th \in Threads, NEW b \in Blocks, AcceptBlock(th, b)
      PROVE  WaitingUnlessInvalid'
  <2>1. /\ KeepsMarks /\ ~idx[b].tx /\ \A x \in Blocks \ {b} : idx'[x].tx <=> idx[x].tx
        /\ b # Genesis
    BY <1>1, <1>3, AcceptEffect DEF AcceptBlock
  <2>2. \A x \in Blocks : CleanBranch(x)' <=> CleanBranch(x)
    BY <2>1, TreeFacts DEF CleanBranch, KeepsMarks, KeepsMarksAt
  <2>3. b \in NewlyLinked(b) /\ Parent[b] \in Blocks /\ Anc[Parent[b]] \subseteq Anc[b]
    BY <2>1, NewlyLinkedNew, TreeFacts
  <2>4. CASE /\ linked' = linked \cup NewlyLinked(b)
             /\ unlinked' = unlinked \ NewlyLinked(b)
    BY <2>1, <2>2, <2>3, <2>4 DEF WaitingUnlessInvalid
  <2>5. CASE unlinked' = Waiting(b) /\ linked' = linked
    <3>1. unlinked \subseteq unlinked' /\ (b \in unlinked' \/ Failed(Parent[b]))
      BY <2>5 DEF Waiting
    <3>2. Failed(Parent[b]) => ~CleanBranch(b)
      BY <2>3 DEF FailedMaskExplained, CleanBranch
    <3> QED
      BY <2>1, <2>2, <2>5, <3>1, <3>2 DEF WaitingUnlessInvalid
  <2> QED
    BY <1>3, <2>4, <2>5 DEF AcceptBlock, ReceivedBlockTransactions
<1>4. ASSUME NEW th \in Threads, Step(th) PROVE WaitingUnlessInvalid'
  <2>1. UNCHANGED <<linked, unlinked>>
    BY <1>4 DEF Step, ActivateBestChain, DisconnectTip, ConnectTip, ConnectTipFails, LoopTest,
                InvalidateTurn, InvalidateEnd, tree
  <2>2. KeepsData /\ \A x \in Blocks : idx[x].fvalid => idx'[x].fvalid
    <3>1. CASE ActivateBestChain(th)
      BY <3>1, ActivateEffect
    <3>2. CASE DisconnectTip(th) \/ LoopTest(th) \/ InvalidateEnd(th)
      BY <3>2, SameIndex DEF DisconnectTip, LoopTest, InvalidateEnd, tree
    <3>3. ASSUME NEW b \in Blocks, ConnectTip(th, b)
          PROVE  KeepsData /\ \A x \in Blocks : idx[x].fvalid => idx'[x].fvalid
      BY <3>3, ConnectEffect DEF KeepsMarks, KeepsMarksAt
    <3>4. ASSUME NEW b \in Blocks, ConnectTipFails(th, b)
          PROVE  KeepsData /\ \A x \in Blocks : idx[x].fvalid => idx'[x].fvalid
      BY <3>4, ConnectFailsEffect
    <3>5. CASE InvalidateTurn(th)
      BY <3>5, InvalidateTurnEffect DEF KeepsMarksAt
    <3> QED
      BY <1>4, <3>1, <3>2, <3>3, <3>4, <3>5 DEF Step
  <2> QED
    BY <2>1, <2>2, WaitingKept
<1>5. ASSUME \/ FlushIndex
             \/ FlushCoins
             \/ \E th \in Threads : StartThread(th)
             \/ UNCHANGED vars
      PROVE  WaitingUnlessInvalid'
  <2>1. UNCHANGED <<linked, unlinked, idx>>
    BY <1>5 DEF FlushIndex, FlushCoins, StartThread, tree, vars
  <2> QED
    BY <2>1, SameIndex, WaitingKept
<1>6. ASSUME NEW th \in Threads, Restart(th) PROVE WaitingUnlessInvalid'
  <2>1. /\ idx' = disk /\ linked' = LoadedLinked
        /\ unlinked' = {b \in Blocks \ {Genesis} :
                           disk[b].tx /\ Parent[b] \notin LoadedLinked}
    BY <1>6 DEF Restart
  <2>2. ASSUME NEW b \in Blocks, disk[b].tx, b \notin LoadedLinked PROVE b \in unlinked'
    <3>1. b # Genesis
      BY <2>2, LoadedFacts
    <3>2. Anc[b] = Anc[Parent[b]] \cup {b}
      BY <3>1, TreeFacts
    <3> QED
      BY <2>1, <2>2, <3>1, <3>2 DEF LoadedLinked
  <2> QED
    BY <2>1, <2>2 DEF WaitingUnlessInvalid
<1>7. \A th \in Threads, b \in Blocks : ~ReconsiderBlock(th, b)
  BY DEF ReconsiderBlock
<1> QED
  BY <1>2, <1>3, <1>4, <1>5, <1>6, <1>7 DEF Next

\* mapBlocksUnlinked is what CheckBlockIndex asserts: it holds the blocks with
\* data whose chain is not complete, and misses none of them that has no invalid
\* ancestor.  It needs that the operator takes no mark away, for a block whose
\* parent was marked when it came is not recorded.
THEOREM UnlinkedExactly ==
    ASSUME Reconsidered = {}
    PROVE  Spec /\ [][InvalidatesLinked]_vars => []UnlinkedExact
<1>1. Init => WaitingUnlessInvalid
  <2> SUFFICES ASSUME Init PROVE WaitingUnlessInvalid
    OBVIOUS
  <2>1. linked = {Genesis} /\ \A b \in Blocks \ {Genesis} : ~idx[b].tx
    BY HeaderFacts DEF Init
  <2> QED
    BY <2>1 DEF WaitingUnlessInvalid
<1>2. [ReconsidersLowest]_vars
  BY DEF ReconsidersLowest, ReconsiderBlock
<1>3. IInv /\ TreeInv /\ FailedMaskExplained /\ WaitingUnlessInvalid /\ [Next]_vars
        => WaitingUnlessInvalid'
  BY NextWaiting
<1>4. IInv /\ TreeInv /\ LinkedIsProcessed /\ WaitingUnlessInvalid => UnlinkedExact
  <2> SUFFICES ASSUME IInv, TreeInv, LinkedIsProcessed, WaitingUnlessInvalid,
                      NEW b \in Blocks \ {Genesis}
               PROVE  /\ idx[b].tx /\ ~Processed(b) /\ CleanBranch(b) => b \in unlinked
                      /\ b \in unlinked => idx[b].tx /\ ~Processed(b)
    BY DEF UnlinkedExact
  <2>1. idx[b].tx /\ ~Processed(b) /\ CleanBranch(b) => b \in unlinked
    BY DEF LinkedIsProcessed, WaitingUnlessInvalid
  <2>2. b \in unlinked => idx[b].tx /\ ~Processed(b)
    BY DEF LinkedIsProcessed, TreeInv, UnlinkedWaits, IInv, LinksHaveData
  <2> QED
    BY <2>1, <2>2
<1> QED
  BY Inductive, TreeInductive, MarksExplained, LinkedExactly, <1>1, <1>2, <1>3, <1>4, PTL
  DEF Spec
=============================================================================
