-------------------------- MODULE CheckQueueProofs --------------------------
(***************************************************************************)
(* Proofs about the check queue, for every number of checks, workers and   *)
(* interruptions and every batch size.                                     *)
(***************************************************************************)
EXTENDS CheckQueue, FiniteSetTheorems, TLAPS

\* The threads that hold a batch, and those in wait.
Busy == {th \in Threads : batch[th] # {}}
Asleep == {th \in Threads : pc[th] = "waiting"}

\* A thread holds a batch while it works on it and until it has cleaned up.
Places ==
    \A th \in Threads :
        /\ pc[th] = "working" => batch[th] # {}
        /\ pc[th] \notin {"working", "enter"} => batch[th] = {}

\* A counted thread is idle or holds a batch; interrupted waits stay counted
\* on both sides.
CountsExact ==
    /\ nTotal = nIdle + Cardinality(Busy)
    /\ Cardinality(Asleep) <= nIdle

\* What the results that have come in say about the checks that are done.
ResultsSound ==
    /\ pc[Master] = "out" => nTodo = 0 /\ fAllOk
    /\ pc[Master] # "out" => ret = "none"
    /\ Outstanding \subseteq added
    /\ ~fAllOk => added \cap bad # {}
    /\ pc[Master] # "out" /\ fAllOk => added \cap bad \subseteq Outstanding
    /\ \A th \in Threads : batch[th] # {} =>
        /\ ~fOk[th] => added \cap bad # {}
        /\ pc[th] = "enter" /\ fOk[th] => batch[th] \cap bad = {}

\* The inductive invariant.
IInv ==
    /\ TypeOK
    /\ TodoExact
    /\ Places
    /\ CountsExact
    /\ ResultsSound
    /\ VerdictExact

\* What is outstanding apart from the batch of th.
Rest(th) == {c \in Checks : c \in queue \/ \E u \in Threads \ {th} : c \in batch[u]}

-----------------------------------------------------------------------------
(* Finite sets.                                                            *)

LEMMA ThreadsFinite == IsFiniteSet(Threads)
BY ThreadAssumption, FS_AddElement DEF Threads

LEMMA CheckSets ==
    ASSUME NEW S \in SUBSET Checks
    PROVE  IsFiniteSet(S) /\ Cardinality(S) \in Nat /\ (Cardinality(S) = 0 <=> S = {})
<1>1. IsFiniteSet(S)
  BY CheckAssumption, FS_Subset
<1> QED
  BY <1>1, FS_CardinalityType, FS_EmptySet

LEMMA ThreadSets ==
    ASSUME NEW S \in SUBSET Threads
    PROVE  IsFiniteSet(S) /\ Cardinality(S) \in Nat /\ (Cardinality(S) = 0 <=> S = {})
<1>1. IsFiniteSet(S)
  BY ThreadsFinite, FS_Subset
<1> QED
  BY <1>1, FS_CardinalityType, FS_EmptySet

\* A batch is never empty.
LEMMA BatchNotEmpty ==
    ASSUME IInv, NEW total \in Nat, NEW idle \in Nat, NEW B \in SUBSET queue,
           Cardinality(B) = BatchLength(total, idle)
    PROVE  B # {}
<1>1. Cardinality(queue) \in Nat
  BY CheckSets DEF IInv, TypeOK
<1>2. Cardinality(queue) \div (total + idle + 1) \in Nat
  BY <1>1
<1>3. BatchLength(total, idle) >= 1
  BY <1>2, BoundAssumption DEF BatchLength
<1> QED
  BY <1>3, FS_EmptySet

-----------------------------------------------------------------------------
(* The inner loop.                                                         *)

\* Entered with values that describe the state without the batch of th, the
\* inner loop restores the invariant.
LEMMA LoopKeeps ==
    ASSUME IInv, NEW th \in Threads, NEW todo, NEW ok \in BOOLEAN, NEW total,
           NEW idle \in Nat,
           pc[th] \in {"enter", "waiting"},
           todo = Cardinality(Rest(th)),
           total = idle + Cardinality(Busy \ {th}) + 1,
           Cardinality(Asleep \ {th}) <= idle,
           ~ok => added \cap bad # {},
           pc[Master] # "out" /\ ok => added \cap bad \subseteq Rest(th),
           pc[Master] = "out" => todo = 0 /\ ok,
           LoopTop(th, todo, ok, total, idle),
           woken' \subseteq Threads,
           UNCHANGED <<added, bad, interrupts>>
    PROVE  IInv'
<1>1. /\ Rest(th) \in SUBSET Checks /\ Busy \ {th} \in SUBSET Threads
      /\ Asleep \ {th} \in SUBSET Threads
      /\ Master \in Threads
  BY DEF Rest, Busy, Asleep, Threads
<1>2. /\ todo \in Nat /\ (todo = 0 <=> Rest(th) = {})
      /\ IsFiniteSet(Busy \ {th}) /\ Cardinality(Busy \ {th}) \in Nat
      /\ IsFiniteSet(Asleep \ {th}) /\ Cardinality(Asleep \ {th}) \in Nat
  BY <1>1, CheckSets, ThreadSets
<1>3. total \in Nat /\ nTodo' = todo
  BY <1>2 DEF LoopTop
<1>4. /\ batch \in [Threads -> SUBSET Checks] /\ fOk \in [Threads -> BOOLEAN]
      /\ pc \in [Threads -> {"enter", "waiting", "working", "stopped", "out", "adding"}]
      /\ queue \subseteq Checks
  BY DEF IInv, TypeOK
<1>5. CASE /\ queue = {} /\ batch' = [batch EXCEPT ![th] = {}] /\ UNCHANGED <<queue, fOk>>
           /\ \/ /\ th = Master /\ todo = 0 /\ nTotal' = total - 1 /\ nIdle' = idle
                 /\ ret' = IF ok THEN "pass" ELSE "fail"
                 /\ fAllOk' = ResultReset(ok)
                 /\ pc' = [pc EXCEPT ![th] = "out"]
              \/ /\ ~(th = Master /\ todo = 0) /\ nTotal' = total /\ nIdle' = idle + 1
                 /\ UNCHANGED ret
                 /\ fAllOk' = ok
                 /\ pc' = [pc EXCEPT ![th] = "waiting"]
  <2>1. /\ batch' \in [Threads -> SUBSET Checks]
        /\ batch'[th] = {} /\ \A u \in Threads \ {th} : batch'[u] = batch[u]
    BY <1>4, <1>5
  <2>2. Outstanding' = Rest(th)
    BY <1>5, <2>1 DEF Outstanding, Rest
  <2>3. TodoExact'
    BY <1>3, <1>5, <2>1, <2>2 DEF IInv, TodoExact
  <2>4. Busy' = Busy \ {th}
    BY <2>1 DEF Busy
  <2>5. CASE /\ th = Master /\ todo = 0 /\ nTotal' = total - 1 /\ nIdle' = idle
             /\ ret' = IF ok THEN "pass" ELSE "fail"
             /\ fAllOk' = ResultReset(ok)
             /\ pc' = [pc EXCEPT ![th] = "out"]
    <3>1. /\ pc'[th] = "out" /\ \A u \in Threads \ {th} : pc'[u] = pc[u]
          /\ fAllOk' = TRUE
      BY <1>4, <2>5 DEF ResultReset
    <3>2. Asleep' = Asleep \ {th}
      BY <3>1 DEF Asleep
    <3>3. CountsExact'
      BY <1>2, <2>4, <2>5, <3>2 DEF CountsExact
    <3>4. TypeOK'
      BY <1>2, <1>3, <1>4, <1>5, <2>1, <2>5, <3>1 DEF IInv, TypeOK
    <3>5. Places'
      BY <2>1, <3>1 DEF IInv, Places
    <3>6. ResultsSound'
      BY <1>2, <1>3, <1>5, <2>1, <2>2, <2>5, <3>1 DEF IInv, ResultsSound
    <3>7. VerdictExact'
      BY <1>2, <2>5 DEF IInv, ResultsSound, VerdictExact
    <3> QED
      BY <2>3, <3>3, <3>4, <3>5, <3>6, <3>7 DEF IInv
  <2>6. CASE /\ ~(th = Master /\ todo = 0) /\ nTotal' = total /\ nIdle' = idle + 1
             /\ UNCHANGED ret
             /\ fAllOk' = ok
             /\ pc' = [pc EXCEPT ![th] = "waiting"]
    <3>1. pc'[th] = "waiting" /\ \A u \in Threads \ {th} : pc'[u] = pc[u]
      BY <1>4, <2>6
    <3>2. Asleep' = (Asleep \ {th}) \cup {th}
      BY <3>1 DEF Asleep
    <3>3. Cardinality(Asleep') = Cardinality(Asleep \ {th}) + 1
      BY <1>2, <3>2, FS_AddElement
    <3>4. CountsExact'
      BY <1>2, <2>4, <2>6, <3>3 DEF CountsExact
    <3>5. TypeOK'
      BY <1>2, <1>3, <1>4, <1>5, <2>1, <2>6, <3>1 DEF IInv, TypeOK
    <3>6. Places'
      BY <2>1, <3>1 DEF IInv, Places
    <3>7. pc'[Master] = "out" <=> pc[Master] = "out"
      BY <1>1, <3>1
    <3>8. Rest(th) \subseteq Outstanding
      BY DEF Rest, Outstanding
    <3>9. ResultsSound'
      BY <1>3, <1>5, <2>1, <2>2, <2>6, <3>1, <3>7, <3>8 DEF IInv, ResultsSound
    <3>10. VerdictExact'
      BY <2>6 DEF IInv, VerdictExact
    <3> QED
      BY <2>3, <3>4, <3>5, <3>6, <3>9, <3>10 DEF IInv
  <2> QED
    BY <1>5, <2>5, <2>6
<1>6. ASSUME NEW B \in SUBSET queue,
             queue # {}, Cardinality(B) = BatchLength(total, idle),
             batch' = [batch EXCEPT ![th] = B],
             queue' = queue \ B,
             fOk' = [fOk EXCEPT ![th] = ok],
             pc' = [pc EXCEPT ![th] = "working"],
             nTotal' = total, nIdle' = idle, fAllOk' = ok, ret' = ret
      PROVE  IInv'
  <2>1. B # {}
    BY <1>3, <1>6, BatchNotEmpty
  <2>2. /\ batch' \in [Threads -> SUBSET Checks]
        /\ batch'[th] = B /\ \A u \in Threads \ {th} : batch'[u] = batch[u]
    BY <1>4, <1>6
  <2>3. Outstanding' = Rest(th)
    BY <1>4, <1>6, <2>2 DEF Outstanding, Rest
  <2>4. TodoExact'
    BY <1>3, <1>6, <2>2, <2>3 DEF IInv, TodoExact
  <2>5. Busy' = (Busy \ {th}) \cup {th}
    BY <2>1, <2>2 DEF Busy
  <2>6. Cardinality(Busy') = Cardinality(Busy \ {th}) + 1
    BY <1>2, <2>5, FS_AddElement
  <2>7. pc'[th] = "working" /\ \A u \in Threads \ {th} : pc'[u] = pc[u]
    BY <1>4, <1>6
  <2>8. Asleep' = Asleep \ {th}
    BY <2>7 DEF Asleep
  <2>9. CountsExact'
    BY <1>2, <1>6, <2>6, <2>8 DEF CountsExact
  <2>10. fOk' \in [Threads -> BOOLEAN] /\ fOk'[th] = ok
         /\ \A u \in Threads \ {th} : fOk'[u] = fOk[u]
    BY <1>4, <1>6
  <2>11. TypeOK'
    BY <1>2, <1>3, <1>4, <1>6, <2>2, <2>7, <2>10 DEF IInv, TypeOK
  <2>12. Places'
    BY <2>1, <2>2, <2>7 DEF IInv, Places
  <2>13. pc'[Master] = "out" <=> pc[Master] = "out"
    BY <1>1, <2>7
  <2>14. Rest(th) \subseteq Outstanding
    BY DEF Rest, Outstanding
  <2>15. ResultsSound'
    BY <1>3, <1>6, <2>2, <2>3, <2>7, <2>10, <2>13, <2>14 DEF IInv, ResultsSound
  <2>16. VerdictExact'
    BY <1>6 DEF IInv, VerdictExact
  <2> QED
    BY <2>4, <2>9, <2>11, <2>12, <2>15, <2>16 DEF IInv
<1> QED
  BY <1>5, <1>6 DEF LoopTop

LEMMA EnterInv ==
    ASSUME IInv, NEW th \in Threads, Enter(th)
    PROVE  IInv'
<1>1. /\ Outstanding \in SUBSET Checks /\ batch[th] \in SUBSET Checks
      /\ Busy \in SUBSET Threads /\ Asleep \in SUBSET Threads
  BY DEF Outstanding, Busy, Asleep, IInv, TypeOK
<1>2. /\ IsFiniteSet(Outstanding) /\ Cardinality(Outstanding) \in Nat
      /\ (Cardinality(Outstanding) = 0 <=> Outstanding = {})
      /\ IsFiniteSet(Busy) /\ Cardinality(Busy) \in Nat
  BY <1>1, CheckSets, ThreadSets
<1>3. nTodo = Cardinality(Outstanding) /\ nTotal = nIdle + Cardinality(Busy) /\ nIdle \in Nat
  BY DEF IInv, TodoExact, CountsExact, TypeOK
<1>4. pc[th] = "enter" /\ UNCHANGED <<added, bad, interrupts>>
  BY DEF Enter, block
<1>5. Asleep \ {th} = Asleep /\ Cardinality(Asleep) <= nIdle
  BY <1>4 DEF Asleep, IInv, CountsExact
<1>6. woken' \subseteq Threads
  BY DEF Enter, MasterTold, Waiting, IInv, TypeOK
<1>7. CASE batch[th] = {}
  <2>1. LoopTop(th, nTodo, fAllOk, nTotal + 1, nIdle)
    BY <1>7 DEF Enter
  <2>2. Rest(th) = Outstanding /\ Busy \ {th} = Busy
    BY <1>7 DEF Rest, Outstanding, Busy
  <2>3. /\ fAllOk \in BOOLEAN
        /\ ~fAllOk => added \cap bad # {}
        /\ pc[Master] # "out" /\ fAllOk => added \cap bad \subseteq Outstanding
        /\ pc[Master] = "out" => nTodo = 0 /\ fAllOk
    BY DEF IInv, TypeOK, ResultsSound
  <2>4. nTotal + 1 = nIdle + Cardinality(Busy) + 1
    BY <1>2, <1>3
  <2> QED
    BY <1>3, <1>4, <1>5, <1>6, <2>1, <2>2, <2>3, <2>4, LoopKeeps
<1>8. CASE batch[th] # {}
  <2>1. LoopTop(th, TodoAfter(th), AllOkAfter(th), nTotal, nIdle)
    BY <1>8 DEF Enter
  <2>2. Rest(th) = Outstanding \ batch[th] /\ Outstanding \cap batch[th] = batch[th]
    BY <1>1 DEF Rest, Outstanding, IInv, TypeOK, TodoExact
  <2>3. TodoAfter(th) = Cardinality(Rest(th))
    BY <1>2, <1>3, <2>2, FS_Difference DEF TodoAfter
  <2>4. th \in Busy
    BY <1>8 DEF Busy
  <2>5. nTotal = nIdle + Cardinality(Busy \ {th}) + 1
    <3>1. Cardinality(Busy \ {th}) = Cardinality(Busy) - 1
      BY <1>2, <2>4, FS_RemoveElement
    <3> QED
      BY <1>2, <1>3, <3>1
  <2>6. pc[Master] # "out"
    BY <1>2, <1>3, <1>8, <2>2 DEF IInv, ResultsSound
  <2>7. /\ AllOkAfter(th) \in BOOLEAN
        /\ ~AllOkAfter(th) => added \cap bad # {}
    BY <1>8 DEF AllOkAfter, IInv, TypeOK, ResultsSound
  <2>8. AllOkAfter(th) => added \cap bad \subseteq Rest(th)
    BY <1>4, <1>8, <2>2, <2>6 DEF AllOkAfter, IInv, ResultsSound
  <2> QED
    BY <1>3, <1>4, <1>5, <1>6, <2>1, <2>3, <2>5, <2>6, <2>7, <2>8, LoopKeeps
<1> QED
  BY <1>7, <1>8

LEMMA WakeInv ==
    ASSUME IInv, NEW th \in Threads, Wake(th)
    PROVE  IInv'
<1>1. /\ pc[th] = "waiting" /\ UNCHANGED <<added, bad, interrupts>>
      /\ LoopTop(th, nTodo, fAllOk, nTotal, IdleAfterWake)
      /\ woken' = woken \ {th}
  BY DEF Wake, block
<1>2. batch[th] = {}
  BY <1>1 DEF IInv, Places
<1>3. Rest(th) = Outstanding /\ Busy \ {th} = Busy
  BY <1>2 DEF Rest, Outstanding, Busy
<1>4. /\ Asleep \in SUBSET Threads /\ Busy \in SUBSET Threads /\ th \in Asleep
  BY <1>1 DEF Asleep, Busy
<1>5. IsFiniteSet(Asleep) /\ Cardinality(Asleep) \in Nat /\ Cardinality(Asleep) # 0
      /\ Cardinality(Busy) \in Nat
  BY <1>4, ThreadSets
<1>6. Cardinality(Asleep \ {th}) = Cardinality(Asleep) - 1
  BY <1>4, <1>5, FS_RemoveElement
<1>7. /\ nTotal = nIdle + Cardinality(Busy) /\ Cardinality(Asleep) <= nIdle /\ nIdle \in Nat
      /\ nTodo = Cardinality(Outstanding)
  BY DEF IInv, CountsExact, TypeOK, TodoExact
<1>8. /\ IdleAfterWake \in Nat /\ nTotal = IdleAfterWake + Cardinality(Busy) + 1
      /\ Cardinality(Asleep \ {th}) <= IdleAfterWake
  BY <1>5, <1>6, <1>7 DEF IdleAfterWake
<1>9. /\ fAllOk \in BOOLEAN
      /\ ~fAllOk => added \cap bad # {}
      /\ pc[Master] # "out" /\ fAllOk => added \cap bad \subseteq Outstanding
      /\ pc[Master] = "out" => nTodo = 0 /\ fAllOk
      /\ woken' \subseteq Threads
  BY <1>1 DEF IInv, TypeOK, ResultsSound
<1> QED
  BY <1>1, <1>3, <1>7, <1>8, <1>9, LoopKeeps

-----------------------------------------------------------------------------
(* The other steps.                                                        *)

LEMMA WorkInv ==
    ASSUME IInv, NEW th \in Threads, Work(th)
    PROVE  IInv'
<1>1. /\ pc[th] = "working"
      /\ fOk' = [fOk EXCEPT ![th] = fOk[th] /\ batch[th] \cap bad = {}]
      /\ pc' = [pc EXCEPT ![th] = "enter"]
      /\ UNCHANGED <<queue, nIdle, nTotal, nTodo, fAllOk, batch, woken, added, bad, ret,
                     interrupts>>
  BY DEF Work, block
<1>2. /\ fOk \in [Threads -> BOOLEAN]
      /\ pc \in [Threads -> {"enter", "waiting", "working", "stopped", "out", "adding"}]
      /\ Master \in Threads
  BY DEF IInv, TypeOK, Threads
<1>3. /\ pc'[th] = "enter" /\ \A u \in Threads \ {th} : pc'[u] = pc[u]
      /\ fOk'[th] = (fOk[th] /\ batch[th] \cap bad = {})
      /\ \A u \in Threads \ {th} : fOk'[u] = fOk[u]
  BY <1>1, <1>2
<1>4. TypeOK'
  BY <1>1, <1>2 DEF IInv, TypeOK
<1>5. Outstanding' = Outstanding /\ Busy' = Busy /\ Asleep' = Asleep
  BY <1>1, <1>3 DEF Outstanding, Busy, Asleep
<1>6. TodoExact' /\ CountsExact' /\ Places'
  BY <1>1, <1>3, <1>5 DEF IInv, TodoExact, CountsExact, Places
<1>7. batch[th] # {} /\ batch[th] \subseteq added
  BY <1>1 DEF IInv, Places, ResultsSound, Outstanding, TypeOK
<1>8. pc'[Master] = "out" <=> pc[Master] = "out"
  BY <1>1, <1>2, <1>3
<1>9. ResultsSound'
  <2>1. ~fOk'[th] => added \cap bad # {}
    BY <1>3, <1>7 DEF IInv, ResultsSound
  <2>2. fOk'[th] => batch[th] \cap bad = {}
    BY <1>3
  <2>3. \A u \in Threads : batch'[u] # {} =>
            /\ ~fOk'[u] => added' \cap bad' # {}
            /\ pc'[u] = "enter" /\ fOk'[u] => batch'[u] \cap bad' = {}
    BY <1>1, <1>3, <2>1, <2>2 DEF IInv, ResultsSound
  <2> QED
    BY <1>1, <1>5, <1>8, <2>3 DEF IInv, ResultsSound
<1>10. VerdictExact'
  BY <1>1 DEF IInv, VerdictExact
<1> QED
  BY <1>4, <1>6, <1>9, <1>10 DEF IInv

LEMMA InterruptInv ==
    ASSUME IInv, NEW th \in Threads, Interrupt(th)
    PROVE  IInv'
<1>1. /\ pc[th] = "waiting" /\ woken' = woken \ {th}
      /\ interrupts' = interrupts + 1 /\ interrupts < MaxInterrupts
      /\ \/ pc' = [pc EXCEPT ![th] = "enter"]
         \/ pc' = [pc EXCEPT ![th] = "stopped"]
      /\ UNCHANGED <<queue, nIdle, nTotal, nTodo, fAllOk, batch, fOk, added, bad, ret>>
  BY DEF Interrupt, locals, block
<1>2. /\ pc \in [Threads -> {"enter", "waiting", "working", "stopped", "out", "adding"}]
      /\ Master \in Threads
  BY DEF IInv, TypeOK, Threads
<1>3. pc'[th] \in {"enter", "stopped"} /\ \A u \in Threads \ {th} : pc'[u] = pc[u]
  BY <1>1, <1>2
<1>4. TypeOK'
  BY <1>1, <1>2, BoundAssumption DEF IInv, TypeOK
<1>5. batch[th] = {}
  BY <1>1 DEF IInv, Places
<1>6. Outstanding' = Outstanding /\ Busy' = Busy
  BY <1>1 DEF Outstanding, Busy
<1>7. TodoExact' /\ Places'
  BY <1>1, <1>3, <1>5, <1>6 DEF IInv, TodoExact, Places
<1>8. CountsExact'
  <2>1. Asleep' \in SUBSET Asleep
    BY <1>3 DEF Asleep
  <2>2. IsFiniteSet(Asleep)
    BY ThreadSets DEF Asleep
  <2>3. Cardinality(Asleep') <= Cardinality(Asleep)
    BY <2>1, <2>2, FS_Subset
  <2>4. Cardinality(Asleep') \in Nat /\ Cardinality(Asleep) \in Nat /\ nIdle \in Nat
    BY <2>1, <2>2, FS_Subset, FS_CardinalityType DEF IInv, TypeOK
  <2> QED
    BY <1>1, <1>6, <2>3, <2>4 DEF IInv, CountsExact
<1>9. pc'[Master] = "out" <=> pc[Master] = "out"
  BY <1>1, <1>2, <1>3
<1>10. ResultsSound' /\ VerdictExact'
  BY <1>1, <1>3, <1>5, <1>6, <1>9 DEF IInv, ResultsSound, VerdictExact
<1> QED
  BY <1>4, <1>7, <1>8, <1>10 DEF IInv

LEMMA StartBlockInv ==
    ASSUME IInv, StartBlock
    PROVE  IInv'
<1>1. /\ pc[Master] = "out" /\ pc' = [pc EXCEPT ![Master] = "adding"]
      /\ added' = {} /\ bad' \subseteq Checks /\ ret' = "none"
      /\ UNCHANGED <<queue, nIdle, nTotal, nTodo, fAllOk, batch, fOk, woken, interrupts>>
  BY CheckAssumption DEF StartBlock, locals
<1>2. /\ pc \in [Threads -> {"enter", "waiting", "working", "stopped", "out", "adding"}]
      /\ Master \in Threads
  BY DEF IInv, TypeOK, Threads
<1>3. pc'[Master] = "adding" /\ \A u \in Threads \ {Master} : pc'[u] = pc[u]
  BY <1>1, <1>2
<1>4. TypeOK'
  BY <1>1, <1>2 DEF IInv, TypeOK
<1>5. Outstanding' = Outstanding /\ Busy' = Busy /\ Asleep' = Asleep
  BY <1>1, <1>3 DEF Outstanding, Busy, Asleep
<1>6. Outstanding = {}
  <2>1. Outstanding \in SUBSET Checks
    BY DEF Outstanding
  <2> QED
    BY <1>1, <2>1, CheckSets DEF IInv, ResultsSound, TodoExact
<1>7. \A u \in Threads : batch[u] = {}
  BY <1>6 DEF Outstanding, IInv, TypeOK
<1>8. TodoExact' /\ CountsExact' /\ Places'
  BY <1>1, <1>3, <1>5, <1>7 DEF IInv, TodoExact, CountsExact, Places
<1>9. ResultsSound' /\ VerdictExact'
  BY <1>1, <1>3, <1>5, <1>6, <1>7 DEF IInv, ResultsSound, VerdictExact
<1> QED
  BY <1>4, <1>8, <1>9 DEF IInv

LEMMA AddInv ==
    ASSUME IInv, NEW S \in SUBSET Checks, Add(S)
    PROVE  IInv'
<1>1. /\ pc[Master] = "adding" /\ S # {} /\ S \cap added = {}
      /\ queue' = queue \cup S /\ added' = added \cup S
      /\ nTodo' = nTodo + Cardinality(S)
      /\ UNCHANGED <<nIdle, nTotal, fAllOk, batch, fOk, pc, bad, ret, interrupts>>
  BY DEF Add, locals
<1>2. woken' \subseteq Threads
  BY DEF Add, Notified, Waiting, IInv, TypeOK
<1>3. Cardinality(S) \in Nat
  BY CheckSets
<1>4. TypeOK'
  BY <1>1, <1>2, <1>3 DEF IInv, TypeOK
<1>5. Outstanding' = Outstanding \cup S /\ Busy' = Busy /\ Asleep' = Asleep
  BY <1>1 DEF Outstanding, Busy, Asleep
<1>6. Outstanding \subseteq added
  BY DEF IInv, ResultsSound
<1>7. nTodo' = Cardinality(Outstanding')
  <2>1. IsFiniteSet(Outstanding) /\ IsFiniteSet(S) /\ Cardinality(Outstanding) \in Nat
    BY CheckSets DEF Outstanding
  <2>2. Outstanding \cap S = {}
    BY <1>1, <1>6
  <2>3. Cardinality(Outstanding \cup S) =
          Cardinality(Outstanding) + Cardinality(S) - Cardinality(Outstanding \cap S)
    BY <2>1, FS_Union
  <2>4. Cardinality(Outstanding \cap S) = 0
    BY <2>2, FS_EmptySet
  <2> QED
    BY <1>1, <1>3, <1>5, <2>1, <2>3, <2>4 DEF IInv, TodoExact
<1>8. \A th \in Threads : batch[th] \cap S = {}
  BY <1>1, <1>6 DEF Outstanding, IInv, TypeOK
<1>9. TodoExact' /\ CountsExact' /\ Places'
  BY <1>1, <1>5, <1>7, <1>8 DEF IInv, TodoExact, CountsExact, Places
<1>10. ResultsSound' /\ VerdictExact'
  BY <1>1, <1>5 DEF IInv, ResultsSound, VerdictExact
<1> QED
  BY <1>4, <1>9, <1>10 DEF IInv

LEMMA BeginWaitInv ==
    ASSUME IInv, BeginWait
    PROVE  IInv'
<1>1. /\ pc[Master] = "adding" /\ pc' = [pc EXCEPT ![Master] = "enter"]
      /\ UNCHANGED <<queue, nIdle, nTotal, nTodo, fAllOk, batch, fOk, woken, added, bad,
                     ret, interrupts>>
  BY DEF BeginWait, locals, block
<1>2. /\ pc \in [Threads -> {"enter", "waiting", "working", "stopped", "out", "adding"}]
      /\ Master \in Threads
  BY DEF IInv, TypeOK, Threads
<1>3. pc'[Master] = "enter" /\ \A u \in Threads \ {Master} : pc'[u] = pc[u]
  BY <1>1, <1>2
<1>4. TypeOK'
  BY <1>1, <1>2 DEF IInv, TypeOK
<1>5. Outstanding' = Outstanding /\ Busy' = Busy /\ Asleep' = Asleep
  BY <1>1, <1>3 DEF Outstanding, Busy, Asleep
<1>6. batch[Master] = {}
  BY <1>1, <1>2 DEF IInv, Places
<1>7. TodoExact' /\ CountsExact' /\ Places'
  BY <1>1, <1>3, <1>5 DEF IInv, TodoExact, CountsExact, Places
<1>8. ResultsSound' /\ VerdictExact'
  BY <1>1, <1>3, <1>5, <1>6 DEF IInv, ResultsSound, VerdictExact
<1> QED
  BY <1>4, <1>7, <1>8 DEF IInv

LEMMA InitInv == Init => IInv
<1> SUFFICES ASSUME Init PROVE IInv
  OBVIOUS
<1>1. Outstanding = {} /\ Busy = {} /\ Asleep = {}
  BY ThreadAssumption DEF Init, Outstanding, Busy, Asleep
<1>2. Master \in Threads /\ Cardinality({}) = 0
  BY FS_EmptySet DEF Threads
<1>3. TypeOK
  BY BoundAssumption DEF Init, TypeOK
<1>4. TodoExact /\ Places /\ CountsExact
  BY <1>1, <1>2 DEF Init, TodoExact, Places, CountsExact
<1>5. ResultsSound /\ VerdictExact
  BY <1>1, <1>2 DEF Init, ResultsSound, VerdictExact
<1> QED
  BY <1>3, <1>4, <1>5 DEF IInv

LEMMA StutterInv ==
    ASSUME IInv, UNCHANGED vars
    PROVE  IInv'
<1>1. UNCHANGED <<queue, nIdle, nTotal, nTodo, fAllOk, batch, fOk, pc, woken, added, bad,
                  ret, interrupts>>
  BY DEF vars
<1>2. Outstanding' = Outstanding /\ Busy' = Busy /\ Asleep' = Asleep
  BY <1>1 DEF Outstanding, Busy, Asleep
<1> QED
  BY <1>1, <1>2 DEF IInv, TypeOK, TodoExact, Places, CountsExact, ResultsSound, VerdictExact

\* The invariant is inductive.
THEOREM Inductive == Spec => []IInv
<1>1. IInv /\ [Next]_vars => IInv'
  <2> SUFFICES ASSUME IInv, Next PROVE IInv'
    BY StutterInv
  <2> QED
    BY StartBlockInv, AddInv, BeginWaitInv, EnterInv, WakeInv, WorkInv, InterruptInv
    DEF Next
<1> QED
  BY InitInv, <1>1, PTL DEF Spec

\* Every variable keeps its type; in particular nIdle, decremented after every
\* wait, never leaves 0..nTotal.
THEOREM TypeCorrect == Spec => []TypeOK
<1>1. IInv => TypeOK
  BY DEF IInv
<1> QED
  BY Inductive, <1>1, PTL

\* nTodo is the number of checks that are queued or in some batch.
THEOREM TodoAlwaysExact == Spec => []TodoExact
<1>1. IInv => TodoExact
  BY DEF IInv
<1> QED
  BY Inductive, <1>1, PTL

\* Wait answers for exactly the checks of its own block, with any number of
\* workers, any interleaving of their batches, and interruptions.
THEOREM VerdictAlwaysExact == Spec => []VerdictExact
<1>1. IInv => VerdictExact
  BY DEF IInv
<1> QED
  BY Inductive, <1>1, PTL

\* The assertion of CCheckQueueControl never fails.
THEOREM ControlAssertHolds == Spec => []IdleBetweenBlocks
<1>1. IInv => IdleBetweenBlocks
  <2> SUFFICES ASSUME IInv, pc[Master] = "out"
               PROVE  nTotal = nIdle /\ nTodo = 0 /\ fAllOk
    BY DEF IdleBetweenBlocks
  <2>1. nTodo = 0 /\ fAllOk
    BY DEF IInv, ResultsSound
  <2>2. Outstanding \in SUBSET Checks
    BY DEF Outstanding
  <2>3. Outstanding = {}
    BY <2>1, <2>2, CheckSets DEF IInv, TodoExact
  <2>4. Busy = {}
    BY <2>3 DEF Outstanding, Busy, IInv, TypeOK
  <2>5. Cardinality(Busy) = 0
    BY <2>4, FS_EmptySet
  <2> QED
    BY <2>1, <2>5 DEF IInv, CountsExact, TypeOK
<1> QED
  BY Inductive, <1>1, PTL
=============================================================================
