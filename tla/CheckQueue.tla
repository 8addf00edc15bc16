----------------------------- MODULE CheckQueue -----------------------------
(***************************************************************************)
(* The queue on which ConnectBlock has the scripts of a block checked      *)
(* (checkqueue.h).  Worker threads and the thread that connects the block, *)
(* which joins them in Wait, take batches from the queue under one mutex,  *)
(* check them without it, and report back at their next turn.  Threads     *)
(* block on two condition variables; a wait may end without a notification *)
(* and, when the process shuts down, with an interruption.                 *)
(*                                                                         *)
(* A check is a name; the set bad holds the ones that will fail.  The      *)
(* source says of its stack that the order does not matter: the queue is a *)
(* set and a batch is any part of it of the right size.  What one thread   *)
(* does under the mutex is one step.                                       *)
(***************************************************************************)
EXTENDS Integers, FiniteSets

CONSTANTS
    Checks,         \* the checks of one block
    BadSets,        \* which of them may be the ones that fail
    Workers,        \* the threads that run ThreadScriptCheck
    Master,         \* the thread that holds cs_main and connects the block
    nBatchSize,     \* the largest batch
    MaxInterrupts   \* bound on interrupted waits

ASSUME ThreadAssumption == Master \notin Workers /\ IsFiniteSet(Workers)
ASSUME CheckAssumption == IsFiniteSet(Checks) /\ BadSets \subseteq SUBSET Checks
ASSUME BoundAssumption == nBatchSize \in Nat \ {0} /\ MaxInterrupts \in Nat

Threads == Workers \cup {Master}

VARIABLES
    \* CCheckQueue, under its mutex
    queue, nIdle, nTotal, nTodo, fAllOk,
    \* the locals of Loop and the place of each thread
    batch,          \* vChecks, until the next turn has cleaned up after it
    fOk,
    pc,             \* "enter": about to lock; "waiting": in wait; "working": has a
                    \* batch; "stopped": gone; the master also "out" and "adding"
    woken,          \* the waiting threads that have been notified
    \* the block that is being connected
    added,          \* the checks given to the queue for it
    bad,            \* the checks that fail
    ret,            \* what Wait returned
    interrupts

locals == <<batch, fOk>>
block == <<added, bad>>
vars == <<queue, nIdle, nTotal, nTodo, fAllOk, batch, fOk, pc, woken, added, bad, ret,
          interrupts>>

Init ==
    /\ queue = {} /\ nIdle = 0 /\ nTotal = 0 /\ nTodo = 0 /\ fAllOk = TRUE
    /\ batch = [th \in Threads |-> {}]
    /\ fOk = [th \in Threads |-> TRUE]
    /\ pc = [th \in Threads |-> IF th = Master THEN "out" ELSE "enter"]
    /\ woken = {}
    /\ added = {} /\ bad = {} /\ ret = "none"
    /\ interrupts = 0

Waiting == {th \in Threads \ woken : pc[th] = "waiting"}

-----------------------------------------------------------------------------
(* The thread that connects a block.                                       *)

\* CCheckQueueControl's constructor, which asserts that the queue is idle.
StartBlock ==
    /\ pc[Master] = "out"
    /\ pc' = [pc EXCEPT ![Master] = "adding"]
    /\ added' = {} /\ bad' \in BadSets
    /\ ret' = "none"
    /\ UNCHANGED <<queue, nIdle, nTotal, nTodo, fAllOk, locals, woken, interrupts>>

\* The workers that Add may notify when it has added n checks.
NobodyNotified(n) == {{}}
Notified(n) ==
    LET sleepers == Waiting \ {Master}
    IN  IF n = 1 /\ sleepers # {} THEN {{w} : w \in sleepers} ELSE {sleepers}

\* Add, for the inputs of one transaction.
Add(S) ==
    /\ pc[Master] = "adding"
    /\ S # {} /\ S \subseteq Checks \ added
    /\ queue' = queue \cup S
    /\ added' = added \cup S
    /\ nTodo' = nTodo + Cardinality(S)
    /\ \E N \in Notified(Cardinality(S)) : woken' = woken \cup N
    /\ UNCHANGED <<nIdle, nTotal, fAllOk, locals, pc, bad, ret, interrupts>>

\* Wait, called by ConnectBlock at its end or, when it has returned early, by
\* the destructor of CCheckQueueControl.
BeginWait ==
    /\ pc[Master] = "adding"
    /\ pc' = [pc EXCEPT ![Master] = "enter"]
    /\ UNCHANGED <<queue, nIdle, nTotal, nTodo, fAllOk, locals, woken, block, ret,
                   interrupts>>

-----------------------------------------------------------------------------
(* Loop.                                                                   *)

\* nNow, the size of the next batch.
BatchLength(total, idle) ==
    LET share == Cardinality(queue) \div (total + idle + 1)
    IN  IF share = 0 THEN 1 ELSE IF share > nBatchSize THEN nBatchSize ELSE share

\* fAllOk after the master has taken the result.
ResultKept(ok) == ok
ResultReset(ok) == TRUE

\* The inner loop, entered with these values: return, wait or take a batch.
LoopTop(th, todo, ok, total, idle) ==
    /\ nTodo' = todo
    /\ \/ /\ queue = {} /\ th = Master /\ todo = 0
          /\ nTotal' = total - 1
          /\ ret' = IF ok THEN "pass" ELSE "fail"
          /\ fAllOk' = ResultReset(ok)
          /\ pc' = [pc EXCEPT ![th] = "out"]
          /\ batch' = [batch EXCEPT ![th] = {}]
          /\ nIdle' = idle
          /\ UNCHANGED <<queue, fOk>>
       \/ /\ queue = {} /\ ~(th = Master /\ todo = 0)
          /\ nIdle' = idle + 1
          /\ pc' = [pc EXCEPT ![th] = "waiting"]
          /\ batch' = [batch EXCEPT ![th] = {}]
          /\ nTotal' = total /\ fAllOk' = ok
          /\ UNCHANGED <<queue, fOk, ret>>
       \/ \E B \in SUBSET queue :
          /\ queue # {} /\ Cardinality(B) = BatchLength(total, idle)
          /\ batch' = [batch EXCEPT ![th] = B]
          /\ queue' = queue \ B
          /\ fOk' = [fOk EXCEPT ![th] = ok]
          /\ pc' = [pc EXCEPT ![th] = "working"]
          /\ nTotal' = total /\ nIdle' = idle /\ fAllOk' = ok
          /\ UNCHANGED ret

\* The clean-up after a batch: fAllOk and nTodo.
FailureForgotten(th) == fAllOk
AllOkAfter(th) == fAllOk /\ fOk[th]
OneDone(th) == nTodo - 1
TodoAfter(th) == nTodo - Cardinality(batch[th])

\* Who is told that the last check is done.
MasterNotTold(todo) == {}
MasterTold(todo) == IF todo = 0 THEN Waiting \cap {Master} ELSE {}

\* A turn of the outer loop that starts with the lock: the first one counts the
\* thread, a later one cleans up after the batch.
Enter(th) ==
    /\ pc[th] = "enter"
    /\ \/ /\ batch[th] = {}
          /\ LoopTop(th, nTodo, fAllOk, nTotal + 1, nIdle)
          /\ UNCHANGED woken
       \/ /\ batch[th] # {}
          /\ LoopTop(th, TodoAfter(th), AllOkAfter(th), nTotal, nIdle)
          /\ woken' = IF th = Master THEN woken ELSE woken \cup MasterTold(TodoAfter(th))
    /\ UNCHANGED <<block, interrupts>>

IdleAfterWake == nIdle - 1

\* wait returns, notified or not.
Wake(th) ==
    /\ pc[th] = "waiting"
    /\ LoopTop(th, nTodo, fAllOk, nTotal, IdleAfterWake)
    /\ woken' = woken \ {th}
    /\ UNCHANGED <<block, interrupts>>

\* The checks of the batch, up to the first that fails.
Work(th) ==
    /\ pc[th] = "working"
    /\ fOk' = [fOk EXCEPT ![th] = @ /\ batch[th] \cap bad = {}]
    /\ pc' = [pc EXCEPT ![th] = "enter"]
    /\ UNCHANGED <<queue, nIdle, nTotal, nTodo, fAllOk, batch, woken, block, ret,
                   interrupts>>

\* The process shuts down: the wait throws, past the decrements.  A worker ends;
\* in the master, the destructor of CCheckQueueControl enters Loop anew.
Interrupt(th) ==
    /\ pc[th] = "waiting"
    /\ interrupts < MaxInterrupts /\ interrupts' = interrupts + 1
    /\ pc' = [pc EXCEPT ![th] = IF th = Master THEN "enter" ELSE "stopped"]
    /\ woken' = woken \ {th}
    /\ UNCHANGED <<queue, nIdle, nTotal, nTodo, fAllOk, locals, block, ret>>

-----------------------------------------------------------------------------
Next ==
    \/ StartBlock
    \/ \E S \in SUBSET Checks : Add(S)
    \/ BeginWait
    \/ \E th \in Threads : Enter(th) \/ Wake(th) \/ Work(th) \/ Interrupt(th)

Spec == Init /\ [][Next]_vars

\* Threads run and get the mutex, a notified wait ends.  Nothing makes a wait
\* end without a notification, or the master add or wait.
FairSpec ==
    /\ Spec
    /\ \A th \in Threads :
        WF_vars(Enter(th)) /\ WF_vars(Work(th)) /\ WF_vars(th \in woken /\ Wake(th))

-----------------------------------------------------------------------------
(* Properties.                                                             *)

\* The checks that are not done.
Outstanding == {c \in Checks : c \in queue \/ \E th \in Threads : c \in batch[th]}

\* The types of the variables; no more threads are idle than are counted.
TypeOK ==
    /\ queue \subseteq Checks /\ added \subseteq Checks /\ bad \subseteq Checks
    /\ nTotal \in Nat /\ nIdle \in 0..nTotal /\ nTodo \in Nat /\ fAllOk \in BOOLEAN
    /\ batch \in [Threads -> SUBSET Checks] /\ fOk \in [Threads -> BOOLEAN]
    /\ pc \in [Threads -> {"enter", "waiting", "working", "stopped", "out", "adding"}]
    /\ woken \subseteq Threads
    /\ ret \in {"none", "pass", "fail"}
    /\ interrupts \in 0..MaxInterrupts

\* The assert in CCheckQueueControl's constructor: between two blocks every
\* counted thread is idle, nothing is left to do and no failure is remembered.
IdleBetweenBlocks == pc[Master] = "out" => nTotal = nIdle /\ nTodo = 0 /\ fAllOk

\* Wait returns true exactly when every check added for this block passes:
\* ConnectBlock accepts no block with a bad script and refuses no good one.
VerdictExact == ret # "none" => (ret = "pass" <=> added \cap bad = {})

\* nTodo counts the checks that are queued or in some thread's batch, each in
\* one place.
TodoExact ==
    /\ nTodo = Cardinality(Outstanding)
    /\ \A th \in Threads : batch[th] \cap queue = {}
    /\ \A th, u \in Threads : th # u => batch[th] \cap batch[u] = {}

\* The master gets out of Wait.
WaitReturns ==
    pc[Master] \in {"enter", "waiting", "working"} ~> pc[Master] = "out"

\* The workers empty the queue even if the master never comes to help, unless
\* the process is shutting down.
QueueDrained == queue # {} ~> queue = {} \/ interrupts > 0
=============================================================================
