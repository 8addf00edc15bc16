----------------------------- MODULE CoinsStore -----------------------------
(***************************************************************************)
(* What the stack of coin views promises to the validation code: one map   *)
(* from transaction ids to unspent outputs, with an atomic working copy    *)
(* for the block that is being connected or disconnected, and a durable    *)
(* copy that a restart falls back to.  No caches, no flags.                *)
(***************************************************************************)
EXTENDS Naturals

CONSTANTS
    Txids,      \* transaction ids
    Outs,       \* output indexes of a transaction
    MaxBest     \* bound on the number of committed views

VARIABLES
    live, liveBest,     \* contents and best block of the chain state
    disk, diskBest,     \* contents and best block of the durable copy
    work, working,      \* the working copy of the block being processed
    label               \* best-block labels handed out so far

storeVars == <<live, liveBest, disk, diskBest, work, working, label>>

Contents == [Txids -> SUBSET Outs]

\* The database of a node that starts for the first time is empty.
StoreInit ==
    /\ live = [t \in Txids |-> {}] /\ liveBest = 0
    /\ disk = live /\ diskBest = 0
    /\ work = live /\ working = FALSE
    /\ label = 0

\* A block starts to be applied: its working copy is what is live now.
Begin ==
    /\ ~working
    /\ working' = TRUE /\ work' = live
    /\ UNCHANGED <<live, liveBest, disk, diskBest, label>>

\* One coin of the working copy changes.
Put(t, c) ==
    /\ working
    /\ work' = [work EXCEPT ![t] = c]
    /\ UNCHANGED <<live, liveBest, disk, diskBest, working, label>>

\* The block is accepted: the whole working copy becomes live at once.
Apply ==
    /\ working /\ label < MaxBest
    /\ live' = work /\ liveBest' = label + 1 /\ label' = label + 1
    /\ working' = FALSE
    /\ UNCHANGED <<disk, diskBest, work>>

\* The block is refused: the live contents are as if nothing had happened.
Cancel ==
    /\ working
    /\ working' = FALSE /\ work' = live
    /\ UNCHANGED <<live, liveBest, disk, diskBest, label>>

\* Everything live becomes durable at once, together with its best block.
Persist ==
    /\ ~working
    /\ disk' = live /\ diskBest' = liveBest
    /\ UNCHANGED <<live, liveBest, work, working, label>>

\* The process stops and is started again.
Restart ==
    /\ live' = disk /\ liveBest' = diskBest
    /\ working' = FALSE /\ work' = disk
    /\ UNCHANGED <<disk, diskBest, label>>

StoreNext ==
    \/ Begin
    \/ \E t \in Txids, c \in SUBSET Outs : Put(t, c)
    \/ Apply
    \/ Cancel
    \/ Persist
    \/ Restart

StoreSpec == StoreInit /\ [][StoreNext]_storeVars
=============================================================================
