---------------------------- MODULE MCBlockIndex ----------------------------
(***************************************************************************)
(* Instances of BlockIndex: a few small trees, with work equal to height.  *)
(***************************************************************************)
EXTENDS BlockIndex, TLC

\* Two branches of two blocks.
ForkBlocks == {"g", "a1", "a2", "b1", "b2"}
ForkParent == ("a1" :> "g") @@ ("a2" :> "a1") @@ ("b1" :> "g") @@ ("b2" :> "b1")

\* A branch of one block and one of two.
SmallBlocks == ForkBlocks \ {"a2"}
SmallParent == [b \in SmallBlocks \ {"g"} |-> ForkParent[b]]

\* The chain of a block down to the genesis block.
RECURSIVE Ancestors(_, _)
Ancestors(parent, b) ==
    IF b \in DOMAIN parent THEN {b} \cup Ancestors(parent, parent[b]) ELSE {b}

ForkAnc == [b \in ForkBlocks |-> Ancestors(ForkParent, b)]
ForkWork == [b \in ForkBlocks |-> Cardinality(ForkAnc[b])]

SmallAnc == [b \in SmallBlocks |-> ForkAnc[b]]
SmallWork == [b \in SmallBlocks |-> ForkWork[b]]

AllGood == {[b \in Blocks |-> "ok"]}
SecondBad == {[b \in Blocks |-> IF b = "b2" THEN "badconnect" ELSE "ok"]}

\* The better branch is good, or cannot be connected from its first or second block.
BranchBad ==
    AllGood \cup SecondBad \cup {[b \in Blocks |-> IF b = "b1" THEN "badconnect" ELSE "ok"]}

\* Any one block may be bad, in either way.
OneBad ==
    AllGood \cup
    {[b \in Blocks |-> IF b = x THEN v ELSE "ok"] :
        x \in Blocks \ {Genesis}, v \in {"badcontext", "badconnect"}}

\* One layout of the objects in memory, and its reverse.
ForkAddr == "g" :> 1 @@ "a1" :> 2 @@ "b1" :> 3 @@ "a2" :> 4 @@ "b2" :> 5
SmallAddrs ==
    {[b \in SmallBlocks |-> ForkAddr[b]], [b \in SmallBlocks |-> 6 - ForkAddr[b]]}
OneAddr == {ForkAddr}
=============================================================================
