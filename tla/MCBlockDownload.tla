-------------------------- MODULE MCBlockDownload --------------------------
(***************************************************************************)
(* Instances of BlockDownload: a chain of two blocks and a fork at the     *)
(* genesis block, with work equal to height.                               *)
(***************************************************************************)
EXTENDS BlockDownload, TLC

ChainParent == ("a1" :> "g") @@ ("a2" :> "a1")
ChainAnc == ("g" :> {"g"}) @@ ("a1" :> {"g", "a1"}) @@ ("a2" :> {"g", "a1", "a2"})
ForkBlocks == {"g", "a1", "a2", "b1"}
ForkParent == ChainParent @@ ("b1" :> "g")
ForkAnc == ChainAnc @@ ("b1" :> {"g", "b1"})
HeightOf == [b \in Blocks |-> Cardinality(Anc[b]) - 1]
=============================================================================
