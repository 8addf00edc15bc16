---------------------------- MODULE MCBlockFiles ----------------------------
(* A chain of four blocks and a fork at its first block. *)
EXTENDS BlockFiles

MCBlock == 0 .. 4 \cup {11}
MCParent == [b \in MCBlock |-> IF b \in {0, 11} THEN 0 ELSE b - 1]
MCHeight == [b \in MCBlock |-> IF b = 11 THEN 1 ELSE b]
MCAnc == [b \in MCBlock |-> IF b = 11 THEN {0, 11} ELSE 0 .. b]
=============================================================================
