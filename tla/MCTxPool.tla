------------------------------ MODULE MCTxPool ------------------------------
(***************************************************************************)
(* An instance of TxPool.  Transaction a spends the coinbase c1 and has two*)
(* outputs; b and x spend the first of them, x the second one too; e spends*)
(* the second one and an output of b, and is locked up to height 3; f      *)
(* spends x and the coinbase c2.  d1 is the coinbase of another block at   *)
(* height 1.                                                               *)
(***************************************************************************)
EXTENDS TxPool, TLC

MCTxs == {"a", "b", "e", "x", "f"}
MCCoinbases == {"c1", "d1", "c2", "c3", "c4", "c5"}
MCOutpoints == {"c1.0", "c2.0", "a.0", "a.1", "b.0", "x.0"}
MChash == ("c1.0" :> "c1") @@ ("a.0" :> "a") @@ ("a.1" :> "a") @@ ("b.0" :> "b")
    @@ ("x.0" :> "x") @@ ("c2.0" :> "c2")
MCvin ==
    ("a" :> {"c1.0"}) @@ ("b" :> {"a.0"}) @@ ("x" :> {"a.0", "a.1"})
    @@ ("e" :> {"a.1", "b.0"}) @@ ("f" :> {"c2.0", "x.0"}) @@ [c \in MCCoinbases |-> {}]
MCnLockTime == [t \in MCTxs |-> IF t = "e" THEN 3 ELSE 0]
MCCoinbaseHeight ==
    ("c1" :> 1) @@ ("d1" :> 1) @@ ("c2" :> 2) @@ ("c3" :> 3) @@ ("c4" :> 4) @@ ("c5" :> 5)
=============================================================================
