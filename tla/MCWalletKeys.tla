---------------------------- MODULE MCWalletKeys ----------------------------
(* Two holders of reservations, a pool of one key (two after a top-up).    *)
EXTENDS WalletKeys, TLC

CONSTANTS miner, dialog
MCHolder == {miner, dialog}
Symmetric == Permutations(MCHolder)
=============================================================================
