---------------------------- MODULE MCCoinsCache ----------------------------
EXTENDS CoinsCache, TLC

\* Transaction ids and output indexes are interchangeable.
Symmetry == Permutations(Txids) \cup Permutations(Outs)
=============================================================================
