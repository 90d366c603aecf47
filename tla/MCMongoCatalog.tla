--------------------------- MODULE MCMongoCatalog ---------------------------
EXTENDS MongoCatalog, TLC
Sym == Permutations(Threads) \union Permutations(Collections)
=============================================================================
