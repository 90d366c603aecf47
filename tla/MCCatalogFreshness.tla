------------------------- MODULE MCCatalogFreshness -------------------------
EXTENDS CatalogFreshness, TLC
Sym == Permutations(Threads)
=============================================================================
