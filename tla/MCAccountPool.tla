--------------------------- MODULE MCAccountPool ---------------------------
EXTENDS AccountPool, TLC

\* Calls and pairs are interchangeable.
Symmetry == Permutations(Call) \union Permutations(Pair)
=============================================================================
