--------------------------- MODULE MCSemanticTree ---------------------------
EXTENDS SemanticTree, TLC

CONSTANTS a, b, S, T

MCNames == {a, b}
MCTags  == {S, T}
MCSymmetry == Permutations(MCNames) \union Permutations(MCTags)
=============================================================================
