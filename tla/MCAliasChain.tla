----------------------------- MODULE MCAliasChain -----------------------------
EXTENDS AliasChain, TLC
MCSymmetry == Permutations(Models)
=============================================================================
