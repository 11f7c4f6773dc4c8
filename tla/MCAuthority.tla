----------------------------- MODULE MCAuthority -----------------------------
EXTENDS Authority, TLC

Symmetry == Permutations(Content) \union Permutations(Client)
==============================================================================
