--------------------------- MODULE MCNativeOwnership ---------------------------
EXTENDS NativeOwnership, TLC

Symmetry == Permutations(Tokens)
===============================================================================
