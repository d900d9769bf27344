----------------------------- MODULE MCLazyNative -----------------------------
EXTENDS LazyNative, TLC

Symmetry == Permutations(Threads)
===============================================================================
