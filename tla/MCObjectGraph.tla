----------------------------- MODULE MCObjectGraph -----------------------------
EXTENDS ObjectGraph, TLC

Symmetry == Permutations(Repositories) \cup Permutations(Collections)
              \cup Permutations(Trees) \cup Permutations(Entries)
===============================================================================
