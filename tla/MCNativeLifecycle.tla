--------------------------- MODULE MCNativeLifecycle ---------------------------
(* Two threads and two wrappers for the safety of NativeLifecycle.          *)
EXTENDS NativeLifecycle, TLC

Symmetry == Permutations(Threads) \cup Permutations(Wrappers)
===============================================================================
