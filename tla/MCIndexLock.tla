---------------------------- MODULE MCIndexLock ----------------------------
(* Model-checking instances of the index lock.                            *)
EXTENDS IndexLock, TLC

LockSymmetry == Permutations(Writers) \cup Permutations(Readers)
=============================================================================
