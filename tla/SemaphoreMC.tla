----------------------------- MODULE SemaphoreMC -----------------------------
(* Instances of Semaphore for TLC: waiters and workers are symmetric.      *)
EXTENDS Semaphore, TLC

Symmetric == Permutations(Threads \ Timed)
=============================================================================
