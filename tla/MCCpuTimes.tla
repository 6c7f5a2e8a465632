----------------------------- MODULE MCCpuTimes -----------------------------
(* A small instance of CpuTimes for TLC. *)
EXTENDS CpuTimes, TLC

CONSTANTS p1, p2, t1, t2

\* One process with two threads; the other one never runs when it is asked for.
OneOwner == t1 :> p1 @@ t2 :> p1

\* Which of the threads is which makes no difference.
Symmetry == Permutations(Thread)
=============================================================================
