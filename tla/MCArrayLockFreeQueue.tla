------------------------ MODULE MCArrayLockFreeQueue ------------------------
(***************************************************************************)
(* ArrayLockFreeQueue for TLC: threads and values are model values and     *)
(* interchangeable (the values other than the slots' initial one).         *)
(***************************************************************************)
EXTENDS ArrayLockFreeQueue, TLC

ThreadSymmetry == Permutations(Threads)
=============================================================================
