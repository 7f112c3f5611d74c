----------------------- MODULE MCSimpleLockFreeQueue -----------------------
(* A few threads on one SimpleLockFreeQueue *)
EXTENDS SimpleLockFreeQueue
=============================================================================
