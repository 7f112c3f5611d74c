------------------------------ MODULE MCNtyCo ------------------------------
(* A program of a few coroutines on the NtyCo runtime *)
EXTENDS NtyCo, TLC

\* Coroutines and descriptors are interchangeable: for runs without liveness.
Interchangeable == Permutations(Co) \cup Permutations(Fd)

\* For liveness, MaxTime bounds how far the clock and the sleepers' keys are apart, not
\* how long the program runs: where the scheduler looks at the clock and no sleeper's key
\* is in the way, the origin of time moves by one.  Keys below it are alike: passed.
Rebase ==
    /\ pc = "expired" /\ now > 0 /\ \A c \in sleeping : sleep_usecs[c] > 1
    /\ now' = now - 1
    /\ sleep_usecs' = [c \in Co |-> IF sleep_usecs[c] = 0 THEN 0 ELSE sleep_usecs[c] - 1]
    /\ UNCHANGED <<queues, status, ops, polled, control, event>>

LiveSpec == Init /\ [][Next \/ Rebase]_vars /\ Fairness /\ WF_vars(Rebase)
=============================================================================
