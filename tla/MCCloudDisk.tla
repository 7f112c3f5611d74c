----------------------------- MODULE MCCloudDisk -----------------------------
(* Two users and three files: f1 and f2 have the same content under two names. *)
EXTENDS CloudDisk, TLC

CONSTANTS f1, f2, f3, m1, m2

MCmd5 == [f \in Files |-> IF f = f3 THEN m2 ELSE m1]

Symmetric == Permutations(Users) \cup Permutations(Fids)
=============================================================================
