---------------------------- MODULE MCNtyServer ----------------------------
(* The echo server with a few descriptors and coroutines *)
EXTENDS NtyServer

CONSTANTS server, r1, r2, r3, listen, bad, f1, f2

MCCo == {server, r1, r2, r3}
MCFd == {listen, bad, f1, f2}
=============================================================================
