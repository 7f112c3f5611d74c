-------------------------------- MODULE MCP2P --------------------------------
(* Two clients.  The third login the table has room for is a repeated one. *)
EXTENDS P2P

CONSTANTS c1, c2

MCselfid == [c \in Clients |-> IF c = c1 THEN 1 ELSE 2]
=============================================================================
