--------------------------------- MODULE P2P ---------------------------------
(***************************************************************************)
(* p2p_server.c and p2p_client.c: a server that introduces clients to each *)
(* other over UDP, and clients that then talk directly.  A client has a    *)
(* receiving and a sending thread, which share status_machine, p2p_clients *)
(* and p2p_count without a lock.                                           *)
(*                                                                         *)
(* The network is the set of datagrams ever sent, and any of them may      *)
(* arrive at its destination at any time: late, in any order, many times   *)
(* or never.  Nothing in the code sends a datagram again.  Datagrams that  *)
(* their receiver ignores, or answers with one that is ignored, are left   *)
(* out: messages, and the acknowledgement of a connect request.  The       *)
(* client never sends a heartbeat.                                         *)
(*                                                                         *)
(* The server has one thread, and an address is one value there.  A client *)
(* copies the address of a peer byte by byte, in both threads, and byte b  *)
(* of an entry is either zero or byte b of some client's address.  The id  *)
(* and the time stamp of an entry are never read and are left out.         *)
(***************************************************************************)
EXTENDS Integers, Sequences, FiniteSets

CONSTANTS Clients,          \* running clients; a client is its UDP address
          Ids, client_selfid,   \* client_selfid[c]: the id c was started with
          Server,           \* the server's address
          Zero,             \* 0.0.0.0:0, what an entry never written holds
          KING_CLIENT_MAX,  \* rows of the server's table
          KING_CLIENT_ADDR_LENGTH,  \* bytes of an address
          MaxPeers,         \* bound: entries of p2p_clients in use
          MaxNotifies       \* bound: different notifications sent

ASSUME P2PAssumption == /\ client_selfid \in [Clients -> Ids] /\ Ids \subseteq Nat
                        /\ Server \notin Clients /\ Zero \notin Clients /\ Server # Zero
                        /\ KING_CLIENT_MAX \in Nat \ {0} /\ MaxPeers \in Nat \ {0}
                        /\ KING_CLIENT_ADDR_LENGTH \in Nat \ {0} /\ MaxNotifies \in Nat

VARIABLES table, client_count,      \* the server's
          net,
          status_machine,           \* each client's, with p2p_count = Len(p2p_clients[c])
          p2p_clients,
          receiver, sender          \* where each client's two threads are

serverVars == <<table, client_count>>
vars == <<serverVars, net, status_machine, p2p_clients, receiver, sender>>

ZeroRow == [client_id |-> 0, addr |-> Zero]

\* The bytes of an address in p2p_clients, and the address all of whose bytes are d's.
Byte     == 1..KING_CLIENT_ADDR_LENGTH
Whole(d) == [b \in Byte |-> d]

\* A datagram; `about` is the client id or the address in its body.
Msg(type, src, dst, about) == [type |-> type, src |-> src, dst |-> dst, about |-> about]

\* sendto; a datagram to 0.0.0.0:0 reaches nobody.
Send(m) == net' = IF m.dst = Zero THEN net ELSE net \cup {m}

Waiting == [at |-> "recvfrom", src |-> Zero, byte |-> 0]
Typing  == [at |-> "scanf", now_count |-> 0, byte |-> 0, c_addr |-> Whole(Zero)]

Init == /\ table = [k \in 0..KING_CLIENT_MAX - 1 |-> ZeroRow]
        /\ client_count = 0
        /\ net = {}
        /\ status_machine = [c \in Clients |-> "LOGIN"]
        /\ p2p_clients = [c \in Clients |-> <<>>]
        /\ receiver = [c \in Clients |-> Waiting]
        /\ sender = [c \in Clients |-> Typing]
-----------------------------------------------------------------------------
(* The server: king_buffer_parser, and the answer main sends to a login. *)

\* Rows are filled from 1 on.  The login beyond the last row is outside the bounds
\* of this model (the code writes past the end of the table), and so is a cmpxchg on
\* client_count that fails, which takes a second thread or, as it compares eight
\* bytes, something else than zero behind that int: no row and no answer then.
ServerLogin(m) ==
    /\ m.type = "LOGIN_REQ" /\ m.dst = Server
    /\ client_count + 1 < KING_CLIENT_MAX
    /\ client_count' = client_count + 1
    /\ table' = [table EXCEPT ![client_count + 1] = [client_id |-> m.about, addr |-> m.src]]
    /\ Send(Msg("LOGIN_ACK", Server, m.src, 0))
    /\ UNCHANGED <<status_machine, p2p_clients, receiver, sender>>

\* The first row with that id, looking at rows 0..client_count-1, which leaves out
\* the newest.  Without one the function ends without a return statement, and its
\* result can be any row.  (A result outside the table makes the server crash, or read
\* an address that no client has: to the clients, a row that was never written.)
get_index_by_clientid(id) ==
    LET found == {k \in 0..client_count - 1 : table[k].client_id = id}
    IN  IF found = {} THEN 0..KING_CLIENT_MAX - 1
        ELSE {k \in found : \A j \in found : k <= j}

\* mutant: the body of the notification starts with the client id
ServerConnect_IdFirst(m) ==
    /\ m.type = "CONNECT_REQ" /\ m.dst = Server
    /\ Cardinality({n \in net : n.type = "NOTIFY_REQ"}) < MaxNotifies
    /\ \E i \in get_index_by_clientid(client_selfid[m.src]), j \in get_index_by_clientid(m.about) :
          Send(Msg("NOTIFY_REQ", Server, table[j].addr, table[i].client_id))
    /\ UNCHANGED <<serverVars, status_machine, p2p_clients, receiver, sender>>

\* king_send_notify: the other client is told the address of the one that asks.
ServerConnect(m) ==
    /\ m.type = "CONNECT_REQ" /\ m.dst = Server
    /\ Cardinality({n \in net : n.type = "NOTIFY_REQ"}) < MaxNotifies
    /\ \E i \in get_index_by_clientid(client_selfid[m.src]), j \in get_index_by_clientid(m.about) :
          Send(Msg("NOTIFY_REQ", Server, table[j].addr, table[i].addr))
    /\ UNCHANGED <<serverVars, status_machine, p2p_clients, receiver, sender>>
-----------------------------------------------------------------------------
(* The receiving thread: king_client_buffer_parser *)

Arrives(c, m, type) == /\ receiver[c].at = "recvfrom"
                       /\ m.dst = c /\ m.type = type

RecvLoginAck(c, m) == /\ Arrives(c, m, "LOGIN_ACK")
                      /\ status_machine' = [status_machine EXCEPT ![c] = "MESSAGE"]
                      /\ UNCHANGED <<serverVars, net, p2p_clients, receiver, sender>>

RecvNotify(c, m) == /\ Arrives(c, m, "NOTIFY_REQ")
                    /\ Send(Msg("P2P_CONNECT_REQ", c, m.about, client_selfid[c]))
                    /\ UNCHANGED <<serverVars, status_machine, p2p_clients, receiver, sender>>

Storing(c) == receiver[c].at \in {"store", "store, ack"}

RecvConnect_ModeFirst(c, m) ==                 \* mutant: p2p mode before the entry is there
    /\ \E type \in {"P2P_CONNECT_REQ", "P2P_CONNECT_ACK"} : Arrives(c, m, type)
    /\ Len(p2p_clients[c]) < MaxPeers
    /\ p2p_clients' = [p2p_clients EXCEPT ![c] = Append(@, Whole(Zero))]
    /\ receiver' = [receiver EXCEPT ![c] =
            [at |-> IF m.type = "P2P_CONNECT_REQ" THEN "store, ack" ELSE "store",
             src |-> m.src, byte |-> 1]]
    /\ status_machine' = [status_machine EXCEPT ![c] = "P2P_MESSAGE"]
    /\ UNCHANGED <<serverVars, net, sender>>

\* A connect or its acknowledgement: p2p_count++, then the entry, then the
\* acknowledgement of a connect, then the mode.  The code does not compare p2p_count
\* with KING_CLIENT_MAX: what it writes past the array is outside this model.
RecvConnect(c, m) ==
    /\ \E type \in {"P2P_CONNECT_REQ", "P2P_CONNECT_ACK"} : Arrives(c, m, type)
    /\ Len(p2p_clients[c]) < MaxPeers
    /\ p2p_clients' = [p2p_clients EXCEPT ![c] = Append(@, Whole(Zero))]
    /\ receiver' = [receiver EXCEPT ![c] =
            [at |-> IF m.type = "P2P_CONNECT_REQ" THEN "store, ack" ELSE "store",
             src |-> m.src, byte |-> 1]]
    /\ UNCHANGED <<serverVars, net, status_machine, sender>>

\* addr_to_array: the next byte of the address, into the entry.
StoreByte(c) ==
    /\ Storing(c)
    /\ p2p_clients' = [p2p_clients EXCEPT ![c][Len(p2p_clients[c])][receiver[c].byte] = receiver[c].src]
    /\ IF receiver[c].byte < KING_CLIENT_ADDR_LENGTH
       THEN receiver' = [receiver EXCEPT ![c].byte = @ + 1]
       ELSE receiver' = [receiver EXCEPT ![c].at = IF @ = "store" THEN "mode" ELSE "ack"]
    /\ UNCHANGED <<serverVars, net, status_machine, sender>>

SendAck_Silent(c) ==                           \* mutant: the connect is not acknowledged
    /\ receiver[c].at = "ack"
    /\ receiver' = [receiver EXCEPT ![c].at = "mode"]
    /\ UNCHANGED <<serverVars, net, status_machine, p2p_clients, sender>>

SendAck(c) ==
    /\ receiver[c].at = "ack"
    /\ Send(Msg("P2P_CONNECT_ACK", c, receiver[c].src, client_selfid[c]))
    /\ receiver' = [receiver EXCEPT ![c].at = "mode"]
    /\ UNCHANGED <<serverVars, status_machine, p2p_clients, sender>>

EnterP2P(c) ==
    /\ receiver[c].at = "mode"
    /\ status_machine' = [status_machine EXCEPT ![c] = "P2P_MESSAGE"]
    /\ receiver' = [receiver EXCEPT ![c] = Waiting]
    /\ UNCHANGED <<serverVars, net, p2p_clients, sender>>
-----------------------------------------------------------------------------
(* main, and the sending thread: king_send_callback *)

king_send_login(c) ==
    /\ Send(Msg("LOGIN_REQ", c, Server, client_selfid[c]))
    /\ UNCHANGED <<serverVars, status_machine, p2p_clients, receiver, sender>>

king_send_connect_AnyMode(c) ==                \* mutant: does not wait for the login
    /\ sender[c].at = "scanf"
    /\ \E id \in Ids : Send(Msg("CONNECT_REQ", c, Server, id))
    /\ UNCHANGED <<serverVars, status_machine, p2p_clients, receiver, sender>>

\* C and an id was typed in message mode.
king_send_connect(c) ==
    /\ sender[c].at = "scanf" /\ status_machine[c] = "MESSAGE"
    /\ \E id \in Ids : Send(Msg("CONNECT_REQ", c, Server, id))
    /\ UNCHANGED <<serverVars, status_machine, p2p_clients, receiver, sender>>

\* In p2p mode: p2p_count is read, then the address of the last entry it counts, a
\* byte at a time (array_to_addr), and then the message goes there.
ReadCount(c) ==
    /\ sender[c].at = "scanf" /\ status_machine[c] = "P2P_MESSAGE"
    /\ sender' = [sender EXCEPT ![c] = [at |-> "read", now_count |-> Len(p2p_clients[c]),
                                       byte |-> 1, c_addr |-> Whole(Zero)]]
    /\ UNCHANGED <<serverVars, net, status_machine, p2p_clients, receiver>>

ReadByte(c) ==
    /\ sender[c].at = "read"
    /\ LET b == sender[c].byte
           n == sender[c].now_count
       IN  sender' = [sender EXCEPT ![c] =
              [at |-> IF b < KING_CLIENT_ADDR_LENGTH THEN "read" ELSE "send",
               now_count |-> n, byte |-> b + 1,
               c_addr |-> [sender[c].c_addr EXCEPT ![b] = p2p_clients[c][n][b]]]]
    /\ UNCHANGED <<serverVars, net, status_machine, p2p_clients, receiver>>

SendToPeer(c) ==
    /\ sender[c].at = "send"
    /\ sender' = [sender EXCEPT ![c] = Typing]
    /\ UNCHANGED <<serverVars, net, status_machine, p2p_clients, receiver>>
-----------------------------------------------------------------------------
Next == \/ \E m \in net : ServerLogin(m) \/ ServerConnect(m)
        \/ \E c \in Clients :
              \/ \E m \in net : RecvLoginAck(c, m) \/ RecvNotify(c, m) \/ RecvConnect(c, m)
              \/ StoreByte(c) \/ SendAck(c) \/ EnterP2P(c)
              \/ king_send_login(c) \/ king_send_connect(c)
              \/ ReadCount(c) \/ ReadByte(c) \/ SendToPeer(c)

Spec == Init /\ [][Next]_vars
-----------------------------------------------------------------------------
Row      == [client_id : Nat, addr : Clients \cup {Zero}]
Address  == [Byte -> Clients \cup {Zero}]
Datagram == [type : {"LOGIN_REQ", "LOGIN_ACK", "CONNECT_REQ", "NOTIFY_REQ",
                     "P2P_CONNECT_REQ", "P2P_CONNECT_ACK"},
             src : Clients \cup {Server}, dst : Clients \cup {Server},
             about : Ids \cup {0} \cup Clients \cup {Zero}]
Receiver == [at : {"recvfrom", "store, ack", "store", "ack", "mode"},
             src : Clients \cup {Zero}, byte : Byte \cup {0}]
Sender   == [at : {"scanf", "read", "send"}, now_count : Nat,
             byte : 0..KING_CLIENT_ADDR_LENGTH + 1, c_addr : Address]

\* Datagrams come from clients and the server and go to clients and the server, and
\* the threads' variables have the values the code gives them.
TypeOK == /\ table \in [0..KING_CLIENT_MAX - 1 -> Row]
          /\ client_count \in 0..KING_CLIENT_MAX - 1
          /\ net \subseteq Datagram
          /\ status_machine \in [Clients -> {"LOGIN", "MESSAGE", "P2P_MESSAGE"}]
          /\ p2p_clients \in [Clients -> Seq(Address)]
          /\ receiver \in [Clients -> Receiver]
          /\ sender \in [Clients -> Sender]

\* The peers whose address is complete.
Peers(c) == {d \in Clients : \E k \in DOMAIN p2p_clients[c] : p2p_clients[c][k] = Whole(d)}

\* Two clients are peers only when the server introduced one of them to the other,
\* and the server only did so because a client that was logged in asked it to.
Introduced ==
    \A c \in Clients : \A d \in Peers(c) :
        /\ \E m \in net : m.type = "NOTIFY_REQ" /\ {m.dst, m.about} = {c, d}
        /\ \E m, n \in net : m.type = "CONNECT_REQ" /\ n.type = "LOGIN_ACK" /\ n.dst = m.src

\* A client that has a peer is known to that peer, or its acknowledgement is on its
\* way (or lost: a client that never gets it stays one-sided, nothing is sent again).
Mutual ==
    \A c \in Clients : \A d \in Peers(c) :
        \/ c \in Peers(d)
        \/ Msg("P2P_CONNECT_ACK", c, d, client_selfid[c]) \in net
        \/ receiver[c].at = "ack" /\ receiver[c].src = d

\* The threads share p2p_count and the entries without a lock, and still the sending
\* thread never indexes p2p_clients outside the entries counted, never uses bytes of two
\* peers' addresses in one, nor bytes of a client that was not introduced to it; and the
\* address of the first peer is always read in full.  (That of a later one, added in
\* p2p mode, can be read while it is stored: with zeros among its bytes, and then the
\* message is sent there even when the receiving thread is long done.)
SenderSafe ==
    \A c \in Clients : sender[c].at # "scanf" =>
        /\ sender[c].now_count \in 1..Len(p2p_clients[c])
        /\ sender[c].at = "send" =>
             \E d \in Clients :
                /\ \E m \in net : m.type = "NOTIFY_REQ" /\ {m.dst, m.about} = {c, d}
                /\ \A b \in Byte : sender[c].c_addr[b] \in {d, Zero}
                /\ sender[c].now_count = 1 => sender[c].c_addr = Whole(d)
=============================================================================
