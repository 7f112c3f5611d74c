------------------------------ MODULE P2PProofs ------------------------------
(***************************************************************************)
(* Proofs about P2P, for any number of clients, ids, rows and peers, and   *)
(* whatever the network loses, repeats or reorders.                        *)
(***************************************************************************)
EXTENDS P2P, TLAPS

Notified(c, d) == \E m \in net : m.type = "NOTIFY_REQ" /\ {m.dst, m.about} = {c, d}
LoggedIn(c)    == \E m \in net : m.type = "LOGIN_ACK" /\ m.dst = c
Asked          == \E m \in net : m.type = "CONNECT_REQ" /\ LoggedIn(m.src)
Acked(c, d)    == Msg("P2P_CONNECT_ACK", c, d, client_selfid[c]) \in net
HasPeer(c, d)  == \E k \in DOMAIN p2p_clients[c] : p2p_clients[c][k] = Whole(d)

\* The address of which the first n bytes are those of d, and the others zero.
Prefix(d, n) == [b \in Byte |-> IF b <= n THEN d ELSE Zero]

\* What each kind of datagram says about the past.
NetInv ==
    \A m \in net :
        /\ m.type = "LOGIN_REQ" => m.src \in Clients /\ m.about \in Ids
        /\ m.type = "CONNECT_REQ" => m.src \in Clients /\ LoggedIn(m.src)
        /\ m.type = "NOTIFY_REQ" => m.about \in Clients \cup {Zero} /\ Asked
        /\ m.type = "P2P_CONNECT_REQ" => m.src \in Clients /\ Notified(m.dst, m.src)
        /\ m.type = "P2P_CONNECT_ACK" => /\ m.src \in Clients /\ Notified(m.dst, m.src)
                                         /\ m.dst \in Clients => HasPeer(m.src, m.dst)

\* What the receiving thread knows while it adds a peer; the entry it stores has the
\* bytes of the peer's address before the next one, and zeros.
RecvInv ==
    \A c \in Clients : receiver[c].at # "recvfrom" =>
        /\ receiver[c].src \in Clients /\ Notified(c, receiver[c].src)
        /\ Len(p2p_clients[c]) >= 1
        /\ Storing(c) => /\ receiver[c].byte \in Byte
                         /\ p2p_clients[c][Len(p2p_clients[c])]
                               = Prefix(receiver[c].src, receiver[c].byte - 1)
        /\ receiver[c].at = "store" => HasPeer(receiver[c].src, c)
        /\ receiver[c].at \in {"ack", "mode"} => HasPeer(c, receiver[c].src)

\* What is true of a whose address client c has stored.
Complete(c, a) == /\ Notified(c, a)
                  /\ \/ HasPeer(a, c)
                     \/ Acked(c, a)
                     \/ receiver[c].at = "ack" /\ receiver[c].src = a

\* An entry is complete, or is the one being stored.
EntryInv ==
    \A c \in Clients : \A k \in DOMAIN p2p_clients[c] :
        \/ k = Len(p2p_clients[c]) /\ Storing(c)
        \/ \E a \in Clients : p2p_clients[c][k] = Whole(a) /\ Complete(c, a)

\* Entry k of client c is, or will be, the address of d.
Owned(c, k, d) == /\ k \in DOMAIN p2p_clients[c]
                  /\ \/ p2p_clients[c][k] = Whole(d)
                     \/ k = Len(p2p_clients[c]) /\ Storing(c) /\ receiver[c].src = d

\* The first entry is complete.
Linked(c) == 1 \in DOMAIN p2p_clients[c] /\ \E a \in Clients : p2p_clients[c][1] = Whole(a)

\* The sending thread of c has read, up to its next byte, the address of d.
Reads(c, d) == /\ Owned(c, sender[c].now_count, d) /\ Notified(c, d)
               /\ \A b \in Byte : sender[c].c_addr[b] \in {d, Zero}
               /\ sender[c].now_count = 1 =>
                     /\ p2p_clients[c][1] = Whole(d)
                     /\ \A b \in Byte : b < sender[c].byte => sender[c].c_addr[b] = d

\* The mode a client is in, and what its sending thread relies on.
SendInv ==
    \A c \in Clients :
        /\ status_machine[c] = "MESSAGE" => LoggedIn(c)
        /\ status_machine[c] = "P2P_MESSAGE" => Linked(c)
        /\ sender[c].at # "scanf" => \E d \in Clients : Reads(c, d)
        /\ sender[c].at = "read" => sender[c].byte \in Byte
        /\ sender[c].at = "send" => sender[c].byte = KING_CLIENT_ADDR_LENGTH + 1

IInv == TypeOK /\ NetInv /\ RecvInv /\ EntryInv /\ SendInv
-----------------------------------------------------------------------------
(* Facts hold on: the network and the lists of peers only grow. *)

LEMMA NetGrows == ASSUME [Next]_vars PROVE net \subseteq net'
<1>1. CASE UNCHANGED vars
  BY <1>1 DEF vars
<1>2. CASE Next
  BY <1>2 DEF Next, Send, ServerLogin, ServerConnect, RecvLoginAck, RecvNotify, RecvConnect,
         StoreByte, SendAck, EnterP2P, king_send_login, king_send_connect, ReadCount, ReadByte, SendToPeer
<1> QED BY <1>1, <1>2

LEMMA Lasting ==
    ASSUME net \subseteq net', NEW c, NEW d
    PROVE  /\ Notified(c, d) => Notified(c, d)'
           /\ LoggedIn(c) => LoggedIn(c)'
           /\ Asked => Asked'
           /\ Acked(c, d) => Acked(c, d)'
BY DEF Notified, LoggedIn, Asked, Acked

LEMMA NotifiedSymmetric == ASSUME NEW c, NEW d, Notified(c, d) PROVE Notified(d, c)
<1>1. {c, d} = {d, c}
  OBVIOUS
<1> QED BY <1>1 DEF Notified

\* Only two actions touch p2p_clients.
LEMMA PeersFrame ==
    ASSUME [Next]_vars
    PROVE  \/ \E c \in Clients, m \in net : RecvConnect(c, m)
           \/ \E c \in Clients : StoreByte(c)
           \/ UNCHANGED p2p_clients
<1>1. CASE UNCHANGED vars
  BY <1>1 DEF vars
<1>2. CASE Next
  BY <1>2 DEF Next, ServerLogin, ServerConnect, RecvLoginAck, RecvNotify,
         SendAck, EnterP2P, king_send_login, king_send_connect, ReadCount, ReadByte, SendToPeer
<1> QED BY <1>1, <1>2

LEMMA AppendFacts ==
    ASSUME NEW s \in Seq(Address), NEW e \in Address
    PROVE  /\ Append(s, e) \in Seq(Address)
           /\ Len(Append(s, e)) = Len(s) + 1
           /\ DOMAIN s = 1..Len(s) /\ DOMAIN Append(s, e) = 1..Len(s) + 1
           /\ \A k \in DOMAIN s : Append(s, e)[k] = s[k]
           /\ Append(s, e)[Len(s) + 1] = e
OBVIOUS

LEMMA ByteFacts ==
    /\ Whole(Zero) \in Address
    /\ \A d \in Clients : \A n \in Int : Prefix(d, n) \in Address
    /\ \A d \in Clients : Whole(Zero) = Prefix(d, 0)
    /\ \A d \in Clients : Whole(d) = Prefix(d, KING_CLIENT_ADDR_LENGTH)
    /\ \A d \in Clients : \A n \in Byte : [Prefix(d, n - 1) EXCEPT ![n] = d] = Prefix(d, n)
<1>1. Byte \subseteq Int /\ KING_CLIENT_ADDR_LENGTH \in Byte /\ \A b \in Byte : b >= 1 /\ b <= KING_CLIENT_ADDR_LENGTH
  BY P2PAssumption DEF Byte
<1>2. /\ Whole(Zero) \in Address
      /\ \A d \in Clients : \A n \in Int : Prefix(d, n) \in Address
      /\ \A d \in Clients : Whole(Zero) = Prefix(d, 0)
      /\ \A d \in Clients : Whole(d) = Prefix(d, KING_CLIENT_ADDR_LENGTH)
  BY <1>1 DEF Whole, Prefix, Address
<1>3. ASSUME NEW d \in Clients, NEW n \in Byte
      PROVE  [Prefix(d, n - 1) EXCEPT ![n] = d] = Prefix(d, n)
  <2>1. \A b \in Byte : b <= n <=> b = n \/ b <= n - 1
    BY <1>1
  <2>2. [Prefix(d, n - 1) EXCEPT ![n] = d] = [b \in Byte |-> IF b = n THEN d ELSE Prefix(d, n - 1)[b]]
    BY DEF Prefix
  <2>3. \A b \in Byte : Prefix(d, n - 1)[b] = IF b <= n - 1 THEN d ELSE Zero
    BY DEF Prefix
  <2>4. \A b \in Byte : (IF b = n THEN d ELSE Prefix(d, n - 1)[b]) = (IF b <= n THEN d ELSE Zero)
    BY <2>1, <2>3
  <2> QED BY <2>2, <2>4 DEF Prefix
<1> QED BY <1>2, <1>3

LEMMA PartialNotWhole ==
    ASSUME NEW d \in Clients, NEW a \in Clients, NEW n \in Byte
    PROVE  Prefix(d, n - 1) # Whole(a)
<1>1. Prefix(d, n - 1)[n] = Zero /\ Whole(a)[n] = a
  BY P2PAssumption DEF Prefix, Whole, Byte
<1> QED BY <1>1, P2PAssumption

LEMMA Initials == Waiting \in Receiver /\ Typing \in Sender /\ Whole(Zero) \in Address
<1>1. Whole(Zero) \in Address /\ 0 \in 0..KING_CLIENT_ADDR_LENGTH + 1
  BY P2PAssumption, ByteFacts
<1>2. Waiting \in Receiver
  BY DEF Waiting, Receiver
<1> QED BY <1>1, <1>2 DEF Typing, Sender

LEMMA StoreFacts ==
    ASSUME IInv, NEW c \in Clients, StoreByte(c)
    PROVE  /\ receiver[c].src \in Clients /\ receiver[c].byte \in Byte
           /\ Len(p2p_clients[c]) >= 1 /\ Len(p2p_clients[c]) \in Nat
           /\ DOMAIN p2p_clients[c] = 1..Len(p2p_clients[c])
           /\ p2p_clients' \in [Clients -> Seq(Address)]
           /\ DOMAIN p2p_clients'[c] = 1..Len(p2p_clients[c])
           /\ Len(p2p_clients'[c]) = Len(p2p_clients[c])
           /\ p2p_clients'[c][Len(p2p_clients[c])] = Prefix(receiver[c].src, receiver[c].byte)
           /\ \A k \in 1..Len(p2p_clients[c]) :
                 k # Len(p2p_clients[c]) => p2p_clients'[c][k] = p2p_clients[c][k]
           /\ \A x \in Clients : x # c => p2p_clients'[x] = p2p_clients[x]
<1> DEFINE s == p2p_clients[c]
           e == [s[Len(s)] EXCEPT ![receiver[c].byte] = receiver[c].src]
<1>1. s \in Seq(Address) /\ p2p_clients \in [Clients -> Seq(Address)]
  BY DEF IInv, TypeOK
<1>2. /\ Len(s) >= 1 /\ receiver[c].src \in Clients /\ receiver[c].byte \in Byte
      /\ s[Len(s)] = Prefix(receiver[c].src, receiver[c].byte - 1)
  BY DEF StoreByte, Storing, IInv, RecvInv
<1>3. Len(s) \in Nat /\ DOMAIN s = 1..Len(s)
  BY <1>1
<1>4. p2p_clients' = [p2p_clients EXCEPT ![c] = [s EXCEPT ![Len(s)] = e]]
  BY <1>1 DEF StoreByte
<1>5. e = Prefix(receiver[c].src, receiver[c].byte)
  BY <1>2, ByteFacts
<1>6. e \in Address
  <2>1. receiver[c].byte \in Int
    BY <1>2 DEF Byte
  <2> QED BY <1>2, <1>5, <2>1, ByteFacts
<1> HIDE DEF e
<1>7. p2p_clients'[c] = [s EXCEPT ![Len(s)] = e]
  BY <1>1, <1>4
<1>8. [s EXCEPT ![Len(s)] = e] \in Seq(Address) /\ Len([s EXCEPT ![Len(s)] = e]) = Len(s)
  BY <1>1, <1>2, <1>6
<1>9. /\ DOMAIN [s EXCEPT ![Len(s)] = e] = 1..Len(s)
      /\ [s EXCEPT ![Len(s)] = e][Len(s)] = e
      /\ \A k \in 1..Len(s) : k # Len(s) => [s EXCEPT ![Len(s)] = e][k] = s[k]
  BY <1>1, <1>2
<1>10. \A x \in Clients : x # c => p2p_clients'[x] = p2p_clients[x]
  BY <1>1, <1>4
<1>11. p2p_clients' \in [Clients -> Seq(Address)]
  BY <1>1, <1>4, <1>8
<1> QED BY <1>2, <1>3, <1>5, <1>7, <1>8, <1>9, <1>10, <1>11

\* An entry that was stored is never written again, and none is removed.
LEMMA EntryKept ==
    ASSUME IInv, [Next]_vars, NEW c \in Clients
    PROVE  /\ Len(p2p_clients'[c]) >= Len(p2p_clients[c])
           /\ DOMAIN p2p_clients[c] \subseteq DOMAIN p2p_clients'[c]
           /\ \A k \in DOMAIN p2p_clients[c] : \A a \in Clients :
                 p2p_clients[c][k] = Whole(a) => p2p_clients'[c][k] = Whole(a)
<1> DEFINE Kept == /\ Len(p2p_clients'[c]) >= Len(p2p_clients[c])
                   /\ DOMAIN p2p_clients[c] \subseteq DOMAIN p2p_clients'[c]
                   /\ \A k \in DOMAIN p2p_clients[c] : \A a \in Clients :
                         p2p_clients[c][k] = Whole(a) => p2p_clients'[c][k] = Whole(a)
<1>1. p2p_clients \in [Clients -> Seq(Address)] /\ Whole(Zero) \in Address
  BY ByteFacts DEF IInv, TypeOK
<1>2. ASSUME NEW x \in Clients, NEW m \in net, RecvConnect(x, m) PROVE Kept
  <2>1. p2p_clients' = [p2p_clients EXCEPT ![x] = Append(@, Whole(Zero))]
    BY <1>2 DEF RecvConnect
  <2> QED BY <1>1, <2>1, AppendFacts
<1>3. ASSUME NEW x \in Clients, StoreByte(x) PROVE Kept
  <2>1. /\ receiver[x].src \in Clients /\ receiver[x].byte \in Byte
        /\ p2p_clients[x][Len(p2p_clients[x])] = Prefix(receiver[x].src, receiver[x].byte - 1)
    BY <1>3 DEF StoreByte, Storing, IInv, RecvInv
  <2>2. \A a \in Clients : p2p_clients[x][Len(p2p_clients[x])] # Whole(a)
    BY <2>1, PartialNotWhole
  <2>3. CASE x = c
    BY <1>3, <2>2, <2>3, StoreFacts
  <2>4. CASE x # c
    BY <1>1, <1>3, <2>4, StoreFacts
  <2> QED BY <2>3, <2>4
<1>4. CASE UNCHANGED p2p_clients
  BY <1>1, <1>4
<1> QED BY <1>2, <1>3, <1>4, PeersFrame

LEMMA PeersGrow ==
    ASSUME IInv, [Next]_vars, NEW c \in Clients, NEW d \in Clients, HasPeer(c, d)
    PROVE  HasPeer(c, d)'
<1>1. PICK k \in DOMAIN p2p_clients[c] : p2p_clients[c][k] = Whole(d)
  BY DEF HasPeer
<1> QED BY <1>1, EntryKept DEF HasPeer
-----------------------------------------------------------------------------
(* Each part of the invariant is kept by every step. *)

\* The sending thread's next byte.
LEMMA ReadFacts ==
    ASSUME IInv, NEW c \in Clients, ReadByte(c)
    PROVE  /\ sender' \in [Clients -> Sender]
           /\ sender[c].byte \in Byte /\ sender[c].now_count \in DOMAIN p2p_clients[c]
           /\ sender'[c].now_count = sender[c].now_count
           /\ sender'[c].byte = sender[c].byte + 1
           /\ sender'[c].at = IF sender[c].byte < KING_CLIENT_ADDR_LENGTH THEN "read" ELSE "send"
           /\ sender'[c].c_addr = [sender[c].c_addr EXCEPT ![sender[c].byte] =
                                      p2p_clients[c][sender[c].now_count][sender[c].byte]]
           /\ \A x \in Clients : x # c => sender'[x] = sender[x]
<1> DEFINE b == sender[c].byte
           n == sender[c].now_count
           v == p2p_clients[c][n][b]
           l == IF b < KING_CLIENT_ADDR_LENGTH THEN "read" ELSE "send"
           a == [sender[c].c_addr EXCEPT ![b] = v]
<1>1. sender \in [Clients -> Sender] /\ p2p_clients[c] \in Seq(Address) /\ sender[c] \in Sender
  BY DEF IInv, TypeOK
<1>2. b \in Byte /\ n \in DOMAIN p2p_clients[c]
  BY DEF ReadByte, IInv, SendInv, Reads, Owned
<1>3. v \in Clients \cup {Zero}
  BY <1>1, <1>2 DEF Address
<1>4. sender' = [sender EXCEPT ![c] = [at |-> l, now_count |-> n, byte |-> b + 1, c_addr |-> a]]
  BY DEF ReadByte
<1>5. l \in {"read", "send"} /\ b + 1 \in 0..KING_CLIENT_ADDR_LENGTH + 1 /\ n \in Nat
  BY <1>1, <1>2, P2PAssumption DEF Byte, Sender
<1>6. a \in Address
  BY <1>1, <1>2, <1>3 DEF Sender, Address
<1> HIDE DEF b, v, l, n, a
<1>8. [at |-> l, now_count |-> n, byte |-> b + 1, c_addr |-> a] \in Sender
  BY <1>5, <1>6 DEF Sender
<1>9. /\ sender'[c].at = l /\ sender'[c].now_count = n /\ sender'[c].byte = b + 1
      /\ sender'[c].c_addr = a
  BY <1>1, <1>4
<1>10. sender' \in [Clients -> Sender] /\ \A x \in Clients : x # c => sender'[x] = sender[x]
  BY <1>1, <1>4, <1>8
<1> QED BY <1>2, <1>9, <1>10 DEF b, v, l, n, a

LEMMA SendType ==
    ASSUME net \subseteq Datagram, NEW m, Send(m), m.dst # Zero => m \in Datagram
    PROVE  net' \subseteq Datagram
BY DEF Send

LEMMA TypeStep == ASSUME IInv, [Next]_vars PROVE TypeOK'
<1> USE DEF IInv, TypeOK
<1>0. /\ Waiting \in Receiver /\ Typing \in Sender /\ Whole(Zero) \in Address
      /\ \A c \in Clients : client_selfid[c] \in Ids
  BY P2PAssumption, Initials
<1>1. CASE UNCHANGED vars
  BY <1>1 DEF vars, serverVars
<1>2. ASSUME NEW m \in net, ServerLogin(m) PROVE TypeOK'
  <2>1. [client_id |-> m.about, addr |-> m.src] \in Row /\ m.src \in Clients
    BY <1>2, P2PAssumption DEF ServerLogin, NetInv, Row
  <2>2. Msg("LOGIN_ACK", Server, m.src, 0) \in Datagram
    BY <2>1 DEF Msg, Datagram
  <2>3. net' \subseteq Datagram
    BY <1>2, <2>2, SendType DEF ServerLogin
  <2>4. client_count' \in 0..KING_CLIENT_MAX - 1
    BY <1>2, P2PAssumption DEF ServerLogin
  <2> QED BY <1>2, <2>1, <2>3, <2>4 DEF ServerLogin
<1>3. ASSUME NEW m \in net, ServerConnect(m) PROVE TypeOK'
  <2>1. PICK i \in get_index_by_clientid(client_selfid[m.src]), j \in get_index_by_clientid(m.about) :
            Send(Msg("NOTIFY_REQ", Server, table[j].addr, table[i].addr))
    BY <1>3 DEF ServerConnect
  <2>2. i \in 0..KING_CLIENT_MAX - 1 /\ j \in 0..KING_CLIENT_MAX - 1
    BY P2PAssumption DEF get_index_by_clientid
  <2>3. table[i].addr \in Clients \cup {Zero} /\ table[j].addr \in Clients \cup {Zero}
    BY <2>2 DEF Row
  <2>4. table[j].addr # Zero => Msg("NOTIFY_REQ", Server, table[j].addr, table[i].addr) \in Datagram
    BY <2>3 DEF Msg, Datagram
  <2>5. net' \subseteq Datagram
    BY <2>1, <2>4, SendType DEF Msg
  <2> QED BY <1>3, <2>5 DEF ServerConnect, serverVars
<1>4. ASSUME NEW c \in Clients, NEW m \in net, RecvLoginAck(c, m) PROVE TypeOK'
  BY <1>4 DEF RecvLoginAck, serverVars
<1>5. ASSUME NEW c \in Clients, NEW m \in net, RecvNotify(c, m) PROVE TypeOK'
  <2>1. m.about # Zero => Msg("P2P_CONNECT_REQ", c, m.about, client_selfid[c]) \in Datagram
    BY <1>0, <1>5 DEF RecvNotify, Arrives, NetInv, Msg, Datagram
  <2>2. net' \subseteq Datagram
    BY <1>5, <2>1, SendType DEF RecvNotify, Msg
  <2> QED BY <1>5, <2>2 DEF RecvNotify, serverVars
<1>6. ASSUME NEW c \in Clients, NEW m \in net, RecvConnect(c, m) PROVE TypeOK'
  <2>1. m.src \in Clients
    BY <1>6 DEF RecvConnect, Arrives, NetInv
  <2>2. [at |-> IF m.type = "P2P_CONNECT_REQ" THEN "store, ack" ELSE "store",
         src |-> m.src, byte |-> 1] \in Receiver
    <3>1. 1 \in Byte
      BY P2PAssumption DEF Byte
    <3> QED BY <2>1, <3>1 DEF Receiver
  <2>3. Append(p2p_clients[c], Whole(Zero)) \in Seq(Address)
    BY <1>0, AppendFacts
  <2> QED BY <1>6, <2>2, <2>3 DEF RecvConnect, serverVars
<1>7. ASSUME NEW c \in Clients, StoreByte(c) PROVE TypeOK'
  <2>1. p2p_clients' \in [Clients -> Seq(Address)] /\ receiver[c].byte \in Byte
    BY <1>7, StoreFacts
  <2>2. receiver' \in [Clients -> Receiver]
    <3>1. CASE receiver[c].byte < KING_CLIENT_ADDR_LENGTH
      <4>1. receiver[c].byte + 1 \in Byte
        BY <2>1, <3>1, P2PAssumption DEF Byte
      <4>2. receiver' = [receiver EXCEPT ![c] = [receiver[c] EXCEPT !.byte = receiver[c].byte + 1]]
        BY <1>7, <3>1 DEF StoreByte
      <4>3. [receiver[c] EXCEPT !.byte = receiver[c].byte + 1] \in Receiver
        BY <4>1 DEF Receiver
      <4> QED BY <4>2, <4>3
    <3>2. CASE ~ receiver[c].byte < KING_CLIENT_ADDR_LENGTH
      <4>1. PICK l \in {"ack", "mode"} : receiver' = [receiver EXCEPT ![c].at = l]
        BY <1>7, <3>2 DEF StoreByte
      <4> QED BY <4>1 DEF Receiver
    <3> QED BY <3>1, <3>2
  <2> QED BY <1>7, <2>1, <2>2 DEF StoreByte, serverVars
<1>8. ASSUME NEW c \in Clients, SendAck(c) PROVE TypeOK'
  <2>1. Msg("P2P_CONNECT_ACK", c, receiver[c].src, client_selfid[c]) \in Datagram
    BY <1>0, <1>8 DEF SendAck, RecvInv, Msg, Datagram
  <2>2. net' \subseteq Datagram
    BY <1>8, <2>1, SendType DEF SendAck
  <2>3. receiver' \in [Clients -> Receiver]
    BY <1>8 DEF SendAck, Receiver
  <2> QED BY <1>8, <2>2, <2>3 DEF SendAck, serverVars
<1>9. ASSUME NEW c \in Clients, EnterP2P(c) PROVE TypeOK'
  BY <1>0, <1>9 DEF EnterP2P, serverVars
<1>10. ASSUME NEW c \in Clients, king_send_login(c) PROVE TypeOK'
  <2>1. Msg("LOGIN_REQ", c, Server, client_selfid[c]) \in Datagram
    BY <1>0 DEF Msg, Datagram
  <2> QED BY <1>10, <2>1, SendType DEF king_send_login, serverVars
<1>11. ASSUME NEW c \in Clients, king_send_connect(c) PROVE TypeOK'
  <2>1. \A id \in Ids : Msg("CONNECT_REQ", c, Server, id) \in Datagram
    BY DEF Msg, Datagram
  <2> QED BY <1>11, <2>1, SendType DEF king_send_connect, serverVars
<1>12. ASSUME NEW c \in Clients, ReadCount(c) PROVE TypeOK'
  <2>1. [at |-> "read", now_count |-> Len(p2p_clients[c]), byte |-> 1, c_addr |-> Whole(Zero)] \in Sender
    <3>1. Len(p2p_clients[c]) \in Nat /\ 1 \in 0..KING_CLIENT_ADDR_LENGTH + 1
      BY P2PAssumption
    <3> QED BY <1>0, <3>1 DEF Sender
  <2> QED BY <1>12, <2>1 DEF ReadCount, serverVars
<1>13. ASSUME NEW c \in Clients, ReadByte(c) PROVE TypeOK'
  <2>1. sender' \in [Clients -> Sender]
    BY <1>13, ReadFacts
  <2> QED BY <1>13, <2>1 DEF ReadByte, serverVars
<1>14. ASSUME NEW c \in Clients, SendToPeer(c) PROVE TypeOK'
  BY <1>0, <1>14 DEF SendToPeer, serverVars
<1> QED
  BY <1>1, <1>2, <1>3, <1>4, <1>5, <1>6, <1>7, <1>8, <1>9, <1>10, <1>11, <1>12, <1>13, <1>14
     DEF Next

\* A datagram that was there before the step still says the truth, so each action
\* has to justify the one it sends.
LEMMA NetStep == ASSUME IInv, [Next]_vars PROVE NetInv'
<1> DEFINE OK(m) ==
        /\ m.type = "LOGIN_REQ" => m.src \in Clients /\ m.about \in Ids
        /\ m.type = "CONNECT_REQ" => m.src \in Clients /\ LoggedIn(m.src)'
        /\ m.type = "NOTIFY_REQ" => m.about \in Clients \cup {Zero} /\ Asked'
        /\ m.type = "P2P_CONNECT_REQ" => m.src \in Clients /\ Notified(m.dst, m.src)'
        /\ m.type = "P2P_CONNECT_ACK" => /\ m.src \in Clients /\ Notified(m.dst, m.src)'
                                         /\ m.dst \in Clients => HasPeer(m.src, m.dst)'
<1>1. net \subseteq net'
  BY NetGrows
<1>2. ASSUME NEW m \in net PROVE OK(m)
  <2>1. m.src \in Clients /\ m.dst \in Clients /\ HasPeer(m.src, m.dst) => HasPeer(m.src, m.dst)'
    BY PeersGrow
  <2>2. /\ Notified(m.dst, m.src) => Notified(m.dst, m.src)'
        /\ LoggedIn(m.src) => LoggedIn(m.src)'
        /\ Asked => Asked'
    BY <1>1, Lasting
  <2> QED BY <2>1, <2>2 DEF IInv, NetInv
<1>3. ASSUME NEW m \in net', m \notin net PROVE OK(m)
  <2>1. ASSUME NEW n \in net, ServerLogin(n) PROVE OK(m)
    <3>1. m = Msg("LOGIN_ACK", Server, n.src, 0)
      BY <1>3, <2>1 DEF ServerLogin, Send
    <3> QED BY <3>1 DEF Msg
  <2>2. ASSUME NEW n \in net, ServerConnect(n) PROVE OK(m)
    <3>1. PICK i \in get_index_by_clientid(client_selfid[n.src]), j \in get_index_by_clientid(n.about) :
              m = Msg("NOTIFY_REQ", Server, table[j].addr, table[i].addr)
      BY <1>3, <2>2 DEF ServerConnect, Send
    <3>4. i \in 0..KING_CLIENT_MAX - 1
      BY P2PAssumption DEF get_index_by_clientid, IInv, TypeOK
    <3>2. table[i].addr \in Clients \cup {Zero}
      BY <3>4 DEF IInv, TypeOK, Row
    <3>3. Asked
      BY <2>2 DEF ServerConnect, IInv, NetInv, Asked
    <3> QED BY <1>1, <3>1, <3>2, <3>3, Lasting DEF Msg
  <2>3. ASSUME NEW c \in Clients, NEW n \in net, RecvNotify(c, n) PROVE OK(m)
    <3>1. m = Msg("P2P_CONNECT_REQ", c, n.about, client_selfid[c])
      BY <1>3, <2>3 DEF RecvNotify, Send
    <3>2. Notified(n.about, c)
      BY <2>3 DEF RecvNotify, Arrives, Notified
    <3> QED BY <1>1, <3>1, <3>2, Lasting DEF Msg
  <2>4. ASSUME NEW c \in Clients, SendAck(c) PROVE OK(m)
    <3>1. PICK d \in Clients : d = receiver[c].src
      BY <2>4 DEF SendAck, IInv, RecvInv
    <3>2. m = Msg("P2P_CONNECT_ACK", c, d, client_selfid[c])
      BY <1>3, <2>4, <3>1 DEF SendAck, Send
    <3>3. Notified(d, c) /\ HasPeer(c, d)
      BY <2>4, <3>1, NotifiedSymmetric DEF SendAck, IInv, RecvInv
    <3>4. HasPeer(c, d)'
      BY <3>3, PeersGrow
    <3> QED BY <1>1, <3>2, <3>3, <3>4, Lasting DEF Msg
  <2>5. ASSUME NEW c \in Clients, king_send_login(c) PROVE OK(m)
    <3>1. m = Msg("LOGIN_REQ", c, Server, client_selfid[c])
      BY <1>3, <2>5 DEF king_send_login, Send
    <3> QED BY <3>1, P2PAssumption DEF Msg
  <2>6. ASSUME NEW c \in Clients, king_send_connect(c) PROVE OK(m)
    <3>1. PICK id \in Ids : m = Msg("CONNECT_REQ", c, Server, id)
      BY <1>3, <2>6 DEF king_send_connect, Send
    <3>2. LoggedIn(c)
      BY <2>6 DEF king_send_connect, IInv, SendInv
    <3> QED BY <1>1, <3>1, <3>2, Lasting DEF Msg
  <2>7. UNCHANGED net => OK(m)
    BY <1>3
  <2> HIDE DEF OK
  <2> QED BY <2>1, <2>2, <2>3, <2>4, <2>5, <2>6, <2>7
          DEF Next, vars, RecvLoginAck, RecvConnect, StoreByte, EnterP2P, ReadCount, ReadByte, SendToPeer
<1> QED BY <1>2, <1>3 DEF NetInv

\* Only four actions touch the receiving thread, and only for its own client.
LEMMA ReceiverFrame ==
    ASSUME IInv, [Next]_vars, NEW c \in Clients
    PROVE  \/ \E m \in net : RecvConnect(c, m)
           \/ StoreByte(c) \/ SendAck(c) \/ EnterP2P(c)
           \/ receiver'[c] = receiver[c] /\ p2p_clients'[c] = p2p_clients[c]
<1> DEFINE Goal == \/ \E m \in net : RecvConnect(c, m)
                   \/ StoreByte(c) \/ SendAck(c) \/ EnterP2P(c)
                   \/ receiver'[c] = receiver[c] /\ p2p_clients'[c] = p2p_clients[c]
<1>1. receiver \in [Clients -> Receiver] /\ p2p_clients \in [Clients -> Seq(Address)]
  BY DEF IInv, TypeOK
<1>2. UNCHANGED <<receiver, p2p_clients>> => Goal
  OBVIOUS
<1>3. ASSUME NEW x \in Clients, NEW m \in net, RecvConnect(x, m) PROVE Goal
  BY <1>1, <1>3 DEF RecvConnect
<1>4. ASSUME NEW x \in Clients, StoreByte(x) PROVE Goal
  BY <1>1, <1>4 DEF StoreByte
<1>5. ASSUME NEW x \in Clients, SendAck(x) PROVE Goal
  BY <1>1, <1>5 DEF SendAck
<1>6. ASSUME NEW x \in Clients, EnterP2P(x) PROVE Goal
  BY <1>1, <1>6 DEF EnterP2P
<1> HIDE DEF Goal
<1>7. Goal
  BY <1>2, <1>3, <1>4, <1>5, <1>6
     DEF Next, vars, ServerLogin, ServerConnect, RecvLoginAck, RecvNotify,
         king_send_login, king_send_connect, ReadCount, ReadByte, SendToPeer
<1> QED BY <1>7 DEF Goal

\* Where the receiving thread is after a byte.
LEMMA StoreNext ==
    ASSUME IInv, NEW c \in Clients, StoreByte(c)
    PROVE  /\ receiver[c].at \in {"store", "store, ack"} /\ receiver'[c].src = receiver[c].src
           /\ \/ /\ receiver'[c].at = receiver[c].at
                 /\ receiver'[c].byte = receiver[c].byte + 1 /\ receiver'[c].byte \in Byte
              \/ /\ receiver[c].byte = KING_CLIENT_ADDR_LENGTH
                 /\ receiver'[c].at = IF receiver[c].at = "store" THEN "mode" ELSE "ack"
<1>1. receiver \in [Clients -> Receiver] /\ receiver[c].byte \in Byte
  BY StoreFacts DEF IInv, TypeOK
<1>2. CASE receiver[c].byte < KING_CLIENT_ADDR_LENGTH
  <2>1. receiver[c].byte + 1 \in Byte
    BY <1>1, <1>2, P2PAssumption DEF Byte
  <2> QED BY <1>1, <1>2, <2>1 DEF StoreByte, Storing, Receiver
<1>3. CASE ~ receiver[c].byte < KING_CLIENT_ADDR_LENGTH
  <2>1. receiver[c].byte = KING_CLIENT_ADDR_LENGTH
    BY <1>1, <1>3, P2PAssumption DEF Byte
  <2> QED BY <1>1, <1>3, <2>1 DEF StoreByte, Storing, Receiver
<1> QED BY <1>2, <1>3

LEMMA RecvStep == ASSUME IInv, [Next]_vars PROVE RecvInv'
<1> SUFFICES ASSUME NEW c \in Clients, receiver'[c].at # "recvfrom"
             PROVE  /\ receiver'[c].src \in Clients /\ Notified(c, receiver[c].src)'
                    /\ Len(p2p_clients'[c]) >= 1
                    /\ Storing(c)' => /\ receiver'[c].byte \in Byte
                                      /\ p2p_clients'[c][Len(p2p_clients'[c])]
                                            = Prefix(receiver'[c].src, receiver'[c].byte - 1)
                    /\ receiver'[c].at = "store" => HasPeer(receiver[c].src, c)'
                    /\ receiver'[c].at \in {"ack", "mode"} => HasPeer(c, receiver[c].src)'
  BY DEF RecvInv
<1> DEFINE d == receiver'[c].src
           Stored == /\ receiver'[c].byte \in Byte
                     /\ p2p_clients'[c][Len(p2p_clients'[c])] = Prefix(d, receiver'[c].byte - 1)
           OK == /\ d \in Clients /\ Notified(c, receiver[c].src)'
                 /\ Len(p2p_clients'[c]) >= 1
                 /\ Storing(c)' => Stored
                 /\ receiver'[c].at = "store" => HasPeer(receiver[c].src, c)'
                 /\ receiver'[c].at \in {"ack", "mode"} => HasPeer(c, receiver[c].src)'
<1>1. /\ receiver \in [Clients -> Receiver] /\ p2p_clients \in [Clients -> Seq(Address)]
      /\ Whole(Zero) \in Address /\ net \subseteq net'
  BY NetGrows, ByteFacts DEF IInv, TypeOK
<1>2. ASSUME NEW m \in net, RecvConnect(c, m) PROVE OK
  <2>1. PICK a \in Clients : a = m.src
    BY <1>2 DEF RecvConnect, Arrives, IInv, NetInv
  <2>2. /\ Notified(c, a)
        /\ m.type = "P2P_CONNECT_ACK" => HasPeer(a, c)
    BY <1>2, <2>1 DEF RecvConnect, Arrives, IInv, NetInv
  <2>3. Notified(c, a)' /\ (m.type = "P2P_CONNECT_ACK" => HasPeer(a, c)')
    BY <1>1, <2>2, Lasting, PeersGrow
  <2>4. /\ receiver'[c].src = a /\ receiver'[c].byte = 1
        /\ receiver'[c].at \in {"store", "store, ack"}
        /\ receiver'[c].at = "store" => m.type = "P2P_CONNECT_ACK"
    BY <1>1, <1>2, <2>1 DEF RecvConnect, Arrives
  <2>5. p2p_clients'[c] = Append(p2p_clients[c], Whole(Zero))
    BY <1>1, <1>2 DEF RecvConnect
  <2>6. Len(p2p_clients'[c]) >= 1 /\ p2p_clients'[c][Len(p2p_clients'[c])] = Whole(Zero)
    BY <1>1, <2>5, AppendFacts
  <2>7. Whole(Zero) = Prefix(a, 1 - 1) /\ 1 \in Byte
    BY ByteFacts, P2PAssumption DEF Byte
  <2>8. Stored
    BY <2>4, <2>6, <2>7
  <2> QED BY <2>3, <2>4, <2>6, <2>8
<1>3. ASSUME receiver[c].at # "recvfrom", receiver'[c].src = receiver[c].src PROVE
        /\ d \in Clients /\ Notified(c, receiver[c].src)' /\ Len(p2p_clients'[c]) >= 1
        /\ receiver[c].at = "store" => HasPeer(receiver[c].src, c)'
        /\ receiver[c].at \in {"ack", "mode"} => HasPeer(c, receiver[c].src)'
  <2>1. PICK a \in Clients : a = receiver[c].src
    BY <1>3 DEF IInv, RecvInv
  <2>2. /\ Notified(c, a) /\ Len(p2p_clients[c]) >= 1
        /\ receiver[c].at = "store" => HasPeer(a, c)
        /\ receiver[c].at \in {"ack", "mode"} => HasPeer(c, a)
    BY <1>3, <2>1 DEF IInv, RecvInv
  <2>3. /\ Notified(c, a)'
        /\ receiver[c].at = "store" => HasPeer(a, c)'
        /\ receiver[c].at \in {"ack", "mode"} => HasPeer(c, a)'
    BY <1>1, <2>2, Lasting, PeersGrow
  <2>4. p2p_clients' \in [Clients -> Seq(Address)]
    BY TypeStep DEF TypeOK
  <2>5. Len(p2p_clients'[c]) \in Nat /\ Len(p2p_clients[c]) \in Nat
    BY <1>1, <2>4
  <2>6. Len(p2p_clients'[c]) >= 1
    BY <2>2, <2>5, EntryKept
  <2> QED BY <1>3, <2>1, <2>3, <2>6
<1>4. CASE StoreByte(c)
  <2>1. /\ receiver[c].src \in Clients /\ receiver[c].byte \in Byte
        /\ Len(p2p_clients'[c]) = Len(p2p_clients[c])
        /\ Len(p2p_clients[c]) \in DOMAIN p2p_clients'[c]
        /\ p2p_clients'[c][Len(p2p_clients[c])] = Prefix(receiver[c].src, receiver[c].byte)
    BY <1>4, StoreFacts
  <2>2. receiver[c].at \in {"store", "store, ack"} /\ receiver'[c].src = receiver[c].src
    BY <1>4, StoreNext
  <2>3. CASE /\ receiver'[c].at = receiver[c].at
             /\ receiver'[c].byte = receiver[c].byte + 1 /\ receiver'[c].byte \in Byte
    <3>1. receiver'[c].byte - 1 = receiver[c].byte
      BY <2>1, <2>3 DEF Byte
    <3>2. Stored
      BY <2>1, <2>2, <2>3, <3>1
    <3> QED BY <1>3, <2>2, <2>3, <3>2
  <2>4. CASE /\ receiver[c].byte = KING_CLIENT_ADDR_LENGTH
             /\ receiver'[c].at = IF receiver[c].at = "store" THEN "mode" ELSE "ack"
    <3>1. p2p_clients'[c][Len(p2p_clients[c])] = Whole(receiver[c].src)
      BY <2>1, <2>4, ByteFacts
    <3>2. HasPeer(c, receiver[c].src)'
      BY <2>1, <2>2, <3>1 DEF HasPeer
    <3> QED BY <1>3, <2>2, <2>4, <3>2 DEF Storing
  <2> QED BY <1>4, <2>3, <2>4, StoreNext
<1>5. CASE SendAck(c)
  <2>1. receiver[c].at = "ack" /\ receiver'[c].at = "mode" /\ receiver'[c].src = receiver[c].src
    BY <1>1, <1>5 DEF SendAck, Receiver
  <2> QED BY <1>3, <2>1 DEF Storing
<1>6. CASE EnterP2P(c)
  BY <1>1, <1>6 DEF EnterP2P, Waiting
<1>7. CASE receiver'[c] = receiver[c] /\ p2p_clients'[c] = p2p_clients[c]
  <2>1. Storing(c)' = Storing(c)
    BY <1>7 DEF Storing
  <2> QED BY <1>3, <1>7, <2>1 DEF IInv, RecvInv
<1> QED BY <1>2, <1>4, <1>5, <1>6, <1>7, ReceiverFrame

LEMMA CompleteKept ==
    ASSUME IInv, [Next]_vars, NEW c \in Clients, NEW a \in Clients, Complete(c, a)
    PROVE  Complete(c, a)'
<1>1. receiver \in [Clients -> Receiver] /\ net \subseteq net' /\ a # Zero
  BY P2PAssumption, NetGrows DEF IInv, TypeOK
<1>2. Notified(c, a)' /\ (HasPeer(a, c) => HasPeer(a, c)') /\ (Acked(c, a) => Acked(c, a)')
  BY <1>1, Lasting, PeersGrow DEF Complete
<1>3. ASSUME receiver[c].at = "ack", receiver[c].src = a
      PROVE  Acked(c, a)' \/ receiver'[c] = receiver[c]
  <2>1. CASE SendAck(c)
    BY <1>1, <1>3, <2>1 DEF SendAck, Send, Acked, Msg
  <2>2. CASE ~ SendAck(c)
    BY <1>3, <2>2, ReceiverFrame DEF RecvConnect, Arrives, StoreByte, Storing, EnterP2P
  <2> QED BY <2>1, <2>2
<1> QED BY <1>1, <1>2, <1>3 DEF Complete

LEMMA EntryStep == ASSUME IInv, [Next]_vars PROVE EntryInv'
<1> DEFINE OK(c, k) == \/ k = Len(p2p_clients'[c]) /\ Storing(c)'
                       \/ \E a \in Clients : p2p_clients'[c][k] = Whole(a) /\ Complete(c, a)'
<1> SUFFICES ASSUME NEW c \in Clients, NEW k \in DOMAIN p2p_clients'[c]
             PROVE  OK(c, k)
  BY DEF EntryInv, Whole, Byte
<1>1. /\ receiver \in [Clients -> Receiver] /\ p2p_clients \in [Clients -> Seq(Address)]
      /\ Whole(Zero) \in Address /\ net \subseteq net'
  BY NetGrows, ByteFacts DEF IInv, TypeOK
<1>2. ASSUME k \in DOMAIN p2p_clients[c], ~(k = Len(p2p_clients[c]) /\ Storing(c)) PROVE OK(c, k)
  <2>1. PICK a \in Clients : p2p_clients[c][k] = Whole(a) /\ Complete(c, a)
    BY <1>2 DEF IInv, EntryInv
  <2>2. Complete(c, a)'
    BY <2>1, CompleteKept
  <2>3. p2p_clients'[c][k] = Whole(a)
    BY <1>2, <2>1, EntryKept
  <2> QED BY <2>2, <2>3
<1>4. ASSUME NEW m \in net, RecvConnect(c, m) PROVE OK(c, k)
  <2>1. ~ Storing(c) /\ Storing(c)'
    BY <1>1, <1>4 DEF RecvConnect, Arrives, Storing
  <2>2. p2p_clients'[c] = Append(p2p_clients[c], Whole(Zero))
    BY <1>1, <1>4 DEF RecvConnect
  <2>3. CASE k \in DOMAIN p2p_clients[c]
    BY <1>2, <2>1, <2>3
  <2>4. CASE k \notin DOMAIN p2p_clients[c]
    <3>1. k = Len(p2p_clients'[c])
      BY <1>1, <2>2, <2>4, AppendFacts
    <3> QED BY <2>1, <3>1
  <2> QED BY <2>3, <2>4
<1>5. CASE StoreByte(c)
  <2>1. k \in DOMAIN p2p_clients[c] /\ Len(p2p_clients'[c]) = Len(p2p_clients[c])
    BY <1>5, StoreFacts
  <2>2. CASE k # Len(p2p_clients[c])
    BY <1>2, <2>1, <2>2
  <2>3. CASE k = Len(p2p_clients[c]) /\ receiver'[c].at = receiver[c].at
    BY <1>5, <2>1, <2>3 DEF StoreByte, Storing
  <2>4. CASE /\ k = Len(p2p_clients[c]) /\ receiver[c].byte = KING_CLIENT_ADDR_LENGTH
             /\ receiver'[c].at = IF receiver[c].at = "store" THEN "mode" ELSE "ack"
    <3>1. PICK a \in Clients : a = receiver[c].src
      BY <1>5, StoreFacts
    <3>2. receiver[c].at \in {"store", "store, ack"} /\ receiver'[c].src = a
      BY <1>5, <3>1, StoreNext
    <3>3. Notified(c, a) /\ (receiver[c].at = "store" => HasPeer(a, c))
      BY <3>1, <3>2 DEF IInv, RecvInv
    <3>4. Notified(c, a)' /\ (receiver[c].at = "store" => HasPeer(a, c)')
      BY <1>1, <3>3, Lasting, PeersGrow
    <3>5. p2p_clients'[c][k] = Whole(a)
      BY <1>5, <2>4, <3>1, StoreFacts, ByteFacts
    <3>6. Complete(c, a)'
      BY <2>4, <3>2, <3>4 DEF Complete
    <3> QED BY <3>5, <3>6
  <2> QED BY <1>5, <2>2, <2>3, <2>4, StoreNext
<1>6. CASE SendAck(c) \/ EnterP2P(c)
  <2>1. p2p_clients'[c] = p2p_clients[c] /\ ~ Storing(c)
    BY <1>6 DEF SendAck, EnterP2P, Storing
  <2> QED BY <1>2, <2>1
<1>7. CASE receiver'[c] = receiver[c] /\ p2p_clients'[c] = p2p_clients[c]
  BY <1>2, <1>7 DEF Storing
<1> QED BY <1>4, <1>5, <1>6, <1>7, ReceiverFrame

\* An entry stays the address of the peer it is being stored for.
LEMMA OwnedKept ==
    ASSUME IInv, [Next]_vars, NEW c \in Clients, NEW k, NEW d \in Clients, Owned(c, k, d)
    PROVE  Owned(c, k, d)'
<1>1. k \in DOMAIN p2p_clients'[c]
  BY EntryKept DEF Owned
<1>2. CASE p2p_clients[c][k] = Whole(d)
  <2>1. p2p_clients'[c][k] = Whole(d)
    BY <1>2, EntryKept DEF Owned
  <2> QED BY <1>1, <2>1 DEF Owned
<1>3. CASE k = Len(p2p_clients[c]) /\ Storing(c) /\ receiver[c].src = d
  <2>1. CASE StoreByte(c)
    <3>1. /\ k = Len(p2p_clients'[c])
          /\ p2p_clients'[c][k] = Prefix(d, receiver[c].byte)
      BY <1>3, <2>1, StoreFacts
    <3>2. receiver[c].byte = KING_CLIENT_ADDR_LENGTH => p2p_clients'[c][k] = Whole(d)
      BY <3>1, ByteFacts
    <3>3. \/ Storing(c)' /\ receiver'[c].src = d
          \/ receiver[c].byte = KING_CLIENT_ADDR_LENGTH
      BY <1>3, <2>1, StoreNext DEF Storing
    <3> QED BY <1>1, <3>1, <3>2, <3>3 DEF Owned
  <2>2. CASE receiver'[c] = receiver[c] /\ p2p_clients'[c] = p2p_clients[c]
    BY <1>1, <1>3, <2>2 DEF Owned, Storing
  <2> QED BY <1>3, <2>1, <2>2, ReceiverFrame DEF Storing, RecvConnect, Arrives, SendAck, EnterP2P
<1> QED BY <1>2, <1>3 DEF Owned

\* Every entry has an owner, a client that was introduced, and no other bytes than its.
LEMMA Owner ==
    ASSUME IInv, NEW c \in Clients
    PROVE  /\ \A k \in DOMAIN p2p_clients[c] : \E d \in Clients : Owned(c, k, d) /\ Notified(c, d)
           /\ \A k \in DOMAIN p2p_clients[c] : \A d \in Clients : Owned(c, k, d)
                 => \A b \in Byte : p2p_clients[c][k][b] \in {d, Zero}
<1>1. ASSUME NEW k \in DOMAIN p2p_clients[c]
      PROVE  \E d \in Clients : Owned(c, k, d) /\ Notified(c, d)
  <2>1. CASE k = Len(p2p_clients[c]) /\ Storing(c)
    BY <1>1, <2>1 DEF Owned, Storing, IInv, RecvInv
  <2>2. CASE \E a \in Clients : p2p_clients[c][k] = Whole(a) /\ Complete(c, a)
    BY <1>1, <2>2 DEF Owned, Complete
  <2> QED BY <1>1, <2>1, <2>2 DEF IInv, EntryInv
<1>2. ASSUME NEW k \in DOMAIN p2p_clients[c], NEW d \in Clients, Owned(c, k, d), NEW b \in Byte
      PROVE  p2p_clients[c][k][b] \in {d, Zero}
  <2>1. CASE p2p_clients[c][k] = Whole(d)
    BY <1>2, <2>1 DEF Whole
  <2>2. CASE k = Len(p2p_clients[c]) /\ Storing(c) /\ receiver[c].src = d
    <3>1. p2p_clients[c][k] = Prefix(d, receiver[c].byte - 1)
      BY <2>2 DEF Storing, IInv, RecvInv
    <3> QED BY <1>2, <3>1 DEF Prefix
  <2> QED BY <1>2, <2>1, <2>2 DEF Owned
<1> QED BY <1>1, <1>2

LEMMA SendStep == ASSUME IInv, [Next]_vars PROVE SendInv'
<1> DEFINE Mode(c) == /\ status_machine[c] = "MESSAGE" => LoggedIn(c)
                      /\ status_machine[c] = "P2P_MESSAGE" => Linked(c)
           Place(c) == /\ sender[c].at # "scanf" => \E d \in Clients : Reads(c, d)
                       /\ sender[c].at = "read" => sender[c].byte \in Byte
                       /\ sender[c].at = "send" => sender[c].byte = KING_CLIENT_ADDR_LENGTH + 1
<1> SUFFICES ASSUME NEW c \in Clients PROVE Mode(c)' /\ Place(c)'
  BY DEF SendInv, Byte
<1>1. /\ status_machine \in [Clients -> {"LOGIN", "MESSAGE", "P2P_MESSAGE"}]
      /\ sender \in [Clients -> Sender] /\ p2p_clients \in [Clients -> Seq(Address)]
  BY DEF IInv, TypeOK
<1>2. Linked(c) => Linked(c)'
  <2>1. ASSUME NEW a \in Clients, 1 \in DOMAIN p2p_clients[c], p2p_clients[c][1] = Whole(a)
        PROVE  1 \in DOMAIN p2p_clients'[c] /\ p2p_clients'[c][1] = Whole(a)
    BY <2>1, EntryKept
  <2> QED BY <2>1 DEF Linked, Whole, Byte
<1>3. LoggedIn(c) => LoggedIn(c)'
  BY NetGrows, Lasting
<1>4. Mode(c) /\ Place(c)
  BY DEF IInv, SendInv
<1>5. status_machine'[c] = status_machine[c] => Mode(c)'
  BY <1>2, <1>3, <1>4
<1>6. ASSUME sender'[c] = sender[c] PROVE Place(c)'
  <2>1. ASSUME NEW d \in Clients, Reads(c, d) PROVE Reads(c, d)'
    <3>1. Owned(c, sender[c].now_count, d)' /\ Notified(c, d)'
      <4>1. Notified(c, d)'
        BY <2>1, NetGrows, Lasting DEF Reads
      <4>2. PICK n : n = sender[c].now_count
        OBVIOUS
      <4>3. Owned(c, n, d)'
        BY <2>1, <4>2, OwnedKept DEF Reads
      <4> QED BY <1>6, <4>1, <4>2, <4>3 DEF Owned
    <3>2. sender[c].now_count = 1 => p2p_clients'[c][1] = Whole(d)
      BY <2>1, EntryKept DEF Reads, Owned
    <3> QED BY <1>6, <2>1, <3>1, <3>2 DEF Reads
  <2> QED BY <1>4, <1>6, <2>1
<1>7. ASSUME NEW x \in Clients, NEW m \in net, RecvLoginAck(x, m) PROVE Mode(c)' /\ Place(c)'
  <2>1. CASE x = c
    <3>1. LoggedIn(c) /\ status_machine'[c] = "MESSAGE" /\ sender'[c] = sender[c]
      BY <1>1, <1>7, <2>1 DEF RecvLoginAck, Arrives, LoggedIn
    <3> QED BY <1>3, <1>6, <3>1
  <2>2. CASE x # c
    BY <1>1, <1>5, <1>6, <1>7, <2>2 DEF RecvLoginAck
  <2> QED BY <2>1, <2>2
<1>8. ASSUME NEW x \in Clients, EnterP2P(x) PROVE Mode(c)' /\ Place(c)'
  <2>1. CASE x = c
    <3>1. status_machine'[c] = "P2P_MESSAGE" /\ sender'[c] = sender[c] /\ receiver[c].at = "mode"
      BY <1>1, <1>8, <2>1 DEF EnterP2P
    <3>2. 1 \in DOMAIN p2p_clients[c] /\ ~ Storing(c)
      <4>1. Len(p2p_clients[c]) >= 1 /\ p2p_clients[c] \in Seq(Address)
        BY <1>1, <3>1 DEF IInv, RecvInv
      <4> QED BY <3>1, <4>1 DEF Storing
    <3>3. Linked(c)
      BY <3>2 DEF Linked, IInv, EntryInv
    <3> QED BY <1>2, <1>6, <3>1, <3>3
  <2>2. CASE x # c
    BY <1>1, <1>5, <1>6, <1>8, <2>2 DEF EnterP2P
  <2> QED BY <2>1, <2>2
<1>9. ASSUME NEW x \in Clients, ReadCount(x) PROVE Mode(c)' /\ Place(c)'
  <2>1. CASE x = c
    <3>1. /\ status_machine'[c] = status_machine[c] /\ status_machine[c] = "P2P_MESSAGE"
          /\ UNCHANGED <<p2p_clients, receiver, net>>
          /\ sender'[c] = [at |-> "read", now_count |-> Len(p2p_clients[c]), byte |-> 1, c_addr |-> Whole(Zero)]
      BY <1>1, <1>9, <2>1 DEF ReadCount
    <3>2. PICK n : n = Len(p2p_clients[c])
      OBVIOUS
    <3>3. /\ sender'[c].at = "read" /\ sender'[c].byte = 1 /\ sender'[c].now_count = n
          /\ sender'[c].c_addr = Whole(Zero)
      BY <3>1, <3>2
    <3>4. Linked(c) /\ n \in DOMAIN p2p_clients[c]
      BY <1>1, <1>4, <3>1, <3>2 DEF Linked
    <3>5. PICK d \in Clients : /\ Owned(c, n, d) /\ Notified(c, d)
                               /\ n = 1 => p2p_clients[c][1] = Whole(d)
      <4>1. CASE n = 1
        <5>1. PICK a \in Clients : p2p_clients[c][1] = Whole(a)
          BY <3>4 DEF Linked
        <5>2. ~ Storing(c)
          <6>1. ASSUME Storing(c) PROVE FALSE
            <7>1. /\ receiver[c].src \in Clients /\ receiver[c].byte \in Byte
                  /\ p2p_clients[c][1] = Prefix(receiver[c].src, receiver[c].byte - 1)
              BY <3>2, <4>1, <6>1 DEF Storing, IInv, RecvInv
            <7> QED BY <5>1, <7>1, PartialNotWhole
          <6> QED BY <6>1
        <5>3. PICK e \in Clients : p2p_clients[c][1] = Whole(e) /\ Complete(c, e)
          BY <3>4, <4>1, <5>2 DEF IInv, EntryInv
        <5> QED BY <3>4, <4>1, <5>3 DEF Owned, Complete
      <4>2. CASE n # 1
        BY <3>4, <4>2, Owner
      <4> QED BY <4>1, <4>2
    <3>6. Owned(c, n, d)' /\ Notified(c, d)'
      BY <3>1, <3>5, OwnedKept DEF Notified
    <3>7. \A b \in Byte : Whole(Zero)[b] \in {d, Zero} /\ ~(b < 1)
      BY P2PAssumption DEF Whole, Byte
    <3>8. Reads(c, d)'
      BY <3>1, <3>3, <3>5, <3>6, <3>7 DEF Reads, Owned
    <3>9. 1 \in Byte
      BY P2PAssumption DEF Byte
    <3> QED BY <1>5, <3>1, <3>3, <3>8, <3>9
  <2>2. CASE x # c
    BY <1>1, <1>5, <1>6, <1>9, <2>2 DEF ReadCount
  <2> QED BY <2>1, <2>2
<1>10. ASSUME NEW x \in Clients, ReadByte(x) PROVE Mode(c)' /\ Place(c)'
  <2>1. CASE x = c
    <3>1. status_machine'[c] = status_machine[c] /\ UNCHANGED <<p2p_clients, receiver, net>>
      BY <1>10 DEF ReadByte
    <3>2. PICK d \in Clients : Reads(c, d)
      BY <1>4, <1>10, <2>1 DEF ReadByte
    <3>3. PICK b \in Byte, n \in DOMAIN p2p_clients[c] : b = sender[c].byte /\ n = sender[c].now_count
      BY <1>10, <2>1, ReadFacts
    <3>4. /\ sender'[c].now_count = n /\ sender'[c].byte = b + 1
          /\ sender'[c].at = IF b < KING_CLIENT_ADDR_LENGTH THEN "read" ELSE "send"
          /\ sender'[c].c_addr = [sender[c].c_addr EXCEPT ![b] = p2p_clients[c][n][b]]
      BY <1>10, <2>1, <3>3, ReadFacts
    <3>5. p2p_clients[c][n][b] \in {d, Zero} /\ (n = 1 => p2p_clients[c][n][b] = d)
      <4>1. p2p_clients[c][n][b] \in {d, Zero}
        BY <3>2, <3>3, Owner DEF Reads
      <4> QED BY <3>2, <3>3, <4>1 DEF Reads, Whole
    <3>6. DOMAIN sender[c].c_addr = Byte
      BY <1>1 DEF Sender, Address
    <3>7. \A y \in Byte : y < b + 1 => y = b \/ y < b
      BY DEF Byte
    <3>8. /\ \A y \in Byte : sender'[c].c_addr[y] \in {d, Zero}
          /\ n = 1 => \A y \in Byte : y < sender'[c].byte => sender'[c].c_addr[y] = d
      BY <3>2, <3>3, <3>4, <3>5, <3>6, <3>7 DEF Reads
    <3>9. Owned(c, n, d)' /\ Notified(c, d)'
      BY <3>1, <3>2, <3>3, OwnedKept DEF Notified, Reads
    <3>10. Reads(c, d)'
      BY <3>1, <3>2, <3>3, <3>4, <3>8, <3>9 DEF Reads, Owned
    <3>11. b < KING_CLIENT_ADDR_LENGTH => b + 1 \in Byte
      BY P2PAssumption DEF Byte
    <3>12. ~(b < KING_CLIENT_ADDR_LENGTH) => b + 1 = KING_CLIENT_ADDR_LENGTH + 1
      BY P2PAssumption DEF Byte
    <3> QED BY <1>5, <3>1, <3>4, <3>10, <3>11, <3>12
  <2>2. CASE x # c
    BY <1>1, <1>5, <1>6, <1>10, <2>2 DEF ReadByte
  <2> QED BY <2>1, <2>2
<1>11. ASSUME NEW x \in Clients, SendToPeer(x) PROVE Mode(c)' /\ Place(c)'
  <2>1. CASE x = c
    <3>1. sender'[c].at = "scanf" /\ status_machine'[c] = status_machine[c]
      BY <1>1, <1>11, <2>1 DEF SendToPeer, Typing
    <3> QED BY <1>5, <3>1
  <2>2. CASE x # c
    BY <1>1, <1>5, <1>6, <1>11, <2>2 DEF SendToPeer
  <2> QED BY <2>1, <2>2
<1>12. CASE UNCHANGED <<status_machine, sender>>
  BY <1>5, <1>6, <1>12
<1> HIDE DEF Mode, Place
<1> QED
  BY <1>7, <1>8, <1>9, <1>10, <1>11, <1>12
     DEF Next, vars, ServerLogin, ServerConnect, RecvNotify, RecvConnect, StoreByte, SendAck,
         king_send_login, king_send_connect
-----------------------------------------------------------------------------
LEMMA InitHolds == ASSUME Init PROVE IInv
<1>1. TypeOK
  BY P2PAssumption, Initials DEF Init, TypeOK, ZeroRow, Row
<1>2. NetInv /\ RecvInv /\ EntryInv /\ SendInv
  BY DEF Init, NetInv, RecvInv, EntryInv, SendInv, Waiting, Typing
<1> QED BY <1>1, <1>2 DEF IInv

\* Every step of every thread, with any datagram arriving at any time, keeps the
\* invariant.
THEOREM Invariant == Spec => []IInv
<1>1. Init => IInv
  BY InitHolds
<1>2. IInv /\ [Next]_vars => IInv'
  BY TypeStep, NetStep, RecvStep, EntryStep, SendStep DEF IInv
<1> QED BY <1>1, <1>2, PTL DEF Spec

\* The server's table, the datagrams and the clients' variables keep their types.
THEOREM TypeCorrect == Spec => []TypeOK
<1>1. IInv => TypeOK
  BY DEF IInv
<1> QED BY <1>1, Invariant, PTL

LEMMA PeerComplete == ASSUME IInv, NEW c \in Clients, NEW d \in Peers(c) PROVE Complete(c, d)
<1>1. PICK k \in DOMAIN p2p_clients[c] : p2p_clients[c][k] = Whole(d) /\ d \in Clients
  BY DEF Peers
<1>2. ASSUME k = Len(p2p_clients[c]), Storing(c) PROVE FALSE
  <2>1. /\ receiver[c].src \in Clients /\ receiver[c].byte \in Byte
        /\ p2p_clients[c][k] = Prefix(receiver[c].src, receiver[c].byte - 1)
    BY <1>2 DEF Storing, IInv, RecvInv
  <2> QED BY <1>1, <2>1, PartialNotWhole
<1>3. PICK a \in Clients : p2p_clients[c][k] = Whole(a) /\ Complete(c, a)
  BY <1>2 DEF IInv, EntryInv
<1>4. a = d
  <2>1. 1 \in Byte
    BY P2PAssumption DEF Byte
  <2>2. Whole(a)[1] = a /\ Whole(d)[1] = d
    BY <2>1 DEF Whole
  <2> QED BY <1>1, <1>3, <2>2
<1> QED BY <1>3, <1>4

\* No client takes another for its peer that the server did not introduce to it at
\* the request of a client that was logged in.
THEOREM PeersIntroduced == Spec => []Introduced
<1>1. ASSUME IInv PROVE Introduced
  <2> SUFFICES ASSUME NEW c \in Clients, NEW d \in Peers(c)
               PROVE  /\ \E m \in net : m.type = "NOTIFY_REQ" /\ {m.dst, m.about} = {c, d}
                      /\ \E m, n \in net : m.type = "CONNECT_REQ" /\ n.type = "LOGIN_ACK" /\ n.dst = m.src
    BY DEF Introduced
  <2>1. Notified(c, d)
    BY <1>1, PeerComplete DEF Complete
  <2>2. PICK m \in net : m.type = "NOTIFY_REQ" /\ {m.dst, m.about} = {c, d}
    BY <2>1 DEF Notified
  <2>3. Asked
    BY <1>1, <2>2 DEF IInv, NetInv
  <2> QED BY <2>2, <2>3 DEF Asked, LoggedIn
<1> QED BY <1>1, Invariant, PTL

\* A client is a peer of its peers, or the acknowledgement that makes it one has
\* been sent or is about to be: the two sides differ only when a datagram is lost.
THEOREM PeersMutual == Spec => []Mutual
<1>1. ASSUME IInv PROVE Mutual
  <2> SUFFICES ASSUME NEW c \in Clients, NEW d \in Peers(c)
               PROVE  \/ c \in Peers(d)
                      \/ Msg("P2P_CONNECT_ACK", c, d, client_selfid[c]) \in net
                      \/ receiver[c].at = "ack" /\ receiver[c].src = d
    BY DEF Mutual
  <2>1. HasPeer(d, c) \/ Acked(c, d) \/ (receiver[c].at = "ack" /\ receiver[c].src = d)
    BY <1>1, PeerComplete DEF Complete
  <2>2. HasPeer(d, c) => c \in Peers(d)
    BY DEF HasPeer, Peers
  <2> QED BY <2>1, <2>2 DEF Acked
<1> QED BY <1>1, Invariant, PTL

\* Whatever the receiving thread does between the sending thread's reads of the count
\* and of each byte: the entry exists, the address used has no bytes but those of one
\* client that was introduced and zeros, and that of the first peer is read in full.
THEOREM SenderIsSafe == Spec => []SenderSafe
<1>1. ASSUME IInv PROVE SenderSafe
  <2> SUFFICES ASSUME NEW c \in Clients, sender[c].at # "scanf"
               PROVE  /\ sender[c].now_count \in 1..Len(p2p_clients[c])
                      /\ sender[c].at = "send" =>
                           \E d \in Clients :
                              /\ \E m \in net : m.type = "NOTIFY_REQ" /\ {m.dst, m.about} = {c, d}
                              /\ \A b \in Byte : sender[c].c_addr[b] \in {d, Zero}
                              /\ sender[c].now_count = 1 => sender[c].c_addr = Whole(d)
    BY DEF SenderSafe
  <2>1. PICK d \in Clients : Reads(c, d)
    BY <1>1 DEF IInv, SendInv
  <2>2. sender[c].now_count \in 1..Len(p2p_clients[c])
    <3>1. p2p_clients[c] \in Seq(Address) /\ sender[c].now_count \in DOMAIN p2p_clients[c]
      BY <1>1, <2>1 DEF IInv, TypeOK, Reads, Owned
    <3> QED BY <3>1
  <2>3. ASSUME sender[c].at = "send", sender[c].now_count = 1 PROVE sender[c].c_addr = Whole(d)
    <3>1. \A b \in Byte : b < sender[c].byte
      BY <1>1, <2>3, P2PAssumption DEF IInv, SendInv, Byte
    <3>2. \A b \in Byte : sender[c].c_addr[b] = d
      BY <2>1, <2>3, <3>1 DEF Reads
    <3>3. sender[c].c_addr \in Address
      BY <1>1 DEF IInv, TypeOK, Sender
    <3> QED BY <3>2, <3>3 DEF Address, Whole
  <2> QED BY <2>1, <2>2, <2>3 DEF Reads, Notified
<1> QED BY <1>1, Invariant, PTL
=============================================================================
