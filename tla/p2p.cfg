CONSTANTS
    c1 = c1
    c2 = c2
    Clients = {c1, c2}
    Ids = {1, 2}
    client_selfid <- MCselfid
    Server = server
    Zero = zero
    KING_CLIENT_MAX = 4
    KING_CLIENT_ADDR_LENGTH = 2
    MaxPeers = 2
    MaxNotifies = 1
SPECIFICATION Spec
CHECK_DEADLOCK FALSE
INVARIANTS
    TypeOK
    Introduced
    Mutual
    SenderSafe
