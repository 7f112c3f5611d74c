CONSTANTS
    Producers = {p1, p2}
    Consumers = {c1, c2}
    VersionMod = 4
    MaxEnqueues = 3
SPECIFICATION Spec
INVARIANTS TypeOK ClaimsInOrder Linked OnePlace MovedIntact
PROPERTIES Drained
