SPECIFICATION BenchSpec
CONSTANTS
    p1 = p1
    p2 = p2
    c1 = c1
    c2 = c2
    Producers = {p1, p2}
    Consumers = {c1, c2}
    Threads <- MCThreads
    Data <- MCData
    MaxEnqueues <- MCEnqueues
    Zero = 0
    Q_SIZE = 2
    IndexMod = 8
    s_queue_item_num = 2
INVARIANTS
    NothingLeftBehind
PROPERTIES
    Finishes
    OwnValuesGrow
