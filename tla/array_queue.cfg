SPECIFICATION Spec
CONSTANTS
    t1 = t1
    t2 = t2
    t3 = t3
    a = a
    b = b
    Threads = {t1, t2, t3}
    Data = {a, b}
    Zero = a
    Q_SIZE = 3
    IndexMod = 16
    MaxEnqueues = 4
SYMMETRY ThreadSymmetry
INVARIANTS
    TypeOK
    IndexOrder
    Fifo
    ReservationsOwned
    CountAgrees
    IInv
CHECK_DEADLOCK FALSE
PROPERTIES
    ImplementsFifo
