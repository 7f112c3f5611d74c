------------------------- MODULE ArrayLockFreeQueue -------------------------
(***************************************************************************)
(* The lock-free ring buffer of myvsc/cas_queue: ArrayLockFreeQueue.h and  *)
(* ArrayLockFreeQueueImp.h.  Any thread may call enqueue or dequeue; one   *)
(* action is one access to a shared member (a volatile read, a CAS, an     *)
(* atomic add or the plain access to a slot), with the local computation   *)
(* that follows it.                                                        *)
(*                                                                         *)
(* Accesses are sequentially consistent: the indices are volatile, every   *)
(* update of them is a full barrier (__sync builtins), and the element     *)
(* type of the repository's program is int, so a slot that is read while   *)
(* it is written holds the old or the new value.                           *)
(***************************************************************************)
EXTENDS Integers, Sequences, FiniteSets

CONSTANTS Threads,      \* the callers
          Data,         \* ELEM_T
          Zero,         \* what static storage puts into the slots
          Q_SIZE,       \* template parameter: number of slots
          IndexMod,     \* 2^w: QUEUE_INT is unsigned and wraps there
          MaxEnqueues   \* bound: reservations made in one behaviour

ASSUME QueueAssumption == /\ Q_SIZE \in Nat \ {0}
                          /\ IndexMod \in Nat \ {0}
                          /\ MaxEnqueues \in Nat
                          /\ Zero \in Data

VARIABLES m_thequeue, m_count, m_writeIndex, m_readIndex, m_maximumReadIndex,
          pc,           \* where each thread is in enqueue or dequeue
          cw,           \* currentWriteIndex, of each thread
          cr,           \* currentReadIndex
          data,         \* a_data: the argument, or what dequeue has read
          log,          \* history: the values in the order they reserved a slot
          out           \* history: the values in the order they were dequeued

shared == <<m_thequeue, m_count, m_writeIndex, m_readIndex, m_maximumReadIndex>>
locals == <<cw, cr, data>>
vars   == <<shared, pc, locals, log, out>>

Holding == {"e_store", "e_commit"}        \* owns a slot that is not committed

PC == Holding \cup
      {"idle", "e_readW", "e_readR", "e_reserve", "e_count",
       "d_readR", "d_readM", "d_load", "d_take", "d_count"}
-----------------------------------------------------------------------------
countToIndex(a_count) == a_count % Q_SIZE

Inc(i) == (i + 1) % IndexMod              \* QUEUE_INT addition

Init == /\ m_thequeue = [i \in 0..(Q_SIZE - 1) |-> Zero]
        /\ m_count = 0
        /\ m_writeIndex = 0
        /\ m_readIndex = 0
        /\ m_maximumReadIndex = 0
        /\ pc = [t \in Threads |-> "idle"]
        /\ cw = [t \in Threads |-> 0]
        /\ cr = [t \in Threads |-> 0]
        /\ data = [t \in Threads |-> Zero]
        /\ log = <<>>
        /\ out = <<>>

Goto(t, l) == pc' = [pc EXCEPT ![t] = l] /\ UNCHANGED locals

\* The locals of a call end with it.
Return(t) == /\ pc' = [pc EXCEPT ![t] = "idle"]
             /\ cw' = [cw EXCEPT ![t] = 0]
             /\ cr' = [cr EXCEPT ![t] = 0]
             /\ data' = [data EXCEPT ![t] = Zero]
-----------------------------------------------------------------------------
(* bool enqueue(const ELEM_T &a_data) *)

EnqueueCall(t, v) ==
    /\ pc[t] = "idle"
    /\ pc' = [pc EXCEPT ![t] = "e_readW"]
    /\ data' = [data EXCEPT ![t] = v]
    /\ UNCHANGED <<shared, cw, cr, log, out>>

EnqReadWriteIndex(t) ==
    /\ pc[t] = "e_readW"
    /\ pc' = [pc EXCEPT ![t] = "e_readR"]
    /\ cw' = [cw EXCEPT ![t] = m_writeIndex]
    /\ UNCHANGED <<shared, cr, data, log, out>>

LooksFull_NoGap(w, r) == w - r >= Q_SIZE       \* mutant: no slot kept free

\* The full test, on the write index read before and the read index read now.
LooksFull(w, r) == countToIndex(Inc(w)) = countToIndex(r)

\* enqueue returns false, or goes on to reserve an index.
EnqReadReadIndex(t) ==
    /\ pc[t] = "e_readR"
    /\ \/ LooksFull(cw[t], m_readIndex) /\ Return(t)
       \/ /\ ~LooksFull(cw[t], m_readIndex)
          /\ pc' = [pc EXCEPT ![t] = "e_reserve"]
          /\ cr' = [cr EXCEPT ![t] = m_readIndex]
          /\ UNCHANGED <<cw, data>>
    /\ UNCHANGED <<shared, log, out>>

EnqReserve_Blind(t) ==                         \* mutant: a store, not a CAS
    /\ pc[t] = "e_reserve"
    /\ Len(log) < MaxEnqueues
    /\ m_writeIndex' = Inc(cw[t])
    /\ log' = Append(log, data[t])
    /\ Goto(t, "e_store")
    /\ UNCHANGED <<m_thequeue, m_count, m_readIndex, m_maximumReadIndex, out>>

\* CAS(&m_writeIndex, currentWriteIndex, currentWriteIndex + 1), or once more.
EnqReserve(t) ==
    /\ pc[t] = "e_reserve"
    /\ \/ /\ m_writeIndex = cw[t]
          /\ Len(log) < MaxEnqueues
          /\ m_writeIndex' = Inc(cw[t])
          /\ log' = Append(log, data[t])
          /\ Goto(t, "e_store")
       \/ /\ m_writeIndex # cw[t]
          /\ Goto(t, "e_readW")
          /\ UNCHANGED <<m_writeIndex, log>>
    /\ UNCHANGED <<m_thequeue, m_count, m_readIndex, m_maximumReadIndex, out>>

EnqStore(t) ==
    /\ pc[t] = "e_store"
    /\ m_thequeue' = [m_thequeue EXCEPT ![countToIndex(cw[t])] = data[t]]
    /\ Goto(t, "e_commit")
    /\ UNCHANGED <<m_count, m_writeIndex, m_readIndex, m_maximumReadIndex, log, out>>

EnqCommit_Blind(t) ==                          \* mutant: commits out of order
    /\ pc[t] = "e_commit"
    /\ m_maximumReadIndex' = Inc(cw[t])
    /\ Goto(t, "e_count")
    /\ UNCHANGED <<m_thequeue, m_count, m_writeIndex, m_readIndex, log, out>>

\* The CAS on m_maximumReadIndex.  While it fails the thread yields and tries
\* again, which changes nothing.
EnqCommit(t) ==
    /\ pc[t] = "e_commit"
    /\ m_maximumReadIndex = cw[t]
    /\ m_maximumReadIndex' = Inc(cw[t])
    /\ Goto(t, "e_count")
    /\ UNCHANGED <<m_thequeue, m_count, m_writeIndex, m_readIndex, log, out>>

\* AtomicAdd, and enqueue returns true.
EnqCount(t) ==
    /\ pc[t] = "e_count"
    /\ m_count' = Inc(m_count)
    /\ Return(t)
    /\ UNCHANGED <<m_thequeue, m_writeIndex, m_readIndex, m_maximumReadIndex, log, out>>
-----------------------------------------------------------------------------
(* bool dequeue(ELEM_T &a_data), which is also all of try_dequeue *)

DequeueCall(t) ==
    /\ pc[t] = "idle"
    /\ Goto(t, "d_readR")
    /\ UNCHANGED <<shared, log, out>>

DeqReadReadIndex(t) ==
    /\ pc[t] = "d_readR"
    /\ pc' = [pc EXCEPT ![t] = "d_readM"]
    /\ cr' = [cr EXCEPT ![t] = m_readIndex]
    /\ UNCHANGED <<shared, cw, data, log, out>>

\* The empty test, on the read index read before and the limit read now.
LooksEmpty(r, m) == countToIndex(r) = countToIndex(m)

DeqReadMaximum_WriteIndex(t) ==                \* mutant: the limit is m_writeIndex
    /\ pc[t] = "d_readM"
    /\ IF LooksEmpty(cr[t], m_writeIndex) THEN Return(t) ELSE Goto(t, "d_load")
    /\ UNCHANGED <<shared, log, out>>

\* dequeue returns false, or goes on to read the slot.
DeqReadMaximum(t) ==
    /\ pc[t] = "d_readM"
    /\ IF LooksEmpty(cr[t], m_maximumReadIndex) THEN Return(t) ELSE Goto(t, "d_load")
    /\ UNCHANGED <<shared, log, out>>

DeqLoad(t) ==
    /\ pc[t] = "d_load"
    /\ pc' = [pc EXCEPT ![t] = "d_take"]
    /\ data' = [data EXCEPT ![t] = m_thequeue[countToIndex(cr[t])]]
    /\ UNCHANGED <<shared, cw, cr, log, out>>

\* CAS(&m_readIndex, currentReadIndex, currentReadIndex + 1), or once more.
DeqTake(t) ==
    /\ pc[t] = "d_take"
    /\ \/ /\ m_readIndex = cr[t]
          /\ m_readIndex' = Inc(cr[t])
          /\ out' = Append(out, data[t])
          /\ Goto(t, "d_count")
       \/ /\ m_readIndex # cr[t]
          /\ Goto(t, "d_readR")
          /\ UNCHANGED <<m_readIndex, out>>
    /\ UNCHANGED <<m_thequeue, m_count, m_writeIndex, m_maximumReadIndex, log>>

DeqCount_Signed(t) ==                          \* mutant: m_count is a signed int
    /\ pc[t] = "d_count"
    /\ m_count' = m_count - 1
    /\ Return(t)
    /\ UNCHANGED <<m_thequeue, m_writeIndex, m_readIndex, m_maximumReadIndex, log, out>>

DeqCount_Lost(t) ==                            \* mutant: no AtomicSub
    /\ pc[t] = "d_count"
    /\ Return(t)
    /\ UNCHANGED <<shared, log, out>>

\* AtomicSub, and dequeue returns true with the value in a_data.
DeqCount(t) ==
    /\ pc[t] = "d_count"
    /\ m_count' = (m_count - 1) % IndexMod
    /\ Return(t)
    /\ UNCHANGED <<m_thequeue, m_writeIndex, m_readIndex, m_maximumReadIndex, log, out>>
-----------------------------------------------------------------------------
EnqStep(t) == \/ EnqReadWriteIndex(t) \/ EnqReadReadIndex(t) \/ EnqReserve(t)
              \/ EnqStore(t) \/ EnqCommit(t) \/ EnqCount(t)

DeqStep(t) == \/ DeqReadReadIndex(t) \/ DeqReadMaximum(t) \/ DeqLoad(t)
              \/ DeqTake(t) \/ DeqCount(t)

Next == \E t \in Threads : \/ \E v \in Data : EnqueueCall(t, v)
                           \/ DequeueCall(t)
                           \/ EnqStep(t)
                           \/ DeqStep(t)

Spec == Init /\ [][Next]_vars
-----------------------------------------------------------------------------
(* Properties *)

\* The indices and the counter stay unsigned numbers of QUEUE_INT's width (the
\* counter passes through 2^w - 1 when a dequeue is counted before the enqueue
\* it follows), and every local holds what its declaration allows.
TypeOK ==
    /\ m_thequeue \in [0..(Q_SIZE - 1) -> Data]
    /\ m_count \in 0..(IndexMod - 1)
    /\ m_writeIndex \in 0..(IndexMod - 1)
    /\ m_readIndex \in 0..(IndexMod - 1)
    /\ m_maximumReadIndex \in 0..(IndexMod - 1)
    /\ pc \in [Threads -> PC]
    /\ cw \in [Threads -> 0..(IndexMod - 1)]
    /\ cr \in [Threads -> 0..(IndexMod - 1)]
    /\ data \in [Threads -> Data]
    /\ log \in Seq(Data)
    /\ out \in Seq(Data)

\* The hypothesis under which the indices never wrap: fewer enqueues than 2^w - 1.
NoWrap == MaxEnqueues < IndexMod - 1

\* The three indices keep their order and the writers never lap the readers:
\* the full test of enqueue works although both indices it compares may be
\* stale by the time the CAS is made.
IndexOrder == /\ m_readIndex <= m_maximumReadIndex
              /\ m_maximumReadIndex <= m_writeIndex
              /\ m_writeIndex - m_readIndex < Q_SIZE

\* What the readers got is, in this order, what the writers reserved slots for:
\* nothing is lost, duplicated, reordered or read before it was stored,
\* although a slot is read before it is known whether the read counts.
Fifo == /\ Len(out) <= Len(log)
        /\ \A i \in 1..Len(out) : out[i] = log[i]

\* Every reserved index that is not committed is owned by one thread, which is
\* on its way to commit it: the readers' limit cannot get stuck behind an index
\* nobody will commit.
ReservationsOwned ==
    /\ \A i \in m_maximumReadIndex..(m_writeIndex - 1) :
          \E t \in Threads : /\ pc[t] \in Holding
                              /\ cw[t] = i
                              /\ \A u \in Threads :
                                    pc[u] \in Holding /\ cw[u] = i => u = t

\* m_count lags behind the indices by exactly the operations that have made
\* their CAS and not yet their atomic add, modulo 2^w.
CountAgrees ==
    m_count = ( (m_maximumReadIndex - m_readIndex)
                - Cardinality({t \in Threads : pc[t] = "e_count"})
                + Cardinality({t \in Threads : pc[t] = "d_count"}) ) % IndexMod

\* The queue implements a bounded FIFO of Q_SIZE - 1 places: the values inside
\* are the committed ones, a Put happens at the CAS on m_maximumReadIndex and a
\* Get at the CAS on m_readIndex.
Committed == SubSeq(log, m_readIndex + 1, m_maximumReadIndex)

Fifos == INSTANCE BoundedFifo WITH Values <- Data, Capacity <- Q_SIZE - 1,
                                   items <- Committed

ImplementsFifo == Fifos!Spec
-----------------------------------------------------------------------------
(* The inductive invariant behind the theorems, for indices that do not wrap *)

\* The indices count what the histories record.
IndicesCount == /\ m_writeIndex = Len(log)
                /\ m_readIndex = Len(out)
                /\ Len(log) <= MaxEnqueues

\* A committed slot holds its value until it is read.
CommittedStored ==
    \A i \in m_readIndex..(m_maximumReadIndex - 1) :
        m_thequeue[countToIndex(i)] = log[i + 1]

\* What a thread inside enqueue knows about the indices it has read.
EnqueueKnows(t) ==
    /\ pc[t] \in {"e_readR", "e_reserve"} => cw[t] <= m_writeIndex
    /\ pc[t] = "e_reserve" => /\ cr[t] <= m_readIndex
                              /\ cr[t] <= cw[t] => cw[t] - cr[t] < Q_SIZE - 1
    /\ pc[t] \in Holding => /\ m_maximumReadIndex <= cw[t]
                             /\ cw[t] < m_writeIndex
                             /\ data[t] = log[cw[t] + 1]
    /\ pc[t] = "e_commit" => m_thequeue[countToIndex(cw[t])] = data[t]

\* What a thread inside dequeue knows: the value it has read is the oldest one
\* if nobody has moved the read index since.
DequeueKnows(t) ==
    /\ pc[t] \in {"d_readM", "d_load", "d_take"} => cr[t] <= m_readIndex
    /\ pc[t] \in {"d_load", "d_take"} => cr[t] < m_maximumReadIndex
    /\ pc[t] = "d_take" => (m_readIndex = cr[t] => data[t] = log[cr[t] + 1])

OneOwner ==
    \A t, u \in Threads :
        pc[t] \in Holding /\ pc[u] \in Holding /\ cw[t] = cw[u] => t = u

\* The inductive invariant: what the indices, the slots and every thread's
\* locals have to do with each other.
IInv == /\ TypeOK
        /\ IndicesCount
        /\ IndexOrder
        /\ Fifo
        /\ CommittedStored
        /\ \A t \in Threads : EnqueueKnows(t) /\ DequeueKnows(t)
        /\ OneOwner
=============================================================================
