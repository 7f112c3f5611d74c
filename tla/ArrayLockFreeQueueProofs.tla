---------------------- MODULE ArrayLockFreeQueueProofs ----------------------
(***************************************************************************)
(* ArrayLockFreeQueue is a FIFO queue for every set of threads, every      *)
(* element type and every Q_SIZE, as long as fewer than 2^w - 1 values     *)
(* have been enqueued, 2^w being the range of QUEUE_INT.                   *)
(***************************************************************************)
EXTENDS ArrayLockFreeQueue, SequenceTheorems, FiniteSetTheorems, TLAPS
-----------------------------------------------------------------------------
(* Histories, and arithmetic of % *)

\* What appending to a history does.
LEMMA Appended ==
    ASSUME NEW S, NEW s \in Seq(S), NEW e \in S
    PROVE  /\ Append(s, e) \in Seq(S)
           /\ Len(Append(s, e)) = Len(s) + 1
           /\ \A k \in 1..Len(s) : Append(s, e)[k] = s[k]
           /\ Append(s, e)[Len(s) + 1] = e
OBVIOUS

\* A positive multiple of b is at least b.
LEMMA MultipleAtLeast ==
    ASSUME NEW b \in Nat \ {0}, NEW k \in Int, k >= 1
    PROVE  b * k >= b
OBVIOUS

\* What \div and % mean.
LEMMA DivMod ==
    ASSUME NEW a \in Int, NEW b \in Nat \ {0}
    PROVE  /\ a \div b \in Int
           /\ a % b \in 0..(b - 1)
           /\ a = b * (a \div b) + (a % b)
OBVIOUS

\* Quotient and remainder are unique.
LEMMA DivModUnique ==
    ASSUME NEW b \in Nat \ {0}, NEW p \in Int, NEW q \in Int,
           NEW r \in 0..(b - 1), NEW s \in 0..(b - 1),
           b * p + r = b * q + s
    PROVE  r = s
<1>1. b * (p - q) = s - r
  OBVIOUS
<1>2. ~(p - q >= 1)
  <2>. SUFFICES ASSUME p - q >= 1 PROVE FALSE
    OBVIOUS
  <2>1. b * (p - q) >= b
    BY MultipleAtLeast, p - q \in Int
  <2>. QED  BY <1>1, <2>1
<1>3. ~(q - p >= 1)
  <2>. SUFFICES ASSUME q - p >= 1 PROVE FALSE
    OBVIOUS
  <2>1. b * (q - p) >= b
    BY MultipleAtLeast, q - p \in Int
  <2>2. b * (q - p) = r - s
    OBVIOUS
  <2>. QED  BY <2>1, <2>2
<1>. QED  BY <1>2, <1>3

\* Two numbers b apart have the same remainder ...
LEMMA SameRemainder ==
    ASSUME NEW a \in Nat, NEW b \in Nat \ {0}
    PROVE  (a + b) % b = a % b
<1>. DEFINE p == a \div b
            q == (a + b) \div b
            r == a % b
            s == (a + b) % b
<1>1. p \in Int /\ r \in 0..(b - 1) /\ a = b * p + r
  BY DivMod, a \in Int
<1>2. q \in Int /\ s \in 0..(b - 1) /\ a + b = b * q + s
  BY DivMod, a + b \in Int
<1>. SUFFICES r = s
  OBVIOUS
<1>. HIDE DEF p, q, r, s
<1>3. b * (p + 1) + r = b * q + s
  BY <1>1, <1>2
<1>. QED  BY <1>1, <1>2, <1>3, DivModUnique, p + 1 \in Int

\* ... and two different numbers less than b apart have different ones.
LEMMA DifferentRemainder ==
    ASSUME NEW a \in Nat, NEW c \in Nat, NEW b \in Nat \ {0}, a < c, c - a < b
    PROVE  a % b # c % b
<1>. SUFFICES ASSUME a % b = c % b PROVE FALSE
  OBVIOUS
<1>. DEFINE p == a \div b
            q == c \div b
<1>1. p \in Int /\ a % b \in 0..(b - 1) /\ a = b * p + (a % b)
  BY DivMod, a \in Int
<1>2. q \in Int /\ c % b \in 0..(b - 1) /\ c = b * q + (c % b)
  BY DivMod, c \in Int
<1>. HIDE DEF p, q
<1>3. c - a = b * (q - p)
  BY <1>1, <1>2
<1>4. CASE q - p >= 1
  BY <1>3, <1>4, MultipleAtLeast, <1>1, <1>2, q - p \in Int
<1>5. CASE q - p <= 0
  <2>1. b * (q - p) <= 0
    BY <1>1, <1>2, <1>5
  <2>. QED  BY <2>1, <1>3
<1>. QED  BY <1>4, <1>5, <1>1, <1>2
-----------------------------------------------------------------------------
(* The helpers of the queue *)

\* countToIndex names a slot; indices less than Q_SIZE apart name different
\* slots, and indices Q_SIZE apart the same one.
LEMMA SlotOfIndex ==
    /\ \A n \in Nat : countToIndex(n) \in 0..(Q_SIZE - 1)
    /\ \A n \in Nat : countToIndex(n + Q_SIZE) = countToIndex(n)
    /\ \A m, n \in Nat : m < n /\ n - m < Q_SIZE => countToIndex(m) # countToIndex(n)
<1>. Q_SIZE \in Nat \ {0}
  BY QueueAssumption
<1>1. ASSUME NEW n \in Nat
      PROVE  n % Q_SIZE \in 0..(Q_SIZE - 1) /\ (n + Q_SIZE) % Q_SIZE = n % Q_SIZE
  <2>1. n % Q_SIZE \in 0..(Q_SIZE - 1)
    BY DivMod, n \in Int
  <2>2. (n + Q_SIZE) % Q_SIZE = n % Q_SIZE
    BY SameRemainder
  <2>. QED  BY <2>1, <2>2
<1>2. ASSUME NEW m \in Nat, NEW n \in Nat, m < n, n - m < Q_SIZE
      PROVE  m % Q_SIZE # n % Q_SIZE
  BY <1>2, DifferentRemainder
<1>. QED  BY <1>1, <1>2 DEF countToIndex

\* Adding 1 does not wrap below the bound on the number of enqueues.
LEMMA IncIsPlusOne ==
    ASSUME NoWrap
    PROVE  \A n \in 0..MaxEnqueues : Inc(n) = n + 1 /\ Inc(n) \in 0..(IndexMod - 1)
BY QueueAssumption DEF NoWrap, Inc

\* Whatever is added or subtracted, the counter stays in QUEUE_INT's range.
LEMMA CounterInRange ==
    \A n \in 0..(IndexMod - 1) : /\ Inc(n) \in 0..(IndexMod - 1)
                                 /\ (n - 1) % IndexMod \in 0..(IndexMod - 1)
BY QueueAssumption, DivMod DEF Inc
-----------------------------------------------------------------------------
\* The initial state satisfies the inductive invariant.
LEMMA InitIInv == Init => IInv
BY QueueAssumption
   DEF Init, IInv, TypeOK, PC, Holding, IndicesCount, IndexOrder, Fifo,
       CommittedStored, EnqueueKnows, DequeueKnows, OneOwner

\* A step that only moves a thread to a place where it knows nothing yet, and
\* perhaps counts, preserves the inductive invariant.
LEMMA QuietStep ==
    ASSUME IInv, NEW t \in Threads, NEW l \in {"idle", "e_readW", "d_readR"},
           pc' = [pc EXCEPT ![t] = l],
           cw' \in [Threads -> 0..(IndexMod - 1)],
           cr' \in [Threads -> 0..(IndexMod - 1)],
           data' \in [Threads -> Data],
           \A u \in Threads : u # t => /\ cw'[u] = cw[u] /\ cr'[u] = cr[u]
                                       /\ data'[u] = data[u],
           m_count' \in 0..(IndexMod - 1),
           UNCHANGED <<m_thequeue, m_writeIndex, m_readIndex, m_maximumReadIndex, log, out>>
    PROVE  IInv'
<1>1. TypeOK'
  BY DEF IInv, TypeOK, PC, Holding
<1>2. IndicesCount' /\ IndexOrder' /\ Fifo' /\ CommittedStored'
  BY DEF IInv, IndicesCount, IndexOrder, Fifo, CommittedStored
<1>3. ASSUME NEW u \in Threads PROVE EnqueueKnows(u)' /\ DequeueKnows(u)'
  <2>1. CASE u = t
    BY <2>1 DEF IInv, TypeOK, EnqueueKnows, DequeueKnows, Holding
  <2>2. CASE u # t
    BY <2>2 DEF IInv, TypeOK, EnqueueKnows, DequeueKnows, Holding
  <2>. QED  BY <2>1, <2>2
<1>4. OneOwner'
  BY SMTT(30) DEF IInv, TypeOK, OneOwner, Holding
<1>. QED  BY <1>1, <1>2, <1>3, <1>4 DEF IInv

\* So does a return from enqueue or dequeue.
LEMMA ReturnStep ==
    ASSUME IInv, NEW t \in Threads, Return(t),
           m_count' \in 0..(IndexMod - 1),
           UNCHANGED <<m_thequeue, m_writeIndex, m_readIndex, m_maximumReadIndex, log, out>>
    PROVE  IInv'
<1>1. 0 \in 0..(IndexMod - 1) /\ Zero \in Data
  BY QueueAssumption
<1>2. /\ cw' \in [Threads -> 0..(IndexMod - 1)]
      /\ cr' \in [Threads -> 0..(IndexMod - 1)]
      /\ data' \in [Threads -> Data]
  BY <1>1 DEF IInv, TypeOK, Return
<1>3. \A u \in Threads : u # t => /\ cw'[u] = cw[u] /\ cr'[u] = cr[u]
                                  /\ data'[u] = data[u]
  BY DEF IInv, TypeOK, Return
<1>4. pc' = [pc EXCEPT ![t] = "idle"]
  BY DEF Return
<1>. QED  BY <1>2, <1>3, <1>4, QuietStep

\* Every step of every thread preserves the inductive invariant.
LEMMA NextIInv == ASSUME NoWrap, IInv, [Next]_vars PROVE IInv'
<1>. USE QueueAssumption
<1>. USE DEF shared, locals, Goto, Return, PC, Holding
<1>1. ASSUME NEW t \in Threads, NEW v \in Data, EnqueueCall(t, v) PROVE IInv'
  BY <1>1, QuietStep DEF EnqueueCall, IInv, TypeOK
<1>2. ASSUME NEW t \in Threads, DequeueCall(t) PROVE IInv'
  BY <1>2, QuietStep DEF DequeueCall, IInv, TypeOK
<1>3. ASSUME NEW t \in Threads, EnqReadWriteIndex(t) PROVE IInv'
  <2>. USE <1>3 DEF EnqReadWriteIndex
  <2>1. TypeOK'
    BY DEF IInv, TypeOK
  <2>2. IndicesCount' /\ IndexOrder'
    BY DEF IInv, IndicesCount, IndexOrder
  <2>3. Fifo'
    BY DEF IInv, Fifo
  <2>4. CommittedStored'
    BY DEF IInv, CommittedStored
  <2>5. ASSUME NEW u \in Threads PROVE EnqueueKnows(u)'
    BY DEF IInv, TypeOK, EnqueueKnows
  <2>6. ASSUME NEW u \in Threads PROVE DequeueKnows(u)'
    BY DEF IInv, TypeOK, DequeueKnows
  <2>7. OneOwner'
    BY DEF IInv, TypeOK, OneOwner
  <2>. QED  BY <2>1, <2>2, <2>3, <2>4, <2>5, <2>6, <2>7 DEF IInv
<1>4. ASSUME NEW t \in Threads, EnqReadReadIndex(t) PROVE IInv'
  <2>. USE <1>4 DEF EnqReadReadIndex
  <2>0. CASE LooksFull(cw[t], m_readIndex)
    BY <2>0, ReturnStep DEF IInv, TypeOK
  <2>. SUFFICES ASSUME ~LooksFull(cw[t], m_readIndex) PROVE IInv'
    BY <2>0
  <2>1. TypeOK'
    BY DEF IInv, TypeOK
  <2>2. IndicesCount' /\ IndexOrder'
    BY DEF IInv, IndicesCount, IndexOrder
  <2>3. Fifo'
    BY DEF IInv, Fifo
  <2>4. CommittedStored'
    BY DEF IInv, CommittedStored
  <2>5. ASSUME NEW u \in Threads PROVE EnqueueKnows(u)'
    <3>1. cw[t] \in Nat /\ m_readIndex \in Nat /\ cw[t] \in 0..MaxEnqueues
      BY DEF IInv, TypeOK, IndicesCount, EnqueueKnows
    <3>2. countToIndex(cw[t] + 1) # countToIndex(m_readIndex)
      BY <3>1, IncIsPlusOne DEF LooksFull
    <3>3. cw[t] + 1 # m_readIndex + Q_SIZE
      BY <3>1, <3>2, SlotOfIndex
    <3>4. cw[t] - m_readIndex < Q_SIZE
      BY <3>1 DEF IInv, TypeOK, IndexOrder, EnqueueKnows
    <3>. QED  BY <3>1, <3>3, <3>4, SMTT(30) DEF IInv, TypeOK, EnqueueKnows
  <2>6. ASSUME NEW u \in Threads PROVE DequeueKnows(u)'
    BY DEF IInv, TypeOK, DequeueKnows
  <2>7. OneOwner'
    BY DEF IInv, TypeOK, OneOwner
  <2>. QED  BY <2>1, <2>2, <2>3, <2>4, <2>5, <2>6, <2>7 DEF IInv
<1>5. ASSUME NEW t \in Threads, EnqReserve(t) PROVE IInv'
  <2>. USE <1>5 DEF EnqReserve
  <2>0. CASE m_writeIndex # cw[t]
    BY <2>0, QuietStep DEF IInv, TypeOK
  <2>. SUFFICES ASSUME m_writeIndex = cw[t] PROVE IInv'
    BY <2>0
  <2>a. /\ m_writeIndex \in Nat /\ m_readIndex \in Nat /\ m_maximumReadIndex \in Nat
        /\ m_writeIndex = Len(log) /\ Len(log) < MaxEnqueues
        /\ log \in Seq(Data) /\ data[t] \in Data
    BY DEF IInv, TypeOK, IndicesCount
  <2>b. /\ m_writeIndex' = m_writeIndex + 1
        /\ m_writeIndex' \in 0..(IndexMod - 1)
    BY <2>a, IncIsPlusOne
  <2>c. /\ log' \in Seq(Data)
        /\ Len(log') = Len(log) + 1
        /\ \A k \in 1..Len(log) : log'[k] = log[k]
        /\ log'[Len(log) + 1] = data[t]
    <3>1. log' = Append(log, data[t])
      OBVIOUS
    <3>. QED  BY ONLY <3>1, <2>a, Appended
  <2>d. /\ pc' = [pc EXCEPT ![t] = "e_store"] /\ pc[t] = "e_reserve"
        /\ UNCHANGED <<m_thequeue, m_readIndex, m_maximumReadIndex, cw, cr, data, out>>
    OBVIOUS
  <2>e. /\ m_readIndex <= m_maximumReadIndex /\ m_maximumReadIndex <= m_writeIndex
        /\ m_writeIndex + 1 - m_readIndex < Q_SIZE
    <3>1. /\ cr[t] \in Nat /\ cr[t] <= m_readIndex
          /\ cr[t] <= cw[t] => cw[t] - cr[t] < Q_SIZE - 1
      BY <2>d DEF IInv, TypeOK, EnqueueKnows
    <3>2. m_readIndex <= m_maximumReadIndex /\ m_maximumReadIndex <= m_writeIndex
      BY DEF IInv, IndexOrder
    <3>. QED  BY <2>a, <3>1, <3>2
  <2>1. TypeOK'
    BY <2>b, <2>c DEF IInv, TypeOK
  <2>2. IndicesCount' /\ IndexOrder'
    BY <2>a, <2>b, <2>c, <2>d, <2>e DEF IInv, IndicesCount, IndexOrder
  <2>3. Fifo'
    BY <2>a, <2>c DEF IInv, TypeOK, Fifo
  <2>4. CommittedStored'
    BY <2>a, <2>c DEF IInv, IndexOrder, CommittedStored
  <2>5. ASSUME NEW u \in Threads PROVE EnqueueKnows(u)'
    <3>1. CASE u = t
      <4>1. pc'[t] = "e_store" /\ cw'[t] = Len(log) /\ data'[t] = data[t]
        BY <2>a, <2>d DEF IInv, TypeOK
      <4>. QED  BY <3>1, <4>1, <2>a, <2>b, <2>c, <2>d, <2>e DEF EnqueueKnows
    <3>2. CASE u # t
      <4>1. pc'[u] = pc[u] /\ EnqueueKnows(u) /\ cw[u] \in Nat
        BY <3>2, <2>d DEF IInv, TypeOK
      <4>. QED  BY <4>1, <2>a, <2>b, <2>c, <2>d DEF EnqueueKnows
    <3>. QED  BY <3>1, <3>2
  <2>6. ASSUME NEW u \in Threads PROVE DequeueKnows(u)'
    <3>1. CASE u = t
      BY <3>1, <2>d DEF IInv, TypeOK, DequeueKnows
    <3>2. CASE u # t
      <4>1. pc'[u] = pc[u] /\ DequeueKnows(u) /\ cr[u] \in Nat
        BY <3>2, <2>d DEF IInv, TypeOK
      <4>. QED  BY <4>1, <2>a, <2>c, <2>d, <2>e DEF DequeueKnows
    <3>. QED  BY <3>1, <3>2
  <2>7. OneOwner'
    <3>1. \A u \in Threads : pc[u] \in Holding => cw[u] # cw[t]
      BY <2>a DEF IInv, TypeOK, EnqueueKnows
    <3>. QED  BY <3>1, <2>d DEF IInv, TypeOK, OneOwner
  <2>. QED  BY <2>1, <2>2, <2>3, <2>4, <2>5, <2>6, <2>7 DEF IInv
<1>6. ASSUME NEW t \in Threads, EnqStore(t) PROVE IInv'
  <2>. USE <1>6 DEF EnqStore
  <2>a. /\ m_readIndex \in Nat /\ m_maximumReadIndex \in Nat /\ cw[t] \in Nat
        /\ m_readIndex <= m_maximumReadIndex /\ m_maximumReadIndex <= cw[t]
        /\ cw[t] < m_writeIndex /\ m_writeIndex \in Nat
        /\ m_writeIndex - m_readIndex < Q_SIZE
    BY DEF IInv, TypeOK, IndexOrder, EnqueueKnows
  <2>b. countToIndex(cw[t]) \in 0..(Q_SIZE - 1)
    BY <2>a, SlotOfIndex
  <2>1. TypeOK'
    BY <2>b DEF IInv, TypeOK
  <2>2. IndicesCount' /\ IndexOrder'
    BY DEF IInv, IndicesCount, IndexOrder
  <2>3. Fifo'
    BY DEF IInv, Fifo
  <2>4. CommittedStored'
    <3>. SUFFICES ASSUME NEW k \in m_readIndex..(m_maximumReadIndex - 1)
                  PROVE  m_thequeue'[countToIndex(k)] = log[k + 1]
      BY DEF CommittedStored
    <3>1. countToIndex(k) # countToIndex(cw[t]) /\ countToIndex(k) \in 0..(Q_SIZE - 1)
      BY <2>a, SlotOfIndex
    <3>. QED  BY <3>1 DEF IInv, TypeOK, CommittedStored
  <2>5. ASSUME NEW u \in Threads PROVE EnqueueKnows(u)'
    <3>1. ASSUME pc[u] = "e_commit" PROVE countToIndex(cw[u]) # countToIndex(cw[t])
      <4>1. /\ cw[u] \in Nat /\ cw[u] # cw[t]
            /\ m_maximumReadIndex <= cw[u] /\ cw[u] < m_writeIndex
        BY <3>1 DEF IInv, TypeOK, EnqueueKnows, OneOwner
      <4>2. CASE cw[u] < cw[t]
        BY <4>1, <4>2, <2>a, SlotOfIndex
      <4>3. CASE cw[t] < cw[u]
        BY <4>1, <4>3, <2>a, SlotOfIndex
      <4>. QED  BY <4>1, <4>2, <4>3, <2>a
    <3>2. cw[u] \in Nat
      BY DEF IInv, TypeOK
    <3>3. countToIndex(cw[u]) \in 0..(Q_SIZE - 1)
      BY <3>2, SlotOfIndex
    <3>. QED  BY <3>1, <3>2, <3>3, <2>b DEF IInv, TypeOK, EnqueueKnows
  <2>6. ASSUME NEW u \in Threads PROVE DequeueKnows(u)'
    BY DEF IInv, TypeOK, DequeueKnows
  <2>7. OneOwner'
    BY DEF IInv, TypeOK, OneOwner
  <2>. QED  BY <2>1, <2>2, <2>3, <2>4, <2>5, <2>6, <2>7 DEF IInv
<1>7. ASSUME NEW t \in Threads, EnqCommit(t) PROVE IInv'
  <2>. USE <1>7 DEF EnqCommit
  <2>a. /\ m_readIndex \in Nat /\ cw[t] \in Nat /\ m_writeIndex \in Nat
        /\ cw[t] < m_writeIndex /\ cw[t] \in 0..MaxEnqueues
    BY SMTT(30) DEF IInv, TypeOK, IndicesCount, EnqueueKnows
  <2>b. /\ m_maximumReadIndex' = m_maximumReadIndex + 1
        /\ m_maximumReadIndex' \in 0..(IndexMod - 1)
    BY <2>a, IncIsPlusOne
  <2>c. /\ m_maximumReadIndex = cw[t] /\ m_readIndex <= m_maximumReadIndex
        /\ m_thequeue[countToIndex(cw[t])] = log[cw[t] + 1]
        /\ UNCHANGED <<m_thequeue, m_writeIndex, m_readIndex, log, out>>
    BY DEF IInv, IndexOrder, EnqueueKnows
  <2>1. TypeOK'
    BY <2>b DEF IInv, TypeOK
  <2>2. IndicesCount' /\ IndexOrder'
    BY <2>a, <2>b, <2>c DEF IInv, IndicesCount, IndexOrder
  <2>3. Fifo'
    BY DEF IInv, Fifo
  <2>4. CommittedStored'
    <3>. SUFFICES ASSUME NEW k \in m_readIndex..m_maximumReadIndex
                  PROVE  m_thequeue[countToIndex(k)] = log[k + 1]
      BY <2>a, <2>b, <2>c DEF CommittedStored
    <3>1. CASE k = m_maximumReadIndex
      BY <3>1, <2>c
    <3>2. CASE k \in m_readIndex..(m_maximumReadIndex - 1)
      BY <3>2 DEF IInv, CommittedStored
    <3>. QED  BY <3>1, <3>2, <2>a, <2>c
  <2>5. ASSUME NEW u \in Threads PROVE EnqueueKnows(u)'
    BY <2>a, <2>b DEF IInv, TypeOK, EnqueueKnows, OneOwner
  <2>6. ASSUME NEW u \in Threads PROVE DequeueKnows(u)'
    BY <2>a, <2>b DEF IInv, TypeOK, DequeueKnows
  <2>7. OneOwner'
    BY DEF IInv, TypeOK, OneOwner
  <2>. QED  BY <2>1, <2>2, <2>3, <2>4, <2>5, <2>6, <2>7 DEF IInv
<1>8. ASSUME NEW t \in Threads, EnqCount(t) PROVE IInv'
  BY <1>8, ReturnStep, CounterInRange DEF EnqCount, IInv, TypeOK
<1>9. ASSUME NEW t \in Threads, DeqReadReadIndex(t) PROVE IInv'
  <2>. USE <1>9 DEF DeqReadReadIndex
  <2>1. TypeOK'
    BY DEF IInv, TypeOK
  <2>2. IndicesCount' /\ IndexOrder'
    BY DEF IInv, IndicesCount, IndexOrder
  <2>3. Fifo'
    BY DEF IInv, Fifo
  <2>4. CommittedStored'
    BY DEF IInv, CommittedStored
  <2>5. ASSUME NEW u \in Threads PROVE EnqueueKnows(u)'
    BY DEF IInv, TypeOK, EnqueueKnows
  <2>6. ASSUME NEW u \in Threads PROVE DequeueKnows(u)'
    BY DEF IInv, TypeOK, DequeueKnows
  <2>7. OneOwner'
    BY DEF IInv, TypeOK, OneOwner
  <2>. QED  BY <2>1, <2>2, <2>3, <2>4, <2>5, <2>6, <2>7 DEF IInv
<1>10. ASSUME NEW t \in Threads, DeqReadMaximum(t) PROVE IInv'
  <2>. USE <1>10 DEF DeqReadMaximum
  <2>0. CASE LooksEmpty(cr[t], m_maximumReadIndex)
    BY <2>0, ReturnStep DEF IInv, TypeOK
  <2>. SUFFICES ASSUME ~LooksEmpty(cr[t], m_maximumReadIndex) PROVE IInv'
    BY <2>0
  <2>1. TypeOK'
    BY DEF IInv, TypeOK
  <2>2. IndicesCount' /\ IndexOrder'
    BY DEF IInv, IndicesCount, IndexOrder
  <2>3. Fifo'
    BY DEF IInv, Fifo
  <2>4. CommittedStored'
    BY DEF IInv, CommittedStored
  <2>5. ASSUME NEW u \in Threads PROVE EnqueueKnows(u)'
    BY DEF IInv, TypeOK, EnqueueKnows
  <2>6. ASSUME NEW u \in Threads PROVE DequeueKnows(u)'
    <3>1. cr[t] # m_maximumReadIndex
      BY DEF LooksEmpty
    <3>. QED  BY <3>1 DEF IInv, TypeOK, IndexOrder, DequeueKnows
  <2>7. OneOwner'
    BY DEF IInv, TypeOK, OneOwner
  <2>. QED  BY <2>1, <2>2, <2>3, <2>4, <2>5, <2>6, <2>7 DEF IInv
<1>11. ASSUME NEW t \in Threads, DeqLoad(t) PROVE IInv'
  <2>. USE <1>11 DEF DeqLoad
  <2>a. cr[t] \in Nat
    BY DEF IInv, TypeOK
  <2>b. countToIndex(cr[t]) \in 0..(Q_SIZE - 1)
    BY <2>a, SlotOfIndex
  <2>1. TypeOK'
    BY <2>a, <2>b DEF IInv, TypeOK
  <2>2. IndicesCount' /\ IndexOrder'
    BY DEF IInv, IndicesCount, IndexOrder
  <2>3. Fifo'
    BY DEF IInv, Fifo
  <2>4. CommittedStored'
    BY DEF IInv, CommittedStored
  <2>5. ASSUME NEW u \in Threads PROVE EnqueueKnows(u)'
    BY DEF IInv, TypeOK, EnqueueKnows
  <2>6. ASSUME NEW u \in Threads PROVE DequeueKnows(u)'
    BY <2>a DEF IInv, TypeOK, CommittedStored, DequeueKnows
  <2>7. OneOwner'
    BY DEF IInv, TypeOK, OneOwner
  <2>. QED  BY <2>1, <2>2, <2>3, <2>4, <2>5, <2>6, <2>7 DEF IInv
<1>12. ASSUME NEW t \in Threads, DeqTake(t) PROVE IInv'
  <2>. USE <1>12 DEF DeqTake
  <2>0. CASE m_readIndex # cr[t]
    BY <2>0, QuietStep DEF IInv, TypeOK
  <2>. SUFFICES ASSUME m_readIndex = cr[t] PROVE IInv'
    BY <2>0
  <2>a. /\ m_readIndex \in Nat /\ m_maximumReadIndex \in Nat /\ m_writeIndex \in Nat
        /\ m_readIndex < m_maximumReadIndex /\ m_readIndex \in 0..MaxEnqueues
        /\ m_readIndex = Len(out) /\ out \in Seq(Data)
        /\ data[t] = log[m_readIndex + 1] /\ data[t] \in Data
    BY SMTT(30) DEF IInv, TypeOK, IndicesCount, IndexOrder, DequeueKnows
  <2>b. /\ m_readIndex' = m_readIndex + 1
        /\ m_readIndex' \in 0..(IndexMod - 1)
    BY <2>a, IncIsPlusOne
  <2>c. /\ out' \in Seq(Data)
        /\ Len(out') = Len(out) + 1
        /\ \A k \in 1..Len(out) : out'[k] = out[k]
        /\ out'[Len(out) + 1] = data[t]
    <3>1. out' = Append(out, data[t])
      OBVIOUS
    <3>. QED  BY ONLY <3>1, <2>a, Appended
  <2>d. /\ UNCHANGED <<m_thequeue, m_writeIndex, m_maximumReadIndex, log>>
        /\ log \in Seq(Data) /\ m_maximumReadIndex <= Len(log)
    BY DEF IInv, TypeOK, IndicesCount, IndexOrder
  <2>1. TypeOK'
    BY <2>b, <2>c DEF IInv, TypeOK
  <2>2. IndicesCount' /\ IndexOrder'
    BY <2>a, <2>b, <2>c DEF IInv, IndicesCount, IndexOrder
  <2>3. Fifo'
    <3>1. \A k \in 1..Len(out) : out[k] = log[k]
      BY DEF IInv, Fifo
    <3>2. ASSUME NEW k \in 1..Len(out') PROVE out'[k] = log[k]
      <4>1. CASE k = Len(out) + 1
        BY <4>1, <2>a, <2>c
      <4>2. CASE k \in 1..Len(out)
        BY <4>2, <3>1, <2>c
      <4>. QED  BY <4>1, <4>2, <2>a, <2>c
    <3>3. Len(out') <= Len(log)
      BY <2>a, <2>c, <2>d
    <3>. QED  BY <3>2, <3>3, <2>d DEF Fifo
  <2>4. CommittedStored'
    <3>1. m_readIndex'..(m_maximumReadIndex' - 1)
            \subseteq m_readIndex..(m_maximumReadIndex - 1)
      BY <2>a, <2>b, <2>d
    <3>. QED  BY <3>1, <2>d DEF IInv, CommittedStored
  <2>5. ASSUME NEW u \in Threads PROVE EnqueueKnows(u)'
    BY <2>a, <2>b, SMTT(30) DEF IInv, TypeOK, EnqueueKnows
  <2>6. ASSUME NEW u \in Threads PROVE DequeueKnows(u)'
    BY <2>a, <2>b DEF IInv, TypeOK, DequeueKnows
  <2>7. OneOwner'
    BY DEF IInv, TypeOK, OneOwner
  <2>. QED  BY <2>1, <2>2, <2>3, <2>4, <2>5, <2>6, <2>7 DEF IInv
<1>13. ASSUME NEW t \in Threads, DeqCount(t) PROVE IInv'
  BY <1>13, ReturnStep, CounterInRange DEF DeqCount, IInv, TypeOK
<1>14. CASE UNCHANGED vars
  BY <1>14 DEF vars, IInv, TypeOK, IndicesCount, IndexOrder, Fifo,
     CommittedStored, EnqueueKnows, DequeueKnows, OneOwner
<1>. QED  BY <1>1, <1>2, <1>3, <1>4, <1>5, <1>6, <1>7, <1>8, <1>9, <1>10, <1>11, <1>12, <1>13,
             <1>14 DEF Next, EnqStep, DeqStep
-----------------------------------------------------------------------------
(* The theorems *)

\* IInv holds in every reachable state, as long as the indices do not wrap.
THEOREM InductiveInvariant == NoWrap => (Spec => []IInv)
<1>. SUFFICES ASSUME NoWrap PROVE Spec => []IInv
  OBVIOUS
<1>1. Init => IInv
  BY InitIInv
<1>2. IInv /\ [Next]_vars => IInv'
  BY NextIInv
<1>. QED  BY <1>1, <1>2, PTL DEF Spec

\* The members and the locals always have their types: in particular the
\* indices and m_count stay in the range of QUEUE_INT.
THEOREM TypeCorrect == NoWrap => (Spec => []TypeOK)
<1>1. IInv => TypeOK
  BY DEF IInv
<1>. QED  BY <1>1, InductiveInvariant, PTL

\* The writers never lap the readers and the readers never pass the last
\* committed slot, whatever is stale in the two tests.
THEOREM NeverOverrun == NoWrap => (Spec => []IndexOrder)
<1>1. IInv => IndexOrder
  BY DEF IInv
<1>. QED  BY <1>1, InductiveInvariant, PTL

\* Values are dequeued in the order in which they reserved their slots, each
\* once and unchanged.
THEOREM FirstInFirstOut == NoWrap => (Spec => []Fifo)
<1>1. IInv => Fifo
  BY DEF IInv
<1>. QED  BY <1>1, InductiveInvariant, PTL

\* In a state of the invariant the values inside the queue are a sequence of
\* the length the indices give.
LEMMA CommittedSeq ==
    ASSUME IInv
    PROVE  /\ log \in Seq(Data)
           /\ m_readIndex \in Nat /\ m_maximumReadIndex \in Nat
           /\ m_readIndex <= m_maximumReadIndex /\ m_maximumReadIndex <= Len(log)
           /\ m_maximumReadIndex - m_readIndex <= Q_SIZE - 1
           /\ Committed \in Seq(Data)
           /\ Len(Committed) = m_maximumReadIndex - m_readIndex
<1>1. /\ log \in Seq(Data)
      /\ m_readIndex \in Nat /\ m_maximumReadIndex \in Nat /\ m_writeIndex \in Nat
      /\ m_readIndex <= m_maximumReadIndex /\ m_maximumReadIndex <= Len(log)
      /\ m_maximumReadIndex - m_readIndex <= Q_SIZE - 1
  BY QueueAssumption DEF IInv, TypeOK, IndicesCount, IndexOrder
<1>2. \A k \in (m_readIndex + 1)..m_maximumReadIndex : log[k] \in Data
  BY <1>1
<1>3. /\ Committed \in Seq(Data)
      /\ Len(Committed) = IF m_readIndex + 1 <= m_maximumReadIndex
                          THEN m_maximumReadIndex - (m_readIndex + 1) + 1 ELSE 0
  BY <1>1, <1>2, SubSeqProperties, m_readIndex + 1 \in Int, m_maximumReadIndex \in Int
     DEF Committed
<1>. QED  BY <1>1, <1>3

\* A value that reserves a slot is not inside the queue yet.
LEMMA ReserveInvisible ==
    ASSUME IInv, NEW v \in Data, log' = Append(log, v),
           UNCHANGED <<m_readIndex, m_maximumReadIndex>>
    PROVE  Committed' = Committed
<1>. USE CommittedSeq
<1>1. SubSeq(Append(log, v), m_readIndex + 1, m_maximumReadIndex)
        = SubSeq(log, m_readIndex + 1, m_maximumReadIndex)
  BY SMTT(30)
<1>. QED  BY <1>1 DEF Committed

\* The CAS on m_maximumReadIndex puts one value into the queue.
LEMMA CommitPuts ==
    ASSUME IInv, IInv', UNCHANGED <<log, m_readIndex>>,
           m_maximumReadIndex' = m_maximumReadIndex + 1
    PROVE  Fifos!Next
<1>. DEFINE n == m_maximumReadIndex + 1
<1>1. n \in 1..Len(log) /\ n - m_readIndex <= Q_SIZE - 1
  BY CommittedSeq, QueueAssumption DEF IInv, TypeOK, IndicesCount, IndexOrder
<1>2. Committed' = Append(Committed, log[n])
  <2>1. m_readIndex + 1 \in 1..Len(log) /\ n \in (m_readIndex + 1)..Len(log)
    BY <1>1, CommittedSeq
  <2>2. SubSeq(log, m_readIndex + 1, n)
          = Append(SubSeq(log, m_readIndex + 1, n - 1), log[n])
    <3>1. SubSeq(log, m_readIndex + 1, n)
            = SubSeq(log, m_readIndex + 1, n - 1) \o <<log[n]>>
      BY <2>1, CommittedSeq, SubSeqRecursiveSecond
    <3>2. SubSeq(log, m_readIndex + 1, n - 1) \in Seq(Data) /\ log[n] \in Data
      BY <1>1, CommittedSeq DEF Committed
    <3>. QED  BY <3>1, <3>2, AppendIsConcat
  <2>3. n - 1 = m_maximumReadIndex
    BY CommittedSeq
  <2>. QED  BY <2>2, <2>3 DEF Committed
<1>3. Len(Committed) < Q_SIZE - 1 /\ log[n] \in Data
  BY <1>1, CommittedSeq, QueueAssumption
<1>. QED  BY <1>2, <1>3 DEF Fifos!Next, Fifos!Put

\* The CAS on m_readIndex takes the oldest one out.
LEMMA TakeGets ==
    ASSUME IInv, IInv', UNCHANGED <<log, m_maximumReadIndex>>,
           m_readIndex' = m_readIndex + 1
    PROVE  Fifos!Next
<1>1. m_readIndex + 1 <= m_maximumReadIndex
  BY CommittedSeq DEF IInv, TypeOK, IndexOrder
<1>2. /\ m_readIndex + 1 \in 1..Len(log)
      /\ m_maximumReadIndex \in (m_readIndex + 1)..Len(log)
  BY <1>1, CommittedSeq
<1>3. Committed' = Tail(Committed)
  BY <1>2, CommittedSeq, HeadTailOfSubSeq DEF Committed
<1>4. Committed # <<>>
  BY <1>1, CommittedSeq
<1>. QED  BY <1>3, <1>4 DEF Fifos!Next, Fifos!Get

\* ArrayLockFreeQueue implements a bounded FIFO queue of Q_SIZE - 1 places, with
\* the two CAS as the moments a value enters and leaves.
THEOREM ImplementsBoundedFifo == NoWrap => (Spec => ImplementsFifo)
<1>. SUFFICES ASSUME NoWrap PROVE Spec => Fifos!Spec
  BY DEF ImplementsFifo
<1>1. Init => Fifos!Init
  BY DEF Init, Fifos!Init, Committed
<1>2. IInv /\ IInv' /\ [Next]_vars => [Fifos!Next]_Committed
  <2>. SUFFICES ASSUME IInv, IInv', [Next]_vars PROVE [Fifos!Next]_Committed
    OBVIOUS
  <2>. USE DEF shared, locals, Goto, Return
  <2>1. CASE UNCHANGED <<log, m_readIndex, m_maximumReadIndex>>
    BY <2>1 DEF Committed
  <2>2. ASSUME NEW t \in Threads, EnqReserve(t) PROVE [Fifos!Next]_Committed
    <3>1. CASE m_writeIndex # cw[t]
      BY <2>2, <3>1, <2>1 DEF EnqReserve
    <3>2. CASE m_writeIndex = cw[t]
      <4>1. data[t] \in Data /\ log' = Append(log, data[t])
        BY <2>2, <3>2 DEF EnqReserve, IInv, TypeOK
      <4>. QED  BY <4>1, <2>2, ReserveInvisible DEF EnqReserve
    <3>. QED  BY <3>1, <3>2
  <2>3. ASSUME NEW t \in Threads, EnqCommit(t) PROVE [Fifos!Next]_Committed
    <3>1. cw[t] \in 0..MaxEnqueues
      <4>1. /\ cw[t] \in Nat /\ cw[t] < Len(log) /\ log \in Seq(Data)
            /\ Len(log) <= MaxEnqueues
        BY <2>3 DEF EnqCommit, Holding, IInv, TypeOK, IndicesCount, EnqueueKnows
      <4>. QED  BY <4>1, QueueAssumption
    <3>2. m_maximumReadIndex' = m_maximumReadIndex + 1
      BY <2>3, <3>1, IncIsPlusOne DEF EnqCommit
    <3>. QED  BY <2>3, <3>2, CommitPuts DEF EnqCommit
  <2>4. ASSUME NEW t \in Threads, DeqTake(t) PROVE [Fifos!Next]_Committed
    <3>1. CASE m_readIndex # cr[t]
      BY <2>4, <3>1, <2>1 DEF DeqTake
    <3>2. CASE m_readIndex = cr[t]
      <4>1. cr[t] \in 0..MaxEnqueues
        <5>1. /\ cr[t] \in Nat /\ cr[t] = Len(out) /\ log \in Seq(Data)
              /\ Len(out) <= Len(log) /\ Len(log) <= MaxEnqueues
          BY <3>2 DEF IInv, TypeOK, IndicesCount, Fifo
        <5>. QED  BY <5>1, QueueAssumption
      <4>2. m_readIndex' = m_readIndex + 1
        BY <2>4, <3>2, <4>1, IncIsPlusOne DEF DeqTake
      <4>. QED  BY <2>4, <4>2, TakeGets DEF DeqTake
    <3>. QED  BY <3>1, <3>2
  <2>5. ASSUME NEW t \in Threads,
               \/ \E v \in Data : EnqueueCall(t, v)
               \/ DequeueCall(t) \/ EnqReadWriteIndex(t) \/ EnqReadReadIndex(t)
               \/ EnqStore(t) \/ EnqCount(t) \/ DeqReadReadIndex(t)
               \/ DeqReadMaximum(t) \/ DeqLoad(t) \/ DeqCount(t)
        PROVE  [Fifos!Next]_Committed
    BY <2>5, <2>1 DEF EnqueueCall, DequeueCall, EnqReadWriteIndex, EnqReadReadIndex,
       EnqStore, EnqCount, DeqReadReadIndex, DeqReadMaximum, DeqLoad, DeqCount
  <2>6. CASE UNCHANGED vars
    BY <2>6, <2>1 DEF vars
  <2>. QED  BY <2>2, <2>3, <2>4, <2>5, <2>6 DEF Next, EnqStep, DeqStep
<1>. QED  BY <1>1, <1>2, InductiveInvariant, PTL DEF Spec, Fifos!Spec

-----------------------------------------------------------------------------
(* Reservations and the counter *)

\* A thread that neither had nor gets a reservation changes nobody's.
LEMMA OthersKeepReservations ==
    ASSUME IInv', ReservationsOwned, NEW t \in Threads,
           pc[t] \notin Holding,
           \A u \in Threads : u # t => pc'[u] = pc[u] /\ cw'[u] = cw[u],
           UNCHANGED <<m_maximumReadIndex, m_writeIndex>>
    PROVE  ReservationsOwned'
BY DEF IInv, OneOwner, ReservationsOwned

\* Every step leaves each reserved index to one thread.
LEMMA ReservationsStep ==
    ASSUME NoWrap, IInv, IInv', ReservationsOwned, [Next]_vars
    PROVE  ReservationsOwned'
<1>. USE DEF shared, locals, Goto, Return
<1>1. ASSUME NEW t \in Threads, pc[t] \notin Holding,
             \/ \E v \in Data : EnqueueCall(t, v)
             \/ DequeueCall(t) \/ EnqReadWriteIndex(t) \/ EnqReadReadIndex(t)
             \/ EnqCount(t) \/ DeqReadReadIndex(t)
             \/ DeqReadMaximum(t) \/ DeqLoad(t) \/ DeqTake(t) \/ DeqCount(t)
      PROVE  ReservationsOwned'
  <2>1. \A u \in Threads : u # t => pc'[u] = pc[u] /\ cw'[u] = cw[u]
    BY <1>1 DEF IInv, TypeOK, EnqueueCall, DequeueCall, EnqReadWriteIndex, EnqReadReadIndex,
       EnqCount, DeqReadReadIndex, DeqReadMaximum, DeqLoad, DeqTake, DeqCount
  <2>2. UNCHANGED <<m_maximumReadIndex, m_writeIndex>>
    BY <1>1 DEF EnqueueCall, DequeueCall, EnqReadWriteIndex, EnqReadReadIndex,
       EnqCount, DeqReadReadIndex, DeqReadMaximum, DeqLoad, DeqTake, DeqCount
  <2>. QED  BY <1>1, <2>1, <2>2, OthersKeepReservations
<1>2. ASSUME NEW t \in Threads, EnqReserve(t) PROVE ReservationsOwned'
  <2>1. CASE m_writeIndex # cw[t]
    <3>1. /\ pc[t] \notin Holding /\ UNCHANGED <<m_maximumReadIndex, m_writeIndex>>
          /\ \A u \in Threads : u # t => pc'[u] = pc[u] /\ cw'[u] = cw[u]
      BY <1>2, <2>1 DEF EnqReserve, IInv, TypeOK, Holding
    <3>. QED  BY <3>1, OthersKeepReservations
  <2>2. CASE m_writeIndex = cw[t]
    <3>1. /\ pc[t] = "e_reserve" /\ pc'[t] = "e_store" /\ cw' = cw
          /\ \A u \in Threads : u # t => pc'[u] = pc[u]
          /\ m_maximumReadIndex' = m_maximumReadIndex
      BY <1>2, <2>2 DEF EnqReserve, IInv, TypeOK
    <3>2. m_writeIndex \in 0..MaxEnqueues /\ m_maximumReadIndex \in Nat
      BY QueueAssumption DEF IInv, TypeOK, IndicesCount
    <3>3. m_writeIndex' = m_writeIndex + 1
      BY <1>2, <2>2, <3>2, IncIsPlusOne DEF EnqReserve
    <3>4. ASSUME NEW i \in m_maximumReadIndex..m_writeIndex
          PROVE  \E u \in Threads : pc'[u] \in Holding /\ cw'[u] = i
      <4>1. CASE i = m_writeIndex
        BY <4>1, <3>1, <2>2 DEF Holding
      <4>2. CASE i # m_writeIndex
        <5>1. i \in m_maximumReadIndex..(m_writeIndex - 1)
          BY <4>2, <3>2
        <5>. QED  BY <5>1, <3>1 DEF ReservationsOwned, Holding
      <4>. QED  BY <4>1, <4>2
    <3>5. m_maximumReadIndex'..(m_writeIndex' - 1) = m_maximumReadIndex..m_writeIndex
      BY <3>1, <3>2, <3>3
    <3>. QED  BY <3>4, <3>5 DEF IInv, OneOwner, ReservationsOwned
  <2>. QED  BY <2>1, <2>2
<1>3. ASSUME NEW t \in Threads, EnqStore(t) PROVE ReservationsOwned'
  <2>1. /\ \A u \in Threads : (pc'[u] \in Holding <=> pc[u] \in Holding) /\ cw'[u] = cw[u]
        /\ UNCHANGED <<m_maximumReadIndex, m_writeIndex>>
    BY <1>3 DEF EnqStore, IInv, TypeOK, Holding
  <2>. QED  BY <2>1 DEF ReservationsOwned
<1>4. ASSUME NEW t \in Threads, EnqCommit(t) PROVE ReservationsOwned'
  <2>1. /\ m_maximumReadIndex = cw[t] /\ cw' = cw /\ m_writeIndex' = m_writeIndex
        /\ \A u \in Threads : u # t => pc'[u] = pc[u]
    BY <1>4 DEF EnqCommit, IInv, TypeOK
  <2>2. cw[t] \in 0..MaxEnqueues
    <3>1. cw[t] \in Nat /\ cw[t] < m_writeIndex /\ m_writeIndex \in Nat
          /\ m_writeIndex <= MaxEnqueues
      BY <1>4 DEF EnqCommit, Holding, IInv, TypeOK, IndicesCount, EnqueueKnows
    <3>. QED  BY <3>1, QueueAssumption
  <2>3. m_maximumReadIndex' = m_maximumReadIndex + 1
    BY <1>4, <2>2, IncIsPlusOne DEF EnqCommit
  <2>4. ASSUME NEW i \in (m_maximumReadIndex + 1)..(m_writeIndex - 1)
        PROVE  \E u \in Threads : pc'[u] \in Holding /\ cw'[u] = i
    <3>1. i \in m_maximumReadIndex..(m_writeIndex - 1) /\ i # m_maximumReadIndex
      BY <2>1, <2>2 DEF IInv, TypeOK
    <3>. QED  BY <3>1, <2>1 DEF ReservationsOwned
  <2>. QED  BY <2>1, <2>3, <2>4 DEF IInv, OneOwner, ReservationsOwned
<1>5. CASE UNCHANGED vars
  BY <1>5 DEF vars, ReservationsOwned
<1>6. ASSUME NEW t \in Threads,
             \/ \E v \in Data : EnqueueCall(t, v)
             \/ DequeueCall(t) \/ EnqReadWriteIndex(t) \/ EnqReadReadIndex(t)
             \/ EnqCount(t) \/ DeqReadReadIndex(t)
             \/ DeqReadMaximum(t) \/ DeqLoad(t) \/ DeqTake(t) \/ DeqCount(t)
      PROVE  ReservationsOwned'
  <2>1. pc[t] \notin Holding
    BY <1>6 DEF Holding, EnqueueCall, DequeueCall, EnqReadWriteIndex, EnqReadReadIndex,
       EnqCount, DeqReadReadIndex, DeqReadMaximum, DeqLoad, DeqTake, DeqCount
  <2>. QED  BY <1>1, <1>6, <2>1
<1>. QED  BY <1>2, <1>3, <1>4, <1>5, <1>6 DEF Next, EnqStep, DeqStep

\* Every reserved index is owned by exactly one thread until it is committed: the
\* commits, which wait for each other, never wait for nobody.
THEOREM EveryReservationOwned == NoWrap => (Spec => []ReservationsOwned)
<1>. SUFFICES ASSUME NoWrap PROVE Spec => []ReservationsOwned
  OBVIOUS
<1>1. Init => ReservationsOwned
  BY DEF Init, ReservationsOwned
<1>2. IInv /\ IInv' /\ ReservationsOwned /\ [Next]_vars => ReservationsOwned'
  BY ReservationsStep
<1>. QED  BY <1>1, <1>2, InductiveInvariant, PTL DEF Spec

\* A number may be reduced before a fixed amount is added to it.
LEMMA AddAfterRemainder ==
    ASSUME NEW a \in Int, NEW d \in Int, NEW b \in Nat \ {0}
    PROVE  ((a % b) + d) % b = (a + d) % b
<1>. DEFINE p == a \div b
            q == ((a % b) + d) \div b
            q2 == (a + d) \div b
            r == a % b
            s == (r + d) % b
            s2 == (a + d) % b
<1>1. p \in Int /\ r \in 0..(b - 1) /\ a = b * p + r
  BY DivMod
<1>2. q \in Int /\ s \in 0..(b - 1) /\ r + d = b * q + s
  BY <1>1, DivMod, r + d \in Int
<1>3. q2 \in Int /\ s2 \in 0..(b - 1) /\ a + d = b * q2 + s2
  BY DivMod, a + d \in Int
<1>. SUFFICES s = s2
  OBVIOUS
<1>. HIDE DEF p, q, q2, r, s, s2
<1>4. b * (p + q) + s = b * q2 + s2
  BY <1>1, <1>2, <1>3
<1>. QED  BY <1>1, <1>2, <1>3, <1>4, DivModUnique, p + q \in Int

\* The threads at one place of the code.
ThreadsAt(l) == {t \in Threads : pc[t] = l}

\* Where the threads are after one of them has moved.
LEMMA OthersStay ==
    ASSUME IInv, NEW t \in Threads, NEW l, pc' = [pc EXCEPT ![t] = l]
    PROVE  pc'[t] = l /\ \A u \in Threads : u # t => pc'[u] = pc[u]
BY DEF IInv, TypeOK

\* What a thread's move does to the number of threads at a place.
LEMMA NumberAt ==
    ASSUME IInv, IsFiniteSet(Threads), NEW t \in Threads, NEW p,
           \A u \in Threads : u # t => pc'[u] = pc[u]
    PROVE  /\ Cardinality(ThreadsAt(p)) \in Nat
           /\ pc[t] # p /\ pc'[t] # p => Cardinality(ThreadsAt(p)') = Cardinality(ThreadsAt(p))
           /\ pc[t] # p /\ pc'[t] = p => Cardinality(ThreadsAt(p)') = Cardinality(ThreadsAt(p)) + 1
           /\ pc[t] = p /\ pc'[t] # p => Cardinality(ThreadsAt(p)') = Cardinality(ThreadsAt(p)) - 1
<1>1. IsFiniteSet(ThreadsAt(p)) /\ Cardinality(ThreadsAt(p)) \in Nat
  BY FS_Subset, FS_CardinalityType DEF ThreadsAt
<1>2. ASSUME pc[t] # p, pc'[t] # p PROVE ThreadsAt(p)' = ThreadsAt(p)
  BY <1>2 DEF ThreadsAt, IInv, TypeOK
<1>3. ASSUME pc[t] # p, pc'[t] = p PROVE ThreadsAt(p)' = ThreadsAt(p) \cup {t} /\ t \notin ThreadsAt(p)
  BY <1>3 DEF ThreadsAt, IInv, TypeOK
<1>4. ASSUME pc[t] = p, pc'[t] # p PROVE ThreadsAt(p)' = ThreadsAt(p) \ {t} /\ t \in ThreadsAt(p)
  BY <1>4 DEF ThreadsAt, IInv, TypeOK
<1>5. ASSUME pc[t] # p, pc'[t] = p PROVE Cardinality(ThreadsAt(p)') = Cardinality(ThreadsAt(p)) + 1
  BY <1>1, <1>3, <1>5, FS_AddElement
<1>6. ASSUME pc[t] = p, pc'[t] # p PROVE Cardinality(ThreadsAt(p)') = Cardinality(ThreadsAt(p)) - 1
  BY <1>1, <1>4, <1>6, FS_RemoveElement
<1>. QED  BY <1>1, <1>2, <1>5, <1>6

\* What m_count is compared with.
Balance == (m_maximumReadIndex - m_readIndex)
             - Cardinality(ThreadsAt("e_count")) + Cardinality(ThreadsAt("d_count"))

\* Every step moves the counter as it moves the balance.
LEMMA BalanceStep ==
    ASSUME NoWrap, IsFiniteSet(Threads), IInv, IInv', CountAgrees, [Next]_vars
    PROVE  CountAgrees'
<1>. USE QueueAssumption DEF shared, locals, Goto, Return
<1>0. /\ m_count = Balance % IndexMod
      /\ CountAgrees' <=> m_count' = Balance' % IndexMod
  BY DEF CountAgrees, Balance, ThreadsAt
<1>a. /\ m_readIndex \in Nat /\ m_maximumReadIndex \in Nat
      /\ m_readIndex \in 0..MaxEnqueues /\ m_maximumReadIndex \in 0..MaxEnqueues
  <2>1. /\ m_readIndex \in Nat /\ m_maximumReadIndex \in Nat /\ m_writeIndex \in Nat
        /\ m_readIndex <= m_maximumReadIndex /\ m_maximumReadIndex <= m_writeIndex
        /\ m_writeIndex <= MaxEnqueues
    BY DEF IInv, TypeOK, IndicesCount, IndexOrder
  <2>. QED  BY <2>1
<1>b. Cardinality(ThreadsAt("e_count")) \in Nat /\ Cardinality(ThreadsAt("d_count")) \in Nat
  BY FS_Subset, FS_CardinalityType DEF ThreadsAt
<1>c. Balance \in Int
  BY <1>a, <1>b DEF Balance
<1>1. ASSUME NEW t \in Threads, EnqCommit(t) PROVE CountAgrees'
  <2>1. /\ pc' = [pc EXCEPT ![t] = "e_count"] /\ pc[t] = "e_commit"
        /\ m_count' = m_count /\ m_readIndex' = m_readIndex
        /\ m_maximumReadIndex' = m_maximumReadIndex + 1
    BY <1>1, <1>a, IncIsPlusOne DEF EnqCommit
  <2>2. /\ Cardinality(ThreadsAt("e_count")') = Cardinality(ThreadsAt("e_count")) + 1
        /\ Cardinality(ThreadsAt("d_count")') = Cardinality(ThreadsAt("d_count"))
    BY <2>1, NumberAt, OthersStay
  <2>3. Balance' = Balance
    BY <2>1, <2>2, <1>a, <1>b DEF Balance
  <2>. QED  BY <2>1, <2>3, <1>0
<1>2. ASSUME NEW t \in Threads, EnqCount(t) PROVE CountAgrees'
  <2>1. /\ pc' = [pc EXCEPT ![t] = "idle"] /\ pc[t] = "e_count"
        /\ m_count' = (m_count + 1) % IndexMod
        /\ UNCHANGED <<m_readIndex, m_maximumReadIndex>>
    BY <1>2 DEF EnqCount, Inc
  <2>2. /\ Cardinality(ThreadsAt("e_count")') = Cardinality(ThreadsAt("e_count")) - 1
        /\ Cardinality(ThreadsAt("d_count")') = Cardinality(ThreadsAt("d_count"))
    BY <2>1, NumberAt, OthersStay
  <2>3. Balance' = Balance + 1
    BY <2>1, <2>2, <1>a, <1>b DEF Balance
  <2>4. ((Balance % IndexMod) + 1) % IndexMod = (Balance + 1) % IndexMod
    BY <1>c, AddAfterRemainder, 1 \in Int
  <2>. QED  BY <2>1, <2>3, <2>4, <1>0
<1>3. ASSUME NEW t \in Threads, DeqTake(t) PROVE CountAgrees'
  <2>1. CASE m_readIndex # cr[t]
    <3>1. /\ pc' = [pc EXCEPT ![t] = "d_readR"] /\ pc[t] = "d_take"
          /\ UNCHANGED <<m_count, m_readIndex, m_maximumReadIndex>>
      BY <1>3, <2>1 DEF DeqTake
    <3>2. /\ Cardinality(ThreadsAt("e_count")') = Cardinality(ThreadsAt("e_count"))
          /\ Cardinality(ThreadsAt("d_count")') = Cardinality(ThreadsAt("d_count"))
      BY <3>1, NumberAt, OthersStay
    <3>. QED  BY <3>1, <3>2, <1>0 DEF Balance
  <2>2. CASE m_readIndex = cr[t]
    <3>1. /\ pc' = [pc EXCEPT ![t] = "d_count"] /\ pc[t] = "d_take"
          /\ UNCHANGED <<m_count, m_maximumReadIndex>>
          /\ m_readIndex' = m_readIndex + 1
      BY <1>3, <2>2, <1>a, IncIsPlusOne DEF DeqTake
    <3>2. /\ Cardinality(ThreadsAt("e_count")') = Cardinality(ThreadsAt("e_count"))
          /\ Cardinality(ThreadsAt("d_count")') = Cardinality(ThreadsAt("d_count")) + 1
      BY <3>1, NumberAt, OthersStay
    <3>3. Balance' = Balance
      BY <3>1, <3>2, <1>a, <1>b DEF Balance
    <3>. QED  BY <3>1, <3>3, <1>0
  <2>. QED  BY <2>1, <2>2
<1>4. ASSUME NEW t \in Threads, DeqCount(t) PROVE CountAgrees'
  <2>1. /\ pc' = [pc EXCEPT ![t] = "idle"] /\ pc[t] = "d_count"
        /\ m_count' = (m_count + (-1)) % IndexMod
        /\ UNCHANGED <<m_readIndex, m_maximumReadIndex>>
    <3>1. m_count \in Int /\ m_count - 1 = m_count + (-1)
      BY DEF IInv, TypeOK
    <3>. QED  BY <1>4, <3>1 DEF DeqCount
  <2>2. /\ Cardinality(ThreadsAt("e_count")') = Cardinality(ThreadsAt("e_count"))
        /\ Cardinality(ThreadsAt("d_count")') = Cardinality(ThreadsAt("d_count")) - 1
    BY <2>1, NumberAt, OthersStay
  <2>3. Balance' = Balance + (-1)
    BY <2>1, <2>2, <1>a, <1>b DEF Balance
  <2>4. ((Balance % IndexMod) + (-1)) % IndexMod = (Balance + (-1)) % IndexMod
    BY <1>c, AddAfterRemainder, -1 \in Int
  <2>. QED  BY <2>1, <2>3, <2>4, <1>0
<1>5. ASSUME NEW t \in Threads,
             \/ \E v \in Data : EnqueueCall(t, v)
             \/ DequeueCall(t) \/ EnqReadWriteIndex(t) \/ EnqReadReadIndex(t)
             \/ EnqReserve(t) \/ EnqStore(t) \/ DeqReadReadIndex(t)
             \/ DeqReadMaximum(t) \/ DeqLoad(t)
      PROVE  CountAgrees'
  <2>1. \E l \in PC \ {"e_count", "d_count"} : pc' = [pc EXCEPT ![t] = l]
    BY <1>5 DEF PC, Holding, EnqueueCall, DequeueCall, EnqReadWriteIndex, EnqReadReadIndex,
       EnqReserve, EnqStore, DeqReadReadIndex, DeqReadMaximum, DeqLoad
  <2>2. /\ pc[t] \notin {"e_count", "d_count"}
        /\ UNCHANGED <<m_count, m_readIndex, m_maximumReadIndex>>
    BY <1>5 DEF EnqueueCall, DequeueCall, EnqReadWriteIndex, EnqReadReadIndex,
       EnqReserve, EnqStore, DeqReadReadIndex, DeqReadMaximum, DeqLoad
  <2>3. PICK l \in PC \ {"e_count", "d_count"} : pc' = [pc EXCEPT ![t] = l]
    BY <2>1
  <2>4. /\ Cardinality(ThreadsAt("e_count")') = Cardinality(ThreadsAt("e_count"))
        /\ Cardinality(ThreadsAt("d_count")') = Cardinality(ThreadsAt("d_count"))
    BY <2>2, <2>3, NumberAt, OthersStay
  <2>. QED  BY <2>2, <2>4, <1>0 DEF Balance
<1>6. CASE UNCHANGED vars
  BY <1>6 DEF vars, CountAgrees
<1>. QED  BY <1>1, <1>2, <1>3, <1>4, <1>5, <1>6 DEF Next, EnqStep, DeqStep

LEMMA InitCountAgrees ==
    ASSUME Init
    PROVE  CountAgrees
<1>1. {t \in Threads : pc[t] = "e_count"} = {} /\ {t \in Threads : pc[t] = "d_count"} = {}
  BY DEF Init
<1>2. m_count = 0 /\ m_maximumReadIndex - m_readIndex = 0
  BY DEF Init
<1>3. Cardinality({}) = 0
  BY FS_EmptySet
<1>4. 0 = ((0 - 0) + 0) % IndexMod
  BY QueueAssumption
<1>. QED  BY <1>1, <1>2, <1>3, <1>4 DEF CountAgrees

\* m_count, which is updated after the queue and read by nobody's test, is off by
\* exactly the operations that have not counted themselves yet, for any finite
\* number of threads.
THEOREM CounterLags == NoWrap /\ IsFiniteSet(Threads) => (Spec => []CountAgrees)
<1>. SUFFICES ASSUME NoWrap, IsFiniteSet(Threads) PROVE Spec => []CountAgrees
  OBVIOUS
<1>1. Init => CountAgrees
  BY InitCountAgrees
<1>2. IInv /\ IInv' /\ CountAgrees /\ [Next]_vars => CountAgrees'
  BY BalanceStep
<1>. QED  BY <1>1, <1>2, InductiveInvariant, PTL DEF Spec
=============================================================================
