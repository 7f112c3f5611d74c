------------------------ MODULE ArrayQueueBenchProofs ------------------------
(***************************************************************************)
(* The program of 4_test_lock_free_queue.cpp loses no value: its consumers *)
(* leave when all that the producers enqueue has been handed over, for any *)
(* numbers of threads and values, as long as no index wraps.               *)
(***************************************************************************)
EXTENDS ArrayQueueBench, ArrayLockFreeQueueProofs
-----------------------------------------------------------------------------
(* Counting *)

\* A finite set that gains or loses at most x.
LEMMA OneChanges ==
    ASSUME NEW A, NEW B, NEW x, IsFiniteSet(A), \A y : y # x => (y \in A <=> y \in B)
    PROVE  /\ IsFiniteSet(B) /\ Cardinality(A) \in Nat /\ Cardinality(B) \in Nat
           /\ (x \in A <=> x \in B) => B = A /\ Cardinality(B) = Cardinality(A)
           /\ x \notin A /\ x \in B => Cardinality(B) = Cardinality(A) + 1
           /\ x \in A /\ x \notin B => Cardinality(B) = Cardinality(A) - 1
<1>1. CASE x \in A <=> x \in B
  <2>1. A = B
    BY <1>1
  <2>. QED  BY <1>1, <2>1, FS_CardinalityType
<1>2. CASE x \notin A /\ x \in B
  <2>1. B = A \cup {x}
    BY <1>2
  <2>. QED  BY <1>2, <2>1, FS_AddElement, FS_CardinalityType
<1>3. CASE x \in A /\ x \notin B
  <2>1. B = A \ {x}
    BY <1>3
  <2>. QED  BY <1>3, <2>1, FS_RemoveElement, FS_CardinalityType
<1>. QED  BY <1>1, <1>2, <1>3

LEMMA BenchFacts ==
    /\ Threads = Producers \cup Consumers /\ Producers \cap Consumers = {}
    /\ IsFiniteSet(Producers) /\ IsFiniteSet(Consumers)
    /\ Cardinality(Producers) \in Nat
    /\ s_queue_item_num \in Nat /\ s_queue_item_num >= 1 /\ Total \in Nat
    /\ Data = 0..Total /\ Zero = 0 /\ MaxEnqueues \in Nat
<1>1. IsFiniteSet(Producers) /\ IsFiniteSet(Consumers) /\ Cardinality(Producers) \in Nat
  BY BenchAssumption, FS_Subset, FS_CardinalityType
<1>2. Total \in Nat
  BY <1>1, BenchAssumption DEF Total
<1>. QED  BY <1>1, <1>2, BenchAssumption, QueueAssumption

\* What all the producers' loops ask for.
Asked == Producers \X (1..s_queue_item_num)

LEMMA AskedIsTotal == IsFiniteSet(Asked) /\ Cardinality(Asked) = Total
<1>1. IsFiniteSet(1..s_queue_item_num) /\ Cardinality(1..s_queue_item_num) = s_queue_item_num
  <2>1. s_queue_item_num \in Int /\ 1 \in Int /\ ~(1 > s_queue_item_num)
    BY BenchFacts
  <2>. QED  BY <2>1, FS_Interval
<1>2. /\ IsFiniteSet(Producers \X (1..s_queue_item_num))
      /\ Cardinality(Producers \X (1..s_queue_item_num))
           = Cardinality(Producers) * Cardinality(1..s_queue_item_num)
  BY <1>1, BenchFacts, FS_Product
<1>3. Cardinality(Producers) * s_queue_item_num = s_queue_item_num * Cardinality(Producers)
  BY BenchFacts
<1>. QED  BY <1>1, <1>2, <1>3 DEF Asked, Total

\* The sets that are counted are finite, and the write index stays within what is asked
\* for.
LEMMA Finite ==
    /\ IsFiniteSet(PushPending) /\ IsFiniteSet(PopPending) /\ IsFiniteSet(Reservations)
    /\ Cardinality(PushPending) \in Nat /\ Cardinality(PopPending) \in Nat
    /\ Cardinality(Reservations) \in Nat /\ Cardinality(Reservations) <= Total
<1>1. IsFiniteSet(PushPending) /\ IsFiniteSet(PopPending)
  BY BenchFacts, FS_Subset DEF PushPending, PopPending
<1>2. Reservations \subseteq Asked
  BY DEF Reservations, Asked
<1>3. IsFiniteSet(Reservations) /\ Cardinality(Reservations) <= Total
  BY <1>2, AskedIsTotal, FS_Subset
<1>. QED  BY <1>1, <1>3, FS_CardinalityType
-----------------------------------------------------------------------------
(* What a step inside the queue does to the indices *)

\* The other threads stay where they are.
OthersKeep(t) == \A u \in Threads : u # t => pc'[u] = pc[u]

LEMMA EnqStepFacts ==
    ASSUME NoWrap, IInv, NEW t \in Threads, EnqStep(t)
    PROVE  /\ OthersKeep(t) /\ m_readIndex' = m_readIndex
           /\ pc[t] \in EnqPlaces \ {"idle"} /\ pc'[t] \in EnqPlaces
           /\ pc[t] = "e_count" => pc'[t] = "idle"
           /\ \/ /\ pc[t] = "e_reserve" /\ pc'[t] = "e_store"
                 /\ m_writeIndex' = m_writeIndex + 1
              \/ /\ m_writeIndex' = m_writeIndex
                 /\ pc[t] \in Holding \cup {"e_count"}
                      <=> pc'[t] \in Holding \cup {"e_count"} \/ pc[t] = "e_count"
<1>. USE DEF EnqPlaces, Holding, OthersKeep, shared
<1>1. pc \in [Threads -> PC]
  BY DEF IInv, TypeOK
<1>2. CASE EnqReserve(t)
  <2>1. CASE m_writeIndex = cw[t]
    <3>1. m_writeIndex \in 0..MaxEnqueues
      BY DEF IInv, TypeOK, IndicesCount
    <3>2. m_writeIndex' = m_writeIndex + 1
      BY <1>2, <2>1, <3>1, IncIsPlusOne DEF EnqReserve
    <3>. QED  BY <1>1, <1>2, <2>1, <3>2 DEF EnqReserve, Goto
  <2>2. CASE m_writeIndex # cw[t]
    BY <1>1, <1>2, <2>2 DEF EnqReserve, Goto
  <2>. QED  BY <2>1, <2>2
<1>3. CASE EnqReadReadIndex(t)
  BY <1>1, <1>3 DEF EnqReadReadIndex, Return
<1>4. CASE EnqReadWriteIndex(t)
  BY <1>1, <1>4 DEF EnqReadWriteIndex
<1>5. CASE EnqStore(t)
  BY <1>1, <1>5 DEF EnqStore, Goto
<1>6. CASE EnqCommit(t)
  BY <1>1, <1>6 DEF EnqCommit, Goto
<1>7. CASE EnqCount(t)
  BY <1>1, <1>7 DEF EnqCount, Return
<1>. QED  BY <1>2, <1>3, <1>4, <1>5, <1>6, <1>7 DEF EnqStep

LEMMA DeqStepFacts ==
    ASSUME NoWrap, IInv, NEW t \in Threads, DeqStep(t)
    PROVE  /\ OthersKeep(t) /\ m_writeIndex' = m_writeIndex
           /\ pc[t] \in DeqPlaces \ {"idle"} /\ pc'[t] \in DeqPlaces
           /\ pc[t] = "d_count" => pc'[t] = "idle"
           /\ \/ /\ pc[t] = "d_take" /\ pc'[t] = "d_count"
                 /\ m_readIndex' = m_readIndex + 1
              \/ m_readIndex' = m_readIndex /\ pc'[t] # "d_count"
<1>. USE DEF DeqPlaces, OthersKeep, shared
<1>1. pc \in [Threads -> PC]
  BY DEF IInv, TypeOK
<1>2. CASE DeqTake(t)
  <2>1. CASE m_readIndex = cr[t]
    <3>1. m_readIndex \in 0..MaxEnqueues
      <4>1. m_readIndex \in Nat /\ m_readIndex = Len(out) /\ Len(out) <= Len(log)
            /\ Len(log) <= MaxEnqueues /\ Len(log) \in Nat
        BY DEF IInv, TypeOK, IndicesCount, Fifo
      <4>. QED  BY <4>1, QueueAssumption
    <3>2. m_readIndex' = m_readIndex + 1
      BY <1>2, <2>1, <3>1, IncIsPlusOne DEF DeqTake
    <3>. QED  BY <1>1, <1>2, <2>1, <3>2 DEF DeqTake, Goto
  <2>2. CASE m_readIndex # cr[t]
    BY <1>1, <1>2, <2>2 DEF DeqTake, Goto
  <2>. QED  BY <2>1, <2>2
<1>3. CASE DeqReadMaximum(t)
  BY <1>1, <1>3 DEF DeqReadMaximum, Return, Goto
<1>4. CASE DeqReadReadIndex(t)
  BY <1>1, <1>4 DEF DeqReadReadIndex
<1>5. CASE DeqLoad(t)
  BY <1>1, <1>5 DEF DeqLoad
<1>6. CASE DeqCount(t)
  BY <1>1, <1>6 DEF DeqCount, Return
<1>. QED  BY <1>2, <1>3, <1>4, <1>5, <1>6 DEF DeqStep

-----------------------------------------------------------------------------
(* What a step of one thread changes *)

\* Only thread t moves, and the counters do not shrink.
Moves(t) == /\ OthersKeep(t)
            /\ \A u \in Threads : u # t => at'[u] = at[u]
            /\ \A p \in Producers : p # t => i'[p] = i[p] /\ count'[p] = count[p]
            /\ s_count_push' >= s_count_push /\ s_count_pop' >= s_count_pop

\* The part of Loops that is about thread t.
LoopOf(t) == /\ at[t] # "call" => pc[t] = "idle"
             /\ t \in Producers => /\ pc[t] \in EnqPlaces /\ at[t] # "test"
                                   /\ at[t] = "done" <=> i[t] = s_queue_item_num
                                   /\ count[t] <= s_count_push
                                   /\ at[t] = "read" => count[t] < s_count_push
             /\ t \in Consumers => /\ pc[t] \in DeqPlaces /\ at[t] # "read"
                                   /\ at[t] = "done" => s_count_pop >= Total

LEMMA LoopsStep ==
    ASSUME BenchTypes, BenchTypes', Loops, NEW t \in Threads, Moves(t), LoopOf(t)'
    PROVE  Loops'
<1>1. ASSUME NEW u \in Threads, u # t PROVE LoopOf(u)'
  <2>1. LoopOf(u) /\ pc'[u] = pc[u] /\ at'[u] = at[u]
    BY <1>1 DEF Loops, LoopOf, Moves, OthersKeep
  <2>2. CASE u \in Producers
    <3>1. i'[u] = i[u] /\ count'[u] = count[u] /\ count[u] \in Nat
      BY <1>1, <2>2 DEF Moves, BenchTypes
    <3>2. s_count_push \in Nat /\ s_count_push' \in Nat /\ s_count_push' >= s_count_push
      BY DEF Moves, BenchTypes
    <3>3. u \notin Consumers
      BY <2>2, BenchFacts
    <3>. QED  BY <2>1, <2>2, <3>1, <3>2, <3>3 DEF LoopOf
  <2>3. CASE u \in Consumers
    <3>1. s_count_pop \in Nat /\ s_count_pop' \in Nat /\ s_count_pop' >= s_count_pop
      BY DEF Moves, BenchTypes
    <3>2. u \notin Producers /\ Total \in Nat
      BY <2>3, BenchFacts
    <3>. QED  BY <2>1, <2>3, <3>1, <3>2 DEF LoopOf
  <2>. QED  BY <2>2, <2>3, BenchFacts
<1>2. \A u \in Threads : LoopOf(u)'
  BY <1>1
<1>3. \A u : u \in Threads <=> u \in Producers \/ u \in Consumers
  BY BenchFacts
<1>. QED  BY ONLY <1>2, <1>3 DEF Loops, LoopOf

\* What producer p has reserved so far.
Done(p) == i[p] + (IF Reserved(p) THEN 1 ELSE 0)

LEMMA ProducerCounts ==
    ASSUME BenchTypes, BenchTypes', NEW p \in Producers, Moves(p)
    PROVE  /\ Cardinality(PopPending') = Cardinality(PopPending)
           /\ (p \in PushPending <=> p \in PushPending')
                => Cardinality(PushPending') = Cardinality(PushPending)
           /\ p \notin PushPending /\ p \in PushPending'
                => Cardinality(PushPending') = Cardinality(PushPending) + 1
           /\ p \in PushPending /\ p \notin PushPending'
                => Cardinality(PushPending') = Cardinality(PushPending) - 1
           /\ Done(p)' = Done(p) => Cardinality(Reservations') = Cardinality(Reservations)
           /\ Done(p)' = Done(p) + 1 /\ Done(p) < s_queue_item_num
                => Cardinality(Reservations') = Cardinality(Reservations) + 1
<1>1. PopPending' = PopPending
  BY BenchFacts DEF PopPending, Moves, OthersKeep
<1>2. \A q : q # p => (q \in PushPending <=> q \in PushPending')
  BY BenchFacts DEF PushPending, Moves, OthersKeep
<1>3. \A q \in Producers : q # p => Done(q)' = Done(q)
  <2>1. ASSUME NEW q \in Producers, q # p PROVE Done(q)' = Done(q)
    <3>1. i'[q] = i[q] /\ at'[q] = at[q] /\ pc'[q] = pc[q]
      BY <2>1, BenchFacts DEF Moves, OthersKeep
    <3>. QED  BY <3>1 DEF Done, Reserved
  <2>. QED  BY <2>1
<1>4. /\ Reservations = {r \in Asked : r[2] <= Done(r[1])}
      /\ Reservations' = {r \in Asked : r[2] <= Done(r[1])'}
  BY DEF Reservations, Asked, Done, Reserved
<1>5. /\ \A r \in Asked : r \in Reservations <=> r[2] <= Done(r[1])
      /\ \A r \in Asked : r \in Reservations' <=> r[2] <= Done(r[1])'
      /\ \A r \in Reservations : r \in Asked
      /\ \A r \in Reservations' : r \in Asked
      /\ \A r \in Asked : r[1] \in Producers /\ r[2] \in 1..s_queue_item_num
      /\ \A r \in Asked : r = <<r[1], r[2]>>
      /\ \A q \in Producers, k \in 1..s_queue_item_num :
            <<q, k>> \in Asked /\ <<q, k>>[1] = q /\ <<q, k>>[2] = k
  BY <1>4 DEF Asked
<1>6. ASSUME Done(p)' = Done(p) PROVE Reservations' = Reservations
  <2>1. \A q \in Producers : Done(q)' = Done(q)
    BY <1>3, <1>6
  <2>. QED  BY ONLY <1>5, <2>1
<1>7. ASSUME Done(p)' = Done(p) + 1, Done(p) < s_queue_item_num
      PROVE  Cardinality(Reservations') = Cardinality(Reservations) + 1
  <2>1. Done(p) \in Nat /\ s_queue_item_num \in Nat
    BY BenchFacts DEF Done, BenchTypes
  <2>2. PICK k \in 1..s_queue_item_num : k = Done(p) + 1
    BY <1>7, <2>1
  <2>3. PICK x : x = <<p, k>>
    OBVIOUS
  <2>4. x \in Asked /\ x[1] = p /\ x[2] = k
    BY <1>5, <2>3
  <2>5. x \notin Reservations /\ x \in Reservations'
    BY <1>5, <1>7, <2>1, <2>2, <2>4
  <2>6. ASSUME NEW y, y # x PROVE y \in Reservations <=> y \in Reservations'
    <3>1. CASE y \in Asked
      <4>1. CASE y[1] = p
        <5>1. y[2] \in 1..s_queue_item_num /\ y[2] # k
          BY <3>1, <4>1, <2>3, <2>6, <1>5
        <5>2. y[2] <= Done(p) <=> y[2] <= Done(p) + 1
          BY <5>1, <2>1, <2>2
        <5>. QED  BY <3>1, <4>1, <5>2, <1>5, <1>7
      <4>2. CASE y[1] # p
        BY <3>1, <4>2, <1>3, <1>5
      <4>. QED  BY <4>1, <4>2
    <3>2. CASE y \notin Asked
      BY <3>2, <1>5
    <3>. QED  BY <3>1, <3>2
  <2>. QED  BY <2>5, <2>6, Finite, OneChanges
<1>. QED  BY <1>1, <1>2, <1>6, <1>7, Finite, OneChanges

LEMMA ConsumerCounts ==
    ASSUME BenchTypes, BenchTypes', NEW c \in Consumers, Moves(c)
    PROVE  /\ Cardinality(PushPending') = Cardinality(PushPending)
           /\ Cardinality(Reservations') = Cardinality(Reservations)
           /\ (c \in PopPending <=> c \in PopPending')
                => Cardinality(PopPending') = Cardinality(PopPending)
           /\ c \notin PopPending /\ c \in PopPending'
                => Cardinality(PopPending') = Cardinality(PopPending) + 1
           /\ c \in PopPending /\ c \notin PopPending'
                => Cardinality(PopPending') = Cardinality(PopPending) - 1
<1>1. \A q \in Producers : pc'[q] = pc[q] /\ at'[q] = at[q] /\ i'[q] = i[q]
  BY BenchFacts DEF Moves, OthersKeep
<1>2. PushPending' = PushPending
  BY <1>1 DEF PushPending
<1>3. Reservations' = Reservations
  BY <1>1 DEF Reservations, Reserved
<1>4. \A d : d # c => (d \in PopPending <=> d \in PopPending')
  BY BenchFacts DEF PopPending, Moves, OthersKeep
<1>. QED  BY <1>2, <1>3, <1>4, Finite, OneChanges

-----------------------------------------------------------------------------
(* The steps *)

LEMMA DoProduceCall ==
    ASSUME NoWrap, IInv, BenchInv, NEW p \in Producers, ProduceCall(p)
    PROVE  BenchInv'
<1>. USE DEF benchVars, shared
<1>1. p \in Threads /\ p \notin Consumers /\ pc \in [Threads -> PC]
  BY BenchFacts DEF IInv, TypeOK
<1>2. /\ at[p] = "call" /\ pc[p] = "idle" /\ pc' = [pc EXCEPT ![p] = "e_readW"]
      /\ UNCHANGED <<s_count_push, s_count_pop, at, i, count, m_readIndex, m_writeIndex>>
  BY DEF ProduceCall, EnqueueCall
<1>3. BenchTypes /\ BenchTypes' /\ Loops /\ CountersLag
  BY <1>2 DEF BenchInv, BenchTypes
<1>4. Moves(p) /\ pc'[p] = "e_readW"
  BY <1>1, <1>2, <1>3 DEF Moves, OthersKeep, BenchTypes
<1>5. LoopOf(p)'
  BY <1>1, <1>2, <1>3, <1>4 DEF Loops, LoopOf, EnqPlaces
<1>6. Loops'
  BY <1>1, <1>3, <1>4, <1>5, LoopsStep
<1>7. p \notin PushPending /\ p \notin PushPending' /\ Done(p)' = Done(p)
  BY <1>2, <1>4 DEF PushPending, Done, Reserved, Holding
<1>8. CountersLag'
  BY <1>2, <1>3, <1>4, <1>7, ProducerCounts DEF CountersLag
<1>. QED  BY <1>3, <1>6, <1>8 DEF BenchInv

LEMMA DoProduce ==
    ASSUME NoWrap, IInv, BenchInv, NEW p \in Producers, Produce(p)
    PROVE  BenchInv'
<1>1. p \in Threads /\ p \notin Consumers /\ pc \in [Threads -> PC]
  BY BenchFacts DEF IInv, TypeOK
<1>2. /\ at[p] = "call" /\ EnqStep(p)
      /\ at' = [at EXCEPT ![p] = IF pc[p] = "e_count" THEN "add" ELSE "call"]
      /\ UNCHANGED <<s_count_push, s_count_pop, i, count>>
  BY DEF Produce, At
<1>3. BenchTypes /\ BenchTypes' /\ Loops /\ CountersLag
  BY <1>1, <1>2 DEF BenchInv, BenchTypes
<1>4. /\ OthersKeep(p) /\ m_readIndex' = m_readIndex
      /\ pc[p] \in EnqPlaces \ {"idle"} /\ pc'[p] \in EnqPlaces
      /\ pc[p] = "e_count" => pc'[p] = "idle"
      /\ \/ /\ pc[p] = "e_reserve" /\ pc'[p] = "e_store"
            /\ m_writeIndex' = m_writeIndex + 1
         \/ /\ m_writeIndex' = m_writeIndex
            /\ pc[p] \in Holding \cup {"e_count"}
                 <=> pc'[p] \in Holding \cup {"e_count"} \/ pc[p] = "e_count"
  BY <1>1, <1>2, EnqStepFacts
<1>5. /\ Moves(p) /\ at'[p] = IF pc[p] = "e_count" THEN "add" ELSE "call"
  BY <1>1, <1>2, <1>3, <1>4 DEF Moves, BenchTypes
<1>6. LoopOf(p)'
  BY <1>1, <1>2, <1>3, <1>4, <1>5 DEF Loops, LoopOf
<1>7. Loops'
  BY <1>1, <1>3, <1>5, <1>6, LoopsStep
<1>8. i[p] \in Nat /\ i[p] < s_queue_item_num /\ i'[p] = i[p]
  <2>1. i[p] \in 0..s_queue_item_num /\ i[p] # s_queue_item_num
    BY <1>1, <1>2, <1>3 DEF BenchTypes, Loops
  <2>. QED  BY <1>2, <2>1, BenchFacts
<1>9. m_writeIndex \in Nat /\ s_count_push \in Nat
  BY <1>3 DEF IInv, TypeOK, BenchTypes
<1>10. CountersLag'
  <2>1. CASE pc[p] = "e_reserve" /\ pc'[p] = "e_store" /\ m_writeIndex' = m_writeIndex + 1
    <3>1. /\ p \notin PushPending /\ p \in PushPending'
          /\ Done(p)' = Done(p) + 1 /\ Done(p) < s_queue_item_num
      BY <1>2, <1>5, <1>8, <2>1 DEF PushPending, Done, Reserved, Holding
    <3>. QED  BY <1>2, <1>3, <1>4, <1>5, <1>9, <2>1, <3>1, Finite, ProducerCounts DEF CountersLag
  <2>2. CASE /\ m_writeIndex' = m_writeIndex
             /\ pc[p] \in Holding \cup {"e_count"}
                  <=> pc'[p] \in Holding \cup {"e_count"} \/ pc[p] = "e_count"
    <3>1. (p \in PushPending <=> p \in PushPending') /\ Done(p)' = Done(p)
      <4>1. CASE pc[p] = "e_count"
        BY <1>2, <1>4, <1>5, <1>8, <4>1 DEF PushPending, Done, Reserved
      <4>2. CASE pc[p] # "e_count"
        <5>1. /\ at[p] = "call" /\ at'[p] = "call"
              /\ pc[p] \in Holding \cup {"e_count"} <=> pc'[p] \in Holding \cup {"e_count"}
          BY <1>2, <1>5, <2>2, <4>2
        <5>. QED  BY ONLY <5>1, <1>8 DEF PushPending, Done, Reserved
      <4>. QED  BY <4>1, <4>2
    <3>. QED  BY <1>2, <1>3, <1>4, <1>5, <2>2, <3>1, ProducerCounts DEF CountersLag
  <2>. QED  BY <1>4, <2>1, <2>2
<1>. QED  BY <1>3, <1>7, <1>10 DEF BenchInv

LEMMA DoPushAdd ==
    ASSUME NoWrap, IInv, BenchInv, NEW p \in Producers, PushAdd(p)
    PROVE  BenchInv'
<1>1. p \in Threads /\ p \notin Consumers
  BY BenchFacts
<1>2. /\ at[p] = "add" /\ s_count_push' = s_count_push + 1 /\ at' = [at EXCEPT ![p] = "read"]
      /\ UNCHANGED <<pc, s_count_pop, i, count, m_readIndex, m_writeIndex>>
  BY DEF PushAdd, At, vars, shared
<1>3. BenchTypes /\ BenchTypes' /\ Loops /\ CountersLag
  BY <1>1, <1>2 DEF BenchInv, BenchTypes
<1>4. Moves(p) /\ at'[p] = "read"
  BY <1>1, <1>2, <1>3 DEF Moves, OthersKeep, BenchTypes
<1>5. LoopOf(p)'
  BY <1>1, <1>2, <1>3, <1>4 DEF Loops, LoopOf, BenchTypes
<1>6. Loops'
  BY <1>1, <1>3, <1>4, <1>5, LoopsStep
<1>7. p \in PushPending /\ p \notin PushPending' /\ Done(p)' = Done(p)
  <2>1. pc[p] = "idle"
    BY <1>1, <1>2, <1>3 DEF Loops
  <2>. QED  BY <1>2, <1>4, <2>1 DEF PushPending, Done, Reserved, Holding
<1>8. CountersLag'
  BY <1>2, <1>3, <1>4, <1>7, Finite, ProducerCounts DEF CountersLag, BenchTypes
<1>. QED  BY <1>3, <1>6, <1>8 DEF BenchInv

LEMMA DoPushRead ==
    ASSUME NoWrap, IInv, BenchInv, NEW p \in Producers, PushRead(p)
    PROVE  BenchInv'
<1>1. p \in Threads /\ p \notin Consumers /\ s_queue_item_num \in Nat
  BY BenchFacts
<1>2. /\ at[p] = "read" /\ count' = [count EXCEPT ![p] = s_count_push]
      /\ i' = [i EXCEPT ![p] = i[p] + 1]
      /\ at' = [at EXCEPT ![p] = IF i[p] + 1 < s_queue_item_num THEN "call" ELSE "done"]
      /\ UNCHANGED <<pc, s_count_push, s_count_pop, m_readIndex, m_writeIndex>>
  BY DEF PushRead, At, vars, shared
<1>3. BenchTypes /\ Loops /\ CountersLag
  BY DEF BenchInv
<1>4. i[p] \in Nat /\ i[p] + 1 \in 0..s_queue_item_num /\ pc[p] = "idle"
  <2>1. i[p] \in 0..s_queue_item_num /\ i[p] # s_queue_item_num
    BY <1>1, <1>2, <1>3 DEF BenchTypes, Loops
  <2>2. pc[p] = "idle"
    BY <1>1, <1>2, <1>3 DEF Loops
  <2>. QED  BY <1>1, <2>1, <2>2
<1>5. BenchTypes'
  BY <1>1, <1>2, <1>3, <1>4 DEF BenchTypes
<1>6. /\ Moves(p) /\ i'[p] = i[p] + 1 /\ count'[p] = s_count_push
      /\ at'[p] = IF i[p] + 1 < s_queue_item_num THEN "call" ELSE "done"
  BY <1>1, <1>2, <1>3 DEF Moves, OthersKeep, BenchTypes
<1>7. LoopOf(p)'
  <2>1. s_count_push \in Nat /\ s_count_push' = s_count_push /\ pc'[p] = "idle"
    BY <1>2, <1>3, <1>4 DEF BenchTypes
  <2>. QED  BY <1>1, <1>4, <1>6, <2>1 DEF LoopOf, EnqPlaces
<1>8. Loops'
  BY <1>1, <1>3, <1>5, <1>6, <1>7, LoopsStep
<1>9. p \notin PushPending /\ p \notin PushPending' /\ Done(p)' = Done(p)
  BY <1>2, <1>4, <1>6 DEF PushPending, Done, Reserved, Holding
<1>10. CountersLag'
  BY <1>2, <1>3, <1>5, <1>6, <1>9, ProducerCounts DEF CountersLag
<1>. QED  BY <1>5, <1>8, <1>10 DEF BenchInv

LEMMA DoConsumeCall ==
    ASSUME NoWrap, IInv, BenchInv, NEW c \in Consumers, ConsumeCall(c)
    PROVE  BenchInv'
<1>. USE DEF benchVars, shared
<1>1. c \in Threads /\ c \notin Producers /\ pc \in [Threads -> PC]
  BY BenchFacts DEF IInv, TypeOK
<1>2. /\ at[c] = "call" /\ pc[c] = "idle" /\ pc' = [pc EXCEPT ![c] = "d_readR"]
      /\ UNCHANGED <<s_count_push, s_count_pop, at, i, count, m_readIndex, m_writeIndex>>
  BY DEF ConsumeCall, DequeueCall, Goto
<1>3. BenchTypes /\ BenchTypes' /\ Loops /\ CountersLag
  BY <1>2 DEF BenchInv, BenchTypes
<1>4. Moves(c) /\ pc'[c] = "d_readR"
  BY <1>1, <1>2, <1>3 DEF Moves, OthersKeep, BenchTypes
<1>5. LoopOf(c)'
  BY <1>1, <1>2, <1>4 DEF LoopOf, DeqPlaces
<1>6. Loops'
  BY <1>1, <1>3, <1>4, <1>5, LoopsStep
<1>7. c \notin PopPending /\ c \notin PopPending'
  BY <1>2, <1>4 DEF PopPending
<1>8. CountersLag'
  BY <1>2, <1>3, <1>4, <1>7, ConsumerCounts DEF CountersLag
<1>. QED  BY <1>3, <1>6, <1>8 DEF BenchInv

LEMMA DoConsume ==
    ASSUME NoWrap, IInv, BenchInv, NEW c \in Consumers, Consume(c)
    PROVE  BenchInv'
<1>1. c \in Threads /\ c \notin Producers
  BY BenchFacts
<1>2. /\ at[c] = "call" /\ DeqStep(c)
      /\ at' = [at EXCEPT ![c] = IF pc[c] = "d_count" THEN "add"
                                 ELSE IF pc'[c] = "idle" THEN "test" ELSE "call"]
      /\ UNCHANGED <<s_count_push, s_count_pop, i, count>>
  BY DEF Consume, At
<1>3. BenchTypes /\ BenchTypes' /\ Loops /\ CountersLag
  BY <1>1, <1>2 DEF BenchInv, BenchTypes
<1>4. /\ OthersKeep(c) /\ m_writeIndex' = m_writeIndex
      /\ pc[c] \in DeqPlaces \ {"idle"} /\ pc'[c] \in DeqPlaces
      /\ pc[c] = "d_count" => pc'[c] = "idle"
      /\ \/ pc[c] = "d_take" /\ pc'[c] = "d_count" /\ m_readIndex' = m_readIndex + 1
         \/ m_readIndex' = m_readIndex /\ pc'[c] # "d_count"
  BY <1>1, <1>2, DeqStepFacts
<1>5. /\ Moves(c)
      /\ at'[c] = IF pc[c] = "d_count" THEN "add" ELSE IF pc'[c] = "idle" THEN "test" ELSE "call"
  BY <1>1, <1>2, <1>3, <1>4 DEF Moves, BenchTypes
<1>6. LoopOf(c)'
  BY <1>1, <1>4, <1>5 DEF LoopOf
<1>7. Loops'
  BY <1>1, <1>3, <1>5, <1>6, LoopsStep
<1>8. m_readIndex \in Nat /\ s_count_pop \in Nat
  BY <1>3 DEF IInv, TypeOK, BenchTypes
<1>9. CountersLag'
  <2>1. CASE pc[c] = "d_take" /\ pc'[c] = "d_count" /\ m_readIndex' = m_readIndex + 1
    <3>1. c \notin PopPending /\ c \in PopPending'
      BY <1>2, <2>1 DEF PopPending
    <3>. QED  BY <1>2, <1>3, <1>4, <1>5, <1>8, <2>1, <3>1, Finite, ConsumerCounts DEF CountersLag
  <2>2. CASE m_readIndex' = m_readIndex /\ pc'[c] # "d_count"
    <3>1. c \in PopPending <=> c \in PopPending'
      BY <1>2, <1>5, <2>2 DEF PopPending
    <3>. QED  BY <1>2, <1>3, <1>4, <1>5, <2>2, <3>1, ConsumerCounts DEF CountersLag
  <2>. QED  BY <1>4, <2>1, <2>2
<1>. QED  BY <1>3, <1>7, <1>9 DEF BenchInv

LEMMA DoPopAdd ==
    ASSUME NoWrap, IInv, BenchInv, NEW c \in Consumers, PopAdd(c)
    PROVE  BenchInv'
<1>1. c \in Threads /\ c \notin Producers
  BY BenchFacts
<1>2. /\ at[c] = "add" /\ s_count_pop' = s_count_pop + 1 /\ at' = [at EXCEPT ![c] = "test"]
      /\ UNCHANGED <<pc, s_count_push, i, count, m_readIndex, m_writeIndex>>
  BY DEF PopAdd, At, vars, shared
<1>3. BenchTypes /\ BenchTypes' /\ Loops /\ CountersLag
  BY <1>1, <1>2 DEF BenchInv, BenchTypes
<1>4. Moves(c) /\ at'[c] = "test" /\ pc[c] = "idle" /\ pc'[c] = "idle"
  BY <1>1, <1>2, <1>3 DEF Moves, OthersKeep, BenchTypes, Loops
<1>5. LoopOf(c)'
  BY <1>1, <1>4 DEF LoopOf, DeqPlaces
<1>6. Loops'
  BY <1>1, <1>3, <1>4, <1>5, LoopsStep
<1>7. c \in PopPending /\ c \notin PopPending'
  BY <1>2, <1>4 DEF PopPending
<1>8. CountersLag'
  BY <1>2, <1>3, <1>4, <1>7, Finite, ConsumerCounts DEF CountersLag, BenchTypes
<1>. QED  BY <1>3, <1>6, <1>8 DEF BenchInv

LEMMA DoPopTest ==
    ASSUME NoWrap, IInv, BenchInv, NEW c \in Consumers, PopTest(c)
    PROVE  BenchInv'
<1>1. c \in Threads /\ c \notin Producers
  BY BenchFacts
<1>2. /\ at[c] = "test" /\ at' = [at EXCEPT ![c] = IF s_count_pop >= Total THEN "done" ELSE "call"]
      /\ UNCHANGED <<pc, s_count_push, s_count_pop, i, count, m_readIndex, m_writeIndex>>
  BY DEF PopTest, At, vars, shared
<1>3. BenchTypes /\ BenchTypes' /\ Loops /\ CountersLag
  BY <1>1, <1>2 DEF BenchInv, BenchTypes
<1>4. /\ Moves(c) /\ at'[c] = IF s_count_pop >= Total THEN "done" ELSE "call"
      /\ pc[c] = "idle" /\ pc'[c] = "idle"
  BY <1>1, <1>2, <1>3 DEF Moves, OthersKeep, BenchTypes, Loops
<1>5. LoopOf(c)'
  BY <1>1, <1>2, <1>4 DEF LoopOf, DeqPlaces
<1>6. Loops'
  BY <1>1, <1>3, <1>4, <1>5, LoopsStep
<1>7. c \notin PopPending /\ c \notin PopPending'
  BY <1>2, <1>4 DEF PopPending
<1>8. CountersLag'
  BY <1>2, <1>3, <1>4, <1>7, ConsumerCounts DEF CountersLag
<1>. QED  BY <1>3, <1>6, <1>8 DEF BenchInv
-----------------------------------------------------------------------------
(* The theorems *)

\* Every step of the program is a step of the queue's threads, or none.
LEMMA BenchNextIsNext ==
    ASSUME NoWrap, IInv, BenchInv, [BenchNext]_allVars
    PROVE  [Next]_vars
<1>1. ASSUME NEW p \in Producers, ProduceCall(p) PROVE Next
  <2>1. count[p] \in Nat /\ count[p] <= s_count_push /\ s_count_push \in Nat
    BY DEF BenchInv, BenchTypes, Loops
  <2>2. s_count_push <= m_writeIndex /\ m_writeIndex <= Total /\ m_writeIndex \in Nat
    BY <2>1, Finite DEF BenchInv, CountersLag
  <2>3. count[p] \in Data
    BY <2>1, <2>2, BenchFacts
  <2>. QED  BY <1>1, <2>3, BenchFacts DEF ProduceCall, Next
<1>2. ASSUME NEW p \in Producers, Produce(p) PROVE Next
  BY <1>2, BenchFacts DEF Produce, Next
<1>3. ASSUME NEW c \in Consumers, ConsumeCall(c) \/ Consume(c) PROVE Next
  BY <1>3, BenchFacts DEF ConsumeCall, Consume, Next
<1>4. ASSUME NEW t, PushAdd(t) \/ PushRead(t) \/ PopAdd(t) \/ PopTest(t) PROVE UNCHANGED vars
  BY <1>4 DEF PushAdd, PushRead, PopAdd, PopTest
<1>5. CASE AllJoined \/ UNCHANGED allVars
  BY <1>5 DEF AllJoined, allVars
<1>. QED  BY <1>1, <1>2, <1>3, <1>4, <1>5 DEF BenchNext, Producer, Consumer

LEMMA BenchNextInv ==
    ASSUME NoWrap, IInv, BenchInv, [BenchNext]_allVars
    PROVE  BenchInv'
<1>1. CASE AllJoined \/ UNCHANGED allVars
  <2>1. UNCHANGED <<pc, s_count_push, s_count_pop, at, i, count, m_readIndex, m_writeIndex>>
    BY <1>1 DEF AllJoined, allVars, benchVars, vars, shared
  <2>. QED  BY <2>1 DEF BenchInv, BenchTypes, Loops, CountersLag, PushPending, PopPending,
            Reservations, Reserved
<1>. QED  BY <1>1, DoProduceCall, DoProduce, DoPushAdd, DoPushRead, DoConsumeCall, DoConsume,
          DoPopAdd, DoPopTest DEF BenchNext, Producer, Consumer

LEMMA BenchInitInv ==
    ASSUME BenchInit
    PROVE  BenchInv
<1>. USE DEF BenchInit, Init
<1>1. BenchTypes
  BY BenchFacts DEF BenchTypes
<1>2. Loops
  BY BenchFacts DEF Loops, EnqPlaces, DeqPlaces
<1>3. PushPending = {} /\ PopPending = {}
  BY BenchFacts DEF PushPending, PopPending, Holding
<1>4. Reservations = {}
  <2>1. ASSUME NEW r \in Reservations PROVE FALSE
    <3>1. r[1] \in Producers /\ r[2] \in 1..s_queue_item_num
      BY DEF Reservations
    <3>2. i[r[1]] = 0 /\ ~Reserved(r[1])
      BY <3>1, BenchFacts DEF Reserved, Holding
    <3>. QED  BY <3>1, <3>2 DEF Reservations
  <2>. QED  BY <2>1
<1>5. CountersLag
  BY <1>3, <1>4, FS_EmptySet DEF CountersLag
<1>. QED  BY <1>1, <1>2, <1>5 DEF BenchInv

\* The threads of test_queue use the queue as it may be used, and their counters lag
\* behind its indices by the threads that are still to add.
THEOREM BenchInvariant == NoWrap => (BenchSpec => [](IInv /\ BenchInv /\ CountAgrees))
<1>. SUFFICES ASSUME NoWrap PROVE BenchSpec => [](IInv /\ BenchInv /\ CountAgrees)
  OBVIOUS
<1>1. BenchInit => IInv /\ BenchInv /\ CountAgrees
  BY InitIInv, BenchInitInv, InitCountAgrees DEF BenchInit
<1>2. IInv /\ BenchInv /\ CountAgrees /\ [BenchNext]_allVars
        => (IInv /\ BenchInv /\ CountAgrees)'
  <2>. SUFFICES ASSUME IInv, BenchInv, CountAgrees, [BenchNext]_allVars
                PROVE  (IInv /\ BenchInv /\ CountAgrees)'
    OBVIOUS
  <2>1. [Next]_vars
    BY BenchNextIsNext
  <2>2. IInv'
    BY <2>1, NextIInv
  <2>3. CountAgrees'
    BY <2>1, <2>2, BalanceStep, BenchAssumption
  <2>. QED  BY <2>2, <2>3, BenchNextInv
<1>. QED  BY <1>1, <1>2, PTL DEF BenchSpec

\* A consumer leaves its loop only when every value that the producers' loops enqueue has
\* been handed over, and when all threads are joined the counters say so.
THEOREM AllHandedOver == NoWrap => (BenchSpec => []NothingLeftBehind)
<1>. SUFFICES ASSUME NoWrap PROVE BenchSpec => []NothingLeftBehind
  OBVIOUS
<1>1. ASSUME IInv, BenchInv, CountAgrees PROVE NothingLeftBehind
  <2>. USE <1>1
  <2>1. /\ m_readIndex \in Nat /\ m_maximumReadIndex \in Nat /\ m_writeIndex \in Nat
        /\ m_readIndex <= m_maximumReadIndex /\ m_maximumReadIndex <= m_writeIndex
    BY DEF IInv, TypeOK, IndexOrder
  <2>2. /\ m_writeIndex <= Total /\ Total \in Nat
        /\ s_count_pop \in Nat /\ s_count_pop <= m_readIndex
        /\ s_count_push \in Nat
    BY <2>1, Finite, BenchFacts DEF BenchInv, BenchTypes, CountersLag
  <2>3. ASSUME NEW c \in Consumers, at[c] = "done"
        PROVE  m_readIndex = Total /\ m_maximumReadIndex = Total /\ s_count_pop = Total
    <3>1. s_count_pop >= Total
      BY <2>3 DEF BenchInv, Loops
    <3>. QED  BY <2>1, <2>2, <3>1
  <2>4. ASSUME \A t \in Threads : at[t] = "done" PROVE s_count_push = Total /\ m_count = 0
    <3>1. \A t \in Threads : pc[t] = "idle"
      BY <2>4 DEF BenchInv, Loops
    <3>2. PushPending = {}
      BY <2>4, <3>1, BenchFacts DEF PushPending, Holding
    <3>3. Cardinality(PushPending) = 0
      BY <3>2, FS_EmptySet
    <3>4. Reservations = Asked
      <4>1. ASSUME NEW r \in Asked PROVE r \in Reservations
        <5>1. r[1] \in Producers /\ r[2] \in 1..s_queue_item_num
          BY DEF Asked
        <5>2. i[r[1]] = s_queue_item_num
          BY <2>4, <5>1, BenchFacts DEF BenchInv, Loops
        <5>3. r[2] <= i[r[1]] + (IF Reserved(r[1]) THEN 1 ELSE 0)
          BY <5>1, <5>2, BenchFacts
        <5>. QED  BY <5>3 DEF Asked, Reservations
      <4>. QED  BY <4>1 DEF Asked, Reservations
    <3>5. s_count_push = Total
      <4>1. /\ m_writeIndex = Cardinality(Reservations)
            /\ m_writeIndex = s_count_push + Cardinality(PushPending)
        BY DEF BenchInv, CountersLag
      <4>2. Cardinality(Reservations) = Total
        BY <3>4, AskedIsTotal
      <4>3. m_writeIndex = Total /\ Cardinality(PushPending) = 0 /\ s_count_push \in Nat
        BY <4>1, <4>2, <3>3, <2>2
      <4>4. m_writeIndex = s_count_push + 0
        BY ONLY <4>1, <4>3
      <4>. QED  BY ONLY <4>3, <4>4
    <3>6. m_readIndex = Total /\ m_maximumReadIndex = Total
      BY <2>3, <2>4, BenchAssumption
    <3>7. {t \in Threads : pc[t] = "e_count"} = {} /\ {t \in Threads : pc[t] = "d_count"} = {}
      BY <3>1
    <3>8. Cardinality({}) = 0
      BY FS_EmptySet
    <3>9. ((Total - Total) - 0 + 0) % IndexMod = 0
      BY <2>2, QueueAssumption
    <3>. QED  BY <3>5, <3>6, <3>7, <3>8, <3>9 DEF CountAgrees
  <2>. QED  BY <2>3, <2>4 DEF NothingLeftBehind
<1>2. IInv /\ BenchInv /\ CountAgrees => NothingLeftBehind
  BY <1>1
<1>. QED  BY <1>2, BenchInvariant, PTL

\* The values one producer enqueues keep growing, although lxx_atomic_add reads the counter
\* a second time and two producers may get the same value.
THEOREM ProducersValuesGrow == NoWrap => (BenchSpec => OwnValuesGrow)
<1>. SUFFICES ASSUME NoWrap PROVE BenchSpec => OwnValuesGrow
  OBVIOUS
<1>1. ASSUME IInv, BenchInv, [BenchNext]_allVars
      PROVE  [\A p \in Producers : at[p] = "read" /\ at'[p] # "read"
                 => count'[p] > count[p] /\ count'[p] <= s_count_push]_allVars
  <2>. SUFFICES ASSUME NEW p \in Producers, at[p] = "read", at'[p] # "read"
                PROVE  count'[p] > count[p] /\ count'[p] <= s_count_push
    OBVIOUS
  <2>1. /\ p \in Threads /\ p \notin Consumers /\ at \in [Threads -> {"call", "add", "read", "test", "done"}]
        /\ count \in [Producers -> Nat] /\ s_count_push \in Nat /\ count[p] < s_count_push
    BY <1>1, BenchFacts DEF BenchInv, BenchTypes, Loops
  <2>2. PushRead(p)
    <3>1. ASSUME NEW t \in Threads, NEW l, At(t, l) PROVE t = p
      BY <2>1, <3>1 DEF At
    <3>2. at' # at
      OBVIOUS
    <3>3. ~UNCHANGED allVars /\ ~AllJoined
      BY <3>2 DEF AllJoined, allVars, benchVars
    <3>4. ASSUME NEW q \in Producers, Producer(q) PROVE q = p
      BY <3>1, <3>2, <3>4, BenchFacts DEF Producer, ProduceCall, Produce, PushAdd, PushRead,
         benchVars
    <3>5. ASSUME NEW c \in Consumers, Consumer(c) PROVE c = p
      BY <3>1, <3>2, <3>5, BenchFacts DEF Consumer, ConsumeCall, Consume, PopAdd, PopTest,
         benchVars
    <3>6. Producer(p)
      BY <1>1, <2>1, <3>3, <3>4, <3>5 DEF BenchNext
    <3>. QED  BY <3>6 DEF Producer, ProduceCall, Produce, PushAdd
  <2>. QED  BY <2>1, <2>2 DEF PushRead
<1>2. IInv /\ BenchInv /\ CountAgrees /\ [BenchNext]_allVars
        => [\A p \in Producers : at[p] = "read" /\ at'[p] # "read"
               => count'[p] > count[p] /\ count'[p] <= s_count_push]_allVars
  BY <1>1
<1>. QED  BY <1>2, BenchInvariant, PTL DEF BenchSpec, OwnValuesGrow
=============================================================================
