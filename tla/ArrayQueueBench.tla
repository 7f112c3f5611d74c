--------------------------- MODULE ArrayQueueBench ---------------------------
(***************************************************************************)
(* The threads that 4_test_lock_free_queue.cpp runs against one            *)
(* ArrayLockFreeQueue<int>: arraylockfreequeue_producer_thread and         *)
(* arraylockfreequeue_consumer_thread, with the counters they share.       *)
(***************************************************************************)
EXTENDS ArrayLockFreeQueue

CONSTANTS Producers, Consumers,
          s_queue_item_num       \* how many values each producer enqueues

Total == s_queue_item_num * Cardinality(Producers)

\* The threads are finitely many, one of them consumes, and the bound on the reservations
\* is not below what the loops of the producers ask for.
ASSUME BenchAssumption == /\ Threads = Producers \cup Consumers /\ IsFiniteSet(Threads)
                          /\ Producers \cap Consumers = {} /\ Consumers # {}
                          /\ s_queue_item_num \in Nat \ {0}
                          /\ Data = 0..Total /\ Zero = 0
                          /\ MaxEnqueues >= Total

VARIABLES s_count_push, s_count_pop,
          at,                    \* where each thread is in its loop
          i,                     \* producer: values enqueued so far
          count                  \* producer: the value to enqueue next

benchVars == <<s_count_push, s_count_pop, at, i, count>>
allVars   == <<vars, benchVars>>

\* At "call" the thread is about to call, or inside, the queue's operation.
BenchInit == /\ Init
             /\ s_count_push = 0 /\ s_count_pop = 0
             /\ at = [t \in Threads |-> "call"]
             /\ i = [p \in Producers |-> 0]
             /\ count = [p \in Producers |-> 0]

At(t, l) == at' = [at EXCEPT ![t] = l]
-----------------------------------------------------------------------------
(* arraylockfreequeue_producer_thread *)

ProduceCall(p) == /\ at[p] = "call"
                  /\ EnqueueCall(p, count[p])
                  /\ UNCHANGED benchVars

\* enqueue runs; when it returns true the thread goes on to lxx_atomic_add, when
\* it returns false it yields and calls again with the same value.
Produce(p) == /\ at[p] = "call"
              /\ EnqStep(p)
              /\ At(p, IF pc[p] = "e_count" THEN "add" ELSE "call")
              /\ UNCHANGED <<s_count_push, s_count_pop, i, count>>

\* lxx_atomic_add: lock xadd ...
PushAdd(p) == /\ at[p] = "add"
              /\ s_count_push' = s_count_push + 1
              /\ At(p, "read")
              /\ UNCHANGED <<vars, s_count_pop, i, count>>

PushRead_OldValue(p) ==                        \* mutant: returns the value before the addition
    /\ at[p] = "read"
    /\ count' = [count EXCEPT ![p] = s_count_push - 1]
    /\ i' = [i EXCEPT ![p] = @ + 1]
    /\ At(p, IF i[p] + 1 < s_queue_item_num THEN "call" ELSE "done")
    /\ UNCHANGED <<vars, s_count_push, s_count_pop>>

\* ... and then a second, separate read of the counter, which is its result.
PushRead(p) == /\ at[p] = "read"
               /\ count' = [count EXCEPT ![p] = s_count_push]
               /\ i' = [i EXCEPT ![p] = @ + 1]
               /\ At(p, IF i[p] + 1 < s_queue_item_num THEN "call" ELSE "done")
               /\ UNCHANGED <<vars, s_count_push, s_count_pop>>
-----------------------------------------------------------------------------
(* arraylockfreequeue_consumer_thread *)

ConsumeCall(c) == /\ at[c] = "call"
                  /\ DequeueCall(c)
                  /\ UNCHANGED benchVars

Consume(c) == /\ at[c] = "call"
              /\ DeqStep(c)
              /\ At(c, IF pc[c] = "d_count" THEN "add"
                       ELSE IF pc'[c] = "idle" THEN "test" ELSE "call")
              /\ UNCHANGED <<s_count_push, s_count_pop, i, count>>

PopAdd(c) == /\ at[c] = "add"
             /\ s_count_pop' = s_count_pop + 1
             /\ At(c, "test")
             /\ UNCHANGED <<vars, s_count_push, i, count>>

PopTest_OwnShare(c) ==                         \* mutant: stops at its own producer's share
    /\ at[c] = "test"
    /\ At(c, IF s_count_pop >= s_queue_item_num THEN "done" ELSE "call")
    /\ UNCHANGED <<vars, s_count_push, s_count_pop, i, count>>

PopTest(c) == /\ at[c] = "test"
              /\ At(c, IF s_count_pop >= Total THEN "done" ELSE "call")
              /\ UNCHANGED <<vars, s_count_push, s_count_pop, i, count>>
-----------------------------------------------------------------------------
Producer(p) == ProduceCall(p) \/ Produce(p) \/ PushAdd(p) \/ PushRead(p)
Consumer(c) == ConsumeCall(c) \/ Consume(c) \/ PopAdd(c) \/ PopTest(c)

\* test_queue has joined every thread.
AllJoined == (\A t \in Threads : at[t] = "done") /\ UNCHANGED allVars

BenchNext == \/ \E p \in Producers : Producer(p)
             \/ \E c \in Consumers : Consumer(c)
             \/ AllJoined

\* The kernel keeps scheduling every thread.
BenchFairness == /\ \A p \in Producers : WF_allVars(Producer(p))
                 /\ \A c \in Consumers : WF_allVars(Consumer(c))

BenchSpec == BenchInit /\ [][BenchNext]_allVars /\ BenchFairness
-----------------------------------------------------------------------------
\* A consumer leaves its loop only when the queue is empty for good: every value was
\* handed over. When all have left, the counters test_queue prints agree with that.
NothingLeftBehind ==
    /\ (\E c \in Consumers : at[c] = "done")
          => m_readIndex = Total /\ m_maximumReadIndex = Total /\ s_count_pop = Total
    /\ (\A t \in Threads : at[t] = "done") => s_count_push = Total /\ m_count = 0

\* lxx_atomic_add adds and then reads the counter again, so two producers can get the
\* same value; but what one producer gets keeps growing, and never exceeds the pushes.
OwnValuesGrow ==
    [][\A p \in Producers :
          at[p] = "read" /\ at'[p] # "read" => count'[p] > count[p] /\ count'[p] <= s_count_push]_allVars

\* test_queue's joins return: no thread spins or polls for ever.
Finishes == <>(\A t \in Threads : at[t] = "done")
-----------------------------------------------------------------------------
(* The inductive invariant behind the theorems *)

EnqPlaces == Holding \cup {"idle", "e_readW", "e_readR", "e_reserve", "e_count"}
DeqPlaces == {"idle", "d_readR", "d_readM", "d_load", "d_take", "d_count"}

BenchTypes == /\ s_count_push \in Nat /\ s_count_pop \in Nat
              /\ at \in [Threads -> {"call", "add", "read", "test", "done"}]
              /\ i \in [Producers -> 0..s_queue_item_num] /\ count \in [Producers -> Nat]

\* Where the threads are: outside the queue's operations unless at "call".
Loops == /\ \A t \in Threads : at[t] # "call" => pc[t] = "idle"
         /\ \A p \in Producers : /\ pc[p] \in EnqPlaces /\ at[p] # "test"
                                 /\ at[p] = "done" <=> i[p] = s_queue_item_num
                                 /\ count[p] <= s_count_push
                                 /\ at[p] = "read" => count[p] < s_count_push
         /\ \A c \in Consumers : /\ pc[c] \in DeqPlaces /\ at[c] # "read"
                                 /\ at[c] = "done" => s_count_pop >= Total

\* Producer p has a slot, or had it and has not increased its i since.
Reserved(p) == pc[p] \in Holding \cup {"e_count"} \/ at[p] \in {"add", "read"}

\* The slots reserved, by producer and number.
Reservations == {r \in Producers \X (1..s_queue_item_num) :
                    r[2] <= i[r[1]] + (IF Reserved(r[1]) THEN 1 ELSE 0)}

\* Who has reserved, or taken, a slot and not yet added to the counter.
PushPending == {p \in Producers : pc[p] \in Holding \cup {"e_count"} \/ at[p] = "add"}
PopPending  == {c \in Consumers : pc[c] = "d_count" \/ at[c] = "add"}

\* The counters lag behind the indices by the threads that have not added yet, and the
\* write index counts what the producers' loops have asked for.
CountersLag == /\ m_writeIndex = Cardinality(Reservations)
               /\ m_writeIndex = s_count_push + Cardinality(PushPending)
               /\ m_readIndex = s_count_pop + Cardinality(PopPending)

\* The inductive invariant, with that of the queue.
BenchInv == BenchTypes /\ Loops /\ CountersLag
=============================================================================
