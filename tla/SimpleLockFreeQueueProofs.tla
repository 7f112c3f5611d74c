---------------------- MODULE SimpleLockFreeQueueProofs ----------------------
(***************************************************************************)
(* SimpleLockFreeQueue hands over every item once and in order, and loses  *)
(* no node, for any number of threads and calls, as long as no version     *)
(* wraps.                                                                  *)
(***************************************************************************)
EXTENDS SimpleLockFreeQueue, FiniteSetTheorems, TLAPS
-----------------------------------------------------------------------------
(* Indices, the chain and the head *)

\* Indices are pairs, and none of them is 0.
LEMMA IdxFacts ==
    /\ \A i \in Idx : Node(i) \in Nodes /\ Version(i) \in Versions /\ i # Null
    /\ \A i, j \in Idx : Node(i) = Node(j) /\ Version(i) = Version(j) => i = j
    /\ \A n \in Nodes, v \in Versions : /\ <<n, v>> \in Idx
                                        /\ Node(<<n, v>>) = n /\ Version(<<n, v>>) = v
BY DEF Idx, Node, Version, Null, Nodes

LEMMA ConstFacts ==
    /\ MaxEnqueues \in Nat /\ VersionMod \in Nat /\ 1 \in Nodes /\ 0 \in Versions /\ 0 \in Items
    /\ \A n \in Nodes : n \in Nat /\ n >= 1 /\ n <= MaxEnqueues + 1
    /\ \A n \in Nat : n >= 1 /\ n <= MaxEnqueues + 1 => n \in Nodes
    /\ \A v \in Versions : v \in Nat
BY QueueAssumption DEF Nodes, Versions, Items

LEMMA ElementType ==
    ASSUME NEW S, NEW s \in Seq(S), NEW k \in 1 .. Len(s)
    PROVE  s[k] \in S
OBVIOUS

\* The chain consists of indices, and the head is at a position of it.
LEMMA ChainFacts ==
    ASSUME Shape
    PROVE  /\ Len(log) \in Nat /\ Len(claims) \in Nat /\ Len(frees) \in Nat
           /\ HeadAt \in Nat /\ HeadAt >= 1 /\ HeadAt <= Len(log) + 1
           /\ \A k \in 1 .. Len(log) + 1 : ChainAt(k) \in Idx
           /\ \A k \in 1 .. Len(log) : ChainAt(k + 1) = log[k].idx
           /\ \A k \in 1 .. Len(frees) : frees[k] \in Idx
<1>1. /\ log \in Seq([idx : Idx, item : Items]) /\ claims \in Seq(Idx) /\ frees \in Seq(Idx)
  BY DEF Shape, TypeOK
<1>2. Len(log) \in Nat /\ Len(claims) \in Nat /\ Len(frees) \in Nat
  BY <1>1
<1>3. HeadAt \in Nat /\ HeadAt >= 1 /\ HeadAt <= Len(log) + 1
  BY <1>2 DEF Shape, Ends, HeadAt
<1>4. ASSUME NEW k \in 1 .. Len(log) + 1 PROVE ChainAt(k) \in Idx
  <2>1. CASE k = 1
    BY <2>1, IdxFacts, ConstFacts DEF ChainAt
  <2>2. CASE k # 1
    <3>1. k - 1 \in 1 .. Len(log)
      BY <2>2, <1>2
    <3>2. log[k - 1] \in [idx : Idx, item : Items]
      BY <3>1, <1>1, ElementType
    <3>. QED  BY <3>2, <2>2 DEF ChainAt
  <2>. QED  BY <2>1, <2>2
<1>5. \A k \in 1 .. Len(log) : ChainAt(k + 1) = log[k].idx
  BY <1>2 DEF ChainAt
<1>6. \A k \in 1 .. Len(frees) : frees[k] \in Idx
  BY <1>1
<1>. QED  BY <1>2, <1>3, <1>4, <1>5, <1>6

\* The other threads keep their locals.
Others(t) == \A u \in Threads : u # t => /\ pc'[u] = pc[u] /\ mine'[u] = mine[u]
                                         /\ seen'[u] = seen[u] /\ nxt'[u] = nxt[u]
                                         /\ arg'[u] = arg[u]

\* A step that leaves the nodes and the two lists alone, and neither takes nor gives up a
\* node, needs a look at what its own thread knows, no more.
LEMMA QueueStays ==
    ASSUME Shape, NEW kind \in [Nodes -> Kinds], NEW at \in [Nodes -> Nat \cup Threads],
           NEW ver \in [Nodes -> Versions], Placed(kind, at, ver),
           NEW t \in Threads, Others(t), TypeOK',
           UNCHANGED <<nextNodeIdx, tail, freeListHead, next, item, log, frees>>,
           HeadAt' = HeadAt, head'.idx = head.idx, Ends', ClaimsInOrder',
           pc[t] \in EnqHolding <=> pc'[t] \in EnqHolding,
           pc[t] \in DeqHolding <=> pc'[t] \in DeqHolding,
           pc[t] \in EnqHolding \cup DeqHolding => mine'[t] = mine[t],
           pc[t] # "e_link", pc'[t] # "e_link",
           Counted(ver)', EnqueueKnows(t, kind, ver)', DequeueKnows(t)'
    PROVE  IInv'
<1>0. /\ HeadAt' = HeadAt /\ \A k : ChainAt(k)' = ChainAt(k)
      /\ UNCHANGED <<nextNodeIdx, tail, freeListHead, next, item, log, frees>>
  BY DEF ChainAt
<1>1. ItemsKept' /\ FreeListed'
  BY <1>0 DEF Shape, ItemsKept, FreeListed, FreeAt
<1>2. Links'
  <2>1. \A u \in Producers : pc[u] = "e_link" => /\ pc'[u] = "e_link" /\ seen'[u] = seen[u]
                                                 /\ mine'[u] = mine[u]
    BY DEF Others, Threads
  <2>. QED  BY <1>0, <2>1 DEF Shape, Links
<1>3. OneLinker'
  BY DEF Shape, OneLinker, Others
<1>4. ASSUME NEW u \in Threads PROVE DequeueKnows(u)'
  BY <1>0 DEF Shape, DequeueKnows, Others
<1>5. Shape'
  BY <1>1, <1>2, <1>3, <1>4 DEF Shape
<1>6. QueuePlaced(kind, at, ver)' /\ FreePlaced(kind, at, ver)' /\ FreshPlaced(kind)'
  BY <1>0 DEF Placed, QueuePlaced, FreePlaced, FreshPlaced
<1>7. HeldPlaced(kind, at, ver)'
  BY DEF Placed, HeldPlaced, Others
<1>8. VersionsGrow(kind, at, ver)'
  <2>1. \A n \in Nodes : kind[n] = "held" => (pc'[at[n]] \in EnqHolding <=> pc[at[n]] \in EnqHolding)
    BY DEF Placed, HeldPlaced, Others
  <2>2. \A k \in 1 .. Len(log) + 1 : Node(ChainAt(k)) \in Nodes
    BY ChainFacts, IdxFacts
  <2>. QED  BY <1>0, <2>1, <2>2 DEF Placed, VersionsGrow
<1>9. ASSUME NEW u \in Threads PROVE EnqueueKnows(u, kind, ver)'
  BY <1>0 DEF Placed, EnqueueKnows, Others
<1>10. Placed(kind, at, ver)'
  BY <1>6, <1>7, <1>8, <1>9 DEF Placed
<1>. QED  BY <1>5, <1>10 DEF IInv

\* So does a step that changes locals only.
LEMMA LocalStep ==
    ASSUME Shape, NEW kind \in [Nodes -> Kinds], NEW at \in [Nodes -> Nat \cup Threads],
           NEW ver \in [Nodes -> Versions], Placed(kind, at, ver),
           NEW t \in Threads, Others(t), TypeOK',
           UNCHANGED <<memory, log, claims, frees>>,
           pc[t] \in EnqHolding <=> pc'[t] \in EnqHolding,
           pc[t] \in DeqHolding <=> pc'[t] \in DeqHolding,
           pc[t] \in EnqHolding \cup DeqHolding => mine'[t] = mine[t],
           pc[t] # "e_link", pc'[t] # "e_link",
           Counted(ver)', EnqueueKnows(t, kind, ver)', DequeueKnows(t)'
    PROVE  IInv'
<1>1. /\ HeadAt' = HeadAt /\ head' = head
      /\ UNCHANGED <<nextNodeIdx, tail, freeListHead, next, item, log, frees>>
  BY DEF memory, HeadAt
<1>2. Ends' /\ ClaimsInOrder'
  BY <1>1 DEF Shape, Ends, ClaimsInOrder, ChainAt
<1>. QED  BY <1>1, <1>2, QueueStays

\* How a step of thread t changes the number of threads that have no node yet.
LEMMA AllocatingNumber ==
    ASSUME IsFiniteSet(Producers), NEW t \in Threads, Others(t)
    PROVE  /\ Cardinality(Allocating) \in Nat /\ Cardinality(Allocating') \in Nat
           /\ t \in Allocating => Cardinality(Allocating) >= 1
           /\ (t \in Allocating <=> t \in Allocating')
                => Cardinality(Allocating') = Cardinality(Allocating)
           /\ t \notin Allocating /\ t \in Allocating'
                => Cardinality(Allocating') = Cardinality(Allocating) + 1
           /\ t \in Allocating /\ t \notin Allocating'
                => Cardinality(Allocating') = Cardinality(Allocating) - 1
<1>1. \A u \in Producers : u # t => (u \in Allocating <=> u \in Allocating')
  BY DEF Allocating, Others, Threads
<1>2. Allocating \subseteq Producers /\ Allocating' \subseteq Producers
  BY DEF Allocating
<1>3. /\ IsFiniteSet(Allocating) /\ IsFiniteSet(Allocating')
      /\ Cardinality(Allocating) \in Nat /\ Cardinality(Allocating') \in Nat
  BY <1>2, FS_Subset, FS_CardinalityType
<1>4. ASSUME t \in Allocating <=> t \in Allocating' PROVE Allocating' = Allocating
  BY <1>1, <1>2, <1>4
<1>5. ASSUME t \notin Allocating, t \in Allocating'
      PROVE  Cardinality(Allocating') = Cardinality(Allocating) + 1
  <2>1. Allocating' = Allocating \cup {t}
    BY <1>1, <1>2, <1>5
  <2>. QED  BY <2>1, <1>3, <1>5, FS_AddElement
<1>6. ASSUME t \in Allocating, t \notin Allocating'
      PROVE  Cardinality(Allocating') = Cardinality(Allocating) - 1
  <2>1. Allocating' = Allocating \ {t}
    BY <1>1, <1>2, <1>6
  <2>. QED  BY <2>1, <1>3, <1>6, FS_RemoveElement
<1>7. ASSUME t \in Allocating PROVE Cardinality(Allocating) >= 1
  <2>1. Allocating # {}
    BY <1>7
  <2>2. Cardinality(Allocating) # 0
    BY <2>1, <1>3, FS_EmptySet
  <2>. QED  BY <2>2, <1>3
<1>. QED  BY <1>3, <1>4, <1>5, <1>6, <1>7

\* A step after which as many threads need a node as before uses up nothing.
LEMMA CountedStays ==
    ASSUME IsFiniteSet(Producers), NEW t \in Threads, Others(t), NEW ver, Counted(ver),
           t \in Allocating <=> t \in Allocating', UNCHANGED <<calls, nextNodeIdx>>
    PROVE  Counted(ver)'
<1>1. Cardinality(Allocating') = Cardinality(Allocating)
  BY AllocatingNumber
<1>. QED  BY <1>1 DEF Counted
-----------------------------------------------------------------------------
(* Steps that change locals only *)

LEMMA LocalTypes ==
    ASSUME TypeOK, UNCHANGED memory, UNCHANGED <<log, claims, frees>>, calls' \in Items,
           pc' \in [Threads -> {"idle"} \cup EnqPlaces \cup DeqPlaces],
           mine' \in [Threads -> Idx \cup {Null}], seen' \in [Threads -> Idx \cup {Null}],
           nxt' \in [Threads -> Idx \cup {Null}], consumed' \in [Threads -> BOOLEAN],
           arg' \in [Threads -> Items]
    PROVE  TypeOK'
BY DEF TypeOK, memory

\* What the head of the free list is, if there is one.
LEMMA ListHead ==
    ASSUME Shape, NEW kind, NEW at, NEW ver, Placed(kind, at, ver), freeListHead # Null
    PROVE  /\ Len(frees) >= 1 /\ Len(frees) \in 1 .. Len(frees)
           /\ freeListHead \in Idx /\ freeListHead = frees[Len(frees)]
           /\ kind[Node(freeListHead)] = "free" /\ at[Node(freeListHead)] = Len(frees)
           /\ ver[Node(freeListHead)] = Version(freeListHead) /\ Version(freeListHead) \in Nat
<1>1. /\ Len(frees) >= 1 /\ Len(frees) \in 1 .. Len(frees)
      /\ freeListHead = frees[Len(frees)]
  BY ChainFacts DEF Shape, FreeListed, FreeAt
<1>2. freeListHead \in Idx
  BY <1>1, ChainFacts
<1>3. /\ kind[Node(freeListHead)] = "free" /\ at[Node(freeListHead)] = Len(frees)
      /\ ver[Node(freeListHead)] = Version(freeListHead)
  BY <1>1 DEF Placed, FreePlaced
<1>. QED  BY <1>1, <1>2, <1>3, IdxFacts, ConstFacts

\* The steps of a consumer use up no node and no version.
LEMMA ConsumerCounts ==
    ASSUME IsFiniteSet(Producers), NEW t \in Consumers, Others(t), NEW ver, Counted(ver),
           UNCHANGED <<calls, nextNodeIdx>>
    PROVE  Counted(ver)'
<1>1. t \in Threads /\ t \notin Allocating /\ t \notin Allocating'
  BY QueueAssumption DEF Threads, Allocating
<1>. QED  BY <1>1, CountedStays

LEMMA DoEnqueue ==
    ASSUME IsFiniteSet(Producers), IInv, NEW t \in Producers, Enqueue(t)
    PROVE  IInv'
<1>. PICK kind \in [Nodes -> Kinds], at \in [Nodes -> Nat \cup Threads],
          ver \in [Nodes -> Versions] : Placed(kind, at, ver)
  BY DEF IInv
<1>. USE DEF Set, Goto
<1>1. t \in Threads /\ Shape /\ TypeOK
  BY DEF Threads, IInv, Shape
<1>2. TypeOK'
  <2>1. calls + 1 \in Items
    BY <1>1, QueueAssumption DEF TypeOK, Enqueue, Items
  <2>. QED  BY <1>1, <2>1, LocalTypes DEF TypeOK, Enqueue, EnqPlaces
<1>3. Others(t) /\ pc[t] = "idle" /\ pc'[t] = "e_list"
  BY <1>1 DEF TypeOK, Others, Enqueue
<1>4. Counted(ver)'
  <2>1. t \notin Allocating /\ t \in Allocating'
    BY <1>3 DEF Allocating
  <2>2. /\ Cardinality(Allocating') = Cardinality(Allocating) + 1
        /\ Cardinality(Allocating) \in Nat
    BY <1>1, <1>3, <2>1, AllocatingNumber
  <2>3. calls' = calls + 1 /\ nextNodeIdx' = nextNodeIdx
    BY DEF Enqueue, memory
  <2>4. calls \in Nat /\ nextNodeIdx \in Nat /\ \A n \in Nodes : ver[n] \in Nat
    BY <1>1, ConstFacts DEF TypeOK, Items
  <2>. QED  BY <2>2, <2>3, <2>4 DEF Placed, Counted
<1>5. EnqueueKnows(t, kind, ver)' /\ DequeueKnows(t)'
  BY <1>3 DEF EnqueueKnows, DequeueKnows
<1>. QED  BY <1>1, <1>2, <1>3, <1>4, <1>5, LocalStep DEF Enqueue, EnqHolding, DeqHolding

LEMMA DoEnqReadList ==
    ASSUME IsFiniteSet(Producers), IInv, NEW t \in Producers, EnqReadList(t)
    PROVE  IInv'
<1>. PICK kind \in [Nodes -> Kinds], at \in [Nodes -> Nat \cup Threads],
          ver \in [Nodes -> Versions] : Placed(kind, at, ver)
  BY DEF IInv
<1>. USE DEF Set, Goto, ListRead, history
<1>1. t \in Threads /\ Shape /\ TypeOK
  BY DEF Threads, IInv, Shape
<1>2. TypeOK'
  BY <1>1, LocalTypes DEF TypeOK, EnqReadList, EnqPlaces
<1>3. Others(t) /\ pc[t] = "e_list" /\ pc'[t] = IF freeListHead = Null THEN "e_new" ELSE "e_next"
  BY <1>1 DEF TypeOK, Others, EnqReadList
<1>4. Counted(ver)'
  <2>1. t \in Allocating /\ t \in Allocating'
    BY <1>3 DEF Allocating
  <2>. QED  BY <1>1, <1>3, <2>1, CountedStays DEF Placed, EnqReadList, memory
<1>5. EnqueueKnows(t, kind, ver)'
  <2>1. CASE freeListHead = Null
    BY <2>1, <1>3 DEF EnqueueKnows
  <2>2. CASE freeListHead # Null
    <3>2. seen'[t] = freeListHead
      BY <1>1 DEF EnqReadList, TypeOK
    <3>. QED  BY <2>2, <1>1, <1>3, <3>2, ListHead DEF EnqueueKnows
  <2>. QED  BY <2>1, <2>2
<1>6. DequeueKnows(t)'
  BY <1>3 DEF DequeueKnows
<1>. QED  BY <1>1, <1>2, <1>3, <1>4, <1>5, <1>6, LocalStep DEF EnqReadList, EnqHolding, DeqHolding

LEMMA DoEnqReadNext ==
    ASSUME IsFiniteSet(Producers), IInv, NEW t \in Producers, EnqReadNext(t)
    PROVE  IInv'
<1>. PICK kind \in [Nodes -> Kinds], at \in [Nodes -> Nat \cup Threads],
          ver \in [Nodes -> Versions] : Placed(kind, at, ver)
  BY DEF IInv
<1>. USE DEF Set, Goto, history
<1>1. t \in Threads /\ Shape /\ TypeOK
  BY DEF Threads, IInv, Shape
<1>2. pc[t] = "e_next" /\ seen[t] \in Idx /\ Node(seen[t]) \in Nodes
  BY <1>1, IdxFacts DEF EnqReadNext, Placed, EnqueueKnows
<1>3. TypeOK'
  BY <1>1, <1>2, LocalTypes DEF TypeOK, EnqReadNext, EnqPlaces
<1>4. /\ Others(t) /\ pc'[t] = "e_pop" /\ seen'[t] = seen[t] /\ nxt'[t] = next[Node(seen[t])]
      /\ next' = next
  BY <1>1 DEF TypeOK, Others, EnqReadNext, memory
<1>5. Counted(ver)'
  <2>1. t \in Allocating /\ t \in Allocating'
    BY <1>2, <1>4 DEF Allocating
  <2>. QED  BY <1>1, <1>4, <2>1, CountedStays DEF Placed, EnqReadNext, memory
<1>6. EnqueueKnows(t, kind, ver)'
  BY <1>1, <1>2, <1>4 DEF EnqueueKnows, Placed
<1>7. DequeueKnows(t)'
  BY <1>4 DEF DequeueKnows
<1>. QED  BY <1>1, <1>2, <1>3, <1>4, <1>5, <1>6, <1>7, LocalStep DEF EnqReadNext, EnqHolding, DeqHolding

LEMMA DoEnqPopFails ==
    ASSUME IsFiniteSet(Producers), IInv, NEW t \in Producers, EnqPop(t), freeListHead # seen[t]
    PROVE  IInv'
<1>. PICK kind \in [Nodes -> Kinds], at \in [Nodes -> Nat \cup Threads],
          ver \in [Nodes -> Versions] : Placed(kind, at, ver)
  BY DEF IInv
<1>. USE DEF Set, Goto, ListRead
<1>1. t \in Threads /\ Shape /\ TypeOK
  BY DEF Threads, IInv, Shape
<1>2. UNCHANGED memory /\ UNCHANGED <<calls, log, claims, frees>>
  BY DEF EnqPop, memory
<1>3. TypeOK'
  <2>1. /\ pc' \in [Threads -> {"idle"} \cup EnqPlaces \cup DeqPlaces]
        /\ mine' \in [Threads -> Idx \cup {Null}] /\ seen' \in [Threads -> Idx \cup {Null}]
        /\ nxt' \in [Threads -> Idx \cup {Null}] /\ consumed' \in [Threads -> BOOLEAN]
        /\ arg' \in [Threads -> Items]
    <3>1. /\ seen' = [seen EXCEPT ![t] = freeListHead]
          /\ pc' = [pc EXCEPT ![t] = IF freeListHead = Null THEN "e_new" ELSE "e_next"]
          /\ UNCHANGED <<mine, nxt, consumed, arg>>
      BY DEF EnqPop
    <3>. QED  BY <1>1, <3>1 DEF TypeOK, EnqPlaces
  <2>. QED  BY <1>1, <1>2, <2>1, LocalTypes DEF TypeOK
<1>4. /\ Others(t) /\ pc[t] = "e_pop" /\ seen'[t] = freeListHead
      /\ pc'[t] = IF freeListHead = Null THEN "e_new" ELSE "e_next"
  BY <1>1 DEF TypeOK, Others, EnqPop
<1>5. Counted(ver)'
  <2>1. t \in Allocating /\ t \in Allocating'
    BY <1>4 DEF Allocating
  <2>. QED  BY <1>1, <1>2, <1>4, <2>1, CountedStays DEF Placed, memory
<1>6. EnqueueKnows(t, kind, ver)'
  <2>1. CASE freeListHead = Null
    BY <2>1, <1>4 DEF EnqueueKnows
  <2>2. CASE freeListHead # Null
    BY <2>2, <1>1, <1>4, ListHead DEF EnqueueKnows
  <2>. QED  BY <2>1, <2>2
<1>7. DequeueKnows(t)'
  BY <1>4 DEF DequeueKnows
<1>. QED  BY <1>1, <1>2, <1>3, <1>4, <1>5, <1>6, <1>7, LocalStep DEF EnqHolding, DeqHolding

LEMMA DoDeqReadHead ==
    ASSUME IsFiniteSet(Producers), IInv, NEW t \in Consumers, DeqReadHead(t)
    PROVE  IInv'
<1>. PICK kind \in [Nodes -> Kinds], at \in [Nodes -> Nat \cup Threads],
          ver \in [Nodes -> Versions] : Placed(kind, at, ver)
  BY DEF IInv
<1>. USE DEF Set, Goto, history
<1>1. t \in Threads /\ Shape /\ TypeOK
  BY DEF Threads, IInv, Shape
<1>2. UNCHANGED memory /\ UNCHANGED <<calls, log, claims, frees>>
  BY DEF DeqReadHead
<1>3. TypeOK'
  BY <1>1, <1>2, LocalTypes DEF TypeOK, DeqReadHead, DeqPlaces
<1>4. /\ Others(t) /\ pc[t] \in {"idle", "d_head"} /\ mine'[t] = head.idx /\ pc'[t] = "d_next"
  BY <1>1 DEF TypeOK, Others, DeqReadHead
<1>5. Counted(ver)'
  BY <1>2, <1>4, ConsumerCounts DEF Placed, memory
<1>6. EnqueueKnows(t, kind, ver)'
  BY <1>4 DEF EnqueueKnows
<1>7. DequeueKnows(t)'
  <2>1. HeadAt \in 1 .. HeadAt /\ head.idx = ChainAt(HeadAt)
    BY <1>1, ChainFacts DEF Shape, Ends
  <2>2. HeadAt' = HeadAt /\ \A k : ChainAt(k)' = ChainAt(k)
    BY <1>2 DEF memory, HeadAt, ChainAt
  <2>. QED  BY <1>4, <2>1, <2>2 DEF DequeueKnows
<1>. QED  BY <1>1, <1>2, <1>3, <1>4, <1>5, <1>6, <1>7, LocalStep DEF EnqHolding, DeqHolding

LEMMA DoDeqReadNext ==
    ASSUME IsFiniteSet(Producers), IInv, NEW t \in Consumers, DeqReadNext(t)
    PROVE  IInv'
<1>. PICK kind \in [Nodes -> Kinds], at \in [Nodes -> Nat \cup Threads],
          ver \in [Nodes -> Versions] : Placed(kind, at, ver)
  BY DEF IInv
<1>. USE DEF Set, Goto, history
<1>1. t \in Threads /\ Shape /\ TypeOK
  BY DEF Threads, IInv, Shape
<1>2. UNCHANGED memory /\ UNCHANGED <<calls, log, claims, frees>>
  BY DEF DeqReadNext
<1>3. PICK k \in 1 .. HeadAt : mine[t] = ChainAt(k)
  BY <1>1 DEF DeqReadNext, Shape, DequeueKnows
<1>4. mine[t] \in Idx /\ Node(mine[t]) \in Nodes
  BY <1>1, <1>3, ChainFacts, IdxFacts
<1>5. TypeOK'
  <2>1. next[Node(mine[t])] \in Idx \cup {Null}
    BY <1>1, <1>4 DEF TypeOK
  <2>2. 0 \in Items
    BY ConstFacts
  <2>3. /\ pc' \in [Threads -> {"idle"} \cup EnqPlaces \cup DeqPlaces]
        /\ mine' \in [Threads -> Idx \cup {Null}] /\ seen' \in [Threads -> Idx \cup {Null}]
        /\ nxt' \in [Threads -> Idx \cup {Null}] /\ consumed' \in [Threads -> BOOLEAN]
        /\ arg' \in [Threads -> Items]
    <3>1. CASE Return(t)
      BY <1>1, <2>2, <3>1 DEF TypeOK, Return
    <3>2. CASE ~Return(t)
      <4>1. /\ nxt' = [nxt EXCEPT ![t] = next[Node(mine[t])]]
            /\ \E l \in {"d_flag", "d_move"} : pc' = [pc EXCEPT ![t] = l]
            /\ UNCHANGED <<mine, seen, consumed, arg>>
        BY <3>2 DEF DeqReadNext
      <4>. QED  BY <1>1, <2>1, <4>1 DEF TypeOK, DeqPlaces
    <3>. QED  BY <3>1, <3>2
  <2>. QED  BY <1>1, <1>2, <2>3, LocalTypes DEF TypeOK
<1>6. /\ Others(t) /\ pc[t] = "d_next" /\ pc'[t] \in {"idle", "d_flag", "d_move"}
      /\ pc'[t] # "idle" => mine'[t] = mine[t]
      /\ pc'[t] = "d_move" => nxt'[t] = next[Node(mine[t])] /\ next[Node(mine[t])] # Null
  BY <1>1 DEF TypeOK, Others, DeqReadNext, Return
<1>7. Counted(ver)'
  BY <1>2, <1>6, ConsumerCounts DEF Placed, memory
<1>8. EnqueueKnows(t, kind, ver)'
  BY <1>6 DEF EnqueueKnows
<1>9. DequeueKnows(t)'
  <2>1. /\ HeadAt' = HeadAt /\ \A l : ChainAt(l)' = ChainAt(l)
        /\ head' = head /\ next' = next /\ log' = log
    BY <1>2 DEF memory, HeadAt, ChainAt
  <2>2. ASSUME pc'[t] = "d_move", head.idx = mine[t]
        PROVE  HeadAt <= Len(log) /\ next[Node(mine[t])] = ChainAt(HeadAt + 1)
    <3>1. HeadAt \in HeadAt .. Len(log) + 1 /\ mine[t] = ChainAt(HeadAt)
      BY <1>1, <2>2, ChainFacts DEF Shape, Ends
    <3>. QED  BY <1>1, <1>6, <2>2, <3>1 DEF Shape, Links
  <2>. QED  BY <1>3, <1>6, <2>1, <2>2 DEF DequeueKnows
<1>. QED  BY <1>1, <1>2, <1>5, <1>6, <1>7, <1>8, <1>9, LocalStep DEF EnqHolding, DeqHolding

\* A step of try_dequeue that leaves its loop or goes round it, or that goes on with a node
\* that it has removed.
LEMMA DeqLocalStep ==
    ASSUME IsFiniteSet(Producers), IInv, NEW t \in Consumers, Others(t), TypeOK',
           UNCHANGED memory, UNCHANGED <<calls, log, claims, frees>>,
           \/ pc[t] \notin DeqHolding /\ pc[t] \in DeqPlaces /\ pc'[t] \in {"idle", "d_head"}
           \/ pc[t] \in DeqHolding /\ pc'[t] \in {"d_list", "d_link"} /\ mine'[t] = mine[t]
    PROVE  IInv'
<1>. PICK kind \in [Nodes -> Kinds], at \in [Nodes -> Nat \cup Threads],
          ver \in [Nodes -> Versions] : Placed(kind, at, ver)
  BY DEF IInv
<1>1. t \in Threads /\ Shape
  BY DEF Threads, IInv
<1>2. Counted(ver)'
  BY ConsumerCounts DEF Placed, memory
<1>3. EnqueueKnows(t, kind, ver)' /\ DequeueKnows(t)'
  BY DEF EnqueueKnows, DequeueKnows
<1>4. /\ pc[t] \notin EnqHolding /\ pc'[t] \notin EnqHolding
      /\ pc[t] # "e_link" /\ pc'[t] # "e_link"
      /\ pc[t] \in DeqHolding <=> pc'[t] \in DeqHolding
      /\ pc[t] \in DeqHolding => mine'[t] = mine[t]
  BY DEF DeqPlaces, EnqHolding, DeqHolding
<1>. QED  BY <1>1, <1>2, <1>3, <1>4, LocalStep

LEMMA DoDeqLocal ==
    ASSUME IsFiniteSet(Producers), IInv, NEW t \in Consumers,
           \/ DeqFlag(t) /\ head # [idx |-> mine[t], consumed |-> FALSE]
           \/ DeqMove(t) /\ head # [idx |-> mine[t], consumed |-> consumed[t]]
           \/ DeqPush(t) /\ freeListHead # seen[t]
           \/ DeqTake(t) \/ DeqItem(t) \/ DeqReadList(t)
    PROVE  IInv'
<1>. USE DEF Set, Goto, history
<1>1. t \in Threads /\ Shape /\ TypeOK /\ 0 \in Items
  BY ConstFacts DEF Threads, IInv, Shape
<1>2. UNCHANGED memory /\ UNCHANGED <<calls, log, claims, frees>>
  BY DEF DeqFlag, DeqMove, DeqPush, DeqTake, DeqItem, DeqReadList, memory
<1>3. TypeOK'
  <2>1. /\ pc' \in [Threads -> {"idle"} \cup EnqPlaces \cup DeqPlaces]
        /\ mine' \in [Threads -> Idx \cup {Null}] /\ seen' \in [Threads -> Idx \cup {Null}]
        /\ nxt' \in [Threads -> Idx \cup {Null}] /\ consumed' \in [Threads -> BOOLEAN]
        /\ arg' \in [Threads -> Items]
    <3>1. CASE Return(t)
      BY <1>1, <3>1 DEF TypeOK, Return
    <3>2. CASE ~Return(t)
      <4>1. /\ \E l \in DeqPlaces : pc' = [pc EXCEPT ![t] = l]
            /\ \E i \in Idx \cup {Null} : seen' = [seen EXCEPT ![t] = i] \/ seen' = seen
            /\ UNCHANGED <<mine, nxt, consumed, arg>>
        BY <1>1, <3>2 DEF TypeOK, DeqPlaces, DeqFlag, DeqMove, DeqPush, DeqTake, DeqItem,
           DeqReadList
      <4>. QED  BY <1>1, <4>1 DEF TypeOK
    <3>. QED  BY <3>1, <3>2
  <2>. QED  BY <1>1, <1>2, <2>1, LocalTypes DEF TypeOK
<1>4. Others(t)
  BY <1>1 DEF TypeOK, Others, Return, DeqFlag, DeqMove, DeqPush, DeqTake, DeqItem, DeqReadList
<1>5. \/ pc[t] \notin DeqHolding /\ pc[t] \in DeqPlaces /\ pc'[t] \in {"idle", "d_head"}
      \/ pc[t] \in DeqHolding /\ pc'[t] \in {"d_list", "d_link"} /\ mine'[t] = mine[t]
  BY <1>1 DEF TypeOK, DeqHolding, DeqPlaces, Return, DeqFlag, DeqMove, DeqPush, DeqTake,
     DeqItem, DeqReadList
<1>. QED  BY <1>2, <1>3, <1>4, <1>5, DeqLocalStep

-----------------------------------------------------------------------------
(* Steps that write a node the thread has for itself *)

\* Nobody else looks at such a node.
LEMMA OwnWrite ==
    ASSUME Shape, NEW kind \in [Nodes -> Kinds], NEW at \in [Nodes -> Nat \cup Threads],
           NEW ver \in [Nodes -> Versions], Placed(kind, at, ver),
           NEW t \in Threads, Others(t), TypeOK',
           UNCHANGED <<nextNodeIdx, head, tail, freeListHead, log, claims, frees>>,
           NEW n \in Nodes, n = Node(mine[t]), mine'[t] = mine[t],
           \A m \in Nodes : m # n => next'[m] = next[m] /\ item'[m] = item[m],
           \/ pc[t] \in EnqHolding /\ pc'[t] \in EnqHolding
           \/ pc[t] \in DeqHolding /\ pc'[t] \in DeqHolding,
           Counted(ver)', EnqueueKnows(t, kind, ver)', DequeueKnows(t)'
    PROVE  IInv'
<1>. USE ChainFacts
<1>0. HeadAt' = HeadAt /\ \A k : ChainAt(k)' = ChainAt(k)
  BY DEF HeadAt, ChainAt
<1>a. kind[n] = "held" /\ at[n] = t
  BY DEF Placed, HeldPlaced
<1>b. \A k \in 1 .. Len(log) + 1 : Node(ChainAt(k)) \in Nodes
  BY IdxFacts
<1>c. \A k \in HeadAt .. Len(log) + 1 : /\ next'[Node(ChainAt(k))] = next[Node(ChainAt(k))]
                                       /\ item'[Node(ChainAt(k))] = item[Node(ChainAt(k))]
  <2>1. \A k \in HeadAt .. Len(log) + 1 : Node(ChainAt(k)) # n
    BY <1>a DEF Placed, QueuePlaced
  <2>. QED  BY <1>b, <2>1
<1>d. /\ pc[t] \in EnqHolding <=> pc'[t] \in EnqHolding
      /\ pc[t] \in EnqHolding \cup DeqHolding /\ pc'[t] \in EnqHolding \cup DeqHolding
      /\ pc[t] # "e_link" /\ pc'[t] # "e_link"
      /\ pc[t] \notin {"d_next", "d_flag", "d_move"}
  BY DEF EnqHolding, DeqHolding
<1>e. \A u \in Threads : u # t /\ pc[u] \in EnqHolding \cup DeqHolding =>
                           Node(mine[u]) \in Nodes /\ Node(mine[u]) # n
  BY <1>a, IdxFacts DEF Placed, HeldPlaced
<1>1. Ends' /\ ClaimsInOrder' /\ ItemsKept'
  BY <1>0, <1>c DEF Shape, Ends, ClaimsInOrder, ItemsKept
<1>2. FreeListed'
  <2>1. \A k \in 1 .. Len(frees) : Node(frees[k]) \in Nodes /\ Node(frees[k]) # n
    BY <1>a, IdxFacts DEF Placed, FreePlaced
  <2>2. DOMAIN frees = 1 .. Len(frees)
    BY DEF Shape, TypeOK
  <2>. QED  BY <2>1, <2>2 DEF Shape, FreeListed, FreeAt
<1>3. Links'
  <2>1. \A u \in Producers : pc[u] = "e_link" => /\ pc'[u] = "e_link" /\ seen'[u] = seen[u]
                                                 /\ mine'[u] = mine[u]
    BY <1>d DEF Others, Threads
  <2>. QED  BY <1>0, <1>c, <2>1 DEF Shape, Links
<1>4. OneLinker'
  BY <1>d DEF Shape, OneLinker, Others
<1>5. ASSUME NEW u \in Threads PROVE DequeueKnows(u)'
  <2>. SUFFICES ASSUME u # t PROVE DequeueKnows(u)'
    OBVIOUS
  <2>1. /\ pc'[u] = pc[u] /\ mine'[u] = mine[u] /\ nxt'[u] = nxt[u] /\ seen'[u] = seen[u]
        /\ DequeueKnows(u)
    BY DEF Others, Shape
  <2>2. ASSUME pc[u] = "d_move", head.idx = mine[u]
        PROVE  next'[Node(mine[u])] = next[Node(mine[u])]
    <3>1. HeadAt \in HeadAt .. Len(log) + 1 /\ mine[u] = ChainAt(HeadAt)
      BY <2>2 DEF Shape, Ends
    <3>. QED  BY <3>1, <1>c
  <2>3. ASSUME pc[u] \in DeqHolding
        PROVE  /\ next'[Node(mine[u])] = next[Node(mine[u])]
               /\ item'[Node(mine[u])] = item[Node(mine[u])]
    BY <2>3, <1>e
  <2>4. pc[u] \in {"d_item", "d_push"} => pc[u] \in DeqHolding
    BY DEF DeqHolding
  <2>. QED  BY <1>0, <2>1, <2>2, <2>3, <2>4 DEF DequeueKnows
<1>6. Shape'
  BY <1>1, <1>2, <1>3, <1>4, <1>5 DEF Shape
<1>7. QueuePlaced(kind, at, ver)' /\ FreePlaced(kind, at, ver)' /\ FreshPlaced(kind)'
  BY <1>0 DEF Placed, QueuePlaced, FreePlaced, FreshPlaced
<1>8. HeldPlaced(kind, at, ver)'
  BY <1>d DEF Placed, HeldPlaced, Others
<1>9. VersionsGrow(kind, at, ver)'
  <2>1. \A m \in Nodes : kind[m] = "held" => (pc'[at[m]] \in EnqHolding <=> pc[at[m]] \in EnqHolding)
    BY <1>d DEF Placed, HeldPlaced, Others
  <2>. QED  BY <1>0, <1>b, <2>1 DEF Placed, VersionsGrow
<1>10. ASSUME NEW u \in Threads PROVE EnqueueKnows(u, kind, ver)'
  <2>. SUFFICES ASSUME u # t PROVE EnqueueKnows(u, kind, ver)'
    OBVIOUS
  <2>1. /\ pc'[u] = pc[u] /\ mine'[u] = mine[u] /\ nxt'[u] = nxt[u] /\ seen'[u] = seen[u]
        /\ arg'[u] = arg[u] /\ EnqueueKnows(u, kind, ver)
    BY DEF Others, Placed
  <2>2. ASSUME pc[u] \in {"e_next", "e_pop"}, kind[Node(seen[u])] = "free"
        PROVE  next'[Node(seen[u])] = next[Node(seen[u])]
    BY <2>1, <2>2, <1>a, IdxFacts DEF EnqueueKnows
  <2>3. ASSUME pc[u] \in EnqHolding
        PROVE  /\ next'[Node(mine[u])] = next[Node(mine[u])]
               /\ item'[Node(mine[u])] = item[Node(mine[u])]
    BY <2>3, <1>e
  <2>4. pc[u] \in {"e_item", "e_tail"} => pc[u] \in EnqHolding
    BY DEF EnqHolding
  <2>5. \A k \in HeadAt .. Len(log) : next'[Node(ChainAt(k))] = next[Node(ChainAt(k))]
    BY <1>c
  <2>. QED  BY <1>0, <2>1, <2>2, <2>3, <2>4, <2>5 DEF EnqueueKnows
<1>11. Placed(kind, at, ver)'
  BY <1>7, <1>8, <1>9, <1>10 DEF Placed
<1>. QED  BY <1>6, <1>11 DEF IInv

LEMMA DoEnqReset ==
    ASSUME IsFiniteSet(Producers), IInv, NEW t \in Producers, EnqReset(t)
    PROVE  IInv'
<1>. PICK kind \in [Nodes -> Kinds], at \in [Nodes -> Nat \cup Threads],
          ver \in [Nodes -> Versions] : Placed(kind, at, ver)
  BY DEF IInv
<1>. USE DEF Set, Goto, history
<1>1. t \in Threads /\ Shape /\ TypeOK /\ pc[t] = "e_reset"
  BY DEF Threads, IInv, Shape, EnqReset
<1>2. PICK n \in Nodes : n = Node(mine[t])
  BY <1>1, IdxFacts DEF Placed, HeldPlaced, EnqHolding
<1>3. TypeOK'
  BY <1>1, <1>2 DEF TypeOK, EnqReset, EnqPlaces
<1>4. /\ Others(t) /\ pc'[t] = "e_item" /\ mine'[t] = mine[t] /\ next'[n] = Null
      /\ \A m \in Nodes : m # n => next'[m] = next[m] /\ item'[m] = item[m]
  BY <1>1, <1>2 DEF TypeOK, Others, EnqReset
<1>5. Counted(ver)'
  <2>1. t \notin Allocating /\ t \notin Allocating'
    BY <1>1, <1>4 DEF Allocating
  <2>. QED  BY <1>1, <1>4, <2>1, CountedStays DEF Placed, EnqReset
<1>6. EnqueueKnows(t, kind, ver)' /\ DequeueKnows(t)'
  BY <1>2, <1>4 DEF EnqueueKnows, DequeueKnows
<1>. QED  BY <1>1, <1>2, <1>3, <1>4, <1>5, <1>6, OwnWrite DEF EnqReset, EnqHolding

LEMMA DoEnqItem ==
    ASSUME IsFiniteSet(Producers), IInv, NEW t \in Producers, EnqItem(t)
    PROVE  IInv'
<1>. PICK kind \in [Nodes -> Kinds], at \in [Nodes -> Nat \cup Threads],
          ver \in [Nodes -> Versions] : Placed(kind, at, ver)
  BY DEF IInv
<1>. USE DEF Set, Goto, history
<1>1. t \in Threads /\ Shape /\ TypeOK /\ pc[t] = "e_item"
  BY DEF Threads, IInv, Shape, EnqItem
<1>2. PICK n \in Nodes : n = Node(mine[t])
  BY <1>1, IdxFacts DEF Placed, HeldPlaced, EnqHolding
<1>3. TypeOK'
  BY <1>1, <1>2 DEF TypeOK, EnqItem, EnqPlaces
<1>4. /\ Others(t) /\ pc'[t] = "e_tail" /\ mine'[t] = mine[t] /\ item'[n] = arg'[t]
      /\ next' = next
      /\ \A m \in Nodes : m # n => next'[m] = next[m] /\ item'[m] = item[m]
  BY <1>1, <1>2 DEF TypeOK, Others, EnqItem
<1>5. Counted(ver)'
  <2>1. t \notin Allocating /\ t \notin Allocating'
    BY <1>1, <1>4 DEF Allocating
  <2>. QED  BY <1>1, <1>4, <2>1, CountedStays DEF Placed, EnqItem
<1>6. EnqueueKnows(t, kind, ver)' /\ DequeueKnows(t)'
  BY <1>1, <1>2, <1>4 DEF EnqueueKnows, DequeueKnows, Placed
<1>. QED  BY <1>1, <1>2, <1>3, <1>4, <1>5, <1>6, OwnWrite DEF EnqItem, EnqHolding

LEMMA DoDeqLink ==
    ASSUME IsFiniteSet(Producers), IInv, NEW t \in Consumers, DeqLink(t)
    PROVE  IInv'
<1>. PICK kind \in [Nodes -> Kinds], at \in [Nodes -> Nat \cup Threads],
          ver \in [Nodes -> Versions] : Placed(kind, at, ver)
  BY DEF IInv
<1>. USE DEF Set, Goto, history
<1>1. t \in Threads /\ Shape /\ TypeOK /\ pc[t] = "d_link"
  BY DEF Threads, IInv, Shape, DeqLink
<1>2. PICK n \in Nodes : n = Node(mine[t])
  BY <1>1, IdxFacts DEF Placed, HeldPlaced, DeqHolding
<1>3. TypeOK'
  BY <1>1, <1>2 DEF TypeOK, DeqLink, DeqPlaces
<1>4. /\ Others(t) /\ pc'[t] = "d_push" /\ mine'[t] = mine[t] /\ next'[n] = seen'[t]
      /\ \A m \in Nodes : m # n => next'[m] = next[m] /\ item'[m] = item[m]
  BY <1>1, <1>2 DEF TypeOK, Others, DeqLink
<1>5. Counted(ver)'
  BY <1>4, ConsumerCounts DEF Placed, DeqLink
<1>6. EnqueueKnows(t, kind, ver)' /\ DequeueKnows(t)'
  BY <1>2, <1>4 DEF EnqueueKnows, DequeueKnows
<1>. QED  BY <1>1, <1>2, <1>3, <1>4, <1>5, <1>6, OwnWrite DEF DeqLink, DeqHolding

-----------------------------------------------------------------------------
(* A producer gets a node *)

\* The nodes' places, before and after node n has moved.
Relocated(n, kind, at, ver, kind2, at2, ver2) ==
    /\ kind \in [Nodes -> Kinds] /\ kind2 \in [Nodes -> Kinds]
    /\ at \in [Nodes -> Nat \cup Threads] /\ at2 \in [Nodes -> Nat \cup Threads]
    /\ ver \in [Nodes -> Versions] /\ ver2 \in [Nodes -> Versions]
    /\ Placed(kind, at, ver)
    /\ \A m \in Nodes : m # n => kind2[m] = kind[m] /\ at2[m] = at[m] /\ ver2[m] = ver[m]

\* A node that was free, or never used, gets into the hands of thread t, with a version
\* nobody has seen.
Gets(t, n, v, kind, at, ver, kind2, at2, ver2) ==
    /\ Relocated(n, kind, at, ver, kind2, at2, ver2)
    /\ kind[n] \in {"free", "fresh"} /\ (kind[n] = "free" => ver[n] < v)
    /\ kind2[n] = "held" /\ at2[n] = t /\ ver2[n] = v
    /\ pc[t] \in {"e_pop", "e_new"} /\ pc'[t] \in EnqHolding /\ mine'[t] = <<n, v>>
    /\ \A m \in Nodes : m # n => next'[m] = next[m] /\ item'[m] = item[m]
    /\ UNCHANGED <<head, tail, log, claims>>
    /\ FreeListed' /\ FreePlaced(kind2, at2, ver2)' /\ FreshPlaced(kind2)' /\ Counted(ver2)'
    /\ EnqueueKnows(t, kind2, ver2)'

LEMMA GetNode ==
    ASSUME Shape, TypeOK', NEW t \in Threads, Others(t), NEW n \in Nodes, NEW v \in Versions,
           NEW kind, NEW at, NEW ver, NEW kind2, NEW at2, NEW ver2,
           Gets(t, n, v, kind, at, ver, kind2, at2, ver2)
    PROVE  IInv'
<1>. USE DEF Gets, Relocated
<1>. USE ChainFacts
<1>0. HeadAt' = HeadAt /\ (\A k : ChainAt(k)' = ChainAt(k)) /\ log' = log
  BY DEF HeadAt, ChainAt
<1>b. \A k \in 1 .. Len(log) + 1 : Node(ChainAt(k)) \in Nodes
  BY IdxFacts
<1>c. \A k \in HeadAt .. Len(log) + 1 : /\ Node(ChainAt(k)) # n
                                       /\ next'[Node(ChainAt(k))] = next[Node(ChainAt(k))]
                                       /\ item'[Node(ChainAt(k))] = item[Node(ChainAt(k))]
  <2>1. \A k \in HeadAt .. Len(log) + 1 : Node(ChainAt(k)) # n
    BY DEF Placed, QueuePlaced
  <2>. QED  BY <1>b, <2>1
<1>d. /\ pc[t] \notin EnqHolding \cup DeqHolding /\ pc[t] # "e_link" /\ pc'[t] # "e_link"
      /\ pc'[t] \notin DeqHolding \cup {"d_next", "d_flag", "d_move", "d_item", "d_push"}
  BY DEF EnqHolding, DeqHolding
<1>e. \A u \in Threads : pc[u] \in EnqHolding \cup DeqHolding =>
                           Node(mine[u]) \in Nodes /\ Node(mine[u]) # n
  BY IdxFacts DEF Placed, HeldPlaced
<1>f. <<n, v>> \in Idx /\ Node(<<n, v>>) = n /\ Version(<<n, v>>) = v
  BY IdxFacts
<1>1. Ends' /\ ClaimsInOrder' /\ ItemsKept'
  BY <1>0, <1>c DEF Shape, Ends, ClaimsInOrder, ItemsKept
<1>3. Links'
  <2>1. \A u \in Producers : pc[u] = "e_link" => /\ pc'[u] = "e_link" /\ seen'[u] = seen[u]
                                                 /\ mine'[u] = mine[u]
    BY <1>d DEF Others, Threads
  <2>2. Links
    BY DEF Shape
  <2>. QED  BY ONLY <1>0, <1>c, <2>1, <2>2 DEF Links
<1>4. OneLinker'
  BY <1>d DEF Shape, OneLinker, Others
<1>5. ASSUME NEW u \in Threads PROVE DequeueKnows(u)'
  <2>0. CASE u = t
    BY <2>0, <1>d DEF DequeueKnows
  <2>. SUFFICES ASSUME u # t PROVE DequeueKnows(u)'
    BY <2>0
  <2>1. /\ pc'[u] = pc[u] /\ mine'[u] = mine[u] /\ nxt'[u] = nxt[u] /\ seen'[u] = seen[u]
        /\ DequeueKnows(u)
    BY DEF Others, Shape
  <2>2. ASSUME pc[u] = "d_move", head.idx = mine[u]
        PROVE  next'[Node(mine[u])] = next[Node(mine[u])]
    <3>1. HeadAt \in HeadAt .. Len(log) + 1 /\ mine[u] = ChainAt(HeadAt)
      BY <2>2 DEF Shape, Ends
    <3>. QED  BY <3>1, <1>c
  <2>3. ASSUME pc[u] \in DeqHolding
        PROVE  /\ next'[Node(mine[u])] = next[Node(mine[u])]
               /\ item'[Node(mine[u])] = item[Node(mine[u])]
    BY <2>3, <1>e
  <2>4. pc[u] \in {"d_item", "d_push"} => pc[u] \in DeqHolding
    BY DEF DeqHolding
  <2>. QED  BY <1>0, <2>1, <2>2, <2>3, <2>4 DEF DequeueKnows
<1>6. Shape'
  BY <1>1, <1>3, <1>4, <1>5 DEF Shape
<1>7. QueuePlaced(kind2, at2, ver2)'
  <2>1. \A m \in Nodes : kind2[m] = "queue" => m # n /\ kind[m] = "queue" /\ at2[m] = at[m]
    OBVIOUS
  <2>. QED  BY <1>0, <1>b, <1>c, <2>1 DEF Placed, QueuePlaced
<1>8. HeldPlaced(kind2, at2, ver2)'
  <2>1. ASSUME NEW u \in Threads, pc'[u] \in EnqHolding \cup DeqHolding
        PROVE  /\ mine'[u] \in Idx /\ kind2[Node(mine'[u])] = "held"
               /\ at2[Node(mine'[u])] = u /\ ver2[Node(mine'[u])] = Version(mine'[u])
    <3>1. CASE u = t
      BY <3>1, <1>f
    <3>2. CASE u # t
      BY <3>2, <2>1, <1>e DEF Placed, HeldPlaced, Others
    <3>. QED  BY <3>1, <3>2
  <2>2. ASSUME NEW m \in Nodes, kind2[m] = "held"
        PROVE  /\ at2[m] \in Threads /\ pc'[at2[m]] \in EnqHolding \cup DeqHolding
               /\ Node(mine'[at2[m]]) = m
    <3>1. CASE m = n
      BY <3>1, <1>f
    <3>2. CASE m # n
      BY <3>2, <2>2, <1>d DEF Placed, HeldPlaced, Others
    <3>. QED  BY <3>1, <3>2
  <2>. QED  BY <2>1, <2>2 DEF HeldPlaced
<1>9. VersionsGrow(kind2, at2, ver2)'
  <2>1. \A m \in Nodes : m # n /\ kind[m] = "held" =>
                             (pc'[at[m]] \in EnqHolding <=> pc[at[m]] \in EnqHolding)
    BY <1>d DEF Placed, HeldPlaced, Others
  <2>2. ASSUME NEW k \in 1 .. Len(log) + 1, Node(ChainAt(k)) = n
        PROVE  Version(ChainAt(k)) < v
    <3>1. kind[n] # "fresh" /\ Version(ChainAt(k)) <= ver[n]
      BY <2>2 DEF Placed, VersionsGrow
    <3>2. Version(ChainAt(k)) \in Nat /\ ver[n] \in Nat /\ v \in Nat /\ ver[n] < v
      BY <3>1, IdxFacts, ConstFacts
    <3>. QED  BY <3>1, <3>2
  <2>3. ASSUME NEW k \in 1 .. Len(log) + 1, Node(ChainAt(k)) = n
        PROVE  Version(ChainAt(k)) <= v
    BY <2>2, <2>3, IdxFacts, ConstFacts
  <2>. QED  BY <1>0, <1>b, <2>1, <2>2, <2>3 DEF Placed, VersionsGrow
<1>10. ASSUME NEW u \in Threads PROVE EnqueueKnows(u, kind2, ver2)'
  <2>. SUFFICES ASSUME u # t PROVE EnqueueKnows(u, kind2, ver2)'
    OBVIOUS
  <2>1. /\ pc'[u] = pc[u] /\ mine'[u] = mine[u] /\ nxt'[u] = nxt[u] /\ seen'[u] = seen[u]
        /\ arg'[u] = arg[u] /\ EnqueueKnows(u, kind, ver)
    BY DEF Others, Placed
  <2>2. ASSUME pc[u] \in {"e_next", "e_pop"}, Node(seen[u]) = n
        PROVE  Version(seen[u]) < v /\ Version(seen[u]) <= v
    <3>1. /\ Version(seen[u]) \in Nat /\ ver[n] \in Nat /\ v \in Nat
          /\ Version(seen[u]) <= ver[n] /\ ver[n] < v
      BY <2>1, <2>2, IdxFacts, ConstFacts DEF EnqueueKnows
    <3>. QED  BY <3>1
  <2>3. ASSUME pc[u] \in {"e_next", "e_pop"}, Node(seen[u]) # n
        PROVE  /\ Node(seen[u]) \in Nodes
               /\ next'[Node(seen[u])] = next[Node(seen[u])]
               /\ kind2[Node(seen[u])] = kind[Node(seen[u])]
               /\ ver2[Node(seen[u])] = ver[Node(seen[u])]
    BY <2>1, <2>3, IdxFacts DEF EnqueueKnows
  <2>4. ASSUME pc[u] \in {"e_item", "e_tail"}
        PROVE  /\ next'[Node(mine[u])] = next[Node(mine[u])]
               /\ item'[Node(mine[u])] = item[Node(mine[u])]
    BY <2>4, <1>e DEF EnqHolding
  <2>5. \A k \in HeadAt .. Len(log) : next'[Node(ChainAt(k))] = next[Node(ChainAt(k))]
    BY <1>c
  <2>. QED  BY <1>0, <2>1, <2>2, <2>3, <2>4, <2>5 DEF EnqueueKnows
<1>11. Placed(kind2, at2, ver2)'
  BY <1>7, <1>8, <1>9, <1>10 DEF Placed
<1>. QED  BY <1>6, <1>11 DEF IInv

LEMMA DoEnqNew ==
    ASSUME IsFiniteSet(Producers), IInv, NEW t \in Producers, EnqNew(t)
    PROVE  IInv'
<1>. PICK kind \in [Nodes -> Kinds], at \in [Nodes -> Nat \cup Threads],
          ver \in [Nodes -> Versions] : Placed(kind, at, ver)
  BY DEF IInv
<1>. USE DEF Set, Goto, history
<1>1. t \in Threads /\ Shape /\ TypeOK /\ pc[t] = "e_new" /\ t \in Allocating
  BY DEF Threads, IInv, Shape, EnqNew, Allocating
<1>2. Others(t) /\ pc'[t] = "e_tail" /\ arg'[t] = arg[t]
  BY <1>1 DEF TypeOK, Others, EnqNew
<1>3. /\ Cardinality(Allocating') = Cardinality(Allocating) - 1
      /\ Cardinality(Allocating) \in Nat /\ Cardinality(Allocating) >= 1
  <2>1. t \notin Allocating'
    BY <1>2 DEF Allocating
  <2>. QED  BY <1>1, <1>2, <2>1, AllocatingNumber
<1>4. /\ calls \in Nat /\ calls <= MaxEnqueues /\ nextNodeIdx \in Nat
      /\ \A m \in Nodes : ver[m] \in Nat
  BY <1>1, ConstFacts DEF TypeOK, Items
<1>5. /\ nextNodeIdx >= 2 /\ nextNodeIdx + Cardinality(Allocating) <= calls + 2
      /\ \A m \in Nodes : ver[m] + Cardinality(Allocating) <= calls
  BY DEF Placed, Counted
<1>6. PICK n \in Nodes : n = nextNodeIdx
  BY <1>3, <1>4, <1>5, ConstFacts
<1>7. TypeOK'
  <2>1. nextNodeIdx' \in Nodes \cup {MaxEnqueues + 2}
    BY <1>6, ConstFacts DEF EnqNew
  <2>2. <<nextNodeIdx, 0>> \in Idx
    BY <1>6, IdxFacts, ConstFacts
  <2>3. arg[t] \in Items
    BY <1>1 DEF TypeOK
  <2>. QED  BY <1>1, <1>6, <2>1, <2>2, <2>3 DEF TypeOK, EnqNew, EnqPlaces
<1>8a. "held" \in Kinds /\ t \in Nat \cup Threads /\ 0 \in Versions
  BY <1>1, ConstFacts DEF Kinds
<1>8k. PICK kind2, at2, ver2 : /\ kind2 = [kind EXCEPT ![n] = "held"]
                              /\ at2 = [at EXCEPT ![n] = t] /\ ver2 = [ver EXCEPT ![n] = 0]
  OBVIOUS
<1>8. /\ kind2 \in [Nodes -> Kinds] /\ at2 \in [Nodes -> Nat \cup Threads]
      /\ ver2 \in [Nodes -> Versions]
      /\ kind2[n] = "held" /\ at2[n] = t /\ ver2[n] = 0
      /\ \A m \in Nodes : m # n => kind2[m] = kind[m] /\ at2[m] = at[m] /\ ver2[m] = ver[m]
  BY <1>8a, <1>8k
<1>9. kind[n] = "fresh"
  BY <1>4, <1>6 DEF Placed, FreshPlaced
<1>10. /\ mine'[t] = <<n, 0>> /\ next'[n] = Null /\ item'[n] = arg[t]
       /\ \A m \in Nodes : m # n => next'[m] = next[m] /\ item'[m] = item[m]
  BY <1>1, <1>6 DEF TypeOK, EnqNew
<1>11. FreePlaced(kind2, at2, ver2)' /\ FreeListed'
  <2>1. DOMAIN frees = 1 .. Len(frees) /\ frees' = frees /\ freeListHead' = freeListHead
    BY <1>1 DEF TypeOK, EnqNew
  <2>2. \A k \in 1 .. Len(frees) : Node(frees[k]) \in Nodes /\ Node(frees[k]) # n
    BY <1>1, <1>9, ChainFacts, IdxFacts DEF Placed, FreePlaced
  <2>3. FreePlaced(kind2, at2, ver2)'
    BY <1>8, <2>1, <2>2 DEF Placed, FreePlaced
  <2>4. FreeListed'
    BY <1>1, <1>10, <2>1, <2>2 DEF Shape, FreeListed, FreeAt
  <2>. QED  BY <2>3, <2>4
<1>12. FreshPlaced(kind2)'
  <2>1. nextNodeIdx' = n + 1
    BY <1>6 DEF EnqNew
  <2>. QED  BY <1>6, <1>8, <2>1, ConstFacts DEF Placed, FreshPlaced
<1>13. Counted(ver2)'
  <2>1. nextNodeIdx' = nextNodeIdx + 1 /\ calls' = calls
    BY DEF EnqNew
  <2>. QED  BY <1>3, <1>4, <1>5, <1>8, <2>1 DEF Counted
<1>14. EnqueueKnows(t, kind2, ver2)'
  <2>1. Node(mine'[t]) = n
    BY <1>10, IdxFacts, ConstFacts
  <2>. QED  BY <1>2, <1>10, <2>1 DEF EnqueueKnows
<1>15. /\ pc[t] \in {"e_pop", "e_new"} /\ pc'[t] \in EnqHolding
       /\ kind[n] \in {"free", "fresh"} /\ (kind[n] = "free" => ver[n] < 0)
       /\ 0 \in Versions /\ UNCHANGED <<head, tail, log, claims>>
  BY <1>1, <1>2, <1>9, ConstFacts DEF EnqNew, EnqHolding
<1>16. Gets(t, n, 0, kind, at, ver, kind2, at2, ver2)
  BY <1>8, <1>10, <1>11, <1>12, <1>13, <1>14, <1>15 DEF Gets, Relocated
<1>. QED  BY <1>1, <1>2, <1>6, <1>7, <1>15, <1>16, GetNode

LEMMA DoEnqPop ==
    ASSUME NoVersionWrap, IsFiniteSet(Producers), IInv, NEW t \in Producers, EnqPop(t),
           freeListHead = seen[t]
    PROVE  IInv'
<1>. PICK kind \in [Nodes -> Kinds], at \in [Nodes -> Nat \cup Threads],
          ver \in [Nodes -> Versions] : Placed(kind, at, ver)
  BY DEF IInv
<1>. USE DEF Set, Goto, history
<1>1. t \in Threads /\ Shape /\ TypeOK /\ pc[t] = "e_pop" /\ t \in Allocating
  BY DEF Threads, IInv, Shape, EnqPop, Allocating
<1>2. /\ freeListHead' = nxt[t] /\ frees' = SubSeq(frees, 1, Len(frees) - 1)
      /\ mine' = [mine EXCEPT ![t] = Reused(seen[t])] /\ pc' = [pc EXCEPT ![t] = "e_reset"]
      /\ UNCHANGED <<nextNodeIdx, head, tail, next, item, nxt, consumed, arg, calls, log,
                     claims, seen>>
  BY DEF EnqPop
<1>3. Others(t) /\ pc'[t] = "e_reset" /\ mine'[t] = Reused(seen[t])
  BY <1>1, <1>2 DEF TypeOK, Others
<1>4. seen[t] \in Idx /\ freeListHead # Null
  BY <1>1, IdxFacts DEF Placed, EnqueueKnows
<1>5. PICK n \in Nodes : n = Node(seen[t])
  BY <1>4, IdxFacts
<1>6. /\ Len(frees) >= 1 /\ Len(frees) \in 1 .. Len(frees) /\ seen[t] = frees[Len(frees)]
      /\ kind[n] = "free" /\ at[n] = Len(frees) /\ ver[n] = Version(seen[t])
  BY <1>1, <1>4, <1>5, ListHead
<1>7. /\ Cardinality(Allocating') = Cardinality(Allocating) - 1
      /\ Cardinality(Allocating) \in Nat /\ Cardinality(Allocating) >= 1
  <2>1. t \notin Allocating'
    BY <1>3 DEF Allocating
  <2>. QED  BY <1>1, <1>3, <2>1, AllocatingNumber
<1>8. /\ calls \in Nat /\ calls <= MaxEnqueues /\ nextNodeIdx \in Nat
      /\ \A m \in Nodes : ver[m] \in Nat
  BY <1>1, ConstFacts DEF TypeOK, Items
<1>9. /\ nextNodeIdx >= 2 /\ nextNodeIdx + Cardinality(Allocating) <= calls + 2
      /\ \A m \in Nodes : ver[m] + Cardinality(Allocating) <= calls
  BY DEF Placed, Counted
<1>10. PICK v \in Versions : v = ver[n] + 1 /\ ver[n] < v /\ v <= calls /\ v \in Nat
  <2>1. ver[n] + 1 <= calls /\ ver[n] \in Nat
    BY <1>7, <1>8, <1>9
  <2>. QED  BY <2>1, <1>8, QueueAssumption DEF NoVersionWrap, Versions
<1>11. Reused(seen[t]) = <<n, v>>
  <2>1. (Version(seen[t]) + 1) % VersionMod = v
    <3>1. v % VersionMod = v
      BY QueueAssumption DEF Versions
    <3>. QED  BY <1>6, <1>10, <3>1
  <2>. QED  BY <1>5, <2>1 DEF Reused, Node, Version
<1>12. /\ frees' \in Seq(Idx) /\ Len(frees') = Len(frees) - 1
       /\ \A k \in 1 .. Len(frees) - 1 : frees'[k] = frees[k]
  <2>1. frees \in Seq(Idx)
    BY <1>1 DEF TypeOK
  <2>. QED  BY <1>2, <1>6, <2>1
<1>13. nxt[t] = FreeAt(Len(frees) - 1)
  <2>1. nxt[t] = next[n]
    BY <1>1, <1>5, <1>6 DEF Placed, EnqueueKnows
  <2>2. DOMAIN frees = 1 .. Len(frees)
    BY <1>1 DEF TypeOK
  <2>. QED  BY <1>1, <1>5, <1>6, <2>1, <2>2 DEF Shape, FreeListed
<1>14. TypeOK'
  <2>1. <<n, v>> \in Idx
    BY IdxFacts
  <2>2. nxt[t] \in Idx \cup {Null}
    BY <1>1 DEF TypeOK
  <2>. QED  BY <1>1, <1>2, <1>11, <1>12, <2>1, <2>2 DEF TypeOK, EnqPlaces
<1>15a. "held" \in Kinds /\ t \in Nat \cup Threads /\ v \in Versions
  BY <1>1, ConstFacts DEF Kinds
<1>15k. PICK kind2, at2, ver2 : /\ kind2 = [kind EXCEPT ![n] = "held"]
                              /\ at2 = [at EXCEPT ![n] = t] /\ ver2 = [ver EXCEPT ![n] = v]
  OBVIOUS
<1>15. /\ kind2 \in [Nodes -> Kinds] /\ at2 \in [Nodes -> Nat \cup Threads]
       /\ ver2 \in [Nodes -> Versions]
       /\ kind2[n] = "held" /\ at2[n] = t /\ ver2[n] = v
       /\ \A m \in Nodes : m # n => kind2[m] = kind[m] /\ at2[m] = at[m] /\ ver2[m] = ver[m]
  BY <1>15a, <1>15k
<1>16. FreePlaced(kind2, at2, ver2)'
  <2>1. ASSUME NEW k \in 1 .. Len(frees) - 1
        PROVE  /\ Node(frees[k]) \in Nodes /\ Node(frees[k]) # n
               /\ kind[Node(frees[k])] = "free" /\ at[Node(frees[k])] = k
               /\ ver[Node(frees[k])] = Version(frees[k])
    <3>1. k \in 1 .. Len(frees) /\ k # Len(frees)
      BY <1>6
    <3>2. frees[k] \in Idx
      BY <1>1, <3>1, ChainFacts
    <3>3. /\ kind[Node(frees[k])] = "free" /\ at[Node(frees[k])] = k
          /\ ver[Node(frees[k])] = Version(frees[k])
      BY <3>1 DEF Placed, FreePlaced
    <3>. QED  BY <1>6, <3>1, <3>2, <3>3, IdxFacts
  <2>2. ASSUME NEW m \in Nodes, kind2[m] = "free"
        PROVE  at2[m] \in 1 .. Len(frees) - 1 /\ Node(frees[at2[m]]) = m
    <3>1. m # n /\ kind[m] = "free" /\ at2[m] = at[m]
      BY <1>15, <2>2
    <3>2. at[m] \in 1 .. Len(frees) /\ Node(frees[at[m]]) = m
      BY <3>1 DEF Placed, FreePlaced
    <3>3. at[m] # Len(frees)
      BY <1>5, <1>6, <3>1, <3>2
    <3>. QED  BY <3>1, <3>2, <3>3, <1>6
  <2>3. ASSUME NEW k \in 1 .. Len(frees')
        PROVE  /\ kind2[Node(frees'[k])] = "free" /\ at2[Node(frees'[k])] = k
               /\ ver2[Node(frees'[k])] = Version(frees'[k])
    <3>1. k \in 1 .. Len(frees) - 1 /\ frees'[k] = frees[k]
      BY <1>12
    <3>. QED  BY <1>15, <2>1, <3>1
  <2>4. ASSUME NEW m \in Nodes, kind2[m] = "free"
        PROVE  at2[m] \in 1 .. Len(frees') /\ Node(frees'[at2[m]]) = m
    BY <1>12, <2>2, <2>4
  <2>. QED  BY <2>3, <2>4 DEF FreePlaced
<1>17. FreeListed'
  <2>1. DOMAIN frees = 1 .. Len(frees) /\ DOMAIN frees' = 1 .. Len(frees) - 1
    BY <1>1, <1>12 DEF TypeOK
  <2>2. Len(frees) \in Nat
    BY <1>1, ChainFacts
  <2>3. \A k \in 0 .. Len(frees) - 1 : FreeAt(k)' = FreeAt(k)
    BY <1>12, <2>2 DEF FreeAt
  <2>4. freeListHead' = FreeAt(Len(frees))'
    <3>1. freeListHead' = FreeAt(Len(frees) - 1)
      BY <1>2, <1>13
    <3>2. CASE Len(frees) = 1
      BY <3>1, <3>2, <1>12 DEF FreeAt
    <3>3. CASE Len(frees) # 1
      <4>1. Len(frees) - 1 \in 1 .. Len(frees) - 1
        BY <1>6, <2>2, <3>3
      <4>. QED  BY <3>1, <4>1, <1>12 DEF FreeAt
    <3>. QED  BY <3>2, <3>3
  <2>5. ASSUME NEW k \in 1 .. Len(frees) - 1 PROVE next'[Node(frees'[k])] = FreeAt(k - 1)'
    <3>1. k \in DOMAIN frees /\ k - 1 \in 0 .. Len(frees) - 1 /\ next' = next /\ frees'[k] = frees[k]
      BY <1>2, <1>12, <2>1, <2>2
    <3>. QED  BY <1>1, <2>3, <3>1 DEF Shape, FreeListed
  <2>. QED  BY <2>1, <2>4, <2>5 DEF FreeListed
<1>18. FreshPlaced(kind2)'
  BY <1>2, <1>6, <1>15 DEF Placed, FreshPlaced
<1>19. Counted(ver2)'
  <2>1. ASSUME NEW m \in Nodes PROVE ver2[m] + Cardinality(Allocating') <= calls
    <3>1. ver[m] \in Nat /\ ver[m] + Cardinality(Allocating) <= calls
      BY <1>8, <1>9
    <3>2. CASE m = n
      BY <3>1, <3>2, <1>7, <1>8, <1>10, <1>15
    <3>3. CASE m # n
      BY <3>1, <3>3, <1>7, <1>8, <1>15
    <3>. QED  BY <3>2, <3>3
  <2>. QED  BY <1>2, <1>7, <1>8, <1>9, <2>1 DEF Counted
<1>20. EnqueueKnows(t, kind2, ver2)'
  BY <1>3 DEF EnqueueKnows
<1>21. /\ kind[n] \in {"free", "fresh"} /\ (kind[n] = "free" => ver[n] < v)
       /\ mine'[t] = <<n, v>> /\ pc'[t] \in EnqHolding /\ pc[t] \in {"e_pop", "e_new"}
       /\ \A m \in Nodes : m # n => next'[m] = next[m] /\ item'[m] = item[m]
       /\ UNCHANGED <<head, tail, log, claims>>
  BY <1>1, <1>2, <1>3, <1>6, <1>10, <1>11 DEF EnqHolding
<1>22. Gets(t, n, v, kind, at, ver, kind2, at2, ver2)
  BY <1>15, <1>16, <1>17, <1>18, <1>19, <1>20, <1>21 DEF Gets, Relocated
<1>. QED  BY <1>1, <1>3, <1>5, <1>10, <1>14, <1>22, GetNode

-----------------------------------------------------------------------------
(* A consumer consumes the item at the head, moves the head, and frees a node *)

LEMMA DoDeqFlag ==
    ASSUME IsFiniteSet(Producers), IInv, NEW t \in Consumers, DeqFlag(t),
           head = [idx |-> mine[t], consumed |-> FALSE]
    PROVE  IInv'
<1>. PICK kind \in [Nodes -> Kinds], at \in [Nodes -> Nat \cup Threads],
          ver \in [Nodes -> Versions] : Placed(kind, at, ver)
  BY DEF IInv
<1>. USE DEF Set, Goto, history
<1>1. t \in Threads /\ Shape /\ TypeOK /\ pc[t] = "d_flag"
  BY DEF Threads, IInv, Shape, DeqFlag
<1>2. /\ head' = [idx |-> mine[t], consumed |-> TRUE] /\ claims' = Append(claims, mine[t])
      /\ pc' = [pc EXCEPT ![t] = "d_take"]
      /\ UNCHANGED <<nextNodeIdx, tail, freeListHead, next, item, mine, seen, nxt,
                     consumed, arg, calls, log, frees>>
  BY DEF DeqFlag
<1>3. mine[t] = head.idx /\ head.idx \in Idx /\ head.consumed = FALSE
      /\ head'.idx = head.idx /\ head'.consumed = TRUE
  BY <1>1, <1>2 DEF TypeOK
<1>4. /\ claims \in Seq(Idx) /\ Len(claims) \in Nat
      /\ claims' \in Seq(Idx) /\ Len(claims') = Len(claims) + 1
      /\ \A k \in 1 .. Len(claims) : claims'[k] = claims[k]
      /\ claims'[Len(claims) + 1] = mine[t]
  BY <1>1, <1>2, <1>3 DEF TypeOK
<1>5. HeadAt = Len(claims) + 2 /\ HeadAt' = HeadAt
  BY <1>3, <1>4 DEF HeadAt
<1>6. TypeOK'
  BY <1>1, <1>2, <1>3, <1>4 DEF TypeOK, DeqPlaces
<1>7. Others(t) /\ pc'[t] = "d_take"
  BY <1>1, <1>2 DEF TypeOK, Others
<1>8. Ends'
  BY <1>1, <1>2, <1>3, <1>5 DEF Shape, Ends, ChainAt
<1>9. ClaimsInOrder'
  <2>1. Len(log) \in Nat /\ HeadAt <= Len(log) + 1 /\ ChainAt(HeadAt) = head.idx
    BY <1>1, ChainFacts DEF Shape, Ends
  <2>2. log[Len(claims) + 1].idx = mine[t] /\ Len(claims) + 1 <= Len(log)
    BY <1>3, <1>4, <1>5, <2>1 DEF ChainAt
  <2>3. DOMAIN claims' = 1 .. Len(claims) + 1 /\ DOMAIN claims = 1 .. Len(claims)
    BY <1>4
  <2>4. ASSUME NEW k \in 1 .. Len(claims) + 1 PROVE claims'[k] = log[k].idx
    <3>1. CASE k = Len(claims) + 1
      BY <3>1, <1>4, <2>2
    <3>2. CASE k \in 1 .. Len(claims)
      BY <3>2, <1>1, <1>4, <2>3 DEF Shape, ClaimsInOrder
    <3>. QED  BY <3>1, <3>2, <1>4
  <2>. QED  BY <1>2, <1>4, <2>2, <2>3, <2>4 DEF ClaimsInOrder
<1>10. Counted(ver)'
  BY <1>2, <1>7, ConsumerCounts DEF Placed
<1>11. EnqueueKnows(t, kind, ver)' /\ DequeueKnows(t)'
  BY <1>7 DEF EnqueueKnows, DequeueKnows
<1>. QED  BY <1>1, <1>2, <1>3, <1>5, <1>6, <1>7, <1>8, <1>9, <1>10, <1>11, QueueStays
          DEF EnqHolding, DeqHolding

LEMMA DoDeqPush ==
    ASSUME IsFiniteSet(Producers), IInv, NEW t \in Consumers, DeqPush(t), freeListHead = seen[t]
    PROVE  IInv'
<1>. PICK kind \in [Nodes -> Kinds], at \in [Nodes -> Nat \cup Threads],
          ver \in [Nodes -> Versions] : Placed(kind, at, ver)
  BY DEF IInv
<1>. USE DEF Set, Goto, history
<1>1. t \in Threads /\ Shape /\ TypeOK /\ pc[t] = "d_push" /\ 0 \in Items
  BY ConstFacts DEF Threads, IInv, Shape, DeqPush
<1>. USE <1>1, ChainFacts
<1>2. /\ freeListHead' = mine[t] /\ frees' = Append(frees, mine[t])
      /\ UNCHANGED <<nextNodeIdx, head, tail, next, item, calls, log, claims>>
  BY DEF DeqPush
<1>3. Others(t) /\ pc'[t] \in {"idle", "d_head"}
  BY DEF TypeOK, Others, DeqPush, Return
<1>4. mine[t] \in Idx
  BY DEF Placed, HeldPlaced, DeqHolding
<1>5. PICK n \in Nodes : n = Node(mine[t])
  BY <1>4, IdxFacts
<1>6. kind[n] = "held" /\ at[n] = t /\ ver[n] = Version(mine[t])
  BY <1>5 DEF Placed, HeldPlaced, DeqHolding
<1>7. /\ frees' \in Seq(Idx) /\ Len(frees') = Len(frees) + 1
      /\ \A k \in 1 .. Len(frees) : frees'[k] = frees[k]
      /\ frees'[Len(frees) + 1] = mine[t]
  BY <1>2, <1>4 DEF TypeOK
<1>8. TypeOK'
  <2>1. /\ pc' \in [Threads -> {"idle"} \cup EnqPlaces \cup DeqPlaces]
        /\ mine' \in [Threads -> Idx \cup {Null}] /\ seen' \in [Threads -> Idx \cup {Null}]
        /\ nxt' \in [Threads -> Idx \cup {Null}] /\ consumed' \in [Threads -> BOOLEAN]
        /\ arg' \in [Threads -> Items]
    <3>1. CASE Return(t)
      BY <3>1 DEF TypeOK, Return
    <3>2. CASE ~Return(t)
      <4>1. pc' = [pc EXCEPT ![t] = "d_head"] /\ UNCHANGED <<mine, seen, nxt, consumed, arg>>
        BY <3>2 DEF DeqPush
      <4>. QED  BY <4>1 DEF TypeOK, DeqPlaces
    <3>. QED  BY <3>1, <3>2
  <2>. QED  BY <1>2, <1>4, <1>7, <2>1 DEF TypeOK
<1>9. PICK p : p = Len(frees) + 1
  OBVIOUS
<1>10. PICK kind2, at2 : kind2 = [kind EXCEPT ![n] = "free"] /\ at2 = [at EXCEPT ![n] = p]
  OBVIOUS
<1>11. /\ kind2 \in [Nodes -> Kinds] /\ at2 \in [Nodes -> Nat \cup Threads]
       /\ kind2[n] = "free" /\ at2[n] = Len(frees) + 1
       /\ \A m \in Nodes : m # n => kind2[m] = kind[m] /\ at2[m] = at[m]
  BY <1>9, <1>10 DEF Kinds
<1>12. HeadAt' = HeadAt /\ (\A k : ChainAt(k)' = ChainAt(k)) /\ log' = log
  BY <1>2 DEF HeadAt, ChainAt
<1>13. Ends' /\ ClaimsInOrder' /\ ItemsKept'
  BY <1>2, <1>12 DEF Shape, Ends, ClaimsInOrder, ItemsKept
<1>14. Links'
  <2>1. \A u \in Producers : pc[u] = "e_link" => /\ pc'[u] = "e_link" /\ seen'[u] = seen[u]
                                                 /\ mine'[u] = mine[u]
    BY <1>3 DEF Others, Threads
  <2>2. Links /\ next' = next
    BY <1>2 DEF Shape
  <2>. QED  BY ONLY <1>12, <2>1, <2>2 DEF Links
<1>15. OneLinker'
  BY <1>3 DEF Shape, OneLinker, Others
<1>16. FreeListed'
  <2>1. DOMAIN frees = 1 .. Len(frees) /\ DOMAIN frees' = 1 .. Len(frees) + 1
    BY <1>7 DEF TypeOK
  <2>2. \A k \in 0 .. Len(frees) : FreeAt(k)' = FreeAt(k)
    BY <1>7 DEF FreeAt
  <2>3. freeListHead' = FreeAt(Len(frees))'
    BY <1>2, <1>7 DEF FreeAt
  <2>4. ASSUME NEW k \in 1 .. Len(frees) + 1 PROVE next'[Node(frees'[k])] = FreeAt(k - 1)'
    <3>1. CASE k \in 1 .. Len(frees)
      <4>1. k - 1 \in 0 .. Len(frees) /\ k \in DOMAIN frees
        BY <3>1, <2>1
      <4>. QED  BY <3>1, <4>1, <1>2, <1>7, <2>2 DEF Shape, FreeListed
    <3>2. CASE k = Len(frees) + 1
      <4>1. next[Node(mine[t])] = freeListHead
        BY DEF Shape, DequeueKnows
      <4>2. k - 1 = Len(frees) /\ Len(frees) \in 0 .. Len(frees)
        BY <3>2
      <4>. QED  BY <3>2, <4>1, <4>2, <1>2, <1>7, <2>2 DEF Shape, FreeListed
    <3>. QED  BY <3>1, <3>2
  <2>. QED  BY <2>1, <2>3, <2>4 DEF FreeListed
<1>17. ASSUME NEW u \in Threads PROVE DequeueKnows(u)'
  <2>1. CASE u = t
    BY <2>1, <1>3 DEF DequeueKnows
  <2>2. CASE u # t
    <3>1. /\ pc'[u] = pc[u] /\ mine'[u] = mine[u] /\ nxt'[u] = nxt[u] /\ seen'[u] = seen[u]
          /\ DequeueKnows(u) /\ UNCHANGED <<head, next, item>>
      BY <2>2, <1>2, <1>3 DEF Others, Shape
    <3>. QED  BY ONLY <3>1, <1>12 DEF DequeueKnows
  <2>. QED  BY <2>1, <2>2
<1>18. Shape'
  BY <1>8, <1>13, <1>14, <1>15, <1>16, <1>17 DEF Shape
<1>19. QueuePlaced(kind2, at2, ver)' /\ FreshPlaced(kind2)'
  <2>1. \A k \in HeadAt .. Len(log) + 1 : Node(ChainAt(k)) \in Nodes /\ Node(ChainAt(k)) # n
    BY <1>6, IdxFacts DEF Placed, QueuePlaced
  <2>. QED  BY <1>2, <1>6, <1>11, <1>12, <2>1 DEF Placed, QueuePlaced, FreshPlaced
<1>20. FreePlaced(kind2, at2, ver)'
  <2>1. ASSUME NEW k \in 1 .. Len(frees')
        PROVE  /\ kind2[Node(frees'[k])] = "free" /\ at2[Node(frees'[k])] = k
               /\ ver[Node(frees'[k])] = Version(frees'[k])
    <3>1. CASE k = Len(frees) + 1
      BY <3>1, <1>5, <1>6, <1>7, <1>11
    <3>2. CASE k \in 1 .. Len(frees)
      <4>1. Node(frees[k]) \in Nodes /\ frees'[k] = frees[k]
        BY <3>2, <1>7, IdxFacts
      <4>2. /\ kind[Node(frees[k])] = "free" /\ at[Node(frees[k])] = k
            /\ ver[Node(frees[k])] = Version(frees[k])
        BY <3>2 DEF Placed, FreePlaced
      <4>. QED  BY <4>1, <4>2, <1>6, <1>11
    <3>. QED  BY <3>1, <3>2, <1>7
  <2>2. ASSUME NEW m \in Nodes, kind2[m] = "free"
        PROVE  at2[m] \in 1 .. Len(frees') /\ Node(frees'[at2[m]]) = m
    <3>1. CASE m = n
      BY <3>1, <1>5, <1>7, <1>11
    <3>2. CASE m # n
      <4>1. at2[m] \in 1 .. Len(frees) /\ Node(frees[at2[m]]) = m
        BY <3>2, <2>2, <1>11 DEF Placed, FreePlaced
      <4>. QED  BY <4>1, <1>7
    <3>. QED  BY <3>1, <3>2
  <2>. QED  BY <2>1, <2>2 DEF FreePlaced
<1>21. HeldPlaced(kind2, at2, ver)'
  <2>1. ASSUME NEW u \in Threads, pc'[u] \in EnqHolding \cup DeqHolding
        PROVE  /\ u # t /\ pc[u] = pc'[u] /\ mine'[u] = mine[u]
               /\ mine[u] \in Idx /\ Node(mine[u]) \in Nodes /\ Node(mine[u]) # n
    <3>1. u # t
      BY <2>1, <1>3 DEF EnqHolding, DeqHolding
    <3>. QED  BY <3>1, <2>1, <1>3, <1>6, IdxFacts DEF Others, Placed, HeldPlaced
  <2>2. ASSUME NEW m \in Nodes, kind2[m] = "held" PROVE m # n /\ kind[m] = "held" /\ at[m] # t
    BY <2>2, <1>5, <1>11 DEF Placed, HeldPlaced
  <2>3. ASSUME NEW u \in Threads, pc'[u] \in EnqHolding \cup DeqHolding
        PROVE  /\ mine'[u] \in Idx /\ kind2[Node(mine'[u])] = "held"
               /\ at2[Node(mine'[u])] = u /\ ver[Node(mine'[u])] = Version(mine'[u])
    <3>1. /\ kind[Node(mine[u])] = "held" /\ at[Node(mine[u])] = u
          /\ ver[Node(mine[u])] = Version(mine[u])
      BY <2>1, <2>3 DEF Placed, HeldPlaced
    <3>. QED  BY <2>1, <2>3, <3>1, <1>11
  <2>4. ASSUME NEW m \in Nodes, kind2[m] = "held"
        PROVE  /\ at2[m] \in Threads /\ pc'[at2[m]] \in EnqHolding \cup DeqHolding
               /\ Node(mine'[at2[m]]) = m
    <3>1. /\ at[m] \in Threads /\ pc[at[m]] \in EnqHolding \cup DeqHolding
          /\ Node(mine[at[m]]) = m /\ at2[m] = at[m] /\ at[m] # t
      BY <2>2, <2>4, <1>11 DEF Placed, HeldPlaced
    <3>. QED  BY <3>1, <1>3 DEF Others
  <2>. QED  BY <2>3, <2>4 DEF HeldPlaced
<1>22. VersionsGrow(kind2, at2, ver)'
  <2>1. \A m \in Nodes : m # n /\ kind[m] = "held" => pc'[at[m]] = pc[at[m]]
    BY <1>3, <1>5 DEF Placed, HeldPlaced, Others
  <2>2. \A k \in 1 .. Len(log) + 1 : Node(ChainAt(k)) \in Nodes
    BY IdxFacts
  <2>. QED  BY <1>11, <1>12, <2>1, <2>2 DEF Placed, VersionsGrow
<1>23. ASSUME NEW u \in Threads PROVE EnqueueKnows(u, kind2, ver)'
  <2>0. CASE u = t
    BY <2>0, <1>3 DEF EnqueueKnows
  <2>. SUFFICES ASSUME u # t PROVE EnqueueKnows(u, kind2, ver)'
    BY <2>0
  <2>1. /\ pc'[u] = pc[u] /\ mine'[u] = mine[u] /\ nxt'[u] = nxt[u] /\ seen'[u] = seen[u]
        /\ arg'[u] = arg[u] /\ EnqueueKnows(u, kind, ver)
    BY <1>3 DEF Others, Placed
  <2>2. ASSUME pc[u] \in {"e_next", "e_pop"}
        PROVE  /\ Node(seen[u]) \in Nodes /\ Version(seen[u]) \in Nat
               /\ Node(seen[u]) # n => kind2[Node(seen[u])] = kind[Node(seen[u])]
               /\ Node(seen[u]) = n => Version(seen[u]) < ver[n]
    BY <2>1, <2>2, <1>6, <1>11, IdxFacts, ConstFacts DEF EnqueueKnows
  <2>3. ver[n] \in Nat
    BY ConstFacts
  <2>. QED  BY <1>2, <1>11, <1>12, <2>1, <2>2, <2>3 DEF EnqueueKnows
<1>24. Counted(ver)'
  BY <1>2, <1>3, ConsumerCounts DEF Placed
<1>25. Placed(kind2, at2, ver)'
  BY <1>19, <1>20, <1>21, <1>22, <1>23, <1>24 DEF Placed
<1>. QED  BY <1>11, <1>18, <1>25 DEF IInv

LEMMA DoDeqMove ==
    ASSUME IsFiniteSet(Producers), IInv, NEW t \in Consumers, DeqMove(t),
           head = [idx |-> mine[t], consumed |-> consumed[t]]
    PROVE  IInv'
<1>. PICK kind \in [Nodes -> Kinds], at \in [Nodes -> Nat \cup Threads],
          ver \in [Nodes -> Versions] : Placed(kind, at, ver)
  BY DEF IInv
<1>. USE DEF Set, Goto
<1>1. t \in Threads /\ Shape /\ TypeOK /\ pc[t] = "d_move"
  BY DEF Threads, IInv, Shape, DeqMove
<1>. USE <1>1, ChainFacts
<1>2. /\ head' = [idx |-> nxt[t], consumed |-> FALSE]
      /\ claims' = IF consumed[t] THEN claims ELSE Append(claims, mine[t])
      /\ pc' = [pc EXCEPT ![t] = IF consumed[t] THEN "d_list" ELSE "d_item"]
      /\ UNCHANGED <<nextNodeIdx, tail, freeListHead, next, item, mine, seen, nxt,
                     consumed, arg, calls, log, frees>>
  BY DEF DeqMove
<1>3. /\ mine[t] = head.idx /\ mine[t] \in Idx /\ consumed[t] \in BOOLEAN
      /\ head.consumed = consumed[t] /\ head'.idx = nxt[t] /\ head'.consumed = FALSE
  BY <1>2 DEF TypeOK
<1>4. /\ mine[t] = ChainAt(HeadAt) /\ HeadAt <= Len(log) /\ nxt[t] = ChainAt(HeadAt + 1)
      /\ next[Node(mine[t])] = nxt[t] /\ HeadAt \in HeadAt .. Len(log) + 1
      /\ HeadAt + 1 \in 1 .. Len(log) + 1
  BY <1>3 DEF Shape, Ends, DequeueKnows
<1>5. nxt[t] \in Idx
  BY <1>4
<1>6. /\ claims' \in Seq(Idx) /\ claims \in Seq(Idx)
      /\ consumed[t] => claims' = claims
      /\ ~consumed[t] => /\ Len(claims') = Len(claims) + 1
                         /\ \A k \in 1 .. Len(claims) : claims'[k] = claims[k]
                         /\ claims'[Len(claims) + 1] = mine[t]
  BY <1>2, <1>3 DEF TypeOK
<1>7. HeadAt' = HeadAt + 1 /\ (~consumed[t] => HeadAt = Len(claims) + 2)
  <2>1. CASE consumed[t]
    BY <2>1, <1>3, <1>6 DEF HeadAt
  <2>2. CASE ~consumed[t]
    BY <2>2, <1>3, <1>6 DEF HeadAt
  <2>. QED  BY <2>1, <2>2
<1>8. /\ (\A k : ChainAt(k)' = ChainAt(k)) /\ log' = log
      /\ UNCHANGED <<nextNodeIdx, tail, freeListHead, next, item, calls, frees>>
  BY <1>2 DEF ChainAt
<1>9. TypeOK'
  <2>1. head' \in [idx : Idx, consumed : BOOLEAN]
    BY <1>2, <1>5
  <2>2. pc' \in [Threads -> {"idle"} \cup EnqPlaces \cup DeqPlaces]
    BY <1>2 DEF TypeOK, DeqPlaces
  <2>. QED  BY <1>2, <1>6, <2>1, <2>2 DEF TypeOK
<1>10. /\ Others(t) /\ pc'[t] \in {"d_list", "d_item"} /\ (pc'[t] = "d_item" => ~consumed[t])
       /\ mine'[t] = mine[t]
  BY <1>2, <1>3 DEF TypeOK, Others
<1>11. Ends'
  BY <1>3, <1>4, <1>7, <1>8 DEF Shape, Ends
<1>12. ClaimsInOrder'
  <2>1. CASE consumed[t]
    BY <2>1, <1>6, <1>8 DEF Shape, ClaimsInOrder
  <2>2. CASE ~consumed[t]
    <3>1. log[Len(claims) + 1].idx = mine[t] /\ Len(claims) + 1 <= Len(log)
      BY <1>4, <1>7, <2>2 DEF ChainAt
    <3>2. DOMAIN claims' = 1 .. Len(claims) + 1 /\ DOMAIN claims = 1 .. Len(claims)
      BY <1>6, <2>2
    <3>3. ASSUME NEW k \in 1 .. Len(claims) + 1 PROVE claims'[k] = log[k].idx
      <4>1. CASE k = Len(claims) + 1
        BY <4>1, <2>2, <1>6, <3>1
      <4>2. CASE k \in 1 .. Len(claims)
        BY <4>2, <2>2, <1>6, <3>2 DEF Shape, ClaimsInOrder
      <4>. QED  BY <4>1, <4>2
    <3>. QED  BY <2>2, <1>6, <1>8, <3>1, <3>2, <3>3 DEF ClaimsInOrder
  <2>. QED  BY <2>1, <2>2
<1>13. Links'
  <2>1. \A u \in Producers : pc[u] = "e_link" => /\ pc'[u] = "e_link" /\ seen'[u] = seen[u]
                                                 /\ mine'[u] = mine[u]
    BY <1>10 DEF Others, Threads
  <2>2. Links /\ HeadAt \in Nat /\ Len(log) \in Nat
    BY DEF Shape
  <2>. QED  BY ONLY <1>7, <1>8, <2>1, <2>2 DEF Links
<1>14. ItemsKept' /\ FreeListed'
  BY <1>7, <1>8 DEF Shape, ItemsKept, FreeListed, FreeAt
<1>15. OneLinker'
  BY <1>10 DEF Shape, OneLinker, Others
<1>16. ASSUME NEW u \in Threads PROVE DequeueKnows(u)'
  <2>1. CASE u = t
    <3>1. ASSUME ~consumed[t]
          PROVE  \E j \in 1 .. Len(log) : /\ log[j].idx = mine[t]
                                          /\ log[j].item = item[Node(mine[t])]
      <4>1. HeadAt > 1 /\ HeadAt - 1 \in 1 .. Len(log)
        BY <1>4, <1>7, <3>1
      <4>2. log[HeadAt - 1].idx = mine[t]
        BY <1>4, <4>1 DEF ChainAt
      <4>3. log[HeadAt - 1].item = item[Node(mine[t])]
        BY <1>4, <4>1 DEF Shape, ItemsKept
      <4>. QED  BY <4>1, <4>2, <4>3
    <3>. QED  BY <2>1, <1>8, <1>10, <3>1 DEF DequeueKnows
  <2>2. CASE u # t
    <3>1. /\ pc'[u] = pc[u] /\ mine'[u] = mine[u] /\ nxt'[u] = nxt[u] /\ seen'[u] = seen[u]
          /\ DequeueKnows(u)
      BY <2>2, <1>10 DEF Others, Shape
    <3>2. ASSUME pc[u] \in {"d_next", "d_flag", "d_move"}
          PROVE  (\E k \in 1 .. HeadAt + 1 : mine[u] = ChainAt(k)) /\ head'.idx # mine[u]
      <4>1. PICK k \in 1 .. HeadAt : mine[u] = ChainAt(k)
        BY <3>1, <3>2 DEF DequeueKnows
      <4>2. k \in 1 .. Len(log) + 1 /\ k # HeadAt + 1 /\ k \in 1 .. HeadAt + 1
        OBVIOUS
      <4>3. ChainAt(k) # ChainAt(HeadAt + 1)
        BY <1>4, <4>2 DEF Placed, VersionsGrow
      <4>. QED  BY <1>3, <1>4, <4>1, <4>2, <4>3
    <3>. QED  BY ONLY <3>1, <3>2, <1>7, <1>8 DEF DequeueKnows
  <2>. QED  BY <2>1, <2>2
<1>17. Shape'
  BY <1>9, <1>11, <1>12, <1>13, <1>14, <1>15, <1>16 DEF Shape
<1>18. PICK n \in Nodes : n = Node(mine[t])
  BY <1>3, IdxFacts
<1>19. kind[n] = "queue" /\ at[n] = HeadAt /\ ver[n] = Version(mine[t])
  BY <1>4, <1>18 DEF Placed, QueuePlaced
<1>20. PICK kind2, at2 : kind2 = [kind EXCEPT ![n] = "held"] /\ at2 = [at EXCEPT ![n] = t]
  OBVIOUS
<1>21. /\ kind2 \in [Nodes -> Kinds] /\ at2 \in [Nodes -> Nat \cup Threads]
       /\ kind2[n] = "held" /\ at2[n] = t
       /\ \A m \in Nodes : m # n => kind2[m] = kind[m] /\ at2[m] = at[m]
  BY <1>20 DEF Kinds
<1>22. QueuePlaced(kind2, at2, ver)'
  <2>1. ASSUME NEW k \in HeadAt + 1 .. Len(log) + 1
        PROVE  /\ kind2[Node(ChainAt(k))] = "queue" /\ at2[Node(ChainAt(k))] = k
               /\ ver[Node(ChainAt(k))] = Version(ChainAt(k))
    <3>1. k \in HeadAt .. Len(log) + 1 /\ k # HeadAt /\ Node(ChainAt(k)) \in Nodes
      BY IdxFacts
    <3>2. /\ kind[Node(ChainAt(k))] = "queue" /\ at[Node(ChainAt(k))] = k
          /\ ver[Node(ChainAt(k))] = Version(ChainAt(k))
      BY <3>1 DEF Placed, QueuePlaced
    <3>. QED  BY <3>1, <3>2, <1>19, <1>21
  <2>2. ASSUME NEW m \in Nodes, kind2[m] = "queue"
        PROVE  at2[m] \in HeadAt + 1 .. Len(log) + 1 /\ Node(ChainAt(at2[m])) = m
    <3>1. m # n /\ kind[m] = "queue" /\ at2[m] = at[m]
      BY <2>2, <1>21
    <3>2. at[m] \in HeadAt .. Len(log) + 1 /\ Node(ChainAt(at[m])) = m
      BY <3>1 DEF Placed, QueuePlaced
    <3>3. at[m] # HeadAt
      BY <3>1, <3>2, <1>4, <1>18
    <3>. QED  BY <3>1, <3>2, <3>3
  <2>. QED  BY ONLY <1>7, <1>8, <2>1, <2>2 DEF QueuePlaced
<1>23. FreePlaced(kind2, at2, ver)' /\ FreshPlaced(kind2)'
  <2>1. \A k \in 1 .. Len(frees) : Node(frees[k]) \in Nodes /\ Node(frees[k]) # n
    BY <1>19, IdxFacts DEF Placed, FreePlaced
  <2>2. FreePlaced(kind2, at2, ver)'
    BY <1>8, <1>21, <2>1 DEF Placed, FreePlaced
  <2>3. FreshPlaced(kind2)'
    BY <1>8, <1>19, <1>21 DEF Placed, FreshPlaced
  <2>. QED  BY <2>2, <2>3
<1>24. HeldPlaced(kind2, at2, ver)'
  <2>1. ASSUME NEW u \in Threads, pc'[u] \in EnqHolding \cup DeqHolding
        PROVE  /\ mine'[u] \in Idx /\ kind2[Node(mine'[u])] = "held"
               /\ at2[Node(mine'[u])] = u /\ ver[Node(mine'[u])] = Version(mine'[u])
    <3>1. CASE u = t
      BY <3>1, <1>3, <1>10, <1>18, <1>19, <1>21
    <3>2. CASE u # t
      <4>1. pc[u] = pc'[u] /\ mine'[u] = mine[u]
        BY <3>2, <1>10 DEF Others
      <4>2. /\ mine[u] \in Idx /\ kind[Node(mine[u])] = "held" /\ at[Node(mine[u])] = u
            /\ ver[Node(mine[u])] = Version(mine[u])
        BY <2>1, <4>1 DEF Placed, HeldPlaced
      <4>3. Node(mine[u]) \in Nodes /\ Node(mine[u]) # n
        BY <4>2, <1>19, IdxFacts
      <4>. QED  BY <4>1, <4>2, <4>3, <1>21
    <3>. QED  BY <3>1, <3>2
  <2>2. ASSUME NEW m \in Nodes, kind2[m] = "held"
        PROVE  /\ at2[m] \in Threads /\ pc'[at2[m]] \in EnqHolding \cup DeqHolding
               /\ Node(mine'[at2[m]]) = m
    <3>1. CASE m = n
      BY <3>1, <1>10, <1>18, <1>21 DEF DeqHolding
    <3>2. CASE m # n
      <4>1. /\ at[m] \in Threads /\ pc[at[m]] \in EnqHolding \cup DeqHolding
            /\ Node(mine[at[m]]) = m /\ at2[m] = at[m]
        BY <3>2, <2>2, <1>21 DEF Placed, HeldPlaced
      <4>2. at[m] # t
        BY <4>1 DEF EnqHolding, DeqHolding
      <4>. QED  BY <4>1, <4>2, <1>10 DEF Others
    <3>. QED  BY <3>1, <3>2
  <2>. QED  BY <2>1, <2>2 DEF HeldPlaced
<1>25. VersionsGrow(kind2, at2, ver)'
  <2>1. \A m \in Nodes : m # n /\ kind[m] = "held" =>
                             (pc'[at[m]] \in EnqHolding => pc[at[m]] \in EnqHolding)
    BY <1>10 DEF Placed, HeldPlaced, Others, EnqHolding
  <2>2. \A k \in 1 .. Len(log) + 1 : Node(ChainAt(k)) \in Nodes
    BY IdxFacts
  <2>3. pc'[at2[n]] \notin EnqHolding
    BY <1>10, <1>21 DEF EnqHolding
  <2>4. VersionsGrow(kind, at, ver)
    BY DEF Placed
  <2>. QED  BY ONLY <1>8, <1>18, <1>21, <2>1, <2>2, <2>3, <2>4 DEF VersionsGrow
<1>26. ASSUME NEW u \in Threads PROVE EnqueueKnows(u, kind2, ver)'
  <2>0. CASE u = t
    BY <2>0, <1>10 DEF EnqueueKnows
  <2>. SUFFICES ASSUME u # t PROVE EnqueueKnows(u, kind2, ver)'
    BY <2>0
  <2>1. /\ pc'[u] = pc[u] /\ mine'[u] = mine[u] /\ nxt'[u] = nxt[u] /\ seen'[u] = seen[u]
        /\ arg'[u] = arg[u] /\ EnqueueKnows(u, kind, ver)
    BY <1>10 DEF Others, Placed
  <2>2. ASSUME pc[u] \in {"e_next", "e_pop"}
        PROVE  /\ kind2[Node(seen[u])] # "fresh"
               /\ kind2[Node(seen[u])] = "free" <=> kind[Node(seen[u])] = "free"
    BY <2>1, <2>2, <1>19, <1>21, IdxFacts DEF EnqueueKnows
  <2>3. ASSUME pc[u] = "e_link"
        PROVE  \E k \in HeadAt + 1 .. Len(log) : /\ seen[u] = ChainAt(k)
                                                 /\ mine[u] = ChainAt(k + 1)
                                                 /\ next[Node(ChainAt(k))] = Null
    <3>1. PICK k \in HeadAt .. Len(log) : /\ seen[u] = ChainAt(k) /\ mine[u] = ChainAt(k + 1)
                                          /\ next[Node(ChainAt(k))] = Null
      BY <2>1, <2>3 DEF EnqueueKnows
    <3>2. k # HeadAt
      BY <3>1, <1>4, <1>5, IdxFacts
    <3>. QED  BY <3>1, <3>2
  <2>. QED  BY ONLY <1>7, <1>8, <2>1, <2>2, <2>3 DEF EnqueueKnows
<1>27. Counted(ver)'
  BY <1>8, <1>10, ConsumerCounts DEF Placed
<1>28. Placed(kind2, at2, ver)'
  BY <1>22, <1>23, <1>24, <1>25, <1>26, <1>27 DEF Placed
<1>. QED  BY <1>17, <1>21, <1>28 DEF IInv

-----------------------------------------------------------------------------
(* A producer enqueues its node: it moves the tail, then links the node *)

LEMMA DoEnqTail ==
    ASSUME IsFiniteSet(Producers), IInv, NEW t \in Producers, EnqTail(t)
    PROVE  IInv'
<1>. PICK kind \in [Nodes -> Kinds], at \in [Nodes -> Nat \cup Threads],
          ver \in [Nodes -> Versions] : Placed(kind, at, ver)
  BY DEF IInv
<1>. USE DEF Set, Goto
<1>1. t \in Threads /\ Shape /\ TypeOK /\ pc[t] = "e_tail"
  BY DEF Threads, IInv, Shape, EnqTail
<1>. USE <1>1, ChainFacts
<1>0. HeadAt \in Nat /\ HeadAt >= 1 /\ HeadAt <= Len(log) + 1 /\ Len(log) \in Nat
  OBVIOUS
<1>2. /\ seen' = [seen EXCEPT ![t] = tail] /\ tail' = mine[t]
      /\ log' = Append(log, [idx |-> mine[t], item |-> arg[t]])
      /\ pc' = [pc EXCEPT ![t] = "e_link"]
      /\ UNCHANGED <<nextNodeIdx, head, freeListHead, next, item, mine, nxt, consumed, arg,
                     calls, claims, frees>>
  BY DEF EnqTail
<1>3. mine[t] \in Idx /\ arg[t] \in Items
  BY DEF Placed, HeldPlaced, EnqHolding, TypeOK
<1>4. PICK n \in Nodes : n = Node(mine[t])
  BY <1>3, IdxFacts
<1>5. kind[n] = "held" /\ at[n] = t /\ ver[n] = Version(mine[t]) /\ ver[n] \in Nat
  BY <1>4, ConstFacts DEF Placed, HeldPlaced, EnqHolding
<1>6. next[n] = Null /\ item[n] = arg[t]
  BY <1>4 DEF Placed, EnqueueKnows
<1>7. /\ log' \in Seq([idx : Idx, item : Items]) /\ Len(log') = Len(log) + 1
      /\ \A k \in 1 .. Len(log) : log'[k] = log[k]
      /\ log'[Len(log) + 1] = [idx |-> mine[t], item |-> arg[t]]
  BY <1>2, <1>3 DEF TypeOK
<1>L. PICK L \in Nat : L = Len(log)
  OBVIOUS
<1>8. /\ HeadAt' = HeadAt /\ (\A k \in 1 .. Len(log) + 1 : ChainAt(k)' = ChainAt(k))
      /\ ChainAt(L + 1)' = ChainAt(L + 1) /\ ChainAt(L + 2)' = mine[t]
      /\ L = Len(log) /\ L \in Nat /\ Len(log') = L + 1
      /\ UNCHANGED <<nextNodeIdx, head, freeListHead, next, item, claims, frees>>
  <2>1. HeadAt' = HeadAt
    BY <1>2 DEF HeadAt
  <2>2. ASSUME NEW k \in 1 .. Len(log) + 1 PROVE ChainAt(k)' = ChainAt(k)
    <3>1. k = 1 \/ k - 1 \in 1 .. Len(log)
      OBVIOUS
    <3>. QED  BY <3>1, <1>7 DEF ChainAt
  <2>3. ChainAt(L + 2)' = mine[t]
    BY <1>7, <1>L DEF ChainAt
  <2>. QED  BY <1>2, <1>7, <1>L, <2>1, <2>2, <2>3
<1>9. TypeOK'
  <2>1. pc' \in [Threads -> {"idle"} \cup EnqPlaces \cup DeqPlaces]
    BY <1>2 DEF TypeOK, EnqPlaces
  <2>2. seen' \in [Threads -> Idx \cup {Null}]
    BY <1>2 DEF TypeOK
  <2>. QED  BY <1>2, <1>3, <1>7, <2>1, <2>2 DEF TypeOK
<1>10. Others(t) /\ pc'[t] = "e_link" /\ mine'[t] = mine[t] /\ seen'[t] = ChainAt(Len(log) + 1)
  BY <1>2 DEF TypeOK, Others, Shape, Ends
<1>11. \A k \in 1 .. Len(log) + 1 : ChainAt(k) # mine[t] /\ Node(ChainAt(k)) \in Nodes
  <2>1. ASSUME NEW k \in 1 .. Len(log) + 1, ChainAt(k) = mine[t] PROVE FALSE
    <3>1. Version(ChainAt(k)) < ver[n]
      BY <1>4, <1>5, <2>1 DEF Placed, VersionsGrow, EnqHolding
    <3>. QED  BY <3>1, <2>1, <1>5
  <2>. QED  BY <2>1, IdxFacts
<1>12. Ends'
  <2>1. ChainAt(Len(log) + 1)' = mine[t]
    <3>1. Len(log') + 1 = L + 2
      BY <1>8
    <3>. QED  BY <3>1, <1>8
  <2>. QED  BY <1>2, <1>8, <2>1 DEF Shape, Ends
<1>13. ClaimsInOrder'
  <2>1. DOMAIN claims = 1 .. Len(claims) /\ Len(claims) <= Len(log)
    BY DEF TypeOK, Shape, ClaimsInOrder
  <2>. QED  BY <1>7, <1>8, <2>1 DEF Shape, ClaimsInOrder
<1>14. Links'
  <2>1. \A u \in Producers : pc[u] = "e_link" => /\ pc'[u] = "e_link" /\ seen'[u] = seen[u]
                                                 /\ mine'[u] = mine[u]
    BY <1>10 DEF Others, Threads
  <2>2. Links
    BY DEF Shape
  <2>3. ASSUME NEW k \in HeadAt .. Len(log)
        PROVE  \/ next[Node(ChainAt(k))] = ChainAt(k + 1)
               \/ /\ next[Node(ChainAt(k))] = Null
                  /\ \E u \in Producers : /\ pc'[u] = "e_link" /\ seen'[u] = ChainAt(k)
                                          /\ mine'[u] = ChainAt(k + 1)
    <3>1. k \in HeadAt .. Len(log) + 1 /\ k <= Len(log)
      OBVIOUS
    <3>. QED  BY ONLY <3>1, <2>1, <2>2 DEF Links
  <2>4. next[Node(ChainAt(Len(log) + 1))] = Null
    <3>1. Len(log) + 1 \in HeadAt .. Len(log) + 1 /\ ~(Len(log) + 1 <= Len(log))
      OBVIOUS
    <3>. QED  BY ONLY <3>1, <2>2 DEF Links
  <2>5. ASSUME NEW k \in HeadAt .. Len(log) + 2
        PROVE  \/ k <= Len(log) + 1 /\ next[Node(ChainAt(k)')] = ChainAt(k + 1)'
               \/ /\ next[Node(ChainAt(k)')] = Null
                  /\ k <= Len(log) + 1 => \E u \in Producers :
                          pc'[u] = "e_link" /\ seen'[u] = ChainAt(k)' /\ mine'[u] = ChainAt(k + 1)'
    <3>1. CASE k \in HeadAt .. Len(log)
      <4>1. k \in 1 .. Len(log) + 1 /\ k + 1 \in 1 .. Len(log) + 1 /\ k <= Len(log) + 1
        BY <3>1
      <4>2. ChainAt(k)' = ChainAt(k) /\ ChainAt(k + 1)' = ChainAt(k + 1)
        BY <4>1, <1>8
      <4>. QED  BY <3>1, <4>1, <4>2, <2>3
    <3>2. CASE k = Len(log) + 1
      <4>1. ChainAt(k)' = ChainAt(k) /\ ChainAt(k + 1)' = mine[t]
        BY <3>2, <1>8
      <4>. QED  BY <3>2, <4>1, <2>4, <1>10
    <3>3. CASE k = Len(log) + 2
      <4>1. ChainAt(k)' = mine[t] /\ ~(k <= Len(log) + 1)
        BY <3>3, <1>8
      <4>. QED  BY <4>1, <1>4, <1>6
    <3>4. k \in HeadAt .. Len(log) \/ k = Len(log) + 1 \/ k = Len(log) + 2
      BY ONLY <1>0, k \in HeadAt .. Len(log) + 2
    <3>. QED  BY <3>1, <3>2, <3>3, <3>4
  <2>. QED  BY <1>7, <1>8, <2>5 DEF Links
<1>15. ItemsKept' /\ FreeListed'
  <2>1. ASSUME NEW k \in HeadAt .. Len(log) + 2, k > 1
        PROVE  item[Node(ChainAt(k)')] = log'[k - 1].item
    <3>1. CASE k = Len(log) + 2
      BY <3>1, <1>4, <1>6, <1>7, <1>8
    <3>2. CASE k # Len(log) + 2
      <4>1. k \in HeadAt .. Len(log) + 1 /\ k - 1 \in 1 .. Len(log) /\ k \in 1 .. Len(log) + 1
        BY ONLY <1>0, <3>2, k > 1, k \in HeadAt .. Len(log) + 2
      <4>. QED  BY <4>1, <2>1, <1>7, <1>8 DEF Shape, ItemsKept
    <3>. QED  BY <3>1, <3>2
  <2>2. ItemsKept'
    BY <1>7, <1>8, <2>1 DEF ItemsKept
  <2>3. FreeListed'
    BY <1>8 DEF Shape, FreeListed, FreeAt
  <2>. QED  BY <2>2, <2>3
<1>16. OneLinker'
  <2>1. ASSUME NEW u \in Threads, pc[u] = "e_link" PROVE mine[u] # mine[t]
    <3>1. PICK k \in HeadAt .. Len(log) : mine[u] = ChainAt(k + 1)
      BY <2>1 DEF Placed, EnqueueKnows
    <3>2. k + 1 \in 1 .. Len(log) + 1
      OBVIOUS
    <3>. QED  BY <3>1, <3>2, <1>11
  <2>. QED  BY <2>1, <1>10 DEF Shape, OneLinker, Others
<1>17. ASSUME NEW u \in Threads PROVE DequeueKnows(u)'
  <2>1. CASE u = t
    BY <2>1, <1>10 DEF DequeueKnows
  <2>2. CASE u # t
    <3>1. /\ pc'[u] = pc[u] /\ mine'[u] = mine[u] /\ nxt'[u] = nxt[u] /\ seen'[u] = seen[u]
          /\ DequeueKnows(u)
      BY <2>2, <1>10 DEF Others, Shape
    <3>2. \A k \in 1 .. HeadAt : ChainAt(k)' = ChainAt(k)
      BY ONLY <1>0, <1>8
    <3>3. HeadAt <= Len(log) => ChainAt(HeadAt + 1)' = ChainAt(HeadAt + 1)
      <4>. SUFFICES ASSUME HeadAt <= Len(log) PROVE ChainAt(HeadAt + 1)' = ChainAt(HeadAt + 1)
        OBVIOUS
      <4>1. PICK k : k = HeadAt + 1
        OBVIOUS
      <4>2. k \in 1 .. Len(log) + 1 /\ HeadAt' + 1 = k
        BY <4>1, <1>0, <1>8
      <4>. QED  BY <4>1, <4>2, <1>8
    <3>4. (\A j \in 1 .. Len(log) : log'[j] = log[j] /\ j \in 1 .. Len(log'))
          /\ Len(log) <= Len(log') /\ Len(log') \in Nat
      BY <1>0, <1>7
    <3>. QED  BY ONLY <1>0, <3>1, <3>2, <3>3, <3>4, <1>8 DEF DequeueKnows
  <2>. QED  BY <2>1, <2>2
<1>18. Shape'
  BY <1>9, <1>12, <1>13, <1>14, <1>15, <1>16, <1>17 DEF Shape
<1>19. PICK p : p = Len(log) + 2
  OBVIOUS
<1>20. PICK kind2, at2 : kind2 = [kind EXCEPT ![n] = "queue"] /\ at2 = [at EXCEPT ![n] = p]
  OBVIOUS
<1>21. /\ kind2 \in [Nodes -> Kinds] /\ at2 \in [Nodes -> Nat \cup Threads]
       /\ kind2[n] = "queue" /\ at2[n] = Len(log) + 2
       /\ \A m \in Nodes : m # n => kind2[m] = kind[m] /\ at2[m] = at[m]
  BY <1>19, <1>20 DEF Kinds
<1>22. QueuePlaced(kind2, at2, ver)'
  <2>1. ASSUME NEW k \in HeadAt .. Len(log) + 2
        PROVE  /\ kind2[Node(ChainAt(k)')] = "queue" /\ at2[Node(ChainAt(k)')] = k
               /\ ver[Node(ChainAt(k)')] = Version(ChainAt(k)')
    <3>1. CASE k = Len(log) + 2
      BY <3>1, <1>4, <1>5, <1>8, <1>21
    <3>2. CASE k # Len(log) + 2
      <4>0. k \in HeadAt .. Len(log) + 1 /\ k \in 1 .. Len(log) + 1
        BY ONLY <1>0, <3>2, k \in HeadAt .. Len(log) + 2
      <4>1. k \in HeadAt .. Len(log) + 1 /\ k \in 1 .. Len(log) + 1 /\ Node(ChainAt(k)) \in Nodes
        BY <4>0, <1>11
      <4>2. /\ kind[Node(ChainAt(k))] = "queue" /\ at[Node(ChainAt(k))] = k
            /\ ver[Node(ChainAt(k))] = Version(ChainAt(k))
        BY <4>1 DEF Placed, QueuePlaced
      <4>. QED  BY <4>1, <4>2, <1>5, <1>8, <1>21
    <3>. QED  BY <3>1, <3>2
  <2>2. ASSUME NEW m \in Nodes, kind2[m] = "queue"
        PROVE  at2[m] \in HeadAt .. Len(log) + 2 /\ Node(ChainAt(at2[m])') = m
    <3>1. CASE m = n
      BY <3>1, <1>4, <1>8, <1>21
    <3>2. CASE m # n
      <4>1. at2[m] \in HeadAt .. Len(log) + 1 /\ Node(ChainAt(at2[m])) = m
        BY <3>2, <2>2, <1>21 DEF Placed, QueuePlaced
      <4>. QED  BY <4>1, <1>8
    <3>. QED  BY <3>1, <3>2
  <2>. QED  BY ONLY <1>8, <2>1, <2>2 DEF QueuePlaced
<1>23. FreePlaced(kind2, at2, ver)' /\ FreshPlaced(kind2)'
  <2>1. \A k \in 1 .. Len(frees) : Node(frees[k]) \in Nodes /\ Node(frees[k]) # n
    BY <1>5, IdxFacts DEF Placed, FreePlaced
  <2>2. FreePlaced(kind2, at2, ver)'
    BY <1>8, <1>21, <2>1 DEF Placed, FreePlaced
  <2>3. FreshPlaced(kind2)'
    BY <1>5, <1>8, <1>21 DEF Placed, FreshPlaced
  <2>. QED  BY <2>2, <2>3
<1>24. HeldPlaced(kind2, at2, ver)'
  <2>1. ASSUME NEW u \in Threads, pc'[u] \in EnqHolding \cup DeqHolding
        PROVE  /\ mine'[u] \in Idx /\ kind2[Node(mine'[u])] = "held"
               /\ at2[Node(mine'[u])] = u /\ ver[Node(mine'[u])] = Version(mine'[u])
    <3>1. u # t
      BY <2>1, <1>10 DEF EnqHolding, DeqHolding
    <3>2. pc[u] = pc'[u] /\ mine'[u] = mine[u]
      BY <3>1, <1>10 DEF Others
    <3>3. /\ mine[u] \in Idx /\ kind[Node(mine[u])] = "held" /\ at[Node(mine[u])] = u
          /\ ver[Node(mine[u])] = Version(mine[u])
      BY <2>1, <3>2 DEF Placed, HeldPlaced
    <3>4. Node(mine[u]) \in Nodes /\ Node(mine[u]) # n
      BY <3>1, <3>3, <1>5, IdxFacts
    <3>. QED  BY <3>2, <3>3, <3>4, <1>21
  <2>2. ASSUME NEW m \in Nodes, kind2[m] = "held"
        PROVE  /\ at2[m] \in Threads /\ pc'[at2[m]] \in EnqHolding \cup DeqHolding
               /\ Node(mine'[at2[m]]) = m
    <3>1. m # n /\ kind[m] = "held"
      BY <2>2, <1>21
    <3>2. /\ at[m] \in Threads /\ pc[at[m]] \in EnqHolding \cup DeqHolding
          /\ Node(mine[at[m]]) = m /\ at2[m] = at[m]
      BY <3>1, <1>21 DEF Placed, HeldPlaced
    <3>3. at[m] # t
      BY <3>1, <3>2, <1>4
    <3>. QED  BY <3>2, <3>3, <1>10 DEF Others
  <2>. QED  BY <2>1, <2>2 DEF HeldPlaced
<1>25. VersionsGrow(kind2, at2, ver)'
  <2>1. ASSUME NEW m \in Nodes, m # n, kind[m] = "held", pc'[at[m]] \in EnqHolding
        PROVE  pc[at[m]] \in EnqHolding
    BY <2>1, <1>10 DEF Placed, HeldPlaced, Others, EnqHolding
  <2>2. ASSUME NEW k \in 1 .. Len(log) + 2
        PROVE  LET m == Node(ChainAt(k)') IN
               /\ kind2[m] # "fresh" /\ Version(ChainAt(k)') <= ver[m]
               /\ kind2[m] = "held" /\ pc'[at2[m]] \in EnqHolding => Version(ChainAt(k)') < ver[m]
    <3>1. CASE k = Len(log) + 2
      BY <3>1, <1>4, <1>5, <1>8, <1>21
    <3>2. CASE k # Len(log) + 2
      <4>1. k \in 1 .. Len(log) + 1 /\ Node(ChainAt(k)) \in Nodes /\ ChainAt(k)' = ChainAt(k)
        BY <3>2, <1>8, <1>11
      <4>2. /\ kind[Node(ChainAt(k))] # "fresh"
            /\ Version(ChainAt(k)) <= ver[Node(ChainAt(k))]
            /\ kind[Node(ChainAt(k))] = "held" /\ pc[at[Node(ChainAt(k))]] \in EnqHolding
                 => Version(ChainAt(k)) < ver[Node(ChainAt(k))]
        BY <4>1 DEF Placed, VersionsGrow
      <4>. QED  BY <4>1, <4>2, <1>21, <2>1
    <3>. QED  BY <3>1, <3>2
  <2>3. ASSUME NEW k \in 1 .. Len(log) + 2, NEW l \in 1 .. Len(log) + 2, k # l
        PROVE  ChainAt(k)' # ChainAt(l)'
    <3>1. CASE k = Len(log) + 2
      <4>1. l \in 1 .. Len(log) + 1
        BY <3>1, <2>3
      <4>. QED  BY <3>1, <4>1, <1>8, <1>11
    <3>2. CASE l = Len(log) + 2
      <4>1. k \in 1 .. Len(log) + 1
        BY <3>2, <2>3
      <4>. QED  BY <3>2, <4>1, <1>8, <1>11
    <3>3. CASE k # Len(log) + 2 /\ l # Len(log) + 2
      <4>1. k \in 1 .. Len(log) + 1 /\ l \in 1 .. Len(log) + 1
        BY <3>3
      <4>. QED  BY <4>1, <2>3, <1>8 DEF Placed, VersionsGrow
    <3>. QED  BY <3>1, <3>2, <3>3
  <2>4. Len(log') + 1 = Len(log) + 2
    BY <1>7
  <2>. QED  BY ONLY <2>2, <2>3, <2>4 DEF VersionsGrow
<1>26. ASSUME NEW u \in Threads PROVE EnqueueKnows(u, kind2, ver)'
  <2>1. CASE u = t
    <3>1. Len(log) + 1 \in HeadAt .. Len(log') /\ Len(log) + 1 \in 1 .. Len(log) + 1
      BY <1>7
    <3>2. next[Node(ChainAt(Len(log) + 1))] = Null
      <4>1. Len(log) + 1 \in HeadAt .. Len(log) + 1 /\ ~(Len(log) + 1 <= Len(log)) /\ Links
        BY DEF Shape
      <4>. QED  BY ONLY <4>1 DEF Links
    <3>4. PICK k \in Nat : k = L + 1
      BY <1>8
    <3>5. /\ k \in HeadAt' .. Len(log') /\ seen'[t] = ChainAt(k)' /\ mine'[t] = ChainAt(k + 1)'
          /\ next'[Node(ChainAt(k)')] = Null
      <4>1. k + 1 = L + 2
        BY <3>4, <1>8
      <4>2. ChainAt(k + 1)' = mine[t]
        BY <4>1, <1>8
      <4>. QED  BY <3>1, <3>2, <3>4, <4>2, <1>8, <1>10
    <3>. QED  BY <2>1, <3>5, <1>10 DEF EnqueueKnows
  <2>2. CASE u # t
    <3>1. /\ pc'[u] = pc[u] /\ mine'[u] = mine[u] /\ nxt'[u] = nxt[u] /\ seen'[u] = seen[u]
          /\ arg'[u] = arg[u] /\ EnqueueKnows(u, kind, ver)
      BY <2>2, <1>10 DEF Others, Placed
    <3>2. ASSUME pc[u] \in {"e_next", "e_pop"}
          PROVE  /\ kind2[Node(seen[u])] # "fresh"
                 /\ kind2[Node(seen[u])] = "free" <=> kind[Node(seen[u])] = "free"
      BY <3>1, <3>2, <1>5, <1>21, IdxFacts DEF EnqueueKnows
    <3>3. /\ HeadAt \in Nat /\ HeadAt >= 1 /\ Len(log) \in Nat
      OBVIOUS
    <3>. QED  BY ONLY <1>7, <1>8, <3>1, <3>2, <3>3 DEF EnqueueKnows
  <2>. QED  BY <2>1, <2>2
<1>27. Counted(ver)'
  <2>1. t \notin Allocating /\ t \notin Allocating'
    BY <1>10 DEF Allocating
  <2>. QED  BY <1>2, <1>10, <2>1, CountedStays DEF Placed
<1>28. Placed(kind2, at2, ver)'
  BY <1>22, <1>23, <1>24, <1>25, <1>26, <1>27 DEF Placed
<1>. QED  BY <1>18, <1>21, <1>28 DEF IInv

LEMMA DoEnqLink ==
    ASSUME IsFiniteSet(Producers), IInv, NEW t \in Producers, EnqLink(t)
    PROVE  IInv'
<1>. PICK kind \in [Nodes -> Kinds], at \in [Nodes -> Nat \cup Threads],
          ver \in [Nodes -> Versions] : Placed(kind, at, ver)
  BY DEF IInv
<1>. USE DEF Set, Goto, history
<1>1. t \in Threads /\ Shape /\ TypeOK /\ pc[t] = "e_link" /\ 0 \in Items
  BY ConstFacts DEF Threads, IInv, Shape, EnqLink
<1>. USE <1>1, ChainFacts
<1>0. HeadAt \in Nat /\ HeadAt >= 1 /\ HeadAt <= Len(log) + 1 /\ Len(log) \in Nat
  OBVIOUS
<1>2. PICK p \in HeadAt .. Len(log) : /\ seen[t] = ChainAt(p) /\ mine[t] = ChainAt(p + 1)
                                      /\ next[Node(ChainAt(p))] = Null
  BY DEF Placed, EnqueueKnows
<1>3. p \in 1 .. Len(log) + 1 /\ p + 1 \in 1 .. Len(log) + 1 /\ p \in HeadAt .. Len(log) + 1
  BY <1>0
<1>4. PICK n \in Nodes : n = Node(ChainAt(p))
  BY <1>3, IdxFacts
<1>5. /\ next' = [next EXCEPT ![n] = mine[t]] /\ Return(t)
      /\ UNCHANGED <<nextNodeIdx, head, tail, freeListHead, item, calls, log, claims, frees>>
  BY <1>2, <1>4 DEF EnqLink
<1>6. mine[t] \in Idx
  BY <1>2, <1>3
<1>7. TypeOK'
  <2>1. /\ pc' \in [Threads -> {"idle"} \cup EnqPlaces \cup DeqPlaces]
        /\ mine' \in [Threads -> Idx \cup {Null}] /\ seen' \in [Threads -> Idx \cup {Null}]
        /\ nxt' \in [Threads -> Idx \cup {Null}] /\ consumed' \in [Threads -> BOOLEAN]
        /\ arg' \in [Threads -> Items]
    BY <1>5 DEF TypeOK, Return
  <2>2. next' \in [Nodes -> Idx \cup {Null}]
    BY <1>5, <1>6 DEF TypeOK
  <2>. QED  BY <1>5, <2>1, <2>2 DEF TypeOK
<1>8. /\ Others(t) /\ pc'[t] = "idle" /\ next'[n] = mine[t]
      /\ \A m \in Nodes : m # n => next'[m] = next[m]
  BY <1>5 DEF TypeOK, Others, Return
<1>9. /\ HeadAt' = HeadAt /\ (\A k : ChainAt(k)' = ChainAt(k)) /\ log' = log
      /\ UNCHANGED <<nextNodeIdx, head, tail, freeListHead, item, claims, frees>>
  BY <1>5 DEF HeadAt, ChainAt
<1>10. kind[n] = "queue" /\ at[n] = p
  BY <1>3, <1>4 DEF Placed, QueuePlaced
<1>11. \A k \in HeadAt .. Len(log) + 1 :
          k # p => next'[Node(ChainAt(k))] = next[Node(ChainAt(k))]
  <2>1. ASSUME NEW k \in HeadAt .. Len(log) + 1, k # p
        PROVE  Node(ChainAt(k)) \in Nodes /\ Node(ChainAt(k)) # n
    <3>1. k \in 1 .. Len(log) + 1
      BY <1>0
    <3>2. at[Node(ChainAt(k))] = k
      BY DEF Placed, QueuePlaced
    <3>. QED  BY <2>1, <3>1, <3>2, <1>10, IdxFacts
  <2>. QED  BY <2>1, <1>8
<1>12. \A u \in Threads : pc[u] \in EnqHolding \cup DeqHolding =>
                             next'[Node(mine[u])] = next[Node(mine[u])]
  BY <1>8, <1>10, IdxFacts DEF Placed, HeldPlaced
<1>13. Ends' /\ ClaimsInOrder' /\ ItemsKept'
  BY <1>9 DEF Shape, Ends, ClaimsInOrder, ItemsKept
<1>14. FreeListed'
  <2>1. \A k \in 1 .. Len(frees) : Node(frees[k]) \in Nodes /\ Node(frees[k]) # n
    BY <1>10, IdxFacts DEF Placed, FreePlaced
  <2>2. DOMAIN frees = 1 .. Len(frees)
    BY DEF TypeOK
  <2>. QED  BY <1>8, <1>9, <2>1, <2>2 DEF Shape, FreeListed, FreeAt
<1>15. Links'
  <2>1. ASSUME NEW k \in HeadAt .. Len(log) + 1
        PROVE  \/ k <= Len(log) /\ next'[Node(ChainAt(k))] = ChainAt(k + 1)
               \/ /\ next'[Node(ChainAt(k))] = Null
                  /\ k <= Len(log) => \E u \in Producers : /\ pc'[u] = "e_link"
                                                           /\ seen'[u] = ChainAt(k)
                                                           /\ mine'[u] = ChainAt(k + 1)
    <3>1. CASE k = p
      BY <3>1, <1>0, <1>2, <1>4, <1>8
    <3>2. CASE k # p
      <4>1. next'[Node(ChainAt(k))] = next[Node(ChainAt(k))]
        BY <3>2, <1>11
      <4>2. \/ k <= Len(log) /\ next[Node(ChainAt(k))] = ChainAt(k + 1)
            \/ /\ next[Node(ChainAt(k))] = Null
               /\ k <= Len(log) => \E u \in Producers : /\ pc[u] = "e_link"
                                                        /\ seen[u] = ChainAt(k)
                                                        /\ mine[u] = ChainAt(k + 1)
        BY DEF Shape, Links
      <4>3. ASSUME NEW u \in Producers, pc[u] = "e_link", seen[u] = ChainAt(k)
            PROVE  pc'[u] = pc[u] /\ seen'[u] = seen[u] /\ mine'[u] = mine[u]
        <5>1. k \in 1 .. Len(log) + 1
          BY <1>0
        <5>2. ChainAt(k) # ChainAt(p)
          BY <3>2, <5>1, <1>3 DEF Placed, VersionsGrow
        <5>. QED  BY <4>3, <5>2, <1>2, <1>8 DEF Others, Threads
      <4>. QED  BY <4>1, <4>2, <4>3
    <3>. QED  BY <3>1, <3>2
  <2>. QED  BY <1>9, <2>1 DEF Links
<1>16. OneLinker'
  BY <1>8 DEF Shape, OneLinker, Others
<1>17. ASSUME NEW u \in Threads PROVE DequeueKnows(u)'
  <2>1. CASE u = t
    BY <2>1, <1>8 DEF DequeueKnows
  <2>2. CASE u # t
    <3>1. /\ pc'[u] = pc[u] /\ mine'[u] = mine[u] /\ nxt'[u] = nxt[u] /\ seen'[u] = seen[u]
          /\ DequeueKnows(u)
      BY <2>2, <1>8 DEF Others, Shape
    <3>2. ASSUME pc[u] = "d_move", head.idx = mine[u]
          PROVE  next'[Node(mine[u])] = next[Node(mine[u])]
      <4>1. /\ HeadAt <= Len(log) /\ next[Node(mine[u])] = ChainAt(HeadAt + 1)
            /\ mine[u] = ChainAt(HeadAt)
        BY <3>1, <3>2 DEF Shape, Ends, DequeueKnows
      <4>2. HeadAt \in HeadAt .. Len(log) + 1 /\ HeadAt + 1 \in 1 .. Len(log) + 1
        BY <4>1, <1>0
      <4>3. HeadAt # p
        BY <4>1, <4>2, <1>2, IdxFacts
      <4>. QED  BY <4>1, <4>2, <4>3, <1>11
    <3>3. pc[u] \in {"d_item", "d_push"} => pc[u] \in EnqHolding \cup DeqHolding
      BY DEF DeqHolding
    <3>4. pc[u] \in {"d_item", "d_push"} => next'[Node(mine[u])] = next[Node(mine[u])]
      BY <3>3, <1>12
    <3>. QED  BY ONLY <3>1, <3>2, <3>4, <1>9 DEF DequeueKnows
  <2>. QED  BY <2>1, <2>2
<1>18. Shape'
  BY <1>7, <1>13, <1>14, <1>15, <1>16, <1>17 DEF Shape
<1>19. QueuePlaced(kind, at, ver)' /\ FreePlaced(kind, at, ver)' /\ FreshPlaced(kind)'
  BY <1>9 DEF Placed, QueuePlaced, FreePlaced, FreshPlaced
<1>20. pc[t] \notin EnqHolding \cup DeqHolding /\ pc'[t] \notin EnqHolding \cup DeqHolding
  BY <1>8 DEF EnqHolding, DeqHolding
<1>21. HeldPlaced(kind, at, ver)'
  <2>1. ASSUME NEW u \in Threads, pc'[u] \in EnqHolding \cup DeqHolding
        PROVE  pc[u] = pc'[u] /\ mine'[u] = mine[u]
    BY <2>1, <1>8, <1>20 DEF Others
  <2>2. ASSUME NEW u \in Threads, pc[u] \in EnqHolding \cup DeqHolding
        PROVE  pc'[u] = pc[u] /\ mine'[u] = mine[u]
    BY <2>2, <1>8, <1>20 DEF Others
  <2>3. HeldPlaced(kind, at, ver)
    BY DEF Placed
  <2>. QED  BY ONLY <2>1, <2>2, <2>3 DEF HeldPlaced
<1>22. VersionsGrow(kind, at, ver)'
  <2>1. \A m \in Nodes : kind[m] = "held" => (pc'[at[m]] \in EnqHolding <=> pc[at[m]] \in EnqHolding)
    BY <1>8, <1>20 DEF Placed, HeldPlaced, Others
  <2>2. \A k \in 1 .. Len(log) + 1 : Node(ChainAt(k)) \in Nodes
    BY IdxFacts
  <2>. QED  BY <1>9, <2>1, <2>2 DEF Placed, VersionsGrow
<1>23. ASSUME NEW u \in Threads PROVE EnqueueKnows(u, kind, ver)'
  <2>1. CASE u = t
    BY <2>1, <1>8 DEF EnqueueKnows
  <2>2. CASE u # t
    <3>1. /\ pc'[u] = pc[u] /\ mine'[u] = mine[u] /\ nxt'[u] = nxt[u] /\ seen'[u] = seen[u]
          /\ arg'[u] = arg[u] /\ EnqueueKnows(u, kind, ver)
      BY <2>2, <1>8 DEF Others, Placed
    <3>2. ASSUME pc[u] \in {"e_next", "e_pop"}, kind[Node(seen[u])] = "free"
          PROVE  next'[Node(seen[u])] = next[Node(seen[u])]
      BY <3>1, <3>2, <1>8, <1>10, IdxFacts DEF EnqueueKnows
    <3>3. pc[u] \in {"e_item", "e_tail"} => pc[u] \in EnqHolding \cup DeqHolding
      BY DEF EnqHolding
    <3>4. pc[u] \in {"e_item", "e_tail"} => next'[Node(mine[u])] = next[Node(mine[u])]
      BY <3>3, <1>12
    <3>5. ASSUME pc[u] = "e_link"
          PROVE  \E k \in HeadAt .. Len(log) : /\ seen[u] = ChainAt(k) /\ mine[u] = ChainAt(k + 1)
                                               /\ next'[Node(ChainAt(k))] = Null
      <4>1. PICK k \in HeadAt .. Len(log) : /\ seen[u] = ChainAt(k) /\ mine[u] = ChainAt(k + 1)
                                            /\ next[Node(ChainAt(k))] = Null
        BY <3>1, <3>5 DEF EnqueueKnows
      <4>2. k # p
        BY <4>1, <2>2, <3>5, <1>2 DEF Shape, OneLinker
      <4>3. k \in HeadAt .. Len(log) + 1
        BY <1>0
      <4>. QED  BY <4>1, <4>2, <4>3, <1>11
    <3>. QED  BY ONLY <1>9, <3>1, <3>2, <3>4, <3>5 DEF EnqueueKnows
  <2>. QED  BY <2>1, <2>2
<1>24. Counted(ver)'
  <2>1. t \notin Allocating /\ t \notin Allocating'
    BY <1>8 DEF Allocating
  <2>. QED  BY <1>5, <1>8, <2>1, CountedStays DEF Placed
<1>25. Placed(kind, at, ver)'
  BY <1>19, <1>21, <1>22, <1>23, <1>24 DEF Placed
<1>. QED  BY <1>18, <1>25 DEF IInv

-----------------------------------------------------------------------------
(* The theorems *)

LEMMA InitIInv ==
    ASSUME Init
    PROVE  IInv
<1>. USE DEF Init
<1>1. /\ <<1, 0>> \in Idx /\ Node(<<1, 0>>) = 1 /\ Version(<<1, 0>>) = 0
      /\ 1 \in Nodes /\ 0 \in Items /\ 0 \in Versions
  BY IdxFacts, ConstFacts
<1>2. TypeOK
  <2>1. 2 \in Nodes \cup {MaxEnqueues + 2}
    BY QueueAssumption DEF Nodes
  <2>. QED  BY <1>1, <2>1 DEF TypeOK
<1>3. Len(log) = 0 /\ Len(claims) = 0 /\ Len(frees) = 0 /\ HeadAt = 1 /\ ChainAt(1) = <<1, 0>>
  BY DEF HeadAt, ChainAt
<1>4. Ends /\ ClaimsInOrder /\ Links /\ ItemsKept /\ FreeListed
  BY <1>1, <1>3 DEF Ends, ClaimsInOrder, Links, ItemsKept, FreeListed, FreeAt
<1>5. OneLinker /\ \A t \in Threads : DequeueKnows(t)
  BY DEF OneLinker, DequeueKnows
<1>6. Shape
  BY <1>2, <1>4, <1>5 DEF Shape
<1>7. PICK kind, at, ver : /\ kind = [n \in Nodes |-> IF n = 1 THEN "queue" ELSE "fresh"]
                           /\ at = [n \in Nodes |-> 1] /\ ver = [n \in Nodes |-> 0]
  OBVIOUS
<1>8. /\ kind \in [Nodes -> Kinds] /\ at \in [Nodes -> Nat \cup Threads]
      /\ ver \in [Nodes -> Versions]
  BY <1>1, <1>7 DEF Kinds
<1>9. Counted(ver)
  <2>1. Allocating = {}
    BY DEF Allocating, Threads
  <2>2. Cardinality(Allocating) = 0
    BY <2>1, FS_EmptySet
  <2>. QED  BY <2>2, <1>7 DEF Counted
<1>10. QueuePlaced(kind, at, ver) /\ FreePlaced(kind, at, ver)
  BY <1>1, <1>3, <1>7 DEF QueuePlaced, FreePlaced
<1>11. HeldPlaced(kind, at, ver)
  BY <1>7 DEF HeldPlaced, EnqHolding, DeqHolding
<1>12. FreshPlaced(kind)
  BY <1>7, ConstFacts DEF FreshPlaced
<1>13. VersionsGrow(kind, at, ver)
  BY <1>1, <1>3, <1>7 DEF VersionsGrow
<1>14. \A t \in Threads : EnqueueKnows(t, kind, ver)
  BY DEF EnqueueKnows
<1>15. Placed(kind, at, ver)
  BY <1>9, <1>10, <1>11, <1>12, <1>13, <1>14 DEF Placed
<1>. QED  BY <1>6, <1>8, <1>15 DEF IInv

LEMMA StutterIInv ==
    ASSUME IInv, UNCHANGED vars
    PROVE  IInv'
<1>1. /\ UNCHANGED memory /\ UNCHANGED locals /\ UNCHANGED history
  BY DEF vars
<1>2. Shape'
  BY <1>1 DEF IInv, memory, locals, history, Shape, TypeOK, Ends, HeadAt, ChainAt, ClaimsInOrder,
     Links, ItemsKept, FreeListed, FreeAt, OneLinker, DequeueKnows
<1>3. ASSUME NEW kind, NEW at, NEW ver, Placed(kind, at, ver) PROVE Placed(kind, at, ver)'
  BY <1>1, <1>3 DEF memory, locals, history, HeadAt, ChainAt, Placed, Counted, Allocating,
     QueuePlaced, FreePlaced, HeldPlaced, FreshPlaced, VersionsGrow, EnqueueKnows
<1>. QED  BY <1>2, <1>3 DEF IInv

LEMMA NextIInv ==
    ASSUME NoVersionWrap, IsFiniteSet(Producers), IInv, [Next]_vars
    PROVE  IInv'
<1>1. ASSUME NEW t \in Producers, Enqueue(t) \/ EnqStep(t) PROVE IInv'
  <2>1. CASE EnqPop(t)
    BY <2>1, DoEnqPop, DoEnqPopFails
  <2>. QED  BY <1>1, <2>1, DoEnqueue, DoEnqReadList, DoEnqReadNext, DoEnqReset, DoEnqItem,
            DoEnqNew, DoEnqTail, DoEnqLink DEF EnqStep
<1>2. ASSUME NEW t \in Consumers, DeqStep(t) PROVE IInv'
  <2>1. CASE DeqFlag(t)
    BY <2>1, DoDeqFlag, DoDeqLocal
  <2>2. CASE DeqMove(t)
    BY <2>2, DoDeqMove, DoDeqLocal
  <2>3. CASE DeqPush(t)
    BY <2>3, DoDeqPush, DoDeqLocal
  <2>. QED  BY <1>2, <2>1, <2>2, <2>3, DoDeqReadHead, DoDeqReadNext, DoDeqLocal, DoDeqLink
            DEF DeqStep
<1>. QED  BY <1>1, <1>2, StutterIInv DEF Next

\* For any number of threads and of calls of enqueue fewer than there are versions, the
\* places of all nodes and what every thread knows of them stay in agreement.
THEOREM InductiveInvariant ==
    NoVersionWrap /\ IsFiniteSet(Producers) => (Spec => []IInv)
<1>. SUFFICES ASSUME NoVersionWrap, IsFiniteSet(Producers) PROVE Spec => []IInv
  OBVIOUS
<1>1. Init => IInv
  BY InitIInv
<1>2. IInv /\ [Next]_vars => IInv'
  BY NextIInv
<1>. QED  BY <1>1, <1>2, PTL DEF Spec

\* Head and tail are never null, and enqueue and try_dequeue follow no null index: what
\* their threads hold are indices of nodes that exist.
THEOREM TypeCorrect ==
    NoVersionWrap /\ IsFiniteSet(Producers) => (Spec => []TypeOK)
<1>1. IInv => TypeOK
  BY DEF IInv, Shape
<1>. QED  BY <1>1, InductiveInvariant, PTL

\* try_dequeue hands over every item once, in the order in which enqueue moved the tail,
\* however many threads set the flag of the head or move it at the same time.
THEOREM ConsumedInOrder ==
    NoVersionWrap /\ IsFiniteSet(Producers) => (Spec => []ClaimsInOrder)
<1>1. IInv => ClaimsInOrder
  BY DEF IInv, Shape
<1>. QED  BY <1>1, InductiveInvariant, PTL

\* The queue is the chain from the head on.
LEMMA QueuedFromHead ==
    ASSUME IInv
    PROVE  /\ DOMAIN Chain = 1 .. Len(log) + 1 /\ Queued = HeadAt .. Len(log) + 1
           /\ \A k \in 1 .. Len(log) + 1 : Chain[k] = ChainAt(k)
<1>. PICK kind \in [Nodes -> Kinds], at \in [Nodes -> Nat \cup Threads],
          ver \in [Nodes -> Versions] : Placed(kind, at, ver)
  BY DEF IInv
<1>1. DOMAIN Chain = 1 .. Len(log) + 1 /\ \A k \in 1 .. Len(log) + 1 : Chain[k] = ChainAt(k)
  BY DEF Chain
<1>2. /\ HeadAt \in Nat /\ HeadAt >= 1 /\ HeadAt <= Len(log) + 1 /\ Len(log) \in Nat
      /\ ChainAt(HeadAt) = head.idx
  BY ChainFacts DEF IInv, Shape, Ends
<1>3. ASSUME NEW h \in 1 .. Len(log) + 1, Chain[h] = head.idx PROVE h = HeadAt
  <2>1. HeadAt \in 1 .. Len(log) + 1 /\ ChainAt(h) = ChainAt(HeadAt)
    BY <1>1, <1>2, <1>3
  <2>. QED  BY <2>1 DEF Placed, VersionsGrow
<1>4. HeadAt \in 1 .. Len(log) + 1 /\ Chain[HeadAt] = head.idx
  BY <1>1, <1>2
<1>5. \A k \in 1 .. Len(log) + 1 : k \in Queued <=> HeadAt <= k
  BY <1>1, <1>3, <1>4 DEF Queued
<1>6. \A k \in Queued : k \in 1 .. Len(log) + 1
  BY <1>1 DEF Queued
<1>7. \A k : k \in HeadAt .. Len(log) + 1 <=> k \in 1 .. Len(log) + 1 /\ HeadAt <= k
  BY <1>2
<1>8. Queued = HeadAt .. Len(log) + 1
  BY ONLY <1>5, <1>6, <1>7
<1>. QED  BY <1>1, <1>8

\* A node of the queue leads to the node enqueued after it, or to nothing while the
\* enqueue that has moved the tail is still to link it: no node behind the head is cut
\* off, and no next that is set is written again.
THEOREM QueueLinked ==
    NoVersionWrap /\ IsFiniteSet(Producers) => (Spec => []Linked)
<1>1. ASSUME IInv PROVE Linked
  <2>1. Links /\ Len(log) \in Nat /\ HeadAt \in Nat /\ HeadAt >= 1
    BY <1>1, ChainFacts DEF IInv, Shape
  <2>2. Len(Chain) = Len(log) + 1
    <3>1. Chain \in Seq({Chain[k] : k \in 1 .. Len(log) + 1})
      BY <2>1 DEF Chain
    <3>. QED  BY <1>1, <2>1, <3>1, QueuedFromHead
  <2>3. ASSUME NEW k \in Queued
        PROVE  \/ k < Len(Chain) /\ next[Node(Chain[k])] = Chain[k + 1]
               \/ /\ next[Node(Chain[k])] = Null
                  /\ k < Len(Chain) => \E t \in Producers : /\ pc[t] = "e_link" /\ seen[t] = Chain[k]
                                                            /\ mine[t] = Chain[k + 1]
    <3>1. /\ k \in HeadAt .. Len(log) + 1 /\ k \in 1 .. Len(log) + 1
          /\ (k < Len(Chain) <=> k <= Len(log))
      BY <1>1, <2>1, <2>2, QueuedFromHead
    <3>2. Chain[k] = ChainAt(k) /\ (k <= Len(log) => Chain[k + 1] = ChainAt(k + 1))
      <4>1. k <= Len(log) => k + 1 \in 1 .. Len(log) + 1
        BY <3>1, <2>1
      <4>. QED  BY <1>1, <3>1, <4>1, QueuedFromHead
    <3>. QED  BY <2>1, <3>1, <3>2 DEF Links
  <2>. QED  BY <2>3 DEF Linked
<1>2. IInv => Linked
  BY <1>1
<1>. QED  BY <1>2, InductiveInvariant, PTL

\* No node is lost and none is in two places: each is once in the queue, once in the free
\* list, or with one thread, although threads go on with indices of nodes that have been
\* removed and used again since (the ABA problem the versions are there for).
THEOREM NoNodeLostOrShared ==
    NoVersionWrap /\ IsFiniteSet(Producers) => (Spec => []OnePlace)
<1>1. ASSUME IInv, NEW n \in 1 .. nextNodeIdx - 1 PROVE \E p \in Places(n) : Places(n) = {p}
  <2>. PICK kind \in [Nodes -> Kinds], at \in [Nodes -> Nat \cup Threads],
            ver \in [Nodes -> Versions] : Placed(kind, at, ver)
    BY <1>1 DEF IInv
  <2>1. n \in Nodes /\ kind[n] # "fresh"
    <3>1. nextNodeIdx \in Nodes \cup {MaxEnqueues + 2} /\ MaxEnqueues \in Nat
      BY <1>1, ConstFacts DEF IInv, Shape, TypeOK
    <3>2. n \in Nodes /\ n < nextNodeIdx /\ nextNodeIdx \in Nat
      BY <3>1 DEF Nodes
    <3>. QED  BY <3>2 DEF Placed, FreshPlaced
  <2>2. \A k \in Queued : Node(Chain[k]) = n => kind[n] = "queue" /\ at[n] = k
    <3>1. \A k \in Queued : k \in HeadAt .. Len(log) + 1 /\ Chain[k] = ChainAt(k)
      BY <1>1, QueuedFromHead DEF Queued
    <3>. QED  BY <3>1 DEF Placed, QueuePlaced
  <2>3. DOMAIN frees = 1 .. Len(frees)
    BY <1>1 DEF IInv, Shape, TypeOK
  <2>4. \A k \in DOMAIN frees : Node(frees[k]) = n => kind[n] = "free" /\ at[n] = k
    BY <2>3 DEF Placed, FreePlaced
  <2>5. \A t \in Threads : n \in Holds(t) => kind[n] = "held" /\ at[n] = t
    BY DEF Placed, HeldPlaced, Holds
  <2>6. ASSUME NEW q \in Places(n)
        PROVE  \/ kind[n] = "queue" /\ q = <<"queue", at[n]>>
               \/ kind[n] = "free" /\ q = <<"free", at[n]>>
               \/ kind[n] = "held" /\ q = <<"thread", at[n]>>
    BY <2>2, <2>4, <2>5 DEF Places
  <2>7. CASE kind[n] = "queue"
    <3>1. at[n] \in HeadAt .. Len(log) + 1 /\ Node(ChainAt(at[n])) = n
      BY <2>1, <2>7 DEF Placed, QueuePlaced
    <3>2. at[n] \in Queued /\ at[n] \in DOMAIN Chain
      BY <1>1, <3>1, QueuedFromHead DEF Queued
    <3>3. Node(Chain[at[n]]) = n
      BY <1>1, <3>1, <3>2, QueuedFromHead
    <3>4. <<"queue", at[n]>> \in Places(n)
      BY <3>2, <3>3 DEF Places
    <3>. QED  BY <2>6, <2>7, <3>4
  <2>8. CASE kind[n] = "free"
    <3>1. at[n] \in DOMAIN frees /\ Node(frees[at[n]]) = n
      BY <2>1, <2>3, <2>8 DEF Placed, FreePlaced
    <3>2. <<"free", at[n]>> \in Places(n)
      BY <3>1 DEF Places
    <3>. QED  BY <2>6, <2>8, <3>2
  <2>9. CASE kind[n] = "held"
    <3>1. at[n] \in Threads /\ n \in Holds(at[n])
      BY <2>1, <2>9 DEF Placed, HeldPlaced, Holds
    <3>2. <<"thread", at[n]>> \in Places(n)
      BY <3>1 DEF Places
    <3>. QED  BY <2>6, <2>9, <3>2
  <2>. QED  BY <2>1, <2>7, <2>8, <2>9 DEF Kinds
<1>2. IInv => OnePlace
  BY <1>1 DEF OnePlace, IInv, Shape
<1>. QED  BY <1>2, InductiveInvariant, PTL

\* A thread of try_dequeue that has moved the head reads the item the node was enqueued
\* with: until it gives the node to the free list nobody uses it again.
THEOREM MovedItemIntact ==
    NoVersionWrap /\ IsFiniteSet(Producers) => (Spec => []MovedIntact)
<1>1. ASSUME IInv, NEW t \in Consumers, pc[t] = "d_item" PROVE item[Node(mine[t])] = Enqueued(t)
  <2>. PICK kind \in [Nodes -> Kinds], at \in [Nodes -> Nat \cup Threads],
            ver \in [Nodes -> Versions] : Placed(kind, at, ver)
    BY <1>1 DEF IInv
  <2>1. PICK j \in 1 .. Len(log) : log[j].idx = mine[t] /\ log[j].item = item[Node(mine[t])]
    BY <1>1 DEF IInv, Shape, DequeueKnows, Threads
  <2>2. DOMAIN log = 1 .. Len(log) /\ Len(log) \in Nat
    BY <1>1 DEF IInv, Shape, TypeOK
  <2>3. ASSUME NEW k \in DOMAIN log, log[k].idx = mine[t] PROVE k = j
    <3>1. ChainAt(k + 1) = ChainAt(j + 1)
      BY <1>1, <2>1, <2>2, <2>3, ChainFacts DEF IInv
    <3>2. k + 1 \in 1 .. Len(log) + 1 /\ j + 1 \in 1 .. Len(log) + 1
      BY <2>2
    <3>3. k + 1 = j + 1
      BY <3>1, <3>2 DEF Placed, VersionsGrow
    <3>. QED  BY <2>2, <3>3
  <2>4. (CHOOSE k \in DOMAIN log : log[k].idx = mine[t]) = j
    BY <2>1, <2>2, <2>3
  <2>. QED  BY <2>1, <2>4 DEF Enqueued
<1>2. IInv => MovedIntact
  BY <1>1 DEF MovedIntact
<1>. QED  BY <1>2, InductiveInvariant, PTL
=============================================================================
