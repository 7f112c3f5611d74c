------------------------ MODULE SimpleLockFreeQueue ------------------------
(***************************************************************************)
(* SimpleLockFreeQueue.h: an unbounded queue of linked nodes with a free   *)
(* list.  Nodes are named by an index that carries a version, increased    *)
(* each time the node is taken from the free list, and a bit of head says  *)
(* whether the item of the node at the head is consumed already.           *)
(*                                                                         *)
(* An action is one access to shared memory with the local computation     *)
(* after it.  Memory is sequentially consistent, as the atomics are on the *)
(* x86 this is built for.                                                  *)
(***************************************************************************)
EXTENDS Naturals, Sequences, FiniteSets

CONSTANTS Producers, Consumers,  \* threads that call enqueue, try_dequeue
          VersionMod,            \* 2^24 in the code
          MaxEnqueues            \* bound on the calls of enqueue

ASSUME QueueAssumption == /\ VersionMod \in Nat \ {0} /\ MaxEnqueues \in Nat
                          /\ Producers \cap Consumers = {}

VARIABLES nextNodeIdx,           \* the first node never used
          head,                  \* [idx, consumed]
          tail, freeListHead,    \* indices
          next, item,            \* the members of the nodes
          \* the threads: place, nodeIdx or head_, a list head read, a next read,
          \* the consumed flag of rawHead_, the item to enqueue
          pc, mine, seen, nxt, consumed, arg,
          \* history: how often enqueue was called; indices and items in the order
          \* the tail was moved to them; indices in the order they were consumed; the
          \* free list, from its end to its head
          calls, log, claims, frees

memory  == <<nextNodeIdx, head, tail, freeListHead, next, item>>
locals  == <<pc, mine, seen, nxt, consumed, arg>>
history == <<calls, log, claims, frees>>
vars    == <<memory, locals, history>>

Threads  == Producers \cup Consumers
Nodes    == 1 .. MaxEnqueues + 1
Items    == 0 .. MaxEnqueues     \* 0: raw memory
Versions == 0 .. VersionMod - 1
Null     == <<0, 0>>
Idx      == Nodes \X Versions
Node(i)  == i[1]                 \* get_node_at
Version(i) == i[2]

\* The constructor: one blank node, consumed.
Init == /\ nextNodeIdx = 2
        /\ head = [idx |-> <<1, 0>>, consumed |-> TRUE]
        /\ tail = <<1, 0>>
        /\ freeListHead = Null
        /\ next = [n \in Nodes |-> Null]
        /\ item = [n \in Nodes |-> 0]
        /\ pc = [t \in Threads |-> "idle"]
        /\ mine = [t \in Threads |-> Null]
        /\ seen = [t \in Threads |-> Null]
        /\ nxt = [t \in Threads |-> Null]
        /\ consumed = [t \in Threads |-> FALSE]
        /\ arg = [t \in Threads |-> 0]
        /\ calls = 0 /\ log = <<>> /\ claims = <<>> /\ frees = <<>>

Goto(t, l) == pc' = [pc EXCEPT ![t] = l]
Set(f, t, v) == [f EXCEPT ![t] = v]

\* The call returns: its locals are gone.
Return(t) == /\ Goto(t, "idle")
             /\ mine' = Set(mine, t, Null) /\ seen' = Set(seen, t, Null)
             /\ nxt' = Set(nxt, t, Null) /\ consumed' = Set(consumed, t, FALSE)
             /\ arg' = Set(arg, t, 0)
-----------------------------------------------------------------------------
(* enqueue *)

\* The call; items are numbered, so that they can be told apart.
Enqueue(t) == /\ pc[t] = "idle" /\ calls < MaxEnqueues
              /\ calls' = calls + 1 /\ arg' = Set(arg, t, calls + 1)
              /\ Goto(t, "e_list")
              /\ UNCHANGED <<memory, mine, seen, nxt, consumed, log, claims, frees>>

\* Where allocate_node_for goes on when the free list's head is i.
ListRead(t, i) == Goto(t, IF i = Null THEN "e_new" ELSE "e_next")

\* try_get_node_from_free_list
EnqReadList(t) == /\ pc[t] = "e_list"
                  /\ seen' = Set(seen, t, freeListHead)
                  /\ ListRead(t, freeListHead)
                  /\ UNCHANGED <<memory, mine, nxt, consumed, arg, history>>

EnqReadNext(t) == /\ pc[t] = "e_next"
                  /\ nxt' = Set(nxt, t, next[Node(seen[t])])
                  /\ Goto(t, "e_pop")
                  /\ UNCHANGED <<memory, mine, seen, consumed, arg, history>>

Reused_SameVersion(i) == i                     \* mutant: versions never change

\* The index of a node that is used again.
Reused(i) == <<i[1], (i[2] + 1) % VersionMod>>

EnqPop(t) ==
    /\ pc[t] = "e_pop"
    /\ \/ /\ freeListHead = seen[t]
          /\ freeListHead' = nxt[t]
          /\ frees' = SubSeq(frees, 1, Len(frees) - 1)
          /\ mine' = Set(mine, t, Reused(seen[t]))
          /\ Goto(t, "e_reset")
          /\ UNCHANGED seen
       \/ /\ freeListHead # seen[t]
          /\ seen' = Set(seen, t, freeListHead)
          /\ ListRead(t, freeListHead)
          /\ UNCHANGED <<freeListHead, mine, frees>>
    /\ UNCHANGED <<nextNodeIdx, head, tail, next, item, nxt, consumed, arg, calls, log,
                   claims>>

EnqReset_Kept(t) ==                            \* mutant: next keeps its old value
    /\ pc[t] = "e_reset" /\ Goto(t, "e_item")
    /\ UNCHANGED <<memory, mine, seen, nxt, consumed, arg, history>>

EnqReset(t) == /\ pc[t] = "e_reset"
               /\ next' = Set(next, Node(mine[t]), Null)
               /\ Goto(t, "e_item")
               /\ UNCHANGED <<nextNodeIdx, head, tail, freeListHead, item, mine, seen,
                              nxt, consumed, arg, history>>

EnqItem_Skipped(t) ==                          \* mutant: no item is stored in a used node
    /\ pc[t] = "e_item" /\ Goto(t, "e_tail")
    /\ UNCHANGED <<memory, mine, seen, nxt, consumed, arg, history>>

EnqItem(t) == /\ pc[t] = "e_item"
              /\ item' = Set(item, Node(mine[t]), arg[t])
              /\ Goto(t, "e_tail")
              /\ UNCHANGED <<nextNodeIdx, head, tail, freeListHead, next, mine, seen,
                             nxt, consumed, arg, history>>

\* new_node_address and Node(item): nobody else knows the node yet.
EnqNew(t) == /\ pc[t] = "e_new"
             /\ nextNodeIdx' = nextNodeIdx + 1
             /\ mine' = Set(mine, t, <<nextNodeIdx, 0>>)
             /\ next' = Set(next, nextNodeIdx, Null)
             /\ item' = Set(item, nextNodeIdx, arg[t])
             /\ Goto(t, "e_tail")
             /\ UNCHANGED <<head, tail, freeListHead, seen, nxt, consumed, arg, history>>

\* The loop around the CAS of tail: of its passes only the last, which succeeds on
\* the value just read, has an effect.
EnqTail(t) == /\ pc[t] = "e_tail"
              /\ seen' = Set(seen, t, tail)
              /\ tail' = mine[t]
              /\ log' = Append(log, [idx |-> mine[t], item |-> arg[t]])
              /\ Goto(t, "e_link")
              /\ UNCHANGED <<nextNodeIdx, head, freeListHead, next, item, mine, nxt,
                             consumed, arg, calls, claims, frees>>

EnqLink(t) == /\ pc[t] = "e_link"
              /\ next' = Set(next, Node(seen[t]), mine[t])
              /\ Return(t)
              /\ UNCHANGED <<nextNodeIdx, head, tail, freeListHead, item, history>>
-----------------------------------------------------------------------------
(* try_dequeue *)

\* The call, or the next pass of its loop: rawHead_ is read.
DeqReadHead(t) == /\ pc[t] \in {"idle", "d_head"}
                  /\ mine' = Set(mine, t, head.idx)
                  /\ consumed' = Set(consumed, t, head.consumed)
                  /\ Goto(t, "d_next")
                  /\ UNCHANGED <<memory, seen, nxt, arg, history>>

DeqReadNext_FlagFirst(t) ==                    \* mutant: a consumed head is an empty queue
    LET n == next[Node(mine[t])] IN
    /\ pc[t] = "d_next"
    /\ \/ consumed[t] /\ Return(t)
       \/ /\ ~consumed[t]
          /\ nxt' = Set(nxt, t, n) /\ Goto(t, IF n = Null THEN "d_flag" ELSE "d_move")
          /\ UNCHANGED <<mine, seen, consumed, arg>>
    /\ UNCHANGED <<memory, history>>

DeqReadNext_Unlooked(t) ==                     \* mutant: the head is moved to any next
    /\ pc[t] = "d_next"
    /\ nxt' = Set(nxt, t, next[Node(mine[t])]) /\ Goto(t, "d_move")
    /\ UNCHANGED <<mine, seen, consumed, arg, memory, history>>

\* Empty, an item in the last node, or a node to remove.
DeqReadNext(t) ==
    LET n == next[Node(mine[t])] IN
    /\ pc[t] = "d_next"
    /\ \/ n = Null /\ consumed[t] /\ Return(t)
       \/ /\ n = Null => ~consumed[t]
          /\ nxt' = Set(nxt, t, n) /\ Goto(t, IF n = Null THEN "d_flag" ELSE "d_move")
          /\ UNCHANGED <<mine, seen, consumed, arg>>
    /\ UNCHANGED <<memory, history>>

\* Consume the item of the last node, which stays.
DeqFlag(t) ==
    /\ pc[t] = "d_flag"
    /\ \/ /\ head = [idx |-> mine[t], consumed |-> FALSE]
          /\ head' = [idx |-> mine[t], consumed |-> TRUE]
          /\ claims' = Append(claims, mine[t])
          /\ Goto(t, "d_take")
       \/ /\ head # [idx |-> mine[t], consumed |-> FALSE]
          /\ Goto(t, "d_head")
          /\ UNCHANGED <<head, claims>>
    /\ UNCHANGED <<nextNodeIdx, tail, freeListHead, next, item, mine, seen, nxt,
                   consumed, arg, calls, log, frees>>

\* The item is read after that, and the call returns it.
DeqTake(t) == /\ pc[t] = "d_take" /\ Return(t)
              /\ UNCHANGED <<memory, history>>

DeqMove_AnyFlag(t) ==                          \* mutant: the CAS ignores the consumed flag
    /\ pc[t] = "d_move"
    /\ \/ /\ head.idx = mine[t]
          /\ head' = [idx |-> nxt[t], consumed |-> FALSE]
          /\ claims' = IF consumed[t] THEN claims ELSE Append(claims, mine[t])
          /\ Goto(t, IF consumed[t] THEN "d_list" ELSE "d_item")
       \/ /\ head.idx # mine[t]
          /\ Goto(t, "d_head")
          /\ UNCHANGED <<head, claims>>
    /\ UNCHANGED <<nextNodeIdx, tail, freeListHead, next, item, mine, seen, nxt,
                   consumed, arg, calls, log, frees>>

\* Move the head on, and consume the item if nobody has.
DeqMove(t) ==
    /\ pc[t] = "d_move"
    /\ \/ /\ head = [idx |-> mine[t], consumed |-> consumed[t]]
          /\ head' = [idx |-> nxt[t], consumed |-> FALSE]
          /\ claims' = IF consumed[t] THEN claims ELSE Append(claims, mine[t])
          /\ Goto(t, IF consumed[t] THEN "d_list" ELSE "d_item")
       \/ /\ head # [idx |-> mine[t], consumed |-> consumed[t]]
          /\ Goto(t, "d_head")
          /\ UNCHANGED <<head, claims>>
    /\ UNCHANGED <<nextNodeIdx, tail, freeListHead, next, item, mine, seen, nxt,
                   consumed, arg, calls, log, frees>>

DeqItem(t) == /\ pc[t] = "d_item" /\ Goto(t, "d_list")
              /\ UNCHANGED <<memory, mine, seen, nxt, consumed, arg, history>>

\* add_node_to_free_list
DeqReadList(t) == /\ pc[t] = "d_list"
                  /\ seen' = Set(seen, t, freeListHead)
                  /\ Goto(t, "d_link")
                  /\ UNCHANGED <<memory, mine, nxt, consumed, arg, history>>

DeqLink(t) == /\ pc[t] = "d_link"
              /\ next' = Set(next, Node(mine[t]), seen[t])
              /\ Goto(t, "d_push")
              /\ UNCHANGED <<nextNodeIdx, head, tail, freeListHead, item, mine, seen,
                             nxt, consumed, arg, history>>

\* After it the call returns, or tries again if there was no item in the node.
DeqPush(t) ==
    /\ pc[t] = "d_push"
    /\ \/ /\ freeListHead = seen[t]
          /\ freeListHead' = mine[t]
          /\ frees' = Append(frees, mine[t])
          /\ \/ ~consumed[t] /\ Return(t)
             \/ consumed[t] /\ Goto(t, "d_head") /\ UNCHANGED <<mine, seen, nxt, consumed, arg>>
       \/ /\ freeListHead # seen[t]
          /\ seen' = Set(seen, t, freeListHead) /\ Goto(t, "d_link")
          /\ UNCHANGED <<freeListHead, mine, nxt, consumed, arg, frees>>
    /\ UNCHANGED <<nextNodeIdx, head, tail, next, item, calls, log, claims>>
-----------------------------------------------------------------------------
EnqStep(t) == \/ EnqReadList(t) \/ EnqReadNext(t) \/ EnqPop(t) \/ EnqReset(t) \/ EnqItem(t)
              \/ EnqNew(t) \/ EnqTail(t) \/ EnqLink(t)

DeqStep(t) == \/ DeqReadHead(t) \/ DeqReadNext(t) \/ DeqFlag(t) \/ DeqTake(t) \/ DeqMove(t)
              \/ DeqItem(t) \/ DeqReadList(t) \/ DeqLink(t) \/ DeqPush(t)

Next == \/ \E t \in Producers : Enqueue(t) \/ EnqStep(t)
        \/ \E t \in Consumers : DeqStep(t)

\* The kernel keeps scheduling every thread, and consumers poll: nobody need enqueue.
Fairness == /\ \A t \in Producers : WF_vars(EnqStep(t))
            /\ \A t \in Consumers : WF_vars(DeqStep(t))

Spec == Init /\ [][Next]_vars /\ Fairness
-----------------------------------------------------------------------------
(* Properties *)

EnqPlaces == {"e_list", "e_next", "e_pop", "e_reset", "e_item", "e_new", "e_tail", "e_link"}
DeqPlaces == {"d_head", "d_next", "d_flag", "d_take", "d_move", "d_item", "d_list", "d_link",
              "d_push"}

\* "Head and tail are never null"; what threads hold are indices, and nodes are
\* taken from the memory that was allocated.
TypeOK ==
    /\ nextNodeIdx \in Nodes \cup {MaxEnqueues + 2}
    /\ head \in [idx : Idx, consumed : BOOLEAN] /\ tail \in Idx
    /\ freeListHead \in Idx \cup {Null}
    /\ next \in [Nodes -> Idx \cup {Null}] /\ item \in [Nodes -> Items]
    /\ pc \in [Threads -> {"idle"} \cup EnqPlaces \cup DeqPlaces]
    /\ mine \in [Threads -> Idx \cup {Null}] /\ seen \in [Threads -> Idx \cup {Null}]
    /\ nxt \in [Threads -> Idx \cup {Null}]
    /\ consumed \in [Threads -> BOOLEAN] /\ arg \in [Threads -> Items]
    /\ calls \in Items /\ log \in Seq([idx : Idx, item : Items])
    /\ claims \in Seq(Idx) /\ frees \in Seq(Idx)

\* The chain as it was built: the blank node, then the nodes in the order of the tail.
ChainAt(k) == IF k = 1 THEN <<1, 0>> ELSE log[k - 1].idx
Chain == [k \in 1 .. Len(log) + 1 |-> ChainAt(k)]

\* The part of it that is in the queue: from the head on.
Queued == {k \in DOMAIN Chain :
             \E h \in DOMAIN Chain : Chain[h] = head.idx /\ h <= k}

\* Every item is consumed once, in the order in which the tail was moved: whoever wins
\* the CAS of try_dequeue, and whether it sets the flag or moves the head.
ClaimsInOrder ==
    /\ Len(claims) <= Len(log)
    /\ \A k \in DOMAIN claims : claims[k] = log[k].idx

\* "once it's not null nobody writes to it": a node of the queue leads to the one
\* enqueued after it, or to nothing while that enqueue is still on its way.
Linked ==
    \A k \in Queued :
        \/ k < Len(Chain) /\ next[Node(Chain[k])] = Chain[k + 1]
        \/ /\ next[Node(Chain[k])] = Null
           /\ k < Len(Chain) => \E t \in Producers : /\ pc[t] = "e_link" /\ seen[t] = Chain[k]
                                                     /\ mine[t] = Chain[k + 1]

EnqHolding == {"e_reset", "e_item", "e_tail"}
DeqHolding == {"d_item", "d_list", "d_link", "d_push"}

\* The node a thread has for itself: before it is enqueued or after it was removed.
Holds(t) == IF pc[t] \in EnqHolding \cup DeqHolding THEN {Node(mine[t])} ELSE {}

\* Where the free list leads from its k-th node, counted from the end.
FreeAt(k) == IF k = 0 THEN Null ELSE frees[k]

FreeListed == /\ freeListHead = FreeAt(Len(frees))
              /\ \A k \in DOMAIN frees : next[Node(frees[k])] = FreeAt(k - 1)

\* Every place where node n is.
Places(n) == ({"queue"} \X {k \in Queued : Node(Chain[k]) = n})
             \cup ({"free"} \X {k \in DOMAIN frees : Node(frees[k]) = n})
             \cup ({"thread"} \X {t \in Threads : n \in Holds(t)})

\* No node is lost and none is in two places: every node in use is once in the queue,
\* or once in the free list, which ends, or in the hands of one thread.
OnePlace == /\ FreeListed
            /\ \A n \in 1 .. nextNodeIdx - 1 : \E p \in Places(n) : Places(n) = {p}

\* What the node that thread t consumed was enqueued with.
Enqueued(t) == LET k == CHOOSE j \in DOMAIN log : log[j].idx = mine[t] IN log[k].item

\* A thread that moved the head reads the item that was enqueued: nobody has taken
\* the node from it.
MovedIntact == \A t \in Consumers : pc[t] = "d_item" => item[Node(mine[t])] = Enqueued(t)

\* The same of a thread that set the flag: "we own the right to dequeue this item".
FlaggedIntact == \A t \in Consumers : pc[t] = "d_take" => item[Node(mine[t])] = Enqueued(t)

\* What is enqueued is consumed, whoever is overtaken or has to try again: once the calls
\* of enqueue have come to an end, all their items are.
Drained == <>[](Len(claims) = calls)
-----------------------------------------------------------------------------
(* The inductive invariant behind the theorems, for versions that do not wrap.  It  *)
(* speaks of every node's place: kind says what sort of place it is in, at which    *)
(* position of the chain or of the free list, or which thread has it, and ver its   *)
(* version.                                                                         *)

\* The hypothesis under which no version wraps: 2^24 is more than all the enqueues.
NoVersionWrap == MaxEnqueues < VersionMod

\* Where in the chain the head is.
HeadAt == Len(claims) + (IF head.consumed THEN 1 ELSE 2)

\* Producers that have not got their node yet.
Allocating == {t \in Producers : pc[t] \in {"e_list", "e_next", "e_pop", "e_new"}}

\* Nodes and versions are used up by calls of enqueue only.
Counted(ver) == /\ nextNodeIdx >= 2
                /\ nextNodeIdx + Cardinality(Allocating) <= calls + 2
                /\ \A n \in Nodes : ver[n] + Cardinality(Allocating) <= calls

\* Head and tail are in the chain, the head as far on as items were consumed.
Ends == /\ HeadAt <= Len(log) + 1 /\ ChainAt(HeadAt) = head.idx
        /\ ChainAt(Len(log) + 1) = tail

QueuePlaced(kind, at, ver) ==
    /\ \A k \in HeadAt .. Len(log) + 1 :
          LET n == Node(ChainAt(k)) IN kind[n] = "queue" /\ at[n] = k /\ ver[n] = Version(ChainAt(k))
    /\ \A n \in Nodes : kind[n] = "queue" => /\ at[n] \in HeadAt .. Len(log) + 1
                                            /\ Node(ChainAt(at[n])) = n

FreePlaced(kind, at, ver) ==
    /\ \A k \in 1 .. Len(frees) :
          LET n == Node(frees[k]) IN kind[n] = "free" /\ at[n] = k /\ ver[n] = Version(frees[k])
    /\ \A n \in Nodes : kind[n] = "free" => at[n] \in 1 .. Len(frees) /\ Node(frees[at[n]]) = n

HeldPlaced(kind, at, ver) ==
    /\ \A t \in Threads : pc[t] \in EnqHolding \cup DeqHolding =>
          LET n == Node(mine[t]) IN /\ mine[t] \in Idx
                                    /\ kind[n] = "held" /\ at[n] = t /\ ver[n] = Version(mine[t])
    /\ \A n \in Nodes : kind[n] = "held" => /\ at[n] \in Threads
                                           /\ pc[at[n]] \in EnqHolding \cup DeqHolding
                                           /\ Node(mine[at[n]]) = n

FreshPlaced(kind) == \A n \in Nodes : kind[n] = "fresh" <=> n >= nextNodeIdx

\* A node comes back with a larger version only.
VersionsGrow(kind, at, ver) ==
    /\ \A k \in 1 .. Len(log) + 1 :
          LET n == Node(ChainAt(k)) IN
          /\ kind[n] # "fresh" /\ Version(ChainAt(k)) <= ver[n]
          /\ kind[n] = "held" /\ pc[at[n]] \in EnqHolding => Version(ChainAt(k)) < ver[n]
    /\ \A k, l \in 1 .. Len(log) + 1 : k # l => ChainAt(k) # ChainAt(l)

\* Linked, by the position of the head.
Links == \A k \in HeadAt .. Len(log) + 1 :
            \/ k <= Len(log) /\ next[Node(ChainAt(k))] = ChainAt(k + 1)
            \/ /\ next[Node(ChainAt(k))] = Null
               /\ k <= Len(log) => \E t \in Producers : /\ pc[t] = "e_link"
                                                        /\ seen[t] = ChainAt(k)
                                                        /\ mine[t] = ChainAt(k + 1)

\* A node of the queue has the item it was enqueued with.
ItemsKept == \A k \in HeadAt .. Len(log) + 1 :
                k > 1 => item[Node(ChainAt(k))] = log[k - 1].item

\* What a thread inside enqueue knows: a node it saw in the free list has a larger version
\* if it is not there any more.
EnqueueKnows(t, kind, ver) ==
    /\ pc[t] \in {"e_next", "e_pop"} =>
          LET n == Node(seen[t]) IN /\ seen[t] \in Idx /\ kind[n] # "fresh"
                                    /\ Version(seen[t]) <= ver[n]
                                    /\ kind[n] # "free" => Version(seen[t]) < ver[n]
    /\ pc[t] = "e_pop" =>
          LET n == Node(seen[t]) IN kind[n] = "free" /\ ver[n] = Version(seen[t]) => nxt[t] = next[n]
    /\ pc[t] \in {"e_item", "e_tail"} => next[Node(mine[t])] = Null
    /\ pc[t] = "e_tail" => item[Node(mine[t])] = arg[t]
    /\ pc[t] = "e_link" => \E k \in HeadAt .. Len(log) : /\ seen[t] = ChainAt(k)
                                                         /\ mine[t] = ChainAt(k + 1)
                                                         /\ next[Node(ChainAt(k))] = Null

OneLinker == \A t, u \in Threads :
                pc[t] = "e_link" /\ pc[u] = "e_link" /\ mine[t] = mine[u] => t = u

\* What a thread inside try_dequeue knows: the head it read was passed, or is the head
\* still, and then the next it read is the next in the chain.
DequeueKnows(t) ==
    /\ pc[t] \in {"d_next", "d_flag", "d_move"} => \E k \in 1 .. HeadAt : mine[t] = ChainAt(k)
    /\ pc[t] = "d_move" => (head.idx = mine[t] => /\ HeadAt <= Len(log)
                                                   /\ nxt[t] = ChainAt(HeadAt + 1)
                                                   /\ next[Node(mine[t])] = nxt[t])
    /\ pc[t] = "d_item" => \E j \in 1 .. Len(log) : /\ log[j].idx = mine[t]
                                                    /\ log[j].item = item[Node(mine[t])]
    /\ pc[t] = "d_push" => next[Node(mine[t])] = seen[t]

Placed(kind, at, ver) ==
    /\ Counted(ver)
    /\ QueuePlaced(kind, at, ver) /\ FreePlaced(kind, at, ver) /\ HeldPlaced(kind, at, ver)
    /\ FreshPlaced(kind)
    /\ VersionsGrow(kind, at, ver)
    /\ \A t \in Threads : EnqueueKnows(t, kind, ver)

Kinds == {"fresh", "queue", "free", "held"}

\* The part of the invariant that does not speak of the nodes' places.
Shape == /\ TypeOK /\ Ends /\ ClaimsInOrder /\ Links /\ ItemsKept /\ FreeListed /\ OneLinker
         /\ \A t \in Threads : DequeueKnows(t)

\* The inductive invariant.
IInv == /\ Shape
        /\ \E kind \in [Nodes -> Kinds], at \in [Nodes -> Nat \cup Threads],
              ver \in [Nodes -> Versions] : Placed(kind, at, ver)
=============================================================================
