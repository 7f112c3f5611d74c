---------------------------- MODULE BoundedFifo ----------------------------
(***************************************************************************)
(* What a bounded queue promises its users: values leave in the order they *)
(* entered, each leaves once, and never more than Capacity of them are     *)
(* inside.  ArrayLockFreeQueue is shown to implement this specification.   *)
(***************************************************************************)
EXTENDS Naturals, Sequences

CONSTANTS Values,     \* what may be put into the queue
          Capacity    \* how many values it can hold

VARIABLE items        \* the values inside, oldest first

Init == items = <<>>

Put(v) == /\ Len(items) < Capacity
          /\ items' = Append(items, v)

Get == /\ items # <<>>
       /\ items' = Tail(items)

Next == \/ \E v \in Values : Put(v)
        \/ Get

Spec == Init /\ [][Next]_items
=============================================================================
