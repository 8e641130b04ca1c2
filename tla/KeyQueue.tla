------------------------------ MODULE KeyQueue ------------------------------
(***************************************************************************)
(* What the keyboard driver promises its readers: a bounded first-in       *)
(* first-out queue of keys per terminal that drops what does not fit.      *)
(***************************************************************************)
EXTENDS Integers, Sequences

CONSTANTS Queues, Keys, Capacity

VARIABLE queue

Init == queue = [q \in Queues |-> <<>>]

Push(q, key) ==
  /\ Len(queue[q]) < Capacity
  /\ queue' = [queue EXCEPT ![q] = Append(@, key)]

Pop(q) ==
  /\ queue[q] # <<>>
  /\ queue' = [queue EXCEPT ![q] = Tail(@)]

Next == \E q \in Queues : Pop(q) \/ \E key \in Keys : Push(q, key)

Spec == Init /\ [][Next]_queue
=============================================================================
