-------------------------------- MODULE Fifo --------------------------------
(***************************************************************************)
(* What a pipe promises: bytes leave in the order they entered, one by one *)
(* or several at a time, and at most N of them are inside.                 *)
(***************************************************************************)
EXTENDS Naturals, Sequences

CONSTANTS N, Ids, Values
VARIABLE queue      \* queue[i]: the bytes inside, oldest first

Init == queue = [i \in Ids |-> << >>]

Put(i) ==
    /\ Len(queue[i]) < N
    /\ \E v \in Values : queue' = [queue EXCEPT ![i] = Append(@, v)]

\* Closing both ends drops what is left.
Get(i) == \E k \in 1..Len(queue[i]) : queue' = [queue EXCEPT ![i] = SubSeq(@, k + 1, Len(@))]

Next == \E i \in Ids : Put(i) \/ Get(i)
Spec == Init /\ [][Next]_queue
=============================================================================
