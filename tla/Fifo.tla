-------------------------------- MODULE Fifo --------------------------------
(***************************************************************************)
(* What circularBuffer.h promises of a "circular buffers (FIFO) structure": *)
(* entries leave in the order they came, an entry can be edited in place,  *)
(* and a call that fails changes nothing.  The array behind it, its growth *)
(* and its wrapped indexes are not visible here.                           *)
(***************************************************************************)
EXTENDS Integers, Sequences

CONSTANT Entry          \* the values an entry can hold

VARIABLES queue,        \* the stored entries, oldest first
          ret           \* result of the last call: 0 success, -1 failure

vars == <<queue, ret>>

Init == queue = <<>> /\ ret = 0

Push(v) == queue' = Append(queue, v) /\ ret' = 0

Pop == queue # <<>> /\ queue' = Tail(queue) /\ ret' = 0

\* Write through the pointer that a lookup returned.
Edit(i, v) == /\ i \in 1..Len(queue)
              /\ queue' = [queue EXCEPT ![i] = v]
              /\ ret' = 0

Fail == queue' = queue /\ ret' = -1

Next == \/ \E v \in Entry : Push(v)
        \/ Pop
        \/ \E i \in 1..Len(queue), v \in Entry : Edit(i, v)
        \/ Fail

Spec == Init /\ [][Next]_vars
=============================================================================
