-------------------------------- MODULE Fifo --------------------------------
(***************************************************************************)
(* What the firmware's report queues promise: a bounded first-in first-out *)
(* queue whose newest entry may still be amended while it waits.           *)
(***************************************************************************)
EXTENDS Naturals, Sequences

CONSTANTS Entry,    \* the values that can wait in the queue
          Capacity  \* how many of them fit

VARIABLE queue

Init == queue = << >>

Push(e) == /\ Len(queue) < Capacity
           /\ queue' = Append(queue, e)

\* The entry pushed last is replaced; the others, and the order, stay.
Amend(e) == /\ queue # << >>
            /\ queue' = [queue EXCEPT ![Len(queue)] = e]

Pop == /\ queue # << >>
       /\ queue' = Tail(queue)

Next == \/ \E e \in Entry : Push(e) \/ Amend(e)
        \/ Pop

Spec == Init /\ [][Next]_queue
=============================================================================
