-------------------------------- MODULE Fifo --------------------------------
(* What the completion queue promises: values leave in the order in which they
   entered, each exactly once, and a dequeue reports an empty queue only if the
   queue was empty at some moment during the call. *)
EXTENDS Naturals, Sequences

CONSTANTS Values, Empty

VARIABLES q, out

vars == <<q, out>>

Init == q = <<>> /\ out = Empty

Enqueue(v) == q' = Append(q, v) /\ UNCHANGED out

Dequeue == q # <<>> /\ out' = Head(q) /\ q' = Tail(q)

DequeueEmpty == q = <<>> /\ out' = Empty /\ UNCHANGED q

Next == (\E v \in Values : Enqueue(v)) \/ Dequeue \/ DequeueEmpty

Spec == Init /\ [][Next]_vars
=============================================================================
