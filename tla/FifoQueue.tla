------------------------------ MODULE FifoQueue ------------------------------
(* What a queue of messages promises: nothing is lost, doubled or reordered. *)
EXTENDS Sequences

CONSTANT Msg
VARIABLE queue

Init == queue = <<>>
Put(m) == queue' = Append(queue, m)
Take == queue # <<>> /\ queue' = Tail(queue)

Next == Take \/ \E m \in Msg : Put(m)
Spec == Init /\ [][Next]_queue
=============================================================================
