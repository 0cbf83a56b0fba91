------------------------- MODULE MCCompletionQueue -------------------------
(* CompletionQueue with small rings and two workers. *)
EXTENDS CompletionQueue

\* One queue pair, as the Linux driver creates them; worker 0 does it all.
Paired == [sqs |-> {1}, cqid |-> 1, size |-> 3, irq_enabled |-> TRUE, depth |-> 2,
           maxInFlight |-> 4]

\* A pair that is polled.
Polled == [Paired EXCEPT !.irq_enabled = FALSE]

\* Two queues share the ring; worker 1 fills it, worker 0 signals.
Shared == [Paired EXCEPT !.sqs = {2, 4}, !.depth = 1,
                           !.maxInFlight = 1]

PairsAndShared == {Paired, Polled, Shared}
===========================================================================
