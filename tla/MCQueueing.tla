----------------------------- MODULE MCQueueing -----------------------------
(* Two logical queues read by one worker, two writers, all four classes.   *)
EXTENDS Queueing

MCFMap == [q \in Queues |-> CHOOSE w \in Workers : TRUE]

=============================================================================
