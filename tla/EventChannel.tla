---------------------------- MODULE EventChannel ----------------------------
(***************************************************************************)
(* What the child-to-host event ring promises: events the child decides to *)
(* send are completed by the host in that order, each exactly once, and    *)
(* none is dropped unless the life of the channel ends: the child is dead, *)
(* or its supervisor tears it down.                                        *)
(***************************************************************************)
EXTENDS Naturals, Sequences

CONSTANT Events

VARIABLES
    queue,   \* events sent and not completed, oldest first
    epoch    \* lives of the channel that have ended

Init == queue = <<>> /\ epoch = 0

Send(e) == queue' = Append(queue, e) /\ UNCHANGED epoch

\* The host completes the oldest event, never a younger one.
Complete == queue # <<>> /\ queue' = Tail(queue) /\ UNCHANGED epoch

End == queue' = <<>> /\ epoch' = epoch + 1

Next == (\E e \in Events : Send(e)) \/ Complete \/ End

Spec == Init /\ [][Next]_<<queue, epoch>>
=============================================================================
