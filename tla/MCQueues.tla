------------------------------ MODULE MCQueues ------------------------------
(* What is queued, at the limits of its queue, for TLC: the processes, the *)
(* events and bytes of the rings, and the connections of a full            *)
(* socket table.  The modules share no variable, so one of them moves and  *)
(* the others rest in their initial states.                                *)
EXTENDS Scheduler, GapRing, ByteRing, UnixSockets, TLC

\* A timeout that the next tick ends, and one that takes two ticks.
MCSleepMs == {4, 5}

VARIABLE part    \* the module that moves

rvars == <<gapvars, ringvars>>

MCInit ==
    /\ part \in {"scheduler", "gap", "bytes", "unix"}
    /\ Init /\ GapInit /\ RingInit /\ UnixInit

MCNext ==
    \/ part = "scheduler" /\ Next /\ UNCHANGED <<part, rvars, uvars>>
    \/ part = "gap" /\ GapNext /\ UNCHANGED <<part, vars, ringvars, uvars>>
    \/ part = "bytes" /\ RingNext /\ UNCHANGED <<part, vars, gapvars, uvars>>
    \/ part = "unix" /\ UnixNext /\ UNCHANGED <<part, vars, rvars>>

MCSpec == MCInit /\ [][MCNext]_<<part, vars, rvars, uvars>>

\* All processes but init are alike.
MCSymmetry == Permutations(Slots \ {InitProc})
=============================================================================
