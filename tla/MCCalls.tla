------------------------------ MODULE MCCalls ------------------------------
(* Processes with signals, and AF_UNIX sockets of two programs, for TLC.   *)
(* The modules share no variable, so one of them moves and the other rests *)
(* in its initial state.                                                   *)
EXTENDS Process, UnixSockets

MCSleepMs == {1}
MCWaitArgs == {AnyChild} \cup Pids

VARIABLE part    \* the module that moves

MCInit == part \in {"process", "unix"} /\ ProcInit /\ UnixInit

MCNext ==
    \/ part = "process" /\ ProcNext /\ UNCHANGED <<part, uvars>>
    \/ part = "unix" /\ UnixNext /\ UNCHANGED <<part, allvars>>

MCSpec == MCInit /\ [][MCNext]_<<part, allvars, uvars>>
=============================================================================
