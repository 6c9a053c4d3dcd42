------------------------------ MODULE ProcLife ------------------------------
(***************************************************************************)
(* What fork, exit and wait4 promise to user programs: the life of a pid.  *)
(***************************************************************************)
EXTENDS Naturals

CONSTANT Pids

VARIABLES
    procs,      \* pid -> what a program can know of the process it names
    reaped      \* the result of the latest successful wait4

Nobody == [status |-> "none", code |-> 0]
Alive  == [status |-> "live", code |-> 0]

LifeInit ==
    /\ procs = [n \in Pids |-> IF n \in {1, 2} THEN Alive ELSE Nobody]
    /\ reaped = [pid |-> 0, status |-> 0]

\* fork gives a child a pid that names nobody.
Create(n) ==
    /\ procs[n] = Nobody
    /\ procs' = [procs EXCEPT ![n] = Alive]
    /\ UNCHANGED reaped

\* A process exits, with a code of its own or 128 + the signal that killed it.
Terminate(n) ==
    /\ procs[n] = Alive
    /\ procs'[n].code \in Nat
    /\ procs' = [procs EXCEPT ![n] = [status |-> "zombie", code |-> procs'[n].code]]
    /\ UNCHANGED reaped

\* wait4 reports the exit code in the second byte of the status and frees the pid.
Collect(n) ==
    /\ procs[n].status = "zombie"
    /\ procs' = [procs EXCEPT ![n] = Nobody]
    /\ reaped' = [pid |-> n, status |-> procs[n].code * 256]

LifeNext == \E n \in Pids : Create(n) \/ Terminate(n) \/ Collect(n)

LifeSpec == LifeInit /\ [][LifeNext]_<<procs, reaped>>

=============================================================================
