------------------------------ MODULE Process ------------------------------
(***************************************************************************)
(* Process life cycle: pids, the family tree, wait4, exit and signals      *)
(* (kernel/proc/process.c, kernel/proc/fork.c and the system calls of      *)
(* kernel/arch/x86_64/process/syscall.c that reach them), composed with    *)
(* the scheduler: every action here that moves a process takes the action  *)
(* of module Scheduler with it.                                            *)
(*                                                                         *)
(* A reaped struct process goes back to a slab with room for one object,   *)
(* whose contents stay as they were until process_create takes it again.   *)
(***************************************************************************)
EXTENDS Scheduler

CONSTANTS
    None,        \* the NULL pointer
    PidMax,      \* PID_MAX
    WaitArgs,    \* the pid arguments of wait4
    Codes,       \* the arguments of exit(2)
    Sigs,        \* the signals processes send
    Masks,       \* the masks given to rt_sigprocmask
    Ignorable    \* the signals whose action rt_sigaction sets

ASSUME ProcessAssumption ==
    /\ None \notin Slots \cup {Idle}
    /\ PidMax \in Nat /\ PidMax > 2
    /\ WaitArgs \subseteq {-1} \cup 1..(PidMax - 1)
    /\ Codes \subseteq Nat
    /\ Sigs \subseteq 1..31
    /\ Masks \subseteq SUBSET Sigs
    /\ Ignorable \subseteq Sigs
    /\ 1 \in SleepMs

VARIABLES
    pid,         \* p->pid
    pid_table,   \* pid_table[1 .. PID_MAX - 1]
    next_pid,
    parent,      \* p->parent
    children,    \* p->children, a list linked through sibling
    exit_code,   \* p->exit_code
    call,        \* the system call p is inside of, if it gave the CPU away there
    waitPid,     \* the pid argument of the wait4 p is inside of
    pending,     \* p->pending
    blocked,     \* p->blocked
    ignored,     \* the signals whose sigactions[].sa_handler is SIG_IGN
    reaped       \* what the latest successful do_wait returned: pid and status

ids     == <<pid, pid_table, next_pid>>
family  == <<parent, children>>
waits   == <<call, waitPid, reaped>>
signals == <<pending, blocked, ignored>>
procvars == <<ids, family, waits, signals, exit_code>>
allvars  == <<vars, procvars>>

SIGINT == 2
Pids   == 1..(PidMax - 1)
Calls  == {"none", "yield", "sleep", "poll", "wait"}
AnyChild == -1

----------------------------------------------------------------------------
\* process_init and scheduler_start, then init's first execve: idle has pid 1
\* and init pid 2 and no parent.
ProcInit ==
    /\ Init
    /\ pid = [p \in Slots |-> IF p = InitProc THEN 2 ELSE 0]
    /\ pid_table = [n \in Pids |-> IF n = 1 THEN Idle ELSE IF n = 2 THEN InitProc ELSE None]
    /\ next_pid = 3
    /\ parent = [p \in Slots |-> None]
    /\ children = [p \in Slots |-> <<>>]
    /\ exit_code = [p \in Slots |-> 0]
    /\ call = [p \in Slots |-> "none"]
    /\ waitPid = [p \in Slots |-> AnyChild]
    /\ pending = [p \in Slots |-> {}]
    /\ blocked = [p \in Slots |-> {}]
    /\ ignored = [p \in Slots |-> {}]
    /\ reaped = [pid |-> 0, status |-> 0]

Least(S) == CHOOSE n \in S : \A m \in S : n <= m

\* Mutant of alloc_pid: the wrapped search starts over without looking.
AllocAfterWrap ==
    LET free == {n \in Pids : pid_table[n] = None}
        up   == {n \in free : n >= next_pid}
    IN  IF up # {} THEN Least(up) ELSE IF free # {} THEN 3 ELSE 0

\* alloc_pid: the first free pid from next_pid on, else the first free one;
\* 0 stands for its -1.
alloc_pid ==
    LET free == {n \in Pids : pid_table[n] = None}
        up   == {n \in free : n >= next_pid}
    IN  IF up # {} THEN Least(up) ELSE IF free # {} THEN Least(free) ELSE 0

InUser == curr # Idle /\ mode[curr] = "user"
InCall(k) == curr # Idle /\ mode[curr] = "kernel" /\ call[curr] = k

\* do_fork(flags), successful, with process_create and copy_sighand: the child
\* is linked at the head of its parent's children.  CLONE_PARENT copies the
\* parent pointer of the caller, which may name a slot that was reaped since,
\* even the very slot the child has just been given.
do_fork(c, clone_parent) ==
    LET n   == alloc_pid
        par == IF clone_parent THEN parent[curr] ELSE curr
        new == [children EXCEPT ![c] = <<>>]
    IN  /\ InUser /\ n # 0
        /\ Fork(c)
        /\ pid' = [pid EXCEPT ![c] = n]
        /\ pid_table' = [pid_table EXCEPT ![n] = c]
        /\ next_pid' = n + 1
        /\ parent' = [parent EXCEPT ![c] = par]
        /\ children' = IF par = None THEN new ELSE [new EXCEPT ![par] = <<c>> \o @]
        /\ exit_code' = [exit_code EXCEPT ![c] = 0]
        /\ call' = [call EXCEPT ![c] = "none"]
        /\ pending' = [pending EXCEPT ![c] = {}]
        /\ blocked' = [blocked EXCEPT ![c] = blocked[curr]]
        /\ ignored' = [ignored EXCEPT ![c] = ignored[curr]]
        /\ UNCHANGED <<waitPid, reaped>>

\* do_fork that runs out of memory after alloc_pid: free_pid gives the pid
\* back, next_pid has moved on.
fork_fail ==
    /\ InUser
    /\ alloc_pid # 0
    /\ next_pid' = alloc_pid + 1
    /\ UNCHANGED <<vars, pid, pid_table, family, waits, signals, exit_code>>

----------------------------------------------------------------------------
Enter(k) == call' = [call EXCEPT ![curr] = k]

sys_sched_yield ==
    /\ InUser
    /\ Yield
    /\ Enter("yield")
    /\ UNCHANGED <<ids, family, waitPid, reaped, signals, exit_code>>

sys_nanosleep(ms) ==
    /\ InUser
    /\ SleepTimeout(ms)
    /\ Enter("sleep")
    /\ UNCHANGED <<ids, family, waitPid, reaped, signals, exit_code>>

\* One more round of a system call that polls: poll and select sleep 1 ms,
\* console and socket reads yield.
poll_again ==
    /\ InUser \/ InCall("poll")
    /\ Yield \/ SleepTimeout(1)
    /\ Enter("poll")
    /\ UNCHANGED <<ids, family, waitPid, reaped, signals, exit_code>>

\* sched_yield and nanosleep are over when they run again; a poll is when it
\* finds its file ready, its timeout over or a Ctrl-C for a shell (-EINTR).
syscall_return ==
    /\ InCall("yield") \/ InCall("sleep") \/ InCall("poll")
    /\ Return
    /\ Enter("none")
    /\ UNCHANGED <<ids, family, waitPid, reaped, signals, exit_code>>

\* do_exit, and sys_exit past its rescue: the struct stays, a ZOMBIE.
do_exit(code) ==
    /\ Exit
    /\ exit_code' = [exit_code EXCEPT ![curr] = code]
    /\ Enter("none")
    /\ UNCHANGED <<ids, family, waitPid, reaped>>

\* exit(2) and fatal exceptions in user mode.  sys_exit of init executes a
\* rescue shell instead, and exits only if that fails.
sys_exit(code) ==
    /\ InUser
    /\ \/ do_exit(code) /\ UNCHANGED signals
       \/ pid[curr] = 2 /\ UNCHANGED allvars

IsWaitedFor(c, n) == n = AnyChild \/ pid[c] = n

\* Mutant of Zombies: the walk ends at the first child.
ZombiesFirstOnly(n) == {i \in DOMAIN children[curr] :
                           /\ i = 1 /\ state[children[curr][i]] = "ZOMBIE"
                           /\ IsWaitedFor(children[curr][i], n)}

\* The zombies among the children of the current process that wait4(n) is for.
Zombies(n) == {i \in DOMAIN children[curr] :
                  state[children[curr][i]] = "ZOMBIE" /\ IsWaitedFor(children[curr][i], n)}

\* The zeroing of the struct by process_create's kmem_cache_zalloc, done when it
\* is freed: nothing reads these fields of a free struct in between.
Wipe(z) ==
    /\ exit_code' = [exit_code EXCEPT ![z] = 0]
    /\ pending' = [pending EXCEPT ![z] = {}]
    /\ blocked' = [blocked EXCEPT ![z] = {}]
    /\ ignored' = [ignored EXCEPT ![z] = {}]

\* process_destroy of a child of the current process.
process_destroy(z) ==
    /\ Reap(z)
    /\ pid_table' = [pid_table EXCEPT ![pid[z]] = None]
    /\ children' = [children EXCEPT ![curr] = Unlink(@, z)]
    /\ Wipe(z)

\* Mutant of wait_loop: the exit code is reported as it is.
WaitUnshifted(n, nohang) ==
    \/ /\ Zombies(n) # {}
       /\ LET z == children[curr][Least(Zombies(n))]
          IN  /\ process_destroy(z)
              /\ reaped' = [pid |-> pid[z], status |-> exit_code[z]]
       /\ Enter("none")
       /\ waitPid' = [waitPid EXCEPT ![curr] = AnyChild]
       /\ UNCHANGED <<pid, next_pid, parent>>
    \/ /\ Zombies(n) = {}
       /\ children[curr] # <<>> /\ ~nohang
       /\ Yield
       /\ Enter("wait")
       /\ waitPid' = [waitPid EXCEPT ![curr] = n]
       /\ UNCHANGED <<ids, family, reaped, signals, exit_code>>

\* One turn of the loop of do_wait(n).
wait_loop(n, nohang) ==
    \/ /\ Zombies(n) # {}
       /\ LET z == children[curr][Least(Zombies(n))]
          IN  /\ process_destroy(z)
              /\ reaped' = [pid |-> pid[z], status |-> exit_code[z] * 256]
       /\ Enter("none")
       /\ waitPid' = [waitPid EXCEPT ![curr] = AnyChild]
       /\ UNCHANGED <<pid, next_pid, parent>>
    \/ /\ Zombies(n) = {}
       /\ children[curr] = <<>> \/ nohang
       /\ InUser
       /\ UNCHANGED allvars
    \/ /\ Zombies(n) = {}
       /\ children[curr] # <<>> /\ ~nohang
       /\ Yield
       /\ Enter("wait")
       /\ waitPid' = [waitPid EXCEPT ![curr] = n]
       /\ UNCHANGED <<ids, family, reaped, signals, exit_code>>

sys_wait4(n, nohang) == InUser /\ wait_loop(n, nohang)

\* The waiter gets the CPU back from scheduler_yield and looks again.
wait_again == InCall("wait") /\ wait_loop(waitPid[curr], FALSE)

----------------------------------------------------------------------------
(* Signals.                                                                *)

\* Mutant of do_signal_deliver: an ignored signal is skipped and not cleared.
DeliverKeepsIgnored(pend) ==
    LET deliverable == pend \ blocked[curr]
        fatal       == deliverable \ ignored[curr]
        Set(S)      == pending' = [pending EXCEPT ![curr] = S]
    IN  /\ UNCHANGED <<blocked, ignored>>
        /\ IF SIGINT \in pend
           THEN Set(pend \ {SIGINT}) /\ do_exit(128 + SIGINT)
           ELSE IF fatal # {}
           THEN Set(pend \ {Least(fatal)}) /\ do_exit(128 + Least(fatal))
           ELSE Set(pend) /\ UNCHANGED <<vars, ids, family, waits, exit_code>>

\* do_signal_deliver with the set pend pending: SIGINT kills, blocked or not;
\* the others are taken in order, an ignored one is dropped and the first that
\* is not kills.
do_signal_deliver(pend) ==
    LET deliverable == pend \ blocked[curr]
        fatal       == deliverable \ ignored[curr]
        Set(S)      == pending' = [pending EXCEPT ![curr] = S]
    IN  /\ UNCHANGED <<blocked, ignored>>
        /\ IF SIGINT \in pend
           THEN Set(pend \ {SIGINT}) /\ do_exit(128 + SIGINT)
           ELSE IF fatal # {}
           THEN Set(pend \ {s \in deliverable : s <= Least(fatal)}) /\ do_exit(128 + Least(fatal))
           ELSE Set(pend \ deliverable) /\ UNCHANGED <<vars, ids, family, waits, exit_code>>

\* do_kill: a signal for another process is recorded and not acted upon.
do_kill(n, sig) ==
    LET target == IF n \in {0, pid[curr]} THEN curr ELSE pid_table[n]
    IN  /\ InUser
        /\ target \in Slots
        /\ IF target = curr
           THEN do_signal_deliver(pending[curr] \cup {sig})
           ELSE /\ pending' = [pending EXCEPT ![target] = @ \cup {sig}]
                /\ UNCHANGED <<vars, ids, family, waits, blocked, ignored, exit_code>>

\* maybe_handle_ctrlc and the console read, for a process that is not a shell.
handle_ctrlc ==
    \E sig \in Sigs \cap {SIGINT} :
        /\ InCall("poll")
        /\ do_signal_deliver(pending[curr] \cup {sig})

\* rt_sigprocmask: any mask, nothing is delivered.
sys_rt_sigprocmask(set) ==
    /\ InUser
    /\ blocked' = [blocked EXCEPT ![curr] = set]
    /\ UNCHANGED <<vars, ids, family, waits, pending, ignored, exit_code>>

\* rt_sigaction: SIG_IGN or anything else.
sys_rt_sigaction(sig) ==
    /\ InUser
    /\ ignored' = [ignored EXCEPT ![curr] = IF sig \in @ THEN @ \ {sig} ELSE @ \cup {sig}]
    /\ UNCHANGED <<vars, ids, family, waits, pending, blocked, exit_code>>

----------------------------------------------------------------------------
timer_handler == TimerIrq /\ UNCHANGED procvars
irq_return == IrqReturn /\ UNCHANGED procvars

ProcNext ==
    \/ \E c \in Slots, clone_parent \in BOOLEAN : do_fork(c, clone_parent)
    \/ fork_fail
    \/ sys_sched_yield
    \/ \E ms \in SleepMs : sys_nanosleep(ms)
    \/ poll_again
    \/ syscall_return
    \/ \E code \in Codes : sys_exit(code)
    \/ \E n \in WaitArgs, nohang \in BOOLEAN : sys_wait4(n, nohang)
    \/ wait_again
    \/ \E n \in Pids \cup {0}, sig \in Sigs : do_kill(n, sig)
    \/ handle_ctrlc
    \/ \E set \in Masks : sys_rt_sigprocmask(set)
    \/ \E sig \in Ignorable : sys_rt_sigaction(sig)
    \/ timer_handler
    \/ irq_return

ProcSpec == ProcInit /\ [][ProcNext]_allvars

\* As in module Scheduler: kernel code runs on, a timer interrupt that can be
\* delivered again and again is delivered, user code may loop.
KernelRunsOn == syscall_return \/ poll_again \/ wait_again \/ handle_ctrlc

ProcFairSpec ==
    /\ ProcSpec
    /\ WF_allvars(curr # Idle /\ mode[curr] = "kernel" /\ KernelRunsOn)
    /\ WF_allvars(irq_return)
    /\ SF_allvars(timer_handler)
----------------------------------------------------------------------------
ProcTypeOK ==
    /\ TypeOK
    /\ pid \in [Slots -> Pids \cup {0}]
    /\ pid_table \in [Pids -> Slots \cup {Idle, None}]
    /\ next_pid \in 1..PidMax
    /\ parent \in [Slots -> Slots \cup {None}]
    /\ children \in [Slots -> Seq(Slots)]
    /\ exit_code \in [Slots -> Nat]
    /\ call \in [Slots -> Calls]
    /\ waitPid \in [Slots -> Pids \cup {AnyChild}]
    /\ pending \in [Slots -> SUBSET Sigs]
    /\ blocked \in [Slots -> SUBSET Sigs]
    /\ ignored \in [Slots -> SUBSET Sigs]
    /\ reaped \in [pid : Pids \cup {0}, status : Nat]

\* pid_table is exactly the inverse of p->pid on the processes that exist,
\* zombies included: a pid names one process until that process is reaped,
\* also after next_pid has wrapped around.
PidTableOK ==
    /\ pid_table[1] = Idle
    /\ \A p \in Slots : state[p] # "FREE" => pid[p] \in Pids /\ pid_table[pid[p]] = p
    /\ \A n \in Pids : pid_table[n] \in Slots =>
           state[pid_table[n]] # "FREE" /\ pid[pid_table[n]] = n

\* The children lists that do_wait walks link a process at most once and only
\* under its p->parent, and hold no reaped process, also when parents are
\* reaped before their children and their slots are used again.
FamilyOK ==
    \A p \in Slots :
        /\ \A i, j \in DOMAIN children[p] : children[p][i] = children[p][j] => i = j
        /\ \A c \in Elements(children[p]) : state[c] # "FREE" /\ parent[c] = p

\* A process inside wait4 has a child, so that the -ECHILD exit of the loop of
\* do_wait is taken on its first turn or never; where a process is inside a
\* system call it has left user mode.
WaitHasChild ==
    \A p \in Slots : state[p] # "FREE" =>
        /\ call[p] = "wait" => children[p] # <<>>
        /\ call[p] # "none" => mode[p] = "kernel" /\ state[p] # "ZOMBIE"

\* The scheduler's invariant, the types, the pid table and the family tree: each of them
\* is preserved by fork, exit, wait4 and signals only together with the others.
PInv == SchedulerOK /\ ProcTypeOK /\ PidTableOK /\ FamilyOK

\* All that processes are, from fork to wait4.
ProcOK == PInv /\ WaitHasChild

\* When a process has had its own signals delivered and lives on, nothing is
\* left pending that is not blocked.
DeliveryComplete ==
    [][\A p \in Slots : curr = p /\ pending'[p] # pending[p] =>
           state'[p] = "ZOMBIE" \/ pending'[p] \subseteq blocked[p]]_allvars

\* What the process table says of each pid, in the terms of module ProcLife.
lives ==
    [n \in Pids |->
        IF pid_table[n] = None
        THEN [status |-> "none", code |-> 0]
        ELSE IF pid_table[n] # Idle /\ state[pid_table[n]] = "ZOMBIE"
        THEN [status |-> "zombie", code |-> exit_code[pid_table[n]]]
        ELSE [status |-> "live", code |-> 0]]

Life == INSTANCE ProcLife WITH procs <- lives

\* fork, exit and wait4 implement the life of a pid: created once, terminated
\* once with a code, collected once with that code as wait status.
ImplementsLife == Life!LifeSpec

\* p is inside a wait4 that one of its children, terminated, would end.
CanCollect(p) ==
    /\ call[p] = "wait"
    /\ \E z \in Elements(children[p]) : state[z] = "ZOMBIE" /\ IsWaitedFor(z, waitPid[p])

\* wait4 for a child that has terminated returns, if no process and not idle
\* keeps the CPU for ever.  (Only the return of p's wait4 makes CanCollect(p)
\* false again, so that it is false again and again says that it returns.)
WaitReturns ==
    (\A c \in Slots \cup {Idle} : []<>(curr # c)) => \A p \in Slots : []<>~CanCollect(p)

============================================================================
