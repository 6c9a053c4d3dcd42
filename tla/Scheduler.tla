----------------------------- MODULE Scheduler -----------------------------
(***************************************************************************)
(* The process scheduler of the Obelisk kernel: kernel/proc/scheduler.c    *)
(* with the parts of fork.c, process.c and idt.c that call it.             *)
(*                                                                         *)
(* One CPU.  Every system call and exception enters through an interrupt   *)
(* gate and nothing on those paths sets IF again, so kernel code is atomic *)
(* between two calls of schedule(); the timer interrupt is taken only in   *)
(* user mode or in the idle loop (sti; hlt).                               *)
(***************************************************************************)
EXTENDS Integers, FiniteSets, Sequences

CONSTANTS
    Slots,       \* the struct process objects the slab cache can hand out
    Idle,        \* idle_process
    InitProc,    \* init_process
    TimeSlice,   \* rr_time_slice of nice 0: DEF_TIMESLICE
    TickMs,      \* TICK_MS
    SleepMs      \* the timeouts passed to scheduler_sleep_timeout

ASSUME SchedulerAssumption ==
    /\ IsFiniteSet(Slots)
    /\ InitProc \in Slots
    /\ Idle \notin Slots
    /\ TimeSlice \in Nat \ {0}
    /\ TickMs \in Nat \ {0}
    /\ SleepMs \subseteq Nat \ {0}

VARIABLES
    state,      \* p->state; "FREE" is a struct not allocated
    curr,       \* runqueue.curr
    rq,         \* runqueue: the one priority queue in use, nr_running, its bitmap bit
    slice,      \* p->time_slice
    sleepq,     \* sleep_queue
    wake,       \* p->wakeup_tick - runqueue.clock
    mode,       \* where p continues: user code, a system call, or timer_handler
    inService   \* the PIC's in-service bit of IRQ 0, cleared by the EOI

vars == <<state, curr, rq, slice, sleepq, wake, mode, inService>>

States == {"FREE", "READY", "RUNNING", "SLEEPING", "ZOMBIE"}
Modes  == {"user", "kernel", "irq"}

----------------------------------------------------------------------------
(* Intrusive lists.  A process is in a list iff it is linked.              *)

Elements(s) == {s[i] : i \in DOMAIN s}

\* list_del: the list without p, unchanged if p is not linked in it.
Unlink(s, p) ==
    IF p \in Elements(s)
    THEN LET i == CHOOSE i \in DOMAIN s : s[i] = p
         IN  [k \in 1..(Len(s) - 1) |-> IF k < i THEN s[k] ELSE s[k + 1]]
    ELSE s

\* p is in front of q in the list s.
Before(s, p, q) == \E i, j \in DOMAIN s : i < j /\ s[i] = p /\ s[j] = q

\* The members of S in the order in which the list s holds them.
InOrderOf(s, S) ==
    {t \in UNION {[1..n -> S] : n \in 0..Len(s)} :
        /\ \A p \in S : \E i \in DOMAIN t : t[i] = p
        /\ \A i, j \in DOMAIN t : i < j => Before(s, t[i], t[j])}

(* The round-robin policy.  process_create is the only writer of priority  *)
(* that has a caller, so all processes share the queue of DEFAULT_PRIO.    *)

\* Mutants of rr_enqueue: list_add behind the first entry for list_add_tail;
\* the bitmap not updated.
EnqueueBehindHead(r, p) ==
    LET q == r.queue
        k == IF q = <<>> THEN 0 ELSE 1
    IN  IF p \in Elements(q)
        THEN r
        ELSE [queue      |-> SubSeq(q, 1, k) \o <<p>> \o SubSeq(q, k + 1, Len(q)),
              nr_running |-> r.nr_running + 1,
              bit        |-> TRUE]

EnqueueWithoutBit(r, p) ==
    IF p \in Elements(r.queue)
    THEN r
    ELSE [r EXCEPT !.queue = Append(@, p), !.nr_running = @ + 1]

rr_enqueue(r, p) ==
    IF p \in Elements(r.queue)
    THEN r
    ELSE [queue |-> Append(r.queue, p), nr_running |-> r.nr_running + 1, bit |-> TRUE]

\* Mutant of rr_dequeue: nr_running is not decremented.
DequeueUncounted(r, p) ==
    IF p \notin Elements(r.queue)
    THEN r
    ELSE [r EXCEPT !.queue = Unlink(@, p), !.bit = @ /\ Unlink(r.queue, p) # <<>>]

rr_dequeue(r, p) ==
    IF p \notin Elements(r.queue)
    THEN r
    ELSE [queue      |-> Unlink(r.queue, p),
          nr_running |-> IF r.nr_running > 0 THEN r.nr_running - 1 ELSE 0,
          bit        |-> r.bit /\ Unlink(r.queue, p) # <<>>]

rr_pick_next(r) == IF r.bit /\ r.queue # <<>> THEN Head(r.queue) ELSE Idle

\* rr_tick: the slice left to p, and whether it sets TIF_NEED_RESCHED.
rr_tick(r, s) ==
    [slice |-> IF s - 1 <= 0 /\ r.nr_running = 0 THEN TimeSlice ELSE s - 1,
     need_resched |-> s - 1 <= 0 /\ r.nr_running > 0]

----------------------------------------------------------------------------
Init ==
    /\ state = [p \in Slots |-> IF p = InitProc THEN "RUNNING" ELSE "FREE"]
    /\ curr = InitProc
    /\ rq = [queue |-> <<>>, nr_running |-> 0, bit |-> FALSE]
    /\ slice = [p \in Slots |-> TimeSlice]
    /\ sleepq = <<>>
    /\ wake = [p \in Slots |-> 0]
    /\ mode = [p \in Slots |-> "user"]
    /\ inService = FALSE

\* schedule(), called with process states st, run queue r and slices sl:
\* a RUNNING prev goes to the tail, the head runs next, else idle does.
schedule(st, r, sl) ==
    LET park == curr # Idle /\ st[curr] = "RUNNING"
        st1  == IF park THEN [st EXCEPT ![curr] = "READY"] ELSE st
        r1   == IF park THEN rr_enqueue(r, curr) ELSE r
        pick == rr_pick_next(r1)
        next == IF pick # Idle /\ st1[pick] = "ZOMBIE" THEN Idle ELSE pick
    IN  /\ curr' = next
        /\ rq' = IF next # Idle /\ st1[next] = "READY" THEN rr_dequeue(r1, next) ELSE r1
        /\ state' = IF next = Idle THEN st1 ELSE [st1 EXCEPT ![next] = "RUNNING"]
        /\ slice' = IF next # Idle /\ sl[next] <= 0
                    THEN [sl EXCEPT ![next] = TimeSlice] ELSE sl

\* curr is executing instructions of its own, in user mode or in a system call.
Executing == curr # Idle /\ mode[curr] \in {"user", "kernel"}

\* do_fork, successful: the child starts at fork_return, that is in user mode.
Fork(c) ==
    /\ Executing /\ mode[curr] = "user"
    /\ state[c] = "FREE"
    /\ state' = [state EXCEPT ![c] = "READY"]
    /\ slice' = [slice EXCEPT ![c] = TimeSlice]
    /\ rq' = rr_enqueue(rq, c)
    /\ wake' = [wake EXCEPT ![c] = 0]
    /\ mode' = [mode EXCEPT ![c] = "user"]
    /\ UNCHANGED <<curr, sleepq, inService>>

\* scheduler_yield: sched_yield(2) and every polling loop of a system call.
Yield ==
    /\ Executing
    /\ mode' = [mode EXCEPT ![curr] = "kernel"]
    /\ schedule(state, rq, slice)
    /\ UNCHANGED <<sleepq, wake, inService>>

\* scheduler_sleep_timeout(current, ms).
SleepTimeout(ms) ==
    /\ Executing
    /\ mode' = [mode EXCEPT ![curr] = "kernel"]
    /\ sleepq' = Append(Unlink(sleepq, curr), curr)
    /\ wake' = [wake EXCEPT ![curr] = ms]
    /\ schedule([state EXCEPT ![curr] = "SLEEPING"], rr_dequeue(rq, curr), slice)
    /\ UNCHANGED inService

\* The system call returns to user mode.
Return ==
    /\ Executing /\ mode[curr] = "kernel"
    /\ mode' = [mode EXCEPT ![curr] = "user"]
    /\ UNCHANGED <<state, curr, rq, slice, sleepq, wake, inService>>

\* scheduler_exit, from exit(2), from a signal or from a fatal user exception.
Exit ==
    /\ Executing
    /\ mode' = [mode EXCEPT ![curr] = "kernel"]
    /\ schedule([state EXCEPT ![curr] = "ZOMBIE"], rq, slice)
    /\ UNCHANGED <<sleepq, wake, inService>>

\* do_wait finds the zombie z: process_destroy unlinks it from every list,
\* without rr_dequeue, and the call returns to user mode.
Reap(z) ==
    /\ Executing
    /\ state[z] = "ZOMBIE"
    /\ state' = [state EXCEPT ![z] = "FREE"]
    /\ rq' = [rq EXCEPT !.queue = Unlink(rq.queue, z)]
    /\ sleepq' = Unlink(sleepq, z)
    /\ mode' = [mode EXCEPT ![curr] = "user"]
    /\ UNCHANGED <<curr, slice, wake, inService>>

\* IRQ 0 is delivered: interrupts are enabled and the PIC has seen the EOI of
\* the previous one.
IrqDeliverable == ~inService /\ (curr # Idle => mode[curr] = "user")

\* scheduler_tick's walk of the sleep queue, after clock += TICK_MS.
Expired == {p \in Elements(sleepq) : state[p] = "SLEEPING" /\ wake[p] - TickMs <= 0}

\* timer_handler tests TIF_NEED_RESCHED, which rr_tick sets, and only for a
\* process other than idle; scheduler_enqueue of the woken does not set it.
Resched(need_resched) == curr # Idle /\ need_resched

\* irq_handler -> timer_handler: scheduler_tick, then schedule() if it asked
\* for one.  irq_handler sends the EOI after the handler has returned, which a
\* process that is switched away from does only when it runs again.
TimerIrq ==
    /\ IrqDeliverable
    /\ \E woken \in InOrderOf(sleepq, Expired),
          asleep \in InOrderOf(sleepq, Elements(sleepq) \ Expired) :
         LET busy == curr # Idle
             tick == rr_tick(rq, IF busy THEN slice[curr] ELSE TimeSlice)
             st   == [p \in Slots |-> IF p \in Expired THEN "READY" ELSE state[p]]
             sl   == [p \in Slots |-> IF p \in Expired THEN TimeSlice
                                      ELSE IF busy /\ p = curr THEN tick.slice
                                      ELSE slice[p]]
             r    == [queue      |-> rq.queue \o woken,
                      nr_running |-> rq.nr_running + Len(woken),
                      bit        |-> rq.bit \/ woken # <<>>]
         IN  /\ sleepq' = asleep
             /\ wake' = [p \in Slots |-> IF p \in Expired THEN 0
                                         ELSE IF p \in Elements(sleepq) THEN wake[p] - TickMs
                                         ELSE wake[p]]
             /\ IF Resched(tick.need_resched)
                THEN /\ schedule(st, r, sl)
                     /\ inService' = TRUE
                     /\ mode' = [p \in Slots |-> IF p = curr THEN "irq" ELSE mode[p]]
                ELSE /\ state' = st /\ slice' = sl /\ rq' = r
                     /\ UNCHANGED <<curr, inService, mode>>

\* A process preempted by TimerIrq runs again: EOI, and iretq to user mode.
IrqReturn ==
    /\ curr # Idle /\ mode[curr] = "irq"
    /\ inService' = FALSE
    /\ mode' = [mode EXCEPT ![curr] = "user"]
    /\ UNCHANGED <<state, curr, rq, slice, sleepq, wake>>

Next ==
    \/ \E c \in Slots : Fork(c)
    \/ Yield
    \/ \E ms \in SleepMs : SleepTimeout(ms)
    \/ Return
    \/ Exit
    \/ \E z \in Slots : Reap(z)
    \/ TimerIrq
    \/ IrqReturn

Spec == Init /\ [][Next]_vars

----------------------------------------------------------------------------
(* Fairness.  Kernel code runs on until it returns to user mode or gives   *)
(* the CPU away; the PIC latches an IRQ, so one that is deliverable again  *)
(* and again is delivered.  User code is not fair: it may loop for ever.   *)

KernelStep ==
    /\ curr # Idle /\ mode[curr] = "kernel"
    /\ Yield \/ Return \/ Exit \/ (\E ms \in SleepMs : SleepTimeout(ms))
             \/ (\E z \in Slots : Reap(z))

Fairness == WF_vars(KernelStep) /\ WF_vars(IrqReturn) /\ SF_vars(TimerIrq)

FairSpec == Spec /\ Fairness

----------------------------------------------------------------------------
TypeOK ==
    /\ state \in [Slots -> States]
    /\ curr \in Slots \cup {Idle}
    /\ rq \in [queue : Seq(Slots), nr_running : Nat, bit : BOOLEAN]
    /\ slice \in [Slots -> 0..TimeSlice]
    /\ sleepq \in Seq(Slots)
    /\ wake \in [Slots -> Int]
    /\ mode \in [Slots -> Modes]
    /\ inService \in BOOLEAN

\* The run queue is a list of the READY processes, each once, and the two
\* summaries of it that rr_tick and rr_pick_next trust, nr_running and the
\* bitmap, agree with it.
RunQueueOK ==
    /\ \A i, j \in DOMAIN rq.queue : rq.queue[i] = rq.queue[j] => i = j
    /\ \A p \in Slots : p \in Elements(rq.queue) <=> state[p] = "READY"
    /\ rq.nr_running = Len(rq.queue)
    /\ rq.bit <=> rq.queue # <<>>

\* The sleep queue holds exactly the SLEEPING processes, each once and with a
\* deadline that has not elapsed.
SleepQueueOK ==
    /\ \A i, j \in DOMAIN sleepq : sleepq[i] = sleepq[j] => i = j
    /\ \A p \in Slots : p \in Elements(sleepq) <=> state[p] = "SLEEPING"
    /\ \A p \in Elements(sleepq) : wake[p] > 0

\* The process the CPU executes is the one process marked RUNNING.
OneRunning == \A p \in Slots : state[p] = "RUNNING" <=> p = curr

\* Exactly one process owes the PIC an EOI while IRQ 0 is in service, and it
\* can still run and pay it; otherwise none does.
EoiOwed ==
    /\ inService <=> \E p \in Slots : mode[p] = "irq"
    /\ \A p, q \in Slots : mode[p] = "irq" /\ mode[q] = "irq" => p = q
    /\ \A p \in Slots : mode[p] = "irq" => state[p] \in {"READY", "RUNNING"}

\* A process that is about to run has a slice left.
SliceLeft == curr # Idle => slice[curr] > 0

\* The queues, the CPU, the slices and the interrupt controller agree after every tick,
\* interrupt, sleep, wake-up and switch.  It is inductive: each part needs the others.
SchedulerOK == TypeOK /\ RunQueueOK /\ SleepQueueOK /\ OneRunning /\ EoiOwed /\ SliceLeft

\* Nothing that was not in front of p in the list s is in front of it in t.
KeepsOrder(s, t) ==
    \A p \in Elements(s), q \in Slots : Before(t, q, p) => Before(s, q, p)

\* A process in the run queue is never overtaken: what was not in front of it
\* does not get in front of it, whether it was queued or joins the queue.
NoOvertaking == [][KeepsOrder(rq.queue, rq'.queue)]_vars

\* The CPU is never given to idle while a process is READY.
GoesIdleEmpty == curr # Idle /\ curr' = Idle => rq'.queue = <<>>
WorkConserving == [][GoesIdleEmpty]_vars

\* Round robin is fair between processes that let go of the CPU: if nobody,
\* idle included, keeps it for ever, every READY process gets it.  (A process stops
\* being READY only when schedule() picks it.)
FairShare ==
    (\A c \in Slots \cup {Idle} : []<>(curr # c))
        => \A p \in Slots : []<>(state[p] # "READY")

\* The sleeper that scheduler_tick wakes is a process that will run again
\* (desktop-roadmap.md lists nanosleep and poll/select timeouts as working).
WokenRuns == \A p \in Slots : state[p] = "SLEEPING" ~> curr = p

============================================================================
