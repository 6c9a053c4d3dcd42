--------------------------- MODULE ProcessProofs ---------------------------
(***************************************************************************)
(* Theorems about module Process: it implements the scheduler, its pid     *)
(* table and its family tree stay consistent, and it implements ProcLife,  *)
(* for any number of processes, any PID_MAX and any set of signals.        *)
(***************************************************************************)
EXTENDS Process, SchedulerProofs

\* Every non-empty set of numbers has a least element.  The lemmas that need it assume
\* it; Numbers, at the end of the module, proves it.
WellOrdered == \A S \in SUBSET Nat : S # {} => \E n \in S : \A m \in S : n <= m

\* Least is the least element.
LEMMA LeastIn ==
    ASSUME WellOrdered, NEW S, S \subseteq Nat, S # {}
    PROVE  Least(S) \in S /\ \A m \in S : Least(S) <= m
<1>1. \E n \in S : \A m \in S : n <= m
  BY Zenon DEF WellOrdered
<1> QED BY <1>1, Zenon DEF Least

\* alloc_pid returns a pid that names nobody.
LEMMA AllocFree ==
    ASSUME WellOrdered, alloc_pid # 0
    PROVE  alloc_pid \in Pids /\ pid_table[alloc_pid] = None
<1> DEFINE free == {n \in Pids : pid_table[n] = None}
           up   == {n \in free : n >= next_pid}
<1>1. Pids \subseteq Nat
  BY ProcessAssumption DEF Pids
<1>2. up # {} => Least(up) \in up
  BY <1>1, LeastIn, Zenon
<1>3. free # {} => Least(free) \in free
  BY <1>1, LeastIn, Zenon
<1> QED BY <1>2, <1>3 DEF alloc_pid

\* The types that PInv gives, in parts: the running process, the pids, the family,
\* the waits and the signals.
LEMMA RunTypes ==
    ASSUME PInv PROVE curr \in Slots \cup {Idle} /\ state \in [Slots -> States]
  BY Zenon DEF PInv, SchedulerOK, TypeOK

LEMMA IdTypes ==
    ASSUME PInv PROVE pid \in [Slots -> Pids \cup {0}] /\ pid_table \in [Pids -> Slots \cup {Idle, None}]
  BY Zenon DEF PInv, ProcTypeOK

LEMMA FamilyTypes ==
    ASSUME PInv PROVE parent \in [Slots -> Slots \cup {None}] /\ children \in [Slots -> Seq(Slots)]
  BY Zenon DEF PInv, ProcTypeOK

LEMMA CallTypes ==
    ASSUME PInv
    PROVE  /\ call \in [Slots -> Calls] /\ waitPid \in [Slots -> Pids \cup {AnyChild}]
           /\ exit_code \in [Slots -> Nat]
  BY Zenon DEF PInv, ProcTypeOK

LEMMA SignalTypes ==
    ASSUME PInv
    PROVE  /\ pending \in [Slots -> SUBSET Sigs] /\ blocked \in [Slots -> SUBSET Sigs]
           /\ ignored \in [Slots -> SUBSET Sigs]
  BY Zenon DEF PInv, ProcTypeOK

----------------------------------------------------------------------------
(* What the actions of the scheduler do to the life of a process.          *)

SameLives ==
    \A p \in Slots : /\ state'[p] = "FREE" <=> state[p] = "FREE"
                     /\ state'[p] = "ZOMBIE" <=> state[p] = "ZOMBIE"

\* schedule() neither starts nor ends a process.
LEMMA ScheduleLives ==
    ASSUME SchedulerOK, NEW st \in [Slots -> States], NEW r, NEW sl \in [Slots -> 0..TimeSlice],
           GoodQueue(r, Ready(st)), \A p \in Slots : st[p] = "RUNNING" => p = curr,
           schedule(st, r, sl)
    PROVE  \A p \in Slots : /\ state'[p] = "FREE" <=> st[p] = "FREE"
                            /\ state'[p] = "ZOMBIE" <=> st[p] = "ZOMBIE"
<1>1. curr \in Slots \cup {Idle}
  BY DEF SchedulerOK, TypeOK
<1>2. \A p \in Slots : \/ state'[p] = st[p]
                       \/ /\ st[p] \in {"READY", "RUNNING"}
                          /\ state'[p] \in {"READY", "RUNNING"}
  BY <1>1, ScheduleGood, Zenon DEF Ready
<1> QED BY <1>2

LEMMA YieldLives == ASSUME SchedulerOK, Yield PROVE SameLives
<1>1. GoodQueue(rq, Ready(state))
  BY InvFacts
<1>2. /\ state \in [Slots -> States] /\ slice \in [Slots -> 0..TimeSlice]
      /\ \A p \in Slots : state[p] = "RUNNING" => p = curr
  BY DEF SchedulerOK, TypeOK, OneRunning
<1>3. schedule(state, rq, slice)
  BY DEF Yield
<1> QED BY <1>1, <1>2, <1>3, ScheduleLives DEF SameLives

LEMMA SleepLives == ASSUME SchedulerOK, NEW ms, SleepTimeout(ms) PROVE SameLives
<1> DEFINE st == [state EXCEPT ![curr] = "SLEEPING"]
<1>1. /\ curr \in Slots /\ state[curr] = "RUNNING" /\ state \in [Slots -> States]
      /\ slice \in [Slots -> 0..TimeSlice] /\ GoodQueue(rq, Ready(state))
      /\ \A p \in Slots : state[p] = "RUNNING" => p = curr
  BY InvFacts DEF SleepTimeout, Executing, SchedulerOK, TypeOK, OneRunning
<1>2. curr \notin Elements(rq.queue)
  BY <1>1 DEF GoodQueue, Ready
<1>3. schedule(st, rq, slice)
  BY <1>2 DEF SleepTimeout, rr_dequeue
<1>4. /\ st \in [Slots -> States] /\ Ready(st) = Ready(state)
      /\ \A p \in Slots : st[p] = "RUNNING" => p = curr
      /\ \A p \in Slots : /\ st[p] = "FREE" <=> state[p] = "FREE"
                          /\ st[p] = "ZOMBIE" <=> state[p] = "ZOMBIE"
  BY <1>1 DEF Ready, States
<1> HIDE DEF st
<1> QED BY <1>1, <1>3, <1>4, ScheduleLives DEF SameLives

LEMMA ExitLives ==
    ASSUME SchedulerOK, Exit
    PROVE  /\ curr \in Slots /\ state[curr] = "RUNNING" /\ state'[curr] = "ZOMBIE"
           /\ \A p \in Slots : /\ state'[p] = "FREE" <=> state[p] = "FREE"
                               /\ p # curr => (state'[p] = "ZOMBIE" <=> state[p] = "ZOMBIE")
<1> DEFINE st == [state EXCEPT ![curr] = "ZOMBIE"]
<1>1. /\ curr \in Slots /\ state[curr] = "RUNNING" /\ state \in [Slots -> States]
      /\ slice \in [Slots -> 0..TimeSlice] /\ GoodQueue(rq, Ready(state))
      /\ \A p \in Slots : state[p] = "RUNNING" => p = curr
  BY InvFacts DEF Exit, Executing, SchedulerOK, TypeOK, OneRunning
<1>2. schedule(st, rq, slice)
  BY DEF Exit
<1>3. /\ st \in [Slots -> States] /\ Ready(st) = Ready(state)
      /\ \A p \in Slots : st[p] = "RUNNING" => p = curr
      /\ \A p \in Slots : st[p] = IF p = curr THEN "ZOMBIE" ELSE state[p]
  BY <1>1 DEF Ready, States
<1> HIDE DEF st
<1>4. \A p \in Slots : /\ state'[p] = "FREE" <=> st[p] = "FREE"
                       /\ state'[p] = "ZOMBIE" <=> st[p] = "ZOMBIE"
  BY <1>1, <1>2, <1>3, ScheduleLives
<1> QED BY <1>1, <1>3, <1>4

LEMMA TimerLives == ASSUME SchedulerOK, TimerIrq PROVE SameLives
<1> DEFINE tick == rr_tick(rq, IF curr # Idle THEN slice[curr] ELSE TimeSlice)
           st   == [p \in Slots |-> IF p \in Expired THEN "READY" ELSE state[p]]
           sl   == [p \in Slots |-> IF p \in Expired THEN TimeSlice
                                    ELSE IF curr # Idle /\ p = curr THEN tick.slice
                                    ELSE slice[p]]
           r(w) == [queue      |-> rq.queue \o w,
                    nr_running |-> rq.nr_running + Len(w),
                    bit        |-> rq.bit \/ w # <<>>]
<1>1. PICK woken \in InOrderOf(sleepq, Expired),
           asleep \in InOrderOf(sleepq, Elements(sleepq) \ Expired) :
        schedule(st, r(woken), sl) \/ state' = st
  BY Zenon DEF TimerIrq
<1>2. /\ st \in [Slots -> States]
      /\ GoodQueue(r(woken), Ready(st))
      /\ \A p \in Slots : st[p] = "RUNNING" <=> p = curr
      /\ \A p \in Expired : p \in Slots /\ state[p] = "SLEEPING"
  BY WakeGood, Zenon
<1>3. \A p \in Slots : /\ st[p] = "FREE" <=> state[p] = "FREE"
                       /\ st[p] = "ZOMBIE" <=> state[p] = "ZOMBIE"
  BY <1>2
<1>4. sl \in [Slots -> 0..TimeSlice]
  <2>1. /\ slice \in [Slots -> 0..TimeSlice] /\ TimeSlice \in Nat \ {0}
        /\ curr # Idle => curr \in Slots /\ slice[curr] > 0
    BY SchedulerAssumption DEF SchedulerOK, TypeOK, SliceLeft
  <2>2. curr # Idle => tick.slice \in 0..TimeSlice
    BY <2>1 DEF rr_tick
  <2> HIDE DEF tick
  <2> QED BY <2>1, <2>2
<1> HIDE DEF st, sl, r
<1> QED BY <1>1, <1>2, <1>3, <1>4, ScheduleLives DEF SameLives

----------------------------------------------------------------------------
(* The inductive invariant: PInv of module Process.                         *)

SameFree == \A p \in Slots : state'[p] = "FREE" <=> state[p] = "FREE"

LEMMA PInvInit == ProcInit => PInv
<1> SUFFICES ASSUME ProcInit PROVE PInv
  OBVIOUS
<1>1. SchedulerOK
  BY InvInit DEF ProcInit
<1>2. ProcTypeOK
  <2>1. 2 \in Pids /\ 3 \in 1..PidMax /\ AnyChild \in Pids \cup {AnyChild}
    BY ProcessAssumption DEF Pids
  <2>2. InitProc \in Slots
    BY SchedulerAssumption
  <2>3. TypeOK
    BY <1>1 DEF SchedulerOK
  <2> QED BY <2>1, <2>2, <2>3 DEF ProcInit, ProcTypeOK, Calls
<1>3. PidTableOK
  <2>1. 1 \in Pids /\ 2 \in Pids /\ Pids \subseteq Nat
    BY ProcessAssumption DEF Pids
  <2>2. InitProc \in Slots /\ Idle \notin Slots /\ None \notin Slots
    BY SchedulerAssumption, ProcessAssumption
  <2>3. \A p \in Slots : state[p] # "FREE" <=> p = InitProc
    BY <2>2 DEF ProcInit, Init
  <2> QED BY <2>1, <2>2, <2>3 DEF ProcInit, PidTableOK
<1>4. FamilyOK
  BY DEF ProcInit, FamilyOK, Elements
<1> QED BY <1>1, <1>2, <1>3, <1>4 DEF PInv

\* list_add: the new element in front of those that were there.
LEMMA ConsList ==
    ASSUME NEW S, NEW s \in Seq(S), NEW c \in S, Injective(s), c \notin Elements(s)
    PROVE  /\ <<c>> \o s \in Seq(S)
           /\ Injective(<<c>> \o s)
           /\ Elements(<<c>> \o s) = {c} \cup Elements(s)
<1> DEFINE u == <<c>>
<1>1. u \in Seq(S) /\ Injective(u) /\ Elements(u) = {c}
  BY DEF Injective, Elements
<1> HIDE DEF u
<1>2. Elements(u) \cap Elements(s) = {}
  BY <1>1
<1>3. u \o s \in Seq(S) /\ Injective(u \o s) /\ Elements(u \o s) = {c} \cup Elements(s)
  BY <1>1, <1>2, ConcatList
<1> QED BY <1>3 DEF u

\* The process that do_wait reaps is a terminated child of the waiter.
LEMMA ZombieFacts ==
    ASSUME WellOrdered, PInv, NEW k, curr \in Slots, Zombies(k) # {}
    PROVE  LET z == children[curr][Least(Zombies(k))]
           IN  z \in Slots /\ z \in Elements(children[curr]) /\ state[z] = "ZOMBIE"
<1> DEFINE i == Least(Zombies(k))
<1>1. children[curr] \in Seq(Slots)
  BY DEF PInv, ProcTypeOK
<1>2. i \in Zombies(k)
  <2>1. Zombies(k) \subseteq Nat
    BY <1>1 DEF Zombies
  <2> QED BY <2>1, LeastIn
<1> HIDE DEF i
<1>3. i \in DOMAIN children[curr] /\ state[children[curr][i]] = "ZOMBIE"
  BY <1>2 DEF Zombies
<1>4. children[curr][i] \in Slots /\ children[curr][i] \in Elements(children[curr])
  BY <1>1, <1>3, SMTT(30) DEF Elements
<1> QED BY <1>3, <1>4 DEF i

\* Every step keeps the invariant and is a step of the scheduler.
LEMMA PInvNext == WellOrdered /\ PInv /\ [ProcNext]_allvars => PInv' /\ [Next]_vars

\* A step that starts and reaps nobody and leaves pids and family alone keeps
\* both consistent.
<1>QuietStep. ASSUME PInv, UNCHANGED <<ids, family>>, SameFree
    PROVE  PidTableOK' /\ FamilyOK'
  <2> USE <1>QuietStep
  <2>1. UNCHANGED <<pid, pid_table, parent, children>>
    BY DEF ids, family
  <2>2. PidTableOK'
    BY <2>1, Zenon DEF PInv, PidTableOK, SameFree
  <2>3. FamilyOK'
    <3> SUFFICES ASSUME NEW p \in Slots, NEW c \in Elements(children[p])
                 PROVE  state'[c] # "FREE" /\ parent[c] = p
      BY <2>1 DEF FamilyOK, PInv
    <3>1. c \in Slots
      BY DEF PInv, ProcTypeOK, Elements
    <3> QED BY <3>1 DEF PInv, FamilyOK, SameFree
  <2> QED BY <2>2, <2>3
\* The same for a step that the scheduler allows.
<1>QuietInv. ASSUME PInv, [Next]_vars, UNCHANGED <<ids, family>>, SameFree,
           exit_code' \in [Slots -> Nat], call' \in [Slots -> Calls],
           waitPid' \in [Slots -> Pids \cup {AnyChild}], UNCHANGED reaped,
           pending' \in [Slots -> SUBSET Sigs],
           blocked' \in [Slots -> SUBSET Sigs], ignored' \in [Slots -> SUBSET Sigs]
    PROVE  PInv'
  <2> USE <1>QuietInv
  <2>1. SchedulerOK'
    BY InvNext DEF PInv
  <2>2. PidTableOK' /\ FamilyOK'
    BY <1>QuietStep
  <2>3. ProcTypeOK'
    <3>1. TypeOK'
      BY <2>1 DEF SchedulerOK
    <3> QED BY <3>1 DEF ProcTypeOK, PInv, ids, family
  <2> QED BY <2>1, <2>2, <2>3 DEF PInv
<1>SchedYieldInv. ASSUME PInv, sys_sched_yield PROVE PInv' /\ [Next]_vars
  <2> USE <1>SchedYieldInv
  <2>1. Yield /\ UNCHANGED <<ids, family, waitPid, reaped, signals, exit_code>>
    BY DEF sys_sched_yield
  <2>2. SameFree
    BY <2>1, YieldLives DEF PInv, SameFree, SameLives
  <2>3. call' \in [Slots -> Calls]
    BY Zenon DEF sys_sched_yield, Enter, PInv, ProcTypeOK, Calls
  <2>4. [Next]_vars
    BY <2>1 DEF Next
  <2> QED BY <2>1, <2>2, <2>3, <2>4, <1>QuietInv, CallTypes, SignalTypes, Zenon DEF signals
<1>NanosleepInv. ASSUME PInv, NEW ms \in SleepMs, sys_nanosleep(ms) PROVE PInv' /\ [Next]_vars
  <2> USE <1>NanosleepInv
  <2>1. SleepTimeout(ms) /\ UNCHANGED <<ids, family, waitPid, reaped, signals, exit_code>>
    BY DEF sys_nanosleep
  <2>2. SameFree
    BY <2>1, SleepLives DEF PInv, SameFree, SameLives
  <2>3. call' \in [Slots -> Calls]
    BY Zenon DEF sys_nanosleep, Enter, PInv, ProcTypeOK, Calls
  <2>4. [Next]_vars
    BY <2>1 DEF Next
  <2> QED BY <2>1, <2>2, <2>3, <2>4, <1>QuietInv, CallTypes, SignalTypes, Zenon DEF signals
<1>PollInv. ASSUME PInv, poll_again PROVE PInv' /\ [Next]_vars
  <2> USE <1>PollInv
  <2>1. /\ Yield \/ SleepTimeout(1)
        /\ UNCHANGED <<ids, family, waitPid, reaped, signals, exit_code>>
    BY DEF poll_again
  <2>2. SameFree
    BY <2>1, YieldLives, SleepLives DEF PInv, SameFree, SameLives
  <2>3. call' \in [Slots -> Calls]
    BY Zenon DEF poll_again, Enter, PInv, ProcTypeOK, Calls
  <2>4. [Next]_vars
    BY <2>1, ProcessAssumption DEF Next
  <2> QED BY <2>1, <2>2, <2>3, <2>4, <1>QuietInv, CallTypes, SignalTypes DEF signals
<1>ReturnProcInv. ASSUME PInv, syscall_return PROVE PInv' /\ [Next]_vars
  <2> USE <1>ReturnProcInv
  <2>1. Return /\ UNCHANGED <<ids, family, waitPid, reaped, signals, exit_code>>
    BY DEF syscall_return
  <2>2. SameFree
    BY <2>1 DEF Return, SameFree
  <2>3. call' \in [Slots -> Calls]
    BY Zenon DEF syscall_return, Enter, PInv, ProcTypeOK, Calls
  <2>4. [Next]_vars
    BY <2>1 DEF Next
  <2> QED BY <2>1, <2>2, <2>3, <2>4, <1>QuietInv, CallTypes, SignalTypes, Zenon DEF signals
\* Steps that leave the scheduler and everything but signals alone.
<1>SignalInv. ASSUME PInv, UNCHANGED <<vars, ids, family, waits, exit_code>>,
           pending' \in [Slots -> SUBSET Sigs],
           blocked' \in [Slots -> SUBSET Sigs], ignored' \in [Slots -> SUBSET Sigs]
    PROVE  PInv' /\ [Next]_vars
  <2> USE <1>SignalInv
  <2>1. SameFree /\ UNCHANGED <<call, waitPid, reaped>>
    BY DEF vars, SameFree, waits
  <2> QED BY <2>1, <1>QuietInv, CallTypes
\* do_exit, with whatever it does to the pending signals.
<1>ExitProcInv. ASSUME PInv, NEW code \in Nat, do_exit(code),
           pending' \in [Slots -> SUBSET Sigs],
           blocked' \in [Slots -> SUBSET Sigs], ignored' \in [Slots -> SUBSET Sigs]
    PROVE  PInv' /\ [Next]_vars
  <2> USE <1>ExitProcInv
  <2>1. Exit /\ UNCHANGED <<ids, family, waitPid, reaped>>
    BY DEF do_exit
  <2>2. SameFree
    BY <2>1, ExitLives DEF PInv, SameFree
  <2>3. call' \in [Slots -> Calls] /\ exit_code' \in [Slots -> Nat]
    BY CallTypes, Zenon DEF do_exit, Enter, Calls
  <2>4. [Next]_vars
    BY <2>1 DEF Next
  <2> QED BY <2>1, <2>2, <2>3, <2>4, <1>QuietInv, CallTypes, Zenon
<1>SysExitInv. ASSUME PInv, NEW code \in Codes, sys_exit(code) PROVE PInv' /\ [Next]_vars
  <2> USE <1>SysExitInv
  <2>1. CASE do_exit(code) /\ UNCHANGED signals
    <3>1. code \in Nat
      BY ProcessAssumption
    <3> QED BY <2>1, <3>1, <1>ExitProcInv, SignalTypes, Zenon DEF signals
  <2>2. CASE UNCHANGED allvars
    BY <2>2, <1>SignalInv, SignalTypes DEF allvars, procvars, signals
  <2> QED BY <2>1, <2>2 DEF sys_exit
<1>DeliverInv. ASSUME WellOrdered, PInv, NEW pend \in SUBSET Sigs, do_signal_deliver(pend)
    PROVE  PInv' /\ [Next]_vars
  <2> USE <1>DeliverInv
  <2> DEFINE deliverable == pend \ blocked[curr]
             fatal       == deliverable \ ignored[curr]
  <2>1. UNCHANGED <<blocked, ignored>>
    BY DEF do_signal_deliver
  <2>2. pending' \in [Slots -> SUBSET Sigs]
    <3>1. PICK S \in SUBSET Sigs : pending' = [pending EXCEPT ![curr] = S]
      BY DEF do_signal_deliver
    <3> QED BY <3>1, SignalTypes, Zenon
  <2>3. Sigs \subseteq Nat
    BY ProcessAssumption
  <2>4. \/ \E code \in Nat : do_exit(code)
        \/ UNCHANGED <<vars, ids, family, waits, exit_code>>
    <3>1. CASE SIGINT \in pend
      <4>1. do_exit(128 + SIGINT)
        BY <3>1 DEF do_signal_deliver
      <4>2. 128 + SIGINT \in Nat
        BY DEF SIGINT
      <4> QED BY <4>1, <4>2
    <3>2. CASE SIGINT \notin pend /\ fatal # {}
      <4>1. do_exit(128 + Least(fatal))
        BY <3>2 DEF do_signal_deliver
      <4>2. Least(fatal) \in Nat
        BY <2>3, <3>2, LeastIn, Zenon
      <4>3. 128 + Least(fatal) \in Nat
        <5> HIDE DEF fatal
        <5> QED BY <4>2
      <4> QED BY <4>1, <4>3
    <3>3. CASE SIGINT \notin pend /\ fatal = {}
      BY <3>3 DEF do_signal_deliver
    <3> QED BY <3>1, <3>2, <3>3
  <2> QED BY <2>1, <2>2, <2>4, <1>ExitProcInv, <1>SignalInv, SignalTypes, Zenon
<1>KillInv. ASSUME WellOrdered, PInv, NEW n \in Pids \cup {0}, NEW sig \in Sigs, do_kill(n, sig)
    PROVE  PInv' /\ [Next]_vars
  <2> USE <1>KillInv
  <2> DEFINE target == IF n \in {0, pid[curr]} THEN curr ELSE pid_table[n]
  <2>1. target \in Slots
    BY DEF do_kill
  <2>2. CASE target = curr
    <3>1. do_signal_deliver(pending[curr] \cup {sig})
      BY <2>2 DEF do_kill
    <3>2. pending[curr] \cup {sig} \in SUBSET Sigs
      BY <2>1, <2>2, SignalTypes
    <3> QED BY <3>1, <3>2, <1>DeliverInv
  <2>3. CASE target # curr
    <3>1. /\ pending' = [pending EXCEPT ![target] = @ \cup {sig}]
          /\ UNCHANGED <<vars, ids, family, waits, blocked, ignored, exit_code>>
      BY <2>3 DEF do_kill
    <3> HIDE DEF target
    <3>2. pending' \in [Slots -> SUBSET Sigs]
      BY <2>1, <3>1, SignalTypes, Zenon
    <3> QED BY <3>1, <3>2, <1>SignalInv, SignalTypes, Zenon
  <2> QED BY <2>2, <2>3
<1>CtrlcInv. ASSUME WellOrdered, PInv, handle_ctrlc PROVE PInv' /\ [Next]_vars
  <2> USE <1>CtrlcInv
  <2>1. curr \in Slots
    BY DEF handle_ctrlc, InCall, PInv, SchedulerOK, TypeOK
  <2>2. PICK sig \in Sigs \cap {SIGINT} : do_signal_deliver(pending[curr] \cup {sig})
    BY DEF handle_ctrlc
  <2>3. pending[curr] \cup {sig} \in SUBSET Sigs
    BY <2>1, SignalTypes
  <2> QED BY <2>2, <2>3, <1>DeliverInv
<1>SigprocmaskInv. ASSUME PInv, NEW set \in Masks, sys_rt_sigprocmask(set) PROVE PInv' /\ [Next]_vars
  <2> USE <1>SigprocmaskInv
  <2>1. blocked' \in [Slots -> SUBSET Sigs]
    BY ProcessAssumption, SignalTypes, Zenon DEF sys_rt_sigprocmask
  <2> QED BY <2>1, <1>SignalInv, SignalTypes, Zenon DEF sys_rt_sigprocmask
<1>SigactionInv. ASSUME PInv, NEW sig \in Ignorable, sys_rt_sigaction(sig) PROVE PInv' /\ [Next]_vars
  <2> USE <1>SigactionInv
  <2>1. curr \in Slots /\ sig \in Sigs
    BY ProcessAssumption, RunTypes, Zenon DEF sys_rt_sigaction, InUser
  <2>2. ignored' \in [Slots -> SUBSET Sigs]
    BY <2>1, SignalTypes DEF sys_rt_sigaction
  <2> QED BY <2>2, <1>SignalInv, SignalTypes DEF sys_rt_sigaction
<1>InterruptInv. ASSUME PInv, timer_handler \/ irq_return PROVE PInv' /\ [Next]_vars
  <2> USE <1>InterruptInv
  <2>1. UNCHANGED procvars /\ (TimerIrq \/ IrqReturn)
    BY DEF timer_handler, irq_return
  <2>2. SameFree
    BY <2>1, TimerLives DEF PInv, SameLives, SameFree, IrqReturn
  <2>3. [Next]_vars
    BY <2>1 DEF Next
  <2> QED BY <2>1, <2>2, <2>3, <1>QuietInv, CallTypes, SignalTypes DEF procvars, waits, signals
<1>ForkFailInv. ASSUME WellOrdered, PInv, fork_fail PROVE PInv' /\ [Next]_vars
  <2> USE <1>ForkFailInv
  <2>1. alloc_pid \in Pids
    BY AllocFree DEF fork_fail
  <2>2. next_pid' \in 1..PidMax
    BY <2>1, ProcessAssumption DEF fork_fail, Pids
  <2>3. UNCHANGED <<vars, pid, pid_table, parent, children, call, waitPid, reaped, pending,
                    blocked, ignored, exit_code>>
    BY DEF fork_fail, family, waits, signals
  <2>4. SchedulerOK'
    BY <2>3, InvNext DEF PInv
  <2>5. TypeOK' /\ state' = state
    BY <2>3, <2>4, Zenon DEF SchedulerOK, vars
  <2>6. ProcTypeOK'
    BY <2>2, <2>3, <2>5, Zenon DEF PInv, ProcTypeOK
  <2>7. PidTableOK'
    BY <2>3, <2>5, Zenon DEF PInv, PidTableOK
  <2>8. FamilyOK'
    BY <2>3, <2>5, Zenon DEF PInv, FamilyOK
  <2> QED BY <2>3, <2>4, <2>6, <2>7, <2>8 DEF PInv
<1>ForkProcInv. ASSUME WellOrdered, PInv, NEW c \in Slots, NEW clone_parent \in BOOLEAN, do_fork(c, clone_parent)
    PROVE  PInv' /\ [Next]_vars
  <2> USE <1>ForkProcInv
  <2> DEFINE n   == alloc_pid
             par == IF clone_parent THEN parent[curr] ELSE curr
             new == [children EXCEPT ![c] = <<>>]
  <2>1. /\ n # 0 /\ Fork(c)
        /\ pid' = [pid EXCEPT ![c] = n]
        /\ pid_table' = [pid_table EXCEPT ![n] = c]
        /\ next_pid' = n + 1
        /\ parent' = [parent EXCEPT ![c] = par]
        /\ children' = IF par = None THEN new ELSE [new EXCEPT ![par] = <<c>> \o @]
        /\ UNCHANGED <<waitPid, reaped>>
    BY DEF do_fork
  <2>2. n \in Pids /\ pid_table[n] = None
    BY <2>1, AllocFree
  <2>3. curr \in Slots /\ state[c] = "FREE" /\ state' = [state EXCEPT ![c] = "READY"]
    BY <2>1, RunTypes, Zenon DEF Fork, Executing
  <2>4. par \in Slots \cup {None}
    BY <2>3, FamilyTypes, Zenon
  <2>5. [Next]_vars
    BY <2>1, Zenon DEF Next
  <2>6. SchedulerOK'
    BY <2>5, InvNext DEF PInv
  <2>7. \A p \in Slots : state'[p] = IF p = c THEN "READY" ELSE state[p]
    BY <2>3, RunTypes
  <2> HIDE DEF n, par
  <2>8. /\ new \in [Slots -> Seq(Slots)]
        /\ \A p \in Slots : /\ Injective(new[p]) /\ c \notin Elements(new[p])
                            /\ Elements(new[p]) \subseteq Slots
                            /\ \A x \in Elements(new[p]) : state[x] # "FREE" /\ parent[x] = p
    <3>1. <<>> \in Seq(Slots) /\ Injective(<<>>) /\ Elements(<<>>) = {}
      BY DEF Injective, Elements
    <3>2. new \in [Slots -> Seq(Slots)] /\ \A p \in Slots : new[p] = IF p = c THEN <<>> ELSE children[p]
      BY <3>1, FamilyTypes
    <3> HIDE DEF new
    <3> SUFFICES ASSUME NEW p \in Slots, p # c
                 PROVE  /\ Injective(new[p]) /\ c \notin Elements(new[p])
                        /\ Elements(new[p]) \subseteq Slots
                        /\ \A x \in Elements(new[p]) : state[x] # "FREE" /\ parent[x] = p
      BY <3>1, <3>2
    <3>3. new[p] = children[p] /\ children[p] \in Seq(Slots)
      BY <3>2, Zenon
    <3>4. Injective(children[p]) /\ Elements(children[p]) \subseteq Slots
      BY <3>3 DEF PInv, FamilyOK, Injective, Elements
    <3>5. \A x \in Elements(children[p]) : state[x] # "FREE" /\ parent[x] = p
      BY DEF PInv, FamilyOK
    <3> QED BY <2>3, <3>3, <3>4, <3>5
  <2> HIDE DEF new
  <2>9. /\ children' \in [Slots -> Seq(Slots)]
        /\ \A p \in Slots : /\ Injective(children'[p])
                            /\ Elements(children'[p]) =
                                  IF p = par THEN {c} \cup Elements(new[p]) ELSE Elements(new[p])
    <3>1. CASE par = None
      BY <2>1, <2>8, <3>1, ProcessAssumption
    <3>2. CASE par \in Slots
      <4>1. /\ <<c>> \o new[par] \in Seq(Slots)
            /\ Injective(<<c>> \o new[par])
            /\ Elements(<<c>> \o new[par]) = {c} \cup Elements(new[par])
        BY <2>8, <3>2, ConsList
      <4>2. children' = [new EXCEPT ![par] = <<c>> \o new[par]]
        BY <2>1, <3>2, ProcessAssumption
      <4>3. /\ children' \in [Slots -> Seq(Slots)]
            /\ \A p \in Slots : children'[p] = IF p = par THEN <<c>> \o new[par] ELSE new[p]
        BY <2>8, <3>2, <4>1, <4>2
      <4> QED BY <2>8, <4>1, <4>3, Zenon
    <3> QED BY <2>4, <3>1, <3>2, Zenon
  <2>10. FamilyOK'
    <3>1. \A x \in Slots : parent'[x] = IF x = c THEN par ELSE parent[x]
      BY <2>1, FamilyTypes, Zenon
    <3>2. \A p \in Slots : \A x \in Elements(children'[p]) : state'[x] # "FREE" /\ parent'[x] = p
      BY <2>7, <2>8, <2>9, <3>1, ZenonT(30)
    <3>3. \A p \in Slots : \A i, j \in DOMAIN children'[p] :
              children'[p][i] = children'[p][j] => i = j
      BY <2>9 DEF Injective
    <3> QED BY <3>2, <3>3 DEF FamilyOK
  <2>11. PidTableOK'
    <3>1. /\ \A p \in Slots : pid'[p] = IF p = c THEN n ELSE pid[p]
          /\ \A m \in Pids : pid_table'[m] = IF m = n THEN c ELSE pid_table[m]
      BY <2>1, <2>2, IdTypes, Zenon
    <3>2. None \notin Slots /\ None # Idle /\ 1 \in Pids
      BY ProcessAssumption DEF Pids
    <3>3. /\ pid_table[1] = Idle
          /\ \A p \in Slots : state[p] # "FREE" => pid[p] \in Pids /\ pid_table[pid[p]] = p
          /\ \A m \in Pids : pid_table[m] \in Slots =>
                 state[pid_table[m]] # "FREE" /\ pid[pid_table[m]] = m
      BY DEF PInv, PidTableOK
    <3>4. pid_table'[1] = Idle
      BY <2>2, <3>1, <3>2, <3>3
    <3>5. \A p \in Slots : state'[p] # "FREE" => pid'[p] \in Pids /\ pid_table'[pid'[p]] = p
      BY <2>2, <2>7, <3>1, <3>2, <3>3, SMTT(30)
    <3>6. \A m \in Pids : pid_table'[m] \in Slots =>
                 state'[pid_table'[m]] # "FREE" /\ pid'[pid_table'[m]] = m
      BY <2>2, <2>3, <2>7, <3>1, <3>2, <3>3
    <3> QED BY <3>4, <3>5, <3>6 DEF PidTableOK
  <2>12. ProcTypeOK'
    <3>1. TypeOK'
      BY <2>6 DEF SchedulerOK
    <3>2. next_pid' \in 1..PidMax
      BY <2>1, <2>2, ProcessAssumption DEF Pids
    <3>3. /\ pid' \in [Slots -> Pids \cup {0}]
          /\ pid_table' \in [Pids -> Slots \cup {Idle, None}]
          /\ parent' \in [Slots -> Slots \cup {None}]
      BY <2>1, <2>2, <2>4, IdTypes, FamilyTypes, Zenon
    <3>4. /\ exit_code' \in [Slots -> Nat] /\ call' \in [Slots -> Calls]
          /\ pending' \in [Slots -> SUBSET Sigs]
          /\ blocked' \in [Slots -> SUBSET Sigs] /\ ignored' \in [Slots -> SUBSET Sigs]
      BY <2>3, CallTypes, SignalTypes, Zenon DEF do_fork, Calls
    <3> QED BY <2>1, <2>9, <3>1, <3>2, <3>3, <3>4, Zenon DEF ProcTypeOK, PInv
  <2> QED BY <2>5, <2>6, <2>10, <2>11, <2>12, SMTT(30) DEF PInv
<1>WaitInv. ASSUME WellOrdered, PInv, NEW k \in Pids \cup {AnyChild}, NEW nohang \in BOOLEAN,
           wait_loop(k, nohang), curr \in Slots
    PROVE  PInv' /\ [Next]_vars
  <2> USE <1>WaitInv
  <2>1. CASE UNCHANGED allvars
    BY <2>1, <1>SignalInv, SignalTypes DEF allvars, procvars, signals
  <2>2. CASE /\ Yield /\ Enter("wait")
             /\ waitPid' = [waitPid EXCEPT ![curr] = k]
             /\ UNCHANGED <<ids, family, reaped, signals, exit_code>>
    <3>1. SameFree
      BY <2>2, YieldLives DEF PInv, SameFree, SameLives
    <3>2. call' \in [Slots -> Calls] /\ waitPid' \in [Slots -> Pids \cup {AnyChild}]
      BY <2>2, CallTypes, Zenon DEF Enter, Calls
    <3>3. [Next]_vars
      BY <2>2 DEF Next
    <3> QED BY <2>2, <3>1, <3>2, <3>3, <1>QuietInv, CallTypes, SignalTypes, Zenon DEF signals
  <2>3. CASE /\ Zombies(k) # {}
             /\ LET z == children[curr][Least(Zombies(k))]
                IN  /\ process_destroy(z)
                    /\ reaped' = [pid |-> pid[z], status |-> exit_code[z] * 256]
             /\ Enter("none")
             /\ waitPid' = [waitPid EXCEPT ![curr] = AnyChild]
             /\ UNCHANGED <<pid, next_pid, parent>>
    <3> DEFINE z == children[curr][Least(Zombies(k))]
               s == children[curr]
    <3>1. s \in Seq(Slots)
      BY FamilyTypes, Zenon
    <3>3. z \in Slots /\ z \in Elements(s) /\ state[z] = "ZOMBIE"
      BY <2>3, ZombieFacts, Zenon
    <3> HIDE DEF z
    <3>4. parent[z] = curr /\ Injective(s)
      BY <3>3, Zenon DEF PInv, FamilyOK, Injective
    <3>5. /\ Reap(z)
          /\ pid_table' = [pid_table EXCEPT ![pid[z]] = None]
          /\ children' = [children EXCEPT ![curr] = Unlink(s, z)]
          /\ Wipe(z)
          /\ reaped' = [pid |-> pid[z], status |-> exit_code[z] * 256]
      BY <2>3, Zenon DEF process_destroy, z
    <3>6. /\ state' = [state EXCEPT ![z] = "FREE"]
          /\ \A p \in Slots : state'[p] = IF p = z THEN "FREE" ELSE state[p]
      BY <3>5, RunTypes, Zenon DEF Reap
    <3>7. [Next]_vars
      BY <3>3, <3>5, Zenon DEF Next
    <3>8. SchedulerOK'
      BY <3>7, InvNext DEF PInv
    <3>9. Unlink(s, z) \in Seq(Slots) /\ Injective(Unlink(s, z)) /\ Elements(Unlink(s, z)) = Elements(s) \ {z}
      BY <3>1, <3>3, <3>4, UnlinkList, Zenon
    <3>10. /\ children' \in [Slots -> Seq(Slots)]
           /\ \A p \in Slots : children'[p] = IF p = curr THEN Unlink(s, z) ELSE children[p]
      BY <3>5, <3>9, FamilyTypes, Zenon
    <3>11. FamilyOK'
      <4>1. \A p \in Slots : \A x \in Elements(children[p]) :
                x \in Slots /\ state[x] # "FREE" /\ parent[x] = p
        BY IdTypes, FamilyTypes DEF PInv, FamilyOK, Elements
      <4>2. \A p \in Slots : Elements(children'[p]) = Elements(children[p]) \ {z}
        BY <3>4, <3>9, <3>10, <4>1
      <4>3. \A p \in Slots : Injective(children'[p])
        BY <3>9, <3>10, Zenon DEF PInv, FamilyOK, Injective
      <4>4. parent' = parent
        BY <2>3, Zenon
      <4>5. \A p \in Slots : \A x \in Elements(children'[p]) : state'[x] # "FREE" /\ parent'[x] = p
        <5> SUFFICES ASSUME NEW p \in Slots, NEW x \in Elements(children'[p])
                     PROVE  state'[x] # "FREE" /\ parent'[x] = p
          OBVIOUS
        <5>1. x \in Elements(children[p]) /\ x # z
          BY <4>2
        <5>2. x \in Slots /\ state[x] # "FREE" /\ parent[x] = p
          BY <4>1, <5>1
        <5> QED BY <3>6, <4>4, <5>1, <5>2
      <4> QED BY <4>3, <4>5, Zenon DEF FamilyOK, Injective
    <3>12. pid[z] \in Pids /\ pid_table[pid[z]] = z
      BY <3>3 DEF PInv, PidTableOK
    <3>13. PidTableOK'
      <4>1. /\ pid_table[1] = Idle
            /\ \A p \in Slots : state[p] # "FREE" => pid[p] \in Pids /\ pid_table[pid[p]] = p
            /\ \A m \in Pids : pid_table[m] \in Slots =>
                   state[pid_table[m]] # "FREE" /\ pid[pid_table[m]] = m
        BY DEF PInv, PidTableOK
      <4>2. /\ pid' = pid
            /\ \A m \in Pids : pid_table'[m] = IF m = pid[z] THEN None ELSE pid_table[m]
        BY <2>3, <3>5, <3>12, IdTypes, Zenon
      <4>3. None \notin Slots /\ None # Idle /\ Idle \notin Slots /\ 1 \in Pids
        BY ProcessAssumption, SchedulerAssumption DEF Pids
      <4>4. pid_table'[1] = Idle
        BY <3>3, <3>12, <4>1, <4>2, <4>3, SMTT(30)
      <4>5. \A p \in Slots : state'[p] # "FREE" => pid'[p] \in Pids /\ pid_table'[pid'[p]] = p
        BY <3>6, <3>12, <4>1, <4>2, SMTT(30)
      <4>6. \A m \in Pids : pid_table'[m] \in Slots =>
                   state'[pid_table'[m]] # "FREE" /\ pid'[pid_table'[m]] = m
        BY <3>6, <3>12, <4>1, <4>2, <4>3, SMTT(30)
      <4> QED BY <4>4, <4>5, <4>6 DEF PidTableOK
    <3>14. ProcTypeOK'
      <4>1. TypeOK'
        BY <3>8 DEF SchedulerOK
      <4>2. exit_code[z] \in Nat
        BY <3>3, CallTypes, Zenon
      <4>3. reaped' \in [pid : Pids \cup {0}, status : Nat]
        <5>1. exit_code[z] * 256 \in Nat
          BY <4>2
        <5> QED BY <3>5, <3>12, <5>1, Zenon
      <4>4. /\ exit_code' \in [Slots -> Nat]
            /\ pending' \in [Slots -> SUBSET Sigs]
            /\ blocked' \in [Slots -> SUBSET Sigs] /\ ignored' \in [Slots -> SUBSET Sigs]
        BY <3>3, <3>5, CallTypes, SignalTypes, Zenon DEF Wipe
      <4>5. call' \in [Slots -> Calls] /\ waitPid' \in [Slots -> Pids \cup {AnyChild}]
        BY <2>3, CallTypes, Zenon DEF Enter, Calls
      <4>6. pid_table' \in [Pids -> Slots \cup {Idle, None}]
        BY <3>5, IdTypes, Zenon
      <4> QED BY <2>3, <3>10, <4>1, <4>3, <4>4, <4>5, <4>6, Zenon DEF ProcTypeOK, PInv
    <3> QED BY <3>7, <3>8, <3>11, <3>13, <3>14 DEF PInv
  <2> QED BY <2>1, <2>2, <2>3, Zenon DEF wait_loop
<1> SUFFICES ASSUME WellOrdered, PInv, [ProcNext]_allvars PROVE PInv' /\ [Next]_vars
  BY SMTT(30)
<1>1. CASE UNCHANGED allvars
  BY <1>1, <1>SignalInv, SignalTypes, Zenon DEF allvars, procvars, signals
<1>2. ASSUME NEW c \in Slots, NEW clone_parent \in BOOLEAN, do_fork(c, clone_parent)
      PROVE  PInv' /\ [Next]_vars
  BY <1>2, <1>ForkProcInv
<1>3. CASE fork_fail
  BY <1>3, <1>ForkFailInv
<1>4. CASE sys_sched_yield \/ poll_again \/ syscall_return
  BY <1>4, <1>SchedYieldInv, <1>PollInv, <1>ReturnProcInv
<1>5. ASSUME NEW ms \in SleepMs, sys_nanosleep(ms) PROVE PInv' /\ [Next]_vars
  BY <1>5, <1>NanosleepInv
<1>6. ASSUME NEW code \in Codes, sys_exit(code) PROVE PInv' /\ [Next]_vars
  BY <1>6, <1>SysExitInv
<1>7. ASSUME NEW k \in WaitArgs, NEW nohang \in BOOLEAN, sys_wait4(k, nohang)
      PROVE  PInv' /\ [Next]_vars
  <2>1. curr \in Slots /\ k \in Pids \cup {AnyChild}
    BY <1>7, ProcessAssumption, RunTypes, Zenon DEF sys_wait4, InUser, Pids, AnyChild
  <2> QED BY <1>7, <2>1, <1>WaitInv DEF sys_wait4
<1>8. CASE wait_again
  <2>1. curr \in Slots /\ waitPid[curr] \in Pids \cup {AnyChild}
    BY <1>8, RunTypes, CallTypes DEF wait_again, InCall
  <2> QED BY <1>8, <2>1, <1>WaitInv, ZenonT(30) DEF wait_again
<1>9. ASSUME NEW k \in Pids \cup {0}, NEW sig \in Sigs, do_kill(k, sig) PROVE PInv' /\ [Next]_vars
  BY <1>9, <1>KillInv
<1>10. CASE handle_ctrlc
  BY <1>10, <1>CtrlcInv
<1>11. ASSUME NEW set \in Masks, sys_rt_sigprocmask(set) PROVE PInv' /\ [Next]_vars
  BY <1>11, <1>SigprocmaskInv
<1>12. ASSUME NEW sig \in Ignorable, sys_rt_sigaction(sig) PROVE PInv' /\ [Next]_vars
  BY <1>12, <1>SigactionInv
<1>13. CASE timer_handler \/ irq_return
  BY <1>13, <1>InterruptInv
<1> QED BY <1>1, <1>2, <1>3, <1>4, <1>5, <1>6, <1>7, <1>8, <1>9, <1>10, <1>11, <1>12, <1>13, Zenon
        DEF ProcNext

----------------------------------------------------------------------------
(* A process inside wait4 has a child.                                     *)

\* What WaitHasChild says of one process.
WaitsRightly(p) ==
    state[p] # "FREE" =>
        /\ call[p] = "wait" => children[p] # <<>>
        /\ call[p] # "none" => mode[p] = "kernel" /\ state[p] # "ZOMBIE"

\* A step leaves call, mode and life of p alone, and p with a child if it had one.
Untouched(p) ==
    /\ call'[p] = call[p] /\ mode'[p] = mode[p]
    /\ children'[p] = <<>> => children[p] = <<>>
    /\ state'[p] = "FREE" <=> state[p] = "FREE"
    /\ state'[p] = "ZOMBIE" <=> state[p] = "ZOMBIE"

LEMMA WaitNext == WellOrdered /\ PInv /\ WaitHasChild /\ [ProcNext]_allvars => WaitHasChild'

\* A step keeps the property if it touches only processes that have left their
\* system call when it is over, or are inside one as they should.
<1>WaitStep. ASSUME WaitHasChild,
           \A p \in Slots : Untouched(p) \/ call'[p] = "none" \/ state'[p] = "FREE"
                            \/ /\ mode'[p] = "kernel" /\ state'[p] # "ZOMBIE"
                               /\ call'[p] = "wait" => children'[p] # <<>>
    PROVE  WaitHasChild'
  <2> USE <1>WaitStep
  <2>1. ASSUME NEW p \in Slots PROVE WaitsRightly(p)'
    <3>1. WaitsRightly(p)
      BY DEF WaitHasChild, WaitsRightly
    <3>2. CASE Untouched(p)
      BY <3>1, <3>2, Zenon DEF WaitsRightly, Untouched
    <3>3. CASE call'[p] = "none" \/ state'[p] = "FREE"
      BY <3>3 DEF WaitsRightly
    <3>4. CASE /\ mode'[p] = "kernel" /\ state'[p] # "ZOMBIE"
               /\ call'[p] = "wait" => children'[p] # <<>>
      BY <3>4, SMTT(30) DEF WaitsRightly
    <3> QED BY <3>2, <3>3, <3>4
  <2> QED BY <2>1, SMTT(30) DEF WaitHasChild, WaitsRightly
\* The current process gives the CPU away inside the system call k.
<1>EnterWaits. ASSUME PInv, WaitHasChild, curr \in Slots, SameLives, children' = children,
           NEW k, Enter(k), k = "wait" => children[curr] # <<>>,
           mode' = [mode EXCEPT ![curr] = "kernel"]
    PROVE  WaitHasChild'
  <2> USE <1>EnterWaits
  <2>1. state'[curr] # "ZOMBIE"
    BY SMTT(30) DEF PInv, SchedulerOK, OneRunning, SameLives
  <2>2. \A p \in Slots : /\ call'[p] = IF p = curr THEN k ELSE call[p]
                         /\ mode'[p] = IF p = curr THEN "kernel" ELSE mode[p]
    BY Zenon DEF Enter, PInv, SchedulerOK, TypeOK, ProcTypeOK
  <2>3. \A p \in Slots : p # curr => Untouched(p)
    BY <2>2, SMTT(30) DEF Untouched, SameLives
  <2> QED BY <2>1, <2>2, <2>3, <1>WaitStep
\* A step that touches neither calls nor the family nor the scheduler.
<1>StillWaits. ASSUME WaitHasChild, UNCHANGED <<vars, call, children>> PROVE WaitHasChild'
  <2>1. state' = state /\ mode' = mode /\ call' = call /\ children' = children
    BY <1>StillWaits DEF vars
  <2> QED BY <1>StillWaits, <2>1, Zenon DEF WaitHasChild
<1>ExitWaits. ASSUME PInv, WaitHasChild, NEW code, do_exit(code) PROVE WaitHasChild'
  <2> USE <1>ExitWaits
  <2>1. Exit /\ Enter("none") /\ children' = children
    BY SMTT(30) DEF do_exit, family
  <2>2. \A p \in Slots : p # curr => Untouched(p)
    <3>1. mode' = [mode EXCEPT ![curr] = "kernel"]
      BY <2>1 DEF Exit
    <3> QED BY <2>1, <3>1, ExitLives DEF Untouched, Enter, PInv
  <2>3. \A p \in Slots : p = curr => call'[p] = "none"
    BY <2>1 DEF Enter, PInv, ProcTypeOK
  <2> QED BY <2>2, <2>3, <1>WaitStep
<1>DeliverWaits. ASSUME PInv, WaitHasChild, NEW pend, do_signal_deliver(pend) PROVE WaitHasChild'
  <2> USE <1>DeliverWaits
  <2>1. (\E code : do_exit(code)) \/ UNCHANGED <<vars, ids, family, waits, exit_code>>
    BY DEF do_signal_deliver
  <2>2. CASE \E code : do_exit(code)
    BY <2>2, <1>ExitWaits
  <2>3. CASE UNCHANGED <<vars, ids, family, waits, exit_code>>
    BY <2>3, <1>StillWaits DEF family, waits
  <2> QED BY <2>1, <2>2, <2>3
<1>ForkWaits. ASSUME PInv, WaitHasChild, NEW c \in Slots, NEW clone_parent \in BOOLEAN,
           do_fork(c, clone_parent)
    PROVE  WaitHasChild'
  <2> USE <1>ForkWaits
  <2> DEFINE par == IF clone_parent THEN parent[curr] ELSE curr
             new == [children EXCEPT ![c] = <<>>]
  <2>1. /\ Fork(c) /\ call' = [call EXCEPT ![c] = "none"]
        /\ children' = IF par = None THEN new ELSE [new EXCEPT ![par] = <<c>> \o @]
    BY Zenon DEF do_fork
  <2>2. /\ state' = [state EXCEPT ![c] = "READY"] /\ mode' = [mode EXCEPT ![c] = "user"]
    BY <2>1, Zenon DEF Fork
  <2>3. \A p \in Slots : p # c => children'[p] = children[p] \/ children'[p] = <<c>> \o children[p]
    <3> HIDE DEF par
    <3> QED BY <2>1, Zenon DEF PInv, ProcTypeOK
  <2>4. \A p \in Slots : <<c>> \o children[p] # <<>>
    BY SMTT(30) DEF PInv, ProcTypeOK
  <2>5. \A p \in Slots : p # c => Untouched(p)
    BY <2>1, <2>2, <2>3, <2>4, FamilyTypes DEF Untouched
  <2>6. call'[c] = "none"
    BY <2>1, CallTypes, Zenon
  <2> QED BY <2>5, <2>6, <1>WaitStep
<1>LoopWaits. ASSUME WellOrdered, PInv, WaitHasChild, curr \in Slots, NEW k, NEW nohang, wait_loop(k, nohang)
    PROVE  WaitHasChild'
  <2> USE <1>LoopWaits
  <2>1. CASE UNCHANGED allvars
    BY <2>1, <1>StillWaits, Zenon DEF allvars, procvars, waits, family
  <2>2. CASE /\ Yield /\ Enter("wait") /\ children[curr] # <<>>
             /\ UNCHANGED <<ids, family, reaped, signals, exit_code>>
    <3>1. SameLives
      BY <2>2, YieldLives DEF PInv
    <3> QED BY <2>2, <3>1, <1>EnterWaits DEF Yield, family
  <2>3. CASE /\ Zombies(k) # {} /\ process_destroy(children[curr][Least(Zombies(k))])
             /\ Enter("none")
    <3> DEFINE z == children[curr][Least(Zombies(k))]
    <3>1. z \in Slots
      BY <2>3, ZombieFacts, ZenonT(30)
    <3>2. Reap(z) /\ children' = [children EXCEPT ![curr] = Unlink(@, z)]
      BY <2>3, ZenonT(30) DEF process_destroy
    <3> HIDE DEF z
    <3>3. state' = [state EXCEPT ![z] = "FREE"] /\ mode' = [mode EXCEPT ![curr] = "user"]
      BY <3>2, SMTT(30) DEF Reap
    <3>4. \A p \in Slots : p # curr /\ p # z => Untouched(p)
      BY <2>3, <3>2, <3>3 DEF Untouched, Enter
    <3>5. state'[z] = "FREE" /\ call'[curr] = "none"
      BY <2>3, <3>1, <3>3, RunTypes, CallTypes, Zenon DEF Enter
    <3> QED BY <3>4, <3>5, <1>WaitStep
  <2> QED BY <2>1, <2>2, <2>3 DEF wait_loop
\* An interrupt reaches a process in user mode, which is inside no system call.
<1>InterruptWaits. ASSUME PInv, WaitHasChild, timer_handler \/ irq_return PROVE WaitHasChild'
  <2> USE <1>InterruptWaits
  <2>1. call' = call /\ children' = children /\ (TimerIrq \/ IrqReturn)
    BY DEF timer_handler, irq_return, procvars, waits, family
  <2>2. SameLives
    BY <2>1, TimerLives, SMTT(30) DEF PInv, SameLives, IrqReturn
  <2>3. \A p \in Slots : p # curr => mode'[p] = mode[p]
    <3>1. CASE TimerIrq
      BY <3>1, Zenon DEF TimerIrq
    <3>2. CASE IrqReturn
      BY <3>2 DEF IrqReturn
    <3> QED BY <2>1, <3>1, <3>2
  <2>4. curr \in Slots => call[curr] = "none"
    <3>1. curr \in Slots => mode[curr] # "kernel" /\ state[curr] = "RUNNING"
      BY <2>1, SchedulerAssumption, ZenonT(30) DEF TimerIrq, IrqDeliverable, IrqReturn, PInv, SchedulerOK, OneRunning
    <3> QED BY <3>1, Zenon DEF WaitHasChild
  <2>5. \A p \in Slots : p # curr => Untouched(p)
    BY <2>1, <2>2, <2>3, Zenon DEF Untouched, SameLives
  <2> QED BY <2>1, <2>4, <2>5, <1>WaitStep
<1> SUFFICES ASSUME WellOrdered, PInv, WaitHasChild, [ProcNext]_allvars PROVE WaitHasChild'
  OBVIOUS
<1>0. curr # Idle => curr \in Slots
  BY DEF PInv, SchedulerOK, TypeOK
<1>1. CASE UNCHANGED allvars
  BY <1>1, <1>StillWaits DEF allvars, procvars, waits, family
<1>2. ASSUME NEW c \in Slots, NEW clone_parent \in BOOLEAN, do_fork(c, clone_parent)
      PROVE  WaitHasChild'
  BY <1>2, <1>ForkWaits
<1>3. CASE fork_fail
  BY <1>3, <1>StillWaits, SMTT(30) DEF fork_fail, family, waits
<1>4. CASE sys_sched_yield
  BY <1>0, <1>4, YieldLives, <1>EnterWaits, ZenonT(30) DEF sys_sched_yield, InUser, PInv, Yield, family
<1>5. ASSUME NEW ms \in SleepMs, sys_nanosleep(ms) PROVE WaitHasChild'
  BY <1>0, <1>5, SleepLives, <1>EnterWaits, Zenon DEF sys_nanosleep, InUser, PInv, SleepTimeout, family
<1>6. CASE poll_again
  BY <1>0, <1>6, YieldLives, SleepLives, <1>EnterWaits, Zenon
     DEF poll_again, InUser, InCall, PInv, Yield, SleepTimeout, family
<1>7. CASE syscall_return
  <2>1. /\ Return /\ call' = [call EXCEPT ![curr] = "none"] /\ children' = children
    BY <1>7, SMTT(30) DEF syscall_return, Enter, family
  <2>2. \A p \in Slots : p # curr => Untouched(p)
    BY <2>1 DEF Untouched, Return
  <2>3. \A p \in Slots : p = curr => call'[p] = "none"
    BY <2>1 DEF PInv, ProcTypeOK
  <2> QED BY <2>2, <2>3, <1>WaitStep
<1>8. ASSUME NEW code \in Codes, sys_exit(code) PROVE WaitHasChild'
  BY <1>1, <1>8, <1>ExitWaits DEF sys_exit
<1>9. ASSUME NEW k \in WaitArgs, NEW nohang \in BOOLEAN, sys_wait4(k, nohang)
      PROVE  WaitHasChild'
  BY <1>0, <1>9, <1>LoopWaits DEF sys_wait4, InUser
<1>10. CASE wait_again
  BY <1>0, <1>10, <1>LoopWaits, Zenon DEF wait_again, InCall
<1>11. ASSUME NEW k \in Pids \cup {0}, NEW sig \in Sigs, do_kill(k, sig) PROVE WaitHasChild'
  <2>1. CASE do_signal_deliver(pending[curr] \cup {sig})
    BY <2>1, <1>DeliverWaits
  <2>2. CASE UNCHANGED <<vars, ids, family, waits, blocked, ignored, exit_code>>
    BY <2>2, <1>StillWaits DEF family, waits
  <2> QED BY <1>11, <2>1, <2>2 DEF do_kill
<1>12. CASE handle_ctrlc
  BY <1>12, <1>DeliverWaits DEF handle_ctrlc
<1>13. ASSUME NEW set \in Masks, sys_rt_sigprocmask(set) PROVE WaitHasChild'
  BY <1>13, <1>StillWaits DEF sys_rt_sigprocmask, family, waits
<1>14. ASSUME NEW sig \in Ignorable, sys_rt_sigaction(sig) PROVE WaitHasChild'
  BY <1>14, <1>StillWaits DEF sys_rt_sigaction, family, waits
<1>15. CASE timer_handler \/ irq_return
  BY <1>15, <1>InterruptWaits
<1> QED BY <1>1, <1>2, <1>3, <1>4, <1>5, <1>6, <1>7, <1>8, <1>9, <1>10, <1>11, <1>12, <1>13,
           <1>14, <1>15, Zenon DEF ProcNext

----------------------------------------------------------------------------
(* Signals are delivered completely.                                       *)

\* What DeliveryComplete says of one step.
Delivers ==
    \A p \in Slots : curr = p /\ pending'[p] # pending[p] =>
        state'[p] = "ZOMBIE" \/ pending'[p] \subseteq blocked[p]

LEMMA NextDelivers == WellOrdered /\ PInv /\ [ProcNext]_allvars => Delivers
<1>DeliverDelivers. ASSUME PInv, NEW pend, do_signal_deliver(pend) PROVE Delivers
  <2> USE <1>DeliverDelivers
  <2> DEFINE deliverable == pend \ blocked[curr]
  <2>1. \/ \E code : do_exit(code)
        \/ pending' = [pending EXCEPT ![curr] = pend \ deliverable]
    BY SMTT(30) DEF do_signal_deliver
  <2>2. CASE \E code : do_exit(code)
    BY <2>2, ExitLives DEF do_exit, PInv, Delivers
  <2>3. CASE pending' = [pending EXCEPT ![curr] = pend \ deliverable]
    BY <2>3 DEF Delivers
  <2> QED BY <2>1, <2>2, <2>3, SMTT(30)
<1>LoopDelivers. ASSUME WellOrdered, PInv, curr \in Slots, NEW k, NEW nohang, wait_loop(k, nohang) PROVE Delivers
  <2> USE <1>LoopDelivers
  <2>1. CASE Zombies(k) # {} /\ process_destroy(children[curr][Least(Zombies(k))])
    <3> DEFINE z == children[curr][Least(Zombies(k))]
    <3>1. z \in Slots /\ state[z] = "ZOMBIE" /\ pending' = [pending EXCEPT ![z] = {}]
      BY <2>1, ZombieFacts, Zenon DEF process_destroy, Wipe
    <3> HIDE DEF z
    <3>2. z # curr
      BY <3>1 DEF PInv, SchedulerOK, OneRunning
    <3> QED BY <3>1, <3>2 DEF Delivers
  <2>2. CASE UNCHANGED pending
    BY <2>2 DEF Delivers
  <2> QED BY <2>1, <2>2, ZenonT(30) DEF wait_loop, allvars, procvars, signals
<1> SUFFICES ASSUME WellOrdered, PInv, [ProcNext]_allvars PROVE Delivers
  OBVIOUS
<1>0. curr # Idle => curr \in Slots
  BY DEF PInv, SchedulerOK, TypeOK
<1>1. CASE UNCHANGED pending
  BY <1>1, SMTT(30) DEF Delivers
<1>2. ASSUME NEW c \in Slots, NEW clone_parent \in BOOLEAN, do_fork(c, clone_parent)
      PROVE  Delivers
  <2>1. state[c] = "FREE" /\ pending' = [pending EXCEPT ![c] = {}]
    BY <1>2, Zenon DEF do_fork, Fork
  <2>2. c # curr
    BY <2>1 DEF PInv, SchedulerOK, OneRunning
  <2> QED BY <2>1, <2>2 DEF Delivers
<1>3. CASE UNCHANGED allvars \/ fork_fail \/ timer_handler \/ irq_return
  BY <1>1, <1>3 DEF fork_fail, timer_handler, irq_return, allvars, procvars, signals
<1>4. CASE sys_sched_yield \/ poll_again \/ syscall_return
  BY <1>1, <1>4 DEF sys_sched_yield, poll_again, syscall_return, signals
<1>5. ASSUME NEW ms \in SleepMs, sys_nanosleep(ms) PROVE Delivers
  BY <1>1, <1>5 DEF sys_nanosleep, signals
<1>6. ASSUME NEW code \in Codes, sys_exit(code) PROVE Delivers
  BY <1>1, <1>6 DEF sys_exit, allvars, procvars, signals
<1>7. ASSUME NEW k \in WaitArgs, NEW nohang \in BOOLEAN, sys_wait4(k, nohang)
      PROVE  Delivers
  BY <1>0, <1>7, <1>LoopDelivers DEF sys_wait4, InUser
<1>8. CASE wait_again
  BY <1>0, <1>8, <1>LoopDelivers, ZenonT(30) DEF wait_again, InCall
<1>9. ASSUME NEW k \in Pids \cup {0}, NEW sig \in Sigs, do_kill(k, sig) PROVE Delivers
  <2>1. CASE do_signal_deliver(pending[curr] \cup {sig})
    BY <2>1, <1>DeliverDelivers, Zenon
  <2>2. ASSUME NEW target \in Slots, target # curr,
               pending' = [pending EXCEPT ![target] = @ \cup {sig}]
        PROVE  Delivers
    BY <2>2 DEF PInv, ProcTypeOK, Delivers
  <2> QED BY <1>9, <2>1, <2>2, ZenonT(30) DEF do_kill
<1>10. CASE handle_ctrlc
  BY <1>10, <1>DeliverDelivers DEF handle_ctrlc
<1>11. ASSUME NEW set \in Masks, sys_rt_sigprocmask(set) PROVE Delivers
  BY <1>1, <1>11 DEF sys_rt_sigprocmask
<1>12. ASSUME NEW sig \in Ignorable, sys_rt_sigaction(sig) PROVE Delivers
  BY <1>1, <1>12 DEF sys_rt_sigaction
<1> QED BY <1>2, <1>3, <1>4, <1>5, <1>6, <1>7, <1>8, <1>9, <1>10, <1>11, <1>12, Zenon DEF ProcNext

----------------------------------------------------------------------------
(* Module Process implements module ProcLife.                              *)

LifeStep == [Life!LifeNext]_<<lives, reaped>>

\* What process_destroy and do_wait do to the zombie z.
Collects(z) ==
    /\ Reap(z) /\ Wipe(z)
    /\ pid_table' = [pid_table EXCEPT ![pid[z]] = None]
    /\ reaped' = [pid |-> pid[z], status |-> exit_code[z] * 256]

LEMMA NextLife == WellOrdered /\ PInv /\ [ProcNext]_allvars => LifeStep
\* A step that starts, ends and reaps nobody changes nothing a program knows.
<1>QuietLife. ASSUME PInv, SameLives, UNCHANGED <<pid_table, reaped, exit_code>>
    PROVE  LifeStep
  <2> USE <1>QuietLife
  <2>1. \A n \in Pids : pid_table[n] # Idle /\ pid_table[n] # None => pid_table[n] \in Slots
    BY DEF PInv, ProcTypeOK
  <2>2. lives' = lives
    BY <2>1 DEF lives, SameLives
  <2> QED BY <2>2 DEF LifeStep
\* do_exit terminates the pid of the current process.
<1>ExitLife. ASSUME PInv, NEW code \in Nat, do_exit(code) PROVE LifeStep
  <2> USE <1>ExitLife
  <2>1. Exit /\ exit_code' = [exit_code EXCEPT ![curr] = code] /\ UNCHANGED <<pid_table, reaped>>
    BY DEF do_exit, ids
  <2>2. /\ curr \in Slots /\ state[curr] = "RUNNING" /\ state'[curr] = "ZOMBIE"
        /\ \A p \in Slots : p # curr => (state'[p] = "ZOMBIE" <=> state[p] = "ZOMBIE")
    BY <2>1, ExitLives DEF PInv
  <2> DEFINE n == pid[curr]
             z == [status |-> "zombie", code |-> code]
  <2>3. n \in Pids /\ pid_table[n] = curr
    BY <2>2, Zenon DEF PInv, PidTableOK
  <2>4. \A m \in Pids : pid_table[m] # Idle /\ pid_table[m] # None /\ m # n =>
            pid_table[m] \in Slots /\ pid_table[m] # curr
    BY DEF PInv, PidTableOK, ProcTypeOK
  <2>5. curr # None /\ curr # Idle
    BY <2>2, ProcessAssumption, SchedulerAssumption, SMTT(30)
  <2>6. /\ \A p \in Slots : exit_code'[p] = IF p = curr THEN code ELSE exit_code[p]
    BY <2>1 DEF PInv, ProcTypeOK
  <2> HIDE DEF n
  <2>7. lives[n] = [status |-> "live", code |-> 0]
    BY <2>2, <2>3, <2>5 DEF lives
  <2>8. lives' = [lives EXCEPT ![n] = z]
    <3>1. lives'[n] = z
      BY <2>1, <2>2, <2>3, <2>5, <2>6, Zenon DEF lives
    <3>2. \A m \in Pids : m # n => lives'[m] = lives[m]
      <4> SUFFICES ASSUME NEW m \in Pids, m # n PROVE lives'[m] = lives[m]
        OBVIOUS
      <4>1. pid_table'[m] = pid_table[m]
        BY <2>1, SMTT(30)
      <4>2. pid_table[m] # Idle /\ pid_table[m] # None =>
                /\ state'[pid_table[m]] = "ZOMBIE" <=> state[pid_table[m]] = "ZOMBIE"
                /\ exit_code'[pid_table[m]] = exit_code[pid_table[m]]
        BY <2>2, <2>4, <2>6, Zenon
      <4> QED BY <4>1, <4>2, Zenon DEF lives
    <3>3. lives' = [m \in Pids |-> lives'[m]] /\ lives = [m \in Pids |-> lives[m]]
      BY SMTT(30) DEF lives
    <3> QED BY <2>3, <3>1, <3>2, <3>3, SMTT(30)
  <2>9. lives'[n].code = code
    BY <2>3, <2>8 DEF lives
  <2>10. Life!Terminate(n)
    BY <2>1, <2>7, <2>8, <2>9, Zenon DEF Life!Terminate, Life!Alive
  <2> QED BY <2>3, <2>10 DEF LifeStep, Life!LifeNext
\* do_fork creates the pid it allocates.
<1>ForkLife. ASSUME WellOrdered, PInv, NEW c \in Slots, NEW clone_parent \in BOOLEAN, do_fork(c, clone_parent)
    PROVE  LifeStep
  <2> USE <1>ForkLife
  <2> DEFINE n == alloc_pid
  <2>1. /\ n # 0 /\ Fork(c)
        /\ pid_table' = [pid_table EXCEPT ![n] = c]
        /\ exit_code' = [exit_code EXCEPT ![c] = 0]
        /\ UNCHANGED reaped
    BY DEF do_fork
  <2>2. n \in Pids /\ pid_table[n] = None
    BY <2>1, AllocFree
  <2>3. /\ state[c] = "FREE"
        /\ \A p \in Slots : state'[p] = IF p = c THEN "READY" ELSE state[p]
    BY <2>1, RunTypes, Zenon DEF Fork
  <2>4. \A m \in Pids : pid_table[m] # Idle /\ pid_table[m] # None =>
            pid_table[m] \in Slots /\ pid_table[m] # c
    <3>1. \A m \in Pids : pid_table[m] \in Slots \cup {Idle, None}
      BY DEF PInv, ProcTypeOK
    <3>2. \A m \in Pids : pid_table[m] \in Slots => state[pid_table[m]] # "FREE"
      BY DEF PInv, PidTableOK
    <3> QED BY <2>3, <3>1, <3>2
  <2>5. c # None /\ c # Idle
    BY ProcessAssumption, SchedulerAssumption, SMTT(30)
  <2> HIDE DEF n
  <2>6. \A m \in Pids : pid_table'[m] = IF m = n THEN c ELSE pid_table[m]
    BY <2>1, <2>2, IdTypes, Zenon
  <2>7. \A p \in Slots : p # c => exit_code'[p] = exit_code[p]
    BY <2>1 DEF PInv, ProcTypeOK
  <2>8. lives[n] = [status |-> "none", code |-> 0]
    BY <2>2 DEF lives
  <2>9. lives' = [lives EXCEPT ![n] = [status |-> "live", code |-> 0]]
    <3>1. lives'[n] = [status |-> "live", code |-> 0]
      BY <2>2, <2>3, <2>5, <2>6, Zenon DEF lives
    <3>2. \A m \in Pids : m # n => lives'[m] = lives[m]
      <4> SUFFICES ASSUME NEW m \in Pids, m # n PROVE lives'[m] = lives[m]
        OBVIOUS
      <4>1. pid_table'[m] = pid_table[m]
        BY <2>6, SMTT(30)
      <4>2. pid_table[m] # Idle /\ pid_table[m] # None =>
                /\ state'[pid_table[m]] = "ZOMBIE" <=> state[pid_table[m]] = "ZOMBIE"
                /\ exit_code'[pid_table[m]] = exit_code[pid_table[m]]
        BY <2>3, <2>4, <2>7, Zenon
      <4> QED BY <4>1, <4>2, Zenon DEF lives
    <3>3. lives' = [m \in Pids |-> lives'[m]] /\ lives = [m \in Pids |-> lives[m]]
      BY DEF lives
    <3> QED BY <2>2, <3>1, <3>2, <3>3, SMTT(30)
  <2>10. Life!Create(n)
    BY <2>1, <2>8, <2>9, Zenon DEF Life!Create, Life!Alive, Life!Nobody
  <2> QED BY <2>2, <2>10, SMTT(30) DEF LifeStep, Life!LifeNext
\* do_wait collects the pid of the zombie it destroys and reports its code.
<1>ReapLife. ASSUME PInv, NEW z \in Slots, Collects(z)
    PROVE  LifeStep
  <2> USE <1>ReapLife
  <2> DEFINE n == pid[z]
  <2>1. /\ state[z] = "ZOMBIE"
        /\ \A p \in Slots : state'[p] = IF p = z THEN "FREE" ELSE state[p]
    BY SMTT(30) DEF Collects, Reap, PInv, SchedulerOK, TypeOK
  <2>2. n \in Pids /\ pid_table[n] = z
    BY <2>1, Zenon DEF PInv, PidTableOK
  <2>3. \A m \in Pids : pid_table[m] # Idle /\ pid_table[m] # None /\ m # n =>
            pid_table[m] \in Slots /\ pid_table[m] # z
    <3>1. \A m \in Pids : pid_table[m] \in Slots \cup {Idle, None}
      BY DEF PInv, ProcTypeOK
    <3>2. \A m \in Pids : pid_table[m] \in Slots => pid[pid_table[m]] = m
      BY SMTT(30) DEF PInv, PidTableOK
    <3> QED BY <3>1, <3>2
  <2>4. z # None /\ z # Idle
    BY ProcessAssumption, SchedulerAssumption, Zenon
  <2>5. \A p \in Slots : p # z => exit_code'[p] = exit_code[p]
    BY DEF Collects, Wipe
  <2> HIDE DEF n
  <2>6. \A m \in Pids : pid_table'[m] = IF m = n THEN None ELSE pid_table[m]
    BY <2>2, IdTypes, Zenon DEF Collects, n
  <2>7. lives[n] = [status |-> "zombie", code |-> exit_code[z]]
    BY <2>1, <2>2, <2>4 DEF lives
  <2>8. lives' = [lives EXCEPT ![n] = [status |-> "none", code |-> 0]]
    <3>1. lives'[n] = [status |-> "none", code |-> 0]
      BY <2>2, <2>6, Zenon DEF lives
    <3>2. \A m \in Pids : m # n => lives'[m] = lives[m]
      <4> SUFFICES ASSUME NEW m \in Pids, m # n PROVE lives'[m] = lives[m]
        OBVIOUS
      <4>1. pid_table'[m] = pid_table[m]
        BY <2>6, SMTT(30)
      <4>2. pid_table[m] # Idle /\ pid_table[m] # None =>
                /\ state'[pid_table[m]] = "ZOMBIE" <=> state[pid_table[m]] = "ZOMBIE"
                /\ exit_code'[pid_table[m]] = exit_code[pid_table[m]]
        BY <2>1, <2>3, <2>5, ZenonT(30)
      <4> QED BY <4>1, <4>2, Zenon DEF lives
    <3>3. lives' = [m \in Pids |-> lives'[m]] /\ lives = [m \in Pids |-> lives[m]]
      BY SMTT(30) DEF lives
    <3> QED BY <2>2, <3>1, <3>2, <3>3, SMTT(30)
  <2>9. Life!Collect(n)
    BY <2>7, <2>8, SMTT(30) DEF Collects, Life!Collect, Life!Nobody, n
  <2> QED BY <2>2, <2>9 DEF LifeStep, Life!LifeNext
<1>DeliverLife. ASSUME WellOrdered, PInv, NEW pend \in SUBSET Sigs, do_signal_deliver(pend)
    PROVE  LifeStep
  <2> USE <1>DeliverLife
  <2> DEFINE fatal == (pend \ blocked[curr]) \ ignored[curr]
  <2>1. CASE SIGINT \in pend
    <3>1. do_exit(128 + SIGINT)
      BY <2>1, Zenon DEF do_signal_deliver
    <3>2. 128 + SIGINT \in Nat
      BY DEF SIGINT
    <3> QED BY <3>1, <3>2, <1>ExitLife, Zenon
  <2>2. CASE SIGINT \notin pend /\ fatal # {}
    <3>1. do_exit(128 + Least(fatal))
      BY <2>2, ZenonT(30) DEF do_signal_deliver
    <3>2. Least(fatal) \in Nat
      <4>1. Sigs \subseteq Nat
        BY ProcessAssumption
      <4>2. fatal \subseteq Nat
        BY <4>1, Zenon
      <4> QED BY <2>2, <4>2, LeastIn
    <3> HIDE DEF fatal
    <3>3. 128 + Least(fatal) \in Nat
      BY <3>2
    <3> QED BY <3>1, <3>3, <1>ExitLife
  <2>3. CASE SIGINT \notin pend /\ fatal = {}
    <3>1. UNCHANGED <<vars, ids, family, waits, exit_code>>
      BY <2>3, ZenonT(30) DEF do_signal_deliver
    <3> QED BY <3>1, <1>QuietLife DEF vars, ids, waits, SameLives
  <2> QED BY <2>1, <2>2, <2>3
<1>WaitLife. ASSUME WellOrdered, PInv, NEW k, NEW nohang \in BOOLEAN, wait_loop(k, nohang), curr \in Slots
    PROVE  LifeStep
  <2> USE <1>WaitLife
  <2>1. CASE UNCHANGED allvars
    BY <2>1, <1>QuietLife DEF allvars, procvars, vars, ids, waits, SameLives
  <2>2. CASE Yield /\ UNCHANGED <<ids, family, reaped, signals, exit_code>>
    BY <2>2, YieldLives, <1>QuietLife DEF PInv, ids
  <2>3. CASE /\ Zombies(k) # {}
             /\ LET z == children[curr][Least(Zombies(k))]
                IN  /\ process_destroy(z)
                    /\ reaped' = [pid |-> pid[z], status |-> exit_code[z] * 256]
    <3> DEFINE z == children[curr][Least(Zombies(k))]
    <3>1. z \in Slots
      BY <2>3, ZombieFacts
    <3> HIDE DEF z
    <3>2. /\ process_destroy(z)
          /\ reaped' = [pid |-> pid[z], status |-> exit_code[z] * 256]
      BY <2>3, Zenon DEF z
    <3> QED BY <3>1, <3>2, <1>ReapLife, ZenonT(30) DEF process_destroy, Collects
  <2> QED BY <2>1, <2>2, <2>3, ZenonT(30) DEF wait_loop
<1> SUFFICES ASSUME WellOrdered, PInv, [ProcNext]_allvars PROVE LifeStep
  OBVIOUS
<1>1. CASE UNCHANGED allvars
  BY <1>1, <1>QuietLife DEF allvars, procvars, vars, ids, waits, SameLives
<1>2. ASSUME NEW c \in Slots, NEW clone_parent \in BOOLEAN, do_fork(c, clone_parent)
      PROVE  LifeStep
  BY <1>2, <1>ForkLife
<1>3. CASE fork_fail
  BY <1>3, <1>QuietLife DEF fork_fail, vars, waits, SameLives
<1>4. CASE sys_sched_yield
  BY <1>4, YieldLives, <1>QuietLife DEF sys_sched_yield, PInv, ids
<1>5. ASSUME NEW ms \in SleepMs, sys_nanosleep(ms) PROVE LifeStep
  BY <1>5, SleepLives, <1>QuietLife DEF sys_nanosleep, PInv, ids
<1>6. CASE poll_again
  BY <1>6, YieldLives, SleepLives, <1>QuietLife DEF poll_again, PInv, ids
<1>7. CASE syscall_return
  BY <1>7, <1>QuietLife DEF syscall_return, Return, SameLives, ids
<1>8. ASSUME NEW code \in Codes, sys_exit(code) PROVE LifeStep
  <2>1. CASE do_exit(code)
    BY <2>1, <1>ExitLife, ProcessAssumption
  <2>2. CASE UNCHANGED allvars
    BY <1>1, <2>2
  <2> QED BY <1>8, <2>1, <2>2 DEF sys_exit
<1>9. ASSUME NEW k \in WaitArgs, NEW nohang \in BOOLEAN, sys_wait4(k, nohang)
      PROVE  LifeStep
  <2>1. curr \in Slots
    BY <1>9 DEF sys_wait4, InUser, PInv, SchedulerOK, TypeOK
  <2> QED BY <1>9, <2>1, <1>WaitLife DEF sys_wait4
<1>10. CASE wait_again
  <2>1. curr \in Slots
    BY <1>10, RunTypes, Zenon DEF wait_again, InCall
  <2> QED BY <1>10, <2>1, <1>WaitLife, Zenon DEF wait_again
<1>11. ASSUME NEW k \in Pids \cup {0}, NEW sig \in Sigs, do_kill(k, sig) PROVE LifeStep
  <2>1. CASE do_signal_deliver(pending[curr] \cup {sig})
    <3>1. curr \in Slots
      BY <1>11, RunTypes, Zenon DEF do_kill, InUser
    <3>2. pending[curr] \cup {sig} \in SUBSET Sigs
      BY <3>1 DEF PInv, ProcTypeOK
    <3> QED BY <2>1, <3>2, <1>DeliverLife, ZenonT(30)
  <2>2. CASE UNCHANGED <<vars, ids, family, waits, blocked, ignored, exit_code>>
    BY <2>2, <1>QuietLife DEF vars, ids, waits, SameLives
  <2> QED BY <1>11, <2>1, <2>2, ZenonT(30) DEF do_kill
<1>12. CASE handle_ctrlc
  <2>1. curr \in Slots
    BY <1>12, RunTypes, Zenon DEF handle_ctrlc, InCall
  <2>2. PICK sig \in Sigs \cap {SIGINT} : do_signal_deliver(pending[curr] \cup {sig})
    BY <1>12 DEF handle_ctrlc
  <2>3. pending[curr] \cup {sig} \in SUBSET Sigs
    BY <2>1 DEF PInv, ProcTypeOK
  <2> QED BY <2>2, <2>3, <1>DeliverLife
<1>13. ASSUME NEW set \in Masks, sys_rt_sigprocmask(set) PROVE LifeStep
  BY <1>13, <1>QuietLife DEF sys_rt_sigprocmask, vars, ids, waits, SameLives
<1>14. ASSUME NEW sig \in Ignorable, sys_rt_sigaction(sig) PROVE LifeStep
  BY <1>14, <1>QuietLife DEF sys_rt_sigaction, vars, ids, waits, SameLives
<1>15. CASE timer_handler
  BY <1>15, TimerLives, <1>QuietLife DEF timer_handler, PInv, procvars, ids, waits
<1>16. CASE irq_return
  BY <1>16, <1>QuietLife, SMTT(30) DEF irq_return, IrqReturn, procvars, ids, waits, SameLives
<1> QED BY <1>1, <1>2, <1>3, <1>4, <1>5, <1>6, <1>7, <1>8, <1>9, <1>10, <1>11, <1>12, <1>13,
           <1>14, <1>15, <1>16, Zenon DEF ProcNext

LEMMA InitLife == ProcInit => Life!LifeInit
<1> SUFFICES ASSUME ProcInit PROVE Life!LifeInit
  OBVIOUS
<1>1. InitProc \in Slots /\ InitProc # None /\ Idle # None /\ Idle # InitProc
  BY ProcessAssumption, SchedulerAssumption
<1>2. 1 \in Pids /\ 2 \in Pids
  BY ProcessAssumption, SMTT(30) DEF Pids
<1>3. state[InitProc] = "RUNNING"
  BY <1>1 DEF ProcInit, Init
<1>4. /\ pid_table = [n \in Pids |-> IF n = 1 THEN Idle ELSE IF n = 2 THEN InitProc ELSE None]
      /\ reaped = [pid |-> 0, status |-> 0]
  BY SMTT(30) DEF ProcInit
<1>5. lives = [n \in Pids |-> IF n \in {1, 2} THEN [status |-> "live", code |-> 0]
                                             ELSE [status |-> "none", code |-> 0]]
  BY <1>1, <1>2, <1>3, <1>4, ZenonT(30) DEF lives
<1> QED BY <1>4, <1>5 DEF Life!LifeInit, Life!Alive, Life!Nobody

----------------------------------------------------------------------------
(* The theorems.                                                           *)

INSTANCE WellFoundedInduction

\* The numbers are well ordered.
LEMMA Numbers == WellOrdered
<1> DEFINE R == {ss \in Nat \X Nat : ss[1] < ss[2]}
<1>1. IsWellFoundedOn(R, Nat)
  BY NatLessThanWellFounded DEF OpToRel
<1> SUFFICES ASSUME NEW S \in SUBSET Nat, S # {} PROVE \E n \in S : \A m \in S : n <= m
  BY DEF WellOrdered
<1>2. PICK x \in S : \A y \in S : ~ (<<y, x>> \in R)
  <2> HIDE DEF R
  <2> QED BY <1>1, WFMin, Zenon
<1>3. \A y \in S : <<y, x>> \in R <=> y < x
  OBVIOUS
<1>4. \A y \in S : x <= y
  <2> HIDE DEF R
  <2> SUFFICES ASSUME NEW y \in S PROVE x <= y
    OBVIOUS
  <2>1. ~(y < x) /\ x \in Nat /\ y \in Nat
    BY <1>2, <1>3, Zenon
  <2> QED BY <2>1
<1> QED BY <1>4

\* The invariant holds in every reachable state.
THEOREM ProcInv == ProcSpec => []PInv
  BY PInvInit, PInvNext, Numbers, PTL DEF ProcSpec

\* A pid names one process from fork to wait4, whatever the order in which
\* processes fork, fail to fork, exit and are reaped, and wherever next_pid is.
THEOREM PidTableSafe == ProcSpec => []PidTableOK
<1>1. PInv => PidTableOK
  BY DEF PInv
<1> QED BY <1>1, ProcInv, PTL

\* The children lists are disjoint, agree with the parent pointers and hold no
\* reaped process.
THEOREM FamilySafe == ProcSpec => []FamilyOK
<1>1. PInv => FamilyOK
  BY DEF PInv
<1> QED BY <1>1, ProcInv, PTL

\* The process system calls use the scheduler only as module Scheduler says, so
\* that all its safety theorems hold of the composition.
THEOREM ProcImplementsScheduler == ProcSpec => Spec
<1>1. ProcInit => Init
  BY DEF ProcInit
<1> QED BY <1>1, PInvInit, PInvNext, Numbers, PTL DEF ProcSpec, Spec

\* A process inside wait4 has a child whenever it gets the CPU back, so that the
\* loop of do_wait cannot find the list empty later than on its first turn; with
\* the scheduler, the pid table and the family this is all that ProcOK says.
THEOREM ProcSafe == ProcSpec => []ProcOK
<1>1. ProcInit => WaitHasChild
  BY DEF ProcInit, WaitHasChild
<1>2. ProcOK /\ [ProcNext]_allvars => ProcOK'
  BY PInvNext, WaitNext, Numbers DEF ProcOK
<1>3. ProcInit => ProcOK
  BY <1>1, PInvInit, SMTT(30) DEF ProcOK
<1> QED BY <1>2, <1>3, PTL DEF ProcSpec

\* do_signal_deliver leaves nothing deliverable behind in a process that survives
\* it, for any set of signals, masks and ignored signals, and no other step of a
\* process touches its own pending set.
THEOREM SignalsDelivered == ProcSpec => DeliveryComplete
<1>1. PInv /\ [ProcNext]_allvars
        => [\A p \in Slots : curr = p /\ pending'[p] # pending[p] =>
                state'[p] = "ZOMBIE" \/ pending'[p] \subseteq blocked[p]]_allvars
  BY NextDelivers, Numbers DEF Delivers
<1> QED BY <1>1, ProcInv, PTL DEF ProcSpec, DeliveryComplete

\* fork, exit, kill and wait4 implement the life of a pid: every pid is created
\* once, terminated once and collected once, with the code it terminated with.
THEOREM ProcImplementsLife == ProcSpec => ImplementsLife
<1>1. ProcSpec => []PInv
  BY ProcInv
<1>2. PInv /\ [ProcNext]_allvars => [Life!LifeNext]_<<lives, reaped>>
  BY NextLife, Numbers DEF LifeStep
<1> QED BY <1>1, <1>2, InitLife, PTL DEF ProcSpec, ImplementsLife, Life!LifeSpec

============================================================================
