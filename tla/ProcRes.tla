------------------------------ MODULE ProcRes ------------------------------
(***************************************************************************)
(* What a process holds: its descriptor table with the open files behind   *)
(* it, and its address space (kernel/proc/process.c, fork.c, exec.c,       *)
(* kernel/fs/file.c and the descriptor calls of syscall.c).                *)
(*                                                                         *)
(* None of these calls gives the CPU away, so each is one step.  A freed   *)
(* struct file or address space may be handed out again at once; whoever   *)
(* still points to it then shares it with its new owner.                   *)
(***************************************************************************)
EXTENDS Integers, FiniteSets

CONSTANTS
    Procs, InitProc,
    FileObjs,    \* the struct file objects the slab cache can hand out
    Tables,      \* the struct fd_table objects
    Spaces,      \* the struct address_space objects
    None,        \* NULL
    FirstFd,     \* 3: the descriptors below it are standard input and output
    MaxFds,      \* PROC_MAX_FDS
    CloneFlags,  \* the sets of flags passed to clone, of {"VM", "FILES"}
    Syscalls,    \* the calls the processes make besides open, close, fork, exit, wait4
    MaxCount     \* bound: no execve that closes a descriptor of a file with a count above

ASSUME ProcResAssumption ==
    /\ InitProc \in Procs
    /\ None \notin Tables \cup Spaces \cup FileObjs
    /\ IsFiniteSet(FileObjs) /\ IsFiniteSet(Procs) /\ IsFiniteSet(Tables)
    /\ Tables # {} /\ Spaces # {}
    /\ FirstFd \in Nat /\ MaxFds \in Nat /\ FirstFd < MaxFds
    /\ CloneFlags \subseteq SUBSET {"VM", "FILES"}
    /\ MaxCount \in Int

VARIABLES
    life,    \* of a struct process: free, live or zombie
    files,   \* p->files
    tab,     \* the descriptor tables; refcount 0 is a table not allocated
    fobj,    \* f_count of each struct file, and which ones are allocated
    mm,      \* p->mm
    space    \* refcount of each address space, and which ones are allocated

resvars == <<life, files, tab, fobj, mm, space>>

Fds == 0..(MaxFds - 1)
NoTable == [refcount |-> 0, file |-> [fd \in Fds |-> None], cloexec |-> {}, next_fd |-> FirstFd]

----------------------------------------------------------------------------
(* Files and descriptor tables.                                            *)

\* How many of the descriptors of the table r name the file f.
Held(r, f) == Cardinality({fd \in Fds : r.file[fd] = f})

\* get_file and put_file, called n[f] times on each file f.  What is left of the
\* count in a freed struct is overwritten by vfs_open before anything depends on
\* it, and 0 here.
get_files(o, n) ==
    [o EXCEPT !.count = [f \in FileObjs |-> IF f \in o.open THEN @[f] + n[f] ELSE 0]]

put_files(o, n) ==
    LET left == {f \in o.open : o.count[f] \notin 1..n[f]}
    IN  [count |-> [f \in FileObjs |-> IF f \in left THEN o.count[f] - n[f] ELSE 0],
         open  |-> left]

Once(f) == [g \in FileObjs |-> IF g = f THEN 1 ELSE 0]

Lowest(S) == CHOOSE n \in S : \A m \in S : n <= m

\* fd_alloc: the first free descriptor from next_fd on, else the first below
\* it; MaxFds stands for -EMFILE.
fd_alloc(r) ==
    LET free == {fd \in FirstFd..(MaxFds - 1) : r.file[fd] = None}
        up   == {fd \in free : fd >= r.next_fd}
    IN  IF up # {} THEN Lowest(up) ELSE IF free # {} THEN Lowest(free) ELSE MaxFds

\* The table r with the file f behind fd, which fd_alloc returned.
Install(r, fd, f, cloexec) ==
    [r EXCEPT !.file[fd] = f, !.next_fd = fd + 1,
              !.cloexec = IF cloexec THEN @ \cup {fd} ELSE @ \ {fd}]

\* Mutant of Clear: next_fd stays where it is.
ClearKeepsNext(r, S) ==
    [r EXCEPT !.file = [fd \in Fds |-> IF fd \in S THEN None ELSE @[fd]],
              !.cloexec = @ \ S]

\* The descriptors in S closed, and next_fd brought down to the lowest of them.
Clear(r, S) ==
    LET low == {fd \in S : fd >= FirstFd /\ fd < r.next_fd}
    IN  [r EXCEPT !.file = [fd \in Fds |-> IF fd \in S THEN None ELSE @[fd]],
                  !.cloexec = @ \ S,
                  !.next_fd = IF low = {} THEN @ ELSE Lowest(low)]

\* fd_table_clone into the free table t, with a get_file for each descriptor.
fd_table_clone(tb, t, r) == [tb EXCEPT ![t] = [r EXCEPT !.refcount = 1]]

\* fd_table_free: drops the table's last reference, and then its files'.
fd_table_free(tb, o, t) ==
    IF tb[t].refcount = 1
    THEN [tab |-> [tb EXCEPT ![t] = NoTable],
          obj |-> put_files(o, [f \in FileObjs |-> Held(tb[t], f)])]
    ELSE [tab |-> [tb EXCEPT ![t].refcount = @ - 1], obj |-> o]

(* Address spaces.                                                         *)

\* vmm_create_address_space and vmm_destroy_address_space.
NewSpace(sp, s) == [ref |-> [sp.ref EXCEPT ![s] = 1], live |-> sp.live \cup {s}]
NoSpace(sp, s) == [ref |-> [sp.ref EXCEPT ![s] = 0], live |-> sp.live \ {s}]

\* process_destroy's share of p->mm.
DropSpace(sp, s) ==
    IF s \notin sp.live \/ sp.ref[s] = 1 THEN NoSpace(sp, s)
    ELSE [sp EXCEPT !.ref[s] = @ - 1]

----------------------------------------------------------------------------
\* init after its first execve.
ResInit ==
    \E t \in Tables, s \in Spaces :
        /\ life = [p \in Procs |-> IF p = InitProc THEN "live" ELSE "free"]
        /\ files = [p \in Procs |-> IF p = InitProc THEN t ELSE None]
        /\ tab = [u \in Tables |-> IF u = t THEN [NoTable EXCEPT !.refcount = 1] ELSE NoTable]
        /\ fobj = [count |-> [f \in FileObjs |-> 0], open |-> {}]
        /\ mm = [p \in Procs |-> IF p = InitProc THEN s ELSE None]
        /\ space = [ref |-> [u \in Spaces |-> IF u = s THEN 1 ELSE 0], live |-> {s}]

Live(p) == life[p] = "live"
T(p) == tab[files[p]]
SetT(p, r) == tab' = [tab EXCEPT ![files[p]] = r]

\* open and openat; without a free descriptor vfs_close undoes vfs_open.
sys_open(p, f, cloexec) ==
    LET fd == fd_alloc(T(p))
    IN  /\ Live(p) /\ fd < MaxFds
        /\ f \notin fobj.open
        /\ SetT(p, Install(T(p), fd, f, cloexec))
        /\ fobj' = [count |-> [fobj.count EXCEPT ![f] = 1], open |-> fobj.open \cup {f}]
        /\ UNCHANGED <<life, files, mm, space>>

sys_close(p, fd) ==
    /\ Live(p) /\ T(p).file[fd] # None
    /\ SetT(p, Clear(T(p), {fd}))
    /\ fobj' = put_files(fobj, Once(T(p).file[fd]))
    /\ UNCHANGED <<life, files, mm, space>>

\* Mutant of sys_dup: no get_file.
DupUncounted(p, oldfd) ==
    LET f == T(p).file[oldfd] newfd == fd_alloc(T(p))
    IN  /\ "dup" \in Syscalls
        /\ Live(p) /\ f # None /\ newfd < MaxFds
        /\ SetT(p, Install(T(p), newfd, f, oldfd \in T(p).cloexec))
        /\ UNCHANGED <<life, files, fobj, mm, space>>

sys_dup(p, oldfd) ==
    LET f == T(p).file[oldfd] newfd == fd_alloc(T(p))
    IN  /\ "dup" \in Syscalls
        /\ Live(p) /\ f # None /\ newfd < MaxFds
        /\ SetT(p, Install(T(p), newfd, f, oldfd \in T(p).cloexec))
        /\ fobj' = get_files(fobj, Once(f))
        /\ UNCHANGED <<life, files, mm, space>>

\* dup2 takes and leaves next_fd as it is.
sys_dup2(p, oldfd, newfd) ==
    LET f == T(p).file[oldfd] old == T(p).file[newfd]
    IN  /\ "dup2" \in Syscalls
        /\ Live(p) /\ f # None /\ oldfd # newfd
        /\ SetT(p, [T(p) EXCEPT !.file[newfd] = f,
                                !.cloexec = IF oldfd \in @ THEN @ \cup {newfd} ELSE @ \ {newfd}])
        /\ fobj' = get_files(IF old = None THEN fobj ELSE put_files(fobj, Once(old)), Once(f))
        /\ UNCHANGED <<life, files, mm, space>>

\* ioctl on a descriptor that is not a standard one: put_file without a
\* get_file before it.
sys_ioctl(p, fd) ==
    /\ "ioctl" \in Syscalls
    /\ Live(p) /\ fd >= FirstFd /\ T(p).file[fd] # None
    /\ fobj' = put_files(fobj, Once(T(p).file[fd]))
    /\ UNCHANGED <<life, files, tab, mm, space>>

\* do_fork, successful: copy_mm and copy_files.
do_fork(p, c, flags, t, s) ==
    /\ Live(p) /\ life[c] = "free"
    /\ life' = [life EXCEPT ![c] = "live"]
    /\ IF "VM" \in flags
       THEN /\ s = mm[p]
            /\ space' = IF s \in space.live THEN [space EXCEPT !.ref[s] = @ + 1] ELSE space
       ELSE /\ s \notin space.live
            /\ space' = NewSpace(space, s)
    /\ mm' = [mm EXCEPT ![c] = s]
    /\ IF "FILES" \in flags
       THEN /\ t = files[p]
            /\ tab' = [tab EXCEPT ![t].refcount = @ + 1]
            /\ UNCHANGED fobj
       ELSE /\ tab[t].refcount = 0
            /\ tab' = fd_table_clone(tab, t, T(p))
            /\ fobj' = get_files(fobj, [f \in FileObjs |-> Held(T(p), f)])
    /\ files' = [files EXCEPT ![c] = t]

\* do_fork that fails in copy_cred, after copy_mm and copy_files:
\* process_destroy gives back what they took.
fork_fail(p, flags, t) ==
    LET shared == "FILES" \in flags
        took   == IF shared THEN [tab EXCEPT ![t].refcount = @ + 1]
                  ELSE fd_table_clone(tab, t, T(p))
        left   == fd_table_free(took,
                      IF shared THEN fobj
                      ELSE get_files(fobj, [f \in FileObjs |-> Held(T(p), f)]), t)
    IN  /\ Live(p)
        /\ IF shared THEN t = files[p] ELSE tab[t].refcount = 0
        /\ tab' = left.tab
        /\ fobj' = left.obj
        /\ UNCHANGED <<life, files, mm, space>>

\* scheduler_exit: a zombie keeps its descriptors and its memory.
do_exit(p) ==
    /\ Live(p)
    /\ life' = [life EXCEPT ![p] = "zombie"]
    /\ UNCHANGED <<files, tab, fobj, mm, space>>

\* process_destroy, from the wait4 of another process; nobody waits for init.
process_destroy(z) ==
    LET left == fd_table_free(tab, fobj, files[z])
    IN  /\ life[z] = "zombie" /\ z # InitProc
        /\ \E p \in Procs : Live(p)
        /\ life' = [life EXCEPT ![z] = "free"]
        /\ tab' = left.tab
        /\ fobj' = left.obj
        /\ space' = DropSpace(space, mm[z])
        /\ files' = [files EXCEPT ![z] = None]
        /\ mm' = [mm EXCEPT ![z] = None]

\* What the close-on-exec loop of execve closes: it leaves the standard ones.
ClosedByExecve(p) == {fd \in T(p).cloexec : fd >= FirstFd}

\* execve, successful: the old address space is destroyed whoever else uses it,
\* and fd_free clears the close-on-exec descriptors except the standard ones,
\* without a put_file.  ("threads": programs that execute while they share it.)
do_execve(p, s) ==
    /\ "execve" \in Syscalls
    /\ Live(p) /\ s \notin space.live
    /\ space.ref[mm[p]] > 1 => "threads" \in Syscalls
    /\ \A fd \in ClosedByExecve(p) : fobj.count[T(p).file[fd]] <= MaxCount
    /\ SetT(p, Clear(T(p), ClosedByExecve(p)))
    /\ space' = NewSpace(NoSpace(space, mm[p]), s)
    /\ mm' = [mm EXCEPT ![p] = s]
    /\ UNCHANGED <<life, files, fobj>>

\* execve of a program with an interpreter that fails between opening the
\* interpreter and loading the first segment: the interpreter stays open.  (The
\* other failures close both files, destroy the new address space, and leave
\* everything as it was.)
execve_fail(p, f) ==
    /\ "interp" \in Syscalls
    /\ Live(p) /\ f \notin fobj.open
    /\ fobj' = [count |-> [fobj.count EXCEPT ![f] = 1], open |-> fobj.open \cup {f}]
    /\ UNCHANGED <<life, files, tab, mm, space>>

ResNext ==
    \/ \E p \in Procs, f \in FileObjs, cloexec \in BOOLEAN : sys_open(p, f, cloexec)
    \/ \E p \in Procs, fd \in Fds : sys_close(p, fd)
    \/ \E p \in Procs, oldfd \in Fds : sys_dup(p, oldfd)
    \/ \E p \in Procs, oldfd, newfd \in Fds : sys_dup2(p, oldfd, newfd)
    \/ \E p \in Procs, fd \in Fds : sys_ioctl(p, fd)
    \/ \E p, c \in Procs, flags \in CloneFlags, t \in Tables, s \in Spaces : do_fork(p, c, flags, t, s)
    \/ \E p \in Procs, flags \in CloneFlags, t \in Tables : fork_fail(p, flags, t)
    \/ \E p \in Procs : do_exit(p)
    \/ \E z \in Procs : process_destroy(z)
    \/ \E p \in Procs, s \in Spaces : do_execve(p, s)
    \/ \E p \in Procs, f \in FileObjs : execve_fail(p, f)

ResSpec == ResInit /\ [][ResNext]_resvars

----------------------------------------------------------------------------
ResTypeOK ==
    /\ life \in [Procs -> {"free", "live", "zombie"}]
    /\ files \in [Procs -> Tables \cup {None}]
    /\ tab \in [Tables -> [refcount : Nat, file : [Fds -> FileObjs \cup {None}],
                           cloexec : SUBSET Fds, next_fd : FirstFd..MaxFds]]
    /\ fobj \in [count : [FileObjs -> Int], open : SUBSET FileObjs]
    /\ mm \in [Procs -> Spaces \cup {None}]
    /\ space \in [ref : [Spaces -> Nat], live : SUBSET Spaces]
    /\ \A p \in Procs : life[p] # "free" => files[p] \in Tables /\ mm[p] \in Spaces
    /\ \A s \in space.live : space.ref[s] > 0

\* No descriptor below next_fd is free, so that fd_alloc returns the lowest free
\* one and its second search never finds any; and only descriptors in use are
\* marked close-on-exec.
LowestFd ==
    \A t \in Tables :
        /\ \A fd \in FirstFd..(tab[t].next_fd - 1) : tab[t].file[fd] # None
        /\ \A fd \in tab[t].cloexec : tab[t].file[fd] # None

Users(t) == {p \in Procs : life[p] # "free" /\ files[p] = t}

\* The reference count of a descriptor table is the number of processes that
\* use it: it is freed with the last of them and not before.
TableRefs == \A t \in Tables : tab[t].refcount = Cardinality(Users(t))

\* What every path that makes, shares, closes or abandons a descriptor table keeps of it,
\* by fork and clone, dup, dup2, execve, exit and their failures.
TablesOK == ResTypeOK /\ LowestFd /\ TableRefs

\* The descriptors, of whatever table, that name the file f.
Descriptors(f) == {d \in Tables \X Fds : tab[d[1]].file[d[2]] = f}

\* "Reference count" (f_count): it covers every descriptor that names the file,
\* so that a file is not freed while a descriptor names it.
FileRefs ==
    \A f \in FileObjs :
        /\ Descriptors(f) # {} => f \in fobj.open
        /\ f \in fobj.open => fobj.count[f] >= Cardinality(Descriptors(f))

\* "Reference count" of an address space: it is the number of the processes
\* that run in it, and the address space exists as long as there is one.
SpaceRefs ==
    \A s \in Spaces :
        LET users == {p \in Procs : life[p] # "free" /\ mm[p] = s}
        IN  /\ users # {} => s \in space.live
            /\ s \in space.live => space.ref[s] = Cardinality(users)

\* No file and no address space is freed while a descriptor or a process refers to it,
\* and the last process takes its address space with it, whoever shares them by clone.
CountsOK == FileRefs /\ SpaceRefs

============================================================================
