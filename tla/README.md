# Obelisk OS in TLA+

Models of the Obelisk kernel (`src/kernel`) and of the parts of its user land that
keep state in files. TLC checks them on small instances; for the core, TLAPS proves
the same properties for every instance. File and line numbers below are relative to
`src/`; `PROJECT.json` maps every definition to its lines.

## The system

Obelisk is a small uniprocessor x86-64 kernel with its own user land.

| Part | Source | Module | What is hard |
|---|---|---|---|
| Scheduler | `kernel/proc/scheduler.c`, `arch/x86_64/boot/idt.c` | `Scheduler` | ticks against voluntary switches; the idle process; the EOI |
| Processes, signals | `kernel/proc/process.c`, `fork.c` | `Process`, `ProcLife` | parents that exit first, reuse of structs and pids, waits that poll |
| Descriptors, sharing | `process.c`, `fs/file.c`, `fork.c`, `proc/exec.c` | `ProcRes` | tables and memory shared by clone, error paths half way |
| execve | `proc/exec.c` | `Exec` | what each error path gives back; page and stack arithmetic |
| Credentials | `syscall.c`, `exec.c` | `Creds` | long sequences of set\*id calls |
| AF_UNIX sockets | `arch/x86_64/process/syscall.c` | `UnixSockets`, `GapRing`, `ByteRing`, `Fifo` | entries reused while a peer or a ring still names them |
| TCP | `kernel/net/core.c` | `Tcp` | loss, duplicates, reordering, retransmission |
| ARP, DHCP, UDP, ICMP | `kernel/net/core.c` | `NetCore` | late and repeated answers, one ARP entry, one event ring |
| Network drivers | `net/e1000.c`, `r8169.c`, `virtio_net.c` | `Nic` | rings shared with a device |
| Pages, heap | `mm/pmm.c`, `physmem.c`, `mm/kmalloc.c` | `Pmm`, `Slab` | counters kept beside bitmaps, chains and lists |
| Address spaces | `mm/vmm.c`, `mm/paging.c` | `AddressSpace` | splitting and trimming areas, frames freed once |
| Tree, bit search | `lib/rbtree.c`, `lib/bitmap.c` | `RbTree`, `BitOps` | rotations, word boundaries |
| VFS | `fs/vfs.c`, `inode.c`, `dentry.c` | `Vfs`, `Paths` | a reference at every component, on every error path |
| AxiomFS | `fs/axiomfs/file.c`, `dir.c` | `AxiomFile`, `Readdir` | growth, sparse writes, listing while names change |
| read and write | `syscall.c` | `Transfer` | calls that stop half way |
| Policy client | `fs/axiomfs/policy_ipc.c`, `ipc/axiomd_channel.c` | `Policy` | stale answers, a daemon that goes away |
| Message queues, shared memory | `kernel/ipc` | `Ipc` | limits, removal in use, pages that two owners may free |
| Console input | `fs/devfs/devfs.c` | `Input` | interrupt handlers against readers |
| sysctl | `kernel/sysctl` | `Sysctl` | prefixes, conversions |
| Boot | `bootinfo.c`, `initramfs.c`, `initramfs_scan.zig` | `Initramfs` | two parsers of one archive, and two formats of which one is unpacked |
| obeliskd, account tools | `userland/initd/main.d`, `userland/lib`, `userland/bin` | `Boot`, `Accounts` | what a file keeps over a boot; one of several steps that fails |

How they interact: a system call or exception enters through an interrupt gate, so
IF is clear until the return to user mode, and nothing on those paths sets it. The
kernel is therefore atomic between two calls of `schedule()`. A call that must wait
does not block on a queue: it polls, and between two looks it calls
`scheduler_yield()` or `scheduler_sleep_timeout(1)`. The timer interrupt reaches the
CPU only in user mode or in the idle loop. This decides the grain of the models: a
handler is one action, a loop that waits is one action per turn.

## Modules

### Scheduler

| Variable | Code |
|---|---|
| `state` | `p->state`; `"FREE"` is a struct that is not allocated |
| `curr` | `runqueue.curr` |
| `rq` | `runqueue`: the queue of `DEFAULT_PRIO`, `nr_running`, its bit in `bitmap` |
| `slice` | `p->time_slice` |
| `sleepq`, `wake` | `sleep_queue`; `p->wakeup_tick` minus `runqueue.clock`, which keeps the clock finite |
| `mode` | where `p` continues: user code, a system call, or inside `timer_handler` |
| `inService` | the in-service bit of IRQ 0 in the PIC (external, from how `idt.c` uses it) |

| Action | Code |
|---|---|
| `Fork(c)` | `scheduler_enqueue(child)` at the end of `do_fork` |
| `Yield` | `scheduler_yield` |
| `SleepTimeout(ms)` | `scheduler_sleep_timeout` |
| `Return` | the system call returns |
| `Exit` | `scheduler_exit` |
| `Reap(z)` | the list removals of `process_destroy` |
| `TimerIrq` | `irq_handler`, `timer_handler`, `scheduler_tick`, and `schedule()` if asked |
| `IrqReturn` | a process preempted inside `timer_handler` runs again: EOI, `iretq` |

`schedule`, `rr_enqueue`, `rr_dequeue`, `rr_pick_next` and `rr_tick` are operators
named after the functions. Only one priority exists because `process_create` is the
only writer of `priority` that has a caller.

### Process and ProcLife

`Process` extends `Scheduler`: each of its actions conjoins the scheduler action that
the function calls with its own effect on pids, family tree, exit codes and signals.
Its actions carry the names of the C functions. A reaped struct keeps its contents
until it is handed out again (the slab holds one struct, with the free list outside
of it), so parent pointers may dangle in the model as they do in the code.
`fork_fail` is `do_fork` running out of memory after the pid has been taken; a failure
that changes nothing (no struct, no pid, `-ESRCH`, `-EINVAL`) is a stuttering step.
`poll_again` stands for all calls that poll (console, sockets, `poll`, `select`).

`ProcLife` is the abstract specification: a pid is created, terminates once with a
code, and is collected once with that code in the wait status. `Process` implements
it under the mapping `lives`, which reads the process table.

### ProcRes

What a process holds. `files` and `mm` are the pointers in `struct process`, `tab` the
descriptor tables, `fobj` the struct files with their counts, `space` the address spaces
with theirs. The actions are the descriptor calls, `do_fork` with its clone flags and
its failure after the tables were copied, `do_exit`, `process_destroy`, and `execve`
with the failure after the interpreter was opened. A freed struct may be handed out
again at once; a dangling pointer then shares it. `Syscalls` and `CloneFlags` say which
calls the programs of a run make. `memory` has those that spoil the counts, because the
tables stay right all the same; `files` leaves out
`ioctl`, which frees a file in use (`procres_ioctl`), and execve by a process that shares
its address space, which `do_execve` destroys without looking at the count
(`exec.c:1814`). The model also follows the code where it only leaks: execve clears
close-on-exec descriptors without dropping the reference, and its failures after the
interpreter was opened leave that file open. `FileRefs` therefore says that a count is
never too low, not that it is exact.

### Fifo, GapRing and ByteRing

`Fifo` is a bounded queue. `GapRing` is the ring with head, tail and an empty slot that
five places of the kernel share, with the three ways of pushing (refuse, drop the
oldest, drop the new one), a take from the middle and a flush. `ByteRing` is the receive
buffer of an AF_UNIX socket. Both implement `Fifo`.

### UnixSockets

The socket table of `syscall.c` for AF_UNIX streams; the rings are sequences, which
`GapRing` and `ByteRing` justify. Each call is one step since none of them waits in the
kernel. `given` and `alive` are ghosts: the entries a program has been given a
descriptor of, and the programs that run. `Habits` names what programs do beyond the usual: exit with
sockets open, drop a listener, pass bad memory, or connect a connected socket again
(`"reconnect"`), which `sys_connect` allows and which leaves the first peer with one end.

### Tcp

One connection of `net/core.c` and the system calls that wait for it, one step per turn
of their loops. `net_tick` is one operator, as in the code: the timers, then what the
driver hands in. It is taken by every turn of a loop and by `irq_tick`. The remote host
and the network are external: what may arrive (`MayArrive`) is everything a correct
host in the state `remote` may ever have sent, so loss, duplication and reordering need
no state of their own. Segments to the remote host stay in `toRemote` and may be taken
again at any time; mere acknowledgements are not kept since the remote host of the
model does not wait for any. `arp`, whether the one ARP entry is that of the next hop,
may change at any tick. Sequence numbers are counted from the initial ones and do not
wrap: a connection of the model carries less than 2^32 bytes.

### Memory

`Pmm`: `pmap` is the memory map of the machine, `pm` the bitmap with its counters and
owners, `pheld` the blocks callers hold; addresses are in half pages so that regions can
be ragged. `Slab`: `heap` holds the lists and the chains of free objects of each cache;
`krealloc` composes its two halves on that record, and `kept` is how much it had to copy
and how much it copied: `kmalloc_usable_size` reports the size of the smallest class for
every object, so a longer one loses all but its first 8 bytes. `AddressSpace`: `aspace` holds for
each space the sorted `vma_list`, the page table and the heap bounds, `fused` the frames
taken from `pmm`; page contents and protections are left out. `RbTree` and `BitOps` are
pure algorithms: every loop of the code a recursion, checked against the definition of a
red-black tree and against a scan bit by bit. Trees have no two equal keys. `bitmap_set`
and `bitmap_clear` leave bits out when a range begins inside a word and ends before the
word does, because the last mask does not count from the start (`bitmap.c:196`); the
model does the same, and `SearchOK` is about the searches on whatever is set.

### Files and messages

`Vfs`: one record `fs` of dentries, inodes, mount table and superblocks that the
operators take and return; every `dget`, `dput`, `ihold` and `iput` changes a count in
it. References that the code loses on failing mounts are kept in `fs.lost`, so that
`VfsOK` can say what every other count is. `Drop` is `list_del` and no more, as in
`axiomfs_unlink`: the reference of creation stays (`vfs_unlinked`). The root of a mounted
file system can be removed, although `vfs.c:826` means to forbid it: the lookup has
already crossed the mount when `vfs_is_mountpoint` looks at its result. `Paths` turns relative paths into absolute
ones by climbing, as `syscall.c` does, and walks them again; a removed directory stays
in the parent pointers of what is below it. `AxiomFile` is the contents
of one file; fresh memory holds `Junk`. `Readdir` lists a directory by position, in calls
with buffers of any size, while entries come and go; `..` is never listed, because the
record of `.` moves the position on by one more. `Transfer` is read, pread64, write and writev in chunks.
`Policy`: the decision cache, the two queues of the channel, the wait for an answer; the
daemon is external and may allow or deny, in time, late, or never. `Ipc`: both tables of
System V IPC, with page tables and VMAs of the processes that attach segments; `torn`
records that an unmapping has freed pages of a segment, which happens when a segment was
attached inside a VMA (`shmat` looks at no VMA), and after which nothing is claimed of
pages. `Input`: controller, both interrupt handlers, the rings and their readers. The
mouse's interrupt is taken in two steps, entry and handler: a poll of the console that
throws a mouse byte away leaves its interrupt pending, and the handler then takes
whatever byte has come since (`seen.threw`).
`Nic`: the rings of the three drivers; the device is external.

### Programs, boot and network

`Exec`: the whole of `do_execve`, step by step, with what the call holds at each
(`x`), the image (`img`), the stack (`stk`) and the relocations of the interpreter
(`relr`). `Creds`: the ids of each process, with ghosts `lu` and `lg` for the ids it
holds by right. `Sysctl`: the tree, the bytes of the variables and the conversions.
`Initramfs`: an archive built block by block, the scanner and the unpacking. The scanner
also accepts cpio archives, which the unpacking reads as if they were tar; what their
bytes say is left open.
`NetCore`: device, ARP entry, DHCP client, event rings and the loops of UDP and ICMP
sockets; a packet that was ever sent may arrive at any time, any number of times. A DHCP
acknowledgement is not compared with the lease that was requested, in the model as in
the code. `Boot`: obeliskd and boot-state.json over power cycles; the root is in memory
(`kernel/main.c:203`), so `power_on` fills it from `image`, which the boot loader brings.
`vfs_open` does not truncate, but as the state is written with the same keys in the same
order and the loader takes the first place of a key, a file that was saved reads back as
saved. `Accounts`: the account tools, killed between any two system calls; `sys_rename`
of this kernel returns `-ENOSYS`.

### Modules for TLC

Modules that share no variable are checked in one run: a variable `part`, fixed by the
initial state, says which of them moves while the others rest in their initial states,
so that the state spaces add up instead of multiplying. `MCCalls`, `MCQueues`,
`MCMemory`, `MCFiles` and `MCSystem` are such sums; `MCProcess`, `MCProcRes`, `MCVfs` and
`MCScheduler` instantiate one module. Where a module has several initial states that
another part does not need, `MCInit` fixes one.

## Runs

| Run | Bounds | Shows |
|---|---|---|
| `process` | 3 structs, `PidMax` 5, waits for any child and for pid 3, with fairness | `ProcOK`: pid table, family tree, queues; `ImplementsLife`; `FairShare` and `WaitReturns`: every READY process runs and a wait for a terminated child returns, if nobody keeps the CPU for ever |
| `calls` | 2 structs, signals 2 and 15, one maskable and ignorable; 3 sockets, 2 programs, 2 bytes | `DeliveryComplete`: delivery leaves nothing deliverable behind; exit by signal keeps the life cycle; `SocketsOK`: ends stay paired although entries are reused, bytes come from the peer, poll tells the truth; `EofFinal` |
| `queues` | 4 structs, slice 2; a gap ring of 4 slots; a byte ring of 5 with copies up to 4; 4 sockets, 1 program | `SchedulerOK`, `NoOvertaking`, `WorkConserving`; `GapIsFifo` and `ImplementsFifo`; a connect refused by a full pending ring leaves nothing behind |
| `memory` | 16 half pages and 4 memory maps; 3 caches; 2 spaces of 3 pages, 3 frames; 2 processes, 1 file, 2 descriptors beyond the reserved one, with `ioctl` and every execve; trees of 8 keys; 2 words of 4 bits | `PagesOK`, `SlabsOK`, `SpacesOK`, `RbOK`, `SearchOK`; `TablesOK`: table counts exact, `fd_alloc` returns the lowest free descriptor |
| `files` | 4 dentries, 2 names, 2 callers; 4 archive blocks, 3 tags; 2 processes, 2 files, 2 tables, 3 address spaces, all clone flags; 2 open files of 5 bytes; 2 keys, 2 queries, 3 ticks; 2 slots of each IPC table, 2 processes of 2 pages; rings of 2 and 3; 3 entries, buffers of 1 to 3; chunks of 2 bytes | `VfsOK`, `ImportOK`, `DecisionsOK`, `IpcOK`, `InputOK`, `ListingOK`, `TransferOK`, `FileOK`; `CountsOK`: no file is freed while a descriptor names it, no address space while a process runs in it |
| `system` | 2 segments, 2 strings, 3 RELR words; 2 leases, 1 socket, or 2 sockets and 4 datagrams; TCP streams of 3 and 2 bytes, segments of 2, buffer of 2, 2 retries, with fairness; descriptor rings of 3, 4 frames each way; 2 processes and ids 0, 1; 9 variables; 4 directories | `ExecOK`, `NetOK`, `NicOK`, `CredsOK`, `SysctlOK`, `RelativeOK`; `StreamsOK`: both streams arrive in order without gap or repetition, one segment in flight; `PendingEnds`: a lost segment does not stay pending for ever |
| `scheduler_woken` | 3 structs, with fairness | violated: a process that sleeps alone never runs again |
| `procres_ioctl` | 2 processes | violated: `ioctl` drops a reference it did not take |
| `unix_dangling` | 4 sockets, 2 programs | violated: closing a listener leaves its pending connections open |
| `vfs_unlinked` | as in `files` | violated: a removed file without users is not destroyed |
| `boot_counter` | 6 boots, threshold 3 | violated: xdm is started after three failures in a row |
| `accounts` | 2 tools at a time, 2 runs of tools | violated: `userdel -r` takes the home and leaves the account |

Why the bounds are enough. Three structs are the least with which a parent, a child and
a grandchild, or two siblings and a waiter, exist together; `PidMax` 5 lets `next_pid`
wrap around while zombies hold their pids. A sleep lasts longer and shorter than a tick
in `queues`; in the process runs it ends with the next tick. With three sockets a
listener, a client and an accepted end fill the table, so every entry is reused; the
fourth is what it takes to fill a pending ring. In `system` the TCP stream is longer than a
segment and than the buffer, so that segments are cut, retransmitted and overlap;
`RETRY_TICKS` 2 and `MAX_RETRIES` 2 stand for 200 and 8: only their order against the
turns of a loop matters. In `memory` an area can be split in the middle, and eight keys
reach every case of the rebalancing on both sides. In `files` and `system` each ring, cache and table is
smaller than what is put into it. For the modules with proofs the bounds do not matter.

Bounds that are not the code's: `MaxCount` of `ProcRes` keeps execve from closing a
descriptor of a file whose count is above it (its leak would let counts grow without
end), and `FewClosed` of `files` and `memory` that a table has more than one such
descriptor; `MaxLost`, `MaxQueries`, `MaxTicks`, `MaxSerial`, `MaxAttach`, `MaxSent`,
`MaxOwed`, `MaxFile`, `MaxPos`, `MaxTx`, `MaxRx`, `MaxBoots`, `MaxRuns`, `MaxCount` of
`Sysctl` and `MaxDatagrams` end what the code could do for ever. `Alike`
of `system` restricts `Creds` to one user and one group per process while there are two
processes; `CredsProofs` has no such restriction. `ListFirst` of `system` lets processes
come and go only while the variables of `Sysctl` are as registered: the list of processes
reads none of them. The network of `system` is explored
twice: from the start of the machine, with one socket and one message of each kind on
the way (`OneEach`), and after DHCP has given up, with two sockets that share a ring of
four events (`RingOnly`). The sums do not check deadlock, because their parts end at
the bounds above, and `Tcp` where both sides are done. Symmetry permutes interchangeable
structs and is used in runs without liveness only.

Fairness: weak fairness of the running process while it is in the kernel (interrupts
are off, so it runs on until it returns or switches), weak fairness of the return from
`timer_handler`, strong fairness of the timer interrupt (the PIC latches it, so a
tick that can be delivered again and again is delivered). User code has no fairness:
it may loop. `FairShare` and `WaitReturns` therefore assume explicitly that no process,
and not idle, keeps the CPU for ever; three situations in which one does are listed
below. For TCP, in `system`, the timer interrupt comes again and again and a process in a loop runs
again; `PendingEnds` assumes besides that from some time on the kernel sends no
acknowledgement before a retransmission is due, because each one puts the
retransmission off.

## Where code and documents disagree

- `scheduler_woken`: once idle is current, a tick wakes sleepers but asks for no
  reschedule, so `nanosleep` by the only runnable process never ends
  (`scheduler.c:334`; `docs/desktop-roadmap.md:119` lists it as working).
- `procres_ioctl`: `sys_ioctl` calls `put_file` without a `get_file` (`syscall.c:2885`).
- `unix_dangling`: `sys_close` of a listener forgets its pending connections
  (`syscall.c:1368`; `docs/roadmap.md:292`).
- `vfs_unlinked`: `vfs_unlink` and `vfs_rmdir` never drop the reference that creation
  left, so a removed inode is not destroyed (`vfs.c:901`); the comment at
  `axiomfs/inode.c:426` says its backing is freed when it is.
- `boot_counter`: the failures counted in boot-state.json do not outlive the boot,
  because the root is in memory (`kernel/main.c:204`; `docs/desktop-roadmap.md:198`,
  `docs/roadmap.md:279`: "persistent boot-state tracking").
- `accounts`: `sys_rename` returns `-ENOSYS` (`syscall.c:2392`), so no account tool can
  save, and `userdel -r` has removed the home by then (`userdel.c:77`, against
  `userdel.c:5`). `usermod.c:5` says "Rewrites /etc/passwd and /etc/group atomically."

The code also allows some process, or idle, to keep the CPU for ever:

- idle, once it runs: `timer_handler` asks only others to reschedule;
- a user loop, while another process, preempted inside `timer_handler`, owes the EOI:
  no tick arrives before that process runs again (`idt.c:652`);
- a parent in wait4, if all others sleep: it polls with interrupts off and yields to
  itself, so no tick wakes them (`process.c:664`).

More that the models contain as the code has it: orphans get no new parent, so an
orphaned zombie keeps its pid (`scheduler.c:339`); while the next hop is unresolved each
tick counts as a retry of a TCP SYN that was never sent (`net/core.c:1280`); a TCP
connection that is idle is dropped inside the window of a receive; execve destroys an
address space that others share (`exec.c:1814`); `kfree` never returns an allocation
above the largest cache; a listing skips an entry when another is removed behind its
position.

## Proofs

Seven modules hold the theorems; `PROJECT.json` lists the main ones. Each safety theorem
follows the same pattern: the initial states satisfy an inductive invariant, every action
keeps it (one lemma per action or per function of the code), and it implies the property.
TLC checks the inductive invariants as well: they are the invariants of the runs or parts
of them, apart from the plain type invariants of the rings and of `Creds`. The theorems are about the specifications without fairness, and hold
for every value of the constants that the named `ASSUME`s of the modules allow.

| Theorem | Says | Invariant and argument |
|---|---|---|
| `SpecInv`, `RunQueueSafe`, `EoiSafe` | `SchedulerOK` | inductive as it stands. Lists are injective sequences; the lemmas on `Append`, `\o` and `Unlink` say what `list_add_tail` and `list_del` keep. `SliceLeft` is needed because a tick takes one from the slice before it looks at it |
| `FifoOrder`, `IdleLast` | `NoOvertaking`, `WorkConserving` | action properties from `SchedulerOK` |
| `ProcInv`, `ProcSafe`, `PidTableSafe`, `FamilySafe` | `ProcOK` and its parts | `PInv`: the scheduler's invariant with types, pid table and family tree. These need one another: reaping is safe because a zombie in a children list still has its pid, and a pid is free only when its process is in no list. `WaitHasChild` is inductive relative to `PInv` |
| `ProcImplementsScheduler` | each step of `Process` is one of `Scheduler` or leaves it alone | from `PInv`; the scheduler's theorems therefore hold of processes too |
| `ProcImplementsLife` | `ImplementsLife` | `PInv`, the mapping `lives`, one lemma for each of create, terminate and collect; all other actions stutter |
| `SignalsDelivered` | `DeliveryComplete` | action property from `PInv` |
| `TablesSafe` | `TablesOK` | inductive as it stands. A count is a cardinality, so each action is reduced to one member entering or leaving the set of users |
| `CountsSafe` | `CountsOK` | `TablesOK /\ CountsOK`. `DescSplit` counts the descriptors of one table apart from the others, so that replacing a table changes the count of a file by what that table holds of it (`DescChange`); `Cov` says that counts cover descriptors, and the lemmas about it follow `get_file` and `put_file`. Assumes that programs call no `ioctl` and do not execute while they share an address space: with `ioctl` the property is false (`procres_ioctl`), and with the latter execve frees memory in use |
| `RingTypeSafe`, `RingImplementsFifo` | the byte ring refines `Fifo` | `RingTypeOK`; the proof is about indices modulo the capacity |
| `GapImplementsFifo` | `GapIsFifo` | `GapTypeOK`; a take from the middle moves the entries behind it, which is one lemma on positions relative to the tail |
| `SocketsSafe`, `EofIsFinal` | `SocketsOK`, `EofFinal` | `TableOK`; `PollTruth` follows from it. Assumes `"reconnect" \notin Habits` |
| `StreamsSafe` | `StreamsOK` | inductive as it stands. `net_tick` and the calls pass the connection through several functions; the predicate `Good` is what each of them keeps of the connection and of the segments it sends |
| `CredsSafe` | `CredsOK` | with `CredTypeOK` |

`Process` and `ProcRes` cite the library for well-founded orders, `ProcRes` also for finite
sets, `UnixSockets` and `Tcp` for sequences. In `SchedulerProofs` and `ProcessProofs` many
leaves name a prover and a time limit: their contexts are large, and the default limits
are short for them.

### Only model-checked

- Liveness (`FairShare`, `WaitReturns`, `PendingEnds`): the prover does not handle
  fairness and `ENABLED`.
- `RbTree`, `BitOps`, `Slab`, `Pmm`, `AddressSpace` and `Vfs`, whose loops are
  `RECURSIVE` operators: what a recursion computes for every input needs induction over
  data, which the prover cannot do.
- The invariants of `AxiomFile`, `Readdir`, `Transfer`,
  `Policy`, `Ipc`, `Input`, `Nic`, `Exec`, `Sysctl`, `Paths`, `Initramfs` and `NetCore`:
  no proof has been written for them. The runs `files` and `system` check them
  within the bounds above. `Boot` and `Accounts` state what the documents say, which the
  code does not do.
- `CountsOK` with programs that share an address space and execute, and `SocketsOK` with
  programs that connect twice, are not claimed: the code does not keep them.

## Not modelled

| Part | Why |
|---|---|
| Wireless probing (`net/wifi_*.c`), PCI, power and time | device and firmware tables read once, hardware registers |
| Kernel threads (`kernel/kthread.c`) | no caller |
| Console output and log, `lib/printf.c`, `lib/string.c` | rendering and sequential conversions |
| Zig support routines other than the archive scanner | pure checks of one value; their outcomes are choices in `Exec` and `NetCore` |
| `userland/init` | mounts, and a loop around `wait4` |
| axiomd (Prolog) | an external actor in `Policy` that may allow or deny anything |
| opkg, rockbox, shell, window manager and other programs | host-side or sequential programs |

Left out inside modelled parts: several TCP connections over reused slots, sequence
number wrap-around and checksums; page protections and contents; terminal settings,
sessions, epoll and clocks; messages with several buffers; scheduler functions without
callers (`scheduler_sleep`, `scheduler_wake`, priorities and policies); the block cache of
AxiomFS, which nothing calls. `PROJECT.json` has a note for every component.
