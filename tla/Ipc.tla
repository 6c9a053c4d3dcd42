-------------------------------- MODULE Ipc --------------------------------
(* System V style message queues (ipc/msgqueue.c) and shared memory        *)
(* segments (ipc/shm.c): two tables of slots that the lowest free one is   *)
(* taken from. Users of the functions are processes with page tables and   *)
(* VMAs. shmat maps pages without making a VMA, and may do so where one    *)
(* is: vmm_munmap then frees the pages of the segment with those of the    *)
(* VMA.                                                                    *)
EXTENDS Naturals, SequencesExt, FiniteSets

CONSTANTS
    Slots,       \* indices of queue_table and of shm_table
    IpcKeys,     \* keys; 0 is IPC_PRIVATE
    MsgTypes,    \* types of messages, without 0
    MaxMessages, \* max_messages of a queue
    MsgSizes,    \* sizes of messages and of receive buffers
    MaxSerial,   \* bound of the model: messages sent
    Tasks,       \* processes
    Pages,       \* physical pages that pmm_alloc_page can hand out
    MaxAttach,   \* bound of the model: attachments of a segment
    UserPages    \* pages of a process from 0x40000000 on: 0 .. UserPages - 1

ASSUME IpcAssumption == 0 \notin MsgTypes /\ Slots \subseteq Nat /\ Pages \subseteq Nat \ {0}

VARIABLES
    queues,  \* queue_table
    serial,  \* how many messages were sent
    shm,     \* shm_table
    ptab,    \* the page tables of the processes; 0 where nothing is mapped
    vmas,    \* the pages that the VMAs of the processes cover
    pool,    \* the pages that pmm has free
    torn     \* vmm_munmap has freed a page of a segment

taskvars == <<ptab, vmas>>
pagevars == <<shm, ptab, vmas, pool, torn>>
ipcvars == <<queues, serial, pagevars>>

Empty == [used |-> FALSE]
LowestFree(table) == LET free == {s \in Slots : ~table[s].used} IN IF free = {} THEN {} ELSE {Min(free)}

PagesInit ==
    /\ shm = [s \in Slots |-> Empty] /\ pool = Pages /\ torn = FALSE
    /\ ptab = [t \in Tasks |-> [v \in 0 .. UserPages - 1 |-> 0]] /\ vmas = [t \in Tasks |-> {}]

IpcInit == queues = [s \in Slots |-> Empty] /\ serial = 0 /\ PagesInit

HasKey(table, k) == {s \in Slots : table[s].used /\ table[s].key = k}

-----------------------------------------------------------------------------
(* Message queues. got remembers the last message of each type that was    *)
(* received.                                                               *)

msgqueue_create(k) ==
    /\ k = 0 \/ HasKey(queues, k) = {}
    /\ \E s \in LowestFree(queues) :
          queues' = [queues EXCEPT ![s] = [used |-> TRUE, key |-> k, messages |-> <<>>, current_messages |-> 0,
                                           current_bytes |-> 0, got |-> [y \in MsgTypes |-> 0]]]
    /\ UNCHANGED <<serial, pagevars>>

msgqueue_destroy(s) ==
    /\ queues[s].used
    /\ queues' = [queues EXCEPT ![s] = Empty]
    /\ UNCHANGED <<serial, pagevars>>

msgqueue_send(s, type, size) ==
    /\ queues[s].used /\ queues[s].current_messages < MaxMessages /\ serial < MaxSerial
    /\ serial' = serial + 1
    /\ queues' = [queues EXCEPT ![s].messages = Append(@, [type |-> type, size |-> size, no |-> serial + 1]),
                                ![s].current_messages = @ + 1, ![s].current_bytes = @ + size]
    /\ UNCHANGED pagevars

\* Mutant: the newest message of the type.
MatchingLast(Q, type, except) ==
    SelectLastInSeq(Q.messages, LAMBDA m : type = 0 \/ m.type = type \/ except)

\* With MSG_EXCEPT the first message of whatever type is taken.
Matching(Q, type, except) ==
    SelectInSeq(Q.messages, LAMBDA m : type = 0 \/ m.type = type \/ except)

\* A message that does not fit stays in the queue, unless MSG_NOERROR cuts it off.
msgqueue_recv(s, type, size, except, noerror) ==
    LET Q == queues[s]
        i == Matching(Q, type, except)
        m == Q.messages[i]
    IN  /\ Q.used /\ i # 0
        /\ m.size <= size \/ noerror
        /\ queues' = [queues EXCEPT ![s] = [Q EXCEPT !.messages = RemoveAt(@, i), !.current_messages = @ - 1,
                                                     !.current_bytes = @ - m.size, !.got[m.type] = m.no]]
        /\ UNCHANGED <<serial, pagevars>>

-----------------------------------------------------------------------------
(* Shared memory.                                                          *)

Living == {s \in Slots : shm[s].used}
InShm == UNION {Range(shm[s].pages) : s \in Living}

\* An existing key is not created again; too few free pages: all are given back.
shmget(k, n) ==
    /\ k = 0 \/ HasKey(shm, k) = {}
    /\ \E s \in LowestFree(shm), take \in SetToAllKPermutations(pool) :
          /\ Len(take) = n
          /\ shm' = [shm EXCEPT ![s] = [used |-> TRUE, key |-> k, nattach |-> 0, pages |-> take]]
          /\ pool' = pool \ Range(take)
    /\ UNCHANGED <<queues, serial, taskvars, torn>>

\* The address is any that the caller names. Without one, the search steps over addresses
\* by the size of the segment and asks whether a VMA covers the first page only, so it too
\* may end where a VMA covers another. mmu_map refuses a page that has an entry, and the
\* pages mapped before it are unmapped again.
shmat(t, s, v) ==
    LET n == Len(shm[s].pages)
    IN  /\ shm[s].used /\ shm[s].nattach < MaxAttach /\ v + n <= UserPages
        /\ \A i \in 0 .. n - 1 : ptab[t][v + i] = 0
        /\ ptab' = [ptab EXCEPT ![t] = [w \in DOMAIN @ |-> IF w \in v .. v + n - 1 THEN shm[s].pages[w - v + 1] ELSE @[w]]]
        /\ shm' = [shm EXCEPT ![s].nattach = @ + 1]
        /\ UNCHANGED <<queues, serial, vmas, pool, torn>>

\* The first segment that the page mapped at v is the first page of. (nattach has 64 bits:
\* -1 is 2^64 - 1.)
shmdt(t, v) ==
    LET at == {s \in Living : ptab[t][v] = shm[s].pages[1]}
        s == Min(at)
    IN  /\ at # {}
        /\ ptab' = [ptab EXCEPT ![t] = [w \in DOMAIN @ |-> IF w \in v .. v + Len(shm[s].pages) - 1 THEN 0 ELSE @[w]]]
        /\ shm' = [shm EXCEPT ![s].nattach = @ - 1]
        /\ UNCHANGED <<queues, serial, vmas, pool, torn>>

\* IPC_RMID.
shmctl(s) ==
    /\ shm[s].used /\ shm[s].nattach = 0
    /\ shm' = [shm EXCEPT ![s] = Empty]
    /\ pool' = pool \cup Range(shm[s].pages)
    /\ UNCHANGED <<queues, serial, taskvars, torn>>

\* A process ends with segments attached: nattach is not told, and no page is freed
\* (vmm_destroy_address_space).
exit_attached(t) ==
    /\ ptab' = [ptab EXCEPT ![t] = [v \in DOMAIN @ |-> 0]]
    /\ vmas' = [vmas EXCEPT ![t] = {}]
    /\ UNCHANGED <<queues, serial, shm, pool, torn>>

\* Memory of the process itself (AddressSpace has all of it): a new area where there is
\* none, whatever the page table holds there; a page of it that is touched first.
vmm_mmap(t, v) ==
    /\ vmas' = [vmas EXCEPT ![t] = @ \cup {v}]
    /\ UNCHANGED <<queues, serial, shm, ptab, pool, torn>>

vmm_handle_page_fault(t, v) ==
    /\ v \in vmas[t] /\ ptab[t][v] = 0
    /\ \E p \in pool : ptab' = [ptab EXCEPT ![t][v] = p] /\ pool' = pool \ {p}
    /\ UNCHANGED <<queues, serial, shm, vmas, torn>>

\* What is mapped in the area is freed, whoever mapped it.
vmm_munmap(t, v) ==
    /\ v \in vmas[t]
    /\ vmas' = [vmas EXCEPT ![t] = @ \ {v}]
    /\ ptab' = [ptab EXCEPT ![t][v] = 0]
    /\ pool' = pool \cup ({ptab[t][v]} \ {0})
    /\ torn' = (torn \/ ptab[t][v] \in InShm)
    /\ UNCHANGED <<queues, serial, shm>>

MsgNext ==
    \/ \E k \in IpcKeys : msgqueue_create(k)
    \/ \E s \in Slots :
          \/ msgqueue_destroy(s)
          \/ \E y \in MsgTypes, z \in MsgSizes : msgqueue_send(s, y, z)
          \/ \E y \in MsgTypes \cup {0}, z \in {0} \cup MsgSizes, e, n \in BOOLEAN : msgqueue_recv(s, y, z, e, n)

ShmNext ==
    \/ \E k \in IpcKeys, n \in 1 .. 2 : shmget(k, n)
    \/ \E s \in Slots : shmctl(s)
    \/ \E t \in Tasks :
          \/ exit_attached(t)
          \/ \E v \in 0 .. UserPages - 1 :
                \/ vmm_mmap(t, v) \/ vmm_munmap(t, v) \/ vmm_handle_page_fault(t, v)
                \/ shmdt(t, v) \/ \E s \in Slots : shmat(t, s, v)

\* The two tables have nothing in common: one moves while the other is empty. Bound of the
\* model: nothing is said of a machine whose segments are torn, and nothing follows.
IpcNext ==
    \/ PagesInit /\ MsgNext
    \/ queues = [s \in Slots |-> Empty] /\ serial = 0 /\ ~torn /\ ShmNext

-----------------------------------------------------------------------------

\* A queue counts its messages and bytes, stays below its limit, and hands out the messages of
\* a type in the order they were sent; no two queues or segments have the same key. A page
\* is of one segment, free, or a process's own, and a process has only pages of living
\* segments mapped besides its own (shmctl frees only what nobody has attached) - until a
\* process that attached a segment inside one of its VMAs unmaps that VMA, which frees
\* pages that the segment still has.
IpcOK ==
    /\ \A s \in Slots : queues[s].used =>
          LET Q == queues[s]
          IN  /\ Q.current_messages = Len(Q.messages) /\ Q.current_messages <= MaxMessages
              /\ Q.current_bytes = FoldLeft(LAMBDA n, m : n + m.size, 0, Q.messages)
              /\ \A i \in DOMAIN Q.messages : Q.messages[i].no > Q.got[Q.messages[i].type]
    /\ \A k \in IpcKeys \ {0} : Cardinality(HasKey(queues, k)) <= 1 /\ Cardinality(HasKey(shm, k)) <= 1
    /\ ~torn =>
          /\ \A s, r \in Living : s # r => Range(shm[s].pages) \cap Range(shm[r].pages) = {}
          /\ pool \cap InShm = {}
          /\ \A t \in Tasks : \A v \in 0 .. UserPages - 1 :
                /\ ptab[t][v] \notin pool
                /\ ptab[t][v] \in {0} \cup InShm \/ v \in vmas[t]
=============================================================================
