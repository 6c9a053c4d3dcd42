---------------------------- MODULE MCMemory -------------------------------
(* Pages, heap, address spaces, what the processes hold, and the kernel's  *)
(* tree and bitmap, for TLC.                                               *)
(* The modules share no variable, so one of them moves and the others rest *)
(* in their initial states.                                                *)
EXTENDS Pmm, Slab, AddressSpace, ProcRes, RbTree, BitOps

Region(b, l, a) == [base |-> b, len |-> l, available |-> a]

\* One region beyond the bitmap; a hole in ragged places; overlapping regions; a
\* machine with the zone DMA only.
Maps == {<<Region(0, 24, TRUE)>>,
         <<Region(0, 3, TRUE), Region(3, 5, FALSE), Region(9, 9, TRUE)>>,
         <<Region(0, 9, TRUE), Region(6, 10, TRUE)>>,
         <<Region(0, 13, TRUE), Region(13, 1, FALSE)>>}

\* The legacy area, a kernel that starts in mid-page, a module that overlaps it.
Taboo == <<Region(0, 2, FALSE), Region(3, 2, FALSE), Region(4, 1, FALSE)>>

CacheList == <<"c8", "c16", "one">>
Objects == [c8 |-> 2, c16 |-> 2, one |-> 1]
ObjWords == [c8 |-> 1, c16 |-> 2, one |-> 4]

\* With the calls that spoil the counts of the files and of the address spaces.
MCShareAll == SUBSET {"VM", "FILES"}
MCSpoilingCalls == {"dup", "ioctl", "execve", "threads", "interp"}

VARIABLE part    \* the module that moves

memvars == <<pmmvars, slabvars, asvars, resvars>>
libvars == <<tree, words>>

MCInit ==
    /\ part \in {"pages", "heap", "spaces", "held", "tree", "bits"}
    /\ PmmInit /\ SlabInit /\ AsInit /\ ResInit /\ RbInit /\ BitInit
    /\ files[InitProc] = (CHOOSE t \in Tables : TRUE) /\ mm[InitProc] = (CHOOSE s \in Spaces : TRUE)

\* At most one descriptor of a table is closed by execve.
FewClosed == \A t \in Tables : Cardinality(tab[t].cloexec) <= 1

MCNext ==
    \/ part = "pages" /\ PmmNext /\ UNCHANGED <<part, slabvars, asvars, resvars, libvars>>
    \/ part = "heap" /\ SlabNext /\ UNCHANGED <<part, pmmvars, asvars, resvars, libvars>>
    \/ part = "spaces" /\ AsNext /\ UNCHANGED <<part, pmmvars, slabvars, resvars, libvars>>
    \/ part = "held" /\ ResNext /\ FewClosed' /\ UNCHANGED <<part, pmmvars, slabvars, asvars, libvars>>
    \/ part = "tree" /\ RbNext /\ UNCHANGED <<part, memvars, words>>
    \/ part = "bits" /\ BitNext /\ UNCHANGED <<part, memvars, tree>>

MCSpec == MCInit /\ [][MCNext]_<<part, memvars, libvars>>

MCSym == Permutations(Frames) \cup Permutations(ASpaces)
=============================================================================
