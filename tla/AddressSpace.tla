---------------------------- MODULE AddressSpace ----------------------------
(***************************************************************************)
(* The user half of an address space: its list of areas, its page table    *)
(* and its heap bounds (kernel/mm/vmm.c, arch/x86_64/mm/paging.c).         *)
(*                                                                         *)
(* Addresses are page numbers.  A call runs with the CPU to itself, so it  *)
(* is one step.  An area is a record of the sorted list vma_list; a page   *)
(* table is a function from pages to entries, the three levels above the   *)
(* last one being allocated on the way (and never freed before the end).   *)
(* Page contents, protections and the statistics vma_count and total_vm,   *)
(* which decide nothing about areas and frames, are left out.              *)
(***************************************************************************)
EXTENDS Integers, SequencesExt

CONSTANTS
    ASpaces,     \* struct address_space objects
    FirstSpace,  \* the one a program has just been loaded into
    Frames,      \* page frames
    NoFrame,     \* 0: no frame, an absent entry
    UserEnd,     \* USER_SPACE_END, in pages
    HeapBase,    \* USER_HEAP_BASE, where the search for a gap starts
    Lengths      \* lengths passed to mmap and munmap, in pages

ASSUME AddressSpaceAssumption ==
    /\ FirstSpace \in ASpaces /\ NoFrame \notin Frames
    /\ UserEnd \in Nat /\ HeapBase \in 1..(UserEnd - 1)
    /\ Lengths \subseteq Nat \ {0}

VARIABLES
    aspace,   \* the address spaces
    fused     \* frames allocated by pmm

asvars == <<aspace, fused>>

Pages == 0..(UserEnd - 1)

\* Before vmm_create_address_space; after vmm_destroy_address_space.
BlankSpace == [live |-> FALSE, vma |-> <<>>, pte |-> [p \in Pages |-> NoFrame], brk_start |-> 0, brk_end |-> 0]

----------------------------------------------------------------------------
(* The page table.                                                         *)

mmu_resolve(as, p) == as.pte[p]

\* The frame to[p] mapped at each page p of P.
mmu_map(as, P, to) == [as EXCEPT !.pte = [p \in Pages |-> IF p \in P THEN to[p] ELSE @[p]]]

\* The pages of P without their entries, those that have one.
mmu_unmap(as, P) == [as EXCEPT !.pte = [p \in Pages |-> IF p \in P THEN NoFrame ELSE @[p]]]

\* What pmm_free_page gets back when the pages of P are unmapped.
FramesOf(as, P) == {mmu_resolve(as, p) : p \in P} \ {NoFrame}

\* What pmm_alloc_page, called once for each page of P, may return: frames that
\* are not in F.
Taken(P, F) == {to \in [P -> Frames \ F] : IsInjective(to)}

----------------------------------------------------------------------------
(* The list of areas.                                                      *)

Area(s, e) == [start |-> s, end |-> e]
Covers(v) == v.start..(v.end - 1)

vmm_find_vma(as, p) == {i \in DOMAIN as.vma : p \in Covers(as.vma[i])}

vmm_find_vma_intersection(as, s, e) ==
    {i \in DOMAIN as.vma : as.vma[i].start < e /\ as.vma[i].end > s}

\* The area goes before the first one that does not start below it, unless it
\* overlaps that one or its predecessor (-EEXIST, the space is left as it is).
vmm_insert_vma(as, v) ==
    LET i == Cardinality({j \in DOMAIN as.vma : as.vma[j].start < v.start})
    IN  IF \/ i < Len(as.vma) /\ as.vma[i + 1].start < v.end
           \/ i > 0 /\ as.vma[i].end > v.start
        THEN as
        ELSE [as EXCEPT !.vma = InsertAt(@, i + 1, v)]

vmm_remove_vma(as, i) == [as EXCEPT !.vma = RemoveAt(@, i)]

\* munmap of [s, e): the areas inside go, an area around it is split, the others
\* are trimmed.  A split that cannot allocate the second half (ok is FALSE) keeps
\* the whole area.
RECURSIVE CutFrom(_, _, _, _, _)
CutFrom(as, i, s, e, ok) ==
    IF i > Len(as.vma) \/ as.vma[i].start >= e THEN as
    ELSE LET v == as.vma[i] IN
         IF v.end <= s THEN CutFrom(as, i + 1, s, e, ok)
         ELSE IF v.start >= s /\ v.end <= e THEN CutFrom(vmm_remove_vma(as, i), i, s, e, ok)
         ELSE IF v.start < s /\ v.end > e
              THEN IF ok THEN vmm_insert_vma([as EXCEPT !.vma[i].end = s], [v EXCEPT !.start = e])
                   ELSE as
         ELSE IF v.start < s THEN CutFrom([as EXCEPT !.vma[i].end = s], i + 1, s, e, ok)
         ELSE [as EXCEPT !.vma[i].start = e]

Inside(as, s, e) == {p \in s..(e - 1) : p \in Pages /\ vmm_find_vma(as, p) # {}}

\* The space after munmap; the frames of Inside(as, s, e) have been freed.
Unmapped(as, s, e, ok) == CutFrom(mmu_unmap(as, Inside(as, s, e)), 1, s, e, ok)

----------------------------------------------------------------------------
(* The calls.                                                              *)

vmm_create_address_space == [BlankSpace EXCEPT !.live = TRUE, !.brk_start = HeapBase, !.brk_end = HeapBase]

\* execve has mapped and filled the only segment of a program, page 0; the heap
\* starts behind it.
Loaded(f) ==
    [mmu_map(vmm_insert_vma(vmm_create_address_space, Area(0, 1)), {0}, [p \in {0} |-> f]) EXCEPT
        !.brk_start = 1, !.brk_end = 1]

AsInit == \E f \in Frames :
    /\ aspace = [s \in ASpaces |-> IF s = FirstSpace THEN Loaded(f) ELSE BlankSpace]
    /\ fused = {f}

\* load_elf_image into a space just created.
load(s) ==
    /\ ~aspace[s].live
    /\ \E f \in Frames \ fused :
          aspace' = [aspace EXCEPT ![s] = Loaded(f)] /\ fused' = fused \cup {f}

\* Mutant of vmm_munmap: the frames are freed, their entries stay.
MunmapKeepsEntries(s, a, n, ok) ==
    /\ aspace[s].live
    /\ aspace' = [aspace EXCEPT ![s] = CutFrom(@, 1, a, a + n, ok)]
    /\ fused' = fused \ FramesOf(aspace[s], Inside(aspace[s], a, a + n))

vmm_munmap(s, a, n, ok) ==
    /\ aspace[s].live
    /\ aspace' = [aspace EXCEPT ![s] = Unmapped(@, a, a + n, ok)]
    /\ fused' = fused \ FramesOf(aspace[s], Inside(aspace[s], a, a + n))

\* The lowest gap from the heap base up that n pages fit into.
Gaps(as, n) == {a \in HeapBase..(UserEnd - n) : vmm_find_vma_intersection(as, a, a + n) = {}}

\* mmap at a of n pages; with MAP_FIXED what was there is unmapped first.  There
\* may be no memory for the area.  A file mapping is filled at once: when a frame
\* is missing, a page is mapped already (by brk) or the file cannot be read, all
\* of [a, a + n) is unmapped again, whoever mapped it.
MapAt(s, a, n, file, fixed, ok) ==
    LET as0 == aspace[s]
        as  == IF fixed THEN Unmapped(as0, a, a + n, ok) ELSE as0
        fu  == IF fixed THEN fused \ FramesOf(as0, Inside(as0, a, a + n)) ELSE fused
        new == vmm_insert_vma(as, Area(a, a + n))
        P   == a..(a + n - 1)
    IN  \/ /\ aspace' = [aspace EXCEPT ![s] = as] /\ fused' = fu
        \/ /\ ok /\ ~file
           /\ aspace' = [aspace EXCEPT ![s] = new] /\ fused' = fu
        \/ /\ ok /\ file /\ FramesOf(as, P) = {}
           /\ \E to \in Taken(P, fu) :
                 /\ aspace' = [aspace EXCEPT ![s] = mmu_map(new, P, to)]
                 /\ fused' = fu \cup Range(to)
        \/ /\ ok /\ file
           /\ aspace' = [aspace EXCEPT ![s] = Unmapped(new, a, a + n, ok)]
           /\ fused' = fu \ FramesOf(new, P)

vmm_mmap(s, a, n, file, fixed, ok) ==
    /\ aspace[s].live
    /\ \/ fixed /\ a + n <= UserEnd /\ MapAt(s, a, n, file, fixed, ok)
       \/ /\ ~fixed /\ a = 0     \* the hint is not looked at
          /\ Gaps(aspace[s], n) # {}
          /\ MapAt(s, Min(Gaps(aspace[s], n)), n, file, fixed, ok)

\* brk downwards: the pages given back are unmapped, in an area or not.
brk_shrink(s, new) ==
    LET as == aspace[s] IN
    /\ as.live /\ new >= as.brk_start /\ new < as.brk_end
    /\ aspace' = [aspace EXCEPT ![s] = [mmu_unmap(as, new..(as.brk_end - 1)) EXCEPT !.brk_end = new]]
    /\ fused' = fused \ FramesOf(as, new..(as.brk_end - 1))

\* brk upwards, page by page: it stops at a page that is mapped or when memory
\* runs out, and then keeps the pages it has mapped but not the new break.
brk_expand(s, new) ==
    LET as   == aspace[s]
        busy == {p \in as.brk_end..(new - 1) : mmu_resolve(as, p) # NoFrame}
    IN  /\ as.live /\ new > as.brk_end
        /\ \E stop \in as.brk_end..Min({new} \cup busy) :
               LET P == as.brk_end..(stop - 1) IN
               \E to \in Taken(P, fused) :
                   /\ aspace' = [aspace EXCEPT ![s] = [mmu_map(as, P, to) EXCEPT
                          !.brk_end = IF stop = new THEN new ELSE @]]
                   /\ fused' = fused \cup Range(to)

\* A fault of the program at page p: only a page of an area that has no entry yet
\* is given one; the others are errors that change nothing.
vmm_handle_page_fault(s, p) ==
    LET as == aspace[s] IN
    /\ as.live
    /\ vmm_find_vma(as, p) # {} /\ mmu_resolve(as, p) = NoFrame
    /\ \E to \in Taken({p}, fused) :
           /\ aspace' = [aspace EXCEPT ![s] = mmu_map(as, {p}, to)]
           /\ fused' = fused \cup Range(to)

\* The pages of areas that have a frame.
Mapped(as) == {p \in Pages : mmu_resolve(as, p) # NoFrame /\ vmm_find_vma(as, p) # {}}

\* fork: areas and bounds are copied, and a frame for each mapped page of an area.
\* When memory runs out, the frames already taken stay allocated.
vmm_clone_address_space(s, t) ==
    LET as == aspace[s]
        P  == Mapped(as)
    IN  /\ as.live /\ ~aspace[t].live
        /\ \/ \E to \in Taken(P, fused) :
                 /\ aspace' = [aspace EXCEPT ![t] = mmu_map(mmu_unmap(as, Pages), P, to)]
                 /\ fused' = fused \cup Range(to)
           \/ \E Q \in SUBSET P : \E to \in Taken(Q, fused) :
                 /\ Q # P /\ \A p \in Q, q \in P \ Q : p < q
                 /\ fused' = fused \cup Range(to)
                 /\ UNCHANGED aspace

\* Areas and page table go; the frames of the pages stay allocated.
vmm_destroy_address_space(s) ==
    /\ aspace[s].live
    /\ aspace' = [aspace EXCEPT ![s] = BlankSpace]
    /\ UNCHANGED fused

AsNext == \E s \in ASpaces :
    \/ load(s) \/ vmm_destroy_address_space(s)
    \/ \E t \in ASpaces : vmm_clone_address_space(s, t)
    \/ \E a \in Pages, n \in Lengths :
           \/ \E ok \in BOOLEAN : vmm_munmap(s, a, n, ok)
           \/ \E file, fixed, ok \in BOOLEAN : vmm_mmap(s, a, n, file, fixed, ok)
    \/ \E new \in 1..UserEnd : brk_shrink(s, new) \/ brk_expand(s, new)
    \/ \E p \in Pages : vmm_handle_page_fault(s, p)

AsSpec == AsInit /\ [][AsNext]_asvars

----------------------------------------------------------------------------
(* Properties.                                                             *)

\* mmap, munmap (with its splits and trims) and fork keep the list of areas
\* sorted and disjoint, as the early exits of vmm_find_vma and of munmap rely on.
AreasOK == \A s \in ASpaces : LET v == aspace[s].vma IN
    /\ \A i \in DOMAIN v : v[i].start < v[i].end /\ v[i].end <= UserEnd
    /\ \A i \in 1..(Len(v) - 1) : v[i].end <= v[i + 1].start

\* Whatever brk, mmap, munmap, faults and fork do to one another, no frame a page
\* table points to is free for the next pmm_alloc_page, and none is mapped twice.
FramesOK ==
    /\ \A s \in ASpaces : FramesOf(aspace[s], Pages) \subseteq fused
    /\ \A s, t \in ASpaces, p, q \in Pages :
           mmu_resolve(aspace[s], p) = mmu_resolve(aspace[t], q) /\ mmu_resolve(aspace[s], p) # NoFrame
               => s = t /\ p = q

\* Both: the areas that faults are looked up in, and the pages that they and brk map.
SpacesOK == AreasOK /\ FramesOK

=============================================================================
