-------------------------------- MODULE Pmm --------------------------------
(***************************************************************************)
(* Physical pages (kernel/mm/pmm.c) and their discovery at boot            *)
(* (arch/x86_64/mm/physmem.c): one bitmap for all zones, a count of free   *)
(* pages for each zone and for the machine, and an owner for each page.    *)
(* Addresses are in units of half a page, so that regions can be ragged.   *)
(***************************************************************************)
EXTENDS Integers, Sequences, FiniteSets

CONSTANTS
    MemoryMaps,  \* lists of [base, len, available] a boot loader may pass
    BitmapPages, \* what initial_bitmap has room for
    DmaEnd,      \* 0x1000, first page above the zone DMA
    NormalEnd,   \* 0x100000, first page above the zone Normal
    Reserved,    \* [base, len] of the legacy area, kernel, boot information, modules, in order
    MetaPages,   \* pages taken by the array of struct page
    PageCounts   \* counts passed to pmm_alloc_pages

ASSUME PmmAssumption ==
    /\ {BitmapPages, DmaEnd, NormalEnd, MetaPages} \subseteq Nat \ {0}
    /\ DmaEnd < NormalEnd /\ PageCounts \subseteq Nat \ {0}

VARIABLES
    pmap,    \* the memory map of this machine, <<>> before pmm_init
    pm,      \* bitmap, counters and page owners
    pheld    \* the blocks <<first page, count>> the callers hold

pmmvars == <<pmap, pm, pheld>>

PageSize == 2
Up(a) == (a + PageSize - 1) \div PageSize
Down(a) == a \div PageSize

Zones == {"DMA", "Normal", "High"}

\* The limits of the zones once total_pages is known (pmm_init_bitmap).
Zone(total) ==
    [DMA    |-> 0..((IF total > DmaEnd THEN DmaEnd ELSE total) - 1),
     Normal |-> IF total > NormalEnd THEN DmaEnd..(NormalEnd - 1)
                ELSE IF total > DmaEnd THEN DmaEnd..(total - 1) ELSE {},
     High   |-> IF total > NormalEnd THEN NormalEnd..(total - 1) ELSE {}]

Highest(m) == LET E == {m[i].base + m[i].len : i \in DOMAIN m} IN CHOOSE a \in E : \A b \in E : b <= a

\* physmem_init counts the pages up to the highest address, pmm_init_bitmap caps them.
TotalPages(m) == IF Highest(m) \div PageSize > BitmapPages THEN BitmapPages ELSE Highest(m) \div PageSize

zones == Zone(IF pmap = <<>> THEN 0 ELSE TotalPages(pmap))
Managed(Z) == UNION {Z[z] : z \in Zones}

pmm_init_bitmap(Z) ==
    [used |-> Managed(Z), zfree |-> [z \in Zones |-> 0], free_pages |-> 0, usable |-> 0,
     owner |-> [p \in Managed(Z) |-> "none"]]

\* Pages P become free: their bits are cleared and counted, once.
Release(Z, s, P) ==
    LET Q == P \cap s.used
    IN  [s EXCEPT !.used = @ \ Q, !.free_pages = @ + Cardinality(Q),
                  !.zfree = [z \in Zones |-> @[z] + Cardinality(Q \cap Z[z])],
                  !.owner = [p \in DOMAIN @ |-> IF p \in Q /\ @[p] # "none" THEN "free" ELSE @[p]]]

\* Pages P, all in the zone z when they are allocated, become used.
Claim(Z, s, P, who) ==
    LET Q == (P \cap Managed(Z)) \ s.used
    IN  [s EXCEPT !.used = @ \cup Q, !.free_pages = @ - Cardinality(Q),
                  !.zfree = [z \in Zones |-> @[z] - Cardinality(Q \cap Z[z])],
                  !.owner = [p \in DOMAIN @ |-> IF p \in Q /\ @[p] # "none" THEN who ELSE @[p]]]

\* Only the whole pages of an available region.
pmm_mark_region_free(Z, s, base, size) ==
    LET P == (Up(base)..(Down(base + size) - 1)) \cap Managed(Z)
    IN  [Release(Z, s, P) EXCEPT !.usable = @ + Cardinality(P \cap s.used)]

\* Every page a reserved region touches.
pmm_mark_region_used(Z, s, base, size) == Claim(Z, s, Down(base)..(Up(base + size) - 1), "kernel")

RECURSIVE MarkFree(_, _, _), MarkUsed(_, _, _)
MarkFree(Z, s, m) ==
    IF m = <<>> THEN s
    ELSE MarkFree(Z, IF Head(m).available THEN pmm_mark_region_free(Z, s, Head(m).base, Head(m).len) ELSE s, Tail(m))
MarkUsed(Z, s, r) ==
    IF r = <<>> THEN s ELSE MarkUsed(Z, pmm_mark_region_used(Z, s, Head(r).base, Head(r).len), Tail(r))

physmem_init(m) == LET Z == Zone(TotalPages(m)) IN MarkUsed(Z, MarkFree(Z, pmm_init_bitmap(Z), m), Reserved)

----------------------------------------------------------------------------
\* Where a run of n free pages of the zone starts: the lowest place.
bitmap_find_free_region(s, Pz, n) ==
    LET R == {p \in Pz : \A i \in 0..(n - 1) : p + i \in Pz \ s.used}
    IN  {p \in R : \A q \in R : p <= q}

\* pmm_alloc_pages_zone: the start of the block taken, or {}.
InZone(Z, s, n, z) == IF s.zfree[z] < n THEN {} ELSE bitmap_find_free_region(s, Z[z], n)

\* Normal first, then High, then DMA; {} when all fail.
pmm_alloc_pages(Z, s, n) ==
    IF InZone(Z, s, n, "Normal") # {} THEN InZone(Z, s, n, "Normal")
    ELSE IF InZone(Z, s, n, "High") # {} THEN InZone(Z, s, n, "High")
    ELSE InZone(Z, s, n, "DMA")

OwnerFor(Z, p) == IF p \in Z.DMA THEN "dma" ELSE "kernel"
Block(p, n) == p..(p + n - 1)

\* The array of struct page: every page starts out as reserved by the kernel,
\* the free ones too; no room for it is a panic.
pmm_init_page_metadata(Z, s) ==
    LET B == pmm_alloc_pages(Z, s, MetaPages)
    IN  IF B = {} THEN {}
        ELSE {[Claim(Z, s, Block(p, MetaPages), "kernel") EXCEPT !.owner = [q \in DOMAIN @ |-> "kernel"]] : p \in B}

PmmInit == pmap = <<>> /\ pm = pmm_init_bitmap(Zone(0)) /\ pheld = {}

pmm_init == \E m \in MemoryMaps :
    /\ pmap = <<>>
    /\ pmap' = m
    /\ pm' \in pmm_init_page_metadata(Zone(TotalPages(m)), physmem_init(m))
    /\ UNCHANGED pheld

\* Mutant of pmm_alloc: the count of the zone does not follow.
AllocUncounted(n) == \E p \in pmm_alloc_pages(zones, pm, n) :
    /\ pmap # <<>>
    /\ pm' = [Claim(zones, pm, Block(p, n), OwnerFor(zones, p)) EXCEPT !.zfree = pm.zfree]
    /\ pheld' = pheld \cup {<<p, n>>}
    /\ UNCHANGED pmap

pmm_alloc(n) == \E p \in pmm_alloc_pages(zones, pm, n) :
    /\ pmap # <<>>
    /\ pm' = Claim(zones, pm, Block(p, n), OwnerFor(zones, p))
    /\ pheld' = pheld \cup {<<p, n>>}
    /\ UNCHANGED pmap

\* pmm_free_pages of a block in use; a second pmm_free_page changes nothing.
pmm_free_pages(b) ==
    /\ b \in pheld
    /\ pm' = Release(zones, pm, Block(b[1], b[2]))
    /\ pheld' = pheld \ {b}
    /\ UNCHANGED pmap

PmmNext == pmm_init \/ \E n \in PageCounts : pmm_alloc(n) \/ \E b \in pheld : pmm_free_pages(b)

PmmSpec == PmmInit /\ [][PmmNext]_pmmvars

----------------------------------------------------------------------------
\* The whole pages of available memory, less every page a reserved region touches.
Allocatable ==
    UNION {Up(pmap[i].base)..(Down(pmap[i].base + pmap[i].len) - 1) : i \in {j \in DOMAIN pmap : pmap[j].available}}
    \ UNION {Down(Reserved[i].base)..(Up(Reserved[i].base + Reserved[i].len) - 1) : i \in DOMAIN Reserved}

\* Whatever the memory map (overlapping or ragged regions, more memory than the
\* bitmap covers), the counters on which pmm_alloc_pages decides are the numbers
\* of clear bits, and blocks handed out are disjoint, inside available memory and
\* clear of the legacy area, the kernel and the modules.
PagesOK ==
    /\ \A z \in Zones : pm.zfree[z] = Cardinality(zones[z] \ pm.used)
    /\ pm.free_pages = Cardinality(Managed(zones) \ pm.used)
    /\ Managed(zones) \ pm.used \subseteq Allocatable
    /\ \A b \in pheld : Block(b[1], b[2]) \subseteq pm.used \cap Allocatable
    /\ \A b, c \in pheld : b # c => Block(b[1], b[2]) \cap Block(c[1], c[2]) = {}
    /\ \A b \in pheld : b[1] # 0 /\ \A p \in Block(b[1], b[2]) : pm.owner[p] # "free"
=============================================================================
