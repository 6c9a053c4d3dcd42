-------------------------------- MODULE Slab --------------------------------
(***************************************************************************)
(* The kernel heap (kernel/mm/kmalloc.c): caches of equal objects, each    *)
(* with a full, a partial and a free list of slabs, and in each slab a     *)
(* chain of free objects.  An allocation above the largest cache takes     *)
(* pages of its own, which kfree, finding no slab for them, never returns. *)
(* The state is one record, so that krealloc can compose its two halves.   *)
(***************************************************************************)
EXTENDS Integers, SequencesExt

CONSTANTS
    Caches,      \* the caches in the order of cache_list
    PerSlab,     \* objects_per_slab of each cache
    Words,       \* object size of each cache, in words of 8 bytes
    FirstCache,  \* size_caches[0], the cache kfree tries first
    SlabMem,     \* pieces of memory a slab can be made of
    Tail32       \* UINT32_MAX, the end of a chain

ASSUME SlabAssumption ==
    /\ FirstCache \in Range(Caches)
    /\ \A c \in Range(Caches) : PerSlab[c] \in Nat \ {0} /\ Words[c] \in Nat \ {0} /\ PerSlab[c] < Tail32

VARIABLES
    heap,   \* lists and slabs, and the objects <<slab, index>> callers hold
    kept    \* words the last krealloc had to keep, and words it kept

slabvars == <<heap, kept>>

CacheSet == Range(Caches)
Lists == {"full", "partial", "free"}

\* Memory that is no slab; what a destroyed slab leaves behind is overwritten.
NoSlab == [inuse |-> 0, free_idx |-> 0, freelist |-> <<>>]

SlabInit ==
    /\ heap = [list |-> [c \in CacheSet |-> [l \in Lists |-> <<>>]],
               slab |-> [s \in SlabMem |-> NoSlab],
               out  |-> {}]
    /\ kept = <<0, 0>>

SlabsOf(h, c) == UNION {Range(h.list[c][l]) : l \in Lists}
Without(q, s) == SelectSeq(q, LAMBDA t : t # s)

\* list_del and list_add: the slab s goes to the head of the list l of its cache.
Move(h, c, s, l) ==
    [h EXCEPT !.list[c] = [k \in Lists |-> IF k = l THEN <<s>> \o Without(@[k], s) ELSE Without(@[k], s)]]

\* slab_create: the chain runs through all objects.
slab_create(h, c, s) ==
    Move([h EXCEPT !.slab[s] = [inuse |-> 0, free_idx |-> 0,
             freelist |-> [i \in 0..(PerSlab[c] - 1) |-> IF i = PerSlab[c] - 1 THEN Tail32 ELSE i + 1]]],
         c, s, "partial")

\* slab_alloc_obj, and the object it returns.
slab_alloc_obj(h, s) ==
    LET i == h.slab[s].free_idx
    IN  [h EXCEPT !.slab[s].inuse = @ + 1, !.slab[s].free_idx = h.slab[s].freelist[i], !.out = @ \cup {<<s, i>>}]

\* Mutant of slab_free_obj: the chain behind the freed object is cut off.
FreeCutsChain(h, s, i) ==
    [h EXCEPT !.slab[s].inuse = @ - 1, !.slab[s].freelist[i] = Tail32, !.slab[s].free_idx = i, !.out = @ \ {<<s, i>>}]

slab_free_obj(h, s, i) ==
    [h EXCEPT !.slab[s].inuse = @ - 1, !.slab[s].freelist[i] = h.slab[s].free_idx, !.slab[s].free_idx = i,
              !.out = @ \ {<<s, i>>}]

\* kmem_cache_alloc: a partial slab, else a free one, else a new one; none is left
\* when the result is empty.
kmem_cache_alloc(h, c) ==
    LET ready == IF h.list[c].partial # <<>> THEN {<<h, h.list[c].partial[1]>>}
                 ELSE IF h.list[c].free # <<>> THEN {<<Move(h, c, h.list[c].free[1], "partial"), h.list[c].free[1]>>}
                 ELSE {<<slab_create(h, c, s), s>> : s \in SlabMem \ UNION {SlabsOf(h, d) : d \in CacheSet}}
        take(g, s) == IF g.slab[s].inuse = PerSlab[c] THEN Move(g, c, s, "full") ELSE g
    IN  {take(slab_alloc_obj(r[1], r[2]), r[2]) : r \in ready}

\* The cache kmem_cache_free works on: the one passed, if it has the object, else
\* the first of cache_list that has it.
find_owner_cache(h, c, s) ==
    IF s \in SlabsOf(h, c) THEN c
    ELSE Caches[CHOOSE k \in DOMAIN Caches :
                    s \in SlabsOf(h, Caches[k]) /\ \A j \in 1..(k - 1) : s \notin SlabsOf(h, Caches[j])]

\* A slab that was full goes to the partial list, even one with a single object.
kmem_cache_free(h, c0, s, i) ==
    LET c == find_owner_cache(h, c0, s)
        g == slab_free_obj(h, s, i)
    IN  IF h.slab[s].inuse = PerSlab[c] THEN Move(g, c, s, "partial")
        ELSE IF g.slab[s].inuse = 0 THEN Move(g, c, s, "free") ELSE g

\* kmalloc of a size that the cache c serves.
kmalloc(c) == heap' \in kmem_cache_alloc(heap, c) /\ UNCHANGED kept

kfree(o) ==
    /\ heap' = kmem_cache_free(heap, FirstCache, o[1], o[2])
    /\ UNCHANGED kept

kmem_cache_shrink(c) ==
    /\ heap.list[c].free # <<>>
    /\ heap' = [heap EXCEPT !.list[c].free = <<>>,
                            !.slab = [s \in SlabMem |-> IF s \in Range(heap.list[c].free) THEN NoSlab ELSE @[s]]]
    /\ UNCHANGED kept

\* The size reported for every object is that of the smallest cache.
kmalloc_usable_size == Words[FirstCache]

Fewer(a, b) == IF a <= b THEN a ELSE b

\* The object o is to have the size that the cache c serves.
krealloc(o, c) ==
    LET d == find_owner_cache(heap, FirstCache, o[1])
    IN  /\ \E h \in kmem_cache_alloc(heap, c) : heap' = kmem_cache_free(h, FirstCache, o[1], o[2])
        /\ kept' = <<Fewer(Words[d], Words[c]), Fewer(kmalloc_usable_size, Words[c])>>

SlabNext ==
    \/ \E c \in CacheSet : kmalloc(c) \/ kmem_cache_shrink(c)
    \/ \E o \in heap.out : kfree(o) \/ \E c \in CacheSet : krealloc(o, c)

SlabSpec == SlabInit /\ [][SlabNext]_slabvars

----------------------------------------------------------------------------
\* The objects on the chain of a slab that starts at index i, at most n of them.
RECURSIVE Chain(_, _, _)
Chain(r, i, n) == IF i = Tail32 \/ n = 0 THEN <<>> ELSE <<i>> \o Chain(r, r.freelist[i], n - 1)

\* kmem_cache_alloc never hands out an object twice: in every slab the chain of
\* free objects holds exactly those no caller has, each once.  A slab is on one
\* list of one cache, the list its count calls for, so that alloc never takes a
\* full slab (its chain is empty) and shrink never frees one in use.  krealloc copies no
\* more than both objects have room for (but of an object of another cache than the
\* smallest only the beginning).
SlabsOK == kept[2] <= kept[1] /\ \A c \in CacheSet : \A s \in SlabsOf(heap, c) :
    LET r  == heap.slab[s]
        ch == Chain(r, r.free_idx, PerSlab[c] + 1)
        mine == {o[2] : o \in {p \in heap.out : p[1] = s}}
    IN  /\ Range(ch) = (0..(PerSlab[c] - 1)) \ mine /\ IsInjective(ch)
        /\ r.inuse = Cardinality(mine)
        /\ r.inuse = PerSlab[c] <=> s \in Range(heap.list[c].full)
        /\ s \in Range(heap.list[c].free) => r.inuse = 0
        /\ \A d \in CacheSet : s \in SlabsOf(heap, d) => d = c
        /\ Cardinality({<<l, k>> \in Lists \X (1..Cardinality(SlabMem)) :
               k \in DOMAIN heap.list[c][l] /\ heap.list[c][l][k] = s}) = 1

=============================================================================
