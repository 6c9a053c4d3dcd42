------------------------------- MODULE BitOps -------------------------------
(***************************************************************************)
(* Bitmaps of kernel/lib/bitmap.c: an array of words, each a set of bit    *)
(* numbers 0..BitsPerLong-1.  Shifting ~0UL left by n leaves the bits from *)
(* n up.                                                                   *)
(***************************************************************************)
EXTENDS Integers, FiniteSets

CONSTANTS
    BitsPerLong,  \* BITS_PER_LONG
    NWords,       \* length of the array
    Sizes         \* numbers of valid bits passed to the searches

ASSUME BitAssumption ==
    /\ BitsPerLong \in Nat \ {0} /\ NWords \in Nat \ {0}
    /\ Sizes \subseteq 0..(NWords * BitsPerLong)

VARIABLE words

Bits == 0..(BitsPerLong - 1)
BitNumbers == 0..(NWords * BitsPerLong - 1)
BIT_WORD(n) == n \div BitsPerLong
Shifted(n) == {b \in Bits : b >= n}

BitInit == words = [i \in 0..(NWords - 1) |-> {}]

Toggle(A, b) == (A \ {b}) \cup ({b} \ A)

\* set_bit, clear_bit, change_bit and the test_and variants of the first two.
set_bit(n) == words' = [words EXCEPT ![BIT_WORD(n)] = @ \cup {n % BitsPerLong}]
clear_bit(n) == words' = [words EXCEPT ![BIT_WORD(n)] = @ \ {n % BitsPerLong}]
change_bit(n) == words' = [words EXCEPT ![BIT_WORD(n)] = Toggle(@, n % BitsPerLong)]

\* The words bitmap_set and bitmap_clear change, and in each the bits: whole words
\* from the bit of start on while nbits reaches the end of a word, then what the
\* last mask leaves of the rest.
RECURSIVE RangeMask(_, _, _)
RangeMask(w, from, nbits) ==
    LET room == BitsPerLong - from
        last == Shifted(from) \ Shifted(nbits)
    IN  IF nbits >= room
        THEN {<<w, b>> : b \in Shifted(from)} \cup RangeMask(w + 1, 0, nbits - room)
        ELSE IF nbits > 0 THEN {<<w, b>> : b \in last} ELSE {}

Masked(start, nbits) == RangeMask(BIT_WORD(start), start % BitsPerLong, nbits)

bitmap_set(start, nbits) ==
    words' = [w \in DOMAIN words |-> words[w] \cup {b \in Bits : <<w, b>> \in Masked(start, nbits)}]
bitmap_clear(start, nbits) ==
    words' = [w \in DOMAIN words |-> words[w] \ {b \in Bits : <<w, b>> \in Masked(start, nbits)}]

\* bitmap_zero and bitmap_fill of the words that hold the first n bits.
WordsFor(n) == 0..(((n + BitsPerLong - 1) \div BitsPerLong) - 1)
bitmap_zero(n) == words' = [w \in DOMAIN words |-> IF w \in WordsFor(n) THEN {} ELSE words[w]]
bitmap_fill(n) == words' = [w \in DOMAIN words |-> IF w \in WordsFor(n) THEN Bits ELSE words[w]]

Lesser(a, b) == IF a <= b THEN a ELSE b
ffs(A) == CHOOSE b \in A : \A c \in A : b <= c

\* The first bit of the first word that is not empty, at most size.
RECURSIVE ScanWords(_, _, _)
ScanWords(A, w, size) ==
    IF w * BitsPerLong >= size THEN size
    ELSE IF A[w] # {} THEN Lesser(w * BitsPerLong + ffs(A[w]), size)
    ELSE ScanWords(A, w + 1, size)

Inverted(A) == [w \in DOMAIN A |-> Bits \ A[w]]

find_first_bit(A, size) == ScanWords(A, 0, size)

\* Mutant of find_next_bit: the rest of the first word is taken from its own bit 0.
NextFromWord(A, size, offset) ==
    IF offset >= size THEN size ELSE ScanWords(A, BIT_WORD(offset), size)

find_next_bit(A, size, offset) ==
    LET w == BIT_WORD(offset)
        rest == A[w] \cap Shifted(offset % BitsPerLong)
    IN  IF offset >= size THEN size
        ELSE IF rest # {} THEN Lesser(w * BitsPerLong + ffs(rest), size)
        ELSE ScanWords(A, w + 1, size)

BitNext ==
    \/ \E n \in BitNumbers : set_bit(n) \/ clear_bit(n) \/ change_bit(n)
    \/ \E n \in BitNumbers, k \in Sizes :
          n + k - 1 \in BitNumbers /\ (bitmap_set(n, k) \/ bitmap_clear(n, k))
    \/ \E n \in Sizes : bitmap_zero(n) \/ bitmap_fill(n)

BitSpec == BitInit /\ [][BitNext]_words

----------------------------------------------------------------------------
\* The lowest bit from offset on that is set (v) or clear (~v), or size.
FirstFrom(v, size, offset) ==
    LET H == {n \in offset..(size - 1) : (n % BitsPerLong \in words[BIT_WORD(n)]) = v}
    IN  IF H = {} THEN size ELSE ffs(H)

\* The four searches, across word limits, past the end and with garbage behind the
\* last valid bit, find what a scan bit by bit finds.
SearchOK == \A size \in Sizes :
    /\ find_first_bit(words, size) = FirstFrom(TRUE, size, 0)
    /\ find_first_bit(Inverted(words), size) = FirstFrom(FALSE, size, 0)
    /\ \A o \in BitNumbers :
          /\ o < size => find_next_bit(words, size, o) = FirstFrom(TRUE, size, o)
          /\ o < size => find_next_bit(Inverted(words), size, o) = FirstFrom(FALSE, size, o)

=============================================================================
