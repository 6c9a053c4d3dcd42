------------------------------ MODULE AxiomFile ------------------------------
(* The contents of one AxiomFS file under read, write, append and seek     *)
(* through several open files (axiomfs/file.c, vfs_read, vfs_write and     *)
(* generic_file_llseek of vfs.c): a buffer that grows by doubling, whose   *)
(* fresh memory holds anything.                                            *)
EXTENDS Integers, Sequences, FiniteSets

CONSTANTS
    Opened,     \* open files
    AppendSet,  \* those with O_APPEND
    Bytes,      \* values of a byte; 0 among them
    Junk,       \* what kmalloc leaves in fresh memory
    FirstCap,   \* 4096, the smallest buffer
    MaxBytes,   \* bound of the model: bytes in one call
    MaxPos      \* bound of the model: positions that are sought

ASSUME AxiomFileAssumption ==
    /\ AppendSet \subseteq Opened /\ 0 \in Bytes /\ Junk \notin Bytes /\ FirstCap \in Nat \ {0}

VARIABLES
    fdata,   \* data, size and capacity of struct axiomfs_file_data
    i_size,  \* of the inode
    f_pos    \* of every open file

afvars == <<fdata, i_size, f_pos>>

AfInit ==
    /\ fdata = [data |-> <<>>, size |-> 0, capacity |-> 0]
    /\ i_size = 0
    /\ f_pos = [f \in Opened |-> 0]

Most(a, b) == IF a >= b THEN a ELSE b

\* A buffer of at least n bytes, with the first size bytes of the old one.
Expand(D, n) ==
    IF n <= D.capacity THEN D
    ELSE LET cap == Most(Most(n, 2 * D.capacity), FirstCap)
         IN  [D EXCEPT !.data = [k \in 1 .. cap |-> IF k <= D.size THEN D.data[k] ELSE Junk], !.capacity = cap]

\* The gap between the end and the position is filled with zeros, then the bytes go in.
Store(D, buf, pos) ==
    [k \in 1 .. D.capacity |-> IF k > pos /\ k <= pos + Len(buf) THEN buf[k - pos]
                               ELSE IF k > D.size /\ k <= pos THEN 0 ELSE D.data[k]]

\* Mutant: an appending file writes where it last was.
WriteInPlace(f, buf) ==
    LET D == Expand(fdata, f_pos[f] + Len(buf))
        end == f_pos[f] + Len(buf)
    IN  /\ fdata' = [D EXCEPT !.data = Store(D, buf, f_pos[f]), !.size = Most(@, end)]
        /\ i_size' = IF end > fdata.size THEN end ELSE i_size
        /\ f_pos' = IF buf = <<>> THEN f_pos ELSE [f_pos EXCEPT ![f] = end]

axiomfs_write(f, buf) ==
    LET pos == IF f \in AppendSet THEN fdata.size ELSE f_pos[f]
        D == Expand(fdata, pos + Len(buf))
        end == pos + Len(buf)
    IN  /\ fdata' = [D EXCEPT !.data = Store(D, buf, pos), !.size = Most(@, end)]
        /\ i_size' = IF end > fdata.size THEN end ELSE i_size
        /\ f_pos' = IF buf = <<>> THEN f_pos ELSE [f_pos EXCEPT ![f] = end]

\* What a read of count bytes returns; its length is what the position moves by.
axiomfs_read(f, count) ==
    IF f_pos[f] >= fdata.size THEN <<>>
    ELSE SubSeq(fdata.data, f_pos[f] + 1, IF f_pos[f] + count > fdata.size THEN fdata.size ELSE f_pos[f] + count)

vfs_read(f, count) ==
    /\ f_pos' = [f_pos EXCEPT ![f] = @ + Len(axiomfs_read(f, count))]
    /\ UNCHANGED <<fdata, i_size>>

\* base: 0 for SEEK_SET, the position for SEEK_CUR, i_size for SEEK_END.
generic_file_llseek(f, base, offset) ==
    /\ base + offset \in 0 .. MaxPos
    /\ f_pos' = [f_pos EXCEPT ![f] = base + offset]
    /\ UNCHANGED <<fdata, i_size>>

AfNext ==
    \E f \in Opened :
        \/ \E n \in 0 .. MaxBytes : \E buf \in [1 .. n -> Bytes] : f_pos[f] + n <= MaxPos /\ fdata.size + n <= MaxPos
                                                                    /\ axiomfs_write(f, buf)
        \/ \E n \in 1 .. MaxBytes : vfs_read(f, n)
        \/ \E base \in {0, f_pos[f], i_size}, off \in {-1, 0, 1} : generic_file_llseek(f, base, off)

AfSpec == AfInit /\ [][AfNext]_afvars

-----------------------------------------------------------------------------
(* Properties.                                                             *)

Content == SubSeq(fdata.data, 1, fdata.size)

ContentOK ==
    /\ i_size = fdata.size /\ fdata.size <= fdata.capacity /\ Len(fdata.data) = fdata.capacity
    /\ Junk \notin {Content[k] : k \in DOMAIN Content}

Appends(f) == fdata' # fdata /\ f \in AppendSet /\ f_pos'[f] # f_pos[f]

\* The size the inode reports is the size of the data, it fits the buffer, and no byte
\* below it is memory that was never written: growing, writing past the end and
\* appending through other open files included. A file never shrinks, and a write through
\* a file opened with O_APPEND leaves all that is there, whoever wrote it, and ends at the
\* new end, although its own position may be stale.
FileOK ==
    [][/\ ContentOK'
       /\ fdata'.size >= fdata.size
       /\ \A f \in Opened : Appends(f) => /\ SubSeq(Content', 1, fdata.size) = Content
                                          /\ f_pos'[f] = fdata'.size]_afvars
=============================================================================
