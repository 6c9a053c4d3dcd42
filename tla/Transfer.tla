------------------------------ MODULE Transfer ------------------------------
(***************************************************************************)
(* read, pread64, write and writev on an open file (syscall.c).  A call    *)
(* moves its bytes in chunks, through a buffer of the kernel: each chunk   *)
(* is one vfs_read or vfs_write, which moves the position, and one copy    *)
(* from or to the memory of the process, which fails when it is not all    *)
(* mapped.  A read looks for ctrl-C on the console every few chunks.       *)
(*                                                                         *)
(* A process writes the bytes 1, 2, 3 ... to the end of a file, each call  *)
(* starting behind what the last one reported; another reads the file.     *)
(***************************************************************************)
EXTENDS Integers, SequencesExt

CONSTANTS
    ChunkSize,  \* bytes of the kernel's buffer
    CheckEvery, \* chunks from one look for ctrl-C to the next
    MaxFile,    \* bytes that the file system has room for
    MaxOwed,    \* bound on the bytes that reads pass over
    Sizes       \* bytes that a call asks for, and that are mapped in the process

ASSUME TransferAssumption ==
    /\ ChunkSize \in Nat \ {0} /\ CheckEvery \in Nat \ {0} /\ MaxFile \in Nat
    /\ MaxOwed \in Nat /\ Sizes \subseteq Nat

VARIABLES
    bytes,      \* the file
    sent,       \* bytes that write and writev reported as written
    rpos,       \* the reader's position
    taken,      \* what the reader got
    owed        \* bytes that reads may have passed over

xfervars == <<bytes, sent, rpos, taken, owed>>

EFAULT == -14
EINTR == -4
ENOSPC == -28

Least(a, b) == IF a < b THEN a ELSE b
Chunks(count) == [i \in 1 .. (count + ChunkSize - 1) \div ChunkSize |-> i]

\* What a call returns when it cannot go on.
Short(S, error) == [S EXCEPT !.over = TRUE, !.ret = IF S.ret > 0 THEN S.ret ELSE error]

Started(pos) == [ret |-> 0, pos |-> pos, out |-> <<>>, over |-> FALSE]

----------------------------------------------------------------------------
\* Mutant of read_chunk: what was asked for is counted, not what was read.
ReadCountsChunk(S, count, mapped) ==
    LET chunk == Least(ChunkSize, count - S.ret)
        n == Least(chunk, Len(bytes) - S.pos)
    IN  IF S.over THEN S
        ELSE IF n <= 0 THEN [S EXCEPT !.over = TRUE]
        ELSE IF S.ret + n > mapped THEN [Short(S, EFAULT) EXCEPT !.pos = @ + n]
        ELSE [ret |-> S.ret + chunk, pos |-> S.pos + chunk,
              out |-> S.out \o SubSeq(bytes, S.pos + 1, S.pos + n), over |-> n < chunk]

\* The chunk is read, and the position moved, before it is copied out.
read_chunk(S, count, mapped) ==
    LET chunk == Least(ChunkSize, count - S.ret)
        n == Least(chunk, Len(bytes) - S.pos)
    IN  IF S.over THEN S
        ELSE IF n <= 0 THEN [S EXCEPT !.over = TRUE]
        ELSE IF S.ret + n > mapped THEN [Short(S, EFAULT) EXCEPT !.pos = @ + n]
        ELSE [ret |-> S.ret + n, pos |-> S.pos + n,
              out |-> S.out \o SubSeq(bytes, S.pos + 1, S.pos + n), over |-> n < chunk]

\* ctrl-C is there at the chunk at, which counts only where it is looked for.
ReadLoop(count, mapped, at) ==
    FoldLeft(LAMBDA S, i : IF ~S.over /\ i = at /\ (i - 1) % CheckEvery = 0
                           THEN [S EXCEPT !.over = TRUE, !.ret = EINTR]
                           ELSE read_chunk(S, count, mapped),
             Started(rpos), Chunks(count))

\* What the call has put into memory is of use only as far as it reports it.
sys_read(count, mapped, at) ==
    LET S == ReadLoop(count, mapped, at)
        used == IF S.ret > 0 THEN S.ret ELSE 0
        faults == Least(count, Len(bytes) - rpos) > mapped
    IN  /\ rpos' = S.pos
        /\ taken' = taken \o SubSeq(S.out, 1, used)
        /\ owed' = owed + (IF S.ret = EINTR THEN Len(S.out) ELSE IF faults THEN ChunkSize ELSE 0)
        /\ owed' <= MaxOwed
        /\ UNCHANGED <<bytes, sent>>

\* The position of the file is not used.
sys_pread64(count, offset, mapped) ==
    FoldLeft(LAMBDA S, i : read_chunk(S, count, mapped), Started(offset), Chunks(count))

----------------------------------------------------------------------------

\* The chunk is copied in first. The file system takes what it has room for.
write_chunk(S, count, mapped) ==
    LET chunk == Least(ChunkSize, count - S.ret)
        n == Least(chunk, MaxFile - S.pos)
        add == [i \in 1 .. n |-> sent + S.ret + i]
    IN  IF S.over THEN S
        ELSE IF S.ret + chunk > mapped THEN Short(S, EFAULT)
        ELSE IF n = 0 THEN Short(S, ENOSPC)
        ELSE [ret |-> S.ret + n, pos |-> S.pos + n, out |-> S.out \o add, over |-> n < chunk]

WriteLoop(S, count, mapped) ==
    FoldLeft(LAMBDA T, i : write_chunk(T, count, mapped), S, Chunks(count))

Wrote(S) ==
    /\ bytes' = bytes \o S.out
    /\ sent' = sent + (IF S.ret > 0 THEN S.ret ELSE 0)
    /\ UNCHANGED <<rpos, taken, owed>>

sys_write(count, mapped) == Wrote(WriteLoop(Started(Len(bytes)), count, mapped))

\* The vectors follow each other in the stream; the first short one is the last.
sys_writev(first, second, mapped) ==
    LET A == WriteLoop(Started(Len(bytes)), first, mapped)
        more == A.ret = first
        B == WriteLoop([A EXCEPT !.over = FALSE], first + second, mapped)
    IN  Wrote(IF more THEN B ELSE A)

XferInit == bytes = <<>> /\ sent = 0 /\ rpos = 0 /\ taken = <<>> /\ owed = 0

XferNext ==
    \E count, mapped \in Sizes :
        \/ \E at \in Sizes : sys_read(count, mapped, at)
        \/ sys_write(count, mapped)
        \/ \E second \in Sizes : sys_writev(count, second, mapped)

XferSpec == XferInit /\ [][XferNext]_xfervars

----------------------------------------------------------------------------
\* The file is what the writer was told it wrote, each byte once and in order, also when
\* calls stop at memory that is not mapped or at a full file system.  The reader gets the
\* bytes of the file in order and none twice; it misses at most a chunk for each call that
\* met memory that is not mapped, and what the call had read when ctrl-C ended it.
\* A pread64 of a file that is not empty gives the bytes at its offset, none past the end.
TransferOK ==
    /\ bytes = [i \in 1 .. sent |-> i]
    /\ \A i \in 1 .. Len(taken) - 1 : taken[i] < taken[i + 1]
    /\ rpos - Len(taken) <= owed
    /\ owed = 0 => taken = SubSeq(bytes, 1, rpos)
    /\ sent > 0 => \A count, offset \in Sizes :
          LET S == sys_pread64(count, offset, count)
          IN  S.out = SubSeq(bytes, offset + 1, Least(offset + count, Len(bytes))) /\ S.ret = Len(S.out)
=============================================================================
