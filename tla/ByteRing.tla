------------------------------ MODULE ByteRing ------------------------------
(***************************************************************************)
(* The receive buffer of an AF_UNIX socket (struct ksocket of syscall.c):  *)
(* a ring with the index of the oldest byte and the number of bytes.  All  *)
(* its callers run with interrupts off: every call is one step.            *)
(***************************************************************************)
EXTENDS Integers, Sequences

CONSTANTS Items, Cap, Zero, MaxCopy

ASSUME ByteRingAssumption ==
    Cap \in Nat /\ Cap > 0 /\ Zero \in Items /\ MaxCopy \in Nat /\ MaxCopy > 0

VARIABLES rx_buf, rx_head, rx_len, ret

ringvars == <<rx_buf, rx_head, rx_len, ret>>

Least(a, b) == IF a < b THEN a ELSE b

\* What sendto copies in from user memory, at most MaxCopy bytes.
Chunks == UNION {[1..n -> Items] : n \in 1..MaxCopy}

RingInit ==
    /\ rx_buf = [i \in 0..(Cap - 1) |-> Zero]
    /\ rx_head = 0 /\ rx_len = 0 /\ ret = <<>>

\* Writes as much of data as there is space for, from the index after the last byte.
rx_push(data) ==
    LET n         == Least(Len(data), Cap - rx_len)
        write_idx == (rx_head + rx_len) % Cap
        i(k)      == (k - write_idx) % Cap
    IN  /\ rx_buf' = [k \in 0..(Cap - 1) |-> IF i(k) < n THEN data[i(k) + 1] ELSE rx_buf[k]]
        /\ rx_len' = rx_len + n
        /\ ret' = SubSeq(data, 1, n)
        /\ UNCHANGED rx_head

\* Mutant of rx_pop: the index of the oldest byte stays.
PopKeepsHead(len) ==
    LET n == Least(len, rx_len)
    IN  /\ ret' = [i \in 1..n |-> rx_buf[(rx_head + i - 1) % Cap]]
        /\ rx_len' = rx_len - n
        /\ UNCHANGED <<rx_buf, rx_head>>

rx_pop(len) ==
    LET n == Least(len, rx_len)
    IN  /\ ret' = [i \in 1..n |-> rx_buf[(rx_head + i - 1) % Cap]]
        /\ rx_head' = (rx_head + n) % Cap
        /\ rx_len' = rx_len - n
        /\ UNCHANGED rx_buf

RingNext ==
    \/ \E data \in Chunks : rx_push(data)
    \/ \E len \in 1..MaxCopy : rx_pop(len)

RingSpec == RingInit /\ [][RingNext]_ringvars

----------------------------------------------------------------------------
RingTypeOK ==
    /\ rx_buf \in [0..(Cap - 1) -> Items]
    /\ rx_head \in 0..(Cap - 1) /\ rx_len \in 0..Cap
    /\ ret \in Seq(Items)

\* The bytes in the ring, oldest first.
Contents == [i \in 1..rx_len |-> rx_buf[(rx_head + i - 1) % Cap]]

F == INSTANCE Fifo WITH queue <- Contents, Room <- Cap,
                       Counts <- 1..MaxCopy, Kinds <- {}

\* The receive buffer is a queue of Cap bytes: a write is cut where the buffer is
\* full, the bytes come out in the order they went in, also around the end of it.
ImplementsFifo == F!StreamSpec

=============================================================================
