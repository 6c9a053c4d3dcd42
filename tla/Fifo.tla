-------------------------------- MODULE Fifo --------------------------------
(***************************************************************************)
(* What the kernel's rings promise: a first-in first-out queue with room   *)
(* for Room items.  ret is what the last call returned: the items a put    *)
(* accepted, or the items a get handed out; none is -EAGAIN or -ENOSPC.    *)
(***************************************************************************)
EXTENDS Integers, Sequences

CONSTANTS
    Room,     \* how many items fit
    Chunks,   \* the sequences of items that one put offers
    Counts,   \* how many items one get asks for
    Kinds     \* the sets of items that one take chooses from

VARIABLES queue, ret

fifovars == <<queue, ret>>

Least(a, b) == IF a < b THEN a ELSE b
Without(s, i) == [j \in 1..(Len(s) - 1) |-> IF j < i THEN s[j] ELSE s[j + 1]]

FifoInit == queue = <<>> /\ ret = <<>>

\* As much of data as there is room for.
FifoPut(data) ==
    LET n == Least(Len(data), Room - Len(queue))
    IN  /\ queue' = queue \o SubSeq(data, 1, n)
        /\ ret' = SubSeq(data, 1, n)

\* A put into a full queue that makes room by dropping the oldest item.
FifoPutOver(x) ==
    /\ queue' = IF Len(queue) < Room THEN Append(queue, x) ELSE Append(Tail(queue), x)
    /\ ret' = <<x>>

\* The n oldest items, or all of them.
FifoGet(n) ==
    LET k == Least(n, Len(queue))
    IN  /\ ret' = SubSeq(queue, 1, k)
        /\ queue' = SubSeq(queue, k + 1, Len(queue))

\* The oldest item of the kind K.
FifoTake(K) ==
    \/ /\ \A i \in 1..Len(queue) : queue[i] \notin K
       /\ ret' = <<>> /\ UNCHANGED queue
    \/ \E i \in 1..Len(queue) :
           /\ queue[i] \in K
           /\ \A j \in 1..(i - 1) : queue[j] \notin K
           /\ ret' = <<queue[i]>>
           /\ queue' = Without(queue, i)

FifoClear == queue' = <<>> /\ ret' = <<>>

\* A stream: put and get.
StreamNext ==
    \/ \E data \in Chunks : FifoPut(data)
    \/ \E n \in Counts : FifoGet(n)

\* Events: single items, with the calls that drop, choose and clear.
EventNext ==
    \/ StreamNext
    \/ \E data \in Chunks : FifoPutOver(data[1])
    \/ \E K \in Kinds : FifoTake(K)
    \/ FifoClear

StreamSpec == FifoInit /\ [][StreamNext]_fifovars
EventSpec == FifoInit /\ [][EventNext]_fifovars

=============================================================================
