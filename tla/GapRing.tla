------------------------------ MODULE GapRing ------------------------------
(***************************************************************************)
(* The rings with a head and a tail index and one slot that stays empty:   *)
(* the pending connections of a listening socket (syscall.c), the console, *)
(* keyboard and mouse queues (devfs.c), the UDP and ICMP events            *)
(* (net/core.c).  Each queue of devfs masks interrupts around its indices, *)
(* the others are only used with interrupts off: every call is one step.   *)
(***************************************************************************)
EXTENDS Integers, Sequences

CONSTANTS Events, RingSize, Blank, Ports

ASSUME GapRingAssumption == RingSize \in Nat /\ RingSize > 1 /\ Blank \in Events /\ Ports \subseteq SUBSET Events

VARIABLES slot, head, tail, got

gapvars == <<slot, head, tail, got>>

Succ(i) == (i + 1) % RingSize

GapInit == slot = [i \in 0..(RingSize - 1) |-> Blank] /\ head = 0 /\ tail = 0 /\ got = <<>>

\* Mutant of push: the full ring is not noticed.
PushUnchecked(x) ==
    /\ slot' = [slot EXCEPT ![head] = x]
    /\ head' = Succ(head)
    /\ got' = <<x>>
    /\ UNCHANGED tail

\* A push that fails when the ring is full.
push(x) ==
    \/ /\ Succ(head) = tail
       /\ got' = <<>>
       /\ UNCHANGED <<slot, head, tail>>
    \/ /\ Succ(head) # tail
       /\ slot' = [slot EXCEPT ![head] = x]
       /\ head' = Succ(head)
       /\ got' = <<x>>
       /\ UNCHANGED tail

\* A push that drops the oldest event when the ring is full.
event_push(x) ==
    /\ tail' = IF Succ(head) = tail THEN Succ(tail) ELSE tail
    /\ slot' = [slot EXCEPT ![head] = x]
    /\ head' = Succ(head)
    /\ got' = <<x>>

pop ==
    \/ head = tail /\ got' = <<>> /\ UNCHANGED <<slot, head, tail>>
    \/ /\ head # tail
       /\ got' = <<slot[tail]>>
       /\ tail' = Succ(tail)
       /\ UNCHANGED <<slot, head>>

\* How many items lie between the tail and the index i.
Dist(i) == (i - tail) % RingSize

\* The indices of the items in the ring.
InRing == {i \in 0..(RingSize - 1) : Dist(i) < Dist(head)}

\* net_recv_udp_event: the oldest event for the port; the younger ones move one
\* slot towards the tail.
recv_port(K) ==
    \/ /\ \A i \in InRing : slot[i] \notin K
       /\ got' = <<>> /\ UNCHANGED <<slot, head, tail>>
    \/ \E i \in InRing :
           /\ slot[i] \in K
           /\ \A j \in InRing : Dist(j) < Dist(i) => slot[j] \notin K
           /\ got' = <<slot[i]>>
           /\ slot' = [j \in 0..(RingSize - 1) |->
                          IF j \in InRing /\ Dist(i) <= Dist(j) /\ Succ(j) # head
                          THEN slot[Succ(j)] ELSE slot[j]]
           /\ head' = (head + RingSize - 1) % RingSize
           /\ UNCHANGED tail

flush ==
    /\ head' = 0 /\ tail' = 0 /\ got' = <<>>
    /\ UNCHANGED slot

GapNext ==
    \/ \E x \in Events : push(x)
    \/ \E x \in Events : event_push(x)
    \/ pop
    \/ \E K \in Ports : recv_port(K)
    \/ flush

GapSpec == GapInit /\ [][GapNext]_gapvars

----------------------------------------------------------------------------
GapTypeOK ==
    /\ slot \in [0..(RingSize - 1) -> Events]
    /\ head \in 0..(RingSize - 1) /\ tail \in 0..(RingSize - 1)
    /\ got \in Seq(Events)

\* What is in the ring, oldest first.
Queued == [i \in 1..Dist(head) |-> slot[(tail + i - 1) % RingSize]]

G == INSTANCE Fifo WITH queue <- Queued, ret <- got, Room <- RingSize - 1,
                       Chunks <- {<<x>> : x \in Events}, Counts <- {1}, Kinds <- Ports

\* A ring of RingSize slots is a queue of RingSize - 1 items: a full ring is never taken
\* for an empty one, nothing is lost but by a push into a full ring, and taking
\* an event out of the middle keeps the order of the others.
GapIsFifo == G!EventSpec

=============================================================================
