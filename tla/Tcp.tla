-------------------------------- MODULE Tcp --------------------------------
(***************************************************************************)
(* One TCP connection of net/core.c and the system calls of syscall.c that *)
(* wait for it, against a correct remote host over a network that loses,   *)
(* duplicates and reorders: a segment that has ever been sent may be       *)
(* delivered at any time, any number of times, or never.                   *)
(*                                                                         *)
(* net_tick is called by the timer interrupt and by every loop that waits. *)
(* It runs the TCP timers and then lets the driver hand in what it has     *)
(* received, here at most one frame.  Between two turns of a loop the      *)
(* process yields; all else is atomic.                                     *)
(*                                                                         *)
(* Sequence numbers count from each side's initial one.  The n-th byte of  *)
(* a stream is the number n.                                               *)
(***************************************************************************)
EXTENDS Integers, Sequences

CONSTANTS
    RETRY_TICKS, MAX_RETRIES, RX_BUF,
    Loops,         \* turns of a loop before the call gives up
    LocalBytes,    \* bytes the program sends
    RemoteBytes,   \* bytes the remote host sends
    MaxSegment,    \* bytes in one segment
    Resets         \* whether the remote host may reset the connection

ASSUME TcpAssumption ==
    /\ RETRY_TICKS \in Nat \ {0} /\ MAX_RETRIES \in Nat /\ RX_BUF \in Nat \ {0}
    /\ Loops \in Nat \ {0} /\ LocalBytes \in Nat /\ RemoteBytes \in Nat
    /\ MaxSegment \in Nat \ {0} /\ Resets \in BOOLEAN

VARIABLES
    conn,               \* the struct tcp_conn
    arp,                \* whether g_arp, its only entry, is the next hop's
    call, left, want,   \* the call that waits, its turns left, the bytes it sends
    socket,             \* "new", "connected" (with a tcp_conn_id), "closed"
    sent, recvd,        \* bytes taken from, and handed to, the program
    remote,             \* the remote host
    toRemote            \* the segments sent to it, but for mere acknowledgements

local == <<call, left, want, socket, sent, recvd>>
tcpvars == <<conn, arp, local, remote, toRemote>>

Least(a, b) == IF a < b THEN a ELSE b

Segment(seq, ack, flags, data) == [seq |-> seq, ack |-> ack, flags |-> flags, data |-> data]

\* The sequence numbers that a segment takes up, but for a SYN.
Extent(seg) == Len(seg.data) + (IF "FIN" \in seg.flags THEN 1 ELSE 0)

FreeConn == [state |-> "FREE", snd_una |-> 0, snd_nxt |-> 0, rcv_nxt |-> 0, age |-> 0,
             retries |-> 0, peer_closed |-> FALSE, rx |-> <<>>, tx_pending |-> FALSE,
             tx_seq |-> 0, tx_ack |-> 0, tx_flags |-> {}, tx_buf |-> <<>>]

TcpInit ==
    /\ conn = FreeConn /\ arp \in BOOLEAN
    /\ call = "none" /\ left = 0 /\ want = <<>>
    /\ socket = "new" /\ sent = 0 /\ recvd = <<>>
    /\ remote = [state |-> "LISTEN", rcv_nxt |-> 0, got |-> <<>>]
    /\ toRemote = {}

----------------------------------------------------------------------------
\* What the remote host may have sent so far: the answer to the SYN, any part of its
\* bytes, its FIN, mere acknowledgements, each with any acknowledgement it has given,
\* and a reset.
MayArrive ==
    IF remote.state = "LISTEN" THEN {}
    ELSE {Segment(0, 1, {"SYN", "ACK"}, <<>>)}
         \cup (UNION {{Segment(i, ack, {"ACK"}, [k \in 1..n |-> i + k - 1]) :
                          n \in 1..Least(MaxSegment, RemoteBytes + 1 - i)} :
                      i \in 1..RemoteBytes, ack \in 1..remote.rcv_nxt})
         \cup {Segment(RemoteBytes + 1, ack, flags, <<>>) :
                  ack \in 1..remote.rcv_nxt, flags \in {{"ACK"}, {"FIN", "ACK"}}}
         \cup {seg \in {Segment(0, 0, {"RST"}, <<>>)} : Resets}

\* A connection c with the segments out that it has sent in this step.
At(c, out) == [c |-> c, out |-> out]

\* tcp_send_on_conn: nothing happens but an ARP request if the next hop is not in
\* the ARP cache.
tcp_send_on_conn(b, seq, ack, flags, data, track_retry) ==
    IF ~arp THEN b
    ELSE At([b.c EXCEPT !.age = 0,
                        !.retries = IF track_retry THEN 0 ELSE @,
                        !.tx_pending = track_retry \/ @,
                        !.tx_seq = IF track_retry THEN seq ELSE @,
                        !.tx_ack = IF track_retry THEN ack ELSE @,
                        !.tx_flags = IF track_retry THEN flags ELSE @,
                        !.tx_buf = IF track_retry THEN data ELSE @],
            b.out \cup {seg \in {Segment(seq, ack, flags, data)} : flags # {"ACK"}})

\* An acknowledgement of all that has arrived.
SendAck(b) == tcp_send_on_conn(b, b.c.snd_nxt, b.c.rcv_nxt, {"ACK"}, <<>>, FALSE)

GivenUp(c) == c.retries >= MAX_RETRIES

\* Mutant of Retransmit: retransmissions are not counted.
RetransmitUncounted(c) ==
    LET b == At(c, {})
    IN  IF c.state = "SYN_SENT" THEN tcp_send_on_conn(b, c.snd_una, 0, {"SYN"}, <<>>, FALSE)
        ELSE IF c.tx_pending
        THEN tcp_send_on_conn(b, c.tx_seq, c.tx_ack, c.tx_flags, c.tx_buf, FALSE)
        ELSE b

\* A retry is counted even if there is nothing to send, or it cannot be sent.
Retransmit(c) ==
    LET b == At([c EXCEPT !.retries = @ + 1], {})
    IN  IF c.state = "SYN_SENT" THEN tcp_send_on_conn(b, c.snd_una, 0, {"SYN"}, <<>>, FALSE)
        ELSE IF c.tx_pending
        THEN tcp_send_on_conn(b, c.tx_seq, c.tx_ack, c.tx_flags, c.tx_buf, FALSE)
        ELSE b

\* net_tick for one connection.  age is g_tick_count - last_tx_tick, up to RETRY_TICKS.
tcp_timer(c) ==
    LET aged == [c EXCEPT !.age = Least(@ + 1, RETRY_TICKS)]
    IN  IF c.state = "FREE" THEN At(c, {})
        ELSE IF aged.age < RETRY_TICKS THEN At(aged, {})
        ELSE IF GivenUp(c) THEN At(FreeConn, {})
        ELSE Retransmit(aged)

\* The acknowledgement that a segment carries.
Acked(c, seg) ==
    IF "ACK" \in seg.flags /\ seg.ack > c.snd_una
    THEN LET all == c.tx_pending /\ seg.ack >= c.tx_seq + Len(c.tx_buf)
         IN  [c EXCEPT !.snd_una = seg.ack,
                       !.tx_pending = @ /\ ~all,
                       !.tx_buf = IF all THEN <<>> ELSE @]
    ELSE c

\* Mutant of Payload: a segment that comes too late or too early is taken as well.
PayloadUnchecked(b, seg) ==
    LET n == Least(Len(seg.data), RX_BUF - Len(b.c.rx))
    IN  IF seg.data = <<>> THEN b
        ELSE SendAck([b EXCEPT !.c.rx = @ \o SubSeq(seg.data, 1, n), !.c.rcv_nxt = @ + n])

\* Its bytes, if they are the next ones, as far as the buffer has room.
Payload(b, seg) ==
    LET n == Least(Len(seg.data), RX_BUF - Len(b.c.rx))
    IN  IF seg.data = <<>> THEN b
        ELSE IF seg.seq # b.c.rcv_nxt THEN SendAck(b)
        ELSE SendAck([b EXCEPT !.c.rx = @ \o SubSeq(seg.data, 1, n), !.c.rcv_nxt = @ + n])

\* Its FIN, which sets peer_closed also when bytes before it are missing.
Fin(b, seg) ==
    IF "FIN" \notin seg.flags THEN b
    ELSE SendAck([b EXCEPT !.c.peer_closed = TRUE,
                           !.c.rcv_nxt = IF seg.seq + Len(seg.data) = @ THEN @ + 1 ELSE @])

\* net_rx_frame for a TCP segment of this connection.
tcp_rx(b, seg) ==
    IF b.c.state = "FREE" THEN b
    ELSE IF "RST" \in seg.flags THEN [b EXCEPT !.c = FreeConn]
    ELSE IF b.c.state = "SYN_SENT"
    THEN IF {"SYN", "ACK"} \subseteq seg.flags /\ seg.ack = b.c.snd_nxt
         THEN SendAck([b EXCEPT !.c.rcv_nxt = seg.seq + 1, !.c.snd_una = seg.ack,
                                !.c.state = "ESTABLISHED", !.c.tx_pending = FALSE])
         ELSE b
    ELSE Fin(Payload([b EXCEPT !.c = Acked(@, seg)], seg), seg)

\* net_tick with what the driver's poll hands in: nothing, an ARP packet, a segment.
net_tick ==
    LET b == tcp_timer(conn)
    IN  \/ /\ conn' = b.c /\ toRemote' = toRemote \cup b.out
           /\ arp' \in BOOLEAN
           /\ UNCHANGED <<remote>>
        \/ \E seg \in MayArrive :
               /\ conn' = tcp_rx(b, seg).c
               /\ toRemote' = toRemote \cup tcp_rx(b, seg).out
               /\ UNCHANGED <<arp, remote>>

----------------------------------------------------------------------------
\* The system calls.  A call that waits takes one step per turn of its loop.
Done == call' = "none" /\ left' = 0 /\ want' = <<>>
Begin(name, data) == call = "none" /\ call' = name /\ left' = Loops /\ want' = data
Turn == net_tick /\ left' = left - 1 /\ UNCHANGED <<call, want, socket, sent, recvd>>
NetUnchanged == UNCHANGED <<conn, arp, remote, toRemote>>

\* net_tcp_connect.  Until its first segment could be sent the connection is as old
\* as the system is up.
connect ==
    \E uptime \in 0..RETRY_TICKS :
        LET c == [FreeConn EXCEPT !.state = "SYN_SENT", !.snd_nxt = 1, !.age = uptime]
            b == tcp_send_on_conn(At(c, {}), 0, 0, {"SYN"}, <<>>, TRUE)
        IN  /\ socket = "new" /\ Begin("connect", <<>>)
            /\ conn' = b.c /\ toRemote' = toRemote \cup b.out
            /\ UNCHANGED <<arp, socket, sent, recvd, remote>>

\* net_tcp_close: the FIN is sent once and the struct is cleared.
net_tcp_close ==
    LET b == IF conn.state = "ESTABLISHED"
             THEN tcp_send_on_conn(At(conn, {}), conn.snd_nxt, conn.rcv_nxt, {"FIN", "ACK"}, <<>>, FALSE)
             ELSE At(conn, {})
    IN  /\ conn' = FreeConn /\ toRemote' = toRemote \cup b.out
        /\ UNCHANGED <<arp, remote>>

connect_loop ==
    /\ call = "connect"
    /\ \/ /\ left > 0 /\ conn.state = "ESTABLISHED"
          /\ socket' = "connected" /\ Done /\ NetUnchanged /\ UNCHANGED <<sent, recvd>>
       \/ /\ left > 0 /\ conn.state = "FREE"
          /\ socket' = "closed" /\ Done /\ NetUnchanged /\ UNCHANGED <<sent, recvd>>
       \/ left > 0 /\ conn.state = "SYN_SENT" /\ Turn
       \/ left = 0 /\ net_tcp_close /\ socket' = "closed" /\ Done /\ UNCHANGED <<sent, recvd>>

sendto ==
    \E n \in 1..MaxSegment :
        /\ socket = "connected" /\ sent + n <= LocalBytes
        /\ Begin("send", [i \in 1..n |-> sent + i])
        /\ NetUnchanged /\ UNCHANGED <<socket, sent, recvd>>

\* net_tcp_send: one segment at a time.
send_loop ==
    /\ call = "send"
    /\ LET able == conn.state = "ESTABLISHED" /\ ~conn.peer_closed
           b    == tcp_send_on_conn(At(conn, {}), conn.snd_nxt, conn.rcv_nxt, {"ACK", "PSH"}, want, TRUE)
       IN  \/ /\ left = 0 \/ ~able
              /\ Done /\ NetUnchanged /\ UNCHANGED <<socket, sent, recvd>>
           \/ left > 0 /\ able /\ (conn.tx_pending \/ ~arp) /\ Turn
           \/ /\ left > 0 /\ able /\ ~conn.tx_pending /\ arp
              /\ conn' = [b.c EXCEPT !.snd_nxt = @ + Len(want)]
              /\ toRemote' = toRemote \cup b.out
              /\ sent' = sent + Len(want) /\ Done
              /\ UNCHANGED <<arp, socket, recvd, remote>>

recvfrom ==
    /\ socket = "connected" /\ Begin("recv", <<>>)
    /\ NetUnchanged /\ UNCHANGED <<socket, sent, recvd>>

\* net_tcp_recv, asked for a byte or for all there is.
recv_loop ==
    /\ call = "recv"
    /\ \/ /\ left > 0 /\ conn.rx # <<>>
          /\ \E n \in {1, Len(conn.rx)} :
                 /\ recvd' = recvd \o SubSeq(conn.rx, 1, n)
                 /\ conn' = [conn EXCEPT !.rx = SubSeq(@, n + 1, Len(@))]
          /\ Done /\ UNCHANGED <<arp, socket, sent, remote, toRemote>>
       \/ /\ left = 0 \/ conn.state = "FREE" \/ (conn.rx = <<>> /\ conn.peer_closed)
          /\ Done /\ NetUnchanged /\ UNCHANGED <<socket, sent, recvd>>
       \/ left > 0 /\ conn.state # "FREE" /\ conn.rx = <<>> /\ ~conn.peer_closed /\ Turn

\* maybe_handle_ctrlc ends a send or a receive between two turns.
interrupted ==
    /\ call \in {"send", "recv"} /\ left > 0
    /\ Done /\ NetUnchanged /\ UNCHANGED <<socket, sent, recvd>>

close ==
    /\ socket = "connected" /\ call = "none"
    /\ net_tcp_close /\ socket' = "closed"
    /\ UNCHANGED <<call, left, want, sent, recvd>>

\* net_tick from irq_handler, while this process is in user mode or has yielded.
irq_tick == net_tick /\ UNCHANGED local

----------------------------------------------------------------------------
\* The remote host, as the code expects it: it answers a SYN and takes the bytes
\* that are next.
remote_syn ==
    /\ remote.state = "LISTEN" /\ \E seg \in toRemote : "SYN" \in seg.flags
    /\ remote' = [remote EXCEPT !.state = "OPEN", !.rcv_nxt = 1]
    /\ UNCHANGED <<conn, arp, local, toRemote>>

remote_rx(seg) ==
    LET past == remote.rcv_nxt - seg.seq
    IN  /\ remote.state = "OPEN" /\ "SYN" \notin seg.flags
        /\ past >= 0 /\ past < Extent(seg)
        /\ remote' = [remote EXCEPT !.got = @ \o SubSeq(seg.data, past + 1, Len(seg.data)),
                                    !.rcv_nxt = seg.seq + Extent(seg)]
        /\ UNCHANGED <<conn, arp, local, toRemote>>

TcpNext ==
    \/ connect \/ connect_loop \/ sendto \/ send_loop \/ recvfrom \/ recv_loop \/ interrupted
    \/ close \/ irq_tick
    \/ remote_syn \/ \E seg \in toRemote : remote_rx(seg)

TcpSpec == TcpInit /\ [][TcpNext]_tcpvars

\* The timer interrupt comes again and again, and a process in a loop runs again.
TcpFair == TcpSpec /\ WF_tcpvars(irq_tick) /\ WF_tcpvars(connect_loop)
                   /\ WF_tcpvars(send_loop) /\ WF_tcpvars(recv_loop)

----------------------------------------------------------------------------
Upto(n) == [i \in 1..n |-> i]

Flags == {"SYN", "ACK", "PSH", "FIN"}

TcpTypeOK ==
    /\ conn \in [state : {"FREE", "SYN_SENT", "ESTABLISHED"}, snd_una : Nat, snd_nxt : Nat,
                 rcv_nxt : Nat, age : 0..RETRY_TICKS, retries : 0..MAX_RETRIES,
                 peer_closed : BOOLEAN, rx : Seq(Nat), tx_pending : BOOLEAN, tx_seq : Nat,
                 tx_ack : Nat, tx_flags : SUBSET Flags, tx_buf : Seq(Nat)]
    /\ Len(conn.rx) <= RX_BUF /\ Len(conn.tx_buf) <= MaxSegment
    /\ arp \in BOOLEAN /\ call \in {"none", "connect", "send", "recv"} /\ left \in 0..Loops
    /\ socket \in {"new", "connected", "closed"}
    /\ want \in Seq(Nat) /\ sent \in 0..LocalBytes /\ recvd \in Seq(Nat)
    /\ remote \in [state : {"LISTEN", "OPEN"}, rcv_nxt : Nat, got : Seq(Nat)]
    /\ toRemote \subseteq [seq : Nat, ack : Nat, flags : SUBSET Flags, data : Seq(Nat)]

\* What the program has received, followed by what waits in the buffer, is a beginning
\* of what the remote host sends, in order, without a gap or a repetition.
StreamIn(c) == recvd \o c.rx = Upto(Len(recvd) + Len(c.rx))

\* rcv_nxt is the place of the first byte that has not arrived, or follows the FIN that
\* has arrived after all of them.
NextIn(c) ==
    LET n == Len(recvd) + Len(c.rx)
    IN  n <= RemoteBytes /\ (c.rcv_nxt = n + 1 \/ (n = RemoteBytes /\ c.rcv_nxt = n + 2))

\* The bytes d are those that the program has sent from the place seq on.
Placed(seq, d) == seq >= 1 /\ d = [i \in 1..Len(d) |-> seq + i - 1] /\ seq + Len(d) <= sent + 1

\* The connection struct c: before the handshake nothing has been sent or received.
\* After it, at most one segment is unacknowledged, and it is the one kept for
\* retransmission: when none is kept, everything sent has been acknowledged.
ConnOK(c) ==
    /\ c.state = "FREE" => c.rx = <<>>
    /\ c.state = "SYN_SENT" =>
           /\ sent = 0 /\ recvd = <<>> /\ c.rx = <<>> /\ c.snd_una = 0 /\ c.snd_nxt = 1
           /\ c.tx_pending => c.tx_seq = 0 /\ c.tx_flags = {"SYN"} /\ c.tx_buf = <<>>
    /\ c.state = "ESTABLISHED" =>
           /\ c.snd_una >= 1 /\ c.snd_nxt = sent + 1 /\ NextIn(c)
           /\ IF c.tx_pending
              THEN /\ c.tx_seq <= c.snd_una /\ c.snd_una <= c.snd_nxt
                   /\ c.snd_nxt = c.tx_seq + Len(c.tx_buf)
                   /\ c.tx_flags = {"ACK", "PSH"} /\ Placed(c.tx_seq, c.tx_buf)
              ELSE c.snd_una = c.snd_nxt

\* Every segment that is on its way to the remote host, retransmitted or not, carries
\* bytes at the places they have in the stream; a FIN comes after all of them and is
\* the last that the connection sends.
SynSegment(seg) == seg.seq = 0 /\ seg.flags = {"SYN"} /\ seg.data = <<>>
DataSegment(seg) == seg.flags = {"ACK", "PSH"} /\ Placed(seg.seq, seg.data)
FinSegment(seg) == seg.seq = sent + 1 /\ seg.flags = {"FIN", "ACK"} /\ seg.data = <<>>
SegmentsOK ==
    \A seg \in toRemote : \/ SynSegment(seg) \/ DataSegment(seg)
                          \/ FinSegment(seg) /\ conn.state = "FREE"

\* What the remote host has received is a beginning of what the program has sent, and
\* it has acknowledged no more, unless the connection is over.
StreamOut ==
    /\ remote.got = Upto(Len(remote.got)) /\ Len(remote.got) <= sent
    /\ IF remote.state = "LISTEN" THEN remote.rcv_nxt = 0 /\ remote.got = <<>>
       ELSE \/ remote.rcv_nxt = Len(remote.got) + 1
            \/ /\ remote.rcv_nxt = Len(remote.got) + 2 /\ Len(remote.got) = sent
               /\ conn.state = "FREE"

\* A program connects a socket once, and what it sends is next.
CallOK ==
    /\ socket = "new" /\ call = "none" =>
           /\ conn.state = "FREE" /\ sent = 0 /\ recvd = <<>> /\ toRemote = {}
           /\ remote.state = "LISTEN"
    /\ call = "connect" => socket = "new"
    /\ call \in {"send", "recv"} => socket = "connected"
    /\ call = "send" => /\ Len(want) \in 1..MaxSegment /\ sent + Len(want) <= LocalBytes
                        /\ want = [i \in 1..Len(want) |-> sent + i]

\* Both streams, over a network that loses, repeats and reorders segments, and the state
\* of the connection that carries them.
StreamsOK ==
    TcpTypeOK /\ StreamIn(conn) /\ ConnOK(conn) /\ SegmentsOK /\ StreamOut /\ CallOK

\* Nothing is sent before a retransmission is due.
Quiet == [][conn'.age < conn.age => conn.age >= RETRY_TICKS - 1]_tcpvars

\* A segment that is lost again and again does not stay pending: it is acknowledged,
\* or net_tick gives the connection up after MAX_RETRIES.  Each acknowledgement that
\* the kernel sends puts the retransmission off, so this assumes that from some time
\* on none is sent before the retransmission is due.
PendingEnds == <>Quiet => []<>~conn.tx_pending
=============================================================================
