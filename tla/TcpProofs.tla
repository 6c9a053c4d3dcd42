----------------------------- MODULE TcpProofs -----------------------------
(***************************************************************************)
(* StreamsOK of Tcp is inductive.  A system call or a tick of the timer    *)
(* passes a connection struct through several functions, each of which may *)
(* change it and send a segment: Good is what each of them keeps.          *)
(***************************************************************************)
EXTENDS Tcp, SequenceTheorems, TLAPS

ConnRec == [state : {"FREE", "SYN_SENT", "ESTABLISHED"}, snd_una : Nat, snd_nxt : Nat,
            rcv_nxt : Nat, age : 0..RETRY_TICKS, retries : 0..MAX_RETRIES,
            peer_closed : BOOLEAN, rx : Seq(Nat), tx_pending : BOOLEAN, tx_seq : Nat,
            tx_ack : Nat, tx_flags : SUBSET Flags, tx_buf : Seq(Nat)]
SegRec == [seq : Nat, ack : Nat, flags : SUBSET Flags, data : Seq(Nat)]

\* The structs c and d differ at most in age, retries, peer_closed and tx_ack.
Same(c, d) ==
    /\ d.state = c.state /\ d.snd_una = c.snd_una /\ d.snd_nxt = c.snd_nxt
    /\ d.rcv_nxt = c.rcv_nxt /\ d.rx = c.rx /\ d.tx_pending = c.tx_pending
    /\ d.tx_seq = c.tx_seq /\ d.tx_flags = c.tx_flags /\ d.tx_buf = c.tx_buf

Sized(c) == Len(c.rx) <= RX_BUF /\ Len(c.tx_buf) <= MaxSegment
Fit(c) == c \in ConnRec /\ Sized(c) /\ StreamIn(c) /\ ConnOK(c)

\* A connection struct and the segments that a function has made of it.
Sendable(seg) == seg \in SegRec /\ (SynSegment(seg) \/ DataSegment(seg))
Pair(b) == b = At(b.c, b.out)
Good(b) == Pair(b) /\ Fit(b.c) /\ \A seg \in b.out : Sendable(seg)

LEMMA AtFacts == ASSUME NEW c, NEW out PROVE At(c, out).c = c /\ At(c, out).out = out /\ Pair(At(c, out))
<1>1. At(c, out).c = c /\ At(c, out).out = out
  BY Zenon DEF At
<1> QED BY <1>1, Zenon DEF Pair

LEMMA GoodAt ==
    ASSUME NEW c, Fit(c), NEW out, \A seg \in out : Sendable(seg)
    PROVE  Good(At(c, out))
  BY AtFacts, Zenon DEF Good

LEMMA SameFit == ASSUME NEW c, Fit(c), NEW d \in ConnRec, Same(c, d) PROVE Fit(d)
  BY Zenon DEF Fit, Sized, StreamIn, ConnOK, NextIn, Same

\* An acknowledgement, or a retransmission, leaves the struct alone but for the time.
LEMMA SendFacts ==
    ASSUME NEW b, Pair(b), b.c \in ConnRec, NEW seq, NEW ack, NEW flags, NEW data
    PROVE  /\ Pair(tcp_send_on_conn(b, seq, ack, flags, data, FALSE))
           /\ tcp_send_on_conn(b, seq, ack, flags, data, FALSE).c \in ConnRec
           /\ Same(b.c, tcp_send_on_conn(b, seq, ack, flags, data, FALSE).c)
           /\ tcp_send_on_conn(b, seq, ack, flags, data, FALSE).out
                  \subseteq b.out \cup {Segment(seq, ack, flags, data)}
           /\ flags = {"ACK"} => tcp_send_on_conn(b, seq, ack, flags, data, FALSE).out = b.out
<1> DEFINE r == tcp_send_on_conn(b, seq, ack, flags, data, FALSE)
           s == Segment(seq, ack, flags, data)
           d == [b.c EXCEPT !.age = 0,
                            !.retries = IF FALSE THEN 0 ELSE @,
                            !.tx_pending = FALSE \/ @,
                            !.tx_seq = IF FALSE THEN seq ELSE @,
                            !.tx_ack = IF FALSE THEN ack ELSE @,
                            !.tx_flags = IF FALSE THEN flags ELSE @,
                            !.tx_buf = IF FALSE THEN data ELSE @]
           out == b.out \cup {seg \in {s} : flags # {"ACK"}}
<1>1. 0 \in 0..RETRY_TICKS
  BY TcpAssumption
<1>2. d \in ConnRec /\ Same(b.c, d)
  BY <1>1, ZenonT(30) DEF ConnRec, Same
<1>3. r = IF ~arp THEN b ELSE At(d, out)
  BY Zenon DEF tcp_send_on_conn
<1>4. out \subseteq b.out \cup {s} /\ (flags = {"ACK"} => out = b.out)
  BY Zenon
<1>5. At(d, out).c = d /\ At(d, out).out = out /\ Pair(At(d, out))
  <2> HIDE DEF d, out
  <2> QED BY AtFacts, Zenon
<1> HIDE DEF d, out, r, s
<1>6. /\ Pair(r) /\ r.c \in ConnRec /\ Same(b.c, r.c)
      /\ r.out \subseteq b.out \cup {s} /\ (flags = {"ACK"} => r.out = b.out)
  <2>1. CASE ~arp
    <3>1. r = b
      BY <1>3, <2>1, Zenon
    <3> QED BY <3>1, Zenon DEF Same
  <2>2. CASE arp
    <3>1. r = At(d, out)
      BY <1>3, <2>2, Zenon
    <3> QED BY <1>2, <1>4, <1>5, <3>1, Zenon
  <2> QED BY <2>1, <2>2, Zenon
<1> QED BY <1>6, Zenon DEF r, s

LEMMA SendGood ==
    ASSUME NEW b, Good(b), NEW seq, NEW ack, NEW flags, NEW data,
           Sendable(Segment(seq, ack, flags, data)) \/ flags = {"ACK"}
    PROVE  /\ Good(tcp_send_on_conn(b, seq, ack, flags, data, FALSE))
           /\ Same(b.c, tcp_send_on_conn(b, seq, ack, flags, data, FALSE).c)
<1> DEFINE r == tcp_send_on_conn(b, seq, ack, flags, data, FALSE)
<1>1. Pair(b) /\ b.c \in ConnRec /\ Fit(b.c) /\ \A seg \in b.out : Sendable(seg)
  BY Zenon DEF Good, Fit
<1>2. /\ Pair(r) /\ r.c \in ConnRec /\ Same(b.c, r.c)
      /\ r.out \subseteq b.out \cup {Segment(seq, ack, flags, data)}
      /\ flags = {"ACK"} => r.out = b.out
  BY <1>1, SendFacts, Zenon
<1> HIDE DEF r
<1>3. \A seg \in r.out : Sendable(seg)
  BY <1>1, <1>2, Zenon
<1>4. Fit(r.c)
  BY <1>1, <1>2, SameFit, Zenon
<1>5. Good(r) /\ Same(b.c, r.c)
  BY <1>2, <1>3, <1>4, Zenon DEF Good
<1> QED BY <1>5, Zenon DEF r

LEMMA AckGood ==
    ASSUME NEW b, Good(b)
    PROVE  Good(SendAck(b)) /\ Same(b.c, SendAck(b).c)
  BY SendGood, Zenon DEF SendAck

\* The cleared struct.
LEMMA FreeFit == ASSUME NEW c, Fit(c), recvd \in Seq(Nat) PROVE Fit(FreeConn) /\ FreeConn.state = "FREE"
<1>1. FreeConn \in ConnRec
  <2>1. 0 \in 0..RETRY_TICKS /\ 0 \in 0..MAX_RETRIES /\ 0 \in Nat /\ <<>> \in Seq(Nat)
        /\ {} \in SUBSET Flags
    BY TcpAssumption
  <2> QED BY <2>1, Zenon DEF FreeConn, ConnRec
<1>2. FreeConn.state = "FREE" /\ FreeConn.rx = <<>> /\ FreeConn.tx_buf = <<>>
  BY Zenon DEF FreeConn
<1>3. ConnOK(FreeConn)
  <2>1. "FREE" # "SYN_SENT" /\ "FREE" # "ESTABLISHED"
    OBVIOUS
  <2> QED BY <1>2, <2>1, Zenon DEF ConnOK
<1>4. Sized(FreeConn)
  BY <1>2, TcpAssumption DEF Sized
<1>5. StreamIn(FreeConn)
  <2> DEFINE x == c.rx
  <2>1. x \in Seq(Nat)
    BY DEF Fit, ConnRec
  <2>2. recvd \o x = [i \in 1..(Len(recvd) + Len(x)) |-> i]
    BY DEF Fit, StreamIn, Upto
  <2> HIDE DEF x
  <2>3. \A i \in 1..Len(recvd) : recvd[i] = i
    <3> SUFFICES ASSUME NEW i \in 1..Len(recvd) PROVE recvd[i] = i
      OBVIOUS
    <3>1. i \in 1..(Len(recvd) + Len(x))
      BY <2>1
    <3>2. (recvd \o x)[i] = recvd[i]
      BY <2>1, <3>1
    <3> QED BY <2>2, <3>1, <3>2
  <2>4. recvd = Upto(Len(recvd))
    BY <2>3 DEF Upto
  <2>5. recvd \o <<>> = recvd /\ Len(recvd) + Len(<<>>) = Len(recvd)
    OBVIOUS
  <2> QED BY <1>2, <2>4, <2>5 DEF StreamIn
<1> QED BY <1>1, <1>2, <1>3, <1>4, <1>5, Zenon DEF Fit

----------------------------------------------------------------------------
(* The retransmission timer. *)

LEMMA ConnFacts ==
    ASSUME StreamsOK
    PROVE  /\ conn \in ConnRec /\ Fit(conn) /\ recvd \in Seq(Nat) /\ sent \in Nat
           /\ conn.tx_pending \in BOOLEAN
<1>1. /\ conn \in ConnRec /\ Sized(conn) /\ recvd \in Seq(Nat) /\ sent \in Nat
  BY DEF StreamsOK, TcpTypeOK, ConnRec, Sized
<1>2. StreamIn(conn) /\ ConnOK(conn)
  BY DEF StreamsOK
<1>3. conn.tx_pending \in BOOLEAN
  BY <1>1 DEF ConnRec
<1> QED BY <1>1, <1>2, <1>3, Zenon DEF Fit

LEMMA RetransmitGood ==
    ASSUME NEW c, Fit(c), ~GivenUp(c), c.state # "FREE"
    PROVE  Good(Retransmit(c)) /\ Retransmit(c).c.state = c.state
<1> DEFINE d == [c EXCEPT !.retries = @ + 1]
           b == At(d, {})
<1>1. c \in ConnRec /\ ConnOK(c)
  BY DEF Fit
<1>2. c.retries + 1 \in 0..MAX_RETRIES
  BY <1>1, TcpAssumption DEF GivenUp, ConnRec
<1>3. d \in ConnRec /\ Same(c, d)
  BY <1>1, <1>2, ZenonT(30) DEF ConnRec, Same
<1>4. Good(b) /\ b.c = d /\ d.state = c.state
  <2>1. Fit(d)
    BY <1>3, SameFit, Zenon
  <2> QED BY <1>3, <2>1, GoodAt, AtFacts, Zenon DEF Same
<1>5. Retransmit(c) = IF c.state = "SYN_SENT"
                      THEN tcp_send_on_conn(b, c.snd_una, 0, {"SYN"}, <<>>, FALSE)
                      ELSE IF c.tx_pending
                      THEN tcp_send_on_conn(b, c.tx_seq, c.tx_ack, c.tx_flags, c.tx_buf, FALSE)
                      ELSE b
  BY Zenon DEF Retransmit
<1> HIDE DEF b, d
<1>6. CASE c.state = "SYN_SENT"
  <2>1. Retransmit(c) = tcp_send_on_conn(b, c.snd_una, 0, {"SYN"}, <<>>, FALSE)
    BY <1>5, <1>6, Zenon
  <2>2. c.snd_una = 0
    BY <1>1, <1>6, Zenon DEF ConnOK
  <2>3. 0 \in Nat /\ {"SYN"} \in SUBSET Flags /\ <<>> \in Seq(Nat)
    BY DEF Flags
  <2>4. Sendable(Segment(0, 0, {"SYN"}, <<>>))
    BY <2>3, Zenon DEF Segment, Sendable, SynSegment, SegRec
  <2>5. Sendable(Segment(c.snd_una, 0, {"SYN"}, <<>>))
    BY <2>2, <2>4, Zenon
  <2>6. Good(Retransmit(c)) /\ Same(b.c, Retransmit(c).c)
    BY <1>4, <2>1, <2>5, SendGood, Zenon
  <2> QED BY <1>4, <2>6, Zenon DEF Same
<1>7. CASE c.state # "SYN_SENT" /\ c.tx_pending
  <2>1. Retransmit(c) = tcp_send_on_conn(b, c.tx_seq, c.tx_ack, c.tx_flags, c.tx_buf, FALSE)
    BY <1>5, <1>7, Zenon
  <2>2. /\ c.tx_seq \in Nat /\ c.tx_ack \in Nat /\ c.tx_flags \in SUBSET Flags
        /\ c.tx_buf \in Seq(Nat) /\ c.state = "ESTABLISHED"
    BY <1>1, <1>7 DEF ConnRec
  <2>3. c.tx_flags = {"ACK", "PSH"} /\ Placed(c.tx_seq, c.tx_buf)
    BY <1>1, <1>7, <2>2, Zenon DEF ConnOK
  <2>4. Sendable(Segment(c.tx_seq, c.tx_ack, c.tx_flags, c.tx_buf))
    BY <2>2, <2>3, Zenon DEF Segment, Sendable, DataSegment, SegRec
  <2>5. Good(Retransmit(c)) /\ Same(b.c, Retransmit(c).c)
    BY <1>4, <2>1, <2>4, SendGood, Zenon
  <2> QED BY <1>4, <2>5, Zenon DEF Same
<1>8. CASE c.state # "SYN_SENT" /\ ~c.tx_pending
  <2>1. Retransmit(c) = b
    BY <1>5, <1>8, Zenon
  <2> QED BY <1>4, <2>1, Zenon
<1> QED BY <1>6, <1>7, <1>8, Zenon

LEMMA TimerGood ==
    ASSUME StreamsOK, NEW b, b = tcp_timer(conn)
    PROVE  /\ Good(b) /\ b.c.state \in {"FREE", conn.state}
           /\ conn.state = "FREE" => b = At(conn, {})
<1> DEFINE aged == [conn EXCEPT !.age = Least(@ + 1, RETRY_TICKS)]
<1>1. conn \in ConnRec /\ Fit(conn) /\ recvd \in Seq(Nat)
  BY ConnFacts, Zenon
<1>2. Least(conn.age + 1, RETRY_TICKS) \in 0..RETRY_TICKS
  BY <1>1, TcpAssumption DEF ConnRec, Least
<1>3. aged \in ConnRec /\ Same(conn, aged) /\ aged.retries = conn.retries
  BY <1>1, <1>2, ZenonT(30) DEF ConnRec, Same
<1>4. Fit(aged) /\ aged.state = conn.state
  BY <1>1, <1>3, SameFit, Zenon DEF Same
<1>5. Fit(FreeConn) /\ FreeConn.state = "FREE"
  BY <1>1, FreeFit, Zenon
<1>6. b = IF conn.state = "FREE" THEN At(conn, {})
          ELSE IF aged.age < RETRY_TICKS THEN At(aged, {})
          ELSE IF GivenUp(conn) THEN At(FreeConn, {})
          ELSE Retransmit(aged)
  BY Zenon DEF tcp_timer
<1> HIDE DEF aged
<1>7. CASE b = At(conn, {}) \/ b = At(aged, {}) \/ b = At(FreeConn, {})
  <2>1. PICK c \in {conn, aged, FreeConn} : b = At(c, {})
    BY <1>7, Zenon
  <2>2. Fit(c) /\ c.state \in {"FREE", conn.state}
    BY <1>1, <1>4, <1>5, Zenon
  <2> QED BY <1>6, <2>1, <2>2, GoodAt, AtFacts
<1>8. CASE conn.state # "FREE" /\ ~GivenUp(conn) /\ b = Retransmit(aged)
  <2>1. ~GivenUp(aged)
    BY <1>3, <1>8, Zenon DEF GivenUp
  <2> QED BY <1>4, <1>8, <2>1, RetransmitGood, Zenon
<1> QED BY <1>6, <1>7, <1>8, Zenon

----------------------------------------------------------------------------
(* A segment arrives. *)

\* What is known of a segment that the remote host has sent.
Arriving(seg) ==
    /\ seg.seq \in Nat /\ seg.ack \in Nat /\ seg.ack <= remote.rcv_nxt /\ seg.data \in Seq(Nat)
    /\ seg.data # <<>> => /\ seg.seq + Len(seg.data) <= RemoteBytes + 1
                          /\ \A k \in 1..Len(seg.data) : seg.data[k] = seg.seq + k - 1
    /\ "FIN" \in seg.flags => seg.seq = RemoteBytes + 1 /\ seg.data = <<>>
    /\ "SYN" \in seg.flags => seg.seq = 0

LEMMA ArrivingFacts == ASSUME StreamsOK, NEW seg \in MayArrive PROVE Arriving(seg)
<1>1. remote.state # "LISTEN"
  BY DEF MayArrive
<1>2. remote.rcv_nxt \in Nat /\ remote.rcv_nxt >= 1
  BY <1>1, SMTT(20) DEF StreamsOK, TcpTypeOK, StreamOut
<1>3. RemoteBytes \in Nat /\ MaxSegment \in Nat
  BY TcpAssumption
<1>4. CASE seg = Segment(0, 1, {"SYN", "ACK"}, <<>>)
  <2>1. seg.seq = 0 /\ seg.ack = 1 /\ seg.flags = {"SYN", "ACK"} /\ seg.data = <<>>
    BY <1>4, Zenon DEF Segment
  <2> QED BY <1>2, <2>1 DEF Arriving
<1>5. ASSUME NEW i \in 1..RemoteBytes, NEW ack \in 1..remote.rcv_nxt,
             NEW n \in 1..Least(MaxSegment, RemoteBytes + 1 - i),
             seg = Segment(i, ack, {"ACK"}, [k \in 1..n |-> i + k - 1])
      PROVE  Arriving(seg)
  <2> DEFINE d == [k \in 1..n |-> i + k - 1]
  <2>1. seg.seq = i /\ seg.ack = ack /\ seg.flags = {"ACK"} /\ seg.data = d
    BY <1>5, Zenon DEF Segment
  <2>2. n \in Nat /\ i + n <= RemoteBytes + 1
    BY <1>3 DEF Least
  <2>3. d \in Seq(Nat) /\ Len(d) = n /\ \A k \in 1..n : d[k] = i + k - 1
    BY <2>2
  <2> HIDE DEF d
  <2> QED BY <1>2, <1>3, <2>1, <2>2, <2>3 DEF Arriving
<1>6. ASSUME NEW ack \in 1..remote.rcv_nxt, NEW flags \in {{"ACK"}, {"FIN", "ACK"}},
             seg = Segment(RemoteBytes + 1, ack, flags, <<>>)
      PROVE  Arriving(seg)
  <2>1. seg.seq = RemoteBytes + 1 /\ seg.ack = ack /\ seg.flags = flags /\ seg.data = <<>>
    BY <1>6, Zenon DEF Segment
  <2>2. "SYN" \notin flags
    OBVIOUS
  <2> QED BY <1>2, <1>3, <2>1, <2>2 DEF Arriving
<1>7. CASE seg = Segment(0, 0, {"RST"}, <<>>)
  <2>1. seg.seq = 0 /\ seg.ack = 0 /\ seg.flags = {"RST"} /\ seg.data = <<>>
    BY <1>7, Zenon DEF Segment
  <2> QED BY <1>2, <2>1 DEF Arriving
<1>8. \/ seg = Segment(0, 1, {"SYN", "ACK"}, <<>>)
      \/ \E i \in 1..RemoteBytes, ack \in 1..remote.rcv_nxt :
             \E n \in 1..Least(MaxSegment, RemoteBytes + 1 - i) :
                seg = Segment(i, ack, {"ACK"}, [k \in 1..n |-> i + k - 1])
      \/ \E ack \in 1..remote.rcv_nxt, flags \in {{"ACK"}, {"FIN", "ACK"}} :
             seg = Segment(RemoteBytes + 1, ack, flags, <<>>)
      \/ seg = Segment(0, 0, {"RST"}, <<>>)
  <2> DEFINE D(i, ack) == {Segment(i, ack, {"ACK"}, [k \in 1..n |-> i + k - 1]) :
                              n \in 1..Least(MaxSegment, RemoteBytes + 1 - i)}
             F == {Segment(RemoteBytes + 1, ack, flags, <<>>) :
                      ack \in 1..remote.rcv_nxt, flags \in {{"ACK"}, {"FIN", "ACK"}}}
             R == {s \in {Segment(0, 0, {"RST"}, <<>>)} : Resets}
  <2>1. MayArrive = {Segment(0, 1, {"SYN", "ACK"}, <<>>)}
                    \cup (UNION {D(i, ack) : i \in 1..RemoteBytes, ack \in 1..remote.rcv_nxt})
                    \cup F \cup R
    BY <1>1 DEF MayArrive
  <2>2. seg \in F => \E ack \in 1..remote.rcv_nxt, flags \in {{"ACK"}, {"FIN", "ACK"}} :
                         seg = Segment(RemoteBytes + 1, ack, flags, <<>>)
    OBVIOUS
  <2>3. seg \in R => seg = Segment(0, 0, {"RST"}, <<>>)
    BY Zenon
  <2>4. \A i, ack : seg \in D(i, ack) => \E n \in 1..Least(MaxSegment, RemoteBytes + 1 - i) :
                        seg = Segment(i, ack, {"ACK"}, [k \in 1..n |-> i + k - 1])
    BY Zenon
  <2> HIDE DEF F, R, D
  <2> DEFINE U == UNION {D(i, ack) : i \in 1..RemoteBytes, ack \in 1..remote.rcv_nxt}
  <2>5. seg \in U => \E i \in 1..RemoteBytes, ack \in 1..remote.rcv_nxt : seg \in D(i, ack)
    OBVIOUS
  <2>6. MayArrive = {Segment(0, 1, {"SYN", "ACK"}, <<>>)} \cup U \cup F \cup R
    BY <2>1
  <2> HIDE DEF U
  <2>7. seg = Segment(0, 1, {"SYN", "ACK"}, <<>>) \/ seg \in U \/ seg \in F \/ seg \in R
    BY <2>6, Zenon
  <2>8. CASE seg \in U
    <3>1. PICK i \in 1..RemoteBytes, ack \in 1..remote.rcv_nxt : seg \in D(i, ack)
      BY <2>5, <2>8, Zenon
    <3>2. \E n \in 1..Least(MaxSegment, RemoteBytes + 1 - i) :
              seg = Segment(i, ack, {"ACK"}, [k \in 1..n |-> i + k - 1])
      BY <2>4, <3>1, Zenon
    <3> QED BY <3>2, Zenon
  <2> QED BY <2>2, <2>3, <2>7, <2>8, Zenon
<1> QED BY <1>4, <1>5, <1>6, <1>7, <1>8, Zenon

\* An acknowledgement never passes what has been sent.
LEMMA AckedFit ==
    ASSUME NEW c, Fit(c), c.state = "ESTABLISHED", NEW seg, Arriving(seg),
           remote.rcv_nxt \in Nat, remote.rcv_nxt <= sent + 1, sent \in Nat
    PROVE  Fit(Acked(c, seg)) /\ Acked(c, seg).state = "ESTABLISHED"
<1> DEFINE all == c.tx_pending /\ seg.ack >= c.tx_seq + Len(c.tx_buf)
           d == [c EXCEPT !.snd_una = seg.ack, !.tx_pending = @ /\ ~all,
                          !.tx_buf = IF all THEN <<>> ELSE @]
<1>1. /\ c \in ConnRec /\ Sized(c) /\ StreamIn(c) /\ ConnOK(c)
      /\ seg.ack \in Nat /\ seg.ack <= sent + 1
  BY DEF Fit, Arriving
<1>2. CASE ~("ACK" \in seg.flags /\ seg.ack > c.snd_una)
  BY <1>2, Zenon DEF Acked
<1>3. CASE seg.ack > c.snd_una /\ Acked(c, seg) = d
  <2>1. /\ d \in ConnRec /\ d.state = c.state /\ d.snd_una = seg.ack /\ d.snd_nxt = c.snd_nxt
        /\ d.rcv_nxt = c.rcv_nxt /\ d.rx = c.rx /\ d.tx_pending = (c.tx_pending /\ ~all)
        /\ d.tx_seq = c.tx_seq /\ d.tx_flags = c.tx_flags
        /\ d.tx_buf = IF all THEN <<>> ELSE c.tx_buf
    <3>1. <<>> \in Seq(Nat)
      OBVIOUS
    <3> HIDE DEF all
    <3> QED BY <1>1, <3>1, ZenonT(30) DEF ConnRec
  <2>2. /\ c.tx_pending \in BOOLEAN /\ c.snd_una \in Nat /\ c.snd_nxt \in Nat /\ c.tx_seq \in Nat
        /\ c.tx_buf \in Seq(Nat) /\ Len(c.tx_buf) \in Nat
    BY <1>1 DEF ConnRec
  <2>3. /\ c.snd_una >= 1 /\ c.snd_nxt = sent + 1 /\ NextIn(c)
        /\ c.tx_pending => /\ c.tx_seq <= c.snd_una /\ c.snd_una <= c.snd_nxt
                           /\ c.snd_nxt = c.tx_seq + Len(c.tx_buf)
                           /\ c.tx_flags = {"ACK", "PSH"} /\ Placed(c.tx_seq, c.tx_buf)
        /\ ~c.tx_pending => c.snd_una = c.snd_nxt
    BY <1>1, Zenon DEF ConnOK
  <2>4. c.tx_pending
    BY <1>1, <1>3, <2>2, <2>3
  <2> HIDE DEF d
  <2>5. Sized(d) /\ StreamIn(d) /\ NextIn(d)
    <3>1. Len(<<>>) <= MaxSegment
      BY TcpAssumption
    <3>2. Len(d.tx_buf) <= MaxSegment
      BY <1>1, <2>1, <3>1, Zenon DEF Sized
    <3> QED BY <1>1, <2>1, <2>3, <3>2, Zenon DEF Sized, StreamIn, NextIn
  <2>6. CASE all
    <3>1. d.tx_pending = FALSE /\ d.snd_una = d.snd_nxt
      <4>1. d.tx_pending = FALSE
        BY <2>1, <2>6, Zenon
      <4>2. d.snd_una = d.snd_nxt
        BY <1>1, <2>1, <2>2, <2>3, <2>4, <2>6
      <4> QED BY <4>1, <4>2, Zenon
    <3>2. ConnOK(d)
      <4>1. d.state = "ESTABLISHED" /\ d.snd_una >= 1 /\ d.snd_nxt = sent + 1
        BY <1>1, <1>3, <2>1, <2>2, <2>3
      <4>2. "ESTABLISHED" # "FREE" /\ "ESTABLISHED" # "SYN_SENT"
        OBVIOUS
      <4> QED BY <2>5, <3>1, <4>1, <4>2, Zenon DEF ConnOK
    <3> QED BY <1>3, <2>1, <2>5, <3>2, Zenon DEF Fit
  <2>7. CASE ~all
    <3>1. /\ d.tx_pending /\ d.tx_seq <= d.snd_una /\ d.snd_una <= d.snd_nxt
          /\ d.snd_nxt = d.tx_seq + Len(d.tx_buf)
          /\ d.tx_flags = {"ACK", "PSH"} /\ Placed(d.tx_seq, d.tx_buf)
      <4>1. d.tx_buf = c.tx_buf /\ d.tx_pending = c.tx_pending
        BY <2>1, <2>2, <2>7, Zenon
      <4>2. d.tx_seq <= d.snd_una /\ d.snd_una <= d.snd_nxt
        BY <1>1, <1>3, <2>1, <2>2, <2>3, <2>4
      <4> QED BY <2>1, <2>3, <2>4, <4>1, <4>2, Zenon
    <3>2. ConnOK(d)
      <4>1. d.state = "ESTABLISHED" /\ d.snd_una >= 1 /\ d.snd_nxt = sent + 1
        BY <1>1, <1>3, <2>1, <2>2, <2>3
      <4>2. "ESTABLISHED" # "FREE" /\ "ESTABLISHED" # "SYN_SENT"
        OBVIOUS
      <4> QED BY <2>5, <3>1, <4>1, <4>2, Zenon DEF ConnOK
    <3> QED BY <1>3, <2>1, <2>5, <3>2, Zenon DEF Fit
  <2> QED BY <2>6, <2>7
<1>4. Acked(c, seg) = IF "ACK" \in seg.flags /\ seg.ack > c.snd_una THEN d ELSE c
  BY Zenon DEF Acked
<1> HIDE DEF d
<1> QED BY <1>2, <1>3, <1>4, Zenon

\* A stream goes on with the bytes that are next.
LEMMA UptoGrows ==
    ASSUME NEW s \in Seq(Nat), NEW y \in Seq(Nat)
    PROVE  s = Upto(Len(s)) /\ (\A k \in 1..Len(y) : y[k] = Len(s) + k) =>
               s \o y = Upto(Len(s) + Len(y))
<1> DEFINE z == s \o y
           a == Len(s)
           b == Len(y)
           w == Upto(a + b)
<1>1. z \in Seq(Nat) /\ Len(z) = a + b /\ a \in Nat /\ b \in Nat
      /\ \A i \in 1..(a + b) : z[i] = IF i <= a THEN s[i] ELSE y[i - a]
  BY ConcatProperties
<1>2. ASSUME NEW n \in Nat
      PROVE  Upto(n) \in Seq(Nat) /\ Len(Upto(n)) = n /\ \A i \in 1..n : Upto(n)[i] = i
  BY DEF Upto
<1>3. w \in Seq(Nat) /\ Len(w) = a + b /\ \A i \in 1..(a + b) : w[i] = i
  <2>1. a + b \in Nat
    BY <1>1
  <2> QED BY <1>2, <2>1, Zenon
<1>4. ASSUME s = Upto(a) PROVE \A i \in 1..a : s[i] = i
  BY <1>1, <1>2, <1>4, Zenon
<1> HIDE DEF z, a, b, w
<1>5. ASSUME s = Upto(a), \A k \in 1..b : y[k] = a + k
      PROVE  z = w
  <2>1. \A i \in 1..(a + b) : z[i] = i
    <3>1. ASSUME NEW i \in 1..(a + b), i <= a PROVE z[i] = i
      <4>1. i \in 1..a
        BY <1>1, <3>1
      <4> QED BY <1>1, <1>4, <1>5, <3>1, <4>1, Zenon
    <3>2. ASSUME NEW i \in 1..(a + b), ~(i <= a) PROVE z[i] = i
      <4>1. i - a \in 1..b /\ a + (i - a) = i
        BY <1>1, <3>2
      <4>2. z[i] = y[i - a] /\ y[i - a] = a + (i - a)
        BY <1>1, <1>5, <3>2, <4>1, Zenon
      <4> QED BY <4>1, <4>2, Zenon
    <3> QED BY <3>1, <3>2, Zenon
  <2>2. \A i \in 1..Len(z) : z[i] = w[i]
    BY <1>1, <1>3, <2>1
  <2>3. Len(z) = Len(w)
    BY <1>1, <1>3, Zenon
  <2> QED BY <1>1, <1>3, <2>2, <2>3, SeqEqual, Zenon
<1> QED BY <1>5, Zenon DEF z, a, b, w

\* What recvd and the receive buffer hold, when the bytes y are appended to the buffer.
LEMMA StreamGrows ==
    ASSUME NEW r \in Seq(Nat), NEW x \in Seq(Nat), NEW y \in Seq(Nat)
    PROVE  /\ r \o x = Upto(Len(r) + Len(x)) /\ (\A k \in 1..Len(y) : y[k] = Len(r) + Len(x) + k)
                 => r \o (x \o y) = Upto(Len(r) + Len(x \o y))
           /\ x \o y \in Seq(Nat) /\ Len(x \o y) = Len(x) + Len(y)
<1> DEFINE s == r \o x
<1>1. /\ s \in Seq(Nat) /\ Len(s) = Len(r) + Len(x)
      /\ Len(r) \in Nat /\ Len(x) \in Nat /\ Len(y) \in Nat
  BY ConcatProperties
<1>2. x \o y \in Seq(Nat) /\ Len(x \o y) = Len(x) + Len(y)
  BY ConcatProperties
<1>3. r \o (x \o y) = s \o y
  BY SMTT(30)
<1> HIDE DEF s
<1>4. s = Upto(Len(s)) /\ (\A k \in 1..Len(y) : y[k] = Len(s) + k) =>
          s \o y = Upto(Len(s) + Len(y))
  BY <1>1, UptoGrows, Zenon
<1>5. Len(s) + Len(y) = Len(r) + Len(x \o y)
  <2>1. \A i, j, k \in Nat : (i + j) + k = i + (j + k)
    OBVIOUS
  <2>2. (Len(r) + Len(x)) + Len(y) = Len(r) + (Len(x) + Len(y))
    BY <1>1, <2>1, Zenon
  <2> QED BY <1>1, <1>2, <2>2, Zenon
<1>6. s = Upto(Len(r) + Len(x)) /\ (\A k \in 1..Len(y) : y[k] = Len(r) + Len(x) + k) =>
          s \o y = Upto(Len(s) + Len(y))
  BY <1>1, <1>4, Zenon
<1>7. s = Upto(Len(r) + Len(x)) /\ (\A k \in 1..Len(y) : y[k] = Len(r) + Len(x) + k) =>
          r \o (x \o y) = Upto(Len(r) + Len(x \o y))
  BY <1>3, <1>5, <1>6, Zenon
<1> QED BY <1>2, <1>7, Zenon DEF s

\* The beginning of a sequence.
LEMMA TakeFacts ==
    ASSUME NEW d \in Seq(Nat), NEW n \in Nat, n <= Len(d)
    PROVE  /\ SubSeq(d, 1, n) \in Seq(Nat) /\ Len(SubSeq(d, 1, n)) = n
           /\ \A k \in 1..n : SubSeq(d, 1, n)[k] = d[k]
  OBVIOUS

LEMMA SetConn ==
    ASSUME NEW b, Pair(b), NEW d
    PROVE  [b EXCEPT !.c = d] = At(d, b.out)
  BY DEF Pair, At

LEMMA PayloadGood ==
    ASSUME NEW b, Good(b), b.c.state = "ESTABLISHED", NEW seg, Arriving(seg), recvd \in Seq(Nat)
    PROVE  Good(Payload(b, seg)) /\ Payload(b, seg).c.state = "ESTABLISHED"
<1> DEFINE c == b.c
           n == Least(Len(seg.data), RX_BUF - Len(c.rx))
           y == SubSeq(seg.data, 1, n)
           d == [c EXCEPT !.rx = @ \o y, !.rcv_nxt = @ + n]
           u == [b EXCEPT !.c.rx = @ \o y, !.c.rcv_nxt = @ + n]
<1>1. Payload(b, seg) = IF seg.data = <<>> THEN b
                        ELSE IF seg.seq # c.rcv_nxt THEN SendAck(b) ELSE SendAck(u)
  BY Zenon DEF Payload
<1>2. /\ Pair(b) /\ c \in ConnRec /\ Sized(c) /\ StreamIn(c) /\ ConnOK(c)
      /\ \A s \in b.out : Sendable(s)
  BY Zenon DEF Good, Fit
<1>3. u = At(d, b.out)
  <2> HIDE DEF y, n
  <2>1. u = [b EXCEPT !.c = d]
    BY Zenon
  <2> QED BY <1>2, <2>1, SetConn, Zenon
<1>4. c.state = "ESTABLISHED"
  OBVIOUS
<1> HIDE DEF u, c
<1>5. CASE seg.data # <<>> /\ seg.seq = c.rcv_nxt
  <2>1. /\ seg.data \in Seq(Nat) /\ Len(seg.data) \in Nat /\ Len(seg.data) >= 1
        /\ seg.seq + Len(seg.data) <= RemoteBytes + 1 /\ seg.seq \in Nat
        /\ \A k \in 1..Len(seg.data) : seg.data[k] = seg.seq + k - 1
    BY <1>5 DEF Arriving
  <2>2. /\ c.rx \in Seq(Nat) /\ Len(c.rx) \in Nat /\ Len(c.rx) <= RX_BUF
        /\ c.rcv_nxt \in Nat /\ Len(recvd) \in Nat
    BY <1>2 DEF ConnRec, Sized
  <2>3. NextIn(c)
    BY <1>2, <1>4, Zenon DEF ConnOK
  <2>4. /\ n \in Nat /\ n <= Len(seg.data) /\ Len(c.rx) + n <= RX_BUF /\ c.rcv_nxt + n \in Nat
        /\ Len(recvd) + (Len(c.rx) + n) <= RemoteBytes
        /\ c.rcv_nxt + n = Len(recvd) + (Len(c.rx) + n) + 1
        /\ \A k \in 1..n : /\ k \in 1..Len(seg.data)
                           /\ c.rcv_nxt + k - 1 = Len(recvd) + Len(c.rx) + k
    <3> DEFINE l == Len(recvd)
               x == Len(c.rx)
               e == Len(seg.data)
               q == c.rcv_nxt
    <3>1. /\ l + x <= RemoteBytes /\ (q = l + x + 1 \/ (l + x = RemoteBytes /\ q = l + x + 2))
          /\ q + e <= RemoteBytes + 1
      BY <1>5, <2>1, <2>3, Zenon DEF NextIn
    <3>2. /\ l \in Nat /\ x \in Nat /\ e \in Nat /\ e >= 1 /\ x <= RX_BUF /\ q \in Nat
          /\ n = Least(e, RX_BUF - x)
      BY <2>1, <2>2, Zenon
    <3> HIDE DEF l, x, e, q, n
    <3>3. /\ n \in Nat /\ n <= e /\ x + n <= RX_BUF /\ q = l + x + 1 /\ q + n \in Nat
          /\ l + (x + n) <= RemoteBytes /\ q + n = l + (x + n) + 1
          /\ \A k \in 1..n : k \in 1..e /\ q + k - 1 = l + x + k
      BY <3>1, <3>2, TcpAssumption DEF Least
    <3> QED BY <3>3, Zenon DEF l, x, e, q
  <2> HIDE DEF n
  <2>5. y \in Seq(Nat) /\ Len(y) = n /\ \A k \in 1..n : y[k] = seg.data[k]
    BY <2>1, <2>4, TakeFacts, Zenon
  <2>6. \A k \in 1..Len(y) : y[k] = Len(recvd) + Len(c.rx) + k
    BY <1>5, <2>1, <2>4, <2>5, Zenon
  <2> HIDE DEF y
  <2> DEFINE x == c.rx \o y
  <2>7. /\ recvd \o x = Upto(Len(recvd) + Len(x)) /\ x \in Seq(Nat)
        /\ Len(x) = Len(c.rx) + n
    <3>1. recvd \o c.rx = Upto(Len(recvd) + Len(c.rx))
      BY <1>2, Zenon DEF StreamIn
    <3> DEFINE z == c.rx
    <3>2. z \in Seq(Nat)
      BY <2>2, Zenon
    <3> HIDE DEF z
    <3>3. /\ recvd \o z = Upto(Len(recvd) + Len(z))
                 /\ (\A k \in 1..Len(y) : y[k] = Len(recvd) + Len(z) + k)
               => recvd \o (z \o y) = Upto(Len(recvd) + Len(z \o y))
          /\ z \o y \in Seq(Nat) /\ Len(z \o y) = Len(z) + Len(y)
      BY <2>5, <3>2, StreamGrows, Zenon
    <3> QED BY <2>5, <2>6, <3>1, <3>3, Zenon DEF z
  <2> HIDE DEF x
  <2>8. /\ d \in ConnRec /\ d.state = c.state /\ d.snd_una = c.snd_una /\ d.snd_nxt = c.snd_nxt
        /\ d.rcv_nxt = c.rcv_nxt + n /\ d.rx = x /\ d.tx_pending = c.tx_pending
        /\ d.tx_seq = c.tx_seq /\ d.tx_flags = c.tx_flags /\ d.tx_buf = c.tx_buf
    <3>1. d = [c EXCEPT !.rx = x, !.rcv_nxt = c.rcv_nxt + n]
      BY Zenon DEF x
    <3> HIDE DEF d
    <3> QED BY <1>2, <2>4, <2>7, <3>1, ZenonT(30) DEF ConnRec
  <2> HIDE DEF d
  <2>9. NextIn(d)
    BY <2>4, <2>7, <2>8, Zenon DEF NextIn
  <2>10. StreamIn(d) /\ Sized(d)
    BY <1>2, <2>4, <2>7, <2>8, Zenon DEF StreamIn, Sized
  <2>11. ConnOK(d)
    <3>1. "ESTABLISHED" # "FREE" /\ "ESTABLISHED" # "SYN_SENT"
      OBVIOUS
    <3> QED BY <1>2, <1>4, <2>8, <2>9, <3>1, Zenon DEF ConnOK
  <2>12. Fit(d) /\ d.state = "ESTABLISHED"
    BY <1>4, <2>8, <2>10, <2>11, Zenon DEF Fit
  <2>13. Good(u) /\ u.c.state = "ESTABLISHED"
    <3>1. Good(At(d, b.out)) /\ At(d, b.out).c = d
      BY <1>2, <2>12, GoodAt, AtFacts, Zenon
    <3> QED BY <1>3, <2>12, <3>1, Zenon
  <2>14. Good(SendAck(u)) /\ SendAck(u).c.state = "ESTABLISHED"
    BY <2>13, AckGood, Zenon DEF Same
  <2> QED BY <1>1, <1>5, <2>14, Zenon
<1>6. CASE seg.data = <<>>
  BY <1>1, <1>6, Zenon
<1>7. CASE seg.data # <<>> /\ seg.seq # c.rcv_nxt
  <2>1. Good(SendAck(b)) /\ SendAck(b).c.state = "ESTABLISHED"
    BY AckGood, Zenon DEF Same
  <2> QED BY <1>1, <1>7, <2>1, Zenon
<1> QED BY <1>5, <1>6, <1>7, Zenon

LEMMA FinGood ==
    ASSUME NEW b, Good(b), b.c.state = "ESTABLISHED", NEW seg, Arriving(seg), recvd \in Seq(Nat)
    PROVE  Good(Fin(b, seg)) /\ Fin(b, seg).c.state = "ESTABLISHED"
<1> DEFINE c == b.c
           m == IF seg.seq + Len(seg.data) = c.rcv_nxt THEN c.rcv_nxt + 1 ELSE c.rcv_nxt
           d == [c EXCEPT !.peer_closed = TRUE, !.rcv_nxt = m]
           u == [b EXCEPT !.c.peer_closed = TRUE,
                          !.c.rcv_nxt = IF seg.seq + Len(seg.data) = @ THEN @ + 1 ELSE @]
<1>1. Fin(b, seg) = IF "FIN" \notin seg.flags THEN b ELSE SendAck(u)
  BY Zenon DEF Fin
<1>2. /\ Pair(b) /\ c \in ConnRec /\ Sized(c) /\ StreamIn(c) /\ ConnOK(c)
      /\ \A s \in b.out : Sendable(s)
  BY Zenon DEF Good, Fit
<1>3. u = At(d, b.out)
  <2>1. u = [b EXCEPT !.c = d]
    BY Zenon
  <2> HIDE DEF u, d
  <2> QED BY <1>2, <2>1, SetConn, Zenon
<1>4. c.state = "ESTABLISHED"
  OBVIOUS
<1> HIDE DEF u, c
<1>5. CASE "FIN" \in seg.flags
  <2>1. seg.seq = RemoteBytes + 1 /\ Len(seg.data) = 0 /\ RemoteBytes \in Nat
    BY <1>5, TcpAssumption DEF Arriving
  <2>2. c.rx \in Seq(Nat) /\ Len(c.rx) \in Nat /\ c.rcv_nxt \in Nat /\ Len(recvd) \in Nat
    BY <1>2 DEF ConnRec
  <2>3. m \in Nat
    BY <2>2
  <2>4. NextIn(c)
    BY <1>2, <1>4, Zenon DEF ConnOK
  <2>5. LET k == Len(recvd) + Len(c.rx)
        IN  k <= RemoteBytes /\ (m = k + 1 \/ (k = RemoteBytes /\ m = k + 2))
    BY <2>1, <2>2, <2>4 DEF NextIn
  <2> HIDE DEF m
  <2>6. /\ d \in ConnRec /\ d.state = c.state /\ d.snd_una = c.snd_una /\ d.snd_nxt = c.snd_nxt
        /\ d.rcv_nxt = m /\ d.rx = c.rx /\ d.tx_pending = c.tx_pending
        /\ d.tx_seq = c.tx_seq /\ d.tx_flags = c.tx_flags /\ d.tx_buf = c.tx_buf
    BY <1>2, <2>3, ZenonT(30) DEF ConnRec
  <2> HIDE DEF d
  <2>7. NextIn(d)
    BY <2>5, <2>6, Zenon DEF NextIn
  <2>8. StreamIn(d) /\ Sized(d)
    BY <1>2, <2>6, Zenon DEF StreamIn, Sized
  <2>9. ConnOK(d)
    <3>1. "ESTABLISHED" # "FREE" /\ "ESTABLISHED" # "SYN_SENT"
      OBVIOUS
    <3> QED BY <1>2, <1>4, <2>6, <2>7, <3>1, Zenon DEF ConnOK
  <2>10. Fit(d) /\ d.state = "ESTABLISHED"
    BY <1>4, <2>6, <2>8, <2>9, Zenon DEF Fit
  <2>11. Good(u) /\ u.c.state = "ESTABLISHED"
    <3>1. Good(At(d, b.out)) /\ At(d, b.out).c = d
      BY <1>2, <2>10, GoodAt, AtFacts, Zenon
    <3> QED BY <1>3, <2>10, <3>1, Zenon
  <2>12. Good(SendAck(u)) /\ SendAck(u).c.state = "ESTABLISHED"
    BY <2>11, AckGood, Zenon DEF Same
  <2> QED BY <1>1, <1>5, <2>12, Zenon
<1>6. CASE "FIN" \notin seg.flags
  BY <1>1, <1>6, Zenon
<1> QED BY <1>5, <1>6, Zenon

\* The answer to the SYN.
LEMMA OpenedGood ==
    ASSUME NEW b, Good(b), b.c.state = "SYN_SENT", NEW seg, Arriving(seg), "SYN" \in seg.flags,
           seg.ack = b.c.snd_nxt, NEW u,
           u = [b EXCEPT !.c.rcv_nxt = seg.seq + 1, !.c.snd_una = seg.ack,
                         !.c.state = "ESTABLISHED", !.c.tx_pending = FALSE]
    PROVE  Good(u) /\ u.c.state = "ESTABLISHED"
<1> DEFINE c == b.c
           d == [c EXCEPT !.rcv_nxt = seg.seq + 1, !.snd_una = seg.ack,
                          !.state = "ESTABLISHED", !.tx_pending = FALSE]
<1>1. /\ Pair(b) /\ c \in ConnRec /\ Sized(c) /\ StreamIn(c) /\ ConnOK(c)
      /\ \A s \in b.out : Sendable(s)
  BY Zenon DEF Good, Fit
<1>2. u = At(d, b.out)
  <2>1. u = [b EXCEPT !.c = d]
    BY Zenon
  <2> HIDE DEF d
  <2> QED BY <1>1, <2>1, SetConn, Zenon
<1>3. /\ sent = 0 /\ recvd = <<>> /\ c.rx = <<>> /\ c.snd_nxt = 1 /\ seg.ack = 1
  BY <1>1, Zenon DEF ConnOK
<1>4. seg.seq + 1 = 1 /\ 1 \in Nat /\ "ESTABLISHED" \in {"FREE", "SYN_SENT", "ESTABLISHED"}
  BY DEF Arriving
<1>5. /\ d \in ConnRec /\ d.state = "ESTABLISHED" /\ d.snd_una = 1 /\ d.snd_nxt = 1
      /\ d.rcv_nxt = 1 /\ d.rx = <<>> /\ d.tx_pending = FALSE /\ d.tx_buf = c.tx_buf
  <2> HIDE DEF c
  <2> QED BY <1>1, <1>3, <1>4, ZenonT(30) DEF ConnRec
<1> HIDE DEF d, c
<1>6. NextIn(d)
  BY <1>3, <1>5, TcpAssumption DEF NextIn
<1>7. StreamIn(d) /\ Sized(d)
  BY <1>1, <1>3, <1>5, Zenon DEF StreamIn, Sized
<1>8. ConnOK(d)
  <2>1. 1 >= 1 /\ 1 = sent + 1 /\ "ESTABLISHED" # "FREE" /\ "ESTABLISHED" # "SYN_SENT"
    BY <1>3
  <2> QED BY <1>5, <1>6, <2>1, Zenon DEF ConnOK
<1>9. Fit(d)
  BY <1>5, <1>7, <1>8, Zenon DEF Fit
<1>10. Good(At(d, b.out)) /\ At(d, b.out).c = d
  BY <1>1, <1>9, GoodAt, AtFacts, Zenon
<1> QED BY <1>2, <1>5, <1>10, Zenon

LEMMA RxGood ==
    ASSUME StreamsOK, NEW b, Good(b), b.c.state \in {"FREE", conn.state}, NEW seg \in MayArrive
    PROVE  Good(tcp_rx(b, seg)) /\ (b.c.state = "FREE" => tcp_rx(b, seg) = b)
<1>1. Arriving(seg) /\ recvd \in Seq(Nat) /\ sent \in Nat
  BY ArrivingFacts, ConnFacts, Zenon
<1>2. Pair(b) /\ Fit(b.c) /\ b.c \in ConnRec /\ \A s \in b.out : Sendable(s)
  BY Zenon DEF Good, Fit
<1>3. CASE b.c.state = "FREE"
  BY <1>3, Zenon DEF tcp_rx
<1>4. CASE b.c.state # "FREE" /\ "RST" \in seg.flags
  <2>1. tcp_rx(b, seg) = [b EXCEPT !.c = FreeConn]
    BY <1>4, Zenon DEF tcp_rx
  <2>2. tcp_rx(b, seg) = At(FreeConn, b.out)
    BY <1>2, <2>1, SetConn, Zenon
  <2>3. Fit(FreeConn)
    BY <1>1, <1>2, FreeFit, Zenon
  <2>4. Good(At(FreeConn, b.out))
    BY <1>2, <2>3, GoodAt, Zenon
  <2> QED BY <1>4, <2>2, <2>4, Zenon
<1>5. CASE b.c.state = "SYN_SENT" /\ "RST" \notin seg.flags
  <2> DEFINE u == [b EXCEPT !.c.rcv_nxt = seg.seq + 1, !.c.snd_una = seg.ack,
                            !.c.state = "ESTABLISHED", !.c.tx_pending = FALSE]
  <2>1. "SYN_SENT" # "FREE"
    OBVIOUS
  <2>2. tcp_rx(b, seg) = IF {"SYN", "ACK"} \subseteq seg.flags /\ seg.ack = b.c.snd_nxt
                         THEN SendAck(u) ELSE b
    BY <1>5, <2>1, Zenon DEF tcp_rx
  <2>3. {"SYN", "ACK"} \subseteq seg.flags /\ seg.ack = b.c.snd_nxt => Good(u)
    BY <1>1, <1>5, OpenedGood, Zenon
  <2> HIDE DEF u
  <2>4. {"SYN", "ACK"} \subseteq seg.flags /\ seg.ack = b.c.snd_nxt => Good(SendAck(u))
    BY <2>3, AckGood, Zenon
  <2> QED BY <1>5, <2>1, <2>2, <2>4, Zenon
<1>6. CASE b.c.state = "ESTABLISHED" /\ "RST" \notin seg.flags
  <2>1. "ESTABLISHED" # "FREE" /\ "ESTABLISHED" # "SYN_SENT"
    OBVIOUS
  <2> DEFINE a == [b EXCEPT !.c = Acked(@, seg)]
  <2>2. tcp_rx(b, seg) = Fin(Payload(a, seg), seg)
    BY <1>6, <2>1, Zenon DEF tcp_rx
  <2>3. remote.rcv_nxt \in Nat /\ remote.rcv_nxt <= sent + 1
    <3>1. conn.state = "ESTABLISHED"
      BY <1>6, <2>1, Zenon
    <3>2. remote.got \in Seq(Nat) /\ Len(remote.got) <= sent /\ remote.rcv_nxt \in Nat
      BY DEF StreamsOK, TcpTypeOK, StreamOut
    <3>3. remote.rcv_nxt = 0 \/ remote.rcv_nxt = Len(remote.got) + 1
      BY <2>1, <3>1, Zenon DEF StreamsOK, StreamOut
    <3> QED BY <1>1, <3>2, <3>3
  <2>4. Fit(Acked(b.c, seg)) /\ Acked(b.c, seg).state = "ESTABLISHED"
    BY <1>1, <1>2, <1>6, <2>3, AckedFit, Zenon
  <2>5. a = At(Acked(b.c, seg), b.out)
    <3>1. a = [b EXCEPT !.c = Acked(b.c, seg)]
      BY Zenon
    <3> HIDE DEF a
    <3> QED BY <1>2, <3>1, SetConn, Zenon
  <2> HIDE DEF a
  <2>6. Good(a) /\ a.c.state = "ESTABLISHED"
    <3>1. Good(At(Acked(b.c, seg), b.out)) /\ At(Acked(b.c, seg), b.out).c = Acked(b.c, seg)
      BY <1>2, <2>4, GoodAt, AtFacts, Zenon
    <3> QED BY <2>4, <2>5, <3>1, Zenon
  <2>7. Good(Payload(a, seg)) /\ Payload(a, seg).c.state = "ESTABLISHED"
    BY <1>1, <2>6, PayloadGood, Zenon
  <2>8. Good(Fin(Payload(a, seg), seg))
    BY <1>1, <2>7, FinGood, Zenon
  <2> QED BY <1>6, <2>1, <2>2, <2>8, Zenon
<1>7. b.c.state \in {"FREE", "SYN_SENT", "ESTABLISHED"}
  BY <1>2 DEF ConnRec
<1> QED BY <1>3, <1>4, <1>5, <1>6, <1>7, Zenon

----------------------------------------------------------------------------
(* The parts of StreamsOK. *)

NetOK ==
    /\ conn \in ConnRec /\ Sized(conn) /\ toRemote \subseteq SegRec
    /\ remote \in [state : {"LISTEN", "OPEN"}, rcv_nxt : Nat, got : Seq(Nat)]
    /\ sent \in 0..LocalBytes /\ recvd \in Seq(Nat) /\ arp \in BOOLEAN
    /\ StreamIn(conn) /\ ConnOK(conn) /\ SegmentsOK /\ StreamOut
LocalOK ==
    /\ call \in {"none", "connect", "send", "recv"} /\ left \in 0..Loops
    /\ socket \in {"new", "connected", "closed"} /\ want \in Seq(Nat)
    /\ CallOK

LEMMA Parts == StreamsOK <=> NetOK /\ LocalOK
  BY SMTT(30) DEF StreamsOK, NetOK, LocalOK, TcpTypeOK, ConnRec, SegRec, Sized
LEMMA PartsNext == StreamsOK' <=> NetOK' /\ LocalOK'
  BY SMTT(30) DEF StreamsOK, NetOK, LocalOK, TcpTypeOK, ConnRec, SegRec, Sized

\* A function has made b of the connection struct.
LEMMA ConnStep ==
    ASSUME StreamsOK, NEW b, Good(b), conn' = b.c, toRemote' = toRemote \cup b.out,
           conn.state = "FREE" => \/ b.c.state = "FREE" /\ b.out = {}
                                  \/ toRemote = {} /\ remote.state = "LISTEN",
           UNCHANGED <<remote, sent, recvd>>, arp' \in BOOLEAN
    PROVE  NetOK'
<1>1. NetOK
  BY Parts
<1>2. Fit(b.c) /\ \A seg \in b.out : Sendable(seg)
  BY Zenon DEF Good
<1>3. Fit(conn)'
  BY <1>2, Zenon DEF Fit, Sized, StreamIn, ConnOK, NextIn, Placed
<1>4. toRemote' \subseteq SegRec
  BY <1>1, <1>2, Zenon DEF NetOK, Sendable
<1>5. \A seg \in toRemote' : \/ SynSegment(seg) \/ DataSegment(seg)
                             \/ FinSegment(seg) /\ conn'.state = "FREE"
  BY <1>1, <1>2, Zenon DEF NetOK, Sendable, SegmentsOK
<1>6. SegmentsOK'
  BY <1>5, Zenon DEF SegmentsOK, SynSegment, DataSegment, FinSegment, Placed
<1>7. StreamOut'
  BY <1>1, Zenon DEF NetOK, StreamOut
<1> QED BY <1>1, <1>3, <1>4, <1>6, <1>7, Zenon DEF NetOK, Fit

LEMMA TickNet ==
    ASSUME StreamsOK, net_tick, UNCHANGED <<sent, recvd>>
    PROVE  /\ NetOK' /\ remote' = remote
           /\ conn.state = "FREE" => conn'.state = "FREE" /\ toRemote' = toRemote
<1> DEFINE b == tcp_timer(conn)
<1>1. /\ Good(b) /\ b.c.state \in {"FREE", conn.state}
      /\ conn.state = "FREE" => b = At(conn, {})
  <2>1. b = tcp_timer(conn)
    OBVIOUS
  <2> HIDE DEF b
  <2> QED BY <2>1, TimerGood, Zenon
<1>2. conn.state = "FREE" => b.c.state = "FREE" /\ b.out = {}
  <2>1. At(conn, {}).c = conn /\ At(conn, {}).out = {}
    BY AtFacts, Zenon
  <2> HIDE DEF b
  <2> QED BY <1>1, <2>1, Zenon
<1>3. arp \in BOOLEAN
  BY Parts DEF NetOK
<1>4. CASE /\ conn' = b.c /\ toRemote' = toRemote \cup b.out
           /\ arp' \in BOOLEAN /\ UNCHANGED remote
  <2> HIDE DEF b
  <2>1. NetOK'
    BY <1>1, <1>2, <1>4, ConnStep, Zenon
  <2> QED BY <1>2, <1>4, <2>1, Zenon
<1>5. ASSUME NEW seg \in MayArrive, conn' = tcp_rx(b, seg).c,
             toRemote' = toRemote \cup tcp_rx(b, seg).out, UNCHANGED <<arp, remote>>
      PROVE  /\ NetOK' /\ remote' = remote
             /\ conn.state = "FREE" => conn'.state = "FREE" /\ toRemote' = toRemote
  <2> HIDE DEF b
  <2> DEFINE r == tcp_rx(b, seg)
  <2>1. Good(r) /\ (b.c.state = "FREE" => r = b)
    BY <1>1, RxGood, Zenon
  <2>2. conn' = r.c /\ toRemote' = toRemote \cup r.out
    BY <1>5, Zenon
  <2> HIDE DEF r
  <2>3. conn.state = "FREE" => r.c.state = "FREE" /\ r.out = {}
    BY <1>2, <2>1, Zenon
  <2>4. NetOK'
    BY <1>3, <1>5, <2>1, <2>2, <2>3, ConnStep, Zenon
  <2> QED BY <1>5, <2>2, <2>3, <2>4, Zenon
<1> QED BY <1>4, <1>5, Zenon DEF net_tick

\* What is sent for the first time is kept for retransmission.
Tracked(b, r, seq, ack, flags, data) ==
    /\ Pair(r) /\ r.c \in ConnRec
    /\ r.c.state = b.c.state /\ r.c.snd_una = b.c.snd_una /\ r.c.snd_nxt = b.c.snd_nxt
    /\ r.c.rcv_nxt = b.c.rcv_nxt /\ r.c.rx = b.c.rx
    /\ IF arp THEN /\ r.c.tx_pending = TRUE /\ r.c.tx_seq = seq /\ r.c.tx_flags = flags
                   /\ r.c.tx_buf = data
       ELSE r = b
    /\ r.out \subseteq b.out \cup {Segment(seq, ack, flags, data)}

LEMMA TrackFacts ==
    ASSUME NEW b, Pair(b), b.c \in ConnRec, NEW seq \in Nat, NEW ack \in Nat,
           NEW flags \in SUBSET Flags, NEW data \in Seq(Nat)
    PROVE  Tracked(b, tcp_send_on_conn(b, seq, ack, flags, data, TRUE), seq, ack, flags, data)
<1> DEFINE r == tcp_send_on_conn(b, seq, ack, flags, data, TRUE)
<1> DEFINE s == Segment(seq, ack, flags, data)
           d == [b.c EXCEPT !.age = 0,
                            !.retries = IF TRUE THEN 0 ELSE @,
                            !.tx_pending = TRUE \/ @,
                            !.tx_seq = IF TRUE THEN seq ELSE @,
                            !.tx_ack = IF TRUE THEN ack ELSE @,
                            !.tx_flags = IF TRUE THEN flags ELSE @,
                            !.tx_buf = IF TRUE THEN data ELSE @]
           out == b.out \cup {seg \in {s} : flags # {"ACK"}}
<1>1. 0 \in 0..RETRY_TICKS /\ 0 \in 0..MAX_RETRIES
  BY TcpAssumption
<1>2. /\ d \in ConnRec
      /\ d.state = b.c.state /\ d.snd_una = b.c.snd_una /\ d.snd_nxt = b.c.snd_nxt
      /\ d.rcv_nxt = b.c.rcv_nxt /\ d.rx = b.c.rx
      /\ d.tx_pending = TRUE /\ d.tx_seq = seq /\ d.tx_flags = flags /\ d.tx_buf = data
  BY <1>1, ZenonT(30) DEF ConnRec
<1>3. r = IF ~arp THEN b ELSE At(d, out)
  BY Zenon DEF tcp_send_on_conn
<1>4. out \subseteq b.out \cup {s}
  BY Zenon
<1>5. At(d, out).c = d /\ At(d, out).out = out /\ Pair(At(d, out))
  <2> HIDE DEF d, out
  <2> QED BY AtFacts, Zenon
<1> HIDE DEF d, out, s, r
<1>6. ASSUME ~arp PROVE Tracked(b, r, seq, ack, flags, data)
  <2>1. r = b
    BY <1>3, <1>6, Zenon
  <2> QED BY <1>6, <2>1, Zenon DEF Tracked
<1>7. ASSUME arp PROVE Tracked(b, r, seq, ack, flags, data)
  <2>1. r = At(d, out)
    BY <1>3, <1>7, Zenon
  <2> QED BY <1>2, <1>4, <1>5, <1>7, <2>1, Zenon DEF Tracked, s
<1> QED BY <1>6, <1>7, Zenon DEF r

LEMMA ConnectNet == ASSUME StreamsOK, connect PROVE NetOK'
<1>1. PICK uptime \in 0..RETRY_TICKS :
        LET c == [FreeConn EXCEPT !.state = "SYN_SENT", !.snd_nxt = 1, !.age = uptime]
            b == tcp_send_on_conn(At(c, {}), 0, 0, {"SYN"}, <<>>, TRUE)
        IN  /\ socket = "new" /\ Begin("connect", <<>>)
            /\ conn' = b.c /\ toRemote' = toRemote \cup b.out
            /\ UNCHANGED <<arp, socket, sent, recvd, remote>>
  BY Zenon DEF connect
<1> DEFINE c == [FreeConn EXCEPT !.state = "SYN_SENT", !.snd_nxt = 1, !.age = uptime]
           r == tcp_send_on_conn(At(c, {}), 0, 0, {"SYN"}, <<>>, TRUE)
<1>2. /\ conn' = r.c /\ toRemote' = toRemote \cup r.out /\ UNCHANGED <<arp, sent, recvd, remote>>
      /\ socket = "new" /\ call = "none"
  BY <1>1, Zenon DEF Begin
<1>3. /\ sent = 0 /\ recvd = <<>> /\ toRemote = {} /\ remote.state = "LISTEN" /\ arp \in BOOLEAN
      /\ recvd \in Seq(Nat)
  BY <1>2, Parts DEF NetOK, LocalOK, CallOK
<1>4. Fit(conn) /\ recvd \in Seq(Nat)
  BY ConnFacts, Zenon
<1>5. Fit(FreeConn)
  BY <1>4, FreeFit, Zenon
<1>6. /\ c \in ConnRec /\ c.state = "SYN_SENT" /\ c.snd_una = 0 /\ c.snd_nxt = 1
      /\ c.rx = <<>> /\ c.tx_pending = FALSE /\ c.tx_buf = <<>>
  <2>1. 1 \in Nat /\ "SYN_SENT" \in {"FREE", "SYN_SENT", "ESTABLISHED"}
    OBVIOUS
  <2>2. FreeConn \in ConnRec
    BY <1>5, Zenon DEF Fit
  <2>3. c \in ConnRec
    BY <2>1, <2>2, ZenonT(30) DEF ConnRec
  <2> QED BY <2>3, Zenon DEF FreeConn
<1> HIDE DEF c
<1>7. At(c, {}).c = c /\ At(c, {}).out = {} /\ Pair(At(c, {}))
  BY AtFacts, Zenon
<1>8. 0 \in Nat /\ {"SYN"} \in SUBSET Flags /\ <<>> \in Seq(Nat)
  BY DEF Flags
<1>9. /\ Pair(r) /\ r.c \in ConnRec
      /\ r.c.state = c.state /\ r.c.snd_una = c.snd_una /\ r.c.snd_nxt = c.snd_nxt
      /\ r.c.rcv_nxt = c.rcv_nxt /\ r.c.rx = c.rx
      /\ IF arp THEN /\ r.c.tx_pending = TRUE /\ r.c.tx_seq = 0 /\ r.c.tx_flags = {"SYN"}
                     /\ r.c.tx_buf = <<>>
         ELSE r = At(c, {})
      /\ r.out \subseteq {Segment(0, 0, {"SYN"}, <<>>)}
  <2> DEFINE a == At(c, {})
  <2>1. a.c \in ConnRec /\ Pair(a) /\ a.c = c /\ a.out = {}
    BY <1>6, <1>7, Zenon
  <2> HIDE DEF a
  <2>2. Tracked(a, tcp_send_on_conn(a, 0, 0, {"SYN"}, <<>>, TRUE), 0, 0, {"SYN"}, <<>>)
    BY <1>8, <2>1, TrackFacts, Zenon
  <2>3. Tracked(a, r, 0, 0, {"SYN"}, <<>>)
    BY <2>2, Zenon DEF a
  <2> HIDE DEF r
  <2> QED BY <2>1, <2>3, Zenon DEF Tracked, a
<1> HIDE DEF r
<1>10. /\ r.c.state = "SYN_SENT" /\ r.c.snd_una = 0 /\ r.c.snd_nxt = 1 /\ r.c.rx = <<>>
       /\ r.c.tx_buf = <<>>
       /\ r.c.tx_pending => r.c.tx_seq = 0 /\ r.c.tx_flags = {"SYN"} /\ r.c.tx_buf = <<>>
  BY <1>6, <1>7, <1>9, Zenon
<1>11. Fit(r.c)
  <2>1. ConnOK(r.c)
    <3>1. "SYN_SENT" # "FREE" /\ "SYN_SENT" # "ESTABLISHED"
      OBVIOUS
    <3> QED BY <1>3, <1>10, <3>1, Zenon DEF ConnOK
  <2>2. Sized(r.c)
    BY <1>10, TcpAssumption DEF Sized
  <2>3. StreamIn(r.c)
    <3>1. FreeConn.rx = <<>> /\ StreamIn(FreeConn)
      BY <1>5, Zenon DEF Fit, FreeConn
    <3> QED BY <1>10, <3>1, Zenon DEF StreamIn
  <2> QED BY <1>9, <2>1, <2>2, <2>3, Zenon DEF Fit
<1>12. Sendable(Segment(0, 0, {"SYN"}, <<>>))
  BY <1>8, Zenon DEF Segment, Sendable, SynSegment, SegRec
<1>13. Good(r)
  BY <1>9, <1>11, <1>12, Zenon DEF Good
<1> QED BY <1>2, <1>3, <1>13, ConnStep, Zenon

LEMMA StillNet == ASSUME StreamsOK, NetUnchanged, UNCHANGED <<sent, recvd>> PROVE NetOK'
<1>1. NetOK
  BY Parts
<1> QED BY <1>1, Zenon DEF NetUnchanged, NetOK, Sized, StreamIn, ConnOK, NextIn, Placed,
                           SegmentsOK, SynSegment, DataSegment, FinSegment, StreamOut

LEMMA CloseNet == ASSUME StreamsOK, net_tcp_close, UNCHANGED <<sent, recvd>> PROVE NetOK'
<1>1. NetOK /\ Fit(conn) /\ recvd \in Seq(Nat)
  BY Parts, ConnFacts, Zenon
<1>2. Fit(FreeConn)
  BY <1>1, FreeFit, Zenon
<1>3. Fit(conn)'
  BY <1>2, Zenon DEF net_tcp_close, Fit, Sized, StreamIn, ConnOK, NextIn, Placed
<1>4. conn'.state = "FREE" /\ UNCHANGED <<arp, remote>>
  BY Zenon DEF net_tcp_close, FreeConn
<1> DEFINE fin == Segment(conn.snd_nxt, conn.rcv_nxt, {"FIN", "ACK"}, <<>>)
<1>5. conn.state = "ESTABLISHED" => fin \in SegRec /\ FinSegment(fin)
  <2>1. conn.snd_nxt \in Nat /\ conn.rcv_nxt \in Nat
    BY <1>1, Zenon DEF Fit, ConnRec
  <2>2. {"FIN", "ACK"} \in SUBSET Flags /\ <<>> \in Seq(Nat)
    BY DEF Flags
  <2>3. conn.state = "ESTABLISHED" => conn.snd_nxt = sent + 1
    BY <1>1, Zenon DEF Fit, ConnOK
  <2> QED BY <2>1, <2>2, <2>3, Zenon DEF Segment, SegRec, FinSegment
<1>6. \A seg \in toRemote' : seg \in toRemote \/ (conn.state = "ESTABLISHED" /\ seg = fin)
  <2> DEFINE a == At(conn, {})
             r == tcp_send_on_conn(a, conn.snd_nxt, conn.rcv_nxt, {"FIN", "ACK"}, <<>>, FALSE)
  <2>1. a.out = {} /\ Pair(a)
    BY AtFacts, Zenon
  <2>2. toRemote' = toRemote \cup (IF conn.state = "ESTABLISHED" THEN r ELSE a).out
    BY Zenon DEF net_tcp_close
  <2>3. r.out \subseteq {fin}
    <3>1. a.c \in ConnRec
      BY <1>1, AtFacts, Zenon DEF Fit
    <3> HIDE DEF a
    <3>2. r.out \subseteq a.out \cup {fin}
      BY <2>1, <3>1, SendFacts, Zenon
    <3> HIDE DEF r, fin
    <3> QED BY <2>1, <3>2, Zenon
  <2> HIDE DEF a, r, fin
  <2> QED BY <2>1, <2>2, <2>3, Zenon
<1> HIDE DEF fin
<1>7. toRemote' \subseteq SegRec
  BY <1>1, <1>5, <1>6, Zenon DEF NetOK
<1>8. SegmentsOK'
  <2>1. \A seg \in toRemote' : SynSegment(seg) \/ DataSegment(seg) \/ FinSegment(seg)
    BY <1>1, <1>5, <1>6, Zenon DEF NetOK, SegmentsOK
  <2> QED BY <1>4, <2>1, Zenon DEF SegmentsOK, SynSegment, DataSegment, FinSegment, Placed
<1>9. StreamOut'
  BY <1>1, <1>4, Zenon DEF NetOK, StreamOut
<1> QED BY <1>1, <1>3, <1>4, <1>7, <1>8, <1>9, Zenon DEF NetOK, Fit

LEMMA SplitFacts ==
    ASSUME NEW x \in Seq(Nat), NEW n \in 1..Len(x)
    PROVE  /\ SubSeq(x, 1, n) \in Seq(Nat) /\ SubSeq(x, n + 1, Len(x)) \in Seq(Nat)
           /\ Len(SubSeq(x, 1, n)) = n /\ Len(SubSeq(x, n + 1, Len(x))) = Len(x) - n
           /\ SubSeq(x, 1, n) \o SubSeq(x, n + 1, Len(x)) = x
<1>1. Len(x) \in Nat
  BY LenProperties
<1>2. /\ SubSeq(x, 1, n) \in Seq(Nat) /\ Len(SubSeq(x, 1, n)) = n
      /\ \A i \in 1..n : SubSeq(x, 1, n)[i] = x[i]
  BY <1>1, SMTT(30)
<1>3. /\ SubSeq(x, n + 1, Len(x)) \in Seq(Nat) /\ Len(SubSeq(x, n + 1, Len(x))) = Len(x) - n
      /\ \A i \in 1..(Len(x) - n) : SubSeq(x, n + 1, Len(x))[i] = x[n + i]
  BY <1>1, SMTT(30)
<1>4. SubSeq(x, 1, n) \o SubSeq(x, n + 1, Len(x)) = x
  BY <1>1, <1>2, <1>3, SMTT(30)
<1> QED BY <1>2, <1>3, <1>4, Zenon

LEMMA Assoc ==
    ASSUME NEW x \in Seq(Nat), NEW y \in Seq(Nat), NEW z \in Seq(Nat)
    PROVE  (x \o y) \o z = x \o (y \o z)
  BY SMTT(30)

LEMMA RecvNet ==
    ASSUME StreamsOK, conn.rx # <<>>, NEW n \in {1, Len(conn.rx)},
           recvd' = recvd \o SubSeq(conn.rx, 1, n),
           conn' = [conn EXCEPT !.rx = SubSeq(@, n + 1, Len(@))],
           UNCHANGED <<arp, sent, remote, toRemote>>
    PROVE  NetOK' /\ conn.state # "FREE"
<1> DEFINE x == conn.rx
           y == SubSeq(x, 1, n)
           z == SubSeq(x, n + 1, Len(x))
<1>1. NetOK /\ Fit(conn) /\ recvd \in Seq(Nat)
  BY Parts, ConnFacts, Zenon
<1>2. x \in Seq(Nat) /\ x # <<>>
  BY <1>1, Zenon DEF Fit, ConnRec
<1>3. /\ z \in Seq(Nat) => conn' \in ConnRec
      /\ conn'.rx = z
      /\ conn'.state = conn.state /\ conn'.snd_una = conn.snd_una /\ conn'.snd_nxt = conn.snd_nxt
      /\ conn'.rcv_nxt = conn.rcv_nxt /\ conn'.tx_pending = conn.tx_pending
      /\ conn'.tx_seq = conn.tx_seq /\ conn'.tx_flags = conn.tx_flags /\ conn'.tx_buf = conn.tx_buf
  BY <1>1, ZenonT(30) DEF Fit, ConnRec
<1>4. recvd' = recvd \o y
  OBVIOUS
<1>5. n \in 1..Len(x)
  <2>1. n = 1 \/ n = Len(x)
    BY Zenon
  <2> HIDE DEF x
  <2>2. Len(x) \in Nat /\ Len(x) # 0
    BY <1>2
  <2> QED BY <2>1, <2>2
<1> HIDE DEF x
<1>6. y \in Seq(Nat) /\ z \in Seq(Nat) /\ Len(y) = n /\ Len(z) = Len(x) - n /\ y \o z = x
  BY <1>2, <1>5, SplitFacts, Zenon
<1> HIDE DEF y, z
<1>7. /\ recvd' \in Seq(Nat) /\ recvd' \o z = recvd \o x
      /\ Len(recvd') + Len(z) = Len(recvd) + Len(x)
  <2>1. (recvd \o y) \o z = recvd \o (y \o z)
    BY <1>1, <1>6, Assoc, Zenon
  <2>2. recvd \o y \in Seq(Nat) /\ Len(recvd \o y) = Len(recvd) + Len(y)
    BY <1>1, <1>6, ConcatProperties, Zenon
  <2>3. Len(recvd) \in Nat /\ Len(x) \in Nat /\ n \in Nat
    BY <1>1, <1>2, <1>5, LenProperties
  <2>4. Len(recvd') = Len(recvd) + n
    BY <1>4, <1>6, <2>2, Zenon
  <2>5. Len(recvd') + Len(z) = Len(recvd) + Len(x)
    <3> DEFINE l == Len(recvd)'
               m == Len(z)
               u == Len(recvd)
               v == Len(x)
    <3>1. l = u + n /\ m = v - n /\ u \in Nat /\ v \in Nat /\ n \in Nat
      BY <1>6, <2>3, <2>4, Zenon
    <3> HIDE DEF l, m, u, v
    <3>2. l + m = u + v
      BY <3>1
    <3> QED BY <3>2 DEF l, m, u, v
  <2> QED BY <1>4, <1>6, <2>1, <2>2, <2>5, Zenon
<1>8. conn.state = "ESTABLISHED"
  BY <1>1, <1>2, Zenon DEF Fit, ConnOK, ConnRec, x
<1>9. StreamIn(conn)'
  BY <1>1, <1>3, <1>7, Zenon DEF Fit, StreamIn, x
<1>10. ConnOK(conn)'
  <2>1. NextIn(conn)'
    BY <1>1, <1>3, <1>7, <1>8, Zenon DEF Fit, ConnOK, NextIn, x
  <2> QED BY <1>1, <1>3, <1>8, <2>1, Zenon DEF Fit, ConnOK, Placed
<1>11. Sized(conn')
  <2>1. Len(x) \in Nat /\ Len(x) <= RX_BUF /\ Len(conn.tx_buf) <= MaxSegment
    BY <1>1, <1>2, LenProperties, Zenon DEF Fit, Sized, x
  <2>2. Len(z) <= RX_BUF
    BY <1>5, <1>6, <2>1, TcpAssumption
  <2> QED BY <1>3, <2>1, <2>2, Zenon DEF Sized
<1>12. SegmentsOK' /\ StreamOut'
  BY <1>1, <1>3, <1>8, Zenon DEF NetOK, SegmentsOK, SynSegment, DataSegment, FinSegment, Placed, StreamOut
<1> QED BY <1>1, <1>3, <1>6, <1>7, <1>8, <1>9, <1>10, <1>11, <1>12, Zenon DEF NetOK

\* What the program has sent stays in its place when it sends more.
LEMMA PlacedGrows ==
    ASSUME NEW seq \in Nat, NEW d \in Seq(Nat), Placed(seq, d), NEW k \in Nat,
           sent \in Nat, sent' = sent + k
    PROVE  Placed(seq, d)'
<1> DEFINE l == Len(d)
<1>1. l \in Nat /\ seq >= 1 /\ seq + l <= sent + 1 /\ d = [i \in 1..l |-> seq + i - 1]
  BY LenProperties, Zenon DEF Placed
<1> HIDE DEF l
<1>2. seq + l <= (sent + k) + 1
  BY <1>1
<1> QED BY <1>1, <1>2, Zenon DEF Placed, l

\* l bytes follow u bytes, from the place p on.
Follow(u, l, p) ==
    /\ l \in Nat /\ p + l \in Nat /\ u + l \in 0..LocalBytes
    /\ p >= 1 /\ p + l = (u + l) + 1 /\ p <= p /\ p <= p + l /\ p + l <= (u + l) + 1
    /\ \A i \in 1..l : u + i = p + i - 1
PlacedIn(seq, d, n) == seq >= 1 /\ d = [i \in 1..Len(d) |-> seq + i - 1] /\ seq + Len(d) <= n + 1

LEMMA FollowFacts ==
    ASSUME NEW l \in 1..MaxSegment, NEW u \in Nat, u + l <= LocalBytes, NEW p, p = u + 1
    PROVE  Follow(u, l, p)
  BY TcpAssumption DEF Follow

\* net_tcp_send has sent w from the place p on, as the segment s.
LEMMA SendNet ==
    ASSUME StreamsOK, call = "send", conn.state = "ESTABLISHED", ~conn.tx_pending, arp,
           NEW w, w = want, NEW p, p = conn.snd_nxt, NEW r, NEW s,
           s = Segment(p, conn.rcv_nxt, {"ACK", "PSH"}, w),
           r = tcp_send_on_conn(At(conn, {}), p, conn.rcv_nxt, {"ACK", "PSH"}, w, TRUE),
           conn' = [r.c EXCEPT !.snd_nxt = @ + Len(w)], toRemote' = toRemote \cup r.out,
           sent' = sent + Len(w), UNCHANGED <<arp, recvd, remote>>
    PROVE  NetOK' /\ conn'.state = "ESTABLISHED"
<1> DEFINE a == At(conn, {})
           psh == {"ACK", "PSH"}
           l == Len(w)
<1>1. NetOK /\ LocalOK /\ Fit(conn) /\ recvd \in Seq(Nat) /\ sent \in Nat
  BY Parts, ConnFacts, Zenon
<1>2. /\ w \in Seq(Nat) /\ l \in 1..MaxSegment /\ sent + l <= LocalBytes
      /\ w = [i \in 1..l |-> sent + i]
  BY <1>1, Zenon DEF LocalOK, CallOK
<1>3. /\ p = sent + 1 /\ conn.snd_una = p /\ NextIn(conn) /\ p \in Nat /\ conn.rcv_nxt \in Nat
      /\ conn \in ConnRec
  BY <1>1, Zenon DEF Fit, ConnOK, ConnRec
<1>4. conn' = [r.c EXCEPT !.snd_nxt = @ + l] /\ toRemote' = toRemote \cup r.out /\ sent' = sent + l
  BY Zenon
<1>5. a.c = conn /\ a.out = {} /\ Pair(a)
  BY AtFacts, Zenon
<1>6. Tracked(a, r, p, conn.rcv_nxt, psh, w)
  <2>1. psh \in SUBSET Flags
    BY DEF Flags
  <2>2. r = tcp_send_on_conn(a, p, conn.rcv_nxt, psh, w, TRUE)
    BY Zenon
  <2> HIDE DEF a, psh
  <2>3. a.c \in ConnRec
    BY <1>3, <1>5, Zenon
  <2>4. Tracked(a, tcp_send_on_conn(a, p, conn.rcv_nxt, psh, w, TRUE), p, conn.rcv_nxt, psh, w)
    BY <1>2, <1>3, <1>5, <2>1, <2>3, TrackFacts, Zenon
  <2> QED BY <2>2, <2>4, Zenon
<1>7. /\ r.c \in ConnRec /\ r.c.state = "ESTABLISHED" /\ r.c.snd_una = p
      /\ r.c.snd_nxt = p /\ r.c.rcv_nxt = conn.rcv_nxt /\ r.c.rx = conn.rx
      /\ r.c.tx_pending = TRUE /\ r.c.tx_seq = p /\ r.c.tx_flags = psh /\ r.c.tx_buf = w
      /\ r.out \subseteq {s}
  <2> HIDE DEF a
  <2> QED BY <1>3, <1>5, <1>6, Zenon DEF Tracked
<1> HIDE DEF a, psh, l
<1>8. /\ l \in Nat /\ p + l \in Nat /\ sent + l \in 0..LocalBytes
      /\ p >= 1 /\ p + l = (sent + l) + 1 /\ p <= p /\ p <= p + l /\ p + l <= (sent + l) + 1
      /\ \A i \in 1..l : sent + i = p + i - 1
  <2>1. Follow(sent, l, p)
    BY <1>1, <1>2, <1>3, FollowFacts, Zenon
  <2> QED BY <2>1, Zenon DEF Follow
<1>9. /\ conn' \in ConnRec /\ conn'.state = "ESTABLISHED" /\ conn'.snd_una = p
      /\ conn'.snd_nxt = p + l /\ conn'.rcv_nxt = conn.rcv_nxt /\ conn'.rx = conn.rx
      /\ conn'.tx_pending = TRUE /\ conn'.tx_seq = p /\ conn'.tx_flags = psh
      /\ conn'.tx_buf = w
  <2>1. r.c.snd_nxt + l \in Nat /\ r.c.snd_nxt + l = p + l
    BY <1>7, <1>8, Zenon
  <2>2. conn' = [r.c EXCEPT !.snd_nxt = p + l]
    BY <1>4, <2>1, Zenon
  <2>3. conn' \in ConnRec /\ conn'.snd_nxt = p + l
    BY <1>7, <1>8, <2>2, ZenonT(30) DEF ConnRec
  <2>4. /\ conn'.state = r.c.state /\ conn'.snd_una = r.c.snd_una /\ conn'.rcv_nxt = r.c.rcv_nxt
        /\ conn'.rx = r.c.rx /\ conn'.tx_pending = r.c.tx_pending /\ conn'.tx_seq = r.c.tx_seq
        /\ conn'.tx_flags = r.c.tx_flags /\ conn'.tx_buf = r.c.tx_buf
    BY <1>7, <2>2, ZenonT(30) DEF ConnRec
  <2> QED BY <1>7, <2>3, <2>4, Zenon
<1>10. Placed(p, w)'
  <2>1. [i \in 1..l |-> sent + i] = [i \in 1..l |-> p + i - 1]
    BY <1>8, Zenon
  <2>2. w = [i \in 1..l |-> p + i - 1]
    BY <1>2, <2>1, Zenon
  <2>3. p + l <= sent' + 1
    BY <1>4, <1>8, Zenon
  <2> QED BY <1>8, <2>2, <2>3, Zenon DEF l, Placed
<1>11. StreamIn(conn)' /\ NextIn(conn)'
  BY <1>1, <1>3, <1>9, Zenon DEF Fit, StreamIn, NextIn
<1>12. ConnOK(conn)'
  <2>2. "ESTABLISHED" # "FREE" /\ "ESTABLISHED" # "SYN_SENT"
    OBVIOUS
  <2>3. conn'.snd_una >= 1 /\ conn'.snd_nxt = sent' + 1
    BY <1>4, <1>8, <1>9, Zenon
  <2>4. /\ conn'.tx_seq <= conn'.snd_una /\ conn'.snd_una <= conn'.snd_nxt
        /\ conn'.snd_nxt = conn'.tx_seq + Len(conn'.tx_buf)
        /\ conn'.tx_flags = {"ACK", "PSH"}
    BY <1>8, <1>9, Zenon DEF psh, l
  <2>5. Placed(conn.tx_seq, conn.tx_buf)'
    <3>1. PlacedIn(p, w, sent')
      BY <1>10, Zenon DEF Placed, PlacedIn
    <3>2. PlacedIn(conn'.tx_seq, conn'.tx_buf, sent')
      BY <1>9, <3>1, Zenon
    <3> QED BY <3>2, Zenon DEF Placed, PlacedIn
  <2> QED BY <1>9, <1>11, <2>2, <2>3, <2>4, <2>5, Zenon DEF ConnOK
<1>13. Sized(conn')
  <2>1. l <= MaxSegment
    BY <1>2, TcpAssumption
  <2>2. Len(conn.rx) <= RX_BUF
    BY <1>1, Zenon DEF Fit, Sized
  <2> QED BY <1>9, <2>1, <2>2, Zenon DEF Sized, l
<1>14. s \in SegRec /\ DataSegment(s)'
  <2>1. psh \in SUBSET Flags
    BY DEF psh, Flags
  <2>2. s \in SegRec
    BY <1>2, <1>3, <2>1, Zenon DEF Segment, SegRec, psh
  <2>3. s.flags = {"ACK", "PSH"} /\ s.seq = p /\ s.data = w
    BY Zenon DEF Segment
  <2> QED BY <1>10, <2>2, <2>3, Zenon DEF DataSegment, Placed
<1>15. toRemote' \subseteq SegRec
  BY <1>1, <1>4, <1>7, <1>14, Zenon DEF NetOK
<1>16. SegmentsOK'
  <2>1. ASSUME NEW seg \in toRemote PROVE (SynSegment(seg) \/ DataSegment(seg))'
    <3>1. seg \in SegRec /\ (SynSegment(seg) \/ DataSegment(seg))
      BY <1>1, Zenon DEF NetOK, SegmentsOK
    <3>2. seg.seq \in Nat /\ seg.data \in Seq(Nat)
      BY <3>1, Zenon DEF SegRec
    <3>3. DataSegment(seg) => Placed(seg.seq, seg.data)'
      BY <1>1, <1>4, <1>8, <3>2, PlacedGrows, Zenon DEF DataSegment
    <3> QED BY <3>1, <3>3, Zenon DEF SynSegment, DataSegment
  <2>2. \A seg \in toRemote' : seg \in toRemote \/ seg = s
    BY <1>4, <1>7, Zenon
  <2>3. \A seg \in toRemote' : (SynSegment(seg) \/ DataSegment(seg))'
    BY <1>14, <2>1, <2>2, Zenon
  <2> QED BY <2>3, Zenon DEF SegmentsOK
<1>17. StreamOut'
  <2> DEFINE g == Len(remote.got)
  <2>1. /\ remote.got \in Seq(Nat) /\ remote.got = Upto(g) /\ g <= sent
        /\ IF remote.state = "LISTEN" THEN remote.rcv_nxt = 0 /\ remote.got = <<>>
           ELSE remote.rcv_nxt = g + 1
    BY <1>1, Zenon DEF NetOK, StreamOut
  <2>2. g \in Nat
    BY <2>1, LenProperties, Zenon
  <2> HIDE DEF g
  <2>3. g <= sent + l
    BY <1>1, <1>8, <2>1, <2>2
  <2> QED BY <1>4, <2>1, <2>3, Zenon DEF StreamOut, g
<1> QED BY <1>1, <1>4, <1>8, <1>9, <1>11, <1>12, <1>13, <1>15, <1>16, <1>17, Zenon DEF NetOK

LEMMA TailFacts ==
    ASSUME NEW d \in Seq(Nat), NEW k \in Nat, k <= Len(d)
    PROVE  /\ SubSeq(d, k + 1, Len(d)) \in Seq(Nat) /\ Len(SubSeq(d, k + 1, Len(d))) = Len(d) - k
           /\ \A i \in 1..(Len(d) - k) : SubSeq(d, k + 1, Len(d))[i] = d[k + i]
  BY SMTT(30)

\* A stream e ends with the bytes d, placed at seq, of a stream of n bytes.
Grown(e, seq, d, n) ==
    e \in Seq(Nat) /\ e = Upto(Len(e)) /\ Len(e) + 1 = seq + Len(d) /\ Len(e) <= n

\* A stream s takes the part of the bytes d, placed at seq, that it does not have yet.
LEMMA DataGrows ==
    ASSUME NEW s \in Seq(Nat), s = Upto(Len(s)), NEW d \in Seq(Nat), NEW seq \in Nat,
           NEW k \in Nat, k < Len(d), seq + k = Len(s) + 1, NEW n \in Nat, PlacedIn(seq, d, n)
    PROVE  Grown(s \o SubSeq(d, k + 1, Len(d)), seq, d, n)
<1> DEFINE y == SubSeq(d, k + 1, Len(d))
           l == Len(d)
           g == Len(s)
<1>1. l \in Nat /\ g \in Nat /\ k < l /\ seq + k = g + 1
  BY LenProperties
<1>2. seq + l <= n + 1 /\ d = [i \in 1..l |-> seq + i - 1]
  BY Zenon DEF PlacedIn
<1>3. y \in Seq(Nat) /\ Len(y) = l - k /\ \A i \in 1..(l - k) : y[i] = d[k + i]
  <2>1. k <= l
    <3> HIDE DEF l, g
    <3> QED BY <1>1
  <2> QED BY <2>1, TailFacts, Zenon
<1> HIDE DEF y, l, g
<1>4. \A i \in 1..(l - k) : k + i \in 1..l /\ seq + (k + i) - 1 = g + i
  BY <1>1
<1>5. \A i \in 1..Len(y) : y[i] = Len(s) + i
  <2>1. \A i \in 1..l : d[i] = seq + i - 1
    BY <1>2, Zenon
  <2> QED BY <1>3, <1>4, <2>1, Zenon DEF g
<1>6. s \o y = Upto(Len(s) + Len(y))
  BY <1>3, <1>5, UptoGrows, Zenon
<1>7. s \o y \in Seq(Nat) /\ Len(s \o y) = Len(s) + Len(y)
  BY <1>3, ConcatProperties, Zenon
<1>8. g + (l - k) + 1 = seq + l /\ g + (l - k) <= n
  BY <1>1, <1>2
<1>9. Grown(s \o y, seq, d, n)
  BY <1>3, <1>6, <1>7, <1>8, Zenon DEF Grown, g, l
<1> QED BY <1>9, Zenon DEF y

LEMMA RemoteStep ==
    ASSUME NetOK, UNCHANGED <<conn, arp, sent, recvd, toRemote>>, StreamOut',
           remote' \in [state : {"LISTEN", "OPEN"}, rcv_nxt : Nat, got : Seq(Nat)]
    PROVE  NetOK'
<1>1. (StreamIn(conn) /\ ConnOK(conn))'
  BY Zenon DEF NetOK, StreamIn, ConnOK, NextIn, Placed
<1>2. SegmentsOK'
  BY Zenon DEF NetOK, SegmentsOK, SynSegment, DataSegment, FinSegment, Placed
<1> QED BY <1>1, <1>2, Zenon DEF NetOK, Sized

LEMMA RemoteOpens == ASSUME StreamsOK, remote_syn PROVE NetOK'
<1>1. /\ NetOK /\ remote \in [state : {"LISTEN", "OPEN"}, rcv_nxt : Nat, got : Seq(Nat)]
      /\ remote.state = "LISTEN" /\ StreamOut /\ sent \in Nat
  BY Parts, ConnFacts, Zenon DEF NetOK, remote_syn
<1>2. /\ remote' = [remote EXCEPT !.state = "OPEN", !.rcv_nxt = 1]
      /\ UNCHANGED <<conn, arp, sent, recvd, toRemote>>
  BY Zenon DEF remote_syn, local
<1>3. 1 \in Nat /\ 0 + 1 = 1 /\ Len(<<>>) = 0
  OBVIOUS
<1>4. /\ remote' \in [state : {"LISTEN", "OPEN"}, rcv_nxt : Nat, got : Seq(Nat)]
      /\ remote'.state = "OPEN" /\ remote'.rcv_nxt = 1 /\ remote'.got = remote.got
  BY <1>1, <1>2, <1>3, Zenon
<1>5. StreamOut'
  <2>1. remote.got = <<>> /\ remote.got = Upto(Len(remote.got)) /\ Len(remote.got) <= sent
    BY <1>1, Zenon DEF StreamOut
  <2>2. "OPEN" # "LISTEN"
    OBVIOUS
  <2> QED BY <1>2, <1>3, <1>4, <2>1, <2>2, Zenon DEF StreamOut
<1> QED BY <1>1, <1>2, <1>4, <1>5, RemoteStep, Zenon

LEMMA RemoteTakes == ASSUME StreamsOK, NEW seg \in toRemote, remote_rx(seg) PROVE NetOK'
<1> DEFINE past == remote.rcv_nxt - seg.seq
           s == remote.got
           e == s \o SubSeq(seg.data, past + 1, Len(seg.data))
           next == seg.seq + Extent(seg)
<1>1. /\ NetOK /\ remote \in [state : {"LISTEN", "OPEN"}, rcv_nxt : Nat, got : Seq(Nat)]
      /\ StreamOut /\ sent \in Nat /\ seg \in SegRec
      /\ SynSegment(seg) \/ DataSegment(seg) \/ (FinSegment(seg) /\ conn.state = "FREE")
  BY Parts, ConnFacts, Zenon DEF NetOK, SegmentsOK
<1>2. /\ remote.state = "OPEN" /\ "SYN" \notin seg.flags /\ past >= 0 /\ past < Extent(seg)
      /\ remote' = [remote EXCEPT !.got = e, !.rcv_nxt = next]
      /\ UNCHANGED <<conn, arp, sent, recvd, toRemote>>
  BY Zenon DEF remote_rx, local
<1>3. /\ s \in Seq(Nat) /\ remote.rcv_nxt \in Nat /\ seg.seq \in Nat /\ seg.data \in Seq(Nat)
      /\ past \in Int
  <2>1. s \in Seq(Nat) /\ remote.rcv_nxt \in Nat /\ seg.seq \in Nat /\ seg.data \in Seq(Nat)
    BY <1>1, Zenon DEF SegRec
  <2>2. past \in Int
    BY <2>1
  <2> QED BY <2>1, <2>2, Zenon
<1>4. /\ s = Upto(Len(s)) /\ Len(s) <= sent
      /\ \/ remote.rcv_nxt = Len(s) + 1
         \/ remote.rcv_nxt = Len(s) + 2 /\ Len(s) = sent
  <2>1. "OPEN" # "LISTEN"
    OBVIOUS
  <2> QED BY <1>1, <1>2, <2>1, Zenon DEF StreamOut
<1>5. Len(s) \in Nat /\ Len(seg.data) \in Nat
  BY <1>3, LenProperties, Zenon
<1>6. ASSUME DataSegment(seg)
      PROVE  /\ e \in Seq(Nat) /\ next \in Nat /\ e = Upto(Len(e)) /\ Len(e) <= sent
             /\ next = Len(e) + 1
  <2>1. seg.flags = {"ACK", "PSH"} /\ PlacedIn(seg.seq, seg.data, sent)
    BY <1>6, Zenon DEF DataSegment, Placed, PlacedIn
  <2>2. Extent(seg) = Len(seg.data)
    <3>1. "FIN" \notin seg.flags
      BY <2>1
    <3>2. Extent(seg) = Len(seg.data) + 0
      BY <3>1, Zenon DEF Extent
    <3>3. \A i \in Nat : i + 0 = i
      OBVIOUS
    <3> QED BY <1>5, <3>2, <3>3, Zenon
  <2>3. seg.seq + Len(seg.data) <= sent + 1
    BY <2>1, Zenon DEF PlacedIn
  <2>4. past \in Nat /\ past < Len(seg.data) /\ seg.seq + past = Len(s) + 1
    <3> DEFINE g == Len(s)
               l == Len(seg.data)
               q == seg.seq
               x == remote.rcv_nxt
    <3>1. /\ g \in Nat /\ l \in Nat /\ q \in Nat /\ x \in Nat /\ past = x - q /\ past >= 0 /\ past < l
          /\ q + l <= sent + 1 /\ (x = g + 1 \/ (x = g + 2 /\ g = sent)) /\ sent \in Nat
      BY <1>1, <1>2, <1>3, <1>4, <1>5, <2>2, <2>3, Zenon
    <3> HIDE DEF g, l, q, x, past
    <3>2. past \in Nat /\ past < l /\ q + past = g + 1
      BY <3>1
    <3> QED BY <3>2, Zenon DEF g, l, q
  <2> HIDE DEF past, s
  <2>5. /\ e \in Seq(Nat) /\ e = Upto(Len(e)) /\ Len(e) + 1 = seg.seq + Len(seg.data)
        /\ Len(e) <= sent
    <3>1. Grown(s \o SubSeq(seg.data, past + 1, Len(seg.data)), seg.seq, seg.data, sent)
      BY <1>1, <1>3, <1>4, <2>1, <2>4, DataGrows, Zenon
    <3> QED BY <3>1, Zenon DEF Grown
  <2> HIDE DEF e
  <2>6. Len(e) + 1 \in Nat
    BY <2>5, LenProperties
  <2> QED BY <2>2, <2>5, <2>6, Zenon
<1>7. ASSUME FinSegment(seg), conn.state = "FREE"
      PROVE  e = s /\ next \in Nat /\ next = Len(s) + 2 /\ Len(s) = sent
  <2>1. seg.seq = sent + 1 /\ seg.flags = {"FIN", "ACK"} /\ seg.data = <<>>
    BY <1>7, Zenon DEF FinSegment
  <2>2. Extent(seg) = 1
    <3>1. "FIN" \in {"FIN", "ACK"} /\ Len(<<>>) + 1 = 1
      OBVIOUS
    <3> QED BY <2>1, <3>1, Zenon DEF Extent
  <2>3. past = 0 /\ next = sent + 2 /\ next \in Nat /\ Len(s) = sent
    <3> DEFINE g == Len(s)
               q == seg.seq
               x == remote.rcv_nxt
    <3>1. /\ g \in Nat /\ q = sent + 1 /\ x \in Nat /\ past = x - q /\ past >= 0 /\ past < 1
          /\ (x = g + 1 \/ (x = g + 2 /\ g = sent)) /\ sent \in Nat /\ next = q + 1 /\ g <= sent
      BY <1>1, <1>2, <1>3, <1>4, <1>5, <2>1, <2>2, Zenon
    <3> HIDE DEF g, q, x, past, next
    <3>2. past = 0 /\ next = sent + 2 /\ next \in Nat /\ g = sent
      BY <3>1
    <3> QED BY <3>2, Zenon DEF g
  <2> HIDE DEF past, s, next
  <2>4. e = s \o SubSeq(<<>>, 0 + 1, Len(<<>>))
    BY <2>1, <2>3, Zenon
  <2>5. e = s
    <3>1. s \o <<>> = s /\ SubSeq(<<>>, 0 + 1, Len(<<>>)) = <<>>
      BY <1>3
    <3> HIDE DEF e
    <3> QED BY <2>4, <3>1, Zenon
  <2> QED BY <2>3, <2>5, Zenon
<1>8. ~SynSegment(seg)
  <2>1. "SYN" \in {"SYN"}
    OBVIOUS
  <2> QED BY <1>2, <2>1, Zenon DEF SynSegment
<1> HIDE DEF e, next, past
<1>9. e \in Seq(Nat) /\ next \in Nat
  BY <1>1, <1>3, <1>6, <1>7, <1>8, Zenon
<1>10. /\ remote' \in [state : {"LISTEN", "OPEN"}, rcv_nxt : Nat, got : Seq(Nat)]
       /\ remote'.state = "OPEN" /\ remote'.rcv_nxt = next /\ remote'.got = e
  BY <1>1, <1>2, <1>9, Zenon
<1>11. StreamOut'
  <2>1. "OPEN" # "LISTEN"
    OBVIOUS
  <2>2. CASE DataSegment(seg)
    BY <1>2, <1>6, <1>10, <2>1, <2>2, Zenon DEF StreamOut
  <2>3. CASE FinSegment(seg) /\ conn.state = "FREE"
    BY <1>2, <1>4, <1>7, <1>10, <2>1, <2>3, Zenon DEF StreamOut
  <2> QED BY <1>1, <1>8, <2>2, <2>3, Zenon
<1> QED BY <1>1, <1>2, <1>10, <1>11, RemoteStep, Zenon

-----------------------------------------------------------------------------
\* The system calls.  A program that has called connect, or has done so, is not fresh.
LEMMA LocalFacts ==
    ASSUME StreamsOK
    PROVE  /\ NetOK /\ LocalOK /\ CallOK /\ left \in 0..Loops /\ want \in Seq(Nat)
           /\ sent \in Nat /\ recvd \in Seq(Nat) /\ call \in {"none", "connect", "send", "recv"}
           /\ socket \in {"new", "connected", "closed"}
           /\ 0 \in 0..Loops /\ Loops \in 0..Loops /\ <<>> \in Seq(Nat)
<1>1. 0 \in 0..Loops /\ Loops \in 0..Loops /\ <<>> \in Seq(Nat)
  BY TcpAssumption
<1> QED BY <1>1, Parts, ConnFacts, Zenon DEF LocalOK

\* A call ends, and the socket is not fresh.
LEMMA DoneLocal ==
    ASSUME StreamsOK, Done, socket' \in {"connected", "closed"}
    PROVE  LocalOK'
<1>1. socket' # "new" /\ "none" \notin {"connect", "send", "recv"} /\ "none" # "connect" /\ "none" # "send"
  OBVIOUS
<1>2. call' = "none" /\ left' = 0 /\ want' = <<>>
  BY Zenon DEF Done
<1>3. CallOK'
  BY <1>1, <1>2 DEF CallOK
<1> QED BY <1>2, <1>3, LocalFacts, Zenon DEF LocalOK

LEMMA TurnLocal == ASSUME StreamsOK, Turn, left > 0, call # "none" PROVE LocalOK'
<1>1. left' = left - 1 /\ UNCHANGED <<call, want, socket, sent, recvd>>
  BY Zenon DEF Turn
<1>2. left' \in 0..Loops
  BY <1>1, LocalFacts, TcpAssumption
<1>3. CallOK'
  BY <1>1, LocalFacts, Zenon DEF CallOK
<1> QED BY <1>1, <1>2, <1>3, LocalFacts, Zenon DEF LocalOK

LEMMA TurnOK == ASSUME StreamsOK, Turn, left > 0, call # "none" PROVE StreamsOK'
<1>1. NetOK'
  BY TickNet, Zenon DEF Turn
<1> QED BY <1>1, TurnLocal, PartsNext, Zenon

LEMMA DoneOK ==
    ASSUME StreamsOK, Done, NetUnchanged, UNCHANGED <<sent, recvd>>, socket' \in {"connected", "closed"}
    PROVE  StreamsOK'
  BY StillNet, DoneLocal, PartsNext, Zenon

LEMMA ConnectOK == ASSUME StreamsOK, connect PROVE StreamsOK'
<1>1. socket = "new" /\ call' = "connect" /\ left' = Loops /\ want' = <<>> /\ socket' = socket
  BY Zenon DEF connect, Begin
<1>2. "connect" # "none" /\ "connect" \notin {"send", "recv"} /\ "connect" # "send"
  OBVIOUS
<1>3. CallOK'
  BY <1>1, <1>2 DEF CallOK
<1>4. LocalOK'
  BY <1>1, <1>3, LocalFacts, Zenon DEF LocalOK
<1> QED BY <1>4, ConnectNet, PartsNext, Zenon

LEMMA ConnectLoopOK == ASSUME StreamsOK, connect_loop PROVE StreamsOK'
<1>1. call # "none"
  BY DEF connect_loop
<1>2. CASE left > 0 /\ conn.state = "SYN_SENT" /\ Turn
  BY <1>1, <1>2, TurnOK, Zenon
<1>3. CASE left = 0 /\ net_tcp_close /\ socket' = "closed" /\ Done /\ UNCHANGED <<sent, recvd>>
  BY <1>3, CloseNet, DoneLocal, PartsNext, Zenon
<1>4. CASE socket' \in {"connected", "closed"} /\ Done /\ NetUnchanged /\ UNCHANGED <<sent, recvd>>
  BY <1>4, DoneOK, Zenon
<1> QED BY <1>2, <1>3, <1>4, Zenon DEF connect_loop

LEMMA BeginOK ==
    ASSUME StreamsOK, NetUnchanged, UNCHANGED <<socket, sent, recvd>>, socket = "connected",
           NEW name \in {"send", "recv"}, NEW data \in Seq(Nat), Begin(name, data),
           name = "send" => /\ Len(data) \in 1..MaxSegment /\ sent + Len(data) <= LocalBytes
                            /\ data = [i \in 1..Len(data) |-> sent + i]
    PROVE  StreamsOK'
<1>1. call' = name /\ left' = Loops /\ want' = data /\ socket' = "connected"
  BY Zenon DEF Begin
<1>2. "connected" # "new" /\ name # "connect" /\ name \in {"none", "connect", "send", "recv"}
  OBVIOUS
<1>3. CallOK'
  BY <1>1, <1>2, Zenon DEF CallOK
<1>4. LocalOK'
  BY <1>1, <1>2, <1>3, LocalFacts, Zenon DEF LocalOK
<1> QED BY <1>4, StillNet, PartsNext, Zenon

LEMMA SendtoOK == ASSUME StreamsOK, sendto PROVE StreamsOK'
<1>1. PICK n \in 1..MaxSegment :
        /\ socket = "connected" /\ sent + n <= LocalBytes
        /\ Begin("send", [i \in 1..n |-> sent + i])
        /\ NetUnchanged /\ UNCHANGED <<socket, sent, recvd>>
  BY Zenon DEF sendto
<1> DEFINE d == [i \in 1..n |-> sent + i]
<1>2. sent \in Nat
  BY LocalFacts, Zenon
<1>3. d \in Seq(Nat) /\ Len(d) = n
  BY <1>2, TcpAssumption
<1>4. d = [i \in 1..Len(d) |-> sent + i] /\ Len(d) \in 1..MaxSegment /\ sent + Len(d) <= LocalBytes
  BY <1>1, <1>3, Zenon
<1>5. Begin("send", d)
  BY <1>1, Zenon
<1> HIDE DEF d
<1> QED BY <1>1, <1>3, <1>4, <1>5, BeginOK, Zenon

LEMMA RecvfromOK == ASSUME StreamsOK, recvfrom PROVE StreamsOK'
<1>1. "recv" # "send" /\ <<>> \in Seq(Nat)
  OBVIOUS
<1> QED BY <1>1, BeginOK, Zenon DEF recvfrom

LEMMA SendLoopOK == ASSUME StreamsOK, send_loop PROVE StreamsOK'
<1>1. call = "send" /\ call # "none" /\ socket = "connected"
  <2>1. call = "send"
    BY Zenon DEF send_loop
  <2> QED BY <2>1, LocalFacts DEF CallOK
<1> DEFINE able == conn.state = "ESTABLISHED" /\ ~conn.peer_closed
           b == tcp_send_on_conn(At(conn, {}), conn.snd_nxt, conn.rcv_nxt, {"ACK", "PSH"}, want, TRUE)
<1>2. CASE Done /\ NetUnchanged /\ UNCHANGED <<socket, sent, recvd>>
  BY <1>1, <1>2, DoneOK, Zenon
<1>3. CASE left > 0 /\ Turn
  BY <1>1, <1>3, TurnOK, Zenon
<1>4. CASE /\ able /\ ~conn.tx_pending /\ arp
           /\ conn' = [b.c EXCEPT !.snd_nxt = @ + Len(want)]
           /\ toRemote' = toRemote \cup b.out
           /\ sent' = sent + Len(want) /\ Done
           /\ UNCHANGED <<arp, socket, recvd, remote>>
  <2>1. PICK w, p, r, s : /\ w = want /\ p = conn.snd_nxt /\ r = b
                          /\ s = Segment(p, conn.rcv_nxt, {"ACK", "PSH"}, w)
    BY Zenon
  <2>2. r = tcp_send_on_conn(At(conn, {}), p, conn.rcv_nxt, {"ACK", "PSH"}, w, TRUE)
    BY <2>1, Zenon
  <2> HIDE DEF b
  <2>3. /\ conn' = [r.c EXCEPT !.snd_nxt = @ + Len(w)] /\ toRemote' = toRemote \cup r.out
        /\ sent' = sent + Len(w) /\ UNCHANGED <<arp, recvd, remote>>
    BY <1>4, <2>1, Zenon
  <2>4. NetOK'
    BY <1>1, <1>4, <2>1, <2>2, <2>3, SendNet, Zenon
  <2>5. LocalOK'
    BY <1>1, <1>4, DoneLocal, Zenon
  <2> QED BY <2>4, <2>5, PartsNext, Zenon
<1> QED BY <1>2, <1>3, <1>4, Zenon DEF send_loop

LEMMA RecvLoopOK == ASSUME StreamsOK, recv_loop PROVE StreamsOK'
<1>1. call # "none" /\ socket = "connected"
  <2>1. call = "recv"
    BY Zenon DEF recv_loop
  <2> QED BY <2>1, LocalFacts DEF CallOK
<1>2. CASE Done /\ NetUnchanged /\ UNCHANGED <<socket, sent, recvd>>
  BY <1>1, <1>2, DoneOK, Zenon
<1>3. CASE left > 0 /\ Turn
  BY <1>1, <1>3, TurnOK, Zenon
<1>4. CASE /\ conn.rx # <<>>
           /\ \E n \in {1, Len(conn.rx)} :
                  /\ recvd' = recvd \o SubSeq(conn.rx, 1, n)
                  /\ conn' = [conn EXCEPT !.rx = SubSeq(@, n + 1, Len(@))]
           /\ Done /\ UNCHANGED <<arp, socket, sent, remote, toRemote>>
  <2>1. NetOK'
    BY <1>4, RecvNet, Zenon
  <2>2. LocalOK'
    BY <1>1, <1>4, DoneLocal, Zenon
  <2> QED BY <2>1, <2>2, PartsNext, Zenon
<1> QED BY <1>2, <1>3, <1>4, Zenon DEF recv_loop

LEMMA InterruptedOK == ASSUME StreamsOK, interrupted PROVE StreamsOK'
<1>1. socket = "connected"
  BY LocalFacts, Zenon DEF interrupted, CallOK
<1> QED BY <1>1, DoneOK, Zenon DEF interrupted

LEMMA CloseOK == ASSUME StreamsOK, close PROVE StreamsOK'
<1>1. net_tcp_close /\ socket' = "closed" /\ call = "none" /\ UNCHANGED <<call, left, want, sent, recvd>>
  BY Zenon DEF close
<1>2. "closed" # "new" /\ "none" \notin {"send", "recv"} /\ "none" # "connect" /\ "none" # "send"
  OBVIOUS
<1>3. CallOK'
  BY <1>1, <1>2 DEF CallOK
<1>4. LocalOK'
  BY <1>1, <1>3, LocalFacts, Zenon DEF LocalOK
<1> QED BY <1>1, <1>4, CloseNet, PartsNext, Zenon

LEMMA IrqOK == ASSUME StreamsOK, irq_tick PROVE StreamsOK'
<1>1. net_tick /\ UNCHANGED <<call, left, want, socket, sent, recvd>>
  BY Zenon DEF irq_tick, local
<1>2. /\ NetOK' /\ remote' = remote
      /\ conn.state = "FREE" => conn'.state = "FREE" /\ toRemote' = toRemote
  BY <1>1, TickNet, Zenon
<1>3. CallOK'
  BY <1>1, <1>2, LocalFacts, Zenon DEF CallOK
<1>4. LocalOK'
  BY <1>1, <1>3, LocalFacts, Zenon DEF LocalOK
<1> QED BY <1>2, <1>4, PartsNext, Zenon

LEMMA RemoteOK ==
    ASSUME StreamsOK, NetOK', UNCHANGED <<conn, arp, local, toRemote>>,
           remote.state = "OPEN" \/ toRemote # {}
    PROVE  StreamsOK'
<1>1. UNCHANGED <<call, left, want, socket, sent, recvd>>
  BY Zenon DEF local
<1>2. ~(socket = "new" /\ call = "none")
  <2>1. "OPEN" # "LISTEN"
    OBVIOUS
  <2> QED BY <2>1, LocalFacts, Zenon DEF CallOK
<1>3. CallOK'
  BY <1>1, <1>2, LocalFacts, Zenon DEF CallOK
<1>4. LocalOK'
  BY <1>1, <1>3, LocalFacts, Zenon DEF LocalOK
<1> QED BY <1>4, PartsNext, Zenon

LEMMA StreamsNext == ASSUME StreamsOK, [TcpNext]_tcpvars PROVE StreamsOK'
<1>1. CASE remote_syn
  <2>1. toRemote # {} /\ UNCHANGED <<conn, arp, local, toRemote>>
    BY <1>1, Zenon DEF remote_syn
  <2> QED BY <1>1, <2>1, RemoteOpens, RemoteOK, Zenon
<1>2. ASSUME NEW seg \in toRemote, remote_rx(seg) PROVE StreamsOK'
  <2>1. remote.state = "OPEN" /\ UNCHANGED <<conn, arp, local, toRemote>>
    BY <1>2, Zenon DEF remote_rx
  <2> QED BY <1>2, <2>1, RemoteTakes, RemoteOK, Zenon
<1>3. CASE UNCHANGED tcpvars
  <2>1. NetUnchanged /\ UNCHANGED <<call, left, want, socket, sent, recvd>>
    BY <1>3, Zenon DEF tcpvars, local, NetUnchanged
  <2>2. CallOK'
    BY <2>1, LocalFacts, Zenon DEF CallOK, NetUnchanged
  <2>3. LocalOK'
    BY <2>1, <2>2, LocalFacts, Zenon DEF LocalOK
  <2> QED BY <2>1, <2>3, StillNet, PartsNext, Zenon
<1> QED BY <1>1, <1>2, <1>3, ConnectOK, ConnectLoopOK, SendtoOK, SendLoopOK, RecvfromOK, RecvLoopOK,
           InterruptedOK, CloseOK, IrqOK, Zenon DEF TcpNext

LEMMA StreamsInit == TcpInit => StreamsOK
<1> SUFFICES ASSUME TcpInit PROVE StreamsOK
  OBVIOUS
<1>1. /\ 0 \in 0..RETRY_TICKS /\ 0 \in 0..MAX_RETRIES /\ 0 \in Nat /\ <<>> \in Seq(Nat) /\ 0 \in 0..Loops
      /\ {} \in SUBSET Flags /\ 0 \in 0..LocalBytes /\ Len(<<>>) = 0 /\ 0 <= RX_BUF /\ 0 <= MaxSegment
      /\ 0 <= 0 /\ <<>> = Upto(0) /\ <<>> \o <<>> = <<>> /\ 0 + 0 = 0
  BY TcpAssumption DEF Upto
<1>2. FreeConn \in ConnRec /\ FreeConn.state = "FREE" /\ FreeConn.rx = <<>> /\ FreeConn.tx_buf = <<>>
  BY <1>1, Zenon DEF FreeConn, ConnRec
<1>3. "FREE" # "SYN_SENT" /\ "FREE" # "ESTABLISHED"
  OBVIOUS
<1>4. /\ conn \in ConnRec /\ Sized(conn) /\ StreamIn(conn) /\ ConnOK(conn)
  BY <1>1, <1>2, <1>3, Zenon DEF TcpInit, Sized, StreamIn, ConnOK
<1>5. /\ remote \in [state : {"LISTEN", "OPEN"}, rcv_nxt : Nat, got : Seq(Nat)]
      /\ remote.state = "LISTEN" /\ remote.rcv_nxt = 0 /\ remote.got = <<>>
  BY <1>1, Zenon DEF TcpInit
<1>6. SegmentsOK /\ StreamOut
  BY <1>1, <1>5, Zenon DEF TcpInit, SegmentsOK, StreamOut
<1>7. NetOK
  BY <1>1, <1>4, <1>5, <1>6, Zenon DEF NetOK, TcpInit
<1>8. CallOK
  BY <1>2, <1>5 DEF TcpInit, CallOK
<1>9. LocalOK
  BY <1>1, <1>8, Zenon DEF LocalOK, TcpInit
<1> QED BY <1>7, <1>9, Parts, Zenon

\* For every size of the buffers, number of bytes, retries and turns, and over a network
\* that loses, repeats and reorders: what net_tcp_recv hands to the program is a beginning
\* of what the remote host sends, what the remote host takes is a beginning of what
\* net_tcp_send was given, no segment carries a byte in another's place, and at most one
\* segment is unacknowledged.
THEOREM StreamsSafe == TcpSpec => []StreamsOK
<1>1. TcpInit => StreamsOK
  BY StreamsInit
<1>2. StreamsOK /\ [TcpNext]_tcpvars => StreamsOK'
  BY StreamsNext
<1> QED BY <1>1, <1>2, PTL DEF TcpSpec
=============================================================================
