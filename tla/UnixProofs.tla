----------------------------- MODULE UnixProofs -----------------------------
(***************************************************************************)
(* The table of AF_UNIX sockets stays consistent, and the end of a stream  *)
(* is final, for any number of sockets, programs and paths and any size of *)
(* the rings, if no program connects a socket twice.                       *)
(***************************************************************************)
EXTENDS UnixSockets, SequenceTheorems, TLAPS

\* The contents of a struct ksocket.
SockRec == [used : BOOLEAN, owner_pid : Programs \cup {NULL}, connected : BOOLEAN,
            peer_closed : BOOLEAN, peer : SockIds \cup {NULL}, listening : BOOLEAN,
            path : Paths \cup {NULL}, pending : Seq(SockIds), rx : Seq(SockIds)]

LEMMA IdFacts == /\ SockIds \subseteq Nat /\ NULL \notin SockIds /\ NULL \notin Paths
                 /\ UNIX_RX_BUF \in Nat /\ UNIX_PENDING_MAX \in Nat \ {0} /\ CopyMax \in Nat
  BY UnixAssumption DEF SockIds

LEMMA TypeFacts ==
    ASSUME UnixTypeOK
    PROVE  /\ socket \in [SockIds -> SockRec]
           /\ \A s \in SockIds : Len(socket[s].rx) <= UNIX_RX_BUF
                                 /\ Len(socket[s].pending) <= UNIX_PENDING_MAX - 1
           /\ given \subseteq SockIds /\ \A s \in given : socket[s].used
  BY DEF UnixTypeOK, SockRec, Used

\* The struct r, field by field.
Has(r, used, owner_pid, connected, peer_closed, peer, listening, path, pending, rx) ==
    /\ r.used = used /\ r.owner_pid = owner_pid
    /\ r.connected = connected /\ r.peer_closed = peer_closed /\ r.peer = peer
    /\ r.listening = listening /\ r.path = path /\ r.pending = pending /\ r.rx = rx

LEMMA ZeroedFacts ==
    /\ Zeroed \in SockRec
    /\ Has(Zeroed, FALSE, NULL, FALSE, FALSE, NULL, FALSE, NULL, <<>>, <<>>)
<1>1. Zeroed \in SockRec
  BY DEF Zeroed, SockRec
<1>2. Has(Zeroed, FALSE, NULL, FALSE, FALSE, NULL, FALSE, NULL, <<>>, <<>>)
  BY Zenon DEF Zeroed, Has
<1> QED BY <1>1, <1>2, Zenon

\* What socket_alloc_slot makes of a struct, and what socketpair and connect do then.
LEMMA NewFacts ==
    ASSUME NEW p \in Programs \cup {NULL}
    PROVE  /\ NewSocket(p) \in SockRec
           /\ Has(NewSocket(p), TRUE, p, FALSE, FALSE, NULL, FALSE, NULL, <<>>, <<>>)
           /\ \A t \in SockIds :
                  LET r == [NewSocket(p) EXCEPT !.connected = TRUE, !.peer = t]
                  IN  r \in SockRec /\ Has(r, TRUE, p, TRUE, FALSE, t, FALSE, NULL, <<>>, <<>>)
<1>1. /\ NewSocket(p) \in SockRec
      /\ Has(NewSocket(p), TRUE, p, FALSE, FALSE, NULL, FALSE, NULL, <<>>, <<>>)
  BY ZeroedFacts, Zenon DEF NewSocket, SockRec, Has
<1>2. ASSUME NEW t \in SockIds
      PROVE  LET r == [NewSocket(p) EXCEPT !.connected = TRUE, !.peer = t]
             IN  r \in SockRec /\ Has(r, TRUE, p, TRUE, FALSE, t, FALSE, NULL, <<>>, <<>>)
  BY <1>1, Zenon DEF SockRec, Has
<1> QED BY <1>1, <1>2, Zenon

LEMMA UnixInitInv == UnixInit => TableOK
<1> SUFFICES ASSUME UnixInit PROVE TableOK
  OBVIOUS
<1>1. \A s \in SockIds : socket[s] = Zeroed
  BY DEF UnixInit
<1>2. socket \in [SockIds -> SockRec] /\ given = {} /\ alive = Programs
  BY ZeroedFacts DEF UnixInit
<1>3. \A s \in SockIds : Has(socket[s], FALSE, NULL, FALSE, FALSE, NULL, FALSE, NULL, <<>>, <<>>)
  BY <1>1, ZeroedFacts, Zenon
<1>4. UnixTypeOK
  BY <1>2, <1>3, IdFacts DEF UnixTypeOK, SockRec, Used, Has
<1>5. PeersOK /\ PendingOK /\ OneListener /\ OneSource /\ HalfClosed
  BY <1>3 DEF PeersOK, PendingOK, OneListener, OneSource, HalfClosed, Used, Has
<1> QED BY <1>1, <1>4, <1>5 DEF TableOK, FreeZeroed

----------------------------------------------------------------------------
(* What a step must leave alone for a part of the invariant to stay.       *)

\* The table is a table again.
LEMMA TypeStep ==
    ASSUME socket' \in [SockIds -> SockRec],
           \A s \in SockIds : /\ Len(socket'[s].rx) <= UNIX_RX_BUF
                              /\ Len(socket'[s].pending) <= UNIX_PENDING_MAX - 1,
           given' \subseteq SockIds, \A s \in given' : socket'[s].used, alive' \subseteq Programs
    PROVE  UnixTypeOK'
  BY DEF UnixTypeOK, SockRec, Used

\* The connections are the same.
LEMMA PeersStep ==
    ASSUME UnixTypeOK, PeersOK,
           \A s \in SockIds : /\ socket'[s].connected = socket[s].connected
                              /\ socket'[s].peer = socket[s].peer
                              /\ socket[s].used => socket'[s].used
    PROVE  PeersOK'
<1>1. \A s \in SockIds : socket[s].peer # NULL => socket[s].peer \in SockIds
  BY TypeFacts DEF SockRec
<1> QED BY <1>1 DEF PeersOK

\* The rings hold the same sockets, and none of these is closed or handed out.
LEMMA PendingStep ==
    ASSUME UnixTypeOK, PendingOK, FreeZeroed,
           \A s \in SockIds : /\ socket'[s].pending = socket[s].pending
                              /\ socket[s].used =>
                                     socket'[s].used /\ socket'[s].owner_pid = socket[s].owner_pid,
           \A s \in SockIds : s \in given' => s \in given \/ ~socket[s].used
    PROVE  PendingOK'
<1>1. \A l \in SockIds : \A i \in DOMAIN socket[l].pending :
          socket[l].pending[i] \in SockIds /\ socket[l].used
  <2> SUFFICES ASSUME NEW l \in SockIds, NEW i \in DOMAIN socket[l].pending
               PROVE  socket[l].pending[i] \in SockIds /\ socket[l].used
    OBVIOUS
  <2>1. socket[l].pending \in Seq(SockIds) /\ socket[l].used \in BOOLEAN
    BY TypeFacts DEF SockRec
  <2>2. ~socket[l].used => socket[l].pending = <<>>
    BY DEF FreeZeroed, Zeroed
  <2> QED BY <2>1, <2>2
<1> QED BY <1>1 DEF PendingOK

\* No path is new.
LEMMA ListenStep ==
    ASSUME OneListener,
           \A s \in SockIds : socket'[s].path = NULL
                              \/ /\ socket'[s].path = socket[s].path
                                 /\ socket'[s].used => socket[s].used
    PROVE  OneListener'
  BY DEF OneListener, Used

\* No byte and no peer is new.
LEMMA SourceStep ==
    ASSUME OneSource,
           \A s \in SockIds : \/ socket'[s].rx = <<>>
                              \/ /\ socket'[s].rx = socket[s].rx
                                 /\ socket'[s].peer \in {NULL, socket[s].peer}
    PROVE  OneSource'
  BY DEF OneSource
LEMMA HalfStep ==
    ASSUME HalfClosed,
           \A s \in SockIds :
               \/ socket'[s].peer = NULL /\ (socket'[s].rx # <<>> => socket'[s].peer_closed)
               \/ /\ socket'[s].peer = socket[s].peer /\ socket'[s].peer_closed = socket[s].peer_closed
                  /\ socket'[s].connected = socket[s].connected
                  /\ socket'[s].rx = <<>> \/ socket[s].rx # <<>>
               \/ socket'[s].connected /\ ~socket'[s].peer_closed
    PROVE  HalfClosed'
  BY DEF HalfClosed

\* A step that replaces only the contents of the struct s.
LEMMA OneStruct ==
    ASSUME UnixTypeOK, NEW s \in SockIds, NEW r \in SockRec, socket' = [socket EXCEPT ![s] = r]
    PROVE  /\ socket' \in [SockIds -> SockRec]
           /\ socket'[s] = r /\ \A t \in SockIds \ {s} : socket'[t] = socket[t]
<1>1. socket \in [SockIds -> SockRec]
  BY TypeFacts
<1> QED BY <1>1

\* A struct that is not in use.
LEMMA FreeFacts ==
    ASSUME TableOK, NEW s \in SockIds, s \notin Used
    PROVE  /\ Has(socket[s], FALSE, NULL, FALSE, FALSE, NULL, FALSE, NULL, <<>>, <<>>)
           /\ s \notin given
<1>1. ~socket[s].used
  BY DEF Used
<1>2. socket[s] = Zeroed
  BY <1>1 DEF TableOK, FreeZeroed
<1>3. Has(socket[s], FALSE, NULL, FALSE, FALSE, NULL, FALSE, NULL, <<>>, <<>>)
  BY <1>2, ZeroedFacts, Zenon
<1> QED BY <1>3, Zenon DEF TableOK, UnixTypeOK

LEMMA SocketInv ==
    ASSUME TableOK, NEW p \in Programs, NEW s \in SockIds, sys_socket(p, s)
    PROVE  TableOK'
<1>1. /\ s \in SockIds \ Used /\ socket' = [socket EXCEPT ![s] = NewSocket(p)]
      /\ given' = given \cup {s} /\ alive' = alive
  BY DEF sys_socket, FreeSlot, IsLowest
<1>2. /\ Has(socket[s], FALSE, NULL, FALSE, FALSE, NULL, FALSE, NULL, <<>>, <<>>)
      /\ NewSocket(p) \in SockRec
      /\ Has(NewSocket(p), TRUE, p, FALSE, FALSE, NULL, FALSE, NULL, <<>>, <<>>)
  BY <1>1, FreeFacts, NewFacts, Zenon
<1>3. /\ socket' \in [SockIds -> SockRec]
      /\ socket'[s] = NewSocket(p) /\ \A t \in SockIds \ {s} : socket'[t] = socket[t]
  BY <1>1, <1>2, OneStruct, Zenon DEF TableOK
<1>4. Has(socket'[s], TRUE, p, FALSE, FALSE, NULL, FALSE, NULL, <<>>, <<>>)
  BY <1>2, <1>3, Zenon
<1>5. UnixTypeOK'
  <2>1. \A t \in SockIds : /\ Len(socket'[t].rx) <= UNIX_RX_BUF
                           /\ Len(socket'[t].pending) <= UNIX_PENDING_MAX - 1
    BY <1>3, <1>4, TypeFacts, IdFacts DEF TableOK, Has
  <2>2. \A t \in given' : t \in SockIds /\ socket'[t].used
    BY <1>1, <1>3, <1>4, TypeFacts, Zenon DEF TableOK, Has
  <2> QED BY <1>1, <1>3, <2>1, <2>2, TypeStep, Zenon DEF TableOK, UnixTypeOK
<1>6. PeersOK'
  BY <1>2, <1>3, <1>4, PeersStep, Zenon DEF TableOK, Has
<1>7. PendingOK'
  BY <1>1, <1>2, <1>3, <1>4, PendingStep DEF TableOK, Has
<1>8. OneListener'
  BY <1>2, <1>3, <1>4, ListenStep DEF TableOK, Has
<1>9. OneSource'
  BY <1>2, <1>3, <1>4, SourceStep DEF TableOK, Has
<1>10. FreeZeroed'
  BY <1>3, <1>4 DEF TableOK, FreeZeroed, Has
<1>11. HalfClosed'
  BY <1>2, <1>3, <1>4, HalfStep DEF TableOK, Has
<1> QED BY <1>5, <1>6, <1>7, <1>8, <1>9, <1>10, <1>11 DEF TableOK

LEMMA SocketpairInv ==
    ASSUME TableOK, NEW p \in Programs, NEW a \in SockIds, NEW b \in SockIds,
           sys_socketpair(p, a, b)
    PROVE  TableOK'
<1> DEFINE A == [NewSocket(p) EXCEPT !.connected = TRUE, !.peer = b]
           B == [NewSocket(p) EXCEPT !.connected = TRUE, !.peer = a]
<1>1. /\ a \notin Used /\ b \notin Used /\ a # b
      /\ socket' = [socket EXCEPT ![a] = A, ![b] = B]
      /\ given' = given \cup {a, b} /\ alive' = alive
  BY DEF sys_socketpair, FreeSlot, IsLowest
<1>2. /\ Has(socket[a], FALSE, NULL, FALSE, FALSE, NULL, FALSE, NULL, <<>>, <<>>)
      /\ Has(socket[b], FALSE, NULL, FALSE, FALSE, NULL, FALSE, NULL, <<>>, <<>>)
  BY <1>1, FreeFacts, Zenon
<1>3. /\ A \in SockRec /\ Has(A, TRUE, p, TRUE, FALSE, b, FALSE, NULL, <<>>, <<>>)
      /\ B \in SockRec /\ Has(B, TRUE, p, TRUE, FALSE, a, FALSE, NULL, <<>>, <<>>)
  BY NewFacts, Zenon
<1> HIDE DEF A, B
<1>4. /\ socket' \in [SockIds -> SockRec]
      /\ socket'[a] = A /\ socket'[b] = B
      /\ \A t \in SockIds \ {a, b} : socket'[t] = socket[t]
  <2>1. socket \in [SockIds -> SockRec]
    BY TypeFacts DEF TableOK
  <2> QED BY <1>1, <1>3, <2>1
<1>5. /\ Has(socket'[a], TRUE, p, TRUE, FALSE, b, FALSE, NULL, <<>>, <<>>)
      /\ Has(socket'[b], TRUE, p, TRUE, FALSE, a, FALSE, NULL, <<>>, <<>>)
  BY <1>3, <1>4, Zenon
<1>6. UnixTypeOK'
  <2>1. \A t \in SockIds : /\ Len(socket'[t].rx) <= UNIX_RX_BUF
                           /\ Len(socket'[t].pending) <= UNIX_PENDING_MAX - 1
    BY <1>4, <1>5, TypeFacts, IdFacts DEF TableOK, Has
  <2>2. \A t \in given' : t \in SockIds /\ socket'[t].used
    BY <1>1, <1>4, <1>5, TypeFacts, Zenon DEF TableOK, Has
  <2> QED BY <1>1, <1>4, <2>1, <2>2, TypeStep, Zenon DEF TableOK, UnixTypeOK
<1>7. PeersOK'
  <2>1. \A s \in SockIds : socket[s].peer \in SockIds => socket[socket[s].peer].used
    BY IdFacts DEF TableOK, PeersOK
  <2>2. \A s \in SockIds \ {a, b} : socket[s].peer # a /\ socket[s].peer # b
    BY <1>2, <2>1, Zenon DEF Has
  <2>3. \A s \in SockIds : socket[s].peer # NULL => socket[s].peer \in SockIds
    BY TypeFacts DEF TableOK, SockRec
  <2> QED BY <1>1, <1>4, <1>5, <2>2, <2>3, IdFacts DEF TableOK, PeersOK, Has
<1>8. PendingOK'
  BY <1>1, <1>2, <1>4, <1>5, PendingStep DEF TableOK, Has
<1>9. OneListener'
  BY <1>2, <1>4, <1>5, ListenStep DEF TableOK, Has
<1>10. OneSource'
  BY <1>2, <1>4, <1>5, SourceStep DEF TableOK, Has
<1>11. FreeZeroed'
  BY <1>4, <1>5 DEF TableOK, FreeZeroed, Has
<1>12. HalfClosed'
  BY <1>2, <1>4, <1>5, HalfStep DEF TableOK, Has
<1> QED BY <1>6, <1>7, <1>8, <1>9, <1>10, <1>11, <1>12 DEF TableOK

\* A socket that a program has.
LEMMA OwnedFacts ==
    ASSUME TableOK, NEW p, NEW s \in SockIds, Owned(p, s)
    PROVE  socket[s] \in SockRec /\ socket[s].used /\ s \in given
  BY TypeFacts DEF TableOK, Owned

LEMMA BindInv ==
    ASSUME TableOK, NEW p \in Programs, NEW s \in SockIds, NEW path \in Paths,
           sys_bind(p, s, path)
    PROVE  TableOK'
<1> DEFINE r == [socket[s] EXCEPT !.path = path]
<1>1. /\ socket[s] \in SockRec /\ socket[s].used
      /\ socket' = [socket EXCEPT ![s] = r] /\ UNCHANGED <<given, alive>>
      /\ \A t \in Used : socket[t].path # path
  BY OwnedFacts, Zenon DEF sys_bind
<1>2. /\ r \in SockRec
      /\ Has(r, socket[s].used, socket[s].owner_pid, socket[s].connected, socket[s].peer_closed,
             socket[s].peer, socket[s].listening, path, socket[s].pending, socket[s].rx)
  BY <1>1, Zenon DEF SockRec, Has
<1> HIDE DEF r
<1>3. /\ socket' \in [SockIds -> SockRec]
      /\ socket'[s] = r /\ \A t \in SockIds \ {s} : socket'[t] = socket[t]
  BY <1>1, <1>2, OneStruct, Zenon DEF TableOK
<1>4. \A t \in SockIds :
          Has(socket'[t], socket[t].used, socket[t].owner_pid, socket[t].connected,
              socket[t].peer_closed, socket[t].peer, socket[t].listening,
              IF t = s THEN path ELSE socket[t].path, socket[t].pending, socket[t].rx)
  BY <1>2, <1>3, Zenon DEF Has
<1>5. UnixTypeOK'
  <2>1. \A t \in SockIds : /\ Len(socket'[t].rx) <= UNIX_RX_BUF
                           /\ Len(socket'[t].pending) <= UNIX_PENDING_MAX - 1
    BY <1>4, TypeFacts, Zenon DEF TableOK, Has
  <2>2. \A t \in given' : t \in SockIds /\ socket'[t].used
    BY <1>1, <1>4, TypeFacts, Zenon DEF TableOK, Has
  <2> QED BY <1>1, <1>3, <2>1, <2>2, TypeStep, Zenon DEF TableOK, UnixTypeOK
<1>6. PeersOK'
  BY <1>4, PeersStep, Zenon DEF TableOK, Has
<1>7. PendingOK'
  BY <1>1, <1>4, PendingStep, Zenon DEF TableOK, Has
<1>8. OneListener'
  BY <1>1, <1>4 DEF TableOK, OneListener, Used, Has
<1>9. OneSource'
  BY <1>4, SourceStep, Zenon DEF TableOK, Has
<1>10. FreeZeroed'
  BY <1>1, <1>3, <1>4, Zenon DEF TableOK, FreeZeroed, Has
<1>11. HalfClosed'
  BY <1>4, Zenon DEF TableOK, HalfClosed, Has
<1> QED BY <1>5, <1>6, <1>7, <1>8, <1>9, <1>10, <1>11 DEF TableOK

LEMMA ListenInv ==
    ASSUME TableOK, NEW p \in Programs, NEW s \in SockIds, sys_listen(p, s)
    PROVE  TableOK'
<1> DEFINE r == [socket[s] EXCEPT !.listening = TRUE]
<1>1. /\ socket[s] \in SockRec /\ socket[s].used
      /\ socket' = [socket EXCEPT ![s] = r] /\ UNCHANGED <<given, alive>>
  BY OwnedFacts, Zenon DEF sys_listen
<1>2. /\ r \in SockRec
      /\ Has(r, socket[s].used, socket[s].owner_pid, socket[s].connected, socket[s].peer_closed,
             socket[s].peer, TRUE, socket[s].path, socket[s].pending, socket[s].rx)
  BY <1>1, Zenon DEF SockRec, Has
<1> HIDE DEF r
<1>3. /\ socket' \in [SockIds -> SockRec]
      /\ socket'[s] = r /\ \A t \in SockIds \ {s} : socket'[t] = socket[t]
  BY <1>1, <1>2, OneStruct, Zenon DEF TableOK
<1>4. \A t \in SockIds :
          Has(socket'[t], socket[t].used, socket[t].owner_pid, socket[t].connected,
              socket[t].peer_closed, socket[t].peer,
              IF t = s THEN TRUE ELSE socket[t].listening,
              socket[t].path, socket[t].pending, socket[t].rx)
  BY <1>2, <1>3, Zenon DEF Has
<1>5. UnixTypeOK'
  <2>1. \A t \in SockIds : /\ Len(socket'[t].rx) <= UNIX_RX_BUF
                           /\ Len(socket'[t].pending) <= UNIX_PENDING_MAX - 1
    BY <1>4, TypeFacts, Zenon DEF TableOK, Has
  <2>2. \A t \in given' : t \in SockIds /\ socket'[t].used
    BY <1>1, <1>4, TypeFacts, Zenon DEF TableOK, Has
  <2> QED BY <1>1, <1>3, <2>1, <2>2, TypeStep, Zenon DEF TableOK, UnixTypeOK
<1>6. PeersOK'
  BY <1>4, PeersStep, Zenon DEF TableOK, Has
<1>7. PendingOK'
  BY <1>1, <1>4, PendingStep, Zenon DEF TableOK, Has
<1>8. OneListener'
  BY <1>4, ListenStep, Zenon DEF TableOK, Has
<1>9. OneSource'
  BY <1>4, SourceStep, Zenon DEF TableOK, Has
<1>10. FreeZeroed'
  BY <1>1, <1>3, <1>4, Zenon DEF TableOK, FreeZeroed, Has
<1>11. HalfClosed'
  BY <1>4, Zenon DEF TableOK, HalfClosed, Has
<1> QED BY <1>5, <1>6, <1>7, <1>8, <1>9, <1>10, <1>11 DEF TableOK

----------------------------------------------------------------------------
(* Connections.                                                            *)

\* What waits in a ring is in use, has not been handed out and waits there once; a
\* ring with something in it is that of a socket in use.
LEMMA PendingFacts ==
    ASSUME TableOK, NEW l \in SockIds, NEW i \in DOMAIN socket[l].pending
    PROVE  /\ socket[l].pending[i] \in SockIds /\ socket[l].pending[i] \in Used
           /\ socket[l].pending[i] \notin given /\ l \in Used
<1>1. socket[l].pending \in Seq(SockIds)
  BY TypeFacts DEF TableOK, SockRec
<1>2. socket[l].pending[i] \in SockIds
  BY <1>1
<1>3. l \in Used
  <2>1. l \notin Used => socket[l].pending = <<>>
    BY FreeFacts, Zenon DEF Has
  <2> QED BY <2>1
<1> QED BY <1>2, <1>3 DEF TableOK, PendingOK, Used

\* connect that finds room: the new struct a and the socket s are linked, and a
\* waits in the ring of the listener l, which may be s itself.
Linked(s, l, a) ==
    /\ socket' \in [SockIds -> SockRec] /\ UNCHANGED <<given, alive>>
    /\ Has(socket'[a], TRUE, socket[l].owner_pid, TRUE, FALSE, s, FALSE, NULL, <<>>, <<>>)
    /\ \A t \in SockIds \ {a} :
           Has(socket'[t], socket[t].used, socket[t].owner_pid,
               IF t = s THEN TRUE ELSE socket[t].connected, socket[t].peer_closed,
               IF t = s THEN a ELSE socket[t].peer, socket[t].listening, socket[t].path,
               IF t = l THEN Append(socket[t].pending, a) ELSE socket[t].pending,
               socket[t].rx)
    /\ \A t \in SockIds \ {a, s, l} : socket'[t] = socket[t]

LEMMA LinkedInv ==
    ASSUME TableOK, NEW s \in Used, NEW l \in Used, NEW a \in SockIds, a \notin Used,
           socket[s].peer = NULL, ~socket[s].peer_closed,
           Len(socket[l].pending) < UNIX_PENDING_MAX - 1, Linked(s, l, a)
    PROVE  TableOK'
<1>1. /\ s \in SockIds /\ l \in SockIds /\ s # a /\ l # a /\ socket[s].used /\ socket[l].used
      /\ Has(socket[a], FALSE, NULL, FALSE, FALSE, NULL, FALSE, NULL, <<>>, <<>>)
      /\ a \notin given
  BY FreeFacts, Zenon DEF Used
<1>2. /\ \A t \in SockIds : socket[t].pending \in Seq(SockIds) /\ socket[t].rx \in Seq(SockIds)
      /\ \A t \in SockIds : socket[t].peer # NULL => socket[t].peer \in SockIds
  BY TypeFacts DEF TableOK, SockRec
<1>t. socket' \in [SockIds -> SockRec] /\ UNCHANGED <<given, alive>>
  BY DEF Linked
<1>o. \A t \in SockIds \ {a, s, l} : socket'[t] = socket[t]
  BY DEF Linked
<1>a. Has(socket'[a], TRUE, socket[l].owner_pid, TRUE, FALSE, s, FALSE, NULL, <<>>, <<>>)
  BY Zenon DEF Linked
<1>b. \A t \in SockIds \ {a} :
          /\ socket'[t].used = socket[t].used /\ socket'[t].owner_pid = socket[t].owner_pid
          /\ socket'[t].peer_closed = socket[t].peer_closed
          /\ socket'[t].path = socket[t].path /\ socket'[t].rx = socket[t].rx
  BY Zenon DEF Linked, Has
<1>p. \A t \in SockIds \ {a} :
          /\ socket'[t].connected = IF t = s THEN TRUE ELSE socket[t].connected
          /\ socket'[t].peer = IF t = s THEN a ELSE socket[t].peer
  BY Zenon DEF Linked, Has
<1>q. \A t \in SockIds \ {a} :
          socket'[t].pending = IF t = l THEN Append(socket[t].pending, a) ELSE socket[t].pending
  BY Zenon DEF Linked, Has
<1>3. UnixTypeOK'
  <2>1. \A t \in SockIds : /\ Len(socket[t].rx) <= UNIX_RX_BUF
                           /\ Len(socket[t].pending) <= UNIX_PENDING_MAX - 1
    BY TypeFacts DEF TableOK
  <2>2. /\ Len(Append(socket[l].pending, a)) <= UNIX_PENDING_MAX - 1
        /\ Len(<<>>) <= UNIX_RX_BUF /\ Len(<<>>) <= UNIX_PENDING_MAX - 1
    BY <1>1, <1>2, IdFacts
  <2>3. \A t \in SockIds : /\ Len(socket'[t].rx) <= UNIX_RX_BUF
                           /\ Len(socket'[t].pending) <= UNIX_PENDING_MAX - 1
    <3>1. socket'[a].rx = <<>> /\ socket'[a].pending = <<>>
      BY <1>a, Zenon DEF Has
    <3> QED BY <1>1, <1>b, <1>q, <2>1, <2>2, <3>1, Zenon
  <2>4. \A t \in given' : t \in SockIds /\ socket'[t].used
    BY <1>1, <1>t, <1>b, TypeFacts, Zenon DEF TableOK
  <2> QED BY <1>t, <2>3, <2>4, TypeStep, Zenon DEF TableOK, UnixTypeOK
<1>4. PeersOK'
  <2>1. \A t \in SockIds : socket[t].peer # a
    BY <1>1, IdFacts DEF TableOK, PeersOK, Has
  <2>2. \A t \in SockIds : socket[t].peer # s
    BY <1>1, IdFacts DEF TableOK, PeersOK
  <2>3. socket'[a].used /\ socket'[a].connected /\ socket'[a].peer = s
    BY <1>a, Zenon DEF Has
  <2>4. ASSUME NEW t \in SockIds
        PROVE  /\ socket'[t].connected <=> socket'[t].peer # NULL
               /\ socket'[t].peer # NULL =>
                      /\ socket'[t].peer # t /\ socket'[t].used
                      /\ socket'[socket'[t].peer].used /\ socket'[socket'[t].peer].peer = t
    <3>1. CASE t = a
      BY <1>1, <1>b, <1>p, <2>3, <3>1, IdFacts, Zenon
    <3>2. CASE t = s
      BY <1>1, <1>b, <1>p, <2>3, <3>2, IdFacts, ZenonT(30)
    <3>3. CASE t # a /\ t # s
      <4> DEFINE u == socket[t].peer
      <4>1. /\ socket[t].connected <=> u # NULL
            /\ u # NULL => /\ u # t /\ socket[t].used /\ socket[u].used /\ socket[u].peer = t
                          /\ u \in SockIds
        BY <1>2 DEF TableOK, PeersOK
      <4>2. u # a /\ u # s
        BY <2>1, <2>2
      <4>3. /\ socket'[t].connected = socket[t].connected /\ socket'[t].peer = u
            /\ socket'[t].used = socket[t].used
        BY <1>b, <1>p, <3>3, Zenon
      <4>4. u # NULL => socket'[u].used = socket[u].used /\ socket'[u].peer = socket[u].peer
        BY <1>b, <1>p, <4>1, <4>2, Zenon
      <4> QED BY <4>1, <4>3, <4>4, Zenon
    <3> QED BY <3>1, <3>2, <3>3
  <2> QED BY <2>4 DEF PeersOK
<1>5. PendingOK'
  <2> DEFINE q == Append(socket[l].pending, a)
             n == Len(socket[l].pending) + 1
  <2>1. /\ n \in Nat /\ DOMAIN q = 1..n /\ q[n] = a
        /\ DOMAIN socket[l].pending = 1..(n - 1)
        /\ \A i \in 1..(n - 1) : q[i] = socket[l].pending[i]
    BY <1>1, <1>2
  <2> HIDE DEF q, n
  <2>2. \A t \in SockIds : socket'[t].pending = IF t = l THEN q ELSE socket[t].pending
    <3>1. socket'[a].pending = <<>> /\ socket[a].pending = <<>>
      BY <1>1, <1>a, Zenon DEF Has
    <3> QED BY <1>1, <1>q, <3>1 DEF q
  <2>3. \A t \in SockIds : /\ socket'[t].owner_pid = IF t = a THEN socket[l].owner_pid
                                                     ELSE socket[t].owner_pid
                           /\ socket[t].used => socket'[t].used
    BY <1>a, <1>b, Zenon DEF Has
  <2>4. socket'[a].used
    BY <1>a, Zenon DEF Has
  <2>5. \A m \in SockIds : \A i \in DOMAIN socket[m].pending :
            /\ socket[m].pending[i] \in SockIds /\ socket[m].pending[i] # a
            /\ socket[socket[m].pending[i]].used /\ socket[m].pending[i] \notin given /\ m # a
    BY PendingFacts DEF Used
  <2>6. ASSUME NEW m \in SockIds, NEW i \in DOMAIN socket'[m].pending
        PROVE  \/ m = l /\ i = n /\ socket'[m].pending[i] = a
               \/ /\ i \in DOMAIN socket[m].pending
                  /\ socket'[m].pending[i] = socket[m].pending[i]
    BY <2>1, <2>2
  <2>7. ASSUME NEW m \in SockIds, NEW i \in DOMAIN socket'[m].pending
        PROVE  LET b == socket'[m].pending[i]
               IN  /\ socket'[b].used /\ b \notin given'
                   /\ socket'[b].owner_pid = socket'[m].owner_pid
                   /\ \A k \in SockIds : \A j \in DOMAIN socket'[k].pending :
                          socket'[k].pending[j] = b => k = m /\ j = i
    <3>1. CASE m = l /\ i = n /\ socket'[m].pending[i] = a
      BY <1>1, <1>t, <2>3, <2>4, <2>5, <2>6, <3>1
    <3>2. CASE /\ i \in DOMAIN socket[m].pending
               /\ socket'[m].pending[i] = socket[m].pending[i]
      <4>1. /\ socket[m].pending[i] \in SockIds /\ socket[m].pending[i] # a
            /\ socket[socket[m].pending[i]].used /\ socket[m].pending[i] \notin given /\ m # a
        BY <2>5, <3>2
      <4>2. /\ socket[socket[m].pending[i]].owner_pid = socket[m].owner_pid
            /\ \A k \in SockIds : \A j \in DOMAIN socket[k].pending :
                   socket[k].pending[j] = socket[m].pending[i] => k = m /\ j = i
        BY <3>2 DEF TableOK, PendingOK
      <4> QED BY <1>t, <2>3, <2>6, <3>2, <4>1, <4>2
    <3> QED BY <2>6, <3>1, <3>2
  <2> QED BY <2>7 DEF PendingOK
<1>6. OneListener'
  <2>1. socket'[a].path = NULL
    BY <1>a, Zenon DEF Has
  <2> QED BY <1>b, <2>1, ListenStep DEF TableOK
<1>7. OneSource'
  <2>1. socket[s].rx = <<>>
    BY <1>1 DEF TableOK, HalfClosed, PeersOK
  <2>2. socket'[a].rx = <<>>
    BY <1>a, Zenon DEF Has
  <2> QED BY <1>b, <1>p, <2>1, <2>2, SourceStep, Zenon DEF TableOK
<1>8. FreeZeroed'
  <2>1. socket'[a].used /\ socket'[s].used /\ socket'[l].used
    BY <1>1, <1>a, <1>b, Zenon DEF Has
  <2> QED BY <1>o, <2>1 DEF TableOK, FreeZeroed
<1>9. HalfClosed'
  <2>1. socket'[a].rx = <<>> /\ socket'[a].connected /\ ~socket'[a].peer_closed
    BY <1>a, Zenon DEF Has
  <2>2. socket'[s].connected /\ ~socket'[s].peer_closed
    BY <1>1, <1>b, <1>p, Zenon
  <2>3. \A t \in SockIds \ {a, s} :
            /\ socket'[t].peer = socket[t].peer /\ socket'[t].peer_closed = socket[t].peer_closed
            /\ socket'[t].connected = socket[t].connected /\ socket'[t].rx = socket[t].rx
    BY <1>b, <1>p, Zenon
  <2> QED BY <2>1, <2>2, <2>3, HalfStep DEF TableOK
<1> QED BY <1>3, <1>4, <1>5, <1>6, <1>7, <1>8, <1>9 DEF TableOK

\* A step that leaves every field of every socket as it was.
LEMMA SameInv ==
    ASSUME TableOK, socket' \in [SockIds -> SockRec], given' \subseteq given,
           alive' \subseteq Programs,
           \A t \in SockIds :
               Has(socket'[t], socket[t].used, socket[t].owner_pid, socket[t].connected,
                   socket[t].peer_closed, socket[t].peer, socket[t].listening, socket[t].path,
                   socket[t].pending, socket[t].rx),
           \A t \in SockIds : socket[t].used \/ socket'[t] = socket[t]
    PROVE  TableOK'
<1>1. UnixTypeOK'
  <2>1. \A t \in SockIds : /\ Len(socket'[t].rx) <= UNIX_RX_BUF
                           /\ Len(socket'[t].pending) <= UNIX_PENDING_MAX - 1
    BY TypeFacts, Zenon DEF TableOK, Has
  <2>2. \A t \in given' : t \in SockIds /\ socket'[t].used
    BY TypeFacts, Zenon DEF TableOK, Has
  <2> QED BY <2>1, <2>2, TypeStep, Zenon DEF TableOK, UnixTypeOK
<1>2. PeersOK'
  BY PeersStep, Zenon DEF TableOK, Has
<1>3. PendingOK'
  BY PendingStep, Zenon DEF TableOK, Has
<1>4. OneListener'
  BY ListenStep, Zenon DEF TableOK, Has
<1>5. OneSource'
  BY SourceStep, Zenon DEF TableOK, Has
<1>6. FreeZeroed'
  BY Zenon DEF TableOK, FreeZeroed, Has
<1>7. HalfClosed'
  BY Zenon DEF TableOK, HalfClosed, Has
<1> QED BY <1>1, <1>2, <1>3, <1>4, <1>5, <1>6, <1>7, Zenon DEF TableOK

LEMMA ConnectInv ==
    ASSUME "reconnect" \notin Habits, TableOK, NEW p \in Programs, NEW s \in SockIds,
           NEW path \in Paths, sys_connect(p, s, path)
    PROVE  TableOK'
<1>1. PICK l \in SockIds, a \in SockIds :
        /\ IsLowest(l, Listeners(path)) /\ FreeSlot(a)
        /\ LET accepted == [NewSocket(socket[l].owner_pid) EXCEPT !.connected = TRUE, !.peer = s]
               room     == Len(socket[l].pending) < UNIX_PENDING_MAX - 1
               linked   == [socket EXCEPT ![a] = accepted, ![s].connected = TRUE,
                                          ![s].peer_closed = FALSE, ![s].peer = a]
           IN  \/ room /\ socket' = [linked EXCEPT ![l].pending = Append(@, a)]
               \/ ~room /\ socket' = [linked EXCEPT ![a] = Zeroed, ![s].connected = FALSE,
                                                    ![s].peer = NULL]
  BY Zenon DEF sys_connect
<1> DEFINE accepted == [NewSocket(socket[l].owner_pid) EXCEPT !.connected = TRUE, !.peer = s]
           joined   == [socket[s] EXCEPT !.connected = TRUE, !.peer_closed = FALSE, !.peer = a]
           room     == Len(socket[l].pending) < UNIX_PENDING_MAX - 1
           linked   == [socket EXCEPT ![a] = accepted, ![s].connected = TRUE,
                                      ![s].peer_closed = FALSE, ![s].peer = a]
<1>2. /\ Owned(p, s) /\ ~socket[s].connected /\ ~socket[s].peer_closed
      /\ UNCHANGED <<given, alive>>
  BY Zenon DEF sys_connect
<1>3. /\ l \in Used /\ s \in Used /\ a \notin Used /\ s # a /\ l # a /\ socket[s].used
  BY <1>1, <1>2, Zenon DEF Listeners, Owned, Used, FreeSlot, IsLowest
<1>4. socket[s].peer = NULL
  BY <1>2 DEF TableOK, PeersOK
<1>5. socket \in [SockIds -> SockRec] /\ socket[s] \in SockRec /\ socket[l] \in SockRec
  BY TypeFacts DEF TableOK
<1>6. /\ accepted \in SockRec
      /\ Has(accepted, TRUE, socket[l].owner_pid, TRUE, FALSE, s, FALSE, NULL, <<>>, <<>>)
  <2>1. socket[l].owner_pid \in Programs \cup {NULL}
    BY <1>5 DEF SockRec
  <2> QED BY <2>1, NewFacts, Zenon
<1>7. /\ joined \in SockRec
      /\ Has(joined, socket[s].used, socket[s].owner_pid, TRUE, FALSE, a, socket[s].listening,
             socket[s].path, socket[s].pending, socket[s].rx)
  BY <1>5, Zenon DEF SockRec, Has
<1>8. linked = [[socket EXCEPT ![a] = accepted] EXCEPT ![s] = joined]
  <2> HIDE DEF accepted
  <2> QED BY <1>3, <1>5, Zenon
<1> HIDE DEF accepted, joined, linked
<1>9. /\ linked \in [SockIds -> SockRec] /\ linked[a] = accepted /\ linked[s] = joined
      /\ \A t \in SockIds \ {a, s} : linked[t] = socket[t]
  BY <1>3, <1>5, <1>6, <1>7, <1>8
<1>10. CASE room /\ socket' = [linked EXCEPT ![l].pending = Append(@, a)]
  <2> DEFINE q == [linked[l] EXCEPT !.pending = Append(linked[l].pending, a)]
  <2>1. linked[l] \in SockRec /\ linked[l].pending = socket[l].pending
    BY <1>3, <1>7, <1>9 DEF Has
  <2>2. /\ q \in SockRec
        /\ Has(q, linked[l].used, linked[l].owner_pid, linked[l].connected, linked[l].peer_closed,
               linked[l].peer, linked[l].listening, linked[l].path, Append(socket[l].pending, a),
               linked[l].rx)
    <3>1. Append(linked[l].pending, a) \in Seq(SockIds)
      BY <2>1 DEF SockRec
    <3> QED BY <2>1, <3>1, Zenon DEF SockRec, Has
  <2>3. socket' = [linked EXCEPT ![l] = q]
    BY <1>10
  <2> HIDE DEF q
  <2>4. /\ socket' \in [SockIds -> SockRec] /\ socket'[l] = q
        /\ \A t \in SockIds \ {l} : socket'[t] = linked[t]
    BY <1>9, <2>2, <2>3
  <2>5. Has(socket'[a], TRUE, socket[l].owner_pid, TRUE, FALSE, s, FALSE, NULL, <<>>, <<>>)
    BY <1>3, <1>6, <1>9, <2>4, Zenon
  <2>6. ASSUME NEW t \in SockIds \ {a}
        PROVE  Has(socket'[t], socket[t].used, socket[t].owner_pid,
                   IF t = s THEN TRUE ELSE socket[t].connected, socket[t].peer_closed,
                   IF t = s THEN a ELSE socket[t].peer, socket[t].listening, socket[t].path,
                   IF t = l THEN Append(socket[t].pending, a) ELSE socket[t].pending,
                   socket[t].rx)
    <3>1. ~socket[s].peer_closed <=> socket[s].peer_closed = FALSE
      BY <1>5 DEF SockRec
    <3>2. CASE t = l /\ t = s
      <4>1. socket'[t] = q /\ linked[l] = joined /\ socket[l] = socket[s]
        BY <1>9, <2>4, <3>2, Zenon
      <4>2. Has(q, joined.used, joined.owner_pid, joined.connected, joined.peer_closed,
                joined.peer, joined.listening, joined.path, Append(socket[l].pending, a), joined.rx)
        BY <2>2, <4>1, Zenon
      <4>3. Has(q, socket[s].used, socket[s].owner_pid, TRUE, FALSE, a, socket[s].listening,
                socket[s].path, Append(socket[l].pending, a), socket[s].rx)
        BY <1>7, <4>2, Zenon DEF Has
      <4> QED BY <1>2, <3>1, <3>2, <4>1, <4>3, Zenon DEF Has
    <3>3. CASE t = l /\ t # s
      BY <1>3, <1>9, <2>2, <2>4, <3>3, Zenon DEF Has
    <3>4. CASE t # l /\ t = s
      BY <1>2, <1>7, <1>9, <2>4, <3>1, <3>4, Zenon DEF Has
    <3>5. CASE t # l /\ t # s
      BY <1>9, <2>4, <3>5, Zenon DEF Has
    <3> QED BY <3>2, <3>3, <3>4, <3>5, Zenon
  <2>7. Linked(s, l, a)
    BY <1>2, <1>9, <2>4, <2>5, <2>6, Zenon DEF Linked
  <2> QED BY <1>2, <1>3, <1>4, <1>10, <2>7, LinkedInv
<1>11. CASE ~room /\ socket' = [linked EXCEPT ![a] = Zeroed, ![s].connected = FALSE,
                                              ![s].peer = NULL]
  <2> DEFINE r == [joined EXCEPT !.connected = FALSE, !.peer = NULL]
  <2>1. /\ r \in SockRec
        /\ Has(r, socket[s].used, socket[s].owner_pid, FALSE, FALSE, NULL, socket[s].listening,
               socket[s].path, socket[s].pending, socket[s].rx)
    BY <1>7, Zenon DEF SockRec, Has
  <2>2. socket' = [[linked EXCEPT ![a] = Zeroed] EXCEPT ![s] = r]
    BY <1>3, <1>9, <1>11, Zenon
  <2> HIDE DEF r
  <2>3. /\ socket' \in [SockIds -> SockRec] /\ socket'[a] = Zeroed /\ socket'[s] = r
        /\ \A t \in SockIds \ {a, s} : socket'[t] = socket[t]
    BY <1>3, <1>9, <2>1, <2>2, ZeroedFacts
  <2>4. socket'[a] = socket[a]
    BY <1>3, <2>3 DEF TableOK, FreeZeroed, Used
  <2>5. \A t \in SockIds \ {s} : socket'[t] = socket[t]
    BY <2>3, <2>4, Zenon
  <2>6. socket[s].peer_closed = FALSE /\ socket[s].connected = FALSE
    BY <1>2, <1>5 DEF SockRec
  <2>7. \A t \in SockIds :
           Has(socket'[t], socket[t].used, socket[t].owner_pid, socket[t].connected,
               socket[t].peer_closed, socket[t].peer, socket[t].listening, socket[t].path,
               socket[t].pending, socket[t].rx)
    BY <1>4, <2>1, <2>3, <2>5, <2>6, Zenon DEF Has
  <2> QED BY <1>2, <1>3, <2>3, <2>5, <2>7, SameInv, Zenon DEF TableOK, UnixTypeOK
<1> QED BY <1>1, <1>10, <1>11, ZenonT(30) DEF linked, accepted

\* The ring of the listener s loses its head, which is handed out or lost.
Accepts(s) ==
    /\ Owned(socket[s].owner_pid, s) /\ socket[s].pending # <<>>
    /\ socket' = [socket EXCEPT ![s].pending = Tail(@)]
    /\ given' \in {given, given \cup {Head(socket[s].pending)}}
    /\ alive' = alive

LEMMA AcceptInv == ASSUME TableOK, NEW s \in SockIds, Accepts(s) PROVE TableOK'
<1> DEFINE r == [socket[s] EXCEPT !.pending = Tail(socket[s].pending)]
           a == Head(socket[s].pending)
<1>1. /\ socket[s] \in SockRec /\ socket[s].used /\ s \in given
      /\ socket[s].pending \in Seq(SockIds) /\ socket[s].pending # <<>>
      /\ socket' = [socket EXCEPT ![s] = r]
  <2>1. socket[s] \in SockRec /\ socket[s].used /\ s \in given
    BY OwnedFacts DEF Accepts
  <2>2. socket[s].pending \in Seq(SockIds)
    BY <2>1 DEF SockRec
  <2> QED BY <2>1, <2>2, Zenon DEF Accepts
<1>2. /\ r \in SockRec
      /\ Has(r, socket[s].used, socket[s].owner_pid, socket[s].connected, socket[s].peer_closed,
             socket[s].peer, socket[s].listening, socket[s].path, Tail(socket[s].pending),
             socket[s].rx)
  <2>1. Tail(socket[s].pending) \in Seq(SockIds)
    BY <1>1
  <2> QED BY <1>1, <2>1, Zenon DEF SockRec, Has
<1> HIDE DEF r
<1>3. /\ socket' \in [SockIds -> SockRec]
      /\ socket'[s] = r /\ \A t \in SockIds \ {s} : socket'[t] = socket[t]
  BY <1>1, <1>2, OneStruct, Zenon DEF TableOK
<1>4. \A t \in SockIds :
          Has(socket'[t], socket[t].used, socket[t].owner_pid, socket[t].connected,
              socket[t].peer_closed, socket[t].peer, socket[t].listening, socket[t].path,
              IF t = s THEN Tail(socket[s].pending) ELSE socket[t].pending, socket[t].rx)
  BY <1>2, <1>3, Zenon DEF Has
<1>5. /\ 1 \in DOMAIN socket[s].pending /\ a = socket[s].pending[1]
      /\ DOMAIN Tail(socket[s].pending) = 1..(Len(socket[s].pending) - 1)
      /\ DOMAIN socket[s].pending = 1..Len(socket[s].pending) /\ Len(socket[s].pending) \in Nat
      /\ Len(Tail(socket[s].pending)) = Len(socket[s].pending) - 1
      /\ \A i \in 1..(Len(socket[s].pending) - 1) :
             Tail(socket[s].pending)[i] = socket[s].pending[i + 1]
  BY <1>1
<1>6. a \in SockIds /\ socket[a].used
  BY <1>5, PendingFacts DEF Used
<1>7. given' \in {given, given \cup {a}} /\ alive' = alive
  BY DEF Accepts
<1> HIDE DEF a
<1>8. UnixTypeOK'
  <2>1. \A t \in SockIds : /\ Len(socket[t].rx) <= UNIX_RX_BUF
                           /\ Len(socket[t].pending) <= UNIX_PENDING_MAX - 1
    BY TypeFacts DEF TableOK
  <2>2. Len(Tail(socket[s].pending)) <= UNIX_PENDING_MAX - 1
    BY <1>5, <2>1, IdFacts
  <2>3. \A t \in SockIds : /\ Len(socket'[t].rx) <= UNIX_RX_BUF
                           /\ Len(socket'[t].pending) <= UNIX_PENDING_MAX - 1
    BY <1>4, <2>1, <2>2, Zenon DEF Has
  <2>4. \A t \in given' : t \in SockIds /\ socket'[t].used
    <3>1. \A t \in SockIds : socket'[t].used = socket[t].used
      BY <1>4, Zenon DEF Has
    <3>2. given' \subseteq given \cup {a}
      BY <1>7
    <3> QED BY <1>6, <3>1, <3>2, TypeFacts, Zenon DEF TableOK
  <2> QED BY <1>3, <1>7, <2>3, <2>4, TypeStep, Zenon DEF TableOK, UnixTypeOK
<1>9. PeersOK'
  BY <1>4, PeersStep, Zenon DEF TableOK, Has
<1>10. PendingOK'
  <2>1. \A t \in SockIds : socket'[t].pending = IF t = s THEN Tail(socket[s].pending)
                                                ELSE socket[t].pending
    BY <1>4, Zenon DEF Has
  <2>2. \A t \in SockIds : /\ socket'[t].owner_pid = socket[t].owner_pid
                           /\ socket'[t].used = socket[t].used
    BY <1>4, Zenon DEF Has
  <2> DEFINE old(m, i) == IF m = s THEN i + 1 ELSE i
  <2>3. ASSUME NEW m \in SockIds, NEW i \in DOMAIN socket'[m].pending
        PROVE  /\ old(m, i) \in DOMAIN socket[m].pending
               /\ socket'[m].pending[i] = socket[m].pending[old(m, i)]
               /\ ~(m = s /\ old(m, i) = 1)
    <3>1. CASE m = s
      <4>1. socket'[m].pending = Tail(socket[s].pending) /\ i \in 1..(Len(socket[s].pending) - 1)
        BY <1>5, <2>1, <3>1, Zenon
      <4>2. /\ i + 1 \in 1..Len(socket[s].pending) /\ i + 1 # 1
            /\ Tail(socket[s].pending)[i] = socket[s].pending[i + 1]
        BY <1>5, <4>1
      <4> QED BY <1>5, <3>1, <4>1, <4>2, Zenon
    <3>2. CASE m # s
      BY <2>1, <3>2, Zenon
    <3> QED BY <3>1, <3>2
  <2>4. \A m \in SockIds : \A i, j :
            old(m, i) = old(m, j) /\ i \in DOMAIN socket'[m].pending
                /\ j \in DOMAIN socket'[m].pending => i = j
    <3> SUFFICES ASSUME NEW m \in SockIds, NEW i \in DOMAIN socket'[m].pending,
                        NEW j \in DOMAIN socket'[m].pending, old(m, i) = old(m, j)
                 PROVE  i = j
      BY Zenon
    <3>1. CASE m = s
      <4>1. i \in 1..(Len(socket[s].pending) - 1) /\ j \in 1..(Len(socket[s].pending) - 1)
        BY <1>5, <2>1, <3>1, Zenon
      <4>2. i + 1 = j + 1
        BY <3>1
      <4> QED BY <1>5, <4>1, <4>2
    <3>2. CASE m # s
      BY <3>2
    <3> QED BY <3>1, <3>2
  <2> HIDE DEF old
  <2>5. ASSUME NEW m \in SockIds, NEW i \in DOMAIN socket'[m].pending
        PROVE  LET b == socket'[m].pending[i]
               IN  /\ socket'[b].used /\ b \notin given'
                   /\ socket'[b].owner_pid = socket'[m].owner_pid
                   /\ \A k \in SockIds : \A j \in DOMAIN socket'[k].pending :
                          socket'[k].pending[j] = b => k = m /\ j = i
    <3> DEFINE b == socket[m].pending[old(m, i)]
    <3>1. old(m, i) \in DOMAIN socket[m].pending /\ socket'[m].pending[i] = b
      BY <2>3
    <3>2. /\ b \in SockIds /\ socket[b].used /\ b \notin given
          /\ socket[b].owner_pid = socket[m].owner_pid
          /\ \A k \in SockIds : \A j \in DOMAIN socket[k].pending :
                 socket[k].pending[j] = b => k = m /\ j = old(m, i)
      <4>1. b \in SockIds /\ socket[b].used /\ b \notin given
        BY <3>1, PendingFacts DEF Used
      <4>2. /\ socket[b].owner_pid = socket[m].owner_pid
            /\ \A k \in SockIds : \A j \in DOMAIN socket[k].pending :
                   socket[k].pending[j] = b => k = m /\ j = old(m, i)
        BY <3>1 DEF TableOK, PendingOK
      <4> QED BY <4>1, <4>2, Zenon
    <3>3. b # a
      BY <1>5, <2>3, <3>1, <3>2, ZenonT(30)
    <3>4. b \notin given'
      BY <1>7, <3>2, <3>3
    <3>5. ASSUME NEW k \in SockIds, NEW j \in DOMAIN socket'[k].pending,
                 socket'[k].pending[j] = b
          PROVE  k = m /\ j = i
      <4>1. /\ old(k, j) \in DOMAIN socket[k].pending /\ socket[k].pending[old(k, j)] = b
        BY <2>3, <3>5
      <4>2. k = m /\ old(k, j) = old(m, i)
        BY <3>2, <4>1, Zenon
      <4> QED BY <2>4, <4>2, Zenon
    <3> QED BY <2>2, <3>1, <3>2, <3>4, <3>5, Zenon
  <2> QED BY <2>5 DEF PendingOK
<1>11. OneListener'
  BY <1>4, ListenStep, Zenon DEF TableOK, Has
<1>12. OneSource'
  BY <1>4, SourceStep, Zenon DEF TableOK, Has
<1>13. FreeZeroed'
  BY <1>1, <1>3, <1>4, Zenon DEF TableOK, FreeZeroed, Has
<1>14. HalfClosed'
  BY <1>4, Zenon DEF TableOK, HalfClosed, Has
<1> QED BY <1>8, <1>9, <1>10, <1>11, <1>12, <1>13, <1>14, Zenon DEF TableOK

\* The receive buffer of the socket s changes to x.
LEMMA ReceiveInv ==
    ASSUME TableOK, NEW s \in Used, NEW x \in Seq(SockIds), Len(x) <= UNIX_RX_BUF,
           socket' = [socket EXCEPT ![s].rx = x], UNCHANGED <<given, alive>>,
           x # <<>> => socket[s].connected \/ socket[s].peer_closed,
           \A i \in DOMAIN x : x[i] = x[1] /\ socket[s].peer \in {NULL, x[1]}
    PROVE  TableOK'
<1> DEFINE r == [socket[s] EXCEPT !.rx = x]
<1>1. /\ s \in SockIds /\ socket[s] \in SockRec /\ socket[s].used
      /\ socket' = [socket EXCEPT ![s] = r]
  BY TypeFacts, Zenon DEF TableOK, Used
<1>2. /\ r \in SockRec
      /\ Has(r, socket[s].used, socket[s].owner_pid, socket[s].connected, socket[s].peer_closed,
             socket[s].peer, socket[s].listening, socket[s].path, socket[s].pending, x)
  BY <1>1, Zenon DEF SockRec, Has
<1> HIDE DEF r
<1>3. /\ socket' \in [SockIds -> SockRec]
      /\ socket'[s] = r /\ \A t \in SockIds \ {s} : socket'[t] = socket[t]
  BY <1>1, <1>2, OneStruct, Zenon DEF TableOK
<1>4. \A t \in SockIds :
          Has(socket'[t], socket[t].used, socket[t].owner_pid, socket[t].connected,
              socket[t].peer_closed, socket[t].peer, socket[t].listening, socket[t].path,
              socket[t].pending, IF t = s THEN x ELSE socket[t].rx)
  <2> SUFFICES ASSUME NEW t \in SockIds
               PROVE  Has(socket'[t], socket[t].used, socket[t].owner_pid, socket[t].connected,
                          socket[t].peer_closed, socket[t].peer, socket[t].listening,
                          socket[t].path, socket[t].pending, IF t = s THEN x ELSE socket[t].rx)
    OBVIOUS
  <2>1. CASE t = s
    <3>1. Has(socket'[s], socket[s].used, socket[s].owner_pid, socket[s].connected,
              socket[s].peer_closed, socket[s].peer, socket[s].listening, socket[s].path,
              socket[s].pending, x)
      BY <1>2, <1>3, Zenon
    <3> QED BY <2>1, <3>1
  <2>2. CASE t # s
    BY <1>3, <2>2, Zenon DEF Has
  <2> QED BY <2>1, <2>2, Zenon
<1>5. UnixTypeOK'
  <2>1. \A t \in SockIds : /\ Len(socket'[t].rx) <= UNIX_RX_BUF
                           /\ Len(socket'[t].pending) <= UNIX_PENDING_MAX - 1
    BY <1>4, TypeFacts, Zenon DEF TableOK, Has
  <2>2. \A t \in given' : t \in SockIds /\ socket'[t].used
    BY <1>1, <1>4, TypeFacts, Zenon DEF TableOK, Has
  <2> QED BY <1>1, <1>3, <2>1, <2>2, TypeStep, Zenon DEF TableOK, UnixTypeOK
<1>6. PeersOK'
  BY <1>4, PeersStep, Zenon DEF TableOK, Has
<1>7. PendingOK'
  BY <1>1, <1>4, PendingStep, Zenon DEF TableOK, Has
<1>8. OneListener'
  BY <1>4, ListenStep, Zenon DEF TableOK, Has
<1>9. OneSource'
  <2>1. \A t \in SockIds : /\ socket'[t].rx = IF t = s THEN x ELSE socket[t].rx
                           /\ socket'[t].peer = socket[t].peer
    BY <1>4, Zenon DEF Has
  <2>2. \A t \in SockIds : \A i \in DOMAIN socket[t].rx :
            socket[t].rx[i] = socket[t].rx[1] /\ socket[t].peer \in {NULL, socket[t].rx[1]}
    BY DEF TableOK, OneSource
  <2>3. ASSUME NEW t \in SockIds, NEW i \in DOMAIN socket'[t].rx
        PROVE  socket'[t].rx[i] = socket'[t].rx[1] /\ socket'[t].peer \in {NULL, socket'[t].rx[1]}
    <3>1. CASE t = s
      <4>1. socket'[t].rx = x /\ socket'[t].peer = socket[s].peer
        BY <1>1, <2>1, <3>1, Zenon
      <4> QED BY <4>1, Zenon
    <3>2. CASE t # s
      <4>1. socket'[t].rx = socket[t].rx /\ socket'[t].peer = socket[t].peer
        BY <2>1, <3>2, Zenon
      <4> QED BY <2>2, <4>1, Zenon
    <3> QED BY <3>1, <3>2, Zenon
  <2> QED BY <2>3, Zenon DEF OneSource
<1>10. FreeZeroed'
  BY <1>1, <1>3, <1>4, ZenonT(30) DEF TableOK, FreeZeroed, Has
<1>11. HalfClosed'
  <2>1. \A t \in SockIds : /\ socket'[t].rx = IF t = s THEN x ELSE socket[t].rx
                           /\ socket'[t].peer = socket[t].peer
                           /\ socket'[t].connected = socket[t].connected
                           /\ socket'[t].peer_closed = socket[t].peer_closed
    BY <1>4, Zenon DEF Has
  <2>2. \A t \in SockIds : /\ socket[t].peer_closed => socket[t].peer = NULL
                           /\ socket[t].rx # <<>> => socket[t].connected \/ socket[t].peer_closed
    BY DEF TableOK, HalfClosed
  <2> QED BY <2>1, <2>2 DEF HalfClosed
<1> QED BY <1>5, <1>6, <1>7, <1>8, <1>9, <1>10, <1>11, Zenon DEF TableOK

\* The peer of a connected socket.
LEMMA PeerFacts ==
    ASSUME TableOK, NEW s \in SockIds, socket[s].peer # NULL
    PROVE  /\ socket[s].peer \in Used /\ socket[s].peer # s
           /\ socket[socket[s].peer].peer = s /\ socket[socket[s].peer].connected
           /\ ~socket[socket[s].peer].peer_closed
<1>1. socket[s].peer \in SockIds
  BY TypeFacts DEF TableOK, SockRec
<1> DEFINE t == socket[s].peer
<1>2. /\ t # s /\ socket[t].used /\ socket[t].peer = s
  BY DEF TableOK, PeersOK
<1>3. socket[t].peer # NULL
  BY <1>2, IdFacts
<1>4. socket[t].connected
  BY <1>1, <1>3 DEF TableOK, PeersOK
<1>5. ~socket[t].peer_closed
  BY <1>1, <1>3 DEF TableOK, HalfClosed
<1> QED BY <1>1, <1>2, <1>4, <1>5 DEF Used

LEMMA SendInv ==
    ASSUME TableOK, NEW p \in Programs, NEW s \in SockIds, NEW len \in 1..CopyMax,
           sys_sendto(p, s, len)
    PROVE  TableOK'
<1> DEFINE t     == socket[s].peer
           space == UNIX_RX_BUF - Len(socket[t].rx)
           n     == Cut(len, space)
           bytes == [i \in 1..n |-> s]
           old   == socket[t].rx
<1>1. /\ t # NULL /\ space > 0 /\ socket' = [socket EXCEPT ![t].rx = old \o bytes]
      /\ UNCHANGED <<given, alive>>
  BY Zenon DEF sys_sendto
<1>2. /\ t \in Used /\ t \in SockIds /\ socket[t].peer = s /\ socket[t].connected
  BY <1>1, PeerFacts DEF Used
<1>3. old \in Seq(SockIds) /\ Len(old) <= UNIX_RX_BUF
  BY <1>2, TypeFacts DEF TableOK, SockRec
<1>4. \A i \in DOMAIN old : old[i] = s
  <2> SUFFICES ASSUME NEW i \in DOMAIN old PROVE old[i] = s
    OBVIOUS
  <2>1. old[i] = old[1] /\ socket[t].peer \in {NULL, old[1]}
    BY <1>2 DEF TableOK, OneSource
  <2> QED BY <1>2, <2>1, IdFacts, Zenon
<1> HIDE DEF t, old
<1>5. n \in Nat /\ n <= space /\ space \in Nat /\ Len(old) + n <= UNIX_RX_BUF
  BY SMTT(20), <1>1, <1>3, IdFacts DEF Cut, old
<1> HIDE DEF n, space
<1>6. bytes \in Seq(SockIds) /\ Len(bytes) = n /\ \A i \in 1..n : bytes[i] = s
  BY <1>5
<1> HIDE DEF bytes
<1>7. /\ old \o bytes \in Seq(SockIds) /\ Len(old \o bytes) <= UNIX_RX_BUF
      /\ DOMAIN (old \o bytes) = 1..(Len(old) + n)
      /\ \A i \in 1..(Len(old) + n) : (old \o bytes)[i] = IF i <= Len(old) THEN old[i]
                                                          ELSE bytes[i - Len(old)]
  BY <1>3, <1>5, <1>6
<1>8. \A i \in DOMAIN (old \o bytes) : (old \o bytes)[i] = s /\ 1 \in DOMAIN (old \o bytes)
  BY <1>3, <1>4, <1>5, <1>6, <1>7
<1>9. \A i \in DOMAIN (old \o bytes) : /\ (old \o bytes)[i] = (old \o bytes)[1]
                                       /\ socket[t].peer \in {NULL, (old \o bytes)[1]}
  BY <1>2, <1>8, Zenon
<1> QED BY <1>1, <1>2, <1>7, <1>9, ReceiveInv, Zenon

LEMMA RecvInv ==
    ASSUME TableOK, NEW p \in Programs, NEW s \in SockIds, NEW len \in 1..CopyMax,
           sys_recvfrom(p, s, len)
    PROVE  TableOK'
<1> DEFINE old == socket[s].rx
           n   == Cut(len, Len(old))
           x   == SubSeq(old, n + 1, Len(old))
<1>1. /\ Owned(p, s) /\ old # <<>> /\ socket' = [socket EXCEPT ![s].rx = x]
      /\ UNCHANGED <<given, alive>>
  BY Zenon DEF sys_recvfrom
<1>2. s \in Used
  BY <1>1, OwnedFacts DEF Used
<1>3. old \in Seq(SockIds) /\ Len(old) <= UNIX_RX_BUF
  BY TypeFacts DEF TableOK, SockRec
<1>4. \A i \in DOMAIN old : old[i] = old[1] /\ socket[s].peer \in {NULL, old[1]}
  BY DEF TableOK, OneSource
<1>5. socket[s].connected \/ socket[s].peer_closed
  BY <1>1 DEF TableOK, HalfClosed
<1> HIDE DEF old
<1>6. n \in 1..Len(old)
  BY <1>1, <1>3, IdFacts DEF Cut
<1> HIDE DEF n
<1>7. /\ x \in Seq(SockIds) /\ Len(x) = Len(old) - n
      /\ \A i \in 1..(Len(old) - n) : x[i] = old[i + n]
  BY <1>3, <1>6
<1> HIDE DEF x
<1>8. \A i \in DOMAIN x : /\ i \in 1..(Len(old) - n) /\ 1 \in 1..(Len(old) - n)
                          /\ i + n \in DOMAIN old /\ 1 + n \in DOMAIN old
  BY <1>3, <1>6, <1>7
<1>9. \A i \in DOMAIN x : x[i] = old[1] /\ x[1] = old[1]
  BY <1>4, <1>7, <1>8
<1>10. \A i \in DOMAIN x : x[i] = x[1] /\ socket[s].peer \in {NULL, x[1]}
  BY <1>4, <1>8, <1>9
<1>11. Len(x) <= UNIX_RX_BUF
  BY <1>3, <1>6, <1>7, IdFacts
<1> QED BY <1>1, <1>2, <1>5, <1>7, <1>10, <1>11, ReceiveInv, Zenon

\* What close and shutdown of s make of the table, but for the contents r of the
\* struct s itself: its peer, if it has one, is alone and told so.
LEMMA UnlinkedFacts ==
    ASSUME TableOK, NEW s \in SockIds, NEW r \in SockRec, socket' = [Unlinked(s) EXCEPT ![s] = r]
    PROVE  /\ socket' \in [SockIds -> SockRec] /\ socket'[s] = r
           /\ \A t \in SockIds \ {s} : t # socket[s].peer => socket'[t] = socket[t]
           /\ \A t \in SockIds \ {s} : t = socket[s].peer =>
                  Has(socket'[t], TRUE, socket[t].owner_pid, FALSE, TRUE, NULL,
                      socket[t].listening, socket[t].path, socket[t].pending, socket[t].rx)
<1>1. socket \in [SockIds -> SockRec]
  BY TypeFacts DEF TableOK
<1> DEFINE told(t) == [socket[t] EXCEPT !.peer_closed = TRUE,
                                        !.peer = IF @ = s THEN NULL ELSE @,
                                        !.connected = @ /\ socket[t].peer # s]
<1>2. \A t \in SockIds : Unlinked(s)[t] = IF t = socket[s].peer /\ socket[t].used THEN told(t)
                                         ELSE socket[t]
  BY Zenon DEF Unlinked
<1>3. ASSUME NEW t \in SockIds, t = socket[s].peer
      PROVE  /\ socket[t].used /\ told(t) \in SockRec
             /\ Has(told(t), socket[t].used, socket[t].owner_pid, FALSE, TRUE, NULL,
                    socket[t].listening, socket[t].path, socket[t].pending, socket[t].rx)
  <2>1. socket[t].used /\ socket[t].peer = s /\ socket[t].connected /\ socket[t] \in SockRec
    BY <1>1, <1>3, PeerFacts, IdFacts DEF Used
  <2> DEFINE told1 == [socket[t] EXCEPT !.peer_closed = TRUE, !.peer = NULL, !.connected = FALSE]
  <2>2. told(t) = told1
    <3>1. socket[t].peer = s /\ (IF socket[t].peer = s THEN NULL ELSE socket[t].peer) = NULL
      BY <2>1, Zenon
    <3>2. (socket[t].connected /\ socket[t].peer # s) = FALSE
      BY <2>1, Zenon
    <3> QED BY <3>1, <3>2, Zenon
  <2>3. /\ told1 \in SockRec
        /\ Has(told1, socket[t].used, socket[t].owner_pid, FALSE, TRUE, NULL,
               socket[t].listening, socket[t].path, socket[t].pending, socket[t].rx)
    BY <2>1, Zenon DEF SockRec, Has
  <2> HIDE DEF told, told1
  <2> QED BY <2>1, <2>2, <2>3, Zenon
<1> HIDE DEF told
<1>4. Unlinked(s) \in [SockIds -> SockRec]
  <2>1. \A t \in SockIds : Unlinked(s)[t] \in SockRec
    BY <1>1, <1>2, <1>3, Zenon
  <2>2. Unlinked(s) = [t \in SockIds |-> Unlinked(s)[t]]
    BY Zenon DEF Unlinked
  <2> QED BY <2>1, <2>2, Zenon
<1>5. /\ socket' \in [SockIds -> SockRec] /\ socket'[s] = r
      /\ \A t \in SockIds \ {s} : socket'[t] = Unlinked(s)[t]
  BY <1>4
<1>6. ASSUME NEW t \in SockIds \ {s}, t = socket[s].peer
      PROVE  Has(socket'[t], TRUE, socket[t].owner_pid, FALSE, TRUE, NULL,
                 socket[t].listening, socket[t].path, socket[t].pending, socket[t].rx)
  <2>1. /\ socket[t].used /\ socket'[t] = told(t)
        /\ Has(told(t), socket[t].used, socket[t].owner_pid, FALSE, TRUE, NULL,
               socket[t].listening, socket[t].path, socket[t].pending, socket[t].rx)
    BY <1>2, <1>3, <1>5, <1>6, Zenon
  <2>2. socket[t].used = TRUE
    BY <1>1, <2>1 DEF SockRec
  <2> QED BY <2>1, <2>2, Zenon
<1> QED BY <1>2, <1>5, <1>6, Zenon

\* The struct s of a program is disconnected: r is what is left in it.
LEMMA DisconnectInv ==
    ASSUME TableOK, NEW s \in given, NEW r \in SockRec, socket' = [Unlinked(s) EXCEPT ![s] = r],
           \/ r = Zeroed /\ given' = given \ {s}
           \/ /\ given' = given
              /\ Has(r, TRUE, socket[s].owner_pid, FALSE, TRUE, NULL, socket[s].listening,
                     socket[s].path, socket[s].pending, socket[s].rx),
           alive' = alive
    PROVE  TableOK'
<1> DEFINE u == socket[s].peer
<1>1. s \in SockIds /\ socket[s].used
  BY TypeFacts DEF TableOK
<1>2. /\ socket' \in [SockIds -> SockRec] /\ socket'[s] = r
      /\ \A t \in SockIds \ {s} : t # u => socket'[t] = socket[t]
      /\ \A t \in SockIds \ {s} : t = u =>
             Has(socket'[t], TRUE, socket[t].owner_pid, FALSE, TRUE, NULL,
                 socket[t].listening, socket[t].path, socket[t].pending, socket[t].rx)
  BY <1>1, UnlinkedFacts, Zenon
<1>3. /\ r.connected = FALSE /\ r.peer = NULL
      /\ r.pending \in {<<>>, socket[s].pending} /\ r.rx \in {<<>>, socket[s].rx}
      /\ r.path \in {NULL, socket[s].path}
      /\ r.peer_closed = FALSE => r.rx = <<>>
      /\ r.used = FALSE => r = Zeroed
      /\ s \in given' => r.used
  BY ZeroedFacts, Zenon DEF Has
<1>4. r.owner_pid = socket[s].owner_pid \/ r.pending = <<>>
  BY ZeroedFacts, Zenon DEF Has
<1>5. u # NULL => u \in SockIds /\ u # s /\ socket[u].used /\ socket[u].peer = s
  BY <1>1, PeerFacts DEF Used
<1>6. \A t \in SockIds \ {s} :
          /\ socket'[t].used = socket[t].used /\ socket'[t].owner_pid = socket[t].owner_pid
          /\ socket'[t].path = socket[t].path /\ socket'[t].pending = socket[t].pending
          /\ socket'[t].rx = socket[t].rx
  <2> SUFFICES ASSUME NEW t \in SockIds \ {s}
               PROVE  /\ socket'[t].used = socket[t].used /\ socket'[t].owner_pid = socket[t].owner_pid
                      /\ socket'[t].path = socket[t].path /\ socket'[t].pending = socket[t].pending
                      /\ socket'[t].rx = socket[t].rx
    OBVIOUS
  <2>1. CASE t # u
    BY <1>2, <2>1, Zenon
  <2>2. CASE t = u
    <3>1. socket[t].used = TRUE
      BY <1>5, <2>2, IdFacts, TypeFacts DEF TableOK, SockRec
    <3> QED BY <1>2, <2>2, <3>1, Zenon DEF Has
  <2> QED BY <2>1, <2>2
<1>7. \A t \in SockIds : /\ Len(socket[t].rx) <= UNIX_RX_BUF
                         /\ Len(socket[t].pending) <= UNIX_PENDING_MAX - 1
                         /\ socket[t] \in SockRec
  BY TypeFacts DEF TableOK
<1>8. given' \subseteq given
  BY Zenon
<1> HIDE DEF u
<1>9. UnixTypeOK'
  <2>1. \A t \in SockIds : /\ Len(socket'[t].rx) <= UNIX_RX_BUF
                           /\ Len(socket'[t].pending) <= UNIX_PENDING_MAX - 1
    <3>1. Len(<<>>) <= UNIX_RX_BUF /\ Len(<<>>) <= UNIX_PENDING_MAX - 1
      BY IdFacts
    <3> QED BY <1>2, <1>3, <1>6, <1>7, <3>1, Zenon
  <2>2. \A t \in given' : t \in SockIds /\ socket'[t].used
    <3>1. given' \subseteq given
      BY <1>8
    <3> QED BY <1>2, <1>3, <1>6, <3>1, TypeFacts, Zenon DEF TableOK
  <2> QED BY <1>2, <2>1, <2>2, TypeStep, Zenon DEF TableOK, UnixTypeOK
<1>10. PeersOK'
  <2> SUFFICES ASSUME NEW t \in SockIds
               PROVE  /\ socket'[t].connected <=> socket'[t].peer # NULL
                      /\ socket'[t].peer # NULL =>
                             /\ socket'[t].peer # t /\ socket'[t].used
                             /\ socket'[socket'[t].peer].used /\ socket'[socket'[t].peer].peer = t
    BY Zenon DEF PeersOK
  <2>1. CASE t = s
    BY <1>2, <1>3, <2>1, Zenon
  <2>2. CASE t # s /\ t = u
    <3>1. socket'[t].connected = FALSE /\ socket'[t].peer = NULL
      BY <1>2, <2>2, Zenon DEF Has
    <3> QED BY <3>1, Zenon
  <2>3. CASE t # s /\ t # u
    <3> DEFINE v == socket[t].peer
    <3>1. socket'[t] = socket[t]
      BY <1>2, <2>3, Zenon
    <3>2. /\ socket[t].connected <=> v # NULL
          /\ v # NULL => v # t /\ socket[t].used
      BY DEF TableOK, PeersOK
    <3>3. v # NULL => v \in SockIds /\ socket[v].used /\ socket[v].peer = t
      BY PeerFacts DEF Used
    <3>4. v # NULL => v # s /\ v # u
      <4>1. v # NULL /\ v = s => u = t
        BY <3>3, Zenon DEF u
      <4>2. v # NULL /\ v = u => s = t
        BY <1>5, <3>3
      <4> QED BY <2>3, <4>1, <4>2
    <3>5. v # NULL => socket'[v] = socket[v]
      BY <1>2, <3>3, <3>4, Zenon
    <3> QED BY <3>1, <3>2, <3>3, <3>5, Zenon
  <2> QED BY <2>1, <2>2, <2>3, Zenon
<1>11. PendingOK'
  <2>1. \A m \in SockIds : \A i \in DOMAIN socket[m].pending :
            /\ socket[m].pending[i] \in SockIds /\ socket[m].pending[i] # s
            /\ socket[socket[m].pending[i]].used /\ socket[m].pending[i] \notin given
            /\ socket[socket[m].pending[i]].owner_pid = socket[m].owner_pid
    BY PendingFacts DEF Used, TableOK, PendingOK
  <2>2. \A m \in SockIds, k \in SockIds : \A i \in DOMAIN socket[m].pending :
            \A j \in DOMAIN socket[k].pending :
               socket[k].pending[j] = socket[m].pending[i] => k = m /\ j = i
    BY DEF TableOK, PendingOK
  <2>3. ASSUME NEW m \in SockIds, NEW i \in DOMAIN socket'[m].pending
        PROVE  /\ socket'[m].pending = socket[m].pending
               /\ socket'[m].owner_pid = socket[m].owner_pid
    <3>1. CASE m = s
      <4>1. socket'[m].pending # <<>>
        BY <2>3
      <4> QED BY <1>2, <1>3, <1>4, <3>1, <4>1
    <3>2. CASE m # s
      BY <1>6, <3>2, Zenon
    <3> QED BY <3>1, <3>2
  <2>4. ASSUME NEW m \in SockIds, NEW i \in DOMAIN socket'[m].pending
        PROVE  LET b == socket'[m].pending[i]
               IN  /\ socket'[b].used /\ b \notin given'
                   /\ socket'[b].owner_pid = socket'[m].owner_pid
                   /\ \A k \in SockIds : \A j \in DOMAIN socket'[k].pending :
                          socket'[k].pending[j] = b => k = m /\ j = i
    <3> DEFINE b == socket[m].pending[i]
    <3>1. /\ i \in DOMAIN socket[m].pending /\ socket'[m].pending[i] = b
          /\ socket'[m].owner_pid = socket[m].owner_pid
      BY <2>3, Zenon
    <3>2. /\ b \in SockIds /\ b # s /\ socket[b].used /\ b \notin given
          /\ socket[b].owner_pid = socket[m].owner_pid
      BY <2>1, <3>1, Zenon
    <3>3. socket'[b].used /\ socket'[b].owner_pid = socket[b].owner_pid
      BY <1>6, <3>2, Zenon
    <3>4. b \notin given'
      BY <1>8, <3>2, Zenon
    <3>5. ASSUME NEW k \in SockIds, NEW j \in DOMAIN socket'[k].pending,
                 socket'[k].pending[j] = b
          PROVE  k = m /\ j = i
      <4>1. socket'[k].pending = socket[k].pending
        BY <2>3, Zenon
      <4>2. j \in DOMAIN socket[k].pending /\ socket[k].pending[j] = b
        BY <3>5, <4>1, Zenon
      <4> QED BY SMTT(20), <2>2, <3>1, <4>2
    <3> QED BY <3>1, <3>2, <3>3, <3>4, <3>5, Zenon
  <2> QED BY <2>4, Zenon DEF PendingOK
<1>12. OneListener'
  <2>1. \A t \in SockIds : \/ socket'[t].path = NULL
                           \/ /\ socket'[t].path = socket[t].path
                              /\ socket'[t].used => socket[t].used
    BY <1>1, <1>2, <1>3, <1>6
  <2> QED BY <2>1, ListenStep, Zenon DEF TableOK
<1>13. \A t \in SockIds : \/ socket'[t].peer = NULL
                          \/ t # s /\ socket'[t] = socket[t]
  BY <1>2, <1>3, Zenon DEF Has
<1>14. OneSource'
  <2>1. \A t \in SockIds : \/ socket'[t].rx = <<>>
                           \/ /\ socket'[t].rx = socket[t].rx
                              /\ socket'[t].peer \in {NULL, socket[t].peer}
    BY <1>2, <1>3, <1>6, <1>13
  <2> QED BY <2>1, SourceStep, Zenon DEF TableOK
<1>15. FreeZeroed'
  <2>1. r \in SockRec /\ (~r.used => r = Zeroed)
    BY <1>3 DEF SockRec
  <2>2. \A t \in SockIds \ {s} : socket'[t].used \/ socket'[t] = socket[t]
    BY <1>2, Zenon DEF Has
  <2> QED BY <1>2, <1>6, <2>1, <2>2, Zenon DEF TableOK, FreeZeroed
<1>16. HalfClosed'
  <2>1. /\ r.peer_closed => r.peer = NULL
        /\ r.rx # <<>> => r.connected \/ r.peer_closed
    <3>1. r.peer_closed \in BOOLEAN
      BY DEF SockRec
    <3> QED BY <1>3, <3>1
  <2>2. \A t \in SockIds \ {s} : t = u => socket'[t].peer = NULL /\ socket'[t].peer_closed
    BY <1>2, Zenon DEF Has
  <2>3. \A t \in SockIds \ {s} : t # u => socket'[t] = socket[t]
    BY <1>2, Zenon
  <2> QED BY <1>2, <2>1, <2>2, <2>3, Zenon DEF TableOK, HalfClosed
<1> QED BY <1>9, <1>10, <1>11, <1>12, <1>14, <1>15, <1>16, Zenon DEF TableOK
LEMMA ShutdownInv ==
    ASSUME TableOK, NEW p \in Programs, NEW s \in SockIds, sys_shutdown(p, s)
    PROVE  TableOK'
<1>1. s \in given /\ socket[s] \in SockRec /\ socket[s].used = TRUE
  BY OwnedFacts, TypeFacts DEF sys_shutdown, TableOK, SockRec
<1> DEFINE r == [socket[s] EXCEPT !.peer_closed = TRUE, !.connected = FALSE, !.peer = NULL]
<1>2. s # socket[s].peer
  BY <1>1, PeerFacts, IdFacts
<1>3. Unlinked(s)[s] = socket[s]
  BY <1>2, Zenon DEF Unlinked
<1>4. socket' = [Unlinked(s) EXCEPT ![s] = r]
  <2>1. socket' = [Unlinked(s) EXCEPT ![s] = [Unlinked(s)[s] EXCEPT !.peer_closed = TRUE,
                                                                    !.connected = FALSE, !.peer = NULL]]
    BY Zenon DEF sys_shutdown
  <2> QED BY <1>3, <2>1, Zenon
<1>5. /\ r \in SockRec
      /\ Has(r, socket[s].used, socket[s].owner_pid, FALSE, TRUE, NULL, socket[s].listening,
             socket[s].path, socket[s].pending, socket[s].rx)
  BY <1>1, Zenon DEF SockRec, Has
<1>6. Has(r, TRUE, socket[s].owner_pid, FALSE, TRUE, NULL, socket[s].listening,
          socket[s].path, socket[s].pending, socket[s].rx)
  BY <1>1, <1>5, Zenon
<1>7. given' = given /\ alive' = alive
  BY DEF sys_shutdown
<1> HIDE DEF r
<1> QED BY <1>1, <1>4, <1>5, <1>6, <1>7, DisconnectInv, Zenon

LEMMA CloseInv ==
    ASSUME TableOK, NEW p \in Programs, NEW s \in SockIds, sys_close(p, s)
    PROVE  TableOK'
<1>1. s \in given /\ Zeroed \in SockRec
  BY OwnedFacts, ZeroedFacts DEF sys_close
<1> QED BY <1>1, DisconnectInv, Zenon DEF sys_close

\* exit and start leave the table alone.
LEMMA LifeInv ==
    ASSUME TableOK, NEW p \in Programs, exit(p) \/ start(p)
    PROVE  TableOK'
<1>1. socket' = socket /\ given' \subseteq given /\ alive' \subseteq Programs
  BY DEF exit, start, TableOK, UnixTypeOK
<1>2. socket' \in [SockIds -> SockRec]
  BY <1>1, TypeFacts DEF TableOK
<1> QED BY <1>1, <1>2, SameInv, Zenon DEF Has

\* The step of UnixNext that was taken.
UnixStep(p) ==
    \/ exit(p) \/ start(p)
    \/ \E s \in SockIds :
          \/ sys_socket(p, s) \/ sys_listen(p, s) \/ Accepts(s)
          \/ sys_shutdown(p, s) \/ sys_close(p, s)
          \/ \E u \in SockIds : sys_socketpair(p, s, u)
          \/ \E path \in Paths : sys_bind(p, s, path) \/ sys_connect(p, s, path)
          \/ \E len \in 1..CopyMax : sys_sendto(p, s, len) \/ sys_recvfrom(p, s, len)

LEMMA StepCases == ASSUME UnixNext PROVE \E p \in Programs : UnixStep(p)
<1>1. \A p \in Programs, s \in SockIds : sys_accept(p, s) \/ accept_fault(p, s) => Accepts(s)
  BY Zenon DEF sys_accept, accept_fault, Accepts, Owned
<1> QED BY <1>1, Zenon DEF UnixNext, UnixStep

LEMMA UnixNextInv ==
    ASSUME "reconnect" \notin Habits, TableOK, [UnixNext]_uvars
    PROVE  TableOK'
<1>1. CASE UnixNext
  <2>1. PICK p \in Programs : UnixStep(p)
    BY <1>1, StepCases, Zenon
  <2>2. CASE exit(p) \/ start(p)
    BY <2>2, LifeInv, Zenon
  <2>3. ASSUME NEW s \in SockIds, \/ sys_socket(p, s) \/ sys_listen(p, s) \/ Accepts(s)
                                  \/ sys_shutdown(p, s) \/ sys_close(p, s)
        PROVE  TableOK'
    BY <2>3, SocketInv, ListenInv, AcceptInv, ShutdownInv, CloseInv, Zenon
  <2>4. ASSUME NEW s \in SockIds, NEW u \in SockIds, sys_socketpair(p, s, u)
        PROVE  TableOK'
    BY <2>4, SocketpairInv, Zenon
  <2>5. ASSUME NEW s \in SockIds, NEW path \in Paths, sys_bind(p, s, path) \/ sys_connect(p, s, path)
        PROVE  TableOK'
    BY <2>5, BindInv, ConnectInv, Zenon
  <2>6. ASSUME NEW s \in SockIds, NEW len \in 1..CopyMax,
               sys_sendto(p, s, len) \/ sys_recvfrom(p, s, len)
        PROVE  TableOK'
    BY <2>6, SendInv, RecvInv, Zenon
  <2> QED BY <2>1, <2>2, <2>3, <2>4, <2>5, <2>6, Zenon DEF UnixStep
<1>2. CASE UNCHANGED uvars
  <2>1. socket' = socket /\ given' = given /\ alive' = alive
    BY <1>2 DEF uvars
  <2>2. socket' \in [SockIds -> SockRec] /\ alive' \subseteq Programs
    BY <2>1, TypeFacts DEF TableOK, UnixTypeOK
  <2> QED BY <2>1, <2>2, SameInv, Zenon DEF Has
<1> QED BY <1>1, <1>2, Zenon

\* poll_check_single_fd reads the flags that sendto and recvfrom go by.
LEMMA PollFacts == TableOK => PollTruth
<1> SUFFICES ASSUME TableOK, NEW s \in given
             PROVE  LET reported == poll_check(s, {"IN", "OUT"})
                    IN  /\ reported \cap {"IN", "HUP"} # {} <=>
                               socket[s].rx # <<>> \/ socket[s].peer_closed
                        /\ "OUT" \in reported <=>
                               socket[s].connected /\ Len(socket[socket[s].peer].rx) < UNIX_RX_BUF
  BY Zenon DEF PollTruth
<1> DEFINE reported == poll_check(s, {"IN", "OUT"})
           t == socket[s].peer
<1>1. s \in SockIds /\ socket[s].rx \in Seq(SockIds)
  BY TypeFacts DEF TableOK, SockRec
<1>2. Len(socket[s].rx) > 0 <=> socket[s].rx # <<>>
  BY <1>1
<1>3. /\ "IN" \in reported <=> socket[s].rx # <<>>
      /\ "HUP" \in reported <=> socket[s].peer_closed /\ socket[s].rx = <<>>
      /\ "OUT" \in reported <=> Writable(s) > 0
  BY <1>2 DEF poll_check
<1>4. Writable(s) > 0 <=> socket[s].connected /\ Len(socket[t].rx) < UNIX_RX_BUF
  <2>1. socket[s].connected <=> t # NULL
    BY <1>1 DEF TableOK, PeersOK
  <2>2. CASE t = NULL
    <3>1. Writable(s) = 0
      BY <2>2 DEF Writable
    <3> QED BY <2>1, <2>2, <3>1
  <2>3. CASE t # NULL
    <3>1. t \in SockIds /\ socket[t].used
      BY <1>1, <2>3, PeerFacts DEF Used
    <3>2. Writable(s) = UNIX_RX_BUF - Len(socket[t].rx)
      BY <2>3, <3>1 DEF Writable
    <3>3. Len(socket[t].rx) \in Nat
      BY <3>1, TypeFacts DEF TableOK, SockRec
    <3> QED BY <2>1, <2>3, <3>2, <3>3, IdFacts
  <2> QED BY <2>2, <2>3
<1> HIDE DEF reported, t
<1>5. reported \cap {"IN", "HUP"} # {} <=> "IN" \in reported \/ "HUP" \in reported
  BY Zenon
<1>6. reported \cap {"IN", "HUP"} # {} <=> socket[s].rx # <<>> \/ socket[s].peer_closed
  BY <1>3, <1>5, Zenon
<1> QED BY <1>3, <1>4, <1>6, Zenon DEF reported, t

\* Programs that do not connect a socket twice keep the table consistent, whatever
\* else they do and in whatever order: the two ends of a connection name each other,
\* accept hands out live descriptors, each to one program, a path leads to one
\* listener, the bytes of a socket have one source, a struct that socket_alloc_slot
\* finds is zeroed, and poll tells the truth.
THEOREM SocketsSafe ==
    ASSUME "reconnect" \notin Habits PROVE UnixSpec => []SocketsOK
<1>1. UnixInit => TableOK
  BY UnixInitInv
<1>2. TableOK /\ [UnixNext]_uvars => TableOK'
  BY UnixNextInv
<1>3. TableOK => SocketsOK
  BY PollFacts DEF SocketsOK
<1> QED BY <1>1, <1>2, <1>3, PTL DEF UnixSpec

----------------------------------------------------------------------------
(* The end of a stream is final. *)

\* The receive buffer of t keeps its bytes or loses some.
NoMore(t) == Len(socket'[t].rx) <= Len(socket[t].rx)

\* A struct that a call writes over was not in use and has received nothing.
LEMMA RxKept ==
    ASSUME TableOK, NEW t \in SockIds, socket'[t].rx \in {socket[t].rx, <<>>}
    PROVE  NoMore(t)
<1>1. Len(socket[t].rx) \in Nat
  BY TypeFacts DEF TableOK, SockRec
<1> QED BY <1>1 DEF NoMore

LEMMA OpenNoMore ==
    ASSUME TableOK, NEW p \in Programs, NEW s \in SockIds, NEW t \in SockIds,
           \/ sys_socket(p, s) \/ \E u \in SockIds : sys_socketpair(p, s, u)
           \/ sys_listen(p, s) \/ \E path \in Paths : sys_bind(p, s, path)
           \/ Accepts(s)
    PROVE  NoMore(t)
<1>1. socket \in [SockIds -> SockRec] /\ socket[t] \in SockRec /\ socket[s] \in SockRec
  BY TypeFacts DEF TableOK
<1>2. \A o, b : /\ NewSocket(o).rx = <<>>
                /\ [NewSocket(o) EXCEPT !.connected = TRUE, !.peer = b].rx = <<>>
  BY Zenon DEF NewSocket, Zeroed
<1>3. CASE sys_socket(p, s)
  <2>1. socket'[t] \in {socket[t], NewSocket(p)}
    BY <1>1, <1>3, Zenon DEF sys_socket
  <2> QED BY <1>2, <2>1, RxKept, Zenon
<1>4. ASSUME NEW u \in SockIds, sys_socketpair(p, s, u)
      PROVE  NoMore(t)
  <2>1. socket'[t] \in {socket[t], [NewSocket(p) EXCEPT !.connected = TRUE, !.peer = u],
                        [NewSocket(p) EXCEPT !.connected = TRUE, !.peer = s]}
    BY <1>1, <1>4, Zenon DEF sys_socketpair
  <2> QED BY <1>2, <2>1, RxKept, Zenon
<1>5. ASSUME NEW r, r.rx = socket[s].rx, socket' = [socket EXCEPT ![s] = r]
      PROVE  NoMore(t)
  <2>1. socket'[t].rx = socket[t].rx
    BY <1>1, <1>5, Zenon
  <2> QED BY <2>1, RxKept, Zenon
<1>6. \A v, w, x : /\ [socket[s] EXCEPT !.listening = v].rx = socket[s].rx
                   /\ [socket[s] EXCEPT !.path = w].rx = socket[s].rx
                   /\ [socket[s] EXCEPT !.pending = x].rx = socket[s].rx
  BY <1>1, Zenon DEF SockRec
<1>7. CASE sys_listen(p, s)
  <2>1. socket' = [socket EXCEPT ![s] = [socket[s] EXCEPT !.listening = TRUE]]
    BY <1>7, Zenon DEF sys_listen
  <2> QED BY <1>5, <1>6, <2>1, Zenon
<1>8. ASSUME NEW path \in Paths, sys_bind(p, s, path)
      PROVE  NoMore(t)
  <2>1. socket' = [socket EXCEPT ![s] = [socket[s] EXCEPT !.path = path]]
    BY <1>8, Zenon DEF sys_bind
  <2> QED BY <1>5, <1>6, <2>1, Zenon
<1>9. CASE Accepts(s)
  <2>1. socket' = [socket EXCEPT ![s] = [socket[s] EXCEPT !.pending = Tail(socket[s].pending)]]
    BY <1>9, Zenon DEF Accepts
  <2> QED BY <1>5, <1>6, <2>1, Zenon
<1> QED BY <1>3, <1>4, <1>7, <1>8, <1>9, Zenon

LEMMA ConnectNoMore ==
    ASSUME TableOK, NEW p \in Programs, NEW s \in SockIds, NEW path \in Paths, NEW t \in SockIds,
           sys_connect(p, s, path)
    PROVE  NoMore(t)
<1>1. PICK l \in SockIds, a \in SockIds :
        /\ IsLowest(l, Listeners(path)) /\ FreeSlot(a)
        /\ LET accepted == [NewSocket(socket[l].owner_pid) EXCEPT !.connected = TRUE, !.peer = s]
               room     == Len(socket[l].pending) < UNIX_PENDING_MAX - 1
               linked   == [socket EXCEPT ![a] = accepted, ![s].connected = TRUE,
                                          ![s].peer_closed = FALSE, ![s].peer = a]
           IN  \/ room /\ socket' = [linked EXCEPT ![l].pending = Append(@, a)]
               \/ ~room /\ socket' = [linked EXCEPT ![a] = Zeroed, ![s].connected = FALSE,
                                                    ![s].peer = NULL]
  BY Zenon DEF sys_connect
<1> DEFINE accepted == [NewSocket(socket[l].owner_pid) EXCEPT !.connected = TRUE, !.peer = s]
           joined   == [socket[s] EXCEPT !.connected = TRUE, !.peer_closed = FALSE, !.peer = a]
           linked   == [socket EXCEPT ![a] = accepted, ![s].connected = TRUE,
                                      ![s].peer_closed = FALSE, ![s].peer = a]
<1>2. /\ l \in Used /\ s \in Used /\ a \notin Used /\ s # a /\ l # a
      /\ socket \in [SockIds -> SockRec] /\ socket[s] \in SockRec
  BY <1>1, TypeFacts, Zenon DEF Listeners, sys_connect, Owned, Used, FreeSlot, IsLowest, TableOK
<1>3. linked = [[socket EXCEPT ![a] = accepted] EXCEPT ![s] = joined]
  <2> HIDE DEF accepted
  <2> QED BY <1>2, Zenon
<1>4. accepted.rx = <<>> /\ accepted \in SockRec
  <2>1. socket[l].owner_pid \in Programs \cup {NULL}
    BY <1>2 DEF SockRec
  <2> QED BY <2>1, NewFacts, Zenon DEF Has
<1>5. joined.rx = socket[s].rx /\ joined \in SockRec
  BY <1>2, Zenon DEF SockRec
<1> HIDE DEF accepted, joined
<1>6. /\ linked \in [SockIds -> SockRec]
      /\ \A u \in SockIds : linked[u].rx \in {socket[u].rx, <<>>}
  BY <1>2, <1>3, <1>4, <1>5, Zenon
<1> HIDE DEF linked
<1>7. \/ socket' = [linked EXCEPT ![l].pending = Append(@, a)]
      \/ socket' = [linked EXCEPT ![a] = Zeroed, ![s].connected = FALSE, ![s].peer = NULL]
  BY <1>1, Zenon DEF linked, accepted
<1>8. \A u \in SockIds : socket'[u].rx \in {linked[u].rx, <<>>}
  <2>1. CASE socket' = [linked EXCEPT ![l].pending = Append(@, a)]
    BY <1>6, <2>1 DEF SockRec
  <2>2. CASE socket' = [linked EXCEPT ![a] = Zeroed, ![s].connected = FALSE, ![s].peer = NULL]
    <3>1. Zeroed.rx = <<>> /\ Zeroed \in SockRec
      BY ZeroedFacts DEF Has
    <3> DEFINE cut == [linked[s] EXCEPT !.connected = FALSE, !.peer = NULL]
    <3>2. cut.rx = linked[s].rx
      BY <1>6, Zenon DEF SockRec
    <3>3. socket' = [[linked EXCEPT ![a] = Zeroed] EXCEPT ![s] = cut]
      BY <1>2, <1>6, <2>2, Zenon
    <3> HIDE DEF cut
    <3> QED BY <1>2, <1>6, <3>1, <3>2, <3>3, Zenon
  <2> QED BY <1>7, <2>1, <2>2, Zenon
<1>9. socket'[t].rx \in {socket[t].rx, <<>>}
  BY <1>6, <1>8, Zenon
<1> QED BY <1>9, RxKept, Zenon

LEMMA DisconnectNoMore ==
    ASSUME TableOK, NEW p \in Programs, NEW s \in SockIds, NEW t \in SockIds,
           sys_shutdown(p, s) \/ sys_close(p, s)
    PROVE  NoMore(t)
<1>1. socket \in [SockIds -> SockRec]
  BY TypeFacts DEF TableOK
<1>2. /\ DOMAIN Unlinked(s) = SockIds
      /\ \A u \in SockIds : Unlinked(s)[u].rx = socket[u].rx /\ DOMAIN Unlinked(s)[u] = DOMAIN socket[u]
  <2>1. DOMAIN Unlinked(s) = SockIds
    BY Zenon DEF Unlinked
  <2>2. ASSUME NEW u \in SockIds
        PROVE  Unlinked(s)[u].rx = socket[u].rx /\ DOMAIN Unlinked(s)[u] = DOMAIN socket[u]
    <3>1. \/ Unlinked(s)[u] = socket[u]
          \/ \E b, c, d : Unlinked(s)[u] = [socket[u] EXCEPT !.peer_closed = b, !.peer = c,
                                                            !.connected = d]
      BY Zenon DEF Unlinked
    <3>2. ASSUME NEW b, NEW c, NEW d,
                 Unlinked(s)[u] = [socket[u] EXCEPT !.peer_closed = b, !.peer = c, !.connected = d]
          PROVE  Unlinked(s)[u].rx = socket[u].rx /\ DOMAIN Unlinked(s)[u] = DOMAIN socket[u]
      <4> DEFINE r == [socket[u] EXCEPT !.peer_closed = b, !.peer = c, !.connected = d]
      <4>1. r.rx = socket[u].rx /\ DOMAIN r = DOMAIN socket[u]
        <5>1. socket[u] \in SockRec
          BY <1>1, Zenon
        <5> QED BY <5>1, Zenon DEF SockRec
      <4>2. Unlinked(s)[u] = r
        BY <3>2, Zenon
      <4> HIDE DEF r
      <4> QED BY <4>1, <4>2, Zenon
    <3> QED BY <3>1, <3>2, Zenon
  <2> QED BY <2>1, <2>2, Zenon
<1>3. Zeroed.rx = <<>>
  BY ZeroedFacts, Zenon DEF Has
<1>4. socket'[t].rx \in {socket[t].rx, <<>>}
  <2>1. CASE sys_close(p, s)
    BY <1>2, <1>3, <2>1, Zenon DEF sys_close
  <2>2. CASE sys_shutdown(p, s)
    <3> DEFINE r == [Unlinked(s)[s] EXCEPT !.peer_closed = TRUE, !.connected = FALSE, !.peer = NULL]
    <3>1. socket' = [Unlinked(s) EXCEPT ![s] = r]
      BY <2>2, Zenon DEF sys_shutdown
    <3>2. "rx" \in DOMAIN Unlinked(s)[s]
      BY <1>1, <1>2, Zenon DEF SockRec
    <3>3. r.rx = Unlinked(s)[s].rx
      BY <3>2, Zenon
    <3> HIDE DEF r
    <3> QED BY <1>2, <3>1, <3>3, Zenon
  <2> QED BY <2>1, <2>2, Zenon
<1> QED BY <1>4, RxKept, Zenon

\* Whom sendto reaches has a peer, so its stream has not ended.
LEMMA CopyNoMore ==
    ASSUME TableOK, NEW p \in Programs, NEW s \in SockIds, NEW len \in 1..CopyMax,
           NEW t \in SockIds, socket[t].peer_closed,
           sys_sendto(p, s, len) \/ sys_recvfrom(p, s, len)
    PROVE  NoMore(t)
<1>1. socket \in [SockIds -> SockRec]
  BY TypeFacts DEF TableOK
<1>2. CASE sys_sendto(p, s, len)
  <2> DEFINE u == socket[s].peer
  <2>1. u # NULL /\ \E x : socket' = [socket EXCEPT ![u].rx = x]
    BY <1>2, Zenon DEF sys_sendto
  <2>2. u # t
    BY <2>1, PeerFacts
  <2>3. socket'[t] = socket[t]
    BY <1>1, <2>1, <2>2, Zenon
  <2> QED BY <2>3, RxKept, Zenon
<1>3. CASE sys_recvfrom(p, s, len)
  <2> DEFINE old == socket[s].rx
             n   == Cut(len, Len(old))
  <2>1. old \in Seq(SockIds) /\ Len(old) \in Nat
    BY <1>1 DEF SockRec
  <2>2. n \in 1..Len(old) \/ Len(old) = 0
    BY <2>1 DEF Cut
  <2>3. old # <<>> /\ socket' = [socket EXCEPT ![s].rx = SubSeq(old, n + 1, Len(old))]
    BY <1>3, Zenon DEF sys_recvfrom
  <2> HIDE DEF n
  <2>4. Len(SubSeq(old, n + 1, Len(old))) <= Len(old)
    BY <2>1, <2>2, <2>3
  <2> HIDE DEF old
  <2>5. CASE t = s
    <3>1. socket'[t].rx = SubSeq(old, n + 1, Len(old))
      <4>1. socket'[s] = [socket[s] EXCEPT !.rx = SubSeq(old, n + 1, Len(old))]
        BY <1>1, <2>3, Zenon
      <4> QED BY <1>1, <2>5, <4>1, Zenon DEF SockRec
    <3> QED BY <2>4, <2>5, <3>1, Zenon DEF NoMore, old
  <2>6. CASE t # s
    <3>1. socket'[t] = socket[t]
      BY <1>1, <2>3, <2>6, Zenon
    <3> QED BY <3>1, RxKept, Zenon
  <2> QED BY <2>5, <2>6
<1> QED BY <1>2, <1>3

LEMMA NextNoMore ==
    ASSUME TableOK, UnixNext, NEW t \in SockIds, socket[t].peer_closed
    PROVE  NoMore(t)
<1>1. PICK p \in Programs : UnixStep(p)
  BY StepCases, Zenon
<1>2. CASE exit(p) \/ start(p)
  <2>1. socket' = socket
    BY <1>2, Zenon DEF exit, start
  <2> QED BY <2>1, RxKept, Zenon
<1>3. ASSUME NEW s \in SockIds,
             \/ sys_socket(p, s) \/ \E u \in SockIds : sys_socketpair(p, s, u)
             \/ sys_listen(p, s) \/ \E path \in Paths : sys_bind(p, s, path)
             \/ Accepts(s)
      PROVE  NoMore(t)
  BY <1>3, OpenNoMore, Zenon
<1>4. ASSUME NEW s \in SockIds, sys_shutdown(p, s) \/ sys_close(p, s)
      PROVE  NoMore(t)
  BY <1>4, DisconnectNoMore, Zenon
<1>5. ASSUME NEW s \in SockIds, NEW path \in Paths, sys_connect(p, s, path)
      PROVE  NoMore(t)
  BY <1>5, ConnectNoMore, Zenon
<1>6. ASSUME NEW s \in SockIds, NEW len \in 1..CopyMax,
             sys_sendto(p, s, len) \/ sys_recvfrom(p, s, len)
      PROVE  NoMore(t)
  BY <1>6, CopyNoMore, Zenon
<1> QED BY <1>1, <1>2, <1>3, <1>4, <1>5, <1>6, Zenon DEF UnixStep

\* Once close or shutdown has ended a stream, no byte arrives at its other end: the
\* peer is unlinked in the same call, so no sendto finds the way to it any more.
THEOREM EofIsFinal ==
    ASSUME "reconnect" \notin Habits PROVE UnixSpec => EofFinal
<1>1. UnixInit => TableOK
  BY UnixInitInv
<1>2. TableOK /\ [UnixNext]_uvars => TableOK'
  BY UnixNextInv
<1>3. TableOK /\ [UnixNext]_uvars =>
          [\A s \in SockIds :
              socket[s].peer_closed => Len(socket'[s].rx) <= Len(socket[s].rx)]_uvars
  BY NextNoMore, Zenon DEF NoMore
<1> QED BY <1>1, <1>2, <1>3, PTL DEF UnixSpec, EofFinal

=============================================================================
