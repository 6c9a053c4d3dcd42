---------------------------- MODULE UnixSockets ----------------------------
(***************************************************************************)
(* AF_UNIX stream sockets of syscall.c: one table for all processes, the   *)
(* descriptor of a socket is its index in the table and belongs to the     *)
(* process whose pid is in it.  Each call runs with interrupts off and     *)
(* never waits, so each is one step.  A call that only fails is left out.  *)
(*                                                                         *)
(* given and alive are about the programs, not the table: the descriptors  *)
(* that calls have returned to a program that still runs.  A program uses  *)
(* no others.  ByteRing and GapRing show that the two rings of a socket    *)
(* are the sequences they are here.                                        *)
(***************************************************************************)
EXTENDS Integers, Sequences, FiniteSets

CONSTANTS
    SOCKET_MAX,        \* sockets in the table
    UNIX_PENDING_MAX,  \* slots of a pending ring, one of which stays empty
    UNIX_RX_BUF,       \* bytes in a receive buffer
    CopyMax,           \* bytes that one sendto or recvfrom copies
    Programs, Paths,
    NULL,              \* no peer, no path
    Habits             \* what programs do beyond the usual: "exit" with sockets open,
                       \* "drop" a listener with connections pending, pass accept an
                       \* address that faults ("fault"), "reconnect" a socket

ASSUME UnixAssumption ==
    /\ SOCKET_MAX \in Nat /\ UNIX_PENDING_MAX \in Nat \ {0}
    /\ UNIX_RX_BUF \in Nat /\ CopyMax \in Nat
    /\ NULL \notin Nat /\ NULL \notin Paths

VARIABLES socket, given, alive

uvars == <<socket, given, alive>>

SockIds == 0..(SOCKET_MAX - 1)

\* A zeroed struct ksocket.
Zeroed == [used |-> FALSE, owner_pid |-> NULL, connected |-> FALSE, peer_closed |-> FALSE,
           peer |-> NULL, listening |-> FALSE, path |-> NULL, pending |-> <<>>, rx |-> <<>>]

UnixInit ==
    /\ socket = [s \in SockIds |-> Zeroed]
    /\ given = {} /\ alive = Programs

Used == {s \in SockIds : socket[s].used}
IsLowest(s, S) == s \in S /\ \A t \in S : s <= t

\* socket_alloc_slot takes the first struct that is not in use.
FreeSlot(s) == IsLowest(s, SockIds \ Used)

\* What it makes of that struct.
NewSocket(owner) == [Zeroed EXCEPT !.used = TRUE, !.owner_pid = owner]

\* socket_get_owned, for a descriptor that the program has.
Owned(p, s) == p \in alive /\ s \in given /\ socket[s].used /\ socket[s].owner_pid = p

sys_socket(p, s) ==
    /\ p \in alive /\ FreeSlot(s)
    /\ socket' = [socket EXCEPT ![s] = NewSocket(p)]
    /\ given' = given \cup {s}
    /\ UNCHANGED alive

\* socketpair, and pipe, which is a socketpair.
sys_socketpair(p, a, b) ==
    /\ p \in alive /\ FreeSlot(a) /\ IsLowest(b, SockIds \ (Used \cup {a}))
    /\ socket' = [socket EXCEPT
                    ![a] = [NewSocket(p) EXCEPT !.connected = TRUE, !.peer = b],
                    ![b] = [NewSocket(p) EXCEPT !.connected = TRUE, !.peer = a]]
    /\ given' = given \cup {a, b}
    /\ UNCHANGED alive

\* Mutant of sys_bind: paths that are in use are not refused.
BindTwice(p, s, path) ==
    /\ Owned(p, s)
    /\ socket' = [socket EXCEPT ![s].path = path]
    /\ UNCHANGED <<given, alive>>

sys_bind(p, s, path) ==
    /\ Owned(p, s)
    /\ \A t \in Used : socket[t].path # path
    /\ socket' = [socket EXCEPT ![s].path = path]
    /\ UNCHANGED <<given, alive>>

sys_listen(p, s) ==
    /\ Owned(p, s) /\ socket[s].path # NULL
    /\ socket' = [socket EXCEPT ![s].listening = TRUE]
    /\ UNCHANGED <<given, alive>>

Listeners(path) == {l \in Used : socket[l].listening /\ socket[l].path = path}

\* Mutant of sys_connect: refused by a full ring, the socket keeps its peer.
ConnectKeepsPeer(p, s, path) ==
    /\ Owned(p, s)
    /\ "reconnect" \in Habits \/ (~socket[s].connected /\ ~socket[s].peer_closed)
    /\ \E l \in SockIds, a \in SockIds :
           /\ IsLowest(l, Listeners(path)) /\ FreeSlot(a)
           /\ LET accepted == [NewSocket(socket[l].owner_pid) EXCEPT
                                  !.connected = TRUE, !.peer = s]
                  room     == Len(socket[l].pending) < UNIX_PENDING_MAX - 1
                  linked   == [socket EXCEPT ![a] = accepted,
                                             ![s].connected = TRUE,
                                             ![s].peer_closed = FALSE,
                                             ![s].peer = a]
              IN  \/ room /\ socket' = [linked EXCEPT ![l].pending = Append(@, a)]
                  \/ ~room /\ socket' = [linked EXCEPT ![a] = Zeroed,
                                                       ![s].connected = FALSE]
    /\ UNCHANGED <<given, alive>>

\* The first listener with the path gets a connected socket of its owner, if its
\* pending ring has room.  Programs without the habit "reconnect" connect a
\* socket only once.
sys_connect(p, s, path) ==
    /\ Owned(p, s)
    /\ "reconnect" \in Habits \/ (~socket[s].connected /\ ~socket[s].peer_closed)
    /\ \E l \in SockIds, a \in SockIds :
           /\ IsLowest(l, Listeners(path)) /\ FreeSlot(a)
           /\ LET accepted == [NewSocket(socket[l].owner_pid) EXCEPT
                                  !.connected = TRUE, !.peer = s]
                  room     == Len(socket[l].pending) < UNIX_PENDING_MAX - 1
                  linked   == [socket EXCEPT ![a] = accepted,
                                             ![s].connected = TRUE,
                                             ![s].peer_closed = FALSE,
                                             ![s].peer = a]
              IN  \/ room /\ socket' = [linked EXCEPT ![l].pending = Append(@, a)]
                  \/ ~room /\ socket' = [linked EXCEPT ![a] = Zeroed,
                                                       ![s].connected = FALSE,
                                                       ![s].peer = NULL]
    /\ UNCHANGED <<given, alive>>

sys_accept(p, s) ==
    /\ Owned(p, s) /\ socket[s].pending # <<>>
    /\ socket' = [socket EXCEPT ![s].pending = Tail(@)]
    /\ given' = given \cup {Head(socket[s].pending)}
    /\ UNCHANGED alive

\* The copy of the address to user memory fails after the descriptor was taken.
accept_fault(p, s) ==
    /\ "fault" \in Habits
    /\ Owned(p, s) /\ socket[s].pending # <<>>
    /\ socket' = [socket EXCEPT ![s].pending = Tail(@)]
    /\ UNCHANGED <<given, alive>>

Cut(len, space) == IF len < space THEN len ELSE space

\* The bytes that arrive carry the descriptor they were sent on.
sys_sendto(p, s, len) ==
    LET peer  == socket[s].peer
        space == UNIX_RX_BUF - Len(socket[peer].rx)
    IN  /\ Owned(p, s) /\ socket[s].connected /\ peer # NULL
        /\ socket[peer].used /\ space > 0
        /\ socket' = [socket EXCEPT ![peer].rx = @ \o [i \in 1..Cut(len, space) |-> s]]
        /\ UNCHANGED <<given, alive>>

sys_recvfrom(p, s, len) ==
    LET n == Cut(len, Len(socket[s].rx))
    IN  /\ Owned(p, s) /\ socket[s].rx # <<>>
        /\ socket' = [socket EXCEPT ![s].rx = SubSeq(@, n + 1, Len(@))]
        /\ UNCHANGED <<given, alive>>

\* Mutant of Unlinked: the other end is told but keeps its peer.
ToldOnly(s) ==
    [t \in SockIds |->
        IF t = socket[s].peer /\ socket[t].used
        THEN [socket[t] EXCEPT !.peer_closed = TRUE]
        ELSE socket[t]]

\* What close and shutdown do to the socket at the other end.
Unlinked(s) ==
    [t \in SockIds |->
        IF t = socket[s].peer /\ socket[t].used
        THEN [socket[t] EXCEPT !.peer_closed = TRUE,
                               !.peer = IF @ = s THEN NULL ELSE @,
                               !.connected = @ /\ socket[t].peer # s]
        ELSE socket[t]]

sys_shutdown(p, s) ==
    /\ Owned(p, s)
    /\ socket' = [Unlinked(s) EXCEPT ![s].peer_closed = TRUE,
                                     ![s].connected = FALSE,
                                     ![s].peer = NULL]
    /\ UNCHANGED <<given, alive>>

sys_close(p, s) ==
    /\ Owned(p, s) /\ ("drop" \in Habits \/ socket[s].pending = <<>>)
    /\ socket' = [Unlinked(s) EXCEPT ![s] = Zeroed]
    /\ given' = given \ {s}
    /\ UNCHANGED alive

\* sys_exit does not look at the socket table.
exit(p) ==
    /\ "exit" \in Habits /\ p \in alive
    /\ alive' = alive \ {p}
    /\ given' = {s \in given : socket[s].owner_pid # p}
    /\ UNCHANGED socket

\* A new process gets the pid.
start(p) ==
    /\ p \notin alive
    /\ alive' = alive \cup {p}
    /\ UNCHANGED <<socket, given>>

UnixNext ==
    \E p \in Programs :
        \/ exit(p) \/ start(p)
        \/ \E s \in SockIds :
              \/ sys_socket(p, s)
              \/ \E t \in SockIds : sys_socketpair(p, s, t)
              \/ \E path \in Paths : sys_bind(p, s, path) \/ sys_connect(p, s, path)
              \/ sys_listen(p, s) \/ sys_accept(p, s) \/ accept_fault(p, s)
              \/ \E len \in 1..CopyMax : sys_sendto(p, s, len) \/ sys_recvfrom(p, s, len)
              \/ sys_shutdown(p, s) \/ sys_close(p, s)

UnixSpec == UnixInit /\ [][UnixNext]_uvars

\* unix_socket_writable.
Writable(s) ==
    LET peer == socket[s].peer
    IN  IF peer = NULL \/ ~socket[peer].used THEN 0 ELSE UNIX_RX_BUF - Len(socket[peer].rx)

\* poll_check_single_fd: which of the events poll reports, and the hangup.
poll_check(s, events) ==
    {e \in {"IN"} : "IN" \in events /\ Len(socket[s].rx) > 0}
    \cup {e \in {"OUT"} : "OUT" \in events /\ Writable(s) > 0}
    \cup {e \in {"HUP"} : socket[s].peer_closed /\ socket[s].rx = <<>>}

----------------------------------------------------------------------------
UnixTypeOK ==
    /\ socket \in [SockIds -> [used : BOOLEAN, owner_pid : Programs \cup {NULL}, connected : BOOLEAN,
                             peer_closed : BOOLEAN, peer : SockIds \cup {NULL}, listening : BOOLEAN,
                             path : Paths \cup {NULL}, pending : Seq(SockIds), rx : Seq(SockIds)]]
    /\ given \subseteq Used /\ alive \subseteq Programs
    /\ \A s \in SockIds : /\ Len(socket[s].rx) <= UNIX_RX_BUF
                          /\ Len(socket[s].pending) <= UNIX_PENDING_MAX - 1

Pending(l) == {socket[l].pending[i] : i \in DOMAIN socket[l].pending}

\* Two ends of a connection name each other, and a socket is connected exactly when
\* it has a peer: no socket keeps a descriptor of a table entry that close has
\* cleared and that another program may have been given since.
PeersOK ==
    \A s \in SockIds :
        /\ socket[s].connected <=> socket[s].peer # NULL
        /\ socket[s].peer # NULL =>
               LET t == socket[s].peer
               IN  t # s /\ socket[s].used /\ socket[t].used /\ socket[t].peer = s

\* What waits in pending rings are sockets of the listener's owner that no program
\* has been given, each in one ring and once: accept returns a live descriptor.
PendingOK ==
    \A l \in SockIds : \A i \in DOMAIN socket[l].pending :
        LET a == socket[l].pending[i]
        IN  /\ socket[a].used /\ a \notin given
            /\ socket[a].owner_pid = socket[l].owner_pid
            /\ \A m \in SockIds : \A j \in DOMAIN socket[m].pending :
                   socket[m].pending[j] = a => m = l /\ j = i

\* A path leads to one listener, whatever was bound, listened on and closed before.
OneListener ==
    \A s, t \in Used : socket[s].path = socket[t].path /\ socket[s].path # NULL => s = t

\* All bytes in a receive buffer were sent on one descriptor, the peer's as long as
\* there is one.
OneSource ==
    \A s \in SockIds : \A i \in DOMAIN socket[s].rx :
        socket[s].rx[i] = socket[s].rx[1] /\ socket[s].peer \in {NULL, socket[s].rx[1]}

\* Once the other end is closed or shut down no byte arrives any more: the end of
\* the stream that recvfrom reports is final.
EofFinal ==
    [][\A s \in SockIds :
          socket[s].peer_closed => Len(socket'[s].rx) <= Len(socket[s].rx)]_uvars

\* poll asked for everything tells the truth about a connection: something to read or
\* a hangup exactly when recvfrom would not answer -EAGAIN, POLLOUT exactly when
\* sendto would take a byte.
PollTruth ==
    \A s \in given :
        LET reported == poll_check(s, {"IN", "OUT"})
        IN  /\ reported \cap {"IN", "HUP"} # {} <=> socket[s].rx # <<>> \/ socket[s].peer_closed
            /\ "OUT" \in reported <=>
                   socket[s].connected /\ Len(socket[socket[s].peer].rx) < UNIX_RX_BUF

\* A struct that close or a refused connect has given back is zeroed: its next owner
\* finds no byte, no connection and no path in it.
FreeZeroed == \A s \in SockIds : ~socket[s].used => socket[s] = Zeroed

\* A socket whose other end is gone has no peer, and bytes are received only on a
\* connection.
HalfClosed ==
    \A s \in SockIds : /\ socket[s].peer_closed => socket[s].peer = NULL
                       /\ socket[s].rx # <<>> => socket[s].connected \/ socket[s].peer_closed

\* What every order of socket, bind, listen, connect, accept, close, shutdown and exit
\* keeps of the table that all processes share.  Without PollTruth it is inductive.
TableOK == /\ UnixTypeOK /\ PeersOK /\ PendingOK /\ OneListener /\ OneSource
           /\ FreeZeroed /\ HalfClosed
SocketsOK == TableOK /\ PollTruth

\* A socket that is connected can still reach a program: its peer has been given to
\* one or waits for accept at a listener that a program has.
NoDangling ==
    \A s \in given : socket[s].connected =>
        LET t == socket[s].peer
        IN  t \in given \/ \E l \in given : t \in Pending(l)
=============================================================================
