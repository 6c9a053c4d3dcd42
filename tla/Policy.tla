------------------------------- MODULE Policy -------------------------------
(* The kernel's side of the policy daemon: the cache of decisions          *)
(* (axiomfs/policy_ipc.c), the channel with its two message queues         *)
(* (ipc/axiomd_channel.c, ipc/msgqueue.c) and the wait for an answer.      *)
(*                                                                         *)
(* One CPU: while the kernel waits, the daemon and the timer can only run  *)
(* when the caller has interrupts on; a system call has them off. Nothing  *)
(* in the kernel calls axiomd_daemon_register yet: it is the daemon's      *)
(* action here.                                                            *)
EXTENDS Naturals, SequencesExt, FiniteSets

CONSTANTS
    Keys,        \* what a decision is about: user, group, inode and operation
    Mutating,    \* keys whose operation changes something
    Results,     \* what the daemon may answer
    InodeOf,     \* the inode of a key
    MaxEntries,  \* AXIOMFS_CACHE_MAX_ENTRIES
    Ttl,         \* time to live of an entry, in ticks
    Patience,    \* POLICY_TIMEOUT_MS, in ticks
    MaxMsgs,     \* max_messages of a queue
    MaxQueries,  \* bound of the model: query ids
    MaxTicks     \* bound of the model: the clock

ASSUME PolicyAssumption == Mutating \subseteq Keys /\ MaxEntries \in Nat \ {0}

VARIABLES
    cache,    \* the LRU list, most recent first
    channel,  \* whether the daemon is connected and alive
    k2d, d2k, \* the messages of the two queues
    query,    \* the query or ping the kernel waits for
    ids,      \* next_query_id
    now,      \* get_ticks()
    given,    \* the daemon's answers: what a key was told, and when
    told      \* the decision that policy_check_access returned last

polvars == <<cache, channel, k2d, d2k, query, ids, now, given, told>>

Idle == [key |-> "none", irq |-> TRUE]

PolicyInit ==
    /\ cache = <<>> /\ k2d = <<>> /\ d2k = <<>>
    /\ channel = [connected |-> FALSE, alive |-> FALSE]
    /\ query = Idle /\ ids = 1 /\ now = 0 /\ given = {} /\ told = Idle

axiomd_is_connected == channel.connected /\ channel.alive

-----------------------------------------------------------------------------
(* The cache. Equal keys may be in it twice, because an expired entry is   *)
(* not taken out; which of them a search of the tree meets is open.        *)

Matches(k) == {i \in DOMAIN cache : cache[i].key = k}

policy_cache_insert(C, k, r) ==
    LET entry == [key |-> k, result |-> r, expiry |-> now + Ttl]
    IN  <<entry>> \o SubSeq(C, 1, IF Len(C) >= MaxEntries THEN MaxEntries - 1 ELSE Len(C))

policy_fallback_result(k) == IF k \in Mutating THEN "deny" ELSE "default"

Tell(k, r) == told' = [key |-> k, result |-> r, at |-> now]

Hit(k, i) ==
    /\ now < cache[i].expiry
    /\ cache' = <<cache[i]>> \o RemoveAt(cache, i)
    /\ Tell(k, cache[i].result)
    /\ UNCHANGED <<k2d, query, ids>>

Miss(k, irq) ==
    /\ \/ Matches(k) = {}
       \/ \E i \in Matches(k) : now >= cache[i].expiry
    /\ ids' = ids + 1
    /\ IF Len(k2d) >= MaxMsgs
       THEN Tell(k, policy_fallback_result(k)) /\ UNCHANGED <<k2d, query>>
       ELSE /\ k2d' = Append(k2d, [type |-> "query", id |-> ids, key |-> k])
            /\ query' = [key |-> k, id |-> ids, start |-> now, irq |-> irq]
            /\ UNCHANGED told
    /\ UNCHANGED cache

\* Called only when policy_daemon_available() says so.
policy_check_access(k, irq) ==
    /\ query = Idle /\ axiomd_is_connected /\ ids <= MaxQueries
    /\ (\E i \in Matches(k) : Hit(k, i)) \/ Miss(k, irq)
    /\ UNCHANGED <<channel, d2k, now, given>>

\* No caller of the kernel invalidates or flushes yet.
policy_cache_invalidate(ino) ==
    /\ query = Idle
    /\ cache' = SelectSeq(cache, LAMBDA e : InodeOf[e.key] # ino)
    /\ UNCHANGED <<channel, k2d, d2k, query, ids, now, given, told>>

-----------------------------------------------------------------------------
(* Waiting for the answer: a loop that polls the queue until its time is   *)
(* over.                                                                   *)

InTime == now - query.start < Patience
First(type) == SelectInSeq(d2k, LAMBDA m : m.type = type)

\* Mutant: any response will do.
RecvAnyResponse ==
    LET i == First("response")
    IN  /\ query # Idle /\ query.key # "ping" /\ i # 0 /\ InTime
        /\ d2k' = RemoveAt(d2k, i)
        /\ Tell(query.key, d2k[i].result) /\ cache' = policy_cache_insert(cache, query.key, d2k[i].result)
        /\ query' = Idle
        /\ UNCHANGED <<channel, k2d, ids, now, given>>

\* A response to an earlier query is taken from the queue, and refused.
axiomd_recv_response ==
    LET i == First("response")
        m == d2k[i]
    IN  /\ query # Idle /\ query.key # "ping" /\ i # 0 /\ InTime
        /\ d2k' = RemoveAt(d2k, i)
        /\ IF m.id = query.id
           THEN Tell(query.key, m.result) /\ cache' = policy_cache_insert(cache, query.key, m.result)
           ELSE Tell(query.key, policy_fallback_result(query.key)) /\ UNCHANGED cache
        /\ query' = Idle
        /\ UNCHANGED <<channel, k2d, ids, now, given>>

recv_timeout ==
    /\ query # Idle /\ ~InTime
    /\ IF query.key = "ping" THEN channel' = [channel EXCEPT !.alive = FALSE] /\ UNCHANGED told
       ELSE Tell(query.key, policy_fallback_result(query.key)) /\ UNCHANGED channel
    /\ query' = Idle
    /\ UNCHANGED <<cache, k2d, d2k, ids, now, given>>

\* axiomd_ping waits for a RESPONSE of one byte: a pong is not looked at, and a response
\* is too big and stays where it is.
axiomd_ping(irq) ==
    /\ query = Idle /\ axiomd_is_connected /\ Len(k2d) < MaxMsgs
    /\ k2d' = Append(k2d, [type |-> "ping"])
    /\ query' = [key |-> "ping", start |-> now, irq |-> irq]
    /\ UNCHANGED <<cache, channel, d2k, ids, now, given, told>>

ping_too_big ==
    /\ query # Idle /\ query.key = "ping" /\ First("response") # 0 /\ InTime
    /\ channel' = [channel EXCEPT !.alive = FALSE]
    /\ query' = Idle
    /\ UNCHANGED <<cache, k2d, d2k, ids, now, given, told>>

-----------------------------------------------------------------------------
(* The daemon and the clock.                                               *)

MayRun == query.irq

axiomd_daemon_register ==
    /\ MayRun
    /\ channel' = [connected |-> TRUE, alive |-> TRUE]
    /\ UNCHANGED <<cache, k2d, d2k, query, ids, now, given, told>>

\* The queues keep what is in them.
axiomd_daemon_unregister ==
    /\ MayRun
    /\ channel' = [connected |-> FALSE, alive |-> FALSE]
    /\ UNCHANGED <<cache, k2d, d2k, query, ids, now, given, told>>

daemon_answers ==
    /\ MayRun /\ k2d # <<>> /\ Len(d2k) < MaxMsgs
    /\ LET m == Head(k2d)
       IN  IF m.type = "ping" THEN d2k' = Append(d2k, [type |-> "pong"]) /\ UNCHANGED given
           ELSE \E r \in Results : /\ d2k' = Append(d2k, [type |-> "response", id |-> m.id, result |-> r])
                                   /\ given' = given \cup {[key |-> m.key, result |-> r, at |-> now]}
    /\ k2d' = Tail(k2d)
    /\ UNCHANGED <<cache, channel, query, ids, now, told>>

tick ==
    /\ MayRun /\ now < MaxTicks
    /\ now' = now + 1
    /\ UNCHANGED <<cache, channel, k2d, d2k, query, ids, given, told>>

PolicyNext ==
    \/ \E k \in Keys, irq \in BOOLEAN : policy_check_access(k, irq)
    \/ \E k \in Keys : policy_cache_invalidate(InodeOf[k])
    \/ \E irq \in BOOLEAN : axiomd_ping(irq)
    \/ axiomd_recv_response \/ recv_timeout \/ ping_too_big
    \/ axiomd_daemon_register \/ axiomd_daemon_unregister \/ daemon_answers \/ tick

PolicySpec == PolicyInit /\ [][PolicyNext]_polvars

-----------------------------------------------------------------------------

\* What policy_check_access returns is the fallback or an answer that the daemon gave to
\* this very question, and an answer from the cache is not older than its time to live
\* and the longest wait: late responses after a time-out, responses left over from before
\* a reconnection and duplicate entries do not mix questions up. The cache is never
\* larger than its limit.
DecisionsOK ==
    /\ Len(cache) <= MaxEntries
    /\ told = Idle \/ told.result = policy_fallback_result(told.key)
       \/ \E g \in given : /\ g.key = told.key /\ g.result = told.result
                           /\ told.at < g.at + Ttl + Patience
=============================================================================
