-------------------------- MODULE SchedulerProofs --------------------------
(* Proofs about Scheduler, for every number of processes, time slice, tick *)
(* length and set of timeouts.                                             *)
EXTENDS Scheduler, TLAPS

----------------------------------------------------------------------------
(* Lists.                                                                  *)

\* Every link of the list s is a different process.
Injective(s) == \A i, j \in DOMAIN s : s[i] = s[j] => i = j

\* list_add_tail of an unlinked process.
LEMMA AppendList ==
    ASSUME NEW S, NEW s \in Seq(S), NEW p \in S, Injective(s), p \notin Elements(s)
    PROVE  /\ Append(s, p) \in Seq(S)
           /\ Injective(Append(s, p))
           /\ Elements(Append(s, p)) = Elements(s) \cup {p}
           /\ Len(Append(s, p)) = Len(s) + 1
           /\ Append(s, p) # <<>>
<1> DEFINE t == Append(s, p)
<1>1. /\ t \in Seq(S) /\ Len(t) = Len(s) + 1
      /\ \A i \in 1..Len(s) : t[i] = s[i]
      /\ t[Len(s) + 1] = p
  OBVIOUS
<1>2. Len(s) \in Nat /\ DOMAIN s = 1..Len(s) /\ DOMAIN t = 1..(Len(s) + 1)
  BY <1>1
<1>3. Injective(t)
  BY <1>1, <1>2 DEF Injective, Elements
<1>4. Elements(t) = Elements(s) \cup {p}
  BY <1>1, <1>2 DEF Elements
<1> QED BY <1>1, <1>2, <1>3, <1>4

\* list_del of a linked process.
LEMMA UnlinkList ==
    ASSUME NEW S, NEW s \in Seq(S), NEW p, Injective(s), p \in Elements(s)
    PROVE  /\ Unlink(s, p) \in Seq(S)
           /\ Injective(Unlink(s, p))
           /\ Elements(Unlink(s, p)) = Elements(s) \ {p}
           /\ Len(Unlink(s, p)) = Len(s) - 1
<1> DEFINE i == CHOOSE i \in DOMAIN s : s[i] = p
           t == [k \in 1..(Len(s) - 1) |-> IF k < i THEN s[k] ELSE s[k + 1]]
<1>1. i \in DOMAIN s /\ s[i] = p
  BY DEF Elements
<1>2. Len(s) \in Nat /\ DOMAIN s = 1..Len(s) /\ i \in 1..Len(s)
  BY <1>1
<1>5. Unlink(s, p) = t
  BY DEF Unlink
<1> HIDE DEF i
<1>3. t \in [1..(Len(s) - 1) -> S]
  <2>1. \A k \in 1..(Len(s) - 1) : k \in 1..Len(s) /\ k + 1 \in 1..Len(s)
    BY <1>2
  <2>2. \A k \in 1..Len(s) : s[k] \in S
    BY <1>2
  <2> QED BY <2>1, <2>2
<1>4. t \in Seq(S) /\ Len(t) = Len(s) - 1
  <2>1. Len(s) - 1 \in Nat
    BY <1>2
  <2> QED BY <1>3, <2>1
<1>6. \A k \in 1..(Len(s) - 1) : t[k] = IF k < i THEN s[k] ELSE s[k + 1]
  OBVIOUS
<1> HIDE DEF t
<1>7. DOMAIN t = 1..(Len(s) - 1)
  BY <1>3
<1>8. Injective(t)
  <2> SUFFICES ASSUME NEW k \in 1..(Len(s) - 1), NEW l \in 1..(Len(s) - 1), t[k] = t[l]
               PROVE  k = l
    BY <1>7 DEF Injective
  <2> DEFINE K == IF k < i THEN k ELSE k + 1
             L == IF l < i THEN l ELSE l + 1
  <2>1. K \in 1..Len(s) /\ L \in 1..Len(s) /\ (K = L => k = l)
    BY <1>2
  <2>2. t[k] = s[K] /\ t[l] = s[L]
    BY <1>6
  <2> QED BY <1>2, <2>1, <2>2, Zenon DEF Injective
<1>9. Elements(t) = Elements(s) \ {p}
  <2>1. ASSUME NEW x \in Elements(t) PROVE x \in Elements(s) \ {p}
    <3>1. PICK k \in 1..(Len(s) - 1) : x = t[k]
      BY <1>7 DEF Elements
    <3> DEFINE j == IF k < i THEN k ELSE k + 1
    <3>2. j \in 1..Len(s) /\ j # i
      BY <1>2
    <3>3. x = s[j]
      BY <1>6, <3>1
    <3> HIDE DEF j
    <3>4. s[j] # s[i]
      BY <1>2, <3>2 DEF Injective
    <3> QED BY <1>1, <1>2, <3>2, <3>3, <3>4 DEF Elements
  <2>2. ASSUME NEW x \in Elements(s) \ {p} PROVE x \in Elements(t)
    <3>1. PICK k \in 1..Len(s) : s[k] = x /\ k # i
      BY <1>1, <1>2 DEF Elements
    <3>2. CASE k < i
      BY <1>2, <1>6, <1>7, <3>1, <3>2 DEF Elements
    <3>3. CASE k > i
      <4>1. k - 1 \in DOMAIN t /\ t[k - 1] = x
        BY <1>2, <1>6, <1>7, <3>1, <3>3
      <4> QED BY <4>1 DEF Elements
    <3> QED BY <1>2, <3>1, <3>2, <3>3
  <2> QED BY <2>1, <2>2
<1> QED BY <1>4, <1>5, <1>8, <1>9

\* Appending one list to another with which it shares no process.
LEMMA ConcatList ==
    ASSUME NEW S, NEW s \in Seq(S), NEW t \in Seq(S), Injective(s), Injective(t),
           Elements(s) \cap Elements(t) = {}
    PROVE  /\ s \o t \in Seq(S)
           /\ Injective(s \o t)
           /\ Elements(s \o t) = Elements(s) \cup Elements(t)
           /\ Len(s \o t) = Len(s) + Len(t)
<1> DEFINE u == s \o t
           m == Len(s)
           n == Len(t)
<1>1. m \in Nat /\ n \in Nat /\ DOMAIN s = 1..m /\ DOMAIN t = 1..n
  OBVIOUS
<1>2. /\ u \in Seq(S) /\ Len(u) = m + n
      /\ \A k \in 1..(m + n) : u[k] = IF k <= m THEN s[k] ELSE t[k - m]
  OBVIOUS
<1>3. DOMAIN u = 1..(m + n)
  BY <1>2
<1> HIDE DEF u, m, n
<1>4. \A k \in 1..(m + n) : \/ k \in 1..m /\ u[k] = s[k] /\ u[k] \in Elements(s)
                            \/ k - m \in 1..n /\ u[k] = t[k - m] /\ u[k] \in Elements(t)
  <2> TAKE k \in 1..(m + n)
  <2>1. CASE k <= m
    <3>1. k \in 1..m /\ u[k] = s[k]
      BY <1>1, <1>2, <2>1
    <3>2. s[k] \in Elements(s)
      BY <1>1, <3>1 DEF Elements
    <3> QED BY <3>1, <3>2
  <2>2. CASE ~(k <= m)
    <3>1. k - m \in 1..n /\ u[k] = t[k - m]
      BY <1>1, <1>2, <2>2
    <3>2. t[k - m] \in Elements(t)
      BY <1>1, <3>1 DEF Elements
    <3> QED BY <3>1, <3>2
  <2> QED BY <2>1, <2>2
<1>5. Injective(u)
  <2> SUFFICES ASSUME NEW k \in 1..(m + n), NEW l \in 1..(m + n), u[k] = u[l]
               PROVE  k = l
    BY <1>3 DEF Injective
  <2>1. CASE k \in 1..m /\ l \in 1..m /\ u[k] = s[k] /\ u[l] = s[l]
    BY <1>1, <2>1, Zenon DEF Injective
  <2>2. CASE k - m \in 1..n /\ l - m \in 1..n /\ u[k] = t[k - m] /\ u[l] = t[l - m]
    <3>1. k - m = l - m
      BY <1>1, <2>2, Zenon DEF Injective
    <3> QED BY <1>1, <3>1
  <2> QED BY <1>4, <2>1, <2>2
<1>6. Elements(u) = Elements(s) \cup Elements(t)
  <2>1. Elements(u) \subseteq Elements(s) \cup Elements(t)
    BY <1>3, <1>4 DEF Elements
  <2>2. ASSUME NEW x \in Elements(s) PROVE x \in Elements(u)
    BY <1>1, <1>2, <1>3 DEF Elements
  <2>3. ASSUME NEW x \in Elements(t) PROVE x \in Elements(u)
    <3>1. PICK l \in 1..n : t[l] = x
      BY <1>1 DEF Elements
    <3>2. m + l \in 1..(m + n) /\ ~(m + l <= m) /\ (m + l) - m = l
      BY <1>1
    <3>3. u[m + l] = x
      BY <1>2, <3>1, <3>2
    <3> QED BY <1>3, <3>2, <3>3 DEF Elements
  <2> QED BY <2>1, <2>2, <2>3
<1> QED BY <1>2, <1>5, <1>6 DEF u, m, n

\* Some of the links of a list, in list order, are again a list.
LEMMA InOrderList ==
    ASSUME NEW s \in Seq(Slots), Injective(s), NEW E \in SUBSET Elements(s),
           NEW t \in InOrderOf(s, E)
    PROVE  t \in Seq(Slots) /\ Injective(t) /\ Elements(t) = E
<1>1. E \subseteq Slots
  BY DEF Elements
<1>2. PICK n \in 0..Len(s) :
          /\ t \in [1..n -> E]
          /\ \A p \in E : \E i \in 1..n : t[i] = p
          /\ \A i, j \in 1..n : i < j => Before(s, t[i], t[j])
  BY DEF InOrderOf
<1>3. n \in Nat
  BY <1>2
<1>4. t \in Seq(Slots) /\ DOMAIN t = 1..n
  BY <1>1, <1>2, <1>3
<1>5. Elements(t) = E
  BY <1>2 DEF Elements
<1>6. \A i, j \in 1..n : i < j => t[i] # t[j]
  BY <1>2 DEF Before, Injective
<1>7. \A i, j \in 1..n : t[i] = t[j] => i = j
  BY <1>3, <1>6
<1> QED BY <1>4, <1>5, <1>7 DEF Injective

\* list_add_tail, appending a list, and list_del change the order of nothing
\* that was linked before.
LEMMA AppendOrder ==
    ASSUME NEW s \in Seq(Slots), NEW p \in Slots, p \notin Elements(s)
    PROVE  KeepsOrder(s, Append(s, p))
<1> SUFFICES ASSUME NEW x \in Elements(s), NEW y \in Slots, Before(Append(s, p), y, x)
             PROVE  Before(s, y, x)
  BY DEF KeepsOrder
<1> DEFINE t == Append(s, p)
           m == Len(s)
<1>1. /\ m \in Nat /\ DOMAIN s = 1..m /\ DOMAIN t = 1..(m + 1)
      /\ \A i \in 1..m : t[i] = s[i]
      /\ t[m + 1] = p
  OBVIOUS
<1>2. PICK i \in DOMAIN t, j \in DOMAIN t : i < j /\ t[i] = y /\ t[j] = x
  BY DEF Before
<1> HIDE DEF t, m
<1>3. j # m + 1
  BY <1>1, <1>2
<1>4. i \in 1..m /\ j \in 1..m
  BY <1>1, <1>2, <1>3
<1> QED BY <1>1, <1>2, <1>4 DEF Before

LEMMA ConcatOrder ==
    ASSUME NEW s \in Seq(Slots), NEW t \in Seq(Slots), Elements(s) \cap Elements(t) = {}
    PROVE  KeepsOrder(s, s \o t)
<1> SUFFICES ASSUME NEW x \in Elements(s), NEW y \in Slots, Before(s \o t, y, x)
             PROVE  Before(s, y, x)
  BY DEF KeepsOrder
<1> DEFINE u == s \o t
           m == Len(s)
           n == Len(t)
<1>1. m \in Nat /\ n \in Nat /\ DOMAIN s = 1..m /\ DOMAIN t = 1..n
  OBVIOUS
<1>2. /\ DOMAIN u = 1..(m + n)
      /\ \A k \in 1..(m + n) : u[k] = IF k <= m THEN s[k] ELSE t[k - m]
  OBVIOUS
<1>3. PICK i \in DOMAIN u, j \in DOMAIN u : i < j /\ u[i] = y /\ u[j] = x
  BY DEF Before
<1> HIDE DEF u, m, n
<1>4. j <= m
  <2>1. ASSUME ~(j <= m) PROVE FALSE
    <3>1. j - m \in 1..n /\ x = t[j - m]
      BY <1>1, <1>2, <1>3, <2>1
    <3>2. x \in Elements(t)
      BY <1>1, <3>1 DEF Elements
    <3> QED BY <3>2
  <2> QED BY <2>1
<1>5. i \in 1..m /\ j \in 1..m
  BY <1>1, <1>2, <1>3, <1>4
<1>6. s[i] = y /\ s[j] = x
  BY <1>1, <1>2, <1>3, <1>5
<1> QED BY <1>1, <1>3, <1>5, <1>6 DEF Before

LEMMA UnlinkOrder ==
    ASSUME NEW s \in Seq(Slots), NEW p \in Elements(s)
    PROVE  KeepsOrder(s, Unlink(s, p))
<1> SUFFICES ASSUME NEW x \in Elements(s), NEW y \in Slots, Before(Unlink(s, p), y, x)
             PROVE  Before(s, y, x)
  BY DEF KeepsOrder
<1> DEFINE n == CHOOSE i \in DOMAIN s : s[i] = p
           t == [k \in 1..(Len(s) - 1) |-> IF k < n THEN s[k] ELSE s[k + 1]]
<1>1. Unlink(s, p) = t
  BY DEF Unlink
<1>2. Len(s) \in Nat /\ DOMAIN s = 1..Len(s) /\ n \in 1..Len(s)
  BY DEF Elements
<1> HIDE DEF n
<1>3. PICK i \in 1..(Len(s) - 1), j \in 1..(Len(s) - 1) : i < j /\ t[i] = y /\ t[j] = x
  BY <1>1 DEF Before
<1> DEFINE I == IF i < n THEN i ELSE i + 1
           J == IF j < n THEN j ELSE j + 1
<1>4. I \in 1..Len(s) /\ J \in 1..Len(s) /\ I < J
  BY <1>2, <1>3
<1>5. s[I] = y /\ s[J] = x
  BY <1>3
<1> HIDE DEF I, J
<1> QED BY <1>2, <1>4, <1>5 DEF Before

----------------------------------------------------------------------------
(* The run queue.                                                          *)

\* r is a run queue that holds exactly the processes in R.
GoodQueue(r, R) ==
    /\ r \in [queue : Seq(Slots), nr_running : Nat, bit : BOOLEAN]
    /\ Injective(r.queue)
    /\ Elements(r.queue) = R
    /\ r.nr_running = Len(r.queue)
    /\ r.bit <=> r.queue # <<>>

\* rr_enqueue of an unlinked process adds it to the queue.
LEMMA EnqueueGood ==
    ASSUME NEW r, NEW R, GoodQueue(r, R), NEW p \in Slots, p \notin R
    PROVE  GoodQueue(rr_enqueue(r, p), R \cup {p})
<1> DEFINE t == Append(r.queue, p)
<1>1. /\ t \in Seq(Slots) /\ Injective(t) /\ Elements(t) = R \cup {p}
      /\ Len(t) = Len(r.queue) + 1 /\ t # <<>>
  BY AppendList DEF GoodQueue
<1>2. rr_enqueue(r, p) = [queue |-> t, nr_running |-> r.nr_running + 1, bit |-> TRUE]
  BY DEF rr_enqueue, GoodQueue
<1>3. r.nr_running + 1 \in Nat
  BY DEF GoodQueue
<1> HIDE DEF t
<1> QED BY <1>1, <1>2, <1>3 DEF GoodQueue

\* rr_dequeue of a linked process removes it from the queue.
LEMMA DequeueGood ==
    ASSUME NEW r, NEW R, GoodQueue(r, R), NEW p \in R
    PROVE  GoodQueue(rr_dequeue(r, p), R \ {p})
<1> DEFINE t == Unlink(r.queue, p)
<1>1. /\ t \in Seq(Slots) /\ Injective(t) /\ Elements(t) = R \ {p}
      /\ Len(t) = Len(r.queue) - 1
  BY UnlinkList DEF GoodQueue
<1>2. r.queue # <<>> /\ Len(r.queue) \in Nat \ {0}
  BY DEF GoodQueue, Elements
<1>3. rr_dequeue(r, p) = [queue |-> t, nr_running |-> r.nr_running - 1, bit |-> t # <<>>]
  BY <1>2 DEF rr_dequeue, GoodQueue
<1>4. r.nr_running - 1 \in Nat /\ r.nr_running - 1 = Len(t)
  BY <1>1, <1>2 DEF GoodQueue
<1> HIDE DEF t
<1>5. CASE t = <<>>
  <2>1. rr_dequeue(r, p) = [queue |-> t, nr_running |-> r.nr_running - 1, bit |-> FALSE]
    BY <1>3, <1>5, Zenon
  <2> QED BY <1>1, <1>4, <1>5, <2>1 DEF GoodQueue
<1>6. CASE t # <<>>
  <2>1. rr_dequeue(r, p) = [queue |-> t, nr_running |-> r.nr_running - 1, bit |-> TRUE]
    BY <1>3, <1>6, Zenon
  <2> QED BY <1>1, <1>4, <1>6, <2>1 DEF GoodQueue
<1> QED BY <1>5, <1>6

\* rr_pick_next returns a queued process, or idle when there is none.
LEMMA PickGood ==
    ASSUME NEW r, NEW R, GoodQueue(r, R)
    PROVE  \/ R = {} /\ r.queue = <<>> /\ rr_pick_next(r) = Idle
           \/ rr_pick_next(r) \in R
<1>1. CASE r.queue = <<>>
  BY <1>1 DEF GoodQueue, rr_pick_next, Elements
<1>2. CASE r.queue # <<>>
  <2>1. Len(r.queue) \in Nat \ {0} /\ 1 \in DOMAIN r.queue /\ Head(r.queue) = r.queue[1]
    BY <1>2 DEF GoodQueue
  <2> QED BY <1>2, <2>1 DEF GoodQueue, rr_pick_next, Elements
<1> QED BY <1>1, <1>2

\* schedule() keeps the run queue equal to the set of READY processes, runs one
\* of them if there is any, and changes no state but READY and RUNNING.
LEMMA ScheduleGood ==
    ASSUME NEW st \in [Slots -> States],
           NEW r, NEW sl \in [Slots -> 0..TimeSlice],
           curr \in Slots \cup {Idle},
           GoodQueue(r, {p \in Slots : st[p] = "READY"}),
           \A p \in Slots : st[p] = "RUNNING" => p = curr,
           schedule(st, r, sl)
    PROVE  /\ state' \in [Slots -> States]
           /\ curr' \in Slots \cup {Idle}
           /\ slice' \in [Slots -> 0..TimeSlice]
           /\ GoodQueue(rq', {p \in Slots : state'[p] = "READY"})
           /\ \A p \in Slots : state'[p] = "RUNNING" <=> p = curr'
           /\ curr' # Idle => slice'[curr'] > 0
           /\ curr' = Idle => rq'.queue = <<>>
           /\ KeepsOrder(r.queue, rq'.queue)
           /\ \A p \in Slots : \/ state'[p] = st[p]
                               \/ /\ st[p] \in {"READY", "RUNNING"}
                                  /\ state'[p] \in {"READY", "RUNNING"}
<1> DEFINE park == curr # Idle /\ st[curr] = "RUNNING"
           st1  == IF park THEN [st EXCEPT ![curr] = "READY"] ELSE st
           r1   == IF park THEN rr_enqueue(r, curr) ELSE r
           pick == rr_pick_next(r1)
           R1   == {p \in Slots : st1[p] = "READY"}
<1>1. /\ st1 \in [Slots -> States]
      /\ \A p \in Slots : st1[p] # "RUNNING"
      /\ \A p \in Slots : \/ st1[p] = st[p]
                          \/ st[p] = "RUNNING" /\ st1[p] = "READY"
  BY SchedulerAssumption DEF States
<1>2. GoodQueue(r1, R1)
  <2>1. CASE park
    <3>1. curr \in Slots /\ R1 = {p \in Slots : st[p] = "READY"} \cup {curr}
      BY <2>1
    <3>2. curr \notin {p \in Slots : st[p] = "READY"}
      BY <2>1
    <3> QED BY <2>1, <3>1, <3>2, EnqueueGood
  <2>2. CASE ~park
    BY <2>2, Zenon
  <2> QED BY <2>1, <2>2
<1>6. /\ r.queue \in Seq(Slots) /\ KeepsOrder(r.queue, r1.queue)
      /\ Elements(r.queue) \subseteq Elements(r1.queue)
  <2>1. /\ r.queue \in Seq(Slots) /\ Elements(r.queue) = {p \in Slots : st[p] = "READY"}
        /\ Injective(r.queue)
    BY DEF GoodQueue
  <2>2. CASE park
    <3>1. curr \in Slots /\ curr \notin Elements(r.queue)
      BY <2>1, <2>2
    <3>2. r1.queue = Append(r.queue, curr)
      BY <2>2, <3>1 DEF rr_enqueue
    <3> HIDE DEF r1
    <3>3. Elements(Append(r.queue, curr)) = Elements(r.queue) \cup {curr}
      BY <2>1, <3>1, AppendList
    <3> QED BY <2>1, <3>1, <3>2, <3>3, AppendOrder
  <2>3. CASE ~park
    BY <2>1, <2>3 DEF KeepsOrder
  <2> QED BY <2>1, <2>2, <2>3
<1> HIDE DEF park, R1
<1>3. \/ R1 = {} /\ r1.queue = <<>> /\ pick = Idle
      \/ pick \in R1
  BY <1>2, PickGood
<1>4. CASE pick = Idle
  <2>1. R1 = {} /\ r1.queue = <<>>
    BY <1>3, <1>4, SchedulerAssumption, SMTT(30) DEF R1
  <2>2. curr' = Idle /\ rq' = r1 /\ state' = st1 /\ slice' = sl
    BY <1>4 DEF schedule, park
  <2> QED BY <1>1, <1>2, <1>6, <2>1, <2>2, SchedulerAssumption DEF R1
<1>5. CASE pick # Idle
  <2>1. pick \in Slots /\ st1[pick] = "READY" /\ pick \in R1
    BY <1>3, <1>5 DEF R1
  <2>2. /\ curr' = pick /\ rq' = rr_dequeue(r1, pick)
        /\ state' = [st1 EXCEPT ![pick] = "RUNNING"]
        /\ slice' = IF sl[pick] <= 0 THEN [sl EXCEPT ![pick] = TimeSlice] ELSE sl
    BY <1>5, <2>1, Zenon DEF schedule, park
  <2> HIDE DEF st1, r1, pick
  <2>3. GoodQueue(rq', R1 \ {pick})
    BY <1>2, <2>1, <2>2, DequeueGood
  <2>4. /\ state' \in [Slots -> States]
        /\ {p \in Slots : state'[p] = "READY"} = R1 \ {pick}
        /\ \A p \in Slots : state'[p] = "RUNNING" <=> p = pick
    BY <1>1, <2>1, <2>2 DEF R1, States
  <2>5. slice' \in [Slots -> 0..TimeSlice] /\ slice'[pick] > 0
    <3>1. TimeSlice \in 0..TimeSlice /\ TimeSlice > 0 /\ sl[pick] \in 0..TimeSlice
      BY <2>1, SchedulerAssumption
    <3> QED BY <2>1, <2>2, <3>1
  <2>6. \A p \in Slots : \/ state'[p] = st[p]
                         \/ /\ st[p] \in {"READY", "RUNNING"}
                            /\ state'[p] \in {"READY", "RUNNING"}
    BY <1>1, <2>1, <2>2
  <2>7. KeepsOrder(r.queue, rq'.queue)
    <3>1. r1.queue \in Seq(Slots) /\ pick \in Elements(r1.queue)
      BY <1>2, <2>1 DEF GoodQueue
    <3>2. rq'.queue = Unlink(r1.queue, pick)
      BY <2>2, <3>1 DEF rr_dequeue
    <3>3. KeepsOrder(r1.queue, rq'.queue)
      BY <3>1, <3>2, UnlinkOrder
    <3> QED BY <1>6, <3>3 DEF KeepsOrder
  <2> QED BY <1>5, <2>1, <2>2, <2>3, <2>4, <2>5, <2>6, <2>7, Zenon
<1> QED BY <1>4, <1>5

----------------------------------------------------------------------------
(* SchedulerOK is inductive.                                               *)

Ready(st) == {p \in Slots : st[p] = "READY"}

\* RunQueueOK is GoodQueue of the READY processes.
LEMMA RunQueueGood ==
    ASSUME rq \in [queue : Seq(Slots), nr_running : Nat, bit : BOOLEAN]
    PROVE  RunQueueOK <=> GoodQueue(rq, Ready(state))
<1>1. Elements(rq.queue) \subseteq Slots
  BY DEF Elements
<1> QED BY <1>1 DEF RunQueueOK, GoodQueue, Injective, Ready

LEMMA InvInit == Init => SchedulerOK
<1> SUFFICES ASSUME Init PROVE SchedulerOK
  OBVIOUS
<1> USE SchedulerAssumption DEF Init
<1>1. TypeOK
  <2>1. rq \in [queue : Seq(Slots), nr_running : Nat, bit : BOOLEAN]
    OBVIOUS
  <2>2. slice \in [Slots -> 0..TimeSlice]
    OBVIOUS
  <2>3. state \in [Slots -> States] /\ mode \in [Slots -> Modes]
    BY DEF States, Modes
  <2>4. wake \in [Slots -> Int] /\ sleepq \in Seq(Slots) /\ curr \in Slots \cup {Idle}
    OBVIOUS
  <2>5. inService \in BOOLEAN
    BY Zenon
  <2> QED BY <2>1, <2>2, <2>3, <2>4, <2>5 DEF TypeOK
<1>2. RunQueueOK
  BY DEF RunQueueOK, Elements
<1>3. SleepQueueOK
  BY DEF SleepQueueOK, Elements
<1>4. OneRunning /\ EoiOwed /\ SliceLeft
  BY DEF OneRunning, EoiOwed, SliceLeft
<1> QED BY <1>1, <1>2, <1>3, <1>4 DEF SchedulerOK

\* What a step keeps besides the invariant.
StepOK == KeepsOrder(rq.queue, rq'.queue) /\ GoesIdleEmpty

\* What SchedulerOK says, in the terms of the lemmas above.
LEMMA InvFacts ==
    ASSUME SchedulerOK
    PROVE  /\ GoodQueue(rq, Ready(state))
           /\ Injective(sleepq)
           /\ Elements(sleepq) \subseteq Slots
           /\ Elements(sleepq) = {p \in Slots : state[p] = "SLEEPING"}
<1>1. GoodQueue(rq, Ready(state))
  BY RunQueueGood DEF SchedulerOK, TypeOK
<1>2. Injective(sleepq)
  BY DEF SchedulerOK, SleepQueueOK, Injective
<1>3. Elements(sleepq) \subseteq Slots
  BY DEF SchedulerOK, TypeOK, Elements
<1>4. Elements(sleepq) = {p \in Slots : state[p] = "SLEEPING"}
  BY <1>3 DEF SchedulerOK, SleepQueueOK
<1> QED BY <1>1, <1>2, <1>3, <1>4

\* scheduler_tick: after the walk of the sleep queue every expired sleeper is
\* READY and at the tail of the run queue, and the others still sleep.
LEMMA WakeGood ==
    ASSUME SchedulerOK, NEW woken \in InOrderOf(sleepq, Expired),
           NEW asleep \in InOrderOf(sleepq, Elements(sleepq) \ Expired)
    PROVE  LET st == [p \in Slots |-> IF p \in Expired THEN "READY" ELSE state[p]]
               r  == [queue      |-> rq.queue \o woken,
                      nr_running |-> rq.nr_running + Len(woken),
                      bit        |-> rq.bit \/ woken # <<>>]
           IN  /\ st \in [Slots -> States]
               /\ GoodQueue(r, Ready(st))
               /\ \A p \in Slots : st[p] = "RUNNING" <=> p = curr
               /\ asleep \in Seq(Slots) /\ Injective(asleep)
               /\ Elements(asleep) = Elements(sleepq) \ Expired
               /\ \A p \in Slots : p \in Elements(asleep) <=> st[p] = "SLEEPING"
               /\ \A p \in Expired : p \in Slots /\ state[p] = "SLEEPING"
               /\ KeepsOrder(rq.queue, r.queue)
               /\ Elements(rq.queue) \subseteq Elements(r.queue)
<1> DEFINE st == [p \in Slots |-> IF p \in Expired THEN "READY" ELSE state[p]]
           q  == rq.queue \o woken
           n  == rq.nr_running + Len(woken)
           b  == rq.bit \/ woken # <<>>
           r  == [queue |-> q, nr_running |-> n, bit |-> b]
<1>1. /\ GoodQueue(rq, Ready(state)) /\ Injective(sleepq)
      /\ Elements(sleepq) = {p \in Slots : state[p] = "SLEEPING"}
  BY InvFacts
<1>2. state \in [Slots -> States] /\ sleepq \in Seq(Slots)
  BY DEF SchedulerOK, TypeOK
<1>3. Expired \subseteq Elements(sleepq)
  BY DEF Expired
<1>4. woken \in Seq(Slots) /\ Injective(woken) /\ Elements(woken) = Expired
  BY <1>1, <1>2, <1>3, InOrderList
<1>5. /\ asleep \in Seq(Slots) /\ Injective(asleep)
      /\ Elements(asleep) = Elements(sleepq) \ Expired
  BY <1>1, <1>2, InOrderList
<1>6. /\ st \in [Slots -> States]
      /\ Ready(st) = Ready(state) \cup Expired
      /\ \A p \in Slots : st[p] = "RUNNING" <=> p = curr
      /\ \A p \in Slots : p \in Elements(asleep) <=> st[p] = "SLEEPING"
  BY <1>1, <1>2, <1>3, <1>5 DEF Ready, States, SchedulerOK, OneRunning
<1>7. /\ q \in Seq(Slots) /\ Injective(q) /\ Elements(q) = Ready(st)
      /\ Len(q) = Len(rq.queue) + Len(woken)
      /\ KeepsOrder(rq.queue, q) /\ Elements(rq.queue) \subseteq Elements(q)
  <2>1. rq.queue \in Seq(Slots) /\ Injective(rq.queue) /\ Elements(rq.queue) = Ready(state)
    BY <1>1 DEF GoodQueue
  <2>2. Elements(rq.queue) \cap Elements(woken) = {}
    BY <1>1, <1>3, <1>4, <2>1 DEF Ready
  <2>3. /\ q \in Seq(Slots) /\ Injective(q)
        /\ Elements(q) = Elements(rq.queue) \cup Elements(woken)
        /\ Len(q) = Len(rq.queue) + Len(woken)
    BY <1>4, <2>1, <2>2, ConcatList
  <2>4. KeepsOrder(rq.queue, q)
    BY <1>4, <2>1, <2>2, ConcatOrder, SMTT(30)
  <2> QED BY <1>4, <1>6, <2>1, <2>3, <2>4
<1>8. n \in Nat /\ n = Len(q)
  BY <1>1, <1>4, <1>7 DEF GoodQueue
<1>9. b \in BOOLEAN /\ (b <=> q # <<>>)
  <2>1. rq.queue \in Seq(Slots) /\ (rq.bit <=> rq.queue # <<>>)
    BY <1>1 DEF GoodQueue
  <2>2. q = <<>> <=> rq.queue = <<>> /\ woken = <<>>
    BY <1>4, <2>1
  <2> HIDE DEF q
  <2>3. b <=> q # <<>>
    BY <2>1, <2>2
  <2>4. b \in BOOLEAN
    BY Zenon
  <2> QED BY <2>3, <2>4
<1> HIDE DEF st, q, n, b
<1>10. r \in [queue : Seq(Slots), nr_running : Nat, bit : BOOLEAN]
  BY <1>7, <1>8, <1>9, SMTT(30)
<1>11. GoodQueue(r, Ready(st))
  BY <1>7, <1>8, <1>9, <1>10 DEF GoodQueue
<1>12. KeepsOrder(rq.queue, r.queue) /\ Elements(rq.queue) \subseteq Elements(r.queue)
  BY <1>7
<1> QED BY <1>1, <1>3, <1>5, <1>6, <1>11, <1>12 DEF st, q, n, b

LEMMA InvNext == SchedulerOK /\ [Next]_vars => SchedulerOK' /\ StepOK
\* What schedule() leaves for the caller to show: the sleep queue and the EOI.
<1>ScheduleInv. ASSUME NEW st \in [Slots -> States],
           NEW r, NEW sl \in [Slots -> 0..TimeSlice],
           curr \in Slots \cup {Idle},
           GoodQueue(r, Ready(st)),
           \A p \in Slots : st[p] = "RUNNING" => p = curr,
           schedule(st, r, sl),
           sleepq' \in Seq(Slots), Injective(sleepq'),
           \A p \in Slots : p \in Elements(sleepq') <=> st[p] = "SLEEPING",
           \A p \in Elements(sleepq') : wake'[p] > 0,
           wake' \in [Slots -> Int],
           mode' \in [Slots -> Modes],
           inService' \in BOOLEAN,
           inService' <=> \E p \in Slots : mode'[p] = "irq",
           \A p, q \in Slots : mode'[p] = "irq" /\ mode'[q] = "irq" => p = q,
           \A p \in Slots : mode'[p] = "irq" => st[p] \in {"READY", "RUNNING"}
    PROVE  SchedulerOK' /\ KeepsOrder(r.queue, rq'.queue) /\ GoesIdleEmpty
  <2> USE <1>ScheduleInv
  <2>1. /\ state' \in [Slots -> States]
        /\ curr' \in Slots \cup {Idle}
        /\ slice' \in [Slots -> 0..TimeSlice]
        /\ GoodQueue(rq', Ready(state'))
        /\ \A p \in Slots : state'[p] = "RUNNING" <=> p = curr'
        /\ curr' # Idle => slice'[curr'] > 0
        /\ curr' = Idle => rq'.queue = <<>>
        /\ KeepsOrder(r.queue, rq'.queue)
        /\ \A p \in Slots : \/ state'[p] = st[p]
                            \/ /\ st[p] \in {"READY", "RUNNING"}
                               /\ state'[p] \in {"READY", "RUNNING"}
    BY ScheduleGood, Zenon DEF Ready
  <2>2. rq' \in [queue : Seq(Slots), nr_running : Nat, bit : BOOLEAN]
    BY <2>1 DEF GoodQueue
  <2>3. TypeOK'
    BY <2>1, <2>2, Zenon DEF TypeOK
  <2>4. RunQueueOK'
    <3>1. Elements(rq'.queue) = Ready(state')
      BY <2>1 DEF GoodQueue
    <3> QED BY <2>1, <3>1 DEF RunQueueOK, GoodQueue, Injective, Ready
  <2>5. SleepQueueOK'
    <3>1. \A p \in Slots : p \in Elements(sleepq') <=> state'[p] = "SLEEPING"
      BY <2>1, Zenon
    <3> QED BY <3>1 DEF SleepQueueOK, Injective
  <2>6. OneRunning' /\ SliceLeft'
    BY <2>1 DEF OneRunning, SliceLeft
  <2>7. EoiOwed'
    BY <2>1 DEF EoiOwed
  <2> QED BY <2>1, <2>3, <2>4, <2>5, <2>6, <2>7 DEF SchedulerOK, GoesIdleEmpty
<1>YieldInv. ASSUME SchedulerOK, Yield PROVE SchedulerOK' /\ StepOK
  <2> USE <1>YieldInv
  <2>1. GoodQueue(rq, Ready(state)) /\ Injective(sleepq)
    BY InvFacts
  <2>2. curr \in Slots /\ mode[curr] # "irq"
    BY DEF Yield, Executing, SchedulerOK, TypeOK
  <2>3. /\ mode' \in [Slots -> Modes]
        /\ \A p \in Slots : mode'[p] = "irq" <=> mode[p] = "irq"
    BY <2>2 DEF Yield, SchedulerOK, TypeOK, Modes
  <2>4. schedule(state, rq, slice) /\ sleepq' = sleepq /\ wake' = wake /\ inService' = inService
    BY DEF Yield
  <2>5. /\ inService' <=> \E p \in Slots : mode'[p] = "irq"
        /\ \A p, q \in Slots : mode'[p] = "irq" /\ mode'[q] = "irq" => p = q
        /\ \A p \in Slots : mode'[p] = "irq" => state[p] \in {"READY", "RUNNING"}
    BY <2>3, <2>4 DEF SchedulerOK, EoiOwed
  <2>6. /\ \A p \in Slots : p \in Elements(sleepq) <=> state[p] = "SLEEPING"
        /\ \A p \in Elements(sleepq) : wake[p] > 0
        /\ \A p \in Slots : state[p] = "RUNNING" => p = curr
    BY DEF SchedulerOK, SleepQueueOK, OneRunning
  <2>7. /\ state \in [Slots -> States] /\ slice \in [Slots -> 0..TimeSlice]
        /\ curr \in Slots \cup {Idle} /\ sleepq \in Seq(Slots)
        /\ wake \in [Slots -> Int] /\ inService \in BOOLEAN
    BY DEF SchedulerOK, TypeOK
  <2> QED BY <2>1, <2>3, <2>4, <2>5, <2>6, <2>7, <1>ScheduleInv, Zenon DEF StepOK
<1>ExitInv. ASSUME SchedulerOK, Exit PROVE SchedulerOK' /\ StepOK
  <2> USE <1>ExitInv
  <2> DEFINE st == [state EXCEPT ![curr] = "ZOMBIE"]
  <2>1. GoodQueue(rq, Ready(state)) /\ Injective(sleepq)
    BY InvFacts
  <2>2. curr \in Slots /\ mode[curr] # "irq" /\ state[curr] = "RUNNING"
    BY DEF Exit, Executing, SchedulerOK, TypeOK, OneRunning
  <2>3. /\ mode' \in [Slots -> Modes]
        /\ \A p \in Slots : mode'[p] = "irq" <=> mode[p] = "irq"
    BY <2>2 DEF Exit, SchedulerOK, TypeOK, Modes
  <2>4. schedule(st, rq, slice) /\ sleepq' = sleepq /\ wake' = wake /\ inService' = inService
    BY DEF Exit
  <2>5. /\ state \in [Slots -> States] /\ slice \in [Slots -> 0..TimeSlice]
        /\ curr \in Slots \cup {Idle} /\ sleepq \in Seq(Slots)
        /\ wake \in [Slots -> Int] /\ inService \in BOOLEAN
    BY DEF SchedulerOK, TypeOK
  <2>6. /\ st \in [Slots -> States] /\ Ready(st) = Ready(state)
        /\ \A p \in Slots : st[p] = "SLEEPING" <=> state[p] = "SLEEPING"
        /\ \A p \in Slots : st[p] # "RUNNING"
        /\ \A p \in Slots : p # curr => st[p] = state[p]
    BY <2>2, <2>5 DEF Ready, SchedulerOK, OneRunning, States
  <2> HIDE DEF st
  <2>7. /\ inService' <=> \E p \in Slots : mode'[p] = "irq"
        /\ \A p, q \in Slots : mode'[p] = "irq" /\ mode'[q] = "irq" => p = q
        /\ \A p \in Slots : mode'[p] = "irq" => st[p] \in {"READY", "RUNNING"}
    BY <2>2, <2>3, <2>4, <2>6 DEF SchedulerOK, EoiOwed
  <2>8. /\ \A p \in Slots : p \in Elements(sleepq) <=> st[p] = "SLEEPING"
        /\ \A p \in Elements(sleepq) : wake[p] > 0
    BY <2>6 DEF SchedulerOK, SleepQueueOK
  <2> QED BY <2>1, <2>3, <2>4, <2>5, <2>6, <2>7, <2>8, <1>ScheduleInv, Zenon DEF StepOK
<1>SleepTimeoutInv. ASSUME SchedulerOK, NEW ms \in SleepMs, SleepTimeout(ms) PROVE SchedulerOK' /\ StepOK
  <2> USE <1>SleepTimeoutInv
  <2> DEFINE st == [state EXCEPT ![curr] = "SLEEPING"]
             sq == Append(sleepq, curr)
  <2>1. /\ GoodQueue(rq, Ready(state)) /\ Injective(sleepq)
        /\ Elements(sleepq) = {p \in Slots : state[p] = "SLEEPING"}
    BY InvFacts
  <2>2. curr \in Slots /\ mode[curr] # "irq" /\ state[curr] = "RUNNING"
    BY DEF SleepTimeout, Executing, SchedulerOK, TypeOK, OneRunning
  <2>3. /\ mode' \in [Slots -> Modes]
        /\ \A p \in Slots : mode'[p] = "irq" <=> mode[p] = "irq"
    BY <2>2 DEF SleepTimeout, SchedulerOK, TypeOK, Modes
  <2>4. /\ state \in [Slots -> States] /\ slice \in [Slots -> 0..TimeSlice]
        /\ curr \in Slots \cup {Idle} /\ sleepq \in Seq(Slots)
        /\ wake \in [Slots -> Int] /\ inService \in BOOLEAN
    BY DEF SchedulerOK, TypeOK
  <2>5. Unlink(sleepq, curr) = sleepq /\ rr_dequeue(rq, curr) = rq
    <3>1. curr \notin Elements(sleepq) /\ curr \notin Elements(rq.queue)
      BY <2>1, <2>2 DEF GoodQueue, Ready
    <3> QED BY <3>1 DEF Unlink, rr_dequeue
  <2>6. /\ schedule(st, rq, slice) /\ sleepq' = sq
        /\ wake' = [wake EXCEPT ![curr] = ms] /\ inService' = inService
    BY <2>5 DEF SleepTimeout
  <2>7. /\ st \in [Slots -> States] /\ Ready(st) = Ready(state)
        /\ \A p \in Slots : st[p] = "SLEEPING" <=> state[p] = "SLEEPING" \/ p = curr
        /\ \A p \in Slots : st[p] # "RUNNING"
        /\ \A p \in Slots : p # curr => st[p] = state[p]
    BY <2>2, <2>4 DEF Ready, SchedulerOK, OneRunning, States
  <2>8. sq \in Seq(Slots) /\ Injective(sq) /\ Elements(sq) = Elements(sleepq) \cup {curr}
    BY <2>1, <2>2, <2>4, AppendList
  <2> HIDE DEF st, sq
  <2>9. /\ inService' <=> \E p \in Slots : mode'[p] = "irq"
        /\ \A p, q \in Slots : mode'[p] = "irq" /\ mode'[q] = "irq" => p = q
        /\ \A p \in Slots : mode'[p] = "irq" => st[p] \in {"READY", "RUNNING"}
    BY <2>2, <2>3, <2>6, <2>7 DEF SchedulerOK, EoiOwed
  <2>10. \A p \in Slots : p \in Elements(sleepq') <=> st[p] = "SLEEPING"
    BY <2>1, <2>2, <2>6, <2>7, <2>8
  <2>11. wake' \in [Slots -> Int] /\ \A p \in Elements(sleepq') : wake'[p] > 0
    <3>1. ms \in Nat /\ ms > 0
      BY SchedulerAssumption
    <3>2. \A p \in Elements(sleepq) : wake[p] > 0 /\ p \in Slots
      BY <2>1 DEF SchedulerOK, SleepQueueOK
    <3> QED BY <2>2, <2>4, <2>6, <2>8, <3>1, <3>2
  <2> QED BY <2>1, <2>3, <2>4, <2>6, <2>7, <2>8, <2>9, <2>10, <2>11, <1>ScheduleInv, Zenon DEF StepOK
<1>ForkInv. ASSUME SchedulerOK, NEW c \in Slots, Fork(c) PROVE SchedulerOK' /\ StepOK
  <2> USE <1>ForkInv
  <2>1. GoodQueue(rq, Ready(state))
    BY InvFacts
  <2>2. state[c] = "FREE" /\ c # curr /\ mode[c] # "irq" /\ curr \in Slots
    BY DEF Fork, Executing, SchedulerOK, TypeOK, OneRunning, EoiOwed
  <2>3. /\ state' \in [Slots -> States]
        /\ \A p \in Slots : state'[p] = IF p = c THEN "READY" ELSE state[p]
    BY DEF Fork, SchedulerOK, TypeOK, States
  <2>4. /\ mode' \in [Slots -> Modes]
        /\ \A p \in Slots : mode'[p] = IF p = c THEN "user" ELSE mode[p]
    BY DEF Fork, SchedulerOK, TypeOK, Modes
  <2>5. /\ slice' \in [Slots -> 0..TimeSlice] /\ slice'[curr] = slice[curr]
    <3>1. TimeSlice \in 0..TimeSlice
      BY SchedulerAssumption
    <3> QED BY <2>2, <3>1 DEF Fork, SchedulerOK, TypeOK
  <2>6. wake' \in [Slots -> Int] /\ \A p \in Slots : p # c => wake'[p] = wake[p]
    BY DEF Fork, SchedulerOK, TypeOK
  <2>7. rq' = rr_enqueue(rq, c) /\ curr' = curr /\ sleepq' = sleepq /\ inService' = inService
    BY DEF Fork
  <2>8. GoodQueue(rq', Ready(state'))
    <3>1. c \notin Ready(state) /\ Ready(state') = Ready(state) \cup {c}
      BY <2>2, <2>3 DEF Ready
    <3> QED BY <2>1, <2>7, <3>1, EnqueueGood
  <2>9. TypeOK'
    BY <2>3, <2>4, <2>5, <2>6, <2>7, <2>8 DEF TypeOK, GoodQueue, SchedulerOK
  <2>10. RunQueueOK'
    <3>1. Elements(rq'.queue) = Ready(state')
      BY <2>8 DEF GoodQueue
    <3> QED BY <2>8, <3>1 DEF RunQueueOK, GoodQueue, Injective, Ready
  <2>11. SleepQueueOK'
    <3>1. \A p \in Slots : p \in Elements(sleepq') <=> state'[p] = "SLEEPING"
      BY <2>2, <2>3, <2>7, SMTT(30) DEF SchedulerOK, SleepQueueOK
    <3>2. \A p \in Elements(sleepq') : p \in Slots /\ p # c /\ wake[p] > 0
      BY <2>2, <2>7, InvFacts DEF SchedulerOK, SleepQueueOK
    <3> QED BY <2>6, <2>7, <3>1, <3>2 DEF SleepQueueOK, SchedulerOK
  <2>12. OneRunning' /\ SliceLeft'
    BY <2>2, <2>3, <2>5, <2>7 DEF OneRunning, SliceLeft, SchedulerOK
  <2>13. EoiOwed'
    BY <2>2, <2>3, <2>4, <2>7 DEF EoiOwed, SchedulerOK
  <2>14. StepOK
    <3>1. rq.queue \in Seq(Slots) /\ c \notin Elements(rq.queue)
      BY <2>1, <2>2 DEF GoodQueue, Ready
    <3>2. rq'.queue = Append(rq.queue, c)
      BY <2>7, <3>1 DEF rr_enqueue
    <3> QED BY <2>7, <3>1, <3>2, AppendOrder DEF StepOK, GoesIdleEmpty
  <2> QED BY <2>9, <2>10, <2>11, <2>12, <2>13, <2>14 DEF SchedulerOK
<1>ReturnInv. ASSUME SchedulerOK, Return PROVE SchedulerOK' /\ StepOK
  <2> USE <1>ReturnInv
  <2>1. /\ mode' \in [Slots -> Modes]
        /\ \A p \in Slots : mode'[p] = "irq" <=> mode[p] = "irq"
    BY DEF Return, Executing, SchedulerOK, TypeOK, Modes
  <2>2. UNCHANGED <<state, curr, rq, slice, sleepq, wake, inService>>
    BY DEF Return
  <2>3. TypeOK'
    BY <2>1, <2>2 DEF SchedulerOK, TypeOK
  <2>4. RunQueueOK' /\ SleepQueueOK' /\ OneRunning' /\ SliceLeft'
    BY <2>2 DEF SchedulerOK, RunQueueOK, SleepQueueOK, OneRunning, SliceLeft
  <2>5. EoiOwed'
    BY <2>1, <2>2 DEF SchedulerOK, EoiOwed
  <2>6. StepOK
    BY <2>2 DEF StepOK, GoesIdleEmpty, KeepsOrder
  <2> QED BY <2>3, <2>4, <2>5, <2>6 DEF SchedulerOK
<1>ReapInv. ASSUME SchedulerOK, NEW z \in Slots, Reap(z) PROVE SchedulerOK' /\ StepOK
  <2> USE <1>ReapInv
  <2>1. /\ GoodQueue(rq, Ready(state))
        /\ Elements(sleepq) = {p \in Slots : state[p] = "SLEEPING"}
    BY InvFacts
  <2>2. state[z] = "ZOMBIE" /\ z # curr /\ mode[z] # "irq"
    BY DEF Reap, SchedulerOK, OneRunning, EoiOwed
  <2>3. /\ state' \in [Slots -> States]
        /\ \A p \in Slots : state'[p] = IF p = z THEN "FREE" ELSE state[p]
    BY DEF Reap, SchedulerOK, TypeOK, States
  <2>4. /\ mode' \in [Slots -> Modes]
        /\ \A p \in Slots : mode'[p] = "irq" <=> mode[p] = "irq"
    BY DEF Reap, Executing, SchedulerOK, TypeOK, Modes
  <2>5. rq' = rq /\ sleepq' = sleepq
    <3>1. z \notin Elements(rq.queue) /\ z \notin Elements(sleepq)
      BY <2>1, <2>2 DEF GoodQueue, Ready
    <3> QED BY <3>1 DEF Reap, Unlink, SchedulerOK, TypeOK
  <2>6. UNCHANGED <<curr, slice, wake, inService>>
    BY DEF Reap
  <2>7. TypeOK'
    BY <2>3, <2>4, <2>5, <2>6 DEF SchedulerOK, TypeOK
  <2>8. RunQueueOK'
    BY <2>2, <2>3, <2>5 DEF SchedulerOK, RunQueueOK
  <2>9. SleepQueueOK'
    BY <2>2, <2>3, <2>5, <2>6 DEF SchedulerOK, SleepQueueOK
  <2>10. OneRunning' /\ SliceLeft'
    BY <2>2, <2>3, <2>6 DEF SchedulerOK, OneRunning, SliceLeft
  <2>11. EoiOwed'
    BY <2>2, <2>3, <2>4, <2>6 DEF SchedulerOK, EoiOwed
  <2>12. StepOK
    BY <2>5, <2>6 DEF StepOK, GoesIdleEmpty, KeepsOrder
  <2> QED BY <2>7, <2>8, <2>9, <2>10, <2>11, <2>12 DEF SchedulerOK
<1>IrqReturnInv. ASSUME SchedulerOK, IrqReturn PROVE SchedulerOK' /\ StepOK
  <2> USE <1>IrqReturnInv
  <2>1. curr \in Slots /\ mode[curr] = "irq"
    BY DEF IrqReturn, SchedulerOK, TypeOK
  <2>2. /\ mode' \in [Slots -> Modes]
        /\ \A p \in Slots : mode'[p] # "irq"
    BY <2>1 DEF IrqReturn, SchedulerOK, TypeOK, Modes, EoiOwed
  <2>3. UNCHANGED <<state, curr, rq, slice, sleepq, wake>> /\ ~inService'
    BY DEF IrqReturn
  <2>4. inService' \in BOOLEAN
    BY Zenon DEF IrqReturn
  <2>5. TypeOK'
    BY <2>2, <2>3, <2>4, SMTT(30) DEF SchedulerOK, TypeOK
  <2>6. RunQueueOK' /\ SleepQueueOK' /\ OneRunning' /\ SliceLeft'
    BY <2>3 DEF SchedulerOK, RunQueueOK, SleepQueueOK, OneRunning, SliceLeft
  <2>7. EoiOwed'
    BY <2>2, <2>3 DEF EoiOwed
  <2>8. StepOK
    BY <2>3, SMTT(30) DEF StepOK, GoesIdleEmpty, KeepsOrder
  <2> QED BY <2>5, <2>6, <2>7, <2>8 DEF SchedulerOK
<1>TimerIrqInv. ASSUME SchedulerOK, TimerIrq PROVE SchedulerOK' /\ StepOK
  <2> USE <1>TimerIrqInv
  <2> DEFINE busy == curr # Idle
             tick == rr_tick(rq, IF busy THEN slice[curr] ELSE TimeSlice)
             st   == [p \in Slots |-> IF p \in Expired THEN "READY" ELSE state[p]]
             sl   == [p \in Slots |-> IF p \in Expired THEN TimeSlice
                                      ELSE IF busy /\ p = curr THEN tick.slice
                                      ELSE slice[p]]
             r(w) == [queue      |-> rq.queue \o w,
                      nr_running |-> rq.nr_running + Len(w),
                      bit        |-> rq.bit \/ w # <<>>]
  <2>1. PICK woken \in InOrderOf(sleepq, Expired),
             asleep \in InOrderOf(sleepq, Elements(sleepq) \ Expired) :
          /\ sleepq' = asleep
          /\ wake' = [p \in Slots |-> IF p \in Expired THEN 0
                                      ELSE IF p \in Elements(sleepq) THEN wake[p] - TickMs
                                      ELSE wake[p]]
          /\ IF Resched(tick.need_resched)
             THEN /\ schedule(st, r(woken), sl)
                  /\ inService' = TRUE
                  /\ mode' = [p \in Slots |-> IF p = curr THEN "irq" ELSE mode[p]]
             ELSE /\ state' = st /\ slice' = sl /\ rq' = r(woken)
                  /\ UNCHANGED <<curr, inService, mode>>
    BY Zenon DEF TimerIrq
  <2>2. /\ st \in [Slots -> States]
        /\ GoodQueue(r(woken), Ready(st))
        /\ \A p \in Slots : st[p] = "RUNNING" <=> p = curr
        /\ asleep \in Seq(Slots) /\ Injective(asleep)
        /\ Elements(asleep) = Elements(sleepq) \ Expired
        /\ \A p \in Slots : p \in Elements(asleep) <=> st[p] = "SLEEPING"
        /\ \A p \in Expired : p \in Slots /\ state[p] = "SLEEPING"
        /\ KeepsOrder(rq.queue, r(woken).queue)
        /\ Elements(rq.queue) \subseteq Elements(r(woken).queue)
    BY WakeGood, Zenon
  <2>3. /\ state \in [Slots -> States] /\ slice \in [Slots -> 0..TimeSlice]
        /\ curr \in Slots \cup {Idle} /\ mode \in [Slots -> Modes]
        /\ wake \in [Slots -> Int] /\ rq.nr_running \in Nat
        /\ TimeSlice \in Nat \ {0} /\ TickMs \in Nat \ {0} /\ Idle \notin Slots
    BY SchedulerAssumption DEF SchedulerOK, TypeOK
  <2>4. inService \in BOOLEAN /\ ~inService /\ \A p \in Slots : mode[p] # "irq"
    BY DEF SchedulerOK, TypeOK, TimerIrq, IrqDeliverable, EoiOwed
  <2>5. busy => /\ curr \in Slots /\ curr \notin Expired
                /\ slice[curr] \in 1..TimeSlice
                /\ tick.slice \in 0..TimeSlice
                /\ ~tick.need_resched => tick.slice > 0
    <3> SUFFICES ASSUME busy PROVE /\ curr \in Slots /\ curr \notin Expired
                                   /\ slice[curr] \in 1..TimeSlice
                                   /\ tick.slice \in 0..TimeSlice
                                   /\ ~tick.need_resched => tick.slice > 0
      BY SMTT(30)
    <3>1. curr \in Slots /\ curr \notin Expired
      BY <2>2, <2>3 DEF SchedulerOK, OneRunning
    <3>2. slice[curr] \in 1..TimeSlice
      BY <2>3, <3>1 DEF SchedulerOK, SliceLeft
    <3>3. \/ tick.slice = TimeSlice /\ ~tick.need_resched
          \/ tick.slice = slice[curr] - 1 /\ (tick.need_resched \/ slice[curr] - 1 > 0)
      <4>1. /\ tick.slice = IF slice[curr] - 1 <= 0 /\ rq.nr_running = 0
                            THEN TimeSlice ELSE slice[curr] - 1
            /\ tick.need_resched <=> slice[curr] - 1 <= 0 /\ rq.nr_running > 0
        BY Zenon DEF rr_tick
      <4> HIDE DEF tick
      <4> QED BY <2>3, <3>2, <4>1
    <3> HIDE DEF tick
    <3> QED BY <2>3, <3>1, <3>2, <3>3
  <2>6. sl \in [Slots -> 0..TimeSlice] /\ (busy => sl[curr] = tick.slice)
    <3>1. TimeSlice \in 0..TimeSlice
      BY <2>3
    <3> HIDE DEF tick
    <3> QED BY <2>3, <2>5, <3>1
  <2>7. wake' \in [Slots -> Int] /\ \A p \in Elements(sleepq') : wake'[p] > 0
    <3>1. wake' \in [Slots -> Int]
      BY <2>1, <2>3
    <3>2. ASSUME NEW p \in Elements(sleepq') PROVE wake'[p] > 0
      <4>1. p \in Elements(sleepq) /\ p \notin Expired /\ p \in Slots /\ state[p] = "SLEEPING"
        BY <2>1, <2>2, InvFacts, ZenonT(30)
      <4>2. ~(wake[p] - TickMs <= 0) /\ wake'[p] = wake[p] - TickMs
        BY <2>1, <4>1, SMTT(30) DEF Expired
      <4> QED BY <2>3, <4>1, <4>2
    <3> QED BY <3>1, <3>2
  <2>8. CASE Resched(tick.need_resched)
    <3>1. busy /\ curr \in Slots
      BY <2>5, <2>8, SMTT(30) DEF Resched
    <3>2. /\ schedule(st, r(woken), sl) /\ inService' = TRUE
          /\ mode' = [p \in Slots |-> IF p = curr THEN "irq" ELSE mode[p]]
      BY <2>1, <2>8
    <3>3. /\ mode' \in [Slots -> Modes] /\ \A p \in Slots : mode'[p] = "irq" <=> p = curr
      BY <2>3, <2>4, <3>2, SMTT(30) DEF Modes
    <3>4. inService' \in BOOLEAN /\ inService'
      BY <3>2, SMTT(30)
    <3>5. /\ inService' <=> \E p \in Slots : mode'[p] = "irq"
          /\ \A p, q \in Slots : mode'[p] = "irq" /\ mode'[q] = "irq" => p = q
          /\ \A p \in Slots : mode'[p] = "irq" => st[p] \in {"READY", "RUNNING"}
      BY <2>2, <3>1, <3>3, <3>4
    <3> HIDE DEF st, sl, r, tick
    <3>6. SchedulerOK' /\ KeepsOrder(r(woken).queue, rq'.queue) /\ GoesIdleEmpty
      BY <2>1, <2>2, <2>3, <2>6, <2>7, <3>2, <3>3, <3>4, <3>5, <1>ScheduleInv, ZenonT(30)
    <3>7. KeepsOrder(rq.queue, rq'.queue)
      BY <2>2, <3>6 DEF KeepsOrder
    <3> QED BY <3>6, <3>7 DEF StepOK
  <2>9. CASE ~Resched(tick.need_resched)
    <3>1. /\ state' = st /\ slice' = sl /\ rq' = r(woken)
          /\ curr' = curr /\ inService' = inService /\ mode' = mode
      BY <2>1, <2>9, ZenonT(30)
    <3>2. busy => sl[curr] > 0
      BY <2>5, <2>6, <2>9 DEF Resched
    <3> HIDE DEF st, sl, r, tick
    <3>3. rq' \in [queue : Seq(Slots), nr_running : Nat, bit : BOOLEAN]
      BY <2>2, <3>1, SMTT(30) DEF GoodQueue
    <3>4. TypeOK'
      BY <2>1, <2>2, <2>3, <2>4, <2>6, <2>7, <3>1, <3>3, SMTT(30) DEF TypeOK
    <3>5. RunQueueOK'
      <4>1. Elements(rq'.queue) = Ready(state') /\ GoodQueue(rq', Ready(state'))
        BY <2>2, <3>1, SMTT(30) DEF GoodQueue
      <4> QED BY <4>1 DEF RunQueueOK, GoodQueue, Injective, Ready
    <3>6. SleepQueueOK'
      BY <2>1, <2>2, <2>7, <3>1, SMTT(30) DEF SleepQueueOK, Injective
    <3>7. OneRunning' /\ SliceLeft'
      BY <2>2, <3>1, <3>2, SMTT(30) DEF OneRunning, SliceLeft
    <3>8. EoiOwed'
      BY <2>4, <3>1 DEF EoiOwed
    <3>9. StepOK
      BY <2>2, <3>1 DEF StepOK, GoesIdleEmpty
    <3> QED BY <3>4, <3>5, <3>6, <3>7, <3>8, <3>9, SMTT(30) DEF SchedulerOK
  <2> QED BY <2>8, <2>9
<1> SUFFICES ASSUME SchedulerOK, [Next]_vars PROVE SchedulerOK' /\ StepOK
  OBVIOUS
<1>1. CASE \E c \in Slots : Fork(c)
  BY <1>1, <1>ForkInv
<1>2. CASE Yield
  BY <1>2, <1>YieldInv
<1>3. CASE \E ms \in SleepMs : SleepTimeout(ms)
  BY <1>3, <1>SleepTimeoutInv
<1>4. CASE Return
  BY <1>4, <1>ReturnInv, SMTT(30)
<1>5. CASE Exit
  BY <1>5, <1>ExitInv
<1>6. CASE \E z \in Slots : Reap(z)
  BY <1>6, <1>ReapInv
<1>7. CASE TimerIrq
  BY <1>7, <1>TimerIrqInv
<1>8. CASE IrqReturn
  BY <1>8, <1>IrqReturnInv
<1>9. CASE UNCHANGED vars
  BY <1>9 DEF vars, SchedulerOK, TypeOK, RunQueueOK, SleepQueueOK, OneRunning, EoiOwed, SliceLeft,
              StepOK, KeepsOrder, GoesIdleEmpty
<1> QED BY <1>1, <1>2, <1>3, <1>4, <1>5, <1>6, <1>7, <1>8, <1>9 DEF Next

\* The scheduler keeps its invariant, whatever the number of processes and
\* whatever order they fork, yield, sleep, exit and are interrupted in.
THEOREM SpecInv == Spec => []SchedulerOK
BY InvInit, InvNext, PTL DEF Spec

\* The run queue lists exactly the READY processes, each once, and nr_running
\* and the bitmap agree with it: there is no double enqueue under any
\* interleaving of wait, yield and preemption.
THEOREM RunQueueSafe == Spec => []RunQueueOK
<1>1. SchedulerOK => RunQueueOK
  BY DEF SchedulerOK
<1> QED BY <1>1, SpecInv, PTL

\* While IRQ 0 is in service, exactly one live process owes the EOI.
THEOREM EoiSafe == Spec => []EoiOwed
<1>1. SchedulerOK => EoiOwed
  BY DEF SchedulerOK
<1> QED BY <1>1, SpecInv, PTL

\* No process in the run queue is ever overtaken.
THEOREM FifoOrder == Spec => NoOvertaking
<1>1. SchedulerOK /\ [Next]_vars => [KeepsOrder(rq.queue, rq'.queue)]_vars
  BY InvNext DEF StepOK
<1> QED BY <1>1, SpecInv, PTL DEF Spec, NoOvertaking

\* Idle gets the CPU only when no process is READY.
THEOREM IdleLast == Spec => WorkConserving
<1>1. SchedulerOK /\ [Next]_vars => [GoesIdleEmpty]_vars
  BY InvNext DEF StepOK
<1> QED BY <1>1, SpecInv, PTL DEF Spec, WorkConserving

============================================================================
