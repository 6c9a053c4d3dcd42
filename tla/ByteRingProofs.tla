--------------------------- MODULE ByteRingProofs ---------------------------
(***************************************************************************)
(* The kernel's rings are queues: the receive buffer of a socket for every *)
(* capacity and every chunk size, and the rings with an empty slot for     *)
(* every number of slots.                                                  *)
(***************************************************************************)
EXTENDS ByteRing, GapRing, TLAPS

\* What % does on the few sums and differences of indices that the ring forms.
LEMMA Wrap ==
    ASSUME NEW a \in Int, -Cap <= a, a < 2 * Cap
    PROVE  a % Cap = IF a < 0 THEN a + Cap ELSE IF a < Cap THEN a ELSE a - Cap
<1>1. Cap \in Nat /\ Cap > 0
  BY ByteRingAssumption
<1>2. CASE a < 0
  BY <1>1, <1>2
<1>3. CASE 0 <= a /\ a < Cap
  BY <1>1, <1>3
<1>4. CASE Cap <= a
  BY <1>1, <1>4
<1>5. QED
  BY <1>1, <1>2, <1>3, <1>4

LEMMA Copied ==
    ASSUME NEW data \in Chunks, NEW n \in 0..Len(data)
    PROVE  /\ data \in Seq(Items) /\ Len(data) \in 1..MaxCopy
           /\ SubSeq(data, 1, n) = [i \in 1..n |-> data[i]]
           /\ SubSeq(data, 1, n) \in Seq(Items)
           /\ Len(SubSeq(data, 1, n)) = n
<1>1. PICK m \in 1..MaxCopy : data \in [1..m -> Items]
  BY DEF Chunks
<1>2. data \in Seq(Items) /\ Len(data) = m
  BY <1>1, ByteRingAssumption
<1>3. QED
  BY <1>1, <1>2, ByteRingAssumption

\* What SubSeq leaves of a sequence when a front part is taken.
LEMMA Rest ==
    ASSUME NEW T, NEW s \in Seq(T), NEW n \in 0..Len(s)
    PROVE  SubSeq(s, n + 1, Len(s)) = [j \in 1..(Len(s) - n) |-> s[n + j]]
<1>1. SubSeq(s, n + 1, Len(s)) = [j \in 1..(Len(s) - (n + 1) + 1) |-> s[j + (n + 1) - 1]]
  OBVIOUS
<1>2. Len(s) - (n + 1) + 1 = Len(s) - n
  OBVIOUS
<1>3. \A j \in 1..(Len(s) - n) : j + (n + 1) - 1 = n + j
  OBVIOUS
<1>4. QED
  BY <1>1, <1>2, <1>3

\* The items of two sequences, one after the other.
LEMMA Joined ==
    ASSUME NEW T, NEW s \in Seq(T), NEW u \in Seq(T)
    PROVE  \A j \in 1..(Len(s) + Len(u)) : (s \o u)[j] = IF j <= Len(s) THEN s[j] ELSE u[j - Len(s)]
OBVIOUS

LEMMA TypeInit == RingInit => RingTypeOK
BY ByteRingAssumption DEF RingInit, RingTypeOK

LEMMA TypeStep == RingTypeOK /\ [RingNext]_ringvars => RingTypeOK'
<1> SUFFICES ASSUME RingTypeOK, [RingNext]_ringvars PROVE RingTypeOK'
  OBVIOUS
<1>0. Cap \in Nat /\ Cap > 0 /\ MaxCopy \in Nat
  BY ByteRingAssumption
<1>1. ASSUME NEW data \in Chunks, rx_push(data) PROVE RingTypeOK'
  <2> DEFINE n == Least(Len(data), Cap - rx_len)
             w == (rx_head + rx_len) % Cap
  <2>1. data \in Seq(Items) /\ Len(data) \in 1..MaxCopy
    BY Copied, <1>0, 0 \in 0..Len(data) DEF Chunks
  <2>2. n \in 0..Len(data) /\ n <= Cap - rx_len
    BY <1>0, <2>1 DEF Least, RingTypeOK
  <2>3. w \in 0..(Cap - 1)
    BY <1>0, Wrap, rx_head + rx_len \in Int DEF RingTypeOK
  <2>4. ASSUME NEW k \in 0..(Cap - 1), (k - w) % Cap < n
        PROVE  data[((k - w) % Cap) + 1] \in Items
    <3>1. (k - w) % Cap \in 0..(Cap - 1)
      BY <1>0, <2>3, Wrap
    <3>2. QED
      BY <2>1, <2>2, <2>4, <3>1
  <2>5. rx_buf' \in [0..(Cap - 1) -> Items]
    BY <1>1, <2>4 DEF rx_push, RingTypeOK
  <2>6. QED
    BY <1>0, <1>1, <2>2, <2>5, Copied DEF rx_push, RingTypeOK
<1>2. ASSUME NEW len \in 1..MaxCopy, rx_pop(len) PROVE RingTypeOK'
  <2> DEFINE n == Least(len, rx_len)
  <2>1. n \in 0..rx_len /\ n \in 0..Cap
    BY <1>0 DEF Least, RingTypeOK
  <2>2. \A i \in 1..n : (rx_head + i - 1) % Cap \in 0..(Cap - 1)
    BY <1>0, <2>1, Wrap DEF RingTypeOK
  <2>3. ret' \in Seq(Items)
    <3>1. ret' \in [1..n -> Items]
      BY <1>2, <2>2 DEF rx_pop, RingTypeOK
    <3>2. n \in Nat
      BY <2>1 DEF RingTypeOK
    <3>3. QED
      BY <3>1, <3>2
  <2>4. rx_head' \in 0..(Cap - 1)
    BY <1>0, <1>2, <2>1, Wrap DEF rx_pop, RingTypeOK
  <2>5. QED
    BY <1>0, <1>2, <2>1, <2>3, <2>4, SMTT(30) DEF rx_pop, RingTypeOK
<1>3. CASE UNCHANGED ringvars
  BY <1>3 DEF ringvars, RingTypeOK
<1>4. QED
  BY <1>1, <1>2, <1>3 DEF RingNext

\* The ring as a sequence.
LEMMA Sequence ==
    ASSUME RingTypeOK
    PROVE  Contents \in Seq(Items) /\ Len(Contents) = rx_len
<1>1. Cap \in Nat /\ Cap > 0 /\ rx_len \in Nat
  BY ByteRingAssumption DEF RingTypeOK
<1>2. \A i \in 1..rx_len : (rx_head + i - 1) % Cap \in 0..(Cap - 1)
  BY <1>1, Wrap DEF RingTypeOK
<1>3. Contents \in [1..rx_len -> Items]
  BY <1>2, Zenon DEF Contents, RingTypeOK
<1>4. QED
  BY <1>1, <1>3

\* A write appends what fits.
LEMMA PushAppends ==
    ASSUME RingTypeOK, NEW data \in Chunks, rx_push(data)
    PROVE  F!FifoPut(data)
<1> DEFINE n == Least(Len(data), Cap - rx_len)
           w == (rx_head + rx_len) % Cap
           i(k) == (k - w) % Cap
           sent == SubSeq(data, 1, n)
<1>0. Cap \in Nat /\ Cap > 0 /\ rx_len \in 0..Cap /\ rx_head \in 0..(Cap - 1)
  BY ByteRingAssumption DEF RingTypeOK
<1>1. data \in Seq(Items) /\ Len(data) \in Nat
  BY Copied, ByteRingAssumption, 0 \in 0..Len(data) DEF Chunks
<1>2. n \in 0..Len(data) /\ n <= Cap - rx_len /\ n \in Nat
  BY <1>0, <1>1 DEF Least
<1>3. sent \in Seq(Items) /\ Len(sent) = n /\ sent = [j \in 1..n |-> data[j]]
  BY <1>2, Copied
<1>4. w = IF rx_head + rx_len < Cap THEN rx_head + rx_len ELSE rx_head + rx_len - Cap
  BY <1>0, Wrap
<1>5. ASSUME NEW j \in 1..(rx_len + n)
      PROVE  Contents'[j] = IF j <= rx_len THEN Contents[j] ELSE sent[j - rx_len]
  <2> DEFINE k == (rx_head + j - 1) % Cap
  <2>1. k = IF rx_head + j - 1 < Cap THEN rx_head + j - 1 ELSE rx_head + j - 1 - Cap
    BY <1>0, <1>2, Wrap
  <2>2. k \in 0..(Cap - 1) /\ k - w \in Int /\ -Cap <= k - w /\ k - w < 2 * Cap
    BY <1>0, <1>2, <1>4, <2>1
  <2>3. i(k) = IF k - w < 0 THEN k - w + Cap ELSE k - w
    BY <1>0, <1>4, <2>1, <2>2, Wrap
  <2>4. rx_buf'[k] = IF i(k) < n THEN data[i(k) + 1] ELSE rx_buf[k]
    BY <2>2 DEF rx_push
  <2>5. rx_len' = rx_len + n /\ rx_head' = rx_head
    BY DEF rx_push
  <2>6. Contents'[j] = rx_buf'[k]
    BY <2>5 DEF Contents
  <2>7. CASE j <= rx_len
    <3>1. i(k) = j - 1 - rx_len + Cap
      BY <1>0, <1>4, <2>1, <2>3, <2>7
    <3>2. ~(i(k) < n)
      BY <1>0, <1>2, <2>7, <3>1
    <3>3. Contents[j] = rx_buf[k]
      BY <1>0, <2>7 DEF Contents
    <3>4. QED
      BY <2>4, <2>6, <2>7, <3>2, <3>3
  <2>8. CASE j > rx_len
    <3>1. i(k) = j - 1 - rx_len
      BY <1>0, <1>2, <1>4, <2>1, <2>3, <2>8
    <3>2. i(k) < n /\ i(k) + 1 = j - rx_len /\ j - rx_len \in 1..n
      BY <1>0, <1>2, <2>8, <3>1
    <3>3. sent[j - rx_len] = data[j - rx_len]
      BY <1>3, <3>2
    <3>4. QED
      <4>1. Contents'[j] = data[j - rx_len]
        BY <2>4, <2>6, <3>2
      <4>2. ~(j <= rx_len)
        BY <1>0, <1>2, <2>8
      <4>3. QED
        BY <3>3, <4>1, <4>2, Zenon
  <2>9. QED
    BY <1>0, <1>2, <2>7, <2>8
<1>6. Contents' = Contents \o sent
  <2>1. Contents \in Seq(Items) /\ Len(Contents) = rx_len
    BY Sequence
  <2>2. Contents \o sent \in Seq(Items) /\ Len(Contents \o sent) = rx_len + n
    BY <1>3, <2>1
  <2>3. \A j \in 1..(rx_len + n) :
            (Contents \o sent)[j] = IF j <= rx_len THEN Contents[j] ELSE sent[j - rx_len]
    <3> HIDE DEF sent, n
    <3> QED BY <1>3, <2>1, Joined, Zenon
  <2>4. rx_len' = rx_len + n
    BY DEF rx_push
  <2>5. Contents' = [j \in 1..(rx_len + n) |-> Contents'[j]]
    BY <2>4 DEF Contents
  <2>6. Contents \o sent = [j \in 1..(rx_len + n) |-> (Contents \o sent)[j]]
    BY <2>2
  <2>7. QED
    BY <1>5, <2>3, <2>5, <2>6, Zenon
<1>7. Len(Contents) = rx_len
  BY Sequence
<1>8. ret' = sent
  BY DEF rx_push
<1>9. QED
  BY <1>6, <1>7, <1>8 DEF F!FifoPut, F!Least, Least

\* A read takes the oldest bytes.
LEMMA PopTakes ==
    ASSUME RingTypeOK, NEW len \in 1..MaxCopy, rx_pop(len)
    PROVE  F!FifoGet(len)
<1> DEFINE n == Least(len, rx_len)
<1>0. Cap \in Nat /\ Cap > 0 /\ rx_len \in 0..Cap /\ rx_head \in 0..(Cap - 1)
  BY ByteRingAssumption DEF RingTypeOK
<1>1. n \in 0..rx_len
  BY <1>0, ByteRingAssumption DEF Least
<1>2. Contents \in Seq(Items) /\ Len(Contents) = rx_len
  BY Sequence
<1>3. ret' = SubSeq(Contents, 1, n)
  <2>1. SubSeq(Contents, 1, n) = [j \in 1..n |-> Contents[j]]
    BY <1>1, <1>2
  <2>2. ret' = [j \in 1..n |-> rx_buf[(rx_head + j - 1) % Cap]]
    BY DEF rx_pop
  <2>3. \A j \in 1..n : Contents[j] = rx_buf[(rx_head + j - 1) % Cap]
    BY <1>0, <1>1 DEF Contents
  <2>4. QED
    BY <2>1, <2>2, <2>3
<1>4. Contents' = SubSeq(Contents, n + 1, rx_len)
  <2>1. rx_head' = (rx_head + n) % Cap /\ rx_len' = rx_len - n /\ rx_buf' = rx_buf
    BY DEF rx_pop
  <2>2. rx_head' = IF rx_head + n < Cap THEN rx_head + n ELSE rx_head + n - Cap
    BY <1>0, <1>1, <2>1, Wrap
  <2>3. Contents' = [j \in 1..(rx_len - n) |-> rx_buf[(rx_head' + j - 1) % Cap]]
    BY <2>1 DEF Contents
  <2>4. SubSeq(Contents, n + 1, rx_len) = [j \in 1..(rx_len - n) |-> Contents[n + j]]
    BY <1>0, <1>1, <1>2, Rest
  <2>5. ASSUME NEW j \in 1..(rx_len - n)
        PROVE  rx_buf[(rx_head' + j - 1) % Cap] = Contents[n + j]
    <3>0. n + j \in 1..rx_len
      BY <1>0, <1>1
    <3>1. Contents[n + j] = rx_buf[(rx_head + (n + j) - 1) % Cap]
      BY <3>0 DEF Contents
    <3>2. (rx_head' + j - 1) % Cap = (rx_head + (n + j) - 1) % Cap
      <4>1. (rx_head' + j - 1) % Cap = IF rx_head' + j - 1 < Cap THEN rx_head' + j - 1
                                       ELSE rx_head' + j - 1 - Cap
        <5>1. rx_head' \in 0..(Cap - 1) /\ j \in 1..Cap
          BY <1>0, <1>1, <2>2
        <5>2. PICK h \in 0..(Cap - 1) : h = rx_head'
          BY <5>1
        <5>3. (h + j - 1) % Cap = IF h + j - 1 < Cap THEN h + j - 1 ELSE h + j - 1 - Cap
          BY <1>0, <5>1, Wrap
        <5>4. QED
          BY <5>2, <5>3
      <4>2. (rx_head + (n + j) - 1) % Cap =
                IF rx_head + (n + j) - 1 < Cap THEN rx_head + (n + j) - 1
                ELSE rx_head + (n + j) - 1 - Cap
        BY <1>0, <1>1, Wrap
      <4>3. QED
        BY <1>0, <1>1, <2>2, <4>1, <4>2
    <3>3. QED
      BY <3>1, <3>2
  <2>6. QED
    BY <2>3, <2>4, <2>5
<1>5. QED
  BY <1>2, <1>3, <1>4 DEF F!FifoGet, F!Least, Least

\* The receive buffer never holds more than Cap bytes and its index stays in the
\* array, whatever the program sends and reads (socket_rx_push, socket_rx_pop).
THEOREM RingTypeSafe == RingSpec => []RingTypeOK
<1>1. RingInit => RingTypeOK
  BY TypeInit
<1>2. RingTypeOK /\ [RingNext]_ringvars => RingTypeOK'
  BY TypeStep
<1>3. QED
  BY <1>1, <1>2, PTL DEF RingSpec

\* For every buffer size socket_rx_push and socket_rx_pop implement the bounded
\* queue: nothing is lost, repeated or reordered, also around the end of the array.
THEOREM RingImplementsFifo == RingSpec => ImplementsFifo
<1>1. RingInit => F!FifoInit
  BY DEF RingInit, F!FifoInit, Contents
<1>2. RingTypeOK /\ [RingNext]_ringvars => [F!StreamNext]_(F!fifovars)
  <2> SUFFICES ASSUME RingTypeOK, [RingNext]_ringvars
               PROVE  [F!StreamNext]_(F!fifovars)
    OBVIOUS
  <2>1. ASSUME NEW data \in Chunks, rx_push(data)
        PROVE  F!StreamNext
    BY <2>1, PushAppends DEF F!StreamNext
  <2>2. ASSUME NEW len \in 1..MaxCopy, rx_pop(len)
        PROVE  F!StreamNext
    BY <2>2, PopTakes DEF F!StreamNext
  <2>3. CASE UNCHANGED ringvars
    BY <2>3 DEF ringvars, F!fifovars, Contents
  <2>4. QED
    BY <2>1, <2>2, <2>3 DEF RingNext
<1>3. QED
  BY <1>1, <1>2, RingTypeSafe, PTL DEF RingSpec, ImplementsFifo, F!StreamSpec

----------------------------------------------------------------------------
(* The rings with an empty slot.                                           *)

Slotted == [0..(RingSize - 1) -> Events]

\* The slot of the i-th oldest item when the tail is t, how many items there are when the
\* head is h, and the items.
At(t, i) == (t + i - 1) % RingSize
Between(t, h) == (h - t) % RingSize
QueueOf(s, t, h) == [i \in 1..Between(t, h) |-> s[At(t, i)]]

LEMMA SizeFacts == RingSize \in Nat /\ RingSize > 1 /\ 0 \in 0..(RingSize - 1)
BY GapRingAssumption

\* What % does on the indices of a ring.
LEMMA Around ==
    ASSUME NEW a \in Int, -RingSize <= a, a < 2 * RingSize
    PROVE  a % RingSize = IF a < 0 THEN a + RingSize ELSE IF a < RingSize THEN a ELSE a - RingSize
<1>1. CASE a < 0
  BY <1>1, SizeFacts
<1>2. CASE 0 <= a /\ a < RingSize
  BY <1>2, SizeFacts
<1>3. CASE RingSize <= a
  BY <1>3, SizeFacts
<1> QED BY <1>1, <1>2, <1>3, SizeFacts

\* The indices without %.
AtIs(t, i) ==
    /\ At(t, i) \in 0..(RingSize - 1)
    /\ At(t, i) = IF t + i - 1 < RingSize THEN t + i - 1 ELSE t + i - 1 - RingSize

BetweenIs(t, h) ==
    /\ Between(t, h) \in 0..(RingSize - 1)
    /\ Between(t, h) = IF h >= t THEN h - t ELSE h - t + RingSize

SuccIs(h) ==
    /\ Succ(h) \in 0..(RingSize - 1)
    /\ Succ(h) = IF h = RingSize - 1 THEN 0 ELSE h + 1

LEMMA AtIndex ==
    ASSUME NEW t \in 0..(RingSize - 1), NEW i \in 1..RingSize
    PROVE  AtIs(t, i)
BY SizeFacts, Around DEF At, AtIs

LEMMA BetweenIndex ==
    ASSUME NEW t \in 0..(RingSize - 1), NEW h \in 0..(RingSize - 1)
    PROVE  BetweenIs(t, h)
BY SizeFacts, Around DEF Between, BetweenIs

LEMMA SuccIndex ==
    ASSUME NEW h \in 0..(RingSize - 1)
    PROVE  SuccIs(h)
BY SizeFacts, Around DEF Succ, SuccIs

LEMMA QueueIs ==
    ASSUME NEW s \in Slotted, NEW t \in 0..(RingSize - 1), NEW h \in 0..(RingSize - 1)
    PROVE  /\ QueueOf(s, t, h) \in Seq(Events) /\ Len(QueueOf(s, t, h)) = Between(t, h)
           /\ \A i \in 1..Between(t, h) : QueueOf(s, t, h)[i] = s[At(t, i)]
<1> DEFINE n == Between(t, h)
<1>1. n \in Nat /\ n < RingSize
  BY BetweenIndex, SizeFacts DEF BetweenIs
<1>2. \A i \in 1..n : At(t, i) \in 0..(RingSize - 1)
  <2>1. \A i \in 1..n : i \in 1..RingSize
    BY <1>1, SizeFacts
  <2> QED BY <2>1, AtIndex, Zenon DEF AtIs
<1>3. QueueOf(s, t, h) \in [1..n -> Events]
  BY <1>2, Zenon DEF QueueOf, Slotted
<1>4. \A i \in 1..n : QueueOf(s, t, h)[i] = s[At(t, i)]
  BY Zenon DEF QueueOf
<1> HIDE DEF n
<1>5. QueueOf(s, t, h) \in Seq(Events) /\ Len(QueueOf(s, t, h)) = n
  BY <1>1, <1>3
<1> QED BY <1>4, <1>5 DEF n

\* A push into a ring that is not full.
LEMMA PushedLast ==
    ASSUME NEW s \in Slotted, NEW t \in 0..(RingSize - 1), NEW h \in 0..(RingSize - 1),
           NEW x \in Events, Between(t, h) < RingSize - 1
    PROVE  QueueOf([s EXCEPT ![h] = x], t, Succ(h)) = Append(QueueOf(s, t, h), x)
<1> DEFINE n == Between(t, h)
           s2 == [s EXCEPT ![h] = x]
           q == QueueOf(s, t, h)
           q2 == QueueOf(s2, t, Succ(h))
<1>0. BetweenIs(t, h) /\ SuccIs(h)
  BY BetweenIndex, SuccIndex, Zenon
<1>1. n \in Nat /\ n < RingSize - 1 /\ Succ(h) \in 0..(RingSize - 1)
  BY <1>0, SizeFacts DEF BetweenIs, SuccIs
<1>2. Between(t, Succ(h)) = n + 1
  <2>1. BetweenIs(t, Succ(h))
    BY <1>1, BetweenIndex, Zenon
  <2> QED BY <1>0, <2>1, SizeFacts DEF BetweenIs, SuccIs
<1>3. s2 \in Slotted /\ s2[h] = x /\ \A k \in 0..(RingSize - 1) : k # h => s2[k] = s[k]
  BY Zenon DEF Slotted
<1>4. At(t, n + 1) = h
  <2>1. n + 1 \in 1..RingSize
    BY <1>1, SizeFacts
  <2>2. AtIs(t, n + 1)
    BY <2>1, AtIndex, Zenon
  <2> QED BY <1>0, <1>1, <2>2, SizeFacts DEF AtIs, BetweenIs
<1>5. \A i \in 1..n : At(t, i) \in 0..(RingSize - 1) /\ At(t, i) # h
  <2> SUFFICES ASSUME NEW i \in 1..n PROVE At(t, i) \in 0..(RingSize - 1) /\ At(t, i) # h
    OBVIOUS
  <2>1. i \in 1..RingSize
    BY <1>1, SizeFacts
  <2>2. AtIs(t, i)
    BY <2>1, AtIndex, Zenon
  <2> QED BY <1>0, <1>1, <2>2, SizeFacts DEF AtIs, BetweenIs
<1>6. q \in Seq(Events) /\ Len(q) = n /\ \A i \in 1..n : q[i] = s[At(t, i)]
  BY QueueIs, Zenon
<1> HIDE DEF s2
<1>7. q2 \in Seq(Events) /\ Len(q2) = n + 1 /\ \A i \in 1..(n + 1) : q2[i] = s2[At(t, i)]
  <2> HIDE DEF n
  <2>1. /\ q2 \in Seq(Events) /\ Len(q2) = Between(t, Succ(h))
        /\ \A i \in 1..Between(t, Succ(h)) : q2[i] = s2[At(t, i)]
    BY <1>1, <1>3, QueueIs, Zenon
  <2> QED BY <1>2, <2>1
<1> HIDE DEF q, q2, n
<1>8. q2[n + 1] = x /\ \A i \in 1..n : q2[i] = q[i]
  <2>1. n + 1 \in 1..(n + 1) /\ \A i \in 1..n : i \in 1..(n + 1)
    BY <1>1
  <2> QED BY <1>3, <1>4, <1>5, <1>6, <1>7, <2>1, ZenonT(30)
<1>9. q2 = Append(q, x)
  BY <1>1, <1>6, <1>7, <1>8
<1> QED BY <1>9, Zenon DEF q, q2, s2

\* The oldest item leaves.
LEMMA OldestLeaves ==
    ASSUME NEW s \in Slotted, NEW t \in 0..(RingSize - 1), NEW h \in 0..(RingSize - 1), h # t
    PROVE  /\ Between(t, h) > 0 /\ Between(Succ(t), h) = Between(t, h) - 1
           /\ QueueOf(s, t, h)[1] = s[t] /\ QueueOf(s, Succ(t), h) = Tail(QueueOf(s, t, h))
<1> DEFINE n == Between(t, h)
           q == QueueOf(s, t, h)
           q2 == QueueOf(s, Succ(t), h)
<1>0. BetweenIs(t, h) /\ SuccIs(t)
  BY BetweenIndex, SuccIndex, Zenon
<1>1. n \in Nat /\ n > 0 /\ n < RingSize /\ Succ(t) \in 0..(RingSize - 1)
  BY <1>0, SizeFacts DEF BetweenIs, SuccIs
<1>2. Between(Succ(t), h) = n - 1
  <2>1. BetweenIs(Succ(t), h)
    BY <1>1, BetweenIndex, Zenon
  <2> QED BY <1>0, <2>1, SizeFacts DEF BetweenIs, SuccIs
<1>3. At(t, 1) = t
  <2>1. 1 \in 1..RingSize
    BY SizeFacts
  <2>2. AtIs(t, 1)
    BY <2>1, AtIndex, Zenon
  <2> QED BY <2>2, SizeFacts DEF AtIs
<1>4. \A i \in 1..(n - 1) : At(Succ(t), i) = At(t, i + 1)
  <2> SUFFICES ASSUME NEW i \in 1..(n - 1) PROVE At(Succ(t), i) = At(t, i + 1)
    OBVIOUS
  <2>1. i \in 1..RingSize /\ i + 1 \in 1..RingSize
    BY <1>1, SizeFacts
  <2>2. AtIs(Succ(t), i) /\ AtIs(t, i + 1)
    BY <1>1, <2>1, AtIndex, Zenon
  <2> QED BY <1>0, <1>1, <2>2, SizeFacts DEF AtIs, SuccIs
<1>5. q \in Seq(Events) /\ Len(q) = n /\ \A i \in 1..n : q[i] = s[At(t, i)]
  BY QueueIs, Zenon
<1>6. q2 \in Seq(Events) /\ Len(q2) = n - 1 /\ \A i \in 1..(n - 1) : q2[i] = s[At(Succ(t), i)]
  <2> HIDE DEF n
  <2>1. /\ q2 \in Seq(Events) /\ Len(q2) = Between(Succ(t), h)
        /\ \A i \in 1..Between(Succ(t), h) : q2[i] = s[At(Succ(t), i)]
    BY <1>1, QueueIs, Zenon
  <2> QED BY <1>2, <2>1
<1> HIDE DEF q, q2, n
<1>7. q[1] = s[t]
  BY <1>1, <1>3, <1>5
<1>8. \A i \in 1..(n - 1) : q2[i] = q[i + 1]
  BY <1>1, <1>4, <1>5, <1>6
<1>9. q2 = Tail(q)
  BY <1>1, <1>5, <1>6, <1>8
<1> QED BY <1>1, <1>2, <1>7, <1>9 DEF n, q, q2

\* Positions in the queue and slots of the ring correspond.
LEMMA Positions ==
    ASSUME NEW t \in 0..(RingSize - 1), NEW h \in 0..(RingSize - 1)
    PROVE  /\ \A k \in 0..(RingSize - 1) : At(t, Between(t, k) + 1) = k
           /\ \A i \in 1..RingSize : Between(t, At(t, i)) = i - 1
           /\ \A i \in 1..(RingSize - 1) : Succ(At(t, i)) = At(t, i + 1)
           /\ \A i \in 1..Between(t, h) : At(t, i) # h
<1>1. ASSUME NEW k \in 0..(RingSize - 1) PROVE At(t, Between(t, k) + 1) = k
  <2>1. BetweenIs(t, k)
    BY BetweenIndex, Zenon
  <2>2. Between(t, k) + 1 \in 1..RingSize
    BY <2>1, SizeFacts DEF BetweenIs
  <2>3. AtIs(t, Between(t, k) + 1)
    BY <2>2, AtIndex, Zenon
  <2> QED BY <2>1, <2>3, SizeFacts DEF AtIs, BetweenIs
<1>2. ASSUME NEW i \in 1..RingSize PROVE Between(t, At(t, i)) = i - 1
  <2>1. AtIs(t, i)
    BY AtIndex, Zenon
  <2>2. BetweenIs(t, At(t, i))
    BY <2>1, BetweenIndex, Zenon DEF AtIs
  <2> QED BY <2>1, <2>2, SizeFacts DEF AtIs, BetweenIs
<1>3. ASSUME NEW i \in 1..(RingSize - 1) PROVE Succ(At(t, i)) = At(t, i + 1)
  <2>1. i \in 1..RingSize /\ i + 1 \in 1..RingSize
    BY SizeFacts
  <2>2. AtIs(t, i) /\ AtIs(t, i + 1)
    BY <2>1, AtIndex, Zenon
  <2>3. SuccIs(At(t, i))
    BY <2>2, SuccIndex, Zenon DEF AtIs
  <2> QED BY <2>2, <2>3, SizeFacts DEF AtIs, SuccIs
<1>4. ASSUME NEW i \in 1..Between(t, h) PROVE At(t, i) # h
  <2>1. BetweenIs(t, h)
    BY BetweenIndex, Zenon
  <2>2. i \in 1..RingSize
    BY <2>1, SizeFacts DEF BetweenIs
  <2>3. AtIs(t, i)
    BY <2>2, AtIndex, Zenon
  <2> QED BY <2>1, <2>3, SizeFacts DEF AtIs, BetweenIs
<1> QED BY <1>1, <1>2, <1>3, <1>4

\* The head one slot back.
Pred(h) == (h + RingSize - 1) % RingSize

LEMMA OneLess ==
    ASSUME NEW t \in 0..(RingSize - 1), NEW h \in 0..(RingSize - 1), Between(t, h) > 0
    PROVE  Pred(h) \in 0..(RingSize - 1) /\ Between(t, Pred(h)) = Between(t, h) - 1
<1>1. /\ Pred(h) \in 0..(RingSize - 1)
      /\ Pred(h) = IF h = 0 THEN RingSize - 1 ELSE h - 1
  BY SizeFacts, Around DEF Pred
<1>2. BetweenIs(t, h) /\ BetweenIs(t, Pred(h))
  BY <1>1, BetweenIndex, Zenon
<1>3. Between(t, Pred(h)) = Between(t, h) - 1
  BY <1>1, <1>2, SizeFacts DEF BetweenIs
<1> QED BY <1>1, <1>3

\* The slots after net_recv_udp_event took the item in slot k: those between it and the
\* head have moved by one.
Closed(s, t, h, k) ==
    [j \in 0..(RingSize - 1) |->
        IF Between(t, j) < Between(t, h) /\ Between(t, k) <= Between(t, j) /\ Succ(j) # h
        THEN s[Succ(j)] ELSE s[j]]

\* The queue without its i-th item.
LEMMA TakenOut ==
    ASSUME NEW s \in Slotted, NEW t \in 0..(RingSize - 1), NEW h \in 0..(RingSize - 1),
           NEW i \in 1..Between(t, h)
    PROVE  /\ Closed(s, t, h, At(t, i)) \in Slotted
           /\ QueueOf(Closed(s, t, h, At(t, i)), t, Pred(h)) = G!Without(QueueOf(s, t, h), i)
<1> DEFINE n == Between(t, h)
           k == At(t, i)
           s2 == Closed(s, t, h, k)
           q == QueueOf(s, t, h)
           q2 == QueueOf(s2, t, Pred(h))
<1>1. n \in Nat /\ n < RingSize /\ n > 0 /\ i \in 1..RingSize
  <2>1. BetweenIs(t, h)
    BY BetweenIndex, Zenon
  <2> QED BY <2>1, SizeFacts DEF BetweenIs
<1>2. Pred(h) \in 0..(RingSize - 1) /\ Between(t, Pred(h)) = n - 1
  BY <1>1, OneLess, Zenon
<1>3. s2 \in Slotted
  <2>1. \A j \in 0..(RingSize - 1) : Succ(j) \in 0..(RingSize - 1)
    BY SuccIndex, Zenon DEF SuccIs
  <2> QED BY <2>1, Zenon DEF Slotted, Closed
<1>4. Between(t, k) = i - 1
  BY <1>1, Positions, Zenon
<1>5. ASSUME NEW m \in 1..(n - 1)
      PROVE  s2[At(t, m)] = IF m < i THEN s[At(t, m)] ELSE s[At(t, m + 1)]
  <2> DEFINE j == At(t, m)
  <2>1. m \in 1..RingSize /\ m \in 1..(RingSize - 1) /\ m + 1 \in 1..n
    BY <1>1, SizeFacts
  <2>2. j \in 0..(RingSize - 1) /\ Between(t, j) = m - 1 /\ Succ(j) = At(t, m + 1) /\ At(t, m + 1) # h
    BY <2>1, AtIndex, Positions, ZenonT(30) DEF AtIs
  <2>3. s2[j] = IF Between(t, j) < n /\ Between(t, k) <= Between(t, j) /\ Succ(j) # h
                THEN s[Succ(j)] ELSE s[j]
    BY <2>2, Zenon DEF Closed
  <2> HIDE DEF j, k, s2, n
  <2>4. m - 1 < n /\ (i - 1 <= m - 1 <=> ~(m < i))
    BY <1>1
  <2>5. s2[j] = IF m < i THEN s[j] ELSE s[At(t, m + 1)]
    BY <1>4, <2>2, <2>3, <2>4, Zenon
  <2> QED BY <2>5, Zenon DEF j
<1>6. q \in Seq(Events) /\ Len(q) = n /\ \A m \in 1..n : q[m] = s[At(t, m)]
  BY QueueIs, Zenon
<1> HIDE DEF s2
<1>7. q2 = [m \in 1..(n - 1) |-> s2[At(t, m)]]
  BY <1>2, Zenon DEF QueueOf
<1> HIDE DEF q, q2, n
<1>8. \A m \in 1..(n - 1) : s2[At(t, m)] = IF m < i THEN q[m] ELSE q[m + 1]
  <2>1. \A m \in 1..(n - 1) : m \in 1..n /\ m + 1 \in 1..n
    BY <1>1
  <2> QED BY <1>5, <1>6, <2>1, Zenon
<1>9. q2 = G!Without(q, i)
  BY <1>6, <1>7, <1>8, Zenon DEF G!Without
<1> QED BY <1>3, <1>9, Zenon DEF s2, q, q2

\* What the ring holds, before and after a step.
LEMMA QueuedIs ==
    Queued = QueueOf(slot, tail, head) /\ Queued' = QueueOf(slot', tail', head')
BY Zenon DEF Queued, QueueOf, Dist, Between, At

LEMMA GapFacts ==
    ASSUME GapTypeOK
    PROVE  /\ slot \in Slotted /\ head \in 0..(RingSize - 1) /\ tail \in 0..(RingSize - 1)
           /\ Queued \in Seq(Events) /\ Len(Queued) = Between(tail, head)
           /\ Len(Queued) \in Nat /\ Len(Queued) <= RingSize - 1
           /\ Succ(head) \in 0..(RingSize - 1) /\ Succ(tail) \in 0..(RingSize - 1)
           /\ Succ(head) = tail <=> Len(Queued) = RingSize - 1
           /\ head = tail <=> Len(Queued) = 0
<1>1. slot \in Slotted /\ head \in 0..(RingSize - 1) /\ tail \in 0..(RingSize - 1)
  BY Zenon DEF GapTypeOK, Slotted
<1>2. Queued \in Seq(Events) /\ Len(Queued) = Between(tail, head)
  BY <1>1, QueueIs, QueuedIs, Zenon
<1>3. BetweenIs(tail, head) /\ SuccIs(head) /\ SuccIs(tail)
  BY <1>1, BetweenIndex, SuccIndex, Zenon
<1>4. /\ Between(tail, head) \in Nat /\ Between(tail, head) <= RingSize - 1
      /\ Succ(head) = tail <=> Between(tail, head) = RingSize - 1
      /\ head = tail <=> Between(tail, head) = 0
  BY <1>1, <1>3, SizeFacts DEF BetweenIs, SuccIs
<1> QED BY <1>1, <1>2, <1>3, <1>4, Zenon DEF SuccIs

LEMMA Ends ==
    ASSUME NEW T, NEW s \in Seq(T), Len(s) # 0
    PROVE  SubSeq(s, 1, 1) = <<s[1]>> /\ SubSeq(s, 2, Len(s)) = Tail(s)
<1>1. SubSeq(s, 1, 1) = [i \in 1..1 |-> s[1]]
  OBVIOUS
<1>2. <<s[1]>> = [i \in 1..1 |-> s[1]]
  OBVIOUS
<1>3. SubSeq(s, 2, Len(s)) = Tail(s)
  OBVIOUS
<1> QED BY <1>1, <1>2, <1>3, Zenon

\* The item that a push offers, and what FifoPut makes of it.
LEMMA PutOne ==
    ASSUME NEW x \in Events, GapTypeOK,
           \/ Len(Queued) = RingSize - 1 /\ Queued' = Queued /\ got' = <<>>
           \/ Len(Queued) < RingSize - 1 /\ Queued' = Append(Queued, x) /\ got' = <<x>>
    PROVE  G!FifoPut(<<x>>)
<1>1. Queued \in Seq(Events) /\ Len(Queued) \in Nat /\ RingSize \in Nat /\ Len(<<x>>) = 1
  BY GapFacts, SizeFacts
<1> DEFINE n == G!Least(Len(<<x>>), (RingSize - 1) - Len(Queued))
<1>2. CASE Len(Queued) = RingSize - 1 /\ Queued' = Queued /\ got' = <<>>
  <2>1. n = 0
    BY <1>1, <1>2 DEF G!Least
  <2>2. SubSeq(<<x>>, 1, 0) = <<>> /\ Queued \o <<>> = Queued
    BY <1>1
  <2> QED BY <1>2, <2>1, <2>2, Zenon DEF G!FifoPut
<1>3. CASE Len(Queued) < RingSize - 1 /\ Queued' = Append(Queued, x) /\ got' = <<x>>
  <2>1. n = 1
    BY <1>1, <1>3 DEF G!Least
  <2>2. SubSeq(<<x>>, 1, 1) = <<x>>
    <3>1. <<x>> \in Seq(Events) /\ Len(<<x>>) # 0 /\ <<x>>[1] = x
      OBVIOUS
    <3> QED BY <3>1, Ends, Zenon
  <2>3. Queued \o <<x>> = Append(Queued, x)
    BY <1>1
  <2> QED BY <1>3, <2>1, <2>2, <2>3, Zenon DEF G!FifoPut
<1> QED BY <1>2, <1>3

LEMMA GapPush ==
    ASSUME GapTypeOK, NEW x \in Events, push(x)
    PROVE  GapTypeOK' /\ G!FifoPut(<<x>>)
<1>1. CASE Succ(head) = tail /\ got' = <<>> /\ UNCHANGED <<slot, head, tail>>
  <2>1. Queued' = Queued /\ Len(Queued) = RingSize - 1
    BY <1>1, GapFacts, QueuedIs, Zenon
  <2>2. G!FifoPut(<<x>>)
    BY <1>1, <2>1, PutOne, Zenon
  <2>3. GapTypeOK'
    BY <1>1 DEF GapTypeOK
  <2> QED BY <2>2, <2>3
<1>2. CASE /\ Succ(head) # tail /\ slot' = [slot EXCEPT ![head] = x] /\ head' = Succ(head)
           /\ got' = <<x>> /\ tail' = tail
  <2>1. Between(tail, head) < RingSize - 1 /\ Len(Queued) < RingSize - 1
    BY <1>2, GapFacts, SizeFacts
  <2>2. Queued' = Append(Queued, x)
    BY <1>2, <2>1, GapFacts, QueuedIs, PushedLast, Zenon
  <2>3. G!FifoPut(<<x>>)
    BY <1>2, <2>1, <2>2, PutOne, Zenon
  <2>4. GapTypeOK'
    <3>1. <<x>> \in Seq(Events)
      OBVIOUS
    <3> QED BY <1>2, <3>1, GapFacts, Zenon DEF GapTypeOK
  <2> QED BY <2>3, <2>4
<1> QED BY <1>1, <1>2, Zenon DEF push

LEMMA GapPushOver ==
    ASSUME GapTypeOK, NEW x \in Events, event_push(x)
    PROVE  GapTypeOK' /\ G!FifoPutOver(<<x>>[1])
<1>1. /\ slot' = [slot EXCEPT ![head] = x] /\ head' = Succ(head) /\ got' = <<x>>
      /\ Succ(head) = tail => tail' = Succ(tail)
      /\ Succ(head) # tail => tail' = tail
  BY Zenon DEF event_push
<1>2. GapTypeOK'
  <2>1. <<x>> \in Seq(Events)
    OBVIOUS
  <2> QED BY <1>1, <2>1, GapFacts, Zenon DEF GapTypeOK
<1>3. CASE Succ(head) # tail
  <2>1. Between(tail, head) < RingSize - 1 /\ Len(Queued) < RingSize - 1
    BY <1>3, GapFacts, SizeFacts
  <2>2. tail' = tail
    BY <1>1, <1>3
  <2>3. Queued' = Append(Queued, x)
    BY <1>1, <2>1, <2>2, GapFacts, QueuedIs, PushedLast, Zenon
  <2> QED BY <1>1, <1>2, <2>1, <2>3 DEF G!FifoPutOver
<1>4. CASE Succ(head) = tail
  <2>1. Len(Queued) = RingSize - 1 /\ Len(Queued) # 0 /\ ~(Len(Queued) < RingSize - 1)
    BY <1>4, GapFacts, SizeFacts
  <2>2. /\ Between(Succ(tail), head) = Between(tail, head) - 1
        /\ QueueOf(slot, Succ(tail), head) = Tail(Queued)
    <3>1. head # tail
      BY <2>1, GapFacts, Zenon
    <3> QED BY <3>1, GapFacts, QueuedIs, OldestLeaves, Zenon
  <2>3. Between(Succ(tail), head) < RingSize - 1
    <3>1. Between(tail, head) = RingSize - 1
      BY <2>1, GapFacts, Zenon
    <3> QED BY <2>2, <3>1, SizeFacts
  <2>4. QueueOf(slot', Succ(tail), Succ(head)) = Append(Tail(Queued), x)
    <3>1. slot \in Slotted /\ Succ(tail) \in 0..(RingSize - 1) /\ head \in 0..(RingSize - 1)
      BY GapFacts, Zenon
    <3>2. QueueOf([slot EXCEPT ![head] = x], Succ(tail), Succ(head))
            = Append(QueueOf(slot, Succ(tail), head), x)
      BY <2>3, <3>1, PushedLast, Zenon
    <3> QED BY <1>1, <2>2, <3>2, Zenon
  <2>5. Queued' = Append(Tail(Queued), x)
    BY <1>1, <1>4, <2>4, QueuedIs, Zenon
  <2> QED BY <1>1, <1>2, <2>1, <2>5 DEF G!FifoPutOver
<1> QED BY <1>3, <1>4

LEMMA GapPop ==
    ASSUME GapTypeOK, pop
    PROVE  GapTypeOK' /\ G!FifoGet(1)
<1>0. Queued \in Seq(Events) /\ Len(Queued) \in Nat
  BY GapFacts, Zenon
<1> DEFINE k == G!Least(1, Len(Queued))
<1>1. CASE head = tail /\ got' = <<>> /\ UNCHANGED <<slot, head, tail>>
  <2>1. Queued' = Queued /\ Len(Queued) = 0
    BY <1>1, GapFacts, QueuedIs, Zenon
  <2>2. k = 0
    BY <2>1 DEF G!Least
  <2>3. SubSeq(Queued, 1, 0) = <<>> /\ SubSeq(Queued, 0 + 1, Len(Queued)) = Queued
    BY <1>0, <2>1
  <2>4. G!FifoGet(1)
    BY <1>1, <2>1, <2>2, <2>3, Zenon DEF G!FifoGet
  <2>5. GapTypeOK'
    BY <1>1 DEF GapTypeOK
  <2> QED BY <2>4, <2>5
<1>2. CASE head # tail /\ got' = <<slot[tail]>> /\ tail' = Succ(tail) /\ UNCHANGED <<slot, head>>
  <2>1. Queued[1] = slot[tail] /\ Queued' = Tail(Queued) /\ Len(Queued) # 0
    BY <1>2, GapFacts, QueuedIs, OldestLeaves, Zenon
  <2>2. k = 1
    <3>1. \A m \in Nat : m # 0 => G!Least(1, m) = 1
      BY DEF G!Least
    <3> QED BY <1>0, <2>1, <3>1, Zenon
  <2>3. SubSeq(Queued, 1, 1) = <<Queued[1]>> /\ SubSeq(Queued, 2, Len(Queued)) = Tail(Queued)
    BY <1>0, <2>1, Ends, Zenon
  <2>4. G!FifoGet(1)
    <3>1. 1 + 1 = 2
      OBVIOUS
    <3> QED BY <1>2, <2>1, <2>2, <2>3, <3>1, Zenon DEF G!FifoGet
  <2>5. GapTypeOK'
    <3>1. slot[tail] \in Events
      BY GapFacts, Zenon DEF Slotted
    <3>2. <<slot[tail]>> \in Seq(Events)
      BY <3>1
    <3> QED BY <1>2, <3>2, GapFacts, Zenon DEF GapTypeOK
  <2> QED BY <2>4, <2>5
<1> QED BY <1>1, <1>2, Zenon DEF pop

LEMMA GapFlush ==
    ASSUME GapTypeOK, flush
    PROVE  GapTypeOK' /\ G!FifoClear
<1>1. head' = 0 /\ tail' = 0 /\ got' = <<>> /\ slot' = slot
  BY Zenon DEF flush
<1>2. GapTypeOK'
  BY <1>1, SizeFacts DEF GapTypeOK
<1>3. Between(0, 0) = 0
  BY SizeFacts, BetweenIndex DEF BetweenIs
<1>4. Queued' = <<>>
  BY <1>1, <1>3, QueuedIs DEF QueueOf
<1> QED BY <1>1, <1>2, <1>4 DEF G!FifoClear

\* net_recv_udp_event takes the oldest event for the port.
LEMMA GapTake ==
    ASSUME GapTypeOK, NEW K \in Ports, recv_port(K)
    PROVE  GapTypeOK' /\ G!FifoTake(K)
<1> DEFINE n == Between(tail, head)
<1>0. /\ slot \in Slotted /\ head \in 0..(RingSize - 1) /\ tail \in 0..(RingSize - 1)
      /\ Queued = QueueOf(slot, tail, head) /\ Len(Queued) = n /\ n \in Nat
  BY GapFacts, QueuedIs, Zenon
<1>1. InRing = {k \in 0..(RingSize - 1) : Between(tail, k) < n}
  BY Zenon DEF InRing, Dist, Between
<1>2. \A m \in 1..n : At(tail, m) \in InRing /\ Between(tail, At(tail, m)) = m - 1
                     /\ Queued[m] = slot[At(tail, m)]
  <2>1. BetweenIs(tail, head)
    BY <1>0, BetweenIndex, Zenon
  <2> SUFFICES ASSUME NEW m \in 1..n
               PROVE  At(tail, m) \in InRing /\ Between(tail, At(tail, m)) = m - 1
                      /\ Queued[m] = slot[At(tail, m)]
    OBVIOUS
  <2>2. m \in 1..RingSize
    BY <2>1, SizeFacts DEF BetweenIs
  <2>3. At(tail, m) \in 0..(RingSize - 1) /\ Between(tail, At(tail, m)) = m - 1
    BY <1>0, <2>2, AtIndex, Positions, Zenon DEF AtIs
  <2>4. m - 1 < n
    BY <1>0
  <2>5. Queued[m] = slot[At(tail, m)]
    BY <1>0, QueueIs, Zenon
  <2> QED BY <1>1, <2>3, <2>4, <2>5, Zenon
<1>3. \A k \in InRing : /\ Between(tail, k) + 1 \in 1..n /\ At(tail, Between(tail, k) + 1) = k
                        /\ Queued[Between(tail, k) + 1] = slot[k]
  <2> SUFFICES ASSUME NEW k \in InRing
               PROVE  /\ Between(tail, k) + 1 \in 1..n /\ At(tail, Between(tail, k) + 1) = k
                      /\ Queued[Between(tail, k) + 1] = slot[k]
    OBVIOUS
  <2>1. k \in 0..(RingSize - 1) /\ Between(tail, k) < n
    BY <1>1, Zenon
  <2>2. BetweenIs(tail, k)
    BY <1>0, <2>1, BetweenIndex, Zenon
  <2>3. Between(tail, k) + 1 \in 1..n
    BY <1>0, <2>1, <2>2, SizeFacts DEF BetweenIs
  <2>4. At(tail, Between(tail, k) + 1) = k
    BY <1>0, <2>1, Positions, Zenon
  <2> QED BY <1>2, <2>3, <2>4, Zenon
<1>4. CASE (\A k \in InRing : slot[k] \notin K) /\ got' = <<>> /\ UNCHANGED <<slot, head, tail>>
  <2>1. \A m \in 1..n : Queued[m] \notin K
    BY <1>2, <1>4, Zenon
  <2>2. Queued' = Queued
    BY <1>4, QueuedIs, Zenon
  <2>3. GapTypeOK'
    BY <1>4 DEF GapTypeOK
  <2> QED BY <1>0, <1>4, <2>1, <2>2, <2>3, Zenon DEF G!FifoTake
<1>5. ASSUME NEW k \in InRing, slot[k] \in K,
             \A j \in InRing : Between(tail, j) < Between(tail, k) => slot[j] \notin K,
             got' = <<slot[k]>>, slot' = Closed(slot, tail, head, k),
             head' = Pred(head), tail' = tail
      PROVE  GapTypeOK' /\ G!FifoTake(K)
  <2>0. PICK i \in 1..n : i = Between(tail, k) + 1
    BY <1>3, Zenon
  <2>1. At(tail, i) = k /\ Queued[i] = slot[k] /\ Between(tail, k) = i - 1
    BY <1>2, <1>3, <2>0, Zenon
  <2>2. slot' \in Slotted /\ Queued' = G!Without(Queued, i)
    <3>1. /\ Closed(slot, tail, head, At(tail, i)) \in Slotted
          /\ QueueOf(Closed(slot, tail, head, At(tail, i)), tail, Pred(head))
               = G!Without(QueueOf(slot, tail, head), i)
      BY <1>0, TakenOut, Zenon
    <3>2. Closed(slot, tail, head, At(tail, i)) = slot' /\ Queued' = QueueOf(slot', tail, Pred(head))
      BY <1>5, <2>1, QueuedIs, Zenon
    <3> QED BY <1>0, <3>1, <3>2, Zenon
  <2>3. \A m \in 1..(i - 1) : Queued[m] \notin K
    <3> SUFFICES ASSUME NEW m \in 1..(i - 1) PROVE Queued[m] \notin K
      OBVIOUS
    <3>1. m \in 1..n /\ m - 1 < i - 1
      BY <1>0
    <3> QED BY <1>2, <1>5, <2>1, <3>1, Zenon
  <2>4. Queued[i] \in K /\ got' = <<Queued[i]>>
    BY <1>5, <2>1, Zenon
  <2>5. G!FifoTake(K)
    BY <1>0, <2>2, <2>3, <2>4, Zenon DEF G!FifoTake
  <2>6. n > 0
    BY <1>0
  <2>7. head' \in 0..(RingSize - 1)
    BY <1>0, <1>5, <2>6, OneLess, Zenon
  <2>8. slot[k] \in Events
    BY <1>0, <1>1, Zenon DEF Slotted
  <2>9. <<slot[k]>> \in Seq(Events)
    BY <2>8
  <2>10. GapTypeOK'
    BY <1>0, <1>5, <2>2, <2>7, <2>9, Zenon DEF GapTypeOK, Slotted
  <2> QED BY <2>5, <2>10
<1>6. CASE \E k \in InRing :
             /\ slot[k] \in K
             /\ \A j \in InRing : Between(tail, j) < Between(tail, k) => slot[j] \notin K
             /\ got' = <<slot[k]>> /\ slot' = Closed(slot, tail, head, k)
             /\ head' = Pred(head) /\ tail' = tail
  BY <1>5, <1>6, Zenon
<1>7. \/ (\A k \in InRing : slot[k] \notin K) /\ got' = <<>> /\ UNCHANGED <<slot, head, tail>>
      \/ \E k \in InRing :
             /\ slot[k] \in K
             /\ \A j \in InRing : Between(tail, j) < Between(tail, k) => slot[j] \notin K
             /\ got' = <<slot[k]>> /\ slot' = Closed(slot, tail, head, k)
             /\ head' = Pred(head) /\ tail' = tail
  <2>1. ASSUME NEW k \in InRing,
               slot' = [j \in 0..(RingSize - 1) |->
                          IF j \in InRing /\ Dist(k) <= Dist(j) /\ Succ(j) # head
                          THEN slot[Succ(j)] ELSE slot[j]]
        PROVE  slot' = Closed(slot, tail, head, k)
    BY <1>1, <2>1 DEF Closed, Dist, Between
  <2>2. \A j : Dist(j) = Between(tail, j)
    BY Zenon DEF Dist, Between
  <2> QED BY <2>1, <2>2, Zenon DEF recv_port, Pred
<1> QED BY <1>4, <1>6, <1>7, Zenon

LEMMA GapStep ==
    ASSUME GapTypeOK, [GapNext]_gapvars
    PROVE  GapTypeOK' /\ [G!EventNext]_(G!fifovars)
<1>1. ASSUME NEW x \in Events, push(x) PROVE GapTypeOK' /\ G!EventNext
  <2>1. GapTypeOK' /\ G!FifoPut(<<x>>)
    BY <1>1, GapPush, Zenon
  <2> QED BY <2>1, Zenon DEF G!EventNext, G!StreamNext
<1>2. ASSUME NEW x \in Events, event_push(x) PROVE GapTypeOK' /\ G!EventNext
  <2>1. GapTypeOK' /\ G!FifoPutOver(<<x>>[1])
    BY <1>2, GapPushOver, Zenon
  <2>2. <<x>> \in {<<y>> : y \in Events}
    OBVIOUS
  <2> QED BY <2>1, <2>2, Zenon DEF G!EventNext
<1>3. CASE pop
  <2>1. GapTypeOK' /\ G!FifoGet(1)
    BY <1>3, GapPop, Zenon
  <2> QED BY <2>1, Zenon DEF G!EventNext, G!StreamNext
<1>4. ASSUME NEW K \in Ports, recv_port(K) PROVE GapTypeOK' /\ G!EventNext
  BY <1>4, GapTake, Zenon DEF G!EventNext
<1>5. CASE flush
  BY <1>5, GapFlush, Zenon DEF G!EventNext
<1>6. CASE UNCHANGED gapvars
  <2>1. UNCHANGED <<slot, head, tail, got>>
    BY <1>6, Zenon DEF gapvars
  <2>2. Queued' = Queued
    BY <2>1, QueuedIs, Zenon
  <2> QED BY <2>1, <2>2 DEF GapTypeOK, G!fifovars
<1> QED BY <1>1, <1>2, <1>3, <1>4, <1>5, <1>6, Zenon DEF GapNext

\* For every number of slots the rings of the devices, the network events and the pending
\* connections implement the bounded queue: a full ring is never taken for an empty one,
\* nothing is lost but by a push into a full ring, and an event taken out of the middle
\* leaves the others in their order.
THEOREM GapImplementsFifo == GapSpec => GapIsFifo
<1>1. GapInit => GapTypeOK /\ G!FifoInit
  <2> SUFFICES ASSUME GapInit PROVE GapTypeOK /\ G!FifoInit
    OBVIOUS
  <2>1. GapTypeOK
    BY GapRingAssumption, SizeFacts DEF GapInit, GapTypeOK
  <2>2. Between(0, 0) = 0
    BY SizeFacts, BetweenIndex DEF BetweenIs
  <2>3. Queued = <<>>
    BY <2>2, QueuedIs DEF QueueOf, GapInit
  <2> QED BY <2>1, <2>3 DEF GapInit, G!FifoInit
<1>2. GapTypeOK /\ [GapNext]_gapvars => GapTypeOK' /\ [G!EventNext]_(G!fifovars)
  BY GapStep
<1> QED BY <1>1, <1>2, PTL DEF GapSpec, GapIsFifo, G!EventSpec

=============================================================================
