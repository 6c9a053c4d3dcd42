--------------------------------- MODULE Nic --------------------------------
(* The three wired network drivers. Boot registers the first that finds its *)
(* hardware; from then on the driver and the device share a ring each way.  *)
(* The e1000 hands descriptors over with a head and a tail register, the    *)
(* r8169 with an ownership bit, virtio with an available and a used ring    *)
(* and an interrupt status bit that reading clears. Frames are numbered in  *)
(* the order they are submitted, or arrive. Kernel code runs with           *)
(* interrupts off, the device at any time.                                  *)
EXTENDS Integers, SequencesExt, FiniteSets

CONSTANTS
    NicRing,     \* E1000_TX_RING_SIZE and the others, scaled down
    MaxTx,       \* frames given to the driver
    MaxRx        \* frames on the wire

RingSlots == 0 .. NicRing - 1
NextSlot(s) == (s + 1) % NicRing
ASSUME NicAssumption == NicRing \in Nat \ {0, 1} /\ MaxTx \in Nat /\ MaxRx \in Nat

VARIABLES
    ndev,   \* the driver that registered, or the one probed next
    ntx,    \* the sending side
    nrx     \* the receiving side

nicvars == <<ndev, ntx, nrx>>

Probes == <<"virtio?", "e1000?", "r8169?", "none">>
Registered == ndev \in {"virtio", "e1000", "r8169"}

\* buf: frame in a slot. own: slots not marked done (virtio: busy). head: the device's position.
\* avail, used: virtio's rings of slots. spin: the slot whose completion a send waits for.
\* accepted, wire: frames taken from the caller, and sent. failed: those the caller was told failed.
NoTx == [buf |-> [s \in RingSlots |-> 0], own |-> {}, head |-> 0, tail |-> 0, avail |-> <<>>, used |-> <<>>,
         spin |-> -1, next |-> 1, accepted |-> <<>>, wire |-> <<>>, failed |-> {}]

\* arrived: frames the device had a buffer for; good of them: whole ones. isr: virtio's status bit.
NoRx == [buf |-> [s \in RingSlots |-> 0], own |-> {}, head |-> 0, tail |-> 0, avail |-> <<>>, used |-> <<>>,
         isr |-> FALSE, polling |-> FALSE, next |-> 1, arrived |-> <<>>, good |-> {}, delivered |-> <<>>]

NicInit == ndev = "virtio?" /\ ntx = NoTx /\ nrx = NoRx

-----------------------------------------------------------------------------
(* Probing: network_init_all                                               *)

\* A device whose identity, BAR, reset, buffers or rings are not right is passed over.
NotFound(d) ==
    /\ ndev = Probes[d]
    /\ ndev' = Probes[d + 1]
    /\ UNCHANGED <<ntx, nrx>>

\* RDH = 0, RDT = the last: the device may fill all but that one.
e1000_setup_rings == [NoRx EXCEPT !.own = RingSlots, !.tail = NicRing - 1]
rtl_ring_alloc == [NoRx EXCEPT !.own = RingSlots]
virtio_rx_prime == [NoRx EXCEPT !.avail = [i \in 1 .. NicRing |-> i - 1]]

e1000_init == ndev = "e1000?" /\ ndev' = "e1000" /\ nrx' = e1000_setup_rings /\ ntx' = NoTx
r8169_init == ndev = "r8169?" /\ ndev' = "r8169" /\ nrx' = rtl_ring_alloc /\ ntx' = NoTx

\* Its initialization ends with a probe frame of its own.
virtio_net_legacy_init ==
    /\ ndev = "virtio?" /\ ndev' = "virtio" /\ nrx' = virtio_rx_prime
    /\ ntx' = [NoTx EXCEPT !.buf[0] = 1, !.own = {0}, !.avail = <<0>>, !.next = 2, !.accepted = <<1>>]

-----------------------------------------------------------------------------
(* Sending                                                                 *)

\* e1000_tx and rtl_tx: EAGAIN while the descriptor at the tail is the device's.
e1000_tx ==
    /\ ndev \in {"e1000", "r8169"} /\ ntx.spin = -1 /\ ntx.next <= MaxTx
    /\ ntx' = IF ntx.tail \in ntx.own
              THEN [ntx EXCEPT !.failed = @ \cup {ntx.next}, !.next = @ + 1]
              ELSE [ntx EXCEPT !.buf[ntx.tail] = ntx.next, !.own = @ \cup {ntx.tail}, !.spin = ntx.tail,
                               !.tail = NextSlot(@), !.next = @ + 1, !.accepted = Append(@, ntx.next)]
    /\ UNCHANGED <<ndev, nrx>>

\* The spin ends when the descriptor is done, or after 200000 rounds with EIO.
tx_spin_ends ==
    /\ ntx.spin # -1
    /\ ntx' = [ntx EXCEPT !.spin = -1,
                          !.failed = IF ntx.spin \in ntx.own THEN @ \cup {ntx.buf[ntx.spin]} ELSE @]
    /\ UNCHANGED <<ndev, nrx>>

FirstOf(S) == CHOOSE s \in S : \A t \in S : s <= t

\* The first descriptor that is not busy, or EAGAIN. net_rx_frame answers frames, so that a
\* send may also come from the handler, after it has read the status bit.
virtio_tx_submit ==
    /\ ndev = "virtio" /\ ntx.next <= MaxTx
    /\ ntx' = IF ntx.own = RingSlots
              THEN [ntx EXCEPT !.failed = @ \cup {ntx.next}, !.next = @ + 1]
              ELSE LET s == FirstOf(RingSlots \ ntx.own)
                   IN  [ntx EXCEPT !.buf[s] = ntx.next, !.own = @ \cup {s}, !.avail = Append(@, s),
                                   !.next = @ + 1, !.accepted = Append(@, ntx.next)]
    /\ UNCHANGED <<ndev, nrx>>

\* The device: the e1000 stops where head meets tail, the r8169 at a descriptor it does not own.
DeviceSees ==
    CASE ndev = "e1000" -> ntx.head # ntx.tail
      [] ndev = "r8169" -> ntx.head \in ntx.own
      [] ndev = "virtio" -> ntx.avail # <<>>
      [] OTHER -> FALSE

device_transmits ==
    /\ DeviceSees
    /\ IF ndev = "virtio"
       THEN /\ ntx' = [ntx EXCEPT !.wire = Append(@, ntx.buf[Head(ntx.avail)]),
                                  !.avail = Tail(@), !.used = Append(@, Head(ntx.avail))]
            /\ nrx' = [nrx EXCEPT !.isr = TRUE]
       ELSE /\ ntx' = [ntx EXCEPT !.wire = Append(@, ntx.buf[ntx.head]), !.own = @ \ {ntx.head}, !.head = NextSlot(@)]
            /\ UNCHANGED nrx
    /\ UNCHANGED ndev

-----------------------------------------------------------------------------
(* Receiving                                                               *)

\* A frame arrives: without a buffer the device drops it.
device_receives(whole) ==
    /\ Registered /\ nrx.next <= MaxRx
    /\ LET room == CASE ndev = "e1000" -> nrx.head # nrx.tail
                     [] ndev = "r8169" -> nrx.head \in nrx.own
                     [] OTHER -> nrx.avail # <<>>
           slot == IF ndev = "virtio" THEN Head(nrx.avail) ELSE nrx.head
           f == nrx.next
           kept == [nrx EXCEPT !.next = @ + 1, !.arrived = Append(@, f), !.buf[slot] = f,
                               !.good = IF whole THEN @ \cup {f} ELSE @]
       IN  nrx' = IF ~room THEN [nrx EXCEPT !.next = @ + 1]
                  ELSE IF ndev = "virtio"
                  THEN [kept EXCEPT !.avail = Tail(@), !.used = Append(@, slot), !.isr = TRUE]
                  ELSE [kept EXCEPT !.own = @ \ {slot}, !.head = NextSlot(@)]
    /\ UNCHANGED <<ndev, ntx>>

Whole(fs) == SelectSeq(fs, LAMBDA f : f \in nrx.good)

\* One descriptor after the tail at a time, as long as they are done: net_rx_frame for whole ones.
e1000_poll ==
    /\ ndev = "e1000" /\ ntx.spin = -1
    /\ LET s == NextSlot(nrx.tail)
       IN  /\ s \notin nrx.own
           /\ nrx' = [nrx EXCEPT !.delivered = @ \o Whole(<<nrx.buf[s]>>), !.own = @ \cup {s}, !.tail = s]
    /\ UNCHANGED <<ndev, ntx>>

rtl_poll ==
    /\ ndev = "r8169" /\ ntx.spin = -1
    /\ LET s == nrx.tail
       IN  /\ s \notin nrx.own
           /\ nrx' = [nrx EXCEPT !.delivered = @ \o Whole(<<nrx.buf[s]>>), !.own = @ \cup {s}, !.tail = NextSlot(s)]
    /\ UNCHANGED <<ndev, ntx>>

\* The interrupt handler and the poll begin by reading, and so clearing, the status bit.
virtio_net_poll ==
    /\ ndev = "virtio" /\ nrx.isr /\ ~nrx.polling
    /\ nrx' = [nrx EXCEPT !.isr = FALSE, !.polling = TRUE]
    /\ UNCHANGED <<ndev, ntx>>

\* Mutant: one used element per interrupt.
HandleOneUsed ==
    /\ nrx.polling
    /\ nrx' = [nrx EXCEPT !.delivered = IF nrx.used = <<>> THEN @ ELSE @ \o Whole(<<nrx.buf[Head(nrx.used)]>>),
                          !.avail = IF nrx.used = <<>> THEN @ ELSE Append(@, Head(nrx.used)),
                          !.used = IF @ = <<>> THEN @ ELSE Tail(@), !.polling = FALSE]
    /\ ntx' = [ntx EXCEPT !.own = @ \ ToSet(ntx.used), !.used = <<>>]
    /\ UNCHANGED ndev

\* virtio_handle_rx_used recycles each descriptor it delivered; virtio_handle_tx_used frees those sent.
virtio_handle_used ==
    /\ nrx.polling
    /\ nrx' = [nrx EXCEPT !.delivered = @ \o Whole([i \in DOMAIN nrx.used |-> nrx.buf[nrx.used[i]]]),
                          !.avail = @ \o nrx.used, !.used = <<>>, !.polling = FALSE]
    /\ ntx' = [ntx EXCEPT !.own = @ \ ToSet(ntx.used), !.used = <<>>]
    /\ UNCHANGED ndev

NicNext ==
    \/ \E d \in 1 .. 3 : NotFound(d)
    \/ e1000_init \/ r8169_init \/ virtio_net_legacy_init
    \/ e1000_tx \/ tx_spin_ends \/ virtio_tx_submit
    \/ device_transmits \/ \E whole \in BOOLEAN : device_receives(whole)
    \/ e1000_poll \/ rtl_poll \/ virtio_net_poll \/ virtio_handle_used

NicSpec == NicInit /\ [][NicNext]_nicvars

-----------------------------------------------------------------------------
(* Properties.                                                             *)

\* Frames the device has and has not sent.
TxPending == IF ndev = "virtio" THEN {ntx.buf[s] : s \in ToSet(ntx.avail)} ELSE {ntx.buf[s] : s \in ntx.own}

\* Received frames the driver has not looked at.
Waiting == IF ~Registered THEN 0 ELSE IF ndev = "virtio" THEN Len(nrx.used) ELSE NicRing - Cardinality(nrx.own)

\* What goes over the wire is what the driver accepted, each frame once and in order, none
\* overwritten while the device has it, those a send gave up on included; no frame is sent that
\* was refused, and a success means sent (but with virtio, which does not wait). The device can
\* go on with what is pending, but for an e1000 all of whose descriptors are. Whole frames are
\* delivered once and in order, whatever is still in the ring; virtio's descriptors are in
\* one place each, and its used ring holds nothing the status bit, or a poll that has read it,
\* does not stand for.
NicOK ==
    /\ IsPrefix(ntx.wire, ntx.accepted)
    /\ TxPending = ToSet(ntx.accepted) \ ToSet(ntx.wire)
    /\ TxPending # {} => DeviceSees \/ (ndev = "e1000" /\ ntx.own = RingSlots)
    /\ ndev \in {"e1000", "r8169"} =>
          \A f \in ToSet(ntx.accepted) : f \in ToSet(ntx.wire) \/ f \in ntx.failed \/ (ntx.spin # -1 /\ f = ntx.buf[ntx.spin])
    /\ LET all == Whole(nrx.arrived)
       IN  /\ IsPrefix(nrx.delivered, all)
           /\ Len(nrx.arrived) = 0 \/ Len(all) - Len(nrx.delivered) <= Waiting
    /\ nrx.used # <<>> => nrx.isr \/ nrx.polling
    /\ ndev = "virtio" => /\ IsInjective(nrx.avail \o nrx.used) /\ ToSet(nrx.avail \o nrx.used) = RingSlots
                          /\ IsInjective(ntx.avail \o ntx.used) /\ ToSet(ntx.avail \o ntx.used) = ntx.own
=============================================================================
