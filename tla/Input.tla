------------------------------- MODULE Input -------------------------------
(* Keyboard, mouse and console input of devfs (fs/devfs/devfs.c). The      *)
(* 8042 controller holds one byte at a time, of the keyboard or of the     *)
(* mouse, and raises IRQ 1 or IRQ 12 for it; system calls run with         *)
(* interrupts off and poll the controller, so a byte may be gone when its  *)
(* interrupt is served. IRQ 1 is served before IRQ 12. The mouse's handler *)
(* does not look at the status: from its entry to its read of the port     *)
(* another byte may arrive, so the two are steps of their own.             *)
EXTENDS Naturals, Sequences, SequencesExt

CONSTANTS
    ConCap, EvCap, MiceCap,  \* CONSOLE_INPUT_QUEUE_CAP, INPUT_EVENT_QUEUE_CAP, MICE_PKT_QUEUE_CAP
    MaxReads,                \* bound of the model: characters one read asks for
    MaxSent                  \* bound of the model: keys, packets and UART bytes

ASSUME InputAssumption == ConCap > 1 /\ EvCap > 1 /\ MiceCap > 1

VARIABLES
    hw,      \* the controller, the bytes the devices still send, the interrupts raised and served
    kbd,     \* g_kbd_*
    con,     \* g_console_in_q
    evs,     \* g_kbd_q, g_mouse_q and g_mice_q
    mouse,   \* g_mouse_pkt and the buttons
    reader,  \* a console_dev_read that waits: characters wanted and got
    seen     \* what an observer knows: the characters accepted, the one peeked at, the keys
             \* held; whether a poll threw a byte of the mouse away, the mouse's handler took
             \* one of the keyboard, or made a packet that the mouse did not send

invars == <<hw, kbd, con, evs, mouse, reader, seen>>

Nothing == [aux |-> FALSE, b |-> 0, full |-> FALSE]
NoChar == ""

\* Bytes of the keyboard. Bit 7 of a scancode says that the key was let go, so the byte
\* 0xAA of a passed self test is also the release of the left shift key.
Byte(sc, rel) == [sc |-> sc, rel |-> rel]
E0 == Byte("e0", FALSE)
Noise == {Byte("ack", FALSE), Byte("desync", FALSE)}
BAT == Byte("lshift", TRUE)
ScKeys == {"c", "lshift", "lctrl", "caps", "arrow"}
Sent(k, rel) == (IF k = "arrow" THEN <<E0>> ELSE <<>>) \o <<Byte(k, rel)>>

\* Mouse bytes: bit 3 marks the first of a packet, bit 0 is the left button.
MousePackets == {<<8, 0, 1>>, <<9, 1, 0>>}
MouseBytes == {0, 1, 8, 9}

-----------------------------------------------------------------------------
(* Rings.                                                                  *)

Ring(cap, x) == [buf |-> [i \in 0 .. cap - 1 |-> x], head |-> 0, tail |-> 0]

\* Mutant: a full ring is not noticed.
PushOver(r, cap, x) == [r EXCEPT !.buf[r.head] = x, !.head = (r.head + 1) % cap]

input_queue_push(r, cap, x) ==
    LET next == (r.head + 1) % cap
    IN  IF next = r.tail THEN r ELSE [r EXCEPT !.buf[r.head] = x, !.head = next]

PushAll(r, cap, xs) == FoldLeft(LAMBDA q, x : input_queue_push(q, cap, x), r, xs)
IsEmpty(r) == r.tail = r.head
RingFront(r) == r.buf[r.tail]
input_queue_pop(r, cap) == [r EXCEPT !.tail = (@ + 1) % cap]
Contents(r, cap) == [i \in 1 .. (r.head + cap - r.tail) % cap |-> r.buf[(r.tail + i - 1) % cap]]

\* What a queue of cap - 1 places holds after xs came to it.
Accepted(held, cap, xs) == SubSeq(held \o xs, 1, IF Len(held) + Len(xs) < cap THEN Len(held) + Len(xs) ELSE cap - 1)

-----------------------------------------------------------------------------
(* The keyboard.                                                           *)

KbdReset(K) == [K EXCEPT !.e0 = FALSE, !.lshift = FALSE, !.lctrl = FALSE, !.capsdown = FALSE]
ps2_kbd_reset_transient_state == KbdReset(kbd)

\* Scancode set 1; the controller translates set 2 (ps2_init_devices).
ps2_set1_keycode(sc, e0) == IF e0 = (sc = "arrow") THEN sc ELSE ""

\* What a pressed key puts in the console's queue.
Chars(K, code) ==
    CASE code = "arrow" -> <<"esc", "[", "A">>
      [] code = "c" -> <<IF K.lctrl THEN "^C" ELSE IF K.lshift # K.capslock THEN "C" ELSE "c">>
      [] OTHER -> <<>>

\* The decoder and the two queues after one byte.
ps2_kbd_feed_byte(D, data, emit_events) ==
    LET K == D.kbd
        code == ps2_set1_keycode(data.sc, K.e0)
        down == ~data.rel
        K1 == [K EXCEPT !.e0 = FALSE,
                        !.lshift = IF code = "lshift" THEN down ELSE @,
                        !.lctrl = IF code = "lctrl" THEN down ELSE @,
                        !.capslock = IF code = "caps" /\ down /\ ~K.capsdown THEN ~@ ELSE @,
                        !.capsdown = IF code = "caps" THEN down ELSE @]
        out == IF down THEN Chars(K1, code) ELSE <<>>
    IN  CASE data.sc = "ack" -> D
          [] data.sc = "desync" -> [D EXCEPT !.kbd.e0 = FALSE]
          [] data = BAT -> [D EXCEPT !.kbd = KbdReset(K)]
          [] data = E0 -> [D EXCEPT !.kbd.e0 = TRUE]
          [] OTHER -> IF code = "" THEN [D EXCEPT !.kbd.e0 = FALSE]
                      ELSE [kbd |-> K1, con |-> PushAll(D.con, ConCap, out), want |-> Accepted(D.want, ConCap, out),
                            keys |-> IF emit_events
                                     THEN PushAll(D.keys, EvCap, <<<<code, down>>, <<"syn", FALSE>>>>) ELSE D.keys]

Decoder == [kbd |-> kbd, con |-> con, want |-> seen.want, keys |-> evs.kbd]

DecoderBecomes(D, s) ==
    /\ kbd' = D.kbd /\ con' = D.con /\ evs' = [evs EXCEPT !.kbd = D.keys]
    /\ seen' = [s EXCEPT !.want = D.want]

\* inb of the data port empties the controller.
Inb == [hw EXCEPT !.obf = Nothing]

\* No handler runs: interrupts are on, or a system call has the CPU.
CpuFree == ~hw.served

ps2_kbd_irq ==
    /\ CpuFree /\ 1 \in hw.irqs
    /\ IF ~hw.obf.full \/ hw.obf.aux
       THEN hw' = [hw EXCEPT !.irqs = @ \ {1}] /\ UNCHANGED <<kbd, con, evs, seen>>
       ELSE /\ hw' = [Inb EXCEPT !.irqs = @ \ {1}]
            /\ DecoderBecomes(ps2_kbd_feed_byte(Decoder, hw.obf.b, TRUE), seen)
    /\ UNCHANGED <<mouse, reader>>

-----------------------------------------------------------------------------
(* The mouse. Its handler reads the port whatever the status is: a byte of *)
(* the keyboard is as good to it, and an empty controller answers with     *)
(* some earlier byte.                                                      *)

MouseDecoded(p) ==
    LET left == p[1] % 2 = 1
        evts == (IF left # mouse.left THEN <<<<"left", left>>>> ELSE <<>>)
                \o (IF p[2] # 0 THEN <<<<"x", TRUE>>>> ELSE <<>>) \o (IF p[3] # 0 THEN <<<<"y", TRUE>>>> ELSE <<>>)
                \o <<<<"syn", FALSE>>>>
    IN  /\ mouse' = [pkt |-> <<>>, left |-> left]
        /\ evs' = [evs EXCEPT !.mouse = PushAll(@, EvCap, evts), !.mice = input_queue_push(@, MiceCap, p)]

mouse_irq_entry ==
    /\ CpuFree /\ 12 \in hw.irqs /\ 1 \notin hw.irqs
    /\ hw' = [hw EXCEPT !.irqs = @ \ {12}, !.served = TRUE]
    /\ UNCHANGED <<kbd, con, evs, mouse, reader, seen>>

ps2_mouse_irq(b) ==
    LET p == Append(mouse.pkt, b)
        own == hw.obf.full /\ hw.obf.aux
    IN  /\ hw.served
        /\ own => b = hw.obf.b
        /\ hw' = [Inb EXCEPT !.served = FALSE]
        /\ seen' = [seen EXCEPT !.crossed = @ \/ (hw.obf.full /\ ~hw.obf.aux),
                                !.garbled = @ \/ (Len(p) = 3 /\ p \notin MousePackets)]
        /\ IF mouse.pkt = <<>> /\ b < 8 THEN UNCHANGED <<mouse, evs>>
           ELSE IF Len(p) < 3 THEN mouse' = [mouse EXCEPT !.pkt = p] /\ UNCHANGED evs
           ELSE MouseDecoded(p)
        /\ UNCHANGED <<kbd, con, reader>>

-----------------------------------------------------------------------------
(* The console.                                                            *)

\* The poll that catches bytes whose interrupt was not served; a mouse byte is thrown away.
Polled ==
    IF hw.obf.full /\ ~hw.obf.aux THEN ps2_kbd_feed_byte(Decoder, hw.obf.b, FALSE) ELSE Decoder

Threw == seen.threw \/ (hw.obf.full /\ hw.obf.aux)

\* console_dev_read with the character c taken: it ends with the last one asked for, at the
\* end of a line, for which a carriage return stands too, and at control-C (3), which
\* empties every queue.
NoRead == [want |-> 0, got |-> <<>>]
Taken1(c) ==
    LET ch == IF c = "cr" THEN "nl" ELSE c
    IN  IF c = "^C" \/ ch = "nl" \/ Len(reader.got) + 1 = reader.want THEN NoRead
        ELSE [reader EXCEPT !.got = Append(@, ch)]

devfs_console_flush_input ==
    /\ con' = [con EXCEPT !.head = 0, !.tail = 0]
    /\ kbd' = ps2_kbd_reset_transient_state
    /\ hw' = [hw EXCEPT !.obf = Nothing, !.uart = NoChar]
    /\ seen' = [seen EXCEPT !.want = <<>>, !.peeked = NoChar, !.threw = Threw]

\* One turn of the loop of console_dev_read: devfs_console_getc_nonblock takes a queued
\* character, else polls, else asks the UART; with none of them the reader yields.
console_dev_read ==
    LET D == IF IsEmpty(con) THEN Polled ELSE Decoder
        polls == IsEmpty(con)
        c == IF ~IsEmpty(D.con) THEN RingFront(D.con) ELSE hw.uart
        s == [seen EXCEPT !.peeked = NoChar, !.threw = IF polls THEN Threw ELSE @]
    IN  /\ CpuFree /\ reader.want > 0
        /\ UNCHANGED mouse
        /\ reader' = IF c = NoChar THEN reader ELSE Taken1(c)
        /\ IF c = "^C" THEN devfs_console_flush_input /\ UNCHANGED evs
           ELSE IF ~IsEmpty(D.con)
           THEN /\ hw' = IF polls THEN Inb ELSE hw
                /\ DecoderBecomes([D EXCEPT !.con = input_queue_pop(@, ConCap), !.want = Tail(@)], s)
           ELSE /\ hw' = [Inb EXCEPT !.uart = NoChar]
                /\ DecoderBecomes(D, s)

\* poll and select look at the next character.
devfs_console_peekc_nonblock ==
    LET D == IF IsEmpty(con) THEN Polled ELSE Decoder
        asks == IsEmpty(D.con) /\ hw.uart # NoChar
        c == IF ~IsEmpty(D.con) THEN RingFront(D.con) ELSE hw.uart
        D1 == IF asks THEN [D EXCEPT !.con = input_queue_push(@, ConCap, c), !.want = Append(@, c)] ELSE D
    IN  /\ CpuFree
        /\ hw' = IF IsEmpty(con) THEN [Inb EXCEPT !.uart = IF asks THEN NoChar ELSE @] ELSE hw
        /\ DecoderBecomes(D1, [seen EXCEPT !.peeked = c, !.threw = IF IsEmpty(con) THEN Threw ELSE @])
        /\ UNCHANGED <<mouse, reader>>

\* wait_for_input_event and wait_for_mice_pkt: a reader takes one event or waits.
event_read(q) ==
    /\ CpuFree /\ ~IsEmpty(evs[q])
    /\ evs' = [evs EXCEPT ![q] = input_queue_pop(@, IF q = "mice" THEN MiceCap ELSE EvCap)]
    /\ UNCHANGED <<hw, kbd, con, mouse, reader, seen>>

-----------------------------------------------------------------------------

InputInit ==
    /\ hw = [obf |-> Nothing, tx |-> <<>>, mtx |-> <<>>, irqs |-> {}, served |-> FALSE, uart |-> NoChar, sent |-> 0]
    /\ kbd = [e0 |-> FALSE, lshift |-> FALSE, lctrl |-> FALSE, capslock |-> FALSE, capsdown |-> FALSE]
    /\ con = Ring(ConCap, NoChar)
    /\ evs = [kbd |-> Ring(EvCap, <<"", FALSE>>), mouse |-> Ring(EvCap, <<"", FALSE>>), mice |-> Ring(MiceCap, <<>>)]
    /\ mouse = [pkt |-> <<>>, left |-> FALSE]
    /\ reader = NoRead
    /\ seen = [want |-> <<>>, peeked |-> NoChar, held |-> {}, threw |-> FALSE, crossed |-> FALSE, garbled |-> FALSE]

\* The world: keys and the mouse, bytes reaching the controller and the UART, programs reading.
key(k) ==
    /\ hw.tx = <<>> /\ hw.sent < MaxSent
    /\ \E down \in BOOLEAN :
          /\ down \/ k \in seen.held
          /\ hw' = [hw EXCEPT !.tx = Sent(k, ~down), !.sent = @ + 1]
          /\ seen' = [seen EXCEPT !.held = IF down THEN @ \cup {k} ELSE @ \ {k}]
    /\ UNCHANGED <<kbd, con, evs, mouse, reader>>

device_sends ==
    /\ \/ /\ hw.sent < MaxSent
          /\ \/ hw.tx = <<>> /\ \E n \in Noise : hw' = [hw EXCEPT !.tx = <<n>>, !.sent = @ + 1]
             \/ hw.mtx = <<>> /\ \E p \in MousePackets : hw' = [hw EXCEPT !.mtx = p, !.sent = @ + 1]
             \/ hw.uart = NoChar /\ \E c \in {"u", "cr"} : hw' = [hw EXCEPT !.uart = c, !.sent = @ + 1]
       \/ ~hw.obf.full /\ hw.tx # <<>> /\ hw' = [hw EXCEPT !.tx = Tail(@), !.irqs = @ \cup {1},
                                                !.obf = [aux |-> FALSE, b |-> Head(hw.tx), full |-> TRUE]]
       \/ ~hw.obf.full /\ hw.mtx # <<>> /\ hw' = [hw EXCEPT !.mtx = Tail(@), !.irqs = @ \cup {12},
                                                 !.obf = [aux |-> TRUE, b |-> Head(hw.mtx), full |-> TRUE]]
    /\ UNCHANGED <<kbd, con, evs, mouse, reader, seen>>

start_read ==
    /\ CpuFree /\ reader.want = 0
    /\ \E n \in 1 .. MaxReads : reader' = [want |-> n, got |-> <<>>]
    /\ UNCHANGED <<hw, kbd, con, evs, mouse, seen>>

InputNext ==
    \/ ps2_kbd_irq \/ mouse_irq_entry \/ (\E b \in MouseBytes : ps2_mouse_irq(b))
    \/ console_dev_read \/ devfs_console_peekc_nonblock \/ (\E q \in {"kbd", "mouse", "mice"} : event_read(q))
    \/ (\E k \in ScKeys : key(k)) \/ device_sends \/ start_read

InputSpec == InputInit /\ [][InputNext]_invars

-----------------------------------------------------------------------------

\* The console's ring holds exactly the characters accepted and not yet read, in their
\* order; a character that a poll reported is the next one read, whatever arrives in
\* between; a read that waits has no end of line yet.  Unless a poll of the console threw a
\* byte of the mouse away, the mouse's handler takes no byte of the keyboard and makes only
\* packets that the mouse sent.  (After that its interrupt is served without its byte: the
\* handler may take a key that has just arrived, and the packets are out of step.)
InputOK ==
    /\ Contents(con, ConCap) = seen.want
    /\ seen.peeked # NoChar => seen.want # <<>> /\ Head(seen.want) = seen.peeked
    /\ reader.want > 0 => Len(reader.got) < reader.want /\ ~Contains(reader.got, "nl")
    /\ seen.crossed \/ seen.garbled => seen.threw

=============================================================================
