-------------------------------- MODULE Ps2 --------------------------------
(***************************************************************************)
(* Keyboard and touchpad: drivers/ps2/ps2.c, which sorts the bytes of the  *)
(* PS/2 controller into a ring for each device, and what is stacked on it: *)
(* hid/hid.c, hid/keyboard.c and usb/touchpad_adapter.c.                   *)
(*                                                                         *)
(* The bytes on their way are in three queues, that of the controller      *)
(* itself, the mouse's and the keyboard's; how far each has arrived when   *)
(* the driver looks is open.  A byte is [v, pos]: its value, and, for the  *)
(* properties only, its place in a mouse packet (0, 1, 2; ANSWER for any   *)
(* other byte).                                                            *)
(***************************************************************************)
EXTENDS Integers, Sequences

CONSTANTS
    PS2_BUF_SIZE,
    Packets,            \* what the mouse reports: triples of bytes
    KeyBytes,           \* what the keyboard sends
    ConfigByte,         \* the controller's configuration
    MaxPackets, MaxKeys

ASSUME Ps2Assumption ==
    /\ PS2_BUF_SIZE \in Nat \ {0}
    /\ Packets \subseteq [1 .. 3 -> 0 .. 255]
    /\ KeyBytes \subseteq 0 .. 255 /\ ConfigByte \in 0 .. 255
    /\ MaxPackets \in Nat /\ MaxKeys \in Nat

ANSWER == 3
Byte(v, pos) == [v |-> v, pos |-> pos]
ACK    == Byte(250, ANSWER)
Zero   == Byte(0, ANSWER)
Bytes  == [v : 0 .. 255, pos : 0 .. 3]
AbsMax == 32767          \* of the normalised positions
Bit(v, mask) == (v \div mask) % 2 = 1

VARIABLES
    fromCtl, fromMouse, fromKeys,
    hasMouse, reporting, \* is there a mouse, and does it report
    keyboardOn,          \* the keyboard is not disabled in the configuration
    mouse, kbd,          \* the rings: [buf, head, tail]
    abs_pos_x, abs_pos_y,
    g_using_usb,
    g_last_scancode,     \* 0: none
    clean,               \* observed: no byte of the mouse dropped, no answer in its ring
    packets, keys

state   == <<hasMouse, reporting, keyboardOn, packets, keys>>
devices == <<fromCtl, fromMouse, fromKeys, state>>
driver  == <<mouse, kbd, abs_pos_x, abs_pos_y, clean>>
ps2Vars == <<devices, driver, g_using_usb, g_last_scancode>>

EmptyRing == [buf |-> [k \in 0 .. PS2_BUF_SIZE - 1 |-> Zero], head |-> 0, tail |-> 0]

Ps2Init ==
    /\ fromCtl = <<>> /\ fromMouse = <<>> /\ fromKeys = <<>>
    /\ hasMouse \in BOOLEAN /\ reporting = FALSE /\ keyboardOn = TRUE
    /\ mouse = EmptyRing /\ kbd = EmptyRing
    /\ abs_pos_x = 16384 /\ abs_pos_y = 16384
    /\ g_using_usb \in BOOLEAN      \* xhci_is_present(), see Xhci
    /\ g_last_scancode = 0
    /\ clean = TRUE /\ packets = 0 /\ keys = 0

-----------------------------------------------------------------------------
(* The devices.  The mouse does not report while a whole packet waits.      *)
MouseReports(p) ==
    /\ reporting /\ packets < MaxPackets /\ Len(fromMouse) < 3
    /\ fromMouse' = fromMouse \o [k \in 1 .. 3 |-> Byte(p[k], k - 1)]
    /\ packets' = packets + 1
    /\ UNCHANGED <<fromCtl, fromKeys, hasMouse, reporting, keyboardOn, keys>>

KeySends(v) ==
    /\ keyboardOn /\ keys < MaxKeys
    /\ fromKeys' = Append(fromKeys, Byte(v, ANSWER)) /\ keys' = keys + 1
    /\ UNCHANGED <<fromCtl, fromMouse, hasMouse, reporting, keyboardOn, packets>>

-----------------------------------------------------------------------------
(* ps2_touchpad_init, in four parts: up to each place where it waits for an *)
(* answer.  It gives up on the first, and ignores the other two; what it    *)
(* reads is whatever byte comes first, of whichever device.                 *)
AskConfig ==
    /\ fromCtl' = Append(fromCtl, Byte(ConfigByte, ANSWER))
    /\ UNCHANGED <<fromMouse, fromKeys, state, driver>>

Answers(mq) == IF hasMouse THEN Append(mq, ACK) ELSE mq

(* The byte is taken for the configuration, and written back with the mouse *)
(* enabled; bit 4 disables the keyboard.  The mouse has nothing to say yet. *)
WriteConfig ==
    /\ \/ /\ fromCtl # <<>> /\ fromCtl' = Tail(fromCtl) /\ UNCHANGED fromKeys
          /\ keyboardOn' = ~Bit(Head(fromCtl).v, 16)
       \/ /\ fromKeys # <<>> /\ fromKeys' = Tail(fromKeys) /\ UNCHANGED fromCtl
          /\ keyboardOn' = ~Bit(Head(fromKeys).v, 16)
    /\ fromMouse' = Answers(fromMouse)
    /\ UNCHANGED <<hasMouse, reporting, packets, keys, driver>>

(* A byte is read and ignored, or none came in time.                        *)
AwaitAck(mq) ==
    \/ mq # <<>> /\ fromMouse' = Tail(mq) /\ UNCHANGED <<fromCtl, fromKeys>>
    \/ fromMouse' = mq /\ fromCtl # <<>> /\ fromCtl' = Tail(fromCtl) /\ UNCHANGED fromKeys
    \/ fromMouse' = mq /\ fromKeys # <<>> /\ fromKeys' = Tail(fromKeys) /\ UNCHANGED fromCtl
    \/ fromMouse' = mq /\ UNCHANGED <<fromCtl, fromKeys>>

SetDefaults == AwaitAck(fromMouse) /\ UNCHANGED <<state, driver>>

EnableReporting ==
    /\ AwaitAck(Answers(fromMouse))
    /\ reporting' = hasMouse
    /\ UNCHANGED <<hasMouse, keyboardOn, packets, keys, driver>>

-----------------------------------------------------------------------------
(* The rings.  One place stays free; a byte that has been read is forgotten *)
(* here, as nothing reads it again.                                         *)
Count(r)  == (r.head + PS2_BUF_SIZE - r.tail) % PS2_BUF_SIZE
At(r, k)  == r.buf[(r.tail + k) % PS2_BUF_SIZE]

ring_push(r, b) ==
    LET next == (r.head + 1) % PS2_BUF_SIZE
    IN  IF next = r.tail THEN r
        ELSE [buf |-> [r.buf EXCEPT ![r.head] = b], head |-> next, tail |-> r.tail]

(* ring_pop, k times.                                                       *)
Popped(r, k) ==
    [buf  |-> [p \in 0 .. PS2_BUF_SIZE - 1 |->
                  IF (p + PS2_BUF_SIZE - r.tail) % PS2_BUF_SIZE < k THEN Zero ELSE r.buf[p]],
     head |-> r.head,
     tail |-> (r.tail + k) % PS2_BUF_SIZE]

Filled(r, bytes) ==
    LET after[k \in 0 .. Len(bytes)] == IF k = 0 THEN r ELSE ring_push(after[k - 1], bytes[k])
    IN  after[Len(bytes)]

(* ps2_process_incoming: what has arrived, m bytes of the mouse's and the   *)
(* first bytes of the others, goes to the rings; the status bit AUX tells   *)
(* the mouse's from the others.                                             *)
Arrivals == [m : 0 .. Len(fromMouse), c : 0 .. Len(fromCtl), k : 0 .. Len(fromKeys)]
MouseIn(a) == Filled(mouse, SubSeq(fromMouse, 1, a.m))
KeysIn(a)  == Filled(kbd, SubSeq(fromCtl, 1, a.c) \o SubSeq(fromKeys, 1, a.k))

ps2_process_incoming(a) ==
    /\ fromMouse' = SubSeq(fromMouse, a.m + 1, Len(fromMouse))
    /\ fromCtl' = SubSeq(fromCtl, a.c + 1, Len(fromCtl))
    /\ fromKeys' = SubSeq(fromKeys, a.k + 1, Len(fromKeys))
    /\ clean' = (/\ clean
                 /\ Count(mouse) + a.m < PS2_BUF_SIZE
                 /\ \A j \in 1 .. a.m : fromMouse[j].pos # ANSWER)
    /\ UNCHANGED state

(* touchpad_poll: the groups of three bytes in the ring.  One whose first   *)
(* byte lacks bit 3 is skipped as a whole; of the others the motion is      *)
(* added up, and the last one has the buttons.  What is left over is put    *)
(* back.                                                                    *)
Groups(r)  == 0 .. (Count(r) \div 3) - 1
Reports(r) == {g \in Groups(r) : Bit(At(r, 3 * g).v, 8)}
DeltaX(r, g) == At(r, 3 * g + 1).v - (IF Bit(At(r, 3 * g).v, 16) THEN 256 ELSE 0)
DeltaY(r, g) == At(r, 3 * g + 2).v - (IF Bit(At(r, 3 * g).v, 32) THEN 256 ELSE 0)

Clamp(v, low, high) == IF v < low THEN low ELSE IF v > high THEN high ELSE v

(* The sum of one axis of the reports; delta has it for every group.        *)
Total(r, delta) ==
    LET sum[g \in 0 .. Count(r) \div 3] ==
            IF g = 0 THEN 0
            ELSE sum[g - 1] + (IF g - 1 \in Reports(r) THEN delta[g - 1] ELSE 0)
    IN  Clamp(sum[Count(r) \div 3], -128, 127)

Last(S) == CHOOSE g \in S : \A h \in S : h <= g

(* What a poll says that finds ring r.                                      *)
Poll(r) ==
    IF Reports(r) = {} THEN [have |-> FALSE, dx |-> 0, dy |-> 0, buttons |-> {}]
    ELSE [have |-> TRUE,
          dx |-> Total(r, [g \in Groups(r) |-> DeltaX(r, g)]),
          dy |-> Total(r, [g \in Groups(r) |-> DeltaY(r, g)]),
          buttons |-> {k \in 0 .. 2 : Bit(At(r, 3 * Last(Reports(r))).v, 2^k)}]

(* Faulty variant: of two bytes left over one is put back.                  *)
Consumed_OneBack(r) == 3 * (Count(r) \div 3) + (IF Count(r) % 3 = 2 THEN 1 ELSE 0)

Consumed(r) == 3 * (Count(r) \div 3)

touchpad_poll(a, r, p) ==
    /\ mouse' = Popped(r, Consumed(r)) /\ kbd' = KeysIn(a)
    /\ abs_pos_x' = Clamp(abs_pos_x + p.dx * 512, 0, AbsMax)
    /\ abs_pos_y' = Clamp(abs_pos_y - p.dy * 512, 0, AbsMax)
    /\ UNCHANGED <<g_using_usb, g_last_scancode>>

(* ps2_keyboard_poll: break codes, prefixes and answers, all with bit 7, are*)
(* skipped up to the first make code.                                       *)
Makes(r) == {k \in 0 .. Count(r) - 1 : ~Bit(At(r, k).v, 128)}
FirstMake(r) == CHOOSE k \in Makes(r) : \A h \in Makes(r) : k <= h

(* Faulty variant: what is not a make code stays.                           *)
Skipped_None(r) == 0

Skipped(r) == Count(r)

(* keyboard_task: the latest make code is kept for the GUI.                 *)
keyboard_task(a) ==
    /\ ps2_process_incoming(a)
    /\ mouse' = MouseIn(a)
    /\ \E r \in {KeysIn(a)} :
           IF Makes(r) # {}
           THEN /\ kbd' = Popped(r, FirstMake(r) + 1)
                /\ g_last_scancode' = At(r, FirstMake(r)).v
           ELSE kbd' = Popped(r, Skipped(r)) /\ UNCHANGED g_last_scancode
    /\ UNCHANGED <<abs_pos_x, abs_pos_y, g_using_usb>>

-----------------------------------------------------------------------------
Ps2TypeOK ==
    /\ \A r \in {mouse, kbd} : /\ r.buf \in [0 .. PS2_BUF_SIZE - 1 -> Bytes]
                               /\ {r.head, r.tail} \subseteq 0 .. PS2_BUF_SIZE - 1
    /\ abs_pos_x \in 0 .. AbsMax /\ abs_pos_y \in 0 .. AbsMax
    /\ g_last_scancode \in 0 .. 127

(* Every packet that is decoded is one that the mouse sent: as long as no   *)
(* byte was dropped by a full ring and no late answer to the initialisation *)
(* got in, what is in the ring starts with the first byte of a packet,      *)
(* however the bytes arrived between the polls of the two devices           *)
(* (ps2.c:178-219).  After such a byte nothing brings the driver back in    *)
(* step, as a group without bit 3 is skipped whole.                         *)
InStep == clean => \A k \in 0 .. Count(mouse) - 1 : At(mouse, k).pos = k % 3
=============================================================================
