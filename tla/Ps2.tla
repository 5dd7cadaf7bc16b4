--------------------------------- MODULE Ps2 ---------------------------------
(***************************************************************************)
(* The i8042 controller and the code that shares its one output buffer:    *)
(* the interrupt handlers of the keyboard and the mouse, and the boot code *)
(* that polls with interrupts enabled (keyboard_init, mouse_init and the   *)
(* sixth led_blink, in the order of kmain).                                *)
(*                                                                         *)
(* A byte is named by what it is to its sender.  What keys mean is the     *)
(* business of Keyboard; here a key is one scan code.                      *)
(***************************************************************************)
EXTENDS Naturals, Sequences

CONSTANTS Early,    \* what the user may do before the loop runs
          Blinks    \* n of led_blink(n)

ASSUME Ps2Assumption == Early \subseteq {"key", "move"} /\ Blinks \in Nat

NONE == "none"

\* Bytes of the mouse: an acknowledge, the three of a packet.  A movement may
\* look like the first byte of a packet (bit 3).
Marked == {"mouse ack", "first", "dx marked", "dy marked"}
Aux == Marked \cup {"dx", "dy"}
Byte == Aux \cup {"scan", "ack", "config"}

Config == [int1 : BOOLEAN, int12 : BOOLEAN, kbdOff : BOOLEAN, auxOff : BOOLEAN]

VARIABLES out,       \* the byte that waits at port 0x60, or NONE
          data,      \* the byte last seen there: what a read without one gives
          irr,       \* interrupts requested and not yet taken
          queue,     \* what the controller, the keyboard and the mouse have to send
          config,    \* the controller's command byte
          led,       \* the lamp of CapsLock
          expects,   \* the keyboard waits for the byte that follows 0xED
          reports,   \* the mouse reports movements
          handler,   \* the lines with a registered handler
          pc,        \* the step of the boot code that comes next
          st,        \* mouse_init's copy of the command byte
          left,      \* calls of kbd_leds still to make
          cycle      \* bytes of the packet in b[]

device == <<queue, led, expects, reports>>
vars == <<out, data, irr, queue, config, led, expects, reports, handler, pc, st, left, cycle>>

-----------------------------------------------------------------------------
(* The hardware. *)

Line(b) == IF b \in Aux THEN 12 ELSE 1
Sources == {"controller", "keyboard", "mouse"}

Enabled(s) == CASE s = "controller" -> TRUE
                [] s = "keyboard" -> ~config.kbdOff
                [] s = "mouse" -> ~config.auxOff

\* The next byte of a device takes the free buffer and requests its interrupt.
Deliver(s) ==
    /\ out = NONE /\ queue[s] # <<>> /\ Enabled(s)
    /\ LET b == Head(queue[s]) IN
       /\ out' = b /\ data' = b
       /\ irr' = IF (Line(b) = 1 /\ config.int1) \/ (Line(b) = 12 /\ config.int12)
                 THEN irr \cup {Line(b)} ELSE irr
    /\ queue' = [queue EXCEPT ![s] = Tail(@)]
    /\ UNCHANGED <<config, led, expects, reports, handler, pc, st, left, cycle>>

\* The user.  A device holds back while it has something to send.
Free(what) == pc = "loop" \/ what \in Early

PressKey ==
    /\ Free("key") /\ queue["keyboard"] = <<>>
    /\ queue' = [queue EXCEPT !["keyboard"] = <<"scan">>]
    /\ UNCHANGED <<out, data, irr, config, led, expects, reports, handler, pc, st, left, cycle>>

MoveMouse ==
    /\ Free("move") /\ reports /\ queue["mouse"] = <<>>
    /\ \E x \in {"dx", "dx marked"}, y \in {"dy", "dy marked"} :
         queue' = [queue EXCEPT !["mouse"] = <<"first", x, y>>]
    /\ UNCHANGED <<out, data, irr, config, led, expects, reports, handler, pc, st, left, cycle>>

\* A read of port 0x60.  Of the requests still pending, the one for the byte that
\* is gone may be withdrawn or stay with the interrupt controller.
In60(pending) == out' = NONE /\ irr' \in {{}, pending}

\* What the devices answer to a command.
Answers(s, b) == queue' = [queue EXCEPT ![s] = Append(@, b)]

-----------------------------------------------------------------------------
(* The handlers.  Without one the interrupt is acknowledged and the byte stays. *)

Skip(n) == irr' = irr \ {n} /\ UNCHANGED <<out, cycle>>

\* It does not look whose byte it is, nor whether there is one.
KeyboardHandler == In60(irr \ {1}) /\ UNCHANGED cycle

\* Mutant: any byte may begin a packet.
MouseHandlerUnmarked ==
    IF out \in Aux THEN In60(irr \ {12}) /\ cycle' = (cycle + 1) % 3 ELSE Skip(12)

\* Mutant: the packet is not closed.
MouseHandlerOpen ==
    IF out \in Aux
    THEN In60(irr \ {12}) /\ cycle' = IF cycle = 0 /\ out \notin Marked THEN 0 ELSE cycle + 1
    ELSE Skip(12)

\* A byte that cannot be the first of a packet is skipped.
MouseHandler ==
    IF out \in Aux
    THEN /\ In60(irr \ {12})
         /\ cycle' = IF cycle = 0 /\ out \notin Marked THEN 0 ELSE (cycle + 1) % 3
    ELSE Skip(12)

\* irq_handler
Interrupt(n) ==
    /\ n \in irr
    /\ \/ n \notin handler /\ Skip(n)
       \/ n = 1 /\ n \in handler /\ KeyboardHandler
       \/ n = 12 /\ n \in handler /\ MouseHandler
    /\ UNCHANGED <<data, queue, config, led, expects, reports, handler, pc, st, left>>

-----------------------------------------------------------------------------
(* The boot code.  Its waits for room in the input buffer always succeed. *)

At(here, next) == pc = here /\ pc' = next

\* No device that may send has b to send: a wait for it runs out of polls.
Lost(b) == \A s \in {x \in Sources : Enabled(x)} : \A i \in DOMAIN queue[s] : queue[s][i] # b

\* keyboard_init throws away what waits, then registers its handler.
Drain ==
    /\ IF out # NONE THEN In60(irr) /\ UNCHANGED pc
                     ELSE At("drain", "hook1") /\ UNCHANGED <<out, irr>>
    /\ pc = "drain"
    /\ UNCHANGED <<data, queue, config, led, expects, reports, handler, st, left, cycle>>

Hook(here, next, n) ==
    /\ At(here, next)
    /\ handler' = handler \cup {n}
    /\ UNCHANGED <<out, data, irr, queue, config, led, expects, reports, st, left, cycle>>

\* mouse_init: 0xA8 enables the mouse's port, 0x20 asks for the command byte.
Ask ==
    /\ At("ask", "answer")
    /\ config' = [config EXCEPT !.auxOff = FALSE]
    /\ Answers("controller", "config")
    /\ UNCHANGED <<out, data, irr, led, expects, reports, handler, st, left, cycle>>

\* mouse_wait(0) and mouse_read: the byte that waits, whatever it is; or, when the
\* answer b has been read by someone else, what is left in the register.
MouseRead(here, next, b) ==
    /\ At(here, next)
    /\ out # NONE \/ Lost(b)
    /\ st' = IF out # NONE THEN out ELSE data
    /\ In60(irr)
    /\ UNCHANGED <<data, queue, config, led, expects, reports, handler, left, cycle>>

\* Any byte but the command byte itself makes some command byte, here with every
\* value of the bits that matter.
Command(b) == IF b = "config" THEN {[config EXCEPT !.int12 = TRUE]}
              ELSE {c \in Config : c.int12}

WriteConfig ==
    /\ At("config", "reset")
    /\ config' \in Command(st)
    /\ UNCHANGED <<out, data, irr, queue, led, expects, reports, handler, st, left, cycle>>

\* mouse_write of 0xF6, then of 0xF4.
MouseWrite(here, next) ==
    /\ At(here, next)
    /\ Answers("mouse", "mouse ack")
    /\ reports' = (here = "start")
    /\ UNCHANGED <<out, data, irr, config, led, expects, handler, st, left, cycle>>

\* kbd_leds: 0xED.  A keyboard that still waits for a mask takes this byte for one,
\* whose bit for CapsLock is set, or for a new command.
LedCommand ==
    /\ At("led", "acked?") /\ left > 0
    /\ \/ expects' = TRUE /\ UNCHANGED led
       \/ expects /\ expects' = FALSE /\ led' = TRUE
    /\ Answers("keyboard", "ack")
    /\ UNCHANGED <<out, data, irr, config, reports, handler, st, left, cycle>>

Wanted == left % 2 = 0

\* The mask that follows.
LedMask ==
    /\ At("mask", "shown?")
    /\ IF expects THEN led' = Wanted /\ expects' = FALSE ELSE UNCHANGED <<led, expects>>
    /\ Answers("keyboard", "ack")
    /\ UNCHANGED <<out, data, irr, config, reports, handler, st, left, cycle>>

\* Where kbd_ack goes from here with the byte it has read: on with an acknowledge of
\* either device (0xFA), to the next poll, or out of kbd_leds when told to resend
\* (0xFE).  A movement can have either value.
AfterByte(here, next) ==
    CASE out \in {"ack", "mouse ack"} -> {next}
      [] out \in {"dx marked", "dy marked"} -> {here, next, "shown"}
      [] OTHER -> {here}

\* Mutant: kbd_ack leaves the bytes of the mouse alone.
KbdAckOwn(here, next) ==
    /\ pc = here /\ out # NONE /\ Line(out) = 1
    /\ In60(irr) /\ pc' \in AfterByte(here, next)
    /\ UNCHANGED <<data, config, device, handler, st, left, cycle>>

\* kbd_ack reads everything until it meets the acknowledge.
KbdAck(here, next) ==
    /\ pc = here /\ out # NONE
    /\ In60(irr) /\ pc' \in AfterByte(here, next)
    /\ UNCHANGED <<data, config, device, handler, st, left, cycle>>

\* It polls a bounded number of times, which run out when somebody else has read
\* the acknowledge; kbd_leds then goes without it.
KbdAckGivesUp ==
    /\ pc \in {"acked?", "shown?"} /\ pc' = "shown"
    /\ out # "ack" /\ Lost("ack")
    /\ UNCHANGED <<out, data, irr, config, device, handler, st, left, cycle>>

\* led_wait
LedWait ==
    /\ At("shown", "led")
    /\ left' = left - 1
    /\ UNCHANGED <<out, data, irr, queue, config, led, expects, reports, handler, st, cycle>>

GuiRun ==
    /\ At("led", "loop") /\ left = 0
    /\ UNCHANGED <<out, data, irr, queue, config, led, expects, reports, handler, st, left, cycle>>

Boot == \/ Drain \/ Hook("hook1", "ask", 1)
        \/ Ask \/ MouseRead("answer", "config", "config") \/ WriteConfig
        \/ MouseWrite("reset", "reset?") \/ MouseRead("reset?", "start", "mouse ack")
        \/ MouseWrite("start", "start?") \/ MouseRead("start?", "hook12", "mouse ack")
        \/ Hook("hook12", "led", 12)
        \/ LedCommand \/ KbdAck("acked?", "mask")
        \/ LedMask \/ KbdAck("shown?", "shown") \/ LedWait
        \/ GuiRun

-----------------------------------------------------------------------------

\* After led_blink(5): both lines are unmasked and neither has a handler.  A key
\* pressed before may have left its scan code.
Init ==
    /\ out \in {NONE, "scan"} /\ data = "scan" /\ irr = {}
    /\ queue = [s \in Sources |-> <<>>]
    /\ config \in {c \in Config : c.int1 /\ ~c.kbdOff}
    /\ led = FALSE /\ expects = FALSE /\ reports = FALSE
    /\ handler = {} /\ pc = "drain" /\ st = "config" /\ left = 2 * Blinks /\ cycle = 0

Next == \/ Boot \/ KbdAckGivesUp
        \/ \E n \in {1, 12} : Interrupt(n)
        \/ \E s \in Sources : Deliver(s)
        \/ PressKey \/ MoveMouse

\* The processor runs and takes interrupts; the controller lets each device have
\* its turn.  The user owes nothing.
Spec == /\ Init /\ [][Next]_vars
        /\ WF_vars(Boot) /\ WF_vars(KbdAckGivesUp)
        /\ \A n \in {1, 12} : WF_vars(Interrupt(n))
        /\ \A s \in Sources : SF_vars(Deliver(s))

-----------------------------------------------------------------------------

TypeOK ==
    /\ out \in Byte \cup {NONE} /\ data \in Byte /\ irr \subseteq {1, 12}
    /\ queue \in [Sources -> Seq(Byte)]
    /\ config \in Config
    /\ led \in BOOLEAN /\ expects \in BOOLEAN /\ reports \in BOOLEAN
    /\ handler \subseteq {1, 12} /\ st \in Byte /\ left \in 0..(2 * Blinks)
    /\ cycle \in 0..2

\* The buffer is never blocked for ever: a byte that came when its line had no
\* handler, and so will never be asked for by an interrupt, is found by somebody
\* who polls.
NothingStuck == []<>(out = NONE)

\* The byte of the mouse that is handled next.
Coming == IF out \in Aux THEN out
          ELSE IF queue["mouse"] # <<>> THEN Head(queue["mouse"]) ELSE "first"
Aligned == Coming \in CASE cycle = 0 -> {"first"}
                        [] cycle = 1 -> {"dx", "dx marked"}
                        [] cycle = 2 -> {"dy", "dy marked"}

\* A packet that lost a byte while the system booted does not shift all later ones:
\* once movements stop looking like first bytes, the packets are whole again.
Resynchronised ==
    /\ <>[](\A s \in Sources : \A i \in DOMAIN queue[s] :
                queue[s][i] \notin {"dx marked", "dy marked"})
    /\ []<>(queue["mouse"] # <<>>)
    => <>[]Aligned

\* docs.html:124 says a key works from anywhere: each reaches port 0x60.
KeysArrive == []<>(queue["keyboard"] = <<>>)
=============================================================================
