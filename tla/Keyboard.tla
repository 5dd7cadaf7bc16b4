------------------------------ MODULE Keyboard ------------------------------
(***************************************************************************)
(* drivers/keyboard.c between the keyboard and the input loop of gui_run:  *)
(* the interrupt handler decodes scan codes (set 1) into characters and    *)
(* special keys and pushes them on two rings, the loop drains both.        *)
(*                                                                         *)
(* The keyboard itself is external: a key that goes down, repeats or goes  *)
(* up puts its bytes on the wire (the i8042 keeps them in order until the  *)
(* handler reads port 0x60).  ctrl and alt are set by the handler and read *)
(* by nothing: they are left out, their scan codes are in Silent.          *)
(***************************************************************************)
EXTENDS Integers, Sequences

CONSTANTS CircSize,   \* slots of circ
          ExtSize,    \* slots of extbuf
          Keys,       \* the keys of the keyboard
          MaxEvents   \* bound: key events of a behaviour

\* Rings with room for one value, and keys that are not the prefix 0xE0 itself.
ASSUME KeyboardAssumption ==
    /\ CircSize \in Nat /\ CircSize >= 2
    /\ ExtSize \in Nat /\ ExtSize >= 2
    /\ "e0" \notin Keys
    /\ MaxEvents \in Nat

VARIABLES down,       \* keys held down
          events,     \* key events so far
          wire,       \* bytes the handler has not read yet
          extended, shift, caps,
          circ, chead, ctail, cstep, cslot, cval,
          extbuf, ehead, etail, estep, eslot, eval,
          loop        \* where gui_run is in its input loop

device == <<down, events>>
decoder == <<extended, shift, caps>>
circVars == <<circ, chead, ctail, cstep, cslot, cval>>
extVars == <<extbuf, ehead, etail, estep, eslot, eval>>
vars == <<device, wire, decoder, circVars, extVars, loop>>

-----------------------------------------------------------------------------
(* Scan codes, by the name of the key that sends them. *)

ShiftCodes == {"lshift", "rshift"}

\* Special keys of the plain codes, and of the codes after the prefix 0xE0.
PlainKey == [up |-> "KEY_UP", down |-> "KEY_DOWN", left |-> "KEY_LEFT",
             right |-> "KEY_RIGHT", home |-> "KEY_HOME", end |-> "KEY_END",
             f10 |-> "KEY_MENU"]
ExtendedKey == [up |-> "KEY_UP", down |-> "KEY_DOWN", left |-> "KEY_LEFT",
                right |-> "KEY_RIGHT", home |-> "KEY_HOME", end |-> "KEY_END",
                pgup |-> "KEY_UP", pgdn |-> "KEY_DOWN"]

\* Codes whose make byte pushes nothing: ctrl, alt, and those both layouts map to
\* 0.  (The keypad's page-up code is not among them: it types a minus.)
Silent == {"ctrl", "alt", "f1", "pgdn"}

Printing(c) == c \notin ShiftCodes \cup {"caps"} \cup DOMAIN PlainKey \cup Silent

Special == {PlainKey[c] : c \in DOMAIN PlainKey}
Chars == {c \in Keys : Printing(c)} \X BOOLEAN   \* which key, and in upper case

C == INSTANCE Ring WITH Size <- CircSize, Msgs <- Chars, Blank <- <<"none", FALSE>>,
        buf <- circ, head <- chead, tail <- ctail, step <- cstep, slot <- cslot, val <- cval
K == INSTANCE Ring WITH Size <- ExtSize, Msgs <- Special, Blank <- "none",
        buf <- extbuf, head <- ehead, tail <- etail, step <- estep, slot <- eslot, val <- eval

-----------------------------------------------------------------------------
(* The keyboard. *)

Byte(c, r) == [code |-> c, rel |-> r]
E0 == Byte("e0", FALSE)

\* The grey cursor keys send a prefix, and around it a fake shift that undoes
\* the number lock.
Make(k) == IF k \in {"up", "pgup"}
           THEN <<E0, Byte("lshift", FALSE), E0, Byte(k, FALSE)>>
           ELSE <<Byte(k, FALSE)>>
Break(k) == IF k \in {"up", "pgup"}
            THEN <<E0, Byte(k, TRUE), E0, Byte("lshift", TRUE)>>
            ELSE <<Byte(k, TRUE)>>

KeyDown(k) == /\ events < MaxEvents
              /\ events' = events + 1
              /\ down' = down \cup {k}       \* again, if it repeats
              /\ wire' = wire \o Make(k)
              /\ UNCHANGED <<decoder, circVars, extVars, loop>>

KeyUp(k) == /\ events < MaxEvents
            /\ k \in down
            /\ events' = events + 1
            /\ down' = down \ {k}
            /\ wire' = wire \o Break(k)
            /\ UNCHANGED <<decoder, circVars, extVars, loop>>

-----------------------------------------------------------------------------
(* keyboard_handler: one byte, read with interrupts off. *)

code == Head(wire).code
rel == Head(wire).rel

Read == wire # <<>> /\ wire' = Tail(wire) /\ UNCHANGED <<device, loop>>

PushChar(c) == (C!Push(c) \/ C!Drop) /\ UNCHANGED extVars
PushExt(k) == (K!Push(k) \/ K!Drop) /\ UNCHANGED circVars
NoPush == UNCHANGED <<circVars, extVars>>

Prefix == /\ Read
          /\ code = "e0"
          /\ extended' = TRUE
          /\ NoPush
          /\ UNCHANGED <<shift, caps>>

\* Mutant: a release after the prefix leaves extended set.
AfterPrefixKept == /\ Read
                   /\ code # "e0"
                   /\ extended
                   /\ extended' = rel
                   /\ IF ~rel /\ code \in DOMAIN ExtendedKey
                      THEN PushExt(ExtendedKey[code]) ELSE NoPush
                   /\ UNCHANGED <<shift, caps>>

AfterPrefix == /\ Read
               /\ code # "e0"
               /\ extended
               /\ extended' = FALSE
               /\ IF ~rel /\ code \in DOMAIN ExtendedKey
                  THEN PushExt(ExtendedKey[code]) ELSE NoPush
               /\ UNCHANGED <<shift, caps>>

Plain == Read /\ code # "e0" /\ ~extended /\ UNCHANGED extended

\* Mutant: a release of shift is taken for a press.
ShiftStuck == /\ Plain
              /\ code \in ShiftCodes
              /\ shift' = TRUE
              /\ NoPush
              /\ UNCHANGED caps

Shift == /\ Plain
         /\ code \in ShiftCodes
         /\ shift' = ~rel
         /\ NoPush
         /\ UNCHANGED caps

Caps == /\ Plain
        /\ code = "caps"
        /\ ~rel
        /\ caps' = ~caps
        /\ NoPush
        /\ UNCHANGED shift

Ignored == /\ Plain
           /\ code \notin ShiftCodes
           /\ rel \/ code \in Silent
           /\ NoPush
           /\ UNCHANGED <<shift, caps>>

SpecialKey == /\ Plain
              /\ ~rel
              /\ code \in DOMAIN PlainKey
              /\ PushExt(PlainKey[code])
              /\ UNCHANGED <<shift, caps>>

Char == /\ Plain
        /\ ~rel
        /\ Printing(code)
        /\ PushChar(<<code, shift # caps>>)
        /\ UNCHANGED <<shift, caps>>

Irq1 == Prefix \/ AfterPrefix \/ Shift \/ Caps \/ Ignored \/ SpecialKey \/ Char

-----------------------------------------------------------------------------
(* The input loop of gui_run:                                                *)
(*   while(kbd_has_char()||kbd_has_key()){                                   *)
(*     if(kbd_has_char()) kbd_getchar(); else if(kbd_has_key()) kbd_getkey() *)
(* Its last else, a break, is dead: nothing but this loop empties a ring.    *)

Quiet == UNCHANGED <<device, wire, decoder>>

WhileChar == /\ loop = "while"
             /\ loop' = IF C!NonEmpty THEN "if" ELSE "whileKey"
             /\ NoPush /\ Quiet

\* Mutant: the loop ends when there are no characters.
WhileKeySkipped == /\ loop = "whileKey"
                   /\ loop' = "frame"
                   /\ NoPush /\ Quiet

WhileKey == /\ loop = "whileKey"
            /\ loop' = IF K!NonEmpty THEN "if" ELSE "frame"
            /\ NoPush /\ Quiet

IfChar == /\ loop = "if"
          /\ IF C!NonEmpty
             THEN C!Begin /\ loop' = "char" /\ UNCHANGED extVars
             ELSE loop' = "ifKey" /\ NoPush
          /\ Quiet

IfKey == /\ loop = "ifKey"
         /\ K!Begin
         /\ loop' = "key"
         /\ UNCHANGED circVars
         /\ Quiet

GetChar == /\ loop = "char"
           /\ C!Load \/ C!Advance
           /\ UNCHANGED <<extVars, loop>>
           /\ Quiet

GetKey == /\ loop = "key"
          /\ K!Load \/ K!Advance
          /\ UNCHANGED <<circVars, loop>>
          /\ Quiet

\* The value is dispatched to a window (module Gui) and the loop goes on.
Dispatch == /\ \/ loop = "char" /\ C!Return /\ UNCHANGED extVars
               \/ loop = "key" /\ K!Return /\ UNCHANGED circVars
            /\ loop' = "while"
            /\ Quiet

\* The rest of the frame: mouse, animations, drawing.
Frame == /\ loop = "frame"
         /\ loop' = "while"
         /\ NoPush /\ Quiet

GuiRun == \/ WhileChar \/ WhileKey \/ IfChar \/ IfKey
          \/ GetChar \/ GetKey \/ Dispatch \/ Frame

-----------------------------------------------------------------------------

\* keyboard_init: both rings empty, the i8042 drained.
Init == /\ down = {} /\ events = 0 /\ wire = <<>>
        /\ extended = FALSE /\ shift = FALSE /\ caps = FALSE
        /\ C!RingInit
        /\ K!RingInit
        /\ loop = "while"

Next == \/ \E k \in Keys : KeyDown(k) \/ KeyUp(k)
        \/ Irq1
        \/ GuiRun

\* The processor takes a pending interrupt between two instructions and the
\* main loop never blocks: both make progress.  Nobody has to press a key.
Spec == Init /\ [][Next]_vars /\ WF_vars(Irq1) /\ WF_vars(GuiRun)

-----------------------------------------------------------------------------

\* The type of the decoder, of both rings and of the readers' registers.
TypeOK == /\ down \subseteq Keys
          /\ events \in 0..MaxEvents
          /\ extended \in BOOLEAN /\ shift \in BOOLEAN /\ caps \in BOOLEAN
          /\ C!RingTypeOK
          /\ K!RingTypeOK
          /\ loop \in {"while", "whileKey", "if", "ifKey", "char", "key", "frame"}

\* Once every byte has been read the decoder is back in step with the keyboard:
\* no prefix is pending and shift is set only while a shift key is held, though
\* the cursor keys send shift codes of their own.
InStep == wire = <<>> => /\ ~extended
                         /\ shift => down \cap ShiftCodes # {}

\* Characters, and special keys, reach the event loop in the order they were typed,
\* each once, with the handler running between the steps of kbd_getchar and
\* kbd_getkey; a reader between its test, its load and its store never holds
\* values that pushes of the handler have made stale.
InOrder == /\ C!IsFifo /\ K!IsFifo
           /\ [](C!ReaderConsistent /\ K!ReaderConsistent)

\* A keystroke is dropped only when its ring is full.
DropsOnlyWhenFull ==
    [][/\ Char /\ Len(C!Contents) < CircSize - 1 => Len(C!Contents)' = Len(C!Contents) + 1
       /\ SpecialKey /\ Len(K!Contents) < ExtSize - 1
            => Len(K!Contents)' = Len(K!Contents) + 1]_vars

\* Whatever was typed is read from the wire and out of both rings in the end: no
\* keystroke is left behind when the two tests of the loop race the handler.
EverythingIsRead == <>[](wire = <<>> /\ ~C!NonEmpty /\ ~K!NonEmpty)
=============================================================================
