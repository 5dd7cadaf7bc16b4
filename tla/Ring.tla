-------------------------------- MODULE Ring --------------------------------
(***************************************************************************)
(* The circular buffers of drivers/keyboard.c (circ for characters, extbuf *)
(* for special keys): the interrupt handler pushes, the event loop takes.  *)
(*                                                                         *)
(* A push runs in the handler, with interrupts off: it is one step.  The   *)
(* event loop runs with interrupts on, so kbd_getchar is a load of the     *)
(* slot and a store of the tail with a push possible before, between and   *)
(* after them.  Neither variable is volatile, so the build may put the two *)
(* in either order: both are modelled.                                     *)
(***************************************************************************)
EXTENDS Integers

CONSTANTS Size,   \* slots of the buffer: 512 for circ, 128 for extbuf
          Msgs,   \* what is queued
          Blank   \* contents of a slot never written

\* A ring of one slot is always full and always empty.
SizeOK == Size \in Nat /\ Size >= 2

VARIABLES buf,    \* circ, extbuf
          head,   \* chead, ehead: written by the handler only
          tail,   \* ctail, etail: written by the event loop only
          step,   \* where the event loop is in kbd_getchar / kbd_getkey
          slot,   \* the tail it loaded
          val     \* the value it loaded

ringVars == <<buf, head, tail, step, slot, val>>

Slots == 0..(Size - 1)

\* Mutant: the index is wrapped one slot too late.
SuccNoWrap(i) == IF i = Size THEN 0 ELSE i + 1

\* (i+1) % Size
Succ(i) == IF i = Size - 1 THEN 0 ELSE i + 1

RingInit == /\ buf = [i \in Slots |-> Blank]
            /\ head = 0
            /\ tail = 0
            /\ step = "idle"
            /\ slot = 0
            /\ val = Blank

\* Mutants: the test for a full buffer is left out, or is one slot off.
FullNever == FALSE
FullEarly == Succ(head) = tail \/ Succ(Succ(head)) = tail

Full == Succ(head) = tail

Push(m) == /\ ~Full
           /\ buf' = [buf EXCEPT ![head] = m]
           /\ head' = Succ(head)
           /\ UNCHANGED <<tail, step, slot, val>>

Drop == Full /\ UNCHANGED ringVars

\* kbd_has_char() / kbd_has_key()
NonEmpty == head # tail

\* Mutant: the value is taken from the slot after the tail.
BeginLate == /\ step = "idle"
             /\ NonEmpty
             /\ step' = "both"
             /\ slot' = Succ(tail)
             /\ UNCHANGED <<buf, head, tail, val>>

Begin == /\ step = "idle"
         /\ NonEmpty
         /\ step' = "both"
         /\ slot' = tail
         /\ UNCHANGED <<buf, head, tail, val>>

\* Load the slot: as the first of the two steps, or as the second.
Load == /\ \/ step = "both" /\ step' = "advance"
           \/ step = "load" /\ step' = "done"
        /\ val' = buf[slot]
        /\ UNCHANGED <<buf, head, tail, slot>>

\* Store the tail: likewise.
Advance == /\ \/ step = "both" /\ step' = "load"
              \/ step = "advance" /\ step' = "done"
           /\ tail' = Succ(tail)
           /\ UNCHANGED <<buf, head, slot, val>>

\* kbd_getchar() / kbd_getkey() returns val.
Return == /\ step = "done"
          /\ step' = "idle"
          /\ UNCHANGED <<buf, head, tail, slot, val>>

RingNext == (\E m \in Msgs : Push(m)) \/ Drop \/ Begin \/ Load \/ Advance \/ Return

RingSpec == RingInit /\ [][RingNext]_ringVars

-----------------------------------------------------------------------------

\* The type of the buffer, its two indices and the reader's registers.
RingTypeOK == /\ buf \in [Slots -> Msgs \cup {Blank}]
              /\ head \in Slots
              /\ tail \in Slots
              /\ step \in {"idle", "both", "advance", "load", "done"}
              /\ slot \in Slots
              /\ val \in Msgs \cup {Blank}

\* How many values wait when the head is h and the tail t, and where the i-th
\* of them is.
Span(h, t) == IF h >= t THEN h - t ELSE h - t + Size
Nth(t, i) == IF t + i - 1 < Size THEN t + i - 1 ELSE t + i - 1 - Size

Contents == [i \in 1..Span(head, tail) |-> buf[Nth(tail, i)]]

\* Between the two halves of kbd_getchar the reader's registers agree with the
\* buffer: whatever was pushed meanwhile, the slot it reads has not been reused.
ReaderConsistent ==
    /\ step = "both" => slot = tail /\ head # tail
    /\ step = "advance" => slot = tail /\ head # tail /\ val = buf[tail]
    /\ step = "load" => Succ(slot) = tail

RingInv == RingTypeOK /\ ReaderConsistent

\* The value leaving the queue, from the store of the tail to the return.
Leaving == CASE step = "load" -> <<buf[slot]>>
             [] step = "done" -> <<val>>
             [] OTHER         -> <<>>

Fifo == INSTANCE BoundedFifo WITH
          Capacity <- Size - 1, queue <- Contents, out <- Leaving

\* The ring is a bounded FIFO whichever way pushes fall between the steps of the
\* reader and whichever order the build gives them.
IsFifo == Fifo!Spec
=============================================================================
