--------------------------- MODULE KeyboardProofs ---------------------------
(***************************************************************************)
(* The keyboard driver for every keyboard and every size of its two rings: *)
(* the decoder stays in step with the keys, both rings are FIFO queues     *)
(* whatever the interrupt handler does between the reader's steps, and a   *)
(* keystroke is dropped only when its ring is full.                        *)
(***************************************************************************)
EXTENDS Keyboard, SequenceTheorems, TLAPS

\* What module RingProofs proves of any ring, for the two rings of the driver.
CP == INSTANCE RingProofs WITH Size <- CircSize, Msgs <- Chars, Blank <- <<"none", FALSE>>,
        buf <- circ, head <- chead, tail <- ctail, step <- cstep, slot <- cslot, val <- cval
KP == INSTANCE RingProofs WITH Size <- ExtSize, Msgs <- Special, Blank <- "none",
        buf <- extbuf, head <- ehead, tail <- etail, step <- estep, slot <- eslot, val <- eval

-----------------------------------------------------------------------------
(* The strengthening of InStep: what the bytes still on the wire will do.    *)

Bytes == [code : Keys \cup {"e0", "lshift"}, rel : BOOLEAN]

\* The i-th unread byte will be decoded as one that follows the prefix 0xE0.
Prefixed(i) == \/ i = 1 /\ extended
               \/ i > 1 /\ wire[i - 1].code = "e0"

\* The unread bytes that are presses and releases of a shift key.
Shifts == {i \in 1..Len(wire) : wire[i].code \in ShiftCodes /\ ~Prefixed(i)}

\* A prefix is always followed by the byte it belongs to.
Paired == IF wire = <<>> THEN ~extended ELSE wire[Len(wire)].code # "e0"

\* If the last event of a shift key was a press, one is held down.  That event is
\* the last on the wire, or when none is left there the one shift remembers.
LastShift ==
    /\ shift /\ Shifts = {} => down \cap ShiftCodes # {}
    /\ \A i \in Shifts : ~wire[i].rel /\ (\A j \in Shifts : j <= i)
                           => down \cap ShiftCodes # {}

DecoderInv == /\ wire \in Seq(Bytes)
              /\ down \subseteq Keys
              /\ events \in 0..MaxEvents
              /\ extended \in BOOLEAN /\ shift \in BOOLEAN /\ caps \in BOOLEAN
              /\ Paired
              /\ LastShift

-----------------------------------------------------------------------------

\* The handler reads a byte: it keeps the strengthening whenever it leaves extended
\* set after a prefix only, and takes shift from the codes of a shift key only.
LEMMA ReadKeeps ==
    ASSUME DecoderInv, Read,
           extended' \in BOOLEAN, extended' <=> code = "e0",
           caps' \in BOOLEAN,
           shift' = IF 1 \in Shifts THEN ~rel ELSE shift
    PROVE  DecoderInv'
<1>1. /\ wire \in Seq(Bytes) /\ wire # <<>> /\ wire' = Tail(wire)
      /\ down' = down /\ events' = events
  BY DEF DecoderInv, Read, device
<1>2. /\ wire' \in Seq(Bytes)
      /\ Len(wire) \in Nat /\ Len(wire) >= 1
      /\ Len(wire') = Len(wire) - 1
      /\ \A i \in 1..Len(wire') : wire'[i] = wire[i + 1]
      /\ code = wire[1].code /\ rel = wire[1].rel
  <2>1. Head(wire) = wire[1]
    BY <1>1
  <2> QED
    BY <1>1, <2>1, HeadTailProperties DEF code, rel
<1>3. wire[1] \in Bytes
  BY <1>1, <1>2
<1>4. \A i \in 1..Len(wire') : Prefixed(i)' <=> Prefixed(i + 1)
  <2> TAKE i \in 1..Len(wire')
  <2>1. CASE i = 1
    BY <1>2, <2>1 DEF Prefixed
  <2>2. CASE i > 1
    <3>1. i - 1 \in 1..Len(wire') /\ wire'[i - 1] = wire[i] /\ (i + 1) - 1 = i
      BY <1>2, <2>2
    <3> QED
      BY <2>2, <3>1 DEF Prefixed
  <2> QED
    BY <1>2, <2>1, <2>2
<1>5. Shifts' = {i \in 1..Len(wire') : i + 1 \in Shifts}
  BY <1>2, <1>4 DEF Shifts
<1>6. Paired'
  <2>1. CASE Len(wire) = 1
    BY <1>1, <1>2, <2>1 DEF DecoderInv, Paired
  <2>2. CASE Len(wire) > 1
    <3>1. wire'[Len(wire')] = wire[Len(wire)] /\ wire' # <<>>
      BY <1>2, <2>2
    <3> QED
      BY <1>1, <3>1 DEF DecoderInv, Paired
  <2> QED
    BY <1>2, <2>1, <2>2
<1>7. LastShift'
  <2>1. ASSUME NEW i \in Shifts', ~wire'[i].rel, \A j \in Shifts' : j <= i
        PROVE  down' \cap ShiftCodes # {}
    <3>1. i \in 1..Len(wire') /\ i + 1 \in Shifts /\ ~wire[i + 1].rel
      BY <1>2, <1>5, <2>1
    <3>2. \A j \in Shifts : j <= i + 1
      <4> TAKE j \in Shifts
      <4>1. j \in 1..Len(wire)
        BY DEF Shifts
      <4>2. CASE j = 1
        BY <3>1, <4>2
      <4>3. CASE j > 1
        <5>1. j - 1 \in 1..Len(wire') /\ (j - 1) + 1 \in Shifts
          BY <1>2, <4>1, <4>3
        <5>2. j - 1 \in Shifts'
          BY <1>5, <5>1
        <5> QED
          BY <2>1, <3>1, <4>1, <5>2
      <4> QED
        BY <4>1, <4>2, <4>3
    <3> QED
      BY <1>1, <3>1, <3>2 DEF DecoderInv, LastShift
  <2>2. ASSUME shift', Shifts' = {} PROVE down' \cap ShiftCodes # {}
    <3>1. \A j \in Shifts : j <= 1
      <4> SUFFICES ASSUME NEW j \in Shifts, j > 1 PROVE FALSE
        BY <1>2 DEF Shifts
      <4>1. j \in 1..Len(wire)
        BY DEF Shifts
      <4>2. j - 1 \in 1..Len(wire') /\ (j - 1) + 1 \in Shifts
        BY <1>2, <4>1
      <4> QED
        BY <1>5, <2>2, <4>2
    <3>2. CASE 1 \in Shifts
      BY <1>1, <1>2, <2>2, <3>1, <3>2 DEF DecoderInv, LastShift
    <3>3. CASE 1 \notin Shifts
      <4>1. Shifts = {}
        BY <1>2, <3>1, <3>3 DEF Shifts
      <4> QED
        BY <1>1, <2>2, <3>3, <4>1 DEF DecoderInv, LastShift
    <3> QED
      BY <3>2, <3>3
  <2> QED
    BY <2>1, <2>2 DEF LastShift
<1>8. shift' \in BOOLEAN /\ extended' \in BOOLEAN
  BY <1>2, <1>3 DEF DecoderInv, Bytes
<1> QED
  BY <1>1, <1>2, <1>6, <1>7, <1>8 DEF DecoderInv

\* The bytes of more come after the n on the wire: those are decoded as before,
\* and the new ones start without a prefix.
Sent(n, more) ==
    /\ wire' \in Seq(Bytes)
    /\ Len(wire') = n + Len(more)
    /\ \A i \in 1..n : wire'[i] = wire[i] /\ (Prefixed(i)' <=> Prefixed(i))
    /\ \A i \in 1..Len(more) :
         /\ wire'[n + i] = more[i]
         /\ Prefixed(n + i)' <=> i > 1 /\ more[i - 1].code = "e0"
    /\ Paired'

\* The keyboard sends the bytes of an event.
LEMMA SendPrefixed ==
    ASSUME DecoderInv, NEW more \in Seq(Bytes), more # <<>>,
           wire' = wire \o more,
           UNCHANGED decoder,
           more[Len(more)].code # "e0",
           NEW n, n = Len(wire)
    PROVE  Sent(n, more)
<1> DEFINE m == Len(more)
<1>1. /\ wire \in Seq(Bytes) /\ n \in Nat /\ m \in Nat \ {0}
      /\ wire' \in Seq(Bytes)
      /\ Len(wire') = n + m
      /\ \A i \in 1..n : wire'[i] = wire[i]
      /\ \A i \in 1..m : wire'[n + i] = more[i]
  <2>1. wire \in Seq(Bytes)
    BY DEF DecoderInv
  <2>2. \A i \in 1..(Len(wire) + Len(more)) :
           (wire \o more)[i] = IF i <= Len(wire) THEN wire[i] ELSE more[i - Len(wire)]
    BY <2>1, ConcatProperties
  <2>3. Len(wire \o more) = Len(wire) + Len(more) /\ wire \o more \in Seq(Bytes)
    BY <2>1, ConcatProperties
  <2>4. Len(wire) \in Nat /\ Len(more) \in Nat \ {0}
    BY <2>1
  <2>5. \A i \in 1..m : n + i \in 1..(n + m) /\ ~(n + i <= n) /\ (n + i) - n = i
    BY <2>4
  <2>6. \A i \in 1..m : wire'[n + i] = more[i]
    BY <2>2, <2>5
  <2>7. \A i \in 1..n : wire'[i] = wire[i]
    BY <2>2, <2>4
  <2> QED
    BY <2>1, <2>3, <2>4, <2>6, <2>7
<1>2. extended' = extended /\ (n = 0 => ~extended) /\ (n > 0 => wire[n].code # "e0")
  BY <1>1 DEF DecoderInv, Paired, decoder
<1> HIDE DEF m
<1>3. \A i \in 1..n : Prefixed(i)' <=> Prefixed(i)
  <2> TAKE i \in 1..n
  <2>1. i > 1 => wire'[i - 1] = wire[i - 1]
    <3> SUFFICES ASSUME i > 1 PROVE i - 1 \in 1..n
      BY <1>1
    <3> QED
      BY <1>1
  <2> QED
    BY <1>2, <2>1 DEF Prefixed
<1>4. ASSUME NEW i \in 1..m
      PROVE  Prefixed(n + i)' <=> i > 1 /\ more[i - 1].code = "e0"
  <2>1. CASE i > 1
    <3>1. i - 1 \in 1..m /\ n + (i - 1) = (n + i) - 1 /\ n + i > 1
      BY <1>1, <2>1
    <3>2. wire'[(n + i) - 1] = more[i - 1]
      BY <1>1, <3>1
    <3> QED
      BY <2>1, <3>1, <3>2 DEF Prefixed
  <2>2. CASE i = 1 /\ n = 0
    BY <1>2, <2>2 DEF Prefixed
  <2>3. CASE i = 1 /\ n > 0
    <3>1. wire'[(n + i) - 1] = wire[n]
      BY <1>1, <2>3
    <3> QED
      BY <1>1, <1>2, <2>3, <3>1 DEF Prefixed
  <2> QED
    BY <1>1, <2>1, <2>2, <2>3
<1>5. Paired'
  <2>1. wire'[n + m] = more[m] /\ wire' # <<>>
    BY <1>1
  <2> QED
    BY <1>1, <2>1 DEF Paired, m
<1> QED
  BY <1>1, <1>3, <1>4, <1>5 DEF m, Sent

\* An event of another key: the cursor keys' own shift codes follow a prefix.
LEMMA SendOther ==
    ASSUME DecoderInv, NEW more \in Seq(Bytes), more # <<>>,
           wire' = wire \o more,
           UNCHANGED decoder,
           more[Len(more)].code # "e0",
           down' \subseteq Keys, events' \in 0..MaxEvents,
           \A i \in 1..Len(more) : more[i].code \in ShiftCodes => i > 1 /\ more[i - 1].code = "e0",
           down \cap ShiftCodes \subseteq down'
    PROVE  DecoderInv'
<1>1. wire \in Seq(Bytes) /\ Len(wire) \in Nat /\ Len(more) \in Nat
  BY DEF DecoderInv
<1> PICK n : n = Len(wire)
  OBVIOUS
<1>2. /\ wire' \in Seq(Bytes)
      /\ Len(wire') = n + Len(more)
      /\ \A i \in 1..n : wire'[i] = wire[i] /\ (Prefixed(i)' <=> Prefixed(i))
      /\ \A i \in 1..Len(more) :
            /\ wire'[n + i] = more[i]
            /\ Prefixed(n + i)' <=> i > 1 /\ more[i - 1].code = "e0"
      /\ Paired'
  <2>1. Sent(n, more)
    BY SendPrefixed
  <2> QED
    BY <2>1 DEF Sent
<1> HIDE DEF ShiftCodes
<1>3. Shifts' = Shifts
  <2>1. ASSUME NEW i \in 1..Len(wire') PROVE i \in Shifts' <=> i \in Shifts
    <3>1. CASE i <= Len(wire)
      <4>1. i \in 1..Len(wire) /\ wire'[i] = wire[i] /\ (Prefixed(i)' <=> Prefixed(i))
        BY <1>1, <1>2, <3>1
      <4> QED
        BY <4>1 DEF Shifts
    <3>2. CASE i > Len(wire)
      <4>1. PICK j \in 1..Len(more) : i = n + j
        <5>1. i - n \in 1..Len(more) /\ i = n + (i - n)
          BY <1>1, <1>2, <3>2
        <5> QED
          BY <5>1
      <4>2. /\ wire'[i] = more[j]
            /\ Prefixed(i)' <=> j > 1 /\ more[j - 1].code = "e0"
        BY <1>2, <4>1
      <4>3. i \notin Shifts'
        BY <4>2 DEF Shifts
      <4>4. i \notin Shifts
        BY <1>1, <3>2 DEF Shifts
      <4> QED
        BY <4>3, <4>4
    <3> QED
      BY <1>1, <3>1, <3>2
  <2>2. 1..Len(wire) \subseteq 1..Len(wire')
    BY <1>1, <1>2
  <2> QED
    BY <2>1, <2>2 DEF Shifts
<1>4. \A i \in Shifts : wire'[i] = wire[i]
  BY <1>2 DEF Shifts
<1>5. LastShift'
  BY <1>3, <1>4 DEF LastShift, DecoderInv, decoder
<1> QED
  BY <1>5, <1>2 DEF DecoderInv, decoder

\* An event of a shift key: a press leaves the key held down.
LEMMA SendShift ==
    ASSUME DecoderInv, NEW b \in Bytes,
           wire' = wire \o <<b>>,
           UNCHANGED decoder,
           down' \subseteq Keys, events' \in 0..MaxEvents,
           b.code \in ShiftCodes,
           ~b.rel => b.code \in down'
    PROVE  DecoderInv'
<1> DEFINE more == <<b>>
<1>1. /\ more \in Seq(Bytes) /\ more # <<>> /\ Len(more) = 1 /\ more[1] = b
      /\ more[Len(more)].code # "e0" /\ wire' = wire \o more
  BY DEF ShiftCodes
<1>2. Len(wire) \in Nat
  BY DEF DecoderInv
<1> HIDE DEF more
<1> PICK n : n = Len(wire) + 1
  OBVIOUS
<1>3. /\ wire' \in Seq(Bytes) /\ Len(wire') = n /\ wire'[n] = b
      /\ ~Prefixed(n)' /\ Paired'
  <2> PICK k : k = Len(wire)
    OBVIOUS
  <2>1. n = k + 1
    OBVIOUS
  <2>2. Sent(k, more)
    BY <1>1, SendPrefixed
  <2> QED
    BY <1>1, <2>1, <2>2 DEF Sent
<1>4. n \in Shifts' /\ \A i \in Shifts' : i <= n
  BY <1>2, <1>3 DEF Shifts
<1>5. ASSUME NEW i \in Shifts', ~wire'[i].rel, \A j \in Shifts' : j <= i
      PROVE  down' \cap ShiftCodes # {}
  <2>1. i = n
    BY <1>2, <1>4, <1>5 DEF Shifts
  <2> QED
    BY <1>3, <1>5, <2>1
<1>6. LastShift'
  BY <1>4, <1>5 DEF LastShift
<1> QED
  BY <1>3, <1>6 DEF DecoderInv, decoder

\* The decoder's invariant is inductive.
LEMMA DecoderInit == Init => DecoderInv
<1> SUFFICES ASSUME Init PROVE DecoderInv
  OBVIOUS
<1>1. /\ wire = <<>> /\ Len(wire) = 0 /\ down = {} /\ events = 0
      /\ extended = FALSE /\ shift = FALSE /\ caps = FALSE
  BY DEF Init
<1>2. Shifts = {}
  BY <1>1 DEF Shifts
<1>3. wire \in Seq(Bytes) /\ events \in 0..MaxEvents
  BY <1>1, KeyboardAssumption
<1> QED
  BY <1>1, <1>2, <1>3 DEF DecoderInv, Paired, LastShift

LEMMA KeyDownKeeps ==
    ASSUME DecoderInv, NEW k \in Keys, KeyDown(k)
    PROVE  DecoderInv'
<1>1. /\ wire' = wire \o Make(k) /\ UNCHANGED decoder
      /\ down' = down \cup {k} /\ down' \subseteq Keys
      /\ events' \in 0..MaxEvents
  BY KeyboardAssumption DEF KeyDown, DecoderInv
<1>2. CASE k \in {"up", "pgup"}
  <2> DEFINE more == <<E0, Byte("lshift", FALSE), E0, Byte(k, FALSE)>>
  <2>1. /\ more \in Seq(Bytes) /\ more # <<>> /\ Len(more) = 4
        /\ more[1].code = "e0" /\ more[2].code = "lshift"
        /\ more[3].code = "e0" /\ more[4].code = k
    BY <1>2 DEF Bytes, Byte, E0
  <2>2. \A i \in 1..Len(more) : more[i].code \in ShiftCodes => i > 1 /\ more[i - 1].code = "e0"
    BY <1>2, <2>1 DEF ShiftCodes
  <2>3. wire' = wire \o more /\ more[Len(more)].code # "e0"
    BY <1>1, <1>2, <2>1 DEF Make
  <2> QED
    BY <1>1, <2>1, <2>2, <2>3, SendOther
<1>3. CASE k \notin {"up", "pgup"}
  <2> DEFINE b == Byte(k, FALSE)
  <2>1. b \in Bytes /\ b.code = k /\ ~b.rel /\ wire' = wire \o <<b>>
    BY <1>1, <1>3 DEF Bytes, Byte, Make
  <2>2. CASE k \in ShiftCodes
    BY <1>1, <2>1, <2>2, SendShift
  <2>3. CASE k \notin ShiftCodes
    <3> DEFINE more == <<b>>
    <3>1. /\ more \in Seq(Bytes) /\ more # <<>> /\ wire' = wire \o more
          /\ more[Len(more)].code # "e0"
          /\ \A i \in 1..Len(more) : more[i].code \notin ShiftCodes
      <4> HIDE DEF b
      <4>1. Len(more) = 1 /\ more[1] = b /\ more \in Seq(Bytes) /\ more # <<>>
        BY <2>1
      <4>2. k # "e0"
        BY KeyboardAssumption
      <4> QED
        BY <2>1, <2>3, <4>1, <4>2
    <3> QED
      BY <1>1, <3>1, SendOther
  <2> QED
    BY <2>2, <2>3
<1> QED
  BY <1>2, <1>3

LEMMA KeyUpKeeps ==
    ASSUME DecoderInv, NEW k \in Keys, KeyUp(k)
    PROVE  DecoderInv'
<1>1. /\ wire' = wire \o Break(k) /\ UNCHANGED decoder
      /\ down' = down \ {k} /\ down' \subseteq Keys
      /\ events' \in 0..MaxEvents
  BY KeyboardAssumption DEF KeyUp, DecoderInv
<1>2. CASE k \in {"up", "pgup"}
  <2> DEFINE more == <<E0, Byte(k, TRUE), E0, Byte("lshift", TRUE)>>
  <2>1. /\ more \in Seq(Bytes) /\ more # <<>> /\ Len(more) = 4
        /\ more[1].code = "e0" /\ more[2].code = k
        /\ more[3].code = "e0" /\ more[4].code = "lshift"
    BY <1>2 DEF Bytes, Byte, E0
  <2>2. \A i \in 1..Len(more) : more[i].code \in ShiftCodes => i > 1 /\ more[i - 1].code = "e0"
    BY <1>2, <2>1 DEF ShiftCodes
  <2>3. wire' = wire \o more /\ more[Len(more)].code # "e0"
    BY <1>1, <1>2, <2>1 DEF Break
  <2>4. down \cap ShiftCodes \subseteq down'
    BY <1>1, <1>2 DEF ShiftCodes
  <2> QED
    BY <1>1, <2>1, <2>2, <2>3, <2>4, SendOther
<1>3. CASE k \notin {"up", "pgup"}
  <2> DEFINE b == Byte(k, TRUE)
  <2>1. b \in Bytes /\ b.code = k /\ b.rel /\ wire' = wire \o <<b>>
    BY <1>1, <1>3 DEF Bytes, Byte, Break
  <2>2. CASE k \in ShiftCodes
    BY <1>1, <2>1, <2>2, SendShift
  <2>3. CASE k \notin ShiftCodes
    <3> DEFINE more == <<b>>
    <3>1. /\ more \in Seq(Bytes) /\ more # <<>> /\ wire' = wire \o more
          /\ more[Len(more)].code # "e0"
          /\ \A i \in 1..Len(more) : more[i].code \notin ShiftCodes
      <4> HIDE DEF b
      <4>1. Len(more) = 1 /\ more[1] = b /\ more \in Seq(Bytes) /\ more # <<>>
        BY <2>1
      <4>2. k # "e0"
        BY KeyboardAssumption
      <4> QED
        BY <2>1, <2>3, <4>1, <4>2
    <3>2. down \cap ShiftCodes \subseteq down'
      BY <1>1, <2>3
    <3> QED
      BY <1>1, <3>1, <3>2, SendOther
  <2> QED
    BY <2>2, <2>3
<1> QED
  BY <1>2, <1>3

\* Every action of the handler leaves extended and shift as ReadKeeps asks.
LEMMA Irq1Keeps ==
    ASSUME DecoderInv, Irq1
    PROVE  DecoderInv'
<1>1. /\ wire \in Seq(Bytes) /\ wire # <<>> /\ Read
      /\ shift \in BOOLEAN /\ extended \in BOOLEAN /\ caps \in BOOLEAN
  BY DEF DecoderInv, Irq1, Prefix, AfterPrefix, Plain, Shift, Caps, Ignored,
         SpecialKey, Char, Read
<1>2. /\ wire[1] \in Bytes /\ code = wire[1].code /\ rel = wire[1].rel
      /\ 1 \in Shifts <=> code \in ShiftCodes /\ ~extended
  <2>1. Len(wire) \in Nat /\ Len(wire) >= 1 /\ Head(wire) = wire[1]
    BY <1>1
  <2>2. Prefixed(1) <=> extended
    BY DEF Prefixed
  <2> QED
    BY <1>1, <2>1, <2>2 DEF Shifts, code, rel
<1>3. rel \in BOOLEAN
  BY <1>2 DEF Bytes
<1> HIDE DEF ShiftCodes
<1>4. "e0" \notin ShiftCodes /\ "caps" \notin ShiftCodes
  BY DEF ShiftCodes
<1>5. CASE Prefix
  <2>1. /\ extended' \in BOOLEAN /\ (extended' <=> code = "e0")
        /\ caps' = caps /\ shift' = shift /\ 1 \notin Shifts
    BY <1>2, <1>4, <1>5 DEF Prefix
  <2> QED
    BY <1>1, <2>1, ReadKeeps
<1>6. CASE AfterPrefix
  <2>1. /\ extended' \in BOOLEAN /\ (extended' <=> code = "e0")
        /\ caps' = caps /\ shift' = shift /\ 1 \notin Shifts
    BY <1>2, <1>6 DEF AfterPrefix
  <2> QED
    BY <1>1, <2>1, ReadKeeps
<1>7. CASE Shift
  <2>1. /\ extended' \in BOOLEAN /\ (extended' <=> code = "e0")
        /\ caps' = caps /\ shift' = ~rel /\ 1 \in Shifts
    BY <1>1, <1>2, <1>7 DEF Shift, Plain
  <2> QED
    BY <1>1, <2>1, ReadKeeps
<1>8. CASE Caps \/ Ignored \/ SpecialKey \/ Char
  <2>1. /\ extended' \in BOOLEAN /\ (extended' <=> code = "e0")
        /\ code \notin ShiftCodes
        /\ shift' = shift
        /\ caps' = ~caps \/ caps' = caps
    BY <1>1, <1>4, <1>8 DEF Caps, Ignored, SpecialKey, Char, Plain, Printing, PlainKey, ShiftCodes
  <2>2. caps' \in BOOLEAN /\ 1 \notin Shifts
    BY <1>1, <1>2, <2>1
  <2> QED
    BY <1>1, <2>1, <2>2, ReadKeeps
<1> QED
  BY <1>5, <1>6, <1>7, <1>8 DEF Irq1

LEMMA DecoderStep == DecoderInv /\ [Next]_vars => DecoderInv'
<1> SUFFICES ASSUME DecoderInv, [Next]_vars PROVE DecoderInv'
  OBVIOUS
<1>1. ASSUME NEW k \in Keys, KeyDown(k) PROVE DecoderInv'
  BY <1>1, KeyDownKeeps
<1>2. ASSUME NEW k \in Keys, KeyUp(k) PROVE DecoderInv'
  BY <1>2, KeyUpKeeps
<1>3. CASE Irq1
  BY <1>3, Irq1Keeps
<1>4. CASE GuiRun \/ UNCHANGED vars
  <2>1. UNCHANGED <<device, wire, decoder>>
    BY <1>4 DEF GuiRun, WhileChar, WhileKey, IfChar, IfKey, GetChar, GetKey, Dispatch,
                Frame, Quiet, vars
  <2> QED
    BY <2>1 DEF device, decoder, DecoderInv, Paired, LastShift, Shifts, Prefixed
<1> QED
  BY <1>1, <1>2, <1>3, <1>4 DEF Next

\* Once every byte is read the decoder agrees with the keys held down: no prefix is
\* pending and shift is set only while a shift key is down, for every keyboard.
THEOREM DecoderInStep == Spec => []InStep
<1>1. DecoderInv => InStep
  <2> SUFFICES ASSUME DecoderInv, wire = <<>>
               PROVE  ~extended /\ (shift => down \cap ShiftCodes # {})
    BY DEF InStep
  <2>1. Shifts = {}
    BY DEF Shifts
  <2> QED
    BY <2>1 DEF DecoderInv, Paired, LastShift
<1> QED
  BY <1>1, DecoderInit, DecoderStep, PTL DEF Spec

-----------------------------------------------------------------------------
(* The two rings.                                                            *)

\* The rings of the driver are rings of module Ring: every step of the driver is a
\* step of each, or leaves it alone.
LEMMA RingsInit == Init => CP!RingInit /\ KP!RingInit
BY DEF Init, C!RingInit, K!RingInit, CP!RingInit, KP!RingInit, C!Slots, K!Slots,
       CP!Slots, KP!Slots

LEMMA CharSteps ==
    /\ \A m : C!Push(m) => CP!Push(m)
    /\ C!Drop => CP!Drop
    /\ C!Begin => CP!Begin
    /\ C!Load => CP!Load
    /\ C!Advance => CP!Advance
    /\ C!Return => CP!Return
BY DEF C!Push, C!Drop, C!Begin, C!Load, C!Advance, C!Return, C!Full, C!NonEmpty, C!Succ,
       C!ringVars, CP!Push, CP!Drop, CP!Begin, CP!Load, CP!Advance, CP!Return, CP!Full,
       CP!NonEmpty, CP!Succ, CP!ringVars

LEMMA KeySteps ==
    /\ \A m : K!Push(m) => KP!Push(m)
    /\ K!Drop => KP!Drop
    /\ K!Begin => KP!Begin
    /\ K!Load => KP!Load
    /\ K!Advance => KP!Advance
    /\ K!Return => KP!Return
BY DEF K!Push, K!Drop, K!Begin, K!Load, K!Advance, K!Return, K!Full, K!NonEmpty, K!Succ,
       K!ringVars, KP!Push, KP!Drop, KP!Begin, KP!Load, KP!Advance, KP!Return, KP!Full,
       KP!NonEmpty, KP!Succ, KP!ringVars

\* A character the handler pushes is one of Chars, a special key one of Special.
LEMMA PushedChar ==
    ASSUME DecoderInv, Char
    PROVE  <<code, shift # caps>> \in Chars
<1>1. wire \in Seq(Bytes) /\ wire # <<>> /\ code # "e0" /\ Printing(code)
  BY DEF DecoderInv, Char, Plain, Read
<1>2. Head(wire) \in Bytes
  BY <1>1, HeadTailProperties
<1>3. code \in Keys
  BY <1>1, <1>2 DEF code, Bytes, Printing, ShiftCodes
<1>4. (shift # caps) \in BOOLEAN
  OBVIOUS
<1> QED
  BY <1>1, <1>3, <1>4 DEF Chars

LEMMA ExtendedIsSpecial == \A c \in DOMAIN ExtendedKey : ExtendedKey[c] \in Special
<1>1. \A x \in {"KEY_UP", "KEY_DOWN", "KEY_LEFT", "KEY_RIGHT", "KEY_HOME", "KEY_END"} : x \in Special
  <2>1. /\ PlainKey.up = "KEY_UP" /\ PlainKey.down = "KEY_DOWN" /\ PlainKey.left = "KEY_LEFT"
        /\ PlainKey.right = "KEY_RIGHT" /\ PlainKey.home = "KEY_HOME" /\ PlainKey.end = "KEY_END"
        /\ {"up", "down", "left", "right", "home", "end"} \subseteq DOMAIN PlainKey
    BY DEF PlainKey
  <2> QED
    BY <2>1 DEF Special
<1>2. \A c \in DOMAIN ExtendedKey : ExtendedKey[c] \in
         {"KEY_UP", "KEY_DOWN", "KEY_LEFT", "KEY_RIGHT", "KEY_HOME", "KEY_END"}
  BY DEF ExtendedKey
<1> QED
  BY <1>1, <1>2

LEMMA RingsStep ==
    DecoderInv /\ [Next]_vars => [CP!RingNext]_(CP!ringVars) /\ [KP!RingNext]_(KP!ringVars)
<1> SUFFICES ASSUME DecoderInv, [Next]_vars
             PROVE  /\ CP!RingNext \/ UNCHANGED circVars
                    /\ KP!RingNext \/ UNCHANGED extVars
  BY DEF CP!ringVars, KP!ringVars, circVars, extVars
<1>1. CASE NoPush
  BY <1>1 DEF NoPush
<1>2. CASE Char
  <2>1. PushChar(<<code, shift # caps>>)
    BY <1>2 DEF Char
  <2> DEFINE m == <<code, shift # caps>>
  <2>2. m \in Chars
    BY <1>2, PushedChar
  <2> HIDE DEF m
  <2>3. (CP!Push(m) \/ CP!Drop) /\ UNCHANGED extVars
    BY <2>1, CharSteps DEF PushChar, m
  <2> QED
    BY <2>2, <2>3 DEF CP!RingNext
<1>3. ASSUME NEW k \in Special, PushExt(k)
      PROVE  /\ KP!RingNext
             /\ UNCHANGED circVars
  BY <1>3, KeySteps DEF PushExt, KP!RingNext
<1>4. CASE SpecialKey
  <2>1. PlainKey[code] \in Special
    BY <1>4 DEF SpecialKey, Special
  <2> QED
    BY <1>3, <1>4, <2>1 DEF SpecialKey
<1>5. CASE AfterPrefix
  <2>1. CASE ~rel /\ code \in DOMAIN ExtendedKey
    BY <1>3, <1>5, <2>1, ExtendedIsSpecial DEF AfterPrefix
  <2>2. CASE ~(~rel /\ code \in DOMAIN ExtendedKey)
    BY <1>1, <1>5, <2>2 DEF AfterPrefix
  <2> QED
    BY <2>1, <2>2
<1>6. CASE GetChar \/ (C!Return /\ UNCHANGED extVars) \/ (C!Begin /\ UNCHANGED extVars)
  BY <1>6, CharSteps DEF GetChar, CP!RingNext
<1>7. CASE GetKey \/ (K!Return /\ UNCHANGED circVars) \/ (K!Begin /\ UNCHANGED circVars)
  BY <1>7, KeySteps DEF GetKey, KP!RingNext
<1>8. CASE Irq1
  BY <1>1, <1>2, <1>4, <1>5, <1>8 DEF Irq1, Prefix, Shift, Caps, Ignored
<1>9. CASE GuiRun
  BY <1>1, <1>6, <1>7, <1>9 DEF GuiRun, WhileChar, WhileKey, IfChar, IfKey, Dispatch, Frame
<1>10. ASSUME NEW k \in Keys, KeyDown(k) \/ KeyUp(k) PROVE NoPush
  BY <1>10 DEF KeyDown, KeyUp, NoPush
<1>11. CASE UNCHANGED vars
  BY <1>11 DEF vars
<1> QED
  BY <1>1, <1>8, <1>9, <1>10, <1>11 DEF Next

\* Each ring of the driver behaves as a ring of module Ring.
LEMMA DriverRings == Spec => CP!RingSpec /\ KP!RingSpec
BY DecoderInit, DecoderStep, RingsInit, RingsStep, PTL DEF Spec, CP!RingSpec, KP!RingSpec

LEMMA RingsInv == Spec => [](CP!RingInv /\ KP!RingInv)
<1>1. CP!SizeOK /\ KP!SizeOK
  BY KeyboardAssumption DEF CP!SizeOK, KP!SizeOK
<1>2. CP!RingSpec => []CP!RingInv
  BY <1>1, CP!RingInvariant
<1>3. KP!RingSpec => []KP!RingInv
  BY <1>1, KP!RingInvariant
<1> QED
  BY <1>2, <1>3, DriverRings, PTL

-----------------------------------------------------------------------------
(* The driver. *)

LoopTypeOK == loop \in {"while", "whileKey", "if", "ifKey", "char", "key", "frame"}

LEMMA LoopType == Spec => []LoopTypeOK
<1>1. Init => LoopTypeOK
  BY DEF Init, LoopTypeOK
<1>2. LoopTypeOK /\ [Next]_vars => LoopTypeOK'
  BY DEF LoopTypeOK, Next, vars, KeyDown, KeyUp, Irq1, Prefix, AfterPrefix, Plain, Read, Shift,
         Caps, Ignored, SpecialKey, Char, GuiRun, WhileChar, WhileKey, IfChar, IfKey, GetChar,
         GetKey, Dispatch, Frame
<1> QED
  BY <1>1, <1>2, PTL DEF Spec

\* The driver's variables keep their types, whatever keys the keyboard has: the
\* values in the rings are characters and special keys of it.
THEOREM KeyboardType == Spec => []TypeOK
<1>1. DecoderInv /\ CP!RingInv /\ KP!RingInv /\ LoopTypeOK => TypeOK
  BY DEF DecoderInv, CP!RingInv, KP!RingInv, CP!RingTypeOK, KP!RingTypeOK, LoopTypeOK, TypeOK,
         C!RingTypeOK, K!RingTypeOK, C!Slots, K!Slots, CP!Slots, KP!Slots
<1> QED
  BY <1>1, DecoderInit, DecoderStep, RingsInv, LoopType, PTL DEF Spec

LEMMA CharQueues ==
    /\ CP!Contents = C!Contents /\ CP!Leaving = C!Leaving
    /\ CP!Contents' = C!Contents' /\ CP!Leaving' = C!Leaving'
BY DEF CP!Contents, C!Contents, CP!Leaving, C!Leaving, CP!Span, C!Span, CP!Nth, C!Nth

LEMMA KeyQueues ==
    /\ KP!Contents = K!Contents /\ KP!Leaving = K!Leaving
    /\ KP!Contents' = K!Contents' /\ KP!Leaving' = K!Leaving'
BY DEF KP!Contents, K!Contents, KP!Leaving, K!Leaving, KP!Span, K!Span, KP!Nth, K!Nth

\* Characters and special keys reach the event loop in the order they were typed,
\* each once: each ring of the driver, with the handler running between the steps of
\* its reader, is a bounded FIFO queue, and the reader's registers never go stale.
THEOREM KeysInOrder == Spec => InOrder
<1>1. CP!SizeOK /\ KP!SizeOK
  BY KeyboardAssumption DEF CP!SizeOK, KP!SizeOK
<1>2. CP!RingSpec => CP!IsFifo
  BY <1>1, CP!RingIsFifo
<1>3. KP!RingSpec => KP!IsFifo
  BY <1>1, KP!RingIsFifo
<1>4. CP!IsFifo => C!IsFifo
  <2>1. CP!Fifo!Init => C!Fifo!Init
    BY CharQueues DEF CP!Fifo!Init, C!Fifo!Init
  <2>2. [CP!Fifo!Next]_<<CP!Contents, CP!Leaving>> => [C!Fifo!Next]_<<C!Contents, C!Leaving>>
    BY CharQueues DEF CP!Fifo!Next, C!Fifo!Next, CP!Fifo!Put, C!Fifo!Put, CP!Fifo!Take,
       C!Fifo!Take, CP!Fifo!Deliver, C!Fifo!Deliver
  <2> QED
    BY <2>1, <2>2, PTL DEF CP!IsFifo, C!IsFifo, CP!Fifo!Spec, C!Fifo!Spec
<1>5. KP!IsFifo => K!IsFifo
  <2>1. KP!Fifo!Init => K!Fifo!Init
    BY KeyQueues DEF KP!Fifo!Init, K!Fifo!Init
  <2>2. [KP!Fifo!Next]_<<KP!Contents, KP!Leaving>> => [K!Fifo!Next]_<<K!Contents, K!Leaving>>
    BY KeyQueues DEF KP!Fifo!Next, K!Fifo!Next, KP!Fifo!Put, K!Fifo!Put, KP!Fifo!Take,
       K!Fifo!Take, KP!Fifo!Deliver, K!Fifo!Deliver
  <2> QED
    BY <2>1, <2>2, PTL DEF KP!IsFifo, K!IsFifo, KP!Fifo!Spec, K!Fifo!Spec
<1>6. CP!RingInv /\ KP!RingInv => C!ReaderConsistent /\ K!ReaderConsistent
  BY DEF CP!RingInv, KP!RingInv, CP!ReaderConsistent, KP!ReaderConsistent,
         C!ReaderConsistent, K!ReaderConsistent, C!Succ, CP!Succ, K!Succ, KP!Succ
<1> QED
  BY <1>2, <1>3, <1>4, <1>5, <1>6, DriverRings, RingsInv, PTL DEF InOrder

\* A push makes the ring's contents one longer, and is refused only when they fill it.
LEMMA CharPush ==
    ASSUME DecoderInv, CP!RingInv, CP!RingInv', Char, Len(C!Contents) < CircSize - 1
    PROVE  Len(C!Contents)' = Len(C!Contents) + 1
<1>1. CP!SizeOK
  BY KeyboardAssumption DEF CP!SizeOK
<1> DEFINE m == <<code, shift # caps>>
<1>2. m \in Chars
  BY PushedChar
<1> HIDE DEF m
<1>3. CP!Push(m) \/ CP!Drop
  BY CharSteps DEF Char, PushChar, m
<1>4. Len(CP!Contents) = CP!Span(chead, ctail)
  BY <1>1, CP!ContentsSeq
<1>5. CASE CP!Drop
  <2>1. chead \in CP!Slots /\ ctail \in CP!Slots /\ CP!Succ(chead) = ctail
    BY <1>5 DEF CP!Drop, CP!Full, CP!RingInv, CP!RingTypeOK
  <2>2. CP!Span(chead, ctail) = CircSize - 1
    BY <2>1, KeyboardAssumption DEF CP!Slots, CP!Succ, CP!Span
  <2> QED
    BY <1>4, <2>2, CharQueues, KeyboardAssumption
<1>6. CASE CP!Push(m)
  <2>1. CP!Fifo!Put(m)
    BY <1>1, <1>2, <1>6, CP!PushIsPut
  <2>2. CP!Contents' = Append(CP!Contents, m)
    BY <2>1 DEF CP!Fifo!Put
  <2>3. CP!Contents \in Seq(Chars \cup {<<"none", FALSE>>})
    BY <1>1, CP!ContentsSeq
  <2>4. Len(CP!Contents') = Len(CP!Contents) + 1
    BY <1>2, <2>2, <2>3, AppendProperties
  <2> QED
    BY <2>4, CharQueues
<1> QED
  BY <1>3, <1>5, <1>6

LEMMA KeyPush ==
    ASSUME KP!RingInv, KP!RingInv', SpecialKey, Len(K!Contents) < ExtSize - 1
    PROVE  Len(K!Contents)' = Len(K!Contents) + 1
<1>1. KP!SizeOK
  BY KeyboardAssumption DEF KP!SizeOK
<1> DEFINE m == PlainKey[code]
<1>2. m \in Special
  BY DEF SpecialKey, Special
<1> HIDE DEF m
<1>3. KP!Push(m) \/ KP!Drop
  BY KeySteps DEF SpecialKey, PushExt, m
<1>4. Len(KP!Contents) = KP!Span(ehead, etail)
  BY <1>1, KP!ContentsSeq
<1>5. CASE KP!Drop
  <2>1. ehead \in KP!Slots /\ etail \in KP!Slots /\ KP!Succ(ehead) = etail
    BY <1>5 DEF KP!Drop, KP!Full, KP!RingInv, KP!RingTypeOK
  <2>2. KP!Span(ehead, etail) = ExtSize - 1
    BY <2>1, KeyboardAssumption DEF KP!Slots, KP!Succ, KP!Span
  <2> QED
    BY <1>4, <2>2, KeyQueues, KeyboardAssumption
<1>6. CASE KP!Push(m)
  <2>1. KP!Fifo!Put(m)
    BY <1>1, <1>2, <1>6, KP!PushIsPut
  <2>2. KP!Contents' = Append(KP!Contents, m)
    BY <2>1 DEF KP!Fifo!Put
  <2>3. KP!Contents \in Seq(Special \cup {"none"})
    BY <1>1, KP!ContentsSeq
  <2>4. Len(KP!Contents') = Len(KP!Contents) + 1
    BY <1>2, <2>2, <2>3, AppendProperties
  <2> QED
    BY <2>4, KeyQueues
<1> QED
  BY <1>3, <1>5, <1>6

\* A keystroke is dropped only when its ring holds all it can: one less than its
\* slots, for every size of the two rings.
THEOREM KeysDropOnlyWhenFull == Spec => DropsOnlyWhenFull
<1> DEFINE A == /\ Char /\ Len(C!Contents) < CircSize - 1
                     => Len(C!Contents)' = Len(C!Contents) + 1
                /\ SpecialKey /\ Len(K!Contents) < ExtSize - 1
                     => Len(K!Contents)' = Len(K!Contents) + 1
           Inv == DecoderInv /\ CP!RingInv /\ KP!RingInv
<1>1. Inv /\ Inv' => A
  BY CharPush, KeyPush
<1>2. Spec => []Inv
  BY DecoderInit, DecoderStep, RingsInv, PTL DEF Spec
<1>3. Spec => [][A]_vars
  <2> HIDE DEF A, Inv
  <2> QED
    BY <1>1, <1>2, PTL
<1> QED
  BY <1>3 DEF DropsOnlyWhenFull
=============================================================================
