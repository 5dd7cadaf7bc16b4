----------------------------- MODULE RingProofs -----------------------------
(***************************************************************************)
(* The keyboard rings are bounded FIFO queues for every buffer size of two *)
(* or more and every set of values.                                        *)
(***************************************************************************)
EXTENDS Ring, SequenceTheorems, TLAPS

\* The reader's registers stay consistent with the buffer through every push.
THEOREM RingInvariant ==
    ASSUME SizeOK
    PROVE  RingSpec => []RingInv
<1> USE DEF SizeOK, RingInv, RingTypeOK, ReaderConsistent, Slots, Succ
<1>1. RingInit => RingInv
  BY DEF RingInit
<1>2. RingInv /\ [RingNext]_ringVars => RingInv'
  <2> SUFFICES ASSUME RingInv, [RingNext]_ringVars PROVE RingInv'
    OBVIOUS
  <2>1. ASSUME NEW m \in Msgs, Push(m) PROVE RingInv'
    BY <2>1 DEF Push, Full
  <2>2. CASE Drop
    BY <2>2 DEF Drop, ringVars
  <2>3. CASE Begin
    BY <2>3 DEF Begin, NonEmpty
  <2>4. CASE Load
    BY <2>4 DEF Load
  <2>5. CASE Advance
    BY <2>5 DEF Advance
  <2>6. CASE Return
    BY <2>6 DEF Return
  <2>7. CASE UNCHANGED ringVars
    BY <2>7 DEF ringVars
  <2> QED
    BY <2>1, <2>2, <2>3, <2>4, <2>5, <2>6, <2>7 DEF RingNext
<1> QED
  BY <1>1, <1>2, PTL DEF RingSpec

\* The slots between the tail and the head are not the one the head names,
\* which is where the next value goes.
LEMMA SpanSlots ==
    ASSUME SizeOK, NEW h \in Slots, NEW t \in Slots
    PROVE  /\ Span(h, t) \in Nat
           /\ Span(h, t) <= Size - 1
           /\ \A i \in 1..Span(h, t) : Nth(t, i) \in Slots /\ Nth(t, i) # h
           /\ Succ(h) # t => /\ Span(Succ(h), t) = Span(h, t) + 1
                             /\ Span(h, t) < Size - 1
                             /\ Nth(t, Span(h, t) + 1) = h
           /\ h # t => /\ Span(h, Succ(t)) = Span(h, t) - 1
                       /\ Span(h, t) >= 1
                       /\ Nth(t, 1) = t
                       /\ \A i \in 1..(Span(h, t) - 1) : Nth(Succ(t), i) = Nth(t, i + 1)
BY DEF SizeOK, Slots, Span, Nth, Succ

\* The waiting values form a sequence of values.
LEMMA ContentsSeq ==
    ASSUME SizeOK, RingInv
    PROVE  /\ Contents \in Seq(Msgs \cup {Blank})
           /\ Len(Contents) = Span(head, tail)
           /\ \A i \in 1..Span(head, tail) : Contents[i] = buf[Nth(tail, i)]
<1>1. \A i \in 1..Span(head, tail) : buf[Nth(tail, i)] \in Msgs \cup {Blank}
  BY SpanSlots DEF RingInv, RingTypeOK
<1>2. Span(head, tail) \in Nat
  BY SpanSlots DEF RingInv, RingTypeOK
<1> QED
  BY <1>1, <1>2 DEF Contents

\* A push appends to the waiting values; the slot a reader is about to load is
\* not the one it writes.
LEMMA PushIsPut ==
    ASSUME SizeOK, RingInv, RingInv', NEW m \in Msgs, Push(m)
    PROVE  Fifo!Put(m)
<1> DEFINE n == Span(head, tail)
<1>1. /\ Succ(head) # tail
      /\ buf' = [buf EXCEPT ![head] = m]
      /\ head' = Succ(head)
      /\ tail' = tail /\ step' = step /\ slot' = slot /\ val' = val
  BY DEF Push, Full
<1>2. head \in Slots /\ tail \in Slots /\ slot \in Slots /\ buf \in [Slots -> Msgs \cup {Blank}]
  BY DEF RingInv, RingTypeOK
<1>3. /\ n \in Nat /\ n < Size - 1
      /\ Span(head', tail') = n + 1
      /\ Nth(tail, n + 1) = head
      /\ \A i \in 1..n : Nth(tail, i) \in Slots /\ Nth(tail, i) # head
  BY <1>1, <1>2, SpanSlots
<1>4. Contents \in Seq(Msgs \cup {Blank}) /\ Len(Contents) = n
  BY ContentsSeq
<1>5. Contents' \in Seq(Msgs \cup {Blank}) /\ Len(Contents') = n + 1
  <2>1. Contents' = [i \in 1..(n + 1) |-> buf'[Nth(tail, i)]]
    BY <1>1, <1>3 DEF Contents
  <2>2. \A i \in 1..(n + 1) : buf'[Nth(tail, i)] \in Msgs \cup {Blank}
    BY <1>1, <1>2, <1>3
  <2> QED
    BY <1>3, <2>1, <2>2
<1>6. \A i \in 1..n : Contents'[i] = Contents[i]
  <2> TAKE i \in 1..n
  <2>1. Contents'[i] = buf'[Nth(tail, i)]
    BY <1>1, <1>3 DEF Contents
  <2>2. Contents[i] = buf[Nth(tail, i)]
    BY DEF Contents
  <2> QED
    BY <1>1, <1>2, <1>3, <2>1, <2>2
<1>7. Contents'[n + 1] = m
  <2>1. Contents'[n + 1] = buf'[Nth(tail, n + 1)]
    BY <1>1, <1>3 DEF Contents
  <2> QED
    BY <1>1, <1>2, <1>3, <2>1
<1>8. Contents' = Append(Contents, m)
  <2>1. m \in Msgs \cup {Blank}
    OBVIOUS
  <2>2. /\ Append(Contents, m) \in Seq(Msgs \cup {Blank})
        /\ Len(Append(Contents, m)) = n + 1
        /\ \A i \in 1..n : Append(Contents, m)[i] = Contents[i]
        /\ Append(Contents, m)[n + 1] = m
    BY <1>3, <1>4, <2>1, AppendProperties
  <2> HIDE DEF n
  <2>3. \A i \in 1..(n + 1) : Contents'[i] = Append(Contents, m)[i]
    BY <1>3, <1>6, <1>7, <2>2
  <2> QED
    BY <1>5, <2>2, <2>3, SeqEqual
<1>9. Leaving' = Leaving
  <2>1. step = "load" => buf'[slot] = buf[slot]
    <3> SUFFICES ASSUME step = "load" PROVE slot # head
      BY <1>1, <1>2
    <3> QED
      BY <1>1 DEF RingInv, ReaderConsistent
  <2> QED
    BY <1>1, <2>1 DEF Leaving
<1> QED
  BY <1>3, <1>4, <1>8, <1>9 DEF Fifo!Put

\* The store of the tail takes the oldest value, loaded already or not.
LEMMA AdvanceIsTake ==
    ASSUME SizeOK, RingInv, RingInv', Advance
    PROVE  Fifo!Take
<1> DEFINE n == Span(head, tail)
<1>1. /\ step \in {"both", "advance"}
      /\ step' = IF step = "both" THEN "load" ELSE "done"
      /\ tail' = Succ(tail)
      /\ buf' = buf /\ head' = head /\ slot' = slot /\ val' = val
  BY DEF Advance
<1>2. head \in Slots /\ tail \in Slots /\ head # tail /\ slot = tail
  BY <1>1 DEF RingInv, RingTypeOK, ReaderConsistent
<1>3. /\ n \in Nat /\ n >= 1
      /\ Span(head', tail') = n - 1
      /\ Nth(tail, 1) = tail
      /\ \A i \in 1..(n - 1) : Nth(tail', i) = Nth(tail, i + 1)
  BY <1>1, <1>2, SpanSlots
<1>4. /\ Contents \in Seq(Msgs \cup {Blank}) /\ Len(Contents) = n
      /\ \A i \in 1..n : Contents[i] = buf[Nth(tail, i)]
  BY ContentsSeq
<1>5. Contents # <<>> /\ Head(Contents) = buf[tail]
  BY <1>3, <1>4
<1>6. Contents' = Tail(Contents)
  <2>1. /\ Contents' \in Seq(Msgs \cup {Blank})
        /\ Len(Contents') = n - 1
        /\ \A i \in 1..(n - 1) : Contents'[i] = buf[Nth(tail, i + 1)]
    <3>1. Contents' = [i \in 1..(n - 1) |-> buf[Nth(tail', i)]]
      BY <1>1, <1>3 DEF Contents
    <3>2. \A i \in 1..(n - 1) : buf[Nth(tail', i)] \in Msgs \cup {Blank}
      BY <1>2, <1>3, SpanSlots DEF RingInv, RingTypeOK
    <3> QED
      BY <1>3, <3>1, <3>2
  <2>2. /\ Tail(Contents) \in Seq(Msgs \cup {Blank})
        /\ Len(Tail(Contents)) = n - 1
        /\ \A i \in 1..(n - 1) : Tail(Contents)[i] = Contents[i + 1]
    BY <1>4, <1>5, HeadTailProperties
  <2> HIDE DEF n
  <2>3. \A i \in 1..(n - 1) : Contents[i + 1] = buf[Nth(tail, i + 1)]
    BY <1>3, <1>4
  <2> QED
    BY <2>1, <2>2, <2>3, SeqEqual
<1>7. Leaving = <<>> /\ Leaving' = <<buf[tail]>>
  BY <1>1, <1>2 DEF Leaving, RingInv, ReaderConsistent
<1> QED
  BY <1>5, <1>6, <1>7 DEF Fifo!Take

\* Each keyboard ring implements the bounded FIFO queue, whichever way pushes of
\* the interrupt handler fall between the reader's steps.
THEOREM RingIsFifo ==
    ASSUME SizeOK
    PROVE  RingSpec => IsFifo
<1>1. RingInit => Fifo!Init
  <2> SUFFICES ASSUME RingInit PROVE Contents = <<>> /\ Leaving = <<>>
    BY DEF Fifo!Init
  <2>1. Span(head, tail) = 0
    BY DEF SizeOK, RingInit, Span
  <2>2. Contents = [i \in 1..0 |-> buf[Nth(tail, i)]]
    BY <2>1 DEF Contents
  <2> QED
    BY <2>2 DEF RingInit, Leaving
<1>2. RingInv /\ RingInv' /\ [RingNext]_ringVars => [Fifo!Next]_<<Contents, Leaving>>
  <2> SUFFICES ASSUME RingInv, RingInv', [RingNext]_ringVars
               PROVE  Fifo!Next \/ UNCHANGED <<Contents, Leaving>>
    OBVIOUS
  <2>1. ASSUME NEW m \in Msgs, Push(m) PROVE Fifo!Next
    BY <2>1, PushIsPut DEF Fifo!Next
  <2>2. CASE Drop
    BY <2>2 DEF Drop, ringVars, Contents, Leaving
  <2>3. CASE Begin
    BY <2>3 DEF Begin, Contents, Leaving
  <2>4. CASE Load
    BY <2>4 DEF Load, Contents, Leaving
  <2>5. CASE Advance
    BY <2>5, AdvanceIsTake DEF Fifo!Next
  <2>6. CASE Return
    <3>1. Contents' = Contents /\ Leaving = <<val>> /\ Leaving' = <<>>
      BY <2>6 DEF Return, Contents, Leaving
    <3> QED
      BY <3>1 DEF Fifo!Next, Fifo!Deliver
  <2>7. CASE UNCHANGED ringVars
    BY <2>7 DEF ringVars, Contents, Leaving
  <2> QED
    BY <2>1, <2>2, <2>3, <2>4, <2>5, <2>6, <2>7 DEF RingNext
<1> QED
  BY <1>1, <1>2, RingInvariant, PTL DEF RingSpec, IsFifo, Fifo!Spec
=============================================================================
