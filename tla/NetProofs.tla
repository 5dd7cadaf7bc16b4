------------------------------ MODULE NetProofs ------------------------------
(***************************************************************************)
(* The network driver for rings of every size and any number of frames:    *)
(* the card and the driver never touch the same receive descriptor, frames *)
(* are counted in the order they arrive, and a call that answers that its  *)
(* frame went out is right, though the transmit ring overwrites itself.    *)
(***************************************************************************)
EXTENDS Net, FiniteSetTheorems, SequenceTheorems, TLAPS

\* How far slot b of a ring of N is from slot a, and the slot k further than a.
Gap(N, a, b) == IF b >= a THEN b - a ELSE b - a + N
Pos(N, a, k) == IF a + k < N THEN a + k ELSE a + k - N

LEMMA Modulo ==
    ASSUME NEW N \in Nat \ {0}, NEW a \in 0..(2 * N - 1)
    PROVE  a % N = IF a < N THEN a ELSE a - N
OBVIOUS

LEMMA SlotAfter ==
    ASSUME NEW N \in Nat \ {0}, NEW a \in 0..(N - 1), NEW k \in 0..N
    PROVE  (a + k) % N = Pos(N, a, k)
<1> PICK s : s = a + k
  OBVIOUS
<1>1. s \in 0..(2 * N - 1)
  OBVIOUS
<1>2. s % N = IF s < N THEN s ELSE s - N
  BY <1>1, Modulo
<1> QED
  BY <1>2 DEF Pos

\* The distances from a change when the end of a stretch, or its start, moves on.
LEMMA Gaps ==
    ASSUME NEW N \in Nat \ {0}, NEW a \in 0..(N - 1), NEW b \in 0..(N - 1)
    PROVE  /\ Gap(N, a, b) \in 0..(N - 1)
           /\ Pos(N, a, 1) \in 0..(N - 1)
           /\ \A k \in 0..(N - 1) : Pos(N, a, k) \in 0..(N - 1) /\ Gap(N, a, Pos(N, a, k)) = k
           /\ \A i \in 0..(N - 1) : Pos(N, a, Gap(N, a, i)) = i
           /\ \A i \in 0..(N - 1) : Gap(N, a, i) = Gap(N, a, b) => i = b
           /\ Pos(N, b, 1) # a => Gap(N, a, Pos(N, b, 1)) = Gap(N, a, b) + 1
           /\ \A i \in 0..(N - 1) : i # a => Gap(N, Pos(N, a, 1), i) = Gap(N, a, i) - 1
           /\ Gap(N, Pos(N, a, 1), a) = N - 1
           /\ Gap(N, a, a) = 0
           /\ Gap(N, a, b) = 0 => a = b
BY DEF Gap, Pos

-----------------------------------------------------------------------------
(* The transmit ring. *)

\* The descriptors the card has still to send, as it sees them: when the tail has
\* run into the head it sees none.
TxSpan == Gap(NTX, tdh, tdt)
TxAt(i) == Gap(NTX, tdh, i)
TxOwned == {i \in 0..(NTX - 1) : TxAt(i) < TxSpan}

TxType == /\ txDD \in [0..(NTX - 1) -> BOOLEAN]
          /\ txFrame \in [0..(NTX - 1) -> 0..MaxSends]
          /\ tdh \in 0..(NTX - 1) /\ tdt \in 0..(NTX - 1) /\ txCur \in 0..(NTX - 1)
          /\ called \in 0..MaxSends
          /\ sent \in Seq(1..MaxSends)

\* The driver fills the descriptor at the tail, which the card does not own.
TailIsCur == tdt = txCur

\* What the card owns was handed over in order, after all that has gone out.
TxOrdered == /\ \A i \in TxOwned : txFrame[i] \in 1..called
             /\ \A i, j \in TxOwned : TxAt(i) < TxAt(j) => txFrame[i] < txFrame[j]
             /\ \A k \in DOMAIN sent : sent[k] <= called
             /\ \A k \in DOMAIN sent, i \in TxOwned : sent[k] < txFrame[i]
             /\ \A j, k \in DOMAIN sent : j < k => sent[j] < sent[k]

\* Between its fill and its store of the tail a call's frame is newer than all the
\* card has seen; afterwards its descriptor is done only if it was sent.
TxCall == /\ pc = "filled" =>
                /\ called >= 1 /\ called \notin confirmed
                /\ txFrame[txCur] = called /\ ~txDD[txCur]
                /\ \A i \in TxOwned : txFrame[i] < called
                /\ \A k \in DOMAIN sent : sent[k] < called
          /\ pc = "wait" =>
                /\ called >= 1 /\ called \notin confirmed
                /\ \A c \in 0..(NTX - 1) : TxNext(c) = txCur =>
                      /\ txFrame[c] = called
                      /\ txDD[c] => \E k \in DOMAIN sent : sent[k] = called

TxConfirmed == /\ confirmed \subseteq 1..called
               /\ IsFiniteSet(confirmed)
               /\ txOk = Cardinality(confirmed)
               /\ \A f \in confirmed : \E k \in DOMAIN sent : sent[k] = f

TxInv == TxType /\ TailIsCur /\ TxOrdered /\ TxCall /\ TxConfirmed

LEMMA TxNextIs ==
    /\ \A i \in 0..(NTX - 1) : TxNext(i) = Pos(NTX, i, 1) /\ TxNext(i) \in 0..(NTX - 1)
    /\ \A i, j \in 0..(NTX - 1) : TxNext(i) = TxNext(j) => i = j
    /\ \A i \in 0..(NTX - 1) : \E j \in 0..(NTX - 1) : TxNext(j) = i
<1>1. \A i \in 0..(NTX - 1) : TxNext(i) = Pos(NTX, i, 1)
  BY SlotAfter, NetAssumption DEF TxNext
<1>2. /\ \A i \in 0..(NTX - 1) : Pos(NTX, i, 1) \in 0..(NTX - 1)
      /\ \A i, j \in 0..(NTX - 1) : Pos(NTX, i, 1) = Pos(NTX, j, 1) => i = j
  BY NetAssumption DEF Pos
<1>3. \A i \in 0..(NTX - 1) : Pos(NTX, IF i = 0 THEN NTX - 1 ELSE i - 1, 1) = i
  BY NetAssumption DEF Pos
<1>4. \A i \in 0..(NTX - 1) : (IF i = 0 THEN NTX - 1 ELSE i - 1) \in 0..(NTX - 1)
  BY NetAssumption
<1> HIDE DEF Pos
<1> QED
  BY <1>1, <1>2, <1>3, <1>4

LEMMA TxInit == Init => TxInv
<1> SUFFICES ASSUME Init PROVE TxInv
  OBVIOUS
<1>1. /\ tdh = 0 /\ tdt = 0 /\ txCur = 0 /\ called = 0 /\ sent = <<>> /\ confirmed = {}
      /\ txOk = 0 /\ pc = "loop"
      /\ txDD = [i \in 0..(NTX - 1) |-> TRUE] /\ txFrame = [i \in 0..(NTX - 1) |-> 0]
  BY DEF Init
<1>2. TxType
  BY <1>1, NetAssumption DEF TxType
<1>3. TxOwned = {}
  BY <1>1, NetAssumption DEF TxOwned, TxAt, TxSpan, Gap
<1>4. Cardinality({}) = 0 /\ IsFiniteSet({})
  BY FS_EmptySet
<1> QED
  BY <1>1, <1>2, <1>3, <1>4 DEF TxInv, TailIsCur, TxOrdered, TxCall, TxConfirmed

\* The descriptor at the tail is not the card's; the tail moves on past it.
LEMMA TxTailMoves ==
    ASSUME TxType
    PROVE  /\ tdt \notin TxOwned
           /\ tdh # tdt => tdh \in TxOwned /\ \A i \in TxOwned : i # tdh => TxAt(tdh) < TxAt(i)
BY NetAssumption DEF TxType, TxOwned, TxAt, TxSpan, Gap

LEMMA TxFillKeeps ==
    ASSUME TxInv, TxFill
    PROVE  TxInv'
<1> USE NetAssumption
<1>1. /\ called < MaxSends /\ called' = called + 1
      /\ txFrame' = [txFrame EXCEPT ![txCur] = called']
      /\ txDD' = [txDD EXCEPT ![txCur] = FALSE]
      /\ pc' = "filled"
      /\ tdh' = tdh /\ tdt' = tdt /\ txCur' = txCur /\ sent' = sent
      /\ confirmed' = confirmed /\ txOk' = txOk
  BY DEF TxFill
<1>2. TxType'
  BY <1>1 DEF TxInv, TxType
<1>3. TxOwned' = TxOwned /\ \A i \in TxOwned : TxAt(i)' = TxAt(i)
  BY <1>1 DEF TxOwned, TxAt, TxSpan
<1>4. \A i \in TxOwned : txFrame'[i] = txFrame[i]
  BY <1>1, TxTailMoves DEF TxInv, TailIsCur, TxType, TxOwned
<1>5. txFrame'[txCur] = called' /\ ~txDD'[txCur]
  BY <1>1 DEF TxInv, TxType
<1>6. called \in Nat /\ \A k \in DOMAIN sent : sent[k] \in Nat
  BY DEF TxInv, TxType
<1>7. \A i \in TxOwned : txFrame[i] \in 1..called
  BY DEF TxInv, TxOrdered
<1>8. TxOrdered'
  BY <1>1, <1>3, <1>4, <1>6, <1>7 DEF TxInv, TxOrdered
<1>9. TxCall'
  <2>1. /\ \A k \in DOMAIN sent : sent[k] < called'
        /\ called' \notin confirmed /\ called' >= 1
    BY <1>1, <1>6 DEF TxInv, TxOrdered, TxConfirmed
  <2>2. \A i \in TxOwned' : txFrame'[i] < called'
    BY <1>1, <1>3, <1>4, <1>6, <1>7
  <2> QED
    BY <1>1, <1>5, <2>1, <2>2 DEF TxCall
<1>10. TxConfirmed'
  BY <1>1, <1>6 DEF TxInv, TxConfirmed
<1> QED
  BY <1>1, <1>2, <1>8, <1>9, <1>10 DEF TxInv, TailIsCur

\* The tail moves on: the card gets the descriptor behind its last, or none at all
\* when the tail meets the head.
LEMMA TxTailKeeps ==
    ASSUME TxInv, TxTail
    PROVE  TxInv'
<1> USE NetAssumption
<1>1. /\ pc = "filled" /\ pc' = "wait"
      /\ txCur' = TxNext(txCur) /\ tdt' = txCur'
      /\ UNCHANGED <<txDD, txFrame, tdh, txOk, called, sent, confirmed>>
  BY DEF TxTail
<1>2. /\ txCur = tdt /\ tdt \in 0..(NTX - 1) /\ tdh \in 0..(NTX - 1)
      /\ tdt' = Pos(NTX, tdt, 1) /\ tdt' \in 0..(NTX - 1)
  BY <1>1, TxNextIs DEF TxInv, TailIsCur, TxType
<1>3. TxType'
  BY <1>1, <1>2 DEF TxInv, TxType
<1>4. /\ \A i \in TxOwned' : i \in TxOwned \/ i = tdt
      /\ \A i \in TxOwned' : i \in 0..(NTX - 1) /\ TxAt(i)' = TxAt(i)
      /\ tdt \in TxOwned' => \A i \in TxOwned : TxAt(i) < TxAt(tdt)
  BY <1>1, <1>2 DEF TxOwned, TxAt, TxSpan, Gap, Pos
<1>5. /\ called >= 1 /\ called \notin confirmed /\ called \in Nat
      /\ txFrame[tdt] = called /\ ~txDD[tdt]
      /\ \A i \in TxOwned : txFrame[i] < called /\ txFrame[i] \in 1..called
      /\ \A k \in DOMAIN sent : sent[k] < called
  BY <1>1, <1>2 DEF TxInv, TxCall, TxType, TxOrdered
<1>6. TxOrdered'
  <2>1. \A i \in TxOwned' : txFrame'[i] \in 1..called'
    BY <1>1, <1>4, <1>5
  <2>2. ASSUME NEW i \in TxOwned', NEW j \in TxOwned', TxAt(i) < TxAt(j)
        PROVE  txFrame[i] < txFrame[j]
    <3>1. CASE j = tdt
      <4>1. i # tdt
        BY <1>2, <1>4, <2>2, <3>1 DEF TxAt, Gap
      <4> QED
        BY <1>4, <1>5, <3>1, <4>1
    <3>2. CASE j # tdt /\ i = tdt
      <4>1. TxAt(j) < TxAt(tdt) /\ TxAt(j) \in Int /\ TxAt(tdt) \in Int
        BY <1>2, <1>4, <3>2 DEF TxAt, Gap
      <4> QED
        BY <2>2, <3>2, <4>1
    <3>3. CASE j # tdt /\ i # tdt
      BY <1>4, <2>2, <3>3 DEF TxInv, TxOrdered
    <3> QED
      BY <3>1, <3>2, <3>3
  <2>3. \A k \in DOMAIN sent, i \in TxOwned' : sent[k] < txFrame[i]
    BY <1>4, <1>5 DEF TxInv, TxOrdered
  <2> QED
    BY <1>1, <1>4, <2>1, <2>2, <2>3 DEF TxInv, TxOrdered
<1>7. TxCall'
  <2>1. ASSUME NEW c \in 0..(NTX - 1), TxNext(c) = txCur' PROVE c = tdt
    BY <1>1, <1>2, <2>1, TxNextIs
  <2> QED
    BY <1>1, <1>5, <2>1 DEF TxCall, TxNext
<1> QED
  BY <1>1, <1>3, <1>6, <1>7 DEF TxInv, TailIsCur, TxConfirmed

\* The card sends the oldest frame it owns.
LEMMA CardSendsKeeps ==
    ASSUME TxInv, CardSends
    PROVE  TxInv'
<1> USE NetAssumption
<1>1. /\ tdh # tdt
      /\ sent' = Append(sent, txFrame[tdh])
      /\ txDD' = [txDD EXCEPT ![tdh] = TRUE]
      /\ tdh' = TxNext(tdh)
      /\ UNCHANGED <<txFrame, tdt, txCur, txOk, called, confirmed, pc>>
  BY DEF CardSends
<1>2. /\ tdt = txCur /\ tdt \in 0..(NTX - 1) /\ tdh \in 0..(NTX - 1)
      /\ tdh' = Pos(NTX, tdh, 1) /\ tdh' \in 0..(NTX - 1)
      /\ txDD \in [0..(NTX - 1) -> BOOLEAN]
  BY <1>1, TxNextIs DEF TxInv, TailIsCur, TxType
<1> DEFINE f == txFrame[tdh]
<1>3. /\ f \in 1..called /\ called \in 0..MaxSends
      /\ \A i \in TxOwned : i # tdh => f < txFrame[i]
      /\ \A k \in DOMAIN sent : sent[k] < f
  BY <1>1, TxTailMoves DEF TxInv, TxOrdered, TxType
<1> HIDE DEF f
<1>4. /\ sent \in Seq(1..MaxSends) /\ Len(sent) \in Nat /\ DOMAIN sent = 1..Len(sent)
      /\ sent' \in Seq(1..MaxSends)
      /\ Len(sent') = Len(sent) + 1 /\ DOMAIN sent' = 1..(Len(sent) + 1)
      /\ sent'[Len(sent) + 1] = f
      /\ \A k \in 1..Len(sent) : sent'[k] = sent[k]
  <2>1. sent \in Seq(1..MaxSends) /\ f \in 1..MaxSends /\ sent' = Append(sent, f)
    BY <1>1, <1>3 DEF TxInv, TxType, f
  <2>2. sent' \in Seq(1..MaxSends) /\ Len(sent') = Len(sent) + 1
    BY <2>1, AppendProperties
  <2> QED
    BY <2>1, <2>2, AppendProperties
<1>5. \A i \in TxOwned' : i \in TxOwned /\ i # tdh
  BY <1>1, <1>2 DEF TxOwned, TxAt, TxSpan, Gap, Pos
<1>6. \A i, j \in TxOwned' : TxAt(i)' < TxAt(j)' => TxAt(i) < TxAt(j)
  BY <1>1, <1>2 DEF TxOwned, TxAt, TxSpan, Gap, Pos
<1>7. TxType'
  BY <1>1, <1>2, <1>4 DEF TxInv, TxType
<1>8. \A k \in DOMAIN sent' : sent'[k] <= f /\ (k # Len(sent) + 1 => k \in DOMAIN sent)
  BY <1>3, <1>4
<1>9. TxOrdered'
  <2>1. \A i \in TxOwned' : txFrame'[i] \in 1..called'
    BY <1>1, <1>5 DEF TxInv, TxOrdered
  <2>2. \A i, j \in TxOwned' : TxAt(i)' < TxAt(j)' => txFrame'[i] < txFrame'[j]
    BY <1>1, <1>5, <1>6 DEF TxInv, TxOrdered
  <2>3. \A k \in DOMAIN sent' : sent'[k] <= called' /\ sent'[k] \in Nat
    BY <1>1, <1>3, <1>4, <1>8
  <2>4. \A k \in DOMAIN sent', i \in TxOwned' : sent'[k] < txFrame'[i]
    <3>1. \A i \in TxOwned' : f < txFrame'[i] /\ txFrame'[i] \in Nat
      BY <1>1, <1>3, <1>5, <2>1
    <3> QED
      BY <1>3, <1>8, <2>3, <3>1
  <2>5. \A j, k \in DOMAIN sent' : j < k => sent'[j] < sent'[k]
    <3> SUFFICES ASSUME NEW j \in DOMAIN sent', NEW k \in DOMAIN sent', j < k
                 PROVE  sent'[j] < sent'[k]
      OBVIOUS
    <3>1. j \in DOMAIN sent /\ sent'[j] = sent[j]
      BY <1>4
    <3>2. CASE k = Len(sent) + 1
      BY <1>3, <1>4, <3>1, <3>2
    <3>3. CASE k # Len(sent) + 1
      <4>1. k \in DOMAIN sent /\ sent'[k] = sent[k]
        BY <1>4, <3>3
      <4>2. sent[j] < sent[k]
        BY <3>1, <4>1 DEF TxInv, TxOrdered
      <4> QED
        BY <3>1, <4>1, <4>2
    <3> QED
      BY <3>2, <3>3
  <2> QED
    BY <2>1, <2>2, <2>3, <2>4, <2>5 DEF TxOrdered
<1>10. TxCall'
  <2>1. CASE pc = "filled"
    <3>1. /\ called >= 1 /\ called \notin confirmed
          /\ txFrame[txCur] = called /\ ~txDD[txCur]
          /\ \A i \in TxOwned : txFrame[i] < called
      BY <2>1 DEF TxInv, TxCall
    <3>2. f < called
      BY <1>1, <3>1, TxTailMoves DEF TxInv, f
    <3>3. ~txDD'[txCur]
      BY <1>1, <1>2, <3>1
    <3>4. \A k \in DOMAIN sent' : sent'[k] < called
      BY <1>3, <1>4, <1>8, <3>2
    <3> QED
      BY <1>1, <1>5, <2>1, <3>1, <3>3, <3>4 DEF TxCall
  <2>2. CASE pc = "wait"
    <3>1. /\ called >= 1 /\ called \notin confirmed
          /\ \A c \in 0..(NTX - 1) : TxNext(c) = txCur =>
                /\ txFrame[c] = called
                /\ txDD[c] => \E k \in DOMAIN sent : sent[k] = called
      BY <2>2 DEF TxInv, TxCall
    <3>2. ASSUME NEW c \in 0..(NTX - 1), TxNext(c) = txCur, txDD'[c]
          PROVE  \E k \in DOMAIN sent' : sent'[k] = called
      <4>1. CASE c = tdh
        BY <1>4, <3>1, <3>2, <4>1 DEF f
      <4>2. CASE c # tdh
        <5>1. PICK k \in DOMAIN sent : sent[k] = called
          BY <1>1, <1>2, <3>1, <3>2, <4>2
        <5> QED
          BY <1>4, <5>1
      <4> QED
        BY <4>1, <4>2
    <3> QED
      BY <1>1, <2>2, <3>1, <3>2 DEF TxCall, TxNext
  <2> QED
    BY <1>1, <2>1, <2>2 DEF TxCall
<1>11. TxConfirmed'
  <2>1. ASSUME NEW g \in confirmed PROVE \E k \in DOMAIN sent' : sent'[k] = g
    <3>1. PICK k \in DOMAIN sent : sent[k] = g
      BY DEF TxInv, TxConfirmed
    <3> QED
      BY <1>4, <3>1
  <2> QED
    BY <1>1, <2>1 DEF TxInv, TxConfirmed
<1> QED
  BY <1>1, <1>2, <1>7, <1>9, <1>10, <1>11 DEF TxInv, TailIsCur

\* A call looks at the descriptor it filled: cur is the one before tx_cur.
LEMMA TxAnswerKeeps ==
    ASSUME TxInv, TxAnswer
    PROVE  TxInv'
<1> USE NetAssumption
<1>1. /\ pc = "wait" /\ pc' = "loop"
      /\ UNCHANGED <<txDD, txFrame, tdh, tdt, txCur, called, sent>>
      /\ IF txDD[Cur] THEN txOk' = txOk + 1 /\ confirmed' = confirmed \cup {called}
         ELSE UNCHANGED <<txOk, confirmed>>
  BY DEF TxAnswer
<1>2. Cur \in 0..(NTX - 1) /\ TxNext(Cur) = txCur
  <2>1. \E j \in 0..(NTX - 1) : TxNext(j) = txCur
    BY TxNextIs DEF TxInv, TxType
  <2> QED
    BY <2>1 DEF Cur
<1>3. TxConfirmed'
  <2>1. CASE txDD[Cur]
    <3>1. /\ called >= 1 /\ called \notin confirmed /\ called \in Nat
          /\ \E k \in DOMAIN sent : sent[k] = called
      BY <1>1, <1>2, <2>1 DEF TxInv, TxCall, TxType
    <3>2. /\ confirmed' = confirmed \cup {called} /\ txOk' = txOk + 1
          /\ called' = called /\ sent' = sent
      BY <1>1, <2>1
    <3>3. IsFiniteSet(confirmed') /\ Cardinality(confirmed') = Cardinality(confirmed) + 1
      BY <3>1, <3>2, FS_AddElement DEF TxInv, TxConfirmed
    <3> QED
      BY <3>1, <3>2, <3>3 DEF TxInv, TxConfirmed
  <2>2. CASE ~txDD[Cur]
    BY <1>1, <2>2 DEF TxInv, TxConfirmed
  <2> QED
    BY <2>1, <2>2
<1>4. TxOwned' = TxOwned /\ \A i : TxAt(i)' = TxAt(i)
  BY <1>1 DEF TxOwned, TxAt, TxSpan
<1>5. TxType' /\ TxOrdered'
  BY <1>1, <1>4 DEF TxInv, TxType, TxOrdered
<1>6. TxCall'
  BY <1>1 DEF TxCall
<1> QED
  BY <1>1, <1>3, <1>5, <1>6 DEF TxInv, TailIsCur

-----------------------------------------------------------------------------
(* The receive ring. *)

\* The descriptors that hold frames of the card: as many as it is ahead of the
\* first the driver will look at.
RxSpan == Gap(NRX, First, rdh)
RxAt(i) == Gap(NRX, First, i)

RxType == /\ rxDD \in [0..(NRX - 1) -> BOOLEAN]
          /\ rxFrame \in [0..(NRX - 1) -> 0..MaxFrames]
          /\ rdh \in 0..(NRX - 1) /\ rdt \in 0..(NRX - 1) /\ rxCur \in 0..(NRX - 1)
          /\ rxOk \in Nat /\ arrived \in 0..MaxFrames
          /\ n \in 0..NRX
          /\ pc \in {"loop", "test", "clear", "return", "filled", "wait"}

\* The tail is the descriptor behind rx_cur, the done ones are those the card is
\* ahead, and while the driver handles a frame the card does not come round to it.
RxInv == /\ RxType
         /\ RxNext(rdt) = rxCur
         /\ \A i \in 0..(NRX - 1) : rxDD[i] <=> RxAt(i) < RxSpan
         /\ pc \in {"clear", "return"} => rdh # rxCur /\ n < NRX

LEMMA RxNextIs ==
    /\ \A i \in 0..(NRX - 1) : RxNext(i) = Pos(NRX, i, 1) /\ RxNext(i) \in 0..(NRX - 1)
    /\ \A i, j \in 0..(NRX - 1) : RxNext(i) = RxNext(j) => i = j
<1>1. \A i \in 0..(NRX - 1) : RxNext(i) = Pos(NRX, i, 1)
  BY SlotAfter, NetAssumption DEF RxNext
<1>2. /\ \A i \in 0..(NRX - 1) : Pos(NRX, i, 1) \in 0..(NRX - 1)
      /\ \A i, j \in 0..(NRX - 1) : Pos(NRX, i, 1) = Pos(NRX, j, 1) => i = j
  BY NetAssumption DEF Pos
<1> HIDE DEF Pos
<1> QED
  BY <1>1, <1>2

LEMMA FirstIs == RxType => First \in 0..(NRX - 1)
BY RxNextIs DEF RxType, First

LEMMA RxInit == Init => RxInv
<1> SUFFICES ASSUME Init PROVE RxInv
  OBVIOUS
<1> USE NetAssumption
<1>1. /\ rdh = 0 /\ rdt = NRX - 1 /\ rxCur = 0 /\ rxOk = 0 /\ arrived = 0 /\ n = 0
      /\ pc = "loop"
      /\ rxDD = [i \in 0..(NRX - 1) |-> FALSE] /\ rxFrame = [i \in 0..(NRX - 1) |-> 0]
  BY DEF Init
<1>2. RxType
  BY <1>1 DEF RxType
<1>3. RxNext(rdt) = rxCur
  BY <1>1, <1>2, RxNextIs DEF RxType, Pos
<1>4. First = 0
  BY <1>1 DEF First
<1>5. \A i \in 0..(NRX - 1) : ~(RxAt(i) < RxSpan)
  BY <1>1, <1>4 DEF RxAt, RxSpan, Gap
<1> QED
  BY <1>1, <1>2, <1>3, <1>5 DEF RxInv

\* The card fills the descriptor at its head, which is not done and not the one
\* the driver is handling.
LEMMA CardReceivesStep ==
    ASSUME RxInv, CardReceives
    PROVE  /\ RxInv'
           /\ First' = First /\ RxSpan' = RxSpan + 1 /\ RxSpan < NRX - 1
           /\ pc' = pc /\ rxCur' = rxCur
           /\ rdh = Pos(NRX, First, RxSpan)
           /\ arrived' = arrived + 1 /\ arrived' \in 1..MaxFrames
           /\ rxFrame' = [rxFrame EXCEPT ![rdh] = arrived']
           /\ pc = "return" => rdh # rxCur
<1> USE NetAssumption
<1>1. /\ rdh # rdt /\ arrived < MaxFrames /\ arrived' = arrived + 1
      /\ rxFrame' = [rxFrame EXCEPT ![rdh] = arrived']
      /\ rxDD' = [rxDD EXCEPT ![rdh] = TRUE]
      /\ rdh' = RxNext(rdh)
      /\ UNCHANGED <<rdt, rxCur, rxOk, pc, n>>
  BY DEF CardReceives
<1>2. RxType
  BY DEF RxInv
<1>3. /\ rdh \in 0..(NRX - 1) /\ First \in 0..(NRX - 1) /\ rdt \in 0..(NRX - 1)
      /\ rxCur \in 0..(NRX - 1)
      /\ rdh' = Pos(NRX, rdh, 1) /\ rdh' \in 0..(NRX - 1)
      /\ rxCur = Pos(NRX, rdt, 1)
  BY <1>1, <1>2, FirstIs, RxNextIs DEF RxType, RxInv
<1>4. First' = First
  BY <1>1 DEF First, RxNext
<1>5. pc = "return" => rdh # rxCur /\ First = Pos(NRX, rxCur, 1)
  BY <1>3, RxNextIs DEF RxInv, First
<1>6. pc # "return" => First = rxCur
  BY DEF First
<1>7. rdh' # First /\ (pc \in {"clear", "return"} => rdh' # rxCur)
  BY <1>1, <1>3, <1>5, <1>6 DEF Pos, RxInv
<1>8. RxSpan' = RxSpan + 1 /\ RxSpan \in Nat /\ RxSpan < NRX - 1
  BY <1>3, <1>4, <1>7 DEF RxSpan, Gap, Pos
<1>9. rdh = Pos(NRX, First, RxSpan)
  BY <1>3 DEF RxSpan, Gap, Pos
<1>10. ASSUME NEW i \in 0..(NRX - 1)
       PROVE  rxDD'[i] <=> RxAt(i)' < RxSpan'
  <2>1. RxAt(i)' = RxAt(i) /\ (RxAt(i) = RxSpan <=> i = rdh) /\ RxAt(i) \in Nat
    BY <1>3, <1>4 DEF RxAt, RxSpan, Gap
  <2>2. rxDD'[i] <=> rxDD[i] \/ i = rdh
    BY <1>1, <1>2, <1>3 DEF RxType
  <2> QED
    BY <1>8, <2>1, <2>2 DEF RxInv
<1>11. RxType'
  BY <1>1, <1>2, <1>3, SMTT(30) DEF RxType
<1>12. RxInv'
  BY <1>1, <1>7, <1>10, <1>11 DEF RxInv, RxNext
<1> QED
  BY <1>1, <1>2, <1>4, <1>5, <1>8, <1>9, <1>12 DEF RxType

\* net_poll looks at rx_cur: if its status bit is set the card is ahead of it.
LEMMA PollTestStep ==
    ASSUME RxInv, PollTest
    PROVE  RxInv' /\ First' = First /\ pc' # "return" /\ pc # "return"
<1> USE NetAssumption
<1>1. /\ pc = "test" /\ pc' = IF n < NRX /\ rxDD[rxCur] THEN "clear" ELSE "loop"
      /\ UNCHANGED <<rxDD, rxFrame, rdh, rdt, rxCur, rxOk, arrived, n>>
  BY DEF PollTest, rxVars
<1>2. RxType /\ RxType'
  BY <1>1 DEF RxInv, RxType
<1>3. First = rxCur /\ First' = First
  BY <1>1 DEF First
<1>4. pc' = "clear" => rdh # rxCur /\ n < NRX
  <2> SUFFICES ASSUME pc' = "clear" PROVE rdh # rxCur /\ n < NRX
    OBVIOUS
  <2>1. n < NRX /\ rxDD[rxCur]
    BY <1>1
  <2>2. RxAt(rxCur) < RxSpan
    BY <1>2, <2>1 DEF RxInv, RxType
  <2> QED
    BY <1>2, <1>3, <2>1, <2>2 DEF RxType, RxAt, RxSpan, Gap
<1>5. RxSpan' = RxSpan /\ \A i : RxAt(i)' = RxAt(i)
  BY <1>1, <1>3 DEF RxAt, RxSpan
<1> QED
  BY <1>1, <1>2, <1>3, <1>4, <1>5 DEF RxInv, RxNext

\* net_poll takes the frame at rx_cur: the next one is the first it will look at.
LEMMA PollClearStep ==
    ASSUME RxInv, PollClear
    PROVE  /\ RxInv'
           /\ First = rxCur /\ First' = Pos(NRX, First, 1)
           /\ RxSpan >= 1 /\ RxSpan' = RxSpan - 1
           /\ pc' = "return" /\ pc # "return"
           /\ rxFrame' = rxFrame /\ rxCur' = rxCur
<1> USE NetAssumption
<1>1. /\ pc = "clear" /\ pc' = "return"
      /\ rxOk' = rxOk + 1
      /\ rxDD' = [rxDD EXCEPT ![rxCur] = FALSE]
      /\ UNCHANGED <<rxFrame, rdh, rdt, rxCur, arrived, n>>
  BY DEF PollClear
<1>2. RxType
  BY DEF RxInv
<1>3. /\ rdh \in 0..(NRX - 1) /\ rxCur \in 0..(NRX - 1) /\ rdh # rxCur /\ n < NRX
      /\ First = rxCur /\ First' = Pos(NRX, rxCur, 1)
  <2>1. RxNext(rxCur) = Pos(NRX, rxCur, 1) /\ (RxNext(rxCur))' = RxNext(rxCur)
    BY <1>1, <1>2, RxNextIs DEF RxType, RxNext
  <2> QED
    BY <1>1, <1>2, <2>1 DEF RxInv, RxType, First
<1>4. RxSpan' = RxSpan - 1 /\ RxSpan >= 1 /\ RxSpan \in 0..(NRX - 1)
  BY <1>1, <1>3 DEF RxSpan, Gap, Pos
<1>5. ASSUME NEW i \in 0..(NRX - 1)
      PROVE  rxDD'[i] <=> RxAt(i)' < RxSpan'
  <2>1. /\ rxDD'[i] <=> rxDD[i] /\ i # rxCur
        /\ rxDD[i] <=> RxAt(i) < RxSpan
    BY <1>1, <1>2, <1>3 DEF RxType, RxInv
  <2>2. CASE i = rxCur
    <3>1. RxAt(i)' = NRX - 1
      BY <1>1, <1>3, <2>2 DEF RxAt, Gap, Pos
    <3> QED
      BY <1>4, <2>1, <2>2, <3>1
  <2>3. CASE i # rxCur
    <3>1. RxAt(i)' = RxAt(i) - 1 /\ RxAt(i) \in Nat
      BY <1>1, <1>3, <2>3 DEF RxAt, Gap, Pos
    <3> QED
      BY <1>4, <2>1, <2>3, <3>1
  <2> QED
    BY <2>2, <2>3
<1>6. RxType'
  BY <1>1, <1>2, <1>3 DEF RxType
<1>7. RxInv'
  BY <1>1, <1>3, <1>5, <1>6 DEF RxInv, RxNext
<1> QED
  BY <1>1, <1>3, <1>4, <1>7

\* net_poll gives the descriptor back to the card.
LEMMA PollReturnStep ==
    ASSUME RxInv, PollReturn
    PROVE  /\ RxInv'
           /\ First' = First /\ RxSpan' = RxSpan
           /\ pc = "return" /\ pc' # "return"
           /\ rxFrame' = rxFrame
<1> USE NetAssumption
<1>1. /\ pc = "return" /\ pc' = "test"
      /\ rdt' = rxCur /\ rxCur' = RxNext(rxCur) /\ n' = n + 1
      /\ UNCHANGED <<rxDD, rxFrame, rdh, rxOk, arrived>>
  BY DEF PollReturn
<1>2. RxType /\ n < NRX
  BY <1>1 DEF RxInv
<1>3. RxType'
  BY <1>1, <1>2, RxNextIs DEF RxType
<1>4. First' = First
  BY <1>1 DEF First
<1>5. RxSpan' = RxSpan /\ \A i : RxAt(i)' = RxAt(i)
  BY <1>1, <1>4 DEF RxAt, RxSpan
<1>6. RxInv'
  BY <1>1, <1>3, <1>5 DEF RxInv, RxNext
<1> QED
  BY <1>1, <1>4, <1>5, <1>6

\* The rest of the program leaves the receive ring alone.
LEMMA OtherRxStep ==
    ASSUME RxInv, UNCHANGED <<rxVars>>,
           UNCHANGED n \/ (pc' = "test" /\ n' = 0),
           pc' = pc \/ (pc' \in {"loop", "test", "filled", "wait"}
                        /\ pc \in {"loop", "filled", "wait"})
    PROVE  RxInv' /\ UNCHANGED <<First, rxCur, rxFrame, RxSpan>> /\ (pc' = "return" <=> pc = "return")
<1> USE NetAssumption
<1>1. UNCHANGED <<rxDD, rxFrame, rdh, rdt, rxCur, rxOk, arrived>>
  BY DEF rxVars
<1>2. pc \in {"clear", "return"} <=> pc' \in {"clear", "return"}
  OBVIOUS
<1>3. pc' = "return" <=> pc = "return"
  OBVIOUS
<1>4. First' = First
  BY <1>1, <1>3 DEF First, RxNext
<1>5. RxSpan' = RxSpan /\ \A i : RxAt(i)' = RxAt(i)
  BY <1>1, <1>4 DEF RxAt, RxSpan
<1>6. RxType'
  BY <1>1 DEF RxInv, RxType
<1>7. pc' \in {"clear", "return"} => n' = n
  OBVIOUS
<1> QED
  BY <1>1, <1>2, <1>3, <1>4, <1>5, <1>6, <1>7 DEF RxInv, RxNext

\* The frames waiting for net_poll, as a sequence.
WaitingFrames ==
    /\ Waiting \in Seq(0..MaxFrames)
    /\ RxSpan \in 0..(NRX - 1)
    /\ Len(Waiting) = RxSpan
    /\ \A k \in 1..RxSpan : Waiting[k] = rxFrame[Pos(NRX, First, k - 1)]

LEMMA WaitingIs == RxInv => WaitingFrames
<1> SUFFICES ASSUME RxInv PROVE WaitingFrames
  OBVIOUS
<1> USE NetAssumption
<1>1. /\ rxFrame \in [0..(NRX - 1) -> 0..MaxFrames]
      /\ First \in 0..(NRX - 1) /\ rdh \in 0..(NRX - 1)
  BY FirstIs DEF RxInv, RxType
<1>2. RxSpan \in 0..(NRX - 1)
  BY <1>1 DEF RxSpan, Gap
<1>3. \A j \in 0..(NRX - 1) : (First + j) % NRX = Pos(NRX, First, j)
  BY <1>1, SlotAfter
<1>4. \A j \in 0..(NRX - 1) : Pos(NRX, First, j) \in 0..(NRX - 1) /\ RxAt(Pos(NRX, First, j)) = j
  BY <1>1 DEF RxAt, Gap, Pos
<1>5. \A j \in 0..(NRX - 1) : rxDD[(First + j) % NRX] <=> j < RxSpan
  BY <1>3, <1>4 DEF RxInv
<1>6. \A m \in 1..NRX : Done(m - 1) <=> m <= RxSpan
  <2> TAKE m \in 1..NRX
  <2>1. m - 1 \in 0..(m - 1) /\ m - 1 \in 0..(NRX - 1)
    OBVIOUS
  <2>2. Done(m - 1) => m - 1 < RxSpan
    BY <1>5, <2>1 DEF Done
  <2>3. m <= RxSpan => Done(m - 1)
    BY <1>2, <1>5 DEF Done
  <2> QED
    BY <1>2, <2>2, <2>3
<1>7. {m \in 1..NRX : Done(m - 1)} = 1..RxSpan
  BY <1>2, <1>6
<1>8. Waiting = [k \in 1..RxSpan |-> rxFrame[(First + k - 1) % NRX]]
  BY <1>7 DEF Waiting
<1>9. \A k \in 1..RxSpan : /\ (First + k - 1) % NRX = Pos(NRX, First, k - 1)
                           /\ rxFrame[(First + k - 1) % NRX] \in 0..MaxFrames
  <2> TAKE k \in 1..RxSpan
  <2>1. k - 1 \in 0..(NRX - 1) /\ First + k - 1 = First + (k - 1)
    BY <1>1, <1>2
  <2> QED
    BY <1>1, <1>3, <1>4, <2>1
<1> QED
  BY <1>2, <1>8, <1>9 DEF WaitingFrames

\* The frame net_poll has taken from the ring and not yet given back.
Taken == IF pc = "return" THEN <<rxFrame[rxCur]>> ELSE <<>>

LEMMA ReceiveIsPut ==
    ASSUME RxInv, CardReceives
    PROVE  Rx!Next
<1> USE NetAssumption
<1>1. /\ RxInv'
      /\ First' = First /\ RxSpan' = RxSpan + 1 /\ RxSpan < NRX - 1
      /\ pc' = pc /\ rxCur' = rxCur
      /\ rdh = Pos(NRX, First, RxSpan)
      /\ arrived' \in 1..MaxFrames
      /\ rxFrame' = [rxFrame EXCEPT ![rdh] = arrived']
      /\ pc = "return" => rdh # rxCur
  BY CardReceivesStep
<1>2. /\ Waiting \in Seq(0..MaxFrames) /\ Len(Waiting) = RxSpan /\ RxSpan \in Nat
      /\ \A k \in 1..RxSpan : Waiting[k] = rxFrame[Pos(NRX, First, k - 1)]
  BY WaitingIs DEF WaitingFrames
<1>3. /\ Waiting' \in Seq(0..MaxFrames) /\ Len(Waiting') = RxSpan + 1
      /\ \A k \in 1..(RxSpan + 1) : Waiting'[k] = rxFrame'[Pos(NRX, First, k - 1)]
  <2>1. /\ Waiting' \in Seq(0..MaxFrames) /\ Len(Waiting') = RxSpan'
        /\ \A k \in 1..RxSpan' : Waiting'[k] = rxFrame'[Pos(NRX, First', k - 1)]
    <3>1. WaitingFrames'
      BY <1>1, WaitingIs, PTL
    <3> QED
      BY <3>1 DEF WaitingFrames, Pos
  <2> QED
    BY <1>1, <2>1
<1>4. /\ rxFrame \in [0..(NRX - 1) -> 0..MaxFrames] /\ First \in 0..(NRX - 1)
      /\ rdh \in 0..(NRX - 1) /\ rxCur \in 0..(NRX - 1)
  BY FirstIs DEF RxInv, RxType
<1>5. \A k \in 1..RxSpan : /\ Pos(NRX, First, k - 1) \in 0..(NRX - 1)
                           /\ Pos(NRX, First, k - 1) # rdh
  BY <1>1, <1>2, <1>4, SMTT(30) DEF Pos
<1> PICK m : m = arrived'
  OBVIOUS
<1>6. \A k \in 1..RxSpan : Waiting'[k] = Waiting[k]
  <2> TAKE k \in 1..RxSpan
  <2> PICK i : i = Pos(NRX, First, k - 1)
    OBVIOUS
  <2>1. i \in 0..(NRX - 1) /\ i # rdh
    BY <1>5
  <2>2. Waiting[k] = rxFrame[i]
    BY <1>2
  <2>3. Waiting'[k] = rxFrame'[i]
    <3>1. k \in 1..(RxSpan + 1)
      BY <1>2
    <3>2. Waiting'[k] = rxFrame'[Pos(NRX, First, k - 1)]
      BY <1>3, <3>1
    <3> QED
      BY <3>2
  <2> QED
    BY <1>1, <1>4, <2>1, <2>2, <2>3
<1>7. Waiting'[RxSpan + 1] = m
  <2>1. RxSpan + 1 \in 1..(RxSpan + 1) /\ (RxSpan + 1) - 1 = RxSpan
    BY <1>2
  <2> QED
    BY <1>1, <1>3, <1>4, <2>1
<1>8. Waiting' = Append(Waiting, m)
  <2>1. m \in 0..MaxFrames
    BY <1>1
  <2>2. /\ Append(Waiting, m) \in Seq(0..MaxFrames)
        /\ Len(Append(Waiting, m)) = RxSpan + 1
        /\ \A k \in 1..RxSpan : Append(Waiting, m)[k] = Waiting[k]
        /\ Append(Waiting, m)[RxSpan + 1] = m
    BY <1>2, <2>1, AppendProperties
  <2>3. \A k \in 1..(RxSpan + 1) : Waiting'[k] = Append(Waiting, m)[k]
    BY <1>2, <1>6, <1>7, <2>2
  <2> QED
    BY <1>3, <2>2, <2>3, SeqEqual
<1>9. Taken' = Taken
  BY <1>1, <1>4 DEF Taken
<1>10. Rx!Put(m)
  BY <1>1, <1>2, <1>8, <1>9 DEF Rx!Put, Taken
<1> QED
  BY <1>1, <1>10 DEF Rx!Next

LEMMA ClearIsTake ==
    ASSUME RxInv, PollClear
    PROVE  Rx!Next
<1> USE NetAssumption
<1>1. /\ RxInv'
      /\ First = rxCur /\ First' = Pos(NRX, First, 1)
      /\ RxSpan >= 1 /\ RxSpan' = RxSpan - 1
      /\ pc' = "return" /\ pc # "return"
      /\ rxFrame' = rxFrame /\ rxCur' = rxCur
  BY PollClearStep
<1>2. /\ Waiting \in Seq(0..MaxFrames) /\ Len(Waiting) = RxSpan /\ RxSpan \in 0..(NRX - 1)
      /\ \A k \in 1..RxSpan : Waiting[k] = rxFrame[Pos(NRX, First, k - 1)]
  BY WaitingIs DEF WaitingFrames
<1>3. /\ Waiting' \in Seq(0..MaxFrames) /\ Len(Waiting') = RxSpan'
      /\ \A k \in 1..RxSpan' : Waiting'[k] = rxFrame'[Pos(NRX, First', k - 1)]
  <2>1. WaitingFrames'
    BY <1>1, WaitingIs, PTL
  <2> QED
    BY <2>1 DEF WaitingFrames, Pos
<1>4. First \in 0..(NRX - 1)
  BY FirstIs DEF RxInv
<1>5. \A k \in 1..(RxSpan - 1) : Pos(NRX, Pos(NRX, First, 1), k - 1) = Pos(NRX, First, (k + 1) - 1)
  BY <1>2, <1>4 DEF Pos
<1>6. Waiting # <<>> /\ Head(Waiting) = rxFrame[rxCur]
  <2>1. Pos(NRX, First, 1 - 1) = rxCur
    BY <1>1, <1>4 DEF Pos
  <2>2. Waiting # <<>> /\ Head(Waiting) = Waiting[1] /\ 1 \in 1..RxSpan
    BY <1>1, <1>2
  <2> QED
    BY <1>2, <2>1, <2>2
<1>7. Waiting' = Tail(Waiting)
  <2>1. /\ Tail(Waiting) \in Seq(0..MaxFrames)
        /\ Len(Tail(Waiting)) = RxSpan - 1
        /\ \A k \in 1..(RxSpan - 1) : Tail(Waiting)[k] = Waiting[k + 1]
    BY <1>2, <1>6, HeadTailProperties
  <2>2. \A k \in 1..(RxSpan - 1) : Waiting[k + 1] = rxFrame[Pos(NRX, First, (k + 1) - 1)]
    BY <1>2
  <2>3. ASSUME NEW k \in 1..(RxSpan - 1) PROVE Waiting'[k] = Tail(Waiting)[k]
    <3>1. Waiting'[k] = rxFrame[Pos(NRX, Pos(NRX, First, 1), k - 1)]
      BY <1>1, <1>3
    <3>2. Tail(Waiting)[k] = rxFrame[Pos(NRX, First, (k + 1) - 1)]
      BY <2>1, <2>2
    <3> QED
      BY <1>5, <3>1, <3>2
  <2> QED
    BY <1>1, <1>3, <2>1, <2>3, SeqEqual
<1>8. Taken = <<>> /\ Taken' = <<rxFrame[rxCur]>>
  BY <1>1 DEF Taken
<1>9. Rx!Take
  BY <1>6, <1>7, <1>8 DEF Rx!Take, Taken
<1> QED
  BY <1>9 DEF Rx!Next

\* When the first descriptor and the frames stay, so does the queue.
LEMMA WaitingStays ==
    ASSUME RxInv, RxInv', First' = First, RxSpan' = RxSpan, rxFrame' = rxFrame
    PROVE  Waiting' = Waiting
<1>1. /\ Waiting \in Seq(0..MaxFrames) /\ Len(Waiting) = RxSpan
      /\ \A k \in 1..RxSpan : Waiting[k] = rxFrame[Pos(NRX, First, k - 1)]
  BY WaitingIs DEF WaitingFrames
<1>2. /\ Waiting' \in Seq(0..MaxFrames) /\ Len(Waiting') = RxSpan'
      /\ \A k \in 1..RxSpan' : Waiting'[k] = rxFrame'[Pos(NRX, First', k - 1)]
  <2>1. WaitingFrames'
    BY WaitingIs, PTL
  <2> QED
    BY <2>1 DEF WaitingFrames, Pos
<1> QED
  BY <1>1, <1>2, SeqEqual

LEMMA ReturnIsDeliver ==
    ASSUME RxInv, PollReturn
    PROVE  Rx!Next
<1>1. /\ RxInv' /\ First' = First /\ RxSpan' = RxSpan
      /\ pc = "return" /\ pc' # "return" /\ rxFrame' = rxFrame
  BY PollReturnStep
<1>2. Waiting' = Waiting
  BY <1>1, WaitingStays
<1>3. Taken # <<>> /\ Taken' = <<>>
  BY <1>1 DEF Taken
<1>4. Rx!Deliver
  BY <1>2, <1>3 DEF Rx!Deliver, Taken
<1> QED
  BY <1>4 DEF Rx!Next

\* Every step keeps the invariant of the receive ring, and puts a frame into the
\* queue, takes one, delivers one or leaves it alone.
LEMMA RxStep ==
    ASSUME RxInv, [Next]_vars
    PROVE  RxInv' /\ (Rx!Next \/ UNCHANGED <<Waiting, Taken>>)
<1>1. CASE CardReceives
  BY <1>1, CardReceivesStep, ReceiveIsPut
<1>2. CASE PollClear
  BY <1>2, PollClearStep, ClearIsTake
<1>3. CASE PollReturn
  BY <1>3, PollReturnStep, ReturnIsDeliver
<1>4. CASE PollTest
  <2>1. RxInv' /\ First' = First /\ pc' # "return" /\ pc # "return"
    BY <1>4, PollTestStep
  <2>2. rxFrame' = rxFrame /\ RxSpan' = RxSpan
    BY <1>4, <2>1 DEF PollTest, rxVars, RxSpan
  <2>3. Taken' = Taken
    BY <2>1 DEF Taken
  <2> QED
    BY <2>1, <2>2, <2>3, WaitingStays
<1>5. CASE Plug \/ CardSends \/ PollStart \/ TxTest \/ Toggle \/ NetUp \/ NetDown
           \/ UNCHANGED vars
  <2>1. /\ UNCHANGED rxVars
        /\ UNCHANGED n \/ (pc' = "test" /\ n' = 0)
        /\ pc' = pc \/ (pc' \in {"loop", "test", "filled", "wait"}
                        /\ pc \in {"loop", "filled", "wait"})
    BY <1>5 DEF Plug, CardSends, PollStart, TxTest, TxFill, TxTail, TxAnswer, Toggle, NetUp,
                NetDown, SetEnabled, vars
  <2>2. RxInv' /\ UNCHANGED <<First, rxCur, rxFrame, RxSpan>> /\ (pc' = "return" <=> pc = "return")
    BY <2>1, OtherRxStep
  <2>3. Taken' = Taken
    BY <2>2 DEF Taken
  <2> QED
    BY <2>2, <2>3, WaitingStays
<1> QED
  BY <1>1, <1>2, <1>3, <1>4, <1>5 DEF Next, Card, Poll

\* Every step keeps the invariant of the transmit ring.
LEMMA TxStep ==
    ASSUME TxInv, [Next]_vars
    PROVE  TxInv'
<1>1. CASE CardSends
  BY <1>1, CardSendsKeeps
<1>2. CASE TxFill
  BY <1>2, TxFillKeeps
<1>3. CASE TxTail
  BY <1>3, TxTailKeeps
<1>4. CASE TxAnswer
  BY <1>4, TxAnswerKeeps
<1>5. CASE Plug \/ CardReceives \/ Poll \/ Toggle \/ NetUp \/ NetDown \/ UNCHANGED vars
  <2>1. UNCHANGED txVars /\ (pc' = pc \/ pc' \notin {"filled", "wait"})
    BY <1>5 DEF Plug, CardReceives, Poll, PollStart, PollTest, PollClear, PollReturn, Toggle,
                NetUp, NetDown, SetEnabled, vars
  <2> QED
    BY <2>1 DEF txVars, TxInv, TxType, TailIsCur, TxOrdered, TxCall, TxConfirmed, TxOwned,
                TxAt, TxSpan, TxNext
<1> QED
  BY <1>1, <1>2, <1>3, <1>4, <1>5 DEF Next, Card, TxTest

Switches == /\ present \in BOOLEAN /\ enabled \in BOOLEAN /\ cable \in BOOLEAN
            /\ rctlEn \in BOOLEAN /\ tctlEn \in BOOLEAN

LEMMA SwitchesStep ==
    ASSUME Switches, [Next]_vars
    PROVE  Switches'
BY DEF Switches, Next, vars, switches, Card, Plug, CardReceives, CardSends, Poll, PollStart,
       PollTest, PollClear, PollReturn, TxTest, TxFill, TxTail, TxAnswer, Toggle, NetUp,
       NetDown, SetEnabled

NetInv == TxInv /\ RxInv /\ Switches

\* What the driver and the card rely on, for rings of every size.
THEOREM NetInvariant == Spec => []NetInv
<1>1. Init => NetInv
  BY TxInit, RxInit DEF NetInv, Init, Switches
<1>2. NetInv /\ [Next]_vars => NetInv'
  BY TxStep, RxStep, SwitchesStep DEF NetInv
<1> QED
  BY <1>1, <1>2, PTL DEF Spec

\* The indices stay within the rings and the counters within their ranges: net_poll
\* handles at most a ring full of frames in a turn.
THEOREM NetType == Spec => []TypeOK
<1>1. NetInv => TypeOK
  <2> SUFFICES ASSUME NetInv PROVE TypeOK
    OBVIOUS
  <2>1. confirmed \subseteq 1..MaxSends
    BY NetAssumption DEF NetInv, TxInv, TxConfirmed, TxType
  <2>2. txOk \in Nat
    BY FS_CardinalityType DEF NetInv, TxInv, TxConfirmed
  <2> QED
    BY <2>1, <2>2 DEF NetInv, TxInv, TxType, RxInv, RxType, Switches, TypeOK
<1> QED
  BY <1>1, NetInvariant, PTL

\* A call that answers that its frame went out is right, though descriptors are
\* filled without a look at the card and the tail may run into the head.
THEOREM TransmitIsSound == Spec => []TxSound
<1>1. NetInv => TxSound
  BY DEF NetInv, TxInv, TxOrdered, TxConfirmed, TxSound
<1> QED
  BY <1>1, NetInvariant, PTL

\* The receive ring is a bounded FIFO queue of one less than its descriptors,
\* however the card's receptions fall between the steps of net_poll.
THEOREM ReceiveIsFifo == Spec => RxIsFifo
<1>1. Init => Rx!Init
  <2> SUFFICES ASSUME Init PROVE Waiting = <<>> /\ Taken = <<>>
    BY DEF Rx!Init, Taken
  <2>1. RxInv /\ pc = "loop" /\ rdh = 0 /\ rxCur = 0
    BY RxInit DEF Init
  <2>2. RxSpan = 0
    BY <2>1 DEF RxSpan, First, Gap
  <2>3. Waiting \in Seq(0..MaxFrames) /\ Len(Waiting) = 0
    BY <2>1, <2>2, WaitingIs DEF WaitingFrames
  <2> QED
    BY <2>1, <2>3 DEF Taken
<1>2. RxInv /\ [Next]_vars => [Rx!Next]_<<Waiting, Taken>>
  BY RxStep
<1>3. Spec => []RxInv
  BY NetInvariant, PTL DEF NetInv
<1>4. Spec => Rx!Init /\ [][Rx!Next]_<<Waiting, Taken>>
  BY <1>1, <1>2, <1>3, PTL DEF Spec
<1> QED
  BY <1>4 DEF RxIsFifo, Rx!Spec, Taken
=============================================================================
