------------------------------ MODULE Ps2Proofs ------------------------------
(***************************************************************************)
(* The types of the i8042 and of the boot code, whatever the user does     *)
(* early and however often the lamp blinks: no read of an empty buffer     *)
(* makes a byte that nobody sent, and the packet index stays in b[3].      *)
(***************************************************************************)
EXTENDS Ps2, SequenceTheorems, TLAPS

\* Within kbd_leds there is a blink still to make, so the count does not run below 0.
InLeds == pc \in {"acked?", "mask", "shown?", "shown"} => left > 0

PInv == TypeOK /\ InLeds

LEMMA AppendByte ==
    ASSUME NEW q \in [Sources -> Seq(Byte)], NEW s \in Sources, NEW b \in Byte
    PROVE  [q EXCEPT ![s] = Append(@, b)] \in [Sources -> Seq(Byte)]
<1>1. Append(q[s], b) \in Seq(Byte)
  BY AppendProperties
<1> QED
  BY <1>1

LEMMA TailBytes ==
    ASSUME NEW q \in [Sources -> Seq(Byte)], NEW s \in Sources, q[s] # <<>>
    PROVE  /\ [q EXCEPT ![s] = Tail(@)] \in [Sources -> Seq(Byte)]
           /\ Head(q[s]) \in Byte
<1>1. Tail(q[s]) \in Seq(Byte) /\ Head(q[s]) \in Byte
  BY HeadTailProperties
<1> QED
  BY <1>1

LEMMA Bytes ==
    /\ \A b \in {"mouse ack", "first", "dx", "dy", "dx marked", "dy marked", "scan", "ack",
                 "config"} : b \in Byte
    /\ {"controller", "keyboard", "mouse"} \subseteq Sources
    /\ NONE \notin Byte
BY DEF Byte, Aux, Marked, Sources, NONE

LEMMA Lists ==
    ASSUME NEW S, NEW a \in S, NEW b \in S, NEW c \in S
    PROVE  <<a>> \in Seq(S) /\ <<a, b, c>> \in Seq(S)
OBVIOUS

LEMMA ShortQueues ==
    /\ <<"scan">> \in Seq(Byte)
    /\ \A x \in {"dx", "dx marked"}, y \in {"dy", "dy marked"} : <<"first", x, y>> \in Seq(Byte)
<1>1. "scan" \in Byte /\ "first" \in Byte
  BY Bytes
<1>2. <<"scan">> \in Seq(Byte)
  BY <1>1, Lists
<1>3. ASSUME NEW x \in {"dx", "dx marked"}, NEW y \in {"dy", "dy marked"}
      PROVE  <<"first", x, y>> \in Seq(Byte)
  <2>1. x \in Byte /\ y \in Byte
    BY Bytes
  <2> QED
    BY <1>1, <2>1, Lists
<1> QED
  BY <1>2, <1>3

\* The devices and the user.
LEMMA DeviceStep ==
    ASSUME PInv, (\E s \in Sources : Deliver(s)) \/ PressKey \/ MoveMouse
    PROVE  PInv'
<1> USE DEF PInv, TypeOK, InLeds
<1>1. ASSUME NEW s \in Sources, Deliver(s) PROVE PInv'
  <2>1. /\ queue[s] # <<>>
        /\ out' = Head(queue[s]) /\ data' = Head(queue[s])
        /\ irr' = irr \cup {Line(Head(queue[s]))} \/ irr' = irr
        /\ queue' = [queue EXCEPT ![s] = Tail(@)]
        /\ UNCHANGED <<config, led, expects, reports, handler, pc, st, left, cycle>>
    BY <1>1 DEF Deliver
  <2>2. queue' \in [Sources -> Seq(Byte)] /\ Head(queue[s]) \in Byte
    BY <2>1, TailBytes
  <2>3. Line(Head(queue[s])) \in {1, 12}
    BY DEF Line
  <2> QED
    BY <2>1, <2>2, <2>3
<1>2. CASE PressKey
  BY <1>2, ShortQueues DEF PressKey
<1>3. CASE MoveMouse
  <2>1. PICK x \in {"dx", "dx marked"}, y \in {"dy", "dy marked"} :
           queue' = [queue EXCEPT !["mouse"] = <<"first", x, y>>]
    BY <1>3 DEF MoveMouse
  <2>2. <<"first", x, y>> \in Seq(Byte)
    BY ShortQueues
  <2> QED
    BY <1>3, <2>1, <2>2 DEF MoveMouse
<1> QED
  BY <1>1, <1>2, <1>3

\* The handlers.
LEMMA InterruptStep ==
    ASSUME PInv, NEW n \in {1, 12}, Interrupt(n)
    PROVE  PInv'
<1> USE DEF PInv, TypeOK, InLeds
<1>1. UNCHANGED <<data, queue, config, led, expects, reports, handler, pc, st, left>>
  BY DEF Interrupt
<1>2. CASE Skip(n)
  BY <1>1, <1>2 DEF Skip
<1>3. CASE KeyboardHandler
  BY <1>1, <1>3 DEF KeyboardHandler, In60
<1>4. CASE MouseHandler
  <2>1. CASE Skip(12)
    BY <1>1, <2>1 DEF Skip
  <2>2. CASE In60(irr \ {12}) /\ cycle' = IF cycle = 0 /\ out \notin Marked THEN 0 ELSE (cycle + 1) % 3
    <3>1. cycle' \in 0..2
      BY <2>2
    <3> QED
      BY <1>1, <2>2, <3>1 DEF In60
  <2> QED
    BY <1>4, <2>1, <2>2 DEF MouseHandler
<1> QED
  BY <1>2, <1>3, <1>4 DEF Interrupt

\* The boot code.
LEMMA BootStep ==
    ASSUME PInv, Boot
    PROVE  PInv'
<1> USE DEF PInv, TypeOK, InLeds
<1>1. CASE Drain
  BY <1>1 DEF Drain, In60, At
<1>2. ASSUME Hook("hook1", "ask", 1) \/ Hook("hook12", "led", 12) PROVE PInv'
  BY <1>2 DEF Hook, At
<1>3. CASE Ask
  <2>1. queue' \in [Sources -> Seq(Byte)]
    BY <1>3, AppendByte, Bytes DEF Ask, Answers, Sources
  <2>2. config' \in Config
    BY <1>3 DEF Ask, Config
  <2> QED
    BY <1>3, <2>1, <2>2 DEF Ask, At
<1>4. ASSUME \/ MouseRead("answer", "config", "config")
             \/ MouseRead("reset?", "start", "mouse ack")
             \/ MouseRead("start?", "hook12", "mouse ack")
      PROVE PInv'
  BY <1>4 DEF MouseRead, At, In60
<1>5. CASE WriteConfig
  <2>1. config' \in Config
    BY <1>5 DEF WriteConfig, Command, Config
  <2> QED
    BY <1>5, <2>1 DEF WriteConfig, At
<1>6. ASSUME MouseWrite("reset", "reset?") \/ MouseWrite("start", "start?") PROVE PInv'
  <2>1. queue' = [queue EXCEPT !["mouse"] = Append(@, "mouse ack")]
    BY <1>6 DEF MouseWrite, Answers
  <2>2. queue' \in [Sources -> Seq(Byte)]
    BY <2>1, AppendByte, Bytes
  <2> QED
    BY <1>6, <2>2 DEF MouseWrite, At
<1>7. CASE LedCommand
  <2>1. queue' \in [Sources -> Seq(Byte)]
    BY <1>7, AppendByte, Bytes DEF LedCommand, Answers, Sources
  <2> QED
    BY <1>7, <2>1 DEF LedCommand, At
<1>8. CASE LedMask
  <2>1. queue' \in [Sources -> Seq(Byte)]
    BY <1>8, AppendByte, Bytes DEF LedMask, Answers, Sources
  <2>2. Wanted \in BOOLEAN
    BY DEF Wanted
  <2> QED
    BY <1>8, <2>1, <2>2 DEF LedMask, At
<1>9. ASSUME KbdAck("acked?", "mask") \/ KbdAck("shown?", "shown") PROVE PInv'
  <2>1. left > 0
    BY <1>9 DEF KbdAck
  <2> QED
    BY <1>9, <2>1 DEF KbdAck, In60, device
<1>10. CASE LedWait
  BY <1>10, Ps2Assumption DEF LedWait, At
<1>11. CASE GuiRun
  BY <1>11 DEF GuiRun, At
<1> QED
  BY <1>1, <1>2, <1>3, <1>4, <1>5, <1>6, <1>7, <1>8, <1>9, <1>10, <1>11 DEF Boot

\* Every byte the drivers handle was sent by a device, the packet index stays within
\* the packet and the lamp is switched no more often than asked.
THEOREM Ps2Type == Spec => []TypeOK
<1>1. Init => PInv
  <2> SUFFICES ASSUME Init PROVE PInv
    OBVIOUS
  <2>1. queue \in [Sources -> Seq(Byte)]
    BY DEF Init
  <2>2. out \in Byte \cup {NONE} /\ data \in Byte /\ st \in Byte
    BY Bytes DEF Init
  <2>3. config \in Config /\ irr \subseteq {1, 12} /\ handler \subseteq {1, 12}
    BY DEF Init
  <2>4. left \in 0..(2 * Blinks) /\ cycle \in 0..2
    BY Ps2Assumption DEF Init
  <2>5. InLeds
    BY DEF Init, InLeds
  <2>6. led \in BOOLEAN /\ expects \in BOOLEAN /\ reports \in BOOLEAN
    BY DEF Init
  <2> QED
    BY <2>1, <2>2, <2>3, <2>4, <2>5, <2>6 DEF PInv, TypeOK
<1>2. PInv /\ [Next]_vars => PInv'
  <2>1. ASSUME PInv, UNCHANGED vars PROVE PInv'
    BY <2>1 DEF vars, PInv, TypeOK, InLeds
  <2>2. ASSUME PInv, KbdAckGivesUp PROVE PInv'
    BY <2>2 DEF KbdAckGivesUp, device, PInv, TypeOK, InLeds
  <2> QED
    BY <2>1, <2>2, DeviceStep, InterruptStep, BootStep DEF Next
<1>3. PInv => TypeOK
  BY DEF PInv
<1> QED
  BY <1>1, <1>2, <1>3, PTL DEF Spec
=============================================================================
