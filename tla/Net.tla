---------------------------------- MODULE Net ----------------------------------
(***************************************************************************)
(* drivers/e1000.c: the receive and the transmit ring that the driver      *)
(* shares with the network card.  The driver runs in the loop of gui_run,  *)
(* the card beside it, between any two accesses of the driver to a         *)
(* descriptor or a register.  The card's interrupts are masked (E_IMS = 0):*)
(* the driver polls.                                                       *)
(*                                                                         *)
(* The card is external: it owns the descriptors from its head up to the   *)
(* tail the driver last wrote.  A frame is a number, received or sent.     *)
(***************************************************************************)
EXTENDS Integers, Sequences, FiniteSets

CONSTANTS NRX,        \* descriptors of the receive ring: 32
          NTX,        \* descriptors of the transmit ring: 32
          MaxFrames,  \* bound: frames that arrive
          MaxSends    \* bound: calls of net_tx_test that reach the card

ASSUME NetAssumption == /\ NRX \in Nat /\ NRX >= 2 /\ NTX \in Nat /\ NTX >= 1
                        /\ MaxFrames \in Nat /\ MaxSends \in Nat

VARIABLES present, enabled,
          cable,              \* the link is up
          rctlEn, tctlEn,     \* the enable bits of E_RCTL and E_TCTL
          rxDD, rxFrame,      \* rx_ring: the status bit, and the frame in the buffer
          rdh, rdt, rxCur, rxOk,
          arrived,            \* frames the card has put into the ring
          txDD, txFrame,      \* tx_ring, likewise
          tdh, tdt, txCur, txOk,
          called,             \* frames handed to the card
          sent,               \* frames that went out, in order
          confirmed,          \* frames whose call answered that it went out
          pc,                 \* where the driver is; "loop" is the rest of gui_run
          n                   \* n of net_poll: frames of this turn

switches == <<present, enabled, rctlEn, tctlEn>>
rxVars == <<rxDD, rxFrame, rdh, rdt, rxCur, rxOk, arrived>>
txVars == <<txDD, txFrame, tdh, tdt, txCur, txOk, called, sent, confirmed>>
vars == <<switches, cable, rxVars, txVars, pc, n>>

\* Mutant: the index does not wrap.
RxNextNoWrap(i) == i + 1

RxNext(i) == (i + 1) % NRX
TxNext(i) == (i + 1) % NTX

\* The state net_init leaves: both rings new, or no card.
Init ==
    /\ present \in BOOLEAN
    /\ enabled = TRUE /\ rctlEn = present /\ tctlEn = present
    /\ cable \in BOOLEAN
    /\ rxDD = [i \in 0..(NRX - 1) |-> FALSE] /\ rxFrame = [i \in 0..(NRX - 1) |-> 0]
    /\ rdh = 0 /\ rdt = NRX - 1 /\ rxCur = 0 /\ rxOk = 0 /\ arrived = 0
    /\ txDD = [i \in 0..(NTX - 1) |-> TRUE] /\ txFrame = [i \in 0..(NTX - 1) |-> 0]
    /\ tdh = 0 /\ tdt = 0 /\ txCur = 0 /\ txOk = 0
    /\ called = 0 /\ sent = <<>> /\ confirmed = {}
    /\ pc = "loop" /\ n = 0

-----------------------------------------------------------------------------
(* The card. *)

Plug == cable' = ~cable /\ UNCHANGED <<switches, rxVars, txVars, pc, n>>

\* A frame that finds no descriptor is lost, which is no step.
CardReceives ==
    /\ rctlEn /\ cable
    /\ rdh # rdt
    /\ arrived < MaxFrames
    /\ arrived' = arrived + 1
    /\ rxFrame' = [rxFrame EXCEPT ![rdh] = arrived']
    /\ rxDD' = [rxDD EXCEPT ![rdh] = TRUE]
    /\ rdh' = RxNext(rdh)
    /\ UNCHANGED <<switches, cable, rdt, rxCur, rxOk, txVars, pc, n>>

CardSends ==
    /\ tctlEn /\ cable
    /\ tdh # tdt
    /\ sent' = Append(sent, txFrame[tdh])
    /\ txDD' = [txDD EXCEPT ![tdh] = TRUE]
    /\ tdh' = TxNext(tdh)
    /\ UNCHANGED <<switches, cable, rxVars, txFrame, tdt, txCur, txOk,
                   called, confirmed, pc, n>>

Card == Plug \/ CardReceives \/ CardSends

-----------------------------------------------------------------------------
(* net_poll, once a turn, and net_tx_test and net_set_enabled, which a key,  *)
(* a click or a command calls.                                               *)

Usable == present /\ enabled

PollStart == /\ pc = "loop"
             /\ Usable
             /\ pc' = "test" /\ n' = 0
             /\ UNCHANGED <<switches, cable, rxVars, txVars>>

PollTest == /\ pc = "test"
            /\ pc' = IF n < NRX /\ rxDD[rxCur] THEN "clear" ELSE "loop"
            /\ UNCHANGED <<switches, cable, rxVars, txVars, n>>

\* Mutant: the status is left as it is.
PollCount == /\ pc = "clear"
             /\ rxOk' = rxOk + 1
             /\ pc' = "return"
             /\ UNCHANGED <<switches, cable, rxDD, rxFrame, rdh, rdt, rxCur, arrived, txVars, n>>

PollClear == /\ pc = "clear"
             /\ rxOk' = rxOk + 1
             /\ rxDD' = [rxDD EXCEPT ![rxCur] = FALSE]
             /\ pc' = "return"
             /\ UNCHANGED <<switches, cable, rxFrame, rdh, rdt, rxCur, arrived, txVars, n>>

\* Mutant: the descriptor is not given back.
PollKeep == /\ pc = "return"
            /\ rxCur' = RxNext(rxCur)
            /\ n' = n + 1
            /\ pc' = "test"
            /\ UNCHANGED <<switches, cable, rxDD, rxFrame, rdh, rdt, rxOk, arrived, txVars>>

PollReturn == /\ pc = "return"
              /\ rdt' = rxCur
              /\ rxCur' = RxNext(rxCur)
              /\ n' = n + 1
              /\ pc' = "test"
              /\ UNCHANGED <<switches, cable, rxDD, rxFrame, rdh, rxOk, arrived, txVars>>

Poll == PollStart \/ PollTest \/ PollClear \/ PollReturn

\* Mutant: the status of the last use is left as it is.
TxFillOnly == /\ pc = "loop"
              /\ Usable
              /\ called < MaxSends
              /\ called' = called + 1
              /\ txFrame' = [txFrame EXCEPT ![txCur] = called']
              /\ pc' = "filled"
              /\ UNCHANGED <<switches, cable, rxVars, txDD, tdh, tdt, txCur, txOk, sent, confirmed, n>>

\* The buffer and the descriptor at tx_cur are written without looking whether
\* the card still has them.
TxFill == /\ pc = "loop"
          /\ Usable
          /\ called < MaxSends
          /\ called' = called + 1
          /\ txFrame' = [txFrame EXCEPT ![txCur] = called']
          /\ txDD' = [txDD EXCEPT ![txCur] = FALSE]
          /\ pc' = "filled"
          /\ UNCHANGED <<switches, cable, rxVars, tdh, tdt, txCur, txOk, sent, confirmed, n>>

\* The tail may meet the head, and the ring then looks empty to the card.
TxTail == /\ pc = "filled"
          /\ txCur' = TxNext(txCur)
          /\ tdt' = txCur'
          /\ pc' = "wait"
          /\ UNCHANGED <<switches, cable, rxVars, txDD, txFrame, tdh, txOk,
                         called, sent, confirmed, n>>

\* The descriptor the call has filled: cur is the one before tx_cur.
Cur == CHOOSE i \in 0..(NTX - 1) : TxNext(i) = txCur

\* The loop that waits reads a status that is not volatile, so it may last no
\* longer than one look.
TxAnswer == /\ pc = "wait"
            /\ IF txDD[Cur] THEN txOk' = txOk + 1 /\ confirmed' = confirmed \cup {called}
               ELSE UNCHANGED <<txOk, confirmed>>
            /\ pc' = "loop"
            /\ UNCHANGED <<switches, cable, rxVars, txDD, txFrame, tdh, tdt, txCur,
                           called, sent, n>>

TxTest == TxFill \/ TxTail \/ TxAnswer

SetEnabled(on) ==
    /\ pc = "loop"
    /\ enabled' = on
    /\ IF present THEN rctlEn' = on /\ tctlEn' = on ELSE UNCHANGED <<rctlEn, tctlEn>>
    /\ UNCHANGED <<present, cable, rxVars, txVars, pc, n>>

\* A key or a button of the settings turns the network over, netup and netdown do not.
Toggle == SetEnabled(~enabled)
NetUp == SetEnabled(TRUE)
NetDown == SetEnabled(FALSE)

Next == Card \/ Poll \/ TxTest \/ Toggle \/ NetUp \/ NetDown

\* The loop calls net_poll in every turn and no call waits for ever.  Nobody has
\* to send a frame, plug a cable or switch the network on.
Spec == Init /\ [][Next]_vars
             /\ WF_vars(PollStart) /\ WF_vars(PollTest \/ PollClear \/ PollReturn)
             /\ WF_vars(TxTail \/ TxAnswer)

-----------------------------------------------------------------------------

\* The type of the rings, their indices and counters.
TypeOK == /\ present \in BOOLEAN /\ enabled \in BOOLEAN /\ cable \in BOOLEAN
          /\ rctlEn \in BOOLEAN /\ tctlEn \in BOOLEAN
          /\ rxDD \in [0..(NRX - 1) -> BOOLEAN] /\ rxFrame \in [0..(NRX - 1) -> 0..MaxFrames]
          /\ rdh \in 0..(NRX - 1) /\ rdt \in 0..(NRX - 1) /\ rxCur \in 0..(NRX - 1)
          /\ rxOk \in Nat /\ arrived \in 0..MaxFrames
          /\ txDD \in [0..(NTX - 1) -> BOOLEAN] /\ txFrame \in [0..(NTX - 1) -> 0..MaxSends]
          /\ tdh \in 0..(NTX - 1) /\ tdt \in 0..(NTX - 1) /\ txCur \in 0..(NTX - 1)
          /\ txOk \in Nat /\ called \in 0..MaxSends
          /\ sent \in Seq(1..MaxSends) /\ confirmed \subseteq 1..MaxSends
          /\ pc \in {"loop", "test", "clear", "return", "filled", "wait"}
          /\ n \in 0..NRX

\* The frames the driver will find, from rx_cur on up to the first descriptor
\* that is not done; behind rx_cur while its frame is being handed over.
First == IF pc = "return" THEN RxNext(rxCur) ELSE rxCur
Done(k) == \A j \in 0..k : rxDD[(First + j) % NRX]
Waiting == [k \in {m \in 1..NRX : Done(m - 1)} |-> rxFrame[(First + k - 1) % NRX]]

Rx == INSTANCE BoundedFifo WITH
        Capacity <- NRX - 1, Msgs <- 1..MaxFrames, queue <- Waiting,
        out <- IF pc = "return" THEN <<rxFrame[rxCur]>> ELSE <<>>

\* Frames are counted in the order they arrive, each once, and the card writes into
\* no buffer between net_poll's look at its descriptor and its return, though the
\* card goes on receiving between any two accesses (e1000.c:180-187).
RxIsFifo == Rx!Spec

\* While the network stays switched on, every frame is counted in the end and the
\* card gets every descriptor back but the one that keeps full and empty apart:
\* reception never dries up, however often it was switched off half way.
FramesRead == <>[]Usable => <>[](/\ \A i \in 0..(NRX - 1) : ~rxDD[i]
                                 /\ rxOk = arrived
                                 /\ (rdt - rdh) % NRX = NRX - 1)

\* A call that answers that its frame was sent is right, although descriptors are
\* used again without a look at the card and the tail may run into the head: the
\* frame of that very call went out, once, and frames went out in order.
TxSound == /\ txOk = Cardinality(confirmed)
           /\ \A f \in confirmed : \E k \in DOMAIN sent : sent[k] = f
           /\ \A j, k \in DOMAIN sent : j < k => sent[j] < sent[k]
=============================================================================
