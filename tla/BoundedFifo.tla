----------------------------- MODULE BoundedFifo -----------------------------
(***************************************************************************)
(* What an input queue of the kernel promises the event loop: values come  *)
(* out once each and in the order they went in; what arrives while the     *)
(* queue holds Capacity values is dropped and disturbs nothing.            *)
(***************************************************************************)
EXTENDS Naturals, Sequences

CONSTANTS Capacity,   \* values the queue can hold
          Msgs        \* the values

VARIABLES queue,      \* values waiting, oldest first
          out         \* the value being handed over: <<>> or <<m>>

Init == queue = <<>> /\ out = <<>>

Put(m) == /\ Len(queue) < Capacity
          /\ queue' = Append(queue, m)
          /\ UNCHANGED out

Take == /\ queue # <<>>
        /\ out = <<>>
        /\ out' = <<Head(queue)>>
        /\ queue' = Tail(queue)

Deliver == /\ out # <<>>
           /\ out' = <<>>
           /\ UNCHANGED queue

Next == (\E m \in Msgs : Put(m)) \/ Take \/ Deliver

Spec == Init /\ [][Next]_<<queue, out>>
=============================================================================
