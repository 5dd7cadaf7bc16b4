-------------------------------- MODULE Recent --------------------------------
(***************************************************************************)
(* What a history or a scrolled screen promises: it holds the most recent  *)
(* entries, in order; the oldest give way only when it is full, and only   *)
(* as many as do not fit.                                                  *)
(***************************************************************************)
EXTENDS Naturals, Sequences

CONSTANTS Cap,     \* entries it can hold
          Start    \* the entries a new window begins with

VARIABLE list      \* the entries, oldest first

Kept(n) == SubSeq(list, n + 1, Len(list))

Grow == \E n \in 0..Len(list) :
              /\ Len(Kept(n)) <= Len(list')
              /\ SubSeq(list', 1, Len(Kept(n))) = Kept(n)
              /\ n > 0 => Len(list') = Cap
              /\ Len(list') <= Cap

Clear == list' = <<>>

Restart == list' = Start

Spec == list = Start /\ [][Grow \/ Clear \/ Restart]_list
=============================================================================
