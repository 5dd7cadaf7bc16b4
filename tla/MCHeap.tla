------------------------------- MODULE MCHeap -------------------------------
(* Heap on a heap of three small blocks or one large and one small one.     *)
EXTENDS Heap

\* The sizes on both sides of a multiple of 8, and the zero that becomes 1.
MCRequests == {0, 8, 9, 17}
=============================================================================
