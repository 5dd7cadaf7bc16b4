------------------------------ MODULE Allocator ------------------------------
(***************************************************************************)
(* What the kernel's callers (vfs.c, gui.c) expect of kmalloc, kcalloc,    *)
(* kfree and krealloc, with no list of blocks in sight: memory handed out  *)
(* is zeroed, lies inside the heap, overlaps nothing else that is handed   *)
(* out, and changes only when its owner writes to it.                      *)
(***************************************************************************)
EXTENDS Integers

CONSTANTS HeapSize,   \* bytes of heap_area
          Requests,   \* sizes callers ask for
          Values,     \* contents a caller may store
          Zero        \* the all-zero contents

VARIABLE mem          \* address -> [len, data] for every area handed out

Area == [len : 1..HeapSize, data : Values \cup {Zero}]

\* The len bytes at a are in the heap and touch no area of m.
Vacant(a, len, m) ==
    /\ a + len <= HeapSize
    /\ \A q \in DOMAIN m : a + len <= q \/ q + m[q].len <= a

With(m, a, area) == [q \in DOMAIN m \cup {a} |-> IF q = a THEN area ELSE m[q]]
Without(m, a) == [q \in DOMAIN m \ {a} |-> m[q]]

Init == mem = [q \in {} |-> [len |-> 1, data |-> Zero]]

\* The addresses handed out by this step, and those given back.
New == DOMAIN mem' \ DOMAIN mem
Gone == DOMAIN mem \ DOMAIN mem'

Alloc == \E a \in New, n \in Requests :
            /\ mem'[a].len >= n
            /\ Vacant(a, mem'[a].len, mem)
            /\ mem' = With(mem, a, [len |-> mem'[a].len, data |-> Zero])

Free == \E p \in Gone : mem' = Without(mem, p)

\* A block that has to grow moves: same contents, another area.
Move == \E p \in Gone, a \in New :
            /\ mem'[a].len >= mem[p].len
            /\ Vacant(a, mem'[a].len, mem)
            /\ mem' = Without(With(mem, a, [len |-> mem'[a].len, data |-> mem[p].data]), p)

Store == \E p \in DOMAIN mem, v \in Values :
            mem' = With(mem, p, [len |-> mem[p].len, data |-> v])

Next == Alloc \/ Free \/ Move \/ Store

Spec == Init /\ [][Next]_mem
=============================================================================
