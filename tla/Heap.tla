-------------------------------- MODULE Heap --------------------------------
(***************************************************************************)
(* kernel/heap.c: first-fit reuse of whole blocks, otherwise a new block   *)
(* at heap_brk; blocks are never split, merged or given back.              *)
(*                                                                         *)
(* The singly linked list of block_t is the function block, keyed by the   *)
(* address of the payload (the pointer callers see; the header lies in the *)
(* HeaderSize bytes before it).  A block is linked at the tail when it is  *)
(* carved at heap_brk, so list order is address order and "the first block *)
(* that fits" is the one with the least address.  Addresses are offsets    *)
(* into heap_area; no payload is at 0, which is NULL.                      *)
(***************************************************************************)
EXTENDS Integers

CONSTANTS HeapSize,   \* HEAP_SIZE: bytes of heap_area
          Requests,   \* sizes the callers ask for
          Values,     \* contents callers store, at the granularity of a block
          Zero        \* contents of a block that is all zeroes

ASSUME HeapAssumption ==
    /\ HeapSize \in Nat
    /\ Requests \subseteq Nat
    /\ Zero \notin Values

VARIABLES block,      \* payload address -> [size, free, data]
          brk,        \* heap_brk
          held        \* pointers the callers own (history of the calls)

vars == <<block, brk, held>>

NULL == 0
HeaderSize == 12      \* sizeof(block_t) on the 32-bit target

\* The size a request is served with: a multiple of 8, at least 8.
RoundUp(n) == LET m == IF n = 0 THEN 1 ELSE n
              IN  (m + 7) - ((m + 7) % 8)

Fits(n) == {p \in DOMAIN block : block[p].free /\ block[p].size >= RoundUp(n)}
\* Mutant: the test for room forgets the header.
RoomNoHeader(n) == brk + RoundUp(n) <= HeapSize

Room(n) == brk + HeaderSize + RoundUp(n) <= HeapSize

FirstFit(n) == CHOOSE p \in Fits(n) : \A q \in Fits(n) : p <= q

\* The pointer kmalloc(n) returns.
Malloc(n) == IF Fits(n) # {} THEN FirstFit(n)
             ELSE IF Room(n) THEN brk + HeaderSize
             ELSE NULL

\* Mutant: the block reused is not marked as taken.
AllocatedStaysFree(n, p) ==
    IF p \in DOMAIN block THEN block
    ELSE [q \in DOMAIN block \cup {p} |->
            IF q = p THEN [size |-> RoundUp(n), free |-> FALSE, data |-> Zero]
            ELSE block[q]]

\* Mutant: a reused block is cut down to the size asked for.
AllocatedShrinks(n, p) ==
    IF p \in DOMAIN block
    THEN [block EXCEPT ![p].free = FALSE, ![p].size = RoundUp(n)]
    ELSE [q \in DOMAIN block \cup {p} |->
            IF q = p THEN [size |-> RoundUp(n), free |-> FALSE, data |-> Zero]
            ELSE block[q]]

\* The block list after kmalloc(n) returned p # NULL.
Allocated(n, p) ==
    IF p \in DOMAIN block
    THEN [block EXCEPT ![p].free = FALSE]
    ELSE [q \in DOMAIN block \cup {p} |->
            IF q = p THEN [size |-> RoundUp(n), free |-> FALSE, data |-> Zero]
            ELSE block[q]]

\* Mutant: the header is left out of heap_brk += need.
BreakNoHeader(n, p) == IF p \in DOMAIN block THEN brk ELSE brk + RoundUp(n)

Break(n, p) == IF p \in DOMAIN block THEN brk ELSE brk + HeaderSize + RoundUp(n)

\* Mutant: kfree leaves the payload as it was.
FreedDirty(b, p) == [b EXCEPT ![p].free = TRUE]

\* kfree clears the payload it releases.
Freed(b, p) == [b EXCEPT ![p].free = TRUE, ![p].data = Zero]

Init == /\ block = [p \in {} |-> [size |-> 8, free |-> TRUE, data |-> Zero]]
        /\ brk = 0
        /\ held = {}

Kmalloc(n) == LET p == Malloc(n) IN
    /\ p # NULL
    /\ block' = Allocated(n, p)
    /\ brk' = Break(n, p)
    /\ held' = held \cup {p}

KmallocFails(n) ==
    /\ Malloc(n) = NULL
    /\ UNCHANGED vars

\* kcalloc clears the payload a second time.
Kcalloc(n) == LET p == Malloc(n) IN
    /\ p # NULL
    /\ block' = [Allocated(n, p) EXCEPT ![p].data = Zero]
    /\ brk' = Break(n, p)
    /\ held' = held \cup {p}

Kfree(p) ==
    /\ p \in held
    /\ block' = Freed(block, p)
    /\ held' = held \ {p}
    /\ UNCHANGED brk

\* krealloc of a block that is too small: allocate, copy, free the old one.
\* (A null pointer makes it Kmalloc, size 0 makes it Kfree, a block that is
\* large enough is returned as it is.)
Krealloc(p, n) == LET r == Malloc(n) IN
    /\ p \in held
    /\ n > block[p].size
    /\ r # NULL
    /\ block' = Freed([Allocated(n, r) EXCEPT ![r].data = block[p].data], p)
    /\ brk' = Break(n, r)
    /\ held' = (held \cup {r}) \ {p}

\* The owner of a block stores into it, within its size.
Write(p, v) ==
    /\ p \in held
    /\ block' = [block EXCEPT ![p].data = v]
    /\ UNCHANGED <<brk, held>>

Next == \/ \E n \in Requests : Kmalloc(n) \/ KmallocFails(n) \/ Kcalloc(n)
        \/ \E p \in held : Kfree(p)
        \/ \E p \in held, n \in Requests : Krealloc(p, n)
        \/ \E p \in held, v \in Values : Write(p, v)

Spec == Init /\ [][Next]_vars

-----------------------------------------------------------------------------

Block == [size : Nat \ {0}, free : BOOLEAN, data : Values \cup {Zero}]

\* The type of the state: headers with positive sizes and known contents, the
\* break inside heap_area.
TypeOK == /\ DOMAIN block \subseteq 1..HeapSize
          /\ block \in [DOMAIN block -> Block]
          /\ brk \in 0..HeapSize
          /\ held \subseteq 1..HeapSize

\* Header and payload of two blocks never overlap, and every block ends at or
\* below heap_brk: what kmalloc hands out is nobody else's memory.
Tiled == /\ \A p \in DOMAIN block : HeaderSize <= p /\ p + block[p].size <= brk
         /\ \A p, q \in DOMAIN block : p < q => p + block[p].size + HeaderSize <= q

\* The callers hold exactly the blocks that are not free: no block leaks when
\* krealloc or kfree releases it, none is handed out to two owners.
HeldAreLive == held = {p \in DOMAIN block : ~block[p].free}

\* A block on the free list is all zeroes: kmalloc clears only fresh blocks and
\* relies on kfree for the ones it reuses.
FreeAreZero == \A p \in DOMAIN block : block[p].free => block[p].data = Zero

IInv == TypeOK /\ Tiled /\ HeldAreLive /\ FreeAreZero

\* The bytes of the blocks at S, headers included, added up along the list, which
\* is in the order of the addresses.
BytesOf(S) ==
    LET sum[p \in 0..HeapSize] ==
            IF p = 0 THEN 0
            ELSE sum[p - 1] + (IF p \in S THEN block[p].size + HeaderSize ELSE 0)
    IN  sum[HeapSize]

\* kmalloc_used(): bytes of the blocks in use.
KmallocUsed == BytesOf({p \in DOMAIN block : ~block[p].free})

\* What kmalloc_used reports and what is on the free list add up to heap_brk: no
\* byte below the break is lost between two blocks.
NoByteLost ==
    KmallocUsed + BytesOf({p \in DOMAIN block : block[p].free}) = brk

\* A step never moves, resizes or forgets a block: the pointers callers hold and
\* the next links stay valid for ever.
BlocksStay == [][/\ DOMAIN block \subseteq DOMAIN block'
                 /\ \A p \in DOMAIN block : block'[p].size = block[p].size]_vars

-----------------------------------------------------------------------------

\* The areas the callers hold, as Allocator sees them.
Abs == INSTANCE Allocator WITH
         mem <- [p \in held |-> [len |-> block[p].size, data |-> block[p].data]]

\* heap.c is an allocator: zeroed, disjoint areas whose contents only their
\* owner changes, through reuse, failure and krealloc.
IsAllocator == Abs!Spec
=============================================================================
