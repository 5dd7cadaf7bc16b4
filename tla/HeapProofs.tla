----------------------------- MODULE HeapProofs -----------------------------
(***************************************************************************)
(* The inductive invariant of kernel/heap.c and the fact that it           *)
(* implements Allocator, for every heap size, set of request sizes and     *)
(* set of contents.                                                        *)
(***************************************************************************)
EXTENDS Heap, FiniteSetTheorems, WellFoundedInduction, TLAPS

\* A set of addresses that is not empty has a least member: the list search of
\* kmalloc stops at a block if there is one that fits.
LEMMA LeastAddress ==
    ASSUME NEW S, S \subseteq Nat, S # {}
    PROVE  \E p \in S : \A q \in S : p <= q
<1>1. IsWellFoundedOn(OpToRel(<, Nat), Nat)
  BY NatLessThanWellFounded
<1>2. PICK p \in S : \A q \in S : ~ (<<q, p>> \in OpToRel(<, Nat))
  BY <1>1, WFMin, Zenon
<1>3. ASSUME NEW q \in S, q < p PROVE FALSE
  <2>1. <<q, p>> \in Nat \X Nat /\ <<q, p>>[1] < <<q, p>>[2]
    BY <1>3
  <2>2. <<q, p>> \in OpToRel(<, Nat)
    BY <2>1, Zenon DEF OpToRel
  <2> QED
    BY <1>2, <2>2
<1>4. \A q \in S : p <= q
  BY <1>3
<1> QED
  BY <1>4

\* Induction: the least number outside P would be neither 0 nor a successor.
LEMMA SetInduction ==
    ASSUME NEW P, 0 \in P, \A n \in Nat : n \in P => n + 1 \in P
    PROVE  Nat \subseteq P
<1> SUFFICES ASSUME Nat \ P # {} PROVE FALSE
  OBVIOUS
<1>1. PICK m \in Nat \ P : \A n \in Nat \ P : m <= n
  BY LeastAddress
<1>2. m - 1 \in Nat /\ m - 1 \in P /\ (m - 1) + 1 = m
  BY <1>1
<1> QED
  BY <1>1, <1>2

\* (size+7)&~7 covers the request and is at least 8.
LEMMA RoundUpCovers ==
    ASSUME NEW n \in Nat
    PROVE  /\ RoundUp(n) \in Nat \ {0}
           /\ RoundUp(n) >= n
BY DEF RoundUp

\* What kmalloc returns: the first block that fits, or fresh room at heap_brk.
LEMMA MallocResult ==
    ASSUME IInv, NEW n \in Requests, Malloc(n) # NULL
    PROVE  \/ /\ Malloc(n) \in DOMAIN block
              /\ block[Malloc(n)].free
              /\ block[Malloc(n)].size >= n
           \/ /\ Malloc(n) \notin DOMAIN block
              /\ Malloc(n) = brk + HeaderSize
              /\ brk + HeaderSize + RoundUp(n) <= HeapSize
<1> n \in Nat
  BY HeapAssumption
<1>1. CASE Fits(n) # {}
  <2>1. Fits(n) \subseteq Nat
    BY DEF IInv, TypeOK, Fits
  <2>2. \E p \in Fits(n) : \A q \in Fits(n) : p <= q
    BY <1>1, <2>1, LeastAddress, Zenon
  <2>3. FirstFit(n) \in Fits(n)
    BY <2>2 DEF FirstFit
  <2>4. Malloc(n) = FirstFit(n)
    BY <1>1 DEF Malloc
  <2>5. /\ FirstFit(n) \in DOMAIN block
        /\ block[FirstFit(n)].free
        /\ block[FirstFit(n)].size >= RoundUp(n)
    BY <2>3 DEF Fits
  <2>6. block[FirstFit(n)].size \in Nat
    BY <2>5 DEF IInv, TypeOK, Block
  <2> QED
    BY <2>4, <2>5, <2>6, RoundUpCovers
<1>2. CASE Fits(n) = {}
  <2>1. Room(n) /\ Malloc(n) = brk + HeaderSize
    BY <1>2 DEF Malloc
  <2>2. \A q \in DOMAIN block : q # brk + HeaderSize
    BY DEF IInv, TypeOK, Tiled, Block, HeaderSize
  <2> QED
    BY <2>1, <2>2 DEF Room
<1> QED
  BY <1>1, <1>2

-----------------------------------------------------------------------------
(* The parts of the invariant, of any block list b with break t. *)

TypedIn(b, t) == /\ DOMAIN b \subseteq 1..HeapSize
                 /\ b \in [DOMAIN b -> Block]
                 /\ t \in 0..HeapSize

TiledIn(b, t) == /\ \A p \in DOMAIN b : HeaderSize <= p /\ p + b[p].size <= t
                 /\ \A p, q \in DOMAIN b : p < q => p + b[p].size + HeaderSize <= q

Live(b) == {p \in DOMAIN b : ~b[p].free}

ZeroIn(b) == \A p \in DOMAIN b : b[p].free => b[p].data = Zero

\* A successful kmalloc adds one live, zeroed block to the list and disturbs
\* no other.
LEMMA Granted ==
    ASSUME IInv, NEW n \in Requests, NEW p, p = Malloc(n), p # NULL,
           NEW b, b = Allocated(n, p), NEW t, t = Break(n, p)
    PROVE  /\ DOMAIN b = DOMAIN block \cup {p}
           /\ TypedIn(b, t)
           /\ TiledIn(b, t)
           /\ p \notin held
           /\ Live(b) = held \cup {p}
           /\ ZeroIn(b)
           /\ b[p].data = Zero
           /\ b[p].size >= n
           /\ \A q \in DOMAIN block : b[q].size = block[q].size
           /\ \A q \in DOMAIN block \ {p} : b[q] = block[q]
<1> n \in Nat /\ RoundUp(n) \in Nat \ {0} /\ RoundUp(n) >= n
  BY HeapAssumption, RoundUpCovers
<1> USE DEF HeaderSize
<1>1. CASE p \in DOMAIN block
  <2>1. block[p].free /\ block[p].size >= n
    BY <1>1, MallocResult
  <2>2. b = [block EXCEPT ![p].free = FALSE] /\ t = brk
    BY <1>1 DEF Allocated, Break
  <2>3. block \in [DOMAIN block -> Block]
    BY DEF IInv, TypeOK
  <2>4. b[p] = [size |-> block[p].size, free |-> FALSE, data |-> block[p].data]
    <3>1. block[p] \in Block
      BY <1>1, <2>3
    <3>2. b[p] = [block[p] EXCEPT !.free = FALSE]
      BY <1>1, <2>2
    <3> QED
      BY <3>1, <3>2 DEF Block
  <2>5. /\ DOMAIN b = DOMAIN block
        /\ \A q \in DOMAIN block \ {p} : b[q] = block[q]
        /\ \A q \in DOMAIN block : b[q].size = block[q].size
    <3>1. DOMAIN b = DOMAIN block /\ \A q \in DOMAIN block \ {p} : b[q] = block[q]
      BY <2>2
    <3>2. b[p].size = block[p].size
      BY <2>4
    <3> QED
      BY <3>1, <3>2
  <2>6. TypedIn(b, t)
    <3>1. block[p] \in Block /\ b[p] \in Block
      BY <1>1, <2>3, <2>4 DEF Block
    <3>2. \A q \in DOMAIN b : b[q] \in Block
      BY <2>3, <2>5, <3>1
    <3>3. b = [q \in DOMAIN b |-> b[q]]
      BY <2>2
    <3> QED
      BY <2>2, <2>5, <3>2, <3>3 DEF IInv, TypeOK, TypedIn
  <2>7. TiledIn(b, t)
    BY <2>2, <2>5 DEF IInv, Tiled, TiledIn
  <2>8. p \notin held /\ Live(b) = held \cup {p}
    BY <1>1, <2>1, <2>4, <2>5 DEF IInv, HeldAreLive, Live
  <2>9. ZeroIn(b) /\ b[p].data = Zero
    BY <1>1, <2>1, <2>4, <2>5 DEF IInv, FreeAreZero, ZeroIn
  <2> QED
    BY <1>1, <2>1, <2>4, <2>5, <2>6, <2>7, <2>8, <2>9
<1>2. CASE p \notin DOMAIN block
  <2>1. p = brk + HeaderSize /\ brk + HeaderSize + RoundUp(n) <= HeapSize
    BY <1>2, MallocResult
  <2>2. /\ b = [q \in DOMAIN block \cup {p} |->
                  IF q = p THEN [size |-> RoundUp(n), free |-> FALSE, data |-> Zero]
                  ELSE block[q]]
        /\ t = brk + HeaderSize + RoundUp(n)
    BY <1>2 DEF Allocated, Break
  <2>3. /\ DOMAIN b = DOMAIN block \cup {p}
        /\ b[p] = [size |-> RoundUp(n), free |-> FALSE, data |-> Zero]
        /\ \A q \in DOMAIN block : b[q] = block[q]
    BY <1>2, <2>2
  <2>4. TypedIn(b, t)
    <3>1. p \in 1..HeapSize /\ t \in 0..HeapSize
      BY <2>1, <2>2, HeapAssumption DEF IInv, TypeOK
    <3>0. b[p] \in Block /\ \A q \in DOMAIN block : block[q] \in Block
      BY <2>3 DEF IInv, TypeOK, Block
    <3>2. \A q \in DOMAIN b : b[q] \in Block
      BY <2>3, <3>0
    <3>3. b = [q \in DOMAIN b |-> b[q]]
      BY <2>2
    <3> QED
      BY <2>3, <3>1, <3>2, <3>3 DEF IInv, TypeOK, TypedIn
  <2>5. TiledIn(b, t)
    <3>1. \A q \in DOMAIN block : /\ q \in Nat
                                  /\ block[q].size \in Nat
                                  /\ HeaderSize <= q
                                  /\ q + block[q].size <= brk
      BY DEF IInv, TypeOK, Tiled, Block
    <3>2. brk \in Nat
      BY DEF IInv, TypeOK
    <3>3. \A q \in DOMAIN b : HeaderSize <= q /\ q + b[q].size <= t
      BY <2>1, <2>2, <2>3, <3>1, <3>2
    <3>4. \A q, r \in DOMAIN b : q < r => q + b[q].size + HeaderSize <= r
      BY <2>1, <2>3, <3>1, <3>2 DEF IInv, Tiled
    <3> QED
      BY <3>3, <3>4 DEF TiledIn
  <2>6. p \notin held /\ Live(b) = held \cup {p}
    BY <1>2, <2>3 DEF IInv, HeldAreLive, Live
  <2>7. ZeroIn(b) /\ b[p].data = Zero
    BY <2>3 DEF IInv, FreeAreZero, ZeroIn
  <2> QED
    BY <1>2, <2>3, <2>4, <2>5, <2>6, <2>7
<1> QED
  BY <1>1, <1>2

\* kfree of a live block of any list that satisfies the invariant keeps it.
LEMMA Released ==
    ASSUME NEW b, NEW t, TypedIn(b, t), TiledIn(b, t), ZeroIn(b), NEW p \in Live(b),
           NEW c, c = Freed(b, p)
    PROVE  /\ DOMAIN c = DOMAIN b
           /\ TypedIn(c, t)
           /\ TiledIn(c, t)
           /\ ZeroIn(c)
           /\ Live(c) = Live(b) \ {p}
           /\ \A q \in DOMAIN b : c[q].size = b[q].size
           /\ \A q \in DOMAIN b \ {p} : c[q] = b[q]
<1>1. p \in DOMAIN b /\ b \in [DOMAIN b -> Block] /\ b[p] \in Block
  BY DEF Live, TypedIn
<1>2. c[p] = [size |-> b[p].size, free |-> TRUE, data |-> Zero]
  BY <1>1 DEF Freed, Block
<1>3. /\ DOMAIN c = DOMAIN b
      /\ \A q \in DOMAIN b \ {p} : c[q] = b[q]
  BY <1>1 DEF Freed
<1>4. \A q \in DOMAIN b : c[q].size = b[q].size
  BY <1>1, <1>2, <1>3
<1>5. TypedIn(c, t)
  <2>0. c[p] \in Block
    BY <1>1, <1>2 DEF Block
  <2>1. \A q \in DOMAIN c : c[q] \in Block
    BY <1>1, <1>3, <2>0
  <2>2. c = [q \in DOMAIN c |-> c[q]]
    BY <1>1 DEF Freed
  <2> QED
    BY <1>3, <2>1, <2>2 DEF TypedIn
<1>6. TiledIn(c, t)
  BY <1>3, <1>4 DEF TiledIn
<1>7. ZeroIn(c)
  BY <1>1, <1>2, <1>3 DEF ZeroIn
<1>8. Live(c) = Live(b) \ {p}
  BY <1>1, <1>2, <1>3 DEF Live
<1> QED
  BY <1>3, <1>4, <1>5, <1>6, <1>7, <1>8

-----------------------------------------------------------------------------

\* The invariant, for any list, break and set of pointers.
LEMMA InvariantParts ==
    ASSUME TypedIn(block', brk'), TiledIn(block', brk'), ZeroIn(block'),
           Live(block') = held'
    PROVE  IInv'
<1>1. held' \subseteq DOMAIN block'
  BY DEF Live
<1> QED
  BY <1>1 DEF IInv, TypeOK, TypedIn, Tiled, TiledIn, FreeAreZero, ZeroIn,
              HeldAreLive, Live

LEMMA PartsOfInvariant ==
    ASSUME IInv
    PROVE  TypedIn(block, brk) /\ TiledIn(block, brk) /\ ZeroIn(block) /\ Live(block) = held
BY DEF IInv, TypeOK, TypedIn, Tiled, TiledIn, FreeAreZero, ZeroIn, HeldAreLive, Live

\* What each operation does to the callers' areas; every theorem below follows
\* from these five facts.
LEMMA KmallocStep ==
    ASSUME IInv, NEW n \in Requests, Kmalloc(n) \/ Kcalloc(n)
    PROVE  /\ IInv'
           /\ DOMAIN block \subseteq DOMAIN block'
           /\ \A q \in DOMAIN block : block'[q].size = block[q].size
           /\ \E p : /\ p \notin held
                     /\ held' = held \cup {p}
                     /\ block'[p].size >= n
                     /\ block'[p].data = Zero
                     /\ \A q \in held : block'[q] = block[q]
<1> DEFINE p == Malloc(n)
<1> DEFINE b == Allocated(n, p)
<1>1. p # NULL /\ brk' = Break(n, p) /\ held' = held \cup {p}
  BY DEF Kmalloc, Kcalloc
<1>2. /\ DOMAIN b = DOMAIN block \cup {p}
      /\ TypedIn(b, brk') /\ TiledIn(b, brk') /\ ZeroIn(b)
      /\ p \notin held
      /\ Live(b) = held \cup {p}
      /\ b[p].data = Zero
      /\ b[p].size >= n
      /\ \A q \in DOMAIN block : b[q].size = block[q].size
      /\ \A q \in DOMAIN block \ {p} : b[q] = block[q]
  BY <1>1, Granted
<1>3. block' = b
  <2>1. CASE Kmalloc(n)
    BY <2>1 DEF Kmalloc
  <2>2. CASE Kcalloc(n)
    <3>1. block' = [b EXCEPT ![p].data = Zero]
      BY <2>2 DEF Kcalloc
    <3>2. b \in [DOMAIN b -> Block] /\ p \in DOMAIN b
      BY <1>2 DEF TypedIn
    <3>3. b[p] \in Block
      BY <3>2
    <3>4. [b[p] EXCEPT !.data = Zero] = b[p]
      BY <1>2, <3>3 DEF Block
    <3> QED
      BY <3>1, <3>2, <3>4
  <2> QED
    BY <2>1, <2>2
<1> HIDE DEF p, b
<1>4. IInv'
  BY <1>1, <1>2, <1>3, InvariantParts
<1>5. held \subseteq DOMAIN block
  BY DEF IInv, HeldAreLive
<1>6. \A q \in held : block'[q] = block[q]
  BY <1>2, <1>3, <1>5
<1> QED
  BY <1>1, <1>2, <1>3, <1>4, <1>6

LEMMA KfreeStep ==
    ASSUME IInv, NEW p \in held, Kfree(p)
    PROVE  /\ IInv'
           /\ DOMAIN block' = DOMAIN block
           /\ \A q \in DOMAIN block : block'[q].size = block[q].size
           /\ held' = held \ {p}
           /\ \A q \in held' : block'[q] = block[q]
<1>1. TypedIn(block, brk) /\ TiledIn(block, brk) /\ ZeroIn(block) /\ Live(block) = held
  BY PartsOfInvariant
<1>2. block' = Freed(block, p) /\ brk' = brk /\ held' = held \ {p}
  BY DEF Kfree
<1>3. /\ DOMAIN block' = DOMAIN block
      /\ TypedIn(block', brk) /\ TiledIn(block', brk) /\ ZeroIn(block')
      /\ Live(block') = Live(block) \ {p}
      /\ \A q \in DOMAIN block : block'[q].size = block[q].size
      /\ \A q \in DOMAIN block \ {p} : block'[q] = block[q]
  BY <1>1, <1>2, Released
<1>4. IInv'
  BY <1>1, <1>2, <1>3, InvariantParts
<1>5. held \subseteq DOMAIN block
  BY DEF IInv, HeldAreLive
<1> QED
  BY <1>2, <1>3, <1>4, <1>5

LEMMA KreallocStep ==
    ASSUME IInv, NEW p \in held, NEW n \in Requests, Krealloc(p, n)
    PROVE  /\ IInv'
           /\ DOMAIN block \subseteq DOMAIN block'
           /\ \A q \in DOMAIN block : block'[q].size = block[q].size
           /\ \E r : /\ r \notin held
                     /\ held' = (held \cup {r}) \ {p}
                     /\ block'[r].size >= block[p].size
                     /\ block'[r].data = block[p].data
                     /\ \A q \in held \ {p} : block'[q] = block[q]
<1> DEFINE r == Malloc(n)
<1> DEFINE b == Allocated(n, r)
<1> DEFINE c == [b EXCEPT ![r].data = block[p].data]
<1>1. /\ r # NULL /\ brk' = Break(n, r)
      /\ held' = (held \cup {r}) \ {p}
      /\ block' = Freed(c, p)
      /\ n > block[p].size
  BY DEF Krealloc
<1>2. /\ DOMAIN b = DOMAIN block \cup {r}
      /\ TypedIn(b, brk') /\ TiledIn(b, brk') /\ ZeroIn(b)
      /\ r \notin held
      /\ Live(b) = held \cup {r}
      /\ b[r].size >= n
      /\ \A q \in DOMAIN block : b[q].size = block[q].size
      /\ \A q \in DOMAIN block \ {r} : b[q] = block[q]
  BY <1>1, Granted
<1>3. p \in DOMAIN block /\ p # r /\ block[p] \in Block /\ held \subseteq DOMAIN block
  BY <1>2 DEF IInv, TypeOK, HeldAreLive
<1>4. /\ DOMAIN c = DOMAIN b
      /\ c[r] = [size |-> b[r].size, free |-> b[r].free, data |-> block[p].data]
      /\ \A q \in DOMAIN b \ {r} : c[q] = b[q]
  <2>1. b \in [DOMAIN b -> Block] /\ r \in DOMAIN b
    BY <1>2 DEF TypedIn
  <2>2. b[r] \in Block
    BY <2>1
  <2>3. c[r] = [b[r] EXCEPT !.data = block[p].data]
    BY <2>1
  <2>4. c[r] = [size |-> b[r].size, free |-> b[r].free, data |-> block[p].data]
    BY <2>2, <2>3 DEF Block
  <2> QED
    BY <2>1, <2>4
<1>5. b \in [DOMAIN b -> Block] /\ r \in DOMAIN b /\ c = [q \in DOMAIN c |-> c[q]]
  BY <1>2 DEF TypedIn
<1> HIDE DEF r, b, c
<1>6. b[r] \in Block /\ ~b[r].free
  BY <1>2, <1>5 DEF Live
<1>7. c[r] \in Block
  BY <1>3, <1>4, <1>6 DEF Block
<1>8. TypedIn(c, brk')
  <2>1. \A q \in DOMAIN c : c[q] \in Block
    BY <1>4, <1>5, <1>7
  <2> QED
    BY <1>2, <1>4, <1>5, <2>1 DEF TypedIn
<1>9. \A q \in DOMAIN b : c[q].size = b[q].size
  BY <1>4
<1>10. TiledIn(c, brk')
  BY <1>2, <1>4, <1>9 DEF TiledIn
<1>11. ZeroIn(c)
  BY <1>2, <1>4, <1>6 DEF ZeroIn
<1>12. Live(c) = held \cup {r}
  BY <1>2, <1>4, <1>6 DEF Live
<1>13. p \in Live(c)
  BY <1>12
<1>14. /\ DOMAIN block' = DOMAIN c
       /\ TypedIn(block', brk') /\ TiledIn(block', brk') /\ ZeroIn(block')
       /\ Live(block') = Live(c) \ {p}
       /\ \A q \in DOMAIN c : block'[q].size = c[q].size
       /\ \A q \in DOMAIN c \ {p} : block'[q] = c[q]
  BY <1>1, <1>8, <1>10, <1>11, <1>13, Released
<1>15. IInv'
  BY <1>1, <1>12, <1>14, InvariantParts
<1>16. \A q \in DOMAIN block : block'[q].size = block[q].size
  BY <1>2, <1>4, <1>9, <1>14
<1>17. \A q \in held \ {p} : block'[q] = block[q]
  BY <1>2, <1>3, <1>4, <1>14
<1>18. block'[r].data = block[p].data
  BY <1>3, <1>4, <1>5, <1>14
<1>19. block'[r].size >= block[p].size
  <2>1. block'[r].size = b[r].size
    BY <1>3, <1>4, <1>5, <1>14
  <2>2. b[r].size \in Nat /\ block[p].size \in Nat /\ n \in Nat
    BY <1>3, <1>6, HeapAssumption DEF Block
  <2> QED
    BY <1>1, <1>2, <2>1, <2>2
<1> QED
  BY <1>1, <1>2, <1>4, <1>14, <1>15, <1>16, <1>17, <1>18, <1>19

LEMMA WriteStep ==
    ASSUME IInv, NEW p \in held, NEW v \in Values, Write(p, v)
    PROVE  /\ IInv'
           /\ DOMAIN block' = DOMAIN block
           /\ \A q \in DOMAIN block : block'[q].size = block[q].size
           /\ held' = held
           /\ block'[p].data = v
           /\ \A q \in held \ {p} : block'[q] = block[q]
<1>1. /\ TypedIn(block, brk) /\ TiledIn(block, brk) /\ ZeroIn(block)
      /\ Live(block) = held
  BY PartsOfInvariant
<1>2. block' = [block EXCEPT ![p].data = v] /\ brk' = brk /\ held' = held
  BY DEF Write
<1>3. p \in DOMAIN block /\ block[p] \in Block /\ ~block[p].free
  BY <1>1 DEF Live, TypedIn
<1>4. block'[p] = [size |-> block[p].size, free |-> block[p].free, data |-> v]
  <2>1. block'[p] = [block[p] EXCEPT !.data = v]
    BY <1>2, <1>3
  <2> QED
    BY <1>3, <2>1 DEF Block
<1>5. /\ DOMAIN block' = DOMAIN block
      /\ \A q \in DOMAIN block \ {p} : block'[q] = block[q]
  BY <1>2, <1>3
<1>6. \A q \in DOMAIN block : block'[q].size = block[q].size
  BY <1>4, <1>5
<1>7. TypedIn(block', brk')
  <2>1. block'[p] \in Block
    BY <1>3, <1>4 DEF Block
  <2>2. \A q \in DOMAIN block' : block'[q] \in Block
    BY <1>1, <1>5, <2>1 DEF TypedIn
  <2>3. block' = [q \in DOMAIN block' |-> block'[q]]
    BY <1>2
  <2> QED
    BY <1>1, <1>2, <1>5, <2>2, <2>3 DEF TypedIn
<1>8. TiledIn(block', brk')
  BY <1>1, <1>2, <1>5, <1>6 DEF TiledIn
<1>9. ZeroIn(block')
  BY <1>1, <1>3, <1>4, <1>5 DEF ZeroIn
<1>10. Live(block') = held'
  BY <1>1, <1>2, <1>3, <1>4, <1>5 DEF Live
<1>11. held \subseteq DOMAIN block
  BY DEF IInv, HeldAreLive
<1> QED
  BY <1>2, <1>4, <1>5, <1>6, <1>7, <1>8, <1>9, <1>10, <1>11, InvariantParts

-----------------------------------------------------------------------------

\* Every state heap.c reaches satisfies the invariant: types, disjoint blocks
\* below the break, pointers held exactly for the blocks in use, zeroed free
\* blocks.
THEOREM Invariant == Spec => []IInv
<1>1. Init => IInv
  BY HeapAssumption DEF Init, IInv, TypeOK, Tiled, HeldAreLive, FreeAreZero
<1>2. IInv /\ [Next]_vars => IInv'
  <2> SUFFICES ASSUME IInv, [Next]_vars PROVE IInv'
    OBVIOUS
  <2>1. ASSUME NEW n \in Requests, Kmalloc(n) \/ Kcalloc(n) PROVE IInv'
    BY <2>1, KmallocStep
  <2>2. ASSUME NEW n \in Requests, KmallocFails(n) PROVE IInv'
    BY <2>2 DEF KmallocFails, vars, IInv, TypeOK, Tiled, HeldAreLive, FreeAreZero
  <2>3. ASSUME NEW p \in held, Kfree(p) PROVE IInv'
    BY <2>3, KfreeStep
  <2>4. ASSUME NEW p \in held, NEW n \in Requests, Krealloc(p, n) PROVE IInv'
    BY <2>4, KreallocStep
  <2>5. ASSUME NEW p \in held, NEW v \in Values, Write(p, v) PROVE IInv'
    BY <2>5, WriteStep
  <2>6. CASE UNCHANGED vars
    BY <2>6 DEF vars, IInv, TypeOK, Tiled, HeldAreLive, FreeAreZero
  <2> QED
    BY <2>1, <2>2, <2>3, <2>4, <2>5, <2>6 DEF Next
<1> QED
  BY <1>1, <1>2, PTL DEF Spec

\* The state of heap.c is well typed: sizes are positive, the break stays inside
\* heap_area.
THEOREM TypeCorrect == Spec => []TypeOK
<1>1. IInv => TypeOK
  BY DEF IInv
<1> QED
  BY <1>1, Invariant, PTL

\* kmalloc never hands out memory that belongs to another block.
THEOREM NoOverlap == Spec => []Tiled
<1>1. IInv => Tiled
  BY DEF IInv
<1> QED
  BY <1>1, Invariant, PTL

\* What is on the free list is all zeroes.
THEOREM FreeListIsZero == Spec => []FreeAreZero
<1>1. IInv => FreeAreZero
  BY DEF IInv
<1> QED
  BY <1>1, Invariant, PTL

\* The callers hold exactly the blocks that are not free: none leaks, none has
\* two owners.
THEOREM NoLeak == Spec => []HeldAreLive
<1>1. IInv => HeldAreLive
  BY DEF IInv
<1> QED
  BY <1>1, Invariant, PTL

\* No step moves, resizes or forgets a block.
THEOREM PointersStayValid == Spec => BlocksStay
<1> DEFINE Stay == /\ DOMAIN block \subseteq DOMAIN block'
                   /\ \A p \in DOMAIN block : block'[p].size = block[p].size
<1>1. IInv /\ [Next]_vars => [Stay]_vars
  <2> SUFFICES ASSUME IInv, Next PROVE Stay \/ UNCHANGED vars
    OBVIOUS
  <2>1. ASSUME NEW n \in Requests, Kmalloc(n) \/ Kcalloc(n) PROVE Stay
    BY <2>1, KmallocStep
  <2>2. ASSUME NEW n \in Requests, KmallocFails(n) PROVE UNCHANGED vars
    BY <2>2 DEF KmallocFails
  <2>3. ASSUME NEW p \in held, Kfree(p) PROVE Stay
    BY <2>3, KfreeStep
  <2>4. ASSUME NEW p \in held, NEW n \in Requests, Krealloc(p, n) PROVE Stay
    BY <2>4, KreallocStep
  <2>5. ASSUME NEW p \in held, NEW v \in Values, Write(p, v) PROVE Stay
    BY <2>5, WriteStep
  <2> QED
    BY <2>1, <2>2, <2>3, <2>4, <2>5 DEF Next
<1> QED
  BY <1>1, Invariant, PTL DEF Spec, BlocksStay

-----------------------------------------------------------------------------

\* The areas in the callers' hands: what mem is in the instance Abs.
Mem == [p \in held |-> [len |-> block[p].size, data |-> block[p].data]]

\* An area that IInv' accepts beside the ones held before is vacant in mem.
LEMMA NewAreaIsVacant ==
    ASSUME IInv, IInv', NEW p \in held', p \notin held,
           DOMAIN block \subseteq DOMAIN block',
           \A q \in DOMAIN block : block'[q].size = block[q].size
    PROVE  Abs!Vacant(p, block'[p].size, Mem)
<1>1. p \in DOMAIN block' /\ held \subseteq DOMAIN block
  BY DEF IInv, HeldAreLive
<1>2. \A q \in DOMAIN block' : q \in Nat /\ block'[q].size \in Nat
  BY DEF IInv, TypeOK, Block
<1>3. p + block'[p].size <= HeapSize
  BY <1>1, <1>2, HeapAssumption DEF IInv, TypeOK, Tiled
<1>4. ASSUME NEW q \in held
      PROVE  p + block'[p].size <= q \/ q + Mem[q].len <= p
  <2>1. q \in DOMAIN block' /\ Mem[q].len = block'[q].size /\ p # q
    BY <1>1, <1>4 DEF Mem
  <2>2. \/ p + block'[p].size + HeaderSize <= q
        \/ q + block'[q].size + HeaderSize <= p
    BY <1>1, <1>2, <2>1 DEF IInv, Tiled
  <2> QED
    BY <1>1, <1>2, <2>1, <2>2 DEF HeaderSize
<1> QED
  BY <1>3, <1>4 DEF Abs!Vacant, Mem

\* A successful kmalloc or kcalloc hands out a zeroed, vacant area.
LEMMA KmallocIsAlloc ==
    ASSUME IInv, NEW n \in Requests, Kmalloc(n) \/ Kcalloc(n)
    PROVE  Abs!Alloc
<1>1. /\ IInv'
      /\ DOMAIN block \subseteq DOMAIN block'
      /\ \A q \in DOMAIN block : block'[q].size = block[q].size
  BY KmallocStep
<1>2. PICK p : /\ p \notin held
               /\ held' = held \cup {p}
               /\ block'[p].size >= n
               /\ block'[p].data = Zero
               /\ \A q \in held : block'[q] = block[q]
  BY KmallocStep
<1>3. Abs!Vacant(p, block'[p].size, Mem)
  BY <1>1, <1>2, NewAreaIsVacant
<1>4. p \in DOMAIN Mem' \ DOMAIN Mem
  BY <1>2 DEF Mem
<1>5. Mem'[p] = [len |-> block'[p].size, data |-> Zero]
  BY <1>2 DEF Mem
<1>6. Mem' = Abs!With(Mem, p, [len |-> block'[p].size, data |-> Zero])
  BY <1>2, <1>5 DEF Mem, Abs!With
<1> QED
  BY <1>2, <1>3, <1>4, <1>5, <1>6 DEF Abs!Alloc, Abs!New, Mem

\* kfree gives the area back.
LEMMA KfreeIsFree ==
    ASSUME IInv, NEW p \in held, Kfree(p)
    PROVE  Abs!Free
<1>1. held' = held \ {p} /\ \A q \in held' : block'[q] = block[q]
  BY KfreeStep
<1>2. Mem' = Abs!Without(Mem, p) /\ p \in DOMAIN Mem \ DOMAIN Mem'
  BY <1>1 DEF Mem, Abs!Without
<1> QED
  BY <1>2 DEF Abs!Free, Abs!Gone, Mem

\* krealloc of a block that is too small moves its contents to a vacant area.
LEMMA KreallocIsMove ==
    ASSUME IInv, NEW p \in held, NEW n \in Requests, Krealloc(p, n)
    PROVE  Abs!Move
<1>1. /\ IInv'
      /\ DOMAIN block \subseteq DOMAIN block'
      /\ \A q \in DOMAIN block : block'[q].size = block[q].size
  BY KreallocStep
<1>2. PICK r : /\ r \notin held
               /\ held' = (held \cup {r}) \ {p}
               /\ block'[r].size >= block[p].size
               /\ block'[r].data = block[p].data
               /\ \A q \in held \ {p} : block'[q] = block[q]
  BY KreallocStep
<1>3. Abs!Vacant(r, block'[r].size, Mem)
  BY <1>1, <1>2, NewAreaIsVacant
<1>4. r \in DOMAIN Mem' \ DOMAIN Mem /\ p \in DOMAIN Mem \ DOMAIN Mem'
  BY <1>2 DEF Mem
<1>5. /\ Mem'[r] = [len |-> block'[r].size, data |-> block[p].data]
      /\ Mem[p] = [len |-> block[p].size, data |-> block[p].data]
  BY <1>2 DEF Mem
<1>6. Mem' = Abs!Without(Abs!With(Mem, r, [len |-> block'[r].size,
                                           data |-> block[p].data]), p)
  BY <1>2, <1>5 DEF Mem, Abs!With, Abs!Without
<1> QED
  BY <1>2, <1>3, <1>4, <1>5, <1>6 DEF Abs!Move, Abs!New, Abs!Gone, Mem

\* A store by the owner changes that area only.
LEMMA WriteIsStore ==
    ASSUME IInv, NEW p \in held, NEW v \in Values, Write(p, v)
    PROVE  Abs!Store
<1>1. /\ held' = held
      /\ p \in DOMAIN block
      /\ block'[p].size = block[p].size
      /\ block'[p].data = v
      /\ \A q \in held \ {p} : block'[q] = block[q]
  BY WriteStep DEF IInv, HeldAreLive
<1>2. Mem' = Abs!With(Mem, p, [len |-> Mem[p].len, data |-> v])
  BY <1>1 DEF Mem, Abs!With
<1> QED
  BY <1>2 DEF Abs!Store, Mem

\* kernel/heap.c implements the abstract allocator: whatever the sequence of
\* calls, callers see zeroed, disjoint areas that only they change.
THEOREM Implements == Spec => IsAllocator
<1>1. Init => Abs!Init
  BY DEF Init, Abs!Init
<1>2. IInv /\ [Next]_vars => [Abs!Next]_Mem
  <2> SUFFICES ASSUME IInv, [Next]_vars PROVE Abs!Next \/ UNCHANGED Mem
    OBVIOUS
  <2>1. ASSUME NEW n \in Requests, Kmalloc(n) \/ Kcalloc(n) PROVE Abs!Next
    BY <2>1, KmallocIsAlloc DEF Abs!Next
  <2>2. ASSUME NEW n \in Requests, KmallocFails(n) PROVE UNCHANGED Mem
    BY <2>2 DEF KmallocFails, vars, Mem
  <2>3. ASSUME NEW p \in held, Kfree(p) PROVE Abs!Next
    BY <2>3, KfreeIsFree DEF Abs!Next
  <2>4. ASSUME NEW p \in held, NEW n \in Requests, Krealloc(p, n) PROVE Abs!Next
    BY <2>4, KreallocIsMove DEF Abs!Next
  <2>5. ASSUME NEW p \in held, NEW v \in Values, Write(p, v) PROVE Abs!Next
    BY <2>5, WriteIsStore DEF Abs!Next
  <2>6. CASE UNCHANGED vars
    BY <2>6 DEF vars, Mem
  <2> QED
    BY <2>1, <2>2, <2>3, <2>4, <2>5, <2>6 DEF Next
<1> QED
  BY <1>1, <1>2, Invariant, PTL DEF Spec, IsAllocator, Abs!Spec, Mem

-----------------------------------------------------------------------------
(* The accounts of the heap. *)

\* The blocks lie end to end: each begins where another ends, or the heap does.
Adjoins(b, p) == p = HeaderSize \/ \E q \in DOMAIN b : q + b[q].size + HeaderSize = p

\* From the bottom of the heap to the break there is nothing but blocks.
GapFreeIn(b, t) == /\ \A p \in DOMAIN b : Adjoins(b, p)
                   /\ IF DOMAIN b = {} THEN t = 0 ELSE \E q \in DOMAIN b : q + b[q].size = t

GapFree == GapFreeIn(block, brk)

\* A step that changes no size and adds no block keeps the heap free of gaps.
LEMMA GapFreeStays ==
    ASSUME GapFree, NEW b, DOMAIN b = DOMAIN block,
           \A q \in DOMAIN block : b[q].size = block[q].size
    PROVE  GapFreeIn(b, brk)
BY DEF GapFree, GapFreeIn, Adjoins

\* A fresh block begins at the break and moves the break to its end.
LEMMA GapFreeGrows ==
    ASSUME IInv, GapFree, NEW n \in Requests, NEW p, p = Malloc(n), p # NULL,
           NEW b, DOMAIN b = DOMAIN block \cup {p},
           \A q \in DOMAIN b : b[q].size = Allocated(n, p)[q].size
    PROVE  GapFreeIn(b, Break(n, p))
<1>1. CASE p \in DOMAIN block
  <2>1. \A q \in DOMAIN block : b[q].size = block[q].size
    BY <1>1, Granted
  <2>2. DOMAIN b = DOMAIN block /\ Break(n, p) = brk
    BY <1>1 DEF Break
  <2> QED
    BY <2>1, <2>2, GapFreeStays
<1>2. CASE p \notin DOMAIN block
  <2>1. /\ p = brk + HeaderSize
        /\ Break(n, p) = brk + HeaderSize + RoundUp(n)
        /\ b[p].size = RoundUp(n)
        /\ \A q \in DOMAIN block : b[q].size = block[q].size
    <3>1. p = brk + HeaderSize
      BY <1>2, MallocResult
    <3>2. Allocated(n, p) = [q \in DOMAIN block \cup {p} |->
             IF q = p THEN [size |-> RoundUp(n), free |-> FALSE, data |-> Zero] ELSE block[q]]
      BY <1>2 DEF Allocated
    <3> QED
      BY <1>2, <3>1, <3>2 DEF Break
  <2>2. brk \in Nat /\ RoundUp(n) \in Nat
    BY RoundUpCovers, HeapAssumption DEF IInv, TypeOK
  <2>3. Adjoins(b, p)
    <3>1. CASE DOMAIN block = {}
      BY <2>1, <3>1 DEF GapFree, GapFreeIn, Adjoins, HeaderSize
    <3>2. CASE DOMAIN block # {}
      <4>1. PICK q \in DOMAIN block : q + block[q].size = brk
        BY <3>2 DEF GapFree, GapFreeIn
      <4>2. q \in DOMAIN b /\ q + b[q].size + HeaderSize = p
        BY <2>1, <4>1
      <4> QED
        BY <4>2 DEF Adjoins
    <3> QED
      BY <3>1, <3>2
  <2>4. ASSUME NEW q \in DOMAIN block PROVE Adjoins(b, q)
    BY <2>1 DEF GapFree, GapFreeIn, Adjoins
  <2>5. p \in DOMAIN b /\ p + b[p].size = Break(n, p)
    BY <2>1, <2>2 DEF HeaderSize
  <2> QED
    BY <2>3, <2>4, <2>5 DEF GapFreeIn
<1> QED
  BY <1>1, <1>2

LEMMA GapFreeStep ==
    ASSUME IInv, GapFree, [Next]_vars
    PROVE  GapFree'
<1>1. ASSUME NEW n \in Requests, Kmalloc(n) \/ Kcalloc(n) PROVE GapFree'
  <2> DEFINE p == Malloc(n)
             b == Allocated(n, p)
  <2>1. p # NULL /\ brk' = Break(n, p)
    BY <1>1 DEF Kmalloc, Kcalloc
  <2>2. DOMAIN b = DOMAIN block \cup {p} /\ p \in DOMAIN b /\ b \in [DOMAIN b -> Block]
    BY <2>1, Granted DEF TypedIn
  <2>3. block' = b \/ block' = [b EXCEPT ![p].data = Zero]
    BY <1>1 DEF Kmalloc, Kcalloc
  <2> HIDE DEF p, b
  <2>4. DOMAIN block' = DOMAIN b /\ \A q \in DOMAIN b : block'[q].size = b[q].size
    BY <2>2, <2>3 DEF Block
  <2>5. GapFreeIn(block', Break(n, p))
    BY <2>1, <2>2, <2>4, GapFreeGrows DEF p, b
  <2> QED
    BY <2>1, <2>5 DEF GapFree
<1>2. ASSUME NEW p \in held, NEW n \in Requests, Krealloc(p, n) PROVE GapFree'
  <2> DEFINE r == Malloc(n)
             b == Allocated(n, r)
             c == [b EXCEPT ![r].data = block[p].data]
  <2>1. r # NULL /\ brk' = Break(n, r) /\ block' = Freed(c, p)
    BY <1>2 DEF Krealloc
  <2>2. DOMAIN b = DOMAIN block \cup {r} /\ r \in DOMAIN b /\ b \in [DOMAIN b -> Block]
    BY <2>1, Granted DEF TypedIn
  <2>3. p \in DOMAIN b /\ block[p] \in Block
    BY <2>2 DEF IInv, HeldAreLive, TypeOK
  <2> HIDE DEF r, b
  <2>4. DOMAIN c = DOMAIN b /\ c \in [DOMAIN b -> Block] /\ \A q \in DOMAIN b : c[q].size = b[q].size
    BY <2>2, <2>3 DEF Block
  <2> HIDE DEF c
  <2>5. DOMAIN block' = DOMAIN b /\ \A q \in DOMAIN b : block'[q].size = b[q].size
    <3>1. block' = [c EXCEPT ![p].free = TRUE, ![p].data = Zero]
      BY <2>1 DEF Freed
    <3> QED
      BY <2>3, <2>4, <3>1 DEF Block
  <2>6. GapFreeIn(block', Break(n, r))
    BY <2>1, <2>2, <2>5, GapFreeGrows DEF r, b
  <2> QED
    BY <2>1, <2>6 DEF GapFree
<1>3. ASSUME NEW p \in held, Kfree(p) PROVE GapFree'
  BY <1>3, KfreeStep, GapFreeStays DEF GapFree, Kfree
<1>4. ASSUME NEW p \in held, NEW v \in Values, Write(p, v) PROVE GapFree'
  BY <1>4, WriteStep, GapFreeStays DEF GapFree, Write
<1>5. ASSUME UNCHANGED vars PROVE GapFree'
  BY <1>5 DEF vars, GapFree
<1>6. ASSUME NEW n \in Requests, KmallocFails(n) PROVE GapFree'
  BY <1>5, <1>6 DEF KmallocFails
<1> QED
  BY <1>1, <1>2, <1>3, <1>4, <1>5, <1>6 DEF Next

\* The loop that adds up the bytes of some blocks has a run.
LEMMA BytesRun ==
    ASSUME IInv, NEW S, S \subseteq DOMAIN block
    PROVE  \E g \in [0..HeapSize -> Nat] :
              /\ g[0] = 0
              /\ \A p \in 1..HeapSize :
                    g[p] = g[p - 1] + (IF p \in S THEN block[p].size + HeaderSize ELSE 0)
              /\ BytesOf(S) = g[HeapSize]
<1> DEFINE Share(p) == IF p \in S THEN block[p].size + HeaderSize ELSE 0
           Body(g) == [p \in 0..HeapSize |-> IF p = 0 THEN 0 ELSE g[p - 1] + Share(p)]
           Adds(g, n) == /\ g \in [0..n -> Nat] /\ g[0] = 0
                         /\ \A p \in 1..n : g[p] = g[p - 1] + Share(p)
<1>1. \A p \in Nat : Share(p) \in Nat
  BY DEF IInv, TypeOK, Block, HeaderSize
<1>2. HeapSize \in Nat
  BY HeapAssumption
<1> HIDE DEF Share
<1>3. \A n \in Nat : \E g : Adds(g, n)
  <2> DEFINE P == {n \in Nat : \E g : Adds(g, n)}
  <2>1. 0 \in P
    <3>1. Adds([p \in 0..0 |-> 0], 0)
      OBVIOUS
    <3> QED
      BY <3>1
  <2>2. ASSUME NEW n \in Nat, n \in P PROVE n + 1 \in P
    <3>1. PICK g : Adds(g, n)
      BY <2>2
    <3> DEFINE h == [p \in 0..(n + 1) |-> IF p = n + 1 THEN g[n] + Share(n + 1) ELSE g[p]]
    <3>2. g[n] + Share(n + 1) \in Nat
      BY <1>1, <3>1
    <3>3. h \in [0..(n + 1) -> Nat] /\ h[0] = 0
      BY <3>1, <3>2
    <3>4. ASSUME NEW p \in 1..(n + 1) PROVE h[p] = h[p - 1] + Share(p)
      <4>1. CASE p = n + 1
        BY <4>1
      <4>2. CASE p # n + 1
        <5>1. p \in 1..n /\ p - 1 \in 0..n
          BY <4>2
        <5> QED
          BY <3>1, <5>1
      <4> QED
        BY <4>1, <4>2
    <3> HIDE DEF h
    <3>5. Adds(h, n + 1)
      BY <3>3, <3>4
    <3> QED
      BY <3>5
  <2>3. Nat \subseteq P
    <3> HIDE DEF P
    <3> QED
      BY <2>1, <2>2, SetInduction
  <2> QED
    BY <2>3
<1>4. PICK g : Adds(g, HeapSize)
  BY <1>2, <1>3
<1>5. /\ g \in [0..HeapSize -> Nat] /\ g[0] = 0
      /\ \A p \in 1..HeapSize : g[p] = g[p - 1] + Share(p)
  BY <1>4
<1> DEFINE sum == CHOOSE f : f = Body(f)
<1>6. g = Body(g)
  <2>1. \A p \in 0..HeapSize : g[p] = Body(g)[p]
    BY <1>2, <1>5
  <2> QED
    BY <1>5, <2>1
<1>7. sum = Body(sum)
  <2> HIDE DEF Body
  <2> QED
    BY <1>6
<1>8. sum = g
  <2> DEFINE P == {i \in Nat : i <= HeapSize => sum[i] = g[i]}
  <2> HIDE DEF sum
  <2>1. sum[0] = 0
    BY <1>2, <1>7
  <2>2. \A i \in 1..HeapSize : sum[i] = sum[i - 1] + Share(i)
    BY <1>2, <1>7
  <2>3. 0 \in P
    BY <1>5, <2>1
  <2>4. ASSUME NEW i \in Nat, i \in P PROVE i + 1 \in P
    <3> SUFFICES ASSUME i + 1 <= HeapSize PROVE sum[i + 1] = g[i + 1]
      OBVIOUS
    <3>1. i + 1 \in 1..HeapSize /\ (i + 1) - 1 = i
      BY <1>2
    <3>2. sum[i] = g[i]
      BY <1>2, <2>4
    <3>3. sum[i + 1] = sum[i] + Share(i + 1)
      BY <2>2, <3>1
    <3>4. g[i + 1] = g[i] + Share(i + 1)
      BY <1>5, <3>1
    <3> QED
      BY <3>2, <3>3, <3>4
  <2>5. Nat \subseteq P
    <3> HIDE DEF P
    <3> QED
      BY <2>3, <2>4, SetInduction
  <2>6. \A i \in 0..HeapSize : sum[i] = g[i]
    BY <1>2, <2>5
  <2>7. sum = [i \in 0..HeapSize |-> sum[i]]
    BY <1>7
  <2> QED
    BY <1>5, <2>6, <2>7
<1>9. BytesOf(S) = sum[HeapSize]
  BY DEF BytesOf, Share
<1> QED
  BY <1>5, <1>8, <1>9 DEF Share

\* Sums of sizes: x bytes in use and y free ones below an address, m in the block
\* there, k in its header.
LEMMA Sums ==
    ASSUME NEW x \in Nat, NEW y \in Nat, NEW m \in Nat, NEW k \in Nat
    PROVE  /\ (x + (m + k)) + y = x + y + (m + k)
           /\ x + (y + (m + k)) = x + y + (m + k)
           /\ x + y + (m + k) = (x + y + k) + m
OBVIOUS

LEMMA StartsBelow ==
    ASSUME NEW q \in Nat, NEW m \in Nat, NEW k \in Nat, NEW a \in Nat,
           q + m + k = a + 1, k > 0
    PROVE  q <= a
OBVIOUS

\* No block begins in the one at q or in the header behind it.
LEMMA NoneBetween ==
    ASSUME NEW q \in Nat, NEW r \in Nat, NEW m \in Nat, NEW k \in Nat,
           q <= r, q < r => q + m + k <= r, r < q + m + k
    PROVE  r = q
OBVIOUS

\* Up to any address the bytes in use and the bytes on the free list reach the end
\* of the last block.
LEMMA BytesAddUp ==
    ASSUME IInv, GapFree
    PROVE  NoByteLost
<1> DEFINE U == {p \in DOMAIN block : ~block[p].free}
           V == {p \in DOMAIN block : block[p].free}
<1>1. PICK g \in [0..HeapSize -> Nat] :
         /\ g[0] = 0
         /\ \A p \in 1..HeapSize :
               g[p] = g[p - 1] + (IF p \in U THEN block[p].size + HeaderSize ELSE 0)
         /\ BytesOf(U) = g[HeapSize]
  BY BytesRun, U \subseteq DOMAIN block
<1>2. PICK h \in [0..HeapSize -> Nat] :
         /\ h[0] = 0
         /\ \A p \in 1..HeapSize :
               h[p] = h[p - 1] + (IF p \in V THEN block[p].size + HeaderSize ELSE 0)
         /\ BytesOf(V) = h[HeapSize]
  BY BytesRun, V \subseteq DOMAIN block
<1> USE HeapAssumption DEF HeaderSize
<1>3. /\ DOMAIN block \subseteq 1..HeapSize /\ brk \in Nat
      /\ \A p \in DOMAIN block : /\ p \in Nat /\ block[p].size \in Nat
                                 /\ HeaderSize <= p /\ p + block[p].size <= brk
      /\ \A p, q \in DOMAIN block : p < q => p + block[p].size + HeaderSize <= q
  BY DEF IInv, TypeOK, Tiled, Block
<1>4. \A p \in 1..HeapSize :
         g[p] + h[p] = g[p - 1] + h[p - 1]
                         + (IF p \in DOMAIN block THEN block[p].size + HeaderSize ELSE 0)
  <2> TAKE p \in 1..HeapSize
  <2>1. /\ p - 1 \in 0..HeapSize
        /\ g[p - 1] \in Nat /\ h[p - 1] \in Nat
        /\ p \in DOMAIN block => block[p].size \in Nat
    BY <1>3
  <2>2. /\ g[p] = g[p - 1] + (IF p \in U THEN block[p].size + HeaderSize ELSE 0)
        /\ h[p] = h[p - 1] + (IF p \in V THEN block[p].size + HeaderSize ELSE 0)
    BY <1>1, <1>2
  <2>3. (p \in DOMAIN block <=> p \in U \/ p \in V) /\ ~(p \in U /\ p \in V)
    BY Zenon
  <2>4. p \in DOMAIN block => p \in U \/ p \in V
    OBVIOUS
  <2>5. p \notin DOMAIN block => p \notin U /\ p \notin V
    OBVIOUS
  <2>9. HeaderSize \in Nat
    OBVIOUS
  <2> HIDE DEF U, V, HeaderSize
  <2>6. CASE p \in U
    <3>1. p \notin V
      BY <2>3, <2>6
    <3>2. g[p] = g[p - 1] + (block[p].size + HeaderSize) /\ h[p] = h[p - 1]
      BY <2>1, <2>2, <2>6, <3>1
    <3>3. p \in DOMAIN block /\ block[p].size \in Nat
      BY <2>1, <2>3, <2>6
    <3>4. (g[p - 1] + (block[p].size + HeaderSize)) + h[p - 1] = g[p - 1] + h[p - 1] + (block[p].size + HeaderSize)
      BY <2>1, <2>9, <3>3, Sums, SMTT(20)
    <3>5. g[p] + h[p] = (g[p - 1] + (block[p].size + HeaderSize)) + h[p - 1]
      BY <3>2, Zenon
    <3> QED
      BY <3>3, <3>4, <3>5
  <2>7. CASE p \in V
    <3>1. p \notin U
      BY <2>3, <2>7
    <3>2. g[p] = g[p - 1] /\ h[p] = h[p - 1] + (block[p].size + HeaderSize)
      BY <2>1, <2>2, <2>7, <3>1
    <3>3. p \in DOMAIN block /\ block[p].size \in Nat
      BY <2>1, <2>3, <2>7
    <3>4. g[p - 1] + (h[p - 1] + (block[p].size + HeaderSize)) = g[p - 1] + h[p - 1] + (block[p].size + HeaderSize)
      BY <2>1, <2>9, <3>3, Sums, SMTT(20)
    <3>5. g[p] + h[p] = g[p - 1] + (h[p - 1] + (block[p].size + HeaderSize))
      BY <3>2, Zenon
    <3> QED
      BY <3>3, <3>4, <3>5
  <2>8. CASE p \notin DOMAIN block
    <3>1. g[p] = g[p - 1] /\ h[p] = h[p - 1]
      BY <2>1, <2>2, <2>5, <2>8
    <3> QED
      BY <2>1, <2>8, <3>1
  <2> QED
    BY <2>4, <2>6, <2>7, <2>8
<1> DEFINE Below(a) == {p \in DOMAIN block : p <= a}
           Reached(a) == IF Below(a) = {} THEN g[a] + h[a] = 0
                         ELSE \E q \in Below(a) : /\ \A r \in Below(a) : r <= q
                                                  /\ g[a] + h[a] = q + block[q].size
           P == {a \in Nat : a <= HeapSize => Reached(a)}
<1>5. 0 \in P
  <2>1. Below(0) = {}
    BY <1>3
  <2>2. g[0] + h[0] = 0
    BY <1>1, <1>2
  <2> HIDE DEF Below
  <2> QED
    BY <2>1, <2>2
<1>6. ASSUME NEW a \in Nat, a \in P PROVE a + 1 \in P
  <2> SUFFICES ASSUME a + 1 <= HeapSize PROVE Reached(a + 1)
    OBVIOUS
  <2> PICK p \in Nat : p = a + 1
    OBVIOUS
  <2>1. p \in 1..HeapSize /\ p - 1 = a /\ a < p
    OBVIOUS
  <2>2. Reached(a)
    BY <1>6, <2>1
  <2>3. g[a] \in Nat /\ h[a] \in Nat
    <3>1. a \in 0..HeapSize
      BY <2>1
    <3> QED
      BY <3>1
  <2>4. g[p] + h[p] = g[a] + h[a] + (IF p \in DOMAIN block THEN block[p].size + HeaderSize ELSE 0)
    BY <1>4, <2>1
  <2> HIDE DEF P, U, V
  <2>5. CASE p \notin DOMAIN block
    <3>1. Below(p) = Below(a)
      <4>1. ASSUME NEW b \in DOMAIN block PROVE b <= p <=> b <= a
        <5>1. b \in Nat /\ b # p
          BY <1>3, <2>5
        <5> QED
          BY <2>1, <5>1
      <4> QED
        BY <4>1
    <3>2. g[p] + h[p] = g[a] + h[a]
      BY <2>3, <2>4, <2>5
    <3> HIDE DEF Below
    <3> QED
      BY <2>2, <3>1, <3>2
  <2>6. CASE p \in DOMAIN block
    <3>1. p \in Below(p) /\ \A r \in Below(p) : r <= p
      BY <2>1, <2>6
    <3>2. block[p].size \in Nat
      BY <1>3, <2>6
    <3>3. g[a] + h[a] + HeaderSize = p
      <4>1. CASE p = HeaderSize
        <5>1. Below(a) = {}
          BY <1>3, <2>1, <4>1
        <5>2. g[a] + h[a] = 0
          BY <2>2, <5>1
        <5> QED
          BY <4>1, <5>2
      <4>2. CASE \E q \in DOMAIN block : q + block[q].size + HeaderSize = p
        <5>1. PICK q \in DOMAIN block : q + block[q].size + HeaderSize = p
          BY <4>2
        <5>2. q \in Nat /\ block[q].size \in Nat
          BY <1>3
        <5>3. q \in Below(a)
          <6>1. HeaderSize \in Nat /\ HeaderSize > 0
            OBVIOUS
          <6>2. q + block[q].size + HeaderSize = a + 1
            BY <5>1
          <6>3. q <= a
            <7> HIDE DEF HeaderSize, Below
            <7> QED
              BY <5>2, <6>1, <6>2, StartsBelow, Zenon
          <6> QED
            BY <6>3
        <5>4. PICK r \in Below(a) : /\ \A x \in Below(a) : x <= r
                                    /\ g[a] + h[a] = r + block[r].size
          BY <2>2, <5>3
        <5>5. r = q
          <6>1. q <= r
            BY <5>3, <5>4
          <6>2. r \in DOMAIN block /\ r <= a /\ r \in Nat
            BY <1>3
          <6>3. q < r => q + block[q].size + HeaderSize <= r
            BY <1>3, <6>2
          <6>4. r < p
            BY <2>1, <6>2
          <6>5. HeaderSize \in Nat
            OBVIOUS
          <6> HIDE DEF HeaderSize, Below
          <6> QED
            BY <5>1, <5>2, <6>1, <6>2, <6>3, <6>4, <6>5, NoneBetween
        <5> HIDE DEF Below
        <5> QED
          BY <5>1, <5>4, <5>5
      <4>3. p = HeaderSize \/ \E q \in DOMAIN block : q + block[q].size + HeaderSize = p
        BY <2>6 DEF GapFree, GapFreeIn, Adjoins
      <4> QED
        BY <4>1, <4>2, <4>3
    <3>4. g[p] + h[p] = p + block[p].size
      <4>1. g[p] + h[p] = g[a] + h[a] + (block[p].size + HeaderSize)
        BY <2>4, <2>6
      <4>2. HeaderSize \in Nat
        OBVIOUS
      <4> HIDE DEF Below, HeaderSize
      <4>3. g[a] + h[a] + (block[p].size + HeaderSize) = (g[a] + h[a] + HeaderSize) + block[p].size
        BY <2>3, <3>2, <4>2, Sums, SMTT(20)
      <4> QED
        BY <3>3, <4>1, <4>3
    <3> HIDE DEF Below
    <3> QED
      BY <3>1, <3>4
  <2> QED
    BY <2>5, <2>6
<1>7. Nat \subseteq P
  <2> HIDE DEF P
  <2> QED
    BY <1>5, <1>6, SetInduction
<1>8. Reached(HeapSize) /\ Below(HeapSize) = DOMAIN block
  <2>1. \A p \in DOMAIN block : p <= HeapSize
    BY <1>3
  <2>2. Below(HeapSize) = DOMAIN block
    BY <2>1
  <2>3. HeapSize \in P
    <3> HIDE DEF P
    <3> QED
      BY <1>7
  <2> HIDE DEF Reached, Below
  <2>4. Reached(HeapSize)
    BY <2>3
  <2> QED
    BY <2>2, <2>4
<1>9. g[HeapSize] + h[HeapSize] = brk
  <2> HIDE DEF Below
  <2>1. CASE DOMAIN block = {}
    BY <1>8, <2>1 DEF GapFree, GapFreeIn
  <2>2. CASE DOMAIN block # {}
    <3>1. PICK q \in DOMAIN block : q + block[q].size = brk
      BY <2>2 DEF GapFree, GapFreeIn
    <3>2. PICK r \in DOMAIN block : /\ \A x \in DOMAIN block : x <= r
                                    /\ g[HeapSize] + h[HeapSize] = r + block[r].size
      BY <1>8, <2>2
    <3>3. r = q
      <4>1. q <= r
        BY <3>2
      <4>2. /\ q \in Nat /\ r \in Nat /\ block[q].size \in Nat /\ block[r].size \in Nat
            /\ r + block[r].size <= brk
        BY <1>3
      <4>3. q < r => q + block[q].size + HeaderSize <= r
        BY <1>3
      <4>4. r < q + block[q].size + HeaderSize
        <5> PICK m \in Nat : m = block[r].size
          BY <4>2
        <5>1. r + m <= brk /\ brk \in Nat
          BY <1>3, <4>2
        <5>2. r < brk + HeaderSize
          BY <4>2, <5>1
        <5> QED
          BY <3>1, <5>2
      <4>5. HeaderSize \in Nat
        OBVIOUS
      <4> HIDE DEF HeaderSize
      <4> QED
        BY <4>1, <4>2, <4>3, <4>4, <4>5, NoneBetween
    <3> QED
      BY <3>1, <3>2, <3>3
  <2> QED
    BY <2>1, <2>2
<1> QED
  BY <1>1, <1>2, <1>9 DEF NoByteLost, KmallocUsed

\* The heap is free of gaps, so what kmalloc_used reports and what is on the free
\* list add up to the break.
THEOREM EveryByteCounted == Spec => []NoByteLost
<1>1. Init => GapFree
  BY DEF Init, GapFree, GapFreeIn
<1>2. IInv /\ GapFree /\ [Next]_vars => GapFree'
  BY GapFreeStep
<1>3. IInv /\ GapFree => NoByteLost
  BY BytesAddUp
<1> QED
  BY <1>1, <1>2, <1>3, Invariant, PTL DEF Spec
=============================================================================
