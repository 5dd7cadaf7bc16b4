----------------------------- MODULE ShellProofs -----------------------------
(***************************************************************************)
(* The tree of fs/vfs.c stays a tree under every command of the shell, for *)
(* every number of nodes, every set of paths and every set of texts.       *)
(*                                                                         *)
(* The invariant is stated of a state s of the file system, so that it can *)
(* be carried through the calls a command makes: touch then write for cp,  *)
(* mkdir then rm for mv.                                                   *)
(***************************************************************************)
EXTENDS Shell, FiniteSetTheorems, SequenceTheorems, TLAPS

Nodes(s) == DOMAIN s.node

\* The type of a state of the file system.
TypeOf(s) == /\ s = [node |-> s.node, cwd |-> s.cwd, count |-> s.count]
             /\ s.node = [n \in Nodes(s) |-> s.node[n]]
             /\ Root \in Nodes(s) /\ Nodes(s) \subseteq Addr
             /\ \A n \in Nodes(s) : s.node[n] \in NodeType
             /\ s.node[Root].parent = Root /\ s.node[Root].dir

\* Parents and lists of children agree, and no list names a child twice.
Linked(s) ==
    /\ \A n \in Nodes(s) \ {Root} :
         /\ s.node[n].parent \in Nodes(s)
         /\ s.node[s.node[n].parent].dir
         /\ \E i \in DOMAIN s.node[s.node[n].parent].kids :
               s.node[s.node[n].parent].kids[i] = n
    /\ \A d \in Nodes(s) : \A i \in DOMAIN s.node[d].kids :
         /\ s.node[d].kids[i] \in Nodes(s) \ {Root}
         /\ s.node[s.node[d].kids[i]].parent = d
         /\ \A j \in DOMAIN s.node[d].kids :
               s.node[d].kids[j] = s.node[d].kids[i] => j = i
    /\ \A n \in Nodes(s) : ~s.node[n].dir => s.node[n].kids = <<>>

\* The depth of a node is a natural number, one more than its parent's: there is
\* no cycle of parents below the root.
Depth(s, r) == /\ r \in [Nodes(s) -> Nat]
               /\ r[Root] = 0
               /\ \A n \in Nodes(s) \ {Root} : r[n] = r[s.node[n].parent] + 1
Ranked(s) == \E r \in [Nodes(s) -> Nat] : Depth(s, r)

Fits(s) == \A n \in Nodes(s) :
    s.node[n].data # NoData => Len(TextOf(s, n)) + 1 <= s.node[n].cap

\* The invariant of the file system.
Good(s) == /\ TypeOf(s) /\ Linked(s) /\ Ranked(s) /\ Fits(s)
           /\ s.cwd \in Nodes(s) /\ s.node[s.cwd].dir
           /\ s.count = Cardinality(Nodes(s))

PathType == [abs : BOOLEAN, parts : Seq(Names), slash : BOOLEAN]
TextType == SeqOf(Char, MaxText)

-----------------------------------------------------------------------------
(* Induction over the naturals, stated with sets instead of predicates, and  *)
(* what it gives for a loop that is written as a function of its counter.    *)

\* Induction: were N the number outside P, n |-> n+1 would put the elements of P
\* below N into those that are not 0, one fewer.
LEMMA SetInduction ==
    ASSUME NEW P, 0 \in P, \A n \in Nat : n \in P => n + 1 \in P
    PROVE  Nat \subseteq P
<1> SUFFICES ASSUME NEW N \in Nat, N \notin P PROVE FALSE
  OBVIOUS
<1> DEFINE A == P \cap (0..N)
           f == [n \in A |-> n + 1]
<1>1. IsFiniteSet(A)
  <2>1. IsFiniteSet(0..N)
    BY FS_Interval
  <2>2. A \in SUBSET (0..N)
    OBVIOUS
  <2> QED
    BY <2>1, <2>2, FS_Subset
<1>2. /\ IsFiniteSet(A \ {0})
      /\ Cardinality(A \ {0}) < Cardinality(A)
  <2>1. Cardinality(A) \in Nat
    BY <1>1, FS_CardinalityType
  <2>2. 0 \in A
    OBVIOUS
  <2> HIDE DEF A
  <2>3. IsFiniteSet(A \ {0})
    BY <1>1, FS_RemoveElement
  <2>4. Cardinality(A \ {0}) = Cardinality(A) - 1
    BY <1>1, <2>2, FS_RemoveElement
  <2> QED
    BY <2>1, <2>3, <2>4
<1>3. f \in [A -> A \ {0}]
  OBVIOUS
<1>4. PICK x, y \in A : x # y /\ f[x] = f[y]
  <2> HIDE DEF A, f
  <2> QED
    BY <1>1, <1>2, <1>3, FS_PigeonHole
<1> QED
  BY <1>4

\* A set of naturals that is not empty has a least element.
LEMMA LeastNat ==
    ASSUME NEW S \in SUBSET Nat, S # {}
    PROVE  \E m \in S : \A n \in S : m <= n
<1> SUFFICES ASSUME \A m \in S : \E n \in S : n < m PROVE FALSE
  OBVIOUS
<1> DEFINE P == {n \in Nat : \A m \in 0..n : m \notin S}
<1>1. 0 \in P
  OBVIOUS
<1>2. \A n \in Nat : n \in P => n + 1 \in P
  OBVIOUS
<1>3. Nat \subseteq P
  <2> HIDE DEF P
  <2> QED
    BY <1>1, <1>2, SetInduction
<1>4. PICK m \in S : m \in Nat
  OBVIOUS
<1>5. m \in P
  BY <1>3, <1>4
<1> QED
  BY <1>4, <1>5

\* A loop that starts with a and computes its i-th value from the one before it
\* and i has a run of any length, and every value is of the loop's type.
Loop(T, a, F, n, g) == /\ g \in [0..n -> T]
                       /\ g[0] = a
                       /\ \A i \in 1..n : g[i] = F[<<g[i - 1], i>>]

LEMMA LoopExists ==
    ASSUME NEW T, NEW a \in T, NEW F \in [T \X Nat -> T], NEW N \in Nat
    PROVE  \E g : Loop(T, a, F, N, g)
<1> DEFINE P == {n \in Nat : \E g : Loop(T, a, F, n, g)}
<1>1. 0 \in P
  <2> DEFINE g == [i \in 0..0 |-> a]
  <2>1. Loop(T, a, F, 0, g)
    BY DEF Loop
  <2> QED
    BY <2>1
<1>2. ASSUME NEW n \in Nat, n \in P PROVE n + 1 \in P
  <2>1. PICK g : Loop(T, a, F, n, g)
    BY <1>2
  <2> DEFINE h == [i \in 0..(n + 1) |-> IF i = n + 1 THEN F[<<g[n], n + 1>>] ELSE g[i]]
  <2>2. g[n] \in T /\ F[<<g[n], n + 1>>] \in T
    BY <2>1 DEF Loop
  <2>3. h \in [0..(n + 1) -> T]
    BY <2>1, <2>2 DEF Loop
  <2>4. \A i \in 0..n : h[i] = g[i]
    OBVIOUS
  <2>5. h[n + 1] = F[<<g[n], n + 1>>]
    OBVIOUS
  <2> HIDE DEF h
  <2>6. h[0] = a
    BY <2>1, <2>4 DEF Loop
  <2>7. \A i \in 1..(n + 1) : h[i] = F[<<h[i - 1], i>>]
    <3>1. ASSUME NEW i \in 1..n PROVE h[i] = F[<<h[i - 1], i>>]
      <4>1. i \in 0..n /\ i - 1 \in 0..n
        OBVIOUS
      <4> QED
        BY <2>1, <2>4, <4>1 DEF Loop
    <3>2. h[n + 1] = F[<<h[n], n + 1>>]
      BY <2>4, <2>5
    <3>3. \A i \in 1..(n + 1) : i \in 1..n \/ (i = n + 1 /\ i - 1 = n)
      OBVIOUS
    <3> QED
      BY <3>1, <3>2, <3>3
  <2>8. Loop(T, a, F, n + 1, h)
    BY <2>3, <2>6, <2>7 DEF Loop
  <2> QED
    BY <2>8
<1>3. Nat \subseteq P
  <2> HIDE DEF P
  <2> QED
    BY <1>1, <1>2, SetInduction
<1> QED
  BY <1>3

-----------------------------------------------------------------------------
(* Looking a path up. *)

\* There are finitely many nodes, at most as many as the heap has room for.
LEMMA NodesFinite ==
    ASSUME NEW s, Good(s)
    PROVE  IsFiniteSet(Nodes(s)) /\ Cardinality(Nodes(s)) <= MaxNodes
<1>1. IsFiniteSet(Addr) /\ Cardinality(Addr) = MaxNodes
  BY ShellAssumption, FS_Interval DEF Addr
<1>2. Nodes(s) \in SUBSET Addr
  BY DEF Good, TypeOf
<1> QED
  BY <1>1, <1>2, FS_Subset

\* find_child finds a live node or nothing.
LEMMA FindChildLive ==
    ASSUME NEW s, Good(s), NEW d \in Nodes(s), NEW name
    PROVE  FindChild(s, d, name) \in Nodes(s) \cup {NULL}
<1> DEFINE kids == s.node[d].kids
           hits == {i \in DOMAIN kids : s.node[kids[i]].name = name}
<1>1. CASE s.node[d].dir /\ hits # {}
  <2>1. kids \in Seq(Addr)
    BY DEF Good, TypeOf, NodeType
  <2>2. hits \in SUBSET Nat
    BY <2>1
  <2>3. Min(hits) \in hits
    <3> HIDE DEF hits
    <3> QED
      BY <1>1, <2>2, LeastNat DEF Min
  <2>4. kids[Min(hits)] \in Nodes(s)
    BY <2>3 DEF Good, Linked
  <2> QED
    BY <1>1, <2>4 DEF FindChild
<1>2. CASE ~(s.node[d].dir /\ hits # {})
  BY <1>2 DEF FindChild
<1> QED
  BY <1>1, <1>2

\* One component of a path leads from a live node, or from nothing, to the like.
LEMMA FollowLive ==
    ASSUME NEW s, Good(s), NEW cur \in Nodes(s) \cup {NULL}, NEW tok
    PROVE  Follow(s, cur, tok) \in Nodes(s) \cup {NULL}
<1>1. CASE cur = NULL \/ tok = "."
  BY <1>1 DEF Follow
<1>2. CASE cur # NULL /\ tok # "." /\ tok = ".."
  <2>1. s.node[cur].parent \in Nodes(s)
    <3>1. CASE cur = Root
      BY <3>1 DEF Good, TypeOf
    <3>2. CASE cur # Root
      <4>1. cur \in Nodes(s) \ {Root}
        BY <1>2, <3>2
      <4> QED
        BY <4>1 DEF Good, Linked
    <3> QED
      BY <3>1, <3>2
  <2> QED
    BY <1>2, <2>1 DEF Follow
<1>3. CASE cur # NULL /\ tok # "." /\ tok # ".."
  BY <1>3, FindChildLive DEF Follow
<1> QED
  BY <1>1, <1>2, <1>3

\* A run of fs_resolve: where each number of components leads.
Run(s, p, g) ==
    /\ g \in [0..Len(p.parts) -> Nodes(s) \cup {NULL}]
    /\ g[0] = IF p.abs THEN Root ELSE s.cwd
    /\ \A i \in 1..Len(p.parts) : g[i] = Follow(s, g[i - 1], p.parts[i])

\* fs_resolve has a run and returns its last value.
LEMMA ResolveRuns ==
    ASSUME NEW s, Good(s), NEW p, Len(p.parts) \in Nat
    PROVE  \E g : Run(s, p, g) /\ Resolve(s, p) = g[Len(p.parts)]
<1> DEFINE T == Nodes(s) \cup {NULL}
           N == Len(p.parts)
           a == IF p.abs THEN Root ELSE s.cwd
           F == [x \in T \X Nat |-> Follow(s, x[1], p.parts[x[2]])]
           Body(g) == [i \in 0..N |-> IF i = 0 THEN a ELSE Follow(s, g[i - 1], p.parts[i])]
<1>1. a \in T
  BY DEF Good, TypeOf
<1>2. F \in [T \X Nat -> T]
  BY FollowLive
<1>3. N \in Nat
  OBVIOUS
<1>4. PICK g : Loop(T, a, F, N, g)
  <2> HIDE DEF F, T, N, a
  <2> QED
    BY <1>1, <1>2, <1>3, LoopExists
<1>5. g = Body(g)
  <2>1. g \in [0..N -> T] /\ g[0] = a
    BY <1>4 DEF Loop
  <2>2. ASSUME NEW i \in 1..N PROVE g[i] = Follow(s, g[i - 1], p.parts[i])
    <3>1. i \in Nat /\ i - 1 \in 0..N /\ g[i - 1] \in T
      BY <2>1
    <3>2. F[<<g[i - 1], i>>] = Follow(s, g[i - 1], p.parts[i])
      BY <3>1
    <3> QED
      BY <1>4, <3>2 DEF Loop
  <2> HIDE DEF F, T, N, a
  <2>3. \A i \in 0..N : g[i] = IF i = 0 THEN a ELSE Follow(s, g[i - 1], p.parts[i])
    BY <2>1, <2>2, <1>3
  <2> QED
    BY <2>1, <2>3
<1> DEFINE h == CHOOSE f : f = Body(f)
<1>6. h = Body(h)
  <2> HIDE DEF Body
  <2> QED
    BY <1>5
<1>7. Resolve(s, p) = h[N]
  BY DEF Resolve
<1> HIDE DEF h
<1>8. \A i \in 0..N : h[i] = IF i = 0 THEN a ELSE Follow(s, h[i - 1], p.parts[i])
  <2> HIDE DEF a
  <2> QED
    BY <1>6
<1>9. \A i \in 0..N : h[i] \in T
  <2> DEFINE P == {i \in Nat : i \in 0..N => h[i] \in T}
  <2>1. 0 \in P
    <3> HIDE DEF a, T
    <3> QED
      BY <1>1, <1>8
  <2>2. ASSUME NEW i \in Nat, i \in P PROVE i + 1 \in P
    <3> SUFFICES ASSUME i + 1 \in 0..N PROVE h[i + 1] \in T
      OBVIOUS
    <3>1. h[i] \in T
      BY <2>2
    <3>2. h[i + 1] = Follow(s, h[i], p.parts[i + 1])
      BY <1>8
    <3> QED
      BY <3>1, <3>2, FollowLive
  <2>3. Nat \subseteq P
    <3> HIDE DEF P
    <3> QED
      BY <2>1, <2>2, SetInduction
  <2> QED
    BY <2>3
<1>10. h = [i \in 0..N |-> h[i]]
  <2> HIDE DEF a
  <2> QED
    BY <1>6
<1>11. Run(s, p, h)
  <2>1. h \in [0..N -> T]
    BY <1>9, <1>10
  <2>2. h[0] = a
    BY <1>8
  <2>3. \A i \in 1..N : h[i] = Follow(s, h[i - 1], p.parts[i])
    BY <1>8
  <2> QED
    BY <2>1, <2>2, <2>3 DEF Run
<1> QED
  BY <1>7, <1>11

\* fs_resolve returns a live node or NULL.
LEMMA ResolveLive ==
    ASSUME NEW s, Good(s), NEW p, Len(p.parts) \in Nat
    PROVE  Resolve(s, p) \in Nodes(s) \cup {NULL}
BY ResolveRuns DEF Run

\* Two states whose lookups agree: same nodes and names, same directories and
\* lists of children.  Texts do not matter.
SameTree(s, t) ==
    /\ Nodes(t) = Nodes(s) /\ t.cwd = s.cwd
    /\ \A n \in Nodes(s) : /\ t.node[n].name = s.node[n].name
                           /\ t.node[n].dir = s.node[n].dir
                           /\ t.node[n].kids = s.node[n].kids
                           /\ t.node[n].parent = s.node[n].parent

\* The same parents give the same depths.
LEMMA SameRanked ==
    ASSUME NEW s, NEW t, Ranked(s), Nodes(t) = Nodes(s),
           \A n \in Nodes(s) \ {Root} : t.node[n].parent = s.node[n].parent
    PROVE  Ranked(t)
<1>1. PICK r \in [Nodes(s) -> Nat] : Depth(s, r)
  BY DEF Ranked
<1>2. Depth(t, r)
  BY <1>1 DEF Depth
<1> QED
  BY <1>2 DEF Ranked

\* The same kinds, children and parents are linked the same way.
LEMMA SameLinked ==
    ASSUME NEW s, NEW t, Linked(s), Nodes(t) = Nodes(s),
           \A n \in Nodes(s) : /\ t.node[n].dir = s.node[n].dir
                              /\ t.node[n].kids = s.node[n].kids
                              /\ t.node[n].parent = s.node[n].parent
    PROVE  Linked(t)
<1>1. ASSUME NEW n \in Nodes(t) \ {Root}
      PROVE  /\ t.node[n].parent \in Nodes(t)
             /\ t.node[t.node[n].parent].dir
             /\ \E i \in DOMAIN t.node[t.node[n].parent].kids :
                   t.node[t.node[n].parent].kids[i] = n
  <2> DEFINE e == s.node[n].parent
  <2>1. /\ e \in Nodes(s) /\ s.node[e].dir
        /\ \E i \in DOMAIN s.node[e].kids : s.node[e].kids[i] = n
    BY DEF Linked
  <2>2. t.node[n].parent = e
    OBVIOUS
  <2> HIDE DEF e
  <2>3. t.node[e].dir = s.node[e].dir /\ t.node[e].kids = s.node[e].kids
    BY <2>1
  <2> QED
    BY <2>1, <2>2, <2>3
<1>2. ASSUME NEW d \in Nodes(t), NEW i \in DOMAIN t.node[d].kids
      PROVE  /\ t.node[d].kids[i] \in Nodes(t) \ {Root}
             /\ t.node[t.node[d].kids[i]].parent = d
             /\ \A j \in DOMAIN t.node[d].kids :
                   t.node[d].kids[j] = t.node[d].kids[i] => j = i
  <2> DEFINE k == s.node[d].kids[i]
  <2>1. t.node[d].kids = s.node[d].kids /\ i \in DOMAIN s.node[d].kids
    OBVIOUS
  <2>2. /\ k \in Nodes(s) \ {Root} /\ s.node[k].parent = d
        /\ \A j \in DOMAIN s.node[d].kids : s.node[d].kids[j] = k => j = i
    BY <2>1 DEF Linked
  <2>3. t.node[d].kids[i] = k
    BY <2>1
  <2> HIDE DEF k
  <2>4. t.node[k].parent = d
    BY <2>2
  <2> QED
    BY <2>1, <2>2, <2>3, <2>4
<1>3. \A n \in Nodes(t) : ~t.node[n].dir => t.node[n].kids = <<>>
  BY DEF Linked
<1> QED
  BY <1>1, <1>2, <1>3 DEF Linked

\* fs_resolve looks at names and links only.
LEMMA SameLookup ==
    ASSUME NEW s, NEW t, Good(s), Good(t), SameTree(s, t), NEW p, Len(p.parts) \in Nat
    PROVE  Resolve(t, p) = Resolve(s, p)
<1>1. ASSUME NEW d \in Nodes(s), NEW name PROVE FindChild(t, d, name) = FindChild(s, d, name)
  <2> DEFINE kids == s.node[d].kids
  <2>1. t.node[d].kids = kids /\ t.node[d].dir = s.node[d].dir
    BY DEF SameTree
  <2>2. \A i \in DOMAIN kids : t.node[kids[i]].name = s.node[kids[i]].name
    BY DEF SameTree, Good, Linked
  <2>3. {i \in DOMAIN kids : t.node[kids[i]].name = name}
          = {i \in DOMAIN kids : s.node[kids[i]].name = name}
    BY <2>2
  <2> HIDE DEF kids
  <2> QED
    BY <2>1, <2>3 DEF FindChild, kids
<1>2. ASSUME NEW cur \in Nodes(s) \cup {NULL}, NEW tok PROVE Follow(t, cur, tok) = Follow(s, cur, tok)
  BY <1>1 DEF Follow, SameTree
<1>3. PICK g : Run(s, p, g) /\ Resolve(s, p) = g[Len(p.parts)]
  BY ResolveRuns
<1>4. PICK h : Run(t, p, h) /\ Resolve(t, p) = h[Len(p.parts)]
  BY ResolveRuns
<1> DEFINE P == {i \in Nat : i \in 0..Len(p.parts) => h[i] = g[i]}
<1>5. 0 \in P
  BY <1>3, <1>4 DEF Run, SameTree
<1>6. ASSUME NEW i \in Nat, i \in P PROVE i + 1 \in P
  <2> SUFFICES ASSUME i + 1 \in 0..Len(p.parts) PROVE h[i + 1] = g[i + 1]
    OBVIOUS
  <2>1. i + 1 \in 1..Len(p.parts) /\ i \in 0..Len(p.parts) /\ (i + 1) - 1 = i
    OBVIOUS
  <2>2. h[i] = g[i] /\ g[i] \in Nodes(s) \cup {NULL}
    BY <1>3, <1>6, <2>1 DEF Run
  <2>3. /\ g[i + 1] = Follow(s, g[i], p.parts[i + 1])
        /\ h[i + 1] = Follow(t, h[i], p.parts[i + 1])
    BY <1>3, <1>4, <2>1 DEF Run
  <2> QED
    BY <1>2, <2>2, <2>3
<1>7. Nat \subseteq P
  <2> HIDE DEF P
  <2> QED
    BY <1>5, <1>6, SetInduction
<1> QED
  BY <1>3, <1>4, <1>7

\* The directory part of a path has components, its last component is a name.
LEMMA SplitParent ==
    ASSUME NEW p \in PathType
    PROVE  /\ Len(p.parts) \in Nat
           /\ Len(DirPart(p).parts) \in Nat
           /\ p.parts # <<>> => Base(p) \in Names
<1>1. p.parts \in Seq(Names)
  BY DEF PathType
<1>2. Len(DirPart(p).parts) \in Nat
  <2>1. CASE Len(p.parts) <= 1
    BY <2>1 DEF DirPart, Path
  <2>2. CASE Len(p.parts) > 1
    <3>1. Front(p.parts) \in Seq(Names)
      BY <1>1, <2>2 DEF Front
    <3> QED
      BY <1>1, <2>2, <3>1 DEF DirPart, Path
  <2> QED
    BY <1>1, <2>1, <2>2
<1>3. ASSUME p.parts # <<>> PROVE Base(p) \in Names
  <2>1. p.parts[Len(p.parts)] \in Names
    BY <1>1, <1>3
  <2> QED
    BY <1>3, <2>1 DEF Base, Last
<1> QED
  BY <1>1, <1>2, <1>3

-----------------------------------------------------------------------------
(* The calls that add a node or change a text. *)

\* What a call that only adds nodes leaves alone: every node is still there with
\* its kind, its buffer and its children, and so is the current directory.
Grows(s, t) == /\ Nodes(s) \subseteq Nodes(t) /\ t.cwd = s.cwd
               /\ \A n \in Nodes(s) : /\ t.node[n].dir = s.node[n].dir
                                      /\ t.node[n].kids = <<>> => s.node[n].kids = <<>>

SameTexts(s, t) == \A n \in Nodes(s) : t.node[n].data = s.node[n].data

\* kmalloc returns a free address or nothing.
LEMMA FreshFree ==
    ASSUME NEW s, Good(s), Fresh(s) # NULL
    PROVE  Fresh(s) \in Addr \ Nodes(s)
<1> DEFINE free == Addr \ Nodes(s)
<1>1. free # {} /\ free \in SUBSET Nat
  <2>1. Nodes(s) \subseteq Addr /\ Addr \subseteq Nat
    BY DEF Good, TypeOf, Addr
  <2>2. Nodes(s) # Addr
    BY DEF Fresh, Nodes
  <2> QED
    BY <2>1, <2>2
<1>2. Min(free) \in free
  <2> HIDE DEF free
  <2> QED
    BY <1>1, LeastNat DEF Min
<1> QED
  BY <1>2 DEF Fresh, Nodes

\* attach: the new child comes first, the others move up by one.
LEMMA PushFront ==
    ASSUME NEW kids \in Seq(Addr), NEW n \in Addr, NEW more, more = <<n>> \o kids
    PROVE  /\ more \in Seq(Addr)
           /\ more # <<>>
           /\ more[1] = n
           /\ DOMAIN more = 1..(Len(kids) + 1)
           /\ \A i \in 1..(Len(kids) + 1) :
                 i = 1 \/ (i - 1 \in DOMAIN kids /\ more[i] = kids[i - 1])
           /\ \A i \in DOMAIN kids : i + 1 \in DOMAIN more /\ more[i + 1] = kids[i]
<1>1. more \in Seq(Addr) /\ Len(more) = Len(kids) + 1
  OBVIOUS
<1>2. \A i \in 1..(Len(kids) + 1) : more[i] = IF i = 1 THEN n ELSE kids[i - 1]
  OBVIOUS
<1>3. DOMAIN more = 1..(Len(kids) + 1) /\ DOMAIN kids = 1..Len(kids) /\ Len(kids) \in Nat
  BY <1>1
<1>4. more[1] = n /\ more # <<>>
  BY <1>1, <1>2, <1>3
<1>5. \A i \in 1..(Len(kids) + 1) : i = 1 \/ (i - 1 \in DOMAIN kids /\ more[i] = kids[i - 1])
  BY <1>2, <1>3
<1>6. \A i \in DOMAIN kids : i + 1 \in DOMAIN more /\ more[i + 1] = kids[i]
  <2> SUFFICES ASSUME NEW i \in DOMAIN kids PROVE i + 1 \in DOMAIN more /\ more[i + 1] = kids[i]
    OBVIOUS
  <2>1. i \in 1..Len(kids) /\ Len(kids) \in Nat
    OBVIOUS
  <2>2. i + 1 \in 1..(Len(kids) + 1) /\ i + 1 # 1 /\ (i + 1) - 1 = i
    BY <2>1
  <2> QED
    BY <1>2, <1>3, <2>2
<1> QED
  BY <1>1, <1>3, <1>4, <1>5, <1>6

\* attach changes a directory's children only.
LEMMA KidsOnly ==
    ASSUME NEW x \in NodeType, NEW kids
    PROVE  LET y == [x EXCEPT !.kids = kids]
           IN  /\ y.kids = kids /\ y.name = x.name /\ y.dir = x.dir
               /\ y.parent = x.parent /\ y.data = x.data /\ y.cap = x.cap
BY DEF NodeType

\* new_node and attach keep the tree.
LEMMA CreateGood ==
    ASSUME NEW s, Good(s), NEW d \in Nodes(s), s.node[d].dir,
           NEW name \in Names, NEW isDir \in BOOLEAN
    PROVE  LET t == Create(s, name, isDir, d).s
           IN  Good(t) /\ Grows(s, t) /\ SameTexts(s, t)
<1> DEFINE t == Create(s, name, isDir, d).s
           n == Fresh(s)
           new == [name |-> name, dir |-> isDir, parent |-> d, kids |-> <<>>,
                   data |-> NoData, cap |-> 0]
           node == [m \in Nodes(s) \cup {n} |->
                      IF m = n THEN new
                      ELSE IF m = d THEN [s.node[d] EXCEPT !.kids = <<n>> \o @]
                      ELSE s.node[m]]
<1>1. CASE n = NULL
  BY <1>1 DEF Create, Fail, Grows, SameTexts
<1>2. CASE n # NULL
  <2>1. n \in Addr \ Nodes(s)
    BY <1>2, FreshFree
  <2>2. s = [node |-> s.node, cwd |-> s.cwd, count |-> s.count]
    BY DEF Good, TypeOf
  <2>3. t = [node |-> node, cwd |-> s.cwd, count |-> s.count + 1]
    <3> HIDE DEF node
    <3> QED
      BY <1>2, <2>2 DEF Create, Done, Nodes, node
  <2>4. Nodes(t) = Nodes(s) \cup {n} /\ t.node = node
    BY <2>3 DEF Nodes
  <2>5. /\ t.node[n] = new
        /\ \A m \in Nodes(s) \ {d} : t.node[m] = s.node[m]
        /\ t.node[d] = [s.node[d] EXCEPT !.kids = <<n>> \o @]
    BY <2>1, <2>4
  <2>6. s.node[d] \in NodeType /\ s.node[d].kids \in Seq(Addr)
    BY DEF Good, TypeOf, NodeType
  <2>7. /\ t.node[d].kids = <<n>> \o s.node[d].kids
        /\ t.node[d].name = s.node[d].name
        /\ t.node[d].dir = s.node[d].dir
        /\ t.node[d].parent = s.node[d].parent
        /\ t.node[d].data = s.node[d].data
        /\ t.node[d].cap = s.node[d].cap
    <3> DEFINE x == s.node[d]
               y == t.node[d]
    <3>1. x \in NodeType /\ y = [x EXCEPT !.kids = <<n>> \o @]
      BY <2>5, <2>6
    <3> HIDE DEF x, y, n, t, new, node
    <3>2. /\ y.kids = <<n>> \o x.kids /\ y.name = x.name /\ y.dir = x.dir
          /\ y.parent = x.parent /\ y.data = x.data /\ y.cap = x.cap
      BY <3>1, KidsOnly
    <3> QED
      BY <3>2 DEF x, y
  <2> DEFINE old == s.node[d].kids
             kids == t.node[d].kids
  <2>8. /\ kids \in Seq(Addr) /\ kids # <<>> /\ kids[1] = n
        /\ DOMAIN kids = 1..(Len(old) + 1)
        /\ \A i \in 1..(Len(old) + 1) : i = 1 \/ (i - 1 \in DOMAIN old /\ kids[i] = old[i - 1])
        /\ \A i \in DOMAIN old : i + 1 \in DOMAIN kids /\ kids[i + 1] = old[i]
    <3>1. kids = <<n>> \o old /\ old \in Seq(Addr) /\ n \in Addr
      BY <2>1, <2>6, <2>7
    <3> HIDE DEF n, t, kids, old
    <3> QED
      BY <3>1, PushFront
  <2> HIDE DEF t, node, n
  <2>same. \A m \in Nodes(s) :
              /\ m \in Nodes(t) /\ m # n
              /\ t.node[m].dir = s.node[m].dir
              /\ t.node[m].parent = s.node[m].parent
              /\ t.node[m].data = s.node[m].data
              /\ t.node[m].cap = s.node[m].cap
              /\ m # d => t.node[m].kids = s.node[m].kids
    <3> SUFFICES ASSUME NEW m \in Nodes(s) PROVE m \in Nodes(t) /\ m # n /\
                        (m = d \/ t.node[m] = s.node[m])
      BY <2>7
    <3> QED
      BY <2>1, <2>4, <2>5
  <2>9. TypeOf(t)
    <3>1. t = [node |-> t.node, cwd |-> t.cwd, count |-> t.count]
      BY <2>3
    <3>2. t.node = [m \in Nodes(t) |-> t.node[m]]
      BY <2>4 DEF node, Nodes
    <3>3. t.node[d] \in NodeType
      BY <2>6, <2>7, <2>5, <2>8 DEF NodeType
    <3>4. new \in NodeType
      BY ShellAssumption DEF NodeType, NoData, Good, TypeOf, Addr
    <3>5. \A m \in Nodes(t) : t.node[m] \in NodeType
      BY <2>4, <2>5, <3>3, <3>4 DEF Good, TypeOf
    <3>6. t.node[Root].parent = Root /\ t.node[Root].dir
      BY <2>4, <2>5, <2>7 DEF Good, TypeOf
    <3> QED
      BY <2>1, <2>4, <3>1, <3>2, <3>5, <3>6 DEF Good, TypeOf
  <2>10. Linked(t)
    <3>1. ASSUME NEW m \in Nodes(t) \ {Root}
          PROVE  /\ t.node[m].parent \in Nodes(t)
                 /\ t.node[t.node[m].parent].dir
                 /\ \E i \in DOMAIN t.node[t.node[m].parent].kids :
                       t.node[t.node[m].parent].kids[i] = m
      <4>1. CASE m = n
        <5>1. t.node[m].parent = d
          BY <2>5, <4>1
        <5>2. d \in Nodes(t) /\ t.node[d].dir
          BY <2>4, <2>7
        <5>3. 1 \in DOMAIN kids /\ kids[1] = m
          BY <2>8, <4>1
        <5> QED
          BY <5>1, <5>2, <5>3
      <4>2. CASE m # n
        <5> DEFINE e == s.node[m].parent
        <5>1. m \in Nodes(s) \ {Root} /\ t.node[m].parent = e
          BY <2>4, <2>5, <2>7, <4>2
        <5>2. e \in Nodes(s) /\ s.node[e].dir /\ e \in Nodes(t) /\ t.node[e].dir
          <6>1. e \in Nodes(s) /\ s.node[e].dir
            BY <5>1 DEF Good, Linked
          <6> HIDE DEF e
          <6>2. e \in Nodes(t)
            BY <2>4, <6>1
          <6>3. t.node[e].dir = s.node[e].dir
            BY <2>same, <6>1
          <6> QED
            BY <6>1, <6>2, <6>3
        <5>3. PICK i \in DOMAIN s.node[e].kids : s.node[e].kids[i] = m
          BY <5>1 DEF Good, Linked
        <5> HIDE DEF e
        <5>4. \E j \in DOMAIN t.node[e].kids : t.node[e].kids[j] = m
          <6>1. CASE e = d
            BY <2>8, <5>3, <6>1
          <6>2. CASE e # d
            BY <2>5, <5>2, <5>3, <6>2
          <6> QED
            BY <6>1, <6>2
        <5> QED
          BY <5>1, <5>2, <5>4
      <4> QED
        BY <4>1, <4>2
    <3>2. ASSUME NEW e \in Nodes(t), NEW i \in DOMAIN t.node[e].kids
          PROVE  /\ t.node[e].kids[i] \in Nodes(t) \ {Root}
                 /\ t.node[t.node[e].kids[i]].parent = e
                 /\ \A j \in DOMAIN t.node[e].kids :
                       t.node[e].kids[j] = t.node[e].kids[i] => j = i
      <4>1. e # n
        BY <2>5
      <4>2. CASE e = d
        <5>1. \A j \in DOMAIN old : old[j] \in Nodes(s) \ {Root} /\ s.node[old[j]].parent = d
          BY DEF Good, Linked
        <5>2. \A j, k \in DOMAIN old : old[j] = old[k] => j = k
          BY DEF Good, Linked
        <5>3. n # Root /\ n \notin Nodes(s) /\ n \in Nodes(t) /\ t.node[n].parent = d
          BY <2>1, <2>4, <2>5 DEF Good, TypeOf
        <5>4. \A m \in Nodes(s) : m \in Nodes(t) /\ t.node[m].parent = s.node[m].parent
          BY <2>4, <2>5, <2>7
        <5>5. \A j \in DOMAIN kids : \/ j = 1 /\ kids[j] = n
                                     \/ /\ j - 1 \in DOMAIN old
                                        /\ kids[j] = old[j - 1]
                                        /\ kids[j] \in Nodes(s) \ {Root}
                                        /\ s.node[kids[j]].parent = d
          <6>1. \A j \in DOMAIN kids : j = 1 \/ (j - 1 \in DOMAIN old /\ kids[j] = old[j - 1])
            BY <2>8
          <6> HIDE DEF kids, old
          <6> QED
            BY <2>8, <5>1, <6>1
        <5>6. \A j \in DOMAIN kids : j \in Int
          BY <2>8
        <5>7. i \in DOMAIN kids
          BY <4>2
        <5>8. \A j \in DOMAIN kids : kids[j] = kids[i] => j = i
          <6> HIDE DEF kids, old
          <6> QED
            BY <5>2, <5>3, <5>5, <5>6, <5>7
        <5>9. kids[i] \in Nodes(t) \ {Root} /\ t.node[kids[i]].parent = d
          <6> HIDE DEF kids, old
          <6> QED
            BY <5>3, <5>4, <5>5, <5>7
        <5> QED
          BY <4>2, <5>8, <5>9
      <4>3. CASE e # d
        <5>1. e \in Nodes(s) /\ t.node[e] = s.node[e]
          BY <2>4, <2>5, <4>1, <4>3
        <5>2. \A m \in Nodes(s) : m \in Nodes(t) /\ t.node[m].parent = s.node[m].parent
          BY <2>4, <2>5, <2>7
        <5> QED
          BY <5>1, <5>2, SMTT(30) DEF Good, Linked
      <4> QED
        BY <4>2, <4>3
    <3>3. \A m \in Nodes(t) : ~t.node[m].dir => t.node[m].kids = <<>>
      <4>1. t.node[n].kids = <<>>
        BY <2>5
      <4>2. \A m \in Nodes(s) : ~t.node[m].dir => m # d /\ s.node[m].kids = <<>>
        BY <2>same DEF Good, Linked
      <4> QED
        BY <2>same, <2>4, <4>1, <4>2
    <3> QED
      BY <3>1, <3>2, <3>3 DEF Linked
  <2>11. Ranked(t)
    <3>1. PICK r \in [Nodes(s) -> Nat] : Depth(s, r)
      BY DEF Good, Ranked
    <3> DEFINE q == [m \in Nodes(t) |-> IF m = n THEN r[d] + 1 ELSE r[m]]
    <3>2. q \in [Nodes(t) -> Nat]
      BY <2>4
    <3>3. q[n] = r[d] + 1 /\ \A m \in Nodes(s) : q[m] = r[m]
      BY <2>1, <2>4
    <3> HIDE DEF q
    <3>4. q[Root] = 0
      BY <3>1, <3>3 DEF Depth, Good, TypeOf
    <3>5. ASSUME NEW m \in Nodes(t) \ {Root} PROVE q[m] = q[t.node[m].parent] + 1
      <4>1. CASE m = n
        BY <2>5, <3>3, <4>1
      <4>2. CASE m # n
        <5>1. m \in Nodes(s) \ {Root} /\ t.node[m].parent = s.node[m].parent
          BY <2>4, <2>5, <2>7, <4>2
        <5>2. s.node[m].parent \in Nodes(s)
          BY <5>1 DEF Good, Linked
        <5> QED
          BY <3>1, <3>3, <5>1, <5>2 DEF Depth
      <4> QED
        BY <4>1, <4>2
    <3> QED
      BY <3>2, <3>4, <3>5 DEF Ranked, Depth
  <2>12. Fits(t)
    <3>1. t.node[n].data = NoData
      BY <2>5
    <3>2. ASSUME NEW m \in Nodes(s), t.node[m].data # NoData
          PROVE  Len(TextOf(t, m)) + 1 <= t.node[m].cap
      <4>1. TextOf(t, m) = TextOf(s, m) /\ t.node[m].cap = s.node[m].cap
        BY <2>same DEF TextOf
      <4> QED
        BY <2>same, <3>2, <4>1 DEF Good, Fits
    <3> QED
      BY <2>4, <3>1, <3>2 DEF Fits
  <2>13. t.cwd \in Nodes(t) /\ t.node[t.cwd].dir
    BY <2>3, <2>4, <2>5, <2>7, <2>1 DEF Good
  <2>14. t.count = Cardinality(Nodes(t))
    <3>1. Cardinality(Nodes(s) \cup {n}) = Cardinality(Nodes(s)) + 1
      BY <2>1, NodesFinite, FS_AddElement
    <3> QED
      BY <2>3, <2>4, <3>1 DEF Good
  <2>15. Grows(s, t)
    <3>1. t.node[d].kids # <<>>
      BY <2>8
    <3>2. t.cwd = s.cwd
      BY <2>3
    <3> QED
      BY <2>same, <3>1, <3>2 DEF Grows
  <2>16. SameTexts(s, t)
    BY <2>1, <2>4, <2>5, <2>7 DEF SameTexts
  <2> QED
    BY <2>9, <2>10, <2>11, <2>12, <2>13, <2>14, <2>15, <2>16 DEF Good, t
<1> QED
  BY <1>1, <1>2

\* A call that failed early has changed nothing.
LEMMA Unchanged == ASSUME NEW s PROVE Grows(s, s) /\ SameTexts(s, s)
BY DEF Grows, SameTexts

\* A path without a slash that is not empty is one name.
LEMMA NoSlash ==
    ASSUME NEW p \in PathType, p # EmptyPath, ~HasSlash(p)
    PROVE  p.parts # <<>>
<1> SUFFICES ASSUME p.parts = <<>> PROVE p = EmptyPath
  OBVIOUS
<1> QED
  BY DEF PathType, EmptyPath, Path, HasSlash

\* fs_mkdir keeps the tree and its texts.
LEMMA MkdirGood ==
    ASSUME NEW s, Good(s), NEW p \in PathType
    PROVE  LET t == Mkdir(s, p).s IN Good(t) /\ Grows(s, t) /\ SameTexts(s, t)
<1> DEFINE d == Resolve(s, DirPart(p))
<1>1. CASE p # EmptyPath /\ ~HasSlash(p)
  <2>1. Base(p) \in Names
    BY <1>1, NoSlash, SplitParent
  <2>2. s.cwd \in Nodes(s) /\ s.node[s.cwd].dir
    BY DEF Good
  <2> QED
    BY <1>1, <2>1, <2>2, CreateGood, Unchanged DEF Mkdir, Fail
<1>2. CASE p # EmptyPath /\ HasSlash(p) /\ Base(p) # "" /\ IsDir(s, d)
  <2>1. Base(p) \in Names
    BY <1>2, SplitParent DEF Base
  <2>2. d \in Nodes(s) /\ s.node[d].dir
    BY <1>2, SplitParent, ResolveLive DEF IsDir
  <2> HIDE DEF d
  <2> QED
    BY <1>2, <2>1, <2>2, CreateGood, Unchanged DEF Mkdir, Fail, d
<1>3. CASE p = EmptyPath \/ (HasSlash(p) /\ (Base(p) = "" \/ ~IsDir(s, d)))
  BY <1>3, Unchanged DEF Mkdir, Fail
<1> QED
  BY <1>1, <1>2, <1>3

\* fs_touch keeps the tree and its texts.
LEMMA TouchGood ==
    ASSUME NEW s, Good(s), NEW p \in PathType
    PROVE  LET t == Touch(s, p).s IN Good(t) /\ Grows(s, t) /\ SameTexts(s, t)
<1> DEFINE d == Resolve(s, DirPart(p))
<1>1. CASE p # EmptyPath /\ Resolve(s, p) = NULL /\ ~HasSlash(p)
  <2>1. Base(p) \in Names
    BY <1>1, NoSlash, SplitParent
  <2>2. s.cwd \in Nodes(s) /\ s.node[s.cwd].dir
    BY DEF Good
  <2> QED
    BY <1>1, <2>1, <2>2, CreateGood DEF Touch
<1>2. CASE p # EmptyPath /\ Resolve(s, p) = NULL /\ HasSlash(p) /\ Base(p) # "" /\ IsDir(s, d)
  <2>1. Base(p) \in Names
    BY <1>2, SplitParent DEF Base
  <2>2. d \in Nodes(s) /\ s.node[d].dir
    BY <1>2, SplitParent, ResolveLive DEF IsDir
  <2> HIDE DEF d
  <2> QED
    BY <1>2, <2>1, <2>2, CreateGood DEF Touch, d
<1>3. CASE p = EmptyPath \/ Resolve(s, p) # NULL \/ (HasSlash(p) /\ (Base(p) = "" \/ ~IsDir(s, d)))
  BY <1>3, Unchanged DEF Touch, Fail, Done
<1> QED
  BY <1>1, <1>2, <1>3

\* A state that differs in the buffer of one node only keeps the tree.
LEMMA BufferGood ==
    ASSUME NEW s, Good(s), NEW n \in Nodes(s), NEW data, NEW cap \in 0..(MaxText + 1),
           \/ data = NoData
           \/ \E text \in TextType : data = <<text>> /\ Len(text) + 1 <= cap
    PROVE  LET t == SetBuffer(s, n, data, cap)
           IN  /\ Good(t) /\ SameTree(s, t)
               /\ t.node[n].data = data
               /\ \A m \in Nodes(s) \ {n} : t.node[m].data = s.node[m].data
<1> DEFINE t == SetBuffer(s, n, data, cap)
<1>1. s = [node |-> s.node, cwd |-> s.cwd, count |-> s.count]
  BY DEF Good, TypeOf
<1>2. s.node = [m \in Nodes(s) |-> s.node[m]]
  BY DEF Good, TypeOf
<1>3. s.node[n] \in NodeType
  BY DEF Good, TypeOf
<1> DEFINE new == [s.node[n] EXCEPT !.data = data, !.cap = cap]
<1>4. t = [node |-> [s.node EXCEPT ![n] = new], cwd |-> s.cwd, count |-> s.count]
  BY <1>1 DEF SetBuffer
<1>5. /\ new.name = s.node[n].name /\ new.dir = s.node[n].dir
      /\ new.kids = s.node[n].kids /\ new.parent = s.node[n].parent
      /\ new.data = data /\ new.cap = cap
      /\ new \in NodeType
  BY <1>3 DEF NodeType, TextType
<1> HIDE DEF t, new
<1>6. /\ Nodes(t) = Nodes(s) /\ t.cwd = s.cwd /\ t.count = s.count
      /\ t.node = [m \in Nodes(t) |-> t.node[m]]
      /\ t.node[n] = new
      /\ \A m \in Nodes(s) \ {n} : t.node[m] = s.node[m]
  BY <1>2, <1>4 DEF Nodes
<1>7. SameTree(s, t)
  BY <1>5, <1>6 DEF SameTree
<1>8. TypeOf(t)
  <2>1. t = [node |-> t.node, cwd |-> t.cwd, count |-> t.count]
    BY <1>4
  <2>2. \A m \in Nodes(t) : t.node[m] \in NodeType
    BY <1>5, <1>6 DEF Good, TypeOf
  <2> QED
    BY <1>6, <1>7, <2>1, <2>2 DEF SameTree, Good, TypeOf
<1>9. Linked(t)
  <2>1. /\ Linked(s) /\ Nodes(t) = Nodes(s)
        /\ \A m \in Nodes(s) : /\ t.node[m].dir = s.node[m].dir
                              /\ t.node[m].kids = s.node[m].kids
                              /\ t.node[m].parent = s.node[m].parent
    BY <1>7 DEF SameTree, Good
  <2> QED
    BY <2>1, SameLinked
<1>10. Ranked(t)
  <2>1. /\ Ranked(s) /\ Nodes(t) = Nodes(s)
        /\ \A m \in Nodes(s) \ {Root} : t.node[m].parent = s.node[m].parent
    BY <1>7 DEF SameTree, Good
  <2> QED
    BY <2>1, SameRanked
<1>11. Fits(t)
  <2>1. t.node[n].data # NoData => Len(TextOf(t, n)) + 1 <= t.node[n].cap
    BY <1>5, <1>6 DEF TextOf
  <2>2. ASSUME NEW m \in Nodes(s) \ {n}, t.node[m].data # NoData
        PROVE  Len(TextOf(t, m)) + 1 <= t.node[m].cap
    <3>1. t.node[m] = s.node[m] /\ TextOf(t, m) = TextOf(s, m)
      BY <1>6 DEF TextOf
    <3> QED
      BY <2>2, <3>1 DEF Good, Fits
  <2> QED
    BY <1>6, <2>1, <2>2 DEF Fits
<1>12. t.cwd \in Nodes(t) /\ t.node[t.cwd].dir /\ t.count = Cardinality(Nodes(t))
  BY <1>6, <1>7 DEF SameTree, Good
<1> QED
  BY <1>5, <1>6, <1>7, <1>8, <1>9, <1>10, <1>11, <1>12 DEF Good, t

\* Calls one after the other add up.
LEMMA GrowsOn ==
    ASSUME NEW s, NEW t, NEW u, Grows(s, t), Grows(t, u)
    PROVE  Grows(s, u)
BY DEF Grows

LEMMA SameTreeGrows == ASSUME NEW s, NEW t, SameTree(s, t) PROVE Grows(s, t)
BY DEF SameTree, Grows

\* The length of a text.
LEMMA TextLen == ASSUME NEW text \in TextType PROVE Len(text) \in 0..MaxText
BY ShellAssumption DEF TextType, SeqOf

\* The tail of fs_write_file keeps the tree; when it succeeds the node has the text.
LEMMA StoreTextGood ==
    ASSUME NEW s, Good(s), NEW n \in Nodes(s), NEW text \in TextType, NEW room \in BOOLEAN
    PROVE  LET r == StoreText(s, n, text, room)
           IN  /\ Good(r.s) /\ SameTree(s, r.s)
               /\ \A m \in Nodes(s) \ {n} : r.s.node[m].data = s.node[m].data
               /\ r.rc = 0 => r.s.node[n].data = <<text>>
<1>1. Len(text) \in 0..MaxText /\ s.node[n].cap \in 0..(MaxText + 1)
  BY TextLen DEF Good, TypeOf, NodeType
<1>2. CASE s.node[n].cap >= Len(text) + 1
  BY <1>1, <1>2, BufferGood, SMTT(30) DEF StoreText, Done
<1>3. CASE ~(s.node[n].cap >= Len(text) + 1) /\ room
  <2>1. Len(text) + 1 \in 0..(MaxText + 1) /\ Len(text) + 1 <= Len(text) + 1
    BY <1>1, ShellAssumption
  <2> QED
    BY <1>3, <2>1, BufferGood DEF StoreText, Done
<1>4. CASE ~(s.node[n].cap >= Len(text) + 1) /\ ~room
  <2>1. 0 \in 0..(MaxText + 1)
    BY ShellAssumption
  <2> QED
    BY <1>4, <2>1, BufferGood DEF StoreText, Fail
<1> QED
  BY <1>2, <1>3, <1>4

\* fs_write_file keeps the tree; a success leaves the text where the path leads,
\* and no other text has changed.
LEMMA WriteGood ==
    ASSUME NEW s, Good(s), NEW p \in PathType, NEW text \in TextType, NEW room \in BOOLEAN
    PROVE  LET r == WriteFile(s, p, text, room)
           IN  /\ Good(r.s) /\ Grows(s, r.s)
               /\ r.rc = 0 => /\ Resolve(r.s, p) \in Nodes(r.s)
                              /\ r.s.node[Resolve(r.s, p)].data = <<text>>
                              /\ \A m \in Nodes(s) \ {Resolve(r.s, p)} :
                                    r.s.node[m].data = s.node[m].data
<1> DEFINE t == IF Resolve(s, p) # NULL THEN Done(s) ELSE Touch(s, p)
           n == Resolve(t.s, p)
           r == WriteFile(s, p, text, room)
<1>1. Good(t.s) /\ Grows(s, t.s) /\ SameTexts(s, t.s)
  BY TouchGood, Unchanged DEF Done
<1>2. Len(p.parts) \in Nat
  BY SplitParent
<1>3. n \in Nodes(t.s) \cup {NULL}
  <2> HIDE DEF t
  <2> QED
    BY <1>1, <1>2, ResolveLive
<1>4. r = IF t.rc # 0 \/ n = NULL \/ IsDir(t.s, n) THEN Fail(t.s)
          ELSE StoreText(t.s, n, text, room)
  BY DEF WriteFile
<1> HIDE DEF t, n, r
<1>5. CASE t.rc # 0 \/ n = NULL \/ IsDir(t.s, n)
  <2>1. r.s = t.s /\ r.rc = -1
    BY <1>4, <1>5 DEF Fail
  <2> QED
    BY <1>1, <2>1 DEF r
<1>6. CASE ~(t.rc # 0 \/ n = NULL \/ IsDir(t.s, n))
  <2>1. r = StoreText(t.s, n, text, room) /\ n \in Nodes(t.s)
    BY <1>3, <1>4, <1>6
  <2>2. /\ Good(r.s) /\ SameTree(t.s, r.s)
        /\ \A m \in Nodes(t.s) \ {n} : r.s.node[m].data = t.s.node[m].data
        /\ r.rc = 0 => r.s.node[n].data = <<text>>
    BY <1>1, <2>1, StoreTextGood
  <2>3. Resolve(r.s, p) = n
    BY <1>1, <1>2, <2>2, SameLookup DEF n
  <2>4. Grows(s, r.s)
    BY <1>1, <2>2, GrowsOn, SameTreeGrows
  <2>5. Nodes(r.s) = Nodes(t.s)
    BY <2>2 DEF SameTree
  <2>6. \A m \in Nodes(s) \ {n} : r.s.node[m].data = s.node[m].data
    BY <1>1, <2>2 DEF Grows, SameTexts
  <2> QED
    BY <2>1, <2>2, <2>3, <2>4, <2>5, <2>6 DEF r
<1> QED
  BY <1>5, <1>6

\* The text of a node is a text.
LEMMA TextOfType ==
    ASSUME NEW s, Good(s), NEW n \in Nodes(s)
    PROVE  TextOf(s, n) \in TextType
<1>1. s.node[n] \in NodeType
  BY DEF Good, TypeOf
<1>2. <<>> \in TextType
  <2>1. <<>> \in [1..0 -> Char]
    OBVIOUS
  <2> QED
    BY <2>1, ShellAssumption, SMTT(30) DEF TextType, SeqOf
<1> QED
  BY <1>1, <1>2 DEF NodeType, TextOf, NoData, TextType

\* fs_append_file keeps the tree, as long as the file stays within the bound.
LEMMA AppendGood ==
    ASSUME NEW s, Good(s), NEW p \in PathType, NEW text \in TextType, NEW room \in BOOLEAN,
           LET n == Resolve(s, p) IN n # NULL => Len(TextOf(s, n) \o text) <= MaxText
    PROVE  LET t == AppendFile(s, p, text, room).s IN Good(t) /\ Grows(s, t)
<1> DEFINE n == Resolve(s, p)
           total == TextOf(s, n) \o text
<1>1. n \in Nodes(s) \cup {NULL}
  BY SplitParent, ResolveLive
<1>2. CASE n = NULL
  BY <1>2, WriteGood DEF AppendFile
<1>3. CASE n # NULL /\ (s.node[n].dir \/ ~room)
  BY <1>3, Unchanged DEF AppendFile, Fail
<1>4. CASE n # NULL /\ ~(s.node[n].dir \/ ~room)
  <2>1. n \in Nodes(s)
    BY <1>1, <1>4
  <2>2. TextOf(s, n) \in TextType
    <3> HIDE DEF n
    <3> QED
      BY <2>1, TextOfType
  <2>3. TextOf(s, n) \in Seq(Char) /\ text \in Seq(Char)
    <3> HIDE DEF n
    <3> QED
      BY <2>2 DEF TextType, SeqOf
  <2>4. total \in Seq(Char) /\ Len(total) <= MaxText
    <3>1. Len(total) <= MaxText
      BY <1>4
    <3> HIDE DEF n
    <3> QED
      BY <2>3, <3>1
  <2> HIDE DEF total
  <2>5. total \in TextType
    <3>1. Len(total) \in 0..MaxText /\ total \in [1..Len(total) -> Char]
      BY <2>4, ShellAssumption
    <3> QED
      BY <3>1 DEF TextType, SeqOf
  <2>6. AppendFile(s, p, text, room).s = SetBuffer(s, n, <<total>>, Len(total) + 1)
    BY <1>4 DEF AppendFile, Done, total
  <2>7. Len(total) + 1 \in 0..(MaxText + 1) /\ Len(total) + 1 <= Len(total) + 1
    BY <2>4, <2>5, TextLen, ShellAssumption
  <2> HIDE DEF n
  <2>8. Good(SetBuffer(s, n, <<total>>, Len(total) + 1))
          /\ SameTree(s, SetBuffer(s, n, <<total>>, Len(total) + 1))
    BY <2>1, <2>5, <2>7, BufferGood
  <2> QED
    BY <2>6, <2>8, SameTreeGrows
<1> QED
  BY <1>2, <1>3, <1>4

-----------------------------------------------------------------------------
(* Removing a node. *)

\* Unlinking a child that is listed once leaves the other children, in order.
LEMMA RemoveOne ==
    ASSUME NEW kids \in Seq(Addr), NEW i \in DOMAIN kids,
           \A j \in DOMAIN kids : kids[j] = kids[i] => j = i,
           NEW less, less = RemoveFirst(kids, kids[i])
    PROVE  /\ less \in Seq(Addr)
           /\ DOMAIN less = 1..(Len(kids) - 1)
           /\ \A j \in DOMAIN less :
                 /\ (IF j < i THEN j ELSE j + 1) \in DOMAIN kids \ {i}
                 /\ less[j] = kids[IF j < i THEN j ELSE j + 1]
           /\ \A j \in DOMAIN kids \ {i} :
                 /\ (IF j < i THEN j ELSE j - 1) \in DOMAIN less
                 /\ less[IF j < i THEN j ELSE j - 1] = kids[j]
<1>1. i \in 1..Len(kids) /\ Len(kids) \in Nat
  OBVIOUS
<1>2. less = RemoveAt(kids, i)
  <2>1. {j \in 1..Len(kids) : kids[j] = kids[i]} = {i}
    OBVIOUS
  <2>2. Min({i}) = i
    BY <1>1 DEF Min
  <2>3. SelectInSeq(kids, LAMBDA v : v = kids[i]) = i
    BY <2>1, <2>2 DEF SelectInSeq
  <2> QED
    BY <1>1, <2>3 DEF RemoveFirst
<1>3. /\ less \in Seq(Addr)
      /\ Len(less) = Len(kids) - 1
      /\ \A j \in 1..Len(less) : less[j] = kids[IF j < i THEN j ELSE j + 1]
  <2> DEFINE a == SubSeq(kids, 1, i - 1)
             b == SubSeq(kids, i + 1, Len(kids))
  <2>1. /\ a \in Seq(Addr) /\ Len(a) = i - 1
        /\ \A j \in 1..(i - 1) : a[j] = kids[j]
    BY <1>1
  <2>2. /\ b \in Seq(Addr) /\ Len(b) = Len(kids) - i
        /\ \A j \in 1..(Len(kids) - i) : b[j] = kids[i + j]
    BY <1>1
  <2>3. less = a \o b
    BY <1>2 DEF RemoveAt
  <2> HIDE DEF a, b
  <2>4. less \in Seq(Addr) /\ Len(less) = Len(kids) - 1
    BY <1>1, <2>1, <2>2, <2>3
  <2>5. ASSUME NEW j \in 1..Len(less) PROVE less[j] = kids[IF j < i THEN j ELSE j + 1]
    <3>1. CASE j < i
      BY <1>1, <2>1, <2>2, <2>3, <2>4, <3>1
    <3>2. CASE ~(j < i)
      <4>1. j - Len(a) \in 1..(Len(kids) - i) /\ i + (j - Len(a)) = j + 1
        BY <1>1, <2>1, <2>4, <3>2
      <4>2. j \in 1..(Len(a) + Len(b)) /\ ~(j <= Len(a))
        BY <1>1, <2>1, <2>2, <2>4, <3>2
      <4>3. \A k \in 1..(Len(a) + Len(b)) :
               (a \o b)[k] = IF k <= Len(a) THEN a[k] ELSE b[k - Len(a)]
        BY <2>1, <2>2, ConcatProperties
      <4>4. (a \o b)[j] = b[j - Len(a)]
        BY <4>2, <4>3
      <4> QED
        BY <2>2, <2>3, <3>2, <4>1, <4>4
    <3> QED
      BY <3>1, <3>2
  <2> QED
    BY <2>4, <2>5
<1>4. DOMAIN less = 1..(Len(kids) - 1) /\ DOMAIN kids = 1..Len(kids)
  BY <1>3
<1>5. \A j \in 1..(Len(kids) - 1) : (IF j < i THEN j ELSE j + 1) \in (1..Len(kids)) \ {i}
  BY <1>1
<1>6. \A j \in (1..Len(kids)) \ {i} : (IF j < i THEN j ELSE j - 1) \in 1..(Len(kids) - 1)
  BY <1>1
<1>7. ASSUME NEW j \in (1..Len(kids)) \ {i}
      PROVE  less[IF j < i THEN j ELSE j - 1] = kids[j]
  <2>1. CASE j < i
    BY <1>1, <1>3, <2>1
  <2>2. CASE ~(j < i)
    <3>1. j - 1 \in 1..Len(less) /\ ~(j - 1 < i) /\ (j - 1) + 1 = j
      BY <1>1, <1>3, <2>2
    <3>2. less[j - 1] = kids[j]
      BY <1>3, <3>1
    <3> QED
      BY <2>2, <3>2
  <2> QED
    BY <2>1, <2>2
<1> QED
  BY <1>3, <1>4, <1>5, <1>6, <1>7

\* A directory's children after n is gone: the same ones but n, each once.
LEMMA UnlinkGood ==
    ASSUME NEW s, Good(s), NEW n \in Nodes(s), n # Root, n # s.cwd, s.node[n].kids = <<>>
    PROVE  LET t == Unlink(s, n)
           IN  /\ Good(t) /\ Nodes(t) = Nodes(s) \ {n} /\ t.cwd = s.cwd
<1> DEFINE t == Unlink(s, n)
           d == s.node[n].parent
           old == s.node[d].kids
           kids == t.node[d].kids
           rest == RemoveFirst(old, n)
<1>1. d \in Nodes(s) /\ d # n /\ s.node[d].dir
  BY DEF Good, Linked
<1>2. PICK i \in DOMAIN old : old[i] = n
  BY DEF Good, Linked
<1>3. /\ \A j, k \in DOMAIN old : old[j] = old[k] => j = k
      /\ \A j \in DOMAIN old : old[j] \in Nodes(s) \ {Root} /\ s.node[old[j]].parent = d
  BY <1>1 DEF Good, Linked
<1>4. s.node[d] \in NodeType /\ old \in Seq(Addr)
  BY <1>1 DEF Good, TypeOf, NodeType
<1>5. s = [node |-> s.node, cwd |-> s.cwd, count |-> s.count]
  BY DEF Good, TypeOf
<1> DEFINE node == [m \in Nodes(s) \ {n} |->
                      IF m = d THEN [s.node[d] EXCEPT !.kids = RemoveFirst(@, n)] ELSE s.node[m]]
<1>6. t = [node |-> node, cwd |-> s.cwd, count |-> s.count - 1]
  <2>1. t = [s EXCEPT !.node = node, !.count = @ - 1]
    BY DEF Unlink, Nodes
  <2> HIDE DEF t, node
  <2> QED
    BY <1>5, <2>1
<1> HIDE DEF t
<1>7. /\ Nodes(t) = Nodes(s) \ {n} /\ t.cwd = s.cwd /\ t.count = s.count - 1
      /\ t.node = [m \in Nodes(t) |-> t.node[m]]
      /\ t.node[d] = [s.node[d] EXCEPT !.kids = rest]
      /\ \A m \in Nodes(t) \ {d} : t.node[m] = s.node[m]
  BY <1>1, <1>6 DEF Nodes
<1>8. /\ kids = rest
      /\ t.node[d].name = s.node[d].name
      /\ t.node[d].dir = s.node[d].dir
      /\ t.node[d].parent = s.node[d].parent
      /\ t.node[d].data = s.node[d].data
      /\ t.node[d].cap = s.node[d].cap
  BY <1>4, <1>7 DEF NodeType
<1>9. \A m \in Nodes(t) :
         /\ m \in Nodes(s) /\ m # n
         /\ t.node[m].dir = s.node[m].dir
         /\ t.node[m].parent = s.node[m].parent
         /\ t.node[m].data = s.node[m].data
         /\ t.node[m].cap = s.node[m].cap
         /\ m # d => t.node[m].kids = s.node[m].kids
  <2> SUFFICES ASSUME NEW m \in Nodes(t)
               PROVE  m \in Nodes(s) /\ m # n /\ (m = d \/ t.node[m] = s.node[m])
    BY <1>8
  <2> QED
    BY <1>7
<1>10. /\ kids \in Seq(Addr)
       /\ DOMAIN kids = 1..(Len(old) - 1)
       /\ \A j \in DOMAIN kids : /\ (IF j < i THEN j ELSE j + 1) \in DOMAIN old \ {i}
                                 /\ kids[j] = old[IF j < i THEN j ELSE j + 1]
       /\ \A j \in DOMAIN old \ {i} : /\ (IF j < i THEN j ELSE j - 1) \in DOMAIN kids
                                      /\ kids[IF j < i THEN j ELSE j - 1] = old[j]
  <2>1. kids = RemoveFirst(old, old[i])
    BY <1>2, <1>8
  <2> HIDE DEF kids, old, rest
  <2> QED
    BY <1>2, <1>3, <1>4, <2>1, RemoveOne
<1> HIDE DEF kids, rest
<1>11. TypeOf(t)
  <2>1. t = [node |-> t.node, cwd |-> t.cwd, count |-> t.count]
    BY <1>6
  <2>2. t.node[d] \in NodeType
    BY <1>4, <1>7, <1>8, <1>10 DEF NodeType, kids
  <2>3. \A m \in Nodes(t) : t.node[m] \in NodeType
    BY <1>7, <2>2 DEF Good, TypeOf
  <2> QED
    BY <1>7, <1>9, <2>1, <2>3 DEF Good, TypeOf
<1>12. Linked(t)
  <2>1. ASSUME NEW m \in Nodes(t) \ {Root}
        PROVE  /\ t.node[m].parent \in Nodes(t)
               /\ t.node[t.node[m].parent].dir
               /\ \E j \in DOMAIN t.node[t.node[m].parent].kids :
                     t.node[t.node[m].parent].kids[j] = m
    <3> DEFINE e == s.node[m].parent
    <3>1. m \in Nodes(s) \ {Root} /\ m # n /\ t.node[m].parent = e
      BY <1>9
    <3>2. e \in Nodes(s) /\ s.node[e].dir
      BY <3>1 DEF Good, Linked
    <3>3. PICK j \in DOMAIN s.node[e].kids : s.node[e].kids[j] = m
      BY <3>1 DEF Good, Linked
    <3> HIDE DEF e
    <3>4. e # n
      BY <3>3
    <3>5. \E k \in DOMAIN t.node[e].kids : t.node[e].kids[k] = m
      <4>1. CASE e = d
        <5>1. j \in DOMAIN old \ {i} /\ old[j] = m
          BY <1>2, <3>1, <3>3, <4>1
        <5> HIDE DEF old
        <5>2. \E k \in DOMAIN kids : kids[k] = m
          BY <1>10, <5>1
        <5> QED
          BY <4>1, <5>2 DEF kids
      <4>2. CASE e # d
        BY <1>7, <1>9, <3>2, <3>3, <3>4, <4>2
      <4> QED
        BY <4>1, <4>2
    <3>6. e \in Nodes(t) /\ t.node[e].dir
      BY <1>7, <1>9, <3>2, <3>4
    <3> QED
      BY <3>1, <3>5, <3>6
  <2>2. ASSUME NEW e \in Nodes(t), NEW j \in DOMAIN t.node[e].kids
        PROVE  /\ t.node[e].kids[j] \in Nodes(t) \ {Root}
               /\ t.node[t.node[e].kids[j]].parent = e
               /\ \A k \in DOMAIN t.node[e].kids :
                     t.node[e].kids[k] = t.node[e].kids[j] => k = j
    <3>1. CASE e = d
      <4>1. j \in DOMAIN kids
        BY <3>1 DEF kids
      <4>2. \A k \in DOMAIN kids : k \in Int
        <5>1. DOMAIN kids = 1..(Len(old) - 1)
          BY <1>10, Zenon
        <5> HIDE DEF old
        <5> QED
          BY <5>1
      <4>3. i \in Int
        <5> HIDE DEF old
        <5> QED
          BY <1>4
      <4> DEFINE at(k) == IF k < i THEN k ELSE k + 1
      <4>4. \A k \in DOMAIN kids : at(k) \in DOMAIN old \ {i} /\ kids[k] = old[at(k)]
        BY <1>10
      <4> HIDE DEF old
      <4>5. \A k \in DOMAIN kids : kids[k] = kids[j] => at(k) = at(j)
        <5> HIDE DEF at
        <5> QED
          BY <1>3, <4>1, <4>4
      <4>6. \A k \in DOMAIN kids : at(k) = at(j) => k = j
        BY <4>1, <4>2, <4>3, SMTT(30)
      <4>7. kids[j] \in Nodes(s) \ {Root} /\ kids[j] # n /\ s.node[kids[j]].parent = d
        <5> HIDE DEF at
        <5> QED
          BY <1>2, <1>3, <4>1, <4>4
      <4>8. kids[j] \in Nodes(t) \ {Root} /\ t.node[kids[j]].parent = d
        BY <1>7, <1>9, <4>7
      <4> QED
        BY <3>1, <4>5, <4>6, <4>8 DEF kids
    <3>2. CASE e # d
      <4>1. e \in Nodes(s) /\ t.node[e].kids = s.node[e].kids
        BY <1>9, <3>2
      <4>2. /\ s.node[e].kids[j] \in Nodes(s) \ {Root}
            /\ s.node[s.node[e].kids[j]].parent = e
            /\ \A k \in DOMAIN s.node[e].kids : s.node[e].kids[k] = s.node[e].kids[j] => k = j
        BY <4>1 DEF Good, Linked
      <4>3. s.node[e].kids[j] # n
        BY <3>2, <4>2
      <4> QED
        <5>1. s.node[e].kids[j] \in Nodes(t)
          BY <1>7, <4>2, <4>3
        <5>2. t.node[s.node[e].kids[j]].parent = e
          BY <1>9, <4>2, <5>1
        <5> QED
          BY <4>1, <4>2, <5>1, <5>2
    <3> QED
      BY <3>1, <3>2
  <2>3. \A m \in Nodes(t) : ~t.node[m].dir => t.node[m].kids = <<>>
    <3>1. t.node[d].dir
      BY <1>1, <1>8
    <3> QED
      BY <1>9, <3>1 DEF Good, Linked
  <2> QED
    BY <2>1, <2>2, <2>3 DEF Linked
<1>13. Ranked(t)
  <2>1. PICK r \in [Nodes(s) -> Nat] : Depth(s, r)
    BY DEF Good, Ranked
  <2> DEFINE q == [m \in Nodes(t) |-> r[m]]
  <2>2. q \in [Nodes(t) -> Nat] /\ \A m \in Nodes(t) : q[m] = r[m]
    BY <1>7
  <2> HIDE DEF q
  <2>3. q[Root] = 0
    BY <1>7, <2>1, <2>2 DEF Depth, Good, TypeOf
  <2>4. ASSUME NEW m \in Nodes(t) \ {Root} PROVE q[m] = q[t.node[m].parent] + 1
    <3>1. m \in Nodes(s) \ {Root} /\ t.node[m].parent = s.node[m].parent
      BY <1>9
    <3>2. t.node[m].parent \in Nodes(t)
      BY <1>12 DEF Linked
    <3> QED
      BY <2>1, <2>2, <3>1, <3>2 DEF Depth
  <2> QED
    BY <2>2, <2>3, <2>4 DEF Ranked, Depth
<1>14. Fits(t)
  <2> SUFFICES ASSUME NEW m \in Nodes(t), t.node[m].data # NoData
               PROVE  Len(TextOf(t, m)) + 1 <= t.node[m].cap
    BY DEF Fits
  <2>1. TextOf(t, m) = TextOf(s, m) /\ t.node[m].cap = s.node[m].cap
    BY <1>9 DEF TextOf
  <2> QED
    BY <1>9, <2>1 DEF Good, Fits
<1>15. t.cwd \in Nodes(t) /\ t.node[t.cwd].dir
  BY <1>7, <1>9 DEF Good
<1>16. t.count = Cardinality(Nodes(t))
  <2>1. Cardinality(Nodes(s) \ {n}) = Cardinality(Nodes(s)) - 1
    BY NodesFinite, FS_RemoveElement
  <2> QED
    BY <1>7, <2>1 DEF Good
<1> QED
  BY <1>7, <1>11, <1>12, <1>13, <1>14, <1>15, <1>16 DEF Good, t

\* What a command may do to the nodes: it may add some, and it may remove one that
\* had no children and is not the current directory.
Removes(s, t) ==
    /\ \A m, n \in Nodes(s) \ Nodes(t) : m = n
    /\ \A n \in Nodes(s) \ Nodes(t) : s.node[n].kids = <<>> /\ n # s.cwd

LEMMA GrowsRemoves == ASSUME NEW s, NEW t, Grows(s, t) PROVE Removes(s, t)
BY DEF Grows, Removes

\* fs_rm keeps the tree and removes a leaf or nothing.
LEMMA RmGood ==
    ASSUME NEW s, Good(s), NEW p \in PathType
    PROVE  LET t == Rm(s, p).s IN Good(t) /\ t.cwd = s.cwd /\ Removes(s, t)
<1> DEFINE n == Resolve(s, p)
<1>1. n \in Nodes(s) \cup {NULL}
  BY SplitParent, ResolveLive
<1> HIDE DEF n
<1>2. CASE n \in {NULL, Root, s.cwd} \/ (s.node[n].dir /\ s.node[n].kids # <<>>)
  <2>1. Rm(s, p).s = s
    BY <1>2 DEF Rm, Fail, n
  <2> QED
    BY <2>1 DEF Removes
<1>3. CASE ~(n \in {NULL, Root, s.cwd} \/ (s.node[n].dir /\ s.node[n].kids # <<>>))
  <2>1. n \in Nodes(s) /\ n # Root /\ n # s.cwd /\ s.node[n].kids = <<>>
    BY <1>1, <1>3 DEF Good, Linked
  <2>2. Rm(s, p).s = Unlink(s, n)
    BY <1>3 DEF Rm, Done, n
  <2> QED
    BY <2>1, <2>2, UnlinkGood DEF Removes
<1> QED
  BY <1>2, <1>3

\* fs_set_cwd keeps the tree: what it makes current is a directory.
LEMMA SetCwdGood ==
    ASSUME NEW s, Good(s), NEW p, Len(p.parts) \in Nat
    PROVE  LET t == SetCwd(s, p) IN Good(t) /\ Removes(s, t)
<1> DEFINE n == Resolve(s, p)
           t == SetCwd(s, p)
<1>1. n \in Nodes(s) \cup {NULL}
  BY ResolveLive
<1>2. CASE IsDir(s, n)
  <2>1. s = [node |-> s.node, cwd |-> s.cwd, count |-> s.count]
    BY DEF Good, TypeOf
  <2>2. t = [s EXCEPT !.cwd = n]
    BY <1>2 DEF SetCwd
  <2> HIDE DEF n, t
  <2>3. t = [node |-> s.node, cwd |-> n, count |-> s.count]
    BY <2>1, <2>2
  <2>4. t.node = s.node /\ t.cwd = n /\ t.count = s.count /\ Nodes(t) = Nodes(s)
    BY <2>3 DEF Nodes
  <2>5. n \in Nodes(t) /\ t.node[n].dir
    BY <1>1, <1>2, <2>4 DEF IsDir
  <2>6. TypeOf(t)
    BY <2>3, <2>4 DEF Good, TypeOf
  <2>7. Linked(t)
    BY <2>4, SameLinked DEF Good
  <2>8. Ranked(t)
    BY <2>4, SameRanked DEF Good
  <2>9. Fits(t)
    <3>1. \A m \in Nodes(t) : TextOf(t, m) = TextOf(s, m)
      BY <2>4 DEF TextOf
    <3> QED
      BY <2>4, <3>1 DEF Good, Fits
  <2> QED
    BY <2>4, <2>5, <2>6, <2>7, <2>8, <2>9 DEF Good, Removes, t
<1>3. CASE ~IsDir(s, n)
  BY <1>3 DEF SetCwd, Removes
<1> QED
  BY <1>2, <1>3

\* What fs_cwd_str prints is a list.
LEMMA CwdPartsList ==
    ASSUME NEW s
    PROVE  \E d \in Nat : \E f : CwdParts(s) = [i \in 1..d |-> f[i]]
<1> DEFINE up == CHOOSE g : g = [i \in 0..MaxNodes |->
                                   IF i = 0 THEN s.cwd ELSE s.node[g[i - 1]].parent]
           below == {i \in 0..MaxNodes : up[i] # Root}
           depth == IF Cardinality(below) < PartsCap THEN Cardinality(below) ELSE PartsCap
           names == [i \in 1..depth |-> s.node[up[depth - i]].name]
<1>1. CwdParts(s) = names
  BY DEF CwdParts
<1> HIDE DEF up
<1>2. IsFiniteSet(below)
  <2>1. IsFiniteSet(0..MaxNodes)
    BY ShellAssumption, FS_Interval
  <2>2. below \in SUBSET (0..MaxNodes)
    OBVIOUS
  <2> QED
    BY <2>1, <2>2, FS_Subset
<1>3. depth \in Nat
  <2> HIDE DEF below
  <2> QED
    BY <1>2, FS_CardinalityType, ShellAssumption
<1> HIDE DEF depth
<1>4. names = [i \in 1..depth |-> names[i]]
  OBVIOUS
<1> HIDE DEF names
<1> QED
  BY <1>1, <1>3, <1>4

\* A path can begin with it.
LEMMA CwdPartsSeq ==
    ASSUME NEW s, NEW parts \in Seq(Names)
    PROVE  Len(CwdParts(s) \o parts) \in Nat
<1>1. PICK d \in Nat : \E f : CwdParts(s) = [i \in 1..d |-> f[i]]
  BY CwdPartsList
<1>2. PICK f : CwdParts(s) = [i \in 1..d |-> f[i]]
  BY <1>1
<1> DEFINE S == {f[i] : i \in 1..d} \cup Names
<1>3. CwdParts(s) \in Seq(S) /\ parts \in Seq(S)
  BY <1>2
<1> HIDE DEF S
<1> QED
  BY <1>3

-----------------------------------------------------------------------------
(* What the calls leave alone: they work on one name of one directory. *)

\* A node of that name in directory d.
There(s, n, d, name) == n # Root /\ s.node[n].name = name /\ s.node[n].parent = d

\* A node without the list of its children, if it is d.
Apart(s, n, d) == IF n = d THEN [s.node[n] EXCEPT !.kids = <<>>] ELSE s.node[n]

\* A call that adds or overwrites the name in d, and no other node.
Adds(s, t, d, name) ==
    /\ Nodes(s) \subseteq Nodes(t) /\ t.cwd = s.cwd
    /\ \A n \in Nodes(s) : /\ There(s, n, d, name) \/ Apart(t, n, d) = Apart(s, n, d)
                           /\ t.node[n].name = s.node[n].name
                           /\ t.node[n].parent = s.node[n].parent
    /\ \A n \in Nodes(t) \ Nodes(s) : There(t, n, d, name)
    /\ \E n \in Nodes(t) : There(t, n, d, name)

LEMMA AddsOn ==
    ASSUME NEW s, NEW t, NEW u, NEW d, NEW name, Adds(s, t, d, name), Adds(t, u, d, name)
    PROVE  Adds(s, u, d, name)
<1>1. Nodes(s) \subseteq Nodes(u) /\ u.cwd = s.cwd /\ \E n \in Nodes(u) : There(u, n, d, name)
  BY DEF Adds
<1>2. ASSUME NEW n \in Nodes(s)
      PROVE  /\ There(s, n, d, name) \/ Apart(u, n, d) = Apart(s, n, d)
             /\ u.node[n].name = s.node[n].name
             /\ u.node[n].parent = s.node[n].parent
  BY DEF Adds, There
<1>3. ASSUME NEW n \in Nodes(u) \ Nodes(s) PROVE There(u, n, d, name)
  BY DEF Adds, There
<1> QED
  BY <1>1, <1>2, <1>3 DEF Adds

\* The record of a node decides what it is apart from its children.
LEMMA ApartKids ==
    ASSUME NEW x \in NodeType, NEW kids
    PROVE  [[x EXCEPT !.kids = kids] EXCEPT !.kids = <<>>] = [x EXCEPT !.kids = <<>>]
BY DEF NodeType

\* new_node and attach: one node more, first among the children of d.
Created(s, t, n, d, name) ==
    /\ Adds(s, t, d, name)
    /\ There(t, n, d, name)
    /\ t.node[d].dir <=> s.node[d].dir
    /\ t.node[d].kids = <<n>> \o s.node[d].kids
    /\ \A m \in Nodes(s) \ {d} : t.node[m] = s.node[m]

LEMMA CreateAdds ==
    ASSUME NEW s, Good(s), NEW d \in Nodes(s), NEW name, NEW isDir \in BOOLEAN,
           Fresh(s) # NULL
    PROVE  Created(s, Create(s, name, isDir, d).s, Fresh(s), d, name)
<1> DEFINE t == Create(s, name, isDir, d).s
           n == Fresh(s)
           new == [name |-> name, dir |-> isDir, parent |-> d, kids |-> <<>>,
                   data |-> NoData, cap |-> 0]
           node == [m \in Nodes(s) \cup {n} |->
                      IF m = n THEN new
                      ELSE IF m = d THEN [s.node[d] EXCEPT !.kids = <<n>> \o @]
                      ELSE s.node[m]]
<1>1. n \in Addr \ Nodes(s)
  BY FreshFree
<1>2. s = [node |-> s.node, cwd |-> s.cwd, count |-> s.count]
  BY DEF Good, TypeOf
<1>3. t = [node |-> node, cwd |-> s.cwd, count |-> s.count + 1]
  <2> HIDE DEF node
  <2> QED
    BY <1>2 DEF Create, Done, Nodes, node
<1>4. Nodes(t) = Nodes(s) \cup {n} /\ t.node = node /\ t.cwd = s.cwd
  BY <1>3 DEF Nodes
<1>5. /\ t.node[n] = new
      /\ \A m \in Nodes(s) \ {d} : t.node[m] = s.node[m]
      /\ t.node[d] = [s.node[d] EXCEPT !.kids = <<n>> \o @]
  BY <1>1, <1>4
<1>6. s.node[d] \in NodeType
  BY DEF Good, TypeOf
<1>7. /\ t.node[d].name = s.node[d].name
      /\ t.node[d].parent = s.node[d].parent
      /\ t.node[d].data = s.node[d].data
      /\ t.node[d].dir = s.node[d].dir
      /\ t.node[d].kids = <<n>> \o s.node[d].kids
      /\ [t.node[d] EXCEPT !.kids = <<>>] = [s.node[d] EXCEPT !.kids = <<>>]
  <2> DEFINE x == s.node[d]
             y == t.node[d]
             k == <<n>> \o x.kids
  <2>1. x \in NodeType /\ y = [x EXCEPT !.kids = k]
    BY <1>5, <1>6
  <2> HIDE DEF x, y, n, t, new, node, k
  <2>2. y.name = x.name /\ y.parent = x.parent /\ y.data = x.data /\ y.dir = x.dir /\ y.kids = k
    BY <2>1, KidsOnly
  <2>3. [y EXCEPT !.kids = <<>>] = [x EXCEPT !.kids = <<>>]
    BY <2>1, ApartKids
  <2> QED
    BY <2>2, <2>3 DEF x, y, k
<1>8. t.node[n].name = name /\ t.node[n].parent = d /\ t.node[n].data = NoData
  BY <1>5
<1> HIDE DEF t, new, node, n
<1>9. There(t, n, d, name)
  <2>1. n # Root
    BY <1>1 DEF Good, TypeOf
  <2> QED
    BY <1>8, <2>1 DEF There
<1>10. \A m \in Nodes(s) : /\ Apart(t, m, d) = Apart(s, m, d)
                           /\ t.node[m].name = s.node[m].name
                           /\ t.node[m].parent = s.node[m].parent
                           /\ t.node[m].data = s.node[m].data
  BY <1>5, <1>7 DEF Apart
<1>11. Adds(s, t, d, name)
  BY <1>4, <1>9, <1>10 DEF Adds
<1> QED
  BY <1>5, <1>7, <1>9, <1>11 DEF Created, t, n

\* Another buffer changes one node, of which the name and the place stay.
LEMMA BufferOnly ==
    ASSUME NEW s, Good(s), NEW n \in Nodes(s), NEW data, NEW cap
    PROVE  LET t == SetBuffer(s, n, data, cap)
           IN  /\ Nodes(t) = Nodes(s) /\ t.cwd = s.cwd
               /\ \A m \in Nodes(s) \ {n} : t.node[m] = s.node[m]
               /\ t.node[n].name = s.node[n].name /\ t.node[n].parent = s.node[n].parent
               /\ t.node[n].data = data
<1> DEFINE t == SetBuffer(s, n, data, cap)
           new == [s.node[n] EXCEPT !.data = data, !.cap = cap]
<1>1. s = [node |-> s.node, cwd |-> s.cwd, count |-> s.count]
  BY DEF Good, TypeOf
<1>2. s.node = [m \in Nodes(s) |-> s.node[m]] /\ s.node[n] \in NodeType
  BY DEF Good, TypeOf
<1>3. t = [node |-> [s.node EXCEPT ![n] = new], cwd |-> s.cwd, count |-> s.count]
  BY <1>1 DEF SetBuffer
<1>4. new.name = s.node[n].name /\ new.parent = s.node[n].parent /\ new.data = data
  BY <1>2 DEF NodeType
<1> HIDE DEF t, new
<1>5. /\ Nodes(t) = Nodes(s) /\ t.cwd = s.cwd
      /\ t.node[n] = new
      /\ \A m \in Nodes(s) \ {n} : t.node[m] = s.node[m]
  BY <1>2, <1>3 DEF Nodes
<1> QED
  BY <1>4, <1>5 DEF t

LEMMA BufferAdds ==
    ASSUME NEW s, Good(s), NEW n \in Nodes(s), NEW data, NEW cap, NEW d, NEW name,
           There(s, n, d, name)
    PROVE  Adds(s, SetBuffer(s, n, data, cap), d, name)
<1> DEFINE t == SetBuffer(s, n, data, cap)
<1>1. /\ Nodes(t) = Nodes(s) /\ t.cwd = s.cwd
      /\ \A m \in Nodes(s) \ {n} : t.node[m] = s.node[m]
      /\ t.node[n].name = s.node[n].name /\ t.node[n].parent = s.node[n].parent
  BY BufferOnly
<1> HIDE DEF t
<1>2. There(t, n, d, name)
  BY <1>1 DEF There
<1>3. \A m \in Nodes(s) : There(s, m, d, name) \/ Apart(t, m, d) = Apart(s, m, d)
  BY <1>1 DEF Apart
<1> QED
  BY <1>1, <1>2, <1>3 DEF Adds, t

\* Where fs_mkdir and fs_touch create.
Creates(s, t, p, isDir) ==
    \E d \in Nodes(s) : /\ s.node[d].dir /\ Fresh(s) # NULL
                        /\ t = Create(s, Base(p), isDir, d).s
                        /\ HasSlash(p) => d = Resolve(s, DirPart(p))

LEMMA MkdirCreates ==
    ASSUME NEW s, Good(s), NEW p \in PathType
    PROVE  Mkdir(s, p).s = s \/ Creates(s, Mkdir(s, p).s, p, TRUE)
<1> DEFINE d == Resolve(s, DirPart(p))
           make(e) == Create(s, Base(p), TRUE, e)
<1>1. CASE Fresh(s) = NULL
  <2>1. \A e : make(e).s = s
    BY <1>1 DEF Create, Fail
  <2> HIDE DEF make
  <2>2. Mkdir(s, p).s = s \/ \E e : Mkdir(s, p).s = make(e).s
    BY DEF Mkdir, Fail, make
  <2> QED
    BY <2>1, <2>2
<1>2. CASE Fresh(s) # NULL /\ p # EmptyPath /\ ~HasSlash(p)
  <2>1. s.cwd \in Nodes(s) /\ s.node[s.cwd].dir
    BY DEF Good
  <2> HIDE DEF make
  <2>2. Mkdir(s, p).s = s \/ Mkdir(s, p).s = make(s.cwd).s
    BY <1>2 DEF Mkdir, Fail, make
  <2> QED
    BY <1>2, <2>1, <2>2 DEF Creates, make
<1>3. CASE Fresh(s) # NULL /\ (p = EmptyPath \/ HasSlash(p))
  <2>1. d \in Nodes(s) \cup {NULL}
    BY SplitParent, ResolveLive
  <2> HIDE DEF make, d
  <2>2. Mkdir(s, p).s = s \/ (HasSlash(p) /\ IsDir(s, d) /\ Mkdir(s, p).s = make(d).s)
    BY <1>3 DEF Mkdir, Fail, make, d
  <2> QED
    BY <1>3, <2>1, <2>2 DEF Creates, make, d, IsDir
<1> QED
  BY <1>1, <1>2, <1>3

LEMMA TouchCreates ==
    ASSUME NEW s, Good(s), NEW p \in PathType
    PROVE  \/ Touch(s, p).s = s
           \/ Resolve(s, p) = NULL /\ Creates(s, Touch(s, p).s, p, FALSE)
<1> DEFINE d == Resolve(s, DirPart(p))
           make(e) == Create(s, Base(p), FALSE, e)
<1>0. CASE Resolve(s, p) # NULL
  BY <1>0 DEF Touch, Done, Fail
<1>1. CASE Fresh(s) = NULL
  <2>1. \A e : make(e).s = s
    BY <1>1 DEF Create, Fail
  <2> HIDE DEF make
  <2>2. Touch(s, p).s = s \/ \E e : Touch(s, p).s = make(e).s
    BY DEF Touch, Fail, Done, make
  <2> QED
    BY <2>1, <2>2
<1>2. CASE Resolve(s, p) = NULL /\ Fresh(s) # NULL /\ p # EmptyPath /\ ~HasSlash(p)
  <2>1. s.cwd \in Nodes(s) /\ s.node[s.cwd].dir
    BY DEF Good
  <2> HIDE DEF make
  <2>2. Touch(s, p).s = make(s.cwd).s
    BY <1>2 DEF Touch, make
  <2> QED
    BY <1>2, <2>1, <2>2 DEF Creates, make
<1>3. CASE Resolve(s, p) = NULL /\ Fresh(s) # NULL /\ (p = EmptyPath \/ HasSlash(p))
  <2>1. d \in Nodes(s) \cup {NULL}
    BY SplitParent, ResolveLive
  <2> HIDE DEF make, d
  <2>2. Touch(s, p).s = s \/ (HasSlash(p) /\ IsDir(s, d) /\ Touch(s, p).s = make(d).s)
    BY <1>3 DEF Touch, Fail, make, d
  <2> QED
    BY <1>3, <2>1, <2>2 DEF Creates, make, d, IsDir
<1> QED
  BY <1>0, <1>1, <1>2, <1>3

\* How fs_write_file ends: in a failure of fs_touch or of the second lookup, or
\* with one node's buffer changed.
LEMMA WriteEnds ==
    ASSUME NEW s, Good(s), NEW p \in PathType, NEW text, NEW room \in BOOLEAN
    PROVE  LET t == IF Resolve(s, p) # NULL THEN Done(s) ELSE Touch(s, p)
               n == Resolve(t.s, p)
               r == WriteFile(s, p, text, room)
           IN  /\ Good(t.s)
               /\ \/ r.s = t.s /\ r.rc = -1
                  \/ /\ n \in Nodes(t.s) /\ ~t.s.node[n].dir /\ r = StoreText(t.s, n, text, room)
                     /\ \E data \in {NoData, <<text>>} : \E cap :
                           r.s = SetBuffer(t.s, n, data, cap)
<1> DEFINE t == IF Resolve(s, p) # NULL THEN Done(s) ELSE Touch(s, p)
           n == Resolve(t.s, p)
           r == WriteFile(s, p, text, room)
<1>1. Good(t.s)
  BY TouchGood DEF Done
<1>2. Len(p.parts) \in Nat
  BY SplitParent
<1>3. n \in Nodes(t.s) \cup {NULL}
  <2> HIDE DEF t
  <2> QED
    BY <1>1, <1>2, ResolveLive
<1>4. r = IF t.rc # 0 \/ n = NULL \/ IsDir(t.s, n) THEN Fail(t.s)
          ELSE StoreText(t.s, n, text, room)
  BY DEF WriteFile
<1> HIDE DEF t, n, r
<1>5. CASE t.rc # 0 \/ n = NULL \/ IsDir(t.s, n)
  <2>1. r.s = t.s /\ r.rc = -1
    BY <1>4, <1>5 DEF Fail
  <2> QED
    BY <1>1, <2>1 DEF t, r
<1>6. CASE ~(t.rc # 0 \/ n = NULL \/ IsDir(t.s, n))
  <2>1. n \in Nodes(t.s) /\ ~t.s.node[n].dir /\ r = StoreText(t.s, n, text, room)
    BY <1>3, <1>4, <1>6 DEF IsDir
  <2>2. \E data \in {NoData, <<text>>} : \E cap : r.s = SetBuffer(t.s, n, data, cap)
    BY <2>1 DEF StoreText, Done, Fail
  <2> QED
    BY <1>1, <2>1, <2>2 DEF t, n, r
<1> QED
  BY <1>5, <1>6

\* Unlinking n leaves every other node as it is, its parent apart from its children.
LEMMA UnlinkTakes ==
    ASSUME NEW s, Good(s), NEW n \in Nodes(s), n # Root
    PROVE  LET t == Unlink(s, n)
               d == s.node[n].parent
           IN  /\ Nodes(t) = Nodes(s) \ {n} /\ t.cwd = s.cwd
               /\ \A m \in Nodes(t) : Apart(t, m, d) = Apart(s, m, d)
<1> DEFINE t == Unlink(s, n)
           d == s.node[n].parent
           rest == RemoveFirst(s.node[d].kids, n)
           node == [m \in Nodes(s) \ {n} |->
                      IF m = d THEN [s.node[d] EXCEPT !.kids = RemoveFirst(@, n)] ELSE s.node[m]]
<1>1. d \in Nodes(s)
  BY DEF Good, Linked
<1>2. s.node[d] \in NodeType
  BY <1>1 DEF Good, TypeOf
<1>3. s = [node |-> s.node, cwd |-> s.cwd, count |-> s.count]
  BY DEF Good, TypeOf
<1>4. t = [node |-> node, cwd |-> s.cwd, count |-> s.count - 1]
  <2>1. t = [s EXCEPT !.node = node, !.count = @ - 1]
    BY DEF Unlink, Nodes
  <2> HIDE DEF t, node
  <2> QED
    BY <1>3, <2>1
<1> HIDE DEF t
<1>5. /\ Nodes(t) = Nodes(s) \ {n} /\ t.cwd = s.cwd
      /\ \A m \in Nodes(t) : m # d => t.node[m] = s.node[m]
      /\ d \in Nodes(t) => t.node[d] = [s.node[d] EXCEPT !.kids = rest]
  BY <1>4 DEF Nodes
<1> HIDE DEF d, rest, node
<1>6. ASSUME d \in Nodes(t)
      PROVE  /\ t.node[d].data = s.node[d].data
             /\ [t.node[d] EXCEPT !.kids = <<>>] = [s.node[d] EXCEPT !.kids = <<>>]
  <2> DEFINE x == s.node[d]
             y == t.node[d]
  <2>1. x \in NodeType /\ y = [x EXCEPT !.kids = rest]
    BY <1>2, <1>5, <1>6
  <2> HIDE DEF x, y
  <2>2. y.data = x.data
    BY <2>1, KidsOnly
  <2>3. [y EXCEPT !.kids = <<>>] = [x EXCEPT !.kids = <<>>]
    BY <2>1, ApartKids
  <2> QED
    BY <2>2, <2>3 DEF x, y
<1>7. \A m \in Nodes(t) : Apart(t, m, d) = Apart(s, m, d)
  BY <1>5, <1>6 DEF Apart
<1> QED
  BY <1>5, <1>7 DEF t, d

\* A path with one component more leads one step further.
LEMMA ResolveStep ==
    ASSUME NEW s, Good(s), NEW q, NEW p, Len(q.parts) \in Nat,
           Len(p.parts) = Len(q.parts) + 1, p.abs, q.abs,
           \A i \in 1..Len(q.parts) : p.parts[i] = q.parts[i]
    PROVE  Resolve(s, p) = Follow(s, Resolve(s, q), p.parts[Len(p.parts)])
<1>1. PICK g : Run(s, q, g) /\ Resolve(s, q) = g[Len(q.parts)]
  BY ResolveRuns
<1>2. PICK h : Run(s, p, h) /\ Resolve(s, p) = h[Len(p.parts)]
  BY ResolveRuns
<1> DEFINE P == {i \in Nat : i \in 0..Len(q.parts) => h[i] = g[i]}
<1>3. 0 \in P
  BY <1>1, <1>2 DEF Run
<1>4. ASSUME NEW i \in Nat, i \in P PROVE i + 1 \in P
  <2> SUFFICES ASSUME i + 1 \in 0..Len(q.parts) PROVE h[i + 1] = g[i + 1]
    OBVIOUS
  <2>1. h[i] = g[i] /\ i + 1 \in 1..Len(q.parts) /\ i + 1 \in 1..Len(p.parts) /\ (i + 1) - 1 = i
    BY <1>4
  <2>2. g[i + 1] = Follow(s, g[i], q.parts[i + 1]) /\ h[i + 1] = Follow(s, h[i], p.parts[i + 1])
    BY <1>1, <1>2, <2>1 DEF Run
  <2> QED
    BY <2>1, <2>2
<1>5. Nat \subseteq P
  <2> HIDE DEF P
  <2> QED
    BY <1>3, <1>4, SetInduction
<1>6. h[Len(q.parts)] = g[Len(q.parts)]
  BY <1>5
<1>7. h[Len(p.parts)] = Follow(s, h[Len(q.parts)], p.parts[Len(p.parts)])
  <2>1. Len(p.parts) \in 1..Len(p.parts) /\ Len(p.parts) - 1 = Len(q.parts)
    OBVIOUS
  <2> QED
    BY <1>2, <2>1 DEF Run
<1> QED
  BY <1>1, <1>2, <1>6, <1>7

\* The directory part of an absolute path, and the name in it.
LEMMA LastStep ==
    ASSUME NEW s, Good(s), NEW p \in PathType, p.abs, p.parts # <<>>
    PROVE  /\ Resolve(s, p) = Follow(s, Resolve(s, DirPart(p)), Base(p))
           /\ Len(DirPart(p).parts) \in Nat
<1> DEFINE q == DirPart(p)
           N == Len(p.parts)
<1>1. p.parts \in Seq(Names) /\ N \in Nat \ {0} /\ Base(p) = p.parts[N]
  BY DEF PathType, Base, Last
<1>2. q.abs
  BY DEF DirPart, Path
<1>3. Len(q.parts) = N - 1
  BY <1>1 DEF DirPart, Path, Front
<1>4. \A i \in 1..(N - 1) : p.parts[i] = q.parts[i]
  <2>1. CASE N = 1
    BY <2>1
  <2>2. CASE N > 1
    BY <1>1, <2>2 DEF DirPart, Path, Front
  <2> QED
    BY <1>1, <2>1, <2>2
<1>5. Len(q.parts) \in Nat /\ Len(p.parts) = Len(q.parts) + 1
  BY <1>1, <1>3
<1>6. \A i \in 1..Len(q.parts) : p.parts[i] = q.parts[i]
  BY <1>3, <1>4
<1>7. Resolve(s, p) = Follow(s, Resolve(s, q), p.parts[Len(p.parts)])
  <2> HIDE DEF q
  <2> QED
    BY <1>2, <1>5, <1>6, ResolveStep
<1> QED
  BY <1>1, <1>5, <1>7

\* A name that is found is there.
LEMMA FoundThere ==
    ASSUME NEW s, Good(s), NEW d \in Nodes(s) \cup {NULL}, NEW name, name \notin {".", ".."},
           Follow(s, d, name) # NULL
    PROVE  LET n == Follow(s, d, name)
           IN  d \in Nodes(s) /\ s.node[d].dir /\ n \in Nodes(s) /\ There(s, n, d, name)
<1> DEFINE kids == s.node[d].kids
           hits == {i \in DOMAIN kids : s.node[kids[i]].name = name}
<1>1. d \in Nodes(s) /\ Follow(s, d, name) = FindChild(s, d, name)
  BY DEF Follow
<1>2. s.node[d].dir /\ hits # {} /\ FindChild(s, d, name) = kids[Min(hits)]
  BY <1>1 DEF FindChild
<1>3. hits \in SUBSET Nat
  <2>1. kids \in Seq(Addr)
    BY <1>1 DEF Good, TypeOf, NodeType
  <2> QED
    BY <2>1
<1>4. Min(hits) \in hits
  <2> HIDE DEF hits
  <2> QED
    BY <1>2, <1>3, LeastNat DEF Min
<1>5. kids[Min(hits)] \in Nodes(s) \ {Root} /\ s.node[kids[Min(hits)]].parent = d
  BY <1>1, <1>4 DEF Good, Linked
<1> QED
  BY <1>1, <1>2, <1>4, <1>5 DEF There

\* The least of the positions one further is one further.
LEMMA MinMoves ==
    ASSUME NEW A \in SUBSET Nat, NEW B \in SUBSET Nat, A # {},
           \A i \in A : i + 1 \in B, \A j \in B : j - 1 \in A
    PROVE  Min(B) = Min(A) + 1
<1>1. PICK a \in A : \A x \in A : a <= x
  BY LeastNat
<1>2. Min(A) \in A /\ \A x \in A : Min(A) <= x
  BY <1>1 DEF Min
<1>3. a + 1 \in B /\ \A y \in B : a + 1 <= y
  BY <1>1
<1>4. Min(B) \in B /\ \A y \in B : Min(B) <= y
  BY <1>3 DEF Min
<1>5. Min(A) = a
  <2>1. a \in Nat /\ Min(A) \in Nat /\ a <= Min(A) /\ Min(A) <= a
    BY <1>1, <1>2
  <2> HIDE DEF Min
  <2> QED
    BY <2>1
<1>6. Min(B) = a + 1
  <2>1. a + 1 \in Nat /\ Min(B) \in Nat /\ a + 1 <= Min(B) /\ Min(B) <= a + 1
    BY <1>3, <1>4
  <2> QED
    BY <2>1
<1> QED
  BY <1>5, <1>6

\* A new node hides no other name of its directory.
LEMMA FindBehind ==
    ASSUME NEW s, Good(s), NEW d \in Nodes(s), NEW name, NEW isDir \in BOOLEAN,
           Fresh(s) # NULL,
           NEW tok, tok # name
    PROVE  FindChild(Create(s, name, isDir, d).s, d, tok) = FindChild(s, d, tok)
<1> DEFINE t == Create(s, name, isDir, d).s
           n == Fresh(s)
           old == s.node[d].kids
           kids == t.node[d].kids
           A == {i \in DOMAIN old : s.node[old[i]].name = tok}
           B == {i \in DOMAIN kids : t.node[kids[i]].name = tok}
<1>1. /\ Adds(s, t, d, name) /\ There(t, n, d, name) /\ (t.node[d].dir <=> s.node[d].dir)
      /\ kids = <<n>> \o old
  BY CreateAdds DEF Created
<1>2. old \in Seq(Addr) /\ n \in Addr
  BY FreshFree DEF Good, TypeOf, NodeType
<1>3. \A i \in DOMAIN old : old[i] \in Nodes(s)
  BY DEF Good, Linked
<1> HIDE DEF t, n, old, kids
<1>4. /\ kids[1] = n
      /\ DOMAIN kids = 1..(Len(old) + 1)
      /\ \A i \in 1..(Len(old) + 1) : i = 1 \/ (i - 1 \in DOMAIN old /\ kids[i] = old[i - 1])
      /\ \A i \in DOMAIN old : i + 1 \in DOMAIN kids /\ kids[i + 1] = old[i]
  BY <1>1, <1>2, PushFront
<1>5. \A i \in DOMAIN old : t.node[old[i]].name = s.node[old[i]].name
  BY <1>1, <1>3 DEF Adds
<1>6. t.node[kids[1]].name # tok
  BY <1>1, <1>4 DEF There
<1>7. \A i \in A : i + 1 \in B
  BY <1>4, <1>5
<1>8. \A j \in B : j - 1 \in A /\ kids[j] = old[j - 1]
  BY <1>4, <1>5, <1>6
<1>9. A \in SUBSET Nat /\ B \in SUBSET Nat
  BY <1>2, <1>4
<1>10. /\ FindChild(t, d, tok) = IF ~t.node[d].dir \/ B = {} THEN NULL ELSE kids[Min(B)]
       /\ FindChild(s, d, tok) = IF ~s.node[d].dir \/ A = {} THEN NULL ELSE old[Min(A)]
  BY DEF FindChild, kids, old
<1> HIDE DEF A, B
<1>11. CASE A = {}
  <2>1. B = {}
    BY <1>8, <1>11
  <2>2. FindChild(t, d, tok) = FindChild(s, d, tok)
    BY <1>10, <1>11, <2>1
  <2> QED
    BY <2>2 DEF t
<1>12. CASE A # {}
  <2>1. Min(B) = Min(A) + 1
    BY <1>7, <1>8, <1>9, <1>12, MinMoves
  <2>2. Min(A) \in A
    BY <1>9, <1>12, LeastNat DEF Min
  <2>3. Min(B) \in B
    BY <1>7, <2>1, <2>2
  <2>4. Min(B) - 1 = Min(A)
    <3>1. Min(A) \in Nat
      BY <1>9, <2>2
    <3> QED
      BY <2>1, <3>1
  <2>5. kids[Min(B)] = old[Min(A)]
    BY <1>8, <2>3, <2>4
  <2>6. CASE s.node[d].dir
    <3>1. FindChild(t, d, tok) = kids[Min(B)] /\ FindChild(s, d, tok) = old[Min(A)]
      BY <1>1, <1>10, <1>12, <2>3, <2>6
    <3> QED
      BY <2>5, <3>1 DEF t
  <2>7. CASE ~s.node[d].dir
    <3>1. FindChild(t, d, tok) = NULL /\ FindChild(s, d, tok) = NULL
      BY <1>1, <1>10, <2>7
    <3> QED
      BY <3>1 DEF t
  <2> QED
    BY <2>6, <2>7
<1> QED
  BY <1>11, <1>12

\* A step of a path that leads somewhere leads there still when a name that was not
\* there has been created.
LEMMA FollowStays ==
    ASSUME NEW s, Good(s), NEW d \in Nodes(s), NEW name, NEW isDir \in BOOLEAN,
           Fresh(s) # NULL,
           FindChild(s, d, name) = NULL,
           NEW cur \in Nodes(s), NEW tok, Follow(s, cur, tok) # NULL
    PROVE  Follow(Create(s, name, isDir, d).s, cur, tok) = Follow(s, cur, tok)
<1> DEFINE t == Create(s, name, isDir, d).s
<1>0. Created(s, t, Fresh(s), d, name)
  BY CreateAdds
<1>1. Adds(s, t, d, name) /\ \A m \in Nodes(s) \ {d} : t.node[m] = s.node[m]
  BY <1>0 DEF Created
<1>2. \A m \in Nodes(s) : t.node[m].name = s.node[m].name /\ t.node[m].parent = s.node[m].parent
  BY <1>1 DEF Adds
<1>3. cur # NULL
  BY DEF Good, TypeOf, Addr, NULL
<1>4. CASE tok = "." \/ tok = ".."
  BY <1>2, <1>4 DEF Follow
<1>5. CASE tok # "." /\ tok # ".." /\ cur = d
  <2>1. tok # name
    BY <1>3, <1>5 DEF Follow
  <2> QED
    BY <1>3, <1>5, <2>1, FindBehind DEF Follow
<1>6. CASE tok # "." /\ tok # ".." /\ cur # d
  <2> DEFINE kids == s.node[cur].kids
  <2>1. t.node[cur] = s.node[cur]
    BY <1>1, <1>6
  <2>2. \A i \in DOMAIN kids : t.node[kids[i]].name = s.node[kids[i]].name
    BY <1>2 DEF Good, Linked
  <2> HIDE DEF t
  <2>3. {i \in DOMAIN kids : t.node[kids[i]].name = tok}
          = {i \in DOMAIN kids : s.node[kids[i]].name = tok}
    BY <2>2
  <2>4. FindChild(t, cur, tok) = FindChild(s, cur, tok)
    BY <2>1, <2>3 DEF FindChild
  <2> QED
    BY <1>3, <1>6, <2>4 DEF Follow, t
<1> QED
  BY <1>4, <1>5, <1>6

\* A directory is found where it was when a name that was not there has been
\* created in it.
LEMMA DirStays ==
    ASSUME NEW s, Good(s), NEW q, Len(q.parts) \in Nat, NEW d \in Nodes(s),
           d = Resolve(s, q), s.node[d].dir, NEW name \in Names, NEW isDir \in BOOLEAN,
           Fresh(s) # NULL, FindChild(s, d, name) = NULL
    PROVE  Resolve(Create(s, name, isDir, d).s, q) = d
<1> DEFINE t == Create(s, name, isDir, d).s
           N == Len(q.parts)
<1>1. Good(t) /\ t.cwd = s.cwd
  BY CreateGood DEF Grows
<1>2. PICK g : Run(s, q, g) /\ Resolve(s, q) = g[N]
  BY ResolveRuns
<1>3. PICK h : Run(t, q, h) /\ Resolve(t, q) = h[N]
  BY <1>1, ResolveRuns
<1>0. NULL \notin Nodes(s)
  BY DEF Good, TypeOf, Addr, NULL
<1>4. \A i \in 0..N : g[i] # NULL
  <2> DEFINE P == {j \in Nat : j \in 0..N => g[N - j] # NULL}
  <2>1. 0 \in P
    <3>1. g[N] # NULL
      BY <1>0, <1>2
    <3> QED
      BY <3>1
  <2>2. ASSUME NEW j \in Nat, j \in P PROVE j + 1 \in P
    <3> SUFFICES ASSUME j + 1 \in 0..N PROVE g[N - (j + 1)] # NULL
      OBVIOUS
    <3>1. g[N - j] # NULL
      BY <2>2
    <3>2. N - j \in 1..N /\ (N - j) - 1 = N - (j + 1)
      OBVIOUS
    <3>3. g[N - j] = Follow(s, g[N - (j + 1)], q.parts[N - j])
      BY <1>2, <3>2 DEF Run
    <3> QED
      BY <3>1, <3>3 DEF Follow
  <2>3. Nat \subseteq P
    <3> HIDE DEF P
    <3> QED
      BY <2>1, <2>2, SetInduction
  <2> SUFFICES ASSUME NEW i \in 0..N PROVE g[i] # NULL
    OBVIOUS
  <2>4. N - i \in P /\ N - i \in 0..N /\ N - (N - i) = i
    BY <2>3
  <2> QED
    BY <2>4
<1> DEFINE P == {i \in Nat : i \in 0..N => h[i] = g[i]}
<1>5. 0 \in P
  BY <1>1, <1>2, <1>3 DEF Run
<1>6. ASSUME NEW i \in Nat, i \in P PROVE i + 1 \in P
  <2> SUFFICES ASSUME i + 1 \in 0..N PROVE h[i + 1] = g[i + 1]
    OBVIOUS
  <2>1. h[i] = g[i] /\ i \in 0..N /\ i + 1 \in 1..N /\ (i + 1) - 1 = i
    BY <1>6
  <2>2. g[i + 1] = Follow(s, g[i], q.parts[i + 1]) /\ h[i + 1] = Follow(t, g[i], q.parts[i + 1])
    BY <1>2, <1>3, <2>1 DEF Run
  <2>3. g[i] \in Nodes(s) /\ g[i + 1] # NULL
    BY <1>2, <1>4, <2>1 DEF Run
  <2> QED
    BY <2>2, <2>3, FollowStays
<1>7. Nat \subseteq P
  <2> HIDE DEF P
  <2> QED
    BY <1>5, <1>6, SetInduction
<1> QED
  BY <1>2, <1>3, <1>7

\* fs_mkdir adds the name to the directory.
LEMMA MkdirAdds ==
    ASSUME NEW s, Good(s), NEW p \in PathType, HasSlash(p), Mkdir(s, p).s # s
    PROVE  LET d == Resolve(s, DirPart(p))
           IN  d \in Nodes(s) /\ Adds(s, Mkdir(s, p).s, d, Base(p))
<1>1. PICK d \in Nodes(s) : /\ Fresh(s) # NULL /\ d = Resolve(s, DirPart(p))
                            /\ Mkdir(s, p).s = Create(s, Base(p), TRUE, d).s
  BY MkdirCreates DEF Creates
<1>2. Created(s, Mkdir(s, p).s, Fresh(s), d, Base(p))
  BY <1>1, CreateAdds
<1> QED
  BY <1>1, <1>2 DEF Created

\* fs_touch adds the name to the directory, which is found where it was.
LEMMA TouchAdds ==
    ASSUME NEW s, Good(s), NEW p \in PathType, p.abs, p.parts # <<>>,
           Base(p) \notin {".", ".."}, Touch(s, p).s # s
    PROVE  LET d == Resolve(s, DirPart(p))
               t == Touch(s, p).s
           IN  /\ d \in Nodes(s) /\ Adds(s, t, d, Base(p)) /\ Resolve(t, DirPart(p)) = d
<1> DEFINE d == Resolve(s, DirPart(p))
           t == Touch(s, p).s
<1>1. /\ d \in Nodes(s) /\ s.node[d].dir /\ Fresh(s) # NULL /\ Resolve(s, p) = NULL
      /\ t = Create(s, Base(p), FALSE, d).s
  BY TouchCreates DEF Creates, HasSlash
<1>2. Adds(s, t, d, Base(p))
  <2> HIDE DEF t, d
  <2>1. Created(s, t, Fresh(s), d, Base(p))
    BY <1>1, CreateAdds
  <2> QED
    BY <2>1 DEF Created
<1>3. Base(p) \in Names
  BY SplitParent
<1>4. FindChild(s, d, Base(p)) = NULL
  <2>1. Follow(s, d, Base(p)) = NULL /\ d # NULL
    BY <1>1, LastStep DEF Good, TypeOf, Addr, NULL
  <2> HIDE DEF d
  <2> QED
    BY <2>1 DEF Follow
<1>5. Resolve(t, DirPart(p)) = d
  <2>1. Len(DirPart(p).parts) \in Nat
    BY SplitParent
  <2> QED
    BY <1>1, <1>3, <1>4, <2>1, DirStays, ZenonT(40)
<1> QED
  BY <1>1, <1>2, <1>5

\* fs_write_file changes nothing but the name in the directory; what it has written
\* to is a file.
LEMMA WriteAdds ==
    ASSUME NEW s, Good(s), NEW p \in PathType, p.abs, p.parts # <<>>,
           Base(p) \notin {".", ".."}, NEW text \in TextType, NEW room \in BOOLEAN
    PROVE  LET d == Resolve(s, DirPart(p))
               r == WriteFile(s, p, text, room)
           IN  /\ r.s # s => d \in Nodes(s) /\ Adds(s, r.s, d, Base(p))
               /\ r.rc = 0 => ~r.s.node[Resolve(r.s, p)].dir
<1> DEFINE d == Resolve(s, DirPart(p))
           t == IF Resolve(s, p) # NULL THEN Done(s) ELSE Touch(s, p)
           n == Resolve(t.s, p)
           r == WriteFile(s, p, text, room)
<1>1. t.s = s \/ (d \in Nodes(s) /\ Adds(s, t.s, d, Base(p)))
  BY TouchAdds DEF Done
<1>2. Resolve(t.s, DirPart(p)) = d
  BY TouchAdds DEF Done
<1>3. /\ Good(t.s)
      /\ \/ r.s = t.s /\ r.rc = -1
         \/ /\ n \in Nodes(t.s) /\ ~t.s.node[n].dir /\ r = StoreText(t.s, n, text, room)
            /\ \E data \in {NoData, <<text>>} : \E cap : r.s = SetBuffer(t.s, n, data, cap)
  BY WriteEnds
<1> HIDE DEF t, r
<1>4. CASE r.s = t.s /\ r.rc = -1
  BY <1>1, <1>4 DEF r
<1>5. CASE /\ n \in Nodes(t.s) /\ ~t.s.node[n].dir /\ r = StoreText(t.s, n, text, room)
           /\ \E data \in {NoData, <<text>>} : \E cap : r.s = SetBuffer(t.s, n, data, cap)
  <2>1. d \in Nodes(t.s) /\ There(t.s, n, d, Base(p))
    <3>1. n = Follow(t.s, d, Base(p))
      BY <1>2, <1>3, LastStep
    <3>2. d \in Nodes(t.s) \cup {NULL}
      BY <1>2, <1>3, SplitParent, ResolveLive
    <3>3. n # NULL
      BY <1>3, <1>5 DEF Good, TypeOf, Addr, NULL
    <3> HIDE DEF n, d
    <3> QED
      BY <1>3, <3>1, <3>2, <3>3, FoundThere
  <2> HIDE DEF n, d
  <2>2. Adds(t.s, r.s, d, Base(p))
    BY <1>3, <1>5, <2>1, BufferAdds
  <2>3. d \in Nodes(s) /\ Adds(s, r.s, d, Base(p))
    BY <1>1, <2>1, <2>2, AddsOn
  <2>4. Good(r.s) /\ SameTree(t.s, r.s)
    BY <1>3, <1>5, StoreTextGood
  <2>5. Resolve(r.s, p) = n
    BY <1>3, <2>4, SplitParent, SameLookup DEF n
  <2>6. ~r.s.node[n].dir
    BY <1>5, <2>4 DEF SameTree
  <2> QED
    BY <2>3, <2>5, <2>6 DEF r, d
<1> QED
  BY <1>3, <1>4, <1>5

\* Touch and then write, as the editor's save and the file manager's new file do.
LEMMA TouchWriteAdds ==
    ASSUME NEW s, Good(s), NEW p \in PathType, p.abs, p.parts # <<>>,
           Base(p) \notin {".", ".."}, NEW text \in TextType, NEW room \in BOOLEAN
    PROVE  LET d == Resolve(s, DirPart(p))
               r == WriteFile(Touch(s, p).s, p, text, room)
           IN  /\ r.s # s => d \in Nodes(s) /\ Adds(s, r.s, d, Base(p))
               /\ r.rc = 0 => ~r.s.node[Resolve(r.s, p)].dir
<1> DEFINE d == Resolve(s, DirPart(p))
           t == Touch(s, p).s
           r == WriteFile(t, p, text, room)
<1>1. Good(t) /\ (t = s \/ (d \in Nodes(s) /\ Adds(s, t, d, Base(p)))) /\ Resolve(t, DirPart(p)) = d
  BY TouchGood, TouchAdds
<1> HIDE DEF t
<1>2. /\ r.s # t => d \in Nodes(t) /\ Adds(t, r.s, d, Base(p))
      /\ r.rc = 0 => ~r.s.node[Resolve(r.s, p)].dir
  BY <1>1, WriteAdds
<1> HIDE DEF r, d
<1>3. r.s # s => d \in Nodes(s) /\ Adds(s, r.s, d, Base(p))
  BY <1>1, <1>2, AddsOn
<1> QED
  BY <1>2, <1>3 DEF t, r, d

\* fs_rm of a name in a directory that has children removes a node of that name from
\* it or nothing: "." and ".." lead to directories that are not empty.
LEMMA RmTakes ==
    ASSUME NEW s, Good(s), NEW p \in PathType, p.abs, p.parts # <<>>,
           NEW d \in Nodes(s), d = Resolve(s, DirPart(p)), s.node[d].kids # <<>>,
           Rm(s, p).s # s
    PROVE  LET t == Rm(s, p).s
           IN  \E n \in Nodes(s) : /\ There(s, n, d, Base(p)) /\ Nodes(t) = Nodes(s) \ {n}
                                   /\ t.cwd = s.cwd
                                   /\ \A m \in Nodes(t) : Apart(t, m, d) = Apart(s, m, d)
<1> DEFINE n == Resolve(s, p)
<1>1. n \in Nodes(s) \cup {NULL} /\ n = Follow(s, d, Base(p))
  BY SplitParent, ResolveLive, LastStep
<1> HIDE DEF n
<1>2. /\ n # NULL /\ n # Root /\ ~(s.node[n].dir /\ s.node[n].kids # <<>>)
      /\ Rm(s, p).s = Unlink(s, n)
  BY DEF Rm, Fail, Done, n
<1>3. n \in Nodes(s) /\ d # NULL
  BY <1>1, <1>2 DEF Good, TypeOf, Addr, NULL
<1>4. s.node[n].kids = <<>>
  BY <1>2, <1>3 DEF Good, Linked
<1>5. Base(p) # "."
  BY <1>1, <1>3, <1>4 DEF Follow
<1>6. Base(p) # ".."
  <2> SUFFICES ASSUME Base(p) = ".." PROVE FALSE
    OBVIOUS
  <2>1. n = s.node[d].parent
    BY <1>1, <1>3 DEF Follow
  <2>2. d # Root
    BY <1>2, <2>1 DEF Good, TypeOf
  <2>3. \E i \in DOMAIN s.node[n].kids : s.node[n].kids[i] = d
    BY <2>1, <2>2 DEF Good, Linked
  <2> QED
    BY <1>4, <2>3
<1>7. There(s, n, d, Base(p))
  BY <1>1, <1>2, <1>5, <1>6, FoundThere
<1>8. s.node[n].parent = d
  BY <1>7 DEF There
<1> QED
  BY <1>2, <1>3, <1>7, <1>8, UnlinkTakes

-----------------------------------------------------------------------------
(* The commands. *)

\* fs_init leaves a root and nothing else.
LEMMA EmptyGood == Good(Empty)
<1> DEFINE root == [name |-> "/", dir |-> TRUE, parent |-> Root, kids |-> <<>>,
                    data |-> NoData, cap |-> 0]
<1>1. /\ Empty = [node |-> [n \in {Root} |-> root], cwd |-> Root, count |-> 1]
      /\ Nodes(Empty) = {Root} /\ Empty.node[Root] = root
  BY DEF Empty, Nodes
<1>2. root \in NodeType
  BY ShellAssumption DEF NodeType, Names, Root, Addr
<1>3. TypeOf(Empty)
  BY <1>1, <1>2, ShellAssumption DEF TypeOf, Addr, Root, Nodes
<1>4. Linked(Empty)
  <2>1. Empty.node[Root].kids = <<>> /\ DOMAIN <<>> = {}
    BY <1>1
  <2> QED
    BY <1>1, <2>1 DEF Linked
<1>5. Ranked(Empty)
  <2>1. [n \in {Root} |-> 0] \in [Nodes(Empty) -> Nat] /\ Depth(Empty, [n \in {Root} |-> 0])
    BY <1>1 DEF Depth
  <2> QED
    BY <2>1 DEF Ranked
<1>6. Fits(Empty)
  BY <1>1 DEF Fits
<1> QED
  BY <1>1, <1>3, <1>4, <1>5, <1>6, FS_Singleton DEF Good

\* What every command does: the tree stays a tree, at most a leaf goes.
Keeps(s, t) == Good(t) /\ Removes(s, t)

\* cd.
LEMMA CdToGood ==
    ASSUME NEW s, Good(s), NEW p \in PathType
    PROVE  Keeps(s, CdTo(s, p))
<1> DEFINE absolute == IF p.abs THEN p ELSE Path(TRUE, CwdParts(s) \o p.parts, p.slash)
<1>1. Len(absolute.parts) \in Nat
  BY SplitParent, CwdPartsSeq DEF Path, PathType
<1> HIDE DEF absolute
<1>2. CdTo(s, p) = SetCwd(s, absolute) \/ CdTo(s, p) = s
  BY DEF CdTo, absolute
<1>3. Keeps(s, SetCwd(s, absolute))
  BY <1>1, SetCwdGood DEF Keeps
<1>4. Keeps(s, s)
  BY DEF Keeps, Removes
<1> QED
  BY <1>2, <1>3, <1>4

LEMMA CdRootGood ==
    ASSUME Good(fs), CdRoot
    PROVE  Keeps(fs, fs')
<1>1. Len(Path(TRUE, <<>>, FALSE).parts) \in Nat
  BY DEF Path
<1> QED
  BY <1>1, SetCwdGood DEF CdRoot, Keeps

\* touch and then write, as cp, mv and the editor do: a call that answers 0 has
\* put text where p leads.
Written(s, r, p, text) ==
    /\ Good(r.s) /\ Grows(s, r.s)
    /\ r.rc = 0 => /\ Resolve(r.s, p) \in Nodes(r.s)
                   /\ r.s.node[Resolve(r.s, p)].data = <<text>>
                   /\ \A m \in Nodes(s) \ {Resolve(r.s, p)} : r.s.node[m].data = s.node[m].data

\* touch and write keep the tree and every other text.
LEMMA TouchWriteGood ==
    ASSUME NEW s, Good(s), NEW p \in PathType, NEW text \in TextType, NEW room \in BOOLEAN
    PROVE  Written(s, WriteFile(Touch(s, p).s, p, text, room), p, text)
<1> DEFINE t == Touch(s, p).s
           r == WriteFile(t, p, text, room)
           n == Resolve(r.s, p)
<1>1. Good(t) /\ Grows(s, t) /\ SameTexts(s, t)
  BY TouchGood
<1> HIDE DEF t
<1>2. /\ Good(r.s) /\ Grows(t, r.s)
      /\ r.rc = 0 => /\ n \in Nodes(r.s)
                     /\ r.s.node[n].data = <<text>>
                     /\ \A m \in Nodes(t) \ {n} : r.s.node[m].data = t.node[m].data
  BY <1>1, WriteGood
<1> HIDE DEF r, n
<1>3. Grows(s, r.s)
  BY <1>1, <1>2, GrowsOn
<1>4. r.rc = 0 => \A m \in Nodes(s) \ {n} : r.s.node[m].data = s.node[m].data
  BY <1>1, <1>2 DEF Grows, SameTexts
<1> QED
  BY <1>2, <1>3, <1>4 DEF t, r, n, Written

\* cp: the text it writes is that of a live node.
LEMMA CopyGood ==
    ASSUME NEW s, Good(s), NEW a \in PathType, NEW b \in PathType, NEW room \in BOOLEAN
    PROVE  LET r == CopyFile(s, a, b, room)
               n == Resolve(s, a)
           IN  /\ Good(r.s) /\ Grows(s, r.s)
               /\ r.rc = 0 => /\ n \in Nodes(s) /\ TextOf(s, n) \in TextType
                              /\ Written(s, r, b, TextOf(s, n))
<1> DEFINE n == Resolve(s, a)
           r == CopyFile(s, a, b, room)
<1>1. CASE n = NULL \/ IsDir(s, n)
  <2>1. r = Fail(s) /\ Fail(s).s = s /\ Fail(s).rc # 0
    BY <1>1 DEF CopyFile, Fail
  <2> HIDE DEF r
  <2> QED
    BY <2>1, Unchanged DEF r
<1>2. CASE ~(n = NULL \/ IsDir(s, n))
  <2>1. n \in Nodes(s)
    BY <1>2, SplitParent, ResolveLive
  <2>2. r = WriteFile(Touch(s, b).s, b, TextOf(s, n), room)
    BY <1>2 DEF CopyFile
  <2> HIDE DEF n, r
  <2>3. TextOf(s, n) \in TextType
    BY <2>1, TextOfType
  <2>4. Written(s, r, b, TextOf(s, n))
    BY <2>2, <2>3, TouchWriteGood
  <2>5. Good(r.s) /\ Grows(s, r.s)
    BY <2>4 DEF Written
  <2> QED
    BY <2>1, <2>3, <2>4, <2>5 DEF n, r
<1> QED
  BY <1>1, <1>2

\* A call that adds nodes, then one that may remove a leaf.
LEMMA GrowsThenRemoves ==
    ASSUME NEW s, NEW t, NEW u, Grows(s, t), Removes(t, u)
    PROVE  Removes(s, u)
BY DEF Grows, Removes

\* mv, of a folder and of a file.
LEMMA MoveDirGood ==
    ASSUME NEW s, Good(s), NEW a \in PathType, NEW b \in PathType
    PROVE  Keeps(s, MoveDir(s, a, b))
<1> DEFINE made == Mkdir(s, b)
<1>1. Good(made.s) /\ Grows(s, made.s)
  BY MkdirGood
<1> HIDE DEF made
<1>2. MoveDir(s, a, b) \in {s, made.s, Rm(made.s, a).s}
  BY DEF MoveDir, made
<1>3. Good(Rm(made.s, a).s) /\ Removes(made.s, Rm(made.s, a).s)
  BY <1>1, RmGood
<1>4. Removes(s, Rm(made.s, a).s)
  BY <1>1, <1>3, GrowsThenRemoves
<1>5. Removes(s, s) /\ Removes(s, made.s)
  BY <1>1, GrowsRemoves DEF Removes
<1> HIDE DEF Good
<1> QED
  BY <1>1, <1>2, <1>3, <1>4, <1>5 DEF Keeps

LEMMA MoveFileGood ==
    ASSUME NEW s, Good(s), NEW a \in PathType, NEW b \in PathType, NEW room \in BOOLEAN
    PROVE  Keeps(s, MoveFile(s, a, b, room))
<1> DEFINE t == CopyFile(s, a, b, room).s
<1>1. Good(t) /\ Grows(s, t)
  BY CopyGood
<1> HIDE DEF t
<1>2. Good(Rm(t, a).s) /\ Removes(t, Rm(t, a).s)
  BY <1>1, RmGood
<1>3. MoveFile(s, a, b, room) = Rm(t, a).s
  BY DEF MoveFile, t
<1> QED
  BY <1>1, <1>2, <1>3, GrowsThenRemoves DEF Keeps

LEMMA MoveGood ==
    ASSUME NEW s, Good(s), NEW a \in PathType, NEW b \in PathType, NEW room \in BOOLEAN
    PROVE  Keeps(s, Move(s, a, b, room))
<1>1. Move(s, a, b, room) \in {s, MoveDir(s, a, b), MoveFile(s, a, b, room)}
  BY DEF Move
<1>2. Keeps(s, s)
  BY DEF Keeps, Removes
<1> QED
  BY <1>1, <1>2, MoveDirGood, MoveFileGood

LEMMA ExtendGood ==
    ASSUME Good(fs), NEW p \in PathType, NEW text \in TextType, Extend(p, text)
    PROVE  Keeps(fs, fs')
<1>1. PICK room \in BOOLEAN : fs' = AppendFile(fs, p, text, room).s
  BY DEF Extend, Room, Do
<1>2. LET n == Resolve(fs, p) IN n # NULL => Len(TextOf(fs, n) \o text) <= MaxText
  BY DEF Extend
<1> QED
  BY <1>1, <1>2, AppendGood, GrowsRemoves DEF Keeps

\* Every step keeps the tree.
LEMMA NextKeeps ==
    ASSUME Good(fs), [Next]_vars
    PROVE  Keeps(fs, fs')
<1>1. Paths \subseteq PathType /\ Texts \subseteq TextType
  BY ShellAssumption DEF PathType, TextType
<1>2. Keeps(fs, fs)
  BY DEF Keeps, Removes
<1>3. CASE CdRoot
  BY <1>3, CdRootGood
<1>4. ASSUME NEW p \in Paths, Cd(p) PROVE Keeps(fs, fs')
  BY <1>1, <1>4, CdToGood DEF Cd
<1>5. ASSUME NEW p \in Paths, MkdirCmd(p) PROVE Keeps(fs, fs')
  BY <1>1, <1>5, MkdirGood, GrowsRemoves DEF MkdirCmd, Do, Keeps
<1>6. ASSUME NEW p \in Paths, TouchCmd(p) PROVE Keeps(fs, fs')
  BY <1>1, <1>6, TouchGood, GrowsRemoves DEF TouchCmd, Do, Keeps
<1>7. ASSUME NEW p \in Paths, RmCmd(p) PROVE Keeps(fs, fs')
  BY <1>1, <1>7, RmGood DEF RmCmd, Do, Keeps
<1>8. ASSUME NEW p \in Paths, NEW t \in Texts, WriteCmd(p, t) PROVE Keeps(fs, fs')
  BY <1>1, <1>8, WriteGood, GrowsRemoves DEF WriteCmd, Room, Do, Keeps
<1>9. ASSUME NEW p \in Paths, NEW t \in Texts, Save(p, t) PROVE Keeps(fs, fs')
  <2>1. PICK room \in BOOLEAN : fs' = WriteFile(Touch(fs, p).s, p, t, room).s
    BY <1>9 DEF Save, Room, Do
  <2>2. Written(fs, WriteFile(Touch(fs, p).s, p, t, room), p, t)
    BY <1>1, TouchWriteGood
  <2> QED
    BY <2>1, <2>2, GrowsRemoves DEF Written, Keeps
<1>10. ASSUME NEW p \in Paths, NEW t \in Texts, Extend(p, t) PROVE Keeps(fs, fs')
  BY <1>1, <1>10, ExtendGood
<1>11. ASSUME NEW a \in Paths, NEW b \in Paths, Cp(a, b) PROVE Keeps(fs, fs')
  <2>1. PICK room \in BOOLEAN : fs' = CopyFile(fs, a, b, room).s
    BY <1>11 DEF Cp, Room
  <2>2. Good(fs') /\ Grows(fs, fs')
    BY <1>1, <2>1, CopyGood
  <2> QED
    BY <2>2, GrowsRemoves DEF Keeps
<1>12. ASSUME NEW a \in Paths, NEW b \in Paths, MvDir(a, b) PROVE Keeps(fs, fs')
  BY <1>1, <1>12, MoveDirGood DEF MvDir
<1>13. ASSUME NEW a \in Paths, NEW b \in Paths, MvFile(a, b) PROVE Keeps(fs, fs')
  BY <1>1, <1>13, MoveFileGood DEF MvFile, Room
<1>14. ASSUME NEW a \in Paths, MvNothing(a) PROVE Keeps(fs, fs')
  BY <1>2, <1>14 DEF MvNothing, Refuse
<1>15. CASE UNCHANGED vars
  BY <1>2, <1>15 DEF vars
<1> QED
  BY <1>3, <1>4, <1>5, <1>6, <1>7, <1>8, <1>9, <1>10, <1>11, <1>12, <1>13, <1>14, <1>15
  DEF Next

-----------------------------------------------------------------------------
(* The theorems. *)

\* The invariant of the file system holds in every state.
THEOREM FileSystemGood == Spec => []Good(fs)
<1>1. Init => Good(fs)
  BY EmptyGood DEF Init
<1>2. Good(fs) /\ [Next]_vars => Good(fs)'
  BY NextKeeps DEF Keeps
<1> QED
  BY <1>1, <1>2, PTL DEF Spec

\* The type of the nodes, for any heap, any paths and any texts.
THEOREM ShellType == Spec => []TypeOK
<1>1. Good(fs) => TypeOK
  BY NodesFinite, FS_CardinalityType DEF Good, TypeOf, TypeOK, Live, Nodes
<1> QED
  BY <1>1, FileSystemGood, PTL

\* No dangling pointer, no node in two places, a file lists nothing: through every
\* command and every half-done mv.
THEOREM TreeIsLinked == Spec => []TreeLinks
<1>1. Good(fs) => TreeLinks
  <2> SUFFICES ASSUME Good(fs) PROVE TreeLinks
    OBVIOUS
  <2>1. Live = Nodes(fs)
    BY DEF Live, Nodes
  <2>2. ASSUME NEW n \in Live \ {Root}
        PROVE  LET kids == fs.node[fs.node[n].parent].kids
               IN  Cardinality({i \in DOMAIN kids : kids[i] = n}) = 1
    <3> DEFINE kids == fs.node[fs.node[n].parent].kids
    <3>1. PICK i \in DOMAIN kids : kids[i] = n
      BY <2>1 DEF Good, Linked
    <3>2. \A j \in DOMAIN kids : kids[j] = n => j = i
      <4>1. fs.node[n].parent \in Nodes(fs)
        BY <2>1 DEF Good, Linked
      <4>2. \A d \in Nodes(fs) : \A h, j \in DOMAIN fs.node[d].kids :
               fs.node[d].kids[j] = fs.node[d].kids[h] => j = h
        BY DEF Good, Linked
      <4>3. \A h, j \in DOMAIN kids : kids[j] = kids[h] => j = h
        BY <4>1, <4>2
      <4> HIDE DEF kids
      <4> QED
        BY <3>1, <4>3
    <3> HIDE DEF kids
    <3>3. {j \in DOMAIN kids : kids[j] = n} = {i}
      BY <3>1, <3>2
    <3>4. Cardinality({j \in DOMAIN kids : kids[j] = n}) = 1
      BY <3>3, FS_Singleton
    <3> QED
      BY <3>4 DEF kids
  <2> QED
    BY <2>1, <2>2 DEF TreeLinks, Good, Linked
<1> QED
  BY <1>1, FileSystemGood, PTL

\* The current directory is always a live directory.
THEOREM CwdStaysLive == Spec => []CwdIsLive
<1>1. Good(fs) => CwdIsLive
  BY DEF Good, CwdIsLive, Live, Nodes
<1> QED
  BY <1>1, FileSystemGood, PTL

\* node_count is exact in every state.
THEOREM CountStaysExact == Spec => []CountIsExact
<1>1. Good(fs) => CountIsExact
  BY DEF Good, CountIsExact, Live, Nodes
<1> QED
  BY <1>1, FileSystemGood, PTL

\* No text overruns the buffer that holds it.
THEOREM TextsFit == Spec => []FitsBuffer
<1>1. Good(fs) => FitsBuffer
  BY DEF Good, Fits, FitsBuffer, Live, Nodes
<1> QED
  BY <1>1, FileSystemGood, PTL

\* The nodes of a chain of n parents are n: the tree is not deeper than the heap
\* has room for nodes.
LEMMA DepthBound ==
    ASSUME NEW s, Good(s), NEW r, Depth(s, r), NEW n \in Nodes(s)
    PROVE  r[n] \in Nat /\ r[n] < MaxNodes
<1>1. r \in [Nodes(s) -> Nat] /\ r[n] \in Nat
  BY DEF Depth
<1> DEFINE P == {k \in Nat : k <= r[n] => \E m \in Nodes(s) : r[m] = r[n] - k}
<1>2. 0 \in P
  BY <1>1
<1>3. ASSUME NEW k \in Nat, k \in P PROVE k + 1 \in P
  <2> SUFFICES ASSUME k + 1 <= r[n] PROVE \E m \in Nodes(s) : r[m] = r[n] - (k + 1)
    OBVIOUS
  <2>1. PICK m \in Nodes(s) : r[m] = r[n] - k
    BY <1>1, <1>3
  <2>2. m # Root
    BY <1>1, <2>1 DEF Depth
  <2>3. s.node[m].parent \in Nodes(s) /\ r[m] = r[s.node[m].parent] + 1
    BY <2>2 DEF Depth, Good, Linked
  <2> QED
    BY <1>1, <2>1, <2>3
<1>4. Nat \subseteq P
  <2> HIDE DEF P
  <2> QED
    BY <1>2, <1>3, SetInduction
<1> DEFINE D == 0..r[n]
           f == [j \in D |-> CHOOSE m \in Nodes(s) : r[m] = j]
<1>5. \A j \in D : \E m \in Nodes(s) : r[m] = j
  <2> SUFFICES ASSUME NEW j \in D PROVE \E m \in Nodes(s) : r[m] = j
    OBVIOUS
  <2>1. r[n] - j \in P /\ r[n] - j <= r[n] /\ r[n] - (r[n] - j) = j
    BY <1>1, <1>4
  <2> QED
    BY <2>1
<1>6. \A j \in D : f[j] \in Nodes(s) /\ r[f[j]] = j
  <2> HIDE DEF D, P
  <2> QED
    BY <1>5
<1>7. f \in Injection(D, Nodes(s))
  <2>1. f \in [D -> Nodes(s)]
    BY <1>6
  <2> HIDE DEF f
  <2> QED
    BY <1>6, <2>1 DEF Injection, IsInjective
<1>8. Cardinality(D) <= Cardinality(Nodes(s))
  <2> HIDE DEF D, f
  <2> QED
    BY <1>7, NodesFinite, FS_Injection
<1>9. Cardinality(D) = r[n] + 1
  BY <1>1, FS_Interval
<1> HIDE DEF D
<1> QED
  BY <1>1, <1>8, <1>9, NodesFinite, FS_CardinalityType, ShellAssumption

\* Every live node hangs from the root.
THEOREM TreeIsConnected == Spec => []Connected
<1>1. Good(fs) => Connected
  <2> SUFFICES ASSUME Good(fs), NEW n \in Live PROVE Root \in Above(n)
    BY DEF Connected
  <2> DEFINE T == Live \cup {NULL}
             F == [x \in T \X Nat |-> Parent(x[1])]
             Body(g) == [i \in 0..MaxNodes |-> IF i = 0 THEN n ELSE Parent(g[i - 1])]
             up == CHOOSE g : g = Body(g)
  <2>1. Live = Nodes(fs) /\ MaxNodes \in Nat
    BY ShellAssumption DEF Live, Nodes
  <2>2. \A m \in T : Parent(m) \in T
    <3>1. \A m \in Live : fs.node[m].parent \in Live
      <4>1. fs.node[Root].parent \in Live
        BY <2>1 DEF Good, TypeOf
      <4>2. \A m \in Live \ {Root} : fs.node[m].parent \in Live
        BY <2>1 DEF Good, Linked
      <4> QED
        BY <4>1, <4>2
    <3> QED
      BY <3>1 DEF Parent
  <2>3. F \in [T \X Nat -> T]
    BY <2>2
  <2>4. PICK g : Loop(T, n, F, MaxNodes, g)
    <3> HIDE DEF F
    <3> QED
      BY <2>1, <2>3, LoopExists
  <2>5. g = Body(g)
    <3>1. g \in [0..MaxNodes -> T] /\ g[0] = n
      BY <2>4 DEF Loop
    <3>2. ASSUME NEW i \in 1..MaxNodes PROVE g[i] = Parent(g[i - 1])
      <4>1. i \in Nat /\ i - 1 \in 0..MaxNodes /\ g[i - 1] \in T
        BY <2>1, <3>1
      <4>2. F[<<g[i - 1], i>>] = Parent(g[i - 1])
        BY <4>1
      <4> QED
        BY <2>4, <4>2 DEF Loop
    <3> HIDE DEF F, T
    <3>3. \A i \in 0..MaxNodes : g[i] = IF i = 0 THEN n ELSE Parent(g[i - 1])
      BY <2>1, <3>1, <3>2
    <3> QED
      BY <3>1, <3>3
  <2>6. up = Body(up)
    <3> HIDE DEF Body
    <3> QED
      BY <2>5
  <2>7. Above(n) = {up[i] : i \in 0..MaxNodes}
    BY DEF Above
  <2> HIDE DEF up
  <2>8. up[0] = n /\ \A i \in 0..MaxNodes : i # 0 => up[i] = Parent(up[i - 1])
    BY <2>1, <2>6
  <2>9. PICK r \in [Nodes(fs) -> Nat] : Depth(fs, r)
    BY DEF Good, Ranked
  <2>10. r[n] \in Nat /\ r[n] < MaxNodes
    BY <2>1, <2>9, DepthBound
  <2> DEFINE P == {k \in Nat : k <= r[n] => up[k] \in Nodes(fs) /\ r[up[k]] = r[n] - k}
  <2>11. 0 \in P
    BY <2>1, <2>8, <2>10
  <2>12. ASSUME NEW k \in Nat, k \in P PROVE k + 1 \in P
    <3> SUFFICES ASSUME k + 1 <= r[n]
                 PROVE  up[k + 1] \in Nodes(fs) /\ r[up[k + 1]] = r[n] - (k + 1)
      OBVIOUS
    <3>1. up[k] \in Nodes(fs) /\ r[up[k]] = r[n] - k
      BY <2>10, <2>12
    <3>2. k + 1 \in 0..MaxNodes /\ k + 1 # 0 /\ (k + 1) - 1 = k
      BY <2>1, <2>10
    <3>3. up[k + 1] = fs.node[up[k]].parent
      BY <2>1, <2>8, <3>1, <3>2 DEF Parent
    <3>4. up[k] # Root
      BY <2>9, <2>10, <3>1 DEF Depth
    <3>5. fs.node[up[k]].parent \in Nodes(fs) /\ r[up[k]] = r[fs.node[up[k]].parent] + 1
      BY <2>9, <3>1, <3>4 DEF Depth, Good, Linked
    <3> QED
      BY <2>9, <2>10, <3>1, <3>3, <3>5
  <2>13. Nat \subseteq P
    <3> HIDE DEF P
    <3> QED
      BY <2>11, <2>12, SetInduction
  <2>14. up[r[n]] \in Nodes(fs) /\ r[up[r[n]]] = 0
    <3>1. r[n] \in P
      BY <2>10, <2>13
    <3> QED
      BY <2>10, <3>1
  <2>15. up[r[n]] = Root
    <3> SUFFICES ASSUME up[r[n]] # Root PROVE FALSE
      OBVIOUS
    <3>1. LET e == fs.node[up[r[n]]].parent IN e \in Nodes(fs) /\ r[up[r[n]]] = r[e] + 1
      BY <2>9, <2>14 DEF Depth, Good, Linked
    <3> QED
      BY <2>9, <2>14, <3>1
  <2> QED
    BY <2>1, <2>7, <2>10, <2>15
<1> QED
  BY <1>1, FileSystemGood, PTL

\* At most one node goes away in a step, and it was childless and not the current
\* directory.
THEOREM RemovesLeaves == Spec => OnlyLeavesGo
<1>1. Good(fs) /\ [Next]_vars =>
        [/\ Cardinality(Live \ Live') <= 1
         /\ \A n \in Live \ Live' : fs.node[n].kids = <<>> /\ n # fs.cwd]_vars
  <2> SUFFICES ASSUME Good(fs), [Next]_vars
               PROVE  /\ Cardinality(Live \ Live') <= 1
                      /\ \A n \in Live \ Live' : fs.node[n].kids = <<>> /\ n # fs.cwd
    OBVIOUS
  <2>1. Removes(fs, fs')
    BY NextKeeps DEF Keeps
  <2>2. Live = Nodes(fs) /\ Live' = Nodes(fs')
    BY DEF Live, Nodes
  <2> DEFINE gone == Live \ Live'
  <2>3. gone = {} \/ \E x : gone = {x}
    BY <2>1, <2>2 DEF Removes
  <2>4. Cardinality(gone) = 0 \/ Cardinality(gone) = 1
    <3> HIDE DEF gone
    <3> QED
      BY <2>3, FS_EmptySet, FS_Singleton
  <2> QED
    BY <2>1, <2>2, <2>4 DEF Removes
<1> QED
  BY <1>1, FileSystemGood, PTL DEF Spec, OnlyLeavesGo

\* A cp that answers Copiato has copied.
THEOREM CopiesAreCopies == Spec => []CpCopies
<1>1. Init => CpCopies
  BY DEF Init, CpCopies
<1>2. Good(fs) /\ CpCopies /\ [Next]_vars => CpCopies'
  <2> SUFFICES ASSUME Good(fs), CpCopies, [Next]_vars PROVE CpCopies'
    OBVIOUS
  <2>1. CASE UNCHANGED vars
    BY <2>1 DEF CpCopies, vars
  <2>2. CASE reply' = <<>> \/ reply'[1] # "cp"
    BY <2>2 DEF CpCopies
  <2>3. ASSUME NEW a \in Paths, NEW b \in Paths, Cp(a, b) PROVE CpCopies'
    <3>1. a \in PathType /\ b \in PathType
      BY ShellAssumption DEF PathType
    <3>2. PICK room \in BOOLEAN :
             LET n == Resolve(fs, a)
                 r == CopyFile(fs, a, b, room)
             IN  /\ fs' = r.s
                 /\ reply' = IF r.rc = 0
                             THEN <<"cp", TextOf(fs, n), n, Resolve(r.s, b)>> ELSE <<>>
      BY <2>3 DEF Cp, Room
    <3> DEFINE n == Resolve(fs, a)
               text == TextOf(fs, n)
               r == CopyFile(fs, a, b, room)
               m == Resolve(r.s, b)
    <3>3. fs' = r.s /\ reply' = IF r.rc = 0 THEN <<"cp", text, n, m>> ELSE <<>>
      BY <3>2
    <3>4. r.rc = 0 => n \in Nodes(fs) /\ Written(fs, r, b, text)
      BY <3>1, CopyGood
    <3>5. CASE r.rc # 0
      BY <2>2, <3>3, <3>5
    <3>6. CASE r.rc = 0
      <4> HIDE DEF r, n
      <4>1. n \in Nodes(fs)
        BY <3>4, <3>6
      <4>2. /\ Good(r.s) /\ m \in Nodes(r.s) /\ r.s.node[m].data = <<text>>
            /\ \A k \in Nodes(fs) \ {m} : r.s.node[k].data = fs.node[k].data
        <5> HIDE DEF text
        <5> QED
          BY <3>4, <3>6 DEF Written
      <4> HIDE DEF m
      <4>3. m # NULL
        BY <4>2 DEF Good, TypeOf, Addr, NULL
      <4>4. TextOf(r.s, m) = text
        <5> HIDE DEF text
        <5>1. r.s.node[m].data = <<text>> /\ <<text>> # <<>> /\ <<text>>[1] = text
          BY <4>2
        <5> QED
          BY <5>1 DEF TextOf, NoData
      <4>5. TextOf(r.s, n) = text
        <5>1. CASE n = m
          BY <4>4, <5>1
        <5>2. CASE n # m
          BY <4>1, <4>2, <5>2 DEF TextOf
        <5> QED
          BY <5>1, <5>2
      <4>6. reply' = <<"cp", text, n, m>>
        BY <3>3, <3>6
      <4> HIDE DEF text
      <4> QED
        BY <3>3, <4>3, <4>4, <4>5, <4>6 DEF CpCopies, TextOf
    <3> QED
      BY <3>5, <3>6
  <2>4. \/ UNCHANGED vars
        \/ reply' = <<>> \/ reply'[1] # "cp"
        \/ \E a, b \in Paths : Cp(a, b)
    <3>1. CASE CdRoot
      BY <3>1 DEF CdRoot
    <3>2. ASSUME NEW p \in Paths, Cd(p) PROVE reply' = <<>> \/ reply'[1] # "cp"
      <4>1. reply' = <<>> \/ reply' = <<"cd", Resolve(fs, p)>>
        BY <3>2 DEF Cd
      <4> QED
        BY <4>1
    <3>3. ASSUME NEW p \in Paths, MkdirCmd(p) \/ TouchCmd(p) \/ RmCmd(p) PROVE reply' = <<>>
      BY <3>3 DEF MkdirCmd, TouchCmd, RmCmd, Do
    <3>4. ASSUME NEW p \in Paths, NEW t \in Texts, WriteCmd(p, t) \/ Save(p, t) \/ Extend(p, t)
          PROVE  reply' = <<>>
      BY <3>4 DEF WriteCmd, Save, Extend, Do
    <3>5. ASSUME NEW a \in Paths, NEW b \in Paths, MvDir(a, b) PROVE reply' = <<>>
      BY <3>5 DEF MvDir
    <3>6. ASSUME NEW a \in Paths, NEW b \in Paths, MvFile(a, b) PROVE reply'[1] # "cp"
      BY <3>6 DEF MvFile
    <3>7. ASSUME NEW a \in Paths, MvNothing(a) PROVE reply' = <<>>
      BY <3>7 DEF MvNothing, Refuse
    <3> QED
      BY <3>1, <3>2, <3>3, <3>4, <3>5, <3>6, <3>7 DEF Next
  <2> QED
    BY <2>1, <2>2, <2>3, <2>4
<1> QED
  BY <1>1, <1>2, FileSystemGood, PTL DEF Spec
=============================================================================
