------------------------------ MODULE GuiProofs ------------------------------
(***************************************************************************)
(* The safety invariants of Gui, for every number of slots and every       *)
(* length of the animations.                                               *)
(***************************************************************************)
EXTENDS Gui, FiniteSetTheorems, WellFoundedInduction, TLAPS

\* The parts of the inductive invariant, on a desktop instead of the variables:
\* slots in order, the stack, the focus.
SlotsOK(ws) ==
    /\ ws \in [Slots -> Window]
    /\ \A w \in Slots : /\ ws[w].priv <=> ws[w].used
                        /\ ws[w].used /\ ws[w].minimized => ws[w].anim = 0

Distinct(z) == z \in Seq(Slots) /\ \A p, q \in DOMAIN z : z[p] = z[q] => p = q
On(z) == {z[p] : p \in DOMAIN z}
StackOK(ws, z) == Distinct(z) /\ On(z) = {w \in Slots : ws[w].used}
FocusOK(ws, z) == \A w \in Slots : ws[w].used => (ws[w].focused <=> w = z[Len(z)])
DragOK(ws, g, b) == \A w \in Slots : ws[w].used /\ ws[w].dragging => w = g /\ b

RestOK == /\ startOpen \in BOOLEAN /\ prevBtn \in BOOLEAN /\ elapsed \in BOOLEAN
          /\ pc \in {"keys", "settle", "draw"}
          /\ fw \in Slots \cup {NULL} /\ grabbed \in Slots \cup {NULL}

GInv == /\ SlotsOK(wins) /\ StackOK(wins, zorder) /\ FocusOK(wins, zorder)
        /\ DragOK(wins, grabbed, prevBtn)
        /\ RestOK

-----------------------------------------------------------------------------
(* The stack. *)

\* A nonempty set of slots has a least element.
LEMMA LeastOf ==
    ASSUME NEW S \in SUBSET Nat, S # {}
    PROVE  \E x \in S : \A y \in S : x <= y
<1> DEFINE R == OpToRel(<, Nat)
<1>1. PICK x \in S : \A y \in S : ~ (<<y, x>> \in R)
  <2>1. IsWellFoundedOn(R, Nat)
    BY NatLessThanWellFounded
  <2> QED
    BY <2>1, WFMin, Zenon
<1>2. ASSUME NEW y \in S, y < x PROVE FALSE
  <2>1. <<y, x>> \in Nat \X Nat /\ <<y, x>>[1] < <<y, x>>[2]
    BY <1>2
  <2> QED
    BY <1>1, <2>1, Zenon DEF OpToRel
<1>3. \A y \in S : x <= y
  BY <1>2
<1> QED
  BY <1>3

\* Taking the window at p out of the stack leaves the others, in their order.
LEMMA RemoveAtIs ==
    ASSUME NEW z \in Seq(Slots), NEW p \in DOMAIN z
    PROVE  /\ RemoveAt(z, p) \in Seq(Slots)
           /\ Len(RemoveAt(z, p)) = Len(z) - 1
           /\ \A j \in 1..(Len(z) - 1) : RemoveAt(z, p)[j] = IF j < p THEN z[j] ELSE z[j + 1]
<1> DEFINE a == SubSeq(z, 1, p - 1)
           b == SubSeq(z, p + 1, Len(z))
<1>1. p \in 1..Len(z) /\ Len(z) \in Nat
  OBVIOUS
<1>2. a \in Seq(Slots) /\ Len(a) = p - 1 /\ \A j \in 1..(p - 1) : a[j] = z[j]
  BY <1>1
<1>3. b \in Seq(Slots) /\ Len(b) = Len(z) - p /\ \A j \in 1..(Len(z) - p) : b[j] = z[p + j]
  BY <1>1
<1> HIDE DEF a, b
<1>4. a \o b \in Seq(Slots) /\ Len(a \o b) = Len(z) - 1
  BY <1>1, <1>2, <1>3
<1>5. ASSUME NEW j \in 1..(Len(z) - 1)
      PROVE  (a \o b)[j] = IF j < p THEN z[j] ELSE z[j + 1]
  <2>1. CASE j < p
    BY <1>1, <1>2, <1>3, <2>1
  <2>2. CASE j >= p
    <3>1. (a \o b)[j] = b[j - (p - 1)]
      BY <1>1, <1>2, <1>3, <2>2, SMTT(30)
    <3>2. j - (p - 1) \in 1..(Len(z) - p) /\ p + (j - (p - 1)) = j + 1
      BY <1>1, <2>2
    <3> QED
      BY <1>1, <1>3, <2>2, <3>1, <3>2, SMTT(30)
  <2>3. j < p \/ j >= p
    BY <1>1
  <2>4. j >= p => ~(j < p)
    BY <1>1
  <2> HIDE DEF a, b
  <2> QED
    BY <2>1, <2>2, <2>3, <2>4
<1> QED
  BY <1>4, <1>5 DEF RemoveAt, a, b

\* Without(z, w) is a stack of the windows of z other than w, with the same
\* window on top unless that was w.
LEMMA WithoutIs ==
    ASSUME NEW z, Distinct(z), NEW w \in Slots
    PROVE  /\ Distinct(Without(z, w))
           /\ On(Without(z, w)) = On(z) \ {w}
           /\ On(z) \ {w} # {} => /\ Without(z, w) # <<>>
                                  /\ z[Len(z)] # w => Last(Without(z, w)) = z[Len(z)]
<1> DEFINE at == {p \in DOMAIN z : z[p] = w}
<1>1. z \in Seq(Slots) /\ DOMAIN z = 1..Len(z) /\ Len(z) \in Nat
  BY DEF Distinct
<1>2. CASE at = {}
  <2>1. Without(z, w) = z /\ w \notin On(z)
    BY <1>2 DEF Without, On
  <2>2. On(z) # {} => z # <<>>
    BY DEF On
  <2> QED
    BY <2>1, <2>2 DEF Last
<1>3. CASE at # {}
  <2>1. PICK p \in DOMAIN z : z[p] = w
    BY <1>3
  <2>2. at = {p}
    BY <2>1 DEF Distinct
  <2>3. Min(at) = p
    BY <1>1, <2>2 DEF Min
  <2> DEFINE r == RemoveAt(z, p)
  <2>4. Without(z, w) = r
    BY <1>3, <2>3 DEF Without
  <2>a. /\ r \in Seq(Slots)
        /\ Len(r) = Len(z) - 1
        /\ \A j \in 1..(Len(z) - 1) : r[j] = IF j < p THEN z[j] ELSE z[j + 1]
    BY <1>1, RemoveAtIs
  <2> HIDE DEF r
  <2>b. DOMAIN r = 1..(Len(z) - 1)
    BY <2>a
  <2>5. /\ r \in Seq(Slots) /\ Len(r) = Len(z) - 1 /\ DOMAIN r = 1..(Len(z) - 1)
        /\ \A j \in DOMAIN r : \/ j < p /\ r[j] = z[j]
                               \/ j >= p /\ r[j] = z[j + 1]
    BY <1>1, <2>a, <2>b
  <2>6. Distinct(r)
    <3>1. ASSUME NEW i \in DOMAIN r, NEW j \in DOMAIN r, r[i] = r[j] PROVE i = j
      BY <1>1, <2>1, <2>5, <3>1 DEF Distinct
    <3> QED
      BY <2>5, <3>1 DEF Distinct
  <2>7. On(r) = On(z) \ {w}
    <3>1. ASSUME NEW j \in DOMAIN r PROVE r[j] \in On(z) \ {w}
      <4>1. PICK q \in DOMAIN z : q # p /\ r[j] = z[q]
        BY <1>1, <2>1, <2>5
      <4> QED
        BY <2>1, <4>1 DEF Distinct, On
    <3>2. ASSUME NEW q \in DOMAIN z, q # p PROVE z[q] \in On(r)
      <4>1. CASE q < p
        BY <1>1, <2>1, <2>5, <4>1 DEF On
      <4>2. CASE q > p
        <5>1. q - 1 \in DOMAIN r /\ r[q - 1] = z[q]
          BY <1>1, <2>1, <2>5, <4>2
        <5> QED
          BY <5>1 DEF On
      <4> QED
        BY <1>1, <2>1, <3>2, <4>1, <4>2
    <3> QED
      BY <2>1, <3>1, <3>2 DEF On
  <2>8. On(r) # {} => r # <<>>
    BY DEF On
  <2>9. ASSUME On(r) # {}, z[Len(z)] # w PROVE r[Len(r)] = z[Len(z)]
    <3>1. Len(r) \in 1..(Len(z) - 1)
      BY <1>1, <2>5, <2>9 DEF On
    <3>2. p < Len(z)
      BY <1>1, <2>1, <2>9
    <3> QED
      BY <1>1, <2>1, <2>5, <3>1, <3>2
  <2> QED
    BY <2>4, <2>6, <2>7, <2>8, <2>9 DEF Last
<1> QED
  BY <1>2, <1>3

\* A window put on top of a stack it is not in.
LEMMA AppendIs ==
    ASSUME NEW z, Distinct(z), NEW w \in Slots, w \notin On(z)
    PROVE  /\ Distinct(Append(z, w))
           /\ On(Append(z, w)) = On(z) \cup {w}
           /\ Append(z, w)[Len(Append(z, w))] = w
<1> DEFINE r == Append(z, w)
<1>1. z \in Seq(Slots) /\ DOMAIN z = 1..Len(z) /\ Len(z) \in Nat
  BY DEF Distinct
<1>2. /\ r \in Seq(Slots) /\ Len(r) = Len(z) + 1 /\ DOMAIN r = 1..(Len(z) + 1)
      /\ \A j \in DOMAIN z : r[j] = z[j]
      /\ r[Len(z) + 1] = w
  BY <1>1
<1> HIDE DEF r
<1>3. \A j \in DOMAIN r : j \in DOMAIN z \/ j = Len(z) + 1
  BY <1>1, <1>2
<1>4. Distinct(r)
  <2>1. ASSUME NEW i \in DOMAIN r, NEW j \in DOMAIN r, r[i] = r[j] PROVE i = j
    <3>1. \A k \in DOMAIN z : z[k] # w
      BY DEF On
    <3> QED
      BY <1>2, <1>3, <2>1, <3>1 DEF Distinct
  <2> QED
    BY <1>2, <2>1 DEF Distinct
<1>5. On(r) = On(z) \cup {w}
  <2>1. DOMAIN z \subseteq DOMAIN r /\ Len(z) + 1 \in DOMAIN r
    BY <1>1, <1>2
  <2> QED
    BY <1>2, <1>3, <2>1 DEF On
<1> QED
  BY <1>2, <1>4, <1>5 DEF r

-----------------------------------------------------------------------------
(* The operations on a desktop. *)

\* Two slots that differ in the focus at most.
SameBut(x, y) == /\ x.used = y.used /\ x.priv = y.priv /\ x.minimized = y.minimized
                 /\ x.dragging = y.dragging /\ x.anim = y.anim

\* What giving or taking the focus of a slot changes, and what it leaves.
LEMMA FocusedIs ==
    ASSUME NEW x \in Window, NEW b \in BOOLEAN
    PROVE  LET y == [x EXCEPT !.focused = b] IN
           y \in Window /\ SameBut(y, x) /\ y.focused = b
BY DEF Window, SameBut

\* z_bring of an open window, whoever had the focus before.
LEMMA BringIs ==
    ASSUME NEW ws, NEW z, SlotsOK(ws), Distinct(z), NEW w \in Slots, ws[w].used,
           On(z) \cup {w} = {v \in Slots : ws[v].used}
    PROVE  LET d == Bring([wins |-> ws, zorder |-> z], w) IN
           /\ SlotsOK(d.wins) /\ StackOK(d.wins, d.zorder) /\ FocusOK(d.wins, d.zorder)
           /\ \A v \in Slots : SameBut(d.wins[v], ws[v])
<1> DEFINE d == Bring([wins |-> ws, zorder |-> z], w)
           rest == Without(z, w)
<1>1. Distinct(rest) /\ On(rest) = On(z) \ {w}
  BY WithoutIs
<1>2. d.zorder = Append(rest, w)
  BY DEF Bring
<1>3. d.wins = FocusOn(ws, w)
  BY DEF Bring
<1> HIDE DEF d, rest
<1>4. /\ Distinct(d.zorder) /\ On(d.zorder) = On(z) \cup {w}
      /\ d.zorder[Len(d.zorder)] = w
  BY <1>1, <1>2, AppendIs
<1>5. \A v \in Slots : ws[v] \in Window
  BY DEF SlotsOK
<1>6. /\ d.wins \in [Slots -> Window]
      /\ \A v \in Slots : /\ SameBut(d.wins[v], ws[v])
                          /\ d.wins[v].focused <=> v = w
  <2>1. ASSUME NEW v \in Slots
        PROVE  d.wins[v] \in Window /\ SameBut(d.wins[v], ws[v]) /\ (d.wins[v].focused <=> v = w)
    <3>1. CASE v = w
      <4>1. d.wins[v] = [ws[v] EXCEPT !.focused = TRUE]
        BY <1>3, <3>1 DEF FocusOn
      <4>2. d.wins[v] \in Window /\ SameBut(d.wins[v], ws[v]) /\ d.wins[v].focused = TRUE
        BY <1>5, <4>1, FocusedIs, Zenon
      <4> QED
        BY <3>1, <4>2
    <3>2. CASE v # w
      <4>1. d.wins[v] = [ws[v] EXCEPT !.focused = FALSE]
        BY <1>3, <3>2 DEF FocusOn
      <4>2. ws[v] \in Window /\ FALSE \in BOOLEAN
        BY <1>5
      <4>3. d.wins[v] \in Window /\ SameBut(d.wins[v], ws[v]) /\ d.wins[v].focused = FALSE
        BY <4>1, <4>2, FocusedIs, Zenon
      <4> QED
        BY <3>2, <4>3
    <3> QED
      BY <3>1, <3>2
  <2>2. d.wins = [v \in Slots |-> d.wins[v]]
    BY <1>3, Zenon DEF FocusOn
  <2>3. d.wins \in [Slots -> Window]
    BY <2>1, <2>2
  <2> QED
    BY <2>1, <2>3
<1>7. SlotsOK(d.wins)
  BY <1>6 DEF SlotsOK, SameBut
<1>8. StackOK(d.wins, d.zorder)
  BY <1>4, <1>6 DEF StackOK, SameBut
<1>9. FocusOK(d.wins, d.zorder)
  BY <1>4, <1>6 DEF FocusOK
<1> QED
  BY <1>6, <1>7, <1>8, <1>9 DEF d

\* gui_open, with or without a free slot and memory.  A window that is dragged
\* afterwards was dragged before; with memory the first slot is taken.
LEMMA OpenIs ==
    ASSUME NEW ws, NEW z, SlotsOK(ws), StackOK(ws, z), FocusOK(ws, z),
           NEW room \in BOOLEAN
    PROVE  LET d == Open([wins |-> ws, zorder |-> z], room) IN
           /\ SlotsOK(d.wins) /\ StackOK(d.wins, d.zorder) /\ FocusOK(d.wins, d.zorder)
           /\ \A v \in Slots : d.wins[v].used /\ d.wins[v].dragging
                                => ws[v].used /\ ws[v].dragging
           /\ room => d.wins[0].used
<1> DEFINE d == Open([wins |-> ws, zorder |-> z], room)
           free == FreeSlots([wins |-> ws, zorder |-> z])
           i == Min(free)
<1>1. free = {v \in Slots : ~ws[v].used} /\ 0 \in Slots
  BY GuiAssumption DEF FreeSlots, Slots
<1>2. CASE free = {}
  BY <1>1, <1>2 DEF Open
<1>3. CASE free # {}
  <2>1. i \in Slots /\ ~ws[i].used /\ (ws[0].used \/ i = 0)
    <3>1. free \subseteq Nat
      BY <1>1, GuiAssumption DEF Slots
    <3>2. \E x \in free : \A y \in free : x <= y
      BY <1>3, <3>1, LeastOf
    <3>3. i \in free /\ \A y \in free : i <= y
      BY <3>2 DEF Min
    <3> QED
      BY <1>1, <3>1, <3>3
  <2> HIDE DEF i, free
  <2>2. CASE ~room
    <3> DEFINE us == [ws EXCEPT ![i] = Zeroed]
    <3>1. d = [wins |-> us, zorder |-> z]
      BY <1>3, <2>2 DEF Open, i, free
    <3> HIDE DEF d
    <3>2. Zeroed \in Window /\ ~Zeroed.used /\ ~Zeroed.priv /\ ~Zeroed.dragging
      BY GuiAssumption DEF Zeroed, Window
    <3>3. us \in [Slots -> Window] /\ \A v \in Slots : us[v] = IF v = i THEN Zeroed ELSE ws[v]
      BY <2>1, <3>2 DEF SlotsOK
    <3> HIDE DEF us
    <3>4. SlotsOK(us)
      BY <2>1, <3>2, <3>3 DEF SlotsOK
    <3>5. StackOK(us, z)
      BY <2>1, <3>2, <3>3 DEF StackOK
    <3>6. FocusOK(us, z)
      BY <2>1, <3>2, <3>3 DEF FocusOK
    <3>7. d.wins = us /\ d.zorder = z
      BY <3>1
    <3> QED
      BY <2>2, <3>2, <3>3, <3>4, <3>5, <3>6, <3>7 DEF d
  <2>3. CASE room
    <3> DEFINE us == [ws EXCEPT ![i] = Opening]
    <3>1. d = Bring([wins |-> us, zorder |-> z], i)
      BY <1>3, <2>3 DEF Open, i, free
    <3>2. /\ Opening \in Window /\ Opening.used /\ Opening.priv
          /\ ~Opening.minimized /\ ~Opening.dragging
      BY GuiAssumption DEF Opening, Window
    <3>3. us \in [Slots -> Window] /\ \A v \in Slots : us[v] = IF v = i THEN Opening ELSE ws[v]
      BY <2>1, <3>2 DEF SlotsOK
    <3> HIDE DEF us, d
    <3>4. SlotsOK(us)
      BY <2>1, <3>2, <3>3 DEF SlotsOK
    <3>5. On(z) \cup {i} = {v \in Slots : us[v].used} /\ Distinct(z)
      BY <2>1, <3>2, <3>3 DEF StackOK
    <3>6. us[i].used
      BY <2>1, <3>2, <3>3
    <3>7. /\ SlotsOK(d.wins) /\ StackOK(d.wins, d.zorder) /\ FocusOK(d.wins, d.zorder)
          /\ \A v \in Slots : SameBut(d.wins[v], us[v])
      BY <2>1, <3>1, <3>4, <3>5, <3>6, BringIs
    <3> QED
      BY <1>1, <2>1, <3>2, <3>3, <3>7 DEF d, SameBut
  <2> QED
    BY <2>2, <2>3
<1> QED
  BY <1>2, <1>3

\* gui_close, of an open window or of one that is closed already.  A window that
\* is open afterwards was open before, and is another one.
LEMMA CloseIs ==
    ASSUME NEW ws, NEW z, SlotsOK(ws), StackOK(ws, z), FocusOK(ws, z), NEW w \in Slots
    PROVE  LET d == Close([wins |-> ws, zorder |-> z], w) IN
           /\ SlotsOK(d.wins) /\ StackOK(d.wins, d.zorder) /\ FocusOK(d.wins, d.zorder)
           /\ \A v \in Slots : d.wins[v].used =>
                 v # w /\ ws[v].used /\ d.wins[v].dragging = ws[v].dragging
<1> DEFINE d == Close([wins |-> ws, zorder |-> z], w)
           rest == Without(z, w)
           cs == [ws EXCEPT ![w] = Closed(@)]
<1>1. Distinct(z) /\ Distinct(rest) /\ On(rest) = On(z) \ {w}
  BY WithoutIs DEF StackOK
<1>2. \A v \in Slots : ws[v] \in Window
  BY DEF SlotsOK
<1>3. /\ Closed(ws[w]) \in Window /\ ~Closed(ws[w]).used /\ ~Closed(ws[w]).priv
  BY <1>2, GuiAssumption DEF Closed, Window
<1>4. cs \in [Slots -> Window] /\ \A v \in Slots : cs[v] = IF v = w THEN Closed(ws[w]) ELSE ws[v]
  BY <1>2, <1>3 DEF SlotsOK
<1>5. d.zorder = rest /\ d.wins = IF rest = <<>> THEN cs ELSE [cs EXCEPT ![Last(rest)].focused = TRUE]
  BY DEF Close
<1> HIDE DEF d, rest, cs
<1>6. SlotsOK(cs)
  BY <1>3, <1>4 DEF SlotsOK
<1>7. On(rest) = {v \in Slots : cs[v].used}
  BY <1>1, <1>3, <1>4 DEF StackOK
<1>8. \A v \in Slots : cs[v].used => v # w /\ cs[v] = ws[v]
  BY <1>3, <1>4
<1>9. CASE rest = <<>>
  <2>1. \A v \in Slots : ~cs[v].used
    BY <1>7, <1>9 DEF On
  <2>2. d.wins = cs /\ d.zorder = rest
    BY <1>5, <1>9
  <2> QED
    BY <1>1, <1>6, <1>7, <2>1, <2>2 DEF StackOK, FocusOK, d
<1>10. CASE rest # <<>>
  <2> DEFINE top == Last(rest)
  <2>1. top \in On(rest) /\ top = rest[Len(rest)]
    BY <1>1, <1>10 DEF On, Distinct, Last
  <2>2. top \in Slots /\ cs[top].used
    BY <1>7, <2>1
  <2> HIDE DEF top
  <2>3. /\ d.wins \in [Slots -> Window]
        /\ \A v \in Slots : v # top => d.wins[v] = cs[v]
        /\ SameBut(d.wins[top], cs[top])
        /\ d.wins[top].focused = TRUE
    <3>1. d.wins = [cs EXCEPT ![top] = [cs[top] EXCEPT !.focused = TRUE]]
      BY <1>5, <1>10 DEF top
    <3>2. cs[top] \in Window
      BY <1>4, <2>2
    <3>3. /\ [cs[top] EXCEPT !.focused = TRUE] \in Window
          /\ SameBut([cs[top] EXCEPT !.focused = TRUE], cs[top])
          /\ [cs[top] EXCEPT !.focused = TRUE].focused = TRUE
      BY <3>2, FocusedIs, Zenon
    <3> DEFINE new == [cs[top] EXCEPT !.focused = TRUE]
    <3> HIDE DEF new
    <3>4. d.wins = [cs EXCEPT ![top] = new] /\ new \in Window
      BY <3>1, <3>3 DEF new
    <3>5. d.wins \in [Slots -> Window] /\ d.wins[top] = new
          /\ \A v \in Slots : v # top => d.wins[v] = cs[v]
      BY <1>4, <2>2, <3>4
    <3> QED
      BY <3>3, <3>5 DEF new
  <2>4. SlotsOK(d.wins)
    BY <1>6, <2>2, <2>3 DEF SlotsOK, SameBut
  <2>5. StackOK(d.wins, d.zorder)
    BY <1>1, <1>5, <1>7, <2>2, <2>3 DEF StackOK, SameBut
  <2>6. FocusOK(d.wins, d.zorder)
    <3>1. ASSUME NEW v \in Slots, cs[v].used, v # top PROVE ~cs[v].focused
      <4>1. v # w /\ cs[v] = ws[v] /\ v \in On(z) \ {w}
        BY <1>1, <1>7, <1>8, <3>1
      <4>2. ws[v].focused <=> v = z[Len(z)]
        BY <3>1, <4>1 DEF FocusOK
      <4>3. v # z[Len(z)]
        <5>1. z[Len(z)] # w => top = z[Len(z)]
          BY <1>1, <4>1, WithoutIs DEF top, rest
        <5> QED
          BY <3>1, <4>1, <5>1
      <4> QED
        BY <4>1, <4>2, <4>3
    <3> QED
      BY <1>5, <2>1, <2>2, <2>3, <3>1 DEF FocusOK, SameBut
  <2>7. \A v \in Slots : d.wins[v].used = cs[v].used /\ d.wins[v].dragging = cs[v].dragging
    BY <2>3 DEF SameBut
  <2> QED
    BY <1>8, <2>4, <2>5, <2>6, <2>7 DEF d
<1> QED
  BY <1>9, <1>10

-----------------------------------------------------------------------------
(* The slots. *)

\* What an animation's begin or end changes in a slot, and what it leaves.
LEMMA AnimateIs ==
    ASSUME NEW x \in Window, NEW kind \in 0..3
    PROVE  LET y == Animate(x, kind) IN
           /\ y \in Window /\ y.anim = kind
           /\ y.used = x.used /\ y.priv = x.priv /\ y.focused = x.focused
           /\ y.minimized = x.minimized /\ y.dragging = x.dragging
<1> DEFINE u == [x EXCEPT !.anim = kind]
           y == [u EXCEPT !.age = 0]
<1>1. /\ u \in Window /\ u.anim = kind
      /\ u.used = x.used /\ u.priv = x.priv /\ u.focused = x.focused
      /\ u.minimized = x.minimized /\ u.dragging = x.dragging
  BY Zenon DEF Window
<1> HIDE DEF u
<1>2. 0 \in 0..AnimTicks
  BY GuiAssumption
<1>3. /\ y \in Window /\ y.anim = u.anim
      /\ y.used = u.used /\ y.priv = u.priv /\ y.focused = u.focused
      /\ y.minimized = u.minimized /\ y.dragging = u.dragging
  BY <1>1, <1>2, Zenon DEF Window
<1>4. Animate(x, kind) = y
  BY Zenon DEF Animate, u
<1> HIDE DEF y
<1> QED
  BY <1>1, <1>3, <1>4

\* The same of hiding a window or showing it again.
LEMMA MinimizedIs ==
    ASSUME NEW x \in Window, NEW b \in BOOLEAN
    PROVE  LET y == [x EXCEPT !.minimized = b] IN
           /\ y \in Window /\ y.minimized = b
           /\ y.used = x.used /\ y.priv = x.priv /\ y.focused = x.focused
           /\ y.anim = x.anim /\ y.dragging = x.dragging
BY Zenon DEF Window

\* The same of grabbing a window or letting it go.
LEMMA DraggingIs ==
    ASSUME NEW x \in Window, NEW b \in BOOLEAN
    PROVE  LET y == [x EXCEPT !.dragging = b] IN
           /\ y \in Window /\ y.dragging = b
           /\ y.used = x.used /\ y.priv = x.priv /\ y.focused = x.focused
           /\ y.anim = x.anim /\ y.minimized = x.minimized
BY Zenon DEF Window

\* The same of a tick of an animation.
LEMMA AgeIs ==
    ASSUME NEW x \in Window, NEW a \in 0..AnimTicks
    PROVE  LET y == [x EXCEPT !.age = a] IN
           /\ y \in Window
           /\ y.used = x.used /\ y.priv = x.priv /\ y.focused = x.focused
           /\ y.anim = x.anim /\ y.minimized = x.minimized /\ y.dragging = x.dragging
BY Zenon DEF Window

\* Slots that keep their state in use, their memory and their focus, and animate
\* no minimised window, keep the stack and the focus right.
LEMMA SameSlots ==
    ASSUME NEW ws, NEW vs, NEW z,
           SlotsOK(ws), StackOK(ws, z), FocusOK(ws, z),
           vs \in [Slots -> Window],
           \A v \in Slots : /\ vs[v].used = ws[v].used /\ vs[v].priv = ws[v].priv
                            /\ vs[v].focused = ws[v].focused
                            /\ vs[v].used /\ vs[v].minimized => vs[v].anim = 0
    PROVE  SlotsOK(vs) /\ StackOK(vs, z) /\ FocusOK(vs, z)
BY DEF SlotsOK, StackOK, FocusOK

-----------------------------------------------------------------------------
(* The window the keys go to. *)

\* A nonempty set of places in the stack has a greatest element.
LEMMA GreatestOf ==
    ASSUME NEW n \in Nat, NEW S \in SUBSET (1..n), S # {}
    PROVE  \E x \in S : \A y \in S : x >= y
<1> DEFINE T == {n - x : x \in S}
<1>1. T \in SUBSET Nat /\ T # {}
  <2>1. \A x \in S : n - x \in Nat
    OBVIOUS
  <2> QED
    BY <2>1, Zenon
<1>2. PICK t \in T : \A u \in T : t <= u
  BY <1>1, LeastOf
<1>3. PICK x \in S : t = n - x
  BY <1>2
<1>4. ASSUME NEW y \in S PROVE x >= y
  <2>1. t <= n - y
    BY <1>2
  <2> QED
    BY <1>3, <2>1
<1> QED
  BY <1>4

\* focused_win gives a slot, or none.
LEMMA FocusedWinIs ==
    ASSUME NEW ws, NEW z, z \in Seq(Slots)
    PROVE  FocusedWin([wins |-> ws, zorder |-> z]) \in Slots \cup {NULL}
<1> DEFINE up == {p \in DOMAIN z : ws[z[p]].used /\ ~ws[z[p]].minimized}
<1>1. FocusedWin([wins |-> ws, zorder |-> z]) = IF up = {} THEN NULL ELSE z[Max(up)]
  BY DEF FocusedWin
<1>2. ASSUME up # {} PROVE Max(up) \in DOMAIN z
  <2>1. Len(z) \in Nat /\ up \in SUBSET (1..Len(z))
    OBVIOUS
  <2>2. \E x \in up : \A y \in up : x >= y
    BY <1>2, <2>1, GreatestOf
  <2>3. Max(up) \in up
    BY <2>2 DEF Max
  <2> QED
    BY <2>3
<1> HIDE DEF up
<1> QED
  BY <1>1, <1>2

-----------------------------------------------------------------------------
(* The steps. *)

\* gui_init opens two windows on an empty desktop and brings the first to the top.
LEMMA InitOK == Init => GInv
<1> SUFFICES ASSUME Init PROVE GInv
  OBVIOUS
<1> DEFINE none == [i \in Slots |-> Zeroed]
           d1 == Open([wins |-> none, zorder |-> <<>>], TRUE)
           d2 == Open(d1, TRUE)
           d == Bring(d2, 0)
<1>1. /\ wins = d.wins /\ zorder = d.zorder
      /\ startOpen = FALSE /\ prevBtn = FALSE /\ elapsed = FALSE
      /\ pc = "keys" /\ fw = FocusedWin(d) /\ grabbed = NULL
  BY Zenon DEF Init
<1>2. /\ SlotsOK(none) /\ StackOK(none, <<>>) /\ FocusOK(none, <<>>)
      /\ \A v \in Slots : ~none[v].used
  <2>1. Zeroed \in Window /\ ~Zeroed.used /\ ~Zeroed.priv
    BY GuiAssumption DEF Zeroed, Window
  <2>2. <<>> \in Seq(Slots) /\ DOMAIN <<>> = {}
    OBVIOUS
  <2> QED
    BY <2>1, <2>2 DEF SlotsOK, StackOK, FocusOK, Distinct, On
<1> DEFINE ws1 == d1.wins
           z1 == d1.zorder
           ws2 == d2.wins
           z2 == d2.zorder
<1>3. /\ SlotsOK(ws1) /\ StackOK(ws1, z1) /\ FocusOK(ws1, z1)
      /\ \A v \in Slots : ~(ws1[v].used /\ ws1[v].dragging)
  BY <1>2, OpenIs
<1>4. d2 = Open([wins |-> ws1, zorder |-> z1], TRUE)
  BY DEF Open, FreeSlots, Bring
<1> HIDE DEF none, d1
<1>5. /\ SlotsOK(ws2) /\ StackOK(ws2, z2) /\ FocusOK(ws2, z2) /\ ws2[0].used
      /\ \A v \in Slots : ~(ws2[v].used /\ ws2[v].dragging)
  BY <1>3, <1>4, OpenIs
<1>6. d = Bring([wins |-> ws2, zorder |-> z2], 0)
  BY DEF Bring
<1> HIDE DEF d2
<1>7. 0 \in Slots /\ Distinct(z2) /\ On(z2) \cup {0} = {v \in Slots : ws2[v].used}
  BY <1>5, GuiAssumption DEF StackOK, Slots
<1>8. /\ SlotsOK(d.wins) /\ StackOK(d.wins, d.zorder) /\ FocusOK(d.wins, d.zorder)
      /\ \A v \in Slots : SameBut(d.wins[v], ws2[v])
  BY <1>5, <1>6, <1>7, BringIs
<1>9. d = [wins |-> d.wins, zorder |-> d.zorder]
  BY <1>6 DEF Bring
<1> HIDE DEF d
<1>10. FocusedWin(d) \in Slots \cup {NULL}
  BY <1>8, <1>9, FocusedWinIs DEF StackOK, Distinct
<1>11. DragOK(wins, grabbed, prevBtn)
  BY <1>1, <1>5, <1>8 DEF DragOK, SameBut
<1> QED
  BY <1>1, <1>8, <1>10, <1>11 DEF GInv, RestOK

\* The keys keep the invariant: a digit, or a terminal's command, opens a window
\* or closes the terminal's own.
LEMMA KeysOK == GInv /\ Keys => GInv'
<1> SUFFICES ASSUME GInv, Keys PROVE GInv'
  OBVIOUS
<1>1. CASE MenuKey
  BY <1>1 DEF MenuKey, GInv, RestOK
<1>2. ASSUME NEW room \in BOOLEAN, Show(Open(desktop, room))
      PROVE  /\ SlotsOK(wins') /\ StackOK(wins', zorder') /\ FocusOK(wins', zorder')
             /\ DragOK(wins', grabbed, prevBtn)
  <2> DEFINE d == Open([wins |-> wins, zorder |-> zorder], room)
  <2>1. wins' = d.wins /\ zorder' = d.zorder
    BY <1>2 DEF Show, desktop
  <2>2. /\ SlotsOK(d.wins) /\ StackOK(d.wins, d.zorder) /\ FocusOK(d.wins, d.zorder)
        /\ \A v \in Slots : d.wins[v].used /\ d.wins[v].dragging
                             => wins[v].used /\ wins[v].dragging
    BY OpenIs DEF GInv
  <2> HIDE DEF d
  <2> QED
    BY <2>1, <2>2 DEF GInv, DragOK
<1>3. CASE DigitKey
  <2>1. PICK room \in BOOLEAN : Show(Open(desktop, room))
    BY <1>3 DEF DigitKey
  <2> QED
    BY <1>2, <1>3, <2>1 DEF DigitKey, GInv, RestOK
<1>4. CASE AppKey
  <2>1. fw \in Slots /\ UNCHANGED <<startOpen, prevBtn, elapsed, pc, fw>>
    BY <1>4 DEF AppKey, GInv, RestOK
  <2>2. CASE UNCHANGED <<wins, zorder, grabbed>>
    BY <2>1, <2>2 DEF GInv, RestOK
  <2>3. CASE /\ Show(Close(desktop, fw))
             /\ grabbed' = IF grabbed = fw THEN NULL ELSE grabbed
    <3> DEFINE d == Close([wins |-> wins, zorder |-> zorder], fw)
    <3>1. wins' = d.wins /\ zorder' = d.zorder
      BY <2>3 DEF Show, desktop
    <3>2. /\ SlotsOK(d.wins) /\ StackOK(d.wins, d.zorder) /\ FocusOK(d.wins, d.zorder)
          /\ \A v \in Slots : d.wins[v].used =>
                v # fw /\ wins[v].used /\ d.wins[v].dragging = wins[v].dragging
      BY <2>1, CloseIs DEF GInv
    <3> HIDE DEF d
    <3>3. DragOK(wins', grabbed', prevBtn)
      BY <2>3, <3>1, <3>2 DEF GInv, DragOK
    <3> QED
      BY <2>1, <2>3, <3>1, <3>2, <3>3 DEF GInv, RestOK
  <2>4. CASE /\ \E room \in BOOLEAN : Show(Open(desktop, room))
             /\ UNCHANGED grabbed
    BY <1>2, <2>1, <2>4 DEF GInv, RestOK
  <2> QED
    BY <1>4, <2>2, <2>3, <2>4 DEF AppKey
<1> QED
  BY <1>1, <1>3, <1>4 DEF Keys

\* The parts of GInv, with the desktop as a record, for the steps of the mouse.
LEMMA MouseStep ==
    ASSUME GInv, NEW b \in BOOLEAN, Look(b), startOpen' \in BOOLEAN,
           grabbed' \in Slots \cup {NULL},
           SlotsOK(wins'), StackOK(wins', zorder'), FocusOK(wins', zorder'),
           DragOK(wins', grabbed', b)
    PROVE  GInv'
BY DEF GInv, RestOK, Look

\* On a click nothing is being dragged: the button was up.
LEMMA ClickedIs ==
    ASSUME GInv, Clicked
    PROVE  /\ Look(TRUE) /\ TRUE \in BOOLEAN
           /\ \A v \in Slots : ~(wins[v].used /\ wins[v].dragging)
BY DEF GInv, Clicked, DragOK

\* A click that puts the window w on top.
LEMMA RaisedIs ==
    ASSUME GInv, Clicked, NEW w \in Slots, wins[w].used
    PROVE  LET d == Bring(desktop, w) IN
           /\ d = [wins |-> d.wins, zorder |-> d.zorder]
           /\ SlotsOK(d.wins) /\ StackOK(d.wins, d.zorder) /\ FocusOK(d.wins, d.zorder)
           /\ \A v \in Slots : SameBut(d.wins[v], wins[v])
           /\ \A v \in Slots : ~(d.wins[v].used /\ d.wins[v].dragging)
<1> DEFINE d == Bring([wins |-> wins, zorder |-> zorder], w)
<1>1. Distinct(zorder) /\ On(zorder) \cup {w} = {v \in Slots : wins[v].used}
  BY DEF GInv, StackOK
<1>2. SlotsOK(wins)
  BY DEF GInv
<1>3. /\ SlotsOK(d.wins) /\ StackOK(d.wins, d.zorder) /\ FocusOK(d.wins, d.zorder)
      /\ \A v \in Slots : SameBut(d.wins[v], wins[v])
  BY <1>1, <1>2, BringIs
<1>4. d = [wins |-> d.wins, zorder |-> d.zorder]
  BY DEF Bring
<1> HIDE DEF d
<1>5. Bring(desktop, w) = d
  BY DEF desktop, d
<1> QED
  BY <1>3, <1>4, <1>5, ClickedIs DEF SameBut

\* A window taken back to the screen by its button of the taskbar.
LEMMA RestoredIs ==
    ASSUME GInv, NEW w \in Slots
    PROVE  LET ws == Restored(w) IN
           /\ SlotsOK(ws)
           /\ \A v \in Slots : ws[v].used = wins[v].used /\ ws[v].dragging = wins[v].dragging
<1>1. CASE ~wins[w].minimized
  BY <1>1 DEF Restored, GInv
<1>2. CASE wins[w].minimized
  <2> DEFINE y == Animate(wins[w], 3)
             new == [y EXCEPT !.minimized = FALSE]
  <2>1. wins[w] \in Window /\ 3 \in 0..3 /\ FALSE \in BOOLEAN
    BY DEF GInv, SlotsOK
  <2>2. /\ y \in Window /\ y.used = wins[w].used /\ y.priv = wins[w].priv
        /\ y.dragging = wins[w].dragging
    BY <2>1, AnimateIs
  <2> HIDE DEF y
  <2>3. /\ new \in Window /\ new.minimized = FALSE
        /\ new.used = y.used /\ new.priv = y.priv /\ new.dragging = y.dragging
    BY <2>1, <2>2, MinimizedIs, Zenon
  <2>4. Restored(w) = [wins EXCEPT ![w] = new]
    BY <1>2, Zenon DEF Restored, y
  <2> HIDE DEF new
  <2> QED
    BY <2>2, <2>3, <2>4 DEF GInv, SlotsOK
<1> QED
  BY <1>1, <1>2

\* The look at the mouse keeps it, whatever is hit.
LEMMA MouseOK == GInv /\ Mouse => GInv'
<1> SUFFICES ASSUME GInv, Mouse PROVE GInv'
  OBVIOUS
<1>1. startOpen \in BOOLEAN /\ (~startOpen) \in BOOLEAN /\ grabbed \in Slots \cup {NULL}
  BY DEF GInv, RestOK
<1>2. CASE Released
  <2>1. ASSUME NEW v \in Slots
        PROVE  LET y == [wins[v] EXCEPT !.dragging = FALSE] IN
               /\ y \in Window /\ y.dragging = FALSE
               /\ y.used = wins[v].used /\ y.priv = wins[v].priv
               /\ y.focused = wins[v].focused
               /\ y.anim = wins[v].anim /\ y.minimized = wins[v].minimized
    <3>1. wins[v] \in Window /\ FALSE \in BOOLEAN
      BY DEF GInv, SlotsOK
    <3> QED
      BY <3>1, DraggingIs, Zenon
  <2>2. /\ wins' = [v \in Slots |-> [wins[v] EXCEPT !.dragging = FALSE]]
        /\ Look(FALSE) /\ UNCHANGED <<zorder, startOpen, grabbed>>
    BY <1>2 DEF Released
  <2>3. /\ wins' \in [Slots -> Window]
        /\ \A v \in Slots : /\ wins'[v].dragging = FALSE
                            /\ wins'[v].used = wins[v].used /\ wins'[v].priv = wins[v].priv
                            /\ wins'[v].focused = wins[v].focused
                            /\ wins'[v].anim = wins[v].anim
                            /\ wins'[v].minimized = wins[v].minimized
    <3> DEFINE y(v) == [wins[v] EXCEPT !.dragging = FALSE]
    <3> HIDE DEF y
    <3>1. wins' = [v \in Slots |-> y(v)]
      BY <2>2 DEF y
    <3>2. \A v \in Slots : /\ y(v) \in Window /\ y(v).dragging = FALSE
                           /\ y(v).used = wins[v].used /\ y(v).priv = wins[v].priv
                           /\ y(v).focused = wins[v].focused
                           /\ y(v).anim = wins[v].anim
                           /\ y(v).minimized = wins[v].minimized
      BY <2>1 DEF y
    <3> QED
      BY <3>1, <3>2
  <2>4. \A v \in Slots : wins'[v].used /\ wins'[v].minimized => wins'[v].anim = 0
    BY <2>3 DEF GInv, SlotsOK
  <2>5. SlotsOK(wins') /\ StackOK(wins', zorder) /\ FocusOK(wins', zorder)
    BY <2>3, <2>4, SameSlots DEF GInv
  <2>6. DragOK(wins', grabbed', FALSE)
    BY <2>3 DEF DragOK
  <2> QED
    BY <1>1, <2>2, <2>5, <2>6, MouseStep
<1>3. CASE Held
  BY <1>3 DEF Held, Look, GInv, RestOK
<1>4. CASE ClickStart
  BY <1>1, <1>4, ClickedIs, MouseStep DEF ClickStart, GInv, DragOK
<1>5. CASE ClickNothing
  BY <1>1, <1>5, ClickedIs, MouseStep DEF ClickNothing, GInv, DragOK
<1>9. CASE ClickMenu
  BY <1>1, <1>9, ClickedIs, MouseStep DEF ClickMenu, GInv, DragOK
<1>6. CASE ClickEntry
  <2>1. PICK room \in BOOLEAN : Show(Open(desktop, room))
    BY <1>6 DEF ClickEntry
  <2>2. Clicked /\ startOpen' = FALSE /\ grabbed' = grabbed
    BY <1>6 DEF ClickEntry
  <2> DEFINE d == Open([wins |-> wins, zorder |-> zorder], room)
  <2>3. wins' = d.wins /\ zorder' = d.zorder
    BY <2>1 DEF Show, desktop
  <2>4. /\ SlotsOK(d.wins) /\ StackOK(d.wins, d.zorder) /\ FocusOK(d.wins, d.zorder)
        /\ \A v \in Slots : d.wins[v].used /\ d.wins[v].dragging
                             => wins[v].used /\ wins[v].dragging
    BY OpenIs DEF GInv
  <2> HIDE DEF d
  <2>5. DragOK(wins', grabbed', TRUE)
    BY <2>2, <2>3, <2>4, ClickedIs DEF DragOK
  <2> QED
    BY <1>1, <2>2, <2>3, <2>4, <2>5, ClickedIs, MouseStep
<1>7. CASE ClickTask
  <2>1. PICK p \in DOMAIN zorder :
          /\ wins[zorder[p]].used
          /\ Show(Bring([desktop EXCEPT !.wins = Restored(zorder[p])], zorder[p]))
    BY <1>7 DEF ClickTask
  <2>2. Clicked /\ startOpen' = FALSE /\ grabbed' = grabbed
    BY <1>7 DEF ClickTask
  <2> DEFINE w == zorder[p]
             ws == Restored(w)
             d == Bring([wins |-> ws, zorder |-> zorder], w)
  <2>3. w \in Slots
    BY DEF GInv, StackOK, Distinct
  <2>4. /\ SlotsOK(ws)
        /\ \A v \in Slots : ws[v].used = wins[v].used /\ ws[v].dragging = wins[v].dragging
    BY <2>3, RestoredIs
  <2>5. wins' = d.wins /\ zorder' = d.zorder
    BY <2>1 DEF Show, desktop
  <2> HIDE DEF w, ws
  <2>6. /\ Distinct(zorder) /\ ws[w].used
        /\ On(zorder) \cup {w} = {v \in Slots : ws[v].used}
    BY <2>1, <2>3, <2>4 DEF GInv, StackOK, w
  <2>7. /\ SlotsOK(d.wins) /\ StackOK(d.wins, d.zorder) /\ FocusOK(d.wins, d.zorder)
        /\ \A v \in Slots : SameBut(d.wins[v], ws[v])
    BY <2>3, <2>4, <2>6, BringIs
  <2> HIDE DEF d
  <2>8. DragOK(wins', grabbed', TRUE)
    BY <2>2, <2>4, <2>5, <2>7, ClickedIs DEF DragOK, SameBut
  <2> QED
    BY <1>1, <2>2, <2>5, <2>7, <2>8, ClickedIs, MouseStep
<1>8. ASSUME NEW w \in Slots, ClickClose(w) \/ ClickMinimize(w) \/ ClickTitle(w) \/ ClickContent(w)
      PROVE  GInv'
  <2> DEFINE d == Bring(desktop, w)
  <2>1. Clicked /\ wins[w].used /\ startOpen' = FALSE
    BY <1>8 DEF ClickClose, ClickMinimize, ClickTitle, ClickContent, Visible
  <2>2. /\ d = [wins |-> d.wins, zorder |-> d.zorder]
        /\ SlotsOK(d.wins) /\ StackOK(d.wins, d.zorder) /\ FocusOK(d.wins, d.zorder)
        /\ \A v \in Slots : SameBut(d.wins[v], wins[v])
        /\ \A v \in Slots : ~(d.wins[v].used /\ d.wins[v].dragging)
    BY <2>1, RaisedIs
  <2>3. CASE ClickClose(w)
    <3> DEFINE ws == d.wins
               z == d.zorder
               c == Close([wins |-> ws, zorder |-> z], w)
    <3>1. wins' = c.wins /\ zorder' = c.zorder
      BY <2>2, <2>3 DEF ClickClose, Show
    <3>2. grabbed' \in Slots \cup {NULL}
      BY <1>1, <2>3 DEF ClickClose
    <3> HIDE DEF d
    <3>3. /\ SlotsOK(c.wins) /\ StackOK(c.wins, c.zorder) /\ FocusOK(c.wins, c.zorder)
          /\ \A v \in Slots : c.wins[v].used =>
                v # w /\ ws[v].used /\ c.wins[v].dragging = ws[v].dragging
      BY <2>2, CloseIs
    <3> HIDE DEF c
    <3>4. DragOK(wins', grabbed', TRUE)
      BY <2>2, <3>1, <3>3 DEF DragOK
    <3> QED
      BY <2>1, <3>1, <3>2, <3>3, <3>4, ClickedIs, MouseStep
  <2>4. CASE ClickMinimize(w)
    <3> DEFINE y == Animate(d.wins[w], 2)
               ws == [d.wins EXCEPT ![w] = y]
    <3>1. wins' = [d EXCEPT !.wins[w] = y].wins /\ zorder' = [d EXCEPT !.wins[w] = y].zorder
      BY <2>4, Zenon DEF ClickMinimize, Show
    <3> HIDE DEF d
    <3>2. wins[w].minimized = FALSE
      BY <2>4 DEF ClickMinimize, Visible, GInv, SlotsOK, Window
    <3>3. d.wins[w] \in Window /\ 2 \in 0..3
      BY <2>2 DEF SlotsOK
    <3>4. /\ y \in Window /\ y.used = d.wins[w].used /\ y.priv = d.wins[w].priv
          /\ y.focused = d.wins[w].focused /\ y.dragging = d.wins[w].dragging
          /\ y.minimized = d.wins[w].minimized
      BY <3>3, AnimateIs
    <3> HIDE DEF y
    <3>5. wins' = ws /\ zorder' = d.zorder
      <4> DEFINE ds == d.wins
                 z == d.zorder
      <4>1. d = [wins |-> ds, zorder |-> z]
        BY <2>2
      <4> HIDE DEF ds, z
      <4>2. d.wins = ds /\ d.zorder = z
        BY <4>1
      <4> QED
        BY <3>1, <4>1, <4>2
    <3>6. /\ ws \in [Slots -> Window]
          /\ \A v \in Slots : ws[v] = IF v = w THEN y ELSE d.wins[v]
      BY <2>2, <3>4 DEF SlotsOK
    <3> HIDE DEF ws
    <3>7. \A v \in Slots : ws[v].used /\ ws[v].minimized => ws[v].anim = 0
      BY <2>2, <3>2, <3>4, <3>6 DEF SlotsOK, SameBut
    <3>8. \A v \in Slots : /\ ws[v].used = d.wins[v].used /\ ws[v].priv = d.wins[v].priv
                           /\ ws[v].focused = d.wins[v].focused
                           /\ ws[v].dragging = d.wins[v].dragging
      BY <3>4, <3>6
    <3>9. SlotsOK(ws) /\ StackOK(ws, d.zorder) /\ FocusOK(ws, d.zorder)
      BY <2>2, <3>6, <3>7, <3>8, SameSlots
    <3>10. DragOK(wins', grabbed', TRUE)
      BY <2>2, <3>5, <3>8 DEF DragOK
    <3>11. grabbed' = grabbed
      BY <2>4 DEF ClickMinimize
    <3> QED
      BY <1>1, <2>1, <3>5, <3>9, <3>10, <3>11, ClickedIs, MouseStep
  <2>5. CASE ClickTitle(w)
    <3> DEFINE y == [d.wins[w] EXCEPT !.dragging = TRUE]
               ws == [d.wins EXCEPT ![w] = y]
    <3>1. wins' = [d EXCEPT !.wins[w] = y].wins /\ zorder' = [d EXCEPT !.wins[w] = y].zorder
      BY <2>5, Zenon DEF ClickTitle, Show
    <3> HIDE DEF d
    <3>2. d.wins[w] \in Window /\ TRUE \in BOOLEAN
      BY <2>2 DEF SlotsOK
    <3>3. /\ y \in Window /\ y.used = d.wins[w].used /\ y.priv = d.wins[w].priv
          /\ y.focused = d.wins[w].focused /\ y.anim = d.wins[w].anim
          /\ y.minimized = d.wins[w].minimized
      BY <3>2, DraggingIs, Zenon
    <3> HIDE DEF y
    <3>4. wins' = ws /\ zorder' = d.zorder
      <4> DEFINE ds == d.wins
                 z == d.zorder
      <4>1. d = [wins |-> ds, zorder |-> z]
        BY <2>2
      <4> HIDE DEF ds, z
      <4>2. d.wins = ds /\ d.zorder = z
        BY <4>1
      <4> QED
        BY <3>1, <4>1, <4>2
    <3>5. /\ ws \in [Slots -> Window]
          /\ \A v \in Slots : ws[v] = IF v = w THEN y ELSE d.wins[v]
      BY <2>2, <3>3 DEF SlotsOK
    <3> HIDE DEF ws
    <3>6. \A v \in Slots : /\ ws[v].used = d.wins[v].used /\ ws[v].priv = d.wins[v].priv
                           /\ ws[v].focused = d.wins[v].focused
                           /\ ws[v].anim = d.wins[v].anim
                           /\ ws[v].minimized = d.wins[v].minimized
                           /\ v # w => ws[v] = d.wins[v]
      BY <3>3, <3>5
    <3>7. \A v \in Slots : ws[v].used /\ ws[v].minimized => ws[v].anim = 0
      BY <2>2, <3>6 DEF SlotsOK
    <3>8. SlotsOK(ws) /\ StackOK(ws, d.zorder) /\ FocusOK(ws, d.zorder)
      BY <2>2, <3>5, <3>6, <3>7, SameSlots
    <3>9. grabbed' = w
      BY <2>5 DEF ClickTitle
    <3>10. DragOK(wins', grabbed', TRUE)
      BY <2>2, <3>4, <3>6, <3>9 DEF DragOK
    <3> QED
      BY <1>1, <2>1, <3>4, <3>8, <3>9, <3>10, ClickedIs, MouseStep
  <2>6. CASE ClickContent(w)
    <3>1. wins' = d.wins /\ zorder' = d.zorder /\ grabbed' = grabbed
      BY <2>6 DEF ClickContent, Show
    <3> HIDE DEF d
    <3>2. DragOK(wins', grabbed', TRUE)
      BY <2>2, <3>1 DEF DragOK
    <3> QED
      BY <1>1, <2>1, <2>2, <3>1, <3>2, ClickedIs, MouseStep
  <2> QED
    BY <1>8, <2>3, <2>4, <2>5, <2>6
<1> QED
  BY <1>2, <1>3, <1>4, <1>5, <1>6, <1>7, <1>8, <1>9 DEF Mouse

\* A step that changes some slots in their animation, and nothing of the stack.
LEMMA SlotStep ==
    ASSUME GInv, wins' \in [Slots -> Window],
           \A v \in Slots : /\ wins'[v].used = wins[v].used
                            /\ wins'[v].priv = wins[v].priv
                            /\ wins'[v].focused = wins[v].focused
                            /\ wins'[v].dragging = wins[v].dragging
                            /\ wins'[v].used /\ wins'[v].minimized => wins'[v].anim = 0
    PROVE  /\ SlotsOK(wins') /\ StackOK(wins', zorder) /\ FocusOK(wins', zorder)
           /\ DragOK(wins', grabbed, prevBtn)
<1>1. SlotsOK(wins') /\ StackOK(wins', zorder) /\ FocusOK(wins', zorder)
  BY SameSlots DEF GInv
<1> QED
  BY <1>1 DEF GInv, DragOK

\* An animation of slot v that ends.
LEMMA AnimationEnds ==
    ASSUME GInv, NEW v \in Slots
    PROVE  LET y == Animate(wins[v], 0) IN
           /\ y \in Window /\ y.anim = 0
           /\ y.used = wins[v].used /\ y.priv = wins[v].priv
           /\ y.focused = wins[v].focused /\ y.dragging = wins[v].dragging
<1>1. wins[v] \in Window /\ 0 \in 0..3
  BY DEF GInv, SlotsOK
<1> QED
  BY <1>1, AnimateIs

\* The minimisations that are due keep the invariant.
LEMMA SettleOK == GInv /\ Settle => GInv'
<1> SUFFICES ASSUME GInv, Settle PROVE GInv'
  OBVIOUS
<1> DEFINE new(v) == [Animate(wins[v], 0) EXCEPT !.minimized = TRUE]
           f(v) == IF wins[v].used /\ wins[v].anim = 2 /\ Due(v) THEN new(v) ELSE wins[v]
<1>1. ASSUME NEW v \in Slots
      PROVE  /\ new(v) \in Window /\ new(v).anim = 0
             /\ new(v).used = wins[v].used /\ new(v).priv = wins[v].priv
             /\ new(v).focused = wins[v].focused /\ new(v).dragging = wins[v].dragging
  <2> DEFINE y == Animate(wins[v], 0)
  <2>1. /\ y \in Window /\ y.anim = 0
        /\ y.used = wins[v].used /\ y.priv = wins[v].priv
        /\ y.focused = wins[v].focused /\ y.dragging = wins[v].dragging
    BY AnimationEnds
  <2> HIDE DEF y
  <2>2. LET n == [y EXCEPT !.minimized = TRUE] IN
        /\ n \in Window /\ n.anim = y.anim /\ n.used = y.used /\ n.priv = y.priv
        /\ n.focused = y.focused /\ n.dragging = y.dragging
    BY <2>1, MinimizedIs, Zenon
  <2>3. new(v) = [y EXCEPT !.minimized = TRUE]
    BY Zenon DEF y
  <2> HIDE DEF new
  <2> QED
    BY <2>1, <2>2, <2>3, Zenon
<1>2. wins' = [v \in Slots |-> f(v)]
  BY Zenon DEF Settle
<1> HIDE DEF new
<1>3. \A v \in Slots : /\ f(v) \in Window
                       /\ f(v).used = wins[v].used /\ f(v).priv = wins[v].priv
                       /\ f(v).focused = wins[v].focused
                       /\ f(v).dragging = wins[v].dragging
                       /\ f(v).used /\ f(v).minimized => f(v).anim = 0
  BY <1>1 DEF GInv, SlotsOK
<1> HIDE DEF f
<1>4. /\ SlotsOK(wins') /\ StackOK(wins', zorder) /\ FocusOK(wins', zorder)
      /\ DragOK(wins', grabbed, prevBtn)
  <2>1. wins' \in [Slots -> Window] /\ \A v \in Slots : wins'[v] = f(v)
    BY <1>2, <1>3
  <2> QED
    BY <1>3, <2>1, SlotStep
<1> QED
  BY <1>4 DEF Settle, GInv, RestOK

\* So does a frame, with the animations it ends.
LEMMA DrawOK == GInv /\ Draw => GInv'
<1> SUFFICES ASSUME GInv, Draw PROVE GInv'
  OBVIOUS
<1>1. /\ UNCHANGED <<zorder, startOpen, prevBtn, grabbed>> /\ pc' = "keys"
      /\ fw' = FocusedWin([wins |-> wins', zorder |-> zorder])
      /\ elapsed' \in BOOLEAN
  BY DEF Draw, GInv, RestOK
<1>2. fw' \in Slots \cup {NULL}
  BY <1>1, FocusedWinIs DEF GInv, StackOK, Distinct
<1>3. CASE wins' = wins
  BY <1>1, <1>2, <1>3 DEF GInv, RestOK
<1>4. CASE wins' = Drawn
  <2> DEFINE new(v) == Animate(wins[v], 0)
             f(v) == IF Visible(v) /\ v \in {zorder[p] : p \in DOMAIN zorder}
                          /\ wins[v].anim \in {1, 3} /\ Due(v)
                     THEN new(v) ELSE wins[v]
  <2>1. wins' = [v \in Slots |-> f(v)]
    BY <1>4, Zenon DEF Drawn
  <2>2. \A v \in Slots : /\ new(v) \in Window /\ new(v).anim = 0
                         /\ new(v).used = wins[v].used /\ new(v).priv = wins[v].priv
                         /\ new(v).focused = wins[v].focused
                         /\ new(v).dragging = wins[v].dragging
    BY AnimationEnds
  <2> HIDE DEF new
  <2>3. \A v \in Slots : /\ f(v) \in Window
                         /\ f(v).used = wins[v].used /\ f(v).priv = wins[v].priv
                         /\ f(v).focused = wins[v].focused
                         /\ f(v).dragging = wins[v].dragging
                         /\ f(v).used /\ f(v).minimized => f(v).anim = 0
    BY <2>2 DEF GInv, SlotsOK
  <2> HIDE DEF f
  <2>4. /\ SlotsOK(wins') /\ StackOK(wins', zorder) /\ FocusOK(wins', zorder)
        /\ DragOK(wins', grabbed, prevBtn)
    <3>1. wins' \in [Slots -> Window] /\ \A v \in Slots : wins'[v] = f(v)
      BY <2>1, <2>3
    <3> QED
      BY <2>3, <3>1, SlotStep
  <2> QED
    BY <1>1, <1>2, <2>4 DEF GInv, RestOK
<1> QED
  BY <1>3, <1>4 DEF Draw

\* So does the timer interrupt, at any step of the loop.
LEMMA TickOK == GInv /\ Tick => GInv'
<1> SUFFICES ASSUME GInv, Tick PROVE GInv'
  OBVIOUS
<1> DEFINE new(v) == [wins[v] EXCEPT !.age = wins[v].age + 1]
           f(v) == IF wins[v].used /\ wins[v].anim # 0 /\ ~Due(v) THEN new(v) ELSE wins[v]
<1>1. ASSUME NEW v \in Slots, ~Due(v)
      PROVE  /\ new(v) \in Window /\ new(v).anim = wins[v].anim
             /\ new(v).used = wins[v].used /\ new(v).priv = wins[v].priv
             /\ new(v).focused = wins[v].focused /\ new(v).dragging = wins[v].dragging
             /\ new(v).minimized = wins[v].minimized
  <2>1. wins[v] \in Window
    BY DEF GInv, SlotsOK
  <2>2. wins[v].age + 1 \in 0..AnimTicks
    BY <1>1, <2>1, GuiAssumption DEF Due, Window
  <2> QED
    BY <2>1, <2>2, AgeIs, Zenon
<1>2. wins' = [v \in Slots |-> f(v)]
  BY Zenon DEF Tick
<1> HIDE DEF new
<1>3. \A v \in Slots : /\ f(v) \in Window
                       /\ f(v).used = wins[v].used /\ f(v).priv = wins[v].priv
                       /\ f(v).focused = wins[v].focused
                       /\ f(v).dragging = wins[v].dragging
                       /\ f(v).used /\ f(v).minimized => f(v).anim = 0
  BY <1>1 DEF GInv, SlotsOK
<1> HIDE DEF f
<1>4. /\ SlotsOK(wins') /\ StackOK(wins', zorder) /\ FocusOK(wins', zorder)
      /\ DragOK(wins', grabbed, prevBtn)
  <2>1. wins' \in [Slots -> Window] /\ \A v \in Slots : wins'[v] = f(v)
    BY <1>2, <1>3
  <2> QED
    BY <1>3, <2>1, SlotStep
<1> QED
  BY <1>4 DEF Tick, GInv, RestOK

-----------------------------------------------------------------------------
(* The theorems. *)

\* What every state satisfies: the desktop is sound as a whole.  None of the
\* parts is inductive without the others: the new top window of a closing is
\* open because the stack is right, and it is put on top once because a free
\* slot is not in the stack.
THEOREM GuiInvariant == Spec => []GInv
<1>1. GInv /\ [Next]_vars => GInv'
  <2>1. GInv /\ UNCHANGED vars => GInv'
    BY DEF vars, GInv, RestOK
  <2> QED
    BY <2>1, KeysOK, MouseOK, SettleOK, DrawOK, TickOK DEF Next
<1> QED
  BY <1>1, InitOK, PTL DEF Spec

\* A stack without repetition has room for its windows in MAXW places.
LEMMA StackFits ==
    ASSUME NEW z, Distinct(z)
    PROVE  Len(z) <= MaxW
<1>1. z \in Seq(Slots) /\ Len(z) \in Nat /\ DOMAIN z = 1..Len(z)
  BY DEF Distinct
<1>2. z \in Injection(1..Len(z), Slots)
  BY <1>1 DEF Distinct, Injection, IsInjective
<1>3. IsFiniteSet(Slots) /\ Cardinality(Slots) = MaxW
  BY GuiAssumption, FS_Interval DEF Slots
<1>4. Cardinality(1..Len(z)) = Len(z)
  BY <1>1, FS_Interval, SMTT(30)
<1>5. Cardinality(1..Len(z)) <= Cardinality(Slots)
  BY <1>2, <1>3, FS_Injection
<1> QED
  BY <1>3, <1>4, <1>5

\* z_bring never writes past the end of zorder (gui.c:35), and every variable
\* keeps its type.
THEOREM TypeCorrect == Spec => []TypeOK
<1>1. GInv => TypeOK
  <2> SUFFICES ASSUME GInv PROVE TypeOK
    OBVIOUS
  <2>1. Distinct(zorder)
    BY DEF GInv, StackOK
  <2> QED
    BY <2>1, StackFits DEF GInv, SlotsOK, RestOK, Distinct, TypeOK
<1> QED
  BY <1>1, GuiInvariant, PTL

\* The stack is the open windows, each once (gui.c, zorder).
THEOREM StackIsOpen == Spec => []ZOrder
<1>1. GInv => ZOrder
  BY DEF GInv, StackOK, Distinct, On, ZOrder, Stacked
<1> QED
  BY <1>1, GuiInvariant, PTL

\* The top window and no other open one is shown as focused.
THEOREM TopIsFocused == Spec => []OneFocus
<1>1. GInv => OneFocus
  BY DEF GInv, FocusOK, OneFocus
<1> QED
  BY <1>1, GuiInvariant, PTL

\* A slot owns an application's state exactly while it is in use.
THEOREM OpenHasPriv == Spec => []PrivWhileOpen
<1>1. GInv => PrivWhileOpen
  BY DEF GInv, SlotsOK, PrivWhileOpen
<1> QED
  BY <1>1, GuiInvariant, PTL

\* The window that follows the mouse is the one that was grabbed.
THEOREM OnlyTheGrabbedMoves == Spec => []DragIsGrab
<1>1. GInv => DragIsGrab
  BY DEF GInv, DragOK, DragIsGrab
<1> QED
  BY <1>1, GuiInvariant, PTL

\* A minimised window is in no animation.
THEOREM MinimizedStands == Spec => []MinimizedIsStill
<1>1. GInv => MinimizedIsStill
  BY DEF GInv, SlotsOK, MinimizedIsStill
<1> QED
  BY <1>1, GuiInvariant, PTL

-----------------------------------------------------------------------------
(* The order of the windows. *)

\* Taking w out of a stack that holds it on top, or not at all, gives the rest.
LEMMA WithoutAgain ==
    ASSUME NEW r, Distinct(r), NEW w \in Slots, w \notin On(r)
    PROVE  Without(r, w) = r /\ Without(Append(r, w), w) = r
<1>1. r \in Seq(Slots) /\ DOMAIN r = 1..Len(r) /\ Len(r) \in Nat
  BY DEF Distinct
<1>2. \A p \in DOMAIN r : r[p] # w
  BY DEF On
<1>3. Without(r, w) = r
  BY <1>2 DEF Without
<1> DEFINE a == Append(r, w)
           n == Len(r) + 1
<1>4. /\ a \in Seq(Slots) /\ Len(a) = n /\ n \in DOMAIN a /\ DOMAIN a = 1..n
      /\ \A p \in DOMAIN r : a[p] = r[p]
      /\ a[n] = w
  BY <1>1
<1> HIDE DEF a
<1>5. {p \in DOMAIN a : a[p] = w} = {n}
  BY <1>1, <1>2, <1>4
<1>6. Min({n}) = n
  BY <1>1 DEF Min
<1>7. Without(a, w) = RemoveAt(a, n)
  BY <1>5, <1>6 DEF Without
<1> DEFINE b == RemoveAt(a, n)
<1>8. /\ b \in Seq(Slots) /\ Len(b) = Len(a) - 1
      /\ \A j \in 1..(Len(a) - 1) : b[j] = IF j < n THEN a[j] ELSE a[j + 1]
  BY <1>4, RemoveAtIs
<1> HIDE DEF b
<1>9. Len(b) = Len(r) /\ \A j \in 1..Len(r) : b[j] = r[j]
  BY <1>1, <1>4, <1>8
<1>10. b = r
  BY <1>1, <1>8, <1>9
<1> QED
  BY <1>3, <1>7, <1>10 DEF a, b

\* What a step may do to the stack z: nothing, or take w out of it, or bring w.
Moves(z, y, w) == y = z \/ y = Without(z, w) \/ y = Append(Without(z, w), w)

\* Such a step leaves the windows other than w in their order.
LEMMA MovesOne ==
    ASSUME NEW z, Distinct(z), NEW y, NEW w \in Slots, Moves(z, y, w)
    PROVE  Without(y, w) = Without(z, w)
<1>1. Distinct(Without(z, w)) /\ w \notin On(Without(z, w))
  BY WithoutIs
<1> QED
  BY <1>1, WithoutAgain DEF Moves

\* Opening moves the slot that is taken, or nothing.
LEMMA OpenMoves ==
    ASSUME NEW ws, NEW z, NEW room \in BOOLEAN
    PROVE  \E w \in Slots : Moves(z, Open([wins |-> ws, zorder |-> z], room).zorder, w)
<1> DEFINE d == [wins |-> ws, zorder |-> z]
           free == FreeSlots(d)
           i == Min(free)
<1>1. 0 \in Slots /\ Slots \subseteq Nat /\ free \subseteq Slots
  BY GuiAssumption DEF Slots, FreeSlots
<1>2. CASE free = {}
  BY <1>1, <1>2 DEF Open, Moves
<1>3. CASE free # {}
  <2>1. i \in Slots
    <3>1. \E x \in free : \A y \in free : x <= y
      BY <1>1, <1>3, LeastOf
    <3> QED
      BY <1>1, <3>1 DEF Min
  <2>2. CASE room
    <3>1. Open(d, room).zorder = Append(Without(z, i), i)
      BY <1>3, <2>2 DEF Open, Bring
    <3> QED
      BY <2>1, <3>1, Zenon DEF Moves
  <2>3. CASE ~room
    <3>1. Open(d, room).zorder = z
      BY <1>3, <2>3 DEF Open
    <3> QED
      BY <2>1, <3>1, Zenon DEF Moves
  <2> QED
    BY <2>2, <2>3
<1> QED
  BY <1>2, <1>3

\* Every step moves one window and leaves the others in their order.
THEOREM OneWindowMoves == Spec => OneMoves
<1>1. GInv /\ [Next]_vars => [\E w \in Slots : Without(zorder', w) = Without(zorder, w)]_vars
  <2> SUFFICES ASSUME GInv, Next
               PROVE  \E w \in Slots : Without(zorder', w) = Without(zorder, w)
    OBVIOUS
  <2>1. Distinct(zorder) /\ 0 \in Slots
    BY GuiAssumption DEF GInv, StackOK, Slots
  <2> SUFFICES \E w \in Slots : Moves(zorder, zorder', w)
    BY <2>1, MovesOne
  <2>2. ASSUME zorder' = zorder PROVE \E w \in Slots : Moves(zorder, zorder', w)
    BY <2>1, <2>2 DEF Moves
  <2>3. ASSUME \E room \in BOOLEAN : Show(Open(desktop, room))
        PROVE  \E w \in Slots : Moves(zorder, zorder', w)
    BY <2>3, OpenMoves DEF Show, desktop
  <2>4. CASE Keys
    <3>1. CASE AppKey
      <4>1. fw \in Slots
        BY <3>1 DEF AppKey, GInv, RestOK
      <4>2. ASSUME Show(Close(desktop, fw)) PROVE zorder' = Without(zorder, fw)
        BY <4>2 DEF Show, Close, desktop
      <4> QED
        BY <2>2, <2>3, <3>1, <4>1, <4>2 DEF AppKey, Moves
    <3> QED
      BY <2>2, <2>3, <2>4, <3>1 DEF Keys, MenuKey, DigitKey
  <2>5. CASE Mouse
    <3>1. CASE Released \/ Held \/ ClickStart \/ ClickMenu \/ ClickNothing
      BY <2>2, <3>1 DEF Released, Held, ClickStart, ClickMenu, ClickNothing
    <3>2. CASE ClickEntry
      BY <2>3, <3>2 DEF ClickEntry
    <3>3. CASE ClickTask
      <4>1. PICK p \in DOMAIN zorder :
              Show(Bring([desktop EXCEPT !.wins = Restored(zorder[p])], zorder[p]))
        BY <3>3 DEF ClickTask
      <4>2. zorder[p] \in Slots
        BY <2>1 DEF Distinct
      <4>3. zorder' = Append(Without(zorder, zorder[p]), zorder[p])
        BY <4>1 DEF Show, Bring, desktop
      <4> QED
        BY <4>2, <4>3 DEF Moves
    <3>4. ASSUME NEW w \in Slots,
                 ClickClose(w) \/ ClickMinimize(w) \/ ClickTitle(w) \/ ClickContent(w)
          PROVE  Moves(zorder, zorder', w)
      <4> DEFINE top == Append(Without(zorder, w), w)
      <4>1. CASE ClickClose(w)
        <5>1. zorder' = Without(top, w)
          BY <4>1 DEF ClickClose, Show, Close, Bring, desktop
        <5>2. Distinct(Without(zorder, w)) /\ w \notin On(Without(zorder, w))
          BY <2>1, WithoutIs
        <5> QED
          BY <5>1, <5>2, WithoutAgain DEF Moves
      <4>2. CASE ClickMinimize(w)
        BY <4>2, Zenon DEF ClickMinimize, Show, Bring, desktop, Moves
      <4>3. CASE ClickTitle(w)
        BY <4>3, Zenon DEF ClickTitle, Show, Bring, desktop, Moves
      <4>4. CASE ClickContent(w)
        BY <4>4 DEF ClickContent, Show, Bring, desktop, Moves
      <4> QED
        BY <3>4, <4>1, <4>2, <4>3, <4>4
    <3> QED
      BY <2>5, <3>1, <3>2, <3>3, <3>4 DEF Mouse
  <2>6. CASE Settle \/ Draw \/ Tick
    BY <2>2, <2>6 DEF Settle, Draw, Tick
  <2> QED
    BY <2>4, <2>5, <2>6 DEF Next
<1> QED
  BY <1>1, GuiInvariant, PTL DEF Spec, OneMoves
=============================================================================
