--------------------------------- MODULE Gui ---------------------------------
(***************************************************************************)
(* gui/gui.c: the window manager and the main loop gui_run, the only       *)
(* thread of the system.  One turn of the loop gives the waiting keys to   *)
(* the focused window, looks at the mouse, completes the minimisations and *)
(* draws; the timer interrupt runs between any two of these steps.         *)
(*                                                                         *)
(* The screen is abstracted to what a click hits (a window may be anywhere *)
(* a drag can put it, so any visible window can be hit), the six           *)
(* applications to the one that reaches this module: any window may turn   *)
(* out to be a terminal, whose exit and open commands close and open one.  *)
(***************************************************************************)
EXTENDS Integers, Sequences, SequencesExt

CONSTANTS MaxW,        \* MAXW, slots of wins
          AnimTicks    \* ticks of an animation (12)

ASSUME GuiAssumption == MaxW \in Nat /\ MaxW >= 2 /\ AnimTicks \in Nat

Slots == 0..(MaxW - 1)
NULL == -1

VARIABLES wins,       \* the slots
          zorder,     \* zorder[0..zcount-1], the top window last
          startOpen,
          prevBtn,    \* the left button when the loop last looked
          elapsed,    \* the timer has ticked since last_present
          pc,         \* the step of the loop that comes next
          fw,         \* the window the keys of this turn go to
          grabbed     \* history: the open window whose title was last pressed

vars == <<wins, zorder, startOpen, prevBtn, elapsed, pc, fw, grabbed>>

-----------------------------------------------------------------------------
(* The windows.  d = [wins, zorder] is the desktop. *)

desktop == [wins |-> wins, zorder |-> zorder]

\* A slot nobody has used: memset to zero.  Of a slot that was closed the model
\* keeps the one flag something may still find there, dragging.
Zeroed == [used |-> FALSE, focused |-> FALSE, minimized |-> FALSE,
           dragging |-> FALSE, anim |-> 0, age |-> 0, priv |-> FALSE]

\* z without w, if it is there.
Without(z, w) == LET at == {p \in DOMAIN z : z[p] = w}
                 IN  IF at = {} THEN z ELSE RemoveAt(z, Min(at))

\* The focus of one window, taken from all others.
FocusOn(ws, w) ==
    [i \in Slots |-> IF i = w THEN [ws[i] EXCEPT !.focused = TRUE]
                            ELSE [ws[i] EXCEPT !.focused = FALSE]]

\* Mutant: the window is put on top without taking it from where it was.
BringTwice(d, w) ==
    [wins |-> FocusOn(d.wins, w),
     zorder |-> Append(d.zorder, w)]

\* z_bring
Bring(d, w) ==
    [wins |-> FocusOn(d.wins, w),
     zorder |-> Append(Without(d.zorder, w), w)]

\* An animation begins, or with 0 ends.
Animate(slot, kind) == [slot EXCEPT !.anim = kind, !.age = 0]

FreeSlots(d) == {i \in Slots : ~d.wins[i].used}
Opening == [used |-> TRUE, focused |-> FALSE, minimized |-> FALSE,
            dragging |-> FALSE, anim |-> 1, age |-> 0, priv |-> TRUE]

\* Mutant: a window opens in whatever dragging state its slot was left.
OpenKeepsDragging(d, room) ==
    IF FreeSlots(d) = {} THEN d
    ELSE LET i == Min(FreeSlots(d))
             w == [Opening EXCEPT !.dragging = d.wins[i].dragging]
         IN  IF room THEN Bring([d EXCEPT !.wins[i] = w], i)
             ELSE [d EXCEPT !.wins[i] = Zeroed]

\* Mutant: a window without memory stays in use.
OpenKeepsSlot(d, room) ==
    IF FreeSlots(d) = {} THEN d
    ELSE LET i == Min(FreeSlots(d)) IN
         IF room THEN Bring([d EXCEPT !.wins[i] = Opening], i)
         ELSE [d EXCEPT !.wins[i] = [Opening EXCEPT !.priv = FALSE]]

\* gui_open takes the first free slot; kcalloc may have no room for the state of
\* the application, and the slot stays free.
Open(d, room) ==
    IF FreeSlots(d) = {} THEN d
    ELSE LET i == Min(FreeSlots(d)) IN
         IF room THEN Bring([d EXCEPT !.wins[i] = Opening], i)
         ELSE [d EXCEPT !.wins[i] = Zeroed]

Closed(slot) == [used |-> FALSE, focused |-> FALSE, minimized |-> FALSE,
                 dragging |-> slot.dragging, anim |-> 0, age |-> 0, priv |-> FALSE]

\* Mutant: nobody gets the focus of a closed window.
CloseDropsFocus(d, w) ==
    [wins |-> [d.wins EXCEPT ![w] = Closed(@)], zorder |-> Without(d.zorder, w)]

\* gui_close frees the state and gives the focus to the window that is on top now.
Close(d, w) ==
    LET rest == Without(d.zorder, w)
        closed == [d.wins EXCEPT ![w] = Closed(@)]
    IN  [wins |-> IF rest = <<>> THEN closed ELSE [closed EXCEPT ![Last(rest)].focused = TRUE],
         zorder |-> rest]

Visible(w) == wins[w].used /\ ~wins[w].minimized

\* focused_win: the highest window that is not minimised.
FocusedWin(d) ==
    LET up == {p \in DOMAIN d.zorder :
                 d.wins[d.zorder[p]].used /\ ~d.wins[d.zorder[p]].minimized}
    IN  IF up = {} THEN NULL ELSE d.zorder[Max(up)]

Show(d) == wins' = d.wins /\ zorder' = d.zorder

-----------------------------------------------------------------------------
(* The keys. *)

\* The window was chosen once, when the turn began (in Draw); the rings are then
\* read until both are empty, any number of keys, and the mouse comes next.
MenuKey ==
    /\ pc = "keys"
    /\ startOpen' = ~startOpen
    /\ UNCHANGED <<wins, zorder, prevBtn, elapsed, pc, fw, grabbed>>

DigitKey ==
    /\ pc = "keys"
    /\ startOpen
    /\ \E room \in BOOLEAN : Show(Open(desktop, room))
    /\ startOpen' = FALSE
    /\ UNCHANGED <<prevBtn, elapsed, pc, fw, grabbed>>

\* The application handles a key: the terminal may have got a line that says
\* exit or open.
AppKey ==
    /\ pc = "keys"
    /\ fw # NULL
    /\ \/ UNCHANGED <<wins, zorder, grabbed>>
       \/ /\ Show(Close(desktop, fw))
          /\ grabbed' = IF grabbed = fw THEN NULL ELSE grabbed
       \/ /\ \E room \in BOOLEAN : Show(Open(desktop, room))
          /\ UNCHANGED grabbed
    /\ UNCHANGED <<startOpen, prevBtn, elapsed, pc, fw>>

-----------------------------------------------------------------------------
(* The mouse.  The loop sees the button as it is now: a press and a release *)
(* between two looks are never seen.                                        *)

Look(btn) == /\ pc = "keys"
             /\ pc' = "settle"
             /\ fw' = NULL           \* not used any more in this turn
             /\ prevBtn' = btn
             /\ UNCHANGED elapsed

\* Mutant: a release leaves the window at the end of the mouse.
ReleaseKeepsDragging ==
    /\ Look(FALSE)
    /\ UNCHANGED <<wins, zorder, startOpen, grabbed>>

\* The button is up: no window is dragged any more.
Released ==
    /\ Look(FALSE)
    /\ wins' = [i \in Slots |-> [wins[i] EXCEPT !.dragging = FALSE]]
    /\ UNCHANGED <<zorder, startOpen, grabbed>>

\* The button stays down: the dragged window follows the mouse.
Held ==
    /\ prevBtn
    /\ Look(TRUE)
    /\ UNCHANGED <<wins, zorder, startOpen, grabbed>>

Clicked == ~prevBtn /\ Look(TRUE)

ClickStart ==
    /\ Clicked
    /\ startOpen' = ~startOpen
    /\ UNCHANGED <<wins, zorder, grabbed>>

\* One of the six entries of the menu.
ClickEntry ==
    /\ startOpen
    /\ Clicked
    /\ \E room \in BOOLEAN : Show(Open(desktop, room))
    /\ startOpen' = FALSE
    /\ UNCHANGED grabbed

\* The menu beside its entries.
ClickMenu ==
    /\ startOpen
    /\ Clicked
    /\ UNCHANGED <<wins, zorder, startOpen, grabbed>>

\* A minimised window comes back.
Restored(w) ==
    IF ~wins[w].minimized THEN wins
    ELSE [wins EXCEPT ![w] = [Animate(@, 3) EXCEPT !.minimized = FALSE]]

\* A button of the taskbar, in z-order.
ClickTask ==
    /\ Clicked
    /\ \E p \in DOMAIN zorder :
         LET w == zorder[p] IN
         wins[w].used /\ Show(Bring([desktop EXCEPT !.wins = Restored(w)], w))
    /\ startOpen' = FALSE
    /\ UNCHANGED grabbed

\* The bare desktop or taskbar.
ClickNothing ==
    /\ Clicked
    /\ startOpen' = FALSE
    /\ UNCHANGED <<wins, zorder, grabbed>>

ClickClose(w) ==
    /\ Clicked
    /\ Visible(w)
    /\ Show(Close(Bring(desktop, w), w))
    /\ startOpen' = FALSE
    /\ grabbed' = IF grabbed = w THEN NULL ELSE grabbed

ClickMinimize(w) ==
    /\ Clicked
    /\ Visible(w)
    /\ Show([Bring(desktop, w) EXCEPT !.wins[w] = Animate(@, 2)])
    /\ startOpen' = FALSE
    /\ UNCHANGED grabbed

ClickTitle(w) ==
    /\ Clicked
    /\ Visible(w)
    /\ Show([Bring(desktop, w) EXCEPT !.wins[w].dragging = TRUE])
    /\ startOpen' = FALSE
    /\ grabbed' = w

\* No application opens or closes a window on a click.
ClickContent(w) ==
    /\ Clicked
    /\ Visible(w)
    /\ Show(Bring(desktop, w))
    /\ startOpen' = FALSE
    /\ UNCHANGED grabbed

-----------------------------------------------------------------------------
(* The end of a turn. *)

Due(w) == wins[w].age >= AnimTicks

\* The minimisations that have run their time.
Settle ==
    /\ pc = "settle"
    /\ wins' = [i \in Slots |->
                  IF wins[i].used /\ wins[i].anim = 2 /\ Due(i)
                  THEN [Animate(wins[i], 0) EXCEPT !.minimized = TRUE]
                  ELSE wins[i]]
    /\ pc' = "draw"
    /\ UNCHANGED <<zorder, startOpen, prevBtn, elapsed, fw, grabbed>>

Animated == \E i \in Slots : wins[i].used /\ wins[i].anim # 0

\* Mutant: only the animation of an opening ends.
DrawnOpenOnly ==
    [i \in Slots |->
       IF Visible(i) /\ i \in {zorder[p] : p \in DOMAIN zorder}
            /\ wins[i].anim = 1 /\ Due(i)
       THEN Animate(wins[i], 0) ELSE wins[i]]

\* A window whose slide up has run its time stands still from this frame on.
Drawn ==
    [i \in Slots |->
       IF Visible(i) /\ i \in {zorder[p] : p \in DOMAIN zorder}
            /\ wins[i].anim \in {1, 3} /\ Due(i)
       THEN Animate(wins[i], 0) ELSE wins[i]]

\* A frame is drawn when something changed and the last one is at least a tick
\* old.  While a window moves that is all it takes; else what makes a frame dirty
\* (input, clock, cursor, the start menu, a second tick) is left open.
Draw ==
    /\ pc = "draw"
    /\ \E dirty \in BOOLEAN :
         /\ Animated => dirty
         /\ IF dirty /\ elapsed THEN wins' = Drawn /\ elapsed' = FALSE
                              ELSE UNCHANGED <<wins, elapsed>>
    /\ pc' = "keys"
    /\ fw' = FocusedWin([wins |-> wins', zorder |-> zorder])
    /\ UNCHANGED <<zorder, startOpen, prevBtn, grabbed>>

\* The timer interrupt.
Tick ==
    /\ elapsed' = TRUE
    /\ wins' = [i \in Slots |->
                  IF wins[i].used /\ wins[i].anim # 0 /\ ~Due(i)
                  THEN [wins[i] EXCEPT !.age = @ + 1] ELSE wins[i]]
    /\ UNCHANGED <<zorder, startOpen, prevBtn, pc, fw, grabbed>>

-----------------------------------------------------------------------------

\* gui_init: a terminal, a file manager, then the terminal is brought to the top.
\* The heap is empty then, so neither gui_open fails.
Init ==
    LET none == [wins |-> [i \in Slots |-> Zeroed], zorder |-> <<>>]
        d == Bring(Open(Open(none, TRUE), TRUE), 0)
    IN  /\ wins = d.wins /\ zorder = d.zorder
        /\ startOpen = FALSE /\ prevBtn = FALSE /\ elapsed = FALSE
        /\ pc = "keys" /\ fw = FocusedWin(d) /\ grabbed = NULL

Keys == MenuKey \/ DigitKey \/ AppKey

Mouse == \/ Released \/ Held \/ ClickStart \/ ClickEntry \/ ClickMenu
         \/ ClickTask \/ ClickNothing
         \/ \E w \in Slots : ClickClose(w) \/ ClickMinimize(w) \/ ClickTitle(w) \/ ClickContent(w)

Next == Keys \/ Mouse \/ Settle \/ Draw \/ Tick

\* The loop never blocks for ever: keys are drained faster than they are typed,
\* every other step is straight-line code; the timer interrupts for ever.
Spec == /\ Init /\ [][Next]_vars
        /\ WF_vars(Mouse) /\ WF_vars(Settle) /\ WF_vars(Draw) /\ WF_vars(Tick)

-----------------------------------------------------------------------------

Window == [used : BOOLEAN, focused : BOOLEAN, minimized : BOOLEAN,
           dragging : BOOLEAN, anim : 0..3, age : 0..AnimTicks, priv : BOOLEAN]

\* The types, and zorder never holds more than MAXW windows: z_bring writes
\* zorder[zcount++] without looking.
TypeOK == /\ wins \in [Slots -> Window]
          /\ zorder \in Seq(Slots) /\ Len(zorder) <= MaxW
          /\ startOpen \in BOOLEAN /\ prevBtn \in BOOLEAN /\ elapsed \in BOOLEAN
          /\ pc \in {"keys", "settle", "draw"}
          /\ fw \in Slots \cup {NULL} /\ grabbed \in Slots \cup {NULL}

Stacked == {zorder[p] : p \in DOMAIN zorder}

\* The stack holds every open window once and no closed one: whatever is opened
\* can be reached from the taskbar, whatever is drawn is open.
ZOrder == /\ Stacked = {w \in Slots : wins[w].used}
          /\ \A p, q \in DOMAIN zorder : zorder[p] = zorder[q] => p = q

\* One open window is shown as focused, the top one, after any sequence of
\* openings, closings and failures of either.
OneFocus == \A w \in Slots : wins[w].used =>
                (wins[w].focused <=> w = zorder[Len(zorder)])

\* A window has its application's state exactly while it is open: a handler or a
\* drawing function never meets a NULL priv through the stack, and no slot is
\* taken again while it still owns memory.
PrivWhileOpen == \A w \in Slots : wins[w].priv <=> wins[w].used

\* The window that follows the mouse is the one whose title was pressed, and the
\* button is still down: not the next window to open in its slot.
DragIsGrab == \A w \in Slots : wins[w].used /\ wins[w].dragging => w = grabbed /\ prevBtn

\* A minimised window is not being animated, so it neither keeps the loop at 60
\* frames a second nor is minimised again.
MinimizedIsStill == \A w \in Slots : wins[w].used /\ wins[w].minimized => wins[w].anim = 0

\* Windows keep their places: a step moves, adds or removes one window and leaves
\* the others in the order they were in.
OneMoves == [][\E w \in Slots : Without(zorder', w) = Without(zorder, w)]_vars

\* Once the mouse button stays up, every animation ends: no open window slides
\* for ever.
AnimationsEnd ==
    <>[](~prevBtn) => \A w \in Slots : []<>(~wins[w].used \/ wins[w].anim = 0)

\* gui.c:286 says the keyboard goes to the focused window: a key reaches an
\* application through a window that is open and shown as focused.
KeysGoToFocus == [][AppKey => wins[fw].used /\ wins[fw].focused]_vars
=============================================================================
