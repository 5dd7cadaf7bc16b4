-------------------------------- MODULE Browser --------------------------------
(***************************************************************************)
(* apps/browser.c: one browser window, its address bar and its history.    *)
(* An address is a sequence of letters; the pages are built in.            *)
(***************************************************************************)
EXTENDS Integers, Sequences, SequencesExt

CONSTANTS HistCap,   \* entries of the history: 8
          MaxAddr,   \* letters of an address: 120
          Letters,   \* what is typed
          Links      \* addresses of the quick links

HomePage == <<"h">>

VARIABLES url, addr, hist,
          hpos,      \* the entry that is shown
          editing    \* the address bar shows a caret

\* browser_navigate: a page that is not the one shown becomes the newest entry,
\* behind the entries that Forward would have gone to.
Navigate(u) ==
    /\ url' = u /\ addr' = u /\ editing' = FALSE
    /\ IF hist[hpos + 1] = u THEN UNCHANGED <<hist, hpos>>
       ELSE /\ hist' = Append(IF Len(hist) < HistCap THEN hist ELSE Tail(hist), u)
            /\ hpos' = Len(hist') - 1

\* b_init navigates home with an empty history.
BrInit == /\ url = HomePage /\ addr = HomePage /\ editing = FALSE
          /\ hist = <<HomePage>> /\ hpos = 0

Reopen == /\ url' = HomePage /\ addr' = HomePage /\ editing' = FALSE
          /\ hist' = <<HomePage>> /\ hpos' = 0

Go == addr # <<>> /\ Navigate(addr)

Link(u) == Navigate(u)

Backspace == /\ addr' = IF addr = <<>> THEN addr ELSE Front(addr)
             /\ editing' = TRUE
             /\ UNCHANGED <<url, hist, hpos>>

Type(c) == /\ addr' = IF Len(addr) < MaxAddr THEN Append(addr, c) ELSE addr
           /\ editing' = TRUE
           /\ UNCHANGED <<url, hist, hpos>>

ClickBar == editing' = TRUE /\ UNCHANGED <<url, addr, hist, hpos>>

Show(i) == /\ hpos' = i
           /\ url' = hist[i + 1] /\ addr' = hist[i + 1]
           /\ UNCHANGED <<hist, editing>>

Back == hpos > 0 /\ Show(hpos - 1)
Forward == hpos < Len(hist) - 1 /\ Show(hpos + 1)

BrNext == \/ Go \/ Backspace \/ ClickBar \/ Back \/ Forward \/ Reopen
          \/ \E u \in Links : Link(u)
          \/ \E c \in Letters : Type(c)

-----------------------------------------------------------------------------

BrTypeOK == Len(addr) <= MaxAddr /\ hpos \in 0..(Len(hist) - 1)

Visited == INSTANCE Recent WITH Cap <- HistCap, Start <- <<HomePage>>, list <- hist

\* The page on the screen is the one the history points at, so that Back and
\* Forward lead where they say; no address in it is empty.
PageIsHere == url = hist[hpos + 1] /\ \A e \in ToSet(hist) : e # <<>>

\* The history keeps the pages visited last.
BrHistories == Visited!Spec /\ []PageIsHere
=============================================================================
