------------------------------- MODULE Terminal -------------------------------
(***************************************************************************)
(* apps/terminal.c: one terminal window, its screen, input line and        *)
(* history, and the second history that fs/shell.c keeps for the command   *)
(* history, shared by all terminals.                                       *)
(*                                                                         *)
(* A line is a sequence of words and blanks.  Of the shell three replies   *)
(* are told apart: clear, history and the answer to an unknown command.    *)
(*                                                                         *)
(* term_t is larger than the 8192 bytes gui_open allocates for it: from    *)
(* the eighth entry on hist lies behind them, as hcount and hpos always    *)
(* do.  The module holds as long as the bytes behind the window's block    *)
(* belong to nobody else.                                                  *)
(***************************************************************************)
EXTENDS Vfs

CONSTANTS ScreenCap,  \* lines of the screen: 48
          HistCap,    \* entries of either history: 16
          HistLine,   \* characters of an entry of sh_hist: 127
          MaxInput,   \* characters of the input line: 250
          Words,      \* what is typed: a blank and some words
          Inputs      \* bound: the lines that are typed, and their beginnings

VARIABLES fs,         \* the file system: the prompt shows its current directory
          lines, input, hist,
          hpos,       \* the entry that Up and Down are at
          shHist      \* sh_hist of the shell

termVars == <<lines, input, hist, hpos>>

Space == " "

\* Mutant: the oldest entry goes while there is still room for one.
PushEarly(list, cap, entry) ==
    Append(IF Len(list) < cap - 1 THEN list ELSE Tail(list), entry)

\* Append to a list of at most cap entries, the oldest of which gives way.
Push(list, cap, entry) ==
    Append(IF Len(list) < cap THEN list ELSE Tail(list), entry)

\* t_push, once for every line of the output.
PushAll(list, entries) ==
    LET after[k \in 0..Len(entries)] ==
          IF k = 0 THEN list ELSE Push(after[k - 1], ScreenCap, entries[k])
    IN  after[Len(entries)]

Banner == <<<<"PlexOS">>, <<"Scrivi 'help'">>, <<>>>>

Skip(line) == LET words == {i \in DOMAIN line : line[i] # Space}
              IN  IF words = {} THEN <<>> ELSE SubSeq(line, Min(words), Len(line))
Trim(line) == LET words == {i \in DOMAIN line : line[i] # Space}
              IN  IF words = {} THEN <<>> ELSE SubSeq(line, Min(words), Max(words))

\* sh_push of the line without its leading blanks: the line is cut, after it has been
\* compared with the last entry.
ShPush(line) ==
    IF line = <<>> \/ (shHist # <<>> /\ Last(shHist) = line) THEN shHist
    ELSE Push(shHist, HistCap, SubSeq(line, 1, Min({HistLine, Len(line)})))

\* is_cmd: the line is the command, or the command and a blank and anything.
IsCmd(line, cmd) ==
    line # <<>> /\ line[1] = cmd /\ (Len(line) = 1 \/ line[2] = Space)

\* What shell_execute answers, which it does after sh_push: an output ends in a
\* newline, behind which t_push finds an empty line.
Output(command, history) ==
    IF IsCmd(command, "history")
    THEN [k \in DOMAIN history |-> <<ToString(k)>> \o history[k]] \o <<<<>>>>
    ELSE <<<<"comando non trovato:">> \o command, <<"Scrivi 'help'">>, <<>>>>

TermInit == lines = Banner /\ input = <<>> /\ hist = <<>> /\ hpos = 0
ShInit == shHist = <<>>

Reopen == /\ lines' = Banner /\ input' = <<>> /\ hist' = <<>> /\ hpos' = 0
          /\ UNCHANGED <<fs, shHist>>

Up == /\ hist # <<>>
      /\ hpos' = IF hpos > 0 THEN hpos - 1 ELSE hpos
      /\ input' = hist[hpos' + 1]
      /\ UNCHANGED <<fs, lines, hist, shHist>>

Down == /\ hist # <<>>
        /\ IF hpos < Len(hist) - 1
           THEN hpos' = hpos + 1 /\ input' = hist[hpos' + 1]
           ELSE hpos' = Len(hist) /\ input' = <<>>
        /\ UNCHANGED <<fs, lines, hist, shHist>>

Backspace == /\ input # <<>>
             /\ input' = Front(input)
             /\ UNCHANGED <<fs, lines, hist, hpos, shHist>>

Type(w) == /\ Len(input) < MaxInput
           /\ Append(input, w) \in Inputs
           /\ input' = Append(input, w)
           /\ UNCHANGED <<fs, lines, hist, hpos, shHist>>

\* The history compares the line as it was typed, blanks and all.
Entered == IF input = <<>> \/ (hist # <<>> /\ Last(hist) = input) THEN hist
           ELSE Push(hist, HistCap, input)

Prompt == CwdParts(fs) \o <<"$">> \o input

Enter ==
    LET command == Trim(input)
        echoed == PushAll(lines, <<Prompt>>)
    IN  /\ hist' = Entered
        /\ hpos' = Len(hist')
        /\ shHist' = ShPush(Skip(input))
        /\ lines' = IF command = <<>> THEN echoed
                    ELSE IF IsCmd(command, "clear") THEN <<>>
                    ELSE PushAll(echoed, Output(command, shHist'))
        /\ input' = <<>>
        /\ UNCHANGED fs

\* Another terminal runs a command: only the shell's history is shared.
ShCommand(line) == shHist' = ShPush(Skip(line)) /\ UNCHANGED termVars

TermNext == \/ Up \/ Down \/ Backspace \/ Enter \/ Reopen
            \/ \E w \in Words : Type(w)

\* app_terminal_draw: the lines above the input line, of a window with rows rows.
Shown(rows) == LET start == Max({Len(lines) - rows + 1, 0})
               IN  SubSeq(lines, start + 1, Min({start + rows - 1, Len(lines)}))

-----------------------------------------------------------------------------

TermTypeOK == Len(input) <= MaxInput /\ hpos \in 0..Len(hist)

Screen == INSTANCE Recent WITH Cap <- ScreenCap, Start <- Banner, list <- lines
TypedLines == INSTANCE Recent WITH Cap <- HistCap, Start <- <<>>, list <- hist
Executed == INSTANCE Recent WITH Cap <- HistCap, Start <- <<>>, list <- shHist

\* No history repeats itself, but for lines too long for the shell's, or holds an
\* empty line; the window shows the newest lines.
HistoriesRead ==
    /\ \A k \in 1..(Len(hist) - 1) : hist[k] # hist[k + 1]
    /\ \A k \in 1..(Len(shHist) - 1) :
         shHist[k] = shHist[k + 1] => Len(shHist[k]) = HistLine
    /\ \A e \in ToSet(hist) : e # <<>>
    /\ \A e \in ToSet(shHist) : e # <<>> /\ Head(e) # Space
    /\ \A rows \in 1..3 :
         Shown(rows) = SubSeq(lines, Max({Len(lines) - rows + 1, 0}) + 1, Len(lines))

\* The screen and both histories keep what is recent, and it reads as it should.
TermHistories == Screen!Spec /\ TypedLines!Spec /\ Executed!Spec /\ []HistoriesRead
=============================================================================
