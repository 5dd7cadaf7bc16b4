--------------------------------- MODULE Apps ---------------------------------
(***************************************************************************)
(* One window of one of the applications on the shared file system, with a *)
(* terminal somewhere else that changes the tree, the current directory    *)
(* and the shell's history between any two of its events.  Events are      *)
(* handled one after the other by gui_run: each is a step.  Reopen is a    *)
(* window that is closed and opened again.  The shell's tools that only    *)
(* read (fs/shell.c) are operators on the state at the end.                *)
(***************************************************************************)
EXTENDS Vfs, Text

CONSTANTS Kinds,       \* the applications a window may run
          MaxOthers,   \* bound: commands of the other terminal
          OtherPaths,  \* what they are about, for each kind of window
          OtherTexts,  \* the texts they write
          Limit, BufSize, Typed, EditCut,
          MaxSel, MaxCounter,
          ScreenCap, HistCap, HistLine, MaxInput, Words, Inputs,
          MaxAddr, Letters, Links,
          MaxExpr, Buttons,
          Samples,     \* texts that are written and read
          Months, Years, ClockMonths, ClockYears,
          DuDepth,     \* levels below its argument that du sums up: 16
          TreeDepth, TreeWidth,  \* levels tree goes down, entries of each: 8 and 40
          FindDepth    \* levels find goes down: 12

VARIABLES kind, others,
          fs, shHist,
          buf, len, cursor, path, status,
          shown, sel, counter, message,
          lines, input, hist, hpos,
          url, addr, pages, page, editing,
          expr, res, sheet

Ed == INSTANCE Editor
Fm == INSTANCE Files WITH status <- message
Term == INSTANCE Terminal
Br == INSTANCE Browser WITH hist <- pages, hpos <- page
Ca == INSTANCE Calc
Cal == INSTANCE Calendar WITH page <- sheet

\* The bounds are numbers, the screen takes more than the banner, the editor's limit
\* leaves room for the terminator and Enter is one of the keys it takes; one of the
\* samples is the longest, and no text holds the terminator; a link is an address; no
\* file is called like a parent.
ASSUME AppsAssumption ==
    /\ MaxNodes \in Nat \ {0} /\ PartsCap \in Nat
    /\ MaxOthers \in Nat /\ MaxSel \in Nat /\ MaxCounter \in Nat
    /\ Limit \in Nat /\ BufSize \in Nat /\ Limit < BufSize
    /\ NL \in Typed /\ Ed!NUL \notin Typed
    /\ ScreenCap \in Nat /\ ScreenCap >= Len(Term!Banner)
    /\ HistCap \in Nat \ {0} /\ HistLine \in Nat \ {0} /\ MaxInput \in Nat
    /\ MaxAddr \in Nat \ {0} /\ MaxExpr \in Nat
    /\ Links \subseteq Seq(Letters) \ {<<>>}
    /\ \A u \in Links : Len(u) <= MaxAddr
    /\ Samples \subseteq Seq(STRING) /\ OtherTexts \subseteq Samples
    /\ \A t \in Samples : \A i \in DOMAIN t : t[i] # Ed!NUL
    /\ \E t \in Samples : \A u \in Samples : Len(u) <= Len(t)
    /\ OtherPaths \in
         [Kinds -> SUBSET [abs : BOOLEAN, parts : Seq(STRING), slash : BOOLEAN]]
    /\ \A k \in 1..MaxCounter : Fm!FileName(k) \notin {".", ".."}

\* What each application keeps.
edVars == <<buf, len, cursor, path, status>>
fmVars == <<shown, sel, counter, message>>
termVars == <<lines, input, hist, hpos>>
brVars == <<url, addr, pages, page, editing>>
calcVars == <<expr, res>>
calVars == <<sheet>>

vars == <<kind, others, fs, shHist, edVars, fmVars, termVars, brVars, calcVars, calVars>>

\* fs_init, of whose tree only /docs with one file is kept.
Seed == LET docs == Mkdir(Empty, Path(TRUE, <<"docs">>, FALSE)).s
        IN  WriteFile(Touch(docs, Ed!Benvenuto).s, Ed!Benvenuto, <<"b", NL>>, TRUE).s

Init == /\ kind \in Kinds
        /\ others = 0
        /\ fs = Seed
        /\ Term!ShInit
        /\ Ed!EdInit /\ Fm!FmInit /\ Term!TermInit /\ Br!BrInit /\ Ca!CalcInit
        /\ Cal!CalInit

\* mkdir, touch, rm, cd, write, cp or mv in the other terminal, or the save of another
\* editor, or of +File in another file manager.
Elsewhere ==
    /\ others < MaxOthers
    /\ others' = others + 1
    /\ \E p, q \in OtherPaths[kind], text \in OtherTexts, room \in BOOLEAN :
         fs' \in {Mkdir(fs, p).s, Touch(fs, p).s, Rm(fs, p).s, CdTo(fs, p),
                  WriteFile(fs, p, text, room).s,
                  WriteFile(Touch(fs, p).s, p, text, room).s,
                  CopyFile(fs, p, q, room).s, Move(fs, p, q, room)}
    /\ Term!ShCommand(<<"other">>)
    /\ UNCHANGED <<kind, edVars, fmVars, brVars, calcVars, calVars>>

Still == UNCHANGED <<kind, others>>

EdStep == /\ kind = "editor" /\ Ed!EdNext /\ Still
          /\ UNCHANGED <<shHist, fmVars, termVars, brVars, calcVars, calVars>>
FmStep == /\ kind = "files" /\ Fm!FmNext /\ Still
          /\ UNCHANGED <<shHist, edVars, termVars, brVars, calcVars, calVars>>
TermStep == /\ kind = "terminal" /\ Term!TermNext /\ Still
            /\ UNCHANGED <<edVars, fmVars, brVars, calcVars, calVars>>
BrStep == /\ kind = "browser" /\ Br!BrNext /\ Still
          /\ UNCHANGED <<fs, shHist, edVars, fmVars, termVars, calcVars, calVars>>
CaStep == /\ kind = "calc" /\ Ca!CalcNext /\ Still
          /\ UNCHANGED <<fs, shHist, edVars, fmVars, termVars, brVars, calVars>>

\* A window whose shell prints one month after the other, with a clear in between.
CalStep == /\ kind = "cal" /\ Cal!CalNext /\ Still
           /\ UNCHANGED <<fs, shHist, edVars, fmVars, termVars, brVars, calcVars>>

\* A window whose shell writes a file and reads it with head, tail, grep, wc, cat.
WriteStep == /\ kind = "reader" /\ Still
             /\ \E text \in Samples, room \in BOOLEAN :
                  fs' = WriteFile(fs, Ed!Benvenuto, text, room).s
             /\ UNCHANGED <<shHist, edVars, fmVars, termVars, brVars, calcVars, calVars>>

Next == Elsewhere \/ WriteStep \/ EdStep \/ FmStep \/ TermStep \/ BrStep \/ CaStep \/ CalStep

Spec == Init /\ [][Next]_vars

-----------------------------------------------------------------------------
(* Tools of the shell that walk the tree. *)

\* du: a file's size, or the sum below a directory.
DuSum(s, top) ==
    LET sum[n \in Addr, depth \in Nat] ==
          IF depth > DuDepth THEN 0
          ELSE IF ~s.node[n].dir THEN Len(TextOf(s, n))
          ELSE FoldLeft(LAMBDA t, c : t + sum[c, depth + 1], 0, s.node[n].kids)
    IN  sum[top, 0]

\* tree: the nodes it prints.
TreeRec(s, top) ==
    LET tree[n \in Addr, depth \in Nat] ==
          IF depth > TreeDepth THEN <<>>
          ELSE FlattenSeq([i \in DOMAIN FirstN(s.node[n].kids, TreeWidth) |->
                 LET c == s.node[n].kids[i]
                 IN  <<c>> \o IF s.node[c].dir THEN tree[c, depth + 1] ELSE <<>>])
    IN  tree[top, 0]

\* Mutant: only what matches is searched.
FindRecMatching(s, top, names, start) ==
    LET find[n \in Addr, depth \in Nat, base \in Seq(STRING)] ==
          IF depth > FindDepth THEN <<>>
          ELSE FlattenSeq([i \in DOMAIN s.node[n].kids |->
                 LET c == s.node[n].kids[i]
                     full == Append(base, s.node[c].name)
                 IN  IF s.node[c].name \in names
                     THEN <<full>> \o (IF s.node[c].dir THEN find[c, depth + 1, full] ELSE <<>>)
                     ELSE <<>>])
    IN  find[top, 0, start]

\* find: the paths it prints, each behind the base the search began with; names are
\* those that contain the pattern.
FindRec(s, top, names, start) ==
    LET find[n \in Addr, depth \in Nat, base \in Seq(STRING)] ==
          IF depth > FindDepth THEN <<>>
          ELSE FlattenSeq([i \in DOMAIN s.node[n].kids |->
                 LET c == s.node[n].kids[i]
                     full == Append(base, s.node[c].name)
                 IN  (IF s.node[c].name \in names THEN <<full>> ELSE <<>>)
                     \o (IF s.node[c].dir THEN find[c, depth + 1, full] ELSE <<>>)])
    IN  find[top, 0, start]

\* find with a path prints that path in front; without one it searches the
\* current directory and prints the root in front.
Find(s, p, names) == FindRec(s, Resolve(s, p), names, p.parts)
FindHere(s, names) == FindRec(s, s.cwd, names, <<>>)

\* The node a command is about: its argument's, or the current directory without one.
Target(s, arg) == IF arg = <<>> THEN s.cwd ELSE Resolve(s, arg[1])

Du(s, arg) == LET n == Target(s, arg) IN IF n = NULL THEN NULL ELSE DuSum(s, n)

Tree(s, arg) == LET n == Target(s, arg) IN IF IsDir(s, n) THEN TreeRec(s, n) ELSE NULL

\* stat needs an argument; of a directory it tells how many entries it has.
Stat(s, file) == LET n == Resolve(s, file) IN
    IF n = NULL THEN NULL
    ELSE IF s.node[n].dir THEN Len(s.node[n].kids) ELSE Len(TextOf(s, n))

\* The entries ls prints of a directory.
Ls(s, d) == [i \in DOMAIN s.node[d].kids |->
               LET c == s.node[d].kids[i]
               IN  <<s.node[c].name, s.node[c].dir, Len(TextOf(s, c))>>]

-----------------------------------------------------------------------------

\* The type of the windows' state: every index stays within what it indexes and
\* the editor's buffer is a terminated text.
TypeOK == /\ kind \in Kinds /\ others \in 0..MaxOthers
          /\ Ed!EdTypeOK /\ Term!TermTypeOK /\ Br!BrTypeOK
          /\ sel \in 0..MaxSel /\ counter \in 0..MaxCounter
          /\ Len(expr) <= MaxExpr

\* Every history and the terminal's screen hold what is most recent, in order and
\* without repetition, and the positions in them are what is shown (t_push,
\* sh_push, app_terminal_key, browser_navigate), through wrapping, going back and
\* forth and commands of other terminals.
Histories == Term!TermHistories /\ Br!BrHistories

Live == DOMAIN fs.node

\* The step leaves every node as it is but one of that name in directory d, and
\* the children of d.
OnlyAt(d, name) ==
    LET there(node, n) == n # Root /\ node[n].name = name /\ node[n].parent = d
        apart(n) == IF n = d THEN [fs.node[n] EXCEPT !.kids = <<>>] ELSE fs.node[n]
    IN  /\ fs'.cwd = fs.cwd
        /\ \A n \in Live : there(fs.node, n) \/
             (n \in DOMAIN fs'.node
              /\ apart(n) = IF n = d THEN [fs'.node[n] EXCEPT !.kids = <<>>] ELSE fs'.node[n])
        /\ \A n \in DOMAIN fs'.node \ Live : there(fs'.node, n)

Names == {fs.node[n].name : n \in Live}

\* A step of the window and not of the other terminal.
Own(k) == kind = k /\ others' = others

\* Whatever other windows did to the tree in between, an event of the file manager
\* touches one name of the folder it shows, and removes only the name of its
\* selected row; the editor touches only the file it names; a save that answers
\* Salvato has put the buffer into that file.
ChangesAreLocal ==
    [][/\ Own("files") /\ fs' # fs =>
            /\ Fm!Folder # NULL
            /\ \E name \in Names \cup Names' : OnlyAt(Fm!Folder, name)
            /\ \A n \in Live \ Live' : /\ fs.node[n].parent = Fm!Folder
                                       /\ fs.node[n].name = fs.node[Fm!Selected].name
       /\ Own("editor") /\ fs' # fs => OnlyAt(Resolve(fs, DirPart(path)), Base(path))
       /\ Own("editor") /\ (fs' # fs \/ status' # status) /\ status' = "Salvato." =>
            LET n == Resolve(fs', path)
            IN  n # NULL /\ ~fs'.node[n].dir /\ TextOf(fs', n) = Ed!EdText]_vars

\* What the file manager's status line says is so: while it says that a folder is
\* selected, Apri and Invio open that folder ("Selezionato: %s - premi Apri/Invio"), and
\* after "File creato." there is a file that was not there (app_fileman_click).
MessagesAreTrue ==
    [][/\ Own("files") /\ Fm!Enter /\ Fm!SaysChosen => shown' = Append(shown, message[2])
       /\ Own("files") /\ Fm!NewFile /\ message' = Fm!Created => Live' # Live]_vars

-----------------------------------------------------------------------------

\* The nodes below n, by their parents: as many levels down.
Below(n, levels) ==
    LET up[m \in Live, i \in 0..levels] ==
          i > 0 /\ m # Root /\ (fs.node[m].parent = n \/ up[fs.node[m].parent, i - 1])
    IN  {m \in Live : up[m, levels]}

All(n) == Below(n, MaxNodes)

Total(nodes) == FoldSet(LAMBDA m, t : t + Len(TextOf(fs, m)), 0, nodes)

Named(nodes, names) == {m \in nodes : fs.node[m].name \in names}

Patterns == {{name} : name \in Names} \cup {Names}

\* What du, tree and stat say of a node is what lies below it, as far down and as many
\* entries as each of them goes.
SummedUp(n, arg) ==
    /\ Du(fs, arg) <= Total(IF fs.node[n].dir THEN All(n) ELSE {n})
    /\ Du(fs, arg) >= Total(IF fs.node[n].dir THEN Below(n, DuDepth) ELSE {n})
    /\ fs.node[n].dir =>
         LET printed == Tree(fs, arg) IN
         /\ IsInjective(printed) /\ ToSet(printed) \subseteq Below(n, TreeDepth + 1)
         /\ (\A d \in All(n) \cup {n} : Len(fs.node[d].kids) <= TreeWidth) =>
              ToSet(printed) = Below(n, TreeDepth + 1)

\* The tools that walk the tree tell one story: find names each node below its argument
\* whose name matches, once, as far down as it goes, by a path that leads there if it was
\* given one; without an argument it tells of the current directory as many nodes, with
\* the same names; du, tree, stat and ls say of every node what lies below it.
WalksAgree ==
    kind = "files" =>
      /\ \A names \in Patterns :
           LET found == Find(fs, Path(TRUE, <<>>, FALSE), names)
               here == FindHere(fs, names)
               nodes == Named(Below(Root, FindDepth + 1), names)
               near == Named(Below(fs.cwd, FindDepth + 1), names)
           IN  /\ Len(found) = Cardinality(nodes)
               /\ {Resolve(fs, Path(TRUE, p, FALSE)) : p \in ToSet(found)} = nodes
               /\ Len(here) = Cardinality(near)
               /\ {Last(p) : p \in ToSet(here)} = {fs.node[m].name : m \in near}
               /\ \A p \in ToSet(found) :
                    LET arg == Path(TRUE, p, FALSE)
                        n == Resolve(fs, arg)
                    IN  /\ SummedUp(n, <<arg>>)
                        /\ fs.node[n].dir =>
                             /\ Stat(fs, arg) = Len(Ls(fs, n))
                             /\ Stat(fs, arg) = Cardinality(Below(n, 1))
      /\ SummedUp(fs.cwd, <<>>)

\* The text of a file that is printed by lines, with each of the tools that do, agrees
\* with its lines (head, tail, grep, wc and cat of shell.c, app_browser_draw).
Welcome == TextOf(fs, Resolve(fs, Ed!Benvenuto))
LinesAgree == kind = "reader" => LinesAreCut(Welcome)

\* The editor's screen, caret, Home and End go by the lines of its text
\* (app_editor_draw, app_editor_key).
EditorShows == kind = "editor" => Ed!RowsAreLines

\* The parser of the calculator accepts the expressions of the grammar, and computes
\* with the only tree they have (calc_eval); the result shown does not matter to it.
CalcParses == kind = "calc" /\ res = "0" => Ca!ParserIsGrammar

\* The pages of cal, put one behind the other, are all days in order: each month is
\* printed whole and begins in the column behind the last day of the month before, across
\* the turn of the year and the end of every February.
MonthsRunOn == kind = "cal" => Cal!MonthIsWhole /\ Cal!WeeksRunOn
=============================================================================
