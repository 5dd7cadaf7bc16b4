--------------------------------- MODULE Text ---------------------------------
(***************************************************************************)
(* How the program cuts a text into lines: the loops of cat, head, tail,   *)
(* grep and wc in fs/shell.c, of app_editor_draw and of app_browser_draw,  *)
(* and what they all should agree with.  A text is a sequence of           *)
(* characters; a tab is a blank like a space and is left out.              *)
(***************************************************************************)
EXTENDS Integers, Sequences, SequencesExt

CONSTANTS GrepCut,   \* characters of a line grep looks at and prints: 140
          GrepHits,  \* lines grep prints: 60
          HeadCut    \* characters of a line head and tail print: 180

NL == "\n"
Blank == {" ", NL}

FirstN(s, n) == SubSeq(s, 1, Min({n, Len(s)}))
LastN(s, n) == SubSeq(s, Max({Len(s) - n, 0}) + 1, Len(s))

\* The first newline at or after position q, one past the end if there is none.
NextNL(text, q) == Min({i \in q..Len(text) : text[i] = NL} \cup {Len(text) + 1})

\* out_append: what does not fit the buffer of size bytes and its terminator is
\* cut off.
OutAppend(out, s, size) ==
    out \o SubSeq(s, 1, IF Len(out) + Len(s) + 1 >= size THEN size - Len(out) - 1
                        ELSE Len(s))

\* cat copies the text in chunks and ends the last line if the text does not.
Cat(text, chunk, size) ==
    LET from[off \in Nat, out \in Seq(STRING)] ==
          IF off >= Len(text)
          THEN IF Last(text) # NL THEN OutAppend(out, <<NL>>, size) ELSE out
          ELSE from[off + chunk,
                    OutAppend(out, SubSeq(text, off + 1, Min({off + chunk, Len(text)})), size)]
    IN  from[0, <<>>]

\* The loop of head, tail and grep: while(q<e) the text up to the next newline is
\* a row.
Rows(text) ==
    LET from[q \in Nat] ==
          IF q > Len(text) THEN <<>>
          ELSE <<SubSeq(text, q, NextNL(text, q) - 1)>> \o from[NextNL(text, q) + 1]
    IN  from[1]

\* Each row copied to a buffer that takes n characters.
EachCut(rows, n) == [k \in DOMAIN rows |-> FirstN(rows[k], n)]

\* Mutant: the last row is not counted.
RowCountShort(text) == Cardinality({k \in DOMAIN text : text[k] = NL})

\* tail counts its rows beforehand: one more than there are newlines.
RowCount(text) == 1 + Cardinality({k \in DOMAIN text : text[k] = NL})

Picked(text, from, to) ==
    EachCut(SubSeq(Rows(text), from + 1, Min({to, Len(Rows(text))})), HeadCut)

HeadCmd(text, n) == Picked(text, 0, n)
TailCmd(text, n) == Picked(text, Max({RowCount(text) - n, 0}), RowCount(text))

Matches(line, pat) ==
    \E h \in DOMAIN line : IsPrefix(pat, SubSeq(line, h, Len(line)))

\* What grep prints: it looks for the pattern in what it has copied of the line.
Grep(text, pat) ==
    LET rows == EachCut(Rows(text), GrepCut)
        all == [k \in DOMAIN rows |-> [row |-> k, line |-> rows[k]]]
    IN  FirstN(SelectSeq(all, LAMBDA r : Matches(r.line, pat)), GrepHits)

\* wc: newlines and words, a word beginning at a character that is no blank when
\* the scan is not in a word.
Wc(text) ==
    FoldLeft(LAMBDA a, ch : [rows |-> a.rows + (IF ch = NL THEN 1 ELSE 0),
                             words |-> a.words + (IF ch \notin Blank /\ ~a.inw THEN 1 ELSE 0),
                             inw |-> ch \notin Blank],
             [rows |-> 0, words |-> 0, inw |-> FALSE], text)

\* app_browser_draw: a line goes up to the next newline, maxc characters or the
\* end; a newline right after it is skipped.
Wrapped(text, maxc) ==
    LET from[p \in Seq(STRING)] ==
          IF p = <<>> THEN <<>>
          ELSE LET i == Min({NextNL(p, 1) - 1, maxc})
                   skip == IF i < Len(p) /\ p[i + 1] = NL THEN 1 ELSE 0
               IN  <<SubSeq(p, 1, i)>> \o from[SubSeq(p, i + skip + 1, Len(p))]
    IN  from[text]

-----------------------------------------------------------------------------
(* What a line is, wherever it is computed: the text between two cuts, which *)
(* are the ends of the text and its newlines.                                *)

Cuts(text) == SelectSeq([k \in 1..(Len(text) + 2) |-> k - 1],
                        LAMBDA i : i \in {0, Len(text) + 1} \/ text[i] = NL)
Lines(text) == LET c == Cuts(text)
               IN  [k \in 1..(Len(c) - 1) |-> SubSeq(text, c[k] + 1, c[k + 1] - 1)]

\* A newline ends a line rather than beginning one: what follows the last newline
\* is a line only if there is something.
Ended(lines) == IF Last(lines) = <<>> THEN Front(lines) ELSE lines

\* What is printed of a line: its beginning, and all of it unless it is longer than cut.
Shows(printed, line, cut) ==
    IsPrefix(printed, line) /\ (Len(line) <= cut => printed = line)

Holds(line, pat) ==
    \E i \in 0..(Len(line) - Len(pat)) : \A j \in DOMAIN pat : line[i + j] = pat[j]

Needles == {<<"x">>, <<"x", "x">>}

\* head prints the first n lines and tail the last ones, of which a final newline may
\* cost it one; grep prints lines of the file that hold the pattern, in order, and leaves
\* out none that it could print; wc counts as many newlines and words as there are; cat
\* prints a prefix of the text that is cut only at the size of the output buffer; a page
\* of the browser loses no character but its newlines and gains none.
LinesAreCut(text) ==
    LET full == Ended(Lines(text)) IN
    /\ \A n \in 1..3 :
         LET most == Min({n, Len(full)})
             head == HeadCmd(text, n)
             tail == TailCmd(text, n)
             last == LastN(full, Len(tail))
         IN  /\ Len(head) = most
             /\ \A k \in DOMAIN head : Shows(head[k], full[k], HeadCut)
             /\ Len(tail) \in {most, most - 1}
             /\ text # <<>> /\ Last(text) # NL => Len(tail) = most
             /\ \A k \in DOMAIN tail : Shows(tail[k], last[k], HeadCut)
    /\ \A pat \in Needles :
         LET hits == Grep(text, pat) IN
         /\ \A k \in DOMAIN hits : /\ Shows(hits[k].line, full[hits[k].row], GrepCut)
                                   /\ Holds(hits[k].line, pat)
                                   /\ \A j \in 1..(k - 1) : hits[j].row < hits[k].row
         /\ \A k \in DOMAIN full : Holds(full[k], pat) /\ Len(full[k]) <= GrepCut =>
              \/ \E i \in DOMAIN hits : hits[i].row = k
              \/ Len(hits) = GrepHits /\ Last(hits).row < k
    /\ Wc(text).rows = Len(Lines(text)) - 1
    /\ Wc(text).words = Cardinality({i \in DOMAIN text :
          text[i] \notin Blank /\ (i = 1 \/ text[i - 1] \in Blank)})
    /\ text # <<>> => \A size \in 2..4 :
         Cat(text, 2, size) = FirstN(text \o (IF Last(text) = NL THEN <<>> ELSE <<NL>>), size - 1)
    /\ \A maxc \in 1..3 :
         /\ FlattenSeq(Wrapped(text, maxc)) = SelectSeq(text, LAMBDA c : c # NL)
         /\ \A k \in DOMAIN Wrapped(text, maxc) : Len(Wrapped(text, maxc)[k]) <= maxc
         /\ maxc >= Len(text) => Wrapped(text, maxc) = full
=============================================================================
