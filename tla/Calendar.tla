-------------------------------- MODULE Calendar --------------------------------
(***************************************************************************)
(* cal of fs/shell.c as a machine of its own: whenever cal is entered, the *)
(* page it prints for the month and year of the clock or those given.      *)
(***************************************************************************)
EXTENDS Integers, Sequences, SequencesExt, FiniteSetsExt

CONSTANTS Months, Years,    \* bound: the numbers that follow cal
          ClockMonths, ClockYears  \* bound: what rtc_read reads, the year without 2000

VARIABLE page               \* month, year and rows of the last page, NoPage when cleared

FirstYear == 1970
LastYear == 2100
NoPage == [month |-> 0, year |-> 0, rows |-> <<>>]

Clamp(v, lo, hi) == IF v < lo THEN lo ELSE IF v > hi THEN hi ELSE v

\* rtc_read: a year out of range becomes January 2026; <<month, year>>.
Rtc(mon, yy) == IF 2000 + yy \notin 2020..LastYear THEN <<1, 2026>> ELSE <<mon, 2000 + yy>>

\* What follows cal: nothing, one number, or two; a number above 31 alone is a year.
Asked(args, clock) ==
    LET one == IF args[1] > 31 THEN <<clock[1], args[1]>> ELSE <<args[1], clock[2]>>
        my == IF args = <<>> THEN clock
              ELSE IF Len(args) = 2 /\ args[2] > 0 THEN args ELSE one
    IN  <<Clamp(my[1], 1, 12), Clamp(my[2], FirstYear, LastYear)>>

Leap(y) == (y % 4 = 0 /\ y % 100 # 0) \/ y % 400 = 0

MonthDays(m, y) == IF m = 2 /\ Leap(y) THEN 29
                   ELSE <<31, 28, 31, 30, 31, 30, 31, 31, 30, 31, 30, 31>>[m]

\* Mutant: January and February are not counted to the year before.
FirstColumnThisYear(m, y) ==
    LET mm == IF m < 3 THEN m + 12 ELSE m
        h == (1 + (13 * (mm + 1)) \div 5 + y + y \div 4 - y \div 100 + y \div 400) % 7
    IN  (h + 6) % 7

\* Blanks before the first of the month, by Zeller's congruence.
FirstColumn(m, y) ==
    LET mm == IF m < 3 THEN m + 12 ELSE m
        yy == IF m < 3 THEN y - 1 ELSE y
        h == (1 + (13 * (mm + 1)) \div 5 + yy + yy \div 4 - yy \div 100 + yy \div 400) % 7
    IN  (h + 6) % 7

\* The loop that fills rows of seven columns and prints the last one if it holds
\* anything; 0 is a blank.
CalRows(m, y) ==
    LET put(a, d) == IF Len(a.row) = 6
                     THEN [rows |-> Append(a.rows, Append(a.row, d)), row |-> <<>>]
                     ELSE [a EXCEPT !.row = Append(@, d)]
        all == FoldLeft(put, [rows |-> <<>>, row |-> [k \in 1..FirstColumn(m, y) |-> 0]],
                        [d \in 1..MonthDays(m, y) |-> d])
    IN  IF all.row = <<>> THEN all.rows ELSE Append(all.rows, all.row)

CalInit == page = NoPage

Cal == /\ page = NoPage
       /\ \E args \in {<<>>} \cup {<<a>> : a \in Months \cup Years} \cup (Months \X Years),
             mon \in ClockMonths, yy \in ClockYears :
            LET my == Asked(args, Rtc(mon, yy))
            IN  page' = [month |-> my[1], year |-> my[2], rows |-> CalRows(my[1], my[2])]

\* The screen is cleared.
Clear == page # NoPage /\ page' = NoPage

CalNext == Cal \/ Clear

-----------------------------------------------------------------------------

\* The days of a month: 1972 is a leap year and every fourth from there, but 2100.
DaysOf(m, y) == CASE m \in {4, 6, 9, 11} -> 30
                  [] m = 2 -> IF y % 4 = 0 /\ y < 2100 THEN 29 ELSE 28
                  [] OTHER -> 31

Printed == page # NoPage
Cells == FlattenSeq(page.rows)
Blanks == Cardinality({c \in DOMAIN Cells : Cells[c] = 0})

\* Whatever numbers follow cal, and whatever the clock says, the page is that of a month
\* from 1970 to 2100, with each of its days once, in order, behind less than a row of
\* blanks, in full rows but for the last.
MonthIsWhole ==
    Printed =>
      /\ page.month \in 1..12 /\ page.year \in FirstYear..LastYear
      /\ Blanks < 7
      /\ Cells = [c \in 1..(Blanks + DaysOf(page.month, page.year)) |->
                    Max({c - Blanks, 0})]
      /\ \A r \in DOMAIN page.rows :
           Len(page.rows[r]) = 7 \/ (r = Len(page.rows) /\ page.rows[r] # <<>>)

\* The weeks run on from page to page: a month's first day stands in the column behind
\* that of the last day of the month before, across the turn of the year and the end of
\* every February.
WeeksRunOn ==
    Printed =>
      LET next == IF page.month = 12 THEN FirstColumn(1, page.year + 1)
                  ELSE FirstColumn(page.month + 1, page.year)
      IN  next = Len(Cells) % 7
=============================================================================
