-------------------------------- MODULE Editor --------------------------------
(***************************************************************************)
(* apps/editor.c: one editor window.  Its buffer is an array of bytes that *)
(* memmove opens and closes at the cursor; it is loaded from and saved to  *)
(* the shared file system.                                                 *)
(***************************************************************************)
EXTENDS Vfs, Text

CONSTANTS Limit,     \* characters it takes: 4090
          BufSize,   \* bytes of buf: 4096
          Typed,     \* the characters that are typed
          EditCut    \* characters of a line it draws: 150

VARIABLES fs,        \* the file system, shared with the other windows
          buf, len, cursor, path,
          status     \* the message shown: "Salvato.", or any of the others ("")

NUL == "nul"
Nota == Path(TRUE, <<"docs", "nota.txt">>, FALSE)
Benvenuto == Path(TRUE, <<"docs", "benvenuto.txt">>, FALSE)

Memmove(b, to, from, n) ==
    [i \in DOMAIN b |-> IF i \in to..(to + n - 1) THEN b[i - to + from] ELSE b[i]]

Say(message) == status' = message
Keep == UNCHANGED <<fs, path, status>>

\* The text of the file, cut at the limit, and the cursor behind it.
Load(b, text) ==
    LET l == Min({Len(text), Limit}) IN
    /\ buf' = [i \in DOMAIN b |-> IF i < l THEN text[i + 1] ELSE IF i = l THEN NUL ELSE b[i]]
    /\ len' = l
    /\ cursor' = l

HasText(s, n) == n # NULL /\ s.node[n].data # NoData

\* gui_open clears the window's state, e_init loads the note if there is one.
Zeros == [i \in 0..(BufSize - 1) |-> NUL]

EdInit == /\ buf = Zeros /\ len = 0 /\ cursor = 0
          /\ path = Nota
          /\ status = ""

Reopen == LET n == Resolve(fs, Nota) IN
    /\ path' = Nota
    /\ IF HasText(fs, n) THEN Load(Zeros, TextOf(fs, n))
       ELSE buf' = Zeros /\ len' = 0 /\ cursor' = 0
    /\ Say("")
    /\ UNCHANGED fs

Left == cursor > 0 /\ cursor' = cursor - 1 /\ UNCHANGED <<buf, len>> /\ Keep
Right == cursor < len /\ cursor' = cursor + 1 /\ UNCHANGED <<buf, len>> /\ Keep

\* Where the loops of KEY_HOME and KEY_END stop.
HomePos == Max({0} \cup {i \in 1..cursor : buf[i - 1] = NL})
\* Mutant: a character is stepped over before it is looked at.
EndPosBeyond == Min({len} \cup {i \in (cursor + 1)..(len - 1) : buf[i] = NL})

EndPos == Min({len} \cup {i \in cursor..(len - 1) : buf[i] = NL})

Home == cursor' = HomePos /\ UNCHANGED <<buf, len>> /\ Keep
End == cursor' = EndPos /\ UNCHANGED <<buf, len>> /\ Keep

\* Mutant: the terminator is not moved.
BackspaceShort ==
    /\ cursor > 0
    /\ buf' = Memmove(buf, cursor - 1, cursor, len - cursor)
    /\ cursor' = cursor - 1
    /\ len' = len - 1
    /\ Keep

Backspace ==
    /\ cursor > 0
    /\ buf' = Memmove(buf, cursor - 1, cursor, len - cursor + 1)
    /\ cursor' = cursor - 1
    /\ len' = len - 1
    /\ Keep

Type(ch) ==
    /\ len < Limit
    /\ buf' = [Memmove(buf, cursor + 1, cursor, len - cursor + 1) EXCEPT ![cursor] = ch]
    /\ cursor' = cursor + 1
    /\ len' = len + 1
    /\ Keep

\* The text in the buffer.
EdText == [i \in 1..len |-> buf[i - 1]]

Save == \E room \in BOOLEAN :
    LET r == WriteFile(Touch(fs, path).s, path, EdText, room) IN
    /\ fs' = r.s
    /\ Say(IF r.rc = 0 THEN "Salvato." ELSE "")
    /\ UNCHANGED <<buf, len, cursor, path>>

Open == LET n == Resolve(fs, path) IN
    /\ IF HasText(fs, n) THEN Load(buf, TextOf(fs, n)) ELSE UNCHANGED <<buf, len, cursor>>
    /\ Say("")
    /\ UNCHANGED <<fs, path>>

Clear == /\ len' = 0 /\ cursor' = 0 /\ buf' = [buf EXCEPT ![0] = NUL]
         /\ Say("")
         /\ UNCHANGED <<fs, path>>

Docs == LET n == Resolve(fs, Benvenuto) IN
    /\ path' = Benvenuto
    /\ IF HasText(fs, n) THEN Load(buf, TextOf(fs, n)) ELSE UNCHANGED <<buf, len, cursor>>
    /\ Say("")
    /\ UNCHANGED fs

EdNext == \/ Left \/ Right \/ Home \/ End \/ Backspace
          \/ \E ch \in Typed : Type(ch)
          \/ Save \/ Open \/ Clear \/ Docs \/ Reopen

-----------------------------------------------------------------------------
(* app_editor_draw. *)

\* The rows on the screen: maxr of them, maxc characters of each, copied to a line
\* that takes EditCut.
Drawn(maxc, maxr) ==
    LET step(a, i) ==
          LET c == IF i < len THEN buf[i] ELSE NUL IN
          IF Len(a.rows) = maxr THEN a
          ELSE IF c \in {NL, NUL}
          THEN [rows |-> Append(a.rows, FirstN(a.line, maxc)), line |-> <<>>]
          ELSE IF Len(a.line) < EditCut THEN [a EXCEPT !.line = Append(@, c)] ELSE a
    IN  FoldLeft(step, [rows |-> <<>>, line |-> <<>>], [k \in 1..(len + 1) |-> k - 1]).rows

\* Row and column of the caret.
Caret == FoldLeft(LAMBDA a, i : IF buf[i] = NL THEN [row |-> a.row + 1, col |-> 0]
                                ELSE [a EXCEPT !.col = @ + 1],
                  [row |-> 0, col |-> 0], [k \in 1..cursor |-> k - 1])

-----------------------------------------------------------------------------

\* The buffer is a text of len characters, its terminator behind it and inside
\* the array, the cursor within it.
EdTypeOK == /\ len \in 0..Limit
            /\ cursor \in 0..len
            /\ \A i \in 0..(len - 1) : buf[i] # NUL
            /\ buf[len] = NUL
            /\ path \in {Nota, Benvenuto}

\* What is drawn are the beginnings of the lines of the text; the caret, Home and End
\* go by the same lines.
RowsAreLines ==
    LET all == Lines(EdText)
        cut == Cuts(EdText)
        at == Caret
    IN  /\ \A maxc, maxr \in 1..2 :
            Drawn(maxc, maxr) = EachCut(FirstN(all, maxr), Min({maxc, EditCut}))
        /\ cut[at.row + 1] + at.col = cursor
        /\ at.col <= Len(all[at.row + 1])
        /\ HomePos = cut[at.row + 1]
        /\ EndPos = cut[at.row + 2] - 1
=============================================================================
