--------------------------------- MODULE Files ---------------------------------
(***************************************************************************)
(* apps/fileman.c: one file manager window.  It keeps the path it shows    *)
(* and the index of a row, never a node: every event resolves the path and *)
(* counts the children again, as other windows have left them.  A path is  *)
(* its list of names.                                                      *)
(***************************************************************************)
EXTENDS Vfs

CONSTANTS MaxSel,     \* bound: rows the selection moves over
          MaxCounter  \* bound: folders and files one window makes

VARIABLES fs,         \* the file system, shared with the other windows
          shown,      \* path: the folder shown
          sel, counter,
          status      \* the message: Chosen(name), Created, or any of the others

fmVars == <<shown, sel, counter, status>>

Other == <<>>
Created == <<"File creato.">>
Chosen(name) == <<"Selezionato", name>>
SaysChosen == Len(status) = 2
Say(message) == status' = message

FolderName(k) == "nuova_cartella_" \o ToString(k)
FileName(k) == "nuovo_file_" \o ToString(k) \o ".txt"

\* Seventeen characters of a text of eighteen: without its newline.
NewText == <<"x">>

In(name) == Path(TRUE, Append(shown, name), FALSE)

Folder == Resolve(fs, Path(TRUE, shown, FALSE))

\* The rows of the list, which a folder that is gone, or has become a file, does
\* not have.
Kids == IF Folder = NULL THEN <<>> ELSE fs.node[Folder].kids

\* fm_selected: there need not be a row sel any more.
Selected == IF sel + 1 \in DOMAIN Kids THEN Kids[sel + 1] ELSE NULL

FmInit == shown = <<>> /\ sel = 0 /\ counter = 0 /\ status = Other

\* A window that is opened again starts at the root and counts from 1.
Reopen == /\ shown' = <<>> /\ sel' = 0 /\ counter' = 0 /\ Say(Other)
          /\ UNCHANGED fs

Up == sel > 0 /\ sel' = sel - 1 /\ UNCHANGED <<fs, shown, counter, status>>

\* Down does not look how many rows there are: that is left to the next frame.
Down == sel < MaxSel /\ sel' = sel + 1 /\ UNCHANGED <<fs, shown, counter, status>>

Enter == /\ IsDir(fs, Selected)
         /\ shown' = Append(shown, fs.node[Selected].name)
         /\ sel' = 0
         /\ Say(Other)
         /\ UNCHANGED <<fs, counter>>

\* Of a file Enter tells the size.
EnterFile == /\ Selected # NULL
             /\ ~IsDir(fs, Selected)
             /\ Say(Other)
             /\ UNCHANGED <<fs, shown, sel, counter>>

Parent == /\ shown # <<>>
          /\ shown' = Front(shown)
          /\ sel' = 0
          /\ Say(Other)
          /\ UNCHANGED <<fs, counter>>

NewFolder == /\ counter < MaxCounter
             /\ counter' = counter + 1
             /\ fs' = Mkdir(fs, In(FolderName(counter'))).s
             /\ Say(Other)
             /\ UNCHANGED <<shown, sel>>

\* fs_touch succeeds on a file that is there: its text is then overwritten.
NewFile ==
    /\ counter < MaxCounter
    /\ counter' = counter + 1
    /\ LET p == In(FileName(counter'))
           t == Touch(fs, p)
       IN  /\ \E room \in BOOLEAN :
                fs' = IF t.rc = 0 THEN WriteFile(t.s, p, NewText, room).s ELSE t.s
           /\ Say(IF t.rc = 0 THEN Created ELSE Other)
    /\ UNCHANGED <<shown, sel>>

\* Mutant: the name is resolved where the shell stands.
DelRelative == /\ Selected # NULL
               /\ fs' = Rm(fs, Path(FALSE, <<fs.node[Selected].name>>, FALSE)).s
               /\ Say(Other)
               /\ UNCHANGED <<shown, sel, counter>>

\* Del goes by the name of the selected row.
Del == /\ Selected # NULL
       /\ fs' = Rm(fs, In(fs.node[Selected].name)).s
       /\ Say(Other)
       /\ UNCHANGED <<shown, sel, counter>>

\* A click anywhere below the buttons selects, on a row or beneath the last one,
\* where the message stays what it was.
ClickRow(i) ==
    /\ sel' = i
    /\ status' = IF i + 1 \notin DOMAIN Kids THEN status
                 ELSE IF fs.node[Kids[i + 1]].dir THEN Chosen(fs.node[Kids[i + 1]].name)
                 ELSE Other
    /\ UNCHANGED <<fs, shown, counter>>

\* A frame moves the selection to the last row when it is beyond.
Draw == /\ IsDir(fs, Folder)
        /\ Kids # <<>>
        /\ sel >= Len(Kids)
        /\ sel' = Len(Kids) - 1
        /\ UNCHANGED <<fs, shown, counter, status>>

FmNext == \/ Up \/ Down \/ Enter \/ EnterFile \/ Parent
          \/ NewFolder \/ NewFile \/ Del
          \/ \E i \in 0..MaxSel : ClickRow(i)
          \/ Draw \/ Reopen
=============================================================================
