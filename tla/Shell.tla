-------------------------------- MODULE Shell --------------------------------
(***************************************************************************)
(* The commands of fs/shell.c that change the file system (cd mkdir touch  *)
(* write rm cp mv) and the two other ways into vfs.c, the editor's save    *)
(* and fs_append_file.  A command runs to its end inside one key event of  *)
(* the terminal: it is one step.                                           *)
(***************************************************************************)
EXTENDS Vfs

CONSTANTS Paths,    \* the paths that are typed
          Texts,    \* the texts that are written
          MaxText   \* bound: no file grows longer

Char == UNION {ToSet(t) : t \in Texts}

\* A node is called by a component of a path.
Names == {"/"} \cup UNION {ToSet(p.parts) : p \in Paths}

\* The heap has room for the root; what is typed are paths and texts.
ASSUME ShellAssumption ==
    /\ MaxNodes \in Nat \ {0} /\ PartsCap \in Nat /\ MaxText \in Nat
    /\ Paths \subseteq [abs : BOOLEAN, parts : Seq(Names), slash : BOOLEAN]
    /\ Texts \subseteq SeqOf(Char, MaxText)

VARIABLES fs,       \* root, cwd, node_count and the nodes
          reply     \* what the last command claims: <<>>, or the command and
                    \* the facts it was about (history of cd, cp and mv)

vars == <<fs, reply>>

\* Whether kmalloc has room for the buffer of a text: the heap decides.
Room == BOOLEAN

\* A command that answers with the result of a call, good or bad.
Do(r) == fs' = r.s /\ reply' = <<>>

Refuse == UNCHANGED fs /\ reply' = <<>>

\* cd without an argument goes to the root.
CdRoot == /\ fs' = SetCwd(fs, Path(TRUE, <<>>, FALSE))
          /\ reply' = <<"cd", Root>>

\* cd of a path claims to be in the directory that path leads to.
Cd(p) ==
    LET n == Resolve(fs, p)
    IN  /\ fs' = CdTo(fs, p)
        /\ reply' = IF IsDir(fs, n) THEN <<"cd", n>> ELSE <<>>

MkdirCmd(p) == Do(Mkdir(fs, p))

TouchCmd(p) == Do(Touch(fs, p))

WriteCmd(p, t) == \E room \in Room : Do(WriteFile(fs, p, t, room))

RmCmd(p) == Do(Rm(fs, p))

\* Mutant: cp does not look at what fs_write_file returned.
CpUnchecked(a, b) ==
    LET n == Resolve(fs, a) IN
    IF n = NULL \/ IsDir(fs, n) THEN Refuse
    ELSE \E room \in Room :
           LET r == WriteFile(Touch(fs, b).s, b, TextOf(fs, n), room) IN
           /\ fs' = r.s
           /\ reply' = <<"cp", TextOf(fs, n), n, Resolve(r.s, b)>>

\* "Copiato" is a claim about that text, the source and what b names now.
Cp(a, b) ==
    \E room \in Room :
      LET n == Resolve(fs, a)
          r == CopyFile(fs, a, b, room)
      IN  /\ fs' = r.s
          /\ reply' = IF r.rc = 0 THEN <<"cp", TextOf(fs, n), n, Resolve(r.s, b)>>
                                  ELSE <<>>

\* mv of a folder.
MvDir(a, b) == /\ IsDir(fs, Resolve(fs, a))
               /\ fs' = MoveDir(fs, a, b)
               /\ reply' = <<>>

\* mv of a file: "Spostato" is a claim about its text.
MvFile(a, b) ==
    LET n == Resolve(fs, a) IN
    /\ n # NULL
    /\ ~IsDir(fs, n)
    /\ \E room \in Room : fs' = MoveFile(fs, a, b, room)
    /\ reply' = <<"mv", TextOf(fs, n)>>

MvNothing(a) == Resolve(fs, a) = NULL /\ Refuse

\* The editor's Salva, and seed_file: fs_touch, then fs_write_file.
Save(p, t) == \E room \in Room : Do(WriteFile(Touch(fs, p).s, p, t, room))

Extend(p, t) ==
    /\ LET n == Resolve(fs, p) IN n # NULL => Len(TextOf(fs, n) \o t) <= MaxText
    /\ \E room \in Room : Do(AppendFile(fs, p, t, room))

Init == fs = Empty /\ reply = <<>>

Next == \/ CdRoot
        \/ \E p \in Paths : Cd(p) \/ MkdirCmd(p) \/ TouchCmd(p) \/ RmCmd(p)
        \/ \E p \in Paths, t \in Texts : WriteCmd(p, t) \/ Save(p, t) \/ Extend(p, t)
        \/ \E a, b \in Paths : Cp(a, b) \/ MvDir(a, b) \/ MvFile(a, b)
        \/ \E a \in Paths : MvNothing(a)

Spec == Init /\ [][Next]_vars

-----------------------------------------------------------------------------

Live == DOMAIN fs.node

NodeType == [name : Names, dir : BOOLEAN, parent : Addr, kids : Seq(Addr),
             data : {NoData} \cup {<<t>> : t \in SeqOf(Char, MaxText)},
             cap : 0..(MaxText + 1)]

\* The type of the nodes; the root is a live directory and its own parent.
TypeOK == /\ Root \in Live /\ Live \subseteq Addr
          /\ \A n \in Live : fs.node[n] \in NodeType
          /\ fs.node[Root].parent = Root /\ fs.node[Root].dir
          /\ fs.count \in Nat

\* The tree has no dangling pointer and no node in two places: a node is listed
\* once by its parent, which is a live directory, and by nobody else; a file
\* lists nothing.
TreeLinks ==
    /\ \A n \in Live \ {Root} :
         /\ fs.node[n].parent \in Live
         /\ fs.node[fs.node[n].parent].dir
         /\ Cardinality({i \in DOMAIN fs.node[fs.node[n].parent].kids :
                            fs.node[fs.node[n].parent].kids[i] = n}) = 1
    /\ \A d \in Live : \A i \in DOMAIN fs.node[d].kids :
         /\ fs.node[d].kids[i] \in Live \ {Root}
         /\ fs.node[fs.node[d].kids[i]].parent = d
    /\ \A n \in Live : ~fs.node[n].dir => fs.node[n].kids = <<>>

\* Every live node, and so every file a user created, hangs from the root: none
\* is lost in a detached part of the tree.
Parent(n) == IF n \in Live THEN fs.node[n].parent ELSE NULL
Above(n) == LET up[i \in 0..MaxNodes] == IF i = 0 THEN n ELSE Parent(up[i - 1])
            IN  {up[i] : i \in 0..MaxNodes}
Connected == \A n \in Live : Root \in Above(n)

\* The current directory is never removed from under the shell, whatever rm and
\* mv are asked: relative paths always have somewhere to start.
CwdIsLive == fs.cwd \in Live /\ fs.node[fs.cwd].dir

\* node_count, which df, stat and the settings window report, is the number of
\* nodes, through every failure and every half-done mv.
CountIsExact == fs.count = Cardinality(Live)

\* A text and its terminator fit the buffer that holds them: memcpy into
\* n->data stays inside the block of the heap.
FitsBuffer == \A n \in Live :
    fs.node[n].data # NoData => Len(TextOf(fs, n)) + 1 <= fs.node[n].cap

\* Whatever the command, at most one node goes away, and it was childless and
\* not the current directory.
OnlyLeavesGo ==
    [][/\ Cardinality(Live \ Live') <= 1
       /\ \A n \in Live \ Live' : fs.node[n].kids = <<>> /\ n # fs.cwd]_vars

\* cp that answers Copiato has put the text of the source where the destination
\* path leads, and the source still has it.
CpCopies ==
    reply # <<>> /\ reply[1] = "cp" =>
        /\ reply[4] # NULL
        /\ TextOf(fs, reply[4]) = reply[2]
        /\ TextOf(fs, reply[3]) = reply[2]

\* docs/docs.html says mv moves a file: after "Spostato" its text is in a file of
\* the tree.
MvKeepsText ==
    reply # <<>> /\ reply[1] = "mv" =>
        \E m \in Live : ~fs.node[m].dir /\ TextOf(fs, m) = reply[2]

\* docs/docs.html says cd changes the directory: a cd that prints no error ends in
\* the directory its argument names.
CdArrives == reply # <<>> /\ reply[1] = "cd" => fs.cwd = reply[2]
=============================================================================
