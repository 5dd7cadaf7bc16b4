--------------------------------- MODULE Vfs ---------------------------------
(***************************************************************************)
(* fs/vfs.c: the in-memory file system, as operators on a state            *)
(*   s = [node, cwd, count]                                                *)
(* where node maps the addresses of live fs_node_t to their contents.  An  *)
(* operation returns [s, rc]: the new state and the C function's result.   *)
(*                                                                         *)
(* A path is what its characters say to split_parent and fs_resolve: does  *)
(* it begin with a slash, its components, does it end in a slash.  A text  *)
(* is a sequence of characters; its length decides what is allocated.      *)
(***************************************************************************)
EXTENDS Integers, Sequences, SequencesExt

CONSTANTS MaxNodes,   \* fs_node_t the heap has room for
          PartsCap    \* components fs_cwd_str can hold: parts[16][64]

NULL == 0
Root == 1
Addr == 1..MaxNodes

NoData == <<>>        \* data == NULL; a pointer to a text is <<text>>

Path(abs, parts, slash) == [abs |-> abs, parts |-> parts, slash |-> slash]
EmptyPath == Path(FALSE, <<>>, FALSE)

\* strchr(path,'/')
HasSlash(p) == p.abs \/ p.slash \/ Len(p.parts) > 1

-----------------------------------------------------------------------------

\* The first child with that name: siblings may share one.
FindChild(s, d, name) ==
    LET kids == s.node[d].kids
        hits == {i \in DOMAIN kids : s.node[kids[i]].name = name}
    IN  IF ~s.node[d].dir \/ hits = {} THEN NULL ELSE kids[Min(hits)]

\* One component of fs_resolve_from: "." stays, ".." goes to the parent (even
\* from a file), anything else must be a child.
Follow(s, cur, tok) ==
    IF cur = NULL \/ tok = "." THEN cur
    ELSE IF tok = ".." THEN s.node[cur].parent
    ELSE FindChild(s, cur, tok)

\* fs_resolve: at[i] is where the first i components lead.
Resolve(s, p) ==
    LET at[i \in 0..Len(p.parts)] ==
            IF i = 0 THEN IF p.abs THEN Root ELSE s.cwd
                     ELSE Follow(s, at[i - 1], p.parts[i])
    IN  at[Len(p.parts)]

IsDir(s, n) == n # NULL /\ s.node[n].dir

\* The size bytes at data: nothing when there is no buffer.
TextOf(s, n) == IF s.node[n].data = NoData THEN <<>> ELSE s.node[n].data[1]

\* split_parent: a relative path of one component with a slash after it is
\* placed in the root, not in the current directory.
DirPart(p) == IF Len(p.parts) <= 1 THEN Path(TRUE, <<>>, FALSE)
              ELSE Path(p.abs, Front(p.parts), FALSE)
Base(p) == IF p.parts = <<>> THEN "" ELSE Last(p.parts)

-----------------------------------------------------------------------------

\* kmalloc of an fs_node_t: the lowest free address, NULL when there is none.
Fresh(s) == IF DOMAIN s.node = Addr THEN NULL ELSE Min(Addr \ DOMAIN s.node)

Done(s) == [s |-> s, rc |-> 0]
Fail(s) == [s |-> s, rc |-> -1]

\* Mutant: node_count is not incremented.
CreateUncounted(s, name, isDir, d) ==
    LET n == Fresh(s)
        new == [name |-> name, dir |-> isDir, parent |-> d, kids |-> <<>>,
                data |-> NoData, cap |-> 0]
    IN  IF n = NULL THEN Fail(s)
        ELSE Done([s EXCEPT !.node = [m \in DOMAIN s.node \cup {n} |->
                       IF m = n THEN new
                       ELSE IF m = d THEN [s.node[d] EXCEPT !.kids = <<n>> \o @]
                       ELSE s.node[m]]])

\* Mutant: nobody looks whether kcalloc returned NULL.
CreateUnchecked(s, name, isDir, d) ==
    LET n == Fresh(s)
        new == [name |-> name, dir |-> isDir, parent |-> d, kids |-> <<>>,
                data |-> NoData, cap |-> 0]
    IN  Done([s EXCEPT
                !.node = [m \in DOMAIN s.node \cup {n} |->
                  IF m = n THEN new
                  ELSE IF m = d THEN [s.node[d] EXCEPT !.kids = <<n>> \o @]
                  ELSE s.node[m]],
                !.count = @ + 1])

\* new_node followed by attach, which puts the node before its siblings.
Create(s, name, isDir, d) ==
    LET n == Fresh(s)
        new == [name |-> name, dir |-> isDir, parent |-> d, kids |-> <<>>,
                data |-> NoData, cap |-> 0]
    IN  IF n = NULL THEN Fail(s)
        ELSE Done([s EXCEPT
                     !.node = [m \in DOMAIN s.node \cup {n} |->
                       IF m = n THEN new
                       ELSE IF m = d THEN [s.node[d] EXCEPT !.kids = <<n>> \o @]
                       ELSE s.node[m]],
                     !.count = @ + 1])

Mkdir(s, p) ==
    IF p = EmptyPath THEN Fail(s)
    ELSE IF ~HasSlash(p)
    THEN IF FindChild(s, s.cwd, Base(p)) # NULL THEN Fail(s)
         ELSE Create(s, Base(p), TRUE, s.cwd)
    ELSE LET d == Resolve(s, DirPart(p)) IN
         IF Base(p) = "" \/ ~IsDir(s, d) \/ FindChild(s, d, Base(p)) # NULL
         THEN Fail(s)
         ELSE Create(s, Base(p), TRUE, d)

\* fs_touch looks the whole path up, not the name in the directory it will
\* create it in: the two differ for a path such as "a/".
Touch(s, p) ==
    IF p = EmptyPath THEN Fail(s)
    ELSE IF Resolve(s, p) # NULL THEN Done(s)
    ELSE IF ~HasSlash(p) THEN Create(s, Base(p), FALSE, s.cwd)
    ELSE LET d == Resolve(s, DirPart(p)) IN
         IF Base(p) = "" \/ ~IsDir(s, d) THEN Fail(s)
         ELSE Create(s, Base(p), FALSE, d)

\* Give n other contents and another buffer.
SetBuffer(s, n, data, cap) ==
    [s EXCEPT !.node[n] = [@ EXCEPT !.data = data, !.cap = cap]]

\* Mutant: the old buffer is kept although it is too small.
StoreInPlace(s, n, text, room) ==
    LET cap == s.node[n].cap
    IN  Done(SetBuffer(s, n, <<text>>, IF cap = 0 THEN Len(text) + 1 ELSE cap))

\* Copy text into the buffer of n, which is replaced when it is too small for
\* the text and its terminator.  Without room for the new buffer the old one is
\* gone all the same.
StoreText(s, n, text, room) ==
    IF s.node[n].cap >= Len(text) + 1 THEN Done(SetBuffer(s, n, <<text>>, s.node[n].cap))
    ELSE IF room THEN Done(SetBuffer(s, n, <<text>>, Len(text) + 1))
    ELSE Fail(SetBuffer(s, n, NoData, 0))

\* fs_write_file: create the file if there is none, look it up again.  The file
\* just created need not be where the second lookup searches.
WriteFile(s, p, text, room) ==
    LET t == IF Resolve(s, p) # NULL THEN Done(s) ELSE Touch(s, p)
        n == Resolve(t.s, p)
    IN  IF t.rc # 0 \/ n = NULL \/ IsDir(t.s, n) THEN Fail(t.s)
        ELSE StoreText(t.s, n, text, room)

\* fs_append_file always moves to a buffer of the exact size.
AppendFile(s, p, text, room) ==
    LET n == Resolve(s, p)
        total == TextOf(s, n) \o text
    IN  IF n = NULL THEN WriteFile(s, p, text, room)
        ELSE IF s.node[n].dir \/ ~room THEN Fail(s)
        ELSE Done(SetBuffer(s, n, <<total>>, Len(total) + 1))

\* Unlink n from its parent and free it.
Unlink(s, n) ==
    LET d == s.node[n].parent IN
    [s EXCEPT
       !.node = [m \in DOMAIN s.node \ {n} |->
                   IF m = d THEN [s.node[d] EXCEPT !.kids = RemoveFirst(@, n)]
                   ELSE s.node[m]],
       !.count = @ - 1]

\* Mutants: the current directory, or a directory that is not empty, may go.
RmCwd(s, p) ==
    LET n == Resolve(s, p) IN
    IF n \in {NULL, Root} \/ p = Path(TRUE, <<>>, FALSE) THEN Fail(s)
    ELSE IF s.node[n].dir /\ s.node[n].kids # <<>> THEN [s |-> s, rc |-> -2]
    ELSE Done(Unlink(s, n))
RmNonEmpty(s, p) ==
    LET n == Resolve(s, p) IN
    IF n \in {NULL, Root, s.cwd} THEN Fail(s) ELSE Done(Unlink(s, n))

\* fs_rm refuses the root, the current directory and a directory that has
\* children.
Rm(s, p) ==
    LET n == Resolve(s, p) IN
    IF n \in {NULL, Root, s.cwd} THEN Fail(s)
    ELSE IF s.node[n].dir /\ s.node[n].kids # <<>> THEN [s |-> s, rc |-> -2]
    ELSE Done(Unlink(s, n))

-----------------------------------------------------------------------------

\* The names fs_cwd_str prints: at most PartsCap of them, so that of a deeper
\* directory the outermost ones are missing.
CwdParts(s) ==
    LET up[i \in 0..MaxNodes] == IF i = 0 THEN s.cwd ELSE s.node[up[i - 1]].parent
        below == {i \in 0..MaxNodes : up[i] # Root}
        depth == IF Cardinality(below) < PartsCap THEN Cardinality(below) ELSE PartsCap
    IN  [i \in 1..depth |-> s.node[up[depth - i]].name]

\* fs_set_cwd: a path that does not lead to a directory changes nothing.
SetCwd(s, p) ==
    LET n == Resolve(s, p) IN
    IF IsDir(s, n) THEN [s EXCEPT !.cwd = n] ELSE s

-----------------------------------------------------------------------------
(* The commands of fs/shell.c that make more than one call. *)

\* cd checks the path, then makes it absolute by printing the current directory in
\* front of it, and hands the result to fs_set_cwd.
CdTo(s, p) ==
    LET absolute == IF p.abs THEN p ELSE Path(TRUE, CwdParts(s) \o p.parts, p.slash)
    IN  IF IsDir(s, Resolve(s, p)) THEN SetCwd(s, absolute) ELSE s

\* cp of a file: fs_touch(b), then fs_write_file(b) with the text of a.
CopyFile(s, a, b, room) ==
    LET n == Resolve(s, a) IN
    IF n = NULL \/ IsDir(s, n) THEN Fail(s)
    ELSE WriteFile(Touch(s, b).s, b, TextOf(s, n), room)

\* mv of a folder creates the destination before it looks whether the source is
\* empty, and does not look at what fs_rm returns.
MoveDir(s, a, b) ==
    LET made == Mkdir(s, b) IN
    IF made.rc # 0 THEN s
    ELSE IF made.s.node[Resolve(s, a)].kids # <<>> THEN made.s
    ELSE Rm(made.s, a).s

\* mv of a file copies, looks at the result of neither fs_touch nor
\* fs_write_file, and removes the source.
MoveFile(s, a, b, room) == Rm(CopyFile(s, a, b, room).s, a).s

Move(s, a, b, room) ==
    LET n == Resolve(s, a) IN
    IF n = NULL THEN s
    ELSE IF IsDir(s, n) THEN MoveDir(s, a, b) ELSE MoveFile(s, a, b, room)

\* The state before fs_init seeds the tree: the root and nothing else.
Empty == [node |-> [n \in {Root} |->
                      [name |-> "/", dir |-> TRUE, parent |-> Root, kids |-> <<>>,
                       data |-> NoData, cap |-> 0]],
          cwd |-> Root, count |-> 1]
=============================================================================
