------------------------------ MODULE AppsProofs ------------------------------
(***************************************************************************)
(* The application windows, for every number of nodes, every size of       *)
(* buffer, screen and history, and every set of paths, texts and keys.     *)
(***************************************************************************)
EXTENDS Apps, TLAPS

\* The names a node may get: those of fs_init's tree, of the file manager's new
\* folders and files, and of the paths typed in the other terminal.
Name == {"/", "docs", "nota.txt", "benvenuto.txt"}
          \cup {Fm!FolderName(k) : k \in 1..MaxCounter}
          \cup {Fm!FileName(k) : k \in 1..MaxCounter}
          \cup UNION {UNION {ToSet(p.parts) : p \in OtherPaths[k]} : k \in Kinds}

AnyPath == [abs : BOOLEAN, parts : Seq(Name), slash : BOOLEAN]

\* The characters of the texts, and a bound for their length.
Character == {"b", "x", NL} \cup Typed \cup UNION {ToSet(t) : t \in Samples}

LongEnough == CHOOSE n \in Nat : /\ Limit <= n /\ 2 <= n
                                 /\ \A t \in Samples : Len(t) <= n

AnyText == {t \in Seq(Character) : Len(t) <= LongEnough}

\* The file system of the shell, with those paths and texts.
S == INSTANCE ShellProofs
     WITH Paths <- AnyPath, Texts <- AnyText, MaxText <- LongEnough, reply <- <<>>

-----------------------------------------------------------------------------
(* What ShellProofs assumes of its constants holds here. *)

\* No text is longer than the limit, two characters and the longest sample.
LEMMA TextsAreBounded ==
    /\ LongEnough \in Nat /\ Limit <= LongEnough /\ 2 <= LongEnough
    /\ \A t \in Samples : Len(t) <= LongEnough
<1>1. PICK t \in Samples : \A u \in Samples : Len(u) <= Len(t)
  BY AppsAssumption
<1>2. Samples \subseteq Seq(STRING) /\ Limit \in Nat
  BY AppsAssumption
<1>3. Len(t) \in Nat /\ \A u \in Samples : Len(u) \in Nat
  BY <1>2
<1> DEFINE n == Len(t) + Limit + 2
<1>4. n \in Nat /\ Limit <= n /\ 2 <= n /\ \A u \in Samples : Len(u) <= n
  BY <1>1, <1>2, <1>3
<1> HIDE DEF n
<1> QED
  BY <1>4 DEF LongEnough

LEMMA OneMember == ASSUME NEW x PROVE x \in S!ToSet(<<x>>)
<1>1. 1 \in DOMAIN <<x>> /\ <<x>>[1] = x
  OBVIOUS
<1> QED
  BY <1>1, Zenon DEF S!ToSet

\* Every name and every character is one of the shell's.
LEMMA NamesAgree == S!Names = Name /\ S!Char = Character
<1>1. ASSUME NEW x \in Name PROVE x \in S!Names
  <2> DEFINE p == [abs |-> TRUE, parts |-> <<x>>, slash |-> FALSE]
  <2> HIDE DEF Name
  <2>1. p \in AnyPath /\ p.parts = <<x>>
    BY DEF AnyPath
  <2>2. x \in S!ToSet(<<x>>)
    BY OneMember
  <2> HIDE DEF p
  <2> QED
    BY <2>1, <2>2 DEF S!Names
<1>2. ASSUME NEW x \in S!Names PROVE x \in Name
  <2>1. "/" \in Name
    BY DEF Name
  <2>2. CASE x # "/"
    <3>1. PICK p \in AnyPath : x \in S!ToSet(p.parts)
      BY <2>2 DEF S!Names
    <3> HIDE DEF Name
    <3> QED
      BY <3>1 DEF AnyPath, S!ToSet
  <2> QED
    BY <2>1, <2>2
<1>3. ASSUME NEW x \in Character PROVE x \in S!Char
  <2>1. <<x>> \in AnyText
    <3>1. <<x>> \in Seq(Character) /\ Len(<<x>>) = 1
      BY <1>3
    <3> QED
      BY <3>1, TextsAreBounded DEF AnyText
  <2>2. x \in S!ToSet(<<x>>)
    BY OneMember
  <2> QED
    BY <2>1, <2>2 DEF S!Char
<1>4. ASSUME NEW x \in S!Char PROVE x \in Character
  <2>1. PICK t \in AnyText : x \in S!ToSet(t)
    BY DEF S!Char
  <2> QED
    BY <2>1 DEF AnyText, S!ToSet
<1> QED
  BY <1>1, <1>2, <1>3, <1>4

\* The paths and texts of the two modules are the same.
LEMMA TypesAgree == S!PathType = AnyPath /\ S!TextType = AnyText
<1>1. S!PathType = AnyPath
  BY NamesAgree DEF S!PathType, AnyPath
<1>2. ASSUME NEW t \in AnyText PROVE t \in S!SeqOf(Character, LongEnough)
  <2>1. t \in [1..Len(t) -> Character] /\ Len(t) \in 0..LongEnough
    BY TextsAreBounded DEF AnyText
  <2> QED
    BY <2>1 DEF S!SeqOf
<1>3. ASSUME NEW t \in S!SeqOf(Character, LongEnough) PROVE t \in AnyText
  <2>1. PICK m \in 0..LongEnough : t \in [1..m -> Character]
    BY <1>3 DEF S!SeqOf
  <2>2. t \in Seq(Character) /\ Len(t) = m
    BY <2>1, TextsAreBounded
  <2> QED
    BY <2>1, <2>2, TextsAreBounded DEF AnyText
<1> QED
  BY <1>1, <1>2, <1>3, NamesAgree DEF S!TextType

\* S!ShellAssumption, written out.
LEMMA ShellIsInstantiated ==
    /\ MaxNodes \in Nat \ {0} /\ PartsCap \in Nat /\ LongEnough \in Nat
    /\ AnyPath \subseteq [abs : BOOLEAN, parts : Seq(S!Names), slash : BOOLEAN]
    /\ AnyText \subseteq S!SeqOf(S!Char, LongEnough)
<1>1. MaxNodes \in Nat \ {0} /\ PartsCap \in Nat
  BY AppsAssumption
<1> QED
  BY <1>1, TextsAreBounded, NamesAgree, TypesAgree DEF AnyPath, S!TextType

-----------------------------------------------------------------------------
(* Apps, the editor, the file manager, the terminal and the shell each have  *)
(* a copy of vfs.c: the copies are the same functions.                       *)

\* fs_resolve and find_child.
LEMMA LookupIsOne ==
    ASSUME NEW s, NEW d, NEW p
    PROVE  /\ FindChild(s, d, p) = S!FindChild(s, d, p)
           /\ Ed!FindChild(s, d, p) = S!FindChild(s, d, p)
           /\ Fm!FindChild(s, d, p) = S!FindChild(s, d, p)
           /\ Resolve(s, p) = S!Resolve(s, p)
           /\ Ed!Resolve(s, p) = S!Resolve(s, p)
           /\ Fm!Resolve(s, p) = S!Resolve(s, p)
BY DEF FindChild, Ed!FindChild, Fm!FindChild, S!FindChild, NULL, Ed!NULL, Fm!NULL, S!NULL,
       Min, Ed!Min, Fm!Min, S!Min, Resolve, Ed!Resolve, Fm!Resolve, S!Resolve,
       Follow, Ed!Follow, Fm!Follow, S!Follow, Root, Ed!Root, Fm!Root, S!Root

LEMMA NumbersAreOne ==
    /\ NULL = S!NULL /\ Ed!NULL = S!NULL /\ Fm!NULL = S!NULL
    /\ Root = S!Root /\ Ed!Root = S!Root /\ Fm!Root = S!Root
    /\ NoData = S!NoData /\ Ed!NoData = S!NoData /\ Fm!NoData = S!NoData
    /\ Addr = S!Addr /\ Ed!Addr = S!Addr /\ Fm!Addr = S!Addr
BY DEF NULL, Ed!NULL, Fm!NULL, S!NULL, Root, Ed!Root, Fm!Root, S!Root, NoData,
       Ed!NoData, Fm!NoData, S!NoData, Addr, Ed!Addr, Fm!Addr, S!Addr

\* The kind and the text of a node.
LEMMA NodesAreOne ==
    ASSUME NEW s, NEW n
    PROVE  /\ (IsDir(s, n) <=> S!IsDir(s, n))
           /\ (Ed!IsDir(s, n) <=> S!IsDir(s, n))
           /\ (Fm!IsDir(s, n) <=> S!IsDir(s, n))
           /\ TextOf(s, n) = S!TextOf(s, n)
           /\ Ed!TextOf(s, n) = S!TextOf(s, n)
           /\ Fm!TextOf(s, n) = S!TextOf(s, n)
BY NumbersAreOne DEF IsDir, Ed!IsDir, Fm!IsDir, S!IsDir, TextOf, Ed!TextOf,
       Fm!TextOf, S!TextOf

\* Paths and what split_parent makes of them.
LEMMA PathsAreOne ==
    ASSUME NEW a, NEW p, NEW b
    PROVE  /\ Path(a, p, b) = S!Path(a, p, b)
           /\ Ed!Path(a, p, b) = S!Path(a, p, b)
           /\ Fm!Path(a, p, b) = S!Path(a, p, b)
           /\ EmptyPath = S!EmptyPath
           /\ Ed!EmptyPath = S!EmptyPath
           /\ Fm!EmptyPath = S!EmptyPath
           /\ (HasSlash(p) <=> S!HasSlash(p))
           /\ (Ed!HasSlash(p) <=> S!HasSlash(p))
           /\ (Fm!HasSlash(p) <=> S!HasSlash(p))
           /\ DirPart(p) = S!DirPart(p)
           /\ Ed!DirPart(p) = S!DirPart(p)
           /\ Fm!DirPart(p) = S!DirPart(p)
           /\ Base(p) = S!Base(p) /\ Ed!Base(p) = S!Base(p) /\ Fm!Base(p) = S!Base(p)
BY DEF Path, Ed!Path, Fm!Path, S!Path, EmptyPath, Ed!EmptyPath, Fm!EmptyPath,
       S!EmptyPath, HasSlash, Ed!HasSlash, Fm!HasSlash, S!HasSlash, DirPart,
       Ed!DirPart, Fm!DirPart, S!DirPart, Base, Ed!Base, Fm!Base, S!Base, Front,
       Ed!Front, Fm!Front, S!Front, Last, Ed!Last, Fm!Last, S!Last

\* new_node and attach.
LEMMA CreatingIsOne ==
    ASSUME NEW s, NEW name, NEW d
    PROVE  /\ Done(s) = S!Done(s) /\ Ed!Done(s) = S!Done(s) /\ Fm!Done(s) = S!Done(s)
           /\ Fail(s) = S!Fail(s) /\ Ed!Fail(s) = S!Fail(s) /\ Fm!Fail(s) = S!Fail(s)
           /\ Fresh(s) = S!Fresh(s)
           /\ Ed!Fresh(s) = S!Fresh(s)
           /\ Fm!Fresh(s) = S!Fresh(s)
           /\ Create(s, name, TRUE, d) = S!Create(s, name, TRUE, d)
           /\ Create(s, name, FALSE, d) = S!Create(s, name, FALSE, d)
           /\ Ed!Create(s, name, TRUE, d) = S!Create(s, name, TRUE, d)
           /\ Ed!Create(s, name, FALSE, d) = S!Create(s, name, FALSE, d)
           /\ Fm!Create(s, name, TRUE, d) = S!Create(s, name, TRUE, d)
           /\ Fm!Create(s, name, FALSE, d) = S!Create(s, name, FALSE, d)
BY DEF Done, Ed!Done, Fm!Done, S!Done, Fail, Ed!Fail, Fm!Fail, S!Fail, Fresh,
       Ed!Fresh, Fm!Fresh, S!Fresh, Create, Ed!Create, Fm!Create, S!Create, NULL,
       Ed!NULL, Fm!NULL, S!NULL, NoData, Ed!NoData, Fm!NoData, S!NoData, Addr,
       Ed!Addr, Fm!Addr, S!Addr, Min, Ed!Min, Fm!Min, S!Min

\* fs_mkdir and fs_touch.
LEMMA MakingIsOne ==
    ASSUME NEW s, NEW p
    PROVE  /\ Mkdir(s, p) = S!Mkdir(s, p)
           /\ Ed!Mkdir(s, p) = S!Mkdir(s, p)
           /\ Fm!Mkdir(s, p) = S!Mkdir(s, p)
           /\ Touch(s, p) = S!Touch(s, p)
           /\ Ed!Touch(s, p) = S!Touch(s, p)
           /\ Fm!Touch(s, p) = S!Touch(s, p)
<1>1. Mkdir(s, p) = S!Mkdir(s, p)
  BY DEF Mkdir, S!Mkdir, FindChild, S!FindChild, NULL, S!NULL, Min, S!Min, Resolve,
         S!Resolve, Follow, S!Follow, Root, S!Root, IsDir, S!IsDir, DirPart,
         S!DirPart, Base, S!Base, Path, S!Path, Front, S!Front, Last, S!Last,
         EmptyPath, S!EmptyPath, HasSlash, S!HasSlash, NoData, S!NoData, Addr,
         S!Addr, Fresh, S!Fresh, Done, S!Done, Fail, S!Fail, Create, S!Create
<1>2. Ed!Mkdir(s, p) = S!Mkdir(s, p)
  BY DEF Ed!Mkdir, S!Mkdir, Ed!FindChild, S!FindChild, Ed!NULL, S!NULL, Ed!Min,
         S!Min, Ed!Resolve, S!Resolve, Ed!Follow, S!Follow, Ed!Root, S!Root,
         Ed!IsDir, S!IsDir, Ed!DirPart, S!DirPart, Ed!Base, S!Base, Ed!Path, S!Path,
         Ed!Front, S!Front, Ed!Last, S!Last, Ed!EmptyPath, S!EmptyPath, Ed!HasSlash,
         S!HasSlash, Ed!NoData, S!NoData, Ed!Addr, S!Addr, Ed!Fresh, S!Fresh,
         Ed!Done, S!Done, Ed!Fail, S!Fail, Ed!Create, S!Create
<1>3. Fm!Mkdir(s, p) = S!Mkdir(s, p)
  BY DEF Fm!Mkdir, S!Mkdir, Fm!FindChild, S!FindChild, Fm!NULL, S!NULL, Fm!Min,
         S!Min, Fm!Resolve, S!Resolve, Fm!Follow, S!Follow, Fm!Root, S!Root,
         Fm!IsDir, S!IsDir, Fm!DirPart, S!DirPart, Fm!Base, S!Base, Fm!Path, S!Path,
         Fm!Front, S!Front, Fm!Last, S!Last, Fm!EmptyPath, S!EmptyPath, Fm!HasSlash,
         S!HasSlash, Fm!NoData, S!NoData, Fm!Addr, S!Addr, Fm!Fresh, S!Fresh,
         Fm!Done, S!Done, Fm!Fail, S!Fail, Fm!Create, S!Create
<1>4. Touch(s, p) = S!Touch(s, p)
  <2>1. /\ EmptyPath = S!EmptyPath /\ (HasSlash(p) <=> S!HasSlash(p))
        /\ DirPart(p) = S!DirPart(p) /\ Base(p) = S!Base(p) /\ NULL = S!NULL
    BY PathsAreOne, NumbersAreOne
  <2>2. Resolve(s, p) = S!Resolve(s, p)
        /\ Resolve(s, DirPart(p)) = S!Resolve(s, S!DirPart(p))
    BY <2>1, LookupIsOne
  <2>3. IsDir(s, Resolve(s, DirPart(p))) <=> S!IsDir(s, S!Resolve(s, S!DirPart(p)))
    BY <2>2, NodesAreOne
  <2>4. /\ Done(s) = S!Done(s) /\ Fail(s) = S!Fail(s)
        /\ \A name : \A d : Create(s, name, FALSE, d) = S!Create(s, name, FALSE, d)
    BY CreatingIsOne
  <2> QED
    BY <2>1, <2>2, <2>3, <2>4 DEF Touch, S!Touch
<1>5. Ed!Touch(s, p) = S!Touch(s, p)
  <2>1. /\ Ed!EmptyPath = S!EmptyPath /\ (Ed!HasSlash(p) <=> S!HasSlash(p))
        /\ Ed!DirPart(p) = S!DirPart(p) /\ Ed!Base(p) = S!Base(p) /\ Ed!NULL = S!NULL
    BY PathsAreOne, NumbersAreOne
  <2>2. Ed!Resolve(s, p) = S!Resolve(s, p)
        /\ Ed!Resolve(s, Ed!DirPart(p)) = S!Resolve(s, S!DirPart(p))
    BY <2>1, LookupIsOne
  <2>3. Ed!IsDir(s, Ed!Resolve(s, Ed!DirPart(p))) <=> S!IsDir(s, S!Resolve(s, S!DirPart(p)))
    BY <2>2, NodesAreOne
  <2>4. /\ Ed!Done(s) = S!Done(s) /\ Ed!Fail(s) = S!Fail(s)
        /\ \A name : \A d : Ed!Create(s, name, FALSE, d) = S!Create(s, name, FALSE, d)
    BY CreatingIsOne
  <2> QED
    BY <2>1, <2>2, <2>3, <2>4 DEF Ed!Touch, S!Touch
<1>6. Fm!Touch(s, p) = S!Touch(s, p)
  <2>1. /\ Fm!EmptyPath = S!EmptyPath /\ (Fm!HasSlash(p) <=> S!HasSlash(p))
        /\ Fm!DirPart(p) = S!DirPart(p) /\ Fm!Base(p) = S!Base(p) /\ Fm!NULL = S!NULL
    BY PathsAreOne, NumbersAreOne
  <2>2. Fm!Resolve(s, p) = S!Resolve(s, p)
        /\ Fm!Resolve(s, Fm!DirPart(p)) = S!Resolve(s, S!DirPart(p))
    BY <2>1, LookupIsOne
  <2>3. Fm!IsDir(s, Fm!Resolve(s, Fm!DirPart(p))) <=> S!IsDir(s, S!Resolve(s, S!DirPart(p)))
    BY <2>2, NodesAreOne
  <2>4. /\ Fm!Done(s) = S!Done(s) /\ Fm!Fail(s) = S!Fail(s)
        /\ \A name : \A d : Fm!Create(s, name, FALSE, d) = S!Create(s, name, FALSE, d)
    BY CreatingIsOne
  <2> QED
    BY <2>1, <2>2, <2>3, <2>4 DEF Fm!Touch, S!Touch
<1> QED
  BY <1>1, <1>2, <1>3, <1>4, <1>5, <1>6

LEMMA StoringIsOne ==
    ASSUME NEW s, NEW n, NEW t, NEW room
    PROVE  /\ StoreText(s, n, t, room) = S!StoreText(s, n, t, room)
           /\ Ed!StoreText(s, n, t, room) = S!StoreText(s, n, t, room)
           /\ Fm!StoreText(s, n, t, room) = S!StoreText(s, n, t, room)
BY NumbersAreOne, CreatingIsOne DEF StoreText, Ed!StoreText, Fm!StoreText,
       S!StoreText, SetBuffer, Ed!SetBuffer, Fm!SetBuffer, S!SetBuffer

\* fs_write_file.
LEMMA WritingIsOne ==
    ASSUME NEW s, NEW p, NEW text, NEW room
    PROVE  /\ WriteFile(s, p, text, room) = S!WriteFile(s, p, text, room)
           /\ Ed!WriteFile(s, p, text, room) = S!WriteFile(s, p, text, room)
           /\ Fm!WriteFile(s, p, text, room) = S!WriteFile(s, p, text, room)
<1> DEFINE t == IF S!Resolve(s, p) # S!NULL THEN S!Done(s) ELSE S!Touch(s, p)
           n == S!Resolve(t.s, p)
           r == IF t.rc # 0 \/ n = S!NULL \/ S!IsDir(t.s, n) THEN S!Fail(t.s)
                ELSE S!StoreText(t.s, n, text, room)
<1>1. S!WriteFile(s, p, text, room) = r
  BY DEF S!WriteFile
<1>2. WriteFile(s, p, text, room) = r
  <2> DEFINE t2 == IF Resolve(s, p) # NULL THEN Done(s) ELSE Touch(s, p)
             n2 == Resolve(t2.s, p)
  <2>1. t2 = t
    BY LookupIsOne, MakingIsOne, NumbersAreOne, CreatingIsOne
  <2>2. n2 = n
    BY <2>1, LookupIsOne
  <2>3. WriteFile(s, p, text, room)
          = IF t2.rc # 0 \/ n2 = NULL \/ IsDir(t2.s, n2) THEN Fail(t2.s)
            ELSE StoreText(t2.s, n2, text, room)
    BY DEF WriteFile
  <2> HIDE DEF t, n, t2, n2
  <2>4. IsDir(t.s, n) <=> S!IsDir(t.s, n)
    BY NodesAreOne
  <2>5. Fail(t.s) = S!Fail(t.s) /\ NULL = S!NULL
    BY CreatingIsOne, NumbersAreOne
  <2>6. StoreText(t.s, n, text, room) = S!StoreText(t.s, n, text, room)
    BY StoringIsOne
  <2> QED
    BY <2>1, <2>2, <2>3, <2>4, <2>5, <2>6
<1>3. Ed!WriteFile(s, p, text, room) = r
  <2> DEFINE t2 == IF Ed!Resolve(s, p) # Ed!NULL THEN Ed!Done(s) ELSE Ed!Touch(s, p)
             n2 == Ed!Resolve(t2.s, p)
  <2>1. t2 = t
    BY LookupIsOne, MakingIsOne, NumbersAreOne, CreatingIsOne
  <2>2. n2 = n
    BY <2>1, LookupIsOne
  <2>3. Ed!WriteFile(s, p, text, room)
          = IF t2.rc # 0 \/ n2 = Ed!NULL \/ Ed!IsDir(t2.s, n2) THEN Ed!Fail(t2.s)
            ELSE Ed!StoreText(t2.s, n2, text, room)
    BY DEF Ed!WriteFile
  <2> HIDE DEF t, n, t2, n2
  <2>4. Ed!IsDir(t.s, n) <=> S!IsDir(t.s, n)
    BY NodesAreOne
  <2>5. Ed!Fail(t.s) = S!Fail(t.s) /\ Ed!NULL = S!NULL
    BY CreatingIsOne, NumbersAreOne
  <2>6. Ed!StoreText(t.s, n, text, room) = S!StoreText(t.s, n, text, room)
    BY StoringIsOne
  <2> QED
    BY <2>1, <2>2, <2>3, <2>4, <2>5, <2>6
<1>4. Fm!WriteFile(s, p, text, room) = r
  <2> DEFINE t2 == IF Fm!Resolve(s, p) # Fm!NULL THEN Fm!Done(s) ELSE Fm!Touch(s, p)
             n2 == Fm!Resolve(t2.s, p)
  <2>1. t2 = t
    BY LookupIsOne, MakingIsOne, NumbersAreOne, CreatingIsOne
  <2>2. n2 = n
    BY <2>1, LookupIsOne
  <2>3. Fm!WriteFile(s, p, text, room)
          = IF t2.rc # 0 \/ n2 = Fm!NULL \/ Fm!IsDir(t2.s, n2) THEN Fm!Fail(t2.s)
            ELSE Fm!StoreText(t2.s, n2, text, room)
    BY DEF Fm!WriteFile
  <2> HIDE DEF t, n, t2, n2
  <2>4. Fm!IsDir(t.s, n) <=> S!IsDir(t.s, n)
    BY NodesAreOne
  <2>5. Fm!Fail(t.s) = S!Fail(t.s) /\ Fm!NULL = S!NULL
    BY CreatingIsOne, NumbersAreOne
  <2>6. Fm!StoreText(t.s, n, text, room) = S!StoreText(t.s, n, text, room)
    BY StoringIsOne
  <2> QED
    BY <2>1, <2>2, <2>3, <2>4, <2>5, <2>6
<1> QED
  BY <1>1, <1>2, <1>3, <1>4

LEMMA UnlinkingIsOne ==
    ASSUME NEW s, NEW n
    PROVE  /\ Unlink(s, n) = S!Unlink(s, n)
           /\ Ed!Unlink(s, n) = S!Unlink(s, n)
           /\ Fm!Unlink(s, n) = S!Unlink(s, n)
BY DEF Unlink, Ed!Unlink, Fm!Unlink, S!Unlink, RemoveFirst, Ed!RemoveFirst,
       Fm!RemoveFirst, S!RemoveFirst, RemoveAt, Ed!RemoveAt, Fm!RemoveAt,
       S!RemoveAt, SelectInSeq, Ed!SelectInSeq, Fm!SelectInSeq, S!SelectInSeq, Min,
       Ed!Min, Fm!Min, S!Min

\* fs_rm.
LEMMA RemovingIsOne ==
    ASSUME NEW s, NEW p
    PROVE  /\ Rm(s, p) = S!Rm(s, p)
           /\ Ed!Rm(s, p) = S!Rm(s, p)
           /\ Fm!Rm(s, p) = S!Rm(s, p)
BY LookupIsOne, NumbersAreOne, CreatingIsOne, UnlinkingIsOne DEF Rm, Ed!Rm, Fm!Rm,
       S!Rm

\* fs_set_cwd.
LEMMA MovingIsOne ==
    ASSUME NEW s, NEW p
    PROVE  /\ SetCwd(s, p) = S!SetCwd(s, p)
           /\ Ed!SetCwd(s, p) = S!SetCwd(s, p)
           /\ Fm!SetCwd(s, p) = S!SetCwd(s, p)
BY LookupIsOne, NodesAreOne DEF SetCwd, Ed!SetCwd, Fm!SetCwd, S!SetCwd

\* The state fs_init begins with.
LEMMA PrintingIsOne == ASSUME NEW s PROVE CwdParts(s) = S!CwdParts(s)
BY DEF CwdParts, S!CwdParts, Root, S!Root, Cardinality, S!Cardinality

\* cd.
LEMMA GoingIsOne ==
    ASSUME NEW s, NEW p
    PROVE  CdTo(s, p) = S!CdTo(s, p)
<1> DEFINE absolute == IF p.abs THEN p ELSE Path(TRUE, CwdParts(s) \o p.parts, p.slash)
<1>1. absolute = IF p.abs THEN p ELSE S!Path(TRUE, S!CwdParts(s) \o p.parts, p.slash)
  BY PrintingIsOne, PathsAreOne
<1> HIDE DEF absolute
<1>2. SetCwd(s, absolute) = S!SetCwd(s, absolute)
  BY MovingIsOne
<1>3. IsDir(s, Resolve(s, p)) <=> S!IsDir(s, S!Resolve(s, p))
  BY LookupIsOne, NodesAreOne
<1> QED
  BY <1>1, <1>2, <1>3 DEF CdTo, S!CdTo, absolute

\* cp and mv.
LEMMA CopyingIsOne ==
    ASSUME NEW s, NEW a, NEW b, NEW room
    PROVE  /\ CopyFile(s, a, b, room) = S!CopyFile(s, a, b, room)
           /\ Move(s, a, b, room) = S!Move(s, a, b, room)
<1> DEFINE n == Resolve(s, a)
<1>1. n = S!Resolve(s, a) /\ (IsDir(s, n) <=> S!IsDir(s, n)) /\ NULL = S!NULL
  BY LookupIsOne, NodesAreOne, NumbersAreOne
<1>2. \A t : Rm(t, a) = S!Rm(t, a)
  BY RemovingIsOne
<1>3. CopyFile(s, a, b, room) = S!CopyFile(s, a, b, room)
  <2>1. Touch(s, b) = S!Touch(s, b) /\ TextOf(s, n) = S!TextOf(s, n)
        /\ Fail(s) = S!Fail(s)
    BY MakingIsOne, NodesAreOne, CreatingIsOne
  <2>2. \A t : \A text : WriteFile(t, b, text, room) = S!WriteFile(t, b, text, room)
    BY WritingIsOne
  <2> QED
    BY <1>1, <2>1, <2>2, Zenon DEF CopyFile, S!CopyFile
<1>4. MoveFile(s, a, b, room) = S!MoveFile(s, a, b, room)
  BY <1>2, <1>3, Zenon DEF MoveFile, S!MoveFile
<1>5. MoveDir(s, a, b) = S!MoveDir(s, a, b)
  <2>1. Mkdir(s, b) = S!Mkdir(s, b)
    BY MakingIsOne
  <2> QED
    BY <1>1, <1>2, <2>1, Zenon DEF MoveDir, S!MoveDir
<1>6. Move(s, a, b, room) = S!Move(s, a, b, room)
  BY <1>1, <1>4, <1>5, Zenon DEF Move, S!Move
<1> QED
  BY <1>3, <1>6

LEMMA EmptyIsOne == Empty = S!Empty
BY NumbersAreOne DEF Empty, S!Empty

-----------------------------------------------------------------------------
(* Lists that hold what is most recent. *)

\* What Recent asks of a step, entry by entry: the n oldest have given way, and
\* only because the list is full.
Grown(list, new, cap) ==
    /\ Len(new) <= cap
    /\ \E n \in 0..Len(list) : /\ Len(list) - n <= Len(new)
                               /\ \A i \in 1..(Len(list) - n) : new[i] = list[n + i]
                               /\ n > 0 => Len(new) = cap

\* Recent's Grow, with its operators written out.
Grows(list, new, cap) ==
    \E n \in 0..Len(list) :
      LET kept == SubSeq(list, n + 1, Len(list))
      IN  /\ Len(kept) <= Len(new) /\ SubSeq(new, 1, Len(kept)) = kept
          /\ n > 0 => Len(new) = cap
          /\ Len(new) <= cap

LEMMA GrownGrows ==
    ASSUME NEW T, NEW list \in Seq(T), NEW new \in Seq(T), NEW cap, Grown(list, new, cap)
    PROVE  Grows(list, new, cap)
<1>1. PICK n \in 0..Len(list) : /\ Len(list) - n <= Len(new)
                                /\ \A i \in 1..(Len(list) - n) : new[i] = list[n + i]
                                /\ n > 0 => Len(new) = cap
  BY DEF Grown
<1> DEFINE kept == SubSeq(list, n + 1, Len(list))
<1>2. /\ kept \in Seq(T) /\ Len(kept) = Len(list) - n
      /\ \A i \in 1..Len(kept) : kept[i] = list[n + i]
  OBVIOUS
<1>3. \A i \in 1..Len(kept) : kept[i] = new[i]
  BY <1>1, <1>2
<1> HIDE DEF kept
<1>4. SubSeq(new, 1, Len(kept)) = kept
  BY <1>1, <1>2, <1>3
<1> QED
  BY <1>1, <1>2, <1>4 DEF Grown, Grows, kept

\* One entry more.
LEMMA PushGrows ==
    ASSUME NEW T, NEW list \in Seq(T), NEW e \in T, NEW cap \in Nat \ {0}, Len(list) <= cap
    PROVE  LET new == Term!Push(list, cap, e)
           IN  /\ new \in Seq(T) /\ Grown(list, new, cap)
               /\ Len(new) \in 1..cap /\ new[Len(new)] = e
               /\ \E n \in 0..1 : /\ Len(new) = Len(list) + 1 - n
                                  /\ \A i \in 1..(Len(new) - 1) : new[i] = list[n + i]
<1> DEFINE new == Term!Push(list, cap, e)
<1>1. CASE Len(list) < cap
  <2>1. new = Append(list, e)
    BY <1>1 DEF Term!Push
  <2> HIDE DEF new
  <2>2. new \in Seq(T) /\ Len(new) = Len(list) + 1 /\ new[Len(new)] = e
    BY <2>1
  <2>3. \A i \in 1..Len(list) : new[i] = list[0 + i]
    BY <2>1
  <2>4. Grown(list, new, cap)
    <3>1. 0 \in 0..Len(list) /\ Len(list) - 0 <= Len(new) /\ Len(new) <= cap
      BY <1>1, <2>2
    <3> QED
      BY <2>3, <3>1 DEF Grown
  <2> QED
    BY <1>1, <2>2, <2>3, <2>4 DEF new
<1>2. CASE ~(Len(list) < cap)
  <2>1. new = Append(Tail(list), e) /\ Len(list) = cap /\ list # <<>>
    BY <1>2 DEF Term!Push
  <2> HIDE DEF new
  <2>2. new \in Seq(T) /\ Len(new) = Len(list) /\ new[Len(new)] = e
    BY <2>1
  <2>3. \A i \in 1..(Len(list) - 1) : new[i] = list[1 + i]
    BY <2>1
  <2>4. Grown(list, new, cap)
    <3>1. 1 \in 0..Len(list) /\ Len(list) - 1 <= Len(new) /\ Len(new) = cap
      BY <2>1, <2>2
    <3> QED
      BY <2>3, <3>1 DEF Grown
  <2> QED
    BY <2>1, <2>2, <2>3, <2>4 DEF new
<1> QED
  BY <1>1, <1>2

\* Growing twice is growing.
LEMMA GrownOn ==
    ASSUME NEW T, NEW a \in Seq(T), NEW b \in Seq(T), NEW c \in Seq(T), NEW cap \in Nat,
           Grown(a, b, cap), Grown(b, c, cap)
    PROVE  Grown(a, c, cap)
<1>1. PICK n \in 0..Len(a) : /\ Len(a) - n <= Len(b)
                             /\ \A i \in 1..(Len(a) - n) : b[i] = a[n + i]
                             /\ n > 0 => Len(b) = cap
  BY DEF Grown
<1>2. PICK m \in 0..Len(b) : /\ Len(b) - m <= Len(c)
                             /\ \A i \in 1..(Len(b) - m) : c[i] = b[m + i]
                             /\ m > 0 => Len(c) = cap
  BY DEF Grown
<1>3. Len(a) \in Nat /\ Len(b) \in Nat /\ Len(c) \in Nat /\ Len(c) <= cap
  BY DEF Grown
<1> DEFINE k == IF n + m <= Len(a) THEN n + m ELSE Len(a)
<1>4. k \in 0..Len(a) /\ Len(a) - k <= Len(c)
  BY <1>1, <1>2, <1>3
<1>5. ASSUME NEW i \in 1..(Len(a) - k) PROVE c[i] = a[k + i]
  <2>1. k = n + m /\ i \in 1..(Len(b) - m) /\ m + i \in 1..(Len(a) - n)
    BY <1>1, <1>3
  <2>2. c[i] = b[m + i] /\ b[m + i] = a[n + (m + i)]
    BY <1>1, <1>2, <2>1
  <2>3. n + (m + i) = k + i
    BY <2>1
  <2> QED
    BY <2>2, <2>3
<1>6. k > 0 => Len(c) = cap
  <2>1. CASE m > 0
    BY <1>2, <2>1
  <2>2. CASE m = 0 /\ n > 0
    BY <1>1, <1>2, <1>3, <2>2
  <2> QED
    BY <2>1, <2>2
<1> HIDE DEF k
<1> QED
  BY <1>3, <1>4, <1>5, <1>6 DEF Grown

\* A list that has not changed has grown by nothing.
LEMMA GrownSame ==
    ASSUME NEW T, NEW list \in Seq(T), NEW cap, Len(list) <= cap
    PROVE  Grown(list, list, cap)
BY DEF Grown

-----------------------------------------------------------------------------
(* The browser. *)

Typeable == Letters \cup {"h"}
Address == {u \in Seq(Typeable) : Len(u) <= MaxAddr}

\* The history is full or shorter and holds addresses; the page shown is the one
\* it points at.
BrowserInv ==
    /\ pages \in Seq(Address \ {<<>>}) /\ Len(pages) \in 1..HistCap
    /\ page \in 0..(Len(pages) - 1)
    /\ url = pages[page + 1]
    /\ addr \in Address

\* What a step of the browser keeps, and what it does to the history.
BrKeeps == /\ BrowserInv'
           /\ [Grows(pages, pages', HistCap) \/ pages' = <<>> \/ pages' = <<Br!HomePage>>]_pages

LEMMA HomeIsAddress ==
    /\ Br!HomePage \in Address \ {<<>>}
    /\ <<Br!HomePage>> \in Seq(Address \ {<<>>})
    /\ Len(<<Br!HomePage>>) = 1 /\ <<Br!HomePage>>[1] = Br!HomePage
    /\ HistCap \in Nat \ {0} /\ MaxAddr \in Nat \ {0}
<1>1. Br!HomePage \in Seq(Typeable) /\ Len(Br!HomePage) = 1
  BY DEF Br!HomePage, Typeable
<1>2. Br!HomePage \in Address \ {<<>>} /\ HistCap \in Nat \ {0} /\ MaxAddr \in Nat \ {0}
  <2>1. HistCap \in Nat \ {0} /\ MaxAddr \in Nat \ {0}
    BY AppsAssumption
  <2>2. Br!HomePage # <<>> /\ Len(Br!HomePage) <= MaxAddr
    BY <1>1, <2>1
  <2> QED
    BY <1>1, <2>1, <2>2 DEF Address
<1> HIDE DEF Br!HomePage
<1> QED
  BY <1>2

LEMMA BrowserStarts == ASSUME Br!BrInit PROVE BrowserInv
BY HomeIsAddress DEF Br!BrInit, BrowserInv

LEMMA NavigateKeeps ==
    ASSUME BrowserInv, NEW u \in Address \ {<<>>}, Br!Navigate(u)
    PROVE  BrKeeps
<1> DEFINE T == Address \ {<<>>}
<1>1. url' = u /\ addr' = u
  BY DEF Br!Navigate
<1>2. CASE pages[page + 1] = u
  <2>1. pages' = pages /\ page' = page
    BY <1>2 DEF Br!Navigate
  <2> QED
    BY <1>1, <1>2, <2>1 DEF BrKeeps, BrowserInv
<1>3. CASE pages[page + 1] # u
  <2>1. pages' = Term!Push(pages, HistCap, u) /\ page' = Len(pages') - 1
    BY <1>3 DEF Br!Navigate, Term!Push
  <2>2. pages \in Seq(T) /\ u \in T /\ Len(pages) <= HistCap /\ HistCap \in Nat \ {0}
    BY HomeIsAddress DEF BrowserInv
  <2> HIDE DEF T
  <2>3. /\ pages' \in Seq(T) /\ Grown(pages, pages', HistCap)
        /\ Len(pages') \in 1..HistCap /\ pages'[Len(pages')] = u
    BY <2>1, <2>2, PushGrows
  <2>4. Grows(pages, pages', HistCap)
    BY <2>2, <2>3, GrownGrows
  <2>5. page' \in 0..(Len(pages') - 1) /\ pages'[page' + 1] = u
    BY <2>1, <2>3
  <2> QED
    BY <1>1, <2>3, <2>4, <2>5 DEF BrKeeps, BrowserInv, T
<1> QED
  BY <1>2, <1>3

\* Typing keeps the history.
LEMMA TypingKeeps ==
    ASSUME BrowserInv, UNCHANGED <<url, pages, page>>, addr' \in Address
    PROVE  BrKeeps
BY DEF BrKeeps, BrowserInv

LEMMA ShowKeeps ==
    ASSUME BrowserInv, NEW i \in 0..(Len(pages) - 1), Br!Show(i)
    PROVE  BrKeeps
<1>1. pages[i + 1] \in Address
  <2>1. pages \in Seq(Address \ {<<>>}) /\ i + 1 \in 1..Len(pages)
    BY DEF BrowserInv
  <2> QED
    BY <2>1
<1> QED
  BY <1>1 DEF BrKeeps, BrowserInv, Br!Show

LEMMA BrowserKeeps ==
    ASSUME BrowserInv, Br!BrNext
    PROVE  BrKeeps
<1>1. addr \in Seq(Typeable) /\ Len(addr) <= MaxAddr /\ MaxAddr \in Nat
  BY HomeIsAddress DEF BrowserInv, Address
<1>2. CASE Br!Go
  <2>1. addr \in Address \ {<<>>} /\ Br!Navigate(addr)
    BY <1>2 DEF Br!Go, BrowserInv
  <2> QED
    BY <2>1, NavigateKeeps
<1>3. CASE Br!Backspace
  <2>1. addr' \in Seq(Typeable) /\ Len(addr') <= MaxAddr
    BY <1>1, <1>3 DEF Br!Backspace, Br!Front
  <2> QED
    BY <1>3, <2>1, TypingKeeps DEF Br!Backspace, Address
<1>4. CASE Br!ClickBar
  BY <1>4, TypingKeeps DEF Br!ClickBar, BrowserInv
<1>5. CASE Br!Back
  <2>1. page - 1 \in 0..(Len(pages) - 1) /\ Br!Show(page - 1)
    BY <1>5 DEF Br!Back, BrowserInv
  <2> QED
    BY <2>1, ShowKeeps
<1>6. CASE Br!Forward
  <2>1. page + 1 \in 0..(Len(pages) - 1) /\ Br!Show(page + 1)
    BY <1>6 DEF Br!Forward, BrowserInv
  <2> QED
    BY <2>1, ShowKeeps
<1>7. CASE Br!Reopen
  BY <1>7, HomeIsAddress DEF Br!Reopen, BrKeeps, BrowserInv
<1>8. ASSUME NEW u \in Links, Br!Link(u) PROVE BrKeeps
  <2>1. u \in Seq(Letters) /\ u # <<>> /\ Len(u) <= MaxAddr
    BY AppsAssumption
  <2>2. u \in Seq(Typeable)
    BY <2>1 DEF Typeable
  <2> QED
    BY <1>8, <2>1, <2>2, NavigateKeeps DEF Br!Link, Address
<1>9. ASSUME NEW c \in Letters, Br!Type(c) PROVE BrKeeps
  <2>1. c \in Typeable
    BY DEF Typeable
  <2>2. addr' \in Seq(Typeable) /\ Len(addr') <= MaxAddr
    BY <1>1, <1>9, <2>1 DEF Br!Type
  <2> QED
    BY <1>9, <2>2, TypingKeeps DEF Br!Type, Address
<1> QED
  BY <1>2, <1>3, <1>4, <1>5, <1>6, <1>7, <1>8, <1>9 DEF Br!BrNext

-----------------------------------------------------------------------------
(* The terminal. *)

LEMMA LeastOfTwo == ASSUME NEW a \in Int, NEW b \in Int
                    PROVE  /\ Term!Min({a, b}) = IF a <= b THEN a ELSE b
                           /\ Ed!Min({a, b}) = IF a <= b THEN a ELSE b
                           /\ Term!Max({a, b}) = IF a >= b THEN a ELSE b
BY DEF Term!Min, Ed!Min, Term!Max

\* Printing several lines, one after the other.
LEMMA PushAllGrows ==
    ASSUME NEW T, NEW list \in Seq(T), NEW entries \in Seq(T), Len(list) <= ScreenCap
    PROVE  LET new == Term!PushAll(list, entries)
           IN  new \in Seq(T) /\ Len(new) <= ScreenCap /\ Grown(list, new, ScreenCap)
<1> DEFINE A == {l \in Seq(T) : Len(l) <= ScreenCap}
           N == Len(entries)
           F == [x \in A \X Nat |->
                   IF x[2] \in 1..N THEN Term!Push(x[1], ScreenCap, entries[x[2]]) ELSE x[1]]
           Body(g) == [k \in 0..N |-> IF k = 0 THEN list
                                      ELSE Term!Push(g[k - 1], ScreenCap, entries[k])]
<1>1. ScreenCap \in Nat \ {0} /\ N \in Nat /\ list \in A
  BY AppsAssumption DEF Term!Banner
<1>2. ASSUME NEW l \in A, NEW k \in 1..N
      PROVE  /\ Term!Push(l, ScreenCap, entries[k]) \in A
             /\ Grown(l, Term!Push(l, ScreenCap, entries[k]), ScreenCap)
  <2> DEFINE new == Term!Push(l, ScreenCap, entries[k])
  <2>1. l \in Seq(T) /\ Len(l) <= ScreenCap /\ entries[k] \in T
    BY <1>1
  <2>2. new \in Seq(T) /\ Grown(l, new, ScreenCap) /\ Len(new) \in 1..ScreenCap
    BY <1>1, <2>1, PushGrows
  <2> HIDE DEF new
  <2>3. Len(new) <= ScreenCap
    BY <2>2
  <2> QED
    BY <2>2, <2>3 DEF new
<1>3. F \in [A \X Nat -> A]
  <2> HIDE DEF A
  <2> QED
    BY <1>2
<1>4. PICK g : S!Loop(A, list, F, N, g)
  <2> HIDE DEF A, F, N
  <2> QED
    BY <1>1, <1>3, S!LoopExists, ShellIsInstantiated
<1>5. g = Body(g)
  <2>1. g \in [0..N -> A] /\ g[0] = list
    BY <1>4 DEF S!Loop
  <2>2. ASSUME NEW k \in 1..N PROVE g[k] = Term!Push(g[k - 1], ScreenCap, entries[k])
    <3>1. k \in Nat /\ g[k - 1] \in A
      BY <1>1, <2>1
    <3> HIDE DEF A
    <3>2. F[<<g[k - 1], k>>] = Term!Push(g[k - 1], ScreenCap, entries[k])
      BY <3>1
    <3> QED
      BY <1>4, <3>2 DEF S!Loop
  <2> HIDE DEF F, A, N
  <2>3. \A k \in 0..N : g[k] = IF k = 0 THEN list ELSE Term!Push(g[k - 1], ScreenCap, entries[k])
    BY <1>1, <2>1, <2>2
  <2> QED
    BY <2>1, <2>3
<1> DEFINE h == CHOOSE f : f = Body(f)
<1>6. h = Body(h)
  <2> HIDE DEF Body
  <2> QED
    BY <1>5
<1>7. Term!PushAll(list, entries) = h[N]
  BY DEF Term!PushAll
<1> HIDE DEF h
<1>8. \A k \in 0..N : h[k] = IF k = 0 THEN list ELSE Term!Push(h[k - 1], ScreenCap, entries[k])
  BY <1>6
<1> DEFINE P == {k \in Nat : k \in 0..N => h[k] \in A /\ Grown(list, h[k], ScreenCap)}
<1>9. 0 \in P
  <2>1. h[0] = list
    BY <1>1, <1>8
  <2> QED
    BY <1>1, <2>1, GrownSame
<1>10. ASSUME NEW k \in Nat, k \in P PROVE k + 1 \in P
  <2> SUFFICES ASSUME k + 1 \in 0..N
               PROVE  h[k + 1] \in A /\ Grown(list, h[k + 1], ScreenCap)
    OBVIOUS
  <2>1. h[k] \in A /\ Grown(list, h[k], ScreenCap)
    BY <1>1, <1>10
  <2>2. k + 1 \in 1..N /\ h[k + 1] = Term!Push(h[k], ScreenCap, entries[k + 1])
    BY <1>1, <1>8
  <2>3. h[k + 1] \in A /\ Grown(h[k], h[k + 1], ScreenCap)
    <3> HIDE DEF A
    <3> QED
      BY <1>2, <2>1, <2>2
  <2> QED
    BY <1>1, <2>1, <2>3, GrownOn
<1>11. Nat \subseteq P
  <2> HIDE DEF P
  <2> QED
    BY <1>9, <1>10, S!SetInduction, ShellIsInstantiated
<1>12. h[N] \in A /\ Grown(list, h[N], ScreenCap)
  <2>1. N \in P /\ N \in 0..N
    BY <1>1, <1>11
  <2> HIDE DEF N, A
  <2> QED
    BY <2>1
<1> QED
  BY <1>7, <1>12

\* Lists of different entries are lists of either.
LEMMA WiderList ==
    ASSUME NEW A, NEW B, NEW list \in Seq(A)
    PROVE  list \in Seq(A \cup B) /\ list \in Seq(B \cup A)
OBVIOUS

AnyWord == Words \cup {"other"}
TypedLine == {l \in Seq(Words) : l # <<>> /\ Len(l) <= MaxInput}
Command == {l \in Seq(AnyWord) : l # <<>> /\ Head(l) # Term!Space /\ Len(l) <= HistLine}

\* The history of the terminal repeats no line; that of the shell repeats one only
\* if it has been cut.
TypedInv(h) == /\ h \in Seq(TypedLine) /\ Len(h) <= HistCap
               /\ \A k \in 1..(Len(h) - 1) : h[k] # h[k + 1]
ExecutedInv(h) == /\ h \in Seq(Command) /\ Len(h) <= HistCap
                  /\ \A k \in 1..(Len(h) - 1) : h[k] = h[k + 1] => Len(h[k]) = HistLine

TerminalInv == /\ input \in Seq(Words) /\ Len(input) <= MaxInput
               /\ TypedInv(hist) /\ hpos \in 0..Len(hist)
               /\ \E T : lines \in Seq(T)
               /\ Len(lines) <= ScreenCap
               /\ ExecutedInv(shHist)

\* What a step does to a list that begins as start.
Moves(old, new, start, cap) == \/ new = old \/ new = <<>> \/ new = start
                               \/ Grows(old, new, cap)

TermKeeps == /\ TerminalInv'
             /\ Moves(lines, lines', Term!Banner, ScreenCap)
             /\ Moves(hist, hist', <<>>, HistCap)
             /\ Moves(shHist, shHist', <<>>, HistCap)

LEMMA TermConstants ==
    /\ ScreenCap \in Nat \ {0} /\ Len(Term!Banner) = 3 /\ Len(Term!Banner) <= ScreenCap
    /\ \E T : Term!Banner \in Seq(T)
    /\ HistCap \in Nat \ {0} /\ HistLine \in Nat \ {0} /\ MaxInput \in Nat
<1>1. Len(Term!Banner) = 3
  BY DEF Term!Banner
<1>2. Term!Banner \in Seq({<<"PlexOS">>, <<"Scrivi 'help'">>, <<>>})
  BY DEF Term!Banner
<1>3. ScreenCap \in Nat /\ ScreenCap >= Len(Term!Banner)
  BY AppsAssumption
<1>4. HistCap \in Nat \ {0} /\ HistLine \in Nat \ {0} /\ MaxInput \in Nat
  BY AppsAssumption
<1>5. ScreenCap \in Nat \ {0} /\ Len(Term!Banner) <= ScreenCap
  BY <1>1, <1>3
<1>6. \E T : Term!Banner \in Seq(T)
  BY <1>2
<1> QED
  BY <1>1, <1>4, <1>5, <1>6

\* An entry that differs from the last one does not repeat it.
LEMMA EnteredKeeps ==
    ASSUME TerminalInv
    PROVE  TypedInv(Term!Entered) /\ Moves(hist, Term!Entered, <<>>, HistCap)
<1> DEFINE new == Term!Entered
<1>1. CASE input = <<>> \/ (hist # <<>> /\ Term!Last(hist) = input)
  BY <1>1 DEF Term!Entered, TerminalInv, Moves
<1>2. CASE ~(input = <<>> \/ (hist # <<>> /\ Term!Last(hist) = input))
  <2>1. new = Term!Push(hist, HistCap, input)
    BY <1>2 DEF Term!Entered
  <2>2. /\ hist \in Seq(TypedLine) /\ input \in TypedLine
        /\ HistCap \in Nat \ {0} /\ Len(hist) <= HistCap
    BY <1>2, TermConstants DEF TerminalInv, TypedInv, TypedLine
  <2> HIDE DEF new
  <2>3. /\ new \in Seq(TypedLine) /\ Grown(hist, new, HistCap)
        /\ Len(new) \in 1..HistCap /\ new[Len(new)] = input
    BY <2>1, <2>2, PushGrows
  <2>4. PICK n \in 0..1 : /\ Len(new) = Len(hist) + 1 - n
                          /\ \A i \in 1..(Len(new) - 1) : new[i] = hist[n + i]
    BY <2>1, <2>2, PushGrows
  <2>5. ASSUME NEW k \in 1..(Len(new) - 1) PROVE new[k] # new[k + 1]
    <3>1. new[k] = hist[n + k] /\ n + k \in 1..Len(hist)
      BY <2>2, <2>3, <2>4
    <3>2. CASE k + 1 = Len(new)
      <4>1. new[k + 1] = input /\ n + k = Len(hist) /\ hist # <<>>
        BY <2>2, <2>3, <2>4, <3>1, <3>2
      <4>2. hist[Len(hist)] # input
        BY <1>2, <4>1 DEF Term!Last
      <4> QED
        BY <3>1, <4>1, <4>2
    <3>3. CASE k + 1 # Len(new)
      <4>1. k + 1 \in 1..(Len(new) - 1) /\ n + (k + 1) = (n + k) + 1
            /\ n + k \in 1..(Len(hist) - 1)
        BY <2>2, <2>3, <2>4, <3>3
      <4>2. new[k + 1] = hist[(n + k) + 1]
        BY <2>4, <4>1
      <4>3. hist[n + k] # hist[(n + k) + 1]
        BY <4>1 DEF TerminalInv, TypedInv
      <4> QED
        BY <3>1, <4>2, <4>3
    <3> QED
      BY <3>2, <3>3
  <2>6. Grows(hist, new, HistCap)
    BY <2>2, <2>3, GrownGrows
  <2> QED
    BY <2>3, <2>5, <2>6 DEF TypedInv, Moves, new
<1> QED
  BY <1>1, <1>2

\* sh_push: an entry that equals the last one although the line did not has been cut.
LEMMA ShPushKeeps ==
    ASSUME ExecutedInv(shHist), NEW line \in Seq(AnyWord),
           line # <<>> => Head(line) # Term!Space
    PROVE  /\ ExecutedInv(Term!ShPush(line))
           /\ Moves(shHist, Term!ShPush(line), <<>>, HistCap)
<1> DEFINE new == Term!ShPush(line)
           l == Term!Min({HistLine, Len(line)})
           cut == SubSeq(line, 1, l)
<1>1. CASE line = <<>> \/ (shHist # <<>> /\ Term!Last(shHist) = line)
  BY <1>1 DEF Term!ShPush, Moves
<1>2. CASE ~(line = <<>> \/ (shHist # <<>> /\ Term!Last(shHist) = line))
  <2>1. new = Term!Push(shHist, HistCap, cut)
    BY <1>2 DEF Term!ShPush
  <2>2. HistLine \in Nat \ {0} /\ HistCap \in Nat \ {0} /\ Len(line) \in Nat \ {0}
    BY <1>2, TermConstants
  <2>3. l = IF HistLine <= Len(line) THEN HistLine ELSE Len(line)
    BY <2>2, LeastOfTwo
  <2> HIDE DEF l
  <2>4. /\ cut \in Seq(AnyWord) /\ Len(cut) = l /\ cut # <<>> /\ Head(cut) = Head(line)
        /\ l <= HistLine /\ (l # HistLine => cut = line)
    <3>1. l \in 1..Len(line) /\ l <= HistLine /\ (l # HistLine => l = Len(line))
      BY <2>2, <2>3
    <3>2. /\ cut \in Seq(AnyWord) /\ Len(cut) = l /\ cut # <<>>
          /\ \A i \in 1..l : cut[i] = line[i]
      BY <3>1
    <3>3. Head(cut) = Head(line)
      BY <2>2, <3>1, <3>2
    <3>4. l = Len(line) => cut = line
      BY <3>2
    <3> QED
      BY <3>1, <3>2, <3>3, <3>4
  <2> HIDE DEF cut, new
  <2>5. /\ shHist \in Seq(Command) /\ cut \in Command /\ Len(shHist) <= HistCap
    BY <1>2, <2>4 DEF ExecutedInv, Command
  <2>6. /\ new \in Seq(Command) /\ Grown(shHist, new, HistCap)
        /\ Len(new) \in 1..HistCap /\ new[Len(new)] = cut
    BY <2>1, <2>2, <2>5, PushGrows
  <2>7. PICK n \in 0..1 : /\ Len(new) = Len(shHist) + 1 - n
                          /\ \A i \in 1..(Len(new) - 1) : new[i] = shHist[n + i]
    BY <2>1, <2>2, <2>5, PushGrows
  <2>8. ASSUME NEW k \in 1..(Len(new) - 1), new[k] = new[k + 1] PROVE Len(new[k]) = HistLine
    <3>1. new[k] = shHist[n + k] /\ n + k \in 1..Len(shHist)
      BY <2>5, <2>6, <2>7
    <3>2. CASE k + 1 = Len(new)
      <4>1. new[k + 1] = cut /\ n + k = Len(shHist) /\ shHist # <<>>
        BY <2>5, <2>6, <2>7, <3>1, <3>2
      <4>2. shHist[Len(shHist)] # line
        BY <1>2, <4>1 DEF Term!Last
      <4>3. cut # line
        BY <2>8, <3>1, <4>1, <4>2
      <4> QED
        BY <2>4, <2>8, <4>1, <4>3
    <3>3. CASE k + 1 # Len(new)
      <4>1. k + 1 \in 1..(Len(new) - 1) /\ n + (k + 1) = (n + k) + 1
            /\ n + k \in 1..(Len(shHist) - 1)
        BY <2>5, <2>6, <2>7, <3>3
      <4>2. new[k + 1] = shHist[(n + k) + 1]
        BY <2>7, <4>1
      <4>3. shHist[n + k] = shHist[(n + k) + 1] => Len(shHist[n + k]) = HistLine
        BY <4>1 DEF ExecutedInv
      <4> QED
        BY <2>8, <3>1, <4>2, <4>3
    <3> QED
      BY <3>2, <3>3
  <2>9. Grows(shHist, new, HistCap)
    BY <2>5, <2>6, GrownGrows
  <2> QED
    BY <2>6, <2>8, <2>9 DEF ExecutedInv, Moves, new
<1> QED
  BY <1>1, <1>2

\* The line without its leading blanks begins with a word.
LEMMA SkipFindsWord ==
    ASSUME NEW line \in Seq(AnyWord)
    PROVE  /\ Term!Skip(line) \in Seq(AnyWord)
           /\ Term!Skip(line) # <<>> => Head(Term!Skip(line)) # Term!Space
<1> DEFINE words == {i \in DOMAIN line : line[i] # Term!Space}
           m == Term!Min(words)
<1>1. CASE words = {}
  BY <1>1 DEF Term!Skip
<1>2. CASE words # {}
  <2>1. m \in words
    <3>1. words \in SUBSET Nat
      OBVIOUS
    <3> HIDE DEF words
    <3> QED
      BY <1>2, <3>1, S!LeastNat, ShellIsInstantiated DEF Term!Min
  <2>2. Term!Skip(line) = SubSeq(line, m, Len(line))
    BY <1>2 DEF Term!Skip
  <2>3. m \in 1..Len(line) /\ line[m] # Term!Space
    BY <2>1
  <2> HIDE DEF m, words
  <2>4. /\ SubSeq(line, m, Len(line)) \in Seq(AnyWord)
        /\ Head(SubSeq(line, m, Len(line))) = line[m]
    BY <2>3
  <2> QED
    BY <2>2, <2>3, <2>4
<1> QED
  BY <1>1, <1>2

\* A set of positions has a last one.
LEMMA GreatestOf ==
    ASSUME NEW N \in Nat, NEW A \in SUBSET (0..N), A # {}
    PROVE  Term!Max(A) \in A /\ Ed!Max(A) \in A
<1> DEFINE B == {N - i : i \in A}
<1>1. PICK m \in B : \A n \in B : m <= n
  <2>1. B \in SUBSET Nat
    <3>1. \A i \in A : i \in 0..N
      OBVIOUS
    <3>2. \A i \in 0..N : N - i \in Nat
      OBVIOUS
    <3> QED
      BY <3>1, <3>2
  <2>2. B # {}
    <3>1. PICK i \in A : TRUE
      OBVIOUS
    <3>2. N - i \in B
      OBVIOUS
    <3> QED
      BY <3>2
  <2> HIDE DEF B
  <2> QED
    BY <2>1, <2>2, S!LeastNat, ShellIsInstantiated
<1>2. PICK x \in A : m = N - x
  OBVIOUS
<1>3. \A y \in A : x >= y
  <2> SUFFICES ASSUME NEW y \in A PROVE x >= y
    OBVIOUS
  <2>1. N - y \in B
    OBVIOUS
  <2>2. m <= N - y
    BY <1>1, <2>1
  <2> QED
    BY <1>2, <2>2
<1> QED
  BY <1>2, <1>3 DEF Term!Max, Ed!Max

\* The command is the line without the blanks around it.
LEMMA TrimIsLine ==
    ASSUME NEW line \in Seq(AnyWord)
    PROVE  Term!Trim(line) \in Seq(AnyWord)
<1> DEFINE words == {i \in DOMAIN line : line[i] # Term!Space}
<1>1. CASE words = {}
  BY <1>1 DEF Term!Trim
<1>2. CASE words # {}
  <2>1. words \in SUBSET (0..Len(line)) /\ words \in SUBSET (1..Len(line))
          /\ words \in SUBSET Nat /\ Len(line) \in Nat
    OBVIOUS
  <2>2. Term!Trim(line) = SubSeq(line, Term!Min(words), Term!Max(words))
    BY <1>2 DEF Term!Trim
  <2> HIDE DEF words
  <2>3. Term!Min(words) \in words
    BY <1>2, <2>1, S!LeastNat, ShellIsInstantiated DEF Term!Min
  <2>4. Term!Max(words) \in words
    BY <1>2, <2>1, GreatestOf
  <2>5. Term!Min(words) \in 1..Len(line) /\ Term!Max(words) \in 1..Len(line)
    BY <2>1, <2>3, <2>4
  <2> QED
    BY <2>2, <2>5
<1> QED
  BY <1>1, <1>2

\* What the shell answers is a list of lines.
LEMMA OutputIsList ==
    ASSUME NEW command, NEW history \in Seq(Command)
    PROVE  \E T : Term!Output(command, history) \in Seq(T)
<1>1. CASE Term!IsCmd(command, "history")
  <2> DEFINE f == [k \in DOMAIN history |-> <<Term!ToString(k)>> \o history[k]]
             T == {f[k] : k \in DOMAIN history}
  <2>1. f \in Seq(T)
    <3>1. DOMAIN history = 1..Len(history) /\ Len(history) \in Nat
      OBVIOUS
    <3>2. \A k \in DOMAIN history : f[k] \in T
      OBVIOUS
    <3>3. f = [k \in 1..Len(history) |-> f[k]]
      BY <3>1
    <3> HIDE DEF f, T
    <3> QED
      BY <3>1, <3>2, <3>3
  <2> DEFINE out == f \o <<<<>>>>
  <2>2. Term!Output(command, history) = out
    BY <1>1 DEF Term!Output
  <2> HIDE DEF f, T
  <2>3. <<<<>>>> \in Seq({<<>>})
    OBVIOUS
  <2>4. f \in Seq(T \cup {<<>>}) /\ <<<<>>>> \in Seq(T \cup {<<>>})
    BY <2>1, <2>3, WiderList
  <2>5. out \in Seq(T \cup {<<>>})
    BY <2>4
  <2> QED
    BY <2>2, <2>5
<1>2. CASE ~Term!IsCmd(command, "history")
  <2> DEFINE a == <<"comando non trovato:">> \o command
             b == <<"Scrivi 'help'">>
  <2>1. Term!Output(command, history) = <<a, b, <<>>>>
    BY <1>2 DEF Term!Output
  <2> HIDE DEF a, b
  <2>2. <<a, b, <<>>>> \in Seq({a, b, <<>>})
    OBVIOUS
  <2> QED
    BY <2>1, <2>2
<1> QED
  BY <1>1, <1>2

\* Printing keeps the screen a list that fits and holds what is most recent.
Printed(list, new) == /\ \E T : list \in Seq(T) /\ new \in Seq(T)
                      /\ Len(new) <= ScreenCap
                      /\ Grown(list, new, ScreenCap)

LEMMA PrintKeeps ==
    ASSUME NEW A, NEW list \in Seq(A), Len(list) <= ScreenCap,
           NEW B, NEW entries \in Seq(B)
    PROVE  /\ Printed(list, Term!PushAll(list, entries))
           /\ Term!PushAll(list, entries) \in Seq(A \cup B)
<1>1. list \in Seq(A \cup B) /\ entries \in Seq(A \cup B)
  BY WiderList
<1> QED
  BY <1>1, PushAllGrows DEF Printed

\* A step that leaves the lists alone.
LEMMA LineKeeps ==
    ASSUME TerminalInv, UNCHANGED <<lines, hist, shHist>>,
           input' \in Seq(Words), Len(input') <= MaxInput, hpos' \in 0..Len(hist)
    PROVE  TermKeeps
BY DEF TermKeeps, TerminalInv, TypedInv, ExecutedInv, Moves

\* Enter: the echoed line and the answer, and an entry in either history.
LEMMA EnterKeeps ==
    ASSUME TerminalInv, Term!Enter
    PROVE  TermKeeps
<1> DEFINE echoed == Term!PushAll(lines, <<Term!Prompt>>)
           command == Term!Trim(input)
<1>1. input \in Seq(AnyWord)
  BY DEF TerminalInv, AnyWord
<1>2. ExecutedInv(shHist') /\ Moves(shHist, shHist', <<>>, HistCap)
  <2>1. shHist' = Term!ShPush(Term!Skip(input))
    BY DEF Term!Enter
  <2>2. /\ Term!Skip(input) \in Seq(AnyWord)
        /\ Term!Skip(input) # <<>> => Head(Term!Skip(input)) # Term!Space
    BY <1>1, SkipFindsWord
  <2> QED
    BY <2>1, <2>2, ShPushKeeps DEF TerminalInv
<1>3. TypedInv(hist') /\ Moves(hist, hist', <<>>, HistCap)
  BY EnteredKeeps DEF Term!Enter
<1>4. hpos' \in 0..Len(hist') /\ input' \in Seq(Words) /\ Len(input') <= MaxInput
  BY <1>3, TermConstants DEF Term!Enter, TypedInv
<1>5. PICK A : lines \in Seq(A) /\ Len(lines) <= ScreenCap
  BY DEF TerminalInv
<1>6. Printed(lines, echoed) /\ echoed \in Seq(A \cup {Term!Prompt})
  <2>1. <<Term!Prompt>> \in Seq({Term!Prompt})
    OBVIOUS
  <2> QED
    BY <1>5, <2>1, PrintKeeps
<1>7. (\E T : lines' \in Seq(T)) /\ Len(lines') <= ScreenCap
        /\ Moves(lines, lines', Term!Banner, ScreenCap)
  <2>1. lines' = IF command = <<>> THEN echoed
                 ELSE IF Term!IsCmd(command, "clear") THEN <<>>
                 ELSE Term!PushAll(echoed, Term!Output(command, shHist'))
    BY DEF Term!Enter
  <2> HIDE DEF echoed, command
  <2>2. CASE lines' = <<>>
    BY <2>2, TermConstants DEF Moves
  <2>3. CASE lines' = echoed
    BY <1>6, <2>3, GrownGrows DEF Printed, Moves
  <2>4. CASE lines' = Term!PushAll(echoed, Term!Output(command, shHist'))
    <3>1. PICK B : Term!Output(command, shHist') \in Seq(B)
      BY <1>2, OutputIsList DEF ExecutedInv
    <3> DEFINE C == A \cup {Term!Prompt}
               D == C \cup B
    <3>2. echoed \in Seq(C) /\ Len(echoed) <= ScreenCap /\ Grown(lines, echoed, ScreenCap)
      BY <1>6 DEF Printed
    <3>3. Printed(echoed, lines') /\ lines' \in Seq(D)
      <4> HIDE DEF C
      <4> QED
        BY <2>4, <3>1, <3>2, PrintKeeps
    <3>4. lines \in Seq(D) /\ echoed \in Seq(D)
      <4>1. lines \in Seq(C)
        BY <1>5, WiderList
      <4> HIDE DEF C
      <4> QED
        BY <3>2, <4>1, WiderList
    <3> HIDE DEF C, D
    <3>5. Grown(lines, lines', ScreenCap)
      BY <3>2, <3>3, <3>4, TermConstants, GrownOn DEF Printed
    <3>6. Grows(lines, lines', ScreenCap)
      BY <3>3, <3>4, <3>5, GrownGrows
    <3> QED
      BY <3>3, <3>6 DEF Printed, Moves
  <2> QED
    BY <2>1, <2>2, <2>3, <2>4
<1> QED
  BY <1>2, <1>3, <1>4, <1>7 DEF TermKeeps, TerminalInv

LEMMA TerminalKeeps ==
    ASSUME TerminalInv, Term!TermNext
    PROVE  TermKeeps
<1>1. /\ input \in Seq(Words) /\ Len(input) <= MaxInput /\ MaxInput \in Nat
      /\ hist \in Seq(TypedLine) /\ hpos \in 0..Len(hist)
  BY TermConstants DEF TerminalInv, TypedInv
<1>2. \A k \in 1..Len(hist) : hist[k] \in Seq(Words) /\ Len(hist[k]) <= MaxInput
  BY <1>1 DEF TypedLine
<1>3. CASE Term!Up
  <2>1. /\ hpos' = IF hpos > 0 THEN hpos - 1 ELSE hpos
        /\ input' = hist[hpos' + 1] /\ hist # <<>> /\ UNCHANGED <<lines, hist, shHist>>
    BY <1>3 DEF Term!Up
  <2>2. hpos' \in 0..(Len(hist) - 1)
    BY <1>1, <2>1
  <2>3. hpos' + 1 \in 1..Len(hist) /\ hpos' \in 0..Len(hist)
    <3>1. Len(hist) \in Nat
      BY <1>1
    <3>2. \A n \in Nat : \A h \in 0..(n - 1) : h + 1 \in 1..n /\ h \in 0..n
      OBVIOUS
    <3> QED
      BY <2>2, <3>1, <3>2, Zenon
  <2> QED
    BY <1>2, <2>1, <2>3, LineKeeps
<1>4. CASE Term!Down
  <2>1. CASE hpos < Len(hist) - 1
    <3>1. hpos' = hpos + 1 /\ input' = hist[hpos' + 1] /\ UNCHANGED <<lines, hist, shHist>>
      BY <1>4, <2>1 DEF Term!Down
    <3>2. hpos' \in 0..Len(hist) /\ hpos' + 1 \in 1..Len(hist)
      BY <1>1, <2>1, <3>1
    <3> QED
      BY <1>2, <3>1, <3>2, LineKeeps
  <2>2. CASE ~(hpos < Len(hist) - 1)
    <3>1. hpos' = Len(hist) /\ input' = <<>> /\ UNCHANGED <<lines, hist, shHist>>
      BY <1>4, <2>2 DEF Term!Down
    <3>2. hpos' \in 0..Len(hist) /\ input' \in Seq(Words) /\ Len(input') <= MaxInput
      BY <1>1, <3>1
    <3> QED
      BY <3>1, <3>2, LineKeeps
  <2> QED
    BY <2>1, <2>2
<1>5. CASE Term!Backspace
  <2>1. input' \in Seq(Words) /\ Len(input') <= MaxInput
    BY <1>1, <1>5 DEF Term!Backspace, Term!Front
  <2> QED
    BY <1>1, <1>5, <2>1, LineKeeps DEF Term!Backspace
<1>6. CASE Term!Enter
  BY <1>6, EnterKeeps
<1>7. CASE Term!Reopen
  BY <1>7, TermConstants DEF Term!Reopen, TermKeeps, TerminalInv, TypedInv, ExecutedInv, Moves
<1>8. ASSUME NEW w \in Words, Term!Type(w) PROVE TermKeeps
  <2>1. input' \in Seq(Words) /\ Len(input') <= MaxInput
    BY <1>1, <1>8 DEF Term!Type
  <2> QED
    BY <1>1, <1>8, <2>1, LineKeeps DEF Term!Type
<1> QED
  BY <1>3, <1>4, <1>5, <1>6, <1>7, <1>8 DEF Term!TermNext

\* A command in another terminal.
LEMMA OtherCommandKeeps ==
    ASSUME TerminalInv, Term!ShCommand(<<"other">>)
    PROVE  TermKeeps
<1>1. <<"other">> \in Seq(AnyWord)
  BY DEF AnyWord
<1>2. /\ Term!Skip(<<"other">>) \in Seq(AnyWord)
      /\ Term!Skip(<<"other">>) # <<>> => Head(Term!Skip(<<"other">>)) # Term!Space
  BY <1>1, SkipFindsWord
<1>3. ExecutedInv(shHist') /\ Moves(shHist, shHist', <<>>, HistCap)
  BY <1>2, ShPushKeeps DEF Term!ShCommand, TerminalInv
<1> QED
  BY <1>3 DEF Term!ShCommand, Term!termVars, TermKeeps, TerminalInv, TypedInv, Moves

LEMMA TerminalStarts == ASSUME Term!TermInit, Term!ShInit PROVE TerminalInv
BY TermConstants DEF Term!TermInit, Term!ShInit, TerminalInv, TypedInv, ExecutedInv

-----------------------------------------------------------------------------
(* Both of them, whatever window it is. *)

LEMMA HistoriesStart == ASSUME Init PROVE TerminalInv /\ BrowserInv
BY TerminalStarts, BrowserStarts DEF Init

LEMMA HistoriesKeep ==
    ASSUME TerminalInv, BrowserInv, [Next]_vars
    PROVE  TermKeeps /\ BrKeeps
<1>1. ASSUME UNCHANGED <<shHist, termVars>> PROVE TermKeeps
  BY <1>1 DEF termVars, TermKeeps, TerminalInv, TypedInv, ExecutedInv, Moves
<1>2. ASSUME UNCHANGED brVars PROVE BrKeeps
  BY <1>2 DEF brVars, BrKeeps, BrowserInv
<1>3. CASE Elsewhere
  BY <1>2, <1>3, OtherCommandKeeps DEF Elsewhere
<1>4. CASE WriteStep
  BY <1>1, <1>2, <1>4 DEF WriteStep
<1>5. CASE EdStep
  BY <1>1, <1>2, <1>5 DEF EdStep
<1>6. CASE FmStep
  BY <1>1, <1>2, <1>6 DEF FmStep
<1>7. CASE TermStep
  BY <1>2, <1>7, TerminalKeeps DEF TermStep
<1>8. CASE BrStep
  BY <1>1, <1>8, BrowserKeeps DEF BrStep
<1>9. CASE CaStep
  BY <1>1, <1>2, <1>9 DEF CaStep
<1>10. CASE CalStep
  BY <1>1, <1>2, <1>10 DEF CalStep
<1>11. CASE UNCHANGED vars
  BY <1>1, <1>2, <1>11 DEF vars
<1> QED
  BY <1>3, <1>4, <1>5, <1>6, <1>7, <1>8, <1>9, <1>10, <1>11 DEF Next

\* The window shows the newest lines: the last of them is the last of the screen.
LEMMA NewestShown ==
    ASSUME TerminalInv, NEW rows \in 1..3
    PROVE  Term!Shown(rows)
             = SubSeq(lines, Term!Max({Len(lines) - rows + 1, 0}) + 1, Len(lines))
<1> DEFINE start == Term!Max({Len(lines) - rows + 1, 0})
           end == Term!Min({start + rows - 1, Len(lines)})
<1>1. Len(lines) \in Nat
  BY DEF TerminalInv
<1>2. start = IF Len(lines) - rows + 1 >= 0 THEN Len(lines) - rows + 1 ELSE 0
  <2>1. Len(lines) - rows + 1 \in Int /\ 0 \in Int
    BY <1>1
  <2> HIDE DEF start, end
  <2>2. start = Term!Max({Len(lines) - rows + 1, 0})
    BY DEF start
  <2> QED
    BY <2>1, <2>2, LeastOfTwo
<1>3. Term!Shown(rows) = SubSeq(lines, start + 1, end)
  BY DEF Term!Shown
<1> HIDE DEF start
<1>4. end = IF start + rows - 1 <= Len(lines) THEN start + rows - 1 ELSE Len(lines)
  BY <1>1, <1>2, LeastOfTwo
<1>5. end = Len(lines)
  BY <1>1, <1>2, <1>4
<1> QED
  BY <1>3, <1>5 DEF start

LEMMA HistoriesAreRead == ASSUME TerminalInv PROVE Term!HistoriesRead
<1>1. ASSUME NEW e \in Term!ToSet(hist) PROVE e # <<>>
  <2>1. e \in TypedLine
    BY DEF Term!ToSet, TerminalInv, TypedInv
  <2> QED
    BY <2>1 DEF TypedLine
<1>2. ASSUME NEW e \in Term!ToSet(shHist) PROVE e # <<>> /\ Head(e) # Term!Space
  <2>1. e \in Command
    BY DEF Term!ToSet, TerminalInv, ExecutedInv
  <2> QED
    BY <2>1 DEF Command
<1> QED
  BY <1>1, <1>2, NewestShown DEF Term!HistoriesRead, TerminalInv, TypedInv, ExecutedInv

LEMMA PageIsShown == ASSUME BrowserInv PROVE Br!PageIsHere
<1>1. ASSUME NEW e \in Br!ToSet(pages) PROVE e # <<>>
  BY DEF Br!ToSet, BrowserInv
<1> QED
  BY <1>1 DEF Br!PageIsHere, BrowserInv

\* The steps of Recent.
LEMMA ScreenMoves ==
    ASSUME Moves(lines, lines', Term!Banner, ScreenCap)
    PROVE  [Term!Screen!Grow \/ Term!Screen!Clear \/ Term!Screen!Restart]_lines
BY DEF Moves, Grows, Term!Screen!Grow, Term!Screen!Clear, Term!Screen!Restart,
       Term!Screen!Kept

LEMMA TypedMoves ==
    ASSUME Moves(hist, hist', <<>>, HistCap)
    PROVE  [Term!TypedLines!Grow \/ Term!TypedLines!Clear \/ Term!TypedLines!Restart]_hist
BY DEF Moves, Grows, Term!TypedLines!Grow, Term!TypedLines!Clear, Term!TypedLines!Restart,
       Term!TypedLines!Kept

LEMMA ExecutedMoves ==
    ASSUME Moves(shHist, shHist', <<>>, HistCap)
    PROVE  [Term!Executed!Grow \/ Term!Executed!Clear \/ Term!Executed!Restart]_shHist
BY DEF Moves, Grows, Term!Executed!Grow, Term!Executed!Clear, Term!Executed!Restart,
       Term!Executed!Kept

LEMMA VisitedMoves ==
    ASSUME BrKeeps
    PROVE  [Br!Visited!Grow \/ Br!Visited!Clear \/ Br!Visited!Restart]_pages
BY DEF BrKeeps, Grows, Br!Visited!Grow, Br!Visited!Clear, Br!Visited!Restart,
       Br!Visited!Kept

\* The histories and the screen implement Recent, in every window, for lists of any
\* size and any lines, words and addresses.
THEOREM HistoriesAreRecent == Spec => Histories
<1>1. Init => TerminalInv /\ BrowserInv
  BY HistoriesStart
<1>2. TerminalInv /\ BrowserInv /\ [Next]_vars => (TerminalInv /\ BrowserInv)'
  BY HistoriesKeep DEF TermKeeps, BrKeeps
<1>3. TerminalInv /\ BrowserInv => Term!HistoriesRead /\ Br!PageIsHere
  BY HistoriesAreRead, PageIsShown
<1>4. Init => lines = Term!Banner /\ hist = <<>> /\ shHist = <<>> /\ pages = <<Br!HomePage>>
  BY DEF Init, Term!TermInit, Term!ShInit, Br!BrInit
<1>5. TerminalInv /\ BrowserInv /\ [Next]_vars =>
        /\ [Term!Screen!Grow \/ Term!Screen!Clear \/ Term!Screen!Restart]_lines
        /\ [Term!TypedLines!Grow \/ Term!TypedLines!Clear \/ Term!TypedLines!Restart]_hist
        /\ [Term!Executed!Grow \/ Term!Executed!Clear \/ Term!Executed!Restart]_shHist
        /\ [Br!Visited!Grow \/ Br!Visited!Clear \/ Br!Visited!Restart]_pages
  <2> SUFFICES ASSUME TerminalInv, BrowserInv, [Next]_vars
               PROVE  /\ [Term!Screen!Grow \/ Term!Screen!Clear \/ Term!Screen!Restart]_lines
                      /\ [Term!TypedLines!Grow \/ Term!TypedLines!Clear
                            \/ Term!TypedLines!Restart]_hist
                      /\ [Term!Executed!Grow \/ Term!Executed!Clear
                            \/ Term!Executed!Restart]_shHist
                      /\ [Br!Visited!Grow \/ Br!Visited!Clear \/ Br!Visited!Restart]_pages
    OBVIOUS
  <2>1. TermKeeps /\ BrKeeps
    BY HistoriesKeep
  <2> QED
    BY <2>1, ScreenMoves, TypedMoves, ExecutedMoves, VisitedMoves DEF TermKeeps
<1> QED
  BY <1>1, <1>2, <1>3, <1>4, <1>5, PTL
  DEF Spec, Histories, Term!TermHistories, Br!BrHistories, Term!Screen!Spec,
      Term!TypedLines!Spec, Term!Executed!Spec, Br!Visited!Spec

-----------------------------------------------------------------------------
(* The file system that all of them share. *)

\* The paths the windows use are paths.
LEMMA NamesOfPaths ==
    /\ "docs" \in Name /\ "nota.txt" \in Name /\ "benvenuto.txt" \in Name
    /\ \A k \in 1..MaxCounter : Fm!FolderName(k) \in Name /\ Fm!FileName(k) \in Name
BY DEF Name

LEMMA EditorPaths ==
    ASSUME NEW p \in {Ed!Nota, Ed!Benvenuto}
    PROVE  /\ p \in S!PathType /\ p.abs /\ p.parts # <<>>
           /\ S!Base(p) \notin {".", ".."}
<1>1. PICK name \in {"nota.txt", "benvenuto.txt"} :
        p = [abs |-> TRUE, parts |-> <<"docs", name>>, slash |-> FALSE]
  BY DEF Ed!Nota, Ed!Benvenuto, Ed!Path
<1>2. name \in Name /\ "docs" \in Name
  BY NamesOfPaths
<1> HIDE DEF Name
<1>3. <<"docs", name>> \in Seq(Name)
  BY <1>2
<1>4. p \in AnyPath
  BY <1>1, <1>3 DEF AnyPath
<1>5. p.abs /\ p.parts = <<"docs", name>>
  BY <1>1
<1>6. S!Base(p) = name
  BY <1>5 DEF S!Base, S!Last
<1>7. name \notin {".", ".."}
  OBVIOUS
<1> QED
  BY <1>4, <1>5, <1>6, <1>7, TypesAgree

LEMMA TypedPaths ==
    ASSUME NEW k \in Kinds, NEW p \in OtherPaths[k]
    PROVE  p \in S!PathType
<1>1. p \in [abs : BOOLEAN, parts : Seq(STRING), slash : BOOLEAN]
  BY AppsAssumption
<1>2. \A i \in 1..Len(p.parts) : p.parts[i] \in Name
  <2> SUFFICES ASSUME NEW i \in 1..Len(p.parts) PROVE p.parts[i] \in Name
    OBVIOUS
  <2>1. p.parts[i] \in ToSet(p.parts)
    BY <1>1 DEF ToSet
  <2> QED
    BY <2>1 DEF Name
<1> HIDE DEF Name
<1>3. p.parts \in Seq(Name)
  BY <1>1, <1>2
<1>4. p \in AnyPath
  BY <1>1, <1>3 DEF AnyPath
<1> QED
  BY <1>4, TypesAgree

\* What is typed or written is a text.
LEMMA TextsAreTexts ==
    /\ \A t \in Seq(Character) : Len(t) <= Limit => t \in S!TextType
    /\ \A t \in Samples : t \in S!TextType
    /\ Fm!NewText \in S!TextType /\ <<"b", NL>> \in S!TextType
<1>1. Limit \in Nat /\ NL \in Typed /\ Samples \subseteq Seq(STRING)
  BY AppsAssumption
<1>2. ASSUME NEW t \in Seq(Character), Len(t) <= Limit PROVE t \in AnyText
  BY <1>1, <1>2, TextsAreBounded DEF AnyText
<1>3. ASSUME NEW t \in Samples PROVE t \in AnyText
  <2>1. t \in Seq(STRING)
    BY <1>1
  <2>2. \A i \in 1..Len(t) : t[i] \in Character
    <3> SUFFICES ASSUME NEW i \in 1..Len(t) PROVE t[i] \in Character
      OBVIOUS
    <3>1. t[i] \in ToSet(t)
      BY <2>1 DEF ToSet
    <3> QED
      BY <3>1 DEF Character
  <2>3. t \in Seq(Character)
    BY <2>1, <2>2
  <2> QED
    BY <2>3, TextsAreBounded DEF AnyText
<1>4. Fm!NewText \in AnyText
  <2>1. "x" \in Character
    BY DEF Character
  <2>2. <<"x">> \in Seq(Character) /\ Len(<<"x">>) = 1
    BY <2>1
  <2>3. 1 <= LongEnough
    BY TextsAreBounded
  <2>4. <<"x">> \in AnyText
    BY <2>2, <2>3 DEF AnyText
  <2> QED
    BY <2>4 DEF Fm!NewText
<1>5. <<"b", NL>> \in AnyText
  <2>1. "b" \in Character /\ NL \in Character
    BY DEF Character
  <2>2. <<"b", NL>> \in Seq(Character) /\ Len(<<"b", NL>>) = 2
    BY <2>1
  <2> QED
    BY <2>2, TextsAreBounded DEF AnyText
<1> QED
  BY <1>2, <1>3, <1>4, <1>5, TypesAgree

\* touch and write, as the editor's save and the file manager's new file do.
LEMMA SavedKeeps ==
    ASSUME NEW s, S!Good(s), NEW p \in S!PathType, NEW text \in S!TextType,
           NEW room \in BOOLEAN
    PROVE  LET t == S!Touch(s, p).s
           IN  S!Good(t) /\ S!Good(S!WriteFile(t, p, text, room).s)
<1> DEFINE t == S!Touch(s, p).s
<1>1. S!Good(t)
  BY ShellIsInstantiated, S!TouchGood
<1> HIDE DEF t
<1>2. S!Good(S!WriteFile(t, p, text, room).s)
  BY <1>1, ShellIsInstantiated, S!WriteGood
<1> QED
  BY <1>1, <1>2 DEF t

\* Whatever another window does keeps the tree.
LEMMA ElsewhereKeeps ==
    ASSUME S!Good(fs), kind \in Kinds, Elsewhere
    PROVE  S!Good(fs')
<1>1. PICK p \in OtherPaths[kind], q \in OtherPaths[kind], text \in OtherTexts,
           room \in BOOLEAN :
        fs' \in {Mkdir(fs, p).s, Touch(fs, p).s, Rm(fs, p).s, CdTo(fs, p),
                 WriteFile(fs, p, text, room).s,
                 WriteFile(Touch(fs, p).s, p, text, room).s,
                 CopyFile(fs, p, q, room).s, Move(fs, p, q, room)}
  BY DEF Elsewhere
<1>2. p \in S!PathType /\ q \in S!PathType /\ text \in S!TextType
  BY TypedPaths, TextsAreTexts, AppsAssumption
<1>3. Touch(fs, p) = S!Touch(fs, p)
  BY MakingIsOne
<1>4. CASE fs' = Mkdir(fs, p).s \/ fs' = Touch(fs, p).s
  <2>1. S!Good(S!Mkdir(fs, p).s)
    BY <1>2, ShellIsInstantiated, S!MkdirGood
  <2>2. S!Good(S!Touch(fs, p).s)
    BY <1>2, ShellIsInstantiated, S!TouchGood
  <2>3. Mkdir(fs, p) = S!Mkdir(fs, p)
    BY MakingIsOne
  <2> QED
    BY <1>3, <1>4, <2>1, <2>2, <2>3
<1>5. CASE fs' = Rm(fs, p).s
  BY <1>2, <1>5, RemovingIsOne, ShellIsInstantiated, S!RmGood
<1>6. CASE fs' = CdTo(fs, p)
  BY <1>2, <1>6, GoingIsOne, ShellIsInstantiated, S!CdToGood DEF S!Keeps
<1>7. CASE fs' = WriteFile(fs, p, text, room).s
  BY <1>2, <1>7, WritingIsOne, ShellIsInstantiated, S!WriteGood
<1>8. CASE fs' = WriteFile(Touch(fs, p).s, p, text, room).s
  BY <1>2, <1>3, <1>8, WritingIsOne, SavedKeeps
<1>9. CASE fs' = CopyFile(fs, p, q, room).s
  BY <1>2, <1>9, CopyingIsOne, ShellIsInstantiated, S!CopyGood
<1>10. CASE fs' = Move(fs, p, q, room)
  BY <1>2, <1>10, CopyingIsOne, ShellIsInstantiated, S!MoveGood DEF S!Keeps
<1> QED
  BY <1>1, <1>4, <1>5, <1>6, <1>7, <1>8, <1>9, <1>10

\* fs_init leaves a tree.
LEMMA SeedGood == S!Good(Seed)
<1> DEFINE dir == Path(TRUE, <<"docs">>, FALSE)
           docs == S!Mkdir(S!Empty, dir).s
           text == <<"b", NL>>
<1>1. Seed = S!WriteFile(S!Touch(docs, Ed!Benvenuto).s, Ed!Benvenuto, text, TRUE).s
  <2>1. Mkdir(Empty, dir).s = docs
    BY EmptyIsOne, MakingIsOne
  <2> HIDE DEF docs
  <2>2. Touch(docs, Ed!Benvenuto) = S!Touch(docs, Ed!Benvenuto)
    BY MakingIsOne
  <2>3. \A room \in BOOLEAN : \A s :
          WriteFile(s, Ed!Benvenuto, text, room) = S!WriteFile(s, Ed!Benvenuto, text, room)
    BY WritingIsOne
  <2> QED
    BY <2>1, <2>2, <2>3 DEF Seed
<1>2. dir \in S!PathType
  <2>1. <<"docs">> \in Seq(Name)
    BY NamesOfPaths
  <2> QED
    BY <2>1, TypesAgree DEF AnyPath, Path
<1>3. S!Good(S!Empty)
  BY ShellIsInstantiated, S!EmptyGood
<1> HIDE DEF dir
<1>4. S!Good(docs)
  BY <1>2, <1>3, ShellIsInstantiated, S!MkdirGood
<1> HIDE DEF docs
<1>5. Ed!Benvenuto \in S!PathType
  BY EditorPaths
<1>6. text \in S!TextType
  BY TextsAreTexts
<1> HIDE DEF text
<1> QED
  BY <1>1, <1>4, <1>5, <1>6, SavedKeeps

-----------------------------------------------------------------------------
(* The editor: its buffer is an array that holds a terminated text. *)

Buffer == [0..(BufSize - 1) -> Character \cup {Ed!NUL}]

\* l bytes of text and their terminator.
Terminated(b, l) == /\ l \in 0..Limit
                    /\ \A i \in 0..(l - 1) : b[i] \in Character
                    /\ b[l] = Ed!NUL

\* What is in the window, whatever the files hold.
EditorInv == /\ buf \in Buffer /\ Terminated(buf, len)
             /\ cursor \in 0..len
             /\ path \in {Ed!Nota, Ed!Benvenuto}

\* No text holds the terminator.
LEMMA NoTerminator == Ed!NUL \notin Character
<1>1. Ed!NUL \notin Typed
  BY AppsAssumption
<1>2. ASSUME NEW t \in Samples PROVE Ed!NUL \notin ToSet(t)
  BY AppsAssumption DEF ToSet
<1>3. Ed!NUL \notin {"b", "x", NL}
  BY DEF Ed!NUL, NL
<1> QED
  BY <1>1, <1>2, <1>3 DEF Character

LEMMA EditorTypes == EditorInv => Ed!EdTypeOK
BY NoTerminator DEF EditorInv, Terminated, Ed!EdTypeOK

LEMMA EditorSizes == Limit \in Nat /\ BufSize \in Nat /\ Limit < BufSize
BY AppsAssumption

\* What Save writes.
LEMMA BufferIsText ==
    ASSUME EditorInv
    PROVE  Ed!EdText \in Seq(Character) /\ Len(Ed!EdText) <= Limit
<1>1. Limit \in Nat /\ len \in 0..Limit
  BY EditorSizes DEF EditorInv, Terminated
<1>2. \A i \in 1..len : buf[i - 1] \in Character
  <2> SUFFICES ASSUME NEW i \in 1..len PROVE buf[i - 1] \in Character
    OBVIOUS
  <2>1. i - 1 \in 0..(len - 1)
    BY <1>1
  <2> QED
    BY <2>1 DEF EditorInv, Terminated
<1> QED
  BY <1>1, <1>2 DEF Ed!EdText

\* Loading a text fills the buffer up to the limit and ends it.
LEMMA LoadKeeps ==
    ASSUME NEW b \in Buffer, NEW text \in Seq(Character), Ed!Load(b, text)
    PROVE  buf' \in Buffer /\ Terminated(buf', len') /\ cursor' \in 0..len'
<1> DEFINE l == Ed!Min({Len(text), Limit})
           new == [i \in DOMAIN b |-> IF i < l THEN text[i + 1]
                                      ELSE IF i = l THEN Ed!NUL ELSE b[i]]
<1>1. Limit \in Nat /\ BufSize \in Nat /\ Limit < BufSize /\ Len(text) \in Nat
  BY EditorSizes
<1>2. l \in 0..Limit /\ l <= Len(text)
  <2>1. Limit \in Int /\ Len(text) \in Int
    BY <1>1
  <2>2. l = IF Len(text) <= Limit THEN Len(text) ELSE Limit
    BY <2>1, LeastOfTwo
  <2> QED
    BY <1>1, <2>2
<1>3. buf' = new /\ len' = l /\ cursor' = l
  BY DEF Ed!Load
<1> HIDE DEF l
<1>4. DOMAIN b = 0..(BufSize - 1)
  BY DEF Buffer
<1>5. \A i \in 0..(l - 1) : text[i + 1] \in Character
  BY <1>2
<1>6. ASSUME NEW i \in 0..(BufSize - 1) PROVE new[i] \in Character \cup {Ed!NUL}
  BY <1>2, <1>4, <1>5 DEF Buffer
<1>7. new \in Buffer
  BY <1>4, <1>6 DEF Buffer
<1>8. \A i \in 0..(l - 1) : new[i] \in Character
  BY <1>1, <1>2, <1>4, <1>5
<1>9. new[l] = Ed!NUL
  BY <1>1, <1>2, <1>4
<1> HIDE DEF new
<1> QED
  BY <1>2, <1>3, <1>7, <1>8, <1>9 DEF Terminated

\* The file an editor opens holds characters.
LEMMA FoundText ==
    ASSUME S!Good(fs), NEW p \in {Ed!Nota, Ed!Benvenuto},
           Ed!HasText(fs, Ed!Resolve(fs, p))
    PROVE  Ed!TextOf(fs, Ed!Resolve(fs, p)) \in Seq(Character)
<1> DEFINE n == S!Resolve(fs, p)
<1>1. n = Ed!Resolve(fs, p) /\ n # S!NULL
  BY LookupIsOne, NumbersAreOne DEF Ed!HasText
<1>2. Len(p.parts) \in Nat
  BY EditorPaths, ShellIsInstantiated, S!SplitParent
<1>3. n \in S!Nodes(fs)
  BY <1>1, <1>2, ShellIsInstantiated, S!ResolveLive
<1> HIDE DEF n
<1>4. S!TextOf(fs, n) \in AnyText
  BY <1>3, ShellIsInstantiated, S!TextOfType, TypesAgree
<1> QED
  BY <1>1, <1>4, NodesAreOne DEF AnyText

\* Reading a file into the buffer, or leaving the buffer as it is.
LEMMA OpenKeeps ==
    ASSUME EditorInv, S!Good(fs), NEW p \in {Ed!Nota, Ed!Benvenuto}, NEW b \in Buffer,
           Ed!HasText(fs, Ed!Resolve(fs, p)),
           Ed!Load(b, Ed!TextOf(fs, Ed!Resolve(fs, p)))
    PROVE  buf' \in Buffer /\ Terminated(buf', len') /\ cursor' \in 0..len'
BY FoundText, LoadKeeps

LEMMA ZerosKeep == Ed!Zeros \in Buffer /\ Terminated(Ed!Zeros, 0)
BY EditorSizes DEF Ed!Zeros, Buffer, Terminated

\* KEY_HOME and KEY_END stop within the text.
LEMMA LineEnds ==
    ASSUME EditorInv
    PROVE  Ed!HomePos \in 0..len /\ Ed!EndPos \in 0..len
<1>1. Limit \in Nat /\ len \in 0..Limit /\ cursor \in 0..len
  BY EditorSizes DEF EditorInv, Terminated
<1>2. Ed!HomePos \in 0..len
  <2> DEFINE A == {0} \cup {i \in 1..cursor : buf[i - 1] = Ed!NL}
  <2>1. A \in SUBSET (0..len) /\ A # {}
    BY <1>1
  <2>2. len \in Nat
    BY <1>1
  <2>3. Ed!HomePos = Ed!Max(A)
    BY DEF Ed!HomePos
  <2> HIDE DEF A
  <2>4. Ed!Max(A) \in A
    BY <2>1, <2>2, GreatestOf
  <2> QED
    BY <2>1, <2>3, <2>4
<1>3. Ed!EndPos \in 0..len
  <2> DEFINE A == {len} \cup {i \in cursor..(len - 1) : buf[i] = Ed!NL}
  <2>1. A \in SUBSET (0..len) /\ A \in SUBSET Nat /\ A # {}
    BY <1>1
  <2>2. Ed!EndPos = Ed!Min(A)
    BY DEF Ed!EndPos
  <2> HIDE DEF A
  <2>3. Ed!Min(A) \in A
    BY <2>1, S!LeastNat, ShellIsInstantiated DEF Ed!Min
  <2> QED
    BY <2>1, <2>2, <2>3
<1> QED
  BY <1>2, <1>3

\* memmove closes and opens the text, with its terminator, at the cursor.
LEMMA BackspaceKeeps ==
    ASSUME EditorInv, Ed!Backspace
    PROVE  buf' \in Buffer /\ Terminated(buf', len') /\ cursor' \in 0..len'
<1>1. /\ Limit \in Nat /\ BufSize \in Nat /\ Limit < BufSize
      /\ len \in 0..Limit /\ cursor \in 1..len
      /\ len' = len - 1 /\ cursor' = cursor - 1
  BY EditorSizes DEF EditorInv, Terminated, Ed!Backspace
<1>2. DOMAIN buf = 0..(BufSize - 1)
  BY DEF EditorInv, Buffer
<1>3. buf' = [i \in 0..(BufSize - 1) |->
                IF i \in (cursor - 1)..len - 1 THEN buf[i + 1] ELSE buf[i]]
  <2>1. buf' = [i \in 0..(BufSize - 1) |->
                  IF i \in (cursor - 1)..(cursor - 1 + (len - cursor + 1) - 1)
                  THEN buf[i - (cursor - 1) + cursor] ELSE buf[i]]
    BY <1>2 DEF Ed!Backspace, Ed!Memmove
  <2>2. cursor - 1 + (len - cursor + 1) - 1 = len - 1
    BY <1>1
  <2>3. \A i \in 0..(BufSize - 1) : i - (cursor - 1) + cursor = i + 1
    BY <1>1
  <2> QED
    BY <2>1, <2>2, <2>3
<1>4. \A i \in 0..(BufSize - 1) : buf[i] \in Character \cup {Ed!NUL}
  BY DEF EditorInv, Buffer
<1>5. buf' \in Buffer
  <2>1. \A i \in 0..(BufSize - 1) : i \in (cursor - 1)..(len - 1) => i + 1 \in 0..(BufSize - 1)
    BY <1>1
  <2>2. \A i \in 0..(BufSize - 1) :
          (IF i \in (cursor - 1)..len - 1 THEN buf[i + 1] ELSE buf[i]) \in Character \cup {Ed!NUL}
    BY <1>4, <2>1
  <2> QED
    BY <1>3, <2>2 DEF Buffer
<1>6. \A i \in 0..(len - 1) : buf[i] \in Character
  BY DEF EditorInv, Terminated
<1>7. ASSUME NEW i \in 0..(len - 1 - 1) PROVE buf'[i] \in Character
  <2>1. i \in 0..(BufSize - 1) /\ i \in 0..(len - 1) /\ i + 1 \in 0..(len - 1)
    BY <1>1
  <2> QED
    BY <1>3, <1>6, <2>1
<1>8. buf'[len - 1] = Ed!NUL
  <2>1. len - 1 \in 0..(BufSize - 1) /\ len - 1 \in (cursor - 1)..(len - 1) /\ (len - 1) + 1 = len
    BY <1>1
  <2>2. buf[len] = Ed!NUL
    BY DEF EditorInv, Terminated
  <2> QED
    BY <1>3, <2>1, <2>2
<1>9. Terminated(buf', len - 1)
  BY <1>1, <1>7, <1>8 DEF Terminated
<1> QED
  BY <1>1, <1>5, <1>9

LEMMA TypeKeeps ==
    ASSUME EditorInv, NEW ch \in Typed, Ed!Type(ch)
    PROVE  buf' \in Buffer /\ Terminated(buf', len') /\ cursor' \in 0..len'
<1> DEFINE new(i) == IF i = cursor THEN ch
                     ELSE IF i \in (cursor + 1)..(len + 1) THEN buf[i - 1] ELSE buf[i]
<1>1. /\ Limit \in Nat /\ BufSize \in Nat /\ Limit < BufSize
      /\ len \in 0..Limit /\ len < Limit /\ cursor \in 0..len
      /\ len' = len + 1 /\ cursor' = cursor + 1
  BY EditorSizes DEF EditorInv, Terminated, Ed!Type
<1>2. DOMAIN buf = 0..(BufSize - 1)
  BY DEF EditorInv, Buffer
<1>3. buf' = [i \in 0..(BufSize - 1) |-> new(i)]
  <2>1. buf' = [i \in 0..(BufSize - 1) |->
                  IF i = cursor THEN ch
                  ELSE IF i \in (cursor + 1)..(cursor + 1 + (len - cursor + 1) - 1)
                       THEN buf[i - (cursor + 1) + cursor] ELSE buf[i]]
    BY <1>2 DEF Ed!Type, Ed!Memmove
  <2>2. cursor + 1 + (len - cursor + 1) - 1 = len + 1
    BY <1>1
  <2>3. \A i \in 0..(BufSize - 1) : i - (cursor + 1) + cursor = i - 1
    BY <1>1
  <2> QED
    BY <2>1, <2>2, <2>3
<1>4. \A i \in 0..(BufSize - 1) : buf[i] \in Character \cup {Ed!NUL}
  BY DEF EditorInv, Buffer
<1>5. ch \in Character
  BY DEF Character
<1>6. \A i \in 0..(BufSize - 1) : new(i) \in Character \cup {Ed!NUL}
  <2>1. \A i \in 0..(BufSize - 1) : i \in (cursor + 1)..(len + 1) => i - 1 \in 0..(BufSize - 1)
    BY <1>1
  <2> QED
    BY <1>4, <1>5, <2>1
<1>7. \A i \in 0..(len - 1) : buf[i] \in Character
  BY DEF EditorInv, Terminated
<1>8. ASSUME NEW i \in 0..len PROVE new(i) \in Character
  <2>1. CASE i < cursor
    BY <1>1, <1>7, <2>1
  <2>2. CASE i = cursor
    BY <1>5, <2>2
  <2>3. CASE i > cursor
    <3>1. i \in (cursor + 1)..(len + 1) /\ i # cursor /\ i - 1 \in 0..(len - 1)
      BY <1>1, <2>3
    <3> QED
      BY <1>7, <3>1
  <2> QED
    BY <1>1, <2>1, <2>2, <2>3
<1>9. new(len + 1) = Ed!NUL
  <2>1. len + 1 \in (cursor + 1)..(len + 1) /\ len + 1 # cursor /\ (len + 1) - 1 = len
    BY <1>1
  <2>2. buf[len] = Ed!NUL
    BY DEF EditorInv, Terminated
  <2>3. new(len + 1) = buf[(len + 1) - 1]
    BY <2>1, Zenon
  <2> QED
    BY <2>1, <2>2, <2>3
<1> HIDE DEF new
<1>10. buf' \in Buffer
  BY <1>3, <1>6 DEF Buffer
<1>11. Terminated(buf', len + 1)
  <2>1. \A i \in 0..(len + 1 - 1) : buf'[i] \in Character
    BY <1>1, <1>3, <1>8
  <2>2. buf'[len + 1] = Ed!NUL
    BY <1>1, <1>3, <1>9
  <2> QED
    BY <1>1, <2>1, <2>2 DEF Terminated
<1>12. cursor + 1 \in 0..(len + 1)
  BY <1>1
<1> QED
  BY <1>1, <1>10, <1>11, <1>12

\* Every event of the editor.
LEMMA EditorKeeps ==
    ASSUME EditorInv, S!Good(fs), Ed!EdNext
    PROVE  /\ EditorInv' /\ S!Good(fs')
           /\ fs' # fs => Ed!Save
           /\ status' # "Salvato." \/ status' = status \/ Ed!Save
<1> DEFINE Goal == /\ EditorInv' /\ S!Good(fs')
                   /\ fs' # fs => Ed!Save
                   /\ status' # "Salvato." \/ status' = status \/ Ed!Save
<1>1. len \in 0..Limit /\ cursor \in 0..len /\ Limit \in Nat
  BY EditorSizes DEF EditorInv, Terminated
<1>2. ASSUME buf' \in Buffer, Terminated(buf', len'), cursor' \in 0..len',
             path' \in {Ed!Nota, Ed!Benvenuto}, fs' = fs,
             status' = "" \/ status' = status
      PROVE  Goal
  BY <1>2 DEF EditorInv
<1>3. ASSUME UNCHANGED <<buf, len>>, cursor' \in 0..len, Ed!Keep
      PROVE  Goal
  BY <1>2, <1>3 DEF EditorInv, Ed!Keep
<1>4. ASSUME Ed!Left \/ Ed!Right PROVE Goal
  BY <1>1, <1>3, <1>4 DEF Ed!Left, Ed!Right
<1>5. ASSUME Ed!Home \/ Ed!End PROVE Goal
  BY <1>3, <1>5, LineEnds DEF Ed!Home, Ed!End
<1>6. ASSUME Ed!Backspace PROVE Goal
  BY <1>2, <1>6, BackspaceKeeps DEF Ed!Backspace, Ed!Keep, EditorInv
<1>7. ASSUME NEW ch \in Typed, Ed!Type(ch) PROVE Goal
  BY <1>2, <1>7, TypeKeeps DEF Ed!Type, Ed!Keep, EditorInv
<1>8. ASSUME Ed!Save PROVE Goal
  <2>1. PICK room \in BOOLEAN :
          fs' = Ed!WriteFile(Ed!Touch(fs, path).s, path, Ed!EdText, room).s
    BY <1>8 DEF Ed!Save
  <2>2. path \in S!PathType
    BY EditorPaths DEF EditorInv
  <2>3. Ed!EdText \in S!TextType
    BY BufferIsText, TextsAreTexts
  <2>4. fs' = S!WriteFile(S!Touch(fs, path).s, path, Ed!EdText, room).s
    BY <2>1, MakingIsOne, WritingIsOne
  <2>5. S!Good(fs')
    BY <2>2, <2>3, <2>4, SavedKeeps
  <2>6. EditorInv'
    BY <1>8 DEF Ed!Save, EditorInv
  <2> QED
    BY <1>8, <2>5, <2>6
<1>9. buf \in Buffer /\ Terminated(buf, len) /\ path \in {Ed!Nota, Ed!Benvenuto}
  BY DEF EditorInv
<1>10. ASSUME Ed!Open PROVE Goal
  BY <1>2, <1>9, <1>10, OpenKeeps DEF Ed!Open, Ed!Say, EditorInv
<1>11. ASSUME Ed!Docs PROVE Goal
  BY <1>2, <1>9, <1>11, OpenKeeps DEF Ed!Docs, Ed!Say, EditorInv
<1>12. ASSUME Ed!Reopen PROVE Goal
  <2>1. 0 \in 0..0
    OBVIOUS
  <2> QED
    BY <1>2, <1>12, <2>1, OpenKeeps, ZerosKeep DEF Ed!Reopen, Ed!Say
<1>13. ASSUME Ed!Clear PROVE Goal
  <2>1. len' = 0 /\ cursor' = 0 /\ buf' = [buf EXCEPT ![0] = Ed!NUL]
    BY <1>13, Zenon DEF Ed!Clear
  <2>2. buf' \in Buffer /\ Terminated(buf', 0) /\ 0 \in 0..0
    BY <1>9, <2>1, EditorSizes DEF Buffer, Terminated
  <2> QED
    BY <1>2, <1>9, <1>13, <2>1, <2>2 DEF Ed!Clear, Ed!Say
<1> HIDE DEF Goal
<1>14. Goal
  BY <1>4, <1>5, <1>6, <1>7, <1>8, <1>10, <1>11, <1>12, <1>13 DEF Ed!EdNext
<1> QED
  BY <1>14 DEF Goal

LEMMA EditorStarts == ASSUME Ed!EdInit PROVE EditorInv
<1>1. 0 \in 0..0
  OBVIOUS
<1> QED
  BY <1>1, ZerosKeep DEF Ed!EdInit, EditorInv

-----------------------------------------------------------------------------
(* The file manager. *)

FilesInv == shown \in Seq(Name) /\ sel \in 0..MaxSel /\ counter \in 0..MaxCounter

\* The path of a name in the folder shown: split_parent gives the folder back.
LEMMA InFolder ==
    ASSUME shown \in Seq(Name), NEW name \in Name
    PROVE  LET p == Fm!In(name)
           IN  /\ p \in S!PathType /\ p.abs /\ p.parts # <<>> /\ S!Base(p) = name
               /\ S!Resolve(fs, S!DirPart(p)) = Fm!Folder
<1> DEFINE p == Fm!In(name)
           all == Append(shown, name)
<1> HIDE DEF Name
<1>1. all \in Seq(Name) /\ Len(all) = Len(shown) + 1 /\ Len(shown) \in Nat
      /\ all[Len(all)] = name /\ all # <<>>
  OBVIOUS
<1>2. p = [abs |-> TRUE, parts |-> all, slash |-> FALSE]
  BY DEF Fm!In, Fm!Path
<1>3. p \in AnyPath
  BY <1>1, <1>2 DEF AnyPath
<1>4. S!Base(p) = name
  <2>1. p.parts = all
    BY <1>2
  <2> HIDE DEF p, all
  <2> QED
    BY <1>1, <2>1, Zenon DEF S!Base, S!Last
<1>5. S!DirPart(p) = Fm!Path(TRUE, shown, FALSE)
  <2>1. CASE shown = <<>>
    <3>1. Len(p.parts) = 1
      BY <1>1, <1>2, <2>1
    <3> QED
      BY <2>1, <3>1 DEF S!DirPart, S!Path, Fm!Path
  <2>2. CASE shown # <<>>
    <3>1. Len(p.parts) > 1 /\ p.abs = TRUE /\ p.parts = all
      BY <1>1, <1>2, <2>2
    <3>2. SubSeq(all, 1, Len(all) - 1) = shown
      OBVIOUS
    <3>3. S!Front(all) = shown
      BY <3>2 DEF S!Front
    <3>4. ~(Len(p.parts) <= 1)
      BY <1>1, <3>1
    <3> QED
      BY <3>1, <3>3, <3>4 DEF S!DirPart, S!Path, Fm!Path
  <2> QED
    BY <2>1, <2>2
<1>6. S!Resolve(fs, S!DirPart(p)) = Fm!Folder
  BY <1>5, LookupIsOne DEF Fm!Folder
<1>7. p.abs /\ p.parts # <<>>
  BY <1>1, <1>2
<1> QED
  BY <1>3, <1>4, <1>6, <1>7, TypesAgree

\* The folder shown is live or gone, and a selected row is a child of it.
LEMMA FolderLives ==
    ASSUME S!Good(fs), shown \in Seq(Name), Fm!Folder # Fm!NULL
    PROVE  Fm!Folder \in S!Nodes(fs) /\ Fm!Kids = fs.node[Fm!Folder].kids
           /\ Fm!Kids \in Seq(S!Addr)
<1> HIDE DEF Name
<1> DEFINE p == Fm!Path(TRUE, shown, FALSE)
<1>1. Fm!Folder = S!Resolve(fs, p)
  BY LookupIsOne DEF Fm!Folder
<1>2. Len(p.parts) \in Nat
  BY DEF Fm!Path
<1> HIDE DEF p
<1>3. Fm!Folder \in S!Nodes(fs)
  BY <1>1, <1>2, NumbersAreOne, ShellIsInstantiated, S!ResolveLive
<1>4. Fm!Kids = fs.node[Fm!Folder].kids
  BY DEF Fm!Kids
<1>5. fs.node[Fm!Folder].kids \in Seq(S!Addr)
  BY <1>3 DEF S!Good, S!TypeOf, S!NodeType
<1> QED
  BY <1>3, <1>4, <1>5

LEMMA SelectedLives ==
    ASSUME S!Good(fs), shown \in Seq(Name), Fm!Selected # Fm!NULL
    PROVE  /\ Fm!Folder # Fm!NULL /\ fs.node[Fm!Folder].kids # <<>>
           /\ Fm!Selected \in S!Nodes(fs) /\ fs.node[Fm!Selected].name \in Name
<1> HIDE DEF Name
<1>1. sel + 1 \in DOMAIN Fm!Kids /\ Fm!Selected = Fm!Kids[sel + 1]
  BY DEF Fm!Selected
<1>2. Fm!Folder # Fm!NULL
  BY <1>1 DEF Fm!Kids
<1>3. Fm!Folder \in S!Nodes(fs) /\ Fm!Kids = fs.node[Fm!Folder].kids
  BY <1>2, FolderLives
<1>4. Fm!Selected \in S!Nodes(fs)
  BY <1>1, <1>3 DEF S!Good, S!Linked
<1>5. fs.node[Fm!Selected].name \in Name
  BY <1>4, NamesAgree DEF S!Good, S!TypeOf, S!NodeType
<1>6. fs.node[Fm!Folder].kids # <<>>
  BY <1>1, <1>3
<1> QED
  BY <1>2, <1>4, <1>5, <1>6

\* What an event of the file manager may do to the tree.
FilesLocal ==
    fs' # fs =>
      /\ Fm!Folder # NULL
      /\ \E name \in Names \cup Names' : OnlyAt(Fm!Folder, name)
      /\ \A n \in Live \ Live' : /\ fs.node[n].parent = Fm!Folder
                                 /\ fs.node[n].name = fs.node[Fm!Selected].name

\* A call that adds a name to a directory touches nothing else and removes nothing.
LEMMA AddsOnlyAt ==
    ASSUME NEW d, NEW name, S!Adds(fs, fs', d, name)
    PROVE  OnlyAt(d, name) /\ name \in Names' /\ Live \ Live' = {}
<1>1. \A n : \A s : S!There(s, n, d, name) <=>
               n # Root /\ s.node[n].name = name /\ s.node[n].parent = d
  BY NumbersAreOne DEF S!There
<1>2. Live = S!Nodes(fs) /\ Live' = S!Nodes(fs') /\ DOMAIN fs'.node = S!Nodes(fs')
  BY DEF Live, S!Nodes
<1>3. Live \subseteq Live' /\ fs'.cwd = fs.cwd
  BY <1>2 DEF S!Adds
<1>4. \A n \in Live : S!There(fs, n, d, name) \/ S!Apart(fs', n, d) = S!Apart(fs, n, d)
  BY <1>2 DEF S!Adds
<1>5. \A n \in Live' \ Live : S!There(fs', n, d, name)
  BY <1>2 DEF S!Adds
<1>6. OnlyAt(d, name)
  BY <1>1, <1>2, <1>3, <1>4, <1>5 DEF OnlyAt, S!Apart
<1>7. PICK n \in S!Nodes(fs') : S!There(fs', n, d, name)
  BY DEF S!Adds
<1>8. name \in Names'
  BY <1>2, <1>7 DEF Names, S!There
<1> QED
  BY <1>3, <1>6, <1>8

\* New folder.
LEMMA NewFolderKeeps ==
    ASSUME FilesInv, S!Good(fs), Fm!NewFolder
    PROVE  FilesInv' /\ S!Good(fs') /\ FilesLocal
<1> DEFINE name == Fm!FolderName(counter')
           p == Fm!In(name)
<1>1. counter' \in 1..MaxCounter /\ fs' = S!Mkdir(fs, p).s /\ UNCHANGED <<shown, sel>>
  BY AppsAssumption, MakingIsOne DEF Fm!NewFolder, FilesInv
<1>2. name \in Name
  BY <1>1, NamesOfPaths
<1> HIDE DEF name, Name
<1>3. /\ p \in S!PathType /\ p.abs /\ S!Base(p) = name
      /\ S!Resolve(fs, S!DirPart(p)) = Fm!Folder
  BY <1>2, InFolder DEF FilesInv
<1> HIDE DEF p
<1>4. S!Good(fs')
  BY <1>1, <1>3, ShellIsInstantiated, S!MkdirGood
<1>5. S!HasSlash(p)
  BY <1>3 DEF S!HasSlash
<1>6. ASSUME fs' # fs
      PROVE  Fm!Folder \in S!Nodes(fs) /\ S!Adds(fs, fs', Fm!Folder, name)
  BY <1>1, <1>3, <1>5, <1>6, ShellIsInstantiated, S!MkdirAdds
<1>7. Fm!Folder \in S!Nodes(fs) => Fm!Folder # NULL
  BY NumbersAreOne DEF S!Good, S!TypeOf, S!Addr, S!NULL
<1>8. FilesLocal
  BY <1>6, <1>7, AddsOnlyAt DEF FilesLocal
<1>9. FilesInv'
  <2>1. counter' \in 0..MaxCounter
    BY <1>1, AppsAssumption
  <2> QED
    BY <1>1, <2>1 DEF FilesInv
<1> QED
  BY <1>4, <1>8, <1>9

\* New file: touch, then write.
LEMMA NewFileKeeps ==
    ASSUME FilesInv, S!Good(fs), Fm!NewFile
    PROVE  FilesInv' /\ S!Good(fs') /\ FilesLocal
<1> DEFINE name == Fm!FileName(counter')
           p == Fm!In(name)
<1>1. counter' \in 1..MaxCounter /\ UNCHANGED <<shown, sel>>
  BY AppsAssumption DEF Fm!NewFile, FilesInv
<1>2. name \in Name /\ name \notin {".", ".."}
  <2>1. name \notin {".", ".."}
    BY <1>1, AppsAssumption
  <2> QED
    BY <1>1, <2>1, NamesOfPaths
<1>3. PICK room \in BOOLEAN :
        fs' = IF Fm!Touch(fs, p).rc = 0
              THEN Fm!WriteFile(Fm!Touch(fs, p).s, p, Fm!NewText, room).s
              ELSE Fm!Touch(fs, p).s
  BY DEF Fm!NewFile
<1> HIDE DEF name, Name
<1>4. /\ p \in S!PathType /\ p.abs /\ p.parts # <<>> /\ S!Base(p) = name
      /\ S!Resolve(fs, S!DirPart(p)) = Fm!Folder
  BY <1>2, InFolder DEF FilesInv
<1> HIDE DEF p
<1>5. Fm!NewText \in S!TextType
  BY TextsAreTexts
<1>6. Fm!Touch(fs, p) = S!Touch(fs, p)
  BY MakingIsOne
<1>7. Fm!WriteFile(S!Touch(fs, p).s, p, Fm!NewText, room)
        = S!WriteFile(S!Touch(fs, p).s, p, Fm!NewText, room)
  BY WritingIsOne
<1>8. FilesInv'
  <2>1. counter' \in 0..MaxCounter
    BY <1>1, AppsAssumption
  <2> QED
    BY <1>1, <2>1 DEF FilesInv
<1>9. CASE fs' = S!WriteFile(S!Touch(fs, p).s, p, Fm!NewText, room).s
  <2>1. S!Good(fs')
    BY <1>4, <1>5, <1>9, SavedKeeps
  <2>2. ASSUME fs' # fs
        PROVE  Fm!Folder \in S!Nodes(fs) /\ S!Adds(fs, fs', Fm!Folder, name)
    BY <1>2, <1>4, <1>5, <1>9, <2>2, ShellIsInstantiated, S!TouchWriteAdds
  <2>3. Fm!Folder \in S!Nodes(fs) => Fm!Folder # NULL
    BY NumbersAreOne DEF S!Good, S!TypeOf, S!Addr, S!NULL
  <2>4. FilesLocal
    BY <2>2, <2>3, AddsOnlyAt DEF FilesLocal
  <2> QED
    BY <1>8, <2>1, <2>4
<1>10. CASE S!Touch(fs, p).rc # 0 /\ fs' = S!Touch(fs, p).s
  <2>1. fs' = fs
    BY <1>10 DEF S!Touch, S!Create, S!Done, S!Fail
  <2> QED
    BY <1>8, <2>1 DEF FilesLocal
<1> QED
  BY <1>3, <1>6, <1>7, <1>9, <1>10

\* Delete.
LEMMA DelKeeps ==
    ASSUME FilesInv, S!Good(fs), Fm!Del
    PROVE  FilesInv' /\ S!Good(fs') /\ FilesLocal
<1> DEFINE name == fs.node[Fm!Selected].name
           p == Fm!In(name)
           d == Fm!Folder
<1>1. Fm!Selected # Fm!NULL /\ fs' = S!Rm(fs, p).s /\ UNCHANGED <<shown, sel, counter>>
  BY RemovingIsOne DEF Fm!Del
<1> HIDE DEF Name
<1>2. /\ d # Fm!NULL /\ d \in S!Nodes(fs) /\ fs.node[d].kids # <<>>
      /\ Fm!Selected \in S!Nodes(fs) /\ name \in Name
  BY <1>1, SelectedLives, FolderLives DEF FilesInv
<1> HIDE DEF name
<1>3. /\ p \in S!PathType /\ p.abs /\ p.parts # <<>> /\ S!Base(p) = name
      /\ S!Resolve(fs, S!DirPart(p)) = d
  BY <1>2, InFolder DEF FilesInv
<1> HIDE DEF p, d
<1>4. S!Good(fs')
  BY <1>1, <1>3, ShellIsInstantiated, S!RmGood
<1>5. ASSUME fs' # fs
      PROVE  /\ OnlyAt(d, name) /\ name \in Names
             /\ \A n \in Live \ Live' : fs.node[n].parent = d /\ fs.node[n].name = name
  <2>1. PICK n \in S!Nodes(fs) :
          /\ S!There(fs, n, d, name) /\ S!Nodes(fs') = S!Nodes(fs) \ {n} /\ fs'.cwd = fs.cwd
          /\ \A m \in S!Nodes(fs') : S!Apart(fs', m, d) = S!Apart(fs, m, d)
    BY <1>1, <1>2, <1>3, <1>5, ShellIsInstantiated, S!RmTakes
  <2>2. Live = S!Nodes(fs) /\ Live' = S!Nodes(fs') /\ DOMAIN fs'.node = S!Nodes(fs')
    BY DEF Live, S!Nodes
  <2>3. n # Root /\ fs.node[n].name = name /\ fs.node[n].parent = d
    BY <2>1, NumbersAreOne DEF S!There
  <2>4. \A m \in S!Nodes(fs) : m = n \/ m \in S!Nodes(fs')
    BY <2>1
  <2>5. S!Nodes(fs') \ S!Nodes(fs) = {} /\ S!Nodes(fs) \ S!Nodes(fs') = {n}
    BY <2>1
  <2>6. OnlyAt(d, name)
    BY <2>1, <2>2, <2>3, <2>4, <2>5 DEF OnlyAt, S!Apart
  <2>7. name \in Names
    BY <1>2, <2>2 DEF Names, name
  <2> QED
    BY <2>2, <2>3, <2>5, <2>6, <2>7
<1>6. FilesLocal
  BY <1>2, <1>5, NumbersAreOne DEF FilesLocal, name, d
<1>7. FilesInv'
  BY <1>1 DEF FilesInv
<1> QED
  BY <1>4, <1>6, <1>7

\* Every event of the file manager.
LEMMA FilesKeeps ==
    ASSUME FilesInv, S!Good(fs), Fm!FmNext
    PROVE  FilesInv' /\ S!Good(fs') /\ FilesLocal
<1>1. MaxSel \in Nat /\ MaxCounter \in Nat /\ sel \in 0..MaxSel /\ shown \in Seq(Name)
  BY AppsAssumption DEF FilesInv
<1>2. ASSUME fs' = fs, counter' \in 0..MaxCounter, sel' \in 0..MaxSel, shown' \in Seq(Name)
      PROVE  FilesInv' /\ S!Good(fs') /\ FilesLocal
  BY <1>2 DEF FilesInv, FilesLocal
<1> HIDE DEF Name
<1>3. CASE Fm!Up \/ Fm!Down
  BY <1>1, <1>2, <1>3 DEF Fm!Up, Fm!Down, FilesInv
<1>4. CASE Fm!Enter
  <2>1. fs.node[Fm!Selected].name \in Name
    BY <1>1, <1>4, SelectedLives DEF Fm!Enter, Fm!IsDir
  <2>2. Append(shown, fs.node[Fm!Selected].name) \in Seq(Name)
    BY <1>1, <2>1
  <2> QED
    BY <1>1, <1>2, <1>4, <2>2 DEF Fm!Enter, FilesInv
<1>9. CASE Fm!EnterFile
  BY <1>1, <1>2, <1>9 DEF Fm!EnterFile, FilesInv
<1>5. CASE Fm!Parent
  <2>1. Fm!Front(shown) \in Seq(Name)
    BY <1>1, <1>5 DEF Fm!Parent, Fm!Front
  <2> QED
    BY <1>1, <1>2, <1>5, <2>1 DEF Fm!Parent, FilesInv
<1>6. CASE \E i \in 0..MaxSel : Fm!ClickRow(i)
  BY <1>1, <1>2, <1>6 DEF Fm!ClickRow, FilesInv
<1>7. CASE Fm!Draw
  <2>1. Fm!Folder # Fm!NULL
    BY <1>7 DEF Fm!Draw, Fm!IsDir
  <2>2. Fm!Kids \in Seq(S!Addr)
    BY <1>1, <2>1, FolderLives
  <2>3. Fm!Kids # <<>> /\ sel >= Len(Fm!Kids) /\ sel' = Len(Fm!Kids) - 1
        /\ UNCHANGED <<fs, shown, counter>>
    BY <1>7 DEF Fm!Draw
  <2>4. sel' \in 0..MaxSel
    <3>1. Len(Fm!Kids) \in Nat \ {0}
      BY <2>2, <2>3
    <3> QED
      BY <1>1, <2>3, <3>1
  <2> QED
    BY <1>1, <1>2, <2>3, <2>4 DEF FilesInv
<1>8. CASE Fm!Reopen
  BY <1>1, <1>2, <1>8 DEF Fm!Reopen
<1> QED
  BY <1>3, <1>4, <1>5, <1>6, <1>7, <1>8, <1>9, NewFolderKeeps, NewFileKeeps, DelKeeps DEF Fm!FmNext

-----------------------------------------------------------------------------
(* All windows together. *)

CalcInv == expr \in Seq(Buttons) /\ Len(expr) <= MaxExpr

LEMMA CalcKeeps ==
    ASSUME CalcInv, Ca!CalcNext
    PROVE  CalcInv'
<1>1. MaxExpr \in Nat
  BY AppsAssumption
<1>2. CASE \E k \in Buttons : Ca!Press(k)
  <2>1. PICK k \in Buttons : Len(expr) < MaxExpr /\ expr' = Append(expr, k)
    BY <1>2 DEF Ca!Press
  <2> QED
    BY <1>1, <2>1 DEF CalcInv
<1>3. CASE Ca!Erase \/ Ca!Reopen
  <2>1. expr' = <<>>
    BY <1>3, Zenon DEF Ca!Erase, Ca!Reopen
  <2> QED
    BY <1>1, <2>1 DEF CalcInv
<1>4. CASE Ca!Backspace
  <2>1. expr \in Seq(Buttons) /\ Len(expr) <= MaxExpr
    BY DEF CalcInv
  <2>2. expr' \in Seq(Buttons) /\ Len(expr') <= MaxExpr
    BY <1>1, <1>4, <2>1 DEF Ca!Backspace, Ca!Front
  <2> QED
    BY <2>2 DEF CalcInv
<1>5. CASE Ca!Equals
  BY <1>5 DEF Ca!Equals, CalcInv
<1> QED
  BY <1>2, <1>3, <1>4, <1>5 DEF Ca!CalcNext

\* The tree is well formed in every window.
AppsInv == /\ kind \in Kinds /\ others \in 0..MaxOthers
           /\ S!Good(fs)
           /\ EditorInv /\ FilesInv /\ CalcInv /\ TerminalInv /\ BrowserInv

LEMMA AppsStart == Init => AppsInv
<1> SUFFICES ASSUME Init PROVE AppsInv
  OBVIOUS
<1>1. MaxOthers \in Nat /\ MaxSel \in Nat /\ MaxCounter \in Nat /\ MaxExpr \in Nat
  BY AppsAssumption
<1>2. kind \in Kinds /\ others \in 0..MaxOthers
  BY <1>1 DEF Init
<1>3. EditorInv
  BY EditorStarts DEF Init
<1>4. FilesInv /\ CalcInv
  <2> HIDE DEF Name
  <2>1. shown = <<>> /\ sel = 0 /\ counter = 0 /\ expr = <<>>
    BY DEF Init, Fm!FmInit, Ca!CalcInit
  <2> QED
    BY <1>1, <2>1 DEF FilesInv, CalcInv
<1>5. S!Good(fs)
  BY SeedGood DEF Init
<1> QED
  BY <1>2, <1>3, <1>4, <1>5, HistoriesStart DEF AppsInv

\* A step of another application, or none, leaves these as they are.
LEMMA OthersKeep ==
    ASSUME AppsInv
    PROVE  /\ UNCHANGED edVars => EditorInv'
           /\ UNCHANGED fmVars => FilesInv'
           /\ UNCHANGED calcVars => CalcInv'
BY DEF AppsInv, EditorInv, FilesInv, CalcInv, edVars, fmVars, calcVars

LEMMA AppsKeep == AppsInv /\ [Next]_vars => AppsInv'
<1> SUFFICES ASSUME AppsInv, [Next]_vars PROVE AppsInv'
  OBVIOUS
<1>1. TerminalInv' /\ BrowserInv'
  BY HistoriesKeep DEF AppsInv, TermKeeps, BrKeeps
<1>2. kind \in Kinds /\ others \in 0..MaxOthers /\ MaxOthers \in Nat
      /\ S!Good(fs)
  BY AppsAssumption DEF AppsInv
<1>4. ASSUME UNCHANGED <<kind, others, fs>>, EditorInv', FilesInv', CalcInv'
      PROVE  AppsInv'
  BY <1>1, <1>2, <1>4 DEF AppsInv
<1>5. CASE Elsewhere
  <2>1. S!Good(fs')
    BY <1>2, <1>5, ElsewhereKeeps
  <2>2. EditorInv' /\ FilesInv' /\ CalcInv'
    BY <1>5, OthersKeep DEF Elsewhere
  <2>3. kind' = kind /\ others' \in 0..MaxOthers
    BY <1>2, <1>5 DEF Elsewhere
  <2>4. kind' \in Kinds
    BY <1>2, <2>3
  <2> QED
    BY <1>1, <2>1, <2>2, <2>3, <2>4 DEF AppsInv
<1>6. CASE WriteStep
  <2>1. PICK text \in Samples, room \in BOOLEAN :
          fs' = S!WriteFile(fs, Ed!Benvenuto, text, room).s
    BY <1>6, WritingIsOne DEF WriteStep
  <2>2. S!Good(fs')
    BY <1>2, <2>1, EditorPaths, TextsAreTexts, ShellIsInstantiated, S!WriteGood
  <2>3. EditorInv' /\ FilesInv' /\ CalcInv'
    BY <1>6, OthersKeep DEF WriteStep
  <2>4. kind' = kind /\ others' = others
    BY <1>6 DEF WriteStep, Still
  <2> QED
    BY <1>1, <1>2, <2>2, <2>3, <2>4 DEF AppsInv
<1>7. CASE EdStep
  <2>1. EditorInv' /\ S!Good(fs')
    BY <1>2, <1>7, EditorKeeps DEF EdStep, AppsInv
  <2>2. FilesInv' /\ CalcInv' /\ kind' = kind /\ others' = others
    BY <1>7, OthersKeep DEF EdStep, Still
  <2> QED
    BY <1>1, <1>2, <2>1, <2>2 DEF AppsInv
<1>8. CASE FmStep
  <2>1. FilesInv' /\ S!Good(fs')
    BY <1>2, <1>8, FilesKeeps DEF FmStep, AppsInv
  <2>2. EditorInv' /\ CalcInv' /\ kind' = kind /\ others' = others 
    BY <1>8, OthersKeep DEF FmStep, Still
  <2> QED
    BY <1>1, <1>2, <2>1, <2>2 DEF AppsInv
<1>9. CASE TermStep
  <2>1. fs' = fs
    BY <1>9 DEF TermStep, Term!TermNext, Term!Up, Term!Down, Term!Backspace, Term!Enter,
                Term!Reopen, Term!Type
  <2> QED
    BY <1>4, <1>9, <2>1, OthersKeep DEF TermStep, Still
<1>10. CASE BrStep
  BY <1>4, <1>10, OthersKeep DEF BrStep, Still
<1>11. CASE CaStep
  BY <1>4, <1>11, OthersKeep, CalcKeeps DEF CaStep, Still, AppsInv
<1>12. CASE CalStep
  BY <1>4, <1>12, OthersKeep DEF CalStep, Still
<1>13. CASE UNCHANGED vars
  BY <1>4, <1>13, OthersKeep DEF vars
<1> QED
  BY <1>5, <1>6, <1>7, <1>8, <1>9, <1>10, <1>11, <1>12, <1>13 DEF Next

LEMMA AppsAlways == Spec => []AppsInv
BY AppsStart, AppsKeep, PTL DEF Spec

\* In every window the file system stays what ShellProofs calls Good, a tree with an
\* exact count and a live current directory, through every save and every failure.
THEOREM TreeStaysGood == Spec => []S!Good(fs)
<1>1. AppsInv => S!Good(fs)
  BY DEF AppsInv
<1> QED
  BY <1>1, AppsAlways, PTL

\* Every index of a window stays within what it indexes, whatever other windows do
\* to the tree; the editor's buffer is a terminated text (TypeOK).
THEOREM AppsType == Spec => []TypeOK
<1>1. AppsInv => TypeOK
  <2> SUFFICES ASSUME AppsInv PROVE TypeOK
    OBVIOUS
  <2>1. kind \in Kinds /\ others \in 0..MaxOthers
    BY DEF AppsInv
  <2>2. Ed!EdTypeOK
    BY EditorTypes DEF AppsInv
  <2>3. Term!TermTypeOK /\ Br!BrTypeOK
    BY DEF AppsInv, TerminalInv, BrowserInv, Term!TermTypeOK, Br!BrTypeOK,
           Address
  <2>4. sel \in 0..MaxSel /\ counter \in 0..MaxCounter /\ Len(expr) <= MaxExpr
    BY DEF AppsInv, FilesInv, CalcInv
  <2> QED
    BY <2>1, <2>2, <2>3, <2>4 DEF TypeOK
<1> QED
  BY <1>1, AppsAlways, PTL

\* Save changes the one name its path has in the one directory its path leads to, and
\* what it answers is true.
LEMMA SaveIsLocal ==
    ASSUME AppsInv, Ed!Save
    PROVE  /\ fs' # fs => OnlyAt(Resolve(fs, DirPart(path)), Base(path))
           /\ status' = "Salvato." =>
                LET n == Resolve(fs', path)
                IN  n # NULL /\ ~fs'.node[n].dir /\ TextOf(fs', n) = Ed!EdText
<1> DEFINE text == Ed!EdText
<1>1. PICK room \in BOOLEAN :
        LET r == Ed!WriteFile(Ed!Touch(fs, path).s, path, text, room)
        IN  fs' = r.s /\ status' = IF r.rc = 0 THEN "Salvato." ELSE ""
  BY DEF Ed!Save, Ed!Say
<1> DEFINE r == S!WriteFile(S!Touch(fs, path).s, path, text, room)
           d == S!Resolve(fs, S!DirPart(path))
<1>2. Ed!Touch(fs, path) = S!Touch(fs, path)
  BY MakingIsOne
<1>3. Ed!WriteFile(S!Touch(fs, path).s, path, text, room) = r
  BY WritingIsOne
<1>4. fs' = r.s /\ status' = IF r.rc = 0 THEN "Salvato." ELSE ""
  BY <1>1, <1>2, <1>3
<1>5. text \in S!TextType
  BY BufferIsText, TextsAreTexts DEF AppsInv
<1>6. path \in S!PathType /\ path.abs /\ path.parts # <<>> /\ S!Base(path) \notin {".", ".."}
  BY EditorPaths DEF AppsInv, EditorInv
<1>7. S!Good(fs)
  BY DEF AppsInv
<1> HIDE DEF text
<1>8. /\ r.s # fs => d \in S!Nodes(fs) /\ S!Adds(fs, r.s, d, S!Base(path))
      /\ r.rc = 0 => ~r.s.node[S!Resolve(r.s, path)].dir
  BY <1>5, <1>6, <1>7, ShellIsInstantiated, S!TouchWriteAdds
<1>9. S!Written(fs, r, path, text)
  BY <1>5, <1>6, <1>7, ShellIsInstantiated, S!TouchWriteGood
<1> HIDE DEF r
<1>10. ASSUME fs' # fs PROVE OnlyAt(Resolve(fs, DirPart(path)), Base(path))
  <2>1. Resolve(fs, DirPart(path)) = d /\ Base(path) = S!Base(path)
    BY PathsAreOne, LookupIsOne
  <2> QED
    BY <1>4, <1>8, <1>10, <2>1, AddsOnlyAt
<1>11. ASSUME status' = "Salvato."
       PROVE  LET n == Resolve(fs', path)
              IN  n # NULL /\ ~fs'.node[n].dir /\ TextOf(fs', n) = text
  <2> DEFINE n == S!Resolve(fs', path)
  <2>1. r.rc = 0
    BY <1>4, <1>11
  <2>2. n \in S!Nodes(fs') /\ fs'.node[n].data = <<text>> /\ ~fs'.node[n].dir /\ S!Good(fs')
    BY <1>4, <1>8, <1>9, <2>1 DEF S!Written
  <2> HIDE DEF n
  <2>3. n # NULL
    BY <2>2, NumbersAreOne DEF S!Good, S!TypeOf, S!Addr, S!NULL
  <2>4. <<text>> # <<>> /\ <<text>>[1] = text
    OBVIOUS
  <2>5. TextOf(fs', n) = text
    BY <2>2, <2>4 DEF TextOf, NoData
  <2>6. Resolve(fs', path) = n
    BY LookupIsOne DEF n
  <2> QED
    BY <2>2, <2>3, <2>5, <2>6
<1> QED
  BY <1>10, <1>11 DEF text

\* What the step of one window may do to the files (ChangesAreLocal).
LocalStep ==
    /\ Own("files") /\ fs' # fs =>
         /\ Fm!Folder # NULL
         /\ \E name \in Names \cup Names' : OnlyAt(Fm!Folder, name)
         /\ \A n \in Live \ Live' : /\ fs.node[n].parent = Fm!Folder
                                    /\ fs.node[n].name = fs.node[Fm!Selected].name
    /\ Own("editor") /\ fs' # fs => OnlyAt(Resolve(fs, DirPart(path)), Base(path))
    /\ Own("editor") /\ (fs' # fs \/ status' # status) /\ status' = "Salvato." =>
         LET n == Resolve(fs', path)
         IN  n # NULL /\ ~fs'.node[n].dir /\ TextOf(fs', n) = Ed!EdText

LEMMA StepsAreLocal ==
    ASSUME AppsInv, [Next]_vars
    PROVE  LocalStep
<1>1. ASSUME FilesLocal, kind # "editor" PROVE LocalStep
  BY <1>1 DEF FilesLocal, LocalStep, Own
<1>2. ASSUME fs' = fs, status' = status PROVE LocalStep
  BY <1>2 DEF LocalStep
<1>3. ASSUME ~Own("files"), ~Own("editor") PROVE LocalStep
  BY <1>3 DEF LocalStep
<1>4. CASE Elsewhere
  <2>1. others' = others + 1 /\ others \in Nat
    BY <1>4, AppsAssumption DEF Elsewhere, AppsInv
  <2> QED
    BY <1>3, <2>1 DEF Own
<1>5. CASE WriteStep
  BY <1>3, <1>5 DEF WriteStep, Own
<1>6. CASE EdStep
  <2>1. kind # "files" /\ kind = "editor" /\ Ed!EdNext
    BY <1>6 DEF EdStep
  <2>2. /\ fs' # fs => Ed!Save
        /\ status' # "Salvato." \/ status' = status \/ Ed!Save
    BY <2>1, EditorKeeps DEF AppsInv
  <2> QED
    BY <2>1, <2>2, SaveIsLocal DEF LocalStep, Own
<1>7. CASE FmStep
  BY <1>1, <1>7, FilesKeeps DEF FmStep, AppsInv
<1>8. CASE TermStep
  BY <1>3, <1>8 DEF TermStep, Own
<1>9. CASE BrStep
  BY <1>3, <1>9 DEF BrStep, Own
<1>10. CASE CaStep
  BY <1>3, <1>10 DEF CaStep, Own
<1>11. CASE CalStep
  BY <1>3, <1>11 DEF CalStep, Own
<1>12. CASE UNCHANGED vars
  BY <1>2, <1>12 DEF vars, edVars
<1> QED
  BY <1>4, <1>5, <1>6, <1>7, <1>8, <1>9, <1>10, <1>11, <1>12 DEF Next

\* Whatever other windows did to the tree in between: an event of the file manager
\* touches one name of the folder it shows and removes only the selected row, the
\* editor touches only its file, and Salvato means saved (ChangesAreLocal).
THEOREM ChangesStayLocal == Spec => ChangesAreLocal
<1>1. AppsInv /\ [Next]_vars => LocalStep
  BY StepsAreLocal
<1>2. AppsInv /\ [Next]_vars => [LocalStep]_vars
  BY <1>1
<1> QED
  BY <1>2, AppsAlways, PTL DEF Spec, ChangesAreLocal, LocalStep
=============================================================================
