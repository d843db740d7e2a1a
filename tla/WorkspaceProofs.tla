--------------------------- MODULE WorkspaceProofs ---------------------------
(***************************************************************************)
(* Workspace, for any names, directories, files on the card, lists of files *)
(* and numbers of failures and losses of power: the entry under the cursor  *)
(* of the list exists and is shown, and the editor keeps the promises of    *)
(* Desk.  IInv says where the editor's file is in every step of a command,  *)
(* and what is put by before a program runs.                                *)
(***************************************************************************)
EXTENDS Workspace, SequenceTheorems, FiniteSetTheorems, TLAPS

NewSteps  == {"new.sure", "new.save", "new.clear"}
LoadSteps == {"load.save", "load.cwd", "load.list", "load.pick"}
SaveSteps == {"save.cwd", "save.name", "save.ask", "save.ask2", "save.list", "save.pick",
              "save.write", "save.writing"}
RunSteps  == {"run.root", "run.path", "run.back", "run.temp", "run.go", "run.end", "run.home",
              "run.load", "run.done"}
Steps     == {"edit", "start"} \cup NewSteps \cup LoadSteps \cup SaveSteps \cup RunSteps
Words     == Steps \cup {"retry"}
MayFail   == {"save.cwd", "save.list", "save.write", "load.cwd", "load.list", "run.root",
              "run.path", "run.back", "run.home", "run.load"}

\* Who waits for a step: a text is saved for itself, or before it makes way.
Edit == <<"edit">>
Backs == {Edit, <<"new.clear">> \o Edit, <<"load.cwd">> \o Edit}
Callers(s) == IF s \in {"edit", "start"} THEN {<< >>} ELSE IF s \in SaveSteps THEN Backs ELSE {Edit}
Stack == \E s \in Steps : \E b \in Callers(s) :
           at = <<s>> \o b \/ (s \in MayFail /\ at = <<"retry", s>> \o b)
Now == IF Is("retry") THEN at[2] ELSE at[1]

Types ==
  /\ dirs \subseteq AllDirs /\ Root \in dirs /\ cwd \in dirs
  /\ text \notin Huge /\ currentfile \in Names \cup {NoName, TempFile}
  /\ ow \in BOOLEAN /\ typed \in Nat /\ astray \in BOOLEAN /\ (currentfile = TempFile => astray)
  /\ \A p \in DOMAIN disk : p[2] = TempFile => disk[p] \notin Huge
  /\ f \in Int /\ top \in Int /\ mx \in {1, Columns}
  /\ Now \notin {"run.go", "run.end", "run.home"} => cwdpath \in dirs
  /\ Now = "start" => currentfile = NoName /\ text = Empty

\* Where the text's own file is, until the user goes astray: in the current directory between the commands,
\* where cwdpath says during one, where ~WORKDIR.TMP says while a program runs.
AtHome == {"edit", "save.cwd", "load.save", "load.cwd", "run.done"} \cup NewSteps
Gone   == {"run.go", "run.end", "run.home"}
Away   == (SaveSteps \ {"save.cwd"}) \cup {"load.list", "load.pick"}
             \cup {"run.root", "run.path", "run.back", "run.temp", "run.load"}
Home ==
  currentfile # NoName /\ ~astray =>
    /\ own = <<own[1], currentfile>>
    /\ Now \in AtHome => cwd = own[1]
    /\ Now \in Away => cwdpath = own[1]
    /\ Now \in Gone => workdir = own[1]

\* What is written over is the text's own or agreed to, until the user goes astray.
Choosing == {"save.name", "save.ask", "save.ask2", "save.list", "save.pick"}
Writing  == {"save.write", "save.writing"}
Target ==
  /\ Now \in Choosing => ~ow
  /\ Now \in {"save.cwd"} \cup Writing /\ ow => currentfile # NoName /\ tempfile = currentfile
  /\ Now \in {"save.ask", "save.ask2"} => tempfile \in Names
  /\ Now \in Writing => tempfile \in Names \/ (tempfile = TempFile /\ astray)
  /\ Now \in {"save.pick", "load.pick", "save.ask2"} => temppath = cwd
  /\ Now \in Writing /\ ~astray => Here(tempfile) \in {own, agreed}
  /\ Now = "save.writing" => On(Here(tempfile)) /\ disk[Here(tempfile)] = Torn

\* The text and its directory are put by where the end of run() looks.
PutBy(d) == On(<<d, TempFile>>) /\ disk[<<d, TempFile>>] = held
Kept ==
  /\ Now \in {"run.back", "run.temp"} => workdir = cwdpath
  /\ Now = "run.temp" => cwd = cwdpath
  /\ Now \in Gone => workdir \in dirs /\ PutBy(workdir)
  /\ Now = "run.load" => PutBy(cwdpath)

\* The list of files begins with a whole line.
Shown ==
  Now \in {"save.pick", "load.pick"} =>
    top <= f /\ f < top + Page /\ f < filenum /\ ((top + 2) % mx) = 0

IInv == Stack /\ Types /\ Home /\ Target /\ Kept /\ Shown

-----------------------------------------------------------------------------
(* The stack: what each way of going on does to it.                         *)

LEMMA Frames ==
  ASSUME NEW s \in Words, NEW b \in Seq(Words)
  PROVE  /\ <<s>> \o b \in Seq(Words) /\ (<<s>> \o b)[1] = s /\ Tail(<<s>> \o b) = b
         /\ <<"retry", s>> \o b \in Seq(Words)
         /\ (<<"retry", s>> \o b)[1] = "retry" /\ (<<"retry", s>> \o b)[2] = s
         /\ Tail(<<"retry", s>> \o b) = <<s>> \o b
         /\ SubSeq(<<"retry", s>> \o b, 3, Len(<<"retry", s>> \o b)) = b
         /\ <<"retry">> \o (<<s>> \o b) = <<"retry", s>> \o b
<1> DEFINE p == <<s>> \o b
           q == <<"retry", s>> \o b
<1>1. p \in Seq(Words) /\ Len(p) = 1 + Len(b) /\ p[1] = s /\ \A i \in 1 .. Len(b) : p[i + 1] = b[i]
  BY ConcatProperties, LenProperties
<1>2. q \in Seq(Words) /\ Len(q) = 2 + Len(b) /\ q[1] = "retry" /\ q[2] = s
      /\ \A i \in 1 .. Len(b) : q[i + 2] = b[i]
  <2>1. <<"retry", s>> \in Seq(Words) /\ Len(<<"retry", s>>) = 2
        /\ <<"retry", s>>[1] = "retry" /\ <<"retry", s>>[2] = s
    <3>1. "retry" \in Words
      BY DEF Words
    <3>2. <<"retry", s>> \in Seq(Words)
      BY <3>1
    <3> QED BY <3>2
  <2>2. \A i \in 1 .. Len(b) : i + 2 \in 1 .. 2 + Len(b) /\ ~(i + 2 <= 2) /\ (i + 2) - 2 = i
    BY LenProperties
  <2>3. q \in Seq(Words) /\ Len(q) = 2 + Len(b)
        /\ \A i \in 1 .. 2 + Len(b) : q[i] = IF i <= 2 THEN <<"retry", s>>[i] ELSE b[i - 2]
    BY <2>1, ConcatProperties
  <2> QED BY <2>1, <2>2, <2>3, LenProperties
<1>3. Len(b) \in Nat
  BY LenProperties
<1> HIDE DEF p, q
<1>4. Tail(p) = b
  <2>1. Tail(p) \in Seq(Words) /\ Len(Tail(p)) = Len(b) /\ \A i \in 1 .. Len(b) : Tail(p)[i] = p[i + 1]
    BY <1>1, <1>3, HeadTailProperties
  <2> QED BY <2>1, <1>1, SeqEqual
<1>5. Tail(q) = p
  <2>1. Tail(q) \in Seq(Words) /\ Len(Tail(q)) = Len(p) /\ \A i \in 1 .. Len(p) : Tail(q)[i] = q[i + 1]
    BY <1>1, <1>2, <1>3, HeadTailProperties
  <2>2. \A i \in 1 .. Len(p) : q[i + 1] = p[i]
    <3> TAKE i \in 1 .. Len(p)
    <3>1. CASE i = 1
      BY <3>1, <1>1, <1>2
    <3>2. CASE i # 1
      <4>1. i - 1 \in 1 .. Len(b) /\ (i - 1) + 2 = i + 1 /\ (i - 1) + 1 = i
        BY <3>2, <1>1, <1>3
      <4> QED BY <4>1, <1>1, <1>2
    <3> QED BY <3>1, <3>2
  <2> QED BY <2>1, <2>2, <1>1, SeqEqual
<1>6. SubSeq(q, 3, Len(q)) = b
  <2>1. CASE Len(b) = 0
    <3>1. SubSeq(q, 3, Len(q)) \in Seq(Words) /\ Len(SubSeq(q, 3, Len(q))) = 0
      BY <2>1, <1>2, SubSeqProperties
    <3> QED BY <3>1, <2>1, SeqEqual
  <2>2. CASE Len(b) # 0
    <3>1. SubSeq(q, 3, Len(q)) \in Seq(Words) /\ Len(SubSeq(q, 3, Len(q))) = Len(b)
          /\ \A i \in 1 .. Len(b) : SubSeq(q, 3, Len(q))[i] = q[3 + i - 1]
      BY <2>2, <1>2, <1>3, SubSeqProperties
    <3>2. \A i \in 1 .. Len(b) : 3 + i - 1 = i + 2
      BY <1>3
    <3> QED BY <3>1, <3>2, <1>2, SeqEqual
  <2> QED BY <2>1, <2>2
<1>7. <<"retry">> \o p = q
  <2>1. <<"retry">> \o p \in Seq(Words) /\ Len(<<"retry">> \o p) = Len(q)
        /\ (<<"retry">> \o p)[1] = "retry" /\ \A i \in 1 .. Len(p) : (<<"retry">> \o p)[i + 1] = p[i]
    BY <1>1, <1>2, <1>3, ConcatProperties, LenProperties
  <2>2. Tail(<<"retry">> \o p) = p /\ <<"retry">> \o p # << >> /\ q # << >>
    <3>1. Tail(<<"retry">> \o p) \in Seq(Words) /\ Len(Tail(<<"retry">> \o p)) = Len(p)
          /\ \A i \in 1 .. Len(p) : Tail(<<"retry">> \o p)[i] = (<<"retry">> \o p)[i + 1]
      BY <2>1, <1>1, <1>2, <1>3, HeadTailProperties
    <3> QED BY <3>1, <2>1, <1>1, <1>2, <1>3, SeqEqual, LenProperties
  <2>3. \A i \in 1 .. Len(q) : (<<"retry">> \o p)[i] = q[i]
    <3> TAKE i \in 1 .. Len(q)
    <3>1. CASE i = 1
      BY <3>1, <2>1, <1>2
    <3>2. CASE i # 1
      <4>1. i - 1 \in 1 .. Len(p) /\ (i - 1) + 1 = i
        BY <3>2, <1>1, <1>2, <1>3
      <4>2. Tail(q)[i - 1] = q[(i - 1) + 1]
        BY <4>1, <1>1, <1>2, <1>3, HeadTailProperties
      <4> QED BY <4>1, <4>2, <2>1, <1>5
    <3> QED BY <3>1, <3>2
  <2> QED BY <2>1, <2>3, <1>2, SeqEqual
<1> QED BY <1>1, <1>2, <1>4, <1>5, <1>6, <1>7 DEF p, q

LEMMA CallersAre ==
  /\ "retry" \notin Steps /\ Steps \subseteq Words /\ MayFail \subseteq Steps
  /\ \A s \in Steps : Callers(s) \subseteq Seq(Words)
<1>1. Backs \subseteq Seq(Words)
  <2>1. Edit \in Seq(Words) /\ {"new.clear", "load.cwd"} \subseteq Words
    BY DEF Edit, Words, Steps, NewSteps, LoadSteps
  <2> QED BY <2>1, Frames DEF Backs
<1>2. << >> \in Seq(Words) /\ Edit \in Seq(Words)
  BY DEF Edit, Words, Steps
<1>3. "retry" \notin Steps /\ Steps \subseteq Words /\ MayFail \subseteq Steps
  BY DEF Steps, NewSteps, LoadSteps, SaveSteps, RunSteps, MayFail, Words
<1> QED BY <1>1, <1>2, <1>3 DEF Callers

\* A step of the stack, called by name.
LEMMA Stands ==
  ASSUME Stack, NEW x \in Steps, Is(x)
  PROVE  /\ Now = x /\ at = <<x>> \o Tail(at) /\ Tail(at) \in Callers(x) /\ Tail(at) \in Seq(Words)
<1>0. PICK s \in Steps : \E b \in Callers(s) : at = <<s>> \o b \/ (s \in MayFail /\ at = <<"retry", s>> \o b)
  BY DEF Stack
<1>1. PICK b \in Callers(s) : at = <<s>> \o b \/ (s \in MayFail /\ at = <<"retry", s>> \o b)
  BY <1>0
<1>2. s \in Words /\ b \in Seq(Words) /\ x # "retry"
  BY CallersAre
<1>3. (<<s>> \o b)[1] = s /\ Tail(<<s>> \o b) = b /\ (<<"retry", s>> \o b)[1] = "retry"
  BY <1>2, Frames
<1>4. at[1] = x
  BY DEF Is
<1>5. at = <<s>> \o b /\ s = x /\ Tail(at) = b
  BY <1>1, <1>2, <1>3, <1>4
<1> QED BY <1>2, <1>5 DEF Now, Is

LEMMA Asks ==
  ASSUME Stack, Is("retry")
  PROVE  /\ Now \in MayFail /\ at[2] = Now
         /\ \E b \in Callers(Now) : /\ at = <<"retry", Now>> \o b /\ b \in Seq(Words)
                                    /\ Tail(at) = <<Now>> \o b /\ SubSeq(at, 3, Len(at)) = b
<1>0. PICK s \in Steps : \E b \in Callers(s) : at = <<s>> \o b \/ (s \in MayFail /\ at = <<"retry", s>> \o b)
  BY DEF Stack
<1>1. PICK b \in Callers(s) : at = <<s>> \o b \/ (s \in MayFail /\ at = <<"retry", s>> \o b)
  BY <1>0
<1>2. s \in Words /\ b \in Seq(Words) /\ s # "retry"
  BY CallersAre
<1>3. at # <<s>> \o b
  BY <1>2, Frames DEF Is
<1>4. at = <<"retry", s>> \o b /\ s \in MayFail
  BY <1>1, <1>3
<1>5. at[2] = s /\ Tail(at) = <<s>> \o b /\ SubSeq(at, 3, Len(at)) = b
  BY <1>2, <1>4, Frames
<1>6. Now = s
  BY <1>5 DEF Now
<1> QED BY <1>2, <1>4, <1>5, <1>6

\* In the next state.
LEMMA StandsThen ==
  ASSUME NEW y \in Steps, NEW b \in Callers(y), at' = <<y>> \o b
  PROVE  Stack' /\ Now' = y /\ at'[1] = y /\ Tail(at') = b
<1>1. y \in Words /\ b \in Seq(Words) /\ y # "retry"
  BY CallersAre
<1>2. at'[1] = y /\ Tail(at') = b
  BY <1>1, Frames
<1> QED BY <1>1, <1>2 DEF Stack, Now, Is

LEMMA AsksThen ==
  ASSUME NEW y \in MayFail, NEW b \in Callers(y), at' = <<"retry", y>> \o b
  PROVE  Stack' /\ Now' = y /\ at'[1] = "retry" /\ at'[2] = y
<1>1. y \in Words /\ b \in Seq(Words) /\ y \in Steps
  BY CallersAre
<1>2. at'[1] = "retry" /\ at'[2] = y
  BY <1>1, Frames
<1> QED BY <1>1, <1>2 DEF Stack, Now, Is

LEMMA Goes ==
  ASSUME Stack, NEW x \in Steps, NEW y \in Steps, Is(x), Goto(y), Callers(x) \subseteq Callers(y)
  PROVE  Stack' /\ Now = x /\ Now' = y /\ at'[1] = y
<1>1. Now = x /\ Tail(at) \in Callers(y) /\ at' = <<y>> \o Tail(at)
  BY Stands DEF Goto
<1> QED BY <1>1, StandsThen

LEMMA Fails ==
  ASSUME Stack, NEW x \in Steps, NEW y \in MayFail, Is(x), Call("retry", y), Callers(x) \subseteq Callers(y)
  PROVE  Stack' /\ Now = x /\ Now' = y /\ at'[1] = "retry" /\ at'[2] = y
<1>1. Now = x /\ Tail(at) \in Callers(y) /\ at' = <<"retry", y>> \o Tail(at)
  BY Stands DEF Call
<1> QED BY <1>1, AsksThen

LEMMA Calls ==
  ASSUME Stack, NEW x \in Steps, NEW y \in {"new.clear", "load.cwd"}, Is(x), Callers(x) = {Edit},
         Call("save.cwd", y)
  PROVE  Stack' /\ Now = x /\ Now' = "save.cwd" /\ at'[1] = "save.cwd"
<1>1. Now = x /\ Tail(at) = Edit /\ at' = <<"save.cwd", y>> \o Edit
  BY Stands DEF Call
<1>2. <<"save.cwd", y>> \o Edit = <<"save.cwd">> \o (<<y>> \o Edit)
  BY DEF Edit
<1>3. <<y>> \o Edit \in Callers("save.cwd")
  BY DEF Callers, SaveSteps, Backs
<1>4. "save.cwd" \in Steps
  BY DEF Steps, SaveSteps
<1> QED BY <1>1, <1>2, <1>3, <1>4, StandsThen

\* What a command returns to.
LEMMA Back ==
  ASSUME NEW x \in Steps, x \notin {"edit", "start"}, NEW b \in Callers(x), at' = b
  PROVE  /\ Stack' /\ at'[1] = Now' /\ Now' \in {"edit", "new.clear", "load.cwd"}
         /\ x \notin SaveSteps => Now' = "edit"
<1>1. b \in Backs /\ (x \notin SaveSteps => b = Edit)
  BY DEF Callers, Backs
<1>2. << >> \in Callers("edit") /\ Edit \in Callers("new.clear") /\ Edit \in Callers("load.cwd")
      /\ {"edit", "new.clear", "load.cwd"} \subseteq Steps
  BY DEF Callers, SaveSteps, Steps, NewSteps, LoadSteps
<1>3. Edit = <<"edit">> \o << >>
  BY DEF Edit
<1>4. CASE b = Edit
  BY <1>2, <1>3, <1>4, StandsThen
<1>5. CASE b = <<"new.clear">> \o Edit
  <2>1. b # Edit
    BY <1>5 DEF Edit
  <2> QED BY <1>1, <1>2, <1>5, <2>1, StandsThen
<1>6. CASE b = <<"load.cwd">> \o Edit
  <2>1. b # Edit
    BY <1>6 DEF Edit
  <2> QED BY <1>1, <1>2, <1>6, <2>1, StandsThen
<1> QED BY <1>1, <1>4, <1>5, <1>6 DEF Backs

LEMMA Returns ==
  ASSUME Stack, NEW x \in Steps, x \notin {"edit", "start"}, Is(x), Return
  PROVE  /\ Stack' /\ Now = x /\ at'[1] = Now' /\ Now' \in {"edit", "new.clear", "load.cwd"}
         /\ x \notin SaveSteps => Now' = "edit"
<1>1. Now = x /\ Tail(at) \in Callers(x) /\ at' = Tail(at)
  BY Stands DEF Return
<1> QED BY <1>1, Back

LEMMA SameCallers ==
  /\ SaveSteps \cup LoadSteps \cup NewSteps \cup RunSteps \subseteq Steps
  /\ \A s \in SaveSteps : Callers(s) = Backs
  /\ \A s \in LoadSteps \cup NewSteps \cup RunSteps : Callers(s) = {Edit}
BY DEF Callers, Steps, SaveSteps, LoadSteps, NewSteps, RunSteps

\* A step of a command is followed by another one of it.
Command(s) == IF s \in SaveSteps THEN SaveSteps ELSE LoadSteps \cup NewSteps \cup RunSteps
LEMMA GoesOn ==
  ASSUME Stack, NEW x \in SaveSteps \cup LoadSteps \cup NewSteps \cup RunSteps, NEW y \in Command(x),
         Is(x), Goto(y)
  PROVE  Stack' /\ Now = x /\ Now' = y
<1>1. Callers(x) = Callers(y) /\ x \in Steps /\ y \in Steps
  BY SameCallers DEF Command, SaveSteps, LoadSteps, NewSteps, RunSteps
<1> QED BY <1>1, Goes

LEMMA MayAsk ==
  ASSUME Stack, NEW x \in SaveSteps \cup LoadSteps \cup NewSteps \cup RunSteps,
         NEW y \in MayFail \cap Command(x), Is(x), Fail(y)
  PROVE  Stack' /\ Now = x /\ Now' = y /\ typed' = typed
<1>1. Callers(x) = Callers(y) /\ x \in Steps /\ y \in MayFail
  BY SameCallers DEF Command, SaveSteps, LoadSteps, NewSteps, RunSteps
<1> QED BY <1>1, Fails DEF Fail

-----------------------------------------------------------------------------
(* The list of files.                                                       *)

LEMMA SetToSeqType ==
  ASSUME NEW S, IsFiniteSet(S)
  PROVE  SetToSeq(S) \in Seq(S)
<1>1. Cardinality(S) \in Nat /\ \E g \in [1 .. Cardinality(S) -> S] : IsInjective(g)
  BY FS_CardinalityType DEF ExistsBijection, Bijection, Injection
<1>2. SetToSeq(S) \in [1 .. Cardinality(S) -> S]
  BY <1>1 DEF SetToSeq
<1> QED BY <1>1, <1>2

Entries == {ToParent, TempFile} \cup DirNames \cup Names
ListOf(up, subs, files) == (IF up THEN <<ToParent>> ELSE << >>) \o SetToSeq(subs) \o SetToSeq(files)
Cropped(l) == SubSeq(l, 1, IF Len(l) < MAXFILENUM THEN Len(l) ELSE MAXFILENUM)

LEMMA ListOfType ==
  ASSUME NEW up, NEW subs \in SUBSET DirNames, NEW files \in SUBSET (Names \cup {TempFile})
  PROVE  Cropped(ListOf(up, subs, files)) \in Seq(Entries)
<1>1. IsFiniteSet(subs) /\ IsFiniteSet(files)
  <2>1. IsFiniteSet(Names \cup {TempFile})
    BY WorkspaceAssumption, FS_AddElement
  <2> QED BY <2>1, WorkspaceAssumption, FS_Subset
<1>2. SetToSeq(subs) \in Seq(Entries) /\ SetToSeq(files) \in Seq(Entries)
  <2>1. SetToSeq(subs) \in Seq(subs) /\ SetToSeq(files) \in Seq(files)
    BY <1>1, SetToSeqType
  <2> QED BY <2>1 DEF Entries
<1>3. (IF up THEN <<ToParent>> ELSE << >>) \in Seq(Entries)
  <2>1. <<ToParent>> \in Seq(Entries) /\ << >> \in Seq(Entries)
    BY DEF Entries
  <2> QED BY <2>1
<1> DEFINE l == ListOf(up, subs, files)
<1>4. l \in Seq(Entries)
  BY <1>2, <1>3, ConcatProperties DEF ListOf
<1> HIDE DEF l
<1>5. Len(l) \in Nat /\ MAXFILENUM \in Nat /\ \A i \in 1 .. Len(l) : l[i] \in Entries
  BY <1>4, LenProperties, ElementOfSeq, WorkspaceAssumption
<1> DEFINE n == IF Len(l) < MAXFILENUM THEN Len(l) ELSE MAXFILENUM
<1>6. n \in Nat /\ n <= Len(l)
  BY <1>5
<1> HIDE DEF n
<1>7. SubSeq(l, 1, n) \in Seq(Entries)
  BY <1>5, <1>6, SubSeqProperties
<1> QED BY <1>7 DEF Cropped, l, n

LEMMA FilesListed ==
  /\ FileList \in Seq(Entries) /\ filenum \in Nat
  /\ (filenum \in Nat)'
  /\ \A i \in 1 .. filenum : FileList[i] \in Entries
<1>1. FileList = Cropped(ListOf(temppath # Root, Subs(temppath), {n \in Names \cup {TempFile} : On(<<temppath, n>>)}))
  BY DEF FileList, Cropped, ListOf, Listing
<1>2. FileList' = Cropped(ListOf(temppath' # Root, Subs(temppath)', {n \in Names \cup {TempFile} : <<temppath', n>> \in DOMAIN disk'}))
  BY DEF FileList, Cropped, ListOf, Listing, On
<1>3. Subs(temppath) \subseteq DirNames /\ Subs(temppath)' \subseteq DirNames
  BY DEF Subs
<1>4. FileList \in Seq(Entries)
  BY <1>1, <1>3, ListOfType
<1>5. FileList' \in Seq(Entries)
  <2>1. Subs(temppath)' \in SUBSET DirNames
        /\ {n \in Names \cup {TempFile} : <<temppath', n>> \in DOMAIN disk'} \in SUBSET (Names \cup {TempFile})
    BY <1>3
  <2> QED BY <1>2, <2>1, ListOfType
<1> QED BY <1>4, <1>5, LenProperties, ElementOfSeq DEF filenum

\* A line or a page more or less is whole lines.
LEMMA WholeLines ==
  ASSUME NEW m \in Nat \ {0}, NEW r \in Nat, NEW t \in Int, t % m = 0
  PROVE  /\ (t + m) % m = 0 /\ (t - m) % m = 0
         /\ (t + (m * r)) % m = 0 /\ (t - (m * r)) % m = 0
<1>1. PICK q \in Int : t = q * m
  <2>1. t = (t \div m) * m + (t % m) /\ t \div m \in Int
    OBVIOUS
  <2> QED BY <2>1
<1>2. \A k \in Int : (k * m) % m = 0
  OBVIOUS
<1>3. t + m = (q + 1) * m /\ t - m = (q - 1) * m
      /\ t + (m * r) = (q + r) * m /\ t - (m * r) = (q - r) * m
  BY <1>1
<1> QED BY <1>2, <1>3

LEMMA NextColumn ==
  ASSUME NEW m \in Nat \ {0}, NEW x \in Int, (x % m) + 1 < m
  PROVE  (x + 1) % m # 0
<1>1. x % m \in 0 .. m - 1 /\ (x + 1) % m \in 0 .. m - 1
  OBVIOUS
<1>2. x = ((x \div m) * m) + (x % m) /\ x \div m \in Int
  OBVIOUS
<1>3. x + 1 = (((x + 1) \div m) * m) + ((x + 1) % m) /\ (x + 1) \div m \in Int
  OBVIOUS
<1>4. SUFFICES ASSUME (x + 1) % m = 0 PROVE FALSE
  OBVIOUS
<1>5. PICK q \in Int, p \in Int, r \in 0 .. m - 1 : x = (q * m) + r /\ x + 1 = p * m /\ r + 1 < m
  <2>1. x + 1 = ((x + 1) \div m) * m
    BY <1>3, <1>4
  <2> QED BY <1>1, <1>2, <1>3, <2>1
<1>6. (p - q) * m = r + 1
  BY <1>5
<1>7. CASE p - q <= 0
  <2>1. (p - q) * m <= 0
    BY <1>7, <1>5
  <2> QED BY <2>1, <1>5, <1>6
<1>8. CASE p - q >= 1
  <2>1. (p - q) * m >= m
    BY <1>8, <1>5
  <2> QED BY <2>1, <1>5, <1>6
<1> QED BY <1>5, <1>7, <1>8

LEMMA SubDirectory ==
  ASSUME NEW d \in AllDirs, NEW n \in DirNames, Len(d) < MaxDepth
  PROVE  Append(d, n) \in AllDirs
<1>1. PICK k \in 0 .. MaxDepth : d \in [1 .. k -> DirNames]
  BY DEF AllDirs
<1>2. d \in Seq(DirNames) /\ k \in Nat /\ Len(d) = k /\ MaxDepth \in Nat
  BY <1>1, WorkspaceAssumption
<1>3. Append(d, n) \in [1 .. k + 1 -> DirNames] /\ k + 1 \in 0 .. MaxDepth
  <2>1. Append(d, n) \in Seq(DirNames) /\ Len(Append(d, n)) = k + 1
    BY <1>2
  <2>2. Append(d, n) \in [1 .. Len(Append(d, n)) -> DirNames]
    BY <2>1, LenProperties
  <2> QED BY <1>2, <2>1, <2>2
<1> QED BY <1>3 DEF AllDirs

-----------------------------------------------------------------------------
(* What the user sees: the steps of Desk.                                   *)

DeskStep == D!Next \/ UNCHANGED <<DeskText, own, Shelf, agreed, Phase, Spare, astray>>

\* The steps in which the text is not on the desk.
Out == {"run.go", "run.end", "run.home", "run.load", "start"}
SeenText == IF Now \in Out \ {"start"} THEN held
            ELSE IF Now = "start" THEN IF workdir \in dirs THEN LoadsTemp(workdir) ELSE Empty
            ELSE text
SeenPhase == IF Now \in {"run.go", "run.end"} THEN "running"
             ELSE IF Now \in {"run.home", "run.load"} THEN "returning" ELSE "desk"

LEMMA SeenNow == Stack => DeskText = SeenText /\ Phase = SeenPhase
<1> SUFFICES ASSUME Stack PROVE DeskText = SeenText /\ Phase = SeenPhase
  OBVIOUS
<1>1. Busy <=> Now \in {"run.go", "run.end", "run.home", "run.load"}
  BY DEF Busy, Now
<1>2. \A x \in {"run.go", "run.end", "start"} : Is(x) <=> Now = x
  <2>1. CASE Is("retry")
    <3>1. Now \in MayFail
      BY <2>1, Asks
    <3> QED BY <2>1, <3>1 DEF MayFail, Is
  <2>2. CASE ~Is("retry")
    BY <2>2 DEF Now, Is
  <2> QED BY <2>1, <2>2
<1> QED BY <1>1, <1>2 DEF DeskText, Phase, SeenText, SeenPhase, Out

LEMMA SeenThen == Stack' => DeskText' = SeenText' /\ Phase' = SeenPhase'
<1>1. (Stack => DeskText = SeenText /\ Phase = SeenPhase)'
  BY SeenNow, PTL
<1> QED BY <1>1

LEMMA OnTheDesk ==
  ASSUME Stack, Stack', Now \notin Out, Now' \notin Out
  PROVE  DeskText = text /\ DeskText' = text' /\ Phase = "desk" /\ Phase' = "desk"
BY SeenNow, SeenThen DEF SeenText, SeenPhase, Out

LEMMA SameFiles ==
  ASSUME UNCHANGED disk
  PROVE  UNCHANGED <<Shelf, Spare>>
BY DEF Shelf, Spare, On

LEMMA Stutters ==
  ASSUME Stack, Stack', UNCHANGED <<disk, own, agreed, astray>>,
         \/ Now \notin Out /\ Now' \notin Out /\ text' = text
         \/ Now' = Now /\ UNCHANGED <<text, held, workdir, dirs>>
         \/ Now = "run.go" /\ Now' = "run.end" /\ held' = held
         \/ Now = "run.home" /\ Now' = "run.load" /\ held' = held
         \/ Now \in {"run.home", "run.load"} /\ Now' = Now /\ held' = held
  PROVE  DeskStep
<1>1. UNCHANGED <<Shelf, Spare>>
  BY SameFiles
<1>2. DeskText = SeenText /\ Phase = SeenPhase /\ DeskText' = SeenText' /\ Phase' = SeenPhase'
  BY SeenNow, SeenThen
<1>3. UNCHANGED <<DeskText, Phase>>
  BY <1>2 DEF SeenText, SeenPhase, Out, LoadsTemp
<1> QED BY <1>1, <1>3 DEF DeskStep

LEMMA Writes ==
  ASSUME Stack, Stack', Now \notin Out, Now' \notin Out, UNCHANGED <<disk, own, agreed, astray>>, text' \in Texts
  PROVE  DeskStep
BY OnTheDesk, SameFiles DEF DeskStep, D!Next, D!Write, D!AtDesk

LEMMA Agrees ==
  ASSUME Stack, Stack', Now \notin Out, Now' \notin Out, UNCHANGED <<disk, own, text, astray>>,
         agreed' \in AllPaths \/ agreed' = agreed
  PROVE  DeskStep
BY OnTheDesk, SameFiles DEF DeskStep, D!Next, D!Agree, D!AtDesk

LEMMA Opens ==
  ASSUME Stack, Stack', Now \notin Out, Now' \notin Out, UNCHANGED <<own, text, agreed, astray>>,
         NEW p \in AllPaths, p \in {own, agreed} \/ astray, disk' = With(p, Torn)
  PROVE  DeskStep
<1>1. Shelf' = [Shelf EXCEPT ![p] = Torn]
  BY DEF Shelf, On, With
<1>2. p[2] # TempFile
  BY WorkspaceAssumption DEF AllPaths
<1>3. Spare' = Spare
  <2>1. \A q : q \in DOMAIN disk' /\ q[2] = TempFile <=> q \in DOMAIN disk /\ q[2] = TempFile
    BY <1>2 DEF With
  <2>2. \A q \in DOMAIN disk : q[2] = TempFile => disk'[q] = disk[q]
    BY <1>2 DEF With
  <2> QED BY <2>1, <2>2 DEF Spare
<1> QED BY <1>1, <1>3, OnTheDesk DEF DeskStep, D!Next, D!Open, D!AtDesk

LEMMA Closes ==
  ASSUME Stack, Stack', Now \notin Out, Now' \notin Out, UNCHANGED text,
         NEW p \in AllPaths, p \in {own, agreed} \/ astray, p \in DOMAIN disk, disk[p] = Torn,
         NEW d, d[2] = TempFile,
         disk' = [q \in DOMAIN disk \ {d} |-> IF q = p THEN text ELSE disk[q]],
         own' = p, agreed' = Nowhere, astray' = FALSE
  PROVE  DeskStep
<1>1. p[2] # TempFile /\ \A q \in AllPaths : q[2] # TempFile
  BY WorkspaceAssumption DEF AllPaths
<1>2. Shelf' = [Shelf EXCEPT ![p] = text] /\ Shelf[p] = Torn
  BY <1>1 DEF Shelf, On
<1>3. Spare' \subseteq Spare
  BY <1>1 DEF Spare
<1> QED BY <1>2, <1>3, OnTheDesk DEF DeskStep, D!Next, D!Close, D!AtDesk

LEMMA Takes ==
  ASSUME Stack, Stack', Now \notin Out, Now' \notin Out, UNCHANGED <<disk, agreed>>,
         NEW p \in AllPaths, own' = p, astray' = FALSE, text' = Empty \/ (On(p) /\ text' = disk[p])
  PROVE  DeskStep
<1>1. text' \in {Shelf[p], Empty}
  BY DEF Shelf
<1> QED BY <1>1, OnTheDesk, SameFiles DEF DeskStep, D!Next, D!Take, D!AtDesk

LEMMA Clears ==
  ASSUME Stack, Stack', Now \notin Out, Now' \notin Out, UNCHANGED <<disk, agreed>>,
         text' = Empty, own' = Nowhere, astray' = FALSE
  PROVE  DeskStep
BY OnTheDesk, SameFiles DEF DeskStep, D!Next, D!New, D!AtDesk

\* Only what is put by changes on the card.
LEMMA Spares ==
  ASSUME NEW t, NEW d, d[2] = TempFile, disk' = With(d, t)
  PROVE  Shelf' = Shelf /\ Spare' \subseteq Spare \cup {t}
<1>1. \A q \in AllPaths : q[2] # TempFile
  BY WorkspaceAssumption DEF AllPaths
<1> QED BY <1>1 DEF Shelf, Spare, On, With

LEMMA Forgets ==
  ASSUME NEW d, d[2] = TempFile, disk' = Without(d)
  PROVE  Shelf' = Shelf /\ Spare' \subseteq Spare
<1>1. \A q \in AllPaths : q[2] # TempFile
  BY WorkspaceAssumption DEF AllPaths
<1> QED BY <1>1 DEF Shelf, Spare, On, Without

LEMMA Prepares ==
  ASSUME Stack, Stack', Now \notin Out, Now' \notin Out, UNCHANGED <<text, own, agreed, astray>>,
         Shelf' = Shelf, Spare' \subseteq Spare \cup {Torn}
  PROVE  DeskStep
BY OnTheDesk DEF DeskStep, D!Next, D!Prepare, D!AtDesk

\* From here on no file is the text's own for certain.
LEMMA GoesAstray ==
  ASSUME Stack, Stack', Now \notin Out, Now' \notin Out, astray' = TRUE,
         Shelf' = Shelf, Spare' \subseteq Spare, text' \in Spare \cup {text}
  PROVE  DeskStep
BY OnTheDesk DEF DeskStep, D!Next, D!Stray, D!AtDesk

-----------------------------------------------------------------------------
(* What a step does to the data, command by command.                        *)

\* A file of the directory is one of the paths of Desk.
LEMMA PathOf ==
  ASSUME NEW d \in AllDirs, NEW n \in Names
  PROVE  <<d, n>> \in AllPaths
BY DEF AllPaths

LEMMA InitHolds == Init => IInv
<1> SUFFICES ASSUME Init PROVE IInv
  OBVIOUS
<1>1. Stack /\ Now = "edit"
  <2>1. at = <<"edit">> \o << >> /\ at = <<"edit">>
    BY DEF Init
  <2>2. "edit" \in Steps /\ << >> \in Callers("edit")
    BY DEF Steps, Callers
  <2> QED BY <2>1, <2>2 DEF Stack, Now, Is
<1>2. Root \in AllDirs
  <2>1. Root \in [1 .. 0 -> DirNames] /\ 0 \in 0 .. MaxDepth
    BY WorkspaceAssumption DEF Root
  <2> QED BY <2>1 DEF AllDirs
<1>3. dirs \subseteq AllDirs /\ Root \in dirs
  BY <1>2, WorkspaceAssumption DEF Init
<1>4. Types
  <2>1. Empty \notin Huge
    BY WorkspaceAssumption
  <2>2. \A p \in DOMAIN disk : p[2] = TempFile => disk[p] \notin Huge
    BY WorkspaceAssumption DEF Init
  <2>3. cwdpath \in dirs /\ cwd \in dirs /\ Now # "start"
    BY <1>1, <1>3 DEF Init
  <2>4. f \in Int /\ top \in Int /\ mx \in {1, Columns} /\ typed \in Nat
    BY DEF Init
  <2>5. text \notin Huge /\ currentfile = NoName /\ ow \in BOOLEAN /\ astray = FALSE
    BY <2>1 DEF Init
  <2>6. currentfile # TempFile
    BY <2>5, WorkspaceAssumption
  <2> QED BY <1>3, <2>2, <2>3, <2>4, <2>5, <2>6 DEF Types
<1>5. Home /\ Target /\ Kept /\ Shown
  BY <1>1 DEF Init, Home, Target, Kept, Shown, Gone, Choosing, Writing
<1> QED BY <1>1, <1>4, <1>5 DEF IInv

LEMMA KeysStep ==
  ASSUME IInv, Type \/ SaveKey \/ NewKey \/ LoadKey \/ RunKey
  PROVE  IInv'
<1> USE DEF IInv, editor, names, card, list, count, seen, NoChange, AtHome, Away, Gone, NewSteps, SaveSteps, Choosing, Writing
<1>1. Stack /\ Now = "edit" /\ at = Edit
  <2>1. at = <<"edit">> /\ "edit" \in Steps
    BY DEF Type, SaveKey, NewKey, LoadKey, RunKey, Editing, Steps
  <2>2. Is("edit")
    BY <2>1 DEF Is
  <2> QED BY <2>1, <2>2, Stands DEF Edit
<1>2. CASE Type
  <2>1. Stack' /\ Now' = "edit"
    BY <1>1, <1>2 DEF Type, Stack, Now, Is
  <2>2. text' \notin Huge
    BY <1>2, WorkspaceAssumption DEF Type, Types, ToSet
  <2>3. Types'
    BY <1>1, <1>2, <2>1, <2>2 DEF Type, Types
  <2>4. Home' /\ Target' /\ Kept' /\ Shown'
    BY <1>1, <1>2, <2>1 DEF Type, Home, Target, Kept, Shown
  <2> QED BY <2>1, <2>3, <2>4
<1>3. CASE SaveKey
  <2>1. Stack' /\ Now' = "save.cwd"
    <3>1. at' = <<"save.cwd">> \o Edit
      BY <1>3 DEF SaveKey, Edit
    <3>2. "save.cwd" \in Steps /\ Edit \in Callers("save.cwd")
      BY DEF Steps, Callers, Backs
    <3> QED BY <3>1, <3>2, StandsThen
  <2>2. Types'
    BY <1>1, <1>3, <2>1 DEF SaveKey, SaveAs, Types
  <2>3. Home' /\ Target' /\ Kept' /\ Shown'
    BY <1>1, <1>3, <2>1 DEF SaveKey, SaveAs, Home, Target, Kept, Shown
  <2> QED BY <2>1, <2>2, <2>3
<1>4. CASE NewKey
  <2>1. Stack' /\ Now' \in {"new.sure", "new.clear"}
    <3>1. at' = <<"new.sure">> \o Edit \/ at' = <<"new.clear">> \o Edit
      BY <1>1, <1>4 DEF NewKey, NewText
    <3>2. {"new.sure", "new.clear"} \subseteq Steps /\ Edit \in Callers("new.sure") /\ Edit \in Callers("new.clear")
      BY DEF Steps, Callers
    <3> QED BY <3>1, <3>2, StandsThen
  <2>2. Types'
    BY <1>1, <1>4, <2>1 DEF NewKey, Types
  <2>3. Home' /\ Target' /\ Kept' /\ Shown'
    BY <1>1, <1>4, <2>1 DEF NewKey, Home, Target, Kept, Shown
  <2> QED BY <2>1, <2>2, <2>3
<1>5. CASE LoadKey
  <2>1. Stack' /\ Now' \in {"load.save", "load.cwd"}
    <3>1. at' = <<"load.save">> \o Edit \/ at' = <<"load.cwd">> \o Edit
      BY <1>1, <1>5 DEF LoadKey, Edit
    <3>2. {"load.save", "load.cwd"} \subseteq Steps /\ Edit \in Callers("load.save") /\ Edit \in Callers("load.cwd")
      BY DEF Steps, LoadSteps, Callers
    <3> QED BY <3>1, <3>2, StandsThen
  <2>2. Types'
    BY <1>1, <1>5, <2>1 DEF LoadKey, Types
  <2>3. Home' /\ Target' /\ Kept' /\ Shown'
    BY <1>1, <1>5, <2>1 DEF LoadKey, Home, Target, Kept, Shown
  <2> QED BY <2>1, <2>2, <2>3
<1>6. CASE RunKey
  <2>1. Stack' /\ Now' = "run.root"
    <3>1. at' = <<"run.root">> \o Edit
      BY <1>6 DEF RunKey, Edit
    <3>2. "run.root" \in Steps /\ Edit \in Callers("run.root")
      BY DEF Steps, RunSteps, Callers
    <3> QED BY <3>1, <3>2, StandsThen
  <2>2. Types'
    BY <1>1, <1>6, <2>1 DEF RunKey, Types
  <2>3. Home' /\ Target' /\ Kept' /\ Shown'
    BY <1>1, <1>6, <2>1 DEF RunKey, Home, Target, Kept, Shown
  <2> QED BY <2>1, <2>2, <2>3
<1> QED BY <1>2, <1>3, <1>4, <1>5, <1>6

LEMMA SaveStep ==
  ASSUME IInv, SaveCwd \/ SaveName \/ Overwrite \/ PickForSave \/ SaveWrite \/ SaveWriting
  PROVE  IInv'
<1> USE DEF IInv, editor, names, card, list, count, seen, NoChange, AtHome, Away, Gone, NewSteps, SaveSteps, Choosing, Writing
<1>1. CASE SaveCwd
  <2>1. Stack' /\ Now = "save.cwd" /\ Now' \in {"save.write", "save.name", "save.cwd"}
        /\ (Now' = "save.write" => ow) /\ (Now' = "save.name" => ~ow)
        /\ (Now' # "save.cwd" => cwdpath' = cwd)
    <3>1. CASE cwdpath' = cwd /\ Goto(IF ow THEN "save.write" ELSE "save.name")
      BY <1>1, <3>1, GoesOn DEF SaveCwd, Command
    <3>2. CASE Fail("save.cwd")
      BY <1>1, <3>2, MayAsk DEF SaveCwd, Command, MayFail
    <3> QED BY <1>1, <3>1, <3>2 DEF SaveCwd
  <2>2. typed' = typed
    BY <1>1 DEF SaveCwd, Fail
  <2>3. Types'
    BY <1>1, <2>1, <2>2 DEF SaveCwd, Types
  <2>4. Home' /\ Kept' /\ Shown'
    BY <1>1, <2>1 DEF SaveCwd, Home, Kept, Shown
  <2>5. Target'
    <3>1. UNCHANGED <<cwd, tempfile, currentfile, ow, own, agreed, astray>>
      BY <1>1 DEF SaveCwd
    <3>2. ASSUME Now' = "save.write"
          PROVE  /\ tempfile \in Names \/ (tempfile = TempFile /\ astray)
                 /\ ~astray => Here(tempfile) = own
      <4>1. currentfile # NoName /\ tempfile = currentfile
        BY <2>1, <3>2 DEF Target
      <4>2. tempfile \in Names \/ (tempfile = TempFile /\ astray)
        BY <4>1 DEF Types
      <4>3. ~astray => cwd = own[1] /\ own = <<own[1], currentfile>>
        BY <2>1, <4>1 DEF Home
      <4> QED BY <4>1, <4>2, <4>3 DEF Here
    <3> QED BY <2>1, <3>1, <3>2 DEF Target, Here
  <2> QED BY <2>1, <2>3, <2>4, <2>5
<1>2. CASE SaveName
  <2>1. Stack' /\ Now = "save.name" /\ Now' \in {"save.write", "save.ask", "save.list"}
    BY <1>2, GoesOn DEF SaveName, Name, Command
  <2>2. Types'
    BY <1>2, <2>1 DEF SaveName, Types
  <2>3. Home' /\ Kept' /\ Shown'
    BY <1>2, <2>1 DEF SaveName, Home, Kept, Shown
  <2>4. Target'
    <3>1. Is("save.name") /\ "save.name" # "save.list"
      BY <1>2 DEF SaveName
    <3>2. CASE \E n \in Names : Name(n, cwd, "save.ask")
      <4>1. PICK n \in Names : Name(n, cwd, "save.ask")
        BY <3>2
      <4>2. Now' = IF On(Here(n)) THEN "save.ask" ELSE "save.write"
        BY <1>2, <4>1, <3>1, GoesOn DEF Name, Command
      <4>3. tempfile' = n /\ (~On(Here(n)) => agreed' = <<cwd, n>>) /\ cwd' = cwd /\ ow' = ow
        BY <1>2, <4>1 DEF Name, SaveName
      <4> QED BY <2>1, <4>2, <4>3 DEF Target, Here
    <3>3. CASE Goto("save.list")
      <4>1. Now' = "save.list"
        BY <3>1, <3>3, GoesOn DEF Command
      <4> QED BY <1>2, <2>1, <4>1 DEF SaveName, Target
    <3> QED BY <1>2, <3>2, <3>3 DEF SaveName
  <2> QED BY <2>1, <2>2, <2>3, <2>4
<1>3. CASE Overwrite
  <2>1. Stack' /\ Now \in {"save.ask", "save.ask2"} /\ Now' \in {"save.write", "save.name", "save.list"}
        /\ (Is("save.ask") => Now = "save.ask") /\ (~Is("save.ask") => Now = "save.ask2")
        /\ (Now' = "save.write" => agreed' = <<IF Is("save.ask") THEN cwd ELSE temppath, tempfile>>)
    <3>1. PICK x \in {"save.ask", "save.ask2"} : Is(x)
      BY <1>3 DEF Overwrite
    <3>2. Now = x /\ (Is("save.ask") <=> x = "save.ask")
      BY <3>1, Stands, SameCallers DEF Is
    <3>3. PICK y \in {"save.write", "save.name", "save.list"} : Goto(y)
            /\ (y = "save.write" => agreed' = <<IF Is("save.ask") THEN cwd ELSE temppath, tempfile>>)
      BY <1>3 DEF Overwrite
    <3>4. Stack' /\ Now' = y
      BY <3>1, <3>3, GoesOn DEF Command
    <3> QED BY <3>1, <3>2, <3>3, <3>4
  <2>2. Types'
    BY <1>3, <2>1 DEF Overwrite, Types
  <2>3. Home' /\ Kept' /\ Shown'
    BY <1>3, <2>1 DEF Overwrite, Home, Kept, Shown
  <2>4. Target'
    BY <1>3, <2>1 DEF Overwrite, Target, Here
  <2> QED BY <2>1, <2>2, <2>3, <2>4
<1>4. CASE PickForSave
  <2>1. Is("save.pick") /\ Now = "save.pick"
    BY <1>4, Stands, SameCallers DEF PickForSave
  <2>2. CASE (\E n \in Names : f = -2 /\ Name(n, temppath, "save.ask2")) /\ UNCHANGED astray
    <3>1. PICK n \in Names : Name(n, temppath, "save.ask2")
      BY <2>2
    <3>2. Stack' /\ Now' = IF On(Here(n)) THEN "save.ask2" ELSE "save.write"
      BY <3>1, <2>1, GoesOn DEF Name, Command
    <3>3. tempfile' = n /\ (~On(Here(n)) => agreed' = <<temppath, n>>)
      BY <3>1 DEF Name
    <3>4. Types'
      BY <1>4, <2>1, <2>2, <3>2 DEF PickForSave, Types
    <3>5. Home' /\ Kept' /\ Shown'
      BY <1>4, <2>1, <2>2, <3>2 DEF PickForSave, Home, Kept, Shown
    <3>6. Target'
      BY <1>4, <2>1, <2>2, <3>2, <3>3 DEF PickForSave, Target, Here
    <3> QED BY <3>2, <3>4, <3>5, <3>6
  <2>3. CASE /\ f >= 0 /\ ~IsDir(FileList[f + 1])
             /\ tempfile' = FileList[f + 1] /\ Goto("save.write") /\ agreed' = <<temppath, FileList[f + 1]>>
             /\ astray' = (astray \/ FileList[f + 1] = TempFile)
    <3>1. Stack' /\ Now' = "save.write"
      BY <2>1, <2>3, GoesOn DEF Command
    <3>2. f + 1 \in 1 .. filenum
      BY <2>1, <2>3, FilesListed DEF Types, Shown
    <3>3. tempfile' \in Names \/ (tempfile' = TempFile /\ astray')
      BY <2>3, <3>2, FilesListed DEF Entries, IsDir
    <3>4. Types'
      BY <1>4, <2>1, <2>3, <3>1 DEF PickForSave, Types
    <3>5. Home' /\ Kept' /\ Shown'
      BY <1>4, <2>1, <2>3, <3>1 DEF PickForSave, Home, Kept, Shown
    <3>6. Target'
      BY <1>4, <2>1, <2>3, <3>1, <3>3 DEF PickForSave, Target, Here
    <3> QED BY <3>1, <3>4, <3>5, <3>6
  <2> QED BY <1>4, <2>2, <2>3 DEF PickForSave
<1>5. CASE SaveWrite
  <2>1. Stack' /\ Now = "save.write" /\ Now' \in {"save.writing", "save.write"} /\ typed' = typed
        /\ (Now' = "save.writing" => disk' = With(Here(tempfile), Torn))
        /\ (Now' = "save.write" => UNCHANGED disk)
    <3>1. CASE disk' = With(Here(tempfile), Torn) /\ Goto("save.writing") /\ UNCHANGED count
      BY <1>5, <3>1, GoesOn DEF SaveWrite, Command
    <3>2. CASE Fail("save.write") /\ UNCHANGED disk
      BY <1>5, <3>2, MayAsk DEF SaveWrite, Command, MayFail
    <3> QED BY <1>5, <3>1, <3>2 DEF SaveWrite
  <2>2. \A p \in DOMAIN disk' : p[2] = TempFile => disk'[p] \notin Huge
    BY <2>1, WorkspaceAssumption DEF Types, With
  <2>3. Types'
    BY <1>5, <2>1, <2>2 DEF SaveWrite, Types
  <2>4. Home' /\ Kept' /\ Shown'
    BY <1>5, <2>1 DEF SaveWrite, Home, Kept, Shown
  <2>5. Target'
    BY <1>5, <2>1 DEF SaveWrite, Target, Here, With, On
  <2> QED BY <2>1, <2>3, <2>4, <2>5
<1>6. CASE SaveWriting
  <2>1. Is("save.writing") /\ Now = "save.writing" /\ Here(tempfile) = <<cwd, tempfile>>
        /\ (tempfile \in Names \/ (tempfile = TempFile /\ astray))
    BY <1>6, Stands, SameCallers DEF SaveWriting, Target, Here
  <2>2. CASE /\ disk' = [p \in DOMAIN disk \ {Here(TempFile)} |-> IF p = Here(tempfile) THEN text ELSE disk[p]]
             /\ currentfile' = tempfile /\ cwdpath' = cwd /\ edited' = FALSE
             /\ own' = Here(tempfile) /\ agreed' = Nowhere /\ astray' = (tempfile = TempFile) /\ Return /\ UNCHANGED count
    <3>1. Stack' /\ Now' \in {"edit", "new.clear", "load.cwd"}
      BY <2>1, <2>2, Returns, SameCallers
    <3>2. \A p \in DOMAIN disk' : p[2] = TempFile => disk'[p] \notin Huge
      BY <2>2 DEF Types
    <3>3. Types'
      <4>1. /\ currentfile' \in Names \cup {NoName, TempFile} /\ astray' \in BOOLEAN
            /\ currentfile' = TempFile => astray'
        BY <2>1, <2>2
      <4> QED BY <1>6, <2>1, <2>2, <3>1, <3>2, <4>1 DEF SaveWriting, Types
    <3>4. Home' /\ Kept' /\ Shown' /\ Target'
      BY <1>6, <2>1, <2>2, <3>1 DEF SaveWriting, Home, Kept, Shown, Target
    <3> QED BY <3>1, <3>3, <3>4
  <2>3. CASE /\ Fail("save.write") /\ UNCHANGED <<disk, currentfile, cwdpath, edited, own, agreed, astray>>
    <3>1. Stack' /\ Now' = "save.write" /\ typed' = typed
      BY <2>1, <2>3, MayAsk DEF Command, MayFail
    <3>2. Types'
      BY <1>6, <2>1, <2>3, <3>1 DEF SaveWriting, Types
    <3>3. Home' /\ Kept' /\ Shown'
      BY <1>6, <2>1, <2>3, <3>1 DEF SaveWriting, Home, Kept, Shown
    <3>4. Target'
      BY <1>6, <2>1, <2>3, <3>1 DEF SaveWriting, Target, Here
    <3> QED BY <3>1, <3>2, <3>3, <3>4
  <2> QED BY <1>6, <2>2, <2>3 DEF SaveWriting
<1> QED BY <1>1, <1>2, <1>3, <1>4, <1>5, <1>6

\* The cursor moves.
LEMMA BrowseStep ==
  ASSUME IInv, Browse
  PROVE  IInv'
<1> USE DEF IInv, editor, names, card, count, seen
<1>1. Stack' /\ Now' = Now /\ Now \in {"save.pick", "load.pick"}
  <2>1. Is("save.pick") \/ Is("load.pick")
    BY DEF Browse
  <2>2. Now \in {"save.pick", "load.pick"}
    BY <2>1, Stands, SameCallers DEF SaveSteps, LoadSteps
  <2> QED BY <2>2 DEF Browse, Stack, Now, Is
<1>2. filenum' = filenum /\ filenum \in Nat
  BY FilesListed DEF Browse, filenum, FileList, Listing, Subs, On
<1>3. {Columns, Rows} \subseteq Nat \ {0}
  BY WorkspaceAssumption
<1> DEFINE W == mx' * Rows
<1>4. mx \in Nat \ {0} /\ Page = mx * Rows /\ Page' = W /\ Page \in Nat \ {0} /\ mx <= Page
  BY <1>3 DEF Types, Page
<1>5. f \in Int /\ top \in Int /\ top <= f /\ f < top + Page /\ f < filenum /\ ((top + 2) % mx) = 0
  BY <1>1 DEF Shown, Types
<1>6. /\ ((top + mx) + 2) % mx = 0 /\ ((top - mx) + 2) % mx = 0
      /\ ((top + Page) + 2) % mx = 0 /\ ((top - Page) + 2) % mx = 0
  <2>1. /\ ((top + 2) + mx) % mx = 0 /\ ((top + 2) - mx) % mx = 0
        /\ ((top + 2) + (mx * Rows)) % mx = 0 /\ ((top + 2) - (mx * Rows)) % mx = 0
    <3>1. top + 2 \in Int /\ Rows \in Nat
      BY <1>3, <1>5
    <3> QED BY <3>1, <1>4, <1>5, WholeLines
  <2>2. /\ (top + mx) + 2 = (top + 2) + mx /\ (top - mx) + 2 = (top + 2) - mx
        /\ (top + Page) + 2 = (top + 2) + Page /\ (top - Page) + 2 = (top + 2) - Page
    BY <1>4, <1>5
  <2> QED BY <2>1, <2>2, <1>4
<1> HIDE DEF W
<1>7. f' \in Int /\ top' \in Int /\ mx' \in {1, Columns}
      /\ top' <= f' /\ f' < top' + Page' /\ f' < filenum /\ ((top' + 2) % mx') = 0
  <2> DEFINE Goal == f' \in Int /\ top' \in Int /\ mx' \in {1, Columns}
                     /\ top' <= f' /\ f' < top' + Page' /\ f' < filenum /\ ((top' + 2) % mx') = 0
  <2>0. ASSUME UNCHANGED mx PROVE Page' = Page /\ mx' \in {1, Columns} /\ mx' = mx
    BY <2>0 DEF Page, Types
  <2>1. CASE KeyUp
    BY <1>2, <1>4, <1>5, <1>6, <2>0, <2>1 DEF KeyUp
  <2>2. CASE KeyDown
    BY <1>2, <1>4, <1>5, <1>6, <2>0, <2>2 DEF KeyDown, Clip
  <2>3. CASE KeyPrior
    <3>1. (0 % mx) = 0
      BY <1>4
    <3> QED BY <1>2, <1>4, <1>5, <1>6, <2>0, <2>3, <3>1 DEF KeyPrior, NotAbove
  <2>4. CASE KeyNext
    BY <1>2, <1>4, <1>5, <1>6, <2>0, <2>4 DEF KeyNext, Clip
  <2>5. CASE KeyLeft
    <3>1. f # top
      BY <1>5, <2>5 DEF KeyLeft
    <3> QED BY <1>2, <1>4, <1>5, <2>0, <2>5, <3>1 DEF KeyLeft
  <2>6. CASE KeyRight
    <3>1. f + 1 # top + Page
      <4>1. SUFFICES ASSUME f + 1 = top + Page PROVE FALSE
        OBVIOUS
      <4>2. (top + Page) + 2 = (f + 2) + 1 /\ f + 2 \in Int
        BY <1>4, <1>5, <4>1
      <4>3. ((f + 2) + 1) % mx = 0
        BY <1>6, <4>2
      <4>4. ((f + 2) % mx) + 1 < mx
        BY <2>6 DEF KeyRight
      <4> QED BY <4>2, <4>3, <4>4, <1>4, NextColumn
    <3> QED BY <1>2, <1>4, <1>5, <2>0, <2>6, <3>1 DEF KeyRight
  <2>7. CASE KeyF1 \/ KeyF3
    <3>1. mx' \in {1, Columns} /\ f' = -2 /\ top' = -2
      BY <2>7, <1>3 DEF KeyF1, KeyF3, Types
    <3>2. mx' \in Nat \ {0} /\ Page' \in Nat \ {0}
      BY <3>1, <1>3 DEF Page
    <3>3. PICK m \in Nat \ {0} : m = mx'
      BY <3>2
    <3>4. 0 % m = 0
      OBVIOUS
    <3>5. PICK t \in Int : t = top' /\ t = -2
      BY <3>1
    <3>6. t + 2 = 0
      BY <3>5
    <3>7. (top' + 2) % mx' = 0
      BY <3>3, <3>4, <3>5, <3>6
    <3>8. top' <= f' /\ f' < top' + Page' /\ f' < filenum
      <4>1. PICK p \in Nat \ {0} : p = Page'
        BY <3>2
      <4>2. -2 <= -2 /\ -2 < -2 + p /\ -2 < filenum
        BY <1>2
      <4> QED BY <3>1, <4>1, <4>2
    <3>9. f' \in Int /\ top' \in Int
      BY <3>1
    <3> QED BY <3>1, <3>7, <3>8, <3>9
  <2> QED BY <2>1, <2>2, <2>3, <2>4, <2>5, <2>6, <2>7 DEF Browse
<1>8. Types'
  BY <1>1, <1>7 DEF Browse, Types
<1>9. Home' /\ Kept' /\ Target'
  BY <1>1 DEF Browse, Home, Kept, Target, PutBy, On, Here
<1>10. Shown'
  BY <1>2, <1>7 DEF Shown
<1> QED BY <1>1, <1>8, <1>9, <1>10

LEMMA ListStep ==
  ASSUME IInv, NEW step \in {"save.list", "load.list"},
         GetFileList(step, IF step = "save.list" THEN "save.pick" ELSE "load.pick")
         \/ ChangeDir \/ PickNone
  PROVE  IInv'
<1> USE DEF IInv, editor, names, card, list, count, seen, AtHome, Away, Gone, NewSteps, SaveSteps, Choosing, Writing
<1> DEFINE pick == IF step = "save.list" THEN "save.pick" ELSE "load.pick"
<1>1. CASE GetFileList(step, pick)
  <2>1. Is(step) /\ Now = step
    BY <1>1, Stands, SameCallers DEF GetFileList, LoadSteps
  <2>2. CASE temppath' = cwd /\ Goto(pick) /\ f' = -2 /\ top' = -2 /\ UNCHANGED count
    <3>1. Stack' /\ Now' = pick
      BY <2>1, <2>2, GoesOn DEF Command, LoadSteps
    <3>2. Types'
      <4>1. f' \in Int /\ top' \in Int
        BY <2>2
      <4> QED BY <1>1, <2>1, <2>2, <3>1, <4>1 DEF GetFileList, Types
    <3>3. Home' /\ Kept' /\ Target'
      BY <1>1, <2>1, <2>2, <3>1 DEF GetFileList, Home, Kept, Target
    <3>4. Shown'
      <4>1. mx \in Nat \ {0} /\ mx' = mx /\ Page' = mx * Rows /\ mx * Rows \in Nat \ {0}
        BY <1>1, WorkspaceAssumption DEF GetFileList, Types, Page
      <4>2. PICK m \in Nat \ {0}, g \in Nat \ {0}, u \in Nat : m = mx' /\ g = Page' /\ u = filenum'
        BY <4>1, FilesListed
      <4>3. 0 % m = 0 /\ -2 + 2 = 0 /\ -2 <= -2 /\ -2 < -2 + g /\ -2 < u
        OBVIOUS
      <4>4. PICK t \in Int : t = top' /\ t = f' /\ t = -2
        BY <2>2
      <4>5. (t + 2) % m = 0 /\ t <= t /\ t < t + g /\ t < u
        BY <4>3, <4>4
      <4> QED BY <4>2, <4>4, <4>5 DEF Shown
    <3> QED BY <3>1, <3>2, <3>3, <3>4
  <2>3. CASE Fail(step) /\ UNCHANGED <<temppath, f, top>>
    <3>1. Stack' /\ Now' = step /\ typed' = typed
      BY <2>1, <2>3, MayAsk DEF Command, LoadSteps, MayFail
    <3>2. Types'
      BY <1>1, <2>1, <2>3, <3>1 DEF GetFileList, Types
    <3>3. Home' /\ Kept' /\ Target' /\ Shown'
      BY <1>1, <2>1, <2>3, <3>1 DEF GetFileList, Home, Kept, Target, Shown
    <3> QED BY <3>1, <3>2, <3>3
  <2> QED BY <1>1, <2>2, <2>3 DEF GetFileList
<1>2. ASSUME ChangeDir \/ PickNone
      PROVE  \E x \in {"save.pick", "load.pick"} : Is(x) /\ Now = x
  <2>1. PICK x \in {"save.pick", "load.pick"} : Is(x)
    BY <1>2 DEF ChangeDir, PickNone
  <2> QED BY <2>1, Stands, SameCallers DEF LoadSteps
<1>3. CASE ChangeDir
  <2>1. PICK x \in {"save.pick", "load.pick"} : Is(x) /\ Now = x
    BY <1>2, <1>3
  <2>2. Stack' /\ Now' = IF x = "save.pick" THEN "save.list" ELSE "load.list"
    BY <1>3, <2>1, GoesOn DEF ChangeDir, Is, Command, LoadSteps
  <2>3. dirs \subseteq dirs' /\ dirs' \subseteq AllDirs
    <3>1. cwd \in AllDirs
      BY DEF Types
    <3> QED BY <1>3, <3>1, SubDirectory DEF ChangeDir, Types
  <2>4. cwd' \in dirs'
    BY <1>3, <2>3 DEF ChangeDir, Types, Enters
  <2>5. Types'
    BY <1>3, <2>1, <2>2, <2>3, <2>4 DEF ChangeDir, Types
  <2>6. Home' /\ Kept' /\ Target' /\ Shown'
    BY <1>3, <2>1, <2>2 DEF ChangeDir, Home, Kept, Target, Shown
  <2> QED BY <2>2, <2>5, <2>6
<1>4. CASE PickNone
  <2>1. PICK x \in {"save.pick", "load.pick"} : Is(x) /\ Now = x
    BY <1>2, <1>4
  <2>2. Stack' /\ Now' \in {"edit", "new.clear", "load.cwd"}
    BY <1>4, <2>1, Returns, SameCallers DEF PickNone, LoadSteps
  <2>3. Types'
    BY <1>4, <2>1, <2>2 DEF PickNone, Types
  <2>4. Home' /\ Kept' /\ Target' /\ Shown'
    BY <1>4, <2>1, <2>2 DEF PickNone, Home, Kept, Target, Shown
  <2> QED BY <2>2, <2>3, <2>4
<1> QED BY <1>1, <1>3, <1>4

LEMMA NewStep ==
  ASSUME IInv,
         NewSure \/ SaveFirst("new.save", "new.clear") \/ NewClear
         \/ SaveFirst("load.save", "load.cwd") \/ LoadCwd
  PROVE  IInv'
<1> USE DEF IInv, editor, names, card, list, count, seen, NoChange, AtHome, Away, Gone, NewSteps, SaveSteps, Choosing, Writing
<1>1. CASE NewSure
  <2>1. Stack' /\ Now = "new.sure" /\ Now' \in {"edit", "new.save"}
    <3>1. Is("new.sure") /\ "new.sure" \in Steps
      BY <1>1, SameCallers DEF NewSure
    <3>2. CASE Return
      BY <3>1, <3>2, Returns
    <3>3. CASE Goto("new.save")
      BY <3>1, <3>3, GoesOn DEF Command
    <3> QED BY <1>1, <3>2, <3>3 DEF NewSure
  <2>2. Types'
    BY <1>1, <2>1 DEF NewSure, Types
  <2>3. Home' /\ Kept' /\ Target' /\ Shown'
    BY <1>1, <2>1 DEF NewSure, Home, Kept, Target, Shown
  <2> QED BY <2>1, <2>2, <2>3
<1>2. CASE SaveFirst("new.save", "new.clear") \/ SaveFirst("load.save", "load.cwd")
  <2>1. PICK x \in {"new.save", "load.save"}, y \in {"new.clear", "load.cwd"} :
          SaveFirst(x, y) /\ y = IF x = "new.save" THEN "new.clear" ELSE "load.cwd"
    BY <1>2
  <2>2. Is(x) /\ Callers(x) = {Edit} /\ x \in Steps
    BY <2>1, SameCallers DEF SaveFirst, LoadSteps
  <2>3. CASE SaveAs(FALSE) /\ Call("save.cwd", y)
    <3>1. Stack' /\ Now = x /\ Now' = "save.cwd"
      BY <2>2, <2>3, Calls
    <3>2. Types'
      BY <2>1, <2>3, <3>1 DEF SaveFirst, SaveAs, Types
    <3>3. Home' /\ Kept' /\ Target' /\ Shown'
      BY <2>1, <2>3, <3>1 DEF SaveFirst, SaveAs, Home, Kept, Target, Shown
    <3> QED BY <3>1, <3>2, <3>3
  <2>4. CASE Goto(y) /\ UNCHANGED <<tempfile, ow>>
    <3>1. Stack' /\ Now = x /\ Now' = y
      BY <2>2, <2>4, GoesOn DEF Command, LoadSteps
    <3>2. Types'
      BY <2>1, <2>4, <3>1 DEF SaveFirst, Types
    <3>3. Home' /\ Kept' /\ Target' /\ Shown'
      BY <2>1, <2>4, <3>1 DEF SaveFirst, Home, Kept, Target, Shown
    <3> QED BY <3>1, <3>2, <3>3
  <2> QED BY <2>1, <2>3, <2>4 DEF SaveFirst
<1>3. CASE NewClear
  <2>1. Stack' /\ Now = "new.clear" /\ Now' = "edit"
    BY <1>3, Returns, SameCallers DEF NewClear
  <2>2. Types'
    BY <1>3, <2>1, WorkspaceAssumption DEF NewClear, Types
  <2>3. Home' /\ Kept' /\ Target' /\ Shown'
    BY <1>3, <2>1 DEF NewClear, Home, Kept, Target, Shown
  <2> QED BY <2>1, <2>2, <2>3
<1>4. CASE LoadCwd
  <2>1. Stack' /\ Now = "load.cwd" /\ Now' \in {"load.list", "load.cwd"} /\ typed' = typed
        /\ cwdpath' = (IF Now' = "load.list" THEN cwd ELSE cwdpath)
    <3>1. CASE cwdpath' = cwd /\ Goto("load.list") /\ UNCHANGED count
      BY <1>4, <3>1, GoesOn DEF LoadCwd, Command, LoadSteps
    <3>2. CASE Fail("load.cwd") /\ UNCHANGED cwdpath
      BY <1>4, <3>2, MayAsk DEF LoadCwd, Command, LoadSteps, MayFail
    <3> QED BY <1>4, <3>1, <3>2 DEF LoadCwd
  <2>2. Types'
    BY <1>4, <2>1 DEF LoadCwd, Types
  <2>3. Home' /\ Kept' /\ Target' /\ Shown'
    BY <1>4, <2>1 DEF LoadCwd, Home, Kept, Target, Shown
  <2> QED BY <2>1, <2>2, <2>3
<1> QED BY <1>1, <1>2, <1>3, <1>4

LEMMA LoadStep ==
  ASSUME IInv, PickForLoad
  PROVE  IInv'
<1> USE DEF IInv, editor, names, card, list, count, seen, AtHome, Away, Gone, NewSteps, SaveSteps, Choosing, Writing
<1>1. Is("load.pick") /\ Now = "load.pick" /\ temppath = cwd
  BY Stands, SameCallers DEF PickForLoad, LoadSteps, Target
<1>2. PICK n \in Loadable :
        /\ tempfile' = n
        /\ \/ On(Here(n)) /\ disk[Here(n)] \notin Huge /\ Loads(Here(n)) /\ Named(n) /\ UNCHANGED count
           \/ /\ On(Here(n)) /\ disk[Here(n)] \in Huge /\ Loads(Here(n)) /\ Goto("load.list")
              /\ UNCHANGED <<currentfile, cwdpath, own, astray, count>>
           \/ /\ On(Here(n)) => faults < MaxFaults
              /\ faults' = (IF On(Here(n)) THEN faults + 1 ELSE faults) /\ UNCHANGED <<typed, cuts>>
              /\ IF f = -2 THEN text' = Empty /\ edited' = FALSE /\ Named(n)
                 ELSE Goto("load.list") /\ UNCHANGED <<editor, own, astray>>
  BY DEF PickForLoad
<1>3. n \in Names \cup {TempFile}
  <2>1. CASE f = -2
    BY <1>2, <2>1 DEF Loadable
  <2>2. CASE f # -2
    BY <1>2, <2>2, FilesListed DEF Loadable, Entries, IsDir
  <2> QED BY <2>1, <2>2
<1>4. Empty \notin Huge
  BY WorkspaceAssumption
<1>5. typed' = typed /\ text' \notin Huge
  BY <1>2, <1>4 DEF Loads, Types
<1>6. CASE Named(n)
  <2>1. Stack' /\ Now' = "edit"
    BY <1>1, <1>6, Returns, SameCallers DEF Named, LoadSteps
  <2>2. Types'
    BY <1>3, <1>5, <1>6, <2>1 DEF PickForLoad, Named, Types
  <2>3. Home' /\ Kept' /\ Target' /\ Shown'
    BY <1>1, <1>3, <1>6, <2>1 DEF PickForLoad, Named, Home, Kept, Target, Shown
  <2> QED BY <2>1, <2>2, <2>3
<1>7. CASE Goto("load.list") /\ UNCHANGED <<currentfile, cwdpath, own, astray>>
  <2>1. Stack' /\ Now' = "load.list"
    BY <1>1, <1>7, GoesOn DEF Command, LoadSteps
  <2>2. Types'
    BY <1>1, <1>5, <1>7, <2>1 DEF PickForLoad, Types
  <2>3. Home' /\ Kept' /\ Target' /\ Shown'
    BY <1>1, <1>7, <2>1 DEF PickForLoad, Home, Kept, Target, Shown
  <2> QED BY <2>1, <2>2, <2>3
<1> QED BY <1>2, <1>6, <1>7

-----------------------------------------------------------------------------
(* Running a program.                                                       *)

LEMMA RunStep ==
  ASSUME IInv, Run
  PROVE  IInv'
<1> USE DEF IInv, NoNames, editor, names, card, list, count, seen, AtHome, Away, Gone, NewSteps, SaveSteps, Choosing, Writing
<1>1. CASE RunRoot
  <2>1. Is("run.root") /\ Now = "run.root"
    BY <1>1, Stands, SameCallers DEF RunRoot, RunSteps
  <2>2. CASE cwd' = Root /\ workdir' = Root /\ Goto("run.path") /\ UNCHANGED count
    <3>1. Stack' /\ Now' = "run.path"
      BY <2>1, <2>2, GoesOn DEF Command, RunSteps
    <3>2. Types'
      BY <1>1, <2>1, <2>2, <3>1 DEF RunRoot, Types
    <3>3. Home' /\ Target' /\ Shown'
      BY <1>1, <2>1, <2>2, <3>1 DEF RunRoot, Home, Target, Shown, Kept
    <3>4. Kept'
      BY <1>1, <2>1, <2>2, <3>1 DEF RunRoot, Kept, Types, PutBy, On, With, Here
    <3> QED BY <3>1, <3>2, <3>3, <3>4
  <2>3. CASE Fail("run.root") /\ UNCHANGED <<cwd, workdir>>
    <3>1. Stack' /\ Now' = "run.root" /\ typed' = typed
      BY <2>1, <2>3, MayAsk DEF Command, RunSteps, MayFail
    <3>2. Types'
      BY <1>1, <2>1, <2>3, <3>1 DEF RunRoot, Types
    <3>3. Home' /\ Target' /\ Shown'
      BY <1>1, <2>1, <2>3, <3>1 DEF RunRoot, Home, Target, Shown, Kept
    <3>4. Kept'
      BY <1>1, <2>1, <2>3, <3>1 DEF RunRoot, Kept, Types, PutBy, On, With, Here
    <3> QED BY <3>1, <3>2, <3>3, <3>4
  <2>4. CASE cwd' = Root /\ Fail("run.path") /\ UNCHANGED workdir
    <3>1. Stack' /\ Now' = "run.path" /\ typed' = typed
      BY <2>1, <2>4, MayAsk DEF Command, RunSteps, MayFail
    <3>2. Types'
      BY <1>1, <2>1, <2>4, <3>1 DEF RunRoot, Types
    <3>3. Home' /\ Target' /\ Shown'
      BY <1>1, <2>1, <2>4, <3>1 DEF RunRoot, Home, Target, Shown, Kept
    <3>4. Kept'
      BY <1>1, <2>1, <2>4, <3>1 DEF RunRoot, Kept, Types, PutBy, On, With, Here
    <3> QED BY <3>1, <3>2, <3>3, <3>4
  <2> QED BY <1>1, <2>2, <2>3, <2>4 DEF RunRoot
<1>2. CASE RunPath
  <2>1. Is("run.path") /\ Now = "run.path"
    BY <1>2, Stands, SameCallers DEF RunPath, RunSteps
  <2>2. CASE workdir' = cwdpath /\ Goto("run.back") /\ UNCHANGED count
    <3>1. Stack' /\ Now' = "run.back"
      BY <2>1, <2>2, GoesOn DEF Command, RunSteps
    <3>2. Types'
      BY <1>2, <2>1, <2>2, <3>1 DEF RunPath, Types
    <3>3. Home' /\ Target' /\ Shown'
      BY <1>2, <2>1, <2>2, <3>1 DEF RunPath, Home, Target, Shown, Kept
    <3>4. Kept'
      BY <1>2, <2>1, <2>2, <3>1 DEF RunPath, Kept, Types, PutBy, On, With, Here
    <3> QED BY <3>1, <3>2, <3>3, <3>4
  <2>3. CASE workdir' = NoDir /\ Fail("run.path")
    <3>1. Stack' /\ Now' = "run.path" /\ typed' = typed
      BY <2>1, <2>3, MayAsk DEF Command, RunSteps, MayFail
    <3>2. Types'
      BY <1>2, <2>1, <2>3, <3>1 DEF RunPath, Types
    <3>3. Home' /\ Target' /\ Shown'
      BY <1>2, <2>1, <2>3, <3>1 DEF RunPath, Home, Target, Shown, Kept
    <3>4. Kept'
      BY <1>2, <2>1, <2>3, <3>1 DEF RunPath, Kept, Types, PutBy, On, With, Here
    <3> QED BY <3>1, <3>2, <3>3, <3>4
  <2> QED BY <1>2, <2>2, <2>3 DEF RunPath
<1>3. CASE RunBack
  <2>1. Is("run.back") /\ Now = "run.back"
    BY <1>3, Stands, SameCallers DEF RunBack, RunSteps
  <2>2. CASE cwd' = cwdpath /\ disk' = With(<<cwdpath, TempFile>>, Torn) /\ Goto("run.temp") /\ UNCHANGED count
    <3>1. Stack' /\ Now' = "run.temp"
      BY <2>1, <2>2, GoesOn DEF Command, RunSteps
    <3>2. \A p \in DOMAIN disk' : p[2] = TempFile => disk'[p] \notin Huge
      BY <1>3, <2>1, <2>2, <3>1, WorkspaceAssumption DEF RunBack, Types, With, Without
    <3>3. Types'
      BY <1>3, <2>1, <2>2, <3>1, <3>2 DEF RunBack, Types
    <3>4. Home' /\ Target' /\ Shown'
      BY <1>3, <2>1, <2>2, <3>1 DEF RunBack, Home, Target, Shown, Kept
    <3>5. Kept'
      BY <1>3, <2>1, <2>2, <3>1 DEF RunBack, Kept, Types, PutBy, On, With, Here
    <3> QED BY <3>1, <3>3, <3>4, <3>5
  <2>3. CASE Fail("run.back") /\ UNCHANGED <<cwd, disk>>
    <3>1. Stack' /\ Now' = "run.back" /\ typed' = typed
      BY <2>1, <2>3, MayAsk DEF Command, RunSteps, MayFail
    <3>2. Types'
      BY <1>3, <2>1, <2>3, <3>1 DEF RunBack, Types
    <3>3. Home' /\ Target' /\ Shown'
      BY <1>3, <2>1, <2>3, <3>1 DEF RunBack, Home, Target, Shown, Kept
    <3>4. Kept'
      BY <1>3, <2>1, <2>3, <3>1 DEF RunBack, Kept, Types, PutBy, On, With, Here
    <3> QED BY <3>1, <3>2, <3>3, <3>4
  <2>4. CASE cwd' = cwdpath /\ Fail("run.back") /\ UNCHANGED disk
    <3>1. Stack' /\ Now' = "run.back" /\ typed' = typed
      BY <2>1, <2>4, MayAsk DEF Command, RunSteps, MayFail
    <3>2. Types'
      BY <1>3, <2>1, <2>4, <3>1 DEF RunBack, Types
    <3>3. Home' /\ Target' /\ Shown'
      BY <1>3, <2>1, <2>4, <3>1 DEF RunBack, Home, Target, Shown, Kept
    <3>4. Kept'
      BY <1>3, <2>1, <2>4, <3>1 DEF RunBack, Kept, Types, PutBy, On, With, Here
    <3> QED BY <3>1, <3>2, <3>3, <3>4
  <2> QED BY <1>3, <2>2, <2>3, <2>4 DEF RunBack
<1>4. CASE RunTemp
  <2>1. Is("run.temp") /\ Now = "run.temp"
    BY <1>4, Stands, SameCallers DEF RunTemp, RunSteps
  <2>2. CASE disk' = With(Here(TempFile), text) /\ edited1' = edited /\ held' = text /\ Goto("run.go") /\ UNCHANGED count
    <3>1. Stack' /\ Now' = "run.go"
      BY <2>1, <2>2, GoesOn DEF Command, RunSteps
    <3>2. \A p \in DOMAIN disk' : p[2] = TempFile => disk'[p] \notin Huge
      BY <1>4, <2>1, <2>2, <3>1, WorkspaceAssumption DEF RunTemp, Types, With, Without
    <3>3. Types'
      BY <1>4, <2>1, <2>2, <3>1, <3>2 DEF RunTemp, Types
    <3>4. Home' /\ Target' /\ Shown'
      BY <1>4, <2>1, <2>2, <3>1 DEF RunTemp, Home, Target, Shown, Kept
    <3>5. Kept'
      BY <1>4, <2>1, <2>2, <3>1 DEF RunTemp, Kept, Types, PutBy, On, With, Here
    <3> QED BY <3>1, <3>3, <3>4, <3>5
  <2>3. CASE Fail("run.back") /\ UNCHANGED <<disk, edited1, held>>
    <3>1. Stack' /\ Now' = "run.back" /\ typed' = typed
      BY <2>1, <2>3, MayAsk DEF Command, RunSteps, MayFail
    <3>2. Types'
      BY <1>4, <2>1, <2>3, <3>1 DEF RunTemp, Types
    <3>3. Home' /\ Target' /\ Shown'
      BY <1>4, <2>1, <2>3, <3>1 DEF RunTemp, Home, Target, Shown, Kept
    <3>4. Kept'
      BY <1>4, <2>1, <2>3, <3>1 DEF RunTemp, Kept, Types, PutBy, On, With, Here
    <3> QED BY <3>1, <3>2, <3>3, <3>4
  <2> QED BY <1>4, <2>2, <2>3 DEF RunTemp
<1>5. CASE RunGo
  <2>1. Is("run.go") /\ Now = "run.go"
    BY <1>5, Stands, SameCallers DEF RunGo, RunSteps
  <2>2. Stack' /\ Now' = "run.end"
    BY <1>5, <2>1, GoesOn DEF Command, RunSteps, RunGo
  <2>3. Types'
    BY <1>5, <2>1, <2>2, WorkspaceAssumption DEF RunGo, Types
  <2>4. Home' /\ Target' /\ Shown'
    BY <1>5, <2>1, <2>2 DEF RunGo, Home, Target, Shown, Kept
  <2>5. Kept'
    BY <1>5, <2>1, <2>2 DEF RunGo, Kept, Types, PutBy, On, With, Here
  <2> QED BY <2>2, <2>3, <2>4, <2>5
<1>6. CASE RunEnd
  <2>1. Is("run.end") /\ Now = "run.end"
    BY <1>6, Stands, SameCallers DEF RunEnd, RunSteps
  <2>2. Stack' /\ Now' = "run.home"
    BY <1>6, <2>1, GoesOn DEF Command, RunSteps, RunEnd
  <2>3. Types'
    BY <1>6, <2>1, <2>2 DEF RunEnd, Types
  <2>4. Home' /\ Target' /\ Shown'
    BY <1>6, <2>1, <2>2 DEF RunEnd, Home, Target, Shown, Kept
  <2>5. Kept'
    BY <1>6, <2>1, <2>2 DEF RunEnd, Kept, Types, PutBy, On, With, Here
  <2> QED BY <2>2, <2>3, <2>4, <2>5
<1>7. CASE RunHome
  <2>1. Is("run.home") /\ Now = "run.home"
    BY <1>7, Stands, SameCallers DEF RunHome, RunSteps
  <2>2. CASE cwd' = Root /\ cwdpath' = workdir /\ workdir' = NoDir /\ Goto("run.load") /\ UNCHANGED count
    <3>1. Stack' /\ Now' = "run.load"
      BY <2>1, <2>2, GoesOn DEF Command, RunSteps
    <3>2. Types'
      BY <1>7, <2>1, <2>2, <3>1 DEF RunHome, Types, Kept
    <3>3. Home' /\ Target' /\ Shown'
      BY <1>7, <2>1, <2>2, <3>1 DEF RunHome, Home, Target, Shown, Kept
    <3>4. Kept'
      BY <1>7, <2>1, <2>2, <3>1 DEF RunHome, Kept, Types, PutBy, On, With, Here
    <3> QED BY <3>1, <3>2, <3>3, <3>4
  <2>3. CASE cwd' \in {cwd, Root} /\ Fail("run.home") /\ UNCHANGED <<cwdpath, workdir>>
    <3>1. Stack' /\ Now' = "run.home" /\ typed' = typed
      BY <2>1, <2>3, MayAsk DEF Command, RunSteps, MayFail
    <3>2. Types'
      BY <1>7, <2>1, <2>3, <3>1 DEF RunHome, Types, Kept
    <3>3. Home' /\ Target' /\ Shown'
      BY <1>7, <2>1, <2>3, <3>1 DEF RunHome, Home, Target, Shown, Kept
    <3>4. Kept'
      BY <1>7, <2>1, <2>3, <3>1 DEF RunHome, Kept, Types, PutBy, On, With, Here
    <3> QED BY <3>1, <3>2, <3>3, <3>4
  <2> QED BY <1>7, <2>2, <2>3 DEF RunHome
<1>8. CASE RunLoad
  <2>1. Is("run.load") /\ Now = "run.load"
    BY <1>8, Stands, SameCallers DEF RunLoad, RunSteps
  <2>2. CASE cwd' = cwdpath /\ On(<<cwdpath, TempFile>>) /\ Loads(<<cwdpath, TempFile>>) /\ Goto("run.done") /\ UNCHANGED <<disk, count>>
    <3>1. Stack' /\ Now' = "run.done"
      BY <2>1, <2>2, GoesOn DEF Command, RunSteps
    <3>2. Types'
      BY <1>8, <2>1, <2>2, <3>1, WorkspaceAssumption DEF RunLoad, Loads, Types
    <3>3. Home' /\ Target' /\ Shown'
      BY <1>8, <2>1, <2>2, <3>1 DEF RunLoad, Loads, Home, Target, Shown, Kept
    <3>4. Kept'
      BY <1>8, <2>1, <2>2, <3>1 DEF RunLoad, Loads, Kept, Types, PutBy, On, With, Here
    <3> QED BY <3>1, <3>2, <3>3, <3>4
  <2>3. CASE cwd' \in {cwd, cwdpath} /\ Fail("run.load") /\ UNCHANGED <<text, edited, disk>>
    <3>1. Stack' /\ Now' = "run.load" /\ typed' = typed
      BY <2>1, <2>3, MayAsk DEF Command, RunSteps, MayFail
    <3>2. Types'
      BY <1>8, <2>1, <2>3, <3>1, WorkspaceAssumption DEF RunLoad, Loads, Types
    <3>3. Home' /\ Target' /\ Shown'
      BY <1>8, <2>1, <2>3, <3>1 DEF RunLoad, Loads, Home, Target, Shown, Kept
    <3>4. Kept'
      BY <1>8, <2>1, <2>3, <3>1 DEF RunLoad, Loads, Kept, Types, PutBy, On, With, Here
    <3> QED BY <3>1, <3>2, <3>3, <3>4
  <2> QED BY <1>8, <2>2, <2>3 DEF RunLoad
<1>9. CASE RunDone
  <2>1. Is("run.done") /\ Now = "run.done"
    BY <1>9, Stands, SameCallers DEF RunDone, RunSteps
  <2>2. Stack' /\ Now' = "edit"
    BY <1>9, <2>1, Returns, SameCallers DEF RunSteps, RunDone
  <2>3. \A p \in DOMAIN disk' : p[2] = TempFile => disk'[p] \notin Huge
    BY <1>9, <2>1, <2>2, WorkspaceAssumption DEF RunDone, Types, With, Without
  <2>4. Types'
    BY <1>9, <2>1, <2>2, <2>3 DEF RunDone, Types
  <2>5. Home' /\ Target' /\ Shown'
    BY <1>9, <2>1, <2>2 DEF RunDone, Home, Target, Shown, Kept
  <2>6. Kept'
    BY <1>9, <2>1, <2>2 DEF RunDone, Kept, Types, PutBy, On, With, Here
  <2> QED BY <2>2, <2>4, <2>5, <2>6
<1> QED BY <1>1, <1>2, <1>3, <1>4, <1>5, <1>6, <1>7, <1>8, <1>9 DEF Run

-----------------------------------------------------------------------------
(* Failures, and losses of power.                                           *)

LEMMA RetryStep ==
  ASSUME IInv, Retry
  PROVE  IInv'
<1> USE DEF IInv, editor, names, card, list, count, seen, AtHome, Away, Gone, NewSteps, SaveSteps, Choosing, Writing
<1>1. Is("retry") /\ Now \in MayFail /\ at[2] = Now
  BY Asks DEF Retry
<1>2. PICK b \in Callers(Now) : Tail(at) = <<Now>> \o b /\ SubSeq(at, 3, Len(at)) = b
  BY <1>1, Asks
<1>3. Stack' /\ Now' = IF Now = "save.write" /\ ~ow THEN "save.name" ELSE Now
  <2>1. Now \in Steps /\ "save.name" \in Steps
    BY <1>1, CallersAre, SameCallers
  <2>2. CASE Now = "save.write" /\ ~ow
    <3>1. at' = <<"save.name">> \o b /\ b \in Callers("save.name")
      BY <1>1, <1>2, <2>2, SameCallers DEF Retry
    <3> QED BY <2>1, <2>2, <3>1, StandsThen
  <2>3. CASE ~(Now = "save.write" /\ ~ow)
    <3>1. at' = <<Now>> \o b
      BY <1>1, <1>2, <2>3 DEF Retry
    <3> QED BY <2>1, <2>3, <3>1, StandsThen
  <2> QED BY <2>2, <2>3
<1>4. /\ cwd' = Root /\ astray' = (astray \/ Moves(Now))
      /\ UNCHANGED <<editor, names, edited1, dirs, disk, workdir, list, count, own, agreed, held>>
  BY <1>1 DEF Retry
<1>5. astray' \in BOOLEAN /\ (astray => astray')
      /\ (~astray' => ~astray /\ (currentfile = NoName \/ cwd' = cwd
                                  \/ (Now \notin {"save.cwd", "load.cwd"} /\ ~(Now = "save.write" /\ ow))))
  BY <1>4 DEF Moves, Types
<1>6. Types'
  BY <1>1, <1>3, <1>4, <1>5 DEF Types, MayFail
<1>7. Home'
  BY <1>1, <1>3, <1>4, <1>5 DEF Home, MayFail
<1>8. Target'
  BY <1>1, <1>3, <1>4, <1>5 DEF Target, MayFail, Here
<1>9. Kept' /\ Shown'
  BY <1>1, <1>3, <1>4 DEF Kept, Shown, MayFail, PutBy, On
<1> QED BY <1>3, <1>6, <1>7, <1>8, <1>9

LEMMA QuitStep ==
  ASSUME IInv, Quit
  PROVE  IInv'
<1> USE DEF IInv, editor, names, card, list, count, seen, AtHome, Away, Gone, NewSteps, SaveSteps, Choosing, Writing
<1>1. Is("retry") /\ Now \in MayFail /\ at[2] = Now
  BY Asks DEF Quit
<1>2. PICK b \in Callers(Now) : Tail(at) = <<Now>> \o b /\ SubSeq(at, 3, Len(at)) = b
  BY <1>1, Asks
<1>3. Now \in Steps /\ Now \notin {"edit", "start"}
  BY <1>1, CallersAre DEF MayFail
<1>4. CASE at[2] \in {"run.home", "run.load"} /\ Return /\ UNCHANGED <<cwdpath, cwd, astray>>
  <2>1. Stack' /\ Now' = Now
    BY <1>2, <1>3, <1>4, StandsThen DEF Return
  <2>2. Types'
    BY <1>4, <2>1 DEF Quit, Types
  <2>3. Home' /\ Kept' /\ Target' /\ Shown'
    BY <1>1, <1>4, <2>1 DEF Quit, Home, Kept, Target, Shown, PutBy, On, Here
  <2> QED BY <2>1, <2>2, <2>3
<1>5. CASE /\ at[2] \notin {"run.home", "run.load"}
           /\ at' = SubSeq(at, 3, Len(at))
           /\ cwdpath' = IF at[2] = "save.write" THEN cwd ELSE cwdpath
           /\ cwd' = IF at[2] \in {"load.list", "run.path"} THEN cwdpath ELSE cwd
           /\ astray' = (astray \/ Strays(at[2]))
  <2>1. Stack' /\ Now' \in {"edit", "new.clear", "load.cwd"}
    BY <1>2, <1>3, <1>5, Back
  <2>2. Types'
    BY <1>1, <1>5, <2>1 DEF Quit, Types, MayFail
  <2>3. ~astray' => ~astray /\ (currentfile = NoName \/ Now \in {"save.cwd", "load.cwd"} \/ cwd' = cwdpath)
    BY <1>1, <1>5 DEF Strays, Types
  <2>4. Home'
    BY <1>1, <1>5, <2>1, <2>3 DEF Quit, Home, MayFail
  <2>5. Kept' /\ Target' /\ Shown'
    BY <1>1, <1>5, <2>1 DEF Quit, Kept, Target, Shown
  <2> QED BY <2>1, <2>2, <2>4, <2>5
<1> QED BY <1>4, <1>5 DEF Quit

LEMMA PowerStep ==
  ASSUME IInv, PowerCut \/ Start
  PROVE  IInv'
<1> USE DEF IInv, editor, names, card, list, count, seen, AtHome, Away, Gone, NewSteps, SaveSteps, Choosing, Writing
<1>1. {"edit", "start"} \subseteq Steps /\ << >> \in Callers("edit") /\ << >> \in Callers("start")
  BY DEF Steps, Callers
<1>2. CASE PowerCut
  <2>1. Stack' /\ Now' = "start"
    <3>1. <<"start">> = <<"start">> \o << >>
      OBVIOUS
    <3> QED BY <1>1, <1>2, <3>1, StandsThen DEF PowerCut
  <2>2. f' \in Int /\ top' \in Int /\ mx' \in {1, Columns}
    BY <1>2 DEF PowerCut
  <2>3. Empty \notin Huge /\ NoName # TempFile
    BY WorkspaceAssumption
  <2>4. Types'
    BY <1>2, <2>1, <2>2, <2>3 DEF PowerCut, Types
  <2>5. Home' /\ Kept' /\ Target' /\ Shown'
    BY <1>2, <2>1 DEF PowerCut, Home, Kept, Target, Shown
  <2> QED BY <2>1, <2>4, <2>5
<1>3. CASE Start
  <2>1. Is("start") /\ Now = "start" /\ Tail(at) = << >>
    BY <1>1, <1>3, Stands DEF Start, Callers
  <2>2. Stack' /\ Now' = "edit"
    BY <1>1, <1>3, <2>1, StandsThen DEF Start, Goto
  <2>3. text' \notin Huge
    BY <1>3 DEF Start, Types
  <2>4. Types'
    BY <1>3, <2>1, <2>2, <2>3 DEF Start, Types
  <2>5. Home' /\ Kept' /\ Target' /\ Shown'
    BY <1>3, <2>1, <2>2 DEF Start, Types, Home, Kept, Target, Shown
  <2> QED BY <2>2, <2>4, <2>5
<1> QED BY <1>2, <1>3

LEMMA Idle ==
  ASSUME IInv, UNCHANGED vars
  PROVE  IInv'
<1> USE DEF vars, editor, names, card, list, count, seen
<1>1. Now' = Now /\ Stack'
  BY DEF IInv, Now, Is, Stack
<1>2. Types' /\ Home' /\ Target' /\ Kept'
  BY <1>1 DEF IInv, Types, Home, Target, Kept, Here, On, PutBy
<1>3. Shown'
  BY <1>1 DEF IInv, Shown, filenum, FileList, Listing, Subs, On, Page
<1> QED BY <1>1, <1>2, <1>3 DEF IInv

LEMMA Invariant == Spec => []IInv
<1>1. Init => IInv
  BY InitHolds
<1>2. IInv /\ [Next]_vars => IInv'
  <2> SUFFICES ASSUME IInv, [Next]_vars PROVE IInv'
    OBVIOUS
  <2>1. CASE Type \/ SaveKey \/ NewKey \/ LoadKey \/ RunKey
    BY <2>1, KeysStep
  <2>2. CASE SaveCwd \/ SaveName \/ Overwrite \/ PickForSave \/ SaveWrite \/ SaveWriting
    BY <2>2, SaveStep
  <2>3. CASE GetFileList("save.list", "save.pick")
    BY <2>3, ListStep
  <2>4. CASE GetFileList("load.list", "load.pick")
    BY <2>4, ListStep
  <2>5. CASE Browse
    BY <2>5, BrowseStep
  <2>6. CASE ChangeDir \/ PickNone
    BY <2>6, ListStep
  <2>7. CASE NewSure \/ SaveFirst("new.save", "new.clear") \/ NewClear
             \/ SaveFirst("load.save", "load.cwd") \/ LoadCwd
    BY <2>7, NewStep
  <2>8. CASE PickForLoad
    BY <2>8, LoadStep
  <2>9. CASE Run
    BY <2>9, RunStep
  <2>10. CASE Retry
    BY <2>10, RetryStep
  <2>11. CASE Quit
    BY <2>11, QuitStep
  <2>12. CASE PowerCut \/ Start
    BY <2>12, PowerStep
  <2>13. CASE UNCHANGED vars
    BY <2>13, Idle
  <2> QED BY <2>1, <2>2, <2>3, <2>4, <2>5, <2>6, <2>7, <2>8, <2>9, <2>10, <2>11, <2>12, <2>13 DEF Next
<1> QED BY <1>1, <1>2, PTL DEF Spec

\* The entry under the cursor of the list exists and is on the screen, for lists
\* of any length, any number of columns and lines, whatever keys are pressed.
THEOREM SelectionHolds == Spec => []SelectionShown
<1>1. IInv => SelectionShown
  <2> SUFFICES ASSUME IInv, NEW x \in {"save.pick", "load.pick"}, Is(x)
               PROVE  top <= f /\ f < top + Page /\ f < filenum
    BY DEF SelectionShown
  <2>1. Now = x
    BY Stands, SameCallers DEF IInv, SaveSteps, LoadSteps
  <2> QED BY <2>1 DEF IInv, Shown
<1> QED BY <1>1, Invariant, PTL

-----------------------------------------------------------------------------
(* Every step of the editor is one of Desk, or changes nothing of it.       *)

LEMMA KeysDesk ==
  ASSUME IInv, IInv', Type \/ SaveKey \/ NewKey \/ LoadKey \/ RunKey
  PROVE  DeskStep
<1> USE DEF IInv, editor, names, card, list, count, seen, NoChange
<1>1. at = Edit /\ Is("edit") /\ Now = "edit" /\ Now \notin Out
  <2>1. at = <<"edit">> /\ "edit" \in Steps
    BY DEF Type, SaveKey, NewKey, LoadKey, RunKey, Editing, Steps
  <2>2. Is("edit")
    BY <2>1 DEF Is
  <2> QED BY <2>1, <2>2, Stands DEF Edit, Out
<1>2. CASE Type
  <2>1. Now' \notin Out
    BY <1>1, <1>2 DEF Type, Now, Is
  <2>2. text' \in Texts
    BY <1>2, WorkspaceAssumption DEF Type, Types, Texts
  <2> QED BY <1>1, <1>2, <2>1, <2>2, Writes DEF Type
<1>3. CASE SaveKey \/ NewKey \/ LoadKey \/ RunKey
  <2>1. at'[1] \in {"save.cwd", "new.sure", "new.clear", "load.save", "load.cwd", "run.root"}
    <3>1. PICK s \in {"save.cwd", "new.sure", "new.clear", "load.save", "load.cwd", "run.root"} :
            at' = <<s>> \o Edit
      BY <1>1, <1>3 DEF SaveKey, NewKey, NewText, LoadKey, RunKey, Edit
    <3> QED BY <3>1 DEF Edit
  <2>2. Now' \notin Out
    BY <2>1 DEF Now, Is, Out
  <2> QED BY <1>1, <1>3, <2>2, Stutters DEF SaveKey, NewKey, LoadKey, RunKey
<1> QED BY <1>2, <1>3

LEMMA SaveDesk ==
  ASSUME IInv, IInv', SaveCwd \/ SaveName \/ Overwrite \/ PickForSave \/ SaveWrite \/ SaveWriting
  PROVE  DeskStep
<1> USE DEF IInv, editor, names, card, list, count, seen, NoChange
<1>1. CASE SaveCwd
  <2>1. Now = "save.cwd" /\ Now' \in {"save.write", "save.name", "save.cwd"}
    <3>1. CASE Goto(IF ow THEN "save.write" ELSE "save.name")
      BY <1>1, <3>1, GoesOn DEF SaveCwd, Command, SaveSteps
    <3>2. CASE Fail("save.cwd")
      BY <1>1, <3>2, MayAsk DEF SaveCwd, Command, SaveSteps, MayFail
    <3> QED BY <1>1, <3>1, <3>2 DEF SaveCwd
  <2> QED BY <1>1, <2>1, Stutters DEF SaveCwd, Out
<1>2. CASE SaveName \/ Overwrite \/ PickForSave
  <2>1. Now \notin Out /\ Now' \notin Out
    <3>1. PICK x \in {"save.name", "save.ask", "save.ask2", "save.pick"} : Is(x)
      BY <1>2 DEF SaveName, Overwrite, PickForSave
    <3>2. PICK y \in {"save.ask", "save.ask2", "save.write", "save.name", "save.list"} : Goto(y)
      BY <1>2 DEF SaveName, Overwrite, PickForSave, Name
    <3> QED BY <3>1, <3>2, GoesOn DEF Command, SaveSteps, Out
  <2>2. cwd \in AllDirs
    BY DEF Types
  <2>3. CASE SaveName
    <3>1. agreed' = agreed \/ \E n \in Names : agreed' = <<cwd, n>>
      BY <2>3 DEF SaveName, Name
    <3>2. agreed' \in AllPaths \/ agreed' = agreed
      BY <2>2, <3>1, PathOf
    <3> QED BY <2>1, <2>3, <3>2, Agrees DEF SaveName
  <2>4. CASE Overwrite
    <3>1. PICK x \in {"save.ask", "save.ask2"} : Is(x) /\ Now = x
      BY <2>4, Stands, SameCallers DEF Overwrite, SaveSteps
    <3>2. tempfile \in Names /\ (x = "save.ask2" => temppath = cwd)
      BY <3>1 DEF Target
    <3>3. agreed' = agreed \/ agreed' = <<cwd, tempfile>>
      BY <2>4, <3>1, <3>2 DEF Overwrite, Is
    <3>4. agreed' \in AllPaths \/ agreed' = agreed
      BY <2>2, <3>2, <3>3, PathOf
    <3> QED BY <2>1, <2>4, <3>4, Agrees DEF Overwrite
  <2>5. CASE PickForSave
    <3>1. Is("save.pick") /\ Now = "save.pick" /\ temppath = cwd
      BY <2>5, Stands, SameCallers DEF PickForSave, SaveSteps, Target
    <3>2. CASE (\E n \in Names : f = -2 /\ Name(n, temppath, "save.ask2")) /\ UNCHANGED astray
      <4>1. agreed' = agreed \/ \E n \in Names : agreed' = <<cwd, n>>
        BY <3>1, <3>2 DEF Name
      <4>2. agreed' \in AllPaths \/ agreed' = agreed
        BY <2>2, <4>1, PathOf
      <4> QED BY <2>1, <2>5, <3>2, <4>2, Agrees DEF PickForSave
    <3>3. CASE /\ f >= 0 /\ ~IsDir(FileList[f + 1])
               /\ agreed' = <<temppath, FileList[f + 1]>>
               /\ astray' = (astray \/ FileList[f + 1] = TempFile)
      <4>1. f + 1 \in 1 .. filenum
        BY <3>1, <3>3, FilesListed DEF Types, Shown
      <4>2. FileList[f + 1] \in Names \cup {TempFile}
        BY <3>3, <4>1, FilesListed DEF Entries, IsDir
      <4>3. CASE FileList[f + 1] = TempFile
        <5>1. astray' = TRUE /\ text' = text /\ Shelf' = Shelf /\ Spare' = Spare
          BY <2>5, <3>3, <4>3, SameFiles DEF PickForSave
        <5> QED BY <2>1, <5>1, GoesAstray
      <4>4. CASE FileList[f + 1] # TempFile
        <5>1. agreed' \in AllPaths /\ astray' = astray
          BY <2>2, <3>1, <3>3, <4>2, <4>4, PathOf DEF Types
        <5> QED BY <2>1, <2>5, <5>1, Agrees DEF PickForSave
      <4> QED BY <4>3, <4>4
    <3> QED BY <2>5, <3>2, <3>3 DEF PickForSave
  <2> QED BY <1>2, <2>3, <2>4, <2>5
<1>3. CASE SaveWrite
  <2>1. Is("save.write") /\ Now = "save.write"
    BY <1>3, Stands, SameCallers DEF SaveWrite, SaveSteps
  <2>2. /\ tempfile \in Names => Here(tempfile) \in AllPaths /\ (Here(tempfile) \in {own, agreed} \/ astray)
        /\ tempfile \in Names \/ tempfile = TempFile
    BY <2>1, PathOf DEF Types, Target, Here, Writing
  <2>3. CASE disk' = With(Here(tempfile), Torn) /\ Goto("save.writing")
    <3>1. Now' = "save.writing"
      BY <2>1, <2>3, GoesOn DEF Command, SaveSteps
    <3>2. CASE tempfile \in Names
      BY <1>3, <2>1, <2>2, <2>3, <3>1, <3>2, Opens DEF SaveWrite, Out
    <3>3. CASE tempfile = TempFile
      <4>1. Here(tempfile)[2] = TempFile
        BY <3>3 DEF Here
      <4>2. Shelf' = Shelf /\ Spare' \subseteq Spare \cup {Torn}
        BY <2>3, <4>1, Spares
      <4> QED BY <1>3, <2>1, <3>1, <4>2, Prepares DEF SaveWrite, Out
    <3> QED BY <2>2, <3>2, <3>3
  <2>4. CASE Fail("save.write") /\ UNCHANGED disk
    <3>1. Now' = "save.write"
      BY <2>1, <2>4, MayAsk DEF Command, SaveSteps, MayFail
    <3> QED BY <1>3, <2>1, <2>4, <3>1, Stutters DEF SaveWrite, Out
  <2> QED BY <1>3, <2>3, <2>4 DEF SaveWrite
<1>4. CASE SaveWriting
  <2>1. Is("save.writing") /\ Now = "save.writing"
    BY <1>4, Stands, SameCallers DEF SaveWriting, SaveSteps
  <2>2. /\ tempfile \in Names => Here(tempfile) \in AllPaths /\ (Here(tempfile) \in {own, agreed} \/ astray)
        /\ tempfile \in Names \/ tempfile = TempFile
        /\ Here(tempfile) \in DOMAIN disk /\ disk[Here(tempfile)] = Torn
    BY <2>1, PathOf DEF Types, Target, Here, On, Writing
  <2>3. CASE /\ disk' = [p \in DOMAIN disk \ {Here(TempFile)} |-> IF p = Here(tempfile) THEN text ELSE disk[p]]
             /\ own' = Here(tempfile) /\ agreed' = Nowhere /\ astray' = (tempfile = TempFile) /\ Return
    <3>1. Now' \in {"edit", "new.clear", "load.cwd"}
      BY <2>1, <2>3, Returns, SameCallers DEF SaveSteps
    <3>2. Here(TempFile)[2] = TempFile
      BY DEF Here
    <3>3. CASE tempfile \in Names
      <4>1. astray' = FALSE
        BY <2>3, <3>3, WorkspaceAssumption
      <4>2. Here(tempfile) \in AllPaths /\ (Here(tempfile) \in {own, agreed} \/ astray)
        BY <2>2, <3>3
      <4>3. Now \notin Out /\ Now' \notin Out /\ UNCHANGED text
        BY <1>4, <2>1, <3>1 DEF SaveWriting, Out
      <4>4. /\ disk' = [p \in DOMAIN disk \ {Here(TempFile)} |-> IF p = Here(tempfile) THEN text ELSE disk[p]]
            /\ own' = Here(tempfile) /\ agreed' = Nowhere
            /\ Here(tempfile) \in DOMAIN disk /\ disk[Here(tempfile)] = Torn
        BY <2>2, <2>3
      <4> HIDE DEF IInv
      <4>5. Stack /\ Stack'
        BY DEF IInv
      <4> QED BY <3>2, <4>1, <4>2, <4>3, <4>4, <4>5, Closes
    <3>4. CASE tempfile = TempFile
      <4>1. disk' = Without(Here(TempFile))
        BY <2>3, <3>4 DEF Without
      <4>2. Shelf' = Shelf /\ Spare' \subseteq Spare
        BY <3>2, <4>1, Forgets
      <4>3. astray' = TRUE /\ text' = text
        BY <1>4, <2>3, <3>4 DEF SaveWriting
      <4> QED BY <2>1, <3>1, <4>2, <4>3, GoesAstray DEF Out
    <3> QED BY <2>2, <3>3, <3>4
  <2>4. CASE Fail("save.write") /\ UNCHANGED <<disk, currentfile, cwdpath, edited, own, agreed, astray>>
    <3>1. Now' = "save.write"
      BY <2>1, <2>4, MayAsk DEF Command, SaveSteps, MayFail
    <3> QED BY <1>4, <2>1, <2>4, <3>1, Stutters DEF SaveWriting, Out
  <2> QED BY <1>4, <2>3, <2>4 DEF SaveWriting
<1> QED BY <1>1, <1>2, <1>3, <1>4


LEMMA ListDesk ==
  ASSUME IInv, IInv',
         \/ GetFileList("save.list", "save.pick") \/ GetFileList("load.list", "load.pick")
         \/ Browse \/ ChangeDir \/ PickNone
  PROVE  DeskStep
<1> USE DEF IInv, editor, names, card, list, count, seen
<1>1. UNCHANGED <<text, disk, own, agreed, astray>>
  BY DEF GetFileList, Browse, ChangeDir, PickNone
<1>2. PICK x \in {"save.list", "load.list", "save.pick", "load.pick"} : Is(x)
  BY DEF GetFileList, Browse, ChangeDir, PickNone
<1>3. Now = x /\ x \in Steps /\ x \in SaveSteps \cup LoadSteps \cup NewSteps \cup RunSteps
  BY <1>2, Stands, SameCallers DEF SaveSteps, LoadSteps
<1>4. Now' \notin Out
  <2>1. CASE GetFileList("save.list", "save.pick")
    BY <2>1, GoesOn, MayAsk DEF GetFileList, Command, SaveSteps, MayFail, Out
  <2>2. CASE GetFileList("load.list", "load.pick")
    BY <2>2, GoesOn, MayAsk DEF GetFileList, Command, SaveSteps, LoadSteps, MayFail, Out
  <2>3. CASE Browse
    BY <1>2, <1>3, <2>3 DEF Browse, Now, Is, Out
  <2>4. CASE ChangeDir
    <3>1. PICK z \in {"save.pick", "load.pick"} : Is(z)
      BY <2>4 DEF ChangeDir
    <3> QED BY <2>4, <3>1, GoesOn DEF ChangeDir, Is, Command, SaveSteps, LoadSteps, Out
  <2>5. CASE PickNone
    BY <1>2, <1>3, <2>5, Returns DEF PickNone, Out
  <2> QED BY <2>1, <2>2, <2>3, <2>4, <2>5
<1> QED BY <1>1, <1>3, <1>4, Stutters DEF Out

LEMMA NewDesk ==
  ASSUME IInv, IInv',
         NewSure \/ SaveFirst("new.save", "new.clear") \/ NewClear
         \/ SaveFirst("load.save", "load.cwd") \/ LoadCwd
  PROVE  DeskStep
<1> USE DEF IInv, editor, names, card, list, count, seen, NoChange
<1>1. CASE NewSure
  <2>1. Is("new.sure") /\ "new.sure" \in Steps
    BY <1>1, SameCallers DEF NewSure, NewSteps
  <2>2. CASE Return
    BY <1>1, <2>1, <2>2, Returns, Stutters DEF NewSure, Out, SaveSteps
  <2>3. CASE Goto("new.save")
    <3>1. Now = "new.sure" /\ Now' = "new.save"
      BY <2>1, <2>3, GoesOn DEF Command, NewSteps, SaveSteps
    <3> QED BY <1>1, <3>1, Stutters DEF NewSure, Out
  <2> QED BY <1>1, <2>2, <2>3 DEF NewSure
<1>2. CASE SaveFirst("new.save", "new.clear") \/ SaveFirst("load.save", "load.cwd")
  <2>1. PICK x \in {"new.save", "load.save"}, y \in {"new.clear", "load.cwd"} : SaveFirst(x, y)
    BY <1>2
  <2>2. Is(x) /\ Callers(x) = {Edit} /\ x \in Steps
    BY <2>1, SameCallers DEF SaveFirst, NewSteps, LoadSteps
  <2>3. Now = x /\ Now' \in {"save.cwd", "new.clear", "load.cwd"}
    <3>1. CASE Call("save.cwd", y)
      BY <2>2, <3>1, Calls
    <3>2. CASE Goto(y)
      BY <2>2, <3>2, GoesOn DEF Command, NewSteps, LoadSteps, SaveSteps
    <3> QED BY <2>1, <3>1, <3>2 DEF SaveFirst
  <2> QED BY <2>1, <2>3, Stutters DEF SaveFirst, Out
<1>3. CASE NewClear
  <2>1. Now = "new.clear" /\ Now' = "edit"
    BY <1>3, Returns, SameCallers DEF NewClear, NewSteps, SaveSteps
  <2> QED BY <1>3, <2>1, Clears DEF NewClear, Out
<1>4. CASE LoadCwd
  <2>1. Now = "load.cwd" /\ Now' \in {"load.list", "load.cwd"}
    <3>1. CASE Goto("load.list")
      BY <1>4, <3>1, GoesOn DEF LoadCwd, Command, LoadSteps, SaveSteps
    <3>2. CASE Fail("load.cwd")
      BY <1>4, <3>2, MayAsk DEF LoadCwd, Command, LoadSteps, SaveSteps, MayFail
    <3> QED BY <1>4, <3>1, <3>2 DEF LoadCwd
  <2> QED BY <1>4, <2>1, Stutters DEF LoadCwd, Out
<1> QED BY <1>1, <1>2, <1>3, <1>4

LEMMA LoadDesk ==
  ASSUME IInv, IInv', PickForLoad
  PROVE  DeskStep
<1> USE DEF IInv, editor, names, card, list, count, seen
<1>1. Is("load.pick") /\ Now = "load.pick" /\ temppath = cwd /\ cwd \in AllDirs
  BY Stands, SameCallers DEF PickForLoad, LoadSteps, Target, Types
<1>2. PICK n \in Loadable :
        /\ tempfile' = n
        /\ \/ On(Here(n)) /\ disk[Here(n)] \notin Huge /\ Loads(Here(n)) /\ Named(n) /\ UNCHANGED count
           \/ /\ On(Here(n)) /\ disk[Here(n)] \in Huge /\ Loads(Here(n)) /\ Goto("load.list")
              /\ UNCHANGED <<currentfile, cwdpath, own, astray, count>>
           \/ /\ On(Here(n)) => faults < MaxFaults
              /\ faults' = (IF On(Here(n)) THEN faults + 1 ELSE faults) /\ UNCHANGED <<typed, cuts>>
              /\ IF f = -2 THEN text' = Empty /\ edited' = FALSE /\ Named(n)
                 ELSE Goto("load.list") /\ UNCHANGED <<editor, own, astray>>
  BY DEF PickForLoad
<1>3. n \in Names \cup {TempFile} /\ (f = -2 => n \in Names)
  BY <1>2, FilesListed DEF Loadable, Entries, IsDir
<1>4. CASE Named(n) /\ ((n \in Names /\ text' = Empty) \/ (On(Here(n)) /\ text' = disk[Here(n)]))
  <2>1. Now' = "edit"
    BY <1>1, <1>4, Returns, SameCallers DEF Named, LoadSteps, SaveSteps
  <2>2. own' = <<cwd, n>> /\ Here(n) = <<cwd, n>> /\ astray' = (n = TempFile)
    BY <1>1, <1>4 DEF Named, Here
  <2>3. CASE n \in Names
    <3>1. <<cwd, n>> \in AllPaths /\ astray' = FALSE
      BY <1>1, <2>2, <2>3, PathOf, WorkspaceAssumption
    <3> QED BY <1>1, <1>4, <2>1, <2>2, <3>1, Takes DEF PickForLoad, Out
  <2>4. CASE n = TempFile
    <3>1. astray' = TRUE /\ UNCHANGED <<Shelf, Spare>>
      BY <2>2, <2>4, SameFiles DEF PickForLoad
    <3>2. Here(n) \in DOMAIN disk /\ Here(n)[2] = TempFile /\ text' = disk[Here(n)]
      BY <1>4, <2>2, <2>4, WorkspaceAssumption DEF On
    <3>3. text' \in Spare
      BY <3>2 DEF Spare
    <3> QED BY <1>1, <2>1, <3>1, <3>3, GoesAstray DEF Out
  <2> QED BY <1>3, <2>3, <2>4
<1>5. CASE Goto("load.list") /\ UNCHANGED <<own, astray>> /\ (text' = Empty \/ text' = text)
  <2>1. Now' = "load.list"
    BY <1>1, <1>5, GoesOn DEF Command, LoadSteps, SaveSteps
  <2>2. CASE text' = Empty
    BY <1>1, <1>5, <2>1, <2>2, Writes DEF PickForLoad, Out, Texts
  <2>3. CASE text' = text
    BY <1>1, <1>5, <2>1, <2>3, Stutters DEF PickForLoad, Out
  <2> QED BY <1>5, <2>2, <2>3
<1>6. /\ Loads(Here(n)) /\ disk[Here(n)] \notin Huge => text' = disk[Here(n)]
      /\ Loads(Here(n)) /\ disk[Here(n)] \in Huge => text' = Empty
  BY DEF Loads
<1> QED BY <1>2, <1>3, <1>4, <1>5, <1>6


LEMMA RunDesk ==
  ASSUME IInv, IInv', Run
  PROVE  DeskStep
<1> USE DEF IInv, NoNames, editor, names, card, list, count, seen
<1>1. CASE RunRoot \/ RunPath
  <2>1. PICK x \in {"run.root", "run.path"} : Is(x)
    BY <1>1 DEF RunRoot, RunPath
  <2>2. Goto("run.path") \/ Goto("run.back") \/ Fail("run.root") \/ Fail("run.path")
    BY <1>1 DEF RunRoot, RunPath
  <2>3. Now = x /\ Now' \in {"run.path", "run.back", "run.root"}
    BY <2>1, <2>2, GoesOn, MayAsk DEF Command, RunSteps, SaveSteps, MayFail
  <2> QED BY <1>1, <2>3, Stutters DEF RunRoot, RunPath, Out
<1>2. CASE RunBack
  <2>1. Is("run.back") /\ Now = "run.back"
    BY <1>2, Stands, SameCallers DEF RunBack, RunSteps
  <2>2. CASE disk' = With(<<cwdpath, TempFile>>, Torn) /\ Goto("run.temp")
    <3>1. Now' = "run.temp"
      BY <2>1, <2>2, GoesOn DEF Command, RunSteps, SaveSteps
    <3>2. Shelf' = Shelf /\ Spare' \subseteq Spare \cup {Torn}
      BY <2>2, Spares
    <3> QED BY <1>2, <2>1, <3>1, <3>2, Prepares DEF RunBack, Out
  <2>3. CASE Fail("run.back") /\ UNCHANGED disk
    <3>1. Now' = "run.back"
      BY <2>1, <2>3, MayAsk DEF Command, RunSteps, SaveSteps, MayFail
    <3> QED BY <1>2, <2>1, <2>3, <3>1, Stutters DEF RunBack, Out
  <2> QED BY <1>2, <2>2, <2>3 DEF RunBack
<1>3. CASE RunTemp
  <2>1. Is("run.temp") /\ Now = "run.temp"
    BY <1>3, Stands, SameCallers DEF RunTemp, RunSteps
  <2>2. CASE disk' = With(Here(TempFile), text) /\ held' = text /\ Goto("run.go")
    <3>1. Now' = "run.go"
      BY <2>1, <2>2, GoesOn DEF Command, RunSteps, SaveSteps
    <3>2. Shelf' = Shelf /\ Spare' \subseteq Spare \cup {text}
      BY <2>2, Spares DEF Here
    <3>3. DeskText = text /\ DeskText' = text /\ Phase = "desk" /\ Phase' = "running"
      BY <2>1, <2>2, <3>1, SeenNow, SeenThen DEF SeenText, SeenPhase, Out
    <3> QED BY <1>3, <3>2, <3>3 DEF RunTemp, DeskStep, D!Next, D!Run
  <2>3. CASE Fail("run.back") /\ UNCHANGED <<disk, edited1, held>>
    <3>1. Now' = "run.back"
      BY <2>1, <2>3, MayAsk DEF Command, RunSteps, SaveSteps, MayFail
    <3> QED BY <1>3, <2>1, <2>3, <3>1, Stutters DEF RunTemp, Out
  <2> QED BY <1>3, <2>2, <2>3 DEF RunTemp
<1>4. CASE RunGo
  <2>1. Now = "run.go" /\ Now' = "run.end"
    BY <1>4, GoesOn DEF RunGo, Command, RunSteps, SaveSteps
  <2> QED BY <1>4, <2>1, Stutters DEF RunGo
<1>5. CASE RunEnd
  <2>1. Now = "run.end" /\ Now' = "run.home"
    BY <1>5, GoesOn DEF RunEnd, Command, RunSteps, SaveSteps
  <2>2. DeskText' = DeskText /\ Phase = "running" /\ Phase' = "returning"
    BY <1>5, <2>1, SeenNow, SeenThen DEF RunEnd, SeenText, SeenPhase, Out
  <2>3. UNCHANGED <<Shelf, Spare>>
    BY <1>5, SameFiles DEF RunEnd
  <2> QED BY <1>5, <2>2, <2>3 DEF RunEnd, DeskStep, D!Next, D!End
<1>6. CASE RunHome
  <2>1. Now = "run.home" /\ Now' \in {"run.load", "run.home"}
    <3>1. CASE Goto("run.load")
      BY <1>6, <3>1, GoesOn DEF RunHome, Command, RunSteps, SaveSteps
    <3>2. CASE Fail("run.home")
      BY <1>6, <3>2, MayAsk DEF RunHome, Command, RunSteps, SaveSteps, MayFail
    <3> QED BY <1>6, <3>1, <3>2 DEF RunHome
  <2> QED BY <1>6, <2>1, Stutters DEF RunHome
<1>7. CASE RunLoad
  <2>1. Is("run.load") /\ Now = "run.load"
    BY <1>7, Stands, SameCallers DEF RunLoad, RunSteps
  <2>2. CASE On(<<cwdpath, TempFile>>) /\ Loads(<<cwdpath, TempFile>>) /\ Goto("run.done") /\ UNCHANGED disk
    <3>1. Now' = "run.done"
      BY <2>1, <2>2, GoesOn DEF Command, RunSteps, SaveSteps
    <3>2. text' = held
      <4>1. disk[<<cwdpath, TempFile>>] = held /\ disk[<<cwdpath, TempFile>>] \notin Huge
        BY <2>1, <2>2 DEF Kept, PutBy, Types, On
      <4> QED BY <2>2, <4>1 DEF Loads
    <3>3. DeskText' = DeskText /\ Phase = "returning" /\ Phase' = "desk"
      BY <2>1, <3>1, <3>2, SeenNow, SeenThen DEF SeenText, SeenPhase, Out
    <3>4. UNCHANGED <<Shelf, Spare>>
      BY <2>2, SameFiles
    <3> QED BY <1>7, <3>3, <3>4 DEF RunLoad, DeskStep, D!Next, D!Back
  <2>3. CASE Fail("run.load") /\ UNCHANGED <<text, edited, disk>>
    <3>1. Now' = "run.load"
      BY <2>1, <2>3, MayAsk DEF Command, RunSteps, SaveSteps, MayFail
    <3> QED BY <1>7, <2>1, <2>3, <3>1, Stutters DEF RunLoad
  <2> QED BY <1>7, <2>2, <2>3 DEF RunLoad
<1>8. CASE RunDone
  <2>1. Now = "run.done" /\ Now' = "edit"
    BY <1>8, Returns, SameCallers DEF RunDone, RunSteps, SaveSteps
  <2>2. Shelf' = Shelf /\ Spare' \subseteq Spare
    BY <1>8, Forgets DEF RunDone, Here
  <2> QED BY <1>8, <2>1, <2>2, Prepares DEF RunDone, Out
<1> QED BY <1>1, <1>2, <1>3, <1>4, <1>5, <1>6, <1>7, <1>8 DEF Run

LEMMA FaultDesk ==
  ASSUME IInv, IInv', Retry \/ Quit
  PROVE  DeskStep
<1> USE DEF IInv, editor, names, card, list, count, seen
<1>1. UNCHANGED <<text, disk, own, agreed, held>>
  BY DEF Retry, Quit
<1>2. Is("retry") /\ Now \in MayFail /\ at[2] = Now
  BY Asks DEF Retry, Quit
<1>3. PICK b \in Callers(Now) : Tail(at) = <<Now>> \o b /\ SubSeq(at, 3, Len(at)) = b
  BY <1>2, Asks
<1>4. Now \in Steps /\ Now \notin {"edit", "start"} /\ "save.name" \in Steps
  BY <1>2, CallersAre, SameCallers DEF MayFail, SaveSteps
<1>5. Now' = Now \/ (Now' \notin Out /\ Now \notin {"run.home", "run.load"})
  <2>1. ASSUME at' = Tail(at) PROVE Now' = Now
    BY <1>3, <1>4, <2>1, StandsThen
  <2>2. ASSUME Now = "save.write", at' = <<"save.name">> \o b PROVE Now' = "save.name"
    <3>1. b \in Callers("save.name")
      BY <1>3, <2>2, SameCallers DEF SaveSteps
    <3> QED BY <1>4, <2>2, <3>1, StandsThen
  <2>3. ASSUME at' = b PROVE Now' \in {"edit", "new.clear", "load.cwd"}
    BY <1>3, <1>4, <2>3, Back
  <2>4. CASE Retry
    <3>1. at' = IF Now = "save.write" /\ ~ow THEN <<"save.name">> \o b ELSE Tail(at)
      BY <1>2, <1>3, <2>4 DEF Retry
    <3> QED BY <2>1, <2>2, <3>1 DEF Out
  <2>5. CASE Quit
    <3>1. at' = Tail(at) \/ (Now \notin {"run.home", "run.load"} /\ at' = b)
      BY <1>2, <1>3, <2>5 DEF Quit, Return
    <3> QED BY <2>1, <2>3, <3>1 DEF Out
  <2> QED BY <2>4, <2>5
<1>6. Now \notin Out \/ Now \in {"run.home", "run.load"}
  BY <1>2 DEF MayFail, Out
<1>7. CASE astray' = astray
  BY <1>1, <1>5, <1>6, <1>7, Stutters
<1>8. CASE astray' # astray
  <2>1. astray' = TRUE /\ Now \notin {"run.home", "run.load"}
    <3>1. CASE Retry
      BY <1>2, <1>8, <3>1 DEF Retry, Moves, Types
    <3>2. CASE Quit
      BY <1>2, <1>8, <3>2 DEF Quit, Types
    <3> QED BY <3>1, <3>2
  <2>2. Shelf' = Shelf /\ Spare' = Spare
    BY <1>1, SameFiles
  <2> QED BY <1>1, <1>5, <1>6, <2>1, <2>2, GoesAstray
<1> QED BY <1>7, <1>8

LEMMA PowerDesk ==
  ASSUME IInv, IInv', PowerCut \/ Start
  PROVE  DeskStep
<1> USE DEF IInv, editor, names, card, list, count, seen
<1>1. UNCHANGED <<Shelf, Spare>>
  BY SameFiles DEF PowerCut, Start
<1>2. LoadsTemp(workdir) \in Spare \cup {Empty}
  BY DEF LoadsTemp, Spare
<1>3. CASE PowerCut
  <2>1. Now' = "start"
    BY <1>3 DEF PowerCut, Now, Is
  <2>2. Phase' = "desk" /\ DeskText' = IF workdir \in dirs THEN LoadsTemp(workdir) ELSE Empty
    BY <1>3, <2>1, SeenThen DEF PowerCut, SeenText, SeenPhase, Out, LoadsTemp
  <2>3. CASE Phase = "running"
    <3>1. Now \in {"run.go", "run.end"} /\ DeskText = held
      BY <2>3, SeenNow DEF SeenPhase, SeenText, Out
    <3>2. DeskText' = DeskText
      BY <2>2, <3>1 DEF Kept, Gone, PutBy, On, LoadsTemp
    <3> QED BY <1>1, <1>3, <2>2, <2>3, <3>2 DEF PowerCut, DeskStep, D!Next, D!PowerCut
  <2>4. CASE Phase # "running"
    <3>1. DeskText' \in Spare \cup {Empty}
      BY <1>2, <2>2
    <3> QED BY <1>1, <1>3, <2>2, <2>4, <3>1 DEF PowerCut, DeskStep, D!Next, D!PowerCut
  <2> QED BY <2>3, <2>4
<1>4. CASE Start
  <2>1. Is("start") /\ Now = "start" /\ Tail(at) = << >> /\ "edit" \in Steps /\ << >> \in Callers("edit")
    BY <1>4, Stands DEF Start, Steps, Callers
  <2>2. Now' = "edit"
    BY <1>4, <2>1, StandsThen DEF Start, Goto
  <2>3. text = Empty
    BY <2>1 DEF Types
  <2>4. DeskText' = DeskText /\ Phase' = Phase
    BY <1>4, <2>1, <2>2, <2>3, SeenNow, SeenThen DEF Start, SeenText, SeenPhase, Out, LoadsTemp
  <2> QED BY <1>1, <1>4, <2>4 DEF Start, DeskStep
<1> QED BY <1>3, <1>4

\* The editor keeps the promises of Desk, for any files on the card, however
\* often calls of the file system fail and power is lost: after a run the text is
\* the one there was, and no file is written over but the text's own and one the
\* user has agreed to, unless he has gone astray; then any may be, until the text
\* has a file for certain again.
THEOREM DeskHolds == Spec => IsDesk
<1>1. Init => D!Init
  <2> SUFFICES ASSUME Init PROVE D!Init
    OBVIOUS
  <2>1. Stack /\ Now = "edit"
    BY InitHolds DEF IInv, Init, Now, Is
  <2>2. DeskText = Empty /\ Phase = "desk"
    BY <2>1, SeenNow DEF Init, SeenText, SeenPhase, Out
  <2>3. Shelf \in [AllPaths -> Texts]
    BY WorkspaceAssumption DEF Init, Shelf, On, Texts
  <2> QED BY <2>2, <2>3 DEF Init, D!Init, Nowhere
<1>2. IInv /\ IInv' /\ [Next]_vars => DeskStep
  <2> SUFFICES ASSUME IInv, IInv', [Next]_vars PROVE DeskStep
    OBVIOUS
  <2>1. CASE Type \/ SaveKey \/ NewKey \/ LoadKey \/ RunKey
    BY <2>1, KeysDesk
  <2>2. CASE SaveCwd \/ SaveName \/ Overwrite \/ PickForSave \/ SaveWrite \/ SaveWriting
    BY <2>2, SaveDesk
  <2>3. CASE \/ GetFileList("save.list", "save.pick") \/ GetFileList("load.list", "load.pick")
             \/ Browse \/ ChangeDir \/ PickNone
    BY <2>3, ListDesk
  <2>4. CASE NewSure \/ SaveFirst("new.save", "new.clear") \/ NewClear
             \/ SaveFirst("load.save", "load.cwd") \/ LoadCwd
    BY <2>4, NewDesk
  <2>5. CASE PickForLoad
    BY <2>5, LoadDesk
  <2>6. CASE Run
    BY <2>6, RunDesk
  <2>7. CASE Retry \/ Quit
    BY <2>7, FaultDesk
  <2>8. CASE PowerCut \/ Start
    BY <2>8, PowerDesk
  <2>9. CASE UNCHANGED vars
    <3>1. Now' = Now /\ UNCHANGED <<text, disk, own, agreed, astray, held, workdir, dirs>>
      BY <2>9 DEF vars, editor, card, seen, Now, Is
    <3> QED BY <3>1, Stutters DEF IInv
  <2> QED BY <2>1, <2>2, <2>3, <2>4, <2>5, <2>6, <2>7, <2>8, <2>9 DEF Next
<1>3. DeskStep => [D!Next]_(D!vars)
  BY DEF DeskStep, D!vars
<1> QED BY <1>1, <1>2, <1>3, Invariant, PTL DEF Spec, IsDesk, D!Spec
=============================================================================
