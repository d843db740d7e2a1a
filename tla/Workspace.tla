----------------------------- MODULE Workspace ------------------------------
(***************************************************************************)
(* The editor's dealings with the card: new, load, save, run, the list of  *)
(* files, and the start after power was lost (editor.c).  A text is one    *)
(* value.  at is the stack of the C functions that wait: the step to take  *)
(* next, then the steps of the callers.  Every call of the file system may *)
(* fail, at most MaxFaults times, and the user retries or quits.           *)
(***************************************************************************)
EXTENDS Integers, Sequences, SequencesExt, FiniteSets

CONSTANTS
  Names, TempFile, NoName,   \* names of files; TempFile is ~TEMP.BAS
  DirNames, MaxDepth,        \* names of directories, how deep they nest
  Typed,                     \* the texts the user types, in order
  Empty, Torn, Junk,         \* no text, a part of one, overwritten memory
  Huge,                      \* texts too long for the buffer
  FirstDisk,                 \* the files there are at the beginning
  Columns, Rows, MAXFILENUM, \* of the list of files
  MaxFaults, MaxCuts         \* failures and losses of power

Root == << >>
NoDir == <<NoName>>
AllDirs == UNION {[1 .. k -> DirNames] : k \in 0 .. MaxDepth}
Texts == ToSet(Typed) \cup {Empty, Torn, Junk} \cup Huge \cup {FirstDisk[p] : p \in DOMAIN FirstDisk}

ASSUME WorkspaceAssumption ==
  /\ IsFiniteSet(Names) /\ IsFiniteSet(DirNames)
  /\ TempFile \notin Names /\ NoName \notin Names \cup DirNames \cup {TempFile}
  /\ {Columns, Rows} \subseteq Nat \ {0} /\ {MAXFILENUM, MaxDepth, MaxFaults, MaxCuts} \subseteq Nat
  /\ Typed \in Seq(ToSet(Typed)) /\ (ToSet(Typed) \cup {Empty, Torn, Junk}) \cap Huge = {}
  /\ FirstDisk \in [DOMAIN FirstDisk -> Texts]
  /\ \A p \in DOMAIN FirstDisk : /\ p \in AllDirs \X (Names \cup {TempFile})
                                 /\ p[2] = TempFile => FirstDisk[p] \notin Huge

VARIABLES
  text, edited, currentfile, cwdpath, tempfile, temppath, ow, \* the editor's memory
  edited1,                   \* run()'s local copy
  cwd, dirs, disk, workdir,  \* the card: current directory, directories, files, ~WORKDIR.TMP
  at, f, top, mx,            \* what waits; the list's cursor, first entry and columns
  typed, faults, cuts,       \* how often they happened
  own, agreed, held,         \* seen from outside: the text's file, the file that may be
                             \* overwritten, the text that is run
  astray                     \* ... did the user, since the text has its file, go on after a
                             \* failure that moved him, or pick ~TEMP.BAS?

editor == <<text, edited, currentfile, cwdpath>>
names == <<tempfile, temppath, ow>>
card == <<cwd, dirs, disk, workdir>>
list == <<f, top, mx>>
count == <<typed, faults, cuts>>
seen == <<own, agreed, held, astray>>
vars == <<editor, names, edited1, card, at, list, count, seen>>

Init ==
  /\ text = Empty /\ edited = FALSE /\ currentfile = NoName /\ cwdpath = Root
  /\ tempfile = NoName /\ temppath = Root /\ ow = FALSE /\ edited1 = FALSE
  /\ cwd = Root /\ dirs = {Root} \cup {p[1] : p \in DOMAIN FirstDisk} /\ disk = FirstDisk /\ workdir = NoDir
  /\ at = <<"edit">> /\ f = 0 /\ top = 0 /\ mx = Columns
  /\ typed = 0 /\ faults = 0 /\ cuts = 0
  /\ own = <<Root, NoName>> /\ agreed = <<Root, NoName>> /\ held = Empty
  /\ astray = FALSE

Nowhere == <<Root, NoName>>
Here(name) == <<cwd, name>>
On(path) == path \in DOMAIN disk
Without(path) == [p \in DOMAIN disk \ {path} |-> disk[p]]
With(path, t) == [p \in DOMAIN disk \cup {path} |-> IF p = path THEN t ELSE disk[p]]

Is(step) == at[1] = step
Goto(step) == at' = <<step>> \o Tail(at)
Call(step, back) == at' = <<step, back>> \o Tail(at)
Return == at' = Tail(at)

---------------------------------------------------------------------------
\* A call of the file system fails and filesystemretry() asks.
Fail(step) == /\ faults < MaxFaults /\ faults' = faults + 1 /\ UNCHANGED <<typed, cuts>>
              /\ Call("retry", step)

\* f_mount: the volume is mounted anew at the next call, which makes its root
\* the current directory.  These go on there, with the name of a file elsewhere.
Moves(step) == /\ currentfile # NoName /\ cwd # Root
               /\ step \in {"save.cwd", "load.cwd"} \/ (step = "save.write" /\ ow)
Retry == /\ Is("retry") /\ cwd' = Root
         /\ astray' = (astray \/ Moves(at[2]))
         /\ at' = IF at[2] = "save.write" /\ ~ow THEN <<"save.name">> \o SubSeq(at, 3, Len(at)) ELSE Tail(at)
         /\ UNCHANGED <<editor, names, edited1, dirs, disk, workdir, list, count, own, agreed, held>>

\* What the function that asked does when the user gives up; only the end of
\* run() does not listen.  Some stay in another directory than the one they
\* were called in.
Strays(step) == currentfile # NoName /\ step \notin {"save.cwd", "load.cwd"} /\ cwd' # cwdpath
Quit ==
  /\ Is("retry")
  /\ UNCHANGED <<text, edited, currentfile, names, edited1, dirs, disk, workdir, list, count,
                 own, agreed, held>>
  /\ \/ at[2] \in {"run.home", "run.load"} /\ Return /\ UNCHANGED <<cwdpath, cwd, astray>>
     \/ /\ at[2] \notin {"run.home", "run.load"}
        /\ at' = SubSeq(at, 3, Len(at))
        /\ cwdpath' = IF at[2] = "save.write" THEN cwd ELSE cwdpath
        /\ cwd' = IF at[2] \in {"load.list", "run.path"} THEN cwdpath ELSE cwd
        /\ astray' = (astray \/ Strays(at[2]))

---------------------------------------------------------------------------
\* select_dir_file: -2 stands for a new file, -1 for a new directory, then come
\* the parent directory, the directories and the files.
Subs(d) == {n \in DirNames : Append(d, n) \in dirs}
ToParent == ".."
Listing == (IF temppath # Root THEN <<ToParent>> ELSE << >>) \o SetToSeq(Subs(temppath))
           \o SetToSeq({n \in Names \cup {TempFile} : On(<<temppath, n>>)})
FileList == SubSeq(Listing, 1, IF Len(Listing) < MAXFILENUM THEN Len(Listing) ELSE MAXFILENUM)
filenum == Len(FileList)
IsDir(name) == name \in DirNames \cup {ToParent}

\* getfilelist, where something is to be listed.
GetFileList(step, pick) ==
  /\ Is(step) /\ UNCHANGED <<editor, edited1, tempfile, ow, card, mx, seen>>
  /\ \/ temppath' = cwd /\ Goto(pick) /\ f' = -2 /\ top' = -2 /\ UNCHANGED count
     \/ Fail(step) /\ UNCHANGED <<temppath, f, top>>

Page == mx * Rows
Clip(e) == IF e >= filenum THEN filenum - 1 ELSE e
KeyUp == /\ f - mx >= -2 /\ f' = f - mx
         /\ top' = (IF f' < top THEN top - mx ELSE top) /\ UNCHANGED mx
\* Mutant: the cursor may go below the last entry of the last line.
KeyDown_noClip == /\ f - ((f + 2) % mx) + mx < filenum /\ f' = f + mx
                  /\ top' = (IF f' - top >= Page THEN top + mx ELSE top) /\ UNCHANGED mx
KeyDown == /\ f - ((f + 2) % mx) + mx < filenum /\ f' = Clip(f + mx)
           /\ top' = (IF f' - top >= Page THEN top + mx ELSE top) /\ UNCHANGED mx
NotAbove(e) == IF e < -2 THEN -2 ELSE e
KeyPrior == top' = NotAbove(top - Page) /\ f' = NotAbove(f - Page) /\ UNCHANGED mx
KeyNext == /\ top' = (IF top + Page < filenum THEN top + Page ELSE top)
           /\ f' = Clip(f + Page) /\ UNCHANGED mx
KeyLeft == ((f + 2) % mx) > 0 /\ f' = f - 1 /\ UNCHANGED <<top, mx>>
KeyRight == ((f + 2) % mx) + 1 < mx /\ f + 1 < filenum /\ f' = f + 1 /\ UNCHANGED <<top, mx>>
\* F1 shows the time stamps, one entry to a line; F3 sorts.
KeyF1 == mx' = (IF mx = 1 THEN Columns ELSE 1) /\ f' = -2 /\ top' = -2
KeyF3 == f' = -2 /\ top' = -2 /\ UNCHANGED mx
Browse ==
  /\ Is("save.pick") \/ Is("load.pick")
  /\ KeyUp \/ KeyDown \/ KeyPrior \/ KeyNext \/ KeyLeft \/ KeyRight \/ KeyF1 \/ KeyF3
  /\ UNCHANGED <<editor, names, edited1, card, at, count, seen>>

\* The directory of the entry under the cursor, or the parent with Ctrl and up.
GoesTo(name) == IF name = ToParent THEN Front(cwd) ELSE Append(cwd, name)
Enters(name) == IF GoesTo(name) \in dirs' THEN GoesTo(name) ELSE cwd
ChangeDir ==
  /\ Is("save.pick") \/ Is("load.pick")
  /\ Goto(IF Is("save.pick") THEN "save.list" ELSE "load.list")
  /\ \/ /\ f >= 0 /\ IsDir(FileList[f + 1]) /\ tempfile' = FileList[f + 1] /\ UNCHANGED dirs
     \/ /\ filenum > 0 /\ FileList[1] = ToParent /\ tempfile' = ToParent /\ UNCHANGED dirs
     \/ \E n \in DirNames : /\ f = -1 /\ Append(cwd, n) \notin dirs /\ Len(cwd) < MaxDepth
                            /\ tempfile' = n /\ dirs' = dirs \cup {Append(cwd, n)}
  /\ cwd' = Enters(tempfile')
  /\ UNCHANGED <<editor, temppath, ow, edited1, disk, workdir, list, count, seen>>

\* ESC: back to where save_as or fileload began.
PickNone ==
  /\ Is("save.pick") \/ Is("load.pick")
  /\ cwd' = cwdpath /\ Return
  /\ UNCHANGED <<editor, names, edited1, dirs, disk, workdir, list, count, seen>>

---------------------------------------------------------------------------
\* savetextfile: f_open makes an empty file, f_write and f_close fill it.
\* loadtextfile, when the file is there: a text that does not fit leaves none.
Loads(path) == text' = (IF disk[path] \in Huge THEN Empty ELSE disk[path]) /\ edited' = FALSE
NoChange == UNCHANGED <<editor, edited1, card, list, count>>

\* save_as
SaveAs(over) == ow' = (over /\ currentfile # NoName) /\ tempfile' = currentfile
SaveCwd ==
  /\ Is("save.cwd") /\ UNCHANGED <<text, edited, currentfile, names, edited1, card, list, seen>>
  /\ \/ /\ cwdpath' = cwd /\ UNCHANGED count
        /\ Goto(IF ow THEN "save.write" ELSE "save.name")
     \/ Fail("save.cwd") /\ UNCHANGED cwdpath

\* A name is typed; overwritecheck asks when there is such a file.
Name(n, dir, ask) ==
  /\ tempfile' = n /\ Goto(IF On(Here(n)) THEN ask ELSE "save.write")
  /\ agreed' = IF On(Here(n)) THEN agreed ELSE <<dir, n>>
SaveName ==
  /\ Is("save.name") /\ UNCHANGED <<temppath, ow, own, held, astray>> /\ NoChange
  /\ \/ \E n \in Names : Name(n, cwd, "save.ask")
     \/ Goto("save.list") /\ UNCHANGED <<tempfile, agreed>>
Overwrite ==
  /\ Is("save.ask") \/ Is("save.ask2")
  /\ UNCHANGED <<names, own, held, astray>> /\ NoChange
  /\ \/ Goto("save.write") /\ agreed' = <<IF Is("save.ask") THEN cwd ELSE temppath, tempfile>>
     \/ Goto(IF Is("save.ask") THEN "save.name" ELSE "save.list") /\ UNCHANGED agreed
PickForSave ==
  /\ Is("save.pick") /\ UNCHANGED <<temppath, ow, own, held>> /\ NoChange
  /\ \/ \E n \in Names : f = -2 /\ Name(n, temppath, "save.ask2") /\ UNCHANGED astray
     \/ /\ f >= 0 /\ ~IsDir(FileList[f + 1])
        /\ tempfile' = FileList[f + 1] /\ Goto("save.write") /\ agreed' = <<temppath, FileList[f + 1]>>
        /\ astray' = (astray \/ FileList[f + 1] = TempFile)

SaveWrite ==
  /\ Is("save.write") /\ UNCHANGED <<editor, names, edited1, cwd, dirs, workdir, list, seen>>
  /\ \/ disk' = With(Here(tempfile), Torn) /\ Goto("save.writing") /\ UNCHANGED count
     \/ Fail("save.write") /\ UNCHANGED disk
SaveWriting ==
  /\ Is("save.writing") /\ UNCHANGED <<text, names, edited1, cwd, dirs, workdir, list, held>>
  /\ \/ /\ disk' = [p \in DOMAIN disk \ {Here(TempFile)} |-> IF p = Here(tempfile) THEN text ELSE disk[p]]
        /\ currentfile' = tempfile /\ cwdpath' = cwd /\ edited' = FALSE
        /\ own' = Here(tempfile) /\ agreed' = Nowhere /\ astray' = (tempfile = TempFile)
        /\ Return /\ UNCHANGED count
     \/ /\ Fail("save.write") /\ UNCHANGED <<disk, currentfile, cwdpath, edited, own, agreed, astray>>

---------------------------------------------------------------------------
\* newtext
Unsaved == edited /\ text # Empty
NewText(back) == at' = <<IF Unsaved THEN "new.sure" ELSE "new.clear">> \o back
NewSure == /\ Is("new.sure") /\ UNCHANGED <<names, seen>> /\ NoChange
           /\ Return \/ Goto("new.save")
\* "Save the text?" before it makes way
SaveFirst(step, then) ==
  /\ Is(step) /\ UNCHANGED <<temppath, seen>> /\ NoChange
  /\ \/ SaveAs(FALSE) /\ Call("save.cwd", then)
     \/ Goto(then) /\ UNCHANGED <<tempfile, ow>>
NewClear == /\ Is("new.clear") /\ Return
            /\ text' = Empty /\ edited' = FALSE /\ currentfile' = NoName
            /\ own' = Nowhere /\ astray' = FALSE
            /\ UNCHANGED <<cwdpath, names, edited1, card, list, count, agreed, held>>

\* fileload
LoadCwd ==
  /\ Is("load.cwd") /\ UNCHANGED <<text, edited, currentfile, names, edited1, card, list, seen>>
  /\ \/ cwdpath' = cwd /\ Goto("load.list") /\ UNCHANGED count
     \/ Fail("load.cwd") /\ UNCHANGED cwdpath

Loadable == IF f = -2 THEN Names
              ELSE {n \in {FileList[i] : i \in 1 .. filenum} : f >= 0 /\ n = FileList[f + 1] /\ ~IsDir(n)}
Named(n) == /\ currentfile' = n /\ cwdpath' = cwd /\ Return
            /\ own' = <<temppath, n>> /\ astray' = (n = TempFile)
PickForLoad ==
  /\ Is("load.pick") /\ UNCHANGED <<temppath, ow, edited1, card, list, agreed, held>>
  /\ \E n \in Loadable :
       /\ tempfile' = n
       /\ \/ On(Here(n)) /\ disk[Here(n)] \notin Huge /\ Loads(Here(n)) /\ Named(n) /\ UNCHANGED count
          \/ /\ On(Here(n)) /\ disk[Here(n)] \in Huge /\ Loads(Here(n)) /\ Goto("load.list")
             /\ UNCHANGED <<currentfile, cwdpath, own, astray, count>>
          \* f_open fails: a typed name begins a new text
          \/ /\ On(Here(n)) => faults < MaxFaults
             /\ faults' = (IF On(Here(n)) THEN faults + 1 ELSE faults) /\ UNCHANGED <<typed, cuts>>
             /\ IF f = -2 THEN text' = Empty /\ edited' = FALSE /\ Named(n)
                ELSE Goto("load.list") /\ UNCHANGED <<editor, own, astray>>

---------------------------------------------------------------------------
\* run: the path and the text are put by, as compiler and program use the
\* editor's memory.
NoNames == UNCHANGED <<text, edited, currentfile, names, list, own, agreed, astray>>
RunRoot ==
  /\ Is("run.root") /\ NoNames /\ UNCHANGED <<cwdpath, edited1, dirs, disk, held>>
  /\ \/ cwd' = Root /\ workdir' = Root /\ Goto("run.path") /\ UNCHANGED count
     \/ Fail("run.root") /\ UNCHANGED <<cwd, workdir>>
     \/ cwd' = Root /\ Fail("run.path") /\ UNCHANGED workdir
\* Mutant: the path is asked for in the root directory.
RunPath_late ==
  /\ Is("run.path") /\ NoNames /\ UNCHANGED <<cwdpath, edited1, cwd, dirs, disk, held>>
  /\ \/ workdir' = cwd /\ Goto("run.back") /\ UNCHANGED count
     \/ workdir' = NoDir /\ Fail("run.path")
RunPath ==
  /\ Is("run.path") /\ NoNames /\ UNCHANGED <<cwdpath, edited1, cwd, dirs, disk, held>>
  /\ \/ workdir' = cwdpath /\ Goto("run.back") /\ UNCHANGED count
     \/ workdir' = NoDir /\ Fail("run.path")
RunBack ==
  /\ Is("run.back") /\ NoNames /\ UNCHANGED <<cwdpath, edited1, dirs, workdir, held>>
  /\ \/ /\ cwd' = cwdpath /\ disk' = With(<<cwdpath, TempFile>>, Torn) /\ Goto("run.temp") /\ UNCHANGED count
     \/ Fail("run.back") /\ UNCHANGED <<cwd, disk>>
     \/ cwd' = cwdpath /\ Fail("run.back") /\ UNCHANGED disk
RunTemp ==
  /\ Is("run.temp") /\ NoNames /\ UNCHANGED <<cwdpath, cwd, dirs, workdir>>
  /\ \/ /\ disk' = With(Here(TempFile), text) /\ edited1' = edited /\ held' = text
        /\ Goto("run.go") /\ UNCHANGED count
     \/ Fail("run.back") /\ UNCHANGED <<disk, edited1, held>>

\* Compiler and program leave any current directory; the files here are not theirs.
RunGo == /\ Is("run.go") /\ Goto("run.end")
         /\ text' = Junk /\ cwdpath' = NoDir /\ temppath' = Root /\ cwd' \in dirs
         /\ UNCHANGED <<edited, currentfile, tempfile, ow, edited1, dirs, disk, workdir, list, count, seen>>
\* "Hit any key"
RunEnd == /\ Is("run.end") /\ Goto("run.home")
          /\ UNCHANGED <<editor, names, edited1, card, list, count, seen>>

RunHome ==
  /\ Is("run.home") /\ NoNames /\ UNCHANGED <<edited1, dirs, disk, held>>
  /\ \/ /\ cwd' = Root /\ cwdpath' = workdir /\ workdir' = NoDir /\ Goto("run.load") /\ UNCHANGED count
     \/ cwd' \in {cwd, Root} /\ Fail("run.home") /\ UNCHANGED <<cwdpath, workdir>>
RunLoad ==
  /\ Is("run.load") /\ UNCHANGED <<currentfile, cwdpath, names, edited1, dirs, workdir, list, seen>>
  /\ \/ /\ cwd' = cwdpath /\ On(<<cwdpath, TempFile>>) /\ Loads(<<cwdpath, TempFile>>) /\ Goto("run.done") /\ UNCHANGED <<disk, count>>
     \/ cwd' \in {cwd, cwdpath} /\ Fail("run.load") /\ UNCHANGED <<text, edited, disk>>
RunDone == /\ Is("run.done") /\ Return
           /\ edited' = edited1 /\ disk' = Without(Here(TempFile))
           /\ UNCHANGED <<text, currentfile, cwdpath, names, edited1, cwd, dirs, workdir, list, count, seen>>

Run == \/ RunRoot \/ RunPath \/ RunBack \/ RunTemp \/ RunGo \/ RunEnd \/ RunHome \/ RunLoad \/ RunDone

---------------------------------------------------------------------------
\* Keys of the editor
Editing == at = <<"edit">>
Type ==
  /\ Editing /\ edited' = TRUE
  /\ \/ typed < Len(Typed) /\ typed' = typed + 1 /\ text' = Typed[typed + 1]
     \/ text # Empty /\ text' = Empty /\ UNCHANGED typed
  /\ UNCHANGED <<currentfile, cwdpath, names, edited1, card, at, list, faults, cuts, seen>>
SaveKey ==
  /\ Editing /\ text # Empty /\ \E over \in BOOLEAN : SaveAs(over)
  /\ at' = <<"save.cwd", "edit">> /\ UNCHANGED <<temppath, seen>> /\ NoChange
NewKey == Editing /\ NewText(at) /\ UNCHANGED <<names, seen>> /\ NoChange
LoadKey == /\ Editing /\ at' = <<IF Unsaved THEN "load.save" ELSE "load.cwd", "edit">>
           /\ UNCHANGED <<names, seen>> /\ NoChange
RunKey == /\ Editing /\ text # Empty /\ cwdpath' = cwd /\ at' = <<"run.root", "edit">>
          /\ UNCHANGED <<text, edited, currentfile, names, edited1, card, list, count, seen>>

\* texteditor, from the loss of power to the first key
LoadsTemp(path) == IF <<path, TempFile>> \in DOMAIN disk THEN disk[<<path, TempFile>>] ELSE Empty
PowerCut ==
  /\ cuts < MaxCuts /\ cuts' = cuts + 1 /\ at' = <<"start">>
  /\ text' = Empty /\ edited' = FALSE /\ currentfile' = NoName /\ cwdpath' = Root
  /\ tempfile' = NoName /\ temppath' = Root /\ ow' = FALSE /\ edited1' = FALSE /\ cwd' = Root
  /\ f' = 0 /\ top' = 0 /\ mx' = Columns /\ own' = Nowhere /\ agreed' = Nowhere /\ held' = Empty
  /\ astray' = FALSE /\ UNCHANGED <<dirs, disk, workdir, typed, faults>>
Start ==
  /\ Is("start") /\ Goto("edit")
  /\ IF workdir \in dirs /\ <<workdir, TempFile>> \in DOMAIN disk
     THEN text' = disk[<<workdir, TempFile>>] /\ edited' = TRUE /\ cwdpath' = workdir /\ cwd' = workdir
     ELSE UNCHANGED <<text, edited, cwdpath, cwd>>
  /\ UNCHANGED <<currentfile, names, edited1, dirs, disk, workdir, list, count, seen>>

Next ==
  \/ Type \/ SaveKey \/ NewKey \/ LoadKey \/ RunKey
  \/ SaveCwd \/ SaveName \/ Overwrite \/ SaveWrite \/ SaveWriting
  \/ GetFileList("save.list", "save.pick") \/ GetFileList("load.list", "load.pick")
  \/ Browse \/ ChangeDir \/ PickNone \/ PickForSave
  \/ NewSure \/ SaveFirst("new.save", "new.clear") \/ NewClear
  \/ SaveFirst("load.save", "load.cwd") \/ LoadCwd \/ PickForLoad
  \/ Run \/ Retry \/ Quit \/ PowerCut \/ Start
Spec == Init /\ [][Next]_vars

---------------------------------------------------------------------------
\* The entry under the cursor of the list exists and is on the screen
\* (select_dir_file), whatever the size of the list.
SelectionShown ==
  Is("save.pick") \/ Is("load.pick") => top <= f /\ f < top + Page /\ f < filenum

Busy == (IF Is("retry") THEN at[2] ELSE at[1]) \in {"run.go", "run.end", "run.home", "run.load"}
DeskText == IF Busy THEN held
            ELSE IF Is("start") THEN IF workdir \in dirs THEN LoadsTemp(workdir) ELSE Empty
            ELSE text
Phase == IF Is("run.go") \/ Is("run.end") THEN "running" ELSE IF Busy THEN "returning" ELSE "desk"
AllPaths == AllDirs \X Names
Shelf == [p \in AllPaths |-> IF On(p) THEN disk[p] ELSE Empty]
Spare == {disk[p] : p \in {q \in DOMAIN disk : q[2] = TempFile}}

\* The editor keeps the promises of Desk: no file is overwritten but the text's
\* own and the one the user agreed to, unless he went astray; and a run gives the
\* text back, even when power is lost before the key that ends it.
D == INSTANCE Desk WITH
       text <- DeskText, own <- own, shelf <- Shelf, agreed <- agreed, phase <- Phase, spare <- Spare,
       Paths <- AllPaths, NoPath <- Nowhere
IsDesk == D!Spec

\* What a user would expect and the code does not keep: no file is overwritten
\* but the text's own and the one he agreed to, astray or not.
NoneLost == [][\A p \in AllPaths : On(p) /\ Shelf'[p] # Shelf[p] => p \in {own, agreed}]_vars
---------------------------------------------------------------------------
(* The instance that is model-checked.  At first there is one file, which  *)
(* is too long for the editor.                                             *)
SomeDisk == [p \in {<<Root, "A">>} |-> "long"]
SomeTyped == <<"one">>

\* What the editor may still look at: between two commands neither the list
\* nor the names of the last one.
Picking == at[1] \in {"save.pick", "load.pick"}
Live == <<text, edited, currentfile, card, at, mx, count, own, agreed, astray,
          IF Busy \/ at[1] = "run.done" THEN <<edited1, held>> ELSE << >>,
          IF Picking THEN <<f, top>> ELSE << >>,
          IF at = <<"edit">> THEN << >> ELSE <<cwdpath, tempfile, ow>>,
          IF Picking \/ at[1] = "save.ask2" THEN temppath ELSE << >>>>
=============================================================================
