------------------------------ MODULE FileStore ------------------------------
(* What the file statements promise a BASIC program: a tree of files and      *)
(* directories, two handles, and a loss of power at any moment, after which   *)
(* everything is as it was before or after the statement, but for the files   *)
(* that were being written.  Nothing of clusters, windows or buffers.         *)
EXTENDS Integers, Sequences, SequencesExt, FiniteSetsExt, Functions

CONSTANTS
  Paths,      \* the paths a program names: [abs, seg]
  Data,       \* what it writes in one statement
  Bytes,      \* what a file may hold
  MaxLen      \* longest file

VARIABLES
  tree,       \* path (sequence of names) -> [dir, data]
  cwd,        \* the current directory's path
  open,       \* handle -> NotOpen or [path, pos, rd, wr, mod]
  active,     \* the handle that FGET, FPUT, ... use
  room,       \* clusters that are known to be free
  told        \* the last statement, and what it gave to the program

vars == <<tree, cwd, open, active, room, told>>

Handles == {1, 2}
NotOpen == [path |-> <<>>, pos |-> 0, rd |-> FALSE, wr |-> FALSE, mod |-> FALSE]
Off     == [h \in Handles |-> NotOpen]
Dir     == [dir |-> TRUE, data |-> <<>>]
Holding(d) == [dir |-> FALSE, data |-> d]

Where(p) == FoldLeft(LAMBDA s, n : IF n # ".." THEN Append(s, n) ELSE IF s = <<>> THEN s ELSE Front(s),
                     IF p.abs THEN <<>> ELSE cwd, p.seg)
IsDir(p)  == p = <<>> \/ (p \in DOMAIN tree /\ tree[p].dir)
IsFile(p) == p \in DOMAIN tree /\ ~tree[p].dir
Without(p) == Restrict(tree, DOMAIN tree \ {p})
With(p, x) == [q \in DOMAIN tree \cup {p} |-> IF q = p THEN x ELSE tree[q]]

\* Files whose bytes a handle of o may not have saved.
Risky(o) == {o[h].path : h \in {k \in Handles : o[k].mod}}

Init == tree = <<>> /\ cwd = <<>> /\ open = Off /\ active = 1 /\ room \in Nat /\ told = <<>>

\* Power is lost in statement s, which makes t and o of the tree and the handles.
Cut(s, t, o) ==
  LET risky == Risky(open) \cup Risky(o)
  IN  /\ told' = <<s, "cut", 0>> /\ open' = Off /\ cwd' = <<>> /\ active' = 1
      /\ \E old \in {tree, t} : /\ DOMAIN old \ risky = DOMAIN tree' \ risky
                                /\ \A p \in DOMAIN old \ risky : tree'[p] = old[p]

\* The statement s is done and gave x, or power is lost in it.
Becomes(s, t, o, c, x) ==
  \/ tree' = t /\ open' = o /\ cwd' = c /\ told' = <<s, "done", x>> /\ UNCHANGED active
  \/ Cut(s, t, o)
Stops(s, t, o) ==
  \/ tree' = t /\ open' = Off /\ active' = 1 /\ told' = <<s, "done", 0>> /\ UNCHANGED cwd
  \/ Cut(s, t, o)
Gives(s, x) == Becomes(s, tree, open, cwd, x)

FOPEN(s) ==
  LET h   == s.h
      p   == Where(s.path)
      new == s.mode \in {"w", "w+"} \/ ~IsFile(p)
      f   == [path |-> p, pos |-> IF s.mode \in {"a", "a+"} /\ ~new THEN Len(tree[p].data) ELSE 0,
              rd |-> s.mode \notin {"w", "a"}, wr |-> s.mode # "r", mod |-> new]
      Fails == Becomes(s, tree, [open EXCEPT ![h] = NotOpen], cwd, 0)
  IN  IF IsDir(p) \/ ~IsDir(Front(p)) \/ (s.mode \in {"r", "r+"} /\ new) THEN Fails
      ELSE \/ Becomes(s, IF new THEN With(p, Holding(<<>>)) ELSE tree, [open EXCEPT ![h] = f], cwd, h)
           \/ ~IsFile(p) /\ room = 0 /\ Fails              \* the directory cannot grow

FCLOSE(s) == Becomes(s, tree, [open EXCEPT ![s.h] = NotOpen], cwd, 0)
END(s)    == Stops(s, tree, open)
FILE(s)   == active' = s.h /\ told' = <<s, "done", 0>> /\ UNCHANGED <<tree, cwd, open, room>>

Unread(f) == IF f.rd THEN SubSeq(tree[f.path].data, f.pos + 1, Len(tree[f.path].data)) ELSE <<>>
FGET(s) ==
  LET d == SubSeq(Unread(open[active]), 1, Min({s.n, Len(Unread(open[active]))}))
  IN  Becomes(s, tree, [open EXCEPT ![active].pos = @ + Len(d)], cwd, d)

\* A line: what is up to the end of the line, with it, but its carriage returns.
FINPUT(s) ==
  LET d    == Unread(open[active])
      ends == {i \in DOMAIN d : d[i] = 10 \/ Len(SelectSeq(SubSeq(d, 1, i), LAMBDA c : c # 13)) = s.n}
      got  == SubSeq(d, 1, IF ends = {} THEN Len(d) ELSE Min(ends))
  IN  Becomes(s, tree, [open EXCEPT ![active].pos = @ + Len(got)], cwd, SelectSeq(got, LAMBDA c : c # 13))

\* The tree and the handles with the bytes d written by the active handle.
Longer(d) ==
  LET f   == open[active]
      old == tree[f.path].data
  IN  With(f.path, Holding([i \in 1 .. Max({Len(old), f.pos + Len(d)}) |->
                             IF i > f.pos /\ i <= f.pos + Len(d) THEN d[i - f.pos] ELSE old[i]]))
Further(d) == [open EXCEPT ![active].pos = @ + Len(d), ![active].mod = TRUE]

\* Fewer bytes than asked for when the card is full.
FPUT(s) ==
  IF ~open[active].wr THEN Gives(s, 0)
  ELSE \E n \in 0 .. Len(s.data) : LET d == SubSeq(s.data, 1, n)
                                   IN  /\ d = s.data \/ room' = 0 \/ told'[2] = "cut"
                                       /\ Becomes(s, Longer(d), Further(d), cwd, n)

\* A text, its ends of lines as two bytes; when it cannot be written the program ends.
FPRINT(s) ==
  LET all == FoldLeft(LAMBDA t, c : IF c = 10 THEN t \o <<13, 10>> ELSE Append(t, c), <<>>, s.data)
  IN  IF ~open[active].wr THEN Stops(s, tree, open)
      ELSE \/ Becomes(s, Longer(all), Further(all), cwd, 0)
           \/ \E n \in 0 .. Len(all) - 1 : /\ room' = 0 \/ told'[2] = "cut"
                                           /\ Stops(s, Longer(SubSeq(all, 1, n)), Further(SubSeq(all, 1, n)))

\* Behind the end the file grows, by bytes that nobody wrote.
FSEEK(s) ==
  LET f   == open[active]
      old == tree[f.path].data
  IN  IF f.path = <<>> THEN Gives(s, 0)
      ELSE IF s.n <= Len(old) \/ ~f.wr
        THEN Becomes(s, tree, [open EXCEPT ![active].pos = Min({s.n, Len(old)})], cwd, 0)
      ELSE \E n \in Len(old) .. s.n : \E x \in [1 .. n - Len(old) -> Bytes] :
             /\ n = s.n \/ room' = 0 \/ told'[2] = "cut"
             /\ Becomes(s, With(f.path, Holding(old \o x)),
                        [open EXCEPT ![active].pos = n, ![active].mod = @ \/ n > Len(old)], cwd, 0)

Children(p) == {q \in DOMAIN tree : Len(q) = Len(p) + 1 /\ SubSeq(q, 1, Len(p)) = p}

FREMOVE(s) ==
  LET p == Where(s.path)
  IN  IF p \notin DOMAIN tree \/ (tree[p].dir /\ (p = cwd \/ Children(p) # {})) THEN Gives(s, -1)
      ELSE Becomes(s, Without(p), open, cwd, 0)

\* What lies in a directory that is renamed goes along, open or not.
Along(p, q, x) == IF IsPrefix(p, x) THEN q \o SubSeq(x, Len(p) + 1, Len(x)) ELSE x
FRENAME(s) ==
  LET p == Where(s.path)
      q == Where(s.new)
      There(x) == Along(p, q, x)
      t == [x \in {There(y) : y \in DOMAIN tree} |-> tree[CHOOSE y \in DOMAIN tree : There(y) = x]]
  IN  IF p \notin DOMAIN tree \/ q = <<>> \/ ~IsDir(Front(q)) \/ (q # p /\ q \in DOMAIN tree) \/ Last(s.path.seg) = ".."
        THEN Gives(s, -1)
      ELSE \/ Becomes(s, t, [h \in Handles |-> [open[h] EXCEPT !.path = IF @ = <<>> THEN @ ELSE There(@)]], There(cwd), 0)
           \/ room = 0 /\ Gives(s, -1)

MKDIR(s) ==
  LET p == Where(s.path)
  IN  IF p \in DOMAIN tree \/ p = <<>> \/ ~IsDir(Front(p)) THEN Gives(s, -1)
      ELSE \/ Becomes(s, With(p, Dir), open, cwd, 0)
           \/ room < 2 /\ Gives(s, -1)

\* A failure gives 5.
SETDIR(s) ==
  LET p == Where(s.path)
  IN  IF IsDir(p) THEN Becomes(s, tree, open, p, 0) ELSE Gives(s, 5)

GETDIR(s) == Gives(s, cwd)

Statement(s) ==
  CASE s.op = "FOPEN"   -> FOPEN(s)
    [] s.op = "FCLOSE"  -> FCLOSE(s)
    [] s.op = "END"     -> END(s)
    [] s.op = "FILE"    -> FILE(s)
    [] s.op = "FGET"    -> FGET(s)
    [] s.op = "FINPUT"  -> FINPUT(s)
    [] s.op = "FPUT"    -> FPUT(s)
    [] s.op = "FPRINT"  -> FPRINT(s)
    [] s.op = "FSEEK"   -> FSEEK(s)
    [] s.op = "FREMOVE" -> FREMOVE(s)
    [] s.op = "FRENAME" -> FRENAME(s)
    [] s.op = "MKDIR"   -> MKDIR(s)
    [] s.op = "SETDIR"  -> SETDIR(s)
    [] s.op = "GETDIR"  -> GETDIR(s)

Modes == {"r", "r+", "w", "w+", "a", "a+"}
Statements ==
  [op : {"FOPEN"}, h : Handles, path : Paths, mode : Modes] \cup [op : {"FCLOSE", "FILE"}, h : Handles] \cup
  [op : {"FGET", "FINPUT", "FSEEK"}, n : 0 .. MaxLen] \cup [op : {"FPUT", "FPRINT"}, data : Data] \cup
  [op : {"FREMOVE", "MKDIR", "SETDIR"}, path : Paths] \cup [op : {"FRENAME"}, path : Paths, new : Paths] \cup
  [op : {"END", "GETDIR"}]

\* One of the statements; told says which.
Next == told'[1] \in Statements /\ Statement(told'[1])
Spec == Init /\ [][Next]_vars
==============================================================================
