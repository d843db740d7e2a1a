------------------------------- MODULE Storage -------------------------------
(* file.c: the file statements of a BASIC program, over the volume of         *)
(* FatFiles: two handles, and power that may be lost before any sector is     *)
(* written, after which the volume is mounted again.                          *)
EXTENDS FatFiles, Functions

CONSTANTS
  Cards,      \* the volumes and handles to begin with: [vol, fil]
  Files,      \* the paths of FOPEN and FREMOVE: [abs, seg]
  Dirs,       \* those of MKDIR, SETDIR and FREMOVE
  Renames,    \* <<old, new>> of FRENAME
  OpenModes,  \* modes of FOPEN that are used
  Data,       \* what is written in one statement
  Lengths,    \* what is read in one statement, and where FSEEK goes to
  MaxLen,     \* bytes of the longest file
  MaxCalls,   \* statements of a behaviour
  CutInRename,\* power may be lost in FRENAME, which is not atomic (ff.c:5141)
  Careless,   \* the program opens, removes and renames files that are open
  PlaysWave   \* core 1 reads a wave file during the statements

VARIABLES
  vol,        \* g_FatFs, and the card
  fil,        \* g_pFileHandles: NoFil or the FIL
  active,     \* g_active_handle
  told,       \* the last statement, and what it gave to the program
  calls       \* statements so far

vars == <<vol, fil, active, told, calls>>

Handles == {1, 2}
NoFil   == [at |-> NoPlace, rd |-> FALSE, wr |-> FALSE, size |-> 0, sclust |-> 0, ptr |-> 0, clust |-> 0,
            sect |-> 0, buf |-> Filled(SS, 0), dirty |-> FALSE, mod |-> FALSE, id |-> 0]
AllClosed == [h \in Handles |-> NoFil]

Init == (\E c \in Cards : vol = c.vol /\ fil = c.fil) /\ active = 1 /\ told = <<>> /\ calls = 0

\* The volume at the start of a statement; core 1 may be about to follow any cluster.
Starts == LET v == [vol EXCEPT !.seen = {vol.disk}]
          IN  {v} \cup {[v EXCEPT !.wave = c] : c \in IF PlaysWave THEN 3 .. NClst + 1 ELSE {}}

\* Statement s is done and gave x, or power was lost before one of its writes.
\* The system starts again with init_file_system and, before it runs a program,
\* with close_all_files; mounts after the second one are not told apart.
Ends(s, v, f, x) ==
  /\ calls < MaxCalls /\ calls' = calls + 1
  /\ \/ vol' = [v EXCEPT !.seen = {}, !.wave = 0] /\ fil' = f /\ told' = <<s, "done", x>> /\ UNCHANGED active
     \/ /\ fil' = AllClosed /\ active' = 1 /\ told' = <<s, "cut", 0>>
        /\ s.op = "FRENAME" => CutInRename
        /\ \E d \in v.seen : vol' = [mount_volume(d, 2) EXCEPT !.seen = {}]

Stops(s, v) ==
  /\ calls < MaxCalls /\ calls' = calls + 1 /\ fil' = AllClosed /\ active' = 1
  /\ \/ vol' = [v EXCEPT !.seen = {}, !.wave = 0] /\ told' = <<s, "done", 0>>
     \/ told' = <<s, "cut", 0>> /\ \E d \in v.seen : vol' = [mount_volume(d, 2) EXCEPT !.seen = {}]

Closed(v, h, f) == IF f[h].id # 0 THEN f_close(v, f[h]) ELSE v
close_all_files(v, f) == Closed(Closed(v, 1, f), 2, f)

\* Handles other than h that have the file of the path open.
Holders(h, path) ==
  LET w == follow_path(vol, path)
  IN  {k \in Handles \ {h} : fil[k].id # 0 /\ w.res = "OK" /\ fil[k].at = w.at}

\* lib_fopen_main.  When the file cannot be opened but "." can be, which it can
\* while the card is in, it is not mounted and tried again.
FOPEN(h, path, m) ==
  /\ Careless \/ \A k \in Holders(h, path) : ~Writes(m) /\ ~fil[k].wr
  /\ \E r \in {f_open(Closed(v, h, fil), path, m) : v \in Starts} :
       LET s == [op |-> "FOPEN", h |-> h, path |-> path, mode |-> m]
       IN  IF r.res THEN Ends(s, r.v, [fil EXCEPT ![h] = r.f], h)
           ELSE Ends(s, follow_path(r.v, [abs |-> FALSE, seg |-> <<".">>]).v, [fil EXCEPT ![h] = NoFil], 0)

FCLOSE(h) ==
  \E v \in Starts : Ends([op |-> "FCLOSE", h |-> h], Closed(v, h, fil), [fil EXCEPT ![h] = NoFil], 0)

FILE(h) ==
  /\ calls < MaxCalls /\ calls' = calls + 1
  /\ active' = h /\ told' = <<[op |-> "FILE", h |-> h], "done", 0>> /\ UNCHANGED <<vol, fil>>

\* f_read, f_write and f_lseek refuse the handle of no file.
FGET(n) ==
  \E r \in {f_read(v, fil[active], n) : v \in Starts} :
    Ends([op |-> "FGET", n |-> n], r.v, [fil EXCEPT ![active] = r.f], r.data)

FINPUT(n) ==
  \E r \in {f_gets(v, fil[active], n, <<>>) : v \in Starts} :
    Ends([op |-> "FINPUT", n |-> n], r.v, [fil EXCEPT ![active] = r.f], r.data)

FPUT(d) ==
  /\ fil[active].ptr + Len(d) <= MaxLen
  /\ \E r \in {f_write(v, fil[active], d) : v \in Starts} :
       Ends([op |-> "FPUT", data |-> d], r.v, [fil EXCEPT ![active] = r.f], r.n)

\* fprintstr: what cannot be written ends the program, which closes the files.
FPRINT(d) ==
  /\ fil[active].ptr + Len(TwoBytes(d)) <= MaxLen
  /\ \E r \in {f_puts(v, fil[active], d) : v \in Starts} :
       LET s == [op |-> "FPRINT", data |-> d]
           f == [fil EXCEPT ![active] = r.f]
       IN  IF r.n = Len(TwoBytes(d)) /\ Valid(vol, fil[active]) THEN Ends(s, r.v, f, 0)
           ELSE Stops(s, close_all_files(r.v, f))

FSEEK(n) ==
  \E r \in {f_lseek(v, fil[active], n) : v \in Starts} :
    Ends([op |-> "FSEEK", n |-> n], r.v, [fil EXCEPT ![active] = r.f], 0)

\* FREMOVE, FRENAME and MKDIR give 0 or -1.
Answers(s, r) == Ends(s, r.v, fil, IF r.res THEN 0 ELSE -1)

FREMOVE(path) ==
  /\ Careless \/ Holders(0, path) = {}
  /\ \E r \in {f_unlink(v, path) : v \in Starts} : Answers([op |-> "FREMOVE", path |-> path], r)

\* A directory is not moved into itself.
FRENAME(old, new) ==
  LET o == follow_path(vol, old)
      w == follow_path(vol, new)
  IN  /\ Careless \/ (Holders(0, old) = {} /\ Holders(0, new) = {})
      /\ o.at # NoPlace => w.dir # Entry(vol, o.at).clst
      /\ \E r \in {f_rename(v, old, new) : v \in Starts} :
           Answers([op |-> "FRENAME", path |-> old, new |-> new], r)

MKDIR(path) ==
  \E r \in {f_mkdir(v, path) : v \in Starts} : Answers([op |-> "MKDIR", path |-> path], r)

\* SETDIR gives the code of f_chdir itself, which is FR_NO_PATH when it fails here.
SETDIR(path) ==
  \E r \in {f_chdir(v, path) : v \in Starts} :
    Ends([op |-> "SETDIR", path |-> path], r.v, fil, IF r.res THEN 0 ELSE FR_NO_PATH)

GETDIR == \E r \in {f_getcwd(v) : v \in Starts} : Ends([op |-> "GETDIR"], r.v, fil, r.path)

\* The end of the program: post_run.
END == \E v \in Starts : Stops([op |-> "END"], close_all_files(v, fil))

Next ==
  \/ \E h \in Handles : FCLOSE(h) \/ FILE(h) \/ \E p \in Files, m \in OpenModes : FOPEN(h, p, m)
  \/ \E n \in Lengths : FGET(n) \/ FINPUT(n) \/ FSEEK(n)
  \/ \E d \in Data : FPUT(d) \/ FPRINT(d)
  \/ \E p \in Files \cup Dirs : FREMOVE(p)
  \/ \E p \in Dirs : MKDIR(p) \/ SETDIR(p)
  \/ \E p \in Renames : FRENAME(p[1], p[2])
  \/ GETDIR \/ END

Spec == Init /\ [][Next]_vars

------------------------------------------------------------------------------
(* What the program would see of the card now: the mapping to FileStore       *)

Writer(f, p) == {h \in Handles : f[h].at = p /\ f[h].wr}

\* [size, clst] of the file of entry p, for the handle that writes it or from the entry.
Extent(v, f, p) ==
  IF Writer(f, p) = {} THEN Entry(v, p)
  ELSE LET g == f[CHOOSE h \in Writer(f, p) : TRUE] IN [size |-> g.size, clst |-> g.sclust]

Sector(v, f, p, c) ==
  LET hs == {h \in Writer(f, p) : f[h].dirty /\ f[h].sect = clst2sect(c)}
  IN  IF hs = {} THEN disk_read(v, clst2sect(c)) ELSE f[CHOOSE h \in hs : TRUE].buf

Content(v, f, p) ==
  LET x == Extent(v, f, p)
  IN  Take(FoldLeft(LAMBDA s, c : s \o Sector(v, f, p, c), <<>>, Chain(v, x.clst)), x.size)

\* The paths below directory d, to a depth, with the places of their entries.
RECURSIVE Listed(_, _, _, _)
Listed(v, d, path, depth) ==
  LET ps   == Places(v, d)
      ends == {i \in DOMAIN ps : Entry(v, ps[i]).name = ""}
      here == {ps[i] : i \in {k \in DOMAIN ps : /\ \A x \in ends : k < x
                                                /\ Entry(v, ps[k]).name \notin {"?", ".", ".."}}}
      Below(p) == IF Entry(v, p).dir /\ depth > 0
                  THEN Listed(v, Entry(v, p).clst, Append(path, Entry(v, p).name), depth - 1) ELSE {}
  IN  {[path |-> Append(path, Entry(v, p).name), at |-> p] : p \in here} \cup UNION {Below(p) : p \in here}
Entries(v) == Listed(v, 0, <<>>, 3)

FreeClusters(v) == {c \in 2 .. NClst + 1 : Fat(v, c) = 0}
NotOpen == [path |-> <<>>, pos |-> 0, rd |-> FALSE, wr |-> FALSE, mod |-> FALSE]

Seen(v, f) ==
  LET es == Entries(v)
      PathOf(p) == (CHOOSE e \in es : e.at = p).path
      Holds(q) ==
        LET p == (CHOOSE x \in es : x.path = q).at
        IN  [dir |-> Entry(v, p).dir, data |-> IF Entry(v, p).dir THEN <<>> ELSE Content(v, f, p)]
      Opened(g) == IF g.id = 0 THEN NotOpen
                   ELSE [path |-> PathOf(g.at), pos |-> g.ptr, rd |-> g.rd, wr |-> g.wr, mod |-> g.mod]
  IN  [tree |-> [q \in {e.path : e \in es} |-> Holds(q)],
       cwd  |-> IF v.cdir = 0 THEN <<>> ELSE (CHOOSE e \in es : Entry(v, e.at).dir /\ Entry(v, e.at).clst = v.cdir).path,
       open |-> [h \in Handles |-> Opened(f[h])],
       room |-> Min({v.free, Cardinality(FreeClusters(v))})]

------------------------------------------------------------------------------
(* Properties                                                                 *)

\* The chain of an entry ends, and is long enough for the size.
Whole(v, x) ==
  LET cs == Chain(v, x.clst)
  IN  /\ cs # <<>> => Fat(v, Last(cs)) = EOC
      /\ x.clst # 0 => cs # <<>> /\ Fat(v, x.clst) # 0
      /\ Len(cs) * SS >= x.size

\* Whatever statements the program runs, and wherever power was lost, no cluster
\* belongs to two files or directories, the chain of each is whole, and as long as
\* power was never lost every cluster in use belongs to one of them and the count
\* of free clusters is true: FatFs writes the FAT, the directories and the data in
\* such an order through its one window.
Sound(v, f) ==
  LET es   == Entries(v)
      root == Range(Table(v, 0))
      cs   == [e \in es |-> Range(Chain(v, Extent(v, f, e.at).clst))]
  IN  /\ \A e \in es : Whole(v, Extent(v, f, e.at)) /\ root \cap cs[e] = {}
      /\ \A e, x \in es : e # x => cs[e] \cap cs[x] = {} /\ e.path # x.path
      /\ v.id = 1 => /\ v.free = Cardinality(FreeClusters(v))
                     /\ (2 .. NClst + 1) \ FreeClusters(v) = root \cup UNION {cs[e] : e \in es}
VolumeSound == Sound(vol, fil)
==============================================================================
