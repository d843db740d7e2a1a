------------------------------ MODULE FatVolume ------------------------------
(* interface/ff.c: a FAT32 volume on the SD card and the FatFs functions that *)
(* the rest of the system calls, as operators on a record v:                  *)
(*   disk    what the sectors of the card hold                                *)
(*   win, winsect, wflag   the one-sector window and whether it is dirty      *)
(*   last, free, fsi       last_clst, free_clst and fsi_flag                  *)
(*   cdir, id              the current directory and the mount's number       *)
(*   wave    a cluster that core 1 follows meanwhile (0: none), see put_fat   *)
(*   seen    every image of the card since the call began: what a loss of     *)
(*           power inside the call may leave                                  *)
(* A cluster is one sector, a byte any value, a name a string; time stamps,   *)
(* attributes but the directory's, the second FAT and boot sectors are left   *)
(* out.  FF_FS_TINY, FF_USE_LFN, FF_FS_EXFAT and FF_FS_LOCK are 0.            *)
EXTENDS Integers, Sequences, FiniteSets, SequencesExt, FiniteSetsExt

CONSTANTS
  NClst,      \* clusters of the volume: 2 .. NClst+1
  SS,         \* bytes of a sector
  FatSlots,   \* FAT entries of a sector
  DirSlots    \* directory entries of a sector

ASSUME SizesAssumption == /\ {NClst, SS, FatSlots} \subseteq Nat \ {0}
                          /\ DirSlots \in Nat /\ DirSlots > 2 /\ DirSlots # SS

n_fatent == NClst + 2
Root     == 2
EOC      == 99999
Info     == 0
FatSect(c)   == 1 + (c \div FatSlots)
Slot(c)      == (c % FatSlots) + 1
clst2sect(c) == FatSect(n_fatent - 1) + c - 1
Sectors      == 0 .. clst2sect(n_fatent - 1)
NoPlace      == <<0, 0>>

Filled(n, x) == <<>> \o [i \in 1 .. n |-> x]
Unused  == [name |-> "", dir |-> FALSE, clst |-> 0, size |-> 0]
Vacant(e) == e.name \in {"", "?"}

------------------------------------------------------------------------------
(* The window and the FAT                                                     *)

disk_write(v, s, d) ==
  LET disk == [v.disk EXCEPT ![s] = d]
  IN  [v EXCEPT !.disk = disk, !.seen = @ \cup {disk}]

\* What a file reads in a sector: in one that was a directory's, bytes of no meaning.
disk_read(v, s) == IF Len(v.disk[s]) = SS THEN v.disk[s] ELSE Filled(SS, 0)

sync_window(v) ==
  IF v.wflag THEN [disk_write(v, v.winsect, v.win) EXCEPT !.wflag = FALSE] ELSE v

move_window(v, s) ==
  IF s = v.winsect THEN v
  ELSE LET u == sync_window(v)
       IN  [u EXCEPT !.win = u.disk[s], !.winsect = s]

sync_fs(v) ==
  LET u == sync_window(v)
      i == <<u.free, u.last>>
  IN  IF u.fsi THEN [disk_write(u, Info, i) EXCEPT !.win = i, !.winsect = Info, !.fsi = FALSE]
      ELSE u

\* What a sector holds for the program: the window stands for its sector.
Shown(v, s) == IF s = v.winsect THEN v.win ELSE v.disk[s]
Fat(v, c)   == Shown(v, FatSect(c))[Slot(c)]

get_fat(v, c) == move_window(v, FatSect(c))
RECURSIVE GetFats(_, _)
GetFats(v, cs) == IF cs = <<>> THEN v ELSE GetFats(get_fat(v, Head(cs)), Tail(cs))

\* Between put_fat's move_window and its store core 1 may call get_fat for the
\* file that PLAYWAVE plays (music.c:589): FF_FS_REENTRANT is 0.
Disturbed(v) == IF v.wave = 0 THEN v ELSE [get_fat(v, v.wave) EXCEPT !.wave = 0]

Stored(v, i, x) == [v EXCEPT !.win[i] = x, !.wflag = TRUE]

put_fat(v, c, x) == Stored(Disturbed(get_fat(v, c)), Slot(c), x)

RECURSIVE Links(_, _, _)
Links(v, c, n) == IF n = 0 \/ c \notin 2 .. NClst + 1 THEN <<>> ELSE <<c>> \o Links(v, Fat(v, c), n - 1)
Chain(v, c)    == Links(v, c, NClst)

Freed(v, c) ==
  LET u == put_fat(get_fat(v, c), c, 0)
  IN  IF Fat(v, c) = 0 THEN get_fat(v, c)
      ELSE IF u.free < NClst THEN [u EXCEPT !.free = @ + 1, !.fsi = TRUE]
      ELSE u

RECURSIVE FreedAll(_, _)
FreedAll(v, cs)    == IF cs = <<>> THEN v ELSE FreedAll(Freed(v, Head(cs)), Tail(cs))
remove_chain(v, c) == FreedAll(v, Chain(v, c))

\* The clusters that are looked at, in order: all after scl, then from the first.
After(scl) == [i \in 1 .. NClst |-> 2 + ((scl - 2 + i) % NClst)]
UpToFree(v, cs) ==
  LET hit == {i \in DOMAIN cs : Fat(v, cs[i]) = 0}
  IN  IF hit = {} THEN cs ELSE SubSeq(cs, 1, Min(hit))

Linked(v, c, n) ==
  LET u == put_fat(v, n, EOC)
      w == IF c = 0 THEN u ELSE put_fat(u, c, n)
  IN  [w EXCEPT !.last = n, !.free = IF @ <= NClst THEN @ - 1 ELSE @, !.fsi = TRUE]

\* [v, new]: new = 0 when no cluster is free.
create_chain(v, c) ==
  LET start == IF c # 0 THEN get_fat(v, c) ELSE v
      valid == v.last \in 2 .. NClst + 1
      next  == IF c + 1 >= n_fatent THEN 2 ELSE c + 1
      from  == IF valid THEN v.last ELSE IF c = 0 THEN 1 ELSE c
      tried == IF c = 0 THEN UpToFree(v, After(from))
               ELSE IF Fat(v, next) = 0 THEN <<next>>
               ELSE <<next>> \o UpToFree(v, After(from))
      u     == GetFats(start, tried)
  IN  IF c # 0 /\ Fat(v, c) < n_fatent THEN [v |-> start, new |-> Fat(v, c)]
      ELSE IF v.free = 0 THEN [v |-> start, new |-> 0]
      ELSE IF Fat(v, Last(tried)) # 0 THEN [v |-> u, new |-> 0]
      ELSE [v |-> Linked(u, c, Last(tried)), new |-> Last(tried)]

------------------------------------------------------------------------------
(* Directories: an entry's place is its cluster and its number in it          *)

Table(v, d)  == Chain(v, IF d = 0 THEN Root ELSE d)
Places(v, d) ==
  LET t == Table(v, d)
  IN  <<>> \o [k \in 1 .. Len(t) * DirSlots |-> <<t[((k - 1) \div DirSlots) + 1], ((k - 1) % DirSlots) + 1>>]
Entry(v, p)  == Shown(v, clst2sect(p[1]))[p[2]]

\* dir_sdi and dir_next from the top of directory d to its n-th entry, or to its end:
\* through the clusters of the table and the FAT's links between them.
RECURSIVE Walked(_, _, _)
Walked(v, cs, end) ==
  LET u == move_window(v, clst2sect(Head(cs)))
  IN  IF Len(cs) > 1 THEN Walked(get_fat(u, Head(cs)), Tail(cs), end)
      ELSE IF end THEN get_fat(u, Head(cs)) ELSE u
dir_next(v, d, n, end) == Walked(v, SubSeq(Table(v, d), 1, ((n - 1) \div DirSlots) + 1), end)

\* [v, at]: at the first entry of directory d that Wanted, before the entry that
\* ends the table.
Search(v, d, Wanted(_)) ==
  LET ps  == Places(v, d)
      hit == {k \in DOMAIN ps : Entry(v, ps[k]).name = "" \/ Wanted(Entry(v, ps[k]))}
      n   == IF hit = {} THEN Len(ps) ELSE Min(hit)
  IN  [v |-> dir_next(v, d, n, hit = {}), at |-> IF hit # {} /\ Wanted(Entry(v, ps[n])) THEN ps[n] ELSE NoPlace]

dir_find(v, d, name) == Search(v, d, LAMBDA e : e.name = name)
dir_read(v, d)       == Search(v, d, LAMBDA e : e.name \notin {"", "?", ".", ".."})

dir_clear(v, c) ==
  LET u == sync_window(v)
      z == Filled(DirSlots, Unused)
  IN  [disk_write(u, clst2sect(c), z) EXCEPT !.win = z, !.winsect = clst2sect(c)]

\* [v, at]: a vacant entry, in a new cluster when the table is full.
Extended(k) ==
  IF k.new = 0 THEN [v |-> k.v, at |-> NoPlace]
  ELSE [v |-> dir_clear(k.v, k.new), at |-> <<k.new, 1>>]
dir_alloc(v, d) ==
  LET f == Search(v, d, Vacant)
  IN  IF f.at # NoPlace THEN f ELSE Extended(create_chain(f.v, Last(Table(v, d))))

Named(a, name) ==
  IF a.at = NoPlace THEN a
  ELSE [a EXCEPT !.v = Stored(move_window(@, clst2sect(a.at[1])), a.at[2], [Unused EXCEPT !.name = name])]
dir_register(v, d, name) == Named(dir_alloc(v, d), name)

dir_remove(v, p) ==
  LET u == move_window(v, clst2sect(p[1]))
  IN  Stored(u, p[2], [u.win[p[2]] EXCEPT !.name = "?"])

\* [v, res, dir, at]: the directory of the last name of the path and the entry found;
\* at = NoPlace when the path names the directory itself.
Entered(w, f, name, last) ==
  LET e == Entry(f.v, f.at)
  IN  IF f.at = NoPlace
        THEN [w EXCEPT !.v = f.v, !.res = IF name \in {".", ".."} THEN "OK"
                                          ELSE IF last THEN "NO_FILE" ELSE "NO_PATH"]
      ELSE IF last THEN [w EXCEPT !.v = f.v, !.at = f.at]
      ELSE IF e.dir THEN [w EXCEPT !.v = f.v, !.dir = e.clst]
      ELSE [w EXCEPT !.v = f.v, !.res = "NO_PATH"]

RECURSIVE Followed(_, _)
Followed(w, seg) ==
  IF seg = <<>> \/ w.res # "OK" THEN w
  ELSE Followed(Entered(w, dir_find(w.v, w.dir, Head(seg)), Head(seg), Len(seg) = 1), Tail(seg))

follow_path(v, path) ==
  LET dir == IF path.abs THEN 0 ELSE v.cdir
      top == [v |-> v, res |-> "OK", dir |-> dir, at |-> NoPlace]
  IN  Followed(IF path.seg = <<>> THEN [top EXCEPT !.v = dir_next(v, dir, 1, FALSE)] ELSE top, path.seg)

------------------------------------------------------------------------------
(* Mounting                                                                   *)

mount_volume(disk, id) ==
  [disk |-> disk, win |-> disk[Info], winsect |-> Info, wflag |-> FALSE,
   free |-> disk[Info][1], last |-> disk[Info][2], fsi |-> FALSE,
   cdir |-> 0, id |-> id, wave |-> 0, seen |-> {disk}]

\* A card after a format: one cluster for the root directory.
Formatted ==
  [s \in Sectors |->
    IF s = Info THEN <<NClst - 1, Root>>
    ELSE IF s = FatSect(Root) THEN [Filled(FatSlots, 0) EXCEPT ![Slot(Root)] = EOC]
    ELSE IF s < clst2sect(Root) THEN Filled(FatSlots, 0)
    ELSE IF s = clst2sect(Root) THEN Filled(DirSlots, Unused)
    ELSE Filled(SS, 0)]
==============================================================================
