------------------------------- MODULE FatFiles -------------------------------
(* interface/ff.c: open files (FIL) and the public functions.  A FIL is a     *)
(* record: at (dir_sect and dir_ptr), rd and wr (the mode), size and sclust   *)
(* (obj), ptr, clust, sect, buf and dirty (its sector buffer), mod            *)
(* (FA_MODIFIED) and id (the mount).  Each function returns a record: v (the  *)
(* volume) and, where it has them, f (the FIL), res, n or data.               *)
EXTENDS FatVolume

Modes    == {"r", "r+", "w", "w+", "a", "a+"}
Reads(m)  == m \in {"r", "r+", "w+", "a+"}
Writes(m) == m # "r"

Valid(v, f) == f.id = v.id

LF == 10
CR == 13
FR_NO_PATH == 5

Take(s, n) == SubSeq(s, 1, Min({n, Len(s)}))
Drop(s, n) == SubSeq(s, n + 1, Len(s))

\* f_open with FA_OPEN_APPEND: to the end of the file.
AtEnd(v, f) ==
  LET c == Chain(v, f.sclust)[((f.size - 1) \div SS) + 1]
      u == GetFats(v, Take(Chain(v, f.sclust), (f.size - 1) \div SS))
      g == [f EXCEPT !.ptr = f.size, !.clust = c]
  IN  IF f.size = 0 THEN [v |-> v, f |-> f]
      ELSE IF f.size % SS = 0 THEN [v |-> u, f |-> g]
      ELSE [v |-> u, f |-> [g EXCEPT !.sect = clst2sect(c), !.buf = disk_read(u, clst2sect(c))]]

\* The entry that is in the window, emptied, and its clusters given back.
Truncated(v, p) ==
  LET e == v.win[p[2]]
      u == Stored(v, p[2], [e EXCEPT !.dir = FALSE, !.clst = 0, !.size = 0])
  IN  IF e.clst = 0 THEN u
      ELSE [move_window(remove_chain(u, e.clst), clst2sect(p[1])) EXCEPT !.last = e.clst - 1]

\* The FIL for the entry at a place, which is in the window.
Started(v, at, m, make) ==
  LET e == v.win[at[2]]
      f == [at |-> at, rd |-> Reads(m), wr |-> Writes(m), size |-> e.size, sclust |-> e.clst,
            ptr |-> 0, clust |-> 0, sect |-> 0, buf |-> Filled(SS, 0), dirty |-> FALSE,
            mod |-> make, id |-> v.id]
  IN  [res |-> TRUE] @@ IF m \in {"a", "a+"} THEN AtEnd(v, f) ELSE [v |-> v, f |-> f]

\* What dir_register gave: a new file in a new entry.
Created(r, m) ==
  IF r.at = NoPlace THEN [v |-> r.v, res |-> FALSE] ELSE Started(Truncated(r.v, r.at), r.at, m, TRUE)

\* What follow_path gave for the path.
Found(w, path, m) ==
  IF w.res = "OK" /\ w.at # NoPlace /\ ~Entry(w.v, w.at).dir
    THEN LET make == m \in {"w", "w+"}
         IN  Started(IF make THEN Truncated(w.v, w.at) ELSE w.v, w.at, m, make)
  ELSE IF w.res = "NO_FILE" /\ m \notin {"r", "r+"} THEN Created(dir_register(w.v, w.dir, Last(path.seg)), m)
  ELSE [v |-> w.v, res |-> FALSE]

f_open(v, path, m) == Found(follow_path(v, path), path, m)

\* A dirty buffer goes to the card.
Cleaned(v, f) ==
  IF f.dirty THEN [v |-> disk_write(v, f.sect, f.buf), f |-> [f EXCEPT !.dirty = FALSE]]
  ELSE [v |-> v, f |-> f]

RECURSIVE Reading(_, _, _, _)
Reading(v, f, n, got) ==
  LET in    == f.ptr % SS
      u     == IF f.ptr = 0 THEN v ELSE get_fat(v, f.clust)
      g     == [f EXCEPT !.clust = IF f.ptr = 0 THEN f.sclust ELSE Fat(v, f.clust)]
      s     == clst2sect(g.clust)
      c     == Cleaned(u, g)
      load  == IF f.sect = s THEN [v |-> u, f |-> g]
               ELSE [v |-> c.v, f |-> [c.f EXCEPT !.buf = disk_read(c.v, s), !.sect = s]]
      cnt   == Min({SS - in, n})
      Go(r, bytes) == Reading(r.v, [r.f EXCEPT !.ptr = @ + Len(bytes)], n - Len(bytes), got \o bytes)
  IN  IF n = 0 THEN [v |-> v, f |-> f, data |-> got]
      ELSE IF in # 0 THEN Go([v |-> v, f |-> f], SubSeq(f.buf, in + 1, in + cnt))
      ELSE IF n >= SS THEN Go([v |-> u, f |-> g], IF f.dirty /\ f.sect = s THEN f.buf ELSE disk_read(u, s))
      ELSE Go(load, Take(load.f.buf, cnt))

f_read(v, f, n) ==
  IF Valid(v, f) /\ f.rd THEN Reading(v, f, Min({n, f.size - f.ptr}), <<>>)
  ELSE [v |-> v, f |-> f, data |-> <<>>]

\* The bytes go into the buffer, from the place in its sector on.
Put(f, data) ==
  LET in == f.ptr % SS
  IN  [f EXCEPT !.buf = [i \in 1 .. SS |-> IF i > in /\ i - in <= Len(data) THEN data[i - in] ELSE @[i]],
                !.dirty = TRUE]

RECURSIVE Writing(_, _, _, _)
Writing(v, f, data, n) ==
  LET Stop(u) == [v |-> u, f |-> [f EXCEPT !.mod = TRUE], n |-> n]
      Go(u, h, cnt) == Writing(u, [h EXCEPT !.ptr = @ + cnt, !.size = Max({@, h.ptr + cnt})],
                               Drop(data, cnt), n + cnt)
      Into(c, s) ==
        IF Len(data) >= SS
          THEN Go(disk_write(c.v, s, Take(data, SS)),
                  [c.f EXCEPT !.buf = IF f.sect = s THEN Take(data, SS) ELSE @], SS)
          ELSE Go(c.v, Put([c.f EXCEPT !.buf = IF f.sect = s \/ f.ptr >= f.size THEN @ ELSE disk_read(c.v, s),
                                       !.sect = s], data), Len(data))
      Onto(k) ==
        IF k.new = 0 THEN Stop(k.v)
        ELSE Into(Cleaned(k.v, [f EXCEPT !.clust = k.new, !.sclust = IF @ = 0 THEN k.new ELSE @]), clst2sect(k.new))
  IN  IF data = <<>> THEN Stop(v)
      ELSE IF f.ptr % SS # 0 THEN Go(v, Put(f, data), Min({SS - (f.ptr % SS), Len(data)}))
      ELSE Onto(IF f.ptr = 0 /\ f.sclust # 0 THEN [v |-> v, new |-> f.sclust]
                ELSE create_chain(v, IF f.ptr = 0 THEN 0 ELSE f.clust))

f_write(v, f, data) ==
  IF Valid(v, f) /\ f.wr THEN Writing(v, f, data, 0) ELSE [v |-> v, f |-> f, n |-> 0]

f_sync(v, f) ==
  LET c == Cleaned(v, f)
      u == move_window(c.v, clst2sect(f.at[1]))
      e == [u.win[f.at[2]] EXCEPT !.clst = f.sclust, !.size = f.size]
  IN  IF ~Valid(v, f) \/ ~f.mod THEN [v |-> v, f |-> f]
      ELSE [v |-> sync_fs(Stored(u, f.at[2], e)), f |-> [c.f EXCEPT !.mod = FALSE]]

f_close(v, f) == f_sync(v, f).v

\* f_lseek: k clusters on from the cluster of f, with a chain that grows in write mode.
RECURSIVE Following(_, _, _, _)
Following(v, f, ofs, p) ==
  LET On(k) == IF k.new = 0 THEN [v |-> k.v, f |-> [f EXCEPT !.ptr = p + SS], full |-> TRUE]
               ELSE Following(k.v, [f EXCEPT !.clust = k.new], ofs - SS, p + SS)
  IN  IF ofs <= SS THEN [v |-> v, f |-> [f EXCEPT !.ptr = p + ofs], full |-> FALSE]
      ELSE On(IF f.wr THEN create_chain(v, f.clust) ELSE [v |-> get_fat(v, f.clust), new |-> Fat(v, f.clust)])

Sought(v, f, ofs) ==
  LET near == f.ptr > 0 /\ (ofs - 1) \div SS >= (f.ptr - 1) \div SS
      base == ((f.ptr - 1) \div SS) * SS
      FromTop(k) ==
        LET top == [f EXCEPT !.sclust = k.new, !.clust = k.new, !.ptr = 0]
        IN  IF k.new = 0 THEN [v |-> k.v, f |-> top, full |-> TRUE] ELSE Following(k.v, top, ofs, 0)
  IN  IF ofs = 0 THEN [v |-> v, f |-> [f EXCEPT !.ptr = 0], full |-> FALSE]
      ELSE IF near THEN Following(v, f, ofs - base, base)
      ELSE FromTop(IF f.sclust = 0 THEN create_chain(v, 0) ELSE [v |-> v, new |-> f.sclust])

\* A slip: the buffer is loaded anew without the bytes in it being saved.
Arrived_unsaved(r, size) ==
  LET g == [r.f EXCEPT !.size = Max({@, r.f.ptr}), !.mod = @ \/ r.f.ptr > size]
      s == clst2sect(g.clust)
  IN  IF g.ptr % SS = 0 \/ s = g.sect THEN [v |-> r.v, f |-> g]
      ELSE [v |-> r.v, f |-> [g EXCEPT !.buf = disk_read(r.v, s), !.sect = s, !.dirty = FALSE]]

\* Where Sought led in the file that had size bytes, its sector is loaded.
Arrived(r, size) ==
  LET g == [r.f EXCEPT !.size = Max({@, r.f.ptr}), !.mod = @ \/ r.f.ptr > size]
      nsect == clst2sect(g.clust)
      c == Cleaned(r.v, g)
  IN  IF g.ptr % SS = 0 \/ nsect = g.sect THEN [v |-> r.v, f |-> g]
      ELSE [v |-> c.v, f |-> [c.f EXCEPT !.buf = disk_read(c.v, nsect), !.sect = nsect]]

f_lseek(v, f, to) ==
  IF Valid(v, f) THEN Arrived(Sought(v, f, IF f.wr THEN to ELSE Min({to, f.size})), f.size)
  ELSE [v |-> v, f |-> f]

\* f_gets: up to n bytes, to the end of the line, without carriage returns.
RECURSIVE f_gets(_, _, _, _)
f_gets(v, f, n, got) ==
  LET Taken(r) == IF r.data = <<>> THEN [v |-> r.v, f |-> r.f, data |-> got]
                 ELSE IF r.data = <<LF>> THEN [v |-> r.v, f |-> r.f, data |-> Append(got, LF)]
                 ELSE IF r.data = <<CR>> THEN f_gets(r.v, r.f, n, got)
                 ELSE f_gets(r.v, r.f, n - 1, got \o r.data)
  IN  IF n = 0 THEN [v |-> v, f |-> f, data |-> got] ELSE Taken(f_read(v, f, 1))

\* putc_bfd: the end of a line is written as two bytes.
RECURSIVE TwoBytes(_)
TwoBytes(s) ==
  IF s = <<>> THEN <<>> ELSE (IF Head(s) = LF THEN <<CR, LF>> ELSE <<Head(s)>>) \o TwoBytes(Tail(s))

f_puts(v, f, s) == f_write(v, f, TwoBytes(s))

------------------------------------------------------------------------------
(* Directories: [v, res]                                                      *)

\* A slip: the clusters are given back before the entry goes.
Gone_chainFirst(u, at, c) == sync_fs(dir_remove(IF c = 0 THEN u ELSE remove_chain(u, c), at))

Gone(u, at, c) == sync_fs(IF c = 0 THEN dir_remove(u, at) ELSE remove_chain(dir_remove(u, at), c))

\* A directory, of which dir_read gave d, goes when it is empty.
Emptied(d, at, c) ==
  IF d.at # NoPlace THEN [v |-> d.v, res |-> FALSE] ELSE [v |-> Gone(d.v, at, c), res |-> TRUE]

Unlinked(w, path) ==
  LET e == Entry(w.v, w.at)
  IN  IF w.res # "OK" \/ w.at = NoPlace \/ Last(path.seg) = ".." THEN [v |-> w.v, res |-> FALSE]
      ELSE IF ~e.dir THEN [v |-> Gone(w.v, w.at, e.clst), res |-> TRUE]
      ELSE IF e.clst = w.v.cdir THEN [v |-> w.v, res |-> FALSE]
      ELSE Emptied(dir_read(w.v, e.clst), w.at, e.clst)
f_unlink(v, path) == Unlinked(follow_path(v, path), path)

Dots(c, up) == <<[name |-> ".", dir |-> TRUE, clst |-> c, size |-> 0],
                 [name |-> "..", dir |-> TRUE, clst |-> up, size |-> 0]>>

\* The new cluster c with its table, of which w.dir is above; then its entry.
WithDots(v, c, up) ==
  LET z == dir_clear(v, c) IN [z EXCEPT !.win = Dots(c, up) \o Drop(@, 2), !.wflag = TRUE]
WithEntry(r, name, c) ==
  LET e == [Unused EXCEPT !.name = name, !.dir = TRUE, !.clst = c]
  IN  IF r.at = NoPlace THEN [v |-> remove_chain(r.v, c), res |-> FALSE]
      ELSE [v |-> sync_fs(Stored(r.v, r.at[2], e)), res |-> TRUE]
Made(k, dir, name) ==
  IF k.new = 0 THEN [v |-> k.v, res |-> FALSE]
  ELSE WithEntry(dir_register(WithDots(k.v, k.new, dir), dir, name), name, k.new)
f_mkdir(v, path) ==
  LET w == follow_path(v, path)
  IN  IF w.res = "NO_FILE" THEN Made(create_chain(w.v, 0), w.dir, Last(path.seg)) ELSE [v |-> w.v, res |-> FALSE]

\* Entry e of place `at` in directory `from` is stored again at r.at in directory `to`;
\* a directory that is moved has its ".." entry changed.
Above(v, e, to) ==
  LET u == move_window(v, clst2sect(e.clst)) IN Stored(u, 2, [u.win[2] EXCEPT !.clst = to])
Moved(r, e, at, from, to) ==
  LET s == Stored(r.v, r.at[2], e)
  IN  IF r.at = NoPlace THEN [v |-> r.v, res |-> FALSE]
      ELSE [v |-> sync_fs(dir_remove(IF e.dir /\ from # to THEN Above(s, e, to) ELSE s, at)), res |-> TRUE]
\* o and w: where the old and the new path led; e: the entry of the old one.
Renamed(o, w, e, name) ==
  IF w.res = "NO_PATH" \/ (w.res = "OK" /\ w.at # o.at) THEN [v |-> w.v, res |-> FALSE]
  ELSE Moved(dir_register(w.v, w.dir, name), [e EXCEPT !.name = name], o.at, o.dir, w.dir)
Renaming(o, old, new) ==
  IF o.res # "OK" \/ o.at = NoPlace \/ Last(old.seg) = ".." THEN [v |-> o.v, res |-> FALSE]
  ELSE Renamed(o, follow_path(o.v, new), o.v.win[o.at[2]], Last(new.seg))
f_rename(v, old, new) == Renaming(follow_path(v, old), old, new)

Entering(w) ==
  LET e == Entry(w.v, w.at)
  IN  IF w.res # "OK" \/ (w.at # NoPlace /\ ~e.dir) THEN [v |-> w.v, res |-> FALSE]
      ELSE [v |-> [w.v EXCEPT !.cdir = IF w.at = NoPlace THEN w.dir ELSE e.clst], res |-> TRUE]
f_chdir(v, path) == Entering(follow_path(v, path))

\* The path of the current directory, from its ".." entry upwards.
RECURSIVE Upwards(_, _, _)
Upwards(v, dir, path) ==
  LET u  == move_window(v, clst2sect(dir))
      up == u.win[2].clst
      Me(e) == e.name \notin {"", "?", ".", ".."} /\ e.clst = dir
      Go(f) == Upwards(f.v, up, <<Entry(f.v, f.at).name>> \o path)
  IN  IF dir = 0 THEN [v |-> v, path |-> path] ELSE Go(Search(u, up, Me))
f_getcwd(v) == Upwards(v, v.cdir, <<>>)
==============================================================================
