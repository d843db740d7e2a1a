------------------------------ MODULE MCStorage ------------------------------
(* Storage on a card of five clusters of two bytes, with what its directories *)
(* and files are for the program.                                             *)
EXTENDS Storage

Abs(s) == [abs |-> TRUE, seg |-> s]
Rel(s) == [abs |-> FALSE, seg |-> s]

A   == Abs(<<"A">>)
D   == Abs(<<"D">>)
DA  == Abs(<<"D", "A">>)
Up  == Rel(<<"..">>)
UpB == Rel(<<"..", "B">>)

MCFiles   == {A, DA, Rel(<<"A">>)}
MCDirs    == {D, Up}
MCRenames == {<<A, DA>>, <<A, A>>, <<DA, UpB>>, <<D, UpB>>}
MCData    == {<<1>>, <<2, LF>>}
MCModes   == {"r", "r+", "w", "a+"}
MCLengths == {1, 3}

\* How the card may be after some statements: empty; with a directory and a file of
\* three bytes; with that file being written by one handle and a second file by the
\* other; the same when power was lost then; and with one cluster free.
RECURSIVE Follows(_, _, _)
Follows(v, f, sts) ==
  LET st == Head(sts)
      Go(r) == Follows(r.v, [f EXCEPT ![st.h] = r.f], Tail(sts))
      On(r) == Follows(r.v, f, Tail(sts))
  IN  IF sts = <<>> THEN [vol |-> [v EXCEPT !.seen = {}], fil |-> f]
      ELSE CASE st.op = "MKDIR"   -> On(f_mkdir(v, st.path))
             [] st.op = "FREMOVE" -> On(f_unlink(v, st.path))
             [] st.op = "FOPEN"   -> Go(f_open(v, st.path, st.mode))
             [] st.op = "FPUT"    -> Go(f_write(v, f[st.h], st.data))
             [] st.op = "FCLOSE"  -> Go([v |-> f_close(v, f[st.h]), f |-> NoFil])
From(disk, id, sts) == Follows(mount_volume(disk, id), AllClosed, sts)
Opens(k, p, m) == [op |-> "FOPEN", h |-> k, path |-> p, mode |-> m]
Puts(k, data)  == [op |-> "FPUT", h |-> k, data |-> data]
Closes(k)      == [op |-> "FCLOSE", h |-> k]
Empty  == From(Formatted, 1, <<>>)
Used   == From(Formatted, 1, <<[op |-> "MKDIR", path |-> D], Opens(1, A, "w"), Puts(1, <<1, 2, 1>>), Closes(1)>>)
Busy   == From(Used.vol.disk, 1, <<Opens(1, A, "r+"), Puts(1, <<2>>), Opens(2, DA, "w"), Puts(2, <<2>>)>>)
CutOff == From(Busy.vol.disk, 2, <<>>)
Full   == From(Used.vol.disk, 1, <<[op |-> "FREMOVE", path |-> A], Opens(1, DA, "w"),
                                   Puts(1, <<1, 2, 1, 2, 1>>), Closes(1)>>)
MCCards == {Empty, Used, Busy, CutOff, Full}

------------------------------------------------------------------------------
(* The mapping, kept in a variable so that a step evaluates it once           *)

VARIABLE shown
MCInit == Init /\ shown = Seen(vol, fil)
MCNext == Next /\ shown' = Seen(vol', fil')
MCSpec == MCInit /\ [][MCNext]_<<vars, shown>>

Store == INSTANCE FileStore WITH
                                tree <- shown.tree, cwd <- shown.cwd, open <- shown.open, room <- shown.room,
                                Paths <- MCFiles \cup MCDirs \cup {UpB},
                                Bytes <- {0, 1, 2, LF, CR}

\* To the program the volume is a tree of files whose statements are done or cut by a
\* loss of power, and then are as before or after, but for what was being written:
\* whatever FAT, window and buffers went through (file.c lib_file, lib_fopen_main).
IsStore == [][Store!Next]_(Store!vars)

\* What was told before does not matter for what comes, nor does the count of calls:
\* a state is first found after the fewest.
MCView == <<vol, fil, active>>
==============================================================================
