------------------------------ MODULE Sockets ------------------------------
(***************************************************************************)
(* TCP sockets of a BASIC program (wifi/socket.c, wifi/picow_tcp_client.c, *)
(* wifi/picow_tcp_server.c).  lwIP (external) calls the program's          *)
(* callbacks in an interrupt, between any two steps of a statement.  They  *)
(* put what arrives into one list of buffers for all connections, and ids  *)
(* of connections into the FIFO that TCPACCEPT() reads.                    *)
(*                                                                         *)
(* A connection is a number that stands for its pcb.  A byte that arrives  *)
(* is its connection and its place; a byte that is sent is its message and *)
(* its place.  The wait for acknowledgements ends after 100 ms in any case *)
(* and changes nothing: it is left out.  So are TLS and error numbers.     *)
(***************************************************************************)
EXTENDS Integers, Sequences, FiniteSets, SequencesExt

CONSTANTS
  MaxConns,       \* bound: connections of one behaviour
  MaxBytes,       \* bound: bytes of a connection that wait to be read
  MaxMsgs,        \* bound: messages of one behaviour
  Lengths,        \* of the messages
  IDS,            \* connection ids, 256
  FIFO,           \* entries of g_pcb_fifo, 10
  WIFI_BUFF_SIZE,
  Modes,          \* of TCPSERVER
  Allow           \* what else may happen, of Cases

Cases ==
  {"lingers",     \* TCPCLOSE while a connection is open that it does not close
   "again",       \* TCPCLIENT while a server listens or a connection is open
   "heap"}        \* no memory is left for what arrives

ASSUME SocketsAssumption ==
  /\ {MaxConns, MaxBytes, MaxMsgs, IDS, FIFO, WIFI_BUFF_SIZE} \subseteq Nat \ {0}
  /\ Lengths \subseteq Nat \ {0}
  /\ Modes \subseteq {0, 1} /\ Allow \subseteq Cases

Conns == 1 .. MaxConns
None == 0
Ids == 0 .. IDS - 1
NoId == -1

VARIABLES
  pc, then,        \* the program's statement, and what follows init_tcp_socket
  key, want, pos,  \* TCPRECEIVE and TCPSTATUS: whose bytes, how many, which buffer
  to, msg, left,   \* TCPSEND and TCPCLOSE: the pcb; the message, the bytes left
  role,            \* what g_state and g_close_func were registered for
  s_pcb,           \* tcp_pcb of the client's state
  g_pcb, g_connected, g_header_lines, g_tcp_accept_mode,
  listening,       \* is there a g_server_pcb?
  g_connection_id, g_connection_id_number, g_pcb_fifo, g_socket_buffer,
  conn, arg,       \* lwIP: each connection, and the argument of its callbacks
  pending,         \* history: what came for each key and was not read
  wire, asked,     \* history: what went out, and the messages TCPSEND sent
  known, news      \* history: ids the program was given, and those it waits for

stmt == <<pc, then, key, want, pos, to, msg, left>>
sock == <<role, s_pcb, g_pcb, g_connected, g_header_lines, g_tcp_accept_mode, listening>>
ids  == <<g_connection_id, g_connection_id_number, g_pcb_fifo>>
lwip == <<conn, arg>>
out  == <<wire, asked>>
hist == <<known, news>>
vars == <<stmt, sock, ids, g_socket_buffer, lwip, pending, out, hist>>

\* A buffer belongs to the pcb of a client, or to an id of a server.
Pcb(k) == <<"pcb", k>>
Id(i)  == <<"id", i>>
Keys   == {Pcb(k) : k \in Conns \cup {None}} \cup {Id(i) : i \in Ids}
KeyOf(i) == IF i = NoId THEN Pcb(g_pcb) ELSE Id(i)

Init ==
  /\ pc = "idle" /\ then = "idle" /\ key = Pcb(None) /\ want = 0 /\ pos = 0
  /\ to = None /\ msg = 0 /\ left = 0
  /\ role = "none" /\ s_pcb = None /\ g_pcb = None /\ g_connected = FALSE
  /\ g_header_lines = << >> /\ g_tcp_accept_mode = 0 /\ listening = FALSE
  /\ g_connection_id = [i \in Ids |-> None] /\ g_connection_id_number = 0
  /\ g_pcb_fifo = << >> /\ g_socket_buffer = << >>
  /\ conn = [k \in Conns |-> "none"] /\ arg = [k \in Conns |-> NoId]
  /\ pending = [k \in Keys |-> << >>]
  /\ wire = [k \in Conns |-> << >>] /\ asked = [k \in Conns |-> << >>]
  /\ known = {} /\ news = {}

Fresh == CHOOSE k \in Conns : conn[k] = "none" /\ \A j \in 1 .. k - 1 : conn[j] # "none"
CanConnect == \E k \in Conns : conn[k] = "none"
Clients == {k \in Conns : arg[k] = NoId}
IsOpen(k) == conn[k] = "open"
InUse(k)  == conn[k] \in {"connecting", "open"}
-----------------------------------------------------------------------------
(* Opening and closing.                                                    *)

\* TCPSERVER listens first and stores the mode afterwards.  A client's connection
\* stays; with a server listening on the port it fails.
tcp_server_open(mode) ==
  /\ pc = "idle" /\ ~listening
  /\ listening' = TRUE /\ pc' = "mode" /\ want' = mode
  /\ UNCHANGED <<then, key, pos, to, msg, left, role, s_pcb, g_pcb, g_connected,
       g_header_lines, g_tcp_accept_mode, ids, g_socket_buffer, lwip, pending, out, hist>>
start_tcp_server ==
  /\ pc = "mode" /\ pc' = "idle"
  /\ role' = "server" /\ g_tcp_accept_mode' = want
  /\ UNCHANGED <<then, key, want, pos, to, msg, left, s_pcb, g_pcb, g_connected,
       g_header_lines, listening, ids, g_socket_buffer, lwip, pending, out, hist>>

\* The end of a connection to a server, in the program or in a callback.
tcp_client_close ==
  /\ conn' = IF s_pcb = None THEN conn ELSE [conn EXCEPT ![s_pcb] = "closed"]
  /\ s_pcb' = None /\ g_connected' = FALSE

\* TCPCLOSE, also at the end of a program: the registered closing function,
\* then init_tcp_socket.
machikania_tcp_close ==
  /\ pc = "idle" /\ pc' = "walk" /\ then' = "idle"
  /\ "lingers" \in Allow \/ \A k \in Conns : InUse(k) => role = "client" /\ k = s_pcb
  /\ listening' = IF role = "server" THEN FALSE ELSE listening
  /\ IF role = "client" THEN tcp_client_close ELSE UNCHANGED <<conn, s_pcb, g_connected>>
  /\ UNCHANGED <<key, want, pos, to, msg, left, role, g_pcb, g_header_lines,
       g_tcp_accept_mode, ids, g_socket_buffer, arg, pending, out, hist>>

\* init_tcp_socket: it reads the link to the next buffer, deletes the buffer,
\* and follows the link.
WalkLook ==
  /\ pc = "walk" /\ g_socket_buffer # << >> /\ pc' = "unlink"
  /\ pos' = Len(g_socket_buffer)
  /\ UNCHANGED <<then, key, want, to, msg, left, sock, ids, g_socket_buffer, lwip,
       pending, out, hist>>
WalkUnlink ==
  /\ pc = "unlink" /\ pc' = "walk"
  /\ g_socket_buffer' = IF pos = 1 THEN << >> ELSE Tail(g_socket_buffer)
  /\ LET b == Head(g_socket_buffer) IN
     pending' = [pending EXCEPT ![b.key] = SubSeq(@, Len(b.data) + 1, Len(@))]
  /\ UNCHANGED <<then, key, want, pos, to, msg, left, sock, ids, lwip, out, hist>>
WalkEnd ==
  /\ pc = "walk" /\ g_socket_buffer = << >> /\ pc' = then
  /\ role' = "none" /\ g_pcb' = None /\ g_connected' = FALSE /\ g_pcb_fifo' = << >>
  /\ g_header_lines' = IF then = "idle" THEN << >> ELSE g_header_lines
  /\ news' = {}
  /\ UNCHANGED <<then, key, want, pos, to, msg, left, s_pcb, g_tcp_accept_mode,
       listening, g_connection_id, g_connection_id_number, g_socket_buffer, lwip,
       pending, out, known>>

\* TCPCLIENT: init_tcp_socket, a new state, a new pcb, and the registration.
start_tcp_client ==
  /\ pc = "idle" /\ pc' = "walk" /\ then' = "open"
  /\ CanConnect
  /\ "again" \in Allow \/ (~listening /\ \A k \in Conns : ~InUse(k))
  /\ UNCHANGED <<key, want, pos, to, msg, left, sock, ids, g_socket_buffer, lwip,
       pending, out, hist>>
tcp_client_open(succeeds) ==
  /\ pc = "open" /\ (succeeds => CanConnect)
  /\ IF succeeds
     THEN /\ conn' = [conn EXCEPT ![Fresh] = "connecting"] /\ s_pcb' = Fresh
          /\ pc' = "register" /\ UNCHANGED g_connected
     ELSE conn' = conn /\ s_pcb' = None /\ g_connected' = FALSE /\ pc' = "idle"
  /\ UNCHANGED <<then, key, want, pos, to, msg, left, role, g_pcb, g_header_lines,
       g_tcp_accept_mode, listening, ids, g_socket_buffer, arg, pending, out, hist>>
register_state ==
  /\ pc = "register" /\ pc' = "idle" /\ role' = "client"
  /\ UNCHANGED <<then, key, want, pos, to, msg, left, s_pcb, g_pcb, g_connected,
       g_header_lines, g_tcp_accept_mode, listening, ids, g_socket_buffer, lwip,
       pending, out, hist>>

\* The next program starts with a new table of ids.
init_socket_system ==
  /\ pc = "idle" /\ role = "none" /\ ~\E k \in Conns : IsOpen(k)
  /\ g_connection_id' = [i \in Ids |-> None] /\ g_connection_id_number' = 0
  /\ known' = {}
  /\ UNCHANGED <<stmt, sock, g_pcb_fifo, g_socket_buffer, lwip, pending, out, news>>
-----------------------------------------------------------------------------
(* Connections of a server.                                                *)

NextId(i) == (i + 1) % IDS

\* The FIFO with i added; a full one is left as it is.
Full(s) == Len(s) = FIFO
add_pcb_to_fifo_over(i) == IF Full(g_pcb_fifo) THEN Append(Tail(g_pcb_fifo), i)
                           ELSE Append(g_pcb_fifo, i)
add_pcb_to_fifo(i) == IF Full(g_pcb_fifo) THEN g_pcb_fifo ELSE Append(g_pcb_fifo, i)

\* Interrupt: a client connects, maybe before TCPSERVER has stored its mode.  In
\* mode 0 it is refused when the FIFO is full.
tcp_server_accept ==
  /\ listening /\ CanConnect
  /\ LET k == Fresh
         i == g_connection_id_number
         refused == g_tcp_accept_mode = 0 /\ Full(g_pcb_fifo)
     IN /\ g_connection_id' = [g_connection_id EXCEPT ![i] = k]
        /\ g_connection_id_number' = NextId(i)
        /\ g_pcb_fifo' = IF g_tcp_accept_mode = 0 THEN add_pcb_to_fifo(i) ELSE g_pcb_fifo
        /\ conn' = [conn EXCEPT ![k] = IF refused THEN "closed" ELSE "open"]
        /\ arg' = [arg EXCEPT ![k] = i]
        /\ news' = IF g_tcp_accept_mode = 0 /\ ~refused THEN news \cup {i} ELSE news
  /\ UNCHANGED <<stmt, sock, g_socket_buffer, pending, out, known>>

\* TCPACCEPT()
shift_pcb_fifo ==
  /\ pc = "idle" /\ g_pcb_fifo # << >>
  /\ g_pcb_fifo' = Tail(g_pcb_fifo)
  /\ known' = known \cup {Head(g_pcb_fifo)} /\ news' = news \ {Head(g_pcb_fifo)}
  /\ UNCHANGED <<stmt, sock, g_connection_id, g_connection_id_number, g_socket_buffer,
       lwip, pending, out>>

\* The end of a connection from a client, whose pcb was read from the table.
tcp_server_client_close(i, k) ==
  /\ conn' = IF k = None THEN conn ELSE [conn EXCEPT ![k] = "closed"]
  /\ g_connection_id' = IF k = None THEN g_connection_id ELSE [g_connection_id EXCEPT ![i] = None]

\* TCPCLOSE x: the pcb is read; a callback may close it before the program does.
CloseLook(i) ==
  /\ pc = "idle" /\ i \in known /\ pc' = "close"
  /\ key' = Id(i) /\ to' = g_connection_id[i]
  /\ UNCHANGED <<then, want, pos, msg, left, sock, ids, g_socket_buffer, lwip, pending,
       out, hist>>
CloseClient ==
  /\ pc = "close" /\ pc' = "idle"
  /\ tcp_server_client_close(key[2], to)
  /\ UNCHANGED <<then, key, want, pos, to, msg, left, sock, g_connection_id_number,
       g_pcb_fifo, g_socket_buffer, arg, pending, out, hist>>
-----------------------------------------------------------------------------
(* Receiving.                                                              *)

Buffer(k, data) == [key |-> k, data |-> data]

\* What is kept for connection k, and the next n bytes: they count on from the
\* last one that was not read, and start again after MaxBytes.
Came(k) == IF k \in Clients THEN Pcb(k) ELSE Id(arg[k])
NextBytes(k, n) ==
  LET had == IF pending[Came(k)] = << >> THEN 0 ELSE Last(pending[Came(k)])[2] IN
  [j \in 1 .. n |-> <<k, (had + j) % (MaxBytes + 1)>>]

\* Interrupt: n bytes arrive.  In mode 1 the id goes into the FIFO; when that is
\* full it does not (tcp_close is called with the id, which is not a pcb).
tcp_recv(k, n, memory) ==
  LET b == Buffer(IF k \in Clients THEN Pcb(s_pcb) ELSE Id(arg[k]), NextBytes(k, n))
      tells == k \notin Clients /\ g_tcp_accept_mode = 1
  IN /\ IsOpen(k) /\ Len(pending[Came(k)]) + n =< MaxBytes
     /\ memory \/ "heap" \in Allow
     /\ g_socket_buffer' = IF memory THEN Append(g_socket_buffer, b) ELSE g_socket_buffer
     /\ pending' = [pending EXCEPT ![Came(k)] = @ \o NextBytes(k, n)]
     /\ g_pcb_fifo' = IF tells THEN add_pcb_to_fifo(arg[k]) ELSE g_pcb_fifo
     /\ news' = IF tells /\ ~Full(g_pcb_fifo) THEN news \cup {arg[k]} ELSE news
     /\ UNCHANGED <<stmt, sock, g_connection_id, g_connection_id_number, lwip, out, known>>

\* TCPRECEIVE: the first buffer of the connection is found and copied from; a
\* buffer that is used up is taken out with interrupts stopped.
tcp_read_from_buffer(i, n) ==
  /\ pc = "idle" /\ i \in known \cup {NoId}
  /\ pc' = "receive" /\ key' = KeyOf(i) /\ want' = n
  /\ UNCHANGED <<then, pos, to, msg, left, sock, ids, g_socket_buffer, lwip, pending,
       out, hist>>
Mine == {j \in DOMAIN g_socket_buffer : g_socket_buffer[j].key = key}
FirstMine == CHOOSE j \in Mine : \A l \in Mine : j =< l
ReceiveNone ==
  /\ pc = "receive" /\ Mine = {} /\ pc' = "idle"
  /\ UNCHANGED <<then, key, want, pos, to, msg, left, sock, ids, g_socket_buffer, lwip,
       pending, out, hist>>
Copy ==
  /\ pc = "receive" /\ Mine # {}
  /\ LET d == g_socket_buffer[FirstMine].data
         n == IF want =< Len(d) THEN want ELSE Len(d)
     IN /\ g_socket_buffer' = [g_socket_buffer EXCEPT ![FirstMine].data = SubSeq(@, n + 1, Len(@))]
        /\ pending' = [pending EXCEPT ![key] = SubSeq(@, n + 1, Len(@))]
        /\ want' = want - n /\ pos' = FirstMine
        /\ pc' = IF n = Len(d) THEN "drop" ELSE "idle"
  /\ UNCHANGED <<then, key, to, msg, left, sock, ids, lwip, out, hist>>
Drop_rest ==
  /\ pc = "drop" /\ pc' = IF want = 0 THEN "idle" ELSE "receive"
  /\ g_socket_buffer' = SubSeq(g_socket_buffer, 1, pos - 1)
  /\ UNCHANGED <<then, key, want, pos, to, msg, left, sock, ids, lwip, pending, out, hist>>
Drop ==
  /\ pc = "drop" /\ pc' = IF want = 0 THEN "idle" ELSE "receive"
  /\ g_socket_buffer' = RemoveAt(g_socket_buffer, pos)
  /\ UNCHANGED <<then, key, want, pos, to, msg, left, sock, ids, lwip, pending, out, hist>>

\* TCPSTATUS(1, x) goes through the list; at a buffer of another connection it
\* goes on without taking the next one.
machikania_tcp_status(i) ==
  /\ pc = "idle" /\ i \in known /\ pc' = "count" /\ key' = Id(i) /\ pos' = 1
  /\ UNCHANGED <<then, want, to, msg, left, sock, ids, g_socket_buffer, lwip, pending,
       out, hist>>
CountBuffer ==
  /\ pc = "count"
  /\ IF pos > Len(g_socket_buffer) THEN pc' = "idle" /\ pos' = pos
     ELSE g_socket_buffer[pos].key = key /\ pos' = pos + 1 /\ pc' = pc
  /\ UNCHANGED <<then, key, want, to, msg, left, sock, ids, g_socket_buffer, lwip,
       pending, out, hist>>
CountOther ==
  /\ pc = "count" /\ pos =< Len(g_socket_buffer) /\ g_socket_buffer[pos].key # key
  /\ UNCHANGED vars
-----------------------------------------------------------------------------
(* Sending.                                                                *)

Message(m, n) == [j \in 1 .. n |-> <<m, j>>]
Part(len) == IF len =< WIFI_BUFF_SIZE THEN len ELSE WIFI_BUFF_SIZE

\* The first n bytes of a message as they go out: every part starts at the first
\* byte.
InParts(m, n) == [j \in 1 .. n |-> <<m, ((j - 1) % WIFI_BUFF_SIZE) + 1>>]

\* TCPSEND before a connection keeps the message; with one started and not made,
\* it returns an error and does nothing.
machikania_tcp_write(i, len) ==
  LET pcb == IF i = NoId THEN g_pcb ELSE g_connection_id[i] IN
  /\ pc = "idle" /\ i \in known \cup {NoId} /\ msg < MaxMsgs
  /\ pcb # None \/ role = "none"
  /\ msg' = msg + 1
  /\ IF pcb = None
     THEN g_header_lines' = Message(msg', len) /\ UNCHANGED <<pc, to, left, want>>
     ELSE /\ pc' = "send" /\ to' = pcb /\ left' = len /\ want' = len
          /\ UNCHANGED g_header_lines
  /\ UNCHANGED <<then, key, pos, role, s_pcb, g_pcb, g_connected, g_tcp_accept_mode,
       listening, ids, g_socket_buffer, lwip, pending, out, hist>>
SendPart_unchecked(succeeds) ==
  /\ pc = "send" /\ (succeeds => IsOpen(to))
  /\ wire' = IF succeeds THEN [wire EXCEPT ![to] = @ \o Message(msg, Part(left))] ELSE wire
  /\ left' = left - Part(left)
  /\ pc' = IF left' = 0 THEN "idle" ELSE "send"
  /\ asked' = IF left' = 0 THEN [asked EXCEPT ![to] = @ \o Message(msg, want)] ELSE asked
  /\ UNCHANGED <<then, key, want, pos, to, msg, sock, ids, g_socket_buffer, lwip,
       pending, hist>>
SendPart(succeeds) ==
  /\ pc = "send" /\ (succeeds => IsOpen(to))
  /\ IF succeeds
     THEN /\ wire' = [wire EXCEPT ![to] = @ \o Message(msg, Part(left))]
          /\ left' = left - Part(left)
     ELSE wire' = wire /\ left' = left
  /\ pc' = IF left' = 0 \/ ~succeeds THEN "idle" ELSE "send"
  /\ asked' = IF pc' = "idle" THEN [asked EXCEPT ![to] = @ \o Message(msg, want - left')]
              ELSE asked
  /\ UNCHANGED <<then, key, want, pos, to, msg, sock, ids, g_socket_buffer, lwip,
       pending, hist>>

\* Interrupt: the connection to a server is made; of the message kept, n bytes
\* go out: all, or the parts before one that tcp_write refuses.  It is forgotten
\* in any case.
SentBytes(len) == {len} \cup {n \in 0 .. len : n % WIFI_BUFF_SIZE = 0}
tcp_client_connected(k, n) ==
  /\ conn[k] = "connecting" /\ conn' = [conn EXCEPT ![k] = "open"]
  /\ n \in SentBytes(Len(g_header_lines))
  /\ g_pcb' = s_pcb /\ g_connected' = TRUE /\ g_header_lines' = << >>
  /\ IF g_header_lines = << >> \/ s_pcb = None THEN UNCHANGED out
     ELSE LET m == g_header_lines[1][1] IN
          /\ wire' = [wire EXCEPT ![s_pcb] = @ \o InParts(m, n)]
          /\ asked' = [asked EXCEPT ![s_pcb] = @ \o Message(m, n)]
  /\ UNCHANGED <<stmt, role, s_pcb, g_tcp_accept_mode, listening, ids, g_socket_buffer,
       arg, pending, hist>>
-----------------------------------------------------------------------------
(* Interrupt: the other side closes, an error, or 10 s without an answer;  *)
(* of ERR_ABRT, lwIP's own end of a connection, the code takes no notice.   *)

tcp_result(k) ==
  /\ k \in Clients /\ InUse(k)
  /\ tcp_client_close
  /\ UNCHANGED <<stmt, role, g_pcb, g_header_lines, g_tcp_accept_mode, listening, ids,
       g_socket_buffer, arg, pending, out, hist>>
tcp_server_poll(k) ==
  /\ k \notin Clients /\ IsOpen(k)
  /\ tcp_server_client_close(arg[k], g_connection_id[arg[k]])
  /\ UNCHANGED <<stmt, sock, g_connection_id_number, g_pcb_fifo, g_socket_buffer, arg,
       pending, out, hist>>
tcp_err_abrt(k) ==
  /\ InUse(k) /\ conn' = [conn EXCEPT ![k] = "aborted"]
  /\ UNCHANGED <<stmt, sock, ids, g_socket_buffer, arg, pending, out, hist>>
-----------------------------------------------------------------------------
Callbacks ==
  \/ tcp_server_accept
  \/ \E k \in Conns :
       \/ tcp_result(k) \/ tcp_server_poll(k) \/ tcp_err_abrt(k)
       \/ \E n \in 0 .. Len(g_header_lines) : tcp_client_connected(k, n)
       \/ \E n \in 1 .. MaxBytes, memory \in BOOLEAN : tcp_recv(k, n, memory)

Starts ==
  \/ \E mode \in Modes : tcp_server_open(mode)
  \/ machikania_tcp_close \/ start_tcp_client \/ init_socket_system \/ shift_pcb_fifo
  \/ \E i \in Ids : CloseLook(i) \/ machikania_tcp_status(i)
  \/ \E i \in Ids \cup {NoId} :
       \/ \E n \in 1 .. MaxBytes : tcp_read_from_buffer(i, n)
       \/ \E len \in Lengths : machikania_tcp_write(i, len)

\* The rest of a statement.
Continues ==
  \/ start_tcp_server \/ WalkLook \/ WalkUnlink \/ WalkEnd
  \/ (\E b \in BOOLEAN : tcp_client_open(b)) \/ register_state
  \/ CloseClient \/ ReceiveNone \/ Copy \/ Drop \/ CountBuffer \/ CountOther
  \/ \E b \in BOOLEAN : SendPart(b)

Next == Callbacks \/ Starts \/ Continues

Spec == Init /\ [][Next]_vars

\* A statement that was started goes on: interrupts end.
FairSpec == Spec /\ WF_vars(Continues)
-----------------------------------------------------------------------------
(* Properties.                                                             *)

\* The sockets' state keeps its type.
TypeOK ==
  /\ role \in {"none", "client", "server"} /\ {listening, g_connected} \subseteq BOOLEAN
  /\ {s_pcb, g_pcb, to} \subseteq Conns \cup {None}
  /\ g_connection_id \in [Ids -> Conns \cup {None}] /\ g_connection_id_number \in Ids
  /\ Len(g_pcb_fifo) =< FIFO /\ ToSet(g_pcb_fifo) \cup known \subseteq Ids
  /\ \A j \in DOMAIN g_socket_buffer : g_socket_buffer[j].key \in Keys

\* Every byte that arrived is handed to TCPRECEIVE once, in order, for the
\* connection it came on, whatever arrives while a statement runs.
BytesOf(k) ==
  FlattenSeq([j \in DOMAIN g_socket_buffer |->
    IF g_socket_buffer[j].key = k THEN g_socket_buffer[j].data ELSE << >>])
ReceivedInOrder == \A k \in Keys : BytesOf(k) = pending[k]

\* A connection accepted in mode 0, or an arrival in mode 1, for which the FIFO had
\* room stays there until TCPACCEPT() takes it.
NoConnectionMissed == listening => news \subseteq ToSet(g_pcb_fifo)

\* TCPSTATUS(0, x) tells of each id that TCPACCEPT() gave whether its client is
\* connected; one that lwIP gave up itself counts as connected.
StatusIsTrue ==
  \A i \in known :
    IF g_connection_id[i] = None THEN ~\E k \in Conns : IsOpen(k) /\ arg[k] = i
    ELSE conn[g_connection_id[i]] \in {"open", "aborted"} /\ arg[g_connection_id[i]] = i

\* A connection carries as many bytes of each message as TCPSEND says: all if it
\* returned no error, otherwise the parts before the one that failed; messages
\* are in order and apart, and their first parts are right.
SameUpToParts(w, a) ==
  /\ Len(w) = Len(a)
  /\ \A j \in DOMAIN a :
       w[j][1] = a[j][1] /\ (a[j][2] =< WIFI_BUFF_SIZE => w[j][2] = a[j][2])
SendsMessages == pc # "send" => \A k \in Conns : SameUpToParts(wire[k], asked[k])

\* The tables of connections follow lwIP's callbacks, whatever statement they interrupt.
ConnectionsKnown == TypeOK /\ NoConnectionMissed /\ StatusIsTrue

\* A message of several parts goes out as it is.
SendsWhole == pc # "send" => wire = asked

\* The message kept before the connection is sent when it is made.
KeptIsSent ==
  [][g_connected' /\ ~g_connected => Len(wire'[g_pcb']) = Len(g_header_lines)]_vars

\* TCPACCEPT() gives every connection that is open, in mode 1 every one with data.
AllTold ==
  \A k \in Conns \ Clients :
    IsOpen(k) /\ pc # "mode" /\ (g_tcp_accept_mode = 0 \/ pending[Id(arg[k])] # << >>) =>
      arg[k] \in known \cup ToSet(g_pcb_fifo)

\* TCPSTATUS(0, x) is 1 only for a connection that is open.
StatusIsExact == \A i \in known : g_connection_id[i] # None => IsOpen(g_connection_id[i])

\* TCPSEND and TCPCLOSE x never use a pcb that is closed.
NoClosedPcb == pc \in {"send", "close"} /\ to # None => IsOpen(to)

\* The bytes kept for an id are those of the connection it stands for.
OwnBytes ==
  \A k \in Conns \ Clients : IsOpen(k) =>
    \A j \in DOMAIN pending[Id(arg[k])] : pending[Id(arg[k])][j][1] = k

\* TCPSTATUS(1, x) returns.
StatusReturns == pc = "count" ~> pc = "idle"
-----------------------------------------------------------------------------
(* What decides the rest of a behaviour: not what a statement has left in   *)
(* variables that the next one sets again.                                  *)

In(s, x) == IF pc \in s THEN <<x>> ELSE << >>

\* Of what went out, that which is not matched yet: messages are only added.
Unmatched(k) ==
  LET n == Len(asked[k]) IN
  IF n =< Len(wire[k]) /\ SameUpToParts(SubSeq(wire[k], 1, n), asked[k])
  THEN SubSeq(wire[k], n + 1, Len(wire[k])) ELSE <<wire[k], asked[k]>>

Live ==
  <<pc, In({"walk", "unlink"}, then), In({"receive", "drop", "count", "close"}, key),
    In({"mode", "receive", "drop", "send"}, want), In({"unlink", "drop", "count"}, pos),
    In({"send", "close"}, to), msg, In({"send"}, left),
    sock, ids, g_socket_buffer, lwip, pending,
    [k \in Conns |-> Unmatched(k)], hist>>
=============================================================================
