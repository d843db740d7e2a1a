--------------------------- MODULE SocketsProofs ---------------------------
(***************************************************************************)
(* Sockets, for any number of connections up to that of ids, any length of  *)
(* the FIFO, of what arrives and of the messages: an id that got into the   *)
(* FIFO is given, the status of an id follows the callbacks, every byte     *)
(* that arrived is handed on once and in order, and as much of a message is *)
(* sent as TCPSEND says.  IInv is about the tables, RInv adds the list of   *)
(* buffers, SInv what was sent.                                             *)
(***************************************************************************)
EXTENDS Sockets, SequenceTheorems, WellFoundedInduction, TLAPS

Server(k) == arg[k] # NoId
Unused(k) == conn[k] = "none"
Held(k)   == conn[k] \in {"open", "aborted"}
Given     == known \cup ToSet(g_pcb_fifo)

\* What arrived and waits.
Bytes   == Conns \X (0 .. MaxBytes)
Buffers == [key : Keys, data : Seq(Bytes)]

\* The statements and the client.
Program ==
  /\ role \in {"none", "client", "server"} /\ listening \in BOOLEAN /\ g_connected \in BOOLEAN
  /\ s_pcb \in Conns \cup {None} /\ g_pcb \in Conns \cup {None} /\ to \in Conns \cup {None}
  /\ want \in Nat

\* The connections of a server.
Tables ==
  /\ g_connection_id \in [Ids -> Conns \cup {None}] /\ g_connection_id_number \in Ids
  /\ g_pcb_fifo \in Seq(Ids) /\ Len(g_pcb_fifo) <= FIFO
  /\ known \subseteq Ids /\ news \subseteq ToSet(g_pcb_fifo)
  /\ conn \in [Conns -> {"none", "connecting", "open", "closed", "aborted"}]
  /\ arg \in [Conns -> Ids \cup {NoId}]

\* The list of buffers, and where the statements are in it.
List ==
  /\ g_socket_buffer \in Seq(Buffers) /\ pending \in [Keys -> Seq(Bytes)]
  /\ pc = "unlink" => g_socket_buffer # << >>
  /\ pc = "drop" => pos \in 1 .. Len(g_socket_buffer)

Types == Program /\ Tables /\ List

\* When there is a server, and which statements are in progress then.
Opening == pc \in {"open", "register"} \/ (pc \in {"walk", "unlink"} /\ then = "open")
Serving ==
  /\ listening => role = "server" \/ pc = "mode"
  /\ then \in {"idle", "open"}
  /\ pc \in {"walk", "unlink"} => ~listening
  /\ pc \in {"open", "register"} => role = "none"
  /\ Opening => ~listening /\ (pc # "register" => CanConnect)
  /\ \A k \in Conns : Server(k) /\ IsOpen(k) => listening
  /\ g_pcb_fifo # << >> => role = "server" \/ pc = "mode"

\* Connections are used in their order, and ids too: as long as another connection is to come
\* the next id is above all those that are in use.
Order ==
  /\ \A k \in Conns : Unused(k) => arg[k] = NoId /\ g_connection_id_number < k
  /\ \A k \in Conns : conn[k] = "connecting" => arg[k] = NoId
  /\ CanConnect =>
       /\ \A i \in Given : i < g_connection_id_number
       /\ \A k \in Conns : Server(k) /\ IsOpen(k) => arg[k] < g_connection_id_number
  /\ s_pcb # None => arg[s_pcb] = NoId /\ ~Unused(s_pcb)

\* The table of ids and the arguments that lwIP keeps agree.
Table ==
  /\ \A k \in Conns : Server(k) /\ IsOpen(k) => g_connection_id[arg[k]] = k
  /\ \A i \in Given : g_connection_id[i] # None =>
       Held(g_connection_id[i]) /\ arg[g_connection_id[i]] = i
  /\ pc = "close" =>
       \E i \in known : key = Id(i) /\
         (to # None => arg[to] = i /\ g_connection_id[i] \in {to, None} /\ ~Unused(to))

IInv == Types /\ Serving /\ Order /\ Table

\* What the theorems suppose: nothing of Cases happens, and there are ids for all connections.
Plain == Allow = {} /\ MaxConns <= IDS
-----------------------------------------------------------------------------
(* Lemmas.                                                                 *)

\* What the proofs use of the constants.
LEMMA Constants ==
  /\ MaxConns \in Nat \ {0} /\ MaxBytes \in Nat \ {0} /\ IDS \in Nat \ {0} /\ FIFO \in Nat \ {0}
  /\ Conns \subseteq Nat /\ None \notin Conns /\ Ids \subseteq Nat /\ NoId \notin Ids
  /\ Modes \subseteq {0, 1} /\ Lengths \subseteq Nat /\ 0 \in Ids
BY SocketsAssumption DEF Conns, None, Ids, NoId

\* A set of natural numbers that is not empty has a least element.
LEMMA Least ==
  ASSUME NEW S, S \subseteq Nat, S # {}
  PROVE  \E x \in S : \A y \in S : x <= y
<1> DEFINE R == OpToRel(<, Nat)
<1>1. IsWellFoundedOn(R, Nat)
  BY NatLessThanWellFounded
<1>2. PICK x \in S : \A y \in S : ~(<<y, x>> \in R)
  <2> HIDE DEF R
  <2> QED BY <1>1, WFMin
<1>3. ASSUME NEW y \in S PROVE x <= y
  <2>1. ~(y < x)
    BY <1>2 DEF OpToRel
  <2> QED BY <2>1
<1> QED BY <1>3

\* A new connection is the first that was not used.
LEMMA FreshIs ==
  ASSUME CanConnect
  PROVE  Fresh \in Conns /\ Unused(Fresh) /\ \A j \in Conns : Unused(j) => Fresh <= j
<1> DEFINE S == {k \in Conns : Unused(k)}
<1>1. S # {} /\ S \subseteq Nat
  BY Constants DEF CanConnect, Unused
<1>2. PICK k \in S : \A j \in S : k <= j
  BY <1>1, Least
<1>3. \A j \in 1 .. k - 1 : j \in Conns /\ ~(k <= j)
  BY <1>2, Constants DEF Conns
<1>4. conn[k] = "none" /\ \A j \in 1 .. k - 1 : conn[j] # "none"
  BY <1>2, <1>3 DEF Unused
<1>5. Fresh \in Conns /\ conn[Fresh] = "none" /\ \A j \in 1 .. Fresh - 1 : conn[j] # "none"
  BY <1>2, <1>4 DEF Fresh
<1>6. ASSUME NEW j \in Conns, Unused(j) PROVE Fresh <= j
  <2>1. j \in Nat \ {0} /\ Fresh \in Nat
    BY <1>5, Constants DEF Conns
  <2>2. ~(j \in 1 .. Fresh - 1)
    BY <1>5, <1>6 DEF Unused
  <2> QED BY <2>1, <2>2
<1> QED BY <1>5, <1>6 DEF Unused

\* The next id, which starts again after the last one.
LEMMA Next_Id ==
  ASSUME NEW i \in Ids
  PROVE  NextId(i) = (IF i + 1 = IDS THEN 0 ELSE i + 1) /\ NextId(i) \in Ids
<1> DEFINE a == i + 1
<1>1. a \in Nat /\ a <= IDS /\ a > 0
  BY Constants DEF Ids
<1> HIDE DEF a
<1>2. a % IDS = IF a = IDS THEN 0 ELSE a
  BY <1>1, Constants
<1> QED BY <1>1, <1>2, Constants DEF a, NextId, Ids

\* The elements of a sequence that grows at its end, and shrinks at its beginning.
LEMMA ToSetAppend ==
  ASSUME NEW S, NEW s \in Seq(S), NEW x \in S
  PROVE  /\ Append(s, x) \in Seq(S) /\ Len(Append(s, x)) = Len(s) + 1 /\ Append(s, x) # << >>
         /\ ToSet(Append(s, x)) = ToSet(s) \cup {x}
<1>1. /\ Append(s, x) \in Seq(S) /\ Len(Append(s, x)) = Len(s) + 1 /\ Len(s) \in Nat
      /\ \A i \in 1 .. Len(s) : Append(s, x)[i] = s[i]
      /\ Append(s, x)[Len(s) + 1] = x
  BY AppendProperties, LenProperties
<1>2. DOMAIN Append(s, x) = 1 .. Len(s) + 1 /\ DOMAIN s = 1 .. Len(s)
  BY <1>1, LenProperties
<1>3. 1 .. Len(s) + 1 = (1 .. Len(s)) \cup {Len(s) + 1}
  BY <1>1
<1>4. ToSet(Append(s, x)) = ToSet(s) \cup {x}
  BY <1>1, <1>2, <1>3 DEF ToSet
<1>5. Append(s, x) # << >>
  BY <1>1
<1> QED BY <1>1, <1>4, <1>5

LEMMA ToSetTail ==
  ASSUME NEW S, NEW s \in Seq(S), s # << >>
  PROVE  /\ Head(s) \in S /\ Tail(s) \in Seq(S) /\ Len(Tail(s)) = Len(s) - 1 /\ Len(s) \in Nat
         /\ ToSet(s) = ToSet(Tail(s)) \cup {Head(s)}
<1>1. /\ Head(s) \in S /\ Tail(s) \in Seq(S) /\ Len(Tail(s)) = Len(s) - 1 /\ Len(s) \in Nat \ {0}
      /\ \A i \in 1 .. Len(s) - 1 : Tail(s)[i] = s[i + 1]
      /\ Head(s) = s[1]
  BY HeadTailProperties, LenProperties, EmptySeq
<1>2. DOMAIN Tail(s) = 1 .. Len(s) - 1 /\ DOMAIN s = 1 .. Len(s)
  BY <1>1, LenProperties
<1>3. ASSUME NEW y \in ToSet(s) PROVE y \in ToSet(Tail(s)) \cup {Head(s)}
  <2>1. PICK i \in 1 .. Len(s) : y = s[i]
    BY <1>2 DEF ToSet
  <2>2. CASE i = 1
    BY <1>1, <2>1, <2>2
  <2>3. CASE i # 1
    <3>1. i - 1 \in 1 .. Len(s) - 1 /\ s[(i - 1) + 1] = s[i]
      BY <1>1, <2>1, <2>3
    <3>2. Tail(s)[i - 1] = y
      BY <1>1, <2>1, <3>1
    <3> QED BY <1>2, <3>1, <3>2 DEF ToSet
  <2> QED BY <2>2, <2>3
<1>4. ASSUME NEW y \in ToSet(Tail(s)) PROVE y \in ToSet(s)
  <2>1. PICK i \in 1 .. Len(s) - 1 : y = s[i + 1]
    BY <1>1, <1>2 DEF ToSet
  <2>2. i + 1 \in 1 .. Len(s)
    BY <1>1, <2>1
  <2> QED BY <1>2, <2>1, <2>2 DEF ToSet
<1>5. Head(s) \in ToSet(s)
  <2>1. 1 \in 1 .. Len(s)
    BY <1>1
  <2> QED BY <1>1, <1>2, <2>1 DEF ToSet
<1> QED BY <1>1, <1>3, <1>4, <1>5

\* The empty FIFO.
LEMMA ToSetEmpty == ToSet(<< >>) = {}
BY DEF ToSet

\* The first buffer of a connection.
LEMMA FirstMineIs ==
  ASSUME List, Mine # {}
  PROVE  FirstMine \in Mine /\ FirstMine \in 1 .. Len(g_socket_buffer)
         /\ \A l \in Mine : FirstMine <= l
<1>1. Mine \subseteq 1 .. Len(g_socket_buffer) /\ Len(g_socket_buffer) \in Nat
  BY LenProperties DEF List, Mine
<1>2. Mine \subseteq Nat
  BY <1>1
<1>3. \E j \in Mine : \A l \in Mine : j <= l
  BY <1>2, Least
<1> QED BY <1>1, <1>3 DEF FirstMine
-----------------------------------------------------------------------------
(* Types.                                                                  *)

\* Every step keeps the types of what the statements and the client keep.
LEMMA ProgramStep ==
  ASSUME IInv, [Next]_vars
  PROVE  Program'
<1> USE DEF IInv, Types, Program
<1>1. ASSUME UNCHANGED <<sock, to, want>> PROVE Program'
  BY <1>1 DEF sock
<1>2. ASSUME NEW mode \in Modes, tcp_server_open(mode) PROVE Program'
  <2>1. mode \in Nat
    BY Constants
  <2> QED BY <1>2, <2>1 DEF tcp_server_open
<1>3. CASE start_tcp_server \/ machikania_tcp_close \/ WalkEnd \/ register_state
  BY <1>3 DEF start_tcp_server, machikania_tcp_close, tcp_client_close, WalkEnd, register_state
<1>4. ASSUME NEW b \in BOOLEAN, tcp_client_open(b) PROVE Program'
  BY <1>4, FreshIs DEF tcp_client_open, Opening, Serving
<1>5. ASSUME NEW i \in Ids, CloseLook(i) PROVE Program'
  BY <1>5 DEF CloseLook, Tables, sock
<1>6. ASSUME NEW i \in Ids \cup {NoId}, NEW n \in 1 .. MaxBytes, tcp_read_from_buffer(i, n)
      PROVE  Program'
  BY <1>6, Constants DEF tcp_read_from_buffer, sock
<1>7. CASE Copy
  <2> DEFINE d == g_socket_buffer[FirstMine].data
             n == IF want <= Len(d) THEN want ELSE Len(d)
  <2>1. want' = want - n
    BY <1>7 DEF Copy
  <2>2. n \in Nat /\ n <= want
    <3>1. FirstMine \in 1 .. Len(g_socket_buffer)
      BY <1>7, FirstMineIs DEF Copy
    <3>2. g_socket_buffer[FirstMine] \in Buffers
      BY <3>1, ElementOfSeq DEF List
    <3>3. d \in Seq(Bytes)
      BY <3>2 DEF Buffers
    <3>4. Len(d) \in Nat
      BY <3>3, LenProperties
    <3> HIDE DEF d
    <3> QED BY <3>4
  <2>3. want' \in Nat
    <3> HIDE DEF n
    <3> QED BY <2>1, <2>2
  <2> QED BY <1>7, <2>3 DEF Copy, sock
<1>8. ASSUME NEW i \in Ids \cup {NoId}, NEW len \in Lengths, machikania_tcp_write(i, len)
      PROVE  Program'
  <2> DEFINE pcb == IF i = NoId THEN g_pcb ELSE g_connection_id[i]
  <2>1. pcb \in Conns \cup {None}
    BY DEF Tables
  <2>2. (to' = to /\ want' = want) \/ (to' = pcb /\ want' = len)
    BY <1>8 DEF machikania_tcp_write
  <2>3. len \in Nat
    BY Constants
  <2> HIDE DEF pcb
  <2> QED BY <1>8, <2>1, <2>2, <2>3 DEF machikania_tcp_write
<1>9. ASSUME NEW k \in Conns, tcp_result(k) \/ tcp_err_abrt(k) PROVE Program'
  BY <1>9 DEF tcp_result, tcp_client_close, tcp_err_abrt, stmt, sock
<1>10. ASSUME NEW k \in Conns, NEW n \in 0 .. Len(g_header_lines), tcp_client_connected(k, n)
       PROVE  Program'
  BY <1>10 DEF tcp_client_connected, stmt
<1> QED
  BY <1>1, <1>2, <1>3, <1>4, <1>5, <1>6, <1>7, <1>8, <1>9, <1>10
  DEF Next, Callbacks, Starts, Continues, WalkLook, WalkUnlink, start_tcp_client,
      init_socket_system, tcp_server_accept, shift_pcb_fifo, CloseClient, tcp_recv, ReceiveNone,
      Drop, machikania_tcp_status, CountBuffer, CountOther, SendPart, tcp_server_poll, vars, stmt

\* A refused connection is closed at once.
Refused == g_tcp_accept_mode = 0 /\ Full(g_pcb_fifo)

\* What a new client of a server does to the tables.
LEMMA Accept ==
  ASSUME Plain, IInv, tcp_server_accept
  PROVE  /\ Fresh \in Conns /\ Unused(Fresh) /\ listening
         /\ CanConnect /\ \A j \in Conns : Unused(j) => Fresh <= j
         /\ g_connection_id' = [g_connection_id EXCEPT ![g_connection_id_number] = Fresh]
         /\ g_connection_id_number' = NextId(g_connection_id_number)
         /\ conn' = [conn EXCEPT ![Fresh] = IF Refused THEN "closed" ELSE "open"]
         /\ arg' = [arg EXCEPT ![Fresh] = g_connection_id_number]
         /\ \/ g_pcb_fifo' = g_pcb_fifo /\ news' = news /\ (Refused \/ g_tcp_accept_mode # 0)
            \/ /\ ~Refused /\ ~Full(g_pcb_fifo)
               /\ g_pcb_fifo' = Append(g_pcb_fifo, g_connection_id_number)
               /\ news' = news \cup {g_connection_id_number}
         /\ UNCHANGED <<stmt, sock, g_socket_buffer, pending, known>>
<1>1. CanConnect /\ listening
  BY DEF tcp_server_accept
<1> QED BY <1>1, FreshIs DEF tcp_server_accept, Refused, add_pcb_to_fifo

\* What arrives on a connection of a server in mode 1 goes into the FIFO.
LEMMA Receive ==
  ASSUME Plain, IInv, NEW k \in Conns, NEW n \in 1 .. MaxBytes, NEW memory \in BOOLEAN,
         tcp_recv(k, n, memory)
  PROVE  /\ IsOpen(k) /\ memory
         /\ \/ g_pcb_fifo' = g_pcb_fifo /\ news' = news
            \/ /\ Server(k) /\ arg[k] \in Ids /\ ~Full(g_pcb_fifo)
               /\ g_pcb_fifo' = Append(g_pcb_fifo, arg[k]) /\ news' = news \cup {arg[k]}
         /\ UNCHANGED <<stmt, sock, g_connection_id, g_connection_id_number, lwip, known>>
<1>1. k \notin Clients => Server(k) /\ arg[k] \in Ids
  BY DEF Clients, Server, IInv, Types, Tables
<1> QED BY <1>1 DEF tcp_recv, Plain, add_pcb_to_fifo, lwip

\* TCPACCEPT() takes the first id.
LEMMA Shift ==
  ASSUME IInv, shift_pcb_fifo
  PROVE  /\ Head(g_pcb_fifo) \in Ids /\ g_pcb_fifo' \in Seq(Ids) /\ g_pcb_fifo # << >>
         /\ Len(g_pcb_fifo') = Len(g_pcb_fifo) - 1 /\ Len(g_pcb_fifo) \in Nat
         /\ ToSet(g_pcb_fifo) = ToSet(g_pcb_fifo') \cup {Head(g_pcb_fifo)}
         /\ known' = known \cup {Head(g_pcb_fifo)} /\ news' = news \ {Head(g_pcb_fifo)}
         /\ Given' = Given
         /\ UNCHANGED <<stmt, sock, g_connection_id, g_connection_id_number, g_socket_buffer,
              lwip, pending>>
<1>1. g_pcb_fifo \in Seq(Ids) /\ g_pcb_fifo # << >> /\ g_pcb_fifo' = Tail(g_pcb_fifo)
  BY DEF shift_pcb_fifo, IInv, Types, Tables
<1>2. /\ Head(g_pcb_fifo) \in Ids /\ g_pcb_fifo' \in Seq(Ids)
      /\ Len(g_pcb_fifo') = Len(g_pcb_fifo) - 1 /\ Len(g_pcb_fifo) \in Nat
      /\ ToSet(g_pcb_fifo) = ToSet(g_pcb_fifo') \cup {Head(g_pcb_fifo)}
  BY <1>1, ToSetTail
<1> QED BY <1>1, <1>2 DEF shift_pcb_fifo, Given

\* Every step keeps the types of the tables, and tells the program of whom it waits for.
LEMMA TablesStep ==
  ASSUME Plain, IInv, [Next]_vars
  PROVE  Tables'
<1> USE DEF Tables
<1>0. Tables
  BY DEF IInv, Types
<1>1. ASSUME UNCHANGED <<ids, lwip, known, news>> PROVE Tables'
  BY <1>0, <1>1 DEF ids, lwip
<1>2. ASSUME UNCHANGED <<g_connection_id_number, g_pcb_fifo, arg, known, news>>,
             conn' \in [Conns -> {"none", "connecting", "open", "closed", "aborted"}],
             g_connection_id' \in [Ids -> Conns \cup {None}]
      PROVE  Tables'
  BY <1>0, <1>2
<1>3. CASE machikania_tcp_close
  <2>1. conn' \in [Conns -> {"none", "connecting", "open", "closed", "aborted"}]
    BY <1>0, <1>3 DEF machikania_tcp_close, tcp_client_close
  <2> QED BY <1>0, <1>2, <1>3, <2>1 DEF machikania_tcp_close, ids, hist
<1>4. CASE WalkEnd
  <2>1. g_pcb_fifo' = << >> /\ Len(g_pcb_fifo') = 0 /\ g_pcb_fifo' \in Seq(Ids) /\ news' = {}
    BY <1>4 DEF WalkEnd
  <2> QED BY <1>0, <1>4, <2>1, Constants DEF WalkEnd, lwip
<1>5. ASSUME NEW b \in BOOLEAN, tcp_client_open(b) PROVE Tables'
  <2>1. conn' \in [Conns -> {"none", "connecting", "open", "closed", "aborted"}]
    BY <1>0, <1>5 DEF tcp_client_open
  <2> QED BY <1>0, <1>2, <1>5, <2>1 DEF tcp_client_open, ids, hist
<1>6. CASE init_socket_system
  BY <1>0, <1>6, Constants DEF init_socket_system, lwip
<1>7. CASE tcp_server_accept
  <2>1. g_connection_id_number' \in Ids
    BY <1>0, <1>7, Accept, Next_Id
  <2>2. /\ g_connection_id' \in [Ids -> Conns \cup {None}]
        /\ conn' \in [Conns -> {"none", "connecting", "open", "closed", "aborted"}]
        /\ arg' \in [Conns -> Ids \cup {NoId}] /\ known' \subseteq Ids
    <3>1. Fresh \in Conns
      BY <1>7, Accept
    <3>2. g_connection_id' = [g_connection_id EXCEPT ![g_connection_id_number] = Fresh]
      BY <1>7, Accept
    <3>3. conn' = [conn EXCEPT ![Fresh] = IF Refused THEN "closed" ELSE "open"]
      BY <1>7, Accept
    <3>4. arg' = [arg EXCEPT ![Fresh] = g_connection_id_number] /\ known' = known
      BY <1>7, Accept
    <3> QED BY <1>0, <3>1, <3>2, <3>3, <3>4
  <2>3. CASE g_pcb_fifo' = g_pcb_fifo /\ news' = news
    BY <1>0, <2>1, <2>2, <2>3
  <2>4. CASE /\ ~Full(g_pcb_fifo) /\ g_pcb_fifo' = Append(g_pcb_fifo, g_connection_id_number)
             /\ news' = news \cup {g_connection_id_number}
    <3>1. Len(g_pcb_fifo) \in Nat /\ Len(g_pcb_fifo) # FIFO
      BY <1>0, <2>4, LenProperties DEF Full
    <3>2. /\ g_pcb_fifo' \in Seq(Ids) /\ Len(g_pcb_fifo') = Len(g_pcb_fifo) + 1
          /\ ToSet(g_pcb_fifo') = ToSet(g_pcb_fifo) \cup {g_connection_id_number}
      BY <1>0, <2>4, ToSetAppend
    <3>3. Len(g_pcb_fifo') <= FIFO
      BY <1>0, <3>1, <3>2, Constants
    <3> QED BY <1>0, <2>1, <2>2, <2>4, <3>2, <3>3
  <2> QED BY <1>7, <2>3, <2>4, Accept
<1>8. CASE shift_pcb_fifo
  <2>1. Len(g_pcb_fifo') <= FIFO
    BY <1>0, <1>8, Shift, Constants
  <2> QED BY <1>0, <1>8, <2>1, Shift DEF lwip
<1>9. CASE CloseClient
  <2>1. /\ conn' \in [Conns -> {"none", "connecting", "open", "closed", "aborted"}]
        /\ g_connection_id' \in [Ids -> Conns \cup {None}]
    BY <1>0, <1>9 DEF CloseClient, tcp_server_client_close
  <2> QED BY <1>0, <1>2, <1>9, <2>1 DEF CloseClient, hist
<1>10. ASSUME NEW k \in Conns, NEW n \in 1 .. MaxBytes, NEW memory \in BOOLEAN,
              tcp_recv(k, n, memory)
       PROVE  Tables'
  <2>1. UNCHANGED <<g_connection_id, g_connection_id_number, lwip, known>>
    BY <1>10, Receive
  <2>2. CASE g_pcb_fifo' = g_pcb_fifo /\ news' = news
    BY <1>0, <2>1, <2>2 DEF lwip
  <2>3. CASE /\ arg[k] \in Ids /\ ~Full(g_pcb_fifo) /\ g_pcb_fifo' = Append(g_pcb_fifo, arg[k])
             /\ news' = news \cup {arg[k]}
    <3>1. Len(g_pcb_fifo) \in Nat /\ Len(g_pcb_fifo) # FIFO
      BY <1>0, <2>3, LenProperties DEF Full
    <3>2. /\ g_pcb_fifo' \in Seq(Ids) /\ Len(g_pcb_fifo') = Len(g_pcb_fifo) + 1
          /\ ToSet(g_pcb_fifo') = ToSet(g_pcb_fifo) \cup {arg[k]}
      BY <1>0, <2>3, ToSetAppend
    <3>3. Len(g_pcb_fifo') <= FIFO
      BY <1>0, <3>1, <3>2, Constants
    <3> QED BY <1>0, <2>1, <2>3, <3>2, <3>3 DEF lwip
  <2> QED BY <1>10, <2>2, <2>3, Receive
<1>11. ASSUME NEW k \in Conns, tcp_result(k) \/ tcp_server_poll(k) \/ tcp_err_abrt(k)
       PROVE  Tables'
  BY <1>0, <1>2, <1>11 DEF tcp_result, tcp_client_close, tcp_server_poll,
       tcp_server_client_close, tcp_err_abrt, ids, hist
<1>12. ASSUME NEW k \in Conns, NEW n \in 0 .. Len(g_header_lines), tcp_client_connected(k, n)
       PROVE  Tables'
  BY <1>0, <1>2, <1>12 DEF tcp_client_connected, ids, hist
<1> QED
  BY <1>1, <1>3, <1>4, <1>5, <1>6, <1>7, <1>8, <1>9, <1>10, <1>11, <1>12
  DEF Next, Callbacks, Starts, Continues, tcp_server_open, start_tcp_server, WalkLook, WalkUnlink,
      start_tcp_client, register_state, CloseLook, tcp_read_from_buffer, ReceiveNone, Copy, Drop,
      machikania_tcp_status, CountBuffer, CountOther, machikania_tcp_write, SendPart, vars, hist

\* Bytes that arrive are numbered on.
LEMMA NextBytesType ==
  ASSUME Types, NEW k \in Conns, NEW n \in 1 .. MaxBytes
  PROVE  NextBytes(k, n) \in Seq(Bytes) /\ Came(k) \in Keys
<1>1. Came(k) \in Keys
  BY DEF Came, Clients, Keys, Types, Tables
<1> DEFINE p == pending[Came(k)]
           had == IF p = << >> THEN 0 ELSE Last(p)[2]
<1>2. p \in Seq(Bytes)
  BY <1>1 DEF Types, List
<1>3. had \in 0 .. MaxBytes
  <2>1. CASE p = << >>
    BY <2>1, Constants
  <2>2. CASE p # << >>
    <3>1. Len(p) \in 1 .. Len(p)
      BY <1>2, <2>2, LenProperties, EmptySeq
    <3>2. p[Len(p)] \in Bytes
      BY <1>2, <3>1, ElementOfSeq
    <3>3. p[Len(p)][2] \in 0 .. MaxBytes
      BY <3>2 DEF Bytes
    <3> QED BY <2>2, <3>3 DEF Last
  <2> QED BY <2>1, <2>2
<1>4. \A a \in Nat : a % (MaxBytes + 1) \in 0 .. MaxBytes
  <2>1. MaxBytes + 1 \in Nat \ {0} /\ MaxBytes \in Nat
    BY Constants
  <2> DEFINE m == MaxBytes + 1
  <2>2. \A a \in Nat : a % m \in 0 .. m - 1
    <3> HIDE DEF m
    <3> QED BY <2>1 DEF m
  <2>3. m - 1 = MaxBytes
    BY <2>1
  <2> QED BY <2>2, <2>3
<1>5. \A j \in 1 .. n : <<k, (had + j) % (MaxBytes + 1)>> \in Bytes
  <2> HIDE DEF had
  <2>1. \A j \in 1 .. n : had + j \in Nat
    BY <1>3, Constants
  <2> QED BY <1>4, <2>1 DEF Bytes
<1>6. NextBytes(k, n) = [j \in 1 .. n |-> <<k, (had + j) % (MaxBytes + 1)>>]
  BY DEF NextBytes
<1>7. n \in Nat
  BY Constants
<1> HIDE DEF had
<1>8. [j \in 1 .. n |-> <<k, (had + j) % (MaxBytes + 1)>>] \in Seq(Bytes)
  BY <1>5, <1>7, IsASeq
<1> QED BY <1>1, <1>6, <1>8

\* What is left of a sequence when its first elements are taken.
LEMMA RestType ==
  ASSUME NEW S, NEW s \in Seq(S), NEW n \in Nat
  PROVE  SubSeq(s, n + 1, Len(s)) \in Seq(S)
<1>1. Len(s) \in Nat /\ \A i \in n + 1 .. Len(s) : s[i] \in S
  <2>1. Len(s) \in Nat
    BY LenProperties
  <2>2. \A i \in n + 1 .. Len(s) : i \in 1 .. Len(s)
    BY <2>1
  <2> QED BY <2>1, <2>2, ElementOfSeq
<1> QED BY <1>1, SubSeqProperties

\* The list with one of its buffers taken out.
LEMMA RemoveType ==
  ASSUME NEW S, NEW s \in Seq(S), NEW p \in 1 .. Len(s)
  PROVE  RemoveAt(s, p) \in Seq(S)
<1>1. Len(s) \in Nat /\ p \in Nat
  BY LenProperties
<1>2. SubSeq(s, p + 1, Len(s)) \in Seq(S)
  BY <1>1, RestType
<1>3. SubSeq(s, 1, p - 1) \in Seq(S)
  <2>1. \A i \in 1 .. p - 1 : i \in 1 .. Len(s)
    BY <1>1
  <2>2. \A i \in 1 .. p - 1 : s[i] \in S
    BY <2>1, ElementOfSeq
  <2> QED BY <1>1, <2>2, SubSeqProperties
<1> QED BY <1>2, <1>3, ConcatProperties DEF RemoveAt

\* Every step keeps the types of the list, and of the places of the statements in it.
LEMMA ListStep ==
  ASSUME Plain, IInv, [Next]_vars
  PROVE  List'
<1> USE DEF List
<1>0. List
  BY DEF IInv, Types
<1>1. ASSUME UNCHANGED <<g_socket_buffer, pending>>, pc' \notin {"unlink", "drop"} PROVE List'
  BY <1>0, <1>1
<1>2. ASSUME UNCHANGED <<g_socket_buffer, pending, pc, pos>> PROVE List'
  BY <1>0, <1>2
<1>3. CASE WalkLook
  BY <1>0, <1>3 DEF WalkLook
<1>4. CASE WalkUnlink
  <2>1. g_socket_buffer # << >> /\ g_socket_buffer \in Seq(Buffers)
    BY <1>0, <1>4 DEF WalkUnlink
  <2> DEFINE b == Head(g_socket_buffer)
  <2>2. b \in Buffers /\ Tail(g_socket_buffer) \in Seq(Buffers)
    BY <2>1, ToSetTail
  <2>3. << >> \in Seq(Buffers)
    OBVIOUS
  <2>4. g_socket_buffer' \in Seq(Buffers)
    BY <1>4, <2>2, <2>3 DEF WalkUnlink
  <2>5. b.key \in Keys /\ Len(b.data) \in Nat
    <3>1. b.key \in Keys /\ b.data \in Seq(Bytes)
      BY <2>2 DEF Buffers
    <3> QED BY <3>1, LenProperties
  <2>6. pending' = [pending EXCEPT ![b.key] = SubSeq(@, Len(b.data) + 1, Len(@))]
    BY <1>4 DEF WalkUnlink
  <2>7. pending' \in [Keys -> Seq(Bytes)]
    <3> HIDE DEF b
    <3>1. pending[b.key] \in Seq(Bytes)
      BY <1>0, <2>5
    <3>2. SubSeq(pending[b.key], Len(b.data) + 1, Len(pending[b.key])) \in Seq(Bytes)
      BY <2>5, <3>1, RestType
    <3> QED BY <1>0, <2>6, <3>2
  <2> QED BY <1>4, <2>4, <2>7 DEF WalkUnlink
<1>5. ASSUME NEW k \in Conns, NEW n \in 1 .. MaxBytes, NEW memory \in BOOLEAN,
             tcp_recv(k, n, memory)
      PROVE  List'
  <2> DEFINE b == Buffer(IF k \in Clients THEN Pcb(s_pcb) ELSE Id(arg[k]), NextBytes(k, n))
  <2>1. NextBytes(k, n) \in Seq(Bytes) /\ Came(k) \in Keys
    BY NextBytesType DEF IInv
  <2>2. b \in Buffers
    <3>1. k \notin Clients => arg[k] \in Ids
      BY DEF IInv, Types, Tables, Clients
    <3>2. (IF k \in Clients THEN Pcb(s_pcb) ELSE Id(arg[k])) \in Keys
      BY <3>1 DEF IInv, Types, Program, Keys
    <3> QED BY <2>1, <3>2 DEF Buffer, Buffers
  <2>3. g_socket_buffer' = Append(g_socket_buffer, b) /\ UNCHANGED <<pc, pos>>
    <3>1. memory
      BY <1>5, Receive
    <3> QED BY <1>5, <3>1 DEF tcp_recv, stmt
  <2>4. /\ g_socket_buffer' \in Seq(Buffers) /\ Len(g_socket_buffer') = Len(g_socket_buffer) + 1
        /\ g_socket_buffer' # << >>
    <3> HIDE DEF b
    <3> QED BY <1>0, <2>2, <2>3, ToSetAppend
  <2>5. pending' \in [Keys -> Seq(Bytes)]
    <3>1. pending' = [pending EXCEPT ![Came(k)] = @ \o NextBytes(k, n)]
      BY <1>5 DEF tcp_recv
    <3>2. pending[Came(k)] \o NextBytes(k, n) \in Seq(Bytes)
      BY <1>0, <2>1, ConcatProperties
    <3> QED BY <1>0, <3>1, <3>2
  <2>6. pc' = "drop" => pos' \in 1 .. Len(g_socket_buffer')
    <3>1. Len(g_socket_buffer) \in Nat
      BY <1>0, LenProperties
    <3> QED BY <1>0, <2>3, <2>4, <3>1
  <2> QED BY <2>4, <2>5, <2>6
<1>6. CASE Copy
  <2> DEFINE d == g_socket_buffer[FirstMine].data
             n == IF want <= Len(d) THEN want ELSE Len(d)
  <2>1. FirstMine \in 1 .. Len(g_socket_buffer)
    BY <1>0, <1>6, FirstMineIs DEF Copy
  <2>2. g_socket_buffer[FirstMine] \in Buffers /\ d \in Seq(Bytes) /\ Len(d) \in Nat
    <3>1. g_socket_buffer[FirstMine] \in Buffers
      BY <1>0, <2>1, ElementOfSeq
    <3>2. d \in Seq(Bytes)
      BY <3>1 DEF Buffers
    <3> QED BY <3>1, <3>2, LenProperties
  <2>3. n \in Nat
    <3>1. want \in Nat
      BY DEF IInv, Types, Program
    <3> QED BY <2>2, <3>1
  <2>4. /\ g_socket_buffer' = [g_socket_buffer EXCEPT ![FirstMine].data = SubSeq(@, n + 1, Len(@))]
        /\ pending' = [pending EXCEPT ![key] = SubSeq(@, n + 1, Len(@))]
        /\ pos' = FirstMine /\ pc' \in {"drop", "idle"}
    BY <1>6 DEF Copy
  <2> DEFINE e == [g_socket_buffer[FirstMine] EXCEPT !.data = SubSeq(d, n + 1, Len(d))]
  <2>5. g_socket_buffer' = [g_socket_buffer EXCEPT ![FirstMine] = e]
    BY <2>4
  <2>6. e \in Buffers
    <3>1. SubSeq(d, n + 1, Len(d)) \in Seq(Bytes)
      <4> HIDE DEF n, d
      <4> QED BY <2>2, <2>3, RestType
    <3> HIDE DEF n
    <3> QED BY <2>2, <3>1 DEF Buffers
  <2>7. g_socket_buffer' \in Seq(Buffers) /\ Len(g_socket_buffer') = Len(g_socket_buffer)
    <3> HIDE DEF e
    <3> QED BY <1>0, <2>1, <2>5, <2>6, ExceptSeq
  <2>8. pending' \in [Keys -> Seq(Bytes)]
    <3> HIDE DEF n
    <3>1. \A k \in Keys : SubSeq(pending[k], n + 1, Len(pending[k])) \in Seq(Bytes)
      BY <1>0, <2>3, RestType
    <3> QED BY <1>0, <2>4, <3>1
  <2> QED BY <2>1, <2>4, <2>7, <2>8
<1>7. CASE Drop
  <2>1. pos \in 1 .. Len(g_socket_buffer)
    BY <1>0, <1>7 DEF Drop
  <2>2. g_socket_buffer' \in Seq(Buffers)
    BY <1>0, <1>7, <2>1, RemoveType DEF Drop
  <2> QED BY <1>0, <1>7, <2>2 DEF Drop
<1>8. ASSUME NEW i \in Ids \cup {NoId}, NEW len \in Lengths, machikania_tcp_write(i, len)
      PROVE  List'
  <2>1. /\ UNCHANGED <<g_socket_buffer, pending, pos>> /\ pc = "idle" /\ pc' \in {"idle", "send"}
    BY <1>8 DEF machikania_tcp_write
  <2> QED BY <1>1, <2>1
<1>9. ASSUME NEW b \in BOOLEAN, SendPart(b) PROVE List'
  BY <1>1, <1>9 DEF SendPart
<1>10. CASE WalkEnd
  <2>1. pc' \in {"idle", "open"}
    BY <1>10 DEF WalkEnd, IInv, Serving
  <2> QED BY <1>1, <1>10, <2>1 DEF WalkEnd
<1>11. CASE tcp_server_accept \/ shift_pcb_fifo \/ CountOther \/ init_socket_system \/ UNCHANGED vars
  BY <1>2, <1>11 DEF tcp_server_accept, shift_pcb_fifo, CountOther, init_socket_system, vars, stmt
<1>12. ASSUME NEW k \in Conns, tcp_result(k) \/ tcp_server_poll(k) \/ tcp_err_abrt(k)
       PROVE  List'
  BY <1>2, <1>12 DEF tcp_result, tcp_server_poll, tcp_err_abrt, stmt
<1>14. ASSUME NEW k \in Conns, NEW n \in 0 .. Len(g_header_lines), tcp_client_connected(k, n)
       PROVE  List'
  BY <1>2, <1>14 DEF tcp_client_connected, stmt
<1>13. ASSUME NEW b \in BOOLEAN, tcp_client_open(b) PROVE List'
  BY <1>1, <1>13 DEF tcp_client_open
<1> QED
  BY <1>1, <1>3, <1>4, <1>5, <1>6, <1>7, <1>8, <1>9, <1>10, <1>11, <1>12, <1>13, <1>14
  DEF Next, Callbacks, Starts, Continues, tcp_server_open, start_tcp_server, machikania_tcp_close,
      start_tcp_client, register_state, CloseLook, CloseClient, tcp_read_from_buffer, ReceiveNone,
      machikania_tcp_status, CountBuffer
-----------------------------------------------------------------------------
(* The server, and the order of connections.                               *)

\* Every step keeps what is known of a server.
LEMMA ServingStep ==
  ASSUME Plain, IInv, [Next]_vars
  PROVE  Serving'
<1> USE DEF Serving
<1>0. Serving /\ arg \in [Conns -> Ids \cup {NoId}]
      /\ conn \in [Conns -> {"none", "connecting", "open", "closed", "aborted"}]
  BY DEF IInv, Types, Tables
<1> DEFINE Open(k) == Server(k) /\ IsOpen(k)
           NotMore == \A k \in Conns : Open(k)' => Open(k)
<1>1. ASSUME UNCHANGED <<listening, role, g_pcb_fifo, pc, then>>, NotMore, ~Opening \/ CanConnect' = CanConnect
      PROVE  Serving'
  BY <1>0, <1>1 DEF Opening
<1>2. ASSUME UNCHANGED <<listening, role, g_pcb_fifo, then, lwip>>, pc # "mode",
             ~Opening', pc' \notin {"mode", "walk", "unlink"}
      PROVE  Serving'
  BY <1>0, <1>2 DEF lwip, Server, IsOpen, Opening
<1>3. ASSUME UNCHANGED <<listening, role, g_pcb_fifo, pc, then, lwip>> PROVE Serving'
  BY <1>1, <1>3 DEF lwip, Server, IsOpen, CanConnect
<1>4. ASSUME NEW mode \in Modes, tcp_server_open(mode) PROVE Serving'
  BY <1>0, <1>4 DEF tcp_server_open, Opening, Server, IsOpen, lwip, ids
<1>5. CASE start_tcp_server
  BY <1>0, <1>5 DEF start_tcp_server, Opening, Server, IsOpen, lwip, ids
<1>6. CASE machikania_tcp_close
  <2>1. NotMore
    <3>1. arg' = arg /\ (conn' = conn \/ conn' = [conn EXCEPT ![s_pcb] = "closed"])
      BY <1>6 DEF machikania_tcp_close, tcp_client_close
    <3> QED BY <1>0, <3>1 DEF Server, IsOpen
  <2>2. \A k \in Conns : ~Open(k)
    BY <1>6 DEF machikania_tcp_close, Plain, Server, IsOpen, InUse, IInv, Order
  <2>3. /\ listening' = (IF role = "server" THEN FALSE ELSE listening) /\ role' = role
        /\ g_pcb_fifo' = g_pcb_fifo /\ pc' = "walk" /\ then' = "idle" /\ pc = "idle"
    BY <1>6 DEF machikania_tcp_close, ids
  <2>4. ~listening'
    BY <1>0, <2>3
  <2> QED BY <1>0, <2>1, <2>2, <2>3, <2>4 DEF Opening
<1>7. CASE WalkLook \/ WalkUnlink
  <2>1. UNCHANGED <<listening, role, g_pcb_fifo, lwip, then>>
    BY <1>7 DEF WalkLook, WalkUnlink, sock, ids
  <2>2. pc \in {"walk", "unlink"} /\ pc' \in {"walk", "unlink"}
    BY <1>7 DEF WalkLook, WalkUnlink
  <2>3. NotMore /\ CanConnect' = CanConnect
    BY <2>1 DEF Server, IsOpen, lwip, CanConnect
  <2> QED BY <1>0, <2>1, <2>2, <2>3 DEF Opening
<1>8. CASE WalkEnd
  <2>1. /\ role' = "none" /\ g_pcb_fifo' = << >> /\ pc' = then /\ then' = then /\ pc = "walk"
        /\ UNCHANGED <<listening, lwip>>
    BY <1>8 DEF WalkEnd
  <2>2. ~listening /\ \A k \in Conns : ~Open(k)
    BY <1>0, <2>1
  <2>3. (\A k \in Conns : ~Open(k)') /\ CanConnect' = CanConnect
    BY <2>1, <2>2 DEF Server, IsOpen, lwip, CanConnect
  <2> QED BY <1>0, <2>1, <2>2, <2>3 DEF Opening
<1>9. CASE start_tcp_client
  <2>1. /\ UNCHANGED <<listening, role, g_pcb_fifo, lwip>> /\ pc = "idle" /\ pc' = "walk"
        /\ then' = "open" /\ ~listening /\ CanConnect
    BY <1>9 DEF start_tcp_client, Plain, sock, ids
  <2>2. NotMore /\ CanConnect'
    BY <2>1 DEF Server, IsOpen, lwip, CanConnect
  <2> QED BY <1>0, <2>1, <2>2 DEF Opening
<1>10. ASSUME NEW b \in BOOLEAN, tcp_client_open(b) PROVE Serving'
  <2>1. /\ UNCHANGED <<listening, role, g_pcb_fifo, then, arg>> /\ pc = "open"
        /\ pc' \in {"register", "idle"}
        /\ conn' = conn \/ conn' = [conn EXCEPT ![Fresh] = "connecting"]
    BY <1>10 DEF tcp_client_open, ids
  <2>2. NotMore
    BY <1>0, <2>1 DEF Server, IsOpen
  <2> QED BY <1>0, <2>1, <2>2 DEF Opening
<1>11. CASE register_state
  <2>1. /\ UNCHANGED <<listening, g_pcb_fifo, then, lwip>> /\ pc = "register" /\ pc' = "idle"
        /\ role' = "client"
    BY <1>11 DEF register_state, ids
  <2>2. NotMore
    BY <2>1 DEF Server, IsOpen, lwip
  <2> QED BY <1>0, <2>1, <2>2 DEF Opening
<1>12. CASE tcp_server_accept
  <2>1. listening /\ UNCHANGED <<stmt, sock>>
    BY <1>12, Accept
  <2>2. ~Opening /\ pc \notin {"walk", "unlink"}
    BY <1>0, <2>1
  <2> QED BY <1>0, <2>1, <2>2 DEF Opening, stmt, sock
<1>13. CASE shift_pcb_fifo
  <2>1. UNCHANGED <<stmt, sock, lwip>> /\ g_pcb_fifo # << >>
    BY <1>13, Shift
  <2>2. NotMore /\ CanConnect' = CanConnect
    BY <2>1 DEF Server, IsOpen, lwip, CanConnect
  <2> QED BY <1>0, <2>1, <2>2 DEF Opening, stmt, sock
<1>14. ASSUME NEW k \in Conns, NEW n \in 1 .. MaxBytes, NEW memory \in BOOLEAN,
              tcp_recv(k, n, memory)
       PROVE  Serving'
  <2>1. UNCHANGED <<stmt, sock, lwip>> /\ IsOpen(k) /\ (g_pcb_fifo' = g_pcb_fifo \/ Server(k))
    BY <1>14, Receive
  <2>2. NotMore /\ CanConnect' = CanConnect
    BY <2>1 DEF Server, IsOpen, lwip, CanConnect
  <2>3. g_pcb_fifo' # << >> => role = "server" \/ pc = "mode"
    BY <1>0, <2>1
  <2> QED BY <1>0, <2>1, <2>2, <2>3 DEF Opening, stmt, sock
<1>15. ASSUME NEW k \in Conns, NEW n \in 0 .. Len(g_header_lines), tcp_client_connected(k, n)
       PROVE  Serving'
  <2>1. /\ UNCHANGED <<listening, role, g_pcb_fifo, pc, then, arg>>
        /\ conn[k] = "connecting" /\ conn' = [conn EXCEPT ![k] = "open"]
    BY <1>15 DEF tcp_client_connected, stmt, ids
  <2>2. ~Server(k)
    BY <2>1 DEF IInv, Order, Server
  <2>3. NotMore /\ CanConnect' = CanConnect
    BY <1>0, <2>1, <2>2 DEF Server, IsOpen, CanConnect
  <2> QED BY <1>1, <2>1, <2>3
<1>16. ASSUME NEW k \in Conns, tcp_result(k) PROVE Serving'
  <2>1. /\ UNCHANGED <<listening, role, g_pcb_fifo, pc, then, arg>>
        /\ conn' = conn \/ conn' = [conn EXCEPT ![s_pcb] = "closed"]
    BY <1>16 DEF tcp_result, tcp_client_close, stmt, ids
  <2>2. s_pcb # None => ~Unused(s_pcb)
    BY DEF IInv, Order
  <2>3. s_pcb \in Conns \cup {None} /\ (conn' = conn \/ s_pcb # None)
    BY <1>16 DEF tcp_result, tcp_client_close, IInv, Types, Program
  <2>4. NotMore /\ CanConnect' = CanConnect
    BY <1>0, <2>1, <2>2, <2>3 DEF Server, IsOpen, CanConnect, Unused
  <2> QED BY <1>1, <2>1, <2>4
<1>17. ASSUME NEW k \in Conns, tcp_server_poll(k) PROVE Serving'
  <2>1. /\ UNCHANGED <<listening, role, g_pcb_fifo, pc, then, arg>> /\ Open(k)
        /\ conn' = conn \/ conn' = [conn EXCEPT ![g_connection_id[arg[k]]] = "closed"]
    BY <1>17 DEF tcp_server_poll, tcp_server_client_close, stmt, sock, Clients, Server
  <2>2. ~Opening
    BY <1>0, <2>1
  <2>3. NotMore
    BY <1>0, <2>1 DEF Server, IsOpen
  <2> QED BY <1>1, <2>1, <2>2, <2>3
<1>18. CASE CloseClient
  <2>1. /\ UNCHANGED <<listening, role, g_pcb_fifo, then, arg>> /\ pc = "close" /\ pc' = "idle"
        /\ conn' = conn \/ conn' = [conn EXCEPT ![to] = "closed"]
    BY <1>18 DEF CloseClient, tcp_server_client_close, sock
  <2>2. NotMore
    BY <1>0, <2>1 DEF Server, IsOpen
  <2> QED BY <1>0, <2>1, <2>2 DEF Opening
<1>19. CASE init_socket_system \/ CountOther \/ UNCHANGED vars
  BY <1>3, <1>19 DEF init_socket_system, CountOther, vars, stmt, sock, ids
<1>20. ASSUME NEW i \in Ids \cup {NoId}, NEW len \in Lengths, machikania_tcp_write(i, len)
       PROVE  Serving'
  <2>1. pc = "idle" /\ pc' \in {"idle", "send"} /\ UNCHANGED <<listening, role, g_pcb_fifo, then, lwip>>
    BY <1>20 DEF machikania_tcp_write, ids
  <2> QED BY <1>2, <2>1 DEF Opening
<1>21. ASSUME NEW i \in Ids, CloseLook(i) \/ machikania_tcp_status(i) PROVE Serving'
  BY <1>2, <1>21 DEF CloseLook, machikania_tcp_status, Opening, sock, ids
<1>22. ASSUME NEW i \in Ids \cup {NoId}, NEW n \in 1 .. MaxBytes, tcp_read_from_buffer(i, n)
       PROVE  Serving'
  BY <1>2, <1>22 DEF tcp_read_from_buffer, Opening, sock, ids
<1>23. CASE ReceiveNone \/ Copy \/ Drop \/ CountBuffer
  BY <1>2, <1>23 DEF ReceiveNone, Copy, Drop, CountBuffer, Opening, sock, ids
<1>24. ASSUME NEW b \in BOOLEAN, SendPart(b) PROVE Serving'
  BY <1>2, <1>24 DEF SendPart, Opening, sock, ids
<1>25. ASSUME NEW k \in Conns, tcp_err_abrt(k) PROVE Serving'
  <2>1. /\ UNCHANGED <<listening, role, g_pcb_fifo, pc, then, arg>>
        /\ InUse(k) /\ conn' = [conn EXCEPT ![k] = "aborted"]
    BY <1>25 DEF tcp_err_abrt, stmt, sock, ids
  <2>2. NotMore /\ CanConnect' = CanConnect
    BY <1>0, <2>1 DEF Server, IsOpen, CanConnect, InUse
  <2> QED BY <1>1, <2>1, <2>2
<1> QED
  BY <1>4, <1>5, <1>6, <1>7, <1>8, <1>9, <1>10, <1>11, <1>12, <1>13, <1>14, <1>15, <1>16, <1>17,
     <1>18, <1>19, <1>20, <1>21, <1>22, <1>23, <1>24, <1>25
  DEF Next, Callbacks, Starts, Continues

\* A step that opens no connection of a server keeps the order.
LEMMA OrderFrame ==
  ASSUME IInv, UNCHANGED <<arg, g_connection_id_number>>,
         \A i \in Given' : i \in Given \/ \E k \in Conns : Server(k) /\ IsOpen(k) /\ i = arg[k],
         \A k \in Conns : /\ Unused(k)' = Unused(k)
                          /\ conn'[k] = "connecting" => conn[k] = "connecting"
                          /\ Server(k) /\ IsOpen(k)' => IsOpen(k),
         s_pcb' \in {s_pcb, None}
  PROVE  Order'
<1>1. Order /\ s_pcb \in Conns \cup {None}
  BY DEF IInv, Types, Program
<1>2. CanConnect' = CanConnect
  BY DEF CanConnect, Unused
<1>3. \A k \in Conns : Server(k)' = Server(k)
  BY DEF Server
<1>4. \A k \in Conns : (Unused(k) => arg[k] = NoId /\ g_connection_id_number < k)'
  BY <1>1 DEF Order
<1>5. \A k \in Conns : (conn[k] = "connecting" => arg[k] = NoId)'
  BY <1>1 DEF Order
<1>6. CanConnect' => /\ \A i \in Given' : i < g_connection_id_number'
                     /\ \A k \in Conns : (Server(k) /\ IsOpen(k) => arg[k] < g_connection_id_number)'
  BY <1>1, <1>2, <1>3 DEF Order
<1>7. s_pcb' # None => (arg[s_pcb] = NoId /\ ~Unused(s_pcb))'
  BY <1>1 DEF Order, Unused
<1> QED BY <1>4, <1>5, <1>6, <1>7 DEF Order

\* Every step keeps the order of connections and ids.
LEMMA OrderStep ==
  ASSUME Plain, IInv, [Next]_vars
  PROVE  Order'
<1>0. /\ Order /\ arg \in [Conns -> Ids \cup {NoId}] /\ s_pcb \in Conns \cup {None}
      /\ conn \in [Conns -> {"none", "connecting", "open", "closed", "aborted"}]
      /\ g_connection_id_number \in Ids /\ g_pcb_fifo \in Seq(Ids) /\ known \subseteq Ids
  BY DEF IInv, Types, Tables, Program
<1>1. ASSUME UNCHANGED <<lwip, g_connection_id_number, known, g_pcb_fifo, s_pcb>> PROVE Order'
  BY <1>0, <1>1, OrderFrame DEF lwip, Given, Unused, Server, IsOpen
<1>2. ASSUME UNCHANGED <<arg, g_connection_id_number, known, g_pcb_fifo>>, s_pcb' \in {s_pcb, None},
             NEW k \in Conns, ~Unused(k), NEW x \in {"closed", "aborted"},
             conn' = [conn EXCEPT ![k] = x]
      PROVE  Order'
  BY <1>0, <1>2, OrderFrame DEF Given, Unused, Server, IsOpen
<1>3. ASSUME UNCHANGED <<arg, g_connection_id_number, known, g_pcb_fifo>>, tcp_client_close
      PROVE  Order'
  <2>1. s_pcb' = None
    BY <1>3 DEF tcp_client_close
  <2>2. CASE s_pcb = None
    <3>1. conn' = conn
      BY <1>3, <2>2 DEF tcp_client_close
    <3> QED BY <1>0, <1>3, <2>1, <3>1, OrderFrame DEF Given, Unused, Server, IsOpen
  <2>3. CASE s_pcb # None
    <3>1. s_pcb \in Conns /\ ~Unused(s_pcb) /\ conn' = [conn EXCEPT ![s_pcb] = "closed"]
      BY <1>0, <1>3, <2>3 DEF tcp_client_close, Order
    <3> QED BY <1>2, <1>3, <2>1, <3>1
  <2> QED BY <2>2, <2>3
<1>4. CASE machikania_tcp_close
  <2>1. UNCHANGED <<arg, g_connection_id_number, g_pcb_fifo, known>>
        /\ (tcp_client_close \/ UNCHANGED <<conn, s_pcb>>)
    BY <1>4 DEF machikania_tcp_close, ids, hist
  <2> QED BY <1>1, <1>3, <2>1 DEF lwip
<1>5. CASE WalkEnd
  <2>1. UNCHANGED <<lwip, g_connection_id_number, known, s_pcb>> /\ g_pcb_fifo' = << >>
    BY <1>5 DEF WalkEnd
  <2>2. \A i \in Given' : i \in Given
    BY <2>1, ToSetEmpty DEF Given
  <2> QED BY <2>1, <2>2, OrderFrame DEF lwip, Unused, IsOpen
<1>6. ASSUME NEW b \in BOOLEAN, tcp_client_open(b) PROVE Order'
  <2>1. UNCHANGED <<arg, ids, known>>
    BY <1>6 DEF tcp_client_open, hist
  <2>2. CASE ~b
    <3>1. conn' = conn /\ s_pcb' = None
      BY <1>6, <2>2 DEF tcp_client_open
    <3> QED BY <2>1, <3>1, OrderFrame DEF ids, Given, Unused, IsOpen
  <2>3. CASE b
    <3>1. /\ conn' = [conn EXCEPT ![Fresh] = "connecting"] /\ s_pcb' = Fresh /\ CanConnect
          /\ Fresh \in Conns /\ Unused(Fresh)
      BY <1>6, <2>3, FreshIs DEF tcp_client_open, IInv, Serving, Opening
    <3>2. Given' = Given /\ g_connection_id_number' = g_connection_id_number /\ arg' = arg
      BY <2>1 DEF Given, ids
    <3>3. \A k \in Conns : /\ Unused(k)' => Unused(k)
                           /\ conn'[k] = "connecting" => conn[k] = "connecting" \/ k = Fresh
                           /\ (Server(k) /\ IsOpen(k))' => Server(k) /\ IsOpen(k)
      BY <1>0, <3>1, <3>2 DEF Unused, Server, IsOpen
    <3>4. arg[Fresh] = NoId
      BY <1>0, <3>1 DEF Order
    <3>5. ~Unused(s_pcb)'
      BY <1>0, <3>1 DEF Unused
    <3> QED BY <1>0, <3>1, <3>2, <3>3, <3>4, <3>5 DEF Order, Server, IsOpen
  <2> QED BY <2>2, <2>3
<1>7. CASE init_socket_system
  <2>1. /\ role = "none" /\ pc = "idle" /\ \A k \in Conns : ~IsOpen(k)
        /\ g_connection_id_number' = 0 /\ known' = {}
        /\ UNCHANGED <<g_pcb_fifo, lwip, s_pcb>>
    BY <1>7 DEF init_socket_system, sock
  <2>2. g_pcb_fifo' = << >>
    BY <2>1 DEF IInv, Serving
  <2>3. Given' = {}
    BY <2>1, <2>2, ToSetEmpty DEF Given
  <2>4. \A k \in Conns : 0 < k
    BY DEF Conns
  <2> QED BY <1>0, <2>1, <2>3, <2>4 DEF Order, lwip, Unused, Server, IsOpen
<1>8. CASE tcp_server_accept
  <2> DEFINE f == Fresh
             num == g_connection_id_number
  <2>1. /\ f \in Conns /\ Unused(f) /\ CanConnect /\ \A j \in Conns : Unused(j) => f <= j
        /\ num' = NextId(num) /\ known' = known /\ s_pcb' = s_pcb
        /\ conn' = [conn EXCEPT ![f] = IF Refused THEN "closed" ELSE "open"]
        /\ arg' = [arg EXCEPT ![f] = num]
        /\ g_pcb_fifo' = g_pcb_fifo \/ g_pcb_fifo' = Append(g_pcb_fifo, num)
    BY <1>8, Accept DEF sock
  <2>2. num \in Nat /\ f \in Nat /\ num < f /\ num # NoId
    BY <1>0, <2>1, Constants DEF Order
  <2>3. \A i \in Given' : i \in Given \cup {num}
    BY <1>0, <2>1, ToSetAppend DEF Given
  <2>4. PICK n \in Ids : n = num'
    BY <1>0, <2>1, Next_Id
  <2>5. n = IF num + 1 = IDS THEN 0 ELSE num + 1
    BY <1>0, <2>1, <2>4, Next_Id
  <2>6. \A j \in Conns : Unused(j)' => Unused(j) /\ j # f /\ f < j /\ j <= MaxConns /\ j \in Nat
    <3>1. \A j \in Conns : Unused(j)' => Unused(j) /\ j # f
      BY <1>0, <2>1 DEF Unused
    <3>2. \A j \in Conns : Unused(j)' => f <= j
      BY <2>1, <3>1
    <3>3. \A j \in Conns : j \in Nat /\ j <= MaxConns
      BY Constants DEF Conns
    <3> QED BY <2>2, <3>1, <3>2, <3>3
  <2>7. \A j \in Conns : Unused(j)' => arg'[j] = NoId /\ n < j
    <3>1. ASSUME NEW j \in Conns, Unused(j)' PROVE n < j
      <4>1. num + 1 < j /\ j \in Nat /\ 0 < j
        BY <2>2, <2>6, <3>1
      <4> HIDE DEF num
      <4> QED BY <2>2, <2>5, <4>1
    <3>2. ASSUME NEW j \in Conns, Unused(j)' PROVE arg'[j] = NoId
      BY <1>0, <2>1, <2>6, <3>2 DEF Order
    <3> QED BY <3>1, <3>2
  <2>8. \A j \in Conns : conn'[j] = "connecting" => arg'[j] = NoId
    BY <1>0, <2>1 DEF Order
  <2>9. CanConnect' => n = num + 1
    <3>1. ASSUME CanConnect' PROVE n = num + 1
      <4>1. PICK j \in Conns : Unused(j)'
        BY <3>1 DEF CanConnect, Unused
      <4>2. f < j /\ j <= MaxConns /\ j \in Nat /\ MaxConns <= IDS /\ MaxConns \in Nat /\ IDS \in Nat
        BY <2>6, <4>1, Constants DEF Plain
      <4> HIDE DEF num, f
      <4> QED BY <2>2, <2>5, <4>2
    <3> QED BY <3>1
  <2>10. CanConnect' => \A i \in Given' : i < n
    <3>1. \A i \in Given : i \in Nat /\ i < num
      <4>1. Given \subseteq Ids
        <5>1. ToSet(g_pcb_fifo) \subseteq Ids
          BY <1>0, ElementOfSeq, LenProperties DEF ToSet
        <5> QED BY <1>0, <5>1 DEF Given
      <4> QED BY <1>0, <2>1, <4>1, Constants DEF Order
    <3>2. \A i \in Given' : i \in Nat /\ i <= num
      BY <2>2, <2>3, <3>1
    <3> HIDE DEF num
    <3> QED BY <2>2, <2>9, <3>2
  <2>11. CanConnect' => \A k \in Conns : (Server(k) /\ IsOpen(k))' => arg'[k] < n
    <3>1. ASSUME NEW k \in Conns, (Server(k) /\ IsOpen(k))', CanConnect' PROVE arg'[k] < n
      <4>1. PICK a \in Ids \cup {NoId} : a = arg'[k]
        BY <1>0, <2>1
      <4>4. a \in Int
        BY Constants DEF NoId
      <4>2. CASE k = f
        <5>1. a = num
          BY <1>0, <2>1, <4>1, <4>2
        <5> HIDE DEF num
        <5> QED BY <2>2, <2>9, <3>1, <4>1, <4>4, <5>1
      <4>3. CASE k # f
        <5>1. Server(k) /\ IsOpen(k) /\ a = arg[k]
          BY <1>0, <2>1, <3>1, <4>1, <4>3 DEF Server, IsOpen
        <5>2. a < num
          BY <1>0, <2>1, <5>1 DEF Order
        <5> HIDE DEF num
        <5> QED BY <2>2, <2>9, <3>1, <4>1, <4>4, <5>2
      <4> QED BY <4>2, <4>3
    <3> QED BY <3>1
  <2>12. s_pcb' # None => (arg[s_pcb] = NoId /\ ~Unused(s_pcb))'
    <3>1. s_pcb # None => s_pcb \in Conns /\ s_pcb # f /\ arg[s_pcb] = NoId /\ ~Unused(s_pcb)
      BY <1>0, <2>1 DEF Order
    <3> HIDE DEF f
    <3>2. s_pcb # None => arg'[s_pcb] = NoId /\ conn'[s_pcb] = conn[s_pcb]
      BY <1>0, <2>1, <3>1
    <3> QED BY <2>1, <3>1, <3>2 DEF Unused
  <2> QED BY <2>4, <2>7, <2>8, <2>10, <2>11, <2>12 DEF Order
<1>9. CASE shift_pcb_fifo
  <2>1. UNCHANGED <<lwip, g_connection_id_number, s_pcb>> /\ Given' = Given
    BY <1>9, Shift DEF sock
  <2> QED BY <2>1, OrderFrame DEF lwip, Unused, IsOpen
<1>10. ASSUME NEW k \in Conns, NEW n \in 1 .. MaxBytes, NEW memory \in BOOLEAN,
              tcp_recv(k, n, memory)
       PROVE  Order'
  <2>1. /\ UNCHANGED <<lwip, g_connection_id_number, s_pcb, known>> /\ IsOpen(k)
        /\ \/ g_pcb_fifo' = g_pcb_fifo
           \/ Server(k) /\ arg[k] \in Ids /\ g_pcb_fifo' = Append(g_pcb_fifo, arg[k])
    BY <1>10, Receive DEF sock
  <2>2. \A i \in Given' : i \in Given \/ (Server(k) /\ i = arg[k])
    <3>1. CASE g_pcb_fifo' = g_pcb_fifo
      BY <2>1, <3>1 DEF Given
    <3>2. CASE Server(k) /\ arg[k] \in Ids /\ g_pcb_fifo' = Append(g_pcb_fifo, arg[k])
      <4>1. ToSet(g_pcb_fifo') = ToSet(g_pcb_fifo) \cup {arg[k]}
        BY <1>0, <3>2, ToSetAppend
      <4> QED BY <2>1, <3>2, <4>1 DEF Given
    <3> QED BY <2>1, <3>1, <3>2
  <2> QED BY <2>1, <2>2, OrderFrame DEF lwip, Unused, IsOpen
<1>11. ASSUME NEW k \in Conns, NEW n \in 0 .. Len(g_header_lines), tcp_client_connected(k, n)
       PROVE  Order'
  <2>1. /\ UNCHANGED <<arg, g_connection_id_number, g_pcb_fifo, known, s_pcb>>
        /\ conn[k] = "connecting" /\ conn' = [conn EXCEPT ![k] = "open"]
    BY <1>11 DEF tcp_client_connected, ids, hist
  <2>2. ~Server(k)
    BY <1>0, <2>1 DEF Order, Server
  <2> QED BY <1>0, <2>1, <2>2, OrderFrame DEF Given, Unused, IsOpen
<1>12. ASSUME NEW k \in Conns, tcp_result(k) PROVE Order'
  BY <1>3, <1>12 DEF tcp_result, ids, hist
<1>13. ASSUME NEW k \in Conns, tcp_server_poll(k) PROVE Order'
  <2>1. /\ UNCHANGED <<arg, g_connection_id_number, g_pcb_fifo, known, s_pcb>> /\ IsOpen(k)
        /\ Server(k) /\ tcp_server_client_close(arg[k], g_connection_id[arg[k]])
    BY <1>13 DEF tcp_server_poll, hist, sock, Clients, Server
  <2>2. g_connection_id[arg[k]] = k
    BY <2>1 DEF IInv, Table
  <2>3. conn' = [conn EXCEPT ![k] = "closed"] /\ ~Unused(k)
    BY <2>1, <2>2, Constants DEF tcp_server_client_close, IsOpen, Unused
  <2> QED BY <1>2, <2>1, <2>3
<1>14. CASE CloseClient
  <2>1. /\ UNCHANGED <<arg, g_connection_id_number, g_pcb_fifo, known, s_pcb>>
        /\ pc = "close" /\ tcp_server_client_close(key[2], to)
    BY <1>14 DEF CloseClient, hist, sock
  <2>2. to \in Conns \cup {None} /\ (to # None => ~Unused(to))
    BY <2>1 DEF IInv, Table, Types, Program
  <2>3. CASE to = None
    BY <1>1, <2>1, <2>3 DEF tcp_server_client_close, lwip
  <2>4. CASE to # None
    BY <1>2, <2>1, <2>2, <2>4 DEF tcp_server_client_close
  <2> QED BY <2>3, <2>4
<1>15. ASSUME NEW i \in Ids \cup {NoId}, NEW len \in Lengths, machikania_tcp_write(i, len)
       PROVE  Order'
  BY <1>1, <1>15 DEF machikania_tcp_write, ids, hist
<1>16. ASSUME NEW i \in Ids, CloseLook(i) \/ machikania_tcp_status(i) PROVE Order'
  BY <1>1, <1>16 DEF CloseLook, machikania_tcp_status, ids, hist, sock
<1>17. ASSUME NEW i \in Ids \cup {NoId}, NEW n \in 1 .. MaxBytes, tcp_read_from_buffer(i, n)
       PROVE  Order'
  BY <1>1, <1>17 DEF tcp_read_from_buffer, ids, hist, sock
<1>18. ASSUME NEW mode \in Modes, tcp_server_open(mode) PROVE Order'
  BY <1>1, <1>18 DEF tcp_server_open, ids, hist
<1>19. CASE start_tcp_server \/ WalkLook \/ WalkUnlink \/ start_tcp_client \/ register_state
  BY <1>1, <1>19 DEF start_tcp_server, WalkLook, WalkUnlink, start_tcp_client, register_state, ids,
     hist, sock
<1>20. CASE ReceiveNone \/ Copy \/ Drop \/ CountBuffer \/ CountOther \/ UNCHANGED vars
  BY <1>1, <1>20 DEF ReceiveNone, Copy, Drop, CountBuffer, CountOther, vars, ids, hist, sock
<1>21. ASSUME NEW b \in BOOLEAN, SendPart(b) PROVE Order'
  BY <1>1, <1>21 DEF SendPart, ids, hist, sock
<1>22. ASSUME NEW k \in Conns, tcp_err_abrt(k) PROVE Order'
  <2>1. /\ UNCHANGED <<arg, g_connection_id_number, g_pcb_fifo, known, s_pcb>>
        /\ ~Unused(k) /\ conn' = [conn EXCEPT ![k] = "aborted"]
    BY <1>22 DEF tcp_err_abrt, hist, sock, ids, InUse, Unused
  <2> QED BY <1>2, <2>1
<1> QED
  BY <1>4, <1>5, <1>6, <1>7, <1>8, <1>9, <1>10, <1>11, <1>12, <1>13, <1>14, <1>15, <1>16, <1>17,
     <1>18, <1>19, <1>20, <1>21, <1>22
  DEF Next, Callbacks, Starts, Continues
-----------------------------------------------------------------------------
(* The table of ids.                                                       *)

\* The ids that wait and those the program was given.
LEMMA GivenIds ==
  ASSUME IInv
  PROVE  Given \subseteq Ids /\ known \subseteq Given
<1>1. g_pcb_fifo \in Seq(Ids) /\ known \subseteq Ids
  BY DEF IInv, Types, Tables
<1>2. ToSet(g_pcb_fifo) \subseteq Ids
  BY <1>1, ElementOfSeq, LenProperties DEF ToSet
<1> QED BY <1>1, <1>2 DEF Given

\* A step that touches no connection of a server keeps the table.
LEMMA TableFrame ==
  ASSUME IInv, UNCHANGED <<arg, g_connection_id>>,
         \A i \in Given' : i \in Given \/ \E k \in Conns : Server(k) /\ IsOpen(k) /\ i = arg[k],
         \A k \in Conns : /\ Unused(k)' => Unused(k)
                          /\ Server(k) => (IsOpen(k)' => IsOpen(k)) /\ (Held(k) => Held(k)'),
         pc' = "close" => pc = "close" /\ UNCHANGED <<key, to, known>>
  PROVE  Table'
<1>1. Table /\ g_connection_id \in [Ids -> Conns \cup {None}] /\ known \subseteq Ids
      /\ to \in Conns \cup {None} /\ arg \in [Conns -> Ids \cup {NoId}]
  BY DEF IInv, Types, Tables, Program
<1>2. \A k \in Conns : Server(k)' = Server(k)
  BY DEF Server
<1>3. \A k \in Conns : (Server(k) /\ IsOpen(k) => g_connection_id[arg[k]] = k)'
  BY <1>1, <1>2 DEF Table
<1>4. ASSUME NEW i \in Given', g_connection_id[i] # None
      PROVE  Held(g_connection_id[i])' /\ arg[g_connection_id[i]] = i
  <2>1. i \in Ids /\ Held(g_connection_id[i]) /\ arg[g_connection_id[i]] = i
    <3>1. CASE i \in Given
      BY <1>1, <1>4, <3>1, GivenIds DEF Table
    <3>2. CASE \E k \in Conns : Server(k) /\ IsOpen(k) /\ i = arg[k]
      BY <1>1, <3>2 DEF Table, Server, IsOpen, Held
    <3> QED BY <3>1, <3>2
  <2>2. g_connection_id[i] \in Conns /\ Server(g_connection_id[i])
    BY <1>1, <1>4, <2>1, Constants DEF Server
  <2>3. Held(g_connection_id[i])'
    BY <2>1, <2>2 DEF Held
  <2> QED BY <2>1, <2>3
<1>5. ASSUME pc' = "close"
      PROVE  (\E i \in known : key = Id(i) /\
                (to # None => arg[to] = i /\ g_connection_id[i] \in {to, None} /\ ~Unused(to)))'
  <2>1. PICK i \in known : key = Id(i) /\
          (to # None => arg[to] = i /\ g_connection_id[i] \in {to, None} /\ ~Unused(to))
    BY <1>1, <1>5 DEF Table
  <2>2. to # None => ~Unused(to)'
    BY <1>1, <1>5, <2>1 DEF Unused
  <2> QED BY <1>5, <2>1, <2>2 DEF Unused
<1>6. \A i \in Given' : g_connection_id'[i] # None =>
        Held(g_connection_id[i])' /\ arg'[g_connection_id'[i]] = i
  BY <1>4 DEF Held
<1> QED BY <1>3, <1>5, <1>6 DEF Table

\* A connection of a server is closed, and its id is free.
LEMMA TableClose ==
  ASSUME IInv, UNCHANGED <<arg, g_pcb_fifo, known>>,
         NEW k \in Conns, NEW i \in Ids, arg[k] = i, g_connection_id[i] \in {k, None},
         conn' = [conn EXCEPT ![k] = "closed"],
         g_connection_id' = [g_connection_id EXCEPT ![i] = None],
         pc' = "close" => pc = "close" /\ UNCHANGED <<key, to>>
  PROVE  Table'
<1>1. Table /\ g_connection_id \in [Ids -> Conns \cup {None}]
      /\ conn \in [Conns -> {"none", "connecting", "open", "closed", "aborted"}]
      /\ to \in Conns \cup {None} /\ arg \in [Conns -> Ids \cup {NoId}]
  BY DEF IInv, Types, Tables, Program
<1>2. Given' = Given /\ Given \subseteq Ids /\ known \subseteq Ids
  BY GivenIds DEF Given
<1>3. ASSUME NEW j \in Conns, (Server(j) /\ IsOpen(j))' PROVE g_connection_id'[arg'[j]] = j
  <2>1. Server(j) /\ IsOpen(j) /\ j # k
    BY <1>1, <1>3 DEF Server, IsOpen
  <2>2. g_connection_id[arg[j]] = j /\ arg[j] \in Ids
    BY <1>1, <2>1 DEF Table, Server
  <2>3. arg[j] # i
    BY <2>1, <2>2, Constants
  <2> QED BY <1>1, <2>2, <2>3
<1>4. ASSUME NEW l \in Given', g_connection_id'[l] # None
      PROVE  Held(g_connection_id[l])' /\ arg'[g_connection_id'[l]] = l
  <2>1. l # i /\ l \in Ids /\ g_connection_id'[l] = g_connection_id[l]
    BY <1>1, <1>2, <1>4
  <2>2. Held(g_connection_id[l]) /\ arg[g_connection_id[l]] = l
    BY <1>1, <1>2, <1>4, <2>1 DEF Table
  <2>3. g_connection_id[l] \in Conns /\ g_connection_id[l] # k
    BY <1>1, <1>4, <2>1, <2>2
  <2> QED BY <1>1, <2>1, <2>2, <2>3 DEF Held
<1>5. ASSUME pc' = "close"
      PROVE  (\E n \in known : key = Id(n) /\
                (to # None => arg[to] = n /\ g_connection_id[n] \in {to, None} /\ ~Unused(to)))'
  <2>1. PICK n \in known : key = Id(n) /\
          (to # None => arg[to] = n /\ g_connection_id[n] \in {to, None} /\ ~Unused(to))
    BY <1>1, <1>5 DEF Table
  <2>2. to # None => ~Unused(to)'
    BY <1>1, <1>5, <2>1 DEF Unused
  <2>3. g_connection_id'[n] \in {g_connection_id[n], None}
    BY <1>1, <1>2, <2>1
  <2> QED BY <1>5, <2>1, <2>2, <2>3 DEF Unused
<1> QED BY <1>3, <1>4, <1>5 DEF Table


\* Every step keeps the table and lwIP's arguments in agreement.
LEMMA TableStep ==
  ASSUME Plain, IInv, [Next]_vars
  PROVE  Table'
<1>0. /\ Table /\ Order /\ arg \in [Conns -> Ids \cup {NoId}] /\ s_pcb \in Conns \cup {None}
      /\ conn \in [Conns -> {"none", "connecting", "open", "closed", "aborted"}]
      /\ g_connection_id \in [Ids -> Conns \cup {None}] /\ to \in Conns \cup {None}
      /\ g_connection_id_number \in Ids /\ g_pcb_fifo \in Seq(Ids) /\ known \subseteq Ids
  BY DEF IInv, Types, Tables, Program
<1>1. ASSUME UNCHANGED <<lwip, g_connection_id, known, g_pcb_fifo>>, pc' # "close" PROVE Table'
  BY <1>1, TableFrame DEF lwip, Given, Unused, IsOpen, Held
<1>2. ASSUME UNCHANGED <<lwip, g_connection_id, known, g_pcb_fifo, pc, key, to>> PROVE Table'
  BY <1>2, TableFrame DEF lwip, Given, Unused, IsOpen, Held
<1>3. ASSUME UNCHANGED <<arg, g_connection_id, known, g_pcb_fifo>>, tcp_client_close,
             pc' = "close" => pc = "close" /\ UNCHANGED <<key, to>>
      PROVE  Table'
  <2>1. conn' = conn \/ (s_pcb \in Conns /\ arg[s_pcb] = NoId /\ conn' = [conn EXCEPT ![s_pcb] = "closed"])
    BY <1>0, <1>3 DEF tcp_client_close, Order
  <2>2. \A k \in Conns : /\ Unused(k)' => Unused(k)
                         /\ Server(k) => (IsOpen(k)' => IsOpen(k)) /\ (Held(k) => Held(k)')
    BY <1>0, <2>1 DEF Unused, Server, IsOpen, Held
  <2> QED BY <1>3, <2>2, TableFrame DEF Given
<1>4. CASE machikania_tcp_close
  <2>1. UNCHANGED <<arg, g_connection_id, g_pcb_fifo, known>> /\ pc' = "walk"
        /\ (tcp_client_close \/ UNCHANGED conn)
    BY <1>4 DEF machikania_tcp_close, ids, hist
  <2> QED BY <1>1, <1>3, <2>1 DEF lwip
<1>5. CASE WalkEnd
  <2>1. UNCHANGED <<lwip, g_connection_id, known>> /\ g_pcb_fifo' = << >> /\ pc' # "close"
    BY <1>5 DEF WalkEnd, IInv, Serving
  <2>2. \A i \in Given' : i \in Given
    BY <2>1, ToSetEmpty DEF Given
  <2> QED BY <2>1, <2>2, TableFrame DEF lwip, Unused, IsOpen, Held
<1>6. ASSUME NEW b \in BOOLEAN, tcp_client_open(b) PROVE Table'
  <2>1. UNCHANGED <<arg, ids, known>> /\ pc' # "close"
    BY <1>6 DEF tcp_client_open, hist
  <2>2. CanConnect
    BY <1>6 DEF tcp_client_open, IInv, Serving, Opening
  <2>3. conn' = conn \/ conn' = [conn EXCEPT ![Fresh] = "connecting"]
    BY <1>6 DEF tcp_client_open
  <2>4. Fresh \in Conns /\ arg[Fresh] = NoId
    BY <1>0, <2>2, FreshIs DEF Order
  <2>5. \A k \in Conns : /\ Unused(k)' => Unused(k)
                         /\ Server(k) => (IsOpen(k)' => IsOpen(k)) /\ (Held(k) => Held(k)')
    BY <1>0, <2>3, <2>4 DEF Unused, Server, IsOpen, Held
  <2> QED BY <2>1, <2>5, TableFrame DEF ids, Given
<1>7. CASE init_socket_system
  <2>1. /\ role = "none" /\ pc = "idle" /\ \A k \in Conns : ~IsOpen(k)
        /\ known' = {} /\ UNCHANGED <<g_pcb_fifo, lwip, stmt>>
    BY <1>7 DEF init_socket_system
  <2>2. g_pcb_fifo' = << >>
    BY <2>1 DEF IInv, Serving
  <2>3. Given' = {}
    BY <2>1, <2>2, ToSetEmpty DEF Given
  <2> QED BY <2>1, <2>3 DEF Table, lwip, stmt, IsOpen
<1>8. CASE tcp_server_accept
  <2> DEFINE f == Fresh
             num == g_connection_id_number
  <2>1. /\ f \in Conns /\ Unused(f) /\ CanConnect
        /\ known' = known /\ UNCHANGED stmt
        /\ g_connection_id' = [g_connection_id EXCEPT ![num] = f]
        /\ conn' = [conn EXCEPT ![f] = IF Refused THEN "closed" ELSE "open"]
        /\ arg' = [arg EXCEPT ![f] = num]
        /\ g_pcb_fifo' = g_pcb_fifo \/ (~Refused /\ g_pcb_fifo' = Append(g_pcb_fifo, num))
    BY <1>8, Accept
  <2>2. num \notin Given /\ \A k \in Conns : Server(k) /\ IsOpen(k) => arg[k] # num
    BY <1>0, <2>1, GivenIds, Constants DEF Order
  <2>3. Given' = Given \/ (~Refused /\ Given' = Given \cup {num})
    <3>1. CASE g_pcb_fifo' = g_pcb_fifo
      BY <2>1, <3>1 DEF Given
    <3>2. CASE ~Refused /\ g_pcb_fifo' = Append(g_pcb_fifo, num)
      <4>1. ToSet(g_pcb_fifo') = ToSet(g_pcb_fifo) \cup {num}
        BY <1>0, <3>2, ToSetAppend
      <4> QED BY <2>1, <3>2, <4>1 DEF Given
    <3> QED BY <2>1, <3>1, <3>2
  <2>4. f # None /\ num # NoId /\ num \in Ids
    BY <1>0, <2>1, Constants
  <2> HIDE DEF f, num
  <2>5. ASSUME NEW k \in Conns, (Server(k) /\ IsOpen(k))' PROVE g_connection_id'[arg'[k]] = k
    <3>1. CASE k = f
      BY <1>0, <2>1, <2>4, <3>1
    <3>2. CASE k # f
      <4>1. Server(k) /\ IsOpen(k) /\ arg'[k] = arg[k]
        BY <1>0, <2>1, <2>5, <3>2 DEF Server, IsOpen
      <4>2. arg[k] # num /\ arg[k] \in Ids /\ g_connection_id[arg[k]] = k
        BY <1>0, <2>2, <4>1 DEF Table, Server
      <4> QED BY <1>0, <2>1, <4>1, <4>2
    <3> QED BY <3>1, <3>2
  <2>6. ASSUME NEW i \in Given', g_connection_id'[i] # None
        PROVE  Held(g_connection_id[i])' /\ arg'[g_connection_id'[i]] = i
    <3>1. CASE i \in Given
      <4>1. i # num /\ i \in Ids /\ g_connection_id'[i] = g_connection_id[i]
        BY <1>0, <2>1, <2>2, <3>1, GivenIds
      <4>2. Held(g_connection_id[i]) /\ arg[g_connection_id[i]] = i /\ g_connection_id[i] \in Conns
        BY <1>0, <2>6, <3>1, <4>1 DEF Table
      <4>3. g_connection_id[i] # f
        BY <2>1, <4>2 DEF Held, Unused
      <4> QED BY <1>0, <2>1, <4>1, <4>2, <4>3 DEF Held
    <3>2. CASE i = num /\ ~Refused
      BY <1>0, <2>1, <2>4, <3>2 DEF Held
    <3> QED BY <2>3, <2>6, <3>1, <3>2
  <2>7. ASSUME pc' = "close"
        PROVE  (\E i \in known : key = Id(i) /\
                  (to # None => arg[to] = i /\ g_connection_id[i] \in {to, None} /\ ~Unused(to)))'
    <3>1. UNCHANGED <<pc, key, to>>
      BY <2>1 DEF stmt
    <3>2. PICK i \in known : key = Id(i) /\
            (to # None => arg[to] = i /\ g_connection_id[i] \in {to, None} /\ ~Unused(to))
      BY <1>0, <2>7, <3>1 DEF Table
    <3>3. i # num /\ i \in Ids /\ g_connection_id'[i] = g_connection_id[i]
      BY <1>0, <2>1, <2>2, <3>2, GivenIds
    <3>4. to # None => to # f /\ arg'[to] = i /\ ~Unused(to)'
      <4>1. to # None => to # f
        BY <2>1, <3>2 DEF Unused
      <4> QED BY <1>0, <2>1, <3>1, <3>2, <4>1 DEF Unused
    <3> QED BY <2>1, <3>1, <3>2, <3>3, <3>4 DEF Unused
  <2> QED BY <2>5, <2>6, <2>7 DEF Table
<1>9. CASE shift_pcb_fifo
  <2>1. UNCHANGED <<lwip, g_connection_id, stmt>> /\ Given' = Given /\ pc = "idle"
    BY <1>9, Shift DEF shift_pcb_fifo
  <2> QED BY <2>1, TableFrame DEF lwip, stmt, Unused, IsOpen, Held
<1>10. ASSUME NEW k \in Conns, NEW n \in 1 .. MaxBytes, NEW memory \in BOOLEAN,
              tcp_recv(k, n, memory)
       PROVE  Table'
  <2>1. /\ UNCHANGED <<lwip, g_connection_id, known, stmt>> /\ IsOpen(k)
        /\ \/ g_pcb_fifo' = g_pcb_fifo
           \/ Server(k) /\ arg[k] \in Ids /\ g_pcb_fifo' = Append(g_pcb_fifo, arg[k])
    BY <1>10, Receive
  <2>2. \A i \in Given' : i \in Given \/ (Server(k) /\ i = arg[k])
    <3>1. CASE g_pcb_fifo' = g_pcb_fifo
      BY <2>1, <3>1 DEF Given
    <3>2. CASE Server(k) /\ arg[k] \in Ids /\ g_pcb_fifo' = Append(g_pcb_fifo, arg[k])
      <4>1. ToSet(g_pcb_fifo') = ToSet(g_pcb_fifo) \cup {arg[k]}
        BY <1>0, <3>2, ToSetAppend
      <4> QED BY <2>1, <3>2, <4>1 DEF Given
    <3> QED BY <2>1, <3>1, <3>2
  <2> QED BY <2>1, <2>2, TableFrame DEF lwip, stmt, Unused, IsOpen, Held
<1>11. ASSUME NEW k \in Conns, NEW n \in 0 .. Len(g_header_lines), tcp_client_connected(k, n)
       PROVE  Table'
  <2>1. /\ UNCHANGED <<arg, g_connection_id, g_pcb_fifo, known, stmt>>
        /\ conn[k] = "connecting" /\ conn' = [conn EXCEPT ![k] = "open"]
    BY <1>11 DEF tcp_client_connected, ids, hist
  <2>2. ~Server(k)
    BY <1>0, <2>1 DEF Order, Server
  <2> QED BY <1>0, <2>1, <2>2, TableFrame DEF stmt, Given, Unused, IsOpen, Held
<1>12. ASSUME NEW k \in Conns, tcp_result(k) PROVE Table'
  BY <1>3, <1>12 DEF tcp_result, ids, hist, stmt
<1>13. ASSUME NEW k \in Conns, tcp_server_poll(k) PROVE Table'
  <2>1. /\ UNCHANGED <<arg, g_pcb_fifo, known, stmt>> /\ IsOpen(k)
        /\ Server(k) /\ tcp_server_client_close(arg[k], g_connection_id[arg[k]])
    BY <1>13 DEF tcp_server_poll, hist, Clients, Server
  <2>2. g_connection_id[arg[k]] = k /\ arg[k] \in Ids
    BY <1>0, <2>1 DEF Table, Server
  <2>3. conn' = [conn EXCEPT ![k] = "closed"]
        /\ g_connection_id' = [g_connection_id EXCEPT ![arg[k]] = None]
    BY <2>1, <2>2, Constants DEF tcp_server_client_close
  <2> QED BY <2>1, <2>2, <2>3, TableClose DEF stmt
<1>14. CASE CloseClient
  <2>1. /\ UNCHANGED <<arg, g_pcb_fifo, known>> /\ pc = "close" /\ pc' = "idle"
        /\ tcp_server_client_close(key[2], to)
    BY <1>14 DEF CloseClient, hist
  <2>2. PICK i \in known : key = Id(i) /\ (to # None => arg[to] = i /\ g_connection_id[i] \in {to, None})
    BY <1>0, <2>1 DEF Table
  <2>3. key[2] = i /\ i \in Ids
    BY <1>0, <2>2 DEF Id
  <2>4. CASE to = None
    BY <1>1, <2>1, <2>4 DEF tcp_server_client_close, lwip
  <2>5. CASE to # None
    <3>1. conn' = [conn EXCEPT ![to] = "closed"] /\ g_connection_id' = [g_connection_id EXCEPT ![i] = None]
      BY <2>1, <2>3, <2>5 DEF tcp_server_client_close
    <3> QED BY <1>0, <2>1, <2>2, <2>3, <2>5, <3>1, TableClose
  <2> QED BY <2>4, <2>5
<1>15. ASSUME NEW i \in Ids, CloseLook(i) PROVE Table'
  <2>1. /\ UNCHANGED <<arg, conn, g_connection_id, g_pcb_fifo, known>> /\ i \in known
        /\ key' = Id(i) /\ to' = g_connection_id[i]
    BY <1>15 DEF CloseLook, ids, lwip, hist
  <2>2. to' # None => Held(to') /\ arg[to'] = i
    BY <1>0, <2>1, GivenIds DEF Table
  <2>3. to' # None => ~Unused(to')
    BY <2>2 DEF Held, Unused
  <2>4. (\E j \in known : key = Id(j) /\
          (to # None => arg[to] = j /\ g_connection_id[j] \in {to, None} /\ ~Unused(to)))'
    BY <2>1, <2>2, <2>3 DEF Unused
  <2> QED BY <1>0, <2>1, <2>4 DEF Table, Given, Server, IsOpen, Held
<1>16. ASSUME NEW i \in Ids, machikania_tcp_status(i) PROVE Table'
  BY <1>1, <1>16 DEF machikania_tcp_status, ids, hist
<1>17. ASSUME NEW i \in Ids \cup {NoId}, NEW len \in Lengths, machikania_tcp_write(i, len)
       PROVE  Table'
  <2>1. UNCHANGED <<lwip, ids, known>> /\ pc' \in {"idle", "send"}
    BY <1>17 DEF machikania_tcp_write, hist
  <2> QED BY <1>1, <2>1 DEF ids
<1>18. ASSUME NEW i \in Ids \cup {NoId}, NEW n \in 1 .. MaxBytes, tcp_read_from_buffer(i, n)
       PROVE  Table'
  BY <1>1, <1>18 DEF tcp_read_from_buffer, ids, hist
<1>19. ASSUME NEW mode \in Modes, tcp_server_open(mode) PROVE Table'
  BY <1>1, <1>19 DEF tcp_server_open, ids, hist
<1>20. CASE start_tcp_server \/ WalkLook \/ WalkUnlink \/ start_tcp_client \/ register_state
  BY <1>1, <1>20 DEF start_tcp_server, WalkLook, WalkUnlink, start_tcp_client, register_state, ids,
     hist
<1>21. CASE ReceiveNone \/ Copy \/ Drop \/ CountBuffer
  BY <1>1, <1>21 DEF ReceiveNone, Copy, Drop, CountBuffer, ids, hist
<1>22. CASE CountOther \/ UNCHANGED vars
  BY <1>2, <1>22 DEF CountOther, vars, stmt, ids, hist
<1>23. ASSUME NEW b \in BOOLEAN, SendPart(b) PROVE Table'
  BY <1>1, <1>23 DEF SendPart, ids, hist
<1>24. ASSUME NEW k \in Conns, tcp_err_abrt(k) PROVE Table'
  <2>1. /\ UNCHANGED <<arg, g_connection_id, g_pcb_fifo, known, stmt>>
        /\ InUse(k) /\ conn' = [conn EXCEPT ![k] = "aborted"]
    BY <1>24 DEF tcp_err_abrt, ids, hist
  <2>2. \A j \in Conns : /\ Unused(j)' => Unused(j)
                         /\ Server(j) => (IsOpen(j)' => IsOpen(j)) /\ (Held(j) => Held(j)')
    BY <1>0, <2>1 DEF Unused, Server, IsOpen, Held
  <2> QED BY <2>1, <2>2, TableFrame DEF stmt, Given
<1> QED
  BY <1>4, <1>5, <1>6, <1>7, <1>8, <1>9, <1>10, <1>11, <1>12, <1>13, <1>14, <1>15, <1>16, <1>17,
     <1>18, <1>19, <1>20, <1>21, <1>22, <1>23, <1>24
  DEF Next, Callbacks, Starts, Continues
-----------------------------------------------------------------------------
(* The theorem.                                                            *)

LEMMA InitIInv ==
  ASSUME Init
  PROVE  IInv
<1> USE DEF Init
<1>1. Program
  BY DEF Program
<1>2. Tables
  BY Constants, ToSetEmpty DEF Tables
<1>3. List
  BY DEF List
<1>4. Serving
  BY DEF Serving, Opening, Server, IsOpen
<1>5. Given = {} /\ \A k \in Conns : 0 < k
  BY ToSetEmpty DEF Given, Conns
<1>6. Order
  BY <1>5 DEF Order, Server
<1>7. Table
  BY <1>5 DEF Table, Server
<1> QED BY <1>1, <1>2, <1>3, <1>4, <1>6, <1>7 DEF IInv, Types

LEMMA NextIInv ==
  ASSUME Plain, IInv, [Next]_vars
  PROVE  IInv'
BY ProgramStep, TablesStep, ListStep, ServingStep, OrderStep, TableStep DEF IInv, Types

\* What is known of the tables is what the property says.
LEMMA IInvConnectionsKnown ==
  ASSUME IInv
  PROVE  ConnectionsKnown
<1>1. TypeOK
  <2>1. \A j \in DOMAIN g_socket_buffer : g_socket_buffer[j].key \in Keys
    <3>1. g_socket_buffer \in Seq(Buffers)
      BY DEF IInv, Types, List
    <3>2. \A j \in DOMAIN g_socket_buffer : g_socket_buffer[j] \in Buffers
      BY <3>1, ElementOfSeq, LenProperties
    <3> QED BY <3>2 DEF Buffers
  <2>2. ToSet(g_pcb_fifo) \cup known \subseteq Ids
    BY GivenIds DEF Given
  <2> QED BY <2>1, <2>2 DEF TypeOK, IInv, Types, Program, Tables
<1>2. NoConnectionMissed
  BY DEF NoConnectionMissed, IInv, Types, Tables
<1>3. ASSUME NEW i \in known
      PROVE  IF g_connection_id[i] = None THEN ~\E k \in Conns : IsOpen(k) /\ arg[k] = i
             ELSE conn[g_connection_id[i]] \in {"open", "aborted"} /\ arg[g_connection_id[i]] = i
  <2>1. i \in Given /\ i \in Ids
    BY GivenIds
  <2>2. ASSUME g_connection_id[i] # None
        PROVE  conn[g_connection_id[i]] \in {"open", "aborted"} /\ arg[g_connection_id[i]] = i
    BY <2>1, <2>2 DEF IInv, Table, Held
  <2>3. ASSUME NEW k \in Conns, IsOpen(k), arg[k] = i PROVE g_connection_id[i] # None
    <3>1. Server(k) /\ k # None
      BY <2>1, <2>3, Constants DEF Server
    <3> QED BY <2>3, <3>1 DEF IInv, Table
  <2> QED BY <2>2, <2>3
<1> QED BY <1>1, <1>2, <1>3 DEF ConnectionsKnown, StatusIsTrue

\* An id for which the FIFO had room waits there for TCPACCEPT(), and the table that
\* tells which ids are connected follows lwIP's callbacks, whatever statement these
\* interrupt, while ids do not start again and programs close what they opened before
\* they open anew (Cases).
THEOREM ConnectionsHold ==
  ASSUME Allow = {}, MaxConns <= IDS
  PROVE  Spec => []ConnectionsKnown
<1>1. Plain
  BY DEF Plain
<1>2. Init => IInv
  BY InitIInv
<1>3. IInv /\ [Next]_vars => IInv'
  BY <1>1, NextIInv
<1>4. IInv => ConnectionsKnown
  BY IInvConnectionsKnown
<1> QED BY <1>2, <1>3, <1>4, PTL DEF Spec
-----------------------------------------------------------------------------
(* What arrived for a key, cut into the data of its buffers: c[j] bytes of  *)
(* p are in the first j buffers of the list b.                             *)

Piece(x, p, k, from, upto) ==
  IF x.key = k
  THEN upto = from + Len(x.data) /\ \A l \in 1 .. Len(x.data) : x.data[l] = p[from + l]
  ELSE upto = from

Cut(b, p, k, c) ==
  /\ c \in [0 .. Len(b) -> 0 .. Len(p)]
  /\ c[0] = 0 /\ c[Len(b)] = Len(p)
  /\ \A i, j \in 0 .. Len(b) : i <= j => c[i] <= c[j]
  /\ \A j \in 1 .. Len(b) : Piece(b[j], p, k, c[j - 1], c[j])

\* The sequence p without its first t elements.
Without(p, t) == SubSeq(p, t + 1, Len(p))

LEMMA WithoutIs ==
  ASSUME NEW S, NEW p \in Seq(S), NEW t \in 0 .. Len(p)
  PROVE  /\ Without(p, t) \in Seq(S) /\ Len(Without(p, t)) = Len(p) - t
         /\ \A l \in 1 .. Len(p) - t : Without(p, t)[l] = p[t + l]
<1>1. Len(p) \in Nat /\ t \in Nat /\ t <= Len(p)
  BY LenProperties
<1>2. \A i \in t + 1 .. Len(p) : p[i] \in S
  <2>1. \A i \in t + 1 .. Len(p) : i \in 1 .. Len(p)
    BY <1>1
  <2> QED BY <2>1, ElementOfSeq
<1>3. /\ SubSeq(p, t + 1, Len(p)) \in Seq(S)
      /\ Len(SubSeq(p, t + 1, Len(p))) = IF t + 1 <= Len(p) THEN Len(p) - (t + 1) + 1 ELSE 0
      /\ \A i \in 1 .. Len(p) - (t + 1) + 1 : SubSeq(p, t + 1, Len(p))[i] = p[(t + 1) + i - 1]
  BY <1>1, <1>2, SubSeqProperties
<1>4. Len(p) - (t + 1) + 1 = Len(p) - t /\ \A l \in 1 .. Len(p) - t : (t + 1) + l - 1 = t + l
  BY <1>1
<1>5. Len(Without(p, t)) = Len(p) - t
  BY <1>1, <1>3 DEF Without
<1> QED BY <1>3, <1>4, <1>5 DEF Without

\* A buffer of the list, and what is known of a cut.
LEMMA CutTypes ==
  ASSUME NEW b \in Seq(Buffers), NEW p \in Seq(Bytes), NEW k, NEW c, Cut(b, p, k, c)
  PROVE  /\ Len(b) \in Nat /\ Len(p) \in Nat
         /\ \A j \in 0 .. Len(b) : c[j] \in Nat /\ c[j] <= Len(p)
         /\ \A j \in 1 .. Len(b) :
              /\ b[j] \in Buffers /\ b[j].data \in Seq(Bytes) /\ Len(b[j].data) \in Nat
              /\ j - 1 \in 0 .. Len(b) /\ j \in 0 .. Len(b) /\ c[j - 1] <= c[j]
<1>1. Len(b) \in Nat /\ Len(p) \in Nat
  BY LenProperties
<1>2. \A j \in 0 .. Len(b) : c[j] \in Nat /\ c[j] <= Len(p)
  BY <1>1 DEF Cut
<1>3. ASSUME NEW j \in 1 .. Len(b)
      PROVE  /\ b[j] \in Buffers /\ b[j].data \in Seq(Bytes) /\ Len(b[j].data) \in Nat
             /\ j - 1 \in 0 .. Len(b) /\ j \in 0 .. Len(b) /\ c[j - 1] <= c[j]
  <2>1. b[j] \in Buffers
    BY ElementOfSeq
  <2>2. b[j].data \in Seq(Bytes)
    BY <2>1 DEF Buffers
  <2>3. Len(b[j].data) \in Nat
    BY <2>2, LenProperties
  <2>4. j - 1 \in 0 .. Len(b) /\ j \in 0 .. Len(b) /\ j - 1 <= j
    BY <1>1
  <2> QED BY <2>1, <2>2, <2>3, <2>4 DEF Cut
<1> QED BY <1>1, <1>2, <1>3

\* As long as no buffer is of the key nothing of p is in them.
LEMMA CutZero ==
  ASSUME NEW b \in Seq(Buffers), NEW p \in Seq(Bytes), NEW k, NEW c, Cut(b, p, k, c),
         NEW m \in 0 .. Len(b), \A j \in 1 .. m : b[j].key # k
  PROVE  \A j \in 0 .. m : c[j] = 0
<1>1. Len(b) \in Nat
  BY CutTypes
<1> DEFINE Bad == {j \in 0 .. m : c[j] # 0}
<1>2. CASE Bad # {}
  <2>1. PICK j \in Bad : \A i \in Bad : j <= i
    <3> HIDE DEF Bad
    <3>1. Bad \subseteq Nat
      BY DEF Bad
    <3> QED BY <1>2, <3>1, Least
  <2>2. j # 0
    BY <2>1 DEF Cut
  <2>3. j \in 1 .. m /\ j \in 1 .. Len(b) /\ j - 1 \in 0 .. m /\ j - 1 \notin Bad
    BY <1>1, <2>1, <2>2
  <2>4. c[j - 1] = 0 /\ c[j] = c[j - 1]
    BY <2>3 DEF Cut, Piece
  <2> QED BY <2>1, <2>4
<1> QED BY <1>2

\* A buffer is added.
LEMMA CutAppend ==
  ASSUME NEW b \in Seq(Buffers), NEW p \in Seq(Bytes), NEW k, NEW c, Cut(b, p, k, c),
         NEW x \in Buffers, NEW q \in Seq(Bytes), q = IF x.key = k THEN p \o x.data ELSE p
  PROVE  \E d : Cut(Append(b, x), q, k, d)
<1>1. /\ Append(b, x) \in Seq(Buffers) /\ Len(Append(b, x)) = Len(b) + 1
      /\ \A j \in 1 .. Len(b) : Append(b, x)[j] = b[j]
      /\ Append(b, x)[Len(b) + 1] = x
  BY AppendProperties
<1>2. /\ Len(b) \in Nat /\ Len(p) \in Nat
      /\ \A j \in 0 .. Len(b) : c[j] \in Nat /\ c[j] <= Len(p)
  BY CutTypes
<1>3. x.data \in Seq(Bytes) /\ Len(x.data) \in Nat /\ Len(q) \in Nat
  <2>1. x.data \in Seq(Bytes)
    BY DEF Buffers
  <2> QED BY <2>1, LenProperties
<1>4. /\ Len(q) = IF x.key = k THEN Len(p) + Len(x.data) ELSE Len(p)
      /\ \A l \in 1 .. Len(p) : q[l] = p[l]
      /\ x.key = k => \A l \in 1 .. Len(x.data) : q[Len(p) + l] = x.data[l]
  <2>1. CASE x.key = k
    <3>1. /\ Len(p \o x.data) = Len(p) + Len(x.data)
          /\ \A i \in 1 .. Len(p) + Len(x.data) :
               (p \o x.data)[i] = IF i <= Len(p) THEN p[i] ELSE x.data[i - Len(p)]
      BY <1>3, ConcatProperties
    <3>2. \A l \in 1 .. Len(p) : l \in 1 .. Len(p) + Len(x.data) /\ l <= Len(p)
      BY <1>2, <1>3
    <3>3. \A l \in 1 .. Len(x.data) : /\ Len(p) + l \in 1 .. Len(p) + Len(x.data)
                                      /\ ~(Len(p) + l <= Len(p)) /\ Len(p) + l - Len(p) = l
      BY <1>2, <1>3
    <3> QED BY <2>1, <3>1, <3>2, <3>3
  <2>2. CASE x.key # k
    BY <2>2
  <2> QED BY <2>1, <2>2
<1> DEFINE n == Len(b)
           d == [j \in 0 .. n + 1 |-> IF j <= n THEN c[j] ELSE Len(q)]
<1>5. Len(p) <= Len(q)
  BY <1>2, <1>3, <1>4
<1>6. d \in [0 .. n + 1 -> 0 .. Len(q)]
  BY <1>2, <1>3, <1>5
<1>7. d[0] = 0 /\ d[n + 1] = Len(q)
  BY <1>2 DEF Cut
<1>8. ASSUME NEW i \in 0 .. n + 1, NEW j \in 0 .. n + 1, i <= j PROVE d[i] <= d[j]
  <2>1. CASE j <= n
    <3>1. i \in 0 .. n /\ j \in 0 .. n
      BY <1>2, <1>8, <2>1
    <3>2. c[i] <= c[j]
      BY <1>8, <3>1 DEF Cut
    <3> QED BY <2>1, <3>1, <3>2
  <2>2. CASE ~(j <= n)
    <3>1. d[j] = Len(q) /\ d[i] \in 0 .. Len(q)
      BY <1>6, <2>2
    <3> HIDE DEF d
    <3> QED BY <1>3, <3>1
  <2> QED BY <2>1, <2>2
<1>9. ASSUME NEW j \in 1 .. n + 1 PROVE Piece(Append(b, x)[j], q, k, d[j - 1], d[j])
  <2>1. CASE j <= n
    <3>1. j \in 1 .. n /\ d[j] = c[j] /\ d[j - 1] = c[j - 1] /\ Append(b, x)[j] = b[j]
          /\ j \in 0 .. n /\ j - 1 \in 0 .. n
      BY <1>1, <1>2, <2>1
    <3>2. Piece(b[j], p, k, c[j - 1], c[j])
      BY <3>1 DEF Cut
    <3>3. c[j - 1] \in Nat /\ c[j] \in Nat /\ c[j] <= Len(p) /\ Len(b[j].data) \in Nat
      BY <3>1, CutTypes
    <3>4. b[j].key = k => \A l \in 1 .. Len(b[j].data) : c[j - 1] + l \in 1 .. Len(p)
      BY <1>2, <3>2, <3>3 DEF Piece
    <3>5. Piece(b[j], q, k, c[j - 1], c[j])
      BY <1>4, <3>2, <3>4 DEF Piece
    <3> QED BY <3>1, <3>5
  <2>2. CASE j = n + 1
    <3>1. d[j] = Len(q) /\ d[j - 1] = Len(p) /\ Append(b, x)[j] = x
      BY <1>1, <1>2, <2>2 DEF Cut
    <3>2. Piece(x, q, k, Len(p), Len(q))
      BY <1>4 DEF Piece
    <3> QED BY <3>1, <3>2
  <2>3. j <= n \/ j = n + 1
    BY <1>2
  <2> QED BY <2>1, <2>2, <2>3
<1>10. Cut(Append(b, x), q, k, d)
  <2> HIDE DEF d
  <2> QED BY <1>1, <1>6, <1>7, <1>8, <1>9 DEF Cut
<1> QED BY <1>10

\* The first buffer is taken away.
LEMMA CutTail ==
  ASSUME NEW b \in Seq(Buffers), NEW p \in Seq(Bytes), NEW k, NEW c, Cut(b, p, k, c), b # << >>,
         NEW q \in Seq(Bytes), q = IF Head(b).key = k THEN Without(p, Len(Head(b).data)) ELSE p
  PROVE  \E d : Cut(Tail(b), q, k, d)
<1>1. /\ Tail(b) \in Seq(Buffers) /\ Len(Tail(b)) = Len(b) - 1 /\ Len(b) \in Nat \ {0}
      /\ \A j \in 1 .. Len(b) - 1 : Tail(b)[j] = b[j + 1]
      /\ Head(b) = b[1]
  BY HeadTailProperties, EmptySeq
<1>2. /\ Len(b) \in Nat /\ Len(p) \in Nat
      /\ \A j \in 0 .. Len(b) : c[j] \in Nat /\ c[j] <= Len(p)
  BY CutTypes
<1> DEFINE n == Len(b)
           t == c[1]
           d == [j \in 0 .. n - 1 |-> c[j + 1] - t]
<1>3. 1 \in 1 .. n /\ 1 \in 0 .. n /\ c[1 - 1] = 0
  BY <1>1 DEF Cut
<1>4. t \in Nat /\ t <= Len(p) /\ t = IF b[1].key = k THEN Len(b[1].data) ELSE 0
  <2>1. Piece(b[1], p, k, c[1 - 1], c[1])
    BY <1>3 DEF Cut
  <2>2. Len(b[1].data) \in Nat
    BY <1>3, CutTypes
  <2> QED BY <1>2, <1>3, <2>1, <2>2 DEF Piece
<1>5. Len(q) = Len(p) - t /\ Len(q) \in Nat /\ \A l \in 1 .. Len(p) - t : q[l] = p[t + l]
  <2>1. CASE b[1].key = k
    <3>1. q = Without(p, t) /\ t \in 0 .. Len(p)
      BY <1>1, <1>2, <1>4, <2>1
    <3> HIDE DEF t
    <3>2. Len(q) = Len(p) - t /\ \A l \in 1 .. Len(p) - t : q[l] = p[t + l]
      BY <3>1, WithoutIs
    <3> QED BY <3>2, LenProperties
  <2>2. CASE b[1].key # k
    <3>1. q = p /\ t = 0
      BY <1>1, <1>4, <2>2
    <3> QED BY <1>2, <3>1
  <2> QED BY <2>1, <2>2
<1>5a. Len(q) = Len(p) - t /\ Len(q) \in Nat
  BY <1>5
<1>5b. t \in Nat /\ t <= Len(p)
  BY <1>4
<1>6. \A j \in 0 .. n - 1 : j + 1 \in 0 .. n /\ 1 <= j + 1
  BY <1>1
<1>7. \A j \in 0 .. n - 1 : c[j + 1] \in Nat /\ c[j + 1] <= Len(p) /\ t <= c[j + 1]
  BY <1>2, <1>3, <1>6 DEF Cut
<1> HIDE DEF t
<1>8. d \in [0 .. n - 1 -> 0 .. Len(q)]
  <2>1. ASSUME NEW j \in 0 .. n - 1 PROVE c[j + 1] - t \in 0 .. Len(q)
    <3>1. PICK u \in Nat : u = c[j + 1]
      BY <1>7
    <3>2. t <= u /\ u <= Len(p)
      BY <1>7, <3>1
    <3>3. u - t \in 0 .. Len(q)
      BY <1>2, <1>5a, <1>5b, <3>1, <3>2
    <3> QED BY <3>1, <3>3
  <2> QED BY <2>1
<1>9. d[0] = 0 /\ d[n - 1] = Len(q)
  <2>1. 0 \in 0 .. n - 1 /\ n - 1 \in 0 .. n - 1 /\ (n - 1) + 1 = n /\ 0 + 1 = 1
    BY <1>1
  <2>2. c[1] = t /\ c[n] = Len(p)
    BY DEF t, Cut
  <2>3. c[1] - t = 0 /\ c[n] - t = Len(q)
    <3>1. t - t = 0 /\ Len(p) - t = Len(q)
      BY <1>5a, <1>5b
    <3> QED BY <2>2, <3>1
  <2> QED BY <2>1, <2>3
<1>10. ASSUME NEW i \in 0 .. n - 1, NEW j \in 0 .. n - 1, i <= j PROVE d[i] <= d[j]
  <2>1. i + 1 <= j + 1
    BY <1>1, <1>10
  <2>2. c[i + 1] <= c[j + 1]
    BY <1>6, <2>1 DEF Cut
  <2>3. c[i + 1] - t <= c[j + 1] - t
    BY <1>4, <1>7, <2>2
  <2> QED BY <2>3
<1>11. ASSUME NEW j \in 1 .. n - 1 PROVE Piece(Tail(b)[j], q, k, d[j - 1], d[j])
  <2>1. /\ j + 1 \in 1 .. n /\ (j + 1) - 1 = j /\ j \in 0 .. n - 1 /\ j - 1 \in 0 .. n - 1
        /\ (j - 1) + 1 = j /\ Tail(b)[j] = b[j + 1] /\ j \in 0 .. n
    BY <1>1
  <2>2. d[j] = c[j + 1] - t /\ d[j - 1] = c[j] - t
    BY <2>1
  <2>3. Piece(b[j + 1], p, k, c[j], c[j + 1])
    BY <2>1 DEF Cut
  <2>4. /\ c[j] \in Nat /\ c[j + 1] \in Nat /\ t <= c[j] /\ t <= c[j + 1] /\ c[j + 1] <= Len(p)
        /\ Len(b[j + 1].data) \in Nat
    BY <1>2, <1>7, <2>1, CutTypes
  <2> DEFINE x == b[j + 1]
  <2>5. CASE x.key = k
    <3>1. c[j + 1] = c[j] + Len(x.data) /\ \A l \in 1 .. Len(x.data) : x.data[l] = p[c[j] + l]
      BY <2>3, <2>5 DEF Piece
    <3>2. c[j + 1] - t = (c[j] - t) + Len(x.data)
      BY <1>4, <2>4, <3>1
    <3>3. ASSUME NEW l \in 1 .. Len(x.data) PROVE x.data[l] = q[(c[j] - t) + l]
      <4>1. (c[j] - t) + l \in 1 .. Len(p) - t /\ t + ((c[j] - t) + l) = c[j] + l
        <5>1. PICK u \in Nat, len \in Nat, max \in Nat : u = c[j] /\ len = Len(x.data) /\ max = Len(p)
          BY <1>2, <2>4
        <5>2. u + len <= max /\ t <= u /\ l \in 1 .. len
          BY <2>4, <3>1, <5>1
        <5>3. (u - t) + l \in 1 .. max - t /\ t + ((u - t) + l) = u + l
          BY <1>4, <5>2
        <5> QED BY <5>1, <5>3
      <4>2. q[(c[j] - t) + l] = p[t + ((c[j] - t) + l)]
        BY <1>5, <4>1
      <4> QED BY <3>1, <4>1, <4>2
    <3> QED BY <2>1, <2>2, <2>5, <3>2, <3>3 DEF Piece
  <2>6. CASE x.key # k
    BY <2>1, <2>2, <2>3, <2>6 DEF Piece
  <2> QED BY <2>5, <2>6
<1>12. Cut(Tail(b), q, k, d)
  <2> HIDE DEF d
  <2> QED BY <1>1, <1>8, <1>9, <1>10, <1>11 DEF Cut
<1> QED BY <1>12


\* An empty buffer is taken out of the list.
LEMMA CutRemove ==
  ASSUME NEW b \in Seq(Buffers), NEW p \in Seq(Bytes), NEW k, NEW c, Cut(b, p, k, c),
         NEW m \in 1 .. Len(b), b[m].data = << >>
  PROVE  \E d : Cut(RemoveAt(b, m), p, k, d)
<1> DEFINE n == Len(b)
           r == RemoveAt(b, m)
           d == [j \in 0 .. n - 1 |-> IF j < m THEN c[j] ELSE c[j + 1]]
<1>1. /\ n \in Nat /\ Len(p) \in Nat /\ m \in Nat /\ 1 <= m /\ m <= n
      /\ \A j \in 0 .. n : c[j] \in Nat /\ c[j] <= Len(p)
  BY CutTypes
<1>2. Len(r) = n - 1 /\ \A j \in 1 .. n - 1 : r[j] = IF j < m THEN b[j] ELSE b[j + 1]
  <2> DEFINE s == SubSeq(b, 1, m - 1)
             t == SubSeq(b, m + 1, n)
  <2>1. \A i \in 1 .. m - 1 : b[i] \in Buffers
    <3>1. \A i \in 1 .. m - 1 : i \in 1 .. n
      BY <1>1
    <3> QED BY <3>1, ElementOfSeq
  <2>2. \A i \in m + 1 .. n : b[i] \in Buffers
    <3>1. \A i \in m + 1 .. n : i \in 1 .. n
      BY <1>1
    <3> QED BY <3>1, ElementOfSeq
  <2>3. s \in Seq(Buffers) /\ Len(s) = m - 1 /\ \A i \in 1 .. m - 1 : s[i] = b[i]
    <3>1. /\ s \in Seq(Buffers) /\ Len(s) = IF 1 <= m - 1 THEN (m - 1) - 1 + 1 ELSE 0
          /\ \A i \in 1 .. (m - 1) - 1 + 1 : s[i] = b[1 + i - 1]
      BY <1>1, <2>1, SubSeqProperties
    <3>2. (m - 1) - 1 + 1 = m - 1 /\ \A i \in 1 .. m - 1 : 1 + i - 1 = i
      BY <1>1
    <3> HIDE DEF s
    <3> QED BY <1>1, <3>1, <3>2
  <2>4. t \in Seq(Buffers) /\ Len(t) = n - m /\ \A i \in 1 .. n - m : t[i] = b[m + i]
    <3>1. /\ t \in Seq(Buffers) /\ Len(t) = IF m + 1 <= n THEN n - (m + 1) + 1 ELSE 0
          /\ \A i \in 1 .. n - (m + 1) + 1 : t[i] = b[(m + 1) + i - 1]
      BY <1>1, <2>2, SubSeqProperties
    <3>2. n - (m + 1) + 1 = n - m /\ \A i \in 1 .. n - m : (m + 1) + i - 1 = m + i
      BY <1>1
    <3>3. Len(t) = n - m
      <4>1. Len(t) = IF m + 1 <= n THEN n - (m + 1) + 1 ELSE 0
        BY <3>1
      <4> HIDE DEF t, n
      <4>2. n \in Nat /\ m \in Nat /\ m <= n
        BY <1>1
      <4> QED BY <4>1, <4>2
    <3> HIDE DEF t
    <3> QED BY <3>1, <3>2, <3>3
  <2>5. r = s \o t
    BY DEF RemoveAt
  <2> HIDE DEF s, t, r, n
  <2>6. /\ Len(r) = (m - 1) + (n - m)
        /\ \A i \in 1 .. (m - 1) + (n - m) : r[i] = IF i <= m - 1 THEN s[i] ELSE t[i - (m - 1)]
    <3>1. /\ Len(s \o t) = Len(s) + Len(t)
          /\ \A i \in 1 .. Len(s) + Len(t) :
               (s \o t)[i] = IF i <= Len(s) THEN s[i] ELSE t[i - Len(s)]
      BY <2>3, <2>4, ConcatProperties
    <3>2. Len(s) = m - 1 /\ Len(t) = n - m
      BY <2>3, <2>4
    <3> QED BY <2>5, <3>1, <3>2
  <2>7. (m - 1) + (n - m) = n - 1
    BY <1>1
  <2>8. ASSUME NEW j \in 1 .. n - 1 PROVE r[j] = IF j < m THEN b[j] ELSE b[j + 1]
    <3>1. CASE j < m
      BY <1>1, <2>3, <2>6, <2>7, <3>1
    <3>2. CASE ~(j < m)
      <4>1. ~(j <= m - 1) /\ j - (m - 1) \in 1 .. n - m /\ m + (j - (m - 1)) = j + 1
        BY <1>1, <3>2
      <4> QED BY <2>4, <2>6, <2>7, <3>2, <4>1
    <3> QED BY <3>1, <3>2
  <2> QED BY <2>6, <2>7, <2>8
<1>3. c[m] = c[m - 1] /\ m - 1 \in 0 .. n /\ m \in 0 .. n
  <2>1. Piece(b[m], p, k, c[m - 1], c[m]) /\ Len(b[m].data) = 0
    BY DEF Cut
  <2>2. m - 1 \in 0 .. n /\ m \in 0 .. n
    BY <1>1
  <2>3. c[m - 1] \in Nat
    BY <1>1, <2>2
  <2> QED BY <2>1, <2>2, <2>3 DEF Piece
<1>4. \A j \in 0 .. n - 1 : j \in 0 .. n /\ j + 1 \in 0 .. n
  BY <1>1
<1>5. d \in [0 .. n - 1 -> 0 .. Len(p)]
  BY <1>1, <1>4
<1>6. d[0] = 0 /\ d[n - 1] = Len(p)
  <2>1. 0 \in 0 .. n - 1 /\ n - 1 \in 0 .. n - 1 /\ 0 < m /\ (n - 1) + 1 = n
    BY <1>1
  <2>2. c[0] = 0 /\ c[n] = Len(p)
    BY DEF Cut
  <2>3. n - 1 < m => n - 1 = m - 1 /\ n = m
    BY <1>1
  <2> QED BY <1>3, <2>1, <2>2, <2>3
<1>7. ASSUME NEW i \in 0 .. n - 1, NEW j \in 0 .. n - 1, i <= j PROVE d[i] <= d[j]
  <2>1. \A u, v \in 0 .. n : u <= v => c[u] <= c[v]
    BY DEF Cut
  <2>2. CASE j < m
    <3>1. i < m
      BY <1>1, <1>7, <2>2
    <3> QED BY <1>4, <1>7, <2>1, <2>2, <3>1
  <2>3. CASE ~(j < m) /\ i < m
    <3>1. i <= j + 1
      BY <1>1, <1>7
    <3> QED BY <1>4, <1>7, <2>1, <2>3, <3>1
  <2>4. CASE ~(j < m) /\ ~(i < m)
    <3>1. i + 1 <= j + 1
      BY <1>1, <1>7
    <3> QED BY <1>4, <1>7, <2>1, <2>4, <3>1
  <2> QED BY <2>2, <2>3, <2>4
<1>8. ASSUME NEW j \in 1 .. n - 1 PROVE Piece(r[j], p, k, d[j - 1], d[j])
  <2>1. \A i \in 1 .. n : Piece(b[i], p, k, c[i - 1], c[i])
    BY DEF Cut
  <2>2. j \in 1 .. n /\ j + 1 \in 1 .. n /\ (j + 1) - 1 = j /\ j - 1 \in 0 .. n - 1 /\ j \in 0 .. n - 1
    BY <1>1
  <2>3. CASE j < m
    <3>1. j - 1 < m
      BY <1>1, <2>3
    <3> QED BY <1>2, <2>1, <2>2, <2>3, <3>1
  <2>4. CASE ~(j < m) /\ ~(j - 1 < m)
    <3>1. (j - 1) + 1 = j
      BY <1>1
    <3>2. d[j] = c[j + 1] /\ d[j - 1] = c[j] /\ r[j] = b[j + 1]
      BY <1>2, <2>2, <2>4, <3>1
    <3> QED BY <2>1, <2>2, <3>2
  <2>5. CASE ~(j < m) /\ j - 1 < m
    <3>1. j = m
      BY <1>1, <2>5
    <3>2. d[j] = c[j + 1] /\ d[j - 1] = c[j - 1] /\ r[j] = b[j + 1] /\ c[j - 1] = c[j]
      BY <1>2, <1>3, <2>2, <2>5, <3>1
    <3> QED BY <2>1, <2>2, <3>2
  <2> QED BY <2>3, <2>4, <2>5
<1>9. Cut(r, p, k, d)
  <2> HIDE DEF d, r
  <2> QED BY <1>2, <1>5, <1>6, <1>7, <1>8 DEF Cut
<1> QED BY <1>9

\* The first buffer of the key with its first e bytes taken.
LEMMA CutTake ==
  ASSUME NEW b \in Seq(Buffers), NEW p \in Seq(Bytes), NEW k, NEW c, Cut(b, p, k, c),
         NEW m \in 1 .. Len(b), b[m].key = k, \A j \in 1 .. m - 1 : b[j].key # k,
         NEW e \in 0 .. Len(b[m].data),
         NEW x, x = [b[m] EXCEPT !.data = Without(b[m].data, e)]
  PROVE  \E d : Cut([b EXCEPT ![m] = x], Without(p, e), k, d)
<1> DEFINE n == Len(b)
           r == [b EXCEPT ![m] = x]
           q == Without(p, e)
           y == b[m].data
           d == [j \in 0 .. n |-> IF j < m THEN 0 ELSE c[j] - e]
<1>1. /\ n \in Nat /\ Len(p) \in Nat /\ m \in Nat /\ 1 <= m /\ m <= n /\ m - 1 \in 0 .. n
      /\ \A j \in 0 .. n : c[j] \in Nat /\ c[j] <= Len(p)
  BY CutTypes
<1>2. b[m] \in Buffers /\ y \in Seq(Bytes) /\ Len(y) \in Nat
  BY CutTypes
<1>3. /\ Without(y, e) \in Seq(Bytes) /\ Len(Without(y, e)) = Len(y) - e
      /\ \A l \in 1 .. Len(y) - e : Without(y, e)[l] = y[e + l]
  <2> HIDE DEF y
  <2>1. e \in 0 .. Len(y)
    BY DEF y
  <2> QED BY <1>2, <2>1, WithoutIs
<1>4. x \in Buffers /\ x.key = k /\ x.data = Without(y, e)
  <2> HIDE DEF y
  <2>1. x = [b[m] EXCEPT !.data = Without(y, e)]
    BY DEF y
  <2> QED BY <1>2, <1>3, <2>1 DEF Buffers
<1>5. /\ r \in Seq(Buffers) /\ Len(r) = n
      /\ \A j \in 1 .. n : r[j] = IF j = m THEN x ELSE b[j]
  BY <1>4, ExceptSeq
<1>6. \A j \in 0 .. m - 1 : c[j] = 0
  <2>1. m - 1 \in 0 .. Len(b)
    BY <1>1
  <2> QED BY <2>1, CutZero
<1>7. c[m] = Len(y) /\ (\A l \in 1 .. Len(y) : y[l] = p[l]) /\ m \in 0 .. n
  <2>1. Piece(b[m], p, k, c[m - 1], c[m])
    BY DEF Cut
  <2>2. m - 1 \in 0 .. m - 1 /\ m \in 0 .. n
    BY <1>1
  <2>3. c[m - 1] = 0
    BY <1>6, <2>2
  <2>4. c[m] = 0 + Len(y) /\ \A l \in 1 .. Len(y) : y[l] = p[0 + l]
    BY <2>1, <2>3 DEF Piece
  <2>5. 0 + Len(y) = Len(y) /\ \A l \in 1 .. Len(y) : 0 + l = l
    BY <1>2
  <2> QED BY <2>2, <2>4, <2>5
<1>8. e \in Nat /\ e <= Len(y) /\ e <= Len(p) /\ \A j \in 0 .. n : j < m \/ e <= c[j]
  <2>1. e \in Nat /\ e <= Len(y) /\ c[m] <= Len(p)
    BY <1>1, <1>2, <1>7
  <2>2. ASSUME NEW j \in 0 .. n, ~(j < m) PROVE e <= c[j]
    <3>1. m <= j
      BY <1>1, <2>2
    <3>2. c[m] <= c[j]
      BY <1>7, <3>1 DEF Cut
    <3> QED BY <1>1, <1>2, <1>7, <2>1, <3>2
  <2> QED BY <1>1, <1>2, <1>7, <2>1, <2>2
<1>9. /\ q \in Seq(Bytes) /\ Len(q) = Len(p) - e /\ Len(q) \in Nat
      /\ \A l \in 1 .. Len(p) - e : q[l] = p[e + l]
  <2>1. e \in 0 .. Len(p)
    BY <1>1, <1>8
  <2> QED BY <1>1, <1>8, <2>1, WithoutIs
<1> HIDE DEF q
<1>9a. Len(q) = Len(p) - e /\ Len(q) \in Nat
  BY <1>9
<1>10. ASSUME NEW j \in 0 .. n, ~(j < m) PROVE c[j] - e \in 0 .. Len(q)
  <2>1. PICK u \in Nat : u = c[j]
    BY <1>1
  <2>2. e <= u /\ u <= Len(p) /\ e \in Nat
    BY <1>1, <1>8, <1>10, <2>1
  <2>3. u - e \in 0 .. Len(q)
    BY <1>1, <1>9a, <2>1, <2>2
  <2> QED BY <2>1, <2>3
<1>11. d \in [0 .. n -> 0 .. Len(q)]
  BY <1>9a, <1>10
<1>12. d[0] = 0 /\ d[n] = Len(q)
  <2>1. 0 \in 0 .. n /\ n \in 0 .. n /\ 0 < m /\ ~(n < m)
    BY <1>1
  <2>2. c[n] = Len(p)
    BY DEF Cut
  <2> QED BY <1>9a, <2>1, <2>2
<1>13. ASSUME NEW i \in 0 .. n, NEW j \in 0 .. n, i <= j PROVE d[i] <= d[j]
  <2>1. CASE i < m
    <3>1. d[i] = 0 /\ d[j] \in 0 .. Len(q)
      BY <1>11, <2>1
    <3> HIDE DEF d
    <3> QED BY <1>9a, <3>1
  <2>2. CASE ~(i < m)
    <3>1. ~(j < m)
      BY <1>1, <1>13, <2>2
    <3>2. c[i] <= c[j] /\ c[i] \in Nat /\ c[j] \in Nat
      BY <1>1, <1>13 DEF Cut
    <3>3. c[i] - e <= c[j] - e
      BY <1>8, <3>2
    <3> QED BY <2>2, <3>1, <3>3
  <2> QED BY <2>1, <2>2
<1>14. ASSUME NEW j \in 1 .. n PROVE Piece(r[j], q, k, d[j - 1], d[j])
  <2>1. j - 1 \in 0 .. n /\ j \in 0 .. n
    BY <1>1
  <2>2. Piece(b[j], p, k, c[j - 1], c[j])
    BY DEF Cut
  <2>3. CASE j < m
    <3>1. j \in 1 .. m - 1 /\ j - 1 < m /\ j # m
      BY <1>1, <2>3
    <3>2. d[j] = 0 /\ d[j - 1] = 0 /\ r[j] = b[j] /\ b[j].key # k
      BY <1>5, <2>1, <2>3, <3>1
    <3> QED BY <3>2 DEF Piece
  <2>4. CASE j = m
    <3>1. ~(j < m) /\ j - 1 < m
      BY <1>1, <2>4
    <3>2. d[j] = Len(y) - e /\ d[j - 1] = 0 /\ r[j] = x
      BY <1>5, <1>7, <2>1, <2>4, <3>1
    <3>3. Len(x.data) = Len(y) - e /\ \A l \in 1 .. Len(y) - e : x.data[l] = y[e + l]
      BY <1>3, <1>4
    <3>4. ASSUME NEW l \in 1 .. Len(y) - e PROVE x.data[l] = q[0 + l]
      <4>1. e + l \in 1 .. Len(y) /\ l \in 1 .. Len(p) - e /\ 0 + l = l
        BY <1>1, <1>2, <1>7, <1>8
      <4>2. y[e + l] = p[e + l] /\ q[l] = p[e + l]
        BY <1>7, <1>9, <4>1
      <4> QED BY <3>3, <4>1, <4>2
    <3>5. 0 + (Len(y) - e) = Len(y) - e
      BY <1>2, <1>8
    <3> QED BY <1>4, <3>2, <3>3, <3>4, <3>5 DEF Piece
  <2>5. CASE ~(j < m) /\ j # m
    <3>1. ~(j < m) /\ ~(j - 1 < m)
      BY <1>1, <2>5
    <3>2. d[j] = c[j] - e /\ d[j - 1] = c[j - 1] - e /\ r[j] = b[j]
      BY <1>5, <2>1, <2>5, <3>1
    <3>3. CASE b[j].key # k
      BY <2>2, <3>2, <3>3 DEF Piece
    <3>4. CASE b[j].key = k
      <4>1. PICK u \in Nat, v \in Nat, len \in Nat, max \in Nat :
              u = c[j - 1] /\ v = c[j] /\ len = Len(b[j].data) /\ max = Len(p)
        BY <1>1, <2>1, CutTypes
      <4>2. v = u + len /\ \A l \in 1 .. len : b[j].data[l] = p[u + l]
        BY <2>2, <3>4, <4>1 DEF Piece
      <4>3. e <= u /\ v <= max /\ e \in Nat
        BY <1>1, <1>8, <2>1, <3>1, <4>1
      <4>4. v - e = (u - e) + len
        BY <4>1, <4>2, <4>3
      <4>5. ASSUME NEW l \in 1 .. len PROVE b[j].data[l] = q[(u - e) + l]
        <5>3. /\ u \in Nat /\ len \in Nat /\ max \in Nat /\ e \in Nat
              /\ u + len <= max /\ e <= u
          BY <4>1, <4>2, <4>3
        <5>1. (u - e) + l \in 1 .. max - e /\ e + ((u - e) + l) = u + l
          BY <5>3
        <5>2. q[(u - e) + l] = p[e + ((u - e) + l)]
          BY <1>9, <4>1, <5>1
        <5> QED BY <4>2, <5>1, <5>2
      <4> QED BY <3>2, <3>4, <4>1, <4>4, <4>5 DEF Piece
    <3> QED BY <3>3, <3>4
  <2> QED BY <2>3, <2>4, <2>5
<1>15. Cut(r, q, k, d)
  <2> HIDE DEF d, r
  <2> QED BY <1>5, <1>11, <1>12, <1>13, <1>14 DEF Cut
<1> QED BY <1>15 DEF q


\* A buffer of another key may change.
LEMMA CutOther ==
  ASSUME NEW b \in Seq(Buffers), NEW p \in Seq(Bytes), NEW k, NEW c, Cut(b, p, k, c),
         NEW m \in 1 .. Len(b), NEW x \in Buffers, x.key = b[m].key, x.key # k
  PROVE  Cut([b EXCEPT ![m] = x], p, k, c)
<1> DEFINE r == [b EXCEPT ![m] = x]
<1>1. /\ r \in Seq(Buffers) /\ Len(r) = Len(b)
      /\ \A j \in 1 .. Len(b) : r[j] = IF j = m THEN x ELSE b[j]
  BY ExceptSeq
<1>2. ASSUME NEW j \in 1 .. Len(b) PROVE Piece(r[j], p, k, c[j - 1], c[j])
  <2>1. Piece(b[j], p, k, c[j - 1], c[j])
    BY DEF Cut
  <2> HIDE DEF r
  <2> QED BY <1>1, <2>1 DEF Piece
<1> HIDE DEF r
<1>3. Cut(r, p, k, c)
  BY <1>1, <1>2 DEF Cut
<1> QED BY <1>3 DEF r

\* What the cut says: the buffers of the key hold p.
DataOf(b, k) == [j \in DOMAIN b |-> IF b[j].key = k THEN b[j].data ELSE << >>]

LEMMA CutBytes ==
  ASSUME NEW b \in Seq(Buffers), NEW p \in Seq(Bytes), NEW k, NEW c, Cut(b, p, k, c)
  PROVE  FlattenSeq(DataOf(b, k)) = p
<1> DEFINE n == Len(b)
           s == DataOf(b, k)
           f == [j \in 1 .. n |-> SubSeq(p, 1, c[j])]
           Flat(g) == g = [i \in 1 .. n |-> IF i = 1 THEN s[i] ELSE g[i - 1] \o s[i]]
<1>1. /\ n \in Nat /\ Len(p) \in Nat
      /\ \A j \in 0 .. n : c[j] \in Nat /\ c[j] <= Len(p)
  BY CutTypes
<1>2. DOMAIN b = 1 .. n
  BY LenProperties
<1>3. /\ Len(s) = n
      /\ \A j \in 1 .. n : s[j] \in Seq(Bytes) /\ s[j] = IF b[j].key = k THEN b[j].data ELSE << >>
  <2>1. s = [j \in 1 .. n |-> IF b[j].key = k THEN b[j].data ELSE << >>]
    BY <1>2 DEF DataOf
  <2>2. \A j \in 1 .. n : (IF b[j].key = k THEN b[j].data ELSE << >>) \in Seq(Bytes)
    BY CutTypes
  <2>3. s \in Seq(Seq(Bytes)) /\ DOMAIN s = 1 .. n
    BY <1>1, <2>1, <2>2, IsASeq
  <2>4. Len(s) \in Nat /\ 1 .. Len(s) = 1 .. n
    BY <2>3, LenProperties
  <2>5. Len(s) = n
    <3> HIDE DEF s, n
    <3> QED BY <1>1, <2>4
  <2> QED BY <2>1, <2>2, <2>5
<1> HIDE DEF s
<1>4. ASSUME NEW t \in 0 .. Len(p)
      PROVE  /\ SubSeq(p, 1, t) \in Seq(Bytes) /\ Len(SubSeq(p, 1, t)) = t
             /\ \A l \in 1 .. t : SubSeq(p, 1, t)[l] = p[l]
  <2>1. t \in Nat /\ t <= Len(p)
    BY <1>1
  <2>2. \A l \in 1 .. t : l \in 1 .. Len(p)
    BY <1>1, <2>1
  <2>3. \A l \in 1 .. t : p[l] \in Bytes
    BY <2>2, ElementOfSeq
  <2>4. /\ SubSeq(p, 1, t) \in Seq(Bytes)
        /\ Len(SubSeq(p, 1, t)) = IF 1 <= t THEN t - 1 + 1 ELSE 0
        /\ \A l \in 1 .. t - 1 + 1 : SubSeq(p, 1, t)[l] = p[1 + l - 1]
    BY <2>1, <2>3, SubSeqProperties
  <2>5. t - 1 + 1 = t /\ \A l \in 1 .. t : 1 + l - 1 = l
    BY <2>1
  <2>6. Len(SubSeq(p, 1, t)) = t
    BY <2>1, <2>4
  <2> QED BY <2>4, <2>5, <2>6
<1>5. ASSUME NEW j \in 1 .. n
      PROVE  SubSeq(p, 1, c[j]) = SubSeq(p, 1, c[j - 1]) \o s[j]
  <2>1. PICK u \in Nat, v \in Nat : u = c[j - 1] /\ v = c[j] /\ u <= v /\ v <= Len(p)
    BY <1>1, CutTypes
  <2>2. u \in 0 .. Len(p) /\ v \in 0 .. Len(p)
    BY <1>1, <2>1
  <2>3. s[j] \in Seq(Bytes) /\ Len(s[j]) = v - u /\ \A l \in 1 .. v - u : s[j][l] = p[u + l]
    <3>1. Piece(b[j], p, k, u, v) /\ b[j].data \in Seq(Bytes) /\ Len(b[j].data) \in Nat
      BY <2>1, CutTypes DEF Cut
    <3>2. CASE b[j].key = k
      <4>1. v = u + Len(b[j].data) /\ \A l \in 1 .. Len(b[j].data) : b[j].data[l] = p[u + l]
        BY <3>1, <3>2 DEF Piece
      <4>2. Len(b[j].data) = v - u
        BY <2>1, <3>1, <4>1
      <4> QED BY <1>3, <3>1, <3>2, <4>1, <4>2
    <3>3. CASE b[j].key # k
      <4>1. v - u = 0 /\ s[j] = << >>
        BY <1>3, <2>1, <3>1, <3>3 DEF Piece
      <4> QED BY <4>1
    <3> QED BY <3>2, <3>3
  <2> DEFINE x == SubSeq(p, 1, u)
             y == SubSeq(p, 1, v)
             z == s[j]
  <2>4. /\ x \in Seq(Bytes) /\ Len(x) = u /\ \A l \in 1 .. u : x[l] = p[l]
        /\ y \in Seq(Bytes) /\ Len(y) = v /\ \A l \in 1 .. v : y[l] = p[l]
    BY <1>4, <2>2
  <2>5. z \in Seq(Bytes) /\ Len(z) = v - u /\ \A l \in 1 .. v - u : z[l] = p[u + l]
    BY <2>3
  <2> HIDE DEF x, y, z
  <2>6. /\ x \o z \in Seq(Bytes) /\ Len(x \o z) = v
        /\ \A i \in 1 .. v : (x \o z)[i] = IF i <= u THEN x[i] ELSE z[i - u]
    <3>1. /\ x \o z \in Seq(Bytes) /\ Len(x \o z) = Len(x) + Len(z)
          /\ \A i \in 1 .. Len(x) + Len(z) : (x \o z)[i] = IF i <= Len(x) THEN x[i] ELSE z[i - Len(x)]
      BY <2>4, <2>5, ConcatProperties
    <3>2. Len(x) = u /\ Len(z) = v - u /\ u + (v - u) = v
      BY <2>1, <2>4, <2>5
    <3> QED BY <3>1, <3>2
  <2>7. ASSUME NEW i \in 1 .. v PROVE (x \o z)[i] = p[i]
    <3>1. CASE i <= u
      <4>1. i \in 1 .. u
        BY <2>1, <3>1
      <4> QED BY <2>4, <2>6, <3>1, <4>1
    <3>2. CASE ~(i <= u)
      <4>1. i - u \in 1 .. v - u /\ u + (i - u) = i
        BY <2>1, <3>2
      <4> QED BY <2>5, <2>6, <3>2, <4>1
    <3> QED BY <3>1, <3>2
  <2>8. y = x \o z
    BY <2>4, <2>6, <2>7, SeqEqual
  <2> QED BY <2>1, <2>8 DEF x, y, z
<1>6. CASE n = 0
  <2>1. Len(s) = 0 /\ Len(p) = 0
    BY <1>3, <1>6 DEF Cut
  <2>2. p = << >>
    BY <2>1, EmptySeq
  <2>3. s = << >>
    <3>1. b = << >> /\ DOMAIN b = {}
      BY <1>1, <1>2, <1>6, EmptySeq
    <3> QED BY <3>1 DEF s, DataOf
  <2> QED BY <2>1, <2>2, <2>3 DEF FlattenSeq, s
<1>7. CASE n # 0
  <2>1. n \in 1 .. n /\ 1 \in 1 .. n
    BY <1>1, <1>7
  <2>2. Flat(f)
    <3>1. ASSUME NEW i \in 1 .. n PROVE f[i] = IF i = 1 THEN s[i] ELSE f[i - 1] \o s[i]
      <4>1. CASE i = 1
        <5>1. c[i - 1] = 0
          BY <4>1 DEF Cut
        <5>2. SubSeq(p, 1, 0) = << >>
          BY SubSeqEmpty
        <5>3. s[i] \in Seq(Bytes)
          BY <1>3
        <5>4. f[i] = << >> \o s[i]
          BY <1>5, <5>1, <5>2
        <5> QED BY <4>1, <5>3, <5>4, ConcatEmptySeq
      <4>2. CASE i # 1
        <5>1. i - 1 \in 1 .. n
          BY <1>1, <4>2
        <5>2. f[i - 1] = SubSeq(p, 1, c[i - 1])
          BY <5>1
        <5> QED BY <1>5, <4>2, <5>2
      <4> QED BY <4>1, <4>2
    <3>2. f = [i \in 1 .. n |-> f[i]]
      OBVIOUS
    <3> HIDE DEF f
    <3> QED BY <3>1, <3>2
  <2> DEFINE g == CHOOSE h : Flat(h)
  <2>3. Flat(g)
    <3> HIDE DEF Flat, f
    <3> QED BY <2>2
  <2>4. FlattenSeq(s) = g[n]
    <3> HIDE DEF g
    <3>1. FlattenSeq(s) = (CHOOSE h : Flat(h))[n]
      BY <1>3, <1>7 DEF FlattenSeq
    <3> QED BY <3>1 DEF g
  <2> HIDE DEF g
  <2>5. \A i \in 1 .. n : g[i] = IF i = 1 THEN s[i] ELSE g[i - 1] \o s[i]
    BY <2>3
  <2> DEFINE Bad == {i \in 1 .. n : g[i] # f[i]}
  <2>6. CASE Bad = {}
    <3>1. g[n] = SubSeq(p, 1, c[n])
      BY <2>1, <2>6
    <3>2. c[n] = Len(p)
      BY DEF Cut
    <3> QED BY <2>4, <3>1, <3>2, SubSeqFull DEF s
  <2>7. CASE Bad # {}
    <3>1. PICK i \in Bad : \A j \in Bad : i <= j
      <4> HIDE DEF Bad
      <4>1. Bad \subseteq Nat
        BY <1>1 DEF Bad
      <4> QED BY <2>7, <4>1, Least
    <3>2. f[i] = IF i = 1 THEN s[i] ELSE f[i - 1] \o s[i]
      <4> HIDE DEF f, Bad
      <4>1. i \in 1 .. n
        BY <3>1 DEF Bad
      <4> QED BY <2>2, <4>1
    <3>3. i # 1 => i - 1 \in 1 .. n /\ i - 1 \notin Bad
      <4>1. i \in 1 .. n
        BY <3>1
      <4> HIDE DEF Bad
      <4>2. i # 1 => i - 1 \in 1 .. n /\ ~(i <= i - 1)
        BY <1>1, <4>1
      <4> QED BY <3>1, <4>2
    <3>4. i # 1 => g[i - 1] = f[i - 1]
      <4> HIDE DEF f
      <4> QED BY <3>3
    <3>5. g[i] = f[i]
      <4> HIDE DEF f
      <4>1. i \in 1 .. n
        BY <3>1
      <4> HIDE DEF Bad
      <4> QED BY <2>5, <3>2, <3>4, <4>1
    <3> QED BY <3>1, <3>5
  <2> QED BY <2>6, <2>7
<1> QED BY <1>1, <1>6, <1>7
-----------------------------------------------------------------------------
(* What is received.                                                       *)

\* A program has at most one connection to a server, which it keeps in s_pcb.  There is none
\* while the list of buffers is emptied.
Client ==
  /\ \A k \in Conns : arg[k] = NoId /\ conn[k] \in {"connecting", "open"} => k = s_pcb
  /\ pc \in {"walk", "unlink", "open"} =>
       \A k \in Conns : arg[k] = NoId => conn[k] \notin {"connecting", "open"}

\* Where the statements are that take buffers out of the list.
Places ==
  /\ pc = "unlink" => pos = Len(g_socket_buffer)
  /\ pc = "drop" => g_socket_buffer[pos].data = << >>

Kept == \A k \in Keys : \E c : Cut(g_socket_buffer, pending[k], k, c)

RInv == IInv /\ Client /\ Places /\ Kept

\* A step that connects nobody.
LEMMA ClientFrame ==
  ASSUME Client, UNCHANGED <<arg, s_pcb>>,
         \A k \in Conns : conn'[k] \in {"connecting", "open"} => conn[k] \in {"connecting", "open"},
         pc' \in {"walk", "unlink", "open"} => pc \in {"walk", "unlink", "open"}
  PROVE  Client'
BY DEF Client

\* Every step keeps the client's connection.
LEMMA ClientStep ==
  ASSUME Plain, IInv, Client, [Next]_vars
  PROVE  Client'
<1>0. /\ arg \in [Conns -> Ids \cup {NoId}] /\ s_pcb \in Conns \cup {None} /\ NoId \notin Ids
      /\ conn \in [Conns -> {"none", "connecting", "open", "closed", "aborted"}]
      /\ g_connection_id_number \in Ids
  BY Constants DEF IInv, Types, Tables, Program
<1>1. ASSUME UNCHANGED <<lwip, s_pcb>>, pc' \notin {"walk", "unlink", "open"}
      PROVE  Client'
  BY <1>1, ClientFrame DEF lwip
<1>2. ASSUME UNCHANGED <<arg, s_pcb, pc>>,
             \A k \in Conns : conn'[k] \in {"connecting", "open"} => conn[k] \in {"connecting", "open"}
      PROVE  Client'
  BY <1>2, ClientFrame
<1>3. ASSUME tcp_client_close, UNCHANGED arg PROVE Client'
  <2>1. s_pcb' = None
    BY <1>3 DEF tcp_client_close
  <2>2. \A k \in Conns : ~(arg'[k] = NoId /\ conn'[k] \in {"connecting", "open"})
    BY <1>0, <1>3, Constants DEF tcp_client_close, Client
  <2> QED BY <2>1, <2>2 DEF Client
<1>4. CASE machikania_tcp_close
  <2>1. role = "client" => tcp_client_close /\ UNCHANGED arg
    BY <1>4 DEF machikania_tcp_close
  <2>2. role # "client" => UNCHANGED <<lwip, s_pcb>> /\ \A k \in Conns : ~InUse(k)
    BY <1>4 DEF machikania_tcp_close, lwip, Plain
  <2>3. CASE role = "client"
    BY <1>3, <2>1, <2>3
  <2>4. CASE role # "client"
    BY <2>2, <2>4 DEF Client, lwip, InUse
  <2> QED BY <2>3, <2>4
<1>5. ASSUME NEW mode \in Modes, tcp_server_open(mode) PROVE Client'
  BY <1>1, <1>5 DEF tcp_server_open, lwip
<1>6. CASE start_tcp_server
  BY <1>1, <1>6 DEF start_tcp_server, lwip
<1>7. CASE WalkLook \/ WalkUnlink
  <2>1. UNCHANGED <<lwip, s_pcb>> /\ pc \in {"walk", "unlink"} /\ pc' \in {"walk", "unlink"}
    BY <1>7 DEF WalkLook, WalkUnlink, sock
  <2> QED BY <2>1, ClientFrame DEF lwip
<1>8. CASE WalkEnd
  <2>1. UNCHANGED <<lwip, s_pcb>> /\ pc = "walk"
    BY <1>8 DEF WalkEnd
  <2> QED BY <2>1, ClientFrame DEF lwip
<1>9. CASE start_tcp_client
  <2>1. UNCHANGED <<lwip, s_pcb>> /\ \A k \in Conns : ~InUse(k)
    BY <1>9 DEF start_tcp_client, Plain, sock
  <2> QED BY <2>1 DEF Client, lwip, InUse
<1>10. ASSUME NEW b \in BOOLEAN, tcp_client_open(b) PROVE Client'
  <2>1. pc = "open" /\ UNCHANGED arg /\ CanConnect
        /\ \A k \in Conns : arg[k] = NoId => conn[k] \notin {"connecting", "open"}
    BY <1>10 DEF tcp_client_open, Client, IInv, Serving, Opening
  <2>2. CASE b
    <3>1. /\ conn' = [conn EXCEPT ![Fresh] = "connecting"] /\ s_pcb' = Fresh /\ pc' = "register"
          /\ Fresh \in Conns
      BY <1>10, <2>1, <2>2, FreshIs DEF tcp_client_open
    <3>2. \A k \in Conns : arg'[k] = NoId /\ conn'[k] \in {"connecting", "open"} => k = Fresh
      BY <1>0, <2>1, <3>1, Constants DEF Client
    <3> QED BY <3>1, <3>2 DEF Client
  <2>3. CASE ~b
    <3>1. conn' = conn /\ s_pcb' = None /\ pc' = "idle"
      BY <1>10, <2>3 DEF tcp_client_open
    <3> QED BY <2>1, <3>1 DEF Client
  <2> QED BY <2>2, <2>3
<1>11. CASE register_state
  BY <1>1, <1>11 DEF register_state, lwip
<1>12. CASE tcp_server_accept
  <2> DEFINE f == Fresh
  <2>1. /\ f \in Conns /\ Unused(f) /\ UNCHANGED <<stmt, sock>>
        /\ conn' = [conn EXCEPT ![f] = IF Refused THEN "closed" ELSE "open"]
        /\ arg' = [arg EXCEPT ![f] = g_connection_id_number]
    BY <1>12, Accept
  <2> HIDE DEF f
  <2>2. \A k \in Conns : arg'[k] = NoId => k # f /\ arg[k] = NoId /\ conn'[k] = conn[k]
    BY <1>0, <2>1
  <2> QED BY <2>1, <2>2 DEF Client, stmt, sock
<1>13. ASSUME NEW k \in Conns, NEW n \in 1 .. MaxBytes, NEW memory \in BOOLEAN,
              tcp_recv(k, n, memory)
       PROVE  Client'
  BY <1>2, <1>13 DEF tcp_recv, stmt, sock, lwip
<1>14. ASSUME NEW k \in Conns, NEW n \in 0 .. Len(g_header_lines), tcp_client_connected(k, n)
       PROVE  Client'
  <2>1. /\ UNCHANGED <<arg, s_pcb, pc>> /\ conn[k] = "connecting"
        /\ conn' = [conn EXCEPT ![k] = "open"]
    BY <1>14 DEF tcp_client_connected, stmt
  <2> QED BY <1>0, <1>2, <2>1
<1>15. ASSUME NEW k \in Conns, tcp_result(k) PROVE Client'
  BY <1>3, <1>15 DEF tcp_result
<1>16. ASSUME NEW k \in Conns, tcp_server_poll(k) PROVE Client'
  <2>1. /\ UNCHANGED <<arg, s_pcb, pc>>
        /\ conn' = conn \/ conn' = [conn EXCEPT ![g_connection_id[arg[k]]] = "closed"]
    BY <1>16 DEF tcp_server_poll, tcp_server_client_close, stmt, sock
  <2> QED BY <1>0, <1>2, <2>1
<1>17. CASE CloseClient
  <2>1. /\ UNCHANGED <<arg, s_pcb, role>> /\ pc = "close" /\ pc' = "idle"
        /\ conn' = conn \/ conn' = [conn EXCEPT ![to] = "closed"]
    BY <1>17 DEF CloseClient, tcp_server_client_close, sock
  <2>2. \A k \in Conns : conn'[k] \in {"connecting", "open"} => conn[k] \in {"connecting", "open"}
    BY <1>0, <2>1
  <2> QED BY <2>1, <2>2, ClientFrame
<1>18. CASE init_socket_system \/ shift_pcb_fifo \/ CountOther \/ UNCHANGED vars
  BY <1>2, <1>18 DEF init_socket_system, shift_pcb_fifo, CountOther, vars, stmt, sock, lwip
<1>19. ASSUME NEW i \in Ids \cup {NoId}, NEW len \in Lengths, machikania_tcp_write(i, len)
       PROVE  Client'
  <2>1. pc = "idle" /\ pc' \in {"idle", "send"} /\ UNCHANGED <<lwip, s_pcb>>
    BY <1>19 DEF machikania_tcp_write
  <2> QED BY <1>1, <2>1
<1>20. ASSUME NEW i \in Ids, CloseLook(i) \/ machikania_tcp_status(i) PROVE Client'
  BY <1>1, <1>20 DEF CloseLook, machikania_tcp_status, sock
<1>21. ASSUME NEW i \in Ids \cup {NoId}, NEW n \in 1 .. MaxBytes, tcp_read_from_buffer(i, n)
       PROVE  Client'
  BY <1>1, <1>21 DEF tcp_read_from_buffer, sock
<1>22. CASE ReceiveNone \/ Copy \/ Drop \/ CountBuffer
  BY <1>1, <1>22 DEF ReceiveNone, Copy, Drop, CountBuffer, sock
<1>23. ASSUME NEW b \in BOOLEAN, SendPart(b) PROVE Client'
  BY <1>1, <1>23 DEF SendPart, sock
<1>24. ASSUME NEW k \in Conns, tcp_err_abrt(k) PROVE Client'
  <2>1. UNCHANGED <<arg, s_pcb, pc>> /\ conn' = [conn EXCEPT ![k] = "aborted"]
    BY <1>24 DEF tcp_err_abrt, stmt, sock
  <2> QED BY <1>0, <1>2, <2>1
<1> QED
  BY <1>4, <1>5, <1>6, <1>7, <1>8, <1>9, <1>10, <1>11, <1>12, <1>13, <1>14, <1>15, <1>16, <1>17,
     <1>18, <1>19, <1>20, <1>21, <1>22, <1>23, <1>24
  DEF Next, Callbacks, Starts, Continues


\* While the list is emptied nothing arrives.
LEMMA NoneOpen ==
  ASSUME IInv, Client, pc \in {"walk", "unlink"}
  PROVE  \A k \in Conns : ~IsOpen(k)
<1>1. ASSUME NEW k \in Conns, IsOpen(k) PROVE FALSE
  <2>1. ~Server(k)
    BY <1>1 DEF IInv, Serving
  <2> QED BY <1>1, <2>1 DEF Client, Server, IsOpen
<1> QED BY <1>1

\* Buffers that arrive.
LEMMA ReceiveBuffer ==
  ASSUME Plain, IInv, Client, NEW k \in Conns, NEW n \in 1 .. MaxBytes, NEW memory \in BOOLEAN,
         tcp_recv(k, n, memory)
  PROVE  \E x \in Buffers :
           /\ x.key = Came(k) /\ x.data = NextBytes(k, n) /\ Came(k) \in Keys
           /\ g_socket_buffer' = Append(g_socket_buffer, x)
           /\ pending' = [pending EXCEPT ![Came(k)] = @ \o x.data]
           /\ pc \notin {"walk", "unlink"} /\ UNCHANGED stmt
<1> DEFINE x == Buffer(IF k \in Clients THEN Pcb(s_pcb) ELSE Id(arg[k]), NextBytes(k, n))
<1>1. IsOpen(k) /\ memory /\ UNCHANGED stmt
  BY Receive
<1>2. NextBytes(k, n) \in Seq(Bytes) /\ Came(k) \in Keys
  BY NextBytesType DEF IInv
<1>3. k \in Clients => k = s_pcb
  BY <1>1 DEF Clients, Client, IsOpen
<1>4. x.key = Came(k) /\ x.data = NextBytes(k, n) /\ x = [key |-> Came(k), data |-> NextBytes(k, n)]
  BY <1>3 DEF Buffer, Came
<1>5. x \in Buffers
  BY <1>2, <1>4 DEF Buffers
<1>6. /\ g_socket_buffer' = Append(g_socket_buffer, x)
      /\ pending' = [pending EXCEPT ![Came(k)] = @ \o NextBytes(k, n)]
  BY <1>1 DEF tcp_recv
<1>7. pc \notin {"walk", "unlink"}
  BY <1>1, NoneOpen
<1> HIDE DEF x
<1> QED BY <1>1, <1>2, <1>4, <1>5, <1>6, <1>7

\* What TCPRECEIVE copies.
LEMMA CopyIs ==
  ASSUME IInv, Copy
  PROVE  \E m \in 1 .. Len(g_socket_buffer), e \in Nat, x \in Buffers :
           /\ g_socket_buffer[m].key = key /\ key \in Keys
           /\ \A j \in 1 .. m - 1 : g_socket_buffer[j].key # key
           /\ e \in 0 .. Len(g_socket_buffer[m].data)
           /\ x = [g_socket_buffer[m] EXCEPT !.data = Without(g_socket_buffer[m].data, e)]
           /\ g_socket_buffer' = [g_socket_buffer EXCEPT ![m] = x]
           /\ pending' = [pending EXCEPT ![key] = Without(@, e)]
           /\ pos' = m /\ pc' \in {"drop", "idle"}
           /\ pc' = "drop" => e = Len(g_socket_buffer[m].data)
<1>0. List /\ want \in Nat
  BY DEF IInv, Types, Program
<1> DEFINE m == FirstMine
           d == g_socket_buffer[m].data
           e == IF want <= Len(d) THEN want ELSE Len(d)
           x == [g_socket_buffer[m] EXCEPT !.data = Without(d, e)]
<1>1. m \in Mine /\ m \in 1 .. Len(g_socket_buffer) /\ (\A l \in Mine : m <= l)
  BY <1>0, FirstMineIs DEF Copy
<1>2. g_socket_buffer[m].key = key
  BY <1>1 DEF Mine
<1>3. g_socket_buffer[m] \in Buffers /\ d \in Seq(Bytes) /\ Len(d) \in Nat
  <2>1. g_socket_buffer[m] \in Buffers
    BY <1>0, <1>1, ElementOfSeq DEF List
  <2>2. d \in Seq(Bytes)
    BY <2>1 DEF Buffers
  <2> QED BY <2>1, <2>2, LenProperties
<1>4. key \in Keys
  BY <1>2, <1>3 DEF Buffers
<1>5. \A j \in 1 .. m - 1 : g_socket_buffer[j].key # key
  <2>1. DOMAIN g_socket_buffer = 1 .. Len(g_socket_buffer) /\ Len(g_socket_buffer) \in Nat
    BY <1>0, LenProperties DEF List
  <2>2. \A j \in 1 .. m - 1 : j \in 1 .. Len(g_socket_buffer) /\ ~(m <= j)
    BY <1>1, <2>1
  <2> QED BY <1>1, <2>1, <2>2 DEF Mine
<1>6. /\ g_socket_buffer' = [g_socket_buffer EXCEPT ![m].data = SubSeq(@, e + 1, Len(@))]
      /\ pending' = [pending EXCEPT ![key] = SubSeq(@, e + 1, Len(@))]
      /\ pos' = m /\ pc' = (IF e = Len(d) THEN "drop" ELSE "idle")
  BY DEF Copy
<1>7. g_socket_buffer' = [g_socket_buffer EXCEPT ![m] = x]
  BY <1>6 DEF Without
<1>8. pending' = [pending EXCEPT ![key] = Without(@, e)]
  BY <1>6 DEF Without
<1>9. e \in Nat /\ e \in 0 .. Len(d)
  <2> HIDE DEF d
  <2> QED BY <1>0, <1>3
<1>10. x \in Buffers
  <2>1. Without(d, e) \in Seq(Bytes)
    <3> HIDE DEF d, e
    <3> QED BY <1>3, <1>9, WithoutIs
  <2> HIDE DEF e
  <2> QED BY <1>3, <2>1 DEF Buffers
<1>11. pc' \in {"drop", "idle"} /\ (pc' = "drop" => e = Len(d))
  BY <1>6
<1> DEFINE Result(i, n, y) ==
      /\ g_socket_buffer[i].key = key /\ key \in Keys
      /\ \A j \in 1 .. i - 1 : g_socket_buffer[j].key # key
      /\ n \in 0 .. Len(g_socket_buffer[i].data)
      /\ y = [g_socket_buffer[i] EXCEPT !.data = Without(g_socket_buffer[i].data, n)]
      /\ g_socket_buffer' = [g_socket_buffer EXCEPT ![i] = y]
      /\ pending' = [pending EXCEPT ![key] = Without(@, n)]
      /\ pos' = i /\ pc' \in {"drop", "idle"}
      /\ pc' = "drop" => n = Len(g_socket_buffer[i].data)
<1>12. Result(m, e, x)
  <2> HIDE DEF e
  <2> QED BY <1>2, <1>4, <1>5, <1>6, <1>7, <1>8, <1>9, <1>11
<1>13. \E i \in 1 .. Len(g_socket_buffer), n \in Nat, y \in Buffers : Result(i, n, y)
  <2> HIDE DEF Result, m, e, x
  <2> QED BY <1>1, <1>9, <1>10, <1>12
<1> QED BY <1>13

\* Every step keeps the places of the statements.
LEMMA PlacesStep ==
  ASSUME Plain, IInv, Client, Places, [Next]_vars
  PROVE  Places'
<1> USE DEF Places
<1>0. List
  BY DEF IInv, Types
<1>1. ASSUME pc' \notin {"unlink", "drop"} PROVE Places'
  BY <1>1
<1>2. ASSUME UNCHANGED <<pc, pos, g_socket_buffer>> PROVE Places'
  BY <1>2
<1>3. CASE WalkLook
  BY <1>3 DEF WalkLook
<1>4. CASE Copy
  <2>1. PICK m \in 1 .. Len(g_socket_buffer), e \in Nat, x \in Buffers :
           /\ e \in 0 .. Len(g_socket_buffer[m].data)
           /\ x = [g_socket_buffer[m] EXCEPT !.data = Without(g_socket_buffer[m].data, e)]
           /\ g_socket_buffer' = [g_socket_buffer EXCEPT ![m] = x]
           /\ pos' = m /\ pc' \in {"drop", "idle"}
           /\ pc' = "drop" => e = Len(g_socket_buffer[m].data)
    BY <1>4, CopyIs
  <2>2. g_socket_buffer[m] \in Buffers /\ g_socket_buffer[m].data \in Seq(Bytes)
    <3>1. g_socket_buffer[m] \in Buffers
      BY <1>0, ElementOfSeq DEF List
    <3> QED BY <3>1 DEF Buffers
  <2>3. g_socket_buffer'[m] = x
    BY <1>0, <2>1, ExceptSeq DEF List
  <2>4. x.data = Without(g_socket_buffer[m].data, e)
    BY <2>1, <2>2 DEF Buffers
  <2>5. /\ Without(g_socket_buffer[m].data, e) \in Seq(Bytes)
        /\ Len(Without(g_socket_buffer[m].data, e)) = Len(g_socket_buffer[m].data) - e
        /\ Len(g_socket_buffer[m].data) \in Nat
    BY <2>1, <2>2, WithoutIs, LenProperties
  <2>6. e = Len(g_socket_buffer[m].data) => Len(x.data) = 0
    BY <2>4, <2>5
  <2>7. e = Len(g_socket_buffer[m].data) => x.data = << >>
    BY <2>4, <2>5, <2>6, EmptySeq
  <2> QED BY <2>1, <2>3, <2>7
<1>5. ASSUME NEW k \in Conns, NEW n \in 1 .. MaxBytes, NEW memory \in BOOLEAN,
             tcp_recv(k, n, memory)
      PROVE  Places'
  <2>1. PICK x \in Buffers : /\ g_socket_buffer' = Append(g_socket_buffer, x)
                             /\ pc \notin {"walk", "unlink"} /\ UNCHANGED stmt
    BY <1>5, ReceiveBuffer
  <2>2. pc = "drop" => g_socket_buffer'[pos] = g_socket_buffer[pos]
    BY <1>0, <2>1, AppendProperties DEF List
  <2> QED BY <2>1, <2>2 DEF stmt
<1>6. CASE WalkUnlink \/ WalkEnd \/ Drop \/ start_tcp_client
  <2>1. then \in {"idle", "open"}
    BY DEF IInv, Serving
  <2> QED BY <1>1, <1>6, <2>1 DEF WalkUnlink, WalkEnd, Drop, start_tcp_client
<1>7. ASSUME NEW i \in Ids \cup {NoId}, NEW len \in Lengths, machikania_tcp_write(i, len)
      PROVE  Places'
  <2>1. pc = "idle" /\ pc' \in {"idle", "send"}
    BY <1>7 DEF machikania_tcp_write
  <2> QED BY <1>1, <2>1
<1>8. ASSUME NEW b \in BOOLEAN, SendPart(b) \/ tcp_client_open(b) PROVE Places'
  <2>1. pc' \in {"idle", "send", "register"}
    BY <1>8 DEF SendPart, tcp_client_open
  <2> QED BY <1>1, <2>1
<1>9. CASE tcp_server_accept \/ shift_pcb_fifo \/ CountOther \/ init_socket_system \/ UNCHANGED vars
  BY <1>2, <1>9 DEF tcp_server_accept, shift_pcb_fifo, CountOther, init_socket_system, vars, stmt
<1>10. ASSUME NEW k \in Conns, tcp_result(k) \/ tcp_server_poll(k) \/ tcp_err_abrt(k)
       PROVE  Places'
  BY <1>2, <1>10 DEF tcp_result, tcp_server_poll, tcp_err_abrt, stmt
<1>11. ASSUME NEW k \in Conns, NEW n \in 0 .. Len(g_header_lines), tcp_client_connected(k, n)
       PROVE  Places'
  BY <1>2, <1>11 DEF tcp_client_connected, stmt
<1> QED
  BY <1>1, <1>3, <1>4, <1>5, <1>6, <1>7, <1>8, <1>9, <1>10, <1>11
  DEF Next, Callbacks, Starts, Continues, tcp_server_open, start_tcp_server, machikania_tcp_close,
      register_state, CloseLook, CloseClient, tcp_read_from_buffer, ReceiveNone,
      machikania_tcp_status, CountBuffer


\* Every step keeps what arrived and waits, key by key.
LEMMA KeptStep ==
  ASSUME Plain, RInv, [Next]_vars
  PROVE  Kept'
<1>0. /\ g_socket_buffer \in Seq(Buffers) /\ pending \in [Keys -> Seq(Bytes)]
      /\ g_socket_buffer' \in Seq(Buffers) /\ pending' \in [Keys -> Seq(Bytes)]
      /\ IInv /\ Client /\ Places
  <2>1. List'
    BY ListStep DEF RInv
  <2> QED BY <2>1 DEF RInv, IInv, Types, List
<1>1. ASSUME UNCHANGED <<g_socket_buffer, pending>> PROVE Kept'
  BY <1>1 DEF RInv, Kept
<1>2. SUFFICES ASSUME ~UNCHANGED <<g_socket_buffer, pending>>, NEW k \in Keys
               PROVE  \E d : Cut(g_socket_buffer', pending'[k], k, d)
  BY <1>1 DEF Kept
<1>3. PICK c : Cut(g_socket_buffer, pending[k], k, c)
  BY DEF RInv, Kept
<1>4. pending[k] \in Seq(Bytes) /\ pending'[k] \in Seq(Bytes)
  BY <1>0
<1>5. CASE WalkUnlink
  <2> DEFINE x == Head(g_socket_buffer)
  <2>1. /\ g_socket_buffer # << >> /\ pos = Len(g_socket_buffer)
        /\ g_socket_buffer' = IF pos = 1 THEN << >> ELSE Tail(g_socket_buffer)
        /\ pending' = [pending EXCEPT ![x.key] = SubSeq(@, Len(x.data) + 1, Len(@))]
    BY <1>0, <1>5 DEF WalkUnlink, IInv, Types, List, Places
  <2>2. g_socket_buffer' = Tail(g_socket_buffer)
    <3>1. CASE pos = 1
      <4>1. Tail(g_socket_buffer) \in Seq(Buffers) /\ Len(Tail(g_socket_buffer)) = 0
        <5>1. Len(g_socket_buffer) = 1 /\ g_socket_buffer # << >>
          BY <2>1, <3>1
        <5>2. /\ Tail(g_socket_buffer) \in Seq(Buffers)
              /\ Len(Tail(g_socket_buffer)) = Len(g_socket_buffer) - 1
          BY <1>0, <5>1, HeadTailProperties
        <5> QED BY <5>1, <5>2
      <4>2. Tail(g_socket_buffer) = << >>
        BY <4>1, EmptySeq
      <4> QED BY <2>1, <3>1, <4>2
    <3>2. CASE pos # 1
      BY <2>1, <3>2
    <3> QED BY <3>1, <3>2
  <2>3. x \in Buffers
    BY <1>0, <2>1, HeadTailProperties
  <2>4. x.key \in Keys
    BY <2>3 DEF Buffers
  <2>5. pending'[k] = IF x.key = k THEN Without(pending[k], Len(x.data)) ELSE pending[k]
    <3> HIDE DEF x
    <3> QED BY <1>0, <2>1, <2>4 DEF Without
  <2>6. PICK b \in Seq(Buffers), p \in Seq(Bytes), q \in Seq(Bytes) :
          b = g_socket_buffer /\ p = pending[k] /\ q = pending'[k]
    BY <1>0, <1>4
  <2>7. \E d : Cut(Tail(b), q, k, d)
    <3>1. b # << >> /\ q = IF Head(b).key = k THEN Without(p, Len(Head(b).data)) ELSE p
      BY <2>1, <2>5, <2>6
    <3>2. Cut(b, p, k, c)
      BY <1>3, <2>6
    <3> QED BY <2>6, <3>1, <3>2, CutTail
  <2> QED BY <2>2, <2>6, <2>7
<1>6. ASSUME NEW j \in Conns, NEW n \in 1 .. MaxBytes, NEW memory \in BOOLEAN,
             tcp_recv(j, n, memory)
      PROVE  \E d : Cut(g_socket_buffer', pending'[k], k, d)
  <2>1. PICK x \in Buffers :
          /\ x.key = Came(j) /\ x.data = NextBytes(j, n) /\ Came(j) \in Keys
          /\ g_socket_buffer' = Append(g_socket_buffer, x)
          /\ pending' = [pending EXCEPT ![Came(j)] = @ \o x.data]
          /\ pc \notin {"walk", "unlink"} /\ UNCHANGED stmt
    BY <1>0, <1>6, ReceiveBuffer
  <2>2. pending'[k] = IF x.key = k THEN pending[k] \o x.data ELSE pending[k]
    BY <1>0, <2>1
  <2> QED BY <1>0, <1>3, <1>4, <2>1, <2>2, CutAppend
<1>7. CASE Copy
  <2>1. PICK m \in 1 .. Len(g_socket_buffer), e \in Nat, x \in Buffers :
           /\ g_socket_buffer[m].key = key /\ key \in Keys
           /\ \A j \in 1 .. m - 1 : g_socket_buffer[j].key # key
           /\ e \in 0 .. Len(g_socket_buffer[m].data)
           /\ x = [g_socket_buffer[m] EXCEPT !.data = Without(g_socket_buffer[m].data, e)]
           /\ g_socket_buffer' = [g_socket_buffer EXCEPT ![m] = x]
           /\ pending' = [pending EXCEPT ![key] = Without(@, e)]
    BY <1>0, <1>7, CopyIs
  <2>2. CASE k = key
    <3>1. pending'[k] = Without(pending[k], e)
      BY <1>0, <2>1, <2>2
    <3> QED BY <1>0, <1>3, <1>4, <2>1, <2>2, <3>1, CutTake
  <2>3. CASE k # key
    <3>1. pending'[k] = pending[k]
      BY <1>0, <2>1, <2>3
    <3>2. x.key = g_socket_buffer[m].key
      <4>1. g_socket_buffer[m] \in Buffers
        BY <1>0, ElementOfSeq
      <4> QED BY <2>1, <4>1 DEF Buffers
    <3>3. Cut([g_socket_buffer EXCEPT ![m] = x], pending[k], k, c)
      BY <1>0, <1>3, <1>4, <2>1, <2>3, <3>2, CutOther
    <3> QED BY <2>1, <3>1, <3>3
  <2> QED BY <2>2, <2>3
<1>8. CASE Drop
  <2>1. /\ pos \in 1 .. Len(g_socket_buffer) /\ g_socket_buffer[pos].data = << >>
        /\ g_socket_buffer' = RemoveAt(g_socket_buffer, pos) /\ pending' = pending
    BY <1>0, <1>8 DEF Drop, IInv, Types, List, Places
  <2> QED BY <1>0, <1>3, <1>4, <2>1, CutRemove
<1>9. ASSUME NEW i \in Ids \cup {NoId}, NEW len \in Lengths, machikania_tcp_write(i, len) PROVE FALSE
  BY <1>2, <1>9 DEF machikania_tcp_write
<1>10. ASSUME NEW b \in BOOLEAN, SendPart(b) \/ tcp_client_open(b) PROVE FALSE
  BY <1>2, <1>10 DEF SendPart, tcp_client_open
<1>11. ASSUME NEW j \in Conns, tcp_result(j) \/ tcp_server_poll(j) \/ tcp_err_abrt(j)
       PROVE  FALSE
  BY <1>2, <1>11 DEF tcp_result, tcp_server_poll, tcp_err_abrt
<1>17. ASSUME NEW j \in Conns, NEW n \in 0 .. Len(g_header_lines), tcp_client_connected(j, n)
       PROVE  FALSE
  BY <1>2, <1>17 DEF tcp_client_connected
<1>12. CASE tcp_server_accept \/ shift_pcb_fifo \/ CountOther \/ init_socket_system \/ UNCHANGED vars
  BY <1>2, <1>12 DEF tcp_server_accept, shift_pcb_fifo, CountOther, init_socket_system, vars
<1>13. ASSUME NEW mode \in Modes, tcp_server_open(mode) PROVE FALSE
  BY <1>2, <1>13 DEF tcp_server_open
<1>14. ASSUME NEW i \in Ids, CloseLook(i) \/ machikania_tcp_status(i) PROVE FALSE
  BY <1>2, <1>14 DEF CloseLook, machikania_tcp_status
<1>15. ASSUME NEW i \in Ids \cup {NoId}, NEW n \in 1 .. MaxBytes, tcp_read_from_buffer(i, n)
       PROVE  FALSE
  BY <1>2, <1>15 DEF tcp_read_from_buffer
<1>16. CASE \/ start_tcp_server \/ machikania_tcp_close \/ WalkLook \/ WalkEnd \/ start_tcp_client
            \/ register_state \/ CloseClient \/ ReceiveNone \/ CountBuffer
  BY <1>2, <1>16 DEF start_tcp_server, machikania_tcp_close, WalkLook, WalkEnd, start_tcp_client,
     register_state, CloseClient, ReceiveNone, CountBuffer
<1> QED
  BY <1>5, <1>6, <1>7, <1>8, <1>9, <1>10, <1>11, <1>12, <1>13, <1>14, <1>15, <1>16, <1>17
  DEF Next, Callbacks, Starts, Continues

LEMMA InitRInv ==
  ASSUME Init
  PROVE  RInv
<1>1. IInv
  BY InitIInv
<1>2. Client
  BY DEF Init, Client
<1>3. Places
  BY DEF Init, Places
<1>4. ASSUME NEW k \in Keys PROVE \E c : Cut(g_socket_buffer, pending[k], k, c)
  <2> DEFINE c == [j \in 0 .. 0 |-> 0]
  <2>1. g_socket_buffer = << >> /\ pending[k] = << >> /\ Len(g_socket_buffer) = 0
        /\ Len(pending[k]) = 0
    BY DEF Init
  <2>2. c \in [0 .. 0 -> 0 .. 0] /\ c[0] = 0 /\ \A i, j \in 0 .. 0 : i <= j => c[i] <= c[j]
    OBVIOUS
  <2>3. Cut(g_socket_buffer, pending[k], k, c)
    BY <2>1, <2>2 DEF Cut
  <2> QED BY <2>3
<1> QED BY <1>1, <1>2, <1>3, <1>4 DEF RInv, Kept

LEMMA NextRInv ==
  ASSUME Plain, RInv, [Next]_vars
  PROVE  RInv'
BY NextIInv, ClientStep, PlacesStep, KeptStep DEF RInv

LEMMA RInvReceivedInOrder ==
  ASSUME RInv
  PROVE  ReceivedInOrder
<1>1. ASSUME NEW k \in Keys PROVE BytesOf(k) = pending[k]
  <2>1. PICK c : Cut(g_socket_buffer, pending[k], k, c)
    BY DEF RInv, Kept
  <2>2. g_socket_buffer \in Seq(Buffers) /\ pending[k] \in Seq(Bytes)
    BY DEF RInv, IInv, Types, List
  <2>3. FlattenSeq(DataOf(g_socket_buffer, k)) = pending[k]
    BY <2>1, <2>2, CutBytes
  <2> QED BY <2>3 DEF BytesOf, DataOf
<1> QED BY <1>1 DEF ReceivedInOrder

\* TCPRECEIVE hands every byte that arrived on, once and in order, to whom it is for, although
\* one list holds the buffers of all connections and lwIP adds to it at any time; under the
\* same conditions, and while memory is left.
THEOREM ReceivedHold ==
  ASSUME Allow = {}, MaxConns <= IDS
  PROVE  Spec => []ReceivedInOrder
<1>1. Plain
  BY DEF Plain
<1>2. Init => RInv
  BY InitRInv
<1>3. RInv /\ [Next]_vars => RInv'
  BY <1>1, NextRInv
<1>4. RInv => ReceivedInOrder
  BY RInvReceivedInOrder
<1> QED BY <1>2, <1>3, <1>4, PTL DEF Spec
-----------------------------------------------------------------------------
(* What is sent.                                                           *)

\* What was asked for so far, the parts of the message in progress included.
SoFar(k) ==
  IF pc = "send" /\ to = k THEN asked[k] \o Message(msg, want - left) ELSE asked[k]

\* A connection that was made once.
Made(k) == conn[k] \notin {"none", "connecting"}

Sent ==
  /\ wire \in [Conns -> Seq(Nat \X Nat)] /\ asked \in [Conns -> Seq(Nat \X Nat)]
  /\ \A k \in Conns : SameUpToParts(wire[k], SoFar(k))
  /\ pc = "send" =>
       /\ to \in Conns /\ Made(to) /\ want \in Nat /\ left \in 1 .. want
       /\ left = want \/ want - left >= WIFI_BUFF_SIZE
  /\ g_pcb # None => Made(g_pcb)
  /\ g_header_lines = << >> \/ \E m \in Nat, len \in Lengths : g_header_lines = Message(m, len)
  /\ msg \in Nat

SInv == RInv /\ Sent

\* A sequence given by its elements.
LEMMA ElementsOf ==
  ASSUME NEW S, NEW n \in Nat, NEW f \in [1 .. n -> S]
  PROVE  f \in Seq(S) /\ Len(f) = n /\ DOMAIN f = 1 .. n
<1>1. f \in Seq(S)
  BY IsASeq
<1>2. DOMAIN f = 1 .. n /\ DOMAIN f = 1 .. Len(f) /\ Len(f) \in Nat
  BY <1>1, LenProperties
<1>3. Len(f) = n
  BY <1>2
<1> QED BY <1>1, <1>2, <1>3

LEMMA MessageType ==
  ASSUME NEW m \in Nat, NEW n \in Nat
  PROVE  /\ Message(m, n) \in Seq(Nat \X Nat) /\ Len(Message(m, n)) = n
         /\ \A j \in 1 .. n : Message(m, n)[j] = <<m, j>>
<1>1. Message(m, n) \in [1 .. n -> Nat \X Nat]
  BY DEF Message
<1>2. \A j \in 1 .. n : Message(m, n)[j] = <<m, j>>
  BY DEF Message
<1> QED BY <1>1, <1>2, ElementsOf

\* The bytes of a message in parts, all of which start at the first byte.
LEMMA InPartsType ==
  ASSUME NEW m \in Nat, NEW n \in Nat
  PROVE  /\ InParts(m, n) \in Seq(Nat \X Nat) /\ Len(InParts(m, n)) = n
         /\ \A j \in 1 .. n : InParts(m, n)[j][1] = m
         /\ \A j \in 1 .. n : j <= WIFI_BUFF_SIZE => InParts(m, n)[j][2] = j
<1> DEFINE w == WIFI_BUFF_SIZE
<1>1. w \in Nat \ {0}
  BY SocketsAssumption
<1>2. \A i \in Nat : i % w \in Nat /\ (i < w => i % w = i)
  <2> HIDE DEF w
  <2> QED BY <1>1
<1>3. \A j \in 1 .. n : j - 1 \in Nat /\ ((j - 1) % w) + 1 \in Nat
  <2> HIDE DEF w
  <2>1. \A j \in 1 .. n : j - 1 \in Nat
    OBVIOUS
  <2>2. \A j \in 1 .. n : (j - 1) % w \in Nat
    BY <1>2, <2>1
  <2> QED BY <2>1, <2>2
<1>4. InParts(m, n) = [j \in 1 .. n |-> <<m, ((j - 1) % w) + 1>>]
  BY DEF InParts
<1>5. InParts(m, n) \in [1 .. n -> Nat \X Nat]
  <2> HIDE DEF w
  <2> QED BY <1>3, <1>4
<1>6. ASSUME NEW j \in 1 .. n
      PROVE  InParts(m, n)[j][1] = m /\ (j <= w => InParts(m, n)[j][2] = j)
  <2> HIDE DEF w
  <2>1. InParts(m, n)[j] = <<m, ((j - 1) % w) + 1>>
    BY <1>4
  <2>2. ASSUME j <= w PROVE ((j - 1) % w) + 1 = j
    <3>1. j - 1 \in Nat /\ j - 1 < w
      BY <1>1, <2>2
    <3>2. (j - 1) % w = j - 1
      BY <1>2, <3>1
    <3> QED BY <3>2
  <2> QED BY <2>1, <2>2
<1> QED BY <1>5, <1>6, ElementsOf

\* Two sequences, one after the other.
LEMMA Joined ==
  ASSUME NEW S, NEW s \in Seq(S), NEW t \in Seq(S)
  PROVE  /\ s \o t \in Seq(S) /\ Len(s \o t) = Len(s) + Len(t)
         /\ \A i \in 1 .. Len(s) : (s \o t)[i] = s[i]
         /\ \A i \in 1 .. Len(t) : (s \o t)[Len(s) + i] = t[i]
<1> DEFINE m == Len(s)
           n == Len(t)
<1>1. m \in Nat /\ n \in Nat
  BY LenProperties
<1>2. /\ s \o t \in Seq(S) /\ Len(s \o t) = m + n
      /\ \A i \in 1 .. m + n : (s \o t)[i] = IF i <= m THEN s[i] ELSE t[i - m]
  BY ConcatProperties
<1> HIDE DEF m, n
<1>3. \A i \in 1 .. m : i \in 1 .. m + n /\ i <= m
  BY <1>1
<1>4. \A i \in 1 .. m : (s \o t)[i] = s[i]
  BY <1>2, <1>3
<1>5. ASSUME NEW i \in 1 .. n PROVE (s \o t)[m + i] = t[i]
  <2> DEFINE l == m + i
  <2>1. l \in 1 .. m + n /\ ~(l <= m) /\ l - m = i
    BY <1>1
  <2> HIDE DEF l
  <2>2. (s \o t)[l] = t[l - m]
    BY <1>2, <2>1
  <2>3. (s \o t)[l] = t[i]
    BY <2>1, <2>2
  <2> QED BY <2>3 DEF l
<1> QED BY <1>2, <1>4, <1>5 DEF m, n

\* Every place is in one of the two.
LEMMA InOne ==
  ASSUME NEW m \in Nat, NEW n \in Nat, NEW i \in 1 .. m + n
  PROVE  i \in 1 .. m \/ \E j \in 1 .. n : i = m + j
<1>1. CASE i <= m
  BY <1>1
<1>2. CASE ~(i <= m)
  <2>1. i - m \in 1 .. n /\ i = m + (i - m)
    BY <1>2
  <2> QED BY <2>1
<1> QED BY <1>1, <1>2

\* More bytes that agree up to parts.
LEMMA SameMore ==
  ASSUME NEW w \in Seq(Nat \X Nat), NEW a \in Seq(Nat \X Nat),
         NEW x \in Seq(Nat \X Nat), NEW y \in Seq(Nat \X Nat),
         SameUpToParts(w, a), SameUpToParts(x, y)
  PROVE  SameUpToParts(w \o x, a \o y)
<1>1. PICK m \in Nat : Len(a) = m /\ Len(w) = m /\ DOMAIN a = 1 .. m
  BY LenProperties DEF SameUpToParts
<1>2. PICK n \in Nat : Len(y) = n /\ Len(x) = n /\ DOMAIN y = 1 .. n
  BY LenProperties DEF SameUpToParts
<1>3. /\ Len(w \o x) = m + n
      /\ \A i \in 1 .. m : (w \o x)[i] = w[i]
      /\ \A i \in 1 .. n : (w \o x)[m + i] = x[i]
  <2>1. /\ Len(w \o x) = Len(w) + Len(x)
        /\ \A i \in 1 .. Len(w) : (w \o x)[i] = w[i]
        /\ \A i \in 1 .. Len(x) : (w \o x)[Len(w) + i] = x[i]
    BY Joined
  <2> QED BY <1>1, <1>2, <2>1
<1>4. /\ Len(a \o y) = m + n /\ DOMAIN (a \o y) = 1 .. m + n
      /\ \A i \in 1 .. m : (a \o y)[i] = a[i]
      /\ \A i \in 1 .. n : (a \o y)[m + i] = y[i]
  <2>1. /\ a \o y \in Seq(Nat \X Nat) /\ Len(a \o y) = Len(a) + Len(y)
        /\ \A i \in 1 .. Len(a) : (a \o y)[i] = a[i]
        /\ \A i \in 1 .. Len(y) : (a \o y)[Len(a) + i] = y[i]
    BY Joined
  <2>2. DOMAIN (a \o y) = 1 .. Len(a \o y)
    BY <2>1, LenProperties
  <2> QED BY <1>1, <1>2, <2>1, <2>2
<1> DEFINE Agree(u, v) == u[1] = v[1] /\ (v[2] =< WIFI_BUFF_SIZE => u[2] = v[2])
<1>5. (\A j \in 1 .. m : Agree(w[j], a[j])) /\ \A j \in 1 .. n : Agree(x[j], y[j])
  BY <1>1, <1>2 DEF SameUpToParts
<1>6. ASSUME NEW i \in 1 .. m + n PROVE Agree((w \o x)[i], (a \o y)[i])
  <2> HIDE DEF Agree
  <2>1. CASE i \in 1 .. m
    BY <1>3, <1>4, <1>5, <2>1
  <2>2. ASSUME NEW j \in 1 .. n, i = m + j PROVE Agree((w \o x)[i], (a \o y)[i])
    BY <1>3, <1>4, <1>5, <2>2
  <2> QED BY <2>1, <2>2, InOne
<1> QED BY <1>3, <1>4, <1>6 DEF SameUpToParts

\* The next part of a message, which starts again at its first byte: only the first part
\* is the part of the message that is due.
LEMMA NextPart ==
  ASSUME NEW m \in Nat, NEW q \in Nat, NEW p \in Nat, q = 0 \/ q >= WIFI_BUFF_SIZE,
         NEW w \in Seq(Nat \X Nat), NEW a \in Seq(Nat \X Nat),
         SameUpToParts(w, a \o Message(m, q))
  PROVE  SameUpToParts(w \o Message(m, p), a \o Message(m, q + p))
<1> DEFINE y == [j \in 1 .. p |-> <<m, q + j>>]
<1>1. y \in Seq(Nat \X Nat) /\ Len(y) = p /\ DOMAIN y = 1 .. p
      /\ \A j \in 1 .. p : y[j] = <<m, q + j>>
  <2>1. y \in [1 .. p -> Nat \X Nat] /\ \A j \in 1 .. p : y[j] = <<m, q + j>>
    OBVIOUS
  <2> HIDE DEF y
  <2> QED BY <2>1, ElementsOf
<1> HIDE DEF y
<1>2. /\ Message(m, p) \in Seq(Nat \X Nat) /\ Len(Message(m, p)) = p
      /\ \A j \in 1 .. p : Message(m, p)[j] = <<m, j>>
  BY MessageType
<1>3. /\ Message(m, q) \in Seq(Nat \X Nat) /\ Len(Message(m, q)) = q
      /\ \A j \in 1 .. q : Message(m, q)[j] = <<m, j>>
  BY MessageType
<1>4. SameUpToParts(Message(m, p), y)
  <2>1. WIFI_BUFF_SIZE \in Nat
    BY SocketsAssumption
  <2>2. ASSUME NEW j \in 1 .. p
        PROVE  /\ Message(m, p)[j][1] = y[j][1]
               /\ y[j][2] =< WIFI_BUFF_SIZE => Message(m, p)[j][2] = y[j][2]
    <3>1. y[j] = <<m, q + j>> /\ Message(m, p)[j] = <<m, j>>
      BY <1>1, <1>2
    <3>2. q + j <= WIFI_BUFF_SIZE => j = q + j
      BY <2>1
    <3> QED BY <3>1, <3>2
  <2> QED BY <1>1, <1>2, <2>2 DEF SameUpToParts
<1>5. a \o Message(m, q) \in Seq(Nat \X Nat)
  BY <1>3, ConcatProperties
<1>6. SameUpToParts(w \o Message(m, p), (a \o Message(m, q)) \o y)
  BY <1>1, <1>2, <1>4, <1>5, SameMore
<1>7. (a \o Message(m, q)) \o y = a \o (Message(m, q) \o y)
  <2> DEFINE S == Nat \X Nat
             t == Message(m, q)
  <2>1. a \in Seq(S) /\ t \in Seq(S) /\ y \in Seq(S)
    BY <1>1, <1>3
  <2> HIDE DEF S, t
  <2>2. (a \o t) \o y = a \o (t \o y)
    BY <2>1, ConcatAssociative
  <2> QED BY <2>2 DEF t
<1>8. Message(m, q) \o y = Message(m, q + p)
  <2> DEFINE n == q + p
  <2>1. n \in Nat
    OBVIOUS
  <2>2. /\ Message(m, q) \o y \in Seq(Nat \X Nat) /\ Len(Message(m, q) \o y) = n
        /\ \A i \in 1 .. q : (Message(m, q) \o y)[i] = Message(m, q)[i]
        /\ \A i \in 1 .. p : (Message(m, q) \o y)[q + i] = y[i]
    <3> DEFINE t == Message(m, q)
    <3> HIDE DEF t
    <3>1. t \in Seq(Nat \X Nat) /\ y \in Seq(Nat \X Nat) /\ Len(t) = q
      BY <1>1, <1>3 DEF t
    <3>2. /\ t \o y \in Seq(Nat \X Nat) /\ Len(t \o y) = Len(t) + Len(y)
          /\ \A i \in 1 .. Len(t) : (t \o y)[i] = t[i]
          /\ \A i \in 1 .. Len(y) : (t \o y)[Len(t) + i] = y[i]
      <4> DEFINE S == Nat \X Nat
      <4>1. t \in Seq(S) /\ y \in Seq(S)
        BY <3>1
      <4> HIDE DEF S
      <4>2. /\ t \o y \in Seq(S) /\ Len(t \o y) = Len(t) + Len(y)
            /\ \A i \in 1 .. Len(t) : (t \o y)[i] = t[i]
            /\ \A i \in 1 .. Len(y) : (t \o y)[Len(t) + i] = y[i]
        BY ONLY <4>1, Joined
      <4> QED BY <4>2 DEF S
    <3> QED BY <1>1, <3>1, <3>2 DEF t
  <2>3. ASSUME NEW i \in 1 .. n PROVE (Message(m, q) \o y)[i] = <<m, i>>
    <3>1. CASE i \in 1 .. q
      BY <1>3, <2>2, <3>1
    <3>2. ASSUME NEW j \in 1 .. p, i = q + j PROVE (Message(m, q) \o y)[i] = <<m, i>>
      BY <1>1, <2>2, <3>2
    <3> QED BY <3>1, <3>2, InOne
  <2> HIDE DEF n
  <2>4. /\ Message(m, n) \in Seq(Nat \X Nat) /\ Len(Message(m, n)) = n
        /\ \A i \in 1 .. n : Message(m, n)[i] = <<m, i>>
    BY <2>1, MessageType
  <2>5. Message(m, q) \o y = Message(m, n)
    BY <2>2, <2>3, <2>4, SeqEqual
  <2> QED BY <2>5 DEF n
<1> QED BY <1>6, <1>7, <1>8

\* A step that sends nothing.
LEMMA SentFrame ==
  ASSUME Sent, UNCHANGED <<out, msg>>, g_pcb' \in {g_pcb, None},
         \A k \in Conns : Made(k) => Made(k)',
         g_pcb' \in Conns \cup {None},
         g_header_lines' \in {g_header_lines, << >>},
         (pc = "send") = (pc' = "send"), pc = "send" => UNCHANGED <<to, left, want>>
  PROVE  Sent'
<1>1. UNCHANGED <<wire, asked, msg>>
  BY DEF out
<1>2. \A k \in Conns : SoFar(k)' = SoFar(k)
  BY <1>1 DEF SoFar
<1>3. \A k \in Conns : SameUpToParts(wire'[k], SoFar(k)')
  BY <1>1, <1>2 DEF Sent
<1>4. g_pcb' # None => Made(g_pcb)'
  BY DEF Sent, Made
<1>5. pc' = "send" =>
        /\ to' \in Conns /\ Made(to)' /\ want' \in Nat /\ left' \in 1 .. want'
        /\ left' = want' \/ want' - left' >= WIFI_BUFF_SIZE
  BY DEF Sent, Made
<1> QED BY <1>1, <1>3, <1>4, <1>5 DEF Sent

\* The part that is sent next.
LEMMA PartIs ==
  ASSUME NEW n \in Nat \ {0}
  PROVE  /\ Part(n) \in Nat /\ n - Part(n) \in Nat /\ n - Part(n) < n
         /\ n - Part(n) # 0 => Part(n) = WIFI_BUFF_SIZE
<1>1. WIFI_BUFF_SIZE \in Nat \ {0}
  BY SocketsAssumption
<1> QED BY <1>1 DEF Part

\* A message of which nothing was sent yet.
LEMMA MessageNone ==
  ASSUME NEW m \in Nat, NEW a \in Seq(Nat \X Nat)
  PROVE  a \o Message(m, 0) = a
<1>1. Message(m, 0) \in Seq(Nat \X Nat) /\ Len(Message(m, 0)) = 0
  BY MessageType
<1>2. Message(m, 0) = << >>
  BY <1>1, EmptySeq
<1> QED BY <1>2, ConcatEmptySeq

\* TCPSEND starts with a message, or keeps it.
LEMMA SentWrite ==
  ASSUME Plain, SInv, NEW i \in Ids \cup {NoId}, NEW len \in Lengths, machikania_tcp_write(i, len)
  PROVE  Sent'
<1>0. /\ Sent /\ Table /\ g_connection_id \in [Ids -> Conns \cup {None}]
      /\ g_pcb \in Conns \cup {None} /\ NoId \notin Ids
  BY Constants DEF SInv, RInv, IInv, Types, Tables, Program
<1> DEFINE pcb == IF i = NoId THEN g_pcb ELSE g_connection_id[i]
<1>1. /\ pc = "idle" /\ i \in known \cup {NoId} /\ msg' = msg + 1
      /\ UNCHANGED <<wire, asked, conn, g_pcb>>
      /\ \/ g_header_lines' = Message(msg', len) /\ pc' = pc
         \/ /\ pcb # None /\ pc' = "send" /\ to' = pcb /\ left' = len /\ want' = len
            /\ g_header_lines' = g_header_lines
  BY DEF machikania_tcp_write, out, lwip
<1>2. len \in Nat \ {0} /\ msg' \in Nat
  BY <1>0, <1>1, SocketsAssumption DEF Sent
<1>3. pcb # None => pcb \in Conns /\ Made(pcb)
  <2>1. CASE i = NoId
    BY <1>0, <2>1 DEF Sent
  <2>2. CASE i # NoId
    <3>1. i \in known /\ i \in Given /\ pcb = g_connection_id[i]
      BY <1>1, <2>2 DEF Given
    <3>2. i \in Ids
      BY <2>2
    <3> HIDE DEF pcb
    <3>3. pcb # None => pcb \in Conns /\ Held(pcb)
      BY <1>0, <3>1, <3>2 DEF Table
    <3> QED BY <3>3 DEF Held, Made
  <2> QED BY <2>1, <2>2
<1> HIDE DEF pcb
<1>4. \A k \in Conns : SoFar(k) = asked[k]
  BY <1>1 DEF SoFar
<1>5. ASSUME NEW k \in Conns PROVE SoFar(k)' = asked[k]
  <2>1. CASE pc' = "send" /\ to' = k
    <3>1. want' - left' = 0
      BY <1>1, <1>2, <2>1
    <3>2. SoFar(k)' = asked[k] \o Message(msg', 0)
      BY <1>1, <2>1, <3>1 DEF SoFar
    <3>3. asked[k] \in Seq(Nat \X Nat)
      BY <1>0 DEF Sent
    <3> QED BY <1>2, <3>2, <3>3, MessageNone
  <2>2. CASE ~(pc' = "send" /\ to' = k)
    BY <1>1, <2>2 DEF SoFar
  <2> QED BY <2>1, <2>2
<1>6. \A k \in Conns : SameUpToParts(wire'[k], SoFar(k)')
  BY <1>0, <1>1, <1>4, <1>5 DEF Sent
<1>7. pc' = "send" =>
        /\ to' \in Conns /\ Made(to)' /\ want' \in Nat /\ left' \in 1 .. want'
        /\ left' = want' \/ want' - left' >= WIFI_BUFF_SIZE
  <2>1. ASSUME pc' = "send" PROVE to' \in Conns /\ Made(to)' /\ left' = len /\ want' = len
    BY <1>1, <1>3, <2>1 DEF Made
  <2> QED BY <1>2, <2>1
<1>8. g_header_lines' = << >>
      \/ \E m \in Nat, l \in Lengths : g_header_lines' = Message(m, l)
  BY <1>0, <1>1, <1>2 DEF Sent
<1>9. g_pcb' # None => Made(g_pcb)'
  BY <1>0, <1>1 DEF Sent, Made
<1>10. wire' \in [Conns -> Seq(Nat \X Nat)] /\ asked' \in [Conns -> Seq(Nat \X Nat)]
  BY <1>0, <1>1 DEF Sent
<1> QED BY <1>2, <1>6, <1>7, <1>8, <1>9, <1>10 DEF Sent

\* A part goes out, or it does not and the rest is given up.
LEMMA SentPart ==
  ASSUME Plain, SInv, NEW b \in BOOLEAN, SendPart(b)
  PROVE  Sent'
<1>1. /\ Sent /\ pc = "send" /\ UNCHANGED <<msg, to, want, conn, g_header_lines, g_pcb>>
  BY DEF SInv, SendPart, sock, lwip
<1>2. /\ to \in Conns /\ Made(to) /\ want \in Nat /\ left \in 1 .. want /\ msg \in Nat
      /\ left = want \/ want - left >= WIFI_BUFF_SIZE
      /\ wire \in [Conns -> Seq(Nat \X Nat)] /\ asked \in [Conns -> Seq(Nat \X Nat)]
      /\ \A k \in Conns : SameUpToParts(wire[k], SoFar(k))
  BY <1>1 DEF Sent
<1> DEFINE p == Part(left)
           q == want - left
           n == want - left'
<1>3. p \in Nat /\ left - p \in Nat /\ left - p < left /\ (left - p # 0 => p = WIFI_BUFF_SIZE)
  <2>1. left \in Nat \ {0}
    BY <1>2
  <2> QED BY <2>1, PartIs
<1>4. wire' = (IF b THEN [wire EXCEPT ![to] = @ \o Message(msg, p)] ELSE wire)
      /\ left' = (IF b THEN left - p ELSE left)
      /\ pc' = (IF left' = 0 \/ ~b THEN "idle" ELSE "send")
      /\ asked' = (IF pc' = "idle" THEN [asked EXCEPT ![to] = @ \o Message(msg, n)] ELSE asked)
  BY DEF SendPart
<1> HIDE DEF p
<1>5. q \in Nat /\ (q = 0 \/ q >= WIFI_BUFF_SIZE)
      /\ n = (IF b THEN q + p ELSE q) /\ n \in Nat
      /\ (pc' = "send" => left' \in 1 .. want /\ n >= WIFI_BUFF_SIZE)
  <2>1. WIFI_BUFF_SIZE \in Nat \ {0}
    BY SocketsAssumption
  <2>2. left \in Nat /\ want \in Nat /\ left <= want
    BY <1>2
  <2>3. CASE b
    <3>1. left' = left - p /\ (pc' = "send" => left' # 0)
      BY <1>4, <2>3
    <3> QED BY <1>2, <1>3, <2>1, <2>2, <2>3, <3>1
  <2>4. CASE ~b
    <3>1. left' = left /\ pc' = "idle"
      BY <1>4, <2>4
    <3> QED BY <1>2, <2>1, <2>2, <2>4, <3>1
  <2> QED BY <2>3, <2>4
<1> HIDE DEF q, n
<1>6. SoFar(to) = asked[to] \o Message(msg, q)
  BY <1>1 DEF SoFar, q
<1>7. \A k \in Conns : k = to => SoFar(k)' = asked[to] \o Message(msg, n)
  <2>1. CASE pc' = "idle"
    <3>1. asked'[to] = asked[to] \o Message(msg, n)
      BY <1>2, <1>4, <2>1
    <3> QED BY <1>1, <2>1, <3>1 DEF SoFar
  <2>2. CASE pc' = "send"
    <3>1. asked' = asked
      BY <1>4, <2>2
    <3> QED BY <1>1, <2>2, <3>1 DEF SoFar, n
  <2> QED BY <1>4, <2>1, <2>2
<1>8. SameUpToParts(wire'[to], asked[to] \o Message(msg, n))
  <2>1. SameUpToParts(wire[to], asked[to] \o Message(msg, q))
        /\ wire[to] \in Seq(Nat \X Nat) /\ asked[to] \in Seq(Nat \X Nat)
    BY <1>2, <1>6
  <2>2. CASE b
    <3>1. SameUpToParts(wire[to] \o Message(msg, p), asked[to] \o Message(msg, q + p))
      BY <1>2, <1>3, <1>5, <2>1, NextPart
    <3>2. wire'[to] = wire[to] \o Message(msg, p) /\ n = q + p
      BY <1>2, <1>4, <1>5, <2>2
    <3> QED BY <3>1, <3>2
  <2>3. CASE ~b
    BY <1>4, <1>5, <2>1, <2>3
  <2> QED BY <2>2, <2>3
<1>9. \A k \in Conns : k # to => SoFar(k)' = SoFar(k) /\ wire'[k] = wire[k]
  BY <1>1, <1>2, <1>4 DEF SoFar
<1>10. ASSUME NEW k \in Conns PROVE SameUpToParts(wire'[k], SoFar(k)')
  <2>1. CASE k = to
    BY <1>7, <1>8, <2>1
  <2>2. CASE k # to
    <3>1. SameUpToParts(wire[k], SoFar(k))
      BY <1>2
    <3>2. SoFar(k)' = SoFar(k) /\ wire'[k] = wire[k]
      BY <1>9, <2>2
    <3> QED BY <3>1, <3>2
  <2> QED BY <2>1, <2>2
<1>11. wire' \in [Conns -> Seq(Nat \X Nat)] /\ asked' \in [Conns -> Seq(Nat \X Nat)]
  <2>1. wire[to] \o Message(msg, p) \in Seq(Nat \X Nat)
    BY <1>2, <1>3, MessageType, ConcatProperties
  <2>2. asked[to] \o Message(msg, n) \in Seq(Nat \X Nat)
    BY <1>2, <1>5, MessageType, ConcatProperties
  <2> QED BY <1>2, <1>4, <2>1, <2>2
<1>12. pc' = "send" =>
        /\ to' \in Conns /\ Made(to)' /\ want' \in Nat /\ left' \in 1 .. want'
        /\ left' = want' \/ want' - left' >= WIFI_BUFF_SIZE
  BY <1>1, <1>2, <1>5 DEF Made, n
<1>13. g_pcb' # None => Made(g_pcb)'
  BY <1>1 DEF Sent, Made
<1> QED BY <1>1, <1>10, <1>11, <1>12, <1>13 DEF Sent

\* The connection to a server is made, and of the message that was kept n bytes go out.
LEMMA SentConnected ==
  ASSUME Plain, SInv, NEW k \in Conns, NEW n \in 0 .. Len(g_header_lines),
         tcp_client_connected(k, n)
  PROVE  Sent'
<1>1. /\ Sent /\ conn[k] = "connecting" /\ conn' = [conn EXCEPT ![k] = "open"] /\ ~Made(k)
      /\ conn \in [Conns -> {"none", "connecting", "open", "closed", "aborted"}]
      /\ UNCHANGED stmt /\ g_header_lines' = << >>
      /\ g_pcb' = s_pcb /\ s_pcb = k
  BY DEF tcp_client_connected, SInv, RInv, IInv, Order, Client, Types, Tables, Made
<1>2. /\ wire \in [Conns -> Seq(Nat \X Nat)] /\ asked \in [Conns -> Seq(Nat \X Nat)]
      /\ \A j \in Conns : SameUpToParts(wire[j], SoFar(j))
      /\ pc = "send" => to # k
  BY <1>1 DEF Sent
<1>3. (\A j \in Conns : Made(j) => Made(j)') /\ Made(k)'
  BY <1>1 DEF Made
<1>4. UNCHANGED <<pc, to, left, want, msg>>
  BY <1>1 DEF stmt
<1>5. CASE g_header_lines = << >>
  <2>1. UNCHANGED <<wire, asked>>
    BY <1>5 DEF tcp_client_connected, out
  <2>2. \A j \in Conns : SoFar(j)' = SoFar(j)
    BY <1>4, <2>1 DEF SoFar
  <2>3. \A j \in Conns : SameUpToParts(wire'[j], SoFar(j)')
    BY <1>2, <2>1, <2>2
  <2> QED BY <1>1, <1>3, <1>4, <2>1, <2>3 DEF Sent
<1>6. CASE g_header_lines # << >>
  <2> DEFINE h == g_header_lines
             m == h[1][1]
  <2>1. m \in Nat
    <3>1. PICK l \in Nat, len \in Lengths : h = Message(l, len)
      BY <1>1, <1>6 DEF Sent
    <3>2. len \in Nat /\ 1 \in 1 .. len
      BY SocketsAssumption
    <3>3. h[1] = <<l, 1>>
      BY <3>1, <3>2, MessageType
    <3> QED BY <3>3
  <2>2. wire' = [wire EXCEPT ![k] = @ \o InParts(m, n)]
        /\ asked' = [asked EXCEPT ![k] = @ \o Message(m, n)]
    BY <1>1, <1>6, Constants DEF tcp_client_connected
  <2>3. n \in Nat
    <3>1. Len(h) \in Nat
      <4>1. PICK l \in Nat, len \in Lengths : h = Message(l, len)
        BY <1>1, <1>6 DEF Sent
      <4>2. len \in Nat
        BY SocketsAssumption
      <4> QED BY <4>1, <4>2, MessageType
    <3> QED BY <3>1
  <2> HIDE DEF h, m
  <2>4. /\ InParts(m, n) \in Seq(Nat \X Nat) /\ Message(m, n) \in Seq(Nat \X Nat)
        /\ SameUpToParts(InParts(m, n), Message(m, n))
    <3>1. /\ InParts(m, n) \in Seq(Nat \X Nat) /\ Len(InParts(m, n)) = n
          /\ \A j \in 1 .. n : InParts(m, n)[j][1] = m
          /\ \A j \in 1 .. n : j <= WIFI_BUFF_SIZE => InParts(m, n)[j][2] = j
      BY <2>1, <2>3, InPartsType
    <3>2. /\ Message(m, n) \in Seq(Nat \X Nat) /\ Len(Message(m, n)) = n
          /\ \A j \in 1 .. n : Message(m, n)[j] = <<m, j>>
      BY <2>1, <2>3, MessageType
    <3>3. DOMAIN Message(m, n) = 1 .. n
      BY <3>2, LenProperties
    <3>4. \A j \in 1 .. n : Message(m, n)[j][1] = m /\ Message(m, n)[j][2] = j
      BY <3>2
    <3>5. ASSUME NEW j \in 1 .. n
          PROVE  /\ InParts(m, n)[j][1] = Message(m, n)[j][1]
                 /\ Message(m, n)[j][2] =< WIFI_BUFF_SIZE =>
                      InParts(m, n)[j][2] = Message(m, n)[j][2]
      <4>1. /\ InParts(m, n)[j][1] = m /\ (j <= WIFI_BUFF_SIZE => InParts(m, n)[j][2] = j)
        BY <3>1
      <4>2. Message(m, n)[j][1] = m /\ Message(m, n)[j][2] = j
        BY <3>4
      <4> QED BY <4>1, <4>2
    <3> QED BY <3>1, <3>2, <3>3, <3>5 DEF SameUpToParts
  <2>5. /\ SoFar(k) = asked[k] /\ wire[k] \in Seq(Nat \X Nat) /\ asked[k] \in Seq(Nat \X Nat)
        /\ SameUpToParts(wire[k], asked[k])
    BY <1>2 DEF SoFar
  <2>6. wire'[k] = wire[k] \o InParts(m, n) /\ asked'[k] = asked[k] \o Message(m, n)
    BY <1>2, <2>2
  <2>7. SameUpToParts(wire'[k], asked'[k])
    BY <2>4, <2>5, <2>6, SameMore
  <2>8. SoFar(k)' = asked'[k]
    BY <1>2, <1>4 DEF SoFar
  <2>9. \A j \in Conns : j # k => SoFar(j)' = SoFar(j) /\ wire'[j] = wire[j]
    BY <1>2, <1>4, <2>2 DEF SoFar
  <2>10. \A j \in Conns : SameUpToParts(wire'[j], SoFar(j)')
    BY <1>2, <2>7, <2>8, <2>9
  <2>11. wire[k] \o InParts(m, n) \in Seq(Nat \X Nat) /\ asked[k] \o Message(m, n) \in Seq(Nat \X Nat)
    BY <2>4, <2>5, ConcatProperties
  <2>12. wire' \in [Conns -> Seq(Nat \X Nat)] /\ asked' \in [Conns -> Seq(Nat \X Nat)]
    BY <1>2, <2>2, <2>11
  <2>13. pc' = "send" =>
          /\ to' \in Conns /\ Made(to)' /\ want' \in Nat /\ left' \in 1 .. want'
          /\ left' = want' \/ want' - left' >= WIFI_BUFF_SIZE
    BY <1>1, <1>3, <1>4 DEF Sent, Made
  <2>14. g_pcb' # None => Made(g_pcb)'
    BY <1>1, <1>3 DEF Made
  <2>15. g_header_lines' = << >> /\ msg' \in Nat
    BY <1>1, <1>4 DEF Sent
  <2> QED BY <2>10, <2>12, <2>13, <2>14, <2>15 DEF Sent
<1> QED BY <1>5, <1>6

\* Every step keeps what was sent like what was asked for.
LEMMA SentStep ==
  ASSUME Plain, SInv, [Next]_vars
  PROVE  Sent'
<1>0. /\ Sent /\ IInv
      /\ conn \in [Conns -> {"none", "connecting", "open", "closed", "aborted"}]
      /\ g_pcb \in Conns \cup {None} /\ g_pcb' \in Conns \cup {None}
  BY ProgramStep DEF SInv, RInv, IInv, Types, Tables, Program
<1> DEFINE Grows == \A k \in Conns : Made(k) => Made(k)'
<1>1. ASSUME UNCHANGED <<out, msg>>, Grows, g_pcb' \in {g_pcb, None},
             g_header_lines' \in {g_header_lines, << >>}, pc # "send", pc' # "send"
      PROVE  Sent'
  BY <1>0, <1>1, SentFrame
<1>2. ASSUME UNCHANGED <<out, msg, conn, g_pcb, g_header_lines>>, pc # "send", pc' # "send"
      PROVE  Sent'
  <2>1. Grows
    BY <1>2 DEF Made
  <2> QED BY <1>1, <1>2, <2>1
<1>3. ASSUME UNCHANGED <<stmt, out, g_pcb, g_header_lines>>, Grows PROVE Sent'
  BY <1>0, <1>3, SentFrame DEF stmt
<1>4. ASSUME NEW k, NEW v \in {"closed", "open", "aborted"},
             conn' = conn \/ conn' = [conn EXCEPT ![k] = v]
      PROVE  Grows
  BY <1>0, <1>4 DEF Made
<1>5. CASE machikania_tcp_close
  <2>1. /\ UNCHANGED <<out, msg, g_pcb, g_header_lines>> /\ pc = "idle" /\ pc' = "walk"
        /\ conn' = conn \/ conn' = [conn EXCEPT ![s_pcb] = "closed"]
    BY <1>5 DEF machikania_tcp_close, tcp_client_close
  <2> QED BY <1>1, <1>4, <2>1
<1>6. CASE WalkEnd
  <2>1. /\ UNCHANGED <<out, msg, conn>> /\ pc = "walk" /\ pc' # "send" /\ g_pcb' = None
        /\ g_header_lines' \in {g_header_lines, << >>}
    BY <1>0, <1>6 DEF WalkEnd, lwip, IInv, Serving
  <2> QED BY <1>1, <1>4, <2>1
<1>7. ASSUME NEW b \in BOOLEAN, tcp_client_open(b) PROVE Sent'
  <2>1. /\ UNCHANGED <<out, msg, g_pcb, g_header_lines>> /\ pc = "open"
        /\ pc' \in {"register", "idle"}
        /\ conn' = conn \/ conn' = [conn EXCEPT ![Fresh] = "connecting"]
    BY <1>7 DEF tcp_client_open
  <2>2. Fresh \in Conns /\ Unused(Fresh)
    BY <1>0, <1>7, FreshIs DEF tcp_client_open, IInv, Serving, Opening
  <2>3. Grows
    BY <1>0, <2>1, <2>2 DEF Unused, Made
  <2> QED BY <1>1, <2>1, <2>3
<1>8. CASE tcp_server_accept
  <2>1. UNCHANGED <<stmt, sock>> /\ conn' = [conn EXCEPT ![Fresh] = IF Refused THEN "closed" ELSE "open"]
    BY <1>0, <1>8, Accept
  <2>2. UNCHANGED <<out, g_pcb, g_header_lines>>
    BY <1>8 DEF tcp_server_accept, sock
  <2> QED BY <1>3, <1>4, <2>1, <2>2
<1>9. ASSUME NEW k \in Conns, tcp_result(k) PROVE Sent'
  <2>1. /\ UNCHANGED <<stmt, out, g_pcb, g_header_lines>>
        /\ conn' = conn \/ conn' = [conn EXCEPT ![s_pcb] = "closed"]
    BY <1>9 DEF tcp_result, tcp_client_close
  <2> QED BY <1>3, <1>4, <2>1
<1>10. ASSUME NEW k \in Conns, tcp_server_poll(k) PROVE Sent'
  <2>1. /\ UNCHANGED <<stmt, out, g_pcb, g_header_lines>>
        /\ conn' = conn \/ conn' = [conn EXCEPT ![g_connection_id[arg[k]]] = "closed"]
    BY <1>10 DEF tcp_server_poll, tcp_server_client_close, sock
  <2> QED BY <1>3, <1>4, <2>1
<1>11. ASSUME NEW k \in Conns, tcp_err_abrt(k) PROVE Sent'
  <2>1. UNCHANGED <<stmt, out, g_pcb, g_header_lines>> /\ conn' = [conn EXCEPT ![k] = "aborted"]
    BY <1>11 DEF tcp_err_abrt, sock
  <2> QED BY <1>3, <1>4, <2>1
<1>12. CASE CloseClient
  <2>1. /\ UNCHANGED <<out, msg, g_pcb, g_header_lines>> /\ pc = "close" /\ pc' = "idle"
        /\ conn' = conn \/ conn' = [conn EXCEPT ![to] = "closed"]
    BY <1>12 DEF CloseClient, tcp_server_client_close, sock
  <2> QED BY <1>1, <1>4, <2>1
<1>13. CASE init_socket_system \/ shift_pcb_fifo \/ CountOther \/ UNCHANGED vars
  <2>1. UNCHANGED <<stmt, out, g_pcb, g_header_lines, conn>>
    BY <1>13 DEF init_socket_system, shift_pcb_fifo, CountOther, vars, sock, lwip
  <2> QED BY <1>3, <1>4, <2>1
<1>14. ASSUME NEW k \in Conns, NEW n \in 1 .. MaxBytes, NEW memory \in BOOLEAN,
              tcp_recv(k, n, memory)
       PROVE  Sent'
  <2>1. UNCHANGED <<stmt, out, g_pcb, g_header_lines, conn>>
    BY <1>14 DEF tcp_recv, sock, lwip
  <2> QED BY <1>3, <1>4, <2>1
<1>15. ASSUME NEW i \in Ids, CloseLook(i) \/ machikania_tcp_status(i) PROVE Sent'
  BY <1>2, <1>15 DEF CloseLook, machikania_tcp_status, sock, lwip
<1>16. ASSUME NEW i \in Ids \cup {NoId}, NEW n \in 1 .. MaxBytes, tcp_read_from_buffer(i, n)
       PROVE  Sent'
  BY <1>2, <1>16 DEF tcp_read_from_buffer, sock, lwip
<1>17. ASSUME NEW mode \in Modes, tcp_server_open(mode) PROVE Sent'
  BY <1>2, <1>17 DEF tcp_server_open, lwip
<1>18. CASE start_tcp_server \/ WalkLook \/ WalkUnlink \/ start_tcp_client \/ register_state
  BY <1>2, <1>18 DEF start_tcp_server, WalkLook, WalkUnlink, start_tcp_client, register_state,
     sock, lwip
<1>19. CASE ReceiveNone \/ Copy \/ Drop \/ CountBuffer
  BY <1>2, <1>19 DEF ReceiveNone, Copy, Drop, CountBuffer, sock, lwip
<1>20. ASSUME NEW i \in Ids \cup {NoId}, NEW len \in Lengths, machikania_tcp_write(i, len)
       PROVE  Sent'
  BY <1>20, SentWrite
<1>21. ASSUME NEW b \in BOOLEAN, SendPart(b) PROVE Sent'
  BY <1>21, SentPart
<1>22. ASSUME NEW k \in Conns, NEW n \in 0 .. Len(g_header_lines), tcp_client_connected(k, n)
       PROVE  Sent'
  BY <1>22, SentConnected
<1> QED
  BY <1>5, <1>6, <1>7, <1>8, <1>9, <1>10, <1>11, <1>12, <1>13, <1>14, <1>15, <1>16, <1>17,
     <1>18, <1>19, <1>20, <1>21, <1>22
  DEF Next, Callbacks, Starts, Continues

LEMMA InitSent ==
  ASSUME Init
  PROVE  Sent
<1>1. \A k \in Conns : SameUpToParts(wire[k], SoFar(k))
  BY DEF Init, SoFar, SameUpToParts
<1> QED BY <1>1 DEF Init, Sent

\* Each connection carries of every message as many bytes as TCPSEND says, in order and apart from
\* those of other messages, with the first part right, whether the message fits in one part or not
\* and whatever is refused in between; the message kept before the connection was made included.
THEOREM SendsHold ==
  ASSUME Allow = {}, MaxConns <= IDS
  PROVE  Spec => []SendsMessages
<1>1. Plain
  BY DEF Plain
<1>2. Init => SInv
  BY InitRInv, InitSent DEF SInv
<1>3. SInv /\ [Next]_vars => SInv'
  BY <1>1, NextRInv, SentStep DEF SInv
<1>4. SInv => SendsMessages
  BY DEF SInv, Sent, SendsMessages, SoFar
<1> QED BY <1>2, <1>3, <1>4, PTL DEF Spec
=============================================================================
