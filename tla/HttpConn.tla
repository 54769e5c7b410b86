------------------------------- MODULE HttpConn --------------------------------
(***************************************************************************)
(* The connection threads of smrenderd (handle_http() in                   *)
(* smrenderd/smhttp.c, built WITH_THREADS).  They accept connections from  *)
(* one server socket and share the table of file descriptors: a number     *)
(* that one of them has closed is given to the next connection.            *)
(*                                                                         *)
(* A connection carries one request, as lines that arrive one by one.  The *)
(* client may close its end at any time.  What replies contain is left to  *)
(* the other models; a reply is the status that is sent.  Websocket        *)
(* sessions are TraverseCom, map queries QueryCache.                       *)
(***************************************************************************)
EXTENDS Naturals, Sequences, FiniteSets, SequencesExt

CONSTANTS
  Thread,      \* the threads of httpd_init()
  NFd,         \* number of file descriptors for connections
  Requests     \* Requests[c]: the lines that connection c sends

Conn == 1 .. Len(Requests)
Fd   == 1 .. NFd
None == 0

\* Request lines: method, version, and what http_proc_get() finds for the URI.
Line == [m : {"GET", "other", "bad"}, v : {9, 10, 11}, uri : {"found", "absent", "error", "ws", "wsbad", "wsfail"}]
\* The rest of a request are header lines, "upgrade", "connection" and "header",
\* and "empty".

VARIABLES
  backlog,   \* connections that wait for accept()
  sent,      \* sent[c]: number of lines the client has sent
  eof,       \* connections whose client has closed its end
  in,        \* in[c]: lines that nobody has read
  nonblock,  \* connections with O_NONBLOCK set
  reply,     \* reply[c]: statuses sent on c
  table,     \* table[f]: the connection behind a file descriptor
  pc,        \* pc[t]: where a thread is
  fd, conn,  \*   the descriptor it uses, and the connection it has accepted
  req, hdrs, \*   the request line and the upgrade headers it has read
  exited     \* the server has exited

thread == <<pc, fd, conn, req, hdrs>>
client == <<backlog, sent, eof>>
vars   == <<client, in, nonblock, reply, table, thread, exited>>

NoLine == [m |-> "bad", v |-> 9, uri |-> "absent"]

\* httpd_init()
Init ==
  /\ backlog = <<>> /\ eof = {} /\ nonblock = {}
  /\ sent = [c \in Conn |-> 0] /\ in = [c \in Conn |-> <<>>] /\ reply = in
  /\ table = [f \in Fd |-> None]
  /\ pc = [t \in Thread |-> "accept"] /\ fd = [t \in Thread |-> None] /\ conn = fd
  /\ req = [t \in Thread |-> NoLine] /\ hdrs = [t \in Thread |-> {}]
  /\ exited = FALSE

-----------------------------------------------------------------------------
(* Clients *)

Connected == {c \in Conn : sent[c] > 0}

Connect ==
  /\ \E c \in Conn \ Connected :
       /\ \A d \in Conn : d < c => d \in Connected
       /\ backlog' = Append(backlog, c)
       /\ sent' = [sent EXCEPT ![c] = 1]
       /\ in' = [in EXCEPT ![c] = <<Requests[c][1]>>]
  /\ UNCHANGED <<eof, nonblock, reply, table, thread, exited>>

SendLine(c) ==
  /\ sent[c] \in 1 .. Len(Requests[c]) - 1 /\ c \notin eof
  /\ sent' = [sent EXCEPT ![c] = @ + 1]
  /\ in' = [in EXCEPT ![c] = Append(@, Requests[c][sent'[c]])]
  /\ UNCHANGED <<backlog, eof, nonblock, reply, table, thread, exited>>

\* A client leaves in the middle of its request, or when it has the reply.
Hangup(c) ==
  /\ sent[c] > 0 /\ c \notin eof
  /\ eof' = eof \cup {c}
  /\ UNCHANGED <<backlog, sent, in, nonblock, reply, table, thread, exited>>

-----------------------------------------------------------------------------
(* Threads *)

Goto(t, l) == pc' = [pc EXCEPT ![t] = l]

\* The connection behind the number the thread uses, if there is one.
Behind(t) == table[fd[t]]

\* accept() takes the lowest free number; if there is none the program exits.
Accept(t) ==
  /\ pc[t] = "accept" /\ backlog # <<>>
  /\ LET free == {f \in Fd : table[f] = None}
     IN IF free = {} THEN exited' = TRUE /\ UNCHANGED <<backlog, table, thread>>
        ELSE \E f \in free :
               /\ \A g \in free : f <= g
               /\ table' = [table EXCEPT ![f] = Head(backlog)]
               /\ fd' = [fd EXCEPT ![t] = f] /\ conn' = [conn EXCEPT ![t] = Head(backlog)]
               /\ hdrs' = [hdrs EXCEPT ![t] = {}]
               /\ backlog' = Tail(backlog)
               /\ Goto(t, "line") /\ UNCHANGED <<req, exited>>
  /\ UNCHANGED <<sent, eof, in, nonblock, reply>>

Answer(t, n) == reply' = IF Behind(t) = None THEN reply ELSE [reply EXCEPT ![Behind(t)] = Append(@, n)]

\* eclose(): the program exits if the descriptor is not open.
Eclose(t) ==
  IF Behind(t) = None THEN exited' = TRUE /\ UNCHANGED table
  ELSE table' = [table EXCEPT ![fd[t]] = None] /\ UNCHANGED exited

\* The connection is closed with a status, or without one after a read error.
Refuse(t, n) == Answer(t, n) /\ Eclose(t) /\ Goto(t, "accept")
Drop(t)      == Eclose(t) /\ Goto(t, "accept") /\ UNCHANGED reply

\* read_line() on the descriptor: a line, the end, or an error; it waits for them
\* unless the connection is non-blocking (or the number is not open).
Fails(t) ==
  IF Behind(t) = None THEN TRUE
  ELSE in[Behind(t)] = <<>> /\ Behind(t) \notin eof /\ Behind(t) \in nonblock
Ended(t) == Behind(t) # None /\ in[Behind(t)] = <<>> /\ Behind(t) \in eof
HasLine(t) == Behind(t) # None /\ in[Behind(t)] # <<>>
Take(t) == in' = [in EXCEPT ![Behind(t)] = Tail(@)]

\* The request line
ReadRequest(t) ==
  /\ pc[t] = "line"
  /\ \/ /\ Fails(t)
        /\ Drop(t) /\ UNCHANGED <<in, req>>
     \/ /\ Ended(t)
        /\ Refuse(t, 400) /\ UNCHANGED <<in, req>>
     \/ /\ HasLine(t) /\ Take(t)
        /\ LET l == Head(in[Behind(t)])
           IN IF l \notin Line \/ l.m = "bad"
                THEN Refuse(t, 400) /\ UNCHANGED req
                ELSE /\ req' = [req EXCEPT ![t] = l]
                     /\ Goto(t, IF l.m = "GET" THEN "headers" ELSE "flush")
                     /\ UNCHANGED <<table, reply, exited>>
  /\ UNCHANGED <<client, nonblock, fd, conn, hdrs>>

\* The header lines up to the empty one, which HTTP/0.9 does not have but needs.
ReadHeader(t) ==
  /\ pc[t] = "headers"
  /\ \/ /\ Fails(t) \/ Ended(t)
        /\ Refuse(t, 400) /\ UNCHANGED <<in, hdrs>>
     \/ /\ HasLine(t) /\ Take(t)
        /\ LET l == Head(in[Behind(t)])
           IN IF l = "empty"
                THEN Goto(t, "proc") /\ UNCHANGED <<table, reply, exited, hdrs>>
                ELSE IF req[t].v = 9 THEN Refuse(t, 400) /\ UNCHANGED hdrs
                ELSE /\ hdrs' = [hdrs EXCEPT ![t] = @ \cup {l}]
                     /\ UNCHANGED <<pc, table, reply, exited>>
  /\ UNCHANGED <<client, nonblock, fd, conn, req>>

Upgrade(t) == {"upgrade", "connection"} \subseteq hdrs[t] /\ req[t].uri \in {"ws", "wsbad", "wsfail"}

\* http_proc_get(): on success the reply is written with a FILE that is closed.
Get(t) ==
  /\ pc[t] = "proc" /\ ~Upgrade(t)
  /\ IF req[t].uri = "found"
       THEN /\ Answer(t, 200)
            /\ table' = [table EXCEPT ![fd[t]] = None]
       ELSE UNCHANGED <<reply, table>>
  /\ Goto(t, "flush")
  /\ UNCHANGED <<client, in, nonblock, fd, conn, req, hdrs, exited>>

\* http_flush_input_headers(): set_nonblock() and read(), by the number only.
SetNonblock(t) ==
  /\ pc[t] = "flush"
  /\ nonblock' = nonblock \cup ({Behind(t)} \ {None})
  /\ Goto(t, "flush2")
  /\ UNCHANGED <<client, in, reply, table, fd, conn, req, hdrs, exited>>

FlushRead(t) ==
  /\ pc[t] = "flush2"
  /\ Fails(t) \/ Ended(t) \/ HasLine(t)
  /\ in' = IF HasLine(t) THEN [in EXCEPT ![Behind(t)] = <<>>] ELSE in
  /\ Goto(t, "finish")
  /\ UNCHANGED <<client, nonblock, reply, table, fd, conn, req, hdrs, exited>>

\* Failed requests, and methods other than GET, get their status now.
Finish(t) ==
  /\ pc[t] = "finish"
  /\ IF req[t].m = "GET" /\ req[t].uri = "found"
       THEN Goto(t, "accept") /\ UNCHANGED <<reply, table, exited>>
       ELSE Refuse(t, CASE req[t].m # "GET" -> 501
                        [] req[t].m = "GET" /\ req[t].uri = "error" -> 500
                        [] OTHER -> 404)
  /\ UNCHANGED <<client, in, nonblock, fd, conn, req, hdrs>>

\* http_init_ws(): a failure has a status but leaves the connection open.
InitWs(t) ==
  /\ pc[t] = "proc" /\ Upgrade(t)
  /\ IF req[t].v # 11 THEN Refuse(t, 400)
     ELSE /\ Answer(t, CASE req[t].uri = "ws" -> 101 [] req[t].uri = "wsbad" -> 404 [] OTHER -> 500)
          /\ Goto(t, IF req[t].uri = "ws" THEN "session" ELSE "accept")
          /\ UNCHANGED <<table, exited>>
  /\ UNCHANGED <<client, in, nonblock, fd, conn, req, hdrs>>

\* http_ws_com() ends with an error, or with the client, which leaves the
\* connection open.
EndWs(t) ==
  /\ pc[t] = "session"
  /\ \/ Drop(t)
     \/ Goto(t, "accept") /\ UNCHANGED <<reply, table, exited>>
  /\ UNCHANGED <<client, in, nonblock, fd, conn, req, hdrs>>

HandleHttp(t) ==
  Accept(t) \/ ReadRequest(t) \/ ReadHeader(t) \/ Get(t) \/ SetNonblock(t) \/ FlushRead(t)
  \/ Finish(t) \/ InitWs(t) \/ EndWs(t)

Next ==
  /\ ~exited
  /\ \/ Connect
     \/ \E c \in Conn : SendLine(c) \/ Hangup(c)
     \/ \E t \in Thread : HandleHttp(t)

Spec == Init /\ [][Next]_vars

-----------------------------------------------------------------------------
(* Properties *)

\* A thread that has accepted a connection uses the descriptor for nothing else:
\* behind it is this connection, or nothing once it was closed ("http_proc_get()
\* closes fd in case of success", handle_http()).
OwnFd == \A t \in Thread : pc[t] # "accept" => Behind(t) \in {conn[t], None}

\* A connection is not closed without a status while its client waits for one.
Served == \A c \in Conn : sent[c] = Len(Requests[c]) /\ c \notin eof /\ reply[c] = <<>> =>
            \/ c \in ToSet(backlog)
            \/ \E f \in Fd : table[f] = c

\* The server stays up (eclose(), accept()).
StaysUp == ~exited
================================================================================
