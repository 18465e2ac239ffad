------------------------------ MODULE Reactor -------------------------------
(***************************************************************************)
(* One reactor of src/src/reactor.c from reactor_create to reactor_destroy: *)
(* the edge-triggered epoll loop, its connections and their descriptors,   *)
(* and around it the kernel and the clients.                               *)
(*                                                                         *)
(* The loop takes one system call per step, so that bytes, FINs and RSTs   *)
(* arrive between any two of them.  Bytes are abstracted: a client's       *)
(* stream is a sequence of tokens, "part" for bytes that complete nothing  *)
(* and one token per way a request can end (see Tokens); a response head   *)
(* is HeadLen units and a file FileLen units long.                         *)
(***************************************************************************)
EXTENDS Integers, Sequences, FiniteSets, FiniteSetsExt

CONSTANTS
  Clients,       \* each makes one connection
  Streams,       \* what a client may send: sequences of tokens
  MaxFd,         \* descriptors are 0 .. MaxFd (RLIMIT_NOFILE)
  CONN_MAX, BUFFER_SIZE, MAX_EVENTS,
  HeadLen, FileLen,
  NoConn,        \* NULL in r->conns
  SNDBUF,        \* units the send buffer of a socket holds
  Faults         \* what may go wrong, see FaultKinds

\* A call of reactor_create or reactor_run fails; there is no memory; read(),
\* write(), sendfile() or accept() fails for no reason of the client's (EIO, and
\* EINTR of accept(), which the others try again); the file is truncated.
FaultKinds == {"create", "run", "oom", "io", "truncate"}

\* How a request ends, as the parser and respond_file tell them apart: a GET of
\* a file, of an empty file, a HEAD, anything answered without a file (404,
\* 403, 405), a GET that ends the connection, and a malformed request.
Tokens == {"part", "get", "empty", "head", "miss", "bye", "bad"}

ASSUME ReactorBounds ==
  /\ Streams \subseteq Seq(Tokens)
  /\ MaxFd \in Nat /\ CONN_MAX \in Nat
  /\ BUFFER_SIZE \in Nat \ {0} /\ MAX_EVENTS \in Nat \ {0} /\ SNDBUF \in Nat \ {0}
  /\ HeadLen \in Nat \ {0} /\ FileLen \in Nat
  /\ Faults \subseteq FaultKinds

Fds == 0 .. MaxFd
Free == <<"free">>
Other == <<"other">>
listen_fd == MaxFd + 1
wakeup_fd == MaxFd + 2

VARIABLES
  pc,            \* where the thread of the reactor is
  held,          \* what reactor_create has acquired
  polled,        \* which of listen_fd and wakeup_fd epoll watches
  fds,           \* the descriptor table: Free, Other (not the reactor's),
                 \* <<"sock", c>> or <<"file", c>>: a file opened to answer c
  conns,         \* r->conns
  active_conns,  \* r->active_conns
  batch,         \* the events of this epoll_wait not yet handled
  cur, evs,      \* the descriptor being handled and what is left of its events
  stop, wakeup,  \* r->stop; the wakeup eventfd was written
  interest,      \* what epoll watches a client's socket for, {} if nothing
  edge,          \* the sockets on epoll's ready list
  backlog,       \* the clients in the listen queue
  stream, sent, rcvd,   \* what a client sends, how much it has sent, and how
                        \* much of it the server has read
  peer,          \* the client's end: "none", "open", "fin", "reset", "broken"
  out, got,      \* what was written to a client's socket, how much it consumed
  answered,      \* the responses built for a client, see Response
  filelen,       \* the length of the file now
  stray,         \* a descriptor was closed that was not the connection's own
  failed         \* the clients that lost an answer, a registration with epoll or
                 \* their connection to a failed call

epoll == <<interest, edge>>
client == <<stream, sent, peer, got>>
net == <<backlog, rcvd, out>>
event == <<batch, cur, evs>>
table == <<fds, active_conns, stray>>
log == <<answered, failed>>
control == <<held, polled, stop, wakeup, filelen>>
quiet == <<control, client>>
thread == <<pc, conns, event, table, log>>
vars == <<thread, epoll, net, quiet>>

Init ==
  /\ pc = "create" /\ held = {} /\ polled = {} /\ active_conns = 0
  /\ fds = [f \in Fds |-> IF f = 0 THEN Other ELSE Free]
  /\ conns = [f \in Fds |-> NoConn]
  /\ batch = {} /\ cur = 0 /\ evs = {} /\ stop = FALSE /\ wakeup = FALSE
  /\ interest = [c \in Clients |-> {}] /\ edge = {}
  /\ backlog = <<>>
  /\ stream \in [Clients -> Streams]
  /\ sent = [c \in Clients |-> 0] /\ rcvd = [c \in Clients |-> 0]
  /\ peer = [c \in Clients |-> "none"]
  /\ out = [c \in Clients |-> <<>>] /\ got = [c \in Clients |-> 0]
  /\ answered = [c \in Clients |-> <<>>]
  /\ filelen = FileLen
  /\ stray = FALSE /\ failed = {}

-----------------------------------------------------------------------------
(* Sockets and epoll.                                                      *)

Space(c) == SNDBUF - (Len(out[c]) - got[c])

\* What poll says of a client's socket.
Poll(c) ==
  (IF rcvd[c] < sent[c] \/ peer[c] # "open" THEN {"IN"} ELSE {})
    \cup (IF Space(c) > 0 THEN {"OUT"} ELSE {})
    \cup (IF peer[c] \in {"reset", "broken"} THEN {"ERR"} ELSE {})

Watched(c) == IF interest[c] = {} THEN {} ELSE interest[c] \cup {"ERR"}

FdOf(c) == CHOOSE f \in Fds : fds[f] = <<"sock", c>>
Connected(c) == \E f \in Fds : fds[f] = <<"sock", c>>
SockAt(f) == IF f \in Fds /\ \E c \in Clients : fds[f] = <<"sock", c>>
             THEN {fds[f][2]} ELSE {}

\* Registering interest puts a socket that is ready on the ready list.
Watch(c, events) ==
  /\ interest' = [interest EXCEPT ![c] = events]
  /\ edge' = IF Poll(c) \cap (events \cup {"ERR"}) # {} THEN edge \cup {c} ELSE edge

\* Mutants: the interest is not changed, or added to instead of replaced.
mod_events_Missing(f, events) == UNCHANGED epoll
mod_events_Adds(f, events) ==
  IF SockAt(f) = {} THEN UNCHANGED epoll
  ELSE \A c \in SockAt(f) : Watch(c, interest[c] \cup events)

mod_events(f, events) ==
  IF SockAt(f) = {} THEN UNCHANGED epoll
  ELSE \A c \in SockAt(f) : Watch(c, events)

\* The kernel's side of close(): the numbers are free again, and a socket
\* among them leaves epoll.
CloseFds(S) ==
  /\ fds' = [f \in Fds |-> IF f \in S THEN Free ELSE fds[f]]
  /\ interest' = [c \in Clients |-> IF Connected(c) /\ FdOf(c) \in S THEN {} ELSE interest[c]]
  /\ edge' = {c \in edge : ~(Connected(c) /\ FdOf(c) \in S)}

-----------------------------------------------------------------------------
(* The clients.                                                            *)

Alive(c) == peer[c] # "none" /\ (Connected(c) \/ \E n \in DOMAIN backlog : backlog[n] = c)

\* An event of kind e on the socket of c: on the ready list if watched for.
Notify(c, e) == edge' = IF e \in Watched(c) THEN edge \cup {c} ELSE edge

Connect(c) ==
  /\ peer[c] = "none" /\ pc \notin {"create", "null", "destroyed", "killed"}
  /\ peer' = [peer EXCEPT ![c] = "open"]
  /\ backlog' = Append(backlog, c)
  /\ UNCHANGED <<thread, control, epoll, stream, sent, got, rcvd, out>>

Send(c) ==
  /\ peer[c] = "open" /\ Alive(c) /\ sent[c] < Len(stream[c])
  /\ sent' = [sent EXCEPT ![c] = @ + 1]
  /\ Notify(c, "IN")
  /\ UNCHANGED <<thread, control, net, interest, stream, peer, got>>

\* The client closes its end, or aborts (an RST, which makes the next write
\* fail); or its host answers output that comes after the FIN with an RST, which
\* makes the next write raise SIGPIPE ("broken").
HangUp(c) ==
  /\ Alive(c)
  /\ \/ peer[c] = "open" /\ peer' = [peer EXCEPT ![c] = "fin"] /\ Notify(c, "IN")
     \/ peer[c] = "open" /\ peer' = [peer EXCEPT ![c] = "reset"] /\ Notify(c, "ERR")
     \/ peer[c] = "fin" /\ out[c] # <<>> /\ peer' = [peer EXCEPT ![c] = "broken"] /\ Notify(c, "ERR")
  /\ UNCHANGED <<thread, control, net, interest, stream, sent, got>>

\* The client consumes a unit; room in a full send buffer is an event.
Consume(c) ==
  /\ Alive(c) /\ got[c] < Len(out[c])
  /\ got' = [got EXCEPT ![c] = @ + 1]
  /\ IF Space(c) = 0 THEN Notify(c, "OUT") ELSE UNCHANGED edge
  /\ UNCHANGED <<thread, control, net, interest, stream, sent, peer>>

Truncate ==
  /\ "truncate" \in Faults /\ filelen > 0
  /\ filelen' = filelen - 1
  /\ UNCHANGED <<thread, net, epoll, client, held, polled, stop, wakeup>>

-----------------------------------------------------------------------------
(* reactor_create.                                                         *)

Resources == <<"r", "conns", "doc_root", "epfd", "wakeup_fd", "listen_fd">>
AcquiredBy(n) == {Resources[i] : i \in 1 .. n}   \* after n of them

\* Mutant: a failed bind keeps the listening socket.
BindFrees_KeepsSocket == {"epfd", "wakeup_fd", "doc_root", "conns", "r"}
BindFrees == {"listen_fd", "epfd", "wakeup_fd", "doc_root", "conns", "r"}

\* What each error path gives back: the first when calloc of the reactor
\* fails, the last when bind or listen does.
Frees == << {}, {"r"}, {"conns", "r"}, {"doc_root", "conns", "r"},
            {"epfd", "doc_root", "conns", "r"},
            {"epfd", "wakeup_fd", "doc_root", "conns", "r"}, BindFrees >>

\* epoll_ctl() of a descriptor of the reactor's own: whether it succeeds is not
\* looked at.
Adds(fd) == polled' = polled \cup {fd} \/ ("create" \in Faults /\ UNCHANGED polled)

ReactorCreate ==
  /\ pc = "create"
  /\ \E n \in 0 .. Len(Resources) :
       /\ held = AcquiredBy(n)
       /\ \/ /\ n < Len(Resources) /\ held' = AcquiredBy(n + 1) /\ UNCHANGED pc
             /\ IF Resources[n + 1] = "wakeup_fd" THEN Adds(wakeup_fd) ELSE UNCHANGED polled
          \/ n = Len(Resources) /\ pc' = "created" /\ Adds(listen_fd) /\ UNCHANGED held
          \/ "create" \in Faults /\ held' = held \ Frees[n + 1] /\ pc' = "null" /\ polled' = {}
  /\ UNCHANGED <<table, event, net, log, epoll, client, conns, stop, wakeup, filelen>>

-----------------------------------------------------------------------------
(* reactor_run: epoll_wait and the loop over its events.                   *)

\* What epoll_wait has to report: a socket on the ready list that is still
\* ready, once; the listening socket and the eventfd for as long as they are.
Reportable ==
  {<<FdOf(c), Poll(c) \cap Watched(c)>> : c \in {d \in edge : Poll(d) \cap Watched(d) # {}}}
    \cup (IF backlog # <<>> /\ listen_fd \in polled THEN {<<listen_fd, {"IN"}>>} ELSE {})
    \cup (IF wakeup /\ wakeup_fd \in polled THEN {<<wakeup_fd, {"IN"}>>} ELSE {})

EpollWait ==
  /\ pc = "wait" /\ Reportable # {}
  /\ \E events \in SUBSET Reportable :
        /\ Cardinality(events) = Min({MAX_EVENTS, Cardinality(Reportable)})
        /\ batch' = events
        /\ edge' = {c \in edge : ~\E e \in events : e[1] = FdOf(c)}
  /\ pc' = "dispatch"
  /\ UNCHANGED <<quiet, table, net, log, conns, cur, evs, interest>>

Run ==
  /\ pc = "created" /\ pc' = "wait"
  /\ UNCHANGED <<quiet, table, event, net, log, epoll, conns>>

\* No memory for the events, or epoll_wait fails: reactor_run returns.
RunFails ==
  /\ pc \in {"created", "wait"} /\ "run" \in Faults
  /\ pc' = "exited"
  /\ UNCHANGED <<quiet, table, event, net, log, epoll, conns>>

BatchDone ==
  /\ pc = "dispatch" /\ batch = {}
  /\ pc' = IF stop THEN "exited" ELSE "wait"
  /\ UNCHANGED <<quiet, table, event, net, log, epoll, conns>>

\* Mutant: the wakeup ends the batch and not the loop.
StopSet_Ignored == UNCHANGED stop
StopSet == stop' = TRUE

\* The rest of the batch is dropped.
HandleWakeup ==
  /\ pc = "dispatch" /\ \E e \in batch : e[1] = wakeup_fd
  /\ StopSet /\ batch' = {}
  /\ UNCHANGED <<table, net, log, epoll, client, pc, conns, cur, evs, held, polled, wakeup, filelen>>

\* Mutant: a file that was being sent stays open.
OwnFds_SocketOnly(f) == {f}

OwnFds(f) == {f, conns[f].file_fd}

conn_close(f) ==
  LET c == conns[f] IN
  /\ CloseFds(OwnFds(f))
  /\ stray' = (stray \/ (c.file_fd >= 0 /\ fds[c.file_fd] # <<"file", c.client>>))
  /\ conns' = [conns EXCEPT ![f] = NoConn]
  /\ active_conns' = active_conns - 1

HandleListen ==
  /\ pc = "dispatch"
  /\ \E e \in batch : e[1] = listen_fd /\ batch' = batch \ {e}
  /\ pc' = "accept"
  /\ UNCHANGED <<quiet, table, net, log, epoll, conns, cur, evs>>

\* An event of a connection: an error closes it, otherwise it is read from or
\* written to.  A descriptor without a connection is passed over.
HandleConn ==
  /\ pc = "dispatch"
  /\ \E e \in batch :
        /\ e[1] \in Fds
        /\ batch' = batch \ {e}
        /\ IF conns[e[1]] = NoConn \/ "ERR" \in e[2]
           THEN /\ IF conns[e[1]] = NoConn
                   THEN UNCHANGED <<table, epoll, conns>>
                   ELSE conn_close(e[1])
                /\ UNCHANGED <<pc, cur, evs>>
           ELSE /\ cur' = e[1]
                /\ pc' = IF "IN" \in e[2] THEN "read" ELSE "write"
                /\ evs' = IF "IN" \in e[2] THEN e[2] \ {"IN"} ELSE {}
                /\ UNCHANGED <<table, epoll, conns>>
  /\ UNCHANGED <<quiet, net, log>>

\* The handler of cur returns to the loop, which writes next if the event it
\* read for was EPOLLOUT as well.
Return ==
  /\ pc' = IF "OUT" \in evs THEN "write" ELSE "dispatch"
  /\ evs' = {}

\* The handler of cur has closed its connection.
CloseCur == conn_close(cur) /\ pc' = "dispatch" /\ evs' = {}

\* It does so because a call failed: after a reason of the client's it is no loss.
FailsFor(reason) ==
  \/ reason /\ UNCHANGED failed
  \/ "io" \in Faults /\ failed' = failed \cup {conns[cur].client}

-----------------------------------------------------------------------------
(* reactor_accept.                                                         *)

FreeFds == {f \in Fds : fds[f] = Free}

\* calloc'd, then fd and state are set.
NewConn(c) ==
  [client |-> c, state |-> "ST_READING", keep_alive |-> FALSE, inbuf |-> <<>>,
   in_head |-> 0, phase |-> "RSP_HEAD", head |-> <<>>, head_off |-> 0,
   file_fd |-> 0, file_off |-> 0, file_len |-> 0]

\* accept() gives a connection; it is dropped when its number is too high or
\* there is no memory for it.
Accept ==
  /\ pc = "accept" /\ backlog # <<>> /\ FreeFds # {}
  /\ LET c == Head(backlog)
         f == Min(FreeFds)
     IN \/ /\ f < CONN_MAX
           /\ fds' = [fds EXCEPT ![f] = <<"sock", c>>]
           /\ conns' = [conns EXCEPT ![f] = NewConn(c)]
           /\ active_conns' = active_conns + 1
           /\ \/ Watch(c, {"IN"}) /\ UNCHANGED failed
              \/ "oom" \in Faults /\ failed' = failed \cup {c} /\ UNCHANGED epoll
        \/ /\ f >= CONN_MAX \/ "oom" \in Faults
           /\ UNCHANGED <<epoll, fds, conns, active_conns, failed>>
  /\ backlog' = Tail(backlog)
  /\ UNCHANGED <<quiet, event, pc, answered, stray, rcvd, out>>

\* accept() fails: nobody waits, no descriptor is free, or a connection was
\* aborted or a signal came.  The listening socket stays ready for those left.
AcceptDone ==
  /\ pc = "accept" /\ (backlog = <<>> \/ FreeFds = {} \/ "io" \in Faults)
  /\ pc' = "dispatch"
  /\ UNCHANGED <<quiet, table, event, net, log, epoll, conns>>

-----------------------------------------------------------------------------
(* build_response and build_error_response.                                *)

Keeps(t) == t \notin {"bye", "bad"}

build_head(t, code) == [j \in 1 .. HeadLen |-> <<t, code, j>>]

\* The connections respond_simple may leave: without memory it sets nothing.
respond_simple(c, t, code) ==
  {[c EXCEPT !.head = build_head(t, code), !.head_off = 0, !.file_fd = -1,
             !.phase = "RSP_HEAD"]}
    \cup (IF "oom" \in Faults THEN {c} ELSE {})

\* The request at in_head, and its connection as build_response begins.
Request == conns[cur].inbuf[conns[cur].in_head]
Begun == [conns[cur] EXCEPT !.keep_alive = Keeps(Request), !.state = "ST_WRITING"]

\* The response in d: what its head says, how long its body is, where in the
\* stream of the client its request ends, and how much was written before it.
Response(d) ==
  [req |-> d.head[1][1], code |-> d.head[1][2],
   body |-> IF d.file_fd >= 0 THEN d.file_len ELSE 0,
   pos |-> rcvd[d.client] - Len(d.inbuf) + d.in_head, from |-> Len(out[d.client])]

\* cur is left as d, with the response in its head or without one.
Built(d) ==
  /\ conns' = [conns EXCEPT ![cur] = d]
  /\ answered' = IF d.head = <<>> THEN answered
                 ELSE [answered EXCEPT ![d.client] = Append(@, Response(d))]
  /\ failed' = IF d.head = <<>> THEN failed \cup {d.client} ELSE failed
  /\ pc' = "write"

BuildSimple ==
  /\ pc = "build" /\ Request \in {"miss", "bad"}
  /\ \E d \in respond_simple(Begun, Request, IF Request = "bad" THEN 400 ELSE 404) : Built(d)
  /\ UNCHANGED <<quiet, table, event, net, epoll>>

\* respond_file: the file is opened, and closed again for a HEAD.
BuildFile ==
  /\ pc = "build" /\ Request \in {"get", "empty", "bye", "head"} /\ FreeFds # {}
  /\ LET f == Min(FreeFds)
         d == [Begun EXCEPT !.head = build_head(Request, 200), !.head_off = 0,
                            !.phase = "RSP_HEAD"]
     IN IF Request = "head"
        THEN Built([d EXCEPT !.file_fd = -1]) /\ UNCHANGED fds
        ELSE /\ Built([d EXCEPT !.file_fd = f, !.file_off = 0,
                                !.file_len = IF Request = "empty" THEN 0 ELSE filelen])
             /\ fds' = [fds EXCEPT ![f] = <<"file", d.client>>]
  /\ UNCHANGED <<quiet, event, net, epoll, active_conns, stray>>

\* open() fails, or the head cannot be allocated.
BuildFileFails ==
  /\ pc = "build" /\ Request \in {"get", "empty", "bye", "head"}
  /\ FreeFds = {} \/ "oom" \in Faults
  /\ \E d \in respond_simple(Begun, Request, 500) : Built(d)
  /\ UNCHANGED <<quiet, table, event, net, epoll>>

-----------------------------------------------------------------------------
(* conn_read and conn_process_input.                                       *)

IsRequest(t) == t # "part"

\* Mutant: the byte that completed a request is looked at again.
NextRequest_Again(c) ==
  LET I == {i \in Max({c.in_head, 1}) .. Len(c.inbuf) : IsRequest(c.inbuf[i])}
  IN IF I = {} THEN 0 ELSE Min(I)

\* What conn_process_input finds in the unconsumed bytes: the place of the
\* first byte that completes a request or makes it malformed, or 0.
NextRequest(c) ==
  LET I == {i \in c.in_head + 1 .. Len(c.inbuf) : IsRequest(c.inbuf[i])}
  IN IF I = {} THEN 0 ELSE Min(I)

\* Mutant: in_tail is reset and in_head is not.
Compact_TailOnly(c) ==
  IF c.in_head = Len(c.inbuf) THEN [c EXCEPT !.inbuf = <<>>] ELSE c

Compact(c) ==
  IF c.in_head = Len(c.inbuf) THEN [c EXCEPT !.inbuf = <<>>, !.in_head = 0] ELSE c

\* read() gives bytes: as many as there are and the buffer has room for.
Read ==
  /\ pc = "read"
  /\ \E k \in SockAt(cur) :
       LET c == Compact(conns[cur])
           n == Min({sent[k] - rcvd[k], BUFFER_SIZE - Len(c.inbuf)})
           d == [c EXCEPT !.inbuf = @ \o SubSeq(stream[k], rcvd[k] + 1, rcvd[k] + n)]
           m == NextRequest(d)
       IN IF Len(c.inbuf) = BUFFER_SIZE
          THEN \* 413
            /\ \E x \in respond_simple([c EXCEPT !.keep_alive = FALSE, !.state = "ST_WRITING"],
                                       "part", 413) : Built(x)
            /\ UNCHANGED rcvd
          ELSE
            /\ rcvd[k] < sent[k]
            /\ rcvd' = [rcvd EXCEPT ![k] = @ + n]
            /\ conns' = [conns EXCEPT ![cur] =
                           [d EXCEPT !.in_head = IF m > 0 THEN m ELSE Len(d.inbuf)]]
            /\ pc' = IF m > 0 THEN "build" ELSE "read"
            /\ UNCHANGED log
  /\ UNCHANGED <<quiet, table, event, epoll, backlog, out>>

\* read() gives EAGAIN: the socket is drained.
ReadDrained ==
  /\ pc = "read"
  /\ \E k \in SockAt(cur) : rcvd[k] = sent[k] /\ peer[k] = "open"
  /\ conns' = [conns EXCEPT ![cur] = Compact(@)]
  /\ Return
  /\ UNCHANGED <<quiet, table, net, log, epoll, batch, cur>>

\* read() gives end of file or an error.
ReadEnd ==
  /\ pc = "read"
  /\ FailsFor(\A k \in SockAt(cur) : rcvd[k] = sent[k] /\ peer[k] # "open")
  /\ CloseCur
  /\ UNCHANGED <<quiet, net, answered, batch, cur>>

-----------------------------------------------------------------------------
(* conn_write.                                                             *)

Unsent(c) == \/ c.phase = "RSP_HEAD" /\ c.head_off < Len(c.head)
             \/ c.phase = "RSP_SENDFILE" /\ c.file_off < c.file_len

IsFile(f) == f \in Fds /\ \E c \in Clients : fds[f] = <<"file", c>>

\* sendfile() has bytes to send (write() always has).
HasBytes(c) == c.phase = "RSP_SENDFILE" => c.file_off < filelen

Writing == pc = "write" /\ Unsent(conns[cur])
Usable(c) == c.phase = "RSP_SENDFILE" => IsFile(c.file_fd)

\* write() or sendfile() takes as much as the send buffer has room for, or less.
Write ==
  /\ Writing /\ Usable(conns[cur]) /\ HasBytes(conns[cur])
  /\ \E k \in SockAt(cur) :
       LET c == conns[cur]
           head == c.phase = "RSP_HEAD"
           units == IF head THEN SubSeq(c.head, c.head_off + 1, Len(c.head))
                    ELSE [j \in 1 .. Min({c.file_len, filelen}) - c.file_off |->
                            <<"body", c.file_off + j>>]
       IN /\ peer[k] \in {"open", "fin"}
          /\ \E n \in 1 .. Min({Space(k), Len(units)}) :
               /\ out' = [out EXCEPT ![k] = @ \o SubSeq(units, 1, n)]
               /\ conns' = [conns EXCEPT ![cur] =
                              IF head THEN [c EXCEPT !.head_off = @ + n]
                              ELSE [c EXCEPT !.file_off = @ + n]]
  /\ UNCHANGED <<quiet, table, event, log, epoll, pc, backlog, rcvd>>

\* EAGAIN: wait for room.
WriteBlocked ==
  /\ Writing /\ Usable(conns[cur]) /\ HasBytes(conns[cur])
  /\ \E k \in SockAt(cur) : peer[k] \in {"open", "fin"} /\ Space(k) <= 0
  /\ mod_events(cur, {"OUT"})
  /\ Return
  /\ UNCHANGED <<quiet, table, net, log, conns, batch, cur>>

\* Any other error closes the connection.
WriteFails ==
  /\ Writing
  /\ FailsFor(\/ ~Usable(conns[cur])
              \/ HasBytes(conns[cur]) /\ \A k \in SockAt(cur) : peer[k] = "reset")
  /\ CloseCur
  /\ UNCHANGED <<quiet, net, answered, batch, cur>>

\* The write raises SIGPIPE, which nothing handles: the process is gone.
WriteKills ==
  /\ Writing /\ Usable(conns[cur]) /\ HasBytes(conns[cur])
  /\ \E k \in SockAt(cur) : peer[k] = "broken"
  /\ pc' = "killed"
  /\ UNCHANGED <<quiet, table, event, net, log, epoll, conns>>

\* sendfile() returns 0: the file is shorter than it was at stat.
SendNothing ==
  /\ Writing /\ Usable(conns[cur]) /\ ~HasBytes(conns[cur])
  /\ UNCHANGED vars

\* Mutant: the response is taken for complete when its head is out.
AfterHead_SkipsFile == "RSP_DONE"
AfterHead == IF conns[cur].file_fd >= 0 THEN "RSP_SENDFILE" ELSE "RSP_DONE"

\* The head is out: free it and go on to the file if there is one.
HeadDone ==
  /\ pc = "write" /\ conns[cur].phase = "RSP_HEAD" /\ ~Unsent(conns[cur])
  /\ conns' = [conns EXCEPT ![cur] = [@ EXCEPT !.head = <<>>, !.head_off = 0, !.phase = AfterHead]]
  /\ UNCHANGED <<quiet, table, event, net, log, epoll, pc>>

FileDone ==
  /\ pc = "write" /\ conns[cur].phase = "RSP_SENDFILE" /\ ~Unsent(conns[cur])
  /\ LET c == conns[cur] IN
     /\ CloseFds({c.file_fd})
     /\ stray' = (stray \/ fds[c.file_fd] # <<"file", c.client>>)
     /\ conns' = [conns EXCEPT ![cur] = [c EXCEPT !.file_fd = -1, !.phase = "RSP_DONE"]]
  /\ UNCHANGED <<quiet, event, net, log, pc, active_conns>>

\* The response is out: close, or reset for the next request, which may be in
\* the buffer already.
Finish ==
  /\ pc = "write" /\ conns[cur].phase = "RSP_DONE"
  /\ LET c == [conns[cur] EXCEPT !.state = "ST_READING"]
         m == NextRequest(c)
     IN IF ~c.keep_alive
        THEN CloseCur
        ELSE /\ IF m > 0
                THEN /\ conns' = [conns EXCEPT ![cur] =
                            [c EXCEPT !.in_head = m, !.phase = "RSP_HEAD", !.head_off = 0]]
                     /\ pc' = "build"
                     /\ UNCHANGED <<epoll, evs>>
                ELSE /\ conns' = [conns EXCEPT ![cur] = [c EXCEPT !.in_head = Len(c.inbuf)]]
                     /\ mod_events(cur, {"IN"})
                     /\ Return
             /\ UNCHANGED table
  /\ UNCHANGED <<quiet, net, log, batch, cur>>

-----------------------------------------------------------------------------
(* reactor_stop and reactor_destroy, called by the pool.                   *)

ReactorStop ==
  /\ pc \notin {"create", "null", "destroyed", "killed"}
  /\ wakeup' = TRUE
  /\ UNCHANGED <<thread, net, epoll, client, held, polled, stop, filelen>>

\* The thread of the reactor was joined, or could not be created.
ReactorDestroy ==
  /\ pc = "created" \/ (pc = "exited" /\ wakeup)
  /\ LET open == {f \in Fds : conns[f] # NoConn} IN
     /\ CloseFds(UNION {OwnFds(f) : f \in open})
     /\ stray' = (stray \/ \E f \in open : conns[f].file_fd >= 0
                              /\ fds[conns[f].file_fd] # <<"file", conns[f].client>>)
  /\ conns' = [f \in Fds |-> NoConn]
  /\ held' = {} /\ polled' = {} /\ backlog' = <<>>
  /\ pc' = "destroyed"
  /\ UNCHANGED <<event, log, client, active_conns, stop, wakeup, rcvd, out, filelen>>

-----------------------------------------------------------------------------

Loop ==
  \/ ReactorCreate \/ Run \/ RunFails
  \/ EpollWait \/ BatchDone \/ HandleWakeup \/ HandleListen \/ HandleConn
  \/ Accept \/ AcceptDone
  \/ Read \/ ReadDrained \/ ReadEnd
  \/ BuildSimple \/ BuildFile \/ BuildFileFails
  \/ Write \/ WriteBlocked \/ WriteFails \/ WriteKills \/ SendNothing
  \/ HeadDone \/ FileDone \/ Finish

Client(c) == Connect(c) \/ Send(c) \/ HangUp(c) \/ Consume(c)

Terminated == pc \in {"null", "destroyed", "killed"} /\ UNCHANGED vars

Next ==
  \/ Loop \/ ReactorStop \/ ReactorDestroy \/ Truncate
  \/ \E c \in Clients : Client(c)
  \/ Terminated

Spec == Init /\ [][Next]_vars

\* The thread of the reactor runs, and a client that has output to consume does.
FairSpec == Spec /\ WF_vars(Loop) /\ \A c \in Clients : WF_vars(Consume(c))

-----------------------------------------------------------------------------
(* Properties.                                                             *)

Unit == (Tokens \X Nat \X Nat) \cup ({"body"} \X Nat)
States == {"ST_READING", "ST_WRITING"}
Phases == {"RSP_HEAD", "RSP_SENDFILE", "RSP_DONE"}
Heads == Seq(Tokens \X Nat \X Nat)
Conn ==
  [client : Clients, state : States, keep_alive : BOOLEAN, inbuf : Seq(Tokens),
   in_head : Nat, phase : Phases, head : Heads, head_off : Nat, file_fd : Fds \cup {-1},
   file_off : Nat, file_len : Nat]
Answer == [req : Tokens, code : Nat, body : Nat, pos : Int, from : Nat]

\* r->conns tells NULL from a connection.
ASSUME NoConnIsNull == NoConn \notin Conn

Open == {f \in Fds : conns[f] # NoConn}

\* Every offset of a connection is within its buffer, head or file.
Within(c) ==
  /\ c.in_head <= Len(c.inbuf) /\ Len(c.inbuf) <= BUFFER_SIZE
  /\ c.head_off <= Len(c.head) /\ c.file_off <= c.file_len

PcOK == pc \in {"create", "null", "created", "wait", "dispatch", "accept", "read", "build",
                "write", "exited", "destroyed", "killed"}
TableOK ==
  /\ fds \in [Fds -> {Free, Other} \cup ({"sock", "file"} \X Clients)]
  /\ active_conns \in Int /\ stray \in BOOLEAN
ConnsOK == conns \in [Fds -> Conn \cup {NoConn}] /\ \A f \in Open : Within(conns[f])
EventOK ==
  /\ batch \subseteq (Fds \cup {listen_fd, wakeup_fd}) \X SUBSET {"IN", "OUT", "ERR"}
  /\ cur \in Fds /\ evs \subseteq {"IN", "OUT", "ERR"}
EpollOK == interest \in [Clients -> SUBSET {"IN", "OUT"}] /\ edge \subseteq Clients
QueueOK ==
  /\ backlog \in Seq(Clients)
  /\ peer \in [Clients -> {"none", "open", "fin", "reset", "broken"}]
StreamOK ==
  /\ stream \in [Clients -> Streams] /\ out \in [Clients -> Seq(Unit)]
  /\ sent \in [Clients -> Nat] /\ rcvd \in [Clients -> Nat] /\ got \in [Clients -> Nat]
  /\ \A c \in Clients : /\ rcvd[c] <= sent[c] /\ sent[c] <= Len(stream[c])
                        /\ got[c] <= Len(out[c]) /\ Space(c) \in 0 .. SNDBUF
LogOK == answered \in [Clients -> Seq(Answer)] /\ failed \subseteq Clients
ControlOK ==
  /\ held \subseteq Range(Resources) /\ polled \subseteq {listen_fd, wakeup_fd}
  /\ stop \in BOOLEAN /\ wakeup \in BOOLEAN /\ filelen \in 0 .. FileLen

\* Types, offsets, and the socket buffers of every client within their bounds.
TypeOK ==
  /\ PcOK /\ TableOK /\ ConnsOK /\ EventOK /\ EpollOK /\ QueueOK /\ StreamOK /\ LogOK
  /\ ControlOK

\* Of a sequence of responses: where the request of the n-th ends in the stream,
\* and how much is written when it is out; 0 before the first.
PosOf(a, n) == IF n = 0 THEN 0 ELSE a[n].pos
EndOf(a, n) == IF n = 0 THEN 0 ELSE a[n].from + HeadLen + a[n].body

\* The j-th unit of a response.
UnitOf(a, j) == IF j <= HeadLen THEN <<a.req, a.code, j>> ELSE <<"body", j - HeadLen>>

NoRequest(c, p, q) == \A x \in p + 1 .. q : ~IsRequest(stream[c][x])

\* The n-th of the responses a to c answers the first request behind the one
\* answered before it, and is the last if that request ends the connection.
AnswersNext(c, a, n) ==
  /\ PosOf(a, n - 1) < a[n].pos /\ a[n].pos <= rcvd[c]
  /\ NoRequest(c, PosOf(a, n - 1), a[n].pos - 1)
  /\ IsRequest(a[n].req) /\ stream[c][a[n].pos] = a[n].req
  /\ n < Len(a) => Keeps(a[n].req)

\* What was written of it is its units, behind the response before it.
WrittenInPlace(c, a, n) ==
  /\ a[n].from = EndOf(a, n - 1)
  /\ \A j \in 1 .. HeadLen + a[n].body :
       a[n].from + j <= Len(out[c]) => out[c][a[n].from + j] = UnitOf(a[n], j)

Ordered(c, a) ==
  /\ \A n \in DOMAIN a : AnswersNext(c, a, n) /\ WrittenInPlace(c, a, n)
  /\ Len(out[c]) <= EndOf(a, Len(a))

\* Pipelining and partial writes never mix up responses: each answers the first
\* request that follows the one answered before it, none follows one that ends
\* the connection, and what was written is these responses, one behind the other
\* and unit by unit, as far as it goes.
InOrder == ~stray => \A c \in Clients \ failed : Ordered(c, answered[c])

\* A connection goes back to waiting for a request, or is closed by the server
\* alone, only when every request read so far is completely answered.
Complete ==
  ~stray /\ pc = "wait" =>
    \A c \in Clients \ failed :
      LET a == answered[c] IN
      rcvd[c] > 0 /\ peer[c] = "open"
        /\ (Connected(c) => conns[FdOf(c)].state = "ST_READING") =>
        /\ Len(out[c]) = EndOf(a, Len(a))
        /\ \/ NoRequest(c, PosOf(a, Len(a)), rcvd[c])
           \/ a # <<>> /\ ~Keeps(a[Len(a)].req)

\* Edge-triggered epoll reports a change once.  When the loop goes to sleep no
\* such report has been lost: a connection waits for input with all its bytes
\* consumed, or for room with bytes to send, epoll watches for exactly that,
\* and if it has happened already the socket is on the ready list.
NoLostEdge ==
  ~stray /\ pc = "wait" =>
    \A f \in {g \in Open : conns[g].client \notin failed} :
      LET c == conns[f]
          k == c.client
      IN /\ IF c.state = "ST_READING"
            THEN interest[k] = {"IN"} /\ c.in_head = Len(c.inbuf)
            ELSE interest[k] = {"OUT"} /\ Unsent(c)
         /\ Poll(k) \cap Watched(k) # {} => k \in edge

\* An event still fits its connection when its turn in the batch comes, whatever
\* the events before it did: nothing is read into a connection that is sending,
\* none is sent twice, and the buffer has room (413 is never needed).
EventsFit ==
  ~stray =>
    /\ \A e \in batch :
         e[1] \in Fds =>
           /\ conns[e[1]] # NoConn
           /\ e[2] \subseteq Watched(conns[e[1]].client)
           /\ "IN" \in e[2] => conns[e[1]].state = "ST_READING"
           /\ "OUT" \in e[2] => conns[e[1]].state = "ST_WRITING"
    /\ pc = "read" => conns[cur].state = "ST_READING"
                      /\ Len(Compact(conns[cur]).inbuf) < BUFFER_SIZE
    /\ pc = "write" => conns[cur].state = "ST_WRITING"

\* Every socket and every file is in exactly one connection's hands, the counter
\* the pool reads is the number of connections, and after reactor_destroy or a
\* failed reactor_create nothing is left.
NoLeak ==
  ~stray =>
    /\ \A f \in Fds : f \in Open <=> \E c \in Clients : fds[f] = <<"sock", c>>
    /\ \A f \in Open : fds[f] = <<"sock", conns[f].client>>
    /\ \A f \in Fds, c \in Clients :
         fds[f] = <<"file", c>> <=> \E g \in Open : conns[g].client = c /\ conns[g].file_fd = f
                                                   /\ f # 0
    /\ pc # "destroyed" => active_conns = Cardinality(Open)
    /\ pc \in {"null", "destroyed"} => held = {} /\ Open = {}

\* A request that is complete is answered to the last unit, unless the client
\* hangs up, the reactor is stopped or the process is killed, or epoll never
\* came to watch the listening socket.
Due(c) ==
  /\ peer[c] = "open" /\ Alive(c) /\ listen_fd \in polled
  /\ \/ Len(answered[c]) < Len(SelectSeq(SubSeq(stream[c], 1, sent[c]), IsRequest))
     \/ Connected(c) /\ conns[FdOf(c)].state = "ST_WRITING"
     \/ got[c] < Len(out[c])
Answers ==
  \A c \in Clients : Due(c) ~> ~Due(c) \/ wakeup \/ stray \/ pc = "killed"

\* reactor_run returns once reactor_stop was called, if epoll watches the eventfd.
StopReturns == wakeup /\ wakeup_fd \in polled ~> pc \in {"exited", "destroyed", "killed"}

\* reactor.c:67: file_fd is the file to send, or -1; a connection closes no
\* descriptor but its own.
ClosesOwn == ~stray
=============================================================================
