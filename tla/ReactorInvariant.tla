-------------------------- MODULE ReactorInvariant --------------------------
(***************************************************************************)
(* The inductive invariant of the reactor: what holds between any two of   *)
(* its steps, for every number of clients and descriptors and every length *)
(* of stream, buffer, head and file.  It comes in three layers, each of    *)
(* which needs the one before.                                             *)
(***************************************************************************)
EXTENDS Reactor

Waits(c) == \E n \in DOMAIN backlog : backlog[n] = c

\* A client waits in the listen queue at most once, and only before it has a
\* socket; a socket has one number, and epoll knows of no other.
Sockets ==
  /\ \A c \in Clients : \A f, g \in Fds :
       fds[f] = <<"sock", c>> /\ fds[g] = <<"sock", c>> => f = g
  /\ \A n, m \in DOMAIN backlog : backlog[n] = backlog[m] => n = m
  /\ \A c \in Clients :
       /\ Waits(c) => ~Connected(c)
       /\ peer[c] = "none" => ~Waits(c) /\ ~Connected(c)
       /\ interest[c] # {} \/ c \in edge => Connected(c)

\* reactor_create acquires in the order of Resources.
Acquired ==
  /\ \E n \in 0 .. Len(Resources) : held = AcquiredBy(n)
  /\ pc \in {"null", "destroyed"} => held = {}

\* A handler works on a connection, and answers a request of its buffer.
AtWork ==
  /\ pc \in {"read", "build", "write"} => cur \in Open
  /\ pc = "build" => conns[cur].in_head > 0

TableInv == TypeOK /\ Sockets /\ Acquired /\ AtWork

-----------------------------------------------------------------------------

\* What the connection c at descriptor f owns: its socket, and from open() until
\* the file is sent the file.
Owns(f, c) ==
  /\ fds[f] = <<"sock", c.client>>
  /\ c.file_fd > 0 => fds[c.file_fd] = <<"file", c.client>>
  /\ c.state = "ST_READING" => c.file_fd <= 0
  /\ c.phase = "RSP_DONE" => c.file_fd = -1
  /\ c.phase = "RSP_SENDFILE" => c.file_fd >= 0

Hands ==
  /\ fds[0] = Other
  /\ \A f \in Open : Owns(f, conns[f])
  /\ \A f \in Fds, c \in Clients :
       /\ fds[f] = <<"sock", c>> => f \in Open
       /\ fds[f] = <<"file", c>> =>
            \E g \in Open : conns[g].client = c /\ conns[g].file_fd = f
  /\ pc # "destroyed" => active_conns = Cardinality(Open)
  /\ pc \in {"create", "null", "created", "destroyed"} => Open = {}

\* A connection between two events: what it waits for.
Idle(c) ==
  IF c.state = "ST_READING"
  THEN interest[c.client] \subseteq {"IN"} /\ c.in_head = Len(c.inbuf)
  ELSE interest[c.client] = {"OUT"} /\ Unsent(c)

Handled(f) == f = cur /\ pc \in {"build", "write", "killed"}
Busy(f) == Handled(f) \/ (f = cur /\ pc = "read")

\* An event of the batch that is still to come.
Pending(e) ==
  /\ e[1] \in Open /\ ~Busy(e[1]) /\ e[2] # {}
  /\ e[2] \subseteq Watched(conns[e[1]].client)
  /\ "ERR" \in e[2] => peer[conns[e[1]].client] \notin {"none", "open"}

\* What may have happened to the socket at f has been reported, or will be.
Signalled(f) ==
  LET k == conns[f].client IN
  Poll(k) \cap Watched(k) # {} => k \in edge \/ \E e \in batch : e[1] = f

Settled(f) ==
  LET k == conns[f].client IN
  /\ ~Handled(f) => Idle(conns[f])
  /\ k \notin failed => interest[k] # {}
  /\ ~stop /\ k \notin failed /\ ~Busy(f) => Signalled(f)

\* The handlers are called for what a connection waits for, one at a time.
Handling ==
  /\ pc \in {"read", "build"} => conns[cur].state = "ST_READING"
  /\ pc = "write" => conns[cur].state = "ST_WRITING"
  /\ pc \in {"read", "build", "write"} => "OUT" \notin evs
  /\ pc \in {"create", "null", "created", "wait", "exited", "destroyed"} => batch = {}
  /\ pc \in {"create", "null", "created", "wait"} => ~stop

Events ==
  /\ \A f \in Open : Settled(f)
  /\ \A e \in batch : e[1] \in Fds => Pending(e)
  /\ \A d, e \in batch : d[1] = e[1] => d = e
  /\ Handling

EventInv == ~stray => Hands /\ Events

-----------------------------------------------------------------------------

\* The buffer holds the last bytes read of the stream.
Buffered(c) ==
  /\ Len(c.inbuf) <= rcvd[c.client]
  /\ \A j \in 1 .. Len(c.inbuf) :
       c.inbuf[j] = stream[c.client][rcvd[c.client] - Len(c.inbuf) + j]

\* How far into the stream the connection has consumed its input.
At(c) == rcvd[c.client] - Len(c.inbuf) + c.in_head

\* Between two responses everything promised is out; a request was found, or
\* there is none behind the last one answered.
Awaits(f, c, a) ==
  /\ c.head = <<>> /\ Len(out[c.client]) = EndOf(a, Len(a))
  /\ a # <<>> => Keeps(a[Len(a)].req)
  /\ IF Handled(f)
     THEN /\ PosOf(a, Len(a)) < At(c) /\ NoRequest(c.client, PosOf(a, Len(a)), At(c) - 1)
          /\ IsRequest(c.inbuf[c.in_head])
     ELSE NoRequest(c.client, PosOf(a, Len(a)), rcvd[c.client])

\* While the last response a is sent: as much of it is out as the offsets say.
SendsHead(c, a) ==
  /\ c.head = build_head(a.req, a.code) /\ Len(out[c.client]) = a.from + c.head_off
  /\ IF c.file_fd > 0 THEN c.file_len = a.body /\ c.file_off = 0
                       ELSE c.file_fd = -1 /\ a.body = 0
SendsFile(c, a) ==
  /\ c.head = <<>> /\ c.file_fd > 0 /\ c.file_len = a.body
  /\ Len(out[c.client]) = a.from + HeadLen + c.file_off
SentWhole(c, a) == c.head = <<>> /\ Len(out[c.client]) = a.from + HeadLen + a.body

Sends(c, a) ==
  /\ a.pos = At(c) /\ c.keep_alive = Keeps(a.req)
  /\ c.phase = "RSP_HEAD" => SendsHead(c, a)
  /\ c.phase = "RSP_SENDFILE" => SendsFile(c, a)
  /\ c.phase = "RSP_DONE" => SentWhole(c, a)

Progress(f, c, a) ==
  IF c.state = "ST_READING" THEN Awaits(f, c, a)
  ELSE a # <<>> /\ Sends(c, a[Len(a)])

\* The server closed the connection for its own reason: a request that ends it.
Ended(c, a) ==
  a # <<>> /\ ~Keeps(a[Len(a)].req) /\ Len(out[c]) = EndOf(a, Len(a))

\* Every response but the last is out.
EarlierOut(c, a) == \A n \in 1 .. Len(a) - 1 : EndOf(a, n) <= Len(out[c])

\* The exchange over the connection at f.
Flows(f) ==
  LET c == conns[f] IN
  Buffered(c) /\ (c.client \notin failed => Progress(f, c, answered[c.client]))

\* What is known of a client with or without a connection: nothing was exchanged
\* before it was accepted, every response but its last is out, and without a
\* connection it hung up or the server ended the connection.
Outside(c) ==
  /\ peer[c] = "none" \/ Waits(c) => rcvd[c] = 0 /\ out[c] = <<>> /\ answered[c] = <<>>
  /\ c \notin failed =>
       /\ EarlierOut(c, answered[c])
       /\ pc # "destroyed" /\ ~Connected(c) /\ rcvd[c] > 0 /\ peer[c] = "open" =>
            Ended(c, answered[c])

Exchange == (\A f \in Open : Flows(f)) /\ (\A c \in Clients : Outside(c))

StreamInv == InOrder /\ (~stray => Exchange)

-----------------------------------------------------------------------------

\* The reactor keeps its books straight between any two system calls: the
\* descriptors, the events and the streams (see above) as long as it has closed
\* no descriptor but its own.
LoopInv == TableInv /\ EventInv /\ StreamInv
=============================================================================
