---------------------------- MODULE ReactorSteps ----------------------------
(***************************************************************************)
(* What the handlers of the reactor do to the connection they work on, as  *)
(* the layers of its invariant need it: which fields change, and to what.  *)
(* Then the first layer, TableInv: every step of the loop, of the clients  *)
(* and of the pool keeps it.                                               *)
(***************************************************************************)
EXTENDS ReactorInvariant, WellFoundedInduction, TLAPS

USE ZenonT(60)

-----------------------------------------------------------------------------
(* Numbers and sequences.                                                  *)

\* Every non-empty set of numbers has a least one, which is Min of the set.
LEMMA LeastNumber ==
  ASSUME NEW S \in SUBSET Nat, S # {}
  PROVE  Min(S) \in S /\ \A y \in S : Min(S) <= y
<1> DEFINE R == {ss \in Nat \X Nat : ss[1] < ss[2]}
<1>1. OpToRel(<, Nat) = R  BY DEF OpToRel
<1>2. IsWellFoundedOn(R, Nat)  BY <1>1, NatLessThanWellFounded
<1>3. \E x \in S : \A y \in S : ~(<<y, x>> \in R)  BY <1>2, WFMin
<1>4. PICK x \in S : \A y \in S : ~(<<y, x>> \in R)  BY <1>3
<1>5. ASSUME NEW y \in S PROVE x <= y
  <2>1. <<y, x>> \notin R /\ <<y, x>> \in Nat \X Nat  BY <1>4
  <2>2. ~(<<y, x>>[1] < <<y, x>>[2])  BY <2>1
  <2> QED  BY SMTT(60), <2>2
<1>6. \E z \in S : \A y \in S : z <= y  BY <1>5
<1> QED  BY <1>6 DEF Min

\* Min of two integers.
LEMMA LesserOf ==
  ASSUME NEW a \in Int, NEW b \in Int
  PROVE  /\ Min({a, b}) \in {a, b}
         /\ Min({a, b}) <= a /\ Min({a, b}) <= b
<1>1. \E x \in {a, b} : \A y \in {a, b} : x <= y  BY SMTT(60)
<1> QED  BY <1>1 DEF Min

\* open() and accept() take the lowest free number, which is a free one.
LEMMA LowestFree ==
  ASSUME FreeFds # {}
  PROVE  Min(FreeFds) \in Fds /\ fds[Min(FreeFds)] = Free
<1>1. FreeFds \in SUBSET Nat  BY SMTT(60), ReactorBounds DEF FreeFds, Fds
<1>2. Min(FreeFds) \in FreeFds  BY <1>1, LeastNumber
<1> QED  BY <1>2 DEF FreeFds

\* conn_process_input finds the first request behind in_head, if there is one.
LEMMA NextRequestIs ==
  ASSUME NEW c \in Conn
  PROVE  LET m == NextRequest(c) IN
         /\ m \in Nat /\ m <= Len(c.inbuf)
         /\ m > 0 => /\ c.in_head < m /\ IsRequest(c.inbuf[m])
                     /\ \A x \in c.in_head + 1 .. m - 1 : ~IsRequest(c.inbuf[x])
         /\ m = 0 => \A x \in c.in_head + 1 .. Len(c.inbuf) : ~IsRequest(c.inbuf[x])
<1> DEFINE I == {i \in c.in_head + 1 .. Len(c.inbuf) : IsRequest(c.inbuf[i])}
<1>1. c.in_head \in Nat /\ Len(c.inbuf) \in Nat
  <2>1. c.in_head \in Nat /\ c.inbuf \in Seq(Tokens)  BY DEF Conn
  <2> QED  BY SMTT(60), <2>1
<1>2. NextRequest(c) = IF I = {} THEN 0 ELSE Min(I)  BY DEF NextRequest
<1>3. I \in SUBSET Nat  BY SMTT(60), <1>1
<1>4. CASE I = {}
  BY SMTT(60), <1>1, <1>2, <1>4
<1>5. CASE I # {}
  <2>1. Min(I) \in I /\ \A y \in I : Min(I) <= y  BY <1>3, <1>5, LeastNumber
  <2>2. \A x \in c.in_head + 1 .. Min(I) - 1 : x \in c.in_head + 1 .. Len(c.inbuf) /\ x \notin I
    BY SMTT(60), <1>1, <2>1
  <2>3. /\ Min(I) \in Nat /\ Min(I) <= Len(c.inbuf) /\ Min(I) > 0 /\ Min(I) # 0 /\ c.in_head < Min(I)
        /\ IsRequest(c.inbuf[Min(I)])
    BY SMTT(60), <1>1, <2>1
  <2>4. \A x \in c.in_head + 1 .. Min(I) - 1 : ~IsRequest(c.inbuf[x])  BY <2>2
  <2>5. NextRequest(c) = Min(I)  BY <1>2, <1>5
  <2> QED  BY <2>3, <2>4, <2>5
<1> QED  BY <1>4, <1>5

\* What is left of a sequence behind the offset m.
LEMMA RestOf ==
  ASSUME NEW T, NEW s \in Seq(T), NEW m \in Nat, m <= Len(s)
  PROVE  LET u == SubSeq(s, m + 1, Len(s)) IN
         /\ u \in Seq(T) /\ Len(u) = Len(s) - m
         /\ \A j \in 1 .. Len(u) : u[j] = s[m + j]
BY SMTT(60)

\* What a send buffer with room for m takes of l units.
LEMMA CountOf ==
  ASSUME NEW m \in Nat, NEW l \in Nat, NEW n \in 1 .. Min({m, l})
  PROVE  n \in Nat \ {0} /\ n <= m /\ n <= l
<1>1. m \in Int /\ l \in Int  BY SMTT(60)
<1>2. Min({m, l}) \in {m, l} /\ Min({m, l}) <= m /\ Min({m, l}) <= l  BY <1>1, LesserOf
<1> QED  BY SMTT(60), <1>2

-----------------------------------------------------------------------------
(* Connections.                                                            *)

\* The types of the fields.
LEMMA ConnFields ==
  ASSUME NEW c \in Conn
  PROVE  /\ c.client \in Clients /\ c.state \in States /\ c.keep_alive \in BOOLEAN
         /\ c.inbuf \in Seq(Tokens) /\ c.in_head \in Nat /\ c.phase \in Phases
         /\ c.head \in Heads /\ c.head_off \in Nat /\ c.file_fd \in Fds \cup {-1}
         /\ c.file_off \in Nat /\ c.file_len \in Nat
BY DEF Conn

\* accept(): the fields of a new connection.
LEMMA NewConnFields ==
  ASSUME NEW c \in Clients, 0 \in Fds
  PROVE  LET d == NewConn(c) IN
         /\ d \in Conn /\ Within(d)
         /\ d.client = c /\ d.state = "ST_READING" /\ d.keep_alive = FALSE /\ d.inbuf = <<>>
         /\ d.in_head = 0 /\ d.phase = "RSP_HEAD" /\ d.head = <<>> /\ d.head_off = 0
         /\ d.file_fd = 0 /\ d.file_off = 0 /\ d.file_len = 0
<1> DEFINE d == NewConn(c)
<1>1. /\ <<>> \in Seq(Tokens) /\ <<>> \in Heads /\ 0 \in Nat
      /\ "ST_READING" \in States /\ "RSP_HEAD" \in Phases
  BY SMTT(60) DEF Heads, States, Phases
<1>2. d \in Conn  BY <1>1 DEF Conn, NewConn
<1>3. /\ d.client = c /\ d.state = "ST_READING" /\ d.keep_alive = FALSE /\ d.inbuf = <<>>
      /\ d.in_head = 0 /\ d.phase = "RSP_HEAD" /\ d.head = <<>> /\ d.head_off = 0
      /\ d.file_fd = 0 /\ d.file_off = 0 /\ d.file_len = 0
  BY DEF NewConn
<1>4. Within(d)
  <2> HIDE DEF d
  <2> QED  BY SMTT(60), <1>3, ReactorBounds DEF Within
<1> QED  BY <1>2, <1>3, <1>4

\* Which fields of c are as they were in d.
SameSide(c, d) == d.client = c.client /\ d.state = c.state /\ d.keep_alive = c.keep_alive
SameInput(c, d) == d.inbuf = c.inbuf /\ d.in_head = c.in_head
SameHead(c, d) == d.phase = c.phase /\ d.head = c.head /\ d.head_off = c.head_off
SameFile(c, d) == d.file_fd = c.file_fd /\ d.file_off = c.file_off /\ d.file_len = c.file_len

\* The connection of cur is left as d.
Stored(d) == Within(d) /\ conns' = [conns EXCEPT ![cur] = d]

\* An open descriptor has a connection, with its offsets in bounds.
LEMMA OpenConn ==
  ASSUME ConnsOK, NEW f \in Open
  PROVE  f \in Fds /\ conns[f] \in Conn /\ Within(conns[f])
BY DEF ConnsOK, Open

\* A handler works on a connection.
LEMMA CurConn ==
  ASSUME TableInv, pc \in {"read", "build", "write"}
  PROVE  cur \in Open /\ cur \in Fds /\ conns[cur] \in Conn /\ Within(conns[cur])
<1>1. cur \in Open /\ ConnsOK  BY DEF TableInv, AtWork, TypeOK
<1> QED  BY <1>1, OpenConn

\* The descriptor of a client that has one.
LEMMA FdOfIs ==
  ASSUME NEW c, Connected(c)
  PROVE  FdOf(c) \in Fds /\ fds[FdOf(c)] = <<"sock", c>>
BY DEF FdOf, Connected

\* The socket at a descriptor.
LEMMA SockAtIs ==
  ASSUME TableOK, NEW f
  PROVE  /\ \A c : c \in SockAt(f) <=> f \in Fds /\ c \in Clients /\ fds[f] = <<"sock", c>>
         /\ \A c, d \in SockAt(f) : c = d
BY SMTT(60) DEF SockAt, TableOK

\* A connection is stored at f.
LEMMA ConnStored ==
  ASSUME ConnsOK, NEW f \in Fds, NEW d \in Conn, Within(d), conns' = [conns EXCEPT ![f] = d]
  PROVE  /\ ConnsOK' /\ Open' = Open \cup {f}
         /\ conns'[f] = d /\ \A g \in Fds \ {f} : conns'[g] = conns[g]
<1>1. /\ conns' \in [Fds -> Conn \cup {NoConn}]
      /\ conns'[f] = d /\ \A g \in Fds \ {f} : conns'[g] = conns[g]
  BY DEF ConnsOK
<1>2. Open' = Open \cup {f}  BY <1>1, NoConnIsNull DEF Open
<1>3. \A g \in Open' : Within(conns[g])'  BY SMTT(60), <1>1, <1>2 DEF ConnsOK, Within
<1> QED  BY <1>1, <1>2, <1>3 DEF ConnsOK

\* The connection at f is freed.
LEMMA ConnFreed ==
  ASSUME ConnsOK, NEW f \in Fds, conns' = [conns EXCEPT ![f] = NoConn]
  PROVE  /\ ConnsOK' /\ Open' = Open \ {f}
         /\ \A g \in Fds \ {f} : conns'[g] = conns[g]
<1>1. /\ conns' \in [Fds -> Conn \cup {NoConn}]
      /\ conns'[f] = NoConn /\ \A g \in Fds \ {f} : conns'[g] = conns[g]
  BY DEF ConnsOK
<1>2. Open' = Open \ {f}  BY <1>1 DEF Open
<1>3. \A g \in Open' : Within(conns[g])'  BY <1>1, <1>2 DEF ConnsOK, Within, Open
<1> QED  BY <1>1, <1>2, <1>3 DEF ConnsOK

-----------------------------------------------------------------------------
(* accept().                                                               *)

\* accept() gives the first client c of the queue the lowest free number f, with a
\* new connection; or it is dropped.
Accepts(c, f) ==
  /\ fds' = [fds EXCEPT ![f] = <<"sock", c>>]
  /\ conns' = [conns EXCEPT ![f] = NewConn(c)]
  /\ active_conns' = active_conns + 1
  /\ \/ Watch(c, {"IN"}) /\ failed' = failed
     \/ failed' = failed \cup {c} /\ UNCHANGED epoll
Drops == UNCHANGED <<epoll, fds, conns, active_conns, failed>>

\* accept().
LEMMA AcceptEffect ==
  ASSUME TableInv, Accept
  PROVE  /\ pc = "accept" /\ UNCHANGED <<quiet, event, pc, answered, stray, rcvd, out>>
         /\ backlog # <<>> /\ backlog' = Tail(backlog)
         /\ \E c \in Clients, f \in Fds :
              c = Head(backlog) /\ Waits(c) /\ fds[f] = Free /\ (Accepts(c, f) \/ Drops)
<1> DEFINE c == Head(backlog)
           f == Min(FreeFds)
<1>1. /\ pc = "accept" /\ UNCHANGED <<quiet, event, pc, answered, stray, rcvd, out>>
      /\ backlog # <<>> /\ backlog' = Tail(backlog) /\ FreeFds # {}
  BY DEF Accept
<1>2. Accepts(c, f) \/ Drops  BY DEF Accept, Accepts, Drops
<1>3. f \in Fds /\ fds[f] = Free  BY <1>1, LowestFree
<1>4. c \in Clients /\ Waits(c)  BY SMTT(60), <1>1 DEF TableInv, TypeOK, QueueOK, Waits
<1> QED  BY <1>1, <1>2, <1>3, <1>4

\* The queue without its first client.
LEMMA QueueTail ==
  ASSUME TableInv, backlog # <<>>, backlog' = Tail(backlog), UNCHANGED peer
  PROVE  /\ QueueOK' /\ \A n, m \in DOMAIN backlog' : backlog'[n] = backlog'[m] => n = m
         /\ \A d \in Clients : Waits(d)' => Waits(d) /\ d # Head(backlog)
<1> USE DEF TableInv, TypeOK
<1>1. /\ \A n \in DOMAIN backlog' : n + 1 \in DOMAIN backlog /\ backlog'[n] = backlog[n + 1]
      /\ 1 \in DOMAIN backlog /\ backlog[1] = Head(backlog)
      /\ \A n \in DOMAIN backlog' : n \in Nat \ {0}
      /\ backlog' \in Seq(Clients)
  BY SMTT(60) DEF QueueOK
<1>2. QueueOK'  BY <1>1 DEF QueueOK
<1>3. ASSUME NEW n \in DOMAIN backlog', NEW m \in DOMAIN backlog', backlog'[n] = backlog'[m]
      PROVE  n = m
  <2>1. n + 1 = m + 1  BY SMTT(60), <1>1, <1>3 DEF Sockets
  <2> QED  BY SMTT(60), <1>1, <2>1
<1>4. ASSUME NEW d \in Clients, Waits(d)' PROVE Waits(d) /\ d # Head(backlog)
  <2>1. PICK n \in DOMAIN backlog' : backlog'[n] = d  BY <1>4 DEF Waits
  <2>2. n + 1 \in DOMAIN backlog /\ backlog[n + 1] = d /\ n + 1 # 1  BY SMTT(60), <1>1, <2>1
  <2>3. d # Head(backlog)  BY <1>1, <2>2 DEF Sockets
  <2> QED  BY <2>2, <2>3 DEF Waits
<1> QED  BY <1>2, <1>3, <1>4

-----------------------------------------------------------------------------
(* build_response and build_error_response.                                *)

\* What build_response leaves in the connection c, as d: a response without a
\* file, the head and an open file, or nothing for want of memory.
Simple(c, d) ==
  /\ \E code \in Nat : d.head = build_head(c.inbuf[c.in_head], code)
  /\ d.head_off = 0 /\ d.phase = "RSP_HEAD" /\ d.file_fd = -1
  /\ d.file_off = c.file_off /\ d.file_len = c.file_len /\ fds' = fds
Filed(c, d) ==
  /\ d.head = build_head(c.inbuf[c.in_head], 200) /\ d.head_off = 0 /\ d.phase = "RSP_HEAD"
  /\ d.file_fd \in Fds /\ fds[d.file_fd] = Free /\ d.file_off = 0
  /\ fds' = [fds EXCEPT ![d.file_fd] = <<"file", c.client>>]
Failed(c, d) == SameHead(c, d) /\ SameFile(c, d) /\ fds' = fds
Begins(c, d) ==
  /\ d.client = c.client /\ SameInput(c, d)
  /\ d.state = "ST_WRITING" /\ d.keep_alive = Keeps(c.inbuf[c.in_head])
  /\ Simple(c, d) \/ Filed(c, d) \/ Failed(c, d)

\* The heads that are built.
LEMMA HeadsBuilt ==
  ASSUME NEW t \in Tokens, NEW code \in Nat
  PROVE  /\ build_head(t, code) \in Heads /\ Len(build_head(t, code)) = HeadLen
         /\ build_head(t, code) # <<>>
         /\ \A j \in 1 .. HeadLen : build_head(t, code)[j] = <<t, code, j>>
<1>1. HeadLen \in Nat \ {0}  BY ReactorBounds
<1> QED  BY SMTT(60), <1>1 DEF build_head, Heads

\* respond_simple: a response without a file, or nothing.
LEMMA SimpleEffect ==
  ASSUME NEW b \in Conn, Within(b), NEW t \in Tokens, NEW code \in Nat,
         NEW x \in respond_simple(b, t, code)
  PROVE  /\ x \in Conn /\ Within(x) /\ SameSide(b, x) /\ SameInput(b, x)
         /\ \/ /\ x.head = build_head(t, code) /\ x.head_off = 0 /\ x.phase = "RSP_HEAD"
               /\ x.file_fd = -1 /\ x.file_off = b.file_off /\ x.file_len = b.file_len
            \/ SameHead(b, x) /\ SameFile(b, x)
<1> DEFINE z == [b EXCEPT !.head = build_head(t, code), !.head_off = 0, !.file_fd = -1,
                          !.phase = "RSP_HEAD"]
<1>1. x = b \/ x = z  BY DEF respond_simple
<1>2. CASE x = b  BY <1>2 DEF SameSide, SameInput, SameHead, SameFile
<1>3. CASE x = z
  <2>1. build_head(t, code) \in Heads /\ 0 \in Nat /\ -1 \in Fds \cup {-1} /\ "RSP_HEAD" \in Phases
    BY HeadsBuilt DEF Phases
  <2>2. /\ x \in Conn /\ SameSide(b, x) /\ SameInput(b, x)
        /\ x.head = build_head(t, code) /\ x.head_off = 0 /\ x.phase = "RSP_HEAD"
        /\ x.file_fd = -1 /\ x.file_off = b.file_off /\ x.file_len = b.file_len
    BY <1>3, <2>1 DEF Conn, SameSide, SameInput
  <2> HIDE DEF z
  <2>3. Len(build_head(t, code)) = HeadLen /\ HeadLen \in Nat  BY HeadsBuilt, ReactorBounds
  <2>4. Within(x)  BY SMTT(60), <2>2, <2>3 DEF Within, SameInput
  <2> QED  BY <2>2, <2>4
<1> QED  BY <1>1, <1>2, <1>3

\* The request that is answered, and its connection as build_response begins.
LEMMA BegunIs ==
  ASSUME TableInv, pc = "build"
  PROVE  LET c == conns[cur] IN
         /\ Request = c.inbuf[c.in_head] /\ Request \in Tokens
         /\ Begun \in Conn /\ Within(Begun)
         /\ Begun.client = c.client /\ Begun.state = "ST_WRITING"
         /\ Begun.keep_alive = Keeps(Request)
         /\ SameInput(c, Begun) /\ SameHead(c, Begun) /\ SameFile(c, Begun)
<1> DEFINE c == conns[cur]
<1>1. c \in Conn /\ Within(c) /\ c.in_head > 0  BY CurConn DEF TableInv, AtWork
<1>2. Request = c.inbuf[c.in_head]  BY DEF Request
<1>3. Begun = [c EXCEPT !.keep_alive = Keeps(Request), !.state = "ST_WRITING"]
  BY DEF Begun
<1> HIDE DEF c
<1>4. c \in Conn /\ c.inbuf \in Seq(Tokens) /\ c.in_head \in Nat  BY <1>1, ConnFields
<1>5. Request \in Tokens  BY SMTT(60), <1>1, <1>2, <1>4 DEF Within
<1>6. Keeps(Request) \in BOOLEAN /\ "ST_WRITING" \in States  BY DEF Keeps, States
<1>7. /\ Begun \in Conn
      /\ Begun.client = c.client /\ Begun.state = "ST_WRITING"
      /\ Begun.keep_alive = Keeps(Request)
      /\ SameInput(c, Begun) /\ SameHead(c, Begun) /\ SameFile(c, Begun)
  BY <1>3, <1>4, <1>6 DEF Conn, SameInput, SameHead, SameFile
<1>8. Within(Begun)  BY <1>1, <1>7 DEF Within, SameInput, SameHead, SameFile
<1> QED  BY <1>2, <1>5, <1>7, <1>8 DEF c

\* respond_file: the file is opened for d, or there is none to send.
LEMMA FileEffect ==
  ASSUME TableInv, BuildFile
  PROVE  \E d \in Conn : Within(d) /\ Built(d) /\ Begins(conns[cur], d)
<1> DEFINE c == conns[cur]
           f == Min(FreeFds)
           b == [Begun EXCEPT !.head = build_head(Request, 200), !.head_off = 0,
                              !.phase = "RSP_HEAD"]
           len == IF Request = "empty" THEN 0 ELSE filelen
           x == [b EXCEPT !.file_fd = -1]
           y == [b EXCEPT !.file_fd = f, !.file_off = 0, !.file_len = len]
<1>1. pc = "build" /\ FreeFds # {}  BY DEF BuildFile
<1>2. \/ Built(x) /\ fds' = fds
      \/ Built(y) /\ fds' = [fds EXCEPT ![f] = <<"file", b.client>>]
  BY DEF BuildFile
<1>3. /\ Request = c.inbuf[c.in_head] /\ Request \in Tokens
      /\ Begun \in Conn /\ Within(Begun)
      /\ Begun.client = c.client /\ Begun.state = "ST_WRITING"
      /\ Begun.keep_alive = Keeps(Request) /\ SameInput(c, Begun) /\ SameFile(c, Begun)
  BY <1>1, BegunIs
<1> HIDE DEF c
<1>4. f \in Fds /\ fds[f] = Free  BY <1>1, LowestFree
<1>5. /\ build_head(Request, 200) \in Heads /\ Len(build_head(Request, 200)) = HeadLen
      /\ HeadLen \in Nat /\ 0 \in Nat /\ 200 \in Nat /\ "RSP_HEAD" \in Phases
      /\ -1 \in Fds \cup {-1} /\ f \in Fds \cup {-1}
  BY SMTT(60), <1>3, <1>4, HeadsBuilt, ReactorBounds DEF Phases
<1>6. len \in Nat
  <2>1. filelen \in 0 .. FileLen /\ FileLen \in Nat
    BY ReactorBounds DEF TableInv, TypeOK, ControlOK
  <2> QED  BY SMTT(60), <2>1
<1> HIDE DEF f, len
<1>7. Begun \in Conn  BY <1>3
<1>8. /\ b \in Conn /\ SameSide(Begun, b) /\ SameInput(Begun, b) /\ SameFile(Begun, b)
      /\ b.phase = "RSP_HEAD" /\ b.head = build_head(Request, 200) /\ b.head_off = 0
  <2>1. b \in Conn  BY <1>5, <1>7 DEF Conn
  <2>2. SameSide(Begun, b) /\ SameInput(Begun, b)  BY <1>7 DEF Conn, SameSide, SameInput
  <2>3. SameFile(Begun, b)  BY <1>7 DEF Conn, SameFile
  <2>4. b.phase = "RSP_HEAD" /\ b.head = build_head(Request, 200) /\ b.head_off = 0
    BY <1>7 DEF Conn
  <2> QED  BY <2>1, <2>2, <2>3, <2>4
<1> HIDE DEF b
<1>9. b \in Conn  BY <1>8
<1>10. /\ x \in Conn /\ SameSide(b, x) /\ SameInput(b, x) /\ SameHead(b, x)
       /\ x.file_fd = -1 /\ x.file_off = b.file_off /\ x.file_len = b.file_len
  <2>1. x \in Conn  BY <1>5, <1>9 DEF Conn
  <2>2. SameSide(b, x) /\ SameInput(b, x)  BY <1>9 DEF Conn, SameSide, SameInput
  <2>3. SameHead(b, x)  BY <1>9 DEF Conn, SameHead
  <2>4. x.file_fd = -1 /\ x.file_off = b.file_off /\ x.file_len = b.file_len  BY <1>9 DEF Conn
  <2> QED  BY <2>1, <2>2, <2>3, <2>4
<1>11. /\ y \in Conn /\ SameSide(b, y) /\ SameInput(b, y) /\ SameHead(b, y)
       /\ y.file_fd = f /\ y.file_off = 0 /\ y.file_len = len
  <2>1. y \in Conn  BY <1>5, <1>6, <1>9 DEF Conn
  <2>2. SameSide(b, y) /\ SameInput(b, y)  BY <1>9 DEF Conn, SameSide, SameInput
  <2>3. SameHead(b, y)  BY <1>9 DEF Conn, SameHead
  <2>4. y.file_fd = f /\ y.file_off = 0 /\ y.file_len = len  BY <1>9 DEF Conn
  <2> QED  BY <2>1, <2>2, <2>3, <2>4
<1> HIDE DEF x, y
<1> USE DEF SameSide, SameInput, SameHead, SameFile
<1>12. Within(x) /\ Within(y)  BY SMTT(60), <1>3, <1>5, <1>6, <1>8, <1>10, <1>11 DEF Within
<1>13. fds' = fds => Begins(c, x)
  <2>1. \E code \in Nat : x.head = build_head(c.inbuf[c.in_head], code)
    BY <1>3, <1>5, <1>8, <1>10
  <2>2. x.head_off = 0 /\ x.phase = "RSP_HEAD" /\ SameSide(Begun, x) /\ SameInput(c, x)
        /\ x.file_off = c.file_off /\ x.file_len = c.file_len
    BY <1>3, <1>8, <1>10
  <2> QED  BY <1>3, <1>10, <2>1, <2>2 DEF Begins, Simple
<1>14. fds' = [fds EXCEPT ![f] = <<"file", b.client>>] => Begins(c, y)
  <2>1. y.head = build_head(c.inbuf[c.in_head], 200) /\ y.head_off = 0 /\ y.phase = "RSP_HEAD"
    BY <1>3, <1>8, <1>11
  <2>2. SameSide(Begun, y) /\ SameInput(c, y) /\ b.client = c.client  BY <1>3, <1>8, <1>11
  <2>3. y.client = c.client /\ y.state = "ST_WRITING" /\ y.keep_alive = Keeps(c.inbuf[c.in_head])
    BY <1>3, <2>2
  <2>4. y.file_fd \in Fds /\ fds[y.file_fd] = Free /\ y.file_off = 0  BY <1>4, <1>11
  <2> QED  BY <1>11, <2>1, <2>2, <2>3, <2>4 DEF Begins, Filed
<1> QED  BY <1>2, <1>10, <1>11, <1>12, <1>13, <1>14 DEF c

\* build_response.
LEMMA BuildEffect ==
  ASSUME TableInv, BuildSimple \/ BuildFile \/ BuildFileFails
  PROVE  /\ UNCHANGED <<quiet, event, net, epoll, active_conns, stray>> /\ pc = "build"
         /\ \E d \in Conn : Within(d) /\ Built(d) /\ Begins(conns[cur], d)
<1> DEFINE c == conns[cur]
<1>1. /\ UNCHANGED <<quiet, event, net, epoll, active_conns, stray>> /\ pc = "build"
  BY DEF BuildSimple, BuildFile, BuildFileFails, table
<1>2. /\ Request = c.inbuf[c.in_head] /\ Request \in Tokens
      /\ Begun \in Conn /\ Within(Begun)
      /\ Begun.client = c.client /\ Begun.state = "ST_WRITING"
      /\ Begun.keep_alive = Keeps(Request)
      /\ SameInput(c, Begun) /\ SameHead(c, Begun) /\ SameFile(c, Begun)
  BY <1>1, BegunIs
<1> HIDE DEF c
<1>3. ASSUME NEW code \in Nat, NEW x \in respond_simple(Begun, Request, code), fds' = fds
      PROVE  x \in Conn /\ Within(x) /\ Begins(c, x)
  <2>1. /\ x \in Conn /\ Within(x) /\ SameSide(Begun, x) /\ SameInput(Begun, x)
        /\ \/ /\ x.head = build_head(Request, code) /\ x.head_off = 0 /\ x.phase = "RSP_HEAD"
              /\ x.file_fd = -1 /\ x.file_off = Begun.file_off /\ x.file_len = Begun.file_len
           \/ SameHead(Begun, x) /\ SameFile(Begun, x)
    BY <1>2, SimpleEffect
  <2>2. Begins(c, x)
    BY <1>2, <1>3, <2>1
    DEF Begins, Simple, Failed, SameSide, SameInput, SameHead, SameFile
  <2> QED  BY <2>1, <2>2
<1>4. CASE BuildFile  BY <1>1, <1>4, FileEffect
<1>5. CASE BuildSimple \/ BuildFileFails
  <2>1. 400 \in Nat /\ 404 \in Nat /\ 500 \in Nat  BY SMTT(60)
  <2>2. fds' = fds /\ \E code \in Nat : \E x \in respond_simple(Begun, Request, code) : Built(x)
    <3>1. CASE BuildSimple
      <4>1. /\ UNCHANGED table
            /\ \E x \in respond_simple(Begun, Request, IF Request = "bad" THEN 400 ELSE 404) : Built(x)
        BY <3>1 DEF BuildSimple
      <4>2. (IF Request = "bad" THEN 400 ELSE 404) \in Nat  BY <2>1
      <4> QED  BY <4>1, <4>2 DEF table
    <3>2. CASE BuildFileFails
      <4>1. UNCHANGED table /\ \E x \in respond_simple(Begun, Request, 500) : Built(x)
        BY <3>2 DEF BuildFileFails
      <4> QED  BY <2>1, <4>1 DEF table
    <3> QED  BY <1>5, <3>1, <3>2
  <2>3. \E d \in Conn : Within(d) /\ Built(d) /\ Begins(c, d)  BY <1>3, <2>2
  <2> QED  BY <1>1, <2>3 DEF c
<1> QED  BY <1>4, <1>5

-----------------------------------------------------------------------------
(* conn_read and conn_process_input.                                       *)

\* conn_read begins with an empty buffer once everything in it is consumed.
LEMMA CompactIs ==
  ASSUME NEW c \in Conn, Within(c)
  PROVE  LET b == Compact(c) IN
         /\ b \in Conn /\ Within(b) /\ SameSide(c, b) /\ SameHead(c, b) /\ SameFile(c, b)
         /\ IF c.in_head = Len(c.inbuf) THEN b.inbuf = <<>> /\ b.in_head = 0 ELSE b = c
<1> DEFINE b == [c EXCEPT !.inbuf = <<>>, !.in_head = 0]
<1>1. CASE c.in_head # Len(c.inbuf)
  <2>1. Compact(c) = c  BY <1>1 DEF Compact
  <2> QED  BY <1>1, <2>1 DEF SameSide, SameHead, SameFile
<1>2. CASE c.in_head = Len(c.inbuf)
  <2>1. Compact(c) = b  BY <1>2 DEF Compact
  <2>2. <<>> \in Seq(Tokens) /\ 0 \in Nat /\ Len(<<>>) = 0  BY SMTT(60)
  <2>3. /\ b \in Conn /\ SameSide(c, b) /\ SameHead(c, b) /\ SameFile(c, b)
        /\ b.inbuf = <<>> /\ b.in_head = 0
    BY <2>2 DEF Conn, SameSide, SameHead, SameFile
  <2> HIDE DEF b
  <2>4. Within(b)  BY SMTT(60), <2>2, <2>3, ReactorBounds DEF Within, SameHead, SameFile
  <2> QED  BY <1>2, <2>1, <2>3, <2>4
<1> QED  BY <1>1, <1>2

\* What read() and conn_process_input leave of the connection b, as d: n bytes
\* more, consumed up to the first request or altogether.
Taken(k, b, n, d) ==
  /\ SameSide(b, d) /\ SameHead(b, d) /\ SameFile(b, d)
  /\ n \in Nat \ {0} /\ rcvd[k] + n <= sent[k] /\ rcvd' = [rcvd EXCEPT ![k] = @ + n]
  /\ d.inbuf = b.inbuf \o SubSeq(stream[k], rcvd[k] + 1, rcvd[k] + n)
  /\ Len(d.inbuf) = Len(b.inbuf) + n
  /\ \/ /\ pc' = "build" /\ b.in_head < d.in_head /\ IsRequest(d.inbuf[d.in_head])
        /\ \A x \in b.in_head + 1 .. d.in_head - 1 : ~IsRequest(d.inbuf[x])
     \/ /\ pc' = "read" /\ d.in_head = Len(d.inbuf)
        /\ \A x \in b.in_head + 1 .. d.in_head : ~IsRequest(d.inbuf[x])

\* conn_process_input: the connection d consumes its input up to the first request.
LEMMA Consumes ==
  ASSUME NEW d \in Conn, Within(d), NEW e,
         e = [d EXCEPT !.in_head = IF NextRequest(d) > 0 THEN NextRequest(d) ELSE Len(d.inbuf)]
  PROVE  /\ e \in Conn /\ Within(e) /\ SameSide(d, e) /\ SameHead(d, e) /\ SameFile(d, e)
         /\ e.inbuf = d.inbuf
         /\ IF NextRequest(d) > 0
            THEN /\ d.in_head < e.in_head /\ IsRequest(e.inbuf[e.in_head])
                 /\ \A x \in d.in_head + 1 .. e.in_head - 1 : ~IsRequest(e.inbuf[x])
            ELSE /\ e.in_head = Len(e.inbuf)
                 /\ \A x \in d.in_head + 1 .. e.in_head : ~IsRequest(e.inbuf[x])
<1> DEFINE m == NextRequest(d)
           h == IF m > 0 THEN m ELSE Len(d.inbuf)
<1>1. /\ m \in Nat /\ m <= Len(d.inbuf)
      /\ m > 0 => /\ d.in_head < m /\ IsRequest(d.inbuf[m])
                  /\ \A x \in d.in_head + 1 .. m - 1 : ~IsRequest(d.inbuf[x])
      /\ m = 0 => \A x \in d.in_head + 1 .. Len(d.inbuf) : ~IsRequest(d.inbuf[x])
  BY NextRequestIs
<1>2. e = [d EXCEPT !.in_head = h]  OBVIOUS
<1> HIDE DEF m
<1>3. d.inbuf \in Seq(Tokens)  BY ConnFields
<1>4. h \in Nat /\ h <= Len(d.inbuf)  BY SMTT(60), <1>1, <1>3
<1> HIDE DEF h
<1>5. /\ e \in Conn /\ SameSide(d, e) /\ SameHead(d, e) /\ SameFile(d, e)
      /\ e.inbuf = d.inbuf /\ e.in_head = h
  BY <1>2, <1>4 DEF Conn, SameSide, SameHead, SameFile
<1>6. Within(e)  BY <1>4, <1>5 DEF Within, SameHead, SameFile
<1>7. CASE m > 0
  <2>1. h = m  BY <1>7 DEF h
  <2> QED  BY <1>1, <1>5, <1>6, <1>7, <2>1 DEF m
<1>8. CASE ~(m > 0)
  <2>1. h = Len(d.inbuf)  BY <1>8 DEF h
  <2>2. m = 0  BY SMTT(60), <1>1, <1>8
  <2> QED  BY <1>1, <1>5, <1>6, <1>8, <2>1, <2>2 DEF m
<1> QED  BY <1>7, <1>8

\* How much read() gives: all that the client k has sent and not more than there
\* is room for behind m bytes.
LEMMA ReadCount ==
  ASSUME TableInv, NEW k \in Clients, rcvd[k] < sent[k], NEW m \in Nat, m < BUFFER_SIZE
  PROVE  LET n == Min({sent[k] - rcvd[k], BUFFER_SIZE - m}) IN
         /\ n \in Nat \ {0} /\ rcvd[k] + n <= sent[k] /\ m + n <= BUFFER_SIZE
         /\ SubSeq(stream[k], rcvd[k] + 1, rcvd[k] + n) \in Seq(Tokens)
         /\ Len(SubSeq(stream[k], rcvd[k] + 1, rcvd[k] + n)) = n
<1> DEFINE n == Min({sent[k] - rcvd[k], BUFFER_SIZE - m})
<1>1. /\ rcvd[k] \in Nat /\ sent[k] \in Nat /\ sent[k] <= Len(stream[k])
      /\ stream[k] \in Seq(Tokens) /\ BUFFER_SIZE \in Nat
  BY ReactorBounds DEF TableInv, TypeOK, StreamOK
<1>2. sent[k] - rcvd[k] \in Int /\ BUFFER_SIZE - m \in Int  BY SMTT(60), <1>1
<1>3. /\ n \in {sent[k] - rcvd[k], BUFFER_SIZE - m}
      /\ n <= sent[k] - rcvd[k] /\ n <= BUFFER_SIZE - m
  BY <1>2, LesserOf
<1> HIDE DEF n
<1>4. n \in Nat \ {0} /\ rcvd[k] + n <= sent[k] /\ m + n <= BUFFER_SIZE  BY SMTT(60), <1>1, <1>3
<1>5. /\ SubSeq(stream[k], rcvd[k] + 1, rcvd[k] + n) \in Seq(Tokens)
      /\ Len(SubSeq(stream[k], rcvd[k] + 1, rcvd[k] + n)) = n
  BY SMTT(60), <1>1, <1>4
<1> QED  BY <1>4, <1>5 DEF n

\* What was read goes to the end of the buffer of b.
LEMMA Fills ==
  ASSUME NEW b \in Conn, Within(b), NEW more \in Seq(Tokens),
         Len(b.inbuf) + Len(more) <= BUFFER_SIZE
  PROVE  LET d == [b EXCEPT !.inbuf = @ \o more] IN
         /\ d \in Conn /\ Within(d) /\ SameSide(b, d) /\ SameHead(b, d) /\ SameFile(b, d)
         /\ d.inbuf = b.inbuf \o more /\ Len(d.inbuf) = Len(b.inbuf) + Len(more)
         /\ d.in_head = b.in_head
<1> DEFINE d == [b EXCEPT !.inbuf = @ \o more]
<1>1. b.inbuf \in Seq(Tokens) /\ b.in_head \in Nat  BY ConnFields
<1>2. /\ b.inbuf \o more \in Seq(Tokens)
      /\ Len(b.inbuf \o more) = Len(b.inbuf) + Len(more)
      /\ b.in_head <= Len(b.inbuf \o more)
  BY SMTT(60), <1>1 DEF Within
<1>3. /\ d \in Conn /\ SameSide(b, d) /\ SameHead(b, d) /\ SameFile(b, d)
      /\ d.inbuf = b.inbuf \o more /\ d.in_head = b.in_head
  BY <1>2 DEF Conn, SameSide, SameHead, SameFile
<1> HIDE DEF d
<1>4. Within(d)  BY <1>2, <1>3 DEF Within, SameHead, SameFile
<1> QED  BY <1>2, <1>3, <1>4 DEF d

\* conn_read.
LEMMA ReadEffect ==
  ASSUME TableInv, Read
  PROVE  /\ UNCHANGED <<quiet, table, event, epoll, backlog, out>> /\ pc = "read"
         /\ \E k \in SockAt(cur) :
              \/ /\ Len(Compact(conns[cur]).inbuf) = BUFFER_SIZE /\ UNCHANGED rcvd
                 /\ \E x \in Conn : Within(x) /\ Built(x)
              \/ /\ UNCHANGED log
                 /\ \E n \in Nat, d \in Conn : Taken(k, Compact(conns[cur]), n, d) /\ Stored(d)
<1> DEFINE b == Compact(conns[cur])
           N(k) == Min({sent[k] - rcvd[k], BUFFER_SIZE - Len(b.inbuf)})
           D(k) == [b EXCEPT !.inbuf = @ \o SubSeq(stream[k], rcvd[k] + 1, rcvd[k] + N(k))]
           E(k) == [D(k) EXCEPT !.in_head = IF NextRequest(D(k)) > 0 THEN NextRequest(D(k))
                                            ELSE Len(D(k).inbuf)]
           z == [b EXCEPT !.keep_alive = FALSE, !.state = "ST_WRITING"]
<1>1. UNCHANGED <<quiet, table, event, epoll, backlog, out>> /\ pc = "read"  BY DEF Read
<1>2. PICK k \in SockAt(cur) :
        \/ /\ Len(b.inbuf) = BUFFER_SIZE /\ UNCHANGED rcvd
           /\ \E x \in respond_simple(z, "part", 413) : Built(x)
        \/ /\ Len(b.inbuf) # BUFFER_SIZE /\ rcvd[k] < sent[k]
           /\ rcvd' = [rcvd EXCEPT ![k] = @ + N(k)]
           /\ conns' = [conns EXCEPT ![cur] = E(k)]
           /\ pc' = IF NextRequest(D(k)) > 0 THEN "build" ELSE "read"
           /\ UNCHANGED log
  BY DEF Read
<1>3. b \in Conn /\ Within(b)  BY <1>1, CurConn, CompactIs
<1>4. k \in Clients  BY SockAtIs DEF TableInv, TypeOK
<1> HIDE DEF b
<1>5. CASE /\ Len(b.inbuf) = BUFFER_SIZE /\ UNCHANGED rcvd
           /\ \E x \in respond_simple(z, "part", 413) : Built(x)
  <2>1. b \in Conn /\ FALSE \in BOOLEAN /\ "ST_WRITING" \in States /\ "part" \in Tokens /\ 413 \in Nat
    BY SMTT(60), <1>3 DEF States, Tokens
  <2> HIDE DEF N, D, E
  <2>2. z \in Conn /\ SameInput(b, z) /\ SameHead(b, z) /\ SameFile(b, z)
    BY <2>1 DEF Conn, SameInput, SameHead, SameFile
  <2> HIDE DEF z
  <2>3. Within(z)  BY <1>3, <2>2 DEF Within, SameInput, SameHead, SameFile
  <2>4. \E x \in respond_simple(z, "part", 413) : Built(x)  BY <1>5 DEF z
  <2>5. \A x \in respond_simple(z, "part", 413) : x \in Conn /\ Within(x)
    BY SMTT(60), <2>1, <2>2, <2>3, SimpleEffect
  <2> QED  BY <1>1, <1>5, <2>4, <2>5 DEF b
<1>6. CASE /\ Len(b.inbuf) # BUFFER_SIZE /\ rcvd[k] < sent[k]
           /\ rcvd' = [rcvd EXCEPT ![k] = @ + N(k)]
           /\ conns' = [conns EXCEPT ![cur] = E(k)]
           /\ pc' = IF NextRequest(D(k)) > 0 THEN "build" ELSE "read"
           /\ UNCHANGED log
  <2> DEFINE n == N(k)
             d == D(k)
             e == E(k)
             more == SubSeq(stream[k], rcvd[k] + 1, rcvd[k] + n)
  <2>1. Len(b.inbuf) \in Nat /\ Len(b.inbuf) < BUFFER_SIZE
    <3> HIDE DEF N, D, E
    <3>1. b.inbuf \in Seq(Tokens) /\ Len(b.inbuf) <= BUFFER_SIZE  BY <1>3, ConnFields DEF Within
    <3>2. BUFFER_SIZE \in Nat /\ Len(b.inbuf) # BUFFER_SIZE  BY <1>6, ReactorBounds
    <3> QED  BY SMTT(60), <3>1, <3>2
  <2>2. /\ n \in Nat \ {0} /\ rcvd[k] + n <= sent[k] /\ Len(b.inbuf) + n <= BUFFER_SIZE
        /\ more \in Seq(Tokens) /\ Len(more) = n
    BY <1>4, <1>6, <2>1, ReadCount
  <2>3. d = [b EXCEPT !.inbuf = @ \o more]  OBVIOUS
  <2>4. /\ e = [d EXCEPT !.in_head = IF NextRequest(d) > 0 THEN NextRequest(d) ELSE Len(d.inbuf)]
        /\ rcvd' = [rcvd EXCEPT ![k] = @ + n] /\ conns' = [conns EXCEPT ![cur] = e]
        /\ pc' = (IF NextRequest(d) > 0 THEN "build" ELSE "read") /\ UNCHANGED log
    BY <1>6
  <2> HIDE DEF n, d, e, N, D, E, more
  <2>5. /\ d \in Conn /\ Within(d) /\ SameSide(b, d) /\ SameHead(b, d) /\ SameFile(b, d)
        /\ d.inbuf = b.inbuf \o more /\ Len(d.inbuf) = Len(b.inbuf) + n /\ d.in_head = b.in_head
    BY <1>3, <2>2, <2>3, Fills
  <2>6. /\ e \in Conn /\ Within(e) /\ SameSide(d, e) /\ SameHead(d, e) /\ SameFile(d, e)
        /\ e.inbuf = d.inbuf
        /\ IF NextRequest(d) > 0
           THEN /\ d.in_head < e.in_head /\ IsRequest(e.inbuf[e.in_head])
                /\ \A x \in d.in_head + 1 .. e.in_head - 1 : ~IsRequest(e.inbuf[x])
           ELSE /\ e.in_head = Len(e.inbuf)
                /\ \A x \in d.in_head + 1 .. e.in_head : ~IsRequest(e.inbuf[x])
    BY <2>5, <2>4, Consumes
  <2>7. SameSide(b, e) /\ SameHead(b, e) /\ SameFile(b, e)
    BY <2>5, <2>6 DEF SameSide, SameHead, SameFile
  <2>8. Taken(k, b, n, e)  BY <2>2, <2>5, <2>4, <2>6, <2>7 DEF Taken, more
  <2>9. n \in Nat /\ Stored(e)  BY <2>2, <2>4, <2>6 DEF Stored
  <2> QED  BY <1>1, <2>4, <2>6, <2>8, <2>9 DEF b
<1> QED  BY <1>2, <1>5, <1>6

-----------------------------------------------------------------------------
(* conn_write.                                                             *)

\* write() or sendfile() takes the n units u of what the connection c has to send
\* to the client k, which leaves d.
Wrote(k, c, n, d, u) ==
  /\ SameSide(c, d) /\ SameInput(c, d) /\ d.phase = c.phase /\ d.head = c.head
  /\ d.file_fd = c.file_fd /\ d.file_len = c.file_len
  /\ n \in Nat \ {0} /\ n <= Space(k)
  /\ u \in Seq(Unit) /\ Len(u) = n /\ out' = [out EXCEPT ![k] = @ \o u]
  /\ \/ /\ c.phase = "RSP_HEAD" /\ c.head_off + n <= Len(c.head)
        /\ d.head_off = c.head_off + n /\ d.file_off = c.file_off
        /\ \A j \in 1 .. n : u[j] = c.head[c.head_off + j]
     \/ /\ c.phase = "RSP_SENDFILE" /\ c.file_off + n <= c.file_len
        /\ d.file_off = c.file_off + n /\ d.head_off = c.head_off
        /\ \A j \in 1 .. n : u[j] = <<"body", c.file_off + j>>

\* What write() takes of the rest of the head.
LEMMA HeadUnits ==
  ASSUME NEW c \in Conn, c.head_off <= Len(c.head), NEW n \in Nat, n <= Len(c.head) - c.head_off
  PROVE  LET u == SubSeq(SubSeq(c.head, c.head_off + 1, Len(c.head)), 1, n) IN
         u \in Seq(Unit) /\ Len(u) = n /\ \A j \in 1 .. n : u[j] = c.head[c.head_off + j]
<1> DEFINE T == Tokens \X Nat \X Nat
           units == SubSeq(c.head, c.head_off + 1, Len(c.head))
           u == SubSeq(units, 1, n)
<1>1. c.head \in Seq(T) /\ c.head_off \in Nat  BY ConnFields DEF Heads
<1>2. T \subseteq Unit  BY DEF Unit
<1> HIDE DEF T
<1>3. /\ units \in Seq(T) /\ Len(units) = Len(c.head) - c.head_off
      /\ \A j \in 1 .. Len(units) : units[j] = c.head[c.head_off + j]
  BY <1>1, RestOf
<1> HIDE DEF units
<1>4. u \in Seq(T) /\ Len(u) = n /\ \A j \in 1 .. n : u[j] = c.head[c.head_off + j]
  BY SMTT(60), <1>3
<1> HIDE DEF u
<1>5. \A j \in 1 .. n : u[j] \in Unit  BY SMTT(60), <1>2, <1>4
<1>6. u \in Seq(Unit)  BY SMTT(60), <1>4, <1>5
<1> QED  BY <1>4, <1>6 DEF u, units

\* What sendfile() takes of the rest of the file.
LEMMA FileUnits ==
  ASSUME NEW off \in Nat, NEW l \in Nat
  PROVE  LET units == [j \in 1 .. l |-> <<"body", off + j>>] IN
         /\ Len(units) = l
         /\ \A n \in 0 .. l :
              LET u == SubSeq(units, 1, n) IN
              u \in Seq(Unit) /\ Len(u) = n /\ \A j \in 1 .. n : u[j] = <<"body", off + j>>
<1> DEFINE units == [j \in 1 .. l |-> <<"body", off + j>>]
<1>1. \A j \in 1 .. l : <<"body", off + j>> \in Unit  BY SMTT(60) DEF Unit
<1>2. /\ units \in Seq(Unit) /\ Len(units) = l
      /\ \A j \in 1 .. l : units[j] = <<"body", off + j>>
  BY SMTT(60), <1>1
<1> HIDE DEF units
<1>3. \A n \in 0 .. l :
         LET u == SubSeq(units, 1, n) IN
         u \in Seq(Unit) /\ Len(u) = n /\ \A j \in 1 .. n : u[j] = <<"body", off + j>>
  BY SMTT(60), <1>2
<1> QED  BY <1>2, <1>3 DEF units

\* The offset into the head advances.
LEMMA HeadAdvances ==
  ASSUME NEW c \in Conn, Within(c), NEW n \in Nat, c.head_off + n <= Len(c.head)
  PROVE  LET d == [c EXCEPT !.head_off = @ + n] IN
         /\ d \in Conn /\ Within(d) /\ SameSide(c, d) /\ SameInput(c, d) /\ SameFile(c, d)
         /\ d.phase = c.phase /\ d.head = c.head /\ d.head_off = c.head_off + n
<1> DEFINE d == [c EXCEPT !.head_off = @ + n]
<1>1. c.head_off \in Nat  BY ConnFields
<1>2. c.head_off + n \in Nat  BY SMTT(60), <1>1
<1>3. /\ d \in Conn /\ SameSide(c, d) /\ SameInput(c, d) /\ SameFile(c, d)
      /\ d.phase = c.phase /\ d.head = c.head /\ d.head_off = c.head_off + n
  BY <1>2 DEF Conn, SameSide, SameInput, SameFile
<1> HIDE DEF d
<1>4. Within(d)  BY <1>3 DEF Within, SameInput, SameFile
<1> QED  BY <1>3, <1>4 DEF d

\* The offset into the file advances.
LEMMA FileAdvances ==
  ASSUME NEW c \in Conn, Within(c), NEW n \in Nat, c.file_off + n <= c.file_len
  PROVE  LET d == [c EXCEPT !.file_off = @ + n] IN
         /\ d \in Conn /\ Within(d) /\ SameSide(c, d) /\ SameInput(c, d) /\ SameHead(c, d)
         /\ d.file_fd = c.file_fd /\ d.file_len = c.file_len /\ d.file_off = c.file_off + n
<1> DEFINE d == [c EXCEPT !.file_off = @ + n]
<1>1. c.file_off \in Nat  BY ConnFields
<1>2. c.file_off + n \in Nat  BY SMTT(60), <1>1
<1>3. /\ d \in Conn /\ SameSide(c, d) /\ SameInput(c, d) /\ SameHead(c, d)
      /\ d.file_fd = c.file_fd /\ d.file_len = c.file_len /\ d.file_off = c.file_off + n
  BY <1>2 DEF Conn, SameSide, SameInput, SameHead
<1> HIDE DEF d
<1>4. Within(d)  BY <1>3 DEF Within, SameInput, SameHead
<1> QED  BY <1>3, <1>4 DEF d

\* conn_write, write() or sendfile() succeeds.
LEMMA WriteEffect ==
  ASSUME TableInv, Write
  PROVE  /\ UNCHANGED <<quiet, table, event, log, epoll, pc, backlog, rcvd>> /\ pc = "write"
         /\ \E k \in SockAt(cur), n \in Nat, d \in Conn, u \in Seq(Unit) :
              Wrote(k, conns[cur], n, d, u) /\ Stored(d)
<1> DEFINE c == conns[cur]
           head == c.phase = "RSP_HEAD"
           len == Min({c.file_len, filelen})
           units == IF head THEN SubSeq(c.head, c.head_off + 1, Len(c.head))
                    ELSE [j \in 1 .. len - c.file_off |-> <<"body", c.file_off + j>>]
           New(n) == IF head THEN [c EXCEPT !.head_off = @ + n] ELSE [c EXCEPT !.file_off = @ + n]
<1>1. UNCHANGED <<quiet, table, event, log, epoll, pc, backlog, rcvd>>  BY DEF Write
<1>2. pc = "write" /\ Unsent(c) /\ HasBytes(c)  BY DEF Write, Writing
<1>3. PICK k \in SockAt(cur) : \E n \in 1 .. Min({Space(k), Len(units)}) :
         /\ out' = [out EXCEPT ![k] = @ \o SubSeq(units, 1, n)]
         /\ conns' = [conns EXCEPT ![cur] = New(n)]
  BY DEF Write
<1>4. PICK n \in 1 .. Min({Space(k), Len(units)}) :
         /\ out' = [out EXCEPT ![k] = @ \o SubSeq(units, 1, n)]
         /\ conns' = [conns EXCEPT ![cur] = New(n)]
  BY <1>3
<1> DEFINE u == SubSeq(units, 1, n)
           d == New(n)
<1>5. out' = [out EXCEPT ![k] = @ \o u] /\ conns' = [conns EXCEPT ![cur] = d]  BY <1>4
<1>6. /\ head => units = SubSeq(c.head, c.head_off + 1, Len(c.head)) /\ d = [c EXCEPT !.head_off = @ + n]
      /\ ~head => /\ units = [j \in 1 .. len - c.file_off |-> <<"body", c.file_off + j>>]
                  /\ d = [c EXCEPT !.file_off = @ + n]
  OBVIOUS
<1>7. c \in Conn /\ Within(c)  BY <1>2, CurConn
<1>8. Space(k) \in Nat
  <2>1. k \in Clients  BY SockAtIs DEF TableInv, TypeOK
  <2> QED  BY SMTT(60), <2>1, ReactorBounds DEF TableInv, TypeOK, StreamOK
<1> HIDE DEF c, units, New, d
<1>9. ASSUME head
      PROVE  n \in Nat /\ d \in Conn /\ Within(d) /\ u \in Seq(Unit) /\ Wrote(k, c, n, d, u)
  <2> DEFINE v == SubSeq(c.head, c.head_off + 1, Len(c.head))
  <2>1. c.head \in Seq(Tokens \X Nat \X Nat) /\ c.head_off \in Nat /\ c.head_off <= Len(c.head)
    BY <1>7, ConnFields DEF Heads, Within
  <2>2. v \in Seq(Tokens \X Nat \X Nat) /\ Len(v) = Len(c.head) - c.head_off
    BY <2>1, RestOf
  <2>3. units = v  BY <1>6, <1>9
  <2> HIDE DEF v
  <2>4. Len(units) \in Nat /\ Len(units) = Len(c.head) - c.head_off  BY SMTT(60), <2>2, <2>3
  <2>5. n \in Nat \ {0} /\ n <= Space(k) /\ n <= Len(units)  BY <1>8, <2>4, CountOf
  <2>6. n \in Nat /\ n <= Len(c.head) - c.head_off /\ d = [c EXCEPT !.head_off = @ + n]
        /\ u = SubSeq(v, 1, n)
    BY <1>6, <1>9, <2>3, <2>4, <2>5
  <2> HIDE DEF u
  <2>7. u \in Seq(Unit) /\ Len(u) = n /\ \A j \in 1 .. n : u[j] = c.head[c.head_off + j]
    BY <1>7, <2>1, <2>6, HeadUnits DEF v
  <2>8. c.head_off + n <= Len(c.head)  BY SMTT(60), <2>1, <2>6
  <2>9. /\ d \in Conn /\ Within(d) /\ SameSide(c, d) /\ SameInput(c, d) /\ SameFile(c, d)
        /\ d.phase = c.phase /\ d.head = c.head /\ d.head_off = c.head_off + n
    BY <1>7, <2>6, <2>8, HeadAdvances
  <2> QED  BY <1>5, <1>9, <2>5, <2>6, <2>7, <2>8, <2>9 DEF Wrote, SameFile
<1>10. ASSUME ~head
       PROVE  n \in Nat /\ d \in Conn /\ Within(d) /\ u \in Seq(Unit) /\ Wrote(k, c, n, d, u)
  <2>1. c.phase = "RSP_SENDFILE" /\ c.file_off < c.file_len /\ c.file_off < filelen
    BY <1>2, <1>10 DEF Unsent, HasBytes
  <2>2. c.file_len \in Nat /\ filelen \in Nat /\ c.file_off \in Nat
    BY SMTT(60), <1>7, ConnFields, ReactorBounds DEF TableInv, TypeOK, ControlOK
  <2>3. c.file_len \in Int /\ filelen \in Int  BY SMTT(60), <2>2
  <2>4. len \in {c.file_len, filelen} /\ len <= c.file_len  BY <2>3, LesserOf
  <2> DEFINE l == len - c.file_off
             v == [j \in 1 .. l |-> <<"body", c.file_off + j>>]
  <2>5. units = v  BY <1>6, <1>10
  <2> HIDE DEF len
  <2>6. l \in Nat /\ c.file_off + l <= c.file_len  BY SMTT(60), <2>1, <2>2, <2>4
  <2> HIDE DEF l
  <2>7. /\ Len(v) = l
        /\ \A i \in 0 .. l :
             LET w == SubSeq(v, 1, i) IN
             w \in Seq(Unit) /\ Len(w) = i /\ \A j \in 1 .. i : w[j] = <<"body", c.file_off + j>>
    BY <2>2, <2>6, FileUnits
  <2> HIDE DEF v
  <2>8. Len(units) \in Nat /\ Len(units) = l  BY <2>5, <2>6, <2>7
  <2>9. n \in Nat \ {0} /\ n <= Space(k) /\ n <= Len(units)  BY <1>8, <2>8, CountOf
  <2>10. n \in 0 .. l /\ n \in Nat /\ c.file_off + n <= c.file_len  BY SMTT(60), <2>2, <2>6, <2>8, <2>9
  <2>11. u \in Seq(Unit) /\ Len(u) = n /\ \A j \in 1 .. n : u[j] = <<"body", c.file_off + j>>
    BY <2>5, <2>7, <2>10
  <2>12. d = [c EXCEPT !.file_off = @ + n]  BY <1>6, <1>10
  <2>13. /\ d \in Conn /\ Within(d) /\ SameSide(c, d) /\ SameInput(c, d) /\ SameHead(c, d)
         /\ d.file_fd = c.file_fd /\ d.file_len = c.file_len /\ d.file_off = c.file_off + n
    BY <1>7, <2>10, <2>12, FileAdvances
  <2> HIDE DEF u
  <2> QED  BY <1>5, <2>1, <2>9, <2>10, <2>11, <2>13 DEF Wrote, SameHead
<1> HIDE DEF u, head
<1>11. n \in Nat /\ d \in Conn /\ Within(d) /\ u \in Seq(Unit) /\ Wrote(k, c, n, d, u)
  BY <1>9, <1>10
<1>12. Stored(d)  BY <1>5, <1>11 DEF Stored
<1> QED  BY <1>1, <1>2, <1>11, <1>12 DEF c

\* conn_write: the head is out.
LEMMA HeadDoneEffect ==
  ASSUME TableInv, HeadDone
  PROVE  LET c == conns[cur] IN
         /\ UNCHANGED <<quiet, table, event, net, log, epoll, pc>> /\ pc = "write"
         /\ c.phase = "RSP_HEAD" /\ c.head_off = Len(c.head)
         /\ \E d \in Conn :
              /\ Stored(d) /\ SameSide(c, d) /\ SameInput(c, d) /\ SameFile(c, d)
              /\ d.head = <<>> /\ d.head_off = 0
              /\ d.phase = IF c.file_fd >= 0 THEN "RSP_SENDFILE" ELSE "RSP_DONE"
<1> DEFINE c == conns[cur]
           p == IF c.file_fd >= 0 THEN "RSP_SENDFILE" ELSE "RSP_DONE"
           d == [c EXCEPT !.head = <<>>, !.head_off = 0, !.phase = p]
<1>1. /\ UNCHANGED <<quiet, table, event, net, log, epoll, pc>> /\ pc = "write"
      /\ c.phase = "RSP_HEAD" /\ ~Unsent(c)
      /\ conns' = [conns EXCEPT ![cur] = d]
  BY DEF HeadDone, AfterHead
<1>2. c \in Conn /\ Within(c)  BY <1>1, CurConn
<1> HIDE DEF c
<1>3. c \in Conn /\ <<>> \in Heads /\ 0 \in Nat /\ Len(<<>>) = 0 /\ p \in Phases
  BY SMTT(60), <1>2 DEF Heads, Phases
<1>4. c.head_off = Len(c.head)
  <2>1. c.head \in Heads /\ c.head_off \in Nat /\ ~(c.head_off < Len(c.head))
    BY <1>1, <1>3, ConnFields DEF Unsent
  <2> HIDE DEF d, p
  <2> QED  BY SMTT(60), <1>2, <2>1 DEF Within, Heads
<1> HIDE DEF p
<1>5. /\ d \in Conn /\ SameSide(c, d) /\ SameInput(c, d) /\ SameFile(c, d)
      /\ d.head = <<>> /\ d.head_off = 0 /\ d.phase = p
  BY <1>3 DEF Conn, SameSide, SameInput, SameFile
<1> HIDE DEF d
<1>6. Within(d)  BY SMTT(60), <1>2, <1>3, <1>5 DEF Within, SameInput, SameFile
<1> QED  BY <1>1, <1>4, <1>5, <1>6 DEF c, p, Stored

\* conn_write: the file is out, and closed.
LEMMA FileDoneEffect ==
  ASSUME TableInv, FileDone
  PROVE  LET c == conns[cur] IN
         /\ UNCHANGED <<quiet, event, net, log, pc, active_conns>> /\ pc = "write"
         /\ c.phase = "RSP_SENDFILE" /\ c.file_off = c.file_len
         /\ CloseFds({c.file_fd})
         /\ stray' = (stray \/ fds[c.file_fd] # <<"file", c.client>>)
         /\ \E d \in Conn :
              /\ Stored(d) /\ SameSide(c, d) /\ SameInput(c, d)
              /\ d.head = c.head /\ d.head_off = c.head_off /\ d.phase = "RSP_DONE"
              /\ d.file_fd = -1 /\ d.file_off = c.file_off /\ d.file_len = c.file_len
<1> DEFINE c == conns[cur]
           d == [c EXCEPT !.file_fd = -1, !.phase = "RSP_DONE"]
<1>1. /\ UNCHANGED <<quiet, event, net, log, pc, active_conns>> /\ pc = "write"
      /\ c.phase = "RSP_SENDFILE" /\ ~Unsent(c) /\ CloseFds({c.file_fd})
      /\ conns' = [conns EXCEPT ![cur] = d]
      /\ stray' = (stray \/ fds[c.file_fd] # <<"file", c.client>>)
  BY DEF FileDone
<1>2. c \in Conn /\ Within(c)  BY <1>1, CurConn
<1> HIDE DEF c
<1>3. c \in Conn /\ -1 \in Fds \cup {-1} /\ "RSP_DONE" \in Phases  BY <1>2 DEF Phases
<1>4. c.file_off = c.file_len
  <2>1. c.file_off \in Nat /\ c.file_len \in Nat /\ ~(c.file_off < c.file_len)
    BY <1>1, <1>3, ConnFields DEF Unsent
  <2> HIDE DEF d
  <2> QED  BY SMTT(60), <1>2, <2>1 DEF Within
<1>5. /\ d \in Conn /\ SameSide(c, d) /\ SameInput(c, d)
      /\ d.head = c.head /\ d.head_off = c.head_off /\ d.phase = "RSP_DONE"
      /\ d.file_fd = -1 /\ d.file_off = c.file_off /\ d.file_len = c.file_len
  BY <1>3 DEF Conn, SameSide, SameInput
<1> HIDE DEF d
<1>6. Within(d)  BY <1>2, <1>5 DEF Within, SameInput
<1> QED  BY <1>1, <1>4, <1>5, <1>6 DEF c, Stored

\* The connection c goes on as d when its response is out.
Resumes(c, d) ==
  /\ d.client = c.client /\ d.state = "ST_READING" /\ d.keep_alive = c.keep_alive
  /\ d.inbuf = c.inbuf /\ d.head = c.head /\ SameFile(c, d)
  /\ \/ /\ pc' = "build" /\ c.in_head < d.in_head /\ IsRequest(d.inbuf[d.in_head])
        /\ d.phase = "RSP_HEAD" /\ d.head_off = 0
        /\ \A x \in c.in_head + 1 .. d.in_head - 1 : ~IsRequest(d.inbuf[x])
        /\ UNCHANGED <<epoll, evs>>
     \/ /\ d.in_head = Len(d.inbuf) /\ d.phase = c.phase /\ d.head_off = c.head_off
        /\ \A x \in c.in_head + 1 .. d.in_head : ~IsRequest(d.inbuf[x])
        /\ mod_events(cur, {"IN"}) /\ Return

\* conn_write, the response is out: close or go on.
LEMMA FinishEffect ==
  ASSUME TableInv, Finish
  PROVE  LET c == conns[cur] IN
         /\ UNCHANGED <<quiet, net, log, batch, cur>> /\ pc = "write" /\ c.phase = "RSP_DONE"
         /\ \/ ~c.keep_alive /\ CloseCur
            \/ /\ c.keep_alive /\ UNCHANGED table
               /\ \E d \in Conn : Stored(d) /\ Resumes(c, d)
<1> DEFINE c == conns[cur]
           b == [c EXCEPT !.state = "ST_READING"]
           m == NextRequest(b)
           x == [b EXCEPT !.in_head = m, !.phase = "RSP_HEAD", !.head_off = 0]
           y == [b EXCEPT !.in_head = Len(b.inbuf)]
<1>1. UNCHANGED <<quiet, net, log, batch, cur>> /\ pc = "write" /\ c.phase = "RSP_DONE"
  BY DEF Finish
<1>2. \/ ~b.keep_alive /\ CloseCur
      \/ /\ b.keep_alive /\ UNCHANGED table
         /\ m > 0 /\ pc' = "build" /\ UNCHANGED <<epoll, evs>>
         /\ conns' = [conns EXCEPT ![cur] = x]
      \/ /\ b.keep_alive /\ UNCHANGED table
         /\ ~(m > 0) /\ mod_events(cur, {"IN"}) /\ Return
         /\ conns' = [conns EXCEPT ![cur] = y]
  BY DEF Finish
<1>3. c \in Conn /\ Within(c)  BY <1>1, CurConn
<1> HIDE DEF c
<1>4. c \in Conn /\ "ST_READING" \in States /\ "RSP_HEAD" \in Phases /\ 0 \in Nat
  BY <1>3 DEF States, Phases
<1>5. /\ b \in Conn /\ b.client = c.client /\ b.state = "ST_READING"
      /\ b.keep_alive = c.keep_alive
      /\ SameInput(c, b) /\ SameHead(c, b) /\ SameFile(c, b)
  BY <1>4 DEF Conn, SameInput, SameHead, SameFile
<1> HIDE DEF b
<1>6. b.inbuf \in Seq(Tokens) /\ b.head \in Heads  BY <1>5, ConnFields
<1>7. b \in Conn /\ Len(b.inbuf) \in Nat /\ Len(b.head) \in Nat  BY SMTT(60), <1>5, <1>6 DEF Heads
<1>8. /\ m \in Nat /\ m <= Len(b.inbuf)
      /\ m > 0 => /\ b.in_head < m /\ IsRequest(b.inbuf[m])
                  /\ \A i \in b.in_head + 1 .. m - 1 : ~IsRequest(b.inbuf[i])
      /\ m = 0 => \A i \in b.in_head + 1 .. Len(b.inbuf) : ~IsRequest(b.inbuf[i])
  BY <1>5, NextRequestIs
<1> HIDE DEF m
<1>9. b \in Conn /\ m \in Nat  BY <1>7, <1>8
<1>10. /\ x \in Conn /\ SameSide(b, x) /\ SameFile(b, x) /\ x.inbuf = b.inbuf
       /\ x.in_head = m /\ x.phase = "RSP_HEAD" /\ x.head = b.head /\ x.head_off = 0
  BY <1>4, <1>9 DEF Conn, SameSide, SameFile
<1>11. /\ y \in Conn /\ SameSide(b, y) /\ SameFile(b, y) /\ SameHead(b, y)
       /\ y.inbuf = b.inbuf /\ y.in_head = Len(b.inbuf)
  BY <1>7 DEF Conn, SameSide, SameHead, SameFile
<1> HIDE DEF x, y
<1> USE DEF SameSide, SameInput, SameHead, SameFile
<1>12. Within(x) /\ Within(y)  BY SMTT(60), <1>3, <1>5, <1>7, <1>8, <1>10, <1>11 DEF Within
<1>13. CASE ~b.keep_alive /\ CloseCur  BY <1>1, <1>5, <1>13 DEF c
<1>14. CASE /\ b.keep_alive /\ UNCHANGED table
            /\ m > 0 /\ pc' = "build" /\ UNCHANGED <<epoll, evs>>
            /\ conns' = [conns EXCEPT ![cur] = x]
  <2>1. Resumes(c, x)  BY <1>5, <1>8, <1>10, <1>14 DEF Resumes
  <2> QED  BY <1>1, <1>5, <1>10, <1>12, <1>14, <2>1 DEF c, Stored
<1>15. CASE /\ b.keep_alive /\ UNCHANGED table
            /\ ~(m > 0) /\ mod_events(cur, {"IN"}) /\ Return
            /\ conns' = [conns EXCEPT ![cur] = y]
  <2>1. m = 0  BY SMTT(60), <1>9, <1>15
  <2>2. Resumes(c, y)  BY <1>5, <1>8, <1>11, <1>15, <2>1 DEF Resumes
  <2> QED  BY <1>1, <1>5, <1>11, <1>12, <1>15, <2>2 DEF c, Stored
<1> QED  BY <1>2, <1>13, <1>14, <1>15


-----------------------------------------------------------------------------
(* What a handler knows of its connection.                                 *)

\* A connection has the socket of its client, which no other connection has.
LEMMA OwnSocket ==
  ASSUME TableInv, Hands, NEW f \in Open
  PROVE  LET k == conns[f].client IN
         /\ f \in Fds /\ k \in Clients /\ fds[f] = <<"sock", k>> /\ Connected(k)
         /\ FdOf(k) = f /\ SockAt(f) = {k}
         /\ \A g \in Open : conns[g].client = k => g = f
<1> DEFINE k == conns[f].client
<1>1. \A g \in Open : g \in Fds /\ conns[g].client \in Clients /\ fds[g] = <<"sock", conns[g].client>>
  BY OpenConn, ConnFields DEF TableInv, TypeOK, Hands, Owns
<1>2. Connected(k)  BY <1>1 DEF Connected
<1>3. \A g \in Fds : fds[g] = <<"sock", k>> => g = f  BY <1>1 DEF TableInv, Sockets
<1>4. FdOf(k) = f  BY <1>2, <1>3, FdOfIs
<1>5. SockAt(f) = {k}  BY SMTT(60), <1>1, SockAtIs DEF TableInv, TypeOK
<1> QED  BY <1>1, <1>2, <1>3, <1>4, <1>5

\* What was stored is the only change to the connections.
LEMMA StoredIs ==
  ASSUME TableInv, cur \in Open, NEW d \in Conn, Stored(d)
  PROVE  Open' = Open /\ conns'[cur] = d /\ \A g \in Open \ {cur} : conns'[g] = conns[g]
<1>1. ConnsOK /\ Within(d) /\ conns' = [conns EXCEPT ![cur] = d] /\ cur \in Fds
  BY DEF TableInv, TypeOK, Stored, Open
<1>2. Open' = Open \cup {cur} /\ conns'[cur] = d /\ \A g \in Fds \ {cur} : conns'[g] = conns[g]
  BY <1>1, ConnStored
<1> QED  BY <1>2 DEF Open

\* What a handler knows of its connection.
LEMMA AtHand ==
  ASSUME TableInv, Hands, Events, pc \in {"read", "build", "write"}
  PROVE  LET c == conns[cur] IN
         /\ cur \in Open /\ c \in Conn /\ Within(c) /\ Owns(cur, c) /\ Settled(cur)
         /\ c.client \in Clients /\ SockAt(cur) = {c.client}
         /\ c.state = IF pc = "write" THEN "ST_WRITING" ELSE "ST_READING"
<1>1. cur \in Open /\ conns[cur] \in Conn /\ Within(conns[cur])  BY CurConn
<1>2. conns[cur].client \in Clients /\ SockAt(cur) = {conns[cur].client}  BY <1>1, OwnSocket
<1> QED  BY <1>1, <1>2 DEF Hands, Events, Handling

\* A connection that waits for input has an empty buffer to read into.
LEMMA ReadsIntoEmpty ==
  ASSUME TableInv, Hands, Events, pc = "read"
  PROVE  LET c == conns[cur]
             b == Compact(c)
         IN /\ interest[c.client] \subseteq {"IN"}
            /\ b \in Conn /\ Within(b) /\ SameSide(c, b) /\ SameHead(c, b) /\ SameFile(c, b)
            /\ b.inbuf = <<>> /\ b.in_head = 0
<1> DEFINE c == conns[cur]
<1>1. c \in Conn /\ Within(c) /\ Settled(cur) /\ c.state = "ST_READING"  BY AtHand
<1>2. interest[c.client] \subseteq {"IN"} /\ c.in_head = Len(c.inbuf)
  BY <1>1 DEF Settled, Handled, Idle
<1> QED  BY <1>1, <1>2, CompactIs

-----------------------------------------------------------------------------
(* What keeps the parts of the layer.                                      *)

\* A part is kept by a step that leaves its variables alone.
LEMMA TableFrame ==
  ASSUME TableInv
  PROVE  /\ UNCHANGED pc => PcOK'
         /\ UNCHANGED table => TableOK'
         /\ UNCHANGED conns => ConnsOK' /\ Open' = Open
         /\ UNCHANGED event => EventOK'
         /\ UNCHANGED epoll => EpollOK'
         /\ UNCHANGED <<backlog, peer>> => QueueOK'
         /\ UNCHANGED <<stream, sent, rcvd, out, got>> => StreamOK'
         /\ UNCHANGED log => LogOK'
         /\ UNCHANGED control => ControlOK'
         /\ UNCHANGED <<fds, backlog, peer>> /\ UNCHANGED epoll => Sockets'
         /\ UNCHANGED held /\ pc' \notin {"null", "destroyed"} => Acquired'
         /\ UNCHANGED <<held, pc>> => Acquired'
         /\ UNCHANGED <<cur, conns>> /\ pc' \notin {"read", "build", "write"} => AtWork'
         /\ UNCHANGED <<cur, conns, pc>> => AtWork'
<1> USE DEF TableInv, TypeOK
<1>1. UNCHANGED pc => PcOK'  BY DEF PcOK
<1>2. UNCHANGED table => TableOK'  BY DEF TableOK, table
<1>3. UNCHANGED conns => ConnsOK' /\ Open' = Open  BY DEF ConnsOK, Open
<1>4. UNCHANGED event => EventOK'  BY DEF EventOK, event
<1>5. UNCHANGED epoll => EpollOK'  BY DEF EpollOK, epoll
<1>6. UNCHANGED <<backlog, peer>> => QueueOK'  BY DEF QueueOK
<1>7. UNCHANGED <<stream, sent, rcvd, out, got>> => StreamOK'  BY DEF StreamOK, Space
<1>8. UNCHANGED log => LogOK'  BY DEF LogOK, log
<1>9. UNCHANGED control => ControlOK'  BY DEF ControlOK, control
<1>10. UNCHANGED <<fds, backlog, peer>> /\ UNCHANGED epoll => Sockets'
  BY SMTT(60) DEF Sockets, Connected, Waits, epoll
<1>11. /\ UNCHANGED held /\ pc' \notin {"null", "destroyed"} => Acquired'
       /\ UNCHANGED <<held, pc>> => Acquired'
  BY DEF Acquired
<1>12. /\ UNCHANGED <<cur, conns>> /\ pc' \notin {"read", "build", "write"} => AtWork'
       /\ UNCHANGED <<cur, conns, pc>> => AtWork'
  BY DEF AtWork, Open
<1> QED
  BY <1>1, <1>2, <1>3, <1>4, <1>5, <1>6, <1>7, <1>8, <1>9, <1>10, <1>11, <1>12

\* close(): numbers become free, and their sockets leave epoll.
LEMMA CloseKeeps ==
  ASSUME TableInv, NEW S, CloseFds(S), UNCHANGED peer, UNCHANGED backlog \/ backlog' = <<>>
  PROVE  /\ fds' \in [Fds -> {Free, Other} \cup ({"sock", "file"} \X Clients)]
         /\ \A f \in Fds : fds'[f] = IF f \in S THEN Free ELSE fds[f]
         /\ EpollOK' /\ Sockets'
<1> USE DEF TableInv, TypeOK
<1>1. /\ fds' \in [Fds -> {Free, Other} \cup ({"sock", "file"} \X Clients)]
      /\ \A f \in Fds : fds'[f] = IF f \in S THEN Free ELSE fds[f]
  BY DEF CloseFds, TableOK
<1>2. EpollOK'
  BY DEF CloseFds, EpollOK
<1>3. \A c \in Clients, f \in Fds : fds'[f] = <<"sock", c>> => fds[f] = <<"sock", c>>
  BY SMTT(60), <1>1 DEF Free
<1>4. \A c \in Clients : (Connected(c)' => Connected(c)) /\ (Waits(c)' => Waits(c))
  BY SMTT(60), <1>3 DEF Connected, Waits
<1>5. ASSUME NEW c \in Clients, interest'[c] # {} \/ c \in edge' PROVE Connected(c)'
  <2>1. (interest[c] # {} \/ c \in edge) /\ ~(Connected(c) /\ FdOf(c) \in S)
    BY <1>5 DEF CloseFds
  <2>2. Connected(c) /\ FdOf(c) \notin S  BY <2>1 DEF Sockets
  <2>3. FdOf(c) \in Fds /\ fds[FdOf(c)] = <<"sock", c>>  BY <2>2, FdOfIs
  <2>4. \E f \in Fds : fds'[f] = <<"sock", c>>  BY <1>1, <2>2, <2>3
  <2> QED  BY <2>4 DEF Connected
<1>6. \A n, m \in DOMAIN backlog' : backlog'[n] = backlog'[m] => n = m
  BY SMTT(60) DEF Sockets
<1>7. \A c \in Clients : \A f, g \in Fds :
        fds'[f] = <<"sock", c>> /\ fds'[g] = <<"sock", c>> => f = g
  BY <1>3 DEF Sockets
<1>8. Sockets'  BY <1>4, <1>5, <1>6, <1>7 DEF Sockets
<1> QED  BY <1>1, <1>2, <1>8

\* epoll_ctl(): the socket at f is watched for something else.
LEMMA ModKeeps ==
  ASSUME TableInv, NEW f, NEW events \in SUBSET {"IN", "OUT"},
         mod_events(f, events), UNCHANGED <<fds, backlog, peer>>
  PROVE  EpollOK' /\ Sockets'
<1> USE DEF TableInv, TypeOK
<1>1. CASE SockAt(f) = {}
  <2>1. UNCHANGED epoll  BY <1>1 DEF mod_events
  <2> QED  BY <2>1, TableFrame
<1>2. CASE SockAt(f) # {}
  <2>1. PICK c \in SockAt(f) : Watch(c, events)  BY <1>2 DEF mod_events
  <2>2. c \in Clients /\ Connected(c)  BY SockAtIs, <2>1 DEF Connected
  <2>3. /\ interest' = [interest EXCEPT ![c] = events]
        /\ edge' = edge \/ edge' = edge \cup {c}
    BY <2>1 DEF Watch
  <2>4. EpollOK'  BY <2>2, <2>3 DEF EpollOK
  <2>5. \A d \in Clients : Connected(d)' = Connected(d) /\ Waits(d)' = Waits(d)
    BY DEF Connected, Waits
  <2>6. \A d \in Clients : interest'[d] # {} \/ d \in edge' => Connected(d)
    BY <2>2, <2>3 DEF EpollOK, Sockets
  <2>7. Sockets'  BY <2>5, <2>6 DEF Sockets
  <2> QED  BY <2>4, <2>7
<1> QED  BY <1>1, <1>2

\* An event on a socket: only one that is watched joins the ready list.
LEMMA NotifyKeeps ==
  ASSUME TableInv, NEW c \in Clients, NEW e, Notify(c, e),
         UNCHANGED <<fds, backlog, interest>>,
         \A d \in Clients : peer'[d] = "none" => peer[d] = "none"
  PROVE  EpollOK' /\ Sockets'
<1> USE DEF TableInv, TypeOK
<1>1. edge' = edge \/ (edge' = edge \cup {c} /\ interest[c] # {})
  BY DEF Notify, Watched
<1>2. EpollOK'  BY <1>1 DEF EpollOK
<1>3. \A d \in Clients : Connected(d)' = Connected(d) /\ Waits(d)' = Waits(d)
  BY DEF Connected, Waits
<1>4. ASSUME NEW d \in Clients, interest'[d] # {} \/ d \in edge' PROVE Connected(d)'
  BY <1>1, <1>3, <1>4 DEF Sockets
<1>5. Sockets'  BY <1>3, <1>4 DEF Sockets
<1> QED  BY <1>2, <1>5

-----------------------------------------------------------------------------
(* The clients, and the loop between two handlers.                         *)

\* Where the thread goes without changing what it was doing.
LEMMA PassTable ==
  ASSUME TableInv, UNCHANGED <<quiet, table, event, net, log, epoll, conns>>,
         pc' \in {pc, "wait", "exited", "dispatch", "killed", "accept"}
  PROVE  TableInv'
<1>1. /\ control' = control
      /\ UNCHANGED <<stream, sent, rcvd, out, got, backlog, peer, held, cur, fds>>
  BY DEF quiet, control, client, net, event, table
<1>2. PcOK'  BY DEF TableInv, TypeOK, PcOK
<1> QED  BY <1>1, <1>2, TableFrame DEF TableInv, TypeOK

\* A client joins the listen queue.
LEMMA ConnectTable ==
  ASSUME TableInv, NEW c \in Clients, Connect(c)
  PROVE  TableInv'
<1>1. /\ UNCHANGED <<pc, conns, event, table, log, control, epoll>>
      /\ UNCHANGED <<stream, sent, rcvd, out, got, held, cur, fds, interest, edge>>
      /\ peer[c] = "none" /\ peer' = [peer EXCEPT ![c] = "open"]
      /\ backlog' = Append(backlog, c)
  BY DEF Connect, thread, control, event, table, epoll
<1>2. QueueOK'  BY SMTT(60), <1>1 DEF QueueOK, TypeOK, TableInv
<1>3. /\ \A n \in DOMAIN backlog : backlog[n] # c
      /\ ~Connected(c)
  BY <1>1 DEF Sockets, Waits, TableInv
<1>4. /\ DOMAIN backlog = 1 .. Len(backlog) /\ DOMAIN backlog' = 1 .. Len(backlog) + 1
      /\ \A n \in 1 .. Len(backlog) : backlog'[n] = backlog[n]
      /\ backlog'[Len(backlog) + 1] = c /\ Len(backlog) \in Nat
  BY SMTT(60), <1>1 DEF QueueOK, TypeOK, TableInv
<1>5. \A n, m \in DOMAIN backlog' : backlog'[n] = backlog'[m] => n = m
  BY SMTT(60), <1>3, <1>4 DEF Sockets, TableInv
<1>6. ASSUME NEW d \in Clients PROVE /\ Connected(d)' = Connected(d)
                                     /\ Waits(d)' => Waits(d) \/ d = c
                                     /\ peer'[d] = "none" => peer[d] = "none" /\ d # c
  <2>1. Connected(d)' = Connected(d)  BY <1>1 DEF Connected
  <2>2. Waits(d)' => Waits(d) \/ d = c  BY SMTT(60), <1>4 DEF Waits
  <2> QED  BY <1>1, <2>1, <2>2 DEF TableInv, TypeOK, QueueOK
<1>7. Sockets'  BY <1>1, <1>3, <1>5, <1>6 DEF Sockets, TableInv
<1> QED  BY <1>1, <1>2, <1>7, TableFrame DEF TableInv, TypeOK

\* A client sends, hangs up or consumes output.
LEMMA ClientTable ==
  ASSUME TableInv, NEW c \in Clients, Send(c) \/ HangUp(c) \/ Consume(c)
  PROVE  TableInv'
<1>1. /\ UNCHANGED <<pc, conns, event, table, log, control>>
      /\ UNCHANGED <<stream, rcvd, out, backlog, held, cur, fds, interest>>
  BY DEF Send, HangUp, Consume, thread, control, event, table, net
<1>2. \/ UNCHANGED <<epoll, peer>>
      \/ \E e \in {"IN", "OUT", "ERR"} : Notify(c, e)
  BY DEF Send, HangUp, Consume, epoll
<1>3. /\ QueueOK'
      /\ \A d \in Clients : peer'[d] = "none" => peer[d] = "none"
  BY <1>1 DEF Send, HangUp, Consume, QueueOK, TypeOK, TableInv
<1>4. StreamOK'
  <2> USE DEF TableInv, TypeOK
  <2>1. Len(out[c]) \in Nat /\ Len(stream[c]) \in Nat
    BY SMTT(60), ReactorBounds DEF StreamOK
  <2>2. CASE Send(c)
    BY SMTT(60), <1>1, <2>1, <2>2 DEF Send, StreamOK, Space
  <2>3. CASE HangUp(c)
    <3>1. UNCHANGED <<stream, sent, rcvd, out, got>>  BY <1>1, <2>3 DEF HangUp
    <3> QED  BY <3>1, TableFrame
  <2>4. CASE Consume(c)
    BY SMTT(60), <1>1, <2>1, <2>4, ReactorBounds DEF Consume, StreamOK, Space
  <2> QED  BY <2>2, <2>3, <2>4
<1>5. EpollOK' /\ Sockets'
  <2>1. CASE UNCHANGED <<epoll, peer>>
    <3>1. UNCHANGED <<fds, backlog, peer>> /\ UNCHANGED epoll  BY <1>1, <2>1
    <3> QED  BY <3>1, TableFrame
  <2>2. CASE \E e \in {"IN", "OUT", "ERR"} : Notify(c, e)
    BY <1>1, <1>3, <2>2, NotifyKeeps
  <2> QED  BY <1>2, <2>1, <2>2
<1> QED  BY <1>1, <1>3, <1>4, <1>5, TableFrame DEF TableInv, TypeOK

\* reactor_create holds what it acquired, and an error path gives it all back.
LEMMA GivesBack ==
  ASSUME NEW n \in 0 .. Len(Resources)
  PROVE  AcquiredBy(n) \subseteq Range(Resources) /\ AcquiredBy(n) \ Frees[n + 1] = {}
<1>1. Len(Resources) = 6 /\ DOMAIN Resources = 1 .. 6  BY SMTT(60) DEF Resources
<1>2. n \in {0, 1, 2, 3, 4, 5, 6}  BY SMTT(60), <1>1
<1>3. \A i \in 1 .. n : Resources[i] \in Frees[n + 1]
  BY SMTT(60), <1>2 DEF Resources, Frees, BindFrees
<1>4. AcquiredBy(n) \ Frees[n + 1] = {}  BY <1>3 DEF AcquiredBy
<1>5. AcquiredBy(n) \subseteq Range(Resources)  BY SMTT(60), <1>1 DEF Range, AcquiredBy
<1> QED  BY <1>4, <1>5

\* reactor_create.
LEMMA CreateTable ==
  ASSUME TableInv, ReactorCreate
  PROVE  TableInv'
<1>1. /\ UNCHANGED <<conns, event, table, net, log, epoll>>
      /\ UNCHANGED <<stream, sent, rcvd, out, got, backlog, peer, cur, fds, stop, wakeup, filelen>>
      /\ pc = "create"
  BY DEF ReactorCreate, net, client, event, table
<1>2. PICK n \in 0 .. Len(Resources) :
        \/ n < Len(Resources) /\ held' = AcquiredBy(n + 1) /\ pc' = "create"
        \/ held' = AcquiredBy(n) /\ pc' = "created"
        \/ held' = AcquiredBy(n) \ Frees[n + 1] /\ pc' = "null"
  BY DEF ReactorCreate
<1>3. /\ \E m \in 0 .. Len(Resources) : held' = AcquiredBy(m)
      /\ pc' \in {"create", "created", "null"} /\ (pc' = "null" => held' = {})
  <2>1. Len(Resources) = 6  BY DEF Resources
  <2>2. n < Len(Resources) => n + 1 \in 0 .. Len(Resources)  BY SMTT(60), <2>1
  <2>3. 0 \in 0 .. Len(Resources) /\ {} = AcquiredBy(0)  BY SMTT(60), <2>1 DEF AcquiredBy
  <2>4. AcquiredBy(n) \ Frees[n + 1] = {}  BY GivesBack
  <2> QED  BY <1>2, <2>2, <2>3, <2>4
<1>4. PcOK' /\ ControlOK'
  <2>1. held' \subseteq Range(Resources)  BY <1>3, GivesBack
  <2>2. PcOK'  BY <1>3 DEF PcOK
  <2>3. polled' \in {polled, {}, polled \cup {listen_fd}, polled \cup {wakeup_fd}}
    BY DEF ReactorCreate, Adds
  <2>4. polled' \subseteq {listen_fd, wakeup_fd}  BY <2>3 DEF ControlOK, TypeOK, TableInv
  <2> QED  BY <1>1, <2>1, <2>2, <2>4 DEF ControlOK, TypeOK, TableInv
<1>5. Acquired' /\ pc' \notin {"read", "build", "write"}  BY <1>3 DEF Acquired
<1> QED  BY <1>1, <1>4, <1>5, TableFrame DEF TableInv, TypeOK

\* The file changes, or the reactor is told to stop.
LEMMA ControlTable ==
  ASSUME TableInv, Truncate \/ ReactorStop
  PROVE  TableInv'
<1>1. /\ UNCHANGED <<pc, conns, event, table, net, log, epoll>>
      /\ UNCHANGED <<stream, sent, rcvd, out, got, backlog, peer, held, cur, fds>>
  BY DEF Truncate, ReactorStop, net, client, thread, event, table
<1>2. ControlOK'
  <2> USE DEF TableInv, TypeOK, ControlOK
  <2>1. CASE Truncate
    <3>1. filelen' \in 0 .. FileLen  BY SMTT(60), <2>1, ReactorBounds DEF Truncate
    <3> QED  BY <2>1, <3>1 DEF Truncate
  <2>2. CASE ReactorStop
    BY <2>2 DEF ReactorStop
  <2> QED  BY <2>1, <2>2
<1> QED  BY <1>1, <1>2, TableFrame DEF TableInv, TypeOK

\* epoll_wait returns events of descriptors the reactor has.
LEMMA WaitTable ==
  ASSUME TableInv, EpollWait
  PROVE  TableInv'
<1> USE DEF TableInv, TypeOK
<1>1. /\ UNCHANGED <<conns, table, net, log, control>>
      /\ UNCHANGED <<stream, sent, rcvd, out, got, backlog, peer, held, cur, evs, fds, interest>>
      /\ pc' = "dispatch" /\ batch' \subseteq Reportable /\ edge' \subseteq edge
  BY DEF EpollWait, net, client, quiet, control, table
<1>2. \A c \in edge : FdOf(c) \in Fds
  BY FdOfIs DEF Sockets, EpollOK
<1>3. \A c : Poll(c) \cap Watched(c) \subseteq {"IN", "OUT", "ERR"}
  BY DEF Poll
<1>4. Reportable \subseteq (Fds \cup {listen_fd, wakeup_fd}) \X SUBSET {"IN", "OUT", "ERR"}
  BY SMTT(60), <1>2, <1>3 DEF Reportable
<1>5. PcOK' /\ EventOK' /\ EpollOK'
  BY <1>1, <1>4 DEF PcOK, EventOK, EpollOK
<1>6. \A c \in Clients : Connected(c)' = Connected(c) /\ Waits(c)' = Waits(c)
  BY <1>1 DEF Connected, Waits
<1>7. Sockets'  BY <1>1, <1>6 DEF Sockets
<1> QED  BY <1>1, <1>5, <1>7, TableFrame

\* The events of the eventfd and of the listening socket.
LEMMA HandleTable ==
  ASSUME TableInv, HandleWakeup \/ HandleListen
  PROVE  TableInv'
<1>1. /\ UNCHANGED <<conns, table, net, log, epoll>>
      /\ UNCHANGED <<stream, sent, rcvd, out, got, backlog, peer, held, polled, wakeup, filelen,
                     cur, evs, fds>>
      /\ batch' \subseteq batch /\ pc' \in {"dispatch", "accept"}
      /\ stop' = stop \/ stop' = TRUE
  BY DEF HandleWakeup, HandleListen, StopSet, net, client, quiet, control, table
<1>2. PcOK' /\ EventOK'  BY <1>1 DEF TableInv, TypeOK, PcOK, EventOK
<1>3. ControlOK'  BY <1>1 DEF TableInv, TypeOK, ControlOK
<1> QED  BY <1>1, <1>2, <1>3, TableFrame DEF TableInv, TypeOK

\* conn_close() of a connection.
LEMMA ConnCloseKeeps ==
  ASSUME TableInv, NEW f \in Open, conn_close(f), UNCHANGED <<backlog, peer>>
  PROVE  /\ TableOK' /\ ConnsOK' /\ EpollOK' /\ Sockets'
         /\ Open' = Open \ {f} /\ \A g \in Fds \ {f} : conns'[g] = conns[g]
         /\ \A g \in Fds : fds'[g] = IF g \in OwnFds(f) THEN Free ELSE fds[g]
<1>1. /\ CloseFds(OwnFds(f)) /\ conns' = [conns EXCEPT ![f] = NoConn]
      /\ active_conns' = active_conns - 1 /\ f \in Fds
      /\ UNCHANGED peer /\ UNCHANGED backlog
  BY DEF conn_close, Open
<1>2. stray' \in BOOLEAN  BY DEF conn_close
<1>3. /\ fds' \in [Fds -> {Free, Other} \cup ({"sock", "file"} \X Clients)]
      /\ \A g \in Fds : fds'[g] = IF g \in OwnFds(f) THEN Free ELSE fds[g]
      /\ EpollOK' /\ Sockets'
  BY <1>1, CloseKeeps
<1>4. TableOK'  BY SMTT(60), <1>1, <1>2, <1>3 DEF TableInv, TypeOK, TableOK
<1>5. /\ ConnsOK' /\ Open' = Open \ {f} /\ \A g \in Fds \ {f} : conns'[g] = conns[g]
  BY <1>1, ConnFreed DEF TableInv, TypeOK
<1> QED  BY <1>3, <1>4, <1>5

\* The event of a connection.
LEMMA HandleConnTable ==
  ASSUME TableInv, HandleConn
  PROVE  TableInv'
<1>1. /\ UNCHANGED <<net, log, control>> /\ pc = "dispatch"
      /\ UNCHANGED <<stream, sent, rcvd, out, got, backlog, peer, held>>
  BY DEF HandleConn, net, client, quiet, control
<1>2. PICK e \in batch :
        /\ e[1] \in Fds /\ batch' = batch \ {e}
        /\ \/ UNCHANGED <<table, epoll, conns, pc, cur, evs>>
           \/ e[1] \in Open /\ conn_close(e[1]) /\ UNCHANGED <<pc, cur, evs>>
           \/ /\ e[1] \in Open /\ cur' = e[1] /\ pc' \in {"read", "write"}
              /\ evs' \subseteq e[2]
              /\ UNCHANGED <<table, epoll, conns>>
  BY DEF HandleConn, Open
<1>3. PcOK' /\ EventOK' /\ Acquired'
  <2>1. /\ e[2] \subseteq {"IN", "OUT", "ERR"} /\ cur \in Fds /\ evs \subseteq {"IN", "OUT", "ERR"}
    BY DEF TableInv, TypeOK, EventOK
  <2>2. /\ batch' \subseteq batch /\ cur' \in Fds /\ evs' \subseteq {"IN", "OUT", "ERR"}
        /\ pc' \in {"dispatch", "read", "write"}
    BY <1>1, <1>2, <2>1
  <2>3. PcOK' /\ EventOK'  BY <2>2 DEF TableInv, TypeOK, PcOK, EventOK
  <2>4. pc' \notin {"null", "destroyed"}  BY <2>2
  <2> QED  BY <1>1, <2>3, <2>4, TableFrame
<1>4. CASE UNCHANGED <<table, epoll, conns>>
  <2>1. UNCHANGED fds /\ UNCHANGED epoll /\ UNCHANGED conns /\ UNCHANGED table
    BY <1>4 DEF table
  <2>2. TypeOK' /\ Sockets' /\ Open' = Open
    BY <1>1, <1>3, <2>1, TableFrame DEF TableInv, TypeOK
  <2>3. AtWork'  BY <1>1, <1>2, <2>2 DEF AtWork
  <2> QED  BY <1>3, <2>2, <2>3 DEF TableInv
<1>5. CASE e[1] \in Open /\ conn_close(e[1]) /\ UNCHANGED <<pc, cur, evs>>
  <2>1. TableOK' /\ ConnsOK' /\ EpollOK' /\ Sockets'  BY <1>1, <1>5, ConnCloseKeeps
  <2>2. TypeOK'  BY <1>1, <1>3, <2>1, TableFrame DEF TypeOK
  <2>3. AtWork'  BY <1>1, <1>5 DEF AtWork
  <2> QED  BY <1>3, <2>1, <2>2, <2>3 DEF TableInv
<1> QED  BY <1>2, <1>4, <1>5

-----------------------------------------------------------------------------
(* accept().                                                               *)

\* A socket for the client c at f.
LEMMA SocketAdded ==
  ASSUME TableInv, NEW c \in Clients, NEW f \in Fds, fds[f] = Free, Waits(c),
         fds' = [fds EXCEPT ![f] = <<"sock", c>>], UNCHANGED peer,
         interest' = interest \/ interest' = [interest EXCEPT ![c] = {"IN"}],
         edge' = edge \/ edge' = edge \cup {c},
         \A n, m \in DOMAIN backlog' : backlog'[n] = backlog'[m] => n = m,
         \A d \in Clients : Waits(d)' => Waits(d) /\ d # c
  PROVE  EpollOK' /\ Sockets'
<1> USE DEF TableInv, TypeOK
<1>1. EpollOK'  BY DEF EpollOK
<1>2. /\ fds'[f] = <<"sock", c>> /\ \A g \in Fds \ {f} : fds'[g] = fds[g]
      /\ ~Connected(c) /\ peer[c] # "none"
  BY DEF TableOK, Sockets
<1>3. \A d \in Clients : Connected(d)' <=> Connected(d) \/ d = c
  BY SMTT(60), <1>2 DEF Connected, Free
<1>4. \A d \in Clients : \A g, h \in Fds :
        fds'[g] = <<"sock", d>> /\ fds'[h] = <<"sock", d>> => g = h
  BY SMTT(60), <1>2 DEF Sockets, Connected
<1>5. \A d \in Clients : interest'[d] # {} \/ d \in edge' => Connected(d)'
  BY <1>3 DEF Sockets, EpollOK
<1>6. \A d \in Clients : /\ Waits(d)' => ~Connected(d)'
                         /\ peer'[d] = "none" => ~Waits(d)' /\ ~Connected(d)'
  BY <1>2, <1>3 DEF Sockets
<1>7. Sockets'  BY <1>4, <1>5, <1>6 DEF Sockets
<1> QED  BY <1>1, <1>7

\* accept().
LEMMA AcceptTable ==
  ASSUME TableInv, Accept
  PROVE  TableInv'
<1>1. /\ pc = "accept" /\ UNCHANGED <<quiet, event, pc, answered, stray, rcvd, out>>
      /\ backlog # <<>> /\ backlog' = Tail(backlog)
  BY AcceptEffect
<1>2. /\ UNCHANGED <<pc, event, cur, rcvd, out, stray, answered, control, peer>>
      /\ UNCHANGED <<stream, sent, got, held>>
  BY <1>1 DEF quiet, event, control, client
<1>3. PICK c \in Clients, f \in Fds :
        c = Head(backlog) /\ Waits(c) /\ fds[f] = Free /\ (Accepts(c, f) \/ Drops)
  BY AcceptEffect
<1>4. /\ QueueOK' /\ \A n, m \in DOMAIN backlog' : backlog'[n] = backlog'[m] => n = m
      /\ \A d \in Clients : Waits(d)' => Waits(d) /\ d # c
  BY <1>1, <1>2, <1>3, QueueTail
<1>5. StreamOK' /\ ControlOK' /\ EventOK' /\ PcOK' /\ Acquired'
  BY <1>2, TableFrame
<1>6. CASE Drops
  <2>1. /\ UNCHANGED <<epoll, conns, fds, interest, edge>> /\ UNCHANGED table /\ UNCHANGED log
    BY <1>2, <1>6 DEF Drops, epoll, table, log
  <2>2. TableOK' /\ ConnsOK' /\ EpollOK' /\ LogOK' /\ AtWork'
    BY <1>2, <2>1, TableFrame
  <2>3. \A d \in Clients : Connected(d)' = Connected(d)  BY <2>1 DEF Connected
  <2>4. Sockets'  BY <1>2, <1>4, <2>1, <2>3 DEF TableInv, Sockets
  <2> QED  BY <1>4, <1>5, <2>2, <2>4 DEF TableInv, TypeOK
<1>7. CASE Accepts(c, f)
  <2>1. ConnsOK'
    <3>1. ConnsOK /\ conns' = [conns EXCEPT ![f] = NewConn(c)]
      BY <1>7 DEF TableInv, TypeOK, Accepts
    <3>2. 0 \in Fds  BY SMTT(60), ReactorBounds DEF Fds
    <3>3. NewConn(c) \in Conn /\ Within(NewConn(c))  BY <3>2, NewConnFields
    <3> QED  BY <3>1, <3>3, ConnStored
  <2>2. TableOK' /\ LogOK'
    BY SMTT(60), <1>2, <1>7 DEF Accepts, TableInv, TypeOK, TableOK, LogOK
  <2>3. /\ interest' = interest \/ interest' = [interest EXCEPT ![c] = {"IN"}]
        /\ edge' = edge \/ edge' = edge \cup {c}
        /\ fds' = [fds EXCEPT ![f] = <<"sock", c>>]
    BY <1>7 DEF Accepts, Watch, epoll
  <2>4. EpollOK' /\ Sockets'  BY <1>2, <1>3, <1>4, <2>3, SocketAdded
  <2>5. AtWork'  BY <1>1, <1>2 DEF AtWork
  <2> QED  BY <1>4, <1>5, <2>1, <2>2, <2>4, <2>5 DEF TableInv, TypeOK
<1> QED  BY <1>3, <1>6, <1>7

-----------------------------------------------------------------------------
(* The handlers of a connection.                                           *)

\* The handler closes its connection.
LEMMA CloseCurTable ==
  ASSUME TableInv, CloseCur, cur \in Open, UNCHANGED <<quiet, net, answered, batch, cur>>,
         failed' \in {failed, failed \cup {conns[cur].client}}
  PROVE  TableInv'
<1>1. /\ UNCHANGED control
      /\ UNCHANGED <<stream, sent, rcvd, out, got, backlog, peer, held, batch, cur>>
      /\ conn_close(cur) /\ pc' = "dispatch" /\ evs' = {}
  BY DEF CloseCur, net, client, quiet, control
<1>2. TableOK' /\ ConnsOK' /\ EpollOK' /\ Sockets'  BY <1>1, ConnCloseKeeps
<1>3. PcOK' /\ EventOK' /\ AtWork'  BY <1>1 DEF TableInv, TypeOK, PcOK, EventOK, AtWork
<1>4. conns[cur].client \in Clients
  <2>1. conns[cur] \in Conn  BY DEF TableInv, TypeOK, ConnsOK, Open
  <2> QED  BY <2>1, ConnFields
<1>5. LogOK'  BY <1>4 DEF TableInv, TypeOK, LogOK
<1> QED  BY <1>1, <1>2, <1>3, <1>5, TableFrame DEF TableInv, TypeOK

\* Only the connection of cur is changed, and it still has a handler or none.
LEMMA StoreTable ==
  ASSUME TableInv, cur \in Open, NEW d \in Conn, Stored(d),
         TableOK', LogOK', EventOK', EpollOK', StreamOK', Sockets', PcOK',
         UNCHANGED <<backlog, peer, cur>>, UNCHANGED control,
         pc' \notin {"null", "destroyed"}, pc' = "build" => d.in_head > 0
  PROVE  /\ TableInv' /\ Open' = Open
         /\ conns'[cur] = d /\ \A g \in Fds \ {cur} : conns'[g] = conns[g]
<1>1. ConnsOK' /\ Open' = Open \cup {cur} /\ conns'[cur] = d
      /\ \A g \in Fds \ {cur} : conns'[g] = conns[g]
  <2>1. ConnsOK /\ Within(d) /\ conns' = [conns EXCEPT ![cur] = d] /\ cur \in Fds
    BY DEF TableInv, TypeOK, Stored, Open
  <2> QED  BY <2>1, ConnStored
<1>2. Open' = Open  BY <1>1
<1>3. QueueOK' /\ ControlOK' /\ Acquired'  BY TableFrame DEF control
<1>4. AtWork'  BY <1>1, <1>2 DEF AtWork
<1> QED  BY <1>1, <1>2, <1>3, <1>4 DEF TableInv, TypeOK

\* The response of a connection is a record of it.
LEMMA ResponseType ==
  ASSUME StreamOK, NEW d \in Conn, d.head # <<>>
  PROVE  Response(d) \in Answer
<1>1. /\ d.client \in Clients /\ d.inbuf \in Seq(Tokens) /\ d.in_head \in Nat
      /\ d.head \in Heads /\ d.file_len \in Nat
  BY ConnFields
<1>2. d.head[1] \in Tokens \X Nat \X Nat  BY SMTT(60), <1>1 DEF Heads
<1>3. d.head[1][1] \in Tokens /\ d.head[1][2] \in Nat  BY <1>2
<1>4. (IF d.file_fd >= 0 THEN d.file_len ELSE 0) \in Nat  BY <1>1
<1>5. /\ rcvd[d.client] - Len(d.inbuf) + d.in_head \in Int
      /\ Len(out[d.client]) \in Nat
  BY SMTT(60), <1>1 DEF StreamOK
<1> QED  BY <1>3, <1>4, <1>5 DEF Response, Answer

\* A response is built, or lost for want of memory.
LEMMA BuiltKeeps ==
  ASSUME TableInv, NEW d \in Conn, Within(d), Built(d)
  PROVE  /\ LogOK' /\ PcOK' /\ Stored(d)
         /\ pc' \notin {"null", "destroyed"} /\ (pc' = "build" => d.in_head > 0)
<1>1. /\ conns' = [conns EXCEPT ![cur] = d]
      /\ pc' \notin {"null", "destroyed"} /\ pc' # "build" /\ PcOK'
  BY DEF Built, PcOK
<1>2. LogOK'
  <2>1. d.client \in Clients  BY ConnFields
  <2>2. failed' \in SUBSET Clients  BY <2>1 DEF Built, TableInv, TypeOK, LogOK
  <2>3. answered' \in [Clients -> Seq(Answer)]
    <3>1. CASE d.head = <<>>  BY <3>1 DEF Built, TableInv, TypeOK, LogOK
    <3>2. CASE d.head # <<>>
      <4>1. Response(d) \in Answer  BY <3>2, ResponseType DEF TableInv, TypeOK
      <4>2. ASSUME NEW r \in Answer, NEW a \in Seq(Answer) PROVE Append(a, r) \in Seq(Answer)
        BY SMTT(60)
      <4> QED  BY <2>1, <3>2, <4>1, <4>2 DEF Built, TableInv, TypeOK, LogOK
    <3> QED  BY <3>1, <3>2
  <2> QED  BY <2>2, <2>3 DEF LogOK
<1> QED  BY <1>1, <1>2 DEF Stored

\* build_response.
LEMMA BuildTable ==
  ASSUME TableInv, BuildSimple \/ BuildFile \/ BuildFileFails
  PROVE  TableInv'
<1>1. /\ UNCHANGED <<quiet, event, net, epoll, active_conns, stray>>
      /\ cur \in Open /\ conns[cur].client \in Clients
  BY BuildEffect, CurConn, ConnFields
<1>2. PICK d \in Conn : Within(d) /\ Built(d) /\ Begins(conns[cur], d)
  BY BuildEffect
<1>3. /\ UNCHANGED <<stream, sent, rcvd, out, got, backlog, peer, cur, active_conns, stray>>
      /\ UNCHANGED <<control, epoll, interest, edge>>
      /\ EventOK' /\ EpollOK' /\ StreamOK'
  <2>1. /\ UNCHANGED <<stream, sent, rcvd, out, got, backlog, peer, cur, active_conns, stray>>
        /\ UNCHANGED <<control, epoll, interest, edge>>
    BY <1>1 DEF quiet, client, net, event, epoll
  <2> QED  BY <1>1, <2>1, TableFrame
<1>4. \/ fds' = fds
      \/ \E f \in Fds : fds[f] = Free /\ fds' = [fds EXCEPT ![f] = <<"file", conns[cur].client>>]
  BY <1>2 DEF Begins, Simple, Filed, Failed
<1>5. TableOK'
  <2>1. fds' \in [Fds -> {Free, Other} \cup ({"sock", "file"} \X Clients)]
    BY SMTT(60), <1>1, <1>4 DEF TableInv, TypeOK, TableOK
  <2> QED  BY <1>3, <2>1 DEF TableInv, TypeOK, TableOK
<1>6. \A f \in Fds, c \in Clients : fds'[f] = <<"sock", c>> <=> fds[f] = <<"sock", c>>
  BY SMTT(60), <1>4 DEF Free, TableInv, TypeOK, TableOK
<1>7. \A c \in Clients : Connected(c)' = Connected(c) /\ Waits(c)' = Waits(c)
  BY <1>3, <1>6 DEF Connected, Waits
<1>8. Sockets'  BY <1>3, <1>6, <1>7 DEF TableInv, Sockets
<1>9. /\ LogOK' /\ PcOK' /\ Stored(d)
      /\ pc' \notin {"null", "destroyed"} /\ (pc' = "build" => d.in_head > 0)
  BY <1>2, BuiltKeeps
<1> QED  BY <1>1, <1>3, <1>5, <1>8, <1>9, StoreTable

\* conn_read.
LEMMA ReadTable ==
  ASSUME TableInv, Read
  PROVE  TableInv'
<1> DEFINE b == Compact(conns[cur])
<1>1. /\ UNCHANGED <<quiet, table, event, epoll, backlog, out>>
      /\ cur \in Open /\ b.in_head \in Nat
  BY ReadEffect, CurConn, CompactIs, ConnFields
<1>2. /\ UNCHANGED <<stream, sent, got, out, backlog, peer, cur, fds, control>>
      /\ TableOK' /\ EventOK' /\ EpollOK' /\ Sockets'
  <2>1. UNCHANGED <<stream, sent, got, out, backlog, peer, cur, fds, control>>
    BY <1>1 DEF quiet, client, event, table
  <2> QED  BY <1>1, <2>1, TableFrame
<1>3. PICK k \in SockAt(cur) :
        \/ UNCHANGED rcvd /\ \E x \in Conn : Within(x) /\ Built(x)
        \/ /\ UNCHANGED log
           /\ \E n \in Nat, d \in Conn : Taken(k, b, n, d) /\ Stored(d)
  BY ReadEffect
<1> HIDE DEF b
<1>4. CASE UNCHANGED rcvd /\ \E x \in Conn : Within(x) /\ Built(x)
  <2>1. PICK x \in Conn : Within(x) /\ Built(x)  BY <1>4
  <2>2. /\ LogOK' /\ PcOK' /\ Stored(x)
        /\ pc' \notin {"null", "destroyed"} /\ (pc' = "build" => x.in_head > 0)
    BY <2>1, BuiltKeeps
  <2>3. StreamOK'  BY <1>2, <1>4, TableFrame
  <2> QED  BY <1>1, <1>2, <2>2, <2>3, StoreTable
<1>5. CASE UNCHANGED log /\ \E n \in Nat, d \in Conn : Taken(k, b, n, d) /\ Stored(d)
  <2>1. PICK n \in Nat, d \in Conn : Taken(k, b, n, d) /\ Stored(d)
    BY <1>5
  <2>2. /\ rcvd[k] + n <= sent[k] /\ rcvd' = [rcvd EXCEPT ![k] = @ + n]
        /\ pc' \in {"build", "read"} /\ (pc' = "build" => b.in_head < d.in_head)
    BY <2>1 DEF Taken
  <2>3. k \in Clients  BY SockAtIs DEF TableInv, TypeOK
  <2>4. StreamOK'  BY SMTT(60), <1>2, <2>2, <2>3 DEF TableInv, TypeOK, StreamOK, Space
  <2>5. LogOK'  BY <1>5, TableFrame
  <2>6. d.in_head \in Nat  BY ConnFields
  <2>7. PcOK' /\ pc' \notin {"null", "destroyed"} /\ (pc' = "build" => d.in_head > 0)
    BY SMTT(60), <1>1, <2>2, <2>6 DEF PcOK
  <2> QED  BY <1>1, <1>2, <2>1, <2>4, <2>5, <2>7, StoreTable
<1> QED  BY <1>3, <1>4, <1>5

\* conn_read, the socket is drained.
LEMMA DrainedTable ==
  ASSUME TableInv, ReadDrained
  PROVE  TableInv'
<1> DEFINE d == Compact(conns[cur])
<1>1. /\ UNCHANGED <<table, net, log, epoll, control>>
      /\ UNCHANGED <<stream, sent, rcvd, out, got, backlog, peer, batch, cur, fds>>
      /\ pc = "read" /\ pc' \in {"write", "dispatch"} /\ evs' = {}
  BY DEF ReadDrained, Return, quiet, client, net, table
<1>2. cur \in Open /\ d \in Conn /\ Stored(d)
  <2>1. cur \in Open /\ d \in Conn /\ Within(d)  BY <1>1, CurConn, CompactIs
  <2> QED  BY <2>1 DEF ReadDrained, Stored
<1> HIDE DEF d
<1>3. TableOK' /\ LogOK' /\ EpollOK' /\ StreamOK' /\ Sockets'  BY <1>1, TableFrame
<1>4. /\ PcOK' /\ EventOK'
      /\ pc' \notin {"null", "destroyed"} /\ (pc' = "build" => d.in_head > 0)
  BY <1>1 DEF PcOK, TableInv, TypeOK, EventOK
<1> QED  BY <1>1, <1>2, <1>3, <1>4, StoreTable

\* The socket of the client k takes the units u.
LEMMA OutTable ==
  ASSUME TableInv, NEW k \in Clients, NEW u \in Seq(Unit), Len(u) <= Space(k),
         out' = [out EXCEPT ![k] = @ \o u], UNCHANGED <<stream, sent, rcvd, got>>
  PROVE  StreamOK'
<1> USE DEF TableInv, TypeOK
<1>1. out[k] \in Seq(Unit) /\ Len(out[k]) \in Nat /\ got[k] \in Nat /\ SNDBUF \in Nat
      /\ got[k] <= Len(out[k])
  BY SMTT(60), ReactorBounds DEF StreamOK
<1>2. out[k] \o u \in Seq(Unit) /\ Len(out[k] \o u) = Len(out[k]) + Len(u) /\ Len(u) \in Nat
  BY SMTT(60), <1>1
<1>3. /\ out' \in [Clients -> Seq(Unit)] /\ out'[k] = out[k] \o u
      /\ \A c \in Clients \ {k} : out'[c] = out[c]
  BY <1>2 DEF StreamOK
<1>4. got[k] <= Len(out'[k]) /\ Space(k)' \in 0 .. SNDBUF
  BY SMTT(60), <1>1, <1>2, <1>3 DEF Space
<1>5. \A c \in Clients \ {k} : Space(c)' = Space(c)  BY <1>3 DEF Space
<1>6. \A c \in Clients : got'[c] <= Len(out'[c]) /\ Space(c)' \in 0 .. SNDBUF
  BY <1>3, <1>4, <1>5 DEF StreamOK
<1> QED  BY <1>3, <1>6 DEF StreamOK

\* conn_write.
LEMMA WriteTable ==
  ASSUME TableInv, Write
  PROVE  TableInv'
<1>1. /\ UNCHANGED <<quiet, table, event, log, epoll, pc, backlog, rcvd>>
      /\ pc = "write" /\ cur \in Open
  BY WriteEffect, CurConn
<1>2. /\ UNCHANGED <<stream, sent, rcvd, got, backlog, peer, cur, control>>
      /\ TableOK' /\ LogOK' /\ EventOK' /\ EpollOK' /\ PcOK' /\ Sockets'
  <2>1. UNCHANGED <<stream, sent, rcvd, got, backlog, peer, cur, fds, control>>
    BY <1>1 DEF quiet, client, event, table
  <2> QED  BY <1>1, <2>1, TableFrame
<1>3. PICK k \in SockAt(cur), n \in Nat, d \in Conn, u \in Seq(Unit) :
        Wrote(k, conns[cur], n, d, u) /\ Stored(d)
  BY WriteEffect
<1>4. k \in Clients  BY SockAtIs DEF TableInv, TypeOK
<1>5. Len(u) <= Space(k) /\ out' = [out EXCEPT ![k] = @ \o u]  BY <1>3 DEF Wrote
<1>6. StreamOK'  BY <1>2, <1>4, <1>5, OutTable
<1>7. pc' \notin {"null", "destroyed"} /\ (pc' = "build" => d.in_head > 0)  BY <1>1
<1> QED  BY <1>1, <1>2, <1>3, <1>6, <1>7, StoreTable

\* conn_write, the send buffer is full.
LEMMA BlockedTable ==
  ASSUME TableInv, WriteBlocked
  PROVE  TableInv'
<1>1. /\ UNCHANGED <<table, net, log, conns, control>>
      /\ UNCHANGED <<stream, sent, rcvd, out, got, backlog, peer, held, batch, cur, fds>>
      /\ pc = "write" /\ pc' \in {"write", "dispatch"} /\ evs' = {}
      /\ mod_events(cur, {"OUT"})
  BY DEF WriteBlocked, Writing, Return, quiet, client, net, table, control
<1>2. EpollOK' /\ Sockets'
  <2>1. {"OUT"} \in SUBSET {"IN", "OUT"}  OBVIOUS
  <2> QED  BY <1>1, <2>1, ModKeeps
<1>3. PcOK' /\ EventOK'  BY <1>1 DEF PcOK, TableInv, TypeOK, EventOK
<1> QED  BY <1>1, <1>2, <1>3, TableFrame DEF TableInv, TypeOK

\* conn_write: the head is out.
LEMMA HeadDoneTable ==
  ASSUME TableInv, HeadDone
  PROVE  TableInv'
<1>1. /\ UNCHANGED <<quiet, table, event, net, log, epoll, pc>>
      /\ pc = "write" /\ cur \in Open /\ \E d \in Conn : Stored(d)
  BY HeadDoneEffect, CurConn
<1>2. PICK d \in Conn : Stored(d)  BY <1>1
<1>3. /\ UNCHANGED <<stream, sent, rcvd, out, got, backlog, peer, cur, fds, control>>
  BY <1>1 DEF quiet, client, event, table, net
<1>4. TableOK' /\ LogOK' /\ EventOK' /\ EpollOK' /\ StreamOK' /\ PcOK' /\ Sockets'
  BY <1>1, <1>3, TableFrame
<1>5. pc' \notin {"null", "destroyed"} /\ (pc' = "build" => d.in_head > 0)  BY <1>1
<1> QED  BY <1>1, <1>2, <1>3, <1>4, <1>5, StoreTable

\* conn_write: the file is out, and closed.
LEMMA FileDoneTable ==
  ASSUME TableInv, FileDone
  PROVE  TableInv'
<1>1. /\ UNCHANGED <<quiet, event, net, log, pc, active_conns>>
      /\ pc = "write" /\ cur \in Open /\ \E d \in Conn : Stored(d)
      /\ CloseFds({conns[cur].file_fd})
      /\ stray' = (stray \/ fds[conns[cur].file_fd] # <<"file", conns[cur].client>>)
  BY FileDoneEffect, CurConn
<1>2. PICK d \in Conn : Stored(d)  BY <1>1
<1>3. /\ UNCHANGED <<stream, sent, rcvd, out, got, backlog, peer, cur, active_conns>>
      /\ UNCHANGED <<control, event, log, pc>>
  BY <1>1 DEF quiet, client, event, net
<1>4. /\ fds' \in [Fds -> {Free, Other} \cup ({"sock", "file"} \X Clients)]
      /\ EpollOK' /\ Sockets'
  BY <1>1, <1>3, CloseKeeps
<1>5. TableOK'
  <2>1. stray' \in BOOLEAN  BY <1>1
  <2> QED  BY <1>3, <1>4, <2>1 DEF TableInv, TypeOK, TableOK
<1>6. LogOK' /\ EventOK' /\ StreamOK' /\ PcOK'  BY <1>3, TableFrame
<1>7. pc' \notin {"null", "destroyed"} /\ (pc' = "build" => d.in_head > 0)  BY <1>1
<1> QED  BY <1>1, <1>2, <1>3, <1>4, <1>5, <1>6, <1>7, StoreTable

\* conn_write, the response is out.
LEMMA FinishTable ==
  ASSUME TableInv, Finish
  PROVE  TableInv'
<1>1. /\ UNCHANGED <<quiet, net, log, batch, cur>> /\ cur \in Open /\ conns[cur].in_head \in Nat
      /\ \/ CloseCur
         \/ /\ UNCHANGED table
            /\ \E d \in Conn : Stored(d) /\ Resumes(conns[cur], d)
  BY FinishEffect, CurConn, ConnFields
<1>2. CASE CloseCur  BY <1>1, <1>2, CloseCurTable DEF log
<1>3. CASE /\ UNCHANGED table
           /\ \E d \in Conn : Stored(d) /\ Resumes(conns[cur], d)
  <2>1. PICK d \in Conn : Stored(d) /\ Resumes(conns[cur], d)  BY <1>3
  <2>2. /\ UNCHANGED <<stream, sent, rcvd, out, got, backlog, peer, cur, batch, fds>>
        /\ UNCHANGED control /\ TableOK' /\ LogOK' /\ StreamOK'
    <3>1. /\ UNCHANGED <<stream, sent, rcvd, out, got, backlog, peer, cur, batch, fds>>
          /\ UNCHANGED control
      BY <1>1, <1>3 DEF quiet, client, net, table
    <3> QED  BY <1>1, <1>3, <3>1, TableFrame
  <2>3. \/ pc' = "build" /\ conns[cur].in_head < d.in_head /\ UNCHANGED <<epoll, evs>>
        \/ mod_events(cur, {"IN"}) /\ Return
    BY <2>1 DEF Resumes
  <2>4. d.in_head \in Nat  BY ConnFields
  <2>5. CASE pc' = "build" /\ conns[cur].in_head < d.in_head /\ UNCHANGED <<epoll, evs>>
    <3>1. PcOK' /\ pc' \notin {"null", "destroyed"} /\ (pc' = "build" => d.in_head > 0)
      BY SMTT(60), <1>1, <2>4, <2>5 DEF PcOK
    <3>2. EventOK' /\ EpollOK' /\ Sockets'
      BY <2>2, <2>5, TableFrame DEF event
    <3> QED  BY <1>1, <2>1, <2>2, <3>1, <3>2, StoreTable
  <2>6. CASE mod_events(cur, {"IN"}) /\ Return
    <3>1. pc' \in {"write", "dispatch"} /\ evs' = {}  BY <2>6 DEF Return
    <3>2. PcOK' /\ pc' \notin {"null", "destroyed"} /\ (pc' = "build" => d.in_head > 0)
      BY <3>1 DEF PcOK
    <3>3. EventOK'  BY <2>2, <3>1 DEF TableInv, TypeOK, EventOK
    <3>4. EpollOK' /\ Sockets'
      <4>1. {"IN"} \in SUBSET {"IN", "OUT"}  OBVIOUS
      <4> QED  BY <2>2, <2>6, <4>1, ModKeeps
    <3> QED  BY <1>1, <2>1, <2>2, <3>2, <3>3, <3>4, StoreTable
  <2> QED  BY <2>3, <2>5, <2>6
<1> QED  BY <1>1, <1>2, <1>3

\* reactor_destroy.
LEMMA DestroyTable ==
  ASSUME TableInv, ReactorDestroy
  PROVE  TableInv' /\ Open' = {}
<1>1. /\ UNCHANGED <<event, log, stop, wakeup, filelen, active_conns>>
      /\ UNCHANGED <<stream, sent, rcvd, out, got, peer>>
      /\ conns' = [f \in Fds |-> NoConn] /\ held' = {} /\ backlog' = <<>> /\ pc' = "destroyed"
      /\ polled' = {}
      /\ stray' \in BOOLEAN /\ \E S : CloseFds(S)
  BY DEF ReactorDestroy, client
<1>2. /\ fds' \in [Fds -> {Free, Other} \cup ({"sock", "file"} \X Clients)]
      /\ EpollOK' /\ Sockets'
  BY <1>1, CloseKeeps
<1>3. TableOK' /\ ControlOK'  BY <1>1, <1>2 DEF TableInv, TypeOK, TableOK, ControlOK
<1>4. ConnsOK' /\ Open' = {}  BY <1>1 DEF ConnsOK, Open
<1>5. EventOK' /\ StreamOK' /\ LogOK'  BY <1>1, TableFrame
<1>6. PcOK' /\ QueueOK' /\ AtWork'  BY SMTT(60), <1>1 DEF TableInv, TypeOK, PcOK, QueueOK, AtWork
<1>7. Acquired'
  <2>1. {} = AcquiredBy(0) /\ 0 \in 0 .. Len(Resources)  BY SMTT(60) DEF Resources, AcquiredBy
  <2> QED  BY <1>1, <2>1 DEF Acquired
<1> QED  BY <1>2, <1>3, <1>4, <1>5, <1>6, <1>7 DEF TableInv, TypeOK

-----------------------------------------------------------------------------
(* The layer is an invariant.                                              *)

\* Before reactor_create.
LEMMA InitTable == Init => TableInv /\ Open = {}
<1> SUFFICES ASSUME Init PROVE TableInv /\ Open = {}  OBVIOUS
<1> USE DEF Init
<1>1. 0 \in Fds  BY SMTT(60), ReactorBounds DEF Fds
<1>2. PcOK /\ EventOK /\ EpollOK /\ QueueOK  BY SMTT(60), <1>1 DEF PcOK, EventOK, EpollOK, QueueOK
<1>3. TableOK
  <2>1. stray \in BOOLEAN  OBVIOUS
  <2> QED  BY SMTT(60), <2>1 DEF TableOK
<1>4. ConnsOK /\ Open = {} /\ LogOK  BY SMTT(60) DEF ConnsOK, Open, LogOK
<1>5. StreamOK
  <2>1. \A c \in Clients : stream[c] \in Seq(Tokens) /\ Len(stream[c]) \in Nat  BY SMTT(60), ReactorBounds
  <2>2. SNDBUF \in Nat /\ Len(<<>>) = 0  BY ReactorBounds
  <2> QED  BY SMTT(60), <2>1, <2>2 DEF StreamOK, Space
<1>6. ControlOK
  <2>1. filelen \in 0 .. FileLen  BY SMTT(60), ReactorBounds
  <2> QED  BY <2>1 DEF ControlOK
<1>7. Sockets
  <2>1. \A c \in Clients : ~Waits(c) /\ ~Connected(c)  BY SMTT(60) DEF Waits, Connected, Free, Other
  <2> QED  BY SMTT(60), <2>1 DEF Sockets, Connected
<1>8. Acquired
  <2>1. {} = AcquiredBy(0) /\ 0 \in 0 .. Len(Resources)  BY SMTT(60) DEF Resources, AcquiredBy
  <2> QED  BY <2>1 DEF Acquired
<1>9. AtWork  BY DEF AtWork
<1> QED
  BY <1>2, <1>3, <1>4, <1>5, <1>6, <1>7, <1>8, <1>9 DEF TableInv, TypeOK

\* Every step of the reactor, its clients and its pool keeps the layer.
LEMMA StepTable == TableInv /\ [Next]_vars => TableInv'
<1> SUFFICES ASSUME TableInv, [Next]_vars PROVE TableInv'  OBVIOUS
<1>1. CASE UNCHANGED vars
  <2>1. UNCHANGED <<quiet, table, event, net, log, epoll, conns>> /\ pc' = pc
    BY <1>1 DEF vars, thread
  <2> QED  BY <2>1, PassTable
<1>2. CASE Run \/ RunFails \/ BatchDone \/ AcceptDone \/ WriteKills
  <2>1. /\ UNCHANGED <<quiet, table, event, net, log, epoll, conns>>
        /\ pc' \in {"wait", "exited", "dispatch", "killed"}
    BY <1>2 DEF Run, RunFails, BatchDone, AcceptDone, WriteKills
  <2> QED  BY <2>1, PassTable
<1>3. CASE \/ ReactorCreate \/ ReactorDestroy \/ ReactorStop \/ Truncate
           \/ \E c \in Clients : Client(c)
  BY <1>3, CreateTable, DestroyTable, ControlTable, ConnectTable, ClientTable DEF Client
<1>4. CASE EpollWait \/ HandleWakeup \/ HandleListen \/ HandleConn \/ Accept
  BY <1>4, WaitTable, HandleTable, HandleConnTable, AcceptTable
<1>5. CASE Read \/ ReadDrained \/ BuildSimple \/ BuildFile \/ BuildFileFails
  BY <1>5, ReadTable, DrainedTable, BuildTable
<1>6. CASE ReadEnd \/ WriteFails
  <2>1. /\ CloseCur /\ UNCHANGED <<quiet, net, answered, batch, cur>>
        /\ failed' \in {failed, failed \cup {conns[cur].client}}
        /\ pc \in {"read", "write"}
    BY <1>6 DEF ReadEnd, WriteFails, FailsFor, Writing
  <2>2. cur \in Open  BY <2>1 DEF TableInv, AtWork
  <2> QED  BY <2>1, <2>2, CloseCurTable
<1>7. CASE SendNothing \/ Terminated
  BY <1>1, <1>7 DEF SendNothing, Terminated
<1>8. CASE Write \/ WriteBlocked \/ HeadDone \/ FileDone \/ Finish
  BY <1>8, WriteTable, BlockedTable, HeadDoneTable, FileDoneTable, FinishTable
<1> QED
  BY <1>1, <1>2, <1>3, <1>4, <1>5, <1>6, <1>7, <1>8 DEF Next, Loop
=============================================================================
