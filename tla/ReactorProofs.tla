---------------------------- MODULE ReactorProofs ----------------------------
(***************************************************************************)
(* The theorems about the reactor: the three layers of its invariant hold  *)
(* in every state of every run, and with them what the runs check.         *)
(***************************************************************************)
EXTENDS ReactorEventProofs, ReactorStreamProofs

USE ZenonT(60)

\* Between any two system calls of the loop, for every number of clients and
\* descriptors: types and bounds, what epoll and the listen queue say of a client,
\* what reactor_create holds, and that a handler has a connection.
THEOREM ReactorTableInvariant == Spec => []TableInv
<1>1. Init => TableInv  BY InitTable
<1> QED  BY <1>1, StepTable, PTL DEF Spec

\* The type invariant: no offset of a connection leaves its buffer, head or file,
\* and no more is written to a socket than its buffer holds.
THEOREM ReactorTypes == Spec => []TypeOK
<1>1. TableInv => TypeOK  BY DEF TableInv
<1> QED  BY <1>1, ReactorTableInvariant, PTL

\* As long as the reactor has closed no descriptor but its own: every descriptor is
\* in the hands of one connection, and every connection between two events waits for
\* exactly what epoll watches, has been told of, or will be.
THEOREM ReactorEventInvariant == Spec => []EventInv
BY InitEvents, StepEvents, ReactorTableInvariant, PTL DEF Spec

\* conn_close, reactor_destroy and the roll-back of reactor_create leak nothing:
\* sockets and files belong to one connection each, and active_conns counts them.
THEOREM ReactorNoLeak == Spec => []NoLeak
<1>1. TableInv /\ EventInv => NoLeak
  <2> SUFFICES ASSUME TableInv, Hands, ~stray PROVE NoLeak  BY DEF EventInv, NoLeak
  <2>1. \A f \in Fds : f \in Open <=> \E c \in Clients : fds[f] = <<"sock", c>>
    <3>1. \A f \in Open : \E c \in Clients : fds[f] = <<"sock", c>>  BY OwnSocket
    <3>2. \A f \in Fds, c \in Clients : fds[f] = <<"sock", c>> => f \in Open  BY DEF Hands
    <3> QED  BY <3>1, <3>2
  <2>2. \A f \in Open : fds[f] = <<"sock", conns[f].client>>  BY OwnSocket
  <2>3. ASSUME NEW f \in Fds, NEW c \in Clients
        PROVE  fds[f] = <<"file", c>> <=>
                 \E g \in Open : conns[g].client = c /\ conns[g].file_fd = f /\ f # 0
    <3>1. fds[f] = <<"file", c>> => f # 0  BY SMTT(60) DEF Hands, Other
    <3>2. f # 0 => f > 0  BY SMTT(60), ReactorBounds DEF Fds
    <3>3. \A g \in Open : conns[g].client = c /\ conns[g].file_fd = f /\ f # 0 =>
                            fds[f] = <<"file", c>>
      BY <3>2 DEF Hands, Owns
    <3>4. fds[f] = <<"file", c>> =>
            \E g \in Open : conns[g].client = c /\ conns[g].file_fd = f
      BY DEF Hands
    <3> QED  BY <3>1, <3>3, <3>4
  <2>4. /\ pc # "destroyed" => active_conns = Cardinality(Open)
        /\ pc \in {"null", "destroyed"} => held = {} /\ Open = {}
    BY DEF Hands, TableInv, Acquired
  <2> QED  BY <2>1, <2>2, <2>3, <2>4 DEF NoLeak
<1> QED  BY <1>1, ReactorTableInvariant, ReactorEventInvariant, PTL

\* An event of a batch still fits its connection when its turn comes, whatever the
\* handlers of the events before it did, and conn_read never meets a full buffer.
THEOREM ReactorEventsFit == Spec => []EventsFit
<1>1. TableInv /\ EventInv => EventsFit
  <2> SUFFICES ASSUME TableInv, Hands, Events, ~stray PROVE EventsFit
    BY DEF EventInv, EventsFit
  <2>1. \A e \in batch :
          e[1] \in Fds =>
            /\ conns[e[1]] # NoConn
            /\ e[2] \subseteq Watched(conns[e[1]].client)
            /\ "IN" \in e[2] => conns[e[1]].state = "ST_READING"
            /\ "OUT" \in e[2] => conns[e[1]].state = "ST_WRITING"
    BY EventIs DEF Open
  <2>2. /\ pc = "read" => conns[cur].state = "ST_READING"
        /\ pc = "write" => conns[cur].state = "ST_WRITING"
    BY DEF Events, Handling
  <2>3. ASSUME pc = "read" PROVE Len(Compact(conns[cur]).inbuf) < BUFFER_SIZE
    <3>1. Compact(conns[cur]).inbuf = <<>>  BY <2>3, ReadsIntoEmpty
    <3>2. Len(<<>>) < BUFFER_SIZE  BY SMTT(60), ReactorBounds
    <3> QED  BY <3>1, <3>2
  <2> QED  BY <2>1, <2>2, <2>3 DEF EventsFit
<1> QED  BY <1>1, ReactorTableInvariant, ReactorEventInvariant, PTL

\* Edge-triggered epoll loses nothing: whenever the loop goes to sleep each
\* connection waits for what epoll watches, and is on the ready list if it has come.
THEOREM ReactorNoLostEdge == Spec => []NoLostEdge
<1>1. TableInv /\ EventInv => NoLostEdge
  <2> SUFFICES ASSUME TableInv, Hands, Events, ~stray, pc = "wait",
                      NEW f \in Open, conns[f].client \notin failed
               PROVE  LET c == conns[f]
                          k == c.client
                      IN /\ IF c.state = "ST_READING"
                            THEN interest[k] = {"IN"} /\ c.in_head = Len(c.inbuf)
                            ELSE interest[k] = {"OUT"} /\ Unsent(c)
                         /\ Poll(k) \cap Watched(k) # {} => k \in edge
    BY DEF EventInv, NoLostEdge
  <2>1. Settled(f) /\ batch = {} /\ ~stop  BY DEF Events, Handling
  <2>2. ~Busy(f) /\ ~Handled(f)  BY DEF Busy, Handled
  <2>3. Idle(conns[f]) /\ interest[conns[f].client] # {} /\ Signalled(f)
    BY <2>1, <2>2 DEF Settled
  <2>4. interest[conns[f].client] \subseteq {"IN"} => interest[conns[f].client] = {"IN"}
    BY <2>3
  <2> QED  BY <2>1, <2>3, <2>4 DEF Idle, Signalled
<1> QED  BY <1>1, ReactorTableInvariant, ReactorEventInvariant, PTL

\* The whole of it: with the third layer, the buffers and offsets of a connection
\* account for every request read and every unit written, whatever the interleaving
\* of clients, events and short reads and writes.
THEOREM ReactorLoopInvariant == Spec => []LoopInv
<1>1. Dialogue => StreamInv  BY DEF Dialogue, StreamInv, InOrder
<1>2. StreamInv /\ ~stray => Dialogue  BY DEF Dialogue, StreamInv, InOrder
<1>3. Init => LoopInv  BY <1>1, InitTable, InitEvents, InitStream DEF LoopInv
<1>4. LoopInv /\ [Next]_vars => LoopInv'
  <2> SUFFICES ASSUME LoopInv, [Next]_vars PROVE LoopInv'  OBVIOUS
  <2>1. TableInv /\ EventInv /\ StreamInv  BY DEF LoopInv
  <2>2. TableInv' /\ EventInv'  BY <2>1, StepTable, StepEvents
  <2>3. CASE stray'  BY <2>2, <2>3 DEF LoopInv, StreamInv, InOrder
  <2>4. CASE ~stray'
    <3>1. ~stray  BY <2>4, StrayStays
    <3>2. Hands /\ Events /\ Hands' /\ Events'  BY <2>1, <2>2, <2>4, <3>1 DEF EventInv
    <3>3. Dialogue  BY <1>2, <2>1, <3>1
    <3>4. Dialogue'  BY <2>1, <2>2, <3>2, <3>3, StepStream
    <3>5. StreamInv'  BY <3>4 DEF Dialogue, StreamInv, InOrder
    <3> QED  BY <2>2, <3>5 DEF LoopInv
  <2> QED  BY <2>3, <2>4
<1> QED  BY <1>3, <1>4, PTL DEF Spec

\* Responses are never mixed up: the n-th response to a client answers its n-th
\* request, none follows one that ends the connection, and what is on the wire is
\* these responses one behind the other, cut off anywhere.
THEOREM ReactorInOrder == Spec => []InOrder
<1>1. LoopInv => InOrder  BY DEF LoopInv, StreamInv
<1> QED  BY <1>1, ReactorLoopInvariant, PTL

\* A request is never forgotten: when the loop goes to sleep, a connection that waits
\* for input, or that the server has closed, has answered all it read in full.
THEOREM ReactorComplete == Spec => []Complete
<1>1. LoopInv => Complete
  <2> SUFFICES ASSUME LoopInv, ~stray, pc = "wait", NEW c \in Clients \ failed, NEW a, a = answered[c],
                      rcvd[c] > 0, peer[c] = "open",
                      Connected(c) => conns[FdOf(c)].state = "ST_READING"
               PROVE  /\ Len(out[c]) = EndOf(a, Len(a))
                      /\ \/ NoRequest(c, PosOf(a, Len(a)), rcvd[c])
                         \/ a # <<>> /\ ~Keeps(a[Len(a)].req)
    BY DEF Complete
  <2>1. TableInv /\ Hands /\ Exchange  BY DEF LoopInv, EventInv, StreamInv
  <2>2. CASE Connected(c)
    <3>1. PICK f \in Open : f = FdOf(c) /\ conns[f].client = c
      <4>1. FdOf(c) \in Fds /\ fds[FdOf(c)] = <<"sock", c>>  BY <2>2, FdOfIs
      <4>2. FdOf(c) \in Open /\ fds[FdOf(c)] = <<"sock", conns[FdOf(c)].client>>
        BY <2>1, <4>1 DEF Hands, Owns
      <4>3. conns[FdOf(c)].client = c  BY SMTT(60), <4>1, <4>2
      <4> QED  BY <4>2, <4>3
    <3>2. Flows(f) /\ conns[f].state = "ST_READING" /\ ~Handled(f)
      BY <2>1, <2>2, <3>1 DEF Exchange, Handled
    <3>3. Awaits(f, conns[f], a)  BY <3>1, <3>2 DEF Flows, Progress
    <3> QED  BY <3>1, <3>2, <3>3 DEF Awaits
  <2>3. CASE ~Connected(c)  BY <2>1, <2>3 DEF Exchange, Outside, Ended
  <2> QED  BY <2>2, <2>3
<1> QED  BY <1>1, ReactorLoopInvariant, PTL
=============================================================================
