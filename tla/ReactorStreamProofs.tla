------------------------ MODULE ReactorStreamProofs -------------------------
(***************************************************************************)
(* The third layer of the invariant of the reactor, StreamInv: what is in  *)
(* the buffers and offsets of a connection accounts for every request that *)
(* was read and every unit of a response that was written.                 *)
(***************************************************************************)
EXTENDS ReactorSteps

USE ZenonT(60)

\* The layer, as long as the reactor has closed no descriptor but its own.
Dialogue == (\A c \in Clients \ failed : Ordered(c, answered[c])) /\ Exchange

-----------------------------------------------------------------------------
(* What keeps the parts of the layer.                                      *)

\* Nothing is exchanged with the client c.
SameTraffic(c) ==
  stream'[c] = stream[c] /\ rcvd'[c] = rcvd[c] /\ out'[c] = out[c] /\ answered'[c] = answered[c]

\* The client c does not lose its connection while the reactor is there.
NotLost(c) ==
  /\ peer'[c] = "none" \/ Waits(c)' => peer[c] = "none" \/ Waits(c)
  /\ pc' # "destroyed" /\ ~Connected(c)' /\ rcvd[c] > 0 /\ peer'[c] = "open" =>
       pc # "destroyed" /\ ~Connected(c) /\ peer[c] = "open"

\* The responses to a client nothing is exchanged with.
LEMMA OrderedKept ==
  ASSUME NEW c, Ordered(c, answered[c]), SameTraffic(c)
  PROVE  Ordered(c, answered[c])'
<1>1. PICK a : a = answered[c] /\ a = answered'[c]  BY DEF SameTraffic
<1>2. Ordered(c, a)  BY <1>1
<1>3. ASSUME NEW n \in DOMAIN a PROVE AnswersNext(c, a, n)' /\ WrittenInPlace(c, a, n)'
  <2>1. AnswersNext(c, a, n) /\ WrittenInPlace(c, a, n)  BY <1>2, <1>3 DEF Ordered
  <2>2. AnswersNext(c, a, n)'  BY <2>1 DEF AnswersNext, SameTraffic, NoRequest
  <2>3. WrittenInPlace(c, a, n)'  BY <2>1 DEF WrittenInPlace, SameTraffic
  <2> QED  BY <2>2, <2>3
<1>4. Len(out'[c]) <= EndOf(a, Len(a))  BY <1>2 DEF Ordered, SameTraffic
<1>5. Ordered(c, a)'  BY <1>3, <1>4 DEF Ordered
<1> QED  BY <1>1, <1>5 DEF Ordered

\* A connection that stays as it is, with its client, and found a request before
\* as after the step if it is to find one.
LEMMA FlowsKept ==
  ASSUME NEW f, Flows(f), conns'[f] = conns[f], NEW k, k = conns[f].client, SameTraffic(k),
         failed \subseteq failed', (Handled(f) <=> Handled(f)') \/ conns[f].state # "ST_READING"
  PROVE  Flows(f)'
<1>1. PICK c : c = conns[f] /\ c = conns'[f] /\ k = c.client  OBVIOUS
<1>2. PICK a : a = answered[k] /\ a = answered'[k]  BY DEF SameTraffic
<1>3. Buffered(c) /\ (k \notin failed => Progress(f, c, a))  BY <1>1, <1>2 DEF Flows
<1>4. Buffered(c)'  BY <1>1, <1>3 DEF Buffered, SameTraffic
<1>5. ASSUME k \notin failed' PROVE Progress(f, c, a)'
  <2>1. Progress(f, c, a)  BY <1>3, <1>5
  <2>2. At(c)' = At(c)  BY <1>1 DEF At, SameTraffic
  <2>3. CASE c.state = "ST_READING"
    <3>1. Awaits(f, c, a) /\ (Handled(f) <=> Handled(f)')  BY <2>1, <2>3, <1>1 DEF Progress
    <3>2. Awaits(f, c, a)'  BY <3>1, <2>2, <1>1 DEF Awaits, SameTraffic, NoRequest
    <3> QED  BY <3>2, <2>3 DEF Progress
  <2>4. CASE c.state # "ST_READING"
    <3>1. a # <<>> /\ Sends(c, a[Len(a)])  BY <2>1, <2>4 DEF Progress
    <3>2. Sends(c, a[Len(a)])'
      BY <3>1, <2>2, <1>1 DEF Sends, SendsHead, SendsFile, SentWhole, SameTraffic
    <3> QED  BY <3>1, <3>2, <2>4 DEF Progress
  <2> QED  BY <2>3, <2>4
<1> QED  BY <1>1, <1>2, <1>4, <1>5 DEF Flows

\* What is known of a client that nothing is exchanged with.
LEMMA OutsideKept ==
  ASSUME NEW c, Outside(c), SameTraffic(c), NotLost(c), failed \subseteq failed'
  PROVE  Outside(c)'
<1>1. PICK a : a = answered[c] /\ a = answered'[c]  BY DEF SameTraffic
<1>2. EarlierOut(c, a) => EarlierOut(c, a)'  BY DEF EarlierOut, SameTraffic
<1>3. Ended(c, a) => Ended(c, a)'  BY DEF Ended, SameTraffic
<1>4. peer'[c] = "none" \/ Waits(c)' => rcvd'[c] = 0 /\ out'[c] = <<>> /\ answered'[c] = <<>>
  BY DEF Outside, NotLost, SameTraffic
<1>5. c \notin failed' =>
        /\ EarlierOut(c, a)'
        /\ pc' # "destroyed" /\ ~Connected(c)' /\ rcvd'[c] > 0 /\ peer'[c] = "open" => Ended(c, a)'
  BY <1>1, <1>2, <1>3 DEF Outside, NotLost, SameTraffic
<1> QED  BY <1>1, <1>4, <1>5 DEF Outside, EarlierOut, Ended

\* A connection whose input stays, of a client whose bytes stay, holds what it received.
LEMMA BufferedKept ==
  ASSUME NEW c, NEW d, Buffered(c), d.client = c.client, d.inbuf = c.inbuf,
         stream' = stream, rcvd' = rcvd
  PROVE  Buffered(d)'
BY DEF Buffered

\* A step keeps the layer if it keeps it for the connections F and the clients K it
\* is about.
LEMMA DialogueStep ==
  ASSUME Dialogue, NEW F, NEW K, failed \subseteq failed',
         \A c \in Clients \ K : SameTraffic(c) /\ NotLost(c),
         \A g \in Open' \ F :
           /\ g \in Open /\ conns'[g] = conns[g] /\ conns[g].client \in Clients \ K
           /\ (Handled(g) <=> Handled(g)') \/ conns[g].state # "ST_READING",
         \A g \in Open' \cap F : Flows(g)',
         \A c \in Clients \cap K :
           Outside(c)' /\ (c \notin failed' => Ordered(c, answered[c])')
  PROVE  Dialogue'
<1>1. ASSUME NEW g \in Open' \ F PROVE Flows(g)'
  BY <1>1, FlowsKept DEF Dialogue, Exchange
<1>2. ASSUME NEW c \in Clients \ K PROVE Outside(c)'
  BY <1>2, OutsideKept DEF Dialogue, Exchange
<1>3. ASSUME NEW c \in Clients \ K, c \notin failed' PROVE Ordered(c, answered[c])'
  BY <1>3, OrderedKept DEF Dialogue
<1>4. Exchange'  BY <1>1, <1>2 DEF Exchange
<1>5. \A c \in Clients \ failed' : Ordered(c, answered[c])'  BY <1>3
<1> QED  BY <1>4, <1>5 DEF Dialogue

\* The clients with a socket are those of the connections.
LEMMA ConnectedIs ==
  TableInv /\ Hands => \A c \in Clients : Connected(c) <=> \E g \in Open : conns[g].client = c
<1> SUFFICES ASSUME TableInv, Hands, NEW c \in Clients
             PROVE  Connected(c) <=> \E g \in Open : conns[g].client = c
  OBVIOUS
<1>1. ASSUME Connected(c) PROVE \E g \in Open : conns[g].client = c
  <2>1. PICK f \in Fds : fds[f] = <<"sock", c>>  BY <1>1 DEF Connected
  <2>2. f \in Open /\ fds[f] = <<"sock", conns[f].client>>  BY <2>1 DEF Hands, Owns
  <2>3. conns[f].client = c  BY SMTT(60), <2>1, <2>2
  <2> QED  BY <2>2, <2>3
<1>2. \A g \in Open : Connected(conns[g].client)  BY OwnSocket
<1> QED  BY <1>1, <1>2

\* A client with a socket was accepted.
LEMMA AcceptedIs ==
  ASSUME TableInv, Hands, NEW f \in Open, NEW k, k = conns[f].client
  PROVE  k \in Clients /\ peer[k] # "none" /\ ~Waits(k) /\ Connected(k)
<1>1. k \in Clients /\ Connected(k)  BY OwnSocket
<1> QED  BY <1>1 DEF TableInv, Sockets

\* Nothing is read, written, answered, accepted or closed.
LEMMA StillDialogue ==
  ASSUME TableInv, Hands, Events, Events', Dialogue,
         UNCHANGED <<stream, rcvd, out, log, conns, fds>>,
         pc = "destroyed" => pc' = "destroyed", pc' # "killed" \/ pc = "write" \/ pc' = pc,
         \/ pc \notin {"build", "killed"} /\ pc' # "build" /\ (pc' = "killed" => cur' = cur)
         \/ UNCHANGED <<pc, cur>>,
         \A c \in Clients :
           /\ peer'[c] = "none" \/ Waits(c)' => peer[c] = "none" \/ Waits(c)
           /\ peer'[c] = "open" => peer[c] = "open" \/ rcvd[c] = 0
  PROVE  Dialogue'
<1>1. failed' = failed /\ Open' = Open  BY DEF log, Open
<1>2. \A c \in Clients : ~(rcvd[c] > 0 /\ rcvd[c] = 0)  BY SMTT(60)
<1>3. \A c : Connected(c)' <=> Connected(c)  BY DEF Connected
<1>4. ASSUME NEW c \in Clients PROVE SameTraffic(c) /\ NotLost(c)
  BY <1>2, <1>3, <1>4 DEF SameTraffic, NotLost, log
<1>5. ASSUME NEW g \in Open
      PROVE  (Handled(g) <=> Handled(g)') \/ conns[g].state # "ST_READING"
  <2>1. pc = "write" => conns[cur].state = "ST_WRITING"  BY DEF Events, Handling
  <2>2. pc' = "write" => conns'[cur'].state = "ST_WRITING"  BY DEF Events, Handling
  <2> QED  BY <2>1, <2>2 DEF Handled
<1>6. \A g \in Open : conns[g].client \in Clients  BY AcceptedIs
<1> DEFINE none == {}
<1>7. \A c \in Clients \ none : SameTraffic(c) /\ NotLost(c)  BY <1>4
<1>8. \A g \in Open' \ none :
        /\ g \in Open /\ conns'[g] = conns[g] /\ conns[g].client \in Clients \ none
        /\ (Handled(g) <=> Handled(g)') \/ conns[g].state # "ST_READING"
  BY <1>1, <1>5, <1>6
<1>9. Open' \cap none = {} /\ Clients \cap none = {}  OBVIOUS
<1> HIDE DEF none
<1> QED  BY <1>1, <1>7, <1>8, <1>9, DialogueStep

\* A step that changes the connection of a handler keeps the layer for the others.
LEMMA StoredDialogue ==
  ASSUME TableInv, Hands, TableInv', Hands', Dialogue, pc \in {"read", "build", "write"},
         pc' \in {"read", "build", "write", "dispatch"}, cur' = cur,
         NEW k, k = conns[cur].client, NEW d \in Conn, Stored(d), d.client = k,
         UNCHANGED <<stream, peer, backlog>>, failed \subseteq failed',
         \A c \in Clients \ {k} : rcvd'[c] = rcvd[c] /\ out'[c] = out[c] /\ answered'[c] = answered[c],
         Flows(cur)',
         k \notin failed' => Ordered(k, answered[k])' /\ EarlierOut(k, answered[k])'
  PROVE  Dialogue'
<1>1. cur \in Open  BY CurConn
<1>2. Open' = Open /\ conns'[cur] = d /\ \A g \in Open \ {cur} : conns'[g] = conns[g]
  BY <1>1, StoredIs
<1>3. /\ k \in Clients /\ \A g \in Open : g \in Fds /\ conns[g].client \in Clients
      /\ \A g \in Open : conns[g].client = k => g = cur
  <2>1. \A g \in Open : g \in Fds /\ conns[g].client \in Clients  BY OwnSocket
  <2>2. \A g \in Open : conns[g].client = conns[cur].client => g = cur  BY <1>1, OwnSocket
  <2> QED  BY <1>1, <2>1, <2>2
<1>4. \A c \in Clients : Connected(c) <=> \E g \in Open : conns[g].client = c  BY ConnectedIs
<1>5. \A c \in Clients : Connected(c)' <=> \E g \in Open' : conns'[g].client = c
  <2>1. (TableInv /\ Hands)' => (\A c \in Clients : Connected(c) <=> \E g \in Open : conns[g].client = c)'
    BY ConnectedIs, PTL
  <2> QED  BY <2>1
<1>6. ASSUME NEW c \in Clients PROVE Connected(c)' <=> Connected(c)
  <2>1. \A g \in Open : conns'[g].client = conns[g].client
    <3>1. conns'[cur].client = conns[cur].client  BY <1>2
    <3> QED  BY <1>2, <3>1
  <2>2. (\E g \in Open' : conns'[g].client = c) <=> (\E g \in Open : conns[g].client = c)
    BY <1>2, <2>1
  <2> QED  BY <1>4, <1>5, <2>2
<1>7. ASSUME NEW c \in Clients \ {k} PROVE SameTraffic(c) /\ NotLost(c)
  BY <1>6, <1>7 DEF SameTraffic, NotLost, Waits
<1>8. \A g \in Open' \ {cur} :
        /\ g \in Open /\ conns'[g] = conns[g] /\ conns[g].client \in Clients \ {k}
        /\ (Handled(g) <=> Handled(g)') \/ conns[g].state # "ST_READING"
  BY <1>2, <1>3 DEF Handled
<1>9. \A g \in Open' \cap {cur} : Flows(g)'  OBVIOUS
<1>10. peer[k] # "none" /\ ~Waits(k) /\ Connected(k)  BY <1>1, AcceptedIs
<1>11. Outside(k)'  BY <1>3, <1>6, <1>10 DEF Outside, Waits
<1>12. \A c \in Clients \cap {k} : Outside(c)' /\ (c \notin failed' => Ordered(c, answered[c])')
  BY <1>11
<1> QED  BY <1>7, <1>8, <1>9, <1>12, DialogueStep

\* conn_close() of the connection at f: its client hung up, the exchange has ended,
\* or a call failed.
LEMMA ClosedDialogue ==
  ASSUME TableInv, Hands, TableInv', Hands', Dialogue, NEW f \in Open, conn_close(f),
         pc = "dispatch" \/ (pc \in {"read", "write"} /\ f = cur), pc' = "dispatch",
         UNCHANGED <<quiet, net, answered>>, failed \subseteq failed', NEW k, k = conns[f].client,
         k \in failed' \/ peer[k] # "open" \/ Ended(k, answered[k])
  PROVE  Dialogue'
<1>1. /\ f \in Fds /\ k \in Clients
      /\ \A g \in Open : conns[g].client \in Clients /\ (conns[g].client = k => g = f)
  BY OwnSocket
<1>2. conns' = [conns EXCEPT ![f] = NoConn] /\ ConnsOK  BY DEF conn_close, TableInv, TypeOK
<1>3. Open' = Open \ {f} /\ \A g \in Fds \ {f} : conns'[g] = conns[g]  BY <1>1, <1>2, ConnFreed
<1>4. \A c \in Clients : Connected(c) <=> \E g \in Open : conns[g].client = c  BY ConnectedIs
<1>5. \A c \in Clients : Connected(c)' <=> \E g \in Open' : conns'[g].client = c
  <2>1. (TableInv /\ Hands)' => (\A c \in Clients : Connected(c) <=> \E g \in Open : conns[g].client = c)'
    BY ConnectedIs, PTL
  <2> QED  BY <2>1
<1>6. \A g \in Open : g \in Fds  BY DEF Open
<1>7. UNCHANGED <<stream, rcvd, out, answered, peer, backlog>>  BY DEF quiet, client, net
<1>8. ASSUME NEW c \in Clients \ {k} PROVE SameTraffic(c) /\ NotLost(c)
  <2>1. Connected(c) => Connected(c)'  BY <1>3, <1>4, <1>5, <1>6
  <2> QED  BY <2>1, <1>7 DEF SameTraffic, NotLost, Waits
<1> DEFINE none == {}
<1>9. \A g \in Open' \ none :
        /\ g \in Open /\ conns'[g] = conns[g] /\ conns[g].client \in Clients \ {k}
        /\ (Handled(g) <=> Handled(g)') \/ conns[g].state # "ST_READING"
  BY <1>1, <1>3, <1>6 DEF Handled
<1>10. SameTraffic(k)  BY <1>7 DEF SameTraffic
<1>11. k \notin failed => Ordered(k, answered[k])'  BY <1>1, <1>10, OrderedKept DEF Dialogue
<1>12. Outside(k)  BY <1>1 DEF Dialogue, Exchange
<1>13. Outside(k)'
  BY <1>7, <1>12 DEF Outside, Waits, EarlierOut, Ended
<1>14. Open' \cap none = {}  OBVIOUS
<1> HIDE DEF none
<1>15. \A g \in Open' \cap none : Flows(g)'  BY <1>14
<1>16. \A c \in Clients \cap {k} : Outside(c)' /\ (c \notin failed' => Ordered(c, answered[c])')
  BY <1>7, <1>11, <1>13
<1> QED  BY <1>8, <1>9, <1>15, <1>16, DialogueStep

-----------------------------------------------------------------------------
(* conn_read.                                                              *)

\* What a handler knows of the exchange over its connection.
LEMMA AtStream ==
  ASSUME TableInv, Hands, Events, Dialogue, pc \in {"read", "build", "write"},
         NEW c, c = conns[cur], NEW k, k = c.client, NEW a, a = answered[k]
  PROVE  /\ cur \in Open /\ k \in Clients /\ SockAt(cur) = {k}
         /\ c \in Conn /\ Within(c) /\ Owns(cur, c)
         /\ c.state = IF pc = "write" THEN "ST_WRITING" ELSE "ST_READING"
         /\ a \in Seq(Answer) /\ rcvd[k] \in Nat /\ rcvd[k] <= Len(stream[k])
         /\ stream[k] \in Seq(Tokens) /\ out[k] \in Seq(Unit)
         /\ Buffered(c)
         /\ k \notin failed => Progress(cur, c, a) /\ Ordered(k, a) /\ EarlierOut(k, a)
<1>1. /\ cur \in Open /\ k \in Clients /\ SockAt(cur) = {k}
      /\ c \in Conn /\ Within(c) /\ Owns(cur, c)
      /\ c.state = IF pc = "write" THEN "ST_WRITING" ELSE "ST_READING"
  BY AtHand
<1>2. /\ stream[k] \in Streams /\ out[k] \in Seq(Unit)
      /\ sent[k] \in Nat /\ rcvd[k] \in Nat /\ rcvd[k] <= sent[k] /\ sent[k] <= Len(stream[k])
  BY <1>1 DEF TableInv, TypeOK, StreamOK
<1>3. stream[k] \in Seq(Tokens)  BY <1>2, ReactorBounds
<1>4. rcvd[k] <= Len(stream[k])  BY SMTT(60), <1>2, <1>3
<1>5. a \in Seq(Answer)  BY <1>1 DEF TableInv, TypeOK, LogOK
<1>6. Flows(cur) /\ Outside(k)  BY <1>1 DEF Dialogue, Exchange
<1>7. Buffered(c) /\ (k \notin failed => Progress(cur, c, a))  BY <1>6 DEF Flows
<1>8. k \notin failed => Ordered(k, a) /\ EarlierOut(k, a)  BY <1>1, <1>6 DEF Dialogue, Outside
<1> QED  BY <1>1, <1>2, <1>3, <1>4, <1>5, <1>7, <1>8

\* The fields of a response.
LEMMA AnswerFields ==
  ASSUME NEW a \in Seq(Answer), NEW n \in 1 .. Len(a)
  PROVE  /\ a[n].req \in Tokens /\ a[n].code \in Nat /\ a[n].body \in Nat
         /\ a[n].pos \in Int /\ a[n].from \in Nat
<1>1. a[n] \in Answer  BY SMTT(60)
<1> QED  BY SMTT(60), <1>1 DEF Answer

\* Reading more leaves the responses in order.
LEMMA OrderedReads ==
  ASSUME NEW c, NEW a \in Seq(Answer), Ordered(c, a), stream'[c] = stream[c], out'[c] = out[c],
         rcvd[c] \in Nat, rcvd'[c] \in Nat, rcvd[c] <= rcvd'[c]
  PROVE  Ordered(c, a)'
<1>1. ASSUME NEW n \in DOMAIN a PROVE AnswersNext(c, a, n)' /\ WrittenInPlace(c, a, n)'
  <2>1. AnswersNext(c, a, n) /\ WrittenInPlace(c, a, n)  BY <1>1 DEF Ordered
  <2>2. n \in 1 .. Len(a)  BY SMTT(60)
  <2>3. a[n].pos \in Int  BY <2>2, AnswerFields
  <2>4. a[n].pos <= rcvd[c]  BY <2>1 DEF AnswersNext
  <2>5. a[n].pos <= rcvd'[c]  BY SMTT(60), <2>3, <2>4
  <2>6. AnswersNext(c, a, n)'  BY <2>1, <2>5 DEF AnswersNext, NoRequest
  <2>7. WrittenInPlace(c, a, n)'  BY <2>1 DEF WrittenInPlace
  <2> QED  BY <2>6, <2>7
<1>2. Len(out'[c]) <= EndOf(a, Len(a))  BY DEF Ordered
<1> QED  BY <1>1, <1>2 DEF Ordered

\* The last request answered was read.
LEMMA LastPos ==
  ASSUME NEW c, NEW a \in Seq(Answer), Ordered(c, a), rcvd[c] \in Nat
  PROVE  PosOf(a, Len(a)) \in Int /\ PosOf(a, Len(a)) <= rcvd[c]
<1>1. CASE Len(a) = 0  BY SMTT(60), <1>1 DEF PosOf
<1>2. CASE Len(a) # 0
  <2>1. Len(a) \in 1 .. Len(a) /\ Len(a) \in DOMAIN a  BY SMTT(60), <1>2
  <2>2. a[Len(a)].pos \in Int  BY <2>1, AnswerFields
  <2>3. a[Len(a)].pos <= rcvd[c]  BY <2>1 DEF Ordered, AnswersNext
  <2> QED  BY <1>2, <2>2, <2>3 DEF PosOf
<1> QED  BY <1>1, <1>2

\* The n bytes of a stream behind r.
LEMMA SliceIs ==
  ASSUME NEW s \in Seq(Tokens), NEW r \in Nat, NEW n \in Nat, r + n <= Len(s)
  PROVE  LET v == SubSeq(s, r + 1, r + n) IN
         v \in Seq(Tokens) /\ Len(v) = n /\ \A j \in 1 .. n : v[j] = s[r + j]
<1>1. SubSeq(s, r + 1, r + n) \in Seq(Tokens) /\ Len(SubSeq(s, r + 1, r + n)) = n  BY SMTT(60)
<1>2. \A j \in 1 .. n : SubSeq(s, r + 1, r + n)[j] = s[r + j]  BY SMTT(60)
<1> QED  BY <1>1, <1>2

\* conn_read: the bytes read, up to the first request among them.
LEMMA ReadStream ==
  ASSUME TableInv, Hands, Events, TableInv', Hands', Dialogue, Read
  PROVE  Dialogue'
<1>1. PICK c, k, a : c = conns[cur] /\ k = c.client /\ a = answered[k]  OBVIOUS
<1>2. pc = "read" /\ UNCHANGED <<stream, peer, backlog, out, cur>>
  BY ReadEffect DEF quiet, client, event
<1>3. /\ cur \in Open /\ k \in Clients /\ SockAt(cur) = {k} /\ c.state = "ST_READING"
      /\ a \in Seq(Answer) /\ rcvd[k] \in Nat /\ rcvd[k] <= Len(stream[k])
      /\ stream[k] \in Seq(Tokens)
      /\ k \notin failed => Progress(cur, c, a) /\ Ordered(k, a) /\ EarlierOut(k, a)
  BY <1>1, <1>2, AtStream
<1>4. PICK b : b = Compact(conns[cur])  OBVIOUS
<1>5. SameSide(c, b) /\ SameHead(c, b) /\ b.inbuf = <<>> /\ b.in_head = 0
  BY <1>1, <1>2, <1>4, ReadsIntoEmpty
<1>6. UNCHANGED log /\ \E n \in Nat, d \in Conn : Taken(k, b, n, d) /\ Stored(d)
  <2>1. Len(b.inbuf) # BUFFER_SIZE  BY SMTT(60), <1>5, ReactorBounds
  <2> QED  BY <1>3, <1>4, <2>1, ReadEffect
<1>7. PICK n \in Nat, d \in Conn : Taken(k, b, n, d) /\ Stored(d)  BY <1>6
<1>8. /\ d.client = k /\ d.state = "ST_READING" /\ d.head = c.head
      /\ n \in Nat \ {0} /\ rcvd'[k] = rcvd[k] + n
      /\ \A x \in Clients \ {k} : rcvd'[x] = rcvd[x]
  <2>1. rcvd' = [rcvd EXCEPT ![k] = @ + n] /\ DOMAIN rcvd = Clients
    BY <1>7 DEF Taken, TableInv, TypeOK, StreamOK
  <2>2. n \in Nat \ {0}  BY <1>7 DEF Taken
  <2>3. d.client = k /\ d.state = "ST_READING" /\ d.head = c.head
    BY <1>1, <1>3, <1>5, <1>7 DEF Taken, SameSide, SameHead
  <2> QED  BY <1>3, <2>1, <2>2, <2>3
<1>9. Len(d.inbuf) = n /\ \A j \in 1 .. n : d.inbuf[j] = stream[k][rcvd[k] + j]
  <2>1. /\ sent[k] \in Nat /\ sent[k] <= Len(stream[k]) /\ rcvd[k] + n <= sent[k]
        /\ d.inbuf = <<>> \o SubSeq(stream[k], rcvd[k] + 1, rcvd[k] + n)
    BY <1>3, <1>5, <1>7 DEF Taken, TableInv, TypeOK, StreamOK
  <2>2. rcvd[k] + n <= Len(stream[k])  BY SMTT(60), <1>3, <1>8, <2>1
  <2>3. /\ stream[k] \in Seq(Tokens) /\ rcvd[k] \in Nat /\ rcvd[k] + n <= Len(stream[k])
        /\ d.inbuf = <<>> \o SubSeq(stream[k], rcvd[k] + 1, rcvd[k] + n)
    BY <1>3, <2>1, <2>2
  <2>4. PICK s, r, v : s = stream[k] /\ r = rcvd[k] /\ v = SubSeq(s, r + 1, r + n)  OBVIOUS
  <2>5. s \in Seq(Tokens) /\ r \in Nat /\ r + n <= Len(s)  BY <2>3, <2>4
  <2>6. v \in Seq(Tokens) /\ Len(v) = n  BY <2>4, <2>5, SliceIs
  <2>7. \A j \in 1 .. n : v[j] = s[r + j]  BY <2>4, <2>5, SliceIs
  <2>8. <<>> \o v = v  BY SMTT(60), <2>6
  <2>9. d.inbuf = v  BY <2>3, <2>4, <2>8
  <2> QED  BY <2>4, <2>6, <2>7, <2>9
<1>10. d.inbuf \in Seq(Tokens) /\ d.in_head \in Nat /\ d.in_head <= n
  BY <1>7, <1>9, ConnFields DEF Stored, Within
<1>11. conns'[cur] = d  BY <1>3, <1>7, StoredIs
<1>12. Buffered(d)'
  <2>1. /\ n <= rcvd'[k]
        /\ \A j \in 1 .. n : d.inbuf[j] = stream[k][rcvd'[k] - n + j]
    BY SMTT(60), <1>3, <1>8, <1>9
  <2> QED  BY <1>2, <1>8, <1>9, <2>1 DEF Buffered
<1>13. answered' = answered /\ failed' = failed  BY <1>6 DEF log
<1>14. ASSUME k \notin failed PROVE Progress(cur, d, a)' /\ Ordered(k, a)' /\ EarlierOut(k, a)'
  <2>1. Awaits(cur, c, a) /\ Ordered(k, a) /\ EarlierOut(k, a)  BY <1>3, <1>14 DEF Progress
  <2>2. PICK p : p = PosOf(a, Len(a))  OBVIOUS
  <2>3. p \in Int /\ p <= rcvd[k]  BY <2>1, <2>2, <1>3, LastPos
  <2>4. \A x \in p + 1 .. rcvd[k] : ~IsRequest(stream[k][x])
    BY <1>1, <1>2, <2>1, <2>2 DEF Awaits, Handled, NoRequest
  <2>5. PICK q : q = rcvd[k] + d.in_head /\ q = At(d)'
    <3>1. rcvd'[k] - n + d.in_head = rcvd[k] + d.in_head  BY SMTT(60), <1>3, <1>8, <1>10
    <3> QED  BY <1>8, <1>9, <3>1 DEF At
  <2>6. /\ d.head = <<>> /\ Len(out[k]) = EndOf(a, Len(a)) /\ (a # <<>> => Keeps(a[Len(a)].req))
    BY <1>1, <1>8, <2>1 DEF Awaits
  <2>7. IF Handled(cur)'
        THEN p < q /\ NoRequest(k, p, q - 1)' /\ IsRequest(d.inbuf[d.in_head])
        ELSE NoRequest(k, p, rcvd[k])'
    <3>1. CASE /\ pc' = "build" /\ 0 < d.in_head /\ IsRequest(d.inbuf[d.in_head])
               /\ \A x \in 0 + 1 .. d.in_head - 1 : ~IsRequest(d.inbuf[x])
      <4>1. p < q  BY SMTT(60), <1>3, <1>10, <2>3, <2>5, <3>1
      <4>2. ASSUME NEW x \in p + 1 .. q - 1 PROVE ~IsRequest(stream[k][x])
        <5>1. CASE x <= rcvd[k]
          <6>1. x \in p + 1 .. rcvd[k]  BY SMTT(60), <1>3, <1>10, <2>3, <2>5, <5>1
          <6> QED  BY <6>1, <2>4
        <5>2. CASE ~(x <= rcvd[k])
          <6>1. /\ x - rcvd[k] \in 0 + 1 .. d.in_head - 1 /\ x - rcvd[k] \in 1 .. n
                /\ rcvd[k] + (x - rcvd[k]) = x
            BY SMTT(60), <1>3, <1>8, <1>10, <2>3, <2>5, <5>2
          <6>2. d.inbuf[x - rcvd[k]] = stream[k][x]  BY <6>1, <1>9
          <6> QED  BY <6>1, <6>2, <3>1
        <5> QED  BY <5>1, <5>2
      <4>3. NoRequest(k, p, q - 1)'  BY <1>2, <4>2 DEF NoRequest
      <4> QED  BY <1>2, <3>1, <4>1, <4>3 DEF Handled
    <3>2. CASE /\ pc' = "read" /\ d.in_head = Len(d.inbuf)
               /\ \A x \in 0 + 1 .. d.in_head : ~IsRequest(d.inbuf[x])
      <4>1. ASSUME NEW x \in p + 1 .. rcvd[k] + n PROVE ~IsRequest(stream[k][x])
        <5>1. CASE x <= rcvd[k]
          <6>1. x \in p + 1 .. rcvd[k]  BY SMTT(60), <1>3, <1>8, <2>3, <5>1
          <6> QED  BY <6>1, <2>4
        <5>2. CASE ~(x <= rcvd[k])
          <6>1. /\ x - rcvd[k] \in 0 + 1 .. d.in_head /\ x - rcvd[k] \in 1 .. n
                /\ rcvd[k] + (x - rcvd[k]) = x
            BY SMTT(60), <1>3, <1>8, <1>9, <2>3, <3>2, <5>2
          <6>2. d.inbuf[x - rcvd[k]] = stream[k][x]  BY <6>1, <1>9
          <6> QED  BY <6>1, <6>2, <3>2
        <5> QED  BY <5>1, <5>2
      <4> QED  BY <1>2, <1>8, <3>2, <4>1 DEF NoRequest, Handled
    <3> QED  BY <1>5, <1>7, <3>1, <3>2 DEF Taken
  <2>8. Awaits(cur, d, a)'  BY <1>2, <1>8, <2>2, <2>5, <2>6, <2>7 DEF Awaits, NoRequest
  <2>9. rcvd'[k] \in Nat /\ rcvd[k] <= rcvd'[k]  BY SMTT(60), <1>3, <1>8
  <2>10. Ordered(k, a)'  BY <1>2, <1>3, <2>1, <2>9, OrderedReads
  <2>11. EarlierOut(k, a)'  BY <1>2, <2>1 DEF EarlierOut
  <2> QED  BY <1>8, <2>8, <2>10, <2>11 DEF Progress
<1>15. Flows(cur)'
  <2>1. answered'[k] = a  BY <1>1, <1>13
  <2> QED  BY <1>2, <1>8, <1>11, <1>12, <1>13, <1>14, <2>1 DEF Flows
<1>16. k \notin failed' => Ordered(k, answered[k])' /\ EarlierOut(k, answered[k])'
  BY <1>1, <1>13, <1>14 DEF Ordered, EarlierOut
<1>17. pc' \in {"read", "build", "write", "dispatch"}  BY <1>7 DEF Taken
<1> QED  BY <1>1, <1>2, <1>7, <1>8, <1>13, <1>15, <1>16, <1>17, StoredDialogue

\* conn_read, the socket is drained: what was read holds no request.
LEMMA DrainedStream ==
  ASSUME TableInv, Hands, Events, TableInv', Hands', Dialogue, ReadDrained
  PROVE  Dialogue'
<1>1. PICK c, k, a, d : c = conns[cur] /\ k = c.client /\ a = answered[k] /\ d = Compact(conns[cur])
  OBVIOUS
<1>2. /\ pc = "read" /\ UNCHANGED <<stream, peer, backlog, rcvd, out, answered, failed, cur>>
      /\ pc' \in {"write", "dispatch"}
  BY DEF ReadDrained, Return, quiet, client, net, log
<1>3. /\ cur \in Open /\ k \in Clients /\ c.state = "ST_READING" /\ rcvd[k] \in Nat
      /\ k \notin failed => Progress(cur, c, a) /\ Ordered(k, a) /\ EarlierOut(k, a)
  BY <1>1, <1>2, AtStream
<1>4. /\ d \in Conn /\ Within(d) /\ d.client = k /\ d.state = "ST_READING" /\ d.head = c.head
      /\ d.inbuf = <<>>
  BY <1>1, <1>2, <1>3, ReadsIntoEmpty DEF SameSide, SameHead
<1>5. Stored(d)  BY <1>1, <1>4 DEF Stored, ReadDrained
<1>6. conns'[cur] = d  BY <1>3, <1>4, <1>5, StoredIs
<1>7. Buffered(d)'
  <2>1. Len(d.inbuf) <= rcvd[k] /\ 1 .. Len(d.inbuf) = {}  BY SMTT(60), <1>3, <1>4
  <2> QED  BY <1>2, <1>4, <2>1 DEF Buffered
<1>8. ASSUME k \notin failed PROVE Progress(cur, d, a)' /\ Ordered(k, a)' /\ EarlierOut(k, a)'
  <2>1. Awaits(cur, c, a) /\ Ordered(k, a) /\ EarlierOut(k, a)  BY <1>3, <1>8 DEF Progress
  <2>2. pc' = "dispatch"  BY <1>2 DEF ReadDrained, Return, Events, Handling
  <2>3. ~Handled(cur) /\ ~Handled(cur)'  BY <1>2, <2>2 DEF Handled
  <2>4. Awaits(cur, d, a)'  BY <1>1, <1>2, <1>4, <2>1, <2>3 DEF Awaits, NoRequest
  <2>5. SameTraffic(k)  BY <1>2 DEF SameTraffic
  <2>6. Ordered(k, a)'  BY <1>1, <1>2, <2>1, <2>5, OrderedKept DEF Ordered
  <2>7. EarlierOut(k, a)'  BY <1>2, <2>1 DEF EarlierOut
  <2> QED  BY <1>4, <2>4, <2>6, <2>7 DEF Progress
<1>9. Flows(cur)'
  <2>1. answered'[k] = a  BY <1>1, <1>2
  <2> QED  BY <1>2, <1>4, <1>6, <1>7, <1>8, <2>1 DEF Flows
<1>10. k \notin failed' => Ordered(k, answered[k])' /\ EarlierOut(k, answered[k])'
  BY <1>1, <1>2, <1>8 DEF Ordered, EarlierOut
<1> QED  BY <1>1, <1>2, <1>4, <1>5, <1>9, <1>10, StoredDialogue

-----------------------------------------------------------------------------
(* build_response.                                                         *)

\* The response r joins the responses a to the client k.
LEMMA OrderedAppends ==
  ASSUME NEW k, NEW a \in Seq(Answer), NEW r \in Answer, NEW b, b = Append(a, r),
         Ordered(k, a), EarlierOut(k, a), Len(out[k]) = EndOf(a, Len(a)),
         a # <<>> => Keeps(a[Len(a)].req), out[k] \in Seq(Unit),
         stream'[k] = stream[k], rcvd'[k] = rcvd[k], out'[k] = out[k],
         PosOf(a, Len(a)) < r.pos, r.pos <= rcvd[k], NoRequest(k, PosOf(a, Len(a)), r.pos - 1),
         IsRequest(r.req), stream[k][r.pos] = r.req, r.from = Len(out[k])
  PROVE  Ordered(k, b)' /\ EarlierOut(k, b)' /\ b # <<>> /\ b[Len(b)] = r
<1>1. /\ Len(a) \in Nat /\ Len(b) = Len(a) + 1 /\ DOMAIN b = 1 .. Len(b) /\ DOMAIN a = 1 .. Len(a)
      /\ b # <<>> /\ b[Len(b)] = r /\ \A n \in 1 .. Len(a) : b[n] = a[n]
  BY SMTT(60)
<1>2. PICK l \in Nat : l = Len(a) /\ Len(b) = l + 1  BY <1>1
<1>3. r.body \in Nat /\ HeadLen \in Nat /\ Len(out[k]) \in Nat  BY SMTT(60), ReactorBounds DEF Answer
<1>4. ASSUME NEW n \in 0 .. Len(a) PROVE PosOf(b, n) = PosOf(a, n) /\ EndOf(b, n) = EndOf(a, n)
  <2>1. n = 0 \/ n \in 1 .. Len(a)  BY SMTT(60), <1>1
  <2> QED  BY <1>1, <2>1 DEF PosOf, EndOf
<1>5. ASSUME NEW n \in 1 .. Len(a) PROVE AnswersNext(k, b, n)' /\ WrittenInPlace(k, b, n)'
  <2>1. AnswersNext(k, a, n) /\ WrittenInPlace(k, a, n)  BY <1>1, <1>5 DEF Ordered
  <2>2. n - 1 \in 0 .. Len(a) /\ (n < Len(a) \/ n = Len(a)) /\ (Len(a) # 0)
    <3>1. n \in 1 .. l  BY <1>2, <1>5
    <3>2. n - 1 \in 0 .. l /\ (n < l \/ n = l) /\ l # 0  BY SMTT(60), <3>1
    <3> QED  BY <1>2, <3>2
  <2>3. Keeps(a[n].req)
    <3>1. a # <<>>  BY SMTT(60), <2>2
    <3> QED  BY <3>1, <2>1, <2>2 DEF AnswersNext
  <2>4. b[n] = a[n] /\ PosOf(b, n - 1) = PosOf(a, n - 1) /\ EndOf(b, n - 1) = EndOf(a, n - 1)
    BY <1>1, <1>4, <2>2
  <2>5. AnswersNext(k, b, n)'  BY <2>1, <2>3, <2>4 DEF AnswersNext, NoRequest
  <2>6. WrittenInPlace(k, b, n)'  BY <2>1, <2>4 DEF WrittenInPlace
  <2> QED  BY <2>5, <2>6
<1>6. PICK m : m = Len(b)  OBVIOUS
<1>7. AnswersNext(k, b, m)' /\ WrittenInPlace(k, b, m)'
  <2>1. m - 1 = Len(a) /\ Len(a) \in 0 .. Len(a) /\ ~(m < Len(b))  BY SMTT(60), <1>1, <1>6
  <2>2. b[m] = r /\ PosOf(b, m - 1) = PosOf(a, Len(a)) /\ EndOf(b, m - 1) = EndOf(a, Len(a))
    BY <1>1, <1>4, <1>6, <2>1
  <2>3. AnswersNext(k, b, m)'  BY <2>1, <2>2 DEF AnswersNext, NoRequest
  <2>4. \A j \in 1 .. HeadLen + r.body : ~(Len(out[k]) + j <= Len(out[k]))  BY SMTT(60), <1>3
  <2>5. WrittenInPlace(k, b, m)'  BY <2>2, <2>4 DEF WrittenInPlace
  <2> QED  BY <2>3, <2>5
<1>8. \A n \in DOMAIN b : n \in 1 .. Len(a) \/ n = m  BY SMTT(60), <1>1, <1>6
<1>9. Len(out'[k]) <= EndOf(b, Len(b))
  <2>1. EndOf(b, Len(b)) = Len(out[k]) + HeadLen + r.body  BY SMTT(60), <1>1 DEF EndOf
  <2> QED  BY SMTT(60), <1>3, <2>1
<1>10. Ordered(k, b)'  BY <1>5, <1>7, <1>8, <1>9 DEF Ordered
<1>11. ASSUME NEW n \in 1 .. Len(b) - 1 PROVE EndOf(b, n) <= Len(out[k])
  <2>1. n \in 0 .. Len(a) /\ (n \in 1 .. Len(a) - 1 \/ n = Len(a)) /\ Len(out[k]) <= Len(out[k])
    <3>1. n \in 1 .. l + 1 - 1  BY SMTT(60), <1>2, <1>11
    <3>2. n \in 0 .. l /\ (n \in 1 .. l - 1 \/ n = l)  BY SMTT(60), <3>1
    <3>3. Len(out[k]) <= Len(out[k])  BY SMTT(60), <1>3
    <3> QED  BY <1>2, <3>2, <3>3
  <2> QED  BY <1>4, <2>1 DEF EarlierOut
<1>12. EarlierOut(k, b)'  BY <1>11 DEF EarlierOut
<1> QED  BY <1>1, <1>10, <1>12

\* What the handler of a request knows: it is the first one not answered.
LEMMA Unanswered ==
  ASSUME TableInv, Hands, Events, Dialogue, pc = "build",
         NEW c, c = conns[cur], NEW k, k = c.client, k \notin failed, NEW a, a = answered[k]
  PROVE  /\ c.head = <<>> /\ Len(out[k]) = EndOf(a, Len(a)) /\ (a # <<>> => Keeps(a[Len(a)].req))
         /\ \E q \in Int, t \in Tokens :
              /\ q = At(c) /\ PosOf(a, Len(a)) < q /\ q <= rcvd[k]
              /\ NoRequest(k, PosOf(a, Len(a)), q - 1)
              /\ t = c.inbuf[c.in_head] /\ IsRequest(t) /\ stream[k][q] = t
<1> PICK q, t : q = At(c) /\ t = c.inbuf[c.in_head]  OBVIOUS
<1>1. /\ c \in Conn /\ Within(c) /\ c.state = "ST_READING" /\ rcvd[k] \in Nat
      /\ Buffered(c) /\ Progress(cur, c, a)
  BY AtStream
<1>2. Awaits(cur, c, a) /\ Handled(cur)  BY <1>1 DEF Progress, Handled
<1>3. /\ c.inbuf \in Seq(Tokens) /\ c.in_head \in Nat /\ c.in_head <= Len(c.inbuf) /\ c.in_head > 0
  BY <1>1, ConnFields DEF Within, TableInv, AtWork
<1>4. /\ q = rcvd[k] - Len(c.inbuf) + c.in_head /\ Len(c.inbuf) <= rcvd[k]
      /\ \A j \in 1 .. Len(c.inbuf) : c.inbuf[j] = stream[k][rcvd[k] - Len(c.inbuf) + j]
  BY <1>1 DEF At, Buffered
<1>5. c.in_head \in 1 .. Len(c.inbuf) /\ q \in Int /\ q <= rcvd[k]  BY SMTT(60), <1>1, <1>3, <1>4
<1>6. stream[k][q] = t  BY <1>4, <1>5
<1>7. t \in Tokens  BY BegunIs
<1> QED  BY <1>2, <1>5, <1>6, <1>7 DEF Awaits

\* build_response: the request is answered, or the answer is lost for want of memory.
LEMMA BuildStream ==
  ASSUME TableInv, Hands, Events, TableInv', Hands', Dialogue,
         BuildSimple \/ BuildFile \/ BuildFileFails
  PROVE  Dialogue'
<1>1. PICK c, k, a : c = conns[cur] /\ k = c.client /\ a = answered[k]  OBVIOUS
<1>2. pc = "build" /\ UNCHANGED <<stream, peer, backlog, rcvd, out, cur>>
  BY BuildEffect DEF quiet, client, event, net
<1>3. /\ cur \in Open /\ k \in Clients /\ a \in Seq(Answer) /\ rcvd[k] \in Nat /\ out[k] \in Seq(Unit)
      /\ Buffered(c) /\ (k \notin failed => Ordered(k, a) /\ EarlierOut(k, a))
  BY <1>1, <1>2, AtStream
<1>4. PICK d \in Conn : Within(d) /\ Built(d) /\ Begins(c, d)  BY <1>1, BuildEffect
<1>5. Stored(d) /\ pc' = "write"  BY <1>4 DEF Stored, Built
<1>6. conns'[cur] = d  BY <1>3, <1>5, StoredIs
<1>7. d.client = k /\ d.inbuf = c.inbuf /\ d.in_head = c.in_head /\ d.state = "ST_WRITING"
  BY <1>1, <1>4 DEF Begins, SameInput
<1>8. Buffered(d)'  BY <1>1, <1>2, <1>3, <1>7, BufferedKept
<1>9. failed \subseteq failed'  BY <1>4 DEF Built
<1>10. \A x \in Clients \ {k} : answered'[x] = answered[x]
  <2>1. DOMAIN answered = Clients  BY DEF TableInv, TypeOK, LogOK
  <2> QED  BY <1>4, <1>7, <2>1 DEF Built
<1>11. ASSUME k \notin failed'
       PROVE  \E b : /\ b = answered'[k]
                    /\ Progress(cur, d, b)' /\ Ordered(k, b)' /\ EarlierOut(k, b)'
  <2>1. k \notin failed  BY <1>9, <1>11
  <2>2. c.head = <<>> /\ Len(out[k]) = EndOf(a, Len(a)) /\ (a # <<>> => Keeps(a[Len(a)].req))
    BY SMTT(60), <1>1, <1>2, <2>1, Unanswered
  <2>3. PICK q \in Int, t \in Tokens :
          /\ q = At(c) /\ PosOf(a, Len(a)) < q /\ q <= rcvd[k]
          /\ NoRequest(k, PosOf(a, Len(a)), q - 1)
          /\ t = c.inbuf[c.in_head] /\ IsRequest(t) /\ stream[k][q] = t
    BY SMTT(60), <1>1, <1>2, <2>1, Unanswered
  <2>4. d.head # <<>>  BY <1>4, <1>7, <1>11 DEF Built
  <2>5. Simple(c, d) \/ Filed(c, d)  BY <1>4, <2>2, <2>4 DEF Begins, Failed, SameHead
  <2>6. PICK code \in Nat : d.head = build_head(t, code)
    <3>1. 200 \in Nat  BY SMTT(60)
    <3> QED  BY <2>3, <2>5, <3>1 DEF Simple, Filed
  <2>7. d.head_off = 0 /\ d.phase = "RSP_HEAD"  BY <2>5 DEF Simple, Filed
  <2>8. /\ d.file_len \in Nat
        /\ \/ d.file_fd = -1 /\ ~(d.file_fd >= 0) /\ ~(d.file_fd > 0)
           \/ d.file_fd >= 0 /\ d.file_fd > 0 /\ d.file_off = 0
    <3>1. d.file_len \in Nat  BY ConnFields
    <3>2. CASE Simple(c, d)
      <4>1. d.file_fd = -1  BY <3>2 DEF Simple
      <4> QED  BY SMTT(60), <3>1, <4>1
    <3>3. CASE Filed(c, d)
      <4>1. d.file_fd \in Fds /\ fds[d.file_fd] = Free /\ d.file_off = 0  BY <3>3 DEF Filed
      <4>2. d.file_fd # 0  BY SMTT(60), <4>1 DEF Hands, Free, Other
      <4> QED  BY SMTT(60), <3>1, <4>1, <4>2, ReactorBounds DEF Fds
    <3> QED  BY <2>5, <3>2, <3>3
  <2>9. PICK body \in Nat : body = IF d.file_fd >= 0 THEN d.file_len ELSE 0
    <3>1. 0 \in Nat  BY SMTT(60)
    <3> QED  BY <2>8, <3>1
  <2>10. PICK r : r = [req |-> t, code |-> code, body |-> body, pos |-> q, from |-> Len(out[k])]
    OBVIOUS
  <2>11. r \in Answer
    <3>1. Len(out[k]) \in Nat  BY SMTT(60), <1>3
    <3> QED  BY SMTT(60), <2>3, <2>10, <3>1 DEF Answer
  <2>12. r.req = t /\ r.code = code /\ r.body = body /\ r.pos = q /\ r.from = Len(out[k])  BY <2>10
  <2>13. Response(d) = r
    <3>1. d.head[1] = <<t, code, 1>>
      <4>1. 1 \in 1 .. HeadLen  BY SMTT(60), ReactorBounds
      <4> QED  BY <2>3, <2>6, <4>1, HeadsBuilt
    <3>2. d.head[1][1] = t /\ d.head[1][2] = code  BY SMTT(60), <3>1
    <3>3. rcvd[d.client] - Len(d.inbuf) + d.in_head = q  BY <1>1, <1>7, <2>3 DEF At
    <3> QED  BY <1>7, <2>9, <2>10, <3>2, <3>3 DEF Response
  <2>14. PICK b : b = Append(a, r) /\ b = answered'[k]
    <3>1. DOMAIN answered = Clients  BY DEF TableInv, TypeOK, LogOK
    <3>2. answered' = [answered EXCEPT ![k] = Append(@, r)]  BY <1>4, <1>7, <2>4, <2>13 DEF Built
    <3> QED  BY <1>1, <1>3, <3>1, <3>2
  <2>15. Ordered(k, b)' /\ EarlierOut(k, b)' /\ b # <<>> /\ b[Len(b)] = r
    <3>1. a \in Seq(Answer) /\ Ordered(k, a) /\ EarlierOut(k, a) /\ out[k] \in Seq(Unit)
      BY <1>3, <2>1
    <3>2. stream'[k] = stream[k] /\ rcvd'[k] = rcvd[k] /\ out'[k] = out[k]  BY <1>2
    <3>3. /\ PosOf(a, Len(a)) < r.pos /\ r.pos <= rcvd[k] /\ NoRequest(k, PosOf(a, Len(a)), r.pos - 1)
          /\ IsRequest(r.req) /\ stream[k][r.pos] = r.req /\ r.from = Len(out[k])
      BY <2>3, <2>12
    <3> QED  BY <2>2, <2>11, <2>14, <3>1, <3>2, <3>3, OrderedAppends
  <2>16. At(d)' = q  BY <1>1, <1>2, <1>7, <2>3 DEF At
  <2>17. d.keep_alive = Keeps(t)  BY <1>4, <2>3 DEF Begins
  <2>18. SendsHead(d, r)'
    <3>1. Len(out[k]) + 0 = Len(out[k])  BY SMTT(60), <1>3
    <3>2. IF d.file_fd > 0 THEN d.file_len = body /\ d.file_off = 0 ELSE d.file_fd = -1 /\ body = 0
      BY <2>8, <2>9
    <3> QED  BY <1>2, <1>7, <2>6, <2>7, <2>12, <3>1, <3>2 DEF SendsHead
  <2>19. Sends(d, r)'  BY <2>7, <2>12, <2>16, <2>17, <2>18 DEF Sends
  <2>20. Progress(cur, d, b)'  BY <1>7, <2>15, <2>19 DEF Progress
  <2> QED  BY <2>14, <2>15, <2>20
<1>12. Flows(cur)'  BY <1>2, <1>6, <1>7, <1>8, <1>11 DEF Flows
<1>13. k \notin failed' => Ordered(k, answered[k])' /\ EarlierOut(k, answered[k])'
  BY <1>11 DEF Ordered, EarlierOut
<1> QED  BY <1>1, <1>2, <1>5, <1>7, <1>9, <1>10, <1>12, <1>13, StoredDialogue

-----------------------------------------------------------------------------
(* conn_write.                                                             *)

\* A step writes to the client k the q units u of the last response r, behind the s
\* of it that are out.
Follows(k, a, r, s, q, u) ==
  /\ a \in Seq(Answer) /\ a # <<>> /\ r = a[Len(a)] /\ Ordered(k, a) /\ EarlierOut(k, a)
  /\ s \in Nat /\ out[k] \in Seq(Unit) /\ Len(out[k]) = r.from + s
  /\ q \in Nat /\ u \in Seq(Unit) /\ Len(u) = q /\ s + q <= HeadLen + r.body
  /\ \A i \in 1 .. q : u[i] = UnitOf(r, s + i)
  /\ stream'[k] = stream[k] /\ rcvd'[k] = rcvd[k] /\ out'[k] = out[k] \o u

\* The units of two sequences, one behind the other.
LEMMA JoinIs ==
  ASSUME NEW o \in Seq(Unit), NEW u \in Seq(Unit)
  PROVE  /\ Len(o) \in Nat /\ Len(o \o u) = Len(o) + Len(u)
         /\ \A i \in 1 .. Len(o) : (o \o u)[i] = o[i]
         /\ \A i \in 1 .. Len(u) : (o \o u)[Len(o) + i] = u[i]
BY SMTT(60)

\* Such a step leaves the responses in order.
LEMMA OrderedWrites ==
  ASSUME NEW k, NEW a, NEW r, NEW s, NEW q, NEW u, Follows(k, a, r, s, q, u)
  PROVE  Ordered(k, a)' /\ EarlierOut(k, a)'
<1>1. PICK o, p : o = out[k] /\ p = out'[k]  OBVIOUS
<1>2. /\ a \in Seq(Answer) /\ a # <<>> /\ r = a[Len(a)] /\ Ordered(k, a) /\ EarlierOut(k, a)
      /\ stream'[k] = stream[k] /\ rcvd'[k] = rcvd[k]
  BY DEF Follows
<1>3. s \in Nat /\ q \in Nat /\ s + q <= HeadLen + r.body /\ Len(o) = r.from + s
  BY <1>1 DEF Follows
<1>4. Len(u) = q /\ \A i \in 1 .. q : u[i] = UnitOf(r, s + i)  BY DEF Follows
<1>5. /\ Len(o) \in Nat /\ Len(p) = Len(o) + q
      /\ \A i \in 1 .. Len(o) : p[i] = o[i]
      /\ \A i \in 1 .. q : p[Len(o) + i] = u[i]
  <2>1. o \in Seq(Unit) /\ u \in Seq(Unit) /\ p = o \o u  BY <1>1 DEF Follows
  <2> QED  BY <1>4, <2>1, JoinIs
<1>6. Len(o) \in Nat /\ Len(p) = Len(o) + q  BY <1>5
<1>7. PICK l \in Nat : l = Len(a) /\ l \in 1 .. l /\ DOMAIN a = 1 .. l
  <2>1. Len(a) \in Nat /\ Len(a) # 0 /\ DOMAIN a = 1 .. Len(a)  BY SMTT(60), <1>2
  <2>2. Len(a) \in 1 .. Len(a)  BY SMTT(60), <2>1
  <2> QED  BY <2>1, <2>2
<1>8. \A n \in 1 .. l : a[n].from \in Nat /\ a[n].body \in Nat  BY <1>2, <1>7, AnswerFields
<1>9. HeadLen \in Nat  BY ReactorBounds
<1>10. ASSUME NEW n \in 1 .. l, NEW j \in 1 .. HeadLen + a[n].body, a[n].from + j <= Len(p)
       PROVE  p[a[n].from + j] = UnitOf(a[n], j)
  <2>1. a[n].from \in Nat /\ a[n].body \in Nat  BY <1>8
  <2>2. CASE a[n].from + j <= Len(o)
    <3>1. a[n].from + j \in 1 .. Len(o)  BY SMTT(60), <1>6, <1>9, <2>1, <2>2
    <3>2. o[a[n].from + j] = UnitOf(a[n], j)
      BY <1>1, <1>2, <1>7, <2>2 DEF Ordered, WrittenInPlace
    <3> QED  BY <1>5, <3>1, <3>2
  <2>3. CASE ~(a[n].from + j <= Len(o))
    <3>1. n = l
      <4>1. n \in 1 .. l - 1 => a[n].from + HeadLen + a[n].body <= Len(o)
        <5>1. n \in 1 .. l - 1 => EndOf(a, n) <= Len(o)  BY <1>1, <1>2, <1>7 DEF EarlierOut
        <5>2. n # 0  BY SMTT(60)
        <5> QED  BY <5>1, <5>2 DEF EndOf
      <4> QED  BY SMTT(60), <1>6, <1>9, <2>1, <2>3, <4>1
    <3>2. a[n] = r /\ Len(o) = a[n].from + s  BY <1>2, <1>3, <1>7, <3>1
    <3>3. j - s \in 1 .. q /\ Len(o) + (j - s) = a[n].from + j /\ s + (j - s) = j
      BY SMTT(60), <1>3, <1>6, <1>9, <1>10, <2>1, <2>3, <3>2
    <3>4. p[a[n].from + j] = u[j - s] /\ u[j - s] = UnitOf(r, j)  BY <1>4, <1>5, <3>3
    <3> QED  BY <3>2, <3>4
  <2> QED  BY <2>2, <2>3
<1>11. ASSUME NEW n \in DOMAIN a PROVE AnswersNext(k, a, n)' /\ WrittenInPlace(k, a, n)'
  <2>1. AnswersNext(k, a, n) /\ WrittenInPlace(k, a, n)  BY <1>2 DEF Ordered
  <2>2. AnswersNext(k, a, n)'  BY <1>2, <2>1 DEF AnswersNext, NoRequest
  <2>3. WrittenInPlace(k, a, n)'  BY <1>1, <1>7, <1>10, <1>11, <2>1 DEF WrittenInPlace
  <2> QED  BY <2>2, <2>3
<1>12. Len(p) <= r.from + HeadLen + r.body
  <2>1. r.from \in Nat /\ r.body \in Nat  BY <1>2, <1>7, <1>8
  <2> QED  BY SMTT(60), <1>3, <1>6, <1>9, <2>1
<1>13. Ordered(k, a)'
  <2>1. EndOf(a, Len(a)) = r.from + HeadLen + r.body
    <3>1. l # 0  BY SMTT(60), <1>7
    <3> QED  BY <1>2, <1>7, <3>1 DEF EndOf
  <2> QED  BY <1>1, <1>2, <1>11, <1>12, <2>1 DEF Ordered
<1>14. EarlierOut(k, a)'
  <2>1. ASSUME NEW n \in 1 .. Len(a) - 1 PROVE EndOf(a, n) <= Len(p)
    <3>1. n \in 1 .. l /\ n # 0  BY SMTT(60), <1>7
    <3>2. EndOf(a, n) \in Nat
      <4>1. a[n].from \in Nat /\ a[n].body \in Nat  BY <1>8, <3>1
      <4>2. a[n].from + HeadLen + a[n].body \in Nat  BY SMTT(60), <1>9, <4>1
      <4> QED  BY <3>1, <4>2 DEF EndOf
    <3>3. EndOf(a, n) <= Len(o)  BY <1>1, <1>2, <2>1 DEF EarlierOut
    <3> QED  BY SMTT(60), <1>3, <1>6, <3>2, <3>3
  <2> QED  BY <1>1, <2>1 DEF EarlierOut
<1> QED  BY <1>13, <1>14

\* conn_write sends r, the last of the responses a to the client of c.
SendsLast(c, a, r) ==
  /\ r = a[Len(a)] /\ Sends(c, r)
  /\ r.req \in Tokens /\ r.code \in Nat /\ r.body \in Nat /\ r.from \in Nat
  /\ EndOf(a, Len(a)) = r.from + HeadLen + r.body /\ PosOf(a, Len(a)) = r.pos

\* What conn_write knows of the response it sends.
LEMMA Sending ==
  ASSUME TableInv, Hands, Events, Dialogue, pc = "write",
         NEW c, c = conns[cur], NEW k, k = c.client, k \notin failed, NEW a, a = answered[k]
  PROVE  /\ a # <<>> /\ Ordered(k, a) /\ EarlierOut(k, a)
         /\ \E r \in Answer : SendsLast(c, a, r)
<1>1. /\ c.state = "ST_WRITING" /\ a \in Seq(Answer) /\ Progress(cur, c, a)
      /\ Ordered(k, a) /\ EarlierOut(k, a)
  BY AtStream
<1>2. a # <<>> /\ Sends(c, a[Len(a)])  BY <1>1 DEF Progress
<1>3. PICK r : r = a[Len(a)]  OBVIOUS
<1>4. Len(a) \in Nat /\ Len(a) # 0  BY SMTT(60), <1>1, <1>2
<1>5. Len(a) \in 1 .. Len(a)  BY SMTT(60), <1>4
<1>6. r \in Answer  BY SMTT(60), <1>1, <1>3, <1>5
<1>7. r.req \in Tokens /\ r.code \in Nat /\ r.body \in Nat /\ r.from \in Nat
  BY <1>1, <1>3, <1>5, AnswerFields
<1>8. EndOf(a, Len(a)) = r.from + HeadLen + r.body /\ PosOf(a, Len(a)) = r.pos
  BY <1>3, <1>4 DEF EndOf, PosOf
<1>9. SendsLast(c, a, r)  BY <1>2, <1>3, <1>7, <1>8 DEF SendsLast
<1> QED  BY <1>1, <1>2, <1>6, <1>9

\* conn_write, write() or sendfile() takes some of what is left of the response.
LEMMA WriteStream ==
  ASSUME TableInv, Hands, Events, TableInv', Hands', Dialogue, Write
  PROVE  Dialogue'
<1>1. PICK c, k, a : c = conns[cur] /\ k = c.client /\ a = answered[k]  OBVIOUS
<1>2. pc = "write" /\ pc' = pc /\ UNCHANGED <<stream, peer, backlog, rcvd, answered, failed, cur>>
  BY WriteEffect DEF quiet, client, event, log
<1>3. /\ cur \in Open /\ k \in Clients /\ SockAt(cur) = {k} /\ c \in Conn /\ c.state = "ST_WRITING"
      /\ a \in Seq(Answer) /\ out[k] \in Seq(Unit) /\ Buffered(c)
  BY <1>1, <1>2, AtStream
<1>4. PICK n \in Nat, d \in Conn, u \in Seq(Unit) : Wrote(k, c, n, d, u) /\ Stored(d)
  BY <1>1, <1>3, WriteEffect
<1>5. conns'[cur] = d  BY <1>3, <1>4, StoredIs
<1>6. /\ d.client = k /\ d.inbuf = c.inbuf /\ d.in_head = c.in_head /\ d.state = "ST_WRITING"
      /\ d.keep_alive = c.keep_alive /\ d.phase = c.phase /\ d.head = c.head
      /\ d.file_fd = c.file_fd /\ d.file_len = c.file_len /\ Len(u) = n
  BY <1>1, <1>3, <1>4 DEF Wrote, SameSide, SameInput
<1>7. out'[k] = out[k] \o u /\ \A x \in Clients \ {k} : out'[x] = out[x]
  <2>1. DOMAIN out = Clients  BY DEF TableInv, TypeOK, StreamOK
  <2> QED  BY <1>3, <1>4, <2>1 DEF Wrote
<1>8. Len(out'[k]) = Len(out[k]) + n
  <2>1. Len(out[k] \o u) = Len(out[k]) + Len(u)  BY <1>3, JoinIs
  <2> QED  BY <1>6, <1>7, <2>1
<1>9. Buffered(d)'  BY <1>1, <1>2, <1>3, <1>6, BufferedKept
<1>10. ASSUME k \notin failed PROVE Progress(cur, d, a)' /\ Ordered(k, a)' /\ EarlierOut(k, a)'
  <2>1. a # <<>> /\ Ordered(k, a) /\ EarlierOut(k, a)  BY <1>1, <1>2, <1>10, Sending
  <2>2. PICK r \in Answer : SendsLast(c, a, r)  BY <1>1, <1>2, <1>10, Sending
  <2>3. r.from \in Nat /\ r.body \in Nat  BY <2>2 DEF SendsLast
  <2>4. HeadLen \in Nat  BY ReactorBounds
  <2>5. At(d)' = At(c)  BY <1>1, <1>2, <1>6 DEF At
  <2>6. CASE /\ c.phase = "RSP_HEAD" /\ c.head_off + n <= Len(c.head)
             /\ d.head_off = c.head_off + n /\ d.file_off = c.file_off
             /\ \A j \in 1 .. n : u[j] = c.head[c.head_off + j]
    <3>1. SendsHead(c, r)  BY <2>2, <2>6 DEF Sends, SendsLast
    <3>2. PICK s : s = c.head_off  OBVIOUS
    <3>3. /\ s \in Nat /\ c.head = build_head(r.req, r.code) /\ Len(out[k]) = r.from + s
          /\ Len(c.head) = HeadLen /\ \A j \in 1 .. HeadLen : c.head[j] = <<r.req, r.code, j>>
      <4>1. s \in Nat  BY <1>3, <3>2, ConnFields
      <4>2. c.head = build_head(r.req, r.code) /\ Len(out[k]) = r.from + s
        BY <1>1, <3>1, <3>2 DEF SendsHead
      <4>3. /\ Len(build_head(r.req, r.code)) = HeadLen
            /\ \A j \in 1 .. HeadLen : build_head(r.req, r.code)[j] = <<r.req, r.code, j>>
        BY <2>2, HeadsBuilt DEF SendsLast
      <4> QED  BY <4>1, <4>2, <4>3
    <3>4. s + n <= HeadLen /\ s + n <= HeadLen + r.body
      <4>1. s + n <= HeadLen  BY <2>6, <3>2, <3>3
      <4> QED  BY SMTT(60), <2>3, <2>4, <3>3, <4>1
    <3>5. ASSUME NEW i \in 1 .. n PROVE u[i] = UnitOf(r, s + i)
      <4>1. s + i \in 1 .. HeadLen /\ s + i <= HeadLen  BY SMTT(60), <2>4, <3>3, <3>4
      <4>2. u[i] = c.head[s + i]  BY <2>6, <3>2, <3>5
      <4> QED  BY <3>3, <4>1, <4>2 DEF UnitOf
    <3>6. Ordered(k, a)' /\ EarlierOut(k, a)'
      <4>1. Follows(k, a, r, s, n, u)
        BY <1>2, <1>3, <1>6, <1>7, <2>1, <2>2, <3>3, <3>4, <3>5 DEF Follows, SendsLast
      <4> QED  BY <4>1, OrderedWrites
    <3>7. Len(out'[k]) = r.from + d.head_off
      <4>1. d.head_off = s + n  BY <2>6, <3>2
      <4> QED  BY SMTT(60), <1>8, <2>3, <3>3, <4>1
    <3>8. SendsHead(d, r)'  BY <1>1, <1>6, <2>6, <3>1, <3>7 DEF SendsHead
    <3>9. Sends(d, r)'  BY <1>6, <2>2, <2>5, <2>6, <3>8 DEF Sends, SendsLast
    <3> QED  BY <1>6, <2>1, <2>2, <3>6, <3>9 DEF Progress, SendsLast
  <2>7. CASE /\ c.phase = "RSP_SENDFILE" /\ c.file_off + n <= c.file_len
             /\ d.file_off = c.file_off + n /\ d.head_off = c.head_off
             /\ \A j \in 1 .. n : u[j] = <<"body", c.file_off + j>>
    <3>1. SendsFile(c, r)  BY <2>2, <2>7 DEF Sends, SendsLast
    <3>2. PICK m : m = c.file_off  OBVIOUS
    <3>3. m \in Nat /\ c.file_len = r.body /\ Len(out[k]) = r.from + HeadLen + m
      BY <1>1, <1>3, <3>1, <3>2, ConnFields DEF SendsFile
    <3>4. PICK s \in Nat : s = HeadLen + m  BY SMTT(60), <2>4, <3>3
    <3>5. Len(out[k]) = r.from + s /\ s + n <= HeadLen + r.body
      <4>1. m + n <= r.body  BY <2>7, <3>2, <3>3
      <4> QED  BY SMTT(60), <2>3, <2>4, <3>3, <3>4, <4>1
    <3>6. ASSUME NEW i \in 1 .. n PROVE u[i] = UnitOf(r, s + i)
      <4>1. PICK j : j = s + i  OBVIOUS
      <4>2. ~(j <= HeadLen) /\ j - HeadLen = m + i  BY SMTT(60), <2>4, <3>3, <3>4, <4>1
      <4>3. u[i] = <<"body", m + i>>  BY <2>7, <3>2, <3>6
      <4>4. UnitOf(r, j) = <<"body", j - HeadLen>>  BY <4>2 DEF UnitOf
      <4> QED  BY <4>1, <4>2, <4>3, <4>4
    <3>7. Ordered(k, a)' /\ EarlierOut(k, a)'
      <4>1. Follows(k, a, r, s, n, u)
        BY <1>2, <1>3, <1>6, <1>7, <2>1, <2>2, <3>5, <3>6 DEF Follows, SendsLast
      <4> QED  BY <4>1, OrderedWrites
    <3>8. Len(out'[k]) = r.from + HeadLen + d.file_off
      <4>1. d.file_off = m + n  BY <2>7, <3>2
      <4> QED  BY SMTT(60), <1>8, <2>3, <2>4, <3>3, <4>1
    <3>9. SendsFile(d, r)'  BY <1>6, <3>1, <3>8 DEF SendsFile
    <3>10. Sends(d, r)'  BY <1>6, <2>2, <2>5, <2>7, <3>9 DEF Sends, SendsLast
    <3> QED  BY <1>6, <2>1, <2>2, <3>7, <3>10 DEF Progress, SendsLast
  <2> QED  BY <1>4, <2>6, <2>7 DEF Wrote
<1>11. Flows(cur)'
  <2>1. answered'[k] = a  BY <1>1, <1>2
  <2> QED  BY <1>2, <1>5, <1>6, <1>9, <1>10, <2>1 DEF Flows
<1>12. k \notin failed' => Ordered(k, answered[k])' /\ EarlierOut(k, answered[k])'
  BY <1>1, <1>2, <1>10 DEF Ordered, EarlierOut
<1> QED  BY <1>1, <1>2, <1>4, <1>6, <1>7, <1>11, <1>12, StoredDialogue

\* conn_write goes on with d in its connection, having written nothing.
LEMMA SentDialogue ==
  ASSUME TableInv, Hands, Events, TableInv', Hands', Dialogue, pc = "write",
         pc' \in {"read", "build", "write", "dispatch"},
         NEW c, c = conns[cur], NEW k, k = c.client, NEW a, a = answered[k],
         NEW d \in Conn, Stored(d), d.client = k, d.inbuf = c.inbuf,
         UNCHANGED <<stream, peer, backlog, rcvd, out, answered, failed, cur>>,
         k \notin failed => Progress(cur, d, a)'
  PROVE  Dialogue'
<1>1. /\ cur \in Open /\ k \in Clients /\ Buffered(c)
      /\ k \notin failed => Ordered(k, a) /\ EarlierOut(k, a)
  BY AtStream
<1>2. conns'[cur] = d  BY <1>1, StoredIs
<1>3. Buffered(d)'  BY <1>1, BufferedKept
<1>4. answered'[k] = a  OBVIOUS
<1>5. Flows(cur)'  BY <1>2, <1>3, <1>4 DEF Flows
<1>6. SameTraffic(k)  BY DEF SameTraffic
<1>7. k \notin failed' => Ordered(k, answered[k])'  BY <1>1, <1>6, OrderedKept
<1>8. k \notin failed' => EarlierOut(k, answered[k])'  BY <1>1 DEF EarlierOut
<1> QED  BY <1>5, <1>7, <1>8, StoredDialogue

\* conn_write: the head is out.
LEMMA HeadDoneStream ==
  ASSUME TableInv, Hands, Events, TableInv', Hands', Dialogue, HeadDone
  PROVE  Dialogue'
<1>1. PICK c, k, a : c = conns[cur] /\ k = c.client /\ a = answered[k]  OBVIOUS
<1>2. pc = "write" /\ pc' = pc /\ UNCHANGED <<stream, peer, backlog, rcvd, out, answered, failed, cur>>
  BY HeadDoneEffect DEF quiet, client, event, net, log
<1>3. c.phase = "RSP_HEAD" /\ c.head_off = Len(c.head)  BY <1>1, HeadDoneEffect
<1>4. PICK d \in Conn :
        /\ Stored(d) /\ SameSide(c, d) /\ SameInput(c, d) /\ SameFile(c, d)
        /\ d.head = <<>> /\ d.phase = IF c.file_fd >= 0 THEN "RSP_SENDFILE" ELSE "RSP_DONE"
  BY <1>1, HeadDoneEffect
<1>5. c \in Conn /\ c.state = "ST_WRITING"  BY <1>1, <1>2, AtStream
<1>6. /\ d.client = k /\ d.inbuf = c.inbuf /\ d.in_head = c.in_head /\ d.state = "ST_WRITING"
      /\ d.keep_alive = c.keep_alive
      /\ d.file_fd = c.file_fd /\ d.file_off = c.file_off /\ d.file_len = c.file_len
  BY <1>1, <1>4, <1>5 DEF SameSide, SameInput, SameFile
<1>7. ASSUME k \notin failed PROVE Progress(cur, d, a)'
  <2>1. a # <<>>  BY <1>1, <1>2, <1>7, Sending
  <2>2. PICK r \in Answer : SendsLast(c, a, r)  BY <1>1, <1>2, <1>7, Sending
  <2>3. r.from \in Nat /\ r.body \in Nat  BY <2>2 DEF SendsLast
  <2>4. SendsHead(c, r)  BY <1>3, <2>2 DEF Sends, SendsLast
  <2>5. Len(out[k]) = r.from + HeadLen
    <3>1. Len(build_head(r.req, r.code)) = HeadLen  BY <2>2, HeadsBuilt DEF SendsLast
    <3> QED  BY <1>1, <1>3, <2>4, <3>1 DEF SendsHead
  <2>6. HeadLen \in Nat /\ c.file_fd \in Int  BY SMTT(60), <1>5, ReactorBounds DEF Conn, Fds
  <2>7. At(d)' = At(c)  BY <1>1, <1>2, <1>6 DEF At
  <2>8. CASE c.file_fd > 0
    <3>1. d.phase = "RSP_SENDFILE"
      <4>1. c.file_fd >= 0  BY SMTT(60), <2>6, <2>8
      <4> QED  BY <1>4, <4>1
    <3>2. c.file_len = r.body /\ c.file_off = 0  BY <2>4, <2>8 DEF SendsHead
    <3>3. Len(out[k]) = r.from + HeadLen + 0  BY SMTT(60), <2>3, <2>5, <2>6
    <3>4. SendsFile(d, r)'  BY <1>2, <1>4, <1>6, <2>8, <3>2, <3>3 DEF SendsFile
    <3>5. Sends(d, r)'  BY <1>6, <2>2, <2>7, <3>1, <3>4 DEF Sends, SendsLast
    <3> QED  BY <1>6, <2>1, <2>2, <3>5 DEF Progress, SendsLast
  <2>9. CASE ~(c.file_fd > 0)
    <3>1. c.file_fd = -1 /\ r.body = 0  BY <2>4, <2>9 DEF SendsHead
    <3>2. d.phase = "RSP_DONE"
      <4>1. ~(c.file_fd >= 0)  BY SMTT(60), <3>1
      <4> QED  BY <1>4, <4>1
    <3>3. Len(out[k]) = r.from + HeadLen + r.body  BY SMTT(60), <2>3, <2>5, <2>6, <3>1
    <3>4. SentWhole(d, r)'  BY <1>2, <1>4, <1>6, <3>3 DEF SentWhole
    <3>5. Sends(d, r)'  BY <1>6, <2>2, <2>7, <3>2, <3>4 DEF Sends, SendsLast
    <3> QED  BY <1>6, <2>1, <2>2, <3>5 DEF Progress, SendsLast
  <2> QED  BY <2>8, <2>9
<1> QED  BY <1>1, <1>2, <1>4, <1>6, <1>7, SentDialogue

\* conn_write: the file is out.
LEMMA FileDoneStream ==
  ASSUME TableInv, Hands, Events, TableInv', Hands', Dialogue, FileDone
  PROVE  Dialogue'
<1>1. PICK c, k, a : c = conns[cur] /\ k = c.client /\ a = answered[k]  OBVIOUS
<1>2. /\ pc = "write" /\ pc' = pc /\ UNCHANGED <<stream, peer, backlog, rcvd, out, answered, failed, cur>>
      /\ c.phase = "RSP_SENDFILE" /\ c.file_off = c.file_len
  BY <1>1, FileDoneEffect DEF quiet, client, event, net, log
<1>3. PICK d \in Conn :
        /\ Stored(d) /\ SameSide(c, d) /\ SameInput(c, d) /\ d.head = c.head /\ d.phase = "RSP_DONE"
  BY <1>1, FileDoneEffect
<1>4. c.state = "ST_WRITING"  BY <1>1, <1>2, AtStream
<1>5. /\ d.client = k /\ d.inbuf = c.inbuf /\ d.in_head = c.in_head /\ d.state = "ST_WRITING"
      /\ d.keep_alive = c.keep_alive
  BY <1>1, <1>3, <1>4 DEF SameSide, SameInput
<1>6. ASSUME k \notin failed PROVE Progress(cur, d, a)'
  <2>1. a # <<>>  BY <1>1, <1>2, <1>6, Sending
  <2>2. PICK r \in Answer : SendsLast(c, a, r)  BY <1>1, <1>2, <1>6, Sending
  <2>3. SendsFile(c, r)  BY <1>2, <2>2 DEF Sends, SendsLast
  <2>4. SentWhole(d, r)'  BY <1>1, <1>2, <1>3, <1>5, <2>3 DEF SendsFile, SentWhole
  <2>5. At(d)' = At(c)  BY <1>1, <1>2, <1>5 DEF At
  <2>6. Sends(d, r)'  BY <1>3, <1>5, <2>2, <2>4, <2>5 DEF Sends, SendsLast
  <2> QED  BY <1>5, <2>1, <2>2, <2>6 DEF Progress, SendsLast
<1> QED  BY <1>1, <1>2, <1>3, <1>5, <1>6, SentDialogue

\* conn_write, the response is out: the next request of the buffer, if there is one.
LEMMA ResumeStream ==
  ASSUME TableInv, Hands, Events, TableInv', Hands', Dialogue,
         pc = "write", UNCHANGED <<stream, peer, backlog, rcvd, out, answered, failed, cur>>,
         NEW c, c = conns[cur], NEW k, k = c.client, c.phase = "RSP_DONE", c.keep_alive,
         NEW d \in Conn, Stored(d), Resumes(c, d), pc' \in {"build", "dispatch"}
  PROVE  Dialogue'
<1>1. PICK a : a = answered[k]  OBVIOUS
<1>2. /\ c \in Conn /\ Within(c) /\ rcvd[k] \in Nat /\ Buffered(c)  BY <1>1, AtStream
<1>3. d.client = k /\ d.inbuf = c.inbuf /\ d.state = "ST_READING" /\ d.head = c.head
  BY DEF Resumes
<1>4. PICK b, h, e, z, q :
        b = c.inbuf /\ h = c.in_head /\ e = d.in_head /\ z = rcvd[k] /\ q = At(c)
  OBVIOUS
<1>5. /\ b \in Seq(Tokens) /\ h \in Nat /\ e \in Nat /\ z \in Nat /\ h <= Len(b) /\ e <= Len(b)
      /\ Len(b) \in Nat
  <2>1. b \in Seq(Tokens) /\ h \in Nat /\ e \in Nat  BY <1>2, <1>4, ConnFields
  <2>2. h <= Len(b) /\ e <= Len(b)  BY <1>2, <1>3, <1>4 DEF Within, Stored
  <2>3. Len(b) \in Nat  BY SMTT(60), <2>1
  <2> QED  BY <1>2, <1>4, <2>1, <2>2, <2>3
<1>6. /\ q = z - Len(b) + h /\ Len(b) <= z
      /\ \A j \in 1 .. Len(b) : b[j] = stream[k][z - Len(b) + j]
  BY <1>2, <1>4 DEF At, Buffered
<1>7. ASSUME NEW y \in 0 .. Len(b), \A x \in h + 1 .. y : ~IsRequest(b[x]),
             NEW x \in q + 1 .. z - Len(b) + y
      PROVE  ~IsRequest(stream[k][x])
  <2>1. PICK j : j = x - (z - Len(b))  OBVIOUS
  <2>2. j \in h + 1 .. y /\ j \in 1 .. Len(b) /\ z - Len(b) + j = x
    BY SMTT(60), <1>5, <1>6, <1>7, <2>1
  <2>3. b[j] = stream[k][x]  BY <1>6, <2>2
  <2> QED  BY <1>7, <2>2, <2>3
<1>8. ASSUME k \notin failed PROVE Progress(cur, d, a)'
  <2>1. PICK r \in Answer : SendsLast(c, a, r)  BY <1>1, <1>8, Sending
  <2>2. SentWhole(c, r) /\ r.pos = q /\ Keeps(r.req)  BY <1>4, <2>1 DEF Sends, SendsLast
  <2>3. /\ d.head = <<>> /\ Len(out'[k]) = EndOf(a, Len(a)) /\ Keeps(a[Len(a)].req)
    BY <1>3, <2>1, <2>2 DEF SentWhole, SendsLast
  <2>4. CASE /\ pc' = "build" /\ h < e /\ IsRequest(d.inbuf[d.in_head])
             /\ \A x \in h + 1 .. e - 1 : ~IsRequest(b[x])
    <3>1. PICK p : p = z - Len(b) + e  OBVIOUS
    <3>2. e - 1 \in 0 .. Len(b) /\ q < p /\ z - Len(b) + (e - 1) = p - 1
      BY SMTT(60), <1>5, <1>6, <2>4, <3>1
    <3>3. At(d)' = p  BY <1>3, <1>4, <3>1 DEF At
    <3>4. \A x \in q + 1 .. p - 1 : ~IsRequest(stream[k][x])
      <4>1. \A x \in q + 1 .. z - Len(b) + (e - 1) : ~IsRequest(stream[k][x])  BY <1>7, <2>4, <3>2
      <4> QED  BY <3>2, <4>1
    <3>5. NoRequest(k, q, p - 1)'  BY <3>4 DEF NoRequest
    <3>6. Handled(cur)'  BY <2>4 DEF Handled
    <3>7. Awaits(cur, d, a)'
      BY <1>3, <2>1, <2>2, <2>3, <2>4, <3>2, <3>3, <3>5, <3>6 DEF Awaits, NoRequest, SendsLast
    <3> QED  BY <1>3, <3>7 DEF Progress
  <2>5. CASE /\ pc' = "dispatch" /\ e = Len(b) /\ \A x \in h + 1 .. e : ~IsRequest(b[x])
    <3>1. e \in 0 .. Len(b) /\ z - Len(b) + e = z  BY SMTT(60), <1>5, <1>6, <2>5
    <3>2. \A x \in q + 1 .. z : ~IsRequest(stream[k][x])
      <4>1. \A x \in q + 1 .. z - Len(b) + e : ~IsRequest(stream[k][x])  BY <1>7, <2>5, <3>1
      <4> QED  BY <3>1, <4>1
    <3>3. NoRequest(k, q, rcvd[k])'  BY <1>4, <3>2 DEF NoRequest
    <3>4. ~Handled(cur)'  BY <2>5 DEF Handled
    <3>5. Awaits(cur, d, a)'
      BY <1>3, <2>1, <2>2, <2>3, <3>3, <3>4 DEF Awaits, NoRequest, SendsLast
    <3> QED  BY <1>3, <3>5 DEF Progress
  <2> QED  BY <1>3, <1>4, <2>4, <2>5 DEF Resumes, Return
<1> QED  BY <1>1, <1>3, <1>8, SentDialogue

\* conn_write, the response is out: the connection is closed if the request said so.
LEMMA FinishStream ==
  ASSUME TableInv, Hands, Events, TableInv', Hands', Events', Dialogue, Finish
  PROVE  Dialogue'
<1>1. PICK c, k, a : c = conns[cur] /\ k = c.client /\ a = answered[k]  OBVIOUS
<1>2. pc = "write" /\ c.phase = "RSP_DONE" /\ UNCHANGED <<quiet, net, log, batch, cur>>
  BY <1>1, FinishEffect
<1>3. UNCHANGED <<stream, peer, backlog, rcvd, out, answered, failed, cur>>
  BY <1>2 DEF quiet, client, net, log
<1>4. CASE ~c.keep_alive /\ CloseCur
  <2>1. cur \in Open /\ conn_close(cur) /\ pc' = "dispatch"  BY <1>2, <1>4, CurConn DEF CloseCur
  <2>2. ASSUME k \notin failed PROVE Ended(k, a)
    <3>1. a # <<>>  BY <1>1, <1>2, <2>2, Sending
    <3>2. PICK r \in Answer : SendsLast(c, a, r)  BY <1>1, <1>2, <2>2, Sending
    <3>3. SentWhole(c, r) /\ ~Keeps(r.req)  BY <1>2, <1>4, <3>2 DEF Sends, SendsLast
    <3> QED  BY <1>1, <3>1, <3>2, <3>3 DEF SentWhole, Ended, SendsLast
  <2> QED  BY <1>1, <1>2, <1>3, <2>1, <2>2, ClosedDialogue DEF log
<1>5. CASE c.keep_alive /\ \E d \in Conn : Stored(d) /\ Resumes(c, d)
  <2>1. PICK d \in Conn : Stored(d) /\ Resumes(c, d)  BY <1>5
  <2>2. pc' \in {"build", "dispatch"}
    BY <1>2, <2>1 DEF Resumes, Return, Events, Handling
  <2> QED  BY <1>1, <1>2, <1>3, <1>5, <2>1, <2>2, ResumeStream
<1> QED  BY <1>1, <1>4, <1>5, FinishEffect

-----------------------------------------------------------------------------
(* The other steps.                                                        *)

\* conn_read at the end of the stream and conn_write on an error close only the
\* connection of a client that hung up or is counted as failed.
LEMMA CloseStream ==
  ASSUME TableInv, Hands, Events, TableInv', Hands', Dialogue, ReadEnd \/ WriteFails
  PROVE  Dialogue'
<1>1. PICK c, k, a : c = conns[cur] /\ k = c.client /\ a = answered[k]  OBVIOUS
<1>2. /\ pc \in {"read", "write"} /\ CloseCur /\ UNCHANGED <<quiet, net, answered>>
      /\ failed \subseteq failed'
  BY DEF ReadEnd, WriteFails, FailsFor, Writing
<1>3. cur \in Open /\ k \in Clients /\ SockAt(cur) = {k} /\ Owns(cur, c) /\ c \in Conn
  BY <1>1, <1>2, AtStream
<1>4. ASSUME k \notin failed' PROVE peer[k] # "open"
  <2>1. CASE ReadEnd  BY <1>1, <1>3, <1>4, <2>1 DEF ReadEnd, FailsFor
  <2>2. CASE WriteFails
    <3>1. pc = "write"  BY <2>2 DEF WriteFails, Writing
    <3>2. PICK r \in Answer : SendsLast(c, a, r)  BY <1>1, <1>2, <1>4, <3>1, Sending
    <3>3. Usable(c)
      <4>1. c.phase = "RSP_SENDFILE" => c.file_fd > 0  BY <3>2 DEF Sends, SendsFile, SendsLast
      <4>2. c.file_fd > 0 => c.file_fd \in Fds /\ fds[c.file_fd] = <<"file", k>>
        <5>1. c.file_fd \in Fds \cup {-1}  BY <1>3, ConnFields
        <5>2. c.file_fd > 0 => c.file_fd # -1  BY SMTT(60)
        <5> QED  BY <1>1, <1>3, <5>1, <5>2 DEF Owns
      <4> QED  BY <1>3, <4>1, <4>2 DEF Usable, IsFile
    <3>4. peer[k] = "reset"  BY <1>1, <1>3, <1>4, <2>2, <3>3 DEF WriteFails, FailsFor
    <3> QED  BY <3>4
  <2> QED  BY <2>1, <2>2
<1> QED  BY <1>1, <1>2, <1>3, <1>4, ClosedDialogue DEF CloseCur

\* The event of a connection.
LEMMA HandleConnStream ==
  ASSUME TableInv, Hands, Events, TableInv', Hands', Events', Dialogue, HandleConn
  PROVE  Dialogue'
<1>1. pc = "dispatch" /\ UNCHANGED <<quiet, net, log>>  BY DEF HandleConn
<1>2. CASE \E e \in batch : /\ e[1] \in Fds /\ conns[e[1]] # NoConn /\ "ERR" \in e[2]
                            /\ conn_close(e[1]) /\ UNCHANGED pc
  <2>1. PICK e \in batch : /\ e[1] \in Fds /\ conns[e[1]] # NoConn /\ "ERR" \in e[2]
                           /\ conn_close(e[1]) /\ UNCHANGED pc
    BY <1>2
  <2>2. PICK f, k : f = e[1] /\ k = conns[f].client  OBVIOUS
  <2>3. f \in Open /\ peer[k] # "open"  BY <2>1, <2>2 DEF Open, Events, Pending
  <2> QED  BY <1>1, <2>1, <2>2, <2>3, ClosedDialogue DEF log
<1>3. CASE UNCHANGED <<table, conns>> /\ pc' \in {"dispatch", "read", "write"}
  <2>1. /\ UNCHANGED <<stream, rcvd, out, log, conns, fds, peer, backlog>>
    BY <1>1, <1>3 DEF quiet, client, net, table
  <2> QED  BY <1>1, <1>3, <2>1, StillDialogue DEF Waits
<1> QED  BY <1>1, <1>2, <1>3 DEF HandleConn

\* A client that nothing was exchanged with.
LEMMA Untold ==
  TableInv => \A k \in Clients : rcvd[k] = 0 /\ out[k] = <<>> /\ answered[k] = <<>> =>
                                  Outside(k) /\ Ordered(k, answered[k])
<1> SUFFICES ASSUME NEW c \in Clients, rcvd[c] = 0, out[c] = <<>>, answered[c] = <<>>
             PROVE  Outside(c) /\ Ordered(c, answered[c])
  OBVIOUS
<1>1. Len(<<>>) = 0 /\ 1 .. Len(<<>>) - 1 = {} /\ DOMAIN <<>> = {} /\ 0 <= 0 /\ ~(0 > 0)
  BY SMTT(60)
<1>2. EndOf(<<>>, Len(<<>>)) = 0  BY <1>1 DEF EndOf
<1>3. EarlierOut(c, <<>>)  BY <1>1 DEF EarlierOut
<1>4. Ordered(c, <<>>)  BY <1>1, <1>2 DEF Ordered
<1> QED  BY <1>1, <1>3, <1>4 DEF Outside

\* accept(): nothing was exchanged with the client before.
LEMMA AcceptStream ==
  ASSUME TableInv, Hands, Events, TableInv', Hands', Events', Dialogue, Accept
  PROVE  Dialogue'
<1>1. /\ pc = "accept" /\ UNCHANGED <<client, event, pc, answered, rcvd, out>>
      /\ backlog # <<>> /\ backlog' = Tail(backlog)
      /\ \E c \in Clients, f \in Fds :
           c = Head(backlog) /\ Waits(c) /\ fds[f] = Free /\ (Accepts(c, f) \/ Drops)
  BY AcceptEffect DEF quiet
<1>2. UNCHANGED <<stream, peer>>  BY <1>1 DEF client
<1>3. \A d \in Clients : Waits(d)' => Waits(d) /\ d # Head(backlog)  BY <1>1, <1>2, QueueTail
<1>4. CASE Drops
  <2>1. UNCHANGED <<stream, rcvd, out, log, conns, fds>>  BY <1>1, <1>2, <1>4 DEF Drops, log
  <2> QED  BY <1>1, <1>2, <1>3, <2>1, StillDialogue
<1>5. ASSUME NEW c \in Clients, NEW f \in Fds, c = Head(backlog), Waits(c), fds[f] = Free,
             Accepts(c, f)
      PROVE  Dialogue'
  <2>1. PICK d : d = NewConn(c)  OBVIOUS
  <2>2. /\ d \in Conn /\ Within(d) /\ d.client = c /\ d.state = "ST_READING"
        /\ d.inbuf = <<>> /\ d.in_head = 0 /\ d.head = <<>>
    <3>1. 0 \in Fds  BY SMTT(60), ReactorBounds DEF Fds
    <3> QED  BY <2>1, <3>1, NewConnFields
  <2>3. Open' = Open \cup {f} /\ conns'[f] = d /\ \A g \in Fds \ {f} : conns'[g] = conns[g]
    <3>1. ConnsOK /\ conns' = [conns EXCEPT ![f] = d]  BY <1>5, <2>1 DEF Accepts, TableInv, TypeOK
    <3> QED  BY <2>2, <3>1, ConnStored
  <2>4. failed \subseteq failed'  BY <1>5 DEF Accepts
  <2>5. \A g \in Fds \ {f} : fds'[g] = fds[g]
    BY <1>5 DEF Accepts, TableInv, TypeOK, TableOK
  <2>6. \A k : fds[f] # <<"sock", k>>  BY SMTT(60), <1>5 DEF Free
  <2>7. ASSUME NEW k \in Clients \ {c} PROVE SameTraffic(k) /\ NotLost(k)
    <3>1. Connected(k) => Connected(k)'  BY <2>5, <2>6 DEF Connected
    <3> QED  BY <1>1, <1>2, <1>3, <3>1 DEF SameTraffic, NotLost
  <2>8. \A g \in Open : g \in Fds \ {f} /\ conns[g].client \in Clients \ {c}
    <3>1. ~Connected(c)  BY <1>5 DEF TableInv, Sockets
    <3> QED  BY <2>6, <3>1, OwnSocket
  <2>9. \A g \in Open' \ {f} :
          /\ g \in Open /\ conns'[g] = conns[g] /\ conns[g].client \in Clients \ {c}
          /\ (Handled(g) <=> Handled(g)') \/ conns[g].state # "ST_READING"
    BY <1>1, <2>3, <2>8 DEF Handled
  <2>10. rcvd'[c] = 0 /\ out'[c] = <<>> /\ answered'[c] = <<>>
    <3>1. Outside(c)  BY DEF Dialogue, Exchange
    <3> QED  BY <1>1, <1>5, <3>1 DEF Outside
  <2>11. Outside(c)' /\ Ordered(c, answered[c])'
    <3>1. TableInv' => (\A k \in Clients : rcvd[k] = 0 /\ out[k] = <<>> /\ answered[k] = <<>> =>
                                             Outside(k) /\ Ordered(k, answered[k]))'
      BY Untold, PTL
    <3> QED  BY <2>10, <3>1
  <2>12. Flows(f)'
    <3>1. /\ Len(<<>>) = 0 /\ 0 <= 0 /\ 1 .. 0 = {} /\ 0 + 1 .. 0 = {}
      BY SMTT(60)
    <3>2. Buffered(d)'  BY <2>2, <2>10, <3>1 DEF Buffered
    <3>3. EndOf(<<>>, Len(<<>>)) = 0 /\ PosOf(<<>>, Len(<<>>)) = 0  BY <3>1 DEF EndOf, PosOf
    <3>4. ~Handled(f)'  BY <1>1 DEF Handled
    <3>5. NoRequest(c, 0, 0)'  BY <3>1 DEF NoRequest
    <3>6. Awaits(f, d, <<>>)'  BY <2>2, <2>10, <3>1, <3>3, <3>4, <3>5 DEF Awaits
    <3>7. Progress(f, d, <<>>)'  BY <2>2, <3>6 DEF Progress
    <3> QED  BY <2>2, <2>3, <2>10, <3>2, <3>7 DEF Flows
  <2>13. /\ \A g \in Open' \cap {f} : Flows(g)'
         /\ \A k \in Clients \cap {c} : Outside(k)' /\ (k \notin failed' => Ordered(k, answered[k])')
    BY <2>11, <2>12
  <2> QED  BY <2>4, <2>7, <2>9, <2>13, DialogueStep
<1> QED  BY <1>1, <1>4, <1>5

\* reactor_destroy.
LEMMA DestroyStream ==
  ASSUME Dialogue, ReactorDestroy
  PROVE  Dialogue'
<1>1. /\ UNCHANGED <<stream, peer, rcvd, out, answered, failed>>
      /\ backlog' = <<>> /\ pc' = "destroyed" /\ Open' = {}
  BY DEF ReactorDestroy, Open, client, log
<1>2. \A c : ~Waits(c)'
  <2>1. DOMAIN <<>> = {}  BY SMTT(60)
  <2> QED  BY <1>1, <2>1 DEF Waits
<1>3. ASSUME NEW c \in Clients PROVE SameTraffic(c) /\ NotLost(c)
  BY <1>1, <1>2 DEF SameTraffic, NotLost
<1> DEFINE none == {}
<1>4. \A c \in Clients \ none : SameTraffic(c) /\ NotLost(c)  BY <1>3
<1>5. Open' \ none = {} /\ Open' \cap none = {} /\ Clients \cap none = {}  BY <1>1
<1> HIDE DEF none
<1> QED  BY <1>1, <1>4, <1>5, DialogueStep

\* The loop goes on without anything being exchanged.
LEMMA LoopStream ==
  ASSUME TableInv, Hands, Events, Events', Dialogue,
         \/ ReactorCreate \/ Run \/ RunFails \/ EpollWait \/ BatchDone \/ HandleWakeup
         \/ HandleListen \/ AcceptDone \/ WriteBlocked \/ WriteKills
  PROVE  Dialogue'
<1>1. CASE ReactorCreate \/ Run \/ RunFails \/ EpollWait \/ BatchDone
  <2>1. /\ UNCHANGED <<client, net, log, conns, table>>
        /\ pc \in {"create", "created", "wait", "dispatch"}
        /\ pc' \in {"create", "created", "null", "wait", "exited", "dispatch"}
    BY <1>1 DEF ReactorCreate, Run, RunFails, EpollWait, BatchDone, quiet
  <2>2. UNCHANGED <<stream, peer, rcvd, out, log, conns, fds, backlog>>
    BY <2>1 DEF client, net, table
  <2> QED  BY <2>1, <2>2, StillDialogue DEF Waits
<1>2. CASE HandleWakeup \/ HandleListen \/ AcceptDone
  <2>1. /\ UNCHANGED <<client, net, log, conns, table>>
        /\ pc \in {"dispatch", "accept"} /\ pc' \in {"dispatch", "accept"}
    BY <1>2 DEF HandleWakeup, HandleListen, AcceptDone, quiet
  <2>2. UNCHANGED <<stream, peer, rcvd, out, log, conns, fds, backlog>>
    BY <2>1 DEF client, net, table
  <2> QED  BY <2>1, <2>2, StillDialogue DEF Waits
<1>3. CASE WriteBlocked \/ WriteKills
  <2>1. /\ UNCHANGED <<client, net, log, conns, table, cur>>
        /\ pc = "write" /\ pc' \in {"dispatch", "write", "killed"}
    BY <1>3 DEF WriteBlocked, WriteKills, Writing, Return, quiet, event
  <2>2. UNCHANGED <<stream, peer, rcvd, out, log, conns, fds, backlog>>
    BY <2>1 DEF client, net, table
  <2> QED  BY <2>1, <2>2, StillDialogue DEF Waits
<1> QED  BY <1>1, <1>2, <1>3

\* A client joins the listen queue, sends, hangs up or consumes output; the file
\* changes, the reactor is told to stop, or nothing happens.
LEMMA OtherStream ==
  ASSUME TableInv, Hands, Events, Events', Dialogue,
         \/ \E c \in Clients : Client(c)
         \/ Truncate \/ ReactorStop \/ UNCHANGED vars
  PROVE  Dialogue'
<1>1. UNCHANGED <<thread, stream, rcvd, out>>
  BY DEF Client, Connect, Send, HangUp, Consume, Truncate, ReactorStop, vars, quiet, client, net
<1>2. UNCHANGED <<pc, cur, stream, rcvd, out, log, conns, fds>>  BY <1>1 DEF thread, event, table
<1>3. ASSUME NEW c \in Clients, Connect(c), NEW d \in Clients
      PROVE  /\ peer'[d] = "none" \/ Waits(d)' => peer[d] = "none" \/ Waits(d)
             /\ peer'[d] = "open" => peer[d] = "open" \/ rcvd[d] = 0
  <2>1. /\ peer[c] = "none" /\ peer' = [peer EXCEPT ![c] = "open"]
        /\ backlog' = Append(backlog, c) /\ backlog \in Seq(Clients)
    BY <1>3 DEF Connect, TableInv, TypeOK, QueueOK
  <2>2. d # c => peer'[d] = peer[d]  BY <2>1 DEF TableInv, TypeOK, QueueOK
  <2>3. \A n \in DOMAIN backlog' : backlog'[n] = c \/ (n \in DOMAIN backlog /\ backlog[n] = backlog'[n])
    BY SMTT(60), <2>1
  <2>4. Waits(d)' => d = c \/ Waits(d)  BY <2>3 DEF Waits
  <2>5. rcvd[c] = 0  BY <2>1 DEF Dialogue, Exchange, Outside
  <2> QED  BY <2>1, <2>2, <2>4, <2>5
<1>4. ASSUME NEW c \in Clients, HangUp(c), NEW d \in Clients
      PROVE  /\ peer'[d] = "none" \/ Waits(d)' => peer[d] = "none" \/ Waits(d)
             /\ peer'[d] = "open" => peer[d] = "open" \/ rcvd[d] = 0
  <2>1. backlog' = backlog /\ \E e \in {"fin", "reset", "broken"} : peer' = [peer EXCEPT ![c] = e]
    BY <1>4 DEF HangUp, net
  <2>2. peer'[d] = peer[d] \/ peer'[d] \in {"fin", "reset", "broken"}
    BY <2>1 DEF TableInv, TypeOK, QueueOK
  <2> QED  BY <2>1, <2>2 DEF Waits
<1>5. CASE \/ \E c \in Clients : Send(c) \/ Consume(c)
           \/ Truncate \/ ReactorStop \/ UNCHANGED vars
  <2>1. UNCHANGED <<peer, backlog>>
    BY <1>5 DEF Send, Consume, Truncate, ReactorStop, vars, quiet, client, net
  <2> QED  BY <1>2, <2>1, StillDialogue DEF Waits
<1>6. CASE \E c \in Clients : Connect(c) \/ HangUp(c)
  BY <1>2, <1>3, <1>4, <1>6, StillDialogue
<1> QED  BY <1>5, <1>6 DEF Client

-----------------------------------------------------------------------------
(* The layer is an invariant.                                              *)

\* Before reactor_create.
LEMMA InitStream == Init /\ TableInv => Dialogue
<1> SUFFICES ASSUME Init, TableInv PROVE Dialogue  OBVIOUS
<1>1. Open = {}  BY DEF Init, Open
<1>2. \A c \in Clients : Outside(c) /\ Ordered(c, answered[c])  BY Untold DEF Init
<1> QED  BY <1>1, <1>2 DEF Dialogue, Exchange

\* Every step of the reactor, its clients and its pool keeps the layer.
LEMMA StepStream ==
  ASSUME TableInv, Hands, Events, TableInv', Hands', Events', Dialogue, [Next]_vars
  PROVE  Dialogue'
<1>1. CASE UNCHANGED vars \/ SendNothing \/ Terminated \/ Truncate \/ ReactorStop
  BY <1>1, OtherStream DEF SendNothing, Terminated
<1>2. CASE \E c \in Clients : Client(c)  BY <1>2, OtherStream
<1>3. CASE \/ ReactorCreate \/ Run \/ RunFails \/ EpollWait \/ BatchDone \/ HandleWakeup
           \/ HandleListen \/ AcceptDone \/ WriteBlocked \/ WriteKills
  BY <1>3, LoopStream
<1>4. CASE HandleConn \/ Accept \/ ReactorDestroy
  BY <1>4, HandleConnStream, AcceptStream, DestroyStream
<1>5. CASE Read \/ ReadDrained \/ BuildSimple \/ BuildFile \/ BuildFileFails
  BY <1>5, ReadStream, DrainedStream, BuildStream
<1>6. CASE ReadEnd \/ WriteFails  BY <1>6, CloseStream
<1>7. CASE Write \/ HeadDone \/ FileDone \/ Finish
  BY <1>7, WriteStream, HeadDoneStream, FileDoneStream, FinishStream
<1> QED  BY <1>1, <1>2, <1>3, <1>4, <1>5, <1>6, <1>7 DEF Next, Loop
=============================================================================
