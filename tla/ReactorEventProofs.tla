------------------------- MODULE ReactorEventProofs -------------------------
(***************************************************************************)
(* The second layer of the invariant of the reactor, EventInv: as long as  *)
(* the reactor has closed no descriptor but its own, the table holds the   *)
(* sockets and files of its connections and nothing else, and no event     *)
(* that edge-triggered epoll reports once is lost or comes to a connection *)
(* it does not fit.                                                        *)
(***************************************************************************)
EXTENDS ReactorSteps, FiniteSetTheorems

USE ZenonT(60)

-----------------------------------------------------------------------------
(* Connections and their descriptors.                                      *)

\* active_conns counts a set of descriptors.
LEMMA Counts ==
  ASSUME NEW S \in SUBSET Fds
  PROVE  /\ Cardinality({}) = 0 /\ Cardinality(S) \in Int
         /\ \A f \in Fds \ S : Cardinality(S \cup {f}) = Cardinality(S) + 1
         /\ \A f \in S : Cardinality(S \ {f}) = Cardinality(S) - 1
<1>1. 0 \in Int /\ MaxFd \in Int  BY SMTT(60), ReactorBounds
<1>2. IsFiniteSet(S)  BY <1>1, FS_Interval, FS_Subset DEF Fds
<1>3. Cardinality(S) \in Nat  BY <1>2, FS_CardinalityType
<1>4. \A f \in Fds \ S : Cardinality(S \cup {f}) = Cardinality(S) + 1
  BY <1>2, FS_AddElement
<1>5. \A f \in S : Cardinality(S \ {f}) = Cardinality(S) - 1
  BY <1>2, FS_RemoveElement
<1>6. Cardinality({}) = 0  BY FS_EmptySet
<1> QED  BY SMTT(60), <1>3, <1>4, <1>5, <1>6

\* The descriptors as a step leaves them that changes no connection.
LEMMA HandsSame ==
  ASSUME Hands, UNCHANGED <<fds, active_conns, conns>>, pc # "destroyed" \/ pc' = pc,
         pc' \in {"create", "null", "created", "destroyed"} => Open = {}
  PROVE  Hands'
<1>1. Open' = Open  BY DEF Open
<1>2. \A f \in Open' : Owns(f, conns[f])'  BY <1>1 DEF Hands, Owns
<1> QED  BY SMTT(60), <1>1, <1>2 DEF Hands

\* The descriptors as a handler leaves them that changes d in its connection.
LEMMA HandsStored ==
  ASSUME TableInv, Hands, cur \in Open, NEW d \in Conn, Stored(d),
         UNCHANGED <<fds, active_conns>>,
         pc \in {"read", "build", "write"}, pc' \in {"read", "build", "write", "dispatch"},
         d.client = conns[cur].client,
         d.file_fd = conns[cur].file_fd \/ (conns[cur].file_fd <= 0 /\ d.file_fd = -1),
         d.state = "ST_READING" => d.file_fd <= 0,
         d.phase = "RSP_DONE" => d.file_fd = -1,
         d.phase = "RSP_SENDFILE" => d.file_fd >= 0
  PROVE  Hands'
<1>1. Open' = Open /\ conns'[cur] = d /\ \A g \in Open \ {cur} : conns'[g] = conns[g]
  BY StoredIs
<1>2. ASSUME NEW f \in Fds, NEW c \in Clients, fds[f] = <<"file", c>>
      PROVE  \E g \in Open : conns'[g].client = c /\ conns'[g].file_fd = f
  <2>1. PICK g \in Open : conns[g].client = c /\ conns[g].file_fd = f  BY <1>2 DEF Hands
  <2>2. ~(f <= 0)
    <3>1. f # 0  BY SMTT(60), <1>2 DEF Hands, Other
    <3> QED  BY SMTT(60), <3>1 DEF Fds
  <2>3. conns'[g].client = c /\ conns'[g].file_fd = f  BY <1>1, <2>1, <2>2
  <2> QED  BY <2>3
<1>3. ASSUME NEW g \in Open PROVE Owns(g, conns[g])'
  <2>1. Owns(g, conns[g]) /\ ~(-1 > 0)  BY SMTT(60) DEF Hands
  <2>2. CASE g = cur  BY <1>1, <2>1, <2>2 DEF Owns
  <2>3. CASE g # cur  BY <1>1, <2>1, <2>3 DEF Owns
  <2> QED  BY <2>2, <2>3
<1>4. active_conns' = Cardinality(Open')  BY SMTT(60), <1>1 DEF Hands
<1>5. fds'[0] = Other /\ \A f \in Fds, c \in Clients : fds'[f] = <<"sock", c>> => f \in Open'
  BY <1>1 DEF Hands
<1> QED  BY <1>1, <1>2, <1>3, <1>4, <1>5 DEF Hands

\* What a connection closes, if its file is its own: nothing of another one.
LEMMA OwnNumbers ==
  ASSUME TableInv, Hands, NEW f \in Open,
         conns[f].file_fd >= 0 => fds[conns[f].file_fd] = <<"file", conns[f].client>>
  PROVE  /\ 0 \notin OwnFds(f) /\ f # conns[f].file_fd
         /\ \A g \in Open \ {f} :
              /\ g \notin OwnFds(f)
              /\ conns[g].file_fd > 0 => conns[g].file_fd \notin OwnFds(f)
<1> DEFINE c == conns[f]
<1>1. /\ f \in Fds /\ fds[f] = <<"sock", c.client>> /\ fds[0] = Other
      /\ c.file_fd = -1 \/ (c.file_fd \in Fds /\ fds[c.file_fd] = <<"file", c.client>>)
  <2>1. c.file_fd \in Fds \cup {-1}  BY OpenConn, ConnFields DEF TableInv, TypeOK
  <2>2. f \in Fds /\ fds[f] = <<"sock", c.client>> /\ fds[0] = Other  BY OwnSocket DEF Hands
  <2> QED  BY SMTT(60), <2>1, <2>2 DEF Fds
<1>2. \A g \in Open \ {f} :
        /\ g \in Fds /\ fds[g] = <<"sock", conns[g].client>> /\ conns[g].client # c.client
        /\ conns[g].file_fd > 0 => fds[conns[g].file_fd] = <<"file", conns[g].client>>
  BY OwnSocket DEF Hands, Owns
<1> HIDE DEF c
<1>3. -1 \notin Fds /\ ~(-1 > 0) /\ 0 # -1  BY SMTT(60) DEF Fds
<1>4. 0 \notin {f, c.file_fd} /\ f # c.file_fd  BY SMTT(60), <1>1, <1>3 DEF Other
<1>5. ASSUME NEW g \in Open \ {f} PROVE g \notin {f, c.file_fd}  BY SMTT(60), <1>1, <1>2, <1>3
<1>6. ASSUME NEW g \in Open \ {f}, conns[g].file_fd > 0 PROVE conns[g].file_fd \notin {f, c.file_fd}
  BY SMTT(60), <1>1, <1>2, <1>3, <1>6
<1> QED  BY <1>4, <1>5, <1>6 DEF c, OwnFds

\* The sockets that close() leaves open are watched as before.
LEMMA CloseOthers ==
  ASSUME TableInv, Hands, NEW S, CloseFds(S), NEW g \in Open, g \notin S
  PROVE  LET k == conns[g].client IN
         interest'[k] = interest[k] /\ (k \in edge => k \in edge')
<1>1. conns[g].client \in Clients /\ FdOf(conns[g].client) = g  BY OwnSocket
<1> QED  BY <1>1 DEF CloseFds

\* conn_close() gives back what the connection has, and nothing else.
LEMMA HandsClosed ==
  ASSUME TableInv, Hands, NEW f \in Open, conn_close(f), ~stray', UNCHANGED <<backlog, peer>>,
         pc \in {"dispatch", "read", "write"}, pc' = "dispatch"
  PROVE  /\ Hands' /\ Open' = Open \ {f}
         /\ \A g \in Open \ {f} :
              LET k == conns[g].client IN
              conns'[g] = conns[g] /\ interest'[k] = interest[k] /\ (k \in edge => k \in edge')
<1>1. /\ Open' = Open \ {f} /\ \A g \in Fds \ {f} : conns'[g] = conns[g]
      /\ \A g \in Fds : fds'[g] = IF g \in OwnFds(f) THEN Free ELSE fds[g]
  <2>1. /\ conns' = [conns EXCEPT ![f] = NoConn] /\ CloseFds(OwnFds(f)) /\ f \in Fds
    BY DEF conn_close, Open
  <2>2. Open' = Open \ {f} /\ \A g \in Fds \ {f} : conns'[g] = conns[g]
    BY <2>1, ConnFreed DEF TableInv, TypeOK
  <2>3. \A g \in Fds : fds'[g] = IF g \in OwnFds(f) THEN Free ELSE fds[g]
    BY <2>1 DEF CloseFds
  <2> QED  BY <2>2, <2>3
<1>2. /\ 0 \notin OwnFds(f)
      /\ \A g \in Open \ {f} :
           /\ g \notin OwnFds(f) /\ g \in Fds
           /\ conns[g].file_fd > 0 => conns[g].file_fd \notin OwnFds(f)
  <2>1. conns[f].file_fd >= 0 => fds[conns[f].file_fd] = <<"file", conns[f].client>>
    BY DEF conn_close
  <2> QED  BY <2>1, OwnNumbers DEF Open
<1>3. \A g \in Open \ {f} : Owns(g, conns[g])'
  <2>1. \A g \in Open \ {f} : conns[g].file_fd > 0 => conns[g].file_fd \in Fds
    <3>1. \A g \in Open : conns[g].file_fd \in Fds \cup {-1}
      BY OpenConn, ConnFields DEF TableInv, TypeOK
    <3> QED  BY SMTT(60), <3>1
  <2>2. ASSUME NEW g \in Open \ {f} PROVE Owns(g, conns[g])'
    <3>1. /\ conns'[g] = conns[g] /\ fds'[g] = fds[g]
          /\ conns[g].file_fd > 0 => fds'[conns[g].file_fd] = fds[conns[g].file_fd]
      BY <1>1, <1>2, <2>1
    <3> QED  BY <3>1 DEF Hands, Owns
  <2> QED  BY <2>2
<1>4. ASSUME NEW g \in Fds, NEW c \in Clients
      PROVE  /\ fds'[g] = <<"sock", c>> => g \in Open'
             /\ fds'[g] = <<"file", c>> =>
                  \E h \in Open' : conns'[h].client = c /\ conns'[h].file_fd = g
  <2>1. g \in OwnFds(f) => fds'[g] # <<"sock", c>> /\ fds'[g] # <<"file", c>>
    BY SMTT(60), <1>1 DEF Free
  <2>2. CASE g \notin OwnFds(f)
    <3>1. fds'[g] = fds[g] /\ g # f /\ g # conns[f].file_fd  BY <1>1, <2>2 DEF OwnFds
    <3>2. fds[g] = <<"sock", c>> => g \in Open'  BY <1>1, <3>1 DEF Hands
    <3>3. ASSUME fds[g] = <<"file", c>>
          PROVE  \E h \in Open' : conns'[h].client = c /\ conns'[h].file_fd = g
      <4>1. PICK h \in Open : conns[h].client = c /\ conns[h].file_fd = g
        BY <3>3 DEF Hands
      <4>2. h \in Open' /\ conns'[h] = conns[h]  BY <1>1, <1>2, <3>1, <4>1
      <4> QED  BY <4>1, <4>2
    <3> QED  BY <3>1, <3>2, <3>3
  <2> QED  BY <2>1, <2>2
<1>5. fds'[0] = Other
  <2>1. 0 \in Fds  BY SMTT(60), ReactorBounds DEF Fds
  <2> QED  BY <1>1, <1>2, <2>1 DEF Hands
<1>6. active_conns' = Cardinality(Open')
  <2>1. Open \in SUBSET Fds /\ active_conns = Cardinality(Open) /\ active_conns' = active_conns - 1
    BY DEF Hands, conn_close, Open
  <2>2. Cardinality(Open \ {f}) = Cardinality(Open) - 1  BY <2>1, Counts
  <2> QED  BY <1>1, <2>1, <2>2
<1>7. Hands'  BY <1>1, <1>3, <1>4, <1>5, <1>6 DEF Hands
<1>8. CloseFds(OwnFds(f))  BY DEF conn_close
<1> QED  BY <1>1, <1>2, <1>7, <1>8, CloseOthers

\* conn_write closes the file it has sent, and leaves d.
LEMMA HandsFileDone ==
  ASSUME TableInv, Hands, cur \in Open, conns[cur].phase = "RSP_SENDFILE", pc = "write", pc' = pc,
         CloseFds({conns[cur].file_fd}), UNCHANGED active_conns,
         fds[conns[cur].file_fd] = <<"file", conns[cur].client>>,
         NEW d \in Conn, Stored(d), d.client = conns[cur].client,
         d.phase = "RSP_DONE", d.file_fd = -1
  PROVE  Hands' /\ UNCHANGED epoll
<1> DEFINE c == conns[cur]
<1>1. Open' = Open /\ conns'[cur] = d /\ \A g \in Open \ {cur} : conns'[g] = conns[g]
  BY StoredIs
<1>2. /\ 0 # c.file_fd /\ cur # c.file_fd
      /\ \A g \in Open \ {cur} :
           /\ g # c.file_fd
           /\ conns[g].file_fd > 0 => conns[g].file_fd # c.file_fd
  BY OwnNumbers DEF OwnFds
<1>3. /\ \A g \in Open : g \in Fds /\ conns[g].file_fd \in Fds \cup {-1}
      /\ 0 \in Fds /\ ~(-1 > 0) /\ -1 <= 0
  <2>1. \A g \in Open : g \in Fds /\ conns[g].file_fd \in Fds \cup {-1}
    BY OpenConn, ConnFields DEF TableInv, TypeOK
  <2> QED  BY SMTT(60), <2>1, ReactorBounds DEF Fds
<1>4. \A g \in Fds : fds'[g] = IF g = c.file_fd THEN Free ELSE fds[g]  BY DEF CloseFds
<1>5. ASSUME NEW g \in Open PROVE Owns(g, conns[g])'
  <2>1. CASE g = cur
    <3>1. fds'[cur] = <<"sock", d.client>>
      BY <1>2, <1>3, <1>4 DEF Hands, Owns
    <3> QED  BY <1>1, <1>3, <2>1, <3>1 DEF Owns
  <2>2. CASE g # cur
    <3>1. conns[g].file_fd > 0 => conns[g].file_fd \in Fds  BY <1>3
    <3>2. /\ conns'[g] = conns[g] /\ fds'[g] = fds[g]
          /\ conns[g].file_fd > 0 => fds'[conns[g].file_fd] = fds[conns[g].file_fd]
      BY <1>1, <1>2, <1>3, <1>4, <2>2, <3>1
    <3> QED  BY <3>2 DEF Hands, Owns
  <2> QED  BY <2>1, <2>2
<1>6. ASSUME NEW g \in Fds, NEW k \in Clients
      PROVE  /\ fds'[g] = <<"sock", k>> => g \in Open'
             /\ fds'[g] = <<"file", k>> =>
                  \E h \in Open' : conns'[h].client = k /\ conns'[h].file_fd = g
  <2>1. g = c.file_fd => fds'[g] # <<"sock", k>> /\ fds'[g] # <<"file", k>>
    BY SMTT(60), <1>4 DEF Free
  <2>2. CASE g # c.file_fd
    <3>1. fds'[g] = fds[g]  BY <1>4, <2>2
    <3>2. ASSUME fds[g] = <<"file", k>>
          PROVE  \E h \in Open' : conns'[h].client = k /\ conns'[h].file_fd = g
      <4>1. PICK h \in Open : conns[h].client = k /\ conns[h].file_fd = g
        BY <3>2 DEF Hands
      <4>2. h \in Open' /\ conns'[h] = conns[h]  BY <1>1, <2>2, <4>1
      <4> QED  BY <4>1, <4>2
    <3>3. fds[g] = <<"sock", k>> => g \in Open'  BY <1>1 DEF Hands
    <3> QED  BY <3>1, <3>2, <3>3
  <2> QED  BY <2>1, <2>2
<1>7. fds'[0] = Other  BY <1>2, <1>3, <1>4 DEF Hands
<1>8. active_conns' = Cardinality(Open')  BY SMTT(60), <1>1 DEF Hands
<1>9. Hands'  BY <1>1, <1>5, <1>6, <1>7, <1>8 DEF Hands
<1>10. \A k \in Clients : ~(Connected(k) /\ FdOf(k) = c.file_fd)
  <2>1. \A k \in Clients : <<"sock", k>> # <<"file", c.client>>  BY SMTT(60)
  <2> QED  BY <2>1, FdOfIs
<1>11. UNCHANGED interest /\ UNCHANGED edge
  <2>1. interest' = [k \in Clients |-> interest[k]]  BY <1>10 DEF CloseFds
  <2>2. edge \subseteq Clients /\ interest = [k \in Clients |-> interest[k]]
    BY DEF TableInv, TypeOK, EpollOK
  <2>3. edge' = edge  BY <1>10, <2>2 DEF CloseFds
  <2> QED  BY <2>1, <2>2, <2>3
<1> QED  BY <1>9, <1>11 DEF epoll

\* respond_file opens a file for the connection it leaves as d.
LEMMA HandsFiled ==
  ASSUME TableInv, Hands, cur \in Open, conns[cur].state = "ST_READING", UNCHANGED active_conns,
         pc = "build", pc' = "write", NEW d \in Conn, Stored(d), d.client = conns[cur].client,
         d.state = "ST_WRITING", d.phase = "RSP_HEAD", d.file_fd \in Fds, fds[d.file_fd] = Free,
         fds' = [fds EXCEPT ![d.file_fd] = <<"file", d.client>>]
  PROVE  Hands'
<1> DEFINE c == conns[cur]
           x == d.file_fd
<1>1. Open' = Open /\ conns'[cur] = d /\ \A g \in Open \ {cur} : conns'[g] = conns[g]
  BY StoredIs
<1>2. fds'[x] = <<"file", d.client>> /\ \A g \in Fds \ {x} : fds'[g] = fds[g]
  BY DEF TableInv, TypeOK, TableOK
<1>3. /\ \A g \in Open : g \in Fds \ {x} /\ (conns[g].file_fd > 0 => conns[g].file_fd \in Fds \ {x})
      /\ 0 \in Fds \ {x} /\ c.file_fd <= 0
  <2>1. \A g \in Open : g \in Fds /\ conns[g].file_fd \in Fds \cup {-1}
    BY OpenConn, ConnFields DEF TableInv, TypeOK
  <2>2. 0 \in Fds /\ c.file_fd <= 0  BY SMTT(60), ReactorBounds DEF Fds, Hands, Owns
  <2> QED  BY SMTT(60), <2>1, <2>2 DEF Hands, Owns, Free, Other
<1>4. ASSUME NEW g \in Open PROVE Owns(g, conns[g])'
  <2>1. CASE g = cur
    <3>1. fds'[cur] = <<"sock", d.client>>  BY <1>2, <1>3 DEF Hands, Owns
    <3> QED  BY <1>1, <1>2, <2>1, <3>1 DEF Owns
  <2>2. CASE g # cur
    <3>1. /\ conns'[g] = conns[g] /\ fds'[g] = fds[g]
          /\ conns[g].file_fd > 0 => fds'[conns[g].file_fd] = fds[conns[g].file_fd]
      BY <1>1, <1>2, <1>3, <2>2
    <3> QED  BY <3>1 DEF Hands, Owns
  <2> QED  BY <2>1, <2>2
<1>5. ASSUME NEW g \in Fds, NEW k \in Clients
      PROVE  /\ fds'[g] = <<"sock", k>> => g \in Open'
             /\ fds'[g] = <<"file", k>> =>
                  \E h \in Open' : conns'[h].client = k /\ conns'[h].file_fd = g
  <2>1. g = x => fds'[g] # <<"sock", k>> /\ (fds'[g] = <<"file", k>> => d.client = k)
    BY SMTT(60), <1>2
  <2>2. CASE g # x
    <3>1. fds'[g] = fds[g]  BY <1>2, <2>2
    <3>2. ASSUME fds[g] = <<"file", k>>
          PROVE  \E h \in Open' : conns'[h].client = k /\ conns'[h].file_fd = g
      <4>1. PICK h \in Open : conns[h].client = k /\ conns[h].file_fd = g
        BY <3>2 DEF Hands
      <4>2. h # cur
        <5>1. g # 0  BY SMTT(60), <3>2 DEF Hands, Other
        <5> QED  BY SMTT(60), <1>3, <4>1, <5>1 DEF Fds
      <4>3. h \in Open' /\ conns'[h] = conns[h]  BY <1>1, <4>1, <4>2
      <4> QED  BY <4>1, <4>3
    <3>3. fds[g] = <<"sock", k>> => g \in Open'  BY <1>1 DEF Hands
    <3> QED  BY <3>1, <3>2, <3>3
  <2> QED  BY <1>1, <2>1, <2>2
<1>6. fds'[0] = Other  BY <1>2, <1>3 DEF Hands
<1>7. active_conns' = Cardinality(Open')  BY SMTT(60), <1>1 DEF Hands
<1> QED  BY <1>1, <1>4, <1>5, <1>6, <1>7 DEF Hands

\* A connection accepted at f for the client c.
LEMMA HandsAccepted ==
  ASSUME TableInv, Hands, NEW c \in Clients, NEW f \in Fds, fds[f] = Free, Accepts(c, f),
         pc = "accept", pc' = pc
  PROVE  /\ Hands' /\ f \notin Open /\ Open' = Open \cup {f}
         /\ conns'[f] = NewConn(c) /\ \A g \in Open : conns'[g] = conns[g]
<1>1. /\ conns' = [conns EXCEPT ![f] = NewConn(c)] /\ active_conns' = active_conns + 1
      /\ fds' = [fds EXCEPT ![f] = <<"sock", c>>]
  BY DEF Accepts
<1>2. fds'[f] = <<"sock", c>> /\ \A g \in Fds \ {f} : fds'[g] = fds[g]
  BY <1>1 DEF TableInv, TypeOK, TableOK
<1>3. /\ \A g \in Open : g \in Fds \ {f} /\ (conns[g].file_fd > 0 => conns[g].file_fd \in Fds \ {f})
      /\ 0 \in Fds \ {f} /\ f \notin Open
  <2>1. \A g \in Open : g \in Fds /\ conns[g].file_fd \in Fds \cup {-1}
    BY OpenConn, ConnFields DEF TableInv, TypeOK
  <2>2. 0 \in Fds  BY SMTT(60), ReactorBounds DEF Fds
  <2> QED  BY SMTT(60), <2>1, <2>2 DEF Hands, Owns, Free, Other
<1>4. /\ NewConn(c) \in Conn /\ Within(NewConn(c)) /\ NewConn(c).client = c
      /\ NewConn(c).phase = "RSP_HEAD" /\ NewConn(c).file_fd = 0
  BY <1>3, NewConnFields
<1>5. /\ Open' = Open \cup {f} /\ conns'[f] = NewConn(c)
      /\ \A g \in Fds \ {f} : conns'[g] = conns[g]
  BY <1>1, <1>4, ConnStored DEF TableInv, TypeOK
<1>6. ASSUME NEW g \in Open' PROVE Owns(g, conns[g])'
  <2>1. CASE g = f
    <3>1. ~(0 > 0) /\ 0 <= 0  BY SMTT(60)
    <3> QED  BY <1>2, <1>4, <1>5, <2>1, <3>1 DEF Owns
  <2>2. CASE g # f
    <3>1. /\ conns'[g] = conns[g] /\ fds'[g] = fds[g] /\ g \in Open
          /\ conns[g].file_fd > 0 => fds'[conns[g].file_fd] = fds[conns[g].file_fd]
      BY <1>2, <1>3, <1>5, <2>2
    <3> QED  BY <3>1 DEF Hands, Owns
  <2> QED  BY <2>1, <2>2
<1>7. ASSUME NEW g \in Fds, NEW k \in Clients
      PROVE  /\ fds'[g] = <<"sock", k>> => g \in Open'
             /\ fds'[g] = <<"file", k>> =>
                  \E h \in Open' : conns'[h].client = k /\ conns'[h].file_fd = g
  <2>1. g = f => g \in Open' /\ fds'[g] # <<"file", k>>  BY SMTT(60), <1>2, <1>5
  <2>2. CASE g # f
    <3>1. fds'[g] = fds[g]  BY <1>2, <2>2
    <3>2. ASSUME fds[g] = <<"file", k>>
          PROVE  \E h \in Open' : conns'[h].client = k /\ conns'[h].file_fd = g
      <4>1. PICK h \in Open : conns[h].client = k /\ conns[h].file_fd = g
        BY <3>2 DEF Hands
      <4>2. h \in Open' /\ conns'[h] = conns[h]  BY <1>3, <1>5, <4>1
      <4> QED  BY <4>1, <4>2
    <3>3. fds[g] = <<"sock", k>> => g \in Open'  BY <1>5 DEF Hands
    <3> QED  BY <3>1, <3>2, <3>3
  <2> QED  BY <2>1, <2>2
<1>8. fds'[0] = Other  BY <1>2, <1>3 DEF Hands
<1>9. active_conns' = Cardinality(Open')
  <2>1. Open \in SUBSET Fds /\ active_conns = Cardinality(Open)  BY DEF Hands, Open
  <2>2. Cardinality(Open \cup {f}) = Cardinality(Open) + 1  BY <1>3, <2>1, Counts
  <2> QED  BY <1>1, <1>5, <2>1, <2>2
<1>10. Hands'  BY <1>6, <1>7, <1>8, <1>9 DEF Hands
<1> QED  BY <1>3, <1>5, <1>10

\* reactor_destroy gives back the descriptors of every connection.
LEMMA HandsDestroyed ==
  ASSUME TableInv, Hands, ReactorDestroy, ~stray'
  PROVE  Hands'
<1> DEFINE S == UNION {OwnFds(f) : f \in Open}
<1>1. /\ CloseFds(S) /\ pc' = "destroyed" /\ conns' = [f \in Fds |-> NoConn]
      /\ \A f \in Open : conns[f].file_fd >= 0 => fds[conns[f].file_fd] = <<"file", conns[f].client>>
  BY DEF ReactorDestroy, Open
<1>2. Open' = {}  BY <1>1 DEF Open
<1>3. \A g \in Fds : fds'[g] = IF g \in S THEN Free ELSE fds[g]  BY <1>1 DEF CloseFds
<1>4. 0 \notin S  BY <1>1, OwnNumbers
<1>5. ASSUME NEW f \in Open PROVE f \in S /\ conns[f].file_fd \in S
  <2>1. f \in OwnFds(f) /\ conns[f].file_fd \in OwnFds(f)  BY DEF OwnFds
  <2> QED  BY <2>1
<1> HIDE DEF S
<1>6. ASSUME NEW g \in Fds, NEW c \in Clients
      PROVE  fds'[g] # <<"sock", c>> /\ fds'[g] # <<"file", c>>
  <2>1. g \in S => fds'[g] # <<"sock", c>> /\ fds'[g] # <<"file", c>>  BY SMTT(60), <1>3 DEF Free
  <2>2. fds[g] = <<"sock", c>> => g \in S  BY <1>5 DEF Hands
  <2>3. fds[g] = <<"file", c>> => g \in S
    <3>1. fds[g] = <<"file", c>> => \E h \in Open : conns[h].file_fd = g  BY DEF Hands
    <3> QED  BY <1>5, <3>1
  <2> QED  BY <1>3, <2>1, <2>2, <2>3
<1>7. fds'[0] = Other
  <2>1. 0 \in Fds  BY SMTT(60), ReactorBounds DEF Fds
  <2> QED  BY <1>3, <1>4, <2>1 DEF Hands
<1> QED  BY <1>1, <1>2, <1>6, <1>7 DEF Hands

-----------------------------------------------------------------------------
(* What a step of the loop does to the connections it is not about.        *)

\* What epoll and the loop know of the connection of the client k at g is as it was.
Untouched(g, k) ==
  /\ conns[g].client = k /\ conns'[g] = conns[g]
  /\ interest'[k] = interest[k] /\ (k \in edge => k \in edge')
  /\ Poll(k)' = Poll(k) /\ peer'[k] = peer[k]

\* A connection a step is not about stays as settled as it was.
LEMMA UntouchedSettled ==
  ASSUME NEW g, NEW k, Settled(g), Untouched(g, k), ~Busy(g), ~Busy(g)',
         failed \subseteq failed', stop => stop',
         stop' \/ \A e \in batch : e[1] = g => e \in batch'
  PROVE  Settled(g)'
<1>1. /\ conns[g].client = k /\ conns'[g] = conns[g]
      /\ interest'[k] = interest[k] /\ (k \in edge => k \in edge')
  BY DEF Untouched
<1>2. Poll(k)' = Poll(k)  BY DEF Untouched
<1>3. Idle(conns[g])  BY DEF Settled, Busy
<1>4. Idle(conns[g])'  BY <1>1, <1>3 DEF Idle, Unsent
<1>5. Watched(k)' = Watched(k)  BY <1>1 DEF Watched
<1>6. ASSUME ~stop', k \notin failed' PROVE Signalled(g)'
  <2>1. Signalled(g)  BY <1>1, <1>6 DEF Settled
  <2> QED  BY <1>1, <1>2, <1>5, <1>6, <2>1 DEF Signalled
<1> QED  BY <1>1, <1>4, <1>6 DEF Settled

\* A step about the connection at f, if any, keeps the layer if it leaves f settled.
LEMMA EventsStep ==
  ASSUME TableInv, Events, NEW f,
         \A g \in Open \ {f} : \E k \in Clients : Untouched(g, k),
         Open \ {f} \subseteq Open', Open' \subseteq Open \cup {f},
         failed \subseteq failed', stop => stop',
         cur = f \/ pc \notin {"read", "build", "write", "killed"},
         cur' = f \/ pc' \notin {"read", "build", "write", "killed"},
         batch' \subseteq batch, \A e \in batch' : e[1] # f,
         stop' \/ \A e \in batch : e[1] \in Open \ {f} => e \in batch',
         f \in Open' => Settled(f)', Handling'
  PROVE  Events'
<1>1. \A g \in Open \ {f} : ~Busy(g) /\ ~Busy(g)'  BY DEF Busy, Handled
<1>2. ASSUME NEW g \in Open \ {f} PROVE Settled(g)'
  <2>1. Settled(g) /\ \E k \in Clients : Untouched(g, k)  BY DEF Events
  <2>2. stop' \/ \A e \in batch : e[1] = g => e \in batch'  OBVIOUS
  <2> QED  BY <1>1, <2>1, <2>2, UntouchedSettled
<1>3. ASSUME NEW e \in batch', e[1] \in Fds PROVE Pending(e)'
  <2>1. Pending(e) /\ e[1] \in Open \ {f}  BY <1>3 DEF Events, Pending
  <2>2. PICK k \in Clients : /\ conns[e[1]].client = k /\ conns'[e[1]] = conns[e[1]]
                             /\ interest'[k] = interest[k] /\ peer'[k] = peer[k]
    BY <2>1 DEF Untouched
  <2>3. Watched(k)' = Watched(k)  BY <2>2 DEF Watched
  <2> QED  BY <1>1, <2>1, <2>2, <2>3 DEF Pending
<1>4. \A d, e \in batch' : d[1] = e[1] => d = e  BY DEF Events
<1>5. \A g \in Open' : Settled(g)'  BY <1>2
<1> QED  BY <1>3, <1>4, <1>5 DEF Events

\* poll() says the same of a socket whose two ends did not change.
LEMMA PollSame ==
  ASSUME NEW k, rcvd'[k] = rcvd[k], out'[k] = out[k],
         sent'[k] = sent[k], peer'[k] = peer[k], got'[k] = got[k]
  PROVE  Poll(k)' = Poll(k)
<1>1. Space(k)' = Space(k)  BY DEF Space
<1> QED  BY SMTT(60), <1>1 DEF Poll

\* A handler keeps the layer if it leaves its connection closed or settled.
LEMMA HandlerEvents ==
  ASSUME TableInv, Hands, Events, pc \in {"read", "build", "write"},
         UNCHANGED <<client, batch, cur, stop>>, failed \subseteq failed',
         Open \ {cur} \subseteq Open', Open' \subseteq Open,
         \A c \in Clients \ {conns[cur].client} : rcvd'[c] = rcvd[c] /\ out'[c] = out[c],
         \A g \in Open \ {cur} :
           LET k == conns[g].client IN
           conns'[g] = conns[g] /\ interest'[k] = interest[k] /\ (k \in edge => k \in edge'),
         cur \in Open' => Settled(cur)', Handling'
  PROVE  Events'
<1>1. cur \in Open /\ cur \in Fds  BY CurConn
<1>2. \A g \in Open \ {cur} : conns[g].client \in Clients \ {conns[cur].client}
  BY <1>1, OwnSocket
<1>3. UNCHANGED <<sent, peer, got>>  BY DEF client
<1>4. \A g \in Open \ {cur} : \E k \in Clients : Untouched(g, k)
  BY <1>2, <1>3, PollSame DEF Untouched
<1>5. \A e \in batch : e[1] # cur  BY <1>1 DEF Events, Pending, Busy, Handled
<1>6. Open' \subseteq Open \cup {cur} /\ batch' \subseteq batch  OBVIOUS
<1> QED  BY <1>4, <1>5, <1>6, EventsStep

\* A handler that goes on with d in its connection.
LEMMA StoredEvents ==
  ASSUME TableInv, Hands, Events, pc \in {"read", "build", "write"}, pc' \in {"read", "build", "write"},
         NEW d \in Conn, Stored(d), d.client = conns[cur].client,
         UNCHANGED <<client, epoll, event, stop>>, failed \subseteq failed',
         \A c \in Clients \ {d.client} : rcvd'[c] = rcvd[c] /\ out'[c] = out[c],
         pc' = "read" => pc = "read" /\ d.in_head = Len(d.inbuf),
         d.state = IF pc' = "write" THEN "ST_WRITING" ELSE "ST_READING"
  PROVE  Events'
<1>1. /\ UNCHANGED <<interest, edge, batch, cur, evs>> /\ cur \in Open
      /\ Settled(cur) /\ Handling
  BY CurConn DEF epoll, event, Events
<1>2. Open' = Open /\ conns'[cur] = d /\ \A g \in Open \ {cur} : conns'[g] = conns[g]
  BY <1>1, StoredIs
<1>3. pc' = "read" => Idle(conns[cur])'
  BY <1>1, <1>2 DEF Settled, Handled, Handling, Idle
<1>4. Settled(cur)'  BY <1>1, <1>2, <1>3 DEF Settled, Busy, Handled
<1>5. Handling'  BY <1>1, <1>2 DEF Handling
<1> QED  BY <1>1, <1>2, <1>4, <1>5, HandlerEvents

\* A handler that returns to the loop, its connection waiting for an event.
LEMMA ReturnEvents ==
  ASSUME TableInv, Hands, Events, pc \in {"read", "write"}, Return,
         UNCHANGED <<client, rcvd, out, batch, cur, stop, failed>>, Open' = Open,
         \A g \in Open \ {cur} :
           LET m == conns[g].client IN
           conns'[g] = conns[g] /\ interest'[m] = interest[m] /\ (m \in edge => m \in edge'),
         Idle(conns[cur])', NEW k, conns'[cur].client = k,
         k \notin failed => interest'[k] # {}, Poll(k) \cap Watched(k)' # {} => k \in edge'
  PROVE  Events' /\ pc' = "dispatch"
<1>1. cur \in Open /\ Handling  BY CurConn DEF Events
<1>2. pc' = "dispatch"  BY <1>1 DEF Return, Handling
<1>3. Handling'  BY <1>2 DEF Handling
<1>4. Signalled(cur)'
  <2>1. Poll(k)' = Poll(k)  BY PollSame DEF client
  <2> QED  BY <2>1 DEF Signalled
<1>5. Settled(cur)'  BY <1>4 DEF Settled
<1>6. Events'  BY <1>1, <1>3, <1>5, HandlerEvents
<1> QED  BY <1>2, <1>6

\* mod_events() on the connection of the handler.
LEMMA ModIs ==
  ASSUME TableInv, Hands, cur \in Open, NEW events, mod_events(cur, events), events # {},
         NEW k, k = conns[cur].client
  PROVE  /\ interest'[k] = events
         /\ Poll(k) \cap Watched(k)' # {} => k \in edge'
         /\ \A g \in Open \ {cur} :
              LET m == conns[g].client IN
              interest'[m] = interest[m] /\ (m \in edge => m \in edge')
<1>1. k \in Clients /\ SockAt(cur) = {k}  BY OwnSocket
<1>2. \A g \in Open \ {cur} : conns[g].client \in Clients /\ conns[g].client # k
  BY OwnSocket
<1>3. Watch(k, events)  BY <1>1 DEF mod_events
<1>4. interest'[k] = events /\ \A c \in Clients \ {k} : interest'[c] = interest[c]
  BY <1>1, <1>3 DEF Watch, TableInv, TypeOK, EpollOK
<1>5. Watched(k)' = events \cup {"ERR"}  BY <1>4 DEF Watched
<1>6. (Poll(k) \cap (events \cup {"ERR"}) # {} => k \in edge') /\ edge \subseteq edge'
  BY <1>3 DEF Watch
<1> QED  BY <1>2, <1>4, <1>5, <1>6

\* conn_close() of the connection at f, whose event or handler is the current one.
LEMMA CloseEvents ==
  ASSUME TableInv, Hands, Events, NEW f \in Open, conn_close(f), ~stray',
         UNCHANGED <<client, backlog, rcvd, out, stop>>, failed \subseteq failed',
         pc' = "dispatch",
         \/ pc = "dispatch" /\ \E e \in batch : e[1] = f /\ batch' = batch \ {e}
         \/ pc \in {"read", "write"} /\ f = cur /\ UNCHANGED <<batch, cur>>
  PROVE  Hands' /\ Events'
<1>1. peer' = peer /\ sent' = sent /\ got' = got /\ pc \in {"dispatch", "read", "write"}
      /\ UNCHANGED <<backlog, peer>>
  BY DEF client
<1>2. /\ Hands' /\ Open' = Open \ {f}
      /\ \A g \in Open \ {f} :
           LET k == conns[g].client IN
           conns'[g] = conns[g] /\ interest'[k] = interest[k] /\ (k \in edge => k \in edge')
  BY <1>1, HandsClosed
<1>3. Handling'  BY DEF Handling
<1>4. CASE pc = "dispatch" /\ \E e \in batch : e[1] = f /\ batch' = batch \ {e}
  <2>1. \A g \in Open \ {f} : \E k \in Clients : Untouched(g, k)
    BY <1>1, <1>2, OwnSocket, PollSame DEF Untouched
  <2>2. /\ batch' \subseteq batch /\ \A e \in batch' : e[1] # f
        /\ \A e \in batch : e[1] \in Open \ {f} => e \in batch'
    BY <1>4 DEF Events
  <2>3. Open \ {f} \subseteq Open' /\ Open' \subseteq Open \cup {f} /\ f \notin Open'
    BY <1>2
  <2>4. Events'  BY <1>3, <1>4, <2>1, <2>2, <2>3, EventsStep
  <2> QED  BY <1>2, <2>4
<1>5. CASE pc \in {"read", "write"} /\ f = cur /\ UNCHANGED <<batch, cur>>
  <2>1. Open \ {cur} \subseteq Open' /\ Open' \subseteq Open /\ cur \notin Open'
    BY <1>2, <1>5
  <2>2. Events'  BY <1>2, <1>3, <1>5, <2>1, HandlerEvents
  <2> QED  BY <1>2, <2>2
<1> QED  BY <1>4, <1>5

-----------------------------------------------------------------------------
(* The handlers of a connection.                                           *)

\* conn_read: there is room in the buffer, and what is read goes there.
LEMMA ReadEvents ==
  ASSUME TableInv, Hands, Events, Read
  PROVE  Hands' /\ Events'
<1> DEFINE c == conns[cur]
           b == Compact(c)
<1>1. /\ UNCHANGED <<client, epoll, event, stop, fds, active_conns, out>> /\ pc = "read"
      /\ \E k \in SockAt(cur) :
           \/ Len(b.inbuf) = BUFFER_SIZE
           \/ UNCHANGED log /\ \E n \in Nat, d \in Conn : Taken(k, b, n, d) /\ Stored(d)
  BY ReadEffect DEF quiet, control, table
<1>2. /\ cur \in Open /\ Owns(cur, c) /\ c.client \in Clients /\ SockAt(cur) = {c.client}
      /\ c.state = "ST_READING"
  BY <1>1, AtHand
<1>3. SameSide(c, b) /\ SameHead(c, b) /\ SameFile(c, b) /\ b.inbuf = <<>>
  BY <1>1, ReadsIntoEmpty
<1>4. Len(b.inbuf) # BUFFER_SIZE  BY SMTT(60), <1>3, ReactorBounds
<1> HIDE DEF b
<1>5. PICK n \in Nat, d \in Conn : Taken(c.client, b, n, d) /\ Stored(d)
  BY <1>1, <1>2, <1>4
<1>6. /\ d.client = c.client /\ d.state = "ST_READING" /\ d.phase = c.phase
      /\ d.file_fd = c.file_fd /\ pc' \in {"read", "build"}
      /\ pc' = "read" => d.in_head = Len(d.inbuf)
      /\ rcvd' = [rcvd EXCEPT ![c.client] = @ + n]
  BY <1>2, <1>3, <1>5 DEF Taken, SameSide, SameHead, SameFile
<1>7. \A k \in Clients \ {d.client} : rcvd'[k] = rcvd[k] /\ out'[k] = out[k]
  BY <1>1, <1>6 DEF TableInv, TypeOK, StreamOK
<1>8. Hands'  BY <1>1, <1>2, <1>5, <1>6, HandsStored DEF Owns
<1>9. failed \subseteq failed'  BY <1>1, <1>4 DEF log
<1>10. Events'  BY <1>1, <1>5, <1>6, <1>7, <1>9, StoredEvents
<1> QED  BY <1>8, <1>10

\* conn_read, the socket is drained: what comes next is an event.
LEMMA DrainedEvents ==
  ASSUME TableInv, Hands, Events, ReadDrained
  PROVE  Hands' /\ Events'
<1> DEFINE c == conns[cur]
           b == Compact(c)
<1>1. /\ UNCHANGED <<client, interest, edge, batch, cur, stop, fds, active_conns, rcvd, out, failed>>
      /\ pc = "read" /\ Return /\ conns' = [conns EXCEPT ![cur] = b]
      /\ \E k \in SockAt(cur) : rcvd[k] = sent[k] /\ peer[k] = "open"
  BY DEF ReadDrained, quiet, control, table, net, log, epoll
<1>2. cur \in Open /\ Owns(cur, c) /\ Settled(cur) /\ SockAt(cur) = {c.client} /\ c.client \in Clients
      /\ c.state = "ST_READING"
  BY <1>1, AtHand
<1>3. /\ interest[c.client] \subseteq {"IN"} /\ b \in Conn /\ Within(b)
      /\ SameSide(c, b) /\ SameHead(c, b) /\ SameFile(c, b) /\ b.inbuf = <<>> /\ b.in_head = 0
  BY <1>1, ReadsIntoEmpty
<1> HIDE DEF b
<1>4. /\ Stored(b) /\ b.client = c.client /\ b.file_fd = c.file_fd /\ b.state = c.state
      /\ b.phase = c.phase /\ pc' \in {"write", "dispatch"}
  BY <1>1, <1>3 DEF Stored, SameSide, SameHead, SameFile, Return
<1>5. Hands'  BY <1>1, <1>2, <1>3, <1>4, HandsStored DEF Owns
<1>6. Open' = Open /\ conns'[cur] = b /\ \A g \in Open \ {cur} : conns'[g] = conns[g]
  BY <1>2, <1>3, <1>4, StoredIs
<1>7. Idle(conns[cur])'
  <2>1. b.in_head = Len(b.inbuf)  BY SMTT(60), <1>3
  <2> QED  BY <1>1, <1>2, <1>3, <1>4, <1>6, <2>1 DEF Idle
<1>8. PICK k : k = c.client  BY SMTT(60)
<1>9. k \notin failed => interest'[k] # {}  BY <1>1, <1>2, <1>8 DEF Settled
<1>10. Poll(k) \cap Watched(k)' = {}
  <2>1. ~(rcvd[k] < sent[k]) /\ peer[k] = "open"
    <3>1. rcvd[k] = sent[k] /\ peer[k] = "open" /\ sent[k] \in Nat
      BY <1>1, <1>2, <1>8 DEF TableInv, TypeOK, StreamOK
    <3> QED  BY SMTT(60), <3>1
  <2>2. Poll(k) \subseteq {"OUT"}  BY <2>1 DEF Poll
  <2>3. Watched(k)' \subseteq {"IN", "ERR"}  BY <1>1, <1>3, <1>8 DEF Watched
  <2> QED  BY <2>2, <2>3
<1>11. Events'  BY <1>1, <1>4, <1>6, <1>7, <1>8, <1>9, <1>10, ReturnEvents
<1> QED  BY <1>5, <1>11

\* build_response: a file is opened for this connection only, and kept until it is sent.
LEMMA BuildEvents ==
  ASSUME TableInv, Hands, Events, BuildSimple \/ BuildFile \/ BuildFileFails
  PROVE  Hands' /\ Events'
<1> DEFINE c == conns[cur]
<1>1. /\ UNCHANGED <<client, epoll, event, stop, active_conns, rcvd, out>> /\ pc = "build"
      /\ \E d \in Conn : Within(d) /\ Built(d) /\ Begins(c, d)
  BY BuildEffect DEF quiet, control, net
<1>2. cur \in Open /\ Owns(cur, c) /\ c.state = "ST_READING"  BY <1>1, AtHand
<1>3. PICK d \in Conn : Within(d) /\ Built(d) /\ Begins(c, d)  BY <1>1
<1>4. /\ Stored(d) /\ pc' = "write" /\ failed \subseteq failed'
      /\ d.client = c.client /\ d.state = "ST_WRITING"
  BY <1>3 DEF Built, Stored, Begins
<1>5. Hands'
  <2>1. CASE Simple(c, d)
    <3>1. /\ fds' = fds /\ d.phase = "RSP_HEAD" /\ d.file_fd = -1
      BY <2>1 DEF Simple
    <3>2. -1 <= 0 /\ c.file_fd <= 0  BY SMTT(60), <1>2 DEF Owns
    <3> QED  BY <1>1, <1>2, <1>4, <3>1, <3>2, HandsStored
  <2>2. CASE Filed(c, d)
    BY <1>1, <1>2, <1>4, <2>2, HandsFiled DEF Filed
  <2>3. CASE Failed(c, d)
    <3>1. /\ fds' = fds /\ d.file_fd = c.file_fd /\ d.phase = c.phase
      BY <2>3 DEF Failed, SameHead, SameFile
    <3> QED  BY <1>1, <1>2, <1>4, <3>1, HandsStored DEF Owns
  <2> QED  BY <1>3, <2>1, <2>2, <2>3 DEF Begins
<1>6. \A k \in Clients \ {d.client} : rcvd'[k] = rcvd[k] /\ out'[k] = out[k]  BY <1>1
<1>7. Events'  BY <1>1, <1>4, <1>6, StoredEvents
<1> QED  BY <1>5, <1>7

\* conn_write.
LEMMA WriteEvents ==
  ASSUME TableInv, Hands, Events, Write
  PROVE  Hands' /\ Events'
<1> DEFINE c == conns[cur]
<1>1. /\ UNCHANGED <<client, epoll, event, stop, fds, active_conns, rcvd, failed>>
      /\ pc = "write" /\ pc' = pc
      /\ \E k \in SockAt(cur), n \in Nat, d \in Conn, u \in Seq(Unit) :
           Wrote(k, c, n, d, u) /\ Stored(d)
  BY WriteEffect DEF quiet, control, table, log
<1>2. /\ cur \in Open /\ Owns(cur, c) /\ c.client \in Clients /\ SockAt(cur) = {c.client}
      /\ c.state = "ST_WRITING"
  BY <1>1, AtHand
<1>3. PICK n \in Nat, d \in Conn, u \in Seq(Unit) : Wrote(c.client, c, n, d, u) /\ Stored(d)
  BY <1>1, <1>2
<1>4. /\ d.client = c.client /\ d.state = c.state /\ d.phase = c.phase /\ d.file_fd = c.file_fd
      /\ out' = [out EXCEPT ![c.client] = @ \o u]
  BY <1>3 DEF Wrote, SameSide
<1>5. \A k \in Clients \ {d.client} : rcvd'[k] = rcvd[k] /\ out'[k] = out[k]
  BY <1>1, <1>4 DEF TableInv, TypeOK, StreamOK
<1>6. Hands'  BY <1>1, <1>2, <1>3, <1>4, HandsStored DEF Owns
<1>7. Events'  BY <1>1, <1>2, <1>3, <1>4, <1>5, StoredEvents
<1> QED  BY <1>6, <1>7

\* conn_write: the head is out.
LEMMA HeadDoneEvents ==
  ASSUME TableInv, Hands, Events, HeadDone
  PROVE  Hands' /\ Events'
<1> DEFINE c == conns[cur]
<1>1. /\ UNCHANGED <<client, epoll, event, stop, fds, active_conns, rcvd, out, failed>>
      /\ pc = "write" /\ pc' = pc
      /\ \E d \in Conn : /\ Stored(d) /\ SameSide(c, d) /\ SameFile(c, d)
                         /\ d.phase = IF c.file_fd >= 0 THEN "RSP_SENDFILE" ELSE "RSP_DONE"
  BY HeadDoneEffect DEF quiet, control, table, log, net
<1>2. cur \in Open /\ c \in Conn /\ Owns(cur, c) /\ c.state = "ST_WRITING"  BY <1>1, AtHand
<1>3. PICK d \in Conn : /\ Stored(d) /\ SameSide(c, d) /\ SameFile(c, d)
                        /\ d.phase = IF c.file_fd >= 0 THEN "RSP_SENDFILE" ELSE "RSP_DONE"
  BY <1>1
<1>4. d.client = c.client /\ d.state = "ST_WRITING" /\ d.file_fd = c.file_fd
  BY <1>2, <1>3 DEF SameSide, SameFile
<1>5. /\ d.phase = "RSP_DONE" => d.file_fd = -1
      /\ d.phase = "RSP_SENDFILE" => d.file_fd >= 0
  <2>1. c.file_fd \in Fds \cup {-1}  BY <1>2, ConnFields
  <2>2. c.file_fd >= 0 \/ c.file_fd = -1  BY SMTT(60), <2>1 DEF Fds
  <2> QED  BY <1>3, <1>4, <2>2
<1>6. Hands'  BY <1>1, <1>2, <1>3, <1>4, <1>5, HandsStored
<1>7. \A k \in Clients \ {d.client} : rcvd'[k] = rcvd[k] /\ out'[k] = out[k]  BY <1>1
<1>8. Events'  BY <1>1, <1>3, <1>4, <1>7, StoredEvents
<1> QED  BY <1>6, <1>8

\* conn_write: the file is out, and closed.
LEMMA FileDoneEvents ==
  ASSUME TableInv, Hands, Events, FileDone, ~stray'
  PROVE  Hands' /\ Events'
<1> DEFINE c == conns[cur]
<1>1. /\ UNCHANGED <<client, event, stop, active_conns, rcvd, out, failed>>
      /\ pc = "write" /\ pc' = pc /\ c.phase = "RSP_SENDFILE" /\ CloseFds({c.file_fd})
      /\ fds[c.file_fd] = <<"file", c.client>>
      /\ \E d \in Conn : Stored(d) /\ SameSide(c, d) /\ d.phase = "RSP_DONE" /\ d.file_fd = -1
  BY FileDoneEffect DEF quiet, control, log, net
<1>2. cur \in Open /\ c.state = "ST_WRITING"  BY <1>1, AtHand
<1>3. PICK d \in Conn : Stored(d) /\ SameSide(c, d) /\ d.phase = "RSP_DONE" /\ d.file_fd = -1
  BY <1>1
<1>4. d.client = c.client /\ d.state = "ST_WRITING"  BY <1>2, <1>3 DEF SameSide
<1>5. Hands' /\ UNCHANGED epoll  BY <1>1, <1>2, <1>3, <1>4, HandsFileDone
<1>6. \A k \in Clients \ {d.client} : rcvd'[k] = rcvd[k] /\ out'[k] = out[k]  BY <1>1
<1>7. Events'  BY <1>1, <1>3, <1>4, <1>5, <1>6, StoredEvents
<1> QED  BY <1>5, <1>7

\* conn_write, the send buffer is full: room in it is an event.
LEMMA BlockedEvents ==
  ASSUME TableInv, Hands, Events, WriteBlocked
  PROVE  Hands' /\ Events'
<1>1. /\ UNCHANGED <<client, batch, cur, stop, rcvd, out, failed, conns, fds, active_conns>>
      /\ pc = "write" /\ Return /\ mod_events(cur, {"OUT"}) /\ Unsent(conns[cur])
  BY DEF WriteBlocked, Writing, quiet, control, table, net, log
<1>2. cur \in Open /\ conns[cur].state = "ST_WRITING"  BY <1>1, AtHand
<1>3. PICK k : k = conns[cur].client  OBVIOUS
<1>4. /\ interest'[k] = {"OUT"} /\ (Poll(k) \cap Watched(k)' # {} => k \in edge')
      /\ \A g \in Open \ {cur} :
           LET m == conns[g].client IN
           interest'[m] = interest[m] /\ (m \in edge => m \in edge')
  <2>1. {"OUT"} # {}  OBVIOUS
  <2> QED  BY <1>1, <1>2, <1>3, <2>1, ModIs
<1>5. Idle(conns[cur])'  BY <1>1, <1>2, <1>3, <1>4 DEF Idle, Unsent
<1>6. Open' = Open /\ interest'[k] # {}  BY <1>1, <1>4 DEF Open
<1>7. Events' /\ pc' = "dispatch"
  BY <1>1, <1>3, <1>4, <1>5, <1>6, ReturnEvents
<1>8. Hands'  BY <1>1, <1>7, HandsSame
<1> QED  BY <1>7, <1>8

\* The handler closes its connection.
LEMMA CloseCurEvents ==
  ASSUME TableInv, Hands, Events, pc \in {"read", "write"}, CloseCur, ~stray',
         UNCHANGED <<quiet, net, batch, cur>>, failed \subseteq failed'
  PROVE  Hands' /\ Events'
<1>1. /\ UNCHANGED <<client, backlog, rcvd, out, stop>> /\ UNCHANGED <<batch, cur>>
      /\ conn_close(cur) /\ pc' = "dispatch" /\ cur \in Open
  BY CurConn DEF CloseCur, quiet, control, net
<1> QED  BY <1>1, CloseEvents

\* conn_write, the response is out: the connection is closed, answers its next
\* request at once, or waits for it.
LEMMA FinishEvents ==
  ASSUME TableInv, Hands, Events, Finish, ~stray'
  PROVE  Hands' /\ Events'
<1> DEFINE c == conns[cur]
<1>1. /\ UNCHANGED <<quiet, net, log, batch, cur>> /\ pc = "write" /\ c.phase = "RSP_DONE"
      /\ CloseCur \/ (UNCHANGED table /\ \E d \in Conn : Stored(d) /\ Resumes(c, d))
  BY FinishEffect
<1>2. cur \in Open /\ Owns(cur, c) /\ c.client \in Clients  BY <1>1, AtHand
<1>3. CASE CloseCur  BY <1>1, <1>3, CloseCurEvents DEF log
<1>4. CASE UNCHANGED table /\ \E d \in Conn : Stored(d) /\ Resumes(c, d)
  <2>1. PICK d \in Conn : Stored(d) /\ Resumes(c, d)  BY <1>4
  <2>2. UNCHANGED <<client, batch, cur, stop, rcvd, out, failed, fds, active_conns>>
    BY <1>1, <1>4 DEF quiet, control, table, net, log
  <2>3. /\ d.client = c.client /\ d.state = "ST_READING" /\ d.file_fd = c.file_fd
        /\ d.phase \in {"RSP_HEAD", "RSP_DONE"} /\ pc' \in {"build", "write", "dispatch"}
    BY <1>1, <2>1 DEF Resumes, SameFile, Return
  <2>4. d.file_fd = -1 /\ d.file_fd <= 0  BY SMTT(60), <1>1, <1>2, <2>3 DEF Owns
  <2>5. Hands'  BY <1>1, <1>2, <2>1, <2>2, <2>3, <2>4, HandsStored
  <2>6. CASE pc' = "build" /\ UNCHANGED <<epoll, evs>>
    <3>1. /\ UNCHANGED <<client, epoll, event, stop>>
          /\ \A k \in Clients \ {d.client} : rcvd'[k] = rcvd[k] /\ out'[k] = out[k]
      BY <2>2, <2>6 DEF event
    <3>2. Events'  BY <1>1, <2>1, <2>2, <2>3, <2>6, <3>1, StoredEvents
    <3> QED  BY <2>5, <3>2
  <2>7. CASE d.in_head = Len(d.inbuf) /\ mod_events(cur, {"IN"}) /\ Return
    <3>1. PICK k : k = c.client  OBVIOUS
    <3>2. /\ interest'[k] = {"IN"} /\ (Poll(k) \cap Watched(k)' # {} => k \in edge')
          /\ \A g \in Open \ {cur} :
               LET m == conns[g].client IN
               interest'[m] = interest[m] /\ (m \in edge => m \in edge')
      <4>1. {"IN"} # {}  OBVIOUS
      <4> QED  BY <1>2, <2>7, <3>1, <4>1, ModIs
    <3>3. Open' = Open /\ conns'[cur] = d /\ \A g \in Open \ {cur} : conns'[g] = conns[g]
      BY <1>2, <2>1, StoredIs
    <3>4. Idle(conns[cur])' /\ interest'[k] # {} /\ conns'[cur].client = k
      BY <2>2, <2>3, <2>7, <3>1, <3>2, <3>3 DEF Idle
    <3>5. Events'  BY <1>1, <2>2, <2>7, <3>2, <3>3, <3>4, ReturnEvents
    <3> QED  BY <2>5, <3>5
  <2> QED  BY <2>1, <2>6, <2>7 DEF Resumes
<1> QED  BY <1>1, <1>3, <1>4

-----------------------------------------------------------------------------
(* The clients, and the loop between two handlers.                         *)

\* What happens outside the loop is an event if it is watched for.
LEMMA OutsideEvents ==
  ASSUME TableInv, Hands, Events,
         UNCHANGED <<pc, conns, batch, cur, evs, stop, failed, interest>>, edge \subseteq edge',
         \A k \in Clients : Connected(k) =>
           /\ peer[k] \notin {"none", "open"} => peer'[k] \notin {"none", "open"}
           /\ Poll(k)' \cap Watched(k) # {} => k \in edge' \/ Poll(k) \cap Watched(k) # {}
  PROVE  Events'
<1>1. /\ Open' = Open /\ \A k : Watched(k)' = Watched(k)
      /\ \A g : Busy(g)' = Busy(g) /\ Handled(g)' = Handled(g)
      /\ Handling'
  BY DEF Open, Watched, Busy, Handled, Events, Handling
<1>2. \A g \in Open : conns[g].client \in Clients /\ Connected(conns[g].client)
  BY OwnSocket
<1>3. ASSUME NEW g \in Open PROVE Settled(g)'
  <2>1. PICK k \in Clients : k = conns[g].client /\ Connected(k)  BY <1>2
  <2>2. Settled(g)  BY DEF Events
  <2>3. ~Handled(g) => Idle(conns[g])'
    <3>1. ~Handled(g) => Idle(conns[g])  BY <2>2 DEF Settled
    <3> QED  BY <3>1 DEF Idle, Unsent
  <2>4. Signalled(g) => Signalled(g)'
    BY <1>1, <2>1 DEF Signalled
  <2> QED  BY <1>1, <2>2, <2>3, <2>4 DEF Settled
<1>4. ASSUME NEW e \in batch, e[1] \in Fds PROVE Pending(e)'
  <2>1. Pending(e)  BY <1>4 DEF Events
  <2>2. conns[e[1]].client \in Clients /\ Connected(conns[e[1]].client)
    BY <1>2, <2>1 DEF Pending
  <2>3. "ERR" \in e[2] => peer'[conns[e[1]].client] \notin {"none", "open"}
    BY <2>1, <2>2 DEF Pending
  <2> QED  BY <1>1, <2>1, <2>3 DEF Pending
<1>5. \A d, e \in batch' : d[1] = e[1] => d = e  BY DEF Events
<1>6. (\A g \in Open' : Settled(g)') /\ (\A e \in batch' : e[1] \in Fds => Pending(e)')
  BY <1>1, <1>3, <1>4
<1> QED  BY <1>1, <1>5, <1>6 DEF Events

\* A client that is not connected joins the listen queue.
LEMMA ConnectEvents ==
  ASSUME TableInv, Hands, Events, NEW c \in Clients, Connect(c)
  PROVE  Hands' /\ Events'
<1>1. /\ UNCHANGED <<pc, conns, batch, cur, evs, stop, failed, interest, edge, fds, active_conns>>
      /\ UNCHANGED <<sent, rcvd, out, got>>
      /\ peer[c] = "none" /\ peer' = [peer EXCEPT ![c] = "open"]
  BY DEF Connect, thread, control, event, table, epoll, log
<1>2. Hands'
  <2>1. pc # "destroyed"  BY DEF Connect
  <2> QED  BY <1>1, <2>1, HandsSame DEF Hands
<1>3. ASSUME NEW k \in Clients, Connected(k) PROVE peer'[k] = peer[k] /\ Poll(k)' = Poll(k)
  <2>1. k # c /\ peer'[k] = peer[k]
    BY <1>1, <1>3 DEF TableInv, Sockets, TypeOK, QueueOK
  <2> QED  BY <1>1, <2>1, PollSame
<1>4. Events'  BY <1>1, <1>3, OutsideEvents
<1> QED  BY <1>2, <1>4

\* A client sends, hangs up or consumes output.
LEMMA ClientEvents ==
  ASSUME TableInv, Hands, Events, NEW c \in Clients, Send(c) \/ HangUp(c) \/ Consume(c)
  PROVE  Hands' /\ Events'
<1>1. /\ UNCHANGED <<pc, conns, batch, cur, evs, stop, failed, interest, fds, active_conns>>
      /\ UNCHANGED <<rcvd, out>>
  BY DEF Send, HangUp, Consume, thread, control, event, table, net, log
<1>2. Hands'  BY <1>1, HandsSame DEF Hands
<1>3. \A k \in Clients \ {c} : sent'[k] = sent[k] /\ peer'[k] = peer[k] /\ got'[k] = got[k]
  BY DEF Send, HangUp, Consume, TableInv, TypeOK, StreamOK, QueueOK
<1>4. /\ peer[c] \notin {"none", "open"} => peer'[c] \notin {"none", "open"}
      /\ edge \subseteq edge'
  BY DEF Send, HangUp, Consume, TableInv, TypeOK, QueueOK, Notify
<1>5. \/ Poll(c)' \subseteq Poll(c)
      \/ Poll(c)' \subseteq Poll(c) \cup {"IN"} /\ Notify(c, "IN")
      \/ Poll(c)' \subseteq Poll(c) \cup {"OUT"} /\ Notify(c, "OUT")
      \/ Notify(c, "ERR")
  <2>1. CASE Send(c)
    <3>1. Space(c)' = Space(c) /\ peer'[c] = peer[c] /\ Notify(c, "IN")
      BY <1>1, <2>1 DEF Send, Space
    <3>2. Poll(c)' \subseteq Poll(c) \cup {"IN"}  BY <3>1 DEF Poll
    <3> QED  BY <3>1, <3>2
  <2>2. CASE HangUp(c)
    <3>1. CASE Notify(c, "IN") /\ peer' = [peer EXCEPT ![c] = "fin"]
      <4>1. Space(c)' = Space(c) /\ peer'[c] = "fin"
        BY <1>1, <2>2, <3>1 DEF HangUp, Space, TableInv, TypeOK, QueueOK
      <4>2. Poll(c)' \subseteq Poll(c) \cup {"IN"}  BY <4>1 DEF Poll
      <4> QED  BY <3>1, <4>2
    <3> QED  BY <2>2, <3>1 DEF HangUp
  <2>3. CASE Consume(c)
    <3>1. sent'[c] = sent[c] /\ rcvd'[c] = rcvd[c] /\ peer'[c] = peer[c]
      BY <1>1, <2>3 DEF Consume
    <3>2. Poll(c)' \subseteq Poll(c) \cup {"OUT"}  BY <3>1 DEF Poll
    <3>3. CASE Space(c) = 0  BY <2>3, <3>2, <3>3 DEF Consume
    <3>4. CASE Space(c) # 0
      <4>1. Space(c) > 0  BY SMTT(60), <3>4, ReactorBounds DEF TableInv, TypeOK, StreamOK
      <4>2. "OUT" \in Poll(c)  BY <4>1 DEF Poll
      <4> QED  BY <3>2, <4>2
    <3> QED  BY <3>3, <3>4
  <2> QED  BY <2>1, <2>2, <2>3
<1>6. Poll(c)' \cap Watched(c) # {} => c \in edge' \/ Poll(c) \cap Watched(c) # {}
  <2>1. Watched(c) # {} => "ERR" \in Watched(c)  BY DEF Watched
  <2> QED  BY <1>5, <2>1 DEF Notify
<1>7. \A k \in Clients \ {c} : Poll(k)' = Poll(k)  BY <1>1, <1>3, PollSame
<1>8. Events'  BY <1>1, <1>3, <1>4, <1>6, <1>7, OutsideEvents
<1> QED  BY <1>2, <1>8

\* The file changes, or the reactor is told to stop, or nothing happens.
LEMMA ControlEvents ==
  ASSUME TableInv, Hands, Events, Truncate \/ ReactorStop \/ UNCHANGED vars
  PROVE  Hands' /\ Events'
<1>1. /\ UNCHANGED <<pc, conns, batch, cur, evs, stop, failed, interest, edge, fds, active_conns>>
      /\ UNCHANGED <<sent, rcvd, out, got, peer>>
  BY DEF Truncate, ReactorStop, vars, thread, event, table, log, epoll, net, client,
               quiet, control
<1>2. Hands'  BY <1>1, HandsSame DEF Hands
<1>3. \A k \in Clients : Poll(k)' = Poll(k)  BY <1>1, PollSame
<1>4. Events'  BY <1>1, <1>3, OutsideEvents
<1> QED  BY <1>2, <1>4

\* The loop goes on without a connection being changed.
LEMMA LoopEvents ==
  ASSUME TableInv, Hands, Events, pc \notin {"read", "build", "write", "killed"},
         pc' \notin {"read", "build", "write", "killed"},
         UNCHANGED <<client, rcvd, out, interest, edge, conns, failed>>, stop => stop',
         batch' \subseteq batch, stop' \/ \A e \in batch : e[1] \in Fds => e \in batch', Handling'
  PROVE  Events'
<1>1. -1 \notin Fds /\ -1 # listen_fd /\ -1 # wakeup_fd  BY SMTT(60), ReactorBounds DEF Fds, listen_fd, wakeup_fd
<1>2. Open' = Open /\ -1 \notin Open /\ \A g \in Open : g \in Fds  BY <1>1 DEF Open
<1>3. sent' = sent /\ peer' = peer /\ got' = got  BY DEF client
<1>4. \A g \in Open \ {-1} : \E k \in Clients : Untouched(g, k)
  BY <1>3, OwnSocket, PollSame DEF Untouched
<1>5. \A e \in batch' : e[1] # -1
  <2>1. \A e \in batch : e[1] \in Fds \cup {listen_fd, wakeup_fd}
    BY DEF TableInv, TypeOK, EventOK
  <2> QED  BY <1>1, <2>1
<1>6. /\ Open \ {-1} \subseteq Open' /\ Open' \subseteq Open \cup {-1} /\ failed \subseteq failed'
      /\ stop' \/ \A e \in batch : e[1] \in Open \ {-1} => e \in batch'
  BY <1>2
<1> QED  BY <1>2, <1>4, <1>5, <1>6, EventsStep

\* reactor_create, the beginning and the end of a batch, the wakeup, and the
\* listening socket.
LEMMA BetweenEvents ==
  ASSUME TableInv, Hands, Events,
         \/ ReactorCreate \/ Run \/ RunFails \/ BatchDone \/ AcceptDone
         \/ HandleWakeup \/ HandleListen
  PROVE  Hands' /\ Events'
<1>1. /\ UNCHANGED <<client, rcvd, out, interest, edge, conns, failed, fds, active_conns, cur, evs>>
      /\ pc \in {"create", "created", "wait", "dispatch", "accept"}
      /\ pc' \in {"create", "created", "null", "wait", "exited", "dispatch", "accept"}
  BY DEF ReactorCreate, Run, RunFails, BatchDone, AcceptDone, HandleWakeup, HandleListen,
               quiet, control, event, table, log, epoll, net
<1>2. Hands'
  <2>1. pc' \in {"create", "null", "created"} => pc = "create"
    BY DEF ReactorCreate, Run, RunFails, BatchDone, AcceptDone, HandleWakeup, HandleListen
  <2> QED  BY <1>1, <2>1, HandsSame DEF Hands
<1>3. /\ stop => stop'
      /\ batch' \subseteq batch /\ (stop' \/ \A e \in batch : e[1] \in Fds => e \in batch')
  <2>1. listen_fd \notin Fds  BY SMTT(60), ReactorBounds DEF listen_fd, Fds
  <2>2. \/ stop' = stop /\ batch' = batch
        \/ stop' = TRUE /\ batch' = {}
        \/ stop' = stop /\ \E e \in batch : e[1] = listen_fd /\ batch' = batch \ {e}
    BY DEF ReactorCreate, Run, RunFails, BatchDone, AcceptDone, HandleWakeup, HandleListen,
                 StopSet, quiet, control, event
  <2>3. CASE stop' = stop /\ \E e \in batch : e[1] = listen_fd /\ batch' = batch \ {e}
    <3>1. PICK d \in batch : d[1] = listen_fd /\ batch' = batch \ {d}  BY <2>3
    <3>2. \A e \in batch : e[1] \in Fds => e # d  BY <2>1, <3>1
    <3>3. batch' \subseteq batch  BY <3>1
    <3>4. \A e \in batch : e[1] \in Fds => e \in batch'  BY <3>1, <3>2
    <3>5. stop => stop'  BY <2>3
    <3> QED  BY <3>3, <3>4, <3>5
  <2>4. CASE stop' = TRUE /\ batch' = {}
    <3>1. stop' /\ batch' \subseteq batch  BY <2>4
    <3> QED  BY <3>1
  <2>5. CASE stop' = stop /\ batch' = batch  BY <2>5
  <2> QED  BY <2>2, <2>3, <2>4, <2>5
<1>4. Handling'
  <2>1. Handling  BY DEF Events
  <2>2. pc' \in {"create", "null", "created", "wait"} => ~stop' /\ batch' = {}
    BY <2>1 DEF Handling, ReactorCreate, Run, RunFails, BatchDone, AcceptDone,
                       HandleWakeup, HandleListen, quiet, control, event
  <2>3. pc' = "exited" => batch' = {}
    BY <2>1 DEF Handling, ReactorCreate, Run, RunFails, BatchDone, AcceptDone,
                       HandleWakeup, HandleListen, event
  <2> QED  BY <1>1, <2>2, <2>3 DEF Handling
<1>5. Events'  BY <1>1, <1>3, <1>4, LoopEvents
<1> QED  BY <1>2, <1>5

\* What epoll_wait may report of a connection: something it is watched for.
LEMMA ReportIs ==
  ASSUME TableInv, Hands, NEW e \in Reportable
  PROVE  \/ e = <<listen_fd, {"IN"}>> \/ e = <<wakeup_fd, {"IN"}>>
         \/ \E k \in edge : /\ e = <<FdOf(k), Poll(k) \cap Watched(k)>>
                            /\ FdOf(k) \in Open /\ conns[FdOf(k)].client = k
                            /\ Poll(k) \cap Watched(k) # {}
<1>1. \/ \E k \in edge : e = <<FdOf(k), Poll(k) \cap Watched(k)>> /\ Poll(k) \cap Watched(k) # {}
      \/ e = <<listen_fd, {"IN"}>> \/ e = <<wakeup_fd, {"IN"}>>
  BY DEF Reportable
<1>2. ASSUME NEW k \in edge PROVE FdOf(k) \in Open /\ conns[FdOf(k)].client = k
  <2>1. k \in Clients /\ Connected(k)  BY DEF TableInv, TypeOK, EpollOK, Sockets
  <2>2. FdOf(k) \in Fds /\ fds[FdOf(k)] = <<"sock", k>>  BY <2>1, FdOfIs
  <2>3. FdOf(k) \in Open  BY <2>1, <2>2 DEF Hands
  <2>4. fds[FdOf(k)] = <<"sock", conns[FdOf(k)].client>>  BY <2>3, OwnSocket
  <2> QED  BY SMTT(60), <2>2, <2>3, <2>4
<1> QED  BY <1>1, <1>2

\* epoll_wait: a connection whose report is taken off the ready list has it in the
\* batch, and only there.
LEMMA WaitEvents ==
  ASSUME TableInv, Hands, Events, EpollWait
  PROVE  Hands' /\ Events'
<1>1. /\ UNCHANGED <<client, rcvd, out, interest, conns, failed, fds, active_conns, cur, evs, stop>>
      /\ pc = "wait" /\ pc' = "dispatch" /\ batch' \subseteq Reportable
      /\ \A k \in edge : k \in edge' \/ \E e \in batch' : e[1] = FdOf(k)
  BY DEF EpollWait, quiet, control, table, log, net
<1>2. Hands'  BY <1>1, HandsSame
<1>3. /\ Open' = Open /\ \A k : Watched(k)' = Watched(k) /\ Poll(k)' = Poll(k)
      /\ \A g : ~Busy(g)' /\ ~Handled(g) /\ ~Busy(g) /\ batch = {}
      /\ Handling'
  <2>1. Open' = Open /\ \A k : Watched(k)' = Watched(k)  BY <1>1 DEF Open, Watched
  <2>2. \A k : Poll(k)' = Poll(k)  BY <1>1, PollSame DEF client
  <2>3. \A g : ~Busy(g)' /\ ~Handled(g) /\ ~Busy(g)  BY <1>1 DEF Busy, Handled
  <2>4. batch = {} /\ Handling'  BY <1>1 DEF Events, Handling
  <2> QED  BY <2>1, <2>2, <2>3, <2>4
<1>4. ASSUME NEW g \in Open PROVE Settled(g)'
  <2>1. PICK k : k = conns[g].client /\ FdOf(k) = g  BY OwnSocket
  <2>2. Settled(g)  BY DEF Events
  <2>3. Idle(conns[g])'
    <3>1. Idle(conns[g])  BY <1>3, <2>2 DEF Settled
    <3> QED  BY <1>1, <3>1 DEF Idle, Unsent
  <2>4. Signalled(g) => Signalled(g)'  BY <1>1, <1>3, <2>1 DEF Signalled
  <2> QED  BY <1>1, <1>3, <2>2, <2>3, <2>4 DEF Settled
<1>5. listen_fd \notin Fds /\ wakeup_fd \notin Fds /\ listen_fd # wakeup_fd
  BY SMTT(60), ReactorBounds DEF Fds, listen_fd, wakeup_fd
<1>6. \A e \in batch' :
        \/ e = <<listen_fd, {"IN"}>> \/ e = <<wakeup_fd, {"IN"}>>
        \/ \E k \in edge : /\ e = <<FdOf(k), Poll(k) \cap Watched(k)>>
                           /\ FdOf(k) \in Open /\ conns[FdOf(k)].client = k
                           /\ Poll(k) \cap Watched(k) # {}
  BY <1>1, ReportIs
<1>7. ASSUME NEW e \in batch', e[1] \in Fds PROVE Pending(e)'
  <2>1. PICK k \in edge : /\ e = <<FdOf(k), Poll(k) \cap Watched(k)>>
                          /\ FdOf(k) \in Open /\ conns[FdOf(k)].client = k
                          /\ Poll(k) \cap Watched(k) # {}
    BY SMTT(60), <1>5, <1>6, <1>7
  <2>2. /\ e[1] \in Open /\ e[2] # {} /\ e[2] \subseteq Watched(k) /\ conns[e[1]].client = k
        /\ "ERR" \in e[2] => "ERR" \in Poll(k)
    BY <2>1
  <2>3. "ERR" \in Poll(k) => peer[k] \notin {"none", "open"}  BY DEF Poll
  <2>4. peer' = peer  BY <1>1 DEF client
  <2> QED  BY <1>1, <1>3, <2>2, <2>3, <2>4 DEF Pending
<1>8. ASSUME NEW d \in batch', NEW e \in batch', d[1] = e[1] PROVE d = e
  <2>1. CASE e[1] \in Open
    <3>1. \A x \in {d, e} : x[1] \in Fds  BY <1>8, <2>1 DEF Open
    <3>2. \A x \in {d, e} :
            LET k == conns[x[1]].client IN x = <<x[1], Poll(k) \cap Watched(k)>>
      BY SMTT(60), <1>5, <1>6, <3>1
    <3> QED  BY <1>8, <3>2
  <2>2. CASE e[1] \notin Open
    <3>1. \A x \in {d, e} : x = <<listen_fd, {"IN"}>> \/ x = <<wakeup_fd, {"IN"}>>
      BY SMTT(60), <1>6, <1>8, <2>2
    <3> QED  BY SMTT(60), <1>5, <1>8, <3>1
  <2> QED  BY <2>1, <2>2
<1>9. (\A g \in Open' : Settled(g)') /\ (\A e \in batch' : e[1] \in Fds => Pending(e)')
  BY <1>3, <1>4, <1>7
<1>10. Events'  BY <1>3, <1>8, <1>9 DEF Events
<1> QED  BY <1>2, <1>10

\* What the event of a connection asks for is what the connection waits for.
LEMMA EventIs ==
  ASSUME TableInv, Hands, Events, NEW e \in batch, e[1] \in Fds
  PROVE  LET c == conns[e[1]] IN
         /\ e[1] \in Open /\ e[2] # {} /\ e[2] \subseteq Watched(c.client)
         /\ e[2] \subseteq {"IN", "OUT", "ERR"}
         /\ "IN" \in e[2] => c.state = "ST_READING"
         /\ "OUT" \in e[2] => c.state = "ST_WRITING"
<1> DEFINE c == conns[e[1]]
<1>1. Pending(e) /\ e[1] \in Open  BY DEF Events, Pending
<1>2. Idle(c)  BY <1>1 DEF Events, Settled, Pending, Busy
<1>3. e[2] # {} /\ e[2] \subseteq Watched(c.client)  BY <1>1 DEF Pending
<1>4. e[2] \subseteq {"IN", "OUT", "ERR"}  BY DEF TableInv, TypeOK, EventOK
<1>5. c.state \in {"ST_READING", "ST_WRITING"}
  BY <1>1, OpenConn, ConnFields DEF TableInv, TypeOK, States
<1>6. e[2] \subseteq interest[c.client] \cup {"ERR"}  BY <1>3 DEF Watched
<1>7. /\ "IN" \in e[2] => c.state = "ST_READING"
      /\ "OUT" \in e[2] => c.state = "ST_WRITING"
  BY <1>2, <1>5, <1>6 DEF Idle
<1> QED  BY <1>1, <1>3, <1>4, <1>7

\* The event of a connection: it is closed, or its handler is called.
LEMMA HandleConnEvents ==
  ASSUME TableInv, Hands, Events, HandleConn, ~stray'
  PROVE  Hands' /\ Events'
<1>1. /\ UNCHANGED <<client, backlog, rcvd, out, stop, failed>> /\ pc = "dispatch"
  BY DEF HandleConn, quiet, control, net, log
<1>2. PICK e \in batch :
        /\ e[1] \in Fds /\ batch' = batch \ {e}
        /\ \/ conns[e[1]] = NoConn
           \/ conn_close(e[1]) /\ UNCHANGED <<pc, cur, evs>>
           \/ /\ "ERR" \notin e[2] /\ cur' = e[1] /\ UNCHANGED <<table, epoll, conns>>
              /\ \/ "IN" \in e[2] /\ pc' = "read" /\ evs' = e[2] \ {"IN"}
                 \/ "IN" \notin e[2] /\ pc' = "write" /\ evs' = {}
  BY DEF HandleConn
<1> DEFINE f == e[1]
<1>3. /\ f \in Open /\ e[2] # {} /\ e[2] \subseteq {"IN", "OUT", "ERR"}
      /\ "IN" \in e[2] => conns[f].state = "ST_READING"
      /\ "OUT" \in e[2] => conns[f].state = "ST_WRITING"
  BY <1>2, EventIs
<1>4. conns[f] # NoConn  BY <1>3 DEF Open
<1> HIDE DEF f
<1>5. CASE conn_close(f) /\ UNCHANGED <<pc, cur, evs>>
  <2>1. \E d \in batch : d[1] = f /\ batch' = batch \ {d}  BY <1>2 DEF f
  <2>2. pc' = "dispatch"  BY <1>1, <1>5
  <2> QED  BY <1>1, <1>3, <1>5, <2>1, <2>2, CloseEvents
<1>6. CASE /\ "ERR" \notin e[2] /\ cur' = f /\ UNCHANGED <<table, epoll, conns>>
           /\ \/ "IN" \in e[2] /\ pc' = "read" /\ evs' = e[2] \ {"IN"}
              \/ "IN" \notin e[2] /\ pc' = "write" /\ evs' = {}
  <2>1. UNCHANGED <<fds, active_conns, interest, edge, conns>> /\ Open' = Open
        /\ sent' = sent /\ peer' = peer /\ got' = got /\ pc' \in {"read", "write"}
    BY <1>1, <1>6 DEF table, epoll, client, Open
  <2>2. Hands'  BY <1>1, <2>1, HandsSame
  <2>3. conns[f].state = (IF pc' = "write" THEN "ST_WRITING" ELSE "ST_READING")
        /\ "OUT" \notin evs'
    BY <1>3, <1>6
  <2>4. Handling'  BY <1>6, <2>1, <2>3 DEF Handling
  <2>5. Settled(f)'
    <3>1. Settled(f) /\ ~Handled(f)  BY <1>1, <1>3 DEF Events, Handled
    <3>2. Idle(conns[f])'  BY <2>1, <3>1 DEF Settled, Idle, Unsent
    <3>3. Busy(f)'  BY <1>6 DEF Busy, Handled
    <3> QED  BY <1>1, <2>1, <3>1, <3>2, <3>3 DEF Settled
  <2>6. \A g \in Open \ {f} : \E k \in Clients : Untouched(g, k)
    BY <1>1, <2>1, OwnSocket, PollSame DEF Untouched
  <2>7. /\ batch' \subseteq batch /\ \A d \in batch' : d[1] # f
        /\ \A d \in batch : d[1] \in Open \ {f} => d \in batch'
    BY <1>2 DEF Events, f
  <2>8. Open \ {f} \subseteq Open' /\ Open' \subseteq Open \cup {f} /\ failed \subseteq failed'
    BY <1>1, <2>1
  <2>9. Events'  BY <1>1, <1>6, <2>4, <2>5, <2>6, <2>7, <2>8, EventsStep
  <2> QED  BY <2>2, <2>9
<1> QED  BY <1>2, <1>4, <1>5, <1>6 DEF f

\* accept(): the new connection waits for its first bytes, and is on the ready list
\* if they are there already.
LEMMA AcceptEvents ==
  ASSUME TableInv, Hands, Events, Accept
  PROVE  Hands' /\ Events'
<1>1. /\ pc = "accept" /\ UNCHANGED <<client, batch, cur, evs, pc, stop, rcvd, out>>
      /\ \E c \in Clients, f \in Fds : Waits(c) /\ fds[f] = Free /\ (Accepts(c, f) \/ Drops)
  BY AcceptEffect DEF quiet, control, event
<1>2. Handling'  BY <1>1 DEF Events, Handling
<1>3. CASE Drops
  <2>1. UNCHANGED <<interest, edge, fds, conns, active_conns, failed>>
    BY <1>3 DEF Drops, epoll
  <2>2. Hands'  BY <1>1, <2>1, HandsSame
  <2>3. Events'  BY <1>1, <1>2, <2>1, LoopEvents
  <2> QED  BY <2>2, <2>3
<1>4. ASSUME NEW c \in Clients, NEW f \in Fds, Waits(c), fds[f] = Free, Accepts(c, f)
      PROVE  Hands' /\ Events'
  <2>1. /\ Hands' /\ f \notin Open /\ Open' = Open \cup {f}
        /\ conns'[f] = NewConn(c) /\ \A g \in Open : conns'[g] = conns[g]
    BY <1>1, <1>4, HandsAccepted
  <2>2. ~Connected(c) /\ interest[c] = {} /\ interest \in [Clients -> SUBSET {"IN", "OUT"}]
    BY <1>4 DEF TableInv, TypeOK, EpollOK, Sockets
  <2>3. /\ failed \subseteq failed' /\ edge \subseteq edge'
        /\ \A k \in Clients \ {c} : interest'[k] = interest[k]
        /\ interest'[c] \subseteq {"IN"}
        /\ c \notin failed' => interest'[c] = {"IN"}
                               /\ (Poll(c) \cap {"IN", "ERR"} # {} => c \in edge')
    <3>1. CASE failed' = failed \cup {c} /\ UNCHANGED epoll
      BY <2>2, <3>1 DEF epoll
    <3>2. CASE Watch(c, {"IN"}) /\ failed' = failed
      <4>1. {"IN"} \cup {"ERR"} = {"IN", "ERR"}  OBVIOUS
      <4>2. /\ interest'[c] = {"IN"} /\ \A k \in Clients \ {c} : interest'[k] = interest[k]
        BY <2>2, <3>2 DEF Watch
      <4>3. edge \subseteq edge' /\ (Poll(c) \cap {"IN", "ERR"} # {} => c \in edge')
        BY <3>2, <4>1 DEF Watch
      <4> QED  BY <3>2, <4>2, <4>3
    <3> QED  BY <1>4, <3>1, <3>2 DEF Accepts
  <2>4. \A k : Poll(k)' = Poll(k)
    <3>1. UNCHANGED <<sent, peer, got>>  BY <1>1 DEF client
    <3> QED  BY <1>1, <3>1, PollSame
  <2>5. \A g \in Open \ {f} : \E k \in Clients : Untouched(g, k)
    <3>1. \A g \in Open : conns[g].client \in Clients \ {c}  BY <2>2, OwnSocket
    <3>2. peer' = peer  BY <1>1 DEF client
    <3> QED  BY <2>1, <2>3, <2>4, <3>1, <3>2 DEF Untouched
  <2>6. \A e \in batch' : e[1] # f  BY <1>1, <2>1 DEF Events, Pending
  <2>7. Settled(f)'
    <3>1. /\ conns'[f].client = c /\ conns'[f].state = "ST_READING"
          /\ conns'[f].inbuf = <<>> /\ conns'[f].in_head = 0
      <4>1. 0 \in Fds  BY SMTT(60), ReactorBounds DEF Fds
      <4> QED  BY <2>1, <4>1, NewConnFields
    <3>2. Idle(conns[f])'
      <4>1. Len(<<>>) = 0  BY SMTT(60)
      <4> QED  BY <2>3, <3>1, <4>1 DEF Idle
    <3>3. c \notin failed' => Signalled(f)'
      <4>1. ASSUME c \notin failed' PROVE Watched(c)' = {"IN", "ERR"}  BY <2>3, <4>1 DEF Watched
      <4> QED  BY <2>3, <2>4, <3>1, <4>1 DEF Signalled
    <3> QED  BY <2>3, <3>1, <3>2, <3>3 DEF Settled
  <2>8. /\ Open \ {f} \subseteq Open' /\ Open' \subseteq Open \cup {f}
        /\ pc \notin {"read", "build", "write", "killed"}
        /\ pc' \notin {"read", "build", "write", "killed"}
        /\ batch' = batch /\ stop' = stop
    BY <1>1, <2>1
  <2>9. Events'  BY <1>2, <2>3, <2>5, <2>6, <2>7, <2>8, EventsStep
  <2> QED  BY <2>1, <2>9
<1> QED  BY <1>1, <1>3, <1>4

\* SIGPIPE ends the process in the middle of a write.
LEMMA KillEvents ==
  ASSUME TableInv, Hands, Events, WriteKills
  PROVE  Hands' /\ Events'
<1>1. /\ UNCHANGED <<client, batch, cur, stop, failed, conns, rcvd, out>>
      /\ UNCHANGED <<interest, edge, fds, active_conns>>
      /\ pc = "write" /\ pc' = "killed"
  BY DEF WriteKills, Writing, quiet, control, event, table, log, epoll, net
<1>2. Hands'  BY <1>1, HandsSame
<1>3. Open' = Open /\ Handling'  BY <1>1 DEF Open, Handling
<1>4. Settled(cur)'
  <2>1. Settled(cur)  BY <1>1, AtHand
  <2>2. Handled(cur)' /\ Busy(cur)'  BY <1>1 DEF Handled, Busy
  <2> QED  BY <1>1, <2>1, <2>2 DEF Settled
<1>5. Events'  BY <1>1, <1>3, <1>4, HandlerEvents
<1> QED  BY <1>2, <1>5

\* reactor_destroy.
LEMMA DestroyEvents ==
  ASSUME TableInv, Hands, Events, ReactorDestroy, ~stray'
  PROVE  Hands' /\ Events'
<1>1. /\ pc \in {"created", "exited"} /\ pc' = "destroyed" /\ UNCHANGED event
  BY DEF ReactorDestroy
<1>2. Hands'  BY HandsDestroyed
<1>3. Open' = {}  BY DEF ReactorDestroy, Open
<1>4. batch' = {} /\ Handling'  BY <1>1 DEF Events, Handling, event
<1>5. Events'  BY <1>3, <1>4 DEF Events
<1> QED  BY <1>2, <1>5

-----------------------------------------------------------------------------
(* The layer is an invariant.                                              *)

\* Before reactor_create.
LEMMA InitEvents == Init => EventInv
<1> SUFFICES ASSUME Init PROVE Hands /\ Events  BY DEF EventInv
<1>1. Open = {}  BY DEF Init, Open
<1>2. Handling /\ batch = {} /\ active_conns = 0  BY DEF Init, Handling
<1>3. Events  BY <1>1, <1>2 DEF Events
<1>4. fds[0] = Other /\ \A f \in Fds, c \in Clients : fds[f] \notin {<<"sock", c>>, <<"file", c>>}
  <2>1. 0 \in Fds  BY SMTT(60), ReactorBounds DEF Fds
  <2> QED  BY SMTT(60), <2>1 DEF Init, Free, Other
<1>5. Cardinality({}) = 0  BY Counts
<1>6. Hands  BY <1>1, <1>2, <1>4, <1>5 DEF Hands
<1> QED  BY <1>3, <1>6

\* What has gone astray stays so.
LEMMA StrayStays ==
  ASSUME [Next]_vars, stray
  PROVE  stray'
<1>1. CASE \/ UNCHANGED vars \/ SendNothing \/ Terminated \/ Truncate \/ ReactorStop
           \/ \E c \in Clients : Client(c)
  BY <1>1 DEF vars, thread, table, SendNothing, Terminated, Truncate, ReactorStop,
                     Client, Connect, Send, HangUp, Consume
<1>2. CASE \/ ReactorCreate \/ Run \/ RunFails \/ EpollWait \/ BatchDone \/ HandleWakeup
           \/ HandleListen \/ AcceptDone \/ Accept
  BY <1>2 DEF ReactorCreate, Run, RunFails, EpollWait, BatchDone, HandleWakeup,
                     HandleListen, AcceptDone, Accept, table
<1>3. CASE ReactorDestroy \/ FileDone  BY <1>3 DEF ReactorDestroy, FileDone
<1>4. CASE HandleConn \/ ReadEnd \/ WriteFails \/ Finish
  <2>1. UNCHANGED table \/ \E f : conn_close(f)
    BY <1>4 DEF HandleConn, ReadEnd, WriteFails, Finish, CloseCur
  <2> QED  BY <2>1 DEF table, conn_close
<1>5. CASE BuildSimple \/ BuildFile \/ BuildFileFails
  BY <1>5 DEF BuildSimple, BuildFile, BuildFileFails, table
<1>6. CASE Read \/ ReadDrained \/ Write \/ WriteBlocked \/ WriteKills \/ HeadDone
  BY <1>6 DEF Read, ReadDrained, Write, WriteBlocked, WriteKills, HeadDone, table
<1> QED  BY <1>1, <1>2, <1>3, <1>4, <1>5, <1>6 DEF Next, Loop

\* Every step of the reactor, its clients and its pool keeps the layer.
LEMMA StepEvents == TableInv /\ EventInv /\ [Next]_vars => EventInv'
<1> SUFFICES ASSUME TableInv, EventInv, [Next]_vars, ~stray' PROVE Hands' /\ Events'
  BY DEF EventInv
<1>1. Hands /\ Events  BY StrayStays DEF EventInv
<1>2. CASE UNCHANGED vars \/ SendNothing \/ Terminated \/ Truncate \/ ReactorStop
  BY <1>1, <1>2, ControlEvents DEF SendNothing, Terminated
<1>3. CASE \E c \in Clients : Client(c)
  BY <1>1, <1>3, ConnectEvents, ClientEvents DEF Client
<1>4. CASE \/ ReactorCreate \/ Run \/ RunFails \/ BatchDone \/ AcceptDone
           \/ HandleWakeup \/ HandleListen
  BY <1>1, <1>4, BetweenEvents
<1>5. CASE EpollWait \/ HandleConn \/ Accept \/ ReactorDestroy
  BY <1>1, <1>5, WaitEvents, HandleConnEvents, AcceptEvents, DestroyEvents
<1>6. CASE Read \/ ReadDrained \/ BuildSimple \/ BuildFile \/ BuildFileFails
  BY <1>1, <1>6, ReadEvents, DrainedEvents, BuildEvents
<1>7. CASE ReadEnd \/ WriteFails
  <2>1. /\ CloseCur /\ UNCHANGED <<quiet, net, batch, cur>> /\ failed \subseteq failed'
        /\ pc \in {"read", "write"}
    BY <1>7 DEF ReadEnd, WriteFails, FailsFor, Writing
  <2> QED  BY <1>1, <2>1, CloseCurEvents
<1>8. CASE Write \/ WriteBlocked \/ WriteKills
  BY <1>1, <1>8, WriteEvents, BlockedEvents, KillEvents
<1>9. CASE HeadDone \/ FileDone \/ Finish
  BY <1>1, <1>9, HeadDoneEvents, FileDoneEvents, FinishEvents
<1> QED
  BY <1>2, <1>3, <1>4, <1>5, <1>6, <1>7, <1>8, <1>9 DEF Next, Loop
=============================================================================
