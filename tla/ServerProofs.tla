---------------------------- MODULE ServerProofs ----------------------------
(***************************************************************************)
(* The proofs about the pool and the server, for every configuration,      *)
(* every set of reactors and every choice of failing calls: what the pool  *)
(* keeps invariant, that ThreadPool implements ElasticPool, and that the   *)
(* server on top of it leaves nothing behind.                              *)
(***************************************************************************)
EXTENDS Server, FiniteSetTheorems, TLAPS

USE SMTT(60) DEF Threads, Slots, pool, reactor

-----------------------------------------------------------------------------
(* The invariants of the pool.                                             *)

\* The pool that pool_create starts from is well typed.
LEMMA InitTypes == Init => TypeOK
<1> SUFFICES ASSUME Init PROVE TypeOK  OBVIOUS
<1> USE PoolConfig, PoolBounds DEF Init, TypeOK
<1>1. workers \in [Slots -> Reactors \cup {NoReactor}]  OBVIOUS
<1>2. pc \in [Threads -> MainLabels \cup MonitorLabels]  BY DEF MainLabels, MonitorLabels
<1>3. pc["main"] \in MainLabels /\ pc["monitor"] \in MonitorLabels  BY DEF MainLabels, MonitorLabels
<1>4. conns \in [Reactors -> 0 .. MaxConns] /\ num_workers \in 0..max_workers  OBVIOUS
<1> QED  BY Zenon, <1>1, <1>2, <1>3, <1>4

\* Every step keeps the types.
LEMMA StepTypes ==
  ASSUME TypeOK, LockInv, PhaseInv, SlotInv, [Next]_vars
  PROVE  TypeOK'
<1> USE PoolConfig, PoolBounds DEF TypeOK, SpawnReturn, Goto, MainLabels, MonitorLabels,
      PhaseInv, SlotInv
<1>1. ASSUME NEW r \in Reactors, Worker(r) PROVE TypeOK'
  <2>1. CASE WorkerAccept(r)
    BY SMTT(60), <2>1 DEF WorkerAccept
  <2>2. CASE WorkerClose(r)
    BY <2>2 DEF WorkerClose
  <2>3. CASE WorkerExit(r)
    BY <2>3 DEF WorkerExit
  <2> QED  BY SMTT(60), <1>1, <2>1, <2>2, <2>3 DEF Worker
<1>2. ASSUME NEW self \in Threads, SpawnFull(self) PROVE TypeOK'
  BY <1>2 DEF SpawnFull, Spawning, AtCapacity
<1>3. ASSUME NEW self \in Threads, NEW r \in Reactors, SpawnReactor(self, r)
     PROVE  TypeOK'
  BY <1>3 DEF SpawnReactor, Spawning, AtCapacity, reactor_create
<1>4. ASSUME NEW self \in Threads, SpawnReactorFails(self) PROVE TypeOK'
  BY SMTT(60), <1>4 DEF SpawnReactorFails, Spawning
<1>5. ASSUME NEW self \in Threads, SpawnThread(self) PROVE TypeOK'
  BY <1>5 DEF SpawnThread
<1>6. ASSUME NEW self \in Threads, SpawnThreadFails(self) PROVE TypeOK'
  BY <1>6 DEF SpawnThreadFails, reactor_destroy
<1>7. CASE PoolCreate \/ PoolCreateFails \/ PoolCreated \/ StartMonitor
  BY <1>7 DEF PoolCreate, PoolCreateFails, PoolCreated, StartMonitor
<1>8. CASE MonitorLock \/ MonitorWake \/ MonitorUnlock
  BY <1>8 DEF MonitorLock, MonitorWake, MonitorUnlock
<1>9. CASE TuneSample \/ TuneDecide \/ RetireScan
  <2>1. CASE TuneSample
    BY SMTT(60), <2>1 DEF TuneSample
  <2>2. CASE TuneDecide
    BY <2>2 DEF TuneDecide, AboveMinimum
  <2>3. CASE RetireScan
    BY <2>3 DEF RetireScan
  <2> QED  BY SMTT(60), <1>9, <2>1, <2>2, <2>3
<1>10. CASE RetireStop
  BY <1>10 DEF RetireStop, reactor_stop
<1>11. CASE RetireJoin
  BY <1>11 DEF RetireJoin, pthread_join
<1>12. CASE RetireDestroy
  BY <1>12 DEF RetireDestroy, reactor_destroy, SwapWithLast
<1>13. CASE DestroyCall \/ DestroyBegin \/ JoinMonitor \/ DestroyLock
  <2>1. CASE DestroyCall
    BY <2>1 DEF DestroyCall
  <2>2. CASE DestroyBegin
    BY <2>2 DEF DestroyBegin
  <2>3. CASE JoinMonitor
    BY <2>3 DEF JoinMonitor
  <2>4. CASE DestroyLock
    BY <2>4 DEF DestroyLock
  <2> QED  BY <1>13, <2>1, <2>2, <2>3, <2>4
<1>14. CASE JoinMonitorCrash
  BY <1>14 DEF JoinMonitorCrash
<1>15. CASE DestroyStop
  BY <1>15 DEF DestroyStop, EachWorker, reactor_stop
<1>16. CASE DestroyJoin
  <2>1. CASE i["main"] < num_workers
    <3>1. /\ thread' = [thread EXCEPT ![workers[i["main"]]] = "none"]
          /\ i' = [i EXCEPT !["main"] = @ + 1]
          /\ UNCHANGED <<workers, num_workers, lock, stop, pc, total, allocated, wakeup, conns>>
      BY <1>16, <2>1 DEF DestroyJoin, EachWorker, pthread_join
    <3>2. /\ thread \in [Reactors -> {"none", "running", "exited"}]
          /\ workers[i["main"]] \in Reactors
      BY <2>1
    <3>3. i' \in [Threads -> Nat]
      BY <3>1
    <3> HIDE DEF TypeOK, PhaseInv, SlotInv
    <3>4. thread' \in [Reactors -> {"none", "running", "exited"}]
      BY <3>1, <3>2
    <3> QED  BY <3>1, <3>3, <3>4 DEF TypeOK
  <2>2. CASE ~(i["main"] < num_workers)
    BY <1>16, <2>2 DEF DestroyJoin, EachWorker
  <2> QED  BY SMTT(60), <2>1, <2>2
<1>17. CASE DestroyFree
  BY SMTT(60), <1>17 DEF DestroyFree, EachWorker, reactor_destroy
<1>18. CASE UNCHANGED vars
  BY <1>18 DEF vars
<1> HIDE PoolConfig, PoolBounds DEF TypeOK, SpawnReturn, Goto, MainLabels, MonitorLabels,
      PhaseInv, SlotInv
<1> QED
  BY ZenonT(60), <1>1, <1>2, <1>3, <1>4, <1>5, <1>6, <1>7, <1>8, <1>9, <1>10, <1>11, <1>12, <1>13,
     <1>14, <1>15, <1>16, <1>17, <1>18
  DEF Next, Create, Destroy, Monitor, SpawnWorker, Terminated

\* Every step leaves the lock with the thread that is inside a critical section.
LEMMA StepLock ==
  ASSUME TypeOK, LockInv, [Next]_vars
  PROVE  LockInv'
<1> USE PoolConfig, PoolBounds DEF TypeOK, SpawnReturn, Goto, MainLabels, MonitorLabels,
      LockInv, MainHolds, MonitorHolds
<1>1. ASSUME NEW r \in Reactors, Worker(r) PROVE LockInv'
  BY <1>1 DEF Worker, WorkerAccept, WorkerClose, WorkerExit
<1>2. ASSUME NEW self \in Threads, SpawnFull(self) PROVE LockInv'
  BY <1>2 DEF SpawnFull, Spawning, AtCapacity
<1>3. ASSUME NEW self \in Threads, NEW r \in Reactors, SpawnReactor(self, r)
     PROVE  LockInv'
  BY <1>3 DEF SpawnReactor, Spawning, AtCapacity, reactor_create
<1>4. ASSUME NEW self \in Threads, SpawnReactorFails(self) PROVE LockInv'
  BY <1>4 DEF SpawnReactorFails, Spawning
<1>5. ASSUME NEW self \in Threads, SpawnThread(self) PROVE LockInv'
  BY <1>5 DEF SpawnThread
<1>6. ASSUME NEW self \in Threads, SpawnThreadFails(self) PROVE LockInv'
  BY <1>6 DEF SpawnThreadFails, reactor_destroy
<1>7. CASE PoolCreate \/ PoolCreateFails \/ PoolCreated \/ StartMonitor
  BY <1>7 DEF PoolCreate, PoolCreateFails, PoolCreated, StartMonitor
<1>8. CASE MonitorLock \/ MonitorWake \/ MonitorUnlock
  BY <1>8 DEF MonitorLock, MonitorWake, MonitorUnlock
<1>9. CASE TuneSample \/ TuneDecide \/ RetireScan
  BY <1>9 DEF TuneSample, TuneDecide, RetireScan, AboveMinimum
<1>10. CASE RetireStop
  BY <1>10 DEF RetireStop, reactor_stop
<1>11. CASE RetireJoin
  BY <1>11 DEF RetireJoin, pthread_join
<1>12. CASE RetireDestroy
  BY <1>12 DEF RetireDestroy, reactor_destroy, SwapWithLast
<1>13. CASE DestroyCall \/ DestroyBegin \/ JoinMonitor \/ DestroyLock
  BY <1>13 DEF DestroyCall, DestroyBegin, JoinMonitor, DestroyLock
<1>14. CASE JoinMonitorCrash
  BY <1>14 DEF JoinMonitorCrash
<1>15. CASE DestroyStop
  BY <1>15 DEF DestroyStop, EachWorker, reactor_stop
<1>16. CASE DestroyJoin
  BY <1>16 DEF DestroyJoin, EachWorker, pthread_join
<1>17. CASE DestroyFree
  BY <1>17 DEF DestroyFree, EachWorker, reactor_destroy
<1>18. CASE UNCHANGED vars
  BY SMTT(60), <1>18 DEF vars
<1> HIDE PoolConfig, PoolBounds DEF TypeOK, SpawnReturn, Goto, MainLabels, MonitorLabels,
      LockInv, MainHolds, MonitorHolds
<1> QED
  BY ZenonT(60), <1>1, <1>2, <1>3, <1>4, <1>5, <1>6, <1>7, <1>8, <1>9, <1>10, <1>11, <1>12, <1>13,
     <1>14, <1>15, <1>16, <1>17, <1>18
  DEF Next, Create, Destroy, Monitor, SpawnWorker, Terminated

\* Every step keeps the indices within the slots.
LEMMA StepPhase ==
  ASSUME TypeOK, TypeOK', LockInv, PhaseInv, [Next]_vars
  PROVE  PhaseInv'
<1> USE PoolConfig, PoolBounds DEF TypeOK, SpawnReturn, Goto, MainLabels, MonitorLabels,
      LockInv, MainHolds, MonitorHolds, PhaseInv
<1>1. ASSUME NEW r \in Reactors, Worker(r) PROVE PhaseInv'
  BY <1>1 DEF Worker, WorkerAccept, WorkerClose, WorkerExit
<1>2. ASSUME NEW self \in Threads, SpawnFull(self) PROVE PhaseInv'
  BY <1>2 DEF SpawnFull, Spawning, AtCapacity
<1>3. ASSUME NEW self \in Threads, NEW r \in Reactors, SpawnReactor(self, r)
     PROVE  PhaseInv'
  BY <1>3 DEF SpawnReactor, Spawning, AtCapacity, reactor_create
<1>4. ASSUME NEW self \in Threads, SpawnReactorFails(self) PROVE PhaseInv'
  BY <1>4 DEF SpawnReactorFails, Spawning
<1>5. ASSUME NEW self \in Threads, SpawnThread(self) PROVE PhaseInv'
  BY <1>5 DEF SpawnThread
<1>6. ASSUME NEW self \in Threads, SpawnThreadFails(self) PROVE PhaseInv'
  BY <1>6 DEF SpawnThreadFails, reactor_destroy
<1>7. CASE PoolCreate \/ PoolCreateFails \/ PoolCreated \/ StartMonitor
  BY <1>7 DEF PoolCreate, PoolCreateFails, PoolCreated, StartMonitor
<1>8. CASE MonitorLock \/ MonitorWake \/ MonitorUnlock
  BY <1>8 DEF MonitorLock, MonitorWake, MonitorUnlock
<1>9. CASE TuneSample \/ TuneDecide \/ RetireScan
  BY <1>9 DEF TuneSample, TuneDecide, RetireScan, AboveMinimum
<1>10. CASE RetireStop
  BY <1>10 DEF RetireStop, reactor_stop
<1>11. CASE RetireJoin
  BY <1>11 DEF RetireJoin, pthread_join
<1>12. CASE RetireDestroy
  BY <1>12 DEF RetireDestroy, reactor_destroy, SwapWithLast
<1>13. CASE DestroyCall \/ DestroyBegin \/ JoinMonitor \/ DestroyLock
  BY <1>13 DEF DestroyCall, DestroyBegin, JoinMonitor, DestroyLock
<1>14. CASE JoinMonitorCrash
  BY <1>14 DEF JoinMonitorCrash
<1>15. CASE DestroyStop
  BY <1>15 DEF DestroyStop, EachWorker, reactor_stop
<1>16. CASE DestroyJoin
  BY <1>16 DEF DestroyJoin, EachWorker, pthread_join
<1>17. CASE DestroyFree
  BY <1>17 DEF DestroyFree, EachWorker, reactor_destroy
<1>18. CASE UNCHANGED vars
  BY <1>18 DEF vars
<1> HIDE PoolConfig, PoolBounds DEF TypeOK, SpawnReturn, Goto, MainLabels, MonitorLabels,
      LockInv, MainHolds, MonitorHolds, PhaseInv
<1> QED
  BY ZenonT(60), <1>1, <1>2, <1>3, <1>4, <1>5, <1>6, <1>7, <1>8, <1>9, <1>10, <1>11, <1>12, <1>13,
     <1>14, <1>15, <1>16, <1>17, <1>18
  DEF Next, Create, Destroy, Monitor, SpawnWorker, Terminated

\* A step that leaves the slots and the reactors alone keeps SlotInv.
LEMMA SlotFrame ==
  ASSUME SlotInv, UNCHANGED <<workers, num_workers, allocated>>,
         "pthread" \in {pc["main"], pc["monitor"]}
           <=> "pthread" \in {pc["main"], pc["monitor"]}',
         pc["main"] = "dfree" <=> pc'["main"] = "dfree",
         pc["main"] = "dfree" => i'["main"] = i["main"]
  PROVE  SlotInv'
BY DEF SlotInv, InPool, Pending

\* Moving the last element over position k removes exactly element k.
LEMMA SwapRemoves ==
  ASSUME NEW n \in Nat, NEW f, NEW g, NEW k \in 0 .. n - 1,
         \A s, t \in 0 .. n - 1 : f[s] = f[t] => s = t,
         \A s \in 0 .. n - 2 : g[s] = IF s = k THEN f[n - 1] ELSE f[s]
  PROVE  /\ \A s, t \in 0 .. n - 2 : g[s] = g[t] => s = t
         /\ {g[s] : s \in 0 .. n - 2} = {f[s] : s \in 0 .. n - 1} \ {f[k]}
<1>1. \A s \in 0 .. n - 2 : s \in 0 .. n - 1 /\ s # n - 1
  OBVIOUS
<1>2. n - 1 \in 0 .. n - 1
  OBVIOUS
<1>3. \A s, t \in 0 .. n - 2 : g[s] = g[t] => s = t
  BY <1>1, <1>2
<1>4. ASSUME NEW s \in 0 .. n - 2 PROVE g[s] \in {f[t] : t \in 0 .. n - 1} \ {f[k]}
  BY <1>1, <1>2
<1>5. ASSUME NEW s \in 0 .. n - 1, s # k PROVE f[s] \in {g[t] : t \in 0 .. n - 2}
  <2>1. CASE s = n - 1
    <3>1. k \in 0 .. n - 2 /\ g[k] = f[s]
      BY <1>5, <2>1
    <3> QED  BY <3>1
  <2>2. CASE s # n - 1
    <3>1. s \in 0 .. n - 2 /\ g[s] = f[s]
      BY <1>5, <2>2
    <3> QED  BY <3>1
  <2> QED  BY <2>1, <2>2
<1> QED  BY <1>3, <1>4, <1>5

\* The thread in spawn_worker has the pool to itself: no other spawn is under
\* way and pool_destroy is not freeing the reactors.
LEMMA SpawnerAlone ==
  ASSUME NEW self \in Threads, TypeOK, LockInv, pc[self] \in {"spawn", "pthread"}
  PROVE  /\ pc[self] = "spawn" => "pthread" \notin {pc["main"], pc["monitor"]}
         /\ pc[self] = "pthread" => \A t \in Threads : pc[t] = "pthread" => t = self
         /\ pc["main"] # "dfree"
BY DEF TypeOK, LockInv, MainHolds, MonitorHolds, MainLabels, MonitorLabels

\* Every step keeps the ownership of reactors.
LEMMA StepSlots ==
  ASSUME TypeOK, TypeOK', LockInv, PhaseInv, SlotInv, [Next]_vars
  PROVE  SlotInv'
<1> USE PoolConfig, PoolBounds DEF TypeOK, SpawnReturn, Goto, MainLabels, MonitorLabels,
      LockInv, MainHolds, MonitorHolds, PhaseInv
<1>1. ASSUME NEW r \in Reactors, Worker(r) PROVE SlotInv'
  BY <1>1, SlotFrame DEF Worker, WorkerAccept, WorkerClose, WorkerExit
<1>2. ASSUME NEW self \in Threads, SpawnFull(self) PROVE SlotInv'
  <2>1. "pthread" \notin {pc["main"], pc["monitor"]} /\ pc["main"] # "dfree"
    BY <1>2, SpawnerAlone DEF SpawnFull, Spawning
  <2>2. "pthread" \notin {pc["main"], pc["monitor"]}' /\ pc'["main"] # "dfree"
    BY <1>2, <2>1 DEF SpawnFull
  <2>3. UNCHANGED <<workers, num_workers, allocated>>
    BY <1>2 DEF SpawnFull
  <2> QED  BY <2>1, <2>2, <2>3, SlotFrame
<1>3. ASSUME NEW self \in Threads, NEW r \in Reactors, SpawnReactor(self, r)
     PROVE  SlotInv'
  <2>1. "pthread" \notin {pc["main"], pc["monitor"]} /\ pc["main"] # "dfree"
    BY <1>3, SpawnerAlone DEF SpawnReactor, Spawning
  <2>2. "pthread" \in {pc["main"], pc["monitor"]}' /\ pc'["main"] # "dfree"
    BY <1>3, <2>1 DEF SpawnReactor
  <2>3. /\ num_workers' = num_workers /\ num_workers < max_workers
        /\ allocated' = allocated \cup {r} /\ r \notin allocated
        /\ workers' = [workers EXCEPT ![num_workers] = r]
    BY <1>3 DEF SpawnReactor, AtCapacity, reactor_create
  <2>4. workers'[num_workers] = r /\ \A s \in 0 .. num_workers - 1 : workers'[s] = workers[s]
    BY <2>3
  <2>5. InPool' = InPool
    BY <2>3, <2>4 DEF InPool
  <2>6. \A q \in allocated : q \in InPool
    BY <2>1 DEF SlotInv, Pending
  <2>7. r \notin InPool
    BY SMTT(60), <2>1, <2>3 DEF SlotInv, InPool
  <2> QED  BY SMTT(60), <2>1, <2>2, <2>3, <2>4, <2>5, <2>6, <2>7 DEF SlotInv, Pending
<1>4. ASSUME NEW self \in Threads, SpawnReactorFails(self) PROVE SlotInv'
  <2>1. "pthread" \notin {pc["main"], pc["monitor"]} /\ pc["main"] # "dfree"
    BY <1>4, SpawnerAlone DEF SpawnReactorFails, Spawning
  <2>2. "pthread" \notin {pc["main"], pc["monitor"]}' /\ pc'["main"] # "dfree"
    BY SMTT(60), <1>4, <2>1 DEF SpawnReactorFails
  <2>3. UNCHANGED <<workers, num_workers, allocated>>
    BY <1>4 DEF SpawnReactorFails
  <2> QED  BY <2>1, <2>2, <2>3, SlotFrame
<1>5. ASSUME NEW self \in Threads, SpawnThread(self) PROVE SlotInv'
  <2>1. /\ "pthread" \in {pc["main"], pc["monitor"]}
        /\ "pthread" \notin {pc["main"], pc["monitor"]}'
        /\ pc["main"] # "dfree" /\ pc'["main"] # "dfree"
    BY <1>5, SpawnerAlone DEF SpawnThread
  <2>2. UNCHANGED <<workers, allocated>> /\ num_workers' = num_workers + 1
    BY <1>5 DEF SpawnThread
  <2>3. num_workers < max_workers /\ workers[num_workers] \in Reactors
    BY <2>1 DEF PhaseInv, SlotInv
  <2>4. workers[num_workers] \in allocated \ InPool
    BY <2>1, <2>3 DEF SlotInv, Pending
  <2>5. \A s \in 0 .. num_workers' - 1 : s \in 0 .. num_workers - 1 \/ s = num_workers
    BY <2>2
  <2>6. InPool' = InPool \cup {workers[num_workers]}
    BY <2>2, <2>5 DEF InPool
  <2>7. \A s \in 0 .. num_workers - 1 : workers[s] \in InPool /\ workers[s] \in allocated
    BY SMTT(60), <2>1 DEF SlotInv, InPool
  <2>8. \A q \in allocated' : q \in InPool'
    BY <2>2, <2>6 DEF SlotInv, Pending
  <2> HIDE DEF TypeOK, LockInv, PhaseInv
  <2> QED  BY SMTT(60), <2>1, <2>2, <2>3, <2>4, <2>5, <2>7, <2>8 DEF SlotInv, Pending
<1>6. ASSUME NEW self \in Threads, SpawnThreadFails(self) PROVE SlotInv'
  <2>1. /\ "pthread" \in {pc["main"], pc["monitor"]}
        /\ "pthread" \notin {pc["main"], pc["monitor"]}'
        /\ pc["main"] # "dfree" /\ pc'["main"] # "dfree"
    BY <1>6, SpawnerAlone DEF SpawnThreadFails
  <2>2. /\ UNCHANGED <<workers, num_workers>>
        /\ allocated' = allocated \ {workers[num_workers]}
    BY <1>6 DEF SpawnThreadFails, reactor_destroy
  <2>3. num_workers < max_workers /\ workers[num_workers] \in Reactors
    BY <2>1 DEF PhaseInv, SlotInv
  <2>4. workers[num_workers] \in allocated \ InPool
    BY <2>1, <2>3 DEF SlotInv, Pending
  <2>5. InPool' = InPool /\ \A s \in 0 .. num_workers - 1 : workers[s] \in InPool
    BY SMTT(60), <2>2 DEF InPool
  <2> HIDE DEF TypeOK, LockInv, PhaseInv
  <2> QED  BY SMTT(60), <2>1, <2>2, <2>3, <2>4, <2>5 DEF SlotInv, Pending
<1>7. CASE PoolCreate \/ PoolCreateFails \/ PoolCreated \/ StartMonitor
  BY SMTT(60), <1>7, SlotFrame DEF PoolCreate, PoolCreateFails, PoolCreated, StartMonitor
<1>8. CASE MonitorLock \/ MonitorWake \/ MonitorUnlock
  BY <1>8, SlotFrame DEF MonitorLock, MonitorWake, MonitorUnlock
<1>9. CASE TuneSample \/ TuneDecide \/ RetireScan
  <2>1. /\ pc["monitor"] # "pthread" /\ pc'["monitor"] # "pthread"
        /\ pc'["main"] = pc["main"] /\ i'["main"] = i["main"]
        /\ UNCHANGED <<workers, num_workers, allocated>>
    BY SMTT(60), <1>9 DEF TuneSample, TuneDecide, RetireScan
  <2>2. pc["main"] # "pthread"
    BY <1>9 DEF TuneSample, TuneDecide, RetireScan
  <2> QED  BY SMTT(60), <2>1, <2>2, SlotFrame
<1>10. CASE RetireStop
  BY <1>10, SlotFrame DEF RetireStop, reactor_stop
<1>11. CASE RetireJoin
  BY <1>11, SlotFrame DEF RetireJoin, pthread_join
<1>12. CASE RetireDestroy
  <2> DEFINE k == i["monitor"]
             n == num_workers
  <2>1. k \in 0 .. n - 1 /\ n \in 1 .. max_workers
    BY <1>12 DEF RetireDestroy
  <2>2. /\ workers' = [workers EXCEPT ![k] = workers[n - 1]] /\ num_workers' = n - 1
        /\ allocated' = allocated \ {workers[k]}
    BY <1>12 DEF RetireDestroy, SwapWithLast, reactor_destroy
  <2>3. /\ "pthread" \notin {pc["main"], pc["monitor"]}
        /\ "pthread" \notin {pc["main"], pc["monitor"]}'
        /\ pc["main"] # "dfree" /\ pc'["main"] # "dfree"
    BY <1>12 DEF RetireDestroy
  <2>4. \A s \in 0 .. n - 2 : workers'[s] = IF s = k THEN workers[n - 1] ELSE workers[s]
    BY SMTT(60), <2>1, <2>2
  <2> HIDE DEF TypeOK, LockInv, PhaseInv
  <2>5. \A s, t \in 0 .. n - 1 : workers[s] = workers[t] => s = t
    BY DEF SlotInv
  <2>6. /\ \A s, t \in 0 .. n - 2 : workers'[s] = workers'[t] => s = t
        /\ {workers'[s] : s \in 0 .. n - 2} = {workers[s] : s \in 0 .. n - 1} \ {workers[k]}
    BY <2>1, <2>4, <2>5, SwapRemoves
  <2>7. InPool' = InPool \ {workers[k]}
    BY SMTT(60), <2>1, <2>2, <2>6 DEF InPool
  <2>8. \A q \in allocated : q \in InPool
    BY <2>3 DEF SlotInv, Pending
  <2>9. \A s \in 0 .. n - 1 : workers[s] \in allocated /\ workers[s] \in Reactors
    BY <2>3 DEF SlotInv
  <2>10. \A s \in 0 .. n - 2 : workers'[s] \in Reactors /\ workers'[s] \in allocated \ {workers[k]}
    BY <2>1, <2>4, <2>5, <2>9
  <2>11. num_workers' - 1 = n - 2
    BY <2>1, <2>2
  <2> HIDE DEF k, n
  <2> QED  BY <2>2, <2>3, <2>6, <2>7, <2>8, <2>10, <2>11 DEF SlotInv, Pending
<1>13. CASE DestroyCall \/ DestroyBegin \/ JoinMonitor \/ DestroyLock
  BY <1>13, SlotFrame DEF DestroyCall, DestroyBegin, JoinMonitor, DestroyLock
<1>14. CASE JoinMonitorCrash
  BY <1>14, SlotFrame DEF JoinMonitorCrash
<1>15. CASE DestroyStop
  BY SMTT(60), <1>15, SlotFrame DEF DestroyStop, EachWorker, reactor_stop
<1>16. CASE DestroyJoin
  <2>1. "pthread" \notin {pc["main"], pc["monitor"]} /\ pc["main"] # "dfree"
    BY <1>16 DEF DestroyJoin, EachWorker
  <2>2. UNCHANGED <<workers, num_workers, allocated>> /\ "pthread" \notin {pc["main"], pc["monitor"]}'
    BY <1>16, <2>1 DEF DestroyJoin, EachWorker, pthread_join
  <2>3. pc'["main"] = "dfree" => i'["main"] = 0
    BY <1>16 DEF DestroyJoin, EachWorker
  <2>4. \A s \in 0 .. num_workers - 1 : s >= 0
    OBVIOUS
  <2> QED  BY <2>1, <2>2, <2>3, <2>4 DEF SlotInv, InPool, Pending
<1>17. CASE DestroyFree
  <2>1. pc["main"] = "dfree" /\ "pthread" \notin {pc["main"], pc["monitor"]} /\ workers' = workers
    BY <1>17 DEF DestroyFree, EachWorker
  <2>2. CASE i["main"] < num_workers
    <3>1. /\ i["main"] \in 0 .. num_workers - 1 /\ num_workers' = num_workers /\ pc' = pc
          /\ i'["main"] = i["main"] + 1
          /\ allocated' = allocated \ {workers[i["main"]]}
      BY SMTT(60), <1>17, <2>2 DEF DestroyFree, EachWorker, reactor_destroy
    <3>2. \A s \in 0 .. num_workers - 1 : workers[s] \in allocated' <=> s >= i["main"] + 1
      BY <2>1, <3>1 DEF SlotInv
    <3>3. InPool' = InPool
      BY SMTT(60), <2>1, <3>1 DEF InPool
    <3> HIDE DEF TypeOK, LockInv, PhaseInv
    <3> QED  BY SMTT(60), <2>1, <3>1, <3>2, <3>3 DEF SlotInv, Pending
  <2>3. CASE ~(i["main"] < num_workers)
    <3>1. /\ num_workers' = 0 /\ allocated' = allocated /\ pc'["main"] = "done"
          /\ pc'["monitor"] = pc["monitor"]
      BY <1>17, <2>3 DEF DestroyFree, EachWorker
    <3>2. \A s \in 0 .. num_workers - 1 : workers[s] \notin allocated
      BY <2>1, <2>3 DEF SlotInv
    <3>3. \A r \in allocated : r \in InPool
      BY <2>1 DEF SlotInv, Pending
    <3>4. allocated = {}
      BY <3>2, <3>3 DEF InPool
    <3> QED  BY SMTT(60), <2>1, <3>1, <3>4 DEF SlotInv, Pending, InPool
  <2> QED  BY SMTT(60), <2>2, <2>3
<1>18. CASE UNCHANGED vars
  BY SMTT(60), <1>18, SlotFrame DEF vars
<1> HIDE PoolConfig, PoolBounds DEF TypeOK, SpawnReturn, Goto, MainLabels, MonitorLabels,
      LockInv, MainHolds, MonitorHolds, PhaseInv
<1> QED
  BY ZenonT(60), <1>1, <1>2, <1>3, <1>4, <1>5, <1>6, <1>7, <1>8, <1>9, <1>10, <1>11, <1>12, <1>13,
     <1>14, <1>15, <1>16, <1>17, <1>18
  DEF Next, Create, Destroy, Monitor, SpawnWorker, Terminated

\* A step that leaves the slots and the threads alone, and goes on to no point
\* that promises more about the threads, keeps ThreadInv.
LEMMA ThreadFrame ==
  ASSUME ThreadInv, UNCHANGED <<workers, num_workers, thread>>,
         pc'["monitor"] = "rfree" => pc["monitor"] = "rfree" /\ i'["monitor"] = i["monitor"],
         pc'["main"] = "djoin" => (pc["main"] = "djoin" /\ i'["main"] = i["main"]) \/ i'["main"] = 0,
         pc'["main"] \in {"dfree", "done"} => pc["main"] \in {"dfree", "done"}
  PROVE  ThreadInv'
BY SMTT(60) DEF ThreadInv, InPool

\* Every step keeps the ownership of threads.
LEMMA StepThreads ==
  ASSUME TypeOK, TypeOK', LockInv, PhaseInv, SlotInv, ThreadInv, [Next]_vars
  PROVE  ThreadInv'
<1> USE PoolConfig, PoolBounds DEF TypeOK, SpawnReturn, Goto, MainLabels, MonitorLabels,
      LockInv, MainHolds, MonitorHolds, PhaseInv
<1>1. ASSUME NEW r \in Reactors, Worker(r) PROVE ThreadInv'
  <2>1. CASE WorkerAccept(r) \/ WorkerClose(r)
    BY SMTT(60), <2>1, ThreadFrame DEF WorkerAccept, WorkerClose
  <2>2. CASE WorkerExit(r)
    BY SMTT(60), <2>2 DEF WorkerExit, ThreadInv, SlotInv, InPool
  <2> QED  BY SMTT(60), <1>1, <2>1, <2>2 DEF Worker
<1>2. ASSUME NEW self \in Threads, SpawnFull(self) PROVE ThreadInv'
  BY <1>2, ThreadFrame DEF SpawnFull, Spawning, AtCapacity
<1>3. ASSUME NEW self \in Threads, NEW r \in Reactors, SpawnReactor(self, r)
     PROVE  ThreadInv'
  <2>1. /\ num_workers' = num_workers /\ thread' = thread
        /\ \A s \in 0 .. num_workers - 1 : workers'[s] = workers[s]
    BY <1>3 DEF SpawnReactor, reactor_create
  <2>2. InPool' = InPool
    BY <2>1 DEF InPool
  <2>3. pc'["monitor"] # "rfree" /\ pc'["main"] \notin {"djoin", "dfree", "done"}
    BY SMTT(60), <1>3 DEF SpawnReactor, Spawning
  <2> QED  BY <2>1, <2>2, <2>3 DEF ThreadInv
<1>4. ASSUME NEW self \in Threads, SpawnReactorFails(self) PROVE ThreadInv'
  BY SMTT(60), <1>4, ThreadFrame DEF SpawnReactorFails, Spawning
<1>5. ASSUME NEW self \in Threads, SpawnThread(self) PROVE ThreadInv'
  <2>1. /\ thread' = [thread EXCEPT ![workers[num_workers]] = "running"]
        /\ workers' = workers /\ num_workers' = num_workers + 1
    BY <1>5 DEF SpawnThread
  <2>2. InPool \subseteq InPool' /\ workers[num_workers] \in InPool'
    BY <2>1 DEF InPool
  <2>3. pc'["monitor"] # "rfree" /\ pc'["main"] \notin {"djoin", "dfree", "done"}
    BY SMTT(60), <1>5 DEF SpawnThread
  <2> QED  BY SMTT(60), <2>1, <2>2, <2>3 DEF ThreadInv
<1>6. ASSUME NEW self \in Threads, SpawnThreadFails(self) PROVE ThreadInv'
  BY SMTT(60), <1>6, ThreadFrame DEF SpawnThreadFails, reactor_destroy
<1>7. CASE PoolCreate \/ PoolCreateFails \/ PoolCreated \/ StartMonitor
  BY SMTT(60), <1>7, ThreadFrame DEF PoolCreate, PoolCreateFails, PoolCreated, StartMonitor
<1>8. CASE MonitorLock \/ MonitorWake \/ MonitorUnlock
  BY SMTT(60), <1>8, ThreadFrame DEF MonitorLock, MonitorWake, MonitorUnlock
<1>9. CASE TuneSample \/ TuneDecide \/ RetireScan
  BY SMTT(60), <1>9, ThreadFrame DEF TuneSample, TuneDecide, RetireScan, AboveMinimum
<1>10. CASE RetireStop
  BY SMTT(60), <1>10, ThreadFrame DEF RetireStop, reactor_stop
<1>11. CASE RetireJoin
  BY <1>11 DEF RetireJoin, pthread_join, ThreadInv, SlotInv, InPool
<1>12. CASE RetireDestroy
  <2> DEFINE k == i["monitor"]
             n == num_workers
  <2>1. k \in 0 .. n - 1 /\ n \in 1 .. max_workers /\ thread[workers[k]] = "none"
    BY SMTT(60), <1>12 DEF RetireDestroy, ThreadInv
  <2>2. /\ workers' = [workers EXCEPT ![k] = workers[n - 1]] /\ num_workers' = n - 1
        /\ thread' = thread
    BY SMTT(60), <1>12 DEF RetireDestroy, SwapWithLast, reactor_destroy
  <2>3. \A s \in 0 .. n - 2 : workers'[s] = IF s = k THEN workers[n - 1] ELSE workers[s]
    BY SMTT(60), <2>1, <2>2
  <2>4. pc'["monitor"] # "rfree" /\ pc'["main"] \notin {"djoin", "dfree", "done"}
    BY SMTT(60), <1>12 DEF RetireDestroy
  <2> HIDE DEF TypeOK, LockInv, PhaseInv
  <2>5. {workers'[s] : s \in 0 .. n - 2} = {workers[s] : s \in 0 .. n - 1} \ {workers[k]}
    BY <2>1, <2>3, SwapRemoves DEF SlotInv
  <2>6. InPool' = InPool \ {workers[k]}
    BY SMTT(60), <2>1, <2>2, <2>5 DEF InPool
  <2> QED  BY SMTT(60), <2>1, <2>2, <2>4, <2>6 DEF ThreadInv
<1>13. CASE DestroyCall \/ DestroyBegin \/ JoinMonitor \/ DestroyLock
  BY SMTT(60), <1>13, ThreadFrame DEF DestroyCall, DestroyBegin, JoinMonitor, DestroyLock
<1>14. CASE JoinMonitorCrash
  BY SMTT(60), <1>14 DEF JoinMonitorCrash, ThreadInv
<1>15. CASE DestroyStop
  BY <1>15, ThreadFrame DEF DestroyStop, EachWorker, reactor_stop
<1>16. CASE DestroyJoin
  <2>1. /\ pc["main"] = "djoin" /\ UNCHANGED <<workers, num_workers>>
        /\ pc'["monitor"] = pc["monitor"] /\ pc["monitor"] # "rfree" /\ InPool' = InPool
    BY SMTT(60), <1>16 DEF DestroyJoin, EachWorker, InPool
  <2>2. CASE i["main"] < num_workers
    <3>1. /\ thread' = [thread EXCEPT ![workers[i["main"]]] = "none"]
          /\ i'["main"] = i["main"] + 1 /\ pc' = pc
      BY SMTT(60), <1>16, <2>2 DEF DestroyJoin, EachWorker, pthread_join
    <3>2. \A s \in 0 .. i["main"] : workers[s] \in Reactors
      BY SMTT(60), <2>2 DEF SlotInv
    <3>3. \A s \in 0 .. i["main"] : thread'[workers[s]] = "none"
      BY SMTT(60), <2>1, <2>2, <3>1, <3>2 DEF ThreadInv
    <3>4. \A s \in 0 .. i'["main"] - 1 : s \in 0 .. i["main"]
      BY <3>1
    <3> HIDE DEF TypeOK, LockInv, PhaseInv
    <3> QED  BY SMTT(60), <2>1, <3>1, <3>3, <3>4 DEF ThreadInv
  <2>3. CASE ~(i["main"] < num_workers)
    <3>1. thread' = thread /\ pc'["main"] = "dfree"
      BY SMTT(60), <1>16, <2>3 DEF DestroyJoin, EachWorker
    <3>2. \A r \in Reactors : thread[r] = "none"
      BY SMTT(60), <2>1, <2>3 DEF ThreadInv, InPool
    <3> QED  BY SMTT(60), <2>1, <3>1, <3>2 DEF ThreadInv
  <2> QED  BY <2>2, <2>3
<1>17. CASE DestroyFree
  <2>1. \A r \in Reactors : thread'[r] = "none"
    BY SMTT(60), <1>17 DEF DestroyFree, EachWorker, reactor_destroy, ThreadInv
  <2>2. pc'["monitor"] # "rfree" /\ pc'["main"] # "djoin"
    BY SMTT(60), <1>17 DEF DestroyFree, EachWorker
  <2> QED  BY <2>1, <2>2 DEF ThreadInv
<1>18. CASE UNCHANGED vars
  BY SMTT(60), <1>18, ThreadFrame DEF vars
<1> HIDE PoolConfig, PoolBounds DEF TypeOK, SpawnReturn, Goto, MainLabels, MonitorLabels,
      LockInv, MainHolds, MonitorHolds, PhaseInv
<1> QED
  BY ZenonT(60), <1>1, <1>2, <1>3, <1>4, <1>5, <1>6, <1>7, <1>8, <1>9, <1>10, <1>11, <1>12, <1>13,
     <1>14, <1>15, <1>16, <1>17, <1>18
  DEF Next, Create, Destroy, Monitor, SpawnWorker, Terminated

\* Every step keeps the limits.
LEMMA StepLimits ==
  ASSUME TypeOK, TypeOK', LockInv, PhaseInv, LimitsInv, [Next]_vars
  PROVE  LimitsInv'
<1> USE PoolConfig, PoolBounds DEF TypeOK, SpawnReturn, Goto, MainLabels, MonitorLabels,
      LockInv, MainHolds, MonitorHolds, PhaseInv, LimitsInv
<1>1. ASSUME NEW r \in Reactors, Worker(r) PROVE LimitsInv'
  BY SMTT(60), <1>1 DEF Worker, WorkerAccept, WorkerClose, WorkerExit
<1>2. ASSUME NEW self \in Threads, SpawnFull(self) PROVE LimitsInv'
  BY SMTT(60), <1>2 DEF SpawnFull, Spawning, AtCapacity
<1>3. ASSUME NEW self \in Threads, NEW r \in Reactors, SpawnReactor(self, r)
     PROVE  LimitsInv'
  BY SMTT(60), <1>3 DEF SpawnReactor, Spawning, AtCapacity, reactor_create
<1>4. ASSUME NEW self \in Threads, SpawnReactorFails(self) PROVE LimitsInv'
  BY SMTT(60), <1>4 DEF SpawnReactorFails, Spawning
<1>5. ASSUME NEW self \in Threads, SpawnThread(self) PROVE LimitsInv'
  BY SMTT(60), <1>5 DEF SpawnThread
<1>6. ASSUME NEW self \in Threads, SpawnThreadFails(self) PROVE LimitsInv'
  BY SMTT(60), <1>6 DEF SpawnThreadFails, reactor_destroy
<1>7. CASE PoolCreate \/ PoolCreateFails \/ PoolCreated \/ StartMonitor
  BY SMTT(60), <1>7 DEF PoolCreate, PoolCreateFails, PoolCreated, StartMonitor
<1>8. CASE MonitorLock \/ MonitorWake \/ MonitorUnlock
  BY SMTT(60), <1>8 DEF MonitorLock, MonitorWake, MonitorUnlock
<1>9. CASE TuneSample \/ TuneDecide \/ RetireScan
  BY SMTT(60), <1>9 DEF TuneSample, TuneDecide, RetireScan, AboveMinimum
<1>10. CASE RetireStop
  BY SMTT(60), <1>10 DEF RetireStop, reactor_stop
<1>11. CASE RetireJoin
  BY SMTT(60), <1>11 DEF RetireJoin, pthread_join
<1>12. CASE RetireDestroy
  BY SMTT(60), <1>12 DEF RetireDestroy, reactor_destroy, SwapWithLast
<1>13. CASE DestroyCall \/ DestroyBegin \/ JoinMonitor \/ DestroyLock
  BY SMTT(60), <1>13 DEF DestroyCall, DestroyBegin, JoinMonitor, DestroyLock
<1>14. CASE JoinMonitorCrash
  BY SMTT(60), <1>14 DEF JoinMonitorCrash
<1>15. CASE DestroyStop
  BY SMTT(60), <1>15 DEF DestroyStop, EachWorker, reactor_stop
<1>16. CASE DestroyJoin
  BY SMTT(60), <1>16 DEF DestroyJoin, EachWorker, pthread_join
<1>17. CASE DestroyFree
  BY SMTT(60), <1>17 DEF DestroyFree, EachWorker, reactor_destroy
<1>18. CASE UNCHANGED vars
  BY <1>18 DEF vars
<1> HIDE PoolConfig, PoolBounds DEF TypeOK, SpawnReturn, Goto, MainLabels, MonitorLabels,
      LockInv, MainHolds, MonitorHolds, PhaseInv, LimitsInv
<1> QED
  BY ZenonT(60), <1>1, <1>2, <1>3, <1>4, <1>5, <1>6, <1>7, <1>8, <1>9, <1>10, <1>11, <1>12, <1>13,
     <1>14, <1>15, <1>16, <1>17, <1>18
  DEF Next, Create, Destroy, Monitor, SpawnWorker, Terminated

\* PoolInv is inductive.
LEMMA StepPoolInv == PoolInv /\ [Next]_vars => PoolInv'
<1> SUFFICES ASSUME PoolInv, [Next]_vars PROVE PoolInv'
  OBVIOUS
<1> USE DEF PoolInv
<1>1. TypeOK'  BY StepTypes
<1>2. LockInv'  BY StepLock
<1>3. PhaseInv'  BY <1>1, StepPhase
<1>4. SlotInv'  BY <1>1, StepSlots
<1>5. ThreadInv'  BY <1>1, StepThreads
<1>6. LimitsInv'  BY <1>1, StepLimits
<1> QED  BY <1>1, <1>2, <1>3, <1>4, <1>5, <1>6

\* The bookkeeping of the pool is right at every point of creation, tuning,
\* retirement and shutdown, whichever calls fail.
THEOREM PoolInvariant == Spec => []PoolInv
<1>1. Init => PoolInv
  <2> SUFFICES ASSUME Init PROVE PoolInv
    OBVIOUS
  <2> USE PoolConfig, PoolBounds DEF Init
  <2>1. TypeOK  BY InitTypes
  <2>2. LockInv  BY DEF LockInv, MainHolds, MonitorHolds
  <2>3. PhaseInv  BY DEF PhaseInv
  <2>4. SlotInv  BY DEF SlotInv, Pending, InPool
  <2>5. ThreadInv  BY DEF ThreadInv, InPool
  <2>6. LimitsInv  BY DEF LimitsInv
  <2> QED  BY <2>1, <2>2, <2>3, <2>4, <2>5, <2>6 DEF PoolInv
<1> QED  BY <1>1, StepPoolInv, PTL DEF Spec

\* Type correctness.
THEOREM PoolTypes == Spec => []TypeOK
<1>1. PoolInv => TypeOK
  BY DEF PoolInv
<1> QED  BY <1>1, PoolInvariant, PTL

\* Slots hold distinct reactors that exist until pool_destroy frees them.
THEOREM PoolSlotsLive == Spec => []SlotsLive
<1>1. PoolInv => SlotsLive
  BY DEF PoolInv, SlotInv, SlotsLive, InPool
<1> QED  BY <1>1, PoolInvariant, PTL

\* No worker thread outlives its reactor.
THEOREM PoolRunningOnLive == Spec => []RunningOnLive
<1>1. PoolInv => RunningOnLive
  BY DEF PoolInv, SlotInv, ThreadInv, RunningOnLive, InPool
<1> QED  BY <1>1, PoolInvariant, PTL

\* No reactor and no thread leaks, and pool_destroy leaves none behind.
THEOREM PoolNothingLeaks == Spec => []NothingLeaks
<1>1. ASSUME PoolInv PROVE NothingLeaks
  <2>1. \A r \in Reactors : thread[r] # "none" => r \in InPool
    BY <1>1 DEF PoolInv, ThreadInv
  <2>2. \A r \in allocated :
          \/ r \in InPool
          \/ r = workers[num_workers] /\ "pthread" \in {pc["main"], pc["monitor"]}
    BY <1>1 DEF PoolInv, SlotInv, Pending
  <2>3. ASSUME pc["main"] = "done" PROVE allocated = {}
    <3>1. num_workers = 0 /\ "pthread" \notin {pc["main"], pc["monitor"]}
      BY <1>1, <2>3 DEF PoolInv, PhaseInv, LockInv
    <3> QED  BY <2>2, <3>1 DEF InPool
  <2> QED  BY <2>1, <2>2, <2>3 DEF NothingLeaks
<1> QED  BY <1>1, PoolInvariant, PTL

\* The pool stays within its configured limits.
THEOREM PoolWithinLimits == Spec => []WithinLimits
<1>1. PoolInv => WithinLimits
  BY PoolConfig DEF PoolInv, TypeOK, LimitsInv, WithinLimits
<1> QED  BY <1>1, PoolInvariant, PTL

-----------------------------------------------------------------------------
(* The pool implements ElasticPool.                                        *)

\* The slots hold as many reactors as num_workers says.
LEMMA PoolSize ==
  ASSUME TypeOK, SlotInv
  PROVE  IsFiniteSet(InPool) /\ Cardinality(InPool) = num_workers
<1> DEFINE D == 0 .. num_workers - 1
           f == [s \in D |-> workers[s]]
<1>1. num_workers \in Nat
  BY PoolConfig DEF TypeOK
<1>2. IsFiniteSet(D) /\ Cardinality(D) = num_workers
  BY <1>1, FS_Interval
<1>3. f \in [D -> InPool]
  BY DEF InPool
<1>4. \A s, t \in D : f[s] = f[t] => s = t
  BY DEF SlotInv
<1>5. \A r \in InPool : \E s \in D : f[s] = r
  BY DEF InPool
<1> HIDE DEF D, f
<1>6. f \in Bijection(D, InPool)
  BY <1>3, <1>4, <1>5 DEF Bijection, Injection, Surjection, IsInjective
<1> QED  BY <1>2, <1>6, FS_Bijection DEF ExistsBijection

\* The cardinality that ElasticPool means is the one of FiniteSets.
LEMMA SameCardinality == \A S : Abstract!Cardinality(S) = Cardinality(S)
BY Zenon DEF Abstract!Cardinality, Cardinality, Abstract!IsFiniteSet, IsFiniteSet

\* A step that leaves the slots in use alone, and main within its phase, is no
\* step of the abstract pool.
LEMMA AbstractStutter ==
  ASSUME num_workers' = num_workers,
         \A s \in 0 .. num_workers - 1 : workers'[s] = workers[s],
         Phase' = Phase
  PROVE  UNCHANGED Abstract!vars
BY DEF Abstract!vars, InPool

\* Every step of the pool is a step of ElasticPool or leaves it unchanged.
LEMMA AbstractStep ==
  ASSUME PoolInv, PoolInv', [Next]_vars
  PROVE  [Abstract!Next]_(Abstract!vars)
<1> USE PoolConfig, PoolBounds DEF SpawnReturn, Goto
<1> TypeOK /\ LockInv /\ PhaseInv
  BY DEF PoolInv
<1>s. /\ IsFiniteSet(InPool) /\ Cardinality(InPool) = num_workers
      /\ num_workers \in 0 .. max_workers
  BY PoolSize DEF PoolInv, TypeOK
<1>1. ASSUME NEW r \in Reactors, Worker(r) PROVE UNCHANGED Abstract!vars
  BY <1>1, AbstractStutter DEF Worker, WorkerAccept, WorkerClose, WorkerExit, Phase
<1>2. ASSUME NEW self \in Threads, SpawnFull(self) \/ SpawnReactorFails(self)
      PROVE  UNCHANGED Abstract!vars
  BY <1>2, AbstractStutter DEF SpawnFull, SpawnReactorFails, Spawning, TypeOK, Phase
<1>3. ASSUME NEW self \in Threads, NEW r \in Reactors, SpawnReactor(self, r)
      PROVE  UNCHANGED Abstract!vars
  <2>1. Phase' = Phase
    BY <1>3 DEF SpawnReactor, Spawning, TypeOK, Phase
  <2> QED  BY <1>3, <2>1, AbstractStutter DEF SpawnReactor, TypeOK
<1>4. ASSUME NEW self \in Threads, SpawnThread(self) PROVE Abstract!Next
  <2> DEFINE r == workers[num_workers]
  <2>1. "pthread" \in {pc["main"], pc["monitor"]} /\ pc[self] = "pthread"
    BY <1>4 DEF SpawnThread
  <2>2. num_workers < max_workers /\ r \in Reactors
    BY <2>1 DEF PoolInv, PhaseInv, SlotInv
  <2>3. r \notin InPool
    BY <2>1, <2>2 DEF PoolInv, SlotInv, Pending
  <2>4. workers' = workers /\ num_workers' = num_workers + 1
    BY <1>4 DEF SpawnThread
  <2>5. InPool' = InPool \cup {r}
    <3>1. \A s \in 0 .. num_workers : s \in 0 .. num_workers - 1 \/ s = num_workers
      BY <1>s
    <3> QED  BY <1>s, <2>4, <3>1 DEF InPool
  <2> HIDE DEF r
  <2>6. CASE self = "main"
    <3>1. Phase = "starting" /\ Phase' = "starting"
      BY SMTT(60), <1>4, <2>6 DEF SpawnThread, TypeOK, Phase
    <3>2. Abstract!Start(r)
      BY <1>s, <2>2, <2>3, <2>5, <3>1, SameCardinality DEF Abstract!Start
    <3> QED  BY <2>2, <3>2 DEF Abstract!Next
  <2>7. CASE self = "monitor"
    <3>1. Phase = "up" /\ Phase' = "up"
      BY <1>4, <2>7 DEF SpawnThread, TypeOK, LockInv, MonitorHolds, MainLabels, Phase
    <3>2. Abstract!Grow(r)
      BY <1>s, <2>2, <2>3, <2>5, <3>1, SameCardinality DEF Abstract!Grow
    <3> QED  BY <2>2, <3>2 DEF Abstract!Next
  <2> QED  BY <2>6, <2>7
<1>5. ASSUME NEW self \in Threads, SpawnThreadFails(self) PROVE UNCHANGED Abstract!vars
  BY <1>5, AbstractStutter DEF SpawnThreadFails, reactor_destroy, TypeOK, Phase
<1>6. CASE PoolCreate \/ StartMonitor
  BY SMTT(60), <1>6, AbstractStutter DEF PoolCreate, StartMonitor, TypeOK, Phase
<1>7. CASE PoolCreateFails
  <2>1. InPool = {} /\ InPool' = {} /\ Phase = "starting" /\ Phase' = "closed"
    BY SMTT(60), <1>7 DEF PoolCreateFails, PhaseInv, TypeOK, InPool, Phase
  <2>2. Abstract!Refuse
    BY <2>1 DEF Abstract!Refuse
  <2> QED  BY <2>2 DEF Abstract!Next
<1>8. CASE PoolCreated
  <2>1. InPool' = InPool /\ Phase = "starting" /\ Phase' = "up"
    BY <1>8 DEF PoolCreated, TypeOK, InPool, Phase
  <2>2. Abstract!Open
    BY <2>1 DEF Abstract!Open
  <2> QED  BY <2>2 DEF Abstract!Next
<1>9. CASE MonitorLock \/ MonitorWake \/ TuneSample \/ TuneDecide \/ RetireScan \/ MonitorUnlock
  BY <1>9, AbstractStutter
  DEF MonitorLock, MonitorWake, TuneSample, TuneDecide, RetireScan, MonitorUnlock, TypeOK, Phase
<1>10. CASE RetireStop \/ RetireJoin
  BY SMTT(60), <1>10, AbstractStutter DEF RetireStop, RetireJoin, TypeOK, Phase
<1>11. CASE RetireDestroy
  <2> DEFINE k == i["monitor"]
             n == num_workers
  <2>1. k \in 0 .. n - 1 /\ n > min_workers /\ n \in 1 .. max_workers
    BY <1>11, <1>s DEF RetireDestroy, PhaseInv, TypeOK
  <2>2. workers' = [workers EXCEPT ![k] = workers[n - 1]] /\ num_workers' = n - 1
    BY <1>11 DEF RetireDestroy, SwapWithLast
  <2>3. \A s \in 0 .. n - 2 : workers'[s] = IF s = k THEN workers[n - 1] ELSE workers[s]
    BY <2>1, <2>2 DEF TypeOK
  <2>4. {workers'[s] : s \in 0 .. n - 2} = {workers[s] : s \in 0 .. n - 1} \ {workers[k]}
    BY <2>1, <2>3, SwapRemoves DEF PoolInv, SlotInv
  <2>5. InPool' = InPool \ {workers[k]}
    BY SMTT(60), <2>1, <2>2, <2>4 DEF InPool
  <2>6. workers[k] \in InPool /\ workers[k] \in Reactors
    BY <2>1 DEF InPool, PoolInv, SlotInv
  <2>7. Phase = "up" /\ Phase' = "up"
    BY <1>11 DEF RetireDestroy, TypeOK, LockInv, MonitorHolds, MainLabels, Phase
  <2>8. Abstract!Shrink(workers[k])
    BY SMTT(60), <1>s, <2>1, <2>5, <2>6, <2>7, SameCardinality DEF Abstract!Shrink
  <2> QED  BY <2>6, <2>8 DEF Abstract!Next
<1>12. CASE DestroyCall \/ DestroyBegin \/ JoinMonitor \/ JoinMonitorCrash \/ DestroyLock
  BY SMTT(60), <1>12, AbstractStutter
  DEF DestroyCall, DestroyBegin, JoinMonitor, JoinMonitorCrash, DestroyLock, TypeOK, Phase
<1>13. CASE DestroyStop \/ DestroyJoin
  BY SMTT(60), <1>13, AbstractStutter DEF DestroyStop, DestroyJoin, EachWorker, TypeOK, Phase
<1>14. CASE DestroyFree
  <2>1. CASE i["main"] < num_workers
    BY <1>14, <2>1, AbstractStutter DEF DestroyFree, EachWorker, Phase
  <2>2. CASE ~(i["main"] < num_workers)
    <3>1. InPool' = {} /\ Phase = "up" /\ Phase' = "closed"
      BY SMTT(60), <1>14, <2>2 DEF DestroyFree, EachWorker, TypeOK, InPool, Phase
    <3>2. Abstract!Close
      BY <3>1 DEF Abstract!Close
    <3> QED  BY <3>2 DEF Abstract!Next
  <2> QED  BY <2>1, <2>2
<1>15. CASE UNCHANGED vars
  BY <1>15, AbstractStutter DEF vars, Phase
<1> HIDE PoolConfig, PoolBounds DEF SpawnReturn, Goto
<1> QED
  BY ZenonT(60), <1>1, <1>2, <1>3, <1>4, <1>5, <1>6, <1>7, <1>8, <1>9, <1>10, <1>11, <1>12, <1>13,
     <1>14, <1>15
  DEF Next, Create, Destroy, Monitor, SpawnWorker, Terminated

\* The pool implements the elastic pool of its interface: reactors enter and
\* leave service one at a time and within the limits, until all leave at once.
THEOREM PoolImplementsElasticPool == Spec => ImplementsElasticPool
<1>1. Init => Abstract!Init
  BY DEF Init, Abstract!Init, InPool, Phase
<1> QED  BY <1>1, AbstractStep, PoolInvariant, PTL DEF Spec, ImplementsElasticPool, Abstract!Spec

-----------------------------------------------------------------------------
(* The server.                                                             *)

\* Every step of the server is a step of the pool or leaves it unchanged.
LEMMA ServerStep == [SNext]_svars => [Next]_vars
BY ZenonT(60)
DEF SNext, svars, Next, PoolStep, SignalMain, SignalOther, TestShutdown, Pause, Exit, STerminated

\* main calls the pool as the pool's own specification lets it be called, so all
\* that is proved of the pool holds in the server.
THEOREM ServerRunsPool == SSpec => Spec
<1>1. SInit => Init
  BY DEF SInit
<1> QED  BY <1>1, ServerStep, PTL DEF SSpec, Spec

\* main returns only behind pool_destroy or a pool_create that failed.
Returned == loop = "exit" => pc["main"] \in {"done", "null"}

\* Nothing moves main once it has returned.
LEMMA ReturnedStep ==
  ASSUME TypeOK, Returned, [SNext]_svars
  PROVE  Returned'
<1>1. CASE loop = "exit"
  <2>1. pc["main"] \in {"done", "null"}
    BY <1>1 DEF Returned
  <2>2. ASSUME NEW r \in Reactors, Worker(r) PROVE pc' = pc
    BY SMTT(60), <2>2 DEF Worker, WorkerAccept, WorkerClose, WorkerExit
  <2>3. ~Create /\ ~Destroy
    <3>1. ~SpawnWorker("main")
      <4>1. pc["main"] # "spawn" /\ pc["main"] # "pthread"
        BY <2>1
      <4> QED
        BY ZenonT(60), <4>1 DEF SpawnWorker, SpawnFull, SpawnReactor, SpawnReactorFails,
          SpawnThread, SpawnThreadFails, Spawning
    <3>2. ~PoolCreate /\ ~PoolCreateFails /\ ~PoolCreated /\ ~StartMonitor
      BY SMTT(60), <2>1 DEF PoolCreate, PoolCreateFails, PoolCreated, StartMonitor
    <3>3. ~DestroyBegin /\ ~JoinMonitor /\ ~JoinMonitorCrash /\ ~DestroyLock
      BY SMTT(60), <2>1 DEF DestroyBegin, JoinMonitor, JoinMonitorCrash, DestroyLock
    <3>4. ~DestroyStop /\ ~DestroyJoin /\ ~DestroyFree
      BY SMTT(60), <2>1 DEF DestroyStop, DestroyJoin, DestroyFree, EachWorker
    <3> QED  BY ZenonT(60), <3>1, <3>2, <3>3, <3>4 DEF Create, Destroy
  <2>4. ASSUME Monitor PROVE pc'["main"] = pc["main"]
    BY ZenonT(60), <2>4 DEF Monitor, MonitorLock, MonitorWake, TuneSample, TuneDecide, RetireScan,
      RetireStop, RetireJoin, RetireDestroy, MonitorUnlock, SpawnWorker, SpawnFull, SpawnReactor,
      SpawnReactorFails, SpawnThread, SpawnThreadFails, SpawnReturn, Goto, TypeOK
  <2> QED
    BY <2>1, <2>2, <2>3, <2>4 DEF SNext, svars, vars, PoolStep, SignalMain, SignalOther,
      TestShutdown, DestroyCall, Pause, Exit, STerminated, Returned
<1>2. CASE loop # "exit"
  BY <1>2 DEF SNext, svars, PoolStep, SignalMain, SignalOther, Interrupted, TestShutdown,
    Pause, Exit, STerminated, Returned, vars
<1> QED  BY <1>1, <1>2

\* The process ends with every reactor destroyed and every thread joined,
\* however the signals, the workers and the monitor interleave and whatever
\* calls fail.
THEOREM ServerExitsClean == SSpec => []ExitsClean
<1>1. SInit => Returned
  BY DEF SInit, Returned
<1>2. PoolInv /\ Returned => ExitsClean
  <2> SUFFICES ASSUME PoolInv, Returned, loop = "exit"
               PROVE  /\ allocated = {} /\ pc["monitor"] \in {"none", "exited"}
                      /\ \A r \in Reactors : thread[r] = "none"
    BY DEF ExitsClean
  <2>1. pc["main"] \in {"done", "null"} /\ pc["monitor"] \in {"none", "exited"}
    BY DEF Returned, PoolInv, LockInv
  <2>2. num_workers = 0 /\ InPool = {}
    BY <2>1 DEF PoolInv, PhaseInv, InPool
  <2>3. allocated = {}
    BY <2>1, <2>2 DEF PoolInv, SlotInv, Pending
  <2> QED  BY <2>1, <2>2, <2>3 DEF PoolInv, ThreadInv
<1>3. PoolInv => TypeOK
  BY DEF PoolInv
<1> QED  BY <1>1, <1>2, <1>3, ReturnedStep, ServerRunsPool, PoolInvariant, PTL DEF SSpec
=============================================================================
