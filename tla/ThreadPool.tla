----------------------------- MODULE ThreadPool -----------------------------
(***************************************************************************)
(* The worker pool of src/src/thread_pool.c: pool_create, the monitor      *)
(* thread that scales the pool, and pool_destroy, over worker threads that *)
(* each run one reactor.  A reactor is seen through its interface: it      *)
(* exists or not, counts its connections, and leaves its loop once stopped.*)
(*                                                                         *)
(* Two threads change the pool: "main" (pool_create and pool_destroy) and  *)
(* "monitor".  A step is one operation that another thread can observe:    *)
(* one load of a connection counter, one call into a reactor, one thread   *)
(* creation or join, one critical section without such a call.             *)
(***************************************************************************)
EXTENDS Integers, FiniteSets

CONSTANTS
  Reactors,      \* addresses a struct reactor can have
  NoReactor,     \* NULL
  min_workers, max_workers, load_high, load_low,   \* struct pool_config
  MaxConns,      \* bound: connections one reactor can hold
  Faults         \* the calls that may fail, see FaultKinds

FaultKinds == {"alloc", "reactor", "thread", "monitor", "worker"}

ASSUME PoolConfig ==
  /\ min_workers \in Nat /\ max_workers \in Nat
  /\ 1 <= min_workers /\ min_workers <= max_workers
  /\ load_high \in Int /\ load_low \in Int

ASSUME PoolBounds ==
  /\ NoReactor \notin Reactors
  /\ MaxConns \in Nat
  /\ Faults \subseteq FaultKinds

Threads == {"main", "monitor"}
Slots == 0 .. max_workers - 1

VARIABLES
  workers,       \* pool->workers[i].reactor; the thread of a slot is its reactor's
  num_workers,   \* pool->num_workers
  lock,          \* the holder of pool->lock, or "free"
  stop,          \* pool->stop
  pc,            \* where main and the monitor are
  i,             \* the loop index of each of them
  total,         \* the sum tune_pool has accumulated
  allocated,     \* the reactors that exist (created and not destroyed)
  thread,        \* the worker thread of a reactor: none, running, exited
  wakeup,        \* the reactors whose wakeup eventfd was written
  conns          \* active_conns of each reactor

pool == <<workers, num_workers>>
reactor == <<allocated, thread, wakeup, conns>>
vars == <<pool, lock, stop, pc, i, total, reactor>>

MainLabels == {"create", "spawn", "pthread", "start", "serving", "dbegin", "joinmon",
               "dlock", "dstop", "djoin", "dfree", "done", "null", "crashed"}
MonitorLabels == {"none", "lock", "wait", "sample", "spawn", "pthread", "scan",
                  "rstop", "rjoin", "rfree", "unlock", "exited"}

Init ==
  /\ workers = [s \in Slots |-> NoReactor]
  /\ num_workers = 0
  /\ lock = "free"
  /\ stop = FALSE
  /\ pc = [t \in Threads |-> IF t = "main" THEN "create" ELSE "none"]
  /\ i = [t \in Threads |-> 0]
  /\ total = 0
  /\ allocated = {}
  /\ thread = [r \in Reactors |-> "none"]
  /\ wakeup = {}
  /\ conns = [r \in Reactors |-> 0]

Goto(self, label) == pc' = [pc EXCEPT ![self] = label]

-----------------------------------------------------------------------------
(* The reactor as the pool sees it.                                        *)

\* reactor_create succeeding: a new object with no connection.
reactor_create(r) ==
  /\ r \notin allocated
  /\ allocated' = allocated \cup {r}
  /\ conns' = [conns EXCEPT ![r] = 0]
  /\ wakeup' = wakeup \ {r}
  /\ UNCHANGED thread

\* reactor_stop writes the wakeup eventfd; the worker notices later.
reactor_stop(r) ==
  /\ wakeup' = wakeup \cup {r}
  /\ UNCHANGED <<allocated, thread, conns>>

\* reactor_destroy closes what connections are left and frees the object.
reactor_destroy(r) ==
  /\ allocated' = allocated \ {r}
  /\ conns' = [conns EXCEPT ![r] = 0]
  /\ UNCHANGED <<thread, wakeup>>

pthread_join(r) ==
  /\ thread[r] = "exited"
  /\ thread' = [thread EXCEPT ![r] = "none"]
  /\ UNCHANGED <<allocated, wakeup, conns>>

\* The loop of reactor_run accepts a connection.
WorkerAccept(r) ==
  /\ thread[r] = "running" /\ conns[r] < MaxConns
  /\ conns' = [conns EXCEPT ![r] = @ + 1]
  /\ UNCHANGED <<pool, lock, stop, pc, i, total, allocated, thread, wakeup>>

\* Mutant: a connection is counted out twice.
WorkerClose_Twice(r) ==
  /\ thread[r] = "running" /\ conns[r] > 0
  /\ conns' = [conns EXCEPT ![r] = @ - 2]
  /\ UNCHANGED <<pool, lock, stop, pc, i, total, allocated, thread, wakeup>>

\* The loop of reactor_run closes a connection.
WorkerClose(r) ==
  /\ thread[r] = "running" /\ conns[r] > 0
  /\ conns' = [conns EXCEPT ![r] = @ - 1]
  /\ UNCHANGED <<pool, lock, stop, pc, i, total, allocated, thread, wakeup>>

\* reactor_run returns: on the wakeup event, or (a fault) when its event
\* buffer cannot be allocated or epoll_wait fails.
WorkerExit(r) ==
  /\ thread[r] = "running"
  /\ r \in wakeup \/ "worker" \in Faults
  /\ thread' = [thread EXCEPT ![r] = "exited"]
  /\ UNCHANGED <<pool, lock, stop, pc, i, total, allocated, wakeup, conns>>

-----------------------------------------------------------------------------
(* spawn_worker, called by main from pool_create and by the monitor.       *)

\* Return to the caller: the next iteration of pool_create's loop, or the
\* unlock that follows tune_pool.
SpawnReturn(self) ==
  IF self = "main"
  THEN Goto(self, "spawn") /\ i' = [i EXCEPT ![self] = @ + 1]
  ELSE Goto(self, "unlock") /\ UNCHANGED i

Spawning(self) ==
  /\ pc[self] = "spawn"
  /\ self = "main" => i[self] < min_workers

\* Mutant: the limit is off by one.
AtCapacity_Early == num_workers >= max_workers - 1

AtCapacity == num_workers >= max_workers

SpawnFull(self) ==
  /\ Spawning(self) /\ AtCapacity
  /\ SpawnReturn(self)
  /\ UNCHANGED <<pool, lock, stop, total, reactor>>

SpawnReactor(self, r) ==
  /\ Spawning(self) /\ ~AtCapacity
  /\ reactor_create(r)
  /\ workers' = [workers EXCEPT ![num_workers] = r]
  /\ Goto(self, "pthread")
  /\ UNCHANGED <<num_workers, lock, stop, i, total>>

SpawnReactorFails(self) ==
  /\ Spawning(self) /\ ~AtCapacity
  /\ "reactor" \in Faults
  /\ SpawnReturn(self)
  /\ UNCHANGED <<pool, lock, stop, total, reactor>>

SpawnThread(self) ==
  /\ pc[self] = "pthread"
  /\ thread' = [thread EXCEPT ![workers[num_workers]] = "running"]
  /\ num_workers' = num_workers + 1
  /\ SpawnReturn(self)
  /\ UNCHANGED <<workers, lock, stop, total, allocated, wakeup, conns>>

\* Mutant: the reactor is forgotten when pthread_create fails.
SpawnThreadFails_Leaks(self) ==
  /\ pc[self] = "pthread"
  /\ "thread" \in Faults
  /\ SpawnReturn(self)
  /\ UNCHANGED <<pool, lock, stop, total, reactor>>

SpawnThreadFails(self) ==
  /\ pc[self] = "pthread"
  /\ "thread" \in Faults
  /\ reactor_destroy(workers[num_workers])
  /\ SpawnReturn(self)
  /\ UNCHANGED <<pool, lock, stop, total>>

SpawnWorker(self) ==
  \/ SpawnFull(self)
  \/ \E r \in Reactors : SpawnReactor(self, r)
  \/ SpawnReactorFails(self)
  \/ SpawnThread(self)
  \/ SpawnThreadFails(self)

-----------------------------------------------------------------------------
(* pool_create.                                                            *)

PoolCreate ==
  /\ pc["main"] = "create"
  /\ lock' = "main"
  /\ Goto("main", "spawn")
  /\ UNCHANGED <<pool, stop, i, total, reactor>>

\* No memory for the pool or no port: pool_create returns NULL.
PoolCreateFails ==
  /\ pc["main"] = "create"
  /\ "alloc" \in Faults
  /\ Goto("main", "null")
  /\ UNCHANGED <<pool, lock, stop, i, total, reactor>>

\* The baseline loop is over: unlock.
PoolCreated ==
  /\ pc["main"] = "spawn" /\ i["main"] >= min_workers
  /\ lock' = "free"
  /\ Goto("main", "start")
  /\ UNCHANGED <<pool, stop, i, total, reactor>>

\* The monitor is created and pool_create returns; its result is not looked at.
StartMonitor ==
  /\ pc["main"] = "start"
  /\ \/ pc' = [pc EXCEPT !["main"] = "serving", !["monitor"] = "lock"]
     \/ "monitor" \in Faults /\ Goto("main", "serving")
  /\ UNCHANGED <<pool, lock, stop, i, total, reactor>>

-----------------------------------------------------------------------------
(* monitor_fn, tune_pool and retire_idle_worker.                           *)

\* Lock, test stop, and wait: pthread_cond_timedwait releases the lock.
MonitorLock ==
  /\ pc["monitor"] = "lock" /\ lock = "free"
  /\ Goto("monitor", IF stop THEN "exited" ELSE "wait")
  /\ UNCHANGED <<pool, lock, stop, i, total, reactor>>

\* The wait returns with the lock.  With stop set (a broadcast or a timeout)
\* the monitor leaves; otherwise it was a timeout and tune_pool begins.  A
\* wakeup with neither goes back to waiting and is no step here.
MonitorWake ==
  /\ pc["monitor"] = "wait" /\ lock = "free"
  /\ IF stop
     THEN Goto("monitor", "exited") /\ UNCHANGED <<lock, i, total>>
     ELSE /\ lock' = "monitor"
          /\ Goto("monitor", "sample")
          /\ i' = [i EXCEPT !["monitor"] = 0]
          /\ total' = 0
  /\ UNCHANGED <<pool, stop, reactor>>

\* One reactor_active_connections of the sum.
TuneSample ==
  /\ pc["monitor"] = "sample" /\ i["monitor"] < num_workers
  /\ total' = total + conns[workers[i["monitor"]]]
  /\ i' = [i EXCEPT !["monitor"] = @ + 1]
  /\ UNCHANGED <<pool, lock, stop, pc, reactor>>

\* Mutants: the limit is off by one, either way.
AboveMinimum_OrAt == num_workers >= min_workers
AboveMinimum_ByTwo == num_workers > min_workers + 1

AboveMinimum == num_workers > min_workers

\* The sum is complete: scale up, scale down or neither.
TuneDecide ==
  /\ pc["monitor"] = "sample" /\ i["monitor"] >= num_workers
  /\ Goto("monitor", IF total > load_high THEN "spawn"
                     ELSE IF total < load_low /\ AboveMinimum THEN "scan"
                     ELSE "unlock")
  /\ i' = [i EXCEPT !["monitor"] = 0]
  /\ UNCHANGED <<pool, lock, stop, total, reactor>>

\* One iteration of retire_idle_worker's search for an idle worker.
RetireScan ==
  /\ pc["monitor"] = "scan"
  /\ IF i["monitor"] >= num_workers
     THEN Goto("monitor", "unlock") /\ UNCHANGED i
     ELSE IF conns[workers[i["monitor"]]] = 0
     THEN Goto("monitor", "rstop") /\ UNCHANGED i
     ELSE i' = [i EXCEPT !["monitor"] = @ + 1] /\ UNCHANGED pc
  /\ UNCHANGED <<pool, lock, stop, total, reactor>>

RetireStop ==
  /\ pc["monitor"] = "rstop"
  /\ reactor_stop(workers[i["monitor"]])
  /\ Goto("monitor", "rjoin")
  /\ UNCHANGED <<pool, lock, stop, i, total>>

\* Mutant: the worker is not joined before its reactor goes.
RetireJoin_Missing ==
  /\ pc["monitor"] = "rjoin"
  /\ Goto("monitor", "rfree")
  /\ UNCHANGED <<pool, lock, stop, i, total, reactor>>

RetireJoin ==
  /\ pc["monitor"] = "rjoin"
  /\ pthread_join(workers[i["monitor"]])
  /\ Goto("monitor", "rfree")
  /\ UNCHANGED <<pool, lock, stop, i, total>>

\* Mutant: the count goes down and the retired worker stays in its slot.
SwapWithLast_Missing(s) == num_workers' = num_workers - 1 /\ UNCHANGED workers

\* The last worker moves into the retired slot.
SwapWithLast(s) ==
  /\ workers' = [workers EXCEPT ![s] = workers[num_workers - 1]]
  /\ num_workers' = num_workers - 1

RetireDestroy ==
  /\ pc["monitor"] = "rfree"
  /\ reactor_destroy(workers[i["monitor"]])
  /\ SwapWithLast(i["monitor"])
  /\ Goto("monitor", "unlock")
  /\ UNCHANGED <<lock, stop, i, total>>

MonitorUnlock ==
  /\ pc["monitor"] = "unlock"
  /\ lock' = "free"
  /\ Goto("monitor", "lock")
  /\ UNCHANGED <<pool, stop, i, total, reactor>>

Monitor ==
  \/ MonitorLock \/ MonitorWake \/ TuneSample \/ TuneDecide \/ SpawnWorker("monitor")
  \/ RetireScan \/ RetireStop \/ RetireJoin \/ RetireDestroy \/ MonitorUnlock

-----------------------------------------------------------------------------
(* pool_destroy.                                                           *)

\* The owner of the pool calls pool_destroy.
DestroyCall ==
  /\ pc["main"] = "serving"
  /\ Goto("main", "dbegin")
  /\ UNCHANGED <<pool, lock, stop, i, total, reactor>>

\* Mutant: the monitor is not told to stop.
DestroyBegin_NoStop ==
  /\ pc["main"] = "dbegin" /\ lock = "free"
  /\ Goto("main", "joinmon")
  /\ UNCHANGED <<pool, lock, stop, i, total, reactor>>

\* Lock, set stop, broadcast, unlock.
DestroyBegin ==
  /\ pc["main"] = "dbegin" /\ lock = "free"
  /\ stop' = TRUE
  /\ Goto("main", "joinmon")
  /\ UNCHANGED <<pool, lock, i, total, reactor>>

\* Mutant: the monitor is not waited for.
JoinMonitor_Missing ==
  /\ pc["main"] = "joinmon"
  /\ Goto("main", "dlock")
  /\ UNCHANGED <<pool, lock, stop, i, total, reactor>>

\* pthread_join of the monitor.  Of a monitor that was never created it is
\* undefined: it may return an error ...
JoinMonitor ==
  /\ pc["main"] = "joinmon" /\ pc["monitor"] \in {"exited", "none"}
  /\ Goto("main", "dlock")
  /\ UNCHANGED <<pool, lock, stop, i, total, reactor>>

\* ... or bring the process down, with all its threads.
JoinMonitorCrash ==
  /\ pc["main"] = "joinmon" /\ pc["monitor"] = "none"
  /\ Goto("main", "crashed")
  /\ thread' = [r \in Reactors |-> "none"]
  /\ UNCHANGED <<pool, lock, stop, i, total, allocated, wakeup, conns>>

DestroyLock ==
  /\ pc["main"] = "dlock" /\ lock = "free"
  /\ lock' = "main"
  /\ Goto("main", "dstop")
  /\ i' = [i EXCEPT !["main"] = 0]
  /\ UNCHANGED <<pool, stop, total, reactor>>

\* The loop over the slots that main is in, Op on slot i of each pass.
EachWorker(label, next, Op(_)) ==
  /\ pc["main"] = label
  /\ IF i["main"] < num_workers
     THEN /\ Op(workers[i["main"]])
          /\ i' = [i EXCEPT !["main"] = @ + 1]
          /\ UNCHANGED pc
     ELSE /\ Goto("main", next)
          /\ i' = [i EXCEPT !["main"] = 0]
          /\ UNCHANGED reactor
  /\ UNCHANGED <<workers, stop, total>>

\* Mutants: the workers are not told to stop, or not joined.
DestroyStop_Missing ==
  /\ pc["main"] = "dstop" /\ Goto("main", "djoin")
  /\ UNCHANGED <<pool, lock, stop, i, total, reactor>>
DestroyJoin_Missing ==
  /\ pc["main"] = "djoin" /\ Goto("main", "dfree")
  /\ UNCHANGED <<pool, lock, stop, i, total, reactor>>

DestroyStop == EachWorker("dstop", "djoin", reactor_stop) /\ UNCHANGED <<num_workers, lock>>
DestroyJoin == EachWorker("djoin", "dfree", pthread_join) /\ UNCHANGED <<num_workers, lock>>

\* After the last reactor: num_workers = 0, unlock, and the pool is freed.
DestroyFree ==
  /\ EachWorker("dfree", "done", reactor_destroy)
  /\ IF i["main"] < num_workers
     THEN UNCHANGED <<num_workers, lock>>
     ELSE num_workers' = 0 /\ lock' = "free"

Create ==
  PoolCreate \/ PoolCreateFails \/ SpawnWorker("main") \/ PoolCreated \/ StartMonitor
Destroy ==
  \/ DestroyBegin \/ JoinMonitor \/ JoinMonitorCrash \/ DestroyLock
  \/ DestroyStop \/ DestroyJoin \/ DestroyFree

-----------------------------------------------------------------------------

Worker(r) == WorkerAccept(r) \/ WorkerClose(r) \/ WorkerExit(r)

\* The pool is gone, or the process is: nothing more happens.
Terminated == pc["main"] \in {"done", "null", "crashed"} /\ UNCHANGED vars

Next ==
  \/ Create \/ DestroyCall \/ Destroy \/ Monitor
  \/ \E r \in Reactors : Worker(r)
  \/ Terminated

Spec == Init /\ [][Next]_vars

(***************************************************************************)
(* Every thread that can take a step takes one.  The lock is free for a    *)
(* whole tune interval between two tunings, so a thread that wants it gets *)
(* it (strong fairness of DestroyBegin).  A worker whose eventfd was       *)
(* written leaves its loop: the descriptor is level-triggered, and every   *)
(* handler of the loop is taken to return (Reactor.tla is about that).     *)
(* Nothing makes connections come or go, and nothing calls pool_destroy.   *)
(***************************************************************************)
Fairness ==
  /\ WF_vars(Create) /\ WF_vars(Monitor)
  /\ WF_vars(Destroy) /\ SF_vars(DestroyBegin)
  /\ \A r \in Reactors : WF_vars(r \in wakeup /\ WorkerExit(r))

FairSpec == Spec /\ Fairness

-----------------------------------------------------------------------------
(* Properties.                                                             *)

TypeOK ==
  /\ workers \in [Slots -> Reactors \cup {NoReactor}]
  /\ num_workers \in 0 .. max_workers
  /\ lock \in {"free", "main", "monitor"}
  /\ stop \in BOOLEAN
  /\ pc \in [Threads -> MainLabels \cup MonitorLabels]
  /\ pc["main"] \in MainLabels /\ pc["monitor"] \in MonitorLabels
  /\ i \in [Threads -> Nat]
  /\ total \in Nat
  /\ allocated \subseteq Reactors
  /\ thread \in [Reactors -> {"none", "running", "exited"}]
  /\ wakeup \subseteq Reactors
  /\ conns \in [Reactors -> 0 .. MaxConns]

\* The reactors the pool has in its slots.
InPool == {workers[s] : s \in 0 .. num_workers - 1}

\* What main's progress means to a user of the pool.
Phase ==
  CASE pc["main"] \in {"create", "spawn", "pthread"} -> "starting"
    [] pc["main"] \in {"done", "null"} -> "closed"
    [] OTHER -> "up"

Abstract == INSTANCE ElasticPool WITH serving <- InPool, phase <- Phase

\* The pool implements ElasticPool: its slots are the reactors in service, and
\* a swap, a failed spawn or a retirement never loses or doubles one.
ImplementsElasticPool == Abstract!Spec

\* No two slots of the pool hold the same reactor, and until pool_destroy
\* frees them every slot holds a reactor that exists: no thread of the pool
\* ever touches a reactor after reactor_destroy (tune_pool, retire_idle_worker
\* with its swap, pool_destroy).
SlotsLive ==
  /\ \A s, t \in 0 .. num_workers - 1 : workers[s] = workers[t] => s = t
  /\ pc["main"] # "dfree" => InPool \subseteq allocated

\* A worker thread runs only on a reactor that exists: every reactor_destroy
\* comes after the thread was joined, in retirement, in shutdown and when
\* pthread_create fails.
RunningOnLive == \A r \in Reactors : thread[r] # "none" => r \in allocated

\* Every thread and every reactor is in a slot that pool_destroy will visit,
\* except the one a spawn has created and not yet entered: nothing leaks, and
\* once pool_destroy returns nothing is left.
NothingLeaks ==
  /\ \A r \in Reactors : thread[r] # "none" => r \in InPool
  /\ \A r \in allocated :
        \/ r \in InPool
        \/ r = workers[num_workers] /\ "pthread" \in {pc["main"], pc["monitor"]}
  /\ pc["main"] = "done" => allocated = {}

\* thread_pool.h: the pool never grows above max_workers and, once it was
\* created with all its workers, never shrinks below min_workers.
WithinLimits ==
  /\ num_workers <= max_workers
  /\ Faults \cap {"reactor", "thread"} = {}
     /\ pc["main"] \in {"start", "serving", "dbegin", "joinmon", "dlock", "dstop", "djoin", "dfree"}
     => num_workers >= min_workers

\* Where each thread holds pool->lock.
MainHolds == {"spawn", "pthread", "dstop", "djoin", "dfree"}
MonitorHolds == {"sample", "spawn", "pthread", "scan", "rstop", "rjoin", "rfree", "unlock"}

\* The lock is with the thread inside a critical section, and the monitor is
\* there only between its creation and its join.
LockInv ==
  /\ lock = "main" <=> pc["main"] \in MainHolds
  /\ lock = "monitor" <=> pc["monitor"] \in MonitorHolds
  /\ pc["main"] \in {"create", "spawn", "pthread", "start", "null"} => pc["monitor"] = "none"
  /\ pc["main"] \in {"dlock", "dstop", "djoin", "dfree", "done", "crashed"}
        => pc["monitor"] \in {"none", "exited"}

\* The reactor a spawn has created and not yet entered.
Pending(r) == /\ "pthread" \in {pc["main"], pc["monitor"]}
              /\ num_workers < max_workers /\ r = workers[num_workers]

\* How far retirement and pool_destroy have come through the slots.
PhaseInv ==
  /\ pc["monitor"] \in {"scan", "rstop", "rjoin", "rfree"} => num_workers > min_workers
  /\ pc["monitor"] \in {"rstop", "rjoin", "rfree"} => i["monitor"] < num_workers
  /\ pc["main"] \in {"djoin", "dfree"} => i["main"] <= num_workers
  /\ pc["main"] \in {"create", "done", "null"} => num_workers = 0
  /\ "pthread" \in {pc["main"], pc["monitor"]} => num_workers < max_workers

\* Which reactors exist: the ones in the slots (while pool_destroy frees them,
\* those it has not come to) and the one a spawn is about to enter.
SlotInv ==
  /\ \A s \in 0 .. num_workers - 1 : workers[s] \in Reactors
  /\ \A s, t \in 0 .. num_workers - 1 : workers[s] = workers[t] => s = t
  /\ \A r \in allocated : r \in InPool \/ Pending(r)
  /\ \A r \in Reactors : Pending(r) => r \in allocated \ InPool
  /\ "pthread" \in {pc["main"], pc["monitor"]} => workers[num_workers] \in Reactors
  /\ \A s \in 0 .. num_workers - 1 :
        workers[s] \in allocated <=> (pc["main"] = "dfree" => s >= i["main"])

\* Which worker threads may exist.
ThreadInv ==
  /\ \A r \in Reactors : thread[r] # "none" => r \in InPool
  /\ pc["monitor"] = "rfree" => thread[workers[i["monitor"]]] = "none"
  /\ pc["main"] = "djoin" => \A s \in 0 .. i["main"] - 1 : thread[workers[s]] = "none"
  /\ pc["main"] \in {"dfree", "done"} => \A r \in Reactors : thread[r] = "none"

\* pool_create's loop adds one worker an iteration when no spawn can fail.
LimitsInv ==
  Faults \cap {"reactor", "thread"} = {} =>
    /\ pc["main"] \in {"spawn", "pthread"} => num_workers = i["main"] /\ i["main"] <= min_workers
    /\ pc["main"] = "create" => i["main"] = 0
    /\ pc["main"] = "pthread" => i["main"] < min_workers
    /\ pc["main"] \notin {"create", "spawn", "pthread", "done", "null"} => num_workers >= min_workers

PoolInv == TypeOK /\ LockInv /\ PhaseInv /\ SlotInv /\ ThreadInv /\ LimitsInv

\* pool_destroy "blocks until every worker and the monitor have exited", and
\* that happens: the call returns (or meets the undefined join).
DestroyReturns == pc["main"] = "dbegin" ~> pc["main"] \in {"done", "crashed"}

\* With no connection left the pool shrinks to its minimum.
ShrinksWhenIdle ==
  <>[](pc["main"] = "serving" /\ \A r \in Reactors : conns[r] = 0)
    => <>[](num_workers <= min_workers)

\* Under a load that stays put above the high watermark the pool grows to its
\* maximum.
GrowsUnderLoad ==
  \A r \in Reactors :
    <>[](pc["main"] = "serving" /\ r \in InPool /\ conns[r] > load_high)
      => <>[](num_workers = max_workers)
=============================================================================
