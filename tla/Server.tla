------------------------------- MODULE Server -------------------------------
(***************************************************************************)
(* src/src/main.c over the worker pool: main starts the pool, sleeps in    *)
(* pause() until a signal handler has set g_shutdown, and destroys the     *)
(* pool.  The kernel runs the handler in any thread of the process that    *)
(* does not block the signal, and no thread does; pause() returns only     *)
(* when the handler ran in the main thread.                                *)
(***************************************************************************)
EXTENDS ThreadPool

VARIABLES
  g_shutdown,    \* set by signal_handler
  loop           \* main's loop: at the "test" of g_shutdown, at the call of
                 \* pause ("call"), asleep in it ("pause"), returned ("exit")

svars == <<vars, g_shutdown, loop>>

Crashed == pc["main"] = "crashed"

SInit == Init /\ g_shutdown = FALSE /\ loop = "test"

\* What is left of pause() when the handler ran in the main thread: it returns
\* if the thread was asleep in it.
Interrupted == IF loop = "pause" THEN "test" ELSE loop

\* signal_handler in the main thread.
SignalMain ==
  /\ loop # "exit" /\ ~Crashed
  /\ g_shutdown' = TRUE
  /\ loop' = Interrupted
  /\ UNCHANGED vars

\* signal_handler in a worker or in the monitor.
SignalOther ==
  /\ loop # "exit" /\ ~Crashed
  /\ pc["monitor"] \notin {"none", "exited"} \/ \E r \in Reactors : thread[r] = "running"
  /\ g_shutdown' = TRUE
  /\ UNCHANGED <<vars, loop>>

\* while (!g_shutdown) pause(): the test, and the way to pause or out.
TestShutdown ==
  /\ pc["main"] = "serving" /\ loop = "test"
  /\ IF g_shutdown
     THEN DestroyCall /\ UNCHANGED loop
     ELSE loop' = "call" /\ UNCHANGED vars
  /\ UNCHANGED g_shutdown

Pause ==
  /\ loop = "call"
  /\ loop' = "pause"
  /\ UNCHANGED <<vars, g_shutdown>>

\* main returns: the pool is destroyed, or could not be created.
Exit ==
  /\ pc["main"] \in {"done", "null"} /\ loop # "exit"
  /\ loop' = "exit"
  /\ UNCHANGED <<vars, g_shutdown>>

\* What the pool's threads, and main inside pool_create and pool_destroy, do.
PoolStep ==
  /\ Create \/ Destroy \/ Monitor \/ \E r \in Reactors : Worker(r)
  /\ UNCHANGED <<g_shutdown, loop>>

STerminated == (loop = "exit" \/ Crashed) /\ UNCHANGED svars

SNext == PoolStep \/ SignalMain \/ SignalOther \/ TestShutdown \/ Pause \/ Exit \/ STerminated

\* The fairness of the pool, and a main thread that runs when it can.
SFairness ==
  /\ Fairness
  /\ WF_svars(TestShutdown) /\ WF_svars(Pause) /\ WF_svars(Exit)

SSpec == SInit /\ [][SNext]_svars
SFairSpec == SSpec /\ SFairness

-----------------------------------------------------------------------------

\* A signal that finds main asleep in pause() and runs its handler there, or
\* that comes before main has tested g_shutdown, ends the server: its workers
\* and monitor stop and it exits (or meets the undefined join of a monitor that
\* was never created).
SeenSignalStops ==
  g_shutdown /\ loop = "test" ~> loop = "exit" \/ Crashed

\* The process exits only with every thread joined and every reactor destroyed.
ExitsClean ==
  loop = "exit" => /\ allocated = {} /\ pc["monitor"] \in {"none", "exited"}
                   /\ \A r \in Reactors : thread[r] = "none"

\* main.c:6, README.md:49: SIGINT and SIGTERM shut the server down.
SignalStops == g_shutdown ~> loop = "exit"
=============================================================================
