----------------------------- MODULE ElasticPool ----------------------------
(***************************************************************************)
(* What the worker pool promises (thread_pool.h): a set of reactors is in  *)
(* service.  While the pool is up the set changes by one reactor at a time *)
(* and stays within the limits of the configuration; closing the pool      *)
(* takes all of them out of service at once.                               *)
(***************************************************************************)
EXTENDS Integers, FiniteSets

CONSTANTS Reactors, min_workers, max_workers

VARIABLES serving, phase

vars == <<serving, phase>>

Init == serving = {} /\ phase = "starting"

Start(r) ==
  /\ phase = "starting" /\ r \notin serving
  /\ Cardinality(serving) < max_workers
  /\ serving' = serving \cup {r}
  /\ UNCHANGED phase

\* pool_create returns the pool, whatever number of workers it started.
Open == phase = "starting" /\ phase' = "up" /\ UNCHANGED serving

\* pool_create returns NULL before it starts a worker.
Refuse == phase = "starting" /\ serving = {} /\ phase' = "closed" /\ UNCHANGED serving

Grow(r) ==
  /\ phase = "up" /\ r \notin serving
  /\ Cardinality(serving) < max_workers
  /\ serving' = serving \cup {r}
  /\ UNCHANGED phase

Shrink(r) ==
  /\ phase = "up" /\ r \in serving
  /\ Cardinality(serving) > min_workers
  /\ serving' = serving \ {r}
  /\ UNCHANGED phase

Close == phase = "up" /\ phase' = "closed" /\ serving' = {}

Next ==
  \/ \E r \in Reactors : Start(r) \/ Grow(r) \/ Shrink(r)
  \/ Open \/ Refuse \/ Close

Spec == Init /\ [][Next]_vars
=============================================================================
