----------------------------- MODULE LruPolicy ------------------------------
(***************************************************************************)
(* The cache of LruCache seen as a whole: its list of entries with their   *)
(* sum of bytes, and the policy that it implements.                        *)
(***************************************************************************)
EXTENDS LruCache

\* The entries of the list, and the one that lru_cache_put is making.
Order == [n \in DOMAIN Walk |-> <<entry[Walk[n]].key, entry[Walk[n]].size>>]
Want == IF mutex = NULL THEN NULL ELSE <<arg[mutex][1], arg[mutex][3]>>

\* The cache is a list of keys and sizes by recency.
Abstract == INSTANCE RecencyCache WITH order <- Order, want <- Want

\* Table, list and counters agree, also between two evictions of one put and
\* after a put that failed: the list is intact in both directions, holds exactly
\* the entries of the table, each once, and the counters are their number and
\* their bytes.
Consistent ==
  /\ Cardinality(Listed) = Len(Walk)
  /\ head = IF Walk = <<>> THEN NULL ELSE Walk[1]
  /\ tail = IF Walk = <<>> THEN NULL ELSE Walk[Len(Walk)]
  /\ \A n \in DOMAIN Walk : prev[Walk[n]] = IF n = 1 THEN NULL ELSE Walk[n - 1]
  /\ Listed = {table[k] : k \in Keys} \ {NULL}
  /\ num_entries = Len(Walk)
  /\ current_size = Abstract!Bytes(Order)

\* The steps of lru_cache.c that exceed a limit: an overwrite, for which neither
\* the size is tested nor an entry evicted, and, in a cache of no entries at all,
\* an insertion behind the loop that an empty list ends.
Overfills ==
  \E t \in Threads : \/ PutOverwrite(t) /\ current_size' > max_size
                     \/ PutInsert(t) /\ max_entries = 0

\* lru_cache.c:184-254: every step is one of the policy, but those of Overfills: a
\* hit or an overwrite moves its entry to the front and no other, an eviction
\* takes the least recent, only when the new entry needs the room, and a new entry
\* finds both limits respected, so the exit of the loop at an empty list is taken
\* only by a cache of no entries.
FollowsRecencyCache == Abstract!Init /\ [][Overfills \/ Abstract!Next]_(Abstract!vars)

\* lru_cache.h:68-69, "Maximum total payload bytes the cache may hold", "Maximum
\* number of entries the cache may hold".
WithinCapacity == current_size <= max_size /\ num_entries <= max_entries

\* Of WithinCapacity and PayloadValid one holds at any time.  It is violated by a
\* state in which both are broken, so neither holds.
OnePromiseKept == PayloadValid \/ WithinCapacity
=============================================================================
