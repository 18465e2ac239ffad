------------------------------ MODULE LruCache ------------------------------
(***************************************************************************)
(* The cache of src/src/lru_cache.c: a table from keys to entries, a       *)
(* doubly-linked list of the entries by recency, and reference counts that *)
(* keep an entry for its readers after it was evicted.  Any number of      *)
(* threads call it.  A call is one step, under the cache's mutex, except   *)
(* that lru_cache_put takes a step for each eviction.                      *)
(*                                                                         *)
(* The table is a map (HashTable.tla shows that it is).  Entries and       *)
(* payloads are addresses of the heap.  The counters of hits, misses and   *)
(* evictions, which nothing depends on, are left out.                      *)
(***************************************************************************)
EXTENDS Integers, Sequences, FiniteSets

CONSTANTS
  Threads, Keys, NULL,
  Entries,       \* addresses a struct lru_entry can have
  Buffers,       \* addresses a payload can have
  Sizes,         \* sizes a payload can have
  max_size, max_entries,
  Faults         \* {"oom"}: allocations may fail

ASSUME CacheConfig ==
  /\ NULL \notin Threads \cup Entries \cup Buffers \cup Keys \cup (Keys \X Sizes)
  /\ IsFiniteSet(Threads) /\ Threads # {} /\ IsFiniteSet(Entries)
  /\ Sizes \subseteq Nat /\ max_size \in Nat /\ max_entries \in Nat
  /\ Faults \subseteq {"oom"}

VARIABLES
  table,                                \* c->table
  head, tail, current_size, num_entries,
  entry,         \* the fields of each entry, Freed if it does not exist
  prev, next,    \* and its links
  live,          \* the payloads that exist
  mutex,         \* the thread in lru_cache_put, or NULL
  e,             \* the entry it is making
  pc,            \* each thread: "idle", "reading", "loaded", "put", "gone"
  held, seen,    \* the entry a thread has borrowed, and its payload then
  arg            \* the <<key, payload, size>> it puts

list == <<head, tail, prev, next>>
sums == <<current_size, num_entries>>
vars == <<table, list, sums, entry, live, mutex, e, pc, held, seen, arg>>

NoArg == <<NULL, NULL, 0>>
Freed == [key |-> NULL, data |-> NULL, size |-> 0, refcount |-> 0, removed |-> FALSE]
Allocated == {x \in Entries : entry[x] # Freed}

\* lru_cache_init.
Init ==
  /\ table = [k \in Keys |-> NULL]
  /\ head = NULL /\ tail = NULL /\ current_size = 0 /\ num_entries = 0
  /\ entry = [x \in Entries |-> Freed]
  /\ prev = [x \in Entries |-> NULL] /\ next = [x \in Entries |-> NULL]
  /\ live = {}
  /\ mutex = NULL /\ e = NULL
  /\ pc = [t \in Threads |-> "idle"]
  /\ held = [t \in Threads |-> NULL] /\ seen = [t \in Threads |-> NULL]
  /\ arg = [t \in Threads |-> NoArg]

-----------------------------------------------------------------------------
(* The list.  A list is a record of its four variables, so that the        *)
(* helpers compose as the calls do.                                        *)

TheList == [head |-> head, tail |-> tail, prev |-> prev, next |-> next]

SetList(l) == head' = l.head /\ tail' = l.tail /\ prev' = l.prev /\ next' = l.next

\* Write v at x, unless x is NULL.
At(f, x, v) == [y \in DOMAIN f |-> IF y = x THEN v ELSE f[y]]

\* Mutant: the tail is left.
list_unlink_KeepsTail(l, x) ==
  LET p == l.prev[x]
      n == l.next[x]
  IN [head |-> IF p = NULL THEN n ELSE l.head,
      tail |-> l.tail,
      prev |-> At(At(l.prev, n, p), x, NULL),
      next |-> At(At(l.next, p, n), x, NULL)]

list_unlink(l, x) ==
  LET p == l.prev[x]
      n == l.next[x]
  IN [head |-> IF p = NULL THEN n ELSE l.head,
      tail |-> IF n = NULL THEN p ELSE l.tail,
      prev |-> At(At(l.prev, n, p), x, NULL),
      next |-> At(At(l.next, p, n), x, NULL)]

list_push_front(l, x) ==
  [head |-> x,
   tail |-> IF l.tail = NULL THEN x ELSE l.tail,
   prev |-> At(At(l.prev, x, NULL), l.head, x),
   next |-> At(l.next, x, l.head)]

\* Mutant: a hit does not count as a use.
list_move_front_Stays(l, x) == l

list_move_front(l, x) ==
  IF l.head = x THEN l ELSE list_push_front(list_unlink(l, x), x)

-----------------------------------------------------------------------------
(* lru_cache_get and lru_cache_release.                                    *)

GetHit(t, k) ==
  /\ pc[t] = "idle" /\ mutex = NULL /\ table[k] # NULL
  /\ LET x == table[k] IN
     /\ entry' = [entry EXCEPT ![x].refcount = @ + 1]
     /\ SetList(list_move_front(TheList, x))
     /\ held' = [held EXCEPT ![t] = x]
     /\ seen' = [seen EXCEPT ![t] = entry[x].data]
  /\ pc' = [pc EXCEPT ![t] = "reading"]
  /\ UNCHANGED <<table, sums, live, mutex, e, arg>>

\* A miss: NULL, and nothing changes.
GetMiss(t, k) ==
  /\ pc[t] = "idle" /\ mutex = NULL /\ table[k] = NULL
  /\ UNCHANGED vars

\* Mutant: a removed entry is freed under its readers.
entry_maybe_free_Always(x, d) ==
  IF d.removed
  THEN entry' = [entry EXCEPT ![x] = Freed] /\ live' = live \ {d.data}
  ELSE entry' = [entry EXCEPT ![x] = d] /\ UNCHANGED live

\* entry_maybe_free, of an entry that has become d.
entry_maybe_free(x, d) ==
  IF d.removed /\ d.refcount = 0
  THEN entry' = [entry EXCEPT ![x] = Freed] /\ live' = live \ {d.data}
  ELSE entry' = [entry EXCEPT ![x] = d] /\ UNCHANGED live

Release(t) ==
  /\ pc[t] = "reading" /\ mutex = NULL
  /\ LET x == held[t] IN
     entry_maybe_free(x, [entry[x] EXCEPT !.refcount = IF @ > 0 THEN @ - 1 ELSE 0])
  /\ pc' = [pc EXCEPT ![t] = "idle"]
  /\ held' = [held EXCEPT ![t] = NULL] /\ seen' = [seen EXCEPT ![t] = NULL]
  /\ UNCHANGED <<table, list, sums, mutex, e, arg>>

-----------------------------------------------------------------------------
(* lru_cache_put.                                                          *)

\* The caller has a payload.
Load(t, k, b, n) ==
  /\ pc[t] = "idle" /\ b \notin live
  /\ live' = live \cup {b}
  /\ arg' = [arg EXCEPT ![t] = <<k, b, n>>]
  /\ pc' = [pc EXCEPT ![t] = "loaded"]
  /\ UNCHANGED <<table, list, sums, entry, mutex, e, held, seen>>

\* lru_cache_put returns to its caller.
PutReturn(t) ==
  /\ pc' = [pc EXCEPT ![t] = "idle"]
  /\ arg' = [arg EXCEPT ![t] = NoArg]
  /\ mutex' = NULL /\ e' = NULL
  /\ UNCHANGED <<held, seen>>

\* Mutant: the old size is read after it was overwritten.
PutOverwrite_SizeAfter(t) ==
  /\ pc[t] = "loaded" /\ mutex = NULL /\ table[arg[t][1]] # NULL
  /\ LET x == table[arg[t][1]] IN
     /\ live' = live \ {entry[x].data}
     /\ entry' = [entry EXCEPT ![x].data = arg[t][2], ![x].size = arg[t][3]]
     /\ current_size' = current_size - entry'[x].size + arg[t][3]
     /\ SetList(list_move_front(TheList, x))
  /\ PutReturn(t)
  /\ UNCHANGED <<table, num_entries>>

\* The key is there: the entry gets the payload, the old one is freed.
PutOverwrite(t) ==
  /\ pc[t] = "loaded" /\ mutex = NULL /\ table[arg[t][1]] # NULL
  /\ LET x == table[arg[t][1]] IN
     /\ current_size' = current_size - entry[x].size + arg[t][3]
     /\ live' = live \ {entry[x].data}
     /\ entry' = [entry EXCEPT ![x].data = arg[t][2], ![x].size = arg[t][3]]
     /\ SetList(list_move_front(TheList, x))
  /\ PutReturn(t)
  /\ UNCHANGED <<table, num_entries>>

\* Larger than the cache, or no memory for the entry or its key.
PutRefused(t) ==
  /\ pc[t] = "loaded" /\ mutex = NULL /\ table[arg[t][1]] = NULL
  /\ arg[t][3] > max_size \/ "oom" \in Faults
  /\ live' = live \ {arg[t][2]}
  /\ PutReturn(t)
  /\ UNCHANGED <<table, list, sums, entry>>

\* The entry is allocated and filled in.
PutEntry(t, x) ==
  /\ pc[t] = "loaded" /\ mutex = NULL /\ table[arg[t][1]] = NULL
  /\ arg[t][3] <= max_size
  /\ x \notin Allocated
  /\ entry' = [entry EXCEPT ![x] = [key |-> arg[t][1], data |-> arg[t][2], size |-> arg[t][3],
                                    refcount |-> 0, removed |-> FALSE]]
  /\ prev' = [prev EXCEPT ![x] = NULL] /\ next' = [next EXCEPT ![x] = NULL]
  /\ mutex' = t /\ e' = x
  /\ pc' = [pc EXCEPT ![t] = "put"]
  /\ UNCHANGED <<table, head, tail, sums, live, held, seen, arg>>

Full(n) == num_entries >= max_entries \/ current_size + n > max_size

\* evict_lru: entry_detach and entry_maybe_free of the tail.
PutEvict(t) ==
  /\ pc[t] = "put" /\ Full(arg[t][3]) /\ tail # NULL
  /\ table' = [table EXCEPT ![entry[tail].key] = NULL]
  /\ SetList(list_unlink(TheList, tail))
  /\ current_size' = current_size - entry[tail].size
  /\ num_entries' = num_entries - 1
  /\ entry_maybe_free(tail, [entry[tail] EXCEPT !.removed = TRUE])
  /\ UNCHANGED <<mutex, e, pc, held, seen, arg>>

PutInsert(t) ==
  /\ pc[t] = "put" /\ (Full(arg[t][3]) => tail = NULL)
  /\ table' = [table EXCEPT ![arg[t][1]] = e]
  /\ num_entries' = num_entries + 1
  /\ current_size' = current_size + arg[t][3]
  /\ SetList(list_push_front(TheList, e))
  /\ PutReturn(t)
  /\ UNCHANGED <<entry, live>>

\* Mutant: the error path frees the entry and leaks its payload.
PutInsertFails_Leaks(t) ==
  /\ pc[t] = "put" /\ (Full(arg[t][3]) => tail = NULL)
  /\ "oom" \in Faults
  /\ entry' = [entry EXCEPT ![e] = Freed]
  /\ PutReturn(t)
  /\ UNCHANGED <<table, list, sums, live>>

\* ht_insert fails: all that the put has is freed.
PutInsertFails(t) ==
  /\ pc[t] = "put" /\ (Full(arg[t][3]) => tail = NULL)
  /\ "oom" \in Faults
  /\ entry' = [entry EXCEPT ![e] = Freed] /\ live' = live \ {arg[t][2]}
  /\ PutReturn(t)
  /\ UNCHANGED <<table, list, sums>>

-----------------------------------------------------------------------------

\* The entries of the list l from its head on, by their next links.
Walked(l) ==
  LET walk[n \in 0 .. Cardinality(Entries)] ==
        IF n = 0 THEN <<>>
        ELSE LET w == walk[n - 1]
                 x == IF n = 1 THEN l.head ELSE IF Len(w) < n - 1 THEN NULL ELSE l.next[w[n - 1]]
             IN IF x = NULL THEN w ELSE Append(w, x)
  IN walk[Cardinality(Entries)]

Walk == Walked(TheList)
Listed == {Walk[n] : n \in DOMAIN Walk}

\* lru_cache_destroy, which may be called when no thread uses the cache.
Destroy ==
  /\ \A t \in Threads : pc[t] = "idle"
  /\ entry' = [x \in Entries |-> IF x \in Listed THEN Freed ELSE entry[x]]
  /\ live' = live \ {entry[x].data : x \in Listed}
  /\ table' = [k \in Keys |-> NULL]
  /\ head' = NULL /\ tail' = NULL /\ num_entries' = 0 /\ current_size' = 0
  /\ pc' = [t \in Threads |-> "gone"]
  /\ UNCHANGED <<prev, next, mutex, e, held, seen, arg>>

Terminated == (\A t \in Threads : pc[t] = "gone") /\ UNCHANGED vars

Get(t) == \E k \in Keys : GetHit(t, k) \/ GetMiss(t, k)
Put(t) ==
  \/ \E k \in Keys, b \in Buffers, n \in Sizes : Load(t, k, b, n)
  \/ PutOverwrite(t) \/ PutRefused(t) \/ \E x \in Entries : PutEntry(t, x)
  \/ PutEvict(t) \/ PutInsert(t) \/ PutInsertFails(t)

Next == (\E t \in Threads : Get(t) \/ Release(t) \/ Put(t)) \/ Destroy \/ Terminated

Spec == Init /\ [][Next]_vars

-----------------------------------------------------------------------------
(* Properties.                                                             *)

TypeOK ==
  /\ table \in [Keys -> Entries \cup {NULL}]
  /\ head \in Entries \cup {NULL} /\ tail \in Entries \cup {NULL}
  /\ current_size \in Int /\ num_entries \in Nat
  /\ entry \in [Entries -> {Freed} \cup [key : Keys, data : Buffers, size : Nat,
                                        refcount : Nat, removed : BOOLEAN]]
  /\ prev \in [Entries -> Entries \cup {NULL}] /\ next \in [Entries -> Entries \cup {NULL}]
  /\ live \subseteq Buffers
  /\ mutex \in Threads \cup {NULL} /\ e \in Entries \cup {NULL}
  /\ pc \in [Threads -> {"idle", "reading", "loaded", "put", "gone"}]
  /\ held \in [Threads -> Entries \cup {NULL}] /\ seen \in [Threads -> Buffers \cup {NULL}]
  /\ arg \in [Threads -> (Keys \cup {NULL}) \X (Buffers \cup {NULL}) \X Nat]

Readers(x) == {t \in Threads : held[t] = x}

\* The threads that have a payload to put.
Callers == {t \in Threads : pc[t] = "loaded"}

\* lru_cache.h: a borrowed entry is freed by nobody before its last reader has
\* released it, whatever is evicted or put meanwhile; the counts are exact.
BorrowedLive ==
  /\ \A t \in Threads : pc[t] = "reading" => held[t] \in Allocated
  /\ \A x \in Allocated : entry[x].refcount = Cardinality(Readers(x))

\* Every entry and every payload has exactly one owner that will free it: the
\* table, the readers of a removed entry, or the put that is under way.  After
\* lru_cache_destroy there are none.
Owned ==
  /\ \A x \in Allocated \ {e} :
       IF entry[x].removed THEN Readers(x) # {} ELSE table[entry[x].key] = x
  /\ \A k \in Keys : table[k] # NULL =>
       /\ table[k] \in Allocated \ {e}
       /\ entry[table[k]].key = k /\ ~entry[table[k]].removed
  /\ \A x, y \in Allocated : entry[x].data = entry[y].data => x = y
  /\ live = {entry[x].data : x \in Allocated} \cup {arg[t][2] : t \in Callers}
  /\ (\A t \in Threads : pc[t] = "gone") => live = {}

-----------------------------------------------------------------------------
(* The inductive invariant: BorrowedLive, and what it needs of the calls   *)
(* under way, the table and the list.                                      *)

\* The entries that are in the cache: made, and not removed.
Cached == {x \in Allocated \ {e} : ~entry[x].removed}

\* Where the threads are, and the entry under way.
Calls ==
  /\ \A t \in Threads :
       /\ pc[t] = "reading" <=> held[t] # NULL
       /\ pc[t] = "put" <=> mutex = t
       /\ pc[t] \in {"loaded", "put"} => arg[t] \in Keys \X Buffers \X Sizes
  /\ mutex = NULL <=> e = NULL
  /\ mutex # NULL =>
       /\ entry[e] = [key |-> arg[mutex][1], data |-> arg[mutex][2], size |-> arg[mutex][3],
                      refcount |-> 0, removed |-> FALSE]
       /\ table[arg[mutex][1]] = NULL

\* The table holds the cached entries under their keys, as many as are counted;
\* a removed entry is there for its readers.
Indexed ==
  /\ \A k \in Keys : table[k] # NULL => table[k] \in Cached /\ entry[table[k]].key = k
  /\ \A x \in Cached : table[entry[x].key] = x
  /\ \A x \in Allocated : entry[x].removed => Readers(x) # {}
  /\ IsFiniteSet(Cached) /\ num_entries = Cardinality(Cached)

\* The list l is one of the entries C: the links of each entry and those of its
\* neighbours agree, head and tail are its ends, and other entries have no links.
Linked(l, C) ==
  /\ \A x, y \in Entries : l.next[x] = y <=> l.prev[y] = x
  /\ \A x \in Entries \ C : l.prev[x] = NULL /\ l.next[x] = NULL
  /\ \A x \in Entries : l.head = x <=> x \in C /\ l.prev[x] = NULL
  /\ \A x \in Entries : l.tail = x <=> x \in C /\ l.next[x] = NULL
  /\ l.head = NULL <=> l.tail = NULL

\* The entries C follow one another in the list l as they do in s, from its head
\* on, each once.
Chained(l, C, s) ==
  /\ s \in Seq(Entries) /\ C = {s[n] : n \in DOMAIN s}
  /\ \A m, n \in DOMAIN s : s[m] = s[n] => m = n
  /\ l.head = IF s = <<>> THEN NULL ELSE s[1]
  /\ \A n \in DOMAIN s : l.next[s[n]] = IF n = Len(s) THEN NULL ELSE s[n + 1]

\* The list l is intact, in both directions, and holds the entries C.
Intact(l, C) == Linked(l, C) /\ Chained(l, C, Walked(l))

\* A payload is that of one entry or in the hands of one caller.
Payloads ==
  /\ \A x, y \in Allocated : entry[x].data = entry[y].data => x = y
  /\ \A t \in Callers, x \in Allocated : entry[x].data # arg[t][2]
  /\ \A t, u \in Callers : arg[t][2] = arg[u][2] => t = u
  /\ live = {entry[x].data : x \in Allocated} \cup {arg[t][2] : t \in Callers}

\* The cache as a whole: no entry is lost by the table or the list, counted
\* wrongly, or kept without a reader, no payload has two owners or none, and
\* lru_cache_destroy leaves nothing.
CacheInv ==
  /\ TypeOK /\ BorrowedLive /\ Payloads
  /\ \/ /\ \A t \in Threads : pc[t] # "gone"
        /\ Calls /\ Indexed /\ Intact(TheList, Cached)
     \/ /\ \A t \in Threads : pc[t] = "gone"
        /\ Allocated = {} /\ table = [k \in Keys |-> NULL]
        /\ head = NULL /\ tail = NULL /\ num_entries = 0 /\ mutex = NULL

\* lru_cache.h:91: "The payload is guaranteed valid until release, even if the
\* entry is evicted in the meantime."
PayloadValid == \A t \in Threads : pc[t] = "reading" => seen[t] \in live
=============================================================================
