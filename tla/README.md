# A TLA+ development for httpServer

The repository is a multi-threaded static-file HTTP/1.1 server in C: a pool of
worker threads, each running one edge-triggered epoll reactor on a shared port
(`SO_REUSEPORT`), scaled by a monitor thread and shut down by a signal, with an
incremental request parser, and an LRU cache over a hash table that the server
does not call yet.  This directory models these parts in TLA+, checks the models
with TLC and proves the main results about them with TLAPS.

## The parts

| part | source | modules |
|---|---|---|
| worker pool: `pool_create`, the monitor, `pool_destroy` | `src/thread_pool.c` | `ThreadPool`, `ElasticPool` (abstract), `ServerProofs` |
| entry point: signal handler, `pause` loop, shutdown | `src/main.c` | `Server` (over `ThreadPool`), `ServerProofs` |
| reactor: lifecycle, event loop, accept, read, respond, write, `sendfile`, keep-alive and pipelining | `src/reactor.c` | `Reactor`, `ReactorInvariant`, `ReactorSteps`, `ReactorEventProofs`, `ReactorStreamProofs`, `ReactorProofs` |
| HTTP parser | `src/http_parser.c` | `HttpParser`, `HttpGrammar` (reference definition), `HttpParserProofs` |
| LRU cache: borrowed entries under a mutex | `src/lru_cache.c` | `LruCache`, `LruPolicy`, `RecencyCache` (abstract), `LruCacheProofs` |
| hash table: open addressing | `src/hash_table.c` | `HashTable`, `Dictionary` (abstract), `HashTableProofs` |
| configuration, logger | `src/config.c`, `src/logger.c` | not modelled, see the end |

`main` creates the pool and sleeps.  The pool's monitor and `pool_destroy` call
the reactors' lifecycle (`reactor_create`, `reactor_stop`, `reactor_destroy`) and
read their connection counters.  Each worker thread is inside `reactor_run`,
which feeds the parser and answers from the file system.  The cache calls the
hash table with its mutex held.

`MCServer`, `MCThreadPool`, `MCReactor`, `MCHttpParser`, `MCLruCache` and
`MCHashTable` give TLC small sets for the constants.  Definitions named
`X_Suffix` are mutants of `X`: small faults put into the model to see that the
property meant to catch them does.

## How the modules correspond to the code

**ThreadPool.**  Two threads change the pool, `main` (in `pool_create` and
`pool_destroy`) and `monitor`; `pc` says where each is, and a step is one
operation that another thread can observe: one load of a connection counter, one
call into a reactor, one thread creation or join, one critical section without
such a call.  `workers`, `num_workers`, `stop` and `lock` are the fields of
`struct thread_pool`; `i` and `total` are the locals of the loops.  A reactor is
seen through its interface: `allocated` (it exists), `thread` (its worker
thread), `wakeup` (its eventfd was written), `conns` (its counter, which the
worker changes at any time).  Every call that can fail may fail, as far as
`Faults` allows: the allocations of `pool_create` and the choice of a port
(`alloc`), `reactor_create` (`reactor`), `pthread_create` of a worker (`thread`)
or of the monitor (`monitor`), and `reactor_run` returning by itself (`worker`).
A `pthread_join` of a monitor that was never created is undefined; the model lets
it do nothing or end the process.

**ElasticPool** is what the pool promises: a set of reactors in service that
changes by one at a time, within the limits of the configuration while the pool
is up.  `ThreadPool!ImplementsElasticPool` maps the slots to that set.

**Server** puts `main.c` around `ThreadPool`.  The signal handler runs in any
thread of the process, `pause()` returns only when it ran in the main thread, and
between the test of `g_shutdown` and the call of `pause()` there is a step.

**Reactor** takes one system call per step, with the kernel around it: the
descriptor table (`accept` and `open` give the lowest free number, and numbers
are used again), edge-triggered epoll (`interest` and the ready list `edge`; a
registration polls, a report takes the socket off the list), TCP (bytes on their
way, send buffers of `SNDBUF` units, FIN, RST, and the SIGPIPE of a write after an
RST).  Every call that can fail may fail, as far as `Faults` allows: those of
`reactor_create` (`create`; of the two `epoll_ctl` whose result it does not look at,
a failure leaves `polled` without the descriptor), `reactor_run`'s own (`run`),
allocation and `epoll_ctl` for a client (`oom`), and `accept`, `read`, `write` and
`sendfile` for no reason of the client's (`io`).  A client's stream is a sequence of
tokens: `"part"` for bytes that complete nothing, and one token for each way a
request can end (GET of a file, of an empty file, HEAD, a request answered without a
file, a GET that ends the connection, a malformed request).  A head is `HeadLen` units, a file `FileLen`.
Header text, MIME types and paths are left out.  `stray`, `failed` and `answered`
record history for the properties.  **ReactorInvariant** states what holds between
any two system calls of the loop, in the three layers that the proofs need.

**HttpParser** has one action for each state of `http_parser_feed`, on one byte.
A stream is a sequence of units: the bytes the machine tells apart (`SP` is a
space or a tab, `CR`, `LF`, `:`, `?`) and words, each of which stands for its text
and counts as one byte of it.  A cursor is the length of the text written through
it.  Between two requests of a connection the reactor binds the same parser to
the same request (`Reuse`); `http_parse_request` feeds a buffer and returns
(`caller` is `"once"`).  `start` and `kept` remember where the current request
began and how many header rows were there before it.  Nothing compares
`num_headers` with `MAX_HEADERS`, and a header line may reach two bytes behind its
row.  Inside the array those are bytes of the next row, which the next line
overwrites.  A write behind the array changes `num_headers` and what follows it;
there `status` becomes `"UNDEFINED"` and the model follows the connection no
further.

**HttpGrammar** says of a whole request at once, by cutting it into lines and the
lines at blanks, `?` and colons, whether it has the form of one (`Request`), whether
it is one that `server.h` does not call malformed (`Proper`: also the method is a
token, each header fits its row, and HTTP/1.1 has a Host line) and what its parts
are.  It shares no state machine with the parser.  `AcceptsRequests` and
`RejectsOnlyHopeless` compare the parser with it: what is proper is accepted, what
is accepted has the form.  Between the two the comments and the code disagree,
which is what `parser_promises` shows.

**HashTable** takes a call per step, and a step per slot in `resize`.  A probe is
stated by distances: "the first slot of a kind" is the one of that kind nearest
to the key's home, around the end of the array.  Allocation fails above
`MaxCapacity`, and may fail at any time.  **Dictionary** is a map with the answer
of every call.  `NULL` is a value like any other, so `ht_lookup` does not tell a key
that has it from one that is absent, and `ht_contains` does.

**LruCache** is used by any number of threads.  A call is a step under the mutex,
except that `lru_cache_put` takes a step for each eviction.  `table` is a map (that
the table is one is `ImplementsDictionary`); the list is the pointers `head`,
`tail`, `prev`, `next`; entries and payloads are addresses that are used again
after they are freed.  A thread keeps what it has borrowed in `held`, and the
payload it saw in `seen`.  **LruPolicy** walks the list and maps it to
**RecencyCache**, the policy of `lru_cache.h`: the keys and sizes of the entries by
recency, never more than the limits allow, of which the last goes when there is no
room.  The code does not implement it: an overwrite may exceed `max_size`.
`FollowsRecencyCache` says that every step is one of the policy but those that
`Overfills` names, which are such an overwrite and an insertion into a cache with
`max_entries` 0.

## Runs

| run | checks | shows |
|---|---|---|
| `pool_faults` | `TypeOK`, `SlotsLive`, `RunningOnLive`, `NothingLeaks`, `PoolInv`, `DestroyReturns`, `ImplementsElasticPool` | with every call failing that can: no slot holds a destroyed reactor or one twice, no thread outlives its reactor, nothing leaks, `pool_destroy` returns |
| `server_shutdown` | `WithinLimits`, `ExitsClean`, `SeenSignalStops`, `ShrinksWhenIdle`, `GrowsUnderLoad` | with signals at any time: the pool stays within its limits and follows the load, and the process exits with all threads joined once `main` has seen a signal |
| `reactor_pipeline` | `TypeOK`, `LoopInv`, `InOrder`, `Complete`, `NoLostEdge`, `EventsFit`, `NoLeak`, `Answers`, `StopReturns` | one client, every kind of pipelined and cut request, `reactor_create` failing anywhere: answers are whole and in order, no edge is lost, every complete request is answered if epoll watches the listening socket, and the loop stops if epoll watches the eventfd |
| `reactor_pair` | `LoopInv` (which contains `InOrder`), `Complete`, `NoLostEdge`, `EventsFit`, `NoLeak` | two clients whose events share a batch and whose descriptors are used again, with all faults of a running reactor |
| `http_parser` | `ParserInv`, `StoresFit`, `HostRequired`, `AcceptsRequests`, `RejectsOnlyHopeless` | a proper request is accepted with its last byte and nothing without the form of a request, with every part that fits in its field; only what nothing could make proper is rejected; every text stays in its array up to the first write behind the header array |
| `hash_table` | `TableInv`, `Reachable`, `Counted`, `ImplementsDictionary` | colliding keys around the end of the array, deletions, growth and its failure, NULL as a value: the table is a map |
| `lru_cache` | `CacheInv`, `Consistent`, `BorrowedLive`, `Owned`, `FollowsRecencyCache` | three threads, evictions under readers and failed allocations: table, list and counters agree, no entry is freed under a reader, everything has one owner, and every step but an overwrite that is too large is one of the policy |

The others show a disagreement between the code and what it says of itself; each
is expected to fail, with the shortest history that shows it:

| run | property | what happens |
|---|---|---|
| `server_signal_lost` | `SignalStops` | a signal handled in another thread, or just before `pause()`, leaves `main` asleep |
| `reactor_stray_close` | `ClosesOwn` | `file_fd` is 0 until the first response, so closing an unanswered connection closes descriptor 0 |
| `reactor_truncated` | `StopReturns` | a file that shrinks while it is sent makes `sendfile` return 0 for ever |
| `lru_promises` | `OnePromiseKept` | a put on a cached key frees the payload a reader still uses, which the header says is valid until release, and stores one that is larger than `max_size`, which the header says is never exceeded |
| `parser_promises` | `SomePromiseKept` | on one connection each of six promises is broken at some byte, see below |

Two of these properties are disjunctions of promises, and one history refutes every
disjunct.  `OnePromiseKept` is `PayloadValid \/ WithinCapacity`.  `SomePromiseKept`
says that of the following one is kept throughout a connection:

- `ArrayKept` and `RowKept`: no header line is written behind the header array or
  its row (`http_parser.c` lines 6-7);
- `TokensOnly`, `RejectsOversized` and `HostAlways`: no request with a method that
  is no token, with a header line too long for its row, or of HTTP/1.1 without a Host
  line is accepted (`server.h` lines 148-150; the last fails where the blank line
  is a bare LF);
- `KeepAliveOwn`: the request is zeroed before it is parsed into (`server.h` line
  138), so that no `Connection` line of an earlier request decides `keep_alive`.

Four behaviours are in the models without a run of their own:

- `retire_idle_worker` reads a counter and stops the reactor later; a connection
  accepted in between is closed with the worker (`WorkerAccept` between
  `RetireScan` and the stop).
- `pool_create` returns a pool with fewer than `min_workers` workers, or none, when
  `spawn_worker` fails.
- A write to a connection the client has reset raises SIGPIPE, which nothing
  handles (`WriteKills` ends the process; to `ExitsClean` that is no exit).
- `reactor_create` does not look at whether epoll has taken the eventfd and the
  listening socket.  Without the first `reactor_stop` wakes nobody, without the
  second no client is answered (`Adds`; `StopReturns` and `Answers` are about a
  reactor that was registered).

The properties of `Reactor` that are about a correct descriptor table are stated
up to the first stray close (`~stray`): after it, descriptor 0 may be anything.
Those about a single connection leave out a client whose answer, registration
or connection was lost to a failed call (`failed`), and only that client.  The
properties of the parser that passing runs check are stated for what the code does
keep: `HostRequired` leaves out a blank line that is a bare LF, and `StoresFit` allows
a header line without a value the two bytes behind its row.

### Bounds

- Pool and server: three slots are the least in which a swap on retirement can
  meet a third worker.  `main` sets `load_high` to four connections a worker and
  `load_low` to 1.  In `server_shutdown`, `load_high` 1 and two connections a worker
  tell "none", "between the watermarks" and "above"; of the failures only those of
  `pool_create` are there, because the others may keep the pool from following the
  load.  In `pool_faults`, `load_high` 0 makes the pool grow at the first
  connection, so `MaxConns` 1 is enough.
- Reactor: three tokens are a request, one pipelined behind it and bytes cut off
  after it; `BUFFER_SIZE` 2 makes such a stream need two reads, and `HeadLen` 2
  with `SNDBUF` 2 lets a head, a file and the next head each be cut by a full
  buffer.  `MaxFd` and `CONN_MAX` are so small that descriptors run out and
  `accept` gives numbers that are too high.  `MAX_EVENTS` is
  below the number of events that can be ready at once.  The connections of
  `reactor_pair` carry one request each, after which the server closes them, so that
  numbers are used again while the batch goes on; a failure at a later request of a
  connection is left to the theorems.
- Parser: eight requests, everything one unit away from one of them and two units
  away from the shortest, and up to three requests on a connection.  The arrays
  are of 2 to 6 units, so every limit is met, passed and missed by one, the number of
  header rows (3) among them.
- Hash table: two keys whose home is the last slot of the smallest array and one
  whose home is the first.  The array starts with 4 slots (16 in the code) and grows
  to 16.  The values are a pointer and `NULL`.  Deleted slots count as load, so puts and
  removals of one key make it grow.
- Cache: three threads, three keys, room for two entries, and a payload that is
  too large.  The three entries include one removed but still borrowed.

The counters are bounded by these constants; no state constraint is used.
Symmetry is used where only invariants, or a refinement that treats the permuted
values alike, are checked.

### Fairness

In the pool every thread that can step does.  The lock is free for a tune interval
between two tunings, which is why `pool_destroy`'s wait for it is strongly fair.
A worker whose eventfd was written leaves its loop; that every handler of the loop
returns is `Reactor`'s `StopReturns`, and `reactor_truncated` shows the case in
which it does not hold.  There, or when epoll does not watch the eventfd, the
monitor may wait for a worker with the lock held and `pool_destroy` does not
return; `DestroyReturns` says that nothing else keeps it.  In the reactor the
thread steps when it can, and a client that has output to read reads it; no client
has to send, and nothing has to stop the reactor.  In `parser_promises` the
connection goes on while it can, because what a client has sent is read and
answered (`Answers`).  Otherwise parser, table and cache are checked for safety
only: their calls end because their loops do, which for the table's probes is
`Counted`.

## Proofs

Each result holds for every value of the constants that satisfies the named
assumptions of its module.  `PoolConfig`, `PoolBounds`, `ReactorBounds`,
`ParserBounds`, `TableConfig` and `CacheConfig` state what the code validates or its
constants satisfy (a buffer holds at least one byte, a header row at least four, an
array of slots at least two), that the addresses of the heap are finitely many, and that the model's
special values are distinct from the others (so does `NoConnIsNull`).  TLC evaluates
them in the runs.

**Pool** (`ServerProofs`): `PoolInvariant` is `Spec => []PoolInv`; from it
`PoolTypes`, `PoolSlotsLive`, `PoolRunningOnLive`, `PoolNothingLeaks` and
`PoolWithinLimits`.  `SlotsLive` and its companions are not inductive.  `PoolInv`
adds where each thread holds the lock and that the monitor exists only between
its creation and its join (`LockInv`), how far retirement and destruction have
come (`PhaseInv`), which reactors exist in terms of slots and a spawn under way
(`SlotInv`), which threads do (`ThreadInv`), and that without failures
`pool_create` adds one worker an iteration (`LimitsInv`).  The swap on retirement
is the step that needs the distinctness of slots.

**Refinement and server** (same module): `PoolImplementsElasticPool` shows that
each action of the pool is a step of `ElasticPool` or a stutter; it needs the
number of reactors in the slots to be `num_workers` (`PoolSize`).
`ServerRunsPool` (`SSpec => Spec`) shows that `main` with its signals only drives
the pool as the pool allows, so that all the theorems above hold in the server.
`ServerExitsClean` combines them: when `main` has returned from `pool_destroy`, or
from a `pool_create` that failed, `PoolInv` leaves no reactor and no thread, and
no later step brings one back.

**Parser** (`HttpParserProofs`): `ParserInvariant`, `ParserStoresFit` and
`ParserHostRequired`, for arrays of any size, any streams and any number of header
lines and requests on a connection, up to the first write behind the header array.
That write is in the model and is not assumed away: the theorems say that before
it nothing outgrows its array but a header line without a value, by two bytes.
`ParserInv` adds to `StoresFit` and `HostRequired` that
the row being written fits, that `host_seen` is about a header line of this
request (a row of its own, or the line under way), and that a line begins behind
an LF, from which the form of the blank line follows.

**Hash table** (`HashTableProofs`): `TableInvariant`,
`TableReachable`, `TableCounted` and `TableImplementsDictionary`, for every hash
function, key set and initial capacity of at least 2.  `TableInv` is `Unique`,
`Reachable`, `Counted` and, during `resize`, `Rehashed`; each needs the others.
The load factor gives an empty slot (`EmptyExists`), an empty slot ends every
probe, and with `Reachable` a probe finds its key if it is there (`ProbeFinds`),
so that `insert_no_resize` never makes a second slot for a key.

**Cache** (`LruCacheProofs`): `CacheInvariant`, `CacheBorrowedLive`, `CacheOwned`,
`CacheConsistent` and `CacheFollowsPolicy`, for any number of threads, keys,
entries, payloads and sizes.  `CacheInv` adds to `BorrowedLive` where the calls
under way are (`Calls`), that the table holds exactly the cached entries
(`Indexed`), that a payload belongs to one entry or one caller (`Payloads`), and
that the list is intact (`Intact`): the links of neighbours agree (`Linked`), and the
entries that a walk from `head` finds are the cached ones, each once (`Chained`).
`Linked` alone is not enough: it also holds of a list with a detached cycle, whose
entries `lru_cache_destroy` would never free.  The argument treats the list as a
sequence.  `Follows` says that the links agree with a sequence; `list_push_front`,
`list_unlink` and `list_move_front` prefix it, take an element out, or both
(`PushFollows`, `UnlinkFollows`, `MoveFollows`); and the walk returns the sequence
that the links follow (`WalkIs`).  For the policy, what is in front, what is taken
out and the sum of the sizes are followed through the same three operations
(`OrderMoved`, `OrderEvicted`, `OrderInserted`, with `BytesPushed` and
`BytesWithout`).  So `current_size` is the sum of the list (`Weighed`), which with
`CacheInv` is inductive, gives `Consistent`, and makes every step of the cache a
step of `RecencyCache`, a stutter, or one of the two that `Overfills` names.  That an
insertion is one of the policy rests on the eviction loop: it ends with room for the
new entry or with an empty list, and an empty list has room for an entry that is not
larger than the cache (`FitsKept`) unless `max_entries` is 0.

**Reactor** (`ReactorSteps`, `ReactorEventProofs`, `ReactorStreamProofs`,
`ReactorProofs`): `ReactorTypes`, `ReactorNoLeak`, `ReactorEventsFit`,
`ReactorNoLostEdge`, `ReactorInOrder` and `ReactorComplete`, for any number of
clients and descriptors, any streams and any sizes of buffers, heads and files.
They follow from `LoopInv`, which is proved in three layers, each of which uses
those before it:

- `TableInv` (`ReactorTableInvariant`) needs no other: the types and the bounds of
  all offsets, one descriptor for a socket, what the listen queue and epoll say of a
  client, and that a handler has a connection to work on.
- `EventInv` (`ReactorEventInvariant`) is about descriptors and events.  `Hands`
  says that each descriptor belongs to one connection and `active_conns` counts
  them.  `Events` says that a connection between two events waits for exactly what
  epoll watches, and that what has happened to it is on the ready list or in the
  batch (`Settled`), and that an event of the batch still fits its connection
  (`Pending`).  The second is not inductive without the first: an event fits
  because a connection is closed only while its own event is handled, of which the
  batch has one, so that no number in the rest of the batch changes hands.  `NoLeak`, `EventsFit` and
  `NoLostEdge` follow.
- `StreamInv` is about bytes.  The buffer holds the last bytes read of the stream
  (`Buffered`).  A connection either has sent all it promised and has found a request
  or knows that there is none (`Awaits`), or is sending its last response, of which
  exactly as much is out as its offsets say (`Sends`).  `InOrder` alone is not
  inductive, because what the next write adds depends on these offsets.  `InOrder`
  and `Complete` follow.

The last two layers hold up to the first stray close, like the properties.

### Only model-checked

- Liveness (`SeenSignalStops`, `DestroyReturns`, `GrowsUnderLoad`, `ShrinksWhenIdle`,
  `Answers`, `StopReturns`), because the prover does not do fairness.
- The comparison of the parser with its grammar (`AcceptsRequests`,
  `RejectsOnlyHopeless`).  The grammar cuts a whole request into lines and words with
  the sorting, searching and filtering operators of the sequence library.  A proof
  would need what each of them returns for a sequence of any length, by induction on
  it, and the provers cannot instantiate the library's induction theorems.  (The walk
  along the cache's list and the sum of its sizes are recursive functions, small
  enough that an explicit solution and a least counterexample take the place of
  induction.)

All other invariants, the two refinements and `FollowsRecencyCache`, which the
passing runs check, are also proved.

## Not modelled

- `config.c` reads lines of text into numbers, which it replaces by defaults
  outside their ranges, and names, which it cuts.  It runs once, before there is
  another thread.  What depends on it is the number of workers, and the theorems
  about the pool hold for every number.
- `logger.c` formats lines and writes them under a mutex.  Only `main` calls it, so
  nothing contends, and nothing reads what it writes.
- In the reactor: the text of heads, MIME types, and the mapping of a request path
  to a file.  They choose which kind of response is built, which the model takes
  from the token.
- In the parser: what happens after a write behind the header array.
- In the cache: the statistics counters and the functions that only read them.
- In the hash table: the comparison and the copying of keys, which are values
  here.
