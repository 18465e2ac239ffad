----------------------------- MODULE HashTable ------------------------------
(***************************************************************************)
(* The open-addressing table of src/src/hash_table.c: linear probing,      *)
(* tombstones, and growth by rehashing.  Calls are made one at a time (the *)
(* cache holds its mutex around them), so a call is one step, except that  *)
(* resize takes a step for each slot it moves.                             *)
(*                                                                         *)
(* A probe visits the slots from the key's home on, around the end of the  *)
(* array.  "The first slot of a kind on the probe" is the one of that kind *)
(* at the least distance from home.                                        *)
(***************************************************************************)
EXTENDS Integers, FiniteSets

CONSTANTS
  Keys, NULL,
  Values,        \* of the entries; NULL may be one
  Absent,        \* stands for the value of a key without an entry
  hash,          \* the caller's hash function
  InitialCapacity,   \* what next_power_of_two makes of the caller's wish, at least 16
  MaxCapacity    \* calloc fails for more slots than that

ASSUME TableConfig ==
  /\ NULL \notin Keys /\ Absent \notin Values
  /\ hash \in [Keys -> Nat]
  /\ InitialCapacity \in Nat /\ InitialCapacity >= 2
  /\ MaxCapacity \in Nat

HT_MAX_LOAD_NUMER == 7
HT_MAX_LOAD_DENOM == 10

VARIABLES
  capacity, slots, count, tombstones,   \* struct hash_table
  old_capacity, old_slots, i,           \* the locals of resize
  pc,            \* "idle" between calls, "rehash" in resize, "destroyed"
  arg,           \* the key and value ht_insert was called with
  ret            \* what the last call returned

table == <<capacity, slots, count, tombstones>>
old == <<old_capacity, old_slots, i>>
vars == <<table, old, pc, arg, ret>>

EmptySlot == [state |-> "EMPTY", key |-> NULL, value |-> NULL]
Tombstone == [state |-> "TOMBSTONE", key |-> NULL, value |-> NULL]
Entry(k, v) == [state |-> "USED", key |-> k, value |-> v]
calloc(n) == [s \in 0 .. n - 1 |-> EmptySlot]

\* ht_init.
Init ==
  /\ capacity = InitialCapacity
  /\ slots = calloc(InitialCapacity)
  /\ count = 0 /\ tombstones = 0
  /\ old_capacity = 0 /\ old_slots = calloc(0) /\ i = 0
  /\ pc = "idle" /\ arg = <<NULL, NULL>> /\ ret = TRUE

-----------------------------------------------------------------------------

\* The code masks the hash: capacities are powers of two, and stay so.
Home(k) == hash[k] % capacity

\* How many slots a probe that starts at home passes before it comes to s.
Distance(home, s) == IF s >= home THEN s - home ELSE s - home + capacity

\* The one of the slots S that a probe from home meets first.
First(home, S) == CHOOSE s \in S : \A t \in S : Distance(home, s) <= Distance(home, t)

Holds(s, k) == slots[s].state = "USED" /\ slots[s].key = k

\* Mutant: a deleted slot ends a probe too.
Stops_AtTombstone(k) == {s \in 0 .. capacity - 1 : slots[s].state # "USED" \/ Holds(s, k)}

\* Where a probe for k ends: at its slot or at an empty one.
Stops(k) == {s \in 0 .. capacity - 1 : slots[s].state = "EMPTY" \/ Holds(s, k)}

\* The slot that holds k, as a set of at most one.
find_key(k) ==
  IF Stops(k) # {} /\ Holds(First(Home(k), Stops(k)), k)
  THEN {First(Home(k), Stops(k))} ELSE {}

\* The first deleted slot before s on the probe for k, or s.
Reuse(k, s) ==
  LET tombs == {t \in 0 .. capacity - 1 : /\ slots[t].state = "TOMBSTONE"
                                          /\ Distance(Home(k), t) < Distance(Home(k), s)}
  IN IF tombs = {} THEN s ELSE First(Home(k), tombs)

\* A key that is there gets the value; another takes the first deleted slot
\* its probe passed, or the empty one at its end.  (The caller has seen to it that
\* there is an empty one.)
insert_no_resize(k, v) ==
  LET s == First(Home(k), Stops(k)) IN
  IF Stops(k) = {}
  THEN UNCHANGED <<slots, count>>
  ELSE /\ slots' = [slots EXCEPT ![IF Holds(s, k) THEN s ELSE Reuse(k, s)] = Entry(k, v)]
       /\ count' = IF Holds(s, k) THEN count ELSE count + 1

\* Mutant: deleted slots do not count.
Overloaded_UsedOnly == (count + 1) * HT_MAX_LOAD_DENOM > capacity * HT_MAX_LOAD_NUMER

\* The load factor at which ht_insert grows the table.
Overloaded ==
  (count + tombstones + 1) * HT_MAX_LOAD_DENOM > capacity * HT_MAX_LOAD_NUMER

\* ht_insert without a resize.
Insert(k, v) ==
  /\ pc = "idle" /\ ~Overloaded
  /\ insert_no_resize(k, v) /\ ret' = (Stops(k) # {})
  /\ UNCHANGED <<capacity, tombstones, old, pc, arg>>

\* Mutant: the loop that follows misses the first slot.
Resize_FromOne(k, v) ==
  /\ pc = "idle" /\ Overloaded /\ capacity * 2 <= MaxCapacity
  /\ old_capacity' = capacity /\ old_slots' = slots /\ i' = 1
  /\ capacity' = capacity * 2
  /\ slots' = calloc(capacity * 2)
  /\ count' = 0 /\ tombstones' = 0
  /\ pc' = "rehash" /\ arg' = <<k, v>>
  /\ UNCHANGED ret

\* ht_insert calls resize, which allocates.
Resize(k, v) ==
  /\ pc = "idle" /\ Overloaded /\ capacity * 2 <= MaxCapacity
  /\ old_capacity' = capacity /\ old_slots' = slots /\ i' = 0
  /\ capacity' = capacity * 2
  /\ slots' = calloc(capacity * 2)
  /\ count' = 0 /\ tombstones' = 0
  /\ pc' = "rehash" /\ arg' = <<k, v>>
  /\ UNCHANGED ret

\* The allocation fails, and ht_insert with it.
ResizeFails ==
  /\ pc = "idle" /\ Overloaded
  /\ ret' = FALSE
  /\ UNCHANGED <<table, old, pc, arg>>

\* resize's loop over the old slots; it does not look at the result.
Rehash ==
  /\ pc = "rehash" /\ i < old_capacity
  /\ i' = i + 1
  /\ IF old_slots[i].state = "USED"
     THEN insert_no_resize(old_slots[i].key, old_slots[i].value)
     ELSE UNCHANGED <<slots, count>>
  /\ UNCHANGED <<capacity, tombstones, old_capacity, old_slots, pc, arg, ret>>

\* resize returns, and ht_insert goes on.
InsertResized ==
  /\ pc = "rehash" /\ i = old_capacity
  /\ insert_no_resize(arg[1], arg[2]) /\ ret' = (Stops(arg[1]) # {})
  /\ old_capacity' = 0 /\ old_slots' = calloc(0) /\ i' = 0
  /\ pc' = "idle" /\ arg' = <<NULL, NULL>>
  /\ UNCHANGED <<capacity, tombstones>>

ht_lookup(k) ==
  /\ pc = "idle"
  /\ \/ find_key(k) = {} /\ ret' = NULL
     \/ \E s \in find_key(k) : ret' = slots[s].value
  /\ UNCHANGED <<table, old, pc, arg>>

ht_contains(k) ==
  /\ pc = "idle"
  /\ ret' = (find_key(k) # {})
  /\ UNCHANGED <<table, old, pc, arg>>

\* Mutant: the slot is emptied, which ends the probes that pass it.
ht_remove_Empties(k) ==
  /\ pc = "idle"
  /\ \/ find_key(k) = {} /\ ret' = FALSE /\ UNCHANGED <<slots, count, tombstones>>
     \/ \E s \in find_key(k) :
          /\ slots' = [slots EXCEPT ![s] = EmptySlot]
          /\ count' = count - 1 /\ UNCHANGED tombstones
          /\ ret' = TRUE
  /\ UNCHANGED <<capacity, old, pc, arg>>

ht_remove(k) ==
  /\ pc = "idle"
  /\ \/ find_key(k) = {} /\ ret' = FALSE /\ UNCHANGED <<slots, count, tombstones>>
     \/ \E s \in find_key(k) :
          /\ slots' = [slots EXCEPT ![s] = Tombstone]
          /\ count' = count - 1 /\ tombstones' = tombstones + 1
          /\ ret' = TRUE
  /\ UNCHANGED <<capacity, old, pc, arg>>

ht_destroy ==
  /\ pc = "idle" /\ pc' = "destroyed"
  /\ capacity' = 0 /\ slots' = calloc(0) /\ count' = 0 /\ tombstones' = 0
  /\ UNCHANGED <<old, arg, ret>>

Terminated == pc = "destroyed" /\ UNCHANGED vars

Next ==
  \/ \E k \in Keys : \/ ht_lookup(k) \/ ht_contains(k) \/ ht_remove(k)
                      \/ \E v \in Values : Insert(k, v) \/ Resize(k, v)
  \/ ResizeFails \/ Rehash \/ InsertResized \/ ht_destroy \/ Terminated

Spec == Init /\ [][Next]_vars

-----------------------------------------------------------------------------
(* Properties.                                                             *)

Slot == {EmptySlot, Tombstone} \cup {Entry(k, v) : k \in Keys, v \in Values}

TypeOK ==
  /\ pc \in {"idle", "rehash", "destroyed"}
  /\ capacity \in Nat /\ (pc # "destroyed" => capacity >= 2)
  /\ slots \in [0 .. capacity - 1 -> Slot]
  /\ count \in Nat /\ tombstones \in Nat
  /\ old_capacity \in Nat /\ old_slots \in [0 .. old_capacity - 1 -> Slot]
  /\ i \in 0 .. old_capacity
  /\ arg \in IF pc = "rehash" THEN Keys \X Values ELSE {<<NULL, NULL>>}
  /\ ret \in BOOLEAN \cup Values \cup {NULL}

Used == {s \in 0 .. capacity - 1 : slots[s].state = "USED"}
Deleted == {s \in 0 .. capacity - 1 : slots[s].state = "TOMBSTONE"}
OldUsed == {s \in 0 .. old_capacity - 1 : old_slots[s].state = "USED"}

\* No key is in two slots.
Unique == \A s, t \in Used : slots[s].key = slots[t].key => s = t

\* Deletion and reuse never cut a probe short: from the home of a key to its
\* slot no slot is empty.
Reachable ==
  \A s \in Used, t \in 0 .. capacity - 1 :
    Distance(Home(slots[s].key), t) < Distance(Home(slots[s].key), s)
      => slots[t].state # "EMPTY"

\* ht_size is the number of entries, and the load that triggers growth counts
\* every slot that is not empty, so that there are empty ones: the loops over
\* the probe end and the "logically-impossible full table" is impossible.  The
\* counter tombstones is only an upper bound of the deleted slots: hash_table.h:51
\* has it count those "not yet reclaimed", but an insertion that takes one does not
\* count it down, so the table may grow early, never late.
Counted ==
  /\ count = Cardinality(Used) /\ Cardinality(Deleted) <= tombstones
  /\ pc = "idle" => (count + tombstones) * HT_MAX_LOAD_DENOM <= capacity * HT_MAX_LOAD_NUMER

\* What resize has moved so far is what the new table holds, and the rest and
\* the new key will fit.
Rehashed ==
  /\ pc # "rehash" => old_capacity = 0
  /\ pc = "rehash" =>
       /\ tombstones = 0 /\ Deleted = {}
       /\ (Cardinality(OldUsed) + 1) * HT_MAX_LOAD_DENOM <= capacity * HT_MAX_LOAD_NUMER
       /\ count <= Cardinality({s \in OldUsed : s < i})
       /\ \A s, t \in OldUsed : old_slots[s].key = old_slots[t].key => s = t
       /\ \A s \in Used : \E t \in OldUsed : t < i /\ slots[s] = old_slots[t]
       /\ \A t \in OldUsed : t < i => \E s \in Used : slots[s] = old_slots[t]

\* The invariant behind all of these: each needs the others to survive a step.
TableInv == TypeOK /\ Unique /\ Reachable /\ Counted /\ Rehashed

\* The value of each key in an array of slots.
Contents(n, array) ==
  [k \in Keys |-> IF \E s \in 0 .. n - 1 : array[s].state = "USED" /\ array[s].key = k
                  THEN array[CHOOSE s \in 0 .. n - 1 : array[s].state = "USED" /\ array[s].key = k].value
                  ELSE Absent]

\* The map a table stands for; while resize moves entries the old array holds it.
Map == IF pc = "rehash" THEN Contents(old_capacity, old_slots) ELSE Contents(capacity, slots)

Abstract == INSTANCE Dictionary WITH map <- Map

\* hash_table.h: with all its probing, deleting and moving the table is a map
\* that changes by the key of the call alone, and every call answers from it;
\* ht_contains tells a value that is NULL from none.
ImplementsDictionary == Abstract!Spec
=============================================================================
