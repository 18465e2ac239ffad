---------------------------- MODULE RecencyCache ----------------------------
(***************************************************************************)
(* What lru_cache.h promises of the cache as a policy: the entries in the  *)
(* order of their last use, never more of them or of their bytes than the  *)
(* limits allow; the least recent goes when room is needed for a new one,  *)
(* and only then.                                                          *)
(***************************************************************************)
EXTENDS Integers, Sequences

CONSTANTS Keys, Sizes, NULL, max_size, max_entries

VARIABLES
  order,         \* <<key, size>> of every entry, most recently used first
  want           \* the <<key, size>> that room is being made for, or NULL

vars == <<order, want>>

Init == order = <<>> /\ want = NULL

\* The bytes of the entries o.
Bytes(o) ==
  LET sum[n \in 0 .. Len(o)] == IF n = 0 THEN 0 ELSE sum[n - 1] + o[n][2]
  IN sum[Len(o)]

\* The entries o without the one at n.
Without(o, n) == [m \in 1 .. Len(o) - 1 |-> o[IF m < n THEN m ELSE m + 1]]

IsAt(k, n) == order[n][1] = k

NeedsRoom == Len(order) >= max_entries \/ Bytes(order) + want[2] > max_size

\* A lookup that hits makes the entry the most recent.
Use(k) ==
  /\ \E n \in 1 .. Len(order) : IsAt(k, n) /\ order' = <<order[n]>> \o Without(order, n)
  /\ UNCHANGED want

\* A cached key gets a new payload, which fits.
Replace(k, size) ==
  /\ want = NULL
  /\ \E n \in 1 .. Len(order) : IsAt(k, n) /\ order' = <<<<k, size>>>> \o Without(order, n)
  /\ Bytes(order') <= max_size
  /\ UNCHANGED want

\* A key that is not cached is to be stored.
MakeRoom(k, size) ==
  /\ want = NULL /\ (\A n \in 1 .. Len(order) : ~IsAt(k, n)) /\ size <= max_size
  /\ want' = <<k, size>>
  /\ UNCHANGED order

Evict ==
  /\ want # NULL /\ order # <<>> /\ NeedsRoom
  /\ order' = Without(order, Len(order))
  /\ UNCHANGED want

Store ==
  /\ want # NULL /\ ~NeedsRoom
  /\ order' = <<want>> \o order
  /\ want' = NULL

\* No memory after all.
GiveUp == want # NULL /\ want' = NULL /\ UNCHANGED order

Clear == want = NULL /\ order' = <<>> /\ UNCHANGED want

Next ==
  \/ \E k \in Keys : Use(k) \/ \E size \in Sizes : Replace(k, size) \/ MakeRoom(k, size)
  \/ Evict \/ Store \/ GiveUp \/ Clear

Spec == Init /\ [][Next]_vars
=============================================================================
