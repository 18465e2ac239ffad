----------------------------- MODULE Dictionary -----------------------------
(***************************************************************************)
(* What hash_table.h promises: a map from keys to values, and the answer   *)
(* of every call.                                                          *)
(***************************************************************************)
CONSTANTS Keys, Values, NULL, Absent

VARIABLES
  map,           \* the value of each key, which may be NULL, or Absent
  ret            \* what the last call returned

vars == <<map, ret>>

Init == map = [k \in Keys |-> Absent] /\ ret = TRUE

Insert(k, v) == map' = [map EXCEPT ![k] = v] /\ ret' = TRUE

\* ht_insert: false on allocation failure, table unchanged.
InsertFails == UNCHANGED map /\ ret' = FALSE

Remove(k) == map' = [map EXCEPT ![k] = Absent] /\ ret' = (map[k] # Absent)

\* NULL is a value that is NULL or none at all; ht_contains tells which.
Lookup(k) == UNCHANGED map /\ ret' = IF map[k] = Absent THEN NULL ELSE map[k]

Contains(k) == UNCHANGED map /\ ret' = (map[k] # Absent)

Destroy == map' = [k \in Keys |-> Absent] /\ UNCHANGED ret

Next ==
  \/ \E k \in Keys : Remove(k) \/ Lookup(k) \/ Contains(k) \/ \E v \in Values : Insert(k, v)
  \/ InsertFails \/ Destroy

Spec == Init /\ [][Next]_vars
=============================================================================
