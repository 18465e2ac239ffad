---------------------------- MODULE MCHashTable -----------------------------
(* HashTable with few keys that collide, for TLC.                          *)
EXTENDS HashTable, TLC

CONSTANTS k1, k2, k3, v1

ThreeKeys == {k1, k2, k3}
TwoValues == {v1, NULL}

\* Two keys with the last slot of a small array as home, and one with the
\* first: their probes run into each other around the end.
Colliding == k1 :> 3 @@ k2 :> 3 @@ k3 :> 0
=============================================================================
