------------------------------ MODULE MCServer ------------------------------
(* Server with small pools, for TLC.                                       *)
EXTENDS Server

CONSTANTS r1, r2, r3

TwoReactors == {r1, r2}
ThreeReactors == {r1, r2, r3}
NoFaults == {}
\* The failure that leaves no pool: any other may keep it from following the load.
NoPool == {"alloc"}
=============================================================================
