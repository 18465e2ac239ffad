---------------------------- MODULE MCThreadPool ----------------------------
(* ThreadPool with a small pool, for TLC.                                  *)
EXTENDS ThreadPool

CONSTANTS r1, r2, r3

ThreeReactors == {r1, r2, r3}
AllFaults == FaultKinds
=============================================================================
