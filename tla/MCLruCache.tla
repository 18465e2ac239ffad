----------------------------- MODULE MCLruCache -----------------------------
(* LruCache with three threads and few keys, for TLC.                        *)
EXTENDS LruPolicy, TLC

CONSTANTS t1, t2, t3, k1, k2, k3, e1, e2, e3, b1, b2, b3, b4

ThreeThreads == {t1, t2, t3}
ThreeKeys == {k1, k2, k3}
ThreeEntries == {e1, e2, e3}
FourBuffers == {b1, b2, b3, b4}
\* One that fits twice, and one that does not fit at all.
OneAndThree == {1, 3}
AllFaults == {"oom"}

Renamings ==
  Permutations(Threads) \cup Permutations(Keys) \cup Permutations(Entries)
    \cup Permutations(Buffers)
=============================================================================
