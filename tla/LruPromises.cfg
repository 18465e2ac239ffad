SPECIFICATION Spec
CONSTANTS
  NULL = NULL
  t1 = t1
  t2 = t2
  t3 = t3
  k1 = k1
  k2 = k2
  k3 = k3
  e1 = e1
  e2 = e2
  e3 = e3
  b1 = b1
  b2 = b2
  b3 = b3
  b4 = b4
  Threads <- ThreeThreads
  Keys <- ThreeKeys
  Entries <- ThreeEntries
  Buffers <- FourBuffers
  Sizes <- OneAndThree
  max_size = 2
  max_entries = 2
  Faults <- AllFaults
SYMMETRY Renamings
INVARIANT OnePromiseKept
