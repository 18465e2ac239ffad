SPECIFICATION Spec
CONSTANTS
  NULL = NULL
  Absent = Absent
  k1 = k1
  k2 = k2
  k3 = k3
  v1 = v1
  Keys <- ThreeKeys
  Values <- TwoValues
  hash <- Colliding
  InitialCapacity = 4
  MaxCapacity = 16
INVARIANTS TableInv Reachable Counted
PROPERTY ImplementsDictionary
