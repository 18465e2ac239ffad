SPECIFICATION FairSpec
CONSTANTS
  NoReactor = NoReactor
  r1 = r1
  r2 = r2
  r3 = r3
  Reactors <- ThreeReactors
  min_workers = 1
  max_workers = 3
  load_high = 0
  load_low = 1
  MaxConns = 1
  Faults <- AllFaults
INVARIANTS TypeOK SlotsLive RunningOnLive NothingLeaks PoolInv
PROPERTIES DestroyReturns ImplementsElasticPool
