SPECIFICATION SFairSpec
CONSTANTS
  NoReactor = NoReactor
  r1 = r1
  r2 = r2
  r3 = r3
  Reactors <- ThreeReactors
  min_workers = 1
  max_workers = 3
  load_high = 1
  load_low = 1
  MaxConns = 2
  Faults <- NoPool
INVARIANTS WithinLimits ExitsClean
PROPERTIES SeenSignalStops ShrinksWhenIdle GrowsUnderLoad
