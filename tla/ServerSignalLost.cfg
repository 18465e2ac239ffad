SPECIFICATION SFairSpec
CONSTANTS
  NoReactor = NoReactor
  r1 = r1
  r2 = r2
  r3 = r3
  Reactors <- TwoReactors
  min_workers = 1
  max_workers = 2
  load_high = 1
  load_low = 1
  MaxConns = 1
  Faults <- NoFaults
PROPERTY SignalStops
