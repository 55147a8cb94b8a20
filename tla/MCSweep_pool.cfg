\* Two sweeps that may overlap, of two addresses that are candidates twice,
\* with two slots each; one of them is up at first, and one change of that.
SPECIFICATION MCSpec
CONSTANTS
  IPNet <- MCIPNet
  REDES_EXTRAS <- MCREDES_EXTRAS
  MaxRange <- MCMaxRange
  maxProbes = 2
  MinProbes = 3
  Sweeper = {loop, h}
  MaxSweeps = 2
  MaxChanges = 1
INVARIANTS
  TypeOK
  NothingLost
  HealthFollowsHistory
PROPERTIES
  SweepEnds
CHECK_DEADLOCK FALSE
