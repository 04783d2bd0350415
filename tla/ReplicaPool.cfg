CONSTANTS
  p = p  r1 = r1  r2 = r2
  Junk = Junk
  Addrs = {p, r1, r2}
  Configs <- Files
  Slots = {1, 2}
  MaxReloads = 1
  MaxFlips = 2
SPECIFICATION FairPoolSpec
INVARIANTS PoolConsistent
PROPERTIES PrimaryIsLastResort RoundRobin HealthConverges
