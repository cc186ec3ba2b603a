SPECIFICATION FairSpec
CONSTANTS
  a = a
  b = b
  c = c
  Reqs = {r1, r2}
  Names = {a, b}
  DockerNames = {a}
  Pm2Names = {b}
  Fold <- ExactFold
  Oversized = {}
  SeedId <- SeedA
  Ids = {1, 2, 3, 4, 5, 6}
  PoolSize = 2
  MaxChanges = 1
  MaxFaults = 1
INVARIANT NeverStuck
PROPERTIES OnlyAbsentRemoved EveryCallAnswered Converges
