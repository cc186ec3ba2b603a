SPECIFICATION Spec
CONSTANTS
  a = a
  b = b
  c = c
  Reqs = {r1, r2}
  Names = {a, b}
  DockerNames = {a, b}
  Pm2Names = {a, b}
  Fold <- ExactFold
  Oversized = {}
  SeedId <- SeedA
  Ids = {1, 2, 3, 4, 5, 6}
  PoolSize = 10
  MaxChanges = 2
  MaxFaults = 0
PROPERTY GivenAppsStored
