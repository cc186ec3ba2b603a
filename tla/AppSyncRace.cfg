SPECIFICATION ControlSpec
CONSTANTS
  a = a
  b = b
  c = c
  Reqs = {"r1", "r2"}
  Names = {a, b, c}
  DockerNames = {a, b}
  Pm2Names = {a, c}
  Fold <- CaseFold
  Oversized = {}
  SeedId <- SeedA
  Ids = {1, 2, 3, 4, 5, 6}
  PoolSize = 10
  MaxChanges = 1
  MaxFaults = 1
  Viewer = "r1"
  Target = a
INVARIANTS TypeOK RowsTraced
PROPERTIES ListedRowsKept SyncIsMerge ActsOnShown
