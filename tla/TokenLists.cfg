SPECIFICATION FairSpec
CONSTANTS
  Calls = {c1, c2}
  Visitors = {v}
  Ids = {1}
  Apps = {a, b}
  TTL = 2
INVARIANTS TypeOK ListedIsRecent
PROPERTY DeletedIsDead
