SPECIFICATION Spec
CONSTANTS
  Pulls = {p1, p2}
  Branches = {main, dev}
  MaxUp = 1
INVARIANTS TypeOK ResultIsPulled
PROPERTY WorkKept
