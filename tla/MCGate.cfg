SPECIFICATION Spec
CONSTANTS
  Gates = {g1}
  Trees = {0, 1}
  MaxCommits = 3
  MaxStamp = 3
  Faults = {"git", "refused", "answer", "fetch", "store", "hangup", "crash"}
CONSTRAINT
  Followed
INVARIANTS
  NothingLost
  NothingMintedTwice
PROPERTIES
  RolledBack
  ManifestLeadsToWork
