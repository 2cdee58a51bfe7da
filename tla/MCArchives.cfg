SPECIFICATION Spec
CONSTANTS
  Chats = {c1}
  Requests = {r1, r2, r3}
  Boot = boot
  Conns = {k1, k2, k3}
  None = none
  WarmPool = 1
  Dawn = 1
  Kinds = {"parked", "live", "archived"}
  Ops = {"prompt", "archive"}
  Faults = {"git", "plane", "exit", "adapter", "store", "hangup"}
SYMMETRY Symmetry
INVARIANTS
  NeverUnguarded
PROPERTIES
  NoSpawnUnderArchive
  NoWriteUnderArchive
