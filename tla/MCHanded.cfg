SPECIFICATION GroundSpec
CONSTANTS
  Parts = {"tree"}
  Chats = {c1, c2, c3}
  Writers = {w1, w2}
  Calls = {k1, k2}
  Housed = {h1, h2}
  Shapes = {"none", "routes", "internal"}
  Entries = {root, e1, e2, e3}
  Root = root
  Pooled = {p1}
  Stamps = {1}
  Caps = {0}
  MaxText = 5
  Faults = {"full", "crash", "power"}
  TreeFaults = {"crash", "daemon", "exit", "git", "store", "adapter"}
  DaemonFaults = {"daemon", "exit", "hand", "hangup"}
PROPERTIES
  TurnsOnItsOwnTree
