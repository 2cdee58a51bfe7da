SPECIFICATION GroundSpec
CONSTANTS
  Parts = {"files", "plane", "tree", "pool", "form"}
  Chats = {c1, c2, c3}
  Writers = {w1, w2}
  Calls = {k1, k2}
  Housed = {h1, h2}
  Shapes = {"none", "routes", "internal"}
  Entries = {root, e1, e2}
  Root = root
  Pooled = {p1, p2, p3}
  Stamps = {1, 2, 3}
  Caps = {0, 1, 2, 3}
  MaxText = 5
  Faults = {"full", "crash", "power"}
  TreeFaults = {"crash", "daemon", "exit", "git", "store", "adapter", "hangup"}
  DaemonFaults = {"daemon", "exit", "hand", "hangup"}
SYMMETRY Symmetry
INVARIANTS
  EveryChatReadsBack
  NamesComeBack
  WalkAgrees
  TheFormKeepsItsWord
  TheTokenGoesHome
PROPERTIES
  SpawnsOnTheBridge
  SpawnsOnItsOwnTree
