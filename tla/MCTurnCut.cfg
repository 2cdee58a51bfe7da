SPECIFICATION Spec
CONSTANTS
  Chats = {c1, c2}
  Requests = {r1, r2}
  Boot = boot
  Conns = {k1, k2, k3}
  None = none
  WarmPool = 1
  Dawn = 2
  Kinds = {"parked", "live"}
  Ops = {"prompt"}
  Faults = {}
PROPERTIES
  TurnKeepsItsContainer
