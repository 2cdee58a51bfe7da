SPECIFICATION FairSpec
CONSTANTS
  Chats = {c1}
  Requests = {r1, r2}
  Boot = boot
  Conns = {k1, k2, k3}
  None = none
  WarmPool = 0
  Dawn = 1
  Kinds = {"unborn", "parked", "exited", "standing"}
  Ops = {"prompt", "archive", "create"}
  Faults = {"git", "adapter", "hangup", "store", "plane"}
INVARIANTS
  TypeOK
  OneClaimant
  OneConversation
PROPERTIES
  ClaimsComeBack
  EverybodyIsAnswered
