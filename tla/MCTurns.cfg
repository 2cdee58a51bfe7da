SPECIFICATION FairSpec
CONSTANTS
  Tolerance = 3
  MaxTurns = 2
  MaxSaid = 2
  MaxUnread = 1
  Ids = {3}
  Faults = {"store", "die", "hangup", "crash"}
INVARIANTS
  EndsOnItsOwnAnswer
  NothingLeftOwed
  NothingLeftBehind
  LogIsTheConversation
  ForgettingIsTold
PROPERTIES
  CallsEnd
