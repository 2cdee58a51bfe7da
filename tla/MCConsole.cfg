SPECIFICATION ConsoleSpec
CONSTANTS
  Clients = {r1, r2}
  Tasks = {r1, r2}
  Boot = boot
  MaxKeys = 3
  Devices = {d1}
  MaxNow = 1
  Visits = {"login", "page", "logout"}
  FreeAttempts = 1
  LongestLockout = 3
  Width = 1
  MaxFailures = 2
  Slots = {github, anthropic}
  Values = {old, new}
  Nothing = nothing
  bootstrapped = github
  old = old
  Environment <- Bootstrapped
  Faults = {"store", "crash"}
  KeyFaults = {"store", "crash"}
SYMMETRY Symmetry
INVARIANTS
  KeyStands
  LoggedOutEverywhere
  SectionsTellOfOneValue
PROPERTIES
  LockoutsGrow
  IsARegister
