SPECIFICATION PageSpec
CONSTANTS
  Writers = {w1, w2}
  Payloads <- LogPayloads
  MaxEvents = 3
  Chats = {c1, c2}
  MaxMoves = 3
  MaxAtoms = 4
  Faults = {"full", "crash"}
  SurveyFaults = {"daemon", "garble"}
SYMMETRY Symmetry
INVARIANTS
  PageReadsTheLog
  NothingUnsaid
  WhatIsReadStays
  ShownWasTrue
  MarkingKeepsTheText
