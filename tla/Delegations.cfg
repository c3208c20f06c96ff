SPECIFICATION FairSpec
CONSTANTS
  a = a
  b = b
  c = c
  d1 = d1
  d2 = d2
  d3 = d3
  d4 = d4
  None = None
  Bots = {a, b, c}
  Items = {d1, d2, d3, d4}
  From <- From1
  To <- To1
  Gated = {a}
  MaxQueued = 2
  MaxAttempts = 2
  MaxTurns = 2
  MaxUpsets = 1
  Refusable = {b}
INVARIANTS
  TypeOK
  NothingIsForgotten
  NothingIsStranded
  WatchIsOfTheRunningTurn
  HandoffsStartOnce
PROPERTIES
  RetriesCountBusyPeriods
  DispatchIsCheckedLast
  HandoffsSettle
CHECK_DEADLOCK FALSE
