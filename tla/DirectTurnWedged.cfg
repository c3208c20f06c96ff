SPECIFICATION WedgedSpec
CONSTANTS
  t1 = t1
  t2 = t2
  t3 = t3
  w1 = w1
  w2 = w2
  a = a
  b = b
  None = None
  Threads = {a}
  Turns = {t1, t2}
  Words = {w1}
  Behaviours = {"early", "hang", "slow"}
  MaxAsks = 0
  MaxStops = 1
  MaxStalls = 2
  MaxResumes = 1
INVARIANTS
  BusyBotHasOwner
  CapabilityHasLiveTurn
  IdleBotHasEmptyQueues
PROPERTIES
  WedgedBotBecomesIdle
CHECK_DEADLOCK FALSE
