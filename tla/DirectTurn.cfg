SPECIFICATION Spec
CONSTANTS
  t1 = t1
  t2 = t2
  t3 = t3
  w1 = w1
  w2 = w2
  a = a
  b = b
  None = None
  Threads = {a, b}
  Turns = {t1, t2, t3}
  Words = {w1, w2}
  Behaviours = {"early", "gate", "steer"}
  MaxAsks = 0
  MaxStops = 1
  MaxStalls = 0
  MaxResumes = 1
SYMMETRY Symmetry
INVARIANTS
  TypeOK
  OneProviderTurn
  WordsAreInOnePlace
  IdleBotHasNoHeldWake
PROPERTIES
  WordsReachOneTurn
  CancelledTurnNeverSettlesBot
  StoppedBeforeDispatchNeverRuns
  ImplementsTurnQueue
CHECK_DEADLOCK FALSE
