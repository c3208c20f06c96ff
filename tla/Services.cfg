SPECIFICATION ServicesSpec
CONSTANTS
  hourly = hourly
  goal = goal
  c1 = c1
  bot = bot
  room = room
  Defs = {hourly, goal}
  Plans <- PlansOf
  Goals = {goal}
  Owner <- OwnerOfEach
  Period <- PeriodOf
  OnceAt = 1
  Hook = Hook
  HookBot = bot
  RoutineCards = {c1}
  NoTime = NoTime
  CatchUp = 1
  RunLimit = 1
  KeepRuns = 2
  MaxClock = 2
  MaxEdits = 1
  MaxTrouble = 1
  a = a
  b = b
  c = c
  d = d
  k = k
  Processes = {a, b, c, d, k}
  Parent <- ParentOf
  NoProcess = NoProcess
  MaxGenerations = 2
  x = x
  y = y
  Calls = {x, y}
  MaxKeys = 2
  MaxFaults = 2
INVARIANTS
  RoutinesTypeOK
  ActiveRunHasTurn
  TurnHasActiveRun
  CardsApplyOnce
  LiveHolderOwnsTheFile
  OneBoxPerBot
  NoBoxIsForgotten
PROPERTIES
  RunsStartOnce
  EndedRunsStayEnded
  NobodyIsRefusedByTheDead
  CleanupSparesReadyBoxes
CHECK_DEADLOCK FALSE
