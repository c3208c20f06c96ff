SPECIFICATION RoomsSpec
CONSTANTS
  a = a
  b = b
  x = x
  y = y
  s1 = s1
  s2 = s2
  c1 = c1
  None = None
  Bots = {a, b}
  Threads = {x, y}
  Sends = {s1, s2}
  Cards = {c1}
  TaskOf <- TaskOfEach
  Asks <- AsksOf
  Shared = {b}
  MaxFaults = 1
  MaxStops = 1
INVARIANTS
  RoomsTypeOK
  
  BusyRoomHasOwner
  RunningTurnIsAwaitedOrIgnored
  IdleRoomHasNoFollowUps
PROPERTIES
  GivenUpTurnNeverSettlesRoom
  StoppedRoundSendsNothing
CHECK_DEADLOCK FALSE
