SPECIFICATION Spec
CONSTANTS
  t1 = t1
  t2 = t2
  t3 = t3
  w1 = w1
  w2 = w2
  a = a
  b = b
  None = None
  Threads = {a}
  Turns = {t1, t2}
  Words = {w1, w2}
  Behaviours = {}
  MaxAsks = 0
  MaxStops = 1
  MaxStalls = 0
  MaxResumes = 0
SYMMETRY Symmetry
INVARIANTS
  CorrectionIsNotRefused
CHECK_DEADLOCK FALSE
