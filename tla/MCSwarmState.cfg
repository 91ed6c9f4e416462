SPECIFICATION Spec
CONSTANTS
  Shell = {s1, s2}
  Task = {t1, t2}
  maxSubagents = 1
  MaxRounds = 2
  s1 = s1
  s2 = s2
  t1 = t1
  t2 = t2
SYMMETRY Interchangeable
INVARIANTS StateOK
PROPERTIES OnlyOverlapsLose BudgetStopsRounds
CHECK_DEADLOCK FALSE
