SPECIFICATION Spec
CONSTANTS
  Runs = 3
  keep_runs = 2
  max_bytes = 2
  MaxEvents = 6
  MaxFaults = 1
INVARIANTS GlobalLogOK HistoryComplete RunsRetained
PROPERTIES OutcomesAreTrue ReadsAreFaithful
CHECK_DEADLOCK FALSE
