SPECIFICATION FairSpec
CONSTANTS
  Run = {e1}
PROPERTY CancellationPropagates
CHECK_DEADLOCK FALSE
