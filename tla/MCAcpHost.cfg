SPECIFICATION FairSpec
CONSTANTS
  Run = {e1, e2}
INVARIANTS TypeOK NoAgentLeft StrandedHasCause VerdictsAgree
PROPERTIES ShutdownEndsConsumer VerdictIsReported
CHECK_DEADLOCK FALSE
