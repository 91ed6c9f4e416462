SPECIFICATION FairSpec
CONSTANTS
  Delivery = {d1, d2, d3, d4}
  Qualifying = {d1, d2, d3}
  dedup_capacity = 2
  MaxSends = 2
  MaxBoots = 1
INVARIANTS TypeOK RefusedExactlyInWindow FirstInFirstOut
PROPERTIES LostEnvelopeRecovers EveryAcceptedConsumed ImplementsDispatchLog
CHECK_DEADLOCK FALSE
