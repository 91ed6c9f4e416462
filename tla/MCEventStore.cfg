SPECIFICATION FairSpec
CONSTANTS
  Emitter = {t1, t2}
  Reader = {r1, r2}
  maxlen = 2
  queue_maxsize = 1
  MaxEvents = 3
INVARIANTS TypeOK RecentIsLatest Accounted InOrder
PROPERTIES AppendedIsReceived ImplementsFeed
CHECK_DEADLOCK FALSE
