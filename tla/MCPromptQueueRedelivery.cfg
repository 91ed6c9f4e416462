SPECIFICATION Spec
CONSTANTS
  Delivery = {d1, d2}
  Qualifying = {d1, d2}
  dedup_capacity = 2
  MaxSends = 2
  MaxBoots = 0
PROPERTY RedeliveryRecovers
CHECK_DEADLOCK FALSE
