SPECIFICATION PoolFairSpec
CONSTANTS
  d1 = d1
  d2 = d2
  d3 = d3
  alice = alice
  bob = bob
  Deliveries = {d1, d2, d3}
  Referral <- TwoReferrals
  PoolSize = 3
PROPERTY EveryDeliveryIsAudited
CHECK_DEADLOCK FALSE
