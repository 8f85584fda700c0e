SPECIFICATION Spec
CONSTANTS
  w1 = w1
  w2 = w2
  referrer = referrer
  referee = referee
  bonus = bonus
  referrerMilestone = referrerMilestone
  refereeMilestone = refereeMilestone
  referrerDefault = referrerDefault
  refereeDefault = refereeDefault
  Workers = {w1, w2}
  Rewards = {referrer, referee, bonus}
  Keys = {referrerMilestone, refereeMilestone, referrerDefault, refereeDefault}
  KeyOf <- OwnKey
  ReplayKeyOf <- DefaultKey
  Amount <- Amounts
  Deposit = 1
  Limit = 2
  MaxAttempts = 3
  MaxFaults = 1
  MaxReplays = 2
SYMMETRY WorkerSymmetry
CHECK_DEADLOCK FALSE
INVARIANTS
  TypeOK
  OneDeliveryPerReward
  PaidOncePerKey
  OutflowIsPaid
