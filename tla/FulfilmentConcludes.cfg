SPECIFICATION FairSpec
CONSTANTS
  w1 = w1
  w2 = w2
  referrer = referrer
  referee = referee
  bonus = bonus
  referrerMilestone = referrerMilestone
  refereeMilestone = refereeMilestone
  referrerDefault = referrerDefault
  refereeDefault = refereeDefault
  Workers = {w1}
  Rewards = {referrer, referee}
  Keys = {referrerMilestone, refereeMilestone, referrerDefault, refereeDefault}
  KeyOf <- OwnKey
  ReplayKeyOf <- DefaultKey
  Amount <- Amounts
  Deposit = 1
  Limit = 2
  MaxAttempts = 3
  MaxFaults = 0
  MaxReplays = 0
CHECK_DEADLOCK FALSE
PROPERTY FulfilmentConcludes
