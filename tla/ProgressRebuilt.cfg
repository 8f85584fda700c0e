SPECIFICATION FundedSpec
CONSTANTS
  captured = captured
  opened = opened
  activated = activated
  funded = funded
  salary = salary
  Facts <- ShortestPath
  Raw <- ShortestRaw
  Inbound = {salary}
  SelfReferring = {}
  Workers = {w1}
  Journey <- BankingTransactional
  Instructions <- BothBeneficiaries
  MaxLate = 0
  MaxFaults = 0
PROPERTY SettledRebuildKeepsCompletion
CHECK_DEADLOCK FALSE
