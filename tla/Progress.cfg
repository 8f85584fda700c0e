SPECIFICATION FairSpec
CONSTANTS
  captured = captured
  opened = opened
  activated = activated
  funded = funded
  salary = salary
  Facts <- ShortestPath
  Raw <- ShortestRaw
  Inbound = {salary}
  SelfReferring = {}
  Workers = {w1, w2}
  Journey <- BankingTransactional
  Instructions <- BothBeneficiaries
  MaxLate = 0
  MaxFaults = 2
INVARIANTS
  TypeOK
  RowIsLegal
  PaidOnce
  RewardBackedByFacts
PROPERTIES
  LossIsRecoverable
  DeletedOnlyWithTrace
  CompletionSettles
  PayoutFinishes
