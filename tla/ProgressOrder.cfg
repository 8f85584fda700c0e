SPECIFICATION Spec
CONSTANTS
  captured = captured
  opened = opened
  activated = activated
  funded = funded
  salary = salary
  Facts <- ShortestPath
  Raw <- ShortestRaw
  Inbound = {salary}
  SelfReferring = {salary}
  Workers = {w1}
  Journey <- BankingTransactional
  Instructions <- BothBeneficiaries
  MaxLate = 4
  MaxFaults = 0
INVARIANTS
  TypeOK
  RowIsLegal
  RewardBackedByFacts
PROPERTIES
  LossIsRecoverable
  HandledInSequence
