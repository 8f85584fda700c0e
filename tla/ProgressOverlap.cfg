SPECIFICATION OpenedSpec
CONSTANTS
  captured = captured
  opened = opened
  activated = activated
  funded = funded
  salary = salary
  Facts <- FullPath
  Raw <- FullRaw
  Inbound = {activated}
  SelfReferring = {}
  Workers = {w1, w2}
  Journey <- BankingTransactional
  Instructions <- BothBeneficiaries
  MaxLate = 0
  MaxFaults = 0
INVARIANTS
  TypeOK
  RowIsLegal
  PaidOnce
  RewardBackedByFacts
PROPERTY LossIsRecoverable
SYMMETRY WorkerSymmetry
