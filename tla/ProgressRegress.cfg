SPECIFICATION OpenedTraffic
CONSTANTS
  captured = captured
  opened = opened
  activated = activated
  funded = funded
  salary = salary
  Facts <- BackwardPath
  Raw <- BackwardRaw
  Inbound = {activated}
  SelfReferring = {}
  Workers = {w1, w2}
  Journey <- BankingTransactional
  Instructions <- BothBeneficiaries
  MaxLate = 0
  MaxFaults = 0
PROPERTY FundedStaysFunded
CHECK_DEADLOCK FALSE
