SPECIFICATION Spec
CONSTANTS
  c1 = c1
  c2 = c2
  uuid = uuid
  serial = serial
  Calls = {c1, c2}
  Rewards = {uuid, serial}
  Uuids = {uuid}
  Amount <- OneAndTwo
  Deposit = 2
  MaxTopups = 2
  MaxFaults = 2
SYMMETRY Alike
CHECK_DEADLOCK FALSE
INVARIANTS
  TypeOK
  Solvent
  LedgerExplains
  StepsRecorded
