SPECIFICATION Spec
CONSTANTS
  c1 = c1
  c2 = c2
  b1 = b1
  a1 = a1
  a2 = a2
  r1 = r1
  row1 = row1
  Calls = {c1, c2}
  Batches = {b1}
  Approvals = {a1, a2}
  BatchOf <- AllOfOneBatch
  Reversals = {r1}
  Rows = {row1}
  RowOf <- AllOfOneRow
  MaxItems = 2
  MaxFaults = 1
INVARIANTS
  TypeOK
  TotalsMatch
  OrderlyAlone
  ExecutionsBacked
PROPERTIES
  ImplementsLifecycle
SYMMETRY Alike
