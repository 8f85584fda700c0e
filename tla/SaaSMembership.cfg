SPECIFICATION Spec
CONSTANTS
  c1 = c1
  c2 = c2
  m1 = m1
  m2 = m2
  r1 = r1
  r2 = r2
  l1 = l1
  s1 = s1
  s2 = s2
  None = None
  Calls = {c1, c2}
  Members = {m1, m2}
  Roles = {r1, r2}
  Links = {l1}
  Seats = {s1, s2}
SYMMETRY Alike
INVARIANTS
  TypeOK
  SeatsAgree
  LinkIsSpent
  AuditedRoleStands
PROPERTY
  CancelledStaysOut
