SPECIFICATION AccountsSpec
CONSTANTS
  k1 = k1
  k2 = k2
  k3 = k3
  a1 = a1
  a2 = a2
  r1 = r1
  r2 = r2
  d1 = d1
  d2 = d2
  t1 = t1
  t2 = t2
  t3 = t3
  KeyIds = {k1, k2, k3}
  MaxKeys = 1
  Creates = {a1, a2}
  Registers = {r1, r2}
  Deregisters = {d1, d2}
  Tunnels = {t1, t2, t3}
  None = None
SYMMETRY MCSymmetry
INVARIANTS
  KeysBounded
  LeakHasCause
CHECK_DEADLOCK FALSE
