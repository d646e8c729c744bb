CONSTANTS
  u1 = u1
  a = a
  p1 = p1
  p2 = p2
  c1 = c1
  c2 = c2
  c3 = c3
  Users = {u1}
  Attacker = a
  Procs = {p1}
  Codes = {c1, c2, c3}
  MaxAuthID = 3
SPECIFICATION Spec
CONSTRAINT CosigConstraint
INVARIANT AuthcodeSingleUse
