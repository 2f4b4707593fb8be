\* Mint, revoke, mint again, burn the old badge, mint a third.
SPECIFICATION Spec
CONSTANTS
  b1 = b1
  b2 = b2
  b3 = b3
  b4 = b4
  q1 = q1
  q2 = q2
  u1 = u1
  u2 = u2
  Badge = {b1, b2, b3, b4}
  Quest = {q1}
  User = {u1, u2}
  Foreign = {other}
  MaxRevokes = 2
SYMMETRY MCSymmetry
INVARIANTS
  OneValidBadge
