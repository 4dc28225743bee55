SPECIFICATION Spec
CONSTANTS
  o1 = o1
  o2 = o2
  u1 = u1
  u2 = u2
  s1 = s1
  comp = comp
  t1 = t1
  t2 = t2
  Students = {s1}
  Orders = {o1, o2}
  Payer <- OnePayer
  Tutors = {u1, u2}
  Wanted <- OwnTutor
  Tx = {t1, t2}
  Comp = comp
  Grants = 0
  Overrides = 0
  Reassigns = 0
  Failures = 1
  MaxCrashes = 0
SYMMETRY TxSymmetry
INVARIANTS
  OneActiveTutor
\* Every order is settled and nobody has anything left to ask.
CHECK_DEADLOCK FALSE
