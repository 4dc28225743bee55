SPECIFICATION Spec
CONSTANTS
  o1 = o1
  o2 = o2
  u1 = u1
  u2 = u2
  s1 = s1
  comp = comp
  t1 = t1
  t2 = t2
  t3 = t3
  Students = {s1}
  Orders = {o1}
  Payer <- OnePayer
  Tutors = {u1, u2}
  Wanted <- OwnTutor
  Tx = {t1, t2, t3}
  Comp = comp
  Grants = 1
  Overrides = 1
  Reassigns = 1
  Failures = 1
  MaxCrashes = 1
SYMMETRY TxSymmetry
INVARIANTS
  ActivatedMeansGrantedOnce
\* Every order is settled and nobody has anything left to ask.
CHECK_DEADLOCK FALSE
