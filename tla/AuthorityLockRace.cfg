SPECIFICATION Spec
CONSTANTS
  Procs = {p1, p2, p3}
  Nobody = Nobody
  MaxKeys = 2
  MaxSequence = 2
  Alone = FALSE
INVARIANT NoSequenceReused
SYMMETRY MCSymmetry
CHECK_DEADLOCK FALSE
