SPECIFICATION Spec
CONSTANTS
  f1 = f1
  f2 = f2
  p1 = p1
  p2 = p2
  Files = {f1, f2}
  Providers = {p1, p2}
  Targets <- MCTargets
  Requests = {r1, r2}
  Nobody = Nobody
  MaxArrivals = 4
  MaxEdits = 1
  MaxMishaps = 1
INVARIANTS TypeOK OriginalIsKept 
SYMMETRY MCSymmetry
CHECK_DEADLOCK FALSE
