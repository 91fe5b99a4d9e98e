SPECIFICATION Spec
CONSTANTS
  Browsers = {b1}
  Pairs = {p1, p2, p3, p4}
  Requests = {r1, r2}
  MaxTrouble = 1
  None = None
SYMMETRY MCSymmetry
INVARIANTS SessionsWhole SignedInStays
PROPERTIES NoRevival
