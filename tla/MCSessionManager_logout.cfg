SPECIFICATION Spec
CONSTANTS
  Browsers = {b1}
  Pairs = {p1, p2, p3}
  Requests = {r1, r2}
  MaxTrouble = 0
  None = None
INVARIANTS LogoutEndsSession
