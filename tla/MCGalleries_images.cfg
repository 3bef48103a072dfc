SPECIFICATION Spec
CONSTANTS
  Requests = {r1, r2}
  Tours = {t1}
  Reviews = {v1}
  Files = {f1, f2, f3}
  MaxImages = 2
  MaxFaults = 2
  None = None
SYMMETRY Alike
INVARIANTS IndInv WithinLimit ImageHasFile NoLeftovers DeletedIsEmpty
PROPERTIES DeletedIsFinal
