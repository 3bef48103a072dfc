SPECIFICATION Spec
CONSTANTS
  Requests = {r1, r2}
  Accounts = {a1, a2}
  Files = {f1, f2, f3}
  MaxFaults = 1
  External = External
  None = None
SYMMETRY Alike
INVARIANTS IndInv AdminRemains AvatarHasFile NoLeftovers
