SPECIFICATION Spec
CONSTANTS
  Requests = {r1, r2}
  r1 = r1  r2 = r2  r3 = r3
  Scheduler = sched
  Users = {u1, u2}
  u1 = u1  u2 = u2
  Keys = {k1}
  k1 = k1
  BookingIds = {b1, b2}
  b1 = b1  b2 = b2  b3 = b3
  DepartureIds = {d1}
  d1 = d1  d2 = d2
  Quantities = {1}
  MaxQuantity = 2
  Capacities = {1, 2}
  Schedules <- MovedSchedules
  PendingTtl = 1
  MaxTime = 2
  Operations <- DepartureOps
  None = None
SYMMETRY Symmetry
INVARIANTS
  WorkInv
  NobodyStranded
  BookedInTime
  CompletedAfterEnd
PROPERTIES
  DepartureEndsOnce
  KeepsPromise
