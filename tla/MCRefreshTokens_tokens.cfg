SPECIFICATION FairSpec
CONSTANTS
  Requests = {r1, r2}
  Users = {u1}
  Tokens = {t1, t2, t3}
  PoolSize = 2
  None = None
INVARIANTS IndInv OneLivePerFamily
PROPERTIES ReuseEndsFamily Answered
