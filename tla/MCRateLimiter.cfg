SPECIFICATION Spec
CONSTANTS
  Users = {u1, u2}
  Capacity = 2
  Window = 3
  MaxTime = 8
INVARIANTS
  TypeOK
  WindowBound
  RetryAfterExact
  BucketIsRecentGrants
PROPERTY ImplementsSlidingWindow
