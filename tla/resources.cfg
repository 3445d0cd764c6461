SPECIFICATION MCSpec
CONSTANTS
  Session = {s1, s2}
  Cancel = {k1, k2}
  None = None
  Nobody = Nobody
  Server = {s3, s4}
  GlobalNotify = TRUE
  FailureThreshold = 1
  Width = 8
  Closed = Closed
  MaxLeases = 2
  Sweeper = Sweeper
  Parts = {"cancel", "pool"}
  Backend = {b1, b2}
  Client = {c1, c2}
  Pool = {p1, p2}
  Replica = {p2}
  Modes = {"allow", "prefer"}
  MaxSize = 2
  MinIdle = 1
  RouteMax = 2
  GlobalSlots = 2
  MaxCheckouts = 3
  MaxSweeps = 1
  MaxFailures = 1
  Shard = {h1}
  Visitor = {v1}
INVARIANTS CancelReachesOwn PoolBooks OneProbe
PROPERTIES FloorKept
SYMMETRY Symmetry
CHECK_DEADLOCK FALSE
