SPECIFICATION MCFairSpec
CONSTANTS
  Session = {s1, s2}
  Cancel = {k1, k2}
  None = None
  Nobody = Nobody
  Server = {s3, s4}
  GlobalNotify = TRUE
  FailureThreshold = 1
  Width = 8
  Closed = Closed
  MaxLeases = 2
  Sweeper = Sweeper
  Parts = {"pool", "shutdown"}
  Backend = {b1}
  Client = {c1, c2, c3}
  Pool = {p1, p2}
  Replica = {}
  Modes = {"allow"}
  MaxSize = 2
  MinIdle = 0
  RouteMax = 3
  GlobalSlots = 1
  MaxCheckouts = 3
  MaxSweeps = 0
  MaxFailures = 0
  Shard = {h1, h2}
  Visitor = {v1, v2}
INVARIANTS OutcomeExact
PROPERTIES WaitsEnd
CHECK_DEADLOCK FALSE
