SPECIFICATION MCSpec
CONSTANTS
  c1 = c1
  c2 = c2
  b1 = b1
  b2 = b2
  k1 = k1
  None = None
  Client = {c1, c2}
  Backend = {b1, b2}
  Key = {k1}
  Object = {}
  Kind <- NoKind
  Lasting = {}
  Cycles <- AllCycles
  Blocked <- DeniedCycles
  PassThrough = TRUE
  FailoverEnabled = TRUE
  ReplayOnFailover = TRUE
  ReadRouting = TRUE
  MaxCycles = 3
  MaxLosses = 1
  Shards = 2
  ClientSlots = 1
  Wakes = 2
  MaxClients = 2
  Parts = {"session"}
INVARIANTS PooledOutsideTransaction
