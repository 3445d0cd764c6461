SPECIFICATION MCSpec
CONSTANTS
  c1 = c1
  c2 = c2
  b1 = b1
  b2 = b2
  k1 = k1
  k2 = k2
  o1 = o1
  o2 = o2
  None = None
  Client = {c1, c2}
  Backend = {b1, b2}
  Key = {k1}
  Object = {o1}
  Kind <- AllListen
  Lasting = {}
  Cycles <- Mixed
  PoolMode = "transaction"
  RecoveryMode = "drop"
  ReadRouting = FALSE
  ReplayOnFailover = TRUE
  Cuts = {"timeout", "break", "leave"}
  MaxCycles = 3
  Parts = {"sessions", "views", "rings", "stream", "dropping", "buffers"}
  Roles = {"primary", "replica"}
SYMMETRY Symmetric
INVARIANTS
  PooledQuiet
  AnswersAligned
  ViewsTruthful
  BytesSound
