SPECIFICATION MCSpec
CONSTANTS
  Configured = 12
  Floor = 2
  Enabled = TRUE
  Unreadable = Unreadable
  Invalid = Invalid
  Session = {s1}
  Evaluator = {e1, e2}
  Parts = {"pressure", "reload", "guardrails", "adaptive", "lifecycle", "health", "peers", "console", "config", "mirror"}
INVARIANTS
  OperatorDecides
  StateHonest
  MirrorContained
PROPERTIES
  MovesWithPressure
  OperationsSettle
CHECK_DEADLOCK FALSE
