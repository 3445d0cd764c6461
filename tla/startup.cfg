SPECIFICATION MCSpec
CONSTANTS
  c1 = c1
  c2 = c2
  u1 = u1
  u2 = u2
  p1 = p1
  p2 = p2
  None = None
  Clients = {c1, c2}
  Users = {u1, u2}
  Passwords = {p1, p2}
  Altered <- Alterations
  Configs <- TheConfigs
  MaxClock = 1
  MaxReads = 2
  MaxIdle = 2
INVARIANTS StartupSafe
CONSTRAINT Paced
PROPERTIES ResumeReleases
