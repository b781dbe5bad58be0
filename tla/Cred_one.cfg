CONSTANTS
  Command = {c1}
  Profile = {p, q}
  Rotating = TRUE
  TellsExpiry = {TRUE, FALSE}
  MaxToken = 3
  Interval = {0}
  Lifetime = {4}
  DefaultInterval = 1
  DefaultLifetime = 3
  SlowDown = 1
  MaxSlowDowns = 1
  Late = 1
  Latency = 1
SPECIFICATION LoginSpec
INVARIANTS TypeOK LastWordHolds EndsInTime
PROPERTIES SaveLeavesOthers PollsSpaced ApprovalCounts ImplementsGrant
