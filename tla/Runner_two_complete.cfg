CONSTANTS
  Migrator = {m1, m2}
  Version <- MCVersion
  Online <- MCOnline
  Strict <- MCStrict
  Object <- MCObject
  Adds <- MCAdds
  Drops <- MCDrops
  Lingering = FALSE
  MayTurn = {}
SPECIFICATION MCRunsOnly
CHECK_DEADLOCK FALSE
INVARIANT UpToDateIsComplete
