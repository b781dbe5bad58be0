CONSTANTS
  Migrator = {m1}
  Version <- MCVersion
  Online <- MCOnline
  Strict <- MCStrict
  Object <- MCObject
  Adds <- MCAdds
  Drops <- MCDrops
  Lingering = FALSE
  MayTurn = {}
SPECIFICATION SSpec
CHECK_DEADLOCK FALSE
PROPERTY LoneScriptRecords
