CONSTANTS
  Migrator = {m1, m2}
  Version <- MCVersion
  Online <- MCOnline
  Strict <- MCStrict
  Object <- MCObject
  Adds <- MCAdds
  Drops <- MCDrops
  Lingering = TRUE
  MayTurn = {}
SPECIFICATION SSpec
CHECK_DEADLOCK FALSE
INVARIANTS RowUnlessErred TablesUnlessErred KeyUnlessErred
PROPERTY FaultlessScriptRecords
CONSTRAINT MCFaultless
