CONSTANTS
  Migrator = {m1}
  Version <- Versions
  Online <- PgOnline
  Strict <- StrictVersions
  Object <- Objects
  Adds <- AddsOf
  Drops <- DropsOf
  Lingering = FALSE
  MayTurn = {FALSE}
SPECIFICATION RFairSpec
CHECK_DEADLOCK FALSE
INVARIANTS TypeOK RecordedMeansApplied TriggersGone NextGoesThrough
PROPERTIES RerunConverges ImplementsLedger
