CONSTANTS
  Migrator = {m1}
  Version <- Versions
  Online <- PgOnline
  Strict <- StrictVersions
  Object <- Objects
  Adds <- AddsOf
  Drops <- DropsOf
  Lingering = FALSE
  MayTurn = {TRUE}
SPECIFICATION RSpec
CHECK_DEADLOCK FALSE
INVARIANT PinsWhatExists
