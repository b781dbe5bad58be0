CONSTANTS
  A = A
  B = B
  Name = {A, B}
  Null = Null
  Absent = Absent
  Every = Every
  Row <- Fewer
  Tab <- FewerKinds
  Of <- FewerKeys
  Scope = Every
  Schemas <- Ends
  Busy = {A}
  Renames <- ARenamed
  Initial <- FewerFull
SPECIFICATION Spec
INVARIANTS TakesAll AllOrNothing CountsAddUp
