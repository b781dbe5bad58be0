CONSTANTS
  A = A
  B = B
  Name = {A, B}
  Null = Null
  Absent = Absent
  Every = Every
  Row <- Rows
  Tab <- Kinds
  Of <- Keys
  Scope = A
  Schemas <- Versions
  Busy <- Both
  Renames <- None
  Initial <- NamedAsTheyAre
SPECIFICATION Spec
INVARIANTS TypeOK TakesAll
PROPERTIES RemovedWhole OthersUntouched
