CONSTANTS
  Row = {"w1", "w2", "s1"}
  Tab <- MCTab
  Key <- MCKey
  Name = {"A", "B", "C", "none"}
  Absent = Absent
  Renamer = {"r1", "r2"}
  Source <- TwoFrom
  To <- TwoTo
  Busy = {"A"}
  Initial <- OfAOrAbsent
  BatchSize = 1
SPECIFICATION Spec
INVARIANTS TypeOK LeftBehindIsNew CountsAreFacts
