CONSTANTS
  Row = {"q", "w1", "w2", "w3", "s1", "s1b", "s2"}
  Tab <- MCTab
  Key <- MCKey
  Name = {"A", "B", "none"}
  Absent = Absent
  Renamer = {r1}
  Source <- BothToB
  To <- ToB
  Busy = {}
  Initial <- AllThere
  BatchSize = 1
SPECIFICATION FairSpec
INVARIANT NeverRefuses
PROPERTIES ImplementsOwnership RerunCompletes
