CONSTANTS
  Command = {c1, c2, c3}
  Profile = {p}
  Rotating = TRUE
  TellsExpiry = {TRUE, FALSE}
  MaxToken = 3
SPECIFICATION Spec
SYMMETRY Interchangeable
INVARIANTS PairsMatch RefreshKept
