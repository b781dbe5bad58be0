CONSTANTS
  Name = {"p", "q"}
  Host = {"hosted", "cloud"}
  Org = {"first", "second", "third", "local"}
  App = {"app"}
  Prod = "cloud"
  None = None
  Flags <- MCFlags
  Editor = {e1, e2}
  MaxEdits = 2
  Requester = {r1}
  Writer = {w1}
  Account <- MCAccount
  TSAccount = {"tess"}
  OrgOf <- MCOrgOf
  Keys = {"key"}
  Inputs <- MCInputs
  Tried <- MCTried
  MaxHops = 1
  MaxSaves = 1
SPECIFICATION Spec
CHECK_DEADLOCK FALSE
INVARIANTS FileUsable AddressedAsOne ExitTells
PROPERTIES OneAtATime AsksOnce CommandEnds
