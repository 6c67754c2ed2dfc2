SPECIFICATION IngSpec
CONSTANTS
  j1 = j1
  j2 = j2
  j3 = j3
  w = w
  k1 = k1
  k2 = k2
  k3 = k3
  c1 = c1
  c2 = c2
  NoCopy = NoCopy
  NoJob = NoJob
  Jobs = {j1, j2, j3, w}
  TypeOf <- MCTypeOf
  Keys = {k1, k2, k3}
  KeyOf <- MCKeyOf
  Valid = {j1, j2, j3}
  MaxRetries = 0
  Env = {"db", "depth", "clientGone"}
  MaxFaults = 1
  Threshold = 1
  MaxInFlight = 2
  Welcomes = {w}
  MaxBackground = 1
  Clients = {c1, c2}
  ClientOf <- MCClientOf
  Suspect = {j3}
  GlobalUnit = 1
  GlobalCapacity = 2
  RouteUnit = 2
  RouteCapacity = 3
  MaxTicks = 1
SYMMETRY RequestSymmetry
INVARIANTS IngressTypeOK AcceptedKeepsKey QueuedHasRow FailureFreesKey  RefusalLeavesNoTrace AdmissionBound ShedHasCause
CHECK_DEADLOCK FALSE
