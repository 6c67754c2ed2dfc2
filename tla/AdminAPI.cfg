SPECIFICATION APISpec
CONSTANTS
  j1 = j1
  j2 = j2
  j3 = j3
  a1 = a1
  NoCopy = NoCopy
  Jobs = {j1, j2, j3}
  TypeOf <- MCTypeOf
  MaxRetries = 0
  Env = {"db"}
  MaxFaults = 0
  Admins = {a1}
  Lists <- MCLists
  Limits <- MCLimits
  MaxPage = 2
  DefaultPage = 1
  Written = {"DEAD_LETTER"}
  MaxLeft = 2
SYMMETRY JobSymmetry
INVARIANTS APITypeOK WalkComplete StatsAddUp FakeAgrees
CHECK_DEADLOCK FALSE
