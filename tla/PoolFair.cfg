SPECIFICATION FairSpec
CONSTANTS
  j1 = j1
  j2 = j2
  j3 = j3
  j4 = j4
  w1 = w1
  w2 = w2
  NoCopy = NoCopy
  Jobs = {j1, j2, j3}
  TypeOf <- TypeOfJobs
  MaxRetries = 1
  Env = {"shutdown"}
  MaxFaults = 0
  Workers = {w1}
  Registry = {"PAYMENT_WEBHOOK"}
  MaxRestarts = 0
INVARIANTS TypeOK OnePlace
PROPERTIES AllFinish ShutdownDrains
CHECK_DEADLOCK FALSE
