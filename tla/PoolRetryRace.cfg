SPECIFICATION Spec
CONSTANTS
  j1 = j1
  j2 = j2
  j3 = j3
  j4 = j4
  w1 = w1
  w2 = w2
  NoCopy = NoCopy
  Jobs = {j1}
  TypeOf <- TypeOfJobs
  MaxRetries = 1
  Env = {"shortBackoff"}
  MaxFaults = 0
  Workers = {w1, w2}
  Registry = {"REGISTRATION", "PAYMENT_WEBHOOK", "QR_SCAN", "NOTIFICATION"}
  MaxRestarts = 0
INVARIANT NotLost
CHECK_DEADLOCK FALSE
