SPECIFICATION SysSpec
CONSTANTS
  j1 = j1
  j2 = j2
  j3 = j3
  w1 = w1
  w2 = w2
  k1 = k1
  k2 = k2
  a1 = a1
  a2 = a2
  NoCopy = NoCopy
  NoJob = NoJob
  Jobs = {j1}
  TypeOf <- MCTypeOf
  Keys = {k1, k2}
  KeyOf <- MCKeyOf
  Valid = {j1}
  MaxRetries = 0
  Env = {}
  MaxFaults = 0
  Workers = {w1, w2}
  Registry = {"REGISTRATION", "PAYMENT_WEBHOOK", "QR_SCAN", "NOTIFICATION"}
  MaxRestarts = 0
  Admins = {a1}
INVARIANT AdminRetryWorks
CHECK_DEADLOCK FALSE
