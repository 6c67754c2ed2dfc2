SPECIFICATION ProcSpec
CONSTANTS
  q1 = q1
  q2 = q2
  p1 = p1
  r1 = r1
  n1 = n1
  s1 = s1
  s2 = s2
  NoCopy = NoCopy
  NoStatus = NoStatus
  Jobs = {q1}
  TypeOf <- MCTypeOf
  Subjects = {s1, s2}
  SubjectOf <- MCSubjectOf
  NoEvent = {}
  PayloadsOf <- MCPayloadsOf
  MaxRetries = 1
  Env = {"db"}
  MaxFaults = 1
  MaxShutdowns = 1
  MaxRequests = 2
INVARIANTS ScanRecorded
CHECK_DEADLOCK FALSE
