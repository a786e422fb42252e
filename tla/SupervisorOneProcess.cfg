SPECIFICATION Spec
CONSTANTS
  p1 = p1
  p2 = p2
  t1 = t1
  t2 = t2
  Absent = Absent
  NoClaim = 0
  Claim = {1, 2}
  Process = {p1}
  Initiator = {p1}
  Thread = {t1, t2}
  ProcOf <- TwoTicksOfOne
  CONFIRM = 1
  MAX_RENEW_FAILURES = 1
  MaxMono = 1
  MaxGeneration = 1
  MaxCheckout = 4
  MaxRevision = 1
INVARIANTS InFlightIsWorkedOn
PROPERTIES EvidenceNotLost
CHECK_DEADLOCK FALSE
