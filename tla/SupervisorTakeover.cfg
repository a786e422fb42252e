SPECIFICATION Spec
CONSTANTS
  p1 = p1
  p2 = p2
  t1 = t1
  t2 = t2
  Absent = Absent
  NoClaim = 0
  Claim = {1, 2}
  Process = {p1, p2}
  Initiator = {p1}
  Thread = {t2}
  ProcOf <- TickOfSecond
  CONFIRM = 1
  MAX_RENEW_FAILURES = 1
  MaxMono = 2
  MaxGeneration = 1
  MaxCheckout = 3
  MaxRevision = 1
INVARIANTS RecoveryIsDurable
PROPERTIES OutcomeIsFinal ImplementsLease
CHECK_DEADLOCK FALSE
