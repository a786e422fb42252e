SPECIFICATION Spec
CONSTANTS
  c1 = c1
  c2 = c2
  d1 = d1
  d2 = d2
  NoClaim = NoClaim
  Absent = Absent
  Claim = {c1, c2}
  OrdinaryKey = {d1, d2}
  LiteratureOwner = {}
  ResourceOf <- OneEach
  MaxGeneration = 2
  MaxTicker = 3
  MaxRevision = 1
INVARIANTS TypeOK ClaimedHasItsBeat BeatHasItsSlot BeatsHaveATask CallsWithLatestRevision
PROPERTIES DueIsBeaten LateAnswersIgnored ImplementsRegistry
CHECK_DEADLOCK FALSE
