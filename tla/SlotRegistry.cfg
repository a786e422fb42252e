SPECIFICATION Spec
CONSTANTS
  c1 = c1
  c2 = c2
  c3 = c3
  c4 = c4
  lit = lit
  NoClaim = NoClaim
  Claim = {c1, c2, c3, c4}
  OwnClaim = {c1, c2, c4}
  OrdinaryKey = {}
  LiteratureOwner = {lit}
  ResourceOf <- ClaimsOfOneItem
  MaxGeneration = 2
  MaxCheckout = 4
  MaxExecution = 1
  MaxRevision = 1
INVARIANTS TypeOK ProofSealed CheckoutCustody ShutdownAbandonsClaimed
PROPERTIES FreedByItsHolder ImplementsGate
CHECK_DEADLOCK FALSE
