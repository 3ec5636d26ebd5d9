SPECIFICATION Spec
CONSTANTS
  lazer = lazer
  stable = stable
  other = other
  m1 = m1
  Requests = {q1, q2}
  FactsOf <- MCFactsOf
  ReceiptTtl = 1
  TokenLifetime = 1
  Setups <- AllSetups
SYMMETRY RequestSymmetry
CHECK_DEADLOCK FALSE
INVARIANTS GrantedOnce LayersAgree 
PROPERTIES NoScoreUnderRestriction
