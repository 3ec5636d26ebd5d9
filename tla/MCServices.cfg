SPECIFICATION Spec
CONSTANTS
  p1 = p1
  p2 = p2
  s1 = s1
  s2 = s2
  s3 = s3
  a1 = a1
  a2 = a2
  a3 = a3
  None = None
  Clashing = FALSE
SYMMETRY Symmetry
INVARIANTS ClientSessionsSound TokenFamilySound   ManagementSound StaleHasCause  RegistrationSound   ImportSound  ChatSound
PROPERTIES NothingGoesBack NoStaleDecision
