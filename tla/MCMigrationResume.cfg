SPECIFICATION CatalogSpec
CONSTANTS
  p1 = p1
  p2 = p2
  s1 = s1
  s2 = s2
  s3 = s3
  None = None
  Clashing = TRUE
SYMMETRY Symmetry
INVARIANT ResumedAsOnePass
