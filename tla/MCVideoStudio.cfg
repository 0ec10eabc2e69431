SPECIFICATION Spec
CONSTANTS
  Clients = {c1, c2}
  Workers = {w1}
  Portraits = {p1}
  Voices = {v1}
  MaxJobs = 2
SYMMETRY Symmetry
INVARIANTS
  CompletedHasItsFile
  LeaseEndsWithItsClaim
  QuietRevocationIsFinal
