SPECIFICATION Spec
CONSTANTS
  Clients = {c1}
  Workers = {w1}
  Portraits = {p1}
  Voices = {v1}
  MaxJobs = 1
INVARIANT
  RevocationIsFinal
