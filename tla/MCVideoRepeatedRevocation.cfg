SPECIFICATION Spec
CONSTANTS
  Clients = {c1}
  Workers = {}
  Portraits = {p1}
  Voices = {v1}
  MaxJobs = 1
INVARIANT
  RepeatedRevocationRemovesMedia
