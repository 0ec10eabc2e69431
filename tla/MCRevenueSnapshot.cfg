SPECIFICATION Spec
CONSTANTS
  Runners = {r1}
  Experiments = {e1}
  Merchant = {m1}
  MaxRevision = 2
INVARIANT
  TreatmentHasItsSnapshot
CHECK_DEADLOCK FALSE
