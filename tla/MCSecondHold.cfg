SPECIFICATION Spec
CONSTANTS
  Surfaces = {s1}
  Approvals = {a1, a2}
  Plans <- SecondHoldPlans
  Drafts = {d1, d2}
  Receipt = Receipt
  Nothing = Nothing
SYMMETRY Symmetry
INVARIANT
  ResumeReachesItsHold
