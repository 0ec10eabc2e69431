SPECIFICATION Spec
CONSTANTS
  Surfaces = {s1, s2}
  Approvals = {a1, a2}
  Plans <- AllPlans
  Drafts = {d1, d2}
  Receipt = Receipt
  Nothing = Nothing
SYMMETRY Symmetry
INVARIANTS
  AtMostOnceUnderAnApproval
  SentAsApproved
  AuthorityHasItsPlan
  AnswersAreTrue
  EvidenceBeforeBoundary
