SPECIFICATION Spec
CONSTANTS
  Runners = {r1, r2}
  Experiments = {e1, e2}
  Merchant = {m1, m2}
  MaxRevision = 4
SYMMETRY Symmetry
INVARIANTS
  OneActivePerProduct
  ShopIsExplained
  SequentiallyReversible
PROPERTY
  PromotionKeepsWhatItReplaces
CHECK_DEADLOCK FALSE
