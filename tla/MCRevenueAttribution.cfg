SPECIFICATION Spec
CONSTANTS
  Experiments = {e1}
  Visitors = {v1, v2}
  Orders = {o1}
  LinkTypes = {purchase_flow, order_id}
  Tokens = {t1, t2}
  Cycles = {timer, request}
  Scheduled = timer
  Nobody = Nobody
  NoToken = NoToken
  MaxFailures = 1
SYMMETRY Symmetry
INVARIANT
  RefundFollowsItsPurchase
PROPERTY
  AttributionIsFinal
