SPECIFICATION TimersSpec
CONSTANTS
  Leads = {this, that}
  Requests = {request}
  Steps = 2
  MaxFailures = 1
  MaxOverlaps = 0
  MaxRestarts = 1
  Timer = timer
  Experiments = {experiment}
  Visitors = {v1, v2}
  Orders = {paid_order}
  LinkTypes = {purchase_flow, order_id}
  Tokens = {t1, t2}
  Nobody = Nobody
  NoToken = NoToken
INVARIANTS
  SentOnceUnlessOverlapped
  AnsweredLeadsAreKept
  UnsubscribeStopsEmails
PROPERTIES
  DueStepIsTaken
  LinkedOrderIsAttributed
  RefundIsDebited
