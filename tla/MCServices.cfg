SPECIFICATION Behaviour
SYMMETRY Interchangeable
CONSTANTS
  Components = {"publisher", "council", "sweep", "vault", "ledger", "alpha", "fulfillment", "heal", "audit", "cutover", "poster", "store", "proposals"}
  Items = {this, that}
  Actors = {a1, a2}
  Contents = {left, right}
  Single = {single}
  Exits = {exit}
  SessionTokens = {s1, s2, s3}
  nobody = nobody
  Last = 4
  Probed = {1, 2, 3}
  Window = 1
  MaxSessions = 2
  Capital = 3
  MaxOpen = 3
  MaxEntries = 2
  MaxLoss = 3
  MaxBuys = 2
  MaxFailures = 1
  MaxOverlaps = 0
  MaxEdits = 1
  MaxLength = 2
  MaxHead = 3
  MaxQueued = 2
  MaxRuns = 3
  MaxSeconds = 2
  MaxDeliveries = 2
  Requests = {a1, a2}
  Jobs = {instagram, tiktok}
  Unregistered = {tiktok}
  MaxPosts = 2
INVARIANTS
  TypesOK
  PostsAreAccountedFor
  PublishedIsTrue
  NoRunUnderHold
  StateIsUsedOnce
  AnswersAreKept
  WhatVerifiesIsTrue
  PositionIsSoldOnce
  OrdersAreDeliveredOnce
  RepairIsAllOrNothing
  TrustedIsComplete
  ReportIsTrue
  PostedOnceUnlessForgotten
  PaidIsAccountedFor
  ProposalsAreKept
PROPERTY
  KillSwitchStopsBuying
