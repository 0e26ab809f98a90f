SPECIFICATION FairSpec
CONSTANTS
  r1 = r1  f1 = f1  f2 = f2  w1 = w1  w2 = w2
  Reviews <- OneReview
  Findings <- TwoFindings
  Workers <- TwoWorkers
  ReviewOf <- OwnerOne
  Rank <- RankTwo
  HasLine <- TwoFindings
  Priority <- PriorityOne
  MaxComments = 1
  MaxRetries = 1
  ScanLimit = 1
  MaxQueued = 1
  MaxFaults = 2
CHECK_DEADLOCK FALSE
INVARIANTS
  NoFindingLost
  ClaimIsExclusive
  PostedTwiceOnlyAfterTakeoverOrLoss
PROPERTIES
  KeepsPromise
  EventuallyPublished
