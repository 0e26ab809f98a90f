SPECIFICATION Spec
CONSTANTS
  q1 = q1
  q2 = q2
  d1 = d1
  d2 = d2
  d3 = d3
  ping = ping
  github = github
  Requests <- TwoRequests
  Clients <- OneClient
  Deliveries <- Pushes
  Kind <- Kinds
  Commit <- Commits
  Size <- Sizes
  Urgencies <- SomeUrgencies
  Cap = 3
  Window = 2
  Full = 2
  UrgencyWeight = 1
  Low = 1
  Medium = 2
  MaxSends <- Repeats
  MaxTime = 2
SYMMETRY RequestSymmetry
INVARIANTS
  LimiterIsExact
  RowIsOneDeliverys
  HeadIsNewest
CHECK_DEADLOCK FALSE
