SPECIFICATION Spec
CONSTANTS
  security = security  quality = quality
  f1 = f1  f2 = f2  p1 = p1  p2 = p2
  Findings <- TwoFindings
  Region <- Regions
  Agents <- TwoAgents
  Owners <- Owned
  Opened <- Earlier
  Commits <- Pushes
  MaxSlices = 2
  LineGap = 0
  Publishers <- TwoPublishers
  MaxRounds = 2
SYMMETRY PublisherSymmetry
CHECK_DEADLOCK FALSE
INVARIANTS
  RoundsAreNumbered
  PostedTwiceOnlyIfDisturbed
PROPERTY
  DispositionsLast
  ChangedIsReexamined
