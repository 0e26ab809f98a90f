SPECIFICATION FairSpec
CONSTANTS
  a1 = a1  a2 = a2  f1 = f1  f2 = f2  f3 = f3  p1 = p1  p2 = p2
  Agents <- TwoAgents
  Candidates <- ThreeCandidates
  AgentOf <- TwoOfOne
  Publishers <- TwoPublishers
  MaxRuns = 2
  MaxFaults = 1
CHECK_DEADLOCK FALSE
INVARIANTS
  OneChosenPerGroup
  PartialFindingsStayUnpublished
  OutcomeIsHonest
PROPERTY
  FindingsMoveForward
  SingleRunFollowsLifecycle
  EventuallySettled
