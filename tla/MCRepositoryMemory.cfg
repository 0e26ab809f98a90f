SPECIFICATION RepositorySpec
CONSTANTS
  e1 = e1  e2 = e2  h1 = h1  h2 = h2  d1 = d1  d2 = d2  a1 = a1  a2 = a2  s1 = s1
  Admins <- TwoAdmins
  Patches <- Sent
  Initial <- Configured
  Loads <- Mixes
  Events <- TwoEvents
  Handlers <- TwoHandlers
  Deciders <- TwoDeciders
  Standards <- OneStandard
  Tau = 2
  DayStep = 3
  MaxDay = 6
SYMMETRY Interchangeable
CHECK_DEADLOCK FALSE
INVARIANTS
  EvidenceIsCounted
  
PROPERTY
  UntouchedFieldsStay
