SPECIFICATION TwinsSpec
CONSTANTS
  r1 = r1
  r2 = r2
  f1 = f1
  f2 = f2
  q1 = q1
  q2 = q2
  xss = xss
  rule = rule
  Reviews <- TwoReviews
  Findings <- TwoFindings
  Owner <- Owned
  Repositories <- TwoRepositories
  Text <- ReadAlike
  Rule = rule
  Suites <- Together
  StaleAfter = 1
  Horizon = 1
  MaxTime = 3
  MaxRounds = 2
  MaxRows = 2
  MaxVersion = 2
INVARIANTS
  ClaimsAgree
  
  
CHECK_DEADLOCK FALSE
