SPECIFICATION Spec
CONSTANTS
  Findings <- FourFindings
  Id <- HashOrder
  Items <- Variety
  Alike <- Neighbouring
  MaxLineGap = 2
  Memory <- KnownSecurity
  Budget <- SmallBudget
  Overrides <- SomeOverrides
  Gates <- DefaultGates
CHECK_DEADLOCK FALSE
INVARIANTS
  
  SelectionIsExact
  VerdictsAreComplete
