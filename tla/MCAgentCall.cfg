SPECIFICATION FairSpec
CONSTANTS
  None = None
  Noise = Noise
  Setups <- Deployments
  MaxRetries = 1
  MaxAgentRetries = 2
  LlmTimeout = 1
  AgentTimeout = 3
  JoinTimeout = 2
  Answers <- Texts
  ChangedPaths <- Touched
  Categories <- Security
  Cap = 2
  MaxCrashes = 1
INVARIANTS
  CallsAreBounded
  
  KeptIsVouched
  NoCallAfterTheVerdict

  
CHECK_DEADLOCK FALSE
