SPECIFICATION FairGraphSpec
CONSTANTS
  a1 = a1  a2 = a2  a3 = a3
  Agents <- ThreeAgents
  GraphRetries = 2
  RecursionLimit = 7
CHECK_DEADLOCK FALSE
INVARIANTS
  TerminalIsDiagnosed
PROPERTY
  EventuallyDiagnosed
  KeepsFanOutPromise
