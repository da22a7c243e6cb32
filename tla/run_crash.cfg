SPECIFICATION Spec
CONSTANTS
  Message = {1, 2}
  Conversation <- OneThread
  ConvOf <- MCConvOf
  Executor = {e1, e2}
  Recoverer = {q1}
  Mode = {"enabled", "off"}
  NoJob = NoJob
  MaxCrashes = 1
  MaxLapses = 0
  MaxFaults = 1
SYMMETRY Symmetric
INVARIANTS
  TypeOK
  OutputMatchesOutcome
  RunningRunIsOwned
  OneRunningPerConversation
PROPERTIES
  ImplementsContract
  HealthyRunIsNotInterrupted
