SPECIFICATION Spec
CONSTANTS
  Message = {1}
  Conversation <- OneThread
  ConvOf <- MCConvOf
  Executor = {e1}
  Recoverer = {q1, q2}
  Mode = {"enabled"}
  NoJob = NoJob
  MaxCrashes = 1
  MaxLapses = 0
  MaxFaults = 0
PROPERTIES
  HealthyRunIsNotInterrupted
