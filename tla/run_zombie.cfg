SPECIFICATION FairSpec
CONSTANTS
  Message = {1}
  Conversation <- OneThread
  ConvOf <- MCConvOf
  Executor = {e1, e2}
  Recoverer = {q1}
  Mode = {"enabled"}
  NoJob = NoJob
  MaxCrashes = 1
  MaxLapses = 1
  MaxFaults = 1
INVARIANTS
  OutputMatchesOutcome
PROPERTIES
  ImplementsContract
  EveryRunEnds
  EveryOutputIsSubmitted
