SPECIFICATION FairSpec
CONSTANTS
  RunOutput = {o1}
  Flavor = {}
  Slot = {s1, s2}
  NoJob = NoJob
  Mode = {"enabled", "off"}
  MaxAttempts = 2
  MaxFailures = 2
INVARIANTS
  TypeOK
  TranscriptMirrorsSent
  AttemptsAreBounded
  RepetitionsNeedFaults
  SupersededIsNotPosted
PROPERTIES
  SettledIsFinal
  ImplementsDelivery
  EveryOutputSettles
