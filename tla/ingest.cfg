SPECIFICATION MCSpec
CONSTANTS
  Event = {1, 2, 3, 4}
  Kind <- MCKind
  About <- MCAbout
  Message <- Messages
  Reaction <- Reactions
  Thread = {"thread"}
  ThreadOf <- MCThreadOf
  Answer = {"answer"}
  AnswerOf <- MCAnswerOf
  Plug <- Reactions
  Mode = {"enabled", "off"}
  Slot = {w1, w2}
  NoEvent = NoEvent
  MaxCrashes = 1
  MaxFaults = 1
INVARIANTS
  TypeOK
  RepetitionsAreBounded
  RepetitionsSubmitNothing
PROPERTIES
  EveryEventSettles
  EveryMentionRuns
