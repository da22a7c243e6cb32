SPECIFICATION Spec
CONSTANTS
  Event = {3, 4}
  Kind <- MCKind
  About <- MCAbout
  Message <- Messages
  Reaction <- Reactions
  Thread = {"thread"}
  ThreadOf <- MCThreadOf
  Answer = {"answer"}
  AnswerOf <- MCAnswerOf
  Plug <- Reactions
  Mode = {"enabled"}
  Slot = {w1, w2}
  NoEvent = NoEvent
  MaxCrashes = 0
  MaxFaults = 0
INVARIANTS
  RemovedReactionsAreInactive
