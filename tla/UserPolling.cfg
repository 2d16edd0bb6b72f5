\* Two messages of a group, one mentioning the Bot, six instants, a message
\* may be indexed one instant too late, and a clock that may lag.
SPECIFICATION Spec
CONSTANTS
  None = None
  Msg = {1, 2}
  Conversations = {1}
  Conversation <- OneConversation
  Direct = {}
  Mentioning = {1}
  InitialLookback = 2
  Overlap = 1
  IndexingDelay = 1
  MaxIndexing = 2
  MaxBehind = 1
  MaxTime = 5
  BotIsAdded = TRUE
  Delivered = {1}
  Edited = {1}
CONSTRAINT LoopRuns
INVARIANTS
  NothingSkipped
  OneEventPerState
  ThreadsShowTheNewest
PROPERTIES
  WatermarkFollowsWindows
