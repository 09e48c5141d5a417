SPECIFICATION MCSpec
CONSTANTS
  Parts = {"waiting", "direction", "edited", "replayed", "approval", "claims", "replies",
           "watches"}
  Panes = {p1}
  Summaries = {t1, t2}
  Envelopes <- SmallEnvelopes
  MaxId = 2
  MaxPid = 2
  MaxBatch = 2
  Limit = 2
  Requests = 3
  Prompts = {a, b}
SYMMETRY Symmetry
INVARIANTS
  QueuesReplay
  WaitingIsCurrent
  
  BoardIsHonest
PROPERTIES
  DeliveredOnceInOrder
CHECK_DEADLOCK FALSE
