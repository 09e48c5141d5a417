SPECIFICATION MCSpec
CONSTANTS
  Parts = {"seam", "driver"}
  Subjects <- MCSubjects
  SizeOf <- MCSizeOf
  MaxMessages = 2
  MaxBytes = 3
  ReplyCapacity = 1
  MaxPush = 4
  MaxWorker = 1
  Templates <- PairAndRelay
  MaxTurns = 2
  Panes = {p1}
INVARIANTS
  DeliveredInPushOrder
  AcceptedIsKept
  StateIsSettled
PROPERTIES
  RunStepsAreGated
CHECK_DEADLOCK FALSE
