SPECIFICATION MCFairSpec
CONSTANTS
  Parts = {"seam", "driver", "direction"}
  Subjects <- MCSubjects
  SizeOf <- MCSizeOf
  MaxMessages = 3
  MaxBytes = 4
  ReplyCapacity = 1
  MaxPush = 3
  MaxWorker = 1
  Templates <- PairAlone
  MaxTurns = 1
  Panes = {p1}
PROPERTIES
  EventuallyDelivered
  ValidationsEnd
  DirectionResolves
CHECK_DEADLOCK FALSE
