SPECIFICATION Spec
CONSTANTS
  Parts = {"closing"}
  Limit = 1
  Chars = {"a", "W"}
  Counts = {1}
  ReflowSeq = 4
  AltSeq = 5
  PaintSeq = 4
  Rows = 2
  Wheel = 1
  MaxText = 3
  FrameCap = 5
  FrameRoom = 12
  MaxFrames = 6
  MaxTyped = 3
  MaxMoves = 4
  MaxSteps = 4
INVARIANT FullRepaintFollows
CHECK_DEADLOCK FALSE
