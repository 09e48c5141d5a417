SPECIFICATION Spec
CONSTANTS
  Parts = {"typing", "pasting", "local", "remote", "tasks", "panels", "browsing", "marking",
           "overnight", "resuming", "rows"}
  Limit = 1
  Chars = {"a", "W"}
  Counts = {1}
  ReflowSeq = 4
  AltSeq = 5
  PaintSeq = 4
  Rows = 2
  Wheel = 1
  MaxText = 3
  FrameCap = 2
  FrameRoom = 8
  MaxFrames = 4
  MaxTyped = 3
  MaxMoves = 4
  MaxSteps = 4
INVARIANTS
  KeysMeanWhatTheySay
  
  

  
CHECK_DEADLOCK FALSE
