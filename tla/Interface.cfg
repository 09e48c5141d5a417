SPECIFICATION Spec
CONSTANTS
  Parts = {"reflow", "alt", "paint", "copy", "arena", "behind", "answered", "closing", "sharing",
           "control", "subscribe", "command"}
  Limit = 1
  Chars = {"a", "W"}
  Counts = {1}
  ReflowSeq = 4
  AltSeq = 5
  PaintSeq = 4
  Rows = 2
  Wheel = 1
  MaxText = 3
  FrameCap = 2
  FrameRoom = 8
  MaxFrames = 4
  MaxTyped = 3
  MaxMoves = 4
  MaxSteps = 4
INVARIANTS
  
  PicturesCatchUp
  
PROPERTIES
  ResizeKeepsText
CHECK_DEADLOCK FALSE
