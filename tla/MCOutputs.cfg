SPECIFICATION OutputsSpec
CONSTANTS
  Frames = 2
  Channels = {0, 1, 2, 3}
  MaxBlocks = 3
  Sizes <- MCSizes
  MaxCalls = 2
  MaxItems = 2
INVARIANTS SamplesPlaced WidgetsSafe
PROPERTIES DelIsSafe Stops WindowsDrawn
\* a driver that was deleted does nothing more, and panels may be closed
CHECK_DEADLOCK FALSE
