SPECIFICATION LoopSpec
CONSTANTS
  Shreds = {s1, s2}
  Sizes = {1, 2, 3, 4}
  MaxBytes = 5
  NoOne = NoOne
  Callback = Callback
PROPERTY ReadsIncoming
CHECK_DEADLOCK FALSE
