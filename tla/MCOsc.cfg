SPECIFICATION Spec
CONSTANTS
  Objects = {o1, o2}
  Methods = {k1}
  Ints <- MCInts
  Half = 4
  Slots = 2
  MaxLate = 1
  Alone = o1
  MaxMessages = 2
  MaxAdds = 2
  NoMethod = NoMethod
INVARIANTS ServerCounted InOrderOnce LaterArgsHeld SentAsAdded
PROPERTY StopEnds
\* every shred may wait for a silent network
CHECK_DEADLOCK FALSE
