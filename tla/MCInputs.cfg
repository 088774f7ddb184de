SPECIFICATION InputsSpec
CONSTANTS
  Shreds = {s1, s2}
  Loopers = {s1}
  MaxEvents = 3
  Sizes = {1, 2, 3, 4}
  MaxBytes = 5
  NoOne = NoOne
  Reader = Reader
  Callback = Callback
INVARIANTS ExactlyOnce TeardownSafe Framed
PROPERTIES FifosSpec DrainsDeliver VMsNeverStuck WokenForWholeMessage VMStuckOnlyInDtor
\* a device may be silent or unplugged while every shred waits
CHECK_DEADLOCK FALSE
