SPECIFICATION Spec
CONSTANTS
  Len = 3
  Voices = 1
  Grain = 2
  Unit = 2
  Word = 65536
  Places <- MCPlaces
  Rates <- MCRates
  Bounds = {0, 1, 2, 4}
  Inputs <- MCInputs
  Ramps = {0, 1, 2}
  Modes = {"INTERNAL"}
  MaxCalls = 2
INVARIANT TicksReturn
CHECK_DEADLOCK FALSE
