SPECIFICATION Spec
CONSTANTS
  Len = 3
  Voices = 1
  Grain = 2
  Unit = 2
  Word = 65536
  Places <- MCPlaces
  Rates <- MCRates
  Bounds = {0, 1, 3, 4}
  Inputs <- MCInputs
  Ramps = {0, 1, 2}
  Modes = {"INTERNAL", "POSITION", "DURATION"}
  MaxCalls = 4
PROPERTIES VoicesReadInside TicksInBuffer RecordNotAmplified BiContinuous FadeTurnsSmoothly VoicesEnd
\* a tick of a loop whose ends are the wrong way round never returns
CHECK_DEADLOCK FALSE
