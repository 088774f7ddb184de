SPECIFICATION UnitsSpec
CONSTANTS
  Objects = {o1, o2}
  MaxMade = 4
  Tables = {t1, t2}
  Arr = Arr
  MaxTables = 3
  MaxCount = 2
  MaxLost = 1
  Grammars <- MCGrammars
  Orders = {0, 1, 2, 3}
  Others <- MCOthers
  Seconds <- MCSeconds
  Ffts = {f1, f2}
  Samples = {0, 1}
  Sizes = {0, 2, 3, 4}
  MaxInits = 2
  MaxSynths = 4
  ReadSamps = 3
  Words = 2
  MaxTicks = 7
SYMMETRY Symmetry
VIEW View
CONSTRAINTS FewMisuses OneLong
INVARIANTS UnitsSafe UnitsCompute TablesAccounted DeletedOnce TicksItself UnitsAgree
\* the objects are destroyed, or the process dies
CHECK_DEADLOCK FALSE
