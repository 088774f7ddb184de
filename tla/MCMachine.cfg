SPECIFICATION Spec
CONSTANTS
  Shreds = {s1, s2, s3}
  Main = s1
  Lines = 2
  Strings = {0, 1}
  MaxWrites = 1
  Numbers = {1, 2}
INVARIANTS ThreadsSafe LinesOnceInOrder NumbersUnique
PROPERTY ComesBack
\* every shred may end
CHECK_DEADLOCK FALSE
