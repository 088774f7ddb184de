SPECIFICATION Spec
CONSTANTS
  Names = {"repl", "a", "b"}
  First = "repl"
  MaxLines = 3
INVARIANT CancelCancels
\* the prompt may end
CHECK_DEADLOCK FALSE
