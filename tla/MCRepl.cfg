SPECIFICATION Spec
CONSTANTS
  Names = {"repl", "a", "b"}
  First = "repl"
  MaxLines = 3
INVARIANTS NamesUnique StackBalanced
\* the prompt may end
CHECK_DEADLOCK FALSE
