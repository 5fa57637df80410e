\* Whether the lines logged are the runner's lines (expected to fail).
CONSTANT MaxChars <- MCMaxChars
SPECIFICATION Spec
INVARIANT LoggedLinesMatchRunner
CHECK_DEADLOCK FALSE
