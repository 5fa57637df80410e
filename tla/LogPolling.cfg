\* Line-diff logging of update_job: each line logged once, and never other
\* than as a prefix of the runner's line.
CONSTANT MaxChars <- MCMaxChars
SPECIFICATION Spec
INVARIANT LoggedOncePerLine
INVARIANT LoggedLinesPrefixOfRunner
\* The runner may exit having written nothing, after which nothing happens.
CHECK_DEADLOCK FALSE
