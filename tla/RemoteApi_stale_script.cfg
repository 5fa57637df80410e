\* Which install.sh a start runs.
CONSTANTS
    p1 = p1
    p2 = p2
    Projects <- MCProjects
    Trees <- MCTrees
    MaxStarts <- MCMaxStarts
SPECIFICATION Spec
INVARIANT ScriptRunsCurrent
CHECK_DEADLOCK FALSE
