\* Whether the installer creates the remote base directory.
CONSTANTS
    p1 = p1
    p2 = p2
    Projects <- MCProjects
    Trees <- MCTrees
    MaxStarts <- MCMaxStarts
SPECIFICATION Spec
PROPERTY BaseNeverCreated
CHECK_DEADLOCK FALSE
