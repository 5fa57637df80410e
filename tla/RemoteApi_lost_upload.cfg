\* Termination of install() when an upload may never become visible.
CONSTANTS
    p1 = p1
    p2 = p2
    Projects <- MCProjects
    Trees <- MCTrees
    MaxStarts <- MCMaxStarts
SPECIFICATION LossySpec
PROPERTY InstallTerminates
CHECK_DEADLOCK FALSE
