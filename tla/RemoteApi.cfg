\* The installer across three starts of the service, with restarts at any
\* point and install.sh uploads that become visible later.
CONSTANTS
    p1 = p1
    p2 = p2
    Projects <- MCProjects
    Trees <- MCTrees
    MaxStarts <- MCMaxStarts
SPECIFICATION FairSpec
INVARIANT InstallComplete
INVARIANT StepRefsResolve
INVARIANT ScriptRunsOnStagedProject
PROPERTY InstallTerminates
PROPERTY ImplementsInstallProtocol
\* A start ends with install() done or failed; the service then serves.
CHECK_DEADLOCK FALSE
