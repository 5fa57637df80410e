\* Safety of the job lifecycle with two jobs.
CONSTANTS
    j1 = j1
    j2 = j2
    Jobs <- MCJobs
    NoJob = NoJob
SPECIFICATION Spec
SYMMETRY MCSymmetry
INVARIANT TypeOK
INVARIANT OutcomeMatchesRunner
INVARIANT TerminalQuiescent
INVARIANT NoOrphanRemoteWork
CHECK_DEADLOCK FALSE
