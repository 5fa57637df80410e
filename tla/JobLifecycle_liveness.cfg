\* Liveness of the job lifecycle under the orchestrator's and the
\* scheduler's weak fairness, and its refinement of the abstract
\* lifecycle, one job.
CONSTANTS
    j1 = j1
    j2 = j2
    Jobs <- MCOneJob
    NoJob = NoJob
SPECIFICATION FairSpec
PROPERTY CancelHonoured
PROPERTY JobsComplete
PROPERTY DeletionCompletes
PROPERTY ImplementsJobStateMachine
CHECK_DEADLOCK FALSE
