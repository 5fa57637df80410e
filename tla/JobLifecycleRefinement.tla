----------------------- MODULE JobLifecycleRefinement -----------------------
(***************************************************************************)
(* Proof that JobLifecycle implements the abstract job state machine       *)
(* JobStateMachine under the mapping of JobLifecycle.AbsLifecycle: a job's *)
(* abstract life is "absent" before post_job, "deleted" once delete_job    *)
(* dropped its row, and its job.state in between; the deletion request is  *)
(* job.please_delete.  Every step of the service, the scheduler and the    *)
(* runner is a step of the state machine or leaves the mapped state alone. *)
(* The proof rests on the inductive invariant IInv of JobLifecycleProofs:  *)
(* that a RUNNING job's run is never back in the queue is what makes a     *)
(* poll of a RUNNING job either a stutter or the step to FINISHED.         *)
(***************************************************************************)
EXTENDS JobLifecycleProofs

\* The job states are distinct string constants.
USE DEF SUBMITTED, STAGING_IN, STAGING_IN_CR, WAITING, WAITING_CR, RUNNING,
        RUNNING_CR, FINISHED, STAGING_OUT, STAGING_OUT_CR, SUCCESS,
        PERMANENT_FAILURE, TEMPORARY_FAILURE, SYSTEM_ERROR, CANCELLED

\* The abstract life of every job, the image of `life` under the mapping.
AbsLife == [k \in Jobs |-> Life(k)]

AbsNext == [AbsLifecycle!Next]_AbsLifecycle!vars

\* A step touches the store row and the state of job j alone.
OnlyJob(j) ==
    \A k \in Jobs \ {j} : registry'[k] = registry[k] /\ state'[k] = state[k]

\* The abstract state names are the concrete JobState values.
LEMMA StatesMatch == AbsLifecycle!States = JobStates
  BY DEF AbsLifecycle!States, AbsLifecycle!Busy, AbsLifecycle!Shadow,
         AbsLifecycle!Final, AbsLifecycle!Outcomes, JobStates,
         CancelRequested, Terminal

\* Every cancel-requested state is the shadow of a busy state.
LEMMA ShadowOfCancelRequested ==
    ASSUME NEW s \in CancelRequested
    PROVE  \E b \in AbsLifecycle!Busy : AbsLifecycle!Shadow[b] = s
  <1> USE DEF AbsLifecycle!Busy, AbsLifecycle!Shadow
  <1>1. CASE s = STAGING_IN_CR
    BY <1>1
  <1>2. CASE s = WAITING_CR
    BY <1>2
  <1>3. CASE s = RUNNING_CR
    BY <1>3
  <1>4. CASE s = STAGING_OUT_CR
    BY <1>4
  <1>5. QED
    BY <1>1, <1>2, <1>3, <1>4 DEF CancelRequested

\* cancel_job_by_id's try_transition chain takes at most one edge of the
\* abstract cancel relation.
LEMMA CancelTargetAbstract ==
    ASSUME NEW s \in JobStates
    PROVE  CancelTarget(s) \in AbsLifecycle!RequestCancelTo(s)
  <1>1. CASE s \in {SUBMITTED, FINISHED}
    <2>1. <<s, CancelTarget(s)>> \in AbsLifecycle!CancelEdges
      BY <1>1 DEF CancelTarget, TryTransition, AbsLifecycle!CancelEdges
    <2>2. QED
      BY <2>1 DEF AbsLifecycle!RequestCancelTo
  <1>2. CASE s \in AbsLifecycle!Busy
    <2>1. CancelTarget(s) = AbsLifecycle!Shadow[s]
      BY <1>2 DEF CancelTarget, TryTransition, AbsLifecycle!Busy,
                  AbsLifecycle!Shadow
    <2>2. <<s, CancelTarget(s)>> \in AbsLifecycle!CancelEdges
      BY <1>2, <2>1 DEF AbsLifecycle!CancelEdges
    <2>3. QED
      BY <2>2 DEF AbsLifecycle!RequestCancelTo
  <1>3. CASE s \notin {SUBMITTED, FINISHED} \cup AbsLifecycle!Busy
    <2>1. CancelTarget(s) = s
      BY <1>3 DEF CancelTarget, TryTransition, AbsLifecycle!Busy
    <2>2. QED
      BY <2>1 DEF AbsLifecycle!RequestCancelTo
  <1>4. QED
    BY <1>1, <1>2, <1>3

\* A step that changes the store row of job j alone changes the abstract
\* life of j alone.
LEMMA MapExcept ==
    ASSUME TypeOK, TypeOK', NEW j \in Jobs, NEW t,
           OnlyJob(j), Life(j)' = t
    PROVE  AbsLife' = [AbsLife EXCEPT ![j] = t]
  BY DEF AbsLife, Life, TypeOK, OnlyJob

\* A step that leaves the rows, states and deletion flags alone is an
\* abstract stutter.
LEMMA MapStutter ==
    ASSUME registry' = registry, state' = state, pleaseDelete' = pleaseDelete
    PROVE  AbsNext
  BY DEF AbsNext, AbsLifecycle!vars, Life


\* A step of job j along a progress edge is an abstract Advance.
LEMMA AdvanceStep ==
    ASSUME TypeOK, TypeOK', NEW j \in Jobs, NEW from, NEW to,
           <<from, to>> \in AbsLifecycle!Progress,
           OnlyJob(j), Life(j) = from, Life(j)' = to,
           pleaseDelete' = pleaseDelete
    PROVE  AbsNext
  <1>1. AbsLife' = [AbsLife EXCEPT ![j] = to]
    BY MapExcept
  <1>2. AbsLifecycle!Advance(j)
    BY <1>1 DEF AbsLifecycle!Advance, AbsLife
  <1>3. QED
    BY <1>2 DEF AbsNext, AbsLifecycle!Next

\* A step of the store that cancels job j as cancel_job_by_id does.
LEMMA CancelStep ==
    ASSUME TypeOK, TypeOK', NEW j \in Jobs, registry[j] = "present",
           registry'[j] = "present", state'[j] = CancelTarget(state[j]),
           OnlyJob(j)
    PROVE  /\ AbsLife' = [AbsLife EXCEPT ![j] = CancelTarget(state[j])]
           /\ AbsLife[j] \in AbsLifecycle!States
           /\ CancelTarget(state[j]) \in AbsLifecycle!RequestCancelTo(AbsLife[j])
  <1>1. Life(j) = state[j] /\ Life(j)' = CancelTarget(state[j])
    BY DEF Life
  <1>2. state[j] \in JobStates
    BY DEF TypeOK
  <1>3. QED
    BY <1>1, <1>2, MapExcept, StatesMatch, CancelTargetAbstract DEF AbsLife

-----------------------------------------------------------------------------

\* post_job creates, cancel_job_by_id requests a cancel, delete_job_by_id
\* requests a cancel and the deletion.
LEMMA FrontEndRefines ==
    ASSUME IInv, IInv', NEW j \in Jobs, FrontEnd(j)
    PROVE  AbsNext
  <1> USE DEF IInv
  <1>1. CASE PostJob(j)
    <2>1. OnlyJob(j) /\ Life(j)' = "SUBMITTED"
      BY <1>1 DEF PostJob, OnlyJob, Life, TypeOK
    <2>2. AbsLife' = [AbsLife EXCEPT ![j] = "SUBMITTED"]
      BY <2>1, MapExcept
    <2>3. AbsLifecycle!Create(j)
      BY <1>1, <2>2 DEF AbsLifecycle!Create, AbsLife, Life, PostJob
    <2>4. QED
      BY <2>3 DEF AbsNext, AbsLifecycle!Next
  <1>2. CASE CancelJobById(j)
    <2>1. OnlyJob(j) /\ registry'[j] = "present"
      BY <1>2 DEF CancelJobById, OnlyJob, TypeOK
    <2>2. state'[j] = CancelTarget(state[j])
      BY <1>2 DEF CancelJobById, TypeOK
    <2>3. /\ AbsLife' = [AbsLife EXCEPT ![j] = CancelTarget(state[j])]
          /\ AbsLife[j] \in AbsLifecycle!States
          /\ CancelTarget(state[j]) \in AbsLifecycle!RequestCancelTo(AbsLife[j])
      BY <1>2, <2>1, <2>2, CancelStep DEF CancelJobById
    <2>4. AbsLifecycle!RequestCancel(j)
      BY <1>2, <2>3 DEF CancelJobById, AbsLifecycle!RequestCancel, AbsLife
    <2>5. QED
      BY <2>4 DEF AbsNext, AbsLifecycle!Next
  <1>3. CASE DeleteJobById(j)
    <2>1. OnlyJob(j) /\ registry'[j] = "present"
      BY <1>3 DEF DeleteJobById, OnlyJob, TypeOK
    <2>2. state'[j] = CancelTarget(state[j])
      BY <1>3 DEF DeleteJobById, TypeOK
    <2>3. /\ AbsLife' = [AbsLife EXCEPT ![j] = CancelTarget(state[j])]
          /\ AbsLife[j] \in AbsLifecycle!States
          /\ CancelTarget(state[j]) \in AbsLifecycle!RequestCancelTo(AbsLife[j])
      BY <1>3, <2>1, <2>2, CancelStep DEF DeleteJobById
    <2>4. AbsLifecycle!RequestDelete(j)
      BY <1>3, <2>3 DEF DeleteJobById, AbsLifecycle!RequestDelete, AbsLife
    <2>5. QED
      BY <2>4 DEF AbsNext, AbsLifecycle!Next
  <1>4. QED
    BY <1>1, <1>2, <1>3 DEF FrontEnd

\* The scheduler and the runner touch only the remote side.
LEMMA RunnerRefines ==
    ASSUME NEW j \in Jobs, Runner(j)
    PROVE  AbsNext
  BY MapStutter DEF Runner, SchedStart, RunnerWriteLog, RunnerWriteOutput,
                    RunnerExit, store

\* Each orchestrator step is an advance, a completed cancel, a deletion, or
\* leaves the rows alone.
LEMMA OrchestratorRefines ==
    ASSUME IInv, IInv', NEW j \in Jobs, Orchestrator(j)
    PROVE  AbsNext
  <1> USE DEF IInv, Live, Unlocked
  <1>1. CASE StartStaging(j)
    <2>1. OnlyJob(j) /\ Life(j) = SUBMITTED /\ Life(j)' = STAGING_IN
      BY <1>1 DEF StartStaging, OnlyJob, Life, TypeOK
    <2>2. QED
      BY <1>1, <2>1, AdvanceStep DEF StartStaging, AbsLifecycle!Progress
  <1>2. CASE StageJob(j)
    BY <1>2, MapStutter DEF StageJob
  <1>3. CASE StageJobFails(j)
    <2>1. OnlyJob(j) /\ Life(j) = STAGING_IN /\ Life(j)' = SYSTEM_ERROR
      BY <1>3 DEF StageJobFails, OnlyJob, Life, TypeOK
    <2>2. QED
      BY <1>3, <2>1, AdvanceStep DEF StageJobFails, AbsLifecycle!Progress
  <1>4. CASE SubmitJob(j)
    <2>1. OnlyJob(j) /\ Life(j) = STAGING_IN /\ Life(j)' = WAITING
      BY <1>4 DEF SubmitJob, OnlyJob, Life, TypeOK
    <2>2. QED
      BY <1>4, <2>1, AdvanceStep DEF SubmitJob, AbsLifecycle!Progress
  <1>5. CASE PollScheduler(j)
    \* The scheduler has the run queued, running or done (RemoteRunInv), and
    \* a RUNNING job's run is not queued: the poll stutters or advances.
    <2>1. /\ sched[j] \in {"queued", "running", "done"}
          /\ state[j] = RUNNING => sched[j] # "queued"
      BY <1>5 DEF PollScheduler, RemoteRunInv
    <2>2. /\ OnlyJob(j)
          /\ Life(j) = state[j] /\ Life(j)' = state'[j]
          /\ pleaseDelete' = pleaseDelete
      BY <1>5 DEF PollScheduler, OnlyJob, Life, TypeOK
    <2>3. CASE state'[j] = state[j]
      <3>1. state' = state
        BY <2>2, <2>3 DEF OnlyJob, TypeOK
      <3>2. QED
        BY <1>5, <3>1, MapStutter DEF PollScheduler
    <2>4. CASE state'[j] # state[j]
      <3>1. <<state[j], state'[j]>> \in AbsLifecycle!Progress
        BY <1>5, <2>1, <2>4 DEF PollScheduler, AbsLifecycle!Progress, TypeOK
      <3>2. QED
        BY <2>2, <3>1, AdvanceStep
    <2>5. QED
      BY <2>3, <2>4
  <1>6. CASE UpdateJob(j)
    BY <1>6, MapStutter DEF UpdateJob
  <1>7. CASE HonourCancel(j)
    <2>1. OnlyJob(j) /\ Life(j) = state[j] /\ Life(j)' = CANCELLED
      BY <1>7 DEF HonourCancel, OnlyJob, Life, TypeOK
    <2>2. AbsLife' = [AbsLife EXCEPT ![j] = CANCELLED]
      BY <2>1, MapExcept
    <2>3. \E b \in AbsLifecycle!Busy : AbsLifecycle!Shadow[b] = AbsLife[j]
      BY <1>7, <2>1, ShadowOfCancelRequested DEF HonourCancel, AbsLife
    <2>4. AbsLifecycle!CompleteCancel(j)
      BY <1>7, <2>2, <2>3 DEF HonourCancel, AbsLifecycle!CompleteCancel, AbsLife
    <2>5. QED
      BY <2>4 DEF AbsNext, AbsLifecycle!Next
  <1>8. CASE StartStagingOut(j)
    <2>1. OnlyJob(j) /\ Life(j) = FINISHED /\ Life(j)' = STAGING_OUT
      BY <1>8 DEF StartStagingOut, OnlyJob, Life, TypeOK
    <2>2. QED
      BY <1>8, <2>1, AdvanceStep DEF StartStagingOut, AbsLifecycle!Progress
  <1>9. CASE DestageJobOutput(j)
    <2>1. /\ OnlyJob(j) /\ Life(j) = STAGING_OUT
          /\ Life(j)' \in {SYSTEM_ERROR, GetCwltoolResult(remoteError[j])}
      BY <1>9 DEF DestageJobOutput, OnlyJob, Life, TypeOK
    <2>2. GetCwltoolResult(remoteError[j]) \in Terminal \ {CANCELLED}
      BY GetCwltoolResultTerminal
    <2>3. <<STAGING_OUT, Life(j)'>> \in AbsLifecycle!Progress
      BY <2>1, <2>2 DEF AbsLifecycle!Progress, AbsLifecycle!Outcomes, Terminal
    <2>4. QED
      BY <1>9, <2>1, <2>3, AdvanceStep DEF DestageJobOutput
  <1>10. CASE DeleteJob(j)
    <2>1. OnlyJob(j) /\ Life(j) = state[j] /\ Life(j)' = "deleted"
      BY <1>10 DEF DeleteJob, OnlyJob, Life, TypeOK
    <2>2. AbsLife' = [AbsLife EXCEPT ![j] = "deleted"]
      BY <2>1, MapExcept
    <2>3. AbsLifecycle!Delete(j)
      BY <1>10, <2>1, <2>2 DEF DeleteJob, AbsLifecycle!Delete, AbsLife,
                               AbsLifecycle!Final, AbsLifecycle!Outcomes, Terminal
    <2>4. QED
      BY <2>3 DEF AbsNext, AbsLifecycle!Next
  <1>11. QED
    BY <1>1, <1>2, <1>3, <1>4, <1>5, <1>6, <1>7, <1>8, <1>9, <1>10
    DEF Orchestrator

-----------------------------------------------------------------------------

\* The service implements the job state machine of spec section 4.7: no
\* interleaving of the REST calls, the orchestrator's steps, the scheduler
\* and the runner takes a job along an edge the state machine lacks, cancels
\* it other than by one try_transition, or deletes it unasked or unfinished.
THEOREM RefinesJobStateMachine == Spec => ImplementsJobStateMachine
  <1>1. Init => AbsLifecycle!Init
    BY DEF Init, AbsLifecycle!Init, Life
  <1>2. IInv /\ IInv' /\ [Next]_vars => AbsNext
    <2> SUFFICES ASSUME IInv, IInv', [Next]_vars PROVE AbsNext
      OBVIOUS
    <2>1. CASE UNCHANGED vars
      BY <2>1, MapStutter DEF vars, store
    <2>2. CASE Next
      BY <2>2, FrontEndRefines, OrchestratorRefines, RunnerRefines DEF Next
    <2>3. QED
      BY <2>1, <2>2
  <1>3. QED
    BY <1>1, <1>2, SpecIInv, PTL
    DEF Spec, ImplementsJobStateMachine, AbsLifecycle!Spec, AbsNext

=============================================================================
