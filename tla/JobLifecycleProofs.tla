------------------------- MODULE JobLifecycleProofs -------------------------
(***************************************************************************)
(* Proofs about JobLifecycle for every set of jobs: type correctness;      *)
(* that a terminal job never has a runner queued or running, nor a removed *)
(* one a remote directory; and that a job that ran ends in the state its   *)
(* runner's final output and log dictate.  All rest on the inductive       *)
(* invariant IInv.                                                         *)
(***************************************************************************)
EXTENDS JobLifecycle, TLAPS

Busy == {WAITING, RUNNING, WAITING_CR, RUNNING_CR}

\* The job states are distinct string constants.
USE DEF SUBMITTED, STAGING_IN, STAGING_IN_CR, WAITING, WAITING_CR, RUNNING,
        RUNNING_CR, FINISHED, STAGING_OUT, STAGING_OUT_CR, SUCCESS,
        PERMANENT_FAILURE, TEMPORARY_FAILURE, SYSTEM_ERROR, CANCELLED

\* The try_transition chain of cancel_job_by_id stays within JobStates.
LEMMA CancelTargetType ==
    ASSUME NEW s \in JobStates
    PROVE  CancelTarget(s) \in JobStates
  BY DEF CancelTarget, TryTransition, JobStates, CancelRequested, Terminal

\* ... and a job is busy (has a runner) after it exactly when before it.
LEMMA CancelTargetBusy ==
    ASSUME NEW s \in JobStates
    PROVE  CancelTarget(s) \in Busy <=> s \in Busy
  BY DEF CancelTarget, TryTransition, Busy, JobStates, CancelRequested,
         Terminal

\* ... it never starts a job's run, never yields FINISHED, reaches the
\* destaging states only from them, yields a running state only from one,
\* and leaves a final state as it is.
LEMMA CancelTargetOutcome ==
    ASSUME NEW s \in JobStates
    PROVE  /\ CancelTarget(s) \in {SUBMITTED, STAGING_IN, STAGING_IN_CR} =>
                 s \in {SUBMITTED, STAGING_IN, STAGING_IN_CR}
           /\ CancelTarget(s) \in {FINISHED, STAGING_OUT, STAGING_OUT_CR} =>
                 s \in {STAGING_OUT, STAGING_OUT_CR}
           /\ CancelTarget(s) \in {RUNNING, RUNNING_CR} => s \in {RUNNING, RUNNING_CR}
           /\ CancelTarget(s) \in Terminal \ {CANCELLED} => CancelTarget(s) = s
  BY DEF CancelTarget, TryTransition, JobStates, CancelRequested, Terminal

\* The classifier yields a final state other than CANCELLED.
LEMMA GetCwltoolResultTerminal ==
    ASSUME NEW log
    PROVE  GetCwltoolResult(log) \in Terminal \ {CANCELLED}
  BY DEF GetCwltoolResult, Terminal

-----------------------------------------------------------------------------

LEMMA InitIInv == Init => IInv
  BY JobsAssumption
  DEF Init, IInv, TypeOK, RemoteRunInv, OutcomeInv, ExpectedOutcome, JobStates, Active, SchedStates,
      OutputKinds, Markers

\* The runner's steps.
LEMMA RunnerIInv ==
    ASSUME IInv, NEW j \in Jobs, Runner(j)
    PROVE  IInv'
  <1> USE DEF IInv, TypeOK, RemoteRunInv, OutcomeInv, ExpectedOutcome, Active, SchedStates
  <1>1. CASE SchedStart(j)
    BY <1>1 DEF SchedStart, store
  <1>2. CASE RunnerWriteLog(j)
    BY <1>2 DEF RunnerWriteLog, store, Markers
  <1>3. CASE RunnerWriteOutput(j)
    BY <1>3 DEF RunnerWriteOutput, store, OutputKinds
  <1>4. CASE RunnerExit(j)
    BY <1>4 DEF RunnerExit, store
  <1>5. QED
    BY <1>1, <1>2, <1>3, <1>4 DEF Runner

\* The front end's steps.
LEMMA FrontEndIInv ==
    ASSUME IInv, NEW j \in Jobs, FrontEnd(j)
    PROVE  IInv'
  <1> USE DEF IInv, TypeOK, RemoteRunInv, OutcomeInv, ExpectedOutcome, remote
  <1>1. CASE PostJob(j)
    BY <1>1 DEF PostJob, JobStates, Active
  <1>2. CASE CancelJobById(j)
    <2>1. CancelTarget(state[j]) \in JobStates
      BY CancelTargetType
    <2>2. CancelTarget(state[j]) \in Busy <=> state[j] \in Busy
      BY CancelTargetBusy
    <2>3. /\ CancelTarget(state[j]) \in {SUBMITTED, STAGING_IN, STAGING_IN_CR} =>
               state[j] \in {SUBMITTED, STAGING_IN, STAGING_IN_CR}
          /\ CancelTarget(state[j]) \in {FINISHED, STAGING_OUT, STAGING_OUT_CR} =>
               state[j] \in {STAGING_OUT, STAGING_OUT_CR}
          /\ CancelTarget(state[j]) \in {RUNNING, RUNNING_CR} =>
               state[j] \in {RUNNING, RUNNING_CR}
          /\ CancelTarget(state[j]) \in Terminal \ {CANCELLED} =>
               CancelTarget(state[j]) = state[j]
      BY CancelTargetOutcome
    <2>4. QED
      BY <1>2, <2>1, <2>2, <2>3 DEF CancelJobById, Busy
  <1>3. CASE DeleteJobById(j)
    <2>1. CancelTarget(state[j]) \in JobStates
      BY CancelTargetType
    <2>2. CancelTarget(state[j]) \in Busy <=> state[j] \in Busy
      BY CancelTargetBusy
    <2>3. /\ CancelTarget(state[j]) \in {SUBMITTED, STAGING_IN, STAGING_IN_CR} =>
               state[j] \in {SUBMITTED, STAGING_IN, STAGING_IN_CR}
          /\ CancelTarget(state[j]) \in {FINISHED, STAGING_OUT, STAGING_OUT_CR} =>
               state[j] \in {STAGING_OUT, STAGING_OUT_CR}
          /\ CancelTarget(state[j]) \in {RUNNING, RUNNING_CR} =>
               state[j] \in {RUNNING, RUNNING_CR}
          /\ CancelTarget(state[j]) \in Terminal \ {CANCELLED} =>
               CancelTarget(state[j]) = state[j]
      BY CancelTargetOutcome
    <2>4. QED
      BY <1>3, <2>1, <2>2, <2>3 DEF DeleteJobById, Busy
  <1>4. QED
    BY <1>1, <1>2, <1>3 DEF FrontEnd

\* The orchestrator's steps.
LEMMA OrchestratorIInv ==
    ASSUME IInv, NEW j \in Jobs, Orchestrator(j)
    PROVE  IInv'
  <1> USE JobsAssumption DEF IInv, TypeOK, RemoteRunInv, OutcomeInv, ExpectedOutcome,
                             Live, Unlocked
  <1>1. CASE StartStaging(j)
    BY <1>1 DEF StartStaging, JobStates, Terminal, remote
  <1>2. CASE StageJob(j)
    BY <1>2 DEF StageJob
  <1>3. CASE StageJobFails(j)
    BY <1>3 DEF StageJobFails, JobStates, Terminal, Active
  <1>4. CASE SubmitJob(j)
    BY <1>4 DEF SubmitJob, JobStates, Terminal, SchedStates, Active
  <1>5. CASE PollScheduler(j)
    BY <1>5 DEF PollScheduler, JobStates, Terminal, Active, remote
  <1>6. CASE UpdateJob(j)
    \* Whatever the files hold, the poll leaves the snapshots equal to them.
    <2>1. remoteOutput'[j] = stdout[j]
      BY <1>6 DEF UpdateJob
    <2>2. remoteError'[j] = stderr[j]
      <3>1. CASE stderr[j] = {}
        BY <1>6, <3>1 DEF UpdateJob
      <3>2. CASE stderr[j] # {}
        BY <1>6, <3>2 DEF UpdateJob
      <3>3. QED
        BY <3>1, <3>2
    <2>3. QED
      BY <1>6, <2>1, <2>2 DEF UpdateJob, OutputKinds, Markers, remote
  <1>7. CASE HonourCancel(j)
    BY <1>7 DEF HonourCancel, JobStates, Terminal, CancelRequested,
                SchedStates, Active
  <1>8. CASE StartStagingOut(j)
    BY <1>8 DEF StartStagingOut, JobStates, Terminal, Active, remote
  <1>9. CASE DestageJobOutput(j)
    <2>1. GetCwltoolResult(remoteError[j]) \in Terminal
      BY GetCwltoolResultTerminal
    <2>2. QED
      BY <1>9, <2>1 DEF DestageJobOutput, JobStates, Terminal, Active, remote
  <1>10. CASE DeleteJob(j)
    BY <1>10 DEF DeleteJob, Terminal, Active
  <1>11. QED
    BY <1>1, <1>2, <1>3, <1>4, <1>5, <1>6, <1>7, <1>8, <1>9, <1>10
    DEF Orchestrator

LEMMA NextIInv == IInv /\ [Next]_vars => IInv'
  <1> SUFFICES ASSUME IInv, [Next]_vars PROVE IInv'
    OBVIOUS
  <1>1. CASE Next
    BY <1>1, RunnerIInv, FrontEndIInv, OrchestratorIInv DEF Next
  <1>2. CASE UNCHANGED vars
    BY <1>2 DEF vars, store, remote, IInv, TypeOK, RemoteRunInv, OutcomeInv,
           ExpectedOutcome
  <1>3. QED
    BY <1>1, <1>2

-----------------------------------------------------------------------------

THEOREM SpecIInv == Spec => []IInv
  BY InitIInv, NextIInv, PTL DEF Spec

\* Type correctness: every reachable state gives every variable its type.
THEOREM TypeCorrect == Spec => []TypeOK
  BY SpecIInv, PTL DEF IInv

\* A terminal job has no runner queued or running on the compute resource
\* (cancel_job_by_id and the poller halt the run before CANCELLED).
THEOREM TerminalQuiescentHolds == Spec => []TerminalQuiescent
  <1>1. IInv => TerminalQuiescent
    BY DEF IInv, RemoteRunInv, TerminalQuiescent, Active, Terminal
  <1>2. QED
    BY <1>1, SpecIInv, PTL

\* A job dropped from the store leaves no directory and no runner behind.
THEOREM NoOrphanRemoteWorkHolds == Spec => []NoOrphanRemoteWork
  <1>1. IInv => NoOrphanRemoteWork
    BY DEF IInv, RemoteRunInv, NoOrphanRemoteWork, Active, Terminal
  <1>2. QED
    BY <1>1, SpecIInv, PTL

\* A job that ran and did not end CANCELLED ends only after its runner
\* exited, in the state get_cwltool_result gives for the runner's complete
\* stderr (SYSTEM_ERROR for an output outside work/): the poll reads the
\* scheduler before stdout.txt and stderr.txt, under one store lock.
THEOREM OutcomeMatchesRunnerHolds == Spec => []OutcomeMatchesRunner
  <1>1. IInv => OutcomeMatchesRunner
    BY DEF IInv, OutcomeInv, OutcomeMatchesRunner
  <1>2. QED
    BY <1>1, SpecIInv, PTL

=============================================================================
