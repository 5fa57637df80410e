---------------------------- MODULE JobLifecycle ----------------------------
(***************************************************************************)
(* The job lifecycle of the Cerise service: the REST controller that       *)
(* creates, cancels and deletes jobs (front_end/controllers/               *)
(* default_controller.py), the orchestrator that drives each job through   *)
(* staging, submission, polling, destaging and classification, the remote  *)
(* job directory protocol (back_end/remote_job_files.py), the runner-log   *)
(* classifier (back_end/cwl.py get_cwltool_result), and the remote         *)
(* scheduler and CWL runner as the environment.                            *)
(*                                                                         *)
(* Every job-store step runs inside `with _job_store:`; the store lock is  *)
(* modelled only where a step spans two reads of the remote side (a poll:  *)
(* scheduler status, then update_job), because every other step is atomic  *)
(* with respect to the other store users.  The remote runner is not        *)
(* stopped by that lock: it progresses between the two reads of a poll.    *)
(***************************************************************************)
EXTENDS Naturals

CONSTANTS
    Jobs,       \* job ids the store may hand out
    NoJob       \* "nobody holds the store lock for a poll"

ASSUME JobsAssumption == NoJob \notin Jobs

(***************************************************************************)
(* JobState (cerise/job_store/job_state.py).                               *)
(***************************************************************************)
SUBMITTED == "SUBMITTED"
STAGING_IN == "STAGING_IN"
STAGING_IN_CR == "STAGING_IN_CR"
WAITING == "WAITING"
WAITING_CR == "WAITING_CR"
RUNNING == "RUNNING"
RUNNING_CR == "RUNNING_CR"
FINISHED == "FINISHED"
STAGING_OUT == "STAGING_OUT"
STAGING_OUT_CR == "STAGING_OUT_CR"
SUCCESS == "SUCCESS"
PERMANENT_FAILURE == "PERMANENT_FAILURE"
TEMPORARY_FAILURE == "TEMPORARY_FAILURE"
SYSTEM_ERROR == "SYSTEM_ERROR"
CANCELLED == "CANCELLED"

CancelRequested == {STAGING_IN_CR, WAITING_CR, RUNNING_CR, STAGING_OUT_CR}
Terminal == {SUCCESS, PERMANENT_FAILURE, TEMPORARY_FAILURE, SYSTEM_ERROR,
             CANCELLED}
JobStates == {SUBMITTED, STAGING_IN, WAITING, RUNNING, FINISHED, STAGING_OUT}
             \cup CancelRequested \cup Terminal

(***************************************************************************)
(* The four substrings get_cwltool_result looks for in the runner's        *)
(* standard error, and what the runner may print on standard output: no    *)
(* output binding, one whose File locations lie in the job's work/         *)
(* directory, or one with a location outside it.                           *)
(***************************************************************************)
Markers == {"validationFailed", "permanentFail", "temporaryFail", "success"}
FinalStatus == {"permanentFail", "temporaryFail", "success"}
OutputKinds == {"none", "inside", "outside"}

\* Scheduler view of the runner process of a job.
SchedStates == {"none", "queued", "running", "done", "cancelled"}
Active == {"queued", "running"}

VARIABLES
    registry,      \* "absent" | "present" | "removed": the job's store row
    state,         \* job.state
    pleaseDelete,  \* job.please_delete
    staged,        \* job.remote_*_path recorded by stage_job
    remoteOutput,  \* job.remote_output: what update_job last read of stdout
    remoteError,   \* job.remote_error: what update_job last read of stderr
    localOutput,   \* the output files destage_job_output handed back
    workdir,       \* the remote directory jobs/<id>/ exists
    sched,         \* the scheduler's state of the job's runner process
    stdout,        \* the runner's stdout.txt (an output binding)
    stderr,        \* the markers the runner has written to stderr.txt
    polling        \* the job whose poll holds the store lock, or NoJob

store == <<registry, state, pleaseDelete, staged, remoteOutput, remoteError,
           localOutput>>
remote == <<workdir, sched, stdout, stderr>>
vars == <<store, remote, polling>>

TypeOK ==
    /\ registry \in [Jobs -> {"absent", "present", "removed"}]
    /\ state \in [Jobs -> JobStates]
    /\ pleaseDelete \in [Jobs -> BOOLEAN]
    /\ staged \in [Jobs -> BOOLEAN]
    /\ remoteOutput \in [Jobs -> OutputKinds]
    /\ remoteError \in [Jobs -> SUBSET Markers]
    /\ localOutput \in [Jobs -> OutputKinds]
    /\ workdir \in [Jobs -> BOOLEAN]
    /\ sched \in [Jobs -> SchedStates]
    /\ stdout \in [Jobs -> OutputKinds]
    /\ stderr \in [Jobs -> SUBSET Markers]
    /\ polling \in Jobs \cup {NoJob}

(***************************************************************************)
(* get_cwltool_result: substring rules in priority order.                  *)
(***************************************************************************)
\* Mutation: the trailing `return JobState.SYSTEM_ERROR` left out, so an
\* unrecognised log makes the function return None.
GetCwltoolResultNoDefault(log) ==
    IF "validationFailed" \in log THEN PERMANENT_FAILURE
    ELSE IF "permanentFail" \in log THEN PERMANENT_FAILURE
    ELSE IF "temporaryFail" \in log THEN TEMPORARY_FAILURE
    ELSE IF "success" \in log THEN SUCCESS
    ELSE "None"

GetCwltoolResult(log) ==
    IF "validationFailed" \in log THEN PERMANENT_FAILURE
    ELSE IF "permanentFail" \in log THEN PERMANENT_FAILURE
    ELSE IF "temporaryFail" \in log THEN TEMPORARY_FAILURE
    ELSE IF "success" \in log THEN SUCCESS
    ELSE SYSTEM_ERROR

\* job.try_transition(from, to): a no-op unless the state is `from`.
TryTransition(s, from, to) == IF s = from THEN to ELSE s

\* The chain of try_transition calls in cancel_job_by_id, in code order.
CancelTarget(s) ==
    TryTransition(TryTransition(TryTransition(TryTransition(TryTransition(
    TryTransition(s, SUBMITTED, CANCELLED),
                     STAGING_IN, STAGING_IN_CR),
                     WAITING, WAITING_CR),
                     RUNNING, RUNNING_CR),
                     FINISHED, CANCELLED),
                     STAGING_OUT, STAGING_OUT_CR)

\* Every store step takes the store lock, held by a poll between its reads.
Unlocked == polling = NoJob

Init ==
    /\ registry = [j \in Jobs |-> "absent"]
    /\ state = [j \in Jobs |-> SUBMITTED]
    /\ pleaseDelete = [j \in Jobs |-> FALSE]
    /\ staged = [j \in Jobs |-> FALSE]
    /\ remoteOutput = [j \in Jobs |-> "none"]
    /\ remoteError = [j \in Jobs |-> {}]
    /\ localOutput = [j \in Jobs |-> "none"]
    /\ workdir = [j \in Jobs |-> FALSE]
    /\ sched = [j \in Jobs |-> "none"]
    /\ stdout = [j \in Jobs |-> "none"]
    /\ stderr = [j \in Jobs |-> {}]
    /\ polling = NoJob

(***************************************************************************)
(* Front end (default_controller.py).                                      *)
(***************************************************************************)

\* post_job: the store creates a fresh row in state SUBMITTED.
PostJob(j) ==
    /\ Unlocked
    /\ registry[j] = "absent"
    /\ registry' = [registry EXCEPT ![j] = "present"]
    /\ state' = [state EXCEPT ![j] = SUBMITTED]
    /\ UNCHANGED <<pleaseDelete, staged, remoteOutput, remoteError,
                   localOutput, remote, polling>>

\* cancel_job_by_id: the try_transition chain, under the store lock.
CancelJobById(j) ==
    /\ Unlocked
    /\ registry[j] = "present"
    /\ state' = [state EXCEPT ![j] = CancelTarget(state[j])]
    /\ UNCHANGED <<registry, pleaseDelete, staged, remoteOutput, remoteError,
                   localOutput, remote, polling>>

\* delete_job_by_id: cancel_job_by_id and please_delete in one lock scope.
DeleteJobById(j) ==
    /\ Unlocked
    /\ registry[j] = "present"
    /\ state' = [state EXCEPT ![j] = CancelTarget(state[j])]
    /\ pleaseDelete' = [pleaseDelete EXCEPT ![j] = TRUE]
    /\ UNCHANGED <<registry, staged, remoteOutput, remoteError, localOutput,
                   remote, polling>>

(***************************************************************************)
(* Orchestrator: one step per job per cycle, each under the store lock.    *)
(***************************************************************************)

Live(j) == Unlocked /\ registry[j] = "present"

\* A submitted job is taken up for staging.
StartStaging(j) ==
    /\ Live(j)
    /\ state[j] = SUBMITTED
    /\ state' = [state EXCEPT ![j] = STAGING_IN]
    /\ UNCHANGED <<registry, pleaseDelete, staged, remoteOutput, remoteError,
                   localOutput, remote, polling>>

\* stage_job: creates jobs/<id>/ and work/, writes name, workflow, inputs
\* and input.json, and records the remote paths on the job.
StageJob(j) ==
    /\ Live(j)
    /\ state[j] = STAGING_IN
    /\ ~staged[j]
    /\ workdir' = [workdir EXCEPT ![j] = TRUE]
    /\ staged' = [staged EXCEPT ![j] = TRUE]
    /\ UNCHANGED <<registry, state, pleaseDelete, remoteOutput, remoteError,
                   localOutput, sched, stdout, stderr, polling>>

\* stage_job raising part way (a copy or write failing after the job
\* directory was made); the caller marks the job failed.
StageJobFails(j) ==
    /\ Live(j)
    /\ state[j] = STAGING_IN
    /\ ~staged[j]
    /\ workdir' = [workdir EXCEPT ![j] = TRUE]
    /\ state' = [state EXCEPT ![j] = SYSTEM_ERROR]
    /\ UNCHANGED <<registry, pleaseDelete, staged, remoteOutput, remoteError,
                   localOutput, sched, stdout, stderr, polling>>

\* A staged job is submitted to the scheduler and waits.
SubmitJob(j) ==
    /\ Live(j)
    /\ state[j] = STAGING_IN
    /\ staged[j]
    /\ sched' = [sched EXCEPT ![j] = "queued"]
    /\ state' = [state EXCEPT ![j] = WAITING]
    /\ UNCHANGED <<registry, pleaseDelete, staged, remoteOutput, remoteError,
                   localOutput, workdir, stdout, stderr, polling>>

\* First half of a poll: the scheduler's view of the runner becomes the
\* job's state; the store lock stays held until update_job has run.
PollScheduler(j) ==
    /\ Live(j)
    /\ state[j] \in {WAITING, RUNNING}
    /\ state' = [state EXCEPT ![j] =
                    CASE sched[j] = "queued"  -> WAITING
                      [] sched[j] = "running" -> RUNNING
                      [] sched[j] = "done"    -> FINISHED]
    /\ polling' = j
    /\ UNCHANGED <<registry, pleaseDelete, staged, remoteOutput, remoteError,
                   localOutput, remote>>

\* Mutation: the stderr read nested under the `len(output) > 0` check.
UpdateJobLogOnlyWithOutput(j) ==
    /\ polling = j
    /\ remoteOutput' = [remoteOutput EXCEPT ![j] =
                           IF stdout[j] # "none" THEN stdout[j]
                           ELSE remoteOutput[j]]
    /\ remoteError' = [remoteError EXCEPT ![j] =
                          IF stdout[j] # "none" /\ stderr[j] # {}
                          THEN stderr[j] ELSE remoteError[j]]
    /\ polling' = NoJob
    /\ UNCHANGED <<registry, state, pleaseDelete, staged, localOutput, remote>>

\* update_job, the second half of a poll: stdout.txt becomes remote_output
\* and stderr.txt remote_error, each only when the file is non-empty.
UpdateJob(j) ==
    /\ polling = j
    /\ remoteOutput' = [remoteOutput EXCEPT ![j] =
                           IF stdout[j] # "none" THEN stdout[j]
                           ELSE remoteOutput[j]]
    /\ remoteError' = [remoteError EXCEPT ![j] =
                          IF stderr[j] # {} THEN stderr[j]
                          ELSE remoteError[j]]
    /\ polling' = NoJob
    /\ UNCHANGED <<registry, state, pleaseDelete, staged, localOutput, remote>>

\* Mutation: the poller moves the job to CANCELLED without halting its run.
HonourCancelNoHalt(j) ==
    /\ Live(j)
    /\ state[j] \in CancelRequested
    /\ state' = [state EXCEPT ![j] = CANCELLED]
    /\ UNCHANGED <<registry, pleaseDelete, staged, remoteOutput, remoteError,
                   localOutput, remote, polling>>

\* Mutation: the poller does not check for STAGING_OUT_CR.
HonourCancelSkipsStagingOut(j) ==
    /\ Live(j)
    /\ state[j] \in CancelRequested \ {STAGING_OUT_CR}
    /\ sched' = [sched EXCEPT ![j] =
                    IF sched[j] \in Active THEN "cancelled" ELSE sched[j]]
    /\ state' = [state EXCEPT ![j] = CANCELLED]
    /\ UNCHANGED <<registry, pleaseDelete, staged, remoteOutput, remoteError,
                   localOutput, workdir, stdout, stderr, polling>>

\* A cancel-requested job: the poller halts the remote run, if any, and
\* moves the job to CANCELLED.
HonourCancel(j) ==
    /\ Live(j)
    /\ state[j] \in CancelRequested
    /\ sched' = [sched EXCEPT ![j] =
                    IF sched[j] \in Active THEN "cancelled" ELSE sched[j]]
    /\ state' = [state EXCEPT ![j] = CANCELLED]
    /\ UNCHANGED <<registry, pleaseDelete, staged, remoteOutput, remoteError,
                   localOutput, workdir, stdout, stderr, polling>>

\* A finished job is taken up for destaging.
StartStagingOut(j) ==
    /\ Live(j)
    /\ state[j] = FINISHED
    /\ state' = [state EXCEPT ![j] = STAGING_OUT]
    /\ UNCHANGED <<registry, pleaseDelete, staged, remoteOutput, remoteError,
                   localOutput, remote, polling>>

\* Mutation: destaging without the `remote_output != ''` else-branch: an
\* empty output leaves the job where it is.
DestageJobOutputNeedsOutput(j) ==
    /\ Live(j)
    /\ state[j] = STAGING_OUT
    /\ remoteOutput[j] # "none"
    /\ IF remoteOutput[j] = "outside"
         THEN /\ state' = [state EXCEPT ![j] = SYSTEM_ERROR]
              /\ UNCHANGED localOutput
         ELSE /\ localOutput' = [localOutput EXCEPT ![j] = remoteOutput[j]]
              /\ state' = [state EXCEPT ![j] =
                              GetCwltoolResult(remoteError[j])]
    /\ UNCHANGED <<registry, pleaseDelete, staged, remoteOutput, remoteError,
                   remote, polling>>

\* destage_job_output, then the outcome from get_cwltool_result on
\* remote_error.  An output location outside work/ raises and the caller
\* marks the job SYSTEM_ERROR; an empty remote_output is logged and yields
\* no files.
DestageJobOutput(j) ==
    /\ Live(j)
    /\ state[j] = STAGING_OUT
    /\ IF remoteOutput[j] = "outside"
         THEN /\ state' = [state EXCEPT ![j] = SYSTEM_ERROR]
              /\ UNCHANGED localOutput
         ELSE /\ localOutput' = [localOutput EXCEPT ![j] = remoteOutput[j]]
              /\ state' = [state EXCEPT ![j] =
                              GetCwltoolResult(remoteError[j])]
    /\ UNCHANGED <<registry, pleaseDelete, staged, remoteOutput, remoteError,
                   remote, polling>>

\* Mutation: the row is dropped but the remote directory is left behind.
DeleteJobKeepsDir(j) ==
    /\ Live(j)
    /\ pleaseDelete[j]
    /\ state[j] \in Terminal
    /\ registry' = [registry EXCEPT ![j] = "removed"]
    /\ UNCHANGED <<state, pleaseDelete, staged, remoteOutput, remoteError,
                   localOutput, remote, polling>>

\* Mutation: only cancelled jobs are reaped.
DeleteJobOnlyCancelled(j) ==
    /\ Live(j)
    /\ pleaseDelete[j]
    /\ state[j] = CANCELLED
    /\ workdir' = [workdir EXCEPT ![j] = FALSE]
    /\ registry' = [registry EXCEPT ![j] = "removed"]
    /\ UNCHANGED <<state, pleaseDelete, staged, remoteOutput, remoteError,
                   localOutput, sched, stdout, stderr, polling>>

\* Mutation: the reaper removes every final job, asked for or not.
DeleteJobUnrequested(j) ==
    /\ Live(j)
    /\ state[j] \in Terminal
    /\ workdir' = [workdir EXCEPT ![j] = FALSE]
    /\ registry' = [registry EXCEPT ![j] = "removed"]
    /\ UNCHANGED <<state, pleaseDelete, staged, remoteOutput, remoteError,
                   localOutput, sched, stdout, stderr, polling>>

\* A job with please_delete in a terminal state: delete_job removes its
\* remote directory (if it exists) and the store drops the row.
DeleteJob(j) ==
    /\ Live(j)
    /\ pleaseDelete[j]
    /\ state[j] \in Terminal
    /\ workdir' = [workdir EXCEPT ![j] = FALSE]
    /\ registry' = [registry EXCEPT ![j] = "removed"]
    /\ UNCHANGED <<state, pleaseDelete, staged, remoteOutput, remoteError,
                   localOutput, sched, stdout, stderr, polling>>

(***************************************************************************)
(* Environment: the scheduler and the CWL runner on the compute resource.  *)
(***************************************************************************)

SchedStart(j) ==
    /\ sched[j] = "queued"
    /\ sched' = [sched EXCEPT ![j] = "running"]
    /\ UNCHANGED <<store, workdir, stdout, stderr, polling>>

\* cwltool prints at most one "Final process status is ..." line, possibly
\* after "Tool definition failed validation:".
RunnerWriteLog(j) ==
    /\ sched[j] = "running"
    /\ \E m \in Markers \ stderr[j] :
          /\ m \in FinalStatus => stderr[j] \cap FinalStatus = {}
          /\ stderr' = [stderr EXCEPT ![j] = @ \cup {m}]
    /\ UNCHANGED <<store, workdir, sched, stdout, polling>>

RunnerWriteOutput(j) ==
    /\ sched[j] = "running"
    /\ stdout[j] = "none"
    /\ \E o \in OutputKinds \ {"none"} :
          stdout' = [stdout EXCEPT ![j] = o]
    /\ UNCHANGED <<store, workdir, sched, stderr, polling>>

RunnerExit(j) ==
    /\ sched[j] = "running"
    /\ sched' = [sched EXCEPT ![j] = "done"]
    /\ UNCHANGED <<store, workdir, stdout, stderr, polling>>

FrontEnd(j) == PostJob(j) \/ CancelJobById(j) \/ DeleteJobById(j)

Orchestrator(j) ==
    \/ StartStaging(j) \/ StageJob(j) \/ StageJobFails(j) \/ SubmitJob(j)
    \/ PollScheduler(j) \/ UpdateJob(j) \/ HonourCancel(j)
    \/ StartStagingOut(j) \/ DestageJobOutput(j) \/ DeleteJob(j)

Runner(j) ==
    SchedStart(j) \/ RunnerWriteLog(j) \/ RunnerWriteOutput(j) \/ RunnerExit(j)

Next == \E j \in Jobs : FrontEnd(j) \/ Orchestrator(j) \/ Runner(j)

(***************************************************************************)
(* Fairness: the orchestrator loop keeps cycling over every job, so each   *)
(* of its steps that stays enabled is taken (StageJobFails is a failure,   *)
(* not a step the loop takes by choice); the scheduler eventually starts   *)
(* a queued job and the runner eventually exits.  Users (post, cancel,     *)
(* delete) and what the runner prints are not forced.                      *)
(***************************************************************************)
Fairness ==
    \A j \in Jobs :
        /\ WF_vars(StartStaging(j)) /\ WF_vars(StageJob(j))
        /\ WF_vars(SubmitJob(j)) /\ WF_vars(PollScheduler(j))
        /\ WF_vars(UpdateJob(j)) /\ WF_vars(HonourCancel(j))
        /\ WF_vars(StartStagingOut(j)) /\ WF_vars(DestageJobOutput(j))
        /\ WF_vars(DeleteJob(j))
        /\ WF_vars(SchedStart(j)) /\ WF_vars(RunnerExit(j))

Spec == Init /\ [][Next]_vars
FairSpec == Spec /\ Fairness

(***************************************************************************)
(* Properties.                                                             *)
(***************************************************************************)

\* The outcome the runner's complete stderr and stdout dictate.
ExpectedOutcome(j) ==
    IF stdout[j] = "outside" THEN SYSTEM_ERROR ELSE GetCwltoolResult(stderr[j])

\* A job that ran remotely and ended other than by cancellation ended after
\* its runner exited, with the outcome the runner's complete log and output
\* dictate: the poll reads the scheduler before the files (PollScheduler,
\* UpdateJob), so a log still being written is never classified.
OutcomeMatchesRunner ==
    \A j \in Jobs :
        state[j] \in Terminal \ {CANCELLED} /\ sched[j] # "none" =>
            /\ sched[j] = "done"
            /\ state[j] = ExpectedOutcome(j)

\* A job in a terminal state has no runner queued or running: cancellation
\* (cancel_job_by_id, then the poller) halts a remote run before CANCELLED.
TerminalQuiescent ==
    \A j \in Jobs : state[j] \in Terminal => sched[j] \notin Active

\* Once the store has dropped a deleted job (delete_job), nothing of it is
\* left on the compute resource: no directory and no runner writing into it.
NoOrphanRemoteWork ==
    \A j \in Jobs :
        registry[j] = "removed" => ~workdir[j] /\ sched[j] \notin Active

\* Inductive strengthening of TerminalQuiescent and NoOrphanRemoteWork (see
\* JobLifecycleProofs): a runner exists only for a job between submission
\* and the end of its poll, a job not yet posted is untouched, and a
\* removed job is terminal with no directory.
RemoteRunInv ==
    \A j \in Jobs :
        /\ state[j] \in {WAITING, RUNNING, WAITING_CR, RUNNING_CR} =>
              sched[j] \in {"queued", "running", "done"}
        /\ sched[j] \in Active =>
              state[j] \in {WAITING, RUNNING, WAITING_CR, RUNNING_CR}
        /\ state[j] \in {RUNNING, RUNNING_CR} => sched[j] # "queued"
        /\ registry[j] = "absent" => sched[j] = "none" /\ state[j] = SUBMITTED
        /\ registry[j] = "removed" => state[j] \in Terminal /\ ~workdir[j]

\* Inductive strengthening of OutcomeMatchesRunner: job.remote_output and
\* job.remote_error are snapshots of stdout.txt and stderr.txt, which only
\* grow; no runner exists before submission; and from the end of the poll
\* that saw the runner done, the snapshots are the runner's final files.
OutcomeInv ==
    \A j \in Jobs :
        /\ remoteOutput[j] \in {"none", stdout[j]}
        /\ remoteError[j] \subseteq stderr[j]
        /\ state[j] \in {SUBMITTED, STAGING_IN, STAGING_IN_CR} => sched[j] = "none"
        /\ state[j] \in {FINISHED, STAGING_OUT, STAGING_OUT_CR} => sched[j] = "done"
        /\ \/ state[j] \in {STAGING_OUT, STAGING_OUT_CR}
           \/ state[j] = FINISHED /\ polling # j
           => remoteOutput[j] = stdout[j] /\ remoteError[j] = stderr[j]
        /\ state[j] \in Terminal \ {CANCELLED} /\ sched[j] # "none" =>
              sched[j] = "done" /\ state[j] = ExpectedOutcome(j)

IInv == TypeOK /\ RemoteRunInv /\ OutcomeInv

\* The refinement mapping: the store's row, or its absence, as the job's
\* place in the abstract lifecycle.
Life(j) ==
    CASE registry[j] = "absent"  -> "absent"
      [] registry[j] = "removed" -> "deleted"
      [] OTHER                   -> state[j]

AbsLifecycle == INSTANCE JobStateMachine
                    WITH life <- [j \in Jobs |-> Life(j)],
                         delRequested <- pleaseDelete

\* The controller, the orchestrator and the poller together implement the
\* lifecycle of spec 4.7: every step of a job's row is a step of the
\* abstract state machine or leaves it alone, and a row is dropped only
\* after delete_job_by_id asked for it and the job is final.
ImplementsJobStateMachine == AbsLifecycle!Spec

\* A cancel request is always carried out by the poller.
CancelHonoured ==
    \A j \in Jobs : state[j] \in CancelRequested ~> state[j] = CANCELLED

\* Every posted job reaches a terminal state.
JobsComplete ==
    \A j \in Jobs : registry[j] = "present" ~> state[j] \in Terminal

\* Every job the user deleted is eventually removed from the store.
DeletionCompletes ==
    \A j \in Jobs : pleaseDelete[j] ~> registry[j] = "removed"
=============================================================================
