# A TLA+ verification project for the Cerise CWL service

This directory holds TLA+ models of the Cerise service in `src/cerise`. Cerise runs
CWL workflows on a remote compute resource on behalf of REST clients. The project has:

- the modules that model the service;
- the TLC configurations that check those modules on small instances;
- the TLAPS proofs of the safety properties that the passing runs check (all but those
  of `InputStaging`), for every value of the constants, and of two refinements: the job
  lifecycle onto an abstract job state machine, and the API installer onto an abstract
  install protocol.

`PROJECT.json` is the machine-readable manifest. It maps every definition to the
source lines it models, lists every run, mutant, finding and hazard, and names the
proved theorems.

## 1. The system and its parts

| Part | Code | What it does |
|---|---|---|
| REST front end | `front_end/controllers/default_controller.py` | `post_job` creates a job. `cancel_job_by_id` runs a chain of `try_transition` calls. `delete_job_by_id` cancels and sets `please_delete`. The other endpoints only read. |
| Job store and `JobState` | not under `src/` (spec §5) | Holds the jobs. Every user takes the store's lock (`with _job_store:`). There are 15 states: SUBMITTED, STAGING_IN, WAITING, RUNNING, FINISHED, STAGING_OUT, the `_CR` cancel-requested variants of the four middle states, and SUCCESS, PERMANENT_FAILURE, TEMPORARY_FAILURE, SYSTEM_ERROR and CANCELLED. |
| Orchestrator (execution manager) | not under `src/` (spec §4.7) | A loop over the jobs. It takes each job one step along its lifecycle: stage, submit, poll, honour a cancel, destage, classify, delete. |
| Remote job files | `back_end/remote_job_files.py` | `stage_job` creates the remote job directory and copies the inputs, renaming them (`_stage_input_file`, `_create_input_filename`). `update_job` reads `stdout.txt` and `stderr.txt` on every poll. `destage_job_output` collects the outputs. `delete_job` removes the directory. |
| Input resolver | `back_end/cwl.py` (`get_files_from_binding`, `get_secondary_files`), `back_end/input_file.py` | Finds every File object of an input or output binding, including its secondary files. |
| Result classifier | `back_end/cwl.py` `get_cwltool_result` | Turns the runner's stderr into a final job state. |
| Remote API installer | `back_end/remote_api.py` | Uploads the API steps and files. Runs the install script. Translates a workflow's step references to remote paths. |
| Compute resource | environment | The scheduler queues, starts and cancels the runner. The runner writes `stdout.txt` and `stderr.txt` and then exits. |

How the parts interact:

- Users act through the front end.
- The orchestrator and the front end share jobs only through the store, under its lock.
- The remote side is not stopped by that lock. The scheduler and the runner progress
  between any two steps of the service, including between the two reads of a poll.

## 2. Modules and how they correspond to the code

### `JobLifecycle`: front end, orchestrator and remote job files, all jobs together

- **Constants.**
  - `Jobs`: the job ids.
  - `NoJob`: means that no poll holds the store lock.
- **Store variables.**
  - `registry`: absent, present or removed.
  - `state`: the job state.
  - `pleaseDelete`.
  - `staged`: `stage_job` has run.
  - `remoteOutput` and `remoteError`: `job.remote_output` and `job.remote_error`.
  - `localOutput`: the destaged output.
- **Remote variables.**
  - `workdir`: the job directory exists.
  - `sched`: the scheduler's view: none, queued, running, done or cancelled.
  - `stdout` and `stderr`: what the runner has written.
- **Lock variable.** `polling` is the job whose poll holds the store lock between its two
  halves.

Data is abstracted to what the properties tell apart:

- The runner's output is "none", "inside" `work/` or "outside" it. "Outside" is the
  case that makes `destage_job_output` raise.
- The stderr text is the set of status markers it contains, because
  `get_cwltool_result` only tests for substrings.

Actions:

- **Front end.** `PostJob`, `CancelJobById` and `DeleteJobById`. Both of the latter apply
  `CancelTarget`, which is the `try_transition` chain in code order.
- **Orchestrator.** `StartStaging`, `StageJob`, `StageJobFails`, `SubmitJob`,
  `PollScheduler`, `UpdateJob`, `HonourCancel`, `StartStagingOut`, `DestageJobOutput` and
  `DeleteJob`.
  - `DestageJobOutput` also classifies the job with `GetCwltoolResult`, as the orchestrator
    does straight after destaging.
  - `StageJobFails` is `stage_job` raising after it has made the directory.
- **Environment.** `SchedStart`, `RunnerWriteLog`, `RunnerWriteOutput` and `RunnerExit`.

The orchestrator and `JobState` are not in `src/`. The actions that stand for them are
modelled from the spec and marked `spec_modelled` in the map.

A poll is two actions:

1. `PollScheduler` takes the store lock and sets the state from the scheduler.
2. `UpdateJob` reads the two files and releases the lock.

The runner may write or exit in between. This is the window that makes the outcome
properties interesting.

### `JobStateMachine`: what the job lifecycle promises (spec §4.7)

`JobStateMachine` is the abstract specification, written from the spec:

- **State.** `life[j]` is "absent", a job state, or "deleted". `delRequested[j]` says
  the user asked for the job's deletion.
- **`Create`.** A job is created SUBMITTED.
- **`Advance`.** A job moves along a `Progress` edge: stage in, wait, run, finish, stage
  out, reach an outcome, or fail in staging.
- **`RequestCancel` and `RequestDelete`.** A cancel takes at most one `CancelEdges` edge:
  an idle job (SUBMITTED, FINISHED) becomes CANCELLED, and a busy one becomes its `_CR`
  shadow. A delete also sets `delRequested`.
- **`CompleteCancel`.** A shadow state is left only for CANCELLED.
- **`Delete`.** A job is deleted only when asked and only once final.

`JobLifecycle` maps onto it through `AbsLifecycle == INSTANCE JobStateMachine WITH ...`:

- the abstract `life[j]` is `Life(j)`: "absent" before `post_job`, "deleted" once
  `delete_job` dropped the row, and `job.state` in between;
- `delRequested` is `please_delete`.

`ImplementsJobStateMachine == AbsLifecycle!Spec` is checked by TLC and proved by TLAPS.
Every step of the service, the scheduler and the runner must then be an abstract step or
leave the mapped state alone. The remote side, the store snapshots and the poll lock are
what the mapping hides.

### `RemoteApi`: the API installer and `translate_workflow` across service starts

- **Constants.**
  - `Projects`: the project directories.
  - `Trees`: the local API trees a start may be deployed with.
  - `MaxStarts`: how many times the service starts.
- **A local project tree.** Whether `files/` exists, its steps, the steps
  `_translate_api_step` rejects, and its `install.sh` ("none", "ok" or "fail").
  - A step is its path under `steps/`: `<<"w.cwl">>`, or `<<p, "w.cwl">>` in a
    subdirectory named after a project, which is the bundled layout (`steps/test/wc.cwl`
    in the tests).
  - The macro substitution inside a step is abstracted to whether the step is accepted.
- **The remote tree persists across starts.** Every object the installer writes is
  tagged with the start (`gen`) that wrote it:
  - `rdir`, `rfiles` and `rsteps` for the project directories, `files/` and the steps;
  - `rscript` for the visible `install.sh`;
  - `pending` for an upload that is not visible yet.
- **Installer actions, in code order.** `pc` follows `install()`:
  - `Construct`: `__init__`'s `mkdir(parents=True)`;
  - `NextProject` with `MakeRemoteProject`;
  - `StageApiFiles`;
  - `StageApiStep` and `TranslateApiStepFails` (the NameError path, which ends
    `install()`), then `StepsStaged`;
  - `StageInstallScript`, with its early return;
  - `WaitForScript`: the `exists()` loop;
  - `RunInstallScript`: runs the remote script if any, and a nonzero exit raises;
  - `InstallReturns`.
  - `ran` records the scripts the current start has run.
- **Environment.**
  - `ScriptLands(p)`: an upload becomes visible. The wait loop at line 209 exists
    because `cerulean.copy` can return before the file is visible.
  - `Restart`: the service stops at any point and starts again with a possibly different
    local tree.
- **Translation.** `TranslateRef(r)` is `translate_workflow` on one reference split on
  `/`: the remote path under `<base>/api` is `<r[1]>/steps/` followed by all of `r`.
  `SpecTranslateRef` is the spec §4.2 reading, which drops the project segment.
- **Layout.** The class docstring (lines 17-19) describes a
  `<project>/<api_major_version>/` layout that the code never builds. The model follows
  the code: `<base>/api/<project>/steps/...` and `<project>/files/`.

### `InstallProtocol`: what `install()` promises across starts

`InstallProtocol` is the abstract specification of the installer, without the remote
tree:

- **State.** `start` counts the service's starts. `phase` is "init", "installing",
  "done" or "failed". `installed` holds the projects this start has completed.
- **`Begin`.** A start begins installing with nothing installed.
- **`Install(p)`.** A project not yet installed by this start is installed.
- **`Finish`.** The start returns only once every project is installed.
- **`Fail`.** An installing start stops at a failure.
- **`Restart`.** The service starts again, with nothing installed.

`RemoteApi` maps onto it through `AbsInstall == INSTANCE InstallProtocol WITH ...`:

- `start` is `gen`;
- `phase` is `Phase`: `pc` itself for "init", "done" and "failed", and "installing"
  for every point inside the loop;
- `installed` is `InstalledSet`: `Projects \ todo` once `Construct` has run, and empty
  before.

A project counts as installed when its loop body ends, that is when `RunInstallScript`
succeeds. Every other installer step leaves the mapped state alone, except three:
`TranslateApiStepFails` and a failing script are `Fail`, and `InstallReturns` is
`Finish`. `ImplementsInstallProtocol == AbsInstall!Spec` is checked by TLC and proved by
TLAPS.

### `LogPolling`: the stderr part of `update_job`

- A text is what `str.splitlines()` makes of it: the completed lines plus the length of
  the unterminated tail. With a one-letter alphabet, a line is its length.
- The runner appends one character or one newline at a time.
- `UpdateJobLog` is lines 175–182: it logs `lines[len(remote_error.splitlines()):]` and
  stores the text.
- Properties:
  - `LoggedOncePerLine`: the job log has exactly as many lines as `remote_error`;
  - `LoggedLinesPrefixOfRunner`: every logged line is a prefix of the runner's line at
    its position (`LinesExtend`, pointwise `<=` on line lengths). It says finding 1 is
    the only way a logged line goes wrong: it can be cut short, never wrong or misplaced;
  - `LoggedLinesMatchRunner` (violated): every logged line is the runner's line.

### `InputStaging`: the input resolver and the input half of `stage_job`

- A JSON value is a record with a `kind`: File, Directory, another dict, List or Scalar.
- A binding is the sequence of its key/value entries.
- `GetSecondaryFiles`, `ListFiles` and `GetFilesFromBinding` are the code's resolver.
  They are RECURSIVE operators, as the code is recursive.
- `SpecSecondaryFiles`, `SpecListFiles` and `SpecGetFiles` are the resolver spec §4.3
  describes (`spec_modelled`).
- `StageInputFile`, `StageSecondaries` and `StageInputs` are `_stage_input_file` and
  `stage_job`'s input loop. They thread one running count through the recursion and
  rewrite every location in the input description.
- `StagedName(count, l)` is `_create_input_filename(str(count).zfill(2), l)`.
  - The sanitized part is the constant `Sanitize`. The MC module maps every location to
    the same sanitized name, the worst case for collisions.
  - The zero-padded count followed by `_` is unambiguous, so the name is modelled as the
    pair.
- The state is one job's binding, the staging phase, the `input.json` written and the
  sequence of copies made.

## 3. Runs

| Run | Checks | Expect | Shows |
|---|---|---|---|
| `jl_safety` | `TypeOK`, `OutcomeMatchesRunner`, `TerminalQuiescent`, `NoOrphanRemoteWork` | pass | the safety properties below, for 2 jobs (2.9M states) |
| `jl_liveness` | `CancelHonoured`, `JobsComplete`, `DeletionCompletes`, `ImplementsJobStateMachine` | pass | the liveness properties below and the refinement, for 1 job |
| `logpolling` | `LoggedOncePerLine`, `LoggedLinesPrefixOfRunner` | pass | each stderr line is logged exactly once, however polls interleave with writes, and at worst cut short |
| `logpolling_partial_line` | `LoggedLinesMatchRunner` | violation | a line polled mid-write is logged truncated (finding 1) |
| `input_staging` | `TypeOK`, `StagedInputsFaithful` | pass | every File of `input.json` points at its own, correct copy |
| `input_array_entries` | `ArrayEntriesResolved` | violation | array inputs raise TypeError (finding 2) |
| `input_secondary_entries` | `SecondaryEntriesValidated` | violation | non-object secondaryFiles entries are silently dropped (finding 3) |
| `remote_api` | `InstallComplete`, `StepRefsResolve`, `ScriptRunsOnStagedProject`, `InstallTerminates`, `ImplementsInstallProtocol` | pass | installs across restarts and failures leave the current tree in place, references resolve, installs end, and `install()` implements `InstallProtocol` (249k states) |
| `remote_api_spec_refs` | `SpecRefsResolve` | violation | the spec's translation of step references is not the code's (finding 4) |
| `remote_api_stale_script` | `ScriptRunsCurrent` | violation | an earlier start's `install.sh` is run (finding 5) |
| `remote_api_base_dir` | `BaseNeverCreated` | violation | a missing base directory is created (finding 6) |
| `remote_api_lost_upload` | `InstallTerminates` | violation | without uploads becoming visible, the wait loop hangs (finding 7) |

What the `JobLifecycle` properties say:

- **`OutcomeMatchesRunner`.** A job that the runner ran, and that ended other than
  CANCELLED, ended with the runner done and in the state the classifier gives for what the
  runner finally wrote. If the output is outside `work/`, that state is SYSTEM_ERROR. This
  is broken by reading stderr only under the stdout check: the poll that sees the run
  finish must read both files.
- **`TerminalQuiescent`.** A job in a final state has no run queued or running.
- **`NoOrphanRemoteWork`.** A removed job has no directory and no active run.
- **Legal state changes.** Final states are absorbing. CANCELLED is entered only from a
  `_CR` state, SUBMITTED or FINISHED, and a `_CR` state is left only for CANCELLED.
  There is no separate action property for this: each clause is an edge rule of
  `JobStateMachine`, so `ImplementsJobStateMachine` (checked in `jl_liveness`, proved
  for every set of jobs) already implies it for every job.
- **The liveness properties.** Under the fairness below:
  - `CancelHonoured`: a cancel request leads to CANCELLED;
  - `JobsComplete`: every posted job reaches a final state;
  - `DeletionCompletes`: every delete request leads to removal.

What the `RemoteApi` properties say:

- **`InstallComplete`.** When `install()` returns, every project directory exists, and
  its `files/` and each of its steps were written by this start, even if an earlier start
  crashed or failed part way. Every script this start ran exited 0.
- **`StepRefsResolve`.** When `install()` returns, `translate_workflow` rewrites a
  reference `<p>/<path>` to a step of project p at `steps/<p>/<path>` into a step this
  start installed. This ties the translator to the installer's layout.
- **`ScriptRunsOnStagedProject`.** Whenever a start has run a project's `install.sh`,
  that project's directory, `files/` and every step are the ones this start wrote. This
  holds even when an earlier start crashed part way through the same project. So the
  script never runs against a half-staged or older tree. (Which script runs is the
  separate question of finding 5.)
- **`InstallTerminates`.** Every start's `install()` returns or raises, provided uploads
  become visible.
- **`ImplementsInstallProtocol`.** `install()` implements `InstallProtocol` under
  the mapping above. So each start completes each project at most once, returns only
  when all are complete, and ends its install at the first failure. The mutant
  `InstallReturnsEarly` returns from `install()` with projects left, and TLC rejects it
  as a step the protocol has no counterpart for.
- **The violated ones.**
  - `SpecRefsResolve`: the same as `StepRefsResolve`, for the layout spec §4.2 implies.
  - `ScriptRunsCurrent`: every script run is this start's.
  - `BaseNeverCreated`: spec §4.4's refusal to create the base directory.

The refinement property `ImplementsJobStateMachine` is checked in the 1-job run. With two
jobs it makes the safety run four times slower, and TLAPS proves it for any number of
jobs anyway.

Every property of a passing run has a mutant in `PROJECT.json`. A mutant is a plausible
bug in the mapped code that TLC finds. Each is defined next to the definition it replaces.

### Bounds and why they are enough

- **Two jobs.** Two jobs are enough for every cross-job interaction: the shared poll lock,
  and one job's poll interleaving with another's cancel or delete. Jobs are symmetric
  model values.
- **Log markers.** The runner writes any subset of the four log markers, with at most one
  final status, as cwltool prints.
- **Output.** The runner writes either output kind.
- **Log polling.** `MaxChars = 4` allows two lines with a partial one between polls.
- **Input staging.** Bindings of one or two entries cover:
  - Files with nested secondary files, so counts are threaded through depth 2;
  - lists;
  - the odd shapes (Directory, dict, scalar).
  The two locations share one sanitized name.
- **API installer.** Two projects, three starts, and four layouts a project may have at
  each start, giving 16 trees:
  - bundled;
  - flat, with no `files/` and no script;
  - one with a rejected step;
  - one with a failing script.
  Three starts allow a crash, then a changed tree, then a clean start. Two projects let a
  failure or crash fall between one project's install and the next.

### Fairness

The fairness is the conjunction of weak fairness on each of the following:

- every orchestrator step except `StageJobFails`;
- `SchedStart` and `RunnerExit`.

The justification:

- The orchestrator's loop visits every job on every cycle, and each step is taken when
  its condition holds.
- A failure is not something the loop chooses, so `StageJobFails` is not fair.
- A queued job is eventually started by the scheduler.
- The runner eventually exits.

User requests and what the runner prints are not forced.

For `RemoteApi`, `FairSpec` assumes weak fairness of the installer, a single sequential
loop, and of each `ScriptLands(p)`: an upload eventually becomes visible. Restarts are
not forced. `LossySpec` drops the second assumption. It is what the code faces when an
upload is lost, and it is the spec under which `remote_api_lost_upload` fails.

## 4. What is proved

`JobLifecycleProofs` proves the following for every set `Jobs`, under the assumption
`NoJob \notin Jobs` (`JobsAssumption`):

- `TypeCorrect`: `Spec => []TypeOK`.
- `TerminalQuiescentHolds`: `Spec => []TerminalQuiescent`.
- `NoOrphanRemoteWorkHolds`: `Spec => []NoOrphanRemoteWork`.
- `OutcomeMatchesRunnerHolds`: `Spec => []OutcomeMatchesRunner`.

Every safety property that `jl_safety` checks is therefore also proved for any number
of jobs.

None of the properties is inductive on its own. They all rest on
`IInv == TypeOK /\ RemoteRunInv /\ OutcomeInv`.

`RemoteRunInv` says:

1. A busy job (WAITING, RUNNING or their `_CR` forms) has a run that is queued, running
   or done.
2. An active run belongs to a busy job.
3. A RUNNING job's run is not queued. This is used by the refinement proof.
4. A job not yet posted is SUBMITTED and has no run. Without this, `PostJob` would look
   as if it could reset a finished job.
5. A removed job is final and has no directory.

`OutcomeInv` says:

- `remote_output` and `remote_error` are snapshots of `stdout.txt` and `stderr.txt`.
  Those files only grow, so each snapshot is "nothing" or the current output, and a
  subset of the current log.
- A job before submission has no run.
- A job in FINISHED or a destaging state has a run that is done.
- From the end of the poll that saw the run done, the snapshots equal the runner's final
  files. This is why the poll must read the scheduler before the files, under one lock.
  The conjunct is guarded by `polling # j` because between the two halves of that poll
  they may still differ.
- A final job other than CANCELLED whose run is done is in the state `ExpectedOutcome`
  gives.

TLC checks `IInv` as an invariant on the two-job instance (2.9M states). The proof shows:

- `Init => IInv`.
- One lemma per actor (`RunnerIInv`, `FrontEndIInv`, `OrchestratorIInv`) that each step
  preserves `IInv`, with one case per action.
- Three lemmas on the `try_transition` chain:
  - it stays in `JobStates` (`CancelTargetType`);
  - it keeps a job busy exactly when it was busy (`CancelTargetBusy`);
  - it never yields FINISHED, reaches the destaging states only from themselves, and
    leaves final states alone (`CancelTargetOutcome`).
- That the classifier always returns a final state other than CANCELLED
  (`GetCwltoolResultTerminal`).

The invariance theorems follow by PTL.

`JobLifecycleRefinement` proves `RefinesJobStateMachine`:
`Spec => ImplementsJobStateMachine`, for every set of jobs.

- `Init` maps to the abstract `Init`.
- Under `IInv /\ IInv'`, every step maps to an abstract step or a stutter:
  - one lemma per actor (`FrontEndRefines`, `OrchestratorRefines`, `RunnerRefines`);
  - helper lemmas: `MapExcept` (a step on one job's row changes one entry of the mapped
    function), `MapStutter`, `AdvanceStep` and `CancelStep`;
  - `CancelTargetAbstract`: the `try_transition` chain takes at most one cancel edge;
  - `StatesMatch` and `ShadowOfCancelRequested`: the concrete and abstract state names
    agree.
- One fact needed a new conjunct of `RemoteRunInv`: a RUNNING (or RUNNING_CR) job's run
  is not queued. Without it, a poll of a RUNNING job could look like the step back to
  WAITING, which the state machine lacks.
- `CancelTargetOutcome` gained the matching clause: the chain yields a running state
  only from one.

`RemoteApiProofs` proves `InstallCompleteHolds`, `StepRefsResolveHolds` and
`ScriptRunsOnStagedProjectHolds` for every `Projects`, `Trees` and `MaxStarts`. The assumptions are:

- `TreesAssumption`: trees are well formed, with rejected steps among the steps;
- `MaxStartsAssumption`.

`InstallComplete` speaks only of the state when `install()` returns, so it is not
inductive. The invariant `IInv` (checked by TLC on the instance first) says:

- every project already visited is installed by this start;
- the project in hand is in `todo`, has its directory, and is installed as far as the
  loop has gone (its `files/`, and the steps no longer in `stepsTodo`);
- `done` means `todo` is empty;
- no script run by this start has failed unless the start has failed;
- `ran` is empty before `Construct`. A project whose script has run has left `todo`,
  unless the start failed on that very script. So no later step of the start writes to
  it, and `ScriptRunsOnStagedProject` is kept. That property is itself a conjunct.

`Restart` resets `pc` to "init" and `ran` to empty. This is why a crash part way never
breaks it. `StepRefsResolve` then follows from `IInv`: the witness for `Resolves` is the
step itself.

`RemoteApiRefinement` proves `RefinesInstallProtocol`:
`Spec => ImplementsInstallProtocol`, for every `Projects`, `Trees` and `MaxStarts`.

- `Init` maps to the abstract `Init` (`InitRefines`).
- Under `IInv`, every step maps to an abstract step or a stutter (`NextRefines`, one
  case per action):
  - `Construct` is `Begin`: `todo` becomes `Projects`, so `InstalledSet` stays empty.
  - `InsideStutter`: a step between two points of the loop that keeps `todo` and `gen`
    is a stutter. This covers `NextProject`, the staging steps, the wait loop and, with
    `MapStutter`, an upload landing.
  - `ProjectDone`: the end of a loop body is `Install(cur)`. It needs `IInv`'s
    conjunct that the project in hand is still in `todo`. Without it, the end of a body
    could install a project twice in one start.
  - `StartFails`: `TranslateApiStepFails` and a failing script are `Fail`.
  - `InstallReturns` is `Finish`: `IInv` gives `todo = {}` at the loop's exit, so
    `InstalledSet` is `Projects`.
  - `Restart` is the abstract `Restart`.
- The theorem follows by PTL from `[]IInv`, which comes from `InitIInv` and `NextIInv`
  of `RemoteApiProofs`.

`LogPollingProofs` proves `LoggedOncePerLineHolds` and `LoggedLinesPrefixHolds` for
every `MaxChars`. Neither property is inductive alone. A poll logs the lines past the
count of `remote_error`'s lines, and that is right only because the new text extends the
old one line by line: the runner only appends. The invariant `IInv` (checked by TLC with
`MaxChars = 5`, 44k states) says:

- the lines of `remote_error` are extended by those of `stderr.txt`;
- the logged lines are extended by those of `remote_error`;
- they have the same number of lines.

The proof rests on lemmas about the operators:

- `WriteCharExtends` and `WriteNewlineExtends`: a write of the runner only extends the
  lines `SplitLines` gives;
- `ExtendRefl` and `ExtendTrans`: `LinesExtend` is reflexive and transitive;
- `PollExtends`: appending `SubSeq(s, Len(r) + 1, Len(s))` to a log that matches `r`
  line for line gives a log that matches `s`, when `s` extends `r`. It uses
  `SubSeqProperties` and `ConcatProperties` of the library's `SequenceTheorems`.

Only TLC checks the rest:

- **The liveness properties**, `InstallTerminates` included. TLAPS cannot reason about
  fairness and ENABLED here.
- **`InputStaging`.**
  - It is built from RECURSIVE operators, and tlapm cannot use its SMT
    backend behind them.
  - What a recursive resolver computes for every input would need induction over data,
    which the installed provers cannot instantiate.

## 5. Findings

1. **Partial stderr lines** (`remote_job_files.py:178`). A last line the runner is still
   writing is counted as a line. It is logged cut short and its remainder is never logged.
2. **Array-valued inputs** (`cwl.py:97`). `get_files_from_binding` calls `InputFile` with
   five arguments. `__init__` takes four, so every array input holding a File raises
   TypeError. Array outputs in `destage_job_output` fail the same way.
3. **Secondary file entries** (`cwl.py:62`). Entries that are not objects are passed over,
   where spec §4.3 requires a validation error.

4. **Step references** (`remote_api.py:115`). `translate_workflow` keeps the project
   segment: `p/tool.cwl` becomes `<api>/p/steps/p/tool.cwl`. Spec §4.2 preserves only
   the remaining segments, giving `<api>/p/steps/tool.cwl`. The bundled test API follows
   the code, and a tree laid out as the spec says leaves every reference dangling.
5. **Stale install script** (`remote_api.py:218`). `_run_install_script` runs whatever
   `install.sh` exists remotely. A project that dropped its script reruns the old one at
   every start. A new upload that is not yet visible lets the `exists()` wait pass on
   the old script, which then runs.
6. **Base directory** (`remote_api.py:47`). `__init__` makes `<base>/api` with
   `parents=True`, creating a missing base. The docstring and spec §4.4 say the installer
   refuses to, as a safety check. `RemoteJobFiles.__init__`
   (`remote_job_files.py:51`) creates it the same way.
7. **No timeout on the upload wait** (`remote_api.py:209`). If an upload never becomes
   visible and no older script is there, `install()` spins forever.

Seen but not modelled: `cancel_job_by_id` tests `if not job`, but the store raises on an
unknown id, so cancelling a missing job is a 500 rather than a 404.
`_translate_api_step` formats the undefined name `filename` on its error path. The
model keeps the effect, which is that an exception ends `install()`, and not its type.

## 6. Not modelled, and the plan

- **`translate_runner_location`** and the `$CERISE_API_FILES` substitution inside step
  documents. They are string substitutions that change no state. The installer model
  keeps only whether a step is accepted. One detail is worth a later reference check:
  `replace('$CERISE_API', ...)` also matches the prefix of `$CERISE_API_FILES`.
- **Stale steps.** Steps are only ever added to the remote `steps/` tree, so a step
  removed locally stays installed. No property claims otherwise; the hazard list records
  it.
- **Service restart for jobs.** The store persists and the orchestrator resumes. This
  needs the store's persistence, which is outside `src/`. It is the next step for
  `JobLifecycle`: a crash between the remote copies of `stage_job` and the store update.
- **Read-only endpoints and REST conversion.** `get_job_by_id`, `get_jobs`,
  `get_job_log_by_id` and `_internal_job_to_rest_job` change no state.
- **`is_workflow` and `get_required_num_cores`.** Stateless YAML inspection.
- **The legacy `simple_cwl_xenon_service` package.** Superseded by `cerise`.
