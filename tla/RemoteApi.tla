------------------------------ MODULE RemoteApi ------------------------------
(***************************************************************************)
(* The remote API installer of the Cerise back end (back_end/remote_api.py)*)
(* across service starts: each start constructs a RemoteApi, which makes   *)
(* <base>/api, and runs install() over the local API tree deployed for     *)
(* that start.  install() visits every project, makes its remote           *)
(* directory, copies files/, translates and writes every step of steps/,   *)
(* uploads install.sh, waits for it to exist remotely, and runs the remote *)
(* install.sh if one exists.  An exception ends the start's install.       *)
(*                                                                         *)
(* The remote tree outlives a start.  Everything the installer writes is   *)
(* tagged with the start that wrote it, so a stale remote object is one    *)
(* whose tag is older than the current start.  The upload of install.sh    *)
(* becomes visible at the remote path some time after cerulean.copy        *)
(* returns (the wait loop at line 209 is there for this).  The visibility  *)
(* is an environment step, as is a restart of the service at any point.    *)
(***************************************************************************)
EXTENDS Naturals, Sequences

CONSTANTS
    Projects,   \* the project directories of the local API trees
    Trees,      \* the local API trees a start may be deployed with
    MaxStarts   \* how many times the service is started

\* A step document's path relative to steps/: at top level, or in a
\* subdirectory named after a project (the layout of the bundled API).
Steps == {<<"w.cwl">>} \cup {<<q, "w.cwl">> : q \in Projects}

\* Mutation, and the rewriting spec section 4.2 describes: the project
\* segment is dropped and the remaining segments are kept.
SpecTranslateRef(r) == <<r[1], "steps">> \o Tail(r)

\* translate_workflow on one step's `run` reference, split on '/': the path
\* under <base>/api is <project>/steps/ followed by the whole reference.
TranslateRef(r) == <<r[1], "steps">> \o r

\* One project of a local tree: whether files/ exists, the steps under
\* steps/, those among them _translate_api_step rejects, and install.sh.
ProjectTrees == [files : BOOLEAN, steps : SUBSET Steps, bad : SUBSET Steps,
                 script : {"none", "ok", "fail"}]

ASSUME TreesAssumption ==
    /\ Trees \subseteq [Projects -> ProjectTrees]
    /\ \A t \in Trees, p \in Projects : t[p].bad \subseteq t[p].steps
ASSUME MaxStartsAssumption == MaxStarts \in Nat \ {0}

\* A remote install.sh: the start that uploaded it and how it exits;
\* start 0 means there is none.
Scripts == [gen : 0..MaxStarts, kind : {"ok", "fail"}]
NoScript == [gen |-> 0, kind |-> "ok"]

VARIABLES
    base,       \* the remote base directory exists
    apiDir,     \* <base>/api exists
    gen,        \* the current start
    tree,       \* the local API tree of the current start
    pc,         \* where the current start's installer is
    todo,       \* projects install() has still to visit
    cur,        \* the project being installed
    stepsTodo,  \* steps of cur still to be staged
    rdir,       \* <base>/api/<p> exists
    rfiles,     \* the start whose files/ <base>/api/<p>/files holds, or 0
    rsteps,     \* for each step, the start that wrote it remotely, or 0
    rscript,    \* the install.sh visible at <base>/api/<p>/install.sh
    pending,    \* an uploaded install.sh not yet visible remotely
    ran         \* the (project, script) pairs run by the current start

vars == <<base, apiDir, gen, tree, pc, todo, cur, stepsTodo, rdir, rfiles,
          rsteps, rscript, pending, ran>>

PCs == {"init", "loop", "files", "steps", "script", "wait", "run", "done",
        "failed"}

TypeOK ==
    /\ base \in BOOLEAN /\ apiDir \in BOOLEAN
    /\ gen \in 1..MaxStarts
    /\ tree \in Trees
    /\ pc \in PCs
    /\ todo \subseteq Projects /\ cur \in Projects /\ stepsTodo \subseteq Steps
    /\ rdir \in [Projects -> BOOLEAN]
    /\ rfiles \in [Projects -> 0..MaxStarts]
    /\ rsteps \in [Projects -> [Steps -> 0..MaxStarts]]
    /\ rscript \in [Projects -> Scripts]
    /\ pending \in [Projects -> Scripts]
    /\ ran \subseteq Projects \X Scripts

\* The first start finds no API installed; the base directory may or may
\* not have been made by the administrator.
Init ==
    /\ base \in BOOLEAN
    /\ apiDir = FALSE
    /\ gen = 1
    /\ tree \in Trees
    /\ pc = "init"
    /\ todo = {} /\ cur \in Projects /\ stepsTodo = {}
    /\ rdir = [p \in Projects |-> FALSE]
    /\ rfiles = [p \in Projects |-> 0]
    /\ rsteps = [p \in Projects |-> [s \in Steps |-> 0]]
    /\ rscript = [p \in Projects |-> NoScript]
    /\ pending = [p \in Projects |-> NoScript]
    /\ ran = {}

\* RemoteApi.__init__: mkdir(parents=True, exists_ok=True) on <base>/api.
Construct ==
    /\ pc = "init"
    /\ base' = TRUE /\ apiDir' = TRUE
    /\ pc' = "loop" /\ todo' = Projects
    /\ UNCHANGED <<gen, tree, cur, stepsTodo, rdir, rfiles, rsteps, rscript,
                   pending, ran>>

\* _make_remote_project: mkdir without parents, under the existing api dir.
MakeRemoteProject(p) ==
    /\ apiDir
    /\ rdir' = [rdir EXCEPT ![p] = TRUE]

\* Mutation: the staging calls of the loop body dropped, so the project's
\* install script is staged and run straight after its directory is made.
NextProjectSkipsStaging ==
    /\ pc = "loop"
    /\ \E p \in todo : /\ cur' = p
                       /\ MakeRemoteProject(p)
    /\ pc' = "script"
    /\ UNCHANGED <<base, apiDir, gen, tree, todo, stepsTodo, rfiles, rsteps,
                   rscript, pending, ran>>

\* install(): the next project directory of local_api_dir.iterdir().
NextProject ==
    /\ pc = "loop"
    /\ \E p \in todo : /\ cur' = p
                       /\ MakeRemoteProject(p)
    /\ pc' = "files"
    /\ UNCHANGED <<base, apiDir, gen, tree, todo, stepsTodo, rfiles, rsteps,
                   rscript, pending, ran>>

\* Mutation: install() returns with projects still to visit.
InstallReturnsEarly ==
    /\ pc = "loop"
    /\ pc' = "done"
    /\ UNCHANGED <<base, apiDir, gen, tree, todo, cur, stepsTodo, rdir,
                   rfiles, rsteps, rscript, pending, ran>>

\* install() returns once every project is visited.
InstallReturns ==
    /\ pc = "loop" /\ todo = {}
    /\ pc' = "done"
    /\ UNCHANGED <<base, apiDir, gen, tree, todo, cur, stepsTodo, rdir,
                   rfiles, rsteps, rscript, pending, ran>>

\* _stage_api_files: copy files/ over the remote one, or skip when absent.
StageApiFiles ==
    /\ pc = "files"
    /\ rfiles' = [rfiles EXCEPT ![cur] = IF tree[cur].files THEN gen ELSE @]
    /\ stepsTodo' = tree[cur].steps
    /\ pc' = "steps"
    /\ UNCHANGED <<base, apiDir, gen, tree, todo, cur, rdir, rsteps, rscript,
                   pending, ran>>

\* _stage_api_steps: a step is translated, then written under its relative
\* directory.
StageApiStep ==
    /\ pc = "steps"
    /\ \E s \in stepsTodo \ tree[cur].bad :
          /\ rsteps' = [rsteps EXCEPT ![cur][s] = gen]
          /\ stepsTodo' = stepsTodo \ {s}
    /\ UNCHANGED <<base, apiDir, gen, tree, pc, todo, cur, rdir, rfiles,
                   rscript, pending, ran>>

\* _translate_api_step raising (arguments not a list: the message formats
\* the undefined `filename`, a NameError); install() ends with it.
TranslateApiStepFails ==
    /\ pc = "steps"
    /\ stepsTodo \cap tree[cur].bad # {}
    /\ pc' = "failed"
    /\ UNCHANGED <<base, apiDir, gen, tree, todo, cur, stepsTodo, rdir,
                   rfiles, rsteps, rscript, pending, ran>>

StepsStaged ==
    /\ pc = "steps" /\ stepsTodo = {}
    /\ pc' = "script"
    /\ UNCHANGED <<base, apiDir, gen, tree, todo, cur, stepsTodo, rdir,
                   rfiles, rsteps, rscript, pending, ran>>

\* Mutation: the script is copied to the wrong remote path, so the path the
\* wait loop tests never receives it.
StageInstallScriptWrongTarget ==
    /\ pc = "script"
    /\ pc' = IF tree[cur].script = "none" THEN "run" ELSE "wait"
    /\ UNCHANGED <<base, apiDir, gen, tree, todo, cur, stepsTodo, rdir,
                   rfiles, rsteps, rscript, pending, ran>>

\* _stage_install_script: nothing when there is no local install.sh; else
\* cerulean.copy uploads it (overwrite='always').
StageInstallScript ==
    /\ pc = "script"
    /\ \/ /\ tree[cur].script = "none"
          /\ pc' = "run"
          /\ UNCHANGED pending
       \/ /\ tree[cur].script # "none"
          /\ pending' = [pending EXCEPT ![cur] =
                            [gen |-> gen, kind |-> tree[cur].script]]
          /\ pc' = "wait"
    /\ UNCHANGED <<base, apiDir, gen, tree, todo, cur, stepsTodo, rdir,
                   rfiles, rsteps, rscript, ran>>

\* `while not remote_path.exists(): pass`, then chmod: the loop ends as
\* soon as some install.sh is visible at the path.
WaitForScript ==
    /\ pc = "wait"
    /\ rscript[cur] # NoScript
    /\ pc' = "run"
    /\ UNCHANGED <<base, apiDir, gen, tree, todo, cur, stepsTodo, rdir,
                   rfiles, rsteps, rscript, pending, ran>>

\* Mutation: the script's exit code is not checked.
RunInstallScriptIgnoresExit ==
    /\ pc = "run"
    /\ ran' = IF rscript[cur] = NoScript THEN ran ELSE ran \cup {<<cur, rscript[cur]>>}
    /\ pc' = "loop" /\ todo' = todo \ {cur}
    /\ UNCHANGED <<base, apiDir, gen, tree, cur, stepsTodo, rdir, rfiles,
                   rsteps, rscript, pending>>

\* _run_install_script: runs whatever install.sh exists remotely and waits
\* for it; a nonzero exit raises RuntimeError and ends install().
RunInstallScript ==
    /\ pc = "run"
    /\ \/ /\ rscript[cur] = NoScript
          /\ pc' = "loop" /\ todo' = todo \ {cur}
          /\ UNCHANGED ran
       \/ /\ rscript[cur] # NoScript
          /\ ran' = ran \cup {<<cur, rscript[cur]>>}
          /\ IF rscript[cur].kind = "fail"
               THEN pc' = "failed" /\ UNCHANGED todo
               ELSE pc' = "loop" /\ todo' = todo \ {cur}
    /\ UNCHANGED <<base, apiDir, gen, tree, cur, stepsTodo, rdir, rfiles,
                   rsteps, rscript, pending>>

(***************************************************************************)
(* Environment: the upload becoming visible, and service restarts.         *)
(***************************************************************************)

ScriptLands(p) ==
    /\ pending[p] # NoScript
    /\ rscript' = [rscript EXCEPT ![p] = pending[p]]
    /\ pending' = [pending EXCEPT ![p] = NoScript]
    /\ UNCHANGED <<base, apiDir, gen, tree, pc, todo, cur, stepsTodo, rdir,
                   rfiles, rsteps, ran>>

\* The service stops, at any point of an install or after it, and starts
\* again with a local API tree that may have changed; the remote tree and
\* an upload in flight survive.
Restart ==
    /\ gen < MaxStarts
    /\ gen' = gen + 1
    /\ tree' \in Trees
    /\ pc' = "init" /\ todo' = {} /\ stepsTodo' = {} /\ ran' = {}
    /\ UNCHANGED <<base, apiDir, cur, rdir, rfiles, rsteps, rscript, pending>>

Installer ==
    \/ Construct \/ NextProject \/ InstallReturns \/ StageApiFiles
    \/ StageApiStep \/ TranslateApiStepFails \/ StepsStaged
    \/ StageInstallScript \/ WaitForScript \/ RunInstallScript

Next == Installer \/ (\E p \in Projects : ScriptLands(p)) \/ Restart

Spec == Init /\ [][Next]_vars

\* The installer runs until install() returns or raises, and an upload
\* becomes visible eventually; a restart is never forced.
FairSpec == Spec /\ WF_vars(Installer) /\ \A p \in Projects : WF_vars(ScriptLands(p))

\* The same, with uploads that may never become visible (a lost copy).
LossySpec == Spec /\ WF_vars(Installer)

-----------------------------------------------------------------------------

\* A path under <base>/api is a step written by the current start.
Resolves(path) ==
    \E q \in Projects, s \in Steps :
        path = <<q, "steps">> \o s /\ rsteps[q][s] = gen

\* Project p holds what the current start's tree puts there.
Installed(p) ==
    /\ rdir[p]
    /\ tree[p].files => rfiles[p] = gen
    /\ \A s \in tree[p].steps : rsteps[p][s] = gen

\* When install() returns, the remote API is the local tree of this start:
\* every project directory exists, its files/ and each of its steps were
\* written by this start, even when an earlier start crashed or failed
\* part way, and every install script this start ran exited 0.
InstallComplete ==
    pc = "done" =>
        /\ \A p \in Projects :
              /\ rdir[p]
              /\ tree[p].files => rfiles[p] = gen
              /\ \A s \in tree[p].steps : rsteps[p][s] = gen
        /\ \A x \in ran : x[2].kind = "ok"

\* When install() returns, a workflow step `run: <p>/<path>` naming a step
\* of project p at steps/<p>/<path> (the bundled layout) is rewritten by
\* translate_workflow to the step this start installed.
StepRefsResolve ==
    pc = "done" =>
        \A p \in Projects : \A s \in tree[p].steps :
            s[1] = p => Resolves(TranslateRef(s))

\* Spec section 4.2: a reference <p>/<path> is rewritten to
\* <p>/steps/<path>, so a step at steps/<path> of project p is found.
SpecRefsResolve ==
    pc = "done" =>
        \A p \in Projects : \A s \in tree[p].steps :
            Len(s) = 1 => Resolves(TranslateRef(<<p>> \o s))

\* install.sh runs only against its project as this start staged it: when
\* a start has run a project's script, the project's directory, files/ and
\* every step are the ones this start wrote, whatever an earlier start
\* that crashed or failed part way left behind.
ScriptRunsOnStagedProject == \A x \in ran : Installed(x[1])

\* Every install script a start runs is the one of its own local tree.
ScriptRunsCurrent == \A x \in ran : x[2].gen = gen

\* Spec section 4.4: the installer refuses to create the base directory.
BaseNeverCreated == [][~base => ~base']_vars

\* Every start's install() returns or raises: it never hangs.
InstallTerminates == (pc = "init") ~> (pc \in {"done", "failed"})

-----------------------------------------------------------------------------

\* The refinement mapping: where install() is, and the projects whose loop
\* body has run to the end in this start.
Phase ==
    CASE pc = "init"   -> "init"
      [] pc = "done"   -> "done"
      [] pc = "failed" -> "failed"
      [] OTHER         -> "installing"

InstalledSet == IF pc = "init" THEN {} ELSE Projects \ todo

AbsInstall == INSTANCE InstallProtocol
                  WITH start <- gen, phase <- Phase, installed <- InstalledSet

\* install() keeps its promise at every start: each project's loop body
\* completes at most once, install() returns only once all have, a failure
\* ends the start, and a restart begins again from nothing.
ImplementsInstallProtocol == AbsInstall!Spec

=============================================================================
