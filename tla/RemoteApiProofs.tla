--------------------------- MODULE RemoteApiProofs ---------------------------
(***************************************************************************)
(* Proofs that install() returns only with the current start's API in      *)
(* place (InstallComplete), and that translate_workflow then points every  *)
(* bundled-layout step reference at an installed step (StepRefsResolve),   *)
(* and that an install script runs only on its project as the current      *)
(* start staged it (ScriptRunsOnStagedProject), for every set of projects, *)
(* local trees and number of starts.                                       *)
(* InstallComplete is not inductive as it stands: it speaks only of the    *)
(* state when install() returns, so IInv says what holds at every point    *)
(* of the loop: each visited project is installed by this start, the       *)
(* project in hand is installed as far as its steps have gone, and no      *)
(* script run by this start has failed unless the start has failed; a     *)
(* project whose script ran is out of the loop's way (no longer in todo)   *)
(* unless the start failed on that script, so no later step of the start  *)
(* touches it.                                                             *)
(***************************************************************************)
EXTENDS RemoteApi, TLAPS

\* The points of install() between picking a project and finishing it.
InProject == {"files", "steps", "script", "wait", "run"}

IInv ==
    /\ TypeOK
    /\ pc \in {"loop", "done"} \cup InProject =>
          \A p \in Projects \ todo : Installed(p)
    /\ pc = "done" => todo = {}
    /\ pc \in InProject => cur \in todo /\ rdir[cur]
    /\ pc = "steps" =>
          /\ tree[cur].files => rfiles[cur] = gen
          /\ stepsTodo \subseteq tree[cur].steps
          /\ \A s \in tree[cur].steps \ stepsTodo : rsteps[cur][s] = gen
    /\ pc \in {"script", "wait", "run"} => Installed(cur)
    /\ pc # "failed" => \A x \in ran : x[2].kind = "ok"
    /\ pc = "init" => ran = {}
    /\ \A x \in ran : x[1] \in todo => pc = "failed"
    /\ ScriptRunsOnStagedProject

-----------------------------------------------------------------------------

LEMMA NoScriptType == NoScript \in Scripts
  BY MaxStartsAssumption DEF NoScript, Scripts

LEMMA InitIInv == Init => IInv
  <1> SUFFICES ASSUME Init PROVE IInv
    OBVIOUS
  <1>1. rsteps \in [Projects -> [Steps -> 0..MaxStarts]]
    BY MaxStartsAssumption DEF Init
  <1>2. rscript \in [Projects -> Scripts] /\ pending \in [Projects -> Scripts]
    BY NoScriptType DEF Init
  <1>3. rfiles \in [Projects -> 0..MaxStarts] /\ gen \in 1..MaxStarts
    BY MaxStartsAssumption DEF Init
  <1>4. ran \subseteq Projects \X Scripts /\ rdir \in [Projects -> BOOLEAN]
    BY DEF Init
  <1>5. /\ base \in BOOLEAN /\ apiDir \in BOOLEAN /\ tree \in Trees
        /\ pc \in PCs /\ cur \in Projects
    BY Zenon DEF Init, PCs
  <1>6. todo \subseteq Projects /\ stepsTodo \subseteq Steps
    BY DEF Init
  <1>7. TypeOK
    BY Zenon, <1>1, <1>2, <1>3, <1>4, <1>5, <1>6 DEF TypeOK
  <1>8. QED
    BY <1>7 DEF Init, IInv, InProject, ScriptRunsOnStagedProject

\* The installer's steps on the project in hand.
LEMMA InstallerIInv ==
    ASSUME IInv, Installer
    PROVE  IInv'
  <1> USE TreesAssumption, MaxStartsAssumption
      DEF IInv, TypeOK, Installed, InProject, PCs, ProjectTrees,
          ScriptRunsOnStagedProject
  <1>1. CASE Construct
    BY <1>1 DEF Construct
  <1>2. CASE NextProject
    BY <1>2 DEF NextProject, MakeRemoteProject
  <1>3. CASE InstallReturns
    BY <1>3 DEF InstallReturns
  <1>4. CASE StageApiFiles
    BY <1>4 DEF StageApiFiles
  <1>5. CASE StageApiStep
    BY <1>5 DEF StageApiStep
  <1>6. CASE TranslateApiStepFails
    BY <1>6 DEF TranslateApiStepFails
  <1>7. CASE StepsStaged
    BY <1>7 DEF StepsStaged
  <1>8. CASE StageInstallScript
    <2>1. CASE tree[cur].script = "none" /\ pc' = "run" /\ UNCHANGED pending
      BY <1>8, <2>1 DEF StageInstallScript
    <2>2. CASE /\ tree[cur].script # "none"
               /\ pending' = [pending EXCEPT ![cur] =
                                 [gen |-> gen, kind |-> tree[cur].script]]
               /\ pc' = "wait"
      <3>1. [gen |-> gen, kind |-> tree[cur].script] \in Scripts
        BY <2>2 DEF Scripts
      <3>2. pending' \in [Projects -> Scripts]
        BY <2>2, <3>1
      <3>3. TypeOK'
        BY <1>8, <2>2, <3>2 DEF StageInstallScript
      <3>4. QED
        BY <1>8, <2>2, <3>3 DEF StageInstallScript
    <2>3. QED
      BY <1>8, <2>1, <2>2 DEF StageInstallScript
  <1>9. CASE WaitForScript
    BY <1>9 DEF WaitForScript
  <1>10. CASE RunInstallScript
    BY <1>10 DEF RunInstallScript, Scripts
  <1>11. QED
    BY <1>1, <1>2, <1>3, <1>4, <1>5, <1>6, <1>7, <1>8, <1>9, <1>10
    DEF Installer

LEMMA NextIInv == IInv /\ [Next]_vars => IInv'
  <1> SUFFICES ASSUME IInv, [Next]_vars PROVE IInv'
    OBVIOUS
  <1>1. CASE Installer
    BY <1>1, InstallerIInv
  <1>2. CASE \E p \in Projects : ScriptLands(p)
    <2>1. PICK p \in Projects : ScriptLands(p)
      BY <1>2
    <2>2. TypeOK'
      BY <2>1, NoScriptType DEF ScriptLands, IInv, TypeOK
    <2>3. QED
      BY <2>1, <2>2 DEF ScriptLands, IInv, Installed, InProject,
                        ScriptRunsOnStagedProject
  <1>3. CASE Restart
    <2>1. gen' \in 1..MaxStarts
      BY <1>3, MaxStartsAssumption DEF Restart, IInv, TypeOK
    <2>3. TypeOK'
      BY Zenon, <1>3, <2>1 DEF Restart, IInv, TypeOK, PCs
    <2>2. QED
      BY <1>3, <2>3 DEF Restart, IInv, InProject, ScriptRunsOnStagedProject
  <1>4. CASE UNCHANGED vars
    BY <1>4 DEF vars, IInv, TypeOK, Installed, InProject,
                ScriptRunsOnStagedProject
  <1>5. QED
    BY <1>1, <1>2, <1>3, <1>4 DEF Next

\* install() returns only once every project directory of this start's
\* local tree exists remotely with its files/ and steps written by this
\* start, and no install script this start ran failed: a crash or a
\* failure of an earlier start part way through leaves nothing the next
\* successful start relies on.
THEOREM InstallCompleteHolds == Spec => []InstallComplete
  <1>1. IInv => InstallComplete
    BY DEF IInv, InstallComplete, Installed
  <1>2. QED
    BY <1>1, InitIInv, NextIInv, PTL DEF Spec

\* translate_workflow and _stage_api_steps agree: when install() returns,
\* every workflow reference <p>/<path> to a step of project p laid out at
\* steps/<p>/<path> is rewritten to a step this start wrote.
THEOREM StepRefsResolveHolds == Spec => []StepRefsResolve
  <1>1. IInv => StepRefsResolve
    <2> SUFFICES ASSUME IInv, pc = "done", NEW p \in Projects,
                        NEW s \in tree[p].steps, s[1] = p
                 PROVE  Resolves(TranslateRef(s))
      BY DEF StepRefsResolve
    <2>1. rsteps[p][s] = gen
      BY DEF IInv, Installed
    <2>2. s \in Steps
      BY TreesAssumption DEF IInv, TypeOK, ProjectTrees
    <2>3. TranslateRef(s) = <<p, "steps">> \o s
      BY DEF TranslateRef
    <2>4. QED
      BY <2>1, <2>2, <2>3 DEF Resolves
  <1>2. QED
    BY <1>1, InitIInv, NextIInv, PTL DEF Spec


\* _run_install_script runs a project's install.sh only after
\* _stage_api_files and _stage_api_steps of the same start have put the
\* project's files/ and steps in place, across restarts at any point.
THEOREM ScriptRunsOnStagedProjectHolds == Spec => []ScriptRunsOnStagedProject
  <1>1. IInv => ScriptRunsOnStagedProject
    BY DEF IInv
  <1>2. QED
    BY <1>1, InitIInv, NextIInv, PTL DEF Spec

=============================================================================
