------------------------- MODULE RemoteApiRefinement -------------------------
(***************************************************************************)
(* Proof that the installer implements InstallProtocol under the mapping   *)
(* of RemoteApi: Phase from pc, InstalledSet = Projects \ todo once the    *)
(* start has constructed its RemoteApi.  The staging steps inside a        *)
(* project, an upload landing and the pick of the next project leave the   *)
(* mapped state alone; the end of a project's loop body is an abstract     *)
(* Install, a failing step or script an abstract Fail, install()'s return  *)
(* an abstract Finish.  It rests on IInv of RemoteApiProofs: the project   *)
(* in hand is still in todo, so ending its body installs a new project.    *)
(***************************************************************************)
EXTENDS RemoteApiProofs

AbsNext == [AbsInstall!Next]_AbsInstall!vars

\* A step that keeps pc's phase, todo and gen is an abstract stutter.
LEMMA MapStutter ==
    ASSUME Phase' = Phase, InstalledSet' = InstalledSet, gen' = gen
    PROVE  AbsNext
  BY DEF AbsNext, AbsInstall!vars

\* A step between two points inside install()'s loop that keeps todo.
LEMMA InsideStutter ==
    ASSUME pc \notin {"init", "done", "failed"},
           pc' \notin {"init", "done", "failed"},
           todo' = todo, gen' = gen
    PROVE  AbsNext
  <1>1. Phase = "installing" /\ Phase' = "installing"
    BY DEF Phase
  <1>2. InstalledSet' = InstalledSet
    BY DEF InstalledSet
  <1>3. QED
    BY <1>1, <1>2, MapStutter

\* The end of the loop body of project cur, with the start going on.
LEMMA ProjectDone ==
    ASSUME IInv, pc = "run", pc' = "loop", todo' = todo \ {cur}, gen' = gen
    PROVE  AbsNext
  <1>1. cur \in Projects /\ cur \in todo
    BY DEF IInv, TypeOK, InProject
  <1>2. /\ Phase = "installing" /\ Phase' = "installing"
        /\ InstalledSet = Projects \ todo
        /\ InstalledSet' = (Projects \ todo) \cup {cur}
    BY <1>1 DEF Phase, InstalledSet
  <1>3. AbsInstall!Install(cur)
    BY <1>1, <1>2 DEF AbsInstall!Install
  <1>4. QED
    BY <1>1, <1>3 DEF AbsNext, AbsInstall!Next

\* A step from inside the loop to "failed", keeping todo.
LEMMA StartFails ==
    ASSUME pc \notin {"init", "done", "failed"}, pc' = "failed",
           todo' = todo, gen' = gen
    PROVE  AbsNext
  <1>1. Phase = "installing" /\ Phase' = "failed"
        /\ InstalledSet' = InstalledSet
    BY DEF Phase, InstalledSet
  <1>2. QED
    BY <1>1 DEF AbsNext, AbsInstall!Next, AbsInstall!Fail

-----------------------------------------------------------------------------

LEMMA InitRefines == Init => AbsInstall!Init
  BY DEF Init, AbsInstall!Init, Phase, InstalledSet

\* Each step of the installer, of the environment and of a restart.
LEMMA NextRefines == IInv /\ [Next]_vars => AbsNext
  <1> SUFFICES ASSUME IInv, [Next]_vars PROVE AbsNext
    OBVIOUS
  <1>1. CASE Construct
    <2>1. Phase = "init" /\ Phase' = "installing"
      BY <1>1 DEF Construct, Phase
    <2>2. InstalledSet = {} /\ InstalledSet' = {}
      BY <1>1 DEF Construct, InstalledSet
    <2>3. QED
      BY <1>1, <2>1, <2>2 DEF Construct, AbsNext, AbsInstall!Next,
                              AbsInstall!Begin
  <1>2. CASE NextProject
    BY <1>2, InsideStutter DEF NextProject
  <1>3. CASE InstallReturns
    <2>1. Phase = "installing" /\ Phase' = "done"
      BY <1>3 DEF InstallReturns, Phase
    <2>2. InstalledSet = Projects /\ InstalledSet' = Projects
      BY <1>3 DEF InstallReturns, InstalledSet
    <2>3. QED
      BY <1>3, <2>1, <2>2 DEF InstallReturns, AbsNext, AbsInstall!Next,
                              AbsInstall!Finish
  <1>4. CASE StageApiFiles
    BY <1>4, InsideStutter DEF StageApiFiles
  <1>5. CASE StageApiStep
    BY <1>5, InsideStutter DEF StageApiStep
  <1>6. CASE TranslateApiStepFails
    BY <1>6, StartFails DEF TranslateApiStepFails
  <1>7. CASE StepsStaged
    BY <1>7, InsideStutter DEF StepsStaged
  <1>8. CASE StageInstallScript
    BY <1>8, InsideStutter DEF StageInstallScript
  <1>9. CASE WaitForScript
    BY <1>9, InsideStutter DEF WaitForScript
  <1>10. CASE RunInstallScript
    <2>1. CASE rscript[cur] = NoScript
      BY <1>10, <2>1, ProjectDone DEF RunInstallScript
    <2>2. CASE rscript[cur] # NoScript /\ rscript[cur].kind = "fail"
      BY <1>10, <2>2, StartFails DEF RunInstallScript
    <2>3. CASE rscript[cur] # NoScript /\ rscript[cur].kind # "fail"
      BY <1>10, <2>3, ProjectDone DEF RunInstallScript
    <2>4. QED
      BY <2>1, <2>2, <2>3
  <1>11. CASE \E p \in Projects : ScriptLands(p)
    BY <1>11, MapStutter DEF ScriptLands, Phase, InstalledSet
  <1>12. CASE Restart
    <2>1. Phase' = "init" /\ InstalledSet' = {}
      BY <1>12 DEF Restart, Phase, InstalledSet
    <2>2. QED
      BY <1>12, <2>1 DEF Restart, AbsNext, AbsInstall!Next, AbsInstall!Restart
  <1>13. CASE UNCHANGED vars
    BY <1>13, MapStutter DEF vars, Phase, InstalledSet
  <1>14. QED
    BY <1>1, <1>2, <1>3, <1>4, <1>5, <1>6, <1>7, <1>8, <1>9, <1>10, <1>11,
       <1>12, <1>13 DEF Next, Installer

\* The installer implements the install protocol at every start: a
\* project's loop body completes at most once per start, install() returns
\* only once every project's has, a failing step or script ends the start,
\* and a restart begins again with nothing installed.
THEOREM RefinesInstallProtocol == Spec => ImplementsInstallProtocol
  <1>1. Spec => []IInv
    BY InitIInv, NextIInv, PTL DEF Spec
  <1>2. QED
    BY <1>1, InitRefines, NextRefines, PTL
    DEF Spec, ImplementsInstallProtocol, AbsInstall!Spec, AbsNext
=============================================================================
