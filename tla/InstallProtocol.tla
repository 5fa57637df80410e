--------------------------- MODULE InstallProtocol ---------------------------
(***************************************************************************)
(* What RemoteApi.install() promises across service starts, without the    *)
(* remote tree: each start begins with nothing installed, installs its     *)
(* projects one at a time, each at most once, and either returns once all  *)
(* of them are installed or stops at the first failure.  Nothing is        *)
(* installed after a failure or a return until the service starts again.   *)
(***************************************************************************)
EXTENDS Naturals

CONSTANTS Projects, MaxStarts

VARIABLES
    start,      \* the current start of the service
    phase,      \* "init", "installing", "done" or "failed"
    installed   \* the projects this start has installed

vars == <<start, phase, installed>>

Phases == {"init", "installing", "done", "failed"}

TypeOK ==
    /\ start \in 1..MaxStarts
    /\ phase \in Phases
    /\ installed \subseteq Projects

Init ==
    /\ start = 1
    /\ phase = "init"
    /\ installed = {}

Begin ==
    /\ phase = "init"
    /\ phase' = "installing"
    /\ UNCHANGED <<start, installed>>

Install(p) ==
    /\ phase = "installing"
    /\ p \notin installed
    /\ installed' = installed \cup {p}
    /\ UNCHANGED <<start, phase>>

Finish ==
    /\ phase = "installing"
    /\ installed = Projects
    /\ phase' = "done"
    /\ UNCHANGED <<start, installed>>

Fail ==
    /\ phase = "installing"
    /\ phase' = "failed"
    /\ UNCHANGED <<start, installed>>

Restart ==
    /\ start < MaxStarts
    /\ start' = start + 1
    /\ phase' = "init"
    /\ installed' = {}

Next == Begin \/ (\E p \in Projects : Install(p)) \/ Finish \/ Fail \/ Restart

Spec == Init /\ [][Next]_vars
=============================================================================
