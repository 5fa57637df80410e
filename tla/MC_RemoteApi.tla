---------------------------- MODULE MC_RemoteApi ----------------------------
(***************************************************************************)
(* Two projects, three service starts, and four layouts a project's local  *)
(* tree may have at each start: the bundled layout (files/, steps under    *)
(* steps/<project>/, a working install.sh), a flat layout with no files/   *)
(* and no install.sh, one with a step _translate_api_step rejects, and     *)
(* one whose install.sh exits nonzero.                                     *)
(***************************************************************************)
EXTENDS RemoteApi

CONSTANTS p1, p2

MCProjects == {p1, p2}

Layout(p, k) ==
    CASE k = "bundled" ->
            [files |-> TRUE, steps |-> {<<p, "w.cwl">>}, bad |-> {},
             script |-> "ok"]
      [] k = "flat" ->
            [files |-> FALSE, steps |-> {<<"w.cwl">>}, bad |-> {},
             script |-> "none"]
      [] k = "badstep" ->
            [files |-> TRUE, steps |-> {<<p, "w.cwl">>, <<"w.cwl">>},
             bad |-> {<<"w.cwl">>}, script |-> "ok"]
      [] k = "failing" ->
            [files |-> TRUE, steps |-> {<<p, "w.cwl">>}, bad |-> {},
             script |-> "fail"]

MCTrees ==
    {[p \in MCProjects |-> Layout(p, c[p])] :
        c \in [MCProjects -> {"bundled", "flat", "badstep", "failing"}]}

MCMaxStarts == 3
=============================================================================
