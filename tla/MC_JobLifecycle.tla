-------------------------- MODULE MC_JobLifecycle --------------------------
(* Model-checking instance of JobLifecycle: job ids as model values.       *)
EXTENDS JobLifecycle, TLC

CONSTANTS j1, j2

MCJobs == {j1, j2}
MCOneJob == {j1}

\* Job ids are interchangeable: the model only compares them.
MCSymmetry == Permutations(MCJobs)
=============================================================================
