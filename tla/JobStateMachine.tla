--------------------------- MODULE JobStateMachine ---------------------------
(***************************************************************************)
(* What the job lifecycle promises (spec section 4.7), without the remote  *)
(* side: a job is created SUBMITTED, moves along the busy states to        *)
(* STAGING_OUT and one outcome, or fails in staging; a cancel request      *)
(* cancels an idle job outright and shadows a busy one with its CR state,  *)
(* which is left only for CANCELLED; a job is deleted only on request and  *)
(* only once it is final.                                                  *)
(***************************************************************************)
CONSTANT Jobs

VARIABLES
    life,        \* "absent", a job state, or "deleted"
    delRequested \* the user asked for the job's deletion

vars == <<life, delRequested>>

Busy == {"STAGING_IN", "WAITING", "RUNNING", "STAGING_OUT"}
Shadow == [s \in Busy |->
              CASE s = "STAGING_IN"  -> "STAGING_IN_CR"
                [] s = "WAITING"     -> "WAITING_CR"
                [] s = "RUNNING"     -> "RUNNING_CR"
                [] s = "STAGING_OUT" -> "STAGING_OUT_CR"]
Outcomes == {"SUCCESS", "PERMANENT_FAILURE", "TEMPORARY_FAILURE", "SYSTEM_ERROR"}
Final == Outcomes \cup {"CANCELLED"}
States == {"SUBMITTED", "FINISHED"} \cup Busy \cup {Shadow[s] : s \in Busy}
          \cup Final

\* The steps the orchestrator takes a job along.
Progress ==
    {<<"SUBMITTED", "STAGING_IN">>, <<"STAGING_IN", "WAITING">>,
     <<"STAGING_IN", "SYSTEM_ERROR">>, <<"WAITING", "RUNNING">>,
     <<"WAITING", "FINISHED">>, <<"RUNNING", "FINISHED">>,
     <<"FINISHED", "STAGING_OUT">>}
    \cup {<<"STAGING_OUT", o>> : o \in Outcomes}

\* Where a cancel request takes a job: exactly one edge fires, or none.
CancelEdges ==
    {<<"SUBMITTED", "CANCELLED">>, <<"FINISHED", "CANCELLED">>}
    \cup {<<s, Shadow[s]>> : s \in Busy}

RequestCancelTo(s) == {s} \cup {e[2] : e \in {x \in CancelEdges : x[1] = s}}

TypeOK ==
    /\ life \in [Jobs -> {"absent", "deleted"} \cup States]
    /\ delRequested \in [Jobs -> BOOLEAN]

Init ==
    /\ life = [j \in Jobs |-> "absent"]
    /\ delRequested = [j \in Jobs |-> FALSE]

Create(j) ==
    /\ life[j] = "absent"
    /\ life' = [life EXCEPT ![j] = "SUBMITTED"]
    /\ UNCHANGED delRequested

Advance(j) ==
    /\ \E e \in Progress : /\ e[1] = life[j]
                          /\ life' = [life EXCEPT ![j] = e[2]]
    /\ UNCHANGED delRequested

RequestCancel(j) ==
    /\ life[j] \in States
    /\ \E t \in RequestCancelTo(life[j]) : life' = [life EXCEPT ![j] = t]
    /\ UNCHANGED delRequested

CompleteCancel(j) ==
    /\ \E s \in Busy : life[j] = Shadow[s]
    /\ life' = [life EXCEPT ![j] = "CANCELLED"]
    /\ UNCHANGED delRequested

\* A delete request cancels the job as a cancel request does.
RequestDelete(j) ==
    /\ life[j] \in States
    /\ \E t \in RequestCancelTo(life[j]) : life' = [life EXCEPT ![j] = t]
    /\ delRequested' = [delRequested EXCEPT ![j] = TRUE]

Delete(j) ==
    /\ delRequested[j]
    /\ life[j] \in Final
    /\ life' = [life EXCEPT ![j] = "deleted"]
    /\ UNCHANGED delRequested

Next ==
    \E j \in Jobs :
        \/ Create(j) \/ Advance(j) \/ RequestCancel(j) \/ CompleteCancel(j)
        \/ RequestDelete(j) \/ Delete(j)

Spec == Init /\ [][Next]_vars
=============================================================================
