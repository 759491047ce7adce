---------------------------- MODULE RunLifecycle ----------------------------
(***************************************************************************)
(* What a workflow run promises to the person who started it, without its  *)
(* engines, leases or rows: the steps of the frozen plan are finished one  *)
(* at a time and in order, a run that stopped can be taken up again where  *)
(* it stopped, and a completed run has finished every step and stays       *)
(* completed.  WorkflowSpine implements this specification.                *)
(***************************************************************************)
EXTENDS Naturals

CONSTANT NSteps         \* how many steps the frozen plan has

VARIABLES
    finished,           \* how many steps are finished (completed or skipped)
    state               \* "active", "blocked", "failed" or "completed"

lifecycleVars == <<finished, state>>

Init == finished = 0 /\ state = "active"

\* The step the run stands at is finished; the last one completes the run.
FinishStep ==
    /\ state = "active"
    /\ finished < NSteps
    /\ finished' = finished + 1
    /\ state' = IF finished' = NSteps THEN "completed" ELSE "active"

\* The step the run stands at fails, or is blocked until somebody helps.
Stop ==
    /\ state = "active"
    /\ finished < NSteps
    /\ state' \in {"blocked", "failed"}
    /\ UNCHANGED finished

\* Somebody gives up on the run.
Abandon ==
    /\ state \in {"active", "blocked"}
    /\ state' = "failed"
    /\ UNCHANGED finished

\* A stopped run is taken up again at the step where it stopped.
Resume ==
    /\ state \in {"blocked", "failed"}
    /\ state' = "active"
    /\ UNCHANGED finished

Next == FinishStep \/ Stop \/ Abandon \/ Resume

Spec == Init /\ [][Next]_lifecycleVars
=============================================================================
