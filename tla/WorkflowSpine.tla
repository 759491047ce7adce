---------------------------- MODULE WorkflowSpine ----------------------------
(***************************************************************************)
(* The rows of one workflow run in state.db - the workflow_runs row with   *)
(* its engine lease and the workflow_run_steps rows - and the statements   *)
(* and transactions that change them.  Any engine may try any of them at   *)
(* any time: what is proved here holds whatever the engines do.            *)
(*                                                                         *)
(* Every action is one SQLite statement or one transaction.  The lease     *)
(* expiry is a flag: live = (engine_lease_until >= now), and the passing   *)
(* of time is the action LeaseExpires.                                     *)
(***************************************************************************)
EXTENDS Integers

CONSTANTS
    NSteps,             \* steps of the frozen plan, numbered 1..NSteps
    Engine,             \* engine invocations; each has a random lease-holder id
    Resumer,            \* processes that call resumeWorkflowRun
    None                \* SQL NULL in the lease-holder column

ASSUME SpineAssumption ==
    /\ NSteps \in Nat \ {0}
    /\ None \notin Engine

VARIABLES
    runStatus,          \* workflow_runs.status
    current,            \* workflow_runs.current_step_id, NoStep for NULL
    step,               \* workflow_run_steps.status of every step
    holder,             \* workflow_runs.engine_lease_holder
    live,               \* the lease has not expired
    resuming,           \* resumers between their read and their transaction
    snap                \* the current_step_id each resumer has read

spineVars == <<runStatus, current, step, holder, live, resuming, snap>>

Steps == 1..NSteps
NoStep == 0
RunStatus == {"active", "blocked", "failed", "completed"}
StepStatus == {"pending", "completed", "skipped", "failed", "blocked"}
Finished == {"completed", "skipped"}
Unresolved == {"failed", "blocked"}

SpineTypeOK ==
    /\ runStatus \in RunStatus
    /\ current \in Steps \cup {NoStep}
    /\ step \in [Steps -> StepStatus]
    /\ holder \in Engine \cup {None}
    /\ live \in BOOLEAN
    /\ resuming \in SUBSET Resumer
    /\ snap \in [Resumer -> Steps \cup {NoStep}]

-----------------------------------------------------------------------------
(* deriveRunState: the run state that a set of step rows stands for.       *)

First(S) == CHOOSE s \in S : \A t \in S : s =< t
UnresolvedSteps(rows) == {s \in Steps : rows[s] \in Unresolved}
PendingSteps(rows) == {s \in Steps : rows[s] = "pending"}

\* Mutant: the cursor runs past the last step instead of becoming NULL.
MutantCursorPastEnd(rows) ==
    CASE UnresolvedSteps(rows) # {} -> First(UnresolvedSteps(rows))
      [] UnresolvedSteps(rows) = {} /\ PendingSteps(rows) # {} -> First(PendingSteps(rows))
      [] OTHER -> NSteps + 1
\* Mutant: pending steps are looked for before unresolved ones.
MutantPendingFirst(rows) ==
    CASE PendingSteps(rows) # {} -> First(PendingSteps(rows))
      [] PendingSteps(rows) = {} /\ UnresolvedSteps(rows) # {} -> First(UnresolvedSteps(rows))
      [] OTHER -> NoStep
DerivedCurrent(rows) ==
    CASE UnresolvedSteps(rows) # {} -> First(UnresolvedSteps(rows))
      [] UnresolvedSteps(rows) = {} /\ PendingSteps(rows) # {} -> First(PendingSteps(rows))
      [] OTHER -> NoStep

DerivedStatus(rows) ==
    CASE UnresolvedSteps(rows) # {} -> rows[First(UnresolvedSteps(rows))]
      [] UnresolvedSteps(rows) = {} /\ PendingSteps(rows) # {} -> "active"
      [] OTHER -> "completed"

\* assertRunStatusMatchesSpine: what the code checks before it mutates a run.
StatusMatchesSpine(status, cur, rows) ==
    /\ status = "active" =>
        /\ cur \in Steps
        /\ rows[cur] = "pending"
        /\ \A s \in Steps : s < cur => rows[s] # "pending"
    /\ status = "blocked" => cur \in Steps /\ rows[cur] = "blocked"
    /\ status = "failed" =>
        cur \in Steps /\ rows[cur] \in {"failed", "pending", "blocked"}
    /\ status = "completed" =>
        cur = NoStep /\ \A s \in Steps : rows[s] \in Finished

-----------------------------------------------------------------------------
SpineInit ==
    /\ runStatus = "active"
    /\ current = 1
    /\ step = [s \in Steps |-> "pending"]
    /\ holder = None
    /\ live = FALSE
    /\ resuming = {}
    /\ snap = [r \in Resumer |-> NoStep]

\* acquireEngineLease: one UPDATE, on an active run with no unexpired lease.
\* Mutant: a lease that is still live can be taken.
MutantStealLease(e) == runStatus = "active"
CanAcquire(e) == runStatus = "active" /\ ~live
AcquireEngineLease(e) ==
    /\ CanAcquire(e)
    /\ holder' = e
    /\ live' = TRUE
    /\ UNCHANGED <<runStatus, current, step, resuming, snap>>

\* renewEngineLease: only the holder, only while the run is active; an expired
\* lease that nobody took or cleared is renewed too.
CanRenew(e) == holder = e /\ runStatus = "active"
RenewEngineLease(e) ==
    /\ CanRenew(e)
    /\ live' = TRUE
    /\ UNCHANGED <<runStatus, current, step, holder, resuming, snap>>

\* releaseEngineLease: a no-op for an engine that lost the lease; a failed run
\* keeps its last holder and expiry.
CanRelease(e) == holder = e /\ runStatus # "failed"
ReleaseEngineLease(e) ==
    /\ CanRelease(e)
    /\ holder' = None
    /\ live' = FALSE
    /\ UNCHANGED <<runStatus, current, step, resuming, snap>>

\* The lease runs out; its row does not change.
LeaseExpires ==
    /\ live
    /\ live' = FALSE
    /\ UNCHANGED <<runStatus, current, step, holder, resuming, snap>>

\* reclaimOrphanedEngineLease: a read of the run (readWorkflowRun) clears a
\* lease it finds expired, by compare-and-swap on the holder and expiry read.
HolderAfterRead == IF live THEN holder ELSE None
ReclaimExpiredLease ==
    /\ holder # None
    /\ ~live
    /\ holder' = None
    /\ UNCHANGED <<runStatus, current, step, live, resuming, snap>>

\* completeWorkflowStep's write transaction: every condition is checked again
\* inside it, the step row is written and the run state derived from all rows.
\* Mutant: any pending step can be completed, not the current one only.
MutantAnyStep(e, s) ==
    /\ StatusMatchesSpine(runStatus, current, step)
    /\ runStatus = "active"
    /\ live => holder = e
    /\ step[s] = "pending"
\* Mutant: the status of the run is not looked at again in the transaction.
MutantAdvanceStopped(e, s) ==
    /\ StatusMatchesSpine(runStatus, current, step)
    /\ live => holder = e
    /\ step[s] = "pending"
    /\ current = s
CanAdvance(e, s) ==
    /\ StatusMatchesSpine(runStatus, current, step)
    /\ runStatus = "active"
    /\ live => holder = e
    /\ step[s] = "pending"
    /\ current = s
AdvanceSpine(e, s, outcome) ==
    /\ CanAdvance(e, s)
    /\ step' = [step EXCEPT ![s] = outcome]
    /\ runStatus' = DerivedStatus(step')
    /\ current' = DerivedCurrent(step')
    /\ holder' = HolderAfterRead
    /\ UNCHANGED <<live, resuming, snap>>

\* resumeWorkflowRun reads the run outside any transaction ...
\* Mutant: a completed run is not refused.
MutantResumeCompleted(r) ==
    /\ r \notin resuming
    /\ runStatus # "active"
    /\ resuming' = resuming \cup {r}
    /\ snap' = [snap EXCEPT ![r] = current]
    /\ holder' = HolderAfterRead
    /\ UNCHANGED <<runStatus, current, step, live>>
ResumeRead(r) ==
    /\ r \notin resuming
    /\ runStatus \in {"blocked", "failed"}
    /\ resuming' = resuming \cup {r}
    /\ snap' = [snap EXCEPT ![r] = current]
    /\ holder' = HolderAfterRead
    /\ UNCHANGED <<runStatus, current, step, live>>

\* ... and writes what it decided then: reopenStepsForResume on the step it
\* read, and markRunActive, which has no condition on the status and clears
\* the lease whoever holds it.
\* Mutant: the run is active again and its step is not.
MutantResumeKeepsStep(r) ==
    /\ r \in resuming
    /\ resuming' = resuming \ {r}
    /\ runStatus' = "active"
    /\ holder' = None
    /\ live' = FALSE
    /\ UNCHANGED <<current, step, snap>>
\* Mutant: every step is reopened.
MutantResumeReopensAll(r) ==
    /\ r \in resuming
    /\ resuming' = resuming \ {r}
    /\ step' = [s \in Steps |-> "pending"]
    /\ runStatus' = "active"
    /\ holder' = None
    /\ live' = FALSE
    /\ UNCHANGED <<current, snap>>
ResumeCommit(r) ==
    /\ r \in resuming
    /\ resuming' = resuming \ {r}
    /\ step' = [s \in Steps |->
                    IF s = snap[r] /\ step[s] \in Unresolved THEN "pending" ELSE step[s]]
    /\ runStatus' = "active"
    /\ holder' = None
    /\ live' = FALSE
    /\ UNCHANGED <<current, snap>>

\* abandonWorkflowRun: one IMMEDIATE transaction; the lease and the step rows
\* stay as they are, so that resume can reopen the same work.
\* Mutant: a finished run can be abandoned.
MutantAbandonAnything ==
    /\ runStatus' = "failed"
    /\ holder' = HolderAfterRead
    /\ UNCHANGED <<current, step, live, resuming, snap>>
AbandonRun ==
    /\ runStatus \in {"active", "blocked"}
    /\ runStatus' = "failed"
    /\ holder' = HolderAfterRead
    /\ UNCHANGED <<current, step, live, resuming, snap>>

SpineNext ==
    \/ \E e \in Engine : \/ AcquireEngineLease(e)
                         \/ RenewEngineLease(e)
                         \/ ReleaseEngineLease(e)
                         \/ \E s \in Steps, outcome \in StepStatus \ {"pending"} :
                                AdvanceSpine(e, s, outcome)
    \/ \E r \in Resumer : ResumeRead(r) \/ ResumeCommit(r)
    \/ LeaseExpires
    \/ ReclaimExpiredLease
    \/ AbandonRun

SpineSpec == SpineInit /\ [][SpineNext]_spineVars

-----------------------------------------------------------------------------
(* Properties.                                                             *)

\* The durable spine never disagrees with the run row: what
\* assertRunStatusMatchesSpine throws on is never there to be found.  Needs
\* that no two resumes overlap (see SingleResumer).
RunStatusMatchesSpine == StatusMatchesSpine(runStatus, current, step)

\* The plan is walked in order, through any interleaving of engines, failures,
\* resumes and abandons: a step leaves "pending" only after all before it are
\* finished, so no step ever runs on the results of a step that is reopened.
SpineInOrder ==
    \A s, t \in Steps : s < t /\ step[t] # "pending" => step[s] \in Finished

\* At most the step the run stands at is failed or blocked, so resume, which
\* reopens that one step only, leaves nothing unresolved behind.
UnresolvedIsCurrent == \A s \in Steps : step[s] \in Unresolved => s = current

\* The cursor splits the spine: everything before the current step is finished,
\* and a run without a current step has finished everything, so the code may
\* look at current_step_id alone to know what a resume has to redo.
CursorSplitsSpine ==
    \A s \in Steps : current = NoStep \/ s < current => step[s] \in Finished

\* The four together are kept by every step, whoever resumes the run.
SpineInv == SpineTypeOK /\ SpineInOrder /\ UnresolvedIsCurrent /\ CursorSplitsSpine

\* A finished step is never run again, whatever is resumed or abandoned.
FinishedStepIsFinal ==
    [][\A s \in Steps : step[s] \in Finished => step'[s] = step[s]]_spineVars

\* A completed run stays completed.  Needs SingleResumer too.
CompletedRunIsFinal ==
    [][runStatus = "completed" => runStatus' = "completed"]_spineVars

\* The hypothesis under which the resume's read and its transaction cannot be
\* separated by another resume: one process at a time resumes the run.
SingleResumer == \A r1, r2 \in Resumer : r1 = r2

\* What a resume has read outside its transaction is still so when it commits.
ResumeReadIsFresh ==
    \A r \in resuming : runStatus \in {"blocked", "failed"} /\ snap[r] = current

\* What is kept as long as resumes do not overlap.
ResumeInv == SpineInv /\ RunStatusMatchesSpine /\ ResumeReadIsFresh

\* The run as its user sees it: steps before the current one are finished.
Lifecycle == INSTANCE RunLifecycle WITH
    finished <- IF current = NoStep THEN NSteps ELSE current - 1,
    state <- runStatus
ImplementsLifecycle == Lifecycle!Spec
=============================================================================
