------------------------------- MODULE ChildRun -------------------------------
(***************************************************************************)
(* Child workflows: a unit whose dispatch is a run of its own.  The child  *)
(* is published at most once per unit, driven by the engine of the parent  *)
(* under the child's own lease, and its final status, read again, is the   *)
(* outcome of the unit.  People see the child as a run like any other:     *)
(* they resume, abandon and drive it.  What resumeWorkflowRun does to it   *)
(* is, as in WorkflowSpine, a read and a transaction that does not repeat  *)
(* the read.                                                               *)
(***************************************************************************)
EXTENDS StepDispatch

VARIABLES
    children,           \* children[u]: the statuses of the runs published for unit u
    driver,             \* driver[u]: the live lease of u's child
    reopening           \* reopening[u]: resumes of u's child between their read and
                        \* their transaction

childVars == <<children, driver, reopening>>
allVars == <<dispatchVars, childVars>>

ChildUnit == Unit \ Plain

ChildTypeOK ==
    /\ DispatchTypeOK
    /\ children \in [ChildUnit -> Seq(RunStatus)]
    /\ driver \in [ChildUnit -> Engine \cup {None}]
    /\ reopening \in [ChildUnit -> SUBSET Resumer]

ChildInit ==
    /\ DispatchInit
    /\ children = [u \in ChildUnit |-> <<>>]
    /\ driver = [u \in ChildUnit |-> None]
    /\ reopening = [u \in ChildUnit |-> {}]

Published(u) == children[u] # <<>>
Status(u) == children[u][Len(children[u])]
Stopped == {"blocked", "failed"}
CanDrive(u) == Status(u) = "active" /\ driver[u] = None
SetStatus(u, status) == children' = [children EXCEPT ![u][Len(children[u])] = status]
\* The child unit i of engine e is at w, and comes as far as w.
Stands(e, i, w) == At(e, "units") /\ Key(e, i) \in ChildUnit /\ inv[e].work[i] = w
Comes(e, i, w) ==
    /\ inv' = [inv EXCEPT ![e].work[i] = w]
    /\ UNCHANGED <<spineVars, journalVars, reopening>>

-----------------------------------------------------------------------------
(* driveChildWorkflowUnit                                                  *)

\* Mutant: the run is published for the attempt, not for the unit.
MutantPublishAgain(e, i) ==
    /\ Stands(e, i, "dispatch")
    /\ Comes(e, i, "drive")
    /\ children' = [children EXCEPT ![Key(e, i)] = Append(@, "active")]
    /\ UNCHANGED driver
\* publishChildRun: the run published for this unit by any earlier attempt, or a new
\* one; a child that is blocked or failed is not driven.
PublishChild(e, i) ==
    /\ Stands(e, i, "dispatch")
    /\ \/ /\ Published(Key(e, i))
          /\ Comes(e, i, IF Status(Key(e, i)) \in Stopped THEN "reread" ELSE "drive")
          /\ UNCHANGED children
       \/ /\ ~Published(Key(e, i))
          /\ Comes(e, i, "drive")
          /\ children' = [children EXCEPT ![Key(e, i)] = <<"active">>]
    /\ UNCHANGED driver

\* The plan's hash, the parameters or the publication itself are not right.
PublishFails(e, i) ==
    /\ Stands(e, i, "dispatch")
    /\ Comes(e, i, "erred")
    /\ UNCHANGED childVars

\* runWorkflowSteps on the child: driven under the child's lease; nothing to do, if it
\* is completed; refused, if it was stopped meanwhile or somebody else drives it.
BeginDrive(e, i) ==
    /\ Stands(e, i, "drive")
    /\ \/ /\ CanDrive(Key(e, i))
          /\ driver' = [driver EXCEPT ![Key(e, i)] = e]
          /\ Comes(e, i, "driving")
       \/ /\ ~CanDrive(Key(e, i))
          /\ Comes(e, i, IF Status(Key(e, i)) = "completed" THEN "reread" ELSE "erred")
          /\ UNCHANGED driver
    /\ UNCHANGED children

\* The drive ends in a status of the child, or without one: its gate is exhausted, or
\* the parent is interrupted.
EndDrive(e, i) ==
    /\ Stands(e, i, "driving")
    /\ Status(Key(e, i)) = "active" /\ driver[Key(e, i)] \in {e, None}
    /\ \E status \in RunStatus : SetStatus(Key(e, i), status)
    /\ driver' = [driver EXCEPT ![Key(e, i)] = None]
    /\ Comes(e, i, "reread")

\* It throws when the child is not active any more, or the lease is lost.
DriveThrows(e, i) ==
    /\ Stands(e, i, "driving")
    /\ Status(Key(e, i)) # "active" \/ driver[Key(e, i)] # e
    /\ driver' = [driver EXCEPT ![Key(e, i)] = IF @ = e THEN None ELSE @]
    /\ Comes(e, i, "erred")
    /\ UNCHANGED children

\* Mutant: the end of the drive is taken for the end of the child.
MutantDriveMeansDone(e, i) ==
    /\ Stands(e, i, "reread")
    /\ Comes(e, i, "succeeded")
    /\ UNCHANGED childVars
\* The status of the child is read again, and is the outcome of the unit.
RereadChild(e, i) ==
    /\ Stands(e, i, "reread")
    /\ Comes(e, i, CASE Status(Key(e, i)) = "completed" -> "succeeded"
                      [] Status(Key(e, i)) = "blocked" -> "childBlocked"
                      [] OTHER -> "erred")
    /\ UNCHANGED childVars

ChildStep(e) ==
    \E i \in Item : \/ PublishChild(e, i) \/ PublishFails(e, i) \/ BeginDrive(e, i)
                      \/ EndDrive(e, i) \/ DriveThrows(e, i) \/ RereadChild(e, i)

-----------------------------------------------------------------------------
(* The child as a run of its own (WorkflowSpine has the details).          *)

\* `akm workflow resume` on the child: what it decides from is read outside of its
\* transaction ...
ResumeChildRead(r, u) ==
    /\ Published(u) /\ Status(u) \in Stopped
    /\ r \notin reopening[u]
    /\ reopening' = [reopening EXCEPT ![u] = @ \cup {r}]
    /\ UNCHANGED <<children, driver, dispatchVars>>

\* ... which asks for no status again: the child is active and its lease is cleared,
\* whatever has become of it meanwhile.  (The drive of a child that overlapping resumes
\* have corrupted fails; here it may also end in any other way.)
ResumeChildCommit(r, u) ==
    /\ r \in reopening[u]
    /\ reopening' = [reopening EXCEPT ![u] = @ \ {r}]
    /\ SetStatus(u, "active")
    /\ driver' = [driver EXCEPT ![u] = None]
    /\ UNCHANGED dispatchVars

AbandonChild(u) ==
    /\ Published(u) /\ Status(u) \in {"active", "blocked"}
    /\ SetStatus(u, "failed")
    /\ UNCHANGED <<driver, reopening, dispatchVars>>

\* `akm workflow run` on the child, by somebody else, from its lease to its release.
PersonDrives(u) ==
    /\ Published(u) /\ CanDrive(u)
    /\ \E status \in RunStatus : SetStatus(u, status)
    /\ UNCHANGED <<driver, reopening, dispatchVars>>

ChildLeaseExpires(u) ==
    /\ driver[u] # None
    /\ driver' = [driver EXCEPT ![u] = None]
    /\ UNCHANGED <<children, reopening, dispatchVars>>

\* What comes from outside the invocation.
ChildOutside(u) ==
    \/ \E r \in Resumer : ResumeChildRead(r, u) \/ ResumeChildCommit(r, u)
    \/ AbandonChild(u) \/ PersonDrives(u) \/ ChildLeaseExpires(u)

ChildNext ==
    \/ DispatchNext /\ UNCHANGED childVars
    \/ \E e \in Engine : ChildStep(e)
    \/ \E u \in ChildUnit : ChildOutside(u)

ChildSpec == ChildInit /\ [][ChildNext]_allVars

-----------------------------------------------------------------------------
(* Properties.                                                             *)

\* However often the unit is dispatched - after a crash between its reservation and
\* the publication, after one while the child ran, by an engine that took the claim
\* over - one run is published for it.
OneChildPerUnit == \A u \in ChildUnit : Len(children[u]) <= 1

\* A unit is journaled as completed, and an intolerant step is completed, only on a
\* child that is completed, and the child stays so.  Needs that no two resumes overlap
\* (SingleResumer): the later one may write "active" over a child that the earlier one
\* has let complete.
StepNeedsItsChildren ==
    \A u \in ChildUnit :
        row[u].status = "completed" \/ (step[u[1]] = "completed" /\ u[1] \notin Tolerant)
        => Published(u) /\ Status(u) = "completed"

\* No invocation is ever stuck: whatever is refused, displaced, interrupted or left
\* unclaimed, a worker, the step or the invocation can go on.
InvocationNeverStuck ==
    \A e \in Engine :
        inv[e].pc \notin {"idle", "done"} => ENABLED (InvocationStep(e) \/ ChildStep(e))
=============================================================================
