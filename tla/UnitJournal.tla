----------------------------- MODULE UnitJournal -----------------------------
(***************************************************************************)
(* The append-only dispatch attempts of a run (workflow_run_unit_attempts) *)
(* and the projection every reader uses (workflow_run_units).  A journal   *)
(* key is a unit of work or a gate evaluation; reserveUnitAttempt and      *)
(* finishUnitAttempt are IMMEDIATE transactions on both tables.  The run   *)
(* row they look at is WorkflowSpine's.                                    *)
(***************************************************************************)
EXTENDS WorkflowSpine, Sequences

CONSTANTS
    Unit,               \* journal keys: units of work and gate evaluations
    Outcome             \* the results a finished attempt may carry

ASSUME JournalAssumption == None \notin Outcome

VARIABLES
    attempts,           \* attempts[u]: the attempt rows of u, in order
    row                 \* row[u]: the workflow_run_units projection of u

journalVars == <<attempts, row>>

AttemptStatus == {"running", "completed", "failed"}
Attempt == [claim: Engine, status: AttemptStatus, result: Outcome \cup {None}]
Row == [claim: Engine \cup {None}, status: AttemptStatus \cup {"absent"},
        result: Outcome \cup {None}, attempts: Nat]

JournalTypeOK ==
    /\ attempts \in [Unit -> Seq(Attempt)]
    /\ row \in [Unit -> Row]

NoRow == [claim |-> None, status |-> "absent", result |-> None, attempts |-> 0]
JournalInit ==
    /\ attempts = [u \in Unit |-> <<>>]
    /\ row = [u \in Unit |-> NoRow]

Latest(u) == attempts[u][Len(attempts[u])]
\* Mutant: the status of the latest attempt is not looked at.
MutantAlwaysRunning(u) == attempts[u] # <<>>
HasRunning(u) == attempts[u] # <<>> /\ Latest(u).status = "running"

\* assertAttemptReservationLease: the run is active and the claimant is the
\* holder of its unexpired lease.
CanReserve(e) == runStatus = "active" /\ holder = e /\ live

\* No attempt is running: append the next attempt, and set the projection back
\* to running with its old result erased.
FreshAttempt(e, u) ==
    /\ attempts' = [attempts EXCEPT ![u] =
            Append(@, [claim |-> e, status |-> "running", result |-> None])]
    /\ row' = [row EXCEPT ![u] = [claim |-> e, status |-> "running", result |-> None,
                                  attempts |-> Len(attempts[u]) + 1]]

\* An attempt of another engine is running: the lease holder takes its claim
\* over, and with it the attempt number and the dispatch id.
\* Mutant: the projection keeps the claim of the dead engine.
MutantRowKeepsClaim(e, u) ==
    /\ attempts' = [attempts EXCEPT ![u][Len(attempts[u])].claim = e]
    /\ UNCHANGED row
\* Mutant: the running attempt keeps the claim of the dead engine.
MutantNoTakeOver(e, u) == UNCHANGED journalVars
TakeOverClaim(e, u) ==
    /\ attempts' = [attempts EXCEPT ![u][Len(attempts[u])].claim = e]
    /\ row' = [row EXCEPT ![u] = IF @.status = "running" THEN [@ EXCEPT !.claim = e] ELSE @]

\* reserveUnitAttempt in its engine mode, which is the only one used.
\* Mutant: a running attempt does not stop the next one from being appended.
MutantReserveTwice(e, u) ==
    /\ CanReserve(e)
    /\ FreshAttempt(e, u)
    /\ UNCHANGED spineVars
ReserveUnitAttempt(e, u) ==
    /\ CanReserve(e)
    /\ IF HasRunning(u) THEN TakeOverClaim(e, u) ELSE FreshAttempt(e, u)
    /\ UNCHANGED spineVars

\* The attempt number that a reservation made now would return.
ReservedAttempt(u) == IF HasRunning(u) THEN Len(attempts[u]) ELSE Len(attempts[u]) + 1

\* finishUnitAttempt: compare-and-swap on attempt number, claim and status.
CanFinish(e, u, n) ==
    /\ n \in DOMAIN attempts[u]
    /\ attempts[u][n].status = "running"
    /\ attempts[u][n].claim = e
FinishUnitAttempt(e, u, n, status, result) ==
    /\ CanFinish(e, u, n)
    /\ row[u].status = "running" /\ row[u].attempts = n /\ row[u].claim = e
    /\ attempts' = [attempts EXCEPT ![u][n] =
            [claim |-> e, status |-> status, result |-> result]]
    /\ row' = [row EXCEPT ![u] = [claim |-> e, status |-> status, result |-> result,
                                  attempts |-> n]]
    /\ UNCHANGED spineVars

JournalNext ==
    \/ \E e \in Engine, u \in Unit : ReserveUnitAttempt(e, u)
    \/ \E e \in Engine, u \in Unit, result \in Outcome \cup {None} :
        \E n \in DOMAIN attempts[u], status \in AttemptStatus \ {"running"} :
            FinishUnitAttempt(e, u, n, status, result)

\* The journal under a spine that moves on its own.
JournalSpec ==
    /\ SpineInit /\ JournalInit
    /\ [][(SpineNext /\ UNCHANGED journalVars) \/ JournalNext]_<<spineVars, journalVars>>

-----------------------------------------------------------------------------
(* Properties.                                                             *)

\* Only the latest attempt of a unit can be running: what several engines and
\* their late answers leave behind is a list of finished attempts, so there is
\* one claim to take over and one row a finish can hit.
OnlyLatestRunning ==
    \A u \in Unit : \A n \in DOMAIN attempts[u] :
        n < Len(attempts[u]) => attempts[u][n].status # "running"

\* The projection that resume decides from is the latest attempt, field by
\* field, although four different UPDATEs keep the two tables in step.
ProjectionIsLatest ==
    \A u \in Unit :
        row[u] = IF attempts[u] = <<>> THEN NoRow
                 ELSE [claim |-> Latest(u).claim, status |-> Latest(u).status,
                       result |-> Latest(u).result, attempts |-> Len(attempts[u])]

\* What every step on the journal keeps.
JournalInv == JournalTypeOK /\ OnlyLatestRunning /\ ProjectionIsLatest

\* The journal is append-only and a finished attempt keeps its result: a late
\* answer never overwrites the winner of the compare-and-swap.
FinishedAttemptIsFinal ==
    [][\A u \in Unit : \A n \in DOMAIN attempts[u] :
            /\ n \in DOMAIN attempts'[u]
            /\ attempts[u][n].status # "running" => attempts'[u][n] = attempts[u][n]
      ]_<<spineVars, journalVars>>
=============================================================================
