----------------------------- MODULE StepDispatch -----------------------------
(***************************************************************************)
(* The fan-out of a step: executeStepPlan's units on the bounded pool of   *)
(* scheduleUnits, with retries, interruption, the reuse of journaled       *)
(* results and the run's declared budget (DispatchBudget), which lives in  *)
(* the memory of an engine and is seeded from the journal by the next one. *)
(* The rows are UnitJournal's and WorkflowSpine's; gates, whose judge has  *)
(* no part in the budget, are WorkflowEngine's.                            *)
(***************************************************************************)
EXTENDS UnitJournal, FiniteSets

CONSTANTS
    NUnits,             \* units of a step, in the order of its work list
    Plain,              \* the units that an agent or a command executes
    Width,              \* the pool: units in flight at once
    MaxUnits,           \* budget.max_units
    MaxTokens,          \* budget.max_tokens
    MaxRetry,           \* retry.max of every unit
    Tolerant            \* steps whose template says onError: continue

Item == 1..NUnits
\* The token usage that an answer reports: none, or one token.
Usage == {"free", "one"}

ASSUME DispatchAssumption ==
    /\ NUnits \in Nat \ {0} /\ Width \in Nat \ {0} /\ Plain \subseteq Unit
    /\ MaxUnits \in Nat /\ MaxTokens \in Nat /\ MaxRetry \in Nat
    /\ Tolerant \subseteq Steps
    /\ Unit = Steps \X Item /\ Outcome = Usage

VARIABLES
    inv                 \* inv[e]: the engine invocation e, with its locals

dispatchVars == <<spineVars, journalVars, inv>>

Leased == {"seed", "next", "renew", "classify", "units", "complete"}
PC == {"idle", "acquire", "release", "done"} \cup Leased

\* A unit: not claimed yet; about to reserve; out; with a child run; answered; and what
\* runUnit returns in the end.
Answered == {"succeeded", "erred", "childBlocked"}
InFlight == {"reserve", "dispatch", "drive", "driving", "reread"} \cup Answered
Returned == {"ok", "failed", "blocked", "unwritten"}
Work == {"todo", "reusable"} \cup InFlight \cup Returned
Local == [
    pc: PC,
    stop: BOOLEAN,                          \* the dispatch signal: lease lost, or interrupted
    at: Steps \cup {NoStep},
    used: 0..MaxUnits, tokens: Nat,         \* DispatchBudget
    tripped: BOOLEAN,                       \* its budgetMessage, and the abort it raises
    claimed: 0..NUnits,                     \* nextIndex of concurrentMap
    work: [Item -> Work],
    att: [Item -> Nat], tries: [Item -> 0..MaxRetry],
    usage: [Item -> Usage],
    verdict: {"none", "completed", "failed", "blocked"}]

DispatchTypeOK == SpineTypeOK /\ JournalTypeOK /\ inv \in [Engine -> Local]

NoWork == [work |-> [i \in Item |-> "todo"], att |-> [i \in Item |-> 0],
           tries |-> [i \in Item |-> 0], usage |-> [i \in Item |-> "free"]]
Fresh == [pc |-> "idle", stop |-> FALSE, at |-> NoStep, used |-> 0, tokens |-> 0,
          tripped |-> FALSE, claimed |-> 0, work |-> NoWork.work, att |-> NoWork.att,
          tries |-> NoWork.tries, usage |-> NoWork.usage, verdict |-> "none"]

DispatchInit == SpineInit /\ JournalInit /\ inv = [e \in Engine |-> Fresh]

At(e, label) == inv[e].pc = label
Goto(e, label) == inv' = [inv EXCEPT ![e].pc = label]
Leave(e, label) == inv' = [inv EXCEPT ![e] = [Fresh EXCEPT !.pc = label]]
Key(e, i) == <<inv[e].at, i>>
Aborted(l) == l.stop \/ l.tripped
Running(e) == {i \in Item : inv[e].work[i] \in InFlight}

-----------------------------------------------------------------------------
(* The journal as the budget sees it.                                      *)

AttemptRows == UNION {{<<u, n>> : n \in DOMAIN attempts[u]} : u \in Unit}
Journaled == Cardinality(AttemptRows)
Spent == Cardinality({a \in AttemptRows : attempts[a[1]][a[2]].result = "one"})

-----------------------------------------------------------------------------
(* An invocation: the run, its lease, the seed of the budget.              *)

OpenRun(e) ==
    /\ At(e, "idle") /\ runStatus = "active"
    /\ inv' = [inv EXCEPT ![e].pc = "acquire", ![e].at = current]
    /\ UNCHANGED <<spineVars, journalVars>>

AcquireRunLease(e) ==
    /\ At(e, "acquire")
    /\ \/ AcquireEngineLease(e) /\ Goto(e, "seed")
       \/ ~CanAcquire(e) /\ Leave(e, "done") /\ UNCHANGED spineVars
    /\ UNCHANGED journalVars

\* Mutant: every invocation begins with the whole budget.
MutantFreshBudget(e) ==
    /\ At(e, "seed")
    /\ Goto(e, "renew")
    /\ UNCHANGED <<spineVars, journalVars>>
\* seedRunAccountingFromJournal.
SeedBudget(e) ==
    /\ At(e, "seed")
    /\ inv' = [inv EXCEPT ![e].pc = "renew", ![e].used = Journaled, ![e].tokens = Spent]
    /\ UNCHANGED <<spineVars, journalVars>>

\* After a step: the next one, or the end.
ReadNext(e) ==
    /\ At(e, "next")
    /\ IF runStatus = "active"
       THEN inv' = [inv EXCEPT ![e].pc = "renew", ![e].at = current]
       ELSE Leave(e, "release")
    /\ UNCHANGED <<spineVars, journalVars>>

RenewBetweenSteps(e) ==
    /\ At(e, "renew")
    /\ \/ ~inv[e].stop /\ inv[e].at # NoStep /\ RenewEngineLease(e) /\ Goto(e, "classify")
       \/ /\ inv[e].stop \/ inv[e].at = NoStep \/ ~CanRenew(e)
          /\ Leave(e, "release") /\ UNCHANGED spineVars
    /\ UNCHANGED journalVars

\* A step ends in a verdict, which assertAlive, or the caller's abort, may drop.
Settled(e, verdict) ==
    IF inv[e].stop THEN Leave(e, "release")
    ELSE inv' = [inv EXCEPT ![e].pc = "complete", ![e].verdict = verdict]

\* The journal is read once, and every unit classified; a prerequisite of the
\* dispatch may be missing, if there is anything to dispatch.
ClassifyUnits(e) ==
    /\ At(e, "classify")
    /\ LET reusable == {i \in Item : row[Key(e, i)].status = "completed"} IN
        \/ inv' = [inv EXCEPT ![e].pc = "units",
                              ![e].work = [i \in Item |-> IF i \in reusable THEN "reusable" ELSE "todo"]]
        \/ reusable # Item /\ Settled(e, "failed")
    /\ UNCHANGED <<spineVars, journalVars>>

-----------------------------------------------------------------------------
(* The pool and its units.  What runUnit does between two awaits is one    *)
(* operator on the locals l of an engine.                                  *)

\* Mutant: one unit too many.
MutantOffByOne(l) == l.used > MaxUnits \/ l.tokens >= MaxTokens
AtCeiling(l) == l.used >= MaxUnits \/ l.tokens >= MaxTokens
\* Mutant: only a ceiling that somebody else has hit already is looked at.
MutantStickyOnly(l, i) ==
    IF l.tripped THEN [l EXCEPT !.work[i] = "failed"]
    ELSE [l EXCEPT !.used = @ + 1, !.work[i] = "reserve"]
\* DispatchBudget.tryConsume, before every attempt; refused, the unit fails.
TryConsume(l, i) ==
    IF l.tripped \/ AtCeiling(l)
    THEN [l EXCEPT !.tripped = TRUE, !.work[i] = "failed"]
    ELSE [l EXCEPT !.used = @ + 1, !.work[i] = "reserve"]

\* A worker takes the next unit of the list, as long as nothing is aborted.
ClaimUnit(e) ==
    /\ At(e, "units")
    /\ inv[e].claimed < NUnits /\ ~Aborted(inv[e]) /\ Cardinality(Running(e)) < Width
    /\ LET i == inv[e].claimed + 1
           l == [inv[e] EXCEPT !.claimed = i]
       IN inv' = [inv EXCEPT ![e] = IF l.work[i] = "reusable" THEN [l EXCEPT !.work[i] = "ok"]
                                    ELSE TryConsume(l, i)]
    /\ UNCHANGED <<spineVars, journalVars>>

\* reserveJournaledDispatch.
ReserveUnit(e, i) ==
    /\ At(e, "units") /\ inv[e].work[i] = "reserve"
    /\ ReserveUnitAttempt(e, Key(e, i))
    /\ inv' = [inv EXCEPT ![e].work[i] = "dispatch", ![e].att[i] = ReservedAttempt(Key(e, i))]

\* No worktree, or no row: nothing is dispatched, and neither failure is one that
\* can be retried.
NothingDispatched(e, i) ==
    /\ At(e, "units") /\ inv[e].work[i] = "reserve"
    /\ inv' = [inv EXCEPT ![e].work[i] = "failed"]
    /\ UNCHANGED <<spineVars, journalVars>>

\* The external effect, and its answer.
DispatchUnit(e, i) ==
    /\ At(e, "units") /\ inv[e].work[i] = "dispatch" /\ Key(e, i) \in Plain
    /\ \E answer \in {"succeeded", "erred"}, usage \in Usage :
        inv' = [inv EXCEPT ![e].work[i] = answer, ![e].usage[i] = usage]
    /\ UNCHANGED <<spineVars, journalVars>>

\* DispatchBudget.addTokens.
AddTokens(l, i) ==
    LET total == l.tokens + (IF l.usage[i] = "one" THEN 1 ELSE 0) IN
    [l EXCEPT !.tokens = total, !.tripped = @ \/ (l.usage[i] = "one" /\ total >= MaxTokens)]
\* What runUnit returns.
Return(l, i, w) == [l EXCEPT !.work[i] = w, !.att[i] = 0, !.tries[i] = 0, !.usage[i] = "free"]
Retry(l, i) == TryConsume([l EXCEPT !.att[i] = 0, !.tries[i] = @ + 1, !.usage[i] = "free"], i)
Verdict(w) == CASE w = "succeeded" -> "ok" [] w = "erred" -> "failed" [] w = "childBlocked" -> "blocked"

\* The rest of runUnit's loop: the tokens are added, whatever came of the attempt,
\* and a failure of a kind named in retry.on, as no child's is, is tried again.
Conclude(e, i) ==
    LET l == AddTokens(inv[e], i)
        w == inv[e].work[i]
    IN \/ inv' = [inv EXCEPT ![e] = Return(l, i, Verdict(w))]
       \/ /\ w = "erred" /\ Key(e, i) \in Plain /\ l.tries[i] < MaxRetry /\ ~Aborted(l)
          /\ inv' = [inv EXCEPT ![e] = Retry(l, i)]

\* finishJournaledDispatch: written, or displaced, or the write fails.
FinishUnit(e, i) ==
    /\ At(e, "units") /\ inv[e].work[i] \in Answered
    /\ LET u == Key(e, i)
           n == inv[e].att[i]
           status == IF inv[e].work[i] = "succeeded" THEN "completed" ELSE "failed"
       IN \/ FinishUnitAttempt(e, u, n, status, inv[e].usage[i]) /\ Conclude(e, i)
          \/ ~CanFinish(e, u, n) /\ Conclude(e, i) /\ UNCHANGED <<spineVars, journalVars>>
          \/ /\ inv' = [inv EXCEPT ![e] = Return(AddTokens(@, i), i, "unwritten")]
             /\ UNCHANGED <<spineVars, journalVars>>

-----------------------------------------------------------------------------
(* The end of the step.                                                    *)

\* Mutant: the pool is waited for until it has claimed every unit.
MutantWaitForAll(e) == Running(e) = {} /\ inv[e].claimed = NUnits
PoolDone(e) == Running(e) = {} /\ (inv[e].claimed = NUnits \/ Aborted(inv[e]))
\* Mutant: the failure policy is applied before the budget is looked at.
MutantPolicyFirst(l) ==
    IF l.at \in Tolerant \/ \A i \in Item : l.work[i] = "ok" THEN "completed"
    ELSE IF \E i \in Item : l.work[i] = "blocked" THEN "blocked" ELSE "failed"
\* A ceiling or an unwritten result is a failure under every policy; units that
\* nobody has claimed count as failed.
StepVerdict(l) ==
    LET unwritten == \E i \in Item : l.work[i] = "unwritten"
        allOk == \A i \in Item : l.work[i] = "ok"
        childBlocked == \E i \in Item : l.work[i] = "blocked"
    IN CASE l.tripped \/ unwritten -> "failed"
         [] ~(l.tripped \/ unwritten) /\ (allOk \/ l.at \in Tolerant) -> "completed"
         [] OTHER -> IF childBlocked THEN "blocked" ELSE "failed"
SettleUnits(e) ==
    /\ At(e, "units") /\ PoolDone(e)
    /\ Settled(e, StepVerdict(inv[e]))
    /\ UNCHANGED <<spineVars, journalVars>>

\* completeWorkflowStep; the totals go with the engine to the next step.
CompleteStep(e) ==
    /\ At(e, "complete")
    /\ LET l == inv[e]
           refused == ~CanAdvance(e, l.at) \/ (l.verdict = "completed" /\ l.stop)
       IN \/ /\ ~refused
             /\ AdvanceSpine(e, l.at, l.verdict)
             /\ IF l.verdict = "completed"
                THEN inv' = [inv EXCEPT ![e] = [Fresh EXCEPT !.pc = "next", !.stop = l.stop,
                                                            !.used = l.used, !.tokens = l.tokens]]
                ELSE Leave(e, "release")
          \/ /\ refused
             /\ Leave(e, "release")
             /\ holder' = HolderAfterRead
             /\ UNCHANGED <<runStatus, current, step, live, resuming, snap>>
    /\ UNCHANGED journalVars

ReleaseRunLease(e) ==
    /\ At(e, "release")
    /\ \/ ReleaseEngineLease(e)
       \/ ~CanRelease(e) /\ UNCHANGED spineVars
    /\ Leave(e, "done")
    /\ UNCHANGED journalVars

-----------------------------------------------------------------------------
(* The surroundings, as in WorkflowEngine.  A process may be killed, or     *)
(* suspended past its lease, at any point: it takes no step, for a while or *)
(* for ever, and its lease runs out.                                       *)

\* A heartbeat renews the lease as long as it can.
HeartbeatTick(e) ==
    /\ inv[e].pc \in Leased /\ ~inv[e].stop
    /\ RenewEngineLease(e)
    /\ UNCHANGED <<journalVars, inv>>

\* A heartbeat fails, or the caller interrupts.
StopSignal(e) ==
    /\ inv[e].pc \in Leased /\ ~inv[e].stop
    /\ inv' = [inv EXCEPT ![e].stop = TRUE]
    /\ UNCHANGED <<spineVars, journalVars>>

Operator ==
    /\ \/ \E r \in Resumer : ResumeRead(r) \/ ResumeCommit(r)
       \/ LeaseExpires
       \/ ReclaimExpiredLease
    /\ UNCHANGED <<journalVars, inv>>

InvocationStep(e) ==
    \/ OpenRun(e) \/ AcquireRunLease(e) \/ SeedBudget(e) \/ ReadNext(e)
    \/ RenewBetweenSteps(e) \/ ClassifyUnits(e) \/ ClaimUnit(e)
    \/ \E i \in Item : \/ ReserveUnit(e, i) \/ NothingDispatched(e, i) \/ DispatchUnit(e, i)
                       \/ FinishUnit(e, i)
    \/ SettleUnits(e) \/ CompleteStep(e) \/ ReleaseRunLease(e)

DispatchNext ==
    \/ \E e \in Engine : InvocationStep(e) \/ HeartbeatTick(e) \/ StopSignal(e)
    \/ Operator

DispatchSpec == DispatchInit /\ [][DispatchNext]_dispatchVars

-----------------------------------------------------------------------------
(* Properties.                                                             *)

\* The declared ceiling holds for the run as a whole: over retries, over units that
\* run side by side, over crashes, resumes and engines that lose their lease.
UnitCeiling == Journaled <= MaxUnits

\* The engine that holds the lease knows of every journaled attempt, whoever made it,
\* and has a slot of its budget for each and for every unit about to be reserved.
BudgetKnowsJournal ==
    \A e \in Engine :
        holder = e /\ inv[e].pc \in Leased \ {"seed"} =>
            Journaled + Cardinality({i \in Item : inv[e].work[i] = "reserve"}) <= inv[e].used

\* No unit is passed over: an invocation completes a step only when every unit of it
\* has come back to it and nothing it had to journal is missing.  Units that an abort
\* left unclaimed, or whose result could not be written, are failures even where the
\* step tolerates failed units.  (That a step whose tokens ran out is failed is not
\* said here; a later invocation may pass it, see CappedRunNeverPasses.)
NoUnitPassedOver ==
    [][\A e \in Engine, s \in Steps :
        /\ inv[e].pc = "complete" /\ inv'[e].pc # "complete"
        /\ inv[e].at = s /\ step[s] # "completed" /\ step'[s] = "completed"
        => \A i \in Item : inv[e].work[i] \in Returned \ {"unwritten"}
      ]_dispatchVars

\* "A capped run must never quietly pass its gate" (executeStepPlan), said of the run
\* and not of one invocation: no step is completed once the journaled tokens have
\* reached the ceiling.  FALSE of the code: the next invocation reuses every unit,
\* dispatches nothing, and so never looks at the ceiling.
CappedRunNeverPasses ==
    [][\A s \in Steps : step[s] # "completed" /\ step'[s] = "completed"
        => Spent < MaxTokens]_dispatchVars

\* The ceiling stops an interrupted run no sooner than it would have stopped the
\* same run without the interruption: a unit whose attempt is in the journal already,
\* and is going to be taken over, needs no further one.
NoEarlierThanUninterrupted ==
    [][\A e \in Engine :
        /\ At(e, "units") /\ inv'[e].claimed # inv[e].claimed
        /\ ~inv[e].tripped /\ inv'[e].tripped /\ inv[e].tokens < MaxTokens
        => Journaled + (IF HasRunning(Key(e, inv'[e].claimed)) THEN 0 ELSE 1) > MaxUnits]_dispatchVars
=============================================================================
