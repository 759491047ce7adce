---------------------------- MODULE WorkflowEngine ----------------------------
(***************************************************************************)
(* `akm workflow run`: engine invocations that drive one run.  Every       *)
(* engine is one runWorkflowAttempt with its own random lease holder; it   *)
(* reads the run, claims the lease, walks the spine step by step through   *)
(* the bounded gate loop, and releases the lease.  Between two atomic      *)
(* actions of an engine anything may happen: the process may be suspended  *)
(* past its lease, killed or interrupted, other engines may start, and     *)
(* people may resume or abandon the run.  The rows are WorkflowSpine's and *)
(* UnitJournal's; a step has one unit of work per gate loop (ids           *)
(* `<node>:solo` and `<node>:solo~l<n>`).                                  *)
(***************************************************************************)
EXTENDS UnitJournal

CONSTANTS
    Gated,              \* steps with completion criteria, judged by the frozen judge
    Tolerant,           \* steps whose template says onError: continue
    MaxLoops,           \* effectiveGateMaxLoops of every step
    MaxRetry,           \* retry.max of every unit
    MaySuspend,         \* a running engine can be suspended past its lease
    MayAbandon          \* people abandon the run, even while it is driven

ASSUME EngineAssumption ==
    /\ Gated \subseteq Steps /\ Tolerant \subseteq Steps
    /\ MaxLoops \in Nat \ {0} /\ MaxRetry \in Nat
    /\ MaySuspend \in BOOLEAN /\ MayAbandon \in BOOLEAN

VARIABLES
    eng                 \* eng[e]: where engine e is, and its local variables

vars == <<spineVars, journalVars, eng>>

\* Journal keys and results for this composition.
WorkUnit(s, l) == <<"unit", s, l>>
GateUnit(s, l) == <<"gate", s, l>>
JournalKeys == {"unit", "gate"} \X Steps \X (1..MaxLoops)
\* A unit succeeds with an artifact that does or does not match the step's
\* schema, or fails; the judge accepts or rejects.
WorkOutcome == {"good", "mismatch", "error", "aborted"}
ASSUME KeysAssumption ==
    JournalKeys \subseteq Unit /\ WorkOutcome \cup {"accept", "reject"} \subseteq Outcome
Verdict == {"accept", "reject", "judgeError", "interrupted", "fail", "block", "none"}

Ended == {"done", "corrupt", "crashed"}
Leased == {"renew", "recover", "renewLoop", "classify", "reserve", "dispatch", "finish",
           "assertAlive", "finalize", "gateStart", "judge", "commit", "gateFinish",
           "next", "nextSteps"}
PC == Ended \cup {"idle", "readSteps", "acquire", "release"} \cup Leased

Local == [
    pc: PC,
    signal: {"none", "lost", "aborted"},    \* dispatchSignal, and who raised it
    at: Steps \cup {NoStep},                \* the step it drives, `next.step`
    loop: 0..MaxLoops,                      \* its gate loop, 0 before the first
    att: Nat,                               \* the attempt number it has reserved
    tries: 0..MaxRetry,                     \* retries of the unit in this loop
    out: WorkOutcome \cup {"none"},         \* outcome of the unit of work
    verdict: Verdict]                       \* of the judge, then of the completion

EngineTypeOK == SpineTypeOK /\ JournalTypeOK /\ eng \in [Engine -> Local]

Fresh == [pc |-> "idle", signal |-> "none", at |-> NoStep, loop |-> 0, att |-> 0,
          tries |-> 0, out |-> "none", verdict |-> "none"]

EngineInit == SpineInit /\ JournalInit /\ eng = [e \in Engine |-> Fresh]

Goto(e, label) == eng' = [eng EXCEPT ![e].pc = label]
\* An engine on its way out forgets its locals.
Leave(e, label) == eng' = [eng EXCEPT ![e] = [Fresh EXCEPT !.pc = label]]
-----------------------------------------------------------------------------
(* getNextWorkflowStep: two reads, the run row and then the step rows.  At *)
(* the start of an invocation and after every step that it completes.      *)

ReadRun(e) ==
    /\ \/ /\ eng[e].pc = "idle" /\ runStatus = "active"
          /\ eng' = [eng EXCEPT ![e].pc = "readSteps", ![e].at = current]
       \/ /\ eng[e].pc = "next" /\ runStatus = "active"
          /\ eng' = [eng EXCEPT ![e].pc = "nextSteps", ![e].at = current]
       \/ eng[e].pc = "idle" /\ runStatus # "active" /\ Leave(e, "done")
       \/ eng[e].pc = "next" /\ runStatus # "active" /\ Leave(e, "release")
    /\ UNCHANGED <<spineVars, journalVars>>

\* assertRunStatusMatchesSpine on the row read before and the steps read now.
ReadLooksRight(e) == StatusMatchesSpine("active", eng[e].at, step)
ReadSteps(e) ==
    /\ \/ eng[e].pc = "readSteps" /\ ReadLooksRight(e) /\ Goto(e, "acquire")
       \/ eng[e].pc = "readSteps" /\ ~ReadLooksRight(e) /\ Leave(e, "corrupt")
       \/ eng[e].pc = "nextSteps" /\ ReadLooksRight(e) /\ Goto(e, "renew")
       \/ eng[e].pc = "nextSteps" /\ ~ReadLooksRight(e) /\ Leave(e, "release")
    /\ UNCHANGED <<spineVars, journalVars>>

\* --max-steps: the invocation stops at a step boundary.
StopAtMaxSteps(e) ==
    /\ eng[e].pc = "nextSteps" /\ ReadLooksRight(e)
    /\ Leave(e, "release")
    /\ UNCHANGED <<spineVars, journalVars>>

-----------------------------------------------------------------------------
(* The run lease and its heartbeat.                                        *)

\* Mutant: a held lease is waited for instead of refusing the invocation.
MutantWaitForLease(e) ==
    /\ eng[e].pc = "acquire"
    /\ AcquireEngineLease(e) /\ Goto(e, "renew")
    /\ UNCHANGED journalVars
AcquireRunLease(e) ==
    /\ eng[e].pc = "acquire"
    /\ \/ AcquireEngineLease(e) /\ Goto(e, "renew")
       \/ ~CanAcquire(e) /\ Leave(e, "done") /\ UNCHANGED spineVars
    /\ UNCHANGED journalVars

\* The top of driveRun's loop: assertAlive, the caller's abort, renewRunLease.
RenewBetweenSteps(e) ==
    /\ eng[e].pc = "renew"
    /\ \/ eng[e].signal = "none" /\ RenewEngineLease(e) /\ Goto(e, "recover")
       \/ /\ eng[e].signal # "none" \/ ~CanRenew(e)
          /\ Leave(e, "release") /\ UNCHANGED spineVars
    /\ UNCHANGED journalVars

\* The renewal at the start of every gate loop after the first.
RenewBetweenLoops(e) ==
    /\ eng[e].pc = "renewLoop"
    /\ \/ RenewEngineLease(e) /\ Goto(e, "classify")
       \/ ~CanRenew(e) /\ Leave(e, "release") /\ UNCHANGED spineVars
    /\ UNCHANGED journalVars

\* LeaseHeartbeat.tick: a renewal that changes no row means the lease is lost.
\* Mutant: the heartbeat outlives the engine's process.
MutantHeartbeatSurvives(e) ==
    /\ eng[e].pc \in Leased \cup {"crashed"} /\ eng[e].signal = "none"
    /\ \/ RenewEngineLease(e) /\ UNCHANGED eng
       \/ ~CanRenew(e) /\ eng' = [eng EXCEPT ![e].signal = "lost"] /\ UNCHANGED spineVars
    /\ UNCHANGED journalVars
HeartbeatTick(e) ==
    /\ eng[e].pc \in Leased /\ eng[e].signal = "none"
    /\ \/ RenewEngineLease(e) /\ UNCHANGED eng
       \/ ~CanRenew(e) /\ eng' = [eng EXCEPT ![e].signal = "lost"] /\ UNCHANGED spineVars
    /\ UNCHANGED journalVars

\* A renewal that throws is a lost lease as well, and a caller may interrupt;
\* a lost lease found after that is not looked for any more.
SignalRaised(e) ==
    /\ eng[e].pc \in Leased /\ eng[e].signal = "none"
    /\ \E s \in {"lost", "aborted"} : eng' = [eng EXCEPT ![e].signal = s]
    /\ UNCHANGED <<spineVars, journalVars>>

\* releaseEngineLease in the finally of runWorkflowAttempt.
ReleaseRunLease(e) ==
    /\ eng[e].pc = "release"
    /\ \/ ReleaseEngineLease(e)
       \/ ~CanRelease(e) /\ UNCHANGED spineVars
    /\ Leave(e, "done")
    /\ UNCHANGED journalVars

\* The process is killed.
Crash(e) ==
    /\ eng[e].pc \notin Ended \cup {"idle"}
    /\ Leave(e, "crashed")
    /\ UNCHANGED <<spineVars, journalVars>>
-----------------------------------------------------------------------------
(* One unit of work: executeStepPlan and runUnit.                          *)

\* activeGateLoop: one past the highest gate loop journaled as rejected.
RejectedLoops(s) == {l \in 1..MaxLoops : row[GateUnit(s, l)].status = "completed"
                                         /\ row[GateUnit(s, l)].result = "reject"}
ActiveGateLoop(s) ==
    IF RejectedLoops(s) = {} THEN 1
    ELSE 1 + CHOOSE l \in RejectedLoops(s) : \A k \in RejectedLoops(s) : k =< l
StartLoop(s) == IF s \in Gated THEN ActiveGateLoop(s) ELSE 1
\* Every loop but the first begins with a renewal of the lease.
FirstOfLoop(l) == IF l > 1 THEN "renewLoop" ELSE "classify"

\* recoverGateLoopState, then the exit for a gate already exhausted, then the
\* judge: one that cannot be resolved blocks the step before any dispatch.
\* Mutant: an exhausted gate is given one more loop after a restart.
MutantNoExhaustedExit(e) ==
    /\ eng[e].pc = "recover"
    /\ eng' = [eng EXCEPT ![e].pc = FirstOfLoop(StartLoop(eng[e].at)),
                          ![e].loop = StartLoop(eng[e].at), ![e].verdict = "none"]
    /\ UNCHANGED <<spineVars, journalVars>>
RecoverGateLoopState(e) ==
    /\ eng[e].pc = "recover"
    /\ LET startLoop == StartLoop(eng[e].at) IN
        \/ startLoop > MaxLoops /\ Leave(e, "release")
        \/ /\ startLoop =< MaxLoops
           /\ eng' = [eng EXCEPT ![e].pc = FirstOfLoop(startLoop), ![e].loop = startLoop,
                                 ![e].verdict = "none"]
        \/ /\ startLoop =< MaxLoops /\ eng[e].at \in Gated
           /\ eng' = [eng EXCEPT ![e].pc = "commit", ![e].verdict = "block"]
    /\ UNCHANGED <<spineVars, journalVars>>

\* indexCompletedRows and classifyUnitReuse: a completed row is the result,
\* anything else is dispatched.
\* Mutant: completed rows are not reused.
MutantNoReuse(e) ==
    /\ eng[e].pc = "classify"
    /\ eng' = [eng EXCEPT ![e].pc = "reserve", ![e].out = "none"]
    /\ UNCHANGED <<spineVars, journalVars>>
ClassifyUnitReuse(e) ==
    /\ eng[e].pc = "classify"
    /\ LET prior == row[WorkUnit(eng[e].at, eng[e].loop)] IN
        \/ /\ prior.status = "completed"
           /\ eng' = [eng EXCEPT ![e].pc = "assertAlive", ![e].out = prior.result]
        \/ /\ prior.status # "completed"
           /\ eng' = [eng EXCEPT ![e].pc = "reserve", ![e].out = "none"]
    /\ UNCHANGED <<spineVars, journalVars>>

\* The top of runUnit's retry loop: an interrupted unit keeps the outcome it
\* has, a refused reservation is a failed unit and nothing is dispatched.
ReserveDispatch(e) ==
    /\ eng[e].pc = "reserve"
    /\ LET u == WorkUnit(eng[e].at, eng[e].loop)
           Settle(outcome) == eng' = [eng EXCEPT ![e].pc = "assertAlive", ![e].tries = 0,
                                                 ![e].out = outcome] IN
        \/ /\ eng[e].signal = "none"
           /\ ReserveUnitAttempt(e, u)
           /\ eng' = [eng EXCEPT ![e].pc = "dispatch", ![e].att = ReservedAttempt(u)]
        \/ /\ eng[e].signal = "none" /\ ~CanReserve(e)
           /\ Settle("error")
           /\ UNCHANGED <<spineVars, journalVars>>
        \/ /\ eng[e].signal # "none"
           /\ Settle(IF eng[e].out = "none" THEN "aborted" ELSE eng[e].out)
           /\ UNCHANGED <<spineVars, journalVars>>

\* The external effect, and its answer.
DispatchUnit(e) ==
    /\ eng[e].pc = "dispatch"
    /\ \E answer \in WorkOutcome :
        /\ answer = "aborted" => eng[e].signal # "none"
        /\ eng' = [eng EXCEPT ![e].pc = "finish", ![e].out = answer]
    /\ UNCHANGED <<spineVars, journalVars>>

\* finishJournaledDispatch: the answer is journaled, or with the claim lost
\* only a warning is; the engine goes on with its own answer either way.  A
\* failure whose reason is in retry.on is dispatched again.
\* Mutant: the retry is not counted.
MutantRetryUncounted(e) ==
    /\ eng[e].pc = "finish"
    /\ LET u == WorkUnit(eng[e].at, eng[e].loop)
           ok == eng[e].out \in {"good", "mismatch"} IN
        \/ FinishUnitAttempt(e, u, eng[e].att, IF ok THEN "completed" ELSE "failed", eng[e].out)
        \/ ~CanFinish(e, u, eng[e].att) /\ UNCHANGED <<spineVars, journalVars>>
    /\ \/ eng' = [eng EXCEPT ![e].pc = "assertAlive", ![e].att = 0, ![e].tries = 0]
       \/ /\ eng[e].out = "error" /\ eng[e].tries < MaxRetry
          /\ eng' = [eng EXCEPT ![e].pc = "reserve", ![e].att = 0]
FinishDispatch(e) ==
    /\ eng[e].pc = "finish"
    /\ LET u == WorkUnit(eng[e].at, eng[e].loop)
           ok == eng[e].out \in {"good", "mismatch"} IN
        \/ FinishUnitAttempt(e, u, eng[e].att, IF ok THEN "completed" ELSE "failed", eng[e].out)
        \/ ~CanFinish(e, u, eng[e].att) /\ UNCHANGED <<spineVars, journalVars>>
    /\ \/ eng' = [eng EXCEPT ![e].pc = "assertAlive", ![e].att = 0, ![e].tries = 0]
       \/ /\ eng[e].out = "error" /\ eng[e].tries < MaxRetry
          /\ eng' = [eng EXCEPT ![e].pc = "reserve", ![e].att = 0, ![e].tries = @ + 1]

\* LeaseHeartbeat.assertAlive and the abort check after the units settled.
AssertAlive(e) ==
    /\ eng[e].pc = "assertAlive"
    /\ \/ eng[e].signal = "none" /\ Goto(e, "finalize")
       \/ eng[e].signal # "none" /\ Leave(e, "release")
    /\ UNCHANGED <<spineVars, journalVars>>
-----------------------------------------------------------------------------
(* finalizeExecutedStep: one completion attempt for an executed step.      *)

UnitsOk(e) == eng[e].out \in {"good", "mismatch"} \/ eng[e].at \in Tolerant
Mismatch(e) == eng[e].out = "mismatch"

\* The step's units are reduced: a schema mismatch with loop budget left runs
\* the loop again unless the lease is lost by then, a failure fails the step, and
\* a good artifact goes to the gate after completeWorkflowStep's preflight read.
FinalizeExecutedStep(e) ==
    /\ eng[e].pc = "finalize"
    /\ \/ /\ UnitsOk(e) /\ Mismatch(e) /\ eng[e].loop < MaxLoops
          /\ \/ /\ eng[e].signal # "lost"
                /\ eng' = [eng EXCEPT ![e].pc = "renewLoop", ![e].loop = @ + 1, ![e].out = "none"]
             \/ eng[e].signal = "lost" /\ Leave(e, "release")
          /\ UNCHANGED holder
       \/ /\ ~UnitsOk(e) \/ (Mismatch(e) /\ eng[e].loop = MaxLoops)
          /\ eng' = [eng EXCEPT ![e].pc = "commit", ![e].verdict = "fail"]
          /\ UNCHANGED holder
       \/ /\ UnitsOk(e) /\ ~Mismatch(e)
          /\ \/ ~CanAdvance(e, eng[e].at) /\ Leave(e, "release")
             \/ /\ CanAdvance(e, eng[e].at)
                /\ Goto(e, IF eng[e].at \in Gated THEN "gateStart" ELSE "commit")
          /\ holder' = HolderAfterRead
    /\ UNCHANGED <<runStatus, current, step, live, resuming, snap, journalVars>>

\* journalGateEvaluationStart; a refused reservation ends the invocation.
JournalGateStart(e) ==
    /\ eng[e].pc = "gateStart"
    /\ LET u == GateUnit(eng[e].at, eng[e].loop) IN
        \/ /\ eng[e].signal = "none"
           /\ ReserveUnitAttempt(e, u)
           /\ eng' = [eng EXCEPT ![e].pc = "judge", ![e].att = ReservedAttempt(u)]
        \/ /\ eng[e].signal # "none" \/ ~CanReserve(e)
           /\ Leave(e, "release")
           /\ UNCHANGED <<spineVars, journalVars>>

\* The judge answers, fails, or is interrupted; only an acceptance goes on to
\* the write transaction.
\* Mutant: the verdict is journaled before the write transaction.
MutantFinishBeforeCommit(e) ==
    /\ eng[e].pc = "judge"
    /\ \E v \in {"accept", "reject", "judgeError", "interrupted"} :
        /\ v = "interrupted" <=> eng[e].signal # "none"
        /\ eng' = [eng EXCEPT ![e].verdict = v, ![e].pc = "gateFinish"]
    /\ UNCHANGED <<spineVars, journalVars>>
\* Mutant: a judge that cannot answer lets the step pass.
MutantJudgeFailsOpen(e) ==
    /\ eng[e].pc = "judge"
    /\ \E v \in {"accept", "reject", "judgeError", "interrupted"} :
        /\ v = "interrupted" <=> eng[e].signal # "none"
        /\ eng' = [eng EXCEPT ![e].verdict = v,
                ![e].pc = IF v \in {"accept", "judgeError"} THEN "commit" ELSE "gateFinish"]
    /\ UNCHANGED <<spineVars, journalVars>>
JudgeStep(e) ==
    /\ eng[e].pc = "judge"
    /\ \E v \in {"accept", "reject", "judgeError", "interrupted"} :
        /\ v = "interrupted" <=> eng[e].signal # "none"
        /\ eng' = [eng EXCEPT ![e].verdict = v,
                              ![e].pc = IF v = "accept" THEN "commit" ELSE "gateFinish"]
    /\ UNCHANGED <<spineVars, journalVars>>

\* completeWorkflowStep's transaction.  A refusal throws: an open gate row is
\* finished as errored first, and the lease that the transaction's own read
\* cleared is rolled back with it.
CompletionOutcome(e) ==
    CASE eng[e].verdict = "fail" -> "failed"
      [] eng[e].verdict = "block" -> "blocked"
      [] OTHER -> "completed"
CommitStep(e) ==
    /\ eng[e].pc = "commit"
    /\ LET judged == eng[e].verdict = "accept"
           outcome == CompletionOutcome(e)
           interrupted == outcome = "completed" /\ eng[e].signal # "none" IN
        \/ /\ ~interrupted
           /\ AdvanceSpine(e, eng[e].at, outcome)
           /\ \/ judged /\ Goto(e, "gateFinish")
              \/ /\ ~judged /\ outcome = "completed"
                 /\ eng' = [eng EXCEPT ![e] = [Fresh EXCEPT !.pc = "next", !.signal = eng[e].signal]]
              \/ outcome # "completed" /\ Leave(e, "release")
        \/ /\ interrupted \/ ~CanAdvance(e, eng[e].at)
           /\ \/ /\ judged
                 /\ eng' = [eng EXCEPT ![e].pc = "gateFinish", ![e].verdict = "interrupted"]
              \/ ~judged /\ Leave(e, "release")
           /\ holder' = IF outcome = "completed" THEN holder ELSE HolderAfterRead
           /\ UNCHANGED <<runStatus, current, step, live, resuming, snap>>
    /\ UNCHANGED journalVars

\* journalGateEvaluationFinish: a verdict or an errored row; a claim that was
\* taken over ends the invocation.
GateFinish(e) ==
    /\ eng[e].pc = "gateFinish"
    /\ LET u == GateUnit(eng[e].at, eng[e].loop)
           v == eng[e].verdict
           honest == v \in {"accept", "reject"}
           again == v = "reject" /\ eng[e].loop < MaxLoops /\ eng[e].signal # "lost" IN
        \/ /\ FinishUnitAttempt(e, u, eng[e].att, IF honest THEN "completed" ELSE "failed",
                                IF honest THEN v ELSE None)
           /\ \/ /\ v = "accept"
                 /\ eng' = [eng EXCEPT ![e] = [Fresh EXCEPT !.pc = "next", !.signal = eng[e].signal]]
              \/ /\ again
                 /\ eng' = [eng EXCEPT ![e] = [Fresh EXCEPT !.pc = "renewLoop", !.at = eng[e].at,
                                    !.signal = eng[e].signal, !.loop = eng[e].loop + 1]]
              \/ /\ v = "judgeError"
                 /\ eng' = [eng EXCEPT ![e].pc = "commit", ![e].att = 0, ![e].verdict = "block"]
              \/ v \in {"reject", "interrupted"} /\ ~again /\ Leave(e, "release")
        \/ /\ ~CanFinish(e, u, eng[e].att)
           /\ Leave(e, "release")
           /\ UNCHANGED <<spineVars, journalVars>>

-----------------------------------------------------------------------------
\* What one engine does by itself, in the order of its program.
EngineStep(e) ==
    \/ ReadRun(e) \/ ReadSteps(e) \/ StopAtMaxSteps(e)
    \/ AcquireRunLease(e) \/ RenewBetweenSteps(e) \/ RenewBetweenLoops(e)
    \/ RecoverGateLoopState(e) \/ ClassifyUnitReuse(e)
    \/ ReserveDispatch(e) \/ DispatchUnit(e) \/ FinishDispatch(e) \/ AssertAlive(e)
    \/ FinalizeExecutedStep(e) \/ JournalGateStart(e) \/ JudgeStep(e)
    \/ CommitStep(e) \/ GateFinish(e)
    \/ ReleaseRunLease(e)

\* A heartbeat every third of the lease's lifetime keeps the lease of a running
\* engine alive; it runs out under an engine only when the process is suspended.
RunLeaseExpires ==
    /\ live /\ (MaySuspend \/ eng[holder].pc \in Ended)
    /\ LeaseExpires
    /\ UNCHANGED <<journalVars, eng>>

\* What happens to the run from outside of its engines.
Operator ==
    /\ \/ \E r \in Resumer : ResumeRead(r) \/ ResumeCommit(r)
       \/ MayAbandon /\ AbandonRun
       \/ ReclaimExpiredLease
    /\ UNCHANGED <<journalVars, eng>>

Next ==
    \/ \E e \in Engine : EngineStep(e) \/ HeartbeatTick(e) \/ SignalRaised(e) \/ Crash(e)
    \/ RunLeaseExpires
    \/ Operator

Spec == EngineInit /\ [][Next]_vars

\* An engine that is not killed gets to run - its event loop is never starved,
\* and units and judges answer or time out - and time passes.
FairSpec ==
    /\ Spec
    /\ \A e \in Engine : WF_vars(eng[e].pc # "idle" /\ EngineStep(e))
    /\ WF_vars(RunLeaseExpires)

-----------------------------------------------------------------------------
(* Properties.                                                             *)

\* "A passed gate would have advanced the spine": activeGateLoop relies on a
\* pending step never having an accepted gate row, across every crash between
\* the verdict, the write transaction and the gate row's finish.
AcceptedGateMeansCompleted ==
    \A s \in Gated, l \in 1..MaxLoops :
        row[GateUnit(s, l)].result = "accept" => step[s] = "completed"

\* The gate is never bypassed: a step with criteria completes only in the
\* transaction of an engine whose judge has accepted this very step.
GateNeverBypassed ==
    [][\A s \in Gated : step[s] # "completed" /\ step'[s] = "completed" =>
            \E e \in Engine : eng[e].pc = "commit" /\ eng[e].at = s /\ eng[e].verdict = "accept"]_vars

\* Finished work is never dispatched again: a journal row that is completed -
\* a paid result, or a gate's verdict - is never set back to running.
CompletedRowIsKept ==
    [][\A u \in JournalKeys : row[u].status = "completed" => row'[u] = row[u]]_vars

\* A step completes on an artifact that the journal holds, so that resume can
\* rebuild it: the row of its unit is finished with the engine's own answer.
PromotedArtifactIsJournaled ==
    [][\A e \in Engine : eng[e].pc = "commit" /\ eng'[e].pc # eng[e].pc /\ step' # step
            /\ step'[eng[e].at] = "completed" =>
            LET unit == row[WorkUnit(eng[e].at, eng[e].loop)] IN
            unit.status \in {"completed", "failed"} /\ unit.result = eng[e].out]_vars

\* No two engines have the same unit of work or gate in flight.
NoConcurrentDispatch ==
    \A e, f \in Engine :
        /\ e # f
        /\ eng[e].pc \in {"dispatch", "judge"} /\ eng[f].pc = eng[e].pc
        => <<eng[e].at, eng[e].loop>> # <<eng[f].at, eng[f].loop>>

\* Work is paid for only at the step the run stands at.
DispatchAtCurrentStep ==
    \A e \in Engine : eng[e].pc \in {"dispatch", "judge"} /\ runStatus = "active" => eng[e].at = current

\* What an engine has left to do: the steps that nobody has finished, and at its
\* step the gate loops and then the labels before the next loop, with the retries
\* of the unit.
Undone == {s \in Steps : step[s] \notin Finished}
InUnit == {"renewLoop", "classify", "reserve", "dispatch", "finish"}
Rank == [idle |-> 16, next |-> 15, readSteps |-> 15, nextSteps |-> 14, acquire |-> 14,
         renew |-> 13, recover |-> 12, renewLoop |-> 11, classify |-> 10, reserve |-> 9,
         dispatch |-> 8, finish |-> 7, assertAlive |-> 6, finalize |-> 5, gateStart |-> 4,
         judge |-> 3, commit |-> 2, gateFinish |-> 1,
         release |-> 1, done |-> 0, corrupt |-> 0, crashed |-> 0]
Accepted(l) == l.pc = "gateFinish" /\ l.verdict = "accept"
LoopsLeft(l) ==
    CASE l.pc \in Ended \cup {"release"} -> 0
      [] l.pc \in {"idle", "next", "readSteps", "nextSteps", "acquire", "renew", "recover"}
         \/ Accepted(l) -> MaxLoops + 2
      [] OTHER -> MaxLoops + 1 - l.loop
LabelsLeft(l) ==
    CASE Accepted(l) -> 16
      [] l.pc = "commit" /\ l.verdict \in {"fail", "block"} -> 0
      [] l.pc \in InUnit -> Rank[l.pc] + 3 * (MaxRetry - l.tries)
      [] OTHER -> Rank[l.pc]
Left(l) == <<LoopsLeft(l), LabelsLeft(l)>>
Lower(x, y) ==
    \E i \in DOMAIN y : x[i] < y[i] /\ \A j \in 1..(i - 1) : x[j] = y[j]

\* Nobody can make an engine work for ever - no resume, abandon, expired lease,
\* displaced claim, late answer, retry or rejection: whatever it does either
\* finishes a step for good or leaves it less to do at its step, and nothing that
\* others do gives it more.
EngineWorkIsBounded ==
    [][/\ Undone' \subseteq Undone
       /\ \A e \in Engine :
            \/ eng'[e].pc = eng[e].pc /\ Left(eng'[e]) = Left(eng[e])
            \/ Lower(Left(eng'[e]), Left(eng[e]))
            \/ Undone' # Undone]_vars

\* Every invocation ends: the gate loop, the retries and the walk over the
\* spine are bounded whatever else happens to the run.
EngineStops == \A e \in Engine : (eng[e].pc # "idle") ~> (eng[e].pc \in Ended)
\* An engine that has ended cannot keep the run to itself: its lease runs out,
\* and nothing renews it afterwards.
EndedEngineFreesRun ==
    \A e \in Engine : (eng[e].pc \in Ended) ~> [](~(holder = e /\ live))
=============================================================================
