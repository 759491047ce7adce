---------------------------- MODULE ChildRun_proofs ----------------------------
(***************************************************************************)
(* Proofs about the fan-out together with its child workflows: what holds  *)
(* of the fan-out alone still does, no unit has two children, and, as long *)
(* as no two resumes overlap, no result and no completed step rests on a   *)
(* child that is not completed.                                            *)
(* Last, what bounds the work of an invocation, and that its pool can      *)
(* always go on.                                                           *)
(***************************************************************************)
EXTENDS ChildRun, StepDispatch_proofs

ChildDone(u) == Published(u) /\ Status(u) = "completed"

\* What a child unit that has been published, or has succeeded, says of its child.
WorkOK(l, i) ==
    LET u == <<l.at, i>> IN
    l.pc \in {"units", "complete"} /\ u \in ChildUnit =>
        /\ l.work[i] \in {"drive", "driving", "reread"} => Published(u)
        /\ SingleResumer =>
              (l.work[i] \in {"succeeded", "ok", "reusable"} => ChildDone(u))

ChildTypes ==
    /\ children \in [ChildUnit -> Seq(RunStatus)]
    /\ driver \in [ChildUnit -> Engine \cup {None}]
    /\ reopening \in [ChildUnit -> SUBSET Resumer]

\* A resume is under way for a child that was published, and, if no two overlap, for one
\* that is still as the resume has read it.
ResumesOK ==
    \A u \in ChildUnit : reopening[u] # {} =>
        Published(u) /\ (SingleResumer => Status(u) \in Stopped)

ChildInv ==
    /\ DispatchInv
    /\ ChildTypes
    /\ OneChildPerUnit
    /\ ResumesOK
    /\ SingleResumer => StepNeedsItsChildren
    /\ \A e \in Engine, i \in Item : WorkOK(inv[e], i)

USE DispatchAssumption, SpineAssumption DEF Item, Usage

-----------------------------------------------------------------------------
(* What the fan-out does to results, rows and steps.                       *)

Succeeded == {"succeeded", "ok", "reusable"}
AtWork == {"units", "complete"}
Out == {"drive", "driving", "reread"}

\* A unit with a child run at work, and one that has succeeded, was so before, or is
\* dispatched by an agent or a command, or is reused from its row.
Traced(l, m) ==
    m.pc \in AtWork => \A i \in Item :
        /\ m.work[i] \in Out => l.pc \in AtWork /\ l.at = m.at /\ l.work[i] = m.work[i]
        /\ m.work[i] \in Succeeded =>
            \/ l.pc \in AtWork /\ l.at = m.at /\ l.work[i] \in Succeeded
            \/ <<m.at, i>> \in Plain
            \/ row[<<m.at, i>>].status = "completed"

\* What the pool does to a unit that is not at a child, and does not succeed anew.
LEMMA PoolStepTraced ==
    ASSUME NEW l \in Local, NEW m, NEW i \in Item, PoolStep(l, m, i), l.pc = "units",
           m.work[i] \notin Out, m.work[i] \in Succeeded => l.work[i] \in Succeeded
    PROVE  Traced(l, m)
BY DEF PoolStep, Traced, AtWork, Out, Succeeded

TracedStep(e) == Traced(inv[e], inv'[e]) /\ \A d \in Engine \ {e} : inv'[d] = inv[d]

LEMMA DispatchTraced ==
    ASSUME DispatchInv, NEW e \in Engine, InvocationStep(e) \/ HeartbeatTick(e) \/ StopSignal(e)
    PROVE  TracedStep(e)
<1> DEFINE l == inv[e]
<1>0. LocalInv(l) /\ l \in Local /\ inv \in [Engine -> Local]
    BY DEF DispatchInv
<1>1. ASSUME NEW label \in PC \ AtWork, NEW m, inv' = [inv EXCEPT ![e] = m], m.pc = label
      PROVE  TracedStep(e)
    BY <1>0, <1>1 DEF Traced, TracedStep
<1>2. ASSUME NEW m, inv' = [inv EXCEPT ![e] = m], l.pc \in AtWork, m.at = l.at, m.work = l.work
      PROVE  TracedStep(e)
    BY <1>0, <1>2 DEF Traced, TracedStep
<1>3. ASSUME NEW m, NEW i \in Item, inv' = [inv EXCEPT ![e] = m], PoolStep(l, m, i), l.pc = "units",
             m.work[i] \notin Out, m.work[i] \in Succeeded => l.work[i] \in Succeeded
      PROVE  TracedStep(e)
    BY <1>0, <1>3, PoolStepTraced DEF TracedStep
<1>4. ASSUME NEW label \in {"release", "done"}, Leave(e, label)
      PROVE  TracedStep(e)
    <2>1. [Fresh EXCEPT !.pc = label].pc = label
        BY FreshType DEF Local
    <2> QED
        BY <1>1, <1>4, <2>1 DEF Leave, PC, AtWork, Leased
<1>5. CASE OpenRun(e) \/ AcquireRunLease(e) \/ SeedBudget(e) \/ ReadNext(e) \/ RenewBetweenSteps(e)
    <2>1. CASE Leave(e, "release") \/ Leave(e, "done")
        BY <1>4, <2>1
    <2>2. ASSUME NEW label \in {"acquire", "seed", "renew", "classify"},
                 NEW m, inv' = [inv EXCEPT ![e] = m], m.pc = label
          PROVE  TracedStep(e)
        BY <1>1, <2>2 DEF PC, AtWork, Leased
    <2>3. CASE OpenRun(e)
        <3>1. /\ inv' = [inv EXCEPT ![e] = [l EXCEPT !.pc = "acquire", !.at = current]]
              /\ [l EXCEPT !.pc = "acquire", !.at = current].pc = "acquire"
            BY <1>0, <2>3 DEF OpenRun, Local
        <3> QED
            BY <2>2, <3>1
    <2>4. CASE Goto(e, "seed") \/ Goto(e, "classify")
        <3>1. /\ \/ inv' = [inv EXCEPT ![e] = [l EXCEPT !.pc = "seed"]]
                 \/ inv' = [inv EXCEPT ![e] = [l EXCEPT !.pc = "classify"]]
              /\ \A label \in PC : [l EXCEPT !.pc = label].pc = label
            BY <1>0, <2>4 DEF Goto, Local
        <3> QED
            BY <2>2, <3>1 DEF PC, Leased
    <2>5. CASE SeedBudget(e)
        <3> DEFINE m == [l EXCEPT !.pc = "renew", !.used = Journaled, !.tokens = Spent]
        <3>1. inv' = [inv EXCEPT ![e] = m] /\ m.pc = "renew"
            BY <1>0, <2>5 DEF SeedBudget, Local
        <3> HIDE DEF m
        <3> QED
            BY <2>2, <3>1
    <2>6. CASE inv' = [inv EXCEPT ![e].pc = "renew", ![e].at = current]
        <3> DEFINE m == [l EXCEPT !.pc = "renew", !.at = current]
        <3>1. inv' = [inv EXCEPT ![e] = m] /\ m.pc = "renew"
            BY <1>0, <2>6 DEF Local
        <3> HIDE DEF m
        <3> QED
            BY <2>2, <3>1
    <2> QED
        BY <1>5, <2>1, <2>3, <2>4, <2>5, <2>6 DEF AcquireRunLease, ReadNext, RenewBetweenSteps
<1>6. CASE ClassifyUnits(e)
    <2>1. l.pc = "classify"
        BY <1>6 DEF ClassifyUnits, At
    <2>2. ASSUME NEW reusable, \A i \in Item : i \in reusable => row[Key(e, i)].status = "completed",
                 inv' = [inv EXCEPT ![e].pc = "units",
                            ![e].work = [i \in Item |-> IF i \in reusable THEN "reusable" ELSE "todo"]]
          PROVE  TracedStep(e)
        <3> DEFINE work == [i \in Item |-> IF i \in reusable THEN "reusable" ELSE "todo"]
                   m == [l EXCEPT !.pc = "units", !.work = work]
        <3>1. inv' = [inv EXCEPT ![e] = m]
            BY <2>2
        <3>2. ASSUME NEW i \in Item
              PROVE  /\ work[i] \in {"todo", "reusable"}
                     /\ work[i] = "reusable" => row[<<l.at, i>>].status = "completed"
            <4>1. work[i] = IF i \in reusable THEN "reusable" ELSE "todo"
                OBVIOUS
            <4> HIDE DEF work
            <4>2. i \in reusable => row[<<l.at, i>>].status = "completed"
                BY <2>2 DEF Key
            <4> QED
                BY <4>1, <4>2
        <3> HIDE DEF work
        <3>3. m.work = work /\ m.at = l.at
            BY <1>0 DEF Local
        <3> HIDE DEF m
        <3>4. ASSUME NEW i \in Item
              PROVE  /\ m.work[i] \notin Out
                     /\ m.work[i] \in Succeeded => row[<<m.at, i>>].status = "completed"
            <4>1. work[i] \notin Out /\ (work[i] \in Succeeded => work[i] = "reusable")
                BY <3>2 DEF Out, Succeeded
            <4> QED
                BY <3>2, <3>3, <4>1
        <3>5. Traced(l, m)
            BY <3>4 DEF Traced
        <3> QED
            BY <1>0, <3>1, <3>5 DEF TracedStep
    <2>3. ASSUME Settled(e, "failed")
          PROVE  TracedStep(e)
        <3>1. CASE inv' = [inv EXCEPT ![e].pc = "complete", ![e].verdict = "failed"]
            <4> DEFINE m == [l EXCEPT !.pc = "complete", !.verdict = "failed"]
            <4>1. inv' = [inv EXCEPT ![e] = m]
                BY <3>1
            <4>2. m.work = l.work /\ \A i \in Item : l.work[i] = "todo"
                BY <1>0, <2>1 DEF Local, LocalInv
            <4> HIDE DEF m
            <4>3. Traced(l, m)
                BY <4>2 DEF Traced, Out, Succeeded
            <4> QED
                BY <1>0, <4>1, <4>3 DEF TracedStep
        <3> QED
            BY <1>4, <2>3, <3>1 DEF Settled
    <2> QED
        <3> DEFINE reusable == {i \in Item : row[Key(e, i)].status = "completed"}
        <3>1. \/ inv' = [inv EXCEPT ![e].pc = "units",
                            ![e].work = [i \in Item |-> IF i \in reusable THEN "reusable" ELSE "todo"]]
              \/ Settled(e, "failed")
            BY <1>6 DEF ClassifyUnits
        <3>2. \A i \in Item : i \in reusable => row[Key(e, i)].status = "completed"
            OBVIOUS
        <3> HIDE DEF reusable
        <3> QED
            BY <2>2, <2>3, <3>1, <3>2
<1>7. CASE ClaimUnit(e)
    <2> DEFINE i == l.claimed + 1
               k == [l EXCEPT !.claimed = i]
    <2>1. l.pc = "units" /\ l.claimed < NUnits
        BY <1>7 DEF ClaimUnit, At
    <2>2. i \in Item /\ i \in 0..NUnits
        BY <1>0, <2>1 DEF Local
    <2>3. k \in Local /\ k.pc = "units" /\ k.at = l.at /\ k.work = l.work
        BY <1>0, <2>1, <2>2 DEF Local
    <2>4. inv' = [inv EXCEPT ![e] = IF k.work[i] = "reusable" THEN [k EXCEPT !.work[i] = "ok"]
                                    ELSE TryConsume(k, i)]
        BY <1>7 DEF ClaimUnit
    <2>5. CASE k.work[i] = "reusable"
        <3> DEFINE m == [k EXCEPT !.work[i] = "ok"]
        <3>1. PoolStep(k, m, i) /\ m.work[i] = "ok"
            <4> HIDE DEF k, i
            <4> QED
                BY <2>2, <2>3, SetWorkSteps DEF Returned, Local
        <3> HIDE DEF m, k, i
        <3>2. Traced(k, m)
            BY <2>2, <2>3, <2>5, <3>1, PoolStepTraced DEF Out, Succeeded
        <3>3. Traced(l, m)
            BY <2>1, <2>3, <3>2 DEF Traced
        <3> QED
            BY <1>0, <2>4, <2>5, <3>3 DEF TracedStep, m
    <2>6. CASE k.work[i] # "reusable"
        <3> DEFINE m == TryConsume(k, i)
        <3>1. PoolStep(k, m, i) /\ m.work[i] \in {"failed", "reserve"}
            <4> HIDE DEF k, i
            <4> QED
                BY <2>2, <2>3, TryConsumeSteps
        <3> HIDE DEF m, k, i
        <3>2. Traced(k, m)
            BY <2>2, <2>3, <3>1, PoolStepTraced DEF Out, Succeeded
        <3>3. Traced(l, m)
            BY <2>1, <2>3, <3>2 DEF Traced
        <3> QED
            BY <1>0, <2>4, <2>6, <3>3 DEF TracedStep, m
    <2> QED
        BY <2>5, <2>6
<1>8. ASSUME NEW i \in Item, NothingDispatched(e, i)
      PROVE  TracedStep(e)
    <2> DEFINE m == [l EXCEPT !.work[i] = "failed"]
    <2>1. inv' = [inv EXCEPT ![e] = m] /\ l.pc = "units" /\ m.work[i] = "failed"
        BY <1>0, <1>8 DEF NothingDispatched, At, Local
    <2>2. PoolStep(l, m, i)
        BY <1>0, SetWorkSteps DEF Returned
    <2> HIDE DEF m
    <2> QED
        BY <1>3, <2>1, <2>2 DEF Out, Succeeded
<1>9. ASSUME NEW i \in Item, ReserveUnit(e, i)
      PROVE  TracedStep(e)
    <2> DEFINE n == ReservedAttempt(Key(e, i))
               m == [l EXCEPT !.work[i] = "dispatch", !.att[i] = n]
    <2>1. inv' = [inv EXCEPT ![e] = m] /\ l.pc = "units"
        BY <1>9 DEF ReserveUnit, At
    <2>2. m.at = l.at /\ m.work = [l.work EXCEPT ![i] = "dispatch"] /\ l.work \in [Item -> Work]
        BY <1>0 DEF Local
    <2> HIDE DEF m
    <2>3. Traced(l, m)
        BY <2>1, <2>2 DEF Traced, AtWork, Out, Succeeded
    <2> QED
        BY <1>0, <2>1, <2>3 DEF TracedStep
<1>10. ASSUME NEW i \in Item, DispatchUnit(e, i)
       PROVE  TracedStep(e)
    <2>1. PICK answer \in {"succeeded", "erred"}, use \in Usage :
            inv' = [inv EXCEPT ![e].work[i] = answer, ![e].usage[i] = use]
        BY <1>10 DEF DispatchUnit
    <2> DEFINE m == [l EXCEPT !.work[i] = answer, !.usage[i] = use]
    <2>1a. inv' = [inv EXCEPT ![e] = m]
        BY <2>1
    <2>2. inv' = [inv EXCEPT ![e] = m] /\ l.pc = "units" /\ <<l.at, i>> \in Plain
        <3> HIDE DEF m
        <3> QED
            BY <1>10, <2>1a DEF DispatchUnit, At, Key
    <2>3. m.at = l.at /\ m.work = [l.work EXCEPT ![i] = answer] /\ l.work \in [Item -> Work]
        BY <1>0 DEF Local
    <2> HIDE DEF m
    <2>4. Traced(l, m)
        BY <2>2, <2>3 DEF Traced, AtWork, Out, Succeeded
    <2> QED
        BY <1>0, <2>2, <2>4 DEF TracedStep
<1>11. ASSUME NEW i \in Item, FinishUnit(e, i)
       PROVE  TracedStep(e)
    <2>1. l.pc = "units" /\ l.work[i] \in Answered
        BY <1>11 DEF FinishUnit, At
    <2>2. ASSUME NEW w \in Returned, w = "ok" => l.work[i] = "succeeded",
                 inv' = [inv EXCEPT ![e] = Return(AddTokens(l, i), i, w)]
          PROVE  TracedStep(e)
        <3> DEFINE m == Return(AddTokens(l, i), i, w)
        <3>1. PoolStep(l, m, i) /\ m.work[i] = w
            <4> HIDE DEF l
            <4> QED
                BY <1>0, ReturnSteps
        <3> HIDE DEF m
        <3>2. m.work[i] \notin Out /\ (m.work[i] \in Succeeded => l.work[i] \in Succeeded)
            BY <2>2, <3>1 DEF Returned, Out, Succeeded
        <3>3. inv' = [inv EXCEPT ![e] = m]
            BY <2>2 DEF m
        <3> QED
            BY <1>3, <2>1, <3>1, <3>2, <3>3
    <2>3. ASSUME AddTokens(l, i).tries[i] < MaxRetry,
                 inv' = [inv EXCEPT ![e] = Retry(AddTokens(l, i), i)]
          PROVE  TracedStep(e)
        <3> DEFINE m == Retry(AddTokens(l, i), i)
        <3>1. PoolStep(l, m, i) /\ m.work[i] \in {"failed", "reserve"}
            <4>1. AddTokens(l, i).tries = l.tries
                BY <1>0 DEF AddTokens, Local
            <4> HIDE DEF l
            <4> QED
                BY <1>0, <2>3, <4>1, RetrySteps
        <3>2. inv' = [inv EXCEPT ![e] = m]
            BY <2>3
        <3> HIDE DEF m
        <3> QED
            BY <1>3, <2>1, <3>1, <3>2 DEF Out, Succeeded
    <2>4. CASE Conclude(e, i)
        <3>1. /\ Verdict(l.work[i]) \in Returned
              /\ Verdict(l.work[i]) = "ok" => l.work[i] = "succeeded"
            BY <2>1 DEF Verdict, Answered, Returned
        <3> QED
            BY <2>2, <2>3, <2>4, <3>1 DEF Conclude
    <2>5. CASE inv' = [inv EXCEPT ![e] = Return(AddTokens(@, i), i, "unwritten")]
        <3>1. inv' = [inv EXCEPT ![e] = Return(AddTokens(l, i), i, "unwritten")]
            BY <2>5
        <3> QED
            BY <2>2, <3>1 DEF Returned
    <2> QED
        BY <1>11, <2>4, <2>5 DEF FinishUnit
<1>12. CASE SettleUnits(e)
    <2>1. l.pc = "units"
        BY <1>12 DEF SettleUnits, At
    <2>2. CASE inv' = [inv EXCEPT ![e].pc = "complete", ![e].verdict = StepVerdict(l)]
        <3> DEFINE m == [l EXCEPT !.pc = "complete", !.verdict = StepVerdict(l)]
        <3>1. inv' = [inv EXCEPT ![e] = m] /\ m.at = l.at /\ m.work = l.work
            BY <1>0, <2>2 DEF Local
        <3> HIDE DEF m
        <3> QED
            BY <1>2, <2>1, <3>1 DEF AtWork
    <2> QED
        BY <1>4, <1>12, <2>2 DEF SettleUnits, Settled
<1>13. CASE CompleteStep(e)
    <2>1. CASE inv' = [inv EXCEPT ![e] = [Fresh EXCEPT !.pc = "next", !.stop = l.stop,
                                                     !.used = l.used, !.tokens = l.tokens]]
        <3> DEFINE m == [Fresh EXCEPT !.pc = "next", !.stop = l.stop,
                                      !.used = l.used, !.tokens = l.tokens]
        <3>1. m.pc = "next"
            <4> HIDE DEF l
            <4> QED
                BY FreshType DEF Local
        <3>2. inv' = [inv EXCEPT ![e] = m]
            BY <2>1
        <3> HIDE DEF m
        <3> QED
            BY <1>1, <3>1, <3>2 DEF PC, AtWork, Leased
    <2> QED
        BY <1>4, <1>13, <2>1 DEF CompleteStep
<1>14. CASE ReleaseRunLease(e)
    BY <1>4, <1>14 DEF ReleaseRunLease
<1>15. CASE HeartbeatTick(e)
    BY <1>0, <1>15 DEF HeartbeatTick, TracedStep, Traced
<1>16. CASE StopSignal(e)
    <2> DEFINE m == [l EXCEPT !.stop = TRUE]
    <2>1. inv' = [inv EXCEPT ![e] = m] /\ m.pc = l.pc /\ m.at = l.at /\ m.work = l.work
        BY <1>0, <1>16 DEF StopSignal, Local
    <2> HIDE DEF m
    <2> QED
        BY <1>0, <2>1 DEF TracedStep, Traced
<1> QED
    BY <1>5, <1>6, <1>7, <1>8, <1>9, <1>10, <1>11, <1>12, <1>13, <1>14, <1>15, <1>16 DEF InvocationStep

\* A row is set to completed only for a unit that has succeeded.
LEMMA RowTraced ==
    ASSUME DispatchInv, DispatchNext, NEW u \in Unit, row'[u].status = "completed"
    PROVE  \/ row[u].status = "completed"
           \/ \E e \in Engine, i \in Item :
                inv[e].pc = "units" /\ Key(e, i) = u /\ inv[e].work[i] = "succeeded"
<1>0. row \in [Unit -> Row]
    BY DEF DispatchInv, JournalInv, JournalTypeOK
<1>1. CASE row' = row
    BY <1>1
<1>2. ASSUME NEW e \in Engine, NEW i \in Item, ReserveUnit(e, i)
      PROVE  row[u].status = "completed"
    BY <1>0, <1>2 DEF ReserveUnit, ReserveUnitAttempt, FreshAttempt, TakeOverClaim, Row
<1>3. ASSUME NEW e \in Engine, NEW i \in Item, NEW status, NEW n, NEW result,
             FinishUnitAttempt(e, Key(e, i), n, status, result),
             status = "completed" => inv[e].pc = "units" /\ inv[e].work[i] = "succeeded"
      PROVE  \/ row[u].status = "completed"
             \/ inv[e].pc = "units" /\ Key(e, i) = u /\ inv[e].work[i] = "succeeded"
    <2> DEFINE v == Key(e, i)
    <2>1. row' = [row EXCEPT ![v] = [claim |-> e, status |-> status, result |-> result, attempts |-> n]]
        BY <1>3 DEF FinishUnitAttempt
    <2> HIDE DEF v
    <2>2. CASE u = v
        BY <1>0, <1>3, <2>1, <2>2 DEF v
    <2>3. CASE u # v
        BY <1>0, <2>1, <2>3
    <2> QED
        BY <2>2, <2>3
<1>4. ASSUME NEW e \in Engine, NEW i \in Item, FinishUnit(e, i)
      PROVE  \/ row[u].status = "completed"
             \/ inv[e].pc = "units" /\ Key(e, i) = u /\ inv[e].work[i] = "succeeded"
    <2> DEFINE status == IF inv[e].work[i] = "succeeded" THEN "completed" ELSE "failed"
    <2>1. inv[e].pc = "units" /\ (status = "completed" => inv[e].work[i] = "succeeded")
        BY <1>4 DEF FinishUnit, At
    <2>2. \/ FinishUnitAttempt(e, Key(e, i), inv[e].att[i], status, inv[e].usage[i])
          \/ UNCHANGED <<spineVars, journalVars>>
        BY <1>4 DEF FinishUnit
    <2> HIDE DEF status
    <2>3. CASE UNCHANGED <<spineVars, journalVars>>
        BY <1>1, <2>3 DEF journalVars
    <2> QED
        BY <1>3, <2>1, <2>2, <2>3
<1>5. ASSUME NEW e \in Engine, InvocationStep(e)
      PROVE  \/ row' = row
             \/ \E i \in Item : ReserveUnit(e, i) \/ FinishUnit(e, i)
    BY <1>5 DEF InvocationStep, OpenRun, AcquireRunLease, SeedBudget, ReadNext, RenewBetweenSteps,
                ClassifyUnits, ClaimUnit, NothingDispatched, DispatchUnit, SettleUnits, CompleteStep,
                ReleaseRunLease, journalVars
<1>6. ASSUME NEW e \in Engine, HeartbeatTick(e) \/ StopSignal(e) \/ Operator
      PROVE  row' = row
    BY <1>6 DEF HeartbeatTick, StopSignal, Operator, journalVars
<1>7. Operator => row' = row
    BY DEF Operator, journalVars
<1> QED
    BY <1>1, <1>2, <1>4, <1>5, <1>6, <1>7 DEF DispatchNext

\* A step is set to completed only by an engine with that verdict of it.
LEMMA StepTraced ==
    ASSUME DispatchInv, DispatchNext, NEW s \in Steps, step'[s] = "completed"
    PROVE  \/ step[s] = "completed"
           \/ \E e \in Engine :
                /\ CompleteStep(e)
                /\ inv[e].pc = "complete" /\ inv[e].at = s /\ inv[e].verdict = "completed"
<1>0. step \in [Steps -> StepStatus]
    BY DEF DispatchInv, SpineTypeOK
<1>1. CASE step' = step
    BY <1>1
<1>2. ASSUME NEW e \in Engine, CompleteStep(e)
      PROVE  \/ step[s] = "completed"
             \/ inv[e].pc = "complete" /\ inv[e].at = s /\ inv[e].verdict = "completed"
    <2>1. inv[e].pc = "complete"
        BY <1>2 DEF CompleteStep, At
    <2>2. CASE AdvanceSpine(e, inv[e].at, inv[e].verdict)
        BY <1>0, <2>1, <2>2 DEF AdvanceSpine
    <2> QED
        BY <1>1, <1>2, <2>2 DEF CompleteStep
<1>3. ASSUME NEW e \in Engine, InvocationStep(e)
      PROVE  step' = step \/ CompleteStep(e)
    BY <1>3 DEF InvocationStep, OpenRun, AcquireRunLease, SeedBudget, ReadNext, RenewBetweenSteps,
                ClassifyUnits, ClaimUnit, NothingDispatched, DispatchUnit, SettleUnits,
                ReserveUnit, FinishUnit, ReleaseRunLease, spineVars, AcquireEngineLease,
                RenewEngineLease, ReleaseEngineLease, ReserveUnitAttempt, FinishUnitAttempt
<1>4. ASSUME NEW e \in Engine, HeartbeatTick(e) \/ StopSignal(e)
      PROVE  step' = step
    BY <1>4 DEF HeartbeatTick, StopSignal, RenewEngineLease, spineVars
<1>5. ASSUME Operator
      PROVE  step[s] = "completed" \/ step' = step
    <2>1. ASSUME NEW r \in Resumer, ResumeCommit(r)
          PROVE  step[s] = "completed"
        BY <1>0, <2>1 DEF ResumeCommit
    <2> QED
        BY <1>5, <2>1 DEF Operator, ResumeRead, LeaseExpires, ReclaimExpiredLease
<1> QED
    BY <1>1, <1>2, <1>3, <1>4, <1>5 DEF DispatchNext

-----------------------------------------------------------------------------
(* What is done to the children.                                           *)

\* No run is taken back, no unit gets another, and, if no two resumes overlap, a
\* completed run keeps its status.
Kept ==
    /\ ChildTypes'
    /\ OneChildPerUnit'
    /\ ResumesOK'
    /\ \A u \in ChildUnit :
          /\ Published(u) => Published(u)'
          /\ SingleResumer => (ChildDone(u) => ChildDone(u)')

LEMMA SetStatusKeeps ==
    ASSUME ChildTypes, OneChildPerUnit, ResumesOK, NEW u \in ChildUnit, NEW status \in RunStatus,
           Published(u), SingleResumer => Status(u) # "completed", SetStatus(u, status),
           driver' \in [ChildUnit -> Engine \cup {None}],
           reopening' \in [ChildUnit -> SUBSET Resumer],
           SingleResumer /\ reopening'[u] # {} => status \in Stopped,
           \A v \in ChildUnit \ {u} : reopening'[v] = reopening[v]
    PROVE  Kept
<1> DEFINE q == children[u]
           p == [q EXCEPT ![Len(q)] = status]
<1>1. q \in Seq(RunStatus) /\ q # <<>> /\ children' = [children EXCEPT ![u] = p]
    BY DEF ChildTypes, Published, SetStatus
<1>2. Len(q) \in Nat \ {0} /\ Len(q) \in 1..Len(q)
    BY <1>1, EmptySeq, LenProperties
<1>3. p \in Seq(RunStatus) /\ Len(p) = Len(q)
    BY <1>1, <1>2, ExceptSeq
<1>4. p # <<>>
    BY <1>2, <1>3, EmptySeq
<1> HIDE DEF p
<1>5. /\ children' \in [ChildUnit -> Seq(RunStatus)] /\ children'[u] = p
      /\ \A v \in ChildUnit \ {u} : children'[v] = children[v]
    BY <1>1, <1>3 DEF ChildTypes
<1>6. OneChildPerUnit'
    BY <1>3, <1>5 DEF OneChildPerUnit
<1>7. SingleResumer => ~ChildDone(u)
    BY DEF ChildDone
<1>8. ASSUME NEW v \in ChildUnit
      PROVE  /\ Published(v) => Published(v)'
             /\ SingleResumer => (ChildDone(v) => ChildDone(v)')
    BY <1>4, <1>5, <1>7 DEF Published, ChildDone, Status
<1>9. ResumesOK'
    <2>1. Status(u)' = status
        <3>1. p[Len(p)] = status
            BY <1>1, <1>2, <1>3, ExceptSeq DEF p
        <3> QED
            BY <1>5, <3>1 DEF Status
    <2>2. ASSUME NEW v \in ChildUnit, reopening'[v] # {}
          PROVE  Published(v)' /\ (SingleResumer => Status(v)' \in Stopped)
        <3>1. CASE v = u
            BY <1>8, <2>1, <2>2, <3>1
        <3>2. CASE v # u
            BY <1>5, <2>2, <3>2 DEF ResumesOK, Published, Status
        <3> QED
            BY <3>1, <3>2
    <2> QED
        BY <2>2 DEF ResumesOK
<1> QED
    BY <1>5, <1>6, <1>8, <1>9 DEF Kept, ChildTypes

LEMMA SameChildrenKept ==
    ASSUME ChildTypes, OneChildPerUnit, ResumesOK, children' = children,
           driver' \in [ChildUnit -> Engine \cup {None}],
           reopening' \in [ChildUnit -> SUBSET Resumer],
           \A u \in ChildUnit : \/ reopening'[u] = reopening[u]
                                \/ Published(u) /\ Status(u) \in Stopped
    PROVE  Kept
<1>1. \A u : /\ Published(u)' = Published(u) /\ Status(u)' = Status(u)
             /\ ChildDone(u)' = ChildDone(u)
    BY DEF Published, Status, ChildDone
<1>2. ResumesOK'
    BY <1>1 DEF ResumesOK
<1> QED
    BY <1>1, <1>2 DEF Kept, ChildTypes, OneChildPerUnit

\* The first run of a unit is published.
LEMMA PublishKeeps ==
    ASSUME ChildTypes, OneChildPerUnit, ResumesOK, NEW u \in ChildUnit, ~Published(u),
           children' = [children EXCEPT ![u] = <<"active">>], driver' = driver,
           reopening' = reopening
    PROVE  Kept /\ Published(u)'
<1>1. <<"active">> \in Seq(RunStatus) /\ Len(<<"active">>) = 1 /\ <<"active">> # <<>>
    BY DEF RunStatus
<1>2. /\ children' \in [ChildUnit -> Seq(RunStatus)] /\ children'[u] = <<"active">>
      /\ \A v \in ChildUnit \ {u} : children'[v] = children[v]
    BY <1>1 DEF ChildTypes
<1>3. OneChildPerUnit'
    BY <1>1, <1>2 DEF OneChildPerUnit
<1>4. Published(u)'
    BY <1>1, <1>2 DEF Published
<1>5. ASSUME NEW v \in ChildUnit
      PROVE  (Published(v) => Published(v)') /\ (ChildDone(v) => ChildDone(v)')
    BY <1>2, <1>4 DEF Published, ChildDone, Status
<1>6. ResumesOK'
    BY <1>2 DEF ResumesOK, Published, Status
<1> QED
    BY <1>2, <1>3, <1>4, <1>5, <1>6 DEF Kept, ChildTypes

\* What a unit says of its child stays true while the children are kept.
LEMMA KeptKeeps ==
    ASSUME ChildInv, DispatchInv', Kept, row' = row, step' = step,
           \A e \in Engine, i \in Item : WorkOK(inv[e], i) => WorkOK(inv[e], i)'
    PROVE  ChildInv'
<1>1. SingleResumer => StepNeedsItsChildren'
    <2> SUFFICES ASSUME SingleResumer, NEW u \in ChildUnit,
                        row[u].status = "completed" \/ (step[u[1]] = "completed" /\ u[1] \notin Tolerant)
                 PROVE  ChildDone(u)'
        BY DEF StepNeedsItsChildren, ChildDone
    <2>1. ChildDone(u)
        BY DEF ChildInv, StepNeedsItsChildren, ChildDone
    <2> QED
        BY <2>1 DEF Kept
<1> QED
    BY <1>1 DEF ChildInv, Kept

\* What comes from outside changes the children only.
LEMMA OutsideIsOutside ==
    ASSUME NEW u, ChildOutside(u)
    PROVE  UNCHANGED dispatchVars
BY DEF ChildOutside, ResumeChildRead, ResumeChildCommit, AbandonChild, PersonDrives, ChildLeaseExpires

\* The people's runs of a child, and its lease.
LEMMA OutsideKeeps ==
    ASSUME ChildInv, NEW u \in ChildUnit, ChildOutside(u)
    PROVE  ChildInv'
<1>1. ChildTypes /\ OneChildPerUnit /\ ResumesOK
    BY DEF ChildInv
<1>2. driver' \in [ChildUnit -> Engine \cup {None}]
    BY <1>1 DEF ChildTypes, ChildOutside, ResumeChildRead, ResumeChildCommit, AbandonChild,
                PersonDrives, ChildLeaseExpires
<1>3. Kept
    <2>1. ASSUME NEW r \in Resumer, ResumeChildRead(r, u)
          PROVE  Kept
        <3>1. /\ reopening' = [reopening EXCEPT ![u] = @ \cup {r}]
              /\ children' = children /\ Published(u) /\ Status(u) \in Stopped
            BY <2>1 DEF ResumeChildRead
        <3>2. /\ reopening' \in [ChildUnit -> SUBSET Resumer]
              /\ \A v \in ChildUnit \ {u} : reopening'[v] = reopening[v]
            BY <1>1, <3>1 DEF ChildTypes
        <3> QED
            BY <1>1, <1>2, <3>1, <3>2, SameChildrenKept
    <2>2. ASSUME NEW r \in Resumer, ResumeChildCommit(r, u)
          PROVE  Kept
        <3>1. /\ reopening' = [reopening EXCEPT ![u] = @ \ {r}] /\ r \in reopening[u]
              /\ SetStatus(u, "active")
            BY <2>2 DEF ResumeChildCommit
        <3>2. /\ reopening' \in [ChildUnit -> SUBSET Resumer]
              /\ reopening'[u] = reopening[u] \ {r}
              /\ \A v \in ChildUnit \ {u} : reopening'[v] = reopening[v]
            BY <1>1, <3>1 DEF ChildTypes
        <3>3. SingleResumer => reopening'[u] = {}
            BY <1>1, <3>2 DEF SingleResumer, ChildTypes
        <3>4. Published(u) /\ (SingleResumer => Status(u) # "completed")
            BY <1>1, <3>1 DEF ResumesOK, Stopped
        <3>5. "active" \in RunStatus
            BY DEF RunStatus
        <3> QED
            BY <1>1, <1>2, <3>1, <3>2, <3>3, <3>4, <3>5, SetStatusKeeps
    <2>3. SingleResumer /\ Status(u) = "active" => reopening[u] = {}
        BY <1>1 DEF ResumesOK, Stopped
    <2>4. CASE AbandonChild(u)
        BY <1>1, <1>2, <2>4, SetStatusKeeps DEF AbandonChild, RunStatus, Stopped, ChildTypes
    <2>5. CASE PersonDrives(u)
        BY <1>1, <1>2, <2>3, <2>5, SetStatusKeeps DEF PersonDrives, CanDrive, ChildTypes
    <2>6. CASE ChildLeaseExpires(u)
        BY <1>1, <1>2, <2>6, SameChildrenKept DEF ChildLeaseExpires, ChildTypes
    <2> QED
        BY <2>1, <2>2, <2>4, <2>5, <2>6 DEF ChildOutside
<1>4. UNCHANGED dispatchVars
    BY OutsideIsOutside
<1>5. row' = row /\ step' = step /\ inv' = inv
    BY <1>4 DEF dispatchVars, spineVars, journalVars
<1>6. DispatchInv'
    BY <1>4, DispatchInvInductive DEF ChildInv
<1>7. ASSUME NEW e \in Engine, NEW i \in Item, WorkOK(inv[e], i)
      PROVE  WorkOK(inv[e], i)'
    BY <1>3, <1>5, <1>7 DEF WorkOK, Kept
<1> QED
    BY <1>3, <1>5, <1>6, <1>7, KeptKeeps

\* A child unit goes on: nothing that the fan-out knows is disturbed.
LEMMA ComesKeeps ==
    ASSUME ChildInv, NEW e \in Engine, NEW i \in Item, NEW w \in Out \cup Answered,
           At(e, "units"), Comes(e, i, w), Kept,
           w \in Out => Published(Key(e, i))',
           SingleResumer => (w = "succeeded" => ChildDone(Key(e, i))')
    PROVE  ChildInv'
<1> DEFINE l == inv[e]
           m == [l EXCEPT !.work[i] = w]
<1>0. LocalInv(l) /\ l \in Local /\ inv \in [Engine -> Local] /\ l.pc = "units"
    BY DEF ChildInv, DispatchInv, At
<1>1. /\ inv' = [inv EXCEPT ![e] = m] /\ row' = row /\ step' = step
      /\ holder' = holder /\ attempts' = attempts
    BY DEF Comes, spineVars, journalVars
<1>2. PoolStep(l, m, i)
    <2> HIDE DEF l
    <2>1. w \in (InFlight \cup Returned) \ {"reserve"}
        BY DEF Out, Answered, InFlight
    <2> QED
        BY <1>0, <2>1, SetWorkSteps
<1>3. m.at = l.at /\ m.pc = l.pc /\ m.work = [l.work EXCEPT ![i] = w] /\ l.work \in [Item -> Work]
    BY <1>0 DEF Local
<1> HIDE DEF m
<1>4. QuietStep(e)
    <2>1. AttemptRows' = AttemptRows
        BY <1>1 DEF AttemptRows
    <2> QED
        BY <1>0, <1>1, <1>2, <2>1, PoolStepIsQuiet DEF ChildInv
<1>5. SpineTypeOK' /\ JournalInv'
    <2>1. spineVars' = spineVars /\ journalVars' = journalVars
        BY DEF Comes
    <2> QED
        BY <2>1, SpineTypeInductive, JournalInvInductive DEF ChildInv, DispatchInv
<1>6. DispatchInv'
    BY <1>4, <1>5, QuietStepKeeps DEF ChildInv
<1>7. ASSUME NEW d \in Engine, NEW j \in Item
      PROVE  WorkOK(inv[d], j)'
    <2>1. WorkOK(inv[d], j)
        BY DEF ChildInv
    <2>2. CASE d = e /\ j = i
        <3>1. inv'[d] = m /\ m.work[i] = w /\ m.at = l.at
            BY <1>0, <1>1, <1>3, <2>2
        <3>2. /\ w \in Out => Published(<<l.at, i>>)'
              /\ SingleResumer => (w = "succeeded" => ChildDone(<<l.at, i>>)')
            <4>1. inv'[e].at = l.at
                BY <3>1, <2>2
            <4> QED
                BY <4>1 DEF Key
        <3> QED
            BY <2>2, <3>1, <3>2 DEF WorkOK, Out, Answered
    <2>3. CASE ~(d = e /\ j = i)
        <3>1. /\ inv'[d].pc = inv[d].pc /\ inv'[d].at = inv[d].at
              /\ inv'[d].work[j] = inv[d].work[j]
            BY <1>0, <1>1, <1>3, <2>3
        <3> QED
            BY <2>1, <3>1 DEF WorkOK, Kept
    <2> QED
        BY <2>2, <2>3
<1> QED
    BY <1>1, <1>6, <1>7, KeptKeeps

\* driveChildWorkflowUnit, operation by operation.
LEMMA ChildStepKeeps ==
    ASSUME ChildInv, NEW e \in Engine, ChildStep(e)
    PROVE  ChildInv'
<1>0. ChildTypes /\ OneChildPerUnit /\ ResumesOK
    BY DEF ChildInv
<1> SUFFICES ASSUME NEW i \in Item,
                    \/ PublishChild(e, i) \/ PublishFails(e, i) \/ BeginDrive(e, i)
                    \/ EndDrive(e, i) \/ DriveThrows(e, i) \/ RereadChild(e, i)
             PROVE  ChildInv'
    BY DEF ChildStep
<1>u. Key(e, i) \in ChildUnit
    BY DEF PublishChild, PublishFails, BeginDrive, EndDrive, DriveThrows, RereadChild, Stands
<1>p. PICK u \in ChildUnit : u = Key(e, i)
    BY <1>u
<1>1. u \in ChildUnit /\ At(e, "units")
    BY DEF PublishChild, PublishFails, BeginDrive, EndDrive, DriveThrows, RereadChild, Stands
<1>2. inv[e].work[i] \in Out => Published(u)
    BY <1>1, <1>p DEF ChildInv, WorkOK, At, Key, Out
<1>3. ASSUME NEW w \in Out \cup Answered, Comes(e, i, w)
      PROVE  Key(e, i)' = u
    <2>1. inv'[e].at = inv[e].at
        BY <1>3 DEF Comes, ChildInv, DispatchInv, Local
    <2> QED
        BY <1>p, <2>1 DEF Key
<1>k. driver' \in [ChildUnit -> Engine \cup {None}]
    BY <1>0 DEF ChildTypes, PublishChild, PublishFails, BeginDrive, EndDrive, DriveThrows, RereadChild,
                childVars
<1>r. reopening' = reopening /\ reopening' \in [ChildUnit -> SUBSET Resumer]
    BY <1>0 DEF ChildTypes, PublishChild, PublishFails, BeginDrive, EndDrive, DriveThrows, RereadChild,
                Comes
<1>4. ASSUME NEW w \in Out \cup Answered, Comes(e, i, w), children' = children,
             w \in Out => Published(u), w = "succeeded" => ChildDone(u)
      PROVE  ChildInv'
    <2>1. Kept
        BY <1>0, <1>k, <1>r, <1>4, SameChildrenKept
    <2>2. (w \in Out => Published(Key(e, i))') /\ (w = "succeeded" => ChildDone(Key(e, i))')
        <3>1. (Published(u) => Published(u)') /\ (ChildDone(u) => ChildDone(u)')
            BY <1>4 DEF Published, ChildDone, Status
        <3>2. Key(e, i)' = u
            BY <1>3, <1>4
        <3> QED
            BY <1>4, <3>1, <3>2 DEF Published, ChildDone, Status
    <2> QED
        BY <1>1, <1>4, <2>1, <2>2, ComesKeeps
<1>5. CASE PublishChild(e, i)
    <2>1. CASE Published(u)
        <3>1. children' = children /\ \E w \in {"reread", "drive"} : Comes(e, i, w)
            BY <1>5, <1>p, <2>1 DEF PublishChild
        <3> QED
            BY <1>4, <2>1, <3>1 DEF Out
    <2>2. CASE ~Published(u)
        <3>1. /\ Comes(e, i, "drive") /\ children' = [children EXCEPT ![u] = <<"active">>]
              /\ driver' = driver
            BY <1>5, <1>p, <2>2 DEF PublishChild
        <3>2. Kept /\ Published(u)'
            BY <1>0, <1>1, <1>r, <2>2, <3>1, PublishKeeps
        <3>3. Published(Key(e, i))'
            <4>1. Key(e, i)' = u
                BY <1>3, <3>1 DEF Out
            <4> QED
                BY <3>2, <4>1 DEF Published
        <3> QED
            BY <1>1, <3>1, <3>2, <3>3, ComesKeeps DEF Out
    <2> QED
        BY <2>1, <2>2
<1>6. CASE PublishFails(e, i)
    <2>1. Comes(e, i, "erred") /\ children' = children
        BY <1>6 DEF PublishFails, childVars
    <2> QED
        BY <1>4, <2>1 DEF Out, Answered
<1>7. CASE BeginDrive(e, i)
    <2>1. Published(u)
        BY <1>2, <1>7 DEF BeginDrive, Stands, Out
    <2>2. children' = children /\ \E w \in {"driving", "reread", "erred"} : Comes(e, i, w)
        BY <1>7 DEF BeginDrive
    <2> QED
        BY <1>4, <2>1, <2>2 DEF Out, Answered
<1>8. CASE EndDrive(e, i)
    <2>1. Published(u)
        BY <1>2, <1>8 DEF EndDrive, Stands, Out
    <2>2. PICK status \in RunStatus : SetStatus(u, status)
        BY <1>8, <1>p DEF EndDrive
    <2>3. Status(u) = "active" /\ Comes(e, i, "reread")
        BY <1>8, <1>p DEF EndDrive
    <2>4. Kept
        <3>1. SingleResumer => reopening'[u] = {}
            BY <1>0, <1>1, <1>r, <2>3 DEF ResumesOK, Stopped
        <3> QED
            BY <1>0, <1>1, <1>k, <1>r, <2>1, <2>2, <2>3, <3>1, SetStatusKeeps
    <2>5. Published(Key(e, i))'
        <3>1. Key(e, i)' = u /\ Published(u)'
            BY <1>1, <1>3, <2>1, <2>3, <2>4 DEF Out, Kept
        <3> QED
            BY <3>1 DEF Published
    <2> QED
        BY <1>1, <2>3, <2>4, <2>5, ComesKeeps DEF Out
<1>9. CASE DriveThrows(e, i)
    <2>1. Comes(e, i, "erred") /\ children' = children
        BY <1>9 DEF DriveThrows
    <2> QED
        BY <1>4, <2>1 DEF Out, Answered
<1>10. CASE RereadChild(e, i)
    <2>1. Published(u)
        BY <1>2, <1>10 DEF RereadChild, Stands, Out
    <2>2. /\ children' = children
          /\ \/ Comes(e, i, "succeeded") /\ Status(u) = "completed"
             \/ \E w \in {"childBlocked", "erred"} : Comes(e, i, w)
        <3>1. Status(u) = "completed" => Comes(e, i, "succeeded")
            BY <1>10, <1>p DEF RereadChild
        <3>2. Status(u) # "completed" => \E w \in {"childBlocked", "erred"} : Comes(e, i, w)
            BY <1>10, <1>p DEF RereadChild
        <3> QED
            BY <1>10, <3>1, <3>2 DEF RereadChild, childVars
    <2> QED
        BY <1>4, <2>1, <2>2 DEF Out, Answered, ChildDone
<1> QED
    BY <1>5, <1>6, <1>7, <1>8, <1>9, <1>10

-----------------------------------------------------------------------------
(* The invariant.                                                          *)

\* The fan-out's own steps.
LEMMA FanOutKeeps ==
    ASSUME ChildInv, DispatchNext, UNCHANGED childVars
    PROVE  ChildInv'
<1>0. /\ children' = children /\ driver' = driver /\ reopening' = reopening
      /\ DispatchInv /\ DispatchInv'
    BY DispatchInvInductive DEF childVars, ChildInv
<1>1. \A u : /\ Published(u)' = Published(u) /\ ChildDone(u)' = ChildDone(u)
             /\ Status(u)' = Status(u)
    BY <1>0 DEF Published, ChildDone, Status
<1>2. ASSUME SingleResumer
      PROVE  StepNeedsItsChildren'
    <2>1. ASSUME NEW u \in ChildUnit, row'[u].status = "completed"
          PROVE  ChildDone(u)
        <3>1. u \in Unit
            BY DEF ChildUnit
        <3>2. CASE row[u].status = "completed"
            BY <1>2, <3>2 DEF ChildInv, StepNeedsItsChildren, ChildDone
        <3>3. ASSUME NEW e \in Engine, NEW i \in Item,
                     inv[e].pc = "units", Key(e, i) = u, inv[e].work[i] = "succeeded"
              PROVE  ChildDone(u)
            BY <1>2, <3>3 DEF ChildInv, WorkOK, Key
        <3> QED
            BY <1>0, <2>1, <3>1, <3>2, <3>3, RowTraced
    <2>2. ASSUME NEW u \in ChildUnit, step'[u[1]] = "completed", u[1] \notin Tolerant
          PROVE  ChildDone(u)
        <3>1. u[1] \in Steps /\ u[2] \in Item /\ u = <<u[1], u[2]>>
            BY DEF ChildUnit
        <3>2. CASE step[u[1]] = "completed"
            BY <1>2, <2>2, <3>2 DEF ChildInv, StepNeedsItsChildren, ChildDone
        <3>3. ASSUME NEW e \in Engine,
                     inv[e].pc = "complete", inv[e].at = u[1], inv[e].verdict = "completed"
              PROVE  ChildDone(u)
            <4>1. inv[e].work[u[2]] = "ok"
                BY <1>0, <2>2, <3>1, <3>3 DEF DispatchInv, LocalInv
            <4>2. WorkOK(inv[e], u[2])
                BY <3>1 DEF ChildInv
            <4> QED
                BY <1>2, <3>1, <3>3, <4>1, <4>2 DEF WorkOK
        <3> QED
            BY <1>0, <2>2, <3>1, <3>2, <3>3, StepTraced
    <2> QED
        BY <1>1, <2>1, <2>2 DEF StepNeedsItsChildren, ChildDone
<1>3. ASSUME NEW e \in Engine, TracedStep(e), NEW d \in Engine, NEW i \in Item
      PROVE  WorkOK(inv[d], i)'
    <2>1. WorkOK(inv[d], i)
        BY DEF ChildInv
    <2>2. CASE d # e
        BY <1>1, <1>3, <2>1, <2>2 DEF TracedStep, WorkOK
    <2>3. CASE d = e
        <3> DEFINE l == inv[e]
                   m == inv'[e]
        <3>1. Traced(l, m) /\ WorkOK(l, i)
            BY <1>3, <2>1, <2>3 DEF TracedStep
        <3> HIDE DEF l, m
        <3>2. ASSUME m.pc \in AtWork, <<m.at, i>> \in ChildUnit
              PROVE  /\ m.work[i] \in Out => Published(<<m.at, i>>)
                     /\ SingleResumer => (m.work[i] \in Succeeded => ChildDone(<<m.at, i>>))
            <4>1. m.work[i] \in Out => Published(<<m.at, i>>)
                BY <3>1, <3>2 DEF Traced, WorkOK, AtWork, Out
            <4>2. SingleResumer /\ row[<<m.at, i>>].status = "completed" => ChildDone(<<m.at, i>>)
                BY <3>2 DEF ChildInv, StepNeedsItsChildren, ChildDone
            <4>3. <<m.at, i>> \notin Plain
                BY <3>2 DEF ChildUnit
            <4> QED
                BY <3>1, <3>2, <4>1, <4>2, <4>3 DEF Traced, WorkOK, AtWork, Succeeded
        <3> QED
            BY <1>1, <2>3, <3>2 DEF WorkOK, AtWork, Out, Succeeded, m
    <2> QED
        BY <2>2, <2>3
<1>4. ASSUME Operator, NEW d \in Engine, NEW i \in Item
      PROVE  WorkOK(inv[d], i)'
    <2>1. inv' = inv /\ WorkOK(inv[d], i)
        BY <1>4 DEF Operator, ChildInv
    <2> QED
        BY <1>1, <2>1 DEF WorkOK
<1>5. \A d \in Engine, i \in Item : WorkOK(inv[d], i)'
    BY <1>0, <1>3, <1>4, DispatchTraced DEF DispatchNext
<1>6. ResumesOK'
    BY <1>0, <1>1 DEF ChildInv, ResumesOK
<1> QED
    BY <1>0, <1>2, <1>5, <1>6 DEF ChildInv, ChildTypes, OneChildPerUnit

LEMMA ChildInvInductive ==
    /\ ChildInit => ChildInv
    /\ ChildInv /\ [ChildNext]_allVars => ChildInv'
<1>1. ChildInit => ChildInv
    <2> SUFFICES ASSUME ChildInit
                 PROVE  ChildInv
        OBVIOUS
    <2>1. DispatchInv
        BY DispatchInvInductive DEF ChildInit
    <2>2. ChildTypes /\ OneChildPerUnit /\ ResumesOK
        BY DEF ChildInit, ChildTypes, OneChildPerUnit, ResumesOK
    <2>3. StepNeedsItsChildren
        <3>1. \A u \in Unit : row[u].status = "absent"
            BY DEF ChildInit, DispatchInit, JournalInit, NoRow
        <3>2. \A s \in Steps : step[s] = "pending"
            BY DEF ChildInit, DispatchInit, SpineInit
        <3> QED
            BY <3>1, <3>2 DEF StepNeedsItsChildren, ChildUnit
    <2>4. \A e \in Engine : inv[e].pc = "idle"
        BY FreshType DEF ChildInit, DispatchInit
    <2> QED
        BY <2>1, <2>2, <2>3, <2>4 DEF ChildInv, WorkOK
<1>2. ASSUME ChildInv, ChildNext
      PROVE  ChildInv'
    BY <1>2, FanOutKeeps, ChildStepKeeps, OutsideKeeps DEF ChildNext
<1>3. ASSUME ChildInv, UNCHANGED allVars
      PROVE  ChildInv'
    <2>1. /\ dispatchVars' = dispatchVars /\ inv' = inv /\ row' = row /\ step' = step
          /\ children' = children /\ driver' = driver /\ reopening' = reopening
        BY <1>3 DEF allVars, dispatchVars, childVars, spineVars, journalVars
    <2>2. DispatchInv'
        BY <1>3, <2>1, DispatchInvInductive DEF ChildInv
    <2>3. \A u : /\ Published(u)' = Published(u) /\ ChildDone(u)' = ChildDone(u)
                 /\ Status(u)' = Status(u)
        BY <2>1 DEF Published, ChildDone, Status
    <2>4. SingleResumer => StepNeedsItsChildren'
        BY <1>3, <2>1, <2>3 DEF ChildInv, StepNeedsItsChildren, ChildDone
    <2>5. \A e \in Engine, i \in Item : WorkOK(inv[e], i)'
        BY <1>3, <2>1, <2>3 DEF ChildInv, WorkOK
    <2>6. ResumesOK'
        BY <1>3, <2>1, <2>3 DEF ChildInv, ResumesOK
    <2> QED
        BY <1>3, <2>1, <2>2, <2>4, <2>5, <2>6 DEF ChildInv, ChildTypes, OneChildPerUnit
<1> QED
    BY <1>1, <1>2, <1>3

-----------------------------------------------------------------------------
(* Theorems.                                                               *)

LEMMA ChildInvCorrect == ChildSpec => []ChildInv
BY ChildInvInductive, PTL DEF ChildSpec

\* Rows, locals, children and leases have their types.
THEOREM ChildTypeCorrect == ChildSpec => []ChildTypeOK
<1>1. ChildInv => ChildTypeOK
    BY DEF ChildInv, DispatchInv, JournalInv, ChildTypes, ChildTypeOK, DispatchTypeOK
<1> QED
    BY <1>1, ChildInvCorrect, PTL

\* No run ever has more journaled attempts than its budget allows, whatever its
\* plan, pool and retries, and however often engines crash or displace each other.
THEOREM UnitCeilingHolds == ChildSpec => []UnitCeiling
<1>1. ChildInv => UnitCeiling
    BY DEF ChildInv, DispatchInv
<1> QED
    BY <1>1, ChildInvCorrect, PTL

\* The lease holder's budget has a slot for every journaled attempt and every unit
\* that it is about to reserve.
THEOREM BudgetAlwaysKnows == ChildSpec => []BudgetKnowsJournal
<1>1. ChildInv => BudgetKnowsJournal
    BY DEF ChildInv, DispatchInv, BudgetOK, Need, BudgetKnowsJournal
<1> QED
    BY <1>1, ChildInvCorrect, PTL

\* One run is published for a unit, however often the unit is dispatched.
THEOREM OneChildEver == ChildSpec => []OneChildPerUnit
<1>1. ChildInv => OneChildPerUnit
    BY DEF ChildInv
<1> QED
    BY <1>1, ChildInvCorrect, PTL

\* No result and no completed intolerant step without the completed child, as long as
\* no two resumes of a run overlap: resumeWorkflowRun writes "active" over whatever the
\* child has become since it was read.
THEOREM StepsNeedTheirChildren ==
    ASSUME SingleResumer
    PROVE  ChildSpec => []StepNeedsItsChildren
<1>1. ChildInv => StepNeedsItsChildren
    BY SingleResumer DEF ChildInv
<1> QED
    BY <1>1, ChildInvCorrect, PTL

\* No step is completed while a unit of it has not come back to the invocation that
\* completes it, or its result is not written, in tolerant steps too.
THEOREM NoUnitIsPassedOver == ChildSpec => NoUnitPassedOver
<1> DEFINE Back(e, s) ==
        /\ inv[e].pc = "complete" /\ inv'[e].pc # "complete"
        /\ inv[e].at = s /\ step[s] # "completed" /\ step'[s] = "completed"
        => \A i \in Item : inv[e].work[i] \in Returned \ {"unwritten"}
<1>1. ASSUME ChildInv, DispatchNext, NEW e \in Engine, NEW s \in Steps
      PROVE  Back(e, s)
    <2> SUFFICES ASSUME inv[e].pc = "complete", inv'[e].pc # "complete",
                        step[s] # "completed", step'[s] = "completed"
                 PROVE  \A i \in Item : inv[e].work[i] \in Returned \ {"unwritten"}
        OBVIOUS
    <2>0. DispatchInv /\ LocalInv(inv[e]) /\ inv \in [Engine -> Local]
        BY <1>1 DEF ChildInv, DispatchInv
    <2>1. PICK d \in Engine : CompleteStep(d) /\ inv[d].pc = "complete" /\ inv[d].verdict = "completed"
        BY <1>1, <2>0, StepTraced
    <2>2. \E m : inv' = [inv EXCEPT ![d] = m]
        BY <2>1 DEF CompleteStep, Leave
    <2>3. d = e
        BY <2>0, <2>2
    <2> QED
        BY <2>0, <2>1, <2>3 DEF LocalInv
<1>2. ASSUME ChildInv, [ChildNext]_allVars
      PROVE  [\A e \in Engine, s \in Steps : Back(e, s)]_dispatchVars
    <2>1. CASE DispatchNext
        BY <1>1, <1>2, <2>1
    <2>2. ASSUME NEW e \in Engine, ChildStep(e)
          PROVE  \A d \in Engine, s \in Steps : Back(d, s)
        <3>1. step' = step
            BY <2>2 DEF ChildStep, PublishChild, PublishFails, BeginDrive, EndDrive, DriveThrows,
                        RereadChild, Comes, spineVars
        <3> QED
            BY <3>1
    <2>3. ASSUME NEW u \in ChildUnit, ChildOutside(u)
          PROVE  UNCHANGED dispatchVars
        BY <2>3, OutsideIsOutside
    <2>4. UNCHANGED allVars => UNCHANGED dispatchVars
        BY DEF allVars
    <2> HIDE DEF Back
    <2> QED
        BY <1>2, <2>1, <2>2, <2>3, <2>4 DEF ChildNext
<1> QED
    BY <1>2, ChildInvCorrect, PTL DEF ChildSpec, NoUnitPassedOver

\* With its child workflows too, the fan-out is a client of the journal as
\* JournalSpec describes it.
THEOREM ChildImplementsJournal == ChildSpec => JournalSpec
<1>1. ChildInit => SpineInit /\ JournalInit
    BY DEF ChildInit, DispatchInit
<1>2. ChildInv /\ [ChildNext]_allVars
        => [(SpineNext /\ UNCHANGED journalVars) \/ JournalNext]_<<spineVars, journalVars>>
    <2>1. ASSUME NEW e \in Engine, ChildStep(e)
          PROVE  UNCHANGED <<spineVars, journalVars>>
        BY <2>1 DEF ChildStep, PublishChild, PublishFails, BeginDrive, EndDrive, DriveThrows,
                    RereadChild, Comes
    <2>2. ASSUME NEW u \in ChildUnit, ChildOutside(u)
          PROVE  UNCHANGED <<spineVars, journalVars>>
        BY <2>2, OutsideIsOutside DEF dispatchVars
    <2> QED
        BY <2>1, <2>2, DispatchStepIsJournalStep DEF ChildNext, ChildInv, allVars, dispatchVars
<1> QED
    BY <1>1, <1>2, ChildInvCorrect, PTL DEF ChildSpec, JournalSpec
-----------------------------------------------------------------------------
(* The work an invocation has left.                                        *)

\* Its stage; at a step, the units that nobody has claimed; and for each unit its
\* retries and how far it is.
StageLeft ==
    [idle |-> 8, acquire |-> 7, seed |-> 6, next |-> 6, renew |-> 5, classify |-> 4,
     units |-> 3, complete |-> 2, release |-> 1, done |-> 0]
PlaceLeft ==
    [todo |-> 7, reusable |-> 7, reserve |-> 6, dispatch |-> 5, drive |-> 4, driving |-> 3,
     reread |-> 2, succeeded |-> 1, erred |-> 1, childBlocked |-> 1]
UnitLeft(l, i) ==
    IF l.work[i] \in Returned THEN 0 ELSE 8 * (MaxRetry - l.tries[i]) + PlaceLeft[l.work[i]]

\* One unit gets further, and the others stay where they are.
UnitAdvances(l, m) ==
    \E i \in Item : /\ UnitLeft(m, i) < UnitLeft(l, i)
                    /\ \A j \in Item \ {i} : UnitLeft(m, j) = UnitLeft(l, j)
\* Locals m have less left than l.
LessLeft(l, m) ==
    \/ StageLeft[m.pc] < StageLeft[l.pc]
    \/ /\ m.pc = l.pc
       /\ l.claimed < m.claimed \/ (m.claimed = l.claimed /\ UnitAdvances(l, m))
Finishes == \E s \in Steps : step[s] = "pending" /\ step'[s] = "completed"

\* The work of an invocation is bounded: whatever it does finishes a step for good, or
\* leaves it less to do; it may be told to stop; and nobody else gives it more to do.
InvocationWorkIsBounded ==
    [][\A e \in Engine : \/ inv'[e] = inv[e]
                         \/ inv'[e] = [inv[e] EXCEPT !.stop = TRUE] /\ ~inv[e].stop
                         \/ LessLeft(inv[e], inv'[e])
                         \/ Finishes]_allVars

\* Every place on the way to an answer has less left than the one before.
LEMMA PlacesLeft ==
    /\ \A w \in Work \ Returned : PlaceLeft[w] \in 1..7
    /\ PlaceLeft["reserve"] = 6 /\ PlaceLeft["dispatch"] = 5 /\ PlaceLeft["drive"] = 4
    /\ PlaceLeft["driving"] = 3 /\ PlaceLeft["reread"] = 2
    /\ \A w \in Answered : PlaceLeft[w] = 1
BY DEF PlaceLeft, Work, InFlight, Answered, Returned

\* ... and so has every stage.
LEMMA StagesLeft ==
    /\ StageLeft["idle"] = 8 /\ StageLeft["acquire"] = 7 /\ StageLeft["seed"] = 6
    /\ StageLeft["next"] = 6 /\ StageLeft["renew"] = 5 /\ StageLeft["classify"] = 4
    /\ StageLeft["units"] = 3 /\ StageLeft["complete"] = 2 /\ StageLeft["release"] = 1
    /\ StageLeft["done"] = 0
BY DEF StageLeft

\* A unit gets further: it returns, or goes on, or is tried again.
LEMMA UnitGoesOn ==
    ASSUME NEW l \in Local, NEW m \in Local, NEW i \in Item,
           l.work[i] \in InFlight, m.pc = l.pc, m.claimed = l.claimed,
           \A j \in Item \ {i} : m.work[j] = l.work[j] /\ m.tries[j] = l.tries[j],
           \/ m.work[i] \in Returned
           \/ /\ m.work[i] \in InFlight /\ m.tries[i] = l.tries[i]
              /\ PlaceLeft[m.work[i]] < PlaceLeft[l.work[i]]
           \/ m.work[i] \in InFlight /\ m.tries[i] = l.tries[i] + 1
    PROVE  LessLeft(l, m)
<1>1. /\ l.tries[i] \in 0..MaxRetry /\ m.tries[i] \in 0..MaxRetry
      /\ l.work[i] \in Work \ Returned
      /\ m.work[i] \in InFlight => m.work[i] \in Work \ Returned
    BY DEF Local, InFlight, Answered, Returned, Work
<1>2. /\ PlaceLeft[l.work[i]] \in 1..7
      /\ m.work[i] \in InFlight => PlaceLeft[m.work[i]] \in 1..7
    BY <1>1, PlacesLeft
<1>3. UnitLeft(l, i) = 8 * (MaxRetry - l.tries[i]) + PlaceLeft[l.work[i]]
    BY <1>1 DEF UnitLeft
<1>4. /\ m.work[i] \in Returned => UnitLeft(m, i) = 0
      /\ m.work[i] \in InFlight => UnitLeft(m, i) = 8 * (MaxRetry - m.tries[i]) + PlaceLeft[m.work[i]]
    BY <1>1 DEF UnitLeft
<1>5. UnitLeft(m, i) < UnitLeft(l, i)
    <2>1. CASE m.work[i] \in Returned
        BY <1>1, <1>2, <1>3, <1>4, <2>1
    <2>2. CASE m.work[i] \in InFlight /\ m.tries[i] = l.tries[i] /\ PlaceLeft[m.work[i]] < PlaceLeft[l.work[i]]
        BY <1>1, <1>2, <1>3, <1>4, <2>2
    <2>3. CASE m.work[i] \in InFlight /\ m.tries[i] = l.tries[i] + 1
        BY <1>1, <1>2, <1>3, <1>4, <2>3
    <2> QED
        BY <2>1, <2>2, <2>3
<1>6. \A j \in Item \ {i} : UnitLeft(m, j) = UnitLeft(l, j)
    BY DEF UnitLeft
<1> QED
    BY <1>5, <1>6 DEF LessLeft, UnitAdvances

\* An engine has less left, and the others are where they were.
Works(e) == LessLeft(inv[e], inv'[e]) /\ \A d \in Engine \ {e} : inv'[d] = inv[d]

\* What it takes for an invocation to have less left.
LEMMA WorksSo ==
    ASSUME inv \in [Engine -> Local], NEW e \in Engine, NEW m, inv' = [inv EXCEPT ![e] = m], LessLeft(inv[e], m)
    PROVE  Works(e)
BY DEF Works

\* A later stage.
LEMMA StageWorks ==
    ASSUME inv \in [Engine -> Local], NEW e \in Engine, NEW m, inv' = [inv EXCEPT ![e] = m],
           StageLeft[m.pc] < StageLeft[inv[e].pc]
    PROVE  Works(e)
BY WorksSo DEF LessLeft

\* An invocation that leaves its stage gets to a later one.
LEMMA LeaveWorks ==
    ASSUME inv \in [Engine -> Local], NEW e \in Engine, NEW label \in {"release", "done"}, Leave(e, label),
           StageLeft[label] < StageLeft[inv[e].pc]
    PROVE  Works(e)
<1>1. [Fresh EXCEPT !.pc = label].pc = label
    BY FreshType DEF Local
<1> QED
    BY <1>1, StageWorks DEF Leave

\* Between the steps, and from the units to the end of the step.
LEMMA StageStepWorks ==
    ASSUME DispatchInv, NEW e \in Engine,
           \/ OpenRun(e) \/ AcquireRunLease(e) \/ SeedBudget(e) \/ ReadNext(e)
           \/ RenewBetweenSteps(e) \/ ClassifyUnits(e) \/ SettleUnits(e) \/ ReleaseRunLease(e)
    PROVE  Works(e)
<1> DEFINE l == inv[e]
<1>0. l \in Local /\ inv \in [Engine -> Local]
    BY DEF DispatchInv
<1>1. ASSUME NEW label \in {"release", "done"}, Leave(e, label), StageLeft[label] < StageLeft[l.pc]
      PROVE  Works(e)
    BY <1>0, <1>1, LeaveWorks
<1>2. ASSUME NEW m, inv' = [inv EXCEPT ![e] = m], StageLeft[m.pc] < StageLeft[l.pc]
      PROVE  Works(e)
    BY <1>0, <1>2, StageWorks
<1>s. ASSUME NEW verdict, Settled(e, verdict), l.pc \in {"classify", "units"}
      PROVE  Works(e)
    <2>1. CASE Leave(e, "release")
        BY <1>1, <1>s, <2>1, StagesLeft
    <2>2. CASE inv' = [inv EXCEPT ![e].pc = "complete", ![e].verdict = verdict]
        <3> DEFINE m == [l EXCEPT !.pc = "complete", !.verdict = verdict]
        <3>1. inv' = [inv EXCEPT ![e] = m] /\ m.pc = "complete"
            BY <1>0, <2>2 DEF Local
        <3>2. StageLeft[m.pc] < StageLeft[l.pc]
            BY <1>s, <3>1, StagesLeft
        <3> HIDE DEF m
        <3> QED
            BY <1>2, <3>1, <3>2
    <2> QED
        BY <1>s, <2>1, <2>2 DEF Settled
<1>3. CASE OpenRun(e)
    <2> DEFINE m == [l EXCEPT !.pc = "acquire", !.at = current]
    <2>1. inv' = [inv EXCEPT ![e] = m] /\ m.pc = "acquire" /\ l.pc = "idle"
        BY <1>0, <1>3 DEF OpenRun, Local, At
    <2>2. StageLeft[m.pc] < StageLeft[l.pc]
        BY <2>1, StagesLeft
    <2> HIDE DEF m
    <2> QED
        BY <1>2, <2>1, <2>2
<1>g. ASSUME NEW label, Goto(e, label), StageLeft[label] < StageLeft[l.pc]
      PROVE  Works(e)
    <2> DEFINE m == [l EXCEPT !.pc = label]
    <2>1. inv' = [inv EXCEPT ![e] = m] /\ m.pc = label
        BY <1>0, <1>g DEF Goto, Local
    <2> HIDE DEF m
    <2> QED
        BY <1>2, <1>g, <2>1
<1>4. CASE AcquireRunLease(e)
    <2>1. l.pc = "acquire" /\ (Goto(e, "seed") \/ Leave(e, "done"))
        BY <1>4 DEF AcquireRunLease, At
    <2> QED
        BY <1>1, <1>g, <2>1, StagesLeft
<1>5. CASE SeedBudget(e)
    <2> DEFINE m == [l EXCEPT !.pc = "renew", !.used = Journaled, !.tokens = Spent]
    <2>1. inv' = [inv EXCEPT ![e] = m] /\ m.pc = "renew" /\ l.pc = "seed"
        BY <1>0, <1>5 DEF SeedBudget, Local, At
    <2>2. StageLeft[m.pc] < StageLeft[l.pc]
        BY <2>1, StagesLeft
    <2> HIDE DEF m
    <2> QED
        BY <1>2, <2>1, <2>2
<1>6. CASE ReadNext(e)
    <2>0. l.pc = "next"
        BY <1>6 DEF ReadNext, At
    <2>1. CASE Leave(e, "release")
        BY <1>1, <2>0, <2>1, StagesLeft
    <2>2. CASE inv' = [inv EXCEPT ![e].pc = "renew", ![e].at = current]
        <3> DEFINE m == [l EXCEPT !.pc = "renew", !.at = current]
        <3>1. inv' = [inv EXCEPT ![e] = m] /\ m.pc = "renew"
            BY <1>0, <2>2 DEF Local
        <3>2. StageLeft[m.pc] < StageLeft[l.pc]
            BY <2>0, <3>1, StagesLeft
        <3> HIDE DEF m
        <3> QED
            BY <1>2, <3>1, <3>2
    <2> QED
        BY <1>6, <2>1, <2>2 DEF ReadNext
<1>7. CASE RenewBetweenSteps(e)
    <2>1. l.pc = "renew" /\ (Goto(e, "classify") \/ Leave(e, "release"))
        BY <1>7 DEF RenewBetweenSteps, At
    <2> QED
        BY <1>1, <1>g, <2>1, StagesLeft
<1>8. CASE ClassifyUnits(e)
    <2>0. l.pc = "classify"
        BY <1>8 DEF ClassifyUnits, At
    <2>1. ASSUME NEW work, inv' = [inv EXCEPT ![e].pc = "units", ![e].work = work]
          PROVE  Works(e)
        <3> DEFINE m == [l EXCEPT !.pc = "units", !.work = work]
        <3>1. inv' = [inv EXCEPT ![e] = m] /\ m.pc = "units"
            BY <1>0, <2>1 DEF Local
        <3>2. StageLeft[m.pc] < StageLeft[l.pc]
            BY <2>0, <3>1, StagesLeft
        <3> HIDE DEF m
        <3> QED
            BY <1>2, <3>1, <3>2
    <2>2. Settled(e, "failed") \/ \E work : inv' = [inv EXCEPT ![e].pc = "units", ![e].work = work]
        BY <1>8 DEF ClassifyUnits
    <2> QED
        BY <1>s, <2>0, <2>1, <2>2
<1>9. CASE SettleUnits(e)
    BY <1>9, <1>s DEF SettleUnits, At
<1>10. CASE ReleaseRunLease(e)
    <2>1. l.pc = "release" /\ Leave(e, "done")
        BY <1>10 DEF ReleaseRunLease, At
    <2> QED
        BY <1>1, <2>1, StagesLeft
<1> QED
    BY <1>3, <1>4, <1>5, <1>6, <1>7, <1>8, <1>9, <1>10

\* A unit of the pool is at another place.
LEMMA MoveWorks ==
    ASSUME DispatchInv, inv' \in [Engine -> Local], NEW e \in Engine, NEW i \in Item,
           NEW w \in InFlight \cup Returned, NEW m, inv' = [inv EXCEPT ![e] = m],
           m.pc = inv[e].pc, m.claimed = inv[e].claimed, m.tries = inv[e].tries,
           m.work = [inv[e].work EXCEPT ![i] = w],
           inv[e].work[i] \in InFlight,
           w \in Returned \/ PlaceLeft[w] < PlaceLeft[inv[e].work[i]]
    PROVE  Works(e)
<1> DEFINE l == inv[e]
<1>0. l \in Local /\ inv \in [Engine -> Local]
    BY DEF DispatchInv
<1>1. m \in Local
    BY <1>0
<1>2. m.work[i] = w /\ \A j \in Item \ {i} : m.work[j] = l.work[j]
    BY <1>0 DEF Local
<1>3. /\ l.work[i] \in InFlight /\ m.pc = l.pc /\ m.claimed = l.claimed
      /\ \A j \in Item \ {i} : m.work[j] = l.work[j] /\ m.tries[j] = l.tries[j]
      /\ \/ m.work[i] \in Returned
         \/ m.work[i] \in InFlight /\ m.tries[i] = l.tries[i] /\ PlaceLeft[m.work[i]] < PlaceLeft[l.work[i]]
    BY <1>2
<1>4. LessLeft(l, m)
    <2> HIDE DEF l
    <2> QED
        BY <1>0, <1>1, <1>3, UnitGoesOn
<1> QED
    BY <1>0, <1>4, WorksSo

\* What TryConsume leaves of the retries.
LEMMA TryConsumeTries ==
    ASSUME NEW l \in Local, NEW i \in Item
    PROVE  TryConsume(l, i).tries = l.tries
<1>1. [l EXCEPT !.tripped = TRUE, !.work[i] = "failed"].tries = l.tries
    BY DEF Local
<1>2. [l EXCEPT !.used = @ + 1, !.work[i] = "reserve"].tries = l.tries
    BY DEF Local
<1> QED
    BY <1>1, <1>2 DEF TryConsume

\* An attempt is concluded.
LEMMA ReturnGoesOn ==
    ASSUME NEW l \in Local, NEW i \in Item, NEW w \in Returned, l.work[i] \in InFlight
    PROVE  LessLeft(l, Return(AddTokens(l, i), i, w))
<1> DEFINE k == AddTokens(l, i)
           m == Return(k, i, w)
<1>1. PoolStep(l, m, i) /\ m.work[i] = w
    BY ReturnSteps
<1>2. PICK total \in Nat, tripped \in BOOLEAN :
        k \in Local /\ k = [l EXCEPT !.tokens = total, !.tripped = tripped]
    BY AddTokensType
<1>3. k.tries = l.tries
    BY <1>2 DEF Local
<1> HIDE DEF k
<1>4. m.tries = [k.tries EXCEPT ![i] = 0]
    BY <1>2 DEF Return, Local
<1> HIDE DEF m
<1>5. \A j \in Item \ {i} : m.work[j] = l.work[j] /\ m.tries[j] = l.tries[j]
    BY <1>1, <1>3, <1>4 DEF PoolStep, Local
<1>6. LessLeft(l, m)
    BY <1>1, <1>5, UnitGoesOn DEF PoolStep
<1> QED
    BY <1>6 DEF m, k

\* ... or made again.
LEMMA RetryGoesOn ==
    ASSUME NEW l \in Local, NEW i \in Item, l.work[i] \in InFlight, l.tries[i] < MaxRetry
    PROVE  LessLeft(l, Retry(AddTokens(l, i), i))
<1> DEFINE k == AddTokens(l, i)
           n == [k EXCEPT !.att[i] = 0, !.tries[i] = @ + 1, !.usage[i] = "free"]
           m == Retry(k, i)
<1>1. PoolStep(l, m, i) /\ m.work[i] \in {"failed", "reserve"}
    BY RetrySteps
<1>2. PICK total \in Nat, tripped \in BOOLEAN :
        k \in Local /\ k = [l EXCEPT !.tokens = total, !.tripped = tripped]
    BY AddTokensType
<1>3. k.tries = l.tries
    BY <1>2 DEF Local
<1> HIDE DEF k
<1>4. n \in Local /\ n.tries = [k.tries EXCEPT ![i] = k.tries[i] + 1]
    <2>1. n = [k EXCEPT !.att = [k.att EXCEPT ![i] = 0],
                        !.tries = [k.tries EXCEPT ![i] = k.tries[i] + 1],
                        !.usage = [k.usage EXCEPT ![i] = "free"]]
        OBVIOUS
    <2>2. /\ [k.att EXCEPT ![i] = 0] \in [Item -> Nat]
          /\ [k.tries EXCEPT ![i] = k.tries[i] + 1] \in [Item -> 0..MaxRetry]
          /\ [k.usage EXCEPT ![i] = "free"] \in [Item -> Usage]
        <3>1. k.tries \in [Item -> 0..MaxRetry] /\ k.tries[i] < MaxRetry
            BY <1>2, <1>3 DEF Local
        <3>2. k.tries[i] + 1 \in 0..MaxRetry
            BY <3>1
        <3> QED
            BY <1>2, <3>1, <3>2 DEF Local
    <2> QED
        BY <1>2, <2>1, <2>2, ZenonT(60) DEF Local
<1> HIDE DEF n
<1>5. m.tries = n.tries
    BY <1>4, TryConsumeTries DEF Retry, n
<1> HIDE DEF m
<1>6. /\ \A j \in Item \ {i} : m.work[j] = l.work[j] /\ m.tries[j] = l.tries[j]
      /\ m.tries[i] = l.tries[i] + 1
    BY <1>1, <1>3, <1>4, <1>5 DEF PoolStep, Local
<1>7. LessLeft(l, m)
    BY <1>1, <1>6, UnitGoesOn DEF PoolStep, InFlight, Returned
<1> QED
    BY <1>7 DEF m, k

\* What the pool and its units do.
LEMMA UnitStepWorks ==
    ASSUME DispatchInv, inv' \in [Engine -> Local], NEW e \in Engine,
           \/ ClaimUnit(e)
           \/ \E i \in Item : ReserveUnit(e, i) \/ NothingDispatched(e, i) \/ DispatchUnit(e, i) \/ FinishUnit(e, i)
    PROVE  Works(e)
<1> DEFINE l == inv[e]
<1>0. l \in Local /\ inv \in [Engine -> Local]
    BY DEF DispatchInv
<1>1. ASSUME NEW i \in Item, NEW w \in InFlight \cup Returned, NEW m, inv' = [inv EXCEPT ![e] = m],
             m.pc = l.pc, m.claimed = l.claimed, m.tries = l.tries,
             m.work = [l.work EXCEPT ![i] = w], l.work[i] \in InFlight,
             w \in Returned \/ PlaceLeft[w] < PlaceLeft[l.work[i]]
      PROVE  Works(e)
    BY <1>1, MoveWorks
<1>2. CASE ClaimUnit(e)
    <2> DEFINE i == l.claimed + 1
               k == [l EXCEPT !.claimed = i]
               m == IF k.work[i] = "reusable" THEN [k EXCEPT !.work[i] = "ok"] ELSE TryConsume(k, i)
    <2>1. inv' = [inv EXCEPT ![e] = m] /\ l.claimed < NUnits
        BY <1>2 DEF ClaimUnit
    <2>a. l.claimed \in 0..NUnits
        BY <1>0 DEF Local
    <2>b. i \in Item
        BY <2>a, <2>1
    <2> HIDE DEF i, l
    <2>2. i \in Item /\ k \in Local /\ k.pc = l.pc /\ k.claimed = l.claimed + 1
        <3>1. i \in 0..NUnits
            BY <2>b
        <3> QED
            BY <1>0, <2>b, <3>1 DEF Local, i
    <2> USE DEF l
    <2> HIDE DEF k, i
    <2>3. TryConsume(k, i).pc = k.pc /\ TryConsume(k, i).claimed = k.claimed
        BY <2>2, TryConsumeSteps DEF PoolStep
    <2>4. [k EXCEPT !.work[i] = "ok"].pc = k.pc /\ [k EXCEPT !.work[i] = "ok"].claimed = k.claimed
        BY <2>2 DEF Local
    <2>5. m.pc = l.pc /\ m.claimed = l.claimed + 1
        BY <2>2, <2>3, <2>4
    <2>6. l.claimed \in Nat
        BY <1>0 DEF Local
    <2> HIDE DEF m
    <2>7. LessLeft(l, m)
        BY <2>5, <2>6 DEF LessLeft
    <2> QED
        BY <1>0, <2>1, <2>7, WorksSo
<1>3. ASSUME NEW i \in Item, ReserveUnit(e, i)
      PROVE  Works(e)
    <2> DEFINE n == ReservedAttempt(Key(e, i))
               m == [l EXCEPT !.work[i] = "dispatch", !.att[i] = n]
    <2>0. /\ inv' = [inv EXCEPT ![e].work[i] = "dispatch", ![e].att[i] = n]
          /\ inv[e].work[i] = "reserve"
        BY <1>3, Zenon DEF ReserveUnit
    <2> HIDE DEF n
    <2>1a. inv' = [inv EXCEPT ![e] = m]
        BY <2>0, Zenon
    <2>1. inv' = [inv EXCEPT ![e] = m] /\ l.work[i] = "reserve"
        BY <2>0, <2>1a
    <2>2. /\ m.pc = l.pc /\ m.claimed = l.claimed /\ m.tries = l.tries
          /\ m.work = [l.work EXCEPT ![i] = "dispatch"]
        BY <1>0 DEF Local
    <2>3. /\ "dispatch" \in InFlight \cup Returned /\ "reserve" \in InFlight
          /\ PlaceLeft["dispatch"] < PlaceLeft["reserve"]
        BY PlacesLeft DEF InFlight
    <2> HIDE DEF m
    <2> QED
        BY <1>1, <2>1, <2>2, <2>3
<1>4. ASSUME NEW i \in Item, NothingDispatched(e, i)
      PROVE  Works(e)
    <2> DEFINE m == [l EXCEPT !.work[i] = "failed"]
    <2>1. inv' = [inv EXCEPT ![e] = m] /\ l.work[i] = "reserve"
        BY <1>4 DEF NothingDispatched
    <2>2. /\ m.pc = l.pc /\ m.claimed = l.claimed /\ m.tries = l.tries
          /\ m.work = [l.work EXCEPT ![i] = "failed"]
        BY <1>0 DEF Local
    <2>3. "failed" \in Returned /\ "reserve" \in InFlight
        BY DEF InFlight, Returned
    <2> HIDE DEF m
    <2> QED
        BY <1>1, <2>1, <2>2, <2>3
<1>5. ASSUME NEW i \in Item, DispatchUnit(e, i)
      PROVE  Works(e)
    <2>1. PICK answer \in {"succeeded", "erred"}, use \in Usage :
            inv' = [inv EXCEPT ![e].work[i] = answer, ![e].usage[i] = use]
        BY <1>5 DEF DispatchUnit
    <2> DEFINE m == [l EXCEPT !.work[i] = answer, !.usage[i] = use]
    <2>2. inv' = [inv EXCEPT ![e] = m] /\ l.work[i] = "dispatch"
        <3>1. l.work[i] = "dispatch"
            BY <1>5 DEF DispatchUnit
        <3> QED
            BY <1>0, <2>1, <3>1 DEF Local
    <2>3. /\ m.pc = l.pc /\ m.claimed = l.claimed /\ m.tries = l.tries
          /\ m.work = [l.work EXCEPT ![i] = answer]
        BY <1>0 DEF Local
    <2>4. /\ answer \in InFlight \cup Returned /\ "dispatch" \in InFlight
          /\ PlaceLeft[answer] < PlaceLeft["dispatch"]
        BY PlacesLeft DEF InFlight, Answered
    <2> HIDE DEF m
    <2> QED
        BY <1>1, <2>2, <2>3, <2>4
<1>6. ASSUME NEW i \in Item, FinishUnit(e, i)
      PROVE  Works(e)
    <2>1. l.work[i] \in Answered /\ l.work[i] \in InFlight
        BY <1>6 DEF FinishUnit, InFlight
    <2>2. ASSUME NEW w \in Returned, inv' = [inv EXCEPT ![e] = Return(AddTokens(l, i), i, w)]
          PROVE  Works(e)
        <3>1. LessLeft(l, Return(AddTokens(l, i), i, w))
            <4> HIDE DEF l
            <4> QED
                BY <1>0, <2>1, ReturnGoesOn
        <3> QED
            BY <1>0, <2>2, <3>1, WorksSo
    <2>3. CASE /\ AddTokens(l, i).tries[i] < MaxRetry
               /\ inv' = [inv EXCEPT ![e] = Retry(AddTokens(l, i), i)]
        <3>1. AddTokens(l, i).tries = l.tries
            BY <1>0 DEF AddTokens, Local
        <3>2. LessLeft(l, Retry(AddTokens(l, i), i))
            <4> HIDE DEF l
            <4> QED
                BY <1>0, <2>1, <2>3, <3>1, RetryGoesOn
        <3> QED
            BY <1>0, <2>3, <3>2, WorksSo
    <2>4. Verdict(l.work[i]) \in Returned /\ "unwritten" \in Returned
        BY <2>1 DEF Verdict, Answered, Returned
    <2>5. \/ inv' = [inv EXCEPT ![e] = Return(AddTokens(l, i), i, Verdict(l.work[i]))]
          \/ inv' = [inv EXCEPT ![e] = Return(AddTokens(l, i), i, "unwritten")]
          \/ /\ AddTokens(l, i).tries[i] < MaxRetry
             /\ inv' = [inv EXCEPT ![e] = Retry(AddTokens(l, i), i)]
        BY <1>6 DEF FinishUnit, Conclude
    <2> QED
        BY <2>2, <2>3, <2>4, <2>5
<1> QED
    BY <1>2, <1>3, <1>4, <1>5, <1>6

\* The units that are child workflows.
LEMMA ChildStepWorks ==
    ASSUME DispatchInv, inv' \in [Engine -> Local], NEW e \in Engine, ChildStep(e)
    PROVE  Works(e)
<1> DEFINE l == inv[e]
<1>0. l \in Local /\ inv \in [Engine -> Local]
    BY DEF DispatchInv
<1> SUFFICES ASSUME NEW i \in Item,
                    \/ PublishChild(e, i) \/ PublishFails(e, i) \/ BeginDrive(e, i)
                    \/ EndDrive(e, i) \/ DriveThrows(e, i) \/ RereadChild(e, i)
             PROVE  Works(e)
    BY DEF ChildStep
<1>1. ASSUME NEW v \in InFlight, l.work[i] = v, NEW w \in InFlight, Comes(e, i, w),
             PlaceLeft[w] < PlaceLeft[v]
      PROVE  Works(e)
    <2> DEFINE m == [l EXCEPT !.work[i] = w]
    <2>1. inv' = [inv EXCEPT ![e] = m]
        BY <1>1 DEF Comes
    <2>2. /\ m.pc = l.pc /\ m.claimed = l.claimed /\ m.tries = l.tries
          /\ m.work = [l.work EXCEPT ![i] = w]
        BY <1>0 DEF Local
    <2> HIDE DEF m
    <2> QED
        BY <1>1, <2>1, <2>2, MoveWorks
<1>2. {"dispatch", "drive", "driving", "reread", "succeeded", "erred", "childBlocked"} \subseteq InFlight
    BY DEF InFlight, Answered
<1>3. /\ PlaceLeft["dispatch"] = 5 /\ PlaceLeft["drive"] = 4 /\ PlaceLeft["driving"] = 3
      /\ PlaceLeft["reread"] = 2 /\ PlaceLeft["succeeded"] = 1 /\ PlaceLeft["erred"] = 1
      /\ PlaceLeft["childBlocked"] = 1
    BY DEF PlaceLeft
<1>4. CASE PublishChild(e, i) \/ PublishFails(e, i)
    <2>1. /\ l.work[i] = "dispatch"
          /\ Comes(e, i, "drive") \/ Comes(e, i, "reread") \/ Comes(e, i, "erred")
        BY <1>4 DEF PublishChild, PublishFails, Stands
    <2> QED
        BY <1>1, <1>2, <1>3, <2>1
<1>5. CASE BeginDrive(e, i)
    <2>1. /\ l.work[i] = "drive"
          /\ Comes(e, i, "driving") \/ Comes(e, i, "reread") \/ Comes(e, i, "erred")
        BY <1>5 DEF BeginDrive, Stands
    <2> QED
        BY <1>1, <1>2, <1>3, <2>1
<1>6. CASE EndDrive(e, i) \/ DriveThrows(e, i)
    <2>1. l.work[i] = "driving" /\ (Comes(e, i, "reread") \/ Comes(e, i, "erred"))
        BY <1>6 DEF EndDrive, DriveThrows, Stands
    <2> QED
        BY <1>1, <1>2, <1>3, <2>1
<1>7. CASE RereadChild(e, i)
    <2>1. /\ l.work[i] = "reread"
          /\ Comes(e, i, "succeeded") \/ Comes(e, i, "erred") \/ Comes(e, i, "childBlocked")
        BY <1>7 DEF RereadChild, Stands
    <2> QED
        BY <1>1, <1>2, <1>3, <2>1
<1> QED
    BY <1>4, <1>5, <1>6, <1>7

\* However its units fail, are retried, are refused or are taken over, and whatever
\* people do to the run and to the children, an invocation cannot go on for ever: it can
\* only finish a step, of which there are so many, and which stay finished.
THEOREM InvocationWorkBounded == ChildSpec => InvocationWorkIsBounded /\ FinishedStepIsFinal
<1> DEFINE Bounded(e) == \/ inv'[e] = inv[e]
                         \/ inv'[e] = [inv[e] EXCEPT !.stop = TRUE] /\ ~inv[e].stop
                         \/ LessLeft(inv[e], inv'[e])
                         \/ Finishes
<1>1. ASSUME ChildInv, ChildInv', NEW e \in Engine, InvocationStep(e) \/ HeartbeatTick(e) \/ StopSignal(e)
      PROVE  \A d \in Engine : Bounded(d)
    <2>0. DispatchInv /\ inv \in [Engine -> Local] /\ inv' \in [Engine -> Local]
        BY <1>1 DEF ChildInv, DispatchInv
    <2>1. CASE Works(e)
        BY <2>1 DEF Works
    <2>2. CASE CompleteStep(e)
        <3>1. CASE Leave(e, "release")
            <4>1. StageLeft["release"] < StageLeft[inv[e].pc]
                BY <2>2, StagesLeft DEF CompleteStep, At
            <4>2. Works(e)
                BY <2>0, <3>1, <4>1, LeaveWorks
            <4> QED
                BY <2>1, <4>2
        <3>2. CASE inv[e].verdict = "completed" /\ AdvanceSpine(e, inv[e].at, inv[e].verdict)
            <4>1. inv[e].at \in Steps /\ step \in [Steps -> StepStatus]
                BY <2>0, <2>2 DEF DispatchInv, LocalInv, CompleteStep, At, SpineTypeOK
            <4>2. step[inv[e].at] = "pending" /\ step'[inv[e].at] = "completed"
                BY <3>2, <4>1 DEF AdvanceSpine, CanAdvance
            <4>3. Finishes
                BY <4>1, <4>2 DEF Finishes
            <4> QED
                BY <4>3
        <3> QED
            BY <2>2, <3>1, <3>2 DEF CompleteStep
    <2>3. CASE HeartbeatTick(e)
        BY <2>3 DEF HeartbeatTick
    <2>4. CASE StopSignal(e)
        <3>1. inv' = [inv EXCEPT ![e] = [inv[e] EXCEPT !.stop = TRUE]] /\ ~inv[e].stop
            BY <2>4 DEF StopSignal
        <3> QED
            BY <2>0, <3>1
    <2>5. InvocationStep(e) => CompleteStep(e) \/ Works(e)
        BY <2>0, StageStepWorks, UnitStepWorks DEF InvocationStep
    <2> QED
        BY <1>1, <2>1, <2>2, <2>3, <2>4, <2>5
<1>2. ASSUME ChildInv, ChildInv', ChildNext
      PROVE  \A d \in Engine : Bounded(d)
    <2>1. ASSUME NEW e \in Engine, ChildStep(e)
          PROVE  \A d \in Engine : Bounded(d)
        BY <1>2, <2>1, ChildStepWorks DEF Works, ChildInv, DispatchInv
    <2>2. CASE Operator \/ \E u \in ChildUnit : ChildOutside(u)
        <3>1. inv' = inv
            BY <2>2, OutsideIsOutside DEF Operator, dispatchVars
        <3> QED
            BY <3>1
    <2> HIDE DEF Bounded
    <2> QED
        BY <1>1, <1>2, <2>1, <2>2 DEF ChildNext, DispatchNext
<1>3. ChildInv /\ ChildInv' /\ [ChildNext]_allVars =>
        [\A e \in Engine : \/ inv'[e] = inv[e]
                           \/ inv'[e] = [inv[e] EXCEPT !.stop = TRUE] /\ ~inv[e].stop
                           \/ LessLeft(inv[e], inv'[e])
                           \/ Finishes]_allVars
    BY <1>2
<1>4. ChildSpec => InvocationWorkIsBounded
    BY <1>3, ChildInvCorrect, PTL DEF ChildSpec, InvocationWorkIsBounded
<1>6. JournalSpec => SpineSpec
    <2>1. [(SpineNext /\ UNCHANGED journalVars) \/ JournalNext]_<<spineVars, journalVars>> => [SpineNext]_spineVars
        BY DEF JournalNext, ReserveUnitAttempt, FinishUnitAttempt
    <2> QED
        BY <2>1, PTL DEF JournalSpec, SpineSpec
<1> QED
    BY <1>4, <1>6, ChildImplementsJournal, FinishedStepsStay, PTL

-----------------------------------------------------------------------------
(* The pool never stalls.                                                  *)

\* Only the units that are child workflows are with a child.
ChildrenOut ==
    \A e \in Engine, i \in Item : inv[e].work[i] \in Out => Key(e, i) \in ChildUnit

\* What the guards of a unit in flight ask for, one disjunct for each action of it.
\* The refused reservation, the refused publication and the write that fails need nothing.
UnitCanGoOn(e, i) ==
    LET w == inv[e].work[i]
        u == Key(e, i)
    IN \/ w \in {"reserve"} \cup Answered
       \/ w = "dispatch" /\ (u \in Plain \/ u \in ChildUnit)
       \/ /\ u \in ChildUnit /\ Published(u)
          /\ \/ w \in {"drive", "reread"} /\ Status(u) \in RunStatus
             \/ w = "driving" /\ Status(u) = "active" /\ driver[u] \in {e, None}
             \/ w = "driving" /\ (Status(u) # "active" \/ driver[u] # e)
\* What the guard of a worker that looks for a unit asks for.
WorkerCanClaim(e) ==
    inv[e].claimed < NUnits /\ ~Aborted(inv[e]) /\ Cardinality(Running(e)) < Width

\* No unit in flight waits for another one, for a worker, or for whoever else drives
\* its child; and when none is left, somebody claims the next one or the step is over.
PoolNeverStalls ==
    \A e \in Engine : At(e, "units") =>
        /\ \A i \in Running(e) : UnitCanGoOn(e, i)
        /\ Running(e) = {} => WorkerCanClaim(e) \/ PoolDone(e)

\* A unit gets to a child by a step of the child's only.
LEMMA ChildrenOutInductive ==
    /\ ChildInit => ChildrenOut
    /\ ChildInv /\ ChildrenOut /\ [ChildNext]_allVars => ChildrenOut'
<1>1. ChildInit => ChildrenOut
    <2> SUFFICES ASSUME ChildInit, NEW e \in Engine, NEW i \in Item
                 PROVE  inv[e].work[i] \notin Out
        BY DEF ChildrenOut
    <2>1. inv[e].work[i] = "todo"
        BY DEF ChildInit, DispatchInit, Fresh, NoWork
    <2> QED
        BY <2>1 DEF Out
<1>2. ASSUME ChildInv, ChildrenOut, ChildNext
      PROVE  ChildrenOut'
    <2>0. DispatchInv /\ inv \in [Engine -> Local]
        BY <1>2 DEF ChildInv, DispatchInv
    <2>a. \A e \in Engine : LocalInv(inv'[e])
        BY <1>2, ChildInvInductive DEF ChildInv, DispatchInv
    <2>1. ASSUME NEW e \in Engine, InvocationStep(e) \/ HeartbeatTick(e) \/ StopSignal(e)
          PROVE  ChildrenOut'
        <3>1. TracedStep(e)
            BY <2>0, <2>1, DispatchTraced
        <3>2. ASSUME NEW i \in Item, inv'[e].work[i] \in Out
              PROVE  inv[e].at = inv'[e].at /\ inv[e].work[i] = inv'[e].work[i]
            <4>1. inv'[e].pc \in AtWork
                BY <2>a, <3>2 DEF LocalInv, AtWork, Out, InFlight
            <4> QED
                BY <3>1, <3>2, <4>1 DEF TracedStep, Traced
        <3> QED
            BY <1>2, <3>1, <3>2 DEF TracedStep, ChildrenOut, Key
    <2>2. ASSUME NEW e \in Engine, NEW i \in Item, NEW w, At(e, "units"), Comes(e, i, w),
                 Key(e, i) \in ChildUnit
          PROVE  ChildrenOut'
        <3> DEFINE m == [inv[e] EXCEPT !.work[i] = w]
        <3>1. inv' = [inv EXCEPT ![e] = m]
            BY <2>2 DEF Comes
        <3>2. m.at = inv[e].at /\ \A j \in Item \ {i} : m.work[j] = inv[e].work[j]
            BY <2>0 DEF Local
        <3> HIDE DEF m
        <3> QED
            BY <1>2, <2>0, <2>2, <3>1, <3>2 DEF ChildrenOut, Key
    <2>3. ASSUME NEW e \in Engine, ChildStep(e)
          PROVE  ChildrenOut'
        BY <2>2, <2>3 DEF ChildStep, PublishChild, PublishFails, BeginDrive, EndDrive,
            DriveThrows, RereadChild, Stands
    <2>4. CASE inv' = inv
        BY <1>2, <2>4 DEF ChildrenOut, Key
    <2>5. Operator \/ (\E u \in ChildUnit : ChildOutside(u)) => inv' = inv
        BY OutsideIsOutside DEF Operator, dispatchVars
    <2> QED
        BY <1>2, <2>1, <2>3, <2>4, <2>5 DEF ChildNext, DispatchNext
<1>3. UNCHANGED allVars /\ ChildrenOut => ChildrenOut'
    BY DEF allVars, dispatchVars, ChildrenOut, Key
<1> QED
    BY <1>1, <1>2, <1>3

\* Whoever resumes, abandons or drives a child, and whatever is refused, aborted or left
\* unclaimed, the pool of an invocation can go on until its step is over.
THEOREM PoolsNeverStall == ChildSpec => []PoolNeverStalls
<1>1. ASSUME ChildInv, ChildrenOut
      PROVE  PoolNeverStalls
    <2>0. DispatchInv /\ ChildTypes /\ inv \in [Engine -> Local]
        BY <1>1 DEF ChildInv, DispatchInv
    <2>1. ASSUME NEW e \in Engine, At(e, "units"), NEW i \in Running(e)
          PROVE  UnitCanGoOn(e, i)
        <3> DEFINE w == inv[e].work[i]
                   u == Key(e, i)
        <3>1. i \in Item /\ w \in InFlight
            BY <2>1 DEF Running
        <3>2. u \in Unit
            <4>1. inv[e].at \in Steps
                BY <2>0, <2>1 DEF DispatchInv, LocalInv, At
            <4> QED
                BY <3>1, <4>1 DEF Key
        <3>3. CASE w \in Out
            <4>1. u \in ChildUnit
                BY <1>1, <3>1, <3>3 DEF ChildrenOut
            <4>2. Published(u)
                BY <1>1, <2>1, <3>1, <3>3, <4>1 DEF ChildInv, WorkOK, Out, At, Key
            <4>3. children[u] \in Seq(RunStatus) /\ children[u] # <<>>
                BY <2>0, <4>1, <4>2 DEF ChildTypes, Published
            <4>4. Status(u) \in RunStatus
                BY <4>3, EmptySeq, LenProperties DEF Status
            <4> QED
                BY <3>3, <4>1, <4>2, <4>4 DEF UnitCanGoOn, Out
        <3>4. CASE w \notin Out
            BY <3>1, <3>2, <3>4 DEF UnitCanGoOn, InFlight, Out, ChildUnit
        <3> QED
            BY <3>3, <3>4
    <2>2. ASSUME NEW e \in Engine, At(e, "units"), Running(e) = {}
          PROVE  WorkerCanClaim(e) \/ PoolDone(e)
        <3>1. Cardinality(Running(e)) < Width
            BY <2>2, FS_EmptySet
        <3>2. inv[e].claimed \in 0..NUnits
            BY <2>0 DEF Local
        <3> QED
            BY <2>2, <3>1, <3>2 DEF WorkerCanClaim, PoolDone
    <2> QED
        BY <2>1, <2>2 DEF PoolNeverStalls
<1> QED
    BY <1>1, ChildrenOutInductive, ChildInvCorrect, PTL DEF ChildSpec
=============================================================================
