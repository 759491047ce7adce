------------------------- MODULE WorkflowSpine_proofs -------------------------
(***************************************************************************)
(* Proofs about WorkflowSpine for every plan length and every set of       *)
(* engines and resumers.  SpineInv holds whatever they do; ResumeInv adds  *)
(* what holds when resumes do not overlap (SingleResumer).                 *)
(***************************************************************************)
EXTENDS WorkflowSpine, WellFoundedInduction, TLAPS

-----------------------------------------------------------------------------
(* First.                                                                  *)

\* A non-empty set of steps has a least member, and First returns it.
LEMMA FirstIsLeast ==
    ASSUME NEW S \in SUBSET Steps, S # {}
    PROVE  First(S) \in S /\ \A t \in S : First(S) =< t
<1>1. S \subseteq Nat
    BY SpineAssumption DEF Steps
<1>2. PICK x \in S : \A y \in S : ~(<<y, x>> \in OpToRel(<, Nat))
    BY <1>1, NatLessThanWellFounded, WFMin
<1>3. \A t \in S : x =< t
    <2> SUFFICES ASSUME NEW t \in S, t < x
                 PROVE  FALSE
        BY <1>1
    <2>1. <<t, x>> \in OpToRel(<, Nat)
        BY <1>1 DEF OpToRel
    <2> QED
        BY <2>1, <1>2
<1> QED
    BY <1>3 DEF First

\* What deriveRunState finds is a step of the set it looks in.
LEMMA DerivedStateType ==
    ASSUME NEW rows \in [Steps -> StepStatus]
    PROVE  /\ DerivedCurrent(rows) \in Steps \cup {NoStep}
           /\ DerivedStatus(rows) \in RunStatus
<1>1. UnresolvedSteps(rows) \in SUBSET Steps /\ PendingSteps(rows) \in SUBSET Steps
    BY DEF UnresolvedSteps, PendingSteps
<1>2. DerivedCurrent(rows) \in Steps \cup {NoStep}
    BY <1>1, FirstIsLeast DEF DerivedCurrent
<1>3. DerivedStatus(rows) \in RunStatus
    <2>1. CASE UnresolvedSteps(rows) # {}
        <3>1. First(UnresolvedSteps(rows)) \in UnresolvedSteps(rows)
            BY <1>1, <2>1, FirstIsLeast
        <3>2. rows[First(UnresolvedSteps(rows))] \in Unresolved
            BY <3>1 DEF UnresolvedSteps
        <3> QED
            BY <2>1, <3>2 DEF DerivedStatus, Unresolved, RunStatus
    <2>2. CASE UnresolvedSteps(rows) = {}
        BY <2>2 DEF DerivedStatus, RunStatus
    <2> QED
        BY <2>1, <2>2
<1> QED
    BY <1>2, <1>3

-----------------------------------------------------------------------------
(* Type correctness.                                                       *)

\* What every statement keeps, one by one.
LEMMA SpineTypeInductive ==
    /\ SpineInit => SpineTypeOK
    /\ SpineTypeOK /\ [SpineNext]_spineVars => SpineTypeOK'
<1>1. SpineInit => SpineTypeOK
    <2>1. 1 \in Steps
        BY SpineAssumption DEF Steps
    <2> QED
        BY <2>1 DEF SpineInit, SpineTypeOK, RunStatus, StepStatus
<1>2. SpineTypeOK /\ [SpineNext]_spineVars => SpineTypeOK'
    <2> SUFFICES ASSUME SpineTypeOK, [SpineNext]_spineVars
                 PROVE  SpineTypeOK'
        OBVIOUS
    <2> USE DEF SpineTypeOK
    <2>1. ASSUME NEW e \in Engine, AcquireEngineLease(e)
          PROVE  SpineTypeOK'
        BY <2>1 DEF AcquireEngineLease
    <2>2. ASSUME NEW e \in Engine, RenewEngineLease(e)
          PROVE  SpineTypeOK'
        BY <2>2 DEF RenewEngineLease
    <2>3. ASSUME NEW e \in Engine, ReleaseEngineLease(e)
          PROVE  SpineTypeOK'
        BY <2>3 DEF ReleaseEngineLease
    <2>4. ASSUME NEW e \in Engine, NEW s \in Steps, NEW outcome \in StepStatus \ {"pending"},
                 AdvanceSpine(e, s, outcome)
          PROVE  SpineTypeOK'
        <3>1. step' \in [Steps -> StepStatus]
            BY <2>4 DEF AdvanceSpine
        <3>2. current' \in Steps \cup {NoStep} /\ runStatus' \in RunStatus
            BY <2>4, <3>1, DerivedStateType DEF AdvanceSpine
        <3> QED
            BY <2>4, <3>1, <3>2 DEF AdvanceSpine, HolderAfterRead
    <2>5. ASSUME NEW r \in Resumer, ResumeRead(r)
          PROVE  SpineTypeOK'
        BY <2>5 DEF ResumeRead, HolderAfterRead
    <2>6. ASSUME NEW r \in Resumer, ResumeCommit(r)
          PROVE  SpineTypeOK'
        <3>1. step' \in [Steps -> StepStatus]
            BY <2>6 DEF ResumeCommit, StepStatus
        <3> QED
            BY <2>6, <3>1 DEF ResumeCommit, RunStatus
    <2>7. CASE LeaseExpires
        BY <2>7 DEF LeaseExpires
    <2>8. CASE ReclaimExpiredLease
        BY <2>8 DEF ReclaimExpiredLease
    <2>9. CASE AbandonRun
        BY <2>9 DEF AbandonRun, HolderAfterRead, RunStatus
    <2>10. CASE UNCHANGED spineVars
        BY <2>10 DEF spineVars
    <2> QED
        BY <2>1, <2>2, <2>3, <2>4, <2>5, <2>6, <2>7, <2>8, <2>9, <2>10 DEF SpineNext
<1> QED
    BY <1>1, <1>2

\* Every column of the rows keeps a value that its CHECK constraint allows.
THEOREM SpineTypeCorrect == SpineSpec => []SpineTypeOK
BY SpineTypeInductive, PTL DEF SpineSpec

-----------------------------------------------------------------------------
(* The walk over the plan, whatever engines and resumers do.               *)

\* What completeWorkflowStep's transaction does to the rows: the steps before
\* the one it completes are finished and those after it pending, so the derived
\* cursor stays on an unresolved step and moves by one past a finished one.
LEMMA AdvanceMovesByOne ==
    ASSUME SpineInv, NEW e \in Engine, NEW s \in Steps,
           NEW outcome \in StepStatus \ {"pending"}, AdvanceSpine(e, s, outcome)
    PROVE  /\ current = s /\ runStatus = "active"
           /\ \A t \in Steps : t < s => step[t] \in Finished
           /\ \A t \in Steps : t > s => step[t] = "pending"
           /\ step' = [step EXCEPT ![s] = outcome] /\ step[s] = "pending"
           /\ outcome \in Unresolved => current' = s /\ runStatus' = outcome
           /\ outcome \in Finished /\ s < NSteps => current' = s + 1 /\ runStatus' = "active"
           /\ outcome \in Finished /\ s = NSteps => current' = NoStep /\ runStatus' = "completed"
<1> USE DEF SpineInv
<1>0. /\ s \in Nat /\ NSteps \in Nat /\ s =< NSteps /\ 1 =< s
      /\ \A t \in Steps : t \in Nat /\ 1 =< t /\ t =< NSteps
    BY SpineAssumption DEF Steps
<1>1. current = s /\ runStatus = "active" /\ step[s] = "pending"
      /\ step' = [step EXCEPT ![s] = outcome]
      /\ current' = DerivedCurrent(step') /\ runStatus' = DerivedStatus(step')
    BY DEF AdvanceSpine, CanAdvance
<1>2. \A t \in Steps : t < s => step[t] \in Finished
    BY <1>1 DEF CursorSplitsSpine
<1>3. \A t \in Steps : t > s => step[t] = "pending"
    <2> SUFFICES ASSUME NEW t \in Steps, t > s, step[t] # "pending"
                 PROVE  FALSE
        OBVIOUS
    <2>1. s < t
        BY <1>0
    <2>2. step[s] \in Finished
        BY <2>1 DEF SpineInOrder
    <2> QED
        BY <1>1, <2>2 DEF Finished
<1>4. \A t \in Steps : step'[t] = IF t = s THEN outcome ELSE step[t]
    BY <1>1 DEF SpineTypeOK
<1>5. \A t \in Steps : t # s => step'[t] \notin Unresolved
    BY <1>0, <1>2, <1>3, <1>4 DEF Finished, Unresolved
<1>6. \A t \in Steps : t < s => step'[t] \in Finished
    BY <1>0, <1>2, <1>4
<1>7. ASSUME outcome \in Unresolved
      PROVE  current' = s /\ runStatus' = outcome
    <2>1. UnresolvedSteps(step') = {s}
        BY <1>4, <1>5, <1>7 DEF UnresolvedSteps
    <2>2. First({s}) = s
        BY FirstIsLeast
    <2> QED
        BY <1>1, <1>4, <2>1, <2>2 DEF DerivedCurrent, DerivedStatus
<1>8. ASSUME outcome \in Finished
      PROVE  /\ UnresolvedSteps(step') = {}
             /\ PendingSteps(step') = {t \in Steps : t > s}
    <2>1. step'[s] \notin Unresolved /\ step'[s] # "pending"
        BY <1>4, <1>8 DEF Finished, Unresolved
    <2>2. UnresolvedSteps(step') = {}
        BY <1>5, <2>1 DEF UnresolvedSteps
    <2>3. \A t \in Steps : step'[t] = "pending" <=> t > s
        BY <1>0, <1>3, <1>4, <1>6, <2>1 DEF Finished
    <2> QED
        BY <2>2, <2>3 DEF PendingSteps
<1>9. ASSUME outcome \in Finished, s < NSteps
      PROVE  current' = s + 1 /\ runStatus' = "active"
    <2> DEFINE P == {t \in Steps : t > s}
    <2>1. s + 1 \in P /\ P \in SUBSET Steps /\ \A t \in P : s + 1 =< t
        BY <1>0, <1>9 DEF Steps
    <2>2. First(P) \in P /\ \A t \in P : First(P) =< t
        BY <2>1, FirstIsLeast
    <2>3. First(P) = s + 1
        <3>1. PICK f \in Steps : f = First(P) /\ f =< s + 1 /\ s + 1 =< f
            BY <2>1, <2>2
        <3>2. f = s + 1
            BY <1>0, <3>1
        <3> QED
            BY <3>1, <3>2
    <2> QED
        BY <1>1, <1>8, <1>9, <2>1, <2>3 DEF DerivedCurrent, DerivedStatus
<1>10. ASSUME outcome \in Finished, s = NSteps
       PROVE  current' = NoStep /\ runStatus' = "completed"
    <2>1. {t \in Steps : t > s} = {}
        <3>1. \A t \in Steps : ~(t > s)
            BY <1>0, <1>10
        <3> QED
            BY <3>1
    <2> QED
        BY <1>1, <1>8, <1>10, <2>1 DEF DerivedCurrent, DerivedStatus
<1> QED
    BY <1>1, <1>2, <1>3, <1>7, <1>9, <1>10

\* Reopening touches the current step only, and only if it is unresolved.
LEMMA ResumeReopensCurrent ==
    ASSUME SpineInv, NEW r \in Resumer, ResumeCommit(r)
    PROVE  /\ current' = current /\ runStatus' = "active"
           /\ step' \in [Steps -> StepStatus]
           /\ \A s \in Steps : step'[s] # step[s] =>
                s = current /\ step[s] \in Unresolved /\ step'[s] = "pending"
<1>1. current' = current /\ runStatus' = "active"
    BY DEF ResumeCommit
<1>2. step' = [s \in Steps |->
                IF s = snap[r] /\ step[s] \in Unresolved THEN "pending" ELSE step[s]]
    BY DEF ResumeCommit
<1>3. step' \in [Steps -> StepStatus]
    BY <1>2 DEF SpineInv, SpineTypeOK, StepStatus
<1>4. \A s \in Steps : step'[s] # step[s] => step[s] \in Unresolved /\ step'[s] = "pending"
    BY <1>2
<1> QED
    BY <1>1, <1>3, <1>4 DEF SpineInv, UnresolvedIsCurrent

\* A step that keeps the rows and the cursor keeps what relates them.
LEMMA SameRowsSameOrder ==
    ASSUME SpineInv, UNCHANGED <<step, current>>
    PROVE  SpineInOrder' /\ UnresolvedIsCurrent' /\ CursorSplitsSpine'
BY DEF SpineInv, SpineInOrder, UnresolvedIsCurrent, CursorSplitsSpine

\* SpineInv holds at first and every step of every process keeps it.
LEMMA SpineInvInductive ==
    /\ SpineInit => SpineInv
    /\ SpineInv /\ [SpineNext]_spineVars => SpineInv'
<1>1. SpineInit => SpineInv
    <2> SUFFICES ASSUME SpineInit
                 PROVE  SpineInv
        OBVIOUS
    <2>1. SpineTypeOK
        <3>1. 1 \in Steps
            BY SpineAssumption DEF Steps
        <3> QED
            BY <3>1 DEF SpineInit, SpineTypeOK, RunStatus, StepStatus
    <2>2. \A s \in Steps : step[s] = "pending" /\ ~(s < 1) /\ current = 1
        BY DEF SpineInit, Steps
    <2>3. current # NoStep
        BY DEF SpineInit, NoStep
    <2> QED
        BY <2>1, <2>2, <2>3
        DEF SpineInv, SpineInOrder, UnresolvedIsCurrent, CursorSplitsSpine, Unresolved
<1>2. SpineInv /\ SpineTypeOK' /\ [SpineNext]_spineVars => SpineInv'
    <2> SUFFICES ASSUME SpineInv, SpineTypeOK', [SpineNext]_spineVars
                 PROVE  SpineInOrder' /\ UnresolvedIsCurrent' /\ CursorSplitsSpine'
        BY DEF SpineInv
    <2>0. \A s \in Steps : s \in Nat /\ 1 =< s /\ s =< NSteps
        BY SpineAssumption DEF Steps
    <2>1. ASSUME NEW e \in Engine, NEW s \in Steps, NEW outcome \in StepStatus \ {"pending"},
                 AdvanceSpine(e, s, outcome)
          PROVE  SpineInOrder' /\ UnresolvedIsCurrent' /\ CursorSplitsSpine'
        <3>1. /\ \A t \in Steps : t < s => step[t] \in Finished
              /\ \A t \in Steps : t > s => step[t] = "pending"
              /\ step' = [step EXCEPT ![s] = outcome]
              /\ outcome \in Unresolved => current' = s
              /\ outcome \in Finished /\ s < NSteps => current' = s + 1
              /\ outcome \in Finished /\ s = NSteps => current' = NoStep
            BY <2>1, AdvanceMovesByOne
        <3>2. \A t \in Steps : step'[t] = IF t = s THEN outcome ELSE step[t]
            BY <3>1 DEF SpineInv, SpineTypeOK
        <3>3. outcome \in Finished \/ outcome \in Unresolved
            BY DEF StepStatus, Finished, Unresolved
        <3>4. \A t \in Steps : /\ t < s => step'[t] \in Finished
                               /\ t > s => step'[t] = "pending"
                               /\ t = s => step'[t] = outcome
            BY <2>0, <3>1, <3>2
        <3>5. \A t \in Steps : t < s \/ t > s \/ t = s
            BY <2>0
        <3>6. SpineInOrder'
            <4> SUFFICES ASSUME NEW a \in Steps, NEW b \in Steps, a < b, step'[b] # "pending"
                         PROVE  step'[a] \in Finished
                BY DEF SpineInOrder
            <4>1. a < s
                BY <2>0, <3>4, <3>5
            <4> QED
                BY <4>1, <3>4
        <3>7. UnresolvedIsCurrent'
            BY <3>1, <3>3, <3>4, <3>5 DEF UnresolvedIsCurrent, Unresolved, Finished
        <3>8. CursorSplitsSpine'
            <4>1. CASE outcome \in Unresolved
                BY <2>0, <3>1, <3>4, <4>1 DEF CursorSplitsSpine, NoStep
            <4>2. CASE outcome \in Finished /\ s < NSteps
                <5>1. current' = s + 1 /\ current' # NoStep
                    BY <2>0, <3>1, <4>2 DEF NoStep
                <5>2. \A t \in Steps : t < s + 1 => t < s \/ t = s
                    BY <2>0
                <5> QED
                    BY <3>4, <4>2, <5>1, <5>2 DEF CursorSplitsSpine
            <4>3. CASE outcome \in Finished /\ s = NSteps
                <5>1. \A t \in Steps : t < s \/ t = s
                    BY <2>0, <4>3
                <5> QED
                    BY <3>4, <4>3, <5>1 DEF CursorSplitsSpine
            <4> QED
                BY <2>0, <3>3, <4>1, <4>2, <4>3, SpineAssumption
        <3> QED
            BY <3>6, <3>7, <3>8
    <2>2. ASSUME NEW r \in Resumer, ResumeCommit(r)
          PROVE  SpineInOrder' /\ UnresolvedIsCurrent' /\ CursorSplitsSpine'
        <3>1. /\ current' = current
              /\ \A s \in Steps : step'[s] # step[s] =>
                    s = current /\ step[s] \in Unresolved /\ step'[s] = "pending"
            BY <2>2, ResumeReopensCurrent
        <3>2. \A s \in Steps : step[s] \in Finished => step'[s] \in Finished
            BY <3>1 DEF Finished, Unresolved
        <3>3. \A s \in Steps : step'[s] # "pending" => step[s] = step'[s]
            BY <3>1
        <3> QED
            BY <3>1, <3>2, <3>3
            DEF SpineInv, SpineInOrder, UnresolvedIsCurrent, CursorSplitsSpine, Unresolved
    <2>3. CASE UNCHANGED <<step, current>>
        BY <2>3, SameRowsSameOrder
    <2> QED
        BY <2>1, <2>2, <2>3
        DEF SpineNext, spineVars, AcquireEngineLease, RenewEngineLease, ReleaseEngineLease,
            ResumeRead, LeaseExpires, ReclaimExpiredLease, AbandonRun
<1> QED
    BY <1>1, <1>2, SpineTypeInductive DEF SpineInv

\* The walk is inductive: every step of every process keeps SpineInv.  This is
\* what completeWorkflowStep and resumeWorkflowRun rely on when they look at
\* the current step alone.
THEOREM SpineInvCorrect == SpineSpec => []SpineInv
BY SpineInvInductive, PTL DEF SpineSpec

\* No order in which engines, resumers and people act starts a step before all
\* steps in front of it are finished.
THEOREM SpineAlwaysInOrder == SpineSpec => []SpineInOrder
BY SpineInvCorrect, PTL DEF SpineInv

\* A failed or blocked step is always the one that resume reopens.
THEOREM UnresolvedAlwaysCurrent == SpineSpec => []UnresolvedIsCurrent
BY SpineInvCorrect, PTL DEF SpineInv

\* The cursor alone tells which steps are finished.
THEOREM CursorAlwaysSplits == SpineSpec => []CursorSplitsSpine
BY SpineInvCorrect, PTL DEF SpineInv

\* No step of any process changes a finished step.
LEMMA FinishedStepKept ==
    ASSUME SpineInv, SpineNext, NEW t \in Steps, step[t] \in Finished
    PROVE  step'[t] = step[t]
<1>1. ASSUME NEW e \in Engine, NEW s \in Steps, NEW outcome \in StepStatus \ {"pending"},
             AdvanceSpine(e, s, outcome)
      PROVE  step'[t] = step[t]
    <2>1. step' = [step EXCEPT ![s] = outcome] /\ step[s] = "pending"
        BY <1>1, AdvanceMovesByOne
    <2>2. t # s
        BY <2>1 DEF Finished
    <2> QED
        BY <2>1, <2>2 DEF SpineInv, SpineTypeOK
<1>2. ASSUME NEW r \in Resumer, ResumeCommit(r)
      PROVE  step'[t] = step[t]
    BY <1>2, ResumeReopensCurrent DEF Finished, Unresolved
<1>3. CASE UNCHANGED step
    BY <1>3
<1> QED
    BY <1>1, <1>2, <1>3
    DEF SpineNext, AcquireEngineLease, RenewEngineLease, ReleaseEngineLease,
        ResumeRead, LeaseExpires, ReclaimExpiredLease, AbandonRun

\* Finished steps are never run again: completeWorkflowStep writes to a pending
\* step and resumeWorkflowRun to an unresolved one.
THEOREM FinishedStepsStay == SpineSpec => FinishedStepIsFinal
<1>1. SpineInv /\ [SpineNext]_spineVars =>
        [\A s \in Steps : step[s] \in Finished => step'[s] = step[s]]_spineVars
    BY FinishedStepKept DEF spineVars
<1> QED
    BY <1>1, SpineInvCorrect, PTL DEF SpineSpec, FinishedStepIsFinal

-----------------------------------------------------------------------------
(* The run row, when resumes do not overlap.                               *)

\* A step that keeps the rows, the cursor and the status keeps their relation.
LEMMA SameRunSameStatus ==
    ASSUME RunStatusMatchesSpine, UNCHANGED <<runStatus, step, current>>
    PROVE  RunStatusMatchesSpine'
BY DEF RunStatusMatchesSpine, StatusMatchesSpine

\* ResumeInv holds at first and every step keeps it, when resumes do not overlap.
LEMMA ResumeInvInductive ==
    ASSUME SingleResumer
    PROVE  /\ SpineInit => ResumeInv
           /\ ResumeInv /\ [SpineNext]_spineVars => ResumeInv'
<1>1. SpineInit /\ SpineInv => ResumeInv
    <2> SUFFICES ASSUME SpineInit, SpineInv
                 PROVE  ResumeInv
        OBVIOUS
    <2>1. current \in Steps /\ current = 1 /\ runStatus = "active" /\ resuming = {}
        BY SpineAssumption DEF SpineInit, Steps
    <2>2. \A s \in Steps : step[s] = "pending" /\ ~(s < 1)
        BY DEF SpineInit, Steps
    <2>3. RunStatusMatchesSpine
        BY <2>1, <2>2 DEF RunStatusMatchesSpine, StatusMatchesSpine
    <2> QED
        BY <2>1, <2>3 DEF ResumeInv, ResumeReadIsFresh
<1>2. ResumeInv /\ SpineInv' /\ [SpineNext]_spineVars => ResumeInv'
    <2> SUFFICES ASSUME ResumeInv, SpineInv', [SpineNext]_spineVars
                 PROVE  RunStatusMatchesSpine' /\ ResumeReadIsFresh'
        BY DEF ResumeInv
    <2> DEFINE Goal == RunStatusMatchesSpine' /\ ResumeReadIsFresh'
    <2>0. SpineInv /\ RunStatusMatchesSpine /\ ResumeReadIsFresh
        BY DEF ResumeInv
    <2>1. ASSUME NEW e \in Engine, NEW s \in Steps, NEW outcome \in StepStatus \ {"pending"},
                 AdvanceSpine(e, s, outcome)
          PROVE  Goal
        <3>1. /\ runStatus = "active"
              /\ \A t \in Steps : t < s => step[t] \in Finished
              /\ \A t \in Steps : t > s => step[t] = "pending"
              /\ step' = [step EXCEPT ![s] = outcome]
              /\ outcome \in Unresolved => current' = s /\ runStatus' = outcome
              /\ outcome \in Finished /\ s < NSteps => current' = s + 1 /\ runStatus' = "active"
              /\ outcome \in Finished /\ s = NSteps => current' = NoStep /\ runStatus' = "completed"
            BY <2>0, <2>1, AdvanceMovesByOne
        <3>2. \A t \in Steps : step'[t] = IF t = s THEN outcome ELSE step[t]
            BY <2>0, <3>1 DEF SpineInv, SpineTypeOK
        <3>3. outcome \in Finished \/ outcome \in Unresolved
            BY DEF StepStatus, Finished, Unresolved
        <3>4. ResumeReadIsFresh'
            BY <2>0, <2>1, <3>1 DEF ResumeReadIsFresh, AdvanceSpine
        <3>5. CASE outcome \in Unresolved
            BY <3>1, <3>2, <3>4, <3>5 DEF RunStatusMatchesSpine, StatusMatchesSpine, Unresolved
        <3>6. CASE outcome \in Finished /\ s < NSteps
            <4>1. s + 1 \in Steps /\ s + 1 > s /\ s + 1 # s
                BY <3>6, SpineAssumption DEF Steps
            <4>2. step'[s + 1] = "pending"
                BY <3>1, <3>2, <4>1
            <4>3. \A t \in Steps : t < s + 1 => t < s \/ t = s
                BY DEF Steps
            <4>4. \A t \in Steps : t < s + 1 => step'[t] # "pending"
                BY <3>1, <3>2, <3>6, <4>3 DEF Finished
            <4> QED
                BY <3>1, <3>4, <3>6, <4>1, <4>2, <4>4
                DEF RunStatusMatchesSpine, StatusMatchesSpine
        <3>7. CASE outcome \in Finished /\ s = NSteps
            <4>1. current' = NoStep /\ runStatus' = "completed"
                BY <3>1, <3>7
            <4>2. \A t \in Steps : step'[t] \in Finished
                BY <4>1, <2>0 DEF SpineInv, CursorSplitsSpine
            <4> QED
                BY <3>4, <4>1, <4>2 DEF RunStatusMatchesSpine, StatusMatchesSpine
        <3>8. s < NSteps \/ s = NSteps
            BY SpineAssumption DEF Steps
        <3> QED
            BY <3>3, <3>5, <3>6, <3>7, <3>8
    <2>2. ASSUME NEW r \in Resumer, ResumeRead(r)
          PROVE  Goal
        <3>1. runStatus \in {"blocked", "failed"} /\ UNCHANGED <<runStatus, step, current>>
            BY <2>2 DEF ResumeRead
        <3>2. resuming' = resuming \cup {r} /\ snap' = [snap EXCEPT ![r] = current]
            BY <2>2 DEF ResumeRead
        <3>3. ResumeReadIsFresh'
            BY <2>0, <3>1, <3>2 DEF ResumeReadIsFresh, SpineInv, SpineTypeOK
        <3> QED
            BY <2>0, <3>1, <3>3, SameRunSameStatus
    <2>3. ASSUME NEW r \in Resumer, ResumeCommit(r)
          PROVE  Goal
        <3>1. /\ current' = current /\ runStatus' = "active"
              /\ \A s \in Steps : step'[s] # step[s] =>
                    s = current /\ step[s] \in Unresolved /\ step'[s] = "pending"
            BY <2>0, <2>3, ResumeReopensCurrent
        <3>2. runStatus \in {"blocked", "failed"} /\ snap[r] = current /\ r \in resuming
            BY <2>0, <2>3 DEF ResumeReadIsFresh, ResumeCommit
        <3>3. current \in Steps /\ step[current] \in Unresolved \cup {"pending"}
            BY <2>0, <3>2 DEF RunStatusMatchesSpine, StatusMatchesSpine, Unresolved
        <3>4. step'[current] = "pending"
            BY <2>3, <3>2, <3>3 DEF ResumeCommit
        <3>5. \A s \in Steps : s < current => s # current /\ step[s] \in Finished
            BY <2>0, <3>3 DEF SpineInv, CursorSplitsSpine, Steps
        <3>6. \A s \in Steps : s < current => step'[s] # "pending"
            BY <3>1, <3>5 DEF Finished
        <3>7. RunStatusMatchesSpine'
            BY <3>1, <3>3, <3>4, <3>6 DEF RunStatusMatchesSpine, StatusMatchesSpine
        <3>8. resuming' = {}
            BY <2>0, <2>3, <3>2 DEF ResumeCommit, SingleResumer, SpineInv, SpineTypeOK
        <3> QED
            BY <3>7, <3>8 DEF ResumeReadIsFresh
    <2>4. CASE AbandonRun
        <3>1. /\ runStatus \in {"active", "blocked"} /\ runStatus' = "failed"
              /\ UNCHANGED <<current, step, resuming, snap>>
            BY <2>4 DEF AbandonRun
        <3> QED
            BY <2>0, <3>1
            DEF RunStatusMatchesSpine, StatusMatchesSpine, ResumeReadIsFresh
    <2>5. CASE UNCHANGED <<runStatus, current, step, resuming, snap>>
        BY <2>0, <2>5, SameRunSameStatus DEF ResumeReadIsFresh
    <2> QED
        BY <2>1, <2>2, <2>3, <2>4, <2>5
        DEF SpineNext, spineVars, AcquireEngineLease, RenewEngineLease, ReleaseEngineLease,
            LeaseExpires, ReclaimExpiredLease
<1> QED
    BY <1>1, <1>2, SpineInvInductive DEF ResumeInv

\* With one resumer at a time the durable spine is never corrupt, which is what
\* assertRunStatusMatchesSpine demands of every reader.
THEOREM ResumeInvCorrect ==
    ASSUME SingleResumer
    PROVE  SpineSpec => []ResumeInv
BY ResumeInvInductive, PTL DEF SpineSpec

\* The run row and its step rows never disagree.
THEOREM RunStatusAlwaysMatches ==
    ASSUME SingleResumer
    PROVE  SpineSpec => []RunStatusMatchesSpine
BY ResumeInvCorrect, PTL DEF ResumeInv

\* What a resume decides from is still true when it writes.
THEOREM ResumeReadStaysFresh ==
    ASSUME SingleResumer
    PROVE  SpineSpec => []ResumeReadIsFresh
BY ResumeInvCorrect, PTL DEF ResumeInv

\* A completed run is never taken up, failed or abandoned again.
THEOREM CompletedRunsStay ==
    ASSUME SingleResumer
    PROVE  SpineSpec => CompletedRunIsFinal
<1>1. ResumeInv /\ [SpineNext]_spineVars =>
        [runStatus = "completed" => runStatus' = "completed"]_spineVars
    <2> SUFFICES ASSUME ResumeInv, SpineNext, runStatus = "completed"
                 PROVE  runStatus' = "completed"
        BY DEF spineVars
    <2>1. ASSUME NEW r \in Resumer, ResumeCommit(r)
          PROVE  FALSE
        BY <2>1 DEF ResumeCommit, ResumeInv, ResumeReadIsFresh
    <2>2. ASSUME NEW e \in Engine, NEW s \in Steps, NEW outcome \in StepStatus \ {"pending"},
                 AdvanceSpine(e, s, outcome)
          PROVE  FALSE
        BY <2>2 DEF AdvanceSpine, CanAdvance
    <2> QED
        BY <2>1, <2>2
        DEF SpineNext, AcquireEngineLease, RenewEngineLease, ReleaseEngineLease,
            ResumeRead, LeaseExpires, ReclaimExpiredLease, AbandonRun
<1> QED
    BY <1>1, ResumeInvCorrect, PTL DEF SpineSpec, CompletedRunIsFinal

-----------------------------------------------------------------------------
(* The rows implement the run that its user sees.                          *)

FinishedSteps == IF current = NoStep THEN NSteps ELSE current - 1

\* Every transaction on the rows is one step of RunLifecycle or invisible to it.
LEMMA SpineStepIsLifecycleStep ==
    ASSUME ResumeInv, SpineNext
    PROVE  Lifecycle!Next \/ UNCHANGED <<FinishedSteps, runStatus>>
<1> USE DEF FinishedSteps
<1>0. SpineInv /\ RunStatusMatchesSpine /\ ResumeReadIsFresh
    BY DEF ResumeInv
<1>1. ASSUME NEW e \in Engine, NEW s \in Steps, NEW outcome \in StepStatus \ {"pending"},
             AdvanceSpine(e, s, outcome)
      PROVE  Lifecycle!Next
    <2>1. /\ current = s /\ runStatus = "active"
          /\ outcome \in Unresolved => current' = s /\ runStatus' = outcome
          /\ outcome \in Finished /\ s < NSteps => current' = s + 1 /\ runStatus' = "active"
          /\ outcome \in Finished /\ s = NSteps => current' = NoStep /\ runStatus' = "completed"
        BY <1>0, <1>1, AdvanceMovesByOne
    <2>2. s \in Nat /\ 1 =< s /\ s =< NSteps /\ NSteps \in Nat /\ s # NoStep
        BY SpineAssumption DEF Steps, NoStep
    <2>3. outcome \in Finished \/ outcome \in Unresolved
        BY DEF StepStatus, Finished, Unresolved
    <2>4. CASE outcome \in Unresolved
        <3>1. Lifecycle!Stop
            BY <2>1, <2>2, <2>4 DEF Lifecycle!Stop, Unresolved
        <3> QED
            BY <3>1 DEF Lifecycle!Next
    <2>5. CASE outcome \in Finished /\ s < NSteps
        <3>1. current' = s + 1 /\ s + 1 # NoStep /\ runStatus' = "active"
            BY <2>1, <2>2, <2>5 DEF NoStep
        <3>2. FinishedSteps = s - 1 /\ FinishedSteps' = s
            BY <2>1, <2>2, <3>1
        <3>3. s - 1 < NSteps /\ s = (s - 1) + 1 /\ s # NSteps
            BY <2>2, <2>5
        <3>4. Lifecycle!FinishStep
            BY <2>1, <3>1, <3>2, <3>3 DEF Lifecycle!FinishStep
        <3> QED
            BY <3>4 DEF Lifecycle!Next
    <2>6. CASE outcome \in Finished /\ s = NSteps
        <3>1. current' = NoStep /\ runStatus' = "completed"
            BY <2>1, <2>6
        <3>2. FinishedSteps = s - 1 /\ FinishedSteps' = NSteps
            BY <2>1, <2>2, <3>1
        <3>3. s - 1 < NSteps /\ NSteps = (s - 1) + 1
            BY <2>2, <2>6
        <3>4. Lifecycle!FinishStep
            BY <2>1, <3>1, <3>2, <3>3 DEF Lifecycle!FinishStep
        <3> QED
            BY <3>4 DEF Lifecycle!Next
    <2>7. s < NSteps \/ s = NSteps
        BY <2>2
    <2> QED
        BY <2>3, <2>4, <2>5, <2>6, <2>7
<1>2. ASSUME NEW r \in Resumer, ResumeCommit(r)
      PROVE  Lifecycle!Next
    <2>1. runStatus \in {"blocked", "failed"} /\ runStatus' = "active" /\ current' = current
        BY <1>0, <1>2, ResumeReopensCurrent DEF ResumeReadIsFresh, ResumeCommit
    <2>2. Lifecycle!Resume
        BY <2>1 DEF Lifecycle!Resume
    <2> QED
        BY <2>2 DEF Lifecycle!Next
<1>3. CASE AbandonRun
    <2>1. Lifecycle!Abandon
        BY <1>3 DEF AbandonRun, Lifecycle!Abandon
    <2> QED
        BY <2>1 DEF Lifecycle!Next
<1>4. CASE UNCHANGED <<runStatus, current>>
    BY <1>4
<1> QED
    BY <1>1, <1>2, <1>3, <1>4
    DEF SpineNext, AcquireEngineLease, RenewEngineLease, ReleaseEngineLease,
        ResumeRead, LeaseExpires, ReclaimExpiredLease

\* With one resumer at a time, the rows of a run behave as RunLifecycle says:
\* steps are finished one at a time and in order, and a completed run is final.
THEOREM SpineImplementsLifecycle ==
    ASSUME SingleResumer
    PROVE  SpineSpec => ImplementsLifecycle
<1>1. SpineInit => Lifecycle!Init
    BY DEF SpineInit, Lifecycle!Init, NoStep
<1>2. ResumeInv /\ [SpineNext]_spineVars => [Lifecycle!Next]_(Lifecycle!lifecycleVars)
    <2> SUFFICES ASSUME ResumeInv, [SpineNext]_spineVars
                 PROVE  Lifecycle!Next \/ UNCHANGED <<FinishedSteps, runStatus>>
        BY DEF Lifecycle!lifecycleVars, FinishedSteps
    <2>1. CASE SpineNext
        BY <2>1, SpineStepIsLifecycleStep
    <2>2. CASE UNCHANGED spineVars
        BY <2>2 DEF spineVars, FinishedSteps
    <2> QED
        BY <2>1, <2>2
<1> QED
    BY <1>1, <1>2, ResumeInvCorrect, PTL DEF SpineSpec, ImplementsLifecycle, Lifecycle!Spec
=============================================================================
