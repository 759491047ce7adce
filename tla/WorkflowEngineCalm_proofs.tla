---------------------- MODULE WorkflowEngineCalm_proofs ----------------------
(***************************************************************************)
(* What the lease of `akm workflow run` gives the engine that holds it, as *)
(* long as it works: no engine is suspended past its lease, nobody         *)
(* abandons the run while it is driven, and resumes do not overlap (Calm). *)
(* Crashes, interrupts, any number of invocations, and blocked and failed  *)
(* runs that are resumed are all in here.  The invariant says what the     *)
(* driving engine knows of the rows at each of its labels - what it has    *)
(* claimed, what it has settled, what the rows of earlier loops hold - and *)
(* what a completed step has left behind for an engine that comes late.    *)
(***************************************************************************)
EXTENDS WorkflowEngine_proofs

USE EngineAssumption, SpineAssumption

\* The hypothesis.
Calm == ~MaySuspend /\ ~MayAbandon /\ SingleResumer

\* Engine e holds the claim of u, under the attempt number that it has reserved.
Claimed(e, u, n) == row[u].status = "running" /\ row[u].claim = e /\ row[u].attempts = n

\* The labels at which the step's artifact is on its way to the gate or the
\* commit, those at which the unit of work is settled, and those inside a loop.
Judged(l) ==
    \/ l.pc \in {"gateStart", "judge", "gateFinish"}
    \/ l.pc = "commit" /\ l.verdict \in {"none", "accept"}
Settled(l) ==
    Judged(l) \/ l.pc = "finalize" \/ (l.pc = "assertAlive" /\ l.signal = "none")
Looping(l) == l.pc \in InLoop \/ Judged(l)

RejectedGate(s, k) ==
    row[GateUnit(s, k)].status = "completed" /\ row[GateUnit(s, k)].result = "reject"
\* The work of the first n loops of step s is done.
WorkDone(s, n) == \A k \in 1..n : row[WorkUnit(s, k)].status = "completed"
\* Loop m of step s has an artifact on which the step may have been completed.
GoodLoop(s, m) ==
    /\ WorkDone(s, m) /\ row[WorkUnit(s, m)].result = "good"
    /\ s \in Gated => \A k \in m..MaxLoops : ~RejectedGate(s, k)

\* The lease of an engine that drives the run is its own and live.
HoldsLease(e, l) ==
    l.pc \in Leased =>
        /\ holder = e /\ live
        /\ \/ runStatus = "active"
           \/ runStatus = "completed" /\ (l.pc = "next" \/ (l.pc = "gateFinish" /\ l.verdict = "accept"))
\* The step that an engine has read is not past the cursor.
AtBehind(l) ==
    l.pc \in {"readSteps", "acquire", "nextSteps", "renew", "recover", "commit"} \cup InLoop =>
        l.at \in Steps /\ (current = NoStep \/ l.at =< current)
\* What it knows of the row of its unit of work ...
KnowsWork(e, l) ==
    /\ l.pc \in {"dispatch", "finish"} => Claimed(e, WorkUnit(l.at, l.loop), l.att)
    /\ l.pc = "reserve" => row[WorkUnit(l.at, l.loop)].status # "completed"
    /\ Settled(l) =>
        /\ row[WorkUnit(l.at, l.loop)].result = l.out
        /\ row[WorkUnit(l.at, l.loop)].status =
                IF l.out \in {"good", "mismatch"} THEN "completed" ELSE "failed"
    /\ Judged(l) => l.out = "good" \/ l.at \in Tolerant
\* ... of the row of its gate and the step it judges ...
KnowsGate(e, l) ==
    /\ l.pc \in {"judge", "gateFinish"} \/ (l.pc = "commit" /\ l.verdict = "accept") =>
            Claimed(e, GateUnit(l.at, l.loop), l.att)
    /\ Judged(l) /\ ~(l.pc = "gateFinish" /\ l.verdict = "accept") => step[l.at] = "pending"
    /\ Looping(l) /\ l.at \in Gated => \A k \in l.loop..MaxLoops : ~RejectedGate(l.at, k)
\* ... and of the loops before, and after when the step was completed meanwhile.
KnowsPath(l) ==
    Looping(l) /\ l.at \notin Tolerant =>
        /\ WorkDone(l.at, l.loop - 1)
        /\ step[l.at] = "completed" => \E m \in l.loop..MaxLoops : GoodLoop(l.at, m)

Facts(e, l) ==
    HoldsLease(e, l) /\ AtBehind(l) /\ KnowsWork(e, l) /\ KnowsGate(e, l) /\ KnowsPath(l)

\* What the rows of a completed step, and of a rejected gate, hold.
RowsKnow ==
    /\ \A s \in Steps, k \in 1..MaxLoops :
        row[GateUnit(s, k)].status = "completed" => row[GateUnit(s, k)].result \in {"accept", "reject"}
    /\ \A s \in Steps \ Tolerant :
        /\ step[s] = "completed" => \E m \in 1..MaxLoops : GoodLoop(s, m)
        /\ s \in Gated => \A j \in 1..MaxLoops : RejectedGate(s, j) => WorkDone(s, j)

CalmInv ==
    /\ EngineInv
    /\ ResumeInv
    /\ live => holder # None
    /\ \A s \in Steps : step[s] # "skipped"
    /\ RowsKnow
    /\ \A e \in Engine : Facts(e, eng[e])

-----------------------------------------------------------------------------
(* Which parts of the invariant a step can disturb.                        *)

\* At most one engine drives the run.
LEMMA OneDriver ==
    ASSUME CalmInv, NEW d \in Engine, NEW e \in Engine, eng[d].pc \in Leased, eng[e].pc \in Leased
    PROVE  d = e
BY DEF CalmInv, Facts, HoldsLease

\* An engine that does not drive the run knows nothing that could become wrong.
LEMMA NotDriving ==
    ASSUME NEW d \in Engine, eng'[d].pc \notin Leased, AtBehind(eng[d])'
    PROVE  Facts(d, eng[d])'
<1>1. HoldsLease(d, eng[d])'
    BY DEF HoldsLease, Leased
<1>2. ~Judged(eng[d])' /\ ~Settled(eng[d])' /\ ~Looping(eng[d])'
    BY DEF Judged, Settled, Looping, InLoop, Leased
<1>3. KnowsWork(d, eng[d])'
    BY <1>2 DEF KnowsWork, Leased
<1>4. KnowsGate(d, eng[d])'
    BY <1>2 DEF KnowsGate, Leased
<1>5. KnowsPath(eng[d])'
    BY <1>2 DEF KnowsPath
<1> QED
    BY <1>1, <1>3, <1>4, <1>5 DEF Facts

\* The rows are as they were: what was true of locals is.
LEMMA SameRowsSameFacts ==
    ASSUME NEW d \in Engine, NEW m, m = eng'[d], Facts(d, m),
           UNCHANGED <<runStatus, current, step, holder, live, row>>
    PROVE  Facts(d, eng[d])'
<1>1. HoldsLease(d, eng[d])' /\ AtBehind(eng[d])'
    BY DEF Facts, HoldsLease, AtBehind
<1>2. /\ Judged(eng[d])' <=> Judged(m)
      /\ Settled(eng[d])' <=> Settled(m)
      /\ Looping(eng[d])' <=> Looping(m)
    BY DEF Judged, Settled, Looping
<1>3. KnowsWork(d, eng[d])'
    BY <1>2 DEF Facts, KnowsWork, Claimed
<1>4. KnowsGate(d, eng[d])'
    BY <1>2 DEF Facts, KnowsGate, Claimed, RejectedGate
<1>5. KnowsPath(eng[d])'
    BY <1>2 DEF Facts, KnowsPath, WorkDone, GoodLoop, RejectedGate
<1> QED
    BY <1>1, <1>3, <1>4, <1>5 DEF Facts

\* A step of engine e that leaves the rows as they are.
LEMMA QuietKeeps ==
    ASSUME CalmInv, NEW e \in Engine, EngineInv', ResumeInv', LocalStep(e),
           UNCHANGED <<runStatus, current, step, holder, live, row>>,
           NEW m, m = eng'[e], Facts(e, m)
    PROVE  CalmInv'
<1>1. ASSUME NEW d \in Engine
      PROVE  Facts(d, eng[d])'
    <2>1. CASE d = e
        BY <2>1, SameRowsSameFacts
    <2>2. CASE d # e
        <3>1. eng'[d] = eng[d] /\ Facts(d, eng[d])
            BY <2>2 DEF LocalStep, CalmInv
        <3>2. PICK l : l = eng[d]
            OBVIOUS
        <3>3. l = eng'[d] /\ Facts(d, l)
            BY <3>1, <3>2
        <3> QED
            BY <3>3, SameRowsSameFacts
    <2> QED
        BY <2>1, <2>2
<1>2. RowsKnow'
    BY DEF CalmInv, RowsKnow, GoodLoop, WorkDone, RejectedGate
<1> QED
    BY <1>1, <1>2 DEF CalmInv

\* An engine that leaves forgets what it knew.
LEMMA LeaveKeeps ==
    ASSUME CalmInv, NEW e \in Engine, EngineInv', ResumeInv',
           UNCHANGED <<runStatus, current, step, holder, live, row>>,
           NEW label \in Ended \cup {"idle", "release"}, Leave(e, label)
    PROVE  CalmInv'
<1>1. EngineInv
    BY DEF CalmInv
<1>2. LocalStep(e) /\ eng'[e].pc = label
    BY <1>1, LeaveSteps
<1>3. PICK m : m = eng'[e]
    OBVIOUS
<1>4. m.pc \notin Leased /\ m.pc \notin {"readSteps", "acquire"} \cup InLoop
    BY <1>2, <1>3 DEF Leased, Ended, InLoop
<1>5. Facts(e, m)
    BY <1>4 DEF Facts, HoldsLease, AtBehind, KnowsWork, KnowsGate, KnowsPath, Judged, Settled,
                Looping, InLoop, Leased
<1> QED
    BY <1>2, <1>3, <1>5, QuietKeeps

-----------------------------------------------------------------------------
(* Actions of an engine that leave the rows as they are.                   *)

\* What an engine that drives the run may rely on.
LEMMA Driver ==
    ASSUME CalmInv, NEW e \in Engine, eng[e].pc \in Leased
    PROVE  /\ EngineInv /\ RowsKnow /\ eng[e] \in Local /\ LocalInv(eng[e]) /\ Facts(e, eng[e])
           /\ holder = e /\ live /\ HolderAfterRead = holder
           /\ RenewEngineLease(e) => UNCHANGED <<runStatus, current, step, holder, live>>
<1>1. EngineInv /\ RowsKnow /\ eng[e] \in Local /\ LocalInv(eng[e]) /\ Facts(e, eng[e])
    BY DEF CalmInv, EngineInv
<1>2. holder = e /\ live
    BY <1>1 DEF Facts, HoldsLease
<1> QED
    BY <1>1, <1>2 DEF HolderAfterRead, RenewEngineLease

\* A step to m that says nothing new: m stands where l stood, or before it.
LEMMA ReadRunKeeps ==
    ASSUME CalmInv, NEW e \in Engine, EngineInv', ResumeInv', ReadRun(e)
    PROVE  CalmInv'
<1> DEFINE l == eng[e]
<1>0. /\ EngineInv /\ l \in Local /\ Facts(e, l)
      /\ UNCHANGED <<runStatus, current, step, holder, live, row>>
    BY DEF CalmInv, EngineInv, ReadRun, spineVars, journalVars
<1>1. CASE Leave(e, "done") \/ Leave(e, "release")
    BY <1>0, <1>1, LeaveKeeps DEF Ended
<1>2. ASSUME NEW label \in {"readSteps", "nextSteps"}, runStatus = "active",
             label = "nextSteps" => l.pc = "next",
             eng' = [eng EXCEPT ![e].pc = label, ![e].at = current]
      PROVE  CalmInv'
    <2> DEFINE m == [l EXCEPT !.pc = label, !.at = current]
    <2>1. m = eng'[e] /\ m.pc = label /\ m.at = current
        BY <1>0, <1>2 DEF EngineInv, Local
    <2>2. current \in Steps /\ current =< current
        BY <1>2 DEF CalmInv, ResumeInv, RunStatusMatchesSpine, StatusMatchesSpine, Steps
    <2> HIDE DEF m
    <2>3. HoldsLease(e, m) /\ AtBehind(m)
        BY <1>0, <1>2, <2>1, <2>2 DEF Facts, HoldsLease, AtBehind, Leased
    <2>4. Facts(e, m)
        BY <2>1, <2>3 DEF Facts, KnowsWork, KnowsGate, KnowsPath, Judged, Settled, Looping, InLoop
    <2>5. LocalStep(e)
        BY <1>0, EngineLocals DEF EngineStep
    <2> QED
        BY <1>0, <2>1, <2>4, <2>5, QuietKeeps
<1> QED
    BY <1>1, <1>2 DEF ReadRun

\* The steps are read: an engine that is between two steps drives an active run.
LEMMA ReadStepsKeeps ==
    ASSUME CalmInv, NEW e \in Engine, EngineInv', ResumeInv', ReadSteps(e) \/ StopAtMaxSteps(e)
    PROVE  CalmInv'
<1> DEFINE l == eng[e]
<1>0. /\ EngineInv /\ l \in Local /\ Facts(e, l)
      /\ UNCHANGED <<runStatus, current, step, holder, live, row>>
    BY DEF CalmInv, EngineInv, ReadSteps, StopAtMaxSteps, spineVars, journalVars
<1>1. CASE Leave(e, "corrupt") \/ Leave(e, "release")
    BY <1>0, <1>1, LeaveKeeps DEF Ended
<1>2. ASSUME NEW label \in {"acquire", "renew"}, Goto(e, label),
             l.pc = IF label = "renew" THEN "nextSteps" ELSE "readSteps"
      PROVE  CalmInv'
    <2> DEFINE m == [l EXCEPT !.pc = label]
    <2>1. m = eng'[e] /\ m.pc = label /\ m.at = l.at
        BY <1>0, <1>2 DEF EngineInv, Local, Goto
    <2> HIDE DEF m
    <2>2. HoldsLease(e, m) /\ AtBehind(m)
        BY <1>0, <1>2, <2>1 DEF Facts, HoldsLease, AtBehind, Leased
    <2>3. Facts(e, m)
        BY <2>1, <2>2 DEF Facts, KnowsWork, KnowsGate, KnowsPath, Judged, Settled, Looping, InLoop
    <2>4. LocalStep(e)
        BY <1>0, EngineLocals DEF EngineStep
    <2> QED
        BY <1>0, <2>1, <2>3, <2>4, QuietKeeps
<1> QED
    BY <1>1, <1>2 DEF ReadSteps, StopAtMaxSteps

\* A renewal by the engine that drives the run changes nothing.
LEMMA RenewKeeps ==
    ASSUME CalmInv, NEW e \in Engine, EngineInv', ResumeInv',
           RenewBetweenSteps(e) \/ RenewBetweenLoops(e)
    PROVE  CalmInv'
<1> DEFINE l == eng[e]
<1>1. l.pc \in {"renew", "renewLoop"} /\ l.pc \in Leased
    BY DEF RenewBetweenSteps, RenewBetweenLoops, Leased
<1>2. EngineInv /\ l \in Local /\ Facts(e, l)
    BY <1>1, Driver
<1>3. UNCHANGED <<runStatus, current, step, holder, live, row>>
    BY <1>1, Driver DEF RenewBetweenSteps, RenewBetweenLoops, spineVars, journalVars
<1>4. CASE Leave(e, "release")
    BY <1>2, <1>3, <1>4, LeaveKeeps
<1>5. ASSUME NEW label \in {"recover", "classify"}, Goto(e, label),
             l.pc = IF label = "recover" THEN "renew" ELSE "renewLoop"
      PROVE  CalmInv'
    <2> DEFINE m == [l EXCEPT !.pc = label]
    <2>1. m = eng'[e] /\ m.pc = label /\ m.at = l.at /\ m.loop = l.loop
        BY <1>2, <1>5 DEF EngineInv, Local, Goto
    <2> HIDE DEF m
    <2>2. HoldsLease(e, m) /\ AtBehind(m)
        BY <1>2, <1>5, <2>1 DEF Facts, HoldsLease, AtBehind, Leased, InLoop
    <2>3. ~Judged(m) /\ ~Settled(m) /\ (Looping(m) => Looping(l))
        BY <1>5, <2>1 DEF Judged, Settled, Looping, InLoop
    <2>4. KnowsGate(e, m) /\ KnowsPath(m) /\ KnowsWork(e, m)
        BY <1>2, <2>1, <2>3 DEF Facts, KnowsGate, KnowsPath, KnowsWork
    <2>5. LocalStep(e)
        BY <1>2, EngineLocals DEF EngineStep
    <2> QED
        BY <1>3, <2>1, <2>2, <2>4, <2>5, QuietKeeps DEF Facts
<1> QED
    BY <1>4, <1>5 DEF RenewBetweenSteps, RenewBetweenLoops

\* A heartbeat of the engine that drives the run changes nothing, and a signal
\* only takes away what it knows.
LEMMA SignalKeeps ==
    ASSUME CalmInv, NEW e \in Engine, EngineInv', ResumeInv', HeartbeatTick(e) \/ SignalRaised(e)
    PROVE  CalmInv'
<1> DEFINE l == eng[e]
<1>1. l.pc \in Leased /\ l.signal = "none"
    BY DEF HeartbeatTick, SignalRaised
<1>2. EngineInv /\ l \in Local /\ Facts(e, l)
    BY <1>1, Driver
<1>3. UNCHANGED <<runStatus, current, step, holder, live, row>>
    BY <1>1, Driver DEF HeartbeatTick, SignalRaised, spineVars, journalVars
<1>4. PICK s \in {"lost", "aborted"} : eng'[e] \in {l, [l EXCEPT !.signal = s]}
    BY <1>2, SignalLocals
<1>5. PICK m : m = eng'[e]
    OBVIOUS
<1>6. /\ m.pc = l.pc /\ m.at = l.at /\ m.loop = l.loop /\ m.att = l.att /\ m.out = l.out
      /\ m.verdict = l.verdict
    BY <1>2, <1>4, <1>5 DEF Local
<1>7. (Judged(m) <=> Judged(l)) /\ (Looping(m) <=> Looping(l)) /\ (Settled(m) => Settled(l))
    BY <1>1, <1>6 DEF Judged, Looping, Settled
<1>8. HoldsLease(e, m) /\ AtBehind(m)
    BY <1>2, <1>6 DEF Facts, HoldsLease, AtBehind
<1>9. KnowsWork(e, m) /\ KnowsGate(e, m) /\ KnowsPath(m)
    BY <1>2, <1>6, <1>7 DEF Facts, KnowsWork, KnowsGate, KnowsPath
<1>10. LocalStep(e)
    BY <1>2, EngineLocals
<1> QED
    BY <1>3, <1>5, <1>8, <1>9, <1>10, QuietKeeps DEF Facts

\* The gate loop that recovery finds: every gate from it on is not rejected, the
\* work of the loops before it is done, and so is the good loop of a step that
\* has been completed meanwhile.
LEMMA RecoverKeeps ==
    ASSUME CalmInv, NEW e \in Engine, EngineInv', ResumeInv', RecoverGateLoopState(e)
    PROVE  CalmInv'
<1> DEFINE l == eng[e]
           startLoop == StartLoop(l.at)
<1>1. l.pc = "recover" /\ l.pc \in Leased
    BY DEF RecoverGateLoopState, Leased
<1>2. EngineInv /\ RowsKnow /\ l \in Local /\ Facts(e, l) /\ l.at \in Steps
    BY <1>1, Driver DEF LocalInv
<1>3. UNCHANGED <<runStatus, current, step, holder, live, row>>
    BY DEF RecoverGateLoopState, spineVars, journalVars
<1>4. CASE Leave(e, "release")
    BY <1>2, <1>3, <1>4, LeaveKeeps
<1>5. LocalStep(e)
    BY <1>2, EngineLocals DEF EngineStep
<1>6. CASE /\ startLoop =< MaxLoops
           /\ eng' = [eng EXCEPT ![e].pc = FirstOfLoop(startLoop), ![e].loop = startLoop,
                                 ![e].verdict = "none"]
    <2>1. PICK n \in 1..MaxLoops : n = startLoop
        BY <1>2, <1>6, StartLoopIsNext
    <2>2. PICK label \in {"renewLoop", "classify"} : label = FirstOfLoop(n)
        BY DEF FirstOfLoop
    <2> DEFINE m == [l EXCEPT !.pc = label, !.loop = n, !.verdict = "none"]
    <2>3. m = eng'[e]
        BY <1>2, <1>6, <2>1, <2>2 DEF EngineInv
    <2>4. m.pc = label /\ m.at = l.at /\ m.loop = n
        BY <1>2 DEF Local
    <2> HIDE DEF m
    <2>5. HoldsLease(e, m) /\ AtBehind(m)
        BY <1>1, <1>2, <2>4 DEF Facts, HoldsLease, AtBehind, Leased, InLoop
    <2>6. ~Judged(m) /\ ~Settled(m)
        BY <2>4 DEF Judged, Settled
    <2>7. KnowsWork(e, m)
        BY <2>4, <2>6 DEF KnowsWork
    <2>8. \A k \in 1..MaxLoops : RejectedGate(l.at, k) <=> k \in RejectedLoops(l.at)
        BY DEF RejectedGate, RejectedLoops
    <2>9. l.at \in Gated => \A k \in n..MaxLoops : ~RejectedGate(l.at, k)
        <3> SUFFICES ASSUME l.at \in Gated, NEW k \in n..MaxLoops, RejectedGate(l.at, k)
                     PROVE  FALSE
            OBVIOUS
        <3>1. k \in 1..MaxLoops
            BY <2>1
        <3>2. k < n
            BY <1>2, <2>1, <2>8, <3>1, StartLoopIsNext
        <3> QED
            BY <2>1, <3>1, <3>2
    <2>10. KnowsGate(e, m)
        BY <2>4, <2>6, <2>9 DEF KnowsGate
    <2>11. ASSUME l.at \notin Tolerant
           PROVE  WorkDone(l.at, n - 1)
        <3>1. CASE n = 1
            BY <3>1 DEF WorkDone
        <3>2. CASE n > 1
            <4>1. l.at \in Gated /\ n - 1 \in RejectedLoops(l.at)
                BY <1>2, <2>1, <3>2, StartLoopIsNext
            <4>2. n - 1 \in 1..MaxLoops
                BY <2>1, <3>2
            <4> QED
                BY <1>2, <2>8, <2>11, <4>1, <4>2 DEF RowsKnow
        <3> QED
            BY <2>1, <3>1, <3>2
    <2>12. ASSUME l.at \notin Tolerant, step[l.at] = "completed"
           PROVE  \E i \in n..MaxLoops : GoodLoop(l.at, i)
        <3>1. PICK i \in 1..MaxLoops : GoodLoop(l.at, i)
            BY <1>2, <2>12 DEF RowsKnow
        <3>2. i >= n
            <4>1. CASE n = 1
                BY <4>1
            <4>2. CASE n > 1 /\ i < n
                <5>1. l.at \in Gated /\ n - 1 \in RejectedLoops(l.at)
                    BY <1>2, <2>1, <4>2, StartLoopIsNext
                <5>2. n - 1 \in 1..MaxLoops /\ n - 1 \in i..MaxLoops
                    BY <2>1, <4>2
                <5>3. RejectedGate(l.at, n - 1)
                    BY <2>8, <5>1, <5>2
                <5> QED
                    BY <3>1, <5>1, <5>2, <5>3 DEF GoodLoop
            <4> QED
                BY <2>1, <4>1, <4>2
        <3> QED
            BY <2>1, <3>1, <3>2
    <2>13. KnowsPath(m)
        BY <2>4, <2>11, <2>12 DEF KnowsPath
    <2> QED
        BY <1>3, <1>5, <2>3, <2>5, <2>7, <2>10, <2>13, QuietKeeps DEF Facts
<1>7. CASE eng' = [eng EXCEPT ![e].pc = "commit", ![e].verdict = "block"]
    <2> DEFINE m == [l EXCEPT !.pc = "commit", !.verdict = "block"]
    <2>1. m = eng'[e] /\ m.pc = "commit" /\ m.verdict = "block" /\ m.at = l.at
        BY <1>2, <1>7 DEF EngineInv, Local
    <2> HIDE DEF m
    <2>2. HoldsLease(e, m) /\ AtBehind(m)
        BY <1>1, <1>2, <2>1 DEF Facts, HoldsLease, AtBehind, Leased
    <2>3. Facts(e, m)
        BY <2>1, <2>2 DEF Facts, KnowsWork, KnowsGate, KnowsPath, Judged, Settled, Looping, InLoop
    <2> QED
        BY <1>3, <1>5, <2>1, <2>3, QuietKeeps
<1> QED
    BY <1>4, <1>6, <1>7 DEF RecoverGateLoopState

\* A completed row is the result of the unit; one that is not is dispatched.
LEMMA ClassifyKeeps ==
    ASSUME CalmInv, NEW e \in Engine, EngineInv', ResumeInv', ClassifyUnitReuse(e)
    PROVE  CalmInv'
<1> DEFINE l == eng[e]
           prior == row[WorkUnit(l.at, l.loop)]
<1>1. l.pc = "classify" /\ l.pc \in Leased /\ l.pc \in InLoop
    BY DEF ClassifyUnitReuse, Leased, InLoop
<1>2. /\ EngineInv /\ l \in Local /\ Facts(e, l)
      /\ l.at \in Steps /\ l.loop \in 1..MaxLoops
    BY <1>1, Driver DEF LocalInv
<1>3. UNCHANGED <<runStatus, current, step, holder, live, row>>
    BY DEF ClassifyUnitReuse, spineVars, journalVars
<1>4. LocalStep(e)
    BY <1>2, EngineLocals DEF EngineStep
<1>5. Looping(l) /\ ~Judged(l)
    BY <1>1 DEF Looping, Judged
<1>6. CASE /\ prior.status = "completed"
           /\ eng' = [eng EXCEPT ![e].pc = "assertAlive", ![e].out = prior.result]
    <2>1. PICK out \in {"good", "mismatch"} : out = prior.result
        BY <1>2, <1>6 DEF EngineInv, WorkRowsOK
    <2> DEFINE m == [l EXCEPT !.pc = "assertAlive", !.out = out]
    <2>2. /\ m = eng'[e] /\ m.pc = "assertAlive" /\ m.out = out
          /\ m.at = l.at /\ m.loop = l.loop
        BY <1>2, <1>6, <2>1 DEF EngineInv, Local
    <2> HIDE DEF m
    <2>3. HoldsLease(e, m) /\ AtBehind(m)
        BY <1>1, <1>2, <2>2 DEF Facts, HoldsLease, AtBehind, Leased, InLoop
    <2>4. ~Judged(m)
        BY <2>2 DEF Judged
    <2>5. KnowsWork(e, m)
        BY <1>6, <2>1, <2>2, <2>4 DEF KnowsWork
    <2>6. KnowsGate(e, m) /\ KnowsPath(m)
        BY <1>2, <1>5, <2>2, <2>4 DEF Facts, KnowsGate, KnowsPath
    <2> QED
        BY <1>3, <1>4, <2>2, <2>3, <2>5, <2>6, QuietKeeps DEF Facts
<1>7. CASE /\ prior.status # "completed"
           /\ eng' = [eng EXCEPT ![e].pc = "reserve", ![e].out = "none"]
    <2> DEFINE m == [l EXCEPT !.pc = "reserve", !.out = "none"]
    <2>1. m = eng'[e] /\ m.pc = "reserve" /\ m.at = l.at /\ m.loop = l.loop
        BY <1>2, <1>7 DEF EngineInv, Local
    <2> HIDE DEF m
    <2>2. HoldsLease(e, m) /\ AtBehind(m)
        BY <1>1, <1>2, <2>1 DEF Facts, HoldsLease, AtBehind, Leased, InLoop
    <2>3. ~Judged(m) /\ ~Settled(m)
        BY <2>1 DEF Judged, Settled
    <2>4. KnowsWork(e, m)
        BY <1>7, <2>1, <2>3 DEF KnowsWork
    <2>5. KnowsGate(e, m) /\ KnowsPath(m)
        BY <1>2, <1>5, <2>1, <2>3 DEF Facts, KnowsGate, KnowsPath
    <2> QED
        BY <1>3, <1>4, <2>1, <2>2, <2>4, <2>5, QuietKeeps DEF Facts
<1> QED
    BY <1>6, <1>7 DEF ClassifyUnitReuse

\* A reservation is not refused to the engine that drives an active run; one that
\* was interrupted dispatches nothing.
LEMMA NoReserveKeeps ==
    ASSUME CalmInv, NEW e \in Engine, EngineInv', ResumeInv', ReserveDispatch(e),
           ~(eng[e].signal = "none" /\ ReserveUnitAttempt(e, WorkUnit(eng[e].at, eng[e].loop)))
    PROVE  CalmInv'
<1> DEFINE l == eng[e]
<1>1. l.pc = "reserve" /\ l.pc \in Leased /\ l.pc \in InLoop
    BY DEF ReserveDispatch, Leased, InLoop
<1>2. EngineInv /\ l \in Local /\ Facts(e, l)
    BY <1>1, Driver
<1>3. CanReserve(e)
    BY <1>1, <1>2 DEF Facts, HoldsLease, CanReserve
<1>4. UNCHANGED <<runStatus, current, step, holder, live, row>>
    BY <1>3 DEF ReserveDispatch, spineVars, journalVars
<1>5. LocalStep(e)
    BY <1>2, EngineLocals DEF EngineStep
<1>6. PICK outcome : eng' = [eng EXCEPT ![e].pc = "assertAlive", ![e].tries = 0, ![e].out = outcome]
    BY <1>3 DEF ReserveDispatch
<1>7. l.signal # "none"
    BY <1>3 DEF ReserveDispatch
<1> DEFINE m == [l EXCEPT !.pc = "assertAlive", !.tries = 0, !.out = outcome]
<1>8. /\ m = eng'[e] /\ m.pc = "assertAlive" /\ m.signal # "none"
      /\ m.at = l.at /\ m.loop = l.loop
    BY <1>2, <1>6, <1>7 DEF EngineInv, Local
<1> HIDE DEF m
<1>9. HoldsLease(e, m) /\ AtBehind(m)
    BY <1>1, <1>2, <1>8 DEF Facts, HoldsLease, AtBehind, Leased, InLoop
<1>10. ~Judged(m) /\ ~Settled(m) /\ Looping(l)
    BY <1>1, <1>8 DEF Judged, Settled, Looping
<1>11. KnowsWork(e, m) /\ KnowsGate(e, m) /\ KnowsPath(m)
    BY <1>2, <1>8, <1>10 DEF Facts, KnowsWork, KnowsGate, KnowsPath
<1> QED
    BY <1>4, <1>5, <1>8, <1>9, <1>11, QuietKeeps DEF Facts

\* The answer of a unit does not touch its row, which stays claimed.
LEMMA DispatchKeeps ==
    ASSUME CalmInv, NEW e \in Engine, EngineInv', ResumeInv', DispatchUnit(e)
    PROVE  CalmInv'
<1> DEFINE l == eng[e]
<1>1. l.pc = "dispatch" /\ l.pc \in Leased /\ l.pc \in InLoop
    BY DEF DispatchUnit, Leased, InLoop
<1>2. EngineInv /\ l \in Local /\ Facts(e, l)
    BY <1>1, Driver
<1>3. UNCHANGED <<runStatus, current, step, holder, live, row>>
    BY DEF DispatchUnit, spineVars, journalVars
<1>4. LocalStep(e)
    BY <1>2, EngineLocals DEF EngineStep
<1>5. PICK answer : eng' = [eng EXCEPT ![e].pc = "finish", ![e].out = answer]
    BY DEF DispatchUnit
<1> DEFINE m == [l EXCEPT !.pc = "finish", !.out = answer]
<1>6. m = eng'[e] /\ m.pc = "finish" /\ m.at = l.at /\ m.loop = l.loop /\ m.att = l.att
    BY <1>2, <1>5 DEF EngineInv, Local
<1> HIDE DEF m
<1>7. HoldsLease(e, m) /\ AtBehind(m)
    BY <1>1, <1>2, <1>6 DEF Facts, HoldsLease, AtBehind, Leased, InLoop
<1>8. ~Judged(m) /\ ~Settled(m) /\ Looping(l)
    BY <1>1, <1>6 DEF Judged, Settled, Looping
<1>9. KnowsWork(e, m) /\ KnowsGate(e, m) /\ KnowsPath(m)
    BY <1>1, <1>2, <1>6, <1>8 DEF Facts, KnowsWork, KnowsGate, KnowsPath
<1> QED
    BY <1>3, <1>4, <1>6, <1>7, <1>9, QuietKeeps DEF Facts

\* A step is finalized by an engine that was not signalled since its unit settled.
LEMMA AssertAliveKeeps ==
    ASSUME CalmInv, NEW e \in Engine, EngineInv', ResumeInv', AssertAlive(e)
    PROVE  CalmInv'
<1> DEFINE l == eng[e]
<1>1. l.pc = "assertAlive" /\ l.pc \in Leased /\ l.pc \in InLoop
    BY DEF AssertAlive, Leased, InLoop
<1>2. EngineInv /\ l \in Local /\ Facts(e, l)
    BY <1>1, Driver
<1>3. UNCHANGED <<runStatus, current, step, holder, live, row>>
    BY DEF AssertAlive, spineVars, journalVars
<1>4. CASE Leave(e, "release")
    BY <1>3, <1>4, LeaveKeeps
<1>5. CASE l.signal = "none" /\ Goto(e, "finalize")
    <2> DEFINE m == [l EXCEPT !.pc = "finalize"]
    <2>1. m = eng'[e] /\ m.pc = "finalize" /\ m.at = l.at /\ m.loop = l.loop /\ m.out = l.out
        BY <1>2, <1>5 DEF EngineInv, Local, Goto
    <2> HIDE DEF m
    <2>2. HoldsLease(e, m) /\ AtBehind(m)
        BY <1>1, <1>2, <2>1 DEF Facts, HoldsLease, AtBehind, Leased, InLoop
    <2>3. ~Judged(m) /\ Settled(l) /\ Looping(l)
        BY <1>1, <1>5, <2>1 DEF Judged, Settled, Looping
    <2>4. KnowsWork(e, m) /\ KnowsGate(e, m) /\ KnowsPath(m)
        BY <1>2, <2>1, <2>3 DEF Facts, KnowsWork, KnowsGate, KnowsPath
    <2>5. LocalStep(e)
        BY <1>2, EngineLocals DEF EngineStep
    <2> QED
        BY <1>3, <2>1, <2>2, <2>4, <2>5, QuietKeeps DEF Facts
<1> QED
    BY <1>4, <1>5 DEF AssertAlive

\* A mismatch goes on to the next loop with the work of this one done; a good
\* artifact goes on to the gate of a pending step.
LEMMA FinalizeKeeps ==
    ASSUME CalmInv, NEW e \in Engine, EngineInv', ResumeInv', FinalizeExecutedStep(e)
    PROVE  CalmInv'
<1> DEFINE l == eng[e]
<1>1. l.pc = "finalize" /\ l.pc \in Leased /\ l.pc \in InLoop
    BY DEF FinalizeExecutedStep, Leased, InLoop
<1>2. /\ EngineInv /\ l \in Local /\ Facts(e, l) /\ HolderAfterRead = holder
      /\ l.loop \in 1..MaxLoops /\ l.out \in WorkOutcome /\ l.verdict = "none"
    BY <1>1, Driver DEF LocalInv
<1>3. UNCHANGED <<runStatus, current, step, holder, live, row>>
    BY <1>2 DEF FinalizeExecutedStep, journalVars
<1>4. CASE Leave(e, "release")
    BY <1>3, <1>4, LeaveKeeps
<1>5. LocalStep(e)
    BY <1>2, EngineLocals DEF EngineStep
<1>6. Settled(l) /\ Looping(l)
    BY <1>1 DEF Settled, Looping
<1>7. CASE /\ Mismatch(e) /\ l.loop < MaxLoops
           /\ eng' = [eng EXCEPT ![e].pc = "renewLoop", ![e].loop = @ + 1, ![e].out = "none"]
    <2>1. PICK n \in 1..MaxLoops : n = l.loop + 1
        BY <1>2, <1>7
    <2> DEFINE m == [l EXCEPT !.pc = "renewLoop", !.loop = n, !.out = "none"]
    <2>2. m = eng'[e] /\ m.pc = "renewLoop" /\ m.at = l.at /\ m.loop = n
        BY <1>2, <1>7, <2>1 DEF EngineInv, Local
    <2> HIDE DEF m
    <2>3. HoldsLease(e, m) /\ AtBehind(m)
        BY <1>1, <1>2, <2>2 DEF Facts, HoldsLease, AtBehind, Leased, InLoop
    <2>4. ~Judged(m) /\ ~Settled(m)
        BY <2>2 DEF Judged, Settled
    <2>5. row[WorkUnit(l.at, l.loop)].status = "completed"
          /\ row[WorkUnit(l.at, l.loop)].result = "mismatch"
        BY <1>2, <1>6, <1>7 DEF Facts, KnowsWork, Mismatch
    <2>6. KnowsWork(e, m)
        BY <2>2, <2>4 DEF KnowsWork
    <2>7. KnowsGate(e, m)
        BY <1>2, <1>6, <2>1, <2>2, <2>4 DEF Facts, KnowsGate
    <2>8. ASSUME l.at \notin Tolerant
          PROVE  WorkDone(l.at, n - 1)
        BY <1>2, <1>6, <2>1, <2>5, <2>8 DEF Facts, KnowsPath, WorkDone
    <2>9. ASSUME l.at \notin Tolerant, step[l.at] = "completed"
          PROVE  \E i \in n..MaxLoops : GoodLoop(l.at, i)
        <3>1. PICK i \in l.loop..MaxLoops : GoodLoop(l.at, i)
            BY <1>2, <1>6, <2>9 DEF Facts, KnowsPath
        <3>2. i # l.loop
            BY <2>5, <3>1 DEF GoodLoop
        <3> QED
            BY <1>2, <2>1, <3>1, <3>2
    <2>10. KnowsPath(m)
        BY <2>2, <2>8, <2>9 DEF KnowsPath
    <2> QED
        BY <1>3, <1>5, <2>2, <2>3, <2>6, <2>7, <2>10, QuietKeeps DEF Facts
<1>8. CASE eng' = [eng EXCEPT ![e].pc = "commit", ![e].verdict = "fail"]
    <2> DEFINE m == [l EXCEPT !.pc = "commit", !.verdict = "fail"]
    <2>1. m = eng'[e] /\ m.pc = "commit" /\ m.verdict = "fail" /\ m.at = l.at
        BY <1>2, <1>8 DEF EngineInv, Local
    <2> HIDE DEF m
    <2>2. HoldsLease(e, m) /\ AtBehind(m)
        BY <1>1, <1>2, <2>1 DEF Facts, HoldsLease, AtBehind, Leased, InLoop
    <2>3. Facts(e, m)
        BY <2>1, <2>2 DEF Facts, KnowsWork, KnowsGate, KnowsPath, Judged, Settled, Looping, InLoop
    <2> QED
        BY <1>3, <1>5, <2>1, <2>3, QuietKeeps
<1>9. ASSUME UnitsOk(e), ~Mismatch(e), CanAdvance(e, l.at), NEW label \in {"gateStart", "commit"},
             Goto(e, label)
      PROVE  CalmInv'
    <2> DEFINE m == [l EXCEPT !.pc = label]
    <2>1. /\ m = eng'[e] /\ m.pc = label /\ m.at = l.at /\ m.loop = l.loop /\ m.out = l.out
          /\ m.verdict = "none"
        BY <1>2, <1>9 DEF EngineInv, Local, Goto
    <2> HIDE DEF m
    <2>2. HoldsLease(e, m) /\ AtBehind(m)
        BY <1>1, <1>2, <2>1 DEF Facts, HoldsLease, AtBehind, Leased, InLoop
    <2>3. m.out = "good" \/ m.at \in Tolerant
        BY <1>9, <2>1 DEF UnitsOk, Mismatch
    <2>4. KnowsWork(e, m)
        BY <1>2, <1>6, <2>1, <2>3 DEF Facts, KnowsWork
    <2>5. step[m.at] = "pending"
        BY <1>9, <2>1 DEF CanAdvance
    <2>6. KnowsGate(e, m) /\ KnowsPath(m)
        BY <1>2, <1>6, <2>1, <2>5 DEF Facts, KnowsGate, KnowsPath
    <2> QED
        BY <1>3, <1>5, <2>1, <2>2, <2>4, <2>6, QuietKeeps DEF Facts
<1> QED
    BY <1>4, <1>7, <1>8, <1>9 DEF FinalizeExecutedStep

\* The judge's answer does not touch the gate row, which stays claimed.
LEMMA JudgeKeeps ==
    ASSUME CalmInv, NEW e \in Engine, EngineInv', ResumeInv', JudgeStep(e)
    PROVE  CalmInv'
<1> DEFINE l == eng[e]
<1>1. l.pc = "judge" /\ l.pc \in Leased /\ l.pc \in InLoop
    BY DEF JudgeStep, Leased, InLoop
<1>2. EngineInv /\ l \in Local /\ Facts(e, l)
    BY <1>1, Driver
<1>3. UNCHANGED <<runStatus, current, step, holder, live, row>>
    BY DEF JudgeStep, spineVars, journalVars
<1>4. LocalStep(e)
    BY <1>2, EngineLocals DEF EngineStep
<1>5. PICK v \in {"accept", "reject", "judgeError", "interrupted"} :
        eng' = [eng EXCEPT ![e].verdict = v,
                           ![e].pc = IF v = "accept" THEN "commit" ELSE "gateFinish"]
    BY DEF JudgeStep
<1>6. PICK label : label = IF v = "accept" THEN "commit" ELSE "gateFinish"
    OBVIOUS
<1> DEFINE m == [l EXCEPT !.verdict = v, !.pc = label]
<1>7. /\ m = eng'[e] /\ m.pc = label /\ m.verdict = v /\ m.at = l.at /\ m.loop = l.loop
      /\ m.out = l.out /\ m.att = l.att
    BY <1>2, <1>5, <1>6 DEF EngineInv, Local
<1> HIDE DEF m
<1>8. HoldsLease(e, m) /\ AtBehind(m)
    BY <1>1, <1>2, <1>6, <1>7 DEF Facts, HoldsLease, AtBehind, Leased, InLoop
<1>9. Judged(l) /\ Settled(l) /\ Looping(l) /\ Judged(m) /\ Settled(m)
    BY <1>1, <1>6, <1>7 DEF Judged, Settled, Looping
<1>10. KnowsWork(e, m)
    BY <1>2, <1>6, <1>7, <1>9 DEF Facts, KnowsWork
<1>11. KnowsGate(e, m) /\ KnowsPath(m)
    BY <1>1, <1>2, <1>6, <1>7, <1>9 DEF Facts, KnowsGate, KnowsPath
<1> QED
    BY <1>3, <1>4, <1>7, <1>8, <1>10, <1>11, QuietKeeps DEF Facts

\* The write transaction is refused: an open gate row is to be finished as errored.
LEMMA RefusedCommitKeeps ==
    ASSUME CalmInv, NEW e \in Engine, EngineInv', ResumeInv', CommitStep(e),
           ~AdvanceSpine(e, eng[e].at, CompletionOutcome(e))
    PROVE  CalmInv'
<1> DEFINE l == eng[e]
<1>1. l.pc = "commit" /\ l.pc \in Leased
    BY DEF CommitStep, Leased
<1>2. EngineInv /\ l \in Local /\ Facts(e, l) /\ HolderAfterRead = holder
    BY <1>1, Driver
<1>3. UNCHANGED <<runStatus, current, step, holder, live, row>>
    BY <1>2 DEF CommitStep, journalVars
<1>4. CASE Leave(e, "release")
    BY <1>3, <1>4, LeaveKeeps
<1>5. CASE /\ l.verdict = "accept"
           /\ eng' = [eng EXCEPT ![e].pc = "gateFinish", ![e].verdict = "interrupted"]
    <2> DEFINE m == [l EXCEPT !.pc = "gateFinish", !.verdict = "interrupted"]
    <2>1. /\ m = eng'[e] /\ m.pc = "gateFinish" /\ m.verdict = "interrupted" /\ m.at = l.at
          /\ m.loop = l.loop /\ m.out = l.out /\ m.att = l.att
        BY <1>2, <1>5 DEF EngineInv, Local
    <2> HIDE DEF m
    <2>2. HoldsLease(e, m) /\ AtBehind(m)
        BY <1>1, <1>2, <2>1 DEF Facts, HoldsLease, AtBehind, Leased, InLoop
    <2>3. Judged(l) /\ Settled(l) /\ Looping(l)
        BY <1>1, <1>5 DEF Judged, Settled, Looping
    <2>4. KnowsWork(e, m) /\ KnowsGate(e, m) /\ KnowsPath(m)
        BY <1>1, <1>2, <1>5, <2>1, <2>3 DEF Facts, KnowsWork, KnowsGate, KnowsPath
    <2>5. LocalStep(e)
        BY <1>2, EngineLocals DEF EngineStep
    <2> QED
        BY <1>3, <2>1, <2>2, <2>4, <2>5, QuietKeeps DEF Facts
<1> QED
    BY <1>4, <1>5 DEF CommitStep

\* The process is killed.
LEMMA CrashKeeps ==
    ASSUME CalmInv, NEW e \in Engine, EngineInv', ResumeInv', Crash(e)
    PROVE  CalmInv'
<1>1. UNCHANGED <<runStatus, current, step, holder, live, row>> /\ Leave(e, "crashed")
    BY DEF Crash, spineVars, journalVars
<1> QED
    BY <1>1, LeaveKeeps DEF Ended

-----------------------------------------------------------------------------
(* Actions of an engine that write to the journal.                         *)

\* The rows of every unit but u are as they were, and u was not completed.
Writes(u) ==
    /\ spineVars' = spineVars
    /\ row[u].status # "completed"
    /\ \A v \in Unit : v # u => row'[v] = row[v]

\* A write keeps the work that is done and the good loops of a step none of
\* whose gates it rejects.
LEMMA WriteKeepsPath ==
    ASSUME NEW u \in Unit, Writes(u), NEW s \in Steps
    PROVE  /\ \A n \in 0..MaxLoops : WorkDone(s, n) => WorkDone(s, n)'
           /\ (\A k \in 1..MaxLoops : RejectedGate(s, k)' => RejectedGate(s, k)) =>
                \A m \in 1..MaxLoops : GoodLoop(s, m) => GoodLoop(s, m)'
<1>1. \A k \in 1..MaxLoops : row[WorkUnit(s, k)].status = "completed" =>
            row'[WorkUnit(s, k)] = row[WorkUnit(s, k)]
    BY KeysAreUnits DEF Writes
<1>2. ASSUME NEW n \in 0..MaxLoops, WorkDone(s, n)
      PROVE  WorkDone(s, n)'
    BY <1>1, <1>2 DEF WorkDone
<1>3. ASSUME \A k \in 1..MaxLoops : RejectedGate(s, k)' => RejectedGate(s, k),
             NEW m \in 1..MaxLoops, GoodLoop(s, m)
      PROVE  GoodLoop(s, m)'
    <2>1. WorkDone(s, m)'
        BY <1>2, <1>3 DEF GoodLoop
    <2>2. row[WorkUnit(s, m)].status = "completed"
        BY <1>3 DEF GoodLoop, WorkDone
    <2>3. row'[WorkUnit(s, m)].result = "good"
        BY <1>1, <1>3, <2>2 DEF GoodLoop
    <2>4. s \in Gated => \A k \in m..MaxLoops : ~RejectedGate(s, k)'
        BY <1>3 DEF GoodLoop
    <2> QED
        BY <2>1, <2>3, <2>4 DEF GoodLoop
<1> QED
    BY <1>2, <1>3

\* A write to the row of a unit or a gate by the engine that drives the run: a
\* gate is rejected after the work of its loop is done, and not under a completed
\* step.
LEMMA WriteKeeps ==
    ASSUME CalmInv, NEW e \in Engine, EngineInv', ResumeInv', LocalStep(e), eng[e].pc \in Leased,
           NEW u \in JournalKeys, Writes(u),
           \A s \in Steps, k \in 1..MaxLoops : u = GateUnit(s, k) /\ row'[u].status = "completed" =>
                /\ row'[u].result \in {"accept", "reject"}
                /\ s \notin Tolerant /\ row'[u].result = "reject" =>
                        WorkDone(s, k) /\ step[s] # "completed",
           Facts(e, eng[e])'
    PROVE  CalmInv'
<1>0. u \in Unit /\ UNCHANGED <<runStatus, current, step, holder, live>> /\ RowsKnow
    BY KeysAssumption DEF Writes, spineVars, CalmInv
<1>1. ASSUME NEW d \in Engine
      PROVE  Facts(d, eng[d])'
    <2>1. CASE d # e
        <3>1. eng[d].pc \notin Leased
            BY <2>1, OneDriver
        <3>2. eng'[d] = eng[d] /\ AtBehind(eng[d])
            BY <2>1 DEF LocalStep, CalmInv, Facts
        <3>3. AtBehind(eng[d])'
            BY <1>0, <3>2 DEF AtBehind
        <3> QED
            BY <3>1, <3>2, <3>3, NotDriving
    <2> QED
        BY <2>1
<1>2. ASSUME NEW s \in Steps, NEW k \in 1..MaxLoops, row'[GateUnit(s, k)].status = "completed"
      PROVE  \/ row'[GateUnit(s, k)] = row[GateUnit(s, k)]
             \/ /\ row'[GateUnit(s, k)].result \in {"accept", "reject"}
                /\ s \notin Tolerant /\ row'[GateUnit(s, k)].result = "reject" =>
                        WorkDone(s, k) /\ step[s] # "completed"
    BY <1>2, KeysAreUnits DEF Writes
<1>3. ASSUME NEW s \in Steps, NEW k \in 1..MaxLoops, row'[GateUnit(s, k)].status = "completed"
      PROVE  row'[GateUnit(s, k)].result \in {"accept", "reject"}
    BY <1>0, <1>2, <1>3 DEF RowsKnow
<1>4. ASSUME NEW s \in Steps \ Tolerant, NEW k \in 1..MaxLoops, RejectedGate(s, k)'
      PROVE  RejectedGate(s, k) \/ (WorkDone(s, k) /\ step[s] # "completed")
    BY <1>2, <1>4 DEF RejectedGate
<1>5. ASSUME NEW s \in Steps \ Tolerant, step'[s] = "completed"
      PROVE  \E m \in 1..MaxLoops : GoodLoop(s, m)'
    <2>1. PICK m \in 1..MaxLoops : GoodLoop(s, m)
        BY <1>0, <1>5 DEF RowsKnow
    <2>2. \A k \in 1..MaxLoops : RejectedGate(s, k)' => RejectedGate(s, k)
        BY <1>0, <1>4, <1>5
    <2>3. GoodLoop(s, m)'
        BY <1>0, <2>1, <2>2, WriteKeepsPath
    <2> QED
        BY <2>3
<1>6. ASSUME NEW s \in Steps \ Tolerant, s \in Gated, NEW k \in 1..MaxLoops, RejectedGate(s, k)'
      PROVE  WorkDone(s, k)'
    <2>1. WorkDone(s, k)
        BY <1>0, <1>4, <1>6 DEF RowsKnow
    <2> QED
        BY <1>0, <2>1, WriteKeepsPath
<1>7. RowsKnow'
    BY <1>3, <1>5, <1>6 DEF RowsKnow
<1> QED
    BY <1>0, <1>1, <1>7 DEF CalmInv

\* A reservation or a finish of the unit of work: the rows of the gates, and so
\* the path of the step, are as they were.
LEMMA WorkWriteKeeps ==
    ASSUME CalmInv, NEW e \in Engine, EngineInv', ResumeInv', LocalStep(e),
           eng[e].pc \in {"reserve", "finish"}, Writes(WorkUnit(eng[e].at, eng[e].loop)),
           eng'[e].pc \in {"dispatch", "assertAlive", "reserve"},
           eng'[e].at = eng[e].at, eng'[e].loop = eng[e].loop, KnowsWork(e, eng[e])'
    PROVE  CalmInv'
<1> DEFINE l == eng[e]
<1>1. l.pc \in Leased /\ l.pc \in InLoop /\ Looping(l) /\ ~Judged(eng[e])'
    BY DEF Leased, InLoop, Looping, Judged
<1>2. EngineInv /\ l \in Local /\ Facts(e, l) /\ LocalInv(l)
    BY <1>1, Driver
<1>3. PICK s \in Steps, j \in 1..MaxLoops : s = l.at /\ j = l.loop
    BY <1>1, <1>2 DEF LocalInv
<1>4. PICK u : u = WorkUnit(s, j)
    OBVIOUS
<1>5. u \in Unit /\ u \in JournalKeys /\ Writes(u)
    BY <1>3, <1>4, KeysAreUnits DEF JournalKeys, WorkUnit
<1>6. \A t \in Steps, k \in 1..MaxLoops : u # GateUnit(t, k) /\ GateUnit(t, k) \in Unit
    BY <1>4, KeysAreUnits
<1>7. \A t \in Steps, k \in 1..MaxLoops : RejectedGate(t, k)' <=> RejectedGate(t, k)
    BY <1>5, <1>6 DEF Writes, RejectedGate
<1>8. UNCHANGED <<runStatus, current, step, holder, live>>
    BY <1>5 DEF Writes, spineVars
<1>9. HoldsLease(e, eng[e])' /\ AtBehind(eng[e])'
    BY <1>1, <1>2, <1>8 DEF Facts, HoldsLease, AtBehind, Leased, InLoop
<1>10. KnowsGate(e, eng[e])'
    BY <1>1, <1>2, <1>3, <1>7 DEF Facts, KnowsGate
<1>11. ASSUME s \notin Tolerant
       PROVE  /\ WorkDone(s, j - 1)'
              /\ step[s] = "completed" => \E m \in j..MaxLoops : GoodLoop(s, m)'
    <2>1. /\ WorkDone(s, j - 1)
          /\ step[s] = "completed" => \E m \in j..MaxLoops : GoodLoop(s, m)
        BY <1>1, <1>2, <1>3, <1>11 DEF Facts, KnowsPath
    <2>2. /\ \A n \in 0..MaxLoops : WorkDone(s, n) => WorkDone(s, n)'
          /\ \A m \in 1..MaxLoops : GoodLoop(s, m) => GoodLoop(s, m)'
        BY <1>5, <1>7, WriteKeepsPath
    <2>3. j - 1 \in 0..MaxLoops /\ \A m \in j..MaxLoops : m \in 1..MaxLoops
        OBVIOUS
    <2> QED
        BY <2>1, <2>2, <2>3
<1>12. KnowsPath(eng[e])'
    BY <1>3, <1>8, <1>11 DEF KnowsPath
<1> QED
    BY <1>1, <1>5, <1>6, <1>9, <1>10, <1>12, WriteKeeps DEF Facts

\* A dispatch is reserved on a row that is not completed, and claims it.
LEMMA ReserveWrites ==
    ASSUME CalmInv, NEW e \in Engine, eng[e].pc = "reserve", NEW u, u = WorkUnit(eng[e].at, eng[e].loop),
           ReserveUnitAttempt(e, u)
    PROVE  /\ Writes(u) /\ u \in JournalKeys
           /\ row'[u].status = "running" /\ row'[u].claim = e /\ row'[u].attempts = ReservedAttempt(u)
<1> DEFINE l == eng[e]
<1>1. l.pc \in Leased /\ l.pc \in InLoop
    BY DEF Leased, InLoop
<1>2. JournalInv /\ Facts(e, l) /\ l.at \in Steps /\ l.loop \in 1..MaxLoops
    BY <1>1, Driver DEF LocalInv, EngineInv
<1>3. u \in Unit /\ u \in JournalKeys
    BY <1>2, KeysAreUnits DEF JournalKeys, WorkUnit
<1>4. row[u].status # "completed"
    BY <1>2 DEF Facts, KnowsWork
<1> QED
    BY <1>2, <1>3, <1>4, ReserveByRow DEF Writes

\* The unit of work is dispatched under its own claim.
LEMMA ReserveKeeps ==
    ASSUME CalmInv, NEW e \in Engine, EngineInv', ResumeInv', ReserveDispatch(e)
    PROVE  CalmInv'
<1> DEFINE l == eng[e]
<1>1. PICK u : u = WorkUnit(l.at, l.loop)
    OBVIOUS
<1>2. CASE ~(l.signal = "none" /\ ReserveUnitAttempt(e, WorkUnit(l.at, l.loop)))
    BY <1>2, NoReserveKeeps
<1>3. CASE l.signal = "none" /\ ReserveUnitAttempt(e, WorkUnit(l.at, l.loop))
    <2>1. l.pc = "reserve" /\ ReserveUnitAttempt(e, u)
        BY <1>1, <1>3 DEF ReserveDispatch
    <2>2. /\ Writes(u) /\ row'[u].status = "running" /\ row'[u].claim = e
          /\ row'[u].attempts = ReservedAttempt(u)
        BY <1>1, <2>1, ReserveWrites
    <2>3. EngineInv /\ l \in Local /\ CanReserve(e)
        BY <2>1 DEF CalmInv, EngineInv, ReserveUnitAttempt
    <2>4. LocalStep(e)
        BY <2>3, EngineLocals DEF EngineStep
    <2>5. eng' = [eng EXCEPT ![e].pc = "dispatch", ![e].att = ReservedAttempt(u)]
        BY <1>1, <1>3, <2>3 DEF ReserveDispatch
    <2>6. /\ eng'[e].pc = "dispatch" /\ eng'[e].att = ReservedAttempt(u)
          /\ eng'[e].at = l.at /\ eng'[e].loop = l.loop
        BY <2>3, <2>5 DEF EngineInv, Local
    <2>7. KnowsWork(e, eng[e])'
        BY <1>1, <2>2, <2>6 DEF KnowsWork, Claimed, Judged, Settled
    <2> QED
        BY <1>1, <2>1, <2>2, <2>4, <2>6, <2>7, WorkWriteKeeps
<1> QED
    BY <1>2, <1>3

\* The answer is journaled on the row that is claimed.
LEMMA FinishWrites ==
    ASSUME CalmInv, NEW e \in Engine, FinishDispatch(e), NEW u, u = WorkUnit(eng[e].at, eng[e].loop)
    PROVE  /\ Writes(u) /\ u \in JournalKeys
           /\ row'[u].result = eng[e].out
           /\ row'[u].status = IF eng[e].out \in {"good", "mismatch"} THEN "completed" ELSE "failed"
<1> DEFINE l == eng[e]
<1>1. l.pc = "finish" /\ l.pc \in Leased /\ l.pc \in InLoop
    BY DEF FinishDispatch, Leased, InLoop
<1>2. /\ JournalInv /\ Facts(e, l) /\ l.at \in Steps /\ l.loop \in 1..MaxLoops
      /\ l.out \in WorkOutcome
    BY <1>1, Driver DEF LocalInv, EngineInv
<1>3. u \in Unit /\ u \in JournalKeys
    BY <1>2, KeysAreUnits DEF JournalKeys, WorkUnit
<1>4. Claimed(e, u, l.att)
    BY <1>1, <1>2 DEF Facts, KnowsWork
<1>5. PICK n : n = l.att
    OBVIOUS
<1>6. CanFinish(e, u, n)
    BY <1>2, <1>3, <1>4, <1>5, CanFinishByRow DEF Claimed
<1>7. PICK status \in {"completed", "failed"} :
        status = IF l.out \in {"good", "mismatch"} THEN "completed" ELSE "failed"
    OBVIOUS
<1>8. FinishUnitAttempt(e, u, n, status, l.out)
    BY <1>5, <1>6, <1>7 DEF FinishDispatch
<1>9. /\ \A v \in Unit : v # u => row'[v] = row[v]
      /\ row'[u].status = status /\ row'[u].result = l.out /\ spineVars' = spineVars
    BY <1>2, <1>3, <1>8 DEF FinishUnitAttempt, JournalInv, JournalTypeOK, spineVars
<1> QED
    BY <1>3, <1>4, <1>7, <1>9 DEF Writes, Claimed

\* A unit is settled with the answer in its row, or is dispatched again on a
\* failure, which leaves the row open for it.
LEMMA FinishKeeps ==
    ASSUME CalmInv, NEW e \in Engine, EngineInv', ResumeInv', FinishDispatch(e)
    PROVE  CalmInv'
<1> DEFINE l == eng[e]
<1>1. PICK u : u = WorkUnit(l.at, l.loop)
    OBVIOUS
<1>2. /\ Writes(u) /\ row'[u].result = l.out
      /\ row'[u].status = IF l.out \in {"good", "mismatch"} THEN "completed" ELSE "failed"
    BY <1>1, FinishWrites
<1>3. l.pc = "finish" /\ EngineInv /\ l \in Local
    BY DEF FinishDispatch, CalmInv, EngineInv
<1>4. LocalStep(e)
    BY <1>3, EngineLocals DEF EngineStep
<1>5. /\ eng'[e].pc \in {"assertAlive", "reserve"}
      /\ eng'[e].pc = "reserve" => l.out = "error"
      /\ eng'[e].at = l.at /\ eng'[e].loop = l.loop /\ eng'[e].out = l.out
    BY <1>3 DEF FinishDispatch, EngineInv, Local
<1>6. KnowsWork(e, eng[e])'
    BY <1>1, <1>2, <1>5 DEF KnowsWork, Judged, Settled
<1> QED
    BY <1>1, <1>2, <1>3, <1>4, <1>5, <1>6, WorkWriteKeeps

\* A gate is evaluated on a row that holds no verdict yet, and claimed.
LEMMA GateStartWrites ==
    ASSUME CalmInv, NEW e \in Engine, eng[e].pc = "gateStart",
           NEW u, u = GateUnit(eng[e].at, eng[e].loop), ReserveUnitAttempt(e, u)
    PROVE  /\ Writes(u) /\ u \in JournalKeys
           /\ row'[u].status = "running" /\ row'[u].claim = e /\ row'[u].attempts = ReservedAttempt(u)
<1> DEFINE l == eng[e]
<1>1. l.pc \in Leased /\ l.pc \in InLoop /\ Judged(l) /\ Looping(l)
    BY DEF Leased, InLoop, Judged, Looping
<1>2. /\ JournalInv /\ Facts(e, l) /\ l.at \in Gated /\ l.loop \in 1..MaxLoops
      /\ RowsKnow /\ AcceptedGateMeansCompleted
    BY <1>1, Driver DEF LocalInv, EngineInv
<1>3. u \in Unit /\ u \in JournalKeys
    BY <1>2, KeysAreUnits DEF JournalKeys, GateUnit
<1>4. step[l.at] = "pending" /\ ~RejectedGate(l.at, l.loop)
    BY <1>1, <1>2 DEF Facts, KnowsGate
<1>5. row[u].status # "completed"
    <2> SUFFICES ASSUME row[u].status = "completed"
                 PROVE  FALSE
        OBVIOUS
    <2>1. row[u].result \in {"accept", "reject"}
        BY <1>2 DEF RowsKnow
    <2> QED
        BY <1>2, <1>4, <2>1 DEF RejectedGate, AcceptedGateMeansCompleted
<1> QED
    BY <1>2, <1>3, <1>5, ReserveByRow DEF Writes

\* Writing to the row of its gate, an engine keeps what it knows of its work.
LEMMA GateWriteKeepsWork ==
    ASSUME NEW s \in Steps, NEW j \in 1..MaxLoops, Writes(GateUnit(s, j)),
           row'[GateUnit(s, j)].status # "completed" \/ row'[GateUnit(s, j)].result # "reject"
    PROVE  /\ row'[WorkUnit(s, j)] = row[WorkUnit(s, j)]
           /\ \A n \in 0..MaxLoops : WorkDone(s, n) => WorkDone(s, n)'
           /\ \A k \in 1..MaxLoops : RejectedGate(s, k)' => RejectedGate(s, k)
           /\ \A m \in 1..MaxLoops : GoodLoop(s, m) => GoodLoop(s, m)'
<1>1. PICK u \in Unit : u = GateUnit(s, j)
    BY KeysAreUnits
<1>2. row'[WorkUnit(s, j)] = row[WorkUnit(s, j)]
    BY <1>1, KeysAreUnits DEF Writes
<1>3. \A k \in 1..MaxLoops : RejectedGate(s, k)' => RejectedGate(s, k)
    BY <1>1, KeysAreUnits DEF Writes, RejectedGate
<1> QED
    BY <1>1, <1>2, <1>3, WriteKeepsPath

\* The judge is asked under a claim of its own.
LEMMA GateStartKeeps ==
    ASSUME CalmInv, NEW e \in Engine, EngineInv', ResumeInv', JournalGateStart(e)
    PROVE  CalmInv'
<1> DEFINE l == eng[e]
<1>1. l.pc = "gateStart" /\ l.pc \in Leased /\ l.pc \in InLoop /\ Looping(l) /\ Judged(l) /\ Settled(l)
    BY DEF JournalGateStart, Leased, InLoop, Looping, Judged, Settled
<1>2. EngineInv /\ l \in Local /\ Facts(e, l) /\ LocalInv(l)
    BY <1>1, Driver
<1>3. PICK s \in Steps, j \in 1..MaxLoops : s = l.at /\ j = l.loop
    BY <1>1, <1>2 DEF LocalInv
<1>4. PICK u : u = GateUnit(s, j)
    OBVIOUS
<1>5. CASE Leave(e, "release") /\ UNCHANGED <<spineVars, journalVars>>
    BY <1>5, LeaveKeeps DEF spineVars, journalVars
<1>6. CASE /\ ReserveUnitAttempt(e, u)
           /\ eng' = [eng EXCEPT ![e].pc = "judge", ![e].att = ReservedAttempt(u)]
    <2>1. /\ Writes(u) /\ u \in JournalKeys
          /\ row'[u].status = "running" /\ row'[u].claim = e /\ row'[u].attempts = ReservedAttempt(u)
        BY <1>1, <1>3, <1>4, <1>6, GateStartWrites
    <2>2. /\ eng'[e].pc = "judge" /\ eng'[e].att = ReservedAttempt(u) /\ eng'[e].at = s
          /\ eng'[e].loop = j /\ eng'[e].out = l.out
        BY <1>2, <1>3, <1>6 DEF EngineInv, Local
    <2>3. LocalStep(e)
        BY <1>2, EngineLocals DEF EngineStep
    <2>4. UNCHANGED <<runStatus, current, step, holder, live>>
        BY <2>1 DEF Writes, spineVars
    <2>5. HoldsLease(e, eng[e])' /\ AtBehind(eng[e])'
        BY <1>1, <1>2, <1>3, <2>2, <2>4 DEF Facts, HoldsLease, AtBehind, Leased, InLoop
    <2>6. /\ row'[WorkUnit(s, j)] = row[WorkUnit(s, j)]
          /\ \A n \in 0..MaxLoops : WorkDone(s, n) => WorkDone(s, n)'
          /\ \A k \in 1..MaxLoops : RejectedGate(s, k)' => RejectedGate(s, k)
          /\ \A m \in 1..MaxLoops : GoodLoop(s, m) => GoodLoop(s, m)'
        BY <1>4, <2>1, GateWriteKeepsWork
    <2>7. Judged(eng[e])'
        BY <2>2 DEF Judged
    <2>8. KnowsWork(e, eng[e])'
        BY <1>1, <1>2, <1>3, <2>2, <2>6 DEF Facts, KnowsWork
    <2>9. KnowsGate(e, eng[e])'
        BY <1>1, <1>2, <1>3, <1>4, <2>1, <2>2, <2>4, <2>6 DEF Facts, KnowsGate, Claimed
    <2>10. KnowsPath(eng[e])'
        BY <1>1, <1>2, <1>3, <2>2, <2>4, <2>6 DEF Facts, KnowsPath
    <2>11. \A t \in Steps, k \in 1..MaxLoops : u = GateUnit(t, k) => row'[u].status # "completed"
        BY <2>1
    <2> QED
        BY <1>1, <2>1, <2>3, <2>5, <2>8, <2>9, <2>10, <2>11, WriteKeeps DEF Facts
<1> QED
    BY <1>3, <1>4, <1>5, <1>6 DEF JournalGateStart

\* The verdict, or that there is none, is journaled on the row that is claimed.
LEMMA GateFinishWrites ==
    ASSUME CalmInv, NEW e \in Engine, GateFinish(e), NEW u, u = GateUnit(eng[e].at, eng[e].loop)
    PROVE  /\ Writes(u) /\ u \in JournalKeys
           /\ row'[u].status = IF eng[e].verdict \in {"accept", "reject"} THEN "completed" ELSE "failed"
           /\ row'[u].status = "completed" => row'[u].result = eng[e].verdict
           /\ CanFinish(e, u, eng[e].att)
<1> DEFINE l == eng[e]
<1>1. l.pc = "gateFinish" /\ l.pc \in Leased /\ l.pc \in InLoop
    BY DEF GateFinish, Leased, InLoop
<1>2. /\ JournalInv /\ Facts(e, l) /\ l.at \in Steps /\ l.loop \in 1..MaxLoops
    BY <1>1, Driver DEF LocalInv, EngineInv
<1>3. u \in Unit /\ u \in JournalKeys
    BY <1>2, KeysAreUnits DEF JournalKeys, GateUnit
<1>4. Claimed(e, u, l.att)
    BY <1>1, <1>2 DEF Facts, KnowsGate
<1>5. PICK n : n = l.att
    OBVIOUS
<1>6. CanFinish(e, u, n)
    BY <1>2, <1>3, <1>4, <1>5, CanFinishByRow DEF Claimed
<1>7. PICK status \in {"completed", "failed"}, result \in {l.verdict, None} :
        /\ status = IF l.verdict \in {"accept", "reject"} THEN "completed" ELSE "failed"
        /\ result = IF l.verdict \in {"accept", "reject"} THEN l.verdict ELSE None
    OBVIOUS
<1>8. FinishUnitAttempt(e, u, n, status, result)
    BY <1>5, <1>6, <1>7 DEF GateFinish
<1>9. /\ \A v \in Unit : v # u => row'[v] = row[v]
      /\ row'[u].status = status /\ row'[u].result = result /\ spineVars' = spineVars
    BY <1>2, <1>3, <1>8 DEF FinishUnitAttempt, JournalInv, JournalTypeOK, spineVars
<1> QED
    BY <1>3, <1>4, <1>5, <1>6, <1>7, <1>9 DEF Writes, Claimed

\* A verdict sends the engine on to the next step or to the next loop, with the
\* work of this loop done and the step pending; no verdict blocks the step.
LEMMA GateFinishKeeps ==
    ASSUME CalmInv, NEW e \in Engine, EngineInv', ResumeInv', GateFinish(e)
    PROVE  CalmInv'
<1> DEFINE l == eng[e]
<1>1. /\ l.pc = "gateFinish" /\ l.pc \in Leased /\ l.pc \in InLoop
      /\ Looping(l) /\ Judged(l) /\ Settled(l)
    BY DEF GateFinish, Leased, InLoop, Looping, Judged, Settled
<1>2. /\ EngineInv /\ l \in Local /\ Facts(e, l) /\ LocalInv(l)
      /\ l.verdict \in {"accept", "reject", "judgeError", "interrupted"}
    BY <1>1, Driver DEF LocalInv
<1>3. PICK s \in Steps, j \in 1..MaxLoops : s = l.at /\ j = l.loop
    BY <1>1, <1>2 DEF LocalInv
<1>4. PICK u : u = GateUnit(s, j)
    OBVIOUS
<1>5. /\ Writes(u) /\ u \in JournalKeys
      /\ row'[u].status = IF l.verdict \in {"accept", "reject"} THEN "completed" ELSE "failed"
      /\ row'[u].status = "completed" => row'[u].result = l.verdict
      /\ CanFinish(e, u, l.att)
    BY <1>3, <1>4, GateFinishWrites
<1>6. UNCHANGED <<runStatus, current, step, holder, live>>
    BY <1>5 DEF Writes, spineVars
<1>7. LocalStep(e)
    BY <1>2, EngineLocals DEF EngineStep
<1>8. ASSUME l.verdict # "accept"
      PROVE  /\ runStatus = "active" /\ step[s] = "pending"
             /\ s \notin Tolerant => WorkDone(s, j)
    <2>1. runStatus = "active" /\ step[s] = "pending"
        BY <1>1, <1>2, <1>3, <1>8 DEF Facts, HoldsLease, KnowsGate
    <2>2. ASSUME s \notin Tolerant
          PROVE  WorkDone(s, j)
        <3>1. WorkDone(s, j - 1) /\ row[WorkUnit(s, j)].status = "completed"
            BY <1>1, <1>2, <1>3, <2>2 DEF Facts, KnowsPath, KnowsWork
        <3> QED
            BY <3>1 DEF WorkDone
    <2> QED
        BY <2>1, <2>2
<1>9. \A t \in Steps, k \in 1..MaxLoops : u = GateUnit(t, k) /\ row'[u].status = "completed" =>
            /\ row'[u].result \in {"accept", "reject"}
            /\ t \notin Tolerant /\ row'[u].result = "reject" => WorkDone(t, k) /\ step[t] # "completed"
    <2> SUFFICES ASSUME NEW t \in Steps, NEW k \in 1..MaxLoops, u = GateUnit(t, k),
                        row'[u].status = "completed"
                 PROVE  /\ row'[u].result \in {"accept", "reject"}
                        /\ t \notin Tolerant /\ row'[u].result = "reject" =>
                                WorkDone(t, k) /\ step[t] # "completed"
        OBVIOUS
    <2>1. t = s /\ k = j
        BY <1>4 DEF GateUnit
    <2>2. row'[u].result = l.verdict /\ l.verdict \in {"accept", "reject"}
        BY <1>5
    <2> QED
        BY <1>8, <2>1, <2>2
<1>10. SUFFICES Facts(e, eng[e])'
    BY <1>1, <1>5, <1>7, <1>9, WriteKeeps
<1>11. CASE Leave(e, "release")
    <2>1. eng'[e].pc = "release"
        BY <1>2, <1>11, LeaveSteps
    <2> QED
        BY <2>1, NotDriving DEF Leased, AtBehind, InLoop
<1>12. CASE /\ l.verdict = "accept"
            /\ eng' = [eng EXCEPT ![e] = [Fresh EXCEPT !.pc = "next", !.signal = l.signal]]
    <2>1. eng'[e].pc = "next"
        BY <1>2, <1>12, NextLocals
    <2>2. HoldsLease(e, eng[e])'
        BY <1>1, <1>2, <1>6, <2>1 DEF Facts, HoldsLease
    <2> QED
        BY <2>1, <2>2 DEF Facts, AtBehind, KnowsWork, KnowsGate, KnowsPath, Judged, Settled, Looping, InLoop
<1>13. CASE /\ l.verdict = "reject" /\ j < MaxLoops
            /\ eng' = [eng EXCEPT ![e] = [Fresh EXCEPT !.pc = "renewLoop", !.at = l.at,
                                    !.signal = l.signal, !.loop = l.loop + 1]]
    <2>1. PICK n \in 1..MaxLoops : n = j + 1
        BY <1>13
    <2>2. eng'[e].pc = "renewLoop" /\ eng'[e].at = s /\ eng'[e].loop = n
        <3> DEFINE m == [pc |-> "renewLoop", signal |-> l.signal, at |-> s, loop |-> n,
                         att |-> 0, tries |-> 0, out |-> "none", verdict |-> "none"]
        <3>1. m.pc = "renewLoop" /\ m.at = s /\ m.loop = n
            OBVIOUS
        <3>2. [Fresh EXCEPT !.pc = "renewLoop", !.at = l.at, !.signal = l.signal,
                            !.loop = l.loop + 1] = m
            BY <1>3, <2>1, NextLoop
        <3> HIDE DEF m
        <3>3. eng'[e] = m
            BY <1>2, <1>13, <3>2 DEF EngineInv
        <3> QED
            BY <3>1, <3>3
    <2>3. ~Judged(eng[e])' /\ ~Settled(eng[e])'
        BY <2>2 DEF Judged, Settled
    <2>4. HoldsLease(e, eng[e])' /\ AtBehind(eng[e])'
        BY <1>1, <1>2, <1>3, <1>6, <1>8, <1>13, <2>2 DEF Facts, HoldsLease, AtBehind, Leased, InLoop
    <2>5. KnowsWork(e, eng[e])'
        BY <2>2, <2>3 DEF KnowsWork
    <2>6. \A k \in n..MaxLoops : RejectedGate(s, k)' => RejectedGate(s, k)
        BY <1>4, <1>5, <2>1, KeysAreUnits DEF Writes, RejectedGate
    <2>7. KnowsGate(e, eng[e])'
        BY <1>1, <1>2, <1>3, <2>1, <2>2, <2>3, <2>6 DEF Facts, KnowsGate
    <2>8. s \notin Tolerant => WorkDone(s, j)'
        BY <1>4, <1>5, <1>8, <1>13, KeysAreUnits, WriteKeepsPath
    <2>9. KnowsPath(eng[e])'
        BY <1>6, <1>8, <1>13, <2>1, <2>2, <2>8 DEF KnowsPath
    <2> QED
        BY <2>4, <2>5, <2>7, <2>9 DEF Facts
<1>14. CASE /\ l.verdict = "judgeError"
            /\ eng' = [eng EXCEPT ![e].pc = "commit", ![e].att = 0, ![e].verdict = "block"]
    <2>1. eng'[e].pc = "commit" /\ eng'[e].verdict = "block" /\ eng'[e].at = l.at
        BY <1>2, <1>14 DEF EngineInv, Local
    <2>2. HoldsLease(e, eng[e])' /\ AtBehind(eng[e])'
        BY <1>1, <1>2, <1>6, <1>8, <1>14, <2>1 DEF Facts, HoldsLease, AtBehind, Leased, InLoop
    <2> QED
        BY <2>1, <2>2 DEF Facts, KnowsWork, KnowsGate, KnowsPath, Judged, Settled, Looping, InLoop
<1> QED
    BY <1>3, <1>4, <1>5, <1>11, <1>12, <1>13, <1>14 DEF GateFinish

-----------------------------------------------------------------------------
(* Steps on the run row and the step rows.                                 *)

\* A step that leaves the journal alone, under which the cursor moves forward and
\* the steps that become completed have a good loop; every engine knows what it
\* should, or was not driving the run and did not move.
LEMMA SpineStepKeeps ==
    ASSUME CalmInv, EngineInv', ResumeInv', UNCHANGED row,
           live' => holder' # None,
           current' = NoStep \/ (current # NoStep /\ current =< current'),
           \A s \in Steps : step'[s] # "skipped",
           \A s \in Steps \ Tolerant : step'[s] = "completed" =>
                step[s] = "completed" \/ \E m \in 1..MaxLoops : GoodLoop(s, m),
           \A d \in Engine :
                Facts(d, eng[d])' \/ (eng'[d] = eng[d] /\ eng[d].pc \notin Leased)
    PROVE  CalmInv'
<1>1. ASSUME NEW d \in Engine
      PROVE  Facts(d, eng[d])'
    <2>1. CASE eng'[d] = eng[d] /\ eng[d].pc \notin Leased
        <3>1. AtBehind(eng[d]) /\ eng[d] \in Local
            BY DEF CalmInv, Facts, EngineInv
        <3>2. current \in Steps \cup {NoStep} /\ current' \in Steps \cup {NoStep}
            BY DEF CalmInv, EngineInv, SpineInv, SpineTypeOK
        <3>3. AtBehind(eng[d])'
            BY <2>1, <3>1, <3>2 DEF AtBehind, Steps
        <3> QED
            BY <2>1, <3>3, NotDriving
    <2> QED
        BY <2>1
<1>2. \A s \in Steps, m \in 1..MaxLoops :
        /\ RejectedGate(s, m)' <=> RejectedGate(s, m)
        /\ WorkDone(s, m)' <=> WorkDone(s, m)
        /\ GoodLoop(s, m)' <=> GoodLoop(s, m)
    BY DEF RejectedGate, WorkDone, GoodLoop
<1>3. RowsKnow'
    <2>1. RowsKnow
        BY DEF CalmInv
    <2>2. \A s \in Steps, k \in 1..MaxLoops : row'[GateUnit(s, k)].status = "completed" =>
                row'[GateUnit(s, k)].result \in {"accept", "reject"}
        BY <2>1 DEF RowsKnow
    <2>3. ASSUME NEW s \in Steps \ Tolerant
          PROVE  /\ step'[s] = "completed" => \E m \in 1..MaxLoops : GoodLoop(s, m)'
                 /\ s \in Gated => \A j \in 1..MaxLoops : RejectedGate(s, j)' => WorkDone(s, j)'
        BY <1>2, <2>1 DEF RowsKnow
    <2> QED
        BY <2>2, <2>3 DEF RowsKnow
<1> QED
    BY <1>1, <1>3 DEF CalmInv

\* The lease is claimed when nobody holds it, so by then nobody drives the run.
LEMMA AcquireKeeps ==
    ASSUME CalmInv, NEW e \in Engine, EngineInv', ResumeInv', AcquireRunLease(e)
    PROVE  CalmInv'
<1> DEFINE l == eng[e]
<1>1. /\ l.pc = "acquire" /\ EngineInv /\ l \in Local /\ AtBehind(l) /\ UNCHANGED row
      /\ \A s \in Steps : step[s] # "skipped"
    BY DEF AcquireRunLease, CalmInv, EngineInv, Facts, journalVars
<1>2. CASE Leave(e, "done") /\ UNCHANGED spineVars
    BY <1>1, <1>2, LeaveKeeps DEF spineVars, Ended
<1>3. CASE AcquireEngineLease(e) /\ Goto(e, "renew")
    <2>1. /\ runStatus = "active" /\ ~live /\ holder' = e /\ live'
          /\ UNCHANGED <<runStatus, current, step>>
        BY <1>3 DEF AcquireEngineLease, CanAcquire
    <2>2. LocalStep(e)
        BY <1>1, EngineLocals DEF EngineStep
    <2>3. eng'[e].pc = "renew" /\ eng'[e].at = l.at
        BY <1>1, <1>3 DEF Goto, EngineInv, Local
    <2>4. Facts(e, eng[e])'
        BY <1>1, <2>1, <2>3
        DEF Facts, HoldsLease, AtBehind, KnowsWork, KnowsGate, KnowsPath, Judged, Settled, Looping, InLoop
    <2>5. \A d \in Engine : eng[d].pc \notin Leased
        BY <2>1 DEF CalmInv, Facts, HoldsLease
    <2>6. \A d \in Engine : Facts(d, eng[d])' \/ (eng'[d] = eng[d] /\ eng[d].pc \notin Leased)
        BY <2>2, <2>4, <2>5 DEF LocalStep
    <2>7. current' = NoStep \/ (current # NoStep /\ current =< current')
        BY <2>1 DEF EngineInv, CalmInv, SpineInv, SpineTypeOK, Steps, NoStep
    <2>8. holder' # None
        BY <2>1
    <2> QED
        BY <1>1, <2>1, <2>6, <2>7, <2>8, SpineStepKeeps
<1> QED
    BY <1>2, <1>3 DEF AcquireRunLease

\* An engine gives back the lease that is its own, so nobody else drives the run.
LEMMA ReleaseKeeps ==
    ASSUME CalmInv, NEW e \in Engine, EngineInv', ResumeInv', ReleaseRunLease(e)
    PROVE  CalmInv'
<1>1. /\ eng[e].pc = "release" /\ EngineInv /\ UNCHANGED row /\ Leave(e, "done")
      /\ \A s \in Steps : step[s] # "skipped"
    BY DEF ReleaseRunLease, CalmInv, journalVars
<1>2. CASE UNCHANGED spineVars
    BY <1>1, <1>2, LeaveKeeps DEF spineVars, Ended
<1>3. CASE ReleaseEngineLease(e)
    <2>1. holder = e /\ ~live' /\ UNCHANGED <<runStatus, current, step>>
        BY <1>3 DEF ReleaseEngineLease, CanRelease
    <2>2. LocalStep(e) /\ eng'[e].pc = "done"
        BY <1>1, LeaveSteps DEF Ended
    <2>3. Facts(e, eng[e])'
        BY <2>2, NotDriving DEF Leased, AtBehind, InLoop
    <2>4. \A d \in Engine : d # e => eng[d].pc \notin Leased
        BY <2>1 DEF CalmInv, Facts, HoldsLease
    <2>5. \A d \in Engine : Facts(d, eng[d])' \/ (eng'[d] = eng[d] /\ eng[d].pc \notin Leased)
        BY <2>2, <2>3, <2>4 DEF LocalStep
    <2>6. current' = NoStep \/ (current # NoStep /\ current =< current')
        BY <2>1 DEF EngineInv, CalmInv, SpineInv, SpineTypeOK, Steps, NoStep
    <2> QED
        BY <1>1, <2>1, <2>5, <2>6, SpineStepKeeps
<1> QED
    BY <1>2, <1>3 DEF ReleaseRunLease

\* The lease runs out under an engine that has ended.
LEMMA ExpiryKeeps ==
    ASSUME Calm, CalmInv, EngineInv', ResumeInv', RunLeaseExpires
    PROVE  CalmInv'
<1>1. /\ live /\ eng[holder].pc \in Ended /\ ~live' /\ UNCHANGED <<current, step, row, eng>>
      /\ \A s \in Steps : step[s] # "skipped"
    BY DEF Calm, CalmInv, RunLeaseExpires, LeaseExpires, journalVars
<1>2. \A d \in Engine : eng[d].pc \notin Leased
    BY <1>1 DEF CalmInv, Facts, HoldsLease, Leased, Ended
<1>3. current' = NoStep \/ (current # NoStep /\ current =< current')
    BY <1>1 DEF EngineInv, CalmInv, SpineInv, SpineTypeOK, Steps, NoStep
<1> QED
    BY <1>1, <1>2, <1>3, SpineStepKeeps

\* A run is resumed, and an expired lease reclaimed, when nobody drives the run.
LEMMA OperatorKeeps ==
    ASSUME Calm, CalmInv, EngineInv', ResumeInv', Operator
    PROVE  CalmInv'
<1>1. /\ UNCHANGED <<row, eng>> /\ (live => holder # None)
      /\ \A s \in Steps : step[s] # "skipped"
    BY DEF Operator, CalmInv, journalVars
<1>2. CASE \E r \in Resumer : ResumeRead(r)
    <2>1. /\ runStatus \in {"blocked", "failed"} /\ UNCHANGED <<current, step, live>>
          /\ holder' = HolderAfterRead
        BY <1>2 DEF ResumeRead
    <2>2. \A d \in Engine : eng[d].pc \notin Leased
        BY <2>1 DEF CalmInv, Facts, HoldsLease
    <2>3. live' => holder' # None
        BY <1>1, <2>1 DEF HolderAfterRead
    <2>4. current' = NoStep \/ (current # NoStep /\ current =< current')
        BY <2>1 DEF EngineInv, CalmInv, SpineInv, SpineTypeOK, Steps, NoStep
    <2> QED
        BY <1>1, <2>1, <2>2, <2>3, <2>4, SpineStepKeeps
<1>3. CASE \E r \in Resumer : ResumeCommit(r)
    <2>1. PICK r \in Resumer : ResumeCommit(r)
        BY <1>3
    <2>2. runStatus \in {"blocked", "failed"}
        BY <2>1 DEF CalmInv, ResumeInv, ResumeReadIsFresh, ResumeCommit
    <2>3. ~live' /\ UNCHANGED current
          /\ \A s \in Steps : step'[s] \in {step[s], "pending"}
        BY <2>1 DEF ResumeCommit
    <2>4. \A d \in Engine : eng[d].pc \notin Leased
        BY <2>2 DEF CalmInv, Facts, HoldsLease
    <2>5. current' = NoStep \/ (current # NoStep /\ current =< current')
        BY <2>3 DEF EngineInv, CalmInv, SpineInv, SpineTypeOK, Steps, NoStep
    <2>6. \A s \in Steps : step'[s] # "skipped" /\ (step'[s] = "completed" => step[s] = "completed")
        BY <1>1, <2>3
    <2> QED
        BY <1>1, <2>3, <2>4, <2>5, <2>6, SpineStepKeeps
<1>4. CASE ReclaimExpiredLease
    <2>1. ~live /\ ~live' /\ UNCHANGED <<current, step>>
        BY <1>4 DEF ReclaimExpiredLease
    <2>2. \A d \in Engine : eng[d].pc \notin Leased
        BY <2>1 DEF CalmInv, Facts, HoldsLease
    <2>3. current' = NoStep \/ (current # NoStep /\ current =< current')
        BY <2>1 DEF EngineInv, CalmInv, SpineInv, SpineTypeOK, Steps, NoStep
    <2> QED
        BY <1>1, <2>1, <2>2, <2>3, SpineStepKeeps
<1> QED
    BY <1>2, <1>3, <1>4 DEF Operator, Calm

\* The write transaction of the engine that drives the run: a step is completed on
\* a good loop, and the cursor moves past it.
LEMMA AdvanceKeeps ==
    ASSUME CalmInv, NEW e \in Engine, EngineInv', ResumeInv', CommitStep(e),
           AdvanceSpine(e, eng[e].at, CompletionOutcome(e))
    PROVE  CalmInv'
<1> DEFINE l == eng[e]
<1>1. l.pc = "commit" /\ l.pc \in Leased /\ UNCHANGED row
    BY DEF CommitStep, Leased, journalVars
<1>2. /\ EngineInv /\ SpineInv /\ l \in Local /\ Facts(e, l) /\ LocalInv(l)
      /\ holder = e /\ live /\ HolderAfterRead = holder
      /\ \A s \in Steps : step[s] # "skipped"
    BY <1>1, Driver DEF EngineInv, CalmInv
<1>3. PICK s \in Steps, j \in 0..MaxLoops : s = l.at /\ j = l.loop
    BY <1>1, <1>2 DEF LocalInv, Local
<1>4. PICK outcome \in {"failed", "blocked", "completed"} :
        outcome = CompletionOutcome(e)
    BY DEF CompletionOutcome
<1>5. outcome = "completed" => l.verdict \in {"none", "accept"} /\ Judged(l)
    BY <1>1, <1>2, <1>4 DEF CompletionOutcome, LocalInv, Judged
<1>6. AdvanceSpine(e, s, outcome) /\ outcome \in StepStatus \ {"pending"}
    BY <1>3, <1>4 DEF StepStatus
<1>7. /\ current = s /\ step[s] = "pending" /\ step' = [step EXCEPT ![s] = outcome]
      /\ outcome \in Unresolved => current' = s /\ runStatus' = outcome
      /\ outcome \in Finished /\ s < NSteps => current' = s + 1 /\ runStatus' = "active"
      /\ outcome \in Finished /\ s = NSteps => current' = NoStep /\ runStatus' = "completed"
    BY <1>2, <1>6, AdvanceMovesByOne
<1>8. holder' = e /\ live'
    BY <1>2, <1>6 DEF AdvanceSpine
<1>9. step \in [Steps -> StepStatus]
    BY <1>2 DEF SpineInv, SpineTypeOK
<1>10. step'[s] = outcome /\ \A t \in Steps : t # s => step'[t] = step[t]
    BY <1>7, <1>9
<1>11. current' = NoStep \/ (current # NoStep /\ current =< current')
    BY <1>7 DEF Steps, NoStep, Finished, Unresolved
<1>12. outcome = "completed" => runStatus' \in {"active", "completed"}
    BY <1>7 DEF Steps, Finished
<1>13. LocalStep(e)
    BY <1>2, EngineLocals DEF EngineStep
<1>14. ASSUME outcome = "completed", s \notin Tolerant
       PROVE  j \in 1..MaxLoops /\ WorkDone(s, j - 1) /\ GoodLoop(s, j)
    <2>1. j \in 1..MaxLoops /\ Judged(l) /\ Settled(l) /\ Looping(l)
        BY <1>1, <1>2, <1>3, <1>5, <1>14 DEF LocalInv, Settled, Looping
    <2>2. /\ WorkDone(s, j - 1)
          /\ row[WorkUnit(s, j)].status = "completed" /\ row[WorkUnit(s, j)].result = "good"
          /\ s \in Gated => \A k \in j..MaxLoops : ~RejectedGate(s, k)
        BY <1>2, <1>3, <1>14, <2>1 DEF Facts, KnowsPath, KnowsWork, KnowsGate
    <2>3. WorkDone(s, j)
        BY <2>1, <2>2 DEF WorkDone
    <2> QED
        BY <2>1, <2>2, <2>3 DEF GoodLoop
<1>15. Facts(e, eng[e])'
    <2>1. CASE Leave(e, "release")
        <3>1. eng'[e].pc = "release"
            BY <1>2, <2>1, LeaveSteps
        <3> QED
            BY <3>1, NotDriving DEF Leased, AtBehind, InLoop
    <2>2. CASE /\ outcome = "completed"
               /\ eng' = [eng EXCEPT ![e] = [Fresh EXCEPT !.pc = "next", !.signal = l.signal]]
        <3>1. eng'[e].pc = "next"
            BY <1>2, <2>2, NextLocals
        <3>2. HoldsLease(e, eng[e])'
            BY <1>8, <1>12, <2>2, <3>1 DEF HoldsLease
        <3> QED
            BY <3>1, <3>2 DEF Facts, AtBehind, KnowsWork, KnowsGate, KnowsPath, Judged, Settled, Looping, InLoop
    <2>3. CASE l.verdict = "accept" /\ Goto(e, "gateFinish")
        <3>1. /\ eng'[e].pc = "gateFinish" /\ eng'[e].verdict = "accept" /\ eng'[e].at = s
              /\ eng'[e].loop = j /\ eng'[e].out = l.out /\ eng'[e].att = l.att
            BY <1>2, <1>3, <2>3 DEF Goto, EngineInv, Local
        <3>2. outcome = "completed"
            BY <1>4, <2>3 DEF CompletionOutcome
        <3>3. Judged(l) /\ Settled(l) /\ Looping(l)
            BY <1>5, <3>2 DEF Settled, Looping
        <3>4. HoldsLease(e, eng[e])'
            BY <1>8, <1>12, <3>1, <3>2 DEF HoldsLease
        <3>5. AtBehind(eng[e])'
            BY <1>7, <1>11, <3>1 DEF AtBehind
        <3>6. KnowsWork(e, eng[e])'
            BY <1>1, <1>2, <1>3, <3>1, <3>3 DEF Facts, KnowsWork
        <3>7. KnowsGate(e, eng[e])'
            BY <1>1, <1>2, <1>3, <2>3, <3>1, <3>3 DEF Facts, KnowsGate, Claimed, RejectedGate
        <3>8. s \notin Tolerant => j \in j..MaxLoops /\ WorkDone(s, j - 1)' /\ GoodLoop(s, j)'
            BY <1>1, <1>14, <3>2 DEF WorkDone, GoodLoop, RejectedGate
        <3>9. KnowsPath(eng[e])'
            BY <3>1, <3>8 DEF KnowsPath
        <3> QED
            BY <3>4, <3>5, <3>6, <3>7, <3>9 DEF Facts
    <2> QED
        BY <1>4, <1>7, <1>10, <2>1, <2>2, <2>3, <1>3 DEF CommitStep
<1>16. \A d \in Engine : Facts(d, eng[d])' \/ (eng'[d] = eng[d] /\ eng[d].pc \notin Leased)
    BY <1>1, <1>13, <1>15, OneDriver DEF LocalStep
<1>17. ASSUME NEW t \in Steps \ Tolerant, step'[t] = "completed"
       PROVE  step[t] = "completed" \/ \E m \in 1..MaxLoops : GoodLoop(t, m)
    BY <1>10, <1>14, <1>17
<1>18. \A t \in Steps : step'[t] # "skipped"
    BY <1>2, <1>10
<1> QED
    BY <1>1, <1>8, <1>11, <1>16, <1>17, <1>18, SpineStepKeeps

\* The write transaction, or its refusal.
LEMMA CommitKeeps ==
    ASSUME CalmInv, NEW e \in Engine, EngineInv', ResumeInv', CommitStep(e)
    PROVE  CalmInv'
BY AdvanceKeeps, RefusedCommitKeeps

-----------------------------------------------------------------------------
(* The invariant.                                                          *)

\* The invariant holds at first, and every step keeps it.
LEMMA CalmInvInductive ==
    ASSUME Calm
    PROVE  /\ EngineInit => CalmInv
           /\ CalmInv /\ [Next]_vars => CalmInv'
<1>0. SingleResumer
    BY DEF Calm
<1>1. ASSUME EngineInit
      PROVE  CalmInv
    <2>1. EngineInv /\ ResumeInv
        BY <1>0, <1>1, EngineInvInductive, ResumeInvInductive DEF EngineInit
    <2>2. /\ ~live /\ \A s \in Steps : step[s] = "pending"
        BY <1>1 DEF EngineInit, SpineInit
    <2>3. \A s \in Steps, k \in 1..MaxLoops : row[GateUnit(s, k)].status = "absent"
        BY <1>1, KeysAreUnits DEF EngineInit, JournalInit, NoRow
    <2>4. RowsKnow
        BY <2>2, <2>3 DEF RowsKnow, RejectedGate
    <2>5. \A e \in Engine : eng[e].pc = "idle"
        BY <1>1 DEF EngineInit, Fresh
    <2>6. \A e \in Engine : Facts(e, eng[e])
        BY <2>5 DEF Facts, HoldsLease, AtBehind, KnowsWork, KnowsGate, KnowsPath, Judged, Settled,
                    Looping, InLoop, Leased
    <2> QED
        BY <2>1, <2>2, <2>4, <2>6 DEF CalmInv
<1>2. ASSUME CalmInv, [Next]_vars
      PROVE  CalmInv'
    <2>1. EngineInv /\ ResumeInv
        BY <1>2 DEF CalmInv
    <2>2. EngineInv' /\ RowStep
        BY <1>2, <2>1, EngineInvInductive, NextIsRowStep
    <2>3. ResumeInv'
        <3>1. [SpineNext]_spineVars
            BY <2>2 DEF RowStep, JournalNext, ReserveUnitAttempt, FinishUnitAttempt
        <3> QED
            BY <1>0, <2>1, <3>1, ResumeInvInductive
    <2>4. CASE UNCHANGED vars
        <3>1. UNCHANGED <<runStatus, current, step, holder, live, row, eng>>
            BY <2>4 DEF vars, spineVars, journalVars
        <3>2. \A e \in Engine : Facts(e, eng[e])'
            <4> SUFFICES ASSUME NEW e \in Engine
                         PROVE  Facts(e, eng[e])'
                OBVIOUS
            <4>1. PICK m : m = eng[e]
                OBVIOUS
            <4>2. m = eng'[e] /\ Facts(e, m)
                BY <1>2, <3>1, <4>1 DEF CalmInv
            <4> QED
                BY <3>1, <4>2, SameRowsSameFacts
        <3>3. RowsKnow'
            BY <1>2, <3>1 DEF CalmInv, RowsKnow, GoodLoop, WorkDone, RejectedGate
        <3> QED
            BY <1>2, <2>2, <2>3, <3>1, <3>2, <3>3 DEF CalmInv
    <2>5. ASSUME NEW e \in Engine, EngineStep(e)
          PROVE  CalmInv'
        BY <1>2, <2>2, <2>3, <2>5, ReadRunKeeps, ReadStepsKeeps, AcquireKeeps, RenewKeeps, RecoverKeeps,
           ClassifyKeeps, ReserveKeeps, DispatchKeeps, FinishKeeps, AssertAliveKeeps, FinalizeKeeps,
           GateStartKeeps, JudgeKeeps, CommitKeeps, GateFinishKeeps, ReleaseKeeps
        DEF EngineStep
    <2>6. ASSUME NEW e \in Engine, HeartbeatTick(e) \/ SignalRaised(e) \/ Crash(e)
          PROVE  CalmInv'
        BY <1>2, <2>2, <2>3, <2>6, SignalKeeps, CrashKeeps
    <2>7. CASE RunLeaseExpires \/ Operator
        BY <1>2, <2>2, <2>3, <2>7, ExpiryKeeps, OperatorKeeps
    <2> QED
        BY <1>2, <2>4, <2>5, <2>6, <2>7 DEF Next
<1> QED
    BY <1>1, <1>2

\* As long as no engine is suspended past its lease, nobody abandons the run while
\* it is driven and resumes do not overlap, what the driving engine has read stays
\* true until it acts on it.
THEOREM CalmInvCorrect ==
    ASSUME Calm
    PROVE  Spec => []CalmInv
<1>1. EngineInit => CalmInv
    BY CalmInvInductive
<1>2. CalmInv /\ [Next]_vars => CalmInv'
    BY CalmInvInductive
<1> QED
    BY <1>1, <1>2, PTL DEF Spec

-----------------------------------------------------------------------------
(* What the invariant is for.                                              *)

\* Which rows the steps of an engine write to: none that is completed.
LEMMA CompletedRowKept ==
    ASSUME CalmInv, [Next]_vars, NEW u \in JournalKeys, row[u].status = "completed"
    PROVE  row'[u] = row[u]
<1>0. u \in Unit
    BY KeysAssumption
<1>1. CASE UNCHANGED row
    BY <1>1
<1>2. ASSUME NEW v, Writes(v)
      PROVE  row'[u] = row[u]
    BY <1>0, <1>2 DEF Writes
<1>3. ASSUME NEW e \in Engine, ReserveDispatch(e)
      PROVE  row'[u] = row[u]
    <2>1. PICK v : v = WorkUnit(eng[e].at, eng[e].loop)
        OBVIOUS
    <2>2. CASE ReserveUnitAttempt(e, v)
        BY <1>2, <1>3, <2>1, <2>2, ReserveWrites DEF ReserveDispatch
    <2> QED
        BY <1>1, <1>3, <2>1, <2>2 DEF ReserveDispatch, journalVars
<1>4. ASSUME NEW e \in Engine, JournalGateStart(e)
      PROVE  row'[u] = row[u]
    <2>1. PICK v : v = GateUnit(eng[e].at, eng[e].loop)
        OBVIOUS
    <2>2. CASE ReserveUnitAttempt(e, v)
        BY <1>2, <1>4, <2>1, <2>2, GateStartWrites DEF JournalGateStart
    <2> QED
        BY <1>1, <1>4, <2>1, <2>2 DEF JournalGateStart, journalVars
<1>5. ASSUME NEW e \in Engine, FinishDispatch(e)
      PROVE  row'[u] = row[u]
    BY <1>2, <1>5, FinishWrites
<1>6. ASSUME NEW e \in Engine, GateFinish(e)
      PROVE  row'[u] = row[u]
    BY <1>2, <1>6, GateFinishWrites
<1>7. ASSUME NEW e \in Engine,
             \/ ReadRun(e) \/ ReadSteps(e) \/ StopAtMaxSteps(e) \/ AcquireRunLease(e)
             \/ RenewBetweenSteps(e) \/ RenewBetweenLoops(e) \/ RecoverGateLoopState(e)
             \/ ClassifyUnitReuse(e) \/ DispatchUnit(e) \/ AssertAlive(e) \/ FinalizeExecutedStep(e)
             \/ JudgeStep(e) \/ CommitStep(e) \/ ReleaseRunLease(e)
             \/ HeartbeatTick(e) \/ SignalRaised(e) \/ Crash(e)
      PROVE  UNCHANGED row
    BY <1>7
    DEF ReadRun, ReadSteps, StopAtMaxSteps, AcquireRunLease, RenewBetweenSteps, RenewBetweenLoops,
        RecoverGateLoopState, ClassifyUnitReuse, DispatchUnit, AssertAlive, FinalizeExecutedStep,
        JudgeStep, CommitStep, ReleaseRunLease, HeartbeatTick, SignalRaised, Crash, journalVars
<1>8. CASE RunLeaseExpires \/ Operator \/ UNCHANGED vars
    BY <1>1, <1>8 DEF RunLeaseExpires, Operator, vars, journalVars
<1> QED
    BY <1>1, <1>3, <1>4, <1>5, <1>6, <1>7, <1>8 DEF Next, EngineStep

\* Completed work - a paid result, a verdict of the judge - is never dispatched
\* again, by this or any later engine, whatever crashes and is resumed: reservation
\* itself does not look at the row, the walk that leads to it does.
THEOREM CompletedRowsAreKept ==
    ASSUME Calm
    PROVE  Spec => CompletedRowIsKept
<1>1. CalmInv /\ [Next]_vars =>
        [\A u \in JournalKeys : row[u].status = "completed" => row'[u] = row[u]]_vars
    BY CompletedRowKept
<1> QED
    BY <1>1, CalmInvCorrect, PTL DEF Spec, CompletedRowIsKept

\* No two engines ever have a unit, or a gate, in flight at the same time.
THEOREM DispatchIsExclusive ==
    ASSUME Calm
    PROVE  Spec => []NoConcurrentDispatch
<1>1. CalmInv => NoConcurrentDispatch
    BY OneDriver DEF NoConcurrentDispatch, Leased
<1> QED
    BY <1>1, CalmInvCorrect, PTL

\* An engine that starts late may drive a step that is finished by then; it finds
\* the good loop of that step in the journal and dispatches nothing.  A step that
\* tolerates failures leaves no such loop behind, so it has to be the last.
THEOREM DispatchedAtCurrentStep ==
    ASSUME Calm, \A s \in Tolerant : s = NSteps
    PROVE  Spec => []DispatchAtCurrentStep
<1>1. ASSUME CalmInv
      PROVE  DispatchAtCurrentStep
    <2> SUFFICES ASSUME NEW e \in Engine, eng[e].pc \in {"dispatch", "judge"}, runStatus = "active"
                 PROVE  eng[e].at = current
        BY DEF DispatchAtCurrentStep
    <2> DEFINE l == eng[e]
    <2>1. l.pc \in Leased /\ l.pc \in InLoop /\ Looping(l)
        BY DEF Leased, InLoop, Looping
    <2>2. /\ SpineInv /\ ResumeInv /\ Facts(e, l) /\ l.at \in Steps /\ l.loop \in 1..MaxLoops
          /\ \A s \in Steps : step[s] # "skipped"
        BY <1>1, <2>1, Driver DEF LocalInv, EngineInv, CalmInv
    <2>3. current \in Steps /\ l.at =< current
        BY <2>1, <2>2 DEF ResumeInv, RunStatusMatchesSpine, StatusMatchesSpine, Facts, AtBehind, Steps, NoStep
    <2>4. SUFFICES ASSUME l.at < current
                   PROVE  FALSE
        BY <2>2, <2>3 DEF Steps
    <2>5. step[l.at] = "completed"
        BY <2>2, <2>3, <2>4 DEF SpineInv, CursorSplitsSpine, Finished
    <2>6. l.at \notin Tolerant
        BY <2>2, <2>3, <2>4 DEF Steps
    <2>7. PICK m \in l.loop..MaxLoops : GoodLoop(l.at, m)
        BY <2>1, <2>2, <2>5, <2>6 DEF Facts, KnowsPath
    <2>8. row[WorkUnit(l.at, l.loop)].status = "completed"
        BY <2>2, <2>7 DEF GoodLoop, WorkDone
    <2>9. CASE l.pc = "dispatch"
        BY <2>2, <2>8, <2>9 DEF Facts, KnowsWork, Claimed
    <2>10. CASE l.pc = "judge"
        BY <2>2, <2>5, <2>10 DEF Facts, KnowsGate, Judged
    <2> QED
        BY <2>9, <2>10
<1> QED
    BY <1>1, CalmInvCorrect, PTL

\* The write transaction completes a step on the outcome that the engine's own
\* finish has journaled: nothing has changed the row since.
THEOREM PromotedArtifactsAreJournaled ==
    ASSUME Calm
    PROVE  Spec => PromotedArtifactIsJournaled
<1>1. ASSUME CalmInv, [Next]_vars, NEW e \in Engine, eng[e].pc = "commit", eng'[e].pc # eng[e].pc,
             step' # step, step'[eng[e].at] = "completed"
      PROVE  /\ row[WorkUnit(eng[e].at, eng[e].loop)].status \in {"completed", "failed"}
             /\ row[WorkUnit(eng[e].at, eng[e].loop)].result = eng[e].out
    <2> DEFINE l == eng[e]
    <2>1. EngineInv /\ SpineInv /\ Facts(e, l) /\ LocalInv(l) /\ l.at \in Steps
        BY <1>1 DEF CalmInv, EngineInv, LocalInv
    <2>2. ASSUME NEW d \in Engine, EngineStep(d) \/ HeartbeatTick(d) \/ SignalRaised(d) \/ Crash(d)
          PROVE  d = e
        BY <1>1, <2>1, <2>2, EngineLocals DEF LocalStep
    <2>3. CommitStep(e)
        <3>1. ~(RunLeaseExpires \/ Operator) /\ ~UNCHANGED vars
            BY <1>1 DEF RunLeaseExpires, Operator, vars
        <3>2. \/ EngineStep(e) \/ HeartbeatTick(e) \/ SignalRaised(e) \/ Crash(e)
            BY <1>1, <2>2, <3>1 DEF Next
        <3>3. ~(HeartbeatTick(e) \/ SignalRaised(e) \/ Crash(e))
            BY <1>1 DEF HeartbeatTick, SignalRaised, Crash, RenewEngineLease, spineVars
        <3> QED
            BY <1>1, <3>2, <3>3
            DEF EngineStep, ReadRun, ReadSteps, StopAtMaxSteps, AcquireRunLease, RenewBetweenSteps,
                RenewBetweenLoops, RecoverGateLoopState, ClassifyUnitReuse, ReserveDispatch,
                DispatchUnit, FinishDispatch, AssertAlive, FinalizeExecutedStep, JournalGateStart,
                JudgeStep, GateFinish, ReleaseRunLease
    <2>4. step' = [step EXCEPT ![l.at] = CompletionOutcome(e)]
        BY <1>1, <2>3 DEF CommitStep, AdvanceSpine
    <2>5. CompletionOutcome(e) = "completed"
        BY <1>1, <2>1, <2>4 DEF SpineInv, SpineTypeOK
    <2>6. l.verdict \in {"none", "accept"}
        BY <1>1, <2>1, <2>5 DEF CompletionOutcome, LocalInv
    <2>7. Settled(l)
        BY <1>1, <2>6 DEF Settled, Judged
    <2> QED
        BY <2>1, <2>7 DEF Facts, KnowsWork
<1>2. CalmInv /\ [Next]_vars =>
        [\A e \in Engine : eng[e].pc = "commit" /\ eng'[e].pc # eng[e].pc /\ step' # step
            /\ step'[eng[e].at] = "completed" =>
            LET unit == row[WorkUnit(eng[e].at, eng[e].loop)] IN
            unit.status \in {"completed", "failed"} /\ unit.result = eng[e].out]_vars
    BY <1>1
<1> QED
    BY <1>2, CalmInvCorrect, PTL DEF Spec, PromotedArtifactIsJournaled
=============================================================================
