------------------------ MODULE WorkflowEngine_proofs ------------------------
(***************************************************************************)
(* Proofs about the engines of `akm workflow run` for every plan, set of   *)
(* engines, gate budget and retry budget: what one engine keeps about its  *)
(* own locals, what the rows of units and gates may say, and that all it   *)
(* does to the rows are steps of the journal under the spine.  Nothing is  *)
(* assumed here of when engines are suspended or killed, of who resumes    *)
(* the run, and of when it is abandoned.                                   *)
(***************************************************************************)
EXTENDS WorkflowEngine, UnitJournal_proofs, WorkflowSpine_proofs

\* The labels between the choice of a gate loop and the end of the step.
InLoop == {"renewLoop", "classify", "reserve", "dispatch", "finish", "assertAlive",
           "finalize", "gateStart", "judge", "gateFinish"}

\* What is true of the locals of an engine at each of its labels.
LocalInv(l) ==
    /\ l \in Local
    /\ l.pc \in {"acquire", "renew", "recover", "commit"} \cup InLoop => l.at \in Steps
    /\ l.pc \in InLoop => l.loop \in 1..MaxLoops
    /\ l.pc \in {"finish", "assertAlive", "finalize"} => l.out \in WorkOutcome
    /\ l.pc \in {"gateStart", "judge", "gateFinish"} => l.at \in Gated
    /\ l.pc \in InLoop \ {"gateFinish"} => l.verdict = "none"
    /\ l.pc = "commit" =>
        /\ l.verdict \in {"accept", "fail", "block"} \cup (IF l.at \in Gated THEN {} ELSE {"none"})
        /\ l.verdict \in {"accept", "none"} => l.loop \in 1..MaxLoops
        /\ l.verdict = "accept" => l.at \in Gated
    /\ l.pc = "gateFinish" => l.verdict \in {"accept", "reject", "judgeError", "interrupted"}

\* An acceptance is journaled after the write transaction has completed the step.
AcceptFollowsCommit(l) ==
    l.pc = "gateFinish" /\ l.verdict = "accept" => step[l.at] = "completed"

\* A completed row of a unit of work carries its artifact.
WorkRowsOK ==
    \A s \in Steps, l \in 1..MaxLoops :
        row[WorkUnit(s, l)].status = "completed" => row[WorkUnit(s, l)].result \in {"good", "mismatch"}

EngineInv ==
    /\ SpineInv
    /\ JournalInv
    /\ WorkRowsOK
    /\ AcceptedGateMeansCompleted
    /\ eng \in [Engine -> Local]
    /\ \A e \in Engine : LocalInv(eng[e]) /\ AcceptFollowsCommit(eng[e])

USE EngineAssumption, SpineAssumption
-----------------------------------------------------------------------------
(* The journal, as its projection shows it.                                *)

\* The row of a unit that has an attempt is that attempt, field by field.
LEMMA RowIsLatest ==
    ASSUME JournalInv, NEW u \in Unit, attempts[u] # <<>>
    PROVE  /\ row[u].status = Latest(u).status /\ row[u].claim = Latest(u).claim
           /\ row[u].attempts = Len(attempts[u])
<1>1. row[u] = [claim |-> Latest(u).claim, status |-> Latest(u).status,
                result |-> Latest(u).result, attempts |-> Len(attempts[u])]
    BY DEF JournalInv, ProjectionIsLatest
<1> QED
    BY <1>1

\* A reservation of u by engine e: the lease is live and the row of u is running
\* under e's claim.
LEMMA ReserveByRow ==
    ASSUME JournalInv, NEW e \in Engine, NEW u \in Unit, ReserveUnitAttempt(e, u)
    PROVE  /\ runStatus = "active" /\ holder = e /\ live
           /\ spineVars' = spineVars /\ JournalInv' /\ JournalNext
           /\ \A v \in Unit : v # u => row'[v] = row[v]
           /\ row'[u].status = "running" /\ row'[u].claim = e
           /\ row'[u].attempts = ReservedAttempt(u) /\ ReservedAttempt(u) \in Nat
           /\ row'[u].result \in {row[u].result, None}
<1>1. JournalNext
    BY DEF JournalNext
<1>2. JournalInv'
    BY <1>1, JournalInvInductive
<1>3. /\ attempts[u] \in Seq(Attempt) /\ row[u] \in Row /\ row \in [Unit -> Row]
      /\ Len(attempts[u]) \in Nat
    BY LenProperties DEF JournalInv, JournalTypeOK
<1>4. CASE HasRunning(u)
    <2>1. row[u].status = "running" /\ row[u].attempts = Len(attempts[u])
        BY <1>4, RowIsLatest DEF HasRunning
    <2>2. row' = [row EXCEPT ![u] = [row[u] EXCEPT !.claim = e]]
        BY <1>4, <2>1 DEF ReserveUnitAttempt, TakeOverClaim
    <2>3. row'[u] = [row[u] EXCEPT !.claim = e]
        BY <1>3, <2>2
    <2>4. row'[u].status = "running" /\ row'[u].claim = e /\ row'[u].result = row[u].result
          /\ row'[u].attempts = row[u].attempts
        BY <1>3, <2>1, <2>3 DEF Row
    <2>5. ReservedAttempt(u) = Len(attempts[u])
        BY <1>4 DEF ReservedAttempt
    <2> QED
        BY <1>1, <1>2, <1>3, <2>1, <2>2, <2>4, <2>5 DEF ReserveUnitAttempt, CanReserve
<1>5. CASE ~HasRunning(u)
    BY <1>1, <1>2, <1>3, <1>5 DEF ReserveUnitAttempt, FreshAttempt, CanReserve, ReservedAttempt
<1> QED
    BY <1>4, <1>5

\* A finish of u by engine e: the row of u was running under e's claim.
LEMMA FinishByRow ==
    ASSUME JournalInv, NEW e \in Engine, NEW u \in Unit, NEW n,
           NEW status \in AttemptStatus \ {"running"}, NEW result \in Outcome \cup {None},
           FinishUnitAttempt(e, u, n, status, result)
    PROVE  /\ row[u].status = "running" /\ row[u].claim = e /\ row[u].attempts = n
           /\ spineVars' = spineVars /\ JournalInv' /\ JournalNext
           /\ \A v \in Unit : v # u => row'[v] = row[v]
           /\ row'[u].status = status /\ row'[u].result = result
<1>1. JournalNext
    BY DEF JournalNext, FinishUnitAttempt, CanFinish
<1>2. JournalInv'
    BY <1>1, JournalInvInductive
<1>3. row \in [Unit -> Row]
    BY DEF JournalInv, JournalTypeOK
<1> QED
    BY <1>1, <1>2, <1>3 DEF FinishUnitAttempt

\* What the row of u says is enough to know that e can finish its attempt.
LEMMA CanFinishByRow ==
    ASSUME JournalInv, NEW e \in Engine, NEW u \in Unit, NEW n,
           row[u].status = "running", row[u].claim = e, row[u].attempts = n
    PROVE  CanFinish(e, u, n)
<1>1. attempts[u] \in Seq(Attempt)
    BY DEF JournalInv, JournalTypeOK
<1>2. attempts[u] # <<>>
    <2>1. attempts[u] = <<>> => row[u] = NoRow
        BY DEF JournalInv, ProjectionIsLatest
    <2> QED
        BY <2>1 DEF NoRow
<1>3. Len(attempts[u]) \in DOMAIN attempts[u]
    BY <1>1, <1>2, EmptySeq, LenProperties
<1>4. n = Len(attempts[u]) /\ Latest(u).status = "running" /\ Latest(u).claim = e
    BY <1>2, RowIsLatest
<1> QED
    BY <1>3, <1>4 DEF CanFinish, Latest

\* The keys of units of work and of gates are different units of the journal.
LEMMA KeysAreUnits ==
    ASSUME NEW s \in Steps, NEW l \in 1..MaxLoops
    PROVE  /\ WorkUnit(s, l) \in Unit /\ GateUnit(s, l) \in Unit
           /\ \A t \in Steps, k \in 1..MaxLoops :
                /\ WorkUnit(s, l) # GateUnit(t, k)
                /\ WorkUnit(s, l) = WorkUnit(t, k) => s = t /\ l = k
                /\ GateUnit(s, l) = GateUnit(t, k) => s = t /\ l = k
BY KeysAssumption DEF JournalKeys, WorkUnit, GateUnit

\* The gate loop that recovery starts with is a loop or the one past the last;
\* it is past every rejected loop, and the one before it is rejected.
LEMMA StartLoopIsNext ==
    ASSUME NEW s \in Steps
    PROVE  /\ StartLoop(s) \in 1..(MaxLoops + 1)
           /\ s \in Gated => \A k \in RejectedLoops(s) : k < StartLoop(s)
           /\ s \in Gated /\ StartLoop(s) > 1 => StartLoop(s) - 1 \in RejectedLoops(s)
           /\ s \notin Gated => StartLoop(s) = 1
<1> DEFINE S == RejectedLoops(s)
<1>1. S \subseteq 1..MaxLoops
    BY DEF RejectedLoops
<1>2. ASSUME S # {}
      PROVE  \E l \in S : \A k \in S : k =< l
    <2> DEFINE D == {MaxLoops - l : l \in S}
    <2>1. D \subseteq Nat /\ D # {}
        BY <1>1, <1>2
    <2>2. PICK d \in D : \A c \in D : d =< c
        <3>1. IsWellFoundedOn(OpToRel(<, Nat), Nat)
            BY NatLessThanWellFounded
        <3>2. PICK d \in D : \A c \in D : ~(<<c, d>> \in OpToRel(<, Nat))
            <4> HIDE DEF D
            <4> QED
                BY <2>1, <3>1, WFMin
        <3> QED
            <4>1. ASSUME NEW c \in D
                  PROVE  d =< c
                <5>1. d \in Nat /\ c \in Nat
                    BY <2>1, <3>2
                <5>2. ~(c < d)
                    BY <3>2, <5>1 DEF OpToRel
                <5> QED
                    BY <5>1, <5>2
            <4> HIDE DEF D
            <4> QED
                BY <3>2, <4>1
    <2>3. PICK l \in S : d = MaxLoops - l
        BY <2>2
    <2>4. \A k \in S : MaxLoops - k \in D
        OBVIOUS
    <2>5. \A k \in S : k =< l
        <3> HIDE DEF D, S
        <3> QED
            BY <1>1, <2>2, <2>3, <2>4
    <2> QED
        BY <2>5
<1>3. CASE S = {}
    BY <1>3 DEF StartLoop, ActiveGateLoop
<1>4. CASE S # {}
    <2> DEFINE l == CHOOSE i \in S : \A k \in S : k =< i
    <2>1. l \in S /\ \A k \in S : k =< l
        BY <1>2, <1>4
    <2>2. ActiveGateLoop(s) = 1 + l
        BY <1>4 DEF ActiveGateLoop
    <2> HIDE DEF l, S
    <2> QED
        BY <1>1, <2>1, <2>2 DEF StartLoop, S
<1> QED
    BY <1>3, <1>4
-----------------------------------------------------------------------------
(* The locals of an engine.                                                *)

\* An engine that is about to begin, has ended or is between two steps.
LEMMA FreshIsOK ==
    ASSUME NEW label \in Ended \cup {"idle", "release", "next"}, NEW signal \in {"none", "lost", "aborted"}
    PROVE  /\ LocalInv([Fresh EXCEPT !.pc = label])
           /\ LocalInv([Fresh EXCEPT !.pc = label, !.signal = signal])
           /\ [Fresh EXCEPT !.pc = label].pc = label
           /\ [Fresh EXCEPT !.pc = label, !.signal = signal].pc = label
<1> DEFINE m == [pc |-> label, signal |-> signal, at |-> NoStep, loop |-> 0, att |-> 0,
                 tries |-> 0, out |-> "none", verdict |-> "none"]
           n == [pc |-> label, signal |-> "none", at |-> NoStep, loop |-> 0, att |-> 0,
                 tries |-> 0, out |-> "none", verdict |-> "none"]
<1> DEFINE k == [Fresh EXCEPT !.pc = label]
<1>0. k = n
    BY DEF Fresh
<1>1. [k EXCEPT !.signal = signal] = m
    <2> HIDE DEF k
    <2> QED
        BY <1>0
<1>2. 0 \in 0..MaxLoops /\ 0 \in 0..MaxRetry /\ 0 \in Nat
    OBVIOUS
<1>3. m \in Local /\ n \in Local
    BY <1>2 DEF Local, PC, Ended, Leased, Verdict
<1>4. LocalInv(m) /\ LocalInv(n)
    BY <1>3 DEF LocalInv, Ended, InLoop
<1> QED
    BY <1>0, <1>1, <1>4

\* A step of an engine by itself: its locals are set, those of the others stay.
LocalStep(e) ==
    /\ eng' \in [Engine -> Local]
    /\ \A d \in Engine : d # e => eng'[d] = eng[d]
    /\ LocalInv(eng'[e])

\* Locals that are in order are set so.
LEMMA SetLocals ==
    ASSUME EngineInv, NEW e \in Engine, NEW m, LocalInv(m), eng' = [eng EXCEPT ![e] = m]
    PROVE  LocalStep(e) /\ eng'[e] = m
<1>1. m \in Local /\ eng \in [Engine -> Local]
    BY DEF EngineInv, LocalInv
<1> QED
    BY <1>1 DEF LocalStep

\* An engine leaves its step, or its run, with fresh locals.
LEMMA LeaveSteps ==
    ASSUME EngineInv, NEW e \in Engine, NEW label \in Ended \cup {"idle", "release", "next"}, Leave(e, label)
    PROVE  LocalStep(e) /\ eng'[e] = [Fresh EXCEPT !.pc = label] /\ eng'[e].pc = label
<1>1. LocalInv([Fresh EXCEPT !.pc = label]) /\ [Fresh EXCEPT !.pc = label].pc = label
    BY FreshIsOK
<1>2. eng' = [eng EXCEPT ![e] = [Fresh EXCEPT !.pc = label]]
    BY DEF Leave
<1> QED
    BY <1>1, <1>2, SetLocals

\* The next label with the locals as they are.
LEMMA GotoSteps ==
    ASSUME EngineInv, NEW e \in Engine, NEW label, Goto(e, label),
           LocalInv([eng[e] EXCEPT !.pc = label])
    PROVE  LocalStep(e) /\ eng'[e] = [eng[e] EXCEPT !.pc = label]
<1>1. eng' = [eng EXCEPT ![e] = [eng[e] EXCEPT !.pc = label]]
    BY DEF Goto
<1> QED
    BY <1>1, SetLocals

\* The run is read: the cursor and the lease.
LEMMA ReadRunLocals ==
    ASSUME EngineInv, NEW e \in Engine, ReadRun(e)
    PROVE  LocalStep(e)
<1> DEFINE l == eng[e]
<1>0. LocalInv(l) /\ l \in Local /\ current \in Steps \cup {NoStep}
    BY DEF EngineInv, LocalInv, SpineInv, SpineTypeOK
<1>1. CASE \/ l.pc = "idle" /\ runStatus # "active" /\ Leave(e, "done")
           \/ l.pc = "next" /\ runStatus # "active" /\ Leave(e, "release")
    BY <1>1, LeaveSteps DEF Ended
<1>2. ASSUME NEW label \in {"readSteps", "nextSteps"},
             eng' = [eng EXCEPT ![e].pc = label, ![e].at = current]
      PROVE  LocalStep(e)
    <2> DEFINE m == [l EXCEPT !.pc = label, !.at = current]
    <2>1. LocalInv(m)
        BY <1>0 DEF LocalInv, Local, PC, Leased, InLoop
    <2>2. eng' = [eng EXCEPT ![e] = m]
        BY <1>2
    <2> HIDE DEF m
    <2> QED
        BY <2>1, <2>2, SetLocals
<1> QED
    BY <1>1, <1>2 DEF ReadRun

\* The step at the cursor is read, or the bound on steps reached.
LEMMA ReadStepsLocals ==
    ASSUME EngineInv, NEW e \in Engine, ReadSteps(e) \/ StopAtMaxSteps(e)
    PROVE  LocalStep(e)
<1> DEFINE l == eng[e]
<1>0. LocalInv(l) /\ l \in Local
    BY DEF EngineInv
<1>1. CASE Leave(e, "corrupt") \/ Leave(e, "release")
    BY <1>1, LeaveSteps DEF Ended
<1>2. ASSUME ReadLooksRight(e), NEW label \in {"acquire", "renew"}, Goto(e, label)
      PROVE  LocalStep(e)
    <2>1. l.at \in Steps
        BY <1>2 DEF ReadLooksRight, StatusMatchesSpine
    <2>2. LocalInv([l EXCEPT !.pc = label])
        BY <1>0, <2>1 DEF LocalInv, Local, PC, Leased, InLoop
    <2> QED
        BY <1>2, <2>2, GotoSteps
<1> QED
    BY <1>1, <1>2 DEF ReadSteps, StopAtMaxSteps

\* The lease is taken, renewed or released, or its holder dies.
LEMMA LeaseLocals ==
    ASSUME EngineInv, NEW e \in Engine,
           \/ AcquireRunLease(e) \/ RenewBetweenSteps(e) \/ RenewBetweenLoops(e)
           \/ ReleaseRunLease(e) \/ Crash(e)
    PROVE  LocalStep(e)
<1> DEFINE l == eng[e]
<1>0. LocalInv(l) /\ l \in Local
    BY DEF EngineInv
<1>1. CASE Leave(e, "done") \/ Leave(e, "release") \/ Leave(e, "crashed")
    BY <1>1, LeaveSteps DEF Ended
<1>2. ASSUME NEW label, Goto(e, label), LocalInv([l EXCEPT !.pc = label])
      PROVE  LocalStep(e)
    BY <1>2, GotoSteps
<1>3. /\ l.pc = "acquire" => LocalInv([l EXCEPT !.pc = "renew"])
      /\ l.pc = "renew" => LocalInv([l EXCEPT !.pc = "recover"])
      /\ l.pc = "renewLoop" => LocalInv([l EXCEPT !.pc = "classify"])
    BY <1>0 DEF LocalInv, Local, PC, Leased, InLoop
<1> QED
    BY <1>1, <1>2, <1>3
    DEF AcquireRunLease, RenewBetweenSteps, RenewBetweenLoops, ReleaseRunLease, Crash

\* A signal says nothing of where the engine is.
LEMMA SignalLocals ==
    ASSUME EngineInv, NEW e \in Engine, HeartbeatTick(e) \/ SignalRaised(e)
    PROVE  /\ LocalStep(e)
           /\ \E s \in {"lost", "aborted"} : eng'[e] \in {eng[e], [eng[e] EXCEPT !.signal = s]}
<1> DEFINE l == eng[e]
<1>0. LocalInv(l) /\ l \in Local
    BY DEF EngineInv
<1>1. CASE UNCHANGED eng
    BY <1>0, <1>1 DEF LocalStep, EngineInv
<1>2. ASSUME NEW s \in {"lost", "aborted"}, eng' = [eng EXCEPT ![e].signal = s]
      PROVE  LocalStep(e) /\ eng'[e] = [l EXCEPT !.signal = s]
    <2> DEFINE m == [l EXCEPT !.signal = s]
    <2>1. LocalInv(m)
        BY <1>0 DEF LocalInv, Local, InLoop
    <2>2. eng' = [eng EXCEPT ![e] = m]
        BY <1>2
    <2> QED
        BY <2>1, <2>2, SetLocals
<1> QED
    BY <1>1, <1>2 DEF HeartbeatTick, SignalRaised

\* The gate loop is chosen.
LEMMA SetLoop ==
    ASSUME NEW l \in Local, NEW label \in PC, NEW n \in 0..MaxLoops
    PROVE  [l EXCEPT !.pc = label, !.loop = n, !.verdict = "none"] \in Local
BY DEF Local, Verdict

\* The loop to go on with is found in the rows of the gate.
LEMMA RecoverLocals ==
    ASSUME EngineInv, NEW e \in Engine, RecoverGateLoopState(e)
    PROVE  LocalStep(e)
<1> DEFINE l == eng[e]
           startLoop == StartLoop(l.at)
<1>0. LocalInv(l) /\ l \in Local /\ l.pc = "recover" /\ l.at \in Steps
    BY DEF EngineInv, RecoverGateLoopState, LocalInv
<1>1. startLoop \in 1..(MaxLoops + 1)
    BY <1>0, StartLoopIsNext
<1>2. CASE Leave(e, "release")
    BY <1>2, LeaveSteps DEF Ended
<1>3. CASE /\ startLoop =< MaxLoops
           /\ eng' = [eng EXCEPT ![e].pc = FirstOfLoop(startLoop), ![e].loop = startLoop,
                                 ![e].verdict = "none"]
    <2> DEFINE m == [l EXCEPT !.pc = FirstOfLoop(startLoop), !.loop = startLoop, !.verdict = "none"]
    <2> HIDE DEF startLoop
    <2>1. FirstOfLoop(startLoop) \in {"renewLoop", "classify"} /\ startLoop \in 1..MaxLoops
        BY <1>1, <1>3 DEF FirstOfLoop
    <2>2. m \in Local
        <3>1. startLoop \in 0..MaxLoops /\ FirstOfLoop(startLoop) \in PC
            BY <2>1 DEF PC, Leased
        <3> QED
            BY <1>0, <3>1, SetLoop
    <2>3. LocalInv(m)
        BY <1>0, <2>1, <2>2 DEF LocalInv, Local, InLoop
    <2>4. eng' = [eng EXCEPT ![e] = m]
        BY <1>3
    <2> QED
        BY <2>3, <2>4, SetLocals
<1>4. CASE eng' = [eng EXCEPT ![e].pc = "commit", ![e].verdict = "block"]
    <2> DEFINE m == [l EXCEPT !.pc = "commit", !.verdict = "block"]
    <2>1. LocalInv(m)
        BY <1>0 DEF LocalInv, Local, PC, Leased, InLoop, Verdict
    <2>2. eng' = [eng EXCEPT ![e] = m]
        BY <1>4
    <2> QED
        BY <2>1, <2>2, SetLocals
<1> QED
    BY <1>2, <1>3, <1>4 DEF RecoverGateLoopState

\* What an earlier attempt has left of the work is looked at.
LEMMA ClassifyLocals ==
    ASSUME EngineInv, NEW e \in Engine, ClassifyUnitReuse(e)
    PROVE  LocalStep(e)
<1> DEFINE l == eng[e]
           prior == row[WorkUnit(l.at, l.loop)]
<1>0. LocalInv(l) /\ l \in Local /\ l.pc = "classify" /\ l.at \in Steps /\ l.loop \in 1..MaxLoops
    BY DEF EngineInv, ClassifyUnitReuse, LocalInv, InLoop
<1>1. CASE /\ prior.status = "completed"
           /\ eng' = [eng EXCEPT ![e].pc = "assertAlive", ![e].out = prior.result]
    <2> DEFINE m == [l EXCEPT !.pc = "assertAlive", !.out = prior.result]
    <2>1. prior.result \in {"good", "mismatch"}
        BY <1>0, <1>1 DEF EngineInv, WorkRowsOK
    <2> HIDE DEF prior
    <2>2. LocalInv(m)
        BY <1>0, <2>1 DEF LocalInv, Local, PC, Leased, InLoop, WorkOutcome
    <2>3. eng' = [eng EXCEPT ![e] = m]
        BY <1>1
    <2> QED
        BY <2>2, <2>3, SetLocals
<1>2. CASE eng' = [eng EXCEPT ![e].pc = "reserve", ![e].out = "none"]
    <2> DEFINE m == [l EXCEPT !.pc = "reserve", !.out = "none"]
    <2>1. LocalInv(m)
        BY <1>0 DEF LocalInv, Local, PC, Leased, InLoop
    <2>2. eng' = [eng EXCEPT ![e] = m]
        BY <1>2
    <2> QED
        BY <2>1, <2>2, SetLocals
<1> QED
    BY <1>1, <1>2 DEF ClassifyUnitReuse

\* Where an engine stands in the journal: the keys of its unit and of its gate.
LEMMA KeysOfEngine ==
    ASSUME EngineInv, NEW e \in Engine, eng[e].pc \in InLoop
    PROVE  /\ LocalInv(eng[e]) /\ eng[e] \in Local
           /\ eng[e].at \in Steps /\ eng[e].loop \in 1..MaxLoops
           /\ WorkUnit(eng[e].at, eng[e].loop) \in Unit
           /\ GateUnit(eng[e].at, eng[e].loop) \in Unit
<1>1. LocalInv(eng[e]) /\ eng[e] \in Local /\ eng[e].at \in Steps /\ eng[e].loop \in 1..MaxLoops
    BY DEF EngineInv, LocalInv
<1> QED
    BY <1>1, KeysAreUnits

\* A unit is about to be reserved: it is, or it is settled without a dispatch.
LEMMA ReserveLocals ==
    ASSUME EngineInv, NEW e \in Engine, ReserveDispatch(e)
    PROVE  LocalStep(e)
<1> DEFINE l == eng[e]
           u == WorkUnit(l.at, l.loop)
<1>0. l.pc = "reserve" /\ LocalInv(l) /\ l \in Local /\ u \in Unit
    BY KeysOfEngine DEF ReserveDispatch, InLoop
<1>1. CASE /\ ReserveUnitAttempt(e, u)
           /\ eng' = [eng EXCEPT ![e].pc = "dispatch", ![e].att = ReservedAttempt(u)]
    <2>1. ReservedAttempt(u) \in Nat
        BY <1>0, <1>1, ReserveByRow DEF EngineInv
    <2>2. PICK n \in Nat : n = ReservedAttempt(u)
        BY <2>1
    <2> DEFINE m == [l EXCEPT !.pc = "dispatch", !.att = n]
    <2> HIDE DEF u
    <2>3. LocalInv(m)
        BY <1>0, <2>2 DEF LocalInv, Local, PC, Leased, InLoop
    <2>4. eng' = [eng EXCEPT ![e] = m]
        BY <1>1, <2>2
    <2> QED
        BY <2>3, <2>4, SetLocals
<1>2. ASSUME NEW outcome \in WorkOutcome,
             eng' = [eng EXCEPT ![e].pc = "assertAlive", ![e].tries = 0, ![e].out = outcome]
      PROVE  LocalStep(e)
    <2> DEFINE m == [l EXCEPT !.pc = "assertAlive", !.tries = 0, !.out = outcome]
    <2>1. 0 \in 0..MaxRetry
        OBVIOUS
    <2>2. m \in Local
        BY <1>0, <2>1 DEF Local, PC, Leased
    <2>3. LocalInv(m)
        BY <1>0, <2>2 DEF LocalInv, Local, InLoop
    <2>4. eng' = [eng EXCEPT ![e] = m]
        BY <1>2
    <2> QED
        BY <2>3, <2>4, SetLocals
<1>3. l.out = "none" \/ l.out \in WorkOutcome
    BY <1>0 DEF Local
<1>4. "error" \in WorkOutcome /\ "aborted" \in WorkOutcome
    BY DEF WorkOutcome
<1> QED
    BY <1>1, <1>2, <1>3, <1>4 DEF ReserveDispatch

\* The answer of a unit.
LEMMA DispatchLocals ==
    ASSUME EngineInv, NEW e \in Engine, DispatchUnit(e)
    PROVE  LocalStep(e)
<1> DEFINE l == eng[e]
<1>0. l.pc = "dispatch" /\ LocalInv(l) /\ l \in Local
    BY KeysOfEngine DEF DispatchUnit, InLoop
<1>1. PICK answer \in WorkOutcome : eng' = [eng EXCEPT ![e].pc = "finish", ![e].out = answer]
    BY DEF DispatchUnit
<1> DEFINE m == [l EXCEPT !.pc = "finish", !.out = answer]
<1>2. LocalInv(m)
    BY <1>0 DEF LocalInv, Local, PC, Leased, InLoop
<1>3. eng' = [eng EXCEPT ![e] = m]
    BY <1>1
<1> QED
    BY <1>2, <1>3, SetLocals

\* The answer has been journaled, or is too late to be.
LEMMA FinishLocals ==
    ASSUME EngineInv, NEW e \in Engine, FinishDispatch(e)
    PROVE  LocalStep(e)
<1> DEFINE l == eng[e]
<1>0. l.pc = "finish" /\ LocalInv(l) /\ l \in Local
    BY KeysOfEngine DEF FinishDispatch, InLoop
<1>1. CASE eng' = [eng EXCEPT ![e].pc = "assertAlive", ![e].att = 0, ![e].tries = 0]
    <2> DEFINE m == [l EXCEPT !.pc = "assertAlive", !.att = 0, !.tries = 0]
    <2>1. 0 \in 0..MaxRetry /\ 0 \in Nat
        OBVIOUS
    <2>2. m \in Local
        BY <1>0, <2>1 DEF Local, PC, Leased
    <2>3. LocalInv(m)
        BY <1>0, <2>2 DEF LocalInv, Local, InLoop
    <2>4. eng' = [eng EXCEPT ![e] = m]
        BY <1>1
    <2> QED
        BY <2>3, <2>4, SetLocals
<1>2. CASE /\ l.tries < MaxRetry
           /\ eng' = [eng EXCEPT ![e].pc = "reserve", ![e].att = 0, ![e].tries = @ + 1]
    <2>1. l.tries + 1 \in 0..MaxRetry /\ 0 \in Nat
        BY <1>0, <1>2 DEF Local
    <2>2. PICK t \in 0..MaxRetry : t = l.tries + 1
        BY <2>1
    <2> DEFINE m == [l EXCEPT !.pc = "reserve", !.att = 0, !.tries = t]
    <2>3. m \in Local
        BY <1>0, <2>1 DEF Local, PC, Leased
    <2>4. LocalInv(m)
        BY <1>0, <2>3 DEF LocalInv, Local, InLoop
    <2>5. eng' = [eng EXCEPT ![e] = m]
        BY <1>2, <2>2
    <2> QED
        BY <2>4, <2>5, SetLocals
<1> QED
    BY <1>1, <1>2 DEF FinishDispatch

\* The signal is looked at before the step is finalized.
LEMMA AssertAliveLocals ==
    ASSUME EngineInv, NEW e \in Engine, AssertAlive(e)
    PROVE  LocalStep(e)
<1> DEFINE l == eng[e]
<1>0. l.pc = "assertAlive" /\ LocalInv(l) /\ l \in Local
    BY KeysOfEngine DEF AssertAlive, InLoop
<1>1. LocalInv([l EXCEPT !.pc = "finalize"])
    BY <1>0 DEF LocalInv, Local, PC, Leased, InLoop
<1>2. CASE Goto(e, "finalize")
    BY <1>1, <1>2, GotoSteps
<1>3. CASE Leave(e, "release")
    BY <1>3, LeaveSteps
<1> QED
    BY <1>2, <1>3 DEF AssertAlive

\* The step's units are reduced.
LEMMA FinalizeLocals ==
    ASSUME EngineInv, NEW e \in Engine, FinalizeExecutedStep(e)
    PROVE  LocalStep(e)
<1> DEFINE l == eng[e]
<1>0. /\ l.pc = "finalize" /\ LocalInv(l) /\ l \in Local
      /\ l.at \in Steps /\ l.loop \in 1..MaxLoops /\ l.verdict = "none"
    BY KeysOfEngine DEF FinalizeExecutedStep, InLoop, LocalInv
<1>1. CASE Leave(e, "release")
    BY <1>1, LeaveSteps
<1>2. CASE /\ l.loop < MaxLoops
           /\ eng' = [eng EXCEPT ![e].pc = "renewLoop", ![e].loop = @ + 1, ![e].out = "none"]
    <2>1. PICK n \in 1..MaxLoops : n = l.loop + 1
        BY <1>0, <1>2
    <2> DEFINE m == [l EXCEPT !.pc = "renewLoop", !.loop = n, !.out = "none"]
    <2>2. n \in 0..MaxLoops
        BY <2>1
    <2>3. m \in Local
        BY <1>0, <2>2 DEF Local, PC, Leased
    <2>4. LocalInv(m)
        BY <1>0, <2>1, <2>3 DEF LocalInv, Local, InLoop
    <2>5. eng' = [eng EXCEPT ![e] = m]
        BY <1>2, <2>1
    <2> QED
        BY <2>4, <2>5, SetLocals
<1>3. CASE eng' = [eng EXCEPT ![e].pc = "commit", ![e].verdict = "fail"]
    <2> DEFINE m == [l EXCEPT !.pc = "commit", !.verdict = "fail"]
    <2>1. LocalInv(m)
        BY <1>0 DEF LocalInv, Local, PC, Leased, InLoop, Verdict
    <2>2. eng' = [eng EXCEPT ![e] = m]
        BY <1>3
    <2> QED
        BY <2>1, <2>2, SetLocals
<1>4. CASE Goto(e, IF l.at \in Gated THEN "gateStart" ELSE "commit")
    <2>1. CASE l.at \in Gated
        <3>1. LocalInv([l EXCEPT !.pc = "gateStart"])
            BY <1>0, <2>1 DEF LocalInv, Local, PC, Leased, InLoop
        <3> QED
            BY <1>4, <2>1, <3>1, GotoSteps
    <2>2. CASE l.at \notin Gated
        <3>1. LocalInv([l EXCEPT !.pc = "commit"])
            BY <1>0, <2>2 DEF LocalInv, Local, PC, Leased, InLoop
        <3> QED
            BY <1>4, <2>2, <3>1, GotoSteps
    <2> QED
        BY <2>1, <2>2
<1> QED
    BY <1>1, <1>2, <1>3, <1>4 DEF FinalizeExecutedStep

\* The gate row is reserved, or the invocation ends.
LEMMA GateStartLocals ==
    ASSUME EngineInv, NEW e \in Engine, JournalGateStart(e)
    PROVE  LocalStep(e)
<1> DEFINE l == eng[e]
           u == GateUnit(l.at, l.loop)
<1>0. l.pc = "gateStart" /\ LocalInv(l) /\ l \in Local /\ u \in Unit
    BY KeysOfEngine DEF JournalGateStart, InLoop
<1>1. CASE /\ ReserveUnitAttempt(e, u)
           /\ eng' = [eng EXCEPT ![e].pc = "judge", ![e].att = ReservedAttempt(u)]
    <2>1. PICK n \in Nat : n = ReservedAttempt(u)
        BY <1>0, <1>1, ReserveByRow DEF EngineInv
    <2> DEFINE m == [l EXCEPT !.pc = "judge", !.att = n]
    <2> HIDE DEF u
    <2>2. LocalInv(m)
        BY <1>0, <2>1 DEF LocalInv, Local, PC, Leased, InLoop
    <2>3. eng' = [eng EXCEPT ![e] = m]
        BY <1>1, <2>1
    <2> QED
        BY <2>2, <2>3, SetLocals
<1>2. CASE Leave(e, "release")
    BY <1>2, LeaveSteps
<1> QED
    BY <1>1, <1>2 DEF JournalGateStart

\* The judge has answered; only an acceptance goes on to the write transaction.
LEMMA JudgeLocals ==
    ASSUME EngineInv, NEW e \in Engine, JudgeStep(e)
    PROVE  /\ LocalStep(e)
           /\ eng'[e].pc = "gateFinish" => eng'[e].verdict # "accept"
<1> DEFINE l == eng[e]
<1>0. l.pc = "judge" /\ LocalInv(l) /\ l \in Local /\ l.at \in Gated
    BY KeysOfEngine DEF JudgeStep, InLoop, LocalInv
<1>1. PICK v \in {"accept", "reject", "judgeError", "interrupted"} :
        eng' = [eng EXCEPT ![e].verdict = v,
                           ![e].pc = IF v = "accept" THEN "commit" ELSE "gateFinish"]
    BY DEF JudgeStep
<1>2. PICK label \in {"commit", "gateFinish"} : label = IF v = "accept" THEN "commit" ELSE "gateFinish"
    OBVIOUS
<1> DEFINE m == [l EXCEPT !.verdict = v, !.pc = label]
<1>3. m \in Local
    BY <1>0 DEF Local, PC, Leased, Verdict
<1>4. LocalInv(m)
    BY <1>0, <1>2, <1>3 DEF LocalInv, Local, InLoop
<1>5. eng' = [eng EXCEPT ![e] = m]
    BY <1>1, <1>2
<1>6. m.pc = "gateFinish" => m.verdict # "accept"
    BY <1>0, <1>2 DEF Local
<1> QED
    BY <1>4, <1>5, <1>6, SetLocals

\* An engine that goes on to the next step keeps its signal only.
LEMMA NextLocals ==
    ASSUME EngineInv, NEW e \in Engine,
           eng' = [eng EXCEPT ![e] = [Fresh EXCEPT !.pc = "next", !.signal = eng[e].signal]]
    PROVE  LocalStep(e) /\ eng'[e].pc = "next"
<1>1. eng[e].signal \in {"none", "lost", "aborted"}
    BY DEF EngineInv, Local
<1>2. LocalInv([Fresh EXCEPT !.pc = "next", !.signal = eng[e].signal])
      /\ [Fresh EXCEPT !.pc = "next", !.signal = eng[e].signal].pc = "next"
    BY <1>1, FreshIsOK
<1> QED
    BY <1>2, SetLocals

\* The write transaction: an acceptance goes on to journal its verdict, or what
\* became of it.
LEMMA CommitLocals ==
    ASSUME EngineInv, NEW e \in Engine, CommitStep(e)
    PROVE  /\ LocalStep(e)
           /\ eng'[e].pc = "gateFinish" /\ eng'[e].verdict = "accept" =>
                /\ eng'[e].at = eng[e].at /\ eng[e].verdict = "accept"
                /\ AdvanceSpine(e, eng[e].at, "completed")
<1> DEFINE l == eng[e]
<1>0. l.pc = "commit" /\ LocalInv(l) /\ l \in Local /\ l.at \in Steps
    BY DEF CommitStep, EngineInv, LocalInv
<1>1. CASE Leave(e, "release")
    <2>1. LocalStep(e) /\ eng'[e].pc = "release"
        BY <1>1, LeaveSteps
    <2> QED
        BY <2>1
<1>2. CASE eng' = [eng EXCEPT ![e] = [Fresh EXCEPT !.pc = "next", !.signal = l.signal]]
    <2>1. LocalStep(e) /\ eng'[e].pc = "next"
        BY <1>2, NextLocals
    <2> QED
        BY <2>1
<1>3. CASE l.verdict = "accept" /\ Goto(e, "gateFinish") /\ AdvanceSpine(e, l.at, CompletionOutcome(e))
    <2> DEFINE m == [l EXCEPT !.pc = "gateFinish"]
    <2>1. LocalInv(m) /\ m.at = l.at
        BY <1>0, <1>3 DEF LocalInv, Local, PC, Leased, InLoop
    <2>2. CompletionOutcome(e) = "completed"
        BY <1>3 DEF CompletionOutcome
    <2>3. LocalStep(e) /\ eng'[e] = m
        BY <1>3, <2>1, GotoSteps
    <2> QED
        BY <1>3, <2>1, <2>2, <2>3
<1>4. CASE /\ l.verdict = "accept"
           /\ eng' = [eng EXCEPT ![e].pc = "gateFinish", ![e].verdict = "interrupted"]
    <2> DEFINE m == [l EXCEPT !.pc = "gateFinish", !.verdict = "interrupted"]
    <2>1. LocalInv(m) /\ m.verdict = "interrupted"
        BY <1>0, <1>4 DEF LocalInv, Local, PC, Leased, InLoop, Verdict
    <2>2. eng' = [eng EXCEPT ![e] = m]
        BY <1>4
    <2>3. LocalStep(e) /\ eng'[e] = m
        BY <2>1, <2>2, SetLocals
    <2> QED
        BY <2>1, <2>3
<1> QED
    BY <1>1, <1>2, <1>3, <1>4 DEF CommitStep

\* An engine that goes on to the next loop keeps its step and its signal only.
LEMMA NextLoop ==
    ASSUME NEW at, NEW signal, NEW loop
    PROVE  [Fresh EXCEPT !.pc = "renewLoop", !.at = at, !.signal = signal, !.loop = loop] =
           [pc |-> "renewLoop", signal |-> signal, at |-> at, loop |-> loop,
            att |-> 0, tries |-> 0, out |-> "none", verdict |-> "none"]
<1> DEFINE k == [Fresh EXCEPT !.pc = "renewLoop"]
           n == [k EXCEPT !.at = at]
           p == [n EXCEPT !.signal = signal]
<1>1. k = [pc |-> "renewLoop", signal |-> "none", at |-> NoStep, loop |-> 0, att |-> 0,
           tries |-> 0, out |-> "none", verdict |-> "none"]
    BY DEF Fresh
<1>2. n = [pc |-> "renewLoop", signal |-> "none", at |-> at, loop |-> 0, att |-> 0,
           tries |-> 0, out |-> "none", verdict |-> "none"]
    <2> HIDE DEF k
    <2> QED
        BY <1>1
<1>3. p = [pc |-> "renewLoop", signal |-> signal, at |-> at, loop |-> 0, att |-> 0,
           tries |-> 0, out |-> "none", verdict |-> "none"]
    <2> HIDE DEF n
    <2> QED
        BY <1>2
<1>4. [p EXCEPT !.loop = loop] = [pc |-> "renewLoop", signal |-> signal, at |-> at, loop |-> loop,
            att |-> 0, tries |-> 0, out |-> "none", verdict |-> "none"]
    <2> HIDE DEF p
    <2> QED
        BY <1>3
<1> QED
    BY <1>4

\* The verdict has been journaled, or the claim of the gate is lost.
LEMMA GateFinishLocals ==
    ASSUME EngineInv, NEW e \in Engine, GateFinish(e)
    PROVE  LocalStep(e) /\ eng'[e].pc # "gateFinish"
<1> DEFINE l == eng[e]
<1>0. /\ l.pc = "gateFinish" /\ LocalInv(l) /\ l \in Local
      /\ l.at \in Steps /\ l.loop \in 1..MaxLoops /\ l.at \in Gated
    BY KeysOfEngine DEF GateFinish, InLoop, LocalInv
<1>1. CASE Leave(e, "release")
    BY <1>1, LeaveSteps
<1>2. CASE eng' = [eng EXCEPT ![e] = [Fresh EXCEPT !.pc = "next", !.signal = l.signal]]
    BY <1>2, NextLocals
<1>3. CASE /\ l.loop < MaxLoops
           /\ eng' = [eng EXCEPT ![e] = [Fresh EXCEPT !.pc = "renewLoop", !.at = l.at,
                                    !.signal = l.signal, !.loop = l.loop + 1]]
    <2> DEFINE m == [pc |-> "renewLoop", signal |-> l.signal, at |-> l.at, loop |-> l.loop + 1,
                     att |-> 0, tries |-> 0, out |-> "none", verdict |-> "none"]
    <2>1. /\ l.loop + 1 \in 0..MaxLoops /\ l.loop + 1 \in 1..MaxLoops
          /\ 0 \in 0..MaxRetry /\ 0 \in Nat /\ l.signal \in {"none", "lost", "aborted"}
        BY <1>0, <1>3 DEF Local
    <2>2. m \in Local
        BY <1>0, <2>1 DEF Local, PC, Leased, Verdict
    <2>3. LocalInv(m) /\ m.pc = "renewLoop"
        BY <1>0, <2>1, <2>2 DEF LocalInv, InLoop
    <2>4. [Fresh EXCEPT !.pc = "renewLoop", !.at = l.at, !.signal = l.signal, !.loop = l.loop + 1] = m
        BY NextLoop
    <2>5. eng' = [eng EXCEPT ![e] = m]
        <3> HIDE DEF m
        <3> QED
            BY <1>3, <2>4
    <2> HIDE DEF m
    <2> QED
        BY <2>3, <2>5, SetLocals
<1>4. CASE eng' = [eng EXCEPT ![e].pc = "commit", ![e].att = 0, ![e].verdict = "block"]
    <2> DEFINE m == [l EXCEPT !.pc = "commit", !.att = 0, !.verdict = "block"]
    <2>1. 0 \in Nat
        OBVIOUS
    <2>2. m \in Local
        BY <1>0, <2>1 DEF Local, PC, Leased, Verdict
    <2>3. LocalInv(m) /\ m.pc = "commit"
        BY <1>0, <2>2 DEF LocalInv, Local, InLoop
    <2>4. eng' = [eng EXCEPT ![e] = m]
        BY <1>4
    <2> QED
        BY <2>3, <2>4, SetLocals
<1> QED
    BY <1>1, <1>2, <1>3, <1>4 DEF GateFinish

\* Whatever an engine does by itself, it sets its own locals and keeps them in order.
LEMMA EngineLocals ==
    ASSUME EngineInv, NEW e \in Engine,
           EngineStep(e) \/ HeartbeatTick(e) \/ SignalRaised(e) \/ Crash(e)
    PROVE  LocalStep(e)
BY ReadRunLocals, ReadStepsLocals, LeaseLocals, SignalLocals, RecoverLocals, ClassifyLocals,
   ReserveLocals, DispatchLocals, FinishLocals, AssertAliveLocals, FinalizeLocals,
   GateStartLocals, JudgeLocals, CommitLocals, GateFinishLocals
DEF EngineStep

-----------------------------------------------------------------------------
(* The rows.                                                               *)

\* The journal and the spine take a step of their own, or none.
RowStep == [(SpineNext /\ UNCHANGED journalVars) \/ JournalNext]_<<spineVars, journalVars>>

\* A read of the run leaves it alone or reclaims an expired lease.
LEMMA ReadIsSpineStep ==
    ASSUME holder' = HolderAfterRead, UNCHANGED <<runStatus, current, step, live, resuming, snap>>
    PROVE  SpineNext \/ UNCHANGED spineVars
<1>1. CASE live \/ holder = None
    BY <1>1 DEF HolderAfterRead, spineVars
<1>2. CASE ~(live \/ holder = None)
    BY <1>2 DEF HolderAfterRead, ReclaimExpiredLease, SpineNext
<1> QED
    BY <1>1, <1>2

\* The write transaction is one of the spine's.
LEMMA AdvanceIsSpineStep ==
    ASSUME EngineInv, NEW e \in Engine, eng[e].pc = "commit", AdvanceSpine(e, eng[e].at, CompletionOutcome(e))
    PROVE  SpineNext
<1>1. eng[e].at \in Steps
    BY DEF EngineInv, LocalInv
<1>2. CompletionOutcome(e) \in StepStatus \ {"pending"}
    BY DEF CompletionOutcome, StepStatus
<1> QED
    BY <1>1, <1>2 DEF SpineNext

\* Everything an engine does to the rows is a step of the journal under the spine.
LEMMA EngineStepIsRowStep ==
    ASSUME EngineInv, NEW e \in Engine, EngineStep(e)
    PROVE  RowStep
<1> DEFINE l == eng[e]
<1>0. JournalInv /\ LocalInv(l)
    BY DEF EngineInv
<1>1. CASE UNCHANGED <<spineVars, journalVars>>
    BY <1>1 DEF RowStep
<1>2. CASE SpineNext /\ UNCHANGED journalVars
    BY <1>2 DEF RowStep
<1>3. CASE JournalNext
    BY <1>3 DEF RowStep
<1>4. CASE AcquireRunLease(e) \/ RenewBetweenSteps(e) \/ RenewBetweenLoops(e) \/ ReleaseRunLease(e)
    BY <1>1, <1>2, <1>4
    DEF AcquireRunLease, RenewBetweenSteps, RenewBetweenLoops, ReleaseRunLease, SpineNext
<1>5. CASE ReserveDispatch(e)
    <2>1. WorkUnit(l.at, l.loop) \in Unit
        BY <1>5, KeysOfEngine DEF ReserveDispatch, InLoop
    <2> QED
        BY <1>1, <1>3, <1>5, <2>1 DEF ReserveDispatch, JournalNext
<1>6. CASE FinishDispatch(e)
    <2>1. WorkUnit(l.at, l.loop) \in Unit /\ l.out \in WorkOutcome
        BY <1>0, <1>6, KeysOfEngine DEF FinishDispatch, InLoop, LocalInv
    <2>2. l.out \in Outcome \cup {None}
        BY <2>1, KeysAssumption
    <2>3. "completed" \in AttemptStatus \ {"running"} /\ "failed" \in AttemptStatus \ {"running"}
        BY DEF AttemptStatus
    <2> QED
        BY <1>0, <1>1, <1>3, <1>6, <2>1, <2>2, <2>3, FinishByRow DEF FinishDispatch
<1>7. CASE JournalGateStart(e)
    <2>1. GateUnit(l.at, l.loop) \in Unit
        BY <1>7, KeysOfEngine DEF JournalGateStart, InLoop
    <2> QED
        BY <1>1, <1>3, <1>7, <2>1 DEF JournalGateStart, JournalNext
<1>8. CASE GateFinish(e)
    <2>1. GateUnit(l.at, l.loop) \in Unit
        BY <1>8, KeysOfEngine DEF GateFinish, InLoop
    <2>2. "accept" \in Outcome \cup {None} /\ "reject" \in Outcome \cup {None}
        BY KeysAssumption
    <2>3. "completed" \in AttemptStatus \ {"running"} /\ "failed" \in AttemptStatus \ {"running"}
        BY DEF AttemptStatus
    <2> QED
        BY <1>0, <1>1, <1>3, <1>8, <2>1, <2>2, <2>3, FinishByRow DEF GateFinish
<1>9. CASE FinalizeExecutedStep(e)
    <2>1. CASE holder' = HolderAfterRead
        BY <1>1, <1>2, <1>9, <2>1, ReadIsSpineStep DEF FinalizeExecutedStep
    <2>2. CASE UNCHANGED holder
        BY <1>1, <1>9, <2>2 DEF FinalizeExecutedStep, spineVars
    <2> QED
        BY <1>9, <2>1, <2>2 DEF FinalizeExecutedStep
<1>10. CASE CommitStep(e)
    <2>1. l.pc = "commit" /\ UNCHANGED journalVars
        BY <1>10 DEF CommitStep
    <2>2. CASE AdvanceSpine(e, l.at, CompletionOutcome(e))
        BY <1>2, <2>1, <2>2, AdvanceIsSpineStep
    <2>3. CASE /\ holder' = IF CompletionOutcome(e) = "completed" THEN holder ELSE HolderAfterRead
               /\ UNCHANGED <<runStatus, current, step, live, resuming, snap>>
        <3>1. CASE holder' = HolderAfterRead
            BY <1>1, <1>2, <2>1, <2>3, <3>1, ReadIsSpineStep
        <3>2. CASE holder' = holder
            BY <1>1, <2>1, <2>3, <3>2 DEF spineVars
        <3> QED
            BY <2>3, <3>1, <3>2
    <2> QED
        BY <1>10, <2>2, <2>3 DEF CommitStep
<1>11. CASE \/ ReadRun(e) \/ ReadSteps(e) \/ StopAtMaxSteps(e) \/ RecoverGateLoopState(e)
            \/ ClassifyUnitReuse(e) \/ DispatchUnit(e) \/ AssertAlive(e) \/ JudgeStep(e)
    BY <1>1, <1>11 DEF ReadRun, ReadSteps, StopAtMaxSteps, RecoverGateLoopState,
                       ClassifyUnitReuse, DispatchUnit, AssertAlive, JudgeStep
<1> QED
    BY <1>4, <1>5, <1>6, <1>7, <1>8, <1>9, <1>10, <1>11 DEF EngineStep

\* So is everything else.
LEMMA NextIsRowStep ==
    ASSUME EngineInv, [Next]_vars
    PROVE  RowStep
<1>1. ASSUME NEW e \in Engine, HeartbeatTick(e) \/ SignalRaised(e) \/ Crash(e)
      PROVE  RowStep
    BY <1>1 DEF HeartbeatTick, SignalRaised, Crash, RowStep, SpineNext
<1>2. CASE RunLeaseExpires
    BY <1>2 DEF RunLeaseExpires, RowStep, SpineNext
<1>3. CASE Operator
    BY <1>3 DEF Operator, RowStep, SpineNext
<1>4. CASE UNCHANGED vars
    BY <1>4 DEF vars, RowStep
<1> QED
    BY <1>1, <1>2, <1>3, <1>4, EngineStepIsRowStep DEF Next

\* A row step keeps the spine and the journal in order and what is finished.
LEMMA RowStepKeeps ==
    ASSUME EngineInv, RowStep
    PROVE  /\ SpineInv' /\ JournalInv'
           /\ \A s \in Steps : step[s] = "completed" => step'[s] = "completed"
<1>1. [SpineNext]_spineVars
    <2>1. CASE JournalNext
        BY <2>1 DEF JournalNext, ReserveUnitAttempt, FinishUnitAttempt
    <2> QED
        BY <2>1 DEF RowStep
<1>2. SpineInv'
    BY <1>1, SpineInvInductive DEF EngineInv
<1>3. JournalInv'
    BY JournalInvInductive DEF EngineInv, RowStep
<1>4. \A s \in Steps : step[s] \in Finished => step'[s] = step[s]
    BY <1>1, FinishedStepKept DEF EngineInv, spineVars
<1> QED
    BY <1>2, <1>3, <1>4 DEF Finished

\* Only the judge and the write transaction lead to the finish of a gate row.
LEMMA EnterGateFinish ==
    ASSUME EngineInv, NEW e \in Engine, EngineStep(e), eng'[e].pc = "gateFinish"
    PROVE  JudgeStep(e) \/ CommitStep(e)
<1>0. eng \in [Engine -> Local]
    BY DEF EngineInv
<1>1. ASSUME NEW label, Goto(e, label)
      PROVE  label = "gateFinish"
    BY <1>0, <1>1 DEF Goto, Local
<1>2. ASSUME NEW label \in Ended \cup {"idle", "release", "next"}, Leave(e, label)
      PROVE  FALSE
    BY <1>2, LeaveSteps DEF Ended
<1>3. ~(ReadRun(e) \/ ReadSteps(e) \/ StopAtMaxSteps(e) \/ AssertAlive(e))
    BY <1>0, <1>1, <1>2 DEF ReadRun, ReadSteps, StopAtMaxSteps, AssertAlive, Ended, Local
<1>4. ~(AcquireRunLease(e) \/ RenewBetweenSteps(e) \/ RenewBetweenLoops(e) \/ ReleaseRunLease(e))
    BY <1>1, <1>2
    DEF AcquireRunLease, RenewBetweenSteps, RenewBetweenLoops, ReleaseRunLease, Ended
<1>5. ~RecoverGateLoopState(e)
    BY <1>0, <1>2 DEF RecoverGateLoopState, FirstOfLoop, Local
<1>6. ~(ClassifyUnitReuse(e) \/ DispatchUnit(e))
    BY <1>0 DEF ClassifyUnitReuse, DispatchUnit, Local
<1>7. ~ReserveDispatch(e)
    BY <1>0 DEF ReserveDispatch, Local
<1>8. ~FinishDispatch(e)
    BY <1>0 DEF FinishDispatch, Local
<1>9. ~FinalizeExecutedStep(e)
    BY <1>0, <1>1, <1>2 DEF FinalizeExecutedStep, Local
<1>10. ~JournalGateStart(e)
    BY <1>0, <1>2 DEF JournalGateStart, Local
<1>11. ~GateFinish(e)
    BY GateFinishLocals
<1> QED
    BY <1>3, <1>4, <1>5, <1>6, <1>7, <1>8, <1>9, <1>10, <1>11 DEF EngineStep

\* An accepted verdict waits for the write transaction.
LEMMA AcceptStillFollows ==
    ASSUME EngineInv, NEW e \in Engine,
           EngineStep(e) \/ HeartbeatTick(e) \/ SignalRaised(e) \/ Crash(e), RowStep
    PROVE  \A d \in Engine : AcceptFollowsCommit(eng[d])'
<1>0. /\ \A s \in Steps : step[s] = "completed" => step'[s] = "completed"
      /\ \A d \in Engine : AcceptFollowsCommit(eng[d]) /\ eng[d] \in Local /\ LocalInv(eng[d])
    BY RowStepKeeps DEF EngineInv
<1>1. ASSUME NEW d \in Engine, d # e
      PROVE  AcceptFollowsCommit(eng[d])'
    <2>1. eng'[d] = eng[d] /\ (eng[d].pc = "gateFinish" => eng[d].at \in Steps)
        BY <1>0, <1>1, EngineLocals DEF LocalStep, LocalInv, InLoop
    <2> QED
        BY <1>0, <2>1 DEF AcceptFollowsCommit
<1>2. ASSUME eng'[e].pc = "gateFinish", eng'[e].verdict = "accept"
      PROVE  step'[eng'[e].at] = "completed"
    <2>1. CASE JudgeStep(e)
        BY <1>2, <2>1, JudgeLocals
    <2>2. CASE CommitStep(e)
        <3>1. eng'[e].at = eng[e].at /\ AdvanceSpine(e, eng[e].at, "completed")
            BY <1>2, <2>2, CommitLocals
        <3>2. eng[e].at \in Steps /\ step \in [Steps -> StepStatus]
            BY <1>0, <2>2 DEF CommitStep, LocalInv, EngineInv, SpineInv, SpineTypeOK
        <3> QED
            BY <3>1, <3>2 DEF AdvanceSpine
    <2>3. CASE HeartbeatTick(e) \/ SignalRaised(e)
        <3>1. PICK s \in {"lost", "aborted"} : eng'[e] \in {eng[e], [eng[e] EXCEPT !.signal = s]}
            BY <2>3, SignalLocals
        <3>2. eng'[e].pc = eng[e].pc /\ eng'[e].verdict = eng[e].verdict /\ eng'[e].at = eng[e].at
            BY <1>0, <3>1 DEF Local
        <3>3. eng[e].at \in Steps
            BY <1>0, <1>2, <3>2 DEF LocalInv, InLoop
        <3> QED
            BY <1>0, <1>2, <3>2, <3>3 DEF AcceptFollowsCommit
    <2>4. CASE Crash(e)
        BY <1>2, <2>4, LeaveSteps DEF Crash, Ended
    <2> QED
        BY <1>2, <2>1, <2>2, <2>3, <2>4, EnterGateFinish
<1> QED
    BY <1>1, <1>2 DEF AcceptFollowsCommit

\* What the rows of units and gates say is kept by the four actions on them.
RowsOK == WorkRowsOK /\ AcceptedGateMeansCompleted

\* The row of a unit of work is set by its reservation and by its finish.
LEMMA WorkRowSet ==
    ASSUME EngineInv, NEW e \in Engine, NEW s \in Steps, NEW l \in 1..MaxLoops,
           \A v \in Unit : v # WorkUnit(s, l) => row'[v] = row[v],
           row'[WorkUnit(s, l)].status = "completed" =>
                row'[WorkUnit(s, l)].result \in {"good", "mismatch"},
           UNCHANGED step
    PROVE  RowsOK'
<1>1. \A t \in Steps, k \in 1..MaxLoops : row'[GateUnit(t, k)] = row[GateUnit(t, k)]
    BY KeysAreUnits
<1>2. \A t \in Steps, k \in 1..MaxLoops :
        t # s \/ k # l => row'[WorkUnit(t, k)] = row[WorkUnit(t, k)]
    BY KeysAreUnits
<1>3. WorkRowsOK'
    BY <1>2 DEF EngineInv, WorkRowsOK
<1>4. AcceptedGateMeansCompleted'
    BY <1>1 DEF EngineInv, AcceptedGateMeansCompleted
<1> QED
    BY <1>3, <1>4 DEF RowsOK

\* The row of a gate is set by its start and by its finish.
LEMMA GateRowSet ==
    ASSUME EngineInv, NEW e \in Engine, NEW s \in Steps, NEW l \in 1..MaxLoops,
           \A v \in Unit : v # GateUnit(s, l) => row'[v] = row[v],
           row'[GateUnit(s, l)].result = "accept" =>
                row[GateUnit(s, l)].result = "accept" \/ step[s] = "completed",
           s \in Gated, UNCHANGED step
    PROVE  RowsOK'
<1>1. \A t \in Steps, k \in 1..MaxLoops : row'[WorkUnit(t, k)] = row[WorkUnit(t, k)]
    BY KeysAreUnits
<1>2. \A t \in Steps, k \in 1..MaxLoops :
        t # s \/ k # l => row'[GateUnit(t, k)] = row[GateUnit(t, k)]
    BY KeysAreUnits
<1>3. WorkRowsOK'
    BY <1>1 DEF EngineInv, WorkRowsOK
<1>4. AcceptedGateMeansCompleted'
    BY <1>2 DEF EngineInv, AcceptedGateMeansCompleted
<1> QED
    BY <1>3, <1>4 DEF RowsOK

\* A step that leaves the journal alone.
LEMMA RowsStay ==
    ASSUME EngineInv, RowStep, UNCHANGED journalVars
    PROVE  RowsOK'
<1>1. row' = row /\ \A s \in Steps : step[s] = "completed" => step'[s] = "completed"
    BY RowStepKeeps DEF journalVars
<1>2. WorkRowsOK'
    BY <1>1 DEF EngineInv, WorkRowsOK
<1>3. AcceptedGateMeansCompleted'
    BY <1>1 DEF EngineInv, AcceptedGateMeansCompleted
<1> QED
    BY <1>2, <1>3 DEF RowsOK

\* Which results an engine writes to the row of a unit or a gate.
LEMMA EngineKeepsRows ==
    ASSUME EngineInv, NEW e \in Engine, EngineStep(e), RowStep
    PROVE  RowsOK'
<1> DEFINE l == eng[e]
           w == WorkUnit(l.at, l.loop)
           g == GateUnit(l.at, l.loop)
<1>0. JournalInv /\ LocalInv(l) /\ AcceptFollowsCommit(l)
    BY DEF EngineInv
<1>1. CASE UNCHANGED journalVars
    BY <1>1, RowsStay
<1>2. "accept" # None
    BY JournalAssumption, KeysAssumption
<1>3. CASE ReserveDispatch(e)
    <2>1. l.at \in Steps /\ l.loop \in 1..MaxLoops /\ w \in Unit
        BY <1>3, KeysOfEngine DEF ReserveDispatch, InLoop
    <2>2. CASE ReserveUnitAttempt(e, w)
        <3>1. /\ \A v \in Unit : v # w => row'[v] = row[v]
              /\ row'[w].status = "running" /\ UNCHANGED step
            BY <1>0, <2>1, <2>2, ReserveByRow DEF spineVars
        <3> QED
            BY <2>1, <3>1, WorkRowSet
    <2> QED
        BY <1>1, <1>3, <2>2 DEF ReserveDispatch
<1>4. CASE FinishDispatch(e)
    <2>1. l.at \in Steps /\ l.loop \in 1..MaxLoops /\ w \in Unit /\ l.out \in WorkOutcome
        BY <1>0, <1>4, KeysOfEngine DEF FinishDispatch, InLoop, LocalInv
    <2>2. ASSUME NEW status \in {"completed", "failed"}, FinishUnitAttempt(e, w, l.att, status, l.out),
                 status = IF l.out \in {"good", "mismatch"} THEN "completed" ELSE "failed"
          PROVE  RowsOK'
        <3>1. status \in AttemptStatus \ {"running"} /\ l.out \in Outcome \cup {None}
            BY <2>1, KeysAssumption DEF AttemptStatus
        <3>2. /\ \A v \in Unit : v # w => row'[v] = row[v]
              /\ row'[w].status = status /\ row'[w].result = l.out /\ UNCHANGED step
            BY <1>0, <2>1, <2>2 DEF FinishUnitAttempt, JournalInv, JournalTypeOK, spineVars
        <3> QED
            BY <2>1, <2>2, <3>2, WorkRowSet
    <2> QED
        BY <1>1, <1>4, <2>2 DEF FinishDispatch
<1>5. CASE JournalGateStart(e)
    <2>1. l.at \in Steps /\ l.loop \in 1..MaxLoops /\ g \in Unit /\ l.at \in Gated
        BY <1>0, <1>5, KeysOfEngine DEF JournalGateStart, InLoop, LocalInv
    <2>2. CASE ReserveUnitAttempt(e, g)
        <3>1. /\ \A v \in Unit : v # g => row'[v] = row[v]
              /\ row'[g].result \in {row[g].result, None} /\ UNCHANGED step
            BY <1>0, <2>1, <2>2, ReserveByRow DEF spineVars
        <3> QED
            BY <1>2, <2>1, <3>1, GateRowSet
    <2> QED
        BY <1>1, <1>5, <2>2 DEF JournalGateStart
<1>6. CASE GateFinish(e)
    <2>1. l.pc = "gateFinish" /\ l.at \in Steps /\ l.loop \in 1..MaxLoops /\ g \in Unit /\ l.at \in Gated
        BY <1>0, <1>6, KeysOfEngine DEF GateFinish, InLoop, LocalInv
    <2>2. ASSUME NEW status \in {"completed", "failed"}, NEW result \in {l.verdict, None},
                 result # None => l.verdict \in {"accept", "reject"},
                 FinishUnitAttempt(e, g, l.att, status, result)
          PROVE  RowsOK'
        <3>1. status \in AttemptStatus \ {"running"} /\ result \in Outcome \cup {None}
            BY <2>2, KeysAssumption DEF AttemptStatus
        <3>2. /\ \A v \in Unit : v # g => row'[v] = row[v]
              /\ row'[g].result = result /\ UNCHANGED step
            BY <1>0, <2>1, <2>2 DEF FinishUnitAttempt, JournalInv, JournalTypeOK, spineVars
        <3>3. result = "accept" => step[l.at] = "completed"
            BY <1>0, <1>2, <2>1, <2>2 DEF AcceptFollowsCommit
        <3> QED
            BY <2>1, <3>2, <3>3, GateRowSet
    <2> QED
        BY <1>1, <1>6, <2>2 DEF GateFinish
<1>7. CASE \/ ReadRun(e) \/ ReadSteps(e) \/ StopAtMaxSteps(e) \/ AcquireRunLease(e)
           \/ RenewBetweenSteps(e) \/ RenewBetweenLoops(e) \/ RecoverGateLoopState(e)
           \/ ClassifyUnitReuse(e) \/ DispatchUnit(e) \/ AssertAlive(e) \/ FinalizeExecutedStep(e)
           \/ JudgeStep(e) \/ CommitStep(e) \/ ReleaseRunLease(e)
    BY <1>1, <1>7
    DEF ReadRun, ReadSteps, StopAtMaxSteps, AcquireRunLease, RenewBetweenSteps, RenewBetweenLoops,
        RecoverGateLoopState, ClassifyUnitReuse, DispatchUnit, AssertAlive, FinalizeExecutedStep,
        JudgeStep, CommitStep, ReleaseRunLease, journalVars
<1> QED
    BY <1>3, <1>4, <1>5, <1>6, <1>7 DEF EngineStep

\* The invariant of the engines holds at first, and every step keeps it.
LEMMA EngineInvInductive ==
    /\ EngineInit => EngineInv
    /\ EngineInv /\ [Next]_vars => EngineInv'
<1>1. EngineInit => EngineInv
    <2> SUFFICES ASSUME EngineInit
                 PROVE  EngineInv
        OBVIOUS
    <2>1. SpineInv /\ JournalInv
        BY SpineInvInductive, JournalInvInductive DEF EngineInit
    <2>2. Fresh = [Fresh EXCEPT !.pc = "idle"]
        BY DEF Fresh
    <2>3. LocalInv(Fresh) /\ Fresh.pc = "idle"
        BY <2>2, FreshIsOK
    <2>4. \A u \in Unit : row[u] = NoRow
        BY DEF EngineInit, JournalInit
    <2>5. NoRow.status = "absent" /\ NoRow.result # "accept"
        BY JournalAssumption, KeysAssumption DEF NoRow
    <2>6. WorkRowsOK /\ AcceptedGateMeansCompleted
        BY <2>4, <2>5, KeysAreUnits DEF WorkRowsOK, AcceptedGateMeansCompleted
    <2>7. eng \in [Engine -> Local] /\ \A e \in Engine : eng[e] = Fresh
        BY <2>3 DEF EngineInit, LocalInv
    <2> QED
        BY <2>1, <2>3, <2>6, <2>7 DEF EngineInv, AcceptFollowsCommit
<1>2. ASSUME EngineInv, NEW e \in Engine,
             EngineStep(e) \/ HeartbeatTick(e) \/ SignalRaised(e) \/ Crash(e), RowStep
      PROVE  EngineInv'
    <2>1. SpineInv' /\ JournalInv'
        BY <1>2, RowStepKeeps
    <2>2. RowsOK'
        <3>1. CASE HeartbeatTick(e) \/ SignalRaised(e) \/ Crash(e)
            BY <1>2, <3>1, RowsStay DEF HeartbeatTick, SignalRaised, Crash
        <3> QED
            BY <1>2, <3>1, EngineKeepsRows
    <2>3. LocalStep(e)
        BY <1>2, EngineLocals
    <2>4. \A d \in Engine : AcceptFollowsCommit(eng[d])'
        BY <1>2, AcceptStillFollows
    <2>5. eng' \in [Engine -> Local] /\ \A d \in Engine : LocalInv(eng'[d])
        BY <1>2, <2>3 DEF LocalStep, EngineInv
    <2> QED
        BY <2>1, <2>2, <2>4, <2>5 DEF EngineInv, RowsOK, LocalInv
<1>3. ASSUME EngineInv, RowStep, UNCHANGED <<journalVars, eng>>
      PROVE  EngineInv'
    <2>1. SpineInv' /\ JournalInv' /\ RowsOK'
        BY <1>3, RowStepKeeps, RowsStay
    <2>2. \A s \in Steps : step[s] = "completed" => step'[s] = "completed"
        BY <1>3, RowStepKeeps
    <2>3. ASSUME NEW e \in Engine
          PROVE  AcceptFollowsCommit(eng[e])' /\ LocalInv(eng'[e])
        <3>1. eng'[e] = eng[e] /\ LocalInv(eng[e]) /\ AcceptFollowsCommit(eng[e])
            BY <1>3 DEF EngineInv
        <3> QED
            BY <2>2, <3>1 DEF AcceptFollowsCommit, LocalInv, InLoop
    <2> QED
        BY <1>3, <2>1, <2>3 DEF EngineInv, RowsOK, LocalInv
<1>4. EngineInv /\ [Next]_vars => EngineInv'
    <2> SUFFICES ASSUME EngineInv, [Next]_vars
                 PROVE  EngineInv'
        OBVIOUS
    <2>1. RowStep
        BY NextIsRowStep
    <2>2. CASE RunLeaseExpires \/ Operator \/ UNCHANGED vars
        BY <1>3, <2>1, <2>2 DEF RunLeaseExpires, Operator, vars, journalVars
    <2> QED
        BY <1>2, <2>1, <2>2 DEF Next
<1> QED
    BY <1>1, <1>4

-----------------------------------------------------------------------------
(* Theorems.                                                               *)

\* The invariant of the engines.
THEOREM EngineInvCorrect == Spec => []EngineInv
BY EngineInvInductive, PTL DEF Spec

\* Rows, journal and the locals of every engine are always well typed.
THEOREM EngineTypeCorrect == Spec => []EngineTypeOK
<1>1. EngineInv => EngineTypeOK
    BY DEF EngineInv, EngineTypeOK, SpineInv, JournalInv
<1> QED
    BY <1>1, EngineInvCorrect, PTL

\* The engines are clients of the journal as JournalSpec describes it, so all
\* that is proved of the journal under any spine holds of their rows.
THEOREM EngineImplementsJournal == Spec => JournalSpec
<1>1. EngineInit => SpineInit /\ JournalInit
    BY DEF EngineInit
<1>2. EngineInv /\ [Next]_vars
        => [(SpineNext /\ UNCHANGED journalVars) \/ JournalNext]_<<spineVars, journalVars>>
    BY NextIsRowStep DEF RowStep
<1> QED
    BY <1>1, <1>2, EngineInvCorrect, PTL DEF Spec, JournalSpec

\* A late answer of an engine never rewrites a finished attempt.
THEOREM EngineAnswersAreFinal == Spec => FinishedAttemptIsFinal
BY EngineImplementsJournal, FinishedAttemptsStay

\* A pending step never has an accepted gate row, whatever crashes between the
\* verdict, the write transaction and the finish of the gate row.
THEOREM AcceptedGateAlwaysCompleted == Spec => []AcceptedGateMeansCompleted
BY EngineInvCorrect, PTL DEF EngineInv

\* No step with criteria completes but on an acceptance of its own gate.
THEOREM GatesAreNeverBypassed == Spec => GateNeverBypassed
<1>1. EngineInv /\ [Next]_vars =>
        [\A s \in Gated : step[s] # "completed" /\ step'[s] = "completed" =>
            \E e \in Engine : eng[e].pc = "commit" /\ eng[e].at = s /\ eng[e].verdict = "accept"]_vars
    <2> SUFFICES ASSUME EngineInv, Next, NEW s \in Gated, step[s] # "completed", step'[s] = "completed"
                 PROVE  \E e \in Engine :
                            eng[e].pc = "commit" /\ eng[e].at = s /\ eng[e].verdict = "accept"
        OBVIOUS
    <2>1. step' # step
        OBVIOUS
    <2>2. ASSUME NEW e \in Engine, EngineStep(e) \/ HeartbeatTick(e) \/ SignalRaised(e) \/ Crash(e)
          PROVE  CommitStep(e)
        <3>1. ~(ReserveDispatch(e) \/ FinishDispatch(e) \/ JournalGateStart(e) \/ GateFinish(e))
            BY <2>1 DEF ReserveDispatch, FinishDispatch, JournalGateStart, GateFinish,
                        ReserveUnitAttempt, FinishUnitAttempt, spineVars
        <3>2. ~(AcquireRunLease(e) \/ RenewBetweenSteps(e) \/ RenewBetweenLoops(e)
                \/ ReleaseRunLease(e) \/ HeartbeatTick(e))
            BY <2>1 DEF AcquireRunLease, RenewBetweenSteps, RenewBetweenLoops, ReleaseRunLease,
                HeartbeatTick, AcquireEngineLease, RenewEngineLease, ReleaseEngineLease, spineVars
        <3>3. ~(ReadRun(e) \/ ReadSteps(e) \/ StopAtMaxSteps(e) \/ RecoverGateLoopState(e)
                \/ ClassifyUnitReuse(e) \/ DispatchUnit(e) \/ AssertAlive(e)
                \/ FinalizeExecutedStep(e) \/ JudgeStep(e) \/ SignalRaised(e) \/ Crash(e))
            BY <2>1 DEF ReadRun, ReadSteps, StopAtMaxSteps, RecoverGateLoopState,
                ClassifyUnitReuse, DispatchUnit, AssertAlive, FinalizeExecutedStep, JudgeStep,
                SignalRaised, Crash, spineVars
        <3> QED
            BY <2>2, <3>1, <3>2, <3>3 DEF EngineStep
    <2>3. ASSUME NEW e \in Engine, CommitStep(e)
          PROVE  eng[e].pc = "commit" /\ eng[e].at = s /\ eng[e].verdict = "accept"
        <3>1. eng[e].pc = "commit" /\ AdvanceSpine(e, eng[e].at, CompletionOutcome(e))
            BY <2>1, <2>3 DEF CommitStep
        <3>2. LocalInv(eng[e]) /\ eng[e].at \in Steps /\ step \in [Steps -> StepStatus]
            BY <3>1 DEF EngineInv, LocalInv, SpineInv, SpineTypeOK
        <3>3. step' = [step EXCEPT ![eng[e].at] = CompletionOutcome(e)]
            BY <3>1 DEF AdvanceSpine
        <3>4. s \in Steps /\ eng[e].at = s /\ CompletionOutcome(e) = "completed"
            BY <3>2, <3>3 DEF LocalInv
        <3> QED
            BY <3>1, <3>2, <3>4 DEF LocalInv, CompletionOutcome
    <2>4. ~RunLeaseExpires
        BY <2>1 DEF RunLeaseExpires, LeaseExpires
    <2>5. ~Operator
        <3>1. ASSUME NEW r \in Resumer, ResumeCommit(r)
              PROVE  FALSE
            BY <3>1 DEF ResumeCommit
        <3> QED
            BY <2>1, <3>1 DEF Operator, ResumeRead, AbandonRun, ReclaimExpiredLease
    <2> QED
        BY <2>2, <2>3, <2>4, <2>5 DEF Next
<1> QED
    BY <1>1, EngineInvCorrect, PTL DEF Spec, GateNeverBypassed

-----------------------------------------------------------------------------
(* What the engines inherit from the journal and the spine they run on.    *)

\* The projection that classifyUnitReuse and activeGateLoop read is the latest
\* attempt of its unit, and no other attempt is open, whatever the engines do.
THEOREM EngineProjectionIsLatest == Spec => [](OnlyLatestRunning /\ ProjectionIsLatest)
BY EngineImplementsJournal, OnlyLatestEverRunning, ProjectionAlwaysLatest, PTL

\* The engines move the run by the statements of the spine only.
THEOREM EngineImplementsSpine == Spec => SpineSpec
<1>1. EngineInit => SpineInit
    BY DEF EngineInit
<1>2. RowStep => [SpineNext]_spineVars
    BY DEF RowStep, JournalNext, ReserveUnitAttempt, FinishUnitAttempt
<1>3. EngineInv /\ [Next]_vars => [SpineNext]_spineVars
    BY <1>2, NextIsRowStep
<1> QED
    BY <1>1, <1>3, EngineInvCorrect, PTL DEF Spec, SpineSpec

\* Under any number of engines, crashes, suspensions and abandons, a step that is
\* finished is never run again, and no step starts before those in front of it
\* are finished.
THEOREM EnginesWalkInOrder == Spec => []SpineInOrder /\ FinishedStepIsFinal
BY EngineImplementsSpine, SpineAlwaysInOrder, FinishedStepsStay, PTL

\* With one resumer at a time, what the engines make of a run is what its user is
\* promised: steps are finished one at a time, and a completed run is final.
THEOREM EngineImplementsLifecycle ==
    ASSUME SingleResumer
    PROVE  Spec => ImplementsLifecycle
BY EngineImplementsSpine, SpineImplementsLifecycle, PTL
-----------------------------------------------------------------------------
(* The work an engine has left.                                            *)

\* Fewer loops, or as many loops and fewer labels.
Less(m, l) ==
    \/ LoopsLeft(m) < LoopsLeft(l)
    \/ LoopsLeft(m) = LoopsLeft(l) /\ LabelsLeft(m) < LabelsLeft(l)

\* A pair is lowered in its first component, or in its second one below an equal first.
LEMMA LowerPair ==
    ASSUME NEW a, NEW b, NEW c, NEW d, a < c \/ (a = c /\ b < d)
    PROVE  Lower(<<a, b>>, <<c, d>>)
<1> DEFINE x == <<a, b>>
           y == <<c, d>>
<1>1. DOMAIN y = {1, 2} /\ x[1] = a /\ x[2] = b /\ y[1] = c /\ y[2] = d
    OBVIOUS
<1>2. \A j \in 1..(1 - 1) : x[j] = y[j]
    OBVIOUS
<1>3. \A j \in 1..(2 - 1) : j = 1
    OBVIOUS
<1> HIDE DEF x, y
<1>4. CASE a < c
    BY <1>1, <1>2, <1>4 DEF Lower
<1>5. CASE a = c /\ b < d
    BY <1>1, <1>3, <1>5 DEF Lower
<1> QED
    BY <1>4, <1>5 DEF x, y

\* Locals are lowered when they are less.
LEMMA LessIsLower ==
    ASSUME NEW l, NEW m, Less(m, l)
    PROVE  Lower(Left(m), Left(l))
BY LowerPair DEF Less, Left

\* What is left at each label outside of the gate loops.
LEMMA LeftOutside ==
    ASSUME NEW l \in Local
    PROVE  /\ l.pc \in Ended => LoopsLeft(l) = 0 /\ LabelsLeft(l) = 0
           /\ l.pc = "release" => LoopsLeft(l) = 0 /\ LabelsLeft(l) = 1
           /\ l.pc = "idle" => LoopsLeft(l) = MaxLoops + 2 /\ LabelsLeft(l) = 16
           /\ l.pc \in {"next", "readSteps"} => LoopsLeft(l) = MaxLoops + 2 /\ LabelsLeft(l) = 15
           /\ l.pc \in {"nextSteps", "acquire"} => LoopsLeft(l) = MaxLoops + 2 /\ LabelsLeft(l) = 14
           /\ l.pc = "renew" => LoopsLeft(l) = MaxLoops + 2 /\ LabelsLeft(l) = 13
           /\ l.pc = "recover" => LoopsLeft(l) = MaxLoops + 2 /\ LabelsLeft(l) = 12
           /\ Accepted(l) => LoopsLeft(l) = MaxLoops + 2 /\ LabelsLeft(l) = 16
<1>1. l.pc # "gateFinish" => ~Accepted(l)
    BY DEF Accepted
<1>2. Accepted(l) => l.pc = "gateFinish"
    BY DEF Accepted
<1> HIDE DEF Accepted
<1>3. Accepted(l) => LoopsLeft(l) = MaxLoops + 2 /\ LabelsLeft(l) = 16
    BY <1>2 DEF LoopsLeft, LabelsLeft, Ended, InUnit
<1> QED
    BY <1>1, <1>3 DEF LoopsLeft, LabelsLeft, Rank, Ended, InUnit

\* What is left at each label of a gate loop.
LEMMA LeftInLoop ==
    ASSUME NEW l \in Local,
           l.pc \in InUnit \cup {"assertAlive", "finalize", "gateStart", "judge", "commit", "gateFinish"},
           ~Accepted(l)
    PROVE  /\ LoopsLeft(l) = MaxLoops + 1 - l.loop /\ LoopsLeft(l) \in 1..(MaxLoops + 1)
           /\ l.pc = "renewLoop" => LabelsLeft(l) = 11 + 3 * (MaxRetry - l.tries)
           /\ l.pc = "classify" => LabelsLeft(l) = 10 + 3 * (MaxRetry - l.tries)
           /\ l.pc = "reserve" => LabelsLeft(l) = 9 + 3 * (MaxRetry - l.tries)
           /\ l.pc = "dispatch" => LabelsLeft(l) = 8 + 3 * (MaxRetry - l.tries)
           /\ l.pc = "finish" => LabelsLeft(l) = 7 + 3 * (MaxRetry - l.tries)
           /\ l.pc = "assertAlive" => LabelsLeft(l) = 6
           /\ l.pc = "finalize" => LabelsLeft(l) = 5
           /\ l.pc = "gateStart" => LabelsLeft(l) = 4
           /\ l.pc = "judge" => LabelsLeft(l) = 3
           /\ l.pc = "commit" => LabelsLeft(l) = IF l.verdict \in {"fail", "block"} THEN 0 ELSE 2
           /\ l.pc = "gateFinish" => LabelsLeft(l) = 1
<1>1. LoopsLeft(l) = MaxLoops + 1 - l.loop
    BY DEF LoopsLeft, Ended, InUnit
<1>2. l.loop \in 0..MaxLoops
    BY DEF Local
<1>3. LoopsLeft(l) \in 1..(MaxLoops + 1)
    BY <1>1, <1>2
<1> HIDE DEF Accepted
<1>4. l.pc \in InUnit => LabelsLeft(l) = Rank[l.pc] + 3 * (MaxRetry - l.tries)
    BY DEF LabelsLeft, InUnit
<1>5. l.pc \notin InUnit /\ l.pc # "commit" => LabelsLeft(l) = Rank[l.pc]
    BY DEF LabelsLeft
<1>6. l.pc = "commit" => LabelsLeft(l) = IF l.verdict \in {"fail", "block"} THEN 0 ELSE 2
    BY DEF LabelsLeft, InUnit, Rank
<1> QED
    BY <1>1, <1>3, <1>4, <1>5, <1>6 DEF InUnit, Rank

\* An engine that gives up, ends or dies has less left than anywhere before.
LEMMA LeaveIsLess ==
    ASSUME EngineInv, NEW e \in Engine, NEW label \in Ended \cup {"release"}, Leave(e, label),
           eng[e].pc \notin Ended, eng[e].pc = "release" => label # "release"
    PROVE  Less(eng'[e], eng[e])
<1> DEFINE l == eng[e]
           m == eng'[e]
<1>1. LocalStep(e) /\ m.pc = label
    BY LeaveSteps
<1>2. l \in Local /\ m \in Local
    BY <1>1 DEF LocalStep, EngineInv
<1>3. LoopsLeft(m) = 0 /\ (label # "release" => LabelsLeft(m) = 0)
    BY <1>1, <1>2, LeftOutside
<1>4. l.pc = "release" => LoopsLeft(l) = 0 /\ LabelsLeft(l) = 1
    BY <1>2, LeftOutside
<1>5. l.pc # "release" => LoopsLeft(l) \in 1..(MaxLoops + 2)
    <2>1. CASE l.pc \in {"idle", "next", "readSteps", "nextSteps", "acquire", "renew", "recover"} \/ Accepted(l)
        BY <1>2, <2>1, LeftOutside
    <2>2. CASE /\ l.pc \in InUnit \cup {"assertAlive", "finalize", "gateStart", "judge", "commit", "gateFinish"}
               /\ ~Accepted(l)
        BY <1>2, <2>2, LeftInLoop
    <2>3. l.pc \in PC
        BY <1>2 DEF Local
    <2> QED
        BY <2>1, <2>2, <2>3 DEF PC, Leased, InUnit, Ended
<1> HIDE DEF l, m
<1>6. LoopsLeft(m) = 0 /\ (l.pc = "release" => LabelsLeft(m) = 0)
    BY <1>3 DEF l
<1>7. Less(m, l)
    BY <1>4, <1>5, <1>6 DEF Less
<1> QED
    BY <1>7 DEF l, m

\* An engine between two steps: it reads the run, takes the lease and renews it.
LEMMA BetweenIsLess ==
    ASSUME EngineInv, NEW e \in Engine,
           \/ ReadRun(e) \/ ReadSteps(e) \/ StopAtMaxSteps(e) \/ AcquireRunLease(e)
           \/ RenewBetweenSteps(e) \/ ReleaseRunLease(e) \/ Crash(e)
    PROVE  Less(eng'[e], eng[e])
<1> DEFINE l == eng[e]
           m == eng'[e]
<1>1. l \in Local /\ m \in Local /\ eng \in [Engine -> Local]
    BY EngineLocals DEF EngineStep, LocalStep, EngineInv
<1>2. CASE Leave(e, "done") \/ Leave(e, "release") \/ Leave(e, "corrupt") \/ Leave(e, "crashed")
    <2>1. l.pc \notin Ended /\ (l.pc = "release" => ~Leave(e, "release"))
        <3>1. CASE l.pc = "release"
            <4>1. Leave(e, "done") \/ Leave(e, "crashed")
                BY <3>1 DEF ReadRun, ReadSteps, StopAtMaxSteps, AcquireRunLease,
                    RenewBetweenSteps, ReleaseRunLease, Crash
            <4>2. m.pc # "release"
                BY <4>1, LeaveSteps DEF Ended
            <4>3. Leave(e, "release") => m.pc = "release"
                BY LeaveSteps
            <4> QED
                BY <3>1, <4>2, <4>3 DEF Ended
        <3>2. l.pc \notin Ended
            BY DEF ReadRun, ReadSteps, StopAtMaxSteps, AcquireRunLease,
                RenewBetweenSteps, ReleaseRunLease, Crash, Ended
        <3> QED
            BY <3>1, <3>2
    <2>2. PICK label \in Ended \cup {"release"} : Leave(e, label)
        BY <1>2 DEF Ended
    <2> QED
        BY <2>1, <2>2, LeaveIsLess
<1>3. CASE \/ l.pc = "idle" /\ m.pc = "readSteps"
           \/ l.pc = "next" /\ m.pc = "nextSteps"
           \/ l.pc = "readSteps" /\ m.pc = "acquire"
           \/ l.pc = "nextSteps" /\ m.pc = "renew"
           \/ l.pc = "acquire" /\ m.pc = "renew"
           \/ l.pc = "renew" /\ m.pc = "recover"
    <2> HIDE DEF l, m
    <2>1. Less(m, l)
        BY <1>1, <1>3, LeftOutside DEF Less
    <2> QED
        BY <2>1 DEF l, m
<1>4. ASSUME NEW label, Goto(e, label)
      PROVE  m.pc = label
    BY <1>1, <1>4 DEF Goto, Local
<1>5. ASSUME ReadRun(e)
      PROVE  \/ Leave(e, "done") \/ Leave(e, "release")
             \/ l.pc = "idle" /\ m.pc = "readSteps"
             \/ l.pc = "next" /\ m.pc = "nextSteps"
    BY <1>1, <1>5 DEF ReadRun, Local
<1> QED
    BY <1>2, <1>3, <1>4, <1>5
    DEF ReadSteps, StopAtMaxSteps, AcquireRunLease, RenewBetweenSteps, ReleaseRunLease, Crash

\* The labels of a gate loop, in order, in the same loop.
LEMMA LoopOrder ==
    ASSUME NEW l \in Local, NEW m \in Local, m.loop = l.loop,
           \/ /\ m.tries = l.tries
              /\ \/ l.pc = "renewLoop" /\ m.pc = "classify"
                 \/ l.pc = "classify" /\ m.pc = "reserve"
                 \/ l.pc = "reserve" /\ m.pc = "dispatch"
                 \/ l.pc = "dispatch" /\ m.pc = "finish"
           \/ l.pc = "finish" /\ m.pc = "reserve" /\ m.tries = l.tries + 1
           \/ l.pc \in {"classify", "reserve", "finish"} /\ m.pc = "assertAlive"
           \/ l.pc = "assertAlive" /\ m.pc = "finalize"
           \/ l.pc = "finalize" /\ m.pc \in {"gateStart", "commit"}
           \/ l.pc = "gateStart" /\ m.pc = "judge"
           \/ l.pc = "judge" /\ m.pc \in {"commit", "gateFinish"} /\ ~Accepted(m)
           \/ /\ l.pc = "commit" /\ l.verdict \notin {"fail", "block"}
              /\ m.pc = "gateFinish" /\ ~Accepted(m)
           \/ /\ l.pc = "gateFinish" /\ ~Accepted(l)
              /\ m.pc = "commit" /\ m.verdict = "block"
    PROVE  Less(m, l)
<1>1. ~Accepted(l) /\ ~Accepted(m)
    BY DEF Accepted
<1>2. l.loop \in 0..MaxLoops /\ l.tries \in 0..MaxRetry /\ m.tries \in 0..MaxRetry
    BY DEF Local
<1>3. /\ l.pc \in InUnit \cup {"assertAlive", "finalize", "gateStart", "judge", "commit", "gateFinish"}
      /\ m.pc \in InUnit \cup {"assertAlive", "finalize", "gateStart", "judge", "commit", "gateFinish"}
    BY DEF InUnit
<1>4. LoopsLeft(m) = LoopsLeft(l)
    BY <1>1, <1>3, LeftInLoop
<1>5. LabelsLeft(m) < LabelsLeft(l)
    BY <1>1, <1>2, <1>3, LeftInLoop
<1> QED
    BY <1>4, <1>5 DEF Less

\* The loop to go on with is found, or its lease renewed, and its unit is worked on.
LEMMA UnitIsLess ==
    ASSUME EngineInv, NEW e \in Engine,
           \/ RenewBetweenLoops(e) \/ RecoverGateLoopState(e) \/ ClassifyUnitReuse(e)
           \/ ReserveDispatch(e) \/ DispatchUnit(e) \/ FinishDispatch(e) \/ AssertAlive(e)
    PROVE  Less(eng'[e], eng[e])
<1> DEFINE l == eng[e]
           m == eng'[e]
<1>1. l \in Local /\ m \in Local /\ eng \in [Engine -> Local]
    BY EngineLocals DEF EngineStep, LocalStep, EngineInv
<1>2. CASE Leave(e, "release")
    BY <1>2, LeaveIsLess DEF RenewBetweenLoops, RecoverGateLoopState, ClassifyUnitReuse,
        ReserveDispatch, DispatchUnit, FinishDispatch, AssertAlive, Ended
<1>3. CASE RecoverGateLoopState(e) /\ ~Leave(e, "release")
    <2> DEFINE s == StartLoop(l.at)
    <2>1. l.pc = "recover"
        BY <1>3 DEF RecoverGateLoopState
    <2>2. m.pc \in {"renewLoop", "classify", "commit"} /\ ~Accepted(m)
        <3>1. CASE eng' = [eng EXCEPT ![e].pc = FirstOfLoop(s), ![e].loop = s, ![e].verdict = "none"]
            <4>1. FirstOfLoop(s) \in {"renewLoop", "classify"}
                BY DEF FirstOfLoop
            <4>2. m.pc = FirstOfLoop(s)
                <5> HIDE DEF s
                <5> QED
                    BY <1>1, <3>1 DEF Local
            <4> QED
                BY <4>1, <4>2 DEF Accepted
        <3>2. CASE eng' = [eng EXCEPT ![e].pc = "commit", ![e].verdict = "block"]
            BY <1>1, <3>2 DEF Local, Accepted
        <3> QED
            BY <1>3, <3>1, <3>2 DEF RecoverGateLoopState
    <2>3. LoopsLeft(m) \in 1..(MaxLoops + 1)
        BY <1>1, <2>2, LeftInLoop DEF InUnit
    <2>4. LoopsLeft(l) = MaxLoops + 2
        BY <1>1, <2>1, LeftOutside
    <2> QED
        BY <2>3, <2>4 DEF Less
<1>4. CASE RenewBetweenLoops(e) /\ ~Leave(e, "release")
    <2>1. l.pc = "renewLoop" /\ m = [l EXCEPT !.pc = "classify"]
        BY <1>1, <1>4 DEF RenewBetweenLoops, Goto
    <2> QED
        BY <1>1, <2>1, LoopOrder DEF Local
<1>5. CASE ClassifyUnitReuse(e)
    <2>1. /\ l.pc = "classify" /\ m.pc \in {"assertAlive", "reserve"}
          /\ m.loop = l.loop /\ m.tries = l.tries
        BY <1>1, <1>5 DEF ClassifyUnitReuse, Local
    <2> QED
        BY <1>1, <2>1, LoopOrder
<1>6. CASE ReserveDispatch(e)
    <2>1. /\ l.pc = "reserve" /\ m.loop = l.loop
          /\ m.pc = "assertAlive" \/ (m.pc = "dispatch" /\ m.tries = l.tries)
        BY <1>1, <1>6 DEF ReserveDispatch, Local
    <2> QED
        BY <1>1, <2>1, LoopOrder
<1>7. CASE DispatchUnit(e)
    <2>1. PICK answer \in WorkOutcome : eng' = [eng EXCEPT ![e].pc = "finish", ![e].out = answer]
        BY <1>7 DEF DispatchUnit
    <2>2. m = [l EXCEPT !.pc = "finish", !.out = answer] /\ l.pc = "dispatch"
        BY <1>1, <1>7, <2>1 DEF DispatchUnit
    <2>3. m.pc = "finish" /\ m.loop = l.loop /\ m.tries = l.tries
        BY <1>1, <2>2 DEF Local
    <2> QED
        BY <1>1, <2>2, <2>3, LoopOrder
<1>8. CASE FinishDispatch(e)
    <2>1. /\ l.pc = "finish" /\ m.loop = l.loop
          /\ m.pc = "assertAlive" \/ (m.pc = "reserve" /\ m.tries = l.tries + 1)
        BY <1>1, <1>8 DEF FinishDispatch, Local
    <2> QED
        BY <1>1, <2>1, LoopOrder
<1>9. CASE AssertAlive(e) /\ ~Leave(e, "release")
    <2>1. l.pc = "assertAlive" /\ m = [l EXCEPT !.pc = "finalize"]
        BY <1>1, <1>9 DEF AssertAlive, Goto
    <2> QED
        BY <1>1, <2>1, LoopOrder DEF Local
<1> QED
    BY <1>2, <1>3, <1>4, <1>5, <1>6, <1>7, <1>8, <1>9

\* Another loop leaves one loop less.
LEMMA NextLoopIsLess ==
    ASSUME NEW l \in Local, NEW m \in Local, l.pc \in {"finalize", "gateFinish"}, m.pc = "renewLoop",
           m.loop = l.loop + 1
    PROVE  Less(m, l)
<1>1. LoopsLeft(m) = MaxLoops + 1 - (l.loop + 1)
    BY LeftInLoop DEF InUnit, Accepted
<1>2. l.loop \in 0..MaxLoops
    BY DEF Local
<1>3. CASE Accepted(l)
    BY <1>1, <1>2, <1>3, LeftOutside DEF Less
<1>4. CASE ~Accepted(l)
    <2>1. LoopsLeft(l) = MaxLoops + 1 - l.loop
        BY <1>4, LeftInLoop DEF InUnit
    <2> QED
        BY <1>1, <1>2, <2>1 DEF Less
<1> QED
    BY <1>3, <1>4

\* The step is finalized, judged and its verdict journaled: without a step that is
\* completed, the labels only go down, or another loop begins.
LEMMA GateIsLess ==
    ASSUME EngineInv, NEW e \in Engine,
           \/ FinalizeExecutedStep(e) \/ JournalGateStart(e) \/ JudgeStep(e) \/ GateFinish(e)
    PROVE  Less(eng'[e], eng[e])
<1> DEFINE l == eng[e]
           m == eng'[e]
<1>1. l \in Local /\ m \in Local /\ eng \in [Engine -> Local] /\ LocalInv(l)
    BY EngineLocals DEF EngineStep, LocalStep, EngineInv
<1>2. CASE Leave(e, "release")
    BY <1>2, LeaveIsLess DEF FinalizeExecutedStep, JournalGateStart, JudgeStep, GateFinish, Ended
<1>3. CASE FinalizeExecutedStep(e) /\ ~Leave(e, "release")
    <2>1. l.pc = "finalize"
        BY <1>3 DEF FinalizeExecutedStep
    <2>2. CASE eng' = [eng EXCEPT ![e].pc = "renewLoop", ![e].loop = @ + 1, ![e].out = "none"]
        <3>1. m.pc = "renewLoop" /\ m.loop = l.loop + 1
            BY <1>1, <2>2 DEF Local
        <3> QED
            BY <1>1, <2>1, <3>1, NextLoopIsLess
    <2>3. CASE \/ eng' = [eng EXCEPT ![e].pc = "commit", ![e].verdict = "fail"]
               \/ Goto(e, IF l.at \in Gated THEN "gateStart" ELSE "commit")
        <3>1. m.pc \in {"gateStart", "commit"} /\ m.loop = l.loop
            BY <1>1, <2>3 DEF Local, Goto
        <3> QED
            BY <1>1, <2>1, <3>1, LoopOrder
    <2> QED
        BY <1>3, <2>2, <2>3 DEF FinalizeExecutedStep
<1>4. CASE JournalGateStart(e) /\ ~Leave(e, "release")
    <2>1. l.pc = "gateStart" /\ m.pc = "judge" /\ m.loop = l.loop
        BY <1>1, <1>4 DEF JournalGateStart, Local
    <2> QED
        BY <1>1, <2>1, LoopOrder
<1>5. CASE JudgeStep(e)
    <2>1. l.pc = "judge"
        BY <1>5 DEF JudgeStep
    <2>2. PICK v \in {"accept", "reject", "judgeError", "interrupted"} :
            eng' = [eng EXCEPT ![e].verdict = v,
                               ![e].pc = IF v = "accept" THEN "commit" ELSE "gateFinish"]
        BY <1>5 DEF JudgeStep
    <2>3. m.pc \in {"commit", "gateFinish"} /\ m.loop = l.loop /\ ~Accepted(m)
        BY <1>1, <2>2 DEF Local, Accepted
    <2> QED
        BY <1>1, <2>1, <2>3, LoopOrder
<1>6. CASE GateFinish(e) /\ ~Leave(e, "release")
    <2>1. l.pc = "gateFinish"
        BY <1>6 DEF GateFinish
    <2>2. CASE /\ l.verdict = "accept"
               /\ eng' = [eng EXCEPT ![e] = [Fresh EXCEPT !.pc = "next", !.signal = l.signal]]
        <3>1. m.pc = "next"
            BY <2>2, NextLocals
        <3>2. Accepted(l)
            BY <2>1, <2>2 DEF Accepted
        <3>3. /\ LoopsLeft(m) = MaxLoops + 2 /\ LabelsLeft(m) = 15
              /\ LoopsLeft(l) = MaxLoops + 2 /\ LabelsLeft(l) = 16
            BY <1>1, <3>1, <3>2, LeftOutside
        <3> QED
            BY <3>3 DEF Less
    <2>3. CASE eng' = [eng EXCEPT ![e] = [Fresh EXCEPT !.pc = "renewLoop", !.at = l.at,
                                    !.signal = l.signal, !.loop = l.loop + 1]]
        <3>1. m = [Fresh EXCEPT !.pc = "renewLoop", !.at = l.at, !.signal = l.signal, !.loop = l.loop + 1]
            BY <1>1, <2>3
        <3>2. m.pc = "renewLoop" /\ m.loop = l.loop + 1
            BY <3>1, NextLoop
        <3> QED
            BY <1>1, <2>1, <3>2, NextLoopIsLess
    <2>4. CASE /\ l.verdict = "judgeError"
               /\ eng' = [eng EXCEPT ![e].pc = "commit", ![e].att = 0, ![e].verdict = "block"]
        <3>1. m.pc = "commit" /\ m.verdict = "block" /\ m.loop = l.loop /\ ~Accepted(l)
            BY <1>1, <2>4 DEF Local, Accepted
        <3> QED
            BY <1>1, <2>1, <3>1, LoopOrder
    <2> QED
        BY <1>6, <2>2, <2>3, <2>4 DEF GateFinish
<1> QED
    BY <1>2, <1>3, <1>4, <1>5, <1>6

\* The write transaction finishes the step, or leaves less to do.
LEMMA CommitIsLess ==
    ASSUME EngineInv, NEW e \in Engine, CommitStep(e), Undone' \subseteq Undone
    PROVE  Less(eng'[e], eng[e]) \/ Undone' # Undone
<1> DEFINE l == eng[e]
           m == eng'[e]
<1>1. /\ l \in Local /\ m \in Local /\ eng \in [Engine -> Local] /\ LocalInv(l)
      /\ l.pc = "commit" /\ l.at \in Steps
    BY EngineLocals DEF EngineStep, LocalStep, EngineInv, CommitStep, LocalInv
<1>2. CASE Leave(e, "release")
    BY <1>1, <1>2, LeaveIsLess DEF Ended
<1>3. ASSUME AdvanceSpine(e, l.at, CompletionOutcome(e)), l.verdict \notin {"fail", "block"}
      PROVE  Undone' # Undone
    <2>1. CompletionOutcome(e) = "completed"
        BY <1>3 DEF CompletionOutcome
    <2>2. step[l.at] = "pending" /\ step' = [step EXCEPT ![l.at] = "completed"]
        BY <1>3, <2>1 DEF AdvanceSpine, CanAdvance
    <2>3. step'[l.at] = "completed"
        BY <1>1, <2>2 DEF EngineInv, SpineInv, SpineTypeOK
    <2>4. l.at \in Undone /\ l.at \notin Undone'
        BY <1>1, <2>2, <2>3 DEF Undone, Finished
    <2> QED
        BY <2>4
<1>4. CASE /\ l.verdict = "accept"
           /\ eng' = [eng EXCEPT ![e].pc = "gateFinish", ![e].verdict = "interrupted"]
    <2>1. m.pc = "gateFinish" /\ m.loop = l.loop /\ ~Accepted(m)
        BY <1>1, <1>4 DEF Local, Accepted
    <2> QED
        BY <1>1, <1>4, <2>1, LoopOrder
<1>5. CASE /\ AdvanceSpine(e, l.at, CompletionOutcome(e))
           /\ l.verdict = "accept" \/ CompletionOutcome(e) = "completed"
    <2>1. l.verdict \notin {"fail", "block"}
        BY <1>5 DEF CompletionOutcome
    <2> QED
        BY <1>3, <1>5, <2>1
<1> QED
    BY <1>2, <1>4, <1>5 DEF CommitStep

\* What is left is a pair of natural numbers.
LEMMA LeftIsNatural ==
    ASSUME NEW l \in Local
    PROVE  Left(l) \in [1..2 -> Nat]
<1>1. l.loop \in 0..MaxLoops /\ l.tries \in 0..MaxRetry /\ l.pc \in PC
    BY DEF Local
<1>2. LoopsLeft(l) \in Nat /\ LabelsLeft(l) \in Nat
    <2>1. CASE /\ l.pc \in InUnit \cup {"assertAlive", "finalize", "gateStart", "judge", "commit", "gateFinish"}
               /\ ~Accepted(l)
        BY <1>1, <2>1, LeftInLoop DEF InUnit
    <2>2. CASE ~(/\ l.pc \in InUnit \cup {"assertAlive", "finalize", "gateStart", "judge", "commit", "gateFinish"}
                 /\ ~Accepted(l))
        BY <1>1, <2>2, LeftOutside DEF InUnit, PC, Leased, Ended
    <2> QED
        BY <2>1, <2>2
<1> DEFINE x == <<LoopsLeft(l), LabelsLeft(l)>>
<1>3. x \in [1..2 -> Nat]
    BY <1>2
<1> QED
    BY <1>3 DEF Left

\* The order of what is left is well founded: no engine goes down it for ever.
THEOREM WorkEnds ==
    ~ \E f \in [Nat -> Local] : \A n \in Nat : Lower(Left(f[n + 1]), Left(f[n]))
<1>1. IsWellFoundedOn(LexProductOrdering(OpToRel(<, Nat), Nat, 2), [1..2 -> Nat])
    BY NatLessThanWellFounded, WFLexProductOrdering, Zenon
<1>2. SUFFICES ASSUME NEW f \in [Nat -> Local],
                      \A n \in Nat : Lower(Left(f[n + 1]), Left(f[n]))
               PROVE  FALSE
    OBVIOUS
<1> DEFINE g == [n \in Nat |-> Left(f[n])]
<1>3. g \in [Nat -> [1..2 -> Nat]]
    BY LeftIsNatural
<1>4. ASSUME NEW n \in Nat
      PROVE  <<g[n + 1], g[n]>> \in LexProductOrdering(OpToRel(<, Nat), Nat, 2)
    <2>1. Lower(g[n + 1], g[n]) /\ g[n + 1] \in [1..2 -> Nat] /\ g[n] \in [1..2 -> Nat]
        BY <1>2, <1>3
    <2> HIDE DEF g
    <2>2. PICK x \in [1..2 -> Nat], y \in [1..2 -> Nat] : x = g[n + 1] /\ y = g[n]
        BY <2>1
    <2>3. PICK i \in 1..2 : x[i] < y[i] /\ \A j \in 1..(i - 1) : x[j] = y[j]
        BY <2>1, <2>2 DEF Lower
    <2>4. <<x[i], y[i]>> \in OpToRel(<, Nat)
        BY <2>3 DEF OpToRel
    <2>5. <<x, y>> \in LexProductOrdering(OpToRel(<, Nat), Nat, 2)
        BY <2>3, <2>4 DEF LexProductOrdering
    <2> QED
        BY <2>2, <2>5
<1> HIDE DEF g
<1> QED
    BY <1>1, <1>3, <1>4 DEF IsWellFoundedOn

\* Under any number of engines, resumes, abandons, crashes, suspensions and
\* interrupts, for every plan and every budget of loops and retries, an engine
\* cannot work for ever: each step of its own finishes a step of the plan for good
\* or leaves it less to do, and nobody else gives it more.
THEOREM EngineWorkBounded == Spec => EngineWorkIsBounded
<1>1. EngineInv /\ [Next]_vars /\ [SpineNext]_spineVars =>
        [/\ Undone' \subseteq Undone
         /\ \A e \in Engine :
              \/ eng'[e].pc = eng[e].pc /\ Left(eng'[e]) = Left(eng[e])
              \/ Lower(Left(eng'[e]), Left(eng[e]))
              \/ Undone' # Undone]_vars
    <2> SUFFICES ASSUME EngineInv, Next, [SpineNext]_spineVars
                 PROVE  /\ Undone' \subseteq Undone
                        /\ \A e \in Engine :
                            \/ eng'[e].pc = eng[e].pc /\ Left(eng'[e]) = Left(eng[e])
                            \/ Lower(Left(eng'[e]), Left(eng[e]))
                            \/ Undone' # Undone
        OBVIOUS
    <2>1. Undone' \subseteq Undone
        <3>1. \A s \in Steps : step[s] \in Finished => step'[s] = step[s]
            BY FinishedStepKept DEF EngineInv, spineVars
        <3> QED
            BY <3>1 DEF Undone
    <2>2. ASSUME NEW e \in Engine, eng'[e] = eng[e]
          PROVE  eng'[e].pc = eng[e].pc /\ Left(eng'[e]) = Left(eng[e])
        BY <2>2
    <2>3. ASSUME NEW d \in Engine, EngineStep(d) \/ HeartbeatTick(d) \/ SignalRaised(d) \/ Crash(d),
                 NEW e \in Engine
          PROVE  \/ eng'[e].pc = eng[e].pc /\ Left(eng'[e]) = Left(eng[e])
                 \/ Lower(Left(eng'[e]), Left(eng[e]))
                 \/ Undone' # Undone
        <3>1. CASE d # e
            <4>1. eng'[e] = eng[e]
                BY <2>3, <3>1, EngineLocals DEF LocalStep
            <4> QED
                BY <2>2, <4>1
        <3>2. CASE d = e /\ (HeartbeatTick(e) \/ SignalRaised(e))
            <4>1. PICK s \in {"lost", "aborted"} : eng'[e] \in {eng[e], [eng[e] EXCEPT !.signal = s]}
                BY <3>2, SignalLocals
            <4>2. eng[e] \in Local
                BY DEF EngineInv
            <4>3. CASE eng'[e] = [eng[e] EXCEPT !.signal = s]
                <5>1. /\ eng'[e].pc = eng[e].pc /\ eng'[e].loop = eng[e].loop
                      /\ eng'[e].tries = eng[e].tries /\ eng'[e].verdict = eng[e].verdict
                    BY <4>2, <4>3 DEF Local
                <5> QED
                    BY <5>1 DEF Left, LoopsLeft, LabelsLeft, Accepted
            <4> QED
                BY <2>2, <4>1, <4>3
        <3>3. CASE d = e /\ (EngineStep(e) \/ Crash(e))
            <4>1. Less(eng'[e], eng[e]) \/ Undone' # Undone
                BY <2>1, <3>3, BetweenIsLess, UnitIsLess, GateIsLess, CommitIsLess DEF EngineStep
            <4> QED
                BY <4>1, LessIsLower
        <3> QED
            BY <2>3, <3>1, <3>2, <3>3
    <2>4. CASE RunLeaseExpires \/ Operator
        BY <2>1, <2>2, <2>4 DEF RunLeaseExpires, Operator
    <2> QED
        BY <2>1, <2>3, <2>4 DEF Next
<1> QED
    BY <1>1, EngineInvCorrect, EngineImplementsSpine, PTL DEF Spec, SpineSpec, EngineWorkIsBounded

\* An engine that has ended and does not hold the run any more never gets it back:
\* no heartbeat of its is left, and nobody else takes the lease in its name.
THEOREM EndedEngineStaysOff ==
    Spec => [][\A e \in Engine :
                    eng[e].pc \in Ended /\ ~(holder = e /\ live)
                    => eng'[e].pc \in Ended /\ ~(holder' = e /\ live')]_vars
<1>1. EngineInv /\ [Next]_vars =>
        [\A e \in Engine :
            eng[e].pc \in Ended /\ ~(holder = e /\ live)
            => eng'[e].pc \in Ended /\ ~(holder' = e /\ live')]_vars
    <2> SUFFICES ASSUME EngineInv, Next, NEW e \in Engine, eng[e].pc \in Ended, ~(holder = e /\ live)
                 PROVE  eng'[e].pc \in Ended /\ ~(holder' = e /\ live')
        OBVIOUS
    <2>1. holder \in Engine \cup {None} /\ live \in BOOLEAN
        BY DEF EngineInv, SpineInv, SpineTypeOK
    <2>2. e # None
        OBVIOUS
    <2>3. ASSUME NEW d \in Engine, EngineStep(d) \/ HeartbeatTick(d) \/ SignalRaised(d) \/ Crash(d)
          PROVE  d # e
        <3>1. ~EngineStep(e)
            BY DEF EngineStep, ReadRun, ReadSteps, StopAtMaxSteps, AcquireRunLease, RenewBetweenSteps,
                RenewBetweenLoops, RecoverGateLoopState, ClassifyUnitReuse, ReserveDispatch,
                DispatchUnit, FinishDispatch, AssertAlive, FinalizeExecutedStep, JournalGateStart,
                JudgeStep, CommitStep, GateFinish, ReleaseRunLease, Ended
        <3>2. ~HeartbeatTick(e) /\ ~SignalRaised(e) /\ ~Crash(e)
            BY DEF HeartbeatTick, SignalRaised, Crash, Ended, Leased
        <3> QED
            BY <2>3, <3>1, <3>2
    <2>4. ASSUME NEW d \in Engine, EngineStep(d) \/ HeartbeatTick(d) \/ SignalRaised(d) \/ Crash(d)
          PROVE  eng'[e] = eng[e]
        BY <2>3, <2>4, EngineLocals DEF LocalStep
    <2>5. ASSUME NEW d \in Engine, EngineStep(d) \/ HeartbeatTick(d) \/ SignalRaised(d) \/ Crash(d)
          PROVE  ~(holder' = e /\ live')
        <3>1. d # e
            BY <2>3, <2>5
        <3>2. CASE UNCHANGED spineVars
            BY <3>2 DEF spineVars
        <3>3. CASE AcquireEngineLease(d) \/ RenewEngineLease(d) \/ ReleaseEngineLease(d)
            BY <2>1, <2>2, <3>1, <3>3 DEF AcquireEngineLease, RenewEngineLease, CanRenew, ReleaseEngineLease
        <3>4. CASE holder' \in {holder, HolderAfterRead} /\ live' = live
            BY <2>1, <2>2, <3>4 DEF HolderAfterRead
        <3>5. CASE ReserveDispatch(d) \/ FinishDispatch(d) \/ JournalGateStart(d) \/ GateFinish(d)
            <4>1. UNCHANGED spineVars
                BY <3>5 DEF ReserveDispatch, FinishDispatch, JournalGateStart, GateFinish,
                    ReserveUnitAttempt, FinishUnitAttempt
            <4> QED
                BY <3>2, <4>1
        <3>6. CASE FinalizeExecutedStep(d) \/ CommitStep(d)
            BY <3>4, <3>6 DEF FinalizeExecutedStep, CommitStep, AdvanceSpine
        <3>7. CASE \/ AcquireRunLease(d) \/ RenewBetweenSteps(d) \/ RenewBetweenLoops(d)
                   \/ ReleaseRunLease(d) \/ HeartbeatTick(d)
            BY <3>2, <3>3, <3>7 DEF AcquireRunLease, RenewBetweenSteps, RenewBetweenLoops,
                ReleaseRunLease, HeartbeatTick
        <3>8. CASE \/ ReadRun(d) \/ ReadSteps(d) \/ StopAtMaxSteps(d) \/ RecoverGateLoopState(d)
                   \/ ClassifyUnitReuse(d) \/ DispatchUnit(d) \/ AssertAlive(d) \/ JudgeStep(d)
                   \/ SignalRaised(d) \/ Crash(d)
            BY <3>2, <3>8 DEF ReadRun, ReadSteps, StopAtMaxSteps, RecoverGateLoopState,
                ClassifyUnitReuse, DispatchUnit, AssertAlive, JudgeStep, SignalRaised, Crash
        <3> QED
            BY <2>5, <3>5, <3>6, <3>7, <3>8 DEF EngineStep
    <2>6. CASE RunLeaseExpires \/ Operator
        <3>1. UNCHANGED eng
            BY <2>6 DEF RunLeaseExpires, Operator
        <3>2. ~(holder' = e /\ live')
            BY <2>1, <2>2, <2>6 DEF RunLeaseExpires, LeaseExpires, Operator, ResumeRead,
                ResumeCommit, AbandonRun, ReclaimExpiredLease, HolderAfterRead
        <3> QED
            BY <3>1, <3>2
    <2> QED
        BY <2>4, <2>5, <2>6 DEF Next
<1> QED
    BY <1>1, EngineInvCorrect, PTL DEF Spec
=============================================================================
