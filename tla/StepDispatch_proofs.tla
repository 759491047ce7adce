-------------------------- MODULE StepDispatch_proofs --------------------------
(***************************************************************************)
(* Proofs about the fan-out for every plan, pool, budget and set of        *)
(* engines: what one engine keeps about its own locals (LocalInv), what it *)
(* knows of the journal (BudgetOK), and that all it does to the rows are   *)
(* steps of the journal under the spine.                                   *)
(***************************************************************************)
EXTENDS StepDispatch, UnitJournal_proofs, WorkflowSpine_proofs, FiniteSetTheorems

Need(l) == {i \in Item : l.work[i] = "reserve"}

\* What is true of the locals of an engine at each of its labels.
LocalInv(l) ==
    /\ l \in Local
    /\ l.pc \in {"classify", "units", "complete"} => l.at \in Steps
    /\ l.pc # "units" => \A i \in Item : l.work[i] \notin InFlight
    /\ l.pc \notin {"units", "complete"} => l.claimed = 0 /\ \A i \in Item : l.work[i] = "todo"
    /\ l.pc = "units" => \A i \in Item : i <= l.claimed => l.work[i] \notin {"todo", "reusable"}
    /\ l.pc = "complete" => l.verdict # "none"
    /\ l.pc = "complete" /\ l.verdict = "completed" =>
        /\ ~l.tripped
        /\ \A i \in Item : l.work[i] \in Returned \ {"unwritten"}
        /\ l.at \notin Tolerant => \A i \in Item : l.work[i] = "ok"

\* A slot of the budget for each journaled attempt and each unit about to be reserved.
BudgetOK(l) ==
    l.pc \in Leased \ {"seed"} => Journaled + Cardinality(Need(l)) <= l.used

DispatchInv ==
    /\ SpineTypeOK
    /\ JournalInv
    /\ inv \in [Engine -> Local]
    /\ \A e \in Engine : LocalInv(inv[e])
    /\ \A e \in Engine : holder = e => BudgetOK(inv[e])
    /\ IsFiniteSet(AttemptRows)
    /\ UnitCeiling

USE DispatchAssumption, SpineAssumption DEF Item, Usage

-----------------------------------------------------------------------------
(* The locals of an engine.                                                *)

LEMMA NeedIsFinite ==
    ASSUME NEW l \in Local
    PROVE  IsFiniteSet(Need(l)) /\ Cardinality(Need(l)) \in Nat
<1>1. IsFiniteSet(1..NUnits)
    BY FS_Interval
<1>2. Need(l) \in SUBSET (1..NUnits)
    BY DEF Need
<1> QED
    BY <1>1, <1>2, FS_Subset, FS_CardinalityType

\* One field of the locals, or one unit's part of it, is set.
LEMMA SetWork ==
    ASSUME NEW l \in Local, NEW i \in Item, NEW w \in Work
    PROVE  [l EXCEPT !.work[i] = w] \in Local
<1>1. [l.work EXCEPT ![i] = w] \in [Item -> Work]
    BY DEF Local
<1> QED
    BY <1>1 DEF Local

LEMMA FreshType == Fresh \in Local /\ Fresh.pc = "idle"
<1>1. /\ NoWork.work \in [Item -> Work] /\ NoWork.att \in [Item -> Nat]
      /\ NoWork.tries \in [Item -> 0..MaxRetry] /\ NoWork.usage \in [Item -> Usage]
    BY DEF NoWork, Work
<1>2. 0 \in 0..MaxUnits /\ 0 \in 0..NUnits /\ 0 \in Nat
    OBVIOUS
<1> QED
    BY <1>1, <1>2 DEF Fresh, Local, PC

\* An engine that has left, or has not begun, or is at the next step.
LEMMA FreshIsOK ==
    ASSUME NEW label \in {"idle", "release", "done"}
    PROVE  LocalInv([Fresh EXCEPT !.pc = label]) /\ BudgetOK([Fresh EXCEPT !.pc = label])
<1> DEFINE l == [Fresh EXCEPT !.pc = label]
<1>1. /\ l.pc = label /\ l.claimed = 0 /\ \A i \in Item : l.work[i] = "todo"
    BY DEF Fresh, NoWork
<1>2. l \in Local
    BY FreshType DEF Local, PC
<1> QED
    BY <1>1, <1>2 DEF LocalInv, BudgetOK, InFlight, Answered, Leased

\* What the pool does to a claimed unit i: its work is something else than before
\* it was claimed, and the budget has a slot for it when it is about to be reserved.
PoolStep(l, m, i) ==
    /\ m \in Local
    /\ m.pc = l.pc /\ m.at = l.at /\ m.claimed = l.claimed
    /\ \A j \in Item : j # i => m.work[j] = l.work[j]
    /\ m.work[i] \in InFlight \cup Returned
    /\ \/ m.work[i] # "reserve" /\ l.used <= m.used
       \/ l.used + 1 <= m.used

LEMMA TryConsumeSteps ==
    ASSUME NEW l \in Local, NEW i \in Item
    PROVE  PoolStep(l, TryConsume(l, i), i) /\ TryConsume(l, i).work[i] \in {"failed", "reserve"}
<1> DEFINE m == TryConsume(l, i)
<1>1. CASE l.tripped \/ AtCeiling(l)
    <2>1. m = [l EXCEPT !.tripped = TRUE, !.work[i] = "failed"]
        BY <1>1 DEF TryConsume
    <2>2. m \in Local
        <3> DEFINE k == [l EXCEPT !.tripped = TRUE]
        <3>1. k \in Local
            BY DEF Local
        <3>2. m = [k EXCEPT !.work[i] = "failed"] /\ "failed" \in Work
            BY <2>1 DEF Work, Returned
        <3> HIDE DEF k, m
        <3> QED
            BY <3>1, <3>2, SetWork
    <2> QED
        BY <2>1, <2>2, SMTT(60) DEF PoolStep, Local, Returned
<1>2. CASE ~(l.tripped \/ AtCeiling(l))
    <2>1. m = [l EXCEPT !.used = @ + 1, !.work[i] = "reserve"]
        BY <1>2 DEF TryConsume
    <2>2. l.used \in 0..MaxUnits /\ l.used < MaxUnits
        BY <1>2 DEF AtCeiling, Local
    <2>3. m \in Local
        <3> DEFINE k == [l EXCEPT !.used = @ + 1]
        <3>1. k \in Local
            <4>1. l.used + 1 \in 0..MaxUnits
                BY <2>2
            <4> QED
                BY <4>1 DEF Local
        <3>2. m = [k EXCEPT !.work[i] = "reserve"] /\ "reserve" \in Work
            BY <2>1 DEF Work, InFlight
        <3> HIDE DEF k, m
        <3> QED
            BY <3>1, <3>2, SetWork
    <2> QED
        BY <2>1, <2>2, <2>3, SMTT(60) DEF PoolStep, Local, InFlight
<1> QED
    BY <1>1, <1>2

\* A unit's work is set, and nothing else of weight.
LEMMA SetWorkSteps ==
    ASSUME NEW l \in Local, NEW i \in Item, NEW w \in (InFlight \cup Returned) \ {"reserve"}
    PROVE  PoolStep(l, [l EXCEPT !.work[i] = w], i)
<1> DEFINE m == [l EXCEPT !.work[i] = w]
<1>1. m \in Local
    BY SetWork DEF Work
<1>2. /\ m.pc = l.pc /\ m.at = l.at /\ m.claimed = l.claimed /\ m.used = l.used
      /\ m.work = [l.work EXCEPT ![i] = w] /\ l.work \in [Item -> Work] /\ l.used \in Nat
    BY DEF Local
<1> HIDE DEF m
<1>3. PoolStep(l, m, i)
    BY <1>1, <1>2 DEF PoolStep
<1> QED
    BY <1>3 DEF m

LEMMA AddTokensType ==
    ASSUME NEW l \in Local, NEW i \in Item
    PROVE  /\ AddTokens(l, i) \in Local
           /\ \E total \in Nat, tripped \in BOOLEAN :
                AddTokens(l, i) = [l EXCEPT !.tokens = total, !.tripped = tripped]
<1> DEFINE total == l.tokens + (IF l.usage[i] = "one" THEN 1 ELSE 0)
           tripped == l.tripped \/ (l.usage[i] = "one" /\ total >= MaxTokens)
<1>1. total \in Nat /\ tripped \in BOOLEAN
    BY DEF Local
<1>2. AddTokens(l, i) = [l EXCEPT !.tokens = total, !.tripped = tripped]
    BY DEF AddTokens
<1> HIDE DEF total, tripped
<1>3. [l EXCEPT !.tokens = total, !.tripped = tripped] \in Local
    BY <1>1 DEF Local
<1> QED
    BY <1>1, <1>2, <1>3

\* What a concluded attempt leaves: nothing in flight, or the next attempt.
LEMMA ReturnSteps ==
    ASSUME NEW l \in Local, NEW i \in Item, NEW w \in Returned
    PROVE  PoolStep(l, Return(AddTokens(l, i), i, w), i) /\ Return(AddTokens(l, i), i, w).work[i] = w
<1> DEFINE k == AddTokens(l, i)
           m == Return(k, i, w)
<1>1. PICK total \in Nat, tripped \in BOOLEAN :
        k \in Local /\ k = [l EXCEPT !.tokens = total, !.tripped = tripped]
    BY AddTokensType
<1>2. k.work = l.work /\ k.pc = l.pc /\ k.at = l.at /\ k.claimed = l.claimed /\ k.used = l.used
    BY <1>1 DEF Local
<1> HIDE DEF k
<1> DEFINE work == [k.work EXCEPT ![i] = w]
           att == [k.att EXCEPT ![i] = 0]
           tries == [k.tries EXCEPT ![i] = 0]
           usage == [k.usage EXCEPT ![i] = "free"]
<1>3. m = [k EXCEPT !.work = work, !.att = att, !.tries = tries, !.usage = usage]
    BY DEF Return
<1>4. /\ work \in [Item -> Work] /\ att \in [Item -> Nat]
      /\ tries \in [Item -> 0..MaxRetry] /\ usage \in [Item -> Usage]
    <2>1. w \in Work /\ 0 \in 0..MaxRetry
        BY DEF Work
    <2> QED
        BY <1>1, <2>1 DEF Local
<1> HIDE DEF work, att, tries, usage
<1>5. /\ m \in Local /\ m.work = work
      /\ m.pc = k.pc /\ m.at = k.at /\ m.claimed = k.claimed /\ m.used = k.used
    BY <1>1, <1>3, <1>4, ZenonT(60) DEF Local
<1>6. k.work \in [Item -> Work] /\ l.used \in Nat
    BY <1>1 DEF Local
<1> HIDE DEF m
<1>7. w # "reserve"
    BY DEF Returned
<1>8. PoolStep(l, m, i) /\ m.work[i] = w
    BY <1>2, <1>5, <1>6, <1>7 DEF PoolStep, work
<1> QED
    BY <1>8 DEF k, m

LEMMA RetrySteps ==
    ASSUME NEW l \in Local, NEW i \in Item, l.tries[i] < MaxRetry
    PROVE  /\ PoolStep(l, Retry(AddTokens(l, i), i), i)
           /\ Retry(AddTokens(l, i), i).work[i] \in {"failed", "reserve"}
<1> DEFINE k == AddTokens(l, i)
           n == [k EXCEPT !.att[i] = 0, !.tries[i] = @ + 1, !.usage[i] = "free"]
<1>1. PICK total \in Nat, tripped \in BOOLEAN :
        k \in Local /\ k = [l EXCEPT !.tokens = total, !.tripped = tripped]
    BY AddTokensType
<1>2. /\ k.work = l.work /\ k.pc = l.pc /\ k.at = l.at /\ k.claimed = l.claimed /\ k.used = l.used
      /\ k.tries = l.tries
    BY <1>1 DEF Local
<1> HIDE DEF k
<1>3. n = [k EXCEPT !.att = [k.att EXCEPT ![i] = 0],
                    !.tries = [k.tries EXCEPT ![i] = k.tries[i] + 1],
                    !.usage = [k.usage EXCEPT ![i] = "free"]]
    OBVIOUS
<1>4. /\ [k.att EXCEPT ![i] = 0] \in [Item -> Nat]
      /\ [k.tries EXCEPT ![i] = k.tries[i] + 1] \in [Item -> 0..MaxRetry]
      /\ [k.usage EXCEPT ![i] = "free"] \in [Item -> Usage]
    <2>1. k.tries \in [Item -> 0..MaxRetry] /\ k.tries[i] < MaxRetry
        BY <1>1, <1>2 DEF Local
    <2>2. k.tries[i] + 1 \in 0..MaxRetry
        BY <2>1
    <2> QED
        BY <1>1, <2>1, <2>2 DEF Local
<1>5. /\ n \in Local
      /\ n.work = l.work /\ n.pc = l.pc /\ n.at = l.at /\ n.claimed = l.claimed /\ n.used = l.used
    BY <1>1, <1>2, <1>3, <1>4, ZenonT(60) DEF Local
<1> HIDE DEF n
<1>6. PoolStep(n, TryConsume(n, i), i) /\ TryConsume(n, i).work[i] \in {"failed", "reserve"}
    BY <1>5, TryConsumeSteps
<1>7. PoolStep(l, TryConsume(n, i), i)
    BY <1>5, <1>6 DEF PoolStep
<1> QED
    BY <1>6, <1>7 DEF Retry, n, k

\* A step of the pool on a unit keeps what the engine keeps.
LEMMA PoolStepKeeps ==
    ASSUME NEW l \in Local, NEW m, NEW i \in Item, IsFiniteSet(AttemptRows),
           l.pc = "units", l.at \in Steps,
           \A j \in Item \ {i} : j <= l.claimed => l.work[j] \notin {"todo", "reusable"},
           PoolStep(l, m, i)
    PROVE  LocalInv(m) /\ (BudgetOK(l) => BudgetOK(m))
<1>1. LocalInv(m)
    <2>1. \A j \in Item : j <= m.claimed => m.work[j] \notin {"todo", "reusable"}
        BY DEF LocalInv, PoolStep, InFlight, Answered, Returned
    <2> QED
        BY <2>1 DEF LocalInv, PoolStep
<1>2. ASSUME BudgetOK(l)
      PROVE  BudgetOK(m)
    <2>1. Journaled \in Nat
        BY FS_CardinalityType DEF Journaled
    <2>2. Journaled + Cardinality(Need(l)) <= l.used
        BY <1>2 DEF BudgetOK, Leased
    <2>3. /\ IsFiniteSet(Need(l)) /\ Cardinality(Need(l)) \in Nat
          /\ IsFiniteSet(Need(m)) /\ Cardinality(Need(m)) \in Nat
        BY NeedIsFinite DEF PoolStep
    <2>4. l.used \in Nat /\ m.used \in Nat
        BY DEF PoolStep, Local
    <2>5. CASE m.work[i] # "reserve" /\ l.used <= m.used
        <3>1. Need(m) \in SUBSET Need(l)
            BY <2>5 DEF Need, PoolStep
        <3>2. Cardinality(Need(m)) <= Cardinality(Need(l))
            BY <2>3, <3>1, FS_Subset
        <3> QED
            BY <2>1, <2>2, <2>3, <2>4, <2>5, <3>2 DEF BudgetOK
    <2>6. CASE l.used + 1 <= m.used
        <3>1. Need(m) \in SUBSET (Need(l) \cup {i})
            BY DEF Need, PoolStep
        <3>2. /\ IsFiniteSet(Need(l) \cup {i})
              /\ Cardinality(Need(l) \cup {i}) <= Cardinality(Need(l)) + 1
              /\ Cardinality(Need(l) \cup {i}) \in Nat
            <4>1. /\ IsFiniteSet(Need(l) \cup {i})
                  /\ Cardinality(Need(l) \cup {i}) =
                        IF i \in Need(l) THEN Cardinality(Need(l)) ELSE Cardinality(Need(l)) + 1
                BY <2>3, FS_AddElement
            <4> QED
                BY <2>3, <4>1
        <3>3. Cardinality(Need(m)) <= Cardinality(Need(l) \cup {i})
            BY <3>1, <3>2, FS_Subset
        <3> QED
            BY <2>1, <2>2, <2>3, <2>4, <2>6, <3>2, <3>3 DEF BudgetOK
    <2> QED
        BY <2>5, <2>6 DEF PoolStep
<1> QED
    BY <1>1, <1>2

\* A step that reserves nothing needs no further slot.
LEMMA SlotsSuffice ==
    ASSUME NEW l \in Local, NEW m \in Local, IsFiniteSet(AttemptRows),
           l.pc \in Leased \ {"seed"}, Need(m) \in SUBSET Need(l), l.used <= m.used, BudgetOK(l)
    PROVE  BudgetOK(m)
<1>1. Journaled \in Nat
    BY FS_CardinalityType DEF Journaled
<1>2. /\ IsFiniteSet(Need(l)) /\ Cardinality(Need(l)) \in Nat
      /\ Cardinality(Need(m)) \in Nat
    BY NeedIsFinite
<1>3. Cardinality(Need(m)) <= Cardinality(Need(l))
    BY <1>2, FS_Subset
<1>4. l.used \in Nat /\ m.used \in Nat
    BY DEF Local
<1> QED
    BY <1>1, <1>2, <1>3, <1>4 DEF BudgetOK

\* An engine that has no unit in the pool has no unit about to be reserved.
LEMMA NoNeed ==
    ASSUME NEW l, LocalInv(l), l.pc # "units"
    PROVE  Need(l) = {}
BY DEF LocalInv, Need, InFlight

\* The verdict, once the pool is done.
LEMMA VerdictIsOK ==
    ASSUME NEW l, LocalInv(l), l.pc = "units", ~l.stop,
           \A i \in Item : l.work[i] \notin InFlight,
           l.claimed = NUnits \/ Aborted(l)
    PROVE  LocalInv([l EXCEPT !.pc = "complete", !.verdict = StepVerdict(l)])
<1> DEFINE v == StepVerdict(l)
           m == [l EXCEPT !.pc = "complete", !.verdict = v]
<1>1. v \in {"completed", "failed", "blocked"}
    BY DEF StepVerdict
<1>2. v = "completed" => /\ ~l.tripped
                         /\ \A i \in Item : l.work[i] # "unwritten"
                         /\ l.at \notin Tolerant => \A i \in Item : l.work[i] = "ok"
    BY DEF StepVerdict
<1>3. v = "completed" => \A i \in Item : l.work[i] \in Returned
    <2> SUFFICES ASSUME v = "completed", NEW i \in Item
                 PROVE  l.work[i] \in Returned
        OBVIOUS
    <2>1. l.claimed = NUnits
        BY <1>2 DEF Aborted
    <2>2. l.work[i] \notin {"todo", "reusable"}
        BY <2>1 DEF LocalInv
    <2>3. l.work[i] \in Work
        BY DEF LocalInv, Local
    <2> QED
        BY <2>2, <2>3 DEF Work
<1> HIDE DEF v
<1>4. m \in Local
    BY <1>1 DEF LocalInv, Local, PC, Leased
<1>5. m.pc = "complete" /\ m.verdict = v /\ m.at = l.at /\ m.work = l.work /\ m.tripped = l.tripped
    BY DEF LocalInv, Local
<1> HIDE DEF m
<1>6. LocalInv(m)
    BY <1>1, <1>2, <1>3, <1>4, <1>5 DEF LocalInv
<1> QED
    BY <1>6 DEF m, v

-----------------------------------------------------------------------------
(* The steps of an engine that reserve nothing.                            *)

QuietStep(e) ==
    /\ AttemptRows' = AttemptRows
    /\ \E m : /\ inv' = [inv EXCEPT ![e] = m]
              /\ LocalInv(m)
              /\ BudgetOK(inv[e]) => BudgetOK(m)
              /\ \/ holder' \in {holder, None}
                 \/ holder' = e /\ m.pc = "seed"

LEMMA QuietStepKeeps ==
    ASSUME DispatchInv, SpineTypeOK', JournalInv', NEW e \in Engine, QuietStep(e)
    PROVE  DispatchInv'
<1>1. PICK m : /\ inv' = [inv EXCEPT ![e] = m]
               /\ LocalInv(m)
               /\ BudgetOK(inv[e]) => BudgetOK(m)
               /\ holder' \in {holder, None} \/ (holder' = e /\ m.pc = "seed")
    BY DEF QuietStep
<1>2. Journaled' = Journaled /\ AttemptRows' = AttemptRows
    BY DEF QuietStep, Journaled
<1>3. inv' \in [Engine -> Local] /\ \A d \in Engine : LocalInv(inv'[d])
    BY <1>1 DEF DispatchInv, LocalInv
<1>4. ASSUME NEW d \in Engine, holder' = d
      PROVE  BudgetOK(inv[d])'
    <2>1. CASE d = e /\ m.pc = "seed"
        BY <1>1, <2>1 DEF BudgetOK, DispatchInv
    <2>2. CASE holder' \in {holder, None}
        <3>1. holder = d
            BY <1>4, <2>2
        <3>2. BudgetOK(inv[d])
            BY <3>1 DEF DispatchInv
        <3>3. BudgetOK(inv'[d])
            BY <1>1, <3>2 DEF DispatchInv
        <3> QED
            BY <1>2, <3>3 DEF BudgetOK, Need
    <2> QED
        BY <1>1, <1>4, <2>1, <2>2
<1> QED
    BY <1>2, <1>3, <1>4 DEF DispatchInv, UnitCeiling, LocalInv

\* A step of the pool, whatever it does to the rows that are there.
LEMMA PoolStepIsQuiet ==
    ASSUME DispatchInv, NEW e \in Engine, NEW m, NEW i \in Item,
           inv[e].pc = "units", PoolStep(inv[e], m, i),
           inv' = [inv EXCEPT ![e] = m], AttemptRows' = AttemptRows, holder' = holder
    PROVE  QuietStep(e)
<1> DEFINE l == inv[e]
<1>1. LocalInv(l) /\ l \in Local /\ IsFiniteSet(AttemptRows)
    BY DEF DispatchInv
<1>2. /\ \A j \in Item \ {i} : j <= l.claimed => l.work[j] \notin {"todo", "reusable"}
      /\ l.at \in Steps
    BY <1>1 DEF LocalInv
<1>3. LocalInv(m) /\ (BudgetOK(l) => BudgetOK(m))
    <2> HIDE DEF l
    <2> QED
        BY <1>1, <1>2, PoolStepKeeps DEF l
<1> QED
    BY <1>3 DEF QuietStep

\* One step per action.
LEMMA QuietActions ==
    ASSUME DispatchInv, NEW e \in Engine,
           \/ OpenRun(e) \/ AcquireRunLease(e) \/ SeedBudget(e) \/ ReadNext(e)
           \/ RenewBetweenSteps(e) \/ ClassifyUnits(e) \/ ClaimUnit(e)
           \/ \E i \in Item : NothingDispatched(e, i) \/ DispatchUnit(e, i) \/ FinishUnit(e, i)
           \/ SettleUnits(e) \/ CompleteStep(e) \/ ReleaseRunLease(e)
           \/ HeartbeatTick(e) \/ StopSignal(e)
    PROVE  QuietStep(e)
<1> DEFINE l == inv[e]
<1>0. /\ LocalInv(l) /\ l \in Local /\ inv \in [Engine -> Local]
      /\ current \in Steps \cup {NoStep} /\ IsFiniteSet(AttemptRows)
    BY DEF DispatchInv, SpineTypeOK
<1>q. ASSUME UNCHANGED attempts
      PROVE  AttemptRows' = AttemptRows
    BY <1>q DEF AttemptRows
<1>l. ASSUME NEW label \in {"release", "done"}, UNCHANGED attempts, Leave(e, label),
             holder' \in {holder, None}
      PROVE  QuietStep(e)
    BY <1>q, <1>l, FreshIsOK DEF QuietStep, Leave
<1>1. CASE OpenRun(e)
    <2> DEFINE m == [l EXCEPT !.pc = "acquire", !.at = current]
    <2>1. inv' = [inv EXCEPT ![e] = m] /\ holder' = holder /\ attempts' = attempts
        BY <1>1 DEF OpenRun, spineVars, journalVars
    <2>2. l.pc = "idle"
        BY <1>1 DEF OpenRun, At
    <2>3. LocalInv(m)
        BY <1>0, <2>2 DEF LocalInv, Local, PC
    <2>4. BudgetOK(m)
        BY DEF BudgetOK, Leased, Local, LocalInv
    <2> QED
        BY <1>q, <2>1, <2>3, <2>4 DEF QuietStep
<1>2. CASE AcquireRunLease(e)
    <2>1. CASE AcquireEngineLease(e) /\ Goto(e, "seed")
        <3> DEFINE m == [l EXCEPT !.pc = "seed"]
        <3>1. inv' = [inv EXCEPT ![e] = m] /\ holder' = e /\ attempts' = attempts
            BY <1>2, <2>1 DEF AcquireRunLease, AcquireEngineLease, Goto, journalVars
        <3>2. l.pc = "acquire"
            BY <1>2 DEF AcquireRunLease, At
        <3>3. LocalInv(m) /\ BudgetOK(m) /\ m.pc = "seed"
            BY <1>0, <3>2 DEF LocalInv, Local, PC, Leased, BudgetOK
        <3> QED
            BY <1>q, <3>1, <3>3 DEF QuietStep
    <2>2. CASE Leave(e, "done") /\ UNCHANGED spineVars
        BY <1>2, <1>l, <2>2 DEF AcquireRunLease, spineVars, journalVars
    <2> QED
        BY <1>2, <2>1, <2>2 DEF AcquireRunLease
<1>3. CASE SeedBudget(e)
    <2> DEFINE m == [l EXCEPT !.pc = "renew", !.used = Journaled, !.tokens = Spent]
    <2>1. inv' = [inv EXCEPT ![e] = m] /\ holder' = holder /\ attempts' = attempts
        BY <1>3 DEF SeedBudget, spineVars, journalVars
    <2>2. l.pc = "seed"
        BY <1>3 DEF SeedBudget, At
    <2>3. Journaled \in 0..MaxUnits /\ Spent \in Nat
        <3>1. {a \in AttemptRows : attempts[a[1]][a[2]].result = "one"} \in SUBSET AttemptRows
            OBVIOUS
        <3>2. Spent \in Nat
            BY <1>0, <3>1, FS_Subset, FS_CardinalityType DEF Spent
        <3>3. Journaled \in Nat
            BY <1>0, FS_CardinalityType DEF Journaled
        <3> QED
            BY <3>2, <3>3 DEF DispatchInv, UnitCeiling
    <2>4. LocalInv(m)
        BY <1>0, <2>2, <2>3 DEF LocalInv, Local, PC, Leased
    <2>5. m.pc = "renew" /\ m.used = Journaled
        BY <1>0 DEF Local
    <2>6. Cardinality(Need(m)) = 0
        BY <2>4, <2>5, NoNeed, FS_EmptySet
    <2>7. BudgetOK(m)
        BY <2>3, <2>5, <2>6 DEF BudgetOK
    <2> QED
        BY <1>q, <2>1, <2>4, <2>7 DEF QuietStep
<1>4. CASE ReadNext(e)
    <2>1. CASE runStatus = "active"
        <3> DEFINE m == [l EXCEPT !.pc = "renew", !.at = current]
        <3>1. inv' = [inv EXCEPT ![e] = m] /\ holder' = holder /\ attempts' = attempts
            BY <1>4, <2>1 DEF ReadNext, spineVars, journalVars
        <3>2. l.pc = "next"
            BY <1>4 DEF ReadNext, At
        <3>3. LocalInv(m) /\ m \in Local
            BY <1>0, <3>2 DEF LocalInv, Local, PC, Leased
        <3>4. Need(m) \in SUBSET Need(l) /\ l.used <= m.used
            BY <1>0 DEF Need, Local
        <3>5. BudgetOK(l) => BudgetOK(m)
            <4> HIDE DEF l, m
            <4> QED
                BY <1>0, <3>2, <3>3, <3>4, SlotsSuffice DEF Leased
        <3> QED
            BY <1>q, <3>1, <3>3, <3>5 DEF QuietStep
    <2>2. CASE runStatus # "active"
        BY <1>4, <1>l, <2>2 DEF ReadNext, spineVars, journalVars
    <2> QED
        BY <2>1, <2>2
<1>5. CASE RenewBetweenSteps(e)
    <2>1. CASE l.at # NoStep /\ RenewEngineLease(e) /\ Goto(e, "classify")
        <3> DEFINE m == [l EXCEPT !.pc = "classify"]
        <3>1. inv' = [inv EXCEPT ![e] = m] /\ holder' = holder /\ attempts' = attempts
            BY <1>5, <2>1 DEF RenewBetweenSteps, RenewEngineLease, Goto, journalVars
        <3>2. l.pc = "renew" /\ l.at \in Steps
            BY <1>0, <1>5, <2>1 DEF RenewBetweenSteps, At, Local
        <3>3. LocalInv(m) /\ m \in Local
            BY <1>0, <3>2 DEF LocalInv, Local, PC, Leased
        <3>4. Need(m) \in SUBSET Need(l) /\ l.used <= m.used
            BY <1>0 DEF Need, Local
        <3>5. BudgetOK(l) => BudgetOK(m)
            <4> HIDE DEF l, m
            <4> QED
                BY <1>0, <3>2, <3>3, <3>4, SlotsSuffice DEF Leased
        <3> QED
            BY <1>q, <3>1, <3>3, <3>5 DEF QuietStep
    <2>2. CASE Leave(e, "release") /\ UNCHANGED spineVars
        BY <1>5, <1>l, <2>2 DEF RenewBetweenSteps, spineVars, journalVars
    <2> QED
        BY <1>5, <2>1, <2>2 DEF RenewBetweenSteps
<1>6. CASE ClassifyUnits(e)
    <2>1. l.pc = "classify"
        BY <1>6 DEF ClassifyUnits, At
    <2>2. ASSUME NEW reusable,
                 inv' = [inv EXCEPT ![e].pc = "units",
                            ![e].work = [i \in Item |-> IF i \in reusable THEN "reusable" ELSE "todo"]]
          PROVE  QuietStep(e)
        <3> DEFINE work == [i \in Item |-> IF i \in reusable THEN "reusable" ELSE "todo"]
                   m == [l EXCEPT !.pc = "units", !.work = work]
        <3>1. inv' = [inv EXCEPT ![e] = m] /\ holder' = holder /\ attempts' = attempts
            BY <1>6, <2>2 DEF ClassifyUnits, spineVars, journalVars
        <3>2. work \in [Item -> Work] /\ \A i \in Item : work[i] \in {"todo", "reusable"}
            BY DEF Work
        <3> HIDE DEF work
        <3>3. /\ m \in Local /\ m.work = work /\ m.pc = "units" /\ m.claimed = l.claimed
              /\ m.used = l.used /\ m.at = l.at
            BY <1>0, <3>2 DEF Local, PC, Leased
        <3>4. l.claimed = 0 /\ l.at \in Steps
            BY <1>0, <2>1 DEF LocalInv
        <3> HIDE DEF m
        <3>5. LocalInv(m)
            BY <3>3, <3>4 DEF LocalInv
        <3>6. Need(m) \in SUBSET Need(l) /\ l.used <= m.used
            <4>1. Need(m) = {}
                BY <3>2, <3>3 DEF Need
            <4>2. l.used \in Nat
                BY <1>0 DEF Local
            <4> QED
                BY <3>3, <4>1, <4>2
        <3>7. BudgetOK(l) => BudgetOK(m)
            <4> HIDE DEF l
            <4> QED
                BY <1>0, <2>1, <3>3, <3>6, SlotsSuffice DEF Leased
        <3> QED
            BY <1>q, <3>1, <3>5, <3>7 DEF QuietStep, m
    <2>3. ASSUME Settled(e, "failed")
          PROVE  QuietStep(e)
        <3>1. attempts' = attempts /\ holder' = holder
            BY <1>6 DEF ClassifyUnits, spineVars, journalVars
        <3>2. CASE Leave(e, "release")
            BY <1>l, <3>1, <3>2
        <3>3. CASE inv' = [inv EXCEPT ![e].pc = "complete", ![e].verdict = "failed"]
            <4> DEFINE m == [l EXCEPT !.pc = "complete", !.verdict = "failed"]
            <4>1. inv' = [inv EXCEPT ![e] = m]
                BY <3>3
            <4>2. LocalInv(m) /\ m \in Local
                BY <1>0, <2>1 DEF LocalInv, Local, PC, Leased
            <4>3. Need(m) \in SUBSET Need(l) /\ l.used <= m.used
                BY <1>0 DEF Need, Local
            <4>4. BudgetOK(l) => BudgetOK(m)
                <5> HIDE DEF l, m
                <5> QED
                    BY <1>0, <2>1, <4>2, <4>3, SlotsSuffice DEF Leased
            <4> QED
                BY <1>q, <3>1, <4>1, <4>2, <4>4 DEF QuietStep
        <3> QED
            BY <2>3, <3>2, <3>3 DEF Settled
    <2> QED
        BY <1>6, <2>2, <2>3 DEF ClassifyUnits
<1>7. CASE ClaimUnit(e)
    <2> DEFINE i == l.claimed + 1
               k == [l EXCEPT !.claimed = i]
               m == IF k.work[i] = "reusable" THEN [k EXCEPT !.work[i] = "ok"] ELSE TryConsume(k, i)
    <2>1. l.pc = "units" /\ l.claimed < NUnits
        BY <1>7 DEF ClaimUnit, At
    <2>2. i \in Item /\ i \in 0..NUnits /\ l.claimed \in Nat /\ l.used \in Nat
        BY <1>0, <2>1, SMTT(60) DEF Local
    <2>3. /\ k \in Local /\ k.pc = "units" /\ k.claimed = i /\ k.at = l.at
          /\ k.work = l.work /\ k.used = l.used
        BY <1>0, <2>1, <2>2 DEF Local
    <2>4. inv' = [inv EXCEPT ![e] = m] /\ holder' = holder /\ attempts' = attempts
        BY <1>7 DEF ClaimUnit, spineVars, journalVars
    <2>5. /\ \A j \in Item \ {i} : j <= k.claimed => k.work[j] \notin {"todo", "reusable"}
          /\ k.at \in Steps
        <3>1. \A j \in Item \ {i} : j <= i => j <= l.claimed
            BY <2>2
        <3> QED
            BY <1>0, <2>1, <2>3, <3>1 DEF LocalInv
    <2>6. BudgetOK(l) => BudgetOK(k)
        BY <2>1, <2>3 DEF BudgetOK, Need
    <2>7. PoolStep(k, m, i)
        <3>1. CASE k.work[i] = "reusable"
            <4> DEFINE n == [k EXCEPT !.work[i] = "ok"]
            <4>1. n \in Local
                <5> HIDE DEF k, i
                <5> QED
                    BY <2>2, <2>3, SetWork DEF Work, Returned
            <4>2. /\ n.pc = k.pc /\ n.at = k.at /\ n.claimed = k.claimed /\ n.used = k.used
                  /\ n.work = [k.work EXCEPT ![i] = "ok"] /\ k.work \in [Item -> Work]
                <5> HIDE DEF k, i
                <5> QED
                    BY <2>2, <2>3 DEF Local
            <4> HIDE DEF n, k, i
            <4>3. PoolStep(k, n, i)
                BY <2>2, <2>3, <4>1, <4>2 DEF PoolStep, Returned
            <4> QED
                BY <3>1, <4>3 DEF n, m
        <3>2. CASE k.work[i] # "reusable"
            <4>1. PoolStep(k, TryConsume(k, i), i)
                <5> HIDE DEF k, i
                <5> QED
                    BY <2>2, <2>3, TryConsumeSteps
            <4> QED
                BY <3>2, <4>1
        <3> QED
            BY <3>1, <3>2
    <2>8. LocalInv(m) /\ (BudgetOK(k) => BudgetOK(m))
        <3> HIDE DEF k, i, m
        <3> QED
            BY <1>0, <2>2, <2>3, <2>5, <2>7, PoolStepKeeps
    <2> HIDE DEF k, i, m
    <2> QED
        BY <1>q, <2>4, <2>6, <2>8 DEF QuietStep
<1>8. ASSUME NEW i \in Item, NothingDispatched(e, i)
      PROVE  QuietStep(e)
    <2> DEFINE m == [l EXCEPT !.work[i] = "failed"]
    <2>1. /\ inv' = [inv EXCEPT ![e] = m] /\ l.pc = "units"
          /\ holder' = holder /\ attempts' = attempts
        BY <1>8 DEF NothingDispatched, At, spineVars, journalVars
    <2>2. PoolStep(l, m, i)
        BY <1>0, <2>1, SetWorkSteps DEF Returned
    <2> QED
        BY <1>0, <1>q, PoolStepIsQuiet, <2>1, <2>2
<1>9. ASSUME NEW i \in Item, DispatchUnit(e, i)
      PROVE  QuietStep(e)
    <2>1. PICK answer \in {"succeeded", "erred"}, use \in Usage :
            inv' = [inv EXCEPT ![e].work[i] = answer, ![e].usage[i] = use]
        BY <1>9 DEF DispatchUnit
    <2> DEFINE k == [l EXCEPT !.work[i] = answer]
               m == [k EXCEPT !.usage[i] = use]
    <2>2. /\ inv' = [inv EXCEPT ![e] = m] /\ l.pc = "units"
          /\ holder' = holder /\ attempts' = attempts
        <3>1. inv' = [inv EXCEPT ![e] = [l EXCEPT !.work[i] = answer, !.usage[i] = use]]
            BY <2>1
        <3>2. m = [l EXCEPT !.work[i] = answer, !.usage[i] = use]
            OBVIOUS
        <3> HIDE DEF m
        <3>3. inv' = [inv EXCEPT ![e] = m]
            BY <3>1, <3>2
        <3> QED
            BY <1>9, <3>3 DEF DispatchUnit, At, spineVars, journalVars
    <2>3. PoolStep(l, k, i)
        BY <1>0, <2>2, SetWorkSteps DEF InFlight, Answered
    <2>4. PoolStep(l, m, i)
        <3>1. k \in Local
            BY <2>3 DEF PoolStep
        <3> DEFINE usage == [k.usage EXCEPT ![i] = use]
        <3>2. m = [k EXCEPT !.usage = usage]
            OBVIOUS
        <3> HIDE DEF k
        <3>3. usage \in [Item -> Usage]
            BY <3>1 DEF Local
        <3> HIDE DEF usage
        <3>4. /\ m \in Local /\ m.pc = k.pc /\ m.at = k.at /\ m.claimed = k.claimed
              /\ m.used = k.used /\ m.work = k.work
            BY <3>1, <3>2, <3>3 DEF Local
        <3> HIDE DEF m
        <3> QED
            BY <2>3, <3>4 DEF PoolStep
    <2> HIDE DEF k, m
    <2> QED
        BY <1>0, <1>q, PoolStepIsQuiet, <2>2, <2>4
<1>10. ASSUME NEW i \in Item, FinishUnit(e, i)
       PROVE  QuietStep(e)
    <2> DEFINE u == Key(e, i)
    <2>1. l.pc = "units" /\ l.work[i] \in Answered
        BY <1>10 DEF FinishUnit, At
    <2>2. AttemptRows' = AttemptRows /\ holder' = holder
        <3>1. CASE UNCHANGED <<spineVars, journalVars>>
            BY <1>q, <3>1 DEF spineVars, journalVars
        <3>2. ASSUME NEW status, FinishUnitAttempt(e, u, l.att[i], status, l.usage[i])
              PROVE  AttemptRows' = AttemptRows /\ holder' = holder
            <4>1. attempts \in [Unit -> Seq(Attempt)]
                BY DEF DispatchInv, JournalInv, JournalTypeOK
            <4>2. \A v \in Unit : DOMAIN attempts'[v] = DOMAIN attempts[v]
                BY <3>2, <4>1 DEF FinishUnitAttempt
            <4> QED
                BY <3>2, <4>2 DEF AttemptRows, FinishUnitAttempt, spineVars
        <3> QED
            BY <1>10, <3>1, <3>2 DEF FinishUnit
    <2>3. ASSUME Conclude(e, i)
          PROVE  QuietStep(e)
        <3>1. CASE inv' = [inv EXCEPT ![e] = Return(AddTokens(l, i), i, Verdict(l.work[i]))]
            <4>1. Verdict(l.work[i]) \in Returned
                BY <2>1 DEF Verdict, Answered, Returned
            <4>2. PoolStep(l, Return(AddTokens(l, i), i, Verdict(l.work[i])), i)
                <5> HIDE DEF l
                <5> QED
                    BY <1>0, <4>1, ReturnSteps
            <4> QED
                BY PoolStepIsQuiet, <2>1, <2>2, <3>1, <4>2
        <3>2. CASE /\ AddTokens(l, i).tries[i] < MaxRetry
                   /\ inv' = [inv EXCEPT ![e] = Retry(AddTokens(l, i), i)]
            <4>1. AddTokens(l, i).tries = l.tries
                BY <1>0 DEF AddTokens, Local
            <4>2. PoolStep(l, Retry(AddTokens(l, i), i), i)
                <5> HIDE DEF l
                <5> QED
                    BY <1>0, <3>2, <4>1, RetrySteps
            <4> QED
                BY PoolStepIsQuiet, <2>1, <2>2, <3>2, <4>2
        <3> QED
            BY <2>3, <3>1, <3>2 DEF Conclude
    <2>4. ASSUME inv' = [inv EXCEPT ![e] = Return(AddTokens(@, i), i, "unwritten")]
          PROVE  QuietStep(e)
        <3>1. PoolStep(l, Return(AddTokens(l, i), i, "unwritten"), i)
            <4> HIDE DEF l
            <4> QED
                BY <1>0, ReturnSteps DEF Returned
        <3>2. inv' = [inv EXCEPT ![e] = Return(AddTokens(l, i), i, "unwritten")]
            BY <2>4
        <3> QED
            BY PoolStepIsQuiet, <2>1, <2>2, <3>1, <3>2
    <2> QED
        BY <1>10, <2>3, <2>4 DEF FinishUnit
<1>11. CASE SettleUnits(e)
    <2>1. /\ l.pc = "units" /\ holder' = holder /\ attempts' = attempts
          /\ \A i \in Item : l.work[i] \notin InFlight
          /\ l.claimed = NUnits \/ Aborted(l)
        BY <1>11 DEF SettleUnits, At, PoolDone, Running, spineVars, journalVars
    <2>2. CASE Leave(e, "release")
        BY <1>l, <2>1, <2>2
    <2>3. CASE /\ ~l.stop
               /\ inv' = [inv EXCEPT ![e].pc = "complete", ![e].verdict = StepVerdict(l)]
        <3> DEFINE m == [l EXCEPT !.pc = "complete", !.verdict = StepVerdict(l)]
        <3>1. inv' = [inv EXCEPT ![e] = m]
            BY <2>3
        <3>2. LocalInv(m)
            <4> HIDE DEF l
            <4> QED
                BY <1>0, <2>1, <2>3, VerdictIsOK
        <3>3. Need(m) \in SUBSET Need(l) /\ l.used <= m.used
            BY <1>0 DEF Need, Local
        <3>4. BudgetOK(l) => BudgetOK(m)
            <4> HIDE DEF l, m
            <4> QED
                BY <1>0, <2>1, <3>2, <3>3, SlotsSuffice DEF Leased, LocalInv
        <3> HIDE DEF m
        <3> QED
            BY <1>q, <2>1, <3>1, <3>2, <3>4 DEF QuietStep
    <2> QED
        BY <1>11, <2>2, <2>3 DEF SettleUnits, Settled
<1>12. CASE CompleteStep(e)
    <2>1. attempts' = attempts /\ holder' \in {holder, None} /\ l.pc = "complete"
        BY <1>12 DEF CompleteStep, At, AdvanceSpine, HolderAfterRead, journalVars
    <2>2. CASE Leave(e, "release")
        BY <1>l, <2>1, <2>2
    <2>3. CASE inv' = [inv EXCEPT ![e] = [Fresh EXCEPT !.pc = "next", !.stop = l.stop,
                                                     !.used = l.used, !.tokens = l.tokens]]
        <3> DEFINE f == [Fresh EXCEPT !.pc = "idle"]
                   m == [f EXCEPT !.pc = "next", !.stop = l.stop, !.used = l.used, !.tokens = l.tokens]
        <3>1. inv' = [inv EXCEPT ![e] = m]
            BY <2>3
        <3>2. LocalInv(f) /\ f.pc = "idle"
            BY FreshIsOK DEF Fresh
        <3> HIDE DEF f
        <3>3. /\ m \in Local /\ m.pc = "next" /\ m.work = f.work /\ m.claimed = f.claimed
              /\ m.used = l.used
            BY <1>0, <3>2 DEF LocalInv, Local, PC, Leased
        <3> HIDE DEF m
        <3>4. LocalInv(m)
            BY <3>2, <3>3 DEF LocalInv
        <3>5. Need(m) \in SUBSET Need(l) /\ l.used <= m.used
            <4>1. Need(m) = {}
                BY <3>3, <3>4, NoNeed
            <4>2. l.used \in Nat
                BY <1>0 DEF Local
            <4> QED
                BY <3>3, <4>1, <4>2
        <3>6. BudgetOK(l) => BudgetOK(m)
            <4> HIDE DEF l
            <4> QED
                BY <1>0, <2>1, <3>3, <3>5, SlotsSuffice DEF Leased
        <3> QED
            BY <1>q, <2>1, <3>1, <3>4, <3>6 DEF QuietStep
    <2> QED
        BY <1>12, <2>2, <2>3 DEF CompleteStep
<1>13. CASE ReleaseRunLease(e)
    BY <1>13, <1>l DEF ReleaseRunLease, ReleaseEngineLease, spineVars, journalVars
<1>14. CASE HeartbeatTick(e)
    <2>1. inv' = [inv EXCEPT ![e] = l] /\ holder' = holder /\ attempts' = attempts
        BY <1>0, <1>14 DEF HeartbeatTick, RenewEngineLease, journalVars
    <2> QED
        BY <1>0, <1>q, <2>1 DEF QuietStep
<1>15. CASE StopSignal(e)
    <2> DEFINE m == [l EXCEPT !.stop = TRUE]
    <2>1. inv' = [inv EXCEPT ![e] = m] /\ holder' = holder /\ attempts' = attempts
        BY <1>15 DEF StopSignal, spineVars, journalVars
    <2>2. /\ m \in Local /\ m.pc = l.pc /\ m.work = l.work /\ m.used = l.used
          /\ m.claimed = l.claimed /\ m.at = l.at /\ m.verdict = l.verdict /\ m.tripped = l.tripped
        BY <1>0 DEF Local
    <2> HIDE DEF m
    <2>3. LocalInv(m)
        BY <1>0, <2>2 DEF LocalInv
    <2>4. BudgetOK(l) => BudgetOK(m)
        BY <2>2 DEF BudgetOK, Need
    <2> QED
        BY <1>q, <2>1, <2>3, <2>4 DEF QuietStep, m
<1> QED
    BY <1>1, <1>2, <1>3, <1>4, <1>5, <1>6, <1>7, <1>8, <1>9, <1>10, <1>11, <1>12, <1>13, <1>14, <1>15

-----------------------------------------------------------------------------
(* The step that reserves, and the rows.                                   *)

LEMMA ReserveKeeps ==
    ASSUME DispatchInv, SpineTypeOK', JournalInv', NEW e \in Engine, NEW i \in Item, ReserveUnit(e, i)
    PROVE  DispatchInv'
<1> DEFINE l == inv[e]
           u == Key(e, i)
           n == ReservedAttempt(u)
           m == [l EXCEPT !.work[i] = "dispatch", !.att[i] = n]
<1>0. /\ LocalInv(l) /\ l \in Local /\ inv \in [Engine -> Local] /\ IsFiniteSet(AttemptRows)
      /\ attempts \in [Unit -> Seq(Attempt)]
    BY DEF DispatchInv, JournalInv, JournalTypeOK
<1>1. /\ l.pc = "units" /\ l.work[i] = "reserve" /\ l.at \in Steps /\ holder = e /\ holder' = holder
      /\ inv' = [inv EXCEPT ![e] = m]
    <2>1. l.pc = "units" /\ l.work[i] = "reserve" /\ holder = e /\ holder' = holder
        BY DEF ReserveUnit, At, ReserveUnitAttempt, CanReserve, spineVars
    <2>2. inv' = [inv EXCEPT ![e] = m]
        BY DEF ReserveUnit
    <2> QED
        BY <1>0, <2>1, <2>2 DEF LocalInv
<1>2. u \in Unit
    BY <1>1 DEF Key
<1>3. Len(attempts[u]) \in Nat /\ DOMAIN attempts[u] = 1..Len(attempts[u])
    BY <1>0, <1>2, LenProperties
<1>4. PoolStep(l, m, i)
    <2> DEFINE work == [l.work EXCEPT ![i] = "dispatch"]
               att == [l.att EXCEPT ![i] = n]
    <2>1. n \in Nat
        BY <1>3 DEF ReservedAttempt
    <2>2. work \in [Item -> Work] /\ att \in [Item -> Nat] /\ l.work \in [Item -> Work] /\ l.used \in Nat
        <3> HIDE DEF n
        <3> QED
            BY <1>0, <2>1 DEF Local, Work, InFlight
    <2>3. m = [l EXCEPT !.work = work, !.att = att]
        OBVIOUS
    <2> HIDE DEF l, work, att
    <2>4. /\ m \in Local /\ m.pc = l.pc /\ m.at = l.at /\ m.claimed = l.claimed
          /\ m.used = l.used /\ m.work = work
        BY <1>0, <2>2, <2>3 DEF Local
    <2> HIDE DEF m
    <2> QED
        BY <2>2, <2>4 DEF PoolStep, work, InFlight
<1>5. LocalInv(m) /\ (BudgetOK(l) => BudgetOK(m))
    <2> HIDE DEF l, m
    <2> QED
        BY <1>0, <1>1, <1>4, PoolStepKeeps DEF LocalInv
<1> HIDE DEF m
<1>6. CASE HasRunning(u)
    <2>1. \A v \in Unit : DOMAIN attempts'[v] = DOMAIN attempts[v]
        <3> DEFINE taken == [attempts[u] EXCEPT ![Len(attempts[u])].claim = e]
        <3>1. attempts' = [attempts EXCEPT ![u] = taken]
            <4> HIDE DEF u
            <4> QED
                BY <1>6 DEF ReserveUnit, ReserveUnitAttempt, TakeOverClaim, u
        <3>2. DOMAIN taken = DOMAIN attempts[u]
            OBVIOUS
        <3> HIDE DEF taken, u, l, n
        <3> QED
            BY <1>0, <1>2, <3>1, <3>2
    <2>2. AttemptRows' = AttemptRows
        BY <2>1 DEF AttemptRows
    <2>3. QuietStep(e)
        BY <1>1, <1>5, <2>2 DEF QuietStep
    <2> QED
        BY <2>3, QuietStepKeeps
<1>7. CASE ~HasRunning(u)
    <2> DEFINE new == <<u, Len(attempts[u]) + 1>>
    <2>1. PICK a \in Attempt : attempts' = [attempts EXCEPT ![u] = Append(attempts[u], a)]
        <3>1. [claim |-> e, status |-> "running", result |-> None] \in Attempt
            BY DEF Attempt, AttemptStatus
        <3> QED
            BY <1>7, <3>1 DEF ReserveUnit, ReserveUnitAttempt, FreshAttempt
    <2>2. DOMAIN attempts'[u] = 1..(Len(attempts[u]) + 1)
        BY <1>0, <1>2, <2>1, AppendAttempt
    <2>3. \A v \in Unit \ {u} : attempts'[v] = attempts[v]
        BY <1>0, <2>1
    <2>4. 1..(Len(attempts[u]) + 1) = 1..Len(attempts[u]) \cup {Len(attempts[u]) + 1}
        BY <1>3
    <2>5. AttemptRows' = AttemptRows \cup {new} /\ new \notin AttemptRows
        <3>1. AttemptRows' = UNION {{<<v, k>> : k \in DOMAIN attempts'[v]} : v \in Unit}
            BY DEF AttemptRows
        <3>2. \A x : x \in AttemptRows' <=> \E v \in Unit : \E k \in DOMAIN attempts'[v] : x = <<v, k>>
            BY <3>1
        <3>3. \A x : x \in AttemptRows <=> \E v \in Unit : \E k \in DOMAIN attempts[v] : x = <<v, k>>
            BY DEF AttemptRows
        <3>4. DOMAIN attempts'[u] = DOMAIN attempts[u] \cup {Len(attempts[u]) + 1}
            BY <1>3, <2>2, <2>4
        <3>5. Len(attempts[u]) + 1 \notin DOMAIN attempts[u]
            BY <1>3
        <3>6. new \notin AttemptRows
            BY <3>3, <3>5
        <3>7. \A x : x \in AttemptRows' <=> x \in AttemptRows \cup {new}
            BY <1>2, <2>3, <3>2, <3>3, <3>4
        <3> QED
            BY <3>6, <3>7
    <2>6. IsFiniteSet(AttemptRows') /\ Journaled' = Journaled + 1 /\ Journaled \in Nat
        BY <1>0, <2>5, FS_AddElement, FS_CardinalityType DEF Journaled
    <2>7. Cardinality(Need(m)) + 1 = Cardinality(Need(l)) /\ Cardinality(Need(m)) \in Nat
        <3>1. i \in Need(l) /\ Need(m) = Need(l) \ {i}
            <4>1. m.work[i] = "dispatch"
                <5>1. l.work \in [Item -> Work]
                    BY <1>0 DEF Local
                <5> QED
                    BY <1>0, <5>1 DEF m, Local
            <4> QED
                BY <1>1, <1>4, <4>1 DEF Need, PoolStep
        <3>2. IsFiniteSet(Need(l)) /\ Cardinality(Need(l)) \in Nat
            BY <1>0, NeedIsFinite
        <3>3. Cardinality(Need(m)) = Cardinality(Need(l)) - 1
            <4> HIDE DEF l
            <4>1. Cardinality(Need(l) \ {i}) =
                    IF i \in Need(l) THEN Cardinality(Need(l)) - 1 ELSE Cardinality(Need(l))
                BY <3>2, FS_RemoveElement
            <4> QED
                BY <3>1, <4>1
        <3>4. Cardinality(Need(m)) \in Nat
            BY <1>4, NeedIsFinite DEF PoolStep
        <3> QED
            BY <3>2, <3>3, <3>4
    <2>8. /\ Journaled + Cardinality(Need(l)) <= l.used
          /\ m.used = l.used /\ l.used \in 0..MaxUnits
        <3>1. BudgetOK(l) /\ l.used \in 0..MaxUnits
            BY <1>0, <1>1 DEF DispatchInv, Local
        <3>2. m.used = l.used
            BY <1>0 DEF m, Local
        <3> QED
            BY <1>1, <3>1, <3>2 DEF BudgetOK, Leased
    <2>9. Journaled' + Cardinality(Need(m)) <= m.used /\ UnitCeiling'
        <3>1. Journaled' + Cardinality(Need(m)) <= m.used
            BY <2>6, <2>7, <2>8
        <3> QED
            BY <2>6, <2>7, <2>8, <3>1 DEF UnitCeiling
    <2>10. inv' \in [Engine -> Local] /\ \A d \in Engine : LocalInv(inv'[d])
        BY <1>0, <1>1, <1>5 DEF DispatchInv, LocalInv
    <2>11. ASSUME NEW d \in Engine, holder' = d
           PROVE  BudgetOK(inv[d])'
        <3>1. d = e /\ inv'[d] = m
            BY <1>0, <1>1, <2>11
        <3> QED
            BY <2>9, <3>1 DEF BudgetOK, Need
    <2> QED
        BY <2>6, <2>9, <2>10, <2>11 DEF DispatchInv, LocalInv
<1> QED
    BY <1>6, <1>7

\* Everything the fan-out does to the rows is a step of the journal under the spine.
LEMMA DispatchStepIsJournalStep ==
    ASSUME DispatchInv, DispatchNext
    PROVE  [(SpineNext /\ UNCHANGED journalVars) \/ JournalNext]_<<spineVars, journalVars>>
<1>1. ASSUME NEW e \in Engine, InvocationStep(e)
      PROVE  \/ SpineNext /\ UNCHANGED journalVars
             \/ JournalNext
             \/ UNCHANGED <<spineVars, journalVars>>
    <2> DEFINE l == inv[e]
    <2>0. LocalInv(l)
        BY DEF DispatchInv
    <2>1. CASE AcquireRunLease(e)
        BY <2>1 DEF AcquireRunLease, SpineNext
    <2>2. CASE RenewBetweenSteps(e)
        BY <2>2 DEF RenewBetweenSteps, SpineNext
    <2>3. ASSUME NEW i \in Item, l.pc = "units"
          PROVE  Key(e, i) \in Unit
        BY <2>0, <2>3 DEF LocalInv, Key
    <2>4. ASSUME NEW i \in Item, ReserveUnit(e, i)
          PROVE  JournalNext
        BY <2>3, <2>4 DEF ReserveUnit, At, JournalNext
    <2>5. ASSUME NEW i \in Item, FinishUnit(e, i)
          PROVE  JournalNext \/ UNCHANGED <<spineVars, journalVars>>
        <3>1. Key(e, i) \in Unit /\ l.usage[i] \in Outcome
            BY <2>0, <2>3, <2>5 DEF FinishUnit, At, LocalInv, Local
        <3>2. ASSUME NEW status \in {"completed", "failed"},
                     FinishUnitAttempt(e, Key(e, i), l.att[i], status, l.usage[i])
              PROVE  JournalNext
            <4>1. l.att[i] \in DOMAIN attempts[Key(e, i)] /\ status \in AttemptStatus \ {"running"}
                BY <3>2 DEF FinishUnitAttempt, CanFinish, AttemptStatus
            <4> QED
                BY <3>1, <3>2, <4>1 DEF JournalNext
        <3> QED
            BY <2>5, <3>2 DEF FinishUnit
    <2>6. CASE CompleteStep(e)
        <3>1. l.pc = "complete" /\ journalVars' = journalVars
            BY <2>6 DEF CompleteStep, At
        <3>2. CASE AdvanceSpine(e, l.at, l.verdict)
            <4>1. l.at \in Steps /\ l.verdict \in StepStatus \ {"pending"}
                BY <2>0, <3>1 DEF LocalInv, Local, StepStatus
            <4> QED
                BY <3>1, <3>2, <4>1 DEF SpineNext
        <3>3. CASE /\ holder' = HolderAfterRead
                   /\ UNCHANGED <<runStatus, current, step, live, resuming, snap>>
            <4>1. CASE live \/ holder = None
                BY <3>1, <3>3, <4>1 DEF HolderAfterRead, spineVars
            <4>2. CASE ~(live \/ holder = None)
                BY <3>1, <3>3, <4>2 DEF HolderAfterRead, ReclaimExpiredLease, SpineNext
            <4> QED
                BY <4>1, <4>2
        <3> QED
            BY <2>6, <3>2, <3>3 DEF CompleteStep
    <2>7. CASE ReleaseRunLease(e)
        BY <2>7 DEF ReleaseRunLease, SpineNext
    <2>8. CASE \/ OpenRun(e) \/ SeedBudget(e) \/ ReadNext(e) \/ ClassifyUnits(e) \/ ClaimUnit(e)
               \/ SettleUnits(e) \/ \E i \in Item : NothingDispatched(e, i) \/ DispatchUnit(e, i)
        BY <2>8 DEF OpenRun, SeedBudget, ReadNext, ClassifyUnits, ClaimUnit, SettleUnits,
                    NothingDispatched, DispatchUnit
    <2> QED
        BY <1>1, <2>1, <2>2, <2>4, <2>5, <2>6, <2>7, <2>8 DEF InvocationStep
<1>2. ASSUME NEW e \in Engine, HeartbeatTick(e)
      PROVE  SpineNext /\ UNCHANGED journalVars
    BY <1>2 DEF HeartbeatTick, SpineNext
<1>3. ASSUME NEW e \in Engine, StopSignal(e)
      PROVE  UNCHANGED <<spineVars, journalVars>>
    BY <1>3 DEF StopSignal
<1>4. CASE Operator
    BY <1>4 DEF Operator, SpineNext
<1> QED
    BY <1>1, <1>2, <1>3, <1>4 DEF DispatchNext

\* The invariant holds at first, and every step of the fan-out keeps it.
LEMMA DispatchInvInductive ==
    /\ DispatchInit => DispatchInv
    /\ DispatchInv /\ [DispatchNext]_dispatchVars => DispatchInv'
<1>1. DispatchInit => DispatchInv
    <2> SUFFICES ASSUME DispatchInit
                 PROVE  DispatchInv
        OBVIOUS
    <2>1. SpineTypeOK /\ JournalInv
        BY SpineTypeInductive, JournalInvInductive DEF DispatchInit
    <2>2. Fresh = [Fresh EXCEPT !.pc = "idle"]
        BY FreshType DEF Local
    <2>3. LocalInv(Fresh) /\ BudgetOK(Fresh)
        BY <2>2, FreshIsOK
    <2>4. \A e \in Engine : inv[e] = Fresh
        BY DEF DispatchInit
    <2>5. inv \in [Engine -> Local]
        BY <2>3 DEF DispatchInit, LocalInv
    <2>6. AttemptRows = {}
        BY DEF DispatchInit, JournalInit, AttemptRows
    <2>7. IsFiniteSet(AttemptRows) /\ UnitCeiling
        BY <2>6, FS_EmptySet DEF UnitCeiling, Journaled
    <2> QED
        BY <2>1, <2>3, <2>4, <2>5, <2>7 DEF DispatchInv
<1>2. ASSUME DispatchInv, DispatchNext
      PROVE  DispatchInv'
    <2>1. SpineTypeOK' /\ JournalInv'
        <3>1. [(SpineNext /\ UNCHANGED journalVars) \/ JournalNext]_<<spineVars, journalVars>>
            BY <1>2, DispatchStepIsJournalStep
        <3>2. JournalInv'
            BY <1>2, <3>1, JournalInvInductive DEF DispatchInv
        <3>3. [SpineNext]_spineVars
            BY <3>1 DEF JournalNext, ReserveUnitAttempt, FinishUnitAttempt
        <3> QED
            BY <1>2, <3>2, <3>3, SpineTypeInductive DEF DispatchInv
    <2>2. ASSUME NEW e \in Engine, InvocationStep(e) \/ HeartbeatTick(e) \/ StopSignal(e)
          PROVE  DispatchInv'
        <3>1. ASSUME NEW i \in Item, ReserveUnit(e, i)
              PROVE  DispatchInv'
            BY <1>2, <2>1, <3>1, ReserveKeeps
        <3>2. ASSUME QuietStep(e)
              PROVE  DispatchInv'
            BY <1>2, <2>1, <3>2, QuietStepKeeps
        <3> QED
            BY <1>2, <2>2, <3>1, <3>2, QuietActions DEF InvocationStep
    <2>3. CASE Operator
        <3>1. /\ inv' = inv /\ AttemptRows' = AttemptRows /\ Journaled' = Journaled
              /\ holder' \in {holder, None}
            BY <2>3 DEF Operator, ResumeRead, ResumeCommit, LeaseExpires, ReclaimExpiredLease,
                        HolderAfterRead, journalVars, AttemptRows, Journaled
        <3>2. ASSUME NEW e \in Engine, holder' = e
              PROVE  BudgetOK(inv[e])'
            <4>1. BudgetOK(inv[e])
                BY <1>2, <3>1, <3>2, SpineAssumption DEF DispatchInv
            <4> QED
                BY <3>1, <4>1 DEF BudgetOK, Need
        <3> QED
            BY <1>2, <2>1, <3>1, <3>2 DEF DispatchInv, UnitCeiling, LocalInv
    <2> QED
        BY <1>2, <2>2, <2>3 DEF DispatchNext
<1>3. ASSUME DispatchInv, UNCHANGED dispatchVars
      PROVE  DispatchInv'
    <2>1. spineVars' = spineVars /\ journalVars' = journalVars /\ inv' = inv
        BY <1>3 DEF dispatchVars, spineVars, journalVars
    <2>2. SpineTypeOK' /\ JournalInv'
        BY <1>3, <2>1, SpineTypeInductive, JournalInvInductive DEF DispatchInv, spineVars, journalVars
    <2>3. AttemptRows' = AttemptRows /\ Journaled' = Journaled /\ holder' = holder
        BY <2>1 DEF AttemptRows, Journaled, journalVars, spineVars
    <2>4. ASSUME NEW e \in Engine, holder' = e
          PROVE  BudgetOK(inv[e])'
        <3>1. BudgetOK(inv[e])
            BY <1>3, <2>3, <2>4 DEF DispatchInv
        <3> QED
            BY <2>1, <2>3, <3>1 DEF BudgetOK, Need
    <2> QED
        BY <1>3, <2>1, <2>2, <2>3, <2>4 DEF DispatchInv, UnitCeiling, LocalInv
<1> QED
    BY <1>1, <1>2, <1>3

-----------------------------------------------------------------------------
(* Theorems.                                                               *)

\* The invariant of the fan-out: types, the journal, what each engine knows.
THEOREM DispatchInvCorrect == DispatchSpec => []DispatchInv
BY DispatchInvInductive, PTL DEF DispatchSpec

\* The fan-out is a client of the journal as JournalSpec describes it, so all that
\* is proved of the journal under any spine holds of its rows.
THEOREM DispatchImplementsJournal == DispatchSpec => JournalSpec
<1>1. DispatchInit => SpineInit /\ JournalInit
    BY DEF DispatchInit
<1>2. DispatchInv /\ [DispatchNext]_dispatchVars
        => [(SpineNext /\ UNCHANGED journalVars) \/ JournalNext]_<<spineVars, journalVars>>
    BY DispatchStepIsJournalStep DEF dispatchVars
<1> QED
    BY <1>1, <1>2, DispatchInvCorrect, PTL DEF DispatchSpec, JournalSpec
=============================================================================
