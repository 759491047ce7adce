-------------------------- MODULE UnitJournal_proofs --------------------------
(***************************************************************************)
(* Proofs about UnitJournal for every set of engines, units and outcomes,  *)
(* under a spine that moves on its own.                                    *)
(***************************************************************************)
EXTENDS UnitJournal, SequenceTheorems, TLAPS

-----------------------------------------------------------------------------
(* Sequences of attempts.                                                  *)

\* Appending an attempt leaves those before it alone.
LEMMA AppendAttempt ==
    ASSUME NEW q \in Seq(Attempt), NEW a \in Attempt
    PROVE  /\ Append(q, a) \in Seq(Attempt)
           /\ Len(Append(q, a)) = Len(q) + 1 /\ Len(q) \in Nat
           /\ DOMAIN q = 1..Len(q) /\ DOMAIN Append(q, a) = 1..(Len(q) + 1)
           /\ Append(q, a)[Len(q) + 1] = a
           /\ \A n \in 1..Len(q) : Append(q, a)[n] = q[n]
BY LenProperties, AppendProperties

\* Rewriting the last attempt leaves those before it alone.
LEMMA RewriteLast ==
    ASSUME NEW q \in Seq(Attempt), q # <<>>, NEW a \in Attempt
    PROVE  /\ [q EXCEPT ![Len(q)] = a] \in Seq(Attempt)
           /\ Len([q EXCEPT ![Len(q)] = a]) = Len(q)
           /\ Len(q) \in Nat \ {0} /\ Len(q) \in DOMAIN q
           /\ DOMAIN q = 1..Len(q) /\ DOMAIN [q EXCEPT ![Len(q)] = a] = 1..Len(q)
           /\ [q EXCEPT ![Len(q)] = a][Len(q)] = a
           /\ \A n \in 1..Len(q) : n # Len(q) => [q EXCEPT ![Len(q)] = a][n] = q[n]
<1>1. Len(q) \in Nat \ {0} /\ DOMAIN q = 1..Len(q)
    BY EmptySeq, LenProperties
<1>2. Len(q) \in 1..Len(q)
    BY <1>1
<1> QED
    BY <1>1, <1>2, ExceptSeq, LenProperties

\* The projection of an attempt, and what the journal of one unit looks like.
Project(a, n) ==
    [claim |-> a.claim, status |-> a.status, result |-> a.result, attempts |-> n]
UnitOK(q, r) ==
    /\ \A n \in DOMAIN q : n < Len(q) => q[n].status # "running"
    /\ r = IF q = <<>> THEN NoRow ELSE Project(q[Len(q)], Len(q))

\* The invariant is one of each unit by itself.
LEMMA JournalInvByUnit ==
    JournalInv <=> JournalTypeOK /\ \A u \in Unit : UnitOK(attempts[u], row[u])
BY DEF JournalInv, OnlyLatestRunning, ProjectionIsLatest, UnitOK, Project, Latest

-----------------------------------------------------------------------------
(* The three ways in which the journal changes, all on one unit.           *)

Appended(u) ==
    /\ \A n \in DOMAIN attempts[u] : attempts[u][n].status # "running"
    /\ \E a \in Attempt : /\ attempts' = [attempts EXCEPT ![u] = Append(attempts[u], a)]
                          /\ row' = [row EXCEPT ![u] = Project(a, Len(attempts[u]) + 1)]
Rewritten(u) ==
    /\ HasRunning(u)
    /\ \E a \in Attempt :
        /\ attempts' = [attempts EXCEPT ![u] = [attempts[u] EXCEPT ![Len(attempts[u])] = a]]
        /\ row' = [row EXCEPT ![u] = Project(a, Len(attempts[u]))]

\* A reservation appends an attempt or rewrites the one that is running, and a
\* finish rewrites the one that is running.
LEMMA JournalStepIsLocal ==
    ASSUME JournalInv, JournalNext
    PROVE  \E u \in Unit : Appended(u) \/ Rewritten(u)
<1> USE DEF JournalInv
<1>0. \A u \in Unit : attempts[u] \in Seq(Attempt) /\ row[u] \in Row
    BY DEF JournalTypeOK
<1>1. ASSUME NEW e \in Engine, NEW u \in Unit, ReserveUnitAttempt(e, u), HasRunning(u)
      PROVE  Rewritten(u)
    <2> DEFINE n == Len(attempts[u])
               a == [attempts[u][n] EXCEPT !.claim = e]
    <2>1. attempts[u] # <<>> /\ attempts[u][n].status = "running"
        BY <1>1 DEF HasRunning, Latest
    <2>2. attempts[u][n] \in Attempt
        BY <1>0, <2>1, EmptySeq, ElementOfSeq
    <2>3. a \in Attempt /\ a = [claim |-> e, status |-> "running", result |-> attempts[u][n].result]
        BY <2>1, <2>2 DEF Attempt
    <2>4. attempts' = [attempts EXCEPT ![u] = [attempts[u] EXCEPT ![n] = a]]
        BY <1>1 DEF ReserveUnitAttempt, TakeOverClaim
    <2>5. row[u] = Project(attempts[u][n], n)
        BY <2>1 DEF ProjectionIsLatest, Latest, Project
    <2>6. row[u].status = "running" /\ [row[u] EXCEPT !.claim = e] = Project(a, n)
        BY <2>1, <2>3, <2>5 DEF Project
    <2>7. row' = [row EXCEPT ![u] = Project(a, n)]
        BY <1>1, <2>6 DEF ReserveUnitAttempt, TakeOverClaim
    <2> QED
        BY <1>1, <2>3, <2>4, <2>7 DEF Rewritten
<1>2. ASSUME NEW e \in Engine, NEW u \in Unit, ReserveUnitAttempt(e, u), ~HasRunning(u)
      PROVE  Appended(u)
    <2> DEFINE a == [claim |-> e, status |-> "running", result |-> None]
    <2>1. a \in Attempt
        BY DEF Attempt, AttemptStatus
    <2>2. attempts' = [attempts EXCEPT ![u] = Append(attempts[u], a)]
        BY <1>2 DEF ReserveUnitAttempt, FreshAttempt
    <2>3. row' = [row EXCEPT ![u] = Project(a, Len(attempts[u]) + 1)]
        BY <1>2 DEF ReserveUnitAttempt, FreshAttempt, Project
    <2>4. \A n \in DOMAIN attempts[u] : attempts[u][n].status # "running"
        <3>1. DOMAIN attempts[u] = 1..Len(attempts[u]) /\ Len(attempts[u]) \in Nat
            BY <1>0, LenProperties
        <3>2. attempts[u] # <<>> => attempts[u][Len(attempts[u])].status # "running"
            BY <1>2 DEF HasRunning, Latest
        <3>3. attempts[u] = <<>> => DOMAIN attempts[u] = {}
            BY <3>1, EmptySeq
        <3> QED
            BY <3>1, <3>2, <3>3 DEF OnlyLatestRunning
    <2> QED
        BY <2>1, <2>2, <2>3, <2>4 DEF Appended
<1>3. ASSUME NEW e \in Engine, NEW u \in Unit, NEW result \in Outcome \cup {None},
             NEW n \in DOMAIN attempts[u], NEW status \in AttemptStatus \ {"running"},
             FinishUnitAttempt(e, u, n, status, result)
      PROVE  Rewritten(u)
    <2> DEFINE a == [claim |-> e, status |-> status, result |-> result]
    <2>1. attempts[u][n].status = "running" /\ attempts[u][n].claim = e
        BY <1>3 DEF FinishUnitAttempt, CanFinish
    <2>2. DOMAIN attempts[u] = 1..Len(attempts[u]) /\ Len(attempts[u]) \in Nat
        BY <1>0, LenProperties
    <2>3. n = Len(attempts[u]) /\ attempts[u] # <<>>
        <3>1. ~(n < Len(attempts[u]))
            BY <2>1 DEF OnlyLatestRunning
        <3>2. n \in 1..Len(attempts[u])
            BY <2>2
        <3>3. Len(<<>>) = 0
            BY EmptySeq
        <3> QED
            BY <2>2, <3>1, <3>2, <3>3
    <2>4. a \in Attempt
        BY DEF Attempt
    <2>5. attempts' = [attempts EXCEPT ![u] = [attempts[u] EXCEPT ![Len(attempts[u])] = a]]
        BY <1>3, <2>3 DEF FinishUnitAttempt
    <2>6. row' = [row EXCEPT ![u] = Project(a, n)]
        BY <1>3 DEF FinishUnitAttempt, Project
    <2> QED
        BY <2>1, <2>3, <2>4, <2>5, <2>6 DEF Rewritten, HasRunning, Latest
<1> QED
    BY <1>1, <1>2, <1>3 DEF JournalNext

\* Each of the three keeps the journal of its unit in order, and every attempt
\* that is finished.
LEMMA LocalStepKeepsInv ==
    ASSUME JournalInv, NEW u \in Unit, Appended(u) \/ Rewritten(u)
    PROVE  /\ JournalInv'
           /\ \A v \in Unit : \A n \in DOMAIN attempts[v] :
                /\ n \in DOMAIN attempts'[v]
                /\ attempts[v][n].status # "running" => attempts'[v][n] = attempts[v][n]
<1> USE DEF JournalInv
<1>0. \A v \in Unit : attempts[v] \in Seq(Attempt) /\ row[v] \in Row
    BY DEF JournalTypeOK
<1> DEFINE q == attempts[u]
           q2 == attempts'[u]
<1>1. \A v \in Unit : v # u => attempts'[v] = attempts[v] /\ row'[v] = row[v]
    BY DEF Appended, Rewritten, JournalTypeOK
<1>2. CASE Appended(u)
    <2>1. PICK a \in Attempt :
            /\ attempts' = [attempts EXCEPT ![u] = Append(q, a)]
            /\ row' = [row EXCEPT ![u] = Project(a, Len(q) + 1)]
        BY <1>2 DEF Appended
    <2>2. q2 = Append(q, a) /\ row'[u] = Project(a, Len(q) + 1)
        BY <2>1 DEF JournalTypeOK
    <2>3. /\ q2 \in Seq(Attempt) /\ Len(q2) = Len(q) + 1 /\ Len(q) \in Nat
          /\ DOMAIN q = 1..Len(q) /\ DOMAIN q2 = 1..(Len(q) + 1)
          /\ q2[Len(q) + 1] = a
          /\ \A n \in 1..Len(q) : q2[n] = q[n]
        BY <1>0, <2>2, AppendAttempt
    <2>4. \A n \in DOMAIN q : q[n].status # "running"
        BY <1>2 DEF Appended
    <2>5. q2 # <<>>
        BY <2>3, EmptySeq
    <2>6. UnitOK(q2, row'[u])
        BY <2>2, <2>3, <2>4, <2>5 DEF UnitOK
    <2>7. attempts' \in [Unit -> Seq(Attempt)]
        BY <2>1, <2>2, <2>3 DEF JournalTypeOK
    <2>8. row' \in [Unit -> Row]
        <3>1. Project(a, Len(q) + 1) \in Row
            BY <2>3 DEF Project, Row, Attempt
        <3> QED
            BY <2>1, <3>1 DEF JournalTypeOK
    <2>9. \A v \in Unit : UnitOK(attempts'[v], row'[v])
        BY <1>1, <2>6, JournalInvByUnit
    <2>10. JournalInv'
        BY <2>7, <2>8, <2>9
        DEF JournalTypeOK, OnlyLatestRunning, ProjectionIsLatest, UnitOK, Project, Latest
    <2> QED
        BY <1>1, <2>3, <2>10
<1>3. CASE Rewritten(u)
    <2>1. PICK a \in Attempt :
            /\ attempts' = [attempts EXCEPT ![u] = [q EXCEPT ![Len(q)] = a]]
            /\ row' = [row EXCEPT ![u] = Project(a, Len(q))]
        BY <1>3 DEF Rewritten
    <2>2. q2 = [q EXCEPT ![Len(q)] = a] /\ row'[u] = Project(a, Len(q))
        BY <2>1 DEF JournalTypeOK
    <2>3. q # <<>> /\ q[Len(q)].status = "running"
        BY <1>3 DEF Rewritten, HasRunning, Latest
    <2>4. /\ q2 \in Seq(Attempt) /\ Len(q2) = Len(q) /\ Len(q) \in Nat \ {0}
          /\ DOMAIN q = 1..Len(q) /\ DOMAIN q2 = 1..Len(q)
          /\ q2[Len(q)] = a
          /\ \A n \in 1..Len(q) : n # Len(q) => q2[n] = q[n]
        BY <1>0, <2>2, <2>3, RewriteLast
    <2>5. q2 # <<>>
        BY <2>4, EmptySeq
    <2>6. UnitOK(q2, row'[u])
        <3>1. \A n \in DOMAIN q2 : n < Len(q2) => q2[n].status # "running"
            BY <2>4 DEF OnlyLatestRunning
        <3> QED
            BY <2>2, <2>4, <2>5, <3>1 DEF UnitOK
    <2>7. attempts' \in [Unit -> Seq(Attempt)]
        BY <2>1, <2>2, <2>4 DEF JournalTypeOK
    <2>8. row' \in [Unit -> Row]
        <3>1. Project(a, Len(q)) \in Row
            BY <2>4 DEF Project, Row, Attempt
        <3> QED
            BY <2>1, <3>1 DEF JournalTypeOK
    <2>9. \A v \in Unit : UnitOK(attempts'[v], row'[v])
        BY <1>1, <2>6, JournalInvByUnit
    <2>10. JournalInv'
        BY <2>7, <2>8, <2>9
        DEF JournalTypeOK, OnlyLatestRunning, ProjectionIsLatest, UnitOK, Project, Latest
    <2> QED
        BY <1>1, <2>3, <2>4, <2>10
<1> QED
    BY <1>2, <1>3

-----------------------------------------------------------------------------
(* Theorems.                                                               *)

\* The invariant is inductive, whatever step of the spine comes in between.
LEMMA JournalInvInductive ==
    /\ JournalInit => JournalInv
    /\ JournalInv /\ [(SpineNext /\ UNCHANGED journalVars) \/ JournalNext]_<<spineVars, journalVars>>
        => JournalInv'
<1>1. JournalInit => JournalInv
    <2> SUFFICES ASSUME JournalInit
                 PROVE  JournalInv
        OBVIOUS
    <2>1. JournalTypeOK
        <3>1. <<>> \in Seq(Attempt) /\ NoRow \in Row
            BY EmptySeq DEF NoRow, Row
        <3> QED
            BY <3>1 DEF JournalInit, JournalTypeOK
    <2>2. \A u \in Unit : attempts[u] = <<>> /\ row[u] = NoRow
        BY DEF JournalInit
    <2>3. \A u \in Unit : DOMAIN attempts[u] = {}
        BY <2>2
    <2> QED
        BY <2>1, <2>2, <2>3 DEF JournalInv, OnlyLatestRunning, ProjectionIsLatest
<1>2. JournalInv /\ JournalNext => JournalInv'
    BY JournalStepIsLocal, LocalStepKeepsInv
<1>3. JournalInv /\ UNCHANGED journalVars => JournalInv'
    BY DEF JournalInv, JournalTypeOK, OnlyLatestRunning, ProjectionIsLatest, Latest, journalVars
<1> QED
    BY <1>1, <1>2, <1>3 DEF journalVars

\* Whatever reservations, takeovers and late finishes do, the journal is well
\* typed, has one running attempt per unit at most, and the projection that
\* resume reads is the latest attempt.
THEOREM JournalInvCorrect == JournalSpec => []JournalInv
BY JournalInvInductive, PTL DEF JournalSpec

\* One attempt of a unit is running at most, and it is the latest.
THEOREM OnlyLatestEverRunning == JournalSpec => []OnlyLatestRunning
BY JournalInvCorrect, PTL DEF JournalInv

\* The workflow_run_units row is the latest workflow_run_unit_attempts row.
THEOREM ProjectionAlwaysLatest == JournalSpec => []ProjectionIsLatest
BY JournalInvCorrect, PTL DEF JournalInv

\* The journal is append-only: a late finish never rewrites a finished attempt.
THEOREM FinishedAttemptsStay == JournalSpec => FinishedAttemptIsFinal
<1>1. JournalInv /\ [(SpineNext /\ UNCHANGED journalVars) \/ JournalNext]_<<spineVars, journalVars>>
        => [\A u \in Unit : \A n \in DOMAIN attempts[u] :
                /\ n \in DOMAIN attempts'[u]
                /\ attempts[u][n].status # "running" => attempts'[u][n] = attempts[u][n]
           ]_<<spineVars, journalVars>>
    <2>1. CASE JournalNext
        BY <2>1, JournalStepIsLocal, LocalStepKeepsInv
    <2>2. CASE UNCHANGED journalVars
        BY <2>2 DEF journalVars
    <2> QED
        BY <2>1, <2>2
<1> QED
    BY <1>1, JournalInvCorrect, PTL DEF JournalSpec, FinishedAttemptIsFinal
=============================================================================
