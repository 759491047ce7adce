--------------------------- MODULE FileLock_proofs ---------------------------
(***************************************************************************)
(* Proofs about FileLock for every set of processes and tokens, any number *)
(* of crashes and reused PIDs: who holds the lock, who loses it, that it is *)
(* an abstract mutex, and what bounds the work of a call.                  *)
(***************************************************************************)
EXTENDS FileLock, TLAPS

-----------------------------------------------------------------------------
(* The inductive invariant, one action at a time.                          *)

\* What an action does to the locals of the others.
LEMMA OthersUnchanged ==
    ASSUME LockTypeOK, NEW p \in Process, NEW l, proc' = [proc EXCEPT ![p] = l]
    PROVE  proc'[p] = l /\ \A q \in Process : q # p => proc'[q] = proc[q]
BY DEF LockTypeOK

\* A fresh token is unlike every token that somebody still compares.
LEMMA NewTokenIsFresh ==
    ASSUME FreshTokens # {}
    PROVE  /\ NewToken \in Token /\ NewToken # None /\ NewToken # file.token
           /\ \A p \in Process : NewToken # proc[p].own /\ NewToken # proc[p].seen.token
<1>1. NewToken \in FreshTokens
    BY DEF NewToken
<1> QED
    BY <1>1, LockAssumption DEF FreshTokens

LEMMA LockInvInit == LockInit => LockInv
<1> SUFFICES ASSUME LockInit
             PROVE  LockInv
    OBVIOUS
<1>1. LockTypeOK
    BY LockAssumption DEF LockInit, LockTypeOK, NoFile, File, Fresh, Local
<1>2. \A p \in Process : proc[p].own = None /\ proc[p].pc = "idle"
    BY DEF LockInit, Fresh
<1> QED
    BY <1>1, <1>2
    DEF LockInv, WriterIsAlone, OwnersDiffer, ProbeKnowsHolder, ReclaimsTheDead,
        Holding, Probing, LockInit

\* The locals keep their type when one process moves.
LEMMA LocalsType ==
    ASSUME LockTypeOK, NEW p \in Process, NEW l \in Local, proc' = [proc EXCEPT ![p] = l]
    PROVE  proc' \in [Process -> Local]
BY DEF LockTypeOK

LEMMA FreshIsLocal == Fresh \in Local /\ Fresh.own = None /\ Fresh.pc = "idle"
BY LockAssumption DEF Fresh, Local, NoFile, File

LEMMA CreateKeepsInv ==
    ASSUME LockInv, NEW p \in Process, p \in alive, CreateSentinel(p)
    PROVE  LockInv'
<1> DEFINE l == [proc[p] EXCEPT !.pc = "write", !.own = NewToken]
<1>0. LockTypeOK /\ WriterIsAlone /\ OwnersDiffer /\ ProbeKnowsHolder /\ ReclaimsTheDead
    BY DEF LockInv
<1>1. /\ proc[p].pc = "acquire" /\ mutex = None /\ file = NoFile /\ mutex' = p
      /\ file' = [token |-> NewToken, pid |-> None, old |-> FALSE]
      /\ UNCHANGED <<alive, crashes>>
    BY DEF CreateSentinel
<1>2. /\ NewToken \in Token /\ NewToken # None
      /\ \A q \in Process : NewToken # proc[q].own /\ NewToken # proc[q].seen.token
    BY NewTokenIsFresh DEF CreateSentinel
<1>3. proc' = [proc EXCEPT ![p].pc = "write", ![p].own = NewToken]
    BY DEF CreateSentinel
<1>4. proc[p] \in Local
    BY <1>0 DEF LockTypeOK
<1>5. /\ proc'[p].pc = "write" /\ proc'[p].own = NewToken /\ proc'[p].seen = proc[p].seen
      /\ \A q \in Process : q # p => proc'[q] = proc[q]
      /\ proc' \in [Process -> Local]
    BY <1>0, <1>2, <1>3, <1>4 DEF LockTypeOK, Local
<1>6. LockTypeOK'
    BY <1>0, <1>1, <1>2, <1>5 DEF LockTypeOK, File
<1>7. \A q \in Process : proc[q].pc \notin {"write", "unlink"} /\ p # None
    BY <1>0, <1>1, LockAssumption DEF WriterIsAlone
<1>8. WriterIsAlone'
    BY <1>1, <1>2, <1>5, <1>7 DEF WriterIsAlone, NoFile
<1>9. OwnersDiffer'
    BY <1>0, <1>1, <1>2, <1>5, <1>7 DEF OwnersDiffer, Holding
<1>10. ProbeKnowsHolder'
    BY <1>0, <1>1, <1>2, <1>5 DEF ProbeKnowsHolder, Probing
<1>11. ReclaimsTheDead'
    BY <1>0, <1>1, <1>2, <1>5 DEF ReclaimsTheDead
<1> QED
    BY <1>6, <1>8, <1>9, <1>10, <1>11 DEF LockInv

LEMMA WriteKeepsInv ==
    ASSUME LockInv, NEW p \in Process, p \in alive, WriteSentinel(p)
    PROVE  LockInv'
<1>0. LockTypeOK /\ WriterIsAlone /\ OwnersDiffer /\ ProbeKnowsHolder /\ ReclaimsTheDead
    BY DEF LockInv
<1>1. /\ proc[p].pc = "write" /\ file' = [file EXCEPT !.pid = p] /\ mutex' = None
      /\ proc' = [proc EXCEPT ![p] = [Fresh EXCEPT !.pc = "held", !.own = proc[p].own]]
      /\ UNCHANGED <<alive, crashes>>
    BY DEF WriteSentinel
<1>2. mutex = p /\ file.token = proc[p].own /\ proc[p].own # None
    BY <1>0, <1>1 DEF WriterIsAlone, OwnersDiffer
<1>3. file' = [token |-> file.token, pid |-> p, old |-> file.old]
    BY <1>0, <1>1 DEF LockTypeOK, File
<1>4. proc[p] \in Local
    BY <1>0 DEF LockTypeOK
<1>5. /\ proc'[p].pc = "held" /\ proc'[p].own = proc[p].own
      /\ \A q \in Process : q # p => proc'[q] = proc[q]
      /\ proc' \in [Process -> Local]
    BY <1>0, <1>1, <1>4, FreshIsLocal DEF LockTypeOK, Local, Fresh
<1>6. LockTypeOK'
    BY <1>0, <1>1, <1>3, <1>5 DEF LockTypeOK, File
<1>7. \A q \in Process : proc[q].pc \in {"write", "unlink"} => q = p
    BY <1>0, <1>2 DEF WriterIsAlone
<1>8. WriterIsAlone'
    BY <1>2, <1>3, <1>5, <1>7 DEF WriterIsAlone
<1>9. OwnersDiffer'
    BY <1>0, <1>1, <1>2, <1>3, <1>5, <1>7 DEF OwnersDiffer, Holding
<1>10. ProbeKnowsHolder'
    BY <1>0, <1>1, <1>3, <1>5 DEF ProbeKnowsHolder, Probing
<1>11. ReclaimsTheDead'
    BY <1>0, <1>5 DEF ReclaimsTheDead
<1> QED
    BY <1>6, <1>8, <1>9, <1>10, <1>11 DEF LockInv

\* A call that only moves on, with the sentinel and its ownership as they are,
\* and neither writes, nor probes, nor reclaims afterwards.
LEMMA MoveKeepsInv ==
    ASSUME LockInv, NEW p \in Process, p \in alive, NEW l \in Local,
           proc' = [proc EXCEPT ![p] = l], UNCHANGED <<file, alive, crashes>>,
           mutex' \in Process \cup {None},
           \A q \in Process : q # p /\ mutex = q => mutex' = q, l.pc = "unlink" => mutex' = p,
           proc[p].pc # "write", l.pc \in {"idle", "acquire", "probe", "unlink", "held", "release"},
           l.own = proc[p].own, l.own # None <=> l.pc \in {"held", "release"}
    PROVE  LockInv'
<1>0. LockTypeOK /\ WriterIsAlone /\ OwnersDiffer /\ ProbeKnowsHolder /\ ReclaimsTheDead
    BY DEF LockInv
<1>1. proc'[p] = l /\ (\A q \in Process : q # p => proc'[q] = proc[q]) /\ proc' \in [Process -> Local]
    BY <1>0, OthersUnchanged, LocalsType
<1>2. \A q \in Process : proc'[q].own = proc[q].own
    BY <1>1
<1>3. LockTypeOK'
    BY <1>0, <1>1 DEF LockTypeOK
<1>4. WriterIsAlone'
    BY <1>0, <1>1 DEF WriterIsAlone
<1>5. OwnersDiffer'
    <2>1. \A q \in Process : q # p => (Holding(q)' <=> Holding(q))
        BY <1>1 DEF Holding
    <2>2. Holding(p)' => Holding(p)
        BY <1>0, <1>1 DEF Holding, OwnersDiffer
    <2> QED
        BY <1>0, <1>1, <1>2, <2>1, <2>2 DEF OwnersDiffer, Holding
<1>6. ProbeKnowsHolder'
    BY <1>0, <1>1, <1>2 DEF ProbeKnowsHolder, Probing
<1>7. ReclaimsTheDead'
    BY <1>0, <1>1, <1>2 DEF ReclaimsTheDead
<1> QED
    BY <1>3, <1>4, <1>5, <1>6, <1>7 DEF LockInv

LEMMA CallKeepsInv ==
    ASSUME LockInv, NEW p \in Process, p \in alive,
           Call(p) \/ SentinelExists(p) \/ EndCriticalSection(p)
    PROVE  LockInv'
<1>0. LockTypeOK /\ OwnersDiffer /\ WriterIsAlone
    BY DEF LockInv
<1>1. PICK label \in {"acquire", "probe", "release"} :
        /\ proc' = [proc EXCEPT ![p].pc = label]
        /\ label = "release" <=> proc[p].pc = "held"
        /\ proc[p].pc \in {"idle", "acquire", "held"}
    BY DEF Call, SentinelExists, EndCriticalSection, Goto
<1> DEFINE l == [proc[p] EXCEPT !.pc = label]
<1>2. proc[p] \in Local
    BY <1>0 DEF LockTypeOK
<1>3. l \in Local /\ l.own = proc[p].own /\ l.pc = label
    BY <1>2 DEF Local
<1>4. proc' = [proc EXCEPT ![p] = l]
    BY <1>0, <1>1 DEF LockTypeOK
<1>5. UNCHANGED <<file, mutex, alive, crashes>>
    BY DEF Call, SentinelExists, EndCriticalSection
<1>6. l.own # None <=> l.pc = "release"
    BY <1>0, <1>1, <1>3 DEF OwnersDiffer, Holding
<1>7. mutex' \in Process \cup {None}
    BY <1>0, <1>5 DEF LockTypeOK
<1>8. l.pc \in {"idle", "acquire", "probe", "unlink", "held", "release"} /\ l.pc # "unlink" /\ l.pc # "held"
    BY <1>3
<1> HIDE DEF l
<1> QED
    BY <1>1, <1>3, <1>4, <1>5, <1>6, <1>7, <1>8, MoveKeepsInv

\* A probe that finds nothing to reclaim gives up, and so does a reclaim of a
\* sentinel that has changed.
LEMMA GiveUpKeepsInv ==
    ASSUME LockInv, NEW p \in Process, p \in alive,
           proc[p].pc \in {"probe", "judge", "reclaim"},
           GiveUp(p), UNCHANGED <<file, mutex, alive, crashes>>
    PROVE  LockInv'
<1>0. LockTypeOK /\ OwnersDiffer
    BY DEF LockInv
<1>1. proc[p].own = None
    BY <1>0 DEF OwnersDiffer, Holding
<1>2. mutex' \in Process \cup {None} /\ proc' = [proc EXCEPT ![p] = Fresh]
    BY <1>0 DEF LockTypeOK, GiveUp
<1> QED
    BY <1>1, <1>2, FreshIsLocal, MoveKeepsInv

LEMMA ProbeReadKeepsInv ==
    ASSUME LockInv, NEW p \in Process, p \in alive, ProbeRead(p)
    PROVE  LockInv'
<1>0. LockTypeOK /\ WriterIsAlone /\ OwnersDiffer /\ ProbeKnowsHolder /\ ReclaimsTheDead
    BY DEF LockInv
<1>1. proc[p].pc = "probe" /\ UNCHANGED <<file, mutex, alive, crashes>>
    BY DEF ProbeRead
<1>2. CASE GiveUp(p)
    BY <1>1, <1>2, GiveUpKeepsInv
<1>3. CASE file # NoFile /\ proc' = [proc EXCEPT ![p].pc = "judge", ![p].seen = file]
    <2>1. proc[p] \in Local /\ file \in File
        BY <1>0 DEF LockTypeOK
    <2>2. /\ proc'[p].pc = "judge" /\ proc'[p].own = proc[p].own /\ proc'[p].seen = file
          /\ \A q \in Process : q # p => proc'[q] = proc[q]
          /\ proc' \in [Process -> Local]
        BY <1>0, <1>3, <2>1 DEF LockTypeOK, Local
    <2>3. LockTypeOK'
        BY <1>0, <1>1, <2>2 DEF LockTypeOK
    <2>4. WriterIsAlone'
        BY <1>0, <1>1, <2>2 DEF WriterIsAlone
    <2>5. OwnersDiffer'
        BY <1>0, <1>1, <2>2 DEF OwnersDiffer, Holding
    <2>6. \A q \in Process : proc[q].own = file.token => file.pid \in {None, q}
        BY <1>0, <1>3 DEF WriterIsAlone, OwnersDiffer
    <2>7. file.token # None
        BY <1>0, <1>3 DEF WriterIsAlone
    <2>8. ProbeKnowsHolder'
        BY <1>0, <1>1, <2>2, <2>6, <2>7 DEF ProbeKnowsHolder, Probing
    <2>9. ReclaimsTheDead'
        BY <1>0, <2>2 DEF ReclaimsTheDead
    <2> QED
        BY <2>3, <2>4, <2>5, <2>8, <2>9 DEF LockInv
<1> QED
    BY <1>2, <1>3 DEF ProbeRead

LEMMA ProbeJudgeKeepsInv ==
    ASSUME LockInv, NEW p \in Process, p \in alive, ProbeJudge(p)
    PROVE  LockInv'
<1>0. LockTypeOK /\ WriterIsAlone /\ OwnersDiffer /\ ProbeKnowsHolder /\ ReclaimsTheDead
    BY DEF LockInv
<1>1. proc[p].pc = "judge" /\ UNCHANGED <<file, mutex, alive, crashes>>
    BY DEF ProbeJudge
<1>2. CASE GiveUp(p)
    BY <1>1, <1>2, GiveUpKeepsInv
<1>3. CASE LooksStale(proc[p].seen) /\ proc' = [proc EXCEPT ![p].pc = "reclaim"]
    <2>1. proc[p] \in Local
        BY <1>0 DEF LockTypeOK
    <2>2. /\ proc'[p].pc = "reclaim" /\ proc'[p].own = proc[p].own /\ proc'[p].seen = proc[p].seen
          /\ \A q \in Process : q # p => proc'[q] = proc[q]
          /\ proc' \in [Process -> Local]
        BY <1>0, <1>3, <2>1 DEF LockTypeOK, Local
    <2>3. LockTypeOK'
        BY <1>0, <1>1, <2>2 DEF LockTypeOK
    <2>4. WriterIsAlone'
        BY <1>0, <1>1, <2>2 DEF WriterIsAlone
    <2>5. OwnersDiffer'
        BY <1>0, <1>1, <2>2 DEF OwnersDiffer, Holding
    <2>6. ProbeKnowsHolder'
        BY <1>0, <1>1, <2>2 DEF ProbeKnowsHolder, Probing
    \* Whoever owned the probed sentinel runs, and the probe knows its PID.
    <2>7. \A q \in Process : \/ proc[p].seen.pid = None
                             \/ AgeBound /\ proc[p].seen.old
                             \/ proc[q].own # proc[p].seen.token
        <3> SUFFICES ASSUME NEW q \in Process, proc[q].own = proc[p].seen.token,
                            proc[p].seen.pid # None
                     PROVE  AgeBound /\ proc[p].seen.old
            OBVIOUS
        <3>1. proc[p].seen.pid = q /\ proc[q].own # None
            BY <1>0, <1>1 DEF ProbeKnowsHolder, Probing
        <3>2. q \in alive
            BY <1>0, <3>1 DEF OwnersDiffer
        <3> QED
            BY <1>3, <3>1, <3>2 DEF LooksStale
    <2>8. ReclaimsTheDead'
        BY <1>0, <2>2, <2>7 DEF ReclaimsTheDead
    <2> QED
        BY <2>3, <2>4, <2>5, <2>6, <2>8 DEF LockInv
<1> QED
    BY <1>2, <1>3 DEF ProbeJudge, Goto

\* The sentinel is taken away; who keeps comparing compares with a token that
\* no sentinel bears.
LEMMA TakingKeepsInv ==
    ASSUME LockInv, NEW p \in Process, p \in alive, mutex = None, file' = NoFile
    PROVE  /\ (\A q \in Process : proc[q].pc \notin {"write", "unlink"})
           /\ file'.token = None
           /\ file' \in File
<1>1. WriterIsAlone
    BY DEF LockInv
<1>2. None \notin Process
    BY LockAssumption
<1> QED
    BY <1>1, <1>2 DEF WriterIsAlone, NoFile, File

LEMMA ReclaimKeepsInv ==
    ASSUME LockInv, NEW p \in Process, p \in alive, ReclaimQuarantine(p)
    PROVE  LockInv'
<1>0. LockTypeOK /\ WriterIsAlone /\ OwnersDiffer /\ ProbeKnowsHolder /\ ReclaimsTheDead
    BY DEF LockInv
<1>1. proc[p].pc = "reclaim" /\ mutex = None /\ UNCHANGED <<alive, crashes>>
    BY DEF ReclaimQuarantine
<1>2. CASE GiveUp(p) /\ UNCHANGED <<file, mutex>>
    BY <1>1, <1>2, GiveUpKeepsInv
<1>3. CASE file' = NoFile /\ mutex' = p /\ proc' = [proc EXCEPT ![p].pc = "unlink"]
    <2>1. proc[p] \in Local
        BY <1>0 DEF LockTypeOK
    <2>2. /\ proc'[p].pc = "unlink" /\ proc'[p].own = proc[p].own /\ proc'[p].seen = proc[p].seen
          /\ \A q \in Process : q # p => proc'[q] = proc[q]
          /\ proc' \in [Process -> Local]
        BY <1>0, <1>3, <2>1 DEF LockTypeOK, Local
    <2>3. /\ \A q \in Process : proc[q].pc \notin {"write", "unlink"}
          /\ file'.token = None /\ file' \in File
        BY <1>1, <1>3, TakingKeepsInv
    <2>4. LockTypeOK'
        BY <1>0, <1>1, <1>3, <2>2, <2>3 DEF LockTypeOK
    <2>5. WriterIsAlone'
        BY <1>3, <2>2, <2>3 DEF WriterIsAlone
    <2>6. proc[p].own = None
        BY <1>0, <1>1 DEF OwnersDiffer, Holding
    <2>7. OwnersDiffer'
        BY <1>0, <1>1, <2>2, <2>3, <2>6 DEF OwnersDiffer, Holding
    <2>8. ProbeKnowsHolder'
        BY <1>0, <2>2, <2>3 DEF ProbeKnowsHolder, Probing
    <2>9. ReclaimsTheDead'
        BY <1>0, <2>2 DEF ReclaimsTheDead
    <2> QED
        BY <2>4, <2>5, <2>7, <2>8, <2>9 DEF LockInv
<1> QED
    BY <1>2, <1>3 DEF ReclaimQuarantine, Goto

LEMMA UnlinkKeepsInv ==
    ASSUME LockInv, NEW p \in Process, p \in alive, ReclaimUnlink(p)
    PROVE  LockInv'
<1>0. LockTypeOK /\ OwnersDiffer /\ WriterIsAlone
    BY DEF LockInv
<1>1. /\ proc[p].pc = "unlink" /\ mutex' = None /\ UNCHANGED <<file, alive, crashes>>
      /\ proc[p].own = None /\ mutex = p
    BY <1>0 DEF ReclaimUnlink, OwnersDiffer, Holding, WriterIsAlone
<1> DEFINE again == [Fresh EXCEPT !.pc = "acquire", !.attempt = 2]
<1>2. again \in Local /\ again.own = None /\ again.pc = "acquire"
    BY FreshIsLocal DEF Local, Fresh
<1>3. proc' = [proc EXCEPT ![p] = again] \/ proc' = [proc EXCEPT ![p] = Fresh]
    BY DEF ReclaimUnlink, GiveUp
<1> HIDE DEF again
<1> QED
    BY <1>1, <1>2, <1>3, FreshIsLocal, MoveKeepsInv

LEMMA ReleaseKeepsInv ==
    ASSUME LockInv, NEW p \in Process, p \in alive, ReleaseLock(p)
    PROVE  LockInv'
<1>0. LockTypeOK /\ WriterIsAlone /\ OwnersDiffer /\ ProbeKnowsHolder /\ ReclaimsTheDead
    BY DEF LockInv
<1>1. /\ proc[p].pc = "release" /\ mutex = None /\ UNCHANGED <<mutex, alive, crashes>>
      /\ file' = IF file.token = proc[p].own /\ file.pid = p THEN NoFile ELSE file
      /\ proc' = [proc EXCEPT ![p] = Fresh]
    BY DEF ReleaseLock, GiveUp
<1>2. /\ proc'[p] = Fresh /\ (\A q \in Process : q # p => proc'[q] = proc[q])
      /\ proc' \in [Process -> Local]
    BY <1>0, <1>1, FreshIsLocal, OthersUnchanged, LocalsType
<1>3. \A q \in Process : proc[q].pc \notin {"write", "unlink"}
    BY <1>0, <1>1, LockAssumption DEF WriterIsAlone
<1>4. file' = file \/ (file'.token = None /\ file' = NoFile /\ file' \in File)
    BY <1>1, TakingKeepsInv
<1>5. LockTypeOK'
    BY <1>0, <1>1, <1>2, <1>4 DEF LockTypeOK
<1>6. WriterIsAlone'
    BY <1>0, <1>2, <1>3, <1>4, FreshIsLocal DEF WriterIsAlone
<1>7. \A q \in Process : proc'[q].own \in {proc[q].own, None}
    BY <1>2, FreshIsLocal
<1>8. \A q \in Process : q # p => (Holding(q)' <=> Holding(q))
    BY <1>2 DEF Holding
<1>9. ~Holding(p)' /\ proc'[p].pc = "idle" /\ proc'[p].own = None
    BY <1>2, FreshIsLocal DEF Holding
<1>10. OwnersDiffer'
    BY <1>0, <1>1, <1>2, <1>4, <1>8, <1>9 DEF OwnersDiffer, Holding
<1>11. ProbeKnowsHolder'
    BY <1>0, <1>2, <1>4, <1>9 DEF ProbeKnowsHolder, Probing
<1>12. \A a \in Process : proc'[a].pc = "reclaim" => proc'[a] = proc[a] /\ proc[a].seen.token # None
    BY <1>0, <1>2, <1>9 DEF ProbeKnowsHolder, Probing
<1>13. ReclaimsTheDead'
    BY <1>0, <1>7, <1>12 DEF ReclaimsTheDead
<1> QED
    BY <1>5, <1>6, <1>10, <1>11, <1>13 DEF LockInv

LEMMA CrashKeepsInv ==
    ASSUME LockInv, NEW p \in Process, Crash(p)
    PROVE  LockInv'
<1>0. LockTypeOK /\ WriterIsAlone /\ OwnersDiffer /\ ProbeKnowsHolder /\ ReclaimsTheDead
    BY DEF LockInv
<1>1. /\ alive' = alive \ {p} /\ proc' = [proc EXCEPT ![p] = Fresh]
      /\ mutex' = IF mutex = p THEN None ELSE mutex
      /\ crashes < MaxCrashes /\ crashes' = crashes + 1 /\ file' = file
    BY DEF Crash
<1>2. /\ proc'[p] = Fresh /\ (\A q \in Process : q # p => proc'[q] = proc[q])
      /\ proc' \in [Process -> Local]
    BY <1>0, <1>1, FreshIsLocal, OthersUnchanged, LocalsType
<1>3. crashes' \in 0..MaxCrashes
    BY <1>0, <1>1, LockAssumption DEF LockTypeOK
<1>4. LockTypeOK'
    BY <1>0, <1>1, <1>2, <1>3 DEF LockTypeOK
<1>5. WriterIsAlone'
    BY <1>0, <1>1, <1>2, FreshIsLocal DEF WriterIsAlone
<1>6. ~Holding(p)' /\ proc'[p].pc = "idle" /\ proc'[p].own = None
    BY <1>2, FreshIsLocal DEF Holding
<1>7. OwnersDiffer'
    BY <1>0, <1>1, <1>2, <1>6 DEF OwnersDiffer, Holding
<1>8. ProbeKnowsHolder'
    BY <1>0, <1>1, <1>2, <1>6 DEF ProbeKnowsHolder, Probing
<1>9. \A a \in Process : proc'[a].pc = "reclaim" => proc'[a] = proc[a] /\ proc[a].seen.token # None
    BY <1>0, <1>2, <1>6 DEF ProbeKnowsHolder, Probing
<1>10. \A q \in Process : proc'[q].own \in {proc[q].own, None}
    BY <1>2, <1>6
<1>11. ReclaimsTheDead'
    BY <1>0, <1>9, <1>10 DEF ReclaimsTheDead
<1> QED
    BY <1>4, <1>5, <1>7, <1>8, <1>11 DEF LockInv

\* Time passing and reused PIDs change nothing that the invariant looks at.
LEMMA WorldKeepsInv ==
    ASSUME LockInv, SentinelAges \/ \E p \in Process : Spawn(p)
    PROVE  LockInv'
<1>0. LockTypeOK /\ WriterIsAlone /\ OwnersDiffer /\ ProbeKnowsHolder /\ ReclaimsTheDead
    BY DEF LockInv
<1>1. CASE SentinelAges
    <2>1. /\ file # NoFile /\ UNCHANGED <<mutex, alive, proc, crashes>>
          /\ file' = [token |-> file.token, pid |-> file.pid, old |-> TRUE]
        BY <1>0, <1>1 DEF SentinelAges, LockTypeOK, File
    <2>2. LockTypeOK'
        BY <1>0, <2>1 DEF LockTypeOK, File
    <2>3. WriterIsAlone' /\ OwnersDiffer' /\ ProbeKnowsHolder' /\ ReclaimsTheDead'
        BY <1>0, <2>1
        DEF WriterIsAlone, OwnersDiffer, ProbeKnowsHolder, ReclaimsTheDead, Holding, Probing
    <2> QED
        BY <2>2, <2>3 DEF LockInv
<1>2. CASE \E p \in Process : Spawn(p)
    <2>1. PICK p \in Process : Spawn(p)
        BY <1>2
    <2>2. alive' = alive \cup {p} /\ UNCHANGED <<file, mutex, proc, crashes>>
        BY <2>1 DEF Spawn
    <2>3. LockTypeOK'
        BY <1>0, <2>2 DEF LockTypeOK
    <2>4. WriterIsAlone' /\ OwnersDiffer' /\ ProbeKnowsHolder' /\ ReclaimsTheDead'
        BY <1>0, <2>2
        DEF WriterIsAlone, OwnersDiffer, ProbeKnowsHolder, ReclaimsTheDead, Holding, Probing
    <2> QED
        BY <2>3, <2>4 DEF LockInv
<1> QED
    BY <1>1, <1>2

LEMMA LockInvInductive ==
    ASSUME LockInv, [LockNext]_lockVars
    PROVE  LockInv'
<1>1. CASE UNCHANGED lockVars
    BY <1>1
    DEF lockVars, LockInv, LockTypeOK, WriterIsAlone, OwnersDiffer, ProbeKnowsHolder,
        ReclaimsTheDead, Holding, Probing
<1>2. ASSUME NEW p \in Process, ProcessStep(p)
      PROVE  LockInv'
    <2>1. p \in alive
        BY <1>2 DEF ProcessStep
    <2> QED
        BY <1>2, <2>1, CallKeepsInv, CreateKeepsInv, WriteKeepsInv, ProbeReadKeepsInv,
           ProbeJudgeKeepsInv, ReclaimKeepsInv, UnlinkKeepsInv, ReleaseKeepsInv
        DEF ProcessStep
<1> QED
    BY <1>1, <1>2, CrashKeepsInv, WorldKeepsInv DEF LockNext

\* The sentinel, its holder and what every probe remembers of it fit together
\* after every interleaving (core/file-lock.ts).
THEOREM LockInvCorrect == LockSpec => []LockInv
<1> QED
    BY LockInvInit, LockInvInductive, PTL DEF LockSpec

\* Type correctness, whatever PIDs, crashes and callers there are.
THEOREM LockTypeCorrect == LockSpec => []LockTypeOK
<1>1. LockInv => LockTypeOK
    BY DEF LockInv
<1> QED
    BY <1>1, LockInvCorrect, PTL

-----------------------------------------------------------------------------
(* Exclusion.                                                              *)

\* What a reclaim takes away belongs to no running holder, unless it is past
\* the age bound.
LEMMA ReclaimSparesHolders ==
    ASSUME LockInv, NEW p \in Process, NEW q \in Process, proc[q].pc = "reclaim", StillProbed(q),
           Holding(p), file.token = proc[p].own
    PROVE  AgeBound /\ file.old
<1>0. WriterIsAlone /\ OwnersDiffer /\ ProbeKnowsHolder /\ ReclaimsTheDead
    BY DEF LockInv
<1>1. proc[q].seen.token = file.token /\ proc[q].seen.pid = p /\ p # None
    BY <1>0, LockAssumption DEF OwnersDiffer, StillProbed
<1>2. AgeBound /\ proc[q].seen.old
    BY <1>0, <1>1 DEF ReclaimsTheDead
<1> QED
    BY <1>0, <1>1, <1>2 DEF ProbeKnowsHolder, Probing

LEMMA HolderKeepsInductive ==
    ASSUME AgeBound = FALSE, LockInv, HolderKeepsSentinel, [LockNext]_lockVars
    PROVE  HolderKeepsSentinel'
<1>0. LockTypeOK /\ WriterIsAlone /\ OwnersDiffer
    BY DEF LockInv
<1>1. CASE UNCHANGED lockVars
    BY <1>1 DEF lockVars, HolderKeepsSentinel, Holding
<1>2. ASSUME NEW p \in Process, Call(p) \/ SentinelExists(p) \/ ProbeRead(p) \/ ProbeJudge(p)
                                \/ EndCriticalSection(p)
      PROVE  HolderKeepsSentinel'
    <2>1. file' = file
        BY <1>2 DEF Call, SentinelExists, ProbeRead, ProbeJudge, EndCriticalSection
    <2>2. proc[p] \in Local
        BY <1>0 DEF LockTypeOK
    <2>3. \A q \in Process : q # p => proc'[q] = proc[q]
        BY <1>0, <1>2 DEF LockTypeOK, Call, SentinelExists, ProbeRead, ProbeJudge,
           EndCriticalSection, Goto, GiveUp
    <2>4. Holding(p)' => Holding(p) /\ proc'[p].own = proc[p].own
        BY <1>0, <1>2, <2>2, FreshIsLocal
        DEF LockTypeOK, Local, Call, SentinelExists, ProbeRead, ProbeJudge,
            EndCriticalSection, Goto, GiveUp, Holding
    <2> QED
        BY <2>1, <2>3, <2>4 DEF HolderKeepsSentinel, Holding
<1>3. ASSUME NEW p \in Process, CreateSentinel(p)
      PROVE  HolderKeepsSentinel'
    <2>1. /\ file = NoFile /\ proc[p] \in Local
          /\ proc' = [proc EXCEPT ![p].pc = "write", ![p].own = NewToken]
        BY <1>0, <1>3 DEF CreateSentinel, LockTypeOK
    <2>2. \A q \in Process : ~Holding(q)
        BY <1>0, <2>1 DEF HolderKeepsSentinel, OwnersDiffer, NoFile
    <2>3. (\A q \in Process : q # p => proc'[q] = proc[q]) /\ proc'[p].pc = "write"
        BY <1>0, <2>1 DEF LockTypeOK, Local
    <2> QED
        BY <2>2, <2>3 DEF HolderKeepsSentinel, Holding
<1>4. ASSUME NEW p \in Process, WriteSentinel(p)
      PROVE  HolderKeepsSentinel'
    <2>1. /\ proc[p].pc = "write" /\ file' = [file EXCEPT !.pid = p]
          /\ proc' = [proc EXCEPT ![p] = [Fresh EXCEPT !.pc = "held", !.own = proc[p].own]]
        BY <1>4 DEF WriteSentinel
    <2>2. file.token = proc[p].own /\ file'.token = file.token /\ file'.pid = p
        BY <1>0, <2>1 DEF WriterIsAlone, LockTypeOK, File
    <2>3. \A q \in Process : q # p => ~Holding(q) /\ proc'[q] = proc[q]
        BY <1>0, <2>1, <2>2 DEF HolderKeepsSentinel, OwnersDiffer, LockTypeOK
    <2>4. proc'[p].own = proc[p].own
        BY <1>0, <2>1 DEF LockTypeOK, Fresh
    <2> QED
        BY <2>2, <2>3, <2>4 DEF HolderKeepsSentinel, Holding
<1>5. ASSUME NEW p \in Process, ReclaimQuarantine(p)
      PROVE  HolderKeepsSentinel'
    <2>1. proc[p].pc = "reclaim" /\ proc[p] \in Local
        BY <1>0, <1>5 DEF ReclaimQuarantine, LockTypeOK
    <2>2. ~Holding(p)' /\ \A q \in Process : q # p => proc'[q] = proc[q]
        BY <1>0, <1>5, <2>1, FreshIsLocal
        DEF ReclaimQuarantine, LockTypeOK, Local, Goto, GiveUp, Holding
    <2>3. CASE file' = file
        BY <2>2, <2>3 DEF HolderKeepsSentinel, Holding
    <2>4. CASE StillProbed(p)
        <3>1. \A q \in Process : ~Holding(q)
            BY <2>1, <2>4, ReclaimSparesHolders DEF HolderKeepsSentinel
        <3> QED
            BY <2>2, <3>1 DEF HolderKeepsSentinel, Holding
    <2> QED
        BY <1>5, <2>3, <2>4 DEF ReclaimQuarantine
<1>6. ASSUME NEW p \in Process, ReclaimUnlink(p)
      PROVE  HolderKeepsSentinel'
    <2>1. file' = file /\ proc[p] \in Local
        BY <1>0, <1>6 DEF ReclaimUnlink, LockTypeOK
    <2> DEFINE again == [Fresh EXCEPT !.pc = "acquire", !.attempt = 2]
    <2>2. again.pc = "acquire" /\ (proc' = [proc EXCEPT ![p] = again] \/ proc' = [proc EXCEPT ![p] = Fresh])
        BY <1>6 DEF ReclaimUnlink, GiveUp, Fresh
    <2> HIDE DEF again
    <2>3. ~Holding(p)' /\ \A q \in Process : q # p => proc'[q] = proc[q]
        BY <1>0, <2>2, FreshIsLocal DEF LockTypeOK, Holding
    <2> QED
        BY <2>1, <2>3 DEF HolderKeepsSentinel, Holding
<1>7. ASSUME NEW p \in Process, ReleaseLock(p)
      PROVE  HolderKeepsSentinel'
    <2>1. ~Holding(p)' /\ \A q \in Process : q # p => proc'[q] = proc[q]
        BY <1>0, <1>7, FreshIsLocal DEF ReleaseLock, LockTypeOK, GiveUp, Holding
    <2>2. CASE file' = file
        BY <2>1, <2>2 DEF HolderKeepsSentinel, Holding
    <2>3. CASE file.token = proc[p].own
        <3>1. Holding(p)
            BY <1>7 DEF ReleaseLock, Holding
        <3>2. \A q \in Process : q # p => ~Holding(q)
            BY <1>0, <2>3, <3>1 DEF HolderKeepsSentinel, OwnersDiffer
        <3> QED
            BY <2>1, <3>2 DEF HolderKeepsSentinel, Holding
    <2> QED
        BY <1>7, <2>2, <2>3 DEF ReleaseLock
<1>8. ASSUME NEW p \in Process, Crash(p)
      PROVE  HolderKeepsSentinel'
    <2>1. file' = file /\ ~Holding(p)' /\ \A q \in Process : q # p => proc'[q] = proc[q]
        BY <1>0, <1>8, FreshIsLocal DEF Crash, LockTypeOK, Holding
    <2> QED
        BY <2>1 DEF HolderKeepsSentinel, Holding
<1>9. CASE SentinelAges
    BY <1>9 DEF SentinelAges
<1>10. ASSUME NEW p \in Process, Spawn(p)
       PROVE  HolderKeepsSentinel'
    BY <1>10 DEF Spawn, HolderKeepsSentinel, Holding
<1> QED
    BY <1>1, <1>2, <1>3, <1>4, <1>5, <1>6, <1>7, <1>8, <1>9, <1>10 DEF LockNext, ProcessStep

\* Without an age bound nobody ever loses a held lock: no reclaim, no release
\* and no create of another process touches its sentinel.
THEOREM HoldersKeepTheirSentinel ==
    ASSUME AgeBound = FALSE
    PROVE  LockSpec => []HolderKeepsSentinel
<1>1. LockInit => HolderKeepsSentinel
    BY FreshIsLocal DEF LockInit, HolderKeepsSentinel, Holding
<1>2. LockInv /\ HolderKeepsSentinel /\ [LockNext]_lockVars => HolderKeepsSentinel'
    BY HolderKeepsInductive
<1> QED
    BY <1>1, <1>2, LockInvCorrect, PTL DEF LockSpec

\* Without an age bound the lock is exclusive.
THEOREM LockIsExclusive ==
    ASSUME AgeBound = FALSE
    PROVE  LockSpec => []MutualExclusion
<1>1. LockInv /\ HolderKeepsSentinel => MutualExclusion
    BY DEF LockInv, HolderKeepsSentinel, OwnersDiffer, MutualExclusion, Holding
<1> QED
    BY <1>1, LockInvCorrect, HoldersKeepTheirSentinel, PTL

\* A process is inside between the writing of its sentinel and its release or death.
Inside == {p \in Process : Holding(p)}

\* A step of a process that neither ends its call nor begins its critical section is
\* none of the abstract lock.
LEMMA NobodyMoves ==
    ASSUME LockTypeOK, NEW p \in Process, NEW l, proc' = [proc EXCEPT ![p] = l],
           l.pc \in {"held", "release"} <=> Holding(p)
    PROVE  Inside' = Inside
BY OthersUnchanged DEF Inside, Holding

\* A process whose call ends leaves, if it was inside.
LEMMA CallEnds ==
    ASSUME LockTypeOK, NEW p \in Process, proc' = [proc EXCEPT ![p] = Fresh]
    PROVE  Inside' = Inside \/ (p \in Inside /\ Inside' = Inside \ {p})
BY OthersUnchanged, FreshIsLocal DEF Inside, Holding

\* The step of the detailed lock as a step of the abstract one.
LEMMA LockStepIsMutexStep ==
    ASSUME LockInv, HolderKeepsSentinel, [LockNext]_lockVars
    PROVE  \/ Inside' = Inside
           \/ \E p \in Process : \/ Inside = {} /\ Inside' = {p}
                                 \/ p \in Inside /\ Inside' = Inside \ {p}
<1>0. LockTypeOK /\ WriterIsAlone /\ proc \in [Process -> Local]
    BY DEF LockInv, LockTypeOK
<1>1. ASSUME NEW p \in Process, NEW label, proc' = [proc EXCEPT ![p].pc = label],
             label \in {"held", "release"} <=> Holding(p)
      PROVE  Inside' = Inside
    <2> DEFINE l == [proc[p] EXCEPT !.pc = label]
    <2>1. l.pc = label
        BY <1>0 DEF Local
    <2> HIDE DEF l
    <2>2. proc' = [proc EXCEPT ![p] = l]
        BY <1>1 DEF l
    <2> QED
        BY <1>0, <1>1, <2>1, <2>2, NobodyMoves
<1>2. ASSUME NEW p \in Process, GiveUp(p)
      PROVE  Inside' = Inside \/ (p \in Inside /\ Inside' = Inside \ {p})
    BY <1>0, <1>2, CallEnds DEF GiveUp
<1>3. ASSUME NEW p \in Process, CreateSentinel(p)
      PROVE  Inside' = Inside
    <2> DEFINE l == [proc[p] EXCEPT !.pc = "write", !.own = NewToken]
    <2>1. l.pc = "write" /\ proc[p].pc = "acquire" /\ proc' = [proc EXCEPT ![p] = l]
        BY <1>0, <1>3 DEF CreateSentinel, Local
    <2> HIDE DEF l
    <2> QED
        BY <1>0, <2>1, NobodyMoves DEF Holding
<1>4. ASSUME NEW p \in Process, WriteSentinel(p)
      PROVE  Inside = {} /\ Inside' = {p}
    <2>1. Inside = {}
        BY <1>0, <1>4, LockAssumption
        DEF WriteSentinel, WriterIsAlone, HolderKeepsSentinel, Inside
    <2> DEFINE l == [Fresh EXCEPT !.pc = "held", !.own = proc[p].own]
    <2>2. l.pc = "held" /\ proc' = [proc EXCEPT ![p] = l]
        BY <1>4, FreshIsLocal DEF WriteSentinel, Local
    <2> HIDE DEF l
    <2>3. proc'[p].pc = "held" /\ \A q \in Process : q # p => proc'[q] = proc[q]
        BY <1>0, <2>2, OthersUnchanged
    <2> QED
        BY <2>1, <2>3 DEF Inside, Holding
<1>5. ASSUME NEW p \in Process, ProbeRead(p)
      PROVE  Inside' = Inside
    <2>0. proc[p].pc = "probe"
        BY <1>5 DEF ProbeRead
    <2>1. CASE GiveUp(p)
        BY <1>2, <2>0, <2>1 DEF Inside, Holding
    <2>2. CASE proc' = [proc EXCEPT ![p].pc = "judge", ![p].seen = file]
        <3> DEFINE l == [proc[p] EXCEPT !.pc = "judge", !.seen = file]
        <3>1. l.pc = "judge" /\ proc' = [proc EXCEPT ![p] = l]
            BY <1>0, <2>2 DEF Local
        <3> HIDE DEF l
        <3> QED
            BY <1>0, <2>0, <3>1, NobodyMoves DEF Holding
    <2> QED
        BY <1>5, <2>1, <2>2 DEF ProbeRead
<1>6. ASSUME NEW p \in Process, ReclaimUnlink(p)
      PROVE  Inside' = Inside
    <2>0. proc[p].pc = "unlink"
        BY <1>6 DEF ReclaimUnlink
    <2>1. CASE GiveUp(p)
        BY <1>2, <2>0, <2>1 DEF Inside, Holding
    <2>2. CASE proc' = [proc EXCEPT ![p] = [Fresh EXCEPT !.pc = "acquire", !.attempt = 2]]
        <3> DEFINE l == [Fresh EXCEPT !.pc = "acquire", !.attempt = 2]
        <3>1. l.pc = "acquire" /\ proc' = [proc EXCEPT ![p] = l]
            BY <2>2, FreshIsLocal DEF Local
        <3> HIDE DEF l
        <3> QED
            BY <1>0, <2>0, <3>1, NobodyMoves DEF Holding
    <2> QED
        BY <1>6, <2>1, <2>2 DEF ReclaimUnlink
<1>7. ASSUME NEW p \in Process,
             \/ Call(p) \/ SentinelExists(p) \/ ProbeJudge(p) \/ ReclaimQuarantine(p)
             \/ EndCriticalSection(p) \/ ReleaseLock(p)
      PROVE  Inside' = Inside \/ (p \in Inside /\ Inside' = Inside \ {p})
    BY <1>1, <1>2, <1>7 DEF Call, SentinelExists, ProbeJudge, ReclaimQuarantine,
        EndCriticalSection, ReleaseLock, Goto, Holding
<1>8. ASSUME NEW p \in Process, Crash(p)
      PROVE  Inside' = Inside \/ (p \in Inside /\ Inside' = Inside \ {p})
    BY <1>0, <1>8, CallEnds DEF Crash
<1>9. ASSUME proc' = proc
      PROVE  Inside' = Inside
    BY <1>9 DEF Inside, Holding
<1>10. (\E p \in Process : Spawn(p)) \/ SentinelAges \/ UNCHANGED lockVars => proc' = proc
    BY DEF Spawn, SentinelAges, lockVars
<1> QED
    BY <1>3, <1>4, <1>5, <1>6, <1>7, <1>8, <1>9, <1>10 DEF LockNext, ProcessStep

\* Without an age bound the lock is all its callers ask of it, for any number of
\* processes, of crashes and of PIDs that are used again.
THEOREM LockIsMutex ==
    ASSUME AgeBound = FALSE
    PROVE  LockSpec => ImplementsMutex
<1>1. LockInit => Exclusive!Init
    BY FreshIsLocal DEF LockInit, Exclusive!Init, Holding
<1>2. LockInv /\ HolderKeepsSentinel /\ [LockNext]_lockVars
        => [Exclusive!Next]_{p \in Process : Holding(p)}
    <2> SUFFICES ASSUME LockInv, HolderKeepsSentinel, [LockNext]_lockVars
                 PROVE  Exclusive!Next \/ Inside' = Inside
        BY DEF Inside
    <2> QED
        BY LockStepIsMutexStep DEF Inside, Exclusive!Next, Exclusive!Enter, Exclusive!Leave
<1> QED
    BY <1>1, <1>2, LockInvCorrect, HoldersKeepTheirSentinel, PTL
    DEF LockSpec, ImplementsMutex, Exclusive!Spec

\* With an age bound or without, the sentinel of a running holder goes only by
\* its own release or when it is past the bound.
THEOREM SentinelTakenByRight == LockSpec => TakenByRight
<1> DEFINE Right == \A p \in Process :
        /\ Holding(p) /\ file.token = proc[p].own
        /\ file'.token # file.token
        => proc[p].pc = "release" \/ file.old
<1>1. ASSUME LockInv, [LockNext]_lockVars
      PROVE  Right
    <2>0. LockTypeOK /\ WriterIsAlone /\ OwnersDiffer
        BY <1>1 DEF LockInv
    <2> SUFFICES ASSUME NEW p \in Process, Holding(p), file.token = proc[p].own,
                        file'.token # file.token
                 PROVE  proc[p].pc = "release" \/ file.old
        OBVIOUS
    <2>1. file.token # None /\ file # NoFile
        BY <2>0 DEF OwnersDiffer, NoFile
    <2>2. PICK q \in Process : ReclaimQuarantine(q) \/ ReleaseLock(q)
        <3>1. ~UNCHANGED file
            OBVIOUS
        <3>2. ~SentinelAges
            BY <2>0 DEF SentinelAges, LockTypeOK, File
        <3>3. ASSUME NEW q \in Process
              PROVE  ~WriteSentinel(q) /\ ~CreateSentinel(q)
            BY <2>0, <2>1 DEF WriteSentinel, CreateSentinel, LockTypeOK, File
        <3> QED
            BY <1>1, <3>1, <3>2, <3>3
            DEF LockNext, ProcessStep, lockVars, Call, SentinelExists, ProbeRead, ProbeJudge,
                ReclaimUnlink, EndCriticalSection, Crash, Spawn
    <2>3. CASE ReclaimQuarantine(q)
        <3>1. proc[q].pc = "reclaim" /\ StillProbed(q)
            BY <2>3 DEF ReclaimQuarantine
        <3> QED
            BY <1>1, <3>1, ReclaimSparesHolders
    <2>4. CASE ReleaseLock(q)
        <3>1. file.token = proc[q].own /\ proc[q].pc = "release"
            BY <2>4 DEF ReleaseLock
        <3>2. p = q
            BY <2>0, <2>1, <3>1 DEF OwnersDiffer
        <3> QED
            BY <3>1, <3>2
    <2> QED
        BY <2>2, <2>3, <2>4
<1>2. LockInv /\ [LockNext]_lockVars => [Right]_lockVars
    BY <1>1
<1> QED
    BY <1>2, LockInvCorrect, PTL DEF LockSpec, TakenByRight

-----------------------------------------------------------------------------
(* The work a call has left.                                               *)

\* How far a call is: with the lock still to be got, the attempts it has left count
\* before its place in this one.
PlaceLeft ==
    [idle |-> 0, release |-> 1, held |-> 2, write |-> 3, unlink |-> 4, reclaim |-> 5,
     judge |-> 6, probe |-> 7, acquire |-> 8]
Getting == {"acquire", "probe", "judge", "reclaim", "unlink"}
CallLeft(l) ==
    PlaceLeft[l.pc] + IF l.pc \in Getting THEN 6 * (2 - l.attempt) ELSE 0

\* A call that has begun only gets on, whoever moves: it can go round twice at most.
LockCallIsBounded ==
    [][\A p \in Process : \/ proc[p].pc = "idle"
                          \/ proc'[p] = proc[p]
                          \/ CallLeft(proc'[p]) < CallLeft(proc[p])]_lockVars

\* What is left at each place.
LEMMA LeftAt ==
    ASSUME NEW l \in Local
    PROVE  /\ l.pc = "idle" => CallLeft(l) = 0
           /\ l.pc = "release" => CallLeft(l) = 1
           /\ l.pc = "held" => CallLeft(l) = 2
           /\ l.pc = "write" => CallLeft(l) = 3
           /\ l.pc = "unlink" => CallLeft(l) = 4 + 6 * (2 - l.attempt)
           /\ l.pc = "reclaim" => CallLeft(l) = 5 + 6 * (2 - l.attempt)
           /\ l.pc = "judge" => CallLeft(l) = 6 + 6 * (2 - l.attempt)
           /\ l.pc = "probe" => CallLeft(l) = 7 + 6 * (2 - l.attempt)
           /\ l.pc = "acquire" => CallLeft(l) = 8 + 6 * (2 - l.attempt)
           /\ 2 - l.attempt \in {0, 1}
<1>1. l.attempt = 1 \/ l.attempt = 2
    BY DEF Local
<1>2. 2 - l.attempt \in {0, 1} /\ 6 * (2 - l.attempt) \in {0, 6}
    BY <1>1
<1> QED
    BY <1>2 DEF CallLeft, PlaceLeft, Getting

\* A call gets on to another place of the same attempt.
LEMMA GetsOn ==
    ASSUME LockTypeOK, NEW p \in Process, NEW label, proc' = [proc EXCEPT ![p].pc = label],
           \/ proc[p].pc = "acquire" /\ label = "probe"
           \/ proc[p].pc = "judge" /\ label = "reclaim"
           \/ proc[p].pc = "reclaim" /\ label = "unlink"
           \/ proc[p].pc = "held" /\ label = "release"
    PROVE  CallLeft(proc'[p]) < CallLeft(proc[p])
<1>1. proc[p] \in Local /\ proc'[p] = [proc[p] EXCEPT !.pc = label]
    BY DEF LockTypeOK
<1>2. [proc[p] EXCEPT !.pc = label] \in Local /\ [proc[p] EXCEPT !.pc = label].pc = label
      /\ [proc[p] EXCEPT !.pc = label].attempt = proc[p].attempt
    BY <1>1 DEF Local
<1> DEFINE m == [proc[p] EXCEPT !.pc = label]
<1> HIDE DEF m
<1>3. m \in Local /\ m.pc = label /\ m.attempt = proc[p].attempt /\ proc'[p] = m
    BY <1>1, <1>2 DEF m
<1>4. 6 * (2 - m.attempt) = 6 * (2 - proc[p].attempt) /\ 6 * (2 - m.attempt) \in {0, 6}
    BY <1>3, LeftAt
<1> QED
    BY <1>1, <1>3, <1>4, LeftAt

\* It gives up.
LEMMA GivesUp ==
    ASSUME LockTypeOK, NEW p \in Process, GiveUp(p), proc[p].pc # "idle"
    PROVE  CallLeft(proc'[p]) < CallLeft(proc[p])
<1>1. proc[p] \in Local /\ proc'[p] = Fresh
    BY DEF LockTypeOK, GiveUp
<1>2. CallLeft(Fresh) = 0
    BY FreshIsLocal, LeftAt
<1>3. CallLeft(proc[p]) > 0
    <2>1. proc[p].pc \in {"acquire", "write", "probe", "judge", "reclaim", "unlink",
                          "held", "release"}
        BY <1>1 DEF Local
    <2> QED
        BY <1>1, <2>1, LeftAt
<1> QED
    BY <1>1, <1>2, <1>3

\* Whatever a process does for its call.
LEMMA CallGetsOn ==
    ASSUME LockTypeOK, NEW p \in Process, ProcessStep(p), proc[p].pc # "idle"
    PROVE  CallLeft(proc'[p]) < CallLeft(proc[p])
<1>0. proc[p] \in Local /\ ~Call(p)
    BY DEF LockTypeOK, Call
<1>1. CASE CreateSentinel(p)
    <2> DEFINE m == [proc[p] EXCEPT !.pc = "write", !.own = NewToken]
    <2>1. proc'[p] = m /\ proc[p].pc = "acquire"
        BY <1>1 DEF CreateSentinel, LockTypeOK
    <2>2. NewToken \in Token
        BY <1>1, NewTokenIsFresh DEF CreateSentinel
    <2>3. m \in Local /\ m.pc = "write"
        BY <1>0, <2>2 DEF Local
    <2> HIDE DEF m
    <2> QED
        BY <1>0, <2>1, <2>3, LeftAt
<1>2. CASE WriteSentinel(p)
    <2> DEFINE m == [Fresh EXCEPT !.pc = "held", !.own = proc[p].own]
    <2>1. proc'[p] = m /\ proc[p].pc = "write"
        BY <1>2 DEF WriteSentinel, LockTypeOK
    <2>2. m \in Local /\ m.pc = "held"
        BY <1>0, FreshIsLocal DEF Local
    <2> HIDE DEF m
    <2> QED
        BY <1>0, <2>1, <2>2, LeftAt
<1>3. CASE SentinelExists(p)
    BY <1>3, GetsOn DEF SentinelExists, Goto
<1>4. CASE ProbeRead(p)
    <2>1. CASE GiveUp(p)
        BY <2>1, GivesUp
    <2>2. CASE proc' = [proc EXCEPT ![p].pc = "judge", ![p].seen = file]
        <3> DEFINE m == [proc[p] EXCEPT !.pc = "judge", !.seen = file]
        <3>1. proc'[p] = m /\ proc[p].pc = "probe"
            BY <1>4, <2>2 DEF ProbeRead, LockTypeOK
        <3>2. m \in Local /\ m.pc = "judge" /\ m.attempt = proc[p].attempt
            BY <1>0 DEF Local, LockTypeOK
        <3> HIDE DEF m
        <3> QED
            BY <1>0, <3>1, <3>2, LeftAt
    <2> QED
        BY <1>4, <2>1, <2>2 DEF ProbeRead
<1>5. CASE ProbeJudge(p)
    BY <1>5, GetsOn, GivesUp DEF ProbeJudge, Goto
<1>6. CASE ReclaimQuarantine(p)
    BY <1>6, GetsOn, GivesUp DEF ReclaimQuarantine, Goto
<1>7. CASE ReclaimUnlink(p)
    <2>1. CASE GiveUp(p)
        BY <2>1, GivesUp
    <2>2. CASE /\ proc[p].attempt = 1
               /\ proc' = [proc EXCEPT ![p] = [Fresh EXCEPT !.pc = "acquire", !.attempt = 2]]
        <3> DEFINE m == [Fresh EXCEPT !.pc = "acquire", !.attempt = 2]
        <3>1. proc'[p] = m /\ proc[p].pc = "unlink"
            BY <1>7, <2>2 DEF ReclaimUnlink, LockTypeOK
        <3>2. m \in Local /\ m.pc = "acquire" /\ m.attempt = 2
            BY FreshIsLocal DEF Local
        <3> HIDE DEF m
        <3>3. CallLeft(m) = 8 /\ CallLeft(proc[p]) = 10
            BY <1>0, <2>2, <3>1, <3>2, LeftAt
        <3> QED
            BY <3>1, <3>3
    <2> QED
        BY <1>7, <2>1, <2>2 DEF ReclaimUnlink
<1>8. CASE EndCriticalSection(p)
    BY <1>8, GetsOn DEF EndCriticalSection, Goto
<1>9. CASE ReleaseLock(p)
    BY <1>9, GivesUp DEF ReleaseLock
<1> QED
    BY <1>0, <1>1, <1>2, <1>3, <1>4, <1>5, <1>6, <1>7, <1>8, <1>9 DEF ProcessStep

\* Whatever the sentinel, the other processes and time do, a call cannot spin: each of
\* its steps leaves it less to do, the barrier's second attempt is its last, and a crash
\* ends it.
THEOREM LockCallBounded == LockSpec => LockCallIsBounded
<1>1. ASSUME LockInv, [LockNext]_lockVars, NEW p \in Process
      PROVE  \/ proc[p].pc = "idle"
             \/ proc'[p] = proc[p]
             \/ CallLeft(proc'[p]) < CallLeft(proc[p])
    <2>0. LockTypeOK
        BY <1>1 DEF LockInv
    <2>1. ASSUME NEW q \in Process, ProcessStep(q), q # p
          PROVE  proc'[p] = proc[p]
        BY <2>0, <2>1 DEF LockTypeOK, ProcessStep, Call, CreateSentinel, WriteSentinel,
            SentinelExists, ProbeRead, ProbeJudge, ReclaimQuarantine, ReclaimUnlink,
            EndCriticalSection, ReleaseLock, Goto, GiveUp
    <2>2. ASSUME NEW q \in Process, Crash(q)
          PROVE  \/ proc[p].pc = "idle"
                 \/ proc'[p] = proc[p]
                 \/ CallLeft(proc'[p]) < CallLeft(proc[p])
        <3>1. GiveUp(q)
            BY <2>2 DEF Crash, GiveUp
        <3> QED
            BY <2>0, <3>1, GivesUp DEF GiveUp, LockTypeOK
    <2>3. CASE \/ \E q \in Process : Spawn(q)
               \/ SentinelAges
               \/ UNCHANGED lockVars
        BY <2>3 DEF Spawn, SentinelAges, lockVars
    <2> QED
        BY <1>1, <2>0, <2>1, <2>2, <2>3, CallGetsOn DEF LockNext
<1>2. LockInv /\ [LockNext]_lockVars =>
        [\A p \in Process : \/ proc[p].pc = "idle"
                            \/ proc'[p] = proc[p]
                            \/ CallLeft(proc'[p]) < CallLeft(proc[p])]_lockVars
    BY <1>1
<1> QED
    BY <1>2, LockInvCorrect, PTL DEF LockSpec, LockCallIsBounded
=============================================================================
