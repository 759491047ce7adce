------------------------------ MODULE FileLock ------------------------------
(***************************************************************************)
(* The sentinel-file lock of core/file-lock.ts and the way the maintenance *)
(* barrier uses it: create the sentinel exclusively, else probe it, and    *)
(* reclaim it if its holder is gone or, for the barrier, if it is too old. *)
(* Acquire, reclaim and release run under an operation mutex (a SQLite     *)
(* write lock, which the operating system frees when a process dies); the  *)
(* probe does not.  A PID may be used again after its process has died.    *)
(***************************************************************************)
EXTENDS Naturals, FiniteSets

CONSTANTS
    Process,            \* PIDs
    Token,              \* what tells two sentinels apart: lockId and file identity
    Blind,              \* processes that may not read the sentinel (EACCES, EPERM)
    AgeBound,           \* the caller passes staleAfterMs
    MaxCrashes,         \* bound on the number of crashes
    None

ASSUME LockAssumption ==
    /\ Blind \subseteq Process /\ AgeBound \in BOOLEAN /\ MaxCrashes \in Nat
    /\ None \notin Process /\ None \notin Token

VARIABLES
    file,               \* the sentinel, NoFile if there is none
    mutex,              \* who holds the operation mutex
    alive,              \* the PIDs of running processes
    proc,               \* proc[p]: where a call of process p is, and its locals
    crashes             \* crashes so far

lockVars == <<file, mutex, alive, proc, crashes>>

\* A sentinel names its holder once its content is written; before that it is
\* an empty file without a valid PID.
NoFile == [token |-> None, pid |-> None, old |-> FALSE]
File == [token: Token \cup {None}, pid: Process \cup {None}, old: BOOLEAN]

\* own: the ownership handle; seen: what the probe read; attempt: the first or
\* the second round of tryAcquireMaintenanceBarrier.
Fresh == [pc |-> "idle", own |-> None, seen |-> NoFile, attempt |-> 1]
Local == [pc: {"idle", "acquire", "write", "probe", "judge", "reclaim", "unlink",
               "held", "release"},
          own: Token \cup {None}, seen: File, attempt: {1, 2}]

LockTypeOK ==
    /\ file \in File
    /\ mutex \in Process \cup {None}
    /\ alive \subseteq Process
    /\ proc \in [Process -> Local]
    /\ crashes \in 0..MaxCrashes

LockInit ==
    /\ file = NoFile
    /\ mutex = None
    /\ alive = Process
    /\ proc = [p \in Process |-> Fresh]
    /\ crashes = 0

Goto(p, label) == proc' = [proc EXCEPT ![p].pc = label]
GiveUp(p) == proc' = [proc EXCEPT ![p] = Fresh]
\* A random lockId and a new inode are unlike all that anybody still compares.
FreshTokens ==
    Token \ ({file.token} \cup {proc[p].own : p \in Process}
             \cup {proc[p].seen.token : p \in Process})
NewToken == CHOOSE t \in FreshTokens : TRUE

-----------------------------------------------------------------------------
(* tryAcquireLockSync                                                      *)

Call(p) ==
    /\ proc[p].pc = "idle"
    /\ Goto(p, "acquire")
    /\ UNCHANGED <<file, mutex, alive, crashes>>

\* The exclusive create: the file is there, and still empty ...
CreateSentinel(p) ==
    /\ proc[p].pc = "acquire" /\ mutex = None /\ file = NoFile
    /\ FreshTokens # {}
    /\ mutex' = p
    /\ file' = [token |-> NewToken, pid |-> None, old |-> FALSE]
    /\ proc' = [proc EXCEPT ![p].pc = "write", ![p].own = NewToken]
    /\ UNCHANGED <<alive, crashes>>

\* ... until its payload is written and the snapshot of it is read back.
WriteSentinel(p) ==
    /\ proc[p].pc = "write"
    /\ file' = [file EXCEPT !.pid = p]
    /\ mutex' = None
    /\ proc' = [proc EXCEPT ![p] = [Fresh EXCEPT !.pc = "held", !.own = proc[p].own]]
    /\ UNCHANGED <<alive, crashes>>

\* EEXIST: somebody's sentinel is there.
SentinelExists(p) ==
    /\ proc[p].pc = "acquire" /\ mutex = None /\ file # NoFile
    /\ Goto(p, "probe")
    /\ UNCHANGED <<file, mutex, alive, crashes>>

-----------------------------------------------------------------------------
(* probeLock, without the mutex: the file is read, then its PID looked up. *)

ProbeRead(p) ==
    /\ proc[p].pc = "probe"
    /\ \/ /\ p \in Blind \/ file = NoFile        \* inaccessible, absent
          /\ GiveUp(p)
       \/ /\ p \notin Blind /\ file # NoFile
          /\ proc' = [proc EXCEPT ![p].pc = "judge", ![p].seen = file]
    /\ UNCHANGED <<file, mutex, alive, crashes>>

\* Mutant: the age of the sentinel is not looked at.
MutantNoAge(seen) == seen.pid = None \/ seen.pid \notin alive
\* invalid_pid, pid_dead or age_exceeded.
LooksStale(seen) ==
    \/ seen.pid = None
    \/ seen.pid \notin alive
    \/ AgeBound /\ seen.old
ProbeJudge(p) ==
    /\ proc[p].pc = "judge"
    /\ \/ LooksStale(proc[p].seen) /\ Goto(p, "reclaim")
       \/ ~LooksStale(proc[p].seen) /\ GiveUp(p)
    /\ UNCHANGED <<file, mutex, alive, crashes>>

-----------------------------------------------------------------------------
(* reclaimStaleLock                                                        *)

\* Mutant: the sentinel is taken away without looking at it again.
MutantNoRevalidation(p) == file # NoFile
\* The sentinel is still the probed one, content and identity.
StillProbed(p) == file.token = proc[p].seen.token /\ file.pid = proc[p].seen.pid

\* Mutant: the mutex is not waited for.
MutantReclaimUnserialized(p) ==
    /\ proc[p].pc = "reclaim"
    /\ \/ /\ StillProbed(p)
          /\ file' = NoFile
          /\ mutex' = p
          /\ Goto(p, "unlink")
       \/ /\ ~StillProbed(p)
          /\ GiveUp(p)
          /\ UNCHANGED <<file, mutex>>
    /\ UNCHANGED <<alive, crashes>>
\* Under the mutex it is read again and renamed out of the way ...
ReclaimQuarantine(p) ==
    /\ proc[p].pc = "reclaim" /\ mutex = None
    /\ \/ /\ StillProbed(p)
          /\ file' = NoFile
          /\ mutex' = p
          /\ Goto(p, "unlink")
       \/ /\ ~StillProbed(p)
          /\ GiveUp(p)
          /\ UNCHANGED <<file, mutex>>
    /\ UNCHANGED <<alive, crashes>>

\* Mutant: reclaiming and acquiring are tried for ever.
MutantRetryForever(p) ==
    /\ proc[p].pc = "unlink"
    /\ mutex' = None
    /\ proc' = [proc EXCEPT ![p] = [Fresh EXCEPT !.pc = "acquire",
                                                !.attempt = proc[p].attempt + 1]]
    /\ UNCHANGED <<file, alive, crashes>>
\* ... and removed: the second attempt is made, if this was the first.
ReclaimUnlink(p) ==
    /\ proc[p].pc = "unlink"
    /\ mutex' = None
    /\ \/ /\ proc[p].attempt = 1
          /\ proc' = [proc EXCEPT ![p] = [Fresh EXCEPT !.pc = "acquire", !.attempt = 2]]
       \/ proc[p].attempt = 2 /\ GiveUp(p)
    /\ UNCHANGED <<file, alive, crashes>>

-----------------------------------------------------------------------------
(* releaseLock                                                             *)

EndCriticalSection(p) ==
    /\ proc[p].pc = "held"
    /\ Goto(p, "release")
    /\ UNCHANGED <<file, mutex, alive, crashes>>

\* Mutant: the sentinel is unlinked by its path, whoever owns it.
MutantUnlinkAnything(p) ==
    /\ proc[p].pc = "release" /\ mutex = None
    /\ file' = NoFile
    /\ GiveUp(p)
    /\ UNCHANGED <<mutex, alive, crashes>>

\* Only the exact sentinel of this ownership is unlinked.
ReleaseLock(p) ==
    /\ proc[p].pc = "release" /\ mutex = None
    /\ file' = IF file.token = proc[p].own /\ file.pid = p THEN NoFile ELSE file
    /\ GiveUp(p)
    /\ UNCHANGED <<mutex, alive, crashes>>

-----------------------------------------------------------------------------
\* A process dies: its mutex is freed, its sentinel stays.
Crash(p) ==
    /\ p \in alive /\ crashes < MaxCrashes
    /\ alive' = alive \ {p}
    /\ proc' = [proc EXCEPT ![p] = Fresh]
    /\ mutex' = IF mutex = p THEN None ELSE mutex
    /\ crashes' = crashes + 1
    /\ UNCHANGED file

\* Another process gets the PID.
Spawn(p) ==
    /\ p \notin alive
    /\ alive' = alive \cup {p}
    /\ UNCHANGED <<file, mutex, proc, crashes>>

\* The sentinel passes the caller's staleAfterMs.
SentinelAges ==
    /\ AgeBound /\ file # NoFile /\ ~file.old
    /\ file' = [file EXCEPT !.old = TRUE]
    /\ UNCHANGED <<mutex, alive, proc, crashes>>

ProcessStep(p) ==
    /\ p \in alive
    /\ \/ Call(p) \/ CreateSentinel(p) \/ WriteSentinel(p) \/ SentinelExists(p)
       \/ ProbeRead(p) \/ ProbeJudge(p)
       \/ ReclaimQuarantine(p) \/ ReclaimUnlink(p)
       \/ EndCriticalSection(p) \/ ReleaseLock(p)

LockNext ==
    \/ \E p \in Process : ProcessStep(p) \/ Crash(p) \/ Spawn(p)
    \/ SentinelAges

LockSpec == LockInit /\ [][LockNext]_lockVars

\* Processes run, akm is called again after a crash, and time passes.
FairLockSpec ==
    /\ LockSpec
    /\ \A p \in Process : WF_lockVars(ProcessStep(p)) /\ WF_lockVars(Spawn(p))
    /\ WF_lockVars(SentinelAges)

-----------------------------------------------------------------------------
(* Properties.                                                             *)

Holding(p) == proc[p].pc \in {"held", "release"}

\* What makes the lock exclusive: a sentinel is written under the mutex, a probe
\* knows its holder or has seen it unwritten, and what is about to be reclaimed
\* belongs to nobody who runs, or is past the age bound.
WriterIsAlone ==
    /\ file # NoFile => file.token # None
    /\ \A p \in Process : proc[p].pc = "write" =>
        mutex = p /\ file.token = proc[p].own /\ file.pid = None
    /\ \A p \in Process : proc[p].pc = "unlink" => mutex = p
OwnersDiffer ==
    /\ \A p \in Process : proc[p].own # None <=> Holding(p) \/ proc[p].pc = "write"
    /\ \A p \in Process : proc[p].own # None => p \in alive
    /\ \A p, q \in Process : proc[p].own = proc[q].own /\ proc[p].own # None => p = q
    /\ \A p \in Process : Holding(p) /\ file.token = proc[p].own => file.pid = p
Probing(p) == proc[p].pc \in {"judge", "reclaim"}
ProbeKnowsHolder ==
    \A p \in Process : Probing(p) =>
        /\ proc[p].seen.token # None
        /\ \A q \in Process : proc[q].own = proc[p].seen.token => proc[p].seen.pid \in {None, q}
        /\ proc[p].seen.token = file.token /\ proc[p].seen.old => file.old
ReclaimsTheDead ==
    \A p, q \in Process : proc[p].pc = "reclaim" =>
        \/ proc[p].seen.pid = None
        \/ AgeBound /\ proc[p].seen.old
        \/ proc[q].own # proc[p].seen.token
LockInv == LockTypeOK /\ WriterIsAlone /\ OwnersDiffer /\ ProbeKnowsHolder /\ ReclaimsTheDead

\* At most one process is in the critical section, through every interleaving
\* of exclusive creates, unlocked probes, reclaims, crashes and reused PIDs.
\* Callers with an age bound give this up for holders past the bound.
MutualExclusion == \A p, q \in Process : proc[p].pc = "held" /\ proc[q].pc = "held" => p = q

\* The lock as its callers see it: one at a time is inside, and nobody gets in by
\* putting another one out, by a reclaim of its sentinel or otherwise.
Exclusive == INSTANCE Mutex WITH inside <- {p \in Process : Holding(p)}
ImplementsMutex == Exclusive!Spec

\* A holder loses its sentinel to nobody: neither to a reclaim that probed its
\* predecessor nor to the release of an earlier holder.
HolderKeepsSentinel ==
    \A p \in Process : Holding(p) => file.token = proc[p].own /\ file.pid = p

\* With an age bound too, the sentinel of a running holder is only ever taken
\* by its own release or when it was past that bound.
TakenByRight ==
    [][\A p \in Process :
        /\ Holding(p) /\ file.token = proc[p].own
        /\ file'.token # file.token
        => proc[p].pc = "release" \/ file.old]_lockVars

\* A sentinel that a crash has left behind does not lock everybody out for
\* ever, even if its PID is running again; needs an age bound.
LeftSentinelGoes ==
    \A t \in Token :
        (file.token = t /\ \A p \in Process : proc[p].own # t) ~> (file.token # t)
=============================================================================
