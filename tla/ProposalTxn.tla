----------------------------- MODULE ProposalTxn -----------------------------
(***************************************************************************)
(* Proposals on one asset file: accept, revert and reject as the journaled *)
(* transactions of core/fs-txn.ts and commands/proposal/repository.ts, the *)
(* recovery of interrupted ones, the maintenance passes that archive       *)
(* pending proposals without the asset-mutation lease, and a user who      *)
(* edits the file.  The lease admits one operation at a time and is freed  *)
(* when its holder dies (FileLock without an age bound), so one variable   *)
(* stands for the operation that holds it.                                 *)
(***************************************************************************)
EXTENDS Naturals, FiniteSets

CONSTANTS
    Proposal,           \* the proposals, and the contents they publish
    Txn,                \* transaction ids
    Base, Edit,         \* the content at first, and what the user writes
    Exposed,            \* proposals that the maintenance passes may archive
    MaxCrashes,         \* bound on the number of crashes
    MaxEdits,           \* bound on the number of edits and deletions
    None

ASSUME ProposalAssumption ==
    /\ {Base, Edit, None} \cap Proposal = {} /\ Base # Edit /\ None \notin {Base, Edit}
    /\ None \notin Txn
    /\ Exposed \subseteq Proposal
    /\ MaxCrashes \in Nat /\ MaxEdits \in Nat

VARIABLES
    asset,              \* the file: its content, and the transaction that linked it
    row,                \* row[p]: the proposal's row in state.db
    journal,            \* journal[t]: the transaction's journal, "gone" when removed
    publish,            \* transactions whose .publish file exists
    displaced,          \* displaced[t]: the content of the .displaced file
    events,             \* transactions whose event is in the events table
    op,                 \* the operation that holds the lease, with its locals
    doomed,             \* proposals that a running purge has found without asset
    saved,              \* what the user last put into the file
    crashes, edits      \* how many so far

rowVars == <<row, events>>
fileVars == <<asset, publish, displaced>>
faultVars == <<saved, crashes, edits>>
proposalVars == <<asset, row, journal, publish, displaced, events, op, doomed,
                  saved, crashes, edits>>

Content == Proposal \cup {Base, Edit}
MaybeContent == Content \cup {None}

NoFile == [content |-> None, txn |-> None]
Row == [status: {"pending", "accepted", "rejected", "reverted"},
        before: MaybeContent,       \* beforeHash; None: the proposal creates the asset
        backup: MaybeContent]       \* backupContent
ASSUME NoneAssumption == None \notin Row
Phase == {"unused", "prepared", "asset-published", "proposal-persisted", "index-finalized",
          "state-persisted", "event-finalized", "committed", "gone"}
Kind == {"accept", "revert", "reject"}
Journal == [phase: Phase, kind: Kind \cup {"none"}, prop: Proposal \cup {None},
            original: MaybeContent, published: MaybeContent, backup: MaybeContent]
NoJournal == [phase |-> "unused", kind |-> "none", prop |-> None,
              original |-> None, published |-> None, backup |-> None]

\* own: the transaction is this operation's own; todo: journals still to recover;
\* read: the row as read; found: the content read before the transaction.
Label == {"idle", "rejects", "read", "repair", "list", "recover", "check",
          "prepare", "stage", "displace", "verify", "link", "committing",
          "validate", "clean", "git", "persist", "persisted", "index", "event", "evented",
          "settle", "remove", "inspect", "unlink", "restore", "scrub",
          "decide", "archive", "archived", "announce", "announced", "dispose"}
Op == [kind: Kind \cup {"none"}, prop: Proposal \cup {None}, pc: Label,
       txn: Txn \cup {None}, own: BOOLEAN, todo: SUBSET Txn,
       read: Row \cup {None}, found: MaybeContent]
NoOp == [kind |-> "none", prop |-> None, pc |-> "idle", txn |-> None, own |-> FALSE,
         todo |-> {}, read |-> None, found |-> None]

ProposalTypeOK ==
    /\ asset \in [content: MaybeContent, txn: Txn \cup {None}]
    /\ row \in [Proposal -> Row]
    /\ journal \in [Txn -> Journal]
    /\ publish \subseteq Txn
    /\ displaced \in [Txn -> MaybeContent]
    /\ events \subseteq Txn
    /\ op \in Op
    /\ doomed \subseteq Proposal
    /\ saved \in MaybeContent
    /\ crashes \in 0..MaxCrashes
    /\ edits \in 0..MaxEdits

\* Every proposal was made for the asset as it is: to change or to create it.
ProposalInit ==
    \E first \in {Base, None} :
        /\ asset = [content |-> first, txn |-> None]
        /\ row = [p \in Proposal |-> [status |-> "pending", before |-> first, backup |-> None]]
        /\ journal = [t \in Txn |-> NoJournal]
        /\ publish = {}
        /\ displaced = [t \in Txn |-> None]
        /\ events = {}
        /\ op = NoOp
        /\ doomed = {}
        /\ saved = first
        /\ crashes = 0
        /\ edits = 0

At(label) == op.pc = label
Goto(label) == op' = [op EXCEPT !.pc = label]
Done == op' = NoOp
SetPhase(t, phase) == journal' = [journal EXCEPT ![t].phase = phase]
OfOp == journal[op.txn]
Live(t) == journal[t].phase \notin {"unused", "gone"}
FileTxn(t) == Live(t) /\ journal[t].kind # "reject"
Unused == {t \in Txn : journal[t].phase = "unused"}
\* Phases at or past the commit point of an accept or revert.
Irreversible(t) == FileTxn(t) /\ journal[t].phase \notin {"prepared", "committed"}

-----------------------------------------------------------------------------
(* An operation takes the lease.                                           *)

Begin(kind, p) ==
    /\ op = NoOp
    /\ op' = [NoOp EXCEPT !.kind = kind, !.prop = p,
                          !.pc = IF kind = "accept" THEN "rejects" ELSE "list"]
    /\ UNCHANGED <<rowVars, fileVars, faultVars, journal, doomed>>

RejectJournals(p) == {t \in Txn : Live(t) /\ journal[t].kind = "reject" /\ journal[t].prop = p}

\* Mutant: an interrupted rejection is left where it is.
MutantIgnoreRejects ==
    /\ At("rejects")
    /\ Goto(IF op.kind = "accept" THEN "read" ELSE "check")
    /\ UNCHANGED <<rowVars, fileVars, faultVars, journal, doomed>>
\* recoverRejectTransaction: an interrupted rejection is finished first.
RecoverReject ==
    /\ At("rejects")
    /\ \/ /\ RejectJournals(op.prop) = {}
          /\ Goto(IF op.kind = "accept" THEN "read" ELSE "check")
       \/ \E t \in RejectJournals(op.prop) :
            op' = [op EXCEPT !.txn = t, !.own = FALSE,
                             !.pc = CASE journal[t].phase = "prepared" -> "decide"
                                      [] journal[t].phase = "state-persisted" -> "announce"
                                      [] OTHER -> "dispose"]
    /\ UNCHANGED <<rowVars, fileVars, faultVars, journal, doomed>>

\* The row is read, and its content validated; it may be invalid, and it may be
\* in need of repair.
ReadProposal ==
    /\ At("read")
    /\ \/ op' = [op EXCEPT !.read = row[op.prop], !.pc = "repair"]
       \/ Goto("list")
       \/ Done
    /\ UNCHANGED <<rowVars, fileVars, faultVars, journal, doomed>>

\* Mutant: a repaired proposal starts anew.
MutantRepairAnew ==
    /\ At("repair")
    /\ row' = [row EXCEPT ![op.prop] = [op.read EXCEPT !.status = "pending"]]
    /\ op' = [op EXCEPT !.read = None, !.pc = "list"]
    /\ UNCHANGED <<events, fileVars, faultVars, journal, doomed>>
\* The whole row is written back as it was read.
PersistRepair ==
    /\ At("repair")
    /\ row' = [row EXCEPT ![op.prop] = op.read]
    /\ op' = [op EXCEPT !.read = None, !.pc = "list"]
    /\ UNCHANGED <<events, fileVars, faultVars, journal, doomed>>

-----------------------------------------------------------------------------
(* recoverProposalTransactionsForStash                                     *)

AfterRecovery == IF op.kind = "reject" THEN "rejects" ELSE "check"
\* Mutant: nothing is recovered.
MutantNoRecovery ==
    /\ At("list")
    /\ Goto(AfterRecovery)
    /\ UNCHANGED <<rowVars, fileVars, faultVars, journal, doomed>>
\* If this proposal has a journal, all journals of its root are recovered; it is
\* refused if two of its own are irreversible.
ListJournals ==
    /\ At("list")
    /\ LET mine == {t \in Txn : FileTxn(t) /\ journal[t].prop = op.prop} IN
        IF Cardinality({t \in mine : Irreversible(t)}) > 1 THEN Done
        ELSE IF mine = {} THEN Goto(AfterRecovery)
        ELSE op' = [op EXCEPT !.pc = "recover", !.todo = {t \in Txn : FileTxn(t)}]
    /\ UNCHANGED <<rowVars, fileVars, faultVars, journal, doomed>>

\* Mutant: a prepared transaction is thought to have done nothing yet.
MutantForgetPrepared(t) ==
    IF journal[t].phase \in {"prepared", "committed"} THEN "remove" ELSE "validate"
\* prepared: back; committed: only the files; otherwise: forward.
Direction(t) ==
    CASE journal[t].phase = "prepared" -> "inspect"
      [] journal[t].phase = "committed" -> "remove"
      [] OTHER -> "validate"
\* One journal after the other, in the order of the directory.
RecoverNext ==
    /\ At("recover")
    /\ \/ /\ op.todo = {}
          /\ Goto(AfterRecovery)
       \/ \E t \in op.todo :
            op' = [op EXCEPT !.txn = t, !.own = FALSE, !.todo = @ \ {t}, !.pc = Direction(t)]
    /\ UNCHANGED <<rowVars, fileVars, faultVars, journal, doomed>>

-----------------------------------------------------------------------------
(* promoteProposalWithLease, revertProposalWithLease, rejectProposalDurably*)

Decidable(kind, r) ==
    CASE kind = "accept" -> r.status = "pending"
      [] kind = "revert" -> r.status = "accepted" /\ r.backup # None
      [] kind = "reject" -> r.status = "pending"
\* The content to be replaced is the one the proposal was made for, or its own.
Expected(kind, r) ==
    CASE kind = "accept" -> asset.content = r.before
      [] kind = "revert" -> asset.content = op.prop
      [] kind = "reject" -> TRUE
\* The status and then the file are read; without a transaction id left (a bound)
\* nothing is begun.
ReadState ==
    /\ At("check")
    /\ LET r == row[op.prop] IN
        IF Decidable(op.kind, r) /\ Expected(op.kind, r) /\ Unused # {}
        THEN op' = [op EXCEPT !.pc = "prepare", !.read = r, !.found = asset.content]
        ELSE Done
    /\ UNCHANGED <<rowVars, fileVars, faultVars, journal, doomed>>

\* beginTxn; the content and the backup are in its directory by then.
Prepare ==
    /\ At("prepare")
    /\ LET t == CHOOSE u \in Unused : TRUE IN
        /\ journal' = [journal EXCEPT ![t] =
            [phase |-> "prepared", kind |-> op.kind, prop |-> op.prop,
             original |-> IF op.kind = "reject" THEN None ELSE op.found,
             published |-> CASE op.kind = "accept" -> op.prop
                             [] op.kind = "revert" -> op.read.backup
                             [] op.kind = "reject" -> None,
             backup |-> IF op.kind = "accept" THEN op.found ELSE None]]
        /\ op' = [op EXCEPT !.txn = t, !.own = TRUE, !.read = None, !.found = None,
                            !.pc = IF op.kind = "reject" THEN "decide" ELSE "stage"]
    /\ UNCHANGED <<rowVars, fileVars, faultVars, doomed>>

-----------------------------------------------------------------------------
(* prepareProposalTransaction's last part and publishProposalAsset: the    *)
(* old file is moved aside, and the new one linked where nothing is.       *)

StagePublish ==
    /\ At("stage")
    /\ \/ publish' = publish \cup {op.txn} /\ Goto("displace")
       \/ UNCHANGED publish /\ Goto("inspect")              \* the write fails
    /\ UNCHANGED <<rowVars, asset, displaced, faultVars, journal, doomed>>

Displace ==
    /\ At("displace")
    /\ \/ /\ OfOp.original = None
          /\ Goto("link")
          /\ UNCHANGED <<asset, displaced>>
       \/ /\ OfOp.original # None /\ asset # NoFile
          /\ displaced' = [displaced EXCEPT ![op.txn] = asset.content]
          /\ asset' = NoFile
          /\ Goto("verify")
       \/ /\ OfOp.original # None /\ asset = NoFile         \* ENOENT
          /\ Goto("inspect")
          /\ UNCHANGED <<asset, displaced>>
    /\ UNCHANGED <<rowVars, publish, faultVars, journal, doomed>>

\* Mutant: what has been moved aside is not compared with what was read.
MutantUnverified == TRUE
DisplacedIsOriginal == displaced[op.txn] = OfOp.original
VerifyDisplaced ==
    /\ At("verify")
    /\ \/ /\ DisplacedIsOriginal
          /\ Goto("link")
          /\ UNCHANGED <<asset, displaced>>
       \/ /\ ~DisplacedIsOriginal
          /\ asset' = [content |-> displaced[op.txn], txn |-> None]
          /\ displaced' = [displaced EXCEPT ![op.txn] = None]
          /\ Goto("inspect")
    /\ UNCHANGED <<rowVars, publish, faultVars, journal, doomed>>

\* link(2) refuses to replace anything.
LinkPublished ==
    /\ At("link")
    /\ \/ /\ asset = NoFile
          /\ asset' = [content |-> OfOp.published, txn |-> op.txn]
          /\ Goto("committing")
       \/ /\ asset # NoFile                                 \* EEXIST
          /\ Goto("inspect")
          /\ UNCHANGED asset
    /\ UNCHANGED <<rowVars, publish, displaced, faultVars, journal, doomed>>

\* The commit point.
AdvancePublished ==
    /\ At("committing")
    /\ SetPhase(op.txn, "asset-published")
    /\ Goto("validate")
    /\ UNCHANGED <<rowVars, fileVars, faultVars, doomed>>

-----------------------------------------------------------------------------
(* rollbackPreparedProposalTransaction                                     *)

OwnLink == asset.content = OfOp.published /\ asset.txn = op.txn /\ op.txn \in publish
\* What is in place of the asset is looked at; anything unknown is left alone, and
\* so is the journal.
InspectAsset ==
    /\ At("inspect")
    /\ LET aside == displaced[op.txn] # None
           creates == ~aside /\ OfOp.original = None
           updates == ~aside /\ OfOp.original # None
       IN \/ /\ (creates /\ OwnLink) \/ (aside /\ asset.content = OfOp.published)
             /\ Goto("unlink")
          \/ /\ creates /\ ~OwnLink
             /\ IF asset = NoFile THEN Goto("scrub") ELSE Done     \* created externally
          \/ /\ updates
             /\ IF asset.content = OfOp.original THEN Goto("scrub") ELSE Done   \* diverged
          \/ /\ aside /\ asset.content # OfOp.published
             /\ IF asset.content \in {OfOp.original, None} THEN Goto("restore") ELSE Done
    /\ UNCHANGED <<rowVars, fileVars, faultVars, journal, doomed>>

UnlinkPublished ==
    /\ At("unlink")
    /\ \/ /\ asset # NoFile
          /\ asset' = NoFile
          /\ Goto(IF displaced[op.txn] = None THEN "scrub" ELSE "restore")
       \/ /\ asset = NoFile
          /\ Done
          /\ UNCHANGED asset
    /\ UNCHANGED <<rowVars, publish, displaced, faultVars, journal, doomed>>

RestoreDisplaced ==
    /\ At("restore")
    /\ \/ /\ asset = NoFile
          /\ asset' = [content |-> displaced[op.txn], txn |-> None]
          /\ Goto("scrub")
       \/ /\ asset # NoFile                                 \* occupied
          /\ Done
          /\ UNCHANGED asset
    /\ UNCHANGED <<rowVars, publish, displaced, faultVars, journal, doomed>>

\* cleanupProposalPublication, then cleanupTxn; the error of an own transaction
\* is thrown on, a recovery goes on with the next journal.
Scrub ==
    /\ At("scrub")
    /\ publish' = publish \ {op.txn}
    /\ displaced' = [displaced EXCEPT ![op.txn] = None]
    /\ Goto("remove")
    /\ UNCHANGED <<rowVars, asset, faultVars, journal, doomed>>

RemoveJournal ==
    /\ At("remove")
    /\ SetPhase(op.txn, "gone")
    /\ publish' = publish \ {op.txn}
    /\ displaced' = [displaced EXCEPT ![op.txn] = None]
    /\ IF op.own THEN Done ELSE op' = [op EXCEPT !.pc = "recover", !.txn = None]
    /\ UNCHANGED <<rowVars, asset, faultVars, doomed>>

-----------------------------------------------------------------------------
(* finalizeProposalTransaction                                             *)

ValidatePublished ==
    /\ At("validate")
    /\ IF asset.content = OfOp.published THEN Goto("clean") ELSE Done
    /\ UNCHANGED <<rowVars, fileVars, faultVars, journal, doomed>>

CleanPublication ==
    /\ At("clean")
    /\ publish' = publish \ {op.txn}
    /\ displaced' = [displaced EXCEPT ![op.txn] = None]
    /\ Goto(CASE OfOp.phase = "asset-published" -> "git"
              [] OfOp.phase = "proposal-persisted" -> "index"
              [] OfOp.phase = "index-finalized" -> "event"
              [] OTHER -> "settle")
    /\ UNCHANGED <<rowVars, asset, faultVars, journal, doomed>>

\* publishWriteTargetTransaction: fails (the journal stays) or has committed.
PublishGit ==
    /\ At("git")
    /\ Goto("persist")
    /\ UNCHANGED <<rowVars, fileVars, faultVars, journal, doomed>>
\* indexWrittenAssets.
FinalizeIndex ==
    /\ At("index")
    /\ SetPhase(op.txn, "index-finalized")
    /\ Goto("event")
    /\ UNCHANGED <<rowVars, fileVars, faultVars, doomed>>
ServiceFails ==
    /\ At("git") \/ At("index")
    /\ Done
    /\ UNCHANGED <<rowVars, fileVars, faultVars, journal, doomed>>

\* Mutant: the operation's name is taken for the status.
MutantStatusIsKind(r) == [r EXCEPT !.status = OfOp.kind]
\* What persistProposalTransactionState makes of the row; None: it throws.
Persisted(r) ==
    CASE OfOp.kind = "accept" /\ r.status = "pending" ->
            [r EXCEPT !.status = "accepted", !.backup = OfOp.backup]
      [] OfOp.kind = "accept" /\ r.status = "accepted" -> r
      [] OfOp.kind = "revert" /\ r.status = "accepted" -> [r EXCEPT !.status = "reverted"]
      [] OfOp.kind = "revert" /\ r.status = "reverted" -> r
      [] OTHER -> None
PersistState ==
    /\ At("persist")
    /\ LET r == Persisted(row[OfOp.prop]) IN
        \/ /\ r # None
           /\ row' = [row EXCEPT ![OfOp.prop] = r]
           /\ Goto("persisted")
        \/ /\ r = None                                      \* changed status during ...
           /\ Done
           /\ UNCHANGED row
    /\ UNCHANGED <<events, fileVars, faultVars, journal, doomed>>

AdvancePersisted ==
    /\ At("persisted")
    /\ SetPhase(op.txn, "proposal-persisted")
    /\ Goto("index")
    /\ UNCHANGED <<rowVars, fileVars, faultVars, doomed>>

\* insertEventOnce, with the transaction's id as its key.
PersistEvent ==
    /\ At("event")
    /\ events' = events \cup {op.txn}
    /\ Goto("evented")
    /\ UNCHANGED <<row, fileVars, faultVars, journal, doomed>>

AdvanceEvented ==
    /\ At("evented")
    /\ SetPhase(op.txn, "event-finalized")
    /\ Goto("settle")
    /\ UNCHANGED <<rowVars, fileVars, faultVars, doomed>>

Settle ==
    /\ At("settle")
    /\ SetPhase(op.txn, "committed")
    /\ Goto("remove")
    /\ UNCHANGED <<rowVars, fileVars, faultVars, doomed>>

-----------------------------------------------------------------------------
(* finalizeRejectTransaction                                               *)

DecideReject ==
    /\ At("decide")
    /\ CASE row[OfOp.prop].status = "pending" -> Goto("archive")
         [] row[OfOp.prop].status = "rejected" -> Goto("archived")
         [] OTHER -> Done
    /\ UNCHANGED <<rowVars, fileVars, faultVars, journal, doomed>>

\* archiveProposal, in a transaction of its own.
ArchiveRejected ==
    /\ At("archive")
    /\ \/ /\ row[OfOp.prop].status = "pending"
          /\ row' = [row EXCEPT ![OfOp.prop].status = "rejected"]
          /\ Goto("archived")
       \/ /\ row[OfOp.prop].status # "pending"
          /\ Done
          /\ UNCHANGED row
    /\ UNCHANGED <<events, fileVars, faultVars, journal, doomed>>

\* Mutant: the next phase is recorded before its event is.
MutantPhaseFirst ==
    /\ At("archived")
    /\ SetPhase(op.txn, "event-finalized")
    /\ Goto("announce")
    /\ UNCHANGED <<rowVars, fileVars, faultVars, doomed>>
AdvanceArchived ==
    /\ At("archived")
    /\ SetPhase(op.txn, "state-persisted")
    /\ Goto("announce")
    /\ UNCHANGED <<rowVars, fileVars, faultVars, doomed>>

AnnounceReject ==
    /\ At("announce")
    /\ events' = events \cup {op.txn}
    /\ Goto("announced")
    /\ UNCHANGED <<row, fileVars, faultVars, journal, doomed>>

AdvanceAnnounced ==
    /\ At("announced")
    /\ SetPhase(op.txn, "event-finalized")
    /\ Goto("dispose")
    /\ UNCHANGED <<rowVars, fileVars, faultVars, doomed>>

\* committed, and the directory is removed; a rejection ends here, an
\* acceptance that has finished a rejection goes on.
DisposeReject ==
    /\ At("dispose")
    /\ \/ /\ OfOp.phase = "event-finalized"
          /\ SetPhase(op.txn, "committed")
          /\ UNCHANGED op
       \/ /\ OfOp.phase = "committed"
          /\ SetPhase(op.txn, "gone")
          /\ IF op.kind = "reject" THEN Done ELSE op' = [op EXCEPT !.pc = "read", !.txn = None]
    /\ UNCHANGED <<rowVars, fileVars, faultVars, doomed>>

-----------------------------------------------------------------------------
(* Without the lease: the maintenance passes of improve.                   *)

\* expireStaleProposals archives a pending proposal that is old enough.
ExpireStale(p) ==
    /\ p \in Exposed
    /\ row[p].status = "pending"
    /\ row' = [row EXCEPT ![p].status = "rejected"]
    /\ UNCHANGED <<events, fileVars, faultVars, journal, op, doomed>>

\* purgeOrphanProposals looks for the asset of a proposal made by reflect, which
\* always changes an asset ...
PurgeLooks(p) ==
    /\ p \in Exposed
    /\ row[p].status = "pending" /\ row[p].before # None /\ asset = NoFile
    /\ p \notin doomed
    /\ doomed' = doomed \cup {p}
    /\ UNCHANGED <<rowVars, fileVars, faultVars, journal, op>>

\* ... and archives the proposal if it is still pending.
PurgeArchives(p) ==
    /\ p \in doomed
    /\ doomed' = doomed \ {p}
    /\ row' = IF row[p].status = "pending" THEN [row EXCEPT ![p].status = "rejected"] ELSE row
    /\ UNCHANGED <<events, fileVars, faultVars, journal, op>>

-----------------------------------------------------------------------------
\* The user saves the file, or deletes it.  A save in the instant before a file is
\* unlinked or renamed over is not held to be safe by anybody.
Unprotected == op.pc \in {"unlink", "verify"}
EditAsset(content) ==
    /\ edits < MaxEdits /\ asset.content # content
    /\ asset' = [content |-> content, txn |-> None]
    /\ saved' = IF Unprotected THEN None ELSE content
    /\ edits' = edits + 1
    /\ UNCHANGED <<rowVars, publish, displaced, journal, op, doomed, crashes>>

\* The process that holds the lease is killed; files, rows and journals stay.
CrashOp ==
    /\ op # NoOp /\ crashes < MaxCrashes
    /\ Done
    /\ crashes' = crashes + 1
    /\ UNCHANGED <<rowVars, fileVars, journal, doomed, saved, edits>>

OpStep ==
    \/ RecoverReject \/ ReadProposal \/ PersistRepair \/ ListJournals \/ RecoverNext
    \/ ReadState \/ Prepare
    \/ StagePublish \/ Displace \/ VerifyDisplaced \/ LinkPublished \/ AdvancePublished
    \/ InspectAsset \/ UnlinkPublished \/ RestoreDisplaced \/ Scrub \/ RemoveJournal
    \/ ValidatePublished \/ CleanPublication \/ PublishGit \/ ServiceFails \/ PersistState
    \/ AdvancePersisted \/ FinalizeIndex \/ PersistEvent \/ AdvanceEvented \/ Settle
    \/ DecideReject \/ ArchiveRejected \/ AdvanceArchived \/ AnnounceReject
    \/ AdvanceAnnounced \/ DisposeReject

ProposalNext ==
    \/ \E kind \in Kind, p \in Proposal : Begin(kind, p)
    \/ OpStep
    \/ \E p \in Proposal : ExpireStale(p) \/ PurgeLooks(p) \/ PurgeArchives(p)
    \/ \E content \in {Edit, None} : EditAsset(content)
    \/ CrashOp

ProposalSpec == ProposalInit /\ [][ProposalNext]_proposalVars

\* The process that holds the lease runs, git and the index do not fail for ever,
\* and somebody asks again and again for every proposal to be rejected.
FairProposalSpec ==
    /\ ProposalSpec
    /\ WF_proposalVars(OpStep) /\ SF_proposalVars(PublishGit) /\ SF_proposalVars(FinalizeIndex)
    /\ \A p \in Proposal : SF_proposalVars(Begin("reject", p))

-----------------------------------------------------------------------------
(* Properties.                                                             *)

AtRest(p) == \A t \in Txn : Live(t) => journal[t].prop # p

\* All or nothing: a proposal without an unfinished transaction has its content
\* in place only if it is accepted, whatever crashes, recoveries, edits and other
\* proposals came between, and an accepted one has replaced what was there, if the
\* user has not touched the file.
AllOrNothing ==
    \A p \in Proposal : AtRest(p) =>
        /\ asset.content = p => row[p].status = "accepted"
        /\ row[p].status = "accepted" /\ edits = 0 => asset.content # row[p].before

\* The content that the user saved last is still somewhere: in place, moved
\* aside, or in a backup.
SavedIsKept ==
    saved # None =>
        \/ asset.content = saved
        \/ \E t \in Txn : displaced[t] = saved \/ (Live(t) /\ journal[t].backup = saved)
        \/ \E p \in Proposal : row[p].backup = saved

\* Acceptances, reversals and rejections are announced: a proposal without an
\* unfinished transaction has the events of the decisions that its row records, one
\* transaction's for each, and no others.  The maintenance passes announce nothing
\* as a rejection, so what they can archive may be without the event, never with two.
DecisionHasEvent ==
    LET Announced(kind, p) == {t \in events : journal[t].kind = kind /\ journal[t].prop = p}
        One(made) == IF made THEN 1 ELSE 0
    IN \A p \in Proposal : AtRest(p) =>
        /\ Cardinality(Announced("accept", p)) = One(row[p].status \in {"accepted", "reverted"})
        /\ Cardinality(Announced("revert", p)) = One(row[p].status = "reverted")
        /\ Cardinality(Announced("reject", p)) <= One(row[p].status = "rejected")
        /\ p \notin Exposed => Cardinality(Announced("reject", p)) = One(row[p].status = "rejected")

\* At most one transaction of a proposal is past its commit point and not finished.
OneIrreversible == \A t, u \in Txn : Irreversible(t) /\ Irreversible(u)
                    /\ journal[t].prop = journal[u].prop => t = u

StatusOnlyForward(p) ==
    <<row[p].status, row'[p].status>> \in
        {<<"pending", "accepted">>, <<"pending", "rejected">>, <<"accepted", "reverted">>}
        \cup {<<s, s>> : s \in {"pending", "accepted", "rejected", "reverted"}}
\* A decided proposal is never decided again.
DecisionIsFinal == [][\A p \in Proposal \ Exposed : StatusOnlyForward(p)]_proposalVars

\* Every interrupted transaction is finished or undone in the end ...
\* unless one of its root is stuck: somebody else's content is in the way ...
Diverged(t) ==
    \/ Irreversible(t) /\ asset.content # journal[t].published
    \/ /\ FileTxn(t) /\ journal[t].phase = "prepared"
       /\ asset.content \notin {journal[t].original, journal[t].published}
       /\ displaced[t] = None \/ asset # NoFile
\* ... the asset has been restored without removing the file moved aside ...
HalfRestored(t) == displaced[t] # None /\ asset.content = displaced[t]
\* ... or the proposal was archived meanwhile.
Overtaken(t) == Irreversible(t) /\ row[journal[t].prop].status = "rejected"
InterruptedFinishesUnlessStuck ==
    \A t \in Txn : Live(t) ~> \/ ~Live(t)
                             \/ \E u \in Txn : Diverged(u) \/ HalfRestored(u) \/ Overtaken(u)

\* A transaction past its commit point is completed: the row it is about to be
\* recorded in has not been decided otherwise.
PersistNeverRefused ==
    [][At("persist") /\ op' = NoOp /\ crashes' = crashes => Persisted(row[OfOp.prop]) # None]_proposalVars

\* Undoing a transaction can be repeated: it is not refused for what an earlier
\* attempt has restored.
RollbackRepeats == [][At("restore") /\ edits = 0 => asset = NoFile]_proposalVars
=============================================================================
