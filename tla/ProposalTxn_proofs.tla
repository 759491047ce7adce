-------------------------- MODULE ProposalTxn_proofs --------------------------
(***************************************************************************)
(* Proofs about the proposal transactions for every set of proposals and   *)
(* transaction ids and any number of crashes and edits, by seven inductive *)
(* invariants, each of which uses the ones before it:                      *)
(* ProposalInv: what the lease holder's locals say of the journals at each *)
(* label, hence that no proposal has two transactions past their commit    *)
(* point, and that no decision is ever taken back;                         *)
(* DecisionInv: what journals say of rows and events in each phase, hence  *)
(* that every acceptance and reversal is announced exactly once;           *)
(* FileInv: what can be in place of the asset, and aside, at each label,   *)
(* hence that a transaction does all or nothing;                           *)
(* SavedInv: where the user's last content is kept, hence that it is kept; *)
(* ReachInv: that no proposal out of the maintenance passes' reach is      *)
(* decided in two ways at once, hence that none is refused its decision;   *)
(* RejectInv: what the journals of rejections say of rows and events, hence*)
(* that no rejection is announced twice, or in vain, and out of that reach *)
(* none goes unannounced;                                                  *)
(* WorkInv: that finitely many transactions have been begun, hence that an *)
(* operation can only take so many steps.                                  *)
(***************************************************************************)
EXTENDS ProposalTxn, FiniteSetTheorems, TLAPS

OwnLabel == {"stage", "displace", "verify", "link", "committing"}
UndoLabel == {"inspect", "unlink", "restore", "scrub"}
ForwardLabel == {"validate", "clean", "git", "persist", "persisted", "index", "event", "evented",
                 "settle"}
FileLabel == OwnLabel \cup UndoLabel \cup ForwardLabel \cup {"remove"}
RejectLabel == {"decide", "archive", "archived", "announce", "announced", "dispose"}
OtherLabel == {"rejects", "read", "repair", "list", "recover", "check", "prepare"}

\* What an operation o has read.
ReadOK(o) ==
    /\ o.pc # "idle" => o.kind \in Kind /\ o.prop \in Proposal
    /\ o.pc = "rejects" => o.kind # "revert"
    /\ o.pc = "repair" => o.read \in Row /\ (o.prop \notin Exposed => o.read = row[o.prop])
    /\ o.pc = "prepare" => o.read \in Row /\ Unused # {}

\* Its transaction is there, and past the commit point on the way forward.
TxnOK(o) ==
    /\ o.pc \in FileLabel => o.txn \in Txn /\ FileTxn(o.txn)
    /\ o.pc \in ForwardLabel => Irreversible(o.txn)
    /\ o.pc \in RejectLabel =>
        o.txn \in Txn /\ journal[o.txn].kind = "reject" /\ journal[o.txn].phase # "unused"

\* A transaction of its own is begun when no other one of the proposal is left.
AloneOK(o) ==
    /\ o.pc \in OwnLabel => o.own
    /\ o.pc \in FileLabel /\ o.own =>
        /\ journal[o.txn].prop = o.prop
        /\ \A t \in Txn : FileTxn(t) /\ journal[t].prop = o.prop => t = o.txn
    /\ o.pc \in {"check", "prepare"} /\ o.kind # "reject" =>
        \A t \in Txn : FileTxn(t) => journal[t].prop # o.prop

\* Recovery still has to do what it has not done.
TodoOK(o) ==
    /\ o.pc = "recover" => \A t \in Txn : FileTxn(t) <=> t \in o.todo
    /\ o.pc \in FileLabel /\ ~o.own =>
        o.txn \notin o.todo /\ \A t \in Txn : FileTxn(t) <=> t \in o.todo \/ t = o.txn

OpOK(o) == ReadOK(o) /\ TxnOK(o) /\ AloneOK(o) /\ TodoOK(o)

JournalsOK ==
    /\ journal \in [Txn -> Journal]
    /\ \A t \in Txn : journal[t].phase # "unused" => journal[t].kind \in Kind /\ journal[t].prop \in Proposal

ProposalInv ==
    /\ ProposalTypeOK
    /\ JournalsOK
    /\ OpOK(op)
    /\ doomed \subseteq Exposed
    /\ OneIrreversible

-----------------------------------------------------------------------------
(* The operation.                                                          *)

\* The sets of labels cover every label, and are told apart.
LEMMA LabelsAreAll ==
    /\ Label = {"idle"} \cup FileLabel \cup RejectLabel \cup OtherLabel
    /\ "idle" \notin FileLabel /\ "idle" \notin RejectLabel
    /\ FileLabel \cap RejectLabel = {} /\ FileLabel \cap OtherLabel = {}
    /\ RejectLabel \cap OtherLabel = {}
    /\ OwnLabel \subseteq FileLabel /\ ForwardLabel \subseteq FileLabel
    /\ OwnLabel \cap ForwardLabel = {}
BY DEF Label, FileLabel, RejectLabel, OtherLabel, OwnLabel, UndoLabel, ForwardLabel

\* An operation that ends, or is killed, leaves nothing behind.
LEMMA IdleIsOK == NoOp \in Op /\ OpOK(NoOp)
<1>1. NoOp \in Op /\ NoOp.pc = "idle"
    BY DEF NoOp, Op, Label, MaybeContent
<1> QED
    BY <1>1, LabelsAreAll DEF OpOK, ReadOK, TxnOK, AloneOK, TodoOK, OtherLabel

\* A step to another label changes nothing else of the operation.
LEMMA GotoType ==
    ASSUME op \in Op, NEW label \in Label
    PROVE  /\ [op EXCEPT !.pc = label] \in Op
           /\ [op EXCEPT !.pc = label].pc = label
           /\ [op EXCEPT !.pc = label].kind = op.kind /\ [op EXCEPT !.pc = label].prop = op.prop
           /\ [op EXCEPT !.pc = label].txn = op.txn /\ [op EXCEPT !.pc = label].own = op.own
           /\ [op EXCEPT !.pc = label].todo = op.todo /\ [op EXCEPT !.pc = label].read = op.read
BY DEF Op

\* On the way of a file transaction, and of a rejection.
LEMMA GotoFile ==
    ASSUME op \in Op, OpOK(op), op.pc \in FileLabel, NEW label \in FileLabel,
           label \in OwnLabel => op.own, label \in ForwardLabel => Irreversible(op.txn)
    PROVE  [op EXCEPT !.pc = label] \in Op /\ OpOK([op EXCEPT !.pc = label])
<1> DEFINE m == [op EXCEPT !.pc = label]
<1>1. /\ m \in Op /\ m.pc = label /\ m.kind = op.kind /\ m.prop = op.prop
      /\ m.txn = op.txn /\ m.own = op.own /\ m.todo = op.todo
    BY LabelsAreAll, GotoType
<1> HIDE DEF m
<1>2. op.pc # "idle" /\ label \notin RejectLabel /\ label \notin OtherLabel
    BY LabelsAreAll
<1>3. ReadOK(m)
    BY <1>1, <1>2 DEF OpOK, ReadOK, OtherLabel
<1>4. TxnOK(m)
    BY <1>1, <1>2 DEF OpOK, TxnOK
<1>5. AloneOK(m)
    BY <1>1, <1>2 DEF OpOK, AloneOK, OtherLabel
<1>6. TodoOK(m)
    BY <1>1, <1>2 DEF OpOK, TodoOK, OtherLabel
<1> QED
    BY <1>1, <1>3, <1>4, <1>5, <1>6 DEF OpOK, m

\* ... and of a rejection.
LEMMA GotoReject ==
    ASSUME op \in Op, OpOK(op), op.pc \in RejectLabel, NEW label \in RejectLabel
    PROVE  [op EXCEPT !.pc = label] \in Op /\ OpOK([op EXCEPT !.pc = label])
<1> DEFINE m == [op EXCEPT !.pc = label]
<1>1. /\ m \in Op /\ m.pc = label /\ m.kind = op.kind /\ m.prop = op.prop /\ m.txn = op.txn
    BY LabelsAreAll, GotoType
<1> HIDE DEF m
<1>2. op.pc # "idle" /\ label \notin FileLabel /\ label \notin OtherLabel
    BY LabelsAreAll
<1>3. ReadOK(m)
    BY <1>1, <1>2 DEF OpOK, ReadOK, OtherLabel
<1>4. TxnOK(m)
    BY <1>1, <1>2, LabelsAreAll DEF OpOK, TxnOK
<1>5. AloneOK(m)
    BY <1>1, <1>2, LabelsAreAll DEF OpOK, AloneOK, OtherLabel
<1>6. TodoOK(m)
    BY <1>1, <1>2 DEF OpOK, TodoOK, OtherLabel
<1> QED
    BY <1>1, <1>3, <1>4, <1>5, <1>6 DEF OpOK, m

\* A step that leaves the journals alone.
LEMMA QuietKeeps ==
    ASSUME ProposalInv, ProposalTypeOK', journal' = journal, doomed' \subseteq Exposed,
           OpOK(op'),
           op'.pc = "repair" /\ op'.prop \notin Exposed => row'[op'.prop] = row[op'.prop]
    PROVE  ProposalInv'
<1>1. /\ \A t : FileTxn(t)' = FileTxn(t) /\ Irreversible(t)' = Irreversible(t)
      /\ Unused' = Unused
    BY DEF FileTxn, Live, Irreversible, Unused
<1>2. OpOK(op)'
    <2>1. ReadOK(op)'
        BY <1>1 DEF OpOK, ReadOK
    <2>2. TxnOK(op)' /\ AloneOK(op)' /\ TodoOK(op)'
        BY <1>1 DEF OpOK, TxnOK, AloneOK, TodoOK
    <2> QED
        BY <2>1, <2>2 DEF OpOK
<1> QED
    BY <1>1, <1>2 DEF ProposalInv, JournalsOK, OneIrreversible

\* A journal gets its next phase.
LEMMA SetPhaseJournals ==
    ASSUME JournalsOK, NEW t \in Txn, journal[t].phase # "unused", NEW phase \in Phase, SetPhase(t, phase)
    PROVE  /\ JournalsOK'
           /\ \A u \in Txn \ {t} : journal'[u] = journal[u]
           /\ journal'[t].phase = phase
           /\ journal'[t].kind = journal[t].kind /\ journal'[t].prop = journal[t].prop
<1> DEFINE j == [journal[t] EXCEPT !.phase = phase]
<1>1. journal' = [journal EXCEPT ![t] = j] /\ journal \in [Txn -> Journal]
    BY DEF SetPhase, JournalsOK
<1>2. /\ j \in Journal /\ j.phase = phase
      /\ j.kind = journal[t].kind /\ j.prop = journal[t].prop
    BY DEF JournalsOK, Journal
<1> HIDE DEF j
<1>3. journal' \in [Txn -> Journal] /\ journal'[t] = j /\ \A u \in Txn \ {t} : journal'[u] = journal[u]
    BY <1>1, <1>2
<1> QED
    BY <1>2, <1>3 DEF JournalsOK

\* A file transaction of the operation gets past its commit point, or on from there.
LEMMA ForwardKeeps ==
    ASSUME ProposalInv, ProposalTypeOK', doomed' \subseteq Exposed, NEW label \in FileLabel \ OwnLabel,
           op.pc \in FileLabel, Irreversible(op.txn) \/ op.own,
           NEW phase \in Phase \ {"unused", "gone", "prepared"},
           phase = "committed" => label = "remove",
           SetPhase(op.txn, phase), Goto(label)
    PROVE  ProposalInv'
<1>t. op.txn \in Txn
    BY DEF ProposalInv, OpOK, TxnOK
<1>p. PICK t \in Txn : t = op.txn
    BY <1>t
<1>0. /\ OpOK(op) /\ op \in Op /\ JournalsOK /\ t \in Txn /\ FileTxn(t)
      /\ SetPhase(t, phase) /\ t = op.txn /\ (Irreversible(t) \/ op.own)
    BY <1>p DEF ProposalInv, ProposalTypeOK, OpOK, TxnOK
<1>1. /\ JournalsOK'
      /\ \A u \in Txn \ {t} : journal'[u] = journal[u]
      /\ journal'[t].phase = phase
      /\ journal'[t].kind = journal[t].kind /\ journal'[t].prop = journal[t].prop
    BY <1>0, SetPhaseJournals DEF FileTxn, Live
<1>2. /\ op' \in Op /\ op'.pc = label /\ op'.kind = op.kind /\ op'.prop = op.prop
      /\ op'.txn = t /\ op'.own = op.own /\ op'.todo = op.todo
    BY <1>0, GotoType, LabelsAreAll DEF Goto
<1>3. /\ FileTxn(t)'
      /\ \A u \in Txn : FileTxn(u)' <=> FileTxn(u)
      /\ \A u \in Txn \ {t} : Irreversible(u)' <=> Irreversible(u)
      /\ label \in ForwardLabel => Irreversible(t)'
    <2>1. label \in ForwardLabel => phase # "committed"
        BY DEF ForwardLabel
    <2>2. FileTxn(t)'
        BY <1>0, <1>1 DEF FileTxn, Live
    <2>3. ASSUME NEW u \in Txn \ {t}
          PROVE  (FileTxn(u)' <=> FileTxn(u)) /\ (Irreversible(u)' <=> Irreversible(u))
        BY <1>1 DEF FileTxn, Live, Irreversible
    <2>4. label \in ForwardLabel => Irreversible(t)'
        BY <1>1, <2>1, <2>2 DEF Irreversible
    <2> QED
        BY <1>0, <2>2, <2>3, <2>4
<1>4. OneIrreversible'
    <2>1. ASSUME NEW u \in Txn \ {t}, Irreversible(u), journal[u].prop = journal[t].prop
          PROVE  FALSE
        <3>1. CASE Irreversible(t)
            BY <1>0, <2>1, <3>1 DEF ProposalInv, OneIrreversible
        <3>2. CASE op.own
            BY <1>0, <2>1, <3>2 DEF OpOK, AloneOK, Irreversible
        <3> QED
            BY <1>0, <3>1, <3>2
    <2>2. \A u \in Txn : journal'[u].prop = journal[u].prop
        BY <1>1
    <2>3. ASSUME NEW u \in Txn, NEW v \in Txn, Irreversible(u)', Irreversible(v)',
                 journal'[u].prop = journal'[v].prop
          PROVE  u = v
        <3>1. u # t /\ v # t => Irreversible(u) /\ Irreversible(v)
            BY <1>3, <2>3
        <3>2. u # t /\ v # t => u = v
            BY <2>2, <2>3, <3>1 DEF ProposalInv, OneIrreversible
        <3>3. u = t \/ v = t => u = v
            BY <1>0, <1>3, <2>1, <2>2, <2>3
        <3> QED
            BY <3>2, <3>3
    <2> QED
        BY <2>3 DEF OneIrreversible
<1>5. label \notin RejectLabel /\ label \notin OtherLabel /\ label # "idle" /\ label \notin OwnLabel /\ op.pc # "idle"
    BY LabelsAreAll
<1>6. ReadOK(op)'
    BY <1>0, <1>2, <1>5 DEF OpOK, ReadOK, OtherLabel
<1>7. TxnOK(op)'
    BY <1>0, <1>2, <1>3, <1>5 DEF TxnOK
<1>8. AloneOK(op)'
    <2>1. \A u \in Txn : journal'[u].prop = journal[u].prop
        BY <1>1
    <2> QED
        BY <1>0, <1>2, <1>3, <1>5, <2>1 DEF OpOK, AloneOK, OtherLabel
<1>9. TodoOK(op)'
    BY <1>0, <1>2, <1>3, <1>5 DEF OpOK, TodoOK, OtherLabel
<1> QED
    BY <1>1, <1>4, <1>6, <1>7, <1>8, <1>9 DEF ProposalInv, OpOK

\* The journal of a rejection gets its next phase.
LEMMA RejectPhaseKeeps ==
    ASSUME ProposalInv, ProposalTypeOK', doomed' \subseteq Exposed, op.pc \in RejectLabel,
           NEW phase \in Phase \ {"unused"}, SetPhase(op.txn, phase),
           \/ \E label \in RejectLabel : op' = [op EXCEPT !.pc = label]
           \/ op' = NoOp
           \/ op'.pc = "read" /\ op'.kind \in Kind /\ op'.prop \in Proposal
    PROVE  ProposalInv'
<1>t. op.txn \in Txn
    BY DEF ProposalInv, OpOK, TxnOK
<1>p. PICK t \in Txn : t = op.txn
    BY <1>t
<1>0. /\ OpOK(op) /\ op \in Op /\ JournalsOK /\ t \in Txn
      /\ journal[t].kind = "reject" /\ journal[t].phase # "unused"
      /\ SetPhase(t, phase) /\ t = op.txn
    BY <1>p DEF ProposalInv, ProposalTypeOK, OpOK, TxnOK
<1>1. /\ JournalsOK'
      /\ \A u \in Txn \ {t} : journal'[u] = journal[u]
      /\ journal'[t].phase = phase
      /\ journal'[t].kind = journal[t].kind /\ journal'[t].prop = journal[t].prop
    BY <1>0, SetPhaseJournals
<1>2. \A u \in Txn : (FileTxn(u)' <=> FileTxn(u)) /\ (Irreversible(u)' <=> Irreversible(u))
    <2>1. ~FileTxn(t) /\ ~FileTxn(t)'
        BY <1>0, <1>1 DEF FileTxn
    <2>2. ASSUME NEW u \in Txn \ {t}
          PROVE  (FileTxn(u)' <=> FileTxn(u)) /\ (Irreversible(u)' <=> Irreversible(u))
        BY <1>1 DEF FileTxn, Live, Irreversible
    <2> QED
        BY <2>1, <2>2 DEF Irreversible
<1>3. OneIrreversible'
    <2>1. \A u \in Txn : journal'[u].prop = journal[u].prop
        BY <1>1
    <2> QED
        BY <1>2, <2>1 DEF ProposalInv, OneIrreversible
<1>4. OpOK(op)'
    <2>1. ASSUME NEW label \in RejectLabel, op' = [op EXCEPT !.pc = label]
          PROVE  OpOK(op)'
        <3>1. /\ op'.pc = label /\ op'.kind = op.kind /\ op'.prop = op.prop /\ op'.txn = t
            BY <1>0, <2>1, LabelsAreAll, GotoType
        <3>2. op.pc # "idle" /\ label \notin FileLabel /\ label \notin OtherLabel /\ label # "idle"
            BY LabelsAreAll
        <3>3. ReadOK(op)'
            BY <1>0, <3>1, <3>2 DEF OpOK, ReadOK, OtherLabel
        <3>4. TxnOK(op)'
            BY <1>0, <1>1, <3>1, <3>2, LabelsAreAll DEF TxnOK
        <3>5. AloneOK(op)' /\ TodoOK(op)'
            BY <3>1, <3>2, LabelsAreAll DEF AloneOK, TodoOK, OtherLabel
        <3> QED
            BY <3>3, <3>4, <3>5 DEF OpOK
    <2>2. ASSUME op'.pc \in {"idle", "read"}, op'.pc = "idle" \/ (op'.kind \in Kind /\ op'.prop \in Proposal)
          PROVE  OpOK(op)'
        <3>1. op'.pc \notin FileLabel /\ op'.pc \notin RejectLabel
            BY <2>2 DEF FileLabel, RejectLabel, OwnLabel, UndoLabel, ForwardLabel
        <3>2. op'.pc \notin {"rejects", "repair", "recover", "check", "prepare"}
            BY <2>2
        <3> QED
            BY <2>2, <3>1, <3>2, LabelsAreAll DEF OpOK, ReadOK, TxnOK, AloneOK, TodoOK
    <2>3. NoOp.pc = "idle"
        BY DEF NoOp
    <2> QED
        BY <2>1, <2>2, <2>3
<1> QED
    BY <1>1, <1>3, <1>4 DEF ProposalInv

-----------------------------------------------------------------------------
(* The fields.                                                             *)

\* What the type invariant says of everything but the operation and the journals.
FieldsOK ==
    /\ asset \in [content: MaybeContent, txn: Txn \cup {None}]
    /\ row \in [Proposal -> Row]
    /\ publish \subseteq Txn
    /\ displaced \in [Txn -> MaybeContent]
    /\ events \subseteq Txn
    /\ doomed \subseteq Proposal
    /\ saved \in MaybeContent
    /\ crashes \in 0..MaxCrashes
    /\ edits \in 0..MaxEdits

\* A row that takes a status, or the backup of a journal too, is still a row.
LEMMA RowTypes ==
    ASSUME NEW r \in Row, NEW status \in {"pending", "accepted", "rejected", "reverted"},
           NEW backup \in MaybeContent
    PROVE  [r EXCEPT !.status = status] \in Row /\ [r EXCEPT !.status = status, !.backup = backup] \in Row
BY DEF Row

\* What is written into a row is a row.
LEMMA PersistedType ==
    ASSUME ProposalInv, op.pc \in FileLabel, NEW r \in Row, Persisted(r) # None
    PROVE  Persisted(r) \in Row /\ OfOp.prop \in Proposal /\ OfOp.kind \in {"accept", "revert"}
<1>1. op.txn \in Txn /\ OfOp.phase # "unused"
    BY DEF ProposalInv, OpOK, TxnOK, FileTxn, Live, OfOp
<1>2. OfOp.backup \in MaybeContent /\ OfOp.prop \in Proposal
    BY <1>1 DEF ProposalInv, JournalsOK, Journal, OfOp
<1>3. OfOp.kind \in {"accept", "revert"}
    BY DEF Persisted
<1>4. Persisted(r) \in Row
    BY <1>2, <1>3, RowTypes DEF Persisted
<1> QED
    BY <1>2, <1>3, <1>4

\* The labels at which the steps of an operation are taken.
FileStep ==
    \/ StagePublish \/ Displace \/ VerifyDisplaced \/ LinkPublished
    \/ InspectAsset \/ UnlinkPublished \/ RestoreDisplaced \/ Scrub
    \/ ValidatePublished \/ CleanPublication \/ PublishGit \/ ServiceFails \/ PersistState
    \/ PersistEvent
PhaseStep ==
    AdvancePublished \/ AdvancePersisted \/ FinalizeIndex \/ AdvanceEvented \/ Settle
RejectStep ==
    DecideReject \/ ArchiveRejected \/ AdvanceArchived \/ AnnounceReject \/ AdvanceAnnounced \/ DisposeReject
OtherStep ==
    RecoverReject \/ ReadProposal \/ PersistRepair \/ ListJournals \/ RecoverNext \/ ReadState \/ Prepare

\* The steps on files, rows and events leave the journals alone.
LEMMA FileStepFields ==
    ASSUME ProposalInv, FileStep
    PROVE  FieldsOK' /\ op.pc \in FileLabel /\ doomed' = doomed /\ journal' = journal
<1>0. FieldsOK
    BY DEF ProposalInv, ProposalTypeOK, FieldsOK
<1>1. op.pc \in FileLabel
    BY DEF FileStep, StagePublish, Displace, VerifyDisplaced, LinkPublished, InspectAsset,
           UnlinkPublished, RestoreDisplaced, Scrub, ValidatePublished, CleanPublication, PublishGit,
           ServiceFails, PersistState, PersistEvent, At, FileLabel, OwnLabel, UndoLabel, ForwardLabel
<1>2. op.txn \in Txn /\ OfOp \in Journal
    BY <1>1 DEF ProposalInv, OpOK, TxnOK, JournalsOK, OfOp
<1>3. doomed' = doomed /\ journal' = journal /\ saved' = saved /\ crashes' = crashes /\ edits' = edits
    BY DEF FileStep, StagePublish, Displace, VerifyDisplaced, LinkPublished, InspectAsset,
           UnlinkPublished, RestoreDisplaced, Scrub, ValidatePublished, CleanPublication, PublishGit,
           ServiceFails, PersistState, PersistEvent, faultVars
<1>4. NoFile \in [content: MaybeContent, txn: Txn \cup {None}] /\ None \in MaybeContent
    BY DEF NoFile, MaybeContent
<1>5. asset' \in [content: MaybeContent, txn: Txn \cup {None}]
    <2>1. VerifyDisplaced \/ LinkPublished \/ UnlinkPublished \/ RestoreDisplaced \/ Displace
            => asset' \in [content: MaybeContent, txn: Txn \cup {None}]
        BY <1>0, <1>2, <1>4 DEF FieldsOK, VerifyDisplaced, LinkPublished, UnlinkPublished,
                                RestoreDisplaced, Displace, Journal
    <2>2. ~(VerifyDisplaced \/ LinkPublished \/ UnlinkPublished \/ RestoreDisplaced \/ Displace)
            => asset' = asset
        BY DEF FileStep, StagePublish, InspectAsset, Scrub, ValidatePublished, CleanPublication,
               PublishGit, ServiceFails, PersistState, PersistEvent, fileVars
    <2> QED
        BY <1>0, <2>1, <2>2 DEF FieldsOK
<1>6. publish' \subseteq Txn /\ displaced' \in [Txn -> MaybeContent]
    <2>1. StagePublish \/ Scrub \/ CleanPublication
            => publish' \subseteq Txn /\ displaced' \in [Txn -> MaybeContent]
        BY <1>0, <1>2, <1>4 DEF FieldsOK, StagePublish, Scrub, CleanPublication
    <2>2. Displace \/ VerifyDisplaced
            => publish' \subseteq Txn /\ displaced' \in [Txn -> MaybeContent]
        BY <1>0, <1>2, <1>4 DEF FieldsOK, Displace, VerifyDisplaced
    <2>3. ~(StagePublish \/ Scrub \/ CleanPublication \/ Displace \/ VerifyDisplaced)
            => publish' = publish /\ displaced' = displaced
        BY DEF FileStep, LinkPublished, InspectAsset, UnlinkPublished, RestoreDisplaced,
               ValidatePublished, PublishGit, ServiceFails, PersistState, PersistEvent, fileVars
    <2> QED
        BY <1>0, <2>1, <2>2, <2>3 DEF FieldsOK
<1>7. row' \in [Proposal -> Row]
    <2>1. PersistState => row' \in [Proposal -> Row]
        <3> SUFFICES ASSUME PersistState, row' # row
                     PROVE  row' \in [Proposal -> Row]
            BY <1>0 DEF FieldsOK
        <3> DEFINE p == OfOp.prop
        <3>1. Persisted(row[p]) # None /\ row' = [row EXCEPT ![p] = Persisted(row[p])]
            BY DEF PersistState
        <3>2. p \in Proposal
            BY <1>2, <1>1 DEF ProposalInv, OpOK, TxnOK, FileTxn, Live, JournalsOK, OfOp
        <3>3. row[p] \in Row
            BY <1>0, <3>2 DEF FieldsOK
        <3> HIDE DEF p
        <3>4. Persisted(row[p]) \in Row
            BY <1>1, <3>1, <3>3, PersistedType
        <3> QED
            BY <1>0, <3>1, <3>4 DEF FieldsOK
    <2>2. ~PersistState => row' = row
        BY DEF FileStep, StagePublish, Displace, VerifyDisplaced, LinkPublished, InspectAsset,
               UnlinkPublished, RestoreDisplaced, Scrub, ValidatePublished, CleanPublication,
               PublishGit, ServiceFails, PersistEvent, rowVars
    <2> QED
        BY <1>0, <2>1, <2>2 DEF FieldsOK
<1>8. events' \subseteq Txn
    <2>1. ~PersistEvent => events' = events
        BY DEF FileStep, StagePublish, Displace, VerifyDisplaced, LinkPublished, InspectAsset,
               UnlinkPublished, RestoreDisplaced, Scrub, ValidatePublished, CleanPublication,
               PublishGit, ServiceFails, PersistState, rowVars
    <2> QED
        BY <1>0, <1>2, <2>1 DEF FieldsOK, PersistEvent
<1> QED
    BY <1>0, <1>1, <1>3, <1>5, <1>6, <1>7, <1>8 DEF FieldsOK

\* A step on the files, or on the row or event of a file transaction.
LEMMA FileStepKeeps ==
    ASSUME ProposalInv, FileStep
    PROVE  ProposalInv'
<1>0. op \in Op /\ OpOK(op) /\ JournalsOK
    BY DEF ProposalInv, ProposalTypeOK
<1>1. FieldsOK' /\ op.pc \in FileLabel /\ doomed' = doomed /\ journal' = journal
    BY FileStepFields
<1>2. FileTxn(op.txn) /\ (op.pc \in OwnLabel => op.own) /\ (op.pc \in ForwardLabel => Irreversible(op.txn))
    BY <1>0, <1>1, LabelsAreAll DEF OpOK, TxnOK, AloneOK
<1>3. \/ op' = NoOp
      \/ \E label \in FileLabel \ (OwnLabel \cup ForwardLabel) : Goto(label)
      \/ op.pc \in OwnLabel /\ \E label \in OwnLabel : Goto(label)
      \/ Irreversible(op.txn) /\ \E label \in ForwardLabel : Goto(label)
    <2>1. CASE StagePublish \/ Displace \/ VerifyDisplaced \/ LinkPublished
        BY <2>1 DEF StagePublish, Displace, VerifyDisplaced, LinkPublished, At, OwnLabel, FileLabel,
                    UndoLabel, ForwardLabel
    <2>2. CASE InspectAsset \/ UnlinkPublished \/ RestoreDisplaced \/ Scrub
        <3>1. \/ Done
              \/ Goto("unlink") \/ Goto("scrub") \/ Goto("restore") \/ Goto("remove")
            BY <2>2 DEF InspectAsset, UnlinkPublished, RestoreDisplaced, Scrub
        <3>2. {"unlink", "scrub", "restore", "remove"} \subseteq FileLabel \ (OwnLabel \cup ForwardLabel)
            BY DEF OwnLabel, FileLabel, UndoLabel, ForwardLabel
        <3> QED
            BY <3>1, <3>2 DEF Done
    <2>3. CASE \/ ValidatePublished \/ CleanPublication \/ PublishGit \/ ServiceFails \/ PersistState
               \/ PersistEvent
        <3>1. /\ op.pc \in {"validate", "clean", "git", "index", "persist", "event"}
              /\ \/ Done
                 \/ \E label \in {"clean", "git", "index", "event", "settle", "persist", "persisted",
                                  "evented"} : Goto(label)
            BY <2>3 DEF ValidatePublished, CleanPublication, PublishGit, ServiceFails, PersistState,
                        PersistEvent, At
        <3>2. /\ {"clean", "git", "index", "event", "settle", "persist", "persisted", "evented"} \subseteq ForwardLabel
              /\ op.pc \in ForwardLabel
            BY <3>1 DEF ForwardLabel
        <3> QED
            BY <1>2, <3>1, <3>2 DEF Done
    <2> QED
        BY <2>1, <2>2, <2>3 DEF FileStep
<1>4. op' \in Op /\ OpOK(op')
    BY <1>0, <1>1, <1>2, <1>3, GotoFile, IdleIsOK, LabelsAreAll DEF Goto
<1>5. op'.pc # "repair"
    <2>1. "repair" \notin FileLabel
        BY DEF OwnLabel, FileLabel, UndoLabel, ForwardLabel
    <2>2. ASSUME NEW label \in FileLabel, Goto(label)
          PROVE  op'.pc \in FileLabel
        BY <1>0, <2>2, GotoType, LabelsAreAll DEF Goto
    <2> QED
        BY <1>3, <2>1, <2>2, LabelsAreAll DEF NoOp
<1>6. ProposalTypeOK'
    BY <1>0, <1>1, <1>4 DEF FieldsOK, ProposalTypeOK, JournalsOK
<1> QED
    BY <1>1, <1>4, <1>5, <1>6, QuietKeeps DEF ProposalInv

\* A step that records a phase.
LEMMA PhaseStepKeeps ==
    ASSUME ProposalInv, PhaseStep
    PROVE  ProposalInv'
<1>0. op \in Op /\ OpOK(op) /\ JournalsOK /\ FieldsOK
    BY DEF ProposalInv, ProposalTypeOK, FieldsOK
<1>1. PICK phase \in {"asset-published", "proposal-persisted", "index-finalized", "event-finalized",
                      "committed"},
           label \in {"validate", "index", "event", "settle", "remove"} :
        /\ SetPhase(op.txn, phase) /\ Goto(label)
        /\ phase = "committed" => label = "remove"
    BY DEF PhaseStep, AdvancePublished, AdvancePersisted, FinalizeIndex, AdvanceEvented, Settle
<1>2. op.pc = "committing" \/ op.pc \in ForwardLabel
    BY DEF PhaseStep, AdvancePublished, AdvancePersisted, FinalizeIndex, AdvanceEvented, Settle, At,
           ForwardLabel
<1>3. op.pc \in FileLabel /\ (Irreversible(op.txn) \/ op.own)
    <2>1. "committing" \in OwnLabel
        BY DEF OwnLabel
    <2> QED
        BY <1>0, <1>2, <2>1, LabelsAreAll DEF OpOK, TxnOK, AloneOK
<1>4. label \in FileLabel \ OwnLabel /\ phase \in Phase \ {"unused", "gone", "prepared"}
    BY DEF FileLabel, OwnLabel, ForwardLabel, Phase
<1>5. /\ row' = row /\ events' = events /\ asset' = asset /\ publish' = publish
      /\ displaced' = displaced /\ saved' = saved /\ crashes' = crashes /\ edits' = edits
      /\ doomed' = doomed
    BY DEF PhaseStep, AdvancePublished, AdvancePersisted, FinalizeIndex, AdvanceEvented, Settle,
           rowVars, fileVars, faultVars
<1>6. JournalsOK' /\ op' \in Op
    <2>1. op.txn \in Txn /\ journal[op.txn].phase # "unused"
        BY <1>0, <1>3 DEF OpOK, TxnOK, FileTxn, Live
    <2> QED
        BY <1>0, <1>1, <1>4, <2>1, SetPhaseJournals, GotoType, LabelsAreAll DEF Goto
<1>7. ProposalTypeOK'
    BY <1>0, <1>5, <1>6 DEF FieldsOK, ProposalTypeOK, JournalsOK
<1> QED
    BY <1>1, <1>3, <1>4, <1>5, <1>7, ForwardKeeps DEF ProposalInv

\* The journal of an undone or finished transaction is removed.
LEMMA RemoveKeeps ==
    ASSUME ProposalInv, RemoveJournal
    PROVE  ProposalInv'
<1>0. op \in Op /\ OpOK(op) /\ JournalsOK /\ FieldsOK /\ op.pc = "remove" /\ op.pc \in FileLabel
    BY DEF ProposalInv, ProposalTypeOK, FieldsOK, RemoveJournal, At, FileLabel
<1>t. op.txn \in Txn
    BY <1>0 DEF OpOK, TxnOK
<1>p. PICK t \in Txn : t = op.txn
    BY <1>t
<1>1. /\ JournalsOK'
      /\ \A u \in Txn \ {t} : journal'[u] = journal[u]
      /\ journal'[t].phase = "gone"
      /\ journal'[t].prop = journal[t].prop
    <2>1. journal[t].phase # "unused" /\ SetPhase(t, "gone") /\ "gone" \in Phase
        BY <1>0, <1>p DEF OpOK, TxnOK, FileTxn, Live, RemoveJournal, Phase
    <2> QED
        BY <1>0, <2>1, SetPhaseJournals
<1>2. ~FileTxn(t)' /\ \A u \in Txn \ {t} : (FileTxn(u)' <=> FileTxn(u)) /\ (Irreversible(u)' <=> Irreversible(u))
    BY <1>1 DEF FileTxn, Live, Irreversible
<1>3. OneIrreversible'
    <2>1. ~Irreversible(t)'
        BY <1>2 DEF Irreversible
    <2> QED
        BY <1>1, <1>2, <2>1 DEF ProposalInv, OneIrreversible
<1>4. op' \in Op /\ OpOK(op)'
    <2>1. CASE op' = NoOp
        <3>1. op' \in Op /\ op'.pc = "idle"
            BY <2>1, IdleIsOK DEF NoOp
        <3> QED
            BY <3>1, LabelsAreAll DEF OpOK, ReadOK, TxnOK, AloneOK, TodoOK, OtherLabel
    <2>2. CASE ~op.own /\ op' = [op EXCEPT !.pc = "recover", !.txn = None]
        <3>1. /\ op' \in Op /\ op'.pc = "recover" /\ op'.todo = op.todo
              /\ op'.kind = op.kind /\ op'.prop = op.prop
            BY <1>0, <2>2 DEF Op, Label
        <3>2. \A u \in Txn : FileTxn(u)' <=> u \in op.todo
            BY <1>0, <1>2, <1>p, <2>2 DEF OpOK, TodoOK
        <3>3. op'.pc \notin FileLabel /\ op'.pc \notin RejectLabel /\ op.pc # "idle"
            BY <1>0, <3>1 DEF FileLabel, OwnLabel, UndoLabel, ForwardLabel, RejectLabel
        <3> QED
            BY <1>0, <3>1, <3>2, <3>3, LabelsAreAll DEF OpOK, ReadOK, TxnOK, AloneOK, TodoOK
    <2> QED
        BY <2>1, <2>2 DEF RemoveJournal, Done
<1>5. FieldsOK' /\ doomed' = doomed
    <2>1. /\ row' = row /\ events' = events /\ asset' = asset /\ doomed' = doomed
          /\ saved' = saved /\ crashes' = crashes /\ edits' = edits
        BY DEF RemoveJournal, rowVars, faultVars
    <2>2. publish' \subseteq Txn /\ displaced' \in [Txn -> MaybeContent]
        BY <1>0 DEF RemoveJournal, FieldsOK, MaybeContent
    <2> QED
        BY <1>0, <2>1, <2>2 DEF FieldsOK
<1>6. ProposalTypeOK'
    BY <1>1, <1>4, <1>5 DEF FieldsOK, ProposalTypeOK, JournalsOK
<1> QED
    BY <1>1, <1>3, <1>4, <1>5, <1>6 DEF ProposalInv

\* A rejection, step by step.
LEMMA RejectStepKeeps ==
    ASSUME ProposalInv, RejectStep
    PROVE  ProposalInv'
<1>0. op \in Op /\ OpOK(op) /\ JournalsOK /\ FieldsOK
    BY DEF ProposalInv, ProposalTypeOK, FieldsOK
<1>1. op.pc \in RejectLabel
    BY DEF RejectStep, DecideReject, ArchiveRejected, AdvanceArchived, AnnounceReject,
           AdvanceAnnounced, DisposeReject, At, RejectLabel
<1>2. op.txn \in Txn /\ journal[op.txn].phase # "unused" /\ op.pc # "idle"
    BY <1>0, <1>1, LabelsAreAll DEF OpOK, TxnOK
<1>3. /\ doomed' = doomed /\ asset' = asset /\ publish' = publish /\ displaced' = displaced
      /\ saved' = saved /\ crashes' = crashes /\ edits' = edits
    BY DEF RejectStep, DecideReject, ArchiveRejected, AdvanceArchived, AnnounceReject,
           AdvanceAnnounced, DisposeReject, fileVars, faultVars
<1>4. row' \in [Proposal -> Row] /\ events' \subseteq Txn
    <2>1. ArchiveRejected => row' \in [Proposal -> Row] /\ events' \subseteq Txn
        <3>1. ASSUME NEW p, row' = [row EXCEPT ![p].status = "rejected"]
              PROVE  row' \in [Proposal -> Row]
            <4>1. \A r \in Row : [r EXCEPT !.status = "rejected"] \in Row
                BY DEF Row
            <4> QED
                BY <1>0, <3>1, <4>1 DEF FieldsOK
        <3> QED
            BY <1>0, <3>1 DEF ArchiveRejected, FieldsOK
    <2>2. AnnounceReject => row' \in [Proposal -> Row] /\ events' \subseteq Txn
        BY <1>0, <1>2 DEF AnnounceReject, FieldsOK
    <2>3. ~(ArchiveRejected \/ AnnounceReject) => row' = row /\ events' = events
        BY DEF RejectStep, DecideReject, AdvanceArchived, AdvanceAnnounced, DisposeReject, rowVars
    <2> QED
        BY <1>0, <2>1, <2>2, <2>3 DEF FieldsOK
<1>5. FieldsOK'
    BY <1>0, <1>3, <1>4 DEF FieldsOK
<1>6. CASE DecideReject \/ ArchiveRejected \/ AnnounceReject
    <2>1. journal' = journal /\ (op' = NoOp \/ \E label \in RejectLabel : Goto(label))
        BY <1>6 DEF DecideReject, ArchiveRejected, AnnounceReject, Done, RejectLabel
    <2>2. op' \in Op /\ OpOK(op')
        BY <1>0, <1>1, <2>1, GotoReject, IdleIsOK DEF Goto
    <2>3. op'.pc # "repair"
        <3>1. "repair" \notin RejectLabel
            BY DEF RejectLabel
        <3>2. ASSUME NEW label \in RejectLabel, Goto(label)
              PROVE  op'.pc = label
            BY <1>0, <3>2, GotoType, LabelsAreAll DEF Goto
        <3> QED
            BY <2>1, <3>1, <3>2 DEF NoOp
    <2>4. ProposalTypeOK'
        BY <1>0, <1>5, <2>1, <2>2 DEF FieldsOK, ProposalTypeOK, JournalsOK
    <2> QED
        BY <1>3, <2>1, <2>2, <2>3, <2>4, QuietKeeps DEF ProposalInv
<1>7. CASE AdvanceArchived \/ AdvanceAnnounced \/ DisposeReject
    <2>1. PICK phase \in {"state-persisted", "event-finalized", "committed", "gone"} :
            SetPhase(op.txn, phase)
        BY <1>7 DEF AdvanceArchived, AdvanceAnnounced, DisposeReject
    <2>2. \/ \E label \in RejectLabel : op' = [op EXCEPT !.pc = label]
          \/ op' = NoOp
          \/ op' = [op EXCEPT !.pc = "read", !.txn = None]
        <3>1. CASE AdvanceArchived \/ AdvanceAnnounced
            BY <3>1 DEF AdvanceArchived, AdvanceAnnounced, Goto, RejectLabel
        <3>2. CASE DisposeReject
            <4>1. op' = op => op' = [op EXCEPT !.pc = op.pc]
                BY <1>0 DEF Op
            <4> QED
                BY <1>1, <3>2, <4>1 DEF DisposeReject, Done
        <3> QED
            BY <1>7, <3>1, <3>2
    <2>3. ASSUME op' = [op EXCEPT !.pc = "read", !.txn = None]
          PROVE  op' \in Op /\ op'.pc = "read" /\ op'.kind \in Kind /\ op'.prop \in Proposal
        <3>1. op.kind \in Kind /\ op.prop \in Proposal
            BY <1>0, <1>2 DEF OpOK, ReadOK
        <3> QED
            BY <1>0, <2>3, <3>1 DEF Op, Label
    <2>4. op' \in Op
        BY <1>0, <2>2, <2>3, GotoType, IdleIsOK, LabelsAreAll
    <2>5. phase \in Phase \ {"unused"}
        BY DEF Phase
    <2>6. JournalsOK'
        BY <1>0, <1>2, <2>1, <2>5, SetPhaseJournals
    <2>7. ProposalTypeOK'
        BY <1>5, <2>4, <2>6 DEF FieldsOK, ProposalTypeOK, JournalsOK
    <2> QED
        BY <1>1, <1>3, <2>1, <2>2, <2>3, <2>5, <2>7, RejectPhaseKeeps DEF ProposalInv
<1> QED
    BY <1>6, <1>7 DEF RejectStep

-----------------------------------------------------------------------------
(* The way to a transaction.                                               *)

\* At a label without a transaction, little is known.
LEMMA OtherIsOK ==
    ASSUME NEW m \in Op, m.pc \in OtherLabel, m.kind \in Kind, m.prop \in Proposal, ReadOK(m),
           m.pc = "recover" => \A t \in Txn : FileTxn(t) <=> t \in m.todo,
           m.pc \in {"check", "prepare"} /\ m.kind # "reject" =>
                \A t \in Txn : FileTxn(t) => journal[t].prop # m.prop
    PROVE  OpOK(m)
<1>1. m.pc \notin FileLabel /\ m.pc \notin RejectLabel /\ m.pc \notin OwnLabel /\ m.pc \notin ForwardLabel
    BY LabelsAreAll
<1> QED
    BY <1>1 DEF OpOK, TxnOK, AloneOK, TodoOK

\* The steps on the way to a transaction.
LEMMA OtherStepKeeps ==
    ASSUME ProposalInv, \/ RecoverReject \/ ReadProposal \/ PersistRepair \/ ListJournals
                        \/ RecoverNext \/ ReadState
    PROVE  ProposalInv'
<1>0. op \in Op /\ OpOK(op) /\ JournalsOK /\ FieldsOK
    BY DEF ProposalInv, ProposalTypeOK, FieldsOK
<1>1. /\ op.pc \in {"rejects", "read", "repair", "list", "recover", "check"}
      /\ op.kind \in Kind /\ op.prop \in Proposal
    BY <1>0 DEF RecoverReject, ReadProposal, PersistRepair, ListJournals, RecoverNext, ReadState, At,
                OpOK, ReadOK
<1>2. /\ journal' = journal /\ doomed' = doomed /\ asset' = asset /\ publish' = publish
      /\ displaced' = displaced /\ events' = events
      /\ saved' = saved /\ crashes' = crashes /\ edits' = edits
    BY DEF RecoverReject, ReadProposal, PersistRepair, ListJournals, RecoverNext, ReadState,
           fileVars, faultVars, rowVars
<1>3. row' = row \/ (PersistRepair /\ row' \in [Proposal -> Row])
    <2>1. PersistRepair => row' \in [Proposal -> Row]
        BY <1>0, <1>1 DEF PersistRepair, At, OpOK, ReadOK, FieldsOK
    <2> QED
        BY <2>1 DEF RecoverReject, ReadProposal, ListJournals, RecoverNext, ReadState, rowVars
<1>4. FieldsOK'
    BY <1>0, <1>2, <1>3 DEF FieldsOK
<1>5. ASSUME NEW label \in {"read", "list", "rejects", "check"}, Goto(label),
             label = "rejects" => op.kind # "revert",
             label = "check" /\ op.kind # "reject" =>
                \A t \in Txn : FileTxn(t) => journal[t].prop # op.prop
      PROVE  op' \in Op /\ OpOK(op') /\ op'.pc = label
    <2>0. label \in Label
        BY DEF Label
    <2>1. /\ op' \in Op /\ op'.pc = label /\ op'.kind = op.kind /\ op'.prop = op.prop
        BY <1>0, <1>5, <2>0, GotoType DEF Goto
    <2>2. label \in OtherLabel
        BY DEF OtherLabel
    <2>3. ReadOK(op')
        BY <1>1, <1>5, <2>1 DEF ReadOK
    <2> QED
        BY <1>1, <1>5, <2>1, <2>2, <2>3, OtherIsOK
<1>6. ASSUME op' = NoOp
      PROVE  op' \in Op /\ OpOK(op') /\ op'.pc = "idle"
    BY <1>6, IdleIsOK DEF NoOp
<1>7. /\ op' \in Op /\ OpOK(op')
      /\ op'.pc = "repair" => row' = row
    <2>1. CASE RecoverReject
        <3>1. op.pc = "rejects" /\ op.kind # "revert" /\ row' = row
            BY <1>0, <2>1 DEF RecoverReject, At, OpOK, ReadOK, rowVars
        <3>2. CASE Goto(IF op.kind = "accept" THEN "read" ELSE "check")
            BY <1>1, <1>5, <3>1, <3>2 DEF Kind
        <3>3. ASSUME NEW t \in RejectJournals(op.prop),
                     NEW label \in {"decide", "announce", "dispose"},
                     op' = [op EXCEPT !.txn = t, !.own = FALSE, !.pc = label]
              PROVE  op' \in Op /\ OpOK(op')
            <4>1. t \in Txn /\ journal[t].kind = "reject" /\ journal[t].phase # "unused"
                BY DEF RejectJournals, Live
            <4>2. /\ op' \in Op /\ op'.pc = label /\ op'.txn = t /\ op'.kind = op.kind /\ op'.prop = op.prop
                BY <1>0, <3>3, <4>1 DEF Op, Label
            <4>3. /\ label \in RejectLabel /\ label \notin FileLabel /\ label \notin OtherLabel
                  /\ label \notin OwnLabel /\ label \notin ForwardLabel
                BY LabelsAreAll DEF RejectLabel
            <4> QED
                BY <1>1, <4>1, <4>2, <4>3 DEF OpOK, ReadOK, TxnOK, AloneOK, TodoOK, OtherLabel
        <3> QED
            BY <2>1, <3>1, <3>2, <3>3 DEF RecoverReject
    <2>2. CASE ReadProposal
        <3>1. CASE op' = [op EXCEPT !.read = row[op.prop], !.pc = "repair"]
            <4>1. row[op.prop] \in Row /\ row' = row
                BY <1>0, <1>1, <2>2 DEF FieldsOK, ReadProposal, rowVars
            <4>2. /\ op' \in Op /\ op'.pc = "repair" /\ op'.read = row[op.prop]
                  /\ op'.kind = op.kind /\ op'.prop = op.prop
                BY <1>0, <3>1, <4>1 DEF Op, Label
            <4>3. ReadOK(op')
                BY <1>1, <4>1, <4>2 DEF ReadOK
            <4>4. op'.pc \in OtherLabel
                BY <4>2 DEF OtherLabel
            <4> QED
                BY <1>1, <4>1, <4>2, <4>3, <4>4, OtherIsOK
        <3>2. CASE Goto("list")
            BY <1>5, <3>2
        <3>3. CASE Done
            BY <1>6, <3>3 DEF Done
        <3> QED
            BY <2>2, <3>1, <3>2, <3>3 DEF ReadProposal
    <2>3. CASE PersistRepair
        <3>1. op' = [op EXCEPT !.read = None, !.pc = "list"]
            BY <2>3 DEF PersistRepair
        <3>2. /\ op' \in Op /\ op'.pc = "list" /\ op'.kind = op.kind /\ op'.prop = op.prop
            BY <1>0, <3>1 DEF Op, Label
        <3>3. ReadOK(op') /\ op'.pc \in OtherLabel
            BY <1>1, <3>2 DEF ReadOK, OtherLabel
        <3> QED
            BY <1>1, <3>2, <3>3, OtherIsOK
    <2>4. ASSUME Goto(AfterRecovery),
                 op.kind # "reject" => \A t \in Txn : FileTxn(t) => journal[t].prop # op.prop
          PROVE  op' \in Op /\ OpOK(op') /\ op'.pc # "repair"
        BY <1>5, <2>4 DEF AfterRecovery
    <2>5. CASE ListJournals
        <3> DEFINE mine == {t \in Txn : FileTxn(t) /\ journal[t].prop = op.prop}
        <3>1. CASE Done
            BY <1>6, <3>1 DEF Done
        <3>2. CASE mine = {} /\ Goto(AfterRecovery)
            <4>1. \A t \in Txn : FileTxn(t) => journal[t].prop # op.prop
                BY <3>2
            <4> HIDE DEF mine
            <4> QED
                BY <2>4, <3>2, <4>1
        <3>3. CASE op' = [op EXCEPT !.pc = "recover", !.todo = {t \in Txn : FileTxn(t)}]
            <4> DEFINE all == {t \in Txn : FileTxn(t)}
            <4>1. all \in SUBSET Txn /\ \A t \in Txn : FileTxn(t) <=> t \in all
                OBVIOUS
            <4> HIDE DEF all
            <4>2. op' = [op EXCEPT !.pc = "recover", !.todo = all]
                BY <3>3 DEF all
            <4>3. /\ op' \in Op /\ op'.pc = "recover" /\ op'.todo = all
                  /\ op'.kind = op.kind /\ op'.prop = op.prop
                BY <1>0, <4>1, <4>2 DEF Op, Label
            <4>4. ReadOK(op') /\ op'.pc \in OtherLabel
                BY <1>1, <4>3 DEF ReadOK, OtherLabel
            <4> QED
                BY <1>1, <4>1, <4>3, <4>4, OtherIsOK
        <3> HIDE DEF mine
        <3>4. \/ Done \/ (mine = {} /\ Goto(AfterRecovery))
              \/ op' = [op EXCEPT !.pc = "recover", !.todo = {t \in Txn : FileTxn(t)}]
            BY <2>5 DEF ListJournals, mine
        <3>5. row' = row
            BY <2>5 DEF ListJournals, rowVars
        <3> QED
            BY <3>1, <3>2, <3>3, <3>4, <3>5
    <2>6. CASE RecoverNext
        <3>0. op.pc = "recover" /\ \A t \in Txn : FileTxn(t) <=> t \in op.todo
            BY <1>0, <2>6 DEF RecoverNext, At, OpOK, TodoOK
        <3>1. CASE op.todo = {} /\ Goto(AfterRecovery)
            BY <2>4, <3>0, <3>1
        <3>2. ASSUME NEW t \in op.todo,
                     op' = [op EXCEPT !.txn = t, !.own = FALSE, !.todo = @ \ {t}, !.pc = Direction(t)]
              PROVE  op' \in Op /\ OpOK(op') /\ op'.pc # "repair"
            <4> DEFINE label == Direction(t)
            <4>1. t \in Txn /\ FileTxn(t)
                BY <1>0, <3>0 DEF Op
            <4>2. /\ label \in {"inspect", "remove", "validate"}
                  /\ label = "validate" => Irreversible(t)
                BY <4>1 DEF Direction, Irreversible
            <4>3. op' = [op EXCEPT !.txn = t, !.own = FALSE, !.todo = @ \ {t}, !.pc = label]
                BY <3>2
            <4> HIDE DEF label
            <4>4. /\ op' \in Op /\ op'.pc = label /\ op'.txn = t /\ op'.own = FALSE
                  /\ op'.todo = op.todo \ {t} /\ op'.kind = op.kind /\ op'.prop = op.prop
                BY <1>0, <4>1, <4>2, <4>3 DEF Op, Label
            <4>5. /\ label \in FileLabel /\ label \notin RejectLabel /\ label \notin OtherLabel
                  /\ label \notin OwnLabel /\ (label \in ForwardLabel => label = "validate") /\ label # "idle"
                BY <4>2 DEF FileLabel, RejectLabel, OtherLabel, OwnLabel, UndoLabel, ForwardLabel
            <4>6. ReadOK(op') /\ op'.pc # "repair"
                BY <1>1, <4>4, <4>5 DEF ReadOK, OtherLabel
            <4>7. TxnOK(op')
                BY <4>1, <4>2, <4>4, <4>5 DEF TxnOK
            <4>8. AloneOK(op') /\ TodoOK(op')
                BY <3>0, <4>4, <4>5 DEF AloneOK, TodoOK, OtherLabel
            <4> QED
                BY <4>4, <4>6, <4>7, <4>8 DEF OpOK
        <3> QED
            BY <2>6, <3>1, <3>2 DEF RecoverNext
    <2>7. CASE ReadState
        <3>1. CASE Done
            BY <1>6, <3>1 DEF Done
        <3>2. CASE op' = [op EXCEPT !.pc = "prepare", !.read = row[op.prop], !.found = asset.content] /\ Unused # {}
            <4>1. row[op.prop] \in Row /\ asset.content \in MaybeContent
                BY <1>0, <1>1 DEF FieldsOK
            <4>2. /\ op' \in Op /\ op'.pc = "prepare" /\ op'.read = row[op.prop]
                  /\ op'.kind = op.kind /\ op'.prop = op.prop
                BY <1>0, <3>2, <4>1 DEF Op, Label
            <4>3. ReadOK(op') /\ op'.pc \in OtherLabel
                BY <1>1, <3>2, <4>1, <4>2 DEF ReadOK, OtherLabel
            <4>4. op.kind # "reject" => \A t \in Txn : FileTxn(t) => journal[t].prop # op.prop
                BY <1>0, <2>7 DEF ReadState, At, OpOK, AloneOK
            <4> QED
                BY <1>1, <4>2, <4>3, <4>4, OtherIsOK
        <3> QED
            BY <2>7, <3>1, <3>2 DEF ReadState
    <2> QED
        BY <1>3, <2>1, <2>2, <2>3, <2>5, <2>6, <2>7 DEF ReadProposal, PersistRepair, rowVars
<1>8. ProposalTypeOK'
    BY <1>0, <1>2, <1>4, <1>7 DEF FieldsOK, ProposalTypeOK, JournalsOK
<1> QED
    BY <1>2, <1>7, <1>8, QuietKeeps DEF ProposalInv

\* A transaction is begun.
LEMMA PrepareKeeps ==
    ASSUME ProposalInv, Prepare
    PROVE  ProposalInv'
<1>0. op \in Op /\ OpOK(op) /\ JournalsOK /\ FieldsOK /\ op.pc = "prepare"
    BY DEF ProposalInv, ProposalTypeOK, FieldsOK, Prepare, At
<1>1. op.kind \in Kind /\ op.prop \in Proposal /\ op.read \in Row /\ Unused # {}
    BY <1>0 DEF OpOK, ReadOK
<1>2. PICK t \in Txn : t = (CHOOSE u \in Unused : TRUE) /\ journal[t].phase = "unused"
    <2> DEFINE c == CHOOSE u \in Unused : TRUE
    <2>1. c \in Unused
        BY <1>1
    <2> HIDE DEF c
    <2>2. c \in Txn /\ journal[c].phase = "unused"
        BY <2>1 DEF Unused
    <2> QED
        BY <2>2 DEF c
<1> DEFINE j == [phase |-> "prepared", kind |-> op.kind, prop |-> op.prop,
                 original |-> IF op.kind = "reject" THEN None ELSE op.found,
                 published |-> CASE op.kind = "accept" -> op.prop
                                 [] op.kind = "revert" -> op.read.backup
                                 [] op.kind = "reject" -> None,
                 backup |-> IF op.kind = "accept" THEN op.found ELSE None]
           label == IF op.kind = "reject" THEN "decide" ELSE "stage"
<1>3. /\ journal' = [journal EXCEPT ![t] = j]
      /\ op' = [op EXCEPT !.txn = t, !.own = TRUE, !.read = None, !.found = None, !.pc = label]
    BY <1>2 DEF Prepare
<1>4. j \in Journal /\ j.phase = "prepared" /\ j.kind = op.kind /\ j.prop = op.prop
    <2>1. op.found \in MaybeContent /\ None \in MaybeContent /\ op.prop \in MaybeContent
        BY <1>0, <1>1 DEF Op, MaybeContent, Content
    <2>2. op.read.backup \in MaybeContent
        BY <1>1 DEF Row
    <2>3. j.published \in MaybeContent
        BY <1>1, <2>1, <2>2 DEF Kind
    <2> QED
        BY <1>1, <2>1, <2>3 DEF Journal, Phase
<1> HIDE DEF j
<1>5. /\ JournalsOK' /\ journal'[t] = j
      /\ \A u \in Txn \ {t} : journal'[u] = journal[u]
    BY <1>0, <1>1, <1>3, <1>4 DEF JournalsOK
<1>6. label \in {"decide", "stage"} /\ (label = "decide" <=> op.kind = "reject")
    OBVIOUS
<1> HIDE DEF label
<1>7. /\ op' \in Op /\ op'.pc = label /\ op'.txn = t /\ op'.own = TRUE
      /\ op'.kind = op.kind /\ op'.prop = op.prop
    BY <1>0, <1>3, <1>6 DEF Op, Label, MaybeContent
<1>8. /\ FileTxn(t)' <=> label = "stage"
      /\ ~FileTxn(t) /\ ~Irreversible(t) /\ ~Irreversible(t)'
      /\ \A u \in Txn \ {t} : (FileTxn(u)' <=> FileTxn(u)) /\ (Irreversible(u)' <=> Irreversible(u))
    BY <1>2, <1>4, <1>5, <1>6 DEF FileTxn, Live, Irreversible
<1>9. OneIrreversible'
    BY <1>5, <1>8 DEF ProposalInv, OneIrreversible
<1>10. OpOK(op)'
    <2>1. /\ label \notin ForwardLabel /\ label \notin OtherLabel /\ label # "idle"
          /\ (label \in FileLabel <=> label = "stage") /\ (label \in RejectLabel <=> label = "decide")
        BY <1>6 DEF FileLabel, RejectLabel, OtherLabel, OwnLabel, UndoLabel, ForwardLabel
    <2>2. ReadOK(op)'
        BY <1>1, <1>7, <2>1 DEF ReadOK, OtherLabel
    <2>3. TxnOK(op)'
        BY <1>4, <1>5, <1>6, <1>7, <1>8, <2>1 DEF TxnOK
    <2>4. AloneOK(op)'
        <3>1. op.kind # "reject" => \A u \in Txn : FileTxn(u) => journal[u].prop # op.prop
            BY <1>0 DEF OpOK, AloneOK
        <3> QED
            BY <1>4, <1>5, <1>6, <1>7, <1>8, <2>1, <3>1 DEF AloneOK, OtherLabel
    <2>5. TodoOK(op)'
        BY <1>7, <2>1 DEF TodoOK, OtherLabel
    <2> QED
        BY <2>2, <2>3, <2>4, <2>5 DEF OpOK
<1>11. ProposalTypeOK' /\ doomed' = doomed
    <2>1. FieldsOK' /\ doomed' = doomed
        BY <1>0 DEF FieldsOK, Prepare, rowVars, fileVars, faultVars
    <2> QED
        BY <1>5, <1>7, <2>1 DEF FieldsOK, ProposalTypeOK, JournalsOK
<1> QED
    BY <1>5, <1>9, <1>10, <1>11 DEF ProposalInv

\* What others do, and the beginning and the death of an operation.
LEMMA OutsideKeeps ==
    ASSUME ProposalInv,
           \/ \E kind \in Kind, p \in Proposal : Begin(kind, p)
           \/ \E p \in Proposal : ExpireStale(p) \/ PurgeLooks(p) \/ PurgeArchives(p)
           \/ \E content \in {Edit, None} : EditAsset(content)
           \/ CrashOp
           \/ UNCHANGED proposalVars
    PROVE  ProposalInv'
<1>0. op \in Op /\ OpOK(op) /\ JournalsOK /\ FieldsOK /\ doomed \subseteq Exposed
    BY DEF ProposalInv, ProposalTypeOK, FieldsOK
<1>1. ASSUME journal' = journal, FieldsOK', doomed' \subseteq Exposed, op' \in Op, OpOK(op'),
             op'.pc = "repair" /\ op'.prop \notin Exposed => row'[op'.prop] = row[op'.prop]
      PROVE  ProposalInv'
    <2>1. ProposalTypeOK'
        BY <1>0, <1>1 DEF FieldsOK, ProposalTypeOK, JournalsOK
    <2> QED
        BY <1>1, <2>1, QuietKeeps
<1>2. ASSUME NEW kind \in Kind, NEW p \in Proposal, Begin(kind, p)
      PROVE  ProposalInv'
    <2> DEFINE label == IF kind = "accept" THEN "rejects" ELSE "list"
    <2>1. op' = [NoOp EXCEPT !.kind = kind, !.prop = p, !.pc = label]
        BY <1>2 DEF Begin
    <2>2. label \in {"rejects", "list"} /\ (label = "rejects" => kind # "revert")
        OBVIOUS
    <2> HIDE DEF label
    <2>3. op' \in Op /\ op'.pc = label /\ op'.kind = kind /\ op'.prop = p
        BY <2>1, <2>2, IdleIsOK DEF Op, Label
    <2>4. ReadOK(op') /\ op'.pc \in OtherLabel
        BY <2>2, <2>3 DEF ReadOK, OtherLabel
    <2>5. OpOK(op')
        BY <2>2, <2>3, <2>4, OtherIsOK
    <2>6. FieldsOK' /\ journal' = journal /\ doomed' = doomed /\ row' = row
        BY <1>0, <1>2 DEF Begin, FieldsOK, rowVars, fileVars, faultVars
    <2> QED
        BY <1>0, <1>1, <2>3, <2>5, <2>6
<1>3. ASSUME NEW p \in Proposal, ExpireStale(p) \/ PurgeArchives(p)
      PROVE  ProposalInv'
    <2>1. p \in Exposed /\ \A q \in Proposal \ {p} : row'[q] = row[q]
        BY <1>0, <1>3 DEF ExpireStale, PurgeArchives, FieldsOK
    <2>2. row' \in [Proposal -> Row]
        <3>1. \A r \in Row : [r EXCEPT !.status = "rejected"] \in Row
            BY DEF Row
        <3> QED
            BY <1>0, <1>3, <3>1 DEF ExpireStale, PurgeArchives, FieldsOK
    <2>3. FieldsOK' /\ journal' = journal /\ op' = op /\ doomed' \subseteq Exposed
        BY <1>0, <1>3, <2>2 DEF ExpireStale, PurgeArchives, FieldsOK, fileVars, faultVars
    <2>4. op.pc = "repair" /\ op.prop \notin Exposed => row'[op.prop] = row[op.prop]
        BY <1>0, <2>1 DEF OpOK, ReadOK
    <2> QED
        BY <1>0, <1>1, <2>3, <2>4
<1>4. ASSUME NEW p \in Proposal, PurgeLooks(p)
      PROVE  ProposalInv'
    <2>1. FieldsOK' /\ journal' = journal /\ op' = op /\ doomed' \subseteq Exposed /\ row' = row
        BY <1>0, <1>4 DEF PurgeLooks, FieldsOK, rowVars, fileVars, faultVars
    <2> QED
        BY <1>0, <1>1, <2>1
<1>5. ASSUME NEW content \in {Edit, None}, EditAsset(content)
      PROVE  ProposalInv'
    <2>1. content \in MaybeContent /\ None \in MaybeContent
        BY DEF MaybeContent, Content
    <2>2. edits' \in 0..MaxEdits
        BY <1>0, <1>5, ProposalAssumption DEF EditAsset, FieldsOK
    <2>3. FieldsOK' /\ journal' = journal /\ op' = op /\ doomed' = doomed /\ row' = row
        BY <1>0, <1>5, <2>1, <2>2 DEF EditAsset, FieldsOK, rowVars
    <2> QED
        BY <1>0, <1>1, <2>3
<1>6. CASE CrashOp
    <2>1. crashes' \in 0..MaxCrashes
        BY <1>0, <1>6, ProposalAssumption DEF CrashOp, FieldsOK
    <2>2. FieldsOK' /\ journal' = journal /\ doomed' = doomed /\ row' = row
        BY <1>0, <1>6, <2>1 DEF CrashOp, FieldsOK, rowVars, fileVars
    <2> QED
        BY <1>0, <1>1, <1>6, <2>2, IdleIsOK DEF CrashOp, Done
<1>7. CASE UNCHANGED proposalVars
    <2>1. FieldsOK' /\ journal' = journal /\ doomed' = doomed /\ row' = row /\ op' = op
        BY <1>0, <1>7 DEF proposalVars, FieldsOK
    <2> QED
        BY <1>0, <1>1, <2>1
<1> QED
    BY <1>2, <1>3, <1>4, <1>5, <1>6, <1>7

-----------------------------------------------------------------------------
(* Theorems.                                                               *)

\* The lease holder's locals agree with the journals.
LEMMA ProposalInvCorrect == ProposalSpec => []ProposalInv
<1>1. ProposalInit => ProposalInv
    <2> SUFFICES ASSUME ProposalInit
                 PROVE  ProposalInv
        OBVIOUS
    <2>1. op = NoOp /\ \A t \in Txn : journal[t] = NoJournal
        BY DEF ProposalInit
    <2>2. op \in Op /\ OpOK(op)
        BY <2>1, IdleIsOK
    <2>3. NoJournal \in Journal /\ NoJournal.phase = "unused"
        BY DEF NoJournal, Journal, Phase, MaybeContent
    <2>4. JournalsOK /\ OneIrreversible
        BY <2>1, <2>3 DEF ProposalInit, JournalsOK, OneIrreversible, Irreversible, FileTxn, Live
    <2>5. FieldsOK /\ doomed \subseteq Exposed
        <3>1. PICK first \in {Base, None} :
                /\ asset = [content |-> first, txn |-> None]
                /\ row = [p \in Proposal |-> [status |-> "pending", before |-> first, backup |-> None]]
                /\ saved = first
            BY DEF ProposalInit
        <3>2. first \in MaybeContent /\ None \in MaybeContent
            BY DEF MaybeContent, Content
        <3>3. [status |-> "pending", before |-> first, backup |-> None] \in Row
            BY <3>2 DEF Row
        <3> QED
            BY <3>1, <3>2, <3>3, ProposalAssumption DEF ProposalInit, FieldsOK
    <2> QED
        BY <2>2, <2>4, <2>5 DEF ProposalInv, ProposalTypeOK, FieldsOK, JournalsOK
<1>2. ProposalInv /\ [ProposalNext]_proposalVars => ProposalInv'
    <2> SUFFICES ASSUME ProposalInv, [ProposalNext]_proposalVars
                 PROVE  ProposalInv'
        OBVIOUS
    <2>1. CASE OpStep
        BY <2>1, FileStepKeeps, PhaseStepKeeps, RemoveKeeps, RejectStepKeeps, OtherStepKeeps, PrepareKeeps
           DEF OpStep, FileStep, PhaseStep, RejectStep
    <2> QED
        BY <2>1, OutsideKeeps DEF ProposalNext
<1> QED
    BY <1>1, <1>2, PTL DEF ProposalSpec

\* Files, rows, journals and the operation's locals have their types.
THEOREM ProposalTypeCorrect == ProposalSpec => []ProposalTypeOK
<1>1. ProposalInv => ProposalTypeOK
    BY DEF ProposalInv
<1> QED
    BY <1>1, ProposalInvCorrect, PTL

\* No proposal ever has two transactions past their commit point: recovery, which
\* refuses that state, never finds it.
THEOREM OneIrreversibleEver == ProposalSpec => []OneIrreversible
<1>1. ProposalInv => OneIrreversible
    BY DEF ProposalInv
<1> QED
    BY <1>1, ProposalInvCorrect, PTL

\* A decision is never taken back, nor made twice, whatever is interrupted, recovered
\* and repaired, for the proposals that the maintenance passes do not reach.
THEOREM DecisionStaysFinal == ProposalSpec => DecisionIsFinal
<1>1. ASSUME ProposalInv, [ProposalNext]_proposalVars, NEW p \in Proposal \ Exposed
      PROVE  StatusOnlyForward(p)
    <2>0. row \in [Proposal -> Row] /\ row[p].status \in {"pending", "accepted", "rejected", "reverted"}
        BY <1>1 DEF ProposalInv, ProposalTypeOK, Row
    <2>1. CASE row'[p] = row[p]
        BY <2>0, <2>1 DEF StatusOnlyForward
    <2>2. CASE PersistRepair
        <3>1. op.prop # p => row'[p] = row[p]
            BY <2>0, <2>2 DEF PersistRepair
        <3>2. op.prop = p => row'[p] = row[p]
            BY <1>1, <2>0, <2>2 DEF PersistRepair, At, ProposalInv, OpOK, ReadOK
        <3> QED
            BY <2>1, <3>1, <3>2
    <2>3. CASE PersistState
        <3> DEFINE q == OfOp.prop
        <3>1. row' = row \/ (Persisted(row[q]) # None /\ row' = [row EXCEPT ![q] = Persisted(row[q])])
            BY <2>3 DEF PersistState
        <3> HIDE DEF q
        <3>2. p # q => row'[p] = row[p]
            BY <2>0, <3>1
        <3>3. CASE p = q /\ Persisted(row[p]) # None /\ row'[p] = Persisted(row[p])
            <4>1. row[p] \in Row
                BY <2>0
            <4>2. \/ row[p].status = "pending" /\ row'[p].status = "accepted"
                  \/ row[p].status = "accepted" /\ row'[p].status = "reverted"
                  \/ row'[p] = row[p]
                BY <3>3, <4>1 DEF Persisted, Row
            <4> QED
                BY <2>0, <4>2 DEF StatusOnlyForward
        <3> QED
            BY <2>0, <2>1, <3>1, <3>2, <3>3
    <2>4. CASE ArchiveRejected
        <3> DEFINE q == OfOp.prop
        <3>1. \/ row' = row
              \/ row[q].status = "pending" /\ row' = [row EXCEPT ![q].status = "rejected"]
            BY <2>4 DEF ArchiveRejected
        <3> HIDE DEF q
        <3>2. \/ row'[p] = row[p]
              \/ row[p].status = "pending" /\ row'[p].status = "rejected"
            BY <2>0, <3>1 DEF Row
        <3> QED
            BY <2>1, <3>2 DEF StatusOnlyForward
    <2>5. ASSUME NEW q \in Proposal, ExpireStale(q) \/ PurgeArchives(q)
          PROVE  row'[p] = row[p]
        <3>1. q \in Exposed
            BY <1>1, <2>5 DEF ExpireStale, PurgeArchives, ProposalInv
        <3> QED
            BY <2>0, <2>5, <3>1 DEF ExpireStale, PurgeArchives
    <2>6. ASSUME \/ \E kind \in Kind, q \in Proposal : Begin(kind, q)
                 \/ \E q \in Proposal : PurgeLooks(q)
                 \/ \E content \in {Edit, None} : EditAsset(content)
                 \/ CrashOp
                 \/ UNCHANGED proposalVars
          PROVE  row' = row
        BY <2>6 DEF Begin, PurgeLooks, EditAsset, CrashOp, proposalVars, rowVars
    <2>7. CASE OpStep
        <3>1. ASSUME ~PersistRepair, ~PersistState, ~ArchiveRejected
              PROVE  row' = row
            BY <2>7, <3>1 DEF OpStep, RecoverReject, ReadProposal, ListJournals, RecoverNext, ReadState,
                Prepare, StagePublish, Displace, VerifyDisplaced, LinkPublished, AdvancePublished,
                InspectAsset, UnlinkPublished, RestoreDisplaced, Scrub, RemoveJournal,
                ValidatePublished, CleanPublication, PublishGit, ServiceFails, AdvancePersisted,
                FinalizeIndex, PersistEvent, AdvanceEvented, Settle, DecideReject, AdvanceArchived,
                AnnounceReject, AdvanceAnnounced, DisposeReject, rowVars
        <3> QED
            BY <2>1, <2>2, <2>3, <2>4, <3>1
    <2> QED
        BY <1>1, <2>1, <2>5, <2>6, <2>7 DEF ProposalNext
<1>2. ProposalInv /\ [ProposalNext]_proposalVars
        => [\A p \in Proposal \ Exposed : StatusOnlyForward(p)]_proposalVars
    BY <1>1
<1> QED
    BY <1>2, ProposalInvCorrect, PTL DEF ProposalSpec, DecisionIsFinal

-----------------------------------------------------------------------------
(* Rows, journals and events of a decision.                                *)

\* The phase in which the transaction is at each label of the operation on it.
PhaseOK(o) ==
    /\ o.pc \in OwnLabel \cup UndoLabel => journal[o.txn].phase = "prepared"
    /\ o.pc \in {"git", "persist", "persisted"} => journal[o.txn].phase = "asset-published"
    /\ o.pc = "index" => journal[o.txn].phase = "proposal-persisted"
    /\ o.pc \in {"event", "evented"} => journal[o.txn].phase = "index-finalized"
    /\ o.pc = "settle" => journal[o.txn].phase = "event-finalized"
    /\ o.pc = "remove" => journal[o.txn].phase \in {"prepared", "committed"}

\* A proposal has one transaction at a time.
OneFileTxn == \A t, u \in Txn : FileTxn(t) /\ FileTxn(u) /\ journal[t].prop = journal[u].prop => t = u

Of(kind, t, p) == journal[t].kind = kind /\ journal[t].prop = p

RowOK(p) ==
    /\ row[p].before \in {Base, None} /\ row[p].backup \in {Base, None}
    /\ row[p].status \in {"pending", "rejected"} => row[p].backup = None

\* What a journal j of a transaction says, and the row r of its proposal at each
\* of its phases.
Early == {"prepared", "asset-published"}
AcceptOK(j, r) ==
    /\ j.published = j.prop /\ j.original = j.backup /\ j.backup \in {Base, None}
    /\ j.phase = "prepared" => r.status \in {"pending", "rejected"}
    /\ j.phase = "asset-published" => r.status # "reverted"
    /\ j.phase \notin Early => r.status = "accepted"
    /\ r.status = "accepted" => r.backup = j.backup
RevertOK(j, r) ==
    /\ j.published = Base /\ r.backup = Base /\ j.original = j.prop /\ j.backup = None
    /\ j.phase = "prepared" => r.status = "accepted"
    /\ j.phase = "asset-published" => r.status \in {"accepted", "reverted"}
    /\ j.phase \notin Early => r.status = "reverted"
\* ... and the event: it is there from the phase after its own on, and it is the
\* only one of its kind.
AnnouncedOK(t) ==
    /\ journal[t].phase \in Early \cup {"proposal-persisted"} => t \notin events
    /\ journal[t].phase \in {"event-finalized", "committed"} => t \in events
    /\ \A u \in events : Of(journal[t].kind, u, journal[t].prop) => u = t
TxnRowOK(t) ==
    FileTxn(t) =>
        /\ journal[t].phase # "state-persisted"
        /\ journal[t].kind = "accept" => AcceptOK(journal[t], row[journal[t].prop])
        /\ journal[t].kind = "revert" => RevertOK(journal[t], row[journal[t].prop])
        /\ AnnouncedOK(t)

\* One transaction has announced the decision on p, or is about to.
Sole(kind, p) ==
    \E t \in Txn : /\ Of(kind, t, p) /\ (t \in events \/ FileTxn(t))
                   /\ \A u \in events : Of(kind, u, p) => u = t
EventsOK(p) ==
    /\ row[p].status \in {"pending", "rejected"} => \A t \in events : ~Of("accept", t, p)
    /\ row[p].status \in {"accepted", "reverted"} => Sole("accept", p)
    /\ row[p].status # "reverted" => \A t \in events : ~Of("revert", t, p)
    /\ row[p].status = "reverted" => Sole("revert", p)

\* What an operation has read of the row, or has written to it, still holds, except
\* that a proposal may be archived under a repair.
ReadRowOK(o) ==
    /\ o.pc = "repair" =>
        \/ o.read = row[o.prop]
        \/ row[o.prop].status = "rejected" /\ o.read = [row[o.prop] EXCEPT !.status = "pending"]
    /\ o.pc = "prepare" /\ o.kind = "accept" =>
        row[o.prop].status \in {"pending", "rejected"} /\ o.found \in {Base, None}
    /\ o.pc = "prepare" /\ o.kind = "revert" =>
        /\ row[o.prop].status = "accepted" /\ row[o.prop].backup = Base
        /\ o.read.backup = Base /\ o.found = o.prop
    /\ o.pc = "persisted" =>
        row[journal[o.txn].prop].status = IF journal[o.txn].kind = "accept" THEN "accepted" ELSE "reverted"
    /\ o.pc = "evented" => o.txn \in events

DecisionInv ==
    /\ PhaseOK(op)
    /\ OneFileTxn
    /\ \A p \in Proposal : RowOK(p) /\ EventsOK(p)
    /\ \A t \in Txn : TxnRowOK(t)
    /\ \A t \in events : journal[t].phase # "unused"
    /\ ReadRowOK(op)

\* The contents are told apart.
LEMMA ContentsDiffer ==
    /\ Base # Edit /\ Base # None /\ Edit # None
    /\ \A p \in Proposal : p # Base /\ p # Edit /\ p # None
BY ProposalAssumption

\* A step to another label changes nothing else of the operation.
LEMMA GotoKeeps ==
    ASSUME op \in Op, NEW label, Goto(label)
    PROVE  /\ op'.pc = label /\ op'.kind = op.kind /\ op'.prop = op.prop /\ op'.txn = op.txn
           /\ op'.own = op.own /\ op'.read = op.read /\ op'.found = op.found
BY DEF Goto, Op

\* Whose transaction it is.
LEMMA FileTxnOf ==
    ASSUME ProposalInv, NEW t \in Txn, FileTxn(t)
    PROVE  /\ journal[t].prop \in Proposal /\ journal[t].kind \in {"accept", "revert"}
           /\ row[journal[t].prop] \in Row
<1>1. journal[t].phase # "unused"
    BY DEF FileTxn, Live
<1>2. journal[t].prop \in Proposal /\ journal[t].kind \in Kind
    BY <1>1 DEF ProposalInv, JournalsOK
<1> QED
    BY <1>2 DEF FileTxn, Kind, ProposalInv, ProposalTypeOK

\* What a transaction replaces, and what with.
LEMMA TxnShape ==
    ASSUME ProposalInv, DecisionInv, NEW t \in Txn, FileTxn(t)
    PROVE  /\ journal[t].prop \in Proposal
           /\ \/ /\ journal[t].kind = "accept" /\ journal[t].published = journal[t].prop
                 /\ journal[t].original = journal[t].backup /\ journal[t].backup \in {Base, None}
              \/ /\ journal[t].kind = "revert" /\ journal[t].published = Base
                 /\ journal[t].original = journal[t].prop /\ journal[t].backup = None
                 /\ row[journal[t].prop].backup = Base
           /\ journal[t].phase \in {"prepared", "asset-published", "proposal-persisted",
                                    "index-finalized", "event-finalized", "committed"}
<1>1. journal[t].prop \in Proposal /\ journal[t].kind \in {"accept", "revert"}
    BY FileTxnOf
<1>2. TxnRowOK(t)
    BY DEF DecisionInv
<1>3. journal[t].phase \in Phase
    BY DEF ProposalInv, JournalsOK, Journal
<1> QED
    BY <1>1, <1>2, <1>3 DEF TxnRowOK, AcceptOK, RevertOK, FileTxn, Live, Phase

-----------------------------------------------------------------------------
(* Steps on neither rows nor journals nor events.                          *)

\* Where no row, journal or event changes, only the label has to fit.
LEMMA DecisionQuiet ==
    ASSUME DecisionInv, journal' = journal, row' = row, events' = events,
           PhaseOK(op)', ReadRowOK(op)'
    PROVE  DecisionInv'
<1>1. /\ \A t : FileTxn(t)' = FileTxn(t)
      /\ \A kind, t, p : Of(kind, t, p)' = Of(kind, t, p)
    BY DEF FileTxn, Live, Of
<1>2. OneFileTxn'
    BY <1>1 DEF DecisionInv, OneFileTxn
<1>3. ASSUME NEW p \in Proposal
      PROVE  RowOK(p)' /\ EventsOK(p)'
    <2>1. RowOK(p) /\ EventsOK(p)
        BY DEF DecisionInv
    <2>2. \A kind : Sole(kind, p)' = Sole(kind, p)
        BY <1>1 DEF Sole
    <2> QED
        BY <1>1, <2>1, <2>2 DEF RowOK, EventsOK
<1>4. ASSUME NEW t \in Txn
      PROVE  TxnRowOK(t)'
    BY <1>1 DEF DecisionInv, TxnRowOK, AnnouncedOK, AcceptOK, RevertOK
<1>5. \A t \in events' : journal'[t].phase # "unused"
    BY DEF DecisionInv
<1> QED
    BY <1>2, <1>3, <1>4, <1>5 DEF DecisionInv

\* At these labels nothing is said of phase and row.
FreeLabel == {"idle", "rejects", "read", "list", "recover", "check", "validate", "clean",
              "decide", "archive", "archived", "announce", "announced", "dispose"}
\* A step to one of them needs no more.
LEMMA FreeOK ==
    ASSUME op'.pc \in FreeLabel
    PROVE  PhaseOK(op)' /\ ReadRowOK(op)'
BY DEF FreeLabel, PhaseOK, ReadRowOK, OwnLabel, UndoLabel

\* The steps on the file only.
LEMMA AssetStepDecides ==
    ASSUME ProposalInv, DecisionInv,
           \/ StagePublish \/ Displace \/ VerifyDisplaced \/ LinkPublished
           \/ InspectAsset \/ UnlinkPublished \/ RestoreDisplaced \/ Scrub
    PROVE  DecisionInv'
<1>0. op \in Op /\ PhaseOK(op)
    BY DEF ProposalInv, ProposalTypeOK, DecisionInv
<1>1. journal' = journal /\ row' = row /\ events' = events
    BY DEF StagePublish, Displace, VerifyDisplaced, LinkPublished, InspectAsset, UnlinkPublished,
           RestoreDisplaced, Scrub, rowVars
<1>2. op.pc \in OwnLabel \cup UndoLabel
    BY DEF StagePublish, Displace, VerifyDisplaced, LinkPublished, InspectAsset, UnlinkPublished,
           RestoreDisplaced, Scrub, At, OwnLabel, UndoLabel
<1>3. \/ op' = NoOp
      \/ \E label \in OwnLabel \cup UndoLabel \cup {"remove"} : Goto(label)
    <2>1. CASE StagePublish \/ Displace \/ VerifyDisplaced \/ LinkPublished
        BY <2>1 DEF StagePublish, Displace, VerifyDisplaced, LinkPublished, OwnLabel, UndoLabel
    <2>2. CASE InspectAsset \/ UnlinkPublished \/ RestoreDisplaced \/ Scrub
        BY <2>2 DEF InspectAsset, UnlinkPublished, RestoreDisplaced, Scrub, Done, UndoLabel
    <2> QED
        BY <2>1, <2>2
<1>4. PhaseOK(op)' /\ ReadRowOK(op)'
    <2>1. CASE op' = NoOp
        BY <2>1, FreeOK DEF NoOp, FreeLabel
    <2>2. ASSUME NEW label \in OwnLabel \cup UndoLabel \cup {"remove"}, Goto(label)
          PROVE  PhaseOK(op)' /\ ReadRowOK(op)'
        <3>1. op'.pc = label /\ op'.txn = op.txn /\ journal'[op.txn].phase = "prepared"
            BY <1>0, <1>1, <1>2, <2>2, GotoKeeps DEF PhaseOK
        <3> QED
            BY <3>1 DEF PhaseOK, ReadRowOK, OwnLabel, UndoLabel
    <2> QED
        BY <1>3, <2>1, <2>2
<1> QED
    BY <1>1, <1>4, DecisionQuiet

\* The way forward, as far as it is not recorded.
LEMMA ForwardStepDecides ==
    ASSUME ProposalInv, DecisionInv, ValidatePublished \/ CleanPublication \/ PublishGit \/ ServiceFails
    PROVE  DecisionInv'
<1>0. op \in Op /\ PhaseOK(op)
    BY DEF ProposalInv, ProposalTypeOK, DecisionInv
<1>1. journal' = journal /\ row' = row /\ events' = events
    BY DEF ValidatePublished, CleanPublication, PublishGit, ServiceFails, rowVars
<1>2. PhaseOK(op)' /\ ReadRowOK(op)'
    <2>1. CASE op' = NoOp
        BY <2>1, FreeOK DEF NoOp, FreeLabel
    <2>2. CASE ValidatePublished /\ Goto("clean")
        BY <1>0, <2>2, GotoKeeps, FreeOK DEF FreeLabel
    <2>3. CASE CleanPublication
        <3> DEFINE label == CASE OfOp.phase = "asset-published" -> "git"
                              [] OfOp.phase = "proposal-persisted" -> "index"
                              [] OfOp.phase = "index-finalized" -> "event"
                              [] OTHER -> "settle"
        <3>1. op.txn \in Txn /\ FileTxn(op.txn) /\ Irreversible(op.txn)
            BY <2>3, LabelsAreAll DEF CleanPublication, At, ForwardLabel, ProposalInv, OpOK, TxnOK
        <3>2. OfOp.phase \in {"asset-published", "proposal-persisted", "index-finalized", "event-finalized"}
            BY <3>1, TxnShape DEF OfOp, Irreversible
        <3>3. Goto(label)
            BY <2>3 DEF CleanPublication
        <3>4. /\ label \in {"git", "index", "event", "settle"}
              /\ label = "git" => OfOp.phase = "asset-published"
              /\ label = "index" => OfOp.phase = "proposal-persisted"
              /\ label = "event" => OfOp.phase = "index-finalized"
              /\ label = "settle" => OfOp.phase = "event-finalized"
            BY <3>2
        <3> HIDE DEF label
        <3>5. op'.pc = label /\ op'.txn = op.txn
            BY <1>0, <3>3, GotoKeeps
        <3> QED
            BY <1>1, <3>4, <3>5 DEF OfOp, PhaseOK, ReadRowOK, OwnLabel, UndoLabel
    <2>4. CASE PublishGit
        <3>1. op'.pc = "persist" /\ op'.txn = op.txn /\ op.pc = "git"
            BY <1>0, <2>4, GotoKeeps DEF PublishGit, At
        <3> QED
            BY <1>0, <1>1, <3>1 DEF PhaseOK, ReadRowOK, OwnLabel, UndoLabel
    <2> QED
        BY <2>1, <2>2, <2>3, <2>4 DEF ValidatePublished, ServiceFails, Done
<1> QED
    BY <1>1, <1>2, DecisionQuiet

\* The way to a transaction, but for a repair.
LEMMA ReadStepDecides ==
    ASSUME ProposalInv, DecisionInv,
           RecoverReject \/ ReadProposal \/ ListJournals \/ RecoverNext \/ ReadState \/ DecideReject
    PROVE  DecisionInv'
<1>0. op \in Op /\ OpOK(op) /\ PhaseOK(op)
    BY DEF ProposalInv, ProposalTypeOK, DecisionInv
<1>1. journal' = journal /\ row' = row /\ events' = events
    BY DEF RecoverReject, ReadProposal, ListJournals, RecoverNext, ReadState, DecideReject, rowVars
<1>2. PhaseOK(op)' /\ ReadRowOK(op)'
    <2>1. CASE op' = NoOp
        BY <2>1, FreeOK DEF NoOp, FreeLabel
    <2>2. ASSUME NEW label \in FreeLabel, Goto(label)
          PROVE  PhaseOK(op)' /\ ReadRowOK(op)'
        BY <1>0, <2>2, GotoKeeps, FreeOK
    <2>3. Goto(AfterRecovery) => PhaseOK(op)' /\ ReadRowOK(op)'
        BY <2>2 DEF AfterRecovery, FreeLabel
    <2>4. CASE RecoverReject \/ DecideReject
        <3>1. RecoverReject => op'.pc \in FreeLabel
            BY <1>0 DEF RecoverReject, FreeLabel, Goto, Op
        <3> QED
            BY <2>1, <2>2, <2>4, <3>1, FreeOK DEF DecideReject, Done, FreeLabel
    <2>5. CASE ReadProposal
        <3>1. CASE op' = [op EXCEPT !.read = row[op.prop], !.pc = "repair"]
            <4>1. op'.pc = "repair" /\ op'.read = row'[op'.prop]
                BY <1>0, <1>1, <3>1 DEF Op
            <4> QED
                BY <4>1 DEF PhaseOK, ReadRowOK, OwnLabel, UndoLabel
        <3> QED
            BY <2>1, <2>2, <2>5, <3>1 DEF ReadProposal, Done, FreeLabel
    <2>6. CASE ListJournals
        <3>1. ASSUME NEW todo, op' = [op EXCEPT !.pc = "recover", !.todo = todo]
              PROVE  op'.pc \in FreeLabel
            BY <1>0, <3>1 DEF Op, FreeLabel
        <3>2. Done \/ Goto(AfterRecovery) \/ \E todo : op' = [op EXCEPT !.pc = "recover", !.todo = todo]
            BY <2>6 DEF ListJournals
        <3> QED
            BY <2>1, <2>3, <3>1, <3>2, FreeOK DEF Done
    <2>7. CASE RecoverNext
        <3>1. ASSUME NEW t \in op.todo,
                     op' = [op EXCEPT !.txn = t, !.own = FALSE, !.todo = @ \ {t}, !.pc = Direction(t)]
              PROVE  PhaseOK(op)' /\ ReadRowOK(op)'
            <4> DEFINE label == Direction(t)
            <4>1. /\ label \in {"inspect", "remove", "validate"}
                  /\ label = "inspect" => journal[t].phase = "prepared"
                  /\ label = "remove" => journal[t].phase = "committed"
                BY DEF Direction
            <4>2. op' = [op EXCEPT !.txn = t, !.own = FALSE, !.todo = @ \ {t}, !.pc = label]
                BY <3>1
            <4> HIDE DEF label
            <4>3. op'.pc = label /\ op'.txn = t
                BY <1>0, <4>2 DEF Op
            <4> QED
                BY <1>1, <4>1, <4>3 DEF PhaseOK, ReadRowOK, OwnLabel, UndoLabel
        <3> QED
            BY <2>3, <2>7, <3>1 DEF RecoverNext
    <2>8. CASE ReadState
        <3> SUFFICES ASSUME op' # NoOp
                     PROVE  PhaseOK(op)' /\ ReadRowOK(op)'
            BY <2>1
        <3>1. /\ op' = [op EXCEPT !.pc = "prepare", !.read = row[op.prop], !.found = asset.content]
              /\ Decidable(op.kind, row[op.prop]) /\ Expected(op.kind, row[op.prop])
            BY <2>8 DEF ReadState, Done
        <3>2. /\ op'.pc = "prepare" /\ op'.read = row[op.prop] /\ op'.found = asset.content
              /\ op'.kind = op.kind /\ op'.prop = op.prop
            BY <1>0, <3>1 DEF Op
        <3>3. op.prop \in Proposal
            BY <1>0, <2>8 DEF ReadState, At, OpOK, ReadOK
        <3>4. RowOK(op.prop)
            BY <3>3 DEF DecisionInv
        <3>5. op.kind = "accept" => row[op.prop].status = "pending" /\ asset.content \in {Base, None}
            BY <3>1, <3>4 DEF Decidable, Expected, RowOK
        <3>6. op.kind = "revert" =>
                row[op.prop].status = "accepted" /\ row[op.prop].backup = Base /\ asset.content = op.prop
            BY <3>1, <3>4 DEF Decidable, Expected, RowOK
        <3> QED
            BY <1>1, <3>2, <3>5, <3>6 DEF PhaseOK, ReadRowOK, OwnLabel, UndoLabel
    <2> QED
        BY <2>4, <2>5, <2>6, <2>7, <2>8
<1> QED
    BY <1>1, <1>2, DecisionQuiet

-----------------------------------------------------------------------------
(* Steps on rows and events.                                               *)

\* A row that is archived, or taken out of the archive.
Undecided == {"pending", "rejected"}
ArchivedOrBack(p) ==
    \/ row'[p] = row[p]
    \/ /\ row[p].status \in Undecided /\ row'[p].status \in Undecided
       /\ row'[p].before = row[p].before /\ row'[p].backup = row[p].backup

\* Archiving is no decision that is announced.
LEMMA ArchivingDecides ==
    ASSUME ProposalInv, DecisionInv, journal' = journal, events' = events,
           \A p \in Proposal : ArchivedOrBack(p), PhaseOK(op)', ReadRowOK(op)'
    PROVE  DecisionInv'
<1>1. /\ \A t : FileTxn(t)' = FileTxn(t)
      /\ \A kind, t, p : Of(kind, t, p)' = Of(kind, t, p)
    BY DEF FileTxn, Live, Of
<1>2. OneFileTxn'
    BY <1>1 DEF DecisionInv, OneFileTxn
<1>3. ASSUME NEW p \in Proposal
      PROVE  RowOK(p)' /\ EventsOK(p)'
    <2>1. RowOK(p) /\ EventsOK(p) /\ ArchivedOrBack(p)
        BY DEF DecisionInv
    <2>2. \A kind : Sole(kind, p)' = Sole(kind, p)
        BY <1>1 DEF Sole
    <2> QED
        BY <1>1, <2>1, <2>2 DEF RowOK, EventsOK, ArchivedOrBack, Undecided
<1>4. ASSUME NEW t \in Txn
      PROVE  TxnRowOK(t)'
    <2> SUFFICES ASSUME FileTxn(t)
                 PROVE  TxnRowOK(t)'
        BY <1>1 DEF TxnRowOK
    <2>1. TxnRowOK(t) /\ AnnouncedOK(t)'
        BY <1>1 DEF DecisionInv, TxnRowOK, AnnouncedOK
    <2>2. ArchivedOrBack(journal[t].prop)
        BY FileTxnOf
    <2>3. AcceptOK(journal[t], row[journal[t].prop]) => AcceptOK(journal[t], row'[journal[t].prop])
        BY <2>2 DEF AcceptOK, ArchivedOrBack, Undecided
    <2>4. RevertOK(journal[t], row[journal[t].prop]) => RevertOK(journal[t], row'[journal[t].prop])
        BY <2>2 DEF RevertOK, ArchivedOrBack, Undecided
    <2> QED
        BY <2>1, <2>3, <2>4 DEF TxnRowOK
<1>5. \A t \in events' : journal'[t].phase # "unused"
    BY DEF DecisionInv
<1> QED
    BY <1>2, <1>3, <1>4, <1>5 DEF DecisionInv

\* A repair writes the row back as it was read: at most, it is no longer archived.
LEMMA RepairArchives ==
    ASSUME ProposalInv, DecisionInv, PersistRepair
    PROVE  \A p \in Proposal : ArchivedOrBack(p)
<1>1. /\ op.prop \in Proposal /\ row \in [Proposal -> Row]
      /\ row' = [row EXCEPT ![op.prop] = op.read]
    BY DEF PersistRepair, At, ProposalInv, OpOK, ReadOK, ProposalTypeOK
<1>2. \/ op.read = row[op.prop]
      \/ row[op.prop].status = "rejected" /\ op.read = [row[op.prop] EXCEPT !.status = "pending"]
    BY DEF PersistRepair, At, DecisionInv, ReadRowOK
<1>3. /\ row[op.prop].status = "rejected" /\ op.read = [row[op.prop] EXCEPT !.status = "pending"]
            => op.read.status = "pending" /\ op.read.before = row[op.prop].before
               /\ op.read.backup = row[op.prop].backup
      /\ \A p \in Proposal : row'[p] = IF p = op.prop THEN op.read ELSE row[p]
    BY <1>1 DEF Row
<1> QED
    BY <1>2, <1>3 DEF ArchivedOrBack, Undecided

\* A pending row is archived.
Archives(q) == row[q].status = "pending" /\ row' = [row EXCEPT ![q].status = "rejected"]
\* It changes the status of that row, and nothing else.
LEMMA ArchivesOne ==
    ASSUME ProposalInv, NEW q \in Proposal, Archives(q)
    PROVE  /\ \A p \in Proposal : ArchivedOrBack(p)
           /\ row'[q].status = "rejected" /\ row[q] = [row'[q] EXCEPT !.status = "pending"]
           /\ \A p \in Proposal \ {q} : row'[p] = row[p]
<1>1. row[q] \in Row /\ row \in [Proposal -> Row] /\ row[q].status = "pending"
    BY DEF ProposalInv, ProposalTypeOK, Archives
<1>2. row'[q] = [row[q] EXCEPT !.status = "rejected"] /\ \A p \in Proposal \ {q} : row'[p] = row[p]
    BY <1>1 DEF Archives
<1>3. /\ row'[q].status = "rejected" /\ row'[q].before = row[q].before /\ row'[q].backup = row[q].backup
      /\ row[q] = [row'[q] EXCEPT !.status = "pending"]
    BY <1>1, <1>2 DEF Row
<1> QED
    BY <1>1, <1>2, <1>3 DEF ArchivedOrBack, Undecided

\* A proposal is archived, by a rejection or without the lease, or a repair takes it
\* out of the archive.
LEMMA ArchiveStepDecides ==
    ASSUME ProposalInv, DecisionInv,
           \/ PersistRepair \/ ArchiveRejected
           \/ \E p \in Proposal : ExpireStale(p) \/ PurgeArchives(p)
    PROVE  DecisionInv'
<1>0. op \in Op /\ OpOK(op)
    BY DEF ProposalInv, ProposalTypeOK
<1>1. journal' = journal /\ events' = events
    BY DEF PersistRepair, ArchiveRejected, ExpireStale, PurgeArchives
<1>2. CASE PersistRepair
    <2>1. op'.pc = "list"
        BY <1>0, <1>2 DEF PersistRepair, Op
    <2> QED
        BY <1>1, <1>2, <2>1, RepairArchives, ArchivingDecides, FreeOK DEF FreeLabel
<1>3. CASE ArchiveRejected
    <2>1. op'.pc \in FreeLabel
        BY <1>0, <1>3, GotoKeeps DEF ArchiveRejected, Done, NoOp, FreeLabel
    <2>2. OfOp.prop \in Proposal
        BY <1>0, <1>3 DEF ArchiveRejected, At, OpOK, TxnOK, RejectLabel, ProposalInv, JournalsOK, OfOp
    <2>3. row' = row \/ Archives(OfOp.prop)
        BY <1>3 DEF ArchiveRejected, Archives
    <2>4. \A p \in Proposal : ArchivedOrBack(p)
        BY <2>2, <2>3, ArchivesOne DEF ArchivedOrBack
    <2> QED
        BY <1>1, <2>1, <2>4, ArchivingDecides, FreeOK
<1>4. ASSUME NEW q \in Proposal, ExpireStale(q) \/ PurgeArchives(q)
      PROVE  DecisionInv'
    <2>1. op' = op /\ (row' = row \/ Archives(q))
        BY <1>4 DEF ExpireStale, PurgeArchives, Archives
    <2>2. CASE row' = row
        <3>1. PhaseOK(op)' /\ ReadRowOK(op)'
            BY <1>1, <2>1, <2>2 DEF DecisionInv, PhaseOK, ReadRowOK
        <3> QED
            BY <1>1, <2>2, <3>1, DecisionQuiet
    <2>3. CASE Archives(q)
        <3>1. /\ \A p \in Proposal : ArchivedOrBack(p)
              /\ row[q].status = "pending"
              /\ row'[q].status = "rejected" /\ row[q] = [row'[q] EXCEPT !.status = "pending"]
              /\ \A p \in Proposal \ {q} : row'[p] = row[p]
            BY <2>3, ArchivesOne DEF Archives
        <3>2. PhaseOK(op)'
            BY <1>1, <2>1 DEF DecisionInv, PhaseOK
        <3>3. ReadRowOK(op)
            BY DEF DecisionInv
        <3>4. CASE op.pc = "repair"
            <4>1. op.prop \in Proposal
                BY <1>0, <3>4 DEF OpOK, ReadOK
            <4>2. \/ op.read = row'[op.prop]
                  \/ row'[op.prop].status = "rejected" /\ op.read = [row'[op.prop] EXCEPT !.status = "pending"]
                BY <3>1, <3>3, <3>4, <4>1 DEF ReadRowOK
            <4> QED
                BY <1>1, <2>1, <3>1, <3>2, <3>4, <4>2, ArchivingDecides DEF ReadRowOK
        <3>5. CASE op.pc = "prepare"
            <4>1. op.prop \in Proposal
                BY <1>0, <3>5 DEF OpOK, ReadOK
            <4>2. ReadRowOK(op)'
                BY <1>1, <2>1, <3>1, <3>3, <3>5, <4>1 DEF ReadRowOK
            <4> QED
                BY <1>1, <3>1, <3>2, <4>2, ArchivingDecides
        <3>6. CASE op.pc = "persisted"
            <4>1. op.txn \in Txn /\ FileTxn(op.txn)
                BY <1>0, <3>6 DEF OpOK, TxnOK, FileLabel, ForwardLabel
            <4>2. journal[op.txn].prop \in Proposal
                BY <4>1, FileTxnOf
            <4>3. ReadRowOK(op)'
                BY <1>1, <2>1, <3>1, <3>3, <3>6, <4>2 DEF ReadRowOK
            <4> QED
                BY <1>1, <3>1, <3>2, <4>3, ArchivingDecides
        <3>7. CASE op.pc \notin {"repair", "prepare", "persisted"}
            <4>1. ReadRowOK(op)'
                BY <1>1, <2>1, <3>3, <3>7 DEF ReadRowOK
            <4> QED
                BY <1>1, <3>1, <3>2, <4>1, ArchivingDecides
        <3> QED
            BY <3>4, <3>5, <3>6, <3>7
    <2> QED
        BY <2>1, <2>2, <2>3
<1> QED
    BY <1>2, <1>3, <1>4

\* The decision is written to the row.
LEMMA PersistStateDecides ==
    ASSUME ProposalInv, DecisionInv, PersistState
    PROVE  DecisionInv'
<1>0. op \in Op /\ OpOK(op) /\ op.pc = "persist" /\ row \in [Proposal -> Row]
    BY DEF ProposalInv, ProposalTypeOK, PersistState, At
<1>1. journal' = journal /\ events' = events
    BY DEF PersistState
<1>2. /\ op.txn \in Txn /\ FileTxn(op.txn) /\ journal[op.txn].phase = "asset-published"
      /\ TxnRowOK(op.txn)
    BY <1>0 DEF OpOK, TxnOK, FileLabel, ForwardLabel, DecisionInv, PhaseOK
<1>3. PICK t \in Txn : t = op.txn
    BY <1>2
<1>4. PICK p \in Proposal : p = journal[t].prop /\ OfOp.prop = p
    BY <1>2, <1>3, FileTxnOf DEF OfOp
<1>5. journal[t].kind \in {"accept", "revert"} /\ row[p] \in Row /\ RowOK(p) /\ EventsOK(p)
    BY <1>2, <1>3, <1>4, FileTxnOf DEF DecisionInv
<1>6. CASE op' = NoOp /\ row' = row
    BY <1>1, <1>6, DecisionQuiet, FreeOK DEF NoOp, FreeLabel
<1>7. ASSUME Goto("persisted"), Persisted(row[p]) # None, row' = [row EXCEPT ![p] = Persisted(row[p])]
      PROVE  DecisionInv'
    <2>1. /\ op'.pc = "persisted" /\ op'.txn = t
          /\ row'[p] = Persisted(row[p]) /\ \A q \in Proposal \ {p} : row'[q] = row[q]
        BY <1>0, <1>3, <1>7, GotoKeeps
    <2>2. \/ /\ journal[t].kind = "accept" /\ row[p].status = "pending"
             /\ row'[p].status = "accepted" /\ row'[p].backup = journal[t].backup
             /\ row'[p].before = row[p].before
          \/ /\ journal[t].kind = "accept" /\ row[p].status = "accepted" /\ row'[p] = row[p]
          \/ /\ journal[t].kind = "revert" /\ row[p].status = "accepted"
             /\ row'[p].status = "reverted" /\ row'[p].backup = row[p].backup
             /\ row'[p].before = row[p].before
          \/ /\ journal[t].kind = "revert" /\ row[p].status = "reverted" /\ row'[p] = row[p]
        <3>1. row'[p] = Persisted(row[p]) /\ Persisted(row[p]) # None /\ row[p] \in Row
            BY <1>5, <1>7, <2>1
        <3> QED
            BY <1>3, <3>1 DEF Persisted, OfOp, Row
    <2>3. /\ \A u : FileTxn(u)' = FileTxn(u)
          /\ \A kind, u, q : Of(kind, u, q)' = Of(kind, u, q)
          /\ \A kind, q : Sole(kind, q)' = Sole(kind, q)
        BY <1>1 DEF FileTxn, Live, Of, Sole
    <2>4. OneFileTxn' /\ \A u \in events' : journal'[u].phase # "unused"
        BY <1>1, <2>3 DEF DecisionInv, OneFileTxn
    <2>5. TxnRowOK(t)'
        <3>1. AnnouncedOK(t)'
            BY <1>1, <1>2, <1>3, <2>3 DEF TxnRowOK, AnnouncedOK
        <3>2. journal[t].kind = "accept" => AcceptOK(journal[t], row'[p])
            BY <1>2, <1>3, <1>4, <2>2 DEF TxnRowOK, AcceptOK, Early
        <3>3. journal[t].kind = "revert" => RevertOK(journal[t], row'[p])
            BY <1>2, <1>3, <1>4, <2>2 DEF TxnRowOK, RevertOK, Early
        <3> QED
            BY <1>1, <1>2, <1>3, <1>4, <3>1, <3>2, <3>3 DEF TxnRowOK
    <2>6. ASSUME NEW u \in Txn, u # t
          PROVE  TxnRowOK(u)'
        <3> SUFFICES ASSUME FileTxn(u)
                     PROVE  TxnRowOK(u)'
            BY <2>3 DEF TxnRowOK
        <3>1. journal[u].prop # p /\ journal[u].prop \in Proposal
            BY <1>2, <1>3, <1>4, <2>6, FileTxnOf DEF DecisionInv, OneFileTxn
        <3>2. TxnRowOK(u) /\ row'[journal[u].prop] = row[journal[u].prop]
            BY <2>1, <3>1 DEF DecisionInv
        <3> QED
            BY <1>1, <2>3, <3>2 DEF TxnRowOK, AnnouncedOK
    <2>7. RowOK(p)'
        BY <1>2, <1>3, <1>4, <1>5, <2>2 DEF RowOK, TxnRowOK, AcceptOK
    <2>8. EventsOK(p)'
        <3>1. Sole(journal[t].kind, p)
            BY <1>2, <1>3, <1>4 DEF Sole, Of, TxnRowOK, AnnouncedOK
        <3> QED
            BY <1>1, <1>5, <2>2, <2>3, <3>1 DEF EventsOK
    <2>9. \A q \in Proposal \ {p} : RowOK(q)' /\ EventsOK(q)'
        BY <1>1, <2>1, <2>3 DEF DecisionInv, RowOK, EventsOK
    <2>10. PhaseOK(op)'
        BY <1>1, <1>2, <1>3, <2>1 DEF PhaseOK, OwnLabel, UndoLabel
    <2>11. ReadRowOK(op)'
        BY <1>1, <1>4, <1>5, <2>1, <2>2 DEF ReadRowOK
    <2> QED
        BY <2>4, <2>5, <2>6, <2>7, <2>8, <2>9, <2>10, <2>11 DEF DecisionInv
<1> QED
    BY <1>4, <1>6, <1>7 DEF PersistState, Done

\* An event is recorded, of a decision or of a rejection.
LEMMA EventDecides ==
    ASSUME ProposalInv, DecisionInv, PersistEvent \/ AnnounceReject
    PROVE  DecisionInv'
<1>0. op \in Op /\ OpOK(op) /\ op.pc \in {"event", "announce"}
    BY DEF ProposalInv, ProposalTypeOK, PersistEvent, AnnounceReject, At
<1>1. op.txn \in Txn /\ journal[op.txn].phase # "unused"
    BY <1>0 DEF OpOK, TxnOK, FileLabel, ForwardLabel, RejectLabel, FileTxn, Live
<1>2. PICK t \in Txn : t = op.txn
    BY <1>1
<1>3. journal' = journal /\ row' = row /\ events' = events \cup {t}
    BY <1>2 DEF PersistEvent, AnnounceReject
<1>4. \/ /\ op.pc = "event" /\ FileTxn(t) /\ journal[t].phase = "index-finalized"
         /\ op'.pc = "evented" /\ op'.txn = t
      \/ /\ journal[t].kind = "reject" /\ op'.pc = "announced"
    BY <1>0, <1>2, GotoKeeps DEF PersistEvent, AnnounceReject, At, OpOK, TxnOK, FileLabel, ForwardLabel,
                           RejectLabel, DecisionInv, PhaseOK
<1>5. /\ \A u : FileTxn(u)' = FileTxn(u)
      /\ \A kind, u, p : Of(kind, u, p)' = Of(kind, u, p)
    BY <1>3 DEF FileTxn, Live, Of
<1>6. OneFileTxn' /\ \A p \in Proposal : RowOK(p)'
    BY <1>3, <1>5 DEF DecisionInv, OneFileTxn, RowOK
<1>7. \A u \in events' : journal'[u].phase # "unused"
    BY <1>1, <1>2, <1>3 DEF DecisionInv
<1>8. PhaseOK(op)' /\ ReadRowOK(op)'
    BY <1>3, <1>4 DEF PhaseOK, ReadRowOK, OwnLabel, UndoLabel
<1>9. CASE journal[t].kind = "reject"
    <2>1. \A p : ~Of("accept", t, p) /\ ~Of("revert", t, p) /\ ~FileTxn(t)
        BY <1>9 DEF Of, FileTxn
    <2>2. ASSUME NEW u \in Txn
          PROVE  TxnRowOK(u)'
        <3> SUFFICES ASSUME FileTxn(u)
                     PROVE  TxnRowOK(u)'
            BY <1>5 DEF TxnRowOK
        <3>1. TxnRowOK(u) /\ u # t
            BY <2>1 DEF DecisionInv
        <3>2. journal[u].kind # journal[t].kind
            BY <1>9 DEF FileTxn
        <3>3. AnnouncedOK(u)'
            BY <1>3, <1>5, <3>1, <3>2 DEF TxnRowOK, AnnouncedOK, Of
        <3> QED
            BY <1>3, <3>1, <3>3 DEF TxnRowOK
    <2>3. ASSUME NEW p \in Proposal
          PROVE  EventsOK(p)'
        <3>1. Sole("accept", p)' = Sole("accept", p) /\ Sole("revert", p)' = Sole("revert", p)
            BY <1>3, <1>5, <2>1 DEF Sole
        <3> QED
            BY <1>3, <1>5, <2>1, <3>1 DEF DecisionInv, EventsOK
    <2> QED
        BY <1>6, <1>7, <1>8, <2>2, <2>3 DEF DecisionInv
<1>10. CASE FileTxn(t) /\ journal[t].phase = "index-finalized"
    <2>1. PICK p \in Proposal : p = journal[t].prop
        BY <1>10, FileTxnOf
    <2>2. /\ TxnRowOK(t) /\ journal[t].kind \in {"accept", "revert"}
          /\ journal[t].kind = "accept" => row[p].status = "accepted"
          /\ journal[t].kind = "revert" => row[p].status = "reverted"
          /\ \A u \in events : Of(journal[t].kind, u, p) => u = t
        BY <1>10, <2>1, FileTxnOf DEF DecisionInv, TxnRowOK, AcceptOK, RevertOK, Early, AnnouncedOK
    <2>3. ASSUME NEW u \in Txn
          PROVE  TxnRowOK(u)'
        <3> SUFFICES ASSUME FileTxn(u)
                     PROVE  TxnRowOK(u)'
            BY <1>5 DEF TxnRowOK
        <3>1. TxnRowOK(u)
            BY DEF DecisionInv
        <3>2. u # t => journal[u].prop # p
            BY <1>10, <2>1 DEF DecisionInv, OneFileTxn
        <3>3. AnnouncedOK(u)'
            <4>1. u # t => ~Of(journal[u].kind, t, journal[u].prop)
                BY <2>1, <3>2 DEF Of
            <4> QED
                BY <1>3, <1>5, <1>10, <3>1, <4>1 DEF TxnRowOK, AnnouncedOK, Early
        <3> QED
            BY <1>3, <3>1, <3>3 DEF TxnRowOK
    <2>4. ASSUME NEW q \in Proposal
          PROVE  EventsOK(q)'
        <3>1. ASSUME NEW kind, Sole(kind, q)
              PROVE  Sole(kind, q)'
            <4>1. CASE Of(kind, t, q)
                <5>1. Of(kind, t, q)' /\ FileTxn(t)' /\ q = p /\ kind = journal[t].kind
                    BY <1>5, <1>10, <2>1, <4>1 DEF Of
                <5>2. \A u \in events' : Of(kind, u, q)' => u = t
                    BY <1>3, <1>5, <2>2, <5>1
                <5> QED
                    BY <5>1, <5>2 DEF Sole
            <4>2. CASE ~Of(kind, t, q)
                BY <1>3, <1>5, <3>1, <4>2 DEF Sole
            <4> QED
                BY <4>1, <4>2
        <3>2. EventsOK(q)
            BY DEF DecisionInv
        <3>3. \A kind : Of(kind, t, q) => q = p /\ kind = journal[t].kind
            BY <2>1 DEF Of
        <3> QED
            BY <1>3, <1>5, <2>2, <3>1, <3>2, <3>3 DEF EventsOK
    <2> QED
        BY <1>6, <1>7, <1>8, <2>3, <2>4 DEF DecisionInv
<1> QED
    BY <1>4, <1>9, <1>10

-----------------------------------------------------------------------------
(* Steps on journals.                                                      *)

\* A journal that gets its next phase keeps the rest.
LEMMA SetPhaseKeeps ==
    ASSUME ProposalInv, NEW t \in Txn, journal[t].phase # "unused", NEW phase \in Phase, SetPhase(t, phase)
    PROVE  /\ \A u \in Txn \ {t} : journal'[u] = journal[u]
           /\ journal'[t].phase = phase
           /\ journal'[t].kind = journal[t].kind /\ journal'[t].prop = journal[t].prop
           /\ journal'[t].original = journal[t].original
           /\ journal'[t].published = journal[t].published
           /\ journal'[t].backup = journal[t].backup
BY DEF SetPhase, ProposalInv, JournalsOK, Journal

\* A transaction may go when it has announced its decision, or has not made it.
LEMMA NextPhaseDecides ==
    ASSUME ProposalInv, DecisionInv, NEW t \in Txn, journal[t].phase # "unused",
           NEW phase \in Phase \ {"unused"}, SetPhase(t, phase), row' = row, events' = events,
           FileTxn(t)' => FileTxn(t),
           FileTxn(t) => FileTxn(t)' \/ t \in events \/ journal[t].phase = "prepared",
           TxnRowOK(t)', PhaseOK(op)', ReadRowOK(op)'
    PROVE  DecisionInv'
<1>1. /\ \A u \in Txn \ {t} : journal'[u] = journal[u]
      /\ journal'[t].phase = phase
      /\ journal'[t].kind = journal[t].kind /\ journal'[t].prop = journal[t].prop
    BY SetPhaseKeeps
<1>2. \A u \in Txn \ {t} : FileTxn(u)' = FileTxn(u)
    BY <1>1 DEF FileTxn, Live
<1>3. \A kind : \A u \in Txn : \A p : Of(kind, u, p)' = Of(kind, u, p)
    BY <1>1 DEF Of
<1>4. events \subseteq Txn /\ events' \subseteq Txn
    BY DEF ProposalInv, ProposalTypeOK
<1>5. OneFileTxn'
    BY <1>1, <1>2 DEF DecisionInv, OneFileTxn
<1>6. ASSUME NEW u \in Txn, u # t
      PROVE  TxnRowOK(u)'
    <2> SUFFICES ASSUME FileTxn(u)
                 PROVE  TxnRowOK(u)'
        BY <1>2, <1>6 DEF TxnRowOK
    <2>1. TxnRowOK(u) /\ journal'[u] = journal[u]
        BY <1>1, <1>6 DEF DecisionInv
    <2>2. AnnouncedOK(u)'
        BY <1>3, <1>4, <2>1 DEF TxnRowOK, AnnouncedOK
    <2> QED
        BY <2>1, <2>2 DEF TxnRowOK
<1>7. ASSUME NEW p \in Proposal
      PROVE  RowOK(p)' /\ EventsOK(p)'
    <2>1. RowOK(p) /\ EventsOK(p)
        BY DEF DecisionInv
    <2>2. ASSUME NEW kind, Sole(kind, p), ~(Of(kind, t, p) /\ FileTxn(t) /\ journal[t].phase = "prepared")
          PROVE  Sole(kind, p)'
        <3>1. PICK u \in Txn : /\ Of(kind, u, p) /\ (u \in events \/ FileTxn(u))
                               /\ \A v \in events : Of(kind, v, p) => v = u
            BY <2>2 DEF Sole
        <3>2. u \in events' \/ FileTxn(u)'
            BY <1>2, <2>2, <3>1
        <3> QED
            BY <1>3, <1>4, <3>1, <3>2 DEF Sole
    <2>3. ASSUME FileTxn(t), journal[t].phase = "prepared", journal[t].prop = p
          PROVE  /\ journal[t].kind = "accept" => row[p].status \in {"pending", "rejected"}
                 /\ journal[t].kind = "revert" => row[p].status = "accepted"
        BY <2>3 DEF DecisionInv, TxnRowOK, AcceptOK, RevertOK
    <2>4. row[p].status \in {"accepted", "reverted"} => Sole("accept", p)'
        BY <2>1, <2>2, <2>3 DEF EventsOK, Of
    <2>5. row[p].status = "reverted" => Sole("revert", p)'
        BY <2>1, <2>2, <2>3 DEF EventsOK, Of
    <2> QED
        BY <1>3, <1>4, <2>1, <2>4, <2>5 DEF RowOK, EventsOK
<1>8. \A u \in events' : journal'[u].phase # "unused"
    BY <1>1, <1>4 DEF DecisionInv
<1> QED
    BY <1>5, <1>6, <1>7, <1>8 DEF DecisionInv

\* A phase is recorded on the way forward.
LEMMA PhaseStepDecides ==
    ASSUME ProposalInv, DecisionInv, PhaseStep
    PROVE  DecisionInv'
<1>0. op \in Op /\ OpOK(op) /\ PhaseOK(op) /\ ReadRowOK(op)
    BY DEF ProposalInv, ProposalTypeOK, DecisionInv
<1>1. row' = row /\ events' = events
    BY DEF PhaseStep, AdvancePublished, AdvancePersisted, FinalizeIndex, AdvanceEvented, Settle, rowVars
<1>2. op.pc \in FileLabel
    BY DEF PhaseStep, AdvancePublished, AdvancePersisted, FinalizeIndex, AdvanceEvented, Settle, At,
           FileLabel, OwnLabel, ForwardLabel
<1>3. op.txn \in Txn /\ FileTxn(op.txn)
    BY <1>0, <1>2 DEF OpOK, TxnOK
<1>4. PICK t \in Txn : t = op.txn
    BY <1>3
<1>5. FileTxn(t) /\ TxnRowOK(t) /\ journal[t].phase # "unused"
    BY <1>3, <1>4 DEF DecisionInv, FileTxn, Live
<1>6. ASSUME NEW phase \in Phase \ {"unused", "gone", "state-persisted"}, NEW label, SetPhase(t, phase), Goto(label),
             \/ journal[t].phase = "prepared" /\ phase = "asset-published" /\ label = "validate"
             \/ /\ journal[t].phase = "asset-published" /\ phase = "proposal-persisted" /\ label = "index"
                /\ row[journal[t].prop].status = IF journal[t].kind = "accept" THEN "accepted" ELSE "reverted"
             \/ journal[t].phase = "proposal-persisted" /\ phase = "index-finalized" /\ label = "event"
             \/ /\ journal[t].phase = "index-finalized" /\ phase = "event-finalized" /\ label = "settle"
                /\ t \in events
             \/ journal[t].phase = "event-finalized" /\ phase = "committed" /\ label = "remove"
      PROVE  DecisionInv'
    <2>1. /\ \A u \in Txn \ {t} : journal'[u] = journal[u]
          /\ journal'[t].phase = phase
          /\ journal'[t].kind = journal[t].kind /\ journal'[t].prop = journal[t].prop
          /\ journal'[t].original = journal[t].original
          /\ journal'[t].published = journal[t].published
          /\ journal'[t].backup = journal[t].backup
        BY <1>5, <1>6, SetPhaseKeeps
    <2>2. op'.pc = label /\ op'.txn = t
        BY <1>0, <1>4, <1>6, GotoKeeps
    <2>3. FileTxn(t)'
        BY <1>5, <1>6, <2>1 DEF FileTxn, Live
    <2>4. AnnouncedOK(t)'
        <3>1. \A u \in events : \A kind, p : Of(kind, u, p)' = Of(kind, u, p)
            BY <2>1 DEF Of, ProposalInv, ProposalTypeOK
        <3> QED
            BY <1>1, <1>5, <1>6, <2>1, <3>1 DEF TxnRowOK, AnnouncedOK, Early
    <2>5. TxnRowOK(t)'
        <3>1. journal[t].kind = "accept" => AcceptOK(journal'[t], row[journal[t].prop])
            BY <1>5, <1>6, <2>1 DEF TxnRowOK, AcceptOK, Early
        <3>2. journal[t].kind = "revert" => RevertOK(journal'[t], row[journal[t].prop])
            BY <1>5, <1>6, <2>1 DEF TxnRowOK, RevertOK, Early
        <3> QED
            BY <1>1, <1>6, <2>1, <2>4, <3>1, <3>2 DEF TxnRowOK
    <2>6. PhaseOK(op)' /\ ReadRowOK(op)'
        BY <1>6, <2>1, <2>2 DEF PhaseOK, ReadRowOK, OwnLabel, UndoLabel
    <2> QED
        BY <1>1, <1>5, <1>6, <2>3, <2>5, <2>6, NextPhaseDecides
<1>7. CASE AdvancePublished
    <2>1. journal[t].phase = "prepared" /\ SetPhase(t, "asset-published") /\ Goto("validate")
        BY <1>0, <1>4, <1>7 DEF AdvancePublished, At, PhaseOK, OwnLabel
    <2> QED
        BY <1>6, <2>1 DEF Phase
<1>8. CASE AdvancePersisted
    <2>1. /\ journal[t].phase = "asset-published" /\ SetPhase(t, "proposal-persisted") /\ Goto("index")
          /\ row[journal[t].prop].status = IF journal[t].kind = "accept" THEN "accepted" ELSE "reverted"
        BY <1>0, <1>4, <1>8 DEF AdvancePersisted, At, PhaseOK, ReadRowOK
    <2> QED
        BY <1>6, <2>1 DEF Phase
<1>9. CASE FinalizeIndex
    <2>1. journal[t].phase = "proposal-persisted" /\ SetPhase(t, "index-finalized") /\ Goto("event")
        BY <1>0, <1>4, <1>9 DEF FinalizeIndex, At, PhaseOK
    <2> QED
        BY <1>6, <2>1 DEF Phase
<1>10. CASE AdvanceEvented
    <2>1. /\ journal[t].phase = "index-finalized" /\ SetPhase(t, "event-finalized") /\ Goto("settle")
          /\ t \in events
        BY <1>0, <1>4, <1>10 DEF AdvanceEvented, At, PhaseOK, ReadRowOK
    <2> QED
        BY <1>6, <2>1 DEF Phase
<1>11. CASE Settle
    <2>1. journal[t].phase = "event-finalized" /\ SetPhase(t, "committed") /\ Goto("remove")
        BY <1>0, <1>4, <1>11 DEF Settle, At, PhaseOK
    <2> QED
        BY <1>6, <2>1 DEF Phase
<1> QED
    BY <1>7, <1>8, <1>9, <1>10, <1>11 DEF PhaseStep

\* The journal of an undone or finished transaction is removed.
LEMMA RemoveDecides ==
    ASSUME ProposalInv, DecisionInv, RemoveJournal
    PROVE  DecisionInv'
<1>0. op \in Op /\ op.pc = "remove" /\ op.txn \in Txn /\ FileTxn(op.txn)
    BY DEF ProposalInv, ProposalTypeOK, OpOK, TxnOK, FileLabel, RemoveJournal, At
<1>1. PICK t \in Txn : t = op.txn
    BY <1>0
<1>2. /\ FileTxn(t) /\ journal[t].phase \in {"prepared", "committed"} /\ journal[t].phase # "unused"
      /\ TxnRowOK(t) /\ SetPhase(t, "gone") /\ row' = row /\ events' = events
    BY <1>0, <1>1 DEF DecisionInv, PhaseOK, RemoveJournal, rowVars
<1>3. journal'[t].phase = "gone" /\ "gone" \in Phase
    BY <1>2, SetPhaseKeeps DEF Phase
<1>4. ~FileTxn(t)'
    BY <1>3 DEF FileTxn, Live
<1>5. op'.pc \in FreeLabel
    <2>1. op' = NoOp \/ op' = [op EXCEPT !.pc = "recover", !.txn = None]
        BY DEF RemoveJournal, Done
    <2>2. op' = NoOp => op'.pc = "idle"
        BY DEF NoOp
    <2>3. op' = [op EXCEPT !.pc = "recover", !.txn = None] => op'.pc = "recover"
        BY <1>0 DEF Op
    <2> QED
        BY <2>1, <2>2, <2>3 DEF FreeLabel
<1>6. t \in events \/ journal[t].phase = "prepared"
    BY <1>2 DEF TxnRowOK, AnnouncedOK
<1> QED
    BY <1>2, <1>3, <1>4, <1>5, <1>6, FreeOK, NextPhaseDecides DEF TxnRowOK

\* A phase of a rejection is recorded.
LEMMA RejectPhaseDecides ==
    ASSUME ProposalInv, DecisionInv, AdvanceArchived \/ AdvanceAnnounced \/ DisposeReject
    PROVE  DecisionInv'
<1>0. op \in Op /\ op.pc \in RejectLabel /\ OpOK(op)
    BY DEF ProposalInv, ProposalTypeOK, AdvanceArchived, AdvanceAnnounced, DisposeReject, At, RejectLabel
<1>1. op.txn \in Txn /\ journal[op.txn].kind = "reject" /\ journal[op.txn].phase # "unused"
    BY <1>0 DEF OpOK, TxnOK
<1>2. PICK t \in Txn : t = op.txn
    BY <1>1
<1>3. PICK phase \in Phase \ {"unused"} : SetPhase(t, phase)
    BY <1>2 DEF AdvanceArchived, AdvanceAnnounced, DisposeReject, Phase
<1>4. row' = row /\ events' = events
    BY DEF AdvanceArchived, AdvanceAnnounced, DisposeReject, rowVars
<1>5. ~FileTxn(t) /\ ~FileTxn(t)'
    BY <1>1, <1>2, <1>3, SetPhaseKeeps DEF FileTxn
<1>6. op'.pc \in FreeLabel
    <2>1. CASE AdvanceArchived \/ AdvanceAnnounced
        BY <1>0, <2>1, GotoKeeps DEF AdvanceArchived, AdvanceAnnounced, FreeLabel
    <2>2. CASE DisposeReject
        <3>1. \/ op' = op /\ op.pc = "dispose"
              \/ op' = NoOp
              \/ op' = [op EXCEPT !.pc = "read", !.txn = None]
            BY <2>2 DEF DisposeReject, Done, At
        <3>2. op' = NoOp => op'.pc = "idle"
            BY DEF NoOp
        <3>3. op' = [op EXCEPT !.pc = "read", !.txn = None] => op'.pc = "read"
            BY <1>0 DEF Op
        <3> QED
            BY <3>1, <3>2, <3>3 DEF FreeLabel
    <2> QED
        BY <2>1, <2>2
<1> QED
    BY <1>1, <1>2, <1>3, <1>4, <1>5, <1>6, FreeOK, NextPhaseDecides DEF TxnRowOK

\* A transaction is begun.
LEMMA PrepareDecides ==
    ASSUME ProposalInv, DecisionInv, Prepare
    PROVE  DecisionInv'
<1>0. /\ op \in Op /\ OpOK(op) /\ ReadRowOK(op) /\ op.pc = "prepare" /\ op.pc # "idle" /\ JournalsOK
      /\ events \subseteq Txn
    BY DEF ProposalInv, ProposalTypeOK, Prepare, At, DecisionInv
<1>1. op.kind \in Kind /\ op.prop \in Proposal /\ Unused # {}
    BY <1>0 DEF OpOK, ReadOK
<1>2. PICK t \in Txn : t = (CHOOSE u \in Unused : TRUE) /\ journal[t].phase = "unused"
    <2> DEFINE c == CHOOSE u \in Unused : TRUE
    <2>1. c \in Unused
        BY <1>1
    <2> HIDE DEF c
    <2>2. c \in Txn /\ journal[c].phase = "unused"
        BY <2>1 DEF Unused
    <2> QED
        BY <2>2 DEF c
<1> DEFINE original == IF op.kind = "reject" THEN None ELSE op.found
           published == CASE op.kind = "accept" -> op.prop
                          [] op.kind = "revert" -> op.read.backup
                          [] op.kind = "reject" -> None
           backup == IF op.kind = "accept" THEN op.found ELSE None
           j == [phase |-> "prepared", kind |-> op.kind, prop |-> op.prop,
                 original |-> original, published |-> published, backup |-> backup]
           label == IF op.kind = "reject" THEN "decide" ELSE "stage"
<1>3. /\ journal' = [journal EXCEPT ![t] = j] /\ row' = row /\ events' = events
      /\ op' = [op EXCEPT !.txn = t, !.own = TRUE, !.read = None, !.found = None, !.pc = label]
    BY <1>2 DEF Prepare, rowVars
<1>4. /\ op.kind = "accept" => original = op.found /\ published = op.prop /\ backup = op.found
      /\ op.kind = "revert" => original = op.found /\ published = op.read.backup /\ backup = None
      /\ label \in {"decide", "stage"}
    BY DEF Kind
<1> HIDE DEF original, published, backup, label
<1>5. /\ j.phase = "prepared" /\ j.kind = op.kind /\ j.prop = op.prop
      /\ j.original = original /\ j.published = published /\ j.backup = backup
    OBVIOUS
<1> HIDE DEF j
<1>6. journal'[t] = j /\ \A u \in Txn \ {t} : journal'[u] = journal[u]
    BY <1>0, <1>3 DEF JournalsOK
<1>7. op'.pc = label /\ op'.txn = t
    BY <1>0, <1>3 DEF Op
<1>8. t \notin events /\ ~FileTxn(t)
    BY <1>2 DEF DecisionInv, FileTxn, Live
<1>9. /\ \A u \in Txn \ {t} : FileTxn(u)' = FileTxn(u)
      /\ \A kind : \A u \in Txn \ {t} : \A p : Of(kind, u, p)' = Of(kind, u, p)
      /\ FileTxn(t)' <=> op.kind # "reject"
    BY <1>5, <1>6 DEF FileTxn, Live, Of
<1>10. OneFileTxn'
    <2>1. op.kind # "reject" => \A u \in Txn : FileTxn(u) => journal[u].prop # op.prop
        BY <1>0 DEF OpOK, AloneOK
    <2>2. ASSUME NEW u \in Txn, NEW v \in Txn, FileTxn(u)', FileTxn(v)', journal'[u].prop = journal'[v].prop
          PROVE  u = v
        <3>1. CASE u = t \/ v = t
            BY <1>5, <1>6, <1>9, <2>1, <2>2, <3>1
        <3>2. CASE u # t /\ v # t
            BY <1>6, <1>9, <2>2, <3>2 DEF DecisionInv, OneFileTxn
        <3> QED
            BY <3>1, <3>2
    <2> QED
        BY <2>2 DEF OneFileTxn
<1>11. ASSUME NEW u \in Txn, u # t
       PROVE  TxnRowOK(u)'
    <2> SUFFICES ASSUME FileTxn(u)
                 PROVE  TxnRowOK(u)'
        BY <1>9, <1>11 DEF TxnRowOK
    <2>1. TxnRowOK(u) /\ journal'[u] = journal[u]
        BY <1>6, <1>11 DEF DecisionInv
    <2>2. AnnouncedOK(u)'
        BY <1>0, <1>3, <1>8, <1>9, <2>1 DEF TxnRowOK, AnnouncedOK
    <2> QED
        BY <1>3, <2>1, <2>2 DEF TxnRowOK
<1>12. TxnRowOK(t)'
    <2> SUFFICES ASSUME op.kind \in {"accept", "revert"}
                 PROVE  TxnRowOK(t)'
        BY <1>1, <1>9 DEF TxnRowOK, Kind
    <2>1. RowOK(op.prop) /\ EventsOK(op.prop)
        BY <1>1 DEF DecisionInv
    <2>2. op.kind = "accept" => AcceptOK(j, row[op.prop])
        BY <1>0, <1>4, <1>5 DEF ReadRowOK, AcceptOK, Early
    <2>3. op.kind = "revert" => RevertOK(j, row[op.prop])
        BY <1>0, <1>4, <1>5 DEF ReadRowOK, RevertOK, Early
    <2>4. \A u \in events : ~Of(op.kind, u, op.prop)
        <3>1. CASE op.kind = "accept"
            BY <1>0, <2>1, <3>1 DEF ReadRowOK, EventsOK
        <3>2. CASE op.kind = "revert"
            BY <1>0, <2>1, <3>2 DEF ReadRowOK, EventsOK
        <3> QED
            BY <3>1, <3>2
    <2>5. \A u \in events : ~(journal'[u].kind = op.kind /\ journal'[u].prop = op.prop)
        BY <1>0, <1>6, <1>8, <2>4 DEF Of
    <2>6. AnnouncedOK(t)'
        BY <1>3, <1>5, <1>6, <1>8, <2>5 DEF AnnouncedOK, Early, Of
    <2> QED
        BY <1>3, <1>5, <1>6, <2>2, <2>3, <2>6 DEF TxnRowOK
<1>13. ASSUME NEW p \in Proposal
       PROVE  RowOK(p)' /\ EventsOK(p)'
    <2>1. RowOK(p) /\ EventsOK(p)
        BY DEF DecisionInv
    <2>2. ASSUME NEW kind, Sole(kind, p)
          PROVE  Sole(kind, p)'
        <3>1. PICK u \in Txn : /\ Of(kind, u, p) /\ (u \in events \/ FileTxn(u))
                               /\ \A v \in events : Of(kind, v, p) => v = u
            BY <2>2 DEF Sole
        <3>2. u # t
            BY <1>8, <3>1
        <3> QED
            BY <1>0, <1>3, <1>8, <1>9, <3>1, <3>2 DEF Sole
    <2> QED
        BY <1>0, <1>3, <1>8, <1>9, <2>1, <2>2 DEF RowOK, EventsOK
<1>14. \A u \in events' : journal'[u].phase # "unused"
    BY <1>0, <1>3, <1>6, <1>8 DEF DecisionInv
<1>15. PhaseOK(op)' /\ ReadRowOK(op)'
    BY <1>4, <1>5, <1>6, <1>7 DEF PhaseOK, ReadRowOK, OwnLabel, UndoLabel
<1> QED
    BY <1>10, <1>11, <1>12, <1>13, <1>14, <1>15 DEF DecisionInv

\* The beginning and the death of an operation, and what others do to the file.
LEMMA OutsideDecides ==
    ASSUME ProposalInv, DecisionInv,
           \/ \E kind \in Kind, p \in Proposal : Begin(kind, p)
           \/ \E p \in Proposal : PurgeLooks(p)
           \/ \E content \in {Edit, None} : EditAsset(content)
           \/ CrashOp
           \/ UNCHANGED proposalVars
    PROVE  DecisionInv'
<1>1. row' = row /\ events' = events /\ journal' = journal
    BY DEF Begin, PurgeLooks, EditAsset, CrashOp, proposalVars, rowVars
<1>2. op' = op \/ op'.pc \in FreeLabel
    <2>1. ASSUME NEW kind \in Kind, NEW p \in Proposal, Begin(kind, p)
          PROVE  op'.pc \in FreeLabel
        BY <2>1 DEF Begin, NoOp, FreeLabel
    <2>2. NoOp.pc \in FreeLabel
        BY DEF NoOp, FreeLabel
    <2> QED
        BY <2>1, <2>2 DEF PurgeLooks, EditAsset, CrashOp, Done, proposalVars
<1>3. op' = op => PhaseOK(op)' /\ ReadRowOK(op)'
    BY <1>1 DEF DecisionInv, PhaseOK, ReadRowOK
<1> QED
    BY <1>1, <1>2, <1>3, FreeOK, DecisionQuiet

\* Rows, journals and events agree, at every step of an operation.
LEMMA DecisionInvCorrect == ProposalSpec => []DecisionInv
<1>1. ProposalInit => DecisionInv
    <2> SUFFICES ASSUME ProposalInit
                 PROVE  DecisionInv
        OBVIOUS
    <2>1. op.pc = "idle" /\ events = {}
        BY DEF ProposalInit, NoOp
    <2>2. \A t \in Txn : journal[t].phase = "unused"
        BY DEF ProposalInit, NoJournal
    <2>3. \A t \in Txn : ~FileTxn(t)
        BY <2>2 DEF FileTxn, Live
    <2>4. ASSUME NEW p \in Proposal
          PROVE  row[p].status = "pending" /\ row[p].before \in {Base, None} /\ row[p].backup = None
        <3>1. PICK first \in {Base, None} :
                row = [q \in Proposal |-> [status |-> "pending", before |-> first, backup |-> None]]
            BY DEF ProposalInit
        <3> QED
            BY <3>1
    <2>5. PhaseOK(op) /\ ReadRowOK(op)
        BY <2>1 DEF PhaseOK, ReadRowOK, OwnLabel, UndoLabel
    <2> QED
        BY <2>1, <2>3, <2>4, <2>5 DEF DecisionInv, OneFileTxn, RowOK, EventsOK, TxnRowOK
<1>2. ProposalInv /\ DecisionInv /\ [ProposalNext]_proposalVars => DecisionInv'
    <2> SUFFICES ASSUME ProposalInv, DecisionInv, [ProposalNext]_proposalVars
                 PROVE  DecisionInv'
        OBVIOUS
    <2>1. CASE OpStep
        BY <2>1, AssetStepDecides, ForwardStepDecides, ReadStepDecides, ArchiveStepDecides,
           PersistStateDecides, EventDecides, PhaseStepDecides, RemoveDecides, RejectPhaseDecides, PrepareDecides
           DEF OpStep, PhaseStep
    <2> QED
        BY <2>1, OutsideDecides, ArchiveStepDecides DEF ProposalNext
<1> QED
    BY <1>1, <1>2, ProposalInvCorrect, PTL DEF ProposalSpec

-----------------------------------------------------------------------------
(* The file.                                                               *)

\* What has been moved aside is what the journal says, or else an edit that is about
\* to be put back.
DisplacedOK(t) ==
    displaced[t] # None =>
        /\ FileTxn(t) /\ displaced[t] \in {journal[t].original, Edit}
        /\ journal[t].phase # "prepared" => displaced[t] = journal[t].original
ContentKnown ==
    \A p \in Proposal : asset.content = p =>
        row[p].status = "accepted" \/ \E t \in Txn : FileTxn(t) /\ Of("accept", t, p)
\* What the file can be at each label of an operation.
FileOpOK(o) ==
    /\ o.pc = "prepare" /\ o.kind # "reject" => asset.content \in {o.found, Edit, None}
    /\ o.pc \in {"stage", "displace"} =>
        asset.content \in {journal[o.txn].original, Edit, None} /\ displaced[o.txn] = None
    /\ o.pc \in {"link", "committing"} => displaced[o.txn] = journal[o.txn].original
    /\ o.pc = "unlink" => displaced[o.txn] # None \/ journal[o.txn].original = None
    /\ o.pc \in {"verify", "restore"} => displaced[o.txn] # None
    /\ o.pc \in {"scrub", "remove"} /\ journal[o.txn].phase = "prepared" /\ journal[o.txn].kind = "accept" =>
        asset.content # journal[o.txn].prop
    /\ o.pc \in {"clean", "git", "persist"} /\ journal[o.txn].kind = "revert" =>
        asset.content # journal[o.txn].prop

\* As long as the user does not touch the file.
CleanOp(o) ==
    /\ o.pc = "prepare" /\ o.kind # "reject" => asset.content = o.found
    /\ o.pc \in {"stage", "displace"} => asset.content = journal[o.txn].original
    /\ o.pc \in {"committing", "unlink"} => asset.content = journal[o.txn].published
    /\ o.pc \in {"scrub", "remove"} /\ journal[o.txn].phase = "prepared" /\ journal[o.txn].kind = "revert" =>
            asset.content = journal[o.txn].prop
InPlace ==
    /\ \A p \in Proposal : row[p].status = "accepted" =>
            asset.content = p \/ \E t \in Txn : FileTxn(t) /\ Of("revert", t, p)
    /\ \A t \in Txn : FileTxn(t) /\ journal[t].kind = "accept" /\ journal[t].phase # "prepared" =>
            asset.content = journal[t].prop
Untouched ==
    /\ asset.content # Edit /\ \A t \in Txn : displaced[t] # Edit
    /\ InPlace
    /\ CleanOp(op)

FileInv ==
    /\ asset.content = None => asset = NoFile
    /\ \A t \in Txn : DisplacedOK(t)
    /\ ContentKnown
    /\ FileOpOK(op)
    /\ edits = 0 => Untouched

\* At these labels nothing is said of the file.
FileFreeLabel == {"idle", "rejects", "read", "repair", "list", "recover", "check", "inspect", "validate",
                  "persisted", "index", "event", "evented", "settle",
                  "decide", "archive", "archived", "announce", "announced", "dispose"}
\* A step to one of them needs no more.
LEMMA FileFreeOK ==
    ASSUME op'.pc \in FileFreeLabel
    PROVE  FileOpOK(op)' /\ CleanOp(op)'
BY DEF FileFreeLabel, FileOpOK, CleanOp

\* The transaction of the lease holder.
LEMMA HolderTxn ==
    ASSUME ProposalInv, DecisionInv, op.pc \in FileLabel
    PROVE  /\ op.txn \in Txn /\ FileTxn(op.txn) /\ TxnRowOK(op.txn) /\ op \in Op /\ FieldsOK
           /\ op.pc \in OwnLabel \cup UndoLabel => journal[op.txn].phase = "prepared"
BY DEF ProposalInv, ProposalTypeOK, OpOK, TxnOK, DecisionInv, PhaseOK, FieldsOK

-----------------------------------------------------------------------------
(* Steps that leave the file alone, and what has been moved aside.         *)

\* What is accepted, stays so.
SameAccepted == \A p \in Proposal : row'[p].status = "accepted" <=> row[p].status = "accepted"

\* Where nothing is moved and nothing accepted, only the label has to fit.
LEMMA FileQuiet ==
    ASSUME FileInv, asset' = asset, displaced' = displaced, journal' = journal, edits' = edits,
           SameAccepted, FileOpOK(op)', edits = 0 => CleanOp(op)'
    PROVE  FileInv'
<1>1. /\ \A t : FileTxn(t)' = FileTxn(t)
      /\ \A kind, t, p : Of(kind, t, p)' = Of(kind, t, p)
    BY DEF FileTxn, Live, Of
<1>2. \A t \in Txn : DisplacedOK(t)'
    BY <1>1 DEF FileInv, DisplacedOK
<1>3. ContentKnown'
    BY <1>1 DEF FileInv, ContentKnown, SameAccepted
<1>4. edits = 0 => Untouched'
    BY <1>1 DEF FileInv, Untouched, InPlace, SameAccepted
<1> QED
    BY <1>2, <1>3, <1>4 DEF FileInv

\* A file is staged, looked at and validated, and published with git.
LEMMA LookStepFiles ==
    ASSUME ProposalInv, DecisionInv, FileInv,
           \/ StagePublish \/ InspectAsset \/ ValidatePublished \/ PublishGit \/ ServiceFails \/ PersistEvent
    PROVE  FileInv'
<1>1. /\ asset' = asset /\ displaced' = displaced /\ journal' = journal /\ edits' = edits /\ row' = row
      /\ SameAccepted
    BY DEF StagePublish, InspectAsset, ValidatePublished, PublishGit, ServiceFails, PersistEvent,
           rowVars, fileVars, faultVars, SameAccepted
<1>2. op.pc \in FileLabel
    BY DEF StagePublish, InspectAsset, ValidatePublished, PublishGit, ServiceFails, PersistEvent, At,
           FileLabel, OwnLabel, UndoLabel, ForwardLabel
<1>3. op.txn \in Txn /\ FileTxn(op.txn) /\ op \in Op
    BY <1>2, HolderTxn
<1>4. FileOpOK(op) /\ (edits = 0 => CleanOp(op))
    BY DEF FileInv, Untouched
<1>5. FileOpOK(op)' /\ (edits = 0 => CleanOp(op)')
    <2>1. CASE op' = NoOp
        BY <2>1, FileFreeOK DEF NoOp, FileFreeLabel
    <2>2. ASSUME NEW label \in FileFreeLabel, Goto(label)
          PROVE  FileOpOK(op)' /\ CleanOp(op)'
        BY <1>3, <2>2, GotoKeeps, FileFreeOK
    <2>3. CASE StagePublish
        <3>1. op.pc = "stage" /\ (Goto("displace") \/ Goto("inspect"))
            BY <2>3 DEF StagePublish, At
        <3>2. CASE Goto("displace")
            <4>1. op'.pc = "displace" /\ op'.txn = op.txn
                BY <1>3, <3>2, GotoKeeps
            <4> QED
                BY <1>1, <1>4, <3>1, <4>1 DEF FileOpOK, CleanOp
        <3> QED
            BY <2>2, <3>1, <3>2 DEF FileFreeLabel
    <2>4. CASE InspectAsset
        <3> DEFINE j == journal[op.txn]
        <3>1. \/ Done
              \/ /\ Goto("unlink") /\ asset.content = j.published
                 /\ displaced[op.txn] # None \/ j.original = None
              \/ /\ Goto("scrub")
                 /\ \/ j.original = None /\ asset = NoFile
                    \/ asset.content = j.original
              \/ Goto("restore") /\ displaced[op.txn] # None
            BY <2>4 DEF InspectAsset, OwnLink, OfOp
        <3> HIDE DEF j
        <3>2. CASE Goto("unlink") /\ asset.content = j.published /\ (displaced[op.txn] # None \/ j.original = None)
            <4>1. op'.pc = "unlink" /\ op'.txn = op.txn
                BY <1>3, <3>2, GotoKeeps
            <4> QED
                BY <1>1, <3>2, <4>1 DEF FileOpOK, CleanOp, j
        <3>3. CASE Goto("scrub") /\ \/ j.original = None /\ asset = NoFile
                                    \/ asset.content = j.original
            <4>1. op'.pc = "scrub" /\ op'.txn = op.txn
                BY <1>3, <3>3, GotoKeeps
            <4>2. asset.content = j.original
                BY <3>3 DEF NoFile
            <4>3. j.kind = "accept" => asset.content # j.prop
                BY <1>3, <4>2, TxnShape, ContentsDiffer DEF j
            <4>4. j.kind = "revert" => asset.content = j.prop
                BY <1>3, <4>2, TxnShape DEF j
            <4> QED
                BY <1>1, <4>1, <4>3, <4>4 DEF FileOpOK, CleanOp, j
        <3>4. CASE Goto("restore") /\ displaced[op.txn] # None
            <4>1. op'.pc = "restore" /\ op'.txn = op.txn
                BY <1>3, <3>4, GotoKeeps
            <4> QED
                BY <1>1, <3>4, <4>1 DEF FileOpOK, CleanOp
        <3> QED
            BY <2>1, <3>1, <3>2, <3>3, <3>4 DEF Done
    <2>5. CASE ValidatePublished /\ Goto("clean")
        <3>1. asset.content = journal[op.txn].published \/ Done
            BY <2>5 DEF ValidatePublished, OfOp
        <3>2. op'.pc = "clean" /\ op'.txn = op.txn
            BY <1>3, <2>5, GotoKeeps
        <3>3. journal[op.txn].kind = "revert" /\ asset.content = journal[op.txn].published
                => asset.content # journal[op.txn].prop
            BY <1>3, TxnShape, ContentsDiffer
        <3> QED
            BY <1>1, <2>1, <3>1, <3>2, <3>3 DEF FileOpOK, CleanOp, Done
    <2>6. CASE PublishGit
        <3>1. op'.pc = "persist" /\ op'.txn = op.txn /\ op.pc = "git"
            BY <1>3, <2>6, GotoKeeps DEF PublishGit, At
        <3> QED
            BY <1>1, <1>4, <3>1 DEF FileOpOK, CleanOp
    <2>7. CASE PersistEvent
        BY <2>2, <2>7 DEF PersistEvent, FileFreeLabel
    <2> QED
        BY <2>1, <2>3, <2>4, <2>5, <2>6, <2>7 DEF ValidatePublished, ServiceFails, Done
<1> QED
    BY <1>1, <1>5, FileQuiet

\* The way to a transaction, a rejection, and the beginning and death of an operation.
LEMMA IdleStepFiles ==
    ASSUME ProposalInv, DecisionInv, FileInv,
           \/ RecoverReject \/ ReadProposal \/ PersistRepair \/ ListJournals \/ RecoverNext \/ ReadState
           \/ DecideReject \/ ArchiveRejected \/ AnnounceReject
           \/ \E kind \in Kind, p \in Proposal : Begin(kind, p)
           \/ \E p \in Proposal : ExpireStale(p) \/ PurgeLooks(p) \/ PurgeArchives(p)
           \/ CrashOp
           \/ UNCHANGED proposalVars
    PROVE  FileInv'
<1>0. op \in Op /\ OpOK(op)
    BY DEF ProposalInv, ProposalTypeOK
<1>1. asset' = asset /\ displaced' = displaced /\ journal' = journal /\ edits' = edits
    BY DEF RecoverReject, ReadProposal, PersistRepair, ListJournals, RecoverNext, ReadState,
           DecideReject, ArchiveRejected, AnnounceReject, Begin, ExpireStale, PurgeLooks, PurgeArchives,
           CrashOp, proposalVars, fileVars, faultVars
<1>2. SameAccepted
    <2>1. (\A p \in Proposal : ArchivedOrBack(p)) => SameAccepted
        BY DEF ArchivedOrBack, SameAccepted, Undecided
    <2>2. CASE PersistRepair
        BY <2>1, <2>2, RepairArchives
    <2>3. CASE ArchiveRejected
        <3>1. OfOp.prop \in Proposal
            BY <1>0, <2>3 DEF ArchiveRejected, At, OpOK, TxnOK, RejectLabel, ProposalInv, JournalsOK, OfOp
        <3>2. row' = row \/ Archives(OfOp.prop)
            BY <2>3 DEF ArchiveRejected, Archives
        <3> QED
            BY <2>1, <3>1, <3>2, ArchivesOne DEF SameAccepted
    <2>4. ASSUME NEW q \in Proposal, ExpireStale(q) \/ PurgeArchives(q)
          PROVE  SameAccepted
        <3>1. row' = row \/ Archives(q)
            BY <2>4 DEF ExpireStale, PurgeArchives, Archives
        <3> QED
            BY <2>1, <3>1, ArchivesOne DEF SameAccepted
    <2>5. row' = row => SameAccepted
        BY DEF SameAccepted
    <2> QED
        BY <2>2, <2>3, <2>4, <2>5
           DEF RecoverReject, ReadProposal, ListJournals, RecoverNext, ReadState, DecideReject,
               AnnounceReject, Begin, PurgeLooks, CrashOp, proposalVars, rowVars
<1>3. FileOpOK(op)' /\ (edits = 0 => CleanOp(op)')
    <2>1. CASE op' = NoOp
        BY <2>1, FileFreeOK DEF NoOp, FileFreeLabel
    <2>2. ASSUME NEW label \in FileFreeLabel, Goto(label)
          PROVE  FileOpOK(op)' /\ CleanOp(op)'
        BY <1>0, <2>2, GotoKeeps, FileFreeOK
    <2>3. CASE op' = op
        BY <1>1, <2>3 DEF FileInv, Untouched, FileOpOK, CleanOp
    <2>4. Goto(AfterRecovery) => FileOpOK(op)' /\ CleanOp(op)'
        BY <2>2 DEF AfterRecovery, FileFreeLabel
    <2>5. CASE RecoverReject
        <3>1. op'.pc \in {"read", "check", "decide", "announce", "dispose"}
            BY <1>0, <2>5 DEF RecoverReject, Goto, Op
        <3> QED
            BY <3>1, FileFreeOK DEF FileFreeLabel
    <2>6. CASE ReadProposal \/ PersistRepair
        <3>1. op' = NoOp \/ op'.pc \in {"repair", "list"}
            BY <1>0, <2>6 DEF ReadProposal, PersistRepair, Goto, Done, Op
        <3> QED
            BY <2>1, <3>1, FileFreeOK DEF FileFreeLabel
    <2>7. CASE ListJournals
        <3>1. ASSUME NEW todo, op' = [op EXCEPT !.pc = "recover", !.todo = todo]
              PROVE  op'.pc \in FileFreeLabel
            BY <1>0, <3>1 DEF Op, FileFreeLabel
        <3>2. Done \/ Goto(AfterRecovery) \/ \E todo : op' = [op EXCEPT !.pc = "recover", !.todo = todo]
            BY <2>7 DEF ListJournals
        <3> QED
            BY <2>1, <2>4, <3>1, <3>2, FileFreeOK DEF Done
    <2>8. CASE RecoverNext
        <3>1. ASSUME NEW t \in op.todo,
                     op' = [op EXCEPT !.txn = t, !.own = FALSE, !.todo = @ \ {t}, !.pc = Direction(t)]
              PROVE  FileOpOK(op)' /\ CleanOp(op)'
            <4> DEFINE label == Direction(t)
            <4>1. /\ label \in {"inspect", "remove", "validate"}
                  /\ label = "remove" => journal[t].phase = "committed"
                BY DEF Direction
            <4>2. op' = [op EXCEPT !.txn = t, !.own = FALSE, !.todo = @ \ {t}, !.pc = label]
                BY <3>1
            <4> HIDE DEF label
            <4>3. op'.pc = label /\ op'.txn = t
                BY <1>0, <4>2 DEF Op
            <4> QED
                BY <1>1, <4>1, <4>3 DEF FileOpOK, CleanOp
        <3> QED
            BY <2>4, <2>8, <3>1 DEF RecoverNext
    <2>9. CASE ReadState
        <3>1. op' = NoOp \/ (op'.pc = "prepare" /\ op'.found = asset.content)
            BY <1>0, <2>9 DEF ReadState, Done, Op
        <3> QED
            BY <1>1, <2>1, <3>1 DEF FileOpOK, CleanOp
    <2>10. CASE DecideReject \/ ArchiveRejected \/ AnnounceReject
        BY <2>1, <2>2, <2>10 DEF DecideReject, ArchiveRejected, AnnounceReject, Done, FileFreeLabel
    <2>11. ASSUME NEW kind \in Kind, NEW p \in Proposal, Begin(kind, p)
           PROVE  FileOpOK(op)' /\ CleanOp(op)'
        <3>1. op'.pc \in FileFreeLabel
            BY <2>11 DEF Begin, NoOp, FileFreeLabel
        <3> QED
            BY <3>1, FileFreeOK
    <2> QED
        BY <2>1, <2>3, <2>5, <2>6, <2>7, <2>8, <2>9, <2>10, <2>11
           DEF ExpireStale, PurgeLooks, PurgeArchives, CrashOp, Done, proposalVars
<1> QED
    BY <1>1, <1>2, <1>3, FileQuiet

-----------------------------------------------------------------------------
(* Steps on the file.                                                      *)

\* A prepared transaction takes away only what no decision is about.
LEMMA TakenAway ==
    ASSUME ProposalInv, DecisionInv, InPlace, NEW t \in Txn, FileTxn(t), journal[t].phase = "prepared",
           asset.content \in {journal[t].original, journal[t].published},
           journal' = journal, row' = row
    PROVE  InPlace'
<1>1. /\ \A u : FileTxn(u)' = FileTxn(u)
      /\ \A kind, u, p : Of(kind, u, p)' = Of(kind, u, p)
    BY DEF FileTxn, Live, Of
<1>2. ASSUME NEW p \in Proposal, row[p].status = "accepted"
      PROVE  \E u \in Txn : FileTxn(u) /\ Of("revert", u, p)
    <2>1. CASE asset.content = p
        <3>1. journal[t].prop = p
            BY <2>1, TxnShape, ContentsDiffer
        <3>2. journal[t].kind = "accept" => row[p].status # "accepted"
            BY <3>1 DEF DecisionInv, TxnRowOK, AcceptOK
        <3> QED
            BY <1>2, <3>1, <3>2, TxnShape DEF Of
    <2> QED
        BY <1>2, <2>1 DEF InPlace
<1>3. ASSUME NEW u \in Txn, FileTxn(u), journal[u].kind = "accept", journal[u].phase # "prepared"
      PROVE  FALSE
    <2>1. asset.content = journal[u].prop /\ journal[u].prop \in Proposal
        BY <1>3, FileTxnOf DEF InPlace
    <2>2. journal[t].prop = journal[u].prop
        BY <2>1, TxnShape, ContentsDiffer
    <2>3. t = u
        BY <1>3, <2>2 DEF DecisionInv, OneFileTxn
    <2> QED
        BY <1>3, <2>3
<1> QED
    BY <1>1, <1>2, <1>3 DEF InPlace

\* Where nothing is, nothing is lost.
LEMMA PutWhereNothingIs ==
    ASSUME ProposalInv, InPlace, asset = NoFile, journal' = journal, row' = row
    PROVE  InPlace'
<1>1. /\ \A u : FileTxn(u)' = FileTxn(u)
      /\ \A kind, u, p : Of(kind, u, p)' = Of(kind, u, p)
    BY DEF FileTxn, Live, Of
<1>2. \A p \in Proposal : asset.content # p
    BY ContentsDiffer DEF NoFile
<1>3. \A u \in Txn : FileTxn(u) => journal[u].prop \in Proposal
    BY FileTxnOf
<1> QED
    BY <1>1, <1>2, <1>3 DEF InPlace

\* A step on the files with journals and rows as they are.
LEMMA FileFrame ==
    ASSUME FileInv, journal' = journal, row' = row, edits' = edits, NEW t \in Txn,
           asset'.content = None => asset' = NoFile,
           \A u \in Txn \ {t} : displaced'[u] = displaced[u],
           DisplacedOK(t)', ContentKnown', FileOpOK(op)',
           edits = 0 /\ Untouched => asset'.content # Edit /\ displaced'[t] # Edit /\ InPlace' /\ CleanOp(op)'
    PROVE  FileInv'
<1>1. \A u \in Txn \ {t} : DisplacedOK(u)'
    BY DEF FileInv, DisplacedOK, FileTxn, Live
<1>2. edits = 0 => Untouched'
    BY DEF FileInv, Untouched
<1> QED
    BY <1>1, <1>2 DEF FileInv

\* The old file is moved aside.
LEMMA DisplaceFiles ==
    ASSUME ProposalInv, DecisionInv, FileInv, Displace
    PROVE  FileInv'
<1>0. op.pc = "displace" /\ op.pc \in FileLabel /\ op.pc \in OwnLabel
    BY DEF Displace, At, FileLabel, OwnLabel
<1>1. /\ op.txn \in Txn /\ FileTxn(op.txn) /\ op \in Op /\ FieldsOK
      /\ journal[op.txn].phase = "prepared"
    BY <1>0, HolderTxn
<1>2. PICK t \in Txn : t = op.txn
    BY <1>1
<1>3. /\ journal' = journal /\ row' = row /\ edits' = edits /\ SameAccepted
      /\ asset.content \in {journal[t].original, Edit, None} /\ displaced[t] = None
      /\ edits = 0 /\ Untouched => asset.content = journal[t].original /\ asset.content # Edit
    BY <1>0, <1>2 DEF Displace, rowVars, faultVars, SameAccepted, FileInv, FileOpOK, Untouched, CleanOp
<1>4. ASSUME asset' = asset, displaced' = displaced,
             Goto("inspect") \/ (Goto("link") /\ journal[t].original = None)
      PROVE  FileInv'
    <2>1. op'.txn = t /\ (op'.pc = "inspect" \/ (op'.pc = "link" /\ journal[t].original = None))
        BY <1>1, <1>2, <1>4, GotoKeeps
    <2>2. FileOpOK(op)' /\ CleanOp(op)'
        BY <1>3, <1>4, <2>1 DEF FileOpOK, CleanOp
    <2> QED
        BY <1>3, <1>4, <2>2, FileQuiet
<1>5. ASSUME asset # NoFile, displaced' = [displaced EXCEPT ![t] = asset.content], asset' = NoFile,
             Goto("verify")
      PROVE  FileInv'
    <2>1. op'.txn = t /\ op'.pc = "verify"
        BY <1>1, <1>2, <1>5, GotoKeeps
    <2>2. displaced'[t] = asset.content /\ \A u \in Txn \ {t} : displaced'[u] = displaced[u]
        BY <1>1, <1>5 DEF FieldsOK
    <2>3. asset.content # None /\ asset'.content = None
        BY <1>5 DEF FileInv, NoFile
    <2>4. DisplacedOK(t)'
        BY <1>1, <1>2, <1>3, <2>2, <2>3 DEF DisplacedOK, FileTxn, Live
    <2>5. ContentKnown'
        BY <2>3, ContentsDiffer DEF ContentKnown
    <2>6. FileOpOK(op)' /\ CleanOp(op)'
        BY <2>1, <2>2, <2>3 DEF FileOpOK, CleanOp
    <2>7. edits = 0 /\ Untouched => InPlace'
        BY <1>1, <1>2, <1>3, TakenAway DEF Untouched
    <2> QED
        BY <1>3, <1>5, <2>2, <2>3, <2>4, <2>5, <2>6, <2>7, ContentsDiffer, FileFrame
<1> QED
    BY <1>2, <1>4, <1>5 DEF Displace, OfOp

\* What has been moved aside is compared; another content is put back.
LEMMA VerifyFiles ==
    ASSUME ProposalInv, DecisionInv, FileInv, VerifyDisplaced
    PROVE  FileInv'
<1>0. op.pc = "verify" /\ op.pc \in FileLabel /\ op.pc \in OwnLabel
    BY DEF VerifyDisplaced, At, FileLabel, OwnLabel
<1>1. /\ op.txn \in Txn /\ FileTxn(op.txn) /\ op \in Op /\ FieldsOK
      /\ journal[op.txn].phase = "prepared"
    BY <1>0, HolderTxn
<1>2. PICK t \in Txn : t = op.txn
    BY <1>1
<1>3. /\ journal' = journal /\ row' = row /\ edits' = edits /\ SameAccepted
      /\ displaced[t] # None /\ displaced[t] \in {journal[t].original, Edit}
    BY <1>0, <1>2 DEF VerifyDisplaced, rowVars, faultVars, SameAccepted, FileInv, FileOpOK, DisplacedOK
<1>4. ASSUME asset' = asset, displaced' = displaced, Goto("link"), displaced[t] = journal[t].original
      PROVE  FileInv'
    <2>1. op'.txn = t /\ op'.pc = "link"
        BY <1>1, <1>2, <1>4, GotoKeeps
    <2>2. FileOpOK(op)' /\ CleanOp(op)'
        BY <1>3, <1>4, <2>1 DEF FileOpOK, CleanOp
    <2> QED
        BY <1>3, <1>4, <2>2, FileQuiet
<1>5. ASSUME displaced[t] = Edit, asset' = [content |-> displaced[t], txn |-> None],
             displaced' = [displaced EXCEPT ![t] = None], Goto("inspect")
      PROVE  FileInv'
    <2>1. op'.pc \in FileFreeLabel
        BY <1>1, <1>5, GotoKeeps DEF FileFreeLabel
    <2>2. displaced'[t] = None /\ \A u \in Txn \ {t} : displaced'[u] = displaced[u]
        BY <1>1, <1>5 DEF FieldsOK
    <2>3. asset'.content = Edit
        BY <1>5
    <2>4. DisplacedOK(t)' /\ ContentKnown'
        BY <2>2, <2>3, ContentsDiffer DEF DisplacedOK, ContentKnown
    <2>5. ~Untouched
        BY <1>5 DEF Untouched
    <2> QED
        BY <1>3, <2>1, <2>2, <2>3, <2>4, <2>5, ContentsDiffer, FileFreeOK, FileFrame
<1> QED
    BY <1>2, <1>3, <1>4, <1>5 DEF VerifyDisplaced, DisplacedIsOriginal, OfOp

\* The new file is linked.
LEMMA LinkFiles ==
    ASSUME ProposalInv, DecisionInv, FileInv, LinkPublished
    PROVE  FileInv'
<1>0. op.pc = "link" /\ op.pc \in FileLabel /\ op.pc \in OwnLabel
    BY DEF LinkPublished, At, FileLabel, OwnLabel
<1>1. /\ op.txn \in Txn /\ FileTxn(op.txn) /\ op \in Op /\ FieldsOK
      /\ journal[op.txn].phase = "prepared"
    BY <1>0, HolderTxn
<1>2. PICK t \in Txn : t = op.txn
    BY <1>1
<1>3. /\ journal' = journal /\ row' = row /\ edits' = edits /\ SameAccepted /\ displaced' = displaced
      /\ displaced[t] = journal[t].original
    BY <1>0, <1>2 DEF LinkPublished, rowVars, faultVars, SameAccepted, FileInv, FileOpOK
<1>4. ASSUME asset' = asset, Goto("inspect")
      PROVE  FileInv'
    <2>1. op'.pc \in FileFreeLabel
        BY <1>1, <1>4, GotoKeeps DEF FileFreeLabel
    <2> QED
        BY <1>3, <1>4, <2>1, FileFreeOK, FileQuiet
<1>5. ASSUME asset = NoFile, asset' = [content |-> journal[t].published, txn |-> t], Goto("committing")
      PROVE  FileInv'
    <2>1. op'.txn = t /\ op'.pc = "committing"
        BY <1>1, <1>2, <1>5, GotoKeeps
    <2>2. asset'.content = journal[t].published
        BY <1>5
    <2>3. journal[t].published # None /\ journal[t].published # Edit
        BY <1>1, <1>2, TxnShape, ContentsDiffer
    <2>4. DisplacedOK(t)'
        BY <1>3 DEF FileInv, DisplacedOK, FileTxn, Live
    <2>5. ContentKnown'
        <3>1. ASSUME NEW p \in Proposal, journal[t].published = p
              PROVE  Of("accept", t, p)
            BY <1>1, <1>2, <3>1, TxnShape, ContentsDiffer DEF Of
        <3>2. FileTxn(t)' /\ \A p : Of("accept", t, p)' = Of("accept", t, p)
            BY <1>1, <1>2, <1>3 DEF FileTxn, Live, Of
        <3> QED
            BY <2>2, <3>1, <3>2 DEF ContentKnown
    <2>6. FileOpOK(op)' /\ CleanOp(op)'
        BY <1>3, <2>1, <2>2 DEF FileOpOK, CleanOp
    <2>7. edits = 0 /\ Untouched => InPlace'
        BY <1>3, <1>5, PutWhereNothingIs DEF Untouched
    <2>8. Untouched => displaced'[t] # Edit
        BY <1>3 DEF Untouched
    <2> QED
        BY <1>3, <2>2, <2>3, <2>4, <2>5, <2>6, <2>7, <2>8, FileFrame
<1> QED
    BY <1>2, <1>4, <1>5 DEF LinkPublished, OfOp

\* The new file is unlinked again.
LEMMA UnlinkFiles ==
    ASSUME ProposalInv, DecisionInv, FileInv, UnlinkPublished
    PROVE  FileInv'
<1>0. op.pc = "unlink" /\ op.pc \in FileLabel /\ op.pc \in UndoLabel
    BY DEF UnlinkPublished, At, FileLabel, UndoLabel
<1>1. /\ op.txn \in Txn /\ FileTxn(op.txn) /\ op \in Op /\ FieldsOK
      /\ journal[op.txn].phase = "prepared"
    BY <1>0, HolderTxn
<1>2. PICK t \in Txn : t = op.txn
    BY <1>1
<1>3. /\ journal' = journal /\ row' = row /\ edits' = edits /\ SameAccepted /\ displaced' = displaced
      /\ displaced[t] # None \/ journal[t].original = None
      /\ edits = 0 /\ Untouched => asset.content = journal[t].published
    BY <1>0, <1>2 DEF UnlinkPublished, rowVars, faultVars, SameAccepted, FileInv, FileOpOK, Untouched, CleanOp
<1>4. ASSUME asset' = asset, op' = NoOp
      PROVE  FileInv'
    <2>1. op'.pc \in FileFreeLabel
        BY <1>4 DEF FileFreeLabel, NoOp
    <2> QED
        BY <1>3, <1>4, <2>1, FileFreeOK, FileQuiet
<1>5. ASSUME NEW label, label = (IF displaced[t] = None THEN "scrub" ELSE "restore"),
             asset' = NoFile, Goto(label)
      PROVE  FileInv'
    <2>1. op'.txn = t /\ op'.pc = label
        BY <1>1, <1>2, <1>5, GotoKeeps
    <2>2. asset'.content = None
        BY <1>5 DEF NoFile
    <2>3. DisplacedOK(t)'
        BY <1>3 DEF FileInv, DisplacedOK, FileTxn, Live
    <2>4. ContentKnown'
        BY <2>2, ContentsDiffer DEF ContentKnown
    <2>5. FileOpOK(op)' /\ CleanOp(op)'
        <3>1. journal[t].prop # None
            BY <1>1, <1>2, TxnShape, ContentsDiffer
        <3>2. journal[t].kind = "revert" => label = "restore"
            BY <1>1, <1>2, <1>3, <1>5, <3>1, TxnShape
        <3> QED
            BY <1>3, <1>5, <2>1, <2>2, <3>1, <3>2 DEF FileOpOK, CleanOp
    <2>6. edits = 0 /\ Untouched => InPlace'
        BY <1>1, <1>2, <1>3, TakenAway DEF Untouched
    <2>7. Untouched => displaced'[t] # Edit
        BY <1>3 DEF Untouched
    <2> QED
        BY <1>3, <1>5, <2>2, <2>3, <2>4, <2>5, <2>6, <2>7, ContentsDiffer, FileFrame
<1> QED
    BY <1>2, <1>4, <1>5 DEF UnlinkPublished, Done

\* What has been moved aside is put back.
LEMMA RestoreFiles ==
    ASSUME ProposalInv, DecisionInv, FileInv, RestoreDisplaced
    PROVE  FileInv'
<1>0. op.pc = "restore" /\ op.pc \in FileLabel /\ op.pc \in UndoLabel
    BY DEF RestoreDisplaced, At, FileLabel, UndoLabel
<1>1. /\ op.txn \in Txn /\ FileTxn(op.txn) /\ op \in Op /\ FieldsOK /\ TxnRowOK(op.txn)
      /\ journal[op.txn].phase = "prepared"
    BY <1>0, HolderTxn
<1>2. PICK t \in Txn : t = op.txn
    BY <1>1
<1>3. /\ journal' = journal /\ row' = row /\ edits' = edits /\ SameAccepted /\ displaced' = displaced
      /\ displaced[t] # None /\ displaced[t] \in {journal[t].original, Edit}
    BY <1>0, <1>2 DEF RestoreDisplaced, rowVars, faultVars, SameAccepted, FileInv, FileOpOK, DisplacedOK
<1>4. ASSUME asset' = asset, op' = NoOp
      PROVE  FileInv'
    <2>1. op'.pc \in FileFreeLabel
        BY <1>4 DEF FileFreeLabel, NoOp
    <2> QED
        BY <1>3, <1>4, <2>1, FileFreeOK, FileQuiet
<1>5. ASSUME asset = NoFile, asset' = [content |-> displaced[t], txn |-> None], Goto("scrub")
      PROVE  FileInv'
    <2>1. op'.txn = t /\ op'.pc = "scrub"
        BY <1>1, <1>2, <1>5, GotoKeeps
    <2>2. asset'.content = displaced[t]
        BY <1>5
    <2>3. DisplacedOK(t)'
        BY <1>3 DEF FileInv, DisplacedOK, FileTxn, Live
    <2>4. ContentKnown'
        <3>1. ASSUME NEW p \in Proposal, displaced[t] = p
              PROVE  row[p].status = "accepted"
            <4>1. journal[t].kind = "revert" /\ journal[t].prop = p
                BY <1>1, <1>2, <1>3, <3>1, TxnShape, ContentsDiffer
            <4> QED
                BY <1>1, <1>2, <4>1 DEF TxnRowOK, RevertOK
        <3> QED
            BY <1>3, <2>2, <3>1 DEF ContentKnown
    <2>5. journal[t].kind = "accept" => asset'.content # journal[t].prop
        BY <1>1, <1>2, <1>3, <2>2, TxnShape, ContentsDiffer
    <2>6. FileOpOK(op)'
        BY <1>3, <2>1, <2>5 DEF FileOpOK
    <2>7. edits = 0 /\ Untouched => asset'.content # Edit /\ displaced'[t] # Edit /\ InPlace' /\ CleanOp(op)'
        <3>1. SUFFICES ASSUME Untouched
                       PROVE  asset'.content # Edit /\ displaced'[t] # Edit /\ InPlace' /\ CleanOp(op)'
            OBVIOUS
        <3>2. displaced[t] = journal[t].original /\ displaced[t] # Edit
            BY <1>3, <3>1 DEF Untouched
        <3>3. journal[t].kind = "revert" => asset'.content = journal[t].prop
            BY <1>1, <1>2, <2>2, <3>2, TxnShape
        <3>4. InPlace'
            BY <1>3, <1>5, <3>1, PutWhereNothingIs DEF Untouched
        <3>5. CleanOp(op)'
            BY <1>3, <2>1, <3>3 DEF CleanOp
        <3> QED
            BY <1>3, <2>2, <3>2, <3>4, <3>5
    <2> QED
        BY <1>3, <2>2, <2>3, <2>4, <2>6, <2>7, FileFrame
<1> QED
    BY <1>2, <1>4, <1>5 DEF RestoreDisplaced, Done

\* What has been moved aside is deleted, on the way back and on the way forward.
LEMMA CleanFiles ==
    ASSUME ProposalInv, DecisionInv, FileInv, Scrub \/ CleanPublication
    PROVE  FileInv'
<1>0. op.pc \in {"scrub", "clean"} /\ op.pc \in FileLabel
    BY DEF Scrub, CleanPublication, At, FileLabel, UndoLabel, ForwardLabel
<1>1. op.txn \in Txn /\ op \in Op /\ FieldsOK
    BY <1>0, HolderTxn
<1>2. PICK t \in Txn : t = op.txn
    BY <1>1
<1>3. /\ journal' = journal /\ row' = row /\ edits' = edits /\ asset' = asset
      /\ displaced' = [displaced EXCEPT ![t] = None]
      /\ FileOpOK(op)
    BY <1>2 DEF Scrub, CleanPublication, rowVars, faultVars, FileInv
<1>4. displaced'[t] = None /\ \A u \in Txn \ {t} : displaced'[u] = displaced[u]
    BY <1>1, <1>3 DEF FieldsOK
<1>5. \/ op.pc = "scrub" /\ Goto("remove")
      \/ op.pc = "clean" /\ \E label \in {"git", "index", "event", "settle"} : Goto(label)
    BY DEF Scrub, CleanPublication, At
<1>6. op'.txn = t /\ \/ op.pc = "scrub" /\ op'.pc = "remove"
                     \/ op.pc = "clean" /\ op'.pc \in {"git", "index", "event", "settle"}
    BY <1>1, <1>2, <1>5, GotoKeeps
<1>7. FileOpOK(op)'
    BY <1>2, <1>3, <1>6 DEF FileOpOK
<1>8. CleanOp(op) => CleanOp(op)'
    BY <1>2, <1>3, <1>6 DEF CleanOp
<1>9. /\ \A u : FileTxn(u)' = FileTxn(u)
      /\ \A kind, u, p : Of(kind, u, p)' = Of(kind, u, p)
    BY <1>3 DEF FileTxn, Live, Of
<1>10. DisplacedOK(t)' /\ ContentKnown' /\ (InPlace => InPlace')
    BY <1>3, <1>4, <1>9 DEF DisplacedOK, ContentKnown, InPlace, FileInv
<1> QED
    BY <1>3, <1>4, <1>7, <1>8, <1>10, ContentsDiffer, FileFrame DEF FileInv, Untouched

-----------------------------------------------------------------------------
(* Steps on rows and journals, and the user.                               *)

\* A decision is written when the file is in place.
LEMMA PersistFiles ==
    ASSUME ProposalInv, DecisionInv, FileInv, PersistState
    PROVE  FileInv'
<1>0. op.pc = "persist" /\ op.pc \in FileLabel
    BY DEF PersistState, At, FileLabel, ForwardLabel
<1>1. op.txn \in Txn /\ FileTxn(op.txn) /\ op \in Op /\ FieldsOK
    BY <1>0, HolderTxn
<1>2. PICK t \in Txn : t = op.txn
    BY <1>1
<1>3. PICK p \in Proposal : p = journal[t].prop /\ OfOp.prop = p
    BY <1>1, <1>2, FileTxnOf DEF OfOp
<1>4. /\ journal' = journal /\ edits' = edits /\ asset' = asset /\ displaced' = displaced
      /\ journal[t].phase = "asset-published" /\ row \in [Proposal -> Row] /\ row[p] \in Row
      /\ journal[t].kind = "revert" => asset.content # p
    BY <1>0, <1>1, <1>2, <1>3
       DEF PersistState, fileVars, faultVars, DecisionInv, PhaseOK, FieldsOK, FileInv, FileOpOK
<1>5. op'.pc \in FileFreeLabel
    BY <1>1, GotoKeeps DEF PersistState, Done, NoOp, FileFreeLabel
<1>6. CASE row' = row
    BY <1>4, <1>5, <1>6, FileFreeOK, FileQuiet DEF SameAccepted
<1>7. CASE row' = [row EXCEPT ![p] = Persisted(row[p])] /\ Persisted(row[p]) # None
    <2>1. row'[p] = Persisted(row[p]) /\ \A q \in Proposal \ {p} : row'[q] = row[q]
        BY <1>4, <1>7
    <2>2. /\ journal[t].kind = "accept" => row'[p].status = "accepted"
          /\ journal[t].kind = "revert" => row'[p].status = "reverted"
          /\ journal[t].kind \in {"accept", "revert"}
        BY <1>2, <1>4, <1>7, <2>1 DEF Persisted, OfOp, Row
    <2>3. /\ \A u : FileTxn(u)' = FileTxn(u)
          /\ \A kind, u, q : Of(kind, u, q)' = Of(kind, u, q)
        BY <1>4 DEF FileTxn, Live, Of
    <2>4. \A u \in Txn : DisplacedOK(u)'
        BY <1>4, <2>3 DEF FileInv, DisplacedOK
    <2>5. ContentKnown'
        BY <1>4, <2>1, <2>2, <2>3 DEF FileInv, ContentKnown
    <2>6. Untouched => InPlace'
        <3> SUFFICES ASSUME Untouched
                     PROVE  InPlace'
            OBVIOUS
        <3>1. journal[t].kind = "accept" => asset.content = p
            BY <1>1, <1>2, <1>3, <1>4 DEF Untouched, InPlace
        <3> QED
            BY <1>4, <2>1, <2>2, <2>3, <3>1 DEF Untouched, InPlace
    <2>7. edits = 0 => Untouched'
        BY <1>4, <1>5, <2>6, FileFreeOK DEF FileInv, Untouched
    <2> QED
        BY <1>4, <1>5, <2>4, <2>5, <2>7, FileFreeOK DEF FileInv
<1> QED
    BY <1>3, <1>6, <1>7 DEF PersistState

\* A phase is recorded: past the commit point, the file is what was published.
LEMMA PhaseFiles ==
    ASSUME ProposalInv, DecisionInv, FileInv, PhaseStep
    PROVE  FileInv'
<1>0. op.pc \in FileLabel
    BY DEF PhaseStep, AdvancePublished, AdvancePersisted, FinalizeIndex, AdvanceEvented, Settle, At,
           FileLabel, OwnLabel, ForwardLabel
<1>1. op.txn \in Txn /\ FileTxn(op.txn) /\ op \in Op
    BY <1>0, HolderTxn
<1>2. PICK t \in Txn : t = op.txn
    BY <1>1
<1>3. row' = row /\ edits' = edits /\ asset' = asset /\ displaced' = displaced
    BY DEF PhaseStep, AdvancePublished, AdvancePersisted, FinalizeIndex, AdvanceEvented, Settle,
           rowVars, fileVars, faultVars
<1>4. PICK phase \in {"asset-published", "proposal-persisted", "index-finalized", "event-finalized",
                      "committed"},
           label \in {"validate", "index", "event", "settle", "remove"} :
        /\ SetPhase(t, phase) /\ Goto(label)
        /\ label = "remove" => phase = "committed"
        /\ op.pc = "committing" \/ op.pc \in ForwardLabel
    BY <1>2 DEF PhaseStep, AdvancePublished, AdvancePersisted, FinalizeIndex, AdvanceEvented, Settle, At,
               ForwardLabel
<1>5. /\ \A u \in Txn \ {t} : journal'[u] = journal[u]
      /\ journal'[t].phase = phase
      /\ journal'[t].kind = journal[t].kind /\ journal'[t].prop = journal[t].prop
      /\ journal'[t].original = journal[t].original
    BY <1>1, <1>2, <1>4, SetPhaseKeeps DEF FileTxn, Live, Phase
<1>6. op'.pc = label /\ op'.txn = t
    BY <1>1, <1>2, <1>4, GotoKeeps
<1>7. /\ \A u \in Txn : FileTxn(u)' <=> FileTxn(u)
      /\ \A kind : \A u \in Txn : \A p : Of(kind, u, p)' <=> Of(kind, u, p)
    <2>1. FileTxn(t)'
        BY <1>1, <1>2, <1>5 DEF FileTxn, Live
    <2> QED
        BY <1>1, <1>2, <1>5, <2>1 DEF FileTxn, Live, Of
<1>8. journal[t].phase # "prepared" \/ op.pc = "committing"
    BY <1>2, <1>4 DEF ProposalInv, OpOK, TxnOK, Irreversible
<1>9. displaced[t] # None => displaced[t] = journal[t].original
    BY <1>2, <1>8 DEF FileInv, DisplacedOK, FileOpOK
<1>10. \A u \in Txn : DisplacedOK(u)'
    BY <1>3, <1>5, <1>7, <1>9 DEF FileInv, DisplacedOK
<1>11. ContentKnown'
    BY <1>3, <1>7 DEF FileInv, ContentKnown
<1>12. FileOpOK(op)' /\ CleanOp(op)'
    BY <1>4, <1>5, <1>6 DEF FileOpOK, CleanOp
<1>13. Untouched => InPlace'
    <2> SUFFICES ASSUME Untouched
                 PROVE  InPlace'
        OBVIOUS
    <2>1. journal[t].kind = "accept" => asset.content = journal[t].prop
        <3>1. op.pc = "committing" => asset.content = journal[t].published
            BY <1>2 DEF Untouched, CleanOp
        <3> QED
            BY <1>1, <1>2, <1>8, <3>1, TxnShape DEF Untouched, InPlace
    <2> QED
        BY <1>3, <1>5, <1>7, <2>1 DEF Untouched, InPlace
<1>14. edits = 0 => Untouched'
    BY <1>3, <1>12, <1>13 DEF FileInv, Untouched
<1> QED
    BY <1>3, <1>10, <1>11, <1>12, <1>14 DEF FileInv

\* The journal of an undone or finished transaction is removed.
LEMMA RemoveFiles ==
    ASSUME ProposalInv, DecisionInv, FileInv, RemoveJournal
    PROVE  FileInv'
<1>0. op.pc = "remove" /\ op.pc \in FileLabel
    BY DEF RemoveJournal, At, FileLabel
<1>1. op.txn \in Txn /\ FileTxn(op.txn) /\ op \in Op /\ FieldsOK /\ TxnRowOK(op.txn)
    BY <1>0, HolderTxn
<1>2. PICK t \in Txn : t = op.txn
    BY <1>1
<1>3. /\ row' = row /\ edits' = edits /\ asset' = asset
      /\ displaced'[t] = None /\ \A u \in Txn \ {t} : displaced'[u] = displaced[u]
      /\ journal[t].phase \in {"prepared", "committed"} /\ SetPhase(t, "gone")
    BY <1>0, <1>1, <1>2 DEF RemoveJournal, rowVars, faultVars, FieldsOK, DecisionInv, PhaseOK
<1>4. /\ \A u \in Txn \ {t} : journal'[u] = journal[u]
      /\ journal'[t].phase = "gone"
    BY <1>1, <1>2, <1>3, SetPhaseKeeps DEF FileTxn, Live, Phase
<1>5. /\ \A u \in Txn \ {t} : FileTxn(u)' <=> FileTxn(u)
      /\ \A kind : \A u \in Txn \ {t} : \A p : Of(kind, u, p)' <=> Of(kind, u, p)
      /\ ~FileTxn(t)'
    BY <1>4 DEF FileTxn, Live, Of
<1>6. op'.pc \in FileFreeLabel
    <2>1. op' = NoOp \/ op' = [op EXCEPT !.pc = "recover", !.txn = None]
        BY DEF RemoveJournal, Done
    <2>2. op' = NoOp => op'.pc = "idle"
        BY DEF NoOp
    <2>3. op' = [op EXCEPT !.pc = "recover", !.txn = None] => op'.pc = "recover"
        BY <1>1 DEF Op
    <2> QED
        BY <2>1, <2>2, <2>3 DEF FileFreeLabel
<1>7. ASSUME NEW p \in Proposal, journal[t].prop = p
      PROVE  /\ journal[t].kind = "accept" /\ asset.content = p => row[p].status = "accepted"
             /\ journal[t].kind = "revert" /\ row[p].status = "accepted" /\ Untouched => asset.content = p
    <2>1. CASE journal[t].phase = "prepared"
        BY <1>0, <1>2, <1>7, <2>1 DEF FileInv, FileOpOK, Untouched, CleanOp
    <2>2. CASE journal[t].phase = "committed"
        BY <1>1, <1>2, <1>7, <2>2 DEF TxnRowOK, AcceptOK, RevertOK, Early
    <2> QED
        BY <1>3, <2>1, <2>2
<1>8. \A u \in Txn : DisplacedOK(u)'
    BY <1>3, <1>4, <1>5 DEF FileInv, DisplacedOK
<1>9. ContentKnown'
    BY <1>3, <1>5, <1>7 DEF FileInv, ContentKnown, Of
<1>10. Untouched => InPlace'
    BY <1>3, <1>4, <1>5, <1>7 DEF Untouched, InPlace, Of
<1>11. edits = 0 => Untouched'
    BY <1>3, <1>6, <1>10, FileFreeOK, ContentsDiffer DEF FileInv, Untouched
<1> QED
    BY <1>3, <1>6, <1>8, <1>9, <1>11, FileFreeOK DEF FileInv

\* A phase of a rejection is recorded.
LEMMA RejectPhaseFiles ==
    ASSUME ProposalInv, DecisionInv, FileInv, AdvanceArchived \/ AdvanceAnnounced \/ DisposeReject
    PROVE  FileInv'
<1>0. op \in Op /\ op.pc \in RejectLabel /\ OpOK(op)
    BY DEF ProposalInv, ProposalTypeOK, AdvanceArchived, AdvanceAnnounced, DisposeReject, At, RejectLabel
<1>1. op.txn \in Txn /\ journal[op.txn].kind = "reject" /\ journal[op.txn].phase # "unused"
    BY <1>0 DEF OpOK, TxnOK
<1>2. PICK t \in Txn : t = op.txn
    BY <1>1
<1>3. PICK phase \in Phase \ {"unused"} : SetPhase(t, phase)
    BY <1>2 DEF AdvanceArchived, AdvanceAnnounced, DisposeReject, Phase
<1>4. row' = row /\ edits' = edits /\ asset' = asset /\ displaced' = displaced
    BY DEF AdvanceArchived, AdvanceAnnounced, DisposeReject, rowVars, fileVars, faultVars
<1>5. /\ \A u \in Txn \ {t} : journal'[u] = journal[u]
      /\ ~FileTxn(t) /\ ~FileTxn(t)'
    BY <1>1, <1>2, <1>3, SetPhaseKeeps DEF FileTxn
<1>6. \A u \in Txn \ {t} : (FileTxn(u)' <=> FileTxn(u)) /\ \A kind, p : Of(kind, u, p)' <=> Of(kind, u, p)
    BY <1>5 DEF FileTxn, Live, Of
<1>7. op'.pc \in FileFreeLabel
    <2>1. CASE AdvanceArchived \/ AdvanceAnnounced
        BY <1>0, <2>1, GotoKeeps DEF AdvanceArchived, AdvanceAnnounced, FileFreeLabel
    <2>2. CASE DisposeReject
        <3>1. \/ op' = op /\ op.pc = "dispose"
              \/ op' = NoOp
              \/ op' = [op EXCEPT !.pc = "read", !.txn = None]
            BY <2>2 DEF DisposeReject, Done, At
        <3>2. op' = NoOp => op'.pc = "idle"
            BY DEF NoOp
        <3>3. op' = [op EXCEPT !.pc = "read", !.txn = None] => op'.pc = "read"
            BY <1>0 DEF Op
        <3> QED
            BY <3>1, <3>2, <3>3 DEF FileFreeLabel
    <2> QED
        BY <2>1, <2>2
<1>8. \A u \in Txn : DisplacedOK(u)'
    BY <1>4, <1>5, <1>6 DEF FileInv, DisplacedOK
<1>9. ContentKnown'
    BY <1>4, <1>5, <1>6 DEF FileInv, ContentKnown
<1>10. Untouched => InPlace'
    BY <1>4, <1>5, <1>6 DEF Untouched, InPlace
<1>11. edits = 0 => Untouched'
    BY <1>4, <1>7, <1>10, FileFreeOK DEF FileInv, Untouched
<1> QED
    BY <1>4, <1>7, <1>8, <1>9, <1>11, FileFreeOK DEF FileInv

\* A transaction is begun for the file as it has been read.
LEMMA PrepareFiles ==
    ASSUME ProposalInv, DecisionInv, FileInv, Prepare
    PROVE  FileInv'
<1>0. op \in Op /\ OpOK(op) /\ op.pc = "prepare" /\ JournalsOK
    BY DEF ProposalInv, ProposalTypeOK, Prepare, At
<1>1. op.kind \in Kind /\ Unused # {}
    BY <1>0 DEF OpOK, ReadOK
<1>2. PICK t \in Txn : t = (CHOOSE u \in Unused : TRUE) /\ journal[t].phase = "unused"
    <2> DEFINE c == CHOOSE u \in Unused : TRUE
    <2>1. c \in Unused
        BY <1>1
    <2> HIDE DEF c
    <2>2. c \in Txn /\ journal[c].phase = "unused"
        BY <2>1 DEF Unused
    <2> QED
        BY <2>2 DEF c
<1> DEFINE original == IF op.kind = "reject" THEN None ELSE op.found
           published == CASE op.kind = "accept" -> op.prop
                          [] op.kind = "revert" -> op.read.backup
                          [] op.kind = "reject" -> None
           backup == IF op.kind = "accept" THEN op.found ELSE None
           j == [phase |-> "prepared", kind |-> op.kind, prop |-> op.prop,
                 original |-> original, published |-> published, backup |-> backup]
           label == IF op.kind = "reject" THEN "decide" ELSE "stage"
<1>3. /\ journal' = [journal EXCEPT ![t] = j] /\ row' = row /\ edits' = edits /\ asset' = asset
      /\ displaced' = displaced
      /\ op' = [op EXCEPT !.txn = t, !.own = TRUE, !.read = None, !.found = None, !.pc = label]
    BY <1>2 DEF Prepare, rowVars, fileVars, faultVars
<1>4. /\ label = "decide" \/ (label = "stage" /\ original = op.found /\ op.kind # "reject")
    OBVIOUS
<1> HIDE DEF original, published, backup, label
<1>5. j.phase = "prepared" /\ j.original = original
    OBVIOUS
<1> HIDE DEF j
<1>6. journal'[t] = j /\ \A u \in Txn \ {t} : journal'[u] = journal[u]
    BY <1>0, <1>3 DEF JournalsOK
<1>7. op'.pc = label /\ op'.txn = t
    BY <1>0, <1>3 DEF Op
<1>8. ~FileTxn(t) /\ displaced[t] = None
    BY <1>2 DEF FileInv, DisplacedOK, FileTxn, Live
<1>9. \A u \in Txn \ {t} : (FileTxn(u)' <=> FileTxn(u)) /\ \A kind, p : Of(kind, u, p)' <=> Of(kind, u, p)
    BY <1>6 DEF FileTxn, Live, Of
<1>10. \A u \in Txn : DisplacedOK(u)'
    BY <1>3, <1>6, <1>8, <1>9 DEF FileInv, DisplacedOK
<1>11. ContentKnown'
    BY <1>3, <1>8, <1>9 DEF FileInv, ContentKnown
<1>12. FileOpOK(op)'
    BY <1>0, <1>3, <1>4, <1>5, <1>6, <1>7, <1>8 DEF FileInv, FileOpOK
<1>13. Untouched => CleanOp(op)'
    BY <1>0, <1>3, <1>4, <1>5, <1>6, <1>7 DEF Untouched, CleanOp
<1>14. Untouched => InPlace'
    BY <1>3, <1>5, <1>6, <1>8, <1>9 DEF Untouched, InPlace
<1>15. edits = 0 => Untouched'
    BY <1>3, <1>13, <1>14 DEF FileInv, Untouched
<1> QED
    BY <1>3, <1>10, <1>11, <1>12, <1>15 DEF FileInv

\* The user saves the file, or deletes it.
LEMMA EditFiles ==
    ASSUME ProposalInv, DecisionInv, FileInv, NEW content \in {Edit, None}, EditAsset(content)
    PROVE  FileInv'
<1>1. /\ asset' = [content |-> content, txn |-> None] /\ asset'.content = content
      /\ journal' = journal /\ row' = row /\ displaced' = displaced /\ op' = op
    BY DEF EditAsset, rowVars
<1>2. edits' # 0
    BY DEF EditAsset, ProposalInv, ProposalTypeOK
<1>3. content = None => asset' = NoFile
    BY <1>1 DEF NoFile
<1>4. \A u \in Txn : DisplacedOK(u)'
    BY <1>1 DEF FileInv, DisplacedOK, FileTxn, Live
<1>5. ContentKnown'
    BY <1>1, ContentsDiffer DEF ContentKnown
<1>6. FileOpOK(op)'
    <2>1. op.pc \in FileLabel => journal[op.txn].prop \in Proposal
        BY HolderTxn, FileTxnOf
    <2>2. op.pc \in {"scrub", "remove", "clean", "git", "persist"} => op.pc \in FileLabel
        BY DEF FileLabel, UndoLabel, ForwardLabel
    <2> QED
        BY <1>1, <2>1, <2>2, ContentsDiffer DEF FileInv, FileOpOK
<1> QED
    BY <1>1, <1>2, <1>3, <1>4, <1>5, <1>6 DEF FileInv

\* The file is what rows and journals say of it.
LEMMA FileInvCorrect == ProposalSpec => []FileInv
<1>1. ProposalInit => FileInv
    <2> SUFFICES ASSUME ProposalInit
                 PROVE  FileInv
        OBVIOUS
    <2>1. PICK first \in {Base, None} :
            /\ asset = [content |-> first, txn |-> None]
            /\ row = [q \in Proposal |-> [status |-> "pending", before |-> first, backup |-> None]]
        BY DEF ProposalInit
    <2>2. asset.content = first /\ (first = None => asset = NoFile)
        BY <2>1 DEF NoFile
    <2>3. \A p \in Proposal : row[p].status # "accepted"
        BY <2>1
    <2>4. \A t \in Txn : journal[t].phase = "unused" /\ displaced[t] = None
        BY DEF ProposalInit, NoJournal
    <2>5. \A t \in Txn : ~FileTxn(t)
        BY <2>4 DEF FileTxn, Live
    <2>6. op.pc = "idle"
        BY DEF ProposalInit, NoOp
    <2>7. FileOpOK(op) /\ CleanOp(op)
        BY <2>6 DEF FileOpOK, CleanOp
    <2>8. ContentKnown /\ InPlace
        BY <2>2, <2>3, <2>5, ContentsDiffer DEF ContentKnown, InPlace
    <2> QED
        BY <2>2, <2>4, <2>7, <2>8, ContentsDiffer DEF FileInv, DisplacedOK, Untouched
<1>2. ProposalInv /\ DecisionInv /\ FileInv /\ [ProposalNext]_proposalVars => FileInv'
    <2> SUFFICES ASSUME ProposalInv, DecisionInv, FileInv, [ProposalNext]_proposalVars
                 PROVE  FileInv'
        OBVIOUS
    <2>1. CASE OpStep
        BY <2>1, LookStepFiles, IdleStepFiles, DisplaceFiles, VerifyFiles, LinkFiles, UnlinkFiles, RestoreFiles,
           CleanFiles, PersistFiles, PhaseFiles, RemoveFiles, RejectPhaseFiles, PrepareFiles
           DEF OpStep, PhaseStep
    <2> QED
        BY <2>1, IdleStepFiles, EditFiles DEF ProposalNext
<1> QED
    BY <1>1, <1>2, ProposalInvCorrect, DecisionInvCorrect, PTL DEF ProposalSpec

\* All or nothing: without an unfinished transaction the content of a proposal is in
\* place only if it is accepted, and what an accepted one replaced is gone, unless the
\* user has touched the file.
THEOREM ProposalsAreAllOrNothing == ProposalSpec => []AllOrNothing
<1>1. ASSUME ProposalInv, DecisionInv, FileInv, NEW p \in Proposal, AtRest(p)
      PROVE  /\ asset.content = p => row[p].status = "accepted"
             /\ row[p].status = "accepted" /\ edits = 0 => asset.content # row[p].before
    <2>1. \A t \in Txn : \A kind : ~(FileTxn(t) /\ Of(kind, t, p))
        BY <1>1 DEF AtRest, FileTxn, Of
    <2>2. asset.content = p => row[p].status = "accepted"
        BY <1>1, <2>1 DEF FileInv, ContentKnown
    <2>3. row[p].status = "accepted" /\ edits = 0 => asset.content = p
        BY <1>1, <2>1 DEF FileInv, Untouched, InPlace
    <2>4. row[p].before # p
        BY <1>1, ContentsDiffer DEF DecisionInv, RowOK
    <2> QED
        BY <2>2, <2>3, <2>4
<1>2. ProposalInv /\ DecisionInv /\ FileInv => AllOrNothing
    BY <1>1 DEF AllOrNothing
<1> QED
    BY <1>2, ProposalInvCorrect, DecisionInvCorrect, FileInvCorrect, PTL

-----------------------------------------------------------------------------
(* What the user has saved.                                                *)

KeptBy(t) == displaced[t] = saved \/ (Live(t) /\ journal[t].backup = saved)
\* It is kept by something other than the transaction t.
Elsewhere(t) ==
    \/ \E u \in Txn \ {t} : KeptBy(u)
    \/ \E p \in Proposal : row[p].backup = saved
KeptWithout(t) == asset.content = saved \/ Elsewhere(t)
\* A transaction that has been undone is not needed any more.
SavedOpOK(o) ==
    /\ o.pc = "verify" => asset = NoFile
    /\ o.pc = "unlink" => asset.content = journal[o.txn].published
    /\ o.pc \in {"scrub", "remove"} /\ journal[o.txn].phase = "prepared" => KeptWithout(o.txn)
SavedInv ==
    /\ saved \in {Base, Edit, None} /\ (saved = Base => edits = 0)
    /\ \A t \in Txn : journal[t].kind = "reject" => journal[t].backup = None
    /\ SavedIsKept
    /\ saved # None => SavedOpOK(op)

\* What the user saves is never the content of a proposal.
LEMMA SavedShape ==
    ASSUME ProposalInv, DecisionInv, SavedInv, saved # None, NEW t \in Txn, FileTxn(t)
    PROVE  /\ saved \notin Proposal
           /\ journal[t].kind = "accept" =>
                journal[t].published # saved /\ journal[t].original = journal[t].backup
           /\ journal[t].kind = "revert" =>
                /\ journal[t].original # saved /\ journal[t].original # None /\ journal[t].backup # saved
                /\ journal[t].published = saved => row[journal[t].prop].backup = saved
           /\ journal[t].prop \in Proposal /\ journal[t].kind \in {"accept", "revert"}
<1>1. saved \notin Proposal
    BY ContentsDiffer DEF SavedInv
<1> QED
    BY <1>1, TxnShape, ContentsDiffer

\* No step loses the backup in a row.
LEMMA BackupsStay ==
    ASSUME ProposalInv, DecisionInv, [ProposalNext]_proposalVars, NEW p \in Proposal
    PROVE  row'[p].backup = row[p].backup \/ row[p].backup = None
<1>0. row \in [Proposal -> Row] /\ RowOK(p) /\ OpOK(op)
    BY DEF ProposalInv, ProposalTypeOK, DecisionInv
<1>1. CASE row' = row
    BY <1>1
<1>2. CASE \A q \in Proposal : ArchivedOrBack(q)
    BY <1>2 DEF ArchivedOrBack
<1>3. CASE PersistState
    <2> DEFINE q == OfOp.prop
    <2>1. row' = row \/ (Persisted(row[q]) # None /\ row' = [row EXCEPT ![q] = Persisted(row[q])])
        BY <1>3 DEF PersistState
    <2> HIDE DEF q
    <2>2. row'[p] = row[p] \/ (p = q /\ Persisted(row[p]) # None /\ row'[p] = Persisted(row[p]))
        BY <1>0, <2>1
    <2>3. CASE Persisted(row[p]) # None /\ row'[p] = Persisted(row[p])
        <3>1. row[p] \in Row
            BY <1>0
        <3>2. \/ row[p].status = "pending"
              \/ row'[p].backup = row[p].backup
            BY <2>3, <3>1 DEF Persisted, Row
        <3> QED
            BY <1>0, <3>2 DEF RowOK
    <2> QED
        BY <2>2, <2>3
<1>4. CASE ArchiveRejected
    <2>1. OfOp.prop \in Proposal
        BY <1>0, <1>4 DEF ArchiveRejected, At, OpOK, TxnOK, RejectLabel, ProposalInv, JournalsOK, OfOp
    <2>2. row' = row \/ Archives(OfOp.prop)
        BY <1>4 DEF ArchiveRejected, Archives
    <2> QED
        BY <1>1, <1>2, <2>1, <2>2, ArchivesOne
<1>5. ASSUME NEW q \in Proposal, ExpireStale(q) \/ PurgeArchives(q)
      PROVE  row'[p].backup = row[p].backup \/ row[p].backup = None
    <2>1. row' = row \/ Archives(q)
        BY <1>5 DEF ExpireStale, PurgeArchives, Archives
    <2> QED
        BY <1>1, <1>2, <2>1, ArchivesOne
<1>6. CASE OpStep
    <2>1. ASSUME ~PersistRepair, ~PersistState, ~ArchiveRejected
          PROVE  row' = row
        BY <1>6, <2>1 DEF OpStep, RecoverReject, ReadProposal, ListJournals, RecoverNext, ReadState,
            Prepare, StagePublish, Displace, VerifyDisplaced, LinkPublished, AdvancePublished,
            InspectAsset, UnlinkPublished, RestoreDisplaced, Scrub, RemoveJournal,
            ValidatePublished, CleanPublication, PublishGit, ServiceFails, AdvancePersisted,
            FinalizeIndex, PersistEvent, AdvanceEvented, Settle, DecideReject, AdvanceArchived,
            AnnounceReject, AdvanceAnnounced, DisposeReject, rowVars
    <2> QED
        BY <1>1, <1>2, <1>3, <1>4, <2>1, RepairArchives
<1>7. ASSUME \/ \E kind \in Kind, q \in Proposal : Begin(kind, q)
             \/ \E q \in Proposal : PurgeLooks(q)
             \/ \E content \in {Edit, None} : EditAsset(content)
             \/ CrashOp
             \/ UNCHANGED proposalVars
      PROVE  row' = row
    BY <1>7 DEF Begin, PurgeLooks, EditAsset, CrashOp, proposalVars, rowVars
<1> QED
    BY <1>1, <1>5, <1>6, <1>7 DEF ProposalNext

-----------------------------------------------------------------------------
(* Steps that lose nothing.                                                *)

\* A kept content stays kept where files stay, and journals and backups are not lost.
BackupsKept == \A p \in Proposal : row[p].backup = saved => row'[p].backup = saved
\* Then whatever keeps it, keeps it on.
LEMMA KeptStays ==
    ASSUME saved' = saved, asset' = asset, displaced' = displaced, BackupsKept,
           \A t \in Txn : Live(t) => Live(t)' /\ journal'[t].backup = journal[t].backup
    PROVE  /\ SavedIsKept => SavedIsKept'
           /\ \A t \in Txn : KeptWithout(t) => KeptWithout(t)'
<1>1. \A t \in Txn : KeptBy(t) => KeptBy(t)'
    BY DEF KeptBy
<1>2. \A t \in Txn : KeptBy(t) <=> displaced[t] = saved \/ (Live(t) /\ journal[t].backup = saved)
    BY DEF KeptBy
<1>3. \A t \in Txn : KeptBy(t)' <=> displaced'[t] = saved' \/ (Live(t)' /\ journal'[t].backup = saved')
    BY DEF KeptBy
<1> QED
    BY <1>1, <1>2, <1>3 DEF SavedIsKept, KeptWithout, Elsewhere, BackupsKept

\* Only here a content is taken away, or an undone transaction forgotten.
CarefulLabel == {"verify", "unlink", "scrub", "remove"}
\* A step to another label needs no more.
LEMMA CarefreeOK ==
    ASSUME op'.pc \notin CarefulLabel
    PROVE  SavedOpOK(op)'
BY DEF CarefulLabel, SavedOpOK

\* Such a step keeps what is saved.
LEMMA SavedQuiet ==
    ASSUME SavedInv, saved' = saved, edits' = edits, asset' = asset, displaced' = displaced,
           saved # None => BackupsKept,
           \A t \in Txn : Live(t) => Live(t)' /\ journal'[t].backup = journal[t].backup,
           \A t \in Txn : journal'[t].kind = "reject" => journal'[t].backup = None,
           saved # None => SavedOpOK(op)'
    PROVE  SavedInv'
<1>1. SavedIsKept'
    BY KeptStays DEF SavedInv, SavedIsKept
<1> QED
    BY <1>1 DEF SavedInv

\* The steps that change neither the file nor what is aside, and remove no journal.
GentleStep ==
    \/ RecoverReject \/ ReadProposal \/ PersistRepair \/ ListJournals \/ RecoverNext \/ ReadState
    \/ Prepare \/ StagePublish \/ InspectAsset \/ ValidatePublished \/ PublishGit \/ ServiceFails
    \/ PersistState \/ PersistEvent \/ PhaseStep
    \/ DecideReject \/ ArchiveRejected \/ AdvanceArchived \/ AnnounceReject \/ AdvanceAnnounced
    \/ \E kind \in Kind, p \in Proposal : Begin(kind, p)
    \/ \E p \in Proposal : ExpireStale(p) \/ PurgeLooks(p) \/ PurgeArchives(p)
    \/ CrashOp
    \/ UNCHANGED proposalVars
\* They keep all live journals with their backups.
LEMMA GentleJournals ==
    ASSUME ProposalInv, SavedInv, GentleStep
    PROVE  /\ saved' = saved /\ edits' = edits /\ asset' = asset /\ displaced' = displaced
           /\ \A t \in Txn : Live(t) => Live(t)' /\ journal'[t].backup = journal[t].backup
           /\ \A t \in Txn : journal'[t].kind = "reject" => journal'[t].backup = None
<1>0. JournalsOK /\ OpOK(op) /\ op \in Op
    BY DEF ProposalInv, ProposalTypeOK
<1>1. saved' = saved /\ edits' = edits /\ asset' = asset /\ displaced' = displaced
    BY DEF GentleStep, RecoverReject, ReadProposal, PersistRepair, ListJournals, RecoverNext, ReadState,
           Prepare, StagePublish, InspectAsset, ValidatePublished, PublishGit, ServiceFails,
           PersistState, PersistEvent, PhaseStep, AdvancePublished, AdvancePersisted, FinalizeIndex,
           AdvanceEvented, Settle, DecideReject, ArchiveRejected, AdvanceArchived, AnnounceReject,
           AdvanceAnnounced, Begin, ExpireStale, PurgeLooks, PurgeArchives, CrashOp, proposalVars,
           fileVars, faultVars
<1>2. CASE journal' = journal
    BY <1>1, <1>2 DEF Live, SavedInv
<1>3. ASSUME op.txn \in Txn, journal[op.txn].phase # "unused",
             NEW phase \in Phase \ {"unused", "gone"}, SetPhase(op.txn, phase)
      PROVE  \A t \in Txn : /\ Live(t) => Live(t)'
                            /\ journal'[t].backup = journal[t].backup /\ journal'[t].kind = journal[t].kind
    <2>1. PICK u \in Txn : u = op.txn
        BY <1>3
    <2>2. /\ \A t \in Txn \ {u} : journal'[t] = journal[t]
          /\ journal'[u].phase = phase /\ journal'[u].kind = journal[u].kind
          /\ journal'[u].backup = journal[u].backup
        BY <1>3, <2>1, SetPhaseKeeps
    <2>3. Live(u)'
        BY <2>2 DEF Live
    <2> QED
        BY <2>2, <2>3 DEF Live
<1>4. CASE PhaseStep
    <2>1. op.pc \in FileLabel
        BY <1>4 DEF PhaseStep, AdvancePublished, AdvancePersisted, FinalizeIndex, AdvanceEvented, Settle, At,
               FileLabel, OwnLabel, ForwardLabel
    <2>2. op.txn \in Txn /\ FileTxn(op.txn)
        BY <1>0, <2>1 DEF OpOK, TxnOK
    <2>3. PICK phase \in Phase \ {"unused", "gone"} : SetPhase(op.txn, phase)
        BY <1>4 DEF PhaseStep, AdvancePublished, AdvancePersisted, FinalizeIndex, AdvanceEvented, Settle, Phase
    <2> QED
        BY <1>1, <1>3, <2>2, <2>3 DEF FileTxn, Live, SavedInv
<1>5. CASE AdvanceArchived \/ AdvanceAnnounced
    <2>1. op.txn \in Txn /\ journal[op.txn].kind = "reject" /\ journal[op.txn].phase # "unused"
        BY <1>0, <1>5 DEF AdvanceArchived, AdvanceAnnounced, At, OpOK, TxnOK, RejectLabel
    <2>2. PICK phase \in Phase \ {"unused", "gone"} : SetPhase(op.txn, phase)
        BY <1>5 DEF AdvanceArchived, AdvanceAnnounced, Phase
    <2> QED
        BY <1>1, <1>3, <2>1, <2>2 DEF SavedInv
<1>6. CASE Prepare
    <2>1. op.kind \in Kind /\ Unused # {}
        BY <1>0, <1>6 DEF Prepare, At, OpOK, ReadOK
    <2>2. PICK t \in Txn : t = (CHOOSE u \in Unused : TRUE) /\ journal[t].phase = "unused"
        <3> DEFINE c == CHOOSE u \in Unused : TRUE
        <3>1. c \in Unused
            BY <2>1
        <3> HIDE DEF c
        <3>2. c \in Txn /\ journal[c].phase = "unused"
            BY <3>1 DEF Unused
        <3> QED
            BY <3>2 DEF c
    <2> DEFINE published == CASE op.kind = "accept" -> op.prop
                              [] op.kind = "revert" -> op.read.backup
                              [] op.kind = "reject" -> None
               j == [phase |-> "prepared", kind |-> op.kind, prop |-> op.prop,
                     original |-> IF op.kind = "reject" THEN None ELSE op.found,
                     published |-> published,
                     backup |-> IF op.kind = "accept" THEN op.found ELSE None]
    <2>3. journal' = [journal EXCEPT ![t] = j]
        BY <1>6, <2>2 DEF Prepare
    <2> HIDE DEF published
    <2>4. j.kind = "reject" => j.backup = None
        OBVIOUS
    <2> HIDE DEF j
    <2>5. /\ \A u \in Txn \ {t} : journal'[u] = journal[u]
          /\ journal'[t].kind = "reject" => journal'[t].backup = None
        BY <1>0, <2>3, <2>4 DEF JournalsOK
    <2>6. \A u \in Txn : Live(u) => Live(u)' /\ journal'[u].backup = journal[u].backup
        BY <2>2, <2>5 DEF Live
    <2>7. \A u \in Txn : journal'[u].kind = "reject" => journal'[u].backup = None
        BY <2>5 DEF SavedInv
    <2> QED
        BY <1>1, <2>6, <2>7
<1>7. \/ journal' = journal \/ PhaseStep \/ AdvanceArchived \/ AdvanceAnnounced \/ Prepare
    BY DEF GentleStep, RecoverReject, ReadProposal, PersistRepair, ListJournals, RecoverNext, ReadState,
           StagePublish, InspectAsset, ValidatePublished, PublishGit, ServiceFails,
           PersistState, PersistEvent, DecideReject, ArchiveRejected, AnnounceReject,
           Begin, ExpireStale, PurgeLooks, PurgeArchives, CrashOp, proposalVars
<1> QED
    BY <1>2, <1>4, <1>5, <1>6, <1>7

\* What a transaction keeps that nothing else keeps is aside, or is the backup of an
\* acceptance, which is the content it replaces.
LEMMA KeptOnlyBy ==
    ASSUME ProposalInv, DecisionInv, SavedInv, saved # None, NEW t \in Txn, FileTxn(t), ~KeptWithout(t)
    PROVE  \/ displaced[t] = saved
           \/ journal[t].kind = "accept" /\ journal[t].original = saved /\ journal[t].backup = saved
<1>1. KeptBy(t)
    <2>1. \A u \in Txn : KeptBy(u) <=> displaced[u] = saved \/ (Live(u) /\ journal[u].backup = saved)
        BY DEF KeptBy
    <2> QED
        BY <2>1 DEF SavedInv, SavedIsKept, KeptWithout, Elsewhere
<1> QED
    BY <1>1, SavedShape DEF KeptBy

\* So they keep what is saved; only the label they go to has to fit.
LEMMA GentleSaves ==
    ASSUME ProposalInv, DecisionInv, FileInv, SavedInv, GentleStep
    PROVE  SavedInv'
<1>0. op \in Op /\ OpOK(op)
    BY DEF ProposalInv, ProposalTypeOK
<1>1. /\ saved' = saved /\ edits' = edits /\ asset' = asset /\ displaced' = displaced
      /\ \A t \in Txn : Live(t) => Live(t)' /\ journal'[t].backup = journal[t].backup
      /\ \A t \in Txn : journal'[t].kind = "reject" => journal'[t].backup = None
    BY GentleJournals
<1>2. saved # None => BackupsKept
    <2>1. [ProposalNext]_proposalVars
        BY DEF GentleStep, PhaseStep, ProposalNext, OpStep
    <2> QED
        BY <2>1, BackupsStay DEF BackupsKept
<1>3. ASSUME saved # None
      PROVE  SavedOpOK(op)'
    <2>1. \A t \in Txn : KeptWithout(t) => KeptWithout(t)'
        BY <1>1, <1>2, <1>3, KeptStays
    <2>2. CASE op' = NoOp
        BY <2>2, CarefreeOK DEF NoOp, CarefulLabel
    <2>3. ASSUME NEW label \in Label \ CarefulLabel, Goto(label)
          PROVE  SavedOpOK(op)'
        BY <1>0, <2>3, GotoKeeps, CarefreeOK
    <2>4. Goto(AfterRecovery) => SavedOpOK(op)'
        BY <2>3 DEF AfterRecovery, Label, CarefulLabel
    <2>5. CASE op' = op /\ journal' = journal
        <3>1. op.pc \in {"scrub", "remove"} => op.txn \in Txn
            BY <1>0 DEF OpOK, TxnOK, FileLabel, UndoLabel
        <3> QED
            BY <1>1, <1>3, <2>1, <2>5, <3>1 DEF SavedInv, SavedOpOK
    <2>6. CASE RecoverReject \/ ReadProposal \/ PersistRepair \/ ReadState
        <3>1. op' = NoOp \/ op'.pc \in {"read", "check", "decide", "announce", "dispose", "repair", "list", "prepare"}
            BY <1>0, <2>6 DEF RecoverReject, ReadProposal, PersistRepair, ReadState, Goto, Done, Op
        <3> QED
            BY <2>2, <3>1, CarefreeOK DEF CarefulLabel
    <2>7. CASE ListJournals
        <3>1. ASSUME NEW todo, op' = [op EXCEPT !.pc = "recover", !.todo = todo]
              PROVE  SavedOpOK(op)'
            <4>1. op'.pc = "recover"
                BY <1>0, <3>1 DEF Op
            <4> QED
                BY <4>1, CarefreeOK DEF CarefulLabel
        <3>2. Done \/ Goto(AfterRecovery) \/ \E todo : op' = [op EXCEPT !.pc = "recover", !.todo = todo]
            BY <2>7 DEF ListJournals
        <3> QED
            BY <2>2, <2>4, <3>1, <3>2 DEF Done
    <2>8. CASE RecoverNext
        <3>1. ASSUME NEW t \in op.todo,
                     op' = [op EXCEPT !.txn = t, !.own = FALSE, !.todo = @ \ {t}, !.pc = Direction(t)]
              PROVE  SavedOpOK(op)'
            <4> DEFINE label == Direction(t)
            <4>1. /\ label \in {"inspect", "remove", "validate"}
                  /\ label = "remove" => journal[t].phase = "committed"
                BY DEF Direction
            <4>2. op' = [op EXCEPT !.txn = t, !.own = FALSE, !.todo = @ \ {t}, !.pc = label]
                BY <3>1
            <4> HIDE DEF label
            <4>3. op'.pc = label /\ op'.txn = t /\ journal' = journal
                BY <1>0, <2>8, <4>2 DEF Op, RecoverNext
            <4> QED
                BY <4>1, <4>3 DEF SavedOpOK
        <3> QED
            BY <2>4, <2>8, <3>1 DEF RecoverNext
    <2>9. CASE Prepare
        <3> DEFINE label == IF op.kind = "reject" THEN "decide" ELSE "stage"
        <3>1. \E t : op' = [op EXCEPT !.txn = t, !.own = TRUE, !.read = None, !.found = None, !.pc = label]
            BY <2>9 DEF Prepare
        <3>2. label \notin CarefulLabel
            BY DEF CarefulLabel
        <3> HIDE DEF label
        <3>3. op'.pc = label
            BY <1>0, <3>1 DEF Op
        <3> QED
            BY <3>2, <3>3, CarefreeOK
    <2>10. CASE \/ StagePublish \/ ValidatePublished \/ PublishGit \/ ServiceFails \/ PersistState \/ PersistEvent
                \/ AdvancePublished \/ AdvancePersisted \/ FinalizeIndex \/ AdvanceEvented
                \/ DecideReject \/ ArchiveRejected \/ AdvanceArchived \/ AnnounceReject \/ AdvanceAnnounced
        <3>1. Done \/ \E label \in Label \ CarefulLabel : Goto(label)
            BY <2>10 DEF StagePublish, ValidatePublished, PublishGit, ServiceFails, PersistState, PersistEvent,
                AdvancePublished, AdvancePersisted, FinalizeIndex, AdvanceEvented, DecideReject,
                ArchiveRejected, AdvanceArchived, AnnounceReject, AdvanceAnnounced, Label, CarefulLabel
        <3> QED
            BY <2>2, <2>3, <3>1 DEF Done
    <2>11. CASE Settle
        <3>1. op.txn \in Txn /\ FileTxn(op.txn)
            BY <2>11, HolderTxn DEF Settle, At, FileLabel, ForwardLabel
        <3>2. PICK t \in Txn : t = op.txn /\ FileTxn(t)
            BY <3>1
        <3>3. journal'[t].phase = "committed"
            BY <2>11, <3>2, SetPhaseKeeps DEF Settle, FileTxn, Live, Phase
        <3>4. op'.pc = "remove" /\ op'.txn = t
            BY <1>0, <2>11, <3>2, GotoKeeps DEF Settle
        <3> QED
            BY <3>3, <3>4 DEF SavedOpOK
    <2>12. CASE InspectAsset
        <3>1. op.txn \in Txn /\ FileTxn(op.txn)
            BY <2>12, HolderTxn DEF InspectAsset, At, FileLabel, UndoLabel
        <3>2. PICK t \in Txn : t = op.txn /\ FileTxn(t)
            BY <3>1
        <3>3. journal' = journal /\ op.txn = t /\ OfOp = journal[t]
            BY <2>12, <3>2 DEF InspectAsset, OfOp
        <3>4. \/ Done \/ Goto("restore")
              \/ Goto("unlink") /\ asset.content = journal[t].published
              \/ /\ Goto("scrub") /\ displaced[t] = None
                 /\ journal[t].original = None \/ asset.content = journal[t].original
            BY <2>12, <3>3 DEF InspectAsset, OwnLink
        <3>5. CASE Goto("unlink") /\ asset.content = journal[t].published
            <4>1. op'.pc = "unlink" /\ op'.txn = t
                BY <1>0, <3>3, <3>5, GotoKeeps
            <4> QED
                BY <1>1, <3>3, <3>5, <4>1 DEF SavedOpOK
        <3>6. CASE /\ Goto("scrub") /\ displaced[t] = None
                   /\ journal[t].original = None \/ asset.content = journal[t].original
            <4>1. op'.pc = "scrub" /\ op'.txn = t
                BY <1>0, <3>3, <3>6, GotoKeeps
            <4>2. KeptWithout(t)
                <5>1. asset.content = saved => KeptWithout(t)
                    BY DEF KeptWithout
                <5> QED
                    BY <1>3, <3>2, <3>6, <5>1, KeptOnlyBy
            <4> QED
                BY <2>1, <4>1, <4>2 DEF SavedOpOK
        <3> QED
            BY <2>2, <2>3, <3>4, <3>5, <3>6 DEF Done, Label, CarefulLabel
    <2>13. ASSUME NEW kind \in Kind, NEW p \in Proposal, Begin(kind, p)
           PROVE  SavedOpOK(op)'
        <3>1. op'.pc \in {"rejects", "list"}
            BY <2>13 DEF Begin, NoOp
        <3> QED
            BY <3>1, CarefreeOK DEF CarefulLabel
    <2> QED
        BY <2>2, <2>5, <2>6, <2>7, <2>8, <2>9, <2>10, <2>11, <2>12, <2>13
           DEF GentleStep, PhaseStep, ExpireStale, PurgeLooks, PurgeArchives, CrashOp, Done, proposalVars
<1> QED
    BY <1>1, <1>2, <1>3, SavedQuiet

-----------------------------------------------------------------------------
(* Steps on the file.                                                      *)

\* What is kept elsewhere stays there when the transaction t goes on alone.
LEMMA ElsewhereStays ==
    ASSUME NEW t \in Txn, saved' = saved, row' = row, Elsewhere(t),
           \A u \in Txn \ {t} : displaced'[u] = displaced[u] /\ journal'[u] = journal[u]
    PROVE  Elsewhere(t)'
<1>1. \A u \in Txn \ {t} : KeptBy(u) => KeptBy(u)'
    BY DEF KeptBy, Live
<1> QED
    BY <1>1 DEF Elsewhere

\* ... and it is one of the ways in which it is kept.
LEMMA KeptSomehow ==
    ASSUME NEW t \in Txn, asset.content = saved \/ KeptBy(t) \/ Elsewhere(t)
    PROVE  SavedIsKept
BY DEF Elsewhere, KeptBy, SavedIsKept

\* A step of the transaction t on its files.
LEMMA FileSaves ==
    ASSUME SavedInv, NEW t \in Txn, saved' = saved, edits' = edits, row' = row,
           \A u \in Txn \ {t} : displaced'[u] = displaced[u] /\ journal'[u] = journal[u],
           journal'[t].kind = journal[t].kind, journal'[t].backup = journal[t].backup,
           saved # None => \/ asset'.content = saved \/ Elsewhere(t)
                           \/ displaced'[t] = saved \/ (Live(t)' /\ journal[t].backup = saved),
           saved # None => SavedOpOK(op)'
    PROVE  SavedInv'
<1>1. ASSUME saved # None
      PROVE  SavedIsKept'
    <2>1. KeptBy(t)' <=> displaced'[t] = saved' \/ (Live(t)' /\ journal'[t].backup = saved')
        BY DEF KeptBy
    <2>2. asset'.content = saved' \/ KeptBy(t)' \/ Elsewhere(t)'
        BY <1>1, <2>1, ElsewhereStays
    <2> QED
        BY <2>2 DEF Elsewhere, KeptBy, SavedIsKept
<1>2. SavedIsKept'
    BY <1>1 DEF SavedIsKept
<1>3. \A u \in Txn : journal'[u].kind = "reject" => journal'[u].backup = None
    BY DEF SavedInv
<1> QED
    BY <1>2, <1>3 DEF SavedInv

\* ... that leaves the file alone.
LEMMA FileStays ==
    ASSUME SavedInv, saved' = saved, edits' = edits, row' = row, asset' = asset, displaced' = displaced,
           journal' = journal, op'.pc \notin CarefulLabel
    PROVE  SavedInv'
BY CarefreeOK, SavedQuiet DEF BackupsKept, Live, SavedInv

\* What the file was before is kept now, by t or elsewhere.
LEMMA KeptBefore ==
    ASSUME ProposalInv, DecisionInv, SavedInv, saved # None, NEW t \in Txn, FileTxn(t)
    PROVE  \/ asset.content = saved \/ Elsewhere(t) \/ displaced[t] = saved
           \/ journal[t].kind = "accept" /\ journal[t].original = saved /\ journal[t].backup = saved
BY KeptOnlyBy DEF KeptWithout

\* The old file is moved aside.
LEMMA DisplaceSaves ==
    ASSUME ProposalInv, DecisionInv, FileInv, SavedInv, Displace
    PROVE  SavedInv'
<1>0. op.pc = "displace" /\ op.pc \in FileLabel
    BY DEF Displace, At, FileLabel, OwnLabel
<1>1. op.txn \in Txn /\ FileTxn(op.txn) /\ op \in Op /\ FieldsOK
    BY <1>0, HolderTxn
<1>2. PICK t \in Txn : t = op.txn /\ FileTxn(t)
    BY <1>1
<1>3. /\ journal' = journal /\ row' = row /\ edits' = edits /\ saved' = saved
      /\ displaced[t] = None
    BY <1>0, <1>2 DEF Displace, rowVars, faultVars, FileInv, FileOpOK
<1>4. CASE asset' = asset /\ displaced' = displaced /\ (Goto("link") \/ Goto("inspect"))
    <2>1. op'.pc \notin CarefulLabel
        BY <1>1, <1>4, GotoKeeps DEF CarefulLabel
    <2> QED
        BY <1>3, <1>4, <2>1, FileStays
<1>5. CASE displaced' = [displaced EXCEPT ![t] = asset.content] /\ asset' = NoFile /\ Goto("verify")
    <2>1. displaced'[t] = asset.content /\ \A u \in Txn \ {t} : displaced'[u] = displaced[u]
        BY <1>1, <1>5 DEF FieldsOK
    <2>2. op'.pc = "verify"
        BY <1>1, <1>5, GotoKeeps
    <2>3. SavedOpOK(op)'
        BY <1>5, <2>2 DEF SavedOpOK
    <2>4. Live(t)'
        BY <1>2, <1>3 DEF FileTxn, Live
    <2> QED
        BY <1>2, <1>3, <2>1, <2>3, <2>4, KeptBefore, FileSaves
<1> QED
    BY <1>2, <1>4, <1>5 DEF Displace, OfOp

\* What has been moved aside is compared; another content is put back.
LEMMA VerifySaves ==
    ASSUME ProposalInv, DecisionInv, FileInv, SavedInv, VerifyDisplaced
    PROVE  SavedInv'
<1>0. op.pc = "verify" /\ op.pc \in FileLabel
    BY DEF VerifyDisplaced, At, FileLabel, OwnLabel
<1>1. op.txn \in Txn /\ FileTxn(op.txn) /\ op \in Op /\ FieldsOK
    BY <1>0, HolderTxn
<1>2. PICK t \in Txn : t = op.txn /\ FileTxn(t)
    BY <1>1
<1>3. /\ journal' = journal /\ row' = row /\ edits' = edits /\ saved' = saved
      /\ saved # None => asset.content # saved
    BY <1>0, <1>2 DEF VerifyDisplaced, rowVars, faultVars, SavedInv, SavedOpOK, NoFile
<1>4. op'.pc \notin CarefulLabel
    BY <1>1, GotoKeeps DEF VerifyDisplaced, CarefulLabel
<1>5. CASE asset' = asset /\ displaced' = displaced
    BY <1>3, <1>4, <1>5, FileStays
<1>6. CASE asset' = [content |-> displaced[t], txn |-> None] /\ displaced' = [displaced EXCEPT ![t] = None]
    <2>1. asset'.content = displaced[t] /\ \A u \in Txn \ {t} : displaced'[u] = displaced[u]
        BY <1>1, <1>6 DEF FieldsOK
    <2>2. Live(t)'
        BY <1>2, <1>3 DEF FileTxn, Live
    <2> QED
        BY <1>2, <1>3, <1>4, <2>1, <2>2, CarefreeOK, KeptBefore, FileSaves
<1> QED
    BY <1>2, <1>5, <1>6 DEF VerifyDisplaced

\* The new file is linked where nothing is.
LEMMA LinkSaves ==
    ASSUME ProposalInv, DecisionInv, FileInv, SavedInv, LinkPublished
    PROVE  SavedInv'
<1>0. op.pc = "link" /\ op.pc \in FileLabel
    BY DEF LinkPublished, At, FileLabel, OwnLabel
<1>1. op.txn \in Txn /\ FileTxn(op.txn) /\ op \in Op
    BY <1>0, HolderTxn
<1>2. PICK t \in Txn : t = op.txn /\ FileTxn(t)
    BY <1>1
<1>3. /\ journal' = journal /\ row' = row /\ edits' = edits /\ saved' = saved /\ displaced' = displaced
    BY DEF LinkPublished, rowVars, faultVars
<1>4. op'.pc \notin CarefulLabel
    BY <1>1, GotoKeeps DEF LinkPublished, CarefulLabel
<1>5. CASE asset' = asset
    BY <1>3, <1>4, <1>5, FileStays
<1>6. CASE asset = NoFile
    <2>1. saved # None => asset.content # saved
        BY <1>6 DEF NoFile
    <2>2. Live(t)'
        BY <1>2, <1>3 DEF FileTxn, Live
    <2> QED
        BY <1>2, <1>3, <1>4, <2>1, <2>2, CarefreeOK, KeptBefore, FileSaves
<1> QED
    BY <1>5, <1>6 DEF LinkPublished

\* The new file is unlinked again.
LEMMA UnlinkSaves ==
    ASSUME ProposalInv, DecisionInv, FileInv, SavedInv, UnlinkPublished
    PROVE  SavedInv'
<1>0. op.pc = "unlink" /\ op.pc \in FileLabel
    BY DEF UnlinkPublished, At, FileLabel, UndoLabel
<1>1. op.txn \in Txn /\ FileTxn(op.txn) /\ op \in Op
    BY <1>0, HolderTxn
<1>2. PICK t \in Txn : t = op.txn /\ FileTxn(t)
    BY <1>1
<1>3. /\ journal' = journal /\ row' = row /\ edits' = edits /\ saved' = saved /\ displaced' = displaced
      /\ displaced[t] # None \/ journal[t].original = None
      /\ saved # None => asset.content = journal[t].published
    BY <1>0, <1>2 DEF UnlinkPublished, rowVars, faultVars, FileInv, FileOpOK, SavedInv, SavedOpOK
<1>4. CASE asset' = asset /\ op' = NoOp
    <2>1. op'.pc \notin CarefulLabel
        BY <1>4 DEF NoOp, CarefulLabel
    <2> QED
        BY <1>3, <1>4, <2>1, FileStays
<1>5. ASSUME NEW label, label = (IF displaced[t] = None THEN "scrub" ELSE "restore"), Goto(label)
      PROVE  SavedInv'
    <2>1. op'.txn = t /\ op'.pc = label
        BY <1>1, <1>2, <1>5, GotoKeeps
    <2>2. saved # None /\ asset.content = saved => Elsewhere(t)
        BY <1>2, <1>3, SavedShape DEF Elsewhere
    <2>3. Live(t)'
        BY <1>2, <1>3 DEF FileTxn, Live
    <2>4. saved # None => SavedOpOK(op)'
        <3>1. saved # None /\ displaced[t] = None => Elsewhere(t)
            BY <1>2, <1>3, <2>2, KeptBefore
        <3>2. saved # None /\ displaced[t] = None => KeptWithout(t)'
            BY <1>3, <3>1, ElsewhereStays DEF KeptWithout
        <3> QED
            BY <1>5, <2>1, <3>2 DEF SavedOpOK
    <2> QED
        BY <1>2, <1>3, <2>2, <2>3, <2>4, KeptBefore, FileSaves
<1> QED
    BY <1>2, <1>4, <1>5 DEF UnlinkPublished, Done

\* What has been moved aside is put back where nothing is.
LEMMA RestoreSaves ==
    ASSUME ProposalInv, DecisionInv, FileInv, SavedInv, RestoreDisplaced
    PROVE  SavedInv'
<1>0. op.pc = "restore" /\ op.pc \in FileLabel
    BY DEF RestoreDisplaced, At, FileLabel, UndoLabel
<1>1. op.txn \in Txn /\ FileTxn(op.txn) /\ op \in Op
    BY <1>0, HolderTxn
<1>2. PICK t \in Txn : t = op.txn /\ FileTxn(t)
    BY <1>1
<1>3. /\ journal' = journal /\ row' = row /\ edits' = edits /\ saved' = saved /\ displaced' = displaced
      /\ displaced[t] # None /\ displaced[t] \in {journal[t].original, Edit}
    BY <1>0, <1>2 DEF RestoreDisplaced, rowVars, faultVars, FileInv, FileOpOK, DisplacedOK
<1>4. CASE asset' = asset /\ op' = NoOp
    <2>1. op'.pc \notin CarefulLabel
        BY <1>4 DEF NoOp, CarefulLabel
    <2> QED
        BY <1>3, <1>4, <2>1, FileStays
<1>5. CASE asset = NoFile /\ asset' = [content |-> displaced[t], txn |-> None] /\ Goto("scrub")
    <2>1. op'.txn = t /\ op'.pc = "scrub"
        BY <1>1, <1>2, <1>5, GotoKeeps
    <2>2. asset'.content = displaced[t] /\ (saved # None => asset.content # saved)
        BY <1>5 DEF NoFile
    <2>3. ASSUME saved # None, ~Elsewhere(t)
          PROVE  asset'.content = saved
        <3>1. CASE journal[t].original = saved /\ journal[t].backup = saved /\ journal[t].kind = "accept"
            <4>1. saved = Base
                BY <1>2, <2>3, <3>1, TxnShape, ContentsDiffer
            <4>2. displaced[t] # Edit
                BY <4>1 DEF SavedInv, FileInv, Untouched
            <4> QED
                BY <1>3, <2>2, <3>1, <4>2
        <3> QED
            BY <1>2, <2>2, <2>3, <3>1, KeptBefore
    <2>4. saved # None => KeptWithout(t)'
        BY <1>3, <2>3, ElsewhereStays DEF KeptWithout
    <2>5. saved # None => SavedOpOK(op)'
        BY <2>1, <2>4 DEF SavedOpOK
    <2> QED
        BY <1>3, <2>3, <2>5, FileSaves
<1> QED
    BY <1>2, <1>4, <1>5 DEF RestoreDisplaced, Done

\* What has been moved aside is deleted on the way back, ...
LEMMA ScrubSaves ==
    ASSUME ProposalInv, DecisionInv, FileInv, SavedInv, Scrub
    PROVE  SavedInv'
<1>0. op.pc = "scrub" /\ op.pc \in FileLabel /\ op.pc \in UndoLabel
    BY DEF Scrub, At, FileLabel, UndoLabel
<1>1. op.txn \in Txn /\ FileTxn(op.txn) /\ op \in Op /\ FieldsOK /\ journal[op.txn].phase = "prepared"
    BY <1>0, HolderTxn
<1>2. PICK t \in Txn : t = op.txn
    BY <1>1
<1>3. /\ journal' = journal /\ row' = row /\ edits' = edits /\ saved' = saved /\ asset' = asset
      /\ saved # None => KeptWithout(t)
    BY <1>0, <1>1, <1>2 DEF Scrub, rowVars, faultVars, SavedInv, SavedOpOK
<1>4. \A u \in Txn \ {t} : displaced'[u] = displaced[u]
    BY <1>1, <1>2 DEF Scrub, FieldsOK
<1>5. op'.pc = "remove" /\ op'.txn = t
    BY <1>1, <1>2, GotoKeeps DEF Scrub
<1>6. saved # None => KeptWithout(t)'
    BY <1>3, <1>4, ElsewhereStays DEF KeptWithout
<1>7. saved # None => SavedOpOK(op)'
    BY <1>5, <1>6 DEF SavedOpOK
<1> QED
    BY <1>3, <1>4, <1>7, FileSaves DEF KeptWithout

\* ... and on the way forward, where its backup is left.
LEMMA CleanSaves ==
    ASSUME ProposalInv, DecisionInv, FileInv, SavedInv, CleanPublication
    PROVE  SavedInv'
<1>0. op.pc = "clean" /\ op.pc \in FileLabel /\ op.pc \in ForwardLabel
    BY DEF CleanPublication, At, FileLabel, ForwardLabel
<1>1. op.txn \in Txn /\ FileTxn(op.txn) /\ op \in Op /\ FieldsOK /\ journal[op.txn].phase # "prepared"
    BY <1>0, HolderTxn DEF ProposalInv, OpOK, TxnOK, Irreversible
<1>2. PICK t \in Txn : t = op.txn /\ FileTxn(t)
    BY <1>1
<1>3. journal' = journal /\ row' = row /\ edits' = edits /\ saved' = saved /\ asset' = asset
    BY DEF CleanPublication, rowVars, faultVars
<1>4. \A u \in Txn \ {t} : displaced'[u] = displaced[u]
    BY <1>1, <1>2 DEF CleanPublication, FieldsOK
<1>5. op'.pc \notin CarefulLabel
    <2>1. \E label \in {"git", "index", "event", "settle"} : Goto(label)
        BY DEF CleanPublication
    <2> QED
        BY <1>1, <2>1, GotoKeeps DEF CarefulLabel
<1>6. displaced[t] # None => displaced[t] = journal[t].original
    BY <1>1, <1>2 DEF FileInv, DisplacedOK
<1>7. ASSUME saved # None, displaced[t] = saved
      PROVE  journal[t].backup = saved
    BY <1>2, <1>6, <1>7, SavedShape
<1>8. Live(t)'
    BY <1>2, <1>3 DEF FileTxn, Live
<1> QED
    BY <1>2, <1>3, <1>4, <1>5, <1>7, <1>8, CarefreeOK, KeptBefore, FileSaves

\* The journal of an undone transaction is removed, or of a finished one, whose backup
\* is in the row.
LEMMA RemoveSaves ==
    ASSUME ProposalInv, DecisionInv, FileInv, SavedInv, RemoveJournal
    PROVE  SavedInv'
<1>0. op.pc = "remove" /\ op.pc \in FileLabel
    BY DEF RemoveJournal, At, FileLabel
<1>1. op.txn \in Txn /\ FileTxn(op.txn) /\ op \in Op /\ FieldsOK /\ TxnRowOK(op.txn)
    BY <1>0, HolderTxn
<1>2. PICK t \in Txn : t = op.txn /\ FileTxn(t) /\ TxnRowOK(t)
    BY <1>1
<1>3. /\ row' = row /\ edits' = edits /\ saved' = saved /\ asset' = asset
      /\ \A u \in Txn \ {t} : displaced'[u] = displaced[u]
      /\ journal[t].phase \in {"prepared", "committed"} /\ SetPhase(t, "gone")
    BY <1>0, <1>1, <1>2 DEF RemoveJournal, rowVars, faultVars, FieldsOK, DecisionInv, PhaseOK
<1>4. /\ \A u \in Txn \ {t} : journal'[u] = journal[u]
      /\ journal'[t].kind = journal[t].kind /\ journal'[t].backup = journal[t].backup
    BY <1>2, <1>3, SetPhaseKeeps DEF FileTxn, Live, Phase
<1>5. op'.pc \notin CarefulLabel
    <2>1. op' = NoOp \/ op' = [op EXCEPT !.pc = "recover", !.txn = None]
        BY DEF RemoveJournal, Done
    <2>2. op' = NoOp => op'.pc = "idle"
        BY DEF NoOp
    <2>3. op' = [op EXCEPT !.pc = "recover", !.txn = None] => op'.pc = "recover"
        BY <1>1 DEF Op
    <2> QED
        BY <2>1, <2>2, <2>3 DEF CarefulLabel
<1>6. ASSUME saved # None
      PROVE  asset.content = saved \/ Elsewhere(t)
    <2>1. CASE journal[t].phase = "prepared"
        BY <1>0, <1>2, <1>6, <2>1 DEF SavedInv, SavedOpOK, KeptWithout
    <2>2. CASE journal[t].phase = "committed"
        <3>1. displaced[t] # None => displaced[t] = journal[t].original
            BY <2>2 DEF FileInv, DisplacedOK
        <3>2. displaced[t] = saved => journal[t].kind = "accept" /\ journal[t].backup = saved
            BY <1>2, <1>6, <3>1, SavedShape
        <3>3. journal[t].kind = "accept" => row[journal[t].prop].backup = journal[t].backup
            BY <1>2, <2>2 DEF TxnRowOK, AcceptOK, Early
        <3>4. journal[t].prop \in Proposal
            BY <1>2, FileTxnOf
        <3> QED
            BY <1>2, <1>6, <3>2, <3>3, <3>4, KeptBefore DEF Elsewhere
    <2> QED
        BY <1>3, <2>1, <2>2
<1> QED
    BY <1>3, <1>4, <1>5, <1>6, CarefreeOK, FileSaves

\* The journal of a rejection is removed; it keeps nothing.
LEMMA DisposeSaves ==
    ASSUME ProposalInv, DecisionInv, FileInv, SavedInv, DisposeReject
    PROVE  SavedInv'
<1>0. op \in Op /\ op.pc = "dispose" /\ op.pc \in RejectLabel /\ OpOK(op)
    BY DEF ProposalInv, ProposalTypeOK, DisposeReject, At, RejectLabel
<1>1. op.txn \in Txn /\ journal[op.txn].kind = "reject" /\ journal[op.txn].phase # "unused"
    BY <1>0 DEF OpOK, TxnOK
<1>2. PICK t \in Txn : t = op.txn
    BY <1>1
<1>3. PICK phase \in Phase : SetPhase(t, phase)
    BY <1>2 DEF DisposeReject, Phase
<1>4. row' = row /\ edits' = edits /\ asset' = asset /\ displaced' = displaced /\ saved' = saved
    BY DEF DisposeReject, rowVars, fileVars, faultVars
<1>5. /\ \A u \in Txn \ {t} : journal'[u] = journal[u]
      /\ journal'[t].kind = journal[t].kind /\ journal'[t].backup = journal[t].backup
    BY <1>1, <1>2, <1>3, SetPhaseKeeps
<1>6. op'.pc \notin CarefulLabel
    <2>1. \/ op' = op
          \/ op' = NoOp
          \/ op' = [op EXCEPT !.pc = "read", !.txn = None]
        BY DEF DisposeReject, Done
    <2>2. op' = NoOp => op'.pc = "idle"
        BY DEF NoOp
    <2>3. op' = [op EXCEPT !.pc = "read", !.txn = None] => op'.pc = "read"
        BY <1>0 DEF Op
    <2> QED
        BY <1>0, <2>1, <2>2, <2>3 DEF CarefulLabel
<1>7. ASSUME saved # None
      PROVE  asset.content = saved \/ Elsewhere(t)
    <2>1. journal[t].backup = None /\ displaced[t] = None
        BY <1>1, <1>2 DEF SavedInv, FileInv, DisplacedOK, FileTxn
    <2>2. \A u \in Txn : KeptBy(u) <=> displaced[u] = saved \/ (Live(u) /\ journal[u].backup = saved)
        BY DEF KeptBy
    <2> QED
        BY <1>7, <2>1, <2>2 DEF SavedInv, SavedIsKept, Elsewhere
<1> QED
    BY <1>4, <1>5, <1>6, <1>7, CarefreeOK, FileSaves

\* The user saves the file, or deletes it.
LEMMA EditSaves ==
    ASSUME ProposalInv, DecisionInv, FileInv, SavedInv, NEW content \in {Edit, None}, EditAsset(content)
    PROVE  SavedInv'
<1>1. asset'.content = content /\ journal' = journal /\ op' = op
    BY DEF EditAsset
<1>2. saved' \in {Edit, None} /\ saved' # Base
    BY ContentsDiffer DEF EditAsset
<1>3. saved' # None => asset'.content = saved' /\ op'.pc \notin {"unlink", "verify"}
    BY <1>1 DEF EditAsset, Unprotected
<1>4. SavedIsKept'
    BY <1>3 DEF SavedIsKept
<1>5. saved' # None => SavedOpOK(op)'
    BY <1>3 DEF SavedOpOK, KeptWithout
<1> QED
    BY <1>1, <1>2, <1>4, <1>5 DEF SavedInv

-----------------------------------------------------------------------------
\* What the user has saved last is kept, at every step of an operation.
LEMMA SavedInvCorrect == ProposalSpec => []SavedInv
<1>1. ProposalInit => SavedInv
    <2> SUFFICES ASSUME ProposalInit
                 PROVE  SavedInv
        OBVIOUS
    <2>1. PICK first \in {Base, None} : asset = [content |-> first, txn |-> None] /\ saved = first
        BY DEF ProposalInit
    <2>2. asset.content = saved /\ saved \in {Base, None} /\ edits = 0 /\ op.pc = "idle"
        BY <2>1 DEF ProposalInit, NoOp
    <2>3. \A t \in Txn : journal[t].kind = "none"
        BY DEF ProposalInit, NoJournal
    <2> QED
        BY <2>2, <2>3 DEF SavedInv, SavedIsKept, SavedOpOK
<1>2. ProposalInv /\ DecisionInv /\ FileInv /\ SavedInv /\ [ProposalNext]_proposalVars => SavedInv'
    <2> SUFFICES ASSUME ProposalInv, DecisionInv, FileInv, SavedInv, [ProposalNext]_proposalVars
                 PROVE  SavedInv'
        OBVIOUS
    <2>1. CASE OpStep
        <3>1. \/ GentleStep \/ Displace \/ VerifyDisplaced \/ LinkPublished \/ UnlinkPublished
              \/ RestoreDisplaced \/ Scrub \/ CleanPublication \/ RemoveJournal \/ DisposeReject
            BY <2>1 DEF OpStep, GentleStep, PhaseStep
        <3> QED
            BY <3>1, GentleSaves, DisplaceSaves, VerifySaves, LinkSaves, UnlinkSaves, RestoreSaves,
               ScrubSaves, CleanSaves, RemoveSaves, DisposeSaves
    <2>2. ASSUME ~OpStep, \A content \in {Edit, None} : ~EditAsset(content)
          PROVE  GentleStep
        BY <2>2 DEF ProposalNext, GentleStep
    <2> QED
        BY <2>1, <2>2, GentleSaves, EditSaves
<1> QED
    BY <1>1, <1>2, ProposalInvCorrect, DecisionInvCorrect, FileInvCorrect, PTL DEF ProposalSpec

\* Whatever decisions, recoveries and crashes come in between, the content that the user
\* saved last is in place, moved aside, or in a backup.
THEOREM SavedContentIsKept == ProposalSpec => []SavedIsKept
<1>1. SavedInv => SavedIsKept
    BY DEF SavedInv
<1> QED
    BY <1>1, SavedInvCorrect, PTL

-----------------------------------------------------------------------------
(* Out of the maintenance passes' reach.                                   *)

Unreached == Proposal \ Exposed
\* The transactions on a proposal: its rejection, and those on its file.
Rejecting(t, p) == Live(t) /\ Of("reject", t, p)
Deciding(t, p) == FileTxn(t) /\ journal[t].prop = p

\* A proposal is not rejected under its acceptance, and nothing else is under way
\* while it is being rejected.
NotOvertaken(p) ==
    /\ \A t \in Txn : Deciding(t, p) /\ journal[t].kind = "accept" => row[p].status # "rejected"
    /\ \A t \in Txn : Rejecting(t, p) => row[p].status \in Undecided /\ \A u \in Txn : ~Deciding(u, p)
OneReject == \A t, u \in Txn : \A p \in Proposal : Rejecting(t, p) /\ Rejecting(u, p) => t = u

\* When an operation has seen to the rejections, and to the other transactions.
Cleared(o) ==
    \/ o.kind = "accept" /\ o.pc \notin {"rejects"} \cup RejectLabel
    \/ o.kind = "reject" /\ o.pc \in {"check", "prepare"}
Recovered(o) == o.kind = "reject" /\ o.pc \in {"rejects", "check", "prepare"}
ReachOpOK(o) ==
    /\ o.pc \in RejectLabel => Rejecting(o.txn, o.prop)
    /\ Cleared(o) => \A t \in Txn : ~Rejecting(t, o.prop)
    /\ Recovered(o) => \A t \in Txn : ~Deciding(t, o.prop)
    /\ o.pc = "prepare" /\ o.prop \in Unreached => Decidable(o.kind, row[o.prop])
    /\ o.pc = "archive" /\ o.prop \in Unreached => row[o.prop].status = "pending"

ReachInv ==
    /\ \A p \in Unreached : NotOvertaken(p)
    /\ OneReject
    /\ ReachOpOK(op)

-----------------------------------------------------------------------------
(* Steps that change no journal, and no row out of reach.                  *)

\* An operation that ends, or is killed, is no operation.
LEMMA DoneReaches ==
    ASSUME op' = NoOp
    PROVE  ReachOpOK(op)'
<1>1. op'.pc = "idle" /\ op'.kind = "none" /\ "idle" \notin RejectLabel
    BY DEF NoOp, RejectLabel
<1> QED
    BY <1>1 DEF ReachOpOK, Cleared, Recovered

\* Where no journal is changed, only the operation has to fit.
LEMMA ReachQuiet ==
    ASSUME ReachInv, journal' = journal, \A p \in Unreached : row'[p] = row[p], ReachOpOK(op)'
    PROVE  ReachInv'
<1>1. /\ \A t, p : Rejecting(t, p)' = Rejecting(t, p)
      /\ \A t, p : Deciding(t, p)' = Deciding(t, p)
    BY DEF Rejecting, Deciding, Live, FileTxn, Of
<1>2. \A p \in Unreached : NotOvertaken(p)'
    BY <1>1 DEF ReachInv, NotOvertaken
<1>3. OneReject'
    BY <1>1 DEF ReachInv, OneReject
<1> QED
    BY <1>2, <1>3 DEF ReachInv

\* A step to a label of a file transaction says nothing new.
LEMMA ToFileReaches ==
    ASSUME ReachInv, op'.pc \in FileLabel, op'.kind = op.kind, op'.prop = op.prop,
           op.pc \in FileLabel \/ op.pc = "recover",
           \A t \in Txn : Rejecting(t, op.prop)' => Rejecting(t, op.prop)
    PROVE  ReachOpOK(op)'
<1>1. /\ op'.pc \notin RejectLabel /\ op'.pc \notin {"rejects", "check", "prepare", "archive"}
      /\ op.pc \notin RejectLabel /\ op.pc # "rejects"
    BY LabelsAreAll DEF OtherLabel, RejectLabel
<1>2. Cleared(op)' => Cleared(op)
    BY <1>1 DEF Cleared
<1>3. ~Recovered(op)'
    BY <1>1 DEF Recovered
<1>4. Cleared(op)' => \A t \in Txn : ~Rejecting(t, op.prop)'
    BY <1>2 DEF ReachInv, ReachOpOK
<1> QED
    BY <1>1, <1>3, <1>4 DEF ReachOpOK, Rejecting, Of, Live

\* The steps on files and events.
LEMMA FileStepReaches ==
    ASSUME ProposalInv, DecisionInv, ReachInv,
           \/ StagePublish \/ Displace \/ VerifyDisplaced \/ LinkPublished \/ InspectAsset
           \/ UnlinkPublished \/ RestoreDisplaced \/ Scrub \/ ValidatePublished \/ CleanPublication
           \/ PublishGit \/ ServiceFails \/ PersistEvent
    PROVE  ReachInv'
<1>0. op \in Op /\ op.pc \in FileLabel
    BY DEF StagePublish, Displace, VerifyDisplaced, LinkPublished, InspectAsset, UnlinkPublished, RestoreDisplaced,
           Scrub, ValidatePublished, CleanPublication, PublishGit, ServiceFails, PersistEvent, At,
           FileLabel, OwnLabel, UndoLabel, ForwardLabel, ProposalInv, ProposalTypeOK
<1>1. journal' = journal /\ row' = row
    BY DEF StagePublish, Displace, VerifyDisplaced, LinkPublished, InspectAsset, UnlinkPublished, RestoreDisplaced,
           Scrub, ValidatePublished, CleanPublication, PublishGit, ServiceFails, PersistEvent, rowVars
<1>2. op' = NoOp \/ \E label \in FileLabel : Goto(label)
    <2>1. CASE StagePublish \/ Displace \/ VerifyDisplaced \/ LinkPublished \/ InspectAsset
        BY <2>1 DEF StagePublish, Displace, VerifyDisplaced, LinkPublished, InspectAsset, Done,
            FileLabel, OwnLabel, UndoLabel
    <2>2. CASE UnlinkPublished \/ RestoreDisplaced \/ Scrub \/ ValidatePublished
        BY <2>2 DEF UnlinkPublished, RestoreDisplaced, Scrub, ValidatePublished, Done,
            FileLabel, OwnLabel, UndoLabel, ForwardLabel
    <2>3. CASE CleanPublication
        <3>1. \E label \in {"git", "index", "event", "settle"} : Goto(label)
            BY <2>3 DEF CleanPublication
        <3> QED
            BY <3>1 DEF FileLabel, ForwardLabel
    <2>4. CASE PublishGit \/ ServiceFails \/ PersistEvent
        BY <2>4 DEF PublishGit, ServiceFails, PersistEvent, Done, FileLabel, ForwardLabel
    <2> QED
        BY <2>1, <2>2, <2>3, <2>4
<1>3. \A t, p : Rejecting(t, p)' = Rejecting(t, p)
    BY <1>1 DEF Rejecting, Live, Of
<1>4. ReachOpOK(op)'
    <2>1. ASSUME NEW label \in FileLabel, Goto(label)
          PROVE  ReachOpOK(op)'
        <3>1. op'.pc = label /\ op'.kind = op.kind /\ op'.prop = op.prop
            BY <1>0, <2>1, GotoKeeps
        <3> QED
            BY <1>0, <1>3, <3>1, ToFileReaches
    <2> QED
        BY <1>2, <2>1, DoneReaches
<1> QED
    BY <1>1, <1>4, ReachQuiet

\* The way to a transaction, and the steps of a rejection that change nothing out of reach.
LEMMA ReadStepReaches ==
    ASSUME ProposalInv, DecisionInv, ReachInv,
           \/ RecoverReject \/ ReadProposal \/ PersistRepair \/ ListJournals \/ RecoverNext \/ ReadState
           \/ DecideReject \/ AnnounceReject
    PROVE  ReachInv'
<1>0. op \in Op /\ OpOK(op) /\ row \in [Proposal -> Row] /\ ReachOpOK(op)
    BY DEF ProposalInv, ProposalTypeOK, ReachInv
<1>1. journal' = journal
    BY DEF RecoverReject, ReadProposal, PersistRepair, ListJournals, RecoverNext, ReadState, DecideReject,
           AnnounceReject
<1>2. \A p \in Unreached : row'[p] = row[p]
    <2>1. CASE PersistRepair
        <3>1. op.prop \in Unreached => op.read = row[op.prop]
            BY <1>0, <2>1 DEF PersistRepair, At, OpOK, ReadOK, Unreached
        <3> QED
            BY <1>0, <2>1, <3>1 DEF PersistRepair, Unreached
    <2> QED
        BY <2>1 DEF RecoverReject, ReadProposal, ListJournals, RecoverNext, ReadState, DecideReject,
           AnnounceReject, rowVars
<1>3. /\ \A t, p : Rejecting(t, p)' = Rejecting(t, p)
      /\ \A t, p : Deciding(t, p)' = Deciding(t, p)
    BY <1>1 DEF Rejecting, Deciding, Live, FileTxn, Of
<1>4. op.pc \in OtherLabel => op.pc \notin RejectLabel
    BY LabelsAreAll
<1>5. ReachOpOK(op)'
    <2>1. CASE RecoverReject
        <3>1. op.pc = "rejects" /\ op.prop \in Proposal
            BY <1>0, <2>1 DEF RecoverReject, At, OpOK, ReadOK
        <3>2. CASE RejectJournals(op.prop) = {} /\ Goto(IF op.kind = "accept" THEN "read" ELSE "check")
            <4>1. \A t \in Txn : ~Rejecting(t, op.prop)
                BY <3>2 DEF RejectJournals, Rejecting, Of
            <4>2. /\ op'.pc = (IF op.kind = "accept" THEN "read" ELSE "check")
                  /\ op'.kind = op.kind /\ op'.prop = op.prop
                BY <1>0, <3>2, GotoKeeps
            <4>3. op'.pc \in {"read", "check"} /\ op'.pc \notin RejectLabel
                BY <4>2 DEF RejectLabel
            <4>4. Recovered(op)' => Recovered(op)
                BY <3>1, <4>2 DEF Recovered
            <4> QED
                BY <1>0, <1>3, <4>1, <4>2, <4>3, <4>4 DEF ReachOpOK
        <3>3. ASSUME NEW t \in RejectJournals(op.prop), NEW label \in RejectLabel, label # "archive",
                     op' = [op EXCEPT !.txn = t, !.own = FALSE, !.pc = label]
              PROVE  ReachOpOK(op)'
            <4>1. op'.pc = label /\ op'.txn = t /\ op'.kind = op.kind /\ op'.prop = op.prop
                BY <1>0, <3>3 DEF Op
            <4>2. Rejecting(t, op.prop)
                BY <3>3 DEF RejectJournals, Rejecting, Of
            <4>3. label \notin {"rejects", "check", "prepare"}
                BY <3>3 DEF RejectLabel
            <4> QED
                BY <1>3, <3>3, <4>1, <4>2, <4>3 DEF ReachOpOK, Cleared, Recovered
        <3>4. ASSUME NEW t \in RejectJournals(op.prop),
                     op' = [op EXCEPT !.txn = t, !.own = FALSE,
                                      !.pc = CASE journal[t].phase = "prepared" -> "decide"
                                               [] journal[t].phase = "state-persisted" -> "announce"
                                               [] OTHER -> "dispose"]
              PROVE  ReachOpOK(op)'
            <4> DEFINE label == CASE journal[t].phase = "prepared" -> "decide"
                                  [] journal[t].phase = "state-persisted" -> "announce"
                                  [] OTHER -> "dispose"
            <4>1. label \in RejectLabel /\ label # "archive"
                BY DEF RejectLabel
            <4>2. op' = [op EXCEPT !.txn = t, !.own = FALSE, !.pc = label]
                BY <3>4
            <4> HIDE DEF label
            <4> QED
                BY <3>3, <4>1, <4>2
        <3> QED
            BY <2>1, <3>2, <3>4 DEF RecoverReject
    <2>2. CASE ReadProposal \/ PersistRepair
        <3>1. op' = NoOp \/ (op'.pc \in {"repair", "list"} /\ op'.kind = op.kind /\ op'.prop = op.prop)
            BY <1>0, <2>2 DEF ReadProposal, PersistRepair, Goto, Done, Op
        <3>2. op.pc \in {"read", "repair"}
            BY <2>2 DEF ReadProposal, PersistRepair, At
        <3>3. CASE op'.pc \in {"repair", "list"} /\ op'.kind = op.kind /\ op'.prop = op.prop
            <4>1. Cleared(op)' => Cleared(op)
                BY <3>2, <3>3 DEF Cleared, RejectLabel
            <4> QED
                BY <1>0, <1>3, <3>3, <4>1 DEF ReachOpOK, Recovered, RejectLabel
        <3> QED
            BY <3>1, <3>3, DoneReaches
    <2>3. ASSUME op.pc \in {"list", "recover"}, Goto(AfterRecovery), \A t \in Txn : ~Deciding(t, op.prop)
          PROVE  ReachOpOK(op)'
        <3>1. op'.pc = AfterRecovery /\ op'.kind = op.kind /\ op'.prop = op.prop
            BY <1>0, <2>3, GotoKeeps
        <3>2. op'.pc = (IF op.kind = "reject" THEN "rejects" ELSE "check")
            BY <3>1 DEF AfterRecovery
        <3>3. Cleared(op)' => Cleared(op)
            BY <2>3, <3>1, <3>2 DEF Cleared, RejectLabel
        <3> QED
            BY <1>0, <1>3, <2>3, <3>1, <3>2, <3>3 DEF ReachOpOK, RejectLabel
    <2>4. CASE ListJournals
        <3>1. op.pc = "list"
            BY <2>4 DEF ListJournals, At
        <3>2. ASSUME NEW todo, op' = [op EXCEPT !.pc = "recover", !.todo = todo]
              PROVE  ReachOpOK(op)'
            <4>1. op'.pc = "recover" /\ op'.kind = op.kind /\ op'.prop = op.prop
                BY <1>0, <3>2 DEF Op
            <4>2. Cleared(op)' => Cleared(op)
                BY <3>1, <4>1 DEF Cleared, RejectLabel
            <4> QED
                BY <1>0, <1>3, <4>1, <4>2 DEF ReachOpOK, Recovered, RejectLabel
        <3>3. \/ Done
              \/ Goto(AfterRecovery) /\ {t \in Txn : FileTxn(t) /\ journal[t].prop = op.prop} = {}
              \/ \E todo : op' = [op EXCEPT !.pc = "recover", !.todo = todo]
            BY <2>4 DEF ListJournals
        <3> QED
            BY <2>3, <3>1, <3>2, <3>3, DoneReaches DEF Done, Deciding
    <2>5. CASE RecoverNext
        <3>1. op.pc = "recover"
            BY <2>5 DEF RecoverNext, At
        <3>2. CASE op.todo = {} /\ Goto(AfterRecovery)
            <4>1. \A t \in Txn : ~Deciding(t, op.prop)
                BY <1>0, <3>1, <3>2 DEF OpOK, TodoOK, Deciding
            <4> QED
                BY <2>3, <3>1, <3>2, <4>1
        <3>3. ASSUME NEW t \in op.todo,
                     op' = [op EXCEPT !.txn = t, !.own = FALSE, !.todo = @ \ {t}, !.pc = Direction(t)]
              PROVE  ReachOpOK(op)'
            <4> DEFINE label == Direction(t)
            <4>1. label \in FileLabel
                BY DEF Direction, FileLabel, UndoLabel, ForwardLabel
            <4>2. op' = [op EXCEPT !.txn = t, !.own = FALSE, !.todo = @ \ {t}, !.pc = label]
                BY <3>3
            <4> HIDE DEF label
            <4>3. op'.pc = label /\ op'.kind = op.kind /\ op'.prop = op.prop
                BY <1>0, <4>2 DEF Op
            <4> QED
                BY <1>3, <3>1, <4>1, <4>3, ToFileReaches
        <3> QED
            BY <2>5, <3>2, <3>3 DEF RecoverNext
    <2>6. CASE ReadState
        <3>1. op.pc = "check" /\ row' = row
            BY <2>6 DEF ReadState, At, rowVars
        <3>2. CASE op' = [op EXCEPT !.pc = "prepare", !.read = row[op.prop], !.found = asset.content]
                   /\ Decidable(op.kind, row[op.prop])
            <4>1. op'.pc = "prepare" /\ op'.kind = op.kind /\ op'.prop = op.prop
                BY <1>0, <3>2 DEF Op
            <4>2. (Cleared(op)' => Cleared(op)) /\ (Recovered(op)' => Recovered(op))
                BY <3>1, <4>1 DEF Cleared, Recovered, RejectLabel
            <4>3. Decidable(op'.kind, row'[op'.prop])
                BY <3>1, <3>2, <4>1
            <4> QED
                BY <1>0, <1>3, <4>1, <4>2, <4>3 DEF ReachOpOK, RejectLabel, Decidable
        <3> QED
            BY <2>6, <3>2, DoneReaches DEF ReadState, Done
    <2>7. CASE DecideReject \/ AnnounceReject
        <3>1. op.pc \in RejectLabel /\ row' = row
            BY <2>7 DEF DecideReject, AnnounceReject, At, RejectLabel, rowVars
        <3>2. OfOp.prop = op.prop
            BY <1>0, <3>1 DEF ReachOpOK, Rejecting, Of, OfOp
        <3>3. \/ op' = NoOp
              \/ Goto("archive") /\ row[OfOp.prop].status = "pending"
              \/ Goto("archived") \/ Goto("announced")
            BY <2>7 DEF DecideReject, AnnounceReject, Done
        <3>4. ASSUME NEW label \in {"archive", "archived", "announced"}, Goto(label),
                     label = "archive" => row[op.prop].status = "pending"
              PROVE  ReachOpOK(op)'
            <4>1. op'.pc = label /\ op'.kind = op.kind /\ op'.prop = op.prop /\ op'.txn = op.txn
                BY <1>0, <3>4, GotoKeeps
            <4>2. ~Cleared(op)' /\ ~Recovered(op)' /\ op'.pc # "prepare"
                BY <3>4, <4>1 DEF Cleared, Recovered, RejectLabel
            <4>3. op'.pc = "archive" => row'[op'.prop].status = "pending"
                BY <3>1, <3>4, <4>1
            <4> QED
                BY <1>0, <1>3, <3>1, <4>1, <4>2, <4>3 DEF ReachOpOK
        <3> QED
            BY <3>2, <3>3, <3>4, DoneReaches
    <2> QED
        BY <2>1, <2>2, <2>4, <2>5, <2>6, <2>7
<1> QED
    BY <1>1, <1>2, <1>5, ReachQuiet

-----------------------------------------------------------------------------
(* Steps that finish a transaction, or get it further.                     *)

\* Where no transaction on a proposal appears, only the operation has to fit.
LEMMA ReachLess ==
    ASSUME ReachInv, \A p \in Unreached : row'[p] = row[p], ReachOpOK(op)',
           \A t \in Txn : \A p \in Proposal : Rejecting(t, p)' => Rejecting(t, p),
           \A t \in Txn : \A p \in Proposal : Deciding(t, p)' => Deciding(t, p),
           \A t \in Txn : FileTxn(t)' => journal'[t].kind = journal[t].kind
    PROVE  ReachInv'
<1>1. ASSUME NEW p \in Unreached
      PROVE  NotOvertaken(p)'
    <2>1. NotOvertaken(p) /\ p \in Proposal /\ row'[p] = row[p]
        BY <1>1 DEF ReachInv, Unreached
    <2>2. \A t \in Txn : Deciding(t, p)' => FileTxn(t)'
        BY DEF Deciding
    <2> QED
        BY <2>1, <2>2 DEF NotOvertaken
<1>2. OneReject'
    BY DEF ReachInv, OneReject
<1> QED
    BY <1>1, <1>2 DEF ReachInv

\* The next phase of a transaction, or its end, begins no other.
LEMMA PhaseReaches ==
    ASSUME ProposalInv, ReachInv, NEW t \in Txn, Live(t), row' = row,
           NEW phase \in Phase \ {"unused"}, SetPhase(t, phase)
    PROVE  /\ ReachOpOK(op)' => ReachInv'
           /\ \A u \in Txn : \A p \in Proposal : Rejecting(u, p)' => Rejecting(u, p)
           /\ phase # "gone" => \A p : Rejecting(t, p) => Rejecting(t, p)'
           /\ phase = "gone" => \A p : ~Rejecting(t, p)'
<1>0. JournalsOK /\ journal[t].phase # "unused"
    BY DEF ProposalInv, Live
<1>1. /\ \A u \in Txn \ {t} : journal'[u] = journal[u]
      /\ journal'[t].phase = phase
      /\ journal'[t].kind = journal[t].kind /\ journal'[t].prop = journal[t].prop
    BY <1>0, SetPhaseJournals
<1>2. ASSUME NEW u \in Txn, NEW p \in Proposal
      PROVE  /\ Rejecting(u, p)' => Rejecting(u, p)
             /\ Deciding(u, p)' => Deciding(u, p)
    BY <1>0, <1>1 DEF Rejecting, Deciding, FileTxn, Live, Of
<1>3. \A u \in Txn : FileTxn(u)' => journal'[u].kind = journal[u].kind
    BY <1>1
<1>4. /\ phase # "gone" => \A p : Rejecting(t, p) => Rejecting(t, p)'
      /\ phase = "gone" => \A p : ~Rejecting(t, p)'
    BY <1>0, <1>1 DEF Rejecting, Live, Of
<1> QED
    BY <1>2, <1>3, <1>4, ReachLess

\* A file transaction gets further, or ends.
LEMMA FilePhaseReaches ==
    ASSUME ProposalInv, ReachInv, PhaseStep \/ RemoveJournal
    PROVE  ReachInv'
<1>0. op \in Op /\ op.pc \in FileLabel /\ row' = row
    BY DEF PhaseStep, AdvancePublished, AdvancePersisted, FinalizeIndex, AdvanceEvented, Settle, RemoveJournal,
           At, FileLabel, OwnLabel, UndoLabel, ForwardLabel, ProposalInv, ProposalTypeOK, rowVars
<1>1. PICK t \in Txn : t = op.txn /\ Live(t)
    BY <1>0 DEF ProposalInv, OpOK, TxnOK, FileTxn
<1>2. \E phase \in Phase \ {"unused"} : SetPhase(t, phase)
    BY <1>1 DEF PhaseStep, AdvancePublished, AdvancePersisted, FinalizeIndex, AdvanceEvented, Settle, RemoveJournal,
                Phase
<1>3. \A u \in Txn : \A p \in Proposal : Rejecting(u, p)' => Rejecting(u, p)
    BY <1>0, <1>1, <1>2, PhaseReaches
<1>4. op.prop \in Proposal
    BY <1>0, LabelsAreAll DEF ProposalInv, OpOK, ReadOK
<1>5. ReachOpOK(op)'
    <2>1. ASSUME NEW label \in FileLabel, Goto(label)
          PROVE  ReachOpOK(op)'
        <3>1. op'.pc = label /\ op'.kind = op.kind /\ op'.prop = op.prop
            BY <1>0, <2>1, GotoKeeps
        <3> QED
            BY <1>0, <1>3, <1>4, <3>1, ToFileReaches
    <2>2. CASE op' = [op EXCEPT !.pc = "recover", !.txn = None]
        <3>1. op'.pc = "recover" /\ op'.kind = op.kind /\ op'.prop = op.prop
            BY <1>0, <2>2 DEF Op
        <3>2. Cleared(op)' => Cleared(op)
            BY <1>0, <3>1, LabelsAreAll DEF Cleared, OtherLabel
        <3> QED
            BY <1>3, <1>4, <3>1, <3>2 DEF ReachInv, ReachOpOK, Recovered, RejectLabel
    <2>3. PhaseStep => \E label \in FileLabel : Goto(label)
        BY DEF PhaseStep, AdvancePublished, AdvancePersisted, FinalizeIndex, AdvanceEvented, Settle,
               FileLabel, ForwardLabel
    <2>4. RemoveJournal => op' = NoOp \/ op' = [op EXCEPT !.pc = "recover", !.txn = None]
        BY DEF RemoveJournal, Done
    <2> QED
        BY <2>1, <2>2, <2>3, <2>4, DoneReaches
<1> QED
    BY <1>0, <1>1, <1>2, <1>5, PhaseReaches

\* A rejection gets further, or ends.
LEMMA RejectPhaseReaches ==
    ASSUME ProposalInv, ReachInv, AdvanceArchived \/ AdvanceAnnounced \/ DisposeReject
    PROVE  ReachInv'
<1>0. op \in Op /\ op.pc \in RejectLabel /\ row' = row /\ ReachOpOK(op)
    BY DEF AdvanceArchived, AdvanceAnnounced, DisposeReject, At, RejectLabel, ProposalInv, ProposalTypeOK, rowVars,
           ReachInv
<1>1. PICK t \in Txn : t = op.txn /\ Live(t) /\ Rejecting(t, op.prop)
    BY <1>0 DEF ProposalInv, OpOK, TxnOK, ReachOpOK, Rejecting
<1>2. op.prop \in Proposal
    BY <1>0, LabelsAreAll DEF ProposalInv, OpOK, ReadOK
<1>3. ASSUME NEW phase \in Phase \ {"unused", "gone"}, SetPhase(t, phase),
             NEW label \in RejectLabel \ {"archive"}, op'.pc = label, op'.kind = op.kind, op'.prop = op.prop,
             op'.txn = t
      PROVE  ReachInv'
    <2>1. \A p : Rejecting(t, p) => Rejecting(t, p)'
        BY <1>0, <1>1, <1>3, PhaseReaches
    <2>2. Live(t)' /\ Of("reject", t, op.prop)'
        BY <1>1, <2>1, <1>3 DEF Rejecting, Of
    <2>3. ~Cleared(op)' /\ ~Recovered(op)' /\ op'.pc # "prepare"
        BY <1>3 DEF Cleared, Recovered, RejectLabel
    <2>4. ReachOpOK(op)'
        BY <1>3, <2>2, <2>3 DEF ReachOpOK, Rejecting
    <2> QED
        BY <1>0, <1>1, <1>3, <2>4, PhaseReaches
<1>4. CASE AdvanceArchived \/ AdvanceAnnounced
    <2>1. PICK phase \in Phase \ {"unused", "gone"}, label \in RejectLabel \ {"archive"} :
            SetPhase(t, phase) /\ Goto(label)
        BY <1>1, <1>4 DEF AdvanceArchived, AdvanceAnnounced, Phase, RejectLabel
    <2>2. op'.pc = label /\ op'.kind = op.kind /\ op'.prop = op.prop /\ op'.txn = t
        BY <1>0, <1>1, <2>1, GotoKeeps
    <2> QED
        BY <1>3, <2>1, <2>2
<1>5. CASE DisposeReject /\ op' = op
    <2>1. op.pc = "dispose"
        BY <1>5 DEF DisposeReject, At
    <2>2. CASE SetPhase(t, "committed")
        BY <1>1, <1>3, <1>5, <2>1, <2>2 DEF Phase, RejectLabel
    <2>3. CASE op' = NoOp
        BY <1>5, <2>1, <2>3 DEF NoOp
    <2>4. CASE op' = [op EXCEPT !.pc = "read", !.txn = None]
        BY <1>0, <1>5, <2>1, <2>4 DEF Op
    <2> QED
        BY <1>1, <1>5, <2>2, <2>3, <2>4 DEF DisposeReject, Done
<1>6. CASE DisposeReject /\ op' # op
    <2>1. SetPhase(t, "gone") /\ "gone" \in Phase \ {"unused"}
        BY <1>1, <1>6 DEF DisposeReject, Phase
    <2>2. CASE op' = NoOp
        BY <1>0, <1>1, <2>1, <2>2, DoneReaches, PhaseReaches
    <2>3. CASE op' = [op EXCEPT !.pc = "read", !.txn = None]
        <3>1. op'.pc = "read" /\ op'.kind = op.kind /\ op'.prop = op.prop
            BY <1>0, <2>3 DEF Op
        <3>2. /\ \A u \in Txn : \A p \in Proposal : Rejecting(u, p)' => Rejecting(u, p)
              /\ \A p : ~Rejecting(t, p)'
            BY <1>0, <1>1, <2>1, PhaseReaches
        <3>3. PICK p \in Proposal : p = op.prop
            BY <1>2
        <3>4. ASSUME NEW u \in Txn
              PROVE  ~Rejecting(u, p)'
            <4>1. Rejecting(u, p) => u = t
                BY <1>1, <3>3 DEF ReachInv, OneReject
            <4> QED
                BY <3>2, <4>1
        <3>5. ReachOpOK(op)'
            BY <3>1, <3>3, <3>4 DEF ReachOpOK, Recovered, RejectLabel, Rejecting, Of
        <3> QED
            BY <1>0, <1>1, <2>1, <3>5, PhaseReaches
    <2> QED
        BY <1>6, <2>2, <2>3 DEF DisposeReject, Done
<1> QED
    BY <1>4, <1>5, <1>6

-----------------------------------------------------------------------------
(* Steps that write a row, or begin a transaction.                         *)

\* The decision is written to the row.
LEMMA PersistStateReaches ==
    ASSUME ProposalInv, DecisionInv, ReachInv, PersistState
    PROVE  ReachInv'
<1>0. op \in Op /\ op.pc = "persist" /\ op.pc \in FileLabel /\ row \in [Proposal -> Row] /\ journal' = journal
    BY DEF ProposalInv, ProposalTypeOK, PersistState, At, FileLabel, ForwardLabel
<1>1. op.txn \in Txn /\ FileTxn(op.txn)
    BY <1>0 DEF ProposalInv, OpOK, TxnOK
<1>2. PICK t \in Txn : t = op.txn /\ FileTxn(t)
    BY <1>1
<1>3. PICK p \in Proposal : p = journal[t].prop /\ OfOp.prop = p /\ Deciding(t, p)
    BY <1>2, FileTxnOf DEF OfOp, Deciding
<1>4. /\ \A u, q : Rejecting(u, q)' = Rejecting(u, q)
      /\ \A u, q : Deciding(u, q)' = Deciding(u, q)
    BY <1>0 DEF Rejecting, Deciding, Live, FileTxn, Of
<1>5. \/ op' = NoOp /\ row' = row
      \/ Goto("persisted") /\ Persisted(row[p]) # None /\ row' = [row EXCEPT ![p] = Persisted(row[p])]
    BY <1>3 DEF PersistState, Done
<1>6. CASE op' = NoOp /\ row' = row
    BY <1>0, <1>6, DoneReaches, ReachQuiet
<1>7. CASE Goto("persisted") /\ Persisted(row[p]) # None /\ row' = [row EXCEPT ![p] = Persisted(row[p])]
    <2>1. row'[p] = Persisted(row[p]) /\ \A q \in Proposal \ {p} : row'[q] = row[q]
        BY <1>0, <1>7
    <2>2. row'[p].status \in {"accepted", "reverted"}
        <3> DEFINE r == row[p]
        <3>1. r \in Row /\ Persisted(r) # None /\ row'[p] = Persisted(r)
            BY <1>0, <1>7, <2>1
        <3> HIDE DEF r
        <3>2. \/ Persisted(r) = [r EXCEPT !.status = "accepted", !.backup = OfOp.backup]
              \/ Persisted(r) = [r EXCEPT !.status = "reverted"]
              \/ Persisted(r) = r /\ r.status \in {"accepted", "reverted"}
            BY <3>1 DEF Persisted
        <3> QED
            BY <3>1, <3>2 DEF Row
    <2>3. ASSUME NEW q \in Unreached
          PROVE  NotOvertaken(q)'
        <3>1. NotOvertaken(q) /\ q \in Proposal
            BY DEF ReachInv, Unreached
        <3>2. CASE q # p
            BY <1>0, <1>4, <2>1, <3>1, <3>2 DEF NotOvertaken
        <3>3. CASE q = p
            BY <1>3, <1>4, <2>2, <3>1, <3>3 DEF NotOvertaken
        <3> QED
            BY <3>2, <3>3
    <2>4. op'.pc = "persisted" /\ op'.kind = op.kind /\ op'.prop = op.prop
        BY <1>0, <1>7, GotoKeeps
    <2>5. ReachOpOK(op)'
        BY <1>0, <1>4, <2>4, ToFileReaches DEF FileLabel, ForwardLabel
    <2>6. OneReject'
        BY <1>4 DEF ReachInv, OneReject
    <2> QED
        BY <2>3, <2>5, <2>6 DEF ReachInv
<1> QED
    BY <1>5, <1>6, <1>7

\* A rejection archives its proposal.
LEMMA ArchiveReaches ==
    ASSUME ProposalInv, ReachInv, ArchiveRejected
    PROVE  ReachInv'
<1>0. /\ op \in Op /\ op.pc = "archive" /\ op.pc \in RejectLabel /\ row \in [Proposal -> Row] /\ journal' = journal
      /\ ReachOpOK(op)
    BY DEF ProposalInv, ProposalTypeOK, ArchiveRejected, At, RejectLabel, ReachInv
<1>1. op.txn \in Txn /\ Rejecting(op.txn, op.prop) /\ OfOp.prop = op.prop
    BY <1>0 DEF ProposalInv, OpOK, TxnOK, ReachOpOK, Rejecting, Of, OfOp
<1>2. op.prop \in Proposal
    BY <1>0, LabelsAreAll DEF ProposalInv, OpOK, ReadOK
<1>3. PICK t \in Txn, p \in Proposal : t = op.txn /\ p = op.prop /\ Rejecting(t, p) /\ OfOp.prop = p
    BY <1>1, <1>2
<1>4. /\ \A u, q : Rejecting(u, q)' = Rejecting(u, q)
      /\ \A u, q : Deciding(u, q)' = Deciding(u, q)
    BY <1>0 DEF Rejecting, Deciding, Live, FileTxn, Of
<1>5. \/ op' = NoOp /\ row' = row
      \/ Goto("archived") /\ row' = [row EXCEPT ![p].status = "rejected"]
    BY <1>3 DEF ArchiveRejected, Done
<1>6. CASE op' = NoOp /\ row' = row
    BY <1>0, <1>6, DoneReaches, ReachQuiet
<1>7. CASE Goto("archived") /\ row' = [row EXCEPT ![p].status = "rejected"]
    <2>1. row'[p].status = "rejected" /\ \A q \in Proposal \ {p} : row'[q] = row[q]
        BY <1>0, <1>7 DEF Row
    <2>2. ASSUME NEW q \in Unreached
          PROVE  NotOvertaken(q)'
        <3>1. NotOvertaken(q) /\ q \in Proposal
            BY DEF ReachInv, Unreached
        <3>2. CASE q # p
            BY <1>0, <1>4, <2>1, <3>1, <3>2 DEF NotOvertaken
        <3>3. CASE q = p
            BY <1>3, <1>4, <2>1, <3>1, <3>3 DEF NotOvertaken, Undecided
        <3> QED
            BY <3>2, <3>3
    <2>3. op'.pc = "archived" /\ op'.kind = op.kind /\ op'.prop = op.prop /\ op'.txn = op.txn
        BY <1>0, <1>7, GotoKeeps
    <2>4. ReachOpOK(op)'
        BY <1>1, <1>4, <2>3 DEF ReachOpOK, Cleared, Recovered, RejectLabel
    <2>5. OneReject'
        BY <1>4 DEF ReachInv, OneReject
    <2> QED
        BY <2>2, <2>4, <2>5 DEF ReachInv
<1> QED
    BY <1>5, <1>6, <1>7

\* A transaction is begun: a rejection when no other one of the proposal is left, an
\* acceptance or a reversal when none is being rejected.
LEMMA PrepareReaches ==
    ASSUME ProposalInv, ReachInv, Prepare
    PROVE  ReachInv'
<1>0. /\ op \in Op /\ OpOK(op) /\ op.pc = "prepare" /\ op.pc # "idle" /\ JournalsOK /\ ReachOpOK(op)
      /\ row' = row /\ op.pc \notin RejectLabel /\ op.pc # "rejects"
    BY DEF ProposalInv, ProposalTypeOK, Prepare, At, ReachInv, rowVars, RejectLabel
<1>1. op.kind \in Kind /\ op.prop \in Proposal /\ Unused # {}
    BY <1>0 DEF OpOK, ReadOK
<1>2. PICK t \in Txn : t = (CHOOSE u \in Unused : TRUE) /\ journal[t].phase = "unused"
    <2> DEFINE c == CHOOSE u \in Unused : TRUE
    <2>1. c \in Unused
        BY <1>1
    <2> HIDE DEF c
    <2>2. c \in Txn /\ journal[c].phase = "unused"
        BY <2>1 DEF Unused
    <2> QED
        BY <2>2 DEF c
<1>3. PICK p \in Proposal : p = op.prop
    BY <1>1
<1> DEFINE original == IF op.kind = "reject" THEN None ELSE op.found
           published == CASE op.kind = "accept" -> op.prop
                          [] op.kind = "revert" -> op.read.backup
                          [] op.kind = "reject" -> None
           backup == IF op.kind = "accept" THEN op.found ELSE None
           j == [phase |-> "prepared", kind |-> op.kind, prop |-> op.prop,
                 original |-> original, published |-> published, backup |-> backup]
           label == IF op.kind = "reject" THEN "decide" ELSE "stage"
<1>4. /\ journal' = [journal EXCEPT ![t] = j]
      /\ op' = [op EXCEPT !.txn = t, !.own = TRUE, !.read = None, !.found = None, !.pc = label]
    BY <1>2 DEF Prepare
<1>5. label = (IF op.kind = "reject" THEN "decide" ELSE "stage")
    OBVIOUS
<1> HIDE DEF original, published, backup, label
<1>6. j.phase = "prepared" /\ j.kind = op.kind /\ j.prop = p
    BY <1>3
<1> HIDE DEF j
<1>7. journal'[t] = j /\ \A u \in Txn \ {t} : journal'[u] = journal[u]
    BY <1>0, <1>4 DEF JournalsOK
<1>8. op'.pc = label /\ op'.txn = t /\ op'.kind = op.kind /\ op'.prop = p
    BY <1>0, <1>3, <1>4 DEF Op
<1>9. /\ \A u \in Txn \ {t} : \A q : (Rejecting(u, q)' <=> Rejecting(u, q)) /\ (Deciding(u, q)' <=> Deciding(u, q))
      /\ \A q : Rejecting(t, q)' <=> op.kind = "reject" /\ q = p
      /\ \A q : Deciding(t, q)' <=> op.kind # "reject" /\ q = p
    BY <1>6, <1>7 DEF Rejecting, Deciding, FileTxn, Live, Of
<1>10. op.kind = "reject" \/ p \in Unreached => \A u \in Txn : ~Rejecting(u, p)
    <2>1. op.kind \in {"accept", "reject"} => \A u \in Txn : ~Rejecting(u, p)
        BY <1>0, <1>3 DEF ReachOpOK, Cleared
    <2>2. ASSUME op.kind = "revert", p \in Unreached
          PROVE  \A u \in Txn : ~Rejecting(u, p)
        <3>1. row[p].status = "accepted"
            BY <1>0, <1>3, <2>2 DEF ReachOpOK, Decidable
        <3> QED
            BY <2>2, <3>1 DEF ReachInv, NotOvertaken, Undecided
    <2> QED
        BY <1>1, <2>1, <2>2 DEF Kind
<1>11. op.kind = "reject" => \A u \in Txn : ~Deciding(u, p)
    BY <1>0, <1>3 DEF ReachOpOK, Recovered
<1>12. p \in Unreached /\ op.kind \in {"accept", "reject"} => row[p].status = "pending"
    BY <1>0, <1>3 DEF ReachOpOK, Decidable
<1>13. ASSUME NEW q \in Unreached
       PROVE  NotOvertaken(q)'
    <2>1. NotOvertaken(q) /\ q \in Proposal
        BY <1>13 DEF ReachInv, Unreached
    <2>2. CASE q # p
        BY <1>0, <1>7, <1>9, <2>1, <2>2 DEF NotOvertaken
    <2>3. CASE q = p /\ op.kind = "reject"
        <3>1. \A u \in Txn : ~Deciding(u, p)'
            BY <1>9, <1>11, <2>3
        <3>2. row'[p].status \in Undecided
            BY <1>0, <1>12, <1>13, <2>3 DEF Undecided
        <3> QED
            BY <2>3, <3>1, <3>2 DEF NotOvertaken
    <2>4. CASE q = p /\ op.kind # "reject"
        <3>1. \A u \in Txn : ~Rejecting(u, p)'
            BY <1>9, <1>10, <1>13, <2>4
        <3>2. ASSUME NEW u \in Txn, Deciding(u, p)', journal'[u].kind = "accept"
              PROVE  row'[p].status # "rejected"
            <4>1. CASE u = t
                BY <1>0, <1>6, <1>7, <1>12, <1>13, <2>4, <3>2, <4>1
            <4>2. CASE u # t
                BY <1>0, <1>7, <1>9, <2>1, <2>4, <3>2, <4>2 DEF NotOvertaken
            <4> QED
                BY <4>1, <4>2
        <3> QED
            BY <2>4, <3>1, <3>2 DEF NotOvertaken
    <2> QED
        BY <2>2, <2>3, <2>4
<1>14. OneReject'
    <2>1. ASSUME NEW u \in Txn, NEW v \in Txn, NEW q \in Proposal, Rejecting(u, q)', Rejecting(v, q)'
          PROVE  u = v
        <3>1. CASE u = t \/ v = t
            BY <1>9, <1>10, <2>1, <3>1
        <3>2. CASE u # t /\ v # t
            BY <1>9, <2>1, <3>2 DEF ReachInv, OneReject
        <3> QED
            BY <3>1, <3>2
    <2> QED
        BY <2>1 DEF OneReject
<1>15. ReachOpOK(op)'
    <2>1. CASE op.kind = "reject"
        <3>1. label = "decide" /\ Rejecting(t, p)'
            BY <1>5, <1>9, <2>1
        <3>2. ~Cleared(op)' /\ ~Recovered(op)'
            BY <1>8, <2>1, <3>1 DEF Cleared, Recovered
        <3> QED
            BY <1>8, <3>1, <3>2 DEF ReachOpOK, Rejecting, Of
    <2>2. CASE op.kind # "reject"
        <3>1. label = "stage" /\ label \notin RejectLabel
            BY <1>5, <2>2 DEF RejectLabel
        <3>2. Cleared(op)' => Cleared(op)
            BY <1>0, <1>8, <2>2 DEF Cleared
        <3>3. Cleared(op) => \A u \in Txn : ~Rejecting(u, p)'
            BY <1>0, <1>3, <1>9, <2>2 DEF ReachOpOK
        <3> QED
            BY <1>8, <2>2, <3>1, <3>2, <3>3 DEF ReachOpOK, Recovered, Rejecting, Of
    <2> QED
        BY <2>1, <2>2
<1> QED
    BY <1>13, <1>14, <1>15 DEF ReachInv

\* The beginning and the death of an operation, the maintenance passes, and the user.
LEMMA OutsideReaches ==
    ASSUME ProposalInv, ReachInv,
           \/ \E kind \in Kind, p \in Proposal : Begin(kind, p)
           \/ \E p \in Proposal : ExpireStale(p) \/ PurgeLooks(p) \/ PurgeArchives(p)
           \/ \E content \in {Edit, None} : EditAsset(content)
           \/ CrashOp
           \/ UNCHANGED proposalVars
    PROVE  ReachInv'
<1>0. row \in [Proposal -> Row] /\ doomed \subseteq Exposed
    BY DEF ProposalInv, ProposalTypeOK
<1>1. journal' = journal
    BY DEF Begin, ExpireStale, PurgeLooks, PurgeArchives, EditAsset, CrashOp, proposalVars
<1>2. \A p \in Unreached : row'[p] = row[p]
    <2>1. ASSUME NEW q \in Proposal, ExpireStale(q) \/ PurgeArchives(q)
          PROVE  \A p \in Unreached : row'[p] = row[p]
        <3>1. q \notin Unreached
            BY <1>0, <2>1 DEF ExpireStale, PurgeArchives, Unreached
        <3>2. row' = row \/ row' = [row EXCEPT ![q].status = "rejected"]
            BY <2>1 DEF ExpireStale, PurgeArchives
        <3> QED
            BY <1>0, <3>1, <3>2 DEF Unreached
    <2> QED
        BY <2>1 DEF Begin, PurgeLooks, EditAsset, CrashOp, proposalVars, rowVars
<1>3. \A t, p : Rejecting(t, p)' = Rejecting(t, p)
    BY <1>1 DEF Rejecting, Live, Of
<1>4. \A t, p : Deciding(t, p)' = Deciding(t, p)
    BY <1>1 DEF Deciding, FileTxn, Live
<1>5. CASE op' = op
    <2>1. ReachOpOK(op)'
        BY <1>2, <1>3, <1>4, <1>5 DEF ReachInv, ReachOpOK, Cleared, Recovered, Decidable
    <2> QED
        BY <1>1, <1>2, <2>1, ReachQuiet
<1>6. CASE op' = NoOp
    BY <1>1, <1>2, <1>6, DoneReaches, ReachQuiet
<1>7. ASSUME NEW kind \in Kind, NEW p \in Proposal, Begin(kind, p)
      PROVE  ReachInv'
    <2>1. op'.kind = kind /\ op'.pc = IF kind = "accept" THEN "rejects" ELSE "list"
        BY <1>7 DEF Begin, NoOp
    <2>2. op'.pc \notin RejectLabel /\ op'.pc # "prepare" /\ op'.pc # "archive"
        BY <2>1 DEF RejectLabel
    <2>3. ~Cleared(op)' /\ ~Recovered(op)'
        BY <2>1 DEF Cleared, Recovered
    <2>4. ReachOpOK(op)'
        BY <2>2, <2>3 DEF ReachOpOK
    <2> QED
        BY <1>1, <1>2, <2>4, ReachQuiet
<1> QED
    BY <1>5, <1>6, <1>7 DEF ExpireStale, PurgeLooks, PurgeArchives, EditAsset, CrashOp, Done, proposalVars

\* No proposal out of reach is decided in two ways at once.
LEMMA ReachInvCorrect == ProposalSpec => []ReachInv
<1>1. ProposalInit => ReachInv
    <2> SUFFICES ASSUME ProposalInit
                 PROVE  ReachInv
        OBVIOUS
    <2>1. \A t \in Txn : ~Live(t)
        BY DEF ProposalInit, NoJournal, Live
    <2>2. op.pc = "idle" /\ op.kind = "none" /\ "idle" \notin RejectLabel
        BY DEF ProposalInit, NoOp, RejectLabel
    <2>3. ReachOpOK(op)
        BY <2>2 DEF ReachOpOK, Cleared, Recovered
    <2> QED
        BY <2>1, <2>3 DEF ReachInv, NotOvertaken, OneReject, Rejecting, Deciding, FileTxn
<1>2. ProposalInv /\ DecisionInv /\ ReachInv /\ [ProposalNext]_proposalVars => ReachInv'
    <2> SUFFICES ASSUME ProposalInv, DecisionInv, ReachInv, [ProposalNext]_proposalVars
                 PROVE  ReachInv'
        OBVIOUS
    <2>1. CASE OpStep
        BY <2>1, FileStepReaches, ReadStepReaches, FilePhaseReaches, RejectPhaseReaches, PersistStateReaches,
           ArchiveReaches, PrepareReaches DEF OpStep, PhaseStep
    <2> QED
        BY <2>1, OutsideReaches DEF ProposalNext
<1> QED
    BY <1>1, <1>2, ProposalInvCorrect, DecisionInvCorrect, PTL DEF ProposalSpec

\* The points at which a transaction finds that its proposal has been decided otherwise,
\* and gives up: "changed status during ..." when a publication is recorded, "is not
\* pending" when a rejection goes on, or is archived.
DecisionRefused ==
    \/ At("persist") /\ Persisted(row[OfOp.prop]) = None
    \/ At("decide") /\ row[OfOp.prop].status \notin Undecided
    \/ At("archive") /\ row[OfOp.prop].status # "pending"

\* A transaction past its commit point, or a rejection that goes on, is refused its row
\* only if the maintenance passes can archive the proposal without the lease: acceptances,
\* reversals, rejections, their recoveries, repairs, crashes and edits cannot bring it about.
THEOREM RefusedOnlyInReach == ProposalSpec => [](DecisionRefused => OfOp.prop \in Exposed)
<1>1. ASSUME ProposalInv, DecisionInv, ReachInv, DecisionRefused, OfOp.prop \notin Exposed
      PROVE  FALSE
    <2>0. op \in Op /\ OpOK(op) /\ ReachOpOK(op) /\ JournalsOK /\ row \in [Proposal -> Row]
        BY <1>1 DEF ProposalInv, ProposalTypeOK, ReachInv
    <2>1. CASE op.pc = "persist" /\ Persisted(row[OfOp.prop]) = None
        <3>1. op.txn \in Txn /\ FileTxn(op.txn) /\ journal[op.txn].phase = "asset-published"
            BY <1>1, <2>0, <2>1 DEF OpOK, TxnOK, FileLabel, ForwardLabel, DecisionInv, PhaseOK
        <3>2. PICK t \in Txn : t = op.txn /\ FileTxn(t) /\ journal[t].phase = "asset-published"
            BY <3>1
        <3>3. PICK p \in Proposal : p = journal[t].prop /\ OfOp.prop = p
            BY <1>1, <3>2, FileTxnOf DEF OfOp
        <3>4. journal[t].kind \in {"accept", "revert"}
            BY <1>1, <3>2, FileTxnOf
        <3>5. NotOvertaken(p) /\ Deciding(t, p) /\ row[p] \in Row /\ TxnRowOK(t)
            BY <1>1, <2>0, <3>2, <3>3 DEF ReachInv, Unreached, Deciding, DecisionInv
        <3>6. journal[t].kind = "accept" => row[p].status \in {"pending", "accepted"}
            BY <3>2, <3>3, <3>5 DEF NotOvertaken, TxnRowOK, AcceptOK, Row
        <3>7. journal[t].kind = "revert" => row[p].status \in {"accepted", "reverted"}
            BY <3>2, <3>3, <3>5 DEF TxnRowOK, RevertOK
        <3>8. Persisted(row[p]) # None
            <4>1. row[p] \in Row /\ row[p] # None
                BY <3>5, NoneAssumption
            <4>2. CASE journal[t].kind = "accept" /\ row[p].status = "pending"
                <5>1. Persisted(row[p]) = [row[p] EXCEPT !.status = "accepted", !.backup = OfOp.backup]
                    BY <3>2, <4>2 DEF Persisted, OfOp
                <5>2. OfOp.backup \in MaybeContent
                    BY <2>0, <3>2 DEF JournalsOK, Journal, OfOp
                <5>3. [row[p] EXCEPT !.status = "accepted", !.backup = OfOp.backup] \in Row
                    BY <4>1, <5>2, RowTypes
                <5> QED
                    BY <5>1, <5>3, NoneAssumption
            <4>3. CASE journal[t].kind = "revert" /\ row[p].status = "accepted"
                <5>1. Persisted(row[p]) = [row[p] EXCEPT !.status = "reverted"]
                    BY <3>2, <4>3 DEF Persisted, OfOp
                <5>2. "reverted" \in {"pending", "accepted", "rejected", "reverted"} /\ None \in MaybeContent
                    BY DEF MaybeContent
                <5> QED
                    BY <4>1, <5>1, <5>2, RowTypes, NoneAssumption
            <4>4. CASE \/ journal[t].kind = "accept" /\ row[p].status = "accepted"
                       \/ journal[t].kind = "revert" /\ row[p].status = "reverted"
                BY <3>2, <4>1, <4>4 DEF Persisted, OfOp
            <4> QED
                BY <3>4, <3>6, <3>7, <4>2, <4>3, <4>4
        <3> QED
            BY <2>1, <3>3, <3>8
    <2>2. CASE op.pc \in {"decide", "archive"}
        <3>1. Rejecting(op.txn, op.prop) /\ op.txn \in Txn /\ OfOp.prop = op.prop /\ op.prop \in Proposal
            <4>1. op.pc \in RejectLabel /\ op.pc # "idle"
                BY <2>2 DEF RejectLabel
            <4> QED
                BY <2>0, <4>1 DEF OpOK, TxnOK, ReadOK, ReachOpOK, Rejecting, Of, OfOp
        <3>2. NotOvertaken(op.prop) /\ op.prop \in Unreached
            BY <1>1, <3>1 DEF ReachInv, Unreached
        <3>3. row[op.prop].status \in Undecided
            BY <3>1, <3>2 DEF NotOvertaken
        <3> QED
            BY <1>1, <2>0, <2>2, <3>1, <3>2, <3>3 DEF DecisionRefused, At, ReachOpOK
    <2> QED
        BY <1>1, <2>1, <2>2 DEF DecisionRefused, At
<1>2. ProposalInv /\ DecisionInv /\ ReachInv => (DecisionRefused => OfOp.prop \in Exposed)
    BY <1>1
<1> QED
    BY <1>2, ProposalInvCorrect, DecisionInvCorrect, ReachInvCorrect, PTL

\* Where there are no maintenance passes, a transaction past its commit point is always
\* recorded: what the run that lets them archive a proposal refutes holds without them.
COROLLARY NeverRefusedUnreached == Exposed = {} => (ProposalSpec => PersistNeverRefused)
<1> SUFFICES ASSUME Exposed = {}
             PROVE  ProposalSpec => PersistNeverRefused
    OBVIOUS
<1>1. (DecisionRefused => OfOp.prop \in Exposed)
        => [At("persist") /\ op' = NoOp /\ crashes' = crashes => Persisted(row[OfOp.prop]) # None]_proposalVars
    BY DEF DecisionRefused
<1> QED
    BY <1>1, RefusedOnlyInReach, PTL DEF PersistNeverRefused

-----------------------------------------------------------------------------
(* The announcement of rejections.                                         *)

\* The transaction has announced the rejection of p, or is about to.
Voiced(t, p) == Of("reject", t, p) /\ (t \in events \/ Live(t))
\* The phases of a rejection: past the first the row says so, past the second the event
\* is there.
RejectTxnOK(t) ==
    Live(t) /\ journal[t].kind = "reject" =>
        /\ journal[t].phase \in {"prepared", "state-persisted", "event-finalized", "committed"}
        /\ journal[t].phase # "prepared" => row[journal[t].prop].status = "rejected"
        /\ journal[t].phase \in {"event-finalized", "committed"} => t \in events
\* What the lease holder knows of the rejection it is at, or of there being none.
RejectOpOK(o) ==
    /\ o.pc \in {"decide", "archive", "archived"} => journal[o.txn].phase = "prepared"
    /\ o.pc \in {"announce", "announced"} => journal[o.txn].phase = "state-persisted"
    /\ o.pc = "dispose" => journal[o.txn].phase \in {"event-finalized", "committed"}
    /\ o.pc = "archived" => row[o.prop].status = "rejected"
    /\ o.pc = "announced" => o.txn \in events
    /\ o.pc = "read" => \A t \in Txn : ~Rejecting(t, o.prop)
    /\ o.pc = "repair" /\ o.read.status = "pending" => \A t \in Txn : ~Voiced(t, o.prop)
    /\ o.pc = "prepare" /\ o.kind = "reject" => \A t \in Txn : ~Voiced(t, o.prop)

\* An announced rejection is one in the row, by one transaction; out of the maintenance
\* passes' reach a rejected row has such a transaction.
RejectInv ==
    /\ \A t \in Txn : RejectTxnOK(t)
    /\ \A t \in events : journal[t].kind = "reject" => row[journal[t].prop].status = "rejected"
    /\ \A p \in Proposal : \A t, u \in Txn : Voiced(t, p) /\ Voiced(u, p) => t = u
    /\ \A p \in Unreached : row[p].status = "rejected" => \E t \in Txn : Voiced(t, p)
    /\ RejectOpOK(op)

\* Nothing is known at the other labels.
RejectFreeLabel == {"idle", "rejects", "list", "recover", "check"} \cup FileLabel
LEMMA RejectFreeOK ==
    ASSUME op'.pc \in RejectFreeLabel
    PROVE  RejectOpOK(op)'
<1>1. op'.pc \notin {"decide", "archive", "archived", "announce", "announced", "dispose",
                     "read", "repair", "prepare"}
    BY DEF RejectFreeLabel, FileLabel, OwnLabel, UndoLabel, ForwardLabel
<1> QED
    BY <1>1 DEF RejectOpOK

\* Whose rejection an announced or unfinished one is.
LEMMA VoicedIsOf ==
    ASSUME ProposalInv, DecisionInv, NEW t \in Txn, journal[t].kind = "reject", t \in events \/ Live(t)
    PROVE  journal[t].prop \in Proposal /\ Voiced(t, journal[t].prop)
<1>1. journal[t].phase # "unused"
    BY DEF DecisionInv, Live
<1> QED
    BY <1>1 DEF ProposalInv, JournalsOK, Voiced, Of

\* Steps that change neither journals nor events, take back no announced rejection, and
\* reject, out of reach, only what a transaction is going to announce.
LEMMA RejectQuiet ==
    ASSUME ProposalInv, DecisionInv, RejectInv, journal' = journal, events' = events, RejectOpOK(op)',
           \A p \in Proposal : row[p].status = "rejected" /\ row'[p].status # "rejected"
                                => \A t \in Txn : ~Voiced(t, p),
           \A p \in Unreached : row'[p].status = "rejected" /\ row[p].status # "rejected"
                                => \E t \in Txn : Voiced(t, p)
    PROVE  RejectInv'
<1>1. \A t, p : Voiced(t, p)' = Voiced(t, p)
    BY DEF Voiced, Of, Live
<1>2. ASSUME NEW t \in Txn, journal[t].kind = "reject", t \in events \/ Live(t),
             row[journal[t].prop].status = "rejected"
      PROVE  row'[journal[t].prop].status = "rejected"
    BY <1>2, VoicedIsOf
<1>3. \A t \in Txn : RejectTxnOK(t)'
    BY <1>2 DEF RejectInv, RejectTxnOK, Live
<1>4. \A t \in events' : journal'[t].kind = "reject" => row'[journal'[t].prop].status = "rejected"
    BY <1>2 DEF RejectInv, ProposalInv, ProposalTypeOK
<1> QED
    BY <1>1, <1>3, <1>4 DEF RejectInv

\* Where rows are not changed either.
LEMMA RejectStill ==
    ASSUME ProposalInv, DecisionInv, RejectInv, journal' = journal, events' = events, row' = row, RejectOpOK(op)'
    PROVE  RejectInv'
BY RejectQuiet

\* The steps on the file and to the decision's row.
LEMMA FileStepRejects ==
    ASSUME ProposalInv, DecisionInv, RejectInv,
           \/ StagePublish \/ Displace \/ VerifyDisplaced \/ LinkPublished \/ InspectAsset
           \/ UnlinkPublished \/ RestoreDisplaced \/ Scrub \/ ValidatePublished \/ CleanPublication
           \/ PublishGit \/ ServiceFails
    PROVE  RejectInv'
<1>0. op \in Op
    BY DEF ProposalInv, ProposalTypeOK
<1>1. journal' = journal /\ row' = row /\ events' = events
    BY DEF StagePublish, Displace, VerifyDisplaced, LinkPublished, InspectAsset, UnlinkPublished, RestoreDisplaced,
           Scrub, ValidatePublished, CleanPublication, PublishGit, ServiceFails, rowVars
<1>2. op' = NoOp \/ \E label \in FileLabel : Goto(label)
    <2>1. CASE StagePublish \/ Displace \/ VerifyDisplaced \/ LinkPublished \/ InspectAsset
        BY <2>1 DEF StagePublish, Displace, VerifyDisplaced, LinkPublished, InspectAsset, Done,
            FileLabel, OwnLabel, UndoLabel
    <2>2. CASE UnlinkPublished \/ RestoreDisplaced \/ Scrub \/ ValidatePublished
        BY <2>2 DEF UnlinkPublished, RestoreDisplaced, Scrub, ValidatePublished, Done,
            FileLabel, OwnLabel, UndoLabel, ForwardLabel
    <2>3. CASE CleanPublication
        <3>1. \E label \in {"git", "index", "event", "settle"} : Goto(label)
            BY <2>3 DEF CleanPublication
        <3> QED
            BY <3>1 DEF FileLabel, ForwardLabel
    <2>4. CASE PublishGit \/ ServiceFails
        BY <2>4 DEF PublishGit, ServiceFails, Done, FileLabel, ForwardLabel
    <2> QED
        BY <2>1, <2>2, <2>3, <2>4
<1>3. op'.pc \in RejectFreeLabel
    BY <1>0, <1>2, GotoKeeps DEF NoOp, RejectFreeLabel
<1> QED
    BY <1>1, <1>3, RejectFreeOK, RejectStill

\* The way to a transaction, and to the decision of a rejection.
LEMMA ReadStepRejects ==
    ASSUME ProposalInv, DecisionInv, ReachInv, RejectInv,
           RecoverReject \/ ReadProposal \/ ListJournals \/ RecoverNext \/ ReadState \/ DecideReject
    PROVE  RejectInv'
<1>0. op \in Op /\ OpOK(op) /\ row \in [Proposal -> Row] /\ ReachOpOK(op) /\ events \subseteq Txn /\ RejectOpOK(op)
    BY DEF ProposalInv, ProposalTypeOK, ReachInv, RejectInv
<1>1. journal' = journal /\ row' = row /\ events' = events
    BY DEF RecoverReject, ReadProposal, ListJournals, RecoverNext, ReadState, DecideReject, rowVars
<1>2. \A t, p : (Voiced(t, p)' = Voiced(t, p)) /\ (Rejecting(t, p)' = Rejecting(t, p))
    BY <1>1 DEF Voiced, Rejecting, Live, Of
<1>3. ASSUME NEW p \in Proposal, row[p].status = "pending", \A t \in Txn : ~Rejecting(t, p)
      PROVE  \A t \in Txn : ~Voiced(t, p)
    BY <1>3 DEF RejectInv, Voiced, Rejecting, Of
<1>4. CASE RecoverReject
    <2>1. op.pc = "rejects" /\ op.prop \in Proposal
        BY <1>0, <1>4 DEF RecoverReject, At, OpOK, ReadOK
    <2>2. CASE RejectJournals(op.prop) = {} /\ Goto(IF op.kind = "accept" THEN "read" ELSE "check")
        <3>1. \A t \in Txn : ~Rejecting(t, op.prop)
            BY <2>2 DEF RejectJournals, Rejecting, Of
        <3>2. op'.pc \in {"read", "check"} /\ op'.prop = op.prop
            BY <1>0, <2>2, GotoKeeps
        <3> QED
            BY <1>1, <1>2, <3>1, <3>2, RejectStill DEF RejectOpOK
    <2>3. ASSUME NEW t \in RejectJournals(op.prop),
                 op' = [op EXCEPT !.txn = t, !.own = FALSE,
                                  !.pc = CASE journal[t].phase = "prepared" -> "decide"
                                           [] journal[t].phase = "state-persisted" -> "announce"
                                           [] OTHER -> "dispose"]
          PROVE  RejectInv'
        <3> DEFINE label == CASE journal[t].phase = "prepared" -> "decide"
                              [] journal[t].phase = "state-persisted" -> "announce"
                              [] OTHER -> "dispose"
        <3>1. t \in Txn /\ Live(t) /\ journal[t].kind = "reject"
            BY <2>3 DEF RejectJournals
        <3>2. journal[t].phase \in {"prepared", "state-persisted", "event-finalized", "committed"}
            BY <3>1 DEF RejectInv, RejectTxnOK
        <3>3. \/ label = "decide" /\ journal[t].phase = "prepared"
              \/ label = "announce" /\ journal[t].phase = "state-persisted"
              \/ label = "dispose" /\ journal[t].phase \in {"event-finalized", "committed"}
            BY <3>2
        <3>4. op' = [op EXCEPT !.txn = t, !.own = FALSE, !.pc = label]
            BY <2>3
        <3> HIDE DEF label
        <3>5. op'.pc = label /\ op'.txn = t
            BY <1>0, <3>4 DEF Op
        <3>6. RejectOpOK(op)'
            BY <1>1, <3>3, <3>5 DEF RejectOpOK
        <3> QED
            BY <1>1, <3>6, RejectStill
    <2> QED
        BY <1>4, <2>2, <2>3 DEF RecoverReject
<1>5. CASE ReadProposal
    <2>1. op.pc = "read" /\ op.prop \in Proposal /\ \A t \in Txn : ~Rejecting(t, op.prop)
        <3>1. op.pc = "read"
            BY <1>5 DEF ReadProposal, At
        <3>2. op.prop \in Proposal
            BY <1>0, <3>1 DEF OpOK, ReadOK
        <3> QED
            BY <1>0, <3>1, <3>2 DEF RejectOpOK
    <2>2. \/ op'.pc = "repair" /\ op'.read = row[op.prop] /\ op'.prop = op.prop
          \/ op'.pc \in {"list", "idle"}
        <3>1. \/ op' = [op EXCEPT !.read = row[op.prop], !.pc = "repair"]
              \/ Goto("list")
              \/ Done
            BY <1>5 DEF ReadProposal
        <3>2. op' = [op EXCEPT !.read = row[op.prop], !.pc = "repair"]
                => op'.pc = "repair" /\ op'.read = row[op.prop] /\ op'.prop = op.prop
            BY <1>0 DEF Op
        <3>3. Goto("list") => op'.pc = "list"
            BY <1>0, GotoKeeps
        <3>4. Done => op'.pc = "idle"
            BY DEF Done, NoOp
        <3> QED
            BY <3>1, <3>2, <3>3, <3>4
    <2>3. RejectOpOK(op)'
        BY <1>2, <1>3, <2>1, <2>2 DEF RejectOpOK
    <2> QED
        BY <1>1, <2>3, RejectStill
<1>6. CASE ListJournals \/ RecoverNext
    <2>1. op'.pc \in RejectFreeLabel
        <3>1. ASSUME Goto(AfterRecovery)
              PROVE  op'.pc \in {"rejects", "check"}
            <4>1. op'.pc = AfterRecovery
                BY <1>0, <3>1, GotoKeeps
            <4> QED
                BY <4>1 DEF AfterRecovery
        <3>2. CASE ListJournals
            <4>1. \/ Done
                  \/ Goto(AfterRecovery) /\ {t \in Txn : FileTxn(t) /\ journal[t].prop = op.prop} = {}
                  \/ \E todo : op' = [op EXCEPT !.pc = "recover", !.todo = todo]
                BY <3>2 DEF ListJournals
            <4>2. Done => op'.pc = "idle"
                BY DEF Done, NoOp
            <4>3. ASSUME NEW todo, op' = [op EXCEPT !.pc = "recover", !.todo = todo]
                  PROVE  op'.pc = "recover"
                BY <1>0, <4>3 DEF Op
            <4> QED
                BY <3>1, <4>1, <4>2, <4>3 DEF RejectFreeLabel
        <3>3. ASSUME NEW t \in op.todo,
                     op' = [op EXCEPT !.txn = t, !.own = FALSE, !.todo = @ \ {t}, !.pc = Direction(t)]
              PROVE  op'.pc \in FileLabel
            <4> DEFINE label == Direction(t)
            <4>1. label \in FileLabel
                BY DEF Direction, FileLabel, UndoLabel, ForwardLabel
            <4>2. op' = [op EXCEPT !.txn = t, !.own = FALSE, !.todo = @ \ {t}, !.pc = label]
                BY <3>3
            <4> HIDE DEF label
            <4> QED
                BY <1>0, <4>1, <4>2 DEF Op
        <3> QED
            BY <1>6, <3>1, <3>2, <3>3 DEF RecoverNext, RejectFreeLabel
    <2> QED
        BY <1>1, <2>1, RejectFreeOK, RejectStill
<1>7. CASE ReadState
    <2>1. op.pc = "check" /\ op.prop \in Proposal
        BY <1>0, <1>7 DEF ReadState, At, OpOK, ReadOK
    <2>2. \/ /\ op'.pc = "prepare" /\ op'.kind = op.kind /\ op'.prop = op.prop
             /\ Decidable(op.kind, row[op.prop])
          \/ op' = NoOp
        BY <1>0, <1>7 DEF ReadState, Done, Op
    <2>3. CASE op' = NoOp
        BY <1>1, <2>3, RejectFreeOK, RejectStill DEF NoOp, RejectFreeLabel
    <2>4. CASE op'.pc = "prepare" /\ op'.kind = op.kind /\ op'.prop = op.prop /\ Decidable(op.kind, row[op.prop])
        <3>1. op.kind = "reject" => row[op.prop].status = "pending" /\ \A t \in Txn : ~Rejecting(t, op.prop)
            BY <1>0, <2>1, <2>4 DEF Decidable, ReachOpOK, Cleared
        <3>2. op.kind = "reject" => \A t \in Txn : ~Voiced(t, op.prop)
            BY <1>3, <2>1, <3>1
        <3> QED
            BY <1>1, <1>2, <2>4, <3>2, RejectStill DEF RejectOpOK
    <2> QED
        BY <2>2, <2>3, <2>4
<1>8. CASE DecideReject
    <2>1. op.pc = "decide" /\ op.pc \in RejectLabel
        BY <1>8 DEF DecideReject, At, RejectLabel
    <2>2. OfOp.prop = op.prop /\ journal[op.txn].phase = "prepared"
        BY <1>0, <2>1 DEF ReachOpOK, Rejecting, Of, OfOp, RejectOpOK
    <2>3. \/ op' = NoOp
          \/ Goto("archive")
          \/ Goto("archived") /\ row[op.prop].status = "rejected"
        BY <1>8, <2>2 DEF DecideReject, Done
    <2>4. CASE op' = NoOp
        BY <1>1, <2>4, RejectFreeOK, RejectStill DEF NoOp, RejectFreeLabel
    <2>5. ASSUME NEW label \in {"archive", "archived"}, Goto(label),
                 label = "archived" => row[op.prop].status = "rejected"
          PROVE  RejectInv'
        <3>1. op'.pc = label /\ op'.txn = op.txn /\ op'.prop = op.prop
            BY <1>0, <2>5, GotoKeeps
        <3> QED
            BY <1>1, <2>2, <2>5, <3>1, RejectStill DEF RejectOpOK
    <2> QED
        BY <2>3, <2>4, <2>5
<1> QED
    BY <1>4, <1>5, <1>6, <1>7, <1>8

\* A row is written: repaired, or decided.
LEMMA RowStepRejects ==
    ASSUME ProposalInv, DecisionInv, ReachInv, RejectInv, PersistRepair \/ PersistState \/ ArchiveRejected
    PROVE  RejectInv'
<1>0. op \in Op /\ OpOK(op) /\ row \in [Proposal -> Row] /\ ReachOpOK(op) /\ RejectOpOK(op) /\ ReadRowOK(op)
    BY DEF ProposalInv, ProposalTypeOK, ReachInv, RejectInv, DecisionInv
<1>1. journal' = journal /\ events' = events
    BY DEF PersistRepair, PersistState, ArchiveRejected
<1>2. CASE PersistRepair
    <2>1. op.pc = "repair" /\ op.prop \in Proposal /\ row' = [row EXCEPT ![op.prop] = op.read]
        BY <1>0, <1>2 DEF PersistRepair, At, OpOK, ReadOK
    <2>2. op'.pc \in RejectFreeLabel
        BY <1>0, <1>2 DEF PersistRepair, Op, RejectFreeLabel
    <2>3. \A p \in Proposal \ {op.prop} : row'[p] = row[p]
        BY <1>0, <2>1
    <2>4. row'[op.prop] = op.read
        BY <1>0, <2>1
    <2>5. \/ op.read = row[op.prop]
          \/ /\ row[op.prop].status = "rejected" /\ op.read.status = "pending"
             /\ \A t \in Txn : ~Voiced(t, op.prop)
        <3>1. row[op.prop] \in Row
            BY <1>0, <2>1
        <3>2. \/ op.read = row[op.prop]
              \/ row[op.prop].status = "rejected" /\ op.read = [row[op.prop] EXCEPT !.status = "pending"]
            BY <1>0, <2>1 DEF ReadRowOK
        <3>3. op.read # row[op.prop] => row[op.prop].status = "rejected" /\ op.read.status = "pending"
            BY <3>1, <3>2 DEF Row
        <3> QED
            BY <1>0, <2>1, <3>3 DEF RejectOpOK
    <2>6. ASSUME NEW p \in Proposal, row[p].status = "rejected", row'[p].status # "rejected"
          PROVE  \A t \in Txn : ~Voiced(t, p)
        BY <2>3, <2>4, <2>5, <2>6
    <2>7. ASSUME NEW p \in Unreached, row'[p].status = "rejected", row[p].status # "rejected"
          PROVE  FALSE
        BY <2>3, <2>4, <2>5, <2>7 DEF Unreached
    <2> QED
        BY <1>1, <2>2, <2>6, <2>7, RejectFreeOK, RejectQuiet
<1>3. CASE PersistState
    <2>1. op.txn \in Txn /\ FileTxn(op.txn)
        BY <1>0, <1>3 DEF PersistState, At, OpOK, TxnOK, FileLabel, ForwardLabel
    <2>2. PICK p \in Proposal : p = OfOp.prop
        BY <2>1, FileTxnOf DEF OfOp
    <2>3. \/ op' = NoOp /\ row' = row
          \/ Goto("persisted") /\ Persisted(row[p]) # None /\ row' = [row EXCEPT ![p] = Persisted(row[p])]
        BY <1>3, <2>2 DEF PersistState, Done
    <2>4. op'.pc \in RejectFreeLabel
        BY <1>0, <2>3, GotoKeeps DEF NoOp, RejectFreeLabel, FileLabel, ForwardLabel
    <2>5. \A q \in Proposal : row'[q] = row[q] \/ (row[q].status # "rejected" /\ row'[q].status # "rejected")
        <3>1. CASE row' = row
            BY <3>1
        <3>2. CASE Persisted(row[p]) # None /\ row' = [row EXCEPT ![p] = Persisted(row[p])]
            <4> DEFINE r == row[p]
            <4>1. r \in Row /\ row'[p] = Persisted(r) /\ Persisted(r) # None
                BY <1>0, <3>2
            <4>2. \A q \in Proposal \ {p} : row'[q] = row[q]
                BY <1>0, <3>2
            <4>3. r = row[p]
                OBVIOUS
            <4> HIDE DEF r
            <4>4. r.status # "rejected" /\ Persisted(r).status # "rejected"
                <5>1. \/ Persisted(r) = [r EXCEPT !.status = "accepted", !.backup = OfOp.backup] /\ r.status = "pending"
                      \/ Persisted(r) = [r EXCEPT !.status = "reverted"] /\ r.status = "accepted"
                      \/ Persisted(r) = r /\ r.status \in {"accepted", "reverted"}
                    BY <4>1 DEF Persisted
                <5> QED
                    BY <4>1, <5>1 DEF Row
            <4> QED
                BY <4>1, <4>2, <4>3, <4>4
        <3> QED
            BY <2>3, <3>1, <3>2
    <2> QED
        BY <1>1, <2>4, <2>5, RejectFreeOK, RejectQuiet DEF Unreached
<1>4. CASE ArchiveRejected
    <2>1. op.pc = "archive" /\ op.pc \in RejectLabel /\ op.pc # "idle"
        BY <1>4 DEF ArchiveRejected, At, RejectLabel
    <2>2. /\ op.txn \in Txn /\ Rejecting(op.txn, op.prop) /\ OfOp.prop = op.prop /\ op.prop \in Proposal
          /\ journal[op.txn].phase = "prepared"
        BY <1>0, <2>1 DEF OpOK, TxnOK, ReadOK, ReachOpOK, Rejecting, Of, OfOp, RejectOpOK
    <2>3. \/ op' = NoOp /\ row' = row
          \/ Goto("archived") /\ row' = [row EXCEPT ![op.prop].status = "rejected"]
        BY <1>4, <2>2 DEF ArchiveRejected, Done
    <2>4. CASE op' = NoOp /\ row' = row
        BY <1>1, <2>4, RejectFreeOK, RejectStill DEF NoOp, RejectFreeLabel
    <2>5. CASE Goto("archived") /\ row' = [row EXCEPT ![op.prop].status = "rejected"]
        <3>1. row'[op.prop].status = "rejected" /\ \A q \in Proposal \ {op.prop} : row'[q] = row[q]
            BY <1>0, <2>2, <2>5 DEF Row
        <3>2. op'.pc = "archived" /\ op'.prop = op.prop /\ op'.txn = op.txn
            BY <1>0, <2>5, GotoKeeps
        <3>3. Voiced(op.txn, op.prop)
            BY <2>2 DEF Voiced, Rejecting
        <3>4. RejectOpOK(op)'
            BY <1>1, <2>2, <3>1, <3>2 DEF RejectOpOK
        <3>5. ASSUME NEW p \in Proposal, row[p].status = "rejected", row'[p].status # "rejected"
              PROVE  FALSE
            BY <3>1, <3>5
        <3>6. ASSUME NEW p \in Unreached, row'[p].status = "rejected", row[p].status # "rejected"
              PROVE  \E t \in Txn : Voiced(t, p)
            <4>1. p = op.prop
                BY <3>1, <3>6 DEF Unreached
            <4> QED
                BY <2>2, <3>3, <4>1
        <3> QED
            BY <1>1, <3>4, <3>5, <3>6, RejectQuiet
    <2> QED
        BY <2>3, <2>4, <2>5
<1> QED
    BY <1>2, <1>3, <1>4

\* A decision is announced.
LEMMA EventRejects ==
    ASSUME ProposalInv, DecisionInv, ReachInv, RejectInv, PersistEvent \/ AnnounceReject
    PROVE  RejectInv'
<1>0. op \in Op /\ OpOK(op) /\ op.pc \in {"event", "announce"} /\ RejectOpOK(op) /\ events \subseteq Txn
    BY DEF ProposalInv, ProposalTypeOK, PersistEvent, AnnounceReject, At, RejectInv
<1>1. op.txn \in Txn /\ Live(op.txn)
    <2>1. op.pc = "event" => op.txn \in Txn /\ FileTxn(op.txn)
        BY <1>0 DEF OpOK, TxnOK, FileLabel, ForwardLabel
    <2>2. op.pc = "announce" => op.txn \in Txn /\ Rejecting(op.txn, op.prop)
        BY <1>0 DEF OpOK, TxnOK, ReachInv, ReachOpOK, RejectLabel
    <2> QED
        BY <1>0, <2>1, <2>2 DEF FileTxn, Rejecting
<1>2. PICK t \in Txn : t = op.txn /\ Live(t)
    BY <1>1
<1>3. journal' = journal /\ row' = row /\ events' = events \cup {t}
    BY <1>2 DEF PersistEvent, AnnounceReject
<1>4. /\ journal[t].kind = "reject" => journal[t].phase = "state-persisted"
      /\ op'.pc = "evented" \/ (op'.pc = "announced" /\ op'.txn = t)
    <2>1. CASE PersistEvent
        <3>1. op.pc = "event" /\ op'.pc = "evented"
            BY <1>0, <2>1, GotoKeeps DEF PersistEvent, At
        <3>2. FileTxn(t)
            BY <1>0, <1>2, <3>1 DEF OpOK, TxnOK, FileLabel, ForwardLabel
        <3> QED
            BY <3>1, <3>2 DEF FileTxn
    <2>2. CASE AnnounceReject
        <3>1. op.pc = "announce" /\ op'.pc = "announced" /\ op'.txn = t
            BY <1>0, <1>2, <2>2, GotoKeeps DEF AnnounceReject, At
        <3> QED
            BY <1>0, <1>2, <3>1 DEF RejectOpOK
    <2> QED
        BY <2>1, <2>2
<1>5. \A u \in Txn : \A p : Voiced(u, p)' = Voiced(u, p)
    BY <1>2, <1>3 DEF Voiced, Of, Live
<1>6. \A u \in Txn : RejectTxnOK(u)'
    BY <1>3 DEF RejectInv, RejectTxnOK, Live
<1>7. \A u \in events' : journal'[u].kind = "reject" => row'[journal'[u].prop].status = "rejected"
    BY <1>2, <1>3, <1>4 DEF RejectInv, RejectTxnOK
<1>8. RejectOpOK(op)'
    <2>1. op'.pc = "evented" => op'.pc \in RejectFreeLabel
        BY DEF RejectFreeLabel, FileLabel, ForwardLabel
    <2>2. op'.pc = "announced" => journal[t].phase = "state-persisted"
        <3>1. op'.pc = "announced" => op.pc = "announce"
            BY <1>0, GotoKeeps DEF PersistEvent, AnnounceReject, At
        <3> QED
            BY <1>0, <1>2, <3>1 DEF RejectOpOK
    <2>3. op'.pc = "announced" => RejectOpOK(op)'
        BY <1>3, <1>4, <2>2 DEF RejectOpOK
    <2> QED
        BY <1>4, <2>1, <2>3, RejectFreeOK
<1> QED
    BY <1>3, <1>5, <1>6, <1>7, <1>8 DEF RejectInv

\* Steps on one journal: a transaction on the file stays one, or is no rejection.
LEMMA JournalRejects ==
    ASSUME ProposalInv, DecisionInv, RejectInv, NEW t \in Txn, row' = row, events' = events,
           \A u \in Txn \ {t} : journal'[u] = journal[u],
           \A p \in Proposal : Voiced(t, p)' <=> Voiced(t, p),
           RejectTxnOK(t)', t \in events => journal'[t].kind = journal[t].kind /\ journal'[t].prop = journal[t].prop,
           RejectOpOK(op)'
    PROVE  RejectInv'
<1>1. \A u \in Txn : \A p \in Proposal : Voiced(u, p)' <=> Voiced(u, p)
    BY DEF Voiced, Of, Live
<1>2. \A u \in Txn : RejectTxnOK(u)'
    BY DEF RejectInv, RejectTxnOK, Live
<1>3. \A u \in events' : journal'[u].kind = "reject" => row'[journal'[u].prop].status = "rejected"
    BY DEF RejectInv, ProposalInv, ProposalTypeOK
<1> QED
    BY <1>1, <1>2, <1>3 DEF RejectInv, Unreached

\* A transaction on the file gets further, or ends.
LEMMA FilePhaseRejects ==
    ASSUME ProposalInv, DecisionInv, RejectInv, PhaseStep \/ RemoveJournal
    PROVE  RejectInv'
<1>0. op \in Op /\ op.pc \in FileLabel /\ row' = row /\ events' = events
    BY DEF PhaseStep, AdvancePublished, AdvancePersisted, FinalizeIndex, AdvanceEvented, Settle, RemoveJournal,
           At, FileLabel, OwnLabel, UndoLabel, ForwardLabel, ProposalInv, ProposalTypeOK, rowVars
<1>1. PICK t \in Txn : t = op.txn /\ FileTxn(t) /\ journal[t].phase # "unused"
    BY <1>0 DEF ProposalInv, OpOK, TxnOK, FileTxn, Live
<1>2. PICK phase \in Phase : SetPhase(t, phase)
    BY <1>1 DEF PhaseStep, AdvancePublished, AdvancePersisted, FinalizeIndex, AdvanceEvented, Settle, RemoveJournal,
                Phase
<1>3. /\ \A u \in Txn \ {t} : journal'[u] = journal[u]
      /\ journal'[t].kind = journal[t].kind /\ journal'[t].prop = journal[t].prop
    BY <1>1, <1>2, SetPhaseKeeps
<1>4. journal[t].kind # "reject" /\ journal'[t].kind # "reject"
    BY <1>1, <1>3 DEF FileTxn
<1>5. (\A p \in Proposal : Voiced(t, p)' <=> Voiced(t, p)) /\ RejectTxnOK(t)'
    BY <1>4 DEF Voiced, Of, RejectTxnOK
<1>6. op'.pc \in RejectFreeLabel
    <2>1. ASSUME NEW label \in FileLabel, Goto(label)
          PROVE  op'.pc \in FileLabel
        BY <1>0, <2>1, GotoKeeps
    <2>2. op' = [op EXCEPT !.pc = "recover", !.txn = None] => op'.pc = "recover"
        BY <1>0 DEF Op
    <2>3. NoOp.pc = "idle"
        BY DEF NoOp
    <2>4. \/ \E label \in FileLabel : Goto(label)
          \/ op' = NoOp
          \/ op' = [op EXCEPT !.pc = "recover", !.txn = None]
        BY DEF PhaseStep, AdvancePublished, AdvancePersisted, FinalizeIndex, AdvanceEvented, Settle, RemoveJournal,
               Done, FileLabel, ForwardLabel
    <2> QED
        BY <2>1, <2>2, <2>3, <2>4 DEF RejectFreeLabel
<1> QED
    BY <1>0, <1>3, <1>5, <1>6, RejectFreeOK, JournalRejects

\* A rejection gets further, or ends.
LEMMA RejectPhaseRejects ==
    ASSUME ProposalInv, DecisionInv, ReachInv, RejectInv, AdvanceArchived \/ AdvanceAnnounced \/ DisposeReject
    PROVE  RejectInv'
<1>0. /\ op \in Op /\ op.pc \in RejectLabel /\ OpOK(op) /\ ReachOpOK(op) /\ RejectOpOK(op)
      /\ row' = row /\ events' = events
    BY DEF ProposalInv, ProposalTypeOK, AdvanceArchived, AdvanceAnnounced, DisposeReject, At, RejectLabel,
           ReachInv, RejectInv, rowVars
<1>1. PICK t \in Txn : t = op.txn /\ Rejecting(t, op.prop) /\ journal[t].phase # "unused"
    BY <1>0 DEF OpOK, TxnOK, ReachOpOK
<1>2. PICK p \in Proposal : p = op.prop /\ journal[t].prop = p /\ journal[t].kind = "reject" /\ Live(t)
    <2>1. op.pc # "idle"
        BY <1>0 DEF RejectLabel
    <2> QED
        BY <1>0, <1>1, <2>1 DEF OpOK, ReadOK, Rejecting, Of
<1>3. ASSUME NEW phase \in Phase, SetPhase(t, phase),
             \/ phase = "state-persisted" /\ row[p].status = "rejected"
             \/ phase \in {"event-finalized", "committed"} /\ row[p].status = "rejected" /\ t \in events
             \/ phase = "gone" /\ t \in events,
             RejectOpOK(op)'
      PROVE  RejectInv'
    <2>1. /\ \A u \in Txn \ {t} : journal'[u] = journal[u]
          /\ journal'[t].phase = phase
          /\ journal'[t].kind = "reject" /\ journal'[t].prop = p
        BY <1>1, <1>2, <1>3, SetPhaseKeeps
    <2>2. \A q \in Proposal : Voiced(t, q)' <=> Voiced(t, q)
        BY <1>0, <1>2, <1>3, <2>1 DEF Voiced, Of, Live
    <2>3. RejectTxnOK(t)'
        BY <1>0, <1>3, <2>1 DEF RejectTxnOK, Live
    <2> QED
        BY <1>0, <1>2, <1>3, <2>1, <2>2, <2>3, JournalRejects
<1>4. CASE AdvanceArchived
    <2>1. op.pc = "archived" /\ SetPhase(t, "state-persisted") /\ Goto("announce")
        BY <1>1, <1>4 DEF AdvanceArchived, At
    <2>2. op'.pc = "announce" /\ op'.txn = t
        BY <1>0, <1>1, <2>1, GotoKeeps
    <2>3. "state-persisted" \in Phase
        BY DEF Phase
    <2>4. journal'[t].phase = "state-persisted"
        BY <1>1, <2>1, <2>3, SetPhaseKeeps
    <2>5. row[p].status = "rejected"
        BY <1>0, <1>2, <2>1 DEF RejectOpOK
    <2>6. RejectOpOK(op)'
        BY <2>2, <2>4 DEF RejectOpOK
    <2> QED
        BY <1>3, <2>1, <2>3, <2>5, <2>6
<1>5. CASE AdvanceAnnounced
    <2>1. op.pc = "announced" /\ SetPhase(t, "event-finalized") /\ Goto("dispose")
        BY <1>1, <1>5 DEF AdvanceAnnounced, At
    <2>2. op'.pc = "dispose" /\ op'.txn = t
        BY <1>0, <1>1, <2>1, GotoKeeps
    <2>3. "event-finalized" \in Phase
        BY DEF Phase
    <2>4. journal'[t].phase = "event-finalized"
        BY <1>1, <2>1, <2>3, SetPhaseKeeps
    <2>5. row[p].status = "rejected" /\ t \in events
        <3>1. journal[t].phase = "state-persisted" /\ t \in events
            BY <1>0, <1>1, <2>1 DEF RejectOpOK
        <3> QED
            BY <1>2, <3>1 DEF RejectInv, RejectTxnOK
    <2>6. RejectOpOK(op)'
        BY <2>2, <2>4 DEF RejectOpOK
    <2> QED
        BY <1>3, <2>1, <2>3, <2>5, <2>6
<1>6. CASE DisposeReject
    <2>1. op.pc = "dispose" /\ journal[t].phase \in {"event-finalized", "committed"}
        BY <1>0, <1>1, <1>6 DEF DisposeReject, At, RejectOpOK
    <2>2. row[p].status = "rejected" /\ t \in events
        BY <1>2, <2>1 DEF RejectInv, RejectTxnOK
    <2>3. CASE SetPhase(t, "committed") /\ op' = op
        <3>1. "committed" \in Phase
            BY DEF Phase
        <3>2. journal'[t].phase = "committed"
            BY <1>1, <2>3, <3>1, SetPhaseKeeps
        <3>3. RejectOpOK(op)'
            BY <1>1, <2>1, <2>3, <3>2 DEF RejectOpOK
        <3> QED
            BY <1>3, <2>2, <2>3, <3>1, <3>3
    <2>4. CASE SetPhase(t, "gone") /\ (op' = NoOp \/ op' = [op EXCEPT !.pc = "read", !.txn = None])
        <3>1. "gone" \in Phase
            BY DEF Phase
        <3>2. journal'[t].phase = "gone" /\ \A u \in Txn \ {t} : journal'[u] = journal[u]
            BY <1>1, <2>4, <3>1, SetPhaseKeeps
        <3>3. \A u \in Txn : ~Rejecting(u, p)'
            <4>1. \A u \in Txn : Rejecting(u, p) => u = t
                BY <1>1, <1>2 DEF ReachInv, OneReject
            <4>2. \A u \in Txn : Rejecting(u, p)' => u # t /\ Rejecting(u, p)
                BY <3>2 DEF Rejecting, Live, Of
            <4> QED
                BY <4>1, <4>2
        <3>4. op' = NoOp => RejectOpOK(op)'
            BY RejectFreeOK DEF NoOp, RejectFreeLabel
        <3>5. ASSUME op' = [op EXCEPT !.pc = "read", !.txn = None]
              PROVE  RejectOpOK(op)'
            <4>1. op'.pc = "read" /\ op'.prop = p
                BY <1>0, <1>2, <3>5 DEF Op
            <4> QED
                BY <3>3, <4>1 DEF RejectOpOK
        <3> QED
            BY <1>3, <2>2, <2>4, <3>1, <3>4, <3>5
    <2> QED
        BY <1>1, <1>6, <2>3, <2>4 DEF DisposeReject, Done
<1> QED
    BY <1>4, <1>5, <1>6

\* A transaction is begun: a rejection when none has been announced.
LEMMA PrepareRejects ==
    ASSUME ProposalInv, DecisionInv, RejectInv, Prepare
    PROVE  RejectInv'
<1>0. /\ op \in Op /\ OpOK(op) /\ op.pc = "prepare" /\ JournalsOK /\ RejectOpOK(op)
      /\ row' = row /\ events' = events /\ events \subseteq Txn
    BY DEF ProposalInv, ProposalTypeOK, Prepare, At, RejectInv, rowVars
<1>1. op.kind \in Kind /\ op.prop \in Proposal /\ Unused # {}
    BY <1>0 DEF OpOK, ReadOK
<1>2. PICK t \in Txn : t = (CHOOSE u \in Unused : TRUE) /\ journal[t].phase = "unused"
    <2> DEFINE c == CHOOSE u \in Unused : TRUE
    <2>1. c \in Unused
        BY <1>1
    <2> HIDE DEF c
    <2>2. c \in Txn /\ journal[c].phase = "unused"
        BY <2>1 DEF Unused
    <2> QED
        BY <2>2 DEF c
<1>3. PICK p \in Proposal : p = op.prop
    BY <1>1
<1>4. t \notin events /\ ~Live(t)
    BY <1>2 DEF DecisionInv, Live
<1> DEFINE original == IF op.kind = "reject" THEN None ELSE op.found
           published == CASE op.kind = "accept" -> op.prop
                          [] op.kind = "revert" -> op.read.backup
                          [] op.kind = "reject" -> None
           backup == IF op.kind = "accept" THEN op.found ELSE None
           j == [phase |-> "prepared", kind |-> op.kind, prop |-> op.prop,
                 original |-> original, published |-> published, backup |-> backup]
           label == IF op.kind = "reject" THEN "decide" ELSE "stage"
<1>5. /\ journal' = [journal EXCEPT ![t] = j]
      /\ op' = [op EXCEPT !.txn = t, !.own = TRUE, !.read = None, !.found = None, !.pc = label]
    BY <1>2 DEF Prepare
<1>6. label = (IF op.kind = "reject" THEN "decide" ELSE "stage")
    OBVIOUS
<1> HIDE DEF original, published, backup, label
<1>7. j.phase = "prepared" /\ j.kind = op.kind /\ j.prop = p
    BY <1>3
<1> HIDE DEF j
<1>8. journal'[t] = j /\ \A u \in Txn \ {t} : journal'[u] = journal[u]
    BY <1>0, <1>5 DEF JournalsOK
<1>9. op'.pc = label /\ op'.txn = t
    BY <1>0, <1>5 DEF Op
<1>10. /\ \A u \in Txn \ {t} : \A q : Voiced(u, q)' = Voiced(u, q)
       /\ \A q : Voiced(t, q)' => op.kind = "reject" /\ q = p
    BY <1>0, <1>7, <1>8 DEF Voiced, Of, Live
<1>11. op.kind = "reject" => \A u \in Txn : ~Voiced(u, p)
    BY <1>0, <1>3 DEF RejectOpOK
<1>12. \A q : ~Voiced(t, q)
    BY <1>4 DEF Voiced
<1>13. \A u \in Txn : RejectTxnOK(u)'
    BY <1>0, <1>7, <1>8 DEF RejectInv, RejectTxnOK, Live
<1>14. \A u \in events' : journal'[u].kind = "reject" => row'[journal'[u].prop].status = "rejected"
    BY <1>0, <1>4, <1>8 DEF RejectInv
<1>15. \A q \in Proposal : \A u, v \in Txn : Voiced(u, q)' /\ Voiced(v, q)' => u = v
    <2>1. ASSUME NEW q \in Proposal, NEW u \in Txn, NEW v \in Txn, Voiced(u, q)', Voiced(v, q)'
          PROVE  u = v
        <3>1. CASE u = t \/ v = t
            BY <1>10, <1>11, <2>1, <3>1
        <3>2. CASE u # t /\ v # t
            BY <1>10, <2>1, <3>2 DEF RejectInv
        <3> QED
            BY <3>1, <3>2
    <2> QED
        BY <2>1
<1>16. \A q \in Unreached : row'[q].status = "rejected" => \E u \in Txn : Voiced(u, q)'
    <2>1. ASSUME NEW q \in Unreached, row'[q].status = "rejected"
          PROVE  \E u \in Txn : Voiced(u, q)'
        <3>1. PICK u \in Txn : Voiced(u, q)
            BY <1>0, <2>1 DEF RejectInv
        <3>2. u # t
            BY <1>12, <3>1
        <3> QED
            BY <1>10, <3>1, <3>2
    <2> QED
        BY <2>1
<1>17. RejectOpOK(op)'
    <2>1. label = "stage" => op'.pc \in RejectFreeLabel
        BY <1>9 DEF RejectFreeLabel, FileLabel, OwnLabel
    <2>2. label = "decide" => RejectOpOK(op)'
        BY <1>7, <1>8, <1>9 DEF RejectOpOK
    <2> QED
        BY <1>6, <2>1, <2>2, RejectFreeOK
<1> QED
    BY <1>13, <1>14, <1>15, <1>16, <1>17 DEF RejectInv

\* The beginning and the death of an operation, the maintenance passes, and the user.
LEMMA OutsideRejects ==
    ASSUME ProposalInv, DecisionInv, RejectInv,
           \/ \E kind \in Kind, p \in Proposal : Begin(kind, p)
           \/ \E p \in Proposal : ExpireStale(p) \/ PurgeLooks(p) \/ PurgeArchives(p)
           \/ \E content \in {Edit, None} : EditAsset(content)
           \/ CrashOp
           \/ UNCHANGED proposalVars
    PROVE  RejectInv'
<1>0. row \in [Proposal -> Row] /\ doomed \subseteq Exposed /\ OpOK(op) /\ RejectOpOK(op)
    BY DEF ProposalInv, ProposalTypeOK, RejectInv
<1>1. journal' = journal /\ events' = events
    BY DEF Begin, ExpireStale, PurgeLooks, PurgeArchives, EditAsset, CrashOp, proposalVars, rowVars
<1>2. \A p \in Proposal : row'[p] = row[p] \/ (p \in Exposed /\ row'[p].status = "rejected")
    <2>1. ASSUME NEW q \in Proposal, ExpireStale(q) \/ PurgeArchives(q)
          PROVE  \A p \in Proposal : row'[p] = row[p] \/ (p \in Exposed /\ row'[p].status = "rejected")
        <3>1. q \in Exposed
            BY <1>0, <2>1 DEF ExpireStale, PurgeArchives
        <3>2. row' = row \/ row' = [row EXCEPT ![q].status = "rejected"]
            BY <2>1 DEF ExpireStale, PurgeArchives
        <3> QED
            BY <1>0, <3>1, <3>2 DEF Row
    <2> QED
        BY <2>1 DEF Begin, PurgeLooks, EditAsset, CrashOp, proposalVars, rowVars
<1>3. \A t, p : (Voiced(t, p)' = Voiced(t, p)) /\ (Rejecting(t, p)' = Rejecting(t, p))
    BY <1>1 DEF Voiced, Rejecting, Live, Of
<1>4. CASE op' = op
    <2>1. op.pc = "archived" => row'[op.prop].status = "rejected"
        BY <1>0, <1>2 DEF OpOK, ReadOK, RejectOpOK
    <2>2. RejectOpOK(op)'
        BY <1>0, <1>1, <1>3, <1>4, <2>1 DEF RejectOpOK
    <2> QED
        BY <1>1, <1>2, <2>2, RejectQuiet DEF Unreached
<1>5. ASSUME op'.pc \in {"idle", "rejects", "list"}
      PROVE  RejectInv'
    <2>1. RejectOpOK(op)'
        BY <1>5, RejectFreeOK DEF RejectFreeLabel
    <2> QED
        BY <1>1, <1>2, <2>1, RejectQuiet DEF Unreached
<1>6. ASSUME NEW kind \in Kind, NEW p \in Proposal, Begin(kind, p)
      PROVE  op'.pc \in {"rejects", "list"}
    BY <1>6 DEF Begin, NoOp
<1>7. CrashOp => op'.pc = "idle"
    BY DEF CrashOp, Done, NoOp
<1> QED
    BY <1>4, <1>5, <1>6, <1>7 DEF ExpireStale, PurgeLooks, PurgeArchives, EditAsset, proposalVars

\* No rejection is announced twice, or of a proposal that is not rejected.
LEMMA RejectInvCorrect == ProposalSpec => []RejectInv
<1>1. ProposalInit => RejectInv
    <2> SUFFICES ASSUME ProposalInit
                 PROVE  RejectInv
        OBVIOUS
    <2>1. (\A t \in Txn : ~Live(t)) /\ events = {}
        BY DEF ProposalInit, NoJournal, Live
    <2>2. op.pc = "idle"
        BY DEF ProposalInit, NoOp
    <2>3. \A p \in Proposal : row[p].status = "pending"
        <3>1. PICK first \in {Base, None} :
                row = [q \in Proposal |-> [status |-> "pending", before |-> first, backup |-> None]]
            BY DEF ProposalInit
        <3> QED
            BY <3>1
    <2>4. RejectOpOK(op)
        BY <2>2 DEF RejectOpOK
    <2> QED
        BY <2>1, <2>3, <2>4 DEF RejectInv, RejectTxnOK, Voiced, Unreached
<1>2. ProposalInv /\ DecisionInv /\ ReachInv /\ RejectInv /\ [ProposalNext]_proposalVars => RejectInv'
    <2> SUFFICES ASSUME ProposalInv, DecisionInv, ReachInv, RejectInv, [ProposalNext]_proposalVars
                 PROVE  RejectInv'
        OBVIOUS
    <2>1. CASE OpStep
        BY <2>1, FileStepRejects, ReadStepRejects, RowStepRejects, EventRejects, FilePhaseRejects,
           RejectPhaseRejects, PrepareRejects DEF OpStep, PhaseStep
    <2> QED
        BY <2>1, OutsideRejects DEF ProposalNext
<1> QED
    BY <1>1, <1>2, ProposalInvCorrect, DecisionInvCorrect, ReachInvCorrect, PTL DEF ProposalSpec

\* Once nothing of a proposal is unfinished, its events are those of the decisions in its
\* row, one transaction's for each: of its acceptance, its reversal and its rejection.  Of
\* one that the maintenance passes can archive a rejection may be without event.
THEOREM DecisionsAreAnnounced == ProposalSpec => []DecisionHasEvent
<1>1. ASSUME ProposalInv, DecisionInv, RejectInv
      PROVE  DecisionHasEvent
    <2> DEFINE Announced(kind, p) == {t \in events : journal[t].kind = kind /\ journal[t].prop = p}
    <2>0. row \in [Proposal -> Row] /\ events \subseteq Txn
        BY <1>1 DEF ProposalInv, ProposalTypeOK
    <2>1. ASSUME NEW kind, NEW p, NEW t \in events, Of(kind, t, p), \A u \in events : Of(kind, u, p) => u = t
          PROVE  Cardinality(Announced(kind, p)) = 1
        <3>1. \A u : u \in Announced(kind, p) <=> u \in {t}
            BY <2>1 DEF Of
        <3>2. Announced(kind, p) = {t}
            BY <3>1
        <3> HIDE DEF Announced
        <3> QED
            BY <3>2, FS_Singleton
    <2>2. ASSUME NEW kind, NEW p, \A u \in events : ~Of(kind, u, p)
          PROVE  Cardinality(Announced(kind, p)) = 0
        <3>1. Announced(kind, p) = {}
            BY <2>2 DEF Of
        <3> HIDE DEF Announced
        <3> QED
            BY <3>1, FS_EmptySet
    <2>3. ASSUME NEW kind \in {"accept", "revert"}, NEW p \in Proposal, AtRest(p), Sole(kind, p)
          PROVE  Cardinality(Announced(kind, p)) = 1
        <3>1. PICK t \in Txn : /\ Of(kind, t, p) /\ (t \in events \/ FileTxn(t))
                               /\ \A u \in events : Of(kind, u, p) => u = t
            BY <2>3 DEF Sole
        <3>2. t \in events
            BY <2>3, <3>1 DEF AtRest, FileTxn, Of
        <3> HIDE DEF Announced
        <3> QED
            BY <2>1, <3>1, <3>2
    <2>4. ASSUME NEW p \in Proposal, AtRest(p)
          PROVE  /\ row[p].status \in {"accepted", "reverted"} => Cardinality(Announced("accept", p)) = 1
                 /\ row[p].status \notin {"accepted", "reverted"} => Cardinality(Announced("accept", p)) = 0
                 /\ row[p].status = "reverted" => Cardinality(Announced("revert", p)) = 1
                 /\ row[p].status # "reverted" => Cardinality(Announced("revert", p)) = 0
        <3>1. EventsOK(p) /\ row[p].status \in {"pending", "accepted", "rejected", "reverted"}
            BY <1>1, <2>0 DEF DecisionInv, Row
        <3> HIDE DEF Announced
        <3> QED
            BY <2>2, <2>3, <2>4, <3>1 DEF EventsOK
    <2>5. ASSUME NEW p \in Proposal, AtRest(p)
          PROVE  /\ Cardinality(Announced("reject", p)) \in {0, 1}
                 /\ row[p].status # "rejected" => Cardinality(Announced("reject", p)) = 0
                 /\ p \notin Exposed /\ row[p].status = "rejected" => Cardinality(Announced("reject", p)) = 1
        <3>1. \A t \in Txn : ~Rejecting(t, p)
            BY <2>5 DEF AtRest, Rejecting, Of
        <3>2. \A t \in Txn : Voiced(t, p) <=> t \in events /\ Of("reject", t, p)
            BY <3>1 DEF Voiced, Rejecting
        <3> HIDE DEF Announced
        <3>3. CASE \E t \in events : Of("reject", t, p)
            <4>1. PICK t \in events : Of("reject", t, p)
                BY <3>3
            <4>2. \A u \in events : Of("reject", u, p) => u = t
                BY <1>1, <2>0, <3>2, <4>1 DEF RejectInv
            <4>3. row[p].status = "rejected"
                BY <1>1, <4>1 DEF RejectInv, Of
            <4> QED
                BY <2>1, <4>1, <4>2, <4>3
        <3>4. CASE \A t \in events : ~Of("reject", t, p)
            <4>1. Cardinality(Announced("reject", p)) = 0
                BY <2>2, <3>4
            <4>2. ~(p \notin Exposed /\ row[p].status = "rejected")
                BY <1>1, <2>5, <3>2, <3>4 DEF RejectInv, Unreached
            <4> QED
                BY <4>1, <4>2
        <3> QED
            BY <3>3, <3>4
    <2> HIDE DEF Announced
    <2>6. ASSUME NEW p \in Proposal, AtRest(p)
          PROVE  /\ Cardinality(Announced("accept", p)) = IF row[p].status \in {"accepted", "reverted"} THEN 1 ELSE 0
                 /\ Cardinality(Announced("revert", p)) = IF row[p].status = "reverted" THEN 1 ELSE 0
                 /\ Cardinality(Announced("reject", p)) <= IF row[p].status = "rejected" THEN 1 ELSE 0
                 /\ p \notin Exposed =>
                        Cardinality(Announced("reject", p)) = IF row[p].status = "rejected" THEN 1 ELSE 0
        BY <2>4, <2>5, <2>6
    <2> QED
        BY <2>6 DEF DecisionHasEvent, Announced
<1>2. ProposalInv /\ DecisionInv /\ RejectInv => DecisionHasEvent
    BY <1>1
<1> QED
    BY <1>2, ProposalInvCorrect, DecisionInvCorrect, RejectInvCorrect, PTL

-----------------------------------------------------------------------------
(* The work an operation has left: its stages, in a recovery the journals  *)
(* still to do, and the labels of the stage.                               *)

StageLeft(o) ==
    CASE o.pc = "idle" -> 0
      [] o.pc \in RejectLabel -> IF o.kind = "accept" THEN 6 ELSE 1
      [] o.pc = "rejects" -> IF o.kind = "accept" THEN 7 ELSE 3
      [] o.pc \in {"read", "repair", "list"} -> 5
      [] o.pc = "recover" -> 4
      [] o.pc \in {"check", "prepare"} -> 2
      [] o.pc \in FileLabel -> IF o.own THEN 1 ELSE 4
TodoLeft(o) == IF StageLeft(o) = 4 THEN Cardinality(o.todo) ELSE 0
LabelRank ==
    [idle |-> 0, rejects |-> 0, read |-> 3, repair |-> 2, list |-> 1, check |-> 2, prepare |-> 1,
     stage |-> 20, displace |-> 19, verify |-> 18, link |-> 17, committing |-> 16,
     validate |-> 15, clean |-> 14, git |-> 13, persist |-> 12, persisted |-> 11, index |-> 10,
     event |-> 9, evented |-> 8, settle |-> 7,
     inspect |-> 6, unlink |-> 5, restore |-> 4, scrub |-> 3, remove |-> 2, recover |-> 1,
     decide |-> 6, archive |-> 5, archived |-> 4, announce |-> 3, announced |-> 2, dispose |-> 1]
LabelLeft(o, j) ==
    IF o.pc = "dispose" /\ j[o.txn].phase = "committed" THEN 0 ELSE LabelRank[o.pc]
OpLeft(o, j) == <<StageLeft(o), TodoLeft(o), LabelLeft(o, j)>>
Lower(x, y) ==
    \E i \in DOMAIN y : x[i] < y[i] /\ \A k \in 1..(i - 1) : x[k] = y[k]

\* What these rest on: no more than finitely many transactions have been begun, and
\* a rejection is part of an acceptance or of a rejection.
WorkInv ==
    /\ IsFiniteSet({t \in Txn : journal[t].phase # "unused"})
    /\ IsFiniteSet(op.todo)
    /\ op.pc = "idle" => op = NoOp
    /\ op.pc \in RejectLabel => op.kind # "revert"

\* An operation m, with the journals k, has less left than o with j.
OpLess(m, k, o, j) ==
    \/ StageLeft(m) < StageLeft(o)
    \/ StageLeft(m) = StageLeft(o) /\ TodoLeft(m) < TodoLeft(o)
    \/ StageLeft(m) = StageLeft(o) /\ TodoLeft(m) = TodoLeft(o) /\ LabelLeft(m, k) < LabelLeft(o, j)

\* What is less is lower.
LEMMA OpLessIsLower ==
    ASSUME NEW m, NEW k, NEW o, NEW j, OpLess(m, k, o, j)
    PROVE  Lower(OpLeft(m, k), OpLeft(o, j))
<1> DEFINE x == OpLeft(m, k)
           y == OpLeft(o, j)
<1>1. /\ DOMAIN y = {1, 2, 3}
      /\ x[1] = StageLeft(m) /\ x[2] = TodoLeft(m) /\ x[3] = LabelLeft(m, k)
      /\ y[1] = StageLeft(o) /\ y[2] = TodoLeft(o) /\ y[3] = LabelLeft(o, j)
    BY DEF OpLeft
<1>2. \A i \in 1..(1 - 1) : x[i] = y[i]
    OBVIOUS
<1>3. \A i \in 1..(2 - 1) : i = 1
    OBVIOUS
<1>4. \A i \in 1..(3 - 1) : i = 1 \/ i = 2
    OBVIOUS
<1> HIDE DEF x, y
<1>5. StageLeft(m) < StageLeft(o) => Lower(x, y)
    BY <1>1, <1>2 DEF Lower
<1>6. StageLeft(m) = StageLeft(o) /\ TodoLeft(m) < TodoLeft(o) => Lower(x, y)
    BY <1>1, <1>3 DEF Lower
<1>7. StageLeft(m) = StageLeft(o) /\ TodoLeft(m) = TodoLeft(o) /\ LabelLeft(m, k) < LabelLeft(o, j)
      => Lower(x, y)
    BY <1>1, <1>4 DEF Lower
<1>8. Lower(x, y)
    BY <1>5, <1>6, <1>7 DEF OpLess
<1> QED
    BY <1>8 DEF x, y

\* The stages.
LEMMA Stages ==
    ASSUME NEW o \in Op
    PROVE  /\ o.pc = "idle" => StageLeft(o) = 0
           /\ o.pc \in RejectLabel => StageLeft(o) = IF o.kind = "accept" THEN 6 ELSE 1
           /\ o.pc = "rejects" => StageLeft(o) = IF o.kind = "accept" THEN 7 ELSE 3
           /\ o.pc \in {"read", "repair", "list"} => StageLeft(o) = 5
           /\ o.pc = "recover" => StageLeft(o) = 4
           /\ o.pc \in {"check", "prepare"} => StageLeft(o) = 2
           /\ o.pc \in FileLabel => StageLeft(o) = IF o.own THEN 1 ELSE 4
           /\ o.pc # "idle" => StageLeft(o) > 0
           /\ o.pc \in {"check", "prepare", "read", "repair", "list", "rejects"} => TodoLeft(o) = 0
<1>1. o.pc \in Label
    BY DEF Op
<1>2. /\ o.pc = "idle" => StageLeft(o) = 0
      /\ o.pc \in RejectLabel => StageLeft(o) = IF o.kind = "accept" THEN 6 ELSE 1
      /\ o.pc = "rejects" => StageLeft(o) = IF o.kind = "accept" THEN 7 ELSE 3
      /\ o.pc \in {"read", "repair", "list"} => StageLeft(o) = 5
      /\ o.pc = "recover" => StageLeft(o) = 4
      /\ o.pc \in {"check", "prepare"} => StageLeft(o) = 2
      /\ o.pc \in FileLabel => StageLeft(o) = IF o.own THEN 1 ELSE 4
    BY LabelsAreAll DEF StageLeft, OtherLabel
<1>3. o.pc # "idle" => StageLeft(o) > 0
    BY <1>1, <1>2, LabelsAreAll DEF OtherLabel
<1> QED
    BY <1>2, <1>3 DEF TodoLeft

\* An operation that ends has nothing left.
LEMMA EndIsLess ==
    ASSUME NEW o \in Op, o.pc # "idle", NEW j, NEW k
    PROVE  OpLess(NoOp, k, o, j)
<1>1. NoOp \in Op /\ NoOp.pc = "idle"
    BY DEF NoOp, Op, Label, MaybeContent
<1> QED
    BY <1>1, Stages DEF OpLess

\* It goes on to a label that comes later in the same stage.
LEMMA LaterIsLess ==
    ASSUME NEW o \in Op, NEW m \in Op, NEW j, NEW k,
           m.own = o.own, m.todo = o.todo, m.kind = o.kind,
           \/ o.pc \in FileLabel /\ m.pc \in FileLabel
           \/ o.pc \in RejectLabel /\ m.pc \in RejectLabel
           \/ o.pc \in {"read", "repair", "list"} /\ m.pc \in {"read", "repair", "list"}
           \/ o.pc = "check" /\ m.pc = "prepare",
           LabelLeft(m, k) < LabelLeft(o, j)
    PROVE  OpLess(m, k, o, j)
<1>1. StageLeft(m) = StageLeft(o)
    BY Stages
<1>2. TodoLeft(m) = TodoLeft(o)
    BY <1>1 DEF TodoLeft
<1> QED
    BY <1>1, <1>2 DEF OpLess

\* The table, label by label.
LEMMA Ranks ==
    /\ LabelRank["read"] = 3 /\ LabelRank["repair"] = 2 /\ LabelRank["list"] = 1
    /\ LabelRank["check"] = 2 /\ LabelRank["prepare"] = 1
    /\ LabelRank["stage"] = 20 /\ LabelRank["displace"] = 19 /\ LabelRank["verify"] = 18
    /\ LabelRank["link"] = 17 /\ LabelRank["committing"] = 16
    /\ LabelRank["validate"] = 15 /\ LabelRank["clean"] = 14 /\ LabelRank["git"] = 13
    /\ LabelRank["persist"] = 12 /\ LabelRank["persisted"] = 11 /\ LabelRank["index"] = 10
    /\ LabelRank["event"] = 9 /\ LabelRank["evented"] = 8 /\ LabelRank["settle"] = 7
    /\ LabelRank["inspect"] = 6 /\ LabelRank["unlink"] = 5 /\ LabelRank["restore"] = 4
    /\ LabelRank["scrub"] = 3 /\ LabelRank["remove"] = 2 /\ LabelRank["recover"] = 1
    /\ LabelRank["decide"] = 6 /\ LabelRank["archive"] = 5 /\ LabelRank["archived"] = 4
    /\ LabelRank["announce"] = 3 /\ LabelRank["announced"] = 2 /\ LabelRank["dispose"] = 1
BY DEF LabelRank

\* A step to a later label of the same stage.
LEMMA GotoIsLess ==
    ASSUME op \in Op, NEW from \in Label \ {"dispose"}, At(from), NEW label \in Label, Goto(label),
           \/ from \in FileLabel /\ label \in FileLabel
           \/ from \in RejectLabel /\ label \in RejectLabel
           \/ from \in {"read", "repair"} /\ label \in {"read", "repair", "list"},
           LabelLeft(op', journal') < LabelRank[from]
    PROVE  OpLess(op', journal', op, journal)
<1>1. /\ op' \in Op /\ op'.pc = label /\ op'.kind = op.kind /\ op'.own = op.own /\ op'.todo = op.todo
    BY GotoType DEF Goto
<1>2. LabelLeft(op, journal) = LabelRank[from]
    BY DEF LabelLeft, At
<1>3. LabelLeft(op', journal') < LabelLeft(op, journal)
    BY <1>2
<1>4. PICK m : m = op'
    OBVIOUS
<1>5. PICK k : k = journal'
    OBVIOUS
<1>6. OpLess(m, k, op, journal)
    BY <1>1, <1>3, <1>4, <1>5, LaterIsLess DEF At
<1> QED
    BY <1>4, <1>5, <1>6

\* The label of a step but the last one of a rejection.
LEMMA LabelOf ==
    ASSUME op \in Op, NEW label \in Label \ {"dispose"}, Goto(label)
    PROVE  LabelLeft(op', journal') = LabelRank[label]
<1>1. op'.pc = label
    BY GotoType DEF Goto
<1> QED
    BY <1>1 DEF LabelLeft

\* A file transaction goes on to a later label.
LEMMA FileGotoIsLess ==
    ASSUME op \in Op, NEW from \in FileLabel, At(from), NEW label \in FileLabel, Goto(label),
           LabelRank[label] < LabelRank[from]
    PROVE  OpLess(op', journal', op, journal)
<1>1. from \in Label \ {"dispose"} /\ label \in Label \ {"dispose"}
    BY LabelsAreAll DEF RejectLabel
<1> QED
    BY <1>1, LabelOf, GotoIsLess

\* So does a rejection.
LEMMA RejectGotoIsLess ==
    ASSUME op \in Op, NEW from \in RejectLabel \ {"dispose"}, At(from),
           NEW label \in RejectLabel \ {"dispose"}, Goto(label),
           LabelRank[label] < LabelRank[from]
    PROVE  OpLess(op', journal', op, journal)
<1>1. from \in Label \ {"dispose"} /\ label \in Label \ {"dispose"}
    BY LabelsAreAll
<1> QED
    BY <1>1, LabelOf, GotoIsLess

\* The operation ends.
LEMMA DoneIsLess ==
    ASSUME op \in Op, op.pc # "idle", Done
    PROVE  OpLess(op', journal', op, journal)
<1>1. PICK k : k = journal'
    OBVIOUS
<1>2. OpLess(NoOp, k, op, journal)
    BY EndIsLess
<1> QED
    BY <1>1, <1>2 DEF Done

\* The steps of publishing, undoing and finishing a file transaction.
LEMMA FileStepWorks ==
    ASSUME ProposalInv,
           \/ StagePublish \/ Displace \/ VerifyDisplaced \/ LinkPublished \/ AdvancePublished
           \/ InspectAsset \/ UnlinkPublished \/ RestoreDisplaced \/ Scrub
           \/ ValidatePublished \/ CleanPublication \/ PublishGit \/ ServiceFails \/ PersistState
           \/ AdvancePersisted \/ FinalizeIndex \/ PersistEvent \/ AdvanceEvented \/ Settle
    PROVE  OpLess(op', journal', op, journal)
<1>0. op \in Op
    BY DEF ProposalInv, ProposalTypeOK
<1>1. \A from \in FileLabel, label \in FileLabel :
        At(from) /\ Goto(label) /\ LabelRank[label] < LabelRank[from]
            => OpLess(op', journal', op, journal)
    BY <1>0, FileGotoIsLess
<1>2. Done /\ op.pc # "idle" => OpLess(op', journal', op, journal)
    BY <1>0, DoneIsLess
<1> USE Ranks DEF FileLabel, OwnLabel, UndoLabel, ForwardLabel
<1> HIDE DEF OpLess
<1>3. CASE StagePublish \/ Displace \/ VerifyDisplaced \/ LinkPublished \/ AdvancePublished
    <2>1. CASE StagePublish
        BY <1>1, <2>1 DEF StagePublish
    <2>2. CASE Displace
        BY <1>1, <2>2 DEF Displace
    <2>3. CASE VerifyDisplaced
        BY <1>1, <2>3 DEF VerifyDisplaced
    <2>4. CASE LinkPublished
        BY <1>1, <2>4 DEF LinkPublished
    <2>5. CASE AdvancePublished
        BY <1>1, <2>5 DEF AdvancePublished
    <2> QED
        BY <1>3, <2>1, <2>2, <2>3, <2>4, <2>5
<1>4. CASE InspectAsset \/ UnlinkPublished \/ RestoreDisplaced \/ Scrub
    <2>1. CASE InspectAsset
        <3>1. At("inspect") /\ (Done \/ Goto("unlink") \/ Goto("scrub") \/ Goto("restore"))
            BY <2>1 DEF InspectAsset
        <3> QED
            BY <1>1, <1>2, <3>1 DEF At
    <2>2. CASE UnlinkPublished
        <3>1. At("unlink") /\ (Done \/ Goto("scrub") \/ Goto("restore"))
            BY <2>2 DEF UnlinkPublished
        <3> QED
            BY <1>1, <1>2, <3>1 DEF At
    <2>3. CASE RestoreDisplaced
        <3>1. At("restore") /\ (Done \/ Goto("scrub"))
            BY <2>3 DEF RestoreDisplaced
        <3> QED
            BY <1>1, <1>2, <3>1 DEF At
    <2>4. CASE Scrub
        BY <1>1, <2>4 DEF Scrub
    <2> QED
        BY <1>4, <2>1, <2>2, <2>3, <2>4
<1>5. CASE ValidatePublished \/ CleanPublication \/ PublishGit \/ ServiceFails \/ PersistState
    <2>1. CASE ValidatePublished
        <3>1. At("validate") /\ (Done \/ Goto("clean"))
            BY <2>1 DEF ValidatePublished
        <3> QED
            BY <1>1, <1>2, <3>1 DEF At
    <2>2. CASE CleanPublication
        <3>1. At("clean") /\ (Goto("git") \/ Goto("index") \/ Goto("event") \/ Goto("settle"))
            BY <2>2 DEF CleanPublication
        <3> QED
            BY <1>1, <3>1
    <2>3. CASE PublishGit
        BY <1>1, <2>3 DEF PublishGit
    <2>4. CASE ServiceFails
        BY <1>2, <2>4 DEF ServiceFails, At
    <2>5. CASE PersistState
        <3>1. At("persist") /\ (Done \/ Goto("persisted"))
            BY <2>5 DEF PersistState
        <3> QED
            BY <1>1, <1>2, <3>1 DEF At
    <2> QED
        BY <1>5, <2>1, <2>2, <2>3, <2>4, <2>5
<1>6. CASE AdvancePersisted \/ FinalizeIndex \/ PersistEvent \/ AdvanceEvented \/ Settle
    BY <1>1, <1>6 DEF AdvancePersisted, FinalizeIndex, PersistEvent, AdvanceEvented, Settle
<1> QED
    BY <1>3, <1>4, <1>5, <1>6

\* The steps of a rejection.
LEMMA RejectStepWorks ==
    ASSUME ProposalInv, WorkInv,
           \/ DecideReject \/ ArchiveRejected \/ AdvanceArchived \/ AnnounceReject
           \/ AdvanceAnnounced \/ DisposeReject
    PROVE  OpLess(op', journal', op, journal)
<1>0. op \in Op /\ journal \in [Txn -> Journal]
    BY DEF ProposalInv, ProposalTypeOK
<1>1. \A from \in RejectLabel \ {"dispose"}, label \in RejectLabel \ {"dispose"} :
        At(from) /\ Goto(label) /\ LabelRank[label] < LabelRank[from]
            => OpLess(op', journal', op, journal)
    BY <1>0, RejectGotoIsLess
<1>2. Done /\ op.pc # "idle" => OpLess(op', journal', op, journal)
    BY <1>0, DoneIsLess
<1>3. CASE DecideReject
    <2>1. At("decide") /\ (Done \/ Goto("archive") \/ Goto("archived"))
        BY <1>3 DEF DecideReject
    <2> QED
        BY <1>1, <1>2, <2>1, Ranks DEF At, RejectLabel
<1>4. CASE ArchiveRejected
    <2>1. At("archive") /\ (Done \/ Goto("archived"))
        BY <1>4 DEF ArchiveRejected
    <2> QED
        BY <1>1, <1>2, <2>1, Ranks DEF At, RejectLabel
<1>5. CASE AdvanceArchived
    BY <1>1, <1>5, Ranks DEF AdvanceArchived, RejectLabel
<1>6. CASE AnnounceReject
    BY <1>1, <1>6, Ranks DEF AnnounceReject, RejectLabel
<1>7. CASE AdvanceAnnounced
    <2>1. At("announced") /\ Goto("dispose") /\ SetPhase(op.txn, "event-finalized")
        BY <1>7 DEF AdvanceAnnounced
    <2>2. op'.pc = "dispose"
        BY <1>0, <2>1, GotoType DEF Goto, Label
    <2>3. LabelLeft(op', journal') \in {0, LabelRank["dispose"]}
        BY <2>2 DEF LabelLeft
    <2>4. LabelLeft(op', journal') < LabelRank["announced"]
        BY <2>3, Ranks
    <2>5. {"announced", "dispose"} \subseteq RejectLabel /\ {"announced", "dispose"} \subseteq Label
        BY DEF RejectLabel, Label
    <2> QED
        BY <1>0, <2>1, <2>4, <2>5, GotoIsLess
<1>8. CASE DisposeReject
    <2>0. At("dispose") /\ op.pc = "dispose" /\ op.pc \in RejectLabel /\ op.txn \in Txn
        BY <1>8 DEF DisposeReject, At, RejectLabel, ProposalInv, OpOK, TxnOK
    <2>1. CASE OfOp.phase = "event-finalized" /\ SetPhase(op.txn, "committed") /\ UNCHANGED op
        <3>1. journal[op.txn].phase = "event-finalized" /\ journal'[op.txn].phase = "committed"
            BY <1>0, <2>0, <2>1 DEF OfOp, SetPhase
        <3>2. LabelLeft(op', journal') = 0 /\ LabelLeft(op, journal) = 1
            BY <2>0, <2>1, <3>1, Ranks DEF LabelLeft
        <3>3. StageLeft(op') = StageLeft(op) /\ TodoLeft(op') = TodoLeft(op)
            BY <2>1
        <3> QED
            BY <3>2, <3>3 DEF OpLess
    <2>2. CASE Done
        BY <1>2, <2>0, <2>2
    <2>3. CASE op.kind # "reject" /\ op' = [op EXCEPT !.pc = "read", !.txn = None]
        <3>0. op.pc # "idle"
            BY <2>0
        <3>1. op.kind = "accept"
            BY <1>0, <2>0, <2>3, <3>0 DEF ProposalInv, OpOK, ReadOK, WorkInv, Kind
        <3>2. op' \in Op /\ op'.pc = "read"
            BY <1>0, <2>3 DEF Op, Label
        <3>3. StageLeft(op) = 6
            BY <1>0, <2>0, <3>1, Stages
        <3>4. StageLeft(op') = 5
            BY <3>2, Stages
        <3> QED
            BY <3>3, <3>4 DEF OpLess
    <2> QED
        BY <1>8, <2>1, <2>2, <2>3 DEF DisposeReject
<1> QED
    BY <1>3, <1>4, <1>5, <1>6, <1>7, <1>8

\* The steps before a transaction.
LEMMA ReadStepWorks ==
    ASSUME ProposalInv, WorkInv,
           \/ RecoverReject \/ ReadProposal \/ PersistRepair \/ ListJournals \/ ReadState \/ Prepare
    PROVE  OpLess(op', journal', op, journal)
<1>0. /\ op \in Op /\ journal \in [Txn -> Journal] /\ row \in [Proposal -> Row]
      /\ asset \in [content: MaybeContent, txn: Txn \cup {None}] /\ OpOK(op)
    BY DEF ProposalInv, ProposalTypeOK
<1>1. ASSUME NEW o \in Op, op' = o, StageLeft(o) < StageLeft(op)
      PROVE  OpLess(op', journal', op, journal)
    BY <1>1 DEF OpLess
<1>2. Done /\ op.pc # "idle" => OpLess(op', journal', op, journal)
    BY <1>0, DoneIsLess
<1>3. ASSUME NEW label \in Label, op' = [op EXCEPT !.pc = label]
      PROVE  op' \in Op /\ op'.pc = label /\ op'.kind = op.kind
    BY <1>0, <1>3, GotoType
<1>4. CASE RecoverReject
    <2>0. At("rejects") /\ op.pc = "rejects" /\ op.kind \in {"accept", "reject"}
        BY <1>0, <1>4 DEF RecoverReject, At, OpOK, ReadOK, Kind
    <2>1. StageLeft(op) = IF op.kind = "accept" THEN 7 ELSE 3
        BY <1>0, <2>0, Stages
    <2>2. CASE Goto("read") /\ op.kind = "accept"
        <3>1. op' \in Op /\ op'.pc = "read"
            BY <1>3, <2>2 DEF Goto, Label
        <3>2. StageLeft(op') = 5
            BY <3>1, Stages
        <3> QED
            BY <1>1, <2>1, <2>2, <3>1, <3>2
    <2>3. CASE Goto("check")
        <3>1. op' \in Op /\ op'.pc = "check"
            BY <1>3, <2>3 DEF Goto, Label
        <3>2. StageLeft(op') = 2
            BY <3>1, Stages
        <3> QED
            BY <1>1, <2>0, <2>1, <3>1, <3>2
    <2>4. ASSUME NEW t \in Txn, NEW label \in {"decide", "announce", "dispose"},
                 op' = [op EXCEPT !.txn = t, !.own = FALSE, !.pc = label]
          PROVE  OpLess(op', journal', op, journal)
        <3>1. op' \in Op /\ op'.pc \in RejectLabel /\ op'.kind = op.kind
            BY <1>0, <2>4 DEF Op, Label, RejectLabel
        <3>2. StageLeft(op') = IF op.kind = "accept" THEN 6 ELSE 1
            BY <3>1, Stages
        <3> QED
            BY <1>1, <2>0, <2>1, <3>1, <3>2
    <2>5. \/ Goto("read") /\ op.kind = "accept"
          \/ Goto("check")
          \/ \E t \in RejectJournals(op.prop) : \E label \in {"decide", "announce", "dispose"} :
                op' = [op EXCEPT !.txn = t, !.own = FALSE, !.pc = label]
        BY <1>4 DEF RecoverReject
    <2> QED
        BY <2>2, <2>3, <2>4, <2>5 DEF RejectJournals
<1>5. CASE ReadProposal
    <2>0. At("read") /\ op.pc = "read"
        BY <1>5 DEF ReadProposal, At
    <2>1. CASE op' = [op EXCEPT !.read = row[op.prop], !.pc = "repair"]
        <3>1. row[op.prop] \in Row
            BY <1>0, <2>0 DEF OpOK, ReadOK
        <3>2. op' \in Op /\ op'.pc = "repair" /\ op'.own = op.own /\ op'.todo = op.todo /\ op'.kind = op.kind
            BY <1>0, <2>1, <3>1 DEF Op, Label
        <3>3. LabelLeft(op', journal') = 2 /\ LabelLeft(op, journal) = 3
            BY <2>0, <3>2, Ranks DEF LabelLeft
        <3>4. StageLeft(op') = 5 /\ TodoLeft(op') = 0
            BY <3>2, Stages
        <3>5. StageLeft(op) = 5 /\ TodoLeft(op) = 0
            BY <1>0, <2>0, Stages
        <3> QED
            BY <3>3, <3>4, <3>5 DEF OpLess
    <2>2. CASE Goto("list")
        <3>1. {"read", "list"} \subseteq Label \ {"dispose"}
            BY DEF Label
        <3>2. LabelLeft(op', journal') < LabelRank["read"]
            BY <1>0, <2>2, <3>1, LabelOf, Ranks
        <3> QED
            BY <1>0, <2>0, <2>2, <3>1, <3>2, GotoIsLess
    <2> QED
        BY <1>2, <1>5, <2>0, <2>1, <2>2 DEF ReadProposal
<1>6. CASE PersistRepair
    <2>0. At("repair") /\ op.pc = "repair" /\ op' = [op EXCEPT !.read = None, !.pc = "list"]
        BY <1>6 DEF PersistRepair, At
    <2>1. op' \in Op /\ op'.pc = "list"
        BY <1>0, <2>0 DEF Op, Label
    <2>2. LabelLeft(op', journal') = 1 /\ LabelLeft(op, journal) = 2
        BY <2>0, <2>1, Ranks DEF LabelLeft
    <2>3. StageLeft(op') = 5 /\ TodoLeft(op') = 0
        BY <2>1, Stages
    <2>4. StageLeft(op) = 5 /\ TodoLeft(op) = 0
        BY <1>0, <2>0, Stages
    <2> QED
        BY <2>2, <2>3, <2>4 DEF OpLess
<1>7. CASE ListJournals
    <2>0. At("list") /\ op.pc = "list"
        BY <1>7 DEF ListJournals, At
    <2>1. StageLeft(op) = 5
        BY <1>0, <2>0, Stages
    <2>2. CASE Goto("check")
        <3>1. op' \in Op /\ op'.pc = "check"
            BY <1>3, <2>2 DEF Goto, Label
        <3>2. StageLeft(op') = 2
            BY <3>1, Stages
        <3> QED
            BY <1>1, <2>1, <3>1, <3>2
    <2>3. CASE Goto("rejects") /\ op.kind = "reject"
        <3>1. op' \in Op /\ op'.pc = "rejects" /\ op'.kind = "reject"
            BY <1>3, <2>3 DEF Goto, Label
        <3>2. StageLeft(op') = 3
            BY <3>1, Stages
        <3> QED
            BY <1>1, <2>1, <3>1, <3>2
    <2>4. CASE op' = [op EXCEPT !.pc = "recover", !.todo = {t \in Txn : FileTxn(t)}]
        <3>1. op' \in Op /\ op'.pc = "recover"
            BY <1>0, <2>4 DEF Op, Label
        <3>2. StageLeft(op') = 4
            BY <3>1, Stages
        <3> QED
            BY <1>1, <2>1, <3>1, <3>2
    <2>5. Done \/ Goto("check") \/ (Goto("rejects") /\ op.kind = "reject")
          \/ op' = [op EXCEPT !.pc = "recover", !.todo = {t \in Txn : FileTxn(t)}]
        BY <1>7 DEF ListJournals, AfterRecovery
    <2> QED
        BY <1>2, <2>0, <2>2, <2>3, <2>4, <2>5
<1>8. CASE ReadState
    <2>0. At("check") /\ op.pc = "check"
        BY <1>8 DEF ReadState, At
    <2>1. CASE op' = [op EXCEPT !.pc = "prepare", !.read = row[op.prop], !.found = asset.content]
        <3>1. row[op.prop] \in Row /\ asset.content \in MaybeContent
            BY <1>0, <2>0 DEF OpOK, ReadOK
        <3>2. op' \in Op /\ op'.pc = "prepare"
            BY <1>0, <2>1, <3>1 DEF Op, Label
        <3>3. LabelLeft(op', journal') = 1 /\ LabelLeft(op, journal) = 2
            BY <2>0, <3>2, Ranks DEF LabelLeft
        <3>4. StageLeft(op') = 2 /\ TodoLeft(op') = 0
            BY <3>2, Stages
        <3>5. StageLeft(op) = 2 /\ TodoLeft(op) = 0
            BY <1>0, <2>0, Stages
        <3> QED
            BY <3>3, <3>4, <3>5 DEF OpLess
    <2>2. Done \/ op' = [op EXCEPT !.pc = "prepare", !.read = row[op.prop], !.found = asset.content]
        BY <1>8 DEF ReadState
    <2> QED
        BY <1>2, <2>0, <2>1, <2>2
<1>9. CASE Prepare
    <2>0. op.pc = "prepare"
        BY <1>9 DEF Prepare, At
    <2>1. PICK t \in Txn :
            op' = [op EXCEPT !.txn = t, !.own = TRUE, !.read = None, !.found = None,
                             !.pc = IF op.kind = "reject" THEN "decide" ELSE "stage"]
        <3>1. (CHOOSE u \in Unused : TRUE) \in Txn
            BY <1>0, <2>0 DEF OpOK, ReadOK, Unused
        <3> QED
            BY <1>9, <3>1 DEF Prepare
    <2>2. \/ op.kind = "reject" /\ op' = [op EXCEPT !.txn = t, !.own = TRUE, !.read = None,
                                                   !.found = None, !.pc = "decide"]
          \/ op' = [op EXCEPT !.txn = t, !.own = TRUE, !.read = None,
                                                   !.found = None, !.pc = "stage"]
        BY <2>1
    <2>3. /\ op' \in Op /\ op'.own = TRUE /\ op'.kind = op.kind
          /\ (op.kind = "reject" /\ op'.pc = "decide") \/ op'.pc = "stage"
        BY <1>0, <2>2 DEF Op, Label, MaybeContent
    <2>4. "decide" \in RejectLabel /\ "stage" \in FileLabel
        BY DEF RejectLabel, FileLabel, OwnLabel
    <2>5. StageLeft(op') = 1
        BY <2>3, <2>4, Stages
    <2>6. StageLeft(op) = 2
        BY <1>0, <2>0, Stages
    <2> QED
        BY <1>1, <2>3, <2>5, <2>6
<1> QED
    BY <1>4, <1>5, <1>6, <1>7, <1>8, <1>9

\* The next journal of a recovery, and the end of one.
LEMMA RecoverStepWorks ==
    ASSUME ProposalInv, WorkInv, RecoverNext \/ RemoveJournal
    PROVE  OpLess(op', journal', op, journal)
<1>0. op \in Op /\ OpOK(op)
    BY DEF ProposalInv, ProposalTypeOK
<1>1. CASE RecoverNext
    <2>0. At("recover") /\ op.pc = "recover" /\ IsFiniteSet(op.todo)
        BY <1>1 DEF RecoverNext, At, WorkInv
    <2>1. StageLeft(op) = 4 /\ TodoLeft(op) = Cardinality(op.todo)
        BY <1>0, <2>0, Stages DEF TodoLeft
    <2>2. CASE Goto(AfterRecovery)
        <3>1. PICK label \in {"check", "rejects"} : Goto(label) /\ (label = "rejects" => op.kind = "reject")
            BY <2>2 DEF AfterRecovery
        <3>2. label \in Label
            BY DEF Label
        <3>3. op' \in Op /\ op'.pc = label /\ op'.kind = op.kind
            BY <1>0, <3>1, <3>2, GotoType DEF Goto
        <3>4. StageLeft(op') < 4
            BY <3>1, <3>3, Stages
        <3> QED
            BY <2>1, <3>4 DEF OpLess
    <2>3. ASSUME NEW t \in op.todo,
                 op' = [op EXCEPT !.txn = t, !.own = FALSE, !.todo = @ \ {t}, !.pc = Direction(t)]
          PROVE  OpLess(op', journal', op, journal)
        <3>1. Direction(t) \in FileLabel /\ Direction(t) \in Label /\ t \in Txn
            BY <1>0, LabelsAreAll DEF Direction, FileLabel, ForwardLabel, UndoLabel, Op
        <3>2. op' \in Op /\ op'.pc \in FileLabel /\ op'.own = FALSE /\ op'.todo = op.todo \ {t}
            BY <1>0, <2>3, <3>1 DEF Op
        <3>3. StageLeft(op') = 4
            BY <3>2, Stages
        <3>4. TodoLeft(op') = Cardinality(op.todo \ {t})
            BY <3>2, <3>3 DEF TodoLeft
        <3>5. Cardinality(op.todo \ {t}) = Cardinality(op.todo) - 1 /\ Cardinality(op.todo) \in Nat
            BY <2>0, FS_RemoveElement, FS_CardinalityType
        <3> QED
            BY <2>1, <3>3, <3>4, <3>5 DEF OpLess
    <2> QED
        BY <1>1, <2>2, <2>3 DEF RecoverNext
<1>2. CASE RemoveJournal
    <2>0. op.pc = "remove" /\ op.pc \in FileLabel
        BY <1>2 DEF RemoveJournal, At, FileLabel
    <2>1. CASE Done
        BY <1>0, <2>0, <2>1, DoneIsLess
    <2>2. CASE ~op.own /\ op' = [op EXCEPT !.pc = "recover", !.txn = None]
        <3>1. op' \in Op /\ op'.pc = "recover" /\ op'.todo = op.todo
            BY <1>0, <2>2 DEF Op, Label
        <3>2. StageLeft(op) = 4
            BY <1>0, <2>0, <2>2, Stages
        <3>3. StageLeft(op') = 4
            BY <3>1, Stages
        <3>4. TodoLeft(op') = TodoLeft(op)
            BY <3>1, <3>2, <3>3 DEF TodoLeft
        <3>5. LabelLeft(op', journal') = 1 /\ LabelLeft(op, journal) = 2
            BY <2>0, <3>1, Ranks DEF LabelLeft
        <3> QED
            BY <3>2, <3>3, <3>4, <3>5 DEF OpLess
    <2> QED
        BY <1>2, <2>1, <2>2 DEF RemoveJournal
<1> QED
    BY <1>1, <1>2

\* Finitely many transactions stay finitely many, and so do the journals to recover.
LEMMA WorkInvKept == ProposalInv /\ WorkInv /\ [ProposalNext]_proposalVars => WorkInv'
<1> SUFFICES ASSUME ProposalInv, WorkInv, [ProposalNext]_proposalVars
             PROVE  WorkInv'
    OBVIOUS
<1> DEFINE Begun == {t \in Txn : journal[t].phase # "unused"}
<1>0. op \in Op /\ OpOK(op) /\ journal \in [Txn -> Journal]
    BY DEF ProposalInv, ProposalTypeOK
<1>f. IsFiniteSet(Begun) /\ IsFiniteSet(op.todo)
    BY DEF WorkInv
<1>1. /\ NoOp.pc = "idle" /\ NoOp.todo = {}
      /\ IsFiniteSet({})
    BY FS_EmptySet DEF NoOp
<1>j. /\ \/ journal' = journal
         \/ \E t \in Txn : \E k : journal' = [journal EXCEPT ![t] = k]
      => IsFiniteSet(Begun)'
    <2>1. journal' = journal => IsFiniteSet(Begun)'
        BY <1>f
    <2>2. ASSUME NEW t \in Txn, NEW k, journal' = [journal EXCEPT ![t] = k]
          PROVE  IsFiniteSet(Begun)'
        <3>1. Begun' \subseteq Begun \cup {t}
            BY <1>0, <2>2
        <3>2. IsFiniteSet(Begun \cup {t})
            BY <1>f, FS_AddElement
        <3> QED
            BY <3>1, <3>2, FS_Subset
    <2> QED
        BY <2>1, <2>2
<1> HIDE DEF Begun
<1>2. ASSUME NEW t \in Txn, NEW phase, SetPhase(t, phase)
      PROVE  IsFiniteSet(Begun)'
    <2>1. journal' = [journal EXCEPT ![t] = [journal[t] EXCEPT !.phase = phase]]
        BY <1>2 DEF SetPhase
    <2> QED
        BY <1>j, <2>1
\* What the operation becomes.
<1>3. ASSUME IsFiniteSet(Begun)', IsFiniteSet(op'.todo), op'.pc = "idle" => op' = NoOp,
             op'.pc \in RejectLabel => op'.kind # "revert"
      PROVE  WorkInv'
    BY <1>3 DEF WorkInv, Begun
<1>4. ASSUME IsFiniteSet(Begun)', Done
      PROVE  WorkInv'
    <2>1. op'.pc = "idle" /\ op'.todo = {} /\ op' = NoOp /\ "idle" \notin RejectLabel
        BY <1>1, <1>4, LabelsAreAll DEF Done
    <2> QED
        BY <1>1, <1>3, <1>4, <2>1
<1>5. ASSUME IsFiniteSet(Begun)', NEW label \in Label \ {"idle"}, Goto(label),
             label \in RejectLabel => op.pc \in RejectLabel
      PROVE  WorkInv'
    <2>1. op'.pc = label /\ op'.kind = op.kind /\ op'.todo = op.todo
        BY <1>0, <1>5, GotoType DEF Goto
    <2> QED
        BY <1>3, <1>5, <1>f, <2>1 DEF WorkInv
<1>6. CASE OpStep
    <2>0. /\ \A label \in {"idle", "rejects", "read", "repair", "list", "recover", "check", "prepare"} :
                label \notin FileLabel /\ label \notin RejectLabel
          /\ \A label \in FileLabel : label \notin RejectLabel /\ label \in Label \ {"idle"}
          /\ RejectLabel \subseteq Label \ {"idle"}
        BY LabelsAreAll DEF OtherLabel
    <2>j. journal' = journal => IsFiniteSet(Begun)'
        BY <1>j
    <2>1. CASE RecoverReject
        <3>0. journal' = journal /\ op.pc = "rejects" /\ op.kind # "revert"
            BY <1>0, <2>1 DEF RecoverReject, At, OpOK, ReadOK
        <3>1. CASE Goto("read") \/ Goto("check")
            BY <1>5, <2>0, <2>j, <3>0, <3>1 DEF Label
        <3>2. ASSUME NEW t \in Txn, NEW label \in {"decide", "announce", "dispose"},
                     op' = [op EXCEPT !.txn = t, !.own = FALSE, !.pc = label]
              PROVE  WorkInv'
            <4>1. op'.pc = label /\ label # "idle" /\ op'.kind = op.kind /\ op'.todo = op.todo
                BY <1>0, <3>2 DEF Op
            <4> QED
                BY <1>3, <1>f, <2>j, <3>0, <4>1
        <3>3. \/ Goto("read") \/ Goto("check")
              \/ \E t \in RejectJournals(op.prop) : \E label \in {"decide", "announce", "dispose"} :
                    op' = [op EXCEPT !.txn = t, !.own = FALSE, !.pc = label]
            BY <2>1 DEF RecoverReject
        <3> QED
            BY <3>1, <3>2, <3>3 DEF RejectJournals
    <2>2. CASE ReadProposal \/ PersistRepair \/ ReadState
        <3>0. journal' = journal /\ op.pc \in {"read", "repair", "check"}
            BY <2>2 DEF ReadProposal, PersistRepair, ReadState, At
        <3>1. CASE op' = [op EXCEPT !.read = row[op.prop], !.pc = "repair"]
                   \/ op' = [op EXCEPT !.read = None, !.pc = "list"]
                   \/ op' = [op EXCEPT !.pc = "prepare", !.read = row[op.prop], !.found = asset.content]
            <4>1. op'.pc \in {"repair", "list", "prepare"} /\ op'.todo = op.todo
                BY <1>0, <3>1 DEF Op
            <4> QED
                BY <1>3, <1>f, <2>0, <2>j, <3>0, <4>1
        <3>2. CASE Goto("list")
            BY <1>5, <2>0, <2>j, <3>0, <3>2 DEF Label
        <3>3. CASE Done
            BY <1>4, <2>j, <3>0, <3>3
        <3> QED
            BY <2>2, <3>1, <3>2, <3>3 DEF ReadProposal, PersistRepair, ReadState
    <2>3. CASE ListJournals
        <3>0. journal' = journal /\ op.pc = "list"
            BY <2>3 DEF ListJournals, At
        <3>1. CASE op' = [op EXCEPT !.pc = "recover", !.todo = {t \in Txn : FileTxn(t)}]
            <4>1. op'.pc = "recover" /\ op'.todo = {t \in Txn : FileTxn(t)}
                BY <1>0, <3>1 DEF Op
            <4>2. {t \in Txn : FileTxn(t)} \subseteq Begun
                BY DEF Begun, FileTxn, Live
            <4>3. IsFiniteSet(op'.todo)
                BY <1>f, <4>1, <4>2, FS_Subset
            <4> QED
                BY <1>3, <2>0, <2>j, <3>0, <4>1, <4>3
        <3>2. CASE Goto("check") \/ Goto("rejects")
            BY <1>5, <2>0, <2>j, <3>0, <3>2 DEF Label
        <3>3. CASE Done
            BY <1>4, <2>j, <3>0, <3>3
        <3> QED
            BY <2>3, <3>1, <3>2, <3>3 DEF ListJournals, AfterRecovery
    <2>4. CASE RecoverNext
        <3>0. journal' = journal /\ op.pc = "recover"
            BY <2>4 DEF RecoverNext, At
        <3>1. CASE Goto("check") \/ Goto("rejects")
            BY <1>5, <2>0, <2>j, <3>0, <3>1 DEF Label
        <3>2. ASSUME NEW t \in op.todo,
                     op' = [op EXCEPT !.txn = t, !.own = FALSE, !.todo = @ \ {t}, !.pc = Direction(t)]
              PROVE  WorkInv'
            <4>1. Direction(t) \in {"inspect", "remove", "validate"}
                BY DEF Direction
            <4>2. {"inspect", "remove", "validate"} \subseteq FileLabel
                BY DEF FileLabel, UndoLabel, ForwardLabel
            <4>3. op'.pc = Direction(t) /\ op'.todo = op.todo \ {t}
                BY <1>0, <3>2 DEF Op
            <4>4. IsFiniteSet(op'.todo)
                BY <1>f, <4>3, FS_Subset
            <4> QED
                BY <1>3, <2>0, <2>j, <3>0, <4>1, <4>2, <4>3, <4>4
        <3> QED
            BY <2>4, <3>1, <3>2 DEF RecoverNext, AfterRecovery
    <2>5. CASE Prepare
        <3>0. PICK t \in Txn : \E k :
                /\ journal' = [journal EXCEPT ![t] = k]
                /\ op' = [op EXCEPT !.txn = t, !.own = TRUE, !.read = None, !.found = None,
                                    !.pc = IF op.kind = "reject" THEN "decide" ELSE "stage"]
            <4>1. (CHOOSE u \in Unused : TRUE) \in Txn
                BY <1>0, <2>5 DEF Prepare, At, OpOK, ReadOK, Unused
            <4> QED
                BY <2>5, <4>1 DEF Prepare
        <3>1. PICK k :
                /\ journal' = [journal EXCEPT ![t] = k]
                /\ op' = [op EXCEPT !.txn = t, !.own = TRUE, !.read = None, !.found = None,
                                    !.pc = IF op.kind = "reject" THEN "decide" ELSE "stage"]
            BY <3>0
        <3>2. /\ op'.todo = op.todo /\ op'.kind = op.kind
              /\ op'.pc = IF op.kind = "reject" THEN "decide" ELSE "stage"
            BY <1>0, <3>1 DEF Op
        <3>3. "stage" \in FileLabel
            BY DEF FileLabel, OwnLabel
        <3>4. IsFiniteSet(Begun)'
            BY <1>j, <3>1
        <3> QED
            BY <1>3, <1>f, <2>0, <3>2, <3>3, <3>4
    <2>6. CASE \/ StagePublish \/ Displace \/ VerifyDisplaced \/ LinkPublished \/ AdvancePublished
               \/ InspectAsset \/ UnlinkPublished \/ RestoreDisplaced \/ Scrub
               \/ ValidatePublished \/ CleanPublication \/ PublishGit \/ ServiceFails \/ PersistState
               \/ AdvancePersisted \/ FinalizeIndex \/ PersistEvent \/ AdvanceEvented \/ Settle
        <3>0. op.pc \in FileLabel /\ op.txn \in Txn
            <4>1. op.pc \in FileLabel
                BY <2>6 DEF FileLabel, OwnLabel, UndoLabel, ForwardLabel, At,
                    StagePublish, Displace, VerifyDisplaced, LinkPublished, AdvancePublished,
                    InspectAsset, UnlinkPublished, RestoreDisplaced, Scrub,
                    ValidatePublished, CleanPublication, PublishGit, ServiceFails, PersistState,
                    AdvancePersisted, FinalizeIndex, PersistEvent, AdvanceEvented, Settle
            <4> QED
                BY <1>0, <4>1 DEF OpOK, TxnOK
        <3>1. journal' = journal \/ \E phase \in Phase : SetPhase(op.txn, phase)
            BY <2>6 DEF Phase,
                StagePublish, Displace, VerifyDisplaced, LinkPublished, AdvancePublished,
                InspectAsset, UnlinkPublished, RestoreDisplaced, Scrub,
                ValidatePublished, CleanPublication, PublishGit, ServiceFails, PersistState,
                AdvancePersisted, FinalizeIndex, PersistEvent, AdvanceEvented, Settle
        <3>2. IsFiniteSet(Begun)'
            BY <1>2, <2>j, <3>0, <3>1
        <3>3. \A label \in FileLabel : Goto(label) => WorkInv'
            BY <1>5, <2>0, <3>2
        <3>4. Done => WorkInv'
            BY <1>4, <3>2
        <3>5. Done \/ \E label \in FileLabel : Goto(label)
            <4> USE DEF FileLabel, OwnLabel, UndoLabel, ForwardLabel
            <4>1. CASE StagePublish \/ Displace \/ VerifyDisplaced \/ LinkPublished \/ AdvancePublished
                BY <4>1 DEF StagePublish, Displace, VerifyDisplaced, LinkPublished, AdvancePublished
            <4>2. CASE InspectAsset
                BY <4>2 DEF InspectAsset
            <4>3. CASE UnlinkPublished \/ RestoreDisplaced \/ Scrub
                BY <4>3 DEF UnlinkPublished, RestoreDisplaced, Scrub
            <4>4. CASE ValidatePublished \/ CleanPublication \/ PublishGit \/ ServiceFails \/ PersistState
                BY <4>4 DEF ValidatePublished, CleanPublication, PublishGit, ServiceFails, PersistState
            <4>5. CASE AdvancePersisted \/ FinalizeIndex \/ PersistEvent \/ AdvanceEvented \/ Settle
                BY <4>5 DEF AdvancePersisted, FinalizeIndex, PersistEvent, AdvanceEvented, Settle
            <4> QED
                BY <2>6, <4>1, <4>2, <4>3, <4>4, <4>5
        <3> QED
            BY <3>3, <3>4, <3>5
    <2>7. CASE RemoveJournal
        <3>0. op.pc \in FileLabel /\ op.txn \in Txn
            BY <1>0, <2>7 DEF RemoveJournal, At, FileLabel, OpOK, TxnOK
        <3>1. IsFiniteSet(Begun)'
            BY <1>2, <2>7, <3>0 DEF RemoveJournal
        <3>2. CASE op' = [op EXCEPT !.pc = "recover", !.txn = None]
            <4>1. op'.pc = "recover" /\ op'.todo = op.todo
                BY <1>0, <3>2 DEF Op
            <4> QED
                BY <1>3, <1>f, <2>0, <3>1, <4>1
        <3> QED
            BY <1>4, <2>7, <3>1, <3>2 DEF RemoveJournal
    <2>8. CASE \/ DecideReject \/ ArchiveRejected \/ AdvanceArchived \/ AnnounceReject
               \/ AdvanceAnnounced \/ DisposeReject
        <3>0. op.pc \in RejectLabel /\ op.txn \in Txn
            <4>1. op.pc \in RejectLabel
                BY <2>8 DEF RejectLabel, At, DecideReject, ArchiveRejected, AdvanceArchived,
                    AnnounceReject, AdvanceAnnounced, DisposeReject
            <4> QED
                BY <1>0, <4>1 DEF OpOK, TxnOK
        <3>1. journal' = journal \/ \E phase \in Phase : SetPhase(op.txn, phase)
            BY <2>8 DEF Phase, DecideReject, ArchiveRejected, AdvanceArchived,
                AnnounceReject, AdvanceAnnounced, DisposeReject
        <3>2. IsFiniteSet(Begun)'
            BY <1>2, <2>j, <3>0, <3>1
        <3>3. \A label \in RejectLabel : Goto(label) => WorkInv'
            BY <1>5, <2>0, <3>0, <3>2
        <3>4. Done => WorkInv'
            BY <1>4, <3>2
        <3>5. UNCHANGED op => WorkInv'
            BY <1>3, <1>f, <3>2 DEF WorkInv
        <3>6. op' = [op EXCEPT !.pc = "read", !.txn = None] => WorkInv'
            <4>1. op' = [op EXCEPT !.pc = "read", !.txn = None] => op'.pc = "read" /\ op'.todo = op.todo
                BY <1>0 DEF Op
            <4> QED
                BY <1>3, <1>f, <2>0, <3>2, <4>1
        <3>7. \/ Done \/ UNCHANGED op \/ op' = [op EXCEPT !.pc = "read", !.txn = None]
              \/ \E label \in RejectLabel : Goto(label)
            BY <2>8 DEF RejectLabel, DecideReject, ArchiveRejected, AdvanceArchived,
                AnnounceReject, AdvanceAnnounced, DisposeReject
        <3> QED
            BY <3>3, <3>4, <3>5, <3>6, <3>7
    <2> QED
        BY <1>6, <2>1, <2>2, <2>3, <2>4, <2>5, <2>6, <2>7, <2>8 DEF OpStep
<1>7. ASSUME NEW kind \in Kind, NEW p \in Proposal, Begin(kind, p)
      PROVE  WorkInv'
    <2>1. /\ op'.pc = (IF kind = "accept" THEN "rejects" ELSE "list") /\ op'.todo = {}
          /\ journal' = journal
        BY <1>7 DEF Begin, NoOp
    <2>2. op'.pc # "idle" /\ op'.pc \notin RejectLabel
        BY <2>1, LabelsAreAll DEF OtherLabel
    <2> QED
        BY <1>1, <1>3, <1>j, <2>1, <2>2
<1>8. CASE journal' = journal /\ op' = op
    BY <1>8 DEF WorkInv
<1>9. CASE CrashOp
    BY <1>4, <1>9, <1>j DEF CrashOp
<1>10. ASSUME NEW p \in Proposal, ExpireStale(p) \/ PurgeLooks(p) \/ PurgeArchives(p)
       PROVE  WorkInv'
    BY <1>8, <1>10 DEF ExpireStale, PurgeLooks, PurgeArchives
<1>11. ASSUME NEW content \in {Edit, None}, EditAsset(content)
       PROVE  WorkInv'
    BY <1>8, <1>11 DEF EditAsset
<1>12. CASE UNCHANGED proposalVars
    BY <1>8, <1>12 DEF proposalVars
<1> QED
    BY <1>6, <1>7, <1>9, <1>10, <1>11, <1>12 DEF ProposalNext

\* The work of an operation is bounded: every step of it, and a crash of it, lowers what
\* it has left - its stages, then the journals to recover, then the labels of the stage -
\* and nothing else changes what it has left.  So it ends, whatever interrupted
\* transactions it finds, as long as its process runs and git and the index answer.
OperationWorkIsBounded ==
    [][op # NoOp => \/ op' = op /\ journal' = journal
                    \/ Lower(OpLeft(op', journal'), OpLeft(op, journal))]_proposalVars

\* However many transactions earlier crashes have left, and whatever is in their way, an
\* operation cannot go round in circles: recovery never begins again what it has done.
THEOREM OperationWorkBounded == ProposalSpec => OperationWorkIsBounded
<1>1. ProposalInit => WorkInv
    <2> SUFFICES ASSUME ProposalInit
                 PROVE  WorkInv
        OBVIOUS
    <2>1. op = NoOp /\ {t \in Txn : journal[t].phase # "unused"} = {}
        BY DEF ProposalInit, NoJournal
    <2>2. NoOp.pc = "idle" /\ NoOp.todo = {}
        BY DEF NoOp
    <2> QED
        BY <2>1, <2>2, FS_EmptySet, LabelsAreAll DEF WorkInv
<1>2. ASSUME ProposalInv, WorkInv, ProposalNext, op # NoOp
      PROVE  (op' = op /\ journal' = journal) \/ Lower(OpLeft(op', journal'), OpLeft(op, journal))
    <2>0. op \in Op /\ op.pc # "idle"
        BY <1>2 DEF ProposalInv, ProposalTypeOK, WorkInv
    <2>1. CASE OpStep \/ CrashOp
        <3>1. OpLess(op', journal', op, journal)
            BY <1>2, <2>0, <2>1, FileStepWorks, RejectStepWorks, ReadStepWorks, RecoverStepWorks, DoneIsLess
               DEF OpStep, CrashOp
        <3>2. PICK m, k : m = op' /\ k = journal'
            OBVIOUS
        <3>3. Lower(OpLeft(m, k), OpLeft(op, journal))
            BY <3>1, <3>2, OpLessIsLower
        <3> QED
            BY <3>2, <3>3
    <2>2. CASE \E p \in Proposal : ExpireStale(p) \/ PurgeLooks(p) \/ PurgeArchives(p)
        BY <2>2 DEF ExpireStale, PurgeLooks, PurgeArchives
    <2>3. CASE \E content \in {Edit, None} : EditAsset(content)
        BY <2>3 DEF EditAsset
    <2>4. CASE \E kind \in Kind, p \in Proposal : Begin(kind, p)
        BY <1>2, <2>4 DEF Begin
    <2> QED
        BY <1>2, <2>1, <2>2, <2>3, <2>4 DEF ProposalNext
<1>3. ProposalInv /\ WorkInv /\ [ProposalNext]_proposalVars
        => [op # NoOp => (op' = op /\ journal' = journal)
                          \/ Lower(OpLeft(op', journal'), OpLeft(op, journal))]_proposalVars
    BY <1>2
<1> QED
    BY <1>1, <1>3, WorkInvKept, ProposalInvCorrect, PTL DEF ProposalSpec, OperationWorkIsBounded
=============================================================================
