# akm in TLA+

Models, model-checking runs and machine-checked proofs about **akm** (agentikit), a
command-line program in TypeScript that manages assets for coding agents and drives durable
workflows. Paths below are relative to the repository (`src/src/...` is the program's own
source); `PROJECT.json` maps every definition to the lines it models.

akm has no server. Every invocation is a process of its own, and everything that survives it is in
two places: a SQLite database (`state.db`) and the file system. What is hard about it is what
happens when several invocations work on the same run or the same files, when one of them is killed,
suspended or interrupted, and when a person resumes or abandons something that is still being
driven. The project models those parts.

## 1. Inventory

| Component | State | Operations | Interacts with | Hard behaviour | What makes it correct |
|---|---|---|---|---|---|
| Run spine and engine lease (`workflows/runtime/runs.ts`, `plan-classifier.ts`, `storage/repositories/workflow-runs-repository.ts`) | rows `workflow_runs` (status, current step, lease holder and expiry), `workflow_run_steps` | start, next, complete a step, resume, abandon, list; acquire, renew, release, reclaim the lease | engines, people, every command that reads a run | reads outside of transactions, leases that expire under a suspended process, resumes that overlap | row and spine agree; the plan is walked in order; finished steps and runs stay finished |
| Dispatch-attempt journal (same repository) | `workflow_run_unit_attempts` (append-only), `workflow_run_units` (projection) | reserve an attempt, take a claim over, finish by compare-and-swap | engines, resume | two tables kept in step by four UPDATEs, late answers, dead claimants | at most one running attempt, the latest; projection = latest attempt |
| Engine run loop (`workflows/exec/run-workflow.ts`) | lease handle, heartbeat, dispatch signal, loop position (memory) | one invocation: read, acquire, walk, gate loop, release | all of the above | step read before the lease, lost lease in mid-flight, abort | no work at the wrong step, every invocation ends, leases come free |
| Step execution (`native-executor.ts`) | in-memory outcomes, journal snapshot | reuse, reserve, dispatch, finish, retry; fan-out, budgets, worktrees | journal, agents, LLMs | journal read once per step and used later; late answers | paid work is not paid for twice, promoted results can be rebuilt |
| Step finalization and gate (`step-work.ts`) | gate rows in the journal | reduce, schema check, judge, complete | spine, journal, judge | crash between verdict, completion and gate row | gate never bypassed; accepted gate row means completed step |
| File lock and maintenance barrier (`core/file-lock.ts`, `core/maintenance-barrier.ts`) | sentinel file, SQLite operation mutex | acquire, probe, reclaim, release | improve, index writer, tasks, backup and migration commands | probe without the mutex, PID reuse, half-written sentinels, age bound | exclusion; nobody unlinks another's sentinel; crashed sentinels go away |
| Child workflows (`child-workflow.ts`, `child-invocation.ts`) | child run linked to a unit, its lease | publish once, drive, re-read, join | spine, journal, engine, people | crash between publication and parent's finish; a child stopped or driven by somebody else | one child run per parent unit; the child's status decides the unit |
| Unit scheduler and write queue (`scheduler.ts`, `core/concurrent.ts`, `unit-writer.ts`), dispatch budget (`native-executor.ts`) | pool, budget, promise chain (memory) | claim the next unit, consume a slot, add tokens, abort, serialize writes | step execution, journal | a budget in memory shared by units in flight and rebuilt after a crash; abort with units unclaimed | ceiling kept by the run as a whole; no unit passed over; nobody waits for ever |
| Multi-file transactions (`core/fs-txn.ts`) | journal file with a phase, staged and displaced files | begin, advance, roll back, roll forward, sweep | proposals | crash in any phase, recovery of somebody else's transaction | all or nothing, recovery idempotent |
| Proposals (`commands/proposal/repository.ts`) | proposal rows, events, asset files, backups | create, accept, reject, revert, repair, expire, purge, drain | fs-txn, state.db, git, index, the user's editor | file change and row in two stores; maintenance passes without the lease; edits under the transaction | decided once and announced once; no edit lost; interrupted ones end |
| Improve loop (`commands/improve/`) | lock, checkpoints | extract, reflect, propose | file lock, LLM, proposals | two locks with different stale rules | one improve at a time |
| Tasks and OS scheduler (`tasks/`) | task rows, cron/launchd/systemd entries | attempt lifecycle, synchronize | state.db, OS | crash between row and OS entry | entries equal definitions |
| State database, migrations (`core/state-db*.ts`, `storage/`) | ledger table | open, migrate | everything | several processes open an old database | each migration once, in order |
| Parsing, compilation, frozen plans (`workflows/ir/`, `parser.ts`) | none | compile, hash, freeze | engine (reads the plan) | none at run time | same document, same plan |
| Indexer and search (`indexer/`) | derived index | build, query | sources, index-writer lock | writer lock | rebuilt from sources |
| Sources, registry, integrations, LLM (`sources/`, `registry/`, `integrations/`, `llm/`) | caches, lockfile | fetch, install, spawn, call | network, git, agents | timeouts | external effects |
| Configuration, CLI, output, setup | config file | parse, render | user | none | I/O |

The workflow subsystem (about 20 000 lines and its repository) carries the program's concurrency and
recovery; the file lock is what the rest leans on to be safe. `PROJECT.json` lists every component
with its status, and under "hazards" what is hard to test, each at its line.

How the modelled parts meet: `akm workflow run` is an *engine invocation*. It reads the run
(`getNextWorkflowStep`), claims the run's lease, and for every step and gate loop reuses or reserves
and dispatches the unit of work, journals the answer, has the judge decide, and writes the step's
completion in one transaction that also derives the run's new state. A heartbeat renews the lease.
Other invocations, `akm workflow resume`, `abandon` and plain reads go to the same rows at any time.
A step may fan out: its units go to a bounded pool, each attempt takes a slot of the run's declared
budget, and a unit may be a child workflow, a run with rows and a lease of its own that the parent's
engine drives.

A *proposal* changes or creates one asset file. Accepting it takes the asset-mutation lease (a file
lock), journals a transaction beside the asset, moves the old file aside, links the new one, and then
records git, row, index and event one after the other, each with a phase in the journal. The next
operation on the proposal finds the journal of an interrupted one and finishes or undoes it first.

## 2. Modules

| Module | Models | State and actions |
|---|---|---|
| `RunLifecycle` | the abstract specification: what a run promises to its user | `finished`, `state`; FinishStep, Stop, Abandon, Resume |
| `WorkflowSpine` | the rows of one run and each statement or transaction on them | `runStatus`, `current`, `step`, `holder`, `live`; `resuming`/`snap` are the locals of resumes between their read and their transaction |
| `UnitJournal` (extends `WorkflowSpine`) | `reserveUnitAttempt`, `finishUnitAttempt` on both tables | `attempts` (log), `row` (projection) |
| `WorkflowEngine` (extends `UnitJournal`) | engine invocations from first read to release, their environment | `eng[e]`: program counter and locals; one action per atomic piece of the program |
| `StepDispatch` (extends `UnitJournal`) | the fan-out of a step: pool, budget, retries, reuse, verdict, over crashes and resumes | `inv[e]`: program counter, budget, and per unit how far it is |
| `ChildRun` (extends `StepDispatch`) | units that are child workflows | `children[u]` (the runs published, by status), `driver[u]` (the live lease), `reopening[u]` (resumes of the child between their read and their transaction) |
| `ProposalTxn` | accept, revert, reject as journaled transactions, their recovery, maintenance passes, edits, crashes | `asset`, `row`, `journal[t]`, `publish`, `displaced`, `events` (durable); `op` (the lease holder's locals), `doomed` (a purge's) |
| `FileLock` | sentinel lock, operation mutex, the barrier's two-attempt acquisition | `file`, `mutex`, `alive`, `proc[p]`, `crashes` |
| `Mutex` | the abstract specification of a lock, as its callers see it | `inside`; Enter, Leave |
| `MCSpine`, `MCEngine`, `MCDispatch`, `MCProposal`, `MCLock` | instances for TLC | |
| `WorkflowSpine_proofs`, `UnitJournal_proofs`, `WorkflowEngine_proofs`, `WorkflowEngineCalm_proofs`, `StepDispatch_proofs`, `ChildRun_proofs`, `ProposalTxn_proofs`, `FileLock_proofs` | theorems (section 5) | |

### How state and actions correspond to the code

*Granularity.* An action of `WorkflowSpine` and `UnitJournal` is one SQLite statement or one
transaction: SQLite makes those atomic, nothing more. An action of `WorkflowEngine` is what the
program does between two points where another process can get in: a statement, an external call, or
a check of the in-memory signal. `getNextWorkflowStep` reads the run row and the step rows in two
statements and is two actions (`ReadRun`, `ReadSteps`). `resumeWorkflowRun` reads outside of its
transaction and is two actions (`ResumeRead`, `ResumeCommit`).

*Time.* A lease expiry is abstracted to the flag `live` (`engine_lease_until >= now`). An expiry is
the action `LeaseExpires`; reads that find an expired lease clear it
(`reclaimOrphanedEngineLease`), which is `ReclaimExpiredLease` for reads by anybody and
`HolderAfterRead` where the read is part of a larger action. A refused completion throws inside its
transaction, so the reclaim its own read made is rolled back with it.

*Engines.* Each engine of the model is one `runWorkflowAttempt` with a fresh random holder id; an
engine that ended never starts again. The in-process retry of `runWorkflowSteps` is a resume by a
resumer followed by another engine.

*Units.* A step has one unit of work per gate loop (`<node>:solo`, `<node>:solo~l<n>`) and one gate
row per loop. Its input hash is taken to be the same when a run is resumed (the feedback a loop
starts with is rebuilt from the journal), so "completed with the same hash" is "completed".
A unit succeeds with an artifact that matches the step's schema or does not, fails, or is aborted. A
reservation that is refused is a failed unit without dispatch and is not retried (`dispatch_error` is
not in the `retry.on` vocabulary).

*Signal.* `eng[e].signal` is the heartbeat's dispatch signal with its cause: lease lost, or the
caller's abort. The code asks for it at fixed points only, and so does the model. A heartbeat tick
whose renewal changes no row means the lease is lost.

*Gate.* `FinalizeExecutedStep` includes `completeWorkflowStep`'s preflight; `JournalGateStart`,
`JudgeStep`, `CommitStep`, `GateFinish` follow `finalizeExecutedStep` and `journalGateEvaluation*`:
verdict first, then the write transaction, then the gate row. An interruption that arrives before the
transaction wins over the verdict and the gate row is finished as errored.

*Fan-out.* `WorkflowEngine` follows one unit through gates and loops, `StepDispatch` follows several
through the pool and leaves the gate out, because a judge takes no part in the budget. Both stand on
the same rows. A unit of work is an index of the step's work list, and its place (`work[i]`) is where
its `runUnit` awaits. JavaScript runs what lies between two awaits without interruption, so `ClaimUnit`
includes the reuse decision and `tryConsume`, and `FinishUnit` includes the journal's finish with the
rest of the loop: tokens, retry, the next slot. The write and what follows it are merged because nothing
another process does can reach the locals in between. `Settled` merges `assertAlive` with the end of
the step, since both only ask for the signal. A killed or suspended process needs no action: an
invocation that takes no more steps is one, and `LeaseExpires` does the rest. The budget (`used`,
`tokens`) is in the engine's memory, seeded from the journal once per invocation. Token usage of an
answer is none or one.

*Children.* `children[u]` is the sequence of runs published for unit u, so that a second publication
would be visible; `driver[u]` is the child's live lease. What the child does inside is left to
`WorkflowSpine`: a drive by the parent or by a person ends in any status. A resume of the child is two
actions here as well (`ResumeChildRead`, `ResumeChildCommit`), of which the second asks for no status: it
makes the child active whatever has become of it. `publishChildRun`'s
transaction (look the run up by its link, insert it otherwise) is one action; the drive and the read
of the status after it are separate, as in the code.

*Proposals.* The asset-mutation lease is a file lock without an age bound, which only one running
process holds (`LockIsMutex`; a crash is a `Leave` there too), so one variable `op` stands for the operation that has it: kind,
proposal, label, and what it read. A crash empties `op` and leaves files, rows and journals. Each label
is one system call or one database transaction: `Displace` is the rename, `LinkPublished` the `link(2)`
that refuses to replace, every `Advance...` the durable write of a phase. `displaced[t]` and `publish`
are the side files of transaction t; that the asset is the transaction's own link
(same inode) is `asset.txn`. The row keeps the status, the content the proposal was made for
(`beforeHash`) and the backup. Contents are compared as the code compares hashes. Recovery goes through
the journals of the root in any order, since the directory's order means nothing. `ExpireStale`
and `PurgeLooks`/`PurgeArchives` do not take the lease, as in the code. `Exposed` are the
proposals old enough, or of the source, to be in their reach.

*Lock.* A sentinel is `[token, pid, old]`: `token` stands for the random lock id and the file
identity that the reclaim compares, `pid = None` for the time before its payload is written. Creation
(create, then write), reclaim (rename, then unlink) and release run under the operation mutex, the
probe does not. The judgement of a probe (`isProcessAlive`) comes later than its read. A token is
used again only when nobody can compare it any more; with the processes of the runs there is always
one left.

## 3. Runs

Sizes are distinct states.

| Run | Instance | Checks | States |
|---|---|---|---|
| `spine` | 3 steps, 2 engines, 1 resumer | the spine's invariants, finality of steps and runs, `RunLifecycle` implemented | 900 |
| `engineA` | 1 gated step with 2 loops, 2 engines, 1 resumer; suspension past the lease and abandon allowed | journal invariants, gate soundness, finished attempts final | about 1.0 million |
| `engineB` | 2 steps (the first gated with 2 loops, the second tolerant), 1 retry, 2 engines, 1 resumer; crashes, aborts and failing heartbeats, no suspension, no abandon | no concurrent or misplaced dispatch, paid work kept, promoted artifacts journaled, an engine's work bounded | about 0.5 million |
| `engineL` | 1 gated step, 2 engines, suspension, abandon, crashes; fairness | every invocation ends; an ended engine's lease goes for good | about 156 000 |
| `lock` | 3 PIDs, one unable to read the sentinel, 3 crashes, no age bound | an abstract mutex implemented, holders keep their sentinel | about 65 000 |
| `barrier` | 2 PIDs, 2 crashes, age bound; fairness | sentinels taken by right, abandoned ones go | about 8 600 |
| `proposal` | 2 proposals on one asset (one exposed to the maintenance passes), 2 transactions, 2 crashes, 1 edit or deletion; fairness | file, row and event agree, edits survive, decisions announced and final, interrupted transactions end | about 447 000 |
| `dispatch` | 2 steps of 2 units (one unit of each a child workflow, the first step tolerant), pool of 2, 2 slots, 1 token, 1 retry, 2 engines, 1 resumer | ceiling, budget, children, no unit passed over, nobody stuck | about 1.2 million |
| `resume_race`, `overtaken`, `half_restored`, `spurious_ceiling` | the smallest instance with the behaviour | one property each, violated (section 6) | |

*Why two engine settings.* Two properties cannot be had at once. If a process can be suspended
past its own lease, a second engine legitimately works beside it, and "nobody dispatches this unit
twice" is not what the code promises; what it then promises is that the rows stay consistent and no
gate is bypassed (`engineA`). As long as processes do not outlive their leases and nobody abandons a
driven run, it promises more (`engineB`). `MaySuspend` and `MayAbandon` are constants so that both
are the same module.

*Bounds.* Three steps give a first, a middle and a last step. Two engines are enough for every race
in the code that has a winner and a loser. The lease has one holder and the claim one owner, so a
third engine is another loser. Two gate loops give one that is not the last and the last one; one
retry gives a first and a last try. `engineA` has one step because engine invocations meet at the
current step only; what links steps is the spine, which `spine` checks with three and
the proofs with any number. In `lock` two PIDs race over the sentinel of a third, dead or reused one.
The bounds are the constants `NSteps`, `MaxLoops`, `MaxRetry`, `MaxCrashes`, `MaxEdits`, `NUnits`, `Width`,
`MaxUnits`, `MaxTokens`, the sets `Engine`, `Resumer`, `Process`, `Token`, `Proposal`, `Txn`; the journal is bounded because engines end. `Engine` is a
symmetry set in the safety runs of `MCEngine` and `MCDispatch` (its members are interchangeable invocations), in no
liveness run.

`dispatch` has four units and two slots, so the ceiling is reached by the first attempt of one unit or
the retry of another, in either step; two units beside each other are what a shared counter needs, and
with two steps the totals are carried from one to the next as well as seeded. The child is the first unit
of the first step, where a second engine can still take it over, and the second unit of the other one, so
that a unit before it can be retried. That step is reached with slots left when the tolerant one before it
dispatched nothing, and it can be completed; the search reaches that, a child that ends under a displaced
engine and is dispatched again, and a retry that succeeds.
One token makes the token ceiling trip with the first answer that reports any. `proposal` has two
transactions because what matters is one that was interrupted and the one after it, or two of
different proposals on one file; two crashes hit a transaction and its recovery. A transaction id is
used once (`Unused`), which bounds the operations that begin anything.

`spine`, `engineB` and `dispatch` have one resumer because some of what they check is true only as long as
no two resumes of one run overlap (`RunStatusMatchesSpine`, `ResumeReadIsFresh`, `CompletedRunIsFinal`,
`StepNeedsItsChildren` among them); section 6 says what happens when they do. The theorems state it
as the hypothesis `SingleResumer`.

*Deadlock* is not checked for the spine, the engines and the fan-out (for the last,
`InvocationNeverStuck` says what deadlock would not): a completed run with all engines ended is
where the system stops. It is checked for the lock and for
proposals: while any process runs, somebody can move.

*Properties one would want to read first:* `GateNeverBypassed`, `AcceptedGateMeansCompleted`
(`activeGateLoop`'s comment relies on it), `PromotedArtifactIsJournaled`, `CompletedRowIsKept`,
`ProjectionIsLatest`, `ResumeReadIsFresh`, `BudgetKnowsJournal`, `StepNeedsItsChildren`,
`NoUnitPassedOver`, `EngineWorkIsBounded`, `AllOrNothing`, `SavedIsKept`, `DecisionHasEvent`,
`InterruptedFinishesUnlessStuck`,
`TakenByRight`, `EndedEngineFreesRun`.

## 4. Fairness

`FairSpec`: every engine that has started and is not killed gets to run (`EngineStep`, weakly
fair). Units, judges and agents end by their timeouts, so a dispatch and a judgement return in the
end. An engine need not start. `RunLeaseExpires` is weakly fair: a lease that nobody renews runs out,
which is the passing of time; a lease under a running engine is renewed by its heartbeat and so is not
expired by this assumption unless its process may be suspended. Nothing is assumed of heartbeats,
crashes, aborts, resumes or abandons. `EngineStops` needs the first assumption, `EndedEngineFreesRun`
both.

`FairProposalSpec`: the process that holds the asset-mutation lease runs (`OpStep`), git and the index
do not fail for ever (`PublishGit`, `FinalizeIndex`, strongly fair: they get another chance with each
recovery), and somebody asks again and again for each proposal to be rejected. The last one is an
assumption about the user: recovery runs at the start of an operation on the same proposal and nowhere
else, so a journal that nobody asks about stays. Rejecting is the operation that recovers
everything a proposal can have open; accepting reads and validates first. Crashes and edits are
bounded; nothing is assumed of them or of the maintenance passes.
`InterruptedFinishesUnlessStuck` then says that every transaction ends, or one of the root is in one of
three states from which the code has no way out (`Diverged`, `HalfRestored`, `Overtaken`). The first is
intended: somebody else's content is never overwritten. The other two are findings.

`FairLockSpec`: processes that run make progress, sentinels get older, and akm is invoked again after
a crash with whatever PID is free (`Spawn`). The last one is an assumption about the user: a
sentinel that nobody ever runs into is not removed by anybody.

## 5. Theorems

All proofs are for every value of the constants that satisfies the module's `ASSUME`.

**Spine** (`WorkflowSpine_proofs`). `SpineTypeOK`, `SpineInOrder`,
`UnresolvedIsCurrent` and `CursorSplitsSpine` are only inductive together, as `SpineInv`. Completing
step s keeps the order because the transaction's check (`StatusMatchesSpine`) gives that everything
before s is not pending, and only `UnresolvedIsCurrent` turns "not pending" into "finished"; the new
cursor is then s itself or s + 1 (`AdvanceMovesByOne`), which is what keeps the other two. `SpineInv`
needs no assumption on resumes. `RunStatusMatchesSpine` does: a resume writes what it read earlier.
`ResumeInv` adds it together with `ResumeReadIsFresh`, and both are proved under `SingleResumer` (no
two resumes overlap); the run `resume_race` shows that the assumption cannot be dropped. Under it,
every step of the spine is a step of `RunLifecycle` or leaves it alone (`SpineImplementsLifecycle`):
the number of finished steps is the cursor minus one.

**Journal** (`UnitJournal_proofs`). `JournalInv` (types, only the latest attempt running, projection =
latest attempt) is inductive: the claim of a take-over reaches the row because the row's status is
the attempt's, and the compare-and-swap of a finish can only hit the latest attempt.
`FinishedAttemptsStay` follows. `JournalSpec` lets any engine reserve and finish whenever the
statements allow it, under a spine that moves by itself, so the results do not depend on what
engines do.

**Engines** (`WorkflowEngine_proofs`). Nothing is assumed here: engines are suspended past their
lease, killed, displaced and interrupted at every label, runs are abandoned under them, and resumes
overlap. `EngineInv` is the spine's and the journal's invariant, the locals of every engine by label
(`LocalInv`), `AcceptedGateMeansCompleted`, and two parts: that an engine with an accepted verdict at
`gateFinish` stands behind a step that is completed (`AcceptFollowsCommit`), which
`AcceptedGateMeansCompleted` needs, and that a completed row of a unit carries an artifact (`WorkRowsOK`).
The order verdict, transaction, gate row is what makes it inductive: once the transaction has completed
the step nothing makes it pending again, whichever engine, resume or abandon comes before the gate row.
`GatesAreNeverBypassed` follows from `LocalInv`: at
the commit of a gated step the verdict is not "none". Every action of an engine changes the journal by
`ReserveUnitAttempt` or `FinishUnitAttempt` or not at all, and the spine by one of its statements, so
`Spec` implements `JournalSpec` and `SpineSpec`, and all that was proved of these two holds of the
engines (`EngineAnswersAreFinal`, `EngineProjectionIsLatest`, `EnginesWalkInOrder`,
`EngineImplementsLifecycle`). The units and gates of the plan
are among the journal's units and their outcomes among its outcomes (`KeysAssumption`).

**Engines that keep their lease** (`WorkflowEngineCalm_proofs`). What the code promises only as long as
no process outlives its lease, nobody abandons a driven run and no two resumes overlap (`Calm`, a
hypothesis of each of these theorems; section 6 names the counterexample for each part dropped). Crashes,
interrupts, failing judges, resumed runs and any number of engines remain. `CalmInv` says what the
engine that holds the lease knows of the rows at each label (`Facts`): the claim of its unit and gate is
its own (`KnowsWork`, `KnowsGate`), the loops before its own are done (`KnowsPath`), the step it has read
is the cursor's or one behind it (`AtBehind`). It also says what a completed step has left in the journal
(`RowsKnow`): a loop with a good result and no rejection of it or after it. That last part is the one
that was hard to find. An engine reads the next step *before* it claims the lease, and the step
may be completed by then; only because the completed step has left a good loop behind does the late
engine find that loop, reuse it, and dispatch nothing. A step that tolerates failed units leaves no such
loop, so `DispatchedAtCurrentStep` asks that only the last step is tolerant; with another one
tolerant it is false (section 6). `CompletedRowsAreKept` and `PromotedArtifactsAreJournaled` are action
properties from the same invariant, `DispatchIsExclusive` follows since there is one lease.

**Fan-out** (`StepDispatch_proofs`). `DispatchInv` is the spine's types, `JournalInv`, a typed record
for every engine (`LocalInv`: budget, claims and units agree with each other) and `BudgetOK`. The
argument for the ceiling is about slots. An attempt row is made only by `ReserveUnitAttempt`, which
needs the lease, by a unit at "reserve"; such a unit has consumed a slot, and `used` never exceeds
`MaxUnits`. What is needed is that the lease holder's slots cover every row *anybody* made, which
`BudgetKnowsJournal` says: its seed counts all rows, and from then on nobody else can add one, because
reservation is fenced by the lease and a holder that lost it never gets it back (an invocation claims
it once). `DispatchImplementsJournal`: every step is a step of `JournalSpec` or leaves it alone, and the
journal's theorems hold of the fan-out.

**Children** (`ChildRun_proofs`). The same invariant with the child actions, and two more parts:
`OneChildPerUnit`, which is inductive because publication looks first, and the chain that
`StepNeedsItsChildren` hangs on: a child unit counts as succeeded only after its child was read as
completed, and a completed child stays completed (`WorkOK`); a row completed
for a unit was written from such a place (`RowTraced`), a success is never made up between the two
(`Traced`), and a step that is completed and not tolerant had all its units returned as ok
(`StepTraced`). That a completed child stays completed is true only if no two resumes of it overlap: one
that has read a stopped child must not be late. `StepsNeedTheirChildren` therefore has `SingleResumer` as a
hypothesis, and with two resumers TLC finds the counterexample (section 6). `NoUnitIsPassedOver` needs no
such thing: the verdict is carried with the locals it was made from until the step is completed. It says
that every unit came back with a result that is journaled, not that the run has stayed under its
ceilings (`CappedRunNeverPasses`, section 6).

**Proposals** (`ProposalTxn_proofs`). `ProposalInv` says for each label what the operation has in hand
(`OpOK`): what it has read (`ReadOK`) and which transaction it works on, of which kind and in which phase
(`TxnOK`). Two clauses relate it to all the other journals: `AloneOK`, that an accept or revert past
its recovery has no live transaction of its proposal beside its own, and `TodoOK`, that the live
journals during a recovery are exactly those still to do. `OneIrreversibleEver` follows: the code
refuses a proposal with two transactions past the commit point as ambiguous, and there never is one.
`DecisionStaysFinal` needs that the repair of a row, which writes back all of it, writes what it
read: for proposals out of the maintenance passes' reach nobody else writes the row in between.

Six more invariants stand on `ProposalInv` and on the ones before them, because a crash may
strike at any label and what it leaves has to be described for every phase of every journal, whoever
recovers it.

- `DecisionInv` relates journals to rows and events: the status of the row in each phase of an accept
  (`AcceptOK`) or revert (`RevertOK`), that a proposal has one file transaction at a time (`OneFileTxn`),
  and for each status who has announced it or is about to (`EventsOK`). The persisted row and the
  next phase are two writes, so in phase `asset-published` the row may be either; that the
  event is keyed by the transaction makes its repetition harmless.
  That a maintenance pass can archive the row in the middle is in here: such a row is "rejected" in a phase
  before `proposal-persisted`, where the invariant allows it.
- `RejectInv` does the same for rejections. A rejection that has been announced, or is past its archiving, has
  its row rejected, and no other transaction of the proposal is in that position (`RejectTxnOK`,
  `RejectOpOK`); a rejected row that the maintenance passes cannot have made has such a transaction. Together
  with `DecisionInv` this is `DecisionsAreAnnounced`: at rest each decision that the row records has one
  transaction's event, and nothing else has one. An archived proposal within the passes' reach may be without.
- `FileInv` says what can be in place of the asset and what moved aside at each label (`FileOpOK`,
  `DisplacedOK`), that a proposal's content in place is accepted or belongs to an unfinished accept
  (`ContentKnown`), and, as long as the user has not touched the file, that accepted content is
  in place (`Untouched`). `ProposalsAreAllOrNothing` follows. The user may save at any label, so every
  clause of `FileOpOK` allows an edit where the code compares again before it acts, and none where it
  does not.
- `SavedInv` says where the user's last content is. A rollback deletes its journal with the backup in it,
  so before it does (`scrub`, `remove`) the content must be kept by something else: in place,
  by another transaction, or by a row (`KeptWithout`). On the way forward it is the row's backup
  that takes over from the journal's, which `DecisionInv` says. A rename that meets a save is
  excepted (`Unprotected`, section 6). `SavedContentIsKept` follows.
- `ReachInv` bounds the finding `overtaken` (section 6): a proposal that the maintenance passes do not reach is
  never rejected under an acceptance or a reversal that is under way, and while it is being
  rejected nothing else of it is (`NotOvertaken`). Why that is so depends on the order in which an
  operation clears the others away: an acceptance finishes rejections before it reads the row, a rejection
  recovers file transactions and then finishes other rejections, and a reversal looks at no rejection but
  requires the status "accepted", which no proposal under a rejection has (`Cleared`, `Recovered`).
  `RefusedOnlyInReach` follows: no transaction is refused its row by other operations, recoveries, repairs,
  crashes or edits, but only by the passes that take no lease; without them (`NeverRefusedUnreached`) the
  property that the run `overtaken` refutes is a theorem.
- `WorkInv` (only finitely many transactions have been begun, an idle operation has nothing left over) is
  what bounds the work of an operation; see "Bounded work".

**Lock** (`FileLock_proofs`). `LockInv` says who may be writing, that ownership tokens differ, what a
probe knows of the sentinel it read, and that a reclaim is directed at a dead process's sentinel, an
unwritten one, or one past the bound. The clause that makes it work is `ReclaimsTheDead`: the probe
reads without the mutex, so its verdict is about a *token*, and no running process owns that
token, even if the PID is in use again. It holds with and without an age bound, and so does
`SentinelTakenByRight`. `HoldersKeepTheirSentinel` and `LockIsExclusive` are proved for
`AgeBound = FALSE`; with the barrier's bound they are false by design (a holder past five minutes
may lose it), which is why `TakenByRight` is stated as an action property. `LockIsMutex`: without
an age bound every step is a step of `Mutex` or leaves it alone. A process is inside (`Holding`) from the
writing of its sentinel to its release or death; that a writer finds nobody inside is where exclusion,
the mutex around the write and the holders' sentinels meet.

**Bounded work.** Liveness is out of the prover's reach, but what makes it true is not: under fairness
something ends because every one of its steps leaves it less to do and nobody gives it more. That part
speaks about steps only, and is proved for each component, with a measure and under no assumption
on the others.

- *Engines.* `EngineWorkBounded` (with `EngineWorkIsBounded`, which `engineB` checks): a step of an engine
  finishes a step of the plan for good or lowers what the engine has left (`Left`), and no
  other process raises it. What is left is the gate loops, then the labels of the loop with
  its retries. The clause about finished steps is needed since the walk goes back to the start of the
  cycle for every step of the plan, and sound since `FinishedStepsStay` holds of the engines. `WorkEnds` says
  that the measure has no infinite descent. `EndedEngineStaysOff`: an engine that has ended without the lease
  never holds it again, so that `EndedEngineFreesRun` is left with one expiry.
- *Fan-out.* `InvocationWorkBounded`: whatever an invocation does with its units and children finishes a
  step for good, gets it to a later stage, claims a unit nobody had claimed, or gets one unit further while
  the others stay (`UnitAdvances`; a retry goes back to the start of the unit but costs one of `MaxRetry`).
  Being told to stop is the only other change, and happens once. The journal gives `FinishedStepIsFinal`
  (`ChildImplementsJournal`). `PoolsNeverStall` is the other half: no unit in flight waits for another one, for
  a worker or for whoever else drives its child, and with none in flight a worker can claim or the step is over. It
  writes out the guards that ENABLED stands for in `InvocationNeverStuck`; its invariant (`ChildrenOut`) is that
  only a child unit is ever with a child, and that child has been published.
- *Proposals.* `OperationWorkBounded`: every step of an operation, and its crash, lowers the triple of
  stages, journals left to recover and labels of the stage; edits and maintenance passes leave it alone.
  Recovery is a loop over other transactions inside an operation, each rolled back or forward over many
  labels of its own; a transaction that has been dealt with leaves `todo` and nothing comes back into it.
- *Lock.* `LockCallBounded`: a call of the lock that has begun only gets on. The one step back, from a
  reclaim to another attempt, is taken once by the barrier, which counts its attempts. (The asset-mutation
  lease does not count, `index-writer-lock.ts:93`; each of its further attempts is a call of its own here.)

Only model-checked, because the prover does not reach them: liveness (`EngineStops`,
`EndedEngineFreesRun`, `LeftSentinelGoes`, `InterruptedFinishesUnlessStuck`) and `InvocationNeverStuck`,
which is stated with ENABLED. Beyond the bounded work, they need that a step is possible until the end
(`InvocationNeverStuck` says that directly, `PoolsNeverStall` by its guards) and the fairness of section 4. Every other invariant and
action property of a passing run is stated by a theorem.

## 6. Where the code and its own statements part

Each is a run that ends in a counterexample (`PROJECT.json`, "findings").

- `resume_race`: `resumeWorkflowRun` decides on a read outside its transaction and `markRunActive`
  has no condition on the status. Two overlapping resumes can turn a completed run into an active one
  without a current step, which every command then refuses as corrupt. A child run is a run: the same race
  makes a child active again whose parent has long counted its unit as completed (`StepNeedsItsChildren`
  in `MCDispatch` with two resumers and the constants of `MCDispatch.cfg`).
- `overtaken`: expiry and orphan purge archive a pending proposal without the asset-mutation lease. If
  that happens between the publication of the asset and the update of the row, the row is rejected while the
  asset is published, and finishing the transaction is refused from then on. No crash is needed. The purge can
  be misled by the transaction itself, which moves the asset aside for a moment.
- `half_restored`: a crash in a rollback between the link that restores the asset and the removal of the
  file moved aside makes every later rollback refuse ("is occupied"), although `fs-txn.ts:100` asks
  for it to be idempotent.
- `spurious_ceiling`: a resumed engine counts the attempt its predecessor left running in its seed, and
  takes a second slot for it when it takes that attempt over. With `max_units` equal to the number
  of units, a run that was interrupted with a unit in flight fails with "budget exceeded" for good.

Five more are reached by the models of this project without a run of their own. Each can be seen by
checking the module with the constants and the property named: the first with `MCDispatch`, the others with
`MCEngine`, two engines and one resumer.

- A token ceiling crossed by the last unit's answer fails the step. After a resume every unit is reused,
  nothing is dispatched, the ceiling is never looked at and the step passes, although
  `native-executor.ts:685-687` says that "a capped run must never quietly pass its gate".
  `CappedRunNeverPasses` with the constants of `MCSpurious.cfg` but `MaxTokens = 1`.

- The journal is read once before the dispatch (`native-executor.ts:605`). A late answer journaled
  between that read and the reservation is erased by attempt 2 and the unit is dispatched again, although
  `native-executor.ts:600-603` says a resume must never do so; the comment on
  `reserveUnitAttempt` is more modest (at least once). `CompletedRowIsKept` with `NSteps = 1`, a gate,
  `MaxLoops = 1`, `MaxRetry = 0`, `MaySuspend` and `MayAbandon` TRUE.
- An engine whose `finishUnitAttempt` loses its compare-and-swap warns and goes on with its own answer; it
  can complete the step with an artifact that is not in the journal. `PromotedArtifactIsJournaled`
  with `NSteps = 1`, no gate, `MaySuspend` TRUE.
- The step is read before the lease is acquired and not read again after it (`run-workflow.ts:266`).
  `DispatchAtCurrentStep` with `NSteps = 2`, no gate, the first step tolerant, `MaySuspend` and
  `MayAbandon` FALSE. (`engineB` does not show it, because its first step is not tolerant: it is
  completed only with its unit's result in the journal, which the late engine reuses.)
- `getNextWorkflowStep` reads the run row and the step rows without a transaction (`runs.ts:492`); a
  commit between the two looks like a corrupt spine. The label "corrupt" of an engine is reached with
  one gated step, neither suspension nor abandon.

Smaller observations from the models, each a state that some run reaches and no property forbids:

- Proposals. If another proposal of the same asset is accepted while a prepared journal of the first one
  remains, the first is diverged for good. One stuck journal blocks the recovery of the others in its
  root that come after it. The repair in `promoteProposalWithLease` writes the row back as it read it
  (`repository.ts:2258`), and may turn a proposal that expired meanwhile pending again, which is why
  `DecisionIsFinal` leaves `Exposed` proposals out. A save in the instant between the comparison and
  the unlink or rename of a rollback can be lost (`Unprotected`). If the user deletes the
  file after a crash, a rollback may bring the old content back.
- Budget. A refused reservation or a failed worktree consumes a slot without a row, so that a resume has
  more slots than the run it resumes. Tokens journaled late by a displaced engine are not in its
  successor's count.
- Children. After a crash the child's lease may outlive the parent's; the next engine then finds the child
  busy and fails the step, which another resume mends.

Seen and not modelled: the comment at `runs.ts:747-752` says that a declared output that cannot be
resolved throws and rolls back; `resolveWorkflowRunOutputs` returns its errors and the code warns.

## 7. Left out of the modelled components

*Engine and steps:* route replay and skipped steps (`skipped` is allowed as an outcome of a completion in
the spine, the engine never chooses it), live evidence, replay divergence, the lifetime cap on units, what the
preparation of environments and worktrees does, declared outputs, check-ins, events appended after a
commit, creation of runs with the one-active-run guard. Gates and fan-out are in two modules: a step
with several units *and* a gate is in neither. `StepDispatch` leaves out abandon, which is
`WorkflowEngine`'s. `reserveUnitAttempt` has a second mode without a lease holder that no caller
uses. `acquireRunLease` also runs under the maintenance barrier; that composition is not modelled.

*Scheduler:* the write queue inside one process (each write is atomic in the models).

*Children:* the child's own steps, nesting and its depth limit, parameters and outputs, the refresh of a
parent after its child was resumed.

*Proposals:* creation with fingerprints and backoff, drain, bundles of several assets, the inside of the
git publication, the event of an expiry, failing writes other than those of git, index and the staged
file. The sweep of transaction directories without a journal races with nobody, because every owner
holds the lease. `recoverTxnsForRoot`, the general recovery of `fs-txn.ts`, is called by tests only.

*Lock and barrier:* the reentrant async context, its polling and the activity files. For reclaim: the
branch that restores a quarantined sentinel that is not the probed one, which needs a writer that
does not take the operation mutex.

*By size*, most of the repository is not concurrent code: indexing, ranking, prompts for LLMs, parsers,
renderers, importers and the command line. They are sequential translations whose correctness is
about text and not about states, and a state machine would say less about them than their tests do.

Parts that are not modelled at all are listed in `PROJECT.json` with the reason.

## 8. Plan

Done, in this order: the durable rows, the engines on top of them, the file lock, the fan-out with its
budget, child workflows, proposals as transactions; then the proofs, of which every safety property of the
runs now has one. Left:

1. `RunCreation`: several runs per scope, start guard against resume.
2. `Migrations` and `TaskAttempts`.

## 9. Running it

```
tlc -workers 2 -config MCSpine.cfg MCSpine      # and the other cfg files, see PROJECT.json
tlapm WorkflowSpine_proofs.tla                  # and the other *_proofs modules
```

Mutants (`Mutant...` definitions beside what they change) are plausible bugs; for each checked
property one of them, put in the place of the definition it changes, makes its run fail.
