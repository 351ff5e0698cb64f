# A TLA+ model of WorkAgent

WorkAgent is a coding agent in TypeScript: a loop that asks a model for tool
calls, runs them under policy, plan and verification gates, and keeps every
state change as a durable fact in a journal so that a session can be resumed.
This directory holds TLA+ modules for its state and protocols, TLC
configurations that check them on small instances, and TLAPS proofs for
instances of any size.  Paths below are relative to the repository root
(`src/` here).

## 1. Inventory

| Part | State | Operations | What makes it correct |
|---|---|---|---|
| **Reducer** `src/core/state.ts` | `AgentState`: messages, pending calls, results, mode, plan, tasks, recovery flags, budget, workspace obligation, verdict, reflections, strategy, calibration | `reduceDurableFact`, one case per fact; `createSnapshot`, `restoreFromSnapshot` | every case keeps the state restorable; a verdict never outlives the workspace it judged; obligations are not lost; a call settles once |
| **Engine** `src/core/AgentEngine.ts`, `LoopIntelligence.ts` | the turn, `iteration`, gates, abort signal, retries | preflight, supervision, context, model request with retries, batch, reflections, replan detection, completion gate, verification, termination | budgets hold; live state and replay agree; every turn ends |
| **Plans** `src/planning/PlanStore.ts`, `planTools.ts`, `ReplanDetector.ts` | versions and statuses, `lastApprovedRef` | `createVersion`, approval, supersession, repair, restore | one current approved version, also after a restart |
| **Tasks** `src/planning/TaskStore.ts`, `taskTools.ts` | status, criteria, plan binding | create, update, block on replan, migrate on repair | no unfinished task of a retired plan is worked on silently |
| **Supervisor and lanes** `src/planning/PlanSupervisor.ts`, `ToolExecutionLane.ts` | none | choose the next action, keep only the tools of its lane | work stops while a replan is open, and the replan can be ended |
| **Calibration** `src/planning/OutcomeCalibration*.ts` | a selection pinned in the journal | scan the journals of other sessions, profile, pin, shift the window of reflections | a resumed session reads what it pinned; history is past and can be audited |
| **Completion gate** `src/planning/completionGate.ts` | none | compares the obligation and the criteria with evidence receipts | an unverified mutation is reported |
| **Journal** `src/session/SessionJournal.ts` | `nextSeq`, queue, `draining`, file | `append` (buffered or flush), `flushLoop`, `drain`, `adopt` | acknowledged lines are durable and in order; every append settles |
| **Loader and recovery** `src/session/SessionLoader.ts`, `recoveryCheck.ts`, `src/app/createRuntime.ts` | none | line integrity, the loader's replay, dry replay, snapshot and tail, recovery facts, forks | resume yields the state the facts describe, or refuses; no call stays open |
| **Context** `src/context/ContextManager.ts` | circuit breaker | protected tail, micro and full compaction | the goal and the notes of the engine survive; calls keep their results |
| **Tool runtime** `src/tools/ToolRuntime.ts`, `ToolScheduler.ts`, `IdempotencyLedger.ts`, `ToolRegistry.ts` | the ledger, the running calls | gates, barriers between conflicting calls, idempotency, write-ahead facts, execution | parallel calls are serialisable; an effect is not repeated blindly; its fact precedes it |
| **Built-in tools** `src/tools/builtin/` | the workspace | Write, Edit, ApplyPatch, Shell, reads, assertions | a patch is all or nothing |
| **Policy** `src/policy/`, prompt `src/cli/prompts.ts` | session rules | the ordered permission decision, the user's answer | no effect without consent |
| **Verification** `src/verification/` | receipts, workspace revision | capture evidence, judge freshness, validate the verifier's report | only fresh receipts count; a PASS is backed for every criterion |
| **Model clients** `src/model/` | none | retry policy, call identifiers, stream parsing | retries are bounded |
| **Retrieval, code intelligence, prompt, observability, evaluation, session index, security, workspace keys** | caches | see `PROJECT.json` | text, ranking and reports |

*Interaction.*  The CLI's `runTurn` feeds the prompt to the engine.  The engine
yields durable facts; each is reduced and appended to the journal.  Tools reach
the plan and task stores directly and return the facts that describe what they
did, so stores and state change together but are persisted as facts only.  Two
closure variables of `createRuntime` (`replanApprovalPending`,
`localPlanRepairPending`) carry the engine's gates into the tool runtime; they
are synced at the top of an iteration.  On resume the loader reads the journal,
the reducer replays it and the stores are rebuilt from plan and task facts.  At
boot a session scans the journals of its neighbours.

*Hard behaviours.*  Gates synced at one moment and read at another; flags set
and cleared by several facts; what survives a restart and what lives only in
memory; facts persisted in one function and reduced in another; a failed write
in the middle of a session; calls that run side by side and ask the user; a
compaction that is replayed from its fact alone; retries, reflections, repairs
and replans that together have to end a turn.  `PROJECT.json` lists them under
`hazards`, each at its line.

## 2. Modules

    Reducer ──── AgentStateMachine ──── MCAgentStateMachine     (TLC)
       │  │               └──────────── AgentStateProofs        (TLAPS)
       │  └───── ReducerProofs          the lemmas of the three ...Proofs here
       ├──────── ReplanProtocol ─────── MCReplanProtocol        (TLC)
       │                  └──────────── ReplanProtocolProofs    (TLAPS)
       └──────── SideEffects ────────── MCSideEffects           (TLC)
                          └──────────── SideEffectsProofs       (TLAPS)
    Verdict ──── EngineLoop ─────────── MCEngineLoop            (TLC)
                          └──────────── EngineLoopProofs        (TLAPS)
    DurableLog ◁─ SessionJournal ────── MCSessionJournal        (TLC, refinement)
                          └──────────── JournalProofs           (TLAPS, refinement)
    ToolBatch ───────────────────────── MCToolBatch             (TLC)
                          └──────────── ToolBatchProofs         (TLAPS)
    Conversation ────────────────────── MCConversation          (TLC)
                          └──────────── ConversationProofs      (TLAPS)
    Calibration ─────────────────────── MCCalibration           (TLC)
                          └──────────── JournalProofs           (TLAPS)

**Reducer** translates `state.ts`: one operator per fact, from `AgentState` to
`AgentState`.  A case that throws has its condition in an operator named
`...Refused` (`...Accepts` for the validation of `restoreFromSnapshot`).  A tool
result is reduced to its success, its conflict flag and its position in the
insertion order of `toolResults`; a plan version is an opaque value.  Messages,
reflections and calibration facts are reduced in the modules about them.  The
facts of several calls or tasks that follow each other in one step are one
operator that says what they come to (`ToolCallsAccepted`, `CallsInterrupted`,
`TasksChanged`); the order in which they are taken shows only in the positions
of the results.

**AgentStateMachine** offers the reducer every sequence of facts it accepts,
with arbitrary content.  This is deliberately weaker than what the engine
emits: a journal is read from disk, and an invariant that holds here holds for
whatever order facts come in.  Three history variables record what the facts
amount to (`verdictAt`, `owedSources`, `owedPaths`).

**ReplanProtocol** composes the reducer with the engine loop, the plan store,
the plan and task tools, the supervisor's lanes and the two runtime gates.  `pc`
is the point of the loop: `idle` (between turns), `loop` (top of an iteration),
`batch` (calls running), `detect` (after a batch), `complete` (the model asked
for no tool), `failed` (the turn threw).  `frozen` is the projection the batch
was asked under, the lane of the supervisor included; `planLog` holds the
journal's plan facts, from which `Restart` rebuilds the store.  Actions
correspond to `runTurn` (StartTurn), the head of the loop with gate sync and the
model's answer (BeginIteration), `checkPreflight` (StopTurn), `applyReplan`
(ApplyReplan), the completion gate and verifier (RetryCompletion, FinishTurn,
PassVerification, RepairVerification, RejectVerification), and one action per
tool.  Calls of a batch run one at a time: every tool modelled here with an
effect is exclusive in the scheduler.

**SideEffects** composes the reducer with `ToolRuntime.executeOne`, the
idempotency ledger, the scheduler's buffer, the evidence store, the completion
gate's evidence rule, failed turns of the CLI and `resumeState`.  `pc` follows
one call: `guard` (validation to the ledger lookup), `cleared` (it may run),
`running` (the ledger record is flushed), `started` (the mutation fact is
flushed), `executed`; after the last call of the batch `emit` reduces the
buffered facts.  The state is kept twice, `state` as the engine reduces it and
`durable` as a replay of the journal gives it, because mutation facts reach the
journal ahead of the buffered facts of earlier calls.  History variables record
what tools did (`applied`, `spawned`) and what is still to be verified (`owed`,
`unverified`); `strayed` marks a process in which a turn has thrown.

**EngineLoop** is the whole loop of `AgentEngine.run` around one model request:
preflight, supervision with the evaluation of reflections and the strategy,
context preparation with its circuit breaker, `collectModelTurn` with its
attempts and backoff, the reactive compaction, the batch, stagnation, periodic,
completion, verification and replan reflections, the stop hook, the verifier and
the end; around it `runTurn`, the abort signal and a crash with its resume.  The
effect of the facts is kept three times: `live`, `journal` (what replaying every
appended fact gives) and `disk` (the durable ones).  A flushed fact makes
everything before it durable, a buffered one waits for `Drain`.  `local` holds
the two recovery fields that no fact carries.  What tools, model, gate and
detector find is chosen freely.

**Verdict** is `validateReport` with the evidence rule of `criteriaEvidence.ts`.
A report is any record the verifier's model may write; receipts are the store
the runtime signed.  EngineLoop's verifier chooses a report, sends an invalid
one back once and then settles for PARTIAL (`VerifierRunner.run`).

**Conversation** has the message list: human messages, notes the engine injects,
model turns with their calls, results, micro and full compaction
(`ContextManager`), the facts that carry all of it, snapshots, and after a crash
the loader's own replay, the dry replay and the recovery facts of `resumeState`,
appended one by one, so that recovery can crash as well.

**ToolBatch** is one batch: `ToolScheduler` with its resource claims and
barriers, the gates of every call in order (schema, plan mode, write lock, lane,
policy), readline's single question, reads and writes file by file,
`ApplyPatch` with backups and rollback, aborts, and the order in which results
are journalled.  The content of a file is the index of the call that wrote it.

**Calibration** has several sessions of a workspace: boot (scan, profile,
`run.started`, pin), open, run, record and evaluate reflections, snapshot, stop
at any step, resume with calibration on or off, damage on disk, and the fork of
a damaged session into a degraded branch.

**SessionJournal** models the journal between two awaits per action, with
failing and partial writes, crashes that leave a torn line, and the loader's
integrity check with strict resume.  **DurableLog** is what it promises: a log
whose acknowledged prefix is never lost; a write error ends the promise.

### Abstractions

- `ReplanProtocol`: the approval policy only removes tools and is covered by
  letting the model call any tool of the projection.  A stored plan is handed to
  facts by reference; a status changed later in the same batch, before the fact
  is serialised, is not modelled.  A restart happens between turns, when the
  journal has been drained.  After a failed turn only leaving or restarting is
  modelled.  An approval token is issued and consumed in one step.
- `SideEffects`: a file is its content, a receipt is what it binds, and an
  ApplyPatch is not distinguished from an Edit.  A receipt of an earlier run is
  never a candidate of the gate and is not kept across a resume.  Ledger
  changes and their flush are one step (the file is replaced atomically).
  Facts appended as `buffered` are taken as written; `SessionJournal` and
  `EngineLoop` have the window in which they are not, and mutation facts, the
  ones the properties rest on, are flushed.  A turn throws only while facts are
  reduced.
- Edit's probe takes a record without a proof for an operation that was not
  applied, also when the crash came after the rename.  The repeated Edit then
  fails with a version conflict: `EffectNotRepeated` holds because of the
  version check, not because of the probe.
- `EngineLoop`: a batch is its number of calls and whether it made progress,
  changed the workspace or failed; the wall clock may run out at any preflight.
  `sent` counts the requests a process remembers: one that an abort or a crash
  cut off is in no count.  A `maxReplans` of 2 and a snapshot interval of 3
  stand for the configured values.
- `Conversation`: a message is an identifier, a kind, the calls it is about and
  a size of one or `Big`; a crash leaves any prefix of the facts that holds every
  flushed one.
- `ToolBatch`: a command is the class of its head and arguments, a path is
  inside, protected or escaping.  Tokenising and path resolution are not
  modelled.
- `Calibration`: a hash stands for what it hashes; a scan reads the journals in
  one step, each source with how far it was read.
- Thresholds are constants; the runs give them small values so that each cause
  fires within a few calls.

## 3. Runs

| Run | Instance | What it shows |
|---|---|---|
| `AgentState` | two calls, two mutations of one path, two plan versions, a task, two modes; one group of facts at a time (`OneGroup`) with verdicts and terminal facts | types; every reachable state survives a snapshot and restore; verdicts are current; obligations are complete; the reapproval flag never outlives the request; a call settles once, also when its identifier is re-issued |
| `Replan_gate` | one plan id with three versions, one task, two paths, supervision on, two prompts, one restart | gates never lag behind the state inside a batch; the approved version is never a superseded one; tasks of retired versions stay retired; the first high-impact replan locks writes until approval; a supervised run does not write while a replan is open, and always has the tools that end it |
| `Journal` | five lines, one failed batch, two crashes, fairness | the journal with its loader implements `DurableLog`; strict resume never skips an acknowledged line; every append settles |
| `SideEffects_pipeline` | Write, Edit, Shell and FileAssert on one file, two calls (in one batch or two, identifiers re-issued), two turns, two faults | every effect is owed in what a replay gives, whenever a crash comes; live state and replay agree between batches; the two revision counters agree; a completed run is verified; a Shell invocation starts once and a standing effect is not repeated |
| `EngineLoop_budgets` | two turns, one crash, four iterations, four model calls, two tool calls, ten receipts, reports of up to two checks | requests never exceed the budget; a crash forgets one request at most; journal and live state agree; one reflection at a time; a PASS is backed; every turn ends |
| `Conversation_recovery` | two calls in two batches, two human messages or notes, two compactions, a snapshot, two crashes (at most three of the last kinds together) | every call has exactly one answer before the next request; replay is never refused; snapshot and tail, full replay and the live state agree; so do the loader and the reducer; goal and notes are kept |
| `ToolBatch` | pairs of calls of every kind under every mode, rule set, lane and lock; triples of readers and writers on two files; two faults | parallel calls are serialisable; a patch is all or nothing unless restoring fails too; no effect without consent; every batch settles |
| `Calibration` | three sessions, three boots, three reflections, one snapshot, one fault, a clock of two values (`FewEvents` bounds their sum) | a session can be resumed after a stop at any step; a running session is the replay of its journal; what it learned is older than it is and can still be found in its sources |

*Why the bounds are enough.*  The reducer compares identifiers only for
equality, so two of a kind show every interaction of a fact with "the same" and
"another" one (this is also why symmetry is sound there); the proofs remove the
bound.  The groups of facts of `AgentState` share no field but the ones all
groups have.  In `Replan_gate` a version, its successor and one restart are what
each property is about; `MaxModelCalls` admits an approval, a replan, and a
batch after it.  Five lines give the journal two batches with a queue behind
each, and every position of a failure or a crash in them.  In
`SideEffects_pipeline` each property is about an effect and what follows it, so
two calls show it; two faults put a crash, a failed turn or a foreign edit at
every pair of positions around them.  Four model calls give the loop a request
with a retry, its answer and another round, in two turns; the receipts each lack
one thing that makes a receipt count.  Two results before the protected tail,
and one compaction on top of another, are what can go wrong in a conversation;
two crashes put the second one inside the recovery of the first.  Batches of
three put a call between two others it conflicts with.  Three sessions give a
source, a session that learns from it, and one that learns from both.

*Fairness.*  `Journal`: weak fairness of the pending write (it completes or
fails) and of `FinishDrain`; the Node event loop completes pending I/O and runs
queued microtasks; nothing is assumed about callers.  `EngineLoop_budgets`: weak
fairness of the engine's own next step: the model, the tools, the verifier and
the file system answer, sleeps end.  Nothing is assumed of the user, of aborts,
of crashes or of when buffered lines are written.  `ToolBatch`: weak fairness of
the batch, with the user's answer to the question on the screen as one of its
steps.

*Deadlock* is checked in `AgentState`, `Replan_gate`, `Journal` and the side
effect runs, where `Quit` and `Rest` are the places at which the system may
stop.  The other systems stop when their bounded turns, batches or boots are
over (`CHECK_DEADLOCK FALSE`); that turns and
batches do not stop earlier is what `EveryTurnEnds` and `BatchSettles` say (a
batch with two open questions excepted, see below).

### Runs that show a disagreement

| Run | What TLC finds |
|---|---|
| `Replan_reapproval` | Without supervision, a second, low-impact replan overwrites an open reapproval and, with no approved plan left to repair, closes it at once: the write tools open without approval, against README.md:28. |
| `SideEffects_failure` | A turn throws after a Shell command ran; the CLI keeps the state from before the turn, the next turn finds no obligation and ends as completed with nothing verified, against README.md:58-59. |
| `Conversation_pairs` | Micro compaction shortens two old results where they stand; its fact puts both where the first one stood, so the second result is sent before the call it answers, against test/engine.test.ts:51. |
| `Calibration_fork` | A damaged session with a pinned selection is forked: the branch pins another selection, the recovered state holds the old one, and the boot fails, against cli/main.ts:184. |

`FirstReplanLocksWrites`, `CompletedIsVerified`, `EveryCallAnswered` and
`ResumeAccepted` state what does hold next to them.

### Divergences met without a run of their own

- A failed batch consumes sequence numbers; later lines are acknowledged behind
  a gap at which the loader stops (`SessionJournal.ts:129`).
  `ResumeNeverSkips` holds because resume then refuses.
- Two `PlanRepair` calls in a batch: the gate is synced once per iteration, the
  second passes and its fact makes the reducer throw (`createRuntime.ts:413`).
- `markApproved` leaves an older approved version approved; after a replan
  retires the newer one, a restart makes the older one current.  Drafts that
  `createVersion` superseded are drafts again after a restart.
- readline holds one question (`cli/prompts.ts:123`): a second call that asks
  while the first is open is never answered and its batch hangs.  Calls whose
  tool asks are exclusive, but an ask rule for a read-only tool lets two
  concurrent calls ask; the instance has such batches, and `BatchSettles` says
  that every batch settles except one in which two calls ask at once (`TwoAsk`).
- When restoring a patch fails, the `InvariantError` of `ApplyPatchTool.ts:236`
  ends in the generic catch of `ToolRuntime.executeOne` and becomes an ordinary
  failed result.
- With a gateway that sends no call identifiers (`openaiCompatible.ts:202`) a
  crash after a re-issued `call_<n>` request leaves it unanswered: the loader
  takes it for the completed one.  `EveryCallAnswered` fails with
  `Reissue = TRUE`; the runs use fresh identifiers.
- A journal that is damaged in its first line is forked without the plan mode
  and branch facts (`cli/main.ts:482`); a branch does not carry the history of
  its source, and with calibration off its snapshot holds a selection the branch
  never pinned.
- `stopHookRetries` and `promptOverflowRecovered` live only in snapshots, and
  the circuit breaker of the context manager is restored closed by every resume.
- The verifier takes the set of stale receipts once, before it runs.

## 4. Proofs

**`AgentStateProofs`** proves, for any sets of calls, mutations, paths, plans and
tasks and any bounds, that every state of `AgentStateMachine` satisfies

    InductiveInvariant == TypeOK /\ VerificationInv
                          /\ AwaitingImpliesReplanning /\ CallsSettleOnce

`SnapshotRestorable`, `VerdictIsCurrent` and `ObligationCoversMutations` are not
inductive one by one: that a change marks the right source needs the
obligation's revision to be the workspace's, that a verdict is current needs the
verdict and the repair to exclude each other, and a clean end has to clear
history and obligation together.  `VerificationInv` joins them.  The argument
goes in three layers: typing lemmas (each reducer operator maps `AgentState` to
`AgentState`), effect and frame lemmas (what an operator does to the fields of a
part of the invariant), and step lemmas, one per group of facts, one case per
action.  Assumptions: `SessionModesAreModes`, `CallsAreFinite`,
`BoundsAreNaturals`, and `NoneIsAbsent` (the absent value is none of the values
it stands beside).

**`EngineLoopProofs`** proves two things for any evidence store, plan, set of
reports and bounds.  First, that `validateReport` lets no PASS through that
lacks evidence for a required criterion (`ValidPassIsBacked`: a covered
criterion has a check, the check a usable receipt, the receipts that back the
criterion one of its kind, and that one is in the store).  Second, the
accounting of model requests.  `BudgetHolds` alone is not inductive: how many
requests were sent follows from what the journal counts, what the journal counts
from the live state and the attempts of the request in flight, and what a crash
leaves from how far the disk lags behind.  `LoopInv` says all of it:

    journal = live with modelCalls + attempt (and its own iteration)
    sent    = journal.modelCalls, one more while a request streams, within budget
    disk    = journal.modelCalls, at most one less from an answer to the next flush

and that the three states are well-typed with at most one open reflection.  Each
operation on facts is shown to grow a sound state into a sound one (the
`...Grows` lemmas), each way of persisting facts to keep the accounting
(`FlushedKeeps`, `PersistedKeeps`, `AbortKeeps`), and then each action.
Assumptions: `VerdictAssumption`, `ReportsAssumption`, `LoopBoundsAreNaturals`.

**`JournalProofs`** is about two modules.  Of one session's journal it proves that
it implements `DurableLog`, and
that strict resume never skips a line.  The second needs only that an
acknowledged line is in the file (`AckedOnDisk`), and holds after failed writes
too.  The first needs

    JournalInv == failures = 0 =>
        while a process runs, file, batch and queue carry the numbers 1, 2, ...
            without a gap and nextSeq is the next one          (Numbered)
        nothing is queued or in a batch when no flush loop runs
        every acknowledged line is in the part the loader reads

because the loader stops at the first number that is not the expected one: only
a journal without gaps reads back as what was accepted.  One lemma per action
says what it does to the promised log (`AppendMaps`, `WriteMaps`, `FinishMaps`,
`ResumeMaps`, `CrashMaps`): an append accepts, a write acknowledges or changes
nothing, a crash cuts behind what was in the file, the others stutter, and a
failed write is the `WriteError` of the abstract log.  The existence of a
longest readable prefix comes from the well foundedness of the naturals.
Assumptions: `TornIsNoLine`, `BoundsAreNaturals`.

Of the sessions that learn from each other it proves, for any sessions, triggers
and actions and any number of boots, crashes, damaged lines and forks, the
invariant `CalibrationInv`.  With `At(log, i)` the replay of the first `i` facts,
it says of each session:

    Dated      facts are in the order of their times, none later than now
    Faithful   no prefix of an ordinary journal (neither damaged nor of a branch) is
               refused, a reflection has its position for its id, and a snapshot
               holds At of the facts before it
    BootFits   a boot has loaded a prefix of its journal, has chosen what is pinned
               in it or found nothing pinned, and the facts it has added since give
               just that choice
    LiveFits   a running session's state is At of its whole journal
    Learned    what is chosen or pinned passes the check of selections, has one
               entry for a trigger and an action, and its cutoff is not after the
               session's first fact; each source is another session whose journal,
               while intact, has the facts that were read, none of them later than
               the cutoff, with just the samples that were counted

None of the four properties is inductive alone.  A journal is accepted because
each reflection was calibrated by the selection the journal has pinned, which
needs the live state to be the replay; the live state is the replay because a
resume starts from a snapshot that was one, and because what the boot chose is
what it then pinned; and what it chose is unchanged under the other sessions'
steps because journals only grow, a journal with samples gets no branch fact, and
a damaged one is excepted.  `LearnsFromThePast` needs that an outcome is recorded
once (`Replayed`): otherwise a later evaluation could carry the id of one that was
read.  That a selection built from any scan passes the check of selections
(`SelectionBuilt`) takes the sums over entries and over sources to the number of
samples (`Counts`, by induction on the size of a set).  The recursive functions
`ReplayFrom`, `Lifecycle` and `Before` are unfolded by the same inductions as in
`ConversationProofs`; `BeforeIs` shows that passing over the facts after the cutoff
leaves the prefix up to `Through`, since facts are in the order of their times.
Assumptions: `SessionsAssumption`, `ConfigAssumption`, and for the types
`BoundsAssumption`.

**`ToolBatchProofs`** is about a batch of any calls on any files.  That a call
sees what the calls before it left behind is not inductive; `BatchInv` adds why:

    Scheduled     running calls are an interval behind which all is done, and no
                  two of them clash
    Confined      a call touches its own files, after the gates admitted it
    Accounted     what a patch has written at each of its steps
    FilesLatest   a file holds the last call that wrote it

A step of one call changes a file that no other running call claims, so what the
others saw stays what they ought to see.  Assumptions: `PathAssumption`,
`FaultsAssumption`, `IndexAssumption`, `ScenarioAssumption` (calls have the
fields of calls; the index tools use the index, and no file tool does).

**`SideEffectsProofs`** has four inductive invariants, each on top of the ones
before it:

    LedgerInv    what the guards established still holds at the effect; a command
                 that was started, and a Write that stands, have a record that
                 stops a repeat
    DebtInv      the journal names a mutation before its effect; the obligation of
                 the replayed state is dated by its revision and covers `owed`
    ReplayInv    the replayed state is ahead of the live one by exactly the
                 mutations in the buffer, which are in order, each before its
                 change facts
    ReceiptInv   a receipt of the current revision was signed after the last
                 effect, and nothing it binds is unverified

`ReplayAgrees` compares the two states between batches, when the buffer is
empty; in between they differ, and `ReplayInv` says by what.  `CompletedIsVerified`
needs the last two: a receipt counts by its revision, and the revisions of the
evidence store and of the state are counted by different code.  Assumptions:
`OpsAreInputs`, `OriginalIsContent`, `EditsChangeText`, `BoundsAreNaturals`,
`MutationsAreRevisions` (`Mutations = Nat`: a mutation is named by its revision),
`EverythingIsNoPath`.

**`ReplanProtocolProofs`** has two:

    PlanInv   types; the store agrees with the last plan fact of each version as
              far as approval goes; the approved version exists and is approved;
              tasks are bound to versions that were approved
    GateInv   GateNeverLags; a batch that runs while a replan is open has the tools
              that end it and, when supervised, none that write; a low-impact
              replan has an approved plan to repair; an owed approval keeps the
              reapproval flag, or there was a second replan

`ApprovedIsCurrent` needs the log, because a restart rebuilds the store from it.
The lemmas of the reducer say which facts touch the replan flags
(`Kept`, `Steady`, `Quiet`), so each action is compared with the gates once.
`OpenReplanStopsWork` is stated for a supervised run (`ASSUME Intelligence`):
without supervision there is no lane, and `Replan_reapproval` shows what happens.
Assumptions: those of `Reducer` (`CallsAreFinite`, `NoneIsAbsent`) and
`VersionsArePlans`, `SteplessArePlans`, `VersionsAreCounted`, `NoneIsNoPlan`,
`NoneIsNoAction`, `IntelligenceIsSwitch`, `PlannedArePaths`.

**`ConversationProofs`** is about what a journal replays to.  What the recursive
functions of the model give at each position (`Picked`, `ReduceAll`,
`LoadMessages`, and the library's `FlattenSeq`) is proved by induction on the
position, from the well foundedness of the naturals (`Climbs`, `Unfolds`).  With
`At(log, i)` the replay of the first `i` facts, there are four invariants:

    LogInv    live is the replay of file and recovery together while a process
              runs; in that log a snapshot has the state and the number of the
              facts before it, a compaction clears something of the conversation
              before it, and the identifiers in every At(log, i) are distinct and
              below nextId
    GoalInv   in every At(log, i) the human messages are in the order of their
              identifiers, none above goal; from the flushed part on, every
              At(log, i) holds goal and all notes
    CallInv   no fact of the log is refused at its prefix; nothing is pending when
              the model may be asked, and no call of the batch to be accepted is
    PairInv   at every prefix: answered calls are completed, completed and pending
              ones were asked for, none is both, and an asked call without an
              answer is asked for by a message that is still in the conversation;
              no call is asked for or answered by two messages; nothing is
              unanswered when the model may be asked, and while a batch runs just
              its calls are

They all speak of every prefix of the log, because a crash makes a prefix the file,
and of recovery facts that are not in the file yet, because a crash may
cut those.  Distinct identifiers are what makes a compaction take exactly the
messages it names; that it always finds one is why the loader, which drops a
compaction that clears nothing, and the reducer, which appends its
replacements, agree.  The goal survives because the latest human message, the
one no compaction takes, is the one with the highest identifier.  Recovery ends
just the right calls because what the loader finds open in the facts is what the
reducer has pending (`OpenState`), and what it finds requested in the loaded
messages is all that is unanswered: compactions come when nothing is.  The facts
of `resumeState` are accepted one by one because the open calls are distinct and
none has a result (`OpenEnds`, by induction over them).  `EveryCallAnswered` is
stated for gateways that name their calls (`ASSUME ~ Reissue`); where `call_1` is
issued anew, the loader takes the earlier completion for the later one's.
Assumption: `ConversationBounds`, by which a session has finitely many calls.

| Theorem | Property |
|---|---|
| `InvariantHolds` | the inductive invariant of the reducer |
| `TypeCorrect` | `TypeOK` of `AgentStateMachine` |
| `CheckpointsAreRestorable` | `SnapshotRestorable` |
| `VerdictsAreCurrent` | `VerdictIsCurrent` |
| `ObligationsAreComplete` | `ObligationCoversMutations` |
| `GateFlagsAgree` | `AwaitingImpliesReplanning` |
| `EveryCallSettlesOnce` | `CallsSettleOnce` |
| `VerdictsAreBacked` | `PassIsBacked` |
| `RequestsStayInBudget` | `BudgetHolds` |
| `CrashForgetsOneRequest` | `CrashForgetsAtMostOne` |
| `ReplayIsTheLiveState` | `LoopReplayAgrees` |
| `OneReflectionWaits` | `ReflectionsSingleFlight` |
| `LoopTypeCorrect` | `TypeOK` of `EngineLoop` |
| `JournalIsDurable` | `ImplementsDurableLog` |
| `ResumedJournalIsWhole` | `ResumeNeverSkips` |
| `JournalTypeCorrect` | `TypeOK` of `SessionJournal` |
| `CalibrationInvariant` | the inductive invariant of the sessions |
| `ResumeIsAccepted` | `ResumeAccepted` |
| `RunningIsReplayed` | `LiveIsReplay` |
| `LearnsFromThePast` | `HistoryIsPast` |
| `SourcesCanBeAudited` | `ProvenanceHolds` |
| `CalibrationTypes` | `CalibrationTypeOK` |
| `BatchesAreSerializable` | `Serializable` |
| `PatchesAreAtomic` | `PatchAtomic` |
| `EffectsAreConsented` | `EffectsHaveConsent` |
| `BatchTypeCorrect` | `TypeOK` of `ToolBatch` |
| `ShellIsStartedOnce` | `ShellStartsOnce` |
| `EffectsAreNotRepeated` | `EffectNotRepeated` |
| `EffectsStayOwed` | `EffectsAreOwed` |
| `ReplayGivesLiveState` | `ReplayAgrees` |
| `RevisionsStayEqual` | `RevisionsAgree` |
| `CompletionIsVerified` | `CompletedIsVerified` |
| `SideEffectsTypeCorrect` | `TypeOK` of `SideEffects` |
| `ApprovedStaysCurrent` | `ApprovedIsCurrent` |
| `RetiredTasksRest` | `RetiredTasksStayRetired` |
| `GateIsNeverLate` | `GateNeverLags` |
| `ReplanKeepsWayOut` | `ReplanHasWayOut` |
| `FirstReplanKeepsLock` | `FirstReplanLocksWrites` |
| `OpenReplanStopsWork` | `ReplanStopsWork` |
| `ReplanTypeCorrect` | `TypeOK` of `ReplanProtocol` |
| `SnapshotsAgree` | `SnapshotAgrees` |
| `LoadersAgree` | `LoaderAgrees` |
| `GoalIsKept` | `GoalKept` |
| `SessionsResume` | `ReplayAccepted` |
| `CallsAreAnswered` | `EveryCallAnswered` |
| `ConversationTypes` | `TypeOK` of `Conversation` |

Every safety invariant and action property that a passing run checks has its
theorem, and so has the refinement.  *Only model-checked* is liveness
(`AppendsSettle`, `EveryTurnEnds`, `BatchSettles`): it rests on fairness, which is
out of the prover's reach.

## 5. Not modelled, and the plan

Path keys, redaction, prompts, retrieval, code intelligence, observability and
evaluation are pure functions over text or rankings whose results the modelled
protocols take as inputs; the parsing of streams and HTTP is I/O, as are
rendering and terminal input of the CLI.  The session index only reads.  Left
out of parts that are modelled: dependencies between tasks, plan constraints,
the numeric health score, snapshots older than version 5, DiffAssert and
ManualVerify, and the run of the verifier's own engine.

The plan:

1. **Task dependencies** and the composition of a batch with the conversation it
   answers.
2. **Bounds behind the liveness properties**: a measure that every step of a turn
   decreases, as a theorem.
