----------------------------- MODULE SideEffects -----------------------------
(***************************************************************************)
(* Side effects of tool calls: the pipeline of ToolRuntime.executeOne with *)
(* the idempotency ledger, the mutation fact that is flushed before an     *)
(* effect, the evidence store and the completion gate, under crashes and   *)
(* edits by others.                                                        *)
(*                                                                         *)
(* Tools with effects are exclusive, so the calls of a batch run one after *)
(* another; their events are buffered and reduced after the last one.      *)
(* durable is the state a full replay of the journal gives.  A ledger      *)
(* change is always followed by its flush, an atomic replacement of the    *)
(* file, so one variable stands for memory and disk.                       *)
(*                                                                         *)
(* Every file exists; its version stands for its content.  An ApplyPatch   *)
(* is an Edit of several files and is not distinguished.  A Shell command  *)
(* may change one file, or none.                                           *)
(***************************************************************************)
EXTENDS Reducer, Sequences

CONSTANTS
    Contents,   \* contents of a file
    Original,   \* what the files hold at first
    Ops,        \* the tool inputs of the instance
    MaxBatch,   \* calls of one batch
    MaxToolCalls, MaxRevision, MaxPrompts,
    MaxFaults                       \* bounds of the model; a fault is a crash, a
                                    \* turn that throws or an edit by somebody else

WriteOps  == [tool : {"Write"}, path : Paths, content : Contents]
EditOps   == [tool : {"Edit"}, path : Paths, expected : Contents, content : Contents]
ShellOps  == [tool : {"Shell"}, validator : BOOLEAN]
AssertOps == [tool : {"FileAssert"}, path : Paths]

Everything == "workspace"   \* an effect whose write set is unknown

ASSUME OpsAreInputs == Ops \subseteq WriteOps \cup EditOps \cup ShellOps \cup AssertOps
ASSUME OriginalIsContent == Original \in Contents
ASSUME EditsChangeText == \A op \in Ops \cap EditOps : op.expected # op.content
ASSUME BoundsAreNaturals ==
    {MaxBatch, MaxToolCalls, MaxRevision, MaxPrompts, MaxFaults} \subseteq Nat
ASSUME MutationsAreRevisions == Mutations = Nat
ASSUME EverythingIsNoPath == Everything \notin Paths

VARIABLES
    state,      \* AgentState, as the engine reduces it
    durable,    \* AgentState, as a replay of the journal gives it
    turnStart,  \* the state the CLI handed to the turn
    pc,         \* idle, loop, guard, cleared, running, started, executed, emit
    calls,      \* calls of the batch that have not settled, the current one first
    size,       \* how many calls the batch has
    events,     \* facts buffered by the scheduler
    ledger,     \* IdempotencyLedger: key -> status
    files,      \* the workspace
    evidence,   \* EvidenceStore: revision, changedPaths, receipts of this run
    strayed,    \* a turn has failed in this process
    prompts, faults,
    applied,    \* history: file operations whose effect stands
    spawned,    \* history: invocations of Shell that were started
    owed,       \* history: what tools changed since the last clean end
    unverified  \* history: the part of owed no later receipt covers

vars == <<state, durable, turnStart, pc, calls, size, events, ledger, files, evidence,
          strayed, prompts, faults, applied, spawned, owed, unverified>>
bounds == <<strayed, prompts, faults>>
history == <<applied, spawned, owed, unverified>>

Call == [id : Calls, op : Ops]
Statuses == {"none", "running", "committed", "unknown", "resolved_applied",
             "resolved_not_applied"}

(* computeKey for tools of scope 'invocation', computeOperationKey for the  *)
(* others: a Shell command is identified by its call, a file tool by its    *)
(* arguments.                                                               *)
Key(call) == IF call.op.tool = "Shell" THEN call ELSE call.op
Keys == {Key(call) : call \in Call}

Mutates(op) == op.tool # "FileAssert"
Current == Head(calls)
NoBinding == [p \in Paths |-> None]

Init ==
    /\ state = InitialState("default")
    /\ durable = state
    /\ turnStart = state
    /\ pc = "idle"
    /\ calls = <<>>
    /\ size = 0
    /\ events = <<>>
    /\ ledger = [k \in Keys |-> "none"]
    /\ files = [p \in Paths |-> Original]
    /\ evidence = [revision |-> 0, changedPaths |-> {}, receipts |-> {}]
    /\ strayed = FALSE
    /\ prompts = 0 /\ faults = 0
    /\ applied = {} /\ spawned = {} /\ owed = {} /\ unverified = {}

-----------------------------------------------------------------------------
(* Turns and batches. *)

StartTurn ==
    /\ pc = "idle"
    /\ prompts < MaxPrompts
    /\ prompts' = prompts + 1
    /\ state' = [HumanMessage(state) EXCEPT !.iteration = 0, !.phase = "active"]
    /\ durable' = HumanMessage(durable)
    /\ turnStart' = state'
    /\ pc' = "loop"
    /\ UNCHANGED <<calls, size, events, ledger, files, evidence, strayed, faults,
                   history>>

(* The model asks for a batch; every call is accepted durably. *)
RequestBatch(batch) ==
    LET ids == {batch[i].id : i \in DOMAIN batch} IN
    /\ pc = "loop"
    /\ durable.used.toolCalls + Len(batch) <= MaxToolCalls
    /\ durable.workspace.revision + Len(SelectSeq(batch, LAMBDA call : Mutates(call.op)))
           <= MaxRevision
    /\ \A i, j \in DOMAIN batch : i # j => batch[i].id # batch[j].id
    /\ state' = ToolCallsAccepted(AssistantMessage(state), ids)
    /\ durable' = ToolCallsAccepted(AssistantMessage(durable), ids)
    /\ calls' = batch
    /\ size' = Len(batch)
    /\ pc' = "guard"
    /\ UNCHANGED <<turnStart, events, ledger, files, evidence, bounds, history>>

Completed(ok, conflict) ==
    [type |-> "completed", call |-> Current.id, ok |-> ok, conflict |-> conflict]

(* The current call settles with its facts, and the next one begins. *)
Settle(facts) ==
    /\ events' = events \o facts
    /\ calls' = Tail(calls)
    /\ pc' = IF Len(calls) = 1 THEN "emit" ELSE "guard"

-----------------------------------------------------------------------------
(* The guards of executeOne. *)

(* Projection, validation, permission, precondition or abort. *)
Refuse ==
    /\ pc = "guard"
    /\ Settle(<<Completed(FALSE, FALSE)>>)
    /\ UNCHANGED <<state, durable, turnStart, size, ledger, files, evidence, bounds, history>>

Status == ledger[Key(Current)]
HasEffects == Mutates(Current.op)
Verifiable == Current.op.tool \in {"Write", "Edit"}
IsApplied == Status \in {"committed", "resolved_applied"}
NeedsInspection == Status \in {"running", "unknown"}

(* Faulty variant: a record without a proof counts as not applied. *)
InspectedByProof ==
    /\ files[Current.op.path] = Current.op.content
    /\ Status = "committed"

(* inspectOutcome: Write falls back on its own content when no proof was    *)
(* recorded; Edit takes a missing proof for a missing effect.               *)
InspectWrite(op) == files[op.path] = op.content
InspectEdit(op) == Status = "committed" /\ files[op.path] = op.content
Inspected ==
    IF Current.op.tool = "Write" THEN InspectWrite(Current.op) ELSE InspectEdit(Current.op)

(* markRunning, markCommitted, markUnknown and adjudicate, with their flush *)
Marked(status) == [ledger EXCEPT ![Key(Current)] = status]

Deduplicate ==
    /\ pc = "guard"
    /\ HasEffects /\ Verifiable
    /\ IsApplied \/ NeedsInspection
    /\ Inspected
    /\ ledger' = IF NeedsInspection THEN Marked("resolved_applied") ELSE ledger
    /\ Settle(<<Completed(TRUE, FALSE)>>)
    /\ UNCHANGED <<state, durable, turnStart, size, files, evidence, bounds, history>>

(* ALREADY_COMMITTED or UNKNOWN_OUTCOME_REQUIRES_INSPECTION. *)
RefuseRepeat ==
    /\ pc = "guard"
    /\ HasEffects /\ ~ Verifiable
    /\ IsApplied \/ NeedsInspection
    /\ Settle(<<Completed(FALSE, FALSE)>>)
    /\ UNCHANGED <<state, durable, turnStart, size, ledger, files, evidence, bounds, history>>

(* The probe says the effect is absent: the operation may run again. *)
Reopen ==
    /\ pc = "guard"
    /\ HasEffects /\ Verifiable
    /\ IsApplied \/ NeedsInspection
    /\ ~ Inspected
    /\ ledger' = Marked("resolved_not_applied")
    /\ pc' = "cleared"
    /\ UNCHANGED <<state, durable, turnStart, calls, size, events, files, evidence, bounds,
                   history>>

Admit ==
    /\ pc = "guard"
    /\ HasEffects
    /\ ~ IsApplied /\ ~ NeedsInspection
    /\ pc' = "cleared"
    /\ UNCHANGED <<state, durable, turnStart, calls, size, events, ledger, files, evidence,
                   bounds, history>>

-----------------------------------------------------------------------------
(* The durable steps before the effect. *)

(* Faulty variant: the record is not flushed before the effect. *)
MarkRunningUnflushed ==
    /\ pc = "cleared"
    /\ pc' = "running"
    /\ UNCHANGED <<state, durable, turnStart, calls, size, events, ledger, files, evidence,
                   bounds, history>>

MarkRunning ==
    /\ pc = "cleared"
    /\ ledger' = Marked("running")
    /\ pc' = "running"
    /\ UNCHANGED <<state, durable, turnStart, calls, size, events, files, evidence, bounds,
                   history>>

(* workspaceMutation: file tools declare their path, Shell the workspace. *)
MutationFact ==
    [type     |-> "mutation",
     mutation |-> evidence.revision + 1,
     scope    |-> IF Current.op.tool = "Shell" THEN "workspace" ELSE "paths",
     paths    |-> IF Current.op.tool = "Shell" THEN {} ELSE {Current.op.path}]

Reduced(s, fact) ==
    CASE fact.type = "mutation" ->
             MutationStarted(s, fact.mutation, fact.scope, fact.paths)
      [] fact.type = "changed" ->
             WorkspaceChanged(s, fact.mutation, fact.path, "modified")
      [] fact.type = "evidence" -> EvidenceRecorded(s)
      [] fact.type = "completed" ->
             ToolCallCompleted(s, fact.call, fact.ok, fact.conflict)

BumpWorkspaceRevision(paths) ==
    evidence' = [evidence EXCEPT !.revision = @ + 1, !.changedPaths = @ \cup paths]

(* Faulty variant: the fact is only buffered, not flushed. *)
StartMutationUnflushed ==
    /\ pc = "running"
    /\ events' = Append(events, MutationFact)
    /\ BumpWorkspaceRevision(MutationFact.paths)
    /\ pc' = "started"
    /\ UNCHANGED <<state, durable, turnStart, calls, size, ledger, files, bounds, history>>

(* persistBeforeWorkspaceMutation, then bumpWorkspaceRevision. *)
StartMutation ==
    /\ pc = "running"
    /\ durable' = Reduced(durable, MutationFact)
    /\ events' = Append(events, MutationFact)
    /\ BumpWorkspaceRevision(MutationFact.paths)
    /\ pc' = "started"
    /\ UNCHANGED <<state, turnStart, calls, size, ledger, files, bounds, history>>

-----------------------------------------------------------------------------
(* The effect. *)

(* A path changes: operations whose effect stood there no longer stand. *)
Standing(path, op) == {a \in applied : a.path # path} \cup op

Owe(what) ==
    /\ owed' = owed \cup what
    /\ unverified' = IF what = {} THEN unverified ELSE owed'

ConflictsWith(op) == op.tool = "Edit" /\ files[op.path] # op.expected

(* Write and Edit replace the file by an atomic rename. *)
Replace(op) ==
    /\ files' = [files EXCEPT ![op.path] = op.content]
    /\ applied' = Standing(op.path, {op})
    /\ Owe({op.path})
    /\ pc' = "executed"
    /\ UNCHANGED <<state, durable, turnStart, calls, size, events, ledger, evidence, bounds,
                   spawned>>

ExecuteWrite ==
    /\ pc = "started"
    /\ Current.op.tool = "Write"
    /\ Replace(Current.op)

ExecuteEdit ==
    /\ pc = "started"
    /\ Current.op.tool = "Edit"
    /\ ~ ConflictsWith(Current.op)
    /\ Replace(Current.op)

(* execute throws before its effect, an Edit of another version always with *)
(* FILE_VERSION_CONFLICT: the record becomes unknown.                       *)
ExecuteThrows ==
    /\ pc = "started"
    /\ ledger' = Marked("unknown")
    /\ Settle(<<Completed(FALSE, ConflictsWith(Current.op))>>)
    /\ UNCHANGED <<state, durable, turnStart, size, files, evidence, bounds, history>>

(* EvidenceStore.record at the current revision, for a passed observation. *)
Recorded(scope, bound) ==
    evidence' = [evidence EXCEPT !.receipts = @ \cup
                       {[revision |-> evidence.revision, scope |-> scope,
                         bound |-> bound]}]

(* How a process ends: killed is a timeout, an abort or a failed spawn. *)
ProcessEnds == {"exit 0", "exit 1", "killed"}
Passes(end) == end = "exit 0"

(* captureChangedFileVersions: the changed paths the store knows of *)
ChangedVersions(now) ==
    [p \in Paths |-> IF p \in evidence.changedPaths THEN now[p] ELSE None]

(* A process runs; a recognised validator that passes signs a receipt. *)
ExecuteShell(writes, end) ==
    /\ pc = "started"
    /\ Current.op.tool = "Shell"
    /\ files' = [p \in Paths |-> IF writes = None \/ writes.path # p THEN files[p]
                                 ELSE writes.content]
    /\ applied' = IF writes = None THEN applied ELSE Standing(writes.path, {})
    /\ spawned' = spawned \cup {Current}
    /\ owed' = owed \cup {Everything}
    /\ IF Current.op.validator /\ Passes(end)
       THEN /\ Recorded("workspace", ChangedVersions(files'))
            /\ unverified' = owed' \ (evidence.changedPaths \cup {Everything})
       ELSE UNCHANGED evidence /\ unverified' = owed'
    /\ pc' = "executed"
    /\ UNCHANGED <<state, durable, turnStart, calls, size, events, ledger, bounds>>

(* FileAssert: a read-only call that signs a receipt for one path. *)
AssertFile(passed) ==
    LET path == Current.op.path IN
    /\ pc = "guard"
    /\ ~ HasEffects
    /\ IF passed
       THEN /\ Recorded("paths", [NoBinding EXCEPT ![path] = files[path]])
            /\ unverified' = unverified \ {path}
       ELSE UNCHANGED <<evidence, unverified>>
    /\ Settle(<<[type |-> "evidence"], Completed(TRUE, FALSE)>>)
    /\ UNCHANGED <<state, durable, turnStart, size, ledger, files, bounds, applied, spawned,
                   owed>>

(* The postcondition re-reads the file; the record is committed, or unknown *)
(* when the content is not the one that was written.                        *)
PostconditionHolds == Verifiable => files[Current.op.path] = Current.op.content

ChangeFacts ==
    IF Verifiable
    THEN <<[type |-> "changed", mutation |-> evidence.revision,
            path |-> Current.op.path]>>
    ELSE <<[type |-> "evidence"]>>

SettleExecution ==
    /\ pc = "executed"
    /\ ledger' = Marked(IF PostconditionHolds THEN "committed" ELSE "unknown")
    /\ Settle(Append(ChangeFacts, Completed(PostconditionHolds, FALSE)))
    /\ UNCHANGED <<state, durable, turnStart, size, files, evidence, bounds, history>>

(* runProcess rejects, a receipt or the output cannot be stored: the effect *)
(* stands, its record becomes unknown and no fact names it.                 *)
ThrowAfterEffect ==
    /\ pc = "executed"
    /\ ledger' = Marked("unknown")
    /\ Settle(<<Completed(FALSE, FALSE)>>)
    /\ UNCHANGED <<state, durable, turnStart, size, files, evidence, bounds, history>>

-----------------------------------------------------------------------------
(* After the batch. *)

(* Faulty variant: a mutation fact is persisted a second time. *)
EmitFactTwice ==
    /\ pc = "emit"
    /\ events # <<>>
    /\ state' = Reduced(state, Head(events))
    /\ durable' = Reduced(durable, Head(events))
    /\ events' = Tail(events)
    /\ UNCHANGED <<turnStart, pc, calls, size, ledger, files, evidence, bounds, history>>

(* A buffered fact is persisted and reduced; mutation.started is durable    *)
(* already and only reduced.                                                *)
EmitFact ==
    /\ pc = "emit"
    /\ events # <<>>
    /\ state' = Reduced(state, Head(events))
    /\ durable' = IF Head(events).type = "mutation" THEN durable
                  ELSE Reduced(durable, Head(events))
    /\ events' = Tail(events)
    /\ UNCHANGED <<turnStart, pc, calls, size, ledger, files, evidence, bounds, history>>

EndBatch ==
    /\ pc = "emit"
    /\ events = <<>>
    /\ state' = ToolResultsReady(state, size)
    /\ durable' = ToolResultsReady(durable, size)
    /\ size' = 0
    /\ pc' = "loop"
    /\ UNCHANGED <<turnStart, calls, events, ledger, files, evidence, bounds, history>>

(* The turn throws while facts are reduced, as after the second PlanRepair  *)
(* of a batch (ReplanProtocol): runTurn keeps the state it gave to the turn *)
(* and records the end of the run.                                          *)
FailTurn ==
    /\ pc = "emit"
    /\ faults < MaxFaults
    /\ faults' = faults + 1
    /\ strayed' = TRUE
    /\ state' = turnStart
    /\ durable' = RunTerminated(durable, "invariant_violation")
    /\ events' = <<>>
    /\ pc' = "idle"
    /\ size' = 0
    /\ UNCHANGED <<turnStart, calls, ledger, files, evidence, prompts, history>>

-----------------------------------------------------------------------------
(* The completion gate. *)

Bound(receipt) == {p \in Paths : receipt.bound[p] # None}

(* findStaleReceipts: judged by the bound files, else by the revision. *)
Stale(receipt) ==
    IF Bound(receipt) # {}
    THEN \E p \in Bound(receipt) : receipt.bound[p] # files[p]
    ELSE receipt.revision < evidence.revision

(* Faulty variant: receipts from before the last mutation count as well. *)
VerifiedAtAnyRevision(s) ==
    LET pending    == s.workspace.pendingVerification
        candidates == {r \in evidence.receipts : ~ Stale(r)}
    IN  pending # None =>
            /\ evidence.revision = pending.revision
            /\ pending.revision = s.workspace.revision
            /\ pending.scope = "workspace" =>
                   \E r \in candidates : r.scope = "workspace"
            /\ pending.changedPaths \subseteq UNION {Bound(r) : r \in candidates}

(* evidenceSatisfiesPendingMutation *)
Verified(s) ==
    LET pending    == s.workspace.pendingVerification
        candidates == {r \in evidence.receipts :
                          r.revision = evidence.revision /\ ~ Stale(r)}
    IN  pending # None =>
            /\ evidence.revision = pending.revision
            /\ pending.revision = s.workspace.revision
            /\ pending.scope = "workspace" =>
                   \E r \in candidates : r.scope = "workspace"
            /\ pending.changedPaths \subseteq UNION {Bound(r) : r \in candidates}

(* The run ends.  The gate has other requirements too, so a verified state   *)
(* may still end with unverified items.                                      *)
EndRun(reason) ==
    /\ pc = "loop"
    /\ reason = "completed" => Verified(state)
    /\ state' = RunTerminated(state, reason)
    /\ durable' = RunTerminated(durable, reason)
    /\ owed' = IF reason \in CleanEnds THEN {} ELSE owed
    /\ unverified' = IF reason \in CleanEnds THEN {} ELSE unverified
    /\ pc' = "idle"
    /\ turnStart' = state'
    /\ UNCHANGED <<calls, size, events, ledger, files, evidence, bounds, applied, spawned>>

-----------------------------------------------------------------------------
(* The environment. *)

(* Somebody else edits a file. *)
ExternalEdit(path, content) ==
    /\ faults < MaxFaults
    /\ files[path] # content
    /\ faults' = faults + 1
    /\ files' = [files EXCEPT ![path] = content]
    /\ applied' = Standing(path, {})
    /\ UNCHANGED <<state, durable, turnStart, pc, calls, size, events, ledger, evidence,
                   strayed, prompts, spawned, owed, unverified>>

(* Synthetic results for the open calls. *)
Interrupted(s) == CallsInterrupted(SnapshotRestored(s))

RestoredPaths(w) ==
    w.touchedFiles \cup (IF w.pendingVerification = None THEN {}
                         ELSE w.pendingVerification.changedPaths)

(* setWorkspaceRevision of a new store *)
RestoredEvidence(revision, paths) ==
    [revision |-> revision, changedPaths |-> paths, receipts |-> {}]

(* Faulty variant: the evidence store starts at revision 0. *)
CrashAndResumeFresh ==
    /\ faults < MaxFaults
    /\ faults' = faults + 1
    /\ strayed' = FALSE
    /\ state' = Interrupted(durable)
    /\ durable' = state'
    /\ turnStart' = state'
    /\ pc' = "idle"
    /\ calls' = <<>>
    /\ events' = <<>>
    /\ evidence' = RestoredEvidence(0, RestoredPaths(state'.workspace))
    /\ size' = 0
    /\ UNCHANGED <<ledger, files, prompts, history>>

(* A crash and the resume after it: replay, synthetic results for the open  *)
(* calls, and the revision and paths of the evidence store from the state.  *)
(* Receipts of an earlier run are restored too, but the gate takes only     *)
(* those of its own run; they are left out.                                 *)
CrashAndResume ==
    /\ faults < MaxFaults
    /\ faults' = faults + 1
    /\ strayed' = FALSE
    /\ state' = Interrupted(durable)
    /\ durable' = state'
    /\ turnStart' = state'
    /\ pc' = "idle"
    /\ calls' = <<>>
    /\ events' = <<>>
    /\ evidence' = RestoredEvidence(state'.workspace.revision,
                                    RestoredPaths(state'.workspace))
    /\ size' = 0
    /\ UNCHANGED <<ledger, files, prompts, history>>

Quit ==
    /\ pc = "idle"
    /\ UNCHANGED vars

Batches == UNION {[1..n -> Call] : n \in 1..MaxBatch}
ShellWrites == [path : Paths, content : Contents] \cup {None}

Guard == Refuse \/ Deduplicate \/ RefuseRepeat \/ Reopen \/ Admit
Execute ==
    \/ ExecuteWrite
    \/ ExecuteEdit
    \/ ExecuteThrows
    \/ \E writes \in ShellWrites, end \in ProcessEnds : ExecuteShell(writes, end)
    \/ \E passed \in BOOLEAN : AssertFile(passed)
    \/ SettleExecution
    \/ ThrowAfterEffect

Next ==
    \/ StartTurn
    \/ \E batch \in Batches : RequestBatch(batch)
    \/ Guard
    \/ MarkRunning
    \/ StartMutation
    \/ Execute
    \/ EmitFact
    \/ EndBatch
    \/ FailTurn
    \/ \E reason \in {"completed", "completed_with_unverified_items", "aborted"} :
           EndRun(reason)
    \/ \E path \in Paths, content \in Contents : ExternalEdit(path, content)
    \/ CrashAndResume
    \/ Quit

Spec == Init /\ [][Next]_vars

-----------------------------------------------------------------------------
(* The variables have their types. *)
TypeOK ==
    /\ state \in AgentState /\ durable \in AgentState /\ turnStart \in AgentState
    /\ pc \in {"idle", "loop", "guard", "cleared", "running", "started", "executed",
               "emit"}
    /\ calls \in Seq(Call)
    /\ ledger \in [Keys -> Statuses]
    /\ files \in [Paths -> Contents]
    /\ evidence.revision \in Nat
    /\ evidence.changedPaths \subseteq Paths
    /\ evidence.receipts \subseteq [revision : Nat, scope : Scopes,
                                    bound : [Paths -> Contents \cup {None}]]

(* What tools changed since the last clean end is in the obligation that a  *)
(* replay of the journal gives, at every moment a crash may strike: the     *)
(* mutation fact is flushed before the effect.                              *)
EffectsAreOwed ==
    owed # {} =>
        LET pending == durable.workspace.pendingVerification IN
        /\ pending # None
        /\ owed \ {Everything} \subseteq pending.changedPaths
        /\ Everything \in owed => pending.scope = "workspace"

(* The fields of a state that runTurn does not reset. *)
Lasting(s) == [s EXCEPT !.iteration = 0, !.phase = "active", !.lastTransition = None]

(* Between batches the live state is the one a replay gives, although       *)
(* mutation facts overtake the other facts of their batch on the way to the *)
(* journal.  Only a turn that failed leaves the two apart until a resume.   *)
ReplayAgrees ==
    pc \in {"idle", "loop"} /\ ~ strayed => Lasting(state) = Lasting(durable)

(* Between batches the evidence store counts the revision of the state, so  *)
(* that receipts can meet the obligation, also after a resume.              *)
RevisionsAgree ==
    pc \in {"idle", "loop"} /\ ~ strayed =>
        evidence.revision = state.workspace.revision

EndsCompleted ==
    pc = "loop" /\ pc' = "idle" /\ faults' = faults
        /\ state'.workspace.pendingVerification = None /\ Verified(state)

(* A run ends as completed only if every effect of a tool since the last    *)
(* clean end was followed by passed evidence that covers it and was signed  *)
(* after the last effect (evidenceSatisfiesPendingMutation).                *)
CompletedIsVerified == [][EndsCompleted /\ ~ strayed => unverified = {}]_vars

(* README: the obligation "survives compaction, failed postconditions,      *)
(* interrupted execution, recovery and abnormal stops".  The same as        *)
(* CompletedIsVerified, after a turn that threw as well.                    *)
ObligationSurvivesFailure == [][EndsCompleted => unverified = {}]_vars

Executes == pc = "started" /\ pc' # "started" /\ faults' = faults

(* A Shell invocation is started at most once, however often its call is    *)
(* issued again and wherever a crash strikes: its outcome cannot be         *)
(* inspected.                                                               *)
ShellStartsOnce ==
    [][Executes /\ Current.op.tool = "Shell" => Current \notin spawned]_vars

(* A file operation is not carried out again while its effect stands.       *)
EffectNotRepeated ==
    [][Executes /\ pc' = "executed" /\ Verifiable => Current.op \notin applied]_vars
=============================================================================
