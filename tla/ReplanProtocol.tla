---------------------------- MODULE ReplanProtocol ----------------------------
(***************************************************************************)
(* The plan and replan protocol: the engine loop (AgentEngine.ts), the     *)
(* plan store and its tools (PlanStore.ts, planTools.ts), the task store's *)
(* part in it (TaskStore.ts), the two runtime gates of createRuntime, and  *)
(* the supervisor's choice of the tools a turn may use (PlanSupervisor.ts, *)
(* ToolExecutionLane.ts).                                                  *)
(* State changes go through the reducer.                                   *)
(*                                                                         *)
(* A plan version is <<planId, version>>.  Only versions, statuses, whole  *)
(* file scopes and step-less plans are distinguished.  A restart happens   *)
(* between turns, when run.terminated has been flushed and drained.        *)
(***************************************************************************)
EXTENDS Reducer, Sequences, FiniteSetsExt

CONSTANTS
    PlanIds,
    MaxVersions,       \* versions of one plan id (bound of the model)
    Stepless,          \* versions proposed without steps
    PlannedPaths,      \* the files of every plan that has steps
    MaxTurns, MaxModelCalls, MaxToolCalls,      \* RunBudget
    MaxRepairAttempts,
    Intelligence,      \* config.intelligence.enabled: turns have a lane
    FailureThreshold, ConflictThreshold, ScopeRatio, PressureAt,  \* ReplanConfig
    MaxPrompts, MaxRestarts                     \* bounds of the model

ASSUME VersionsArePlans == Plans = PlanIds \X (1..MaxVersions)
ASSUME SteplessArePlans == Stepless \subseteq Plans
ASSUME IntelligenceIsSwitch == Intelligence \in BOOLEAN
ASSUME VersionsAreCounted == MaxVersions \in Nat
ASSUME NoneIsNoPlan == None \notin Plans
ASSUME NoneIsNoAction == None \notin {"request_reapproval", "repair_plan"}
ASSUME PlannedArePaths == PlannedPaths \subseteq Paths

VARIABLES
    state,        \* AgentState, as the engine reduces it
    pc,           \* idle, loop, batch, detect, complete or failed
    plans,        \* PlanStore.plans: the statuses of each id's versions
    lastApproved, \* PlanStore.lastApprovedRef
    taskPlan,     \* TaskStore: the plan version a task is bound to
    writeLock,    \* replanApprovalPending of createRuntime
    canRepair,    \* localPlanRepairPending of createRuntime
    frozen,       \* mode, write lock and tools of the turn, size of its batch
    planLog,      \* plan facts of the journal, in order
    prompts, restarts,
    approvalOwed, \* history: a high-impact replan no approval has answered
    reopened      \* history: tasks put back to work by TaskUpdate

vars == <<state, pc, plans, lastApproved, taskPlan, writeLock, canRepair,
          frozen, planLog, prompts, restarts, approvalOwed, reopened>>
store == <<plans, lastApproved, planLog>>
gates == <<writeLock, canRepair>>
bounds == <<prompts, restarts>>

PlanStatuses == {"draft", "awaiting_approval", "approved", "superseded"}

Tools == {"Edit", "Shell", "EnterPlanMode", "PlanPropose", "ExitPlanMode",
          "PlanRepair", "TaskCreate", "TaskUpdate"}
NoBatch == [mode |-> "default", locked |-> FALSE, calls |-> 0, tools |-> {}]

-----------------------------------------------------------------------------
(* The plan store. *)
Status(v) == plans[v[1]][v[2]]
Exists(v) == v[2] <= Len(plans[v[1]])
HasSteps(v) == v # None /\ v \notin Stepless
NextVersion(id) == <<id, Len(plans[id]) + 1>>

(* Faulty variant: a new draft also retires an approved version. *)
SupersedingAll(statuses) == [n \in DOMAIN statuses |-> "superseded"]

Superseding(statuses) ==
    [n \in DOMAIN statuses |->
        IF statuses[n] \in {"draft", "awaiting_approval"} THEN "superseded"
        ELSE statuses[n]]

(* createVersion supersedes open drafts of the same plan, without a fact. *)
CreateVersion(id) ==
    /\ plans' = [plans EXCEPT ![id] = Append(Superseding(@), "draft")]
    /\ UNCHANGED lastApproved

MarkAwaitingApproval(v) ==
    /\ plans' = [plans EXCEPT ![v[1]][v[2]] = "awaiting_approval"]
    /\ UNCHANGED lastApproved

MarkApproved(v) ==
    /\ plans' = [plans EXCEPT ![v[1]][v[2]] = "approved"]
    /\ lastApproved' = v

MarkSuperseded(v) ==
    /\ plans' = [plans EXCEPT ![v[1]][v[2]] = "superseded"]
    /\ lastApproved' = IF lastApproved = v THEN None ELSE lastApproved

(* createLocalRepair: the repaired version keeps the approval. *)
CreateLocalRepair(v) ==
    /\ plans' = [plans EXCEPT ![v[1]] =
                     Append([@ EXCEPT ![v[2]] = "superseded"], "approved")]
    /\ lastApproved' = NextVersion(v[1])

Init ==
    /\ state = InitialState("default")
    /\ pc = "idle"
    /\ plans = [id \in PlanIds |-> <<>>]
    /\ lastApproved = None
    /\ taskPlan = [t \in Tasks |-> None]
    /\ writeLock = FALSE
    /\ canRepair = FALSE
    /\ frozen = NoBatch
    /\ planLog = <<>>
    /\ prompts = 0
    /\ restarts = 0
    /\ approvalOwed = FALSE
    /\ reopened = {}

-----------------------------------------------------------------------------
(* The engine loop. *)

(* runTurn: the prompt is reduced and the turn-local counters restart. *)
StartTurn ==
    /\ pc = "idle"
    /\ prompts < MaxPrompts
    /\ state' = [HumanMessage(state) EXCEPT !.iteration = 0,
                                            !.recovery.stopHookRetries = 0,
                                            !.phase = "active"]
    /\ pc' = "loop"
    /\ prompts' = prompts + 1
    /\ UNCHANGED <<store, taskPlan, gates, frozen, restarts, approvalOwed, reopened>>

(* checkPreflight, without cancellation and the clock. *)
Exhausted(s) ==
    \/ s.iteration >= MaxTurns
    \/ s.used.modelCalls >= MaxModelCalls
    \/ s.used.toolCalls >= MaxToolCalls

AwaitsApproval(s) == s.recovery.replanning /\ s.recovery.replanAwaitingApproval
(* Faulty variant: an open reapproval does not lock. *)
LockedOnlyWhenDegraded(s) == s.recovery.degradedRecovery

Locked(s) == s.recovery.degradedRecovery \/ AwaitsApproval(s)

-----------------------------------------------------------------------------
(* The tools of a turn. *)

(* availableFor: plan mode and the write lock leave reads, plan and tasks. *)
AvailableFor(s) ==
    IF s.mode = "plan" \/ Locked(s)
    THEN {"PlanPropose", "ExitPlanMode", "TaskCreate", "TaskUpdate"}
    ELSE Tools

TasksForPlan(s) ==
    LET known == {t \in Tasks : s.tasks[t] # None}
        owned == {t \in known : taskPlan[t] = lastApproved} IN
    IF lastApproved = None THEN known
    ELSE IF owned # {} THEN owned
    ELSE {t \in known : taskPlan[t] = None}

ScopeDrift(s) ==
    /\ HasSteps(lastApproved) /\ PlannedPaths # {}
    /\ s.workspace.planScopedTouchedFiles \ PlannedPaths # {}

(* chooseNextAction.  Tasks have no dependencies here; whether the last     *)
(* reflection was ineffective and a criterion lacks evidence is arbitrary.  *)
ChooseNextAction(s, ineffective, uncovered) ==
    LET mine == TasksForPlan(s)
        Some(statuses) == \E t \in mine : s.tasks[t] \in statuses
        executed == mine # {} /\ ~ Some(TaskStatuses \ {"completed"})
    IN  IF AwaitsApproval(s) THEN "request_reapproval"
        ELSE IF s.recovery.replanning THEN "repair_plan"
        ELSE IF s.pendingVerificationRepair # None THEN "continue_step"
        ELSE IF Some({"failed"}) \/ ScopeDrift(s) \/ ineffective THEN "repair_plan"
        ELSE IF Some({"blocked"}) THEN "resolve_blocker"
        ELSE IF Some({"pending", "in_progress"}) THEN "continue_step"
        ELSE IF s.lastTransition = "user_followup" THEN "continue_step"
        ELSE IF executed /\ uncovered THEN "gather_evidence"
        ELSE IF lastApproved # None /\ executed
             THEN IF s.workspace.touchedFiles # {} /\ s.lastVerification = None
                  THEN "run_verification" ELSE "finish"
        ELSE "continue_step"

(* Faulty variant: an open low-impact replan is left to PlanRepair. *)
RepairToolsWithoutApproval(replanning) ==
    {"EnterPlanMode", "PlanRepair"} \cup
        IF replanning THEN {} ELSE {"PlanPropose", "ExitPlanMode", "TaskCreate", "TaskUpdate"}

(* Faulty variant: while a replan is open, the plan may be repaired by work. *)
RepairToolsWithEdits(replanning) == IF replanning THEN Tools ELSE Tools \ {"Edit", "Shell"}

RepairTools(replanning) ==
    {"EnterPlanMode", "PlanRepair", "PlanPropose", "ExitPlanMode"} \cup
        IF replanning THEN {} ELSE {"TaskCreate", "TaskUpdate"}

(* allowSetFor *)
AllowSetFor(action, replanning) ==
    CASE action = "gather_evidence" -> {"Shell", "TaskUpdate"}
      [] action = "run_verification" -> {"Shell"}
      [] action = "repair_plan" -> RepairTools(replanning)
      [] action = "request_reapproval" -> {"PlanPropose", "ExitPlanMode"}
      [] action = "finish" -> {}
      [] OTHER -> Tools

(* assessPlanHealth: the action it recommends, None when the assessment is  *)
(* not applicable.  Its score and its findings are text for the model.      *)
AssessPlanHealth(s, ineffective, uncovered) ==
    IF lastApproved = None /\ TasksForPlan(s) = {} THEN None
    ELSE ChooseNextAction(s, ineffective, uncovered)

(* buildToolExecutionLane: without an applicable assessment, no lane. *)
LaneTools(s, ineffective, uncovered) ==
    LET action == AssessPlanHealth(s, ineffective, uncovered) IN
    IF Intelligence /\ action # None
    THEN AvailableFor(s) \cap AllowSetFor(action, s.recovery.replanning)
    ELSE AvailableFor(s)

(* What is frozen for the turn and the batch B the model answers with *)
Frozen(s, B, ineffective, uncovered) ==
    IF B = {} THEN NoBatch
    ELSE [mode |-> s.mode, locked |-> Locked(s), calls |-> Cardinality(B),
          tools |-> LaneTools(s, ineffective, uncovered)]

-----------------------------------------------------------------------------
(* Iterations. *)

(* Faulty variant: the runtime lock is not synced from the state. *)
BeginIterationWithoutSync(B, ineffective, uncovered) ==
    /\ pc = "loop"
    /\ ~ Exhausted(state)
    /\ frozen' = Frozen(state, B, ineffective, uncovered)
    /\ state' = ToolCallsAccepted(AssistantMessage(state), B)
    /\ pc' = IF B = {} THEN "complete" ELSE "batch"
    /\ UNCHANGED <<store, taskPlan, gates, bounds, approvalOwed, reopened>>

(* One iteration up to the model's answer, which asks for the calls of B:   *)
(* the gates are synced from the state and the batch keeps the projection.  *)
BeginIteration(B, ineffective, uncovered) ==
    /\ pc = "loop"
    /\ ~ Exhausted(state)
    /\ writeLock' = Locked(state)
    /\ canRepair' = (/\ ~ state.recovery.degradedRecovery
                     /\ state.recovery.replanning
                     /\ ~ state.recovery.replanAwaitingApproval)
    /\ frozen' = Frozen(state, B, ineffective, uncovered)
    /\ state' = ToolCallsAccepted(AssistantMessage(state), B)
    /\ pc' = IF B = {} THEN "complete" ELSE "batch"
    /\ UNCHANGED <<store, taskPlan, bounds, approvalOwed, reopened>>

(* Cancellation, or an exhausted budget. *)
StopTurn(reason) ==
    /\ pc = "loop"
    /\ reason = "budget_exhausted" => Exhausted(state)
    /\ state' = RunTerminated(state, reason)
    /\ pc' = "idle"
    /\ UNCHANGED <<store, taskPlan, gates, frozen, bounds, approvalOwed, reopened>>

EndBatch ==
    /\ pc = "batch"
    /\ state.pendingToolCalls = {}
    /\ state' = ToolResultsReady(state, frozen.calls)
    /\ frozen' = NoBatch
    /\ pc' = "detect"
    /\ UNCHANGED <<store, taskPlan, gates, bounds, approvalOwed, reopened>>

-----------------------------------------------------------------------------
(* Replanning. *)

ScopeExceeded(s, approved) ==
    /\ HasSteps(approved)
    /\ PlannedPaths # {}
    /\ Cardinality(s.workspace.planScopedTouchedFiles \ PlannedPaths)
           >= ScopeRatio * Cardinality(PlannedPaths)

(* detectReplanTrigger: the first cause in its order of priority. *)
ReplanCause(s, approved, verificationFailed, ineffective) ==
    IF s.recovery.consecutiveFailures >= FailureThreshold
        THEN "consecutive_failures"
    ELSE IF s.recovery.versionConflicts >= ConflictThreshold
        THEN "version_conflict_threshold"
    ELSE IF ScopeExceeded(s, approved) THEN "scope_exceeded"
    ELSE IF verificationFailed THEN "verification_failed"
    ELSE IF approved # None /\ ineffective THEN "reflection_ineffective"
    ELSE IF s.used.modelCalls >= PressureAt THEN "budget_pressure"
    ELSE "none"

RequiresReapproval(cause) == cause \in {"consecutive_failures", "scope_exceeded"}

(* Faulty variant: tasks in progress survive the plan they belong to. *)
UnfinishedTasksPending(s, v) ==
    {t \in Tasks : taskPlan[t] = v /\ s.tasks[t] = "pending"}

UnfinishedTasks(s, v) ==
    {t \in Tasks : taskPlan[t] = v /\ s.tasks[t] \in {"pending", "in_progress"}}

SupersedeFact(v) == [v |-> v, status |-> "superseded"]

(* applyReplan from state s: the request, then either the retirement of the *)
(* approved version and its tasks, or, when there is nothing to repair      *)
(* locally, the adjustment that closes the request again.                   *)
ApplyReplan(s, reapproval) ==
    LET requested == ReplanRequested(s, reapproval)
        retire    == reapproval /\ lastApproved # None
        retired   == TasksChanged(PlanStatusChanged(requested, lastApproved),
                         [t \in UnfinishedTasks(s, lastApproved) |-> "blocked"])
        moved     == LoopTransitioned(IF retire THEN retired ELSE requested)
    IN  /\ state' = IF reapproval \/ HasSteps(lastApproved) THEN moved
                    ELSE ReplanAdjustmentApplied(moved)
        /\ IF retire THEN MarkSuperseded(lastApproved)
           ELSE UNCHANGED <<plans, lastApproved>>
        /\ planLog' = IF retire THEN Append(planLog, SupersedeFact(lastApproved))
                      ELSE planLog
        /\ writeLock' = (reapproval \/ writeLock)
        /\ approvalOwed' = (reapproval \/ approvalOwed)
        /\ pc' = "loop"
        /\ UNCHANGED <<taskPlan, canRepair, frozen, bounds, reopened>>

MayReplan(s) == s.recovery.replanCount < 2

(* After a batch: a replan, or on to the next iteration. *)
DetectReplan(ineffective) ==
    LET cause == ReplanCause(state, lastApproved, FALSE, ineffective) IN
    /\ pc = "detect"
    /\ MayReplan(state) /\ cause # "none"
    /\ ApplyReplan(state, RequiresReapproval(cause))

ContinueLoop(ineffective) ==
    /\ pc = "detect"
    /\ MayReplan(state) =>
           ReplanCause(state, lastApproved, FALSE, ineffective) = "none"
    /\ pc' = "loop"
    /\ UNCHANGED <<state, store, taskPlan, gates, frozen, bounds, approvalOwed,
                   reopened>>

(* evaluateCompletion.  lacking says what no fresh receipt covers: required *)
(* criteria of the plan, or the pending mutations (see SideEffects).        *)
Incomplete(s, lacking) ==
    \/ s.recovery.replanning
    \/ \E t \in TasksForPlan(s) : s.tasks[t] # "completed"
    \/ lastApproved # None /\ "criteria" \in lacking
    \/ s.workspace.pendingVerification # None /\ "mutations" \in lacking

RetryCompletion(lacking) ==
    /\ pc = "complete"
    /\ Incomplete(state, lacking)
    /\ state.recovery.stopHookRetries < 1
    /\ state' = LoopTransitioned([state EXCEPT !.recovery.stopHookRetries = @ + 1])
    /\ pc' = "loop"
    /\ UNCHANGED <<store, taskPlan, gates, frozen, bounds, approvalOwed, reopened>>

FinishTurn(lacking) ==
    /\ pc = "complete"
    /\ Incomplete(state, lacking) => state.recovery.stopHookRetries >= 1
    /\ state' = RunTerminated(state, IF Incomplete(state, lacking)
                                     THEN "completed_with_unverified_items"
                                     ELSE "completed")
    /\ pc' = "idle"
    /\ UNCHANGED <<store, taskPlan, gates, frozen, bounds, approvalOwed, reopened>>

(* The independent verifier, on a risky completion the gate let pass: PASS  *)
(* ends the run, a first FAIL asks for a repair, and any other verdict is   *)
(* final.                                                                   *)
PassVerification ==
    /\ pc = "complete"
    /\ ~ Incomplete(state, {})
    /\ state' = RunTerminated(VerificationCompleted(state, "PASS", TRUE, None),
                              "completed")
    /\ pc' = "idle"
    /\ UNCHANGED <<store, taskPlan, gates, frozen, bounds, approvalOwed, reopened>>

RepairLeft(s) == s.recovery.verifierRepairs < MaxRepairAttempts

RepairVerification ==
    LET attempt == state.recovery.verifierRepairs + 1 IN
    /\ pc = "complete"
    /\ ~ Incomplete(state, {})
    /\ RepairLeft(state)
    /\ state' = LoopTransitioned(VerificationCompleted(state, "FAIL", TRUE, attempt))
    /\ pc' = "loop"
    /\ UNCHANGED <<store, taskPlan, gates, frozen, bounds, approvalOwed, reopened>>

(* failures says whether the report lists any: only then is a non-PASS      *)
(* verdict a cause to replan by itself.                                     *)
RejectVerification(verdict, failures) ==
    LET judged == VerificationCompleted(state, verdict, TRUE, None)
        cause  == ReplanCause(judged, lastApproved, failures, FALSE)
        replan == MayReplan(judged) /\ cause # "none"
    IN  /\ pc = "complete"
        /\ ~ Incomplete(state, {})
        /\ verdict = "FAIL" => ~ RepairLeft(state)
        /\ \/ replan /\ ApplyReplan(judged, RequiresReapproval(cause))
           \/ /\ ~ replan
              /\ state' = RunTerminated(judged, "completed_with_unverified_items")
              /\ pc' = "idle"
              /\ UNCHANGED <<store, taskPlan, gates, frozen, bounds, approvalOwed,
                             reopened>>

-----------------------------------------------------------------------------
(* Tool calls of a batch, with the tools the turn was given. *)

Running(c) == pc = "batch" /\ c \in state.pendingToolCalls
Reachable(tools) == frozen.tools \cap tools # {}
Done(s, c) == ToolCallCompleted(s, c, TRUE, FALSE)

(* A read, or a call that fails or is refused. *)
PlainCall(c, ok, conflict) ==
    /\ Running(c)
    /\ ~ (ok /\ conflict)
    /\ state' = ToolCallCompleted(state, c, ok, conflict)
    /\ UNCHANGED <<pc, store, taskPlan, gates, frozen, bounds, approvalOwed, reopened>>

(* A side effect passes the projection and then the runtime write lock. *)
WriteFile(c, path) ==
    LET m == state.workspace.revision + 1 IN
    /\ Running(c)
    /\ Reachable({"Edit", "Shell"})
    /\ ~ writeLock
    /\ m \in Mutations
    /\ state' = Done(WorkspaceChanged(MutationStarted(state, m, "paths", {path}),
                                      m, path, "modified"), c)
    /\ UNCHANGED <<pc, store, taskPlan, gates, frozen, bounds, approvalOwed, reopened>>

EnterPlanMode(c) ==
    /\ Running(c)
    /\ Reachable({"EnterPlanMode"})
    /\ state' = Done(ModeChanged(state, frozen.mode, "plan"), c)
    /\ UNCHANGED <<pc, store, taskPlan, gates, frozen, bounds, approvalOwed, reopened>>

CreateFact(v, status) == [v |-> v, status |-> status]

PlanPropose(c, id) ==
    LET v == NextVersion(id) IN
    /\ Running(c)
    /\ Reachable({"PlanPropose"})
    /\ v \in Plans
    /\ CreateVersion(id)
    /\ planLog' = Append(planLog, CreateFact(v, "draft"))
    /\ state' = Done(PlanVersionCreated(state, v, FALSE), c)
    /\ UNCHANGED <<pc, taskPlan, gates, frozen, bounds, approvalOwed,
                   reopened>>

(* markAwaitingApproval, the user's answer, and markApproved. *)
ExitPlanMode(c, v, userApproved) ==
    LET created  == PlanApproved(PlanVersionCreated(state, v, TRUE), v)
        approved == IF frozen.mode = "plan"
                    THEN ModeChanged(created, "plan", "default") ELSE created
    IN  /\ Running(c)
        /\ Reachable({"ExitPlanMode"})
        /\ Exists(v) /\ Status(v) \in {"draft", "awaiting_approval"}
        /\ IF userApproved THEN MarkApproved(v) ELSE MarkAwaitingApproval(v)
        /\ planLog' = IF userApproved THEN Append(planLog, CreateFact(v, "approved"))
                      ELSE planLog
        /\ state' = Done(IF userApproved THEN approved ELSE state, c)
        /\ approvalOwed' = (approvalOwed /\ ~ userApproved)
        /\ UNCHANGED <<pc, taskPlan, gates, frozen, bounds, reopened>>

(* validate and the preconditions of PlanRepair. *)
RepairAllowed(v) ==
    /\ Reachable({"PlanRepair"})
    /\ canRepair
    /\ v = lastApproved
    /\ HasSteps(v)

(* migratePlanVersion: tasks follow to the new version; a task of the       *)
(* repaired step is reopened.                                               *)
MigratedStatus(status, ofStep) == IF ofStep THEN "pending" ELSE status

(* createLocalRepair, the migration, and the facts in their order.  The     *)
(* last one throws in the driver's reducer when no low-impact request is    *)
(* open: the turn then fails after the others were made durable.            *)
PlanRepair(c, v, ofStep) ==
    LET new    == NextVersion(v[1])
        moved  == {t \in Tasks : taskPlan[t] = v}
        facts  == PlanVersionCreated(PlanStatusChanged(state, v), new, TRUE)
        result == TasksChanged(facts,
                      [t \in moved |-> MigratedStatus(state.tasks[t], t \in ofStep)])
        thrown == AdjustmentRefused(result)
    IN  /\ Running(c)
        /\ RepairAllowed(v)
        /\ new \in Plans
        /\ ofStep \subseteq moved
        /\ CreateLocalRepair(v)
        /\ planLog' = planLog \o <<SupersedeFact(v), CreateFact(new, "approved")>>
        /\ taskPlan' = [t \in Tasks |-> IF t \in moved THEN new ELSE taskPlan[t]]
        /\ state' = IF thrown THEN result
                    ELSE Done(ReplanAdjustmentApplied(result), c)
        /\ pc' = IF thrown THEN "failed" ELSE pc
        /\ UNCHANGED <<gates, frozen, bounds, approvalOwed, reopened>>

-----------------------------------------------------------------------------
(* Tasks, as far as plans are concerned. *)

(* TaskStore.create, under the plan TaskCreate finds approved. *)
NewTask(t) ==
    /\ state.tasks[t] = None
    /\ taskPlan' = [taskPlan EXCEPT ![t] = lastApproved]

TaskCreate(c, t) ==
    /\ Running(c)
    /\ Reachable({"TaskCreate"})
    /\ NewTask(t)
    /\ state' = Done(TaskChanged(state, t, "pending"), c)
    /\ UNCHANGED <<pc, store, gates, frozen, bounds, approvalOwed, reopened>>

ValidTransition(from, to) ==
    \/ from = "pending" /\ to \in {"in_progress", "blocked", "failed"}
    \/ from = "in_progress" /\ to \in {"completed", "blocked", "failed", "pending"}
    \/ from = "blocked" /\ to \in {"pending", "in_progress", "failed"}
    \/ from = "failed" /\ to = "pending"

(* TaskStore.update for a known task at the revision the caller expects.    *)
(* Tasks have no dependencies here, and evidence may or may not be missing. *)
MayUpdate(t, status) ==
    /\ ValidTransition(state.tasks[t], status)
    /\ status = "in_progress" => \A u \in Tasks : state.tasks[u] # "in_progress"

TaskUpdate(c, t, status) ==
    /\ Running(c)
    /\ Reachable({"TaskUpdate"})
    /\ MayUpdate(t, status)
    /\ state' = Done(TaskChanged(state, t, status), c)
    /\ reopened' = IF state.tasks[t] \in {"blocked", "failed"} THEN reopened \cup {t}
                   ELSE reopened
    /\ UNCHANGED <<pc, store, taskPlan, gates, frozen, bounds, approvalOwed>>

-----------------------------------------------------------------------------
(* A new process.  The loader keeps, per version, its first position in the *)
(* journal and its last status; PlanStore.restore takes the versions in     *)
(* that order, and every approved one becomes lastApproved in turn.         *)

LoggedStatus(v) ==
    LET at == {i \in DOMAIN planLog : planLog[i].v = v}
    IN  planLog[Max(at)].status

FirstLogged(v) == Min({i \in DOMAIN planLog : planLog[i].v = v})

RestoredApproved ==
    LET approved == {v \in Plans : Exists(v) /\ LoggedStatus(v) = "approved"}
    IN  IF approved = {} THEN None
        ELSE CHOOSE v \in approved :
                 \A w \in approved : FirstLogged(w) <= FirstLogged(v)

(* Calls left open by a failed turn are closed by the recovery facts. *)
Recovered(s) == CallsInterrupted(SnapshotRestored(s))

(* PlanStore.restore, for the versions the loader found. *)
RestorePlans ==
    /\ plans' = [id \in PlanIds |->
                    [n \in DOMAIN plans[id] |-> LoggedStatus(<<id, n>>)]]
    /\ lastApproved' = RestoredApproved

Restart ==
    /\ pc \in {"idle", "failed"}
    /\ restarts < MaxRestarts
    /\ restarts' = restarts + 1
    /\ state' = Recovered(state)
    /\ RestorePlans
    /\ writeLock' = FALSE
    /\ canRepair' = FALSE
    /\ pc' = "idle"
    /\ UNCHANGED <<planLog, taskPlan, frozen, prompts, approvalOwed, reopened>>

ToolStep ==
    \E c \in Calls :
        \/ \E ok, conflict \in BOOLEAN : PlainCall(c, ok, conflict)
        \/ \E path \in Paths : WriteFile(c, path)
        \/ EnterPlanMode(c)
        \/ \E id \in PlanIds : PlanPropose(c, id)
        \/ \E v \in Plans, yes \in BOOLEAN : ExitPlanMode(c, v, yes)
        \/ \E v \in Plans, ofStep \in SUBSET Tasks : PlanRepair(c, v, ofStep)
        \/ \E t \in Tasks : TaskCreate(c, t)
        \/ \E t \in Tasks, status \in TaskStatuses : TaskUpdate(c, t, status)

EngineStep ==
    \/ \E B \in SUBSET Calls, ineffective, uncovered \in BOOLEAN :
           BeginIteration(B, ineffective, uncovered)
    \/ \E reason \in {"aborted", "budget_exhausted"} : StopTurn(reason)
    \/ EndBatch
    \/ \E ineffective \in BOOLEAN : DetectReplan(ineffective)
    \/ \E ineffective \in BOOLEAN : ContinueLoop(ineffective)
    \/ \E lacking \in SUBSET {"criteria", "mutations"} : RetryCompletion(lacking)
    \/ \E lacking \in SUBSET {"criteria", "mutations"} : FinishTurn(lacking)
    \/ PassVerification
    \/ RepairVerification
    \/ \E verdict \in {"FAIL", "PARTIAL"}, failures \in BOOLEAN :
           RejectVerification(verdict, failures)

(* The user leaves between turns, or after a failed one. *)
Quit ==
    /\ pc \in {"idle", "failed"}
    /\ UNCHANGED vars

Next == StartTurn \/ EngineStep \/ ToolStep \/ Restart \/ Quit

Spec == Init /\ [][Next]_vars

-----------------------------------------------------------------------------
(* The variables have their types. *)
TypeOK ==
    /\ state \in AgentState
    /\ pc \in {"idle", "loop", "batch", "detect", "complete", "failed"}
    /\ \A id \in PlanIds :
        /\ Len(plans[id]) <= MaxVersions
        /\ \A n \in DOMAIN plans[id] : plans[id][n] \in PlanStatuses
    /\ lastApproved \in Plans \cup {None}
    /\ taskPlan \in [Tasks -> Plans \cup {None}]
    /\ writeLock \in BOOLEAN /\ canRepair \in BOOLEAN
    /\ frozen.mode \in Modes /\ frozen.locked \in BOOLEAN /\ frozen.tools \subseteq Tools
    /\ \A i \in DOMAIN planLog : planLog[i] \in [v : Plans, status : PlanStatuses]
    /\ approvalOwed \in BOOLEAN
    /\ reopened \subseteq Tasks

(* While a batch runs and the state demands the lock, both the projection   *)
(* the batch was frozen with and the runtime lock are closed, also in the   *)
(* first batch after a restart, whose runtime starts with an open lock.     *)
GateNeverLags ==
    pc = "batch" /\ Locked(state) => writeLock /\ frozen.locked

(* lastApproved() never names a version that was superseded, in the process *)
(* that superseded it or in a later one.                                    *)
ApprovedIsCurrent == lastApproved # None => Status(lastApproved) = "approved"

(* An unfinished task of a superseded plan version was put back to work by  *)
(* an explicit TaskUpdate: replans block such tasks and repairs move them.  *)
RetiredTasksStayRetired ==
    \A t \in Tasks :
        (/\ taskPlan[t] # None
         /\ state.tasks[t] \in {"pending", "in_progress"}
         /\ Status(taskPlan[t]) = "superseded") => t \in reopened

(* The filters of a turn, mode, lock and lane together, never take away     *)
(* every tool that can close an open replan.                                *)
ReplanHasWayOut ==
    pc = "batch" /\ state.recovery.replanning =>
        \/ {"PlanPropose", "ExitPlanMode"} \subseteq frozen.tools
        \/ "PlanRepair" \in frozen.tools /\ canRepair

Wrote == state'.workspace.revision # state.workspace.revision

(* A high-impact replan keeps the workspace read-only until the user has    *)
(* approved a plan, restarts included, as long as it is the only replan.    *)
FirstReplanLocksWrites ==
    [][Wrote /\ approvalOwed => state.recovery.replanCount > 1]_vars

(* The supervisor: "close the durable replanning state before workspace     *)
(* writes".  Also a low-impact replan, which takes no lock, stops the work  *)
(* of a supervised run, over a restart too, until it is closed.             *)
ReplanStopsWork == [][Wrote => ~ state.recovery.replanning]_vars

(* README: "high-impact replans lock all write tools until re-approved".    *)
HighImpactReplanLocksWrites == [][Wrote => ~ approvalOwed]_vars
=============================================================================
