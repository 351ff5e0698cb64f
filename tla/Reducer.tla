------------------------------- MODULE Reducer -------------------------------
(***************************************************************************)
(* The pure reducer of the agent (src/core/state.ts): one operator per     *)
(* durable fact.  The AgentState record keeps the code's field names;     *)
(* used stands for state.budget.used.                                      *)
(* A case that throws an InvariantError has its condition in an operator   *)
(* named ...Refused or ...Accepts; callers decide what a throw does.       *)
(*                                                                         *)
(* Data is abstracted to what the code tells apart: a plan version is a    *)
(* value of Plans, a message list is left to the modules about messages,   *)
(* a tool result is its success, its conflict flag and its position in the *)
(* insertion order of toolResults.                                         *)
(***************************************************************************)
EXTENDS Naturals, FiniteSets

CONSTANTS
    Calls,      \* tool call identifiers
    Mutations,  \* identifiers of prepared workspace mutations
    Paths,      \* canonical workspace paths
    Plans,      \* plan versions (planId@version)
    Tasks,      \* task identifiers
    None,       \* an absent optional field
    Legacy      \* source identifier of a change that was never prepared

Modes == {"default", "acceptEdits", "plan", "dontAsk", "bypassPermissions"}
Verdicts == {"PASS", "FAIL", "PARTIAL"}
Scopes == {"paths", "workspace"}
Outcomes == {"unknown", "changed"}
TaskStatuses == {"pending", "in_progress", "completed", "blocked", "failed"}
Transitions == {"user_followup", "tool_results_ready", "other"}
CleanEnds == {"completed", "completed_with_unverified_items"}
TerminalReasons == CleanEnds \cup {"aborted", "budget_exhausted",
                                   "model_error", "invariant_violation"}

Result == [ok : BOOLEAN, conflict : BOOLEAN, at : Nat]
Source == [id : Mutations \cup {Legacy}, outcome : Outcomes]
ActivePlan == [plan : Plans, approved : BOOLEAN]
Verification == [verdict : Verdicts, valid : BOOLEAN]
Repair == [verdict : Verdicts, attempt : Nat]
Obligation == [revision : Nat, scope : Scopes, changedPaths : SUBSET Paths,
               sources : SUBSET Source]

(* RecoveryState, the used part of RunBudget, and AgentState.workspace. *)
RecoveryState ==
    [modelRetries : Nat,
     stopHookRetries : Nat,
     promptOverflowRecovered : BOOLEAN,
     verifierRepairs : Nat,
     replanCount : Nat,
     consecutiveFailures : Nat,
     versionConflicts : Nat,
     replanning : BOOLEAN,
     replanAwaitingApproval : BOOLEAN,
     degradedRecovery : BOOLEAN,
     lastProgressToolCalls : Nat]

BudgetUsed == [modelCalls : Nat, toolCalls : Nat]

Workspace ==
    [revision : Nat,
     pendingVerification : Obligation \cup {None},
     touchedFiles : SUBSET Paths,
     planScopedTouchedFiles : SUBSET Paths,
     createdFiles : SUBSET Paths,
     deletedFiles : SUBSET Paths]

(* AgentState: the fields the reducer reads or writes. *)
AgentState ==
    [phase : {"active", "terminated"},
     iteration : Nat,
     lastTransition : Transitions \cup {None},
     pendingToolCalls : SUBSET Calls,
     toolResults : [Calls -> Result \cup {None}],
     mode : Modes,
     prePlanMode : (Modes \ {"plan"}) \cup {None},
     activePlan : ActivePlan \cup {None},
     tasks : [Tasks -> TaskStatuses \cup {None}],
     evidenceCount : Nat,
     lastVerification : Verification \cup {None},
     pendingVerificationRepair : Repair \cup {None},
     recovery : RecoveryState,
     used : BudgetUsed,
     workspace : Workspace]

ASSUME CallsAreFinite == IsFiniteSet(Calls)

ASSUME NoneIsAbsent ==
    /\ None \notin Nat
    /\ None \notin Mutations \cup {Legacy}
    /\ Legacy \notin Mutations
    /\ None \notin Result
    /\ None \notin Obligation
    /\ None \notin Verification
    /\ None \notin Repair

InitialRecovery ==
    [modelRetries |-> 0,
     stopHookRetries |-> 0,
     promptOverflowRecovered |-> FALSE,
     verifierRepairs |-> 0,
     replanCount |-> 0,
     consecutiveFailures |-> 0,
     versionConflicts |-> 0,
     replanning |-> FALSE,
     replanAwaitingApproval |-> FALSE,
     degradedRecovery |-> FALSE,
     lastProgressToolCalls |-> 0]

(* createInitialState with the configured mode. *)
InitialState(mode) ==
    [phase |-> "active",
     iteration |-> 0,
     lastTransition |-> None,
     pendingToolCalls |-> {},
     toolResults |-> [c \in Calls |-> None],
     mode |-> mode,
     prePlanMode |-> None,
     activePlan |-> None,
     tasks |-> [t \in Tasks |-> None],
     evidenceCount |-> 0,
     lastVerification |-> None,
     pendingVerificationRepair |-> None,
     recovery |-> InitialRecovery,
     used |-> [modelCalls |-> 0, toolCalls |-> 0],
     workspace |-> [revision |-> 0,
                    pendingVerification |-> None,
                    touchedFiles |-> {},
                    planScopedTouchedFiles |-> {},
                    createdFiles |-> {},
                    deletedFiles |-> {}]]

-----------------------------------------------------------------------------
(* Messages and model budget. *)

Larger(m, n) == IF m >= n THEN m ELSE n

(* user.message.accepted with meta.source = 'human'.  A verdict belongs to  *)
(* the request that produced it: a new human goal drops it, and a non-PASS  *)
(* one becomes a repair obligation.                                         *)
HumanMessage(s) ==
    LET verdict == s.lastVerification
        repair  == verdict # None /\ verdict.verdict # "PASS"
        attempt == Larger(1, s.recovery.verifierRepairs + 1)
    IN  [s EXCEPT
          !.lastTransition = IF s.phase = "terminated" \/ verdict # None
                             THEN "user_followup" ELSE @,
          !.pendingVerificationRepair =
              IF repair THEN [verdict |-> verdict.verdict, attempt |-> attempt]
                        ELSE @,
          !.recovery.verifierRepairs = IF repair THEN attempt ELSE @,
          !.lastVerification = None]

AssistantMessage(s) == [s EXCEPT !.used.modelCalls = @ + 1]

ModelAttemptFailed(s, retry) ==
    [s EXCEPT !.used.modelCalls = @ + 1,
              !.recovery.modelRetries = IF retry THEN @ + 1 ELSE @]

-----------------------------------------------------------------------------
(* Tool call lifecycle. *)

(* tool.call.accepted throws unique_tool_call_id while the call is pending. *)
CallAcceptRefused(s, c) == c \in s.pendingToolCalls

(* Faulty variant: a re-issued identifier keeps its old result. *)
ToolCallAcceptedKeepsResult(s, c) ==
    [s EXCEPT !.pendingToolCalls = @ \cup {c}]

(* A re-issued identifier restarts its lifecycle: the old result goes. *)
ToolCallAccepted(s, c) ==
    [s EXCEPT !.pendingToolCalls = @ \cup {c}, !.toolResults[c] = None]

(* The calls of a batch are accepted one after another. *)
ToolCallsAccepted(s, batch) ==
    [s EXCEPT !.pendingToolCalls = @ \cup batch,
              !.toolResults = [c \in Calls |-> IF c \in batch THEN None ELSE @[c]]]

(* tool.call.completed throws single_terminal_tool_result. *)
CallCompleteRefused(s, c) == s.toolResults[c] # None

ToolCallCompleted(s, c, ok, conflict) ==
    [s EXCEPT
      !.pendingToolCalls = @ \ {c},
      !.toolResults[c] =
          [ok |-> ok, conflict |-> conflict, at |-> s.used.toolCalls],
      !.used.toolCalls = @ + 1]

(* Synthetic results for the calls a dead process left open, one after      *)
(* another.                                                                 *)
CallsInterrupted(s) ==
    LET open  == s.pendingToolCalls
        order == CHOOSE f \in [open -> 1..Cardinality(open)] :
                     \A c, d \in open : f[c] = f[d] => c = d
    IN  [s EXCEPT
          !.pendingToolCalls = {},
          !.toolResults = [c \in Calls |->
              IF c \in open
              THEN [ok |-> FALSE, conflict |-> FALSE,
                    at |-> s.used.toolCalls + order[c] - 1]
              ELSE @[c]],
          !.used.toolCalls = @ + Cardinality(open)]

(* Object.values(toolResults).slice(-n): the n results inserted last. *)
LatestResults(s, n) ==
    LET done == {c \in Calls : s.toolResults[c] # None}
    IN  {c \in done : Cardinality({d \in done :
            s.toolResults[d].at > s.toolResults[c].at}) < n}

AllFailed(s, batch) ==
    batch # {} /\ \A c \in batch : ~ s.toolResults[c].ok

Conflicts(s, batch) == {c \in batch : s.toolResults[c].conflict}

(* loop.transitioned with reason tool_results_ready. *)
ToolResultsReady(s, callCount) ==
    LET batch == LatestResults(s, callCount)
    IN  [s EXCEPT
          !.iteration = @ + 1,
          !.lastTransition = "tool_results_ready",
          !.recovery = [s.recovery EXCEPT
              !.consecutiveFailures = IF AllFailed(s, batch) THEN @ + 1 ELSE 0,
              !.versionConflicts = @ + Cardinality(Conflicts(s, batch))]]

(* loop.transitioned with any other reason. *)
LoopTransitioned(s) ==
    [s EXCEPT !.iteration = @ + 1, !.lastTransition = "other"]

-----------------------------------------------------------------------------
(* Plans, replanning and modes. *)

PlanVersionCreated(s, p, approved) ==
    [s EXCEPT !.activePlan = [plan |-> p, approved |-> approved],
              !.recovery.lastProgressToolCalls = s.used.toolCalls + 1]

(* plan.approved throws plan_approval_version_binding. *)
PlanApprovalRefused(s, p) == s.activePlan = None \/ s.activePlan.plan # p

PlanApproved(s, p) ==
    [s EXCEPT !.activePlan = [plan |-> p, approved |-> TRUE],
              !.workspace.planScopedTouchedFiles = {},
              !.recovery = [s.recovery EXCEPT
                  !.replanning = FALSE,
                  !.replanAwaitingApproval = FALSE,
                  !.verifierRepairs = 0],
              !.lastVerification = None,
              !.pendingVerificationRepair = None]

ReplanRequested(s, requiresReapproval) ==
    [s EXCEPT !.recovery = [s.recovery EXCEPT
                  !.replanning = TRUE,
                  !.replanAwaitingApproval = requiresReapproval,
                  !.replanCount = @ + 1,
                  !.verifierRepairs = 0,
                  !.consecutiveFailures = 0,
                  !.versionConflicts = 0],
              !.lastVerification = None,
              !.pendingVerificationRepair = None]

(* Faulty variant: a reapproval does not refuse the adjustment. *)
AdjustmentRefusedOnlyWithoutRequest(s) == ~ s.recovery.replanning

(* replan.adjustment.applied throws without a request, or on a reapproval. *)
AdjustmentRefused(s) ==
    ~ s.recovery.replanning \/ s.recovery.replanAwaitingApproval

ReplanAdjustmentApplied(s) == [s EXCEPT !.recovery.replanning = FALSE]

(* Any status change of the active version revokes its approval. *)
PlanStatusChanged(s, p) ==
    IF s.activePlan # None /\ s.activePlan.plan = p
    THEN [s EXCEPT !.activePlan = [plan |-> p, approved |-> FALSE]]
    ELSE s

ModeChanged(s, from, to) ==
    LET leaving  == from = "plan" /\ to # "plan"
        entering == to = "plan" /\ from # "plan"
    IN  [s EXCEPT
          !.mode = IF leaving /\ s.prePlanMode # None THEN s.prePlanMode ELSE to,
          !.prePlanMode = IF leaving THEN None
                          ELSE IF entering THEN from ELSE @]

RecoveryBranch(s) ==
    [s EXCEPT !.mode = "plan", !.recovery.degradedRecovery = TRUE]

-----------------------------------------------------------------------------
(* Tasks, evidence and verification. *)

TaskChanged(s, t, status) ==
    [s EXCEPT !.tasks[t] = status,
              !.recovery.lastProgressToolCalls = s.used.toolCalls + 1]

(* One fact for each task of DOMAIN status, one after another. *)
TasksChanged(s, status) ==
    IF DOMAIN status = {} THEN s
    ELSE [s EXCEPT
           !.tasks = [t \in Tasks |-> IF t \in DOMAIN status THEN status[t] ELSE @[t]],
           !.recovery.lastProgressToolCalls = s.used.toolCalls + 1]

EvidenceRecorded(s) ==
    [s EXCEPT !.evidenceCount = @ + 1,
              !.recovery.lastProgressToolCalls = s.used.toolCalls + 1]

(* verification.completed throws on an invalid PASS, and on a repair        *)
(* attempt that is not a positive number attached to a FAIL.                *)
VerificationRefused(verdict, valid, repairAttempt) ==
    \/ verdict = "PASS" /\ ~ valid
    \/ repairAttempt # None /\ (verdict # "FAIL" \/ repairAttempt < 1)

(* Faulty variant: a final verdict does not clear the pending repair. *)
VerificationCompletedKeepsRepair(s, verdict, valid, repairAttempt) ==
    IF repairAttempt # None
    THEN [s EXCEPT
           !.lastVerification = None,
           !.pendingVerificationRepair =
               [verdict |-> verdict, attempt |-> repairAttempt],
           !.recovery.verifierRepairs = Larger(@, repairAttempt)]
    ELSE [s EXCEPT
           !.lastVerification = [verdict |-> verdict, valid |-> valid],
           !.recovery.verifierRepairs = IF verdict = "PASS" THEN 0 ELSE @]

VerificationCompleted(s, verdict, valid, repairAttempt) ==
    IF repairAttempt # None
    THEN [s EXCEPT
           !.lastVerification = None,
           !.pendingVerificationRepair =
               [verdict |-> verdict, attempt |-> repairAttempt],
           !.recovery.verifierRepairs = Larger(@, repairAttempt)]
    ELSE [s EXCEPT
           !.lastVerification = [verdict |-> verdict, valid |-> valid],
           !.pendingVerificationRepair = None,
           !.recovery.verifierRepairs = IF verdict = "PASS" THEN 0 ELSE @]

-----------------------------------------------------------------------------
(* Workspace mutations and the end of a run. *)

HasSource(s, m) ==
    /\ s.workspace.pendingVerification # None
    /\ \E src \in s.workspace.pendingVerification.sources : src.id = m

(* workspace.mutation.started throws on an empty path scope, or when the    *)
(* open obligation already lists the mutation.                              *)
MutationRefused(s, m, scope, paths) ==
    (scope = "paths" /\ paths = {}) \/ HasSource(s, m)

Prior(s) == IF s.workspace.pendingVerification = None
            THEN [revision |-> 0, scope |-> "paths", changedPaths |-> {},
                  sources |-> {}]
            ELSE s.workspace.pendingVerification

PreparedObligation(s, m, scope, paths) ==
    [revision |-> s.workspace.revision + 1,
     scope |-> IF Prior(s).scope = "workspace" THEN "workspace" ELSE scope,
     changedPaths |-> Prior(s).changedPaths \cup paths,
     sources |-> Prior(s).sources \cup {[id |-> m, outcome |-> "unknown"]}]

(* Faulty variant: a mutation keeps the verdict on the older revision. *)
MutationStartedKeepsVerdict(s, m, scope, paths) ==
    [s EXCEPT
      !.workspace = [s.workspace EXCEPT
          !.revision = @ + 1,
          !.pendingVerification = PreparedObligation(s, m, scope, paths)]]

MutationStarted(s, m, scope, paths) ==
    [s EXCEPT
      !.workspace = [s.workspace EXCEPT
          !.revision = @ + 1,
          !.pendingVerification = PreparedObligation(s, m, scope, paths)],
      !.lastVerification = None]

(* The obligation after workspace.changed: a prepared source is marked, any *)
(* other change opens a new revision (compatibility path).                  *)
Prepared(s, m) == m # None /\ HasSource(s, m)

(* Faulty variant: an unprepared change has no source identifier. *)
ObservedObligationUnnamed(s, m, path) ==
    [revision |-> s.workspace.revision + 1,
     scope |-> Prior(s).scope,
     changedPaths |-> Prior(s).changedPaths \cup {path},
     sources |-> Prior(s).sources \cup {[id |-> m, outcome |-> "changed"]}]

ObservedObligation(s, m, path) ==
    IF Prepared(s, m)
    THEN [s.workspace.pendingVerification EXCEPT
           !.changedPaths = @ \cup {path},
           !.sources = {IF src.id = m THEN [src EXCEPT !.outcome = "changed"]
                        ELSE src : src \in @}]
    ELSE [revision |-> s.workspace.revision + 1,
          scope |-> Prior(s).scope,
          changedPaths |-> Prior(s).changedPaths \cup {path},
          sources |-> Prior(s).sources \cup
              {[id |-> IF m = None THEN Legacy ELSE m, outcome |-> "changed"]}]

WorkspaceChanged(s, m, path, change) ==
    [s EXCEPT
      !.workspace = [s.workspace EXCEPT
          !.pendingVerification = ObservedObligation(s, m, path),
          !.revision = IF Prepared(s, m) THEN @ ELSE @ + 1,
          !.touchedFiles = @ \cup {path},
          !.planScopedTouchedFiles = @ \cup {path},
          !.createdFiles = IF change = "created" THEN @ \cup {path} ELSE @,
          !.deletedFiles = IF change = "created" THEN @ \ {path}
                           ELSE IF change = "deleted" THEN @ \cup {path}
                           ELSE @],
      !.recovery.lastProgressToolCalls = s.used.toolCalls + 1,
      !.lastVerification = None]

(* Faulty variant: every end closes the obligation. *)
RunTerminatedForgets(s, reason) ==
    [s EXCEPT !.phase = "terminated", !.workspace.pendingVerification = None]

(* run.terminated: only a clean end closes the verification obligation. *)
RunTerminated(s, reason) ==
    [s EXCEPT !.phase = "terminated",
              !.workspace.pendingVerification =
                  IF reason \in CleanEnds THEN None ELSE @]

-----------------------------------------------------------------------------
(* Snapshots. *)

(* createSnapshot followed by restoreFromSnapshot: every modelled field but *)
(* the phase is carried over.                                               *)
SnapshotRestored(s) == [s EXCEPT !.phase = "active"]

(* The validation restoreFromSnapshot performs before it restores. *)
ObligationRestorable(revision, o) ==
    o # None => /\ o.revision = revision
                /\ o.scope = "paths" => o.changedPaths # {}
                /\ o.sources # {}

VerificationRestorable(s) ==
    /\ s.lastVerification # None => s.pendingVerificationRepair = None
    /\ s.lastVerification # None =>
           (s.lastVerification.verdict = "PASS" => s.lastVerification.valid)
    /\ s.pendingVerificationRepair # None =>
           /\ s.pendingVerificationRepair.verdict # "PASS"
           /\ s.pendingVerificationRepair.attempt >= 1

RestoreAccepts(s) ==
    /\ ObligationRestorable(s.workspace.revision,
                            s.workspace.pendingVerification)
    /\ VerificationRestorable(s)
=============================================================================
