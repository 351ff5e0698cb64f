-------------------------- MODULE AgentStateMachine --------------------------
(***************************************************************************)
(* The agent state under every sequence of durable facts the reducer       *)
(* accepts.  A journal is replayed from disk, so the reducer may not rely  *)
(* on the engine's order: each action offers one kind of fact with         *)
(* arbitrary content, and a fact the reducer throws on leaves the state    *)
(* alone (strict replay stops there, degraded replay skips it).            *)
(*                                                                         *)
(* Three history variables say what the facts so far amount to.            *)
(***************************************************************************)
EXTENDS Reducer

CONSTANTS MaxModelCalls, MaxToolCalls, MaxIterations, MaxReplans, MaxRevision,
          MaxEvidence, MaxRepairs,
          SessionModes  \* the modes the user may choose

ASSUME SessionModesAreModes == SessionModes \subseteq Modes

ASSUME BoundsAreNaturals ==
    {MaxModelCalls, MaxToolCalls, MaxIterations, MaxReplans, MaxRevision,
     MaxEvidence, MaxRepairs} \subseteq Nat

VARIABLES
    state,        \* AgentState
    verdictAt,    \* the revision of the workspace the last verdict judged
    owedSources,  \* mutations since the last clean end of a run
    owedPaths     \* paths known to have changed since then

vars == <<state, verdictAt, owedSources, owedPaths>>
ghosts == <<verdictAt, owedSources, owedPaths>>

Init ==
    /\ \E mode \in SessionModes : state = InitialState(mode)
    /\ verdictAt = None
    /\ owedSources = {}
    /\ owedPaths = {}

-----------------------------------------------------------------------------
AcceptUserMessage ==
    /\ state.recovery.verifierRepairs < MaxRepairs
    /\ state' = HumanMessage(state)
    /\ UNCHANGED ghosts

CompleteAssistantMessage ==
    /\ state.used.modelCalls < MaxModelCalls
    /\ state' = AssistantMessage(state)
    /\ UNCHANGED ghosts

FailModelAttempt(retry) ==
    /\ state.used.modelCalls < MaxModelCalls
    /\ state' = ModelAttemptFailed(state, retry)
    /\ UNCHANGED ghosts

AcceptToolCall(c) ==
    /\ ~ CallAcceptRefused(state, c)
    /\ state' = ToolCallAccepted(state, c)
    /\ UNCHANGED ghosts

CompleteToolCall(c, ok, conflict) ==
    /\ state.used.toolCalls < MaxToolCalls
    /\ ~ (ok /\ conflict)
    /\ ~ CallCompleteRefused(state, c)
    /\ state' = ToolCallCompleted(state, c, ok, conflict)
    /\ UNCHANGED ghosts

TransitionAfterBatch(n) ==
    /\ state.iteration < MaxIterations
    /\ state' = ToolResultsReady(state, n)
    /\ UNCHANGED ghosts

TransitionOtherwise ==
    /\ state.iteration < MaxIterations
    /\ state' = LoopTransitioned(state)
    /\ UNCHANGED ghosts

CreatePlanVersion(p, approved) ==
    /\ state' = PlanVersionCreated(state, p, approved)
    /\ UNCHANGED ghosts

ApprovePlan(p) ==
    /\ ~ PlanApprovalRefused(state, p)
    /\ state' = PlanApproved(state, p)
    /\ UNCHANGED ghosts

RequestReplan(requiresReapproval) ==
    /\ state.recovery.replanCount < MaxReplans
    /\ state' = ReplanRequested(state, requiresReapproval)
    /\ UNCHANGED ghosts

ApplyAdjustment ==
    /\ ~ AdjustmentRefused(state)
    /\ state' = ReplanAdjustmentApplied(state)
    /\ UNCHANGED ghosts

ChangePlanStatus(p) ==
    /\ state' = PlanStatusChanged(state, p)
    /\ UNCHANGED ghosts

ChangeMode(to) ==
    /\ state' = ModeChanged(state, state.mode, to)
    /\ UNCHANGED ghosts

BranchDegraded ==
    /\ state' = RecoveryBranch(state)
    /\ UNCHANGED ghosts

ChangeTask(t, status) ==
    /\ state' = TaskChanged(state, t, status)
    /\ UNCHANGED ghosts

RecordEvidence ==
    /\ state.evidenceCount < MaxEvidence
    /\ state' = EvidenceRecorded(state)
    /\ UNCHANGED ghosts

CompleteVerification(verdict, valid, repairAttempt) ==
    /\ ~ VerificationRefused(verdict, valid, repairAttempt)
    /\ state' = VerificationCompleted(state, verdict, valid, repairAttempt)
    /\ verdictAt' = state.workspace.revision
    /\ UNCHANGED <<owedSources, owedPaths>>

StartMutation(m, scope, paths) ==
    /\ state.workspace.revision < MaxRevision
    /\ ~ MutationRefused(state, m, scope, paths)
    /\ state' = MutationStarted(state, m, scope, paths)
    /\ owedSources' = owedSources \cup {m}
    /\ owedPaths' = owedPaths \cup paths
    /\ UNCHANGED verdictAt

ChangeWorkspace(m, path, change) ==
    /\ state.workspace.revision < MaxRevision
    /\ state' = WorkspaceChanged(state, m, path, change)
    /\ owedSources' = owedSources \cup {IF m = None THEN Legacy ELSE m}
    /\ owedPaths' = owedPaths \cup {path}
    /\ UNCHANGED verdictAt

TerminateRun(reason) ==
    /\ state' = RunTerminated(state, reason)
    /\ owedSources' = IF reason \in CleanEnds THEN {} ELSE owedSources
    /\ owedPaths' = IF reason \in CleanEnds THEN {} ELSE owedPaths
    /\ UNCHANGED verdictAt

(* A process restart that takes the snapshot path with an empty tail. *)
RestoreSnapshot ==
    /\ RestoreAccepts(state)
    /\ state' = SnapshotRestored(state)
    /\ UNCHANGED ghosts

ToolFact ==
    \/ \E c \in Calls : AcceptToolCall(c)
    \/ \E c \in Calls, ok, conflict \in BOOLEAN : CompleteToolCall(c, ok, conflict)
    \/ \E n \in 1..Cardinality(Calls) : TransitionAfterBatch(n)

PlanFact ==
    \/ \E p \in Plans, approved \in BOOLEAN : CreatePlanVersion(p, approved)
    \/ \E p \in Plans : ApprovePlan(p)
    \/ \E p \in Plans : ChangePlanStatus(p)
    \/ \E reapproval \in BOOLEAN : RequestReplan(reapproval)
    \/ ApplyAdjustment

WorkFact ==
    \/ \E t \in Tasks, status \in TaskStatuses : ChangeTask(t, status)
    \/ RecordEvidence
    \/ \E verdict \in Verdicts, valid \in BOOLEAN,
          attempt \in (1..MaxRepairs) \cup {None} :
              CompleteVerification(verdict, valid, attempt)
    \/ \E m \in Mutations, scope \in Scopes, paths \in SUBSET Paths :
              StartMutation(m, scope, paths)
    \/ \E m \in Mutations \cup {None}, path \in Paths,
          change \in {"created", "modified", "deleted"} :
              ChangeWorkspace(m, path, change)

LoopFact ==
    \/ AcceptUserMessage
    \/ CompleteAssistantMessage
    \/ \E retry \in BOOLEAN : FailModelAttempt(retry)
    \/ TransitionOtherwise
    \/ \E to \in SessionModes : ChangeMode(to)
    \/ BranchDegraded
    \/ \E reason \in TerminalReasons : TerminateRun(reason)
    \/ RestoreSnapshot

Next == ToolFact \/ PlanFact \/ WorkFact \/ LoopFact

Spec == Init /\ [][Next]_vars

-----------------------------------------------------------------------------
(* The state and the history variables have their types. *)
TypeOK ==
    /\ state \in AgentState
    /\ verdictAt \in Nat \cup {None}
    /\ owedSources \subseteq Mutations \cup {Legacy}
    /\ owedPaths \subseteq Paths

(* A snapshot of any state the reducer can reach is accepted by             *)
(* restoreFromSnapshot: taking a checkpoint never makes a session           *)
(* unresumable (state.ts, the throws of restoreFromSnapshot).               *)
SnapshotRestorable == RestoreAccepts(state)

(* A verdict in the state judged the current workspace: no mutation, human  *)
(* goal, replan or approval leaves an older verdict behind to be reused.    *)
VerdictIsCurrent ==
    state.lastVerification # None => verdictAt = state.workspace.revision

(* Every mutation prepared or observed since the last clean end, and every  *)
(* path known to have changed, is in the open obligation: verdicts, plan    *)
(* approval, replans and abnormal ends never drop part of it.               *)
ObligationCoversMutations ==
    /\ state.workspace.pendingVerification = None =>
        owedSources = {} /\ owedPaths = {}
    /\ state.workspace.pendingVerification # None =>
        /\ owedSources = {src.id : src \in state.workspace.pendingVerification.sources}
        /\ owedPaths \subseteq state.workspace.pendingVerification.changedPaths

(* The engine locks writes while replanning /\ replanAwaitingApproval: the  *)
(* second flag never outlives the first, so an adjustment cannot leave a    *)
(* half-open gate.                                                          *)
AwaitingImpliesReplanning ==
    state.recovery.replanAwaitingApproval => state.recovery.replanning

(* A call is never both pending and settled, and the results keep a strict  *)
(* order below the count of settled calls, so the last-n window of          *)
(* tool_results_ready is well defined even when identifiers are re-issued.  *)
CallsSettleOnce ==
    /\ \A c \in state.pendingToolCalls : state.toolResults[c] = None
    /\ \A c \in Calls : state.toolResults[c] # None =>
           state.toolResults[c].at < state.used.toolCalls
    /\ \A c, d \in Calls :
        (c # d /\ state.toolResults[c] # None /\ state.toolResults[d] # None)
            => state.toolResults[c].at # state.toolResults[d].at
=============================================================================
