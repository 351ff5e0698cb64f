--------------------------- MODULE AgentStateProofs ---------------------------
(***************************************************************************)
(* Proofs about AgentStateMachine.  The invariants fall into three groups, *)
(* each depending on few fields (verification and workspace, replan gate,  *)
(* tool calls), so an action only has to argue about the group it touches, *)
(* with the Effect lemma of its reducer operator.                          *)
(***************************************************************************)
EXTENDS AgentStateMachine, ReducerProofs

-----------------------------------------------------------------------------
(* The inductive invariant and the frame of each of its groups. *)

VerificationInv ==
    SnapshotRestorable /\ VerdictIsCurrent /\ ObligationCoversMutations

InductiveInvariant ==
    TypeOK /\ VerificationInv /\ AwaitingImpliesReplanning /\ CallsSettleOnce

(* A fact that leaves verdict, repair, revision and obligation alone        *)
(* preserves what the reducer promises about verification.                  *)
LEMMA VerificationFrame ==
    ASSUME VerificationInv, SameVerification(state, state'), UNCHANGED ghosts
    PROVE  VerificationInv'
BY DEF VerificationInv, SnapshotRestorable, VerdictIsCurrent,
       ObligationCoversMutations, RestoreAccepts, ObligationRestorable,
       VerificationRestorable, SameVerification, ghosts

(* A fact that leaves the two replan flags alone preserves their            *)
(* agreement.                                                               *)
LEMMA GateFrame ==
    ASSUME AwaitingImpliesReplanning, SameGate(state, state')
    PROVE  AwaitingImpliesReplanning'
BY DEF AwaitingImpliesReplanning, SameGate

(* A fact that leaves pending calls, results and the call count alone       *)
(* preserves the call lifecycle.                                            *)
LEMMA CallsFrame ==
    ASSUME CallsSettleOnce, SameCalls(state, state')
    PROVE  CallsSettleOnce'
BY DEF CallsSettleOnce, SameCalls

(* A fact that leaves all three parts alone and keeps the state typed       *)
(* preserves the inductive invariant.                                       *)
LEMMA FrameStep ==
    ASSUME InductiveInvariant, state' \in AgentState, UNCHANGED ghosts,
           SameVerification(state, state'), SameGate(state, state'),
           SameCalls(state, state')
    PROVE  InductiveInvariant'
<1>1. TypeOK'
  BY DEF InductiveInvariant, TypeOK, ghosts
<1>2. VerificationInv' /\ AwaitingImpliesReplanning' /\ CallsSettleOnce'
  BY VerificationFrame, GateFrame, CallsFrame DEF InductiveInvariant
<1> QED BY <1>1, <1>2 DEF InductiveInvariant

(* The facts of the tool call lifecycle preserve the inductive invariant. *)
LEMMA ToolFactPreserves ==
    ASSUME InductiveInvariant, ToolFact
    PROVE  InductiveInvariant'
<1>0. /\ state \in AgentState
      /\ TypeOK /\ VerificationInv /\ AwaitingImpliesReplanning /\ CallsSettleOnce
  BY DEF InductiveInvariant, TypeOK
<1>1. ASSUME NEW c \in Calls, AcceptToolCall(c)
      PROVE  InductiveInvariant'
  <2>1. /\ state' = ToolCallAccepted(state, c)
        /\ UNCHANGED ghosts
    BY <1>1 DEF AcceptToolCall
  <2>2. /\ state' \in AgentState
        /\ SameVerification(state, state') /\ SameGate(state, state')
        /\ state'.used = state.used
        /\ state'.pendingToolCalls = state.pendingToolCalls \cup {c}
        /\ state'.toolResults = [state.toolResults EXCEPT ![c] = None]
    BY <1>0, <2>1, ToolCallAcceptedEffect
  <2>3. TypeOK' /\ VerificationInv' /\ AwaitingImpliesReplanning'
    BY <1>0, <2>1, <2>2, VerificationFrame, GateFrame DEF TypeOK, ghosts
  <2>4. state.toolResults \in [Calls -> Result \cup {None}]
    BY <1>0 DEF AgentState
  <2>5. CallsSettleOnce'
    BY <1>0, <2>2, <2>4 DEF CallsSettleOnce
  <2> QED BY <2>3, <2>5 DEF InductiveInvariant
<1>2. ASSUME NEW c \in Calls, NEW ok \in BOOLEAN, NEW conflict \in BOOLEAN,
             CompleteToolCall(c, ok, conflict)
      PROVE  InductiveInvariant'
  <2>1. /\ state' = ToolCallCompleted(state, c, ok, conflict)
        /\ UNCHANGED ghosts
    BY <1>2 DEF CompleteToolCall
  <2>2. /\ state' \in AgentState
        /\ SameVerification(state, state') /\ SameGate(state, state')
        /\ state'.used.toolCalls = state.used.toolCalls + 1
        /\ state'.pendingToolCalls = state.pendingToolCalls \ {c}
    BY <1>0, <2>1, ToolCallCompletedEffect
  <2>3. PICK r \in Result :
            /\ r.at = state.used.toolCalls
            /\ state'.toolResults = [state.toolResults EXCEPT ![c] = r]
    <3> DEFINE t == ToolCallCompleted(state, c, ok, conflict)
    <3>1. \E r \in Result :
              /\ r.at = state.used.toolCalls
              /\ t.toolResults = [state.toolResults EXCEPT ![c] = r]
      BY <1>0, ToolCallCompletedEffect
    <3> HIDE DEF t
    <3> QED BY <2>1, <3>1, Zenon DEF t
  <2>4. TypeOK' /\ VerificationInv' /\ AwaitingImpliesReplanning'
    BY <1>0, <2>1, <2>2, VerificationFrame, GateFrame DEF TypeOK, ghosts
  <2>5. /\ state.toolResults \in [Calls -> Result \cup {None}]
        /\ state.pendingToolCalls \subseteq Calls
        /\ state.used.toolCalls \in Nat
    BY <1>0 DEF AgentState, BudgetUsed
  <2>6. \A d \in Calls : state.toolResults[d] # None =>
            /\ state.toolResults[d].at \in Nat
            /\ state.toolResults[d].at < state.used.toolCalls
    BY <1>0, <2>5 DEF CallsSettleOnce, Result
  <2>7. \A d \in Calls :
            state'.toolResults[d] = IF d = c THEN r ELSE state.toolResults[d]
    BY <2>3, <2>5
  <2>8. \A d \in state'.pendingToolCalls : state'.toolResults[d] = None
    BY <1>0, <2>2, <2>5, <2>7 DEF CallsSettleOnce
  <2>9. \A d \in Calls : state'.toolResults[d] # None =>
            state'.toolResults[d].at < state'.used.toolCalls
    BY <2>2, <2>3, <2>5, <2>6, <2>7
  <2>10. ASSUME NEW d \in Calls, NEW e \in Calls, d # e,
                state'.toolResults[d] # None, state'.toolResults[e] # None
         PROVE  state'.toolResults[d].at # state'.toolResults[e].at
    <3>1. CASE d = c
      BY <2>3, <2>5, <2>6, <2>7, <2>10, <3>1
    <3>2. CASE e = c
      BY <2>3, <2>5, <2>6, <2>7, <2>10, <3>2
    <3>3. CASE d # c /\ e # c
      BY <1>0, <2>7, <2>10, <3>3 DEF CallsSettleOnce
    <3> QED BY <3>1, <3>2, <3>3
  <2>11. CallsSettleOnce'
    BY <2>8, <2>9, <2>10 DEF CallsSettleOnce
  <2> QED BY <2>4, <2>11 DEF InductiveInvariant
<1>3. ASSUME NEW n, TransitionAfterBatch(n)
      PROVE  InductiveInvariant'
  BY <1>0, <1>3, ToolResultsReadyEffect, FrameStep DEF TransitionAfterBatch
<1> QED BY <1>1, <1>2, <1>3 DEF ToolFact

(* The facts of plans and replans preserve the inductive invariant. *)
LEMMA PlanFactPreserves ==
    ASSUME InductiveInvariant, PlanFact
    PROVE  InductiveInvariant'
<1>0. /\ state \in AgentState
      /\ TypeOK /\ VerificationInv /\ AwaitingImpliesReplanning /\ CallsSettleOnce
  BY DEF InductiveInvariant, TypeOK
<1>1. ASSUME NEW p \in Plans, NEW approved \in BOOLEAN,
             CreatePlanVersion(p, approved)
      PROVE  InductiveInvariant'
  BY <1>0, <1>1, PlanVersionCreatedEffect, FrameStep DEF CreatePlanVersion
<1>2. ASSUME NEW p \in Plans, ApprovePlan(p)
      PROVE  InductiveInvariant'
  <2>1. state' = PlanApproved(state, p) /\ UNCHANGED ghosts
    BY <1>2 DEF ApprovePlan
  <2>2. /\ state' \in AgentState
        /\ SameCalls(state, state')
        /\ ~ state'.recovery.replanAwaitingApproval
        /\ state'.workspace =
               [state.workspace EXCEPT !.planScopedTouchedFiles = {}]
        /\ state'.lastVerification = None
        /\ state'.pendingVerificationRepair = None
    BY <1>0, <2>1, PlanApprovedEffect
  <2>3. state.workspace \in Workspace
    BY <1>0 DEF AgentState
  <2>4. /\ state'.workspace.revision = state.workspace.revision
        /\ state'.workspace.pendingVerification =
               state.workspace.pendingVerification
    BY <2>2, <2>3 DEF Workspace
  <2>5. VerificationInv'
    BY <1>0, <2>1, <2>2, <2>4
       DEF VerificationInv, SnapshotRestorable, VerdictIsCurrent,
           ObligationCoversMutations, RestoreAccepts, ObligationRestorable,
           VerificationRestorable, ghosts
  <2>6. TypeOK' /\ AwaitingImpliesReplanning' /\ CallsSettleOnce'
    BY <1>0, <2>1, <2>2, CallsFrame DEF TypeOK, AwaitingImpliesReplanning, ghosts
  <2> QED BY <2>5, <2>6 DEF InductiveInvariant
<1>3. ASSUME NEW p \in Plans, ChangePlanStatus(p)
      PROVE  InductiveInvariant'
  BY <1>0, <1>3, PlanStatusChangedEffect, FrameStep DEF ChangePlanStatus
<1>4. ASSUME NEW reapproval \in BOOLEAN, RequestReplan(reapproval)
      PROVE  InductiveInvariant'
  <2>1. state' = ReplanRequested(state, reapproval) /\ UNCHANGED ghosts
    BY <1>4 DEF RequestReplan
  <2>2. /\ state' \in AgentState
        /\ SameCalls(state, state')
        /\ state'.recovery.replanning
        /\ state'.workspace = state.workspace
        /\ state'.lastVerification = None
        /\ state'.pendingVerificationRepair = None
    BY <1>0, <2>1, ReplanRequestedEffect
  <2>3. VerificationInv'
    BY <1>0, <2>1, <2>2
       DEF VerificationInv, SnapshotRestorable, VerdictIsCurrent,
           ObligationCoversMutations, RestoreAccepts, ObligationRestorable,
           VerificationRestorable, ghosts
  <2>4. TypeOK' /\ AwaitingImpliesReplanning' /\ CallsSettleOnce'
    BY <1>0, <2>1, <2>2, CallsFrame DEF TypeOK, AwaitingImpliesReplanning, ghosts
  <2> QED BY <2>3, <2>4 DEF InductiveInvariant
<1>5. ASSUME ApplyAdjustment
      PROVE  InductiveInvariant'
  <2>1. /\ state' = ReplanAdjustmentApplied(state) /\ UNCHANGED ghosts
        /\ ~ state.recovery.replanAwaitingApproval
    BY <1>5 DEF ApplyAdjustment, AdjustmentRefused
  <2>2. /\ state' \in AgentState
        /\ SameVerification(state, state') /\ SameCalls(state, state')
        /\ ~ state'.recovery.replanAwaitingApproval
    BY <1>0, <2>1, AdjustmentEffect
  <2>3. TypeOK' /\ AwaitingImpliesReplanning' /\ CallsSettleOnce'
    BY <1>0, <2>1, <2>2, CallsFrame DEF TypeOK, AwaitingImpliesReplanning, ghosts
  <2> QED BY <1>0, <2>1, <2>2, <2>3, VerificationFrame DEF InductiveInvariant
<1> QED BY <1>1, <1>2, <1>3, <1>4, <1>5 DEF PlanFact

(* The facts of tasks, evidence, verification and workspace mutations       *)
(* preserve the inductive invariant.                                        *)
LEMMA WorkFactPreserves ==
    ASSUME InductiveInvariant, WorkFact
    PROVE  InductiveInvariant'
<1>0. /\ state \in AgentState
      /\ TypeOK /\ VerificationInv /\ AwaitingImpliesReplanning /\ CallsSettleOnce
  BY DEF InductiveInvariant, TypeOK
<1> DEFINE wsp == state.workspace
<1>a. /\ wsp.revision \in Nat
      /\ wsp.pendingVerification \in Obligation \cup {None}
  BY <1>0 DEF AgentState, Workspace
<1>b. /\ ObligationRestorable(wsp.revision, wsp.pendingVerification)
      /\ VerificationRestorable(state)
  BY <1>0 DEF VerificationInv, SnapshotRestorable, RestoreAccepts
(* The prior obligation, empty when none is open, covers what is owed. *)
<1>c. /\ owedSources = SourceIds(Prior(state))
      /\ owedPaths \subseteq Prior(state).changedPaths
  <2>1. CASE wsp.pendingVerification = None
    BY <1>0, <2>1 DEF VerificationInv, ObligationCoversMutations, Prior, SourceIds
  <2>2. CASE wsp.pendingVerification # None
    BY <1>0, <2>2 DEF VerificationInv, ObligationCoversMutations, Prior, SourceIds
  <2> QED BY <2>1, <2>2
<1>1. ASSUME NEW t \in Tasks, NEW status \in TaskStatuses, ChangeTask(t, status)
      PROVE  InductiveInvariant'
  BY <1>0, <1>1, TaskChangedEffect, FrameStep DEF ChangeTask
<1>2. ASSUME RecordEvidence
      PROVE  InductiveInvariant'
  BY <1>0, <1>2, EvidenceRecordedEffect, FrameStep DEF RecordEvidence
<1>3. ASSUME NEW verdict \in Verdicts, NEW valid \in BOOLEAN,
             NEW attempt \in (1..MaxRepairs) \cup {None},
             CompleteVerification(verdict, valid, attempt)
      PROVE  InductiveInvariant'
  <2>1. attempt \in Nat \cup {None}
    BY BoundsAreNaturals
  <2>2. /\ state' = VerificationCompleted(state, verdict, valid, attempt)
        /\ ~ VerificationRefused(verdict, valid, attempt)
        /\ verdictAt' = wsp.revision
        /\ UNCHANGED <<owedSources, owedPaths>>
    BY <1>3 DEF CompleteVerification
  <2>3. /\ state' \in AgentState
        /\ SameGate(state, state') /\ SameCalls(state, state')
        /\ state'.workspace = wsp
        /\ VerificationRestorable(state')
    BY <1>0, <2>1, <2>2, VerificationCompletedEffect
  <2>4. VerificationRestorable(state)'
    BY <2>3 DEF VerificationRestorable
  <2>5. VerificationInv'
    BY <1>0, <2>2, <2>3, <2>4
       DEF VerificationInv, SnapshotRestorable, VerdictIsCurrent,
           ObligationCoversMutations, RestoreAccepts, ObligationRestorable
  <2>6. TypeOK' /\ AwaitingImpliesReplanning' /\ CallsSettleOnce'
    BY <1>0, <1>a, <2>2, <2>3, GateFrame, CallsFrame DEF TypeOK
  <2> QED BY <2>5, <2>6 DEF InductiveInvariant
<1>4. ASSUME NEW m \in Mutations, NEW scope \in Scopes, NEW paths \in SUBSET Paths,
             StartMutation(m, scope, paths)
      PROVE  InductiveInvariant'
  <2> DEFINE o == PreparedObligation(state, m, scope, paths)
  <2>1. /\ state' = MutationStarted(state, m, scope, paths)
        /\ ~ MutationRefused(state, m, scope, paths)
        /\ owedSources' = owedSources \cup {m}
        /\ owedPaths' = owedPaths \cup paths
        /\ UNCHANGED verdictAt
    BY <1>4 DEF StartMutation
  <2>2. /\ state' \in AgentState
        /\ SameGate(state, state') /\ SameCalls(state, state')
        /\ state'.lastVerification = None
        /\ state'.pendingVerificationRepair = state.pendingVerificationRepair
        /\ state'.workspace.revision = wsp.revision + 1
        /\ state'.workspace.pendingVerification = o
    BY <1>0, <2>1, MutationStartedEffect
  <2>3. /\ o \in Obligation
        /\ ObligationRestorable(wsp.revision + 1, o)
        /\ SourceIds(o) = SourceIds(Prior(state)) \cup {m}
        /\ o.changedPaths = Prior(state).changedPaths \cup paths
    BY <1>0, <2>1, PreparedObligationFacts
  <2> HIDE DEF o
  <2>4. SnapshotRestorable' /\ VerdictIsCurrent'
    BY <1>b, <2>2, <2>3
       DEF SnapshotRestorable, VerdictIsCurrent, RestoreAccepts,
           ObligationRestorable, VerificationRestorable
  <2>5. ObligationCoversMutations'
    BY <1>c, <2>1, <2>2, <2>3, NoneIsAbsent
       DEF ObligationCoversMutations, SourceIds
  <2>6. TypeOK' /\ AwaitingImpliesReplanning' /\ CallsSettleOnce'
    BY <1>0, <2>1, <2>2, GateFrame, CallsFrame DEF TypeOK
  <2> QED BY <2>4, <2>5, <2>6 DEF InductiveInvariant, VerificationInv
<1>5. ASSUME NEW m \in Mutations \cup {None}, NEW path \in Paths, NEW change,
             ChangeWorkspace(m, path, change)
      PROVE  InductiveInvariant'
  <2> DEFINE o   == ObservedObligation(state, m, path)
             rev == IF Prepared(state, m) THEN wsp.revision ELSE wsp.revision + 1
             src == IF m = None THEN Legacy ELSE m
  <2>1. /\ state' = WorkspaceChanged(state, m, path, change)
        /\ owedSources' = owedSources \cup {src}
        /\ owedPaths' = owedPaths \cup {path}
        /\ UNCHANGED verdictAt
    BY <1>5 DEF ChangeWorkspace
  <2>2. /\ state' \in AgentState
        /\ SameGate(state, state') /\ SameCalls(state, state')
        /\ state'.lastVerification = None
        /\ state'.pendingVerificationRepair = state.pendingVerificationRepair
        /\ state'.workspace.revision = rev
        /\ state'.workspace.pendingVerification = o
    BY <1>0, <1>b, <2>1, WorkspaceChangedEffect
  <2>3. /\ o \in Obligation
        /\ ObligationRestorable(rev, o)
        /\ SourceIds(o) = SourceIds(Prior(state)) \cup {src}
        /\ o.changedPaths = Prior(state).changedPaths \cup {path}
    BY <1>0, <1>b, ObservedObligationFacts
  <2>4. src \in Mutations \cup {Legacy}
    OBVIOUS
  <2> HIDE DEF o, rev, src
  <2>5. SnapshotRestorable' /\ VerdictIsCurrent'
    BY <1>b, <2>2, <2>3
       DEF SnapshotRestorable, VerdictIsCurrent, RestoreAccepts,
           ObligationRestorable, VerificationRestorable
  <2>6. ObligationCoversMutations'
    BY <1>c, <2>1, <2>2, <2>3, NoneIsAbsent
       DEF ObligationCoversMutations, SourceIds
  <2>7. TypeOK' /\ AwaitingImpliesReplanning' /\ CallsSettleOnce'
    BY <1>0, <2>1, <2>2, <2>4, GateFrame, CallsFrame DEF TypeOK
  <2> QED BY <2>5, <2>6, <2>7 DEF InductiveInvariant, VerificationInv
<1> QED BY <1>1, <1>2, <1>3, <1>4, <1>5 DEF WorkFact

(* Messages, model attempts, mode changes, ends of runs and snapshot        *)
(* restores preserve the inductive invariant.                               *)
LEMMA LoopFactPreserves ==
    ASSUME InductiveInvariant, LoopFact
    PROVE  InductiveInvariant'
<1>0. /\ state \in AgentState
      /\ TypeOK /\ VerificationInv /\ AwaitingImpliesReplanning /\ CallsSettleOnce
  BY DEF InductiveInvariant, TypeOK
<1>1. ASSUME AcceptUserMessage
      PROVE  InductiveInvariant'
  <2>1. state' = HumanMessage(state) /\ UNCHANGED ghosts
    BY <1>1 DEF AcceptUserMessage
  <2>2. /\ state' \in AgentState
        /\ SameGate(state, state') /\ SameCalls(state, state')
        /\ state'.workspace = state.workspace
        /\ state'.lastVerification = None
        /\ \/ state'.pendingVerificationRepair = state.pendingVerificationRepair
           \/ /\ state'.pendingVerificationRepair.verdict # "PASS"
              /\ state'.pendingVerificationRepair.attempt >= 1
    BY <1>0, <2>1, HumanMessageEffect
  <2>3. VerificationInv'
    BY <1>0, <2>1, <2>2
       DEF VerificationInv, SnapshotRestorable, VerdictIsCurrent,
           ObligationCoversMutations, RestoreAccepts, ObligationRestorable,
           VerificationRestorable, ghosts
  <2>4. TypeOK' /\ AwaitingImpliesReplanning' /\ CallsSettleOnce'
    BY <1>0, <2>1, <2>2, GateFrame, CallsFrame DEF TypeOK, ghosts
  <2> QED BY <2>3, <2>4 DEF InductiveInvariant
<1>2. ASSUME CompleteAssistantMessage
      PROVE  InductiveInvariant'
  BY <1>0, <1>2, AssistantMessageEffect, FrameStep DEF CompleteAssistantMessage
<1>3. ASSUME NEW retry \in BOOLEAN, FailModelAttempt(retry)
      PROVE  InductiveInvariant'
  BY <1>0, <1>3, ModelAttemptFailedEffect, FrameStep DEF FailModelAttempt
<1>4. ASSUME TransitionOtherwise
      PROVE  InductiveInvariant'
  BY <1>0, <1>4, LoopTransitionedEffect, FrameStep DEF TransitionOtherwise
<1>5. ASSUME NEW to \in SessionModes, ChangeMode(to)
      PROVE  InductiveInvariant'
  <2>1. to \in Modes /\ state.mode \in Modes
    BY <1>0, SessionModesAreModes DEF AgentState
  <2> QED BY <1>0, <1>5, <2>1, ModeChangedEffect, FrameStep DEF ChangeMode
<1>6. ASSUME BranchDegraded
      PROVE  InductiveInvariant'
  BY <1>0, <1>6, RecoveryBranchEffect, FrameStep DEF BranchDegraded
<1>7. ASSUME NEW reason \in TerminalReasons, TerminateRun(reason)
      PROVE  InductiveInvariant'
  <2>1. /\ state' = RunTerminated(state, reason)
        /\ owedSources' = IF reason \in CleanEnds THEN {} ELSE owedSources
        /\ owedPaths' = IF reason \in CleanEnds THEN {} ELSE owedPaths
        /\ UNCHANGED verdictAt
    BY <1>7 DEF TerminateRun
  <2>2. /\ state' \in AgentState
        /\ SameGate(state, state') /\ SameCalls(state, state')
        /\ state'.lastVerification = state.lastVerification
        /\ state'.pendingVerificationRepair = state.pendingVerificationRepair
        /\ state'.workspace.revision = state.workspace.revision
        /\ state'.workspace.pendingVerification =
               IF reason \in CleanEnds THEN None
               ELSE state.workspace.pendingVerification
    BY <1>0, <2>1, RunTerminatedEffect
  <2>3. VerificationInv'
    BY <1>0, <2>1, <2>2
       DEF VerificationInv, SnapshotRestorable, VerdictIsCurrent,
           ObligationCoversMutations, RestoreAccepts, ObligationRestorable,
           VerificationRestorable
  <2>4. TypeOK' /\ AwaitingImpliesReplanning' /\ CallsSettleOnce'
    BY <1>0, <2>1, <2>2, GateFrame, CallsFrame DEF TypeOK
  <2> QED BY <2>3, <2>4 DEF InductiveInvariant
<1>8. ASSUME RestoreSnapshot
      PROVE  InductiveInvariant'
  BY <1>0, <1>8, SnapshotRestoredEffect, FrameStep DEF RestoreSnapshot
<1> QED
  BY <1>1, <1>2, <1>3, <1>4, <1>5, <1>6, <1>7, <1>8 DEF LoopFact

(* createInitialState establishes the inductive invariant. *)
LEMMA InitEstablishes ==
    ASSUME Init
    PROVE  InductiveInvariant
<1>1. PICK mode \in SessionModes : state = InitialState(mode)
  BY DEF Init
<1>3. /\ state \in AgentState
      /\ state.workspace.revision = 0
      /\ state.workspace.pendingVerification = None
      /\ state.lastVerification = None
      /\ state.pendingVerificationRepair = None
      /\ state.recovery = InitialRecovery
      /\ state.pendingToolCalls = {}
      /\ \A c \in Calls : state.toolResults[c] = None
  BY <1>1, SessionModesAreModes, InitialStateIsState
<1>4. TypeOK
  BY <1>3 DEF Init, TypeOK
<1>5. VerificationInv
  BY <1>3 DEF Init, VerificationInv, SnapshotRestorable, VerdictIsCurrent,
              ObligationCoversMutations, RestoreAccepts, ObligationRestorable,
              VerificationRestorable
<1>6. AwaitingImpliesReplanning /\ CallsSettleOnce
  BY <1>3 DEF AwaitingImpliesReplanning, CallsSettleOnce, InitialRecovery
<1> QED BY <1>4, <1>5, <1>6 DEF InductiveInvariant

(* The reducer keeps the inductive invariant under every sequence of facts  *)
(* it accepts.                                                              *)
THEOREM InvariantHolds == Spec => []InductiveInvariant
<1>1. Init => InductiveInvariant
  BY InitEstablishes
<1>2. InductiveInvariant /\ [Next]_vars => InductiveInvariant'
  <2>1. CASE Next
    BY <2>1, ToolFactPreserves, PlanFactPreserves, WorkFactPreserves,
       LoopFactPreserves DEF Next
  <2>2. CASE UNCHANGED vars
    <3>1. SUFFICES ASSUME InductiveInvariant, UNCHANGED vars
                   PROVE  InductiveInvariant'
      BY <2>2
    <3>2. state' \in AgentState /\ state' = state /\ UNCHANGED ghosts
      BY <3>1 DEF InductiveInvariant, TypeOK, vars, ghosts
    <3> QED BY <3>1, <3>2, FrameStep DEF SameVerification, SameGate, SameCalls
  <2> QED BY <2>1, <2>2
<1> QED BY <1>1, <1>2, PTL DEF Spec

(* Every case of the reducer returns a well-typed AgentState. *)
THEOREM TypeCorrect == Spec => []TypeOK
BY InvariantHolds, PTL DEF InductiveInvariant

(* Every state the reducer can reach passes the validation of               *)
(* restoreFromSnapshot, so a checkpoint the engine takes at any point can   *)
(* be resumed.                                                              *)
THEOREM CheckpointsAreRestorable == Spec => []SnapshotRestorable
BY InvariantHolds, PTL DEF InductiveInvariant, VerificationInv

(* A stored verdict always judged the present workspace revision: the       *)
(* reducer never lets a mutation pass under an older PASS.                  *)
THEOREM VerdictsAreCurrent == Spec => []VerdictIsCurrent
BY InvariantHolds, PTL DEF InductiveInvariant, VerificationInv

(* No mutation escapes the open verification obligation before a run ends   *)
(* cleanly, whatever facts come in between.                                 *)
THEOREM ObligationsAreComplete == Spec => []ObligationCoversMutations
BY InvariantHolds, PTL DEF InductiveInvariant, VerificationInv

(* replanAwaitingApproval never outlives replanning: the write gate         *)
(* computed from both is the gate either one demands.                       *)
THEOREM GateFlagsAgree == Spec => []AwaitingImpliesReplanning
BY InvariantHolds, PTL DEF InductiveInvariant

(* A call is pending or settled, never both, and results are strictly       *)
(* ordered below the call count, also when an identifier is re-issued.      *)
THEOREM EveryCallSettlesOnce == Spec => []CallsSettleOnce
BY InvariantHolds, PTL DEF InductiveInvariant
=============================================================================
