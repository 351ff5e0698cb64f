---------------------------- MODULE ReducerProofs ----------------------------
(***************************************************************************)
(* Lemmas about the reducer.  Every operator has an Effect lemma: its       *)
(* result is an AgentState, and the parts of the state it leaves alone are *)
(* named.  The proofs about the modules that keep an AgentState rest on    *)
(* them.                                                                   *)
(***************************************************************************)
EXTENDS Reducer, FiniteSetTheorems, FunctionTheorems, TLAPS

SameVerification(s, t) ==
    /\ t.workspace = s.workspace
    /\ t.lastVerification = s.lastVerification
    /\ t.pendingVerificationRepair = s.pendingVerificationRepair

SameGate(s, t) ==
    /\ t.recovery.replanning = s.recovery.replanning
    /\ t.recovery.replanAwaitingApproval = s.recovery.replanAwaitingApproval

SameCalls(s, t) ==
    /\ t.pendingToolCalls = s.pendingToolCalls
    /\ t.toolResults = s.toolResults
    /\ t.used.toolCalls = s.used.toolCalls

-----------------------------------------------------------------------------
(* Math.max of two counters is a counter, and no smaller than the first. *)
LEMMA LargerIsNat ==
    ASSUME NEW m \in Nat, NEW n \in Nat
    PROVE  Larger(m, n) \in Nat /\ Larger(m, n) >= m
BY DEF Larger

(* createInitialState gives an agent state that owes nothing. *)
LEMMA InitialStateIsState ==
    ASSUME NEW mode \in Modes
    PROVE  LET s == InitialState(mode) IN
           /\ s \in AgentState
           /\ s.workspace.revision = 0 /\ s.workspace.pendingVerification = None
           /\ s.lastVerification = None /\ s.pendingVerificationRepair = None
           /\ s.recovery = InitialRecovery
           /\ s.pendingToolCalls = {} /\ \A c \in Calls : s.toolResults[c] = None
<1>1. InitialRecovery \in RecoveryState
  BY DEF InitialRecovery, RecoveryState
<1> QED BY <1>1 DEF InitialState, AgentState, BudgetUsed, Workspace

(* user.message.accepted from a human keeps the state typed, never keeps a  *)
(* verdict, leaves a restorable repair obligation, and touches neither the  *)
(* workspace, the replan gate nor the tool calls.                           *)
LEMMA HumanMessageEffect ==
    ASSUME NEW s \in AgentState
    PROVE  LET t == HumanMessage(s) IN
           /\ t \in AgentState
           /\ SameGate(s, t) /\ SameCalls(s, t)
           /\ t.workspace = s.workspace
           /\ t.lastVerification = None
           /\ \/ t.pendingVerificationRepair = s.pendingVerificationRepair
              \/ /\ t.pendingVerificationRepair \in Repair
                 /\ t.pendingVerificationRepair.verdict # "PASS"
                 /\ t.pendingVerificationRepair.attempt >= 1
<1> DEFINE verdict == s.lastVerification
           repair  == verdict # None /\ verdict.verdict # "PASS"
           attempt == Larger(1, s.recovery.verifierRepairs + 1)
           move    == IF s.phase = "terminated" \/ verdict # None
                      THEN "user_followup" ELSE s.lastTransition
           debt    == IF repair
                      THEN [verdict |-> verdict.verdict, attempt |-> attempt]
                      ELSE s.pendingVerificationRepair
           rec     == [s.recovery EXCEPT
                        !.verifierRepairs = IF repair THEN attempt ELSE @]
<1>0. s.recovery \in RecoveryState
  BY DEF AgentState
<1>1. attempt \in Nat /\ attempt >= 1
  <2>1. s.recovery.verifierRepairs + 1 \in Nat
    BY <1>0 DEF RecoveryState
  <2> QED BY <2>1, LargerIsNat
<1>2. move \in Transitions \cup {None}
  BY DEF AgentState, Transitions
<1>3. debt \in Repair \cup {None}
  BY <1>1 DEF AgentState, Repair, Verification
<1>4. \/ debt = s.pendingVerificationRepair
      \/ debt \in Repair /\ debt.verdict # "PASS" /\ debt.attempt >= 1
  BY <1>1 DEF AgentState, Repair, Verification
<1>5. /\ rec \in RecoveryState
      /\ rec.replanning = s.recovery.replanning
      /\ rec.replanAwaitingApproval = s.recovery.replanAwaitingApproval
  BY <1>0, <1>1 DEF RecoveryState
<1>6. HumanMessage(s) = [s EXCEPT !.lastTransition = move,
                                  !.pendingVerificationRepair = debt,
                                  !.recovery = rec,
                                  !.lastVerification = None]
  BY DEF HumanMessage, AgentState
<1> HIDE DEF move, debt, rec
<1> QED
  BY <1>2, <1>3, <1>4, <1>5, <1>6 DEF AgentState, SameGate, SameCalls

(* assistant.message.completed only counts a model call. *)
LEMMA AssistantMessageEffect ==
    ASSUME NEW s \in AgentState
    PROVE  LET t == AssistantMessage(s) IN
           /\ t \in AgentState
           /\ SameVerification(s, t) /\ SameGate(s, t) /\ SameCalls(s, t)
<1> DEFINE used == [s.used EXCEPT !.modelCalls = @ + 1]
<1>1. used \in BudgetUsed /\ used.toolCalls = s.used.toolCalls
  BY DEF AgentState, BudgetUsed
<1>2. AssistantMessage(s) = [s EXCEPT !.used = used]
  BY DEF AssistantMessage, AgentState
<1> HIDE DEF used
<1> QED
  BY <1>1, <1>2 DEF AgentState, SameVerification, SameGate, SameCalls

(* model.attempt.failed only counts a model call and, on a retry, a model   *)
(* retry.                                                                   *)
LEMMA ModelAttemptFailedEffect ==
    ASSUME NEW s \in AgentState, NEW retry \in BOOLEAN
    PROVE  LET t == ModelAttemptFailed(s, retry) IN
           /\ t \in AgentState
           /\ SameVerification(s, t) /\ SameGate(s, t) /\ SameCalls(s, t)
<1> DEFINE used == [s.used EXCEPT !.modelCalls = @ + 1]
           rec  == [s.recovery EXCEPT !.modelRetries = IF retry THEN @ + 1 ELSE @]
<1>0. s.recovery \in RecoveryState /\ s.used \in BudgetUsed
  BY DEF AgentState
<1>1. used \in BudgetUsed /\ used.toolCalls = s.used.toolCalls
  BY <1>0 DEF BudgetUsed
<1>2. /\ rec \in RecoveryState
      /\ rec.replanning = s.recovery.replanning
      /\ rec.replanAwaitingApproval = s.recovery.replanAwaitingApproval
  <2>1. CASE retry  BY <1>0, <2>1 DEF RecoveryState
  <2>2. CASE ~ retry  BY <1>0, <2>2 DEF RecoveryState
  <2> QED BY <2>1, <2>2
<1>3. ModelAttemptFailed(s, retry) = [s EXCEPT !.used = used, !.recovery = rec]
  BY DEF ModelAttemptFailed, AgentState
<1> HIDE DEF used, rec
<1> QED
  BY <1>1, <1>2, <1>3 DEF AgentState, SameVerification, SameGate, SameCalls

(* tool.call.accepted makes the call pending, forgets an older result of    *)
(* the same identifier, and changes nothing else.                           *)
LEMMA ToolCallAcceptedEffect ==
    ASSUME NEW s \in AgentState, NEW c \in Calls
    PROVE  LET t == ToolCallAccepted(s, c) IN
           /\ t \in AgentState
           /\ SameVerification(s, t) /\ SameGate(s, t)
           /\ t.used = s.used
           /\ t.pendingToolCalls = s.pendingToolCalls \cup {c}
           /\ t.toolResults = [s.toolResults EXCEPT ![c] = None]
<1> DEFINE results == [s.toolResults EXCEPT ![c] = None]
           pending == s.pendingToolCalls \cup {c}
<1>1. results \in [Calls -> Result \cup {None}] /\ pending \in SUBSET Calls
  BY DEF AgentState
<1>2. ToolCallAccepted(s, c) =
          [s EXCEPT !.pendingToolCalls = pending, !.toolResults = results]
  BY DEF ToolCallAccepted, AgentState
<1>3. results = [s.toolResults EXCEPT ![c] = None]
      /\ pending = s.pendingToolCalls \cup {c}
  OBVIOUS
<1> HIDE DEF results, pending
<1> QED
  BY <1>1, <1>2, <1>3 DEF AgentState, SameVerification, SameGate

(* tool.call.completed settles one call at the next position of the result  *)
(* order and counts it.                                                     *)
LEMMA ToolCallCompletedEffect ==
    ASSUME NEW s \in AgentState, NEW c \in Calls,
           NEW ok \in BOOLEAN, NEW conflict \in BOOLEAN
    PROVE  LET t == ToolCallCompleted(s, c, ok, conflict) IN
           /\ t \in AgentState
           /\ SameVerification(s, t) /\ SameGate(s, t)
           /\ t.used.toolCalls = s.used.toolCalls + 1
           /\ t.pendingToolCalls = s.pendingToolCalls \ {c}
           /\ \E r \in Result : /\ r.at = s.used.toolCalls
                                /\ t.toolResults = [s.toolResults EXCEPT ![c] = r]
<1> DEFINE r       == [ok |-> ok, conflict |-> conflict, at |-> s.used.toolCalls]
           results == [s.toolResults EXCEPT ![c] = r]
           pending == s.pendingToolCalls \ {c}
           used    == [s.used EXCEPT !.toolCalls = @ + 1]
<1>0. s.used \in BudgetUsed
  BY DEF AgentState
<1>1. used \in BudgetUsed /\ used.toolCalls = s.used.toolCalls + 1
  BY <1>0 DEF BudgetUsed
<1>2. r \in Result /\ r.at = s.used.toolCalls
  BY <1>0 DEF Result, BudgetUsed
<1>3. results \in [Calls -> Result \cup {None}] /\ pending \in SUBSET Calls
  BY <1>2 DEF AgentState
<1>4. ToolCallCompleted(s, c, ok, conflict) =
          [s EXCEPT !.pendingToolCalls = pending, !.toolResults = results,
                    !.used = used]
  BY DEF ToolCallCompleted, AgentState
<1>5. results = [s.toolResults EXCEPT ![c] = r]
      /\ pending = s.pendingToolCalls \ {c}
  OBVIOUS
<1> HIDE DEF r, results, pending, used
<1> QED
  BY <1>1, <1>2, <1>3, <1>4, <1>5 DEF AgentState, SameVerification, SameGate

(* The acceptances of a batch make its calls pending, forget older results  *)
(* of the same identifiers, and change nothing else.                        *)
LEMMA ToolCallsAcceptedEffect ==
    ASSUME NEW s \in AgentState, NEW batch \in SUBSET Calls
    PROVE  LET t == ToolCallsAccepted(s, batch) IN
           /\ t \in AgentState
           /\ SameVerification(s, t) /\ SameGate(s, t)
           /\ t.used = s.used
           /\ t.pendingToolCalls = s.pendingToolCalls \cup batch
<1> DEFINE results == [c \in Calls |-> IF c \in batch THEN None ELSE s.toolResults[c]]
           pending == s.pendingToolCalls \cup batch
<1>1. results \in [Calls -> Result \cup {None}] /\ pending \in SUBSET Calls
  BY DEF AgentState
<1>2. ToolCallsAccepted(s, batch) =
          [s EXCEPT !.pendingToolCalls = pending, !.toolResults = results]
  BY DEF ToolCallsAccepted, AgentState
<1>3. pending = s.pendingToolCalls \cup batch
  OBVIOUS
<1> HIDE DEF results, pending
<1> QED
  BY <1>1, <1>2, <1>3 DEF AgentState, SameVerification, SameGate

(* Synthetic results settle every open call and count it. *)
LEMMA CallsInterruptedEffect ==
    ASSUME NEW s \in AgentState
    PROVE  LET t == CallsInterrupted(s) IN
           /\ t \in AgentState
           /\ SameVerification(s, t) /\ SameGate(s, t)
           /\ t.pendingToolCalls = {}
<1> DEFINE open    == s.pendingToolCalls
           n       == Cardinality(open)
           order   == CHOOSE f \in [open -> 1..n] : \A c, d \in open : f[c] = f[d] => c = d
           result(c) == [ok |-> FALSE, conflict |-> FALSE, at |-> s.used.toolCalls + order[c] - 1]
           results == [c \in Calls |-> IF c \in open THEN result(c) ELSE s.toolResults[c]]
           used    == [s.used EXCEPT !.toolCalls = @ + n]
<1>0. s.used \in BudgetUsed /\ open \subseteq Calls
  BY DEF AgentState
<1>1. IsFiniteSet(open) /\ n \in Nat
  BY <1>0, CallsAreFinite, FS_Subset, FS_CardinalityType
<1>2. used \in BudgetUsed
  BY <1>0, <1>1 DEF BudgetUsed
<1>3. \E f \in [open -> 1..n] : \A c, d \in open : f[c] = f[d] => c = d
  <2>1. ExistsBijection(open, 1..n)
    <3>1. ExistsBijection(1..n, open)
      BY <1>1, FS_CardinalityType
    <3> QED BY <3>1, Fun_ExistsBijSymmetric
  <2> QED BY <2>1 DEF ExistsBijection, Bijection, Injection, IsInjective
<1>4. order \in [open -> 1..n]
  BY <1>3
<1> HIDE DEF order, n
<1>5. \A c \in open : result(c) \in Result
  <2> SUFFICES ASSUME NEW c \in open PROVE result(c) \in Result
    OBVIOUS
  <2>1. order[c] \in 1..n /\ s.used.toolCalls \in Nat
    BY <1>0, <1>4 DEF BudgetUsed
  <2>2. s.used.toolCalls + order[c] - 1 \in Nat
    BY <1>1, <2>1
  <2> QED BY <2>2 DEF Result
<1> HIDE DEF result
<1>6. results \in [Calls -> Result \cup {None}]
  BY <1>5 DEF AgentState
<1>7. CallsInterrupted(s) =
          [s EXCEPT !.pendingToolCalls = {}, !.toolResults = results, !.used = used]
  BY DEF CallsInterrupted, AgentState, order, n, result
<1> HIDE DEF results, used, open
<1> QED
  BY <1>2, <1>6, <1>7 DEF AgentState, SameVerification, SameGate

(* loop.transitioned with any reason but tool_results_ready only advances   *)
(* the iteration.                                                           *)
LEMMA LoopTransitionedEffect ==
    ASSUME NEW s \in AgentState
    PROVE  LET t == LoopTransitioned(s) IN
           /\ t \in AgentState
           /\ SameVerification(s, t) /\ SameGate(s, t) /\ SameCalls(s, t)
<1> DEFINE turn == s.iteration + 1
<1>1. turn \in Nat
  BY DEF AgentState
<1>2. LoopTransitioned(s) = [s EXCEPT !.iteration = turn,
                                      !.lastTransition = "other"]
  BY DEF LoopTransitioned, AgentState
<1>3. "other" \in Transitions \cup {None}
  BY DEF Transitions
<1> HIDE DEF turn
<1> QED
  BY <1>1, <1>2, <1>3 DEF AgentState, SameVerification, SameGate, SameCalls

(* loop.transitioned after a batch updates the two failure counters         *)
(* replanning looks at, whose new values are still natural numbers.         *)
LEMMA ToolResultsReadyEffect ==
    ASSUME NEW s \in AgentState, NEW n
    PROVE  LET t == ToolResultsReady(s, n) IN
           /\ t \in AgentState
           /\ SameVerification(s, t) /\ SameGate(s, t) /\ SameCalls(s, t)
<1> DEFINE batch     == LatestResults(s, n)
           turn      == s.iteration + 1
           streak    == IF AllFailed(s, batch)
                        THEN s.recovery.consecutiveFailures + 1 ELSE 0
           total     == s.recovery.versionConflicts
                            + Cardinality(Conflicts(s, batch))
           rec       == [s.recovery EXCEPT !.consecutiveFailures = streak,
                                           !.versionConflicts = total]
<1>0. s.recovery \in RecoveryState
  BY DEF AgentState
<1>1. Cardinality(Conflicts(s, batch)) \in Nat
  <2>1. Conflicts(s, batch) \subseteq Calls
    BY DEF LatestResults, Conflicts
  <2> QED BY <2>1, CallsAreFinite, FS_Subset, FS_CardinalityType
<1>2. turn \in Nat /\ total \in Nat
  BY <1>0, <1>1 DEF AgentState, RecoveryState
<1>3. streak \in Nat
  <2>1. s.recovery.consecutiveFailures \in Nat
    BY <1>0 DEF RecoveryState
  <2> QED BY <2>1
<1>4. ToolResultsReady(s, n) = [s EXCEPT !.iteration = turn,
                                         !.lastTransition = "tool_results_ready",
                                         !.recovery = rec]
  BY DEF ToolResultsReady
<1> HIDE DEF turn, streak, total
<1>5. /\ rec \in RecoveryState
      /\ rec.replanning = s.recovery.replanning
      /\ rec.replanAwaitingApproval = s.recovery.replanAwaitingApproval
  BY <1>0, <1>2, <1>3 DEF RecoveryState
<1>6. "tool_results_ready" \in Transitions \cup {None}
  BY DEF Transitions
<1> HIDE DEF rec
<1> QED
  BY <1>2, <1>4, <1>5, <1>6 DEF AgentState, SameVerification, SameGate, SameCalls

(* plan.version.created replaces the active plan and marks progress, no     *)
(* more.                                                                    *)
LEMMA PlanVersionCreatedEffect ==
    ASSUME NEW s \in AgentState, NEW p \in Plans, NEW approved \in BOOLEAN
    PROVE  LET t == PlanVersionCreated(s, p, approved) IN
           /\ t \in AgentState
           /\ SameVerification(s, t) /\ SameGate(s, t) /\ SameCalls(s, t)
<1> DEFINE rec  == [s.recovery EXCEPT !.lastProgressToolCalls = s.used.toolCalls + 1]
           plan == [plan |-> p, approved |-> approved]
<1>1. /\ rec \in RecoveryState
      /\ rec.replanning = s.recovery.replanning
      /\ rec.replanAwaitingApproval = s.recovery.replanAwaitingApproval
  BY DEF AgentState, RecoveryState, BudgetUsed
<1>2. plan \in ActivePlan
  BY DEF ActivePlan
<1>3. PlanVersionCreated(s, p, approved) =
          [s EXCEPT !.activePlan = plan, !.recovery = rec]
  BY DEF PlanVersionCreated, AgentState
<1> HIDE DEF rec, plan
<1> QED
  BY <1>1, <1>2, <1>3 DEF AgentState, SameVerification, SameGate, SameCalls

(* plan.approved closes both replan flags together and drops the verdict    *)
(* and its repair; the mutation obligation stays.                           *)
LEMMA PlanApprovedEffect ==
    ASSUME NEW s \in AgentState, NEW p \in Plans
    PROVE  LET t == PlanApproved(s, p) IN
           /\ t \in AgentState
           /\ SameCalls(s, t)
           /\ ~ t.recovery.replanning /\ ~ t.recovery.replanAwaitingApproval
           /\ t.workspace = [s.workspace EXCEPT !.planScopedTouchedFiles = {}]
           /\ t.lastVerification = None /\ t.pendingVerificationRepair = None
<1> DEFINE rec  == [s.recovery EXCEPT !.replanning = FALSE,
                                      !.replanAwaitingApproval = FALSE,
                                      !.verifierRepairs = 0]
           wsp  == [s.workspace EXCEPT !.planScopedTouchedFiles = {}]
           plan == [plan |-> p, approved |-> TRUE]
<1>1. /\ rec \in RecoveryState
      /\ ~ rec.replanning /\ ~ rec.replanAwaitingApproval
  BY DEF AgentState, RecoveryState
<1>2. plan \in ActivePlan
  BY DEF ActivePlan
<1>3. wsp \in Workspace
  BY DEF AgentState, Workspace
<1>4. PlanApproved(s, p) =
          [s EXCEPT !.activePlan = plan, !.workspace = wsp, !.recovery = rec,
                    !.lastVerification = None,
                    !.pendingVerificationRepair = None]
  BY DEF PlanApproved, AgentState
<1>5. wsp = [s.workspace EXCEPT !.planScopedTouchedFiles = {}]
  OBVIOUS
<1> HIDE DEF rec, wsp, plan
<1> QED
  BY <1>1, <1>2, <1>3, <1>4, <1>5 DEF AgentState, SameCalls

(* replan.requested opens the replan, with or without reapproval, and       *)
(* drops the verdict and its repair; the mutation obligation stays.         *)
LEMMA ReplanRequestedEffect ==
    ASSUME NEW s \in AgentState, NEW reapproval \in BOOLEAN
    PROVE  LET t == ReplanRequested(s, reapproval) IN
           /\ t \in AgentState
           /\ SameCalls(s, t)
           /\ t.recovery.replanning
           /\ t.workspace = s.workspace
           /\ t.lastVerification = None /\ t.pendingVerificationRepair = None
<1> DEFINE rec == [s.recovery EXCEPT !.replanning = TRUE,
                                     !.replanAwaitingApproval = reapproval,
                                     !.replanCount = @ + 1,
                                     !.verifierRepairs = 0,
                                     !.consecutiveFailures = 0,
                                     !.versionConflicts = 0]
<1>1. rec \in RecoveryState /\ rec.replanning
  <2> DEFINE count == s.recovery.replanCount + 1
             flags == [s.recovery EXCEPT !.replanning = TRUE,
                                         !.replanAwaitingApproval = reapproval]
  <2>1. s.recovery \in RecoveryState
    BY DEF AgentState
  <2>2. count \in Nat
    BY <2>1 DEF RecoveryState
  <2>4. flags \in RecoveryState /\ flags.replanning
    BY <2>1 DEF RecoveryState
  <2>3. rec = [flags EXCEPT !.replanCount = count,
                            !.verifierRepairs = 0,
                            !.consecutiveFailures = 0,
                            !.versionConflicts = 0]
    OBVIOUS
  <2> HIDE DEF count, flags, rec
  <2> QED BY <2>2, <2>3, <2>4 DEF RecoveryState
<1>2. ReplanRequested(s, reapproval) =
          [s EXCEPT !.recovery = rec, !.lastVerification = None,
                    !.pendingVerificationRepair = None]
  BY DEF ReplanRequested
<1> HIDE DEF rec
<1> QED
  BY <1>1, <1>2 DEF AgentState, SameCalls

(* replan.adjustment.applied closes the replanning flag and leaves the      *)
(* reapproval flag as it was.                                               *)
LEMMA AdjustmentEffect ==
    ASSUME NEW s \in AgentState
    PROVE  LET t == ReplanAdjustmentApplied(s) IN
           /\ t \in AgentState
           /\ SameVerification(s, t) /\ SameCalls(s, t)
           /\ t.recovery.replanAwaitingApproval = s.recovery.replanAwaitingApproval
<1> DEFINE rec == [s.recovery EXCEPT !.replanning = FALSE]
<1>1. /\ rec \in RecoveryState
      /\ rec.replanAwaitingApproval = s.recovery.replanAwaitingApproval
  BY DEF AgentState, RecoveryState
<1>2. ReplanAdjustmentApplied(s) = [s EXCEPT !.recovery = rec]
  BY DEF ReplanAdjustmentApplied, AgentState
<1> HIDE DEF rec
<1> QED
  BY <1>1, <1>2 DEF AgentState, SameVerification, SameCalls

(* plan.status.changed can only revoke the approval of the active plan. *)
LEMMA PlanStatusChangedEffect ==
    ASSUME NEW s \in AgentState, NEW p \in Plans
    PROVE  LET t == PlanStatusChanged(s, p) IN
           /\ t \in AgentState
           /\ SameVerification(s, t) /\ SameGate(s, t) /\ SameCalls(s, t)
<1> DEFINE plan == [plan |-> p, approved |-> FALSE]
<1>1. plan \in ActivePlan
  BY DEF ActivePlan
<1>2. \/ PlanStatusChanged(s, p) = [s EXCEPT !.activePlan = plan]
      \/ PlanStatusChanged(s, p) = s
  BY DEF PlanStatusChanged
<1> HIDE DEF plan
<1> QED
  BY <1>1, <1>2 DEF AgentState, SameVerification, SameGate, SameCalls

(* mode.changed keeps mode and prePlanMode typed: the remembered mode is    *)
(* never plan mode, and leaving plan mode returns to it.                    *)
LEMMA ModeChangedEffect ==
    ASSUME NEW s \in AgentState, NEW to \in Modes
    PROVE  LET t == ModeChanged(s, s.mode, to) IN
           /\ t \in AgentState
           /\ SameVerification(s, t) /\ SameGate(s, t) /\ SameCalls(s, t)
<1> DEFINE leaving  == s.mode = "plan" /\ to # "plan"
           entering == to = "plan" /\ s.mode # "plan"
           mode     == IF leaving /\ s.prePlanMode # None
                       THEN s.prePlanMode ELSE to
           before   == IF leaving THEN None
                       ELSE IF entering THEN s.mode ELSE s.prePlanMode
<1>1. mode \in Modes
  BY DEF AgentState
<1>2. before \in (Modes \ {"plan"}) \cup {None}
  BY DEF AgentState
<1>3. ModeChanged(s, s.mode, to) =
          [s EXCEPT !.mode = mode, !.prePlanMode = before]
  BY DEF ModeChanged, AgentState
<1> HIDE DEF mode, before
<1> QED
  BY <1>1, <1>2, <1>3 DEF AgentState, SameVerification, SameGate, SameCalls

(* session.recovery.branch forces plan mode and the degraded flag, no       *)
(* more.                                                                    *)
LEMMA RecoveryBranchEffect ==
    ASSUME NEW s \in AgentState
    PROVE  LET t == RecoveryBranch(s) IN
           /\ t \in AgentState
           /\ SameVerification(s, t) /\ SameGate(s, t) /\ SameCalls(s, t)
<1> DEFINE rec == [s.recovery EXCEPT !.degradedRecovery = TRUE]
<1>1. /\ rec \in RecoveryState
      /\ rec.replanning = s.recovery.replanning
      /\ rec.replanAwaitingApproval = s.recovery.replanAwaitingApproval
  BY DEF AgentState, RecoveryState
<1>2. RecoveryBranch(s) = [s EXCEPT !.mode = "plan", !.recovery = rec]
  BY DEF RecoveryBranch, AgentState
<1>3. "plan" \in Modes
  BY DEF Modes
<1> HIDE DEF rec
<1> QED
  BY <1>1, <1>2, <1>3 DEF AgentState, SameVerification, SameGate, SameCalls

(* task.changed records one task status and marks progress, no more. *)
LEMMA TaskChangedEffect ==
    ASSUME NEW s \in AgentState, NEW t \in Tasks, NEW status \in TaskStatuses
    PROVE  /\ TaskChanged(s, t, status) \in AgentState
           /\ SameVerification(s, TaskChanged(s, t, status))
           /\ SameGate(s, TaskChanged(s, t, status))
           /\ SameCalls(s, TaskChanged(s, t, status))
<1> DEFINE rec   == [s.recovery EXCEPT !.lastProgressToolCalls = s.used.toolCalls + 1]
           tasks == [s.tasks EXCEPT ![t] = status]
<1>1. /\ rec \in RecoveryState
      /\ rec.replanning = s.recovery.replanning
      /\ rec.replanAwaitingApproval = s.recovery.replanAwaitingApproval
  BY DEF AgentState, RecoveryState, BudgetUsed
<1>2. tasks \in [Tasks -> TaskStatuses \cup {None}]
  BY DEF AgentState
<1>3. TaskChanged(s, t, status) = [s EXCEPT !.tasks = tasks, !.recovery = rec]
  BY DEF TaskChanged, AgentState
<1> HIDE DEF rec, tasks
<1> QED
  BY <1>1, <1>2, <1>3 DEF AgentState, SameVerification, SameGate, SameCalls

(* evidence.recorded counts evidence and marks progress, no more. *)
LEMMA EvidenceRecordedEffect ==
    ASSUME NEW s \in AgentState
    PROVE  LET t == EvidenceRecorded(s) IN
           /\ t \in AgentState
           /\ SameVerification(s, t) /\ SameGate(s, t) /\ SameCalls(s, t)
<1> DEFINE rec   == [s.recovery EXCEPT !.lastProgressToolCalls = s.used.toolCalls + 1]
           count == s.evidenceCount + 1
<1>1. /\ rec \in RecoveryState
      /\ rec.replanning = s.recovery.replanning
      /\ rec.replanAwaitingApproval = s.recovery.replanAwaitingApproval
  BY DEF AgentState, RecoveryState, BudgetUsed
<1>2. count \in Nat
  BY DEF AgentState
<1>3. EvidenceRecorded(s) = [s EXCEPT !.evidenceCount = count, !.recovery = rec]
  BY DEF EvidenceRecorded, AgentState
<1> HIDE DEF rec, count
<1> QED
  BY <1>1, <1>2, <1>3 DEF AgentState, SameVerification, SameGate, SameCalls

(* verification.completed leaves either a verdict or a repair obligation    *)
(* that restoreFromSnapshot accepts, never both, and leaves the workspace   *)
(* alone.                                                                   *)
LEMMA VerificationCompletedEffect ==
    ASSUME NEW s \in AgentState, NEW verdict \in Verdicts, NEW valid \in BOOLEAN,
           NEW attempt \in Nat \cup {None},
           ~ VerificationRefused(verdict, valid, attempt)
    PROVE  LET t == VerificationCompleted(s, verdict, valid, attempt) IN
           /\ t \in AgentState
           /\ SameGate(s, t) /\ SameCalls(s, t)
           /\ t.workspace = s.workspace
           /\ VerificationRestorable(t)
<1> USE DEF VerificationRestorable
<1>0. s.recovery \in RecoveryState
  BY DEF AgentState
<1>1. CASE attempt # None
  <2> DEFINE debt == [verdict |-> verdict, attempt |-> attempt]
             rec  == [s.recovery EXCEPT !.verifierRepairs = Larger(@, attempt)]
  <2>1. /\ debt \in Repair
        /\ debt.verdict # "PASS" /\ debt.attempt >= 1
    BY <1>1 DEF Repair, VerificationRefused
  <2>2. /\ rec \in RecoveryState
        /\ rec.replanning = s.recovery.replanning
        /\ rec.replanAwaitingApproval = s.recovery.replanAwaitingApproval
    BY <1>0, <1>1, LargerIsNat DEF RecoveryState
  <2>3. VerificationCompleted(s, verdict, valid, attempt) =
            [s EXCEPT !.lastVerification = None,
                      !.pendingVerificationRepair = debt,
                      !.recovery = rec]
    BY <1>1 DEF VerificationCompleted, AgentState
  <2> HIDE DEF debt, rec
  <2> QED BY <2>1, <2>2, <2>3 DEF AgentState, SameGate, SameCalls
<1>2. CASE attempt = None
  <2> DEFINE new == [verdict |-> verdict, valid |-> valid]
             rec == [s.recovery EXCEPT
                      !.verifierRepairs = IF verdict = "PASS" THEN 0 ELSE @]
  <2>1. /\ new \in Verification
        /\ new.verdict = "PASS" => new.valid
    BY DEF Verification, VerificationRefused
  <2>2. /\ rec \in RecoveryState
        /\ rec.replanning = s.recovery.replanning
        /\ rec.replanAwaitingApproval = s.recovery.replanAwaitingApproval
    BY <1>0 DEF RecoveryState
  <2>3. VerificationCompleted(s, verdict, valid, attempt) =
            [s EXCEPT !.lastVerification = new,
                      !.pendingVerificationRepair = None,
                      !.recovery = rec]
    BY <1>2 DEF VerificationCompleted, AgentState
  <2> HIDE DEF new, rec
  <2> QED BY <2>1, <2>2, <2>3 DEF AgentState, SameGate, SameCalls
<1> QED BY <1>1, <1>2

-----------------------------------------------------------------------------
(* The obligation that a mutation or an observed change leaves behind. *)

SourceIds(o) == {src.id : src \in o.sources}

(* The obligation a mutation builds on, open or empty, is an obligation. *)
LEMMA PriorObligation ==
    ASSUME NEW s \in AgentState
    PROVE  Prior(s) \in Obligation
<1>1. s.workspace.pendingVerification \in Obligation \cup {None}
  BY DEF AgentState, Workspace
<1> QED BY <1>1 DEF Prior, Obligation, Scopes

(* What a mutation or an observed change makes of an obligation is one. *)
LEMMA PreparedObligationType ==
    ASSUME NEW s \in AgentState, NEW m \in Mutations, NEW scope \in Scopes,
           NEW paths \in SUBSET Paths
    PROVE  PreparedObligation(s, m, scope, paths) \in Obligation
<1>1. Prior(s) \in Obligation /\ s.workspace.revision \in Nat
  BY PriorObligation DEF AgentState, Workspace
<1>2. [id |-> m, outcome |-> "unknown"] \in Source
  BY DEF Source, Outcomes
<1> QED BY <1>1, <1>2 DEF PreparedObligation, Obligation, Scopes

(* The debt that an observed change leaves is an obligation. *)
LEMMA ObservedObligationType ==
    ASSUME NEW s \in AgentState, NEW m \in Mutations \cup {None}, NEW path \in Paths
    PROVE  ObservedObligation(s, m, path) \in Obligation
<1>1. Prior(s) \in Obligation /\ s.workspace.revision \in Nat
  BY PriorObligation DEF AgentState, Workspace
<1>2. CASE Prepared(s, m)
  <2> DEFINE q == s.workspace.pendingVerification
             marked == {IF src.id = m THEN [src EXCEPT !.outcome = "changed"] ELSE src :
                            src \in q.sources}
  <2>1. q \in Obligation
    BY <1>1, <1>2 DEF Prepared, HasSource, Prior
  <2>2. marked \subseteq Source
    BY <2>1 DEF Obligation, Source, Outcomes
  <2>3. ObservedObligation(s, m, path) =
            [q EXCEPT !.changedPaths = @ \cup {path}, !.sources = marked]
    BY <1>2 DEF ObservedObligation
  <2> HIDE DEF q, marked
  <2> QED BY <2>1, <2>2, <2>3 DEF Obligation
<1>3. CASE ~ Prepared(s, m)
  <2>1. [id |-> IF m = None THEN Legacy ELSE m, outcome |-> "changed"] \in Source
    BY DEF Source, Outcomes
  <2> QED BY <1>1, <1>3, <2>1 DEF ObservedObligation, Obligation
<1> QED BY <1>2, <1>3

(* workspace.mutation.started yields an obligation of the new revision      *)
(* that lists the mutation and its paths and drops nothing; it is           *)
(* restorable when the mutation was not refused.                            *)
LEMMA PreparedObligationFacts ==
    ASSUME NEW s \in AgentState, NEW m \in Mutations, NEW scope \in Scopes,
           NEW paths \in SUBSET Paths, ~ MutationRefused(s, m, scope, paths)
    PROVE  LET o == PreparedObligation(s, m, scope, paths) IN
           /\ o \in Obligation
           /\ ObligationRestorable(s.workspace.revision + 1, o)
           /\ SourceIds(o) = SourceIds(Prior(s)) \cup {m}
           /\ o.changedPaths = Prior(s).changedPaths \cup paths
<1> DEFINE q == Prior(s)
           src == [id |-> m, outcome |-> "unknown"]
<1>1. q \in Obligation
  BY PriorObligation
<1>2. s.workspace.revision \in Nat
  BY DEF AgentState, Workspace
<1>3. src \in Source /\ src.id = m
  BY DEF Source, Outcomes
<1>4. PreparedObligation(s, m, scope, paths) =
          [revision |-> s.workspace.revision + 1,
           scope |-> IF q.scope = "workspace" THEN "workspace" ELSE scope,
           changedPaths |-> q.changedPaths \cup paths,
           sources |-> q.sources \cup {src}]
  BY DEF PreparedObligation
<1>5. ~ (scope = "paths" /\ paths = {})
  BY DEF MutationRefused
<1> HIDE DEF q, src
<1> DEFINE o == PreparedObligation(s, m, scope, paths)
<1>6. o \in Obligation
  BY <1>1, <1>2, <1>3, <1>4 DEF Obligation, Scopes
<1>7. ObligationRestorable(s.workspace.revision + 1, o)
  BY <1>1, <1>4, <1>5 DEF ObligationRestorable, Obligation, Scopes
<1>8. SourceIds(o) = SourceIds(q) \cup {m}
  BY <1>3, <1>4 DEF SourceIds
<1>9. o.changedPaths = q.changedPaths \cup paths
  BY <1>4
<1> QED BY <1>6, <1>7, <1>8, <1>9 DEF q

(* workspace.changed yields an obligation of the resulting revision that    *)
(* lists the change's source and path and drops nothing, on the prepared    *)
(* and on the compatibility path.                                           *)
LEMMA ObservedObligationFacts ==
    ASSUME NEW s \in AgentState, NEW m \in Mutations \cup {None},
           NEW path \in Paths,
           ObligationRestorable(s.workspace.revision,
                                s.workspace.pendingVerification)
    PROVE  LET o == ObservedObligation(s, m, path) IN
           /\ o \in Obligation
           /\ ObligationRestorable(IF Prepared(s, m) THEN s.workspace.revision
                                   ELSE s.workspace.revision + 1, o)
           /\ SourceIds(o) = SourceIds(Prior(s))
                                 \cup {IF m = None THEN Legacy ELSE m}
           /\ o.changedPaths = Prior(s).changedPaths \cup {path}
<1> DEFINE q == Prior(s)
           o == ObservedObligation(s, m, path)
<1>1. q \in Obligation
  BY PriorObligation
<1>2. s.workspace.revision \in Nat
  BY DEF AgentState, Workspace
<1>3. CASE Prepared(s, m)
  <2>1. /\ q = s.workspace.pendingVerification
        /\ m # None
        /\ \E src \in q.sources : src.id = m
        /\ q.revision = s.workspace.revision
        /\ q.sources # {}
    BY <1>3 DEF Prepared, HasSource, Prior, ObligationRestorable
  <2> DEFINE mark(src) == IF src.id = m THEN [src EXCEPT !.outcome = "changed"]
                          ELSE src
             marked == {mark(src) : src \in q.sources}
  <2>2. o = [q EXCEPT !.changedPaths = @ \cup {path}, !.sources = marked]
    BY <1>3, <2>1 DEF ObservedObligation
  <2>3. \A src \in q.sources : mark(src) \in Source /\ mark(src).id = src.id
    BY <1>1 DEF Obligation, Source, Outcomes
  <2> HIDE DEF q, o, mark
  <2>4. marked \subseteq Source /\ marked # {}
    BY <2>1, <2>3
  <2>5. {src.id : src \in marked} = {src.id : src \in q.sources}
    BY <2>3
  <2> HIDE DEF marked
  <2>6. /\ o \in Obligation
        /\ o.revision = q.revision
        /\ o.changedPaths = q.changedPaths \cup {path}
        /\ o.sources = marked
    BY <1>1, <2>2, <2>4 DEF Obligation
  <2>7. SourceIds(o) = SourceIds(q) \cup {m}
    BY <2>1, <2>5, <2>6 DEF SourceIds
  <2>8. ObligationRestorable(s.workspace.revision, o)
    BY <2>1, <2>4, <2>6 DEF ObligationRestorable
  <2> QED BY <1>3, <2>1, <2>6, <2>7, <2>8 DEF q, o
<1>4. CASE ~ Prepared(s, m)
  <2> DEFINE src == [id |-> IF m = None THEN Legacy ELSE m, outcome |-> "changed"]
  <2>1. src \in Source /\ src.id = (IF m = None THEN Legacy ELSE m)
    BY DEF Source, Outcomes
  <2>2. o = [revision |-> s.workspace.revision + 1, scope |-> q.scope,
             changedPaths |-> q.changedPaths \cup {path},
             sources |-> q.sources \cup {src}]
    BY <1>4 DEF ObservedObligation
  <2> HIDE DEF q, o, src
  <2>3. o \in Obligation
    BY <1>1, <1>2, <2>1, <2>2 DEF Obligation
  <2>4. SourceIds(o) = SourceIds(q) \cup {src.id}
    BY <2>2 DEF SourceIds
  <2>5. ObligationRestorable(s.workspace.revision + 1, o)
    BY <2>2 DEF ObligationRestorable
  <2>6. o.changedPaths = q.changedPaths \cup {path}
    BY <2>2
  <2> QED BY <1>4, <2>1, <2>3, <2>4, <2>5, <2>6 DEF q, o
<1> QED BY <1>3, <1>4

(* workspace.mutation.started as a whole: a new revision, the extended      *)
(* obligation, and no verdict.                                              *)
LEMMA MutationStartedEffect ==
    ASSUME NEW s \in AgentState, NEW m \in Mutations, NEW scope \in Scopes,
           NEW paths \in SUBSET Paths
    PROVE  LET t == MutationStarted(s, m, scope, paths) IN
           /\ t \in AgentState
           /\ SameGate(s, t) /\ SameCalls(s, t)
           /\ t.lastVerification = None
           /\ t.pendingVerificationRepair = s.pendingVerificationRepair
           /\ t.workspace.revision = s.workspace.revision + 1
           /\ t.workspace.pendingVerification =
                  PreparedObligation(s, m, scope, paths)
<1> DEFINE o   == PreparedObligation(s, m, scope, paths)
           rev == s.workspace.revision + 1
           wsp == [s.workspace EXCEPT !.revision = rev,
                                      !.pendingVerification = o]
<1>0. s.workspace \in Workspace
  BY DEF AgentState
<1>1. o \in Obligation
  BY PreparedObligationType
<1>2. rev \in Nat
  BY <1>0 DEF Workspace
<1>3. MutationStarted(s, m, scope, paths) =
          [s EXCEPT !.workspace = wsp, !.lastVerification = None]
  BY DEF MutationStarted
<1> HIDE DEF o, rev
<1>4. /\ wsp \in Workspace
      /\ wsp.revision = rev
      /\ wsp.pendingVerification = o
  BY <1>0, <1>1, <1>2 DEF Workspace
<1> HIDE DEF wsp
<1> QED
  BY <1>3, <1>4 DEF AgentState, SameGate, SameCalls, o, rev

(* workspace.changed as a whole: the extended obligation and no verdict,    *)
(* with a new revision unless the mutation was prepared.                    *)
LEMMA WorkspaceChangedEffect ==
    ASSUME NEW s \in AgentState, NEW m \in Mutations \cup {None},
           NEW path \in Paths, NEW change
    PROVE  LET t == WorkspaceChanged(s, m, path, change) IN
           /\ t \in AgentState
           /\ SameGate(s, t) /\ SameCalls(s, t)
           /\ t.lastVerification = None
           /\ t.pendingVerificationRepair = s.pendingVerificationRepair
           /\ t.workspace.revision = IF Prepared(s, m) THEN s.workspace.revision
                                     ELSE s.workspace.revision + 1
           /\ t.workspace.pendingVerification = ObservedObligation(s, m, path)
<1> DEFINE o    == ObservedObligation(s, m, path)
           rev  == IF Prepared(s, m) THEN s.workspace.revision
                   ELSE s.workspace.revision + 1
           new  == IF change = "created" THEN s.workspace.createdFiles \cup {path}
                   ELSE s.workspace.createdFiles
           gone == IF change = "created" THEN s.workspace.deletedFiles \ {path}
                   ELSE IF change = "deleted"
                        THEN s.workspace.deletedFiles \cup {path}
                   ELSE s.workspace.deletedFiles
           wsp  == [s.workspace EXCEPT
                     !.pendingVerification = o,
                     !.revision = rev,
                     !.touchedFiles = @ \cup {path},
                     !.planScopedTouchedFiles = @ \cup {path},
                     !.createdFiles = new,
                     !.deletedFiles = gone]
           rec  == [s.recovery EXCEPT !.lastProgressToolCalls = s.used.toolCalls + 1]
<1>0. s.workspace \in Workspace
  BY DEF AgentState
<1>1. o \in Obligation
  BY ObservedObligationType
<1>2. rev \in Nat
  BY <1>0 DEF Workspace
<1>3. new \in SUBSET Paths /\ gone \in SUBSET Paths
  BY <1>0 DEF Workspace
<1>4. WorkspaceChanged(s, m, path, change) =
          [s EXCEPT !.workspace = wsp, !.recovery = rec,
                    !.lastVerification = None]
  BY DEF WorkspaceChanged, AgentState
<1> HIDE DEF o, rev, new, gone
<1>5. /\ wsp \in Workspace
      /\ wsp.revision = rev
      /\ wsp.pendingVerification = o
  BY <1>0, <1>1, <1>2, <1>3 DEF Workspace
<1>6. /\ rec \in RecoveryState
      /\ rec.replanning = s.recovery.replanning
      /\ rec.replanAwaitingApproval = s.recovery.replanAwaitingApproval
  BY DEF AgentState, RecoveryState, BudgetUsed
<1> HIDE DEF wsp, rec
<1> QED
  BY <1>4, <1>5, <1>6 DEF AgentState, SameGate, SameCalls, o, rev

(* run.terminated closes the obligation on a clean end and keeps it on any  *)
(* other.                                                                   *)
LEMMA RunTerminatedEffect ==
    ASSUME NEW s \in AgentState, NEW reason
    PROVE  LET t == RunTerminated(s, reason) IN
           /\ t \in AgentState
           /\ SameGate(s, t) /\ SameCalls(s, t)
           /\ t.lastVerification = s.lastVerification
           /\ t.pendingVerificationRepair = s.pendingVerificationRepair
           /\ t.workspace.revision = s.workspace.revision
           /\ t.workspace.pendingVerification =
                  IF reason \in CleanEnds THEN None
                  ELSE s.workspace.pendingVerification
<1> DEFINE o   == IF reason \in CleanEnds THEN None
                  ELSE s.workspace.pendingVerification
           wsp == [s.workspace EXCEPT !.pendingVerification = o]
<1>0. s.workspace \in Workspace
  BY DEF AgentState
<1>1. o \in Obligation \cup {None}
  BY <1>0 DEF Workspace
<1>2. RunTerminated(s, reason) =
          [s EXCEPT !.phase = "terminated", !.workspace = wsp]
  BY DEF RunTerminated, AgentState
<1> HIDE DEF o
<1>3. /\ wsp \in Workspace
      /\ wsp.revision = s.workspace.revision
      /\ wsp.pendingVerification = o
  BY <1>0, <1>1 DEF Workspace
<1> HIDE DEF wsp
<1> QED
  BY <1>2, <1>3 DEF AgentState, SameGate, SameCalls, o

(* Restoring a snapshot changes the phase, no more. *)
LEMMA SnapshotRestoredEffect ==
    ASSUME NEW s \in AgentState
    PROVE  LET t == SnapshotRestored(s) IN
           /\ t \in AgentState
           /\ SameVerification(s, t) /\ SameGate(s, t) /\ SameCalls(s, t)
BY DEF SnapshotRestored, AgentState, SameVerification, SameGate, SameCalls
=============================================================================
