------------------------- MODULE ReplanProtocolProofs -------------------------
(***************************************************************************)
(* Theorems about plans and replans, for any plans, versions, tasks, tools *)
(* of a turn and number of restarts.                                       *)
(***************************************************************************)
EXTENDS ReplanProtocol, ReducerProofs, WellFoundedInduction

PlanFact == [v : Plans, status : PlanStatuses]
Batch == [mode : Modes, locked : BOOLEAN, calls : Nat, tools : SUBSET Tools]

Types ==
    /\ state \in AgentState
    /\ pc \in {"idle", "loop", "batch", "detect", "complete", "failed"}
    /\ plans \in [PlanIds -> Seq(PlanStatuses)]
    /\ \A id \in PlanIds : Len(plans[id]) <= MaxVersions
    /\ lastApproved \in Plans \cup {None}
    /\ taskPlan \in [Tasks -> Plans \cup {None}]
    /\ writeLock \in BOOLEAN /\ canRepair \in BOOLEAN
    /\ frozen \in Batch
    /\ planLog \in Seq(PlanFact)
    /\ approvalOwed \in BOOLEAN
    /\ reopened \subseteq Tasks

(* The last fact of the log about version v *)
LastIn(log, v, i) ==
    /\ i \in DOMAIN log /\ log[i].v = v
    /\ \A j \in DOMAIN log : j > i => log[j].v # v

(* Drafts are superseded and submitted without a fact; an approval and the  *)
(* end of an approved version have one.                                     *)
Agrees(log, v, status) ==
    \E i \in DOMAIN log :
        /\ LastIn(log, v, i)
        /\ status = "approved" <=> log[i].status = "approved"
        /\ log[i].status = "superseded" => status = "superseded"

RetiredIn(log, v) == \E i \in DOMAIN log : LastIn(log, v, i) /\ log[i].status = "superseded"

StoreIsLogged == \A v \in Plans : Exists(v) => Agrees(planLog, v, Status(v))

ApprovedExists ==
    lastApproved # None => Exists(lastApproved) /\ Status(lastApproved) = "approved"

(* Tasks are bound to versions that were approved. *)
TasksAreBound ==
    \A t \in Tasks : taskPlan[t] # None =>
        /\ Exists(taskPlan[t])
        /\ Status(taskPlan[t]) = "approved" \/ RetiredIn(planLog, taskPlan[t])

PlanInv ==
    Types /\ StoreIsLogged /\ ApprovedExists /\ TasksAreBound /\ RetiredTasksStayRetired

(* What a batch was given, and what may not have changed since *)
GateInv ==
    LET r == state.recovery IN
    /\ GateNeverLags
    /\ pc = "batch" /\ r.replanning =>
           /\ {"PlanPropose", "ExitPlanMode"} \subseteq frozen.tools
           /\ Intelligence /\ ~ r.replanAwaitingApproval =>
                  frozen.tools \cap {"Edit", "Shell"} = {}
    /\ r.replanning /\ ~ r.replanAwaitingApproval => lastApproved # None
    /\ approvalOwed => /\ r.replanCount >= 1
                       /\ AwaitsApproval(state) \/ r.replanCount > 1

-----------------------------------------------------------------------------
(* The reducer, as far as the protocol is concerned. *)

Kept(s, t) ==
    /\ t \in AgentState
    /\ t.recovery.replanning = s.recovery.replanning
    /\ t.recovery.replanAwaitingApproval = s.recovery.replanAwaitingApproval
    /\ t.recovery.degradedRecovery = s.recovery.degradedRecovery
    /\ t.recovery.replanCount = s.recovery.replanCount
    /\ t.workspace.revision = s.workspace.revision

Quiet(s, t) == Kept(s, t) /\ t.tasks = s.tasks

(* Facts that are neither about tasks nor about a replan *)
LEMMA QuietFacts ==
    ASSUME NEW s \in AgentState
    PROVE  /\ Quiet(s, [HumanMessage(s) EXCEPT !.iteration = 0, !.recovery.stopHookRetries = 0,
                                               !.phase = "active"])
           /\ \A B \in SUBSET Calls : Quiet(s, ToolCallsAccepted(AssistantMessage(s), B))
           /\ \A c \in Calls, ok, conflict \in BOOLEAN :
                  Quiet(s, ToolCallCompleted(s, c, ok, conflict))
           /\ \A n : Quiet(s, ToolResultsReady(s, n))
           /\ Quiet(s, LoopTransitioned(s))
           /\ Quiet(s, LoopTransitioned([s EXCEPT !.recovery.stopHookRetries = @ + 1]))
           /\ \A reason : Quiet(s, RunTerminated(s, reason))
           /\ Quiet(s, Recovered(s))
<1> USE DEF Quiet, Kept
<1>1. s.recovery \in RecoveryState /\ s.workspace \in Workspace
    BY DEF AgentState
<1>2. Quiet(s, [HumanMessage(s) EXCEPT !.iteration = 0, !.recovery.stopHookRetries = 0,
                                       !.phase = "active"])
    <2> DEFINE h == HumanMessage(s)
    <2>1. h \in AgentState /\ h.workspace = s.workspace
        BY HumanMessageEffect
    <2>2. /\ h.recovery \in RecoveryState /\ h.tasks = s.tasks
          /\ h.recovery.replanning = s.recovery.replanning
          /\ h.recovery.replanAwaitingApproval = s.recovery.replanAwaitingApproval
          /\ h.recovery.degradedRecovery = s.recovery.degradedRecovery
          /\ h.recovery.replanCount = s.recovery.replanCount
        BY <1>1, <2>1 DEF HumanMessage, AgentState, RecoveryState
    <2> HIDE DEF h
    <2>3. [h.recovery EXCEPT !.stopHookRetries = 0] \in RecoveryState
        BY <2>2 DEF RecoveryState
    <2> QED BY <2>1, <2>2, <2>3 DEF AgentState, RecoveryState, h
<1>3. ASSUME NEW B \in SUBSET Calls
      PROVE  Quiet(s, ToolCallsAccepted(AssistantMessage(s), B))
    <2>1. AssistantMessage(s) \in AgentState /\ AssistantMessage(s).workspace = s.workspace
        BY AssistantMessageEffect DEF SameVerification
    <2>2. /\ ToolCallsAccepted(AssistantMessage(s), B) \in AgentState
          /\ ToolCallsAccepted(AssistantMessage(s), B).workspace = s.workspace
        BY <2>1, ToolCallsAcceptedEffect DEF SameVerification
    <2>3. /\ ToolCallsAccepted(AssistantMessage(s), B).recovery = s.recovery
          /\ ToolCallsAccepted(AssistantMessage(s), B).tasks = s.tasks
        BY DEF ToolCallsAccepted, AssistantMessage, AgentState
    <2> QED BY <2>2, <2>3
<1>4. ASSUME NEW c \in Calls, NEW ok \in BOOLEAN, NEW conflict \in BOOLEAN
      PROVE  Quiet(s, ToolCallCompleted(s, c, ok, conflict))
    <2>1. /\ ToolCallCompleted(s, c, ok, conflict).recovery = s.recovery
          /\ ToolCallCompleted(s, c, ok, conflict).tasks = s.tasks
        BY DEF ToolCallCompleted, AgentState
    <2> QED BY <2>1, ToolCallCompletedEffect DEF SameVerification
<1>5. ASSUME NEW n
      PROVE  Quiet(s, ToolResultsReady(s, n))
    <2> DEFINE t == ToolResultsReady(s, n)
    <2>1. /\ t.tasks = s.tasks
          /\ t.recovery.degradedRecovery = s.recovery.degradedRecovery
          /\ t.recovery.replanCount = s.recovery.replanCount
        BY <1>1 DEF ToolResultsReady, AgentState, RecoveryState
    <2> QED BY <2>1, ToolResultsReadyEffect DEF SameVerification, SameGate
<1>6. ASSUME NEW u \in AgentState
      PROVE  /\ LoopTransitioned(u) \in AgentState
             /\ LoopTransitioned(u).recovery = u.recovery /\ LoopTransitioned(u).tasks = u.tasks
             /\ LoopTransitioned(u).workspace = u.workspace
    <2>1. LoopTransitioned(u).recovery = u.recovery /\ LoopTransitioned(u).tasks = u.tasks
        BY DEF LoopTransitioned, AgentState
    <2> QED BY <2>1, LoopTransitionedEffect DEF SameVerification
<1>7. Quiet(s, LoopTransitioned([s EXCEPT !.recovery.stopHookRetries = @ + 1]))
    <2> DEFINE u == [s EXCEPT !.recovery.stopHookRetries = @ + 1]
               r == [s.recovery EXCEPT !.stopHookRetries = @ + 1]
    <2>1. r \in RecoveryState
        BY <1>1 DEF RecoveryState
    <2>2. u \in AgentState /\ u.recovery = r /\ u.tasks = s.tasks /\ u.workspace = s.workspace
        BY <2>1 DEF AgentState
    <2> HIDE DEF u
    <2>3. Quiet(s, u)
        BY <1>1, <2>2 DEF RecoveryState
    <2>4. Quiet(s, LoopTransitioned(u))
        BY <1>6, <2>2, <2>3
    <2> QED BY <2>4 DEF u
<1>8. ASSUME NEW reason
      PROVE  Quiet(s, RunTerminated(s, reason))
    <2>1. RunTerminated(s, reason).recovery = s.recovery /\ RunTerminated(s, reason).tasks = s.tasks
        BY DEF RunTerminated, AgentState
    <2> QED BY <2>1, RunTerminatedEffect
<1>9. Quiet(s, Recovered(s))
    <2>1. /\ SnapshotRestored(s) \in AgentState /\ SnapshotRestored(s).recovery = s.recovery
          /\ SnapshotRestored(s).tasks = s.tasks /\ SnapshotRestored(s).workspace = s.workspace
        BY SnapshotRestoredEffect DEF SnapshotRestored, AgentState, SameVerification
    <2>2. ASSUME NEW u \in AgentState
          PROVE  /\ CallsInterrupted(u) \in AgentState /\ CallsInterrupted(u).recovery = u.recovery
                 /\ CallsInterrupted(u).tasks = u.tasks
                 /\ CallsInterrupted(u).workspace = u.workspace
        <3>1. CallsInterrupted(u) \in AgentState /\ CallsInterrupted(u).workspace = u.workspace
            BY CallsInterruptedEffect DEF SameVerification
        <3>2. CallsInterrupted(u).recovery = u.recovery /\ CallsInterrupted(u).tasks = u.tasks
            BY DEF CallsInterrupted, AgentState
        <3> QED BY <3>1, <3>2
    <2> QED BY <2>1, <2>2 DEF Recovered
<1> QED BY <1>2, <1>3, <1>4, <1>5, <1>6, <1>7, <1>8, <1>9

(* A call that completes after facts that keep the replan *)
LEMMA DoneKeeps ==
    ASSUME NEW s \in AgentState, NEW u \in AgentState, NEW c \in Calls
    PROVE  /\ Kept(s, u) => Kept(s, Done(u, c))
           /\ Quiet(s, u) => Quiet(s, Done(u, c))
           /\ Done(u, c) \in AgentState /\ Done(u, c).recovery = u.recovery
           /\ Done(u, c).tasks = u.tasks /\ Done(u, c).workspace = u.workspace
<1>1. Done(u, c) \in AgentState /\ Done(u, c).workspace = u.workspace
    BY ToolCallCompletedEffect DEF Done, SameVerification
<1>2. Done(u, c).recovery = u.recovery /\ Done(u, c).tasks = u.tasks
    BY DEF Done, ToolCallCompleted, AgentState
<1> QED BY <1>1, <1>2 DEF Kept, Quiet

(* Facts about plans, modes and verdicts *)
LEMMA PlanFacts ==
    ASSUME NEW s \in AgentState
    PROVE  /\ \A v \in Plans, approved \in BOOLEAN : Quiet(s, PlanVersionCreated(s, v, approved))
           /\ \A v \in Plans : Quiet(s, PlanStatusChanged(s, v))
           /\ \A from \in Modes : Quiet(s, ModeChanged(s, from, "plan"))
           /\ Quiet(s, ModeChanged(s, "plan", "default"))
           /\ \A verdict \in Verdicts, attempt \in Nat \cup {None} :
                  ~ VerificationRefused(verdict, TRUE, attempt) =>
                      Quiet(s, VerificationCompleted(s, verdict, TRUE, attempt))
<1> USE DEF Quiet, Kept
<1>1. s.recovery \in RecoveryState /\ s.workspace \in Workspace
    BY DEF AgentState
<1>2. ASSUME NEW v \in Plans, NEW approved \in BOOLEAN
      PROVE  Quiet(s, PlanVersionCreated(s, v, approved))
    <2>1. /\ PlanVersionCreated(s, v, approved).tasks = s.tasks
          /\ PlanVersionCreated(s, v, approved).recovery.degradedRecovery
                 = s.recovery.degradedRecovery
          /\ PlanVersionCreated(s, v, approved).recovery.replanCount = s.recovery.replanCount
        BY <1>1 DEF PlanVersionCreated, AgentState, RecoveryState
    <2> QED BY <2>1, PlanVersionCreatedEffect DEF SameVerification, SameGate
<1>3. ASSUME NEW v \in Plans
      PROVE  Quiet(s, PlanStatusChanged(s, v))
    <2>1. /\ PlanStatusChanged(s, v).tasks = s.tasks
          /\ PlanStatusChanged(s, v).recovery = s.recovery
        BY DEF PlanStatusChanged, AgentState
    <2> QED BY <2>1, PlanStatusChangedEffect DEF SameVerification
<1>4. ASSUME NEW from \in Modes, NEW to \in {"plan", "default"}, to = "default" => from = "plan"
      PROVE  Quiet(s, ModeChanged(s, from, to))
    <2> DEFINE leaving == from = "plan" /\ to # "plan"
               entering == to = "plan" /\ from # "plan"
               mode == IF leaving /\ s.prePlanMode # None THEN s.prePlanMode ELSE to
               before == IF leaving THEN None ELSE IF entering THEN from ELSE s.prePlanMode
    <2>1. ModeChanged(s, from, to) = [s EXCEPT !.mode = mode, !.prePlanMode = before]
        BY DEF ModeChanged, AgentState
    <2>2. s.prePlanMode \in (Modes \ {"plan"}) \cup {None} /\ to \in Modes
        BY DEF AgentState, Modes
    <2>3. mode \in Modes
        BY <2>2
    <2>4. before \in (Modes \ {"plan"}) \cup {None}
        BY <2>2
    <2> HIDE DEF mode, before
    <2> QED BY <2>1, <2>3, <2>4 DEF AgentState
<1>5. ASSUME NEW verdict \in Verdicts, NEW attempt \in Nat \cup {None},
             ~ VerificationRefused(verdict, TRUE, attempt)
      PROVE  Quiet(s, VerificationCompleted(s, verdict, TRUE, attempt))
    <2> DEFINE t == VerificationCompleted(s, verdict, TRUE, attempt)
    <2>1. /\ t.tasks = s.tasks
          /\ t.recovery.degradedRecovery = s.recovery.degradedRecovery
          /\ t.recovery.replanCount = s.recovery.replanCount
        BY <1>1 DEF VerificationCompleted, AgentState, RecoveryState
    <2> QED BY <1>5, <2>1, VerificationCompletedEffect DEF SameGate
<1>6. "plan" \in Modes
    BY DEF Modes
<1> QED BY <1>2, <1>3, <1>4, <1>5, <1>6

(* Facts about tasks *)
LEMMA TaskFacts ==
    ASSUME NEW s \in AgentState
    PROVE  /\ \A t \in Tasks, status \in TaskStatuses :
                  /\ Kept(s, TaskChanged(s, t, status))
                  /\ TaskChanged(s, t, status).tasks = [s.tasks EXCEPT ![t] = status]
           /\ \A S \in SUBSET Tasks : \A status \in [S -> TaskStatuses \cup {None}] :
                  /\ Kept(s, TasksChanged(s, status))
                  /\ TasksChanged(s, status).tasks
                         = [t \in Tasks |-> IF t \in S THEN status[t] ELSE s.tasks[t]]
<1>1. s.recovery \in RecoveryState /\ s.tasks \in [Tasks -> TaskStatuses \cup {None}]
    BY DEF AgentState
<1>2. ASSUME NEW t \in Tasks, NEW status \in TaskStatuses
      PROVE  /\ Kept(s, TaskChanged(s, t, status))
             /\ TaskChanged(s, t, status).tasks = [s.tasks EXCEPT ![t] = status]
    <2>1. /\ TaskChanged(s, t, status).recovery.degradedRecovery = s.recovery.degradedRecovery
          /\ TaskChanged(s, t, status).recovery.replanCount = s.recovery.replanCount
          /\ TaskChanged(s, t, status).tasks = [s.tasks EXCEPT ![t] = status]
        BY <1>1 DEF TaskChanged, AgentState, RecoveryState
    <2> QED BY <2>1, TaskChangedEffect DEF Kept, SameVerification, SameGate
<1>3. ASSUME NEW S \in SUBSET Tasks, NEW status \in [S -> TaskStatuses \cup {None}]
      PROVE  /\ Kept(s, TasksChanged(s, status))
             /\ TasksChanged(s, status).tasks
                    = [t \in Tasks |-> IF t \in S THEN status[t] ELSE s.tasks[t]]
    <2> DEFINE new == [t \in Tasks |-> IF t \in S THEN status[t] ELSE s.tasks[t]]
               r == [s.recovery EXCEPT !.lastProgressToolCalls = s.used.toolCalls + 1]
    <2>1. new \in [Tasks -> TaskStatuses \cup {None}]
        BY <1>1
    <2>2. CASE S = {}
        <3>1. TasksChanged(s, status) = s /\ s.tasks = new
            BY <1>1, <2>2 DEF TasksChanged
        <3> QED BY <3>1 DEF Kept
    <2>3. CASE S # {}
        <3>1. TasksChanged(s, status) = [s EXCEPT !.tasks = new, !.recovery = r]
            BY <1>1, <2>3 DEF TasksChanged, AgentState
        <3>2. r \in RecoveryState
            BY <1>1 DEF RecoveryState, AgentState, BudgetUsed
        <3>3. /\ r.replanning = s.recovery.replanning
              /\ r.replanAwaitingApproval = s.recovery.replanAwaitingApproval
              /\ r.degradedRecovery = s.recovery.degradedRecovery
              /\ r.replanCount = s.recovery.replanCount
            BY <1>1 DEF RecoveryState
        <3> HIDE DEF new, r
        <3> QED BY <2>1, <3>1, <3>2, <3>3 DEF Kept, AgentState, new
    <2> QED BY <2>2, <2>3
<1> QED BY <1>2, <1>3

(* Facts that open and close a replan *)
LEMMA ReplanFacts ==
    ASSUME NEW s \in AgentState
    PROVE  /\ \A reapproval \in BOOLEAN :
                 LET t == ReplanRequested(s, reapproval) IN
                 /\ t \in AgentState /\ t.tasks = s.tasks
                 /\ t.workspace.revision = s.workspace.revision
                 /\ t.recovery.replanning /\ t.recovery.replanAwaitingApproval = reapproval
                 /\ t.recovery.degradedRecovery = s.recovery.degradedRecovery
                 /\ t.recovery.replanCount = s.recovery.replanCount + 1
           /\ LET t == ReplanAdjustmentApplied(s) IN
              /\ t \in AgentState /\ t.tasks = s.tasks
              /\ t.workspace.revision = s.workspace.revision
              /\ ~ t.recovery.replanning
              /\ t.recovery.replanAwaitingApproval = s.recovery.replanAwaitingApproval
              /\ t.recovery.degradedRecovery = s.recovery.degradedRecovery
              /\ t.recovery.replanCount = s.recovery.replanCount
           /\ \A v \in Plans :
                 LET t == PlanApproved(s, v) IN
                 /\ t \in AgentState /\ t.tasks = s.tasks
                 /\ t.workspace.revision = s.workspace.revision
                 /\ ~ t.recovery.replanning
                 /\ t.recovery.degradedRecovery = s.recovery.degradedRecovery
                 /\ t.recovery.replanCount = s.recovery.replanCount
<1>1. s.recovery \in RecoveryState /\ s.workspace \in Workspace
    BY DEF AgentState
<1>2. ASSUME NEW reapproval \in BOOLEAN
      PROVE  LET t == ReplanRequested(s, reapproval) IN
                 /\ t \in AgentState /\ t.tasks = s.tasks
                 /\ t.workspace.revision = s.workspace.revision
                 /\ t.recovery.replanning /\ t.recovery.replanAwaitingApproval = reapproval
                 /\ t.recovery.degradedRecovery = s.recovery.degradedRecovery
                 /\ t.recovery.replanCount = s.recovery.replanCount + 1
    <2> DEFINE t == ReplanRequested(s, reapproval)
    <2>1. /\ t.tasks = s.tasks /\ t.recovery.replanAwaitingApproval = reapproval
          /\ t.recovery.degradedRecovery = s.recovery.degradedRecovery
          /\ t.recovery.replanCount = s.recovery.replanCount + 1
        BY <1>1 DEF ReplanRequested, AgentState, RecoveryState
    <2> QED BY <2>1, ReplanRequestedEffect
<1>3. LET t == ReplanAdjustmentApplied(s) IN
              /\ t \in AgentState /\ t.tasks = s.tasks
              /\ t.workspace.revision = s.workspace.revision
              /\ ~ t.recovery.replanning
              /\ t.recovery.replanAwaitingApproval = s.recovery.replanAwaitingApproval
              /\ t.recovery.degradedRecovery = s.recovery.degradedRecovery
              /\ t.recovery.replanCount = s.recovery.replanCount
    <2> DEFINE t == ReplanAdjustmentApplied(s)
    <2>1. /\ t.tasks = s.tasks /\ ~ t.recovery.replanning
          /\ t.recovery.degradedRecovery = s.recovery.degradedRecovery
          /\ t.recovery.replanCount = s.recovery.replanCount
        BY <1>1 DEF ReplanAdjustmentApplied, AgentState, RecoveryState
    <2> QED BY <2>1, AdjustmentEffect DEF SameVerification
<1>4. ASSUME NEW v \in Plans
      PROVE  LET t == PlanApproved(s, v) IN
                 /\ t \in AgentState /\ t.tasks = s.tasks
                 /\ t.workspace.revision = s.workspace.revision
                 /\ ~ t.recovery.replanning
                 /\ t.recovery.degradedRecovery = s.recovery.degradedRecovery
                 /\ t.recovery.replanCount = s.recovery.replanCount
    <2> DEFINE t == PlanApproved(s, v)
    <2>1. /\ t.tasks = s.tasks
          /\ t.recovery.degradedRecovery = s.recovery.degradedRecovery
          /\ t.recovery.replanCount = s.recovery.replanCount
        BY <1>1 DEF PlanApproved, AgentState, RecoveryState
    <2>2. t.workspace.revision = s.workspace.revision
        BY <1>1, PlanApprovedEffect DEF Workspace
    <2> QED BY <2>1, <2>2, PlanApprovedEffect
<1> QED BY <1>2, <1>3, <1>4

-----------------------------------------------------------------------------
(* The log. *)

(* A new fact is the last one about its version and hides no other fact. *)
LEMMA LogGrows ==
    ASSUME NEW log \in Seq(PlanFact), NEW f \in PlanFact
    PROVE  LET l == Append(log, f) IN
           /\ l \in Seq(PlanFact)
           /\ Agrees(l, f.v, f.status)
           /\ f.status = "superseded" => RetiredIn(l, f.v)
           /\ \A w \in Plans : w # f.v =>
                 /\ RetiredIn(log, w) => RetiredIn(l, w)
                 /\ \A status : Agrees(log, w, status) => Agrees(l, w, status)
<1> DEFINE l == Append(log, f)
           n == Len(log) + 1
<1>1. /\ l \in Seq(PlanFact) /\ n \in DOMAIN l /\ l[n] = f
      /\ DOMAIN l = 1..n /\ DOMAIN log = 1..Len(log) /\ Len(log) \in Nat
      /\ \A i \in DOMAIN log : i \in DOMAIN l /\ l[i] = log[i]
    OBVIOUS
<1> HIDE DEF l
<1>2. LastIn(l, f.v, n)
    BY <1>1 DEF LastIn
<1>3. ASSUME NEW w \in Plans, w # f.v, NEW i \in DOMAIN log, LastIn(log, w, i)
      PROVE  i \in DOMAIN l /\ LastIn(l, w, i) /\ l[i] = log[i]
    <2>1. ASSUME NEW j \in DOMAIN l, j > i
          PROVE  l[j].v # w
        <3>1. CASE j = n
            BY <1>1, <1>3, <3>1
        <3>2. CASE j # n
            <4>1. j \in DOMAIN log /\ l[j] = log[j]
                BY <1>1, <3>2
            <4> QED BY <1>3, <2>1, <4>1 DEF LastIn
        <3> QED BY <3>1, <3>2
    <2> QED BY <1>1, <1>3, <2>1 DEF LastIn
<1>4. Agrees(l, f.v, f.status) /\ (f.status = "superseded" => RetiredIn(l, f.v))
    BY <1>1, <1>2 DEF Agrees, RetiredIn
<1>5. ASSUME NEW w \in Plans, w # f.v
      PROVE  /\ RetiredIn(log, w) => RetiredIn(l, w)
             /\ \A status : Agrees(log, w, status) => Agrees(l, w, status)
    <2>1. ASSUME RetiredIn(log, w)
          PROVE  RetiredIn(l, w)
        <3>1. PICK i \in DOMAIN log : LastIn(log, w, i) /\ log[i].status = "superseded"
            BY <2>1 DEF RetiredIn
        <3>2. i \in DOMAIN l /\ LastIn(l, w, i) /\ l[i].status = "superseded"
            BY <1>3, <1>5, <3>1
        <3> QED BY <3>2 DEF RetiredIn
    <2>2. ASSUME NEW status, Agrees(log, w, status)
          PROVE  Agrees(l, w, status)
        <3>1. PICK i \in DOMAIN log :
                  /\ LastIn(log, w, i)
                  /\ status = "approved" <=> log[i].status = "approved"
                  /\ log[i].status = "superseded" => status = "superseded"
            BY <2>2 DEF Agrees
        <3>2. i \in DOMAIN l /\ LastIn(l, w, i) /\ l[i] = log[i]
            BY <1>3, <1>5, <3>1
        <3> QED BY <3>1, <3>2 DEF Agrees
    <2> QED BY <2>1, <2>2
<1> QED BY <1>1, <1>4, <1>5 DEF l

(* A version that was not approved and does not become so needs no fact. *)
LEMMA AgreesMoves ==
    ASSUME NEW log, NEW v, NEW a, NEW b, Agrees(log, v, a),
           a # "approved", b # "approved", a = "superseded" => b = "superseded"
    PROVE  Agrees(log, v, b)
BY DEF Agrees

(* The loader's status of a version is that of its last fact. *)
LEMMA LastLogged ==
    ASSUME planLog \in Seq(PlanFact), NEW v \in Plans, NEW i \in DOMAIN planLog,
           LastIn(planLog, v, i)
    PROVE  LoggedStatus(v) = planLog[i].status
<1> DEFINE at == {j \in DOMAIN planLog : planLog[j].v = v}
<1>1. i \in at /\ \A j \in at : j \in Int /\ i >= j
    <2>1. i \in at /\ i \in Int /\ at \subseteq Int
        BY DEF LastIn
    <2>2. ASSUME NEW j \in at
          PROVE  ~ (j > i)
        BY <2>2 DEF LastIn
    <2> QED BY <2>1, <2>2
<1>2. Max(at) = i
    <2> HIDE DEF at
    <2>1. Max(at) \in at /\ \A j \in at : Max(at) >= j
        BY <1>1 DEF Max
    <2> QED BY <1>1, <2>1
<1> QED BY <1>2 DEF LoggedStatus

(* What is recorded of a version that exists *)
LEMMA LoggedAgrees ==
    ASSUME planLog \in Seq(PlanFact), NEW v \in Plans, NEW status, Agrees(planLog, v, status)
    PROVE  /\ LoggedStatus(v) \in PlanStatuses
           /\ status = "approved" <=> LoggedStatus(v) = "approved"
           /\ LoggedStatus(v) = "superseded" => status = "superseded"
           /\ Agrees(planLog, v, LoggedStatus(v))
           /\ RetiredIn(planLog, v) => LoggedStatus(v) = "superseded"
           /\ \E i \in DOMAIN planLog : planLog[i].v = v
<1>1. PICK i \in DOMAIN planLog :
          /\ LastIn(planLog, v, i)
          /\ status = "approved" <=> planLog[i].status = "approved"
          /\ planLog[i].status = "superseded" => status = "superseded"
    BY DEF Agrees
<1>2. LoggedStatus(v) = planLog[i].status
    BY <1>1, LastLogged
<1>3. planLog[i] \in PlanFact
    OBVIOUS
<1>4. RetiredIn(planLog, v) => LoggedStatus(v) = "superseded"
    BY LastLogged DEF RetiredIn
<1>5. Agrees(planLog, v, LoggedStatus(v))
    BY <1>1, <1>2 DEF Agrees
<1> QED BY <1>1, <1>2, <1>3, <1>4, <1>5 DEF PlanFact, LastIn

(* A set of positions that is not empty has a first and a last one. *)
LEMMA FirstExists ==
    ASSUME NEW S, S \subseteq Nat, S # {}
    PROVE  \E x \in S : \A y \in S : x <= y
<1> DEFINE Less == OpToRel(<, Nat)
<1>1. IsWellFoundedOn(Less, Nat)
    BY NatLessThanWellFounded
<1>2. ASSUME NEW x \in Nat, NEW y \in Nat, y < x
      PROVE  <<y, x>> \in Less
    BY <1>2 DEF OpToRel
<1> HIDE DEF Less
<1>3. PICK x \in S : \A y \in S : ~ (<<y, x>> \in Less)
    BY <1>1, WFMin
<1>4. ASSUME NEW y \in S
      PROVE  x <= y
    <2>1. x \in Nat /\ y \in Nat
        OBVIOUS
    <2>2. ~ (y < x)
        BY <1>2, <1>3, <2>1
    <2> QED BY <2>1, <2>2
<1> QED BY <1>4

(* A bounded set of numbers that is not empty has a greatest one. *)
LEMMA LastExists ==
    ASSUME NEW n \in Nat, NEW S, S \subseteq 0..n, S # {}
    PROVE  \E x \in S : \A y \in S : y <= x
<1> DEFINE R == {n - x : x \in S}
<1>1. R \subseteq Nat /\ R # {}
    <2>1. ASSUME NEW x \in S
          PROVE  n - x \in Nat
        <3>1. x \in 0..n
            OBVIOUS
        <3> QED BY <3>1
    <2> QED BY <2>1
<1>2. PICK r \in R : \A q \in R : r <= q
    <2> HIDE DEF R
    <2> QED BY <1>1, FirstExists
<1>3. PICK x \in S : r = n - x
    OBVIOUS
<1>4. ASSUME NEW y \in S
      PROVE  y <= x
    <2>1. n - y \in R
        OBVIOUS
    <2>2. n - x <= n - y
        BY <1>2, <1>3, <2>1
    <2>3. x \in Int /\ y \in Int
        OBVIOUS
    <2> QED BY <2>2, <2>3
<1> QED BY <1>4

(* PlanStore.restore ends with a version the log calls approved, if one is. *)
LEMMA RestoredIsApproved ==
    ASSUME Types, StoreIsLogged, ApprovedExists
    PROVE  \/ RestoredApproved = None /\ lastApproved = None
           \/ /\ RestoredApproved \in Plans /\ Exists(RestoredApproved)
              /\ LoggedStatus(RestoredApproved) = "approved"
<1> DEFINE approved == {v \in Plans : Exists(v) /\ LoggedStatus(v) = "approved"}
           at(v) == {i \in DOMAIN planLog : planLog[i].v = v}
           firsts == {FirstLogged(v) : v \in approved}
<1>1. planLog \in Seq(PlanFact) /\ Len(planLog) \in Nat /\ DOMAIN planLog = 1..Len(planLog)
    BY DEF Types
<1>2. ASSUME NEW v \in approved
      PROVE  FirstLogged(v) \in 0..Len(planLog)
    <2>1. at(v) # {} /\ at(v) \subseteq Nat /\ at(v) \subseteq 0..Len(planLog)
        <3>1. \E i \in DOMAIN planLog : planLog[i].v = v
            BY <1>1, LoggedAgrees DEF StoreIsLogged
        <3> QED BY <1>1, <3>1
    <2>2. FirstLogged(v) = Min(at(v))
        BY DEF FirstLogged
    <2> HIDE DEF at
    <2>3. \E x \in at(v) : \A y \in at(v) : x <= y
        BY <2>1, FirstExists
    <2>4. Min(at(v)) \in at(v)
        BY <2>3 DEF Min
    <2> QED BY <2>1, <2>2, <2>4
<1>3. CASE approved = {}
    <2>1. ASSUME lastApproved # None
          PROVE  FALSE
        <3>1. PICK v \in Plans : v = lastApproved
            BY <2>1 DEF Types
        <3>2. Exists(v) /\ Status(v) = "approved"
            BY <2>1, <3>1 DEF ApprovedExists
        <3>3. LoggedStatus(v) = "approved"
            BY <1>1, <3>2, LoggedAgrees DEF StoreIsLogged
        <3> QED BY <1>3, <3>2, <3>3
    <2> QED BY <1>3, <2>1 DEF RestoredApproved
<1>4. CASE approved # {}
    <2>1. firsts \subseteq 0..Len(planLog) /\ firsts # {}
        BY <1>2, <1>4
    <2>2. PICK x \in firsts : \A y \in firsts : y <= x
        <3> HIDE DEF firsts
        <3> QED BY <1>1, <2>1, LastExists
    <2>3. \E v \in approved : \A w \in approved : FirstLogged(w) <= FirstLogged(v)
        BY <2>2
    <2>4. RestoredApproved = CHOOSE v \in approved :
                                 \A w \in approved : FirstLogged(w) <= FirstLogged(v)
        BY <1>4 DEF RestoredApproved
    <2>5. RestoredApproved \in approved
        <3> HIDE DEF approved
        <3> QED BY <2>3, <2>4
    <2> QED BY <2>5
<1> QED BY <1>3, <1>4

-----------------------------------------------------------------------------
(* The store. *)

(* A version is a plan and its number. *)
LEMMA VersionIsPair ==
    ASSUME NEW v \in Plans
    PROVE  v[1] \in PlanIds /\ v[2] \in 1..MaxVersions /\ v = <<v[1], v[2]>>
BY VersionsArePlans

(* The status of a stored version is one of the statuses of a plan. *)
LEMMA StatusIsTyped ==
    ASSUME plans \in [PlanIds -> Seq(PlanStatuses)], NEW v \in Plans, Exists(v)
    PROVE  Status(v) \in PlanStatuses /\ v[2] \in DOMAIN plans[v[1]]
<1>1. plans[v[1]] \in Seq(PlanStatuses) /\ v[2] \in Nat /\ v[2] >= 1 /\ v[2] <= Len(plans[v[1]])
    BY VersionIsPair, VersionsAreCounted DEF Exists
<1> DEFINE q == plans[v[1]]
<1>2. v[2] \in DOMAIN q /\ q[v[2]] \in PlanStatuses
    <2> HIDE DEF q
    <2>1. q \in Seq(PlanStatuses) /\ v[2] \in Nat /\ v[2] >= 1 /\ v[2] <= Len(q)
        BY <1>1 DEF q
    <2> QED BY <2>1
<1> QED BY <1>2 DEF Status

StoreTyped ==
    plans \in [PlanIds -> Seq(PlanStatuses)] /\ \A id \in PlanIds : Len(plans[id]) <= MaxVersions

(* markAwaitingApproval, markApproved, markSuperseded: one status changes. *)
LEMMA StatusSet ==
    ASSUME StoreTyped, NEW v \in Plans, Exists(v), NEW status \in PlanStatuses,
           plans' = [plans EXCEPT ![v[1]][v[2]] = status]
    PROVE  /\ StoreTyped'
           /\ \A w \in Plans : /\ Exists(w)' <=> Exists(w)
                               /\ w # v /\ Exists(w) => Status(w)' = Status(w)
           /\ Status(v)' = status
<1> DEFINE q == plans[v[1]]
           r == [q EXCEPT ![v[2]] = status]
<1>1. v[1] \in PlanIds /\ v[2] \in DOMAIN q /\ q \in Seq(PlanStatuses) /\ plans' = [plans EXCEPT ![v[1]] = r]
    BY StatusIsTyped, VersionIsPair DEF StoreTyped
<1>2. r \in Seq(PlanStatuses) /\ Len(r) = Len(q) /\ r[v[2]] = status
      /\ \A n \in DOMAIN q : n # v[2] => r[n] = q[n]
    <2> HIDE DEF q
    <2> QED BY <1>1
<1>3. plans'[v[1]] = r /\ \A id \in PlanIds : id # v[1] => plans'[id] = plans[id]
    BY <1>1 DEF StoreTyped
<1>4. StoreTyped'
    <2>1. \A id \in PlanIds : plans'[id] \in Seq(PlanStatuses) /\ Len(plans'[id]) <= MaxVersions
        BY <1>2, <1>3 DEF StoreTyped
    <2> HIDE DEF r
    <2>2. plans' = [id \in PlanIds |-> plans'[id]]
        BY <1>1 DEF StoreTyped
    <2>3. plans' \in [PlanIds -> Seq(PlanStatuses)]
        BY <2>1, <2>2
    <2> QED BY <2>1, <2>3 DEF StoreTyped
<1>5. Status(v)' = status
    BY <1>2, <1>3 DEF Status
<1>6. ASSUME NEW w \in Plans
      PROVE  /\ Exists(w)' <=> Exists(w)
             /\ w # v /\ Exists(w) => Status(w)' = Status(w)
    <2>1. w[1] \in PlanIds /\ (Exists(w) => w[2] \in DOMAIN plans[w[1]])
        BY StatusIsTyped, VersionIsPair DEF StoreTyped
    <2>2. CASE w[1] # v[1]
        BY <1>3, <2>1, <2>2 DEF Exists, Status
    <2>3. CASE w[1] = v[1]
        <3>1. w # v => w[2] # v[2]
            BY <2>3, VersionIsPair
        <3> HIDE DEF r
        <3> QED BY <1>2, <1>3, <2>1, <2>3, <3>1 DEF Exists, Status
    <2> QED BY <2>2, <2>3
<1> QED BY <1>4, <1>5, <1>6

(* A version is added to plan id, whose older statuses are now those of q. *)
LEMMA VersionAdded ==
    ASSUME StoreTyped, NEW id \in PlanIds, NEW q \in Seq(PlanStatuses), Len(q) = Len(plans[id]),
           NEW status \in PlanStatuses,
           NEW new \in Plans, new = NextVersion(id),
           plans' = [plans EXCEPT ![id] = Append(q, status)]
    PROVE  /\ StoreTyped'
           /\ ~ Exists(new)
           /\ Exists(new)' /\ Status(new)' = status
           /\ \A w \in Plans :
                 /\ Exists(w) => /\ Exists(w)'
                                 /\ Status(w)' = IF w[1] = id THEN q[w[2]] ELSE Status(w)
                 /\ Exists(w)' /\ ~ Exists(w) => w = new
<1> DEFINE n == Len(plans[id])
           r == Append(q, status)
<1>1. plans[id] \in Seq(PlanStatuses) /\ n \in Nat
    BY DEF StoreTyped
<1>2. new[1] = id /\ new[2] = n + 1 /\ n + 1 <= MaxVersions
    <2>1. new[1] = id /\ new[2] = n + 1
        BY DEF NextVersion
    <2> QED BY <1>1, <2>1, VersionIsPair, VersionsAreCounted
<1>3. /\ r \in Seq(PlanStatuses) /\ Len(r) = n + 1 /\ r[n + 1] = status
      /\ \A i \in 1..n : r[i] = q[i]
    BY <1>1
<1>4. plans'[id] = r /\ \A d \in PlanIds : d # id => plans'[d] = plans[d]
    BY DEF StoreTyped
<1> HIDE DEF r, n
<1>5. StoreTyped'
    <2>1. \A d \in PlanIds : plans'[d] \in Seq(PlanStatuses) /\ Len(plans'[d]) <= MaxVersions
        BY <1>2, <1>3, <1>4 DEF StoreTyped
    <2>2. plans' = [d \in PlanIds |-> plans'[d]]
        BY DEF StoreTyped
    <2>3. plans' \in [PlanIds -> Seq(PlanStatuses)]
        BY <2>1, <2>2
    <2> QED BY <2>1, <2>3 DEF StoreTyped
<1>6. ~ Exists(new)
    BY <1>1, <1>2 DEF Exists, n
<1>7. /\ new[2] <= Len(plans'[new[1]])
      /\ plans'[new[1]][new[2]] = status
    BY <1>1, <1>2, <1>3, <1>4
<1>8. ASSUME NEW w \in Plans
      PROVE  /\ Exists(w) => /\ Exists(w)'
                             /\ Status(w)' = IF w[1] = id THEN q[w[2]] ELSE Status(w)
             /\ Exists(w)' /\ ~ Exists(w) => w = new
    <2>1. w[1] \in PlanIds /\ w[2] \in 1..MaxVersions /\ w[2] \in Nat /\ w[2] >= 1
        BY VersionIsPair, VersionsAreCounted
    <2>2. CASE w[1] # id
        BY <1>4, <2>1, <2>2 DEF Exists, Status
    <2>3. CASE w[1] = id
        <3>1. Exists(w) <=> w[2] <= n
            BY <2>3 DEF Exists, n
        <3>2. Exists(w)' <=> w[2] <= n + 1
            BY <1>3, <1>4, <2>3 DEF Exists
        <3>3. w[2] = n + 1 => w = new
            <4>1. w = <<w[1], w[2]>> /\ new = <<id, n + 1>>
                BY VersionIsPair DEF n, NextVersion
            <4> QED BY <2>3, <4>1
        <3>4. Status(w)' = r[w[2]]
            BY <1>4, <2>3 DEF Status
        <3>5. w[2] <= n => r[w[2]] = q[w[2]]
            BY <1>1, <1>3, <2>1
        <3> QED BY <1>1, <2>1, <2>3, <3>1, <3>2, <3>3, <3>4, <3>5
    <2> QED BY <2>2, <2>3
<1> QED BY <1>5, <1>6, <1>7, <1>8 DEF Exists, Status

(* createVersion: open drafts of the plan are superseded. *)
LEMMA DraftAdded ==
    ASSUME StoreTyped, NEW id \in PlanIds, NEW new \in Plans,
           new = NextVersion(id), CreateVersion(id)
    PROVE  /\ StoreTyped'
           /\ ~ Exists(new)
           /\ Exists(new)' /\ Status(new)' = "draft"
           /\ \A w \in Plans :
                 /\ Exists(w) =>
                       /\ Exists(w)'
                       /\ \/ Status(w)' = Status(w)
                          \/ /\ Status(w) \in {"draft", "awaiting_approval"}
                             /\ Status(w)' = "superseded"
                 /\ Exists(w)' /\ ~ Exists(w) => w = new
<1> DEFINE q == Superseding(plans[id])
<1>1. plans[id] \in Seq(PlanStatuses)
    BY DEF StoreTyped
<1>2. /\ q \in Seq(PlanStatuses) /\ Len(q) = Len(plans[id])
      /\ \A n \in DOMAIN plans[id] :
            q[n] = IF plans[id][n] \in {"draft", "awaiting_approval"} THEN "superseded"
                   ELSE plans[id][n]
    <2> DEFINE p == plans[id]
    <2> HIDE DEF p
    <2>1. p \in Seq(PlanStatuses)
        BY <1>1 DEF p
    <2>2. "superseded" \in PlanStatuses
        BY DEF PlanStatuses
    <2>3. /\ Superseding(p) \in Seq(PlanStatuses) /\ Len(Superseding(p)) = Len(p)
          /\ \A n \in DOMAIN p :
                Superseding(p)[n] = IF p[n] \in {"draft", "awaiting_approval"} THEN "superseded"
                                    ELSE p[n]
        BY <2>1, <2>2 DEF Superseding
    <2> QED BY <2>3 DEF p
<1>3. plans' = [plans EXCEPT ![id] = Append(q, "draft")] /\ "draft" \in PlanStatuses
    BY DEF CreateVersion, StoreTyped, PlanStatuses
<1> HIDE DEF q
<1>4. /\ StoreTyped'
      /\ ~ Exists(new)
      /\ Exists(new)' /\ Status(new)' = "draft"
      /\ \A w \in Plans :
            /\ Exists(w) => /\ Exists(w)'
                            /\ Status(w)' = IF w[1] = id THEN q[w[2]] ELSE Status(w)
            /\ Exists(w)' /\ ~ Exists(w) => w = new
    BY <1>2, <1>3, VersionAdded
<1>5. ASSUME NEW w \in Plans, Exists(w)
      PROVE  \/ Status(w)' = Status(w)
             \/ /\ Status(w) \in {"draft", "awaiting_approval"}
                /\ Status(w)' = "superseded"
    <2>1. w[2] \in DOMAIN plans[w[1]]
        BY <1>5, StatusIsTyped DEF StoreTyped
    <2> QED BY <1>2, <1>4, <1>5, <2>1 DEF Status
<1> QED BY <1>4, <1>5

(* createLocalRepair: version v is superseded, the next one approved. *)
LEMMA RepairAdded ==
    ASSUME StoreTyped, NEW v \in Plans, Exists(v), NEW new \in Plans,
           new = NextVersion(v[1]), CreateLocalRepair(v)
    PROVE  /\ StoreTyped'
           /\ ~ Exists(new) /\ Exists(new)' /\ Status(new)' = "approved"
           /\ Status(v)' = "superseded"
           /\ \A w \in Plans :
                 /\ Exists(w) => Exists(w)' /\ (w # v => Status(w)' = Status(w))
                 /\ Exists(w)' /\ ~ Exists(w) => w = new
<1> DEFINE id == v[1]
           q == [plans[id] EXCEPT ![v[2]] = "superseded"]
<1>1. id \in PlanIds /\ plans[id] \in Seq(PlanStatuses) /\ v[2] \in DOMAIN plans[id]
      /\ new = NextVersion(id)
    BY VersionIsPair, StatusIsTyped DEF StoreTyped
<1>2. /\ q \in Seq(PlanStatuses) /\ Len(q) = Len(plans[id]) /\ q[v[2]] = "superseded"
      /\ \A n \in DOMAIN plans[id] : n # v[2] => q[n] = plans[id][n]
    <2> DEFINE p == plans[id]
    <2> HIDE DEF p
    <2>1. p \in Seq(PlanStatuses) /\ v[2] \in DOMAIN p
        BY <1>1 DEF p
    <2>2. "superseded" \in PlanStatuses
        BY DEF PlanStatuses
    <2>3. LET z == [p EXCEPT ![v[2]] = "superseded"] IN
          /\ z \in Seq(PlanStatuses) /\ Len(z) = Len(p) /\ z[v[2]] = "superseded"
          /\ \A n \in DOMAIN p : n # v[2] => z[n] = p[n]
        BY <2>1, <2>2
    <2> QED BY <2>3 DEF p
<1>3. plans' = [plans EXCEPT ![id] = Append(q, "approved")] /\ "approved" \in PlanStatuses
    BY DEF CreateLocalRepair, StoreTyped, PlanStatuses
<1> HIDE DEF q, id
<1>4. /\ StoreTyped'
      /\ ~ Exists(new)
      /\ Exists(new)' /\ Status(new)' = "approved"
      /\ \A w \in Plans :
            /\ Exists(w) => /\ Exists(w)'
                            /\ Status(w)' = IF w[1] = id THEN q[w[2]] ELSE Status(w)
            /\ Exists(w)' /\ ~ Exists(w) => w = new
    BY <1>1, <1>2, <1>3, VersionAdded
<1>5. ASSUME NEW w \in Plans, Exists(w), w # v
      PROVE  Status(w)' = Status(w)
    <2>1. w[2] \in DOMAIN plans[w[1]] /\ (w[1] = id => w[2] # v[2])
        BY <1>5, StatusIsTyped, VersionIsPair DEF StoreTyped, id
    <2> QED BY <1>2, <1>4, <1>5, <2>1 DEF Status
<1>6. Status(v)' = "superseded"
    BY <1>2, <1>4 DEF id
<1> QED BY <1>4, <1>5, <1>6

-----------------------------------------------------------------------------
(* The state after a step. *)

(* All but the workspace *)
Steady(s, t) ==
    /\ t \in AgentState /\ t.tasks = s.tasks
    /\ t.recovery.replanning = s.recovery.replanning
    /\ t.recovery.replanAwaitingApproval = s.recovery.replanAwaitingApproval
    /\ t.recovery.degradedRecovery = s.recovery.degradedRecovery
    /\ t.recovery.replanCount = s.recovery.replanCount

(* Facts that keep the replan follow each other. *)
LEMMA QuietChain ==
    ASSUME NEW s, NEW u, NEW t
    PROVE  /\ Quiet(s, u) => u \in AgentState /\ Steady(s, u)
           /\ Quiet(s, u) /\ Quiet(u, t) => Quiet(s, t)
BY DEF Quiet, Kept, Steady

(* A write changes the workspace only. *)
LEMMA WriteFacts ==
    ASSUME NEW s \in AgentState, NEW m \in Mutations, NEW path \in Paths, NEW c \in Calls
    PROVE  Steady(s, Done(WorkspaceChanged(MutationStarted(s, m, "paths", {path}),
                                           m, path, "modified"), c))
<1> DEFINE u == MutationStarted(s, m, "paths", {path})
           w == WorkspaceChanged(u, m, path, "modified")
<1>1. u \in AgentState /\ Steady(s, u)
    <2>1. "paths" \in Scopes /\ {path} \in SUBSET Paths
        BY DEF Scopes
    <2>2. u \in AgentState
        BY <2>1, MutationStartedEffect
    <2>3. u.tasks = s.tasks /\ u.recovery = s.recovery
        BY DEF MutationStarted, AgentState
    <2> QED BY <2>2, <2>3 DEF Steady
<1> HIDE DEF u
<1>2. w \in AgentState /\ Steady(u, w)
    <2>1. w \in AgentState /\ SameGate(u, w)
        BY <1>1, WorkspaceChangedEffect
    <2>2. u.recovery \in RecoveryState
        BY <1>1 DEF AgentState
    <2>3. /\ w.tasks = u.tasks
          /\ w.recovery.degradedRecovery = u.recovery.degradedRecovery
          /\ w.recovery.replanCount = u.recovery.replanCount
        BY <1>1, <2>2 DEF WorkspaceChanged, AgentState, RecoveryState
    <2> QED BY <2>1, <2>3 DEF Steady, SameGate
<1> HIDE DEF w
<1>3. Steady(w, Done(w, c))
    BY <1>2, DoneKeeps DEF Steady
<1>4. Steady(s, Done(w, c))
    BY <1>1, <1>2, <1>3 DEF Steady
<1> QED BY <1>4 DEF w, u

(* applyReplan: the request is left open unless it is low-impact and there  *)
(* is no plan to repair; the unfinished tasks of a retired plan are blocked. *)
LEMMA ReplanState ==
    ASSUME Types, NEW s, Quiet(state, s), NEW reapproval \in BOOLEAN, ApplyReplan(s, reapproval)
    PROVE  /\ state' \in AgentState
           /\ state'.workspace.revision = state.workspace.revision
           /\ state'.recovery.degradedRecovery = state.recovery.degradedRecovery
           /\ state'.recovery.replanCount = state.recovery.replanCount + 1
           /\ state'.recovery.replanAwaitingApproval = reapproval
           /\ state'.recovery.replanning <=> reapproval \/ HasSteps(lastApproved)
           /\ \A t \in Tasks :
                 state'.tasks[t] =
                     IF reapproval /\ lastApproved # None /\ t \in UnfinishedTasks(s, lastApproved)
                     THEN "blocked" ELSE state.tasks[t]
<1> DEFINE requested == ReplanRequested(s, reapproval)
           retire == reapproval /\ lastApproved # None
           changed == PlanStatusChanged(requested, lastApproved)
           U == UnfinishedTasks(s, lastApproved)
           status == [t \in U |-> "blocked"]
           retired == TasksChanged(changed, status)
           base == IF retire THEN retired ELSE requested
           moved == LoopTransitioned(base)
           After(t) == IF retire /\ t \in U THEN "blocked" ELSE state.tasks[t]
           Open(t) ==
              /\ t \in AgentState
              /\ t.workspace.revision = state.workspace.revision
              /\ t.recovery.degradedRecovery = state.recovery.degradedRecovery
              /\ t.recovery.replanCount = state.recovery.replanCount + 1
              /\ t.recovery.replanAwaitingApproval = reapproval
              /\ t.recovery.replanning
<1>1. s \in AgentState
    BY DEF Quiet, Kept
<1>2. Open(requested) /\ requested.tasks = state.tasks
    BY <1>1, ReplanFacts DEF Quiet, Kept
<1> HIDE DEF requested
<1>3. retire => Open(changed) /\ changed.tasks = state.tasks
    <2>1. ASSUME retire
          PROVE  Quiet(requested, changed)
        BY <1>2, <2>1, PlanFacts DEF Types
    <2> QED BY <1>2, <2>1 DEF Quiet, Kept
<1>4. U \in SUBSET Tasks /\ status \in [U -> TaskStatuses \cup {None}]
    BY DEF UnfinishedTasks, TaskStatuses
<1>5. retire => Open(retired) /\ \A t \in Tasks : retired.tasks[t] = After(t)
    <2> HIDE DEF U, status, changed
    <2> SUFFICES ASSUME retire
                 PROVE  Open(retired) /\ \A t \in Tasks : retired.tasks[t] = After(t)
        OBVIOUS
    <2>1. changed \in AgentState
        BY <1>3
    <2>2. /\ Kept(changed, retired)
          /\ retired.tasks = [t \in Tasks |-> IF t \in U THEN status[t] ELSE changed.tasks[t]]
        BY <1>4, <2>1, TaskFacts
    <2>3. Open(retired)
        BY <1>3, <2>2 DEF Kept
    <2>4. \A t \in U : status[t] = "blocked"
        BY DEF status
    <2> QED BY <1>3, <2>2, <2>3, <2>4
<1> HIDE DEF changed, status, retired, U
<1>6. Open(base) /\ \A t \in Tasks : base.tasks[t] = After(t)
    BY <1>2, <1>5
<1> HIDE DEF base
<1>7. Open(moved) /\ moved.tasks = base.tasks
    <2>1. Quiet(base, moved)
        BY <1>6, QuietFacts
    <2> QED BY <1>6, <2>1 DEF Quiet, Kept
<1>8. state' = IF reapproval \/ HasSteps(lastApproved) THEN moved ELSE ReplanAdjustmentApplied(moved)
    BY DEF ApplyReplan, moved, base, retired, status, U, changed, requested
<1> HIDE DEF moved
<1>9. CASE reapproval \/ HasSteps(lastApproved)
    BY <1>6, <1>7, <1>8, <1>9 DEF U
<1>10. CASE ~ (reapproval \/ HasSteps(lastApproved))
    <2>1. state' = ReplanAdjustmentApplied(moved)
        BY <1>8, <1>10
    <2> DEFINE z == ReplanAdjustmentApplied(moved)
    <2>2. /\ z \in AgentState /\ z.tasks = moved.tasks
          /\ z.workspace.revision = moved.workspace.revision
          /\ ~ z.recovery.replanning
          /\ z.recovery.replanAwaitingApproval = moved.recovery.replanAwaitingApproval
          /\ z.recovery.degradedRecovery = moved.recovery.degradedRecovery
          /\ z.recovery.replanCount = moved.recovery.replanCount
        BY <1>7, ReplanFacts
    <2> HIDE DEF z
    <2>3. state' = z
        BY <2>1 DEF z
    <2> QED BY <1>6, <1>7, <1>10, <2>2, <2>3 DEF U
<1> QED BY <1>9, <1>10

-----------------------------------------------------------------------------
(* Tasks and plans. *)

Unfinished(status) == status \in {"pending", "in_progress"}

(* A task belongs to a version that is approved or was retired. *)
LEMMA BoundStatus ==
    ASSUME Types, StoreIsLogged, TasksAreBound, NEW t \in Tasks, taskPlan[t] # None
    PROVE  /\ taskPlan[t] \in Plans /\ Exists(taskPlan[t])
           /\ Status(taskPlan[t]) \in {"approved", "superseded"}
           /\ Status(taskPlan[t]) = "superseded" => RetiredIn(planLog, taskPlan[t])
<1>1. taskPlan[t] \in Plans /\ Exists(taskPlan[t]) /\ planLog \in Seq(PlanFact)
    BY DEF Types, TasksAreBound
<1>2. Status(taskPlan[t]) = "approved" \/ RetiredIn(planLog, taskPlan[t])
    BY DEF TasksAreBound
<1>3. RetiredIn(planLog, taskPlan[t]) => Status(taskPlan[t]) = "superseded"
    BY <1>1, LoggedAgrees DEF StoreIsLogged
<1> QED BY <1>1, <1>2, <1>3

(* Tasks stay bound, and retired ones stay retired, when a task either goes *)
(* to the plan now approved, or keeps its plan and its rest.                *)
LEMMA TasksStep ==
    ASSUME Types, Types', StoreIsLogged, TasksAreBound, RetiredTasksStayRetired,
           ApprovedExists', reopened \subseteq reopened',
           \A v \in Plans : Exists(v) =>
               /\ Exists(v)'
               /\ Status(v) = "approved" => Status(v)' = "approved" \/ RetiredIn(planLog', v)
               /\ RetiredIn(planLog, v) => RetiredIn(planLog', v),
           \A t \in Tasks :
               \/ taskPlan'[t] = lastApproved'
               \/ /\ taskPlan'[t] = taskPlan[t]
                  /\ taskPlan[t] # None => \A v \in Plans :
                        /\ v = taskPlan[t] /\ Unfinished(state'.tasks[t])
                        /\ Status(v)' = "superseded"
                        => \/ t \in reopened'
                           \/ Unfinished(state.tasks[t]) /\ Status(v) = "superseded"
    PROVE  TasksAreBound' /\ RetiredTasksStayRetired'
<1> SUFFICES ASSUME NEW t \in Tasks, NEW v, v = taskPlan'[t], v # None
             PROVE  /\ Exists(v)'
                    /\ Status(v)' = "approved" \/ RetiredIn(planLog', v)
                    /\ Unfinished(state'.tasks[t]) /\ Status(v)' = "superseded" => t \in reopened'
    BY DEF TasksAreBound, RetiredTasksStayRetired, Unfinished, Exists, Status
<1>1. v \in Plans
    BY DEF Types
<1>2. CASE v = lastApproved'
    BY <1>2 DEF ApprovedExists, Exists, Status
<1>3. CASE v # lastApproved'
    <2>1. v = taskPlan[t]
        BY <1>3
    <2>2. Exists(v) /\ (Status(v) = "approved" \/ RetiredIn(planLog, v))
        BY <2>1 DEF TasksAreBound
    <2>3. Unfinished(state.tasks[t]) /\ Status(v) = "superseded" => t \in reopened
        BY <2>1 DEF RetiredTasksStayRetired, Unfinished
    <2>4. Exists(v)' /\ (Status(v)' = "approved" \/ RetiredIn(planLog', v))
        BY <1>1, <2>2
    <2>5. Unfinished(state'.tasks[t]) /\ Status(v)' = "superseded" =>
              t \in reopened' \/ (Unfinished(state.tasks[t]) /\ Status(v) = "superseded")
        BY <1>1, <1>3, <2>1
    <2> QED BY <2>3, <2>4, <2>5
<1> QED BY <1>2, <1>3

-----------------------------------------------------------------------------
(* Steps that preserve PlanInv. *)

PhasesOf == {"idle", "loop", "batch", "detect", "complete", "failed"}

(* No plan, no task changes. *)
LEMMA PlanQuiet ==
    ASSUME PlanInv, UNCHANGED <<store, taskPlan, reopened>>,
           state' \in AgentState, state'.tasks = state.tasks, pc' \in PhasesOf,
           writeLock' \in BOOLEAN, canRepair' \in BOOLEAN, frozen' \in Batch,
           approvalOwed' \in BOOLEAN
    PROVE  PlanInv'
<1>1. Types'
    BY DEF PlanInv, Types, PhasesOf, store
<1>2. StoreIsLogged'
    BY DEF PlanInv, StoreIsLogged, store, Exists, Status
<1>3. ApprovedExists'
    BY DEF PlanInv, ApprovedExists, store, Exists, Status
<1>4. TasksAreBound'
    BY DEF PlanInv, TasksAreBound, store, Exists, Status
<1>5. RetiredTasksStayRetired'
    BY DEF PlanInv, RetiredTasksStayRetired, store, Status
<1> QED BY <1>1, <1>2, <1>3, <1>4, <1>5 DEF PlanInv

(* TaskCreate and TaskUpdate *)
LEMMA PlanTasks ==
    ASSUME PlanInv, NEW c \in Calls, NEW t \in Tasks, NEW status \in TaskStatuses,
           TaskUpdate(c, t, status) \/ TaskCreate(c, t)
    PROVE  PlanInv'
<1> USE DEF PlanInv
<1>1. /\ UNCHANGED <<pc, plans, lastApproved, planLog, writeLock, canRepair, frozen, approvalOwed>>
      /\ \E new \in TaskStatuses : state' = Done(TaskChanged(state, t, new), c)
      /\ reopened \subseteq reopened' /\ reopened' \subseteq Tasks
    BY DEF TaskUpdate, TaskCreate, store, gates, TaskStatuses, Types
<1>2. PICK new \in TaskStatuses : state' = Done(TaskChanged(state, t, new), c)
    BY <1>1
<1>3. state' \in AgentState /\ state'.tasks = [state.tasks EXCEPT ![t] = new]
    <2>1. /\ TaskChanged(state, t, new) \in AgentState
          /\ TaskChanged(state, t, new).tasks = [state.tasks EXCEPT ![t] = new]
        BY TaskFacts DEF Types, Kept
    <2> QED BY <1>2, <2>1, DoneKeeps
<1>4. /\ taskPlan' \in [Tasks -> Plans \cup {None}]
      /\ \A u \in Tasks : u # t => taskPlan'[u] = taskPlan[u] /\ state'.tasks[u] = state.tasks[u]
    <2>1. state.tasks \in [Tasks -> TaskStatuses \cup {None}]
        BY DEF Types, AgentState
    <2> QED BY <1>3, <2>1 DEF TaskUpdate, TaskCreate, NewTask, Types
<1>5. Types'
    BY <1>1, <1>3, <1>4 DEF Types
<1>6. StoreIsLogged' /\ ApprovedExists'
    BY <1>1 DEF StoreIsLogged, ApprovedExists, Exists, Status
<1>7. \/ taskPlan'[t] = lastApproved'
      \/ /\ taskPlan'[t] = taskPlan[t]
         /\ Unfinished(state'.tasks[t]) => t \in reopened' \/ Unfinished(state.tasks[t])
    <2>1. CASE TaskCreate(c, t)
        BY <1>1, <2>1 DEF TaskCreate, NewTask, Types
    <2>2. CASE TaskUpdate(c, t, status)
        BY <2>2 DEF TaskUpdate, MayUpdate, ValidTransition, Unfinished
    <2> QED BY <2>1, <2>2
<1>8. \A v \in Plans : Exists(v)' = Exists(v) /\ Status(v)' = Status(v)
    BY <1>1 DEF Exists, Status
<1>9. \A u \in Tasks :
          \/ taskPlan'[u] = lastApproved'
          \/ /\ taskPlan'[u] = taskPlan[u]
             /\ taskPlan[u] # None => \A v \in Plans :
                   /\ v = taskPlan[u] /\ Unfinished(state'.tasks[u])
                   /\ Status(v)' = "superseded"
                   => \/ u \in reopened'
                      \/ Unfinished(state.tasks[u]) /\ Status(v) = "superseded"
    BY <1>4, <1>7, <1>8
<1>10. TasksAreBound' /\ RetiredTasksStayRetired'
    BY <1>1, <1>5, <1>6, <1>8, <1>9, TasksStep
<1> QED BY <1>5, <1>6, <1>10

(* PlanPropose: drafts are superseded, approved versions are not. *)
LEMMA PlanProposed ==
    ASSUME PlanInv, NEW c \in Calls, NEW id \in PlanIds, PlanPropose(c, id)
    PROVE  PlanInv'
<1> USE DEF PlanInv
<1> DEFINE new == NextVersion(id)
           f == CreateFact(new, "draft")
<1>1. /\ UNCHANGED <<pc, taskPlan, writeLock, canRepair, frozen, approvalOwed, reopened, lastApproved>>
      /\ new \in Plans /\ CreateVersion(id) /\ planLog' = Append(planLog, f)
      /\ state' = Done(PlanVersionCreated(state, new, FALSE), c)
    BY DEF PlanPropose, gates, CreateVersion
<1>2. StoreTyped /\ planLog \in Seq(PlanFact) /\ state \in AgentState
    BY DEF Types, StoreTyped
<1>3. f \in PlanFact /\ f.v = new /\ f.status = "draft"
    BY <1>1 DEF PlanFact, CreateFact, PlanStatuses
<1>4. Quiet(state, state')
    <2>1. Quiet(state, PlanVersionCreated(state, new, FALSE))
        BY <1>1, <1>2, PlanFacts
    <2> QED BY <1>1, <1>2, <2>1, DoneKeeps, QuietChain
<1> HIDE DEF f
<1>5. PICK n \in Plans : n = new
    BY <1>1
<1>6. /\ StoreTyped'
      /\ ~ Exists(n) /\ Exists(n)' /\ Status(n)' = "draft"
      /\ \A w \in Plans :
            /\ Exists(w) =>
                  /\ Exists(w)'
                  /\ \/ Status(w)' = Status(w)
                     \/ /\ Status(w) \in {"draft", "awaiting_approval"}
                        /\ Status(w)' = "superseded"
            /\ Exists(w)' /\ ~ Exists(w) => w = n
    BY <1>1, <1>2, <1>5, DraftAdded
<1>7. /\ planLog' \in Seq(PlanFact) /\ Agrees(planLog', n, "draft")
      /\ \A w \in Plans : w # n =>
            /\ RetiredIn(planLog, w) => RetiredIn(planLog', w)
            /\ \A status : Agrees(planLog, w, status) => Agrees(planLog', w, status)
    BY <1>1, <1>2, <1>3, <1>5, LogGrows
<1>8. Types'
    BY <1>1, <1>4, <1>6, <1>7 DEF Types, StoreTyped, Quiet, Kept
<1>9. ASSUME NEW w \in Plans, Exists(w)'
      PROVE  Agrees(planLog', w, Status(w)')
    <2>1. CASE ~ Exists(w)
        BY <1>6, <1>7, <1>9, <2>1
    <2>2. CASE Exists(w)
        <3>1. w # n /\ Agrees(planLog', w, Status(w))
            BY <1>6, <1>7, <2>2 DEF StoreIsLogged
        <3>2. CASE Status(w)' = Status(w)
            BY <3>1, <3>2
        <3>3. CASE Status(w)' # Status(w)
            <4>1. Status(w)' = "superseded" /\ Status(w) # "approved"
                BY <1>6, <2>2, <3>3
            <4> QED BY <3>1, <4>1, AgreesMoves
        <3> QED BY <3>2, <3>3
    <2> QED BY <2>1, <2>2
<1>10. StoreIsLogged'
    BY <1>9 DEF StoreIsLogged
<1>11. ApprovedExists'
    <2>1. ASSUME lastApproved # None
          PROVE  Exists(lastApproved)' /\ Status(lastApproved)' = "approved"
        <3>1. PICK w \in Plans : w = lastApproved
            BY <2>1 DEF Types
        <3>2. Exists(w) /\ Status(w) = "approved"
            BY <2>1, <3>1 DEF ApprovedExists
        <3>3. Exists(w)' /\ Status(w)' = "approved"
            BY <1>6, <3>2
        <3> QED BY <1>1, <3>1, <3>3 DEF Exists, Status
    <2> QED BY <1>1, <2>1 DEF ApprovedExists
<1>12. \A v \in Plans : Exists(v) =>
           /\ Exists(v)'
           /\ Status(v) = "approved" => Status(v)' = "approved" \/ RetiredIn(planLog', v)
           /\ RetiredIn(planLog, v) => RetiredIn(planLog', v)
    BY <1>6, <1>7
<1>13. ASSUME NEW t \in Tasks, taskPlan[t] # None, NEW v \in Plans, v = taskPlan[t],
              Unfinished(state'.tasks[t]), Status(v)' = "superseded"
       PROVE  Unfinished(state.tasks[t]) /\ Status(v) = "superseded"
    <2>1. Exists(v) /\ Status(v) \in {"approved", "superseded"}
        BY <1>13, BoundStatus
    <2>2. Status(v) = "superseded"
        BY <1>6, <1>13, <2>1
    <2> QED BY <1>4, <1>13, <2>2 DEF Quiet
<1>14. TasksAreBound' /\ RetiredTasksStayRetired'
    BY <1>1, <1>8, <1>11, <1>12, <1>13, TasksStep
<1> QED BY <1>8, <1>10, <1>11, <1>14

(* A status of the store is set, with or without a fact, and tasks keep     *)
(* their plan: what ExitPlanMode and the retirement of a plan share.        *)
LEMMA PlanStatusStep ==
    ASSUME PlanInv, NEW v \in Plans, Exists(v), NEW status \in PlanStatuses,
           plans' = [plans EXCEPT ![v[1]][v[2]] = status],
           \/ planLog' = Append(planLog, [v |-> v, status |-> status])
           \/ planLog' = planLog /\ Agrees(planLog, v, status),
           \/ lastApproved' = v /\ status = "approved"
           \/ lastApproved' = None
           \/ lastApproved' = lastApproved /\ lastApproved # v,
           UNCHANGED <<taskPlan, frozen, canRepair, reopened>>,
           state' \in AgentState, pc' \in PhasesOf,
           writeLock' \in BOOLEAN, approvalOwed' \in BOOLEAN,
           Status(v) # "superseded",
           Status(v) = "approved" => status = "superseded" /\ planLog' # planLog,
           \A t \in Tasks :
              /\ Unfinished(state'.tasks[t]) => Unfinished(state.tasks[t])
              /\ taskPlan[t] = v => ~ Unfinished(state'.tasks[t])
    PROVE  PlanInv'
<1> USE DEF PlanInv
<1> DEFINE f == [v |-> v, status |-> status]
<1>1. StoreTyped /\ planLog \in Seq(PlanFact)
    BY DEF Types, StoreTyped
<1>2. f \in PlanFact /\ f.v = v /\ f.status = status
    BY DEF PlanFact
<1> HIDE DEF f
<1>3. /\ planLog' \in Seq(PlanFact) /\ Agrees(planLog', v, status)
      /\ planLog' # planLog /\ status = "superseded" => RetiredIn(planLog', v)
      /\ \A w \in Plans : w # v =>
            /\ RetiredIn(planLog, w) => RetiredIn(planLog', w)
            /\ \A st : Agrees(planLog, w, st) => Agrees(planLog', w, st)
    <2>1. CASE planLog' = planLog /\ Agrees(planLog, v, status)
        BY <1>1, <2>1
    <2>2. CASE planLog' = Append(planLog, f)
        BY <1>1, <1>2, <2>2, LogGrows
    <2> QED BY <2>1, <2>2 DEF f
<1>4. /\ StoreTyped'
      /\ \A w \in Plans : /\ Exists(w)' <=> Exists(w)
                          /\ w # v /\ Exists(w) => Status(w)' = Status(w)
      /\ Status(v)' = status
    BY <1>1, StatusSet
<1>5. Types'
    <2>1. lastApproved' \in Plans \cup {None}
        BY DEF Types
    <2> QED BY <1>3, <1>4, <2>1 DEF Types, StoreTyped, PhasesOf
<1>6. StoreIsLogged'
    <2>1. ASSUME NEW w \in Plans, Exists(w)'
          PROVE  Agrees(planLog', w, Status(w)')
        BY <1>3, <1>4, <2>1 DEF StoreIsLogged
    <2> QED BY <2>1 DEF StoreIsLogged
<1>7. ApprovedExists'
    <2>1. ASSUME NEW w \in Plans, w = lastApproved'
          PROVE  Exists(w)' /\ Status(w)' = "approved"
        <3>1. CASE w = v /\ status = "approved"
            BY <1>4, <3>1
        <3>2. CASE w = lastApproved /\ w # v
            BY <1>4, <3>2, NoneIsNoPlan DEF ApprovedExists
        <3> QED BY <2>1, <3>1, <3>2, NoneIsNoPlan
    <2> QED BY <1>5, <2>1 DEF ApprovedExists, Types, Exists, Status
<1>8. ASSUME NEW w \in Plans, Exists(w)
      PROVE  /\ Exists(w)'
             /\ Status(w) = "approved" => Status(w)' = "approved" \/ RetiredIn(planLog', w)
             /\ RetiredIn(planLog, w) => RetiredIn(planLog', w)
    <2>1. CASE w # v
        BY <1>3, <1>4, <1>8, <2>1
    <2>2. CASE w = v
        <3>1. ~ RetiredIn(planLog, v)
            BY <1>1, LoggedAgrees DEF StoreIsLogged
        <3> QED BY <1>3, <1>4, <1>8, <2>2, <3>1
    <2> QED BY <2>1, <2>2
<1>9. ASSUME NEW t \in Tasks, taskPlan[t] # None, NEW w \in Plans, w = taskPlan[t],
             Unfinished(state'.tasks[t]), Status(w)' = "superseded"
      PROVE  Unfinished(state.tasks[t]) /\ Status(w) = "superseded"
    <2>1. Exists(w)
        BY <1>9, BoundStatus
    <2>2. w # v
        BY <1>9
    <2> QED BY <1>4, <1>9, <2>1, <2>2
<1>10. TasksAreBound' /\ RetiredTasksStayRetired'
    BY <1>5, <1>7, <1>8, <1>9, TasksStep
<1> QED BY <1>5, <1>6, <1>7, <1>10

(* ExitPlanMode: an approval closes the replan, a refusal leaves it. *)
LEMMA ExitState ==
    ASSUME Types, NEW c \in Calls, NEW v \in Plans, NEW yes \in BOOLEAN, ExitPlanMode(c, v, yes)
    PROVE  /\ state' \in AgentState /\ state'.tasks = state.tasks
           /\ state'.workspace.revision = state.workspace.revision
           /\ state'.recovery.degradedRecovery = state.recovery.degradedRecovery
           /\ state'.recovery.replanCount = state.recovery.replanCount
           /\ yes => ~ state'.recovery.replanning
           /\ ~ yes => Quiet(state, state')
<1> DEFINE made == PlanVersionCreated(state, v, TRUE)
           created == PlanApproved(made, v)
           left == ModeChanged(created, "plan", "default")
           approved == IF frozen.mode = "plan" THEN left ELSE created
           Closed(t) ==
              /\ t \in AgentState /\ t.tasks = state.tasks
              /\ t.workspace.revision = state.workspace.revision
              /\ t.recovery.degradedRecovery = state.recovery.degradedRecovery
              /\ t.recovery.replanCount = state.recovery.replanCount
              /\ ~ t.recovery.replanning
<1>1. state \in AgentState
    BY DEF Types
<1>2. Quiet(state, made)
    BY <1>1, PlanFacts
<1> HIDE DEF made
<1>3. Closed(created)
    BY <1>2, ReplanFacts DEF Quiet, Kept
<1> HIDE DEF created
<1>4. Closed(left)
    <2>1. Quiet(created, left)
        BY <1>3, PlanFacts
    <2> QED BY <1>3, <2>1 DEF Quiet, Kept
<1> HIDE DEF left
<1>5. Closed(approved)
    BY <1>3, <1>4
<1>6. state' = Done(IF yes THEN approved ELSE state, c)
    BY DEF ExitPlanMode, approved, left, created, made
<1> HIDE DEF approved
<1>7. CASE yes
    <2>1. state' = Done(approved, c)
        BY <1>6, <1>7
    <2> QED BY <1>5, <1>7, <2>1, DoneKeeps
<1>8. CASE ~ yes
    <2>1. state' = Done(state, c)
        BY <1>6, <1>8
    <2>2. Quiet(state, state)
        BY <1>1 DEF Quiet, Kept
    <2>3. Quiet(state, state')
        BY <1>1, <2>1, <2>2, DoneKeeps
    <2> QED BY <1>8, <2>3 DEF Quiet, Kept
<1> QED BY <1>7, <1>8

(* exit_plan_mode approves, or keeps open, one version of the store. *)
LEMMA PlanExited ==
    ASSUME PlanInv, NEW c \in Calls, NEW v \in Plans, NEW yes \in BOOLEAN, ExitPlanMode(c, v, yes)
    PROVE  PlanInv'
<1> DEFINE status == IF yes THEN "approved" ELSE "awaiting_approval"
<1>1. Types /\ StoreIsLogged /\ ApprovedExists /\ TasksAreBound
    BY DEF PlanInv
<1>2. /\ Exists(v) /\ Status(v) \in {"draft", "awaiting_approval"}
      /\ UNCHANGED <<pc, taskPlan, writeLock, canRepair, frozen, reopened>>
      /\ approvalOwed' = (approvalOwed /\ ~ yes)
    BY DEF ExitPlanMode, gates
<1>3. plans' = [plans EXCEPT ![v[1]][v[2]] = status] /\ status \in PlanStatuses
    BY DEF ExitPlanMode, MarkApproved, MarkAwaitingApproval, PlanStatuses
<1>4. \/ planLog' = Append(planLog, [v |-> v, status |-> status])
      \/ planLog' = planLog /\ Agrees(planLog, v, status)
    <2>1. CASE yes
        BY <2>1 DEF ExitPlanMode, CreateFact
    <2>2. CASE ~ yes
        <3>1. planLog' = planLog /\ status = "awaiting_approval"
            BY <2>2 DEF ExitPlanMode
        <3>2. Agrees(planLog, v, Status(v))
            BY <1>1, <1>2 DEF StoreIsLogged
        <3>3. Agrees(planLog, v, "awaiting_approval")
            BY <1>2, <3>2, AgreesMoves
        <3> QED BY <3>1, <3>3
    <2> QED BY <2>1, <2>2
<1>5. \/ lastApproved' = v /\ status = "approved"
      \/ lastApproved' = None
      \/ lastApproved' = lastApproved /\ lastApproved # v
    <2>1. CASE yes
        BY <2>1 DEF ExitPlanMode, MarkApproved
    <2>2. CASE ~ yes
        BY <1>1, <1>2, <2>2, NoneIsNoPlan DEF ExitPlanMode, MarkAwaitingApproval, ApprovedExists
    <2> QED BY <2>1, <2>2
<1>6. state' \in AgentState /\ state'.tasks = state.tasks
    BY <1>1, ExitState
<1>7. \A t \in Tasks : taskPlan[t] # v
    BY <1>1, <1>2, BoundStatus, NoneIsNoPlan
<1>8. pc' \in PhasesOf /\ writeLock' \in BOOLEAN /\ approvalOwed' \in BOOLEAN
    BY <1>1, <1>2 DEF Types, PhasesOf
<1> HIDE DEF status
<1> QED BY <1>2, <1>3, <1>4, <1>5, <1>6, <1>7, <1>8, PlanStatusStep

(* applyReplan: a retired plan leaves no unfinished task. *)
LEMMA PlanReplanned ==
    ASSUME PlanInv, NEW s, Quiet(state, s), NEW reapproval \in BOOLEAN, ApplyReplan(s, reapproval)
    PROVE  PlanInv'
<1>1. Types /\ StoreIsLogged /\ ApprovedExists /\ TasksAreBound
    BY DEF PlanInv
<1>2. /\ UNCHANGED <<taskPlan, canRepair, frozen, reopened>> /\ pc' = "loop"
      /\ writeLock' = (reapproval \/ writeLock) /\ approvalOwed' = (reapproval \/ approvalOwed)
    BY DEF ApplyReplan
<1>3. /\ state' \in AgentState
      /\ \A t \in Tasks :
            state'.tasks[t] =
                IF reapproval /\ lastApproved # None /\ t \in UnfinishedTasks(s, lastApproved)
                THEN "blocked" ELSE state.tasks[t]
    BY <1>1, ReplanState
<1>4. pc' \in PhasesOf /\ writeLock' \in BOOLEAN /\ approvalOwed' \in BOOLEAN
    BY <1>1, <1>2 DEF Types, PhasesOf
<1>5. CASE ~ (reapproval /\ lastApproved # None)
    <2>1. UNCHANGED <<store, taskPlan, reopened>>
        BY <1>2, <1>5 DEF ApplyReplan, store
    <2>2. state'.tasks = state.tasks
        <3>1. \A t \in Tasks : state'.tasks[t] = state.tasks[t]
            BY <1>3, <1>5
        <3>2. /\ state'.tasks \in [Tasks -> TaskStatuses \cup {None}]
              /\ state.tasks \in [Tasks -> TaskStatuses \cup {None}]
            BY <1>1, <1>3 DEF Types, AgentState
        <3> QED BY <3>1, <3>2
    <2>3. canRepair' \in BOOLEAN /\ frozen' \in Batch
        BY <1>1, <1>2 DEF Types
    <2> QED BY <1>3, <1>4, <2>1, <2>2, <2>3, PlanQuiet
<1>6. CASE reapproval /\ lastApproved # None
    <2>1. PICK v \in Plans : v = lastApproved
        BY <1>1, <1>6 DEF Types
    <2>2. Exists(v) /\ Status(v) = "approved"
        BY <1>1, <1>6, <2>1 DEF ApprovedExists
    <2>3. /\ plans' = [plans EXCEPT ![v[1]][v[2]] = "superseded"] /\ lastApproved' = None
          /\ planLog' = Append(planLog, [v |-> v, status |-> "superseded"])
        BY <1>6, <2>1 DEF ApplyReplan, MarkSuperseded, SupersedeFact
    <2>4. planLog' # planLog
        <3>1. planLog \in Seq(PlanFact) /\ [v |-> v, status |-> "superseded"] \in PlanFact
            BY <1>1 DEF Types, PlanFact, PlanStatuses
        <3>2. Len(planLog') = Len(planLog) + 1 /\ Len(planLog) \in Nat
            BY <2>3, <3>1
        <3> QED BY <3>2
    <2>5. \A t \in Tasks : s.tasks[t] = state.tasks[t]
        BY DEF Quiet
    <2>6. \A t \in Tasks :
             /\ Unfinished(state'.tasks[t]) => Unfinished(state.tasks[t])
             /\ taskPlan[t] = v => ~ Unfinished(state'.tasks[t])
        BY <1>3, <1>6, <2>1, <2>5 DEF Unfinished, UnfinishedTasks
    <2>7. "superseded" \in PlanStatuses
        BY DEF PlanStatuses
    <2> QED BY <1>2, <1>3, <1>4, <2>2, <2>3, <2>4, <2>6, <2>7, PlanStatusStep
<1> QED BY <1>5, <1>6

(* PlanRepair: the request is closed, or the turn fails with the request    *)
(* as it was; the tasks of the repaired plan are migrated in both cases.    *)
LEMMA RepairState ==
    ASSUME Types, NEW c \in Calls, NEW v \in Plans, NEW ofStep \in SUBSET Tasks,
           PlanRepair(c, v, ofStep)
    PROVE  /\ state' \in AgentState
           /\ state'.workspace.revision = state.workspace.revision
           /\ state'.recovery.degradedRecovery = state.recovery.degradedRecovery
           /\ state'.recovery.replanCount = state.recovery.replanCount
           /\ state'.recovery.replanAwaitingApproval = state.recovery.replanAwaitingApproval
           /\ IF AdjustmentRefused(state)
              THEN pc' = "failed" /\ state'.recovery.replanning = state.recovery.replanning
              ELSE pc' = pc /\ ~ state'.recovery.replanning
           /\ \A t \in Tasks : taskPlan[t] # v => state'.tasks[t] = state.tasks[t]
<1> DEFINE new == NextVersion(v[1])
           moved == {t \in Tasks : taskPlan[t] = v}
           status == [t \in moved |-> MigratedStatus(state.tasks[t], t \in ofStep)]
           revoked == PlanStatusChanged(state, v)
           facts == PlanVersionCreated(revoked, new, TRUE)
           result == TasksChanged(facts, status)
           closed == ReplanAdjustmentApplied(result)
<1>1. state \in AgentState /\ new \in Plans
    BY DEF Types, PlanRepair
<1>2. Quiet(state, facts)
    <2>1. Quiet(state, revoked)
        BY <1>1, PlanFacts
    <2> HIDE DEF revoked, new
    <2>2. Quiet(revoked, facts)
        BY <1>1, <2>1, PlanFacts DEF Quiet, Kept
    <2> QED BY <2>1, <2>2, QuietChain
<1>3. /\ moved \in SUBSET Tasks /\ status \in [moved -> TaskStatuses \cup {None}]
      /\ \A t \in Tasks : t \in moved <=> taskPlan[t] = v
    <2>1. \A t \in Tasks : state.tasks[t] \in TaskStatuses \cup {None}
        BY <1>1 DEF AgentState
    <2>2. "pending" \in TaskStatuses
        BY DEF TaskStatuses
    <2> QED BY <2>1, <2>2 DEF MigratedStatus
<1>4. /\ state' = IF AdjustmentRefused(result) THEN result ELSE Done(closed, c)
      /\ pc' = IF AdjustmentRefused(result) THEN "failed" ELSE pc
    BY DEF PlanRepair
<1> HIDE DEF facts, status, moved
<1>5. /\ Kept(facts, result)
      /\ result.tasks = [t \in Tasks |-> IF t \in moved THEN status[t] ELSE facts.tasks[t]]
    <2>1. facts \in AgentState
        BY <1>2 DEF Quiet, Kept
    <2> QED BY <1>3, <2>1, TaskFacts
<1>6. Kept(state, result) /\ \A t \in Tasks : taskPlan[t] # v => result.tasks[t] = state.tasks[t]
    BY <1>2, <1>3, <1>5 DEF Quiet, Kept
<1> HIDE DEF result
<1>7. AdjustmentRefused(result) <=> AdjustmentRefused(state)
    BY <1>6 DEF Kept, AdjustmentRefused
<1>8. CASE AdjustmentRefused(state)
    BY <1>4, <1>6, <1>7, <1>8 DEF Kept
<1>9. CASE ~ AdjustmentRefused(state)
    <2>1. state' = Done(closed, c) /\ pc' = pc
        BY <1>4, <1>7, <1>9
    <2>2. /\ closed \in AgentState /\ closed.tasks = result.tasks
          /\ closed.workspace.revision = result.workspace.revision
          /\ ~ closed.recovery.replanning
          /\ closed.recovery.replanAwaitingApproval = result.recovery.replanAwaitingApproval
          /\ closed.recovery.degradedRecovery = result.recovery.degradedRecovery
          /\ closed.recovery.replanCount = result.recovery.replanCount
        BY <1>6, ReplanFacts DEF Kept
    <2> HIDE DEF closed
    <2>3. /\ state' \in AgentState /\ state'.tasks = closed.tasks
          /\ state'.recovery = closed.recovery /\ state'.workspace = closed.workspace
        BY <2>1, <2>2, DoneKeeps
    <2> QED BY <1>6, <1>9, <2>1, <2>2, <2>3 DEF Kept
<1> QED BY <1>8, <1>9

(* plan_repair stores a new version and rebinds the tasks of its steps. *)
LEMMA PlanRepaired ==
    ASSUME PlanInv, NEW c \in Calls, NEW v \in Plans, NEW ofStep \in SUBSET Tasks,
           PlanRepair(c, v, ofStep)
    PROVE  PlanInv'
<1> USE DEF PlanInv
<1> DEFINE f == SupersedeFact(v)
<1>1. PICK new \in Plans : new = NextVersion(v[1])
    BY DEF PlanRepair
<1> DEFINE g == CreateFact(new, "approved")
           log == Append(planLog, f)
<1>2. /\ CreateLocalRepair(v) /\ v = lastApproved /\ lastApproved' = new
      /\ planLog' = planLog \o <<f, g>>
      /\ taskPlan' = [t \in Tasks |-> IF taskPlan[t] = v THEN new ELSE taskPlan[t]]
      /\ UNCHANGED <<writeLock, canRepair, frozen, approvalOwed, reopened>>
    BY <1>1 DEF PlanRepair, RepairAllowed, CreateLocalRepair, gates
<1>3. StoreTyped /\ planLog \in Seq(PlanFact)
    BY DEF Types, StoreTyped
<1>4. Exists(v) /\ Status(v) = "approved"
    BY <1>2, NoneIsNoPlan DEF ApprovedExists
<1>5. /\ f \in PlanFact /\ f.v = v /\ f.status = "superseded"
      /\ g \in PlanFact /\ g.v = new /\ g.status = "approved"
    BY DEF PlanFact, SupersedeFact, CreateFact, PlanStatuses
<1> HIDE DEF f, g
<1>6. planLog' = Append(log, g)
    <2>1. ASSUME NEW l \in Seq(PlanFact), NEW a \in PlanFact, NEW b \in PlanFact
          PROVE  l \o <<a, b>> = Append(Append(l, a), b)
        OBVIOUS
    <2> QED BY <1>2, <1>3, <1>5, <2>1
<1>7. /\ log \in Seq(PlanFact) /\ Agrees(log, v, "superseded") /\ RetiredIn(log, v)
      /\ \A w \in Plans : w # v =>
            /\ RetiredIn(planLog, w) => RetiredIn(log, w)
            /\ \A status : Agrees(planLog, w, status) => Agrees(log, w, status)
    BY <1>3, <1>5, LogGrows
<1> HIDE DEF log
<1>8. /\ planLog' \in Seq(PlanFact) /\ Agrees(planLog', new, "approved")
      /\ \A w \in Plans : w # new =>
            /\ RetiredIn(log, w) => RetiredIn(planLog', w)
            /\ \A status : Agrees(log, w, status) => Agrees(planLog', w, status)
    BY <1>5, <1>6, <1>7, LogGrows
<1>9. /\ StoreTyped'
      /\ ~ Exists(new) /\ Exists(new)' /\ Status(new)' = "approved"
      /\ Status(v)' = "superseded"
      /\ \A w \in Plans :
            /\ Exists(w) => Exists(w)' /\ (w # v => Status(w)' = Status(w))
            /\ Exists(w)' /\ ~ Exists(w) => w = new
    BY <1>1, <1>2, <1>3, <1>4, RepairAdded
<1>10. /\ state' \in AgentState /\ pc' \in PhasesOf
       /\ \A t \in Tasks : taskPlan[t] # v => state'.tasks[t] = state.tasks[t]
    BY RepairState DEF Types, PhasesOf
<1>11. Types'
    BY <1>2, <1>8, <1>9, <1>10 DEF Types, StoreTyped, PhasesOf
<1>12. ASSUME NEW w \in Plans, Exists(w)'
       PROVE  Agrees(planLog', w, Status(w)')
    <2>1. CASE w = new
        BY <1>8, <1>9, <2>1
    <2>2. CASE w # new /\ w = v
        BY <1>7, <1>8, <1>9, <2>2
    <2>3. CASE w # new /\ w # v
        <3>1. Exists(w) /\ Agrees(planLog, w, Status(w)) /\ Status(w)' = Status(w)
            BY <1>9, <1>12, <2>3 DEF StoreIsLogged
        <3> QED BY <1>7, <1>8, <2>3, <3>1
    <2> QED BY <2>1, <2>2, <2>3
<1>13. StoreIsLogged'
    BY <1>12 DEF StoreIsLogged
<1>14. ApprovedExists'
    BY <1>2, <1>9 DEF ApprovedExists, Exists, Status
<1>15. \A w \in Plans : Exists(w) =>
           /\ Exists(w)'
           /\ Status(w) = "approved" => Status(w)' = "approved" \/ RetiredIn(planLog', w)
           /\ RetiredIn(planLog, w) => RetiredIn(planLog', w)
    BY <1>7, <1>8, <1>9
<1>16. ASSUME NEW t \in Tasks, taskPlan[t] # v, taskPlan[t] # None,
              NEW w \in Plans, w = taskPlan[t],
              Unfinished(state'.tasks[t]), Status(w)' = "superseded"
       PROVE  Unfinished(state.tasks[t]) /\ Status(w) = "superseded"
    <2>1. Exists(w)
        BY <1>16, BoundStatus
    <2> QED BY <1>9, <1>10, <1>16, <2>1
<1>17. \A t \in Tasks : IF taskPlan[t] = v THEN taskPlan'[t] = lastApproved'
                        ELSE taskPlan'[t] = taskPlan[t]
    BY <1>2
<1>18. TasksAreBound' /\ RetiredTasksStayRetired'
    BY <1>2, <1>11, <1>14, <1>15, <1>16, <1>17, TasksStep
<1> QED BY <1>11, <1>13, <1>14, <1>18

(* A restart: what the log says of a version is what the store says of it,  *)
(* except that drafts forget that they were superseded or submitted.        *)
LEMMA PlanRestored ==
    ASSUME PlanInv, Restart
    PROVE  PlanInv'
<1> USE DEF PlanInv
<1>1. /\ RestorePlans /\ state' = Recovered(state) /\ pc' = "idle"
      /\ writeLock' = FALSE /\ canRepair' = FALSE
      /\ UNCHANGED <<planLog, taskPlan, frozen, approvalOwed, reopened>>
    BY DEF Restart
<1>2. planLog \in Seq(PlanFact) /\ state \in AgentState /\ StoreTyped
    BY DEF Types, StoreTyped
<1>3. Quiet(state, state')
    BY <1>1, <1>2, QuietFacts
<1>4. ASSUME NEW id \in PlanIds
      PROVE  /\ plans'[id] = [n \in DOMAIN plans[id] |-> LoggedStatus(<<id, n>>)]
             /\ plans'[id] \in Seq(PlanStatuses) /\ Len(plans'[id]) = Len(plans[id])
    <2> DEFINE q == plans[id]
    <2>1. plans'[id] = [n \in DOMAIN q |-> LoggedStatus(<<id, n>>)]
        BY <1>1 DEF RestorePlans
    <2>2. q \in Seq(PlanStatuses) /\ Len(q) <= MaxVersions /\ Len(q) \in Nat
        BY <1>2 DEF StoreTyped
    <2>3. ASSUME NEW n \in DOMAIN q
          PROVE  LoggedStatus(<<id, n>>) \in PlanStatuses
        <3>1. n \in 1..Len(q) /\ n \in 1..MaxVersions
            BY <2>2, VersionsAreCounted
        <3>2. <<id, n>> \in Plans
            BY <3>1, VersionsArePlans
        <3>3. Exists(<<id, n>>)
            BY <3>1 DEF Exists
        <3> QED BY <1>2, <3>2, <3>3, LoggedAgrees DEF StoreIsLogged
    <2> HIDE DEF q
    <2> DEFINE L(n) == LoggedStatus(<<id, n>>)
    <2>4. \A n \in DOMAIN q : L(n) \in PlanStatuses
        BY <2>3
    <2> HIDE DEF L
    <2>5. [n \in DOMAIN q |-> L(n)] \in Seq(PlanStatuses) /\ Len([n \in DOMAIN q |-> L(n)]) = Len(q)
        BY <2>2, <2>4
    <2>6. plans'[id] \in Seq(PlanStatuses) /\ Len(plans'[id]) = Len(q)
        BY <2>1, <2>5 DEF L
    <2> QED BY <2>1, <2>6 DEF q
<1>5. StoreTyped'
    <2>1. plans' = [id \in PlanIds |-> plans'[id]]
        BY <1>1 DEF RestorePlans
    <2>2. plans' \in [PlanIds -> Seq(PlanStatuses)]
        BY <1>4, <2>1
    <2> QED BY <1>2, <1>4, <2>2 DEF StoreTyped
<1>6. ASSUME NEW w \in Plans
      PROVE  (Exists(w)' <=> Exists(w)) /\ (Exists(w) => Status(w)' = LoggedStatus(w))
    <2>1. w[1] \in PlanIds /\ w = <<w[1], w[2]>>
        BY VersionIsPair
    <2>2. Exists(w) => w[2] \in DOMAIN plans[w[1]]
        BY <1>2, StatusIsTyped DEF StoreTyped
    <2>3. Exists(w)' <=> Exists(w)
        BY <1>4, <2>1 DEF Exists
    <2>4. Exists(w) => plans'[w[1]][w[2]] = LoggedStatus(<<w[1], w[2]>>)
        BY <1>4, <2>1, <2>2
    <2> QED BY <2>1, <2>3, <2>4 DEF Status
<1>7. /\ lastApproved' \in Plans \cup {None}
      /\ lastApproved' # None => /\ Exists(lastApproved')
                                 /\ LoggedStatus(lastApproved') = "approved"
    BY <1>1, RestoredIsApproved DEF RestorePlans
<1>8. Types'
    BY <1>1, <1>3, <1>5, <1>7 DEF Types, StoreTyped, Quiet, Kept
<1>9. StoreIsLogged'
    <2>1. ASSUME NEW w \in Plans, Exists(w)'
          PROVE  Agrees(planLog', w, Status(w)')
        BY <1>1, <1>2, <1>6, <2>1, LoggedAgrees DEF StoreIsLogged
    <2> QED BY <2>1 DEF StoreIsLogged
<1>10. ApprovedExists'
    <2>1. ASSUME NEW w \in Plans, w = lastApproved'
          PROVE  Exists(w)' /\ Status(w)' = "approved"
        BY <1>6, <1>7, <2>1, NoneIsNoPlan
    <2> QED BY <1>7, <2>1 DEF ApprovedExists, Exists, Status
<1>11. ASSUME NEW w \in Plans, Exists(w)
       PROVE  /\ Exists(w)'
              /\ Status(w) = "approved" => Status(w)' = "approved"
              /\ Status(w)' = "superseded" => Status(w) = "superseded"
    BY <1>2, <1>6, <1>11, LoggedAgrees DEF StoreIsLogged
<1>12. ASSUME NEW t \in Tasks, taskPlan[t] # None, NEW w \in Plans, w = taskPlan[t],
              Unfinished(state'.tasks[t]), Status(w)' = "superseded"
       PROVE  Unfinished(state.tasks[t]) /\ Status(w) = "superseded"
    <2>1. Exists(w)
        BY <1>12, BoundStatus
    <2> QED BY <1>3, <1>11, <1>12, <2>1 DEF Quiet
<1>13. TasksAreBound' /\ RetiredTasksStayRetired'
    BY <1>1, <1>8, <1>10, <1>11, <1>12, TasksStep
<1> QED BY <1>8, <1>9, <1>10, <1>13

-----------------------------------------------------------------------------
(* The steps that leave plans, tasks and the replan alone. *)

(* What a turn is given is a batch. *)
LEMMA FrozenIsBatch ==
    ASSUME NEW s \in AgentState, NEW B \in SUBSET Calls,
           NEW ineffective \in BOOLEAN, NEW uncovered \in BOOLEAN
    PROVE  Frozen(s, B, ineffective, uncovered) \in Batch /\ NoBatch \in Batch
           /\ Locked(s) \in BOOLEAN
<1>1. NoBatch \in Batch
    BY DEF NoBatch, Batch, Modes
<1>2. s.mode \in Modes /\ s.recovery \in RecoveryState
    BY DEF AgentState
<1>3. Locked(s) \in BOOLEAN
    BY <1>2 DEF Locked, AwaitsApproval, RecoveryState
<1>4. Cardinality(B) \in Nat
    BY CallsAreFinite, FS_Subset, FS_CardinalityType
<1>5. LaneTools(s, ineffective, uncovered) \in SUBSET Tools
    <2>1. AvailableFor(s) \in SUBSET Tools
        BY DEF AvailableFor, Tools
    <2> QED BY <2>1 DEF LaneTools
<1> QED BY <1>1, <1>2, <1>3, <1>4, <1>5 DEF Frozen, Batch

(* The engine's steps between two batches, a replan excepted *)
Between ==
    \/ StartTurn
    \/ \E reason \in {"aborted", "budget_exhausted"} : StopTurn(reason)
    \/ EndBatch
    \/ \E ineffective \in BOOLEAN : ContinueLoop(ineffective)
    \/ \E lacking \in SUBSET {"criteria", "mutations"} : RetryCompletion(lacking)
    \/ \E lacking \in SUBSET {"criteria", "mutations"} : FinishTurn(lacking)
    \/ PassVerification
    \/ RepairVerification

(* Between two batches neither the store nor the bindings move. *)
LEMMA BetweenIsQuiet ==
    ASSUME Types, Between
    PROVE  /\ Quiet(state, state')
           /\ UNCHANGED <<store, taskPlan, reopened, approvalOwed, writeLock, canRepair>>
           /\ pc' \in PhasesOf \ {"batch"} /\ frozen' \in Batch
<1> USE DEF gates, PhasesOf
<1>1. state \in AgentState /\ frozen \in Batch
    BY DEF Types
<1>2. CASE StartTurn
    BY <1>1, <1>2, QuietFacts DEF StartTurn
<1>3. CASE \E reason \in {"aborted", "budget_exhausted"} : StopTurn(reason)
    BY <1>1, <1>3, QuietFacts DEF StopTurn
<1>4. CASE EndBatch
    BY <1>1, <1>4, QuietFacts, FrozenIsBatch DEF EndBatch
<1>5. CASE \E ineffective \in BOOLEAN : ContinueLoop(ineffective)
    BY <1>1, <1>5 DEF ContinueLoop, Quiet, Kept
<1>6. CASE \E lacking \in SUBSET {"criteria", "mutations"} : RetryCompletion(lacking)
    BY <1>1, <1>6, QuietFacts DEF RetryCompletion
<1>7. CASE \E lacking \in SUBSET {"criteria", "mutations"} : FinishTurn(lacking)
    BY <1>1, <1>7, QuietFacts DEF FinishTurn
<1>8. CASE PassVerification
    <2> DEFINE u == VerificationCompleted(state, "PASS", TRUE, None)
    <2>1. Quiet(state, u)
        BY <1>1, PlanFacts DEF VerificationRefused, Verdicts
    <2>2. state' = RunTerminated(u, "completed")
        BY <1>8 DEF PassVerification
    <2> HIDE DEF u
    <2>3. Quiet(state, state')
        BY <2>1, <2>2, QuietFacts, QuietChain
    <2> QED BY <1>1, <1>8, <2>3 DEF PassVerification
<1>9. CASE RepairVerification
    <2> DEFINE attempt == state.recovery.verifierRepairs + 1
               u == VerificationCompleted(state, "FAIL", TRUE, attempt)
    <2>1. attempt \in Nat /\ ~ (attempt < 1)
        BY <1>1 DEF AgentState, RecoveryState
    <2>2. state' = LoopTransitioned(u)
        BY <1>9 DEF RepairVerification
    <2> HIDE DEF attempt
    <2>3. Quiet(state, u)
        BY <1>1, <2>1, PlanFacts DEF VerificationRefused, Verdicts
    <2> HIDE DEF u
    <2>4. Quiet(state, state')
        BY <2>2, <2>3, QuietFacts, QuietChain
    <2> QED BY <1>1, <1>9, <2>4 DEF RepairVerification
<1> QED BY <1>2, <1>3, <1>4, <1>5, <1>6, <1>7, <1>8, <1>9 DEF Between

(* An iteration starts: the gates are those the state asks for. *)
LEMMA BeginIsQuiet ==
    ASSUME Types, NEW B \in SUBSET Calls, NEW ineffective \in BOOLEAN, NEW uncovered \in BOOLEAN,
           BeginIteration(B, ineffective, uncovered)
    PROVE  /\ Quiet(state, state')
           /\ UNCHANGED <<store, taskPlan, reopened, approvalOwed>>
           /\ pc' \in PhasesOf /\ frozen' \in Batch
           /\ writeLock' = Locked(state) /\ writeLock' \in BOOLEAN /\ canRepair' \in BOOLEAN
<1>1. state \in AgentState /\ state.recovery \in RecoveryState
    BY DEF Types, AgentState
<1>2. frozen' \in Batch /\ writeLock' \in BOOLEAN
    BY <1>1, FrozenIsBatch DEF BeginIteration
<1>3. canRepair' \in BOOLEAN
    BY <1>1 DEF BeginIteration, RecoveryState
<1> QED BY <1>1, <1>2, <1>3, QuietFacts DEF BeginIteration, PhasesOf

(* A verdict that is final: the state judged, then a replan or the end. *)
LEMMA RejectIsQuiet ==
    ASSUME Types, NEW verdict \in {"FAIL", "PARTIAL"}, NEW failures \in BOOLEAN,
           RejectVerification(verdict, failures)
    PROVE  \/ \E s \in AgentState, reapproval \in BOOLEAN : Quiet(state, s) /\ ApplyReplan(s, reapproval)
           \/ /\ Quiet(state, state')
              /\ UNCHANGED <<store, taskPlan, reopened, approvalOwed, writeLock, canRepair, frozen>>
              /\ pc' = "idle"
<1> DEFINE judged == VerificationCompleted(state, verdict, TRUE, None)
           cause == ReplanCause(judged, lastApproved, failures, FALSE)
<1>1. Quiet(state, judged) /\ judged \in AgentState
    <2>1. Quiet(state, judged)
        BY PlanFacts DEF VerificationRefused, Verdicts, Types
    <2> QED BY <2>1, QuietChain
<1>2. \/ ApplyReplan(judged, RequiresReapproval(cause))
      \/ /\ state' = RunTerminated(judged, "completed_with_unverified_items")
         /\ pc' = "idle"
         /\ UNCHANGED <<store, taskPlan, gates, frozen, bounds, approvalOwed, reopened>>
    BY DEF RejectVerification
<1>3. RequiresReapproval(cause) \in BOOLEAN
    BY DEF RequiresReapproval
<1> HIDE DEF judged, cause
<1>4. Quiet(judged, RunTerminated(judged, "completed_with_unverified_items"))
    BY <1>1, QuietFacts, QuietChain
<1>5. Quiet(state, RunTerminated(judged, "completed_with_unverified_items"))
    BY <1>1, <1>4, QuietChain
<1> QED BY <1>1, <1>2, <1>3, <1>5 DEF gates

(* Calls that leave the plans, the tasks and the replan alone *)
Aside(c) ==
    \/ \E ok, conflict \in BOOLEAN : PlainCall(c, ok, conflict)
    \/ \E path \in Paths : WriteFile(c, path)
    \/ EnterPlanMode(c)

(* A call that is not about plans leaves the plan and the gates alone. *)
LEMMA AsideIsSteady ==
    ASSUME Types, NEW c \in Calls, Aside(c)
    PROVE  /\ Steady(state, state')
           /\ UNCHANGED <<pc, store, taskPlan, reopened, approvalOwed, writeLock, canRepair, frozen>>
           /\ \/ state'.workspace.revision = state.workspace.revision
              \/ Running(c) /\ Reachable({"Edit", "Shell"}) /\ ~ writeLock
<1> USE DEF gates
<1>1. state \in AgentState /\ frozen.mode \in Modes
    BY DEF Types, Batch
<1>2. CASE \E ok, conflict \in BOOLEAN : PlainCall(c, ok, conflict)
    <2>1. Quiet(state, state')
        BY <1>1, <1>2, QuietFacts DEF PlainCall
    <2> QED BY <1>2, <2>1, QuietChain DEF PlainCall, Quiet, Kept
<1>3. CASE \E path \in Paths : WriteFile(c, path)
    BY <1>1, <1>3, WriteFacts DEF WriteFile
<1>4. CASE EnterPlanMode(c)
    <2> DEFINE u == ModeChanged(state, frozen.mode, "plan")
    <2>1. Quiet(state, u)
        BY <1>1, PlanFacts
    <2>2. state' = Done(u, c)
        BY <1>4 DEF EnterPlanMode
    <2> HIDE DEF u
    <2>3. Quiet(state, state')
        BY <1>1, <2>1, <2>2, DoneKeeps, QuietChain
    <2> QED BY <1>4, <2>3, QuietChain DEF EnterPlanMode, Quiet, Kept
<1> QED BY <1>2, <1>3, <1>4 DEF Aside

-----------------------------------------------------------------------------
(* Initially, and in every step, PlanInv *)
LEMMA PlanInit == Init => PlanInv
<1> SUFFICES ASSUME Init
             PROVE  PlanInv
    OBVIOUS
<1>1. state \in AgentState /\ "default" \in Modes
    BY InitialStateIsState DEF Init, Modes
<1>2. Types
    <2>1. plans \in [PlanIds -> Seq(PlanStatuses)] /\ \A id \in PlanIds : Len(plans[id]) = 0
        BY DEF Init
    <2>2. NoBatch \in Batch /\ planLog \in Seq(PlanFact)
        BY DEF Init, NoBatch, Batch, Modes
    <2>3. \A id \in PlanIds : Len(plans[id]) <= MaxVersions
        BY <2>1, VersionsAreCounted
    <2> QED BY <1>1, <2>1, <2>2, <2>3 DEF Init, Types
<1>3. \A v \in Plans : ~ Exists(v)
    BY VersionIsPair, VersionsAreCounted DEF Init, Exists
<1> QED BY <1>2, <1>3
    DEF Init, PlanInv, StoreIsLogged, ApprovedExists, TasksAreBound, RetiredTasksStayRetired

(* The steps of Next, sorted by what they do to plans and replans *)
LEMMA StepsSorted ==
    ASSUME Types, [Next]_vars
    PROVE  \/ Between
           \/ \E B \in SUBSET Calls, ineffective, uncovered \in BOOLEAN :
                 BeginIteration(B, ineffective, uncovered)
           \/ \E s \in AgentState, reapproval \in BOOLEAN : Quiet(state, s) /\ ApplyReplan(s, reapproval)
           \/ \E verdict \in {"FAIL", "PARTIAL"}, failures \in BOOLEAN :
                 RejectVerification(verdict, failures)
           \/ \E c \in Calls :
                 \/ Aside(c)
                 \/ \E id \in PlanIds : PlanPropose(c, id)
                 \/ \E v \in Plans, yes \in BOOLEAN : ExitPlanMode(c, v, yes)
                 \/ \E v \in Plans, ofStep \in SUBSET Tasks : PlanRepair(c, v, ofStep)
                 \/ \E t \in Tasks : TaskCreate(c, t)
                 \/ \E t \in Tasks, status \in TaskStatuses : TaskUpdate(c, t, status)
           \/ Restart
           \/ UNCHANGED vars
<1>1. CASE EngineStep
    <2>1. ASSUME NEW ineffective \in BOOLEAN, DetectReplan(ineffective)
          PROVE  \E s \in AgentState, reapproval \in BOOLEAN : Quiet(state, s) /\ ApplyReplan(s, reapproval)
        <3>1. state \in AgentState /\ Quiet(state, state)
            BY DEF Quiet, Kept, Types
        <3>2. \E reapproval \in BOOLEAN : ApplyReplan(state, reapproval)
            <4> DEFINE cause == ReplanCause(state, lastApproved, FALSE, ineffective)
            <4>1. ApplyReplan(state, RequiresReapproval(cause))
                BY <2>1 DEF DetectReplan
            <4>2. RequiresReapproval(cause) \in BOOLEAN
                BY DEF RequiresReapproval
            <4> QED BY <4>1, <4>2
        <3> QED BY <3>1, <3>2
    <2> QED BY <1>1, <2>1 DEF EngineStep, Between
<1>2. CASE ToolStep
    BY <1>2 DEF ToolStep, Aside
<1>3. CASE StartTurn \/ Restart \/ Quit \/ UNCHANGED vars
    BY <1>3 DEF Between, Quit
<1> QED BY <1>1, <1>2, <1>3 DEF Next

(* PlanInv is inductive. *)
LEMMA PlanStep ==
    ASSUME PlanInv, [Next]_vars
    PROVE  PlanInv'
<1>1. Types
    BY DEF PlanInv
<1>2. CASE Between
    <2>1. writeLock' \in BOOLEAN /\ canRepair' \in BOOLEAN /\ approvalOwed' \in BOOLEAN
        BY <1>1, <1>2, BetweenIsQuiet DEF Types
    <2> QED BY <1>1, <1>2, <2>1, BetweenIsQuiet, PlanQuiet DEF Quiet, Kept
<1>3. ASSUME NEW B \in SUBSET Calls, NEW ineffective \in BOOLEAN, NEW uncovered \in BOOLEAN,
             BeginIteration(B, ineffective, uncovered)
      PROVE  PlanInv'
    <2>1. approvalOwed' \in BOOLEAN
        BY <1>1, <1>3, BeginIsQuiet DEF Types
    <2> QED BY <1>1, <1>3, <2>1, BeginIsQuiet, PlanQuiet DEF Quiet, Kept
<1>4. ASSUME NEW verdict \in {"FAIL", "PARTIAL"}, NEW failures \in BOOLEAN,
             RejectVerification(verdict, failures)
      PROVE  PlanInv'
    <2>1. CASE \E s \in AgentState, reapproval \in BOOLEAN :
                   Quiet(state, s) /\ ApplyReplan(s, reapproval)
        BY <2>1, PlanReplanned
    <2>2. CASE /\ Quiet(state, state')
               /\ UNCHANGED <<store, taskPlan, reopened, approvalOwed, writeLock, canRepair, frozen>>
               /\ pc' = "idle"
        <3>1. /\ writeLock' \in BOOLEAN /\ canRepair' \in BOOLEAN /\ frozen' \in Batch
              /\ approvalOwed' \in BOOLEAN /\ pc' \in PhasesOf
            BY <1>1, <2>2 DEF Types, PhasesOf
        <3> QED BY <2>2, <3>1, PlanQuiet DEF Quiet, Kept
    <2> QED BY <1>1, <1>4, <2>1, <2>2, RejectIsQuiet
<1>5. ASSUME NEW c \in Calls, Aside(c)
      PROVE  PlanInv'
    <2>1. Steady(state, state')
          /\ UNCHANGED <<pc, store, taskPlan, reopened, approvalOwed, writeLock, canRepair, frozen>>
        BY <1>1, <1>5, AsideIsSteady
    <2>2. /\ writeLock' \in BOOLEAN /\ canRepair' \in BOOLEAN /\ frozen' \in Batch
          /\ approvalOwed' \in BOOLEAN /\ pc' \in PhasesOf
        BY <1>1, <2>1 DEF Types, PhasesOf
    <2> QED BY <2>1, <2>2, PlanQuiet DEF Steady
<1>6. CASE UNCHANGED vars
    <2>1. /\ writeLock' \in BOOLEAN /\ canRepair' \in BOOLEAN /\ frozen' \in Batch
          /\ approvalOwed' \in BOOLEAN /\ pc' \in PhasesOf
          /\ UNCHANGED <<store, taskPlan, reopened, state>> /\ state' \in AgentState
        BY <1>1, <1>6 DEF Types, PhasesOf, vars, store
    <2> QED BY <2>1, PlanQuiet
<1>7. "pending" \in TaskStatuses
    BY DEF TaskStatuses
<1> QED BY <1>1, <1>2, <1>3, <1>4, <1>5, <1>6, <1>7, StepsSorted, PlanReplanned, PlanProposed,
           PlanExited, PlanRepaired, PlanTasks, PlanRestored

(* Plans, log and tasks agree in every state. *)
THEOREM PlanInvHolds == Spec => []PlanInv
<1>1. Init => PlanInv
    BY PlanInit
<1>2. PlanInv /\ [Next]_vars => PlanInv'
    BY PlanStep
<1> QED BY <1>1, <1>2, PTL DEF Spec

(* Every state is typed: the replan protocol reduces no fact to a state     *)
(* that is not one.                                                         *)
THEOREM ReplanTypeCorrect == Spec => []TypeOK
<1>1. PlanInv => TypeOK
    <2> SUFFICES ASSUME Types
                 PROVE  TypeOK
        BY DEF PlanInv
    <2>1. \A id \in PlanIds :
              /\ Len(plans[id]) <= MaxVersions
              /\ \A n \in DOMAIN plans[id] : plans[id][n] \in PlanStatuses
        BY DEF Types
    <2>2. frozen.mode \in Modes /\ frozen.locked \in BOOLEAN /\ frozen.tools \subseteq Tools
        BY DEF Types, Batch
    <2>3. \A i \in DOMAIN planLog : planLog[i] \in [v : Plans, status : PlanStatuses]
        <3>1. \A i \in DOMAIN planLog : planLog[i] \in PlanFact
            BY DEF Types
        <3> QED BY <3>1 DEF PlanFact
    <2> QED BY <2>1, <2>2, <2>3 DEF Types, TypeOK
<1> QED BY <1>1, PlanInvHolds, PTL

(* lastApproved() names an approved version, restarts included.             *)
THEOREM ApprovedStaysCurrent == Spec => []ApprovedIsCurrent
<1>1. PlanInv => ApprovedIsCurrent
    BY DEF PlanInv, ApprovedExists, ApprovedIsCurrent
<1> QED BY <1>1, PlanInvHolds, PTL

(* The unfinished tasks of a retired version are those TaskUpdate reopened. *)
THEOREM RetiredTasksRest == Spec => []RetiredTasksStayRetired
<1>1. PlanInv => RetiredTasksStayRetired
    BY DEF PlanInv
<1> QED BY <1>1, PlanInvHolds, PTL

-----------------------------------------------------------------------------
(* The gates of a batch. *)

SameReplan(s, t) ==
    /\ t.recovery.replanning = s.recovery.replanning
    /\ t.recovery.replanAwaitingApproval = s.recovery.replanAwaitingApproval
    /\ t.recovery.degradedRecovery = s.recovery.degradedRecovery
    /\ t.recovery.replanCount = s.recovery.replanCount

(* The replan is as it was, and so are the gates, if the batch goes on. *)
LEMMA GateQuiet ==
    ASSUME GateInv, SameReplan(state, state'),
           UNCHANGED <<pc, frozen, writeLock>> \/ pc' # "batch",
           approvalOwed' = approvalOwed, lastApproved # None => lastApproved' # None
    PROVE  GateInv'
BY DEF GateInv, GateNeverLags, SameReplan, Locked, AwaitsApproval

(* The replan is closed, by an approval or a local repair. *)
LEMMA GateClosed ==
    ASSUME GateInv, ~ state'.recovery.replanning,
           state'.recovery.degradedRecovery = state.recovery.degradedRecovery,
           state'.recovery.replanCount = state.recovery.replanCount,
           UNCHANGED <<pc, frozen, writeLock>>,
           approvalOwed' => approvalOwed /\ ~ AwaitsApproval(state)
    PROVE  GateInv'
BY DEF GateInv, GateNeverLags, Locked, AwaitsApproval

(* A batch starts with the tools the supervisor leaves it: an open replan   *)
(* keeps the way out, and a supervised one takes the side effects away.     *)
LEMMA LaneOfReplan ==
    ASSUME NEW s \in AgentState, NEW ineffective \in BOOLEAN, NEW uncovered \in BOOLEAN,
           s.recovery.replanning
    PROVE  /\ {"PlanPropose", "ExitPlanMode"} \subseteq LaneTools(s, ineffective, uncovered)
           /\ Intelligence /\ ~ s.recovery.replanAwaitingApproval /\ lastApproved # None =>
                  LaneTools(s, ineffective, uncovered) \cap {"Edit", "Shell"} = {}
<1> DEFINE action == AssessPlanHealth(s, ineffective, uncovered)
           chosen == ChooseNextAction(s, ineffective, uncovered)
<1>1. chosen = IF s.recovery.replanAwaitingApproval THEN "request_reapproval" ELSE "repair_plan"
    BY DEF ChooseNextAction, AwaitsApproval
<1> HIDE DEF chosen
<1>2. action = None \/ action = chosen
    BY DEF AssessPlanHealth, chosen
<1>3. lastApproved # None => action = chosen
    BY DEF AssessPlanHealth, chosen
<1>4. chosen # None
    BY <1>1, NoneIsNoAction
<1> HIDE DEF action
<1>5. AllowSetFor("request_reapproval", s.recovery.replanning) = {"PlanPropose", "ExitPlanMode"}
    BY DEF AllowSetFor
<1>6. AllowSetFor("repair_plan", s.recovery.replanning)
          = {"EnterPlanMode", "PlanRepair", "PlanPropose", "ExitPlanMode"}
    BY DEF AllowSetFor, RepairTools
<1>7. {"PlanPropose", "ExitPlanMode"} \subseteq AvailableFor(s)
    BY DEF AvailableFor, Tools
<1>8. LaneTools(s, ineffective, uncovered) =
          IF Intelligence /\ action # None
          THEN AvailableFor(s) \cap AllowSetFor(action, s.recovery.replanning)
          ELSE AvailableFor(s)
    BY DEF LaneTools, action
<1> QED BY <1>1, <1>2, <1>3, <1>4, <1>5, <1>6, <1>7, <1>8

(* A new iteration sets the write lock from the state it starts in. *)
LEMMA GateOpened ==
    ASSUME PlanInv, GateInv, NEW B \in SUBSET Calls, NEW ineffective \in BOOLEAN,
           NEW uncovered \in BOOLEAN, BeginIteration(B, ineffective, uncovered)
    PROVE  GateInv'
<1>1. Types /\ state \in AgentState
    BY DEF PlanInv, Types
<1>2. /\ Quiet(state, state') /\ writeLock' = Locked(state)
      /\ UNCHANGED <<plans, lastApproved, planLog, approvalOwed>>
    BY <1>1, BeginIsQuiet DEF store
<1>3. SameReplan(state, state')
    BY <1>2 DEF Quiet, Kept, SameReplan
<1>4. CASE B = {}
    <2>1. pc' # "batch"
        BY <1>4 DEF BeginIteration
    <2> QED BY <1>2, <1>3, <2>1, GateQuiet
<1>5. CASE B # {}
    <2>1. /\ frozen'.locked = Locked(state)
          /\ frozen'.tools = LaneTools(state, ineffective, uncovered)
        BY <1>5 DEF BeginIteration, Frozen
    <2>2. GateNeverLags'
        BY <1>2, <1>3, <2>1 DEF GateNeverLags, Locked, AwaitsApproval, SameReplan
    <2>3. state'.recovery.replanning =>
              /\ {"PlanPropose", "ExitPlanMode"} \subseteq frozen'.tools
              /\ Intelligence /\ ~ state'.recovery.replanAwaitingApproval =>
                     frozen'.tools \cap {"Edit", "Shell"} = {}
        BY <1>1, <1>3, <2>1, LaneOfReplan DEF SameReplan, GateInv
    <2> QED BY <1>2, <1>3, <2>2, <2>3 DEF GateInv, SameReplan, AwaitsApproval
<1> QED BY <1>4, <1>5

(* A replan in the middle of a turn raises the gate with the state. *)
LEMMA GateReplanned ==
    ASSUME Types, GateInv, NEW s \in AgentState, Quiet(state, s), NEW reapproval \in BOOLEAN,
           ApplyReplan(s, reapproval)
    PROVE  GateInv'
<1>1. /\ state'.recovery.replanCount = state.recovery.replanCount + 1
      /\ state'.recovery.replanAwaitingApproval = reapproval
      /\ state'.recovery.replanning <=> reapproval \/ HasSteps(lastApproved)
    BY ReplanState
<1>2. state.recovery.replanCount \in Nat
    BY DEF Types, AgentState, RecoveryState
<1>3. pc' = "loop" /\ approvalOwed' = (reapproval \/ approvalOwed)
    BY DEF ApplyReplan
<1>4. GateNeverLags'
    BY <1>3 DEF GateNeverLags
<1>5. state'.recovery.replanning /\ ~ state'.recovery.replanAwaitingApproval => lastApproved' # None
    BY <1>1 DEF ApplyReplan, HasSteps
<1>6. approvalOwed' => /\ state'.recovery.replanCount >= 1
                       /\ AwaitsApproval(state') \/ state'.recovery.replanCount > 1
    <2>1. state'.recovery.replanCount >= 1
        BY <1>1, <1>2
    <2>2. CASE reapproval
        BY <1>1, <2>1, <2>2 DEF AwaitsApproval
    <2>3. CASE ~ reapproval
        <3>1. approvalOwed' => state.recovery.replanCount >= 1
            BY <1>3, <2>3 DEF GateInv
        <3>2. state.recovery.replanCount >= 1 => state'.recovery.replanCount > 1
            BY <1>1, <1>2
        <3> QED BY <2>1, <3>1, <3>2
    <2> QED BY <2>2, <2>3
<1> QED BY <1>3, <1>4, <1>5, <1>6 DEF GateInv, AwaitsApproval

(* GateInv is inductive, together with PlanInv. *)
LEMMA GateStep ==
    ASSUME PlanInv, GateInv, [Next]_vars
    PROVE  GateInv'
<1>1. Types
    BY DEF PlanInv
<1>2. CASE Between
    BY <1>1, <1>2, BetweenIsQuiet, GateQuiet DEF Quiet, Kept, SameReplan, store
<1>3. ASSUME NEW verdict \in {"FAIL", "PARTIAL"}, NEW failures \in BOOLEAN,
             RejectVerification(verdict, failures)
      PROVE  GateInv'
    <2>1. CASE \E s \in AgentState, reapproval \in BOOLEAN :
                   Quiet(state, s) /\ ApplyReplan(s, reapproval)
        BY <1>1, <2>1, GateReplanned
    <2>2. CASE /\ Quiet(state, state')
               /\ UNCHANGED <<store, taskPlan, reopened, approvalOwed, writeLock, canRepair, frozen>>
               /\ pc' = "idle"
        BY <2>2, GateQuiet DEF Quiet, Kept, SameReplan, store
    <2> QED BY <1>1, <1>3, <2>1, <2>2, RejectIsQuiet
<1>4. ASSUME NEW c \in Calls, Aside(c)
      PROVE  GateInv'
    BY <1>1, <1>4, AsideIsSteady, GateQuiet DEF Steady, SameReplan, store
<1>5. ASSUME NEW c \in Calls, NEW id \in PlanIds, PlanPropose(c, id)
      PROVE  GateInv'
    <2>1. Quiet(state, state')
        <3> DEFINE u == PlanVersionCreated(state, NextVersion(id), FALSE)
        <3>1. state \in AgentState /\ Quiet(state, u) /\ state' = Done(u, c)
            BY <1>1, <1>5, PlanFacts DEF Types, PlanPropose
        <3> HIDE DEF u
        <3> QED BY <3>1, DoneKeeps, QuietChain
    <2>2. UNCHANGED <<pc, frozen, writeLock, approvalOwed, lastApproved>>
        BY <1>5 DEF PlanPropose, CreateVersion, gates
    <2> QED BY <2>1, <2>2, GateQuiet DEF Quiet, Kept, SameReplan
<1>6. ASSUME NEW c \in Calls, NEW v \in Plans, NEW yes \in BOOLEAN, ExitPlanMode(c, v, yes)
      PROVE  GateInv'
    <2>1. UNCHANGED <<pc, frozen, writeLock>> /\ approvalOwed' = (approvalOwed /\ ~ yes)
        BY <1>6 DEF ExitPlanMode, gates
    <2>2. CASE yes
        BY <1>1, <1>6, <2>1, <2>2, ExitState, GateClosed
    <2>3. CASE ~ yes
        <3>1. Quiet(state, state')
            BY <1>1, <1>6, <2>3, ExitState
        <3>2. lastApproved' = lastApproved
            BY <1>6, <2>3 DEF ExitPlanMode, MarkAwaitingApproval
        <3>3. approvalOwed' = approvalOwed
            BY <1>1, <2>1, <2>3 DEF Types
        <3> QED BY <2>1, <3>1, <3>2, <3>3, GateQuiet DEF Quiet, Kept, SameReplan
    <2> QED BY <2>2, <2>3
<1>7. ASSUME NEW c \in Calls, NEW v \in Plans, NEW ofStep \in SUBSET Tasks,
             PlanRepair(c, v, ofStep)
      PROVE  GateInv'
    <2>1. UNCHANGED <<frozen, writeLock, approvalOwed>> /\ lastApproved' \in Plans
        BY <1>7 DEF PlanRepair, CreateLocalRepair, gates
    <2>2. CASE AdjustmentRefused(state)
        <3>1. pc' = "failed" /\ SameReplan(state, state')
            BY <1>1, <1>7, <2>2, RepairState DEF SameReplan
        <3> QED BY <2>1, <3>1, NoneIsNoPlan, GateQuiet
    <2>3. CASE ~ AdjustmentRefused(state)
        BY <1>1, <1>7, <2>1, <2>3, RepairState, GateClosed DEF AdjustmentRefused, AwaitsApproval
    <2> QED BY <2>2, <2>3
<1>8. ASSUME NEW c \in Calls, NEW t \in Tasks, NEW status \in TaskStatuses,
             TaskCreate(c, t) \/ TaskUpdate(c, t, status)
      PROVE  GateInv'
    <2>1. PICK new \in TaskStatuses : state' = Done(TaskChanged(state, t, new), c)
        BY <1>8 DEF TaskCreate, TaskUpdate, TaskStatuses
    <2>2. Kept(state, TaskChanged(state, t, new))
        BY <1>1, TaskFacts DEF Types
    <2>3. Kept(state, state')
        BY <1>1, <2>1, <2>2, DoneKeeps DEF Types, Kept
    <2>4. UNCHANGED <<pc, frozen, writeLock, approvalOwed, lastApproved>>
        BY <1>8 DEF TaskCreate, TaskUpdate, gates, store
    <2> QED BY <2>3, <2>4, GateQuiet DEF Kept, SameReplan
<1>9. CASE Restart
    <2>1. Quiet(state, state')
        BY <1>1, <1>9, QuietFacts DEF Types, Restart
    <2>2. lastApproved # None => lastApproved' # None
        BY <1>9, RestoredIsApproved, NoneIsNoPlan DEF Restart, RestorePlans, PlanInv
    <2> QED BY <1>9, <2>1, <2>2, GateQuiet DEF Restart, Quiet, Kept, SameReplan
<1>10. CASE UNCHANGED vars
    BY <1>10, GateQuiet DEF vars, SameReplan
<1>11. "pending" \in TaskStatuses
    BY DEF TaskStatuses
<1> QED BY <1>1, <1>2, <1>3, <1>4, <1>5, <1>6, <1>7, <1>8, <1>9, <1>10, <1>11,
           StepsSorted, GateOpened, GateReplanned

(* In every state, plans and gates are as they should be. *)
THEOREM ReplanInvHolds == Spec => [](PlanInv /\ GateInv)
<1>1. Init => GateInv
    <2> SUFFICES ASSUME Init
                 PROVE  GateInv
        OBVIOUS
    <2>1. ~ state.recovery.replanning
        BY InitialStateIsState DEF Init, Modes, InitialRecovery
    <2> QED BY <2>1 DEF Init, GateInv, GateNeverLags
<1>2. PlanInv /\ GateInv /\ [Next]_vars => (PlanInv /\ GateInv)'
    BY PlanStep, GateStep
<1> QED BY <1>1, <1>2, PlanInit, PTL DEF Spec

(* Neither the projection nor the runtime lock of a batch is more open than *)
(* the state allows.                                                        *)
THEOREM GateIsNeverLate == Spec => []GateNeverLags
<1>1. GateInv => GateNeverLags
    BY DEF GateInv
<1> QED BY <1>1, ReplanInvHolds, PTL

(* Mode, lock and lane together leave an open replan a tool that closes it. *)
THEOREM ReplanKeepsWayOut == Spec => []ReplanHasWayOut
<1>1. GateInv => ReplanHasWayOut
    BY DEF GateInv, ReplanHasWayOut
<1> QED BY <1>1, ReplanInvHolds, PTL

(* The only step that changes the workspace is a write the gates let pass. *)
LEMMA OnlyWritesWrite ==
    ASSUME Types, [Next]_vars, Wrote
    PROVE  \E c \in Calls : Running(c) /\ Reachable({"Edit", "Shell"}) /\ ~ writeLock
<1> DEFINE Same == state'.workspace.revision = state.workspace.revision
<1>1. ~ Same
    BY DEF Wrote
<1>2. Between => Same
    BY BetweenIsQuiet DEF Quiet, Kept
<1>3. ASSUME NEW B \in SUBSET Calls, NEW ineffective \in BOOLEAN, NEW uncovered \in BOOLEAN,
             BeginIteration(B, ineffective, uncovered)
      PROVE  Same
    BY <1>3, BeginIsQuiet DEF Quiet, Kept
<1>4. ASSUME NEW s \in AgentState, NEW reapproval \in BOOLEAN, Quiet(state, s),
             ApplyReplan(s, reapproval)
      PROVE  Same
    BY <1>4, ReplanState
<1>5. ASSUME NEW verdict \in {"FAIL", "PARTIAL"}, NEW failures \in BOOLEAN,
             RejectVerification(verdict, failures)
      PROVE  Same
    <2>1. Quiet(state, state') => Same
        BY DEF Quiet, Kept
    <2> HIDE DEF Same
    <2> QED BY <1>4, <1>5, <2>1, RejectIsQuiet
<1>6. ASSUME NEW c \in Calls, NEW id \in PlanIds, PlanPropose(c, id)
      PROVE  Same
    <2> DEFINE u == PlanVersionCreated(state, NextVersion(id), FALSE)
    <2>1. state \in AgentState /\ Quiet(state, u) /\ state' = Done(u, c)
        BY <1>6, PlanFacts DEF Types, PlanPropose
    <2> HIDE DEF u
    <2> QED BY <2>1, DoneKeeps, QuietChain DEF Quiet, Kept
<1>7. ASSUME NEW c \in Calls, NEW v \in Plans, NEW yes \in BOOLEAN, ExitPlanMode(c, v, yes)
      PROVE  Same
    BY <1>7, ExitState
<1>8. ASSUME NEW c \in Calls, NEW v \in Plans, NEW ofStep \in SUBSET Tasks,
             PlanRepair(c, v, ofStep)
      PROVE  Same
    BY <1>8, RepairState
<1>9. ASSUME NEW c \in Calls, NEW t \in Tasks, NEW status \in TaskStatuses,
             TaskCreate(c, t) \/ TaskUpdate(c, t, status)
      PROVE  Same
    <2>1. PICK new \in TaskStatuses : state' = Done(TaskChanged(state, t, new), c)
        BY <1>9 DEF TaskCreate, TaskUpdate, TaskStatuses
    <2>2. Kept(state, TaskChanged(state, t, new))
        BY TaskFacts DEF Types
    <2>3. Kept(state, state')
        BY <2>1, <2>2, DoneKeeps DEF Types, Kept
    <2> QED BY <2>3 DEF Kept
<1>10. Restart => Same
    BY QuietFacts DEF Types, Restart, Quiet, Kept
<1>11. UNCHANGED vars => Same
    BY DEF vars
<1>12. ASSUME NEW c \in Calls, Aside(c)
       PROVE  Same \/ (Running(c) /\ Reachable({"Edit", "Shell"}) /\ ~ writeLock)
    BY <1>12, AsideIsSteady
<1>13. "pending" \in TaskStatuses
    BY DEF TaskStatuses
<1> HIDE DEF Same
<1> QED BY <1>1, <1>2, <1>3, <1>4, <1>5, <1>6, <1>7, <1>8, <1>9, <1>10, <1>11, <1>12, <1>13,
           StepsSorted

(* A write that happens while a high-impact replan is unanswered happens    *)
(* after a second replan.                                                   *)
THEOREM FirstReplanKeepsLock == Spec => FirstReplanLocksWrites
<1>1. ASSUME PlanInv, GateInv, [Next]_vars
      PROVE  Wrote /\ approvalOwed => state.recovery.replanCount > 1
    <2> SUFFICES ASSUME Wrote, approvalOwed
                 PROVE  state.recovery.replanCount > 1
        OBVIOUS
    <2>1. pc = "batch" /\ ~ writeLock
        BY <1>1, OnlyWritesWrite DEF PlanInv, Running
    <2>2. ~ AwaitsApproval(state)
        BY <1>1, <2>1 DEF GateInv, GateNeverLags, Locked
    <2> QED BY <1>1, <2>2 DEF GateInv
<1>2. PlanInv /\ GateInv /\ [Next]_vars =>
          [Wrote /\ approvalOwed => state.recovery.replanCount > 1]_vars
    BY <1>1
<1> QED BY <1>2, ReplanInvHolds, PTL DEF Spec, FirstReplanLocksWrites

(* In a supervised run no write happens while a replan is open, low-impact  *)
(* or not.                                                                  *)
THEOREM OpenReplanStopsWork ==
    ASSUME Intelligence
    PROVE  Spec => ReplanStopsWork
<1>1. ASSUME PlanInv, GateInv, [Next]_vars
      PROVE  Wrote => ~ state.recovery.replanning
    <2> SUFFICES ASSUME Wrote, state.recovery.replanning
                 PROVE  FALSE
        OBVIOUS
    <2>1. pc = "batch" /\ ~ writeLock /\ frozen.tools \cap {"Edit", "Shell"} # {}
        BY <1>1, OnlyWritesWrite DEF PlanInv, Running, Reachable
    <2>2. ~ AwaitsApproval(state)
        BY <1>1, <2>1 DEF GateInv, GateNeverLags, Locked
    <2> QED BY <1>1, <2>1, <2>2 DEF GateInv, AwaitsApproval
<1>2. PlanInv /\ GateInv /\ [Next]_vars => [Wrote => ~ state.recovery.replanning]_vars
    BY <1>1
<1> QED BY <1>2, ReplanInvHolds, PTL DEF Spec, ReplanStopsWork
===============================================================================
