------------------------- MODULE MCAgentStateMachine -------------------------
(* Finite instances of AgentStateMachine.  Calls, mutations, paths, plans   *)
(* and tasks are interchangeable: the reducer only compares them.           *)
EXTENDS AgentStateMachine, TLC

Symmetry ==
    Permutations(Calls) \cup Permutations(Mutations) \cup Permutations(Paths)
        \cup Permutations(Plans) \cup Permutations(Tasks)

(* The tool, planning and workspace facts are explored one group at a time, *)
(* each with verdicts, messages and terminal facts: the groups share no     *)
(* field of the state but those.                                            *)
NoTools ==
    /\ state.pendingToolCalls = {}
    /\ state.used = [modelCalls |-> 0, toolCalls |-> 0]
    /\ state.evidenceCount = 0
NoWorkspace == state.workspace.revision = 0
NoPlanning ==
    /\ state.activePlan = None
    /\ state.tasks = [t \in Tasks |-> None]
    /\ state.mode = "default" /\ state.prePlanMode = None
    /\ ~ state.recovery.degradedRecovery
    /\ state.recovery.replanCount <= 1
NoVerdicts == state.recovery.verifierRepairs = 0 /\ state.lastVerification = None
OneGroup ==
    \/ NoTools /\ NoWorkspace /\ state.recovery.verifierRepairs <= 1
    \/ NoTools /\ NoPlanning /\ state.iteration = 0
    \/ NoWorkspace /\ NoVerdicts /\ NoPlanning /\ state.recovery.replanCount = 0
=============================================================================
