------------------------------ MODULE EngineLoop ------------------------------
(***************************************************************************)
(* The main loop of the agent (core/AgentEngine.ts): preflight, plan       *)
(* supervision and reflections, context preparation, the model request     *)
(* with its retries, the tool batch, the completion gate and verification; *)
(* one turn of the CLI around it, the abort signal, and a crash of the     *)
(* process with its resume.                                                *)
(*                                                                         *)
(* Three copies of the facts' effect are kept: live (the state of the      *)
(* engine), journal (what replaying every appended fact gives) and disk    *)
(* (what replaying the durable ones gives).  A fact appended with 'flush'  *)
(* makes everything before it durable; a buffered one becomes durable      *)
(* later, by Drain.  local holds the two recovery fields no fact carries.  *)
(*                                                                         *)
(* What tools, the model, the gate, the supervisor's assessment, the       *)
(* replan detector and the verifier's model find is chosen freely; what    *)
(* the loop does with it is the code's.                                    *)
(***************************************************************************)
EXTENDS Naturals, Sequences, FiniteSets, Verdict

CONSTANTS
    Reports,                                \* what the verifier may answer
    MaxTurns, MaxModelCalls, MaxToolCalls,  \* state.budget
    MaxAttempts,                            \* retries of one model request
    MaxRepairAttempts,                      \* config.maxRepairAttempts
    ReflectionInterval, EvaluationWindow,   \* config.intelligence
    CompactFailureLimit,                    \* config of the context manager
    MaxBatch, MaxRuns, MaxCrashes           \* bounds of the model

ASSUME LoopBoundsAreNaturals ==
    {MaxTurns, MaxModelCalls, MaxToolCalls, MaxAttempts, MaxRepairAttempts,
     ReflectionInterval, EvaluationWindow, CompactFailureLimit, MaxBatch,
     MaxRuns, MaxCrashes} \subseteq Nat
ASSUME NoneIsNoVerdict == None \notin {"PASS", "FAIL", "PARTIAL"}
ASSUME ReportsAssumption == Reports \subseteq Report

VARIABLES
    pc,            \* where the engine is in its loop; "idle" between turns
    live, journal, disk,
    local,         \* recovery.stopHookRetries and promptOverflowRecovered
    saved,         \* local, as the last durable snapshot holds it
    attempt,       \* collectModelTurn: failures of this request so far
    aborted,       \* the abort signal of this turn
    compactFailures,  \* the circuit breaker of the context manager
    outcome,       \* the terminal reason of the last run
    sent,          \* model requests sent that a process still remembers
    lacking,       \* criteria the last PASS left without usable evidence
    runs, crashes

vars == <<pc, live, journal, disk, local, saved, attempt, aborted,
          compactFailures, outcome, sent, lacking, runs, crashes>>

Strategies == {"normal", "conservative", "critical"}
Triggers == {"stagnation", "periodic", "completion", "verification", "replan"}
Reasons == {"aborted", "max_turns", "budget_exhausted", "prompt_too_long",
            "model_error", "completed", "completed_with_unverified_items"}
MaxReplans == 2
SnapshotEvery == 3

FactState ==
    [iteration : Nat, modelCalls : Nat, toolCalls : Nat,
     replans : Nat, repairs : Nat, failures : Nat, stagnations : Nat,
     verdict : {None, "PASS", "FAIL", "PARTIAL"},
     open : Seq(Nat),        \* tool calls at each unevaluated reflection
     progress : BOOLEAN,     \* since the oldest of them
     ineffective : Nat, trigger : Triggers \cup {None}, lastReflection : Nat,
     strategy : Strategies]

InitialFacts ==
    [iteration |-> 0, modelCalls |-> 0, toolCalls |-> 0, replans |-> 0,
     repairs |-> 0, failures |-> 0, stagnations |-> 0, verdict |-> None,
     open |-> <<>>, progress |-> FALSE, ineffective |-> 0, trigger |-> None,
     lastReflection |-> 0, strategy |-> "normal"]
InitialLocal == [stopHookRetries |-> 0, overflowRecovered |-> FALSE]

Init ==
    /\ pc = "idle"
    /\ live = InitialFacts /\ journal = InitialFacts /\ disk = InitialFacts
    /\ local = InitialLocal /\ saved = InitialLocal
    /\ attempt = 0
    /\ aborted = FALSE
    /\ compactFailures = 0
    /\ outcome = None
    /\ sent = 0
    /\ lacking = {}
    /\ runs = 0
    /\ crashes = 0

-----------------------------------------------------------------------------
(* Facts.  persistAndReduce appends a fact and reduces it, so the facts that *)
(* take live to s have the same effect on the journal.  Neither the model    *)
(* calls counted during a request nor the iteration reset of a new turn go   *)
(* through it: those two fields may differ.                                  *)
Appended(s) ==
    [s EXCEPT !.modelCalls = journal.modelCalls,
              !.iteration = journal.iteration + s.iteration - live.iteration]

(* The facts up to s are flushed, those from s to t are buffered. *)
FlushedThen(s, t) == live' = t /\ journal' = Appended(t) /\ disk' = Appended(s)
Flushed(s) == FlushedThen(s, s)
Persisted(s, flush) ==
    live' = s /\ journal' = Appended(s) /\ disk' = IF flush THEN Appended(s) ELSE disk

Transition(s) == [s EXCEPT !.iteration = @ + 1]

(* buildReflection: a baseline of what the run has done so far *)
BuildReflection(s, trigger) ==
    [s EXCEPT !.open = Append(@, s.toolCalls), !.progress = FALSE,
              !.trigger = trigger, !.lastReflection = s.toolCalls]

(* Faulty variant: a newer reflection is opened beside the unevaluated one. *)
RecordReflectionAnyway(s, trigger) == BuildReflection(s, trigger)

(* recordReflection is single-flight: a no-op while one is unevaluated. *)
RecordReflection(s, trigger) == IF s.open # <<>> THEN s ELSE BuildReflection(s, trigger)

ShouldReflect(s, trigger) ==
    /\ ~ (s.trigger = trigger /\ s.lastReflection = s.toolCalls)
    /\ trigger = "completion" \/ s.toolCalls - s.lastReflection >= ReflectionInterval

(* supervisePlan, its evaluation of the oldest open reflection *)
EvaluateReflection(s) ==
    LET observed == s.toolCalls - Head(s.open) IN
    IF s.open = <<>> \/ observed < 1 THEN s
    ELSE IF s.progress THEN [s EXCEPT !.open = Tail(@), !.ineffective = 0]
    ELSE IF observed >= EvaluationWindow
         THEN [s EXCEPT !.open = Tail(@), !.ineffective = @ + 1]
         ELSE s

(* At most percent of a budget is left, in integers. *)
Remaining(used, max, percent) == 100 * (max - used) <= percent * max
Scarce(s, percent) ==
    \/ Remaining(s.modelCalls, MaxModelCalls, percent)
    \/ Remaining(s.toolCalls, MaxToolCalls, percent)
    \/ Remaining(s.iteration, MaxTurns, percent)
Rank(strategy) ==
    CASE strategy = "normal" -> 0 [] strategy = "conservative" -> 1
      [] strategy = "critical" -> 2

DesiredStrategy(s) ==
    IF Scarce(s, 15) THEN "critical"
    ELSE IF \/ Scarce(s, 40)
            \/ s.failures >= 2 \/ s.stagnations >= 2 \/ s.ineffective >= 2
         THEN "conservative" ELSE "normal"

AdaptStrategy(s) ==
    IF Rank(DesiredStrategy(s)) > Rank(s.strategy)
    THEN [s EXCEPT !.strategy = DesiredStrategy(s)] ELSE s

(* terminate: the terminal fact is flushed and the journal drained. *)
Terminate(s, reason) ==
    /\ Flushed(s)
    /\ pc' = "idle"
    /\ outcome' = reason
    /\ attempt' = 0

-----------------------------------------------------------------------------
(* runTurn: a human message, which takes a verdict with it, then the loop.  *)
(* A non-PASS verdict becomes a repair.                                     *)
HumanMessage(s) ==
    [s EXCEPT !.verdict = None,
              !.repairs = IF s.verdict \in {"FAIL", "PARTIAL"} THEN @ + 1 ELSE @]

StartTurn ==
    /\ pc = "idle"
    /\ runs < MaxRuns
    /\ LET s == HumanMessage(live) IN
        /\ journal' = Appended(s) /\ disk' = Appended(s)
        /\ live' = [s EXCEPT !.iteration = 0]
    /\ local' = [local EXCEPT !.stopHookRetries = 0]
    /\ pc' = "preflight"
    /\ aborted' = FALSE
    /\ outcome' = None
    /\ runs' = runs + 1
    /\ UNCHANGED <<saved, attempt, compactFailures, sent, lacking, crashes>>

(* The engine run again on a recovered state, without a new message. *)
ContinueRun ==
    /\ pc = "idle"
    /\ runs < MaxRuns
    /\ outcome = "crashed"
    /\ pc' = "preflight"
    /\ aborted' = FALSE
    /\ outcome' = None
    /\ runs' = runs + 1
    /\ UNCHANGED <<live, journal, disk, local, saved, attempt, compactFailures,
                   sent, lacking, crashes>>

Abort ==
    /\ pc # "idle"
    /\ ~ aborted
    /\ aborted' = TRUE
    /\ UNCHANGED <<pc, live, journal, disk, local, saved, attempt,
                   compactFailures, outcome, sent, lacking, runs, crashes>>

-----------------------------------------------------------------------------
(* checkPreflight; the wall clock may run out at any iteration. *)
PreflightReasons(s) ==
    IF aborted THEN {"aborted"}
    ELSE IF s.iteration >= MaxTurns THEN {"max_turns"}
    ELSE IF s.modelCalls >= MaxModelCalls \/ s.toolCalls >= MaxToolCalls
         THEN {"budget_exhausted"} ELSE {}

StopAtPreflight ==
    /\ pc = "preflight"
    /\ \E reason \in PreflightReasons(live) \cup {"budget_exhausted"} :
        /\ aborted => reason = "aborted"
        /\ Terminate(live, reason)
    /\ UNCHANGED <<local, saved, aborted, compactFailures, sent, lacking, runs, crashes>>

(* supervisePlan and the strategy: their facts are flushed when there are   *)
(* any; an assessment that did not change is no fact.                       *)
Supervise ==
    /\ pc = "preflight"
    /\ PreflightReasons(live) = {}
    /\ LET s == AdaptStrategy(EvaluateReflection(live)) IN
        \E assessed \in BOOLEAN : Persisted(s, assessed \/ s # live)
    /\ pc' = "prepare"
    /\ UNCHANGED <<local, saved, attempt, aborted, compactFailures, outcome,
                   sent, lacking, runs, crashes>>

(* ContextManager.prepare, as the engine sees it: the circuit breaker stays *)
(* open once the limit is reached, a summary that succeeds resets it.       *)
Summarised ==
    /\ compactFailures < CompactFailureLimit
    /\ compactFailures' \in {0, compactFailures + 1}

(* prepare and the lane fact, which is flushed when a lane is in force *)
PrepareContext ==
    /\ pc = "prepare"
    /\ UNCHANGED compactFailures \/ Summarised
    /\ \E lane \in BOOLEAN : disk' = IF lane THEN journal ELSE disk
    /\ pc' = "calling"
    /\ UNCHANGED <<live, journal, local, saved, attempt, aborted, outcome, sent,
                   lacking, runs, crashes>>

-----------------------------------------------------------------------------
(* collectModelTurn.  live is not reduced before it returns: the failures   *)
(* it persisted itself are reduced, not persisted, by run().                *)
Counted(s, n) == [s EXCEPT !.modelCalls = @ + n]

(* Faulty variant: every request may retry up to the whole budget. *)
WholeBudget == MaxModelCalls

RemainingCalls == MaxModelCalls - live.modelCalls
Failed(n) == Counted(live, attempt + n)

(* persistModelAttemptFailure: flushed before anything else happens. *)
FailureIsDurable == journal' = Counted(journal, 1) /\ disk' = Counted(journal, 1)

(* Faulty variant: the failure is left to run(), which reduces it only. *)
FailureIsNotPersisted == UNCHANGED <<journal, disk>>

(* Faulty variant: the failure is appended without a flush. *)
FailureIsBuffered == journal' = Counted(journal, 1) /\ UNCHANGED disk

PersistFailure == FailureIsDurable

SendRequest ==
    /\ pc = "calling"
    /\ attempt < RemainingCalls
    /\ sent' = sent + 1
    /\ pc' = "streaming"
    /\ UNCHANGED <<live, journal, disk, local, saved, attempt, aborted,
                   compactFailures, outcome, lacking, runs, crashes>>

(* The whole turn arrived: the assistant message is a buffered fact. *)
StreamTurn ==
    /\ pc = "streaming"
    /\ live' = Failed(1)
    /\ journal' = Counted(journal, 1)
    /\ pc' \in {"batch", "completion"}
    /\ attempt' = 0
    /\ UNCHANGED <<disk, local, saved, aborted, compactFailures, outcome, sent,
                   lacking, runs, crashes>>

(* An abort leaves the request that was cut off out of every count. *)
StreamAborted ==
    /\ pc = "streaming"
    /\ aborted
    /\ Terminate(Failed(0), "aborted")
    /\ sent' = journal.modelCalls
    /\ UNCHANGED <<local, saved, aborted, compactFailures, lacking, runs, crashes>>

(* PROMPT_TOO_LONG: one reactive compaction, or the end of the run *)
PromptTooLong ==
    /\ pc = "streaming"
    /\ ~ aborted
    /\ PersistFailure
    /\ live' = Failed(1)
    /\ attempt' = 0
    /\ IF local.overflowRecovered
       THEN pc' = "idle" /\ outcome' = "prompt_too_long"
       ELSE pc' = "reacting" /\ UNCHANGED outcome
    /\ UNCHANGED <<local, saved, aborted, compactFailures, sent, lacking, runs, crashes>>

(* An error that may not be retried, or was retried often enough *)
SurfaceError ==
    /\ pc = "streaming"
    /\ ~ aborted
    /\ PersistFailure
    /\ live' = Failed(1)
    /\ attempt' = 0
    /\ pc' = "idle"
    /\ outcome' = "model_error"
    /\ UNCHANGED <<local, saved, aborted, compactFailures, sent, lacking, runs, crashes>>

RetryError ==
    /\ pc = "streaming"
    /\ ~ aborted
    /\ attempt < MaxAttempts
    /\ PersistFailure
    /\ IF attempt + 1 >= RemainingCalls
       THEN /\ live' = Failed(1)
            /\ attempt' = 0
            /\ pc' = "idle"
            /\ outcome' = "budget_exhausted"
       ELSE /\ attempt' = attempt + 1
            /\ pc' = "backoff"
            /\ UNCHANGED <<live, outcome>>
    /\ UNCHANGED <<local, saved, aborted, compactFailures, sent, lacking, runs, crashes>>

(* Faulty variant: only an abort ends the sleep. *)
EndBackoffOnAbort ==
    /\ pc = "backoff"
    /\ aborted
    /\ Terminate(Failed(0), "aborted")
    /\ UNCHANGED <<local, saved, aborted, compactFailures, sent, lacking, runs, crashes>>

EndBackoff ==
    /\ pc = "backoff"
    /\ IF aborted
       THEN Terminate(Failed(0), "aborted")
       ELSE pc' = "calling" /\ UNCHANGED <<live, journal, disk, attempt, outcome>>
    /\ UNCHANGED <<local, saved, aborted, compactFailures, sent, lacking, runs, crashes>>

(* reactiveCompact is prepare with force; the flag is set without a fact. *)
ReactiveCompact ==
    /\ pc = "reacting"
    /\ UNCHANGED compactFailures \/ Summarised
    /\ local' = [local EXCEPT !.overflowRecovered = TRUE]
    /\ Persisted(Transition(live), FALSE)
    /\ pc' = "preflight"
    /\ UNCHANGED <<saved, attempt, aborted, outcome, sent, lacking, runs, crashes>>

-----------------------------------------------------------------------------
(* executeToolBatch and tool_results_ready.  Tool facts are flushed, the    *)
(* transition is buffered.  A mutation takes the verdict with it.           *)
Worked(s, n, progress, mutates) ==
    [s EXCEPT !.toolCalls = @ + n,
              !.progress = @ \/ progress,
              !.verdict = IF mutates THEN None ELSE @]

ResultsReady(s, allFailed) ==
    [Transition(s) EXCEPT !.failures = IF allFailed THEN @ + 1 ELSE 0]

RunBatch ==
    /\ pc = "batch"
    /\ \E n \in 1..MaxBatch, progress, mutates, allFailed \in BOOLEAN :
        LET s == Worked(live, n, progress, mutates)
            t == ResultsReady(s, allFailed) IN
        /\ progress \/ mutates => ~ allFailed
        /\ IF t.iteration % SnapshotEvery = 0
           THEN live' = t /\ saved' = local
                /\ journal' = [Appended(t) EXCEPT !.iteration = t.iteration]
                /\ disk' = journal'
           ELSE FlushedThen(s, t) /\ UNCHANGED saved
    /\ pc' = "settled"
    /\ UNCHANGED <<local, attempt, aborted, compactFailures, outcome, sent, lacking, runs, crashes>>

(* applyReplan, as far as the loop's own state goes *)
Replanned(s) ==
    [RecordReflection(s, "replan") EXCEPT
        !.replans = @ + 1, !.repairs = 0, !.failures = 0, !.verdict = None]

(* After the batch: supervision, then stagnation or a periodic reflection,  *)
(* then the replan detector.                                                *)
Stagnated(s) == RecordReflection([s EXCEPT !.stagnations = @ + 1], "stagnation")
Reflected(s) ==
    IF ShouldReflect(s, "periodic") THEN RecordReflection(s, "periodic") ELSE s

SettleBatch ==
    /\ pc = "settled"
    /\ \E stagnant, replan, assessed \in BOOLEAN :
        LET r == EvaluateReflection(live)
            s == IF stagnant THEN Stagnated(r) ELSE Reflected(r) IN
        IF replan /\ s.replans < MaxReplans
        THEN FlushedThen(Replanned(s), Transition(Replanned(s)))
        ELSE Persisted(s, assessed \/ s # live)
    /\ pc' = "preflight"
    /\ UNCHANGED <<local, saved, attempt, aborted, compactFailures, outcome, sent,
                   lacking, runs, crashes>>

-----------------------------------------------------------------------------
(* No tool calls: one completion reflection, then the completion gate. *)
ReflectsBeforeEnd(s) ==
    /\ ShouldReflect(s, "completion")
    /\ RecordReflection(s, "completion") # s

ReflectOnCompletion ==
    /\ pc = "completion"
    /\ ReflectsBeforeEnd(live)
    /\ LET s == RecordReflection(live, "completion") IN FlushedThen(s, Transition(s))
    /\ pc' = "preflight"
    /\ UNCHANGED <<local, saved, attempt, aborted, compactFailures, outcome, sent,
                   lacking, runs, crashes>>

(* The gate finds something missing: it may send the model back once. *)
GateContinues ==
    /\ pc = "completion"
    /\ ~ ReflectsBeforeEnd(live)
    /\ IF local.stopHookRetries >= 1
       THEN Terminate(live, "completed_with_unverified_items") /\ UNCHANGED local
       ELSE /\ local' = [local EXCEPT !.stopHookRetries = @ + 1]
            /\ FlushedThen(live, Transition(live))
            /\ pc' = "preflight"
            /\ UNCHANGED <<attempt, outcome>>
    /\ UNCHANGED <<saved, aborted, compactFailures, sent, lacking, runs, crashes>>

(* A verdict other than PASS ends the run without success, or in a replan. *)
GiveUp(s) ==
    \/ /\ s.replans < MaxReplans
       /\ FlushedThen(Replanned(s), Transition(Replanned(s)))
       /\ pc' = "preflight"
       /\ UNCHANGED <<attempt, outcome>>
    \/ Terminate(s, "completed_with_unverified_items")

StoredVerdictRefuses(s) == s.verdict \in {"FAIL", "PARTIAL"}

GateAccepts ==
    /\ pc = "completion"
    /\ ~ ReflectsBeforeEnd(live)
    /\ IF StoredVerdictRefuses(live) THEN GiveUp(live)
       ELSE \/ /\ live.verdict = None
               /\ pc' = "verifying"
               /\ UNCHANGED <<live, journal, disk, attempt, outcome>>
            \/ Terminate(live, "completed")
    /\ UNCHANGED <<local, saved, aborted, compactFailures, sent, lacking, runs, crashes>>

(* The verifier's report, flushed: a repair, the end, or a replan *)
Repaired(s) ==
    RecordReflection([s EXCEPT !.verdict = None, !.repairs = @ + 1], "verification")
Judged(s, verdict) ==
    [s EXCEPT !.verdict = verdict,
              !.repairs = IF verdict = "PASS" THEN 0 ELSE @]

Conclude(verdict) ==
    IF verdict = "FAIL" /\ live.repairs < MaxRepairAttempts
    THEN FlushedThen(Repaired(live), Transition(Repaired(live))) /\ pc' = "preflight"
    ELSE /\ Flushed(Judged(live, verdict))
         /\ pc' = IF verdict = "PASS" THEN "completing" ELSE "refused"

(* VerifierRunner.run: what is no valid report is sent back once, the       *)
(* second time the verdict is PARTIAL.                                      *)
Accepted == {[verdict |-> r.verdict, lacking |-> Lacking(r)] :
                r \in {x \in Reports : ValidReport(x)}}

Verify ==
    /\ pc \in {"verifying", "reverifying"}
    /\ \E report \in Accepted : Conclude(report.verdict) /\ lacking' = report.lacking
    /\ UNCHANGED <<local, saved, attempt, aborted, compactFailures, outcome, sent,
                   runs, crashes>>

RejectReport ==
    /\ \/ pc = "verifying" /\ pc' = "reverifying" /\ UNCHANGED <<live, journal, disk>>
       \/ pc = "reverifying" /\ Conclude("PARTIAL")
    /\ UNCHANGED <<local, saved, attempt, aborted, compactFailures, outcome, sent,
                   lacking, runs, crashes>>

AfterVerdict ==
    /\ \/ pc = "completing" /\ Terminate(live, "completed")
       \/ pc = "refused" /\ GiveUp(live)
    /\ UNCHANGED <<local, saved, aborted, compactFailures, sent, lacking, runs, crashes>>

-----------------------------------------------------------------------------
(* The journal's flush loop writes what was buffered. *)
Drain ==
    /\ disk # journal
    /\ disk' = journal
    /\ UNCHANGED <<pc, live, journal, local, saved, attempt, aborted,
                   compactFailures, outcome, sent, lacking, runs, crashes>>

(* The process dies and the session is resumed: what was not durable is     *)
(* gone, and with it the request in flight.  No fact ever changes           *)
(* recovery.compactFailures, so the breaker is restored closed.             *)
CrashAndResume ==
    /\ crashes < MaxCrashes
    /\ crashes' = crashes + 1
    /\ live' = disk /\ journal' = disk
    /\ local' = saved
    /\ compactFailures' = 0
    /\ sent' = disk.modelCalls
    /\ attempt' = 0
    /\ aborted' = FALSE
    /\ pc' = "idle"
    /\ outcome' = "crashed"
    /\ UNCHANGED <<disk, saved, lacking, runs>>

ModelStep ==
    \/ SendRequest \/ StreamTurn \/ StreamAborted \/ PromptTooLong
    \/ SurfaceError \/ RetryError \/ EndBackoff \/ ReactiveCompact

LoopStep ==
    \/ StopAtPreflight \/ Supervise \/ PrepareContext
    \/ RunBatch \/ SettleBatch
    \/ ReflectOnCompletion \/ GateContinues \/ GateAccepts
    \/ Verify \/ RejectReport \/ AfterVerdict

EngineStep == ModelStep \/ LoopStep
Next == StartTurn \/ ContinueRun \/ Abort \/ EngineStep \/ Drain \/ CrashAndResume

Spec == Init /\ [][Next]_vars

(* The model, the tools, the verifier and the file system answer, sleeps    *)
(* end: the engine's next step is taken.  Nothing is assumed of the user,   *)
(* of aborts, of crashes or of when buffered lines are written.             *)
FairSpec == Spec /\ WF_vars(EngineStep)

-----------------------------------------------------------------------------
(* The variables have their types. *)
TypeOK ==
    /\ pc \in {"idle", "preflight", "prepare", "calling", "streaming", "backoff",
               "reacting", "batch", "settled", "completion", "verifying",
               "reverifying", "completing", "refused"}
    /\ {live, journal, disk} \subseteq FactState
    /\ {local, saved} \subseteq [stopHookRetries : Nat, overflowRecovered : BOOLEAN]
    /\ {attempt, compactFailures, sent, runs, crashes} \subseteq Nat
    /\ aborted \in BOOLEAN
    /\ outcome \in Reasons \cup {None, "crashed"}
    /\ lacking \subseteq Criteria

(* Requests sent, retries included, never exceed the model call budget,     *)
(* although a whole retry loop runs between two preflight checks; only a    *)
(* request that an abort or a crash cut off is in no count.                 *)
BudgetHolds == sent <= MaxModelCalls

(* A crash forgets at most the one request that was in flight or had just   *)
(* answered: every failed attempt is durable before its backoff, and an     *)
(* answer is durable before the next request goes out.                      *)
CrashForgetsAtMostOne == sent <= disk.modelCalls + 1

(* Between model requests the replay of the journal is the live state,      *)
(* iteration apart: failed attempts, persisted in collectModelTurn and      *)
(* reduced in run(), are counted once on both sides.                        *)
InModelTurn == pc \in {"calling", "streaming", "backoff"}
LoopReplayAgrees ==
    ~ InModelTurn => [journal EXCEPT !.iteration = live.iteration] = live

(* No reflection is opened while another waits for its evaluation, over     *)
(* every trigger, turn and crash: no baseline is overwritten unevaluated.   *)
ReflectionsSingleFlight == Len(live.open) <= 1

(* A PASS that counts has, for every required acceptance criterion, usable  *)
(* evidence of its kind among the receipts it names: the validation of      *)
(* reports is as strict as the rule the completion gate applies.            *)
PassIsBacked == live.verdict = "PASS" => lacking = {}

(* Every turn ends: retries, compactions, stop hooks, repairs, reflections  *)
(* and replans cannot keep the loop going.                                  *)
EveryTurnEnds == pc # "idle" ~> pc = "idle"
=============================================================================
