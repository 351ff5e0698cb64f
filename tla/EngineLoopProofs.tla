--------------------------- MODULE EngineLoopProofs ---------------------------
(***************************************************************************)
(* Theorems about EngineLoop, for any evidence store, plan, set of reports *)
(* and bounds: a PASS is backed by evidence; and, from one invariant of    *)
(* the facts in the live state, the journal and the disk, the model call   *)
(* budget, what a crash forgets, replay and single-flight reflections.     *)
(***************************************************************************)
EXTENDS EngineLoop, TLAPS

(* A report of a PASS that validateReport accepts names, for every required *)
(* criterion, evidence that supports it: each of the checks of criterion    *)
(* binding, coverage and evidence kind is needed for it.                    *)
LEMMA ValidPassIsBacked ==
    ASSUME NEW report \in Report, ValidReport(report)
    PROVE  Lacking(report) = {}
<1>1. CASE report.verdict # "PASS"
    BY <1>1 DEF Lacking
<1>2. CASE report.verdict = "PASS"
    <2>1. PassHolds(report)
        BY <1>2 DEF ValidReport
    <2>2. ASSUME NEW c \in Criteria, c.required
          PROVE  \E id \in Named(report) \cap DOMAIN Store : Supports(id, c)
        <3>1. Covered(report, c)
            BY <2>1, <2>2 DEF PassHolds
        <3>2. PICK k \in report.checks : c.id \in k.criteria
            BY <3>1 DEF Covered
        <3>3. k.result = "PASS" /\ CheckHolds(k)
            BY <2>1 DEF PassHolds
        <3>4. PICK id \in k.evidence : Usable(id)
            BY <3>2, <3>3 DEF CheckHolds
        <3>5. id \in {x \in Backing(report, c) : Store[x].status = "passed"}
            BY <3>2, <3>3, <3>4 DEF Backing, Usable
        <3>6. PICK e \in Backing(report, c) : Supports(e, c)
            BY <3>1, <3>5 DEF Covered
        <3>7. e \in Named(report)
            BY <3>6 DEF Backing, Named
        <3>8. e \in DOMAIN Store
            BY <3>7 DEF ValidReport, EvidenceHolds, Referenced
        <3> QED BY <3>6, <3>7, <3>8
    <2> QED BY <1>2, <2>2 DEF Lacking, WithoutEvidence
<1> QED BY <1>1, <1>2

-----------------------------------------------------------------------------
(* Every action but Verify leaves lacking alone. *)
LEMMA LackingStep ==
    ASSUME lacking = {}, [Next]_vars
    PROVE  lacking' = {}
<1>1. CASE Verify
    <2>1. PICK outcome_ \in Accepted : lacking' = outcome_.lacking
        BY <1>1 DEF Verify
    <2>2. PICK r \in Reports : ValidReport(r) /\ outcome_.lacking = Lacking(r)
        BY <2>1 DEF Accepted
    <2> QED BY <2>1, <2>2, ReportsAssumption, ValidPassIsBacked
<1>2. CASE ~ Verify
    BY <1>2 DEF Next, EngineStep, ModelStep, LoopStep, vars, StartTurn, ContinueRun, Abort,
        Drain, CrashAndResume, SendRequest, StreamTurn, StreamAborted, PromptTooLong,
        SurfaceError, RetryError, EndBackoff, ReactiveCompact, StopAtPreflight, Supervise,
        PrepareContext, RunBatch, SettleBatch, ReflectOnCompletion, GateContinues,
        GateAccepts, RejectReport, AfterVerdict
<1> QED BY <1>1, <1>2

(* No PASS that a run accepts lacks evidence for a required criterion,      *)
(* whatever the verifier's model reports and however often it is asked.     *)
THEOREM VerdictsAreBacked == Spec => []PassIsBacked
<1>1. Init => lacking = {}
    BY DEF Init
<1>2. lacking = {} /\ [Next]_vars => (lacking = {})'
    BY LackingStep
<1>3. lacking = {} => PassIsBacked
    BY DEF PassIsBacked
<1> QED BY <1>1, <1>2, <1>3, PTL DEF Spec

-----------------------------------------------------------------------------
(* The states a replay may give: well-typed, at most one open reflection. *)
Sound == {s \in FactState : Len(s.open) <= 1}

(* s comes from b by facts that are not about model requests. *)
Grown(b, s) ==
    /\ s \in Sound
    /\ s.modelCalls = b.modelCalls
    /\ s.iteration >= b.iteration

(* The fields of a sound state, each in its type. *)
LEMMA SoundFields ==
    ASSUME NEW b \in Sound
    PROVE  /\ b \in FactState
           /\ b.iteration \in Nat /\ b.modelCalls \in Nat /\ b.toolCalls \in Nat
           /\ b.replans \in Nat /\ b.repairs \in Nat /\ b.failures \in Nat
           /\ b.stagnations \in Nat /\ b.ineffective \in Nat /\ b.progress \in BOOLEAN
           /\ b.verdict \in {None, "PASS", "FAIL", "PARTIAL"}
           /\ b.open \in Seq(Nat) /\ Len(b.open) <= 1
BY DEF Sound, FactState

(* Growing is reflexive and transitive. *)
LEMMA SoundGrows ==
    ASSUME NEW b \in Sound
    PROVE  Grown(b, b)
BY SoundFields DEF Grown

(* Growing twice is growing. *)
LEMMA GrownAgain ==
    ASSUME NEW b \in Sound, NEW s, NEW t, Grown(b, s), Grown(s, t)
    PROVE  Grown(b, t)
<1>1. s \in Sound /\ t \in Sound
    BY DEF Grown
<1>2. b.iteration \in Nat /\ s.iteration \in Nat /\ t.iteration \in Nat
    BY <1>1, SoundFields
<1> QED BY <1>1, <1>2 DEF Grown

-----------------------------------------------------------------------------
(* Every operation on facts grows a sound state into a sound state. *)
LEMMA TransitionGrows ==
    ASSUME NEW b \in Sound
    PROVE  Grown(b, Transition(b))
<1> DEFINE n == b.iteration + 1
<1>1. n \in Nat
    BY SoundFields
<1>2. Transition(b) = [b EXCEPT !.iteration = n]
    BY DEF Transition
<1> HIDE DEF n
<1>3. Transition(b) \in FactState
    BY <1>1, <1>2, SoundFields DEF FactState
<1>4. /\ Transition(b).modelCalls = b.modelCalls
      /\ Transition(b).iteration = n
      /\ Transition(b).open = b.open
    BY <1>2, SoundFields DEF FactState
<1> QED BY <1>1, <1>3, <1>4, SoundFields DEF Grown, Sound, n

(* buildReflection over no open reflection *)
LEMMA BuildGrows ==
    ASSUME NEW b \in Sound, NEW trigger \in Triggers, b.open = <<>>
    PROVE  Grown(b, BuildReflection(b, trigger))
<1> DEFINE o == Append(b.open, b.toolCalls)
<1>0. b.toolCalls \in Nat /\ Len(o) = 1
    BY SoundFields
<1>1. o \in Seq(Nat)
    BY SoundFields
<1>2. BuildReflection(b, trigger) =
          [b EXCEPT !.open = o, !.progress = FALSE, !.trigger = trigger,
                    !.lastReflection = b.toolCalls]
    BY DEF BuildReflection
<1> HIDE DEF o
<1>3. BuildReflection(b, trigger) \in FactState
    BY <1>1, <1>2, SoundFields DEF FactState
<1>4. /\ BuildReflection(b, trigger).modelCalls = b.modelCalls
      /\ BuildReflection(b, trigger).iteration = b.iteration
      /\ BuildReflection(b, trigger).open = o
    BY <1>2, SoundFields DEF FactState
<1>5. Len(o) <= 1
    BY <1>0
<1>6. Len(BuildReflection(b, trigger).open) <= 1
    BY <1>4, <1>5
<1> QED BY <1>3, <1>4, <1>6, SoundFields DEF Grown, Sound

(* recordReflection keeps at most one open: it builds only on none. *)
LEMMA RecordGrows ==
    ASSUME NEW b \in Sound, NEW trigger \in Triggers
    PROVE  Grown(b, RecordReflection(b, trigger))
BY SoundGrows, BuildGrows DEF RecordReflection

(* supervisePlan closes the oldest open reflection, or none. *)
LEMMA EvaluateGrows ==
    ASSUME NEW b \in Sound
    PROVE  Grown(b, EvaluateReflection(b))
<1>1. ASSUME b.open # <<>>, NEW n \in Nat
      PROVE  Grown(b, [b EXCEPT !.open = Tail(b.open), !.ineffective = n])
    <2> DEFINE o == Tail(b.open)
    <2>1. o \in Seq(Nat) /\ Len(o) <= 1
        BY <1>1, SoundFields
    <2> HIDE DEF o
    <2> DEFINE s == [b EXCEPT !.open = o, !.ineffective = n]
    <2>2. s \in FactState
        BY <2>1, SoundFields DEF FactState
    <2>3. s.open = o /\ s.modelCalls = b.modelCalls /\ s.iteration = b.iteration
        BY SoundFields DEF FactState
    <2> HIDE DEF s
    <2>4. Grown(b, s)
        BY <2>1, <2>2, <2>3, SoundFields DEF Grown, Sound
    <2> QED BY <2>4 DEF o, s
<1>2. 0 \in Nat /\ b.ineffective + 1 \in Nat
    BY SoundFields
<1> QED BY <1>1, <1>2, SoundGrows DEF EvaluateReflection

(* The strategy is adapted. *)
LEMMA AdaptGrows ==
    ASSUME NEW b \in Sound
    PROVE  Grown(b, AdaptStrategy(b))
<1> DEFINE d == DesiredStrategy(b)
           s == [b EXCEPT !.strategy = d]
<1>1. d \in Strategies
    BY DEF DesiredStrategy, Strategies
<1> HIDE DEF d
<1>2. s \in FactState
    BY <1>1, SoundFields DEF FactState
<1>3. s.open = b.open /\ s.modelCalls = b.modelCalls /\ s.iteration = b.iteration
    BY SoundFields DEF FactState
<1> HIDE DEF s
<1>4. Grown(b, s)
    BY <1>2, <1>3, SoundFields DEF Grown, Sound
<1> QED BY <1>4, SoundGrows DEF AdaptStrategy, d, s

(* A human message *)
LEMMA HumanGrows ==
    ASSUME NEW b \in Sound
    PROVE  Grown(b, HumanMessage(b))
<1> DEFINE n == IF b.verdict \in {"FAIL", "PARTIAL"} THEN b.repairs + 1 ELSE b.repairs
<1>1. n \in Nat
    BY SoundFields
<1>2. HumanMessage(b) = [b EXCEPT !.verdict = None, !.repairs = n]
    BY DEF HumanMessage
<1> HIDE DEF n
<1>3. HumanMessage(b) \in FactState
    BY <1>1, <1>2, SoundFields DEF FactState
<1>4. /\ HumanMessage(b).modelCalls = b.modelCalls
      /\ HumanMessage(b).iteration = b.iteration
      /\ HumanMessage(b).open = b.open
    BY <1>2, SoundFields DEF FactState
<1> QED BY <1>3, <1>4, SoundFields DEF Grown, Sound

(* The facts of a batch *)
LEMMA WorkGrows ==
    ASSUME NEW b \in Sound, NEW k \in Nat, NEW progress \in BOOLEAN, NEW mutates \in BOOLEAN
    PROVE  Grown(b, Worked(b, k, progress, mutates))
<1> DEFINE n == b.toolCalls + k
           p == b.progress \/ progress
           v == IF mutates THEN None ELSE b.verdict
<1>1. n \in Nat /\ p \in BOOLEAN /\ v \in {None, "PASS", "FAIL", "PARTIAL"}
    BY SoundFields
<1>2. Worked(b, k, progress, mutates) = [b EXCEPT !.toolCalls = n, !.progress = p, !.verdict = v]
    BY DEF Worked
<1> HIDE DEF n, p, v
<1>3. Worked(b, k, progress, mutates) \in FactState
    BY <1>1, <1>2, SoundFields DEF FactState
<1>4. /\ Worked(b, k, progress, mutates).modelCalls = b.modelCalls
      /\ Worked(b, k, progress, mutates).iteration = b.iteration
      /\ Worked(b, k, progress, mutates).open = b.open
    BY <1>2, SoundFields DEF FactState
<1> QED BY <1>3, <1>4, SoundFields DEF Grown, Sound

(* tool_results_ready *)
LEMMA ResultsGrow ==
    ASSUME NEW b \in Sound, NEW allFailed \in BOOLEAN
    PROVE  Grown(b, ResultsReady(b, allFailed))
<1> DEFINE n == b.iteration + 1
           f == IF allFailed THEN b.failures + 1 ELSE 0
<1>1. n \in Nat /\ f \in Nat
    BY SoundFields
<1>2. ResultsReady(b, allFailed) = [b EXCEPT !.iteration = n, !.failures = f]
    BY DEF ResultsReady, Transition, FactState
<1> HIDE DEF n, f
<1>3. ResultsReady(b, allFailed) \in FactState
    BY <1>1, <1>2, SoundFields DEF FactState
<1>4. /\ ResultsReady(b, allFailed).modelCalls = b.modelCalls
      /\ ResultsReady(b, allFailed).iteration = n
      /\ ResultsReady(b, allFailed).open = b.open
    BY <1>2, SoundFields DEF FactState
<1> QED BY <1>1, <1>3, <1>4, SoundFields DEF Grown, Sound, n

(* applyReplan *)
LEMMA ReplanGrows ==
    ASSUME NEW b \in Sound
    PROVE  Grown(b, Replanned(b))
<1> DEFINE r == RecordReflection(b, "replan")
           n == r.replans + 1
           s == [r EXCEPT !.replans = n, !.repairs = 0, !.failures = 0, !.verdict = None]
<1>1. Grown(b, r) /\ r \in Sound
    BY RecordGrows DEF Triggers, Grown
<1>2. Replanned(b) = s
    BY DEF Replanned
<1>3. n \in Nat
    BY <1>1, SoundFields
<1> HIDE DEF r, n
<1>4. s \in FactState
    BY <1>1, <1>3, SoundFields DEF FactState
<1>5. s.open = r.open /\ s.modelCalls = r.modelCalls /\ s.iteration = r.iteration
    BY <1>1, SoundFields DEF FactState
<1> HIDE DEF s
<1>6. Grown(r, s)
    BY <1>1, <1>4, <1>5, SoundFields DEF Grown, Sound
<1> QED BY <1>1, <1>2, <1>6, GrownAgain

(* A stagnation and its reflection *)
LEMMA StagnationGrows ==
    ASSUME NEW b \in Sound
    PROVE  Grown(b, Stagnated(b))
<1> DEFINE n == b.stagnations + 1
           r == [b EXCEPT !.stagnations = n]
<1>1. n \in Nat
    BY SoundFields
<1>2. Stagnated(b) = RecordReflection(r, "stagnation")
    BY DEF Stagnated
<1> HIDE DEF n
<1>3. r \in FactState
    BY <1>1, SoundFields DEF FactState
<1>4. r.open = b.open /\ r.modelCalls = b.modelCalls /\ r.iteration = b.iteration
    BY SoundFields DEF FactState
<1> HIDE DEF r
<1>5. Grown(b, r) /\ r \in Sound
    BY <1>3, <1>4, SoundFields DEF Grown, Sound
<1>6. Grown(r, RecordReflection(r, "stagnation"))
    BY <1>5, RecordGrows DEF Triggers
<1> QED BY <1>2, <1>5, <1>6, GrownAgain

(* A failed verification that is repaired *)
LEMMA RepairGrows ==
    ASSUME NEW b \in Sound
    PROVE  Grown(b, Repaired(b))
<1> DEFINE n == b.repairs + 1
           r == [b EXCEPT !.verdict = None, !.repairs = n]
<1>1. n \in Nat
    BY SoundFields
<1>2. Repaired(b) = RecordReflection(r, "verification")
    BY DEF Repaired
<1> HIDE DEF n
<1>3. r \in FactState
    BY <1>1, SoundFields DEF FactState
<1>4. r.open = b.open /\ r.modelCalls = b.modelCalls /\ r.iteration = b.iteration
    BY SoundFields DEF FactState
<1> HIDE DEF r
<1>5. Grown(b, r) /\ r \in Sound
    BY <1>3, <1>4, SoundFields DEF Grown, Sound
<1>6. Grown(r, RecordReflection(r, "verification"))
    BY <1>5, RecordGrows DEF Triggers
<1> QED BY <1>2, <1>5, <1>6, GrownAgain

(* A periodic reflection *)
LEMMA ReflectionGrows ==
    ASSUME NEW b \in Sound
    PROVE  Grown(b, Reflected(b))
BY SoundGrows, RecordGrows DEF Reflected, Triggers

(* A verdict that is kept *)
LEMMA JudgementGrows ==
    ASSUME NEW b \in Sound, NEW verdict \in {"PASS", "FAIL", "PARTIAL"}
    PROVE  Grown(b, Judged(b, verdict))
<1> DEFINE n == IF verdict = "PASS" THEN 0 ELSE b.repairs
<1>1. n \in Nat
    BY SoundFields
<1>2. Judged(b, verdict) = [b EXCEPT !.verdict = verdict, !.repairs = n]
    BY DEF Judged
<1> HIDE DEF n
<1>3. Judged(b, verdict) \in FactState
    BY <1>1, <1>2, SoundFields DEF FactState
<1>4. /\ Judged(b, verdict).modelCalls = b.modelCalls
      /\ Judged(b, verdict).iteration = b.iteration
      /\ Judged(b, verdict).open = b.open
    BY <1>2, SoundFields DEF FactState
<1> QED BY <1>3, <1>4, SoundFields DEF Grown, Sound

-----------------------------------------------------------------------------
Unflushed == {"batch", "completion", "verifying", "reverifying"}

(* The accounting of model requests over live state, journal and disk. *)
LoopInv ==
    /\ live \in Sound /\ journal \in Sound /\ disk \in Sound
    /\ attempt \in Nat
    /\ ~ InModelTurn => attempt = 0
    /\ journal = [live EXCEPT !.modelCalls = live.modelCalls + attempt,
                              !.iteration = journal.iteration]
    /\ sent = IF pc = "streaming" THEN journal.modelCalls + 1 ELSE journal.modelCalls
    /\ sent <= MaxModelCalls
    /\ disk.modelCalls <= journal.modelCalls
    /\ IF pc \in Unflushed THEN journal.modelCalls <= disk.modelCalls + 1
                           ELSE journal.modelCalls = disk.modelCalls

(* Facts that are not about model requests, applied to both sides. *)
LEMMA AppendedGrows ==
    ASSUME LoopInv, NEW s, Grown(live, s)
    PROVE  /\ Appended(s) \in Sound
           /\ Appended(s).modelCalls = journal.modelCalls
           /\ attempt = 0 => Appended(s) = [s EXCEPT !.modelCalls = s.modelCalls + 0,
                                                     !.iteration = Appended(s).iteration]
<1> DEFINE n == journal.iteration + s.iteration - live.iteration
           m == journal.modelCalls
<1>1. s \in Sound /\ live \in Sound /\ journal \in Sound
    BY DEF Grown, LoopInv
<1>2. s.iteration >= live.iteration /\ s.modelCalls = live.modelCalls
    BY DEF Grown
<1>3. n \in Nat /\ m \in Nat
    BY <1>1, <1>2, SoundFields
<1>4. Appended(s) = [s EXCEPT !.modelCalls = m, !.iteration = n]
    BY DEF Appended
<1>5. attempt = 0 => m = s.modelCalls + 0
    <2>1. journal.modelCalls = live.modelCalls + attempt
        BY <1>1, SoundFields DEF LoopInv, FactState
    <2> QED BY <1>1, <1>2, <2>1, SoundFields
<1> HIDE DEF n, m
<1>6. Appended(s) \in FactState
    BY <1>1, <1>3, <1>4, SoundFields DEF FactState
<1>7. Appended(s).open = s.open /\ Appended(s).modelCalls = m /\ Appended(s).iteration = n
    BY <1>1, <1>4, SoundFields DEF FactState
<1>8. Appended(s) \in Sound
    BY <1>1, <1>6, <1>7, SoundFields DEF Sound
<1> QED BY <1>4, <1>5, <1>7, <1>8 DEF m

(* The three ways in which such facts are persisted. *)
LEMMA FlushedKeeps ==
    ASSUME LoopInv, attempt = 0, NEW s, NEW t, Grown(live, s), Grown(live, t),
           FlushedThen(s, t), attempt' = 0, pc' # "streaming", sent' = sent, pc # "streaming"
    PROVE  LoopInv'
<1>1. /\ Appended(t) \in Sound /\ Appended(t).modelCalls = journal.modelCalls
      /\ Appended(s) \in Sound /\ Appended(s).modelCalls = journal.modelCalls
      /\ Appended(t) = [t EXCEPT !.modelCalls = t.modelCalls + 0,
                                 !.iteration = Appended(t).iteration]
    BY AppendedGrows
<1>2. live' = t /\ journal' = Appended(t) /\ disk' = Appended(s)
    BY DEF FlushedThen
<1>3. live' \in Sound /\ journal' \in Sound /\ disk' \in Sound
    BY <1>1, <1>2 DEF Grown
<1>4. journal' = [live' EXCEPT !.modelCalls = live'.modelCalls + attempt',
                               !.iteration = journal'.iteration]
    BY <1>1, <1>2
<1>5. journal'.modelCalls = disk'.modelCalls /\ disk'.modelCalls \in Nat
    BY <1>1, <1>2, <1>3, SoundFields
<1>6. sent' = journal'.modelCalls /\ sent' <= MaxModelCalls
    BY <1>1, <1>2 DEF LoopInv
<1> QED BY <1>3, <1>4, <1>5, <1>6 DEF LoopInv

(* Flushed or left in the buffer *)
LEMMA PersistedKeeps ==
    ASSUME LoopInv, attempt = 0, NEW s, Grown(live, s), NEW flush \in BOOLEAN,
           Persisted(s, flush), attempt' = 0, pc \notin Unflushed \cup {"streaming"},
           pc' # "streaming", sent' = sent
    PROVE  LoopInv'
<1>1. /\ Appended(s) \in Sound /\ Appended(s).modelCalls = journal.modelCalls
      /\ Appended(s) = [s EXCEPT !.modelCalls = s.modelCalls + 0,
                                 !.iteration = Appended(s).iteration]
    BY AppendedGrows
<1>2. live' = s /\ journal' = Appended(s) /\ disk' \in {Appended(s), disk}
    BY DEF Persisted
<1>3. live' \in Sound /\ journal' \in Sound /\ disk' \in Sound
    BY <1>1, <1>2 DEF Grown, LoopInv
<1>4. journal' = [live' EXCEPT !.modelCalls = live'.modelCalls + attempt',
                               !.iteration = journal'.iteration]
    BY <1>1, <1>2
<1>5. journal'.modelCalls = disk'.modelCalls /\ disk'.modelCalls \in Nat
    <2>1. disk.modelCalls = journal.modelCalls
        BY DEF LoopInv
    <2> QED BY <1>1, <1>2, <1>3, <2>1, SoundFields
<1>6. sent' = journal'.modelCalls /\ sent' <= MaxModelCalls
    BY <1>1, <1>2 DEF LoopInv
<1> QED BY <1>3, <1>4, <1>5, <1>6 DEF LoopInv

(* terminate flushes. *)
LEMMA TerminatedKeeps ==
    ASSUME LoopInv, attempt = 0, NEW s, Grown(live, s), NEW reason, Terminate(s, reason),
           sent' = sent, pc # "streaming"
    PROVE  LoopInv'
BY FlushedKeeps DEF Terminate, Flushed

(* A failed attempt is counted in the journal and on the disk at once. *)
LEMMA CountedSound ==
    ASSUME NEW b \in Sound, NEW n \in Nat
    PROVE  /\ Counted(b, n) \in Sound
           /\ Counted(b, n).modelCalls = b.modelCalls + n
           /\ Counted(b, n).iteration = b.iteration
<1> DEFINE m == b.modelCalls + n
<1>1. m \in Nat
    BY SoundFields
<1>2. Counted(b, n) = [b EXCEPT !.modelCalls = m]
    BY DEF Counted
<1> HIDE DEF m
<1>3. Counted(b, n) \in FactState
    BY <1>1, <1>2, SoundFields DEF FactState
<1>4. /\ Counted(b, n).modelCalls = m /\ Counted(b, n).iteration = b.iteration
      /\ Counted(b, n).open = b.open
    BY <1>2, SoundFields DEF FactState
<1> QED BY <1>3, <1>4, SoundFields DEF Sound, m

(* Counting nothing changes nothing. *)
LEMMA NothingCounted ==
    ASSUME NEW b \in Sound
    PROVE  b = [b EXCEPT !.modelCalls = b.modelCalls + 0, !.iteration = b.iteration]
<1> DEFINE m == b.modelCalls
           i == b.iteration
<1>1. b = [b EXCEPT !.modelCalls = m, !.iteration = i]
    BY SoundFields DEF FactState
<1>2. m = b.modelCalls + 0
    BY SoundFields
<1> QED BY <1>1, <1>2

(* What the journal has counted is what run() reduces at the end. *)
LEMMA CountsMeet ==
    ASSUME LoopInv, NEW n \in Nat
    PROVE  /\ Failed(n) \in Sound
           /\ Counted(journal, n) \in Sound
           /\ Counted(journal, n).modelCalls = journal.modelCalls + n
           /\ Counted(journal, n) = [Failed(n) EXCEPT !.modelCalls = Failed(n).modelCalls + 0,
                                            !.iteration = Counted(journal, n).iteration]
<1>1. live \in Sound /\ journal \in Sound /\ attempt \in Nat /\ attempt + n \in Nat
    BY DEF LoopInv
<1>2. /\ Failed(n) \in Sound
      /\ Failed(n).modelCalls = live.modelCalls + attempt + n
    BY <1>1, CountedSound, SoundFields DEF Failed
<1>3. /\ Counted(journal, n) \in Sound
      /\ Counted(journal, n).modelCalls = journal.modelCalls + n
      /\ Counted(journal, n).iteration = journal.iteration
    BY <1>1, CountedSound
<1> DEFINE m == live.modelCalls + attempt
           k == live.modelCalls + attempt + n
           i == journal.iteration
<1>4. journal = [live EXCEPT !.modelCalls = m, !.iteration = i]
    BY DEF LoopInv
<1>5. journal.modelCalls = m
    BY <1>1, <1>4, SoundFields DEF FactState
<1>6. Counted(journal, n) = [journal EXCEPT !.modelCalls = k]
    BY <1>5 DEF Counted
<1>7. Failed(n) = [live EXCEPT !.modelCalls = k]
    BY <1>1, SoundFields DEF Failed, Counted
<1>8. Failed(n).modelCalls + 0 = k
    BY <1>1, <1>2, SoundFields
<1> HIDE DEF m, k, i
<1>9. [journal EXCEPT !.modelCalls = k] = [live EXCEPT !.modelCalls = k, !.iteration = i]
    BY <1>1, <1>4, SoundFields DEF FactState
<1>10. [[live EXCEPT !.modelCalls = k] EXCEPT !.modelCalls = k, !.iteration = i]
          = [live EXCEPT !.modelCalls = k, !.iteration = i]
    BY <1>1, SoundFields DEF FactState
<1> QED BY <1>2, <1>3, <1>6, <1>7, <1>8, <1>9, <1>10 DEF i

(* An abort reduces the failures the journal already has. *)
LEMMA AbortKeeps ==
    ASSUME LoopInv, NEW reason, Terminate(Failed(0), reason), sent' = journal.modelCalls
    PROVE  LoopInv'
<1>1. live \in Sound /\ journal \in Sound /\ attempt \in Nat
    BY DEF LoopInv
<1>2. /\ Failed(0) \in Sound /\ Counted(journal, 0) \in Sound
      /\ Counted(journal, 0) = [Failed(0) EXCEPT !.modelCalls = Failed(0).modelCalls + 0,
                                       !.iteration = Counted(journal, 0).iteration]
    BY CountsMeet
<1>3. Counted(journal, 0) = journal
    <2>1. journal.modelCalls + 0 = journal.modelCalls
        BY <1>1, SoundFields
    <2>2. [journal EXCEPT !.modelCalls = journal.modelCalls] = journal
        BY <1>1, SoundFields DEF FactState
    <2> QED BY <2>1, <2>2 DEF Counted
<1>4. Failed(0).iteration = live.iteration /\ Failed(0).modelCalls = journal.modelCalls
    <2>1. Failed(0).iteration = live.iteration /\ Failed(0).modelCalls = live.modelCalls + attempt
        BY <1>1, CountedSound, SoundFields DEF Failed
    <2>2. journal.modelCalls = live.modelCalls + attempt
        BY <1>1, SoundFields DEF LoopInv, FactState
    <2> QED BY <2>1, <2>2
<1>5. journal.iteration + Failed(0).iteration - live.iteration = journal.iteration
    BY <1>1, <1>4, SoundFields
<1>6. journal.modelCalls + 0 = journal.modelCalls
    BY <1>1, SoundFields
<1>7. Appended(Failed(0)) = journal
    BY <1>2, <1>3, <1>4, <1>5, <1>6 DEF Appended
<1>8. live' = Failed(0) /\ journal' = journal /\ disk' = journal /\ attempt' = 0 /\ pc' = "idle"
    BY <1>7 DEF Terminate, Flushed, FlushedThen
<1>9. sent' <= MaxModelCalls
    <2>1. sent \in {journal.modelCalls, journal.modelCalls + 1} /\ sent <= MaxModelCalls
        BY DEF LoopInv
    <2> QED BY <1>1, <2>1, SoundFields, LoopBoundsAreNaturals
<1>10. journal.modelCalls \in Nat
    BY <1>1, SoundFields
<1>11. journal' = [live' EXCEPT !.modelCalls = live'.modelCalls + attempt',
                                !.iteration = journal'.iteration]
    BY <1>2, <1>3, <1>8
<1>12. pc' \notin Unflushed /\ pc' # "streaming"
    BY <1>8 DEF Unflushed
<1> QED BY <1>1, <1>2, <1>8, <1>9, <1>10, <1>11, <1>12 DEF LoopInv

(* collectModelTurn: each request is sent within the rest of the budget,    *)
(* and each failed attempt is counted by journal and disk before the next.  *)
LEMMA ModelStepKeeps ==
    ASSUME LoopInv, ModelStep
    PROVE  LoopInv'
<1>0. /\ live \in Sound /\ journal \in Sound /\ disk \in Sound /\ attempt \in Nat
      /\ live.modelCalls \in Nat /\ journal.modelCalls \in Nat /\ disk.modelCalls \in Nat
      /\ MaxModelCalls \in Nat
    BY SoundFields, LoopBoundsAreNaturals DEF LoopInv
<1>1. journal.modelCalls = live.modelCalls + attempt
    BY <1>0, SoundFields DEF LoopInv, FactState
<1>2. /\ Failed(1) \in Sound
      /\ Counted(journal, 1) \in Sound
      /\ Counted(journal, 1).modelCalls = journal.modelCalls + 1
      /\ Counted(journal, 1) = [Failed(1) EXCEPT !.modelCalls = Failed(1).modelCalls + 0,
                                       !.iteration = Counted(journal, 1).iteration]
    BY CountsMeet
<1>3. CASE SendRequest
    <2>1. /\ pc = "calling" /\ pc' = "streaming" /\ sent' = sent + 1
          /\ UNCHANGED <<live, journal, disk, attempt>>
          /\ attempt < MaxModelCalls - live.modelCalls
        BY <1>3 DEF SendRequest, RemainingCalls
    <2>2. sent = journal.modelCalls /\ disk.modelCalls = journal.modelCalls
        BY <2>1 DEF LoopInv, Unflushed
    <2>3. sent' = journal'.modelCalls + 1 /\ sent' <= MaxModelCalls
        BY <1>0, <1>1, <2>1, <2>2
    <2>4. pc' = "streaming" /\ pc' \notin Unflushed
        BY <2>1 DEF Unflushed
    <2>5. InModelTurn'
        BY <2>1 DEF InModelTurn
    <2> QED BY <1>0, <2>1, <2>2, <2>3, <2>4, <2>5 DEF LoopInv
<1>4. CASE StreamTurn
    <2>1. /\ pc = "streaming" /\ live' = Failed(1) /\ journal' = Counted(journal, 1)
          /\ pc' \in {"batch", "completion"} /\ attempt' = 0 /\ disk' = disk /\ sent' = sent
        BY <1>4 DEF StreamTurn
    <2>2. sent = journal.modelCalls + 1 /\ disk.modelCalls = journal.modelCalls
        BY <2>1 DEF LoopInv, Unflushed
    <2>3. journal' = [live' EXCEPT !.modelCalls = live'.modelCalls + attempt',
                                   !.iteration = journal'.iteration]
        BY <1>2, <2>1
    <2>4. /\ sent' = journal'.modelCalls /\ disk'.modelCalls <= journal'.modelCalls
          /\ journal'.modelCalls <= disk'.modelCalls + 1
        BY <1>0, <1>2, <2>1, <2>2
    <2>5. sent' <= MaxModelCalls
        BY <2>1 DEF LoopInv
    <2>6. pc' \in Unflushed /\ pc' # "streaming"
        BY <2>1 DEF Unflushed
    <2> QED BY <1>0, <1>2, <2>1, <2>3, <2>4, <2>5, <2>6 DEF LoopInv
<1>5. CASE StreamAborted
    BY <1>5, AbortKeeps DEF StreamAborted
<1>6. ASSUME pc = "streaming", PersistFailure, live' = Failed(1), attempt' = 0,
             pc' \in {"idle", "reacting"}, sent' = sent
      PROVE  LoopInv'
    <2>1. journal' = Counted(journal, 1) /\ disk' = Counted(journal, 1)
        BY <1>6 DEF PersistFailure, FailureIsDurable
    <2>2. sent = journal.modelCalls + 1
        BY <1>6 DEF LoopInv
    <2>3. journal' = [live' EXCEPT !.modelCalls = live'.modelCalls + attempt',
                                   !.iteration = journal'.iteration]
        BY <1>2, <1>6, <2>1
    <2>4. /\ sent' = journal'.modelCalls /\ disk'.modelCalls = journal'.modelCalls
          /\ disk'.modelCalls <= journal'.modelCalls
        BY <1>0, <1>2, <1>6, <2>1, <2>2
    <2>5. sent' <= MaxModelCalls
        BY <1>6 DEF LoopInv
    <2>6. pc' \notin Unflushed /\ pc' # "streaming"
        BY <1>6 DEF Unflushed
    <2> QED BY <1>0, <1>2, <1>6, <2>1, <2>3, <2>4, <2>5, <2>6 DEF LoopInv
<1>7. CASE PromptTooLong
    BY <1>6, <1>7 DEF PromptTooLong
<1>8. CASE SurfaceError
    BY <1>6, <1>8 DEF SurfaceError
<1>9. CASE RetryError
    <2>1. CASE attempt + 1 >= RemainingCalls
        BY <1>6, <1>9, <2>1 DEF RetryError
    <2>2. CASE ~ (attempt + 1 >= RemainingCalls)
        <3>1. /\ pc = "streaming" /\ attempt' = attempt + 1 /\ pc' = "backoff"
              /\ live' = live /\ sent' = sent
              /\ journal' = Counted(journal, 1) /\ disk' = Counted(journal, 1)
            BY <1>9, <2>2 DEF RetryError, PersistFailure, FailureIsDurable
        <3>2. sent = journal.modelCalls + 1
            BY <3>1 DEF LoopInv
        <3>3. journal' = [live' EXCEPT !.modelCalls = live'.modelCalls + attempt',
                                       !.iteration = journal'.iteration]
            <4> DEFINE m == live.modelCalls + attempt
                       k == live.modelCalls + (attempt + 1)
                       i == journal.iteration
            <4>1. journal = [live EXCEPT !.modelCalls = m, !.iteration = i]
                BY DEF LoopInv
            <4>2. journal' = [journal EXCEPT !.modelCalls = k]
                BY <1>0, <1>1, <3>1 DEF Counted
            <4>3. journal'.iteration = i
                BY <1>0, <3>1, CountedSound
            <4>4. live'.modelCalls + attempt' = k
                BY <3>1
            <4> HIDE DEF m, k, i
            <4>5. [journal EXCEPT !.modelCalls = k]
                      = [live EXCEPT !.modelCalls = k, !.iteration = i]
                BY <1>0, <4>1, SoundFields DEF FactState
            <4> QED BY <3>1, <4>2, <4>3, <4>4, <4>5
        <3>4. /\ sent' = journal'.modelCalls /\ disk'.modelCalls = journal'.modelCalls
              /\ disk'.modelCalls <= journal'.modelCalls
            BY <1>0, <1>2, <3>1, <3>2
        <3>5. sent' <= MaxModelCalls /\ attempt' \in Nat
            BY <1>0, <3>1 DEF LoopInv
        <3>6. pc' \notin Unflushed /\ pc' # "streaming" /\ InModelTurn'
            BY <3>1 DEF Unflushed, InModelTurn
        <3> QED BY <1>0, <1>2, <3>1, <3>3, <3>4, <3>5, <3>6 DEF LoopInv
    <2> QED BY <2>1, <2>2
<1>10. CASE EndBackoff
    <2>1. pc = "backoff" /\ sent' = sent /\ sent = journal.modelCalls
        BY <1>10 DEF EndBackoff, LoopInv
    <2>2. CASE aborted
        BY <1>10, <2>1, <2>2, AbortKeeps DEF EndBackoff
    <2>3. CASE ~ aborted
        <3>1. pc' = "calling" /\ UNCHANGED <<live, journal, disk, attempt, sent>>
            BY <1>10, <2>3 DEF EndBackoff
        <3>2. pc' \notin Unflushed /\ pc' # "streaming" /\ InModelTurn' /\ pc \notin Unflushed
            BY <2>1, <3>1 DEF Unflushed, InModelTurn
        <3> QED BY <2>1, <3>1, <3>2 DEF LoopInv
    <2> QED BY <2>2, <2>3
<1>11. CASE ReactiveCompact
    <2>1. /\ pc = "reacting" /\ pc' = "preflight" /\ attempt' = attempt /\ sent' = sent
          /\ Persisted(Transition(live), FALSE)
        BY <1>11 DEF ReactiveCompact
    <2>2. attempt = 0
        BY <2>1 DEF LoopInv, InModelTurn
    <2> QED BY <1>0, <2>1, <2>2, PersistedKeeps, TransitionGrows DEF Unflushed
<1> QED BY <1>3, <1>4, <1>5, <1>7, <1>8, <1>9, <1>10, <1>11 DEF ModelStep

(* The verdict of an accepted report is one. *)
LEMMA ConcludeKeeps ==
    ASSUME LoopInv, pc \in {"verifying", "reverifying"},
           NEW verdict \in {"PASS", "FAIL", "PARTIAL"}, Conclude(verdict),
           attempt' = attempt, sent' = sent
    PROVE  LoopInv'
<1>1. attempt = 0 /\ live \in Sound /\ pc # "streaming"
    BY DEF LoopInv, InModelTurn
<1>2. CASE verdict = "FAIL" /\ live.repairs < MaxRepairAttempts
    <2>1. Grown(live, Repaired(live)) /\ Repaired(live) \in Sound
        BY <1>1, RepairGrows DEF Grown
    <2>2. Grown(live, Transition(Repaired(live)))
        BY <1>1, <2>1, TransitionGrows, GrownAgain
    <2>3. FlushedThen(Repaired(live), Transition(Repaired(live))) /\ pc' = "preflight"
        BY <1>2 DEF Conclude
    <2> QED BY <1>1, <2>1, <2>2, <2>3, FlushedKeeps
<1>3. CASE ~ (verdict = "FAIL" /\ live.repairs < MaxRepairAttempts)
    <2>1. Grown(live, Judged(live, verdict))
        BY <1>1, JudgementGrows
    <2>2. /\ FlushedThen(Judged(live, verdict), Judged(live, verdict))
          /\ pc' \in {"completing", "refused"}
        BY <1>3 DEF Conclude, Flushed
    <2> QED BY <1>1, <2>1, <2>2, FlushedKeeps
<1> QED BY <1>2, <1>3

(* A refused verdict ends the run or is replanned. *)
LEMMA GiveUpKeeps ==
    ASSUME LoopInv, pc \in {"completion", "refused"}, GiveUp(live), sent' = sent
    PROVE  LoopInv'
<1>1. attempt = 0 /\ live \in Sound /\ pc # "streaming"
    BY DEF LoopInv, InModelTurn
<1>2. Grown(live, live) /\ Grown(live, Replanned(live)) /\ Replanned(live) \in Sound
    BY <1>1, SoundGrows, ReplanGrows DEF Grown
<1>3. Grown(live, Transition(Replanned(live)))
    BY <1>1, <1>2, TransitionGrows, GrownAgain
<1>4. CASE /\ FlushedThen(Replanned(live), Transition(Replanned(live)))
           /\ pc' = "preflight" /\ attempt' = attempt
    BY <1>1, <1>2, <1>3, <1>4, FlushedKeeps
<1>5. CASE Terminate(live, "completed_with_unverified_items")
    BY <1>1, <1>2, <1>5, TerminatedKeeps
<1> QED BY <1>4, <1>5 DEF GiveUp

(* The batch flushes the answer it belongs to, with or without a snapshot. *)
LEMMA RunBatchKeeps ==
    ASSUME LoopInv, RunBatch
    PROVE  LoopInv'
<1>0. /\ attempt = 0 /\ attempt' = 0 /\ sent' = sent /\ pc = "batch" /\ pc' = "settled"
      /\ live \in Sound
    BY DEF LoopInv, InModelTurn, RunBatch
<1>1. PICK n \in 1..MaxBatch, progress \in BOOLEAN, mutates \in BOOLEAN, allFailed \in BOOLEAN :
        LET s == Worked(live, n, progress, mutates)
            t == ResultsReady(s, allFailed) IN
        IF t.iteration % SnapshotEvery = 0
        THEN live' = t /\ journal' = [Appended(t) EXCEPT !.iteration = t.iteration]
             /\ disk' = journal'
        ELSE FlushedThen(s, t)
    BY DEF RunBatch
<1> DEFINE s == Worked(live, n, progress, mutates)
           t == ResultsReady(s, allFailed)
<1>2. n \in Nat
    BY LoopBoundsAreNaturals
<1>3. Grown(live, s) /\ s \in Sound
    BY <1>0, <1>2, WorkGrows DEF Grown
<1>4. Grown(live, t) /\ t \in Sound
    BY <1>0, <1>3, ResultsGrow, GrownAgain DEF Grown
<1>5. \/ live' = t /\ journal' = [Appended(t) EXCEPT !.iteration = t.iteration]
             /\ disk' = journal'
      \/ FlushedThen(s, t)
    BY <1>1
<1> HIDE DEF s, t
<1>6. CASE FlushedThen(s, t)
    BY <1>0, <1>3, <1>4, <1>6, FlushedKeeps
<1>7. CASE live' = t /\ journal' = [Appended(t) EXCEPT !.iteration = t.iteration]
               /\ disk' = journal'
    <2> DEFINE i == t.iteration
               j == Appended(t).iteration
               m == t.modelCalls + 0
    <2>1. /\ Appended(t) \in Sound
          /\ Appended(t).modelCalls = journal.modelCalls
          /\ Appended(t) = [t EXCEPT !.modelCalls = m, !.iteration = j]
        BY <1>0, <1>4, AppendedGrows
    <2>2. i \in Nat
        BY <1>4, SoundFields
    <2>3. journal' = [Appended(t) EXCEPT !.iteration = i]
        BY <1>7
    <2> HIDE DEF i, j, m
    <2>4. journal' \in FactState
        BY <2>1, <2>2, <2>3, SoundFields DEF FactState
    <2>5. /\ journal'.open = Appended(t).open /\ journal'.iteration = i
          /\ journal'.modelCalls = journal.modelCalls
        BY <2>1, <2>3, SoundFields DEF FactState
    <2>6. journal' \in Sound /\ journal'.modelCalls \in Nat
        BY <2>1, <2>4, <2>5, SoundFields DEF Sound
    <2>7. journal' = [t EXCEPT !.modelCalls = m, !.iteration = i]
        BY <1>4, <2>1, <2>3, SoundFields DEF FactState
    <2>8. journal' = [live' EXCEPT !.modelCalls = live'.modelCalls + attempt',
                                   !.iteration = journal'.iteration]
        BY <1>0, <1>7, <2>5, <2>7 DEF m
    <2>9. sent' = journal'.modelCalls /\ sent' <= MaxModelCalls
        BY <1>0, <2>5 DEF LoopInv
    <2>10. pc' \notin Unflushed /\ pc' # "streaming"
        BY <1>0 DEF Unflushed
    <2> QED BY <1>0, <1>4, <1>7, <2>6, <2>8, <2>9, <2>10 DEF LoopInv
<1> QED BY <1>5, <1>6, <1>7

(* After the batch: evaluation, a reflection, perhaps a replan *)
LEMMA SettleKeeps ==
    ASSUME LoopInv, SettleBatch
    PROVE  LoopInv'
<1>0. /\ attempt = 0 /\ attempt' = 0 /\ sent' = sent /\ pc = "settled" /\ pc' = "preflight"
      /\ live \in Sound
    BY DEF LoopInv, InModelTurn, SettleBatch
<1>1. PICK stagnant \in BOOLEAN, replan \in BOOLEAN, assessed \in BOOLEAN :
        LET r == EvaluateReflection(live)
            s == IF stagnant THEN Stagnated(r) ELSE Reflected(r) IN
        IF replan /\ s.replans < MaxReplans
        THEN FlushedThen(Replanned(s), Transition(Replanned(s)))
        ELSE Persisted(s, assessed \/ s # live)
    BY DEF SettleBatch
<1> DEFINE r == EvaluateReflection(live)
           s == IF stagnant THEN Stagnated(r) ELSE Reflected(r)
<1>2. Grown(live, r) /\ r \in Sound
    BY <1>0, EvaluateGrows DEF Grown
<1>3. Grown(r, s)
    BY <1>2, StagnationGrows, ReflectionGrows
<1>4. Grown(live, s) /\ s \in Sound
    BY <1>0, <1>2, <1>3, GrownAgain DEF Grown
<1>5. \/ FlushedThen(Replanned(s), Transition(Replanned(s)))
      \/ Persisted(s, assessed \/ s # live)
    BY <1>1
<1> HIDE DEF s
<1>6. Grown(live, Replanned(s)) /\ Grown(live, Transition(Replanned(s)))
    BY <1>0, <1>4, ReplanGrows, TransitionGrows, GrownAgain DEF Grown
<1>7. CASE FlushedThen(Replanned(s), Transition(Replanned(s)))
    BY <1>0, <1>6, <1>7, FlushedKeeps
<1>8. CASE Persisted(s, assessed \/ s # live)
    <2>1. (assessed \/ s # live) \in BOOLEAN
        OBVIOUS
    <2> QED BY <1>0, <1>4, <1>8, <2>1, PersistedKeeps DEF Unflushed
<1> QED BY <1>5, <1>7, <1>8

(* The other steps of the loop, one by one *)
LEMMA LoopStepKeeps ==
    ASSUME LoopInv, LoopStep
    PROVE  LoopInv'
<1>0. live \in Sound /\ journal \in Sound /\ disk \in Sound /\ Grown(live, live)
    BY SoundGrows DEF LoopInv
<1>1. ASSUME NEW s, Grown(live, s)
      PROVE  Grown(live, Transition(s))
    <2>1. s \in Sound
        BY <1>1 DEF Grown
    <2> QED BY <1>0, <1>1, <2>1, TransitionGrows, GrownAgain
<1>2. CASE StopAtPreflight
    <2>1. PICK reason \in PreflightReasons(live) \cup {"budget_exhausted"} : Terminate(live, reason)
        BY <1>2 DEF StopAtPreflight
    <2>2. pc = "preflight" /\ sent' = sent /\ attempt = 0
        BY <1>2 DEF StopAtPreflight, LoopInv, InModelTurn
    <2> QED BY <1>0, <2>1, <2>2, TerminatedKeeps
<1>3. CASE Supervise
    <2> DEFINE s == AdaptStrategy(EvaluateReflection(live))
    <2>1. Grown(live, s)
        BY <1>0, EvaluateGrows, AdaptGrows, GrownAgain DEF Grown
    <2>2. PICK assessed \in BOOLEAN : Persisted(s, assessed \/ s # live)
        BY <1>3 DEF Supervise
    <2> HIDE DEF s
    <2>3. /\ pc = "preflight" /\ pc' = "prepare" /\ sent' = sent /\ attempt' = attempt
          /\ attempt = 0
        BY <1>3 DEF Supervise, LoopInv, InModelTurn
    <2>4. (assessed \/ s # live) \in BOOLEAN
        OBVIOUS
    <2> QED BY <2>1, <2>2, <2>3, <2>4, PersistedKeeps DEF Unflushed
<1>4. CASE PrepareContext
    <2>1. /\ pc = "prepare" /\ pc' = "calling" /\ UNCHANGED <<live, journal, attempt, sent>>
          /\ disk' \in {journal, disk}
        BY <1>4 DEF PrepareContext
    <2>2. journal.modelCalls = disk.modelCalls /\ journal.modelCalls \in Nat
        BY <1>0, <2>1, SoundFields DEF LoopInv, Unflushed
    <2>3. disk' \in Sound /\ disk'.modelCalls = journal'.modelCalls
        BY <1>0, <2>1, <2>2
    <2>4. InModelTurn' /\ pc' \notin Unflushed /\ pc' # "streaming" /\ pc # "streaming"
        BY <2>1 DEF InModelTurn, Unflushed
    <2> QED BY <1>0, <2>1, <2>2, <2>3, <2>4 DEF LoopInv
<1>5. CASE RunBatch
    BY <1>5, RunBatchKeeps
<1>6. CASE SettleBatch
    BY <1>6, SettleKeeps
<1>7. CASE ReflectOnCompletion
    <2> DEFINE s == RecordReflection(live, "completion")
    <2>1. Grown(live, s)
        BY <1>0, RecordGrows DEF Triggers
    <2>2. FlushedThen(s, Transition(s))
        BY <1>7 DEF ReflectOnCompletion
    <2> HIDE DEF s
    <2>3. /\ pc = "completion" /\ pc' = "preflight" /\ sent' = sent /\ attempt' = attempt
          /\ attempt = 0
        BY <1>7 DEF ReflectOnCompletion, LoopInv, InModelTurn
    <2> QED BY <1>1, <2>1, <2>2, <2>3, FlushedKeeps
<1>8. CASE GateContinues
    <2>1. pc = "completion" /\ sent' = sent /\ attempt = 0
        BY <1>8 DEF GateContinues, LoopInv, InModelTurn
    <2>2. \/ Terminate(live, "completed_with_unverified_items")
          \/ FlushedThen(live, Transition(live)) /\ pc' = "preflight" /\ attempt' = attempt
        BY <1>8 DEF GateContinues
    <2> QED BY <1>0, <1>1, <2>1, <2>2, TerminatedKeeps, FlushedKeeps
<1>9. CASE GateAccepts
    <2>1. pc = "completion" /\ sent' = sent /\ attempt = 0
        BY <1>9 DEF GateAccepts, LoopInv, InModelTurn
    <2>2. \/ GiveUp(live)
          \/ pc' = "verifying" /\ UNCHANGED <<live, journal, disk, attempt>>
          \/ Terminate(live, "completed")
        BY <1>9 DEF GateAccepts
    <2>3. CASE pc' = "verifying" /\ UNCHANGED <<live, journal, disk, attempt>>
        <3>1. pc \in Unflushed /\ pc' \in Unflushed /\ pc # "streaming" /\ pc' # "streaming"
            BY <2>1, <2>3 DEF Unflushed
        <3> QED BY <2>1, <2>3, <3>1 DEF LoopInv
    <2> QED BY <1>0, <2>1, <2>2, <2>3, GiveUpKeeps, TerminatedKeeps
<1>10. CASE Verify
    <2>1. PICK report \in Accepted : Conclude(report.verdict)
        BY <1>10 DEF Verify
    <2>2. report.verdict \in {"PASS", "FAIL", "PARTIAL"}
        <3>1. PICK r \in Reports : report = [verdict |-> r.verdict, lacking |-> Lacking(r)]
            BY <2>1 DEF Accepted
        <3> QED BY <3>1, ReportsAssumption DEF Report
    <2> QED BY <1>10, <2>1, <2>2, ConcludeKeeps DEF Verify
<1>11. CASE RejectReport
    <2>1. CASE pc = "verifying" /\ pc' = "reverifying" /\ UNCHANGED <<live, journal, disk>>
        <3>1. attempt' = attempt /\ sent' = sent /\ attempt = 0
            BY <1>11, <2>1 DEF RejectReport, LoopInv, InModelTurn
        <3>2. pc \in Unflushed /\ pc' \in Unflushed /\ pc # "streaming" /\ pc' # "streaming"
            BY <2>1 DEF Unflushed
        <3> QED BY <2>1, <3>1, <3>2 DEF LoopInv
    <2>2. CASE pc = "reverifying" /\ Conclude("PARTIAL")
        BY <1>11, <2>2, ConcludeKeeps DEF RejectReport
    <2> QED BY <1>11, <2>1, <2>2 DEF RejectReport
<1>12. CASE AfterVerdict
    <2>1. sent' = sent
        BY <1>12 DEF AfterVerdict
    <2>2. CASE pc = "completing" /\ Terminate(live, "completed")
        <3>1. attempt = 0 /\ pc # "streaming"
            BY <2>2 DEF LoopInv, InModelTurn
        <3> QED BY <1>0, <2>1, <2>2, <3>1, TerminatedKeeps
    <2>3. CASE pc = "refused" /\ GiveUp(live)
        BY <2>1, <2>3, GiveUpKeeps
    <2> QED BY <1>12, <2>2, <2>3 DEF AfterVerdict
<1> QED BY <1>2, <1>3, <1>4, <1>5, <1>6, <1>7, <1>8, <1>9, <1>10, <1>11, <1>12 DEF LoopStep

(* LoopInv is inductive: turns, aborts, drains and crashes included. *)
LEMMA LoopInvStep ==
    ASSUME LoopInv, [Next]_vars
    PROVE  LoopInv'
<1>0. /\ live \in Sound /\ journal \in Sound /\ disk \in Sound
      /\ journal.modelCalls \in Nat /\ disk.modelCalls \in Nat
    BY SoundFields DEF LoopInv
<1>1. CASE StartTurn
    <2> DEFINE s == HumanMessage(live)
               a == Appended(s)
               j == a.iteration
               m == s.modelCalls + 0
    <2>1. /\ pc = "idle" /\ pc' = "preflight" /\ attempt' = attempt /\ sent' = sent
          /\ live' = [s EXCEPT !.iteration = 0] /\ journal' = a /\ disk' = a
        BY <1>1 DEF StartTurn
    <2>2. attempt = 0 /\ sent = journal.modelCalls /\ sent <= MaxModelCalls
        BY <2>1 DEF LoopInv, InModelTurn
    <2>3. Grown(live, s) /\ s \in Sound
        BY <1>0, HumanGrows DEF Grown
    <2>4. a \in Sound /\ a.modelCalls = journal.modelCalls
          /\ a = [s EXCEPT !.modelCalls = m, !.iteration = j]
        BY <2>2, <2>3, AppendedGrows
    <2> HIDE DEF s, a, j
    <2>5. /\ live' \in FactState /\ live'.open = s.open /\ live'.modelCalls = s.modelCalls
        BY <2>1, <2>3, SoundFields DEF FactState
    <2>6. live' \in Sound
        BY <2>3, <2>5, SoundFields DEF Sound
    <2>7. m = live'.modelCalls + attempt'
        BY <2>1, <2>2, <2>5
    <2> HIDE DEF m
    <2>8. [s EXCEPT !.modelCalls = m, !.iteration = j]
              = [[s EXCEPT !.iteration = 0] EXCEPT !.modelCalls = m, !.iteration = j]
        BY <2>3, SoundFields DEF FactState
    <2>9. journal' = [live' EXCEPT !.modelCalls = live'.modelCalls + attempt',
                                   !.iteration = journal'.iteration]
        BY <2>1, <2>4, <2>7, <2>8 DEF j
    <2>10. pc' \notin Unflushed /\ pc' # "streaming"
        BY <2>1 DEF Unflushed
    <2> QED BY <1>0, <2>1, <2>2, <2>4, <2>6, <2>9, <2>10 DEF LoopInv
<1>2. CASE ContinueRun
    <2>1. /\ pc = "idle" /\ pc' = "preflight" /\ UNCHANGED <<live, journal, disk, attempt, sent>>
        BY <1>2 DEF ContinueRun
    <2>2. /\ pc \notin Unflushed /\ pc' \notin Unflushed /\ pc # "streaming" /\ pc' # "streaming"
          /\ attempt = 0
        BY <2>1 DEF Unflushed, LoopInv, InModelTurn
    <2> QED BY <2>1, <2>2 DEF LoopInv
<1>3. CASE UNCHANGED <<pc, live, journal, disk, attempt, sent>>
    BY <1>3 DEF LoopInv, InModelTurn
<1>4. CASE Drain
    <2>1. disk' = journal /\ UNCHANGED <<pc, live, journal, attempt, sent>>
        BY <1>4 DEF Drain
    <2>2. InModelTurn' = InModelTurn
        BY <2>1 DEF InModelTurn
    <2>3. disk' \in Sound /\ disk'.modelCalls = journal'.modelCalls
        BY <1>0, <2>1
    <2>4. journal'.modelCalls <= disk'.modelCalls + 1 /\ disk'.modelCalls <= journal'.modelCalls
        BY <1>0, <2>1
    <2> QED BY <2>1, <2>2, <2>3, <2>4 DEF LoopInv
<1>5. CASE CrashAndResume
    <2>1. /\ live' = disk /\ journal' = disk /\ disk' = disk /\ sent' = disk.modelCalls
          /\ attempt' = 0 /\ pc' = "idle"
        BY <1>5 DEF CrashAndResume
    <2>2. disk = [disk EXCEPT !.modelCalls = disk.modelCalls + 0, !.iteration = disk.iteration]
        BY <1>0, NothingCounted
    <2>3. sent' <= MaxModelCalls
        <3>1. sent \in {journal.modelCalls, journal.modelCalls + 1} /\ sent <= MaxModelCalls
              /\ disk.modelCalls <= journal.modelCalls
            BY DEF LoopInv
        <3> QED BY <1>0, <2>1, <3>1, LoopBoundsAreNaturals
    <2>4. pc' \notin Unflushed /\ pc' # "streaming"
        BY <2>1 DEF Unflushed
    <2> QED BY <1>0, <2>1, <2>2, <2>3, <2>4 DEF LoopInv
<1>6. CASE EngineStep
    BY <1>6, ModelStepKeeps, LoopStepKeeps DEF EngineStep
<1> QED BY <1>1, <1>2, <1>3, <1>4, <1>5, <1>6 DEF Next, Abort, vars

(* The accounting holds in every reachable state. *)
THEOREM LoopInvHolds == Spec => []LoopInv
<1>1. Init => LoopInv
    <2>1. SUFFICES ASSUME Init PROVE LoopInv
        OBVIOUS
    <2>2. InitialFacts \in Sound /\ InitialFacts.modelCalls = 0 /\ InitialFacts.iteration = 0
        BY DEF InitialFacts, Sound, FactState, Strategies
    <2>3. InitialFacts = [InitialFacts EXCEPT !.modelCalls = InitialFacts.modelCalls + 0,
                                              !.iteration = InitialFacts.iteration]
        BY <2>2, NothingCounted
    <2>4. 0 <= MaxModelCalls
        BY LoopBoundsAreNaturals
    <2> QED BY <2>1, <2>2, <2>3, <2>4 DEF Init, LoopInv, InModelTurn, Unflushed
<1> QED BY <1>1, LoopInvStep, PTL DEF Spec

(* The engine never sends more requests than the model call budget, retries *)
(* of any request included (collectModelTurn).                              *)
THEOREM RequestsStayInBudget == Spec => []BudgetHolds
<1>1. LoopInv => BudgetHolds
    BY DEF LoopInv, BudgetHolds
<1> QED BY <1>1, LoopInvHolds, PTL

(* A crash forgets at most one request: failed attempts are flushed before  *)
(* the backoff, answers before the next request (persistModelAttemptFailure).*)
THEOREM CrashForgetsOneRequest == Spec => []CrashForgetsAtMostOne
<1>1. ASSUME LoopInv PROVE CrashForgetsAtMostOne
    <2>1. journal.modelCalls \in Nat /\ disk.modelCalls \in Nat
        BY <1>1, SoundFields DEF LoopInv
    <2>2. pc = "streaming" => pc \notin Unflushed
        BY DEF Unflushed
    <2> QED BY <1>1, <2>1, <2>2 DEF LoopInv, CrashForgetsAtMostOne
<1> QED BY <1>1, LoopInvHolds, PTL

(* recordReflection is single-flight over every trigger, turn and crash. *)
THEOREM OneReflectionWaits == Spec => []ReflectionsSingleFlight
<1>1. LoopInv => ReflectionsSingleFlight
    BY SoundFields DEF LoopInv, ReflectionsSingleFlight
<1> QED BY <1>1, LoopInvHolds, PTL

(* Between model requests a replay of the journal gives the live state,     *)
(* iteration apart (persistAndReduce, and run() after collectModelTurn).    *)
THEOREM ReplayIsTheLiveState == Spec => []LoopReplayAgrees
<1>1. ASSUME LoopInv, ~ InModelTurn
      PROVE  [journal EXCEPT !.iteration = live.iteration] = live
    <2> DEFINE m == live.modelCalls
               i == journal.iteration
               k == live.iteration
    <2>1. live \in Sound /\ journal \in Sound /\ attempt = 0
        BY <1>1 DEF LoopInv
    <2>2. m = live.modelCalls + attempt
        BY <2>1, SoundFields
    <2>3. journal = [live EXCEPT !.modelCalls = m, !.iteration = i]
        BY <1>1, <2>2 DEF LoopInv
    <2> HIDE DEF i
    <2>4. [[live EXCEPT !.modelCalls = m, !.iteration = i] EXCEPT !.iteration = k] = live
        BY <2>1, SoundFields DEF FactState
    <2> QED BY <2>3, <2>4
<1>2. LoopInv => LoopReplayAgrees
    BY <1>1 DEF LoopReplayAgrees
<1> QED BY <1>2, LoopInvHolds, PTL

-----------------------------------------------------------------------------
(* The variables that are no facts. *)
PcTypes == {"idle", "preflight", "prepare", "calling", "streaming", "backoff",
            "reacting", "batch", "settled", "completion", "verifying",
            "reverifying", "completing", "refused"}
LocalType == [stopHookRetries : Nat, overflowRecovered : BOOLEAN]
OtherTypes ==
    /\ pc \in PcTypes
    /\ local \in LocalType /\ saved \in LocalType
    /\ compactFailures \in Nat /\ runs \in Nat /\ crashes \in Nat
    /\ aborted \in BOOLEAN
    /\ outcome \in Reasons \cup {None, "crashed"}
    /\ lacking \subseteq Criteria

(* The ends of a run *)
LEMMA EndsType ==
    ASSUME NEW s, NEW reason \in Reasons, Terminate(s, reason)
    PROVE  pc' \in PcTypes /\ outcome' \in Reasons \cup {None, "crashed"}
BY DEF Terminate, PcTypes

(* A refused run ends or goes on. *)
LEMMA GiveUpType ==
    ASSUME OtherTypes, GiveUp(live)
    PROVE  pc' \in PcTypes /\ outcome' \in Reasons \cup {None, "crashed"}
BY EndsType DEF GiveUp, OtherTypes, PcTypes, Reasons

(* Each action keeps them. *)
LEMMA OtherTypesStep ==
    ASSUME OtherTypes, [Next]_vars
    PROVE  OtherTypes'
<1> USE DEF OtherTypes
<1>1. CASE StartTurn
    <2>1. local' \in LocalType
        BY <1>1 DEF StartTurn, LocalType
    <2>2. aborted' \in BOOLEAN /\ outcome' = None
        BY <1>1 DEF StartTurn
    <2>3. pc' \in PcTypes /\ runs' \in Nat
        BY <1>1 DEF StartTurn, PcTypes
    <2> QED BY <1>1, <2>1, <2>2, <2>3 DEF StartTurn
<1>2. CASE ContinueRun \/ Abort \/ Drain
    <2>1. aborted' \in BOOLEAN
        BY <1>2 DEF ContinueRun, Abort, Drain
    <2>2. pc' \in PcTypes /\ runs' \in Nat /\ outcome' \in {outcome, None}
        BY <1>2 DEF ContinueRun, Abort, Drain, PcTypes
    <2> QED BY <1>2, <2>1, <2>2 DEF ContinueRun, Abort, Drain
<1>3. CASE CrashAndResume
    <2>1. aborted' \in BOOLEAN
        BY <1>3 DEF CrashAndResume
    <2>2. pc' \in PcTypes /\ crashes' \in Nat /\ compactFailures' \in Nat
        BY <1>3 DEF CrashAndResume, PcTypes
    <2> QED BY <1>3, <2>1, <2>2 DEF CrashAndResume
<1>4. CASE SendRequest \/ StreamTurn
    BY <1>4 DEF SendRequest, StreamTurn, PcTypes
<1>5. CASE StreamAborted \/ EndBackoff
    <2>1. pc' \in PcTypes /\ outcome' \in Reasons \cup {None, "crashed"}
        BY <1>5, EndsType DEF StreamAborted, EndBackoff, PcTypes, Reasons
    <2> QED BY <1>5, <2>1 DEF StreamAborted, EndBackoff
<1>6. CASE PromptTooLong \/ SurfaceError \/ RetryError
    BY <1>6 DEF PromptTooLong, SurfaceError, RetryError, PcTypes, Reasons
<1>7. CASE ReactiveCompact
    <2>1. local' \in LocalType
        BY <1>7 DEF ReactiveCompact, LocalType
    <2>2. pc' \in PcTypes /\ compactFailures' \in Nat
        BY <1>7 DEF ReactiveCompact, Summarised, PcTypes
    <2> QED BY <1>7, <2>1, <2>2 DEF ReactiveCompact
<1>8. CASE StopAtPreflight
    <2>1. PICK reason \in PreflightReasons(live) \cup {"budget_exhausted"} : Terminate(live, reason)
        BY <1>8 DEF StopAtPreflight
    <2>2. reason \in Reasons
        BY <2>1 DEF PreflightReasons, Reasons
    <2>3. pc' \in PcTypes /\ outcome' \in Reasons \cup {None, "crashed"}
        BY <2>1, <2>2, EndsType
    <2> QED BY <1>8, <2>3 DEF StopAtPreflight
<1>9. CASE PrepareContext
    BY <1>9 DEF PrepareContext, Summarised, PcTypes
<1>10. CASE Supervise \/ SettleBatch \/ ReflectOnCompletion
    BY <1>10 DEF Supervise, SettleBatch, ReflectOnCompletion, PcTypes
<1>11. CASE RunBatch
    <2>1. saved' \in {local, saved}
        BY <1>11 DEF RunBatch
    <2> QED BY <1>11, <2>1 DEF RunBatch, PcTypes
<1>12. CASE GateContinues
    <2>1. pc' \in PcTypes /\ outcome' \in Reasons \cup {None, "crashed"}
        BY <1>12, EndsType DEF GateContinues, PcTypes, Reasons
    <2>2. local' \in LocalType
        BY <1>12 DEF GateContinues, LocalType
    <2> QED BY <1>12, <2>1, <2>2 DEF GateContinues
<1>13. CASE GateAccepts
    <2>1. pc' \in PcTypes /\ outcome' \in Reasons \cup {None, "crashed"}
        BY <1>13, EndsType, GiveUpType DEF GateAccepts, PcTypes, Reasons
    <2> QED BY <1>13, <2>1 DEF GateAccepts
<1>14. CASE Verify
    <2>1. PICK report \in Accepted : Conclude(report.verdict) /\ lacking' = report.lacking
        BY <1>14 DEF Verify
    <2>2. PICK r \in Reports : report = [verdict |-> r.verdict, lacking |-> Lacking(r)]
        BY <2>1 DEF Accepted
    <2>3. lacking' \subseteq Criteria
        BY <2>1, <2>2 DEF Lacking, WithoutEvidence
    <2>4. pc' \in PcTypes
        BY <2>1 DEF Conclude, PcTypes
    <2> QED BY <1>14, <2>3, <2>4 DEF Verify
<1>15. CASE RejectReport
    <2>1. pc' \in PcTypes
        BY <1>15 DEF RejectReport, Conclude, PcTypes
    <2> QED BY <1>15, <2>1 DEF RejectReport
<1>16. CASE AfterVerdict
    <2>1. pc' \in PcTypes /\ outcome' \in Reasons \cup {None, "crashed"}
        BY <1>16, EndsType, GiveUpType DEF AfterVerdict, Reasons
    <2> QED BY <1>16, <2>1 DEF AfterVerdict
<1>17. CASE UNCHANGED vars
    BY <1>17 DEF vars
<1> QED BY <1>1, <1>2, <1>3, <1>4, <1>5, <1>6, <1>7, <1>8, <1>9, <1>10, <1>11, <1>12, <1>13,
           <1>14, <1>15, <1>16, <1>17 DEF Next, EngineStep, ModelStep, LoopStep

(* The variables of the loop have their types in every reachable state. *)
THEOREM LoopTypeCorrect == Spec => []TypeOK
<1>1. Init => OtherTypes
    <2>1. InitialLocal \in LocalType
        BY DEF InitialLocal, LocalType
    <2>2. Init => aborted \in BOOLEAN
        BY DEF Init
    <2> QED BY <2>1, <2>2 DEF Init, OtherTypes, PcTypes
<1>2. ASSUME LoopInv, OtherTypes
      PROVE  TypeOK
    <2>1. {live, journal, disk} \subseteq FactState
        BY <1>2, SoundFields DEF LoopInv
    <2>2. sent \in Nat /\ attempt \in Nat
        BY <1>2, SoundFields DEF LoopInv
    <2> QED BY <1>2, <2>1, <2>2 DEF TypeOK, OtherTypes, PcTypes, LocalType
<1> QED BY <1>1, <1>2, OtherTypesStep, LoopInvHolds, PTL DEF Spec
=============================================================================
