----------------------------- MODULE Calibration -----------------------------
(***************************************************************************)
(* What sessions of one workspace learn from each other.  A session records *)
(* reflections and their outcomes in its journal (core/AgentEngine.ts); the *)
(* next one scans those journals when it boots, condenses them to a profile *)
(* (planning/OutcomeCalibration.ts), pins the profile with its sources in   *)
(* its own journal (OutcomeCalibrationContract.ts, app/createRuntime.ts)    *)
(* and shifts the observation window of its reflections by it.  Sessions    *)
(* run side by side, crash at any step of their boot, are resumed with      *)
(* calibration on or off, are damaged on disk and then forked into a        *)
(* degraded branch (cli/main.ts, session/recoveryCheck.ts).                 *)
(*                                                                         *)
(* Every fact here is flushed.  A hash stands for what is hashed.  A scan   *)
(* reads the journals in one step: each source carries how far it was read. *)
(***************************************************************************)
EXTENDS Naturals, Sequences, FiniteSets, FiniteSetsExt

CONSTANTS
    None,
    Sessions,                  \* ids, in the order of their text; 0 is none
    Triggers, Actions,
    Window,                    \* config.intelligence.reflectionEvaluationWindow
    MinSamples, MaxSessions,
    MaxClock,
    MaxUsed                    \* bounds on used

ASSUME SessionsAssumption == Sessions \subseteq Nat \ {0}
ASSUME ConfigAssumption ==
    Window \in 1..20 /\ MinSamples \in 1..100 /\ MaxSessions \in 1..500

VARIABLES
    journal,    \* of each session
    phase,      \* new, down, booting, started, opening, running, failed
    boot,       \* what createRuntime holds until the session is open
    live,       \* AgentState: selection, reflections, evaluated
    clock,
    used        \* how many boots, faults, reflections, snapshots there were

calibrationVars == <<journal, phase, boot, live, clock, used>>

Clamp(n) == IF n < 1 THEN 1 ELSE IF n > 20 THEN 20 ELSE n
OfType(facts, type) == {i \in DOMAIN facts : facts[i].type = type}

Budgets == {"boots", "faults", "reflections", "snapshots"}
ASSUME BoundsAssumption == MaxClock \in Nat /\ MaxUsed \in [Budgets -> Nat]

Use(budgets) ==
    /\ \A b \in budgets : used[b] < MaxUsed[b]
    /\ used' = [b \in Budgets |-> used[b] + IF b \in budgets THEN 1 ELSE 0]

Empty == [selection |-> None, reflections |-> {}, evaluated |-> {}]
NoBoot == [selection |-> None, pinned |-> FALSE, enabled |-> FALSE, from |-> 0, length |-> 0]

CalibrationInit ==
    /\ journal = [s \in Sessions |-> <<>>]
    /\ phase = [s \in Sessions |-> "new"]
    /\ boot = [s \in Sessions |-> NoBoot]
    /\ live = [s \in Sessions |-> Empty]
    /\ clock = 0 /\ used = [b \in Budgets |-> 0]

-----------------------------------------------------------------------------
(* The profile.  Rates are in ten-thousandths, rounded half up. *)
Rate(effective, n) == (20000 * (effective + 1) + n + 2) \div (2 * (n + 2))

Newest(S, n) == {t \in S : Cardinality({u \in S : u > t}) < n}

Entry(group) ==
    LET any == CHOOSE x \in group : TRUE
        effective == Cardinality({x \in group : x.outcome = "effective"}) IN
    [trigger |-> any.trigger, action |-> any.action, samples |-> Cardinality(group),
     effective |-> effective, rate |-> Rate(effective, Cardinality(group))]

BuildProfile(samples) ==
    LET selected == Newest({x.session : x \in samples}, MaxSessions)
        accepted == {x \in samples : x.session \in selected}
        Group(x) == {y \in accepted : y.trigger = x.trigger /\ y.action = x.action} IN
    [sourceSessions |-> Cardinality(selected), pairedOutcomes |-> Cardinality(accepted),
     entries |-> {Entry(Group(x)) : x \in accepted}]

SumOver(S, size(_)) == FoldSet(LAMBDA x, n : n + size(x), 0, S)

(* isOutcomeCalibrationProfile, isOutcomeCalibrationSelection *)
IsEntry(e) ==
    e.samples > 0 /\ e.effective \in 0..e.samples /\ e.rate = Rate(e.effective, e.samples)
IsProfile(p) ==
    /\ p.sourceSessions <= MaxSessions /\ p.sourceSessions <= p.pairedOutcomes
    /\ p.pairedOutcomes = SumOver(p.entries, LAMBDA e : e.samples)
    /\ Cardinality({<<e.trigger, e.action>> : e \in p.entries}) = Cardinality(p.entries)
    /\ \A e \in p.entries : IsEntry(e)
IsSource(a) == a.through > 0 /\ a.samples # {}
IsSelection(x) ==
    /\ IsProfile(x.profile)
    /\ \A a, b \in x.sources : a.session = b.session => a = b
    /\ \A a \in x.sources : IsSource(a)
    /\ Cardinality(x.sources) = x.profile.sourceSessions
    /\ SumOver(x.sources, LAMBDA a : Cardinality(a.samples)) = x.profile.pairedOutcomes
    /\ (x.status = "complete") = (x.sources # {})

(* matchOutcomeCalibration: no entry, or too few samples, changes nothing *)
Matching(p, trigger, action) ==
    {e \in p.entries : e.trigger = trigger /\ e.action = action /\ e.samples >= MinSamples}
Shift(e, window) ==
    IF e.rate >= 7500 THEN Clamp(window + 1)
    ELSE IF e.rate <= 4000 THEN Clamp(window - 1) ELSE window

-----------------------------------------------------------------------------
(* The reducer, and the dry replay before a resume. *)

(* validReflectionCalibration: an attribution is to the session's selection, *)
(* and the window is the one that follows from it.                           *)
ValidCalibration(s, r) ==
    r.calibration # None =>
        /\ s.selection # None /\ r.calibration = s.selection
        /\ Matching(s.selection.profile, r.trigger, r.action) # {}
        /\ \A e \in Matching(s.selection.profile, r.trigger, r.action) :
                r.window = Shift(e, r.base)

Accepts(s, f) ==
    CASE f.type = "selected" -> s.selection = None /\ IsSelection(f.selection)
      [] f.type = "recorded" ->
            /\ \A r \in s.reflections : r.id # f.reflection.id
            /\ f.reflection.window \in 1..20
            /\ ValidCalibration(s, f.reflection)
      [] f.type = "evaluated" ->
            /\ f.id \notin s.evaluated
            /\ \E r \in s.reflections :
                r.id = f.id /\ (f.outcome = "ineffective" => f.observed >= r.window)
      [] OTHER -> TRUE

Reduce(s, f) ==
    CASE f.type = "selected" -> [s EXCEPT !.selection = f.selection]
      [] f.type = "recorded" -> [s EXCEPT !.reflections = @ \cup {f.reflection}]
      [] f.type = "evaluated" -> [s EXCEPT !.evaluated = @ \cup {f.id}]
      [] OTHER -> s

(* [state, ok]: strict replay stops at the first fact that is refused. *)
ReplayFrom(start, facts) ==
    LET after[i \in 0..Len(facts)] ==
        IF i = 0 THEN [state |-> start, ok |-> TRUE]
        ELSE LET before == after[i - 1] IN
             IF before.ok /\ Accepts(before.state, facts[i])
             THEN [state |-> Reduce(before.state, facts[i]), ok |-> TRUE]
             ELSE [before EXCEPT !.ok = FALSE]
    IN  after[Len(facts)]

(* loadSession: the facts before the first line that is not intact *)
Load(facts) ==
    LET bad == OfType(facts, "corrupt") IN
    IF bad = {} THEN facts ELSE SubSeq(facts, 1, Min(bad) - 1)
Intact(facts) == OfType(facts, "corrupt") = {}

SelectionOf(facts) ==
    LET at == OfType(facts, "selected") IN
    IF at = {} THEN None ELSE facts[Min(at)].selection

(* The last snapshot holds the selection made before it, and no other. *)
SnapshotMatches(facts) ==
    LET at == OfType(facts, "snapshot") IN
    at # {} => LET snapshot == facts[Max(at)] IN
               snapshot.state.selection = SelectionOf(SubSeq(facts, 1, snapshot.lastSeq))

Replay(facts) ==
    LET at == OfType(facts, "snapshot") IN
    IF at = {} THEN ReplayFrom(Empty, facts)
    ELSE LET snapshot == facts[Max(at)] IN
         ReplayFrom(snapshot.state, SubSeq(facts, snapshot.lastSeq + 1, Len(facts)))

(* diagnoseSession *)
Diagnosed(facts) ==
    /\ Intact(facts)
    /\ Cardinality(OfType(facts, "selected")) <= 1
    /\ SnapshotMatches(facts)
    /\ Replay(facts).ok

-----------------------------------------------------------------------------
(* The scan. *)

(* The lifecycle the scan reads off a journal: one open reflection at a     *)
(* time, each evaluated once.                                               *)
Lifecycle(session, facts) ==
    LET after[i \in 0..Len(facts)] ==
        IF i = 0 THEN [open |-> None, ids |-> {}, samples |-> {}, valid |-> TRUE]
        ELSE LET l == after[i - 1] f == facts[i] IN
             CASE f.type = "recorded" ->
                    IF l.open # None \/ f.reflection.id \in l.ids
                    THEN [l EXCEPT !.valid = FALSE]
                    ELSE [l EXCEPT !.open = f.reflection, !.ids = @ \cup {f.reflection.id}]
               [] f.type = "evaluated" ->
                    IF l.open = None THEN [l EXCEPT !.valid = FALSE]
                    ELSE IF l.open.id # f.id THEN [l EXCEPT !.valid = FALSE]
                    ELSE [l EXCEPT !.open = None, !.samples = @ \cup
                            {[session |-> session, id |-> f.id, trigger |-> l.open.trigger,
                              action |-> l.open.action, outcome |-> f.outcome]}]
               [] OTHER -> l
    IN  after[Len(facts)]

(* Faulty variant: a source counts as read to its end. *)
ReadToTheEnd(facts, cutoff) == Len(facts)

Through(facts, cutoff) == Max({0} \cup {i \in DOMAIN facts : facts[i].time <= cutoff})

(* Envelopes after the cutoff are passed over. *)
Before(facts, cutoff) ==
    LET kept[i \in 0..Len(facts)] ==
        IF i = 0 THEN <<>>
        ELSE IF facts[i].time <= cutoff THEN Append(kept[i - 1], facts[i]) ELSE kept[i - 1]
    IN  kept[Len(facts)]

(* readFirstEnvelopeTimestamp, and the run.started the journal begins with *)
BeganInTime(facts, cutoff) ==
    facts # <<>> /\ facts[1].type = "run" /\ facts[1].time <= cutoff

Usable(t, cutoff) ==
    LET facts == journal[t]
        life == Lifecycle(t, Before(facts, cutoff)) IN
    /\ BeganInTime(facts, cutoff) /\ Intact(facts)
    /\ Diagnosed(facts) /\ ReplayFrom(Empty, facts).ok
    /\ OfType(facts, "branch") = {}
    /\ life.valid /\ life.samples # {}

Source(t, cutoff) ==
    [session |-> t, through |-> Through(journal[t], cutoff),
     samples |-> Lifecycle(t, Before(journal[t], cutoff)).samples]

(* From the newest id down, until MaxSessions usable ones are found *)
Scan(s, cutoff) ==
    {Source(t, cutoff) :
        t \in Newest({u \in Sessions \ {s} : Usable(u, cutoff)}, MaxSessions)}

(* buildOutcomeCalibrationSelection of what the scan found *)
Selection(origin, cutoff, sources, readable) ==
    [origin |-> origin, cutoff |-> cutoff, sources |-> sources,
     status |-> IF ~ readable THEN "history_unavailable"
                ELSE IF sources = {} THEN "no_history" ELSE "complete",
     profile |-> BuildProfile(UNION {x.samples : x \in sources})]

-----------------------------------------------------------------------------
(* A boot. *)
AppendTo(s, fact) == journal' = [journal EXCEPT ![s] = Append(@, fact)]

(* Faulty variant: the cutoff is now, also for a session with a past. *)
CutoffIsNow(loaded) == clock

Cutoff(loaded) == IF loaded = <<>> THEN clock ELSE loaded[1].time

(* Faulty variant: a resumed session scans again. *)
NeverPersisted(loaded, fork) == None

Persisted(loaded, fork) == IF fork THEN None ELSE SelectionOf(loaded)

Pinned(loaded, persisted) == persisted # None

(* createRuntime: load, scan and build, in from's journal when it forks *)
Start(s, from, enabled, readable) ==
    LET loaded == Load(journal[from])
        cutoff == Cutoff(loaded)
        persisted == Persisted(loaded, from # s)
        sources == IF readable THEN Scan(s, cutoff) ELSE {}
        origin == IF loaded = <<>> THEN "history_scan" ELSE "legacy_backfill" IN
    /\ Use(IF readable THEN {"boots"} ELSE {"boots", "faults"})
    /\ phase' = [phase EXCEPT ![s] = "booting"]
    /\ boot' = [boot EXCEPT ![s] =
            [selection |-> IF persisted # None THEN persisted
                           ELSE IF enabled THEN Selection(origin, cutoff, sources, readable)
                           ELSE None,
             pinned |-> Pinned(loaded, persisted), enabled |-> enabled,
             from |-> from, length |-> Len(loaded)]]
    /\ UNCHANGED <<journal, live, clock>>

(* Ids begin with the time they are made at. *)
NextId(s) == phase[s] = "new" /\ \A t \in Sessions : t < s => phase[t] # "new"

(* A new session, or the resume of one that passes its diagnosis *)
Boot(s, enabled, readable) ==
    /\ NextId(s) \/ phase[s] = "down"
    /\ enabled \/ readable
    /\ Diagnosed(journal[s])
    /\ Start(s, s, enabled, readable)

(* --allow-degraded: a new session from the journal that does not pass *)
Fork(s, from, enabled) ==
    /\ NextId(s) /\ phase[from] = "down"
    /\ ~ Diagnosed(journal[from])
    /\ Start(s, from, enabled, TRUE)

StartRun(s) ==
    /\ phase[s] = "booting"
    /\ AppendTo(s, [type |-> "run", time |-> clock])
    /\ phase' = [phase EXCEPT ![s] = "started"]
    /\ UNCHANGED <<boot, live, clock, used>>

PinSelection(s) ==
    /\ phase[s] = "started"
    /\ IF boot[s].selection # None /\ ~ boot[s].pinned
       THEN AppendTo(s, [type |-> "selected", time |-> clock, selection |-> boot[s].selection])
       ELSE UNCHANGED journal
    /\ phase' = [phase EXCEPT ![s] = "opening"]
    /\ UNCHANGED <<boot, live, clock, used>>

(* Faulty variant: a selection made by this boot does not reach the state. *)
OpenWithLoaded(s) ==
    LET b == boot[s]
        recovered == Replay(SubSeq(journal[b.from], 1, b.length)).state IN
    /\ phase[s] = "opening"
    /\ phase' = [phase EXCEPT ![s] = "running"]
    /\ live' = [live EXCEPT ![s] = recovered]
    /\ IF b.from # s /\ b.length > 0
       THEN AppendTo(s, [type |-> "branch", time |-> clock])
       ELSE UNCHANGED journal
    /\ UNCHANGED <<boot, clock, used>>

(* resumeState on what was loaded, then the branch fact of a fork.  A       *)
(* selection that is not the one of the runtime throws out of main().       *)
Open(s) ==
    LET b == boot[s]
        recovered == Replay(SubSeq(journal[b.from], 1, b.length)).state
        chosen == b.selection IN
    /\ phase[s] = "opening"
    /\ IF chosen # None /\ recovered.selection \notin {None, chosen}
       THEN phase' = [phase EXCEPT ![s] = "failed"] /\ UNCHANGED <<journal, live>>
       ELSE /\ phase' = [phase EXCEPT ![s] = "running"]
            /\ live' = [live EXCEPT ![s] =
                    IF chosen = None THEN recovered ELSE [recovered EXCEPT !.selection = chosen]]
            /\ IF b.from # s /\ b.length > 0
               THEN AppendTo(s, [type |-> "branch", time |-> clock])
               ELSE UNCHANGED journal
    /\ UNCHANGED <<boot, clock, used>>

-----------------------------------------------------------------------------
(* A running session. *)
Pending(s) == {r \in live[s].reflections : r.id \notin live[s].evaluated}

Write(s, fact) ==
    /\ AppendTo(s, fact)
    /\ live' = [live EXCEPT ![s] = Reduce(@, fact)]
    /\ UNCHANGED <<phase, boot, clock>>

(* calibrateReflectionDecision: only the window changes *)
Calibrated(s, trigger, action) ==
    LET selection == live[s].selection
        fits == IF ~ boot[s].enabled \/ selection = None THEN {}
                ELSE Matching(selection.profile, trigger, action)
        base == Window IN
    [id |-> <<s, Len(journal[s]) + 1>>, trigger |-> trigger, action |-> action, base |-> base,
     window |-> IF fits = {} THEN base ELSE Shift(CHOOSE e \in fits : TRUE, base),
     calibration |-> IF fits = {} THEN None ELSE selection]

Unblocked(s) == Pending(s) = {}

(* The supervisor's action is any; recordReflection is single-flight. *)
Record(s, trigger, action) ==
    /\ phase[s] = "running"
    /\ Unblocked(s)
    /\ Use({"reflections"})
    /\ Write(s, [type |-> "recorded", time |-> clock,
                 reflection |-> Calibrated(s, trigger, action)])

(* evaluateReflectionEffect: progress at once, or none for the window *)
Evaluate(s, outcome) ==
    /\ phase[s] = "running"
    /\ UNCHANGED used
    /\ \E r \in Pending(s) :
        Write(s, [type |-> "evaluated", time |-> clock, id |-> r.id, outcome |-> outcome,
                  observed |-> IF outcome = "effective" THEN 1 ELSE r.window])

Snapshot(s) ==
    /\ phase[s] = "running"
    /\ Use({"snapshots"})
    /\ Write(s, [type |-> "snapshot", time |-> clock, state |-> live[s],
                 lastSeq |-> Len(journal[s])])

(* The process ends, at any step; main() has ended one that failed. *)
Stop(s) ==
    /\ phase[s] \notin {"new", "down"}
    /\ phase' = [phase EXCEPT ![s] = IF journal[s] = <<>> THEN "new" ELSE "down"]
    /\ boot' = [boot EXCEPT ![s] = NoBoot]
    /\ live' = [live EXCEPT ![s] = Empty]
    /\ UNCHANGED <<journal, clock, used>>

(* A line of the journal of a session that is not running is damaged. *)
Damage(s, i) ==
    /\ phase[s] = "down"
    /\ Use({"faults"})
    /\ journal' = [journal EXCEPT ![s][i] = [type |-> "corrupt"]]
    /\ UNCHANGED <<phase, boot, live, clock>>

Tick ==
    /\ clock < MaxClock
    /\ clock' = clock + 1
    /\ UNCHANGED <<journal, phase, boot, live, used>>

CalibrationNext ==
    \/ \E s \in Sessions :
        \/ \E enabled, readable \in BOOLEAN : Boot(s, enabled, readable)
        \/ \E from \in Sessions, enabled \in BOOLEAN : Fork(s, from, enabled)
        \/ StartRun(s) \/ PinSelection(s) \/ Open(s)
        \/ \E trigger \in Triggers, action \in Actions : Record(s, trigger, action)
        \/ \E outcome \in {"effective", "ineffective"} : Evaluate(s, outcome)
        \/ Snapshot(s)
        \/ Stop(s)
        \/ \E i \in DOMAIN journal[s] : Damage(s, i)
    \/ Tick

CalibrationSpec == CalibrationInit /\ [][CalibrationNext]_calibrationVars

-----------------------------------------------------------------------------
(* The variables have their types. *)
Phases == {"new", "down", "booting", "started", "opening", "running", "failed"}
CalibrationTypeOK ==
    /\ phase \in [Sessions -> Phases]
    /\ \A s \in Sessions :
        /\ phase[s] = "new" <=> journal[s] = <<>> /\ boot[s] = NoBoot
        /\ boot[s].pinned => boot[s].selection # None
        /\ phase[s] # "running" => live[s] = Empty
        /\ \A r \in live[s].reflections : r.window \in 1..20
    /\ clock \in 0..MaxClock /\ \A b \in Budgets : used[b] \in 0..MaxUsed[b]

(* Journals that are neither damaged nor of a degraded branch *)
Ordinary(s) == Intact(journal[s]) /\ OfType(journal[s], "branch") = {}

(* Whatever a session does over any number of boots, with calibration on or *)
(* off and a crash between any two facts, its journal can be resumed and    *)
(* replayed in full: at most one selection, every attribution to it.        *)
ResumeAccepted ==
    \A s \in Sessions : phase[s] = "down" /\ Ordinary(s) =>
        Diagnosed(journal[s]) /\ ReplayFrom(Empty, journal[s]).ok

(* A running session works with what its journal says: snapshot, tail and   *)
(* the selection this boot made give the state of a full replay.            *)
LiveIsReplay ==
    \A s \in Sessions : phase[s] = "running" /\ Ordinary(s) =>
        live[s] = ReplayFrom(Empty, journal[s]).state

(* Nothing a session learns from happened after it began, nor in itself,    *)
(* also when the selection is made by a later boot.                         *)
HistoryIsPast ==
    \A s \in Sessions : LET x == SelectionOf(Load(journal[s])) IN
        Ordinary(s) /\ x # None => \A a \in x.sources :
            /\ a.session # s
            /\ Intact(journal[a.session]) => \A i \in OfType(journal[a.session], "evaluated") :
                    journal[a.session][i].id \in {y.id : y \in a.samples}
                        => journal[a.session][i].time <= journal[s][1].time

(* A pinned selection can be audited: its sources, read as far as it says,  *)
(* still hold the samples it counted, however they went on since.           *)
ProvenanceHolds ==
    \A s \in Sessions : LET x == SelectionOf(Load(journal[s])) IN
        x # None => \A a \in x.sources : Intact(journal[a.session]) =>
            Lifecycle(a.session, SubSeq(journal[a.session], 1, a.through)).samples = a.samples

(* cli/main.ts: "the agent forks a read-only recovery branch into a new     *)
(* session".                                                                *)
DegradedBranchOpens == \A s \in Sessions : phase[s] # "failed"
=============================================================================
