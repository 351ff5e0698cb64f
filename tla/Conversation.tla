----------------------------- MODULE Conversation -----------------------------
(***************************************************************************)
(* The conversation of a session: the messages sent to the model, how the  *)
(* context manager shortens them (context/ContextManager.ts), the facts    *)
(* that carry both in the journal, and how a crashed session is put        *)
(* together again: the loader's own replay (session/SessionLoader.ts), the *)
(* dry replay (session/recoveryCheck.ts), the snapshot and tail replay and *)
(* the recovery facts of resumeState (app/createRuntime.ts).               *)
(*                                                                         *)
(* A message is its identifier, its kind, the calls it requests or answers *)
(* and its size; the calls of a batch run in any order.  The integrity of  *)
(* journal lines is the subject of SessionJournal: here a crash leaves a   *)
(* prefix of the facts that holds every flushed one.                       *)
(***************************************************************************)
EXTENDS Naturals, Sequences, FiniteSets, SequencesExt, FiniteSetsExt

CONSTANTS
    Calls,
    Reissue,          \* the gateway sends no call ids: call_1, call_2 again
    Budget, TailMessages, TailTokens, CompactFailureLimit,
    MaxHumans, MaxBatches, MaxNotes, MaxSnapshots, MaxCompactions, MaxCrashes

ASSUME ConversationBounds ==
    /\ {Budget, TailMessages, TailTokens, CompactFailureLimit, MaxHumans,
        MaxBatches, MaxNotes, MaxSnapshots, MaxCompactions, MaxCrashes} \subseteq Nat
    /\ Reissue \in BOOLEAN
    /\ IsFiniteSet(Calls)

VARIABLES
    pc,         \* ready (loop head), executing, down, recovering
    live,       \* AgentState: messages, pendingToolCalls, toolResults
    file,       \* the facts appended to the journal
    durable,    \* how many of them are flushed
    batch,      \* the calls of the batch being executed, not yet accepted
    recovery,   \* the recovery facts resumeState still has to append
    failures,   \* ContextManager.compactFailures
    nextId,     \* message identifiers
    goal,       \* the latest human message
    notes,      \* the messages the engine injected
    crashes

vars == <<pc, live, file, durable, batch, recovery, failures, nextId, goal,
          notes, crashes>>

Kinds == {"human", "note", "assistant", "tool", "recovery", "summary"}
Big == 4
Message == [id : Nat, kind : Kinds, calls : SUBSET Calls, size : {1, Big}]
Answers(m) == IF m.kind \in {"tool", "recovery"} THEN m.calls ELSE {}
Requests(m) == IF m.kind = "assistant" THEN m.calls ELSE {}

Count(P(_)) == Cardinality({i \in DOMAIN file : P(file[i])})

Empty == [messages |-> <<>>, pending |-> {}, results |-> {}]

Init ==
    /\ pc = "ready"
    /\ live = Empty
    /\ file = <<>> /\ durable = 0
    /\ batch = {}
    /\ recovery = <<>>
    /\ failures = 0
    /\ nextId = 1
    /\ goal = 0 /\ notes = {}
    /\ crashes = 0

-----------------------------------------------------------------------------
(* The reducer. *)

(* The messages at some positions, in their order *)
Picked(ms, at) ==
    LET picked[i \in 0..Len(ms)] ==
        IF i = 0 THEN <<>>
        ELSE IF i \in at THEN Append(picked[i - 1], ms[i]) ELSE picked[i - 1]
    IN  picked[Len(ms)]
ClearedAt(ms, cleared) == {i \in DOMAIN ms : ms[i].id \in cleared}

(* Faulty variant: the replacements go to the end of the conversation. *)
ReplaceAtEnd(ms, cleared, replacements) ==
    Picked(ms, DOMAIN ms \ ClearedAt(ms, cleared)) \o replacements

(* All replacements stand where the first cleared message stood. *)
Replace(ms, cleared, replacements) ==
    LET at == ClearedAt(ms, cleared)
        first == Min(at) IN
    IF at = {} THEN ms \o replacements
    ELSE SubSeq(ms, 1, first - 1) \o replacements
            \o Picked(ms, {i \in DOMAIN ms : i > first} \ at)

Refused(s, f) ==
    \/ f.type = "accepted" /\ f.call \in s.pending
    \/ f.type = "completed" /\ f.call \in s.results

Reduce(s, f) ==
    CASE f.type = "message" -> [s EXCEPT !.messages = Append(@, f.message)]
      [] f.type = "accepted" -> [s EXCEPT !.pending = @ \cup {f.call},
                                          !.results = @ \ {f.call}]
      [] f.type = "completed" -> [s EXCEPT !.pending = @ \ {f.call},
                                           !.results = @ \cup {f.call}]
      [] f.type = "compacted" ->
            [s EXCEPT !.messages = Replace(@, f.cleared, f.replacements)]
      [] f.type = "snapshot" -> s

ReduceAll(s, facts) ==
    LET after[i \in 0..Len(facts)] == IF i = 0 THEN s ELSE Reduce(after[i - 1], facts[i])
    IN  after[Len(facts)]

(* persistAndReduce for facts appended together; the last one is flushed *)
(* or none is.                                                           *)
Persist(facts, flush) ==
    /\ file' = file \o facts
    /\ live' = ReduceAll(live, facts)
    /\ durable' = IF flush THEN Len(file') ELSE durable

MessageFact(m) == [type |-> "message", message |-> m]
NewMessage(kind, calls, size) ==
    [id |-> nextId, kind |-> kind, calls |-> calls, size |-> size]

-----------------------------------------------------------------------------
(* A turn: the human's message, notes of the engine, answers of the model   *)
(* and tool batches.                                                        *)
Sent(kind) == Count(LAMBDA f : f.type = "message" /\ f.message.kind = kind)

AcceptHuman ==
    /\ pc = "ready"
    /\ Sent("human") < MaxHumans
    /\ Persist(<<MessageFact(NewMessage("human", {}, 1))>>, TRUE)
    /\ goal' = nextId
    /\ nextId' = nextId + 1
    /\ UNCHANGED <<pc, batch, recovery, failures, notes, crashes>>

(* makeEngineMessage: repairs, replans, stop hooks, constraint hints *)
InjectNote ==
    /\ pc = "ready"
    /\ goal # 0
    /\ Sent("note") < MaxNotes
    /\ Persist(<<MessageFact(NewMessage("note", {}, 1))>>, TRUE)
    /\ notes' = notes \cup {nextId}
    /\ nextId' = nextId + 1
    /\ UNCHANGED <<pc, batch, recovery, failures, goal, crashes>>

Used == UNION {Requests(file[i].message) :
                   i \in {j \in DOMAIN file : file[j].type = "message"}}

(* The model asks for a batch.  Its identifiers are the gateway's, fresh    *)
(* ones, or call_<index> where the gateway sends none.                      *)
RequestBatch(calls) ==
    /\ pc = "ready"
    /\ goal # 0
    /\ Sent("assistant") < MaxBatches
    /\ Reissue \/ calls \cap Used = {}
    /\ Persist(<<MessageFact(NewMessage("assistant", calls, 1))>>, FALSE)
    /\ batch' = calls
    /\ nextId' = nextId + 1
    /\ pc' = "executing"
    /\ UNCHANGED <<recovery, failures, goal, notes, crashes>>

AcceptCall(c) ==
    /\ pc = "executing"
    /\ c \in batch
    /\ Persist(<<[type |-> "accepted", call |-> c]>>, TRUE)
    /\ batch' = batch \ {c}
    /\ UNCHANGED <<pc, recovery, failures, nextId, goal, notes, crashes>>

CompleteCall(c) ==
    /\ pc = "executing"
    /\ batch = {}
    /\ c \in live.pending
    /\ Persist(<<[type |-> "completed", call |-> c]>>, TRUE)
    /\ UNCHANGED <<pc, batch, recovery, failures, nextId, goal, notes, crashes>>

(* The one message with the results of the whole batch *)
AnswerBatch(size) ==
    /\ pc = "executing"
    /\ batch = {} /\ live.pending = {}
    /\ Persist(<<MessageFact(NewMessage("tool", Last(live.messages).calls, size))>>, FALSE)
    /\ nextId' = nextId + 1
    /\ pc' = "ready"
    /\ UNCHANGED <<batch, recovery, failures, goal, notes, crashes>>

(* createSnapshot with lastSeq = journal.currentSeq, after a batch *)
TakeSnapshot ==
    /\ pc = "ready"
    /\ live.messages # <<>> /\ Last(live.messages).kind = "tool"
    /\ Count(LAMBDA f : f.type = "snapshot") < MaxSnapshots
    /\ Persist(<<[type |-> "snapshot", state |-> live, lastSeq |-> Len(file)]>>, TRUE)
    /\ UNCHANGED <<pc, batch, recovery, failures, nextId, goal, notes, crashes>>

-----------------------------------------------------------------------------
(* The context manager. *)
Estimate(ms) ==
    LET big == Cardinality({i \in DOMAIN ms : ms[i].size = Big}) IN
    Big * big + Len(ms) - big

(* First protected index: the higher of the two boundaries. *)
TailBoundary(ms) ==
    LET messageBoundary == Max({1, Len(ms) - TailMessages + 1})
        tokenBoundary == Min({i \in 1..Len(ms) + 1 :
                                 Estimate(SubSeq(ms, i, Len(ms))) <= TailTokens})
    IN  Max({tokenBoundary, messageBoundary})

LatestHuman(ms) == Max({0} \cup {i \in DOMAIN ms : ms[i].kind = "human"})

(* Faulty variant: only the messages of the engine are protected. *)
IsNote(ms, i) == ms[i].kind = "note"

Incompressible(ms, i) == ms[i].kind = "note" \/ i = LatestHuman(ms)

(* microCompact: old large tool results are replaced one for one. *)
MicroCleared(ms) ==
    {i \in DOMAIN ms : /\ i < TailBoundary(ms)
                       /\ ~ Incompressible(ms, i)
                       /\ ms[i].kind = "tool" /\ ms[i].size = Big}

Shortened(ms, i) ==
    [ms[i] EXCEPT !.id = nextId + Cardinality({j \in MicroCleared(ms) : j < i}),
                  !.size = 1]
MicroMessages(ms) ==
    [i \in DOMAIN ms |-> IF i \in MicroCleared(ms) THEN Shortened(ms, i) ELSE ms[i]]
MicroFacts(ms) ==
    IF MicroCleared(ms) = {} THEN <<>>
    ELSE <<[type |-> "compacted",
            cleared |-> {ms[i].id : i \in MicroCleared(ms)},
            replacements |-> Picked(MicroMessages(ms), MicroCleared(ms))]>>

(* The summary takes every compressible message before the tail. *)
AutoCleared(ms) == {i \in 1..TailBoundary(ms) - 1 : ~ Incompressible(ms, i)}
AutoFact(ms, id) ==
    [type |-> "compacted",
     cleared |-> {ms[i].id : i \in AutoCleared(ms)},
     replacements |-> <<[id |-> id, kind |-> "summary", calls |-> {}, size |-> 1]>>]

(* prepare; reactiveCompact is prepare with force.  All its facts are       *)
(* buffered.  The summariser's answer is the model's.                       *)
PrepareContext(force, answered) ==
    LET ms == live.messages
        micro == MicroFacts(ms)
        base == MicroMessages(ms)
        id == nextId + Cardinality(MicroCleared(ms))
        fits == ~ force /\ Estimate(base) <= Budget
        summarises == ~ fits /\ failures < CompactFailureLimit /\ AutoCleared(base) # {}
    IN
    /\ pc = "ready"
    /\ Count(LAMBDA f : f.type = "compacted") < MaxCompactions
    /\ force \/ Estimate(ms) > Budget
    /\ Persist(IF summarises /\ answered THEN micro \o <<AutoFact(base, id)>> ELSE micro,
               FALSE)
    /\ failures' = IF ~ summarises THEN failures ELSE IF answered THEN 0 ELSE failures + 1
    /\ nextId' = id + 1
    /\ <<file', failures'>> # <<file, failures>>
    /\ UNCHANGED <<pc, batch, recovery, goal, notes, crashes>>

-----------------------------------------------------------------------------
(* A crash leaves the flushed facts and perhaps some of the later ones. *)
Crash ==
    /\ pc # "down"
    /\ crashes < MaxCrashes
    /\ \E n \in durable..Len(file) :
        /\ file' = SubSeq(file, 1, n)
        /\ durable' = n
    /\ pc' = "down"
    /\ live' = Empty
    /\ batch' = {} /\ recovery' = <<>> /\ failures' = 0
    /\ crashes' = crashes + 1
    /\ UNCHANGED <<nextId, goal, notes>>

(* loadSession: its own replay of messages and calls *)

(* Faulty variant: the loader puts a summary behind the messages it kept. *)
LoadMessagesAtEnd(facts) ==
    LET loaded[i \in 0..Len(facts)] ==
        IF i = 0 THEN <<>>
        ELSE LET f == facts[i] IN
             CASE f.type = "message" -> Append(loaded[i - 1], f.message)
               [] f.type = "compacted" ->
                    ReplaceAtEnd(loaded[i - 1], f.cleared, f.replacements)
               [] OTHER -> loaded[i - 1]
    IN  loaded[Len(facts)]

LoadMessages(facts) ==
    LET loaded[i \in 0..Len(facts)] ==
        IF i = 0 THEN <<>>
        ELSE LET f == facts[i] ms == loaded[i - 1] IN
             CASE f.type = "message" -> Append(ms, f.message)
               [] f.type = "compacted" /\ \E m \in Range(ms) : m.id \in f.cleared ->
                    Replace(ms, f.cleared, f.replacements)
               [] OTHER -> ms
    IN  loaded[Len(facts)]

CallFacts(facts, type) == {i \in DOMAIN facts : facts[i].type = type}
Completed(facts) == {facts[i].call : i \in CallFacts(facts, "completed")}
AcceptedOpen(facts) ==
    {c \in Calls : \E i \in CallFacts(facts, "accepted") :
        /\ facts[i].call = c
        /\ \A j \in CallFacts(facts, "completed") : j > i => facts[j].call # c}
Messaged(facts) == UNION {Answers(facts[i].message) : i \in CallFacts(facts, "message")}
Requested(ms) == UNION {Requests(ms[i]) : i \in DOMAIN ms}

(* Faulty variant: only accepted calls are reconciled. *)
OpenAccepted(facts) == AcceptedOpen(facts)

OpenCalls(facts) ==
    AcceptedOpen(facts) \cup (Requested(LoadMessages(facts)) \ Completed(facts))

Unmessaged(facts) == Completed(facts) \ Messaged(facts)

(* restoreFromSnapshot and replayEnvelopes of the facts after lastSeq *)

(* Faulty variant: the fact at lastSeq is replayed a second time. *)
TailFromLastSeq(facts, snapshot) == SubSeq(facts, Max({1, snapshot.lastSeq}), Len(facts))

TailFacts(facts, snapshot) == SubSeq(facts, snapshot.lastSeq + 1, Len(facts))

Replay(facts) ==
    LET at == CallFacts(facts, "snapshot") IN
    IF at = {} THEN ReduceAll(Empty, facts)
    ELSE LET snapshot == facts[Max(at)] IN
         ReduceAll(snapshot.state, TailFacts(facts, snapshot))

(* The recovery facts: the missing acceptance, a synthetic terminal result  *)
(* for every open call, one message for all that is unanswered.             *)

(* Faulty variant: a call that had been accepted is accepted once more. *)
InterruptAccepts(s, c) ==
    <<[type |-> "accepted", call |-> c], [type |-> "completed", call |-> c]>>

Interrupt(s, c) ==
    (IF c \in s.pending \cup s.results THEN <<>>
     ELSE <<[type |-> "accepted", call |-> c]>>)
        \o <<[type |-> "completed", call |-> c]>>
RecoveryFacts(facts, s, open) ==
    LET answered == Range(open) \cup Unmessaged(facts) IN
    FlattenSeq([i \in DOMAIN open |-> Interrupt(s, open[i])])
        \o (IF answered = {} THEN <<>>
            ELSE <<MessageFact(NewMessage("recovery", answered, 1))>>)

(* resumeState: the state takes all recovery facts, then they are appended. *)
Resume ==
    /\ pc = "down"
    /\ \E open \in SetToSeqs(OpenCalls(file)) :
        LET s == Replay(file)
            facts == RecoveryFacts(file, s, open) IN
        /\ recovery' = facts
        /\ live' = ReduceAll(s, facts)
    /\ nextId' = nextId + 1
    /\ pc' = "recovering"
    /\ UNCHANGED <<file, durable, batch, failures, goal, notes, crashes>>

AppendRecovery ==
    /\ pc = "recovering"
    /\ IF recovery = <<>>
       THEN pc' = "ready" /\ UNCHANGED <<file, durable, recovery>>
       ELSE /\ file' = Append(file, Head(recovery))
            /\ durable' = Len(file')
            /\ recovery' = Tail(recovery)
            /\ UNCHANGED pc
    /\ UNCHANGED <<live, batch, failures, nextId, goal, notes, crashes>>

Next ==
    \/ AcceptHuman \/ InjectNote
    \/ \E calls \in SUBSET Calls \ {{}} : RequestBatch(calls)
    \/ \E c \in Calls : AcceptCall(c) \/ CompleteCall(c)
    \/ \E size \in {1, Big} : AnswerBatch(size)
    \/ TakeSnapshot
    \/ \E force, answered \in BOOLEAN : PrepareContext(force, answered)
    \/ Crash \/ Resume \/ AppendRecovery

Spec == Init /\ [][Next]_vars

-----------------------------------------------------------------------------
(* The variables have their types. *)
TypeOK ==
    /\ pc \in {"ready", "executing", "down", "recovering"}
    /\ live \in [messages : Seq(Message), pending : SUBSET Calls, results : SUBSET Calls]
    /\ durable \in 0..Len(file)
    /\ batch \subseteq Calls
    /\ {failures, nextId, goal, crashes} \subseteq Nat
    /\ notes \subseteq Nat

(* Whenever a request may go out, every request of a call the model ever    *)
(* made has exactly one answer among the message facts: no crash, also none *)
(* during recovery, leaves a call without a result or with two.             *)
EveryCallAnswered ==
    pc = "ready" => \A c \in Used :
        LET Times(Calling(_)) ==
                Cardinality({i \in CallFacts(file, "message") : c \in Calling(file[i].message)})
        IN  Times(Answers) = Times(Requests)

(* A crashed session can be resumed: replaying the journal never meets a    *)
(* fact the reducer refuses, recovery facts of earlier resumes included.    *)
ReplayAccepted ==
    \A i \in DOMAIN file : ~ Refused(ReduceAll(Empty, SubSeq(file, 1, i - 1)), file[i])

(* A snapshot and the facts after its lastSeq give what all facts give, and *)
(* the engine's own state when there is a process.                          *)
SnapshotAgrees ==
    /\ Replay(file) = ReduceAll(Empty, file)
    /\ pc \in {"ready", "executing"} => Replay(file) = live

(* The loader's second implementation of compaction gives the reducer's     *)
(* conversation, so the calls it looks for are those the model will see.    *)
LoaderAgrees == LoadMessages(file) = ReduceAll(Empty, file).messages

(* The current goal and what the engine injected are in the conversation    *)
(* verbatim, over any number of compactions and crashes.                    *)
GoalKept ==
    pc \in {"ready", "executing"} =>
        notes \cup ({goal} \ {0}) \subseteq {live.messages[i].id : i \in DOMAIN live.messages}

(* What test/engine.test.ts calls strictly paired, of the conversation that *)
(* is sent: each call has one result in it, which stands behind the call.   *)
StrictlyPaired ==
    LET ms == live.messages IN
    pc = "ready" => \A i \in DOMAIN ms : \A c \in Requests(ms[i]) :
        /\ Cardinality({j \in DOMAIN ms : c \in Answers(ms[j])}) = 1
        /\ \A j \in DOMAIN ms : c \in Answers(ms[j]) => i < j
=============================================================================
