---------------------------- MODULE SessionJournal ----------------------------
(***************************************************************************)
(* The session journal (session/SessionJournal.ts) and the integrity check *)
(* of its loader (session/SessionLoader.ts).  append gives a fact the next *)
(* sequence number and queues its line; one flush loop at a time takes the *)
(* whole queue as a batch and appends it to the file.  The code between    *)
(* two awaits is one action.                                               *)
(*                                                                         *)
(* A batch may fail, wholly or after some of its lines.  A crash may leave *)
(* any prefix of the batch being written, with its next line torn.         *)
(***************************************************************************)
EXTENDS Naturals, Sequences, FiniteSets, SequencesExt

CONSTANTS
    Facts,
    Torn,                               \* a line that does not parse
    MaxSeq, MaxFailures, MaxCrashes     \* bounds of the model

ASSUME TornIsNoLine == Torn \notin [seq : Nat, fact : Facts]
ASSUME BoundsAreNaturals == {MaxSeq, MaxFailures, MaxCrashes} \subseteq Nat

VARIABLES
    nextSeq,   \* SessionJournal.nextSeq
    queue,     \* SessionJournal.queue: lines with their pending promises
    batch,     \* the lines flushLoop is writing
    drainer,   \* draining: idle, writing, or ending (its finally is queued)
    file,      \* the lines of the journal file
    acked,     \* lines whose flush append has returned
    process,   \* running, down, or refused (strict resume gave up)
    failures, crashes

vars == <<nextSeq, queue, batch, drainer, file, acked, process, failures, crashes>>

Line(write) == [seq |-> write.seq, fact |-> write.fact]
Lines(writes) == [i \in DOMAIN writes |-> Line(writes[i])]
Waiting(writes) == {Line(writes[i]) : i \in {j \in DOMAIN writes : writes[j].waits}}
PendingWrite == [seq : Nat, fact : Facts, waits : BOOLEAN]

Init ==
    /\ nextSeq = 1
    /\ queue = <<>>
    /\ batch = <<>>
    /\ drainer = "idle"
    /\ file = <<>>
    /\ acked = {}
    /\ process = "running"
    /\ failures = 0
    /\ crashes = 0

(* append: waits is durability = 'flush'.  startDrain begins a flush loop,  *)
(* which takes the queue at once, unless one is draining already.           *)
AppendFact(fact, waits) ==
    LET write == [seq |-> nextSeq, fact |-> fact, waits |-> waits] IN
    /\ process = "running"
    /\ nextSeq <= MaxSeq
    /\ nextSeq' = nextSeq + 1
    /\ IF drainer = "idle"
       THEN batch' = Append(queue, write) /\ queue' = <<>> /\ drainer' = "writing"
       ELSE queue' = Append(queue, write) /\ UNCHANGED <<batch, drainer>>
    /\ UNCHANGED <<file, acked, process, failures, crashes>>

(* The end of one round of flushLoop: take the next batch, or leave. *)
NextRound ==
    /\ batch' = queue
    /\ queue' = <<>>
    /\ drainer' = IF queue = <<>> THEN "ending" ELSE "writing"

(* Faulty variant: appends queued during the write are resolved with it. *)
WriteBatchResolvesQueue ==
    /\ process = "running"
    /\ drainer = "writing"
    /\ file' = file \o Lines(batch)
    /\ acked' = acked \cup Waiting(batch) \cup Waiting(queue)
    /\ NextRound
    /\ UNCHANGED <<nextSeq, process, failures, crashes>>

WriteBatch ==
    /\ process = "running"
    /\ drainer = "writing"
    /\ file' = file \o Lines(batch)
    /\ acked' = acked \cup Waiting(batch)
    /\ NextRound
    /\ UNCHANGED <<nextSeq, process, failures, crashes>>

(* The promises of the batch are rejected.  Nobody handles the rejection of *)
(* a buffered append, so it ends the process; a flush append only throws in *)
(* its caller and the journal carries on.                                   *)
FailBatch(written) ==
    /\ process = "running"
    /\ drainer = "writing"
    /\ failures < MaxFailures
    /\ written < Len(batch)
    /\ file' = file \o Lines(SubSeq(batch, 1, written))
    /\ failures' = failures + 1
    /\ IF \A i \in DOMAIN batch : batch[i].waits
       THEN NextRound /\ UNCHANGED process
       ELSE /\ process' = "down"
            /\ queue' = <<>> /\ batch' = <<>> /\ drainer' = "idle"
    /\ UNCHANGED <<nextSeq, acked, crashes>>

(* Faulty variant: the end of a loop does not look at the queue again. *)
FinishDrainForgets ==
    /\ process = "running"
    /\ drainer = "ending"
    /\ drainer' = "idle"
    /\ UNCHANGED <<nextSeq, queue, batch, file, acked, process, failures, crashes>>

(* finally: a line queued after the last round starts a new loop. *)
FinishDrain ==
    /\ process = "running"
    /\ drainer = "ending"
    /\ batch' = queue
    /\ queue' = <<>>
    /\ drainer' = IF queue = <<>> THEN "idle" ELSE "writing"
    /\ UNCHANGED <<nextSeq, file, acked, process, failures, crashes>>

Crash(written, torn) ==
    /\ process = "running"
    /\ crashes < MaxCrashes
    /\ written <= Len(batch)
    /\ torn => written < Len(batch)
    /\ file' = file \o Lines(SubSeq(batch, 1, written))
                    \o (IF torn THEN <<Torn>> ELSE <<>>)
    /\ process' = "down"
    /\ crashes' = crashes + 1
    /\ queue' = <<>> /\ batch' = <<>> /\ drainer' = "idle"
    /\ UNCHANGED <<nextSeq, acked, failures>>

(* loadSession stops at the first line that does not parse or whose number  *)
(* is not the expected one.                                                 *)
GoodLine(lines, i) == lines[i] # Torn /\ lines[i].seq = i
Readable(lines) ==
    LET good == {n \in 0..Len(lines) : \A i \in 1..n : GoodLine(lines, i)}
    IN  SubSeq(lines, 1, CHOOSE n \in good : \A m \in good : m <= n)

(* Faulty variants: the last number is used again, numbering restarts, and  *)
(* a damaged journal is resumed.                                            *)
ResumeAtLastSeq ==
    /\ process = "down"
    /\ process' = IF Readable(file) = file THEN "running" ELSE "refused"
    /\ nextSeq' = Len(Readable(file))
    /\ UNCHANGED <<queue, batch, drainer, file, acked, failures, crashes>>

ResumeAnyway ==
    /\ process = "down"
    /\ process' = "running"
    /\ nextSeq' = Len(Readable(file)) + 1
    /\ UNCHANGED <<queue, batch, drainer, file, acked, failures, crashes>>

(* Strict resume: adopt the numbering of a whole journal, refuse any other. *)
Resume ==
    /\ process = "down"
    /\ process' = IF Readable(file) = file THEN "running" ELSE "refused"
    /\ nextSeq' = Len(Readable(file)) + 1
    /\ UNCHANGED <<queue, batch, drainer, file, acked, failures, crashes>>

(* All facts are appended and settled, or the session cannot be resumed. *)
Rest ==
    /\ \/ process = "refused"
       \/ process = "running" /\ nextSeq > MaxSeq /\ drainer = "idle"
    /\ UNCHANGED vars

Next ==
    \/ \E fact \in Facts, waits \in BOOLEAN : AppendFact(fact, waits)
    \/ WriteBatch
    \/ \E written \in 0..Len(batch) : FailBatch(written)
    \/ FinishDrain
    \/ \E written \in 0..Len(batch), torn \in BOOLEAN : Crash(written, torn)
    \/ Resume
    \/ Rest

(* The event loop completes pending I/O and runs queued microtasks. *)
Fairness ==
    /\ WF_vars(WriteBatch \/ \E written \in 0..Len(batch) : FailBatch(written))
    /\ WF_vars(FinishDrain)

Spec == Init /\ [][Next]_vars
FairSpec == Spec /\ Fairness

-----------------------------------------------------------------------------
(* The variables have their types. *)
TypeOK ==
    /\ nextSeq \in Nat \ {0}
    /\ queue \in Seq(PendingWrite)
    /\ batch \in Seq(PendingWrite)
    /\ drainer \in {"idle", "writing", "ending"}
    /\ file \in Seq([seq : Nat, fact : Facts] \cup {Torn})
    /\ acked \subseteq [seq : Nat, fact : Facts]
    /\ process \in {"running", "down", "refused"}
    /\ failures \in Nat
    /\ crashes \in Nat

(* A process that resumed has every acknowledged line: what cannot be read  *)
(* any more makes resume refuse, it is never skipped silently.              *)
ResumeNeverSkips ==
    [][process = "down" /\ process' = "running" =>
           \A line \in acked : line \in Range(Readable(file))]_vars

(* Every append is settled in the end, also one that is queued while a      *)
(* finished flush loop has not yet reset draining.                          *)
AppendsSettle ==
    [](queue # <<>> \/ batch # <<>> => <>(queue = <<>> /\ batch = <<>>))

(* The journal, as the loader reads it, implements the durable log: until a *)
(* write fails, no crash, torn line or resume loses or rewrites what an     *)
(* append has acknowledged.                                                 *)
PromisedLog == [i \in DOMAIN (Readable(file) \o Lines(batch) \o Lines(queue)) |->
                   (Readable(file) \o Lines(batch) \o Lines(queue))[i].fact]
AckedPrefix ==
    LET seqs == {line.seq : line \in acked} \cup {0}
    IN  CHOOSE n \in seqs : \A m \in seqs : m <= n

Promise == INSTANCE DurableLog WITH
    log <- IF failures = 0 THEN PromisedLog ELSE <<>>,
    acked <- IF failures = 0 THEN AckedPrefix ELSE 0,
    damaged <- failures > 0
ImplementsDurableLog == Promise!Spec
=============================================================================
