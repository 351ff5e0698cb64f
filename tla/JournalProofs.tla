----------------------------- MODULE JournalProofs -----------------------------
(***************************************************************************)
(* Theorems about journals.  First the journal of one session: any facts,  *)
(* any number of lines, failures and crashes.  Then what sessions read off *)
(* each other's journals: any sessions, triggers and actions, any number   *)
(* of boots, faults and reflections.                                       *)
(***************************************************************************)
EXTENDS SessionJournal, Calibration, Integers, FiniteSetTheorems, WellFoundedInduction, TLAPS

DiskLine == [seq : Nat, fact : Facts] \cup {Torn}

-----------------------------------------------------------------------------
(* What is written to the file. *)
LEMMA LinesType ==
    ASSUME NEW writes \in Seq(PendingWrite)
    PROVE  /\ Lines(writes) \in Seq(DiskLine)
           /\ Waiting(writes) \subseteq [seq : Nat, fact : Facts]
           /\ Waiting(writes) \subseteq Range(Lines(writes))
<1>1. ASSUME NEW i \in DOMAIN writes
      PROVE  Line(writes[i]) \in [seq : Nat, fact : Facts]
    <2>1. writes[i] \in PendingWrite
        OBVIOUS
    <2> QED BY <2>1 DEF Line, PendingWrite
<1>2. Lines(writes) \in Seq(DiskLine)
    BY <1>1 DEF Lines, DiskLine
<1>3. DOMAIN Lines(writes) = DOMAIN writes
    BY DEF Lines
<1>4. \A i \in DOMAIN writes : Lines(writes)[i] = Line(writes[i])
    BY DEF Lines
<1> QED BY <1>1, <1>2, <1>3, <1>4 DEF Waiting, Range

(* What a failed or interrupted write leaves of a batch *)
LEMMA PrefixType ==
    ASSUME NEW writes \in Seq(PendingWrite), NEW n \in 0..Len(writes)
    PROVE  Lines(SubSeq(writes, 1, n)) \in Seq(DiskLine)
<1>1. SubSeq(writes, 1, n) \in Seq(PendingWrite)
    OBVIOUS
<1> QED BY <1>1, LinesType

(* The line a crash may tear *)
LEMMA TornType ==
    ASSUME NEW torn \in BOOLEAN
    PROVE  (IF torn THEN <<Torn>> ELSE <<>>) \in Seq(DiskLine)
<1>1. <<Torn>> \in Seq(DiskLine)
    BY DEF DiskLine
<1>2. CASE torn
    BY <1>1, <1>2
<1>3. CASE ~ torn
    BY <1>3
<1> QED BY <1>2, <1>3

(* Appending to the file keeps every line that is in it. *)
LEMMA FileGrows ==
    ASSUME NEW s \in Seq(DiskLine), NEW t \in Seq(DiskLine)
    PROVE  /\ s \o t \in Seq(DiskLine)
           /\ Range(s) \subseteq Range(s \o t)
           /\ Range(t) \subseteq Range(s \o t)
<1>1. s \o t \in Seq(DiskLine) /\ Len(s \o t) = Len(s) + Len(t)
    OBVIOUS
<1>2. \A i \in 1..Len(s) : (s \o t)[i] = s[i]
    OBVIOUS
<1>3. \A i \in 1..Len(t) : (s \o t)[Len(s) + i] = t[i]
    OBVIOUS
<1>4. DOMAIN s = 1..Len(s) /\ DOMAIN t = 1..Len(t) /\ DOMAIN (s \o t) = 1..Len(s \o t)
    BY <1>1
<1>5. Range(s) \subseteq Range(s \o t)
    BY <1>1, <1>2, <1>4 DEF Range
<1>6. ASSUME NEW i \in 1..Len(t)
      PROVE  t[i] \in Range(s \o t)
    <2>1. Len(s) + i \in DOMAIN (s \o t)
        BY <1>1, <1>4
    <2> QED BY <2>1, <1>3 DEF Range
<1>7. Range(t) \subseteq Range(s \o t)
    BY <1>4, <1>6 DEF Range
<1> QED BY <1>1, <1>5, <1>7

(* A bounded set of numbers has a largest one. *)
LEMMA Largest ==
    ASSUME NEW top \in Nat, NEW S \in SUBSET (0..top), S # {}
    PROVE  \E n \in S : \A m \in S : m <= n
<1> DEFINE T == {top - n : n \in S}
<1>1. T \subseteq Nat /\ T # {}
    <2>1. ASSUME NEW n \in S PROVE top - n \in Nat
        OBVIOUS
    <2>2. PICK n \in S : TRUE
        OBVIOUS
    <2> QED BY <2>1, <2>2
<1>2. PICK x \in T : \A y \in T : <<y, x>> \notin OpToRel(<, Nat)
    BY <1>1, NatLessThanWellFounded, WFMin
<1>3. \A y \in T : ~ (y < x)
    BY <1>1, <1>2 DEF OpToRel
<1>4. PICK n \in S : x = top - n
    OBVIOUS
<1>5. ASSUME NEW m \in S
      PROVE  m <= n
    <2>1. top - m \in T
        OBVIOUS
    <2>2. ~ (top - m < top - n)
        BY <1>3, <1>4, <2>1
    <2> QED BY <2>2
<1> QED BY <1>5

(* The loader reads a prefix of the file. *)
LEMMA ReadableType ==
    ASSUME NEW s \in Seq(DiskLine)
    PROVE  Len(Readable(s)) \in Nat
<1> DEFINE good == {n \in 0..Len(s) : \A i \in 1..n : GoodLine(s, i)}
           last == CHOOSE n \in good : \A m \in good : m <= n
<1>1. Readable(s) = SubSeq(s, 1, last)
    BY DEF Readable
<1>2. 0 \in good
    OBVIOUS
<1>3. \E n \in good : \A m \in good : m <= n
    BY <1>2, Largest, Len(s) \in Nat
<1>4. last \in 0..Len(s)
    BY <1>3
<1> HIDE DEF last
<1> QED BY <1>1, <1>4

-----------------------------------------------------------------------------
(* TypeOK is inductive. *)
LEMMA TypeStep ==
    ASSUME TypeOK, [Next]_vars
    PROVE  TypeOK'
<1> USE DEF TypeOK
<1>0. file \in Seq(DiskLine)
    BY DEF DiskLine
<1>e. <<>> \in Seq(PendingWrite)
    OBVIOUS
<1>1. ASSUME NEW fact \in Facts, NEW waits \in BOOLEAN, AppendFact(fact, waits)
      PROVE  TypeOK'
    <2> DEFINE write == [seq |-> nextSeq, fact |-> fact, waits |-> waits]
    <2>1. write \in PendingWrite
        BY DEF PendingWrite
    <2>2. Append(queue, write) \in Seq(PendingWrite)
        BY <2>1
    <2> HIDE DEF write
    <2>3. /\ nextSeq' = nextSeq + 1
          /\ \/ batch' = Append(queue, write) /\ queue' = <<>> /\ drainer' = "writing"
             \/ queue' = Append(queue, write) /\ UNCHANGED <<batch, drainer>>
          /\ UNCHANGED <<file, acked, process, failures, crashes>>
        BY <1>1 DEF AppendFact, write
    <2>4. batch' \in Seq(PendingWrite) /\ queue' \in Seq(PendingWrite)
        <3>1. CASE batch' = Append(queue, write) /\ queue' = <<>>
            BY <1>e, <2>2, <3>1
        <3>2. CASE queue' = Append(queue, write) /\ batch' = batch
            BY <2>2, <3>2
        <3> QED BY <2>3, <3>1, <3>2
    <2>5. drainer' \in {"idle", "writing", "ending"}
        BY <2>3
    <2> QED BY <2>3, <2>4, <2>5
<1>2. CASE WriteBatch
    <2>1. file' \in Seq(DiskLine) /\ acked' \subseteq [seq : Nat, fact : Facts]
        BY <1>0, <1>2, LinesType, FileGrows DEF WriteBatch
    <2>2. batch' \in Seq(PendingWrite) /\ queue' \in Seq(PendingWrite)
        BY <1>2 DEF WriteBatch, NextRound
    <2>3. drainer' \in {"idle", "writing", "ending"}
        BY <1>2 DEF WriteBatch, NextRound
    <2> QED BY <1>2, <2>1, <2>2, <2>3 DEF WriteBatch, DiskLine
<1>3. ASSUME NEW written \in 0..Len(batch), FailBatch(written)
      PROVE  TypeOK'
    <2>1. file' \in Seq(DiskLine)
        BY <1>0, <1>3, PrefixType, FileGrows DEF FailBatch
    <2>2. /\ batch' \in Seq(PendingWrite) /\ queue' \in Seq(PendingWrite)
          /\ drainer' \in {"idle", "writing", "ending"}
          /\ process' \in {"running", "down", "refused"}
        <3>1. CASE \A i \in DOMAIN batch : batch[i].waits
            <4>1. NextRound /\ process' = process
                BY <1>3, <3>1 DEF FailBatch
            <4> QED BY <1>e, <4>1 DEF NextRound
        <3>2. CASE ~ \A i \in DOMAIN batch : batch[i].waits
            <4>1. process' = "down" /\ queue' = <<>> /\ batch' = <<>> /\ drainer' = "idle"
                BY <1>3, <3>2 DEF FailBatch
            <4> QED BY <1>e, <4>1
        <3> QED BY <3>1, <3>2
    <2> QED BY <1>3, <2>1, <2>2 DEF FailBatch, DiskLine
<1>4. CASE FinishDrain
    BY <1>4 DEF FinishDrain
<1>5. ASSUME NEW written \in 0..Len(batch), NEW torn \in BOOLEAN, Crash(written, torn)
      PROVE  TypeOK'
    <2>1. file \o Lines(SubSeq(batch, 1, written)) \in Seq(DiskLine)
        BY <1>0, PrefixType, FileGrows
    <2>2. file' \in Seq(DiskLine)
        BY <1>5, <2>1, TornType, FileGrows DEF Crash
    <2> QED BY <1>5, <2>2 DEF Crash, DiskLine
<1>6. CASE Resume
    <2>1. nextSeq' \in Nat \ {0}
        BY <1>0, <1>6, ReadableType DEF Resume
    <2> QED BY <1>6, <2>1 DEF Resume
<1>7. CASE UNCHANGED vars
    BY <1>7 DEF vars
<1> QED BY <1>1, <1>2, <1>3, <1>4, <1>5, <1>6, <1>7 DEF Next, Rest

(* The variables of the journal have their types in every reachable state. *)
THEOREM JournalTypeCorrect == Spec => []TypeOK
<1>1. Init => TypeOK
    BY DEF Init, TypeOK
<1> QED BY <1>1, TypeStep, PTL DEF Spec

-----------------------------------------------------------------------------
(* An acknowledged line is in the file: a flush append returns after its    *)
(* batch was written, and no failure, crash or resume removes a line.       *)
AckedOnDisk == acked \subseteq Range(file)

(* Nothing that was written is taken back. *)
LEMMA AckedStep ==
    ASSUME TypeOK, AckedOnDisk, [Next]_vars
    PROVE  AckedOnDisk'
<1>0. file \in Seq(DiskLine) /\ batch \in Seq(PendingWrite)
    BY DEF DiskLine, TypeOK
<1> USE DEF AckedOnDisk
<1>2. CASE WriteBatch
    BY <1>0, <1>2, LinesType, FileGrows DEF WriteBatch
<1>3. ASSUME NEW written \in 0..Len(batch), FailBatch(written)
      PROVE  AckedOnDisk'
    BY <1>0, <1>3, PrefixType, FileGrows DEF FailBatch
<1>5. ASSUME NEW written \in 0..Len(batch), NEW torn \in BOOLEAN, Crash(written, torn)
      PROVE  AckedOnDisk'
    <2> DEFINE kept == file \o Lines(SubSeq(batch, 1, written))
               rest == IF torn THEN <<Torn>> ELSE <<>>
    <2>1. kept \in Seq(DiskLine) /\ Range(file) \subseteq Range(kept)
        BY <1>0, PrefixType, FileGrows
    <2>2. rest \in Seq(DiskLine)
        BY TornType
    <2>3. file' = kept \o rest /\ acked' = acked
        BY <1>5 DEF Crash
    <2> HIDE DEF kept, rest
    <2> QED BY <2>1, <2>2, <2>3, FileGrows
<1>6. CASE AckedOnDisk /\ UNCHANGED <<file, acked>>
    BY <1>6 DEF AckedOnDisk
<1> QED BY <1>2, <1>3, <1>5, <1>6
        DEF Next, Rest, AppendFact, FinishDrain, Resume, vars

(* A process that resumes has every acknowledged line: only a journal that  *)
(* is readable to its end is resumed.                                       *)
THEOREM ResumedJournalIsWhole == Spec => ResumeNeverSkips
<1>1. Init => AckedOnDisk
    BY DEF Init, AckedOnDisk
<1>2. ASSUME AckedOnDisk, [Next]_vars
      PROVE  process = "down" /\ process' = "running" =>
                 \A line \in acked : line \in Range(Readable(file))
    <2>1. SUFFICES ASSUME process = "down", process' = "running"
                   PROVE  \A line \in acked : line \in Range(Readable(file))
        OBVIOUS
    <2>2. Resume
        BY <1>2, <2>1 DEF Next, Rest, AppendFact, WriteBatch, FailBatch, FinishDrain, Crash, vars
    <2> QED BY <1>2, <2>1, <2>2 DEF Resume, AckedOnDisk
<1>3. Spec => []AckedOnDisk
    BY <1>1, AckedStep, JournalTypeCorrect, PTL DEF Spec
<1> QED BY <1>2, <1>3, PTL DEF Spec, ResumeNeverSkips

-----------------------------------------------------------------------------
(* The journal implements the durable log. *)

Written == [seq : Nat, fact : Facts]
FactsOf(lines) == [i \in DOMAIN lines |-> lines[i].fact]
Content == Readable(file) \o Lines(batch) \o Lines(queue)

(* Until a write fails: the lines of a running process are numbered without *)
(* a gap through file, batch and queue; a flush loop that has left, or is   *)
(* about to, has nothing in hand; and the loader reads what is acknowledged. *)
Numbered ==
    /\ \A i \in DOMAIN file : GoodLine(file, i)
    /\ \A i \in DOMAIN batch : batch[i].seq = Len(file) + i
    /\ \A i \in DOMAIN queue : queue[i].seq = Len(file) + Len(batch) + i
    /\ nextSeq = Len(file) + Len(batch) + Len(queue) + 1

JournalInv ==
    failures = 0 =>
        /\ process = "running" => Numbered
        /\ process # "running" \/ drainer = "idle" => batch = <<>> /\ queue = <<>>
        /\ drainer = "ending" => batch = <<>>
        /\ \A line \in acked : line.seq <= Len(Readable(file))

(* The loader stops before the first bad line. *)
LEMMA ReadableIs ==
    ASSUME NEW s \in Seq(DiskLine), NEW n \in 0..Len(s), \A i \in 1..n : GoodLine(s, i),
           n < Len(s) => ~ GoodLine(s, n + 1)
    PROVE  Readable(s) = SubSeq(s, 1, n)
<1> DEFINE good == {m \in 0..Len(s) : \A i \in 1..m : GoodLine(s, i)}
<1>1. n \in good /\ n \in Nat /\ Len(s) \in Nat
    OBVIOUS
<1>2. ASSUME NEW m \in good
      PROVE  m <= n /\ m \in Nat
    <2>1. m \in 0..Len(s) /\ \A i \in 1..m : GoodLine(s, i)
        OBVIOUS
    <2>2. CASE m > n
        <3>1. n + 1 \in 1..m /\ n < Len(s)
            BY <1>1, <2>1, <2>2
        <3> QED BY <2>1, <3>1
    <2> QED BY <1>1, <2>1, <2>2
<1>3. Readable(s) = SubSeq(s, 1, CHOOSE k \in good : \A m \in good : m <= k)
    BY DEF Readable
<1> HIDE DEF good
<1>4. (CHOOSE k \in good : \A m \in good : m <= k) = n
    <2> DEFINE top == CHOOSE k \in good : \A m \in good : m <= k
    <2>1. top \in good /\ \A m \in good : m <= top
        BY <1>1, <1>2
    <2> HIDE DEF top
    <2>2. top = n
        BY <1>1, <1>2, <2>1
    <2> QED BY <2>2 DEF top
<1> QED BY <1>3, <1>4

(* What the loader reads is a prefix of good lines. *)
LEMMA ReadableGood ==
    ASSUME NEW s \in Seq(DiskLine)
    PROVE  /\ Readable(s) \in Seq(Written)
           /\ Readable(s) = s => \A i \in DOMAIN s : GoodLine(s, i)
<1> DEFINE good == {n \in 0..Len(s) : \A i \in 1..n : GoodLine(s, i)}
           last == CHOOSE n \in good : \A m \in good : m <= n
<1>1. Readable(s) = SubSeq(s, 1, last)
    BY DEF Readable
<1>2. 0 \in good
    OBVIOUS
<1>3. \E n \in good : \A m \in good : m <= n
    BY <1>2, Largest, Len(s) \in Nat
<1>4. last \in 0..Len(s) /\ \A i \in 1..last : GoodLine(s, i)
    BY <1>3
<1> HIDE DEF last, good
<1>5. ASSUME NEW i \in 1..last
      PROVE  s[i] \in Written
    <2>1. i \in DOMAIN s
        BY <1>4
    <2> QED BY <1>4, <2>1 DEF GoodLine, DiskLine, Written
<1>6. /\ DOMAIN SubSeq(s, 1, last) = 1..last /\ Len(SubSeq(s, 1, last)) = last
      /\ \A i \in 1..last : SubSeq(s, 1, last)[i] = s[i]
    BY <1>4
<1>7. SubSeq(s, 1, last) \in Seq(Written)
    BY <1>4, <1>5, <1>6
<1>8. Readable(s) = s => last = Len(s)
    BY <1>1, <1>6
<1> QED BY <1>1, <1>4, <1>7, <1>8

(* A file without a bad line is read as it is. *)
LEMMA ReadableWhole ==
    ASSUME NEW s \in Seq(DiskLine), \A i \in DOMAIN s : GoodLine(s, i)
    PROVE  Readable(s) = s
<1>1. Len(s) \in 0..Len(s) /\ DOMAIN s = 1..Len(s)
    OBVIOUS
<1>2. Readable(s) = SubSeq(s, 1, Len(s))
    BY <1>1, ReadableIs
<1> QED BY <1>2

(* Lines of writes, one by one *)
LEMMA LinesOf ==
    ASSUME NEW w \in Seq(PendingWrite)
    PROVE  /\ Lines(w) \in Seq(Written) /\ Len(Lines(w)) = Len(w)
           /\ \A i \in 1..Len(w) : Lines(w)[i] = Line(w[i]) /\ Lines(w)[i].seq = w[i].seq
           /\ \A x \in PendingWrite : Lines(Append(w, x)) = Append(Lines(w), Line(x))
           /\ \A n \in 0..Len(w) : Lines(SubSeq(w, 1, n)) = SubSeq(Lines(w), 1, n)
<1>1. \A x \in PendingWrite : Line(x) \in Written /\ Line(x).seq = x.seq
    BY DEF Line, PendingWrite, Written
<1>2. \A u \in Seq(PendingWrite) :
          /\ Lines(u) \in Seq(Written) /\ Len(Lines(u)) = Len(u) /\ DOMAIN Lines(u) = 1..Len(u)
          /\ \A i \in 1..Len(u) : Lines(u)[i] = Line(u[i])
    BY <1>1 DEF Lines
<1>3. ASSUME NEW x \in PendingWrite
      PROVE  Lines(Append(w, x)) = Append(Lines(w), Line(x))
    <2>1. /\ Append(w, x) \in Seq(PendingWrite) /\ Len(Append(w, x)) = Len(w) + 1
          /\ \A i \in 1..(Len(w) + 1) : Append(w, x)[i] = IF i = Len(w) + 1 THEN x ELSE w[i]
        OBVIOUS
    <2>2. /\ Lines(Append(w, x)) \in Seq(Written) /\ Len(Lines(Append(w, x))) = Len(w) + 1
          /\ \A i \in 1..(Len(w) + 1) : Lines(Append(w, x))[i] = Line(Append(w, x)[i])
        BY <1>2, <2>1
    <2>3. /\ Append(Lines(w), Line(x)) \in Seq(Written)
          /\ Len(Append(Lines(w), Line(x))) = Len(w) + 1
          /\ \A i \in 1..(Len(w) + 1) :
                Append(Lines(w), Line(x))[i] = IF i = Len(w) + 1 THEN Line(x) ELSE Lines(w)[i]
        BY <1>1, <1>2
    <2>4. \A i \in 1..(Len(w) + 1) : Lines(Append(w, x))[i] = Append(Lines(w), Line(x))[i]
        BY <1>2, <2>1, <2>2, <2>3
    <2> QED BY <2>2, <2>3, <2>4
<1>4. ASSUME NEW n \in 0..Len(w)
      PROVE  Lines(SubSeq(w, 1, n)) = SubSeq(Lines(w), 1, n)
    <2>1. /\ SubSeq(w, 1, n) \in Seq(PendingWrite) /\ Len(SubSeq(w, 1, n)) = n
          /\ \A i \in 1..n : SubSeq(w, 1, n)[i] = w[i]
        OBVIOUS
    <2>2. /\ SubSeq(Lines(w), 1, n) \in Seq(Written) /\ Len(SubSeq(Lines(w), 1, n)) = n
          /\ \A i \in 1..n : SubSeq(Lines(w), 1, n)[i] = Lines(w)[i]
        BY <1>2
    <2>3. /\ Lines(SubSeq(w, 1, n)) \in Seq(Written) /\ Len(Lines(SubSeq(w, 1, n))) = n
          /\ \A i \in 1..n : Lines(SubSeq(w, 1, n))[i] = Line(SubSeq(w, 1, n)[i])
        BY <1>2, <2>1
    <2>4. \A i \in 1..n : Lines(SubSeq(w, 1, n))[i] = SubSeq(Lines(w), 1, n)[i]
        BY <1>2, <2>1, <2>2, <2>3
    <2> QED BY <2>2, <2>3, <2>4
<1>5. \A i \in 1..Len(w) : Lines(w)[i] = Line(w[i]) /\ Lines(w)[i].seq = w[i].seq
    <2>1. \A i \in 1..Len(w) : w[i] \in PendingWrite
        OBVIOUS
    <2> QED BY <1>1, <1>2, <2>1
<1> QED BY <1>2, <1>3, <1>4, <1>5

(* The facts of lines, one by one *)
LEMMA FactsOfLines ==
    ASSUME NEW s \in Seq(Written)
    PROVE  /\ FactsOf(s) \in Seq(Facts) /\ Len(FactsOf(s)) = Len(s)
           /\ \A x \in Written : FactsOf(Append(s, x)) = Append(FactsOf(s), x.fact)
           /\ \A n \in 0..Len(s) : FactsOf(SubSeq(s, 1, n)) = SubSeq(FactsOf(s), 1, n)
<1>1. \A x \in Written : x.fact \in Facts
    BY DEF Written
<1>2. \A u \in Seq(Written) :
          /\ FactsOf(u) \in Seq(Facts) /\ Len(FactsOf(u)) = Len(u)
          /\ \A i \in 1..Len(u) : FactsOf(u)[i] = u[i].fact
    BY <1>1 DEF FactsOf
<1>3. ASSUME NEW x \in Written
      PROVE  FactsOf(Append(s, x)) = Append(FactsOf(s), x.fact)
    <2>1. /\ Append(s, x) \in Seq(Written) /\ Len(Append(s, x)) = Len(s) + 1
          /\ \A i \in 1..(Len(s) + 1) : Append(s, x)[i] = IF i = Len(s) + 1 THEN x ELSE s[i]
        OBVIOUS
    <2>2. /\ FactsOf(Append(s, x)) \in Seq(Facts) /\ Len(FactsOf(Append(s, x))) = Len(s) + 1
          /\ \A i \in 1..(Len(s) + 1) : FactsOf(Append(s, x))[i] = Append(s, x)[i].fact
        BY <1>2, <2>1
    <2>3. /\ Append(FactsOf(s), x.fact) \in Seq(Facts)
          /\ Len(Append(FactsOf(s), x.fact)) = Len(s) + 1
          /\ \A i \in 1..(Len(s) + 1) :
                Append(FactsOf(s), x.fact)[i] = IF i = Len(s) + 1 THEN x.fact ELSE FactsOf(s)[i]
        BY <1>1, <1>2
    <2>4. \A i \in 1..(Len(s) + 1) : FactsOf(Append(s, x))[i] = Append(FactsOf(s), x.fact)[i]
        BY <1>2, <2>1, <2>2, <2>3
    <2> QED BY <2>2, <2>3, <2>4
<1>4. ASSUME NEW n \in 0..Len(s)
      PROVE  FactsOf(SubSeq(s, 1, n)) = SubSeq(FactsOf(s), 1, n)
    <2>1. /\ SubSeq(s, 1, n) \in Seq(Written) /\ Len(SubSeq(s, 1, n)) = n
          /\ \A i \in 1..n : SubSeq(s, 1, n)[i] = s[i]
        OBVIOUS
    <2>2. /\ SubSeq(FactsOf(s), 1, n) \in Seq(Facts) /\ Len(SubSeq(FactsOf(s), 1, n)) = n
          /\ \A i \in 1..n : SubSeq(FactsOf(s), 1, n)[i] = FactsOf(s)[i]
        BY <1>2
    <2>3. /\ FactsOf(SubSeq(s, 1, n)) \in Seq(Facts) /\ Len(FactsOf(SubSeq(s, 1, n))) = n
          /\ \A i \in 1..n : FactsOf(SubSeq(s, 1, n))[i] = SubSeq(s, 1, n)[i].fact
        BY <1>2, <2>1
    <2>4. \A i \in 1..n : FactsOf(SubSeq(s, 1, n))[i] = SubSeq(FactsOf(s), 1, n)[i]
        BY <1>2, <2>1, <2>2, <2>3
    <2> QED BY <2>2, <2>3, <2>4
<1> QED BY <1>2, <1>3, <1>4

(* Sequences put one after another *)
LEMMA Concatenations ==
    ASSUME NEW a \in Seq(Written), NEW b \in Seq(Written), NEW c \in Seq(Written)
    PROVE  /\ a \o b \o c \in Seq(Written) /\ Len(a \o b \o c) = Len(a) + Len(b) + Len(c)
           /\ a \o <<>> = a
           /\ \A x \in Written : a \o b \o Append(c, x) = Append(a \o b \o c, x)
           /\ \A n \in 0..Len(b) : a \o SubSeq(b, 1, n) = SubSeq(a \o b \o c, 1, Len(a) + n)
<1>1. ASSUME NEW x \in Written
      PROVE  a \o b \o Append(c, x) = Append(a \o b \o c, x)
    OBVIOUS
<1>2. ASSUME NEW n \in 0..Len(b)
      PROVE  a \o SubSeq(b, 1, n) = SubSeq(a \o b \o c, 1, Len(a) + n)
    OBVIOUS
<1> QED BY <1>1, <1>2

(* What is promised, in terms of the lines *)
LEMMA ContentType ==
    ASSUME TypeOK
    PROVE  /\ file \in Seq(DiskLine) /\ Readable(file) \in Seq(Written)
           /\ Lines(batch) \in Seq(Written) /\ Lines(queue) \in Seq(Written)
           /\ Content \in Seq(Written)
           /\ Len(Content) = Len(Readable(file)) + Len(batch) + Len(queue)
           /\ PromisedLog = FactsOf(Content)
<1>1. file \in Seq(DiskLine) /\ batch \in Seq(PendingWrite) /\ queue \in Seq(PendingWrite)
    BY DEF TypeOK, DiskLine
<1>2. Readable(file) \in Seq(Written)
    BY <1>1, ReadableGood
<1>3. /\ Lines(batch) \in Seq(Written) /\ Len(Lines(batch)) = Len(batch)
      /\ Lines(queue) \in Seq(Written) /\ Len(Lines(queue)) = Len(queue)
    BY <1>1, LinesOf
<1>4. Content \in Seq(Written) /\ Len(Content) = Len(Readable(file)) + Len(batch) + Len(queue)
    <2> DEFINE a == Readable(file)
               b == Lines(batch)
               c == Lines(queue)
    <2>1. Content = a \o b \o c
        BY DEF Content
    <2> HIDE DEF a, b, c
    <2>2. a \in Seq(Written) /\ b \in Seq(Written) /\ c \in Seq(Written)
        BY <1>2, <1>3 DEF a, b, c
    <2>3. a \o b \o c \in Seq(Written) /\ Len(a \o b \o c) = Len(a) + Len(b) + Len(c)
        BY <2>2, Concatenations
    <2> QED BY <1>3, <2>1, <2>3 DEF a, b, c
<1>5. PromisedLog = FactsOf(Content)
    BY DEF PromisedLog, FactsOf, Content
<1> QED BY <1>1, <1>2, <1>3, <1>4, <1>5

(* The acknowledged prefix is the highest acknowledged number. *)
LEMMA AckedPrefixIs ==
    ASSUME TypeOK, JournalInv, failures = 0
    PROVE  /\ AckedPrefix \in 0..Len(Readable(file))
           /\ \A line \in acked : line.seq <= AckedPrefix
           /\ AckedPrefix = 0 \/ \E line \in acked : line.seq = AckedPrefix
<1> DEFINE seqs == {line.seq : line \in acked} \cup {0}
           n == Len(Readable(file))
<1>1. n \in Nat
    BY ContentType
<1>2. \A line \in acked : line.seq \in 0..n
    <2>1. \A line \in acked : line.seq \in Nat /\ line.seq <= n
        BY DEF TypeOK, JournalInv
    <2> QED BY <1>1, <2>1
<1>3. seqs \in SUBSET (0..n) /\ seqs # {}
    BY <1>1, <1>2
<1>4. AckedPrefix = CHOOSE k \in seqs : \A m \in seqs : m <= k
    BY DEF AckedPrefix
<1>5. \A line \in acked : line.seq \in seqs
    OBVIOUS
<1>6. \A k \in seqs : k = 0 \/ \E line \in acked : line.seq = k
    OBVIOUS
<1> HIDE DEF seqs, n
<1>7. \E k \in seqs : \A m \in seqs : m <= k
    BY <1>1, <1>3, Largest
<1>8. AckedPrefix \in seqs /\ \A m \in seqs : m <= AckedPrefix
    BY <1>4, <1>7
<1> QED BY <1>3, <1>5, <1>6, <1>8 DEF n

(* A batch written whole leaves a whole file. *)
LEMMA BatchWritten ==
    ASSUME TypeOK, Numbered, NEW n \in 0..Len(batch)
    PROVE  LET kept == file \o Lines(SubSeq(batch, 1, n)) IN
           /\ kept \in Seq(DiskLine) /\ Len(kept) = Len(file) + n
           /\ \A i \in DOMAIN kept : GoodLine(kept, i)
<1> DEFINE w == SubSeq(batch, 1, n)
           l == Lines(w)
           kept == file \o l
<1>1. file \in Seq(DiskLine) /\ batch \in Seq(PendingWrite)
    BY DEF TypeOK, DiskLine
<1>2. w \in Seq(PendingWrite) /\ Len(w) = n /\ \A i \in 1..n : w[i] = batch[i]
    BY <1>1
<1> HIDE DEF w
<1>3. /\ l \in Seq(Written) /\ Len(l) = n
      /\ \A i \in 1..n : l[i].seq = w[i].seq
    BY <1>2, LinesOf
<1> HIDE DEF l
<1>4. \A i \in 1..n : l[i] \in Written /\ l[i].seq = Len(file) + i
    <2>1. \A i \in 1..n : i \in DOMAIN batch
        BY <1>1
    <2>2. \A i \in 1..n : batch[i].seq = Len(file) + i
        BY <2>1 DEF Numbered
    <2>3. \A i \in 1..n : l[i] \in Written
        BY <1>3
    <2> QED BY <1>2, <1>3, <2>2, <2>3
<1>5. l \in Seq(DiskLine)
    <2>1. \A x \in Written : x \in DiskLine
        BY DEF Written, DiskLine
    <2> QED BY <1>3, <2>1
<1>6. /\ kept \in Seq(DiskLine) /\ Len(kept) = Len(file) + n /\ DOMAIN kept = 1..(Len(file) + n)
      /\ \A i \in 1..Len(file) : kept[i] = file[i]
      /\ \A i \in 1..n : kept[Len(file) + i] = l[i]
    <2>1. ASSUME NEW s \in Seq(DiskLine), NEW t \in Seq(DiskLine)
          PROVE  /\ s \o t \in Seq(DiskLine) /\ Len(s \o t) = Len(s) + Len(t)
                 /\ DOMAIN (s \o t) = 1..(Len(s) + Len(t))
                 /\ \A i \in 1..Len(s) : (s \o t)[i] = s[i]
                 /\ \A i \in 1..Len(t) : (s \o t)[Len(s) + i] = t[i]
        OBVIOUS
    <2> QED BY <1>1, <1>3, <1>5, <2>1
<1> HIDE DEF kept
<1>7. ASSUME NEW i \in DOMAIN kept
      PROVE  GoodLine(kept, i)
    <2>1. CASE i \in 1..Len(file)
        <3>1. GoodLine(file, i)
            BY <1>1, <2>1 DEF Numbered
        <3> QED BY <1>6, <2>1, <3>1 DEF GoodLine
    <2>2. CASE i \notin 1..Len(file)
        <3>1. PICK j \in 1..n : i = Len(file) + j
            <4>1. Len(file) \in Nat /\ i \in 1..(Len(file) + n)
                BY <1>1, <1>6
            <4>2. i - Len(file) \in 1..n /\ i = Len(file) + (i - Len(file))
                BY <2>2, <4>1
            <4> QED BY <4>2
        <3>2. kept[i] \in Written /\ kept[i].seq = i
            BY <1>4, <1>6, <3>1
        <3> QED BY <3>2, TornIsNoLine DEF GoodLine, Written
    <2> QED BY <2>1, <2>2
<1> QED BY <1>6, <1>7 DEF kept, l, w

-----------------------------------------------------------------------------
(* The steps of the journal, seen from the durable log. *)

(* Numbering goes on with the next number. *)
LEMMA NumbersGoOn ==
    ASSUME NEW q \in Seq(PendingWrite), NEW x \in PendingWrite, NEW from \in Nat,
           \A i \in DOMAIN q : q[i].seq = from + i, x.seq = from + Len(q) + 1
    PROVE  \A i \in DOMAIN Append(q, x) : Append(q, x)[i].seq = from + i
<1>1. /\ DOMAIN Append(q, x) = 1..(Len(q) + 1) /\ DOMAIN q = 1..Len(q) /\ Len(q) \in Nat
      /\ Append(q, x)[Len(q) + 1] = x /\ \A i \in 1..Len(q) : Append(q, x)[i] = q[i]
    OBVIOUS
<1>2. ASSUME NEW i \in 1..(Len(q) + 1)
      PROVE  Append(q, x)[i].seq = from + i
    <2>1. CASE i = Len(q) + 1
        BY <1>1, <2>1
    <2>2. CASE i # Len(q) + 1
        <3>1. i \in 1..Len(q)
            BY <1>1, <2>2
        <3> QED BY <1>1, <3>1
    <2> QED BY <2>1, <2>2
<1> QED BY <1>1, <1>2

(* No writes, no lines *)
LEMMA NoLines == Lines(<<>>) = <<>> /\ <<>> \in Seq(PendingWrite) /\ Len(<<>>) = 0
BY DEF Lines

(* append accepts one fact, at the end of the log. *)
LEMMA AppendMaps ==
    ASSUME TypeOK, JournalInv, failures = 0, NEW fact \in Facts, NEW waits \in BOOLEAN,
           AppendFact(fact, waits)
    PROVE  /\ JournalInv' /\ failures' = 0
           /\ PromisedLog' = Append(PromisedLog, fact)
           /\ AckedPrefix' = AckedPrefix
<1> DEFINE x == [seq |-> nextSeq, fact |-> fact, waits |-> waits]
<1>1. /\ process = "running" /\ Numbered /\ nextSeq' = nextSeq + 1
      /\ UNCHANGED <<file, acked, process, failures>>
    BY DEF AppendFact, JournalInv
<1>2. x \in PendingWrite /\ x.seq = nextSeq /\ Line(x) \in Written /\ Line(x).fact = fact
    BY DEF TypeOK, PendingWrite, Line, Written
<1>3. \/ drainer = "idle" /\ batch' = Append(queue, x) /\ queue' = <<>> /\ drainer' = "writing"
      \/ drainer # "idle" /\ queue' = Append(queue, x) /\ UNCHANGED <<batch, drainer>>
    BY DEF AppendFact
<1> HIDE DEF x
<1>4. /\ file \in Seq(DiskLine) /\ batch \in Seq(PendingWrite) /\ queue \in Seq(PendingWrite)
      /\ Len(file) \in Nat /\ Len(batch) \in Nat /\ Len(queue) \in Nat /\ nextSeq \in Nat
    BY DEF TypeOK, DiskLine
<1>5. Len(Append(queue, x)) = Len(queue) + 1 /\ Append(queue, x) \in Seq(PendingWrite)
    BY <1>2, <1>4
<1>6. Numbered' /\ Content' = Append(Content, Line(x))
    <2> DEFINE r == Readable(file)
    <2>0. r \in Seq(Written) /\ Readable(file)' = r
        BY <1>1, ContentType
    <2>1. CASE drainer = "idle"
        <3>1. batch = <<>> /\ queue = <<>> /\ batch' = Append(queue, x) /\ queue' = <<>>
            BY <1>3, <2>1 DEF JournalInv
        <3>2. x.seq = Len(file) + Len(queue) + 1
            BY <1>1, <1>2, <1>4, <3>1, NoLines DEF Numbered
        <3>3. \A i \in DOMAIN queue : queue[i].seq = Len(file) + i
            BY <3>1
        <3>4. \A i \in DOMAIN batch' : batch'[i].seq = Len(file) + i
            BY <1>2, <1>4, <3>1, <3>2, <3>3, NumbersGoOn
        <3>5. nextSeq' = Len(file) + Len(batch') + Len(queue') + 1
            BY <1>1, <1>2, <1>4, <1>5, <3>1, <3>2, NoLines
        <3>6. Numbered'
            BY <1>1, <3>1, <3>4, <3>5 DEF Numbered, GoodLine
        <3>7. Lines(batch') = Append(<<>>, Line(x))
            BY <1>2, <3>1, LinesOf, NoLines
        <3> DEFINE e == <<>>
                   y == Append(e, Line(x))
        <3> HIDE DEF r
        <3>8. e \in Seq(Written) /\ y \in Seq(Written)
            BY <1>2
        <3>9. r \o y \in Seq(Written) /\ r \o e = r /\ r \o e \o y = Append(r \o e \o e, Line(x))
              /\ (r \o y) \o e = r \o y
            <4> HIDE DEF e, y
            <4>1. r \o y \in Seq(Written)
                BY <2>0, <3>8
            <4>2. \A a \in Seq(Written) : a \o e = a
                BY Concatenations DEF e
            <4>3. r \o e \o Append(e, Line(x)) = Append(r \o e \o e, Line(x))
                BY <1>2, <2>0, <3>8, Concatenations
            <4> QED BY <2>0, <4>1, <4>2, <4>3 DEF y
        <3>10. Content = r \o e \o e
            BY <3>1, NoLines DEF Content, r
        <3>11. Content' = r \o y \o e
            BY <2>0, <3>1, <3>7, NoLines DEF Content
        <3> QED BY <3>6, <3>9, <3>10, <3>11
    <2>2. CASE drainer # "idle"
        <3>1. queue' = Append(queue, x) /\ batch' = batch
            BY <1>3, <2>2
        <3>2. x.seq = (Len(file) + Len(batch)) + Len(queue) + 1
            BY <1>1, <1>2, <1>4 DEF Numbered
        <3>3. \A i \in DOMAIN queue : queue[i].seq = (Len(file) + Len(batch)) + i
            BY <1>1 DEF Numbered
        <3>4. \A i \in DOMAIN queue' : queue'[i].seq = (Len(file) + Len(batch)) + i
            <4>1. Len(file) + Len(batch) \in Nat
                BY <1>4
            <4> QED BY <1>2, <1>4, <3>1, <3>2, <3>3, <4>1, NumbersGoOn
        <3>5. nextSeq' = Len(file) + Len(batch') + Len(queue') + 1
            BY <1>1, <1>2, <1>4, <1>5, <3>1, <3>2
        <3>6. Numbered'
            BY <1>1, <3>1, <3>4, <3>5 DEF Numbered, GoodLine
        <3>7. Lines(queue') = Append(Lines(queue), Line(x))
            BY <1>2, <1>4, <3>1, LinesOf
        <3> DEFINE b == Lines(batch)
                   c == Lines(queue)
        <3>8. b \in Seq(Written) /\ c \in Seq(Written)
            BY ContentType
        <3>9. Content = r \o b \o c /\ Content' = r \o b \o Append(c, Line(x))
            BY <2>0, <3>1, <3>7 DEF Content
        <3> HIDE DEF r, b, c
        <3>10. r \o b \o Append(c, Line(x)) = Append(r \o b \o c, Line(x))
            BY <1>2, <2>0, <3>8, Concatenations
        <3> QED BY <3>6, <3>9, <3>10
    <2> QED BY <2>1, <2>2
<1>7. JournalInv'
    BY <1>1, <1>3, <1>6 DEF JournalInv
<1>8. PromisedLog' = Append(PromisedLog, fact)
    <2>1. PromisedLog' = FactsOf(Content')
        BY DEF PromisedLog, Content, FactsOf
    <2>2. FactsOf(Append(Content, Line(x))) = Append(FactsOf(Content), Line(x).fact)
        BY <1>2, ContentType, FactsOfLines
    <2> QED BY <1>2, <1>6, <2>1, <2>2, ContentType
<1>9. AckedPrefix' = AckedPrefix
    BY <1>1 DEF AckedPrefix
<1> QED BY <1>1, <1>7, <1>8, <1>9

(* A written batch keeps the log and may acknowledge more of it. *)
LEMMA WriteMaps ==
    ASSUME TypeOK, JournalInv, failures = 0, WriteBatch
    PROVE  /\ JournalInv' /\ failures' = 0
           /\ PromisedLog' = PromisedLog
           /\ acked \subseteq acked'
<1>1. /\ process = "running" /\ process' = "running" /\ Numbered /\ failures' = failures
      /\ file' = file \o Lines(batch) /\ acked' = acked \cup Waiting(batch)
      /\ batch' = queue /\ queue' = <<>> /\ nextSeq' = nextSeq
      /\ drainer' = IF queue = <<>> THEN "ending" ELSE "writing"
    BY DEF WriteBatch, NextRound, JournalInv
<1>2. /\ file \in Seq(DiskLine) /\ batch \in Seq(PendingWrite) /\ queue \in Seq(PendingWrite)
      /\ Len(file) \in Nat /\ Len(batch) \in Nat /\ Len(queue) \in Nat
    BY DEF TypeOK, DiskLine
<1>3. /\ file' \in Seq(DiskLine) /\ Len(file') = Len(file) + Len(batch)
      /\ \A i \in DOMAIN file' : GoodLine(file', i)
    <2>1. SubSeq(batch, 1, Len(batch)) = batch /\ Len(batch) \in 0..Len(batch)
        BY <1>2
    <2> QED BY <1>1, <2>1, BatchWritten
<1>4. Readable(file) = file /\ Readable(file') = file'
    BY <1>1, <1>2, <1>3, ReadableWhole DEF Numbered
<1>5. Numbered'
    <2>1. \A i \in DOMAIN batch' : batch'[i].seq = Len(file') + i
        BY <1>1, <1>3 DEF Numbered
    <2>2. nextSeq' = Len(file') + Len(batch') + Len(queue') + 1
        BY <1>1, <1>2, <1>3, NoLines DEF Numbered
    <2>3. \A i \in DOMAIN queue' : queue'[i].seq = Len(file') + Len(batch') + i
        BY <1>1
    <2> QED BY <1>3, <2>1, <2>2, <2>3 DEF Numbered, GoodLine
<1>6. \A line \in acked' : line.seq <= Len(Readable(file'))
    <2>1. ASSUME NEW line \in acked
          PROVE  line.seq <= Len(file')
        <3>1. line.seq <= Len(file) /\ line.seq \in Nat
            BY <1>4 DEF JournalInv, TypeOK
        <3> QED BY <1>2, <1>3, <3>1
    <2>2. ASSUME NEW line \in Waiting(batch)
          PROVE  line.seq <= Len(file')
        <3>1. PICK i \in DOMAIN batch : line = Line(batch[i])
            BY DEF Waiting
        <3>2. line.seq = Len(file) + i /\ i \in 1..Len(batch)
            BY <1>1, <1>2, <3>1 DEF Line, Numbered
        <3> QED BY <1>2, <1>3, <3>2
    <2> QED BY <1>1, <1>4, <2>1, <2>2
<1>7. JournalInv'
    BY <1>1, <1>5, <1>6 DEF JournalInv
<1>8. Content' = Content
    <2> DEFINE b == Lines(batch)
               c == Lines(queue)
    <2>1. Content = Readable(file) \o b \o c
        BY DEF Content
    <2>2. Content' = (file \o b) \o c \o <<>>
        BY <1>1, <1>4, NoLines DEF Content
    <2>3. Content \in Seq(Written)
        BY ContentType
    <2> HIDE DEF b, c
    <2>4. Content = (file \o b) \o c
        BY <1>4, <2>1
    <2>5. \A a \in Seq(Written) : a \o <<>> = a
        BY Concatenations
    <2> QED BY <2>2, <2>3, <2>4, <2>5
<1>9. PromisedLog' = PromisedLog
    BY <1>8 DEF PromisedLog, Content
<1> QED BY <1>1, <1>7, <1>9

(* The end of a flush loop moves lines, and resume reads them: the log stays. *)
LEMMA FinishMaps ==
    ASSUME TypeOK, JournalInv, failures = 0, FinishDrain
    PROVE  /\ JournalInv' /\ failures' = 0
           /\ PromisedLog' = PromisedLog /\ AckedPrefix' = AckedPrefix
<1>1. /\ process = "running" /\ batch = <<>> /\ batch' = queue /\ queue' = <<>> /\ Numbered
      /\ UNCHANGED <<nextSeq, file, acked, process, failures>>
      /\ drainer' = IF queue = <<>> THEN "idle" ELSE "writing"
    BY DEF FinishDrain, JournalInv
<1>2. Len(file) \in Nat /\ Len(queue) \in Nat /\ file \in Seq(DiskLine) /\ queue \in Seq(PendingWrite)
    BY DEF TypeOK, DiskLine
<1>3. Numbered'
    <2>1. \A i \in DOMAIN batch' : batch'[i].seq = Len(file') + i
        <3>1. \A i \in DOMAIN queue : queue[i].seq = Len(file) + 0 + i
            BY <1>1, NoLines DEF Numbered
        <3> QED BY <1>1, <1>2, <3>1
    <2>2. nextSeq' = Len(file') + Len(batch') + Len(queue') + 1
        BY <1>1, <1>2, NoLines DEF Numbered
    <2>3. \A i \in DOMAIN queue' : queue'[i].seq = Len(file') + Len(batch') + i
        BY <1>1
    <2> QED BY <1>1, <2>1, <2>2, <2>3 DEF Numbered, GoodLine
<1>4. JournalInv'
    BY <1>1, <1>3 DEF JournalInv
<1>5. Content' = Content
    <2> DEFINE r == Readable(file)
               c == Lines(queue)
    <2>1. r \in Seq(Written) /\ c \in Seq(Written)
        BY ContentType
    <2>2. Content = r \o <<>> \o c /\ Content' = r \o c \o <<>>
        BY <1>1, NoLines DEF Content
    <2> HIDE DEF r, c
    <2>3. \A a \in Seq(Written) : a \o <<>> = a
        BY Concatenations
    <2>4. r \o c \in Seq(Written)
        BY <2>1
    <2> QED BY <2>1, <2>2, <2>3, <2>4
<1>6. PromisedLog' = PromisedLog
    BY <1>5 DEF PromisedLog, Content
<1>7. AckedPrefix' = AckedPrefix
    BY <1>1 DEF AckedPrefix
<1> QED BY <1>1, <1>4, <1>6, <1>7

(* Strict resume reads the log and changes nothing in it. *)
LEMMA ResumeMaps ==
    ASSUME TypeOK, JournalInv, failures = 0, Resume
    PROVE  /\ JournalInv' /\ failures' = 0
           /\ PromisedLog' = PromisedLog /\ AckedPrefix' = AckedPrefix
<1>1. /\ process = "down" /\ batch = <<>> /\ queue = <<>>
      /\ UNCHANGED <<queue, batch, drainer, file, acked, failures>>
      /\ nextSeq' = Len(Readable(file)) + 1
      /\ process' = IF Readable(file) = file THEN "running" ELSE "refused"
    BY DEF Resume, JournalInv
<1>2. Len(file) \in Nat /\ file \in Seq(DiskLine)
    BY DEF TypeOK, DiskLine
<1>3. process' = "running" => Numbered'
    <2> SUFFICES ASSUME process' = "running"
                 PROVE  Numbered'
        OBVIOUS
    <2>1. Readable(file) = file /\ \A i \in DOMAIN file : GoodLine(file, i)
        BY <1>1, <1>2, ReadableGood
    <2>2. nextSeq' = Len(file') + Len(batch') + Len(queue') + 1
        BY <1>1, <1>2, <2>1, NoLines
    <2> QED BY <1>1, <2>1, <2>2 DEF Numbered, GoodLine
<1>4. JournalInv'
    BY <1>1, <1>3 DEF JournalInv
<1>5. PromisedLog' = PromisedLog /\ AckedPrefix' = AckedPrefix
    BY <1>1 DEF PromisedLog, AckedPrefix
<1> QED BY <1>1, <1>4, <1>5

(* A crash cuts the log inside the batch: what was in the file stays. *)
LEMMA CrashMaps ==
    ASSUME TypeOK, JournalInv, failures = 0, NEW written \in 0..Len(batch),
           NEW torn \in BOOLEAN, Crash(written, torn)
    PROVE  /\ JournalInv' /\ failures' = 0 /\ AckedPrefix' = AckedPrefix
           /\ \E n \in Len(Readable(file))..Len(Content) :
                 PromisedLog' = SubSeq(PromisedLog, 1, n)
<1> DEFINE kept == file \o Lines(SubSeq(batch, 1, written))
           rest == IF torn THEN <<Torn>> ELSE <<>>
           n == Len(file) + written
<1>1. /\ process = "running" /\ process' = "down" /\ batch' = <<>> /\ queue' = <<>>
      /\ file' = kept \o rest /\ UNCHANGED <<acked, failures>> /\ Numbered /\ drainer' = "idle"
    BY DEF Crash, JournalInv
<1>2. /\ file \in Seq(DiskLine) /\ batch \in Seq(PendingWrite) /\ queue \in Seq(PendingWrite)
      /\ Len(file) \in Nat /\ Len(batch) \in Nat /\ Len(queue) \in Nat
    BY DEF TypeOK, DiskLine
<1>3. kept \in Seq(DiskLine) /\ Len(kept) = n /\ \A i \in DOMAIN kept : GoodLine(kept, i)
    BY <1>1, BatchWritten
<1>4. rest \in Seq(DiskLine) /\ (rest = <<>> \/ rest = <<Torn>>)
    BY TornType
<1>5. Readable(file) = file
    BY <1>1, <1>2, ReadableWhole DEF Numbered
<1>6. kept = file \o SubSeq(Lines(batch), 1, written)
    BY <1>2, LinesOf
<1> HIDE DEF kept, rest
<1>7. Readable(file') = kept
    <2> DEFINE f == kept \o rest
    <2>1. /\ f \in Seq(DiskLine) /\ Len(f) = n + Len(rest) /\ n \in 0..Len(f)
          /\ \A i \in 1..n : f[i] = kept[i]
          /\ rest = <<Torn>> => f[n + 1] = Torn
          /\ rest = <<>> => Len(f) = n
          /\ SubSeq(f, 1, n) = kept
        <3>1. ASSUME NEW s \in Seq(DiskLine), NEW t \in Seq(DiskLine)
              PROVE  /\ s \o t \in Seq(DiskLine) /\ Len(s \o t) = Len(s) + Len(t)
                     /\ \A i \in 1..Len(s) : (s \o t)[i] = s[i]
                     /\ SubSeq(s \o t, 1, Len(s)) = s
                     /\ Len(t) = 1 => (s \o t)[Len(s) + 1] = t[1]
            OBVIOUS
        <3>2. rest = <<Torn>> => Len(rest) = 1 /\ rest[1] = Torn
            OBVIOUS
        <3>3. rest = <<>> => Len(rest) = 0
            OBVIOUS
        <3>4. Len(rest) \in Nat /\ n \in Nat
            BY <1>2, <1>4
        <3> HIDE DEF n
        <3>5. /\ f \in Seq(DiskLine) /\ Len(f) = Len(kept) + Len(rest)
              /\ \A i \in 1..Len(kept) : f[i] = kept[i]
              /\ SubSeq(f, 1, Len(kept)) = kept
              /\ Len(rest) = 1 => f[Len(kept) + 1] = rest[1]
            BY <1>3, <1>4, <3>1
        <3> HIDE DEF f
        <3>6. Len(f) = n + Len(rest) /\ n \in 0..Len(f)
            BY <1>3, <3>4, <3>5
        <3>7. rest = <<Torn>> => f[n + 1] = Torn
            BY <1>3, <3>2, <3>5
        <3>8. rest = <<>> => Len(f) = n
            BY <3>3, <3>4, <3>6
        <3> QED BY <1>3, <3>5, <3>6, <3>7, <3>8
    <2> HIDE DEF f, n
    <2>2. \A i \in 1..n : GoodLine(f, i)
        <3>1. \A i \in 1..n : i \in DOMAIN kept
            BY <1>3
        <3> QED BY <1>3, <2>1, <3>1 DEF GoodLine
    <2>3. n < Len(f) => ~ GoodLine(f, n + 1)
        <3>1. n \in Nat
            BY <2>1
        <3>2. CASE rest = <<>>
            BY <2>1, <3>1, <3>2
        <3>3. CASE rest = <<Torn>>
            BY <2>1, <3>3 DEF GoodLine
        <3> QED BY <1>4, <3>2, <3>3
    <2>4. Readable(f) = SubSeq(f, 1, n)
        BY <2>1, <2>2, <2>3, ReadableIs
    <2> QED BY <1>1, <2>1, <2>4 DEF f
<1>8. JournalInv'
    <2>1. ASSUME NEW line \in acked
          PROVE  line.seq <= n
        <3>1. line.seq \in Nat /\ line.seq <= Len(file)
            BY <1>5 DEF JournalInv, TypeOK
        <3> QED BY <1>2, <3>1
    <2> QED BY <1>1, <1>3, <1>7, <2>1 DEF JournalInv
<1>9. Content' = SubSeq(Content, 1, n)
    <2> DEFINE r == Readable(file)
               b == Lines(batch)
               c == Lines(queue)
    <2>1. /\ r \in Seq(Written) /\ b \in Seq(Written) /\ c \in Seq(Written) /\ Len(b) = Len(batch)
          /\ Content = r \o b \o c /\ r = file
        BY <1>2, <1>5, ContentType, LinesOf DEF Content
    <2>2. Content' = kept \o <<>> \o <<>>
        BY <1>1, <1>7, NoLines DEF Content
    <2>3. kept = r \o SubSeq(b, 1, written)
        BY <1>6, <2>1
    <2> HIDE DEF r, b, c
    <2>4. kept = SubSeq(r \o b \o c, 1, Len(r) + written)
        BY <2>1, <2>3, Concatenations
    <2>5. \A a \in Seq(DiskLine) : a \o <<>> = a
        OBVIOUS
    <2> QED BY <1>3, <2>1, <2>2, <2>4, <2>5
<1>10. n \in Len(Readable(file))..Len(Content) /\ n \in 0..Len(Content)
    BY <1>2, <1>5, ContentType
<1>11. PromisedLog' = SubSeq(PromisedLog, 1, n)
    <2> HIDE DEF n
    <2>1. PromisedLog' = FactsOf(Content')
        BY DEF PromisedLog, Content, FactsOf
    <2>2. FactsOf(SubSeq(Content, 1, n)) = SubSeq(FactsOf(Content), 1, n)
        BY <1>10, ContentType, FactsOfLines
    <2> QED BY <1>9, <2>1, <2>2, ContentType
<1>12. AckedPrefix' = AckedPrefix
    BY <1>1 DEF AckedPrefix
<1> QED BY <1>1, <1>8, <1>10, <1>11, <1>12

-----------------------------------------------------------------------------
(* JournalInv is inductive, together with TypeOK. *)
LEMMA JournalStep ==
    ASSUME TypeOK, JournalInv, [Next]_vars
    PROVE  JournalInv'
<1>1. CASE failures # 0
    <2>1. failures' \in {failures, failures + 1}
        BY DEF Next, AppendFact, WriteBatch, FailBatch, FinishDrain, Crash, Resume, Rest, vars
    <2>2. failures' # 0
        BY <1>1, <2>1 DEF TypeOK
    <2> QED BY <2>2 DEF JournalInv
<1>2. CASE failures = 0
    <2>1. ASSUME NEW written \in 0..Len(batch), FailBatch(written)
          PROVE  JournalInv'
        BY <1>2, <2>1 DEF FailBatch, JournalInv
    <2>2. CASE UNCHANGED vars
        <3>1. UNCHANGED <<nextSeq, queue, batch, drainer, file, acked, process, failures>>
            BY <2>2 DEF vars
        <3> QED BY <3>1 DEF JournalInv, Numbered, GoodLine
    <2> QED BY <1>2, <2>1, <2>2, AppendMaps, WriteMaps, FinishMaps, CrashMaps, ResumeMaps
        DEF Next, Rest
<1> QED BY <1>1, <1>2

(* The numbering of the journal has no gap while no write has failed. *)
THEOREM JournalInvHolds == Spec => [](TypeOK /\ JournalInv)
<1>1. Init => JournalInv
    BY DEF Init, JournalInv, Numbered
<1>2. TypeOK /\ JournalInv /\ [Next]_vars => (TypeOK /\ JournalInv)'
    BY TypeStep, JournalStep
<1>3. Init => TypeOK
    BY DEF Init, TypeOK
<1> QED BY <1>1, <1>2, <1>3, PTL DEF Spec

-----------------------------------------------------------------------------
(* What has been acknowledged is in the log. *)
LEMMA AckedInLog ==
    TypeOK /\ JournalInv /\ failures = 0 =>
        /\ AckedPrefix \in 0..Len(Readable(file))
        /\ AckedPrefix \in 0..Len(PromisedLog) /\ PromisedLog = FactsOf(Content)
        /\ Len(PromisedLog) = Len(Content) /\ Len(PromisedLog) \in Nat
        /\ \A line \in acked : line.seq <= AckedPrefix
        /\ AckedPrefix = 0 \/ \E line \in acked : line.seq = AckedPrefix
<1> SUFFICES ASSUME TypeOK, JournalInv, failures = 0
             PROVE  /\ AckedPrefix \in 0..Len(PromisedLog)
                    /\ Len(PromisedLog) = Len(Content) /\ Len(PromisedLog) \in Nat
    BY AckedPrefixIs, ContentType
<1>1. Len(FactsOf(Content)) = Len(Content) /\ Len(Content) \in Nat
    BY ContentType, FactsOfLines
<1>2. Len(Readable(file)) <= Len(Content) /\ Len(Readable(file)) \in Nat
    <2>1. Len(Readable(file)) \in Nat /\ Len(batch) \in Nat /\ Len(queue) \in Nat
        BY ContentType DEF TypeOK
    <2> QED BY <2>1, ContentType
<1> QED BY <1>1, <1>2, AckedPrefixIs, ContentType

(* What is acknowledged once stays acknowledged: the prefix only grows. *)
LEMMA AckedGrows ==
    TypeOK /\ JournalInv /\ failures = 0 /\ (TypeOK /\ JournalInv /\ failures = 0)'
        /\ acked \subseteq acked' => AckedPrefix' \in AckedPrefix..Len(PromisedLog')
<1>1. TypeOK /\ JournalInv /\ failures = 0 =>
        /\ AckedPrefix \in 0..Len(PromisedLog) /\ Len(PromisedLog) \in Nat
        /\ \A line \in acked : line.seq <= AckedPrefix
    BY AckedInLog
<1>2. (TypeOK /\ JournalInv /\ failures = 0 =>
        /\ AckedPrefix \in 0..Len(PromisedLog) /\ Len(PromisedLog) \in Nat
        /\ \A line \in acked : line.seq <= AckedPrefix)'
    BY <1>1, PTL
<1> SUFFICES ASSUME TypeOK, JournalInv, failures = 0, (TypeOK /\ JournalInv /\ failures = 0)',
                    acked \subseteq acked'
             PROVE  AckedPrefix' \in AckedPrefix..Len(PromisedLog')
    OBVIOUS
<1>3. /\ AckedPrefix' \in 0..Len(PromisedLog') /\ Len(PromisedLog') \in Nat
      /\ \A line \in acked' : line.seq <= AckedPrefix'
    BY <1>2
<1>4. AckedPrefix \in Nat /\ (AckedPrefix = 0 \/ \E line \in acked : line.seq = AckedPrefix)
    BY AckedInLog
<1>5. AckedPrefix <= AckedPrefix'
    BY <1>3, <1>4
<1> QED BY <1>3, <1>4, <1>5

(* Every step of the journal is a step of the durable log, or changes      *)
(* nothing that the log promises.                                          *)
LEMMA StepIsPromised ==
    ASSUME TypeOK, JournalInv, TypeOK', JournalInv', [Next]_vars
    PROVE  [Promise!Next]_(Promise!vars)
<1>0. failures \in Nat /\ failures' \in Nat
    BY DEF TypeOK
<1>1. CASE failures # 0
    <2>1. failures' \in {failures, failures + 1}
        BY DEF Next, AppendFact, WriteBatch, FailBatch, FinishDrain, Crash, Resume, Rest, vars
    <2>2. failures' # 0 /\ failures > 0 /\ failures' > 0
        BY <1>0, <1>1, <2>1
    <2> QED BY <1>1, <2>2 DEF Promise!vars
<1>2. CASE failures = 0
    <2> USE <1>2
    <2>0. ~ (failures > 0)
        BY <1>2
    <2>1. ASSUME NEW written \in 0..Len(batch), FailBatch(written)
          PROVE  Promise!WriteError
        <3>1. failures' = 1
            BY <2>1 DEF FailBatch
        <3>2. failures' # 0 /\ failures' > 0
            BY <3>1
        <3> QED BY <3>2 DEF Promise!WriteError
    <2>2. ASSUME NEW fact \in Facts, NEW waits \in BOOLEAN, AppendFact(fact, waits)
          PROVE  Promise!Accept(fact)
        <3>1. failures' = 0 /\ PromisedLog' = Append(PromisedLog, fact) /\ AckedPrefix' = AckedPrefix
            BY <2>2, AppendMaps
        <3>2. ~ (failures' > 0)
            BY <3>1
        <3> QED BY <2>0, <3>1, <3>2 DEF Promise!Accept
    <2>3. ASSUME failures' = 0, PromisedLog' = PromisedLog, AckedPrefix' = AckedPrefix
          PROVE  UNCHANGED Promise!vars
        <3>1. ~ (failures' > 0)
            BY <2>3
        <3> QED BY <2>0, <2>3, <3>1 DEF Promise!vars
    <2>4. CASE WriteBatch
        <3>1. failures' = 0 /\ PromisedLog' = PromisedLog /\ acked \subseteq acked'
            BY <2>4, WriteMaps
        <3>2. AckedPrefix' \in AckedPrefix..Len(PromisedLog) /\ AckedPrefix \in 0..Len(PromisedLog)
              /\ Len(PromisedLog) \in Nat
            BY <3>1, AckedGrows, AckedInLog
        <3>3. CASE AckedPrefix' = AckedPrefix
            BY <2>3, <3>1, <3>3
        <3>4. CASE AckedPrefix' # AckedPrefix
            <4>1. AckedPrefix' \in (AckedPrefix + 1)..Len(PromisedLog)
                  /\ AckedPrefix' \in 1..Len(PromisedLog)
                BY <3>2, <3>4
            <4>2. ~ (failures' > 0)
                BY <3>1
            <4>3. Promise!Acknowledge(AckedPrefix')
                BY <2>0, <3>1, <4>1, <4>2 DEF Promise!Acknowledge
            <4> QED BY <4>1, <4>3 DEF Promise!Next
        <3> QED BY <3>3, <3>4
    <2>5. ASSUME NEW written \in 0..Len(batch), NEW torn \in BOOLEAN, Crash(written, torn)
          PROVE  Promise!Next
        <3>1. /\ failures' = 0 /\ AckedPrefix' = AckedPrefix
              /\ \E n \in Len(Readable(file))..Len(Content) :
                    PromisedLog' = SubSeq(PromisedLog, 1, n)
            BY <2>5, CrashMaps
        <3>2. PICK n \in Len(Readable(file))..Len(Content) :
                    PromisedLog' = SubSeq(PromisedLog, 1, n)
            BY <3>1
        <3>3. n \in AckedPrefix..Len(PromisedLog) /\ n \in 0..Len(PromisedLog)
            <4>1. AckedPrefix \in 0..Len(Readable(file)) /\ Len(Readable(file)) \in Nat
                  /\ Len(PromisedLog) = Len(Content) /\ Len(PromisedLog) \in Nat
                BY AckedInLog, ContentType
            <4> QED BY <4>1
        <3>4. ~ (failures' > 0)
            BY <3>1
        <3>5. Promise!Crash(n)
            BY <2>0, <3>1, <3>2, <3>3, <3>4 DEF Promise!Crash
        <3> QED BY <3>3, <3>5 DEF Promise!Next
    <2>6. CASE FinishDrain
        BY <2>3, <2>6, FinishMaps
    <2>7. CASE Resume
        BY <2>3, <2>7, ResumeMaps
    <2>8. CASE UNCHANGED vars
        <3>1. UNCHANGED <<queue, batch, file, acked, failures>>
            BY <2>8 DEF vars
        <3>2. PromisedLog' = PromisedLog /\ AckedPrefix' = AckedPrefix
            BY <3>1 DEF PromisedLog, AckedPrefix
        <3> QED BY <2>3, <3>1, <3>2
    <2> QED BY <2>1, <2>2, <2>4, <2>5, <2>6, <2>7, <2>8 DEF Next, Rest, Promise!Next
<1> QED BY <1>1, <1>2

(* The journal and its loader implement the durable log (append, flushLoop  *)
(* and strict resume of SessionJournal.ts): for every set of facts and any  *)
(* number of crashes, torn lines and resumes, no acknowledged fact is lost, *)
(* moved or rewritten until a write fails.                                  *)
THEOREM JournalIsDurable == Spec => ImplementsDurableLog
<1>1. Init => Promise!Init
    <2> SUFFICES ASSUME Init
                 PROVE  Promise!Init
        OBVIOUS
    <2>1. TypeOK /\ JournalInv /\ failures = 0 /\ acked = {} /\ ~ (failures > 0)
        BY DEF Init, TypeOK, JournalInv, Numbered
    <2>2. AckedPrefix = 0
        BY <2>1, AckedPrefixIs
    <2>3. PromisedLog = <<>>
        <3>1. file = <<>> /\ batch = <<>> /\ queue = <<>>
            BY DEF Init
        <3>2. Readable(file) = <<>>
            <4>1. <<>> \in Seq(DiskLine) /\ \A i \in DOMAIN <<>> : GoodLine(<<>>, i)
                OBVIOUS
            <4> QED BY <3>1, <4>1, ReadableWhole
        <3>3. Readable(file) \o Lines(batch) \o Lines(queue) = <<>>
            BY <3>1, <3>2, NoLines
        <3> QED BY <3>3 DEF PromisedLog
    <2> QED BY <2>1, <2>2, <2>3 DEF Promise!Init
<1>2. TypeOK /\ JournalInv /\ (TypeOK /\ JournalInv)' /\ [Next]_vars => [Promise!Next]_(Promise!vars)
    BY StepIsPromised
<1> QED BY <1>1, <1>2, JournalInvHolds, PTL DEF Spec, ImplementsDurableLog, Promise!Spec

-----------------------------------------------------------------------------
(* Calibration: the invariant *)

(* Types *)
Outcomes == {"effective", "ineffective"}
Ids == Sessions \X Nat
Sample == [session : Sessions, id : Ids, trigger : Triggers, action : Actions, outcome : Outcomes]
SourceType == [session : Sessions, through : Nat, samples : SUBSET Sample]
EntryType == [trigger : Triggers, action : Actions, samples : Nat, effective : Nat, rate : Int]
Profile == [sourceSessions : Nat, pairedOutcomes : Nat, entries : SUBSET EntryType]
Selected ==
    [origin : {"history_scan", "legacy_backfill"}, cutoff : Nat, sources : SUBSET SourceType,
     status : {"history_unavailable", "no_history", "complete"}, profile : Profile]
Reflection ==
    [id : Ids, trigger : Triggers, action : Actions, base : 1..20, window : 1..20,
     calibration : Selected \cup {None}]
State == [selection : Selected \cup {None}, reflections : SUBSET Reflection, evaluated : SUBSET Ids]
Fact ==
    [type : {"run", "branch"}, time : Nat]
        \cup [type : {"selected"}, time : Nat, selection : Selected \cup {None}]
        \cup [type : {"recorded"}, time : Nat, reflection : Reflection]
        \cup [type : {"evaluated"}, time : Nat, id : Ids, outcome : Outcomes, observed : Nat]
        \cup [type : {"snapshot"}, time : Nat, state : State, lastSeq : Nat]
        \cup [type : {"corrupt"}]
BootType ==
    [selection : Selected \cup {None}, pinned : BOOLEAN, enabled : BOOLEAN,
     from : Sessions \cup {0}, length : Nat]

Typed ==
    /\ journal \in [Sessions -> Seq(Fact)]
    /\ phase \in [Sessions -> Phases]
    /\ boot \in [Sessions -> BootType]
    /\ live \in [Sessions -> State]
    /\ clock \in Nat

(* The replay of the first i facts, and its state *)
Run(facts, i) == ReplayFrom(Empty, SubSeq(facts, 1, i))
At(facts, i) == Run(facts, i).state

(* Facts are in the order of their times, and a run comes first. *)
Dated(facts, now) ==
    /\ \A i \in 1..Len(facts) : facts[i].type # "corrupt" => facts[i].time <= now
    /\ \A i, j \in 1..Len(facts) :
        i < j /\ facts[i].type # "corrupt" /\ facts[j].type # "corrupt"
            => facts[i].time <= facts[j].time
    /\ facts # <<>> => facts[1].type \in {"run", "corrupt"}

(* A journal that replays: no fact is refused, a reflection has its position *)
(* for its id, and a snapshot holds the state of the facts before it.       *)
Faithful(s, facts) ==
    /\ \A i \in 0..Len(facts) : Run(facts, i).ok
    /\ \A i \in 1..Len(facts) :
        /\ facts[i].type = "recorded" => facts[i].reflection.id = <<s, i>>
        /\ facts[i].type = "snapshot" =>
            facts[i].lastSeq = i - 1 /\ facts[i].state = At(facts, i - 1)

(* How much of its own journal a boot has loaded *)
Own(s) == IF boot[s].from = s THEN boot[s].length ELSE 0

(* A boot agrees with the journal it has loaded: what it has chosen is      *)
(* pinned there, or there is nothing pinned yet.                            *)
Opening == {"booting", "started", "opening"}

BootFits(s) ==
    LET b == boot[s]
        before == At(journal[s], Own(s))
        now == At(journal[s], Len(journal[s])) IN
    /\ phase[s] = "new" => journal[s] = <<>>
    /\ phase[s] \in {"started", "opening", "running"} => journal[s] # <<>>
    /\ b.pinned => b.selection # None
    /\ phase[s] \in Opening =>
        /\ b.from \in Sessions /\ b.length <= Len(journal[b.from])
        /\ b.from # s => OfType(journal[s], "evaluated") = {}
        /\ Own(s) <= Len(journal[s])
        /\ Ordinary(s) =>
            /\ IF b.pinned THEN b.selection = before.selection ELSE before.selection = None
            /\ phase[s] # "opening" => now = before
            /\ phase[s] = "opening" =>
                now = IF b.selection = None THEN before
                      ELSE [before EXCEPT !.selection = b.selection]

(* A running session works with what its journal says. *)
LiveFits(s) ==
    phase[s] = "running" /\ Ordinary(s) => live[s] = At(journal[s], Len(journal[s]))

(* What a session has chosen or pinned *)
Selections(s) ==
    {boot[s].selection} \cup {journal[s][i].selection : i \in OfType(journal[s], "selected")}

(* One entry for a trigger and an action *)
Keyed(p) == \A d, e \in p.entries : d.trigger = e.trigger /\ d.action = e.action => d = e

(* A journal still holds what a selection says it was read for. *)
SourceFits(a, cutoff) ==
    /\ a.through <= Len(journal[a.session])
    /\ Lifecycle(a.session, SubSeq(journal[a.session], 1, a.through)).samples = a.samples
    /\ OfType(journal[a.session], "branch") = {}
    /\ \A i \in 1..a.through : journal[a.session][i].time <= cutoff

(* A selection the session may have made: it passes its check, its sources  *)
(* are other sessions that still hold what was read, and all of it is from  *)
(* before the session began.                                                *)
Learned(s, x) ==
    /\ IsSelection(x) /\ Keyed(x.profile)
    /\ x.cutoff <= clock
    /\ journal[s] # <<>> /\ journal[s][1].type # "corrupt" => x.cutoff <= journal[s][1].time
    /\ \A a \in x.sources :
        /\ a.session # s
        /\ Intact(journal[a.session]) => SourceFits(a, x.cutoff)

(* Every selection in a journal is one. *)
Named(log) == \A i \in OfType(log, "selected") : log[i].selection # None

(* Finitely many sessions have begun. *)
Begun == {s \in Sessions : journal[s] # <<>>}

(* The invariant *)
Sound(s) ==
    /\ Dated(journal[s], clock)
    /\ Named(journal[s])
    /\ Ordinary(s) => Faithful(s, journal[s])
    /\ BootFits(s)
    /\ LiveFits(s)
    /\ \A x \in Selections(s) : x # None => Learned(s, x)

CalibrationInv == Typed /\ IsFiniteSet(Begun) /\ \A s \in Sessions : Sound(s)

-----------------------------------------------------------------------------
(* Positions and sequences *)

(* A set of numbers that has 0 and, below n, the successor of each of its   *)
(* members has all numbers up to n.                                         *)
LEMMA Climbs ==
    ASSUME NEW n \in Nat, NEW S, 0 \in S, \A i \in Nat : i < n /\ i \in S => i + 1 \in S
    PROVE  \A i \in 0..n : i \in S
<1> DEFINE T == {i \in Nat : i <= n /\ i \notin S}
<1> SUFFICES ASSUME T # {}
             PROVE  FALSE
    OBVIOUS
<1>1. PICK x \in T : \A y \in T : <<y, x>> \notin OpToRel(<, Nat)
    <2>1. T \subseteq Nat
        OBVIOUS
    <2> HIDE DEF T
    <2> QED BY <2>1, NatLessThanWellFounded, WFMin
<1>2. x \in Nat /\ x <= n /\ x \notin S /\ x # 0
    OBVIOUS
<1>3. x - 1 \in Nat /\ x - 1 < x /\ x - 1 < n /\ (x - 1) + 1 = x
    BY <1>2
<1>4. x - 1 \notin T
    <2>1. <<x - 1, x>> \in OpToRel(<, Nat)
        BY <1>2, <1>3 DEF OpToRel
    <2> QED BY <1>1, <2>1
<1>5. x - 1 \in S
    BY <1>2, <1>3, <1>4
<1> QED BY <1>2, <1>3, <1>5

(* f takes n steps from s. *)
Unfolded(n, D, s, step, f) ==
    f \in [0..n -> D] /\ f[0] = s /\ \A i \in 1..n : f[i] = step[i][f[i - 1]]

(* Steps that stay in a set can be taken one after another. *)
LEMMA Unfolds ==
    ASSUME NEW n \in Nat, NEW D, NEW s \in D, NEW step \in [1..n -> [D -> D]]
    PROVE  \E f : Unfolded(n, D, s, step, f)
<1> DEFINE Part(m, f) == f[0] = s /\ \A i \in 1..m : f[i] = step[i][f[i - 1]]
           S == {m \in Nat : \E f \in [0..m -> D] : Part(m, f)}
<1>1. 0 \in S
    <2>1. [i \in 0..0 |-> s] \in [0..0 -> D] /\ Part(0, [i \in 0..0 |-> s])
        OBVIOUS
    <2> QED BY <2>1
<1>2. ASSUME NEW m \in Nat, m < n, m \in S
      PROVE  m + 1 \in S
    <2>1. PICK f \in [0..m -> D] : Part(m, f)
        BY <1>2
    <2> DEFINE g == [i \in 0..(m + 1) |-> IF i = m + 1 THEN step[m + 1][f[m]] ELSE f[i]]
    <2>2. m \in 0..m /\ m + 1 \in 1..n /\ m + 1 \in 0..(m + 1) /\ 0 \in 0..(m + 1) /\ 0 # m + 1
        BY <1>2
    <2>3. f[m] \in D
        BY <2>2
    <2>4. step[m + 1] \in [D -> D]
        BY <2>2
    <2>5. step[m + 1][f[m]] \in D
        BY <2>3, <2>4
    <2>6. \A i \in 0..(m + 1) : i # m + 1 => i \in 0..m
        OBVIOUS
    <2>7. g \in [0..(m + 1) -> D]
        BY <2>5, <2>6
    <2>8. g[0] = s
        BY <2>1, <2>2
    <2>9. ASSUME NEW i \in 1..(m + 1)
          PROVE  g[i] = step[i][g[i - 1]]
        <3>1. i \in 0..(m + 1) /\ i - 1 \in 0..(m + 1) /\ i - 1 # m + 1
            OBVIOUS
        <3>2. g[i - 1] = f[i - 1]
            BY <3>1
        <3>3. CASE i = m + 1
            <4>1. g[i] = step[m + 1][f[m]] /\ i - 1 = m
                BY <3>1, <3>3
            <4> QED BY <3>2, <3>3, <4>1
        <3>4. CASE i # m + 1
            <4>1. i \in 1..m /\ g[i] = f[i]
                BY <3>1, <3>4
            <4> QED BY <2>1, <3>2, <4>1
        <3> QED BY <3>3, <3>4
    <2>10. Part(m + 1, g)
        BY <2>8, <2>9
    <2> HIDE DEF g, Part
    <2>11. \E h \in [0..(m + 1) -> D] : Part(m + 1, h)
        BY <2>7, <2>10
    <2> QED BY <2>11
<1> HIDE DEF S
<1>3. \A i \in Nat : i < n /\ i \in S => i + 1 \in S
    BY <1>2
<1>4. \A i \in 0..n : i \in S
    BY <1>1, <1>3, Climbs
<1>5. n \in S
    BY <1>4
<1> QED BY <1>5 DEF S, Unfolded

(* The least number of a set *)
LEMMA LeastOf ==
    ASSUME NEW S, S \subseteq Nat, S # {}
    PROVE  Min(S) \in S /\ \A y \in S : Min(S) <= y
<1>1. PICK x \in S : \A y \in S : <<y, x>> \notin OpToRel(<, Nat)
    BY NatLessThanWellFounded, WFMin
<1>2. \A y \in S : x <= y
    <2> TAKE y \in S
    <2>1. ~ y < x
        <3>1. y < x => <<y, x>> \in OpToRel(<, Nat)
            BY DEF OpToRel
        <3> QED BY <1>1, <3>1
    <2> QED BY <2>1
<1> QED BY <1>1, <1>2 DEF Min

(* The greatest number of a bounded set *)
LEMMA GreatestOf ==
    ASSUME NEW n \in Nat, NEW S, S \subseteq 0..n, S # {}
    PROVE  Max(S) \in S /\ \A y \in S : Max(S) >= y
<1> DEFINE D == {k \in 0..n : n - k \in S}
<1>1. D \subseteq Nat
    OBVIOUS
<1>2. D # {}
    <2>1. PICK y \in S : TRUE
        OBVIOUS
    <2>2. n - y \in 0..n /\ n - (n - y) = y
        OBVIOUS
    <2> QED BY <2>1, <2>2
<1> HIDE DEF D
<1>3. Min(D) \in D /\ \A k \in D : Min(D) <= k
    BY <1>1, <1>2, LeastOf
<1> DEFINE x == n - Min(D)
<1>4. x \in S
    BY <1>3 DEF D
<1>5. \A y \in S : x >= y
    <2> TAKE y \in S
    <2>1. n - y \in 0..n /\ n - (n - y) = y
        OBVIOUS
    <2>2. n - y \in D
        BY <2>1 DEF D
    <2>3. Min(D) <= n - y /\ Min(D) \in 0..n
        BY <1>3, <2>2 DEF D
    <2> QED BY <2>1, <2>3
<1> HIDE DEF x
<1> QED BY <1>4, <1>5 DEF Max

(* A sequence grows fact by fact. *)
LEMMA GrowByOne ==
    ASSUME NEW T, NEW b \in Seq(T), NEW i \in Nat, i < Len(b)
    PROVE  /\ SubSeq(b, 1, i) \in Seq(T) /\ b[i + 1] \in T
           /\ SubSeq(b, 1, i + 1) = Append(SubSeq(b, 1, i), b[i + 1])
<1>1. Len(b) \in Nat /\ i + 1 \in 1..Len(b) /\ i \in 0..Len(b)
    OBVIOUS
<1>2. SubSeq(b, 1, i) \in Seq(T) /\ Len(SubSeq(b, 1, i)) = i /\ b[i + 1] \in T
    BY <1>1
<1>3. SubSeq(b, 1, i + 1) \in Seq(T) /\ Len(SubSeq(b, 1, i + 1)) = i + 1
    BY <1>1
<1> DEFINE u == SubSeq(b, 1, i + 1)
           v == Append(SubSeq(b, 1, i), b[i + 1])
<1>4. v \in Seq(T) /\ Len(v) = i + 1
    BY <1>2
<1>5. \A k \in 1..(i + 1) : u[k] = b[k]
    BY <1>1
<1>6. \A k \in 1..(i + 1) : v[k] = b[k]
    <2> TAKE k \in 1..(i + 1)
    <2>1. CASE k = i + 1
        BY <1>2, <2>1
    <2>2. CASE k # i + 1
        <3>1. k \in 1..i /\ SubSeq(b, 1, i)[k] = b[k]
            BY <1>1, <2>2
        <3> QED BY <1>2, <3>1
    <2> QED BY <2>1, <2>2
<1> HIDE DEF u, v
<1>7. u = v
    BY <1>3, <1>4, <1>5, <1>6 DEF u
<1> QED BY <1>2, <1>7 DEF u, v

(* A log is its first facts and the rest. *)
LEMMA CutInTwo ==
    ASSUME NEW T, NEW log \in Seq(T), NEW m \in 1..Len(log)
    PROVE  /\ SubSeq(log, 1, m - 1) \in Seq(T) /\ SubSeq(log, m, Len(log)) \in Seq(T)
           /\ log = SubSeq(log, 1, m - 1) \o SubSeq(log, m, Len(log))
<1> DEFINE a == SubSeq(log, 1, m - 1)
           b == SubSeq(log, m, Len(log))
<1>1. a \in Seq(T) /\ Len(a) = m - 1 /\ b \in Seq(T) /\ Len(b) = Len(log) - m + 1
    OBVIOUS
<1>2. \A k \in 1..(m - 1) : a[k] = log[k]
    OBVIOUS
<1>3. \A k \in 1..(Len(log) - m + 1) : b[k] = log[m + k - 1]
    OBVIOUS
<1> HIDE DEF a, b
<1>4. a \o b \in Seq(T) /\ Len(a \o b) = Len(log)
    BY <1>1
<1>5. ASSUME NEW k \in 1..Len(log)
      PROVE  (a \o b)[k] = log[k]
    <2>1. CASE k <= m - 1
        BY <1>1, <1>2, <2>1
    <2>2. CASE k > m - 1
        <3>1. k - (m - 1) \in 1..(Len(log) - m + 1) /\ m + (k - (m - 1)) - 1 = k
            BY <2>2
        <3>2. (a \o b)[k] = b[k - (m - 1)]
            BY <1>1, <2>2
        <3>3. b[k - (m - 1)] = log[m + (k - (m - 1)) - 1]
            BY <1>3, <3>1
        <3> QED BY <3>1, <3>2, <3>3
    <2>3. k <= m - 1 \/ k > m - 1
        OBVIOUS
    <2> HIDE DEF a, b
    <2> QED BY <2>1, <2>2, <2>3, Zenon
<1>6. log = a \o b
    <2> DEFINE c == a \o b
    <2>1. c \in Seq(T) /\ Len(c) = Len(log) /\ \A k \in 1..Len(log) : c[k] = log[k]
        BY <1>4, <1>5
    <2> HIDE DEF c
    <2>2. c = log
        BY <2>1
    <2> QED BY <2>2 DEF c
<1> QED BY <1>1, <1>6 DEF a, b

-----------------------------------------------------------------------------
(* Sums over finite sets *)

One(T) == CHOOSE x \in T : TRUE

(* f adds up w over each subset of S. *)
Added(S, w, f) ==
    f = [T \in SUBSET S |-> IF T = {} THEN 0 ELSE f[T \ {One(T)}] + w[One(T)]]

(* A set that is not empty has a member less once one is taken out. *)
LEMMA OneLess ==
    ASSUME NEW S, IsFiniteSet(S), NEW T \in SUBSET S, T # {}
    PROVE  /\ One(T) \in T /\ T \ {One(T)} \in SUBSET S
           /\ IsFiniteSet(T) /\ IsFiniteSet(T \ {One(T)})
           /\ Cardinality(T) \in Nat /\ Cardinality(T \ {One(T)}) = Cardinality(T) - 1
<1>1. One(T) \in T
    BY DEF One
<1>2. IsFiniteSet(T)
    BY FS_Subset
<1>3. Cardinality(T) \in Nat
    BY <1>2, FS_CardinalityType
<1>4. IsFiniteSet(T \ {One(T)}) /\ Cardinality(T \ {One(T)}) = Cardinality(T) - 1
    <2> DEFINE x == One(T)
    <2> HIDE DEF x
    <2>1. x \in T
        BY <1>1 DEF x
    <2> QED BY <1>2, <2>1, FS_RemoveElement DEF x
<1> QED BY <1>1, <1>2, <1>3, <1>4

(* A function that adds up exists. *)
LEMMA Adds ==
    ASSUME NEW S, IsFiniteSet(S), NEW w
    PROVE  \E f : Added(S, w, f)
<1> DEFINE Sum(f, T) == IF T = {} THEN 0 ELSE f[T \ {One(T)}] + w[One(T)]
           Part(k, f) == /\ f = [T \in SUBSET S |-> f[T]]
                         /\ \A T \in SUBSET S : Cardinality(T) <= k => f[T] = Sum(f, T)
           K == {k \in Nat : \E f : Part(k, f)}
           n == Cardinality(S)
<1>0. n \in Nat
    BY FS_CardinalityType
<1>1. 0 \in K
    <2> DEFINE f == [T \in SUBSET S |-> 0]
    <2>1. ASSUME NEW T \in SUBSET S, Cardinality(T) <= 0
          PROVE  f[T] = Sum(f, T)
        <3>1. IsFiniteSet(T)
            BY FS_Subset
        <3>2. Cardinality(T) = 0
            BY <2>1, <3>1, FS_CardinalityType
        <3>3. T = {}
            BY <3>1, <3>2, FS_EmptySet
        <3> QED BY <3>3
    <2>2. f = [T \in SUBSET S |-> f[T]]
        OBVIOUS
    <2>3. Part(0, f)
        BY <2>1, <2>2
    <2> HIDE DEF f, Part
    <2> QED BY <2>3
<1>2. ASSUME NEW k \in Nat, k < n, k \in K
      PROVE  k + 1 \in K
    <2>1. PICK f : Part(k, f)
        BY <1>2
    <2> DEFINE g == [T \in SUBSET S |-> Sum(f, T)]
    <2>2. ASSUME NEW T \in SUBSET S, Cardinality(T) <= k + 1
          PROVE  g[T] = Sum(g, T)
        <3>1. CASE T = {}
            BY <3>1
        <3>2. CASE T # {}
            <4> DEFINE U == T \ {One(T)}
            <4>1. U \in SUBSET S /\ Cardinality(U) <= k
                <5>1. U \in SUBSET S /\ Cardinality(T) \in Nat /\ Cardinality(U) = Cardinality(T) - 1
                    BY <3>2, OneLess
                <5> HIDE DEF U
                <5> QED BY <2>2, <5>1
            <4>2. g[U] = f[U]
                <5>1. g[U] = Sum(f, U)
                    BY <4>1
                <5>2. f[U] = Sum(f, U)
                    <6> HIDE DEF U, Sum
                    <6> QED BY <2>1, <4>1
                <5> QED BY <5>1, <5>2
            <4> HIDE DEF g
            <4>3. Sum(g, T) = Sum(f, T)
                BY <3>2, <4>2
            <4>4. g[T] = Sum(f, T)
                BY DEF g
            <4> QED BY <4>3, <4>4
        <3> QED BY <3>1, <3>2
    <2>3. g = [T \in SUBSET S |-> g[T]]
        OBVIOUS
    <2> HIDE DEF g
    <2>4. Part(k + 1, g)
        <3> HIDE DEF Sum
        <3> QED BY <2>2, <2>3
    <2> HIDE DEF Part
    <2> QED BY <2>4
<1> HIDE DEF K
<1>3. \A k \in Nat : k < n /\ k \in K => k + 1 \in K
    BY <1>2
<1> HIDE DEF n
<1>4. \A k \in 0..n : k \in K
    BY <1>0, <1>1, <1>3, Climbs
<1>5. n \in K
    BY <1>0, <1>4
<1>6. PICK f : Part(n, f)
    BY <1>5 DEF K
<1>7. ASSUME NEW T \in SUBSET S
      PROVE  f[T] = Sum(f, T)
    <2>1. Cardinality(T) <= n
        BY FS_Subset DEF n
    <2> HIDE DEF Sum
    <2> QED BY <1>6, <2>1
<1>8. f = [T \in SUBSET S |-> Sum(f, T)]
    <2> DEFINE g == [T \in SUBSET S |-> Sum(f, T)]
    <2>1. \A T \in SUBSET S : g[T] = f[T]
        BY <1>7
    <2>2. g = [T \in SUBSET S |-> g[T]]
        OBVIOUS
    <2>3. f = [T \in SUBSET S |-> f[T]]
        BY <1>6
    <2> HIDE DEF g, Sum
    <2>4. f = g
        BY <2>1, <2>2, <2>3
    <2> QED BY <2>4 DEF g
<1> QED BY <1>8 DEF Added

(* The members of the sets at some places *)
Gathered(G, T) == UNION {G[x] : x \in T}

(* Adding up the sizes of sets that have nothing in common counts what they *)
(* have together.                                                           *)
LEMMA Counts ==
    ASSUME NEW S, IsFiniteSet(S), NEW w, NEW f, Added(S, w, f), NEW G,
           \A x \in S : IsFiniteSet(G[x]) /\ w[x] = Cardinality(G[x]),
           \A x, y \in S : x # y => G[x] \cap G[y] = {}
    PROVE  IsFiniteSet(Gathered(G, S)) /\ f[S] = Cardinality(Gathered(G, S))
<1> DEFINE Counted(T) == IsFiniteSet(Gathered(G, T)) /\ f[T] = Cardinality(Gathered(G, T))
           K == {k \in Nat : \A T \in SUBSET S : Cardinality(T) <= k => Counted(T)}
           n == Cardinality(S)
<1>0. n \in Nat
    BY FS_CardinalityType
<1>a. \A T \in SUBSET S : f[T] = IF T = {} THEN 0 ELSE f[T \ {One(T)}] + w[One(T)]
    <2> DEFINE g == [T \in SUBSET S |-> IF T = {} THEN 0 ELSE f[T \ {One(T)}] + w[One(T)]]
    <2>1. f = g
        BY DEF Added
    <2>2. \A T \in SUBSET S : g[T] = IF T = {} THEN 0 ELSE f[T \ {One(T)}] + w[One(T)]
        OBVIOUS
    <2> HIDE DEF g
    <2> QED BY <2>1, <2>2
<1>1. 0 \in K
    <2>1. ASSUME NEW T \in SUBSET S, Cardinality(T) <= 0
          PROVE  Counted(T)
        <3>1. IsFiniteSet(T)
            BY FS_Subset
        <3>2. Cardinality(T) = 0
            BY <2>1, <3>1, FS_CardinalityType
        <3>3. T = {}
            BY <3>1, <3>2, FS_EmptySet
        <3>4. Gathered(G, T) = {}
            BY <3>3 DEF Gathered
        <3>5. f[T] = 0
            BY <1>a, <3>3
        <3> QED BY <3>4, <3>5, FS_EmptySet
    <2> HIDE DEF Counted
    <2> QED BY <2>1
<1>2. ASSUME NEW k \in Nat, k < n, k \in K
      PROVE  k + 1 \in K
    <2>1. ASSUME NEW T \in SUBSET S, Cardinality(T) <= k + 1
          PROVE  Counted(T)
        <3>1. CASE T = {}
            <4>1. Cardinality(T) <= k
                BY <3>1, FS_EmptySet
            <4> HIDE DEF Counted
            <4> QED BY <1>2, <4>1
        <3>2. CASE T # {}
            <4> DEFINE x == One(T)
                       U == T \ {x}
            <4>1. x \in T /\ x \in S /\ U \in SUBSET S /\ Cardinality(U) <= k
                <5>1. /\ x \in T /\ U \in SUBSET S
                      /\ Cardinality(T) \in Nat /\ Cardinality(U) = Cardinality(T) - 1
                    BY <3>2, OneLess
                <5> HIDE DEF x, U
                <5> QED BY <2>1, <5>1
            <4>2. Counted(U)
                <5> HIDE DEF Counted, U
                <5> QED BY <1>2, <4>1
            <4>3. f[T] = f[U] + w[x]
                BY <1>a, <3>2
            <4> HIDE DEF x
            <4>4. Gathered(G, T) = Gathered(G, U) \cup G[x]
                BY <4>1 DEF Gathered
            <4>5. Gathered(G, U) \cap G[x] = {}
                <5>1. \A y \in U : G[y] \cap G[x] = {}
                    BY <4>1
                <5> HIDE DEF U
                <5> QED BY <5>1 DEF Gathered
            <4>6. IsFiniteSet(G[x]) /\ w[x] = Cardinality(G[x])
                BY <4>1
            <4> DEFINE A == Gathered(G, U)
                       B == G[x]
            <4>7. IsFiniteSet(A) /\ IsFiniteSet(B) /\ A \cap B = {} /\ f[U] = Cardinality(A)
                BY <4>2, <4>5, <4>6
            <4> HIDE DEF A, B, U
            <4>8. /\ IsFiniteSet(A \cup B)
                  /\ Cardinality(A \cup B) = Cardinality(A) + Cardinality(B) - Cardinality(A \cap B)
                BY <4>7, FS_Union
            <4>9. Cardinality(A \cap B) = 0 /\ Cardinality(A) \in Nat /\ Cardinality(B) \in Nat
                BY <4>7, FS_EmptySet, FS_CardinalityType
            <4>10. Gathered(G, T) = A \cup B
                BY <4>4 DEF A, B
            <4>11. f[T] = Cardinality(A) + Cardinality(B)
                BY <4>3, <4>6, <4>7 DEF B
            <4> QED BY <4>8, <4>9, <4>10, <4>11
        <3> QED BY <3>1, <3>2
    <2> HIDE DEF Counted
    <2> QED BY <2>1
<1> HIDE DEF K
<1>3. \A k \in Nat : k < n /\ k \in K => k + 1 \in K
    BY <1>2
<1>4. n \in K
    <2> HIDE DEF n
    <2>1. \A k \in 0..n : k \in K
        BY <1>0, <1>1, <1>3, Climbs
    <2> QED BY <1>0, <2>1
<1>5. Counted(S)
    <2>1. S \in SUBSET S /\ n <= n
        BY <1>0
    <2> HIDE DEF Counted
    <2> QED BY <1>4, <2>1 DEF K
<1> QED BY <1>5

(* The samples of the entries of a profile are added up. *)
LEMMA EntriesCount ==
    ASSUME NEW S, IsFiniteSet(S), NEW G,
           \A e \in S : IsFiniteSet(G[e]) /\ e.samples = Cardinality(G[e]),
           \A d, e \in S : d # e => G[d] \cap G[e] = {}
    PROVE  SumOver(S, LAMBDA e : e.samples) = Cardinality(Gathered(G, S))
<1> DEFINE w == [e \in S |-> e.samples]
           Iterates(f) == f = [T \in SUBSET S |-> IF T = {} THEN 0
                                ELSE f[T \ {CHOOSE x \in T : TRUE}] + (CHOOSE x \in T : TRUE).samples]
           g == CHOOSE f : Iterates(f)
<1>1. ASSUME NEW f
      PROVE  Iterates(f) <=> Added(S, w, f)
    <2> DEFINE h == [T \in SUBSET S |-> IF T = {} THEN 0
                        ELSE f[T \ {CHOOSE x \in T : TRUE}] + (CHOOSE x \in T : TRUE).samples]
               k == [T \in SUBSET S |-> IF T = {} THEN 0 ELSE f[T \ {One(T)}] + w[One(T)]]
    <2>1. ASSUME NEW T \in SUBSET S
          PROVE  h[T] = k[T]
        <3>1. CASE T = {}
            BY <3>1
        <3>2. CASE T # {}
            <4>1. (CHOOSE x \in T : TRUE) \in S
                BY <3>2
            <4>2. w[CHOOSE x \in T : TRUE] = (CHOOSE x \in T : TRUE).samples
                BY <4>1
            <4> QED BY <4>2 DEF One
        <3> QED BY <3>1, <3>2
    <2>2. h = k
        <3>1. h = [T \in SUBSET S |-> h[T]] /\ k = [T \in SUBSET S |-> k[T]]
            OBVIOUS
        <3> HIDE DEF h, k
        <3> QED BY <2>1, <3>1
    <2>3. Iterates(f) <=> f = h
        OBVIOUS
    <2>4. Added(S, w, f) <=> f = k
        BY DEF Added
    <2> HIDE DEF h, k
    <2> QED BY <2>2, <2>3, <2>4
<1>2. SumOver(S, LAMBDA e : e.samples) = g[S]
    BY DEF SumOver, FoldSet, MapThenFoldSet
<1>3. \E f : Added(S, w, f)
    BY Adds
<1>4. \A e \in S : w[e] = Cardinality(G[e])
    OBVIOUS
<1> HIDE DEF w, Iterates
<1>5. Iterates(g)
    BY <1>1, <1>3
<1>6. Added(S, w, g)
    BY <1>1, <1>5
<1> HIDE DEF g
<1>7. g[S] = Cardinality(Gathered(G, S))
    BY <1>4, <1>6, Counts
<1> QED BY <1>2, <1>7

(* So are the samples of the sources of a selection. *)
LEMMA SourcesCount ==
    ASSUME NEW S, IsFiniteSet(S), \A a \in S : IsFiniteSet(a.samples),
           \A a, b \in S : a # b => a.samples \cap b.samples = {}
    PROVE  /\ IsFiniteSet(UNION {a.samples : a \in S})
           /\ SumOver(S, LAMBDA a : Cardinality(a.samples)) = Cardinality(UNION {a.samples : a \in S})
<1> DEFINE G == [a \in S |-> a.samples]
           w == [a \in S |-> Cardinality(a.samples)]
           Iterates(f) == f = [T \in SUBSET S |-> IF T = {} THEN 0
                                ELSE f[T \ {CHOOSE x \in T : TRUE}]
                                        + Cardinality((CHOOSE x \in T : TRUE).samples)]
           g == CHOOSE f : Iterates(f)
<1>1. ASSUME NEW f
      PROVE  Iterates(f) <=> Added(S, w, f)
    <2> DEFINE h == [T \in SUBSET S |-> IF T = {} THEN 0
                        ELSE f[T \ {CHOOSE x \in T : TRUE}]
                                + Cardinality((CHOOSE x \in T : TRUE).samples)]
               k == [T \in SUBSET S |-> IF T = {} THEN 0 ELSE f[T \ {One(T)}] + w[One(T)]]
    <2>1. ASSUME NEW T \in SUBSET S
          PROVE  h[T] = k[T]
        <3>1. CASE T = {}
            BY <3>1
        <3>2. CASE T # {}
            <4>1. (CHOOSE x \in T : TRUE) \in S
                BY <3>2
            <4>2. w[CHOOSE x \in T : TRUE] = Cardinality((CHOOSE x \in T : TRUE).samples)
                BY <4>1
            <4> QED BY <4>2 DEF One
        <3> QED BY <3>1, <3>2
    <2>2. h = k
        <3>1. h = [T \in SUBSET S |-> h[T]] /\ k = [T \in SUBSET S |-> k[T]]
            OBVIOUS
        <3> HIDE DEF h, k
        <3> QED BY <2>1, <3>1
    <2>3. Iterates(f) <=> f = h
        OBVIOUS
    <2>4. Added(S, w, f) <=> f = k
        BY DEF Added
    <2> HIDE DEF h, k
    <2> QED BY <2>2, <2>3, <2>4
<1>2. SumOver(S, LAMBDA a : Cardinality(a.samples)) = g[S]
    BY DEF SumOver, FoldSet, MapThenFoldSet
<1>3. \E f : Added(S, w, f)
    BY Adds
<1>4. /\ \A a \in S : IsFiniteSet(G[a]) /\ w[a] = Cardinality(G[a])
      /\ \A a, b \in S : a # b => G[a] \cap G[b] = {}
    OBVIOUS
<1>5. Gathered(G, S) = UNION {a.samples : a \in S}
    BY DEF Gathered
<1> HIDE DEF w, G, Iterates
<1>6. Iterates(g)
    BY <1>1, <1>3
<1>7. Added(S, w, g)
    BY <1>1, <1>6
<1> HIDE DEF g
<1>8. IsFiniteSet(Gathered(G, S)) /\ g[S] = Cardinality(Gathered(G, S))
    BY <1>4, <1>7, Counts
<1> QED BY <1>2, <1>5, <1>8

-----------------------------------------------------------------------------
(* Profiles *)

(* What a function makes of a finite set is finite, and no larger. *)
LEMMA ImageOf ==
    ASSUME NEW S, IsFiniteSet(S), NEW f, f = [x \in S |-> f[x]]
    PROVE  /\ IsFiniteSet({f[x] : x \in S})
           /\ Cardinality({f[x] : x \in S}) \in Nat
           /\ Cardinality({f[x] : x \in S}) <= Cardinality(S)
           /\ (\A x, y \in S : f[x] = f[y] => x = y) => Cardinality({f[x] : x \in S}) = Cardinality(S)
<1> DEFINE T == {f[x] : x \in S}
<1>1. f \in Surjection(S, T)
    BY DEF Surjection
<1>2. (\A x, y \in S : f[x] = f[y] => x = y) => f \in Injection(S, T)
    <2>1. f \in [S -> T]
        BY <1>1 DEF Surjection
    <2> HIDE DEF T
    <2>2. ASSUME \A x, y \in S : f[x] = f[y] => x = y
          PROVE  f \in Injection(S, T)
        BY <2>1, <2>2 DEF Injection, IsInjective
    <2> QED BY <2>2
<1> HIDE DEF T
<1>3. /\ IsFiniteSet(T) /\ Cardinality(T) <= Cardinality(S)
      /\ Cardinality(T) = Cardinality(S) <=> f \in Injection(S, T)
    BY <1>1, FS_Surjection
<1>4. Cardinality(T) \in Nat
    BY <1>3, FS_CardinalityType
<1> QED BY <1>2, <1>3, <1>4 DEF T

(* Of the newest n sessions there are at most n; they are all when there    *)
(* are no more.                                                             *)
LEMMA NewestBound ==
    ASSUME NEW S, S \subseteq Nat, IsFiniteSet(S), NEW n \in Nat
    PROVE  /\ Newest(S, n) \subseteq S /\ IsFiniteSet(Newest(S, n))
           /\ Cardinality(Newest(S, n)) <= n
           /\ Cardinality(S) <= n => Newest(S, n) = S
<1> DEFINE N == Newest(S, n)
           Above(t) == {u \in S : u > t}
<1>1. N \subseteq S
    BY DEF Newest
<1>2. IsFiniteSet(N)
    BY <1>1, FS_Subset
<1>3. ASSUME NEW t \in S
      PROVE  IsFiniteSet(Above(t)) /\ Cardinality(Above(t)) \in Nat
    <2>1. Above(t) \subseteq S
        OBVIOUS
    <2> HIDE DEF Above
    <2> QED BY <2>1, FS_Subset, FS_CardinalityType
<1>4. Cardinality(N) <= n
    <2>1. CASE N = {}
        <3>1. Cardinality(N) = 0
            BY <2>1, FS_EmptySet
        <3> QED BY <3>1
    <2>2. CASE N # {}
        <3> DEFINE t == Min(N)
        <3>1. t \in N /\ \A u \in N : t <= u
            <4> HIDE DEF N
            <4> QED BY <1>1, <2>2, LeastOf
        <3> HIDE DEF t
        <3>2. t \in S /\ t \in Nat /\ Cardinality(Above(t)) < n
            BY <3>1 DEF Newest
        <3>3. N \ {t} \subseteq Above(t)
            <4>1. \A u \in N : u \in Nat /\ u \in S
                BY <1>1
            <4> HIDE DEF N
            <4> QED BY <3>1, <3>2, <4>1
        <3> HIDE DEF N, Above
        <3>4. Cardinality(N \ {t}) <= Cardinality(Above(t))
            BY <1>3, <3>2, <3>3, FS_Subset
        <3>5. Cardinality(N \ {t}) = Cardinality(N) - 1 /\ Cardinality(N) \in Nat
            BY <1>2, <3>1, FS_RemoveElement, FS_CardinalityType
        <3> QED BY <1>3, <3>2, <3>4, <3>5
    <2> QED BY <2>1, <2>2
<1>5. ASSUME Cardinality(S) <= n
      PROVE  N = S
    <2>1. ASSUME NEW t \in S
          PROVE  Cardinality(Above(t)) < n
        <3>1. Above(t) \subseteq S /\ t \notin Above(t)
            OBVIOUS
        <3> HIDE DEF Above
        <3>2. Cardinality(Above(t)) <= Cardinality(S) /\ Cardinality(S) # Cardinality(Above(t))
            BY <3>1, FS_Subset
        <3>3. Cardinality(S) \in Nat
            BY FS_CardinalityType
        <3> QED BY <1>3, <1>5, <3>2, <3>3
    <2> QED BY <2>1 DEF Newest
<1> HIDE DEF N
<1> QED BY <1>1, <1>2, <1>4, <1>5 DEF N

(* The samples of one trigger and action *)
Alike(samples, x) == {y \in samples : y.trigger = x.trigger /\ y.action = x.action}

(* A rate is a number. *)
LEMMA RateType ==
    ASSUME NEW e \in Nat, NEW n \in Nat
    PROVE  Rate(e, n) \in Int
<1> DEFINE a == 20000 * (e + 1) + n + 2
           b == 2 * (n + 2)
<1>1. a \in Int /\ b \in Int /\ b > 0
    OBVIOUS
<1> HIDE DEF a, b
<1>2. a \div b \in Int
    BY <1>1
<1> QED BY <1>2 DEF Rate, a, b

(* The entry of a group counts the group. *)
LEMMA EntryOf ==
    ASSUME NEW samples \in SUBSET Sample, IsFiniteSet(samples), NEW x \in samples
    PROVE  /\ Entry(Alike(samples, x)) \in EntryType
           /\ IsEntry(Entry(Alike(samples, x)))
           /\ Entry(Alike(samples, x)).trigger = x.trigger
           /\ Entry(Alike(samples, x)).action = x.action
           /\ Entry(Alike(samples, x)).samples = Cardinality(Alike(samples, x))
<1> DEFINE g == Alike(samples, x)
           any == CHOOSE y \in g : TRUE
           good == {y \in g : y.outcome = "effective"}
<1>1. x \in g /\ g \subseteq samples
    BY DEF Alike
<1>2. any \in g
    BY <1>1
<1>3. any.trigger = x.trigger /\ any.action = x.action
    BY <1>2 DEF Alike
<1>4. x.trigger \in Triggers /\ x.action \in Actions
    BY DEF Sample
<1>5. IsFiniteSet(g) /\ IsFiniteSet(good)
    BY <1>1, FS_Subset
<1>6. Cardinality(g) \in Nat /\ Cardinality(good) \in Nat /\ Cardinality(good) <= Cardinality(g)
    <2>1. good \subseteq g
        OBVIOUS
    <2> HIDE DEF g, good
    <2> QED BY <1>5, <2>1, FS_Subset, FS_CardinalityType
<1>7. Cardinality(g) # 0
    <2> HIDE DEF g
    <2> QED BY <1>1, <1>5, FS_EmptySet
<1>8. Entry(g) = [trigger |-> any.trigger, action |-> any.action, samples |-> Cardinality(g),
                  effective |-> Cardinality(good), rate |-> Rate(Cardinality(good), Cardinality(g))]
    BY DEF Entry
<1> HIDE DEF g, any, good
<1>9. Rate(Cardinality(good), Cardinality(g)) \in Int
    BY <1>6, RateType
<1>10. Entry(g) \in EntryType
    BY <1>3, <1>4, <1>6, <1>8, <1>9 DEF EntryType
<1>11. IsEntry(Entry(g))
    BY <1>6, <1>7, <1>8 DEF IsEntry
<1> QED BY <1>3, <1>8, <1>10, <1>11 DEF g

(* The profile of samples of not too many sessions counts them all, and     *)
(* passes the check of profiles.                                            *)
LEMMA ProfileBuilt ==
    ASSUME NEW samples \in SUBSET Sample, IsFiniteSet(samples),
           Cardinality({x.session : x \in samples}) <= MaxSessions
    PROVE  /\ BuildProfile(samples) \in Profile
           /\ IsProfile(BuildProfile(samples))
           /\ Keyed(BuildProfile(samples))
           /\ BuildProfile(samples).sourceSessions = Cardinality({x.session : x \in samples})
           /\ BuildProfile(samples).pairedOutcomes = Cardinality(samples)
<1> DEFINE sessions == {x.session : x \in samples}
           E == {Entry(Alike(samples, x)) : x \in samples}
           p == BuildProfile(samples)
<1>0. MaxSessions \in Nat
    BY ConfigAssumption
<1>1. /\ IsFiniteSet(sessions) /\ Cardinality(sessions) \in Nat
      /\ Cardinality(sessions) <= Cardinality(samples)
    <2> DEFINE f == [x \in samples |-> x.session]
    <2>1. f = [x \in samples |-> f[x]] /\ {f[x] : x \in samples} = sessions
        OBVIOUS
    <2> HIDE DEF f, sessions
    <2> QED BY <2>1, ImageOf
<1>2. sessions \subseteq Nat
    BY SessionsAssumption DEF Sample
<1>3. Newest(sessions, MaxSessions) = sessions
    <2> HIDE DEF sessions
    <2>1. Cardinality(sessions) <= MaxSessions
        BY DEF sessions
    <2> QED BY <1>0, <1>1, <1>2, <2>1, NewestBound
<1>4. {x \in samples : x.session \in sessions} = samples
    OBVIOUS
<1>5. p = [sourceSessions |-> Cardinality(sessions), pairedOutcomes |-> Cardinality(samples),
           entries |-> E]
    <2> DEFINE N == Newest(sessions, MaxSessions)
               accepted == {x \in samples : x.session \in N}
    <2>1. p = [sourceSessions |-> Cardinality(N), pairedOutcomes |-> Cardinality(accepted),
               entries |-> {Entry({y \in accepted : y.trigger = z.trigger /\ y.action = z.action}) :
                            z \in accepted}]
        BY DEF BuildProfile
    <2>2. N = sessions /\ accepted = samples
        BY <1>3, <1>4
    <2> HIDE DEF p, N, accepted, sessions
    <2>3. p = [sourceSessions |-> Cardinality(sessions), pairedOutcomes |-> Cardinality(samples),
               entries |-> {Entry({y \in samples : y.trigger = z.trigger /\ y.action = z.action}) :
                            z \in samples}]
        BY <2>1, <2>2, Zenon
    <2> QED BY <2>3 DEF Alike
<1>6. \A x \in samples :
            /\ Entry(Alike(samples, x)) \in EntryType /\ IsEntry(Entry(Alike(samples, x)))
            /\ Entry(Alike(samples, x)).trigger = x.trigger
            /\ Entry(Alike(samples, x)).action = x.action
            /\ Entry(Alike(samples, x)).samples = Cardinality(Alike(samples, x))
    BY EntryOf
<1>7. ASSUME NEW d \in E, NEW e \in E, d.trigger = e.trigger, d.action = e.action
      PROVE  d = e
    <2>1. PICK x \in samples : d = Entry(Alike(samples, x))
        OBVIOUS
    <2>2. PICK y \in samples : e = Entry(Alike(samples, y))
        OBVIOUS
    <2>3. x.trigger = y.trigger /\ x.action = y.action
        BY <1>6, <1>7, <2>1, <2>2
    <2>4. Alike(samples, x) = Alike(samples, y)
        BY <2>3 DEF Alike
    <2> QED BY <2>1, <2>2, <2>4
<1>8. IsFiniteSet(E) /\ Cardinality(E) \in Nat
    <2> DEFINE f == [x \in samples |-> Entry(Alike(samples, x))]
    <2>1. f = [x \in samples |-> f[x]] /\ {f[x] : x \in samples} = E
        OBVIOUS
    <2> HIDE DEF f, E
    <2> QED BY <2>1, ImageOf
<1> DEFINE G == [e \in E |-> Alike(samples, e)]
<1>9. ASSUME NEW e \in E
      PROVE  IsFiniteSet(G[e]) /\ e.samples = Cardinality(G[e])
    <2>1. PICK x \in samples : e = Entry(Alike(samples, x))
        OBVIOUS
    <2>2. Alike(samples, e) = Alike(samples, x)
        BY <1>6, <2>1 DEF Alike
    <2>3. Alike(samples, x) \subseteq samples
        BY DEF Alike
    <2>4. IsFiniteSet(Alike(samples, x))
        BY <2>3, FS_Subset
    <2> QED BY <1>6, <2>1, <2>2, <2>4
<1>10. ASSUME NEW d \in E, NEW e \in E, d # e
       PROVE  G[d] \cap G[e] = {}
    <2>1. ~ (d.trigger = e.trigger /\ d.action = e.action)
        BY <1>7, <1>10
    <2>2. Alike(samples, d) \cap Alike(samples, e) = {}
        BY <2>1 DEF Alike
    <2> QED BY <2>2
<1>11. Gathered(G, E) = samples
    <2>1. ASSUME NEW x \in samples
          PROVE  x \in Gathered(G, E)
        <3> DEFINE e == Entry(Alike(samples, x))
        <3>1. e \in E
            OBVIOUS
        <3>2. x \in Alike(samples, e)
            BY <1>6 DEF Alike
        <3> HIDE DEF e, E
        <3> QED BY <3>1, <3>2 DEF Gathered
    <2>2. ASSUME NEW x \in Gathered(G, E)
          PROVE  x \in samples
        <3> HIDE DEF E
        <3> QED BY DEF Gathered, Alike
    <2> QED BY <2>1, <2>2
<1>12. SumOver(E, LAMBDA e : e.samples) = Cardinality(samples)
    <2>1. \A e \in E : IsFiniteSet(G[e]) /\ e.samples = Cardinality(G[e])
        BY <1>9
    <2>2. \A d, e \in E : d # e => G[d] \cap G[e] = {}
        BY <1>10
    <2> HIDE DEF G, E
    <2> QED BY <1>8, <1>11, <2>1, <2>2, EntriesCount
<1>13. Cardinality({<<e.trigger, e.action>> : e \in E}) = Cardinality(E)
    <2> DEFINE f == [e \in E |-> <<e.trigger, e.action>>]
    <2>1. f = [e \in E |-> f[e]] /\ {f[e] : e \in E} = {<<e.trigger, e.action>> : e \in E}
        OBVIOUS
    <2>2. ASSUME NEW d \in E, NEW e \in E, f[d] = f[e]
          PROVE  d = e
        <3>1. f[d] = <<d.trigger, d.action>> /\ f[e] = <<e.trigger, e.action>>
            OBVIOUS
        <3>2. d.trigger = e.trigger /\ d.action = e.action
            BY <2>2, <3>1
        <3> QED BY <1>7, <3>2
    <2> HIDE DEF f, E
    <2> QED BY <1>8, <2>1, <2>2, ImageOf
<1>14. Cardinality(samples) \in Nat
    BY FS_CardinalityType
<1>15. E \subseteq EntryType /\ \A e \in E : IsEntry(e)
    BY <1>6
<1> HIDE DEF E, p, sessions
<1>16. Keyed(p)
    BY <1>5, <1>7 DEF Keyed
<1>17. p \in Profile
    BY <1>1, <1>5, <1>14, <1>15 DEF Profile
<1>18. p.sourceSessions <= MaxSessions /\ p.sourceSessions <= p.pairedOutcomes
    BY <1>1, <1>5 DEF sessions
<1>19. p.entries = E /\ p.pairedOutcomes = Cardinality(samples) /\ p.sourceSessions = Cardinality(sessions)
    BY <1>5
<1>20. IsProfile(p)
    BY <1>12, <1>13, <1>15, <1>18, <1>19 DEF IsProfile
<1> QED BY <1>16, <1>17, <1>19, <1>20 DEF p, sessions

(* Sources a scan may find: one of a session, with the samples of its        *)
(* journal.                                                                 *)
Scanned(sources) ==
    /\ sources \subseteq SourceType /\ IsFiniteSet(sources) /\ Cardinality(sources) <= MaxSessions
    /\ \A a, b \in sources : a.session = b.session => a = b
    /\ \A a \in sources :
        /\ a.through > 0 /\ a.samples # {} /\ IsFiniteSet(a.samples)
        /\ \A x \in a.samples : x.session = a.session

(* The selection of what a scan found passes the check of selections.       *)
LEMMA SelectionBuilt ==
    ASSUME NEW origin \in {"history_scan", "legacy_backfill"}, NEW cutoff \in Nat,
           NEW sources, Scanned(sources), NEW readable \in BOOLEAN, ~ readable => sources = {}
    PROVE  /\ Selection(origin, cutoff, sources, readable) \in Selected
           /\ IsSelection(Selection(origin, cutoff, sources, readable))
           /\ Keyed(Selection(origin, cutoff, sources, readable).profile)
           /\ Selection(origin, cutoff, sources, readable).sources = sources
           /\ Selection(origin, cutoff, sources, readable).cutoff = cutoff
<1> DEFINE samples == UNION {a.samples : a \in sources}
           x == Selection(origin, cutoff, sources, readable)
           p == BuildProfile(samples)
           status == IF ~ readable THEN "history_unavailable"
                     ELSE IF sources = {} THEN "no_history" ELSE "complete"
<1>1. /\ sources \subseteq SourceType /\ IsFiniteSet(sources) /\ Cardinality(sources) <= MaxSessions
      /\ \A a, b \in sources : a.session = b.session => a = b
      /\ \A a \in sources :
            /\ a.through > 0 /\ a.samples # {} /\ IsFiniteSet(a.samples)
            /\ \A y \in a.samples : y.session = a.session
    BY DEF Scanned
<1>2. x = [origin |-> origin, cutoff |-> cutoff, sources |-> sources, status |-> status, profile |-> p]
    BY DEF Selection
<1>3. samples \subseteq Sample
    BY <1>1 DEF SourceType
<1>4. \A a, b \in sources : a # b => a.samples \cap b.samples = {}
    BY <1>1
<1>5. /\ IsFiniteSet(samples)
      /\ SumOver(sources, LAMBDA a : Cardinality(a.samples)) = Cardinality(samples)
    BY <1>1, <1>4, SourcesCount
<1>6. {y.session : y \in samples} = {a.session : a \in sources}
    <2>1. ASSUME NEW a \in sources
          PROVE  \E y \in samples : y.session = a.session
        BY <1>1
    <2>2. ASSUME NEW y \in samples
          PROVE  \E a \in sources : y.session = a.session
        BY <1>1
    <2> HIDE DEF samples
    <2> QED BY <2>1, <2>2
<1>7. Cardinality({a.session : a \in sources}) = Cardinality(sources)
    <2> DEFINE f == [a \in sources |-> a.session]
    <2>1. f = [a \in sources |-> f[a]] /\ {f[a] : a \in sources} = {a.session : a \in sources}
        OBVIOUS
    <2>2. \A a, b \in sources : f[a] = f[b] => a = b
        BY <1>1
    <2> HIDE DEF f
    <2>3. IsFiniteSet(sources)
        BY <1>1
    <2>4. Cardinality({f[a] : a \in sources}) = Cardinality(sources)
        BY <2>1, <2>2, <2>3, ImageOf
    <2> QED BY <2>1, <2>4, Zenon
<1> HIDE DEF samples
<1>8. Cardinality({y.session : y \in samples}) <= MaxSessions
    BY <1>1, <1>6, <1>7
<1>9. /\ p \in Profile /\ IsProfile(p) /\ Keyed(p)
      /\ p.sourceSessions = Cardinality(sources) /\ p.pairedOutcomes = Cardinality(samples)
    <2>1. /\ p.sourceSessions = Cardinality({y.session : y \in samples})
          /\ p \in Profile /\ IsProfile(p) /\ Keyed(p) /\ p.pairedOutcomes = Cardinality(samples)
        BY <1>3, <1>5, <1>8, ProfileBuilt
    <2> QED BY <1>6, <1>7, <2>1
<1>10. /\ status \in {"history_unavailable", "no_history", "complete"}
       /\ (status = "complete") = (sources # {})
    OBVIOUS
<1> HIDE DEF p, x, status
<1>11. x.sources = sources /\ x.cutoff = cutoff /\ x.status = status /\ x.profile = p
    BY <1>2
<1>12. x \in Selected
    <2>1. sources \in SUBSET SourceType
        BY <1>1
    <2> QED BY <1>2, <1>9, <1>10, <2>1 DEF Selected
<1>13. IsSelection(x)
    <2>1. \A a \in x.sources : IsSource(a)
        BY <1>1, <1>11 DEF IsSource
    <2>2. /\ Cardinality(x.sources) = x.profile.sourceSessions
          /\ SumOver(x.sources, LAMBDA a : Cardinality(a.samples)) = x.profile.pairedOutcomes
        BY <1>5, <1>9, <1>11
    <2> QED BY <1>1, <1>9, <1>10, <1>11, <2>1, <2>2 DEF IsSelection
<1> QED BY <1>9, <1>11, <1>12, <1>13 DEF x

-----------------------------------------------------------------------------
(* The recursive functions of the model *)

(* What starts in a set, and stays in it from one position to the next, is  *)
(* in it everywhere.                                                        *)
LEMMA StaysIn ==
    ASSUME NEW n \in Nat, NEW D, NEW g, g[0] \in D, \A i \in 1..n : g[i - 1] \in D => g[i] \in D
    PROVE  \A i \in 0..n : g[i] \in D
<1> DEFINE S == {i \in Nat : g[i] \in D}
<1>1. 0 \in S
    OBVIOUS
<1>2. ASSUME NEW i \in Nat, i < n, i \in S
      PROVE  i + 1 \in S
    <2>1. i + 1 \in 1..n /\ (i + 1) - 1 = i
        BY <1>2
    <2>2. g[i + 1] \in D
        BY <1>2, <2>1
    <2> QED BY <2>2
<1> HIDE DEF S
<1>3. \A i \in Nat : i < n /\ i \in S => i + 1 \in S
    BY <1>2
<1>4. \A i \in 0..n : i \in S
    BY <1>1, <1>3, Climbs
<1> QED BY <1>4 DEF S

(* What starts the same, and goes on the same, ends the same.               *)
LEMMA SameRuns ==
    ASSUME NEW n \in Nat, NEW f, NEW g, f[0] = g[0],
           \A i \in 1..n : f[i - 1] = g[i - 1] => f[i] = g[i]
    PROVE  f[n] = g[n]
<1> DEFINE S == {i \in Nat : f[i] = g[i]}
<1>1. 0 \in S
    OBVIOUS
<1>2. ASSUME NEW i \in Nat, i < n, i \in S
      PROVE  i + 1 \in S
    <2>1. i + 1 \in 1..n /\ (i + 1) - 1 = i
        BY <1>2
    <2>2. f[i + 1] = g[i + 1]
        BY <1>2, <2>1
    <2> QED BY <2>2
<1> HIDE DEF S
<1>3. \A i \in Nat : i < n /\ i \in S => i + 1 \in S
    BY <1>2
<1>4. \A i \in 0..n : i \in S
    BY <1>1, <1>3, Climbs
<1>5. n \in S
    BY <1>4
<1> QED BY <1>5 DEF S

(* The empty state has its type. *)
LEMMA EmptyType == Empty \in State
BY DEF Empty, State

(* The reducer stays in its type. *)
LEMMA ReduceType ==
    ASSUME NEW s \in State, NEW f \in Fact
    PROVE  Reduce(s, f) \in State
<1>1. CASE f.type = "selected"
    <2>1. f.selection \in Selected \cup {None}
        BY <1>1 DEF Fact
    <2>2. Reduce(s, f) = [s EXCEPT !.selection = f.selection]
        BY <1>1 DEF Reduce
    <2> QED BY <2>1, <2>2 DEF State
<1>2. CASE f.type = "recorded"
    <2>1. f.reflection \in Reflection
        BY <1>2 DEF Fact
    <2>2. Reduce(s, f) = [s EXCEPT !.reflections = @ \cup {f.reflection}]
        BY <1>2 DEF Reduce
    <2> QED BY <2>1, <2>2 DEF State
<1>3. CASE f.type = "evaluated"
    <2>1. f.id \in Ids
        BY <1>3 DEF Fact
    <2>2. Reduce(s, f) = [s EXCEPT !.evaluated = @ \cup {f.id}]
        BY <1>3 DEF Reduce
    <2> QED BY <2>1, <2>2 DEF State
<1>4. CASE f.type \notin {"selected", "recorded", "evaluated"}
    BY <1>4 DEF Reduce
<1> QED BY <1>1, <1>2, <1>3, <1>4

(* The replay after some facts, and one step of it *)
Played == [state : State, ok : BOOLEAN]
Fresh(s) == [state |-> s, ok |-> TRUE]
PlayStep(r, f) ==
    IF r.ok /\ Accepts(r.state, f) THEN [state |-> Reduce(r.state, f), ok |-> TRUE]
    ELSE [r EXCEPT !.ok = FALSE]

(* The replay stays in its type. *)
LEMMA PlayType ==
    ASSUME NEW r \in Played, NEW f \in Fact
    PROVE  PlayStep(r, f) \in Played
<1>1. r.state \in State /\ r.ok \in BOOLEAN
    BY DEF Played
<1>2. Reduce(r.state, f) \in State
    BY <1>1, ReduceType
<1>3. [state |-> Reduce(r.state, f), ok |-> TRUE] \in Played
    BY <1>2 DEF Played
<1>4. [r EXCEPT !.ok = FALSE] \in Played
    BY DEF Played
<1> QED BY <1>3, <1>4 DEF PlayStep

PlayRun(s, facts, f) ==
    f = [i \in 0..Len(facts) |-> IF i = 0 THEN Fresh(s) ELSE PlayStep(f[i - 1], facts[i])]

(* The recursive function of ReplayFrom exists, and gives what it does. *)
LEMMA PlayRuns ==
    ASSUME NEW s \in State, NEW facts \in Seq(Fact)
    PROVE  \E f : /\ f[0] = Fresh(s)
                  /\ \A i \in 0..Len(facts) : f[i] \in Played
                  /\ \A i \in 1..Len(facts) : f[i] = PlayStep(f[i - 1], facts[i])
                  /\ ReplayFrom(s, facts) = f[Len(facts)]
<1> DEFINE n == Len(facts)
           start == Fresh(s)
           step == [i \in 1..n |-> [x \in Played |-> PlayStep(x, facts[i])]]
           g == CHOOSE f : PlayRun(s, facts, f)
<1>1. n \in Nat /\ \A i \in 1..n : facts[i] \in Fact
    OBVIOUS
<1>2. start \in Played
    BY DEF Played, Fresh
<1> HIDE DEF start
<1>3. step \in [1..n -> [Played -> Played]]
    BY <1>1, PlayType
<1>4. PICK f \in [0..n -> Played] : f[0] = start /\ \A i \in 1..n : f[i] = step[i][f[i - 1]]
    <2> HIDE DEF step, n
    <2>1. \E f : Unfolded(n, Played, start, step, f)
        BY <1>1, <1>2, <1>3, Unfolds
    <2> QED BY <2>1 DEF Unfolded
<1>5. \A i \in 1..n : i - 1 \in 0..n /\ i \in 0..n /\ i # 0
    BY <1>1
<1>6. \A i \in 1..n : f[i] = PlayStep(f[i - 1], facts[i])
    BY <1>4, <1>5
<1>7. PlayRun(s, facts, f)
    <2> DEFINE h == [i \in 0..n |-> IF i = 0 THEN start ELSE PlayStep(f[i - 1], facts[i])]
    <2>1. \A i \in 0..n : i # 0 => i \in 1..n
        BY <1>1
    <2>2. \A i \in 0..n : f[i] = h[i]
        BY <1>4, <1>6, <2>1
    <2>3. f = [i \in 0..n |-> f[i]] /\ h = [i \in 0..n |-> h[i]]
        OBVIOUS
    <2> HIDE DEF h
    <2>4. f = h
        BY <2>2, <2>3
    <2> QED BY <2>4 DEF h, PlayRun, start
<1>8. PlayRun(s, facts, g)
    BY <1>7
<1>9. ReplayFrom(s, facts) = g[n]
    BY DEF ReplayFrom, PlayRun, PlayStep, Fresh
<1> HIDE DEF g, step
<1>10. \A i \in 0..n : g[i] = IF i = 0 THEN start ELSE PlayStep(g[i - 1], facts[i])
    <2> DEFINE h == [i \in 0..n |-> IF i = 0 THEN start ELSE PlayStep(g[i - 1], facts[i])]
    <2>1. g = h
        BY <1>8 DEF PlayRun, start
    <2>2. \A i \in 0..n : h[i] = IF i = 0 THEN start ELSE PlayStep(g[i - 1], facts[i])
        OBVIOUS
    <2> HIDE DEF h, n
    <2> QED BY <2>1, <2>2
<1>11. g[0] = start
    <2>1. 0 \in 0..n
        BY <1>1
    <2> QED BY <1>10, <2>1
<1>12. \A i \in 1..n : g[i] = PlayStep(g[i - 1], facts[i])
    BY <1>5, <1>10
<1>13. \A i \in 0..n : g[i] \in Played
    <2>1. \A i \in 1..n : g[i - 1] \in Played => g[i] \in Played
        BY <1>1, <1>12, PlayType
    <2>2. g[0] \in Played
        BY <1>2, <1>11
    <2> HIDE DEF n
    <2> QED BY <1>1, <2>1, <2>2, StaysIn
<1> QED BY <1>9, <1>11, <1>12, <1>13 DEF start

(* No facts change nothing; a last fact is applied to what the others give. *)
LEMMA PlaySteps ==
    ASSUME NEW s \in State, NEW facts \in Seq(Fact)
    PROVE  /\ ReplayFrom(s, facts) \in Played
           /\ ReplayFrom(s, <<>>) = Fresh(s)
           /\ \A x \in Fact : ReplayFrom(s, Append(facts, x)) = PlayStep(ReplayFrom(s, facts), x)
<1> DEFINE n == Len(facts)
<1>0. n \in Nat /\ n \in 0..n
    OBVIOUS
<1>1. PICK f : /\ f[0] = Fresh(s)
               /\ \A i \in 0..n : f[i] \in Played
               /\ \A i \in 1..n : f[i] = PlayStep(f[i - 1], facts[i])
               /\ ReplayFrom(s, facts) = f[n]
    BY PlayRuns
<1>2. ReplayFrom(s, facts) \in Played
    BY <1>0, <1>1
<1>3. ReplayFrom(s, <<>>) = Fresh(s)
    <2>1. <<>> \in Seq(Fact) /\ Len(<<>>) = 0
        OBVIOUS
    <2>2. \E h : h[0] = Fresh(s) /\ ReplayFrom(s, <<>>) = h[Len(<<>>)]
        BY <2>1, PlayRuns
    <2> QED BY <2>1, <2>2
<1>4. ASSUME NEW x \in Fact
      PROVE  ReplayFrom(s, Append(facts, x)) = PlayStep(ReplayFrom(s, facts), x)
    <2> DEFINE more == Append(facts, x)
    <2>1. /\ more \in Seq(Fact) /\ Len(more) = n + 1 /\ more[n + 1] = x
          /\ \A i \in 1..n : more[i] = facts[i]
        OBVIOUS
    <2> HIDE DEF more
    <2>2. PICK h : /\ h[0] = Fresh(s)
                   /\ \A i \in 1..Len(more) : h[i] = PlayStep(h[i - 1], more[i])
                   /\ ReplayFrom(s, more) = h[Len(more)]
        BY <2>1, PlayRuns
    <2> HIDE DEF n
    <2>3. \A i \in 1..n : f[i - 1] = h[i - 1] => f[i] = h[i]
        <3>1. \A i \in 1..n : i \in 1..(n + 1)
            BY <1>0
        <3> QED BY <1>1, <2>1, <2>2, <3>1
    <2>4. f[0] = h[0]
        BY <1>1, <2>2
    <2>5. f[n] = h[n]
        BY <1>0, <2>3, <2>4, SameRuns
    <2>6. n + 1 \in 1..(n + 1) /\ (n + 1) - 1 = n
        BY <1>0
    <2>7. h[n + 1] = PlayStep(h[n], more[n + 1])
        BY <2>1, <2>2, <2>6
    <2> QED BY <1>1, <2>1, <2>2, <2>5, <2>7 DEF more
<1> QED BY <1>2, <1>3, <1>4

-----------------------------------------------------------------------------
(* What the scan reads off a journal, fact by fact *)

Life == [open : Reflection \cup {None}, ids : SUBSET Ids, samples : SUBSET Sample, valid : BOOLEAN]
NoLife == [open |-> None, ids |-> {}, samples |-> {}, valid |-> TRUE]
SampleOf(session, l, f) ==
    [session |-> session, id |-> f.id, trigger |-> l.open.trigger, action |-> l.open.action,
     outcome |-> f.outcome]
LifeStep(session, l, f) ==
    CASE f.type = "recorded" ->
            IF l.open # None \/ f.reflection.id \in l.ids
            THEN [l EXCEPT !.valid = FALSE]
            ELSE [l EXCEPT !.open = f.reflection, !.ids = @ \cup {f.reflection.id}]
      [] f.type = "evaluated" ->
            IF l.open = None THEN [l EXCEPT !.valid = FALSE]
            ELSE IF l.open.id # f.id THEN [l EXCEPT !.valid = FALSE]
            ELSE [l EXCEPT !.open = None, !.samples = @ \cup {SampleOf(session, l, f)}]
      [] OTHER -> l

(* The lifecycle stays in its type. *)
LEMMA LifeStays ==
    ASSUME NEW session \in Sessions, NEW l \in Life, NEW f \in Fact
    PROVE  LifeStep(session, l, f) \in Life
<1>1. CASE f.type = "recorded"
    <2>1. f.reflection \in Reflection /\ f.reflection.id \in Ids
        BY <1>1 DEF Fact, Reflection
    <2>2. \/ LifeStep(session, l, f) = [l EXCEPT !.valid = FALSE]
          \/ LifeStep(session, l, f) =
                [l EXCEPT !.open = f.reflection, !.ids = @ \cup {f.reflection.id}]
        BY <1>1 DEF LifeStep
    <2> QED BY <2>1, <2>2 DEF Life
<1>2. CASE f.type = "evaluated"
    <2>1. f.id \in Ids /\ f.outcome \in Outcomes
        BY <1>2 DEF Fact
    <2>2. CASE l.open = None \/ l.open.id # f.id
        <3>1. LifeStep(session, l, f) = [l EXCEPT !.valid = FALSE]
            BY <1>2, <2>2 DEF LifeStep
        <3> QED BY <3>1 DEF Life
    <2>3. CASE l.open # None /\ l.open.id = f.id
        <3>1. l.open \in Reflection
            BY <2>3 DEF Life
        <3>2. SampleOf(session, l, f) \in Sample
            BY <2>1, <3>1 DEF Sample, SampleOf, Reflection
        <3> DEFINE x == SampleOf(session, l, f)
        <3>3. LifeStep(session, l, f) = [l EXCEPT !.open = None, !.samples = @ \cup {x}]
            BY <1>2, <2>3 DEF LifeStep
        <3> HIDE DEF x
        <3> QED BY <3>2, <3>3 DEF Life, x
    <2> QED BY <2>2, <2>3
<1>3. CASE f.type \notin {"recorded", "evaluated"}
    BY <1>3 DEF LifeStep
<1> QED BY <1>1, <1>2, <1>3

LifeRun(session, facts, f) ==
    f = [i \in 0..Len(facts) |-> IF i = 0 THEN NoLife ELSE LifeStep(session, f[i - 1], facts[i])]

(* The recursive function of Lifecycle exists, and gives what it does. *)
LEMMA LifeRuns ==
    ASSUME NEW session \in Sessions, NEW facts \in Seq(Fact)
    PROVE  \E f : /\ f[0] = NoLife
                  /\ \A i \in 0..Len(facts) : f[i] \in Life
                  /\ \A i \in 1..Len(facts) : f[i] = LifeStep(session, f[i - 1], facts[i])
                  /\ Lifecycle(session, facts) = f[Len(facts)]
<1> DEFINE n == Len(facts)
           start == NoLife
           step == [i \in 1..n |-> [x \in Life |-> LifeStep(session, x, facts[i])]]
           g == CHOOSE f : LifeRun(session, facts, f)
<1>1. n \in Nat /\ \A i \in 1..n : facts[i] \in Fact
    OBVIOUS
<1>2. start \in Life
    BY DEF Life, NoLife
<1> HIDE DEF start
<1>3. step \in [1..n -> [Life -> Life]]
    BY <1>1, LifeStays
<1>4. PICK f \in [0..n -> Life] : f[0] = start /\ \A i \in 1..n : f[i] = step[i][f[i - 1]]
    <2> HIDE DEF step, n
    <2>1. \E f : Unfolded(n, Life, start, step, f)
        BY <1>1, <1>2, <1>3, Unfolds
    <2> QED BY <2>1 DEF Unfolded
<1>5. \A i \in 1..n : i - 1 \in 0..n /\ i \in 0..n /\ i # 0
    BY <1>1
<1>6. \A i \in 1..n : f[i] = LifeStep(session, f[i - 1], facts[i])
    BY <1>4, <1>5
<1>7. LifeRun(session, facts, f)
    <2> DEFINE h == [i \in 0..n |-> IF i = 0 THEN start ELSE LifeStep(session, f[i - 1], facts[i])]
    <2>1. \A i \in 0..n : i # 0 => i \in 1..n
        BY <1>1
    <2>2. \A i \in 0..n : f[i] = h[i]
        BY <1>4, <1>6, <2>1
    <2>3. f = [i \in 0..n |-> f[i]] /\ h = [i \in 0..n |-> h[i]]
        OBVIOUS
    <2> HIDE DEF h
    <2>4. f = h
        BY <2>2, <2>3
    <2> QED BY <2>4 DEF h, LifeRun, start
<1>8. LifeRun(session, facts, g)
    BY <1>7
<1>9. Lifecycle(session, facts) = g[n]
    BY DEF Lifecycle, LifeRun, LifeStep, NoLife, SampleOf
<1> HIDE DEF g, step
<1>10. \A i \in 0..n : g[i] = IF i = 0 THEN start ELSE LifeStep(session, g[i - 1], facts[i])
    <2> DEFINE h == [i \in 0..n |-> IF i = 0 THEN start ELSE LifeStep(session, g[i - 1], facts[i])]
    <2>1. g = h
        BY <1>8 DEF LifeRun, start
    <2>2. \A i \in 0..n : h[i] = IF i = 0 THEN start ELSE LifeStep(session, g[i - 1], facts[i])
        OBVIOUS
    <2> HIDE DEF h, n
    <2> QED BY <2>1, <2>2
<1>11. g[0] = start
    <2>1. 0 \in 0..n
        BY <1>1
    <2> QED BY <1>10, <2>1
<1>12. \A i \in 1..n : g[i] = LifeStep(session, g[i - 1], facts[i])
    BY <1>5, <1>10
<1>13. \A i \in 0..n : g[i] \in Life
    <2>1. \A i \in 1..n : g[i - 1] \in Life => g[i] \in Life
        BY <1>1, <1>12, LifeStays
    <2>2. g[0] \in Life
        BY <1>2, <1>11
    <2> HIDE DEF n
    <2> QED BY <1>1, <2>1, <2>2, StaysIn
<1> QED BY <1>9, <1>11, <1>12, <1>13 DEF start

(* No facts change nothing; a last fact is applied to what the others give. *)
LEMMA LifeSteps ==
    ASSUME NEW session \in Sessions, NEW facts \in Seq(Fact)
    PROVE  /\ Lifecycle(session, facts) \in Life
           /\ Lifecycle(session, <<>>) = NoLife
           /\ \A x \in Fact : Lifecycle(session, Append(facts, x)) = LifeStep(session, Lifecycle(session, facts), x)
<1> DEFINE n == Len(facts)
<1>0. n \in Nat /\ n \in 0..n
    OBVIOUS
<1>1. PICK f : /\ f[0] = NoLife
               /\ \A i \in 0..n : f[i] \in Life
               /\ \A i \in 1..n : f[i] = LifeStep(session, f[i - 1], facts[i])
               /\ Lifecycle(session, facts) = f[n]
    BY LifeRuns
<1>2. Lifecycle(session, facts) \in Life
    BY <1>0, <1>1
<1>3. Lifecycle(session, <<>>) = NoLife
    <2>1. <<>> \in Seq(Fact) /\ Len(<<>>) = 0
        OBVIOUS
    <2>2. \E h : h[0] = NoLife /\ Lifecycle(session, <<>>) = h[Len(<<>>)]
        BY <2>1, LifeRuns
    <2> QED BY <2>1, <2>2
<1>4. ASSUME NEW x \in Fact
      PROVE  Lifecycle(session, Append(facts, x)) = LifeStep(session, Lifecycle(session, facts), x)
    <2> DEFINE more == Append(facts, x)
    <2>1. /\ more \in Seq(Fact) /\ Len(more) = n + 1 /\ more[n + 1] = x
          /\ \A i \in 1..n : more[i] = facts[i]
        OBVIOUS
    <2> HIDE DEF more
    <2>2. PICK h : /\ h[0] = NoLife
                   /\ \A i \in 1..Len(more) : h[i] = LifeStep(session, h[i - 1], more[i])
                   /\ Lifecycle(session, more) = h[Len(more)]
        BY <2>1, LifeRuns
    <2> HIDE DEF n
    <2>3. \A i \in 1..n : f[i - 1] = h[i - 1] => f[i] = h[i]
        <3>1. \A i \in 1..n : i \in 1..(n + 1)
            BY <1>0
        <3> QED BY <1>1, <2>1, <2>2, <3>1
    <2>4. f[0] = h[0]
        BY <1>1, <2>2
    <2>5. f[n] = h[n]
        BY <1>0, <2>3, <2>4, SameRuns
    <2>6. n + 1 \in 1..(n + 1) /\ (n + 1) - 1 = n
        BY <1>0
    <2>7. h[n + 1] = LifeStep(session, h[n], more[n + 1])
        BY <2>1, <2>2, <2>6
    <2> QED BY <1>1, <2>1, <2>2, <2>5, <2>7 DEF more
<1> QED BY <1>2, <1>3, <1>4
-----------------------------------------------------------------------------
(* The facts up to a time *)

KeepStep(cutoff, t, f) == IF f.time <= cutoff THEN Append(t, f) ELSE t

(* What is kept stays a sequence of facts. *)
LEMMA KeepType ==
    ASSUME NEW cutoff \in Nat, NEW t \in Seq(Fact), NEW f \in Fact
    PROVE  KeepStep(cutoff, t, f) \in Seq(Fact)
BY DEF KeepStep

KeepRun(facts, cutoff, f) ==
    f = [i \in 0..Len(facts) |-> IF i = 0 THEN <<>> ELSE KeepStep(cutoff, f[i - 1], facts[i])]

(* The recursive function of Before exists, and gives what it does. *)
LEMMA KeepRuns ==
    ASSUME NEW cutoff \in Nat, NEW facts \in Seq(Fact)
    PROVE  \E f : /\ f[0] = <<>>
                  /\ \A i \in 0..Len(facts) : f[i] \in Seq(Fact)
                  /\ \A i \in 1..Len(facts) : f[i] = KeepStep(cutoff, f[i - 1], facts[i])
                  /\ Before(facts, cutoff) = f[Len(facts)]
<1> DEFINE n == Len(facts)
           start == <<>>
           step == [i \in 1..n |-> [x \in Seq(Fact) |-> KeepStep(cutoff, x, facts[i])]]
           g == CHOOSE f : KeepRun(facts, cutoff, f)
<1>1. n \in Nat /\ \A i \in 1..n : facts[i] \in Fact
    OBVIOUS
<1>2. start \in Seq(Fact)
    OBVIOUS
<1> HIDE DEF start
<1>3. step \in [1..n -> [Seq(Fact) -> Seq(Fact)]]
    BY <1>1, KeepType
<1>4. PICK f \in [0..n -> Seq(Fact)] : f[0] = start /\ \A i \in 1..n : f[i] = step[i][f[i - 1]]
    <2> HIDE DEF step, n
    <2>1. \E f : Unfolded(n, Seq(Fact), start, step, f)
        BY <1>1, <1>2, <1>3, Unfolds
    <2> QED BY <2>1 DEF Unfolded
<1>5. \A i \in 1..n : i - 1 \in 0..n /\ i \in 0..n /\ i # 0
    BY <1>1
<1>6. \A i \in 1..n : f[i] = KeepStep(cutoff, f[i - 1], facts[i])
    BY <1>4, <1>5
<1>7. KeepRun(facts, cutoff, f)
    <2> DEFINE h == [i \in 0..n |-> IF i = 0 THEN start ELSE KeepStep(cutoff, f[i - 1], facts[i])]
    <2>1. \A i \in 0..n : i # 0 => i \in 1..n
        BY <1>1
    <2>2. \A i \in 0..n : f[i] = h[i]
        BY <1>4, <1>6, <2>1
    <2>3. f = [i \in 0..n |-> f[i]] /\ h = [i \in 0..n |-> h[i]]
        OBVIOUS
    <2> HIDE DEF h
    <2>4. f = h
        BY <2>2, <2>3
    <2> QED BY <2>4 DEF h, KeepRun, start
<1>8. KeepRun(facts, cutoff, g)
    BY <1>7
<1>9. Before(facts, cutoff) = g[n]
    BY DEF Before, KeepRun, KeepStep
<1> HIDE DEF g, step
<1>10. \A i \in 0..n : g[i] = IF i = 0 THEN start ELSE KeepStep(cutoff, g[i - 1], facts[i])
    <2> DEFINE h == [i \in 0..n |-> IF i = 0 THEN start ELSE KeepStep(cutoff, g[i - 1], facts[i])]
    <2>1. g = h
        BY <1>8 DEF KeepRun, start
    <2>2. \A i \in 0..n : h[i] = IF i = 0 THEN start ELSE KeepStep(cutoff, g[i - 1], facts[i])
        OBVIOUS
    <2> HIDE DEF h, n
    <2> QED BY <2>1, <2>2
<1>11. g[0] = start
    <2>1. 0 \in 0..n
        BY <1>1
    <2> QED BY <1>10, <2>1
<1>12. \A i \in 1..n : g[i] = KeepStep(cutoff, g[i - 1], facts[i])
    BY <1>5, <1>10
<1>13. \A i \in 0..n : g[i] \in Seq(Fact)
    <2>1. \A i \in 1..n : g[i - 1] \in Seq(Fact) => g[i] \in Seq(Fact)
        BY <1>1, <1>12, KeepType
    <2>2. g[0] \in Seq(Fact)
        BY <1>2, <1>11
    <2> HIDE DEF n
    <2> QED BY <1>1, <2>1, <2>2, StaysIn
<1> QED BY <1>9, <1>11, <1>12, <1>13 DEF start

(* No facts change nothing; a last fact is applied to what the others give. *)
LEMMA KeepSteps ==
    ASSUME NEW cutoff \in Nat, NEW facts \in Seq(Fact)
    PROVE  /\ Before(facts, cutoff) \in Seq(Fact)
           /\ Before(<<>>, cutoff) = <<>>
           /\ \A x \in Fact : Before(Append(facts, x), cutoff) = KeepStep(cutoff, Before(facts, cutoff), x)
<1> DEFINE n == Len(facts)
<1>0. n \in Nat /\ n \in 0..n
    OBVIOUS
<1>1. PICK f : /\ f[0] = <<>>
               /\ \A i \in 0..n : f[i] \in Seq(Fact)
               /\ \A i \in 1..n : f[i] = KeepStep(cutoff, f[i - 1], facts[i])
               /\ Before(facts, cutoff) = f[n]
    BY KeepRuns
<1>2. Before(facts, cutoff) \in Seq(Fact)
    BY <1>0, <1>1
<1>3. Before(<<>>, cutoff) = <<>>
    <2>1. <<>> \in Seq(Fact) /\ Len(<<>>) = 0
        OBVIOUS
    <2>2. \E h : h[0] = <<>> /\ Before(<<>>, cutoff) = h[Len(<<>>)]
        BY <2>1, KeepRuns
    <2> QED BY <2>1, <2>2
<1>4. ASSUME NEW x \in Fact
      PROVE  Before(Append(facts, x), cutoff) = KeepStep(cutoff, Before(facts, cutoff), x)
    <2> DEFINE more == Append(facts, x)
    <2>1. /\ more \in Seq(Fact) /\ Len(more) = n + 1 /\ more[n + 1] = x
          /\ \A i \in 1..n : more[i] = facts[i]
        OBVIOUS
    <2> HIDE DEF more
    <2>2. PICK h : /\ h[0] = <<>>
                   /\ \A i \in 1..Len(more) : h[i] = KeepStep(cutoff, h[i - 1], more[i])
                   /\ Before(more, cutoff) = h[Len(more)]
        BY <2>1, KeepRuns
    <2> HIDE DEF n
    <2>3. \A i \in 1..n : f[i - 1] = h[i - 1] => f[i] = h[i]
        <3>1. \A i \in 1..n : i \in 1..(n + 1)
            BY <1>0
        <3> QED BY <1>1, <2>1, <2>2, <3>1
    <2>4. f[0] = h[0]
        BY <1>1, <2>2
    <2>5. f[n] = h[n]
        BY <1>0, <2>3, <2>4, SameRuns
    <2>6. n + 1 \in 1..(n + 1) /\ (n + 1) - 1 = n
        BY <1>0
    <2>7. h[n + 1] = KeepStep(cutoff, h[n], more[n + 1])
        BY <2>1, <2>2, <2>6
    <2> QED BY <1>1, <2>1, <2>2, <2>5, <2>7 DEF more
<1> QED BY <1>2, <1>3, <1>4

-----------------------------------------------------------------------------
(* What the recursive functions give *)

Sampled(session, facts) ==
    LET l == Lifecycle(session, facts) IN
    /\ IsFiniteSet(l.samples)
    /\ \A x \in l.samples :
        /\ x.session = session
        /\ \E k \in 1..Len(facts) : facts[k].type = "evaluated" /\ facts[k].id = x.id

(* A sample is of an evaluation in the journal it is read off. *)
LEMMA LifeSamples ==
    ASSUME NEW session \in Sessions, NEW facts \in Seq(Fact)
    PROVE  Sampled(session, facts)
<1> DEFINE n == Len(facts)
           P(i) == SubSeq(facts, 1, i)
           S == {i \in Nat : Sampled(session, P(i))}
<1>0. n \in Nat
    OBVIOUS
<1>1. 0 \in S
    <2>1. P(0) = <<>>
        OBVIOUS
    <2>2. Lifecycle(session, <<>>) = NoLife
        BY LifeSteps
    <2>3. Lifecycle(session, <<>>).samples = {}
        BY <2>2 DEF NoLife
    <2>4. Sampled(session, <<>>)
        BY <2>3, FS_EmptySet DEF Sampled
    <2> QED BY <2>1, <2>4
<1>2. ASSUME NEW i \in Nat, i < n, i \in S
      PROVE  i + 1 \in S
    <2> DEFINE a == P(i)
               f == facts[i + 1]
               l == Lifecycle(session, a)
               m == LifeStep(session, l, f)
    <2>1. a \in Seq(Fact) /\ f \in Fact /\ P(i + 1) = Append(a, f)
        BY <1>2, GrowByOne
    <2>2. Sampled(session, a)
        BY <1>2
    <2> HIDE DEF a, f, P
    <2>3. l \in Life /\ Lifecycle(session, Append(a, f)) = m
        BY <2>1, LifeSteps
    <2>4. /\ Append(a, f) \in Seq(Fact) /\ Len(Append(a, f)) = Len(a) + 1
          /\ \A k \in 1..Len(a) : Append(a, f)[k] = a[k]
          /\ Append(a, f)[Len(a) + 1] = f
          /\ Len(a) \in Nat
        BY <2>1
    <2>5. /\ IsFiniteSet(l.samples)
          /\ \A x \in l.samples :
                /\ x.session = session
                /\ \E k \in 1..Len(a) : a[k].type = "evaluated" /\ a[k].id = x.id
        BY <2>2 DEF Sampled
    <2> DEFINE x == SampleOf(session, l, f)
    <2>6. \/ m.samples = l.samples
          \/ f.type = "evaluated" /\ m.samples = l.samples \cup {x}
        <3> HIDE DEF l, x
        <3>1. CASE f.type = "recorded"
            BY <2>3, <3>1 DEF LifeStep, Life
        <3>2. CASE f.type = "evaluated"
            <4>1. \/ m = [l EXCEPT !.valid = FALSE]
                  \/ m = [l EXCEPT !.open = None, !.samples = @ \cup {x}]
                BY <3>2 DEF LifeStep, x
            <4> QED BY <2>3, <3>2, <4>1 DEF Life
        <3>3. CASE f.type \notin {"recorded", "evaluated"}
            BY <3>3 DEF LifeStep
        <3> QED BY <3>1, <3>2, <3>3
    <2>7. x.session = session /\ x.id = f.id
        BY DEF SampleOf
    <2> HIDE DEF x, m, l
    <2>8. IsFiniteSet(m.samples)
        BY <2>5, <2>6, FS_AddElement
    <2> DEFINE more == Append(a, f)
    <2>9. ASSUME NEW y \in m.samples
          PROVE  /\ y.session = session
                 /\ \E k \in 1..Len(more) : more[k].type = "evaluated" /\ more[k].id = y.id
        <3> HIDE DEF more
        <3>1. CASE y \in l.samples
            <4>1. PICK k \in 1..Len(a) : a[k].type = "evaluated" /\ a[k].id = y.id
                BY <2>5, <3>1
            <4>2. k \in 1..Len(more) /\ more[k] = a[k]
                BY <2>4 DEF more
            <4> QED BY <2>5, <3>1, <4>1, <4>2
        <3>2. CASE f.type = "evaluated" /\ y = x
            <4>1. Len(a) + 1 \in 1..Len(more) /\ more[Len(a) + 1] = f
                BY <2>4 DEF more
            <4> QED BY <2>7, <3>2, <4>1
        <3> QED BY <2>6, <2>9, <3>1, <3>2
    <2>10. Sampled(session, more)
        <3>1. Lifecycle(session, more).samples = m.samples
            BY <2>3
        <3>2. \A y \in Lifecycle(session, more).samples :
                /\ y.session = session
                /\ \E k \in 1..Len(more) : more[k].type = "evaluated" /\ more[k].id = y.id
            BY <2>9, <3>1
        <3> HIDE DEF more
        <3> QED BY <2>8, <3>1, <3>2 DEF Sampled
    <2>11. Sampled(session, P(i + 1))
        BY <2>1, <2>10, Zenon
    <2> QED BY <2>11
<1> HIDE DEF S
<1>3. \A i \in Nat : i < n /\ i \in S => i + 1 \in S
    BY <1>2
<1>4. n \in S
    <2> HIDE DEF n
    <2>1. \A i \in 0..n : i \in S
        BY <1>0, <1>1, <1>3, Climbs
    <2> QED BY <1>0, <2>1
<1>5. P(n) = facts
    OBVIOUS
<1> QED BY <1>4, <1>5 DEF S

(* Of a journal whose times go up, the facts up to a time come first.       *)
LEMMA BeforeIs ==
    ASSUME NEW cutoff \in Nat, NEW facts \in Seq(Fact),
           \A i \in 1..Len(facts) : facts[i].time \in Nat,
           \A i, j \in 1..Len(facts) : i < j => facts[i].time <= facts[j].time
    PROVE  /\ Through(facts, cutoff) \in 0..Len(facts)
           /\ \A i \in 1..Len(facts) : facts[i].time <= cutoff <=> i <= Through(facts, cutoff)
           /\ Before(facts, cutoff) = SubSeq(facts, 1, Through(facts, cutoff))
<1> DEFINE n == Len(facts)
           m == Through(facts, cutoff)
           up == {i \in DOMAIN facts : facts[i].time <= cutoff}
<1>0. n \in Nat /\ DOMAIN facts = 1..n
    OBVIOUS
<1>1. m \in {0} \cup up /\ \A i \in {0} \cup up : m >= i
    <2> DEFINE S == {0} \cup up
    <2>1. S \subseteq 0..n /\ S # {}
        BY <1>0
    <2>2. m = Max(S)
        BY DEF Through
    <2> HIDE DEF S, m, n
    <2> QED BY <1>0, <2>1, <2>2, GreatestOf DEF S
<1> HIDE DEF m
<1>2. m \in 0..n
    BY <1>0, <1>1
<1>3. ASSUME NEW i \in 1..n
      PROVE  facts[i].time <= cutoff <=> i <= m
    <2>1. facts[i].time <= cutoff => i <= m
        BY <1>0, <1>1
    <2>2. ASSUME i <= m
          PROVE  facts[i].time <= cutoff
        <3>1. m \in 1..n /\ facts[m].time <= cutoff
            BY <1>0, <1>1, <2>2
        <3>2. CASE i = m
            BY <3>1, <3>2
        <3>3. CASE i # m
            <4>1. facts[i].time <= facts[m].time
                BY <1>2, <2>2, <3>1, <3>3
            <4>2. facts[i].time \in Nat /\ facts[m].time \in Nat
                BY <3>1
            <4> QED BY <3>1, <4>1, <4>2
        <3> QED BY <3>2, <3>3
    <2> QED BY <2>1, <2>2
<1> DEFINE up_to(i) == IF i < m THEN i ELSE m
           S == {i \in Nat : Before(SubSeq(facts, 1, i), cutoff) = SubSeq(facts, 1, up_to(i))}
<1>4. 0 \in S
    <2>1. SubSeq(facts, 1, 0) = <<>> /\ up_to(0) = 0
        BY <1>2
    <2>2. Before(<<>>, cutoff) = <<>>
        BY KeepSteps
    <2> QED BY <2>1, <2>2
<1>5. ASSUME NEW i \in Nat, i < n, i \in S
      PROVE  i + 1 \in S
    <2> DEFINE a == SubSeq(facts, 1, i)
               f == facts[i + 1]
    <2>1. a \in Seq(Fact) /\ f \in Fact /\ SubSeq(facts, 1, i + 1) = Append(a, f)
        BY <1>5, GrowByOne
    <2>2. Before(a, cutoff) = SubSeq(facts, 1, up_to(i))
        BY <1>5
    <2>3. f.time <= cutoff <=> i + 1 <= m
        <3>1. i + 1 \in 1..n
            BY <1>5
        <3> QED BY <1>3, <3>1
    <2> HIDE DEF a, f
    <2>4. Before(Append(a, f), cutoff) = KeepStep(cutoff, Before(a, cutoff), f)
        BY <2>1, KeepSteps
    <2>5. CASE i + 1 <= m
        <3>1. up_to(i) = i /\ up_to(i + 1) = i + 1
            BY <1>2, <2>5
        <3>2. KeepStep(cutoff, a, f) = Append(a, f)
            BY <2>3, <2>5 DEF KeepStep
        <3>3. Before(a, cutoff) = a
            BY <2>2, <3>1 DEF a
        <3>4. Before(SubSeq(facts, 1, i + 1), cutoff) = SubSeq(facts, 1, i + 1)
            BY <2>1, <2>4, <3>2, <3>3
        <3> HIDE DEF up_to
        <3> QED BY <3>1, <3>4
    <2>6. CASE ~ (i + 1 <= m)
        <3>1. up_to(i) = m /\ up_to(i + 1) = m
            BY <1>2, <2>6
        <3>2. KeepStep(cutoff, SubSeq(facts, 1, m), f) = SubSeq(facts, 1, m)
            BY <2>3, <2>6 DEF KeepStep
        <3>3. Before(a, cutoff) = SubSeq(facts, 1, m)
            <4> HIDE DEF up_to
            <4> QED BY <2>2, <3>1
        <3>4. Before(SubSeq(facts, 1, i + 1), cutoff) = SubSeq(facts, 1, m)
            BY <2>1, <2>4, <3>2, <3>3
        <3> HIDE DEF up_to
        <3> QED BY <3>1, <3>4
    <2> QED BY <2>5, <2>6
<1> HIDE DEF S
<1>6. \A i \in Nat : i < n /\ i \in S => i + 1 \in S
    BY <1>5
<1>7. n \in S
    <2> HIDE DEF n
    <2>1. \A i \in 0..n : i \in S
        BY <1>0, <1>4, <1>6, Climbs
    <2> QED BY <1>0, <2>1
<1>8. SubSeq(facts, 1, n) = facts /\ up_to(n) = m
    BY <1>2
<1>9. Before(facts, cutoff) = SubSeq(facts, 1, m)
    BY <1>7, <1>8 DEF S
<1> QED BY <1>2, <1>3, <1>9 DEF m

(* Replaying two sequences of facts is replaying the one, then the other.   *)
LEMMA PlayJoin ==
    ASSUME NEW s \in State, NEW a \in Seq(Fact), NEW b \in Seq(Fact), ReplayFrom(s, a).ok
    PROVE  ReplayFrom(s, a \o b) = ReplayFrom(ReplayFrom(s, a).state, b)
<1> DEFINE n == Len(b)
           r == ReplayFrom(s, a)
           t == r.state
           P(i) == SubSeq(b, 1, i)
           S == {i \in Nat : ReplayFrom(s, a \o P(i)) = ReplayFrom(t, P(i))}
<1>0. n \in Nat /\ r \in Played
    BY PlaySteps
<1>a. t \in State /\ r = Fresh(t)
    <2>1. r.ok = TRUE
        BY <1>0 DEF Played
    <2> HIDE DEF r
    <2> QED BY <1>0, <2>1 DEF Played, Fresh
<1> HIDE DEF t
<1>1. 0 \in S
    <2>1. P(0) = <<>> /\ a \o <<>> = a
        OBVIOUS
    <2>2. ReplayFrom(t, <<>>) = Fresh(t)
        BY <1>a, PlaySteps
    <2> QED BY <1>a, <2>1, <2>2
<1>2. ASSUME NEW i \in Nat, i < n, i \in S
      PROVE  i + 1 \in S
    <2>1. P(i) \in Seq(Fact) /\ b[i + 1] \in Fact /\ P(i + 1) = Append(P(i), b[i + 1])
        BY <1>2, GrowByOne
    <2> HIDE DEF P
    <2>2. a \o P(i) \in Seq(Fact) /\ a \o Append(P(i), b[i + 1]) = Append(a \o P(i), b[i + 1])
        BY <2>1
    <2>3. ReplayFrom(s, Append(a \o P(i), b[i + 1])) = PlayStep(ReplayFrom(s, a \o P(i)), b[i + 1])
        BY <2>1, <2>2, PlaySteps
    <2>4. ReplayFrom(t, Append(P(i), b[i + 1])) = PlayStep(ReplayFrom(t, P(i)), b[i + 1])
        BY <1>a, <2>1, PlaySteps
    <2>5. ReplayFrom(s, a \o P(i)) = ReplayFrom(t, P(i))
        BY <1>2
    <2>6. ReplayFrom(s, a \o P(i + 1)) = ReplayFrom(t, P(i + 1))
        BY <2>1, <2>2, <2>3, <2>4, <2>5
    <2> QED BY <2>6
<1> HIDE DEF S
<1>3. \A i \in Nat : i < n /\ i \in S => i + 1 \in S
    BY <1>2
<1>4. \A i \in 0..n : i \in S
    <2> HIDE DEF n
    <2> QED BY <1>0, <1>1, <1>3, Climbs
<1>5. ReplayFrom(s, a \o P(n)) = ReplayFrom(t, P(n))
    BY <1>0, <1>4 DEF S
<1>6. P(n) = b
    OBVIOUS
<1> QED BY <1>5, <1>6 DEF t

-----------------------------------------------------------------------------
(* Journals that replay *)

(* The states of a journal follow each other. *)
LEMMA RunSteps ==
    ASSUME NEW log \in Seq(Fact)
    PROVE  /\ Run(log, 0) = Fresh(Empty)
           /\ Run(log, Len(log)) = ReplayFrom(Empty, log)
           /\ \A i \in 0..Len(log) : Run(log, i) \in Played /\ At(log, i) \in State
           /\ \A i \in 1..Len(log) : log[i] \in Fact /\ Run(log, i) = PlayStep(Run(log, i - 1), log[i])
<1>0. Len(log) \in Nat
    OBVIOUS
<1>1. Run(log, 0) = Fresh(Empty)
    <2>1. SubSeq(log, 1, 0) = <<>>
        OBVIOUS
    <2> QED BY <2>1, EmptyType, PlaySteps DEF Run
<1>2. Run(log, Len(log)) = ReplayFrom(Empty, log)
    <2>1. SubSeq(log, 1, Len(log)) = log
        OBVIOUS
    <2> QED BY <2>1 DEF Run
<1>3. ASSUME NEW i \in 0..Len(log)
      PROVE  Run(log, i) \in Played /\ At(log, i) \in State
    <2>1. SubSeq(log, 1, i) \in Seq(Fact)
        OBVIOUS
    <2>2. Run(log, i) \in Played
        BY <2>1, EmptyType, PlaySteps DEF Run
    <2> QED BY <2>2 DEF At, Played
<1>4. ASSUME NEW i \in 1..Len(log)
      PROVE  log[i] \in Fact /\ Run(log, i) = PlayStep(Run(log, i - 1), log[i])
    <2>1. i - 1 \in Nat /\ i - 1 < Len(log) /\ (i - 1) + 1 = i
        BY <1>0
    <2>2. /\ SubSeq(log, 1, i - 1) \in Seq(Fact) /\ log[i] \in Fact
          /\ SubSeq(log, 1, i) = Append(SubSeq(log, 1, i - 1), log[i])
        BY <2>1, GrowByOne
    <2>3. ReplayFrom(Empty, Append(SubSeq(log, 1, i - 1), log[i]))
              = PlayStep(ReplayFrom(Empty, SubSeq(log, 1, i - 1)), log[i])
        BY <2>2, EmptyType, PlaySteps
    <2> QED BY <2>2, <2>3 DEF Run
<1> QED BY <1>1, <1>2, <1>3, <1>4

(* A longer journal has the same earlier states. *)
LEMMA RunGrows ==
    ASSUME NEW log \in Seq(Fact), NEW x \in Fact
    PROVE  /\ Append(log, x) \in Seq(Fact) /\ Len(Append(log, x)) = Len(log) + 1
           /\ Append(log, x)[Len(log) + 1] = x
           /\ \A i \in 1..Len(log) : Append(log, x)[i] = log[i]
           /\ \A i \in 0..Len(log) : Run(Append(log, x), i) = Run(log, i)
           /\ Run(Append(log, x), Len(log) + 1) = PlayStep(Run(log, Len(log)), x)
<1> DEFINE more == Append(log, x)
<1>1. /\ more \in Seq(Fact) /\ Len(more) = Len(log) + 1 /\ more[Len(log) + 1] = x
      /\ \A i \in 1..Len(log) : more[i] = log[i]
    OBVIOUS
<1>2. ASSUME NEW i \in 0..Len(log)
      PROVE  Run(more, i) = Run(log, i)
    <2>1. SubSeq(more, 1, i) = SubSeq(log, 1, i)
        OBVIOUS
    <2> QED BY <2>1 DEF Run
<1>3. Run(more, Len(log) + 1) = PlayStep(Run(log, Len(log)), x)
    <2>1. ReplayFrom(Empty, more) = PlayStep(ReplayFrom(Empty, log), x)
        BY EmptyType, PlaySteps
    <2>2. Run(more, Len(more)) = ReplayFrom(Empty, more) /\ Run(log, Len(log)) = ReplayFrom(Empty, log)
        BY <1>1, RunSteps
    <2> QED BY <1>1, <2>1, <2>2
<1> QED BY <1>1, <1>2, <1>3

(* So has a shorter one. *)
LEMMA RunPrefix ==
    ASSUME NEW log \in Seq(Fact), NEW n \in 0..Len(log)
    PROVE  /\ SubSeq(log, 1, n) \in Seq(Fact) /\ Len(SubSeq(log, 1, n)) = n
           /\ \A i \in 1..n : SubSeq(log, 1, n)[i] = log[i]
           /\ \A i \in 0..n : Run(SubSeq(log, 1, n), i) = Run(log, i)
<1>1. /\ SubSeq(log, 1, n) \in Seq(Fact) /\ Len(SubSeq(log, 1, n)) = n
      /\ \A i \in 1..n : SubSeq(log, 1, n)[i] = log[i]
    OBVIOUS
<1>2. ASSUME NEW i \in 0..n
      PROVE  Run(SubSeq(log, 1, n), i) = Run(log, i)
    <2>1. SubSeq(SubSeq(log, 1, n), 1, i) = SubSeq(log, 1, i)
        OBVIOUS
    <2> QED BY <2>1 DEF Run
<1> QED BY <1>1, <1>2

(* In a journal that replays, each fact is accepted where it stands.        *)
LEMMA FaithfulSteps ==
    ASSUME NEW s, NEW log \in Seq(Fact), Faithful(s, log)
    PROVE  /\ At(log, 0) = Empty
           /\ ReplayFrom(Empty, log) = Fresh(At(log, Len(log)))
           /\ \A i \in 1..Len(log) : /\ Accepts(At(log, i - 1), log[i])
                                     /\ At(log, i) = Reduce(At(log, i - 1), log[i])
<1>1. At(log, 0) = Empty
    BY RunSteps DEF At, Fresh
<1>2. ReplayFrom(Empty, log) = Fresh(At(log, Len(log)))
    <2>1. Len(log) \in 0..Len(log)
        OBVIOUS
    <2>2. Run(log, Len(log)).ok /\ Run(log, Len(log)) \in Played
        BY <2>1, RunSteps DEF Faithful
    <2>3. Run(log, Len(log)) = Fresh(At(log, Len(log)))
        BY <2>2 DEF At, Fresh, Played
    <2> QED BY <2>3, RunSteps
<1>3. ASSUME NEW i \in 1..Len(log)
      PROVE  Accepts(At(log, i - 1), log[i]) /\ At(log, i) = Reduce(At(log, i - 1), log[i])
    <2>1. i \in 0..Len(log) /\ i - 1 \in 0..Len(log)
        OBVIOUS
    <2>2. Run(log, i).ok /\ Run(log, i - 1) \in Played
        BY <2>1, RunSteps DEF Faithful
    <2>3. Run(log, i) = PlayStep(Run(log, i - 1), log[i])
        BY RunSteps
    <2> DEFINE r == Run(log, i - 1)
    <2> HIDE DEF r
    <2>4. r \in Played /\ Run(log, i) = PlayStep(r, log[i]) /\ At(log, i - 1) = r.state
        BY <2>2, <2>3 DEF r, At
    <2>5. r.ok /\ Accepts(r.state, log[i])
        <3>1. ASSUME ~ (r.ok /\ Accepts(r.state, log[i]))
              PROVE  FALSE
            <4>1. Run(log, i) = [r EXCEPT !.ok = FALSE]
                BY <2>4, <3>1 DEF PlayStep
            <4>2. Run(log, i).ok = FALSE
                BY <2>4, <4>1 DEF Played
            <4> QED BY <2>2, <4>2
        <3> QED BY <3>1
    <2>6. Run(log, i) = [state |-> Reduce(r.state, log[i]), ok |-> TRUE]
        BY <2>4, <2>5 DEF PlayStep
    <2> QED BY <2>4, <2>5, <2>6 DEF At
<1> QED BY <1>1, <1>2, <1>3

(* A fact that is accepted, and carries what it should, can be appended.    *)
LEMMA FaithfulGrows ==
    ASSUME NEW s, NEW log \in Seq(Fact), Faithful(s, log), NEW x \in Fact,
           Accepts(At(log, Len(log)), x),
           x.type = "recorded" => x.reflection.id = <<s, Len(log) + 1>>,
           x.type = "snapshot" => x.lastSeq = Len(log) /\ x.state = At(log, Len(log))
    PROVE  /\ Faithful(s, Append(log, x))
           /\ At(Append(log, x), Len(log) + 1) = Reduce(At(log, Len(log)), x)
           /\ \A i \in 0..Len(log) : At(Append(log, x), i) = At(log, i)
<1> DEFINE more == Append(log, x)
           n == Len(log)
<1>1. /\ more \in Seq(Fact) /\ Len(more) = n + 1 /\ n \in Nat
      /\ more[n + 1] = x
      /\ \A i \in 1..n : more[i] = log[i]
      /\ \A i \in 0..n : Run(more, i) = Run(log, i)
      /\ Run(more, n + 1) = PlayStep(Run(log, n), x)
    BY RunGrows
<1>2. /\ \A i \in 0..n : Run(log, i).ok
      /\ \A i \in 1..n :
            /\ log[i].type = "recorded" => log[i].reflection.id = <<s, i>>
            /\ log[i].type = "snapshot" => log[i].lastSeq = i - 1 /\ log[i].state = At(log, i - 1)
    BY DEF Faithful
<1>3. Accepts(At(log, n), x) /\ n \in 0..n
    OBVIOUS
<1>a. /\ x.type = "recorded" => x.reflection.id = <<s, n + 1>>
      /\ x.type = "snapshot" => x.lastSeq = n /\ x.state = At(log, n)
    OBVIOUS
<1> HIDE DEF more, n
<1>4. \A i \in 0..n : At(more, i) = At(log, i)
    BY <1>1 DEF At
<1>5. Run(more, n + 1) = [state |-> Reduce(At(log, n), x), ok |-> TRUE]
    BY <1>1, <1>2, <1>3 DEF PlayStep, At
<1>6. At(more, n + 1) = Reduce(At(log, n), x)
    BY <1>5 DEF At
<1>7. ASSUME NEW i \in 0..(n + 1)
      PROVE  Run(more, i).ok
    <2>1. CASE i = n + 1
        BY <1>5, <2>1
    <2>2. CASE i # n + 1
        <3>1. i \in 0..n
            BY <1>1, <2>2
        <3> QED BY <1>1, <1>2, <3>1
    <2> QED BY <2>1, <2>2
<1>8. ASSUME NEW i \in 1..(n + 1)
      PROVE  /\ more[i].type = "recorded" => more[i].reflection.id = <<s, i>>
             /\ more[i].type = "snapshot" => more[i].lastSeq = i - 1 /\ more[i].state = At(more, i - 1)
    <2>1. CASE i = n + 1
        <3>1. i - 1 = n /\ more[i] = x /\ At(more, n) = At(log, n)
            BY <1>1, <1>3, <1>4, <2>1
        <3> QED BY <1>a, <2>1, <3>1
    <2>2. CASE i # n + 1
        <3>1. i \in 1..n /\ i - 1 \in 0..n
            BY <1>1, <2>2
        <3>2. more[i] = log[i] /\ At(more, i - 1) = At(log, i - 1)
            BY <1>1, <1>4, <3>1
        <3> QED BY <1>2, <3>1, <3>2
    <2> QED BY <2>1, <2>2
<1>9. Faithful(s, more)
    BY <1>1, <1>7, <1>8 DEF Faithful
<1> QED BY <1>4, <1>6, <1>9 DEF more, n

(* The first facts of a journal that replays do. *)
LEMMA FaithfulPrefix ==
    ASSUME NEW s, NEW log \in Seq(Fact), Faithful(s, log), NEW n \in 0..Len(log)
    PROVE  /\ Faithful(s, SubSeq(log, 1, n))
           /\ \A i \in 0..n : At(SubSeq(log, 1, n), i) = At(log, i)
<1> DEFINE a == SubSeq(log, 1, n)
<1>1. /\ a \in Seq(Fact) /\ Len(a) = n
      /\ \A i \in 1..n : a[i] = log[i]
      /\ \A i \in 0..n : Run(a, i) = Run(log, i)
    BY RunPrefix
<1> HIDE DEF a
<1>2. \A i \in 0..n : At(a, i) = At(log, i)
    BY <1>1 DEF At
<1>3. \A i \in 0..n : i \in 0..Len(log)
    OBVIOUS
<1>4. \A i \in 1..n : i \in 1..Len(log) /\ i - 1 \in 0..n
    OBVIOUS
<1>5. Faithful(s, a)
    BY <1>1, <1>2, <1>3, <1>4 DEF Faithful
<1> QED BY <1>2, <1>5 DEF a

(* The latest snapshot and the facts after it give what all facts give.     *)
LEMMA FaithfulReplay ==
    ASSUME NEW s, NEW log \in Seq(Fact), Faithful(s, log)
    PROVE  Replay(log) = ReplayFrom(Empty, log)
<1> DEFINE at == OfType(log, "snapshot")
           m == Max(at)
<1>0. Len(log) \in Nat /\ DOMAIN log = 1..Len(log)
    OBVIOUS
<1>1. CASE at = {}
    BY <1>1 DEF Replay
<1>2. CASE at # {}
    <2>1. at \subseteq 0..Len(log) /\ at \subseteq 1..Len(log)
        BY <1>0 DEF OfType
    <2>2. m \in at
        <3> HIDE DEF at
        <3> QED BY <1>0, <1>2, <2>1, GreatestOf
    <2>3. m \in 1..Len(log) /\ log[m].type = "snapshot"
        BY <1>0, <2>2 DEF OfType
    <2>4. log[m].lastSeq = m - 1 /\ log[m].state = At(log, m - 1) /\ Run(log, m - 1).ok
        <3> HIDE DEF m
        <3>1. m - 1 \in 0..Len(log)
            BY <2>3
        <3> QED BY <2>3, <3>1 DEF Faithful
    <2>5. Replay(log) = ReplayFrom(log[m].state, SubSeq(log, log[m].lastSeq + 1, Len(log)))
        BY <1>2 DEF Replay
    <2> HIDE DEF m, at
    <2>6. SubSeq(log, log[m].lastSeq + 1, Len(log)) = SubSeq(log, m, Len(log))
        <3>1. (m - 1) + 1 = m
            BY <2>3
        <3> QED BY <2>4, <3>1
    <2> DEFINE a == SubSeq(log, 1, m - 1)
               b == SubSeq(log, m, Len(log))
    <2>7. a \in Seq(Fact) /\ b \in Seq(Fact) /\ log = a \o b
        BY <1>0, <2>3, CutInTwo
    <2>8. ReplayFrom(Empty, a).ok /\ At(log, m - 1) = ReplayFrom(Empty, a).state
        BY <2>4 DEF Run, At
    <2> HIDE DEF a, b
    <2>9. ReplayFrom(Empty, a \o b) = ReplayFrom(ReplayFrom(Empty, a).state, b)
        BY <2>7, <2>8, EmptyType, PlayJoin
    <2> QED BY <2>4, <2>5, <2>6, <2>7, <2>8, <2>9 DEF b
<1> QED BY <1>1, <1>2

(* The state after k facts has the selection among them, of which there is  *)
(* one at most, the ids of the evaluations and only reflections among them. *)
Replayed(log, k) ==
    /\ \A i \in 1..k : log[i].type = "selected" => At(log, k).selection = log[i].selection
    /\ (\A i \in 1..k : log[i].type # "selected") => At(log, k).selection = None
    /\ \A i, j \in 1..k : log[i].type = "selected" /\ log[j].type = "selected" => i = j
    /\ \A i \in 1..k : log[i].type = "evaluated" => log[i].id \in At(log, k).evaluated
    /\ \A i, j \in 1..k :
        log[i].type = "evaluated" /\ log[j].type = "evaluated" /\ log[i].id = log[j].id => i = j
    /\ \A r \in At(log, k).reflections :
        \E i \in 1..k : log[i].type = "recorded" /\ log[i].reflection = r

(* What the reducer changes *)
LEMMA ReduceEffect ==
    ASSUME NEW s \in State, NEW f \in Fact
    PROVE  /\ Reduce(s, f).selection = IF f.type = "selected" THEN f.selection ELSE s.selection
           /\ Reduce(s, f).evaluated =
                IF f.type = "evaluated" THEN s.evaluated \cup {f.id} ELSE s.evaluated
           /\ Reduce(s, f).reflections =
                IF f.type = "recorded" THEN s.reflections \cup {f.reflection} ELSE s.reflections
<1>1. CASE f.type = "selected"
    <2>1. Reduce(s, f) = [s EXCEPT !.selection = f.selection]
        BY <1>1 DEF Reduce
    <2> QED BY <1>1, <2>1 DEF State
<1>2. CASE f.type = "recorded"
    <2>1. Reduce(s, f) = [s EXCEPT !.reflections = @ \cup {f.reflection}]
        BY <1>2 DEF Reduce
    <2> QED BY <1>2, <2>1 DEF State
<1>3. CASE f.type = "evaluated"
    <2>1. Reduce(s, f) = [s EXCEPT !.evaluated = @ \cup {f.id}]
        BY <1>3 DEF Reduce
    <2> QED BY <1>3, <2>1 DEF State
<1>4. CASE f.type \notin {"selected", "recorded", "evaluated"}
    BY <1>4 DEF Reduce
<1> QED BY <1>1, <1>2, <1>3, <1>4

(* What a journal that replays leads to *)
LEMMA ReplayedAlways ==
    ASSUME NEW s, NEW log \in Seq(Fact), Faithful(s, log), Named(log)
    PROVE  \A k \in 0..Len(log) : Replayed(log, k)
<1> DEFINE n == Len(log)
           S == {k \in Nat : Replayed(log, k)}
<1>0. n \in Nat /\ DOMAIN log = 1..n
    OBVIOUS
<1>1. 0 \in S
    <2>1. At(log, 0) = Empty
        BY FaithfulSteps
    <2>2. At(log, 0).selection = None /\ At(log, 0).reflections = {}
        BY <2>1 DEF Empty
    <2>3. Replayed(log, 0)
        BY <2>2 DEF Replayed
    <2> QED BY <2>3
<1>2. ASSUME NEW k \in Nat, k < n, k \in S
      PROVE  k + 1 \in S
    <2> DEFINE m == k + 1
               a == At(log, k)
               b == At(log, m)
               f == log[m]
    <2>1. m \in 1..n /\ m - 1 = k /\ k \in 0..n
        BY <1>0, <1>2
    <2>2. f \in Fact /\ a \in State
        BY <2>1, RunSteps
    <2>3. Accepts(a, f) /\ b = Reduce(a, f)
        <3> HIDE DEF m
        <3>1. Accepts(At(log, m - 1), log[m]) /\ At(log, m) = Reduce(At(log, m - 1), log[m])
            BY <2>1, FaithfulSteps
        <3> QED BY <2>1, <3>1
    <2>4. Replayed(log, k)
        BY <1>2
    <2>5. \A i \in 1..m : i = m \/ i \in 1..k
        BY <2>1
    <2>6. m \in 1..m /\ \A i \in 1..k : i \in 1..m
        BY <2>1
    <2>7. f.type = "selected" => f.selection # None
        <3>1. f.type = "selected" => m \in OfType(log, "selected")
            BY <1>0, <2>1 DEF OfType
        <3> HIDE DEF m
        <3> QED BY <3>1 DEF Named
    <2> HIDE DEF a, b, m, f
    <2>8. /\ b.selection = IF f.type = "selected" THEN f.selection ELSE a.selection
          /\ b.evaluated = IF f.type = "evaluated" THEN a.evaluated \cup {f.id} ELSE a.evaluated
          /\ b.reflections = IF f.type = "recorded" THEN a.reflections \cup {f.reflection}
                             ELSE a.reflections
        BY <2>2, <2>3, ReduceEffect
    <2>9. /\ f.type = "selected" => a.selection = None
          /\ f.type = "evaluated" => f.id \notin a.evaluated
        BY <2>3 DEF Accepts
    <2>10. /\ \A i \in 1..k : log[i].type = "selected" => a.selection = log[i].selection
           /\ (\A i \in 1..k : log[i].type # "selected") => a.selection = None
           /\ \A i, j \in 1..k : log[i].type = "selected" /\ log[j].type = "selected" => i = j
           /\ \A i \in 1..k : log[i].type = "evaluated" => log[i].id \in a.evaluated
           /\ \A i, j \in 1..k : log[i].type = "evaluated" /\ log[j].type = "evaluated"
                /\ log[i].id = log[j].id => i = j
           /\ \A r \in a.reflections : \E i \in 1..k : log[i].type = "recorded" /\ log[i].reflection = r
        BY <2>4 DEF Replayed, a
    <2>11. \A i \in 1..k : log[i].type = "selected" => log[i].selection # None
        <3>1. \A i \in 1..k : i \in 1..n
            BY <2>1
        <3> QED BY <1>0, <3>1 DEF Named, OfType
    <2>12. f.type = "selected" => \A i \in 1..k : log[i].type # "selected"
        BY <2>9, <2>10, <2>11
    <2>13. log[m] = f
        BY DEF f
    <2>14. \A i \in 1..m : log[i].type = "selected" => b.selection = log[i].selection
        BY <2>5, <2>8, <2>10, <2>12, <2>13
    <2>15. (\A i \in 1..m : log[i].type # "selected") => b.selection = None
        BY <2>6, <2>8, <2>10, <2>13
    <2>16. \A i, j \in 1..m : log[i].type = "selected" /\ log[j].type = "selected" => i = j
        BY <2>5, <2>10, <2>12, <2>13
    <2>17. \A i \in 1..m : log[i].type = "evaluated" => log[i].id \in b.evaluated
        BY <2>5, <2>8, <2>10, <2>13
    <2>18. \A i, j \in 1..m : log[i].type = "evaluated" /\ log[j].type = "evaluated"
                /\ log[i].id = log[j].id => i = j
        BY <2>5, <2>9, <2>10, <2>13
    <2>19. \A r \in b.reflections : \E i \in 1..m : log[i].type = "recorded" /\ log[i].reflection = r
        BY <2>6, <2>8, <2>10, <2>13
    <2>20. Replayed(log, m)
        BY <2>14, <2>15, <2>16, <2>17, <2>18, <2>19 DEF Replayed, b
    <2> QED BY <2>20 DEF m
<1> HIDE DEF S
<1>3. \A k \in Nat : k < n /\ k \in S => k + 1 \in S
    BY <1>2
<1>4. \A k \in 0..n : k \in S
    <2> HIDE DEF n
    <2> QED BY <1>0, <1>1, <1>3, Climbs
<1> QED BY <1>4 DEF S

(* The selection of a journal that replays is that of its state. *)
LEMMA SelectionIs ==
    ASSUME NEW s, NEW log \in Seq(Fact), Faithful(s, log), Named(log)
    PROVE  SelectionOf(log) = At(log, Len(log)).selection
<1> DEFINE at == OfType(log, "selected")
           n == Len(log)
<1>0. n \in Nat /\ DOMAIN log = 1..n /\ n \in 0..n
    OBVIOUS
<1>1. Replayed(log, n)
    BY <1>0, ReplayedAlways
<1>2. CASE at = {}
    <2>1. \A i \in 1..n : log[i].type # "selected"
        BY <1>0, <1>2 DEF OfType
    <2>2. At(log, n).selection = None
        BY <1>1, <2>1 DEF Replayed
    <2> QED BY <1>2, <2>2 DEF SelectionOf
<1>3. CASE at # {}
    <2>1. at \subseteq 1..n
        BY <1>0 DEF OfType
    <2>2. Min(at) \in at
        <3> HIDE DEF at
        <3>1. at \subseteq Nat
            BY <2>1
        <3> QED BY <1>3, <3>1, LeastOf
    <2>3. Min(at) \in 1..n /\ log[Min(at)].type = "selected"
        BY <1>0, <2>2 DEF OfType
    <2>4. SelectionOf(log) = log[Min(at)].selection
        BY <1>3 DEF SelectionOf
    <2> HIDE DEF at
    <2> QED BY <1>1, <2>3, <2>4 DEF Replayed
<1> QED BY <1>2, <1>3

(* A journal that replays passes the diagnosis before a resume. *)
LEMMA FaithfulIsDiagnosed ==
    ASSUME NEW s, NEW log \in Seq(Fact), Faithful(s, log), Named(log), Intact(log)
    PROVE  Diagnosed(log)
<1> DEFINE n == Len(log)
<1>0. n \in Nat /\ DOMAIN log = 1..n /\ n \in 0..n
    OBVIOUS
<1>1. Cardinality(OfType(log, "selected")) <= 1
    <2> DEFINE at == OfType(log, "selected")
    <2>1. \A i, j \in at : i = j
        BY <1>0, ReplayedAlways DEF Replayed, OfType
    <2>2. CASE at = {}
        <3> HIDE DEF at
        <3>1. Cardinality(at) = 0
            BY <2>2, FS_EmptySet
        <3> QED BY <3>1 DEF at
    <2>3. CASE at # {}
        <3>1. PICK i \in at : TRUE
            BY <2>3
        <3>2. at = {i}
            BY <2>1, <3>1
        <3> HIDE DEF at
        <3>3. Cardinality(at) = 1
            BY <3>2, FS_Singleton
        <3> QED BY <3>3 DEF at
    <2> QED BY <2>2, <2>3
<1>2. SnapshotMatches(log)
    <2> DEFINE at == OfType(log, "snapshot")
               m == Max(at)
    <2>0. ASSUME at # {}
          PROVE  log[m].state.selection = SelectionOf(SubSeq(log, 1, log[m].lastSeq))
        <3>1. at \subseteq 0..n /\ at \subseteq 1..n
            BY <1>0 DEF OfType
        <3>2. m \in at
            <4> HIDE DEF at
            <4> QED BY <1>0, <2>0, <3>1, GreatestOf
        <3>3. m \in 1..n /\ log[m].type = "snapshot"
            BY <1>0, <3>2 DEF OfType
        <3> HIDE DEF m
        <3>4. log[m].lastSeq = m - 1 /\ log[m].state = At(log, m - 1)
            BY <3>3 DEF Faithful
        <3> DEFINE k == m - 1
                   a == SubSeq(log, 1, k)
        <3>5. k \in 0..n
            BY <3>3
        <3> HIDE DEF k
        <3>6. a \in Seq(Fact) /\ Len(a) = k /\ \A i \in 1..k : a[i] = log[i]
            BY <3>5, RunPrefix
        <3>7. Faithful(s, a) /\ At(a, k) = At(log, k)
            <4>1. k \in 0..k
                BY <3>5
            <4> QED BY <3>5, <4>1, FaithfulPrefix
        <3> HIDE DEF a
        <3>8. Named(a)
            <4>1. DOMAIN a = 1..k /\ \A i \in 1..k : i \in 1..n
                BY <3>5, <3>6
            <4> QED BY <1>0, <3>6, <4>1 DEF Named, OfType
        <3>9. SelectionOf(a) = At(a, Len(a)).selection
            BY <3>6, <3>7, <3>8, SelectionIs
        <3>10. log[m].state.selection = SelectionOf(a)
            BY <3>4, <3>6, <3>7, <3>9 DEF k
        <3>11. a = SubSeq(log, 1, log[m].lastSeq)
            BY <3>4 DEF a, k
        <3> QED BY <3>10, <3>11
    <2> QED BY <2>0 DEF SnapshotMatches
<1>3. Replay(log).ok
    <2>1. Replay(log) = Fresh(At(log, n))
        BY FaithfulReplay, FaithfulSteps
    <2> QED BY <2>1 DEF Fresh
<1> QED BY <1>1, <1>2, <1>3 DEF Diagnosed

-----------------------------------------------------------------------------
(* Parts of a journal *)

(* A fact that is not a damaged line has a time. *)
LEMMA FactTime ==
    ASSUME NEW f \in Fact, f.type # "corrupt"
    PROVE  f.time \in Nat
BY DEF Fact

(* What is loaded: the facts before the first damaged line. *)
LEMMA LoadIs ==
    ASSUME NEW log \in Seq(Fact)
    PROVE  /\ Load(log) \in Seq(Fact) /\ Len(Load(log)) <= Len(log)
           /\ \A i \in 1..Len(Load(log)) : Load(log)[i] = log[i] /\ log[i].type # "corrupt"
           /\ Intact(log) => Load(log) = log
<1> DEFINE bad == OfType(log, "corrupt")
           n == Len(log)
<1>0. n \in Nat /\ DOMAIN log = 1..n
    OBVIOUS
<1>1. CASE bad = {}
    <2>1. Load(log) = log
        BY <1>1 DEF Load
    <2>2. \A i \in 1..n : log[i].type # "corrupt"
        BY <1>0, <1>1 DEF OfType
    <2> QED BY <1>0, <2>1, <2>2
<1>2. CASE bad # {}
    <2> DEFINE m == Min(bad)
               a == SubSeq(log, 1, m - 1)
    <2>1. bad \subseteq 1..n
        BY <1>0 DEF OfType
    <2>2. m \in bad /\ \A i \in bad : m <= i
        <3>1. bad \subseteq Nat
            BY <2>1
        <3> HIDE DEF bad
        <3> QED BY <1>2, <3>1, LeastOf
    <2>3. Load(log) = a
        BY <1>2 DEF Load
    <2> HIDE DEF m
    <2>4. m \in 1..n
        BY <2>1, <2>2
    <2>5. a \in Seq(Fact) /\ Len(a) = m - 1 /\ \A i \in 1..(m - 1) : a[i] = log[i]
        BY <2>4
    <2>6. \A i \in 1..(m - 1) : log[i].type # "corrupt"
        <3> TAKE i \in 1..(m - 1)
        <3>1. i \in 1..n /\ i < m
            BY <2>4
        <3>2. i \notin bad
            <4> HIDE DEF bad
            <4> QED BY <2>2, <2>4, <3>1
        <3> QED BY <1>0, <3>1, <3>2 DEF OfType
    <2>7. ~ Intact(log)
        BY <1>2 DEF Intact
    <2> HIDE DEF a
    <2> QED BY <2>3, <2>4, <2>5, <2>6, <2>7
<1> QED BY <1>1, <1>2

(* A selection that is loaded is one of the journal. *)
LEMMA LoadedSelection ==
    ASSUME NEW log \in Seq(Fact), SelectionOf(Load(log)) # None
    PROVE  \E i \in OfType(log, "selected") : SelectionOf(Load(log)) = log[i].selection
<1> DEFINE a == Load(log)
           at == OfType(a, "selected")
           m == Min(at)
<1>0. Len(log) \in Nat /\ DOMAIN log = 1..Len(log)
    OBVIOUS
<1>1. /\ a \in Seq(Fact) /\ Len(a) <= Len(log)
      /\ \A i \in 1..Len(a) : a[i] = log[i]
    BY LoadIs
<1>2. at # {} /\ SelectionOf(a) = a[m].selection
    BY DEF SelectionOf
<1> HIDE DEF a
<1>3. at \subseteq 1..Len(a) /\ Len(a) \in Nat
    BY <1>1 DEF OfType
<1>4. m \in at
    <2>1. at \subseteq Nat
        BY <1>3
    <2> HIDE DEF at
    <2> QED BY <1>2, <2>1, LeastOf
<1>5. m \in 1..Len(a) /\ a[m].type = "selected"
    BY <1>3, <1>4 DEF OfType
<1> HIDE DEF m, at
<1>6. m \in 1..Len(log) /\ log[m] = a[m]
    BY <1>0, <1>1, <1>3, <1>5
<1>7. m \in OfType(log, "selected")
    BY <1>0, <1>5, <1>6 DEF OfType
<1> QED BY <1>2, <1>6, <1>7 DEF a

(* One more fact, seen by its type *)
LEMMA TypesGrow ==
    ASSUME NEW log \in Seq(Fact), NEW x \in Fact, NEW type
    PROVE  OfType(Append(log, x), type) =
                IF x.type = type THEN OfType(log, type) \cup {Len(log) + 1} ELSE OfType(log, type)
<1> DEFINE more == Append(log, x)
           n == Len(log)
<1>1. /\ DOMAIN log = 1..n /\ DOMAIN more = 1..(n + 1) /\ more[n + 1] = x /\ n \in Nat
      /\ \A i \in 1..n : more[i] = log[i]
    OBVIOUS
<1>2. 1..(n + 1) = 1..n \cup {n + 1} /\ n + 1 \notin 1..n
    BY <1>1
<1> HIDE DEF more, n
<1>3. OfType(more, type) = {i \in 1..n : log[i].type = type} \cup {i \in {n + 1} : x.type = type}
    BY <1>1, <1>2 DEF OfType
<1> QED BY <1>1, <1>3 DEF OfType, more, n

(* Journals that stay in order when a fact of now is added. *)
LEMMA DatedGrows ==
    ASSUME NEW log \in Seq(Fact), NEW now \in Nat, Dated(log, now), NEW x \in Fact,
           x.type # "corrupt", x.time = now, log = <<>> => x.type = "run"
    PROVE  Dated(Append(log, x), now)
<1> DEFINE more == Append(log, x)
           n == Len(log)
<1>1. /\ Len(more) = n + 1 /\ more[n + 1] = x /\ n \in Nat
      /\ \A i \in 1..n : more[i] = log[i]
    OBVIOUS
<1>2. /\ \A i \in 1..n : log[i].type # "corrupt" => log[i].time <= now
      /\ \A i, j \in 1..n : i < j /\ log[i].type # "corrupt" /\ log[j].type # "corrupt"
            => log[i].time <= log[j].time
      /\ log # <<>> => log[1].type \in {"run", "corrupt"}
    BY DEF Dated
<1>3. more[1].type \in {"run", "corrupt"}
    <2>1. CASE log = <<>>
        BY <2>1
    <2>2. CASE log # <<>>
        <3>1. 1 \in 1..n
            BY <2>2
        <3> HIDE DEF more, n
        <3> QED BY <1>1, <1>2, <2>2, <3>1
    <2> QED BY <2>1, <2>2
<1> HIDE DEF more, n
<1>4. \A i \in 1..(n + 1) : i \in 1..n \/ i = n + 1
    BY <1>1
<1>5. \A i \in 1..(n + 1) : more[i].type # "corrupt" => more[i].time <= now
    <2> TAKE i \in 1..(n + 1)
    <2>1. CASE i \in 1..n
        BY <1>1, <1>2, <2>1
    <2>2. CASE i = n + 1
        BY <1>1, <2>2
    <2> QED BY <1>4, <2>1, <2>2
<1>6. ASSUME NEW i \in 1..(n + 1), NEW j \in 1..(n + 1), i < j,
             more[i].type # "corrupt", more[j].type # "corrupt"
      PROVE  more[i].time <= more[j].time
    <2>1. i \in 1..n
        BY <1>1, <1>6
    <2>2. CASE j \in 1..n
        BY <1>1, <1>2, <1>6, <2>1, <2>2
    <2>3. CASE j = n + 1
        <3>1. more[j].time = now
            BY <1>1, <2>3
        <3> QED BY <1>5, <1>6, <3>1
    <2> QED BY <1>4, <2>2, <2>3
<1> QED BY <1>1, <1>3, <1>5, <1>6 DEF Dated, more

-----------------------------------------------------------------------------
(* The scan *)

(* A usable journal is a source: as far as it was read, it holds the        *)
(* samples the source has.                                                  *)
LEMMA SourceIs ==
    ASSUME Typed, NEW t \in Sessions, Dated(journal[t], clock), NEW cutoff \in Nat,
           Usable(t, cutoff)
    PROVE  /\ Source(t, cutoff) \in SourceType
           /\ Source(t, cutoff).session = t
           /\ Source(t, cutoff).through > 0 /\ Source(t, cutoff).samples # {}
           /\ IsFiniteSet(Source(t, cutoff).samples)
           /\ \A x \in Source(t, cutoff).samples : x.session = t
           /\ SourceFits(Source(t, cutoff), cutoff)
           /\ journal[t] # <<>>
<1> DEFINE J == journal[t]
           n == Len(J)
           m == Through(J, cutoff)
           early == Before(J, cutoff)
           l == Lifecycle(t, early)
           a == Source(t, cutoff)
<1>1. J \in Seq(Fact) /\ n \in Nat /\ DOMAIN J = 1..n
    BY DEF Typed
<1>2. /\ J # <<>> /\ J[1].time <= cutoff /\ Intact(J) /\ OfType(J, "branch") = {}
      /\ l.samples # {}
    BY DEF Usable, BeganInTime
<1>3. Dated(J, clock)
    OBVIOUS
<1>4. a = [session |-> t, through |-> m, samples |-> l.samples]
    BY DEF Source
<1> HIDE DEF J
<1>5. \A i \in 1..n : J[i].type # "corrupt"
    BY <1>1, <1>2 DEF Intact, OfType
<1>6. \A i \in 1..n : J[i].time \in Nat
    <2>1. \A i \in 1..n : J[i] \in Fact
        BY <1>1
    <2> QED BY <1>5, <2>1, FactTime
<1>7. \A i, j \in 1..n : i < j => J[i].time <= J[j].time
    BY <1>3, <1>5 DEF Dated
<1>8. m \in 0..n /\ (\A i \in 1..n : J[i].time <= cutoff <=> i <= m) /\ early = SubSeq(J, 1, m)
    BY <1>1, <1>6, <1>7, BeforeIs
<1>9. early \in Seq(Fact)
    BY <1>1, KeepSteps
<1>10. l \in Life
    <2> HIDE DEF early
    <2> QED BY <1>9, LifeSteps
<1>11. Sampled(t, early)
    <2> HIDE DEF early
    <2> QED BY <1>9, LifeSamples
<1>12. IsFiniteSet(l.samples) /\ \A x \in l.samples : x.session = t
    BY <1>11 DEF Sampled
<1> HIDE DEF early, m, n
<1>13. m > 0
    <2>1. 1 \in 1..n
        BY <1>1, <1>2 DEF n
    <2> QED BY <1>2, <1>8, <2>1
<1> HIDE DEF l, a
<1>14. a.session = t /\ a.through = m /\ a.samples = l.samples
    BY <1>4
<1>15. l.samples \subseteq Sample
    BY <1>10 DEF Life
<1>16. a \in SourceType
    BY <1>4, <1>8, <1>15 DEF SourceType
<1>17. SourceFits(a, cutoff)
    <2>1. Lifecycle(t, SubSeq(J, 1, m)).samples = l.samples
        BY <1>8 DEF l
    <2>2. \A i \in 1..m : J[i].time <= cutoff
        <3> TAKE i \in 1..m
        <3>1. i \in 1..n /\ i <= m
            BY <1>1, <1>8
        <3> QED BY <1>8, <3>1
    <2>3. m <= Len(J)
        BY <1>1, <1>8 DEF n
    <2> QED BY <1>2, <1>14, <2>1, <2>2, <2>3 DEF SourceFits, J
<1> QED BY <1>2, <1>12, <1>13, <1>14, <1>16, <1>17 DEF a, J

(* A scan finds sources that may be selected, none of them of the session   *)
(* that scans.                                                              *)
LEMMA ScanFits ==
    ASSUME Typed, IsFiniteSet(Begun), \A t \in Sessions : Dated(journal[t], clock),
           NEW s \in Sessions, NEW cutoff \in Nat
    PROVE  /\ Scanned(Scan(s, cutoff))
           /\ \A a \in Scan(s, cutoff) : a.session # s /\ SourceFits(a, cutoff)
<1> DEFINE usable == {u \in Sessions \ {s} : Usable(u, cutoff)}
           N == Newest(usable, MaxSessions)
<1>0. MaxSessions \in Nat
    BY ConfigAssumption
<1>1. \A t \in usable :
        /\ t \in Sessions /\ t # s
        /\ Source(t, cutoff) \in SourceType
        /\ Source(t, cutoff).session = t
        /\ Source(t, cutoff).through > 0 /\ Source(t, cutoff).samples # {}
        /\ IsFiniteSet(Source(t, cutoff).samples)
        /\ \A x \in Source(t, cutoff).samples : x.session = t
        /\ SourceFits(Source(t, cutoff), cutoff)
        /\ journal[t] # <<>>
    BY SourceIs
<1>2. usable \subseteq Begun
    BY <1>1 DEF Begun
<1>3. usable \subseteq Nat
    BY SessionsAssumption
<1>4. Scan(s, cutoff) = {Source(t, cutoff) : t \in N}
    BY DEF Scan
<1> HIDE DEF usable
<1>5. IsFiniteSet(usable)
    BY <1>2, FS_Subset
<1>6. N \subseteq usable /\ IsFiniteSet(N) /\ Cardinality(N) <= MaxSessions
    BY <1>0, <1>3, <1>5, NewestBound
<1> HIDE DEF N
<1> DEFINE f == [t \in N |-> Source(t, cutoff)]
           sources == {f[t] : t \in N}
<1>7. f = [t \in N |-> f[t]] /\ \A t \in N : f[t] = Source(t, cutoff)
    OBVIOUS
<1>8. Scan(s, cutoff) = sources
    BY <1>4
<1> HIDE DEF f
<1>9. IsFiniteSet(sources) /\ Cardinality(sources) \in Nat /\ Cardinality(sources) <= Cardinality(N)
    BY <1>6, <1>7, ImageOf
<1>10. Cardinality(N) \in Nat
    BY <1>6, FS_CardinalityType
<1>11. ASSUME NEW a \in sources
       PROVE  /\ a \in SourceType /\ a.session # s /\ SourceFits(a, cutoff)
              /\ a = Source(a.session, cutoff)
              /\ a.through > 0 /\ a.samples # {} /\ IsFiniteSet(a.samples)
              /\ \A x \in a.samples : x.session = a.session
    <2>1. PICK t \in N : a = Source(t, cutoff)
        BY <1>7
    <2>2. t \in usable
        BY <1>6
    <2> QED BY <1>1, <2>1, <2>2
<1>12. \A a, b \in sources : a.session = b.session => a = b
    BY <1>11
<1> HIDE DEF sources
<1>13. Cardinality(sources) <= MaxSessions
    BY <1>0, <1>6, <1>9, <1>10
<1>14. Scanned(sources)
    BY <1>9, <1>11, <1>12, <1>13 DEF Scanned
<1> QED BY <1>8, <1>11, <1>14

-----------------------------------------------------------------------------
(* Steps *)

(* What a step does to a journal: nothing, one more fact, or damage. *)
Moved(log, more, now) ==
    \/ more = log
    \/ \E f \in Fact :
        /\ f.type # "corrupt" /\ f.time = now
        /\ log = <<>> => f.type = "run"
        /\ f.type = "selected" => f.selection # None
        /\ f.type = "branch" => OfType(log, "evaluated") = {}
        /\ more = Append(log, f)
    \/ \E i \in DOMAIN log : more = [log EXCEPT ![i] = [type |-> "corrupt"]]

(* The facts of a journal stay in the order of their times. *)
LEMMA MovedDated ==
    ASSUME NEW log \in Seq(Fact), NEW more, NEW now \in Nat, NEW later \in Nat, now <= later,
           Dated(log, now), Named(log), Moved(log, more, now)
    PROVE  more \in Seq(Fact) /\ Dated(more, later) /\ Named(more)
<1>1. ASSUME NEW m \in Seq(Fact), Dated(m, now)
      PROVE  Dated(m, later)
    <2>1. \A i \in 1..Len(m) : m[i].type # "corrupt" => m[i].time \in Nat /\ m[i].time <= now
        <3> TAKE i \in 1..Len(m)
        <3>1. m[i] \in Fact
            OBVIOUS
        <3> QED BY <1>1, <3>1, FactTime DEF Dated
    <2>2. \A i \in 1..Len(m) : m[i].type # "corrupt" => m[i].time <= later
        BY <2>1
    <2> QED BY <1>1, <2>2 DEF Dated
<1>2. CASE more = log
    BY <1>1, <1>2
<1>3. ASSUME NEW f \in Fact, f.type # "corrupt", f.time = now,
             log = <<>> => f.type = "run", f.type = "selected" => f.selection # None,
             more = Append(log, f)
      PROVE  more \in Seq(Fact) /\ Dated(more, later) /\ Named(more)
    <2>1. more \in Seq(Fact)
        BY <1>3
    <2>2. Dated(more, now)
        BY <1>3, DatedGrows
    <2>3. /\ more[Len(log) + 1] = f
          /\ \A i \in OfType(log, "selected") : more[i] = log[i]
        BY <1>3 DEF OfType
    <2>4. OfType(more, "selected") \subseteq OfType(log, "selected") \cup
            (IF f.type = "selected" THEN {Len(log) + 1} ELSE {})
        <3>1. OfType(Append(log, f), "selected") =
                IF f.type = "selected" THEN OfType(log, "selected") \cup {Len(log) + 1}
                ELSE OfType(log, "selected")
            BY TypesGrow
        <3> QED BY <1>3, <3>1
    <2>5. Named(more)
        BY <1>3, <2>3, <2>4 DEF Named
    <2> QED BY <1>1, <2>1, <2>2, <2>5
<1>4. ASSUME NEW k \in DOMAIN log, more = [log EXCEPT ![k] = [type |-> "corrupt"]]
      PROVE  more \in Seq(Fact) /\ Dated(more, later) /\ Named(more)
    <2>1. [type |-> "corrupt"] \in Fact
        BY DEF Fact
    <2>2. more \in Seq(Fact) /\ Len(more) = Len(log) /\ DOMAIN more = DOMAIN log
        BY <1>4, <2>1
    <2>3. /\ DOMAIN log = 1..Len(log)
          /\ more[k].type = "corrupt"
          /\ \A i \in 1..Len(log) : i # k => more[i] = log[i]
        BY <1>4
    <2>4. (log # <<>> => log[1].type \in {"run", "corrupt"}) /\ 1 \in 1..Len(log)
        BY <1>4 DEF Dated
    <2>5. Dated(more, now)
        <3>1. \A i \in 1..Len(log) : more[i].type # "corrupt" => more[i] = log[i]
            BY <2>3
        <3>2. more[1].type \in {"run", "corrupt"}
            <4>1. log # <<>>
                BY <1>4
            <4> QED BY <2>3, <2>4, <4>1
        <3> HIDE <1>4
        <3> QED BY <2>2, <3>1, <3>2 DEF Dated
    <2>6. Named(more)
        BY <2>2, <2>3 DEF Named, OfType
    <2> QED BY <1>1, <2>2, <2>5, <2>6
<1> QED BY <1>2, <1>3, <1>4 DEF Moved

(* A journal that is intact holds what it held. *)
LEMMA MovedKeeps ==
    ASSUME NEW log \in Seq(Fact), NEW more, NEW now \in Nat, Moved(log, more, now), Intact(more)
    PROVE  /\ Intact(log) /\ Len(log) <= Len(more)
           /\ \A n \in 0..Len(log) : SubSeq(more, 1, n) = SubSeq(log, 1, n)
           /\ \A i \in 1..Len(log) : more[i] = log[i]
           /\ OfType(log, "evaluated") # {} /\ OfType(log, "branch") = {}
                => OfType(more, "branch") = {}
<1>1. CASE more = log
    BY <1>1
<1>2. ASSUME NEW f \in Fact, f.type = "branch" => OfType(log, "evaluated") = {}, more = Append(log, f)
      PROVE  /\ Intact(log) /\ Len(log) <= Len(more)
             /\ \A n \in 0..Len(log) : SubSeq(more, 1, n) = SubSeq(log, 1, n)
             /\ \A i \in 1..Len(log) : more[i] = log[i]
             /\ OfType(log, "evaluated") # {} /\ OfType(log, "branch") = {}
                    => OfType(more, "branch") = {}
    <2>1. /\ Len(log) <= Len(more)
          /\ \A n \in 0..Len(log) : SubSeq(more, 1, n) = SubSeq(log, 1, n)
          /\ \A i \in 1..Len(log) : more[i] = log[i]
        BY <1>2
    <2>2. OfType(log, "corrupt") \subseteq OfType(more, "corrupt")
        <3>1. OfType(Append(log, f), "corrupt") =
                IF f.type = "corrupt" THEN OfType(log, "corrupt") \cup {Len(log) + 1}
                ELSE OfType(log, "corrupt")
            BY TypesGrow
        <3> QED BY <1>2, <3>1
    <2>3. OfType(Append(log, f), "branch") =
                IF f.type = "branch" THEN OfType(log, "branch") \cup {Len(log) + 1}
                ELSE OfType(log, "branch")
        BY TypesGrow
    <2>4. Intact(log)
        BY <2>2 DEF Intact
    <2> QED BY <1>2, <2>1, <2>3, <2>4
<1>3. ASSUME NEW k \in DOMAIN log, more = [log EXCEPT ![k] = [type |-> "corrupt"]]
      PROVE  FALSE
    <2>1. k \in DOMAIN more /\ more[k].type = "corrupt"
        BY <1>3
    <2> QED BY <2>1 DEF Intact, OfType
<1> QED BY <1>1, <1>2, <1>3 DEF Moved

(* The first fact of a journal is from now, or it was its first fact before. *)
LEMMA MovedFirst ==
    ASSUME NEW log \in Seq(Fact), NEW more, NEW now \in Nat, Moved(log, more, now),
           more # <<>>, more[1].type # "corrupt"
    PROVE  more[1].time = now \/ (log # <<>> /\ log[1] = more[1])
<1>1. CASE more = log
    BY <1>1
<1>2. ASSUME NEW f \in Fact, f.time = now, more = Append(log, f)
      PROVE  more[1].time = now \/ (log # <<>> /\ log[1] = more[1])
    <2>1. CASE log = <<>>
        BY <1>2, <2>1
    <2>2. CASE log # <<>>
        BY <1>2, <2>2
    <2> QED BY <2>1, <2>2
<1>3. ASSUME NEW k \in DOMAIN log, more = [log EXCEPT ![k] = [type |-> "corrupt"]]
      PROVE  log # <<>> /\ log[1] = more[1]
    <2>1. log # <<>> /\ 1 \in DOMAIN log /\ DOMAIN log = 1..Len(log)
        BY <1>3
    <2>2. k # 1
        BY <1>3, <2>1
    <2> QED BY <1>3, <2>1, <2>2
<1> QED BY <1>1, <1>2, <1>3 DEF Moved

-----------------------------------------------------------------------------
(* What a session has learned, as the journals go on *)

Moves(u) == Moved(journal[u], journal'[u], clock)
Later == clock' \in Nat /\ clock <= clock'

(* Selections are made of typed sources that have samples. *)
LEMMA SourcesOf ==
    ASSUME NEW x \in Selected, IsSelection(x), NEW a \in x.sources
    PROVE  /\ a \in SourceType /\ a.session \in Sessions /\ a.through \in Nat
           /\ a.samples # {} /\ a.samples \subseteq Sample /\ x.cutoff \in Nat
<1>1. x.sources \subseteq SourceType /\ x.cutoff \in Nat
    BY DEF Selected
<1>2. IsSource(a)
    BY DEF IsSelection
<1>3. a \in SourceType
    BY <1>1
<1>4. a.session \in Sessions /\ a.through \in Nat /\ a.samples \subseteq Sample
    BY <1>3 DEF SourceType
<1> QED BY <1>1, <1>2, <1>3, <1>4 DEF IsSource

(* A journal that goes on keeps what a selection says it was read for. *)
LEMMA SourceKeeps ==
    ASSUME Typed, NEW a \in SourceType, a.samples # {}, NEW cutoff, Moves(a.session),
           Intact(journal[a.session]) => SourceFits(a, cutoff)
    PROVE  (Intact(journal[a.session]) => SourceFits(a, cutoff))'
<1> DEFINE u == a.session
           J == journal[u]
           M == journal'[u]
<1>1. u \in Sessions /\ a.through \in Nat
    BY DEF SourceType
<1>2. J \in Seq(Fact) /\ clock \in Nat
    BY <1>1 DEF Typed
<1> SUFFICES ASSUME Intact(M)
             PROVE  /\ a.through <= Len(M)
                    /\ Lifecycle(u, SubSeq(M, 1, a.through)).samples = a.samples
                    /\ OfType(M, "branch") = {}
                    /\ \A i \in 1..a.through : M[i].time <= cutoff
    BY DEF SourceFits
<1>3. Moved(J, M, clock)
    BY DEF Moves
<1> HIDE DEF J, M
<1>4. /\ Intact(J) /\ Len(J) <= Len(M)
      /\ \A n \in 0..Len(J) : SubSeq(M, 1, n) = SubSeq(J, 1, n)
      /\ \A i \in 1..Len(J) : M[i] = J[i]
      /\ OfType(J, "evaluated") # {} /\ OfType(J, "branch") = {} => OfType(M, "branch") = {}
    BY <1>2, <1>3, MovedKeeps
<1>5. /\ a.through <= Len(J)
      /\ Lifecycle(u, SubSeq(J, 1, a.through)).samples = a.samples
      /\ OfType(J, "branch") = {}
      /\ \A i \in 1..a.through : J[i].time <= cutoff
    BY <1>4 DEF SourceFits, J
<1> DEFINE n == a.through
<1>6. n \in 0..Len(J) /\ Len(J) \in Nat
    BY <1>1, <1>2, <1>5
<1>7. Sampled(u, SubSeq(J, 1, n))
    <2>1. SubSeq(J, 1, n) \in Seq(Fact)
        BY <1>2, <1>6
    <2> QED BY <1>1, <2>1, LifeSamples
<1>8. OfType(J, "evaluated") # {}
    <2>1. PICK y : y \in Lifecycle(u, SubSeq(J, 1, n)).samples
        BY <1>5
    <2>2. PICK k \in 1..Len(SubSeq(J, 1, n)) : SubSeq(J, 1, n)[k].type = "evaluated"
        BY <1>7, <2>1 DEF Sampled
    <2>3. k \in 1..n /\ SubSeq(J, 1, n)[k] = J[k]
        BY <1>2, <1>6
    <2>4. k \in DOMAIN J
        BY <1>2, <1>6, <2>3
    <2> QED BY <2>2, <2>3, <2>4 DEF OfType
<1>9. n <= Len(M)
    <2>1. PICK m \in Nat : Len(M) = m
        <3>1. M \in Seq(Fact)
            BY <1>2, <1>3 DEF Moved, Fact
        <3> QED BY <3>1
    <2> QED BY <1>4, <1>6, <2>1
<1>10. \A i \in 1..n : M[i].time <= cutoff
    <2> TAKE i \in 1..n
    <2>1. i \in 1..Len(J)
        BY <1>6
    <2> QED BY <1>4, <1>5, <2>1
<1> QED BY <1>4, <1>5, <1>6, <1>8, <1>9, <1>10

(* So what a session has learned stays true of the journals. *)
LEMMA LearnedKeeps ==
    ASSUME Typed, \A u \in Sessions : Moves(u), Later, NEW s \in Sessions, NEW x \in Selected,
           Learned(s, x)
    PROVE  Learned(s, x)'
<1>1. IsSelection(x) /\ Keyed(x.profile) /\ x.cutoff \in Nat
    BY DEF Learned, Selected
<1>2. x.cutoff <= clock /\ clock \in Nat
    BY DEF Learned, Typed
<1>3. x.cutoff <= clock'
    BY <1>1, <1>2 DEF Later
<1>4. ASSUME NEW a \in x.sources
      PROVE  a.session # s /\ (Intact(journal[a.session]) => SourceFits(a, x.cutoff))'
    <2>1. a \in SourceType /\ a.session \in Sessions /\ a.samples # {}
        BY <1>1, SourcesOf
    <2>2. a.session # s /\ (Intact(journal[a.session]) => SourceFits(a, x.cutoff))
        BY DEF Learned
    <2>3. Moves(a.session)
        BY <2>1
    <2> HIDE DEF Moves
    <2>4. (Intact(journal[a.session]) => SourceFits(a, x.cutoff))'
        BY <2>1, <2>2, <2>3, SourceKeeps
    <2> QED BY <2>2, <2>4
<1>5. ASSUME journal'[s] # <<>>, journal'[s][1].type # "corrupt"
      PROVE  x.cutoff <= journal'[s][1].time
    <2>1. journal[s] \in Seq(Fact)
        BY DEF Typed
    <2>2. Moved(journal[s], journal'[s], clock)
        BY DEF Moves
    <2>3. journal'[s][1].time = clock \/ (journal[s] # <<>> /\ journal[s][1] = journal'[s][1])
        BY <1>2, <1>5, <2>1, <2>2, MovedFirst
    <2>4. journal[s] # <<>> /\ journal[s][1].type # "corrupt" => x.cutoff <= journal[s][1].time
        BY DEF Learned
    <2> QED BY <1>2, <1>5, <2>3, <2>4
<1> QED BY <1>1, <1>3, <1>4, <1>5 DEF Learned

(* A journal does not get shorter. *)
LEMMA MovedLength ==
    ASSUME NEW log \in Seq(Fact), NEW more, NEW now, Moved(log, more, now)
    PROVE  more \in Seq(Fact) /\ Len(log) <= Len(more)
<1>1. ASSUME NEW f \in Fact, more = Append(log, f)
      PROVE  more \in Seq(Fact) /\ Len(log) <= Len(more)
    BY <1>1
<1>2. ASSUME NEW k \in DOMAIN log, more = [log EXCEPT ![k] = [type |-> "corrupt"]]
      PROVE  more \in Seq(Fact) /\ Len(log) <= Len(more)
    <2>1. [type |-> "corrupt"] \in Fact
        BY DEF Fact
    <2> QED BY <1>2, <2>1
<1> QED BY <1>1, <1>2 DEF Moved

(* A step of one session leaves another sound. *)
LEMMA OthersKeep ==
    ASSUME CalibrationInv, \A u \in Sessions : Moves(u), Later, NEW t \in Sessions,
           journal'[t] = journal[t], phase'[t] = phase[t], boot'[t] = boot[t], live'[t] = live[t]
    PROVE  Sound(t)'
<1>1. Typed /\ Sound(t)
    BY DEF CalibrationInv
<1>2. journal[t] \in Seq(Fact) /\ boot[t] \in BootType /\ clock \in Nat
    BY <1>1 DEF Typed
<1>3. (Dated(journal[t], clock))' /\ Named(journal[t])'
    <2>1. Dated(journal'[t], clock') /\ Named(journal'[t])
        BY <1>1, <1>2, MovedDated DEF Moves, Later, Sound
    <2> QED BY <2>1
<1>4. Ordinary(t)' = Ordinary(t)
    BY DEF Ordinary
<1>5. (Ordinary(t) => Faithful(t, journal[t]))'
    BY <1>1, <1>4 DEF Sound
<1>6. BootFits(t)'
    <2>1. BootFits(t)
        BY <1>1 DEF Sound
    <2>2. Own(t)' = Own(t)
        BY DEF Own
    <2>3. boot[t].from \in Sessions /\ boot[t].length <= Len(journal[boot[t].from])
                => boot[t].length <= Len(journal'[boot[t].from])
        <3> SUFFICES ASSUME boot[t].from \in Sessions, boot[t].length <= Len(journal[boot[t].from])
                     PROVE  boot[t].length <= Len(journal'[boot[t].from])
            OBVIOUS
        <3> DEFINE J == journal[boot[t].from]
                   M == journal'[boot[t].from]
                   n == boot[t].length
        <3>1. J \in Seq(Fact) /\ Moved(J, M, clock)
            BY <1>1 DEF Typed, Moves
        <3>2. n \in Nat
            BY <1>2 DEF BootType
        <3>4. n <= Len(J)
            OBVIOUS
        <3> HIDE DEF J, M, n
        <3>5. M \in Seq(Fact) /\ Len(J) <= Len(M)
            BY <3>1, MovedLength
        <3>6. n <= Len(M)
            BY <3>1, <3>2, <3>4, <3>5
        <3> QED BY <3>6 DEF M, n
    <2> QED BY <1>4, <2>1, <2>2, <2>3 DEF BootFits
<1>7. LiveFits(t)'
    BY <1>1, <1>4 DEF Sound, LiveFits
<1>8. ASSUME NEW x \in Selections(t)', x # None
      PROVE  Learned(t, x)'
    <2>1. x \in Selections(t)
        BY DEF Selections
    <2>2. Learned(t, x)
        BY <1>1, <1>8, <2>1 DEF Sound
    <2>3. x \in Selected
        <3>1. boot[t].selection \in Selected \cup {None}
            BY <1>2 DEF BootType
        <3>2. \A i \in OfType(journal[t], "selected") : journal[t][i].selection \in Selected \cup {None}
            <4> TAKE i \in OfType(journal[t], "selected")
            <4>1. journal[t][i] \in Fact /\ journal[t][i].type = "selected"
                BY <1>2 DEF OfType
            <4> QED BY <4>1 DEF Fact
        <3> QED BY <1>8, <2>1, <3>1, <3>2 DEF Selections
    <2> QED BY <1>1, <2>2, <2>3, LearnedKeeps
<1> QED BY <1>3, <1>5, <1>6, <1>7, <1>8 DEF Sound

Only(s) ==
    \A t \in Sessions \ {s} :
        /\ journal'[t] = journal[t] /\ phase'[t] = phase[t]
        /\ boot'[t] = boot[t] /\ live'[t] = live[t]

(* What a session holds or has pinned is None or a selection. *)
LEMMA SelectionsType ==
    ASSUME Typed, NEW s \in Sessions
    PROVE  /\ Selections(s) \subseteq Selected \cup {None}
           /\ boot[s].selection \in Selections(s)
           /\ \A i \in OfType(journal[s], "selected") : journal[s][i].selection \in Selections(s)
<1>1. journal[s] \in Seq(Fact) /\ boot[s].selection \in Selected \cup {None}
    BY DEF Typed, BootType
<1>2. \A i \in OfType(journal[s], "selected") : journal[s][i].selection \in Selected \cup {None}
    <2> TAKE i \in OfType(journal[s], "selected")
    <2>1. journal[s][i] \in Fact /\ journal[s][i].type = "selected"
        BY <1>1 DEF OfType
    <2> QED BY <2>1 DEF Fact
<1> QED BY <1>1, <1>2 DEF Selections

(* A step of one session is sound when that session is. *)
LEMMA StepKeeps ==
    ASSUME CalibrationInv, NEW s \in Sessions, Later, Moves(s), Only(s), Typed',
           (Ordinary(s) => Faithful(s, journal[s]))', BootFits(s)', LiveFits(s)',
           \A x \in Selections(s)' : x # None =>
                x \in Selections(s) \/ (x \in Selected /\ Learned(s, x))
    PROVE  CalibrationInv'
<1>1. Typed /\ Sound(s) /\ IsFiniteSet(Begun)
    BY DEF CalibrationInv
<1>2. \A u \in Sessions : Moves(u)
    BY DEF Only, Moves, Moved
<1>3. \A t \in Sessions \ {s} : Sound(t)'
    <2> TAKE t \in Sessions \ {s}
    <2>1. /\ journal'[t] = journal[t] /\ phase'[t] = phase[t]
          /\ boot'[t] = boot[t] /\ live'[t] = live[t]
        BY DEF Only
    <2> QED BY <1>2, <2>1, OthersKeep
<1>4. Sound(s)'
    <2>1. (Dated(journal[s], clock))' /\ Named(journal[s])'
        <3>1. journal[s] \in Seq(Fact) /\ clock \in Nat
            BY <1>1 DEF Typed
        <3>2. Dated(journal'[s], clock') /\ Named(journal'[s])
            BY <1>1, <3>1, MovedDated DEF Moves, Later, Sound
        <3> QED BY <3>2
    <2>2. ASSUME NEW x \in Selections(s)', x # None
          PROVE  Learned(s, x)'
        <3>1. x \in Selected /\ Learned(s, x)
            <4>1. CASE x \in Selections(s)
                BY <1>1, <2>2, <4>1, SelectionsType DEF Sound
            <4> QED BY <2>2, <4>1
        <3> QED BY <1>1, <1>2, <3>1, LearnedKeeps
    <2> QED BY <2>1, <2>2 DEF Sound
<1>5. IsFiniteSet(Begun)'
    <2>1. Begun' \subseteq Begun \cup {s}
        BY DEF Begun, Only
    <2>2. IsFiniteSet(Begun \cup {s})
        BY <1>1, FS_AddElement
    <2>3. IsFiniteSet(Begun')
        BY <2>1, <2>2, FS_Subset
    <2> QED BY <2>3
<1> QED BY <1>3, <1>4, <1>5 DEF CalibrationInv

(* One more fact in a journal *)
LEMMA AppendIs ==
    ASSUME Typed, NEW s \in Sessions, NEW f \in Fact, AppendTo(s, f)
    PROVE  /\ journal' \in [Sessions -> Seq(Fact)]
           /\ journal'[s] = Append(journal[s], f)
           /\ \A t \in Sessions \ {s} : journal'[t] = journal[t]
    BY DEF Typed, AppendTo

(* A replay from the last snapshot gives a state too. *)
LEMMA ReplayType ==
    ASSUME NEW log \in Seq(Fact)
    PROVE  Replay(log) \in Played
<1> DEFINE at == OfType(log, "snapshot")
<1>1. CASE at = {}
    <2>1. Replay(log) = ReplayFrom(Empty, log)
        BY <1>1 DEF Replay
    <2> QED BY <2>1, EmptyType, PlaySteps
<1>2. CASE at # {}
    <2> DEFINE k == Max(at)
               from == log[k].lastSeq
               tail == SubSeq(log, from + 1, Len(log))
    <2>1. at \subseteq 0..Len(log) /\ Len(log) \in Nat
        BY DEF OfType
    <2>2. k \in at
        <3> HIDE DEF at
        <3> QED BY <1>2, <2>1, GreatestOf
    <2>3. log[k] \in Fact /\ log[k].type = "snapshot"
        BY <2>2 DEF OfType
    <2>4. log[k].state \in State /\ from \in Nat
        BY <2>3 DEF Fact
    <2>5. tail \in Seq(Fact)
        <3> HIDE DEF from
        <3> QED BY <2>4
    <2>6. Replay(log) = ReplayFrom(log[k].state, tail)
        BY <1>2 DEF Replay
    <2> HIDE DEF k, tail
    <2> QED BY <2>4, <2>5, <2>6, PlaySteps
<1> QED BY <1>1, <1>2

(* The replay of nothing *)
LEMMA NothingPlayed ==
    /\ At(<<>>, 0) = Empty
    /\ Replay(<<>>) = Fresh(Empty)
    /\ \A s : Faithful(s, <<>>)
<1>1. <<>> \in Seq(Fact) /\ Len(<<>>) = 0
    OBVIOUS
<1>2. Run(<<>>, 0) = Fresh(Empty)
    BY <1>1, RunSteps
<1>3. \A s : Faithful(s, <<>>)
    <2> TAKE s
    <2>1. \A i \in 0..Len(<<>>) : Run(<<>>, i).ok
        BY <1>1, <1>2 DEF Fresh
    <2>2. 1..Len(<<>>) = {}
        BY <1>1
    <2> QED BY <2>1, <2>2 DEF Faithful
<1>4. Replay(<<>>) = ReplayFrom(Empty, <<>>)
    <2>1. OfType(<<>>, "snapshot") = {}
        BY <1>1 DEF OfType
    <2> QED BY <2>1 DEF Replay
<1>5. ReplayFrom(Empty, <<>>) = Fresh(Empty)
    BY <1>1, EmptyType, PlaySteps
<1>6. At(<<>>, 0) = Empty
    <2>1. Fresh(Empty).state = Empty
        BY DEF Fresh
    <2> QED BY <1>2, <2>1 DEF At
<1> QED BY <1>3, <1>4, <1>5, <1>6

-----------------------------------------------------------------------------
(* The actions *)

(* What a boot that finds no selection makes of the other journals is       *)
(* something this session may learn.                                        *)
LEMMA ChosenFits ==
    ASSUME CalibrationInv, NEW s \in Sessions, NEW from \in Sessions, NEW readable \in BOOLEAN,
           NEW loaded, loaded = Load(journal[from]),
           NEW origin \in {"history_scan", "legacy_backfill"},
           NEW sources, sources = IF readable THEN Scan(s, Cutoff(loaded)) ELSE {},
           from = s => Intact(journal[s]), from # s => journal[s] = <<>>
    PROVE  /\ Selection(origin, Cutoff(loaded), sources, readable) \in Selected
           /\ Learned(s, Selection(origin, Cutoff(loaded), sources, readable))
<1> DEFINE J == journal[from]
           cutoff == Cutoff(loaded)
           x == Selection(origin, cutoff, sources, readable)
<1>1. Typed /\ IsFiniteSet(Begun) /\ \A t \in Sessions : Dated(journal[t], clock)
    BY DEF CalibrationInv, Sound
<1>2. J \in Seq(Fact) /\ clock \in Nat
    BY <1>1 DEF Typed
<1>3. /\ loaded \in Seq(Fact) /\ Len(loaded) <= Len(J)
      /\ \A i \in 1..Len(loaded) : loaded[i] = J[i] /\ J[i].type # "corrupt"
      /\ Intact(J) => loaded = J
    BY <1>2, LoadIs
<1>4. cutoff \in Nat /\ cutoff <= clock
    <2>1. CASE loaded = <<>>
        BY <1>2, <2>1 DEF Cutoff
    <2>2. CASE loaded # <<>>
        <3> DEFINE n == Len(loaded)
                   m == Len(J)
        <3>1. n \in Nat /\ m \in Nat /\ n <= m
            BY <1>2, <1>3
        <3>2. n # 0
            BY <1>3, <2>2
        <3>3. loaded[1] = J[1] /\ J[1].type # "corrupt"
            <4> HIDE DEF J
            <4> QED BY <1>3, <3>1, <3>2
        <3> HIDE DEF n, m
        <3>4. 1 \in 1..m
            BY <3>1, <3>2
        <3>5. J[1].time <= clock
            <4>1. Dated(J, clock)
                BY <1>1
            <4> QED BY <3>3, <3>4, <4>1 DEF Dated, m
        <3>6. J[1].time \in Nat
            <4>1. J[1] \in Fact
                BY <1>2, <3>4 DEF m
            <4> QED BY <3>3, <4>1, FactTime
        <3>7. cutoff = J[1].time
            BY <2>2, <3>3 DEF Cutoff
        <3> QED BY <3>5, <3>6, <3>7
    <2> QED BY <2>1, <2>2
<1>5. Scanned(Scan(s, cutoff)) /\ \A a \in Scan(s, cutoff) : a.session # s /\ SourceFits(a, cutoff)
    <2> HIDE DEF cutoff
    <2> QED BY <1>1, <1>4, ScanFits
<1>6. Scanned(sources) /\ (~ readable => sources = {})
      /\ \A a \in sources : a.session # s /\ SourceFits(a, cutoff)
    <2>1. CASE readable
        BY <1>5, <2>1
    <2>2. CASE ~ readable
        <3>1. Scanned({})
            BY FS_EmptySet, ConfigAssumption DEF Scanned
        <3> QED BY <2>2, <3>1
    <2> QED BY <2>1, <2>2
<1>7. x \in Selected /\ IsSelection(x) /\ Keyed(x.profile) /\ x.sources = sources /\ x.cutoff = cutoff
    <2> HIDE DEF cutoff
    <2> QED BY <1>4, <1>6, SelectionBuilt
<1>8. journal[s] # <<>> /\ journal[s][1].type # "corrupt" => cutoff <= journal[s][1].time
    <2> SUFFICES ASSUME journal[s] # <<>>, journal[s][1].type # "corrupt"
                 PROVE  cutoff <= journal[s][1].time
        OBVIOUS
    <2>1. from = s /\ loaded = journal[s]
        BY <1>3
    <2>2. cutoff = journal[s][1].time
        BY <2>1 DEF Cutoff
    <2> QED BY <1>4, <2>2
<1> HIDE DEF x, cutoff
<1>9. Learned(s, x)
    BY <1>4, <1>6, <1>7, <1>8 DEF Learned
<1> QED BY <1>7, <1>9 DEF x, cutoff

(* A boot keeps every session sound. *)
LEMMA StartKeeps ==
    ASSUME CalibrationInv, NEW s \in Sessions, NEW from \in Sessions, NEW enabled \in BOOLEAN,
           NEW readable \in BOOLEAN, Start(s, from, enabled, readable),
           from = s => Intact(journal[s]), from # s => journal[s] = <<>>
    PROVE  CalibrationInv'
<1> DEFINE J == journal[from]
           loaded == Load(J)
           cutoff == Cutoff(loaded)
           persisted == Persisted(loaded, from # s)
           sources == IF readable THEN Scan(s, cutoff) ELSE {}
           origin == IF loaded = <<>> THEN "history_scan" ELSE "legacy_backfill"
           x == Selection(origin, cutoff, sources, readable)
           chosen == IF persisted # None THEN persisted ELSE IF enabled THEN x ELSE None
           b == [selection |-> chosen, pinned |-> Pinned(loaded, persisted),
                 enabled |-> enabled, from |-> from, length |-> Len(loaded)]
<1>1. /\ phase' = [phase EXCEPT ![s] = "booting"]
      /\ boot' = [boot EXCEPT ![s] = b]
      /\ journal' = journal /\ live' = live /\ clock' = clock
    BY DEF Start
<1>2. Typed /\ Sound(s)
    BY DEF CalibrationInv
<1>3. J \in Seq(Fact) /\ clock \in Nat /\ journal[s] \in Seq(Fact)
    BY <1>2 DEF Typed
<1>4. loaded \in Seq(Fact) /\ Len(loaded) <= Len(J) /\ (Intact(J) => loaded = J)
    BY <1>3, LoadIs
<1>5. x \in Selected /\ Learned(s, x)
    <2>1. origin \in {"history_scan", "legacy_backfill"}
        OBVIOUS
    <2> HIDE DEF loaded, origin
    <2>2. sources = IF readable THEN Scan(s, Cutoff(loaded)) ELSE {}
        OBVIOUS
    <2>3. loaded = Load(journal[from])
        BY DEF loaded
    <2> HIDE DEF sources
    <2> QED BY <2>1, <2>2, <2>3, ChosenFits
<1>6. /\ from = s => loaded = journal[s] /\ persisted = SelectionOf(journal[s])
      /\ from # s => persisted = None
    BY <1>4 DEF Persisted
<1> HIDE DEF x, loaded, persisted
<1>7. persisted # None => persisted \in Selections(s)
    <2> SUFFICES ASSUME persisted # None
                 PROVE  persisted \in Selections(s)
        OBVIOUS
    <2>1. from = s /\ persisted = SelectionOf(Load(journal[s]))
        BY <1>6 DEF loaded
    <2>2. \E i \in OfType(journal[s], "selected") : persisted = journal[s][i].selection
        BY <1>3, <2>1, LoadedSelection
    <2> QED BY <1>2, <2>2, SelectionsType
<1>8. /\ chosen # None => (chosen \in Selections(s) \/ (chosen \in Selected /\ Learned(s, chosen)))
      /\ chosen \in Selected \cup {None}
    <2>1. Selections(s) \subseteq Selected \cup {None}
        BY <1>2, SelectionsType
    <2> QED BY <1>5, <1>7, <2>1
<1>9. b \in BootType
    <2>1. Pinned(loaded, persisted) \in BOOLEAN
        BY DEF Pinned
    <2>2. Len(loaded) \in Nat
        BY <1>4
    <2> HIDE DEF chosen
    <2> QED BY <1>8, <2>1, <2>2 DEF BootType
<1>10. /\ boot'[s] = b /\ phase'[s] = "booting"
       /\ journal'[s] = journal[s]
       /\ Only(s) /\ Moves(s) /\ Later
    BY <1>1, <1>2, <1>3 DEF Typed, Only, Moves, Moved, Later
<1>11. Typed'
    <2> HIDE DEF b
    <2>1. boot' \in [Sessions -> BootType]
        BY <1>1, <1>2, <1>9 DEF Typed
    <2>2. phase' \in [Sessions -> Phases]
        BY <1>1, <1>2 DEF Typed, Phases
    <2> QED BY <1>1, <1>2, <2>1, <2>2 DEF Typed
<1>12. (Ordinary(s) => Faithful(s, journal[s]))'
    BY <1>2, <1>10 DEF Sound, Ordinary
<1>13. /\ b.selection = chosen /\ b.pinned = (persisted # None) /\ b.from = from
       /\ b.length = Len(loaded)
    BY DEF Pinned
<1> HIDE DEF b
<1>14. BootFits(s)'
    <2>1. Own(s)' = IF from = s THEN Len(loaded) ELSE 0
        BY <1>10, <1>13 DEF Own
    <2>2. from = s => Own(s)' = Len(journal[s])
        BY <1>6, <2>1
    <2>3. Own(s)' <= Len(journal'[s])
        <3>1. Len(journal[s]) \in Nat
            BY <1>3
        <3> QED BY <1>10, <2>1, <2>2, <3>1
    <2>4. At(journal'[s], Len(journal'[s])) = At(journal'[s], Own(s)')
        <3>1. CASE from = s
            BY <1>10, <2>2, <3>1
        <3>2. CASE from # s
            <4>1. journal[s] = <<>> /\ Len(<<>>) = 0
                BY <3>2
            <4> QED BY <1>10, <2>1, <3>2, <4>1
        <3> QED BY <3>1, <3>2
    <2>5. b.pinned => b.selection # None
        BY <1>13
    <2>6. from # s => OfType(journal'[s], "evaluated") = {}
        BY <1>10 DEF OfType
    <2>7. b.from \in Sessions /\ b.length <= Len(journal'[b.from])
        BY <1>1, <1>4, <1>13
    <2>8. ASSUME Ordinary(s)'
          PROVE  IF b.pinned THEN b.selection = At(journal'[s], Own(s)').selection
                 ELSE At(journal'[s], Own(s)').selection = None
        <3>1. Ordinary(s)
            BY <1>10, <2>8 DEF Ordinary
        <3>2. CASE from = s
            <4>1. Faithful(s, journal[s]) /\ Named(journal[s])
                BY <1>2, <3>1 DEF Sound
            <4>2. SelectionOf(journal[s]) = At(journal[s], Len(journal[s])).selection
                BY <1>3, <4>1, SelectionIs
            <4> QED BY <1>6, <1>10, <1>13, <2>2, <3>2, <4>2
        <3>3. CASE from # s
            <4>1. journal'[s] = <<>> /\ Own(s)' = 0
                BY <1>10, <2>1, <3>3
            <4>2. At(journal'[s], Own(s)') = Empty
                BY <4>1, NothingPlayed
            <4>3. ~ b.pinned
                BY <1>6, <1>13, <3>3
            <4>4. Empty.selection = None
                BY DEF Empty
            <4> QED BY <4>2, <4>3, <4>4
        <3> QED BY <3>2, <3>3
    <2> QED BY <1>10, <1>13, <2>3, <2>4, <2>5, <2>6, <2>7, <2>8 DEF BootFits, Opening
<1>15. LiveFits(s)'
    BY <1>10 DEF LiveFits
<1>16. \A y \in Selections(s)' : y # None => y \in Selections(s) \/ (y \in Selected /\ Learned(s, y))
    <2>1. \A y \in Selections(s)' : y = chosen \/ y \in Selections(s)
        BY <1>10, <1>13 DEF Selections
    <2> QED BY <1>8, <2>1
<1> QED BY <1>10, <1>11, <1>12, <1>14, <1>15, <1>16, StepKeeps

(* The boot of a session *)
LEMMA BootKeeps ==
    ASSUME CalibrationInv, NEW s \in Sessions, NEW enabled \in BOOLEAN, NEW readable \in BOOLEAN,
           Boot(s, enabled, readable)
    PROVE  CalibrationInv'
<1>1. Intact(journal[s]) /\ Start(s, s, enabled, readable)
    BY DEF Boot, Diagnosed
<1> QED BY <1>1, StartKeeps

(* The fork of a session that does not pass *)
LEMMA ForkKeeps ==
    ASSUME CalibrationInv, NEW s \in Sessions, NEW from \in Sessions, NEW enabled \in BOOLEAN,
           Fork(s, from, enabled)
    PROVE  CalibrationInv'
<1>1. phase[s] = "new" /\ phase[from] = "down" /\ Start(s, from, enabled, TRUE)
    BY DEF Fork, NextId
<1>2. from # s /\ journal[s] = <<>>
    <2>1. BootFits(s)
        BY DEF CalibrationInv, Sound
    <2> QED BY <1>1, <2>1 DEF BootFits
<1> QED BY <1>1, <1>2, StartKeeps

(* A journal that is ordinary was so before its last fact. *)
LEMMA OrdinaryGrows ==
    ASSUME Typed, NEW s \in Sessions, NEW f \in Fact, journal'[s] = Append(journal[s], f),
           Ordinary(s)'
    PROVE  Ordinary(s) /\ f.type \notin {"corrupt", "branch"}
<1>1. journal[s] \in Seq(Fact)
    BY DEF Typed
<1>2. OfType(journal'[s], "corrupt") = {} /\ OfType(journal'[s], "branch") = {}
    BY DEF Ordinary, Intact
<1>3. \A type : OfType(Append(journal[s], f), type) =
        IF f.type = type THEN OfType(journal[s], type) \cup {Len(journal[s]) + 1}
        ELSE OfType(journal[s], type)
    BY <1>1, TypesGrow
<1>4. OfType(journal[s], "corrupt") = {} /\ OfType(journal[s], "branch") = {}
    BY <1>2, <1>3
<1>5. f.type \notin {"corrupt", "branch"}
    BY <1>2, <1>3
<1> QED BY <1>4, <1>5 DEF Ordinary, Intact

(* A selection that is held when a fact is added is held before or added. *)
LEMMA SelectionsGrow ==
    ASSUME Typed, NEW s \in Sessions, NEW f \in Fact, journal'[s] = Append(journal[s], f),
           boot'[s] = boot[s], f.type = "selected" => f.selection \in Selections(s)
    PROVE  \A x \in Selections(s)' : x \in Selections(s)
<1>1. journal[s] \in Seq(Fact)
    BY DEF Typed
<1> DEFINE J == journal[s]
           M == journal'[s]
<1>2. OfType(Append(J, f), "selected") =
        IF f.type = "selected" THEN OfType(J, "selected") \cup {Len(J) + 1}
        ELSE OfType(J, "selected")
    BY <1>1, TypesGrow
<1>3. M[Len(J) + 1] = f /\ \A i \in OfType(J, "selected") : M[i] = J[i]
    BY <1>1 DEF OfType
<1>4. ASSUME NEW i \in OfType(M, "selected")
      PROVE  M[i].selection \in Selections(s)
    <2>1. CASE i \in OfType(J, "selected")
        BY <1>3, <2>1, SelectionsType
    <2>2. CASE i = Len(J) + 1 /\ f.type = "selected"
        BY <1>3, <2>2
    <2> QED BY <1>2, <1>4, <2>1, <2>2
<1>5. boot'[s].selection \in Selections(s)
    BY SelectionsType
<1> QED BY <1>4, <1>5 DEF Selections

(* A run that starts *)
LEMMA StartRunKeeps ==
    ASSUME CalibrationInv, NEW s \in Sessions, StartRun(s)
    PROVE  CalibrationInv'
<1> DEFINE f == [type |-> "run", time |-> clock]
           J == journal[s]
           M == journal'[s]
           n == Len(J)
<1>1. Typed /\ Sound(s) /\ BootFits(s)
    BY DEF CalibrationInv, Sound
<1>2. /\ phase[s] = "booting" /\ phase' = [phase EXCEPT ![s] = "started"]
      /\ boot' = boot /\ live' = live /\ clock' = clock /\ AppendTo(s, f)
    BY DEF StartRun
<1>3. f \in Fact /\ f.type = "run" /\ f.time = clock
    BY <1>1 DEF Typed, Fact
<1>4. J \in Seq(Fact) /\ n \in Nat /\ clock \in Nat
    BY <1>1 DEF Typed
<1> HIDE DEF f
<1>5. /\ journal' \in [Sessions -> Seq(Fact)] /\ M = Append(J, f)
      /\ \A t \in Sessions \ {s} : journal'[t] = journal[t]
    BY <1>1, <1>2, <1>3, AppendIs
<1>6. Typed'
    BY <1>1, <1>2, <1>5 DEF Typed, Phases
<1>7. /\ phase'[s] = "started" /\ boot'[s] = boot[s]
      /\ Only(s) /\ Later
    BY <1>1, <1>2, <1>5 DEF Typed, Only, Later
<1>8. Moves(s)
    BY <1>3, <1>5 DEF Moves, Moved
<1>9. Len(M) = n + 1 /\ M # <<>>
    BY <1>4, <1>5
<1>10. ASSUME Ordinary(s)'
       PROVE  /\ Ordinary(s) /\ Faithful(s, M)
              /\ At(M, n + 1) = At(J, n)
              /\ \A i \in 0..n : At(M, i) = At(J, i)
    <2>1. Ordinary(s)
        BY <1>1, <1>3, <1>5, <1>10, OrdinaryGrows
    <2>2. Faithful(s, J)
        BY <1>1, <2>1 DEF Sound
    <2>3. Accepts(At(J, n), f) /\ Reduce(At(J, n), f) = At(J, n)
        BY <1>3 DEF Accepts, Reduce
    <2> HIDE DEF J
    <2>4. /\ Faithful(s, Append(J, f))
          /\ At(Append(J, f), Len(J) + 1) = Reduce(At(J, Len(J)), f)
          /\ \A i \in 0..Len(J) : At(Append(J, f), i) = At(J, i)
        BY <1>3, <1>4, <2>2, <2>3, FaithfulGrows
    <2> QED BY <1>5, <2>1, <2>3, <2>4
<1>11. BootFits(s)'
    <2>1. Own(s)' = Own(s)
        BY <1>7 DEF Own
    <2>2. /\ boot[s].pinned => boot[s].selection # None
          /\ boot[s].from \in Sessions /\ boot[s].length <= Len(journal[boot[s].from])
          /\ boot[s].from # s => OfType(J, "evaluated") = {}
          /\ Own(s) <= n
          /\ Ordinary(s) =>
                /\ IF boot[s].pinned THEN boot[s].selection = At(J, Own(s)).selection
                   ELSE At(J, Own(s)).selection = None
                /\ At(J, n) = At(J, Own(s))
        BY <1>1, <1>2 DEF BootFits, Opening
    <2>3. Own(s) \in Nat
        BY <1>1 DEF Own, Typed, BootType
    <2>4. boot[s].from # s => OfType(M, "evaluated") = {}
        BY <1>3, <1>4, <1>5, <2>2, TypesGrow
    <2>5. boot[s].length <= Len(journal'[boot[s].from])
        <3>1. CASE boot[s].from = s
            <4>1. boot[s].length \in Nat
                BY <1>1 DEF Typed, BootType
            <4> QED BY <1>4, <1>9, <2>2, <3>1, <4>1
        <3>2. CASE boot[s].from # s
            BY <1>5, <2>2, <3>2
        <3> QED BY <3>1, <3>2
    <2>6. Own(s) <= Len(M)
        BY <1>4, <1>9, <2>2, <2>3
    <2>7. Ordinary(s)' =>
            /\ IF boot[s].pinned THEN boot[s].selection = At(M, Own(s)).selection
               ELSE At(M, Own(s)).selection = None
            /\ At(M, Len(M)) = At(M, Own(s))
        <3>1. Own(s) \in 0..n
            BY <1>4, <2>2, <2>3
        <3> QED BY <1>9, <1>10, <2>2, <3>1
    <2> QED BY <1>7, <1>9, <2>1, <2>2, <2>4, <2>5, <2>6, <2>7 DEF BootFits, Opening
<1>12. LiveFits(s)'
    BY <1>7 DEF LiveFits
<1>13. \A x \in Selections(s)' : x \in Selections(s)
    BY <1>1, <1>3, <1>5, <1>7, SelectionsGrow
<1>14. (Ordinary(s) => Faithful(s, journal[s]))'
    BY <1>10
<1> QED BY <1>6, <1>7, <1>8, <1>11, <1>12, <1>13, <1>14, StepKeeps

(* A state with the selection it has is that state. *)
LEMMA SameSelection ==
    ASSUME NEW a \in State
    PROVE  [a EXCEPT !.selection = a.selection] = a
    BY DEF State

(* The selection of a boot is pinned, or was before. *)
LEMMA PinSelectionKeeps ==
    ASSUME CalibrationInv, NEW s \in Sessions, PinSelection(s)
    PROVE  CalibrationInv'
<1> DEFINE chosen == boot[s].selection
           f == [type |-> "selected", time |-> clock, selection |-> chosen]
           J == journal[s]
           M == journal'[s]
           n == Len(J)
           held == At(J, Own(s))
<1>1. Typed /\ Sound(s) /\ BootFits(s)
    BY DEF CalibrationInv, Sound
<1>2. /\ phase[s] = "started" /\ phase' = [phase EXCEPT ![s] = "opening"]
      /\ boot' = boot /\ live' = live /\ clock' = clock
    BY DEF PinSelection
<1>3. J \in Seq(Fact) /\ n \in Nat /\ clock \in Nat /\ boot[s] \in BootType /\ Own(s) \in Nat
    BY <1>1 DEF Typed, Own, BootType
<1>4. /\ boot[s].pinned => chosen # None
      /\ boot[s].from \in Sessions /\ boot[s].length <= Len(journal[boot[s].from])
      /\ boot[s].from # s => OfType(J, "evaluated") = {}
      /\ Own(s) <= n /\ J # <<>>
      /\ Ordinary(s) =>
            /\ IF boot[s].pinned THEN chosen = held.selection ELSE held.selection = None
            /\ At(J, n) = held
    BY <1>1, <1>2 DEF BootFits, Opening
<1>5. Own(s) \in 0..n /\ held \in State
    <2>1. Own(s) \in 0..n
        BY <1>3, <1>4
    <2> HIDE DEF J
    <2> QED BY <1>3, <2>1, RunSteps
<1>6. CASE chosen # None /\ ~ boot[s].pinned
    <2>1. AppendTo(s, f)
        BY <1>6 DEF PinSelection
    <2>2. chosen \in Selected /\ IsSelection(chosen) /\ chosen \in Selections(s)
        BY <1>1, <1>6, SelectionsType DEF Sound, Learned
    <2>3. f \in Fact /\ f.type = "selected" /\ f.time = clock /\ f.selection = chosen
        <3> HIDE DEF chosen
        <3> QED BY <1>3, <2>2 DEF Fact
    <2> HIDE DEF f
    <2>4. /\ journal' \in [Sessions -> Seq(Fact)] /\ M = Append(J, f)
          /\ \A t \in Sessions \ {s} : journal'[t] = journal[t]
        BY <1>1, <2>1, <2>3, AppendIs
    <2>5. Typed'
        BY <1>1, <1>2, <2>4 DEF Typed, Phases
    <2>6. phase'[s] = "opening" /\ boot'[s] = boot[s] /\ Only(s) /\ Later
        BY <1>1, <1>2, <2>4 DEF Typed, Only, Later
    <2>7. Moves(s)
        BY <1>4, <1>6, <2>3, <2>4 DEF Moves, Moved
    <2>8. Len(M) = n + 1 /\ M # <<>>
        BY <1>3, <2>4
    <2>9. ASSUME Ordinary(s)'
          PROVE  /\ Ordinary(s) /\ Faithful(s, M)
                 /\ At(M, n + 1) = [held EXCEPT !.selection = chosen]
                 /\ \A i \in 0..n : At(M, i) = At(J, i)
        <3>1. Ordinary(s)
            BY <1>1, <2>3, <2>4, <2>9, OrdinaryGrows
        <3>2. Faithful(s, J)
            BY <1>1, <3>1 DEF Sound
        <3>3. At(J, n) = held /\ held.selection = None
            BY <1>4, <1>6, <3>1
        <3> HIDE DEF held, chosen
        <3>4. /\ Accepts(At(J, n), f)
              /\ Reduce(At(J, n), f) = [held EXCEPT !.selection = chosen]
            BY <2>2, <2>3, <3>3 DEF Accepts, Reduce
        <3> HIDE DEF J
        <3>5. /\ Faithful(s, Append(J, f))
              /\ At(Append(J, f), Len(J) + 1) = Reduce(At(J, Len(J)), f)
              /\ \A i \in 0..Len(J) : At(Append(J, f), i) = At(J, i)
            BY <1>3, <2>3, <3>2, <3>4, FaithfulGrows
        <3> QED BY <2>4, <3>1, <3>4, <3>5
    <2>10. BootFits(s)'
        <3>1. Own(s)' = Own(s)
            BY <2>6 DEF Own
        <3>2. boot[s].from # s => OfType(M, "evaluated") = {}
            BY <1>3, <1>4, <2>3, <2>4, TypesGrow
        <3>3. boot[s].length <= Len(journal'[boot[s].from])
            <4>1. CASE boot[s].from = s
                <5>1. boot[s].length \in Nat
                    BY <1>3 DEF BootType
                <5> QED BY <1>3, <1>4, <2>8, <4>1, <5>1
            <4>2. CASE boot[s].from # s
                BY <1>4, <2>4, <4>2
            <4> QED BY <4>1, <4>2
        <3>4. Own(s) <= Len(M)
            BY <1>3, <1>4, <2>8
        <3>5. Ordinary(s)' =>
                /\ At(M, Own(s)).selection = None
                /\ At(M, Len(M)) = [At(M, Own(s)) EXCEPT !.selection = chosen]
            <4> SUFFICES ASSUME Ordinary(s)'
                         PROVE  /\ At(M, Own(s)).selection = None
                                /\ At(M, Len(M)) = [At(M, Own(s)) EXCEPT !.selection = chosen]
                OBVIOUS
            <4>1. At(M, Own(s)) = held
                BY <1>5, <2>9
            <4>2. held.selection = None
                BY <1>4, <1>6, <2>9
            <4>3. At(M, Len(M)) = [held EXCEPT !.selection = chosen]
                BY <2>8, <2>9
            <4> QED BY <4>1, <4>2, <4>3
        <3> QED BY <1>4, <1>6, <2>6, <2>8, <3>1, <3>2, <3>3, <3>4, <3>5 DEF BootFits, Opening
    <2>11. LiveFits(s)'
        BY <2>6 DEF LiveFits
    <2>12. \A x \in Selections(s)' : x \in Selections(s)
        BY <1>1, <2>2, <2>3, <2>4, <2>6, SelectionsGrow
    <2>13. (Ordinary(s) => Faithful(s, journal[s]))'
        BY <2>9
    <2> QED BY <2>5, <2>6, <2>7, <2>10, <2>11, <2>12, <2>13, StepKeeps
<1>7. CASE ~ (chosen # None /\ ~ boot[s].pinned)
    <2>1. journal' = journal
        BY <1>7 DEF PinSelection
    <2>2. Typed'
        BY <1>1, <1>2, <2>1 DEF Typed, Phases
    <2>3. phase'[s] = "opening" /\ boot'[s] = boot[s] /\ Only(s) /\ Later /\ Moves(s)
        BY <1>1, <1>2, <2>1 DEF Typed, Only, Later, Moves, Moved
    <2>4. BootFits(s)'
        <3>1. Own(s)' = Own(s) /\ Ordinary(s)' = Ordinary(s)
            BY <2>1, <2>3 DEF Own, Ordinary
        <3>2. Ordinary(s) => At(J, n) = IF chosen = None THEN held ELSE [held EXCEPT !.selection = chosen]
            <4> SUFFICES ASSUME Ordinary(s), chosen # None
                         PROVE  At(J, n) = [held EXCEPT !.selection = chosen]
                BY <1>4
            <4>1. At(J, n) = held /\ chosen = held.selection
                BY <1>4, <1>7
            <4>2. [held EXCEPT !.selection = held.selection] = held
                BY <1>5, SameSelection
            <4> QED BY <4>1, <4>2
        <3> QED BY <1>4, <2>1, <2>3, <3>1, <3>2 DEF BootFits, Opening
    <2>5. LiveFits(s)'
        BY <2>3 DEF LiveFits
    <2>6. \A x \in Selections(s)' : x \in Selections(s)
        BY <2>1, <2>3 DEF Selections
    <2>7. (Ordinary(s) => Faithful(s, journal[s]))'
        BY <1>1, <2>1 DEF Sound, Ordinary
    <2> QED BY <2>2, <2>3, <2>4, <2>5, <2>6, <2>7, StepKeeps
<1> QED BY <1>6, <1>7

(* What a boot recovers: a state, and for a resumed session whose journal   *)
(* is ordinary what that journal held when it was loaded.                   *)
LEMMA Recovers ==
    ASSUME CalibrationInv, NEW s \in Sessions, phase[s] \in Opening,
           NEW recovered, recovered = Replay(SubSeq(journal[boot[s].from], 1, boot[s].length)).state
    PROVE  /\ recovered \in State
           /\ Ordinary(s) /\ boot[s].from = s => recovered = At(journal[s], Own(s))
           /\ boot[s].from # s /\ ~ (boot[s].length > 0) => recovered = At(journal[s], Own(s))
<1> DEFINE from == boot[s].from
           n == boot[s].length
           J == journal[from]
           part == SubSeq(J, 1, n)
<1>1. Typed /\ Sound(s) /\ BootFits(s)
    BY DEF CalibrationInv, Sound
<1>2. n \in Nat /\ from \in Sessions /\ n <= Len(J)
    BY <1>1 DEF Typed, BootType, BootFits
<1>3. J \in Seq(Fact) /\ n \in 0..Len(J) /\ journal[s] \in Seq(Fact)
    BY <1>1, <1>2 DEF Typed
<1>4. part \in Seq(Fact) /\ Len(part) = n
    <2> HIDE DEF J, n
    <2> QED BY <1>3, RunPrefix
<1>5. recovered \in State
    <2>1. Replay(part) \in Played
        BY <1>4, ReplayType
    <2> HIDE DEF part
    <2>2. Replay(part).state \in State
        BY <2>1 DEF Played
    <2> QED BY <2>2 DEF part
<1>6. Ordinary(s) /\ from = s => recovered = At(journal[s], Own(s))
    <2> SUFFICES ASSUME Ordinary(s), from = s
                 PROVE  recovered = At(journal[s], Own(s))
        OBVIOUS
    <2>1. Faithful(s, J) /\ Own(s) = n
        BY <1>1 DEF Sound, Own
    <2> HIDE DEF J, n
    <2>2. Faithful(s, part) /\ \A i \in 0..n : At(part, i) = At(J, i)
        BY <1>3, <2>1, FaithfulPrefix
    <2> HIDE DEF part
    <2>3. Replay(part) = ReplayFrom(Empty, part)
        BY <1>4, <2>2, FaithfulReplay
    <2>4. ReplayFrom(Empty, part) = Fresh(At(part, Len(part)))
        BY <1>4, <2>2, FaithfulSteps
    <2>5. Replay(part).state = At(part, n)
        BY <1>4, <2>3, <2>4 DEF Fresh
    <2>6. At(part, n) = At(J, n)
        BY <1>3, <2>2
    <2> QED BY <2>1, <2>5, <2>6 DEF part, J, n
<1>7. from # s /\ ~ (n > 0) => recovered = At(journal[s], Own(s))
    <2> SUFFICES ASSUME from # s, ~ (n > 0)
                 PROVE  recovered = At(journal[s], Own(s))
        OBVIOUS
    <2>1. n = 0
        BY <1>2
    <2>2. part = <<>>
        <3> HIDE DEF J, n
        <3> QED BY <1>3, <2>1
    <2>3. recovered = Empty
        <3>1. Replay(part) = Fresh(Empty)
            BY <2>2, NothingPlayed
        <3>2. Fresh(Empty).state = Empty
            BY DEF Fresh
        <3>3. recovered = Replay(part).state
            OBVIOUS
        <3> HIDE DEF part
        <3> QED BY <3>1, <3>2, <3>3
    <2>4. Own(s) = 0
        BY DEF Own
    <2>5. At(journal[s], 0) = Empty
        <3>1. Run(journal[s], 0) = Fresh(Empty)
            BY <1>3, RunSteps
        <3>2. Fresh(Empty).state = Empty
            BY DEF Fresh
        <3> QED BY <3>1, <3>2 DEF At
    <2> QED BY <2>3, <2>4, <2>5
<1> QED BY <1>5, <1>6, <1>7

(* A session opens with what its journal says, or fails to. *)
LEMMA OpenKeeps ==
    ASSUME CalibrationInv, NEW s \in Sessions, Open(s)
    PROVE  CalibrationInv'
<1> DEFINE b == boot[s]
           recovered == Replay(SubSeq(journal[b.from], 1, b.length)).state
           chosen == b.selection
           J == journal[s]
           M == journal'[s]
           n == Len(J)
           held == At(J, Own(s))
           opened == IF chosen = None THEN recovered ELSE [recovered EXCEPT !.selection = chosen]
<1>1. Typed /\ Sound(s) /\ BootFits(s)
    BY DEF CalibrationInv, Sound
<1>2. phase[s] = "opening" /\ boot' = boot /\ clock' = clock
    BY DEF Open
<1>3. J \in Seq(Fact) /\ n \in Nat /\ clock \in Nat /\ b \in BootType
    BY <1>1 DEF Typed
<1>4. /\ b.pinned => chosen # None
      /\ b.from # s => OfType(J, "evaluated") = {}
      /\ J # <<>>
      /\ Ordinary(s) => At(J, n) = IF chosen = None THEN held
                                   ELSE [held EXCEPT !.selection = chosen]
    BY <1>1, <1>2 DEF BootFits, Opening
<1>5. /\ recovered \in State
      /\ Ordinary(s) /\ b.from = s => recovered = held
      /\ b.from # s /\ ~ (b.length > 0) => recovered = held
    <2>1. phase[s] \in Opening
        BY <1>2 DEF Opening
    <2> QED BY <2>1, Recovers
<1> HIDE DEF recovered, held
<1>6. CASE chosen # None /\ recovered.selection \notin {None, chosen}
    <2>1. phase' = [phase EXCEPT ![s] = "failed"] /\ journal' = journal /\ live' = live
        BY <1>6 DEF Open, recovered
    <2>2. Typed'
        BY <1>1, <1>2, <2>1 DEF Typed, Phases
    <2>3. phase'[s] = "failed" /\ boot'[s] = boot[s] /\ Only(s) /\ Later /\ Moves(s)
        BY <1>1, <1>2, <2>1 DEF Typed, Only, Later, Moves, Moved
    <2>4. BootFits(s)' /\ LiveFits(s)'
        BY <1>4, <2>3 DEF BootFits, LiveFits, Opening
    <2>5. \A x \in Selections(s)' : x \in Selections(s)
        BY <2>1, <2>3 DEF Selections
    <2>6. (Ordinary(s) => Faithful(s, journal[s]))'
        BY <1>1, <2>1 DEF Sound, Ordinary
    <2> QED BY <2>2, <2>3, <2>4, <2>5, <2>6, StepKeeps
<1>7. CASE ~ (chosen # None /\ recovered.selection \notin {None, chosen})
    <2>1. /\ phase' = [phase EXCEPT ![s] = "running"]
          /\ live' = [live EXCEPT ![s] = opened]
          /\ IF b.from # s /\ b.length > 0
             THEN AppendTo(s, [type |-> "branch", time |-> clock])
             ELSE journal' = journal
        BY <1>7 DEF Open, recovered
    <2>2. opened \in State
        <3>1. chosen \in Selected \cup {None}
            BY <1>3 DEF BootType
        <3> HIDE DEF chosen
        <3> QED BY <1>5, <3>1 DEF State
    <2> HIDE DEF opened
    <2>3. /\ live' \in [Sessions -> State] /\ live'[s] = opened
          /\ phase' \in [Sessions -> Phases] /\ phase'[s] = "running"
          /\ boot'[s] = boot[s] /\ Later
          /\ \A t \in Sessions \ {s} :
                phase'[t] = phase[t] /\ boot'[t] = boot[t] /\ live'[t] = live[t]
        BY <1>1, <1>2, <2>1, <2>2 DEF Typed, Phases, Later
    <2>4. CASE b.from # s /\ b.length > 0
        <3> DEFINE f == [type |-> "branch", time |-> clock]
        <3>1. AppendTo(s, f)
            BY <2>1, <2>4
        <3>2. f \in Fact /\ f.type = "branch" /\ f.time = clock
            BY <1>3 DEF Fact
        <3> HIDE DEF f
        <3>3. /\ journal' \in [Sessions -> Seq(Fact)] /\ M = Append(J, f)
              /\ \A t \in Sessions \ {s} : journal'[t] = journal[t]
            BY <1>1, <3>1, <3>2, AppendIs
        <3>4. Typed' /\ Only(s)
            BY <1>1, <1>2, <2>3, <3>3 DEF Typed, Only
        <3>5. Moves(s)
            BY <1>4, <2>4, <3>2, <3>3 DEF Moves, Moved
        <3>6. M # <<>>
            BY <1>3, <3>3
        <3>7. ~ Ordinary(s)'
            BY <1>1, <3>2, <3>3, OrdinaryGrows
        <3>8. BootFits(s)' /\ LiveFits(s)'
            BY <1>4, <2>3, <3>6, <3>7 DEF BootFits, LiveFits, Opening
        <3>9. \A x \in Selections(s)' : x \in Selections(s)
            BY <1>1, <2>3, <3>2, <3>3, SelectionsGrow
        <3>10. (Ordinary(s) => Faithful(s, journal[s]))'
            BY <3>7
        <3> QED BY <2>3, <3>4, <3>5, <3>8, <3>9, <3>10, StepKeeps
    <2>5. CASE ~ (b.from # s /\ b.length > 0)
        <3>1. journal' = journal
            BY <2>1, <2>5
        <3>2. Typed' /\ Only(s) /\ Moves(s)
            BY <1>1, <1>2, <2>3, <3>1 DEF Typed, Only, Moves, Moved
        <3>3. Ordinary(s)' = Ordinary(s)
            BY <3>1 DEF Ordinary
        <3>4. Ordinary(s) => opened = At(J, n)
            BY <1>4, <1>5, <2>5 DEF opened
        <3>5. LiveFits(s)'
            BY <2>3, <3>1, <3>3, <3>4 DEF LiveFits
        <3>6. BootFits(s)'
            BY <1>4, <2>3, <3>1 DEF BootFits, Opening
        <3>7. \A x \in Selections(s)' : x \in Selections(s)
            BY <2>3, <3>1 DEF Selections
        <3>8. (Ordinary(s) => Faithful(s, journal[s]))'
            BY <1>1, <3>1, <3>3 DEF Sound
        <3> QED BY <2>3, <3>2, <3>5, <3>6, <3>7, <3>8, StepKeeps
    <2> QED BY <2>4, <2>5
<1> QED BY <1>6, <1>7

(* A fact that a running session may write *)
Fits(s, f) ==
    LET now == At(journal[s], Len(journal[s])) IN
    /\ Accepts(now, f)
    /\ f.type = "recorded" => f.reflection.id = <<s, Len(journal[s]) + 1>>
    /\ f.type = "snapshot" => f.lastSeq = Len(journal[s]) /\ f.state = now

(* Such a fact keeps state and journal together. *)
LEMMA WriteKeeps ==
    ASSUME CalibrationInv, NEW s \in Sessions, phase[s] = "running", NEW f \in Fact, f.time = clock,
           f.type \in {"recorded", "evaluated", "snapshot"}, Write(s, f),
           Ordinary(s) => Fits(s, f)
    PROVE  CalibrationInv'
<1> DEFINE J == journal[s]
           M == journal'[s]
           n == Len(J)
<1>1. Typed /\ Sound(s) /\ BootFits(s) /\ LiveFits(s)
    BY DEF CalibrationInv, Sound
<1>2. /\ phase' = phase /\ boot' = boot /\ clock' = clock /\ AppendTo(s, f)
      /\ live' = [live EXCEPT ![s] = Reduce(live[s], f)]
    BY DEF Write
<1>3. J \in Seq(Fact) /\ n \in Nat /\ clock \in Nat /\ live[s] \in State
    BY <1>1 DEF Typed
<1>4. /\ journal' \in [Sessions -> Seq(Fact)] /\ M = Append(J, f)
      /\ \A t \in Sessions \ {s} : journal'[t] = journal[t]
    BY <1>1, <1>2, AppendIs
<1>5. Reduce(live[s], f) \in State
    BY <1>3, ReduceType
<1>6. Typed'
    BY <1>1, <1>2, <1>4, <1>5 DEF Typed
<1>7. /\ phase'[s] = "running" /\ boot'[s] = boot[s] /\ Only(s) /\ Later
      /\ live'[s] = Reduce(live[s], f)
    BY <1>1, <1>2, <1>4 DEF Typed, Only, Later
<1>8. (boot[s].pinned => boot[s].selection # None) /\ J # <<>>
    BY <1>1 DEF BootFits
<1>9. Moves(s)
    BY <1>4, <1>8 DEF Moves, Moved
<1>10. Len(M) = n + 1 /\ M # <<>>
    BY <1>3, <1>4
<1>11. ASSUME Ordinary(s)'
       PROVE  Faithful(s, M) /\ At(M, n + 1) = Reduce(live[s], f)
    <2>1. Ordinary(s)
        BY <1>1, <1>4, <1>11, OrdinaryGrows
    <2>2. Faithful(s, J) /\ live[s] = At(J, n)
        BY <1>1, <2>1 DEF Sound, LiveFits
    <2>3. /\ Accepts(At(J, n), f)
          /\ f.type = "recorded" => f.reflection.id = <<s, n + 1>>
          /\ f.type = "snapshot" => f.lastSeq = n /\ f.state = At(J, n)
        BY <2>1 DEF Fits
    <2> HIDE DEF J
    <2>4. /\ Faithful(s, Append(J, f))
          /\ At(Append(J, f), Len(J) + 1) = Reduce(At(J, Len(J)), f)
        BY <1>3, <2>2, <2>3, FaithfulGrows
    <2> QED BY <1>4, <2>2, <2>4
<1>12. BootFits(s)'
    BY <1>7, <1>8, <1>10 DEF BootFits, Opening
<1>13. LiveFits(s)'
    BY <1>7, <1>10, <1>11 DEF LiveFits
<1>14. \A x \in Selections(s)' : x \in Selections(s)
    BY <1>1, <1>4, <1>7, SelectionsGrow
<1>15. (Ordinary(s) => Faithful(s, journal[s]))'
    BY <1>11
<1> QED BY <1>6, <1>7, <1>9, <1>12, <1>13, <1>14, <1>15, StepKeeps

(* The window a profile shifts stays a window. *)
LEMMA ShiftIs ==
    ASSUME NEW e, NEW w \in 1..20
    PROVE  Shift(e, w) \in 1..20
<1>1. \A k \in Int : Clamp(k) \in 1..20
    BY DEF Clamp
<1>2. Clamp(w + 1) \in 1..20 /\ Clamp(w - 1) \in 1..20
    BY <1>1
<1> HIDE DEF Clamp
<1>3. Shift(e, w) \in {Clamp(w + 1), Clamp(w - 1), w}
    BY DEF Shift
<1> QED BY <1>2, <1>3

(* A reflection is of its type. *)
LEMMA CalibratedType ==
    ASSUME Typed, NEW s \in Sessions, NEW trigger \in Triggers, NEW action \in Actions
    PROVE  Calibrated(s, trigger, action) \in Reflection
<1> DEFINE selection == live[s].selection
           fits == IF ~ boot[s].enabled \/ selection = None THEN {}
                   ELSE Matching(selection.profile, trigger, action)
           id == <<s, Len(journal[s]) + 1>>
           window == IF fits = {} THEN Window ELSE Shift(CHOOSE e \in fits : TRUE, Window)
           calibration == IF fits = {} THEN None ELSE selection
<1>1. Calibrated(s, trigger, action) =
        [id |-> id, trigger |-> trigger, action |-> action, base |-> Window,
         window |-> window, calibration |-> calibration]
    BY DEF Calibrated
<1>2. Window \in 1..20
    BY ConfigAssumption
<1>3. window \in 1..20
    BY <1>2, ShiftIs
<1>4. id \in Ids
    <2>1. Len(journal[s]) + 1 \in Nat
        BY DEF Typed
    <2> HIDE DEF Typed
    <2> QED BY <2>1 DEF Ids
<1>5. calibration \in Selected \cup {None}
    <2>1. live[s] \in State
        BY DEF Typed
    <2>2. selection \in Selected \cup {None}
        BY <2>1 DEF State
    <2> QED BY <2>2
<1> HIDE DEF id, window, calibration, fits, selection
<1> QED BY <1>1, <1>2, <1>3, <1>4, <1>5 DEF Reflection

(* A reflection that a running session makes is one the replay accepts. *)
LEMMA CalibratedFits ==
    ASSUME CalibrationInv, NEW s \in Sessions, phase[s] = "running", Ordinary(s),
           NEW trigger \in Triggers, NEW action \in Actions
    PROVE  /\ \A r \in live[s].reflections : r.id # Calibrated(s, trigger, action).id
           /\ ValidCalibration(live[s], Calibrated(s, trigger, action))
<1> DEFINE J == journal[s]
           n == Len(J)
           selection == live[s].selection
           fits == IF ~ boot[s].enabled \/ selection = None THEN {}
                   ELSE Matching(selection.profile, trigger, action)
           c == Calibrated(s, trigger, action)
<1>1. Typed /\ Sound(s)
    BY DEF CalibrationInv
<1>2. J \in Seq(Fact) /\ n \in Nat
    BY <1>1 DEF Typed
<1>3. Faithful(s, J) /\ Named(J) /\ live[s] = At(J, n)
    BY <1>1 DEF Sound, LiveFits
<1>4. /\ c.id = <<s, n + 1>> /\ c.trigger = trigger /\ c.action = action /\ c.base = Window
      /\ c.window = IF fits = {} THEN Window ELSE Shift(CHOOSE e \in fits : TRUE, Window)
      /\ c.calibration = IF fits = {} THEN None ELSE selection
    BY DEF Calibrated
<1> HIDE DEF c
<1>5. Replayed(J, n)
    <2>1. n \in 0..Len(J)
        BY <1>2
    <2> QED BY <1>2, <1>3, <2>1, ReplayedAlways
<1>6. ASSUME NEW r \in live[s].reflections
      PROVE  r.id # c.id
    <2>1. PICK i \in 1..n : J[i].type = "recorded" /\ J[i].reflection = r
        BY <1>3, <1>5 DEF Replayed
    <2>2. r.id = <<s, i>>
        BY <1>3, <2>1 DEF Faithful
    <2>3. i # n + 1
        BY <1>2
    <2> QED BY <1>4, <2>2, <2>3
<1>7. selection # None => Keyed(selection.profile)
    <2> SUFFICES ASSUME selection # None
                 PROVE  Keyed(selection.profile)
        OBVIOUS
    <2>1. PICK i \in 1..n : J[i].type = "selected" /\ selection = J[i].selection
        BY <1>3, <1>5 DEF Replayed
    <2>2. i \in OfType(J, "selected")
        BY <1>2, <2>1 DEF OfType
    <2>3. selection \in Selections(s)
        BY <1>1, <2>1, <2>2, SelectionsType
    <2> HIDE DEF selection
    <2>4. Learned(s, selection)
        BY <1>1, <2>3 DEF Sound
    <2> QED BY <2>4 DEF Learned
<1>8. ASSUME c.calibration # None
      PROVE  /\ selection # None /\ c.calibration = selection
             /\ Matching(selection.profile, trigger, action) # {}
             /\ \A e \in Matching(selection.profile, trigger, action) : c.window = Shift(e, Window)
    <2>1. /\ fits # {} /\ selection # None /\ c.calibration = selection
          /\ fits = Matching(selection.profile, trigger, action)
          /\ c.window = Shift(CHOOSE e \in fits : TRUE, Window)
        BY <1>4, <1>8
    <2> HIDE DEF fits, selection
    <2>2. \A d, e \in fits : d = e
        BY <1>7, <2>1 DEF Matching, Keyed
    <2>3. \A e \in fits : e = CHOOSE d \in fits : TRUE
        BY <2>2
    <2> QED BY <2>1, <2>3
<1>9. ValidCalibration(live[s], c)
    BY <1>4, <1>8 DEF ValidCalibration
<1> QED BY <1>6, <1>9 DEF c

(* A reflection is recorded. *)
LEMMA RecordKeeps ==
    ASSUME CalibrationInv, NEW s \in Sessions, NEW trigger \in Triggers, NEW action \in Actions,
           Record(s, trigger, action)
    PROVE  CalibrationInv'
<1> DEFINE c == Calibrated(s, trigger, action)
           f == [type |-> "recorded", time |-> clock, reflection |-> c]
<1>1. phase[s] = "running" /\ Write(s, f)
    BY DEF Record
<1>2. Typed /\ Sound(s)
    BY DEF CalibrationInv
<1>3. c \in Reflection
    BY <1>2, CalibratedType
<1>4. c.id = <<s, Len(journal[s]) + 1>>
    BY DEF Calibrated
<1>5. ASSUME Ordinary(s)
      PROVE  /\ \A r \in live[s].reflections : r.id # c.id
             /\ ValidCalibration(live[s], c)
    BY <1>1, <1>5, CalibratedFits
<1> HIDE DEF c
<1>6. f \in Fact /\ f.type = "recorded" /\ f.time = clock /\ f.reflection = c
    BY <1>2, <1>3 DEF Typed, Fact
<1>7. c.window \in 1..20
    BY <1>3 DEF Reflection
<1> HIDE DEF f
<1>8. Ordinary(s) => Fits(s, f)
    <2> SUFFICES ASSUME Ordinary(s)
                 PROVE  Fits(s, f)
        OBVIOUS
    <2>1. live[s] = At(journal[s], Len(journal[s]))
        BY <1>1, <1>2 DEF Sound, LiveFits
    <2>2. Accepts(live[s], f)
        BY <1>5, <1>6, <1>7 DEF Accepts
    <2> QED BY <1>4, <1>6, <2>1, <2>2 DEF Fits
<1> QED BY <1>1, <1>6, <1>8, WriteKeeps

(* A reflection is evaluated. *)
LEMMA EvaluateKeeps ==
    ASSUME CalibrationInv, NEW s \in Sessions, NEW outcome \in Outcomes, Evaluate(s, outcome)
    PROVE  CalibrationInv'
<1>1. phase[s] = "running" /\ Typed /\ Sound(s)
    BY DEF Evaluate, CalibrationInv
<1>2. PICK r \in Pending(s) :
        Write(s, [type |-> "evaluated", time |-> clock, id |-> r.id, outcome |-> outcome,
                  observed |-> IF outcome = "effective" THEN 1 ELSE r.window])
    BY DEF Evaluate
<1> DEFINE seen == IF outcome = "effective" THEN 1 ELSE r.window
           f == [type |-> "evaluated", time |-> clock, id |-> r.id, outcome |-> outcome,
                 observed |-> seen]
<1>3. r \in live[s].reflections /\ r.id \notin live[s].evaluated
    BY DEF Pending
<1>4. r.id \in Ids /\ r.window \in 1..20
    <2>1. live[s] \in State
        BY <1>1 DEF Typed
    <2>2. r \in Reflection
        BY <1>3, <2>1 DEF State
    <2> QED BY <2>2 DEF Reflection
<1>5. seen \in Nat /\ (outcome = "ineffective" => seen >= r.window)
    BY <1>4
<1> HIDE DEF seen
<1>6. /\ f \in Fact /\ f.type = "evaluated" /\ f.time = clock /\ f.id = r.id
      /\ f.outcome = outcome /\ f.observed = seen
    BY <1>1, <1>4, <1>5 DEF Typed, Fact
<1>7. Write(s, f)
    BY <1>2 DEF seen
<1> HIDE DEF f
<1>8. Ordinary(s) => Fits(s, f)
    <2> SUFFICES ASSUME Ordinary(s)
                 PROVE  Fits(s, f)
        OBVIOUS
    <2>1. live[s] = At(journal[s], Len(journal[s]))
        BY <1>1 DEF Sound, LiveFits
    <2>2. Accepts(live[s], f)
        BY <1>3, <1>5, <1>6 DEF Accepts
    <2> QED BY <1>6, <2>1, <2>2 DEF Fits
<1> QED BY <1>1, <1>6, <1>7, <1>8, WriteKeeps

(* A snapshot is taken. *)
LEMMA SnapshotKeeps ==
    ASSUME CalibrationInv, NEW s \in Sessions, Snapshot(s)
    PROVE  CalibrationInv'
<1> DEFINE f == [type |-> "snapshot", time |-> clock, state |-> live[s],
                 lastSeq |-> Len(journal[s])]
<1>1. phase[s] = "running" /\ Typed /\ Sound(s) /\ Write(s, f)
    BY DEF Snapshot, CalibrationInv
<1>2. live[s] \in State /\ clock \in Nat /\ Len(journal[s]) \in Nat
    BY <1>1 DEF Typed
<1>3. /\ f \in Fact /\ f.type = "snapshot" /\ f.time = clock /\ f.state = live[s]
      /\ f.lastSeq = Len(journal[s])
    BY <1>2 DEF Fact
<1> HIDE DEF f
<1>4. Ordinary(s) => Fits(s, f)
    <2> SUFFICES ASSUME Ordinary(s)
                 PROVE  Fits(s, f)
        OBVIOUS
    <2>1. live[s] = At(journal[s], Len(journal[s]))
        BY <1>1 DEF Sound, LiveFits
    <2>2. Accepts(live[s], f)
        BY <1>3 DEF Accepts
    <2> QED BY <1>3, <2>1, <2>2 DEF Fits
<1> QED BY <1>1, <1>3, <1>4, WriteKeeps

(* No boot, and no state *)
LEMMA NothingType == NoBoot \in BootType /\ Empty \in State
<1>1. NoBoot \in BootType
    BY DEF NoBoot, BootType
<1> QED BY <1>1, EmptyType

(* The process of a session ends. *)
LEMMA StopKeeps ==
    ASSUME CalibrationInv, NEW s \in Sessions, Stop(s)
    PROVE  CalibrationInv'
<1>1. Typed /\ Sound(s)
    BY DEF CalibrationInv
<1>2. /\ phase' = [phase EXCEPT ![s] = IF journal[s] = <<>> THEN "new" ELSE "down"]
      /\ boot' = [boot EXCEPT ![s] = NoBoot] /\ live' = [live EXCEPT ![s] = Empty]
      /\ journal' = journal /\ clock' = clock
    BY DEF Stop
<1>3. Typed'
    <2>1. phase' \in [Sessions -> Phases]
        BY <1>1, <1>2 DEF Typed, Phases
    <2> QED BY <1>1, <1>2, <2>1, NothingType DEF Typed
<1>4. /\ phase'[s] = IF journal[s] = <<>> THEN "new" ELSE "down"
      /\ boot'[s] = NoBoot /\ journal'[s] = journal[s]
      /\ Only(s) /\ Later /\ Moves(s)
    BY <1>1, <1>2 DEF Typed, Only, Later, Moves, Moved
<1>5. BootFits(s)' /\ LiveFits(s)'
    <2>1. ~ NoBoot.pinned
        BY DEF NoBoot
    <2> QED BY <1>4, <2>1 DEF BootFits, LiveFits, Opening
<1>6. \A x \in Selections(s)' : x # None => x \in Selections(s)
    <2>1. NoBoot.selection = None
        BY DEF NoBoot
    <2> QED BY <1>4, <2>1 DEF Selections
<1>7. (Ordinary(s) => Faithful(s, journal[s]))'
    BY <1>1, <1>4 DEF Sound, Ordinary
<1> QED BY <1>3, <1>4, <1>5, <1>6, <1>7, StepKeeps

(* A line is damaged. *)
LEMMA DamageKeeps ==
    ASSUME CalibrationInv, NEW s \in Sessions, NEW i \in DOMAIN journal[s], Damage(s, i)
    PROVE  CalibrationInv'
<1> DEFINE J == journal[s]
           M == journal'[s]
<1>1. Typed /\ Sound(s) /\ BootFits(s)
    BY DEF CalibrationInv, Sound
<1>2. /\ phase[s] = "down" /\ journal' = [journal EXCEPT ![s][i] = [type |-> "corrupt"]]
      /\ phase' = phase /\ boot' = boot /\ live' = live /\ clock' = clock
    BY DEF Damage
<1>3. M = [J EXCEPT ![i] = [type |-> "corrupt"]] /\ J \in Seq(Fact)
    BY <1>1, <1>2 DEF Typed
<1>4. Moved(J, M, clock)
    BY <1>3 DEF Moved
<1>5. M \in Seq(Fact)
    <2> HIDE DEF J, M
    <2> QED BY <1>3, <1>4, MovedLength
<1>6. journal' \in [Sessions -> Seq(Fact)] /\ \A t \in Sessions \ {s} : journal'[t] = journal[t]
    <2>1. journal' = [journal EXCEPT ![s] = M]
        BY <1>1, <1>2, <1>3 DEF Typed
    <2> HIDE DEF M
    <2> QED BY <1>1, <1>5, <2>1 DEF Typed
<1>7. /\ Typed' /\ Only(s) /\ Later /\ Moves(s)
      /\ phase'[s] = "down" /\ boot'[s] = boot[s]
    BY <1>1, <1>2, <1>4, <1>6 DEF Typed, Only, Later, Moves
<1>8. DOMAIN M = DOMAIN J /\ \A k \in DOMAIN J : k = i \/ M[k] = J[k]
    BY <1>3
<1>9. M[i].type = "corrupt" /\ i \in DOMAIN M
    BY <1>3
<1>10. ~ Ordinary(s)'
    BY <1>9 DEF Ordinary, Intact, OfType
<1>11. BootFits(s)' /\ LiveFits(s)'
    BY <1>1, <1>7 DEF BootFits, LiveFits, Opening
<1>12. \A x \in Selections(s)' : x \in Selections(s)
    <2>1. \A k \in OfType(M, "selected") : k \in OfType(J, "selected") /\ M[k] = J[k]
        BY <1>8, <1>9 DEF OfType
    <2> QED BY <1>7, <2>1 DEF Selections
<1>13. (Ordinary(s) => Faithful(s, journal[s]))'
    BY <1>10
<1> QED BY <1>7, <1>11, <1>12, <1>13, StepKeeps

(* Time passes. *)
LEMMA TickKeeps ==
    ASSUME CalibrationInv, clock' \in Nat, clock <= clock', UNCHANGED <<journal, phase, boot, live>>
    PROVE  CalibrationInv'
<1>1. Typed /\ IsFiniteSet(Begun)
    BY DEF CalibrationInv
<1>2. Typed'
    BY <1>1 DEF Typed
<1>3. (\A u \in Sessions : Moves(u)) /\ Later
    BY DEF Moves, Moved, Later
<1>4. \A t \in Sessions : Sound(t)'
    BY <1>3, OthersKeep
<1>5. IsFiniteSet(Begun)'
    <2>1. Begun' = Begun
        BY DEF Begun
    <2> QED BY <1>1, <2>1
<1> QED BY <1>2, <1>4, <1>5 DEF CalibrationInv

(* The invariant holds at the start. *)
LEMMA CalibrationStarts ==
    ASSUME CalibrationInit
    PROVE  CalibrationInv
<1>1. Typed
    <2>1. <<>> \in Seq(Fact)
        OBVIOUS
    <2>2. clock \in Nat
        BY DEF CalibrationInit
    <2> QED BY <2>1, <2>2, NothingType DEF CalibrationInit, Typed, Phases
<1>2. IsFiniteSet(Begun)
    <2>1. Begun = {}
        BY DEF CalibrationInit, Begun
    <2> QED BY <2>1, FS_EmptySet
<1>3. ASSUME NEW s \in Sessions
      PROVE  Sound(s)
    <2>1. journal[s] = <<>> /\ phase[s] = "new" /\ boot[s] = NoBoot /\ DOMAIN <<>> = {} /\ Len(<<>>) = 0
        BY DEF CalibrationInit
    <2>2. \A type : OfType(<<>>, type) = {}
        BY <2>1 DEF OfType
    <2>3. Dated(journal[s], clock) /\ Named(journal[s])
        <3>1. 1..0 = {}
            OBVIOUS
        <3> QED BY <2>1, <2>2, <3>1 DEF Dated, Named
    <2>4. Faithful(s, journal[s])
        BY <2>1, NothingPlayed
    <2>5. ~ NoBoot.pinned /\ NoBoot.selection = None
        BY DEF NoBoot
    <2>6. BootFits(s) /\ LiveFits(s)
        BY <2>1, <2>5 DEF BootFits, LiveFits, Opening
    <2>7. Selections(s) = {None}
        BY <2>1, <2>2, <2>5 DEF Selections
    <2> QED BY <2>3, <2>4, <2>6, <2>7 DEF Sound
<1> QED BY <1>1, <1>2, <1>3 DEF CalibrationInv

(* Every step keeps it. *)
LEMMA CalibrationSteps ==
    ASSUME CalibrationInv, [CalibrationNext]_calibrationVars
    PROVE  CalibrationInv'
<1>1. ASSUME NEW s \in Sessions, NEW enabled \in BOOLEAN, NEW readable \in BOOLEAN,
             Boot(s, enabled, readable)
      PROVE  CalibrationInv'
    BY <1>1, BootKeeps
<1>2. ASSUME NEW s \in Sessions, NEW from \in Sessions, NEW enabled \in BOOLEAN,
             Fork(s, from, enabled)
      PROVE  CalibrationInv'
    BY <1>2, ForkKeeps
<1>3. ASSUME NEW s \in Sessions, StartRun(s) \/ PinSelection(s) \/ Open(s)
      PROVE  CalibrationInv'
    BY <1>3, StartRunKeeps, PinSelectionKeeps, OpenKeeps
<1>4. ASSUME NEW s \in Sessions, NEW trigger \in Triggers, NEW action \in Actions,
             Record(s, trigger, action)
      PROVE  CalibrationInv'
    BY <1>4, RecordKeeps
<1>5. ASSUME NEW s \in Sessions, NEW outcome \in Outcomes, Evaluate(s, outcome)
      PROVE  CalibrationInv'
    BY <1>5, EvaluateKeeps
<1>6. ASSUME NEW s \in Sessions, Snapshot(s) \/ Stop(s)
      PROVE  CalibrationInv'
    BY <1>6, SnapshotKeeps, StopKeeps
<1>7. ASSUME NEW s \in Sessions, NEW i \in DOMAIN journal[s], Damage(s, i)
      PROVE  CalibrationInv'
    BY <1>7, DamageKeeps
<1>8. CASE Tick \/ UNCHANGED calibrationVars
    <2>1. clock \in Nat
        BY DEF CalibrationInv, Typed
    <2>2. clock' \in Nat /\ clock <= clock' /\ UNCHANGED <<journal, phase, boot, live>>
        BY <1>8, <2>1 DEF Tick, calibrationVars
    <2> QED BY <2>2, TickKeeps
<1> QED BY <1>1, <1>2, <1>3, <1>4, <1>5, <1>6, <1>7, <1>8 DEF CalibrationNext, Outcomes

(* The invariant of calibration *)
THEOREM CalibrationInvariant == CalibrationSpec => []CalibrationInv
<1>1. CalibrationInit => CalibrationInv
    BY CalibrationStarts
<1>2. CalibrationInv /\ [CalibrationNext]_calibrationVars => CalibrationInv'
    BY CalibrationSteps
<1> QED BY <1>1, <1>2, PTL DEF CalibrationSpec

-----------------------------------------------------------------------------
(* The properties *)

(* A selection that can be loaded is one the session has learned. *)
LEMMA LoadedIsLearned ==
    ASSUME CalibrationInv, NEW s \in Sessions, SelectionOf(Load(journal[s])) # None
    PROVE  /\ SelectionOf(Load(journal[s])) \in Selected
           /\ Learned(s, SelectionOf(Load(journal[s])))
           /\ journal[s] # <<>>
<1>1. Typed /\ Sound(s) /\ journal[s] \in Seq(Fact)
    BY DEF CalibrationInv, Typed
<1> DEFINE x == SelectionOf(Load(journal[s]))
<1>2. PICK i \in OfType(journal[s], "selected") : x = journal[s][i].selection
    BY <1>1, LoadedSelection
<1>3. x \in Selections(s)
    BY <1>1, <1>2, SelectionsType
<1>4. journal[s] # <<>>
    BY <1>2 DEF OfType
<1> HIDE DEF x
<1>5. x # None
    BY DEF x
<1>6. x \in Selected /\ Learned(s, x)
    BY <1>1, <1>3, <1>5, SelectionsType DEF Sound
<1> QED BY <1>4, <1>6 DEF x

(* A journal that is neither damaged nor of a branch can be resumed. *)
THEOREM ResumeIsAccepted == CalibrationSpec => []ResumeAccepted
<1>1. CalibrationInv => ResumeAccepted
    <2> SUFFICES ASSUME CalibrationInv, NEW s \in Sessions, Ordinary(s)
                 PROVE  Diagnosed(journal[s]) /\ ReplayFrom(Empty, journal[s]).ok
        BY DEF ResumeAccepted
    <2>1. journal[s] \in Seq(Fact) /\ Faithful(s, journal[s]) /\ Named(journal[s]) /\ Intact(journal[s])
        BY DEF CalibrationInv, Typed, Sound, Ordinary
    <2>2. Diagnosed(journal[s])
        BY <2>1, FaithfulIsDiagnosed
    <2>3. ReplayFrom(Empty, journal[s]) = Fresh(At(journal[s], Len(journal[s])))
        BY <2>1, FaithfulSteps
    <2> QED BY <2>2, <2>3 DEF Fresh
<1> QED BY <1>1, CalibrationInvariant, PTL

(* The state of a running session is the full replay of its journal. *)
THEOREM RunningIsReplayed == CalibrationSpec => []LiveIsReplay
<1>1. CalibrationInv => LiveIsReplay
    <2> SUFFICES ASSUME CalibrationInv, NEW s \in Sessions, phase[s] = "running", Ordinary(s)
                 PROVE  live[s] = ReplayFrom(Empty, journal[s]).state
        BY DEF LiveIsReplay
    <2>1. /\ journal[s] \in Seq(Fact) /\ Faithful(s, journal[s])
          /\ live[s] = At(journal[s], Len(journal[s]))
        BY DEF CalibrationInv, Typed, Sound, LiveFits
    <2>2. ReplayFrom(Empty, journal[s]) = Fresh(At(journal[s], Len(journal[s])))
        BY <2>1, FaithfulSteps
    <2> QED BY <2>1, <2>2 DEF Fresh
<1> QED BY <1>1, CalibrationInvariant, PTL

(* What a session learned from happened before it began. *)
THEOREM LearnsFromThePast == CalibrationSpec => []HistoryIsPast
<1>1. CalibrationInv => HistoryIsPast
    <2> SUFFICES ASSUME CalibrationInv, NEW s \in Sessions, NEW x, x = SelectionOf(Load(journal[s])),
                        Ordinary(s), x # None, NEW a \in x.sources
                 PROVE  /\ a.session # s
                        /\ Intact(journal[a.session]) =>
                            \A i \in OfType(journal[a.session], "evaluated") :
                                journal[a.session][i].id \in {y.id : y \in a.samples}
                                    => journal[a.session][i].time <= journal[s][1].time
        BY DEF HistoryIsPast
    <2>1. x \in Selected /\ Learned(s, x) /\ journal[s] # <<>>
        BY LoadedIsLearned
    <2>2. a \in SourceType /\ a.session \in Sessions /\ a.through \in Nat /\ x.cutoff \in Nat
        BY <2>1, SourcesOf DEF Learned
    <2>3. a.session # s /\ (Intact(journal[a.session]) => SourceFits(a, x.cutoff))
        BY <2>1 DEF Learned
    <2>4. Typed /\ Sound(s) /\ Sound(a.session)
        BY <2>2 DEF CalibrationInv
    <2>5. journal[s] \in Seq(Fact) /\ journal[a.session] \in Seq(Fact)
        BY <2>2, <2>4 DEF Typed
    <2>6. journal[s][1] \in Fact /\ journal[s][1].type # "corrupt"
        <3>1. 1 \in DOMAIN journal[s]
            BY <2>1, <2>5
        <3>2. journal[s][1].type # "corrupt"
            BY <3>1 DEF Ordinary, Intact, OfType
        <3> QED BY <2>5, <3>1, <3>2
    <2>7. x.cutoff <= journal[s][1].time /\ journal[s][1].time \in Nat
        BY <2>1, <2>6, FactTime DEF Learned
    <2> SUFFICES ASSUME Intact(journal[a.session]), NEW i \in OfType(journal[a.session], "evaluated"),
                        NEW y \in a.samples, journal[a.session][i].id = y.id
                 PROVE  journal[a.session][i].time <= journal[s][1].time
        BY <2>3
    <2> DEFINE J == journal[a.session]
               n == Len(J)
               m == a.through
    <2>8. /\ m <= n /\ OfType(J, "branch") = {}
          /\ Lifecycle(a.session, SubSeq(J, 1, m)).samples = a.samples
          /\ \A k \in 1..m : J[k].time <= x.cutoff
        BY <2>3 DEF SourceFits
    <2>9. i \in 1..n /\ J[i].type = "evaluated" /\ n \in Nat /\ m \in 0..n
        BY <2>2, <2>5, <2>8 DEF OfType
    <2>10. Faithful(a.session, J) /\ Named(J)
        BY <2>4, <2>8 DEF Sound, Ordinary
    <2> HIDE DEF J
    <2>11. Replayed(J, n)
        <3>1. n \in 0..Len(J)
            BY <2>9
        <3> QED BY <2>5, <2>10, <3>1, ReplayedAlways DEF J
    <2>12. Sampled(a.session, SubSeq(J, 1, m))
        <3>1. SubSeq(J, 1, m) \in Seq(Fact)
            BY <2>5, <2>9 DEF J
        <3> QED BY <2>2, <3>1, LifeSamples
    <2>13. PICK k \in 1..Len(SubSeq(J, 1, m)) :
              SubSeq(J, 1, m)[k].type = "evaluated" /\ SubSeq(J, 1, m)[k].id = y.id
        BY <2>8, <2>12 DEF Sampled
    <2>14. k \in 1..m /\ k \in 1..n /\ SubSeq(J, 1, m)[k] = J[k]
        BY <2>5, <2>9 DEF J
    <2>15. i = k
        <3>1. J[i].id = y.id
            BY DEF J
        <3> HIDE DEF n
        <3> QED BY <2>9, <2>11, <2>13, <2>14, <3>1 DEF Replayed
    <2>16. J[i].time <= x.cutoff
        BY <2>8, <2>14, <2>15
    <2>17. J[i].time \in Nat
        <3>1. J[i] \in Fact
            BY <2>5, <2>9 DEF J
        <3> QED BY <2>9, <3>1, FactTime
    <2>18. J[i].time <= journal[s][1].time
        BY <2>2, <2>7, <2>16, <2>17
    <2> QED BY <2>18 DEF J
<1> QED BY <1>1, CalibrationInvariant, PTL

(* The sources of a selection can be audited later. *)
THEOREM SourcesCanBeAudited == CalibrationSpec => []ProvenanceHolds
<1>1. CalibrationInv => ProvenanceHolds
    <2> SUFFICES ASSUME CalibrationInv, NEW s \in Sessions, NEW x, x = SelectionOf(Load(journal[s])),
                        x # None, NEW a \in x.sources, Intact(journal[a.session])
                 PROVE  Lifecycle(a.session, SubSeq(journal[a.session], 1, a.through)).samples = a.samples
        BY DEF ProvenanceHolds
    <2>1. Learned(s, x)
        BY LoadedIsLearned
    <2> QED BY <2>1 DEF Learned, SourceFits
<1> QED BY <1>1, CalibrationInvariant, PTL

-----------------------------------------------------------------------------
(* Types *)

(* What CalibrationTypeOK says of a session besides the types *)
Booked(s) ==
    /\ phase[s] = "new" <=> journal[s] = <<>> /\ boot[s] = NoBoot
    /\ phase[s] # "running" => live[s] = Empty

Counted == clock \in 0..MaxClock /\ used \in [Budgets -> Nat] /\ \A b \in Budgets : used[b] <= MaxUsed[b]

TypeInv == CalibrationInv /\ Counted /\ \A s \in Sessions : Booked(s)

(* A budget is used while it lasts. *)
LEMMA UseCounts ==
    ASSUME Counted, NEW budgets, Use(budgets)
    PROVE  used' \in [Budgets -> Nat] /\ \A b \in Budgets : used'[b] <= MaxUsed[b]
<1>1. used \in [Budgets -> Nat] /\ MaxUsed \in [Budgets -> Nat] /\ \A b \in Budgets : used[b] <= MaxUsed[b]
    BY BoundsAssumption DEF Counted
<1>2. used' = [b \in Budgets |-> used[b] + IF b \in budgets THEN 1 ELSE 0]
    BY DEF Use
<1>3. ASSUME NEW b \in Budgets
      PROVE  used'[b] \in Nat /\ used'[b] <= MaxUsed[b]
    <2>1. used[b] \in Nat /\ MaxUsed[b] \in Nat /\ used[b] <= MaxUsed[b]
        BY <1>1
    <2>2. CASE b \in budgets
        <3>1. used[b] < MaxUsed[b]
            BY <2>2 DEF Use
        <3>2. used'[b] = used[b] + 1
            BY <1>2, <2>2
        <3> QED BY <2>1, <3>1, <3>2
    <2>3. CASE b \notin budgets
        <3>1. used'[b] = used[b] + 0
            BY <1>2, <2>3
        <3> QED BY <2>1, <3>1
    <2> QED BY <2>2, <2>3
<1> QED BY <1>2, <1>3

(* A step of one session books another as before. *)
LEMMA OnlyBooks ==
    ASSUME TypeInv, NEW s \in Sessions, Only(s), Booked(s)', Counted', CalibrationInv'
    PROVE  TypeInv'
<1>1. \A t \in Sessions \ {s} : Booked(t)'
    BY DEF TypeInv, Booked, Only
<1> QED BY <1>1 DEF TypeInv

(* A boot leaves a session that is neither new nor running. *)
LEMMA StartBooks ==
    ASSUME TypeInv, CalibrationInv', NEW s \in Sessions, phase[s] # "running", NEW from \in Sessions,
           NEW enabled, NEW readable, Start(s, from, enabled, readable)
    PROVE  TypeInv'
<1>1. Typed /\ Booked(s) /\ Counted
    BY DEF TypeInv, CalibrationInv
<1>2. PICK b :
        /\ b.from = from /\ boot' = [boot EXCEPT ![s] = b]
        /\ phase' = [phase EXCEPT ![s] = "booting"]
        /\ journal' = journal /\ live' = live /\ clock' = clock
        /\ Use(IF readable THEN {"boots"} ELSE {"boots", "faults"})
    <2>1. PICK selection, pinned, n :
            /\ boot' = [boot EXCEPT ![s] = [selection |-> selection, pinned |-> pinned,
                    enabled |-> enabled, from |-> from, length |-> n]]
            /\ phase' = [phase EXCEPT ![s] = "booting"]
            /\ journal' = journal /\ live' = live /\ clock' = clock
            /\ Use(IF readable THEN {"boots"} ELSE {"boots", "faults"})
        BY Zenon DEF Start
    <2> DEFINE held == [selection |-> selection, pinned |-> pinned, enabled |-> enabled,
                        from |-> from, length |-> n]
    <2>2. held.from = from /\ boot' = [boot EXCEPT ![s] = held]
        BY <2>1
    <2> HIDE DEF held
    <2> QED BY <2>1, <2>2
<1>3. /\ Only(s) /\ boot'[s] = b /\ phase'[s] = "booting" /\ live'[s] = live[s]
    BY <1>1, <1>2 DEF Typed, Only
<1>4. boot'[s] # NoBoot
    <2>1. NoBoot.from = 0 /\ from # 0
        BY SessionsAssumption DEF NoBoot
    <2> QED BY <1>2, <1>3, <2>1
<1>5. Booked(s)'
    BY <1>1, <1>3, <1>4 DEF Booked
<1>6. Counted'
    BY <1>1, <1>2, UseCounts DEF Counted
<1> QED BY <1>3, <1>5, <1>6, OnlyBooks

(* So does every other step of a session that is not new. *)
LEMMA SessionBooks ==
    ASSUME TypeInv, CalibrationInv', NEW s \in Sessions,
           StartRun(s) \/ PinSelection(s) \/ Open(s) \/ Stop(s)
    PROVE  TypeInv'
<1>1. Typed /\ Booked(s) /\ Counted /\ BootFits(s) /\ Typed' /\ BootFits(s)'
    BY DEF TypeInv, CalibrationInv, Sound
<1>2. Counted'
    BY <1>1 DEF Counted, StartRun, PinSelection, Open, Stop
<1>3. CASE StartRun(s) \/ PinSelection(s)
    <2>1. /\ phase[s] # "running" /\ phase'[s] \in {"started", "opening"} /\ live' = live
          /\ Only(s)
        BY <1>1, <1>3 DEF StartRun, PinSelection, AppendTo, Typed, Only
    <2>2. Booked(s)'
        BY <1>1, <2>1 DEF Booked, BootFits
    <2> QED BY <1>2, <2>1, <2>2, OnlyBooks
<1>4. CASE Open(s)
    <2>1. phase'[s] = "running" \/ (phase'[s] = "failed" /\ live' = live)
        BY <1>1, <1>4 DEF Open, Typed
    <2>2. phase[s] = "opening" /\ Only(s)
        BY <1>1, <1>4 DEF Open, AppendTo, Typed, Only
    <2>3. journal'[s] # <<>>
        <3>1. CASE journal' = journal
            BY <1>1, <2>2, <3>1 DEF BootFits
        <3>2. CASE AppendTo(s, [type |-> "branch", time |-> clock])
            <4> DEFINE f == [type |-> "branch", time |-> clock]
            <4>1. f \in Fact
                BY <1>1 DEF Typed, Fact
            <4> HIDE DEF f
            <4>2. journal'[s] = Append(journal[s], f) /\ journal[s] \in Seq(Fact)
                BY <1>1, <3>2, <4>1, AppendIs DEF Typed, f
            <4> QED BY <4>1, <4>2
        <3> QED BY <1>4, <3>1, <3>2 DEF Open
    <2>4. Booked(s)'
        BY <1>1, <2>1, <2>2, <2>3 DEF Booked
    <2> QED BY <1>2, <2>2, <2>4, OnlyBooks
<1>5. CASE Stop(s)
    <2>1. /\ phase'[s] = IF journal[s] = <<>> THEN "new" ELSE "down"
          /\ boot'[s] = NoBoot /\ live'[s] = Empty /\ journal' = journal /\ Only(s)
        BY <1>1, <1>5 DEF Stop, Typed, Only
    <2>2. Booked(s)'
        BY <2>1 DEF Booked
    <2> QED BY <1>2, <2>1, <2>2, OnlyBooks
<1> QED BY <1>3, <1>4, <1>5

(* A running session that writes *)
LEMMA WriteBooks ==
    ASSUME TypeInv, CalibrationInv', NEW s \in Sessions, phase[s] = "running", NEW f, Write(s, f), Counted'
    PROVE  TypeInv'
<1>1. Typed /\ BootFits(s)' /\ phase' = phase
    BY DEF TypeInv, CalibrationInv, Sound, Write
<1>2. phase'[s] = "running" /\ Only(s)
    BY <1>1 DEF Write, AppendTo, Typed, Only
<1>3. Booked(s)'
    BY <1>1, <1>2 DEF Booked, BootFits
<1> QED BY <1>2, <1>3, OnlyBooks

(* One whose journal is damaged *)
LEMMA DamageBooks ==
    ASSUME TypeInv, CalibrationInv', NEW s \in Sessions, NEW i \in DOMAIN journal[s], Damage(s, i)
    PROVE  TypeInv'
<1>1. Typed /\ Booked(s) /\ Counted /\ phase[s] = "down"
    BY DEF TypeInv, CalibrationInv, Damage
<1>2. Only(s) /\ phase'[s] = phase[s] /\ boot'[s] = boot[s] /\ live'[s] = live[s] /\ clock' = clock
    BY <1>1 DEF Damage, Typed, Only
<1>3. journal'[s] # <<>>
    <2>1. i \in DOMAIN journal'[s]
        BY <1>1 DEF Damage, Typed
    <2> QED BY <2>1
<1>4. Booked(s)'
    BY <1>1, <1>2, <1>3 DEF Booked
<1>5. Counted'
    BY <1>1, <1>2, UseCounts DEF Damage, Counted
<1> QED BY <1>2, <1>4, <1>5, OnlyBooks

(* The types hold at the start. *)
LEMMA TypeInvInit ==
    ASSUME CalibrationInit
    PROVE  TypeInv
<1>1. Counted
    BY BoundsAssumption DEF CalibrationInit, Counted
<1>2. \A s \in Sessions : Booked(s)
    BY DEF CalibrationInit, Booked
<1> QED BY <1>1, <1>2, CalibrationStarts DEF TypeInv

(* Every step keeps them. *)
LEMMA TypeInvNext ==
    ASSUME TypeInv, [CalibrationNext]_calibrationVars
    PROVE  TypeInv'
<1>1. CalibrationInv' /\ Counted
    BY CalibrationSteps DEF TypeInv
<1>2. ASSUME NEW s \in Sessions, NEW enabled \in BOOLEAN, NEW readable \in BOOLEAN,
             Boot(s, enabled, readable)
      PROVE  TypeInv'
    <2>1. phase[s] # "running" /\ Start(s, s, enabled, readable)
        BY <1>2 DEF Boot, NextId
    <2> QED BY <1>1, <2>1, StartBooks
<1>3. ASSUME NEW s \in Sessions, NEW from \in Sessions, NEW enabled \in BOOLEAN,
             Fork(s, from, enabled)
      PROVE  TypeInv'
    <2>1. phase[s] # "running" /\ Start(s, from, enabled, TRUE)
        BY <1>3 DEF Fork, NextId
    <2> QED BY <1>1, <2>1, StartBooks
<1>4. ASSUME NEW s \in Sessions, StartRun(s) \/ PinSelection(s) \/ Open(s) \/ Stop(s)
      PROVE  TypeInv'
    BY <1>1, <1>4, SessionBooks
<1>5. ASSUME NEW s \in Sessions, NEW trigger \in Triggers, NEW action \in Actions,
             Record(s, trigger, action)
      PROVE  TypeInv'
    <2>1. PICK f : phase[s] = "running" /\ Write(s, f) /\ Use({"reflections"})
        BY <1>5 DEF Record
    <2>2. Counted'
        BY <1>1, <2>1, UseCounts DEF Write, Counted
    <2> QED BY <1>1, <2>1, <2>2, WriteBooks
<1>6. ASSUME NEW s \in Sessions, NEW outcome \in Outcomes, Evaluate(s, outcome)
      PROVE  TypeInv'
    <2>1. PICK f : phase[s] = "running" /\ Write(s, f) /\ used' = used
        BY <1>6 DEF Evaluate
    <2>2. Counted'
        BY <1>1, <2>1 DEF Write, Counted
    <2> QED BY <1>1, <2>1, <2>2, WriteBooks
<1>7. ASSUME NEW s \in Sessions, Snapshot(s)
      PROVE  TypeInv'
    <2>1. PICK f : phase[s] = "running" /\ Write(s, f) /\ Use({"snapshots"})
        BY <1>7 DEF Snapshot
    <2>2. Counted'
        BY <1>1, <2>1, UseCounts DEF Write, Counted
    <2> QED BY <1>1, <2>1, <2>2, WriteBooks
<1>8. ASSUME NEW s \in Sessions, NEW i \in DOMAIN journal[s], Damage(s, i)
      PROVE  TypeInv'
    BY <1>1, <1>8, DamageBooks
<1>9. CASE Tick \/ UNCHANGED calibrationVars
    <2>1. journal' = journal /\ phase' = phase /\ boot' = boot /\ live' = live
        BY <1>9 DEF Tick, calibrationVars
    <2>2. \A s \in Sessions : Booked(s)'
        BY <2>1 DEF TypeInv, Booked
    <2>3. Counted'
        <3>1. MaxClock \in Nat
            BY BoundsAssumption
        <3> QED BY <1>1, <1>9, <3>1 DEF Tick, calibrationVars, Counted
    <2> QED BY <1>1, <2>2, <2>3 DEF TypeInv
<1> QED BY <1>2, <1>3, <1>4, <1>5, <1>6, <1>7, <1>8, <1>9 DEF CalibrationNext, Outcomes

(* The variables have their types in every reachable state. *)
THEOREM CalibrationTypes == CalibrationSpec => []CalibrationTypeOK
<1>1. CalibrationInit => TypeInv
    BY TypeInvInit
<1>2. TypeInv /\ [CalibrationNext]_calibrationVars => TypeInv'
    BY TypeInvNext
<1>3. TypeInv => CalibrationTypeOK
    <2> SUFFICES ASSUME TypeInv
                 PROVE  CalibrationTypeOK
        OBVIOUS
    <2>1. phase \in [Sessions -> Phases] /\ clock \in 0..MaxClock
        BY DEF TypeInv, CalibrationInv, Typed, Counted
    <2>2. \A b \in Budgets : used[b] \in 0..MaxUsed[b]
        BY BoundsAssumption DEF TypeInv, Counted
    <2>3. ASSUME NEW s \in Sessions
          PROVE  /\ phase[s] = "new" <=> journal[s] = <<>> /\ boot[s] = NoBoot
                 /\ boot[s].pinned => boot[s].selection # None
                 /\ phase[s] # "running" => live[s] = Empty
                 /\ \A r \in live[s].reflections : r.window \in 1..20
        <3>1. Booked(s) /\ BootFits(s) /\ live[s] \in State
            BY DEF TypeInv, CalibrationInv, Sound, Typed
        <3>2. \A r \in live[s].reflections : r.window \in 1..20
            BY <3>1 DEF State, Reflection
        <3> QED BY <3>1, <3>2 DEF Booked, BootFits
    <2> QED BY <2>1, <2>2, <2>3 DEF CalibrationTypeOK
<1> QED BY <1>1, <1>2, <1>3, PTL DEF CalibrationSpec
==============================================================================
