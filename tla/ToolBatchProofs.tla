--------------------------- MODULE ToolBatchProofs ---------------------------
(***************************************************************************)
(* Theorems about a batch of tool calls, for any calls, files, rules and   *)
(* number of failing writes: calls that run side by side give what one     *)
(* after the other would give, patches are atomic, and nothing is written  *)
(* without consent.                                                        *)
(***************************************************************************)
EXTENDS ToolBatch, TLAPS

CallPhases == {"waiting", "gates", "asking", "allowed", "executing", "rollback", "done"}
Results == {"none", "ok", "failed", "refused", "denied", "aborted", "rollback failed"}

(* The batch is one of the assumed form, and every call has its entry in    *)
(* each of the functions.                                                   *)
WellFormed ==
    /\ TypeOK
    /\ calls \in Seq(ToolCall) /\ \A i \in Index : OwnFiles(calls[i])
    /\ env \in Conditions
    /\ DOMAIN seen = Index

(* Two calls the scheduler must not run at the same time *)
Clash(i, j) == IsExclusive(calls[i]) \/ Conflicts(Claims(calls[i]), Claims(calls[j]))

(* The scheduler starts the calls in their order; the ones since the last   *)
(* drain are running, an interval whose members do not clash, and all that  *)
(* were started before it are done.                                         *)
Scheduled ==
    /\ \A i \in Index : phase[i] = "waiting" <=> launched < i
    /\ \A i \in running : i <= launched
    /\ \A i \in Index : i <= launched => Done(i) \/ i \in running
    /\ \A i \in running, j \in Index : i <= j /\ j <= launched => j \in running
    /\ \A i, j \in running : i # j => ~ Clash(i, j)

(* A call touches files of its own only, after the gates admitted it. *)
Touched(i) == todo[i] \cup wrote[i] \cup DOMAIN seen[i]
Confined(i) ==
    /\ Touched(i) \subseteq calls[i].paths
    /\ phase[i] \in {"waiting", "gates", "asking", "allowed"} => Touched(i) = {}
    /\ phase[i] # "done" => result[i] = "none"
    /\ Touched(i) # {} \/ phase[i] \in {"asking", "allowed", "executing", "rollback"} =>
            Admitted(calls[i])
    /\ wrote[i] # {} => Writes(calls[i])
    /\ phase[i] = "rollback" => calls[i].tool \in FileWriters

(* What a writer of files has written at each of its steps: the files it is *)
(* done with, in a rollback the ones not restored yet.                      *)
Accounted(i) ==
    calls[i].tool \in FileWriters =>
        /\ phase[i] = "executing" =>
                wrote[i] = calls[i].paths \ todo[i] /\ DOMAIN seen[i] = calls[i].paths
        /\ phase[i] = "rollback" => wrote[i] = todo[i] /\ DOMAIN seen[i] = calls[i].paths
        /\ Done(i) => \/ wrote[i] = IF result[i] = "ok" THEN calls[i].paths ELSE {}
                      \/ result[i] = "rollback failed"

(* n is the last of the calls before the given one that wrote p, or 0. *)
Latest(p, before, n) ==
    /\ n = 0 \/ (n \in Index /\ n < before /\ p \in wrote[n])
    /\ \A j \in Index : j < before /\ p \in wrote[j] => j <= n

FilesLatest == \A p \in DOMAIN files : Latest(p, Len(calls) + 1, files[p])
SeenLatest == \A i \in Index : \A p \in DOMAIN seen[i] : Latest(p, i, seen[i][p])

BatchInv ==
    /\ WellFormed
    /\ Scheduled
    /\ \A i \in Index : Confined(i) /\ Accounted(i)
    /\ FilesLatest
    /\ SeenLatest

-----------------------------------------------------------------------------
(* Which calls may be active at once. *)

(* The numbers of the calls are their positions. *)
LEMMA IndexIsRange ==
    ASSUME WellFormed
    PROVE  Index = 1..Len(calls) /\ Len(calls) \in Nat /\ launched \in 0..Len(calls)
<1>1. calls \in Seq(ToolCall) /\ launched \in 0..Len(calls)
    BY DEF WellFormed, TypeOK
<1> QED BY <1>1 DEF Index

(* Of two calls that touch the same file and one of which writes it, the    *)
(* scheduler never has both among the running.                              *)
LEMMA WritersClash ==
    ASSUME WellFormed, Scheduled,
           NEW i \in running, NEW j \in running, i # j,
           Admitted(calls[i]), Admitted(calls[j]), Writes(calls[i]),
           NEW p, p \in calls[i].paths, p \in calls[j].paths
    PROVE  FALSE
<1>0. i \in Index /\ j \in Index
    BY DEF WellFormed, TypeOK
<1>1. ~ Clash(i, j) /\ ~ Clash(j, i)
    BY DEF Scheduled
<1>2. Known(calls[i]) /\ Known(calls[j])
    BY DEF Admitted
<1>3. calls[i].tool = "RefreshCodeIndex"
    BY <1>1, <1>2 DEF Writes, Clash, IsExclusive, FileWriters
<1>4. p = IndexFile
    BY <1>0, <1>3 DEF WellFormed, OwnFiles, IndexTools
<1>5. calls[j].tool \in {"SearchCodeIndex", "RefreshCodeIndex"}
    BY <1>0, <1>1, <1>2, <1>4 DEF WellFormed, OwnFiles, IndexTools, Clash, IsExclusive
<1>6. Claim(IndexFile, "write") \in Claims(calls[i])
    BY <1>2, <1>3 DEF Claims
<1>7. \E y \in Claims(calls[j]) : y.resource = IndexFile
    BY <1>2, <1>5 DEF Claims, Claim
<1>8. Conflicts(Claims(calls[i]), Claims(calls[j]))
    BY <1>6, <1>7 DEF Conflicts, Overlaps, Claim
<1> QED BY <1>1, <1>8 DEF Clash

(* A call that is at work is running, and so is every call started after it. *)
LEMMA LaterIsRunning ==
    ASSUME WellFormed, Scheduled,
           NEW i \in Index, phase[i] \notin {"waiting", "done"},
           NEW j \in Index, i < j, phase[j] # "waiting"
    PROVE  i \in running /\ j \in running
<1>1. i <= launched /\ j <= launched
    BY IndexIsRange DEF Scheduled
<1>2. i \in running
    BY <1>1 DEF Scheduled, Done
<1> QED BY <1>1, <1>2, IndexIsRange DEF Scheduled

(* While a call is at work on a file, no later one has used the file, if    *)
(* one of the two writes it.                                                *)
LEMMA NoLaterUse ==
    ASSUME WellFormed, Scheduled, \A k \in Index : Confined(k),
           NEW i \in Index, phase[i] \notin {"waiting", "done"}, Admitted(calls[i]),
           NEW p \in calls[i].paths, NEW j \in Index, i < j
    PROVE  /\ p \notin wrote[j]
           /\ Writes(calls[i]) => p \notin DOMAIN seen[j]
<1>1. SUFFICES ASSUME p \in wrote[j] \/ (Writes(calls[i]) /\ p \in DOMAIN seen[j])
               PROVE  FALSE
    OBVIOUS
<1>2. p \in Touched(j) /\ p \in calls[j].paths
    BY <1>1 DEF Confined, Touched
<1>3. phase[j] # "waiting" /\ Admitted(calls[j])
    BY <1>2 DEF Confined
<1>4. i \in running /\ j \in running
    BY <1>3, LaterIsRunning
<1>5. i # j
    BY IndexIsRange
<1>6. Writes(calls[i]) \/ Writes(calls[j])
    BY <1>1 DEF Confined
<1> QED BY <1>2, <1>3, <1>4, <1>5, <1>6, WritersClash

-----------------------------------------------------------------------------
(* The schedule. *)

(* A step of call i, which is at work and does not go back to waiting *)
Moves(i) ==
    /\ i \in Index /\ phase[i] \notin {"waiting", "done"}
    /\ phase' \in [Index -> CallPhases] /\ phase'[i] # "waiting"
    /\ \A j \in Index : j # i => phase'[j] = phase[j]
    /\ UNCHANGED <<calls, env, launched, running>>

CallAction(i) ==
    \/ Check(i)
    \/ \E word \in {"yes", "always", "no"} : Answer(i, word)
    \/ \E matches \in BOOLEAN : Execute(i, matches)
    \/ \E p \in Paths \cup {IndexFile} : ReadFile(i, p) \/ WriteFile(i, p) \/ RestoreFile(i, p)
    \/ FailWrite(i) \/ FailRollback(i) \/ Finish(i) \/ Cancel(i)

(* The actions of a call only move that call. *)
LEMMA CallMoves ==
    ASSUME WellFormed, NEW i \in Index, CallAction(i)
    PROVE  Moves(i)
<1>0. phase \in [Index -> CallPhases]
    BY DEF WellFormed, TypeOK, CallPhases
<1>1. ASSUME NEW new \in CallPhases, new # "waiting", phase[i] \notin {"waiting", "done"},
             phase' = [phase EXCEPT ![i] = new], UNCHANGED <<calls, env, launched, running>>
      PROVE  Moves(i)
    BY <1>0, <1>1 DEF Moves
<1>2. ASSUME phase[i] \notin {"waiting", "done"},
             UNCHANGED <<phase, calls, env, launched, running>>
      PROVE  Moves(i)
    BY <1>0, <1>2 DEF Moves
<1>3. CASE Check(i)
    <2>1. \E new \in {"done", "allowed", "asking"} : phase' = [phase EXCEPT ![i] = new]
        <3> DEFINE c == calls[i]
        <3>1. CASE ~ Admitted(c)
            BY <1>3, <3>1 DEF Check, Settle
        <3>2. CASE Admitted(c) /\ Decide(c) \notin {"deny", "allow", "ask"}
            BY <3>2 DEF Decide, ResolveAsk, ApplyMode
        <3>3. CASE Admitted(c) /\ Decide(c) = "deny"
            BY <1>3, <3>3 DEF Check, Settle
        <3>4. CASE Admitted(c) /\ Decide(c) = "allow"
            BY <1>3, <3>4 DEF Check
        <3>5. CASE Admitted(c) /\ Decide(c) = "ask"
            BY <1>3, <3>5 DEF Check
        <3> QED BY <3>1, <3>2, <3>3, <3>4, <3>5
    <2> QED BY <1>1, <1>3, <2>1 DEF Check, CallPhases, callVars, schedule
<1>4. ASSUME NEW word \in {"yes", "always", "no"}, Answer(i, word)
      PROVE  Moves(i)
    BY <1>1, <1>4 DEF Answer, Settle, CallPhases, callVars, schedule
<1>5. ASSUME NEW matches \in BOOLEAN, Execute(i, matches)
      PROVE  Moves(i)
    BY <1>1, <1>5 DEF Execute, Settle, CallPhases, callVars, schedule
<1>6. ASSUME NEW p, ReadFile(i, p) \/ WriteFile(i, p) \/ RestoreFile(i, p)
      PROVE  Moves(i)
    BY <1>2, <1>6 DEF ReadFile, WriteFile, RestoreFile, callVars, schedule
<1>7. CASE FailWrite(i) \/ FailRollback(i) \/ Finish(i) \/ Cancel(i)
    BY <1>1, <1>7 DEF FailWrite, FailRollback, Finish, Cancel, Settle, CallPhases, callVars, schedule
<1> QED BY <1>3, <1>4, <1>5, <1>6, <1>7 DEF CallAction

(* What a step is: the start of a call, a step of a call, or one that       *)
(* touches neither calls nor files.                                         *)
LEMMA StepKinds ==
    ASSUME [Next]_vars
    PROVE  \/ StartCall
           \/ \E i \in Index : CallAction(i)
           \/ UNCHANGED <<calls, env, rules, launched, running, phase, todo, seen, wrote, result,
                          prompt, said, files, faults>>
BY DEF Next, CallAction, Abort, Emit, Settled, vars, callVars, schedule

(* Started calls are an interval whose members do not clash: a call that    *)
(* clashes with a running one waits for all of them.                        *)
LEMMA ScheduleStep ==
    ASSUME WellFormed, Scheduled, [Next]_vars
    PROVE  Scheduled'
<1>0. /\ Index = 1..Len(calls) /\ Len(calls) \in Nat /\ launched \in 0..Len(calls)
      /\ running \subseteq Index
    BY IndexIsRange DEF WellFormed, TypeOK
<1>1. CASE StartCall
    <2> DEFINE n == launched + 1
    <2>1. /\ n \in Index /\ launched' = n /\ calls' = calls
          /\ phase' = [phase EXCEPT ![n] = IF aborted THEN "done" ELSE "gates"]
        BY <1>1 DEF StartCall, callVars
    <2>2. Index' = Index /\ (\A i, j : Clash(i, j)' = Clash(i, j))
        BY <2>1 DEF Index, Clash
    <2>3. /\ phase'[n] # "waiting"
          /\ \A i \in Index : i # n => phase'[i] = phase[i]
        BY <2>1 DEF WellFormed, TypeOK
    <2>4. n \in running'
        BY <1>1 DEF StartCall
    <2>5. CASE Barrier(n)
        <3>1. running' = {n} /\ \A i \in running : Done(i)
            BY <1>1, <2>5 DEF StartCall
        <3>2. \A i \in Index : i < n => Done(i)
            BY <1>0, <3>1 DEF Scheduled
        <3> QED BY <1>0, <2>1, <2>2, <2>3, <3>1, <3>2 DEF Scheduled, Done
    <2>6. CASE ~ Barrier(n)
        <3>1. running' = running \cup {n}
            BY <1>1, <2>6 DEF StartCall
        <3>2. \A i \in running : ~ Clash(n, i) /\ ~ Clash(i, n)
            BY <2>6 DEF Barrier, Clash, Conflicts, Overlaps
        <3>3. \A i, j \in running' : i # j => ~ Clash(i, j)'
            BY <2>2, <3>1, <3>2 DEF Scheduled
        <3>4. \A i \in running' : i <= launched'
            BY <1>0, <2>1, <3>1 DEF Scheduled
        <3>5. \A i \in running', j \in Index : i <= j /\ j <= launched' => j \in running'
            BY <1>0, <2>1, <3>1 DEF Scheduled
        <3>6. \A i \in Index : i <= launched' => Done(i)' \/ i \in running'
            BY <1>0, <2>1, <2>3, <3>1 DEF Scheduled, Done
        <3>7. \A i \in Index : phase'[i] = "waiting" <=> launched' < i
            BY <1>0, <2>1, <2>3 DEF Scheduled
        <3> QED BY <2>2, <3>3, <3>4, <3>5, <3>6, <3>7 DEF Scheduled
    <2> QED BY <2>5, <2>6
<1>2. ASSUME NEW i \in Index, CallAction(i)
      PROVE  Scheduled'
    <2>1. Moves(i)
        BY <1>2, CallMoves
    <2>2. Index' = Index /\ (\A j, k : Clash(j, k)' = Clash(j, k))
        BY <2>1 DEF Moves, Index, Clash
    <2>3. i \in running
        BY <1>0, <2>1 DEF Moves, Scheduled, Done
    <2>4. \A j \in Index : phase'[j] = "waiting" <=> launched' < j
        BY <2>1 DEF Moves, Scheduled
    <2>5. \A j \in Index : j <= launched' => Done(j)' \/ j \in running'
        BY <2>1, <2>3 DEF Moves, Scheduled, Done
    <2> QED BY <2>1, <2>2, <2>4, <2>5 DEF Moves, Scheduled
<1>3. CASE UNCHANGED <<calls, launched, running, phase>>
    BY <1>3 DEF Scheduled, Done, Index, Clash
<1> QED BY <1>1, <1>2, <1>3, StepKinds

-----------------------------------------------------------------------------
(* What a step of a call leaves alone, and the types. *)

(* The entries of the other calls *)
Elsewhere(i) ==
    /\ \A j \in Index : j # i => /\ phase'[j] = phase[j] /\ todo'[j] = todo[j]
                                 /\ seen'[j] = seen[j] /\ wrote'[j] = wrote[j]
                                 /\ result'[j] = result[j]
    /\ UNCHANGED <<calls, env, launched, running>>

(* The entry of a call has its type. *)
Entry(i) ==
    /\ todo'[i] \in SUBSET DOMAIN files /\ wrote'[i] \in SUBSET DOMAIN files
    /\ DOMAIN seen'[i] \subseteq DOMAIN files
    /\ result'[i] \in Results

(* One call at a time changes, in its own entries. *)
Local(i) ==
    /\ Elsewhere(i) /\ Entry(i)
    /\ todo' = [j \in Index |-> todo'[j]] /\ wrote' = [j \in Index |-> wrote'[j]]
    /\ result' = [j \in Index |-> result'[j]] /\ DOMAIN seen' = Index

(* The components of TypeOK, one by one *)
LEMMA Types ==
    ASSUME WellFormed
    PROVE  /\ calls \in Seq(ToolCall) /\ env \in Conditions
           /\ phase \in [Index -> CallPhases]
           /\ todo \in [Index -> SUBSET DOMAIN files]
           /\ wrote \in [Index -> SUBSET DOMAIN files]
           /\ result \in [Index -> Results]
           /\ DOMAIN seen = Index /\ \A i \in Index : DOMAIN seen[i] \subseteq DOMAIN files
           /\ DOMAIN files = Paths \cup {IndexFile}
           /\ \A p \in DOMAIN files : files[p] \in {0} \cup Index
           /\ \A i \in Index : calls[i] \in ToolCall /\ calls[i].paths \subseteq DOMAIN files
<1>1. calls \in Seq(ToolCall) /\ DOMAIN files = Paths \cup {IndexFile}
    BY DEF WellFormed, TypeOK
<1>2. \A i \in Index : calls[i] \in ToolCall
    BY <1>1 DEF Index
<1>3. \A i \in Index : calls[i].paths \subseteq Paths \cup {IndexFile}
    BY <1>2 DEF ToolCall
<1> QED BY <1>1, <1>2, <1>3 DEF WellFormed, TypeOK, CallPhases, Results

(* Each action of a call is local to it. *)
LEMMA CallIsLocal ==
    ASSUME WellFormed, NEW i \in Index, CallAction(i)
    PROVE  Local(i)
<1> USE Types
<1>0. Moves(i)
    BY CallMoves
<1>1. CASE Check(i) \/ (\E word \in {"yes", "always", "no"} : Answer(i, word))
            \/ FailRollback(i) \/ Finish(i) \/ Cancel(i)
    <2>1. UNCHANGED <<todo, seen, wrote>>
        BY <1>1 DEF Check, Answer, FailRollback, Finish, Cancel
    <2>2. result' = result \/ \E x \in Results : result' = [result EXCEPT ![i] = x]
        <3>1. CASE Check(i)
            <4>1. Decide(calls[i]) \in {"deny", "allow", "ask"}
                BY DEF Decide, ResolveAsk, ApplyMode
            <4> QED BY <3>1, <4>1 DEF Check, Settle, Results
        <3>2. CASE \E word \in {"yes", "always", "no"} : Answer(i, word)
            BY <3>2 DEF Answer, Settle, Results
        <3>3. CASE FailRollback(i) \/ Finish(i) \/ Cancel(i)
            BY <3>3 DEF FailRollback, Finish, Cancel, Settle, Results
        <3> QED BY <1>1, <3>1, <3>2, <3>3
    <2> QED BY <1>0, <2>1, <2>2 DEF Local, Elsewhere, Entry, Moves
<1>2. ASSUME NEW matches \in BOOLEAN, Execute(i, matches)
      PROVE  Local(i)
    <2>1. UNCHANGED wrote
        BY <1>2 DEF Execute
    <2>2. CASE aborted \/ ~ matches
        <3>1. UNCHANGED <<todo, seen>> /\ \E x \in Results : result' = [result EXCEPT ![i] = x]
            BY <1>2, <2>2 DEF Execute, Settle, Results
        <3> QED BY <1>0, <2>1, <3>1 DEF Local, Elsewhere, Entry, Moves
    <2>3. CASE ~ aborted /\ matches
        <3>1. /\ todo' = [todo EXCEPT ![i] = calls[i].paths] /\ UNCHANGED result
              /\ \E S \in SUBSET calls[i].paths : seen' = [seen EXCEPT ![i] = [p \in S |-> files[p]]]
            BY <1>2, <2>3 DEF Execute
        <3> QED BY <1>0, <2>1, <3>1 DEF Local, Elsewhere, Entry, Moves
    <2> QED BY <2>2, <2>3
<1>3. ASSUME NEW p \in Paths \cup {IndexFile}, ReadFile(i, p)
      PROVE  Local(i)
    <2>1. /\ todo' = [todo EXCEPT ![i] = @ \ {p}] /\ UNCHANGED <<wrote, result>>
          /\ seen' = [seen EXCEPT ![i] = [q \in DOMAIN seen[i] \cup {p} |->
                                              IF q = p THEN files[p] ELSE seen[i][q]]]
        BY <1>3 DEF ReadFile
    <2> QED BY <1>0, <2>1 DEF Local, Elsewhere, Entry, Moves
<1>4. ASSUME NEW p \in Paths \cup {IndexFile}, WriteFile(i, p)
      PROVE  Local(i)
    <2>1. /\ todo' = [todo EXCEPT ![i] = @ \ {p}] /\ UNCHANGED <<seen, result>>
          /\ wrote' = [wrote EXCEPT ![i] = @ \cup {p}]
        BY <1>4 DEF WriteFile
    <2> QED BY <1>0, <2>1 DEF Local, Elsewhere, Entry, Moves
<1>5. ASSUME NEW p \in Paths \cup {IndexFile}, RestoreFile(i, p)
      PROVE  Local(i)
    <2>1. /\ todo' = [todo EXCEPT ![i] = @ \ {p}] /\ UNCHANGED <<seen, result>>
          /\ wrote' = [wrote EXCEPT ![i] = @ \ {p}]
        BY <1>5 DEF RestoreFile
    <2> QED BY <1>0, <2>1 DEF Local, Elsewhere, Entry, Moves
<1>6. CASE FailWrite(i)
    <2>1. /\ todo' = [todo EXCEPT ![i] = calls[i].paths \ todo[i]]
          /\ UNCHANGED <<seen, wrote, result>>
        BY <1>6 DEF FailWrite
    <2> QED BY <1>0, <2>1 DEF Local, Elsewhere, Entry, Moves
<1> QED BY <1>1, <1>2, <1>3, <1>4, <1>5, <1>6 DEF CallAction

(* The rules a prompt adds are rules to allow, dated by its call. *)
LEMMA RulesGrow ==
    ASSUME NEW i \in Index, CallAction(i)
    PROVE  /\ rules \subseteq rules'
           /\ \A r \in rules' \ rules : r.effect = "allow" /\ r.since = i /\ phase[i] = "asking"
<1>1. \A r \in Proposed(i) : r.effect = "allow" /\ r.since = i
    BY DEF Proposed
<1>2. CASE UNCHANGED rules
    BY <1>2
<1>3. ASSUME NEW word \in {"yes", "always", "no"}, Answer(i, word)
      PROVE  \/ UNCHANGED rules
             \/ phase[i] = "asking" /\ \E S \in SUBSET Proposed(i) : rules' = rules \cup S
    BY <1>3 DEF Answer
<1>4. (\E word \in {"yes", "always", "no"} : Answer(i, word)) \/ UNCHANGED rules
    BY DEF CallAction, Check, Execute, ReadFile, WriteFile, RestoreFile, FailWrite,
           FailRollback, Finish, Cancel
<1> QED BY <1>1, <1>2, <1>3, <1>4

(* The types are kept. *)
LEMMA WellFormedStep ==
    ASSUME BatchInv, [Next]_vars
    PROVE  WellFormed'
<1> USE Types DEF BatchInv
<1>0. Index = 1..Len(calls) /\ Len(calls) \in Nat /\ launched \in 0..Len(calls)
    BY IndexIsRange
<1>1. CASE StartCall
    <2>1. /\ launched' = launched + 1 /\ launched + 1 \in Index
          /\ running' \subseteq running \cup {launched + 1}
          /\ \E new \in CallPhases : phase' = [phase EXCEPT ![launched + 1] = new]
          /\ UNCHANGED <<calls, env, rules, todo, seen, wrote, result, prompt, said, files,
                         faults>>
        BY <1>1 DEF StartCall, CallPhases, callVars
    <2>2. phase' \in [Index -> CallPhases]
        BY <2>1
    <2>3. Index' = Index /\ launched' \in 0..Len(calls) /\ running' \subseteq Index
        <3>1. Index' = Index /\ running \subseteq Index
            BY <2>1 DEF Index, WellFormed, TypeOK
        <3> QED BY <1>0, <2>1, <3>1
    <2>4. TypeOK'
        BY <2>1, <2>2, <2>3 DEF WellFormed, TypeOK, CallPhases
    <2> QED BY <2>1, <2>3, <2>4 DEF WellFormed
<1>2. ASSUME NEW i \in Index, CallAction(i)
      PROVE  WellFormed'
    <2>1. Moves(i) /\ Local(i)
        BY <1>2, CallMoves, CallIsLocal
    <2>2. prompt' \in {0} \cup Index /\ said' \subseteq Index /\ faults' \in 0..MaxFaults
        <3>1. prompt \in {0} \cup Index /\ said \subseteq Index /\ faults \in 0..MaxFaults
            BY DEF WellFormed, TypeOK
        <3>2. CASE Check(i)
            <4>1. Decide(calls[i]) \in {"deny", "allow", "ask"}
                BY DEF Decide, ResolveAsk, ApplyMode
            <4> QED BY <3>1, <3>2, <4>1 DEF Check
        <3>3. CASE \E word \in {"yes", "always", "no"} : Answer(i, word)
            BY <3>1, <3>3 DEF Answer
        <3>4. CASE FailWrite(i) \/ FailRollback(i)
            <4>1. faults < MaxFaults /\ faults' = faults + 1 /\ UNCHANGED <<prompt, said>>
                BY <3>4 DEF FailWrite, FailRollback
            <4>2. faults' \in 0..MaxFaults
                BY <3>1, <4>1, FaultsAssumption
            <4> QED BY <3>1, <4>1, <4>2
        <3>5. CASE UNCHANGED <<prompt, said, faults>>
            BY <3>1, <3>5
        <3> QED BY <1>2, <3>2, <3>3, <3>4, <3>5
                DEF CallAction, Execute, ReadFile, WriteFile, RestoreFile, Finish, Cancel
    <2>3. files' \in [Paths \cup {IndexFile} -> {0} \cup Index]
        <3>1. files \in [Paths \cup {IndexFile} -> {0} \cup Index]
            BY DEF WellFormed, TypeOK
        <3>2. ASSUME NEW p, WriteFile(i, p)
              PROVE  files' \in [Paths \cup {IndexFile} -> {0} \cup Index]
            BY <3>1, <3>2 DEF WriteFile
        <3>3. ASSUME NEW p, RestoreFile(i, p)
              PROVE  files' \in [Paths \cup {IndexFile} -> {0} \cup Index]
            <4>1. p \in DOMAIN seen[i]
                BY <3>3 DEF RestoreFile, Confined, Accounted, Touched
            <4>2. seen[i][p] \in {0} \cup Index
                BY <4>1 DEF SeenLatest, Latest
            <4> QED BY <3>1, <3>3, <4>2 DEF RestoreFile
        <3>4. CASE UNCHANGED files
            BY <3>1, <3>4
        <3> QED BY <1>2, <3>2, <3>3, <3>4
                DEF CallAction, Check, Answer, Execute, ReadFile, FailWrite, FailRollback,
                    Finish, Cancel
    <2>4. Index' = Index /\ DOMAIN files' = DOMAIN files
        BY <2>1, <2>3 DEF Moves, Index
    <2>5. \A j \in Index : /\ todo'[j] \in SUBSET DOMAIN files /\ wrote'[j] \in SUBSET DOMAIN files
                           /\ result'[j] \in Results /\ DOMAIN seen'[j] \subseteq DOMAIN files
        BY <2>1 DEF Local, Elsewhere, Entry
    <2>6. /\ todo' \in [Index -> SUBSET DOMAIN files] /\ wrote' \in [Index -> SUBSET DOMAIN files]
          /\ result' \in [Index -> Results]
        BY <2>1, <2>5 DEF Local
    <2>7. phase' \in [Index -> CallPhases] /\ UNCHANGED <<calls, env, launched, running>>
        BY <2>1 DEF Moves
    <2>8. TypeOK'
        BY <2>2, <2>3, <2>4, <2>5, <2>6, <2>7 DEF TypeOK, WellFormed, CallPhases, Results
    <2> QED BY <2>1, <2>4, <2>7, <2>8 DEF WellFormed, Local
<1>3. CASE UNCHANGED <<calls, env, rules, launched, running, phase, todo, seen, wrote, result,
                       prompt, said, files, faults>>
    BY <1>3 DEF WellFormed, TypeOK, Index
<1> QED BY <1>1, <1>2, <1>3, StepKinds

-----------------------------------------------------------------------------
(* What each call has done. *)

(* The gates look at the call and at what the batch is frozen with. *)
LEMMA GatesAreFrozen ==
    ASSUME UNCHANGED <<calls, env>>, NEW c
    PROVE  Admitted(c)' = Admitted(c)
BY DEF Admitted, Available, Lane, LaneInput

(* No call reaches beyond its own files or past the gates, and a writer is  *)
(* accounted for at every step.                                             *)
LEMMA CallStepKeeps ==
    ASSUME BatchInv, NEW i \in Index, CallAction(i)
    PROVE  Confined(i)' /\ Accounted(i)'
<1> USE Types DEF BatchInv
<1>0. Moves(i) /\ Local(i) /\ Confined(i) /\ Accounted(i)
    BY CallMoves, CallIsLocal
<1>1. calls' = calls /\ env' = env
    BY <1>0 DEF Moves
<1>2. Admitted(calls[i])' = Admitted(calls[i])
    BY <1>1, GatesAreFrozen
<1>3. CASE Check(i)
    <2>1. UNCHANGED <<todo, seen, wrote>> /\ phase[i] = "gates"
        BY <1>3 DEF Check
    <2>2. Decide(calls[i]) \in {"deny", "allow", "ask"}
        BY DEF Decide, ResolveAsk, ApplyMode
    <2>3. \/ phase'[i] = "done" /\ result'[i] # "ok"
          \/ phase'[i] \in {"allowed", "asking"} /\ Admitted(calls[i]) /\ result' = result
        BY <1>3, <2>2 DEF Check, Settle
    <2> QED BY <1>0, <1>1, <1>2, <2>1, <2>3 DEF Confined, Accounted, Touched, Done
<1>4. ASSUME NEW word \in {"yes", "always", "no"}, Answer(i, word)
      PROVE  Confined(i)' /\ Accounted(i)'
    <2>1. UNCHANGED <<todo, seen, wrote>> /\ phase[i] = "asking"
        BY <1>4 DEF Answer
    <2>2. \/ phase'[i] = "done" /\ result'[i] # "ok"
          \/ phase'[i] = "allowed" /\ result' = result
        BY <1>4 DEF Answer, Settle
    <2> QED BY <1>0, <1>1, <1>2, <2>1, <2>2 DEF Confined, Accounted, Touched, Done
<1>5. ASSUME NEW matches \in BOOLEAN, Execute(i, matches)
      PROVE  Confined(i)' /\ Accounted(i)'
    <2>1. wrote' = wrote /\ phase[i] = "allowed"
        BY <1>5 DEF Execute
    <2>2. CASE aborted \/ ~ matches
        <3>1. UNCHANGED <<todo, seen>> /\ phase'[i] = "done" /\ result'[i] # "ok"
            BY <1>5, <2>2 DEF Execute, Settle
        <3> QED BY <1>0, <1>1, <1>2, <2>1, <3>1 DEF Confined, Accounted, Touched, Done
    <2>3. CASE ~ aborted /\ matches
        <3>1. /\ phase'[i] = "executing" /\ todo'[i] = calls[i].paths /\ result' = result
              /\ DOMAIN seen'[i] = IF calls[i].tool \in FileWriters THEN calls[i].paths ELSE {}
            BY <1>5, <2>3 DEF Execute
        <3> QED BY <1>0, <1>1, <1>2, <2>1, <3>1 DEF Confined, Accounted, Touched, Done
    <2> QED BY <2>2, <2>3
<1>6. ASSUME NEW p \in Paths \cup {IndexFile}, ReadFile(i, p)
      PROVE  Confined(i)' /\ Accounted(i)'
    <2>1. /\ phase[i] = "executing" /\ phase' = phase /\ wrote' = wrote
          /\ p \in todo[i] /\ todo'[i] = todo[i] \ {p} /\ DOMAIN seen'[i] = DOMAIN seen[i] \cup {p}
          /\ calls[i].tool \notin FileWriters /\ result' = result
        BY <1>6 DEF ReadFile, Writes
    <2> QED BY <1>0, <1>1, <1>2, <2>1 DEF Confined, Accounted, Touched, Done
<1>7. ASSUME NEW p \in Paths \cup {IndexFile}, WriteFile(i, p)
      PROVE  Confined(i)' /\ Accounted(i)'
    <2>1. /\ phase[i] = "executing" /\ phase' = phase /\ seen' = seen /\ Writes(calls[i])
          /\ p \in todo[i] /\ todo'[i] = todo[i] \ {p} /\ wrote'[i] = wrote[i] \cup {p}
          /\ result' = result
        BY <1>7 DEF WriteFile
    <2>2. Writes(calls[i])'
        BY <1>1, <2>1 DEF Writes
    <2>3. todo[i] \subseteq calls[i].paths
        BY <1>0 DEF Confined, Touched
    <2>4. Accounted(i)'
        BY <1>0, <1>1, <2>1, <2>3 DEF Accounted, Done
    <2>5. Admitted(calls[i]) /\ Touched(i)' \subseteq calls[i].paths /\ result'[i] = "none"
        BY <1>0, <2>1, <2>3 DEF Confined, Touched
    <2> QED BY <1>1, <1>2, <2>1, <2>2, <2>4, <2>5 DEF Confined
<1>8. ASSUME NEW p \in Paths \cup {IndexFile}, RestoreFile(i, p)
      PROVE  Confined(i)' /\ Accounted(i)'
    <2>1. /\ phase[i] = "rollback" /\ phase' = phase /\ seen' = seen
          /\ p \in todo[i] /\ todo'[i] = todo[i] \ {p} /\ wrote'[i] = wrote[i] \ {p}
          /\ result' = result
        BY <1>8 DEF RestoreFile
    <2> QED BY <1>0, <1>1, <1>2, <2>1 DEF Confined, Accounted, Touched, Done, Writes
<1>9. CASE FailWrite(i)
    <2>1. /\ phase[i] = "executing" /\ phase'[i] = "rollback" /\ calls[i].tool \in FileWriters
          /\ todo'[i] = calls[i].paths \ todo[i] /\ UNCHANGED <<seen, wrote, result>>
        BY <1>9 DEF FailWrite
    <2> QED BY <1>0, <1>1, <1>2, <2>1 DEF Confined, Accounted, Touched, Done, Writes
<1>10. CASE FailRollback(i) \/ Finish(i) \/ Cancel(i)
    <2>1. UNCHANGED <<todo, seen, wrote>> /\ phase'[i] = "done"
        BY <1>10 DEF FailRollback, Finish, Cancel, Settle
    <2>2. calls[i].tool \in FileWriters =>
              \/ result'[i] = "rollback failed"
              \/ phase[i] = "executing" /\ todo[i] = {} /\ result'[i] = "ok"
              \/ phase[i] = "rollback" /\ todo[i] = {} /\ result'[i] = "failed"
        BY <1>10 DEF FailRollback, Finish, Cancel, Settle
    <2> QED BY <1>0, <1>1, <1>2, <2>1, <2>2 DEF Confined, Accounted, Touched, Done, Writes
<1> QED BY <1>3, <1>4, <1>5, <1>6, <1>7, <1>8, <1>9, <1>10 DEF CallAction

-----------------------------------------------------------------------------
(* What the files hold, and what calls have seen of them. *)

(* What a call reads of a file while no later call has written it comes     *)
(* from the calls before it.                                                *)
LEMMA ReadIsLatest ==
    ASSUME BatchInv, NEW i \in Index, phase[i] \in {"allowed", "executing"}, wrote[i] = {},
           NEW p \in calls[i].paths
    PROVE  Latest(p, i, files[p])
<1> USE DEF BatchInv
<1>1. Admitted(calls[i]) /\ p \in DOMAIN files
    BY Types DEF Confined
<1>2. \A j \in Index : i < j => p \notin wrote[j]
    BY <1>1, NoLaterUse
<1>3. Latest(p, Len(calls) + 1, files[p])
    BY <1>1 DEF FilesLatest
<1>4. \A j \in Index : p \in wrote[j] => j < i
    BY <1>2, IndexIsRange
<1> QED BY <1>3, <1>4, IndexIsRange DEF Latest

(* A step of a call changes the writers of one file at most, the one it     *)
(* writes or restores, and there only what calls up to itself have done.    *)
LEMMA FilesStep ==
    ASSUME BatchInv, NEW i \in Index, CallAction(i)
    PROVE  FilesLatest' /\ SeenLatest'
<1> USE Types DEF BatchInv
<1>0. Local(i) /\ Confined(i) /\ Accounted(i)
    BY CallIsLocal
<1>1. /\ calls' = calls /\ Index' = Index
      /\ \A j \in Index : j # i => seen'[j] = seen[j] /\ wrote'[j] = wrote[j]
    BY <1>0 DEF Local, Elsewhere, Index
<1>2. Index = 1..Len(calls) /\ Len(calls) \in Nat /\ i \in Nat
    BY IndexIsRange
<1>3. CASE UNCHANGED <<wrote, seen, files>>
    BY <1>1, <1>3 DEF FilesLatest, SeenLatest, Latest
<1>4. ASSUME UNCHANGED <<wrote, files>>,
             \A p \in DOMAIN seen'[i] : Latest(p, i, seen'[i][p])
      PROVE  FilesLatest' /\ SeenLatest'
    <2>1. FilesLatest'
        BY <1>1, <1>4 DEF FilesLatest, Latest
    <2>2. ASSUME NEW j \in Index, NEW p \in DOMAIN seen'[j]
          PROVE  Latest(p, j, seen'[j][p])
        BY <1>1, <1>4, <2>2 DEF SeenLatest
    <2>3. SeenLatest'
        BY <1>1, <1>4, <2>2 DEF SeenLatest, Latest
    <2> QED BY <2>1, <2>3
<1>5. ASSUME NEW matches \in BOOLEAN, Execute(i, matches)
      PROVE  FilesLatest' /\ SeenLatest'
    <2>1. UNCHANGED <<wrote, files>> /\ phase[i] = "allowed"
        BY <1>5 DEF Execute
    <2>2. wrote[i] = {}
        BY <1>0, <2>1 DEF Confined, Touched
    <2>3. \/ seen' = seen
          \/ \E S \in SUBSET calls[i].paths : seen'[i] = [p \in S |-> files[p]]
        BY <1>5 DEF Execute
    <2>4. \A p \in DOMAIN seen'[i] : Latest(p, i, seen'[i][p])
        BY <2>1, <2>2, <2>3, ReadIsLatest DEF SeenLatest
    <2> QED BY <1>4, <2>1, <2>4
<1>6. ASSUME NEW p \in Paths \cup {IndexFile}, ReadFile(i, p)
      PROVE  FilesLatest' /\ SeenLatest'
    <2>1. /\ UNCHANGED <<wrote, files>> /\ phase[i] = "executing" /\ p \in todo[i]
          /\ ~ Writes(calls[i])
          /\ seen'[i] = [q \in DOMAIN seen[i] \cup {p} |->
                            IF q = p THEN files[p] ELSE seen[i][q]]
        BY <1>6 DEF ReadFile
    <2>2. wrote[i] = {} /\ p \in calls[i].paths
        BY <1>0, <2>1 DEF Confined, Touched
    <2>3. \A q \in DOMAIN seen'[i] : Latest(q, i, seen'[i][q])
        BY <2>1, <2>2, ReadIsLatest DEF SeenLatest
    <2> QED BY <1>4, <2>1, <2>3
<1>7. ASSUME NEW p \in calls[i].paths, phase[i] \in {"executing", "rollback"}, Writes(calls[i]),
             NEW n, files' = [files EXCEPT ![p] = n], seen' = seen,
             \A q : q # p => (q \in wrote'[i] <=> q \in wrote[i]),
             Latest(p, Len(calls) + 1, n)'
      PROVE  FilesLatest' /\ SeenLatest'
    <2>1. \A j \in Index : i < j => p \notin wrote[j] /\ p \notin DOMAIN seen[j]
        BY <1>0, <1>7, NoLaterUse DEF Confined
    <2>2. \A q : q # p => \A j \in Index : q \in wrote'[j] <=> q \in wrote[j]
        BY <1>1, <1>7
    <2>3. \A j \in Index : j < i => wrote'[j] = wrote[j]
        BY <1>1, <1>2
    <2>4. ASSUME NEW q \in DOMAIN files
          PROVE  Latest(q, Len(calls) + 1, files[q])'
        <3>1. CASE q = p
            BY <1>7, <3>1
        <3>2. CASE q # p
            BY <1>1, <1>7, <2>2, <3>2 DEF FilesLatest, Latest
        <3> QED BY <3>1, <3>2
    <2>5. ASSUME NEW j \in Index, NEW q \in DOMAIN seen[j]
          PROVE  Latest(q, j, seen[j][q])'
        <3>1. Latest(q, j, seen[j][q])
            BY DEF SeenLatest
        <3>2. CASE q # p
            BY <1>1, <1>7, <2>2, <3>1, <3>2 DEF Latest
        <3>3. CASE q = p
            <4>1. j <= i
                BY <1>2, <2>1, <3>3
            <4>2. \A k \in Index : k < j => wrote'[k] = wrote[k]
                BY <1>2, <2>3, <4>1
            <4> QED BY <1>1, <1>2, <1>7, <3>1, <4>2 DEF Latest
        <3> QED BY <3>2, <3>3
    <2>6. DOMAIN files' = DOMAIN files
        BY <1>7
    <2> QED BY <1>1, <1>7, <2>4, <2>5, <2>6 DEF FilesLatest, SeenLatest
<1>8. ASSUME NEW p \in Paths \cup {IndexFile}, WriteFile(i, p)
      PROVE  FilesLatest' /\ SeenLatest'
    <2>1. /\ phase[i] = "executing" /\ p \in todo[i] /\ Writes(calls[i]) /\ seen' = seen
          /\ files' = [files EXCEPT ![p] = i] /\ wrote'[i] = wrote[i] \cup {p}
        BY <1>8 DEF WriteFile
    <2>2. p \in calls[i].paths /\ Admitted(calls[i])
        BY <1>0, <2>1 DEF Confined, Touched
    <2>3. \A j \in Index : i < j => p \notin wrote[j]
        BY <2>1, <2>2, NoLaterUse
    <2>4. \A j \in Index : p \in wrote'[j] => j <= i
        BY <1>1, <1>2, <2>3
    <2>5. Latest(p, Len(calls) + 1, i)'
        BY <1>1, <1>2, <2>1, <2>4 DEF Latest
    <2> QED BY <1>7, <2>1, <2>2, <2>5
<1>9. ASSUME NEW p \in Paths \cup {IndexFile}, RestoreFile(i, p)
      PROVE  FilesLatest' /\ SeenLatest'
    <2>1. /\ phase[i] = "rollback" /\ p \in todo[i] /\ seen' = seen
          /\ files' = [files EXCEPT ![p] = seen[i][p]] /\ wrote'[i] = wrote[i] \ {p}
        BY <1>9 DEF RestoreFile
    <2>2. /\ p \in calls[i].paths /\ p \in DOMAIN seen[i] /\ Admitted(calls[i])
          /\ Writes(calls[i])
        BY <1>0, <2>1 DEF Confined, Accounted, Touched, Writes
    <2>3. \A j \in Index : i < j => p \notin wrote[j]
        BY <2>1, <2>2, NoLaterUse
    <2>4. \A j \in Index : p \in wrote'[j] => j < i /\ p \in wrote[j]
        BY <1>1, <1>2, <2>1, <2>3
    <2>5. Latest(p, i, seen[i][p])
        BY <2>2 DEF SeenLatest
    <2>6. Latest(p, Len(calls) + 1, seen[i][p])'
        BY <1>1, <1>2, <2>1, <2>4, <2>5 DEF Latest
    <2> QED BY <1>7, <2>1, <2>2, <2>6
<1> QED BY <1>3, <1>5, <1>6, <1>8, <1>9
        DEF CallAction, Check, Answer, FailWrite, FailRollback, Finish, Cancel

-----------------------------------------------------------------------------
(* The invariant holds at first: nothing has been started. *)
LEMMA InitInv == Init => BatchInv
<1> SUFFICES ASSUME Init PROVE BatchInv
    OBVIOUS
<1>1. PICK s \in Scenarios : calls = s.calls /\ env = s.env /\ rules = s.rules
    BY DEF Init
<1>2. calls \in Seq(ToolCall) /\ env \in Conditions /\ \A i \in Index : OwnFiles(calls[i])
    BY <1>1, ScenarioAssumption DEF Index
<1>3. Index = 1..Len(calls) /\ Len(calls) \in Nat
    BY <1>2 DEF Index
<1>4. /\ launched = 0 /\ running = {} /\ prompt = 0 /\ said = {} /\ faults = 0
      /\ phase = [i \in Index |-> "waiting"] /\ result = [i \in Index |-> "none"]
      /\ todo = [i \in Index |-> {}] /\ wrote = [i \in Index |-> {}]
      /\ DOMAIN seen = Index /\ \A i \in Index : DOMAIN seen[i] = {}
      /\ files = [p \in Paths \cup {IndexFile} |-> 0]
    BY DEF Init
<1>5. TypeOK
    BY <1>3, <1>4, FaultsAssumption DEF TypeOK
<1>6. Scheduled
    BY <1>3, <1>4 DEF Scheduled
<1>7. \A i \in Index : Confined(i) /\ Accounted(i)
    BY <1>4 DEF Confined, Accounted, Touched, Done
<1>8. FilesLatest /\ SeenLatest
    BY <1>4 DEF FilesLatest, SeenLatest, Latest
<1> QED BY <1>2, <1>4, <1>5, <1>6, <1>7, <1>8 DEF BatchInv, WellFormed

(* Every step keeps it. *)
LEMMA StepInv ==
    ASSUME BatchInv, [Next]_vars
    PROVE  BatchInv'
<1>1. WellFormed' /\ Scheduled'
    BY WellFormedStep, ScheduleStep DEF BatchInv
<1>2. CASE StartCall
    <2> DEFINE n == launched + 1
    <2>1. /\ UNCHANGED <<calls, env, todo, seen, wrote, result, files>> /\ n \in Index
          /\ phase' = [phase EXCEPT ![n] = IF aborted THEN "done" ELSE "gates"]
        BY <1>2 DEF StartCall, callVars
    <2>2. Index' = Index /\ \A i \in Index : Admitted(calls[i])' = Admitted(calls[i])
        BY <2>1, GatesAreFrozen DEF Index
    <2>3. phase[n] = "waiting"
        BY <2>1, IndexIsRange DEF BatchInv, Scheduled
    <2>4. ASSUME NEW i \in Index
          PROVE  Confined(i)' /\ Accounted(i)'
        <3>1. Confined(i) /\ Accounted(i)
            BY DEF BatchInv
        <3>2. CASE i # n
            <4>1. phase'[i] = phase[i]
                BY <2>1, <3>2, Types DEF BatchInv
            <4> QED BY <2>1, <2>2, <3>1, <4>1 DEF Confined, Accounted, Touched, Done, Writes
        <3>3. CASE i = n
            <4>1. phase[i] = "waiting" /\ phase'[i] \in {"done", "gates"}
                BY <2>1, <2>3, <3>3, Types DEF BatchInv
            <4>2. Touched(i) = {} /\ Touched(i)' = {}
                BY <2>1, <3>1, <4>1 DEF Confined, Touched
            <4>3. wrote'[i] = {}
                BY <4>2 DEF Touched
            <4>4. result'[i] = "none"
                BY <2>1, <3>1, <4>1 DEF Confined
            <4> QED BY <4>1, <4>2, <4>3, <4>4 DEF Confined, Accounted, Done
        <3> QED BY <3>2, <3>3
    <2>5. FilesLatest' /\ SeenLatest'
        BY <2>1, <2>2 DEF BatchInv, FilesLatest, SeenLatest, Latest
    <2> QED BY <1>1, <2>2, <2>4, <2>5 DEF BatchInv
<1>3. ASSUME NEW i \in Index, CallAction(i)
      PROVE  BatchInv'
    <2>1. Local(i) /\ Confined(i)' /\ Accounted(i)' /\ FilesLatest' /\ SeenLatest'
        BY <1>3, CallIsLocal, CallStepKeeps, FilesStep DEF BatchInv
    <2>2. Index' = Index /\ \A j \in Index : Admitted(calls[j])' = Admitted(calls[j])
        BY <2>1, GatesAreFrozen DEF Local, Elsewhere, Index
    <2>3. ASSUME NEW j \in Index, j # i
          PROVE  Confined(j)' /\ Accounted(j)'
        <3>1. /\ phase'[j] = phase[j] /\ todo'[j] = todo[j] /\ seen'[j] = seen[j]
              /\ wrote'[j] = wrote[j] /\ result'[j] = result[j] /\ calls' = calls
            BY <2>1, <2>3 DEF Local, Elsewhere
        <3>2. Confined(j) /\ Accounted(j)
            BY DEF BatchInv
        <3> QED BY <2>2, <3>1, <3>2 DEF Confined, Accounted, Touched, Done, Writes
    <2> QED BY <1>1, <2>1, <2>2, <2>3 DEF BatchInv
<1>4. CASE UNCHANGED <<calls, env, rules, launched, running, phase, todo, seen, wrote, result,
                       prompt, said, files, faults>>
    <2>1. Index' = Index /\ \A j \in Index : Admitted(calls[j])' = Admitted(calls[j])
        BY <1>4, GatesAreFrozen DEF Index
    <2>2. \A j \in Index : Confined(j)' /\ Accounted(j)'
        BY <1>4, <2>1 DEF BatchInv, Confined, Accounted, Touched, Done, Writes
    <2>3. FilesLatest' /\ SeenLatest'
        BY <1>4, <2>1 DEF BatchInv, FilesLatest, SeenLatest, Latest
    <2> QED BY <1>1, <2>1, <2>2, <2>3 DEF BatchInv
<1> QED BY <1>2, <1>3, <1>4, StepKinds

(* The schedule, the accounts of the calls and the contents of the files    *)
(* fit together in every reachable state.                                   *)
THEOREM BatchInvHolds == Spec => []BatchInv
BY InitInv, StepInv, PTL DEF Spec

(* The variables of a batch have their types in every reachable state. *)
THEOREM BatchTypeCorrect == Spec => []TypeOK
<1>1. BatchInv => TypeOK
    BY DEF BatchInv, WellFormed
<1> QED BY <1>1, BatchInvHolds, PTL

(* Whatever runs side by side, every call reads, and every writer keeps as  *)
(* its backup, what the calls received before it left behind: the claims    *)
(* and the exclusive tools of ToolScheduler leave no other interleaving.    *)
THEOREM BatchesAreSerializable == Spec => []Serializable
<1>1. BatchInv => Serializable
    <2> SUFFICES ASSUME BatchInv, NEW i \in Index, NEW p \in DOMAIN seen[i]
                 PROVE  seen[i][p] = Max({0} \cup {j \in Index : j < i /\ p \in wrote[j]})
        BY DEF Serializable
    <2> DEFINE S == {0} \cup {j \in Index : j < i /\ p \in wrote[j]}
               n == seen[i][p]
    <2>1. Latest(p, i, n)
        BY DEF BatchInv, SeenLatest
    <2> HIDE DEF n
    <2>2. n \in S /\ S \subseteq Nat /\ \A y \in S : n >= y
        <3>1. S \subseteq {0} \cup Index /\ {0} \cup Index \subseteq Nat
            BY IndexIsRange DEF BatchInv
        <3>2. n \in S
            BY <2>1 DEF Latest
        <3>3. ASSUME NEW y \in S PROVE n >= y
            BY <2>1, <3>1, <3>2, <3>3 DEF Latest
        <3> HIDE DEF S
        <3> QED BY <3>1, <3>2, <3>3
    <2> HIDE DEF S
    <2>3. \A x \in S : (\A y \in S : x >= y) => x = n
        BY <2>2
    <2>4. Max(S) = n
        BY <2>2, <2>3 DEF Max
    <2> QED BY <2>4 DEF S, n
<1> QED BY <1>1, BatchInvHolds, PTL

(* A patch that ends has written every file or none, whichever of its       *)
(* writes fails, unless restoring the backups failed as well.               *)
THEOREM PatchesAreAtomic == Spec => []PatchAtomic
<1>1. BatchInv => PatchAtomic
    BY DEF BatchInv, Accounted, PatchAtomic, FileWriters
<1> QED BY <1>1, BatchInvHolds, PTL
-----------------------------------------------------------------------------
(* Consent.  A rule is dated by the call whose prompt added it, and that    *)
(* call was decided.                                                        *)
RulesDated ==
    \A r \in rules :
        \/ r.since = 0
        \/ /\ r.since \in Index /\ r.effect = "allow"
           /\ phase[r.since] \notin {"waiting", "gates", "asking"}

(* The calls that may change files of the workspace *)
ChangesFiles(c) == Writes(c) /\ c.tool # "RefreshCodeIndex"

(* Such a call got past the policy, and past its question if there was one. *)
Permitted(i) ==
    ChangesFiles(calls[i]) =>
        /\ phase[i] \in {"asking", "allowed", "executing", "rollback"} \/ wrote[i] # {} =>
                ~ HasRule("deny", calls[i]) /\ env.mode \notin {"plan", "dontAsk"}
        /\ phase[i] \in {"allowed", "executing", "rollback"} \/ wrote[i] # {} => Consented(i)

ConsentInv == RulesDated /\ \A i \in Index : Permitted(i)

(* A call that may change files is alone when it passes the gates, so every *)
(* rule there is was configured or added by an earlier call.                *)
LEMMA RulesAreEarlier ==
    ASSUME BatchInv, RulesDated, NEW i \in Index, phase[i] = "gates",
           Admitted(calls[i]), ChangesFiles(calls[i]), NEW r \in rules
    PROVE  r.since < i
<1>0. /\ Index = 1..Len(calls) /\ Len(calls) \in Nat /\ launched \in 0..Len(calls)
      /\ WellFormed /\ Scheduled
    BY IndexIsRange DEF BatchInv
<1>1. CASE r.since = 0
    BY <1>0, <1>1
<1>2. CASE /\ r.since \in Index
           /\ phase[r.since] \notin {"waiting", "gates", "asking"}
    <2>1. i # r.since /\ phase[r.since] # "waiting"
        BY <1>2
    <2>2. ASSUME i < r.since PROVE FALSE
        <3>1. i \in running /\ r.since \in running
            BY <1>0, <1>2, <2>1, <2>2, LaterIsRunning
        <3>2. IsExclusive(calls[i])
            BY DEF ChangesFiles, Writes, IsExclusive, Admitted
        <3> QED BY <1>0, <2>1, <3>1, <3>2 DEF Scheduled, Clash
    <2> QED BY <1>0, <1>2, <2>1, <2>2
<1> QED BY <1>1, <1>2 DEF RulesDated

(* What the gates and PolicyEngine.decide let through *)
LEMMA DecideConsents ==
    ASSUME BatchInv, RulesDated, NEW i \in Index, phase[i] = "gates",
           Admitted(calls[i]), ChangesFiles(calls[i]),
           Decide(calls[i]) \in {"allow", "ask"}
    PROVE  /\ ~ HasRule("deny", calls[i]) /\ env.mode \notin {"plan", "dontAsk"}
           /\ Decide(calls[i]) = "allow" => Consented(i)
<1> DEFINE c == calls[i]
<1>1. c.tool \in FileWriters \cup {"Shell"} /\ ~ ReadOnly(c) /\ Known(c) /\ Available(c.tool)
    BY DEF ChangesFiles, Writes, ReadOnly, Admitted, FileWriters
<1>2. env.mode # "plan"
    BY <1>1 DEF Available, PlanTools, Inspection, FileWriters
<1>3. ~ HasRule("deny", c)
    BY DEF Decide
<1>4. env.mode # "dontAsk"
    BY <1>1, <1>3 DEF Decide, ResolveAsk, ApplyMode
<1>5. ASSUME Decide(c) = "allow"
      PROVE  Consented(i)
    <2>1. CASE env.mode = "bypassPermissions"
        BY <2>1 DEF Consented
    <2>2. CASE env.mode # "bypassPermissions"
        <3>1. ~ HasRule("ask", c)
            BY <1>5, <2>2 DEF Decide, ResolveAsk
        <3>2. CASE env.mode = "acceptEdits" /\ c.tool \in FileWriters
            BY <3>1, <3>2 DEF Consented
        <3>3. CASE ~ (env.mode = "acceptEdits" /\ c.tool \in FileWriters)
            <4>1. ApplyMode(c) = "undecided"
                BY <1>1, <1>2, <1>4, <2>2, <3>3 DEF ApplyMode
            <4>2. HasRule("allow", c) /\ ~ UnbypassableAsk(c) /\ ToolPermission(c) # "deny"
                BY <1>5, <3>1, <4>1 DEF Decide, ResolveAsk
            <4>3. IsShell(c) => c.command.parses
                <5>1. CASE c.tool \in FileWriters
                    BY <5>1 DEF IsShell, FileWriters
                <5>2. CASE c.tool = "Shell"
                    <6>1. Classify(c.command) # "readonly"
                        BY <1>1, <5>2 DEF ReadOnly
                    <6>2. ToolPermission(c) = "ask"
                        BY <4>2, <5>2, <6>1 DEF ToolPermission, ShellPermission, IsShell
                    <6>3. Classify(c.command) # "unparseable"
                        BY <4>2, <5>2, <6>2 DEF UnbypassableAsk
                    <6> QED BY <6>3 DEF Classify
                <5> QED BY <1>1, <5>1, <5>2
            <4>4. \E r \in rules : r.effect = "allow" /\ r.since < i /\ RuleMatches(r, c)
                BY <4>2, RulesAreEarlier DEF HasRule
            <4> QED BY <3>1, <4>3, <4>4 DEF Consented
        <3> QED BY <3>2, <3>3
    <2> QED BY <2>1, <2>2
<1> QED BY <1>2, <1>3, <1>4, <1>5

(* Once given, consent stays: the batch only adds rules to allow. *)
LEMMA ConsentStays ==
    ASSUME calls' = calls, env' = env, rules \subseteq rules', said \subseteq said',
           \A r \in rules' \ rules : r.effect = "allow",
           NEW i \in Index
    PROVE  /\ ~ HasRule("deny", calls[i]) => ~ HasRule("deny", calls[i])'
           /\ Consented(i) => Consented(i)'
           /\ ChangesFiles(calls[i])' = ChangesFiles(calls[i])
<1>1. \A r, c : RuleMatches(r, c)' = RuleMatches(r, c)
    BY DEF RuleMatches
<1>2. \A effect \in {"deny", "ask"} : ~ HasRule(effect, calls[i]) => ~ HasRule(effect, calls[i])'
    BY DEF HasRule, RuleMatches, IsShell
<1>3. ASSUME Consented(i) PROVE Consented(i)'
    BY <1>2, <1>3 DEF Consented, RuleMatches, IsShell
<1>4. ChangesFiles(calls[i])' = ChangesFiles(calls[i])
    BY DEF ChangesFiles, Writes
<1> QED BY <1>2, <1>3, <1>4

(* Rules keep their dates: the call that adds one has just been answered. *)
LEMMA RulesDatedStep ==
    ASSUME BatchInv, RulesDated, [Next]_vars
    PROVE  RulesDated'
<1> USE Types DEF BatchInv
<1>1. CASE StartCall
    <2> DEFINE n == launched + 1
    <2>1. /\ UNCHANGED <<calls, rules>> /\ n \in Index /\ phase[n] = "waiting"
          /\ phase' = [phase EXCEPT ![n] = IF aborted THEN "done" ELSE "gates"]
        BY <1>1, IndexIsRange DEF StartCall, callVars, Scheduled
    <2>2. Index' = Index
        BY <2>1 DEF Index
    <2>3. ASSUME NEW r \in rules PROVE r.since = 0 \/ r.since # n
        BY <2>1, <2>3 DEF RulesDated
    <2> QED BY <2>1, <2>2, <2>3 DEF RulesDated
<1>2. ASSUME NEW i \in Index, CallAction(i)
      PROVE  RulesDated'
    <2>1. Moves(i) /\ phase \in [Index -> CallPhases] /\ phase' \in [Index -> CallPhases]
        BY <1>2, CallMoves DEF Moves
    <2>2. Index' = Index
        BY <2>1 DEF Moves, Index
    <2>3. phase'[i] \in {"gates", "asking"} => phase[i] = "gates" /\ UNCHANGED rules
        <3>1. CASE Check(i)
            BY <3>1 DEF Check
        <3>2. CASE \E word \in {"yes", "always", "no"} : Answer(i, word)
            BY <3>2 DEF Answer, Settle
        <3>3. CASE \E matches \in BOOLEAN : Execute(i, matches)
            BY <3>3 DEF Execute, Settle
        <3>4. CASE \E p \in Paths \cup {IndexFile} :
                        ReadFile(i, p) \/ WriteFile(i, p) \/ RestoreFile(i, p)
            BY <3>4 DEF ReadFile, WriteFile, RestoreFile
        <3>5. CASE FailWrite(i) \/ FailRollback(i) \/ Finish(i) \/ Cancel(i)
            BY <3>5 DEF FailWrite, FailRollback, Finish, Cancel, Settle
        <3> QED BY <1>2, <3>1, <3>2, <3>3, <3>4, <3>5 DEF CallAction
    <2>4. \A r \in rules' \ rules : r.effect = "allow" /\ r.since = i
        BY <1>2, RulesGrow
    <2>5. rules' # rules => phase'[i] \notin {"waiting", "gates", "asking"}
        BY <2>1, <2>3 DEF Moves
    <2>6. ASSUME NEW r \in rules, r.since # 0
          PROVE  phase'[r.since] \notin {"waiting", "gates", "asking"}
        <3>1. r.since \in Index /\ phase[r.since] \notin {"waiting", "gates", "asking"}
            BY <2>6 DEF RulesDated
        <3>2. CASE r.since = i
            BY <2>1, <2>3, <3>1, <3>2 DEF Moves
        <3>3. CASE r.since # i
            BY <2>1, <3>1, <3>3 DEF Moves
        <3> QED BY <3>2, <3>3
    <2> QED BY <2>2, <2>4, <2>5, <2>6 DEF RulesDated
<1>3. CASE UNCHANGED <<calls, rules, phase>>
    BY <1>3 DEF RulesDated, Index
<1> QED BY <1>1, <1>2, <1>3, StepKinds

(* No step of a call takes it past the policy without consent. *)
LEMMA PermittedStep ==
    ASSUME BatchInv, ConsentInv, NEW i \in Index, CallAction(i)
    PROVE  Permitted(i)'
<1> USE Types DEF BatchInv, ConsentInv
<1> DEFINE c == calls[i]
<1>0. Moves(i) /\ Permitted(i) /\ Confined(i)
    BY CallMoves
<1>1. calls' = calls /\ env' = env
    BY <1>0 DEF Moves
<1>2. /\ rules \subseteq rules' /\ \A r \in rules' \ rules : r.effect = "allow"
    BY RulesGrow
<1>3. said \subseteq said'
    BY DEF CallAction, Check, Answer, Execute, ReadFile, WriteFile, RestoreFile, FailWrite,
           FailRollback, Finish, Cancel
<1>4. /\ ~ HasRule("deny", c) => ~ HasRule("deny", c)'
      /\ Consented(i) => Consented(i)'
      /\ ChangesFiles(c)' = ChangesFiles(c)
    BY <1>1, <1>2, <1>3, ConsentStays
<1>5. SUFFICES ASSUME ChangesFiles(c) PROVE Permitted(i)'
    BY <1>1, <1>4 DEF Permitted
<1>6. CASE Check(i)
    <2>1. wrote'[i] = {} /\ phase[i] = "gates"
        BY <1>0, <1>6 DEF Check, Confined, Touched
    <2>2. Decide(c) \in {"deny", "allow", "ask"}
        BY DEF Decide, ResolveAsk, ApplyMode
    <2>3. \/ phase'[i] = "done"
          \/ phase'[i] = "allowed" /\ Admitted(c) /\ Decide(c) = "allow"
          \/ phase'[i] = "asking" /\ Admitted(c) /\ Decide(c) = "ask"
        BY <1>6, <2>2 DEF Check, Settle
    <2>4. phase'[i] # "done" => /\ ~ HasRule("deny", c) /\ env.mode \notin {"plan", "dontAsk"}
                                /\ Decide(c) = "allow" => Consented(i)
        BY <1>5, <2>1, <2>3, DecideConsents
    <2> QED BY <1>1, <1>4, <2>1, <2>3, <2>4 DEF Permitted
<1>7. ASSUME NEW word \in {"yes", "always", "no"}, Answer(i, word)
      PROVE  Permitted(i)'
    <2>1. wrote'[i] = {} /\ phase[i] = "asking"
        BY <1>0, <1>7 DEF Answer, Confined, Touched
    <2>2. phase'[i] = "done" \/ (phase'[i] = "allowed" /\ i \in said')
        BY <1>7 DEF Answer, Settle
    <2>3. ~ HasRule("deny", c) /\ env.mode \notin {"plan", "dontAsk"}
        BY <1>0, <1>5, <2>1 DEF Permitted
    <2>4. i \in said' => Consented(i)'
        BY DEF Consented
    <2> QED BY <1>1, <1>4, <2>1, <2>2, <2>3, <2>4 DEF Permitted
<1>8. CASE /\ phase[i] \in {"allowed", "executing", "rollback"}
           /\ phase'[i] # "asking"
    BY <1>0, <1>1, <1>4, <1>5, <1>8 DEF Permitted
<1>9. ASSUME NEW matches \in BOOLEAN, Execute(i, matches)
      PROVE  phase[i] = "allowed" /\ phase'[i] # "asking"
    BY <1>9 DEF Execute, Settle
<1>10. ASSUME NEW p \in Paths \cup {IndexFile},
              ReadFile(i, p) \/ WriteFile(i, p) \/ RestoreFile(i, p)
       PROVE  phase[i] \in {"executing", "rollback"} /\ phase'[i] # "asking"
    BY <1>10 DEF ReadFile, WriteFile, RestoreFile
<1>11. ASSUME FailWrite(i) \/ FailRollback(i) \/ Finish(i) \/ Cancel(i)
       PROVE  phase[i] \in {"executing", "rollback"} /\ phase'[i] # "asking"
    BY <1>11 DEF FailWrite, FailRollback, Finish, Cancel, Settle
<1> QED BY <1>6, <1>7, <1>8, <1>9, <1>10, <1>11 DEF CallAction

(* The rules and the permissions of the calls stay in step. *)
LEMMA ConsentStep ==
    ASSUME BatchInv, ConsentInv, [Next]_vars
    PROVE  ConsentInv'
<1> USE Types DEF BatchInv, ConsentInv
<1>1. RulesDated'
    BY RulesDatedStep
<1>2. ASSUME UNCHANGED <<calls, env>>, rules \subseteq rules', said \subseteq said',
             \A r \in rules' \ rules : r.effect = "allow",
             NEW j \in Index, wrote'[j] = wrote[j],
             phase'[j] = phase[j] \/ phase'[j] \in {"done", "gates"}
      PROVE  Permitted(j)'
    <2>1. /\ ~ HasRule("deny", calls[j]) => ~ HasRule("deny", calls[j])'
          /\ Consented(j) => Consented(j)'
          /\ ChangesFiles(calls[j])' = ChangesFiles(calls[j])
        BY <1>2, ConsentStays
    <2> QED BY <1>2, <2>1 DEF Permitted
<1>3. CASE StartCall
    <2>1. /\ UNCHANGED <<calls, env, rules, said, wrote>>
          /\ \A j \in Index : phase'[j] = phase[j] \/ phase'[j] \in {"done", "gates"}
        BY <1>3 DEF StartCall, callVars
    <2>2. Index' = Index
        BY <2>1 DEF Index
    <2> QED BY <1>1, <1>2, <2>1, <2>2
<1>4. ASSUME NEW i \in Index, CallAction(i)
      PROVE  ConsentInv'
    <2>1. Local(i) /\ Permitted(i)'
        BY <1>4, CallIsLocal, PermittedStep
    <2>2. /\ rules \subseteq rules' /\ \A r \in rules' \ rules : r.effect = "allow"
        BY <1>4, RulesGrow
    <2>3. said \subseteq said'
        BY <1>4 DEF CallAction, Check, Answer, Execute, ReadFile, WriteFile, RestoreFile,
                    FailWrite, FailRollback, Finish, Cancel
    <2>4. UNCHANGED <<calls, env>> /\ Index' = Index
        BY <2>1 DEF Local, Elsewhere, Index
    <2>5. \A j \in Index : j # i => wrote'[j] = wrote[j] /\ phase'[j] = phase[j]
        BY <2>1 DEF Local, Elsewhere
    <2>6. \A j \in Index : Permitted(j)'
        BY <1>2, <2>1, <2>2, <2>3, <2>4, <2>5
    <2> QED BY <1>1, <2>4, <2>6
<1>5. CASE UNCHANGED <<calls, env, rules, phase, wrote, said>>
    <2>1. Index' = Index
        BY <1>5 DEF Index
    <2> QED BY <1>1, <1>2, <1>5, <2>1
<1> QED BY <1>3, <1>4, <1>5, StepKinds

(* Whatever the order of questions, answers and calls, a file of the        *)
(* workspace is only changed with the consent of the user, given for the    *)
(* call, by a rule older than the call or by the mode; never against a deny *)
(* rule, in plan mode, under the write lock or by a tool the supervisor's   *)
(* lane withholds, and never a protected file by a file tool.               *)
THEOREM EffectsAreConsented == Spec => []EffectsHaveConsent
<1>1. Init => ConsentInv
    <2> SUFFICES ASSUME Init PROVE ConsentInv
        OBVIOUS
    <2>1. RulesDated
        BY ScenarioAssumption DEF Init, RulesDated
    <2>2. \A i \in Index : phase[i] = "waiting" /\ wrote[i] = {}
        BY DEF Init
    <2> QED BY <2>1, <2>2 DEF ConsentInv, Permitted
<1>2. BatchInv /\ ConsentInv => EffectsHaveConsent
    <2> SUFFICES ASSUME BatchInv, ConsentInv, NEW i \in Index, wrote[i] \cap Paths # {}
                 PROVE  /\ Consented(i) /\ ~ HasRule("deny", calls[i])
                        /\ env.mode \notin {"plan", "dontAsk"} /\ ~ env.locked
                        /\ env.action \notin {"repair_plan", "request_reapproval", "finish"}
                        /\ env.action \in {"gather_evidence", "run_verification"} =>
                                calls[i].tool = "Shell" /\ calls[i].criteria
                        /\ calls[i].tool # "Shell" =>
                                wrote[i] \cap (Protected \cup Escaping) = {}
        BY DEF EffectsHaveConsent
    <2> DEFINE c == calls[i]
    <2>1. /\ wrote[i] \subseteq c.paths /\ wrote[i] # {} /\ Admitted(c) /\ Writes(c)
          /\ OwnFiles(c)
        BY DEF BatchInv, Confined, Touched, WellFormed
    <2>2. c.tool # "RefreshCodeIndex"
        BY <2>1, IndexAssumption DEF OwnFiles, IndexTools
    <2>3. Consented(i) /\ ~ HasRule("deny", c) /\ env.mode \notin {"plan", "dontAsk"}
        BY <2>1, <2>2 DEF ConsentInv, Permitted, ChangesFiles
    <2>4. c.tool \in {"Write", "ApplyPatch", "Shell"}
        BY <2>1, <2>2 DEF Writes, FileWriters
    <2>5. ~ env.locked
        BY <2>1, <2>4 DEF Admitted, Available, PlanTools, Inspection
    <2>6. /\ env.action \notin {"repair_plan", "request_reapproval", "finish"}
          /\ env.action \in {"gather_evidence", "run_verification"} => c.tool = "Shell"
        BY <2>1, <2>4 DEF Admitted, Lane, Inspection
    <2>7. env.action \in {"gather_evidence", "run_verification"} => c.criteria
        BY <2>1, <2>6 DEF Admitted, LaneInput
    <2>8. c.tool # "Shell" => wrote[i] \cap (Protected \cup Escaping) = {}
        BY <2>1, <2>4 DEF Admitted, Valid, PathAllowed, FileWriters
    <2> QED BY <2>3, <2>5, <2>6, <2>7, <2>8
<1> QED BY <1>1, <1>2, BatchInvHolds, ConsentStep, PTL DEF Spec
=============================================================================
