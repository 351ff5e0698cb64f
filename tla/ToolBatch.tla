------------------------------ MODULE ToolBatch ------------------------------
(***************************************************************************)
(* One batch of tool calls: the scheduler (tools/ToolScheduler.ts), the     *)
(* gates every call passes (ToolRegistry.ts, ToolExecutionLane.ts,          *)
(* ToolRuntime.ts), the permission decision (policy/) with the prompt that  *)
(* asks the user (cli/prompts.ts), and the reads and writes of the calls    *)
(* that run at the same time, multi-file patches with their rollback        *)
(* included (ApplyPatchTool.ts).                                            *)
(*                                                                         *)
(* The content of a file is the index of the call that wrote it, 0 at the   *)
(* start.  Repeats of a call in later batches, crashes and evidence are the *)
(* subject of SideEffects.                                                  *)
(***************************************************************************)
EXTENDS Naturals, Sequences, FiniteSets, FiniteSetsExt

CONSTANTS
    Paths,              \* files of the workspace, with
    Protected,          \* those checkPath refuses to write, and
    Escaping,           \* those a link takes out of the workspace
    Scenarios,          \* the batches, and what they are frozen with
    MaxFaults           \* write errors

ASSUME PathAssumption == Protected \cup Escaping \subseteq Paths
ASSUME FaultsAssumption == MaxFaults \in Nat

(* A call with its arguments, and what a batch is frozen with *)
IndexFile == "retrieval-index"
IndexTools == {"SearchCodeIndex", "RefreshCodeIndex"}
ToolCall ==
    [tool : STRING, paths : SUBSET (Paths \cup {IndexFile}), parses : BOOLEAN,
     criteria : BOOLEAN, command : [head : STRING, arg : STRING, parses : BOOLEAN]]
Conditions ==
    [mode : {"default", "acceptEdits", "plan", "dontAsk", "bypassPermissions"},
     action : {"none", "continue_step", "resolve_blocker", "gather_evidence",
               "run_verification", "repair_plan", "request_reapproval", "finish"},
     locked : BOOLEAN, replanning : BOOLEAN, interactive : BOOLEAN]

(* The index is no file of the workspace.  Its tools use it alone, and of   *)
(* the others only a process may touch it.                                  *)
OwnFiles(c) ==
    IF c.tool \in IndexTools THEN c.paths = {IndexFile}
    ELSE c.tool \in {"Shell", "ShellReadOnly"} \/ IndexFile \notin c.paths

ASSUME IndexAssumption == IndexFile \notin Paths
ASSUME ScenarioAssumption ==
    \A s \in Scenarios :
        /\ s.calls \in Seq(ToolCall) /\ \A i \in DOMAIN s.calls : OwnFiles(s.calls[i])
        /\ s.env \in Conditions
        /\ \A r \in s.rules : r.since = 0

VARIABLES
    calls,     \* the calls of the batch, in the order received
    env,       \* mode, write lock, supervisor action and kind of session
    rules,     \* PolicyEngine.rules
    launched,  \* how many calls the scheduler has started
    running,   \* ToolScheduler: the calls since the last drain
    phase,     \* of each call
    todo,      \* the files a call has yet to read, write or restore
    seen,      \* what a call read, the backups of a writer included
    wrote,     \* the files that hold what the call wrote
    result,    \* its terminal result
    prompt,    \* the call whose question readline holds, 0 for none
    said,      \* the calls the user allowed
    files,
    aborted, faults,
    facts      \* the order in which terminal results are journalled

vars == <<calls, env, rules, launched, running, phase, todo, seen, wrote, result,
          prompt, said, files, aborted, faults, facts>>
callVars == <<calls, env>>
schedule == <<launched, running, facts>>

Index == DOMAIN calls

-----------------------------------------------------------------------------
(* The tools, as their definitions declare them.  Grep stands for the tools *)
(* that read the workspace, TaskUpdate for those that change state of the   *)
(* agent only.                                                              *)
Inspection == {"Read", "Grep", "SearchCodeIndex", "RefreshCodeIndex", "ShellReadOnly"}
FileWriters == {"Write", "ApplyPatch"}
Tools == Inspection \cup FileWriters \cup {"Shell", "FileAssert", "TaskUpdate", "PlanPropose"}

(* ToolScheduler.prepare: a call that will only produce an error is shared. *)
Known(c) == c.tool \in Tools /\ c.parses
IsExclusive(c) ==
    Known(c) /\ c.tool \in FileWriters \cup {"Shell", "ShellReadOnly", "TaskUpdate", "PlanPropose"}

Claim(resource, mode) == [resource |-> resource, mode |-> mode]
Claims(c) ==
    IF ~ Known(c) THEN {} ELSE
    CASE c.tool \in {"Read", "FileAssert"} -> {Claim(p, "read") : p \in c.paths}
      [] c.tool = "Write" -> {Claim(p, "write") : p \in c.paths}
      [] c.tool = "Grep" -> {Claim("workspace:*", "read")}
      [] c.tool = "ApplyPatch" -> {Claim("workspace:*", "write")}
      [] c.tool = "SearchCodeIndex" -> {Claim(IndexFile, "read")}
      [] c.tool = "RefreshCodeIndex" -> {Claim(IndexFile, "write")}
      [] c.tool \in {"Shell", "ShellReadOnly"} -> {Claim("process:workspace", "write")}
      [] c.tool \in {"TaskUpdate", "PlanPropose"} -> {Claim("state", "write")}

Overlaps(a, b) == a = b \/ "workspace:*" \in {a, b}

(* Faulty variant: only two writes conflict. *)
ConflictsWrites(a, b) ==
    \E x \in a, y \in b :
        Overlaps(x.resource, y.resource) /\ x.mode = "write" /\ y.mode = "write"

Conflicts(a, b) ==
    \E x \in a, y \in b :
        Overlaps(x.resource, y.resource) /\ "write" \in {x.mode, y.mode}

(* Commands by their first word, with one or a few of each kind *)
DangerousHeads == {"rm"}
SubcommandHeads == {"git", "npm", "node"}
ArgumentHeads == {"find", "rg", "date", "file"}
ReadOnlyHeads == {"ls"}

(* analyzeShellCommand.  A command has no metacharacters and balanced       *)
(* quotes or it does not parse; its argument is none, one of the audited    *)
(* read-only ones of its head (git status, node --version, ...) or another. *)
Classify(cmd) ==
    IF ~ cmd.parses THEN "unparseable" ELSE
    CASE cmd.head \in DangerousHeads -> "dangerous"
      [] cmd.head \in SubcommandHeads ->
            IF cmd.arg = "audited" THEN "readonly" ELSE "write"
      [] cmd.head \in ArgumentHeads ->
            IF cmd.arg = "other" THEN "dangerous" ELSE "readonly"
      [] cmd.head \in ReadOnlyHeads -> "readonly"
      [] OTHER -> "write"

IsShell(c) == c.tool \in {"Shell", "ShellReadOnly"}

(* isEffectivelyReadOnly: no tool here claims both *)
ReadOnly(c) ==
    \/ c.tool \notin FileWriters \cup {"Shell"}
    \/ c.tool = "Shell" /\ Classify(c.command) = "readonly"

(* The calls that change files, a Shell command any of those in its paths *)
Writes(c) ==
    \/ c.tool \in FileWriters \cup {"RefreshCodeIndex"}
    \/ c.tool = "Shell" /\ ~ ReadOnly(c)

-----------------------------------------------------------------------------
(* The gates of executeOne, before the permission. *)
PlanTools == Inspection \cup {"PlanPropose", "TaskUpdate"}
Available(tool) == env.mode = "plan" \/ env.locked => tool \in PlanTools

(* allowSetFor; no assessment, or a plan that is not applicable: no lane *)
Lane(tool) ==
    CASE env.action \in {"none", "continue_step", "resolve_blocker"} -> TRUE
      [] env.action = "gather_evidence" ->
            tool \in Inspection \cup {"Shell", "FileAssert", "TaskUpdate"}
      [] env.action = "run_verification" -> tool \in Inspection \cup {"Shell", "FileAssert"}
      [] env.action = "repair_plan" ->
            tool \in Inspection \cup {"PlanPropose"}
                                \cup (IF env.replanning THEN {} ELSE {"TaskUpdate"})
      [] env.action = "request_reapproval" -> tool \in Inspection \cup {"PlanPropose"}
      [] env.action = "finish" -> tool \in Inspection \cup {"FileAssert"}

(* Shell has to name the criteria its run is evidence for *)
LaneInput(c) ==
    env.action \in {"gather_evidence", "run_verification"} /\ c.tool = "Shell"
        => c.criteria

(* checkPath, checkReadPath and checkPathReal, as validate applies them *)
PathAllowed(c, p) == p \notin Escaping /\ (c.tool \in FileWriters => p \notin Protected)
Valid(c) == \A p \in c.paths : PathAllowed(c, p)

Admitted(c) ==
    /\ Known(c)
    /\ Available(c.tool)
    /\ Lane(c.tool)
    /\ LaneInput(c)
    /\ Valid(c)

-----------------------------------------------------------------------------
(* PolicyEngine.decide *)
HardSafety(c) ==
    \/ c.tool = "Write" /\ \E p \in c.paths : p \in Protected
    \/ IsShell(c) /\ Classify(c.command) = "dangerous"
    \/ c.tool = "ShellReadOnly" /\ Classify(c.command) # "readonly"

(* A rule is for all calls of its tool or for one head of a Shell command;  *)
(* since is the call whose prompt added it, 0 for a configured one.         *)
RuleMatches(r, c) ==
    /\ r.tool = c.tool
    /\ r.head = "any" \/ (IsShell(c) /\ c.command.parses /\ r.head = c.command.head)
HasRule(effect, c) == \E r \in rules : r.effect = effect /\ RuleMatches(r, c)

(* The permission of the tool itself *)
ShellPermission(c) ==
    CASE Classify(c.command) = "readonly" -> "allow"
      [] Classify(c.command) = "dangerous" \/ c.tool = "ShellReadOnly" -> "deny"
      [] OTHER -> "ask"
ToolPermission(c) ==
    IF IsShell(c) THEN ShellPermission(c)
    ELSE IF c.tool \in FileWriters THEN "ask" ELSE "allow"

(* A parse failure is not something a stored rule can have allowed. *)
UnbypassableAsk(c) ==
    ToolPermission(c) = "ask" /\ c.tool = "Shell" /\ Classify(c.command) = "unparseable"

ApplyMode(c) ==
    IF ReadOnly(c) \/ env.mode = "bypassPermissions" THEN "allow"
    ELSE IF env.mode \in {"plan", "dontAsk"} THEN "deny"
    ELSE IF env.mode = "acceptEdits" /\ c.tool \in FileWriters THEN "allow"
    ELSE "undecided"

(* resolveAsk: dontAsk and sessions without a keyboard are denied *)
ResolveAsk == IF env.mode = "dontAsk" \/ ~ env.interactive THEN "deny" ELSE "ask"

(* Faulty variant: an explicit allow is looked up before the deny rules. *)
DecideAllowFirst(c) ==
    IF HardSafety(c) THEN "deny"
    ELSE IF HasRule("allow", c) THEN "allow"
    ELSE IF HasRule("deny", c) THEN "deny"
    ELSE IF HasRule("ask", c) /\ env.mode # "bypassPermissions" THEN ResolveAsk
    ELSE IF ApplyMode(c) # "undecided" THEN ApplyMode(c)
    ELSE ResolveAsk

Decide(c) ==
    IF HardSafety(c) \/ HasRule("deny", c) THEN "deny"
    ELSE IF HasRule("ask", c) /\ env.mode # "bypassPermissions" THEN ResolveAsk
    ELSE IF ToolPermission(c) = "deny" THEN "deny"
    ELSE IF ApplyMode(c) # "undecided" THEN ApplyMode(c)
    ELSE IF HasRule("allow", c) /\ ~ UnbypassableAsk(c) THEN "allow"
    ELSE ResolveAsk

-----------------------------------------------------------------------------
Init ==
    /\ \E s \in Scenarios : calls = s.calls /\ env = s.env /\ rules = s.rules
    /\ launched = 0 /\ running = {}
    /\ phase = [i \in Index |-> "waiting"]
    /\ todo = [i \in Index |-> {}]
    /\ seen = [i \in Index |-> [p \in {} |-> 0]]
    /\ wrote = [i \in Index |-> {}]
    /\ result = [i \in Index |-> "none"]
    /\ prompt = 0 /\ said = {}
    /\ files = [p \in Paths \cup {IndexFile} |-> 0]
    /\ aborted = FALSE /\ faults = 0
    /\ facts = <<>>

Done(i) == phase[i] = "done"

(* Exclusive calls and conflicts wait for everything that was started; an   *)
(* exclusive call is waited for by what comes next.                         *)
Barrier(i) ==
    \/ IsExclusive(calls[i])
    \/ \E j \in running : \/ IsExclusive(calls[j])
                          \/ Conflicts(Claims(calls[i]), Claims(calls[j]))

(* The call ends with a result; ToolCallLedger takes one. *)
Settle(i, outcome) ==
    /\ phase' = [phase EXCEPT ![i] = "done"]
    /\ result' = [result EXCEPT ![i] = outcome]

(* The next call of the batch is started; in an aborted batch it does not   *)
(* run and gets its result at the end.                                      *)
StartCall ==
    LET i == launched + 1 IN
    /\ i \in Index
    /\ Barrier(i) => \A j \in running : Done(j)
    /\ launched' = i
    /\ running' = IF Barrier(i) THEN {i} ELSE running \cup {i}
    /\ phase' = [phase EXCEPT ![i] = IF aborted THEN "done" ELSE "gates"]
    /\ UNCHANGED <<callVars, rules, todo, seen, wrote, result, prompt, said, files, aborted,
                   faults, facts>>

(* The gates, then the policy, which may have to ask.  readline keeps one   *)
(* question: another one asked meanwhile is never put to the user.          *)
Check(i) ==
    LET c == calls[i] IN
    /\ phase[i] = "gates"
    /\ CASE ~ Admitted(c) -> Settle(i, "refused") /\ UNCHANGED prompt
         [] Admitted(c) /\ Decide(c) = "deny" -> Settle(i, "denied") /\ UNCHANGED prompt
         [] Admitted(c) /\ Decide(c) = "allow" ->
                /\ phase' = [phase EXCEPT ![i] = "allowed"]
                /\ UNCHANGED <<result, prompt>>
         [] Admitted(c) /\ Decide(c) = "ask" ->
                /\ phase' = [phase EXCEPT ![i] = "asking"]
                /\ prompt' = IF prompt = 0 THEN i ELSE prompt
                /\ UNCHANGED result
    /\ UNCHANGED <<callVars, rules, schedule, todo, seen, wrote, said, files, aborted, faults>>

(* proposeSessionRule: all calls of a tool, or Shell commands that begin    *)
(* like this one; none for what does not parse or interprets its arguments. *)
Proposed(i) ==
    LET c == calls[i] IN
    IF c.tool # "Shell" THEN {[effect |-> "allow", tool |-> c.tool, head |-> "any", since |-> i]}
    ELSE IF ~ c.command.parses \/ c.command.head = "node" THEN {}
    ELSE {[effect |-> "allow", tool |-> "Shell", head |-> c.command.head, since |-> i]}

(* Faulty variant: a question answered with no stays the open one. *)
AnswerKeepsPrompt(i, word) ==
    /\ phase[i] = "asking" /\ prompt = i
    /\ word = "always" => Proposed(i) # {}
    /\ IF word = "no"
       THEN Settle(i, "denied") /\ UNCHANGED <<said, rules, prompt>>
       ELSE /\ phase' = [phase EXCEPT ![i] = "allowed"]
            /\ prompt' = 0
            /\ said' = said \cup {i}
            /\ rules' = rules \cup (IF word = "always" THEN Proposed(i) ELSE {})
            /\ UNCHANGED result
    /\ UNCHANGED <<callVars, schedule, todo, seen, wrote, files, aborted, faults>>

(* askPermission: allow once, always, or deny *)
Answer(i, word) ==
    /\ phase[i] = "asking" /\ prompt = i
    /\ word = "always" => Proposed(i) # {}
    /\ prompt' = 0
    /\ IF word = "no"
       THEN Settle(i, "denied") /\ UNCHANGED <<said, rules>>
       ELSE /\ phase' = [phase EXCEPT ![i] = "allowed"]
            /\ said' = said \cup {i}
            /\ rules' = rules \cup (IF word = "always" THEN Proposed(i) ELSE {})
            /\ UNCHANGED result
    /\ UNCHANGED <<callVars, schedule, todo, seen, wrote, files, aborted, faults>>

(* The last look at the signal, then execute.  An edit of a patch that does *)
(* not match what the files hold ends it before anything is written.        *)
Execute(i, matches) ==
    LET c == calls[i] IN
    /\ phase[i] = "allowed"
    /\ ~ matches => c.tool \in FileWriters
    /\ IF aborted THEN Settle(i, "aborted") /\ UNCHANGED <<todo, seen>>
       ELSE IF ~ matches THEN Settle(i, "failed") /\ UNCHANGED <<todo, seen>>
       ELSE /\ phase' = [phase EXCEPT ![i] = "executing"]
            /\ todo' = [todo EXCEPT ![i] = c.paths]
            /\ seen' = [seen EXCEPT ![i] = [p \in IF c.tool \in FileWriters THEN c.paths ELSE {}
                                                |-> files[p]]]
            /\ UNCHANGED result
    /\ UNCHANGED <<callVars, rules, schedule, wrote, prompt, said, files, aborted, faults>>

ReadFile(i, p) ==
    /\ phase[i] = "executing" /\ p \in todo[i]
    /\ ~ Writes(calls[i])
    /\ seen' = [seen EXCEPT ![i] = [q \in DOMAIN @ \cup {p} |->
                                        IF q = p THEN files[p] ELSE @[q]]]
    /\ todo' = [todo EXCEPT ![i] = @ \ {p}]
    /\ UNCHANGED <<callVars, rules, schedule, phase, wrote, result, prompt, said, files,
                   aborted, faults>>

(* One file of a Write or a patch is replaced by rename *)
WriteFile(i, p) ==
    /\ phase[i] = "executing" /\ p \in todo[i]
    /\ Writes(calls[i])
    /\ files' = [files EXCEPT ![p] = i]
    /\ wrote' = [wrote EXCEPT ![i] = @ \cup {p}]
    /\ todo' = [todo EXCEPT ![i] = @ \ {p}]
    /\ UNCHANGED <<callVars, rules, schedule, phase, seen, result, prompt, said, aborted,
                   faults>>

(* Faulty variant: the failure is reported and what was written stays. *)
FailWriteKeeps(i) ==
    /\ phase[i] = "executing" /\ todo[i] # {}
    /\ calls[i].tool \in FileWriters
    /\ faults < MaxFaults
    /\ faults' = faults + 1
    /\ Settle(i, "failed")
    /\ UNCHANGED <<callVars, rules, schedule, todo, seen, wrote, prompt, said, files, aborted>>

(* A write fails: the files already written are restored from backups. *)
FailWrite(i) ==
    /\ phase[i] = "executing" /\ todo[i] # {}
    /\ calls[i].tool \in FileWriters
    /\ faults < MaxFaults
    /\ faults' = faults + 1
    /\ phase' = [phase EXCEPT ![i] = "rollback"]
    /\ todo' = [todo EXCEPT ![i] = calls[i].paths \ todo[i]]
    /\ UNCHANGED <<callVars, rules, schedule, seen, wrote, result, prompt, said, files, aborted>>

RestoreFile(i, p) ==
    /\ phase[i] = "rollback" /\ p \in todo[i]
    /\ files' = [files EXCEPT ![p] = seen[i][p]]
    /\ wrote' = [wrote EXCEPT ![i] = @ \ {p}]
    /\ todo' = [todo EXCEPT ![i] = @ \ {p}]
    /\ UNCHANGED <<callVars, rules, schedule, phase, seen, result, prompt, said, aborted,
                   faults>>

(* The rollback itself fails.  The InvariantError ends in the catch of      *)
(* executeOne like any error, so the batch goes on.                         *)
FailRollback(i) ==
    /\ phase[i] = "rollback" /\ todo[i] # {}
    /\ faults < MaxFaults
    /\ faults' = faults + 1
    /\ Settle(i, "rollback failed")
    /\ UNCHANGED <<callVars, rules, schedule, todo, seen, wrote, prompt, said, files, aborted>>

Finish(i) ==
    /\ phase[i] \in {"executing", "rollback"} /\ todo[i] = {}
    /\ Settle(i, IF phase[i] = "rollback" THEN "failed" ELSE "ok")
    /\ UNCHANGED <<callVars, rules, schedule, todo, seen, wrote, prompt, said, files, aborted, faults>>

(* interruptBehavior: the calls that can be cancelled stop where they are. *)
Abort ==
    /\ ~ aborted /\ launched > 0
    /\ aborted' = TRUE
    /\ UNCHANGED <<callVars, rules, schedule, phase, todo, seen, wrote, result, prompt, said, files,
                   faults>>

Cancel(i) ==
    /\ aborted
    /\ phase[i] = "executing" /\ calls[i].tool \notin FileWriters
    /\ Settle(i, "aborted")
    /\ UNCHANGED <<callVars, rules, schedule, todo, seen, wrote, prompt, said, files, aborted, faults>>

Ordered(S) == [k \in 1..Cardinality(S) |-> CHOOSE i \in S : Cardinality({j \in S : j <= i}) = k]

(* The events of the calls, in the order received, then the synthetic       *)
(* results of the calls that have none.                                     *)
Emit ==
    /\ facts = <<>>
    /\ launched = Len(calls) /\ \A i \in Index : Done(i)
    /\ facts' = Ordered({i \in Index : result[i] # "none"})
                    \o Ordered({i \in Index : result[i] = "none"})
    /\ UNCHANGED <<callVars, rules, launched, running, phase, todo, seen, wrote, result, prompt, said,
                   files, aborted, faults>>

Settled == facts # <<>> /\ UNCHANGED vars

Next ==
    \/ StartCall
    \/ \E i \in Index :
        \/ Check(i)
        \/ \E word \in {"yes", "always", "no"} : Answer(i, word)
        \/ \E matches \in BOOLEAN : Execute(i, matches)
        \/ \E p \in Paths \cup {IndexFile} : ReadFile(i, p) \/ WriteFile(i, p) \/ RestoreFile(i, p)
        \/ FailWrite(i) \/ FailRollback(i) \/ Finish(i) \/ Cancel(i)
    \/ Abort
    \/ Emit
    \/ Settled

Spec == Init /\ [][Next]_vars

(* What is ready runs, and the user answers the question on the screen. *)
FairSpec == Spec /\ WF_vars(Next)

-----------------------------------------------------------------------------
(* The variables have their types. *)
TypeOK ==
    /\ launched \in 0..Len(calls) /\ running \subseteq Index /\ prompt \in {0} \cup Index
    /\ phase \in [Index -> {"waiting", "gates", "asking", "allowed", "executing", "rollback", "done"}]
    /\ todo \in [Index -> SUBSET DOMAIN files]
    /\ wrote \in [Index -> SUBSET DOMAIN files]
    /\ \A i \in Index : DOMAIN seen[i] \subseteq DOMAIN files
    /\ result \in [Index -> {"none", "ok", "failed", "refused", "denied", "aborted",
                              "rollback failed"}]
    /\ files \in [Paths \cup {IndexFile} -> {0} \cup Index]
    /\ said \subseteq Index
    /\ faults \in 0..MaxFaults

(* Calls that run side by side give what one after the other would give:    *)
(* every call reads, and every writer keeps as its backup, what the calls   *)
(* received before it left behind.                                          *)
Serializable ==
    \A i \in Index : \A p \in DOMAIN seen[i] :
        seen[i][p] = Max({0} \cup {j \in Index : j < i /\ p \in wrote[j]})

(* "Either every file is written or none is" (ApplyPatch), unless restoring *)
(* the backups fails as well.                                               *)
PatchAtomic ==
    \A i \in Index : calls[i].tool = "ApplyPatch" /\ Done(i) =>
        \/ wrote[i] = IF result[i] = "ok" THEN calls[i].paths ELSE {}
        \/ result[i] = "rollback failed"

(* Whatever the order of questions, answers and calls, a file of the        *)
(* workspace is only changed with the consent of the user, given for the    *)
(* call, by a rule or by the mode, never in plan mode, under the write lock *)
(* or by a tool the supervisor's action withholds, and never a protected    *)
(* file by a file tool.                                                     *)
Consented(i) ==
    LET c == calls[i] IN
    \/ env.mode = "bypassPermissions"
    \/ i \in said
    \/ /\ ~ HasRule("ask", c)
       /\ \/ env.mode = "acceptEdits" /\ c.tool \in FileWriters
          \/ /\ \E r \in rules : r.effect = "allow" /\ r.since < i /\ RuleMatches(r, c)
             /\ IsShell(c) => c.command.parses
EffectsHaveConsent ==
    \A i \in Index : wrote[i] \cap Paths # {} =>
        /\ Consented(i) /\ ~ HasRule("deny", calls[i])
        /\ env.mode \notin {"plan", "dontAsk"} /\ ~ env.locked
        /\ env.action \notin {"repair_plan", "request_reapproval", "finish"}
        /\ env.action \in {"gather_evidence", "run_verification"} =>
                calls[i].tool = "Shell" /\ calls[i].criteria
        /\ calls[i].tool # "Shell" => wrote[i] \cap (Protected \cup Escaping) = {}

(* Every batch ends: each accepted call gets its terminal result            *)
(* (ToolCallLedger.ts: "including interrupts").  The exception is a batch   *)
(* in which two calls wait for the user at once.                            *)
TwoAsk == \E i, j \in Index : i # j /\ phase[i] = "asking" /\ phase[j] = "asking"
BatchSettles == <>(facts # <<>> \/ TwoAsk)
=============================================================================
