----------------------------- MODULE MCToolBatch -----------------------------
(* Finite instances of ToolBatch: pairs of calls of every shape under every *)
(* gate, batches of three that read and write the same files, and reads    *)
(* that have to ask.                                                        *)
EXTENDS ToolBatch

CONSTANTS p1, p2, p3, p4     \* p3 is protected, p4 a link out of the workspace

None == [head |-> "none", arg |-> "none", parses |-> FALSE]
Command(head, arg) == [head |-> head, arg |-> arg, parses |-> TRUE]
Call(tool, paths) ==
    [tool |-> tool, paths |-> paths, parses |-> TRUE, criteria |-> FALSE, command |-> None]
ShellCall(command, criteria, paths) ==
    [Call("Shell", paths) EXCEPT !.command = command, !.criteria = criteria]

Readers == {Call("Read", {p1}), Call("Grep", {p1, p2}), Call("FileAssert", {p2})}
Writers == {Call("Write", {p1}), Call("ApplyPatch", {p1, p2})}
Indexers == {Call("SearchCodeIndex", {IndexFile}), Call("RefreshCodeIndex", {IndexFile})}
Shells ==
    {ShellCall(cmd, criteria, {p2}) :
        cmd \in {Command("git", "other"), Command("node", "other"), Command("rm", "other"), None},
        criteria \in BOOLEAN}
    \cup {ShellCall(Command("ls", "none"), FALSE, {p1}),
          [Call("ShellReadOnly", {p1}) EXCEPT !.command = Command("find", "other")],
          [Call("ShellReadOnly", {p1}) EXCEPT !.command = Command("git", "audited")]}
Others ==
    {Call("TaskUpdate", {}), Call("PlanPropose", {}), Call("Unknown", {p1}),
     Call("Write", {p3}), Call("Write", {p4}), [Call("Write", {p1}) EXCEPT !.parses = FALSE]}

Env(mode, locked, action, replanning, interactive) ==
    [mode |-> mode, locked |-> locked, action |-> action, replanning |-> replanning,
     interactive |-> interactive]
Rule(effect, tool, head) == [effect |-> effect, tool |-> tool, head |-> head, since |-> 0]

Open == Env("default", FALSE, "none", FALSE, TRUE)
Modes == {"default", "acceptEdits", "plan", "dontAsk", "bypassPermissions"}
Actions == {"none", "continue_step", "resolve_blocker", "gather_evidence", "run_verification",
            "repair_plan", "request_reapproval", "finish"}
Environments ==
    {Env(mode, FALSE, "none", FALSE, interactive) : mode \in Modes, interactive \in BOOLEAN}
    \cup {Env("acceptEdits", FALSE, action, TRUE, TRUE) : action \in Actions}
    \cup {Env("bypassPermissions", TRUE, "none", FALSE, TRUE),
          Env("bypassPermissions", FALSE, "repair_plan", FALSE, TRUE)}
RuleSets ==
    {{}, {Rule("allow", "Shell", "any"), Rule("ask", "Write", "any")},
     {Rule("deny", "Write", "any"), Rule("allow", "Write", "any"), Rule("ask", "Shell", "git")}}

Scenario(cs, e, rs) == [calls |-> cs, env |-> e, rules |-> rs]

MCScenarios ==
    {Scenario(<<a, b>>, e, rs) :
        a \in Shells \cup Others \cup Writers, b \in Shells \cup Writers,
        e \in Environments, rs \in RuleSets}
    \cup {Scenario(<<a, b, c>>, Env("acceptEdits", FALSE, "continue_step", FALSE, TRUE), {}) :
            a, b, c \in Readers \cup Writers}
    \cup {Scenario(<<a, b>>, Open, {Rule("ask", "Read", "any")}) : a, b \in Readers}
    \cup {Scenario(<<a, b, c>>, Open, {}) : a, b, c \in Indexers \cup {Call("Grep", {p1, p2})}}
=============================================================================
