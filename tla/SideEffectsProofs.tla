-------------------------- MODULE SideEffectsProofs --------------------------
(***************************************************************************)
(* Theorems about side effects, for any operations, files, batches and      *)
(* number of crashes, failed turns and edits by others.                     *)
(***************************************************************************)
EXTENDS SideEffects, ReducerProofs

-----------------------------------------------------------------------------
(* The ledger and the effects it stands for. *)

Held == {"running", "started", "executed"}          \* the record was marked
Committing == {"cleared"} \cup Held                   \* past the guards
Pipeline == {"guard"} \cup Committing                 \* a call is being run

Queue ==
    /\ pc \in {"idle", "loop", "emit"} \cup Pipeline
    /\ calls \in Seq(Call) /\ (pc \in Pipeline => calls # <<>>)
    /\ ledger \in [Keys -> Statuses] /\ files \in [Paths -> Contents]

(* What the guards established still holds at the effect, and the record    *)
(* was marked.                                                              *)
Cleared ==
    /\ pc \in Held => Status = "running"
    /\ pc \in Committing => HasEffects
    /\ pc \in Committing \ {"executed"} =>
          /\ Current.op.tool = "Shell" => Current \notin spawned
          /\ Current.op.tool = "Write" => Current.op \notin applied

(* A command that was started has a record that no repeat gets past. *)
SpawnedIsRecorded ==
    \A c \in spawned : /\ c \in Call /\ c.op.tool = "Shell"
                       /\ ledger[c] \in {"running", "committed", "unknown"}

(* An effect that stands is in its file, and a Write that stands has a      *)
(* record that makes a repeat look at the file.                             *)
AppliedStands ==
    \A a \in applied :
        /\ a \in Ops /\ a.tool \in {"Write", "Edit"}
        /\ files[a.path] = a.content
        /\ a.tool = "Write" =>
               a \in Keys /\ ledger[a] \notin {"none", "resolved_not_applied"}

LedgerInv == Queue /\ Cleared /\ SpawnedIsRecorded /\ AppliedStands

(* The tools of an operation, and the fields that go with them *)
LEMMA OpFields ==
    ASSUME NEW op \in Ops
    PROVE  /\ op.tool \in {"Write", "Edit", "Shell", "FileAssert"}
           /\ op.tool \in {"Write", "Edit", "FileAssert"} => op.path \in Paths
           /\ op.tool \in {"Write", "Edit"} => op.content \in Contents
           /\ op.tool = "Edit" => op.expected # op.content
           /\ op.tool = "Shell" => op.validator \in BOOLEAN
<1>1. op \in WriteOps \cup EditOps \cup ShellOps \cup AssertOps
    BY OpsAreInputs
<1>2. op.tool = "Edit" => op \in EditOps
    BY <1>1 DEF WriteOps, EditOps, ShellOps, AssertOps
<1>3. op.tool = "Edit" => op.expected # op.content
    BY <1>2, EditsChangeText
<1> QED BY <1>1, <1>3 DEF WriteOps, EditOps, ShellOps, AssertOps

(* Commands have records of their own, and so have operations on files. *)
LEMMA KeysApart ==
    ASSUME NEW c \in Call
    PROVE  /\ c.op \in Ops /\ Key(c) \in Keys
           /\ c.op.tool = "Shell" => Key(c) = c
           /\ c.op.tool # "Shell" => Key(c) = c.op
           /\ \A d \in Call : c # d.op
<1>1. c.op \in Ops /\ Key(c) \in Keys
    BY DEF Call, Keys
<1>2. ASSUME NEW d \in Call PROVE c # d.op
    <2>1. DOMAIN c = {"id", "op"} /\ d.op \in Ops
        BY DEF Call
    <2>2. "tool" \in DOMAIN d.op
        <3>1. d.op \in WriteOps \cup EditOps \cup ShellOps \cup AssertOps
            BY <2>1, OpsAreInputs
        <3> QED BY <3>1 DEF WriteOps, EditOps, ShellOps, AssertOps
    <2> QED BY <2>1, <2>2
<1> QED BY <1>1, <1>2 DEF Key

(* The current call of a pipeline *)
LEMMA CurrentCall ==
    ASSUME Queue, pc \in Pipeline
    PROVE  /\ Current \in Call /\ Current.op \in Ops /\ Key(Current) \in Keys
           /\ Tail(calls) \in Seq(Call) /\ (Len(calls) # 1 => Tail(calls) # <<>>)
<1>1. calls \in Seq(Call) /\ calls # <<>>
    BY DEF Queue
<1>2. Len(calls) \in Nat /\ Len(calls) # 0
    BY <1>1
<1>3. Current \in Call
    BY <1>1, <1>2 DEF Current
<1>4. Tail(calls) \in Seq(Call) /\ Len(Tail(calls)) = Len(calls) - 1
    BY <1>1, <1>2
<1>5. Len(calls) # 1 => Tail(calls) # <<>>
    BY <1>2, <1>4
<1> QED BY <1>3, <1>4, <1>5, KeysApart

(* A settled call leaves the queue. *)
LEMMA SettleQueue ==
    ASSUME Queue, pc \in Pipeline, NEW facts, Settle(facts)
    PROVE  /\ calls' = Tail(calls) /\ calls' \in Seq(Call)
           /\ pc' \in {"emit", "guard"} /\ (pc' = "guard" => calls' # <<>>)
BY CurrentCall DEF Settle

(* Marking the record of the current call keeps the accounts, if a command  *)
(* is not forgotten and a Write that stands is not called absent.           *)
LEMMA MarkKeeps ==
    ASSUME LedgerInv, pc \in Pipeline, NEW status \in Statuses, ledger' = Marked(status),
           UNCHANGED <<spawned, applied, files>>,
           Current.op.tool = "Shell" => status \in {"running", "committed", "unknown"},
           Current.op.tool = "Write" /\ Current.op \in applied =>
                status \notin {"none", "resolved_not_applied"}
    PROVE  ledger' \in [Keys -> Statuses] /\ SpawnedIsRecorded' /\ AppliedStands'
<1> USE CurrentCall DEF LedgerInv
<1>1. /\ ledger \in [Keys -> Statuses]
      /\ ledger' = [ledger EXCEPT ![Key(Current)] = status]
    BY DEF Queue, Marked
<1>2. ledger' \in [Keys -> Statuses]
    BY <1>1
<1>3. ASSUME NEW c \in spawned
      PROVE  ledger'[c] \in {"running", "committed", "unknown"}
    <2>1. c \in Call /\ c.op.tool = "Shell" /\ ledger[c] \in {"running", "committed", "unknown"}
        BY DEF SpawnedIsRecorded
    <2>2. c \in Keys
        BY <2>1, KeysApart
    <2>3. c = Key(Current) => Current.op.tool = "Shell"
        BY <2>1, KeysApart
    <2> QED BY <1>1, <2>1, <2>2, <2>3
<1>4. ASSUME NEW a \in applied, a.tool = "Write"
      PROVE  a \in Keys /\ ledger'[a] \notin {"none", "resolved_not_applied"}
    <2>1. a \in Keys /\ ledger[a] \notin {"none", "resolved_not_applied"} /\ a \in Ops
        BY <1>4 DEF AppliedStands
    <2>2. a = Key(Current) => Current.op = a
        <3>1. PICK d \in Call : a = Key(d)
            BY <2>1 DEF Keys
        <3>2. a = d.op
            <4>1. CASE d.op.tool = "Shell"
                <5>1. DOMAIN a = {"id", "op"}
                    BY <3>1, <4>1, KeysApart DEF Call
                <5>2. "tool" \in DOMAIN a
                    <6>1. a \in WriteOps \cup EditOps \cup ShellOps \cup AssertOps
                        BY <2>1, OpsAreInputs
                    <6> QED BY <6>1 DEF WriteOps, EditOps, ShellOps, AssertOps
                <5> QED BY <5>1, <5>2
            <4>2. CASE d.op.tool # "Shell"
                BY <3>1, <4>2, KeysApart
            <4> QED BY <4>1, <4>2
        <3>3. a # Current
            BY <3>2, KeysApart
        <3> QED BY <3>3, KeysApart
    <2> QED BY <1>1, <1>4, <2>1, <2>2
<1> QED BY <1>2, <1>3, <1>4 DEF SpawnedIsRecorded, AppliedStands

(* Where nothing is cleared, the guards have nothing to keep. *)
LEMMA Unclear ==
    ASSUME pc' \notin Committing
    PROVE  Cleared'
BY DEF Cleared, Committing, Held

(* The guards *)
LEMMA GuardKeeps ==
    ASSUME LedgerInv, Guard
    PROVE  LedgerInv'
<1> USE DEF LedgerInv
<1>0. pc = "guard" /\ pc \in Pipeline /\ UNCHANGED <<files, applied, spawned>>
    BY DEF Guard, Refuse, Deduplicate, RefuseRepeat, Reopen, Admit, Pipeline, history
<1>1. CASE Refuse \/ RefuseRepeat
    <2>1. ledger' = ledger /\ \E facts : Settle(facts)
        BY <1>1 DEF Refuse, RefuseRepeat
    <2>2. Queue' /\ pc' \notin Committing
        BY <1>0, <2>1, SettleQueue DEF Queue, Pipeline, Committing, Held
    <2> QED BY <1>0, <2>1, <2>2, Unclear DEF SpawnedIsRecorded, AppliedStands
<1>2. CASE Deduplicate
    <2>1. Current.op.tool \in {"Write", "Edit"} /\ \E facts : Settle(facts)
        BY <1>2 DEF Deduplicate, Verifiable
    <2>2. ledger' = ledger \/ ledger' = Marked("resolved_applied")
        BY <1>2 DEF Deduplicate
    <2>3. ledger' \in [Keys -> Statuses] /\ SpawnedIsRecorded' /\ AppliedStands'
        <3>1. CASE ledger' = ledger
            BY <1>0, <3>1 DEF Queue, SpawnedIsRecorded, AppliedStands
        <3>2. CASE ledger' = Marked("resolved_applied")
            BY <1>0, <2>1, <3>2, MarkKeeps DEF Statuses
        <3> QED BY <2>2, <3>1, <3>2
    <2>4. Queue' /\ pc' \notin Committing
        BY <1>0, <2>1, <2>3, SettleQueue DEF Queue, Pipeline, Committing, Held
    <2> QED BY <2>3, <2>4, Unclear
<1>3. CASE Reopen
    <2>1. /\ Current.op.tool \in {"Write", "Edit"} /\ ~ Inspected
          /\ ledger' = Marked("resolved_not_applied") /\ pc' = "cleared" /\ calls' = calls
        BY <1>3 DEF Reopen, Verifiable
    <2>2. Current.op.tool = "Write" => Current.op \notin applied
        BY <2>1 DEF Inspected, InspectWrite, AppliedStands
    <2>3. ledger' \in [Keys -> Statuses] /\ SpawnedIsRecorded' /\ AppliedStands'
        BY <1>0, <2>1, <2>2, MarkKeeps DEF Statuses
    <2>4. Cleared'
        BY <1>0, <2>1, <2>2 DEF Cleared, Held, HasEffects, Mutates, Current
    <2> QED BY <1>0, <2>1, <2>3, <2>4 DEF Queue, Pipeline, Committing
<1>4. CASE Admit
    <2>1. /\ HasEffects /\ Status \in {"none", "resolved_not_applied"}
          /\ pc' = "cleared" /\ UNCHANGED <<calls, ledger>>
        <3>1. Status \in Statuses
            BY <1>0, CurrentCall DEF Status, Queue
        <3> QED BY <1>4, <3>1 DEF Admit, IsApplied, NeedsInspection, Statuses
    <2>2. Current.op.tool = "Shell" => Current \notin spawned
        BY <1>0, <2>1, CurrentCall, KeysApart DEF Status, SpawnedIsRecorded
    <2>3. Current.op.tool = "Write" => Current.op \notin applied
        BY <1>0, <2>1, CurrentCall, KeysApart DEF Status, AppliedStands
    <2>4. Cleared'
        BY <1>0, <2>1, <2>2, <2>3 DEF Cleared, Held, HasEffects, Mutates, Current
    <2> QED BY <1>0, <2>1, <2>4
            DEF Queue, Pipeline, Committing, SpawnedIsRecorded, AppliedStands
<1> QED BY <1>1, <1>2, <1>3, <1>4 DEF Guard

(* The durable steps and the effect *)
LEMMA EffectKeeps ==
    ASSUME LedgerInv, MarkRunning \/ StartMutation \/ Execute
    PROVE  LedgerInv'
<1> USE DEF LedgerInv
<1>1. CASE MarkRunning
    <2>1. /\ pc = "cleared" /\ ledger' = Marked("running") /\ pc' = "running"
          /\ UNCHANGED <<calls, files, applied, spawned>>
        BY <1>1 DEF MarkRunning, history
    <2>2. ledger' \in [Keys -> Statuses] /\ SpawnedIsRecorded' /\ AppliedStands'
        BY <2>1, MarkKeeps DEF Statuses, Pipeline, Committing
    <2>3. Status' = "running"
        BY <2>1, CurrentCall DEF Queue, Marked, Status, Current, Pipeline, Committing
    <2>4. Cleared'
        BY <2>1, <2>3 DEF Cleared, HasEffects, Mutates, Current, Committing, Held
    <2> QED BY <2>1, <2>2, <2>4 DEF Queue, Pipeline, Committing, Held
<1>2. CASE StartMutation
    <2>1. /\ pc = "running" /\ pc' = "started"
          /\ UNCHANGED <<calls, ledger, files, applied, spawned>>
        BY <1>2 DEF StartMutation, history
    <2>2. Cleared'
        BY <2>1 DEF Cleared, Status, HasEffects, Mutates, Current, Committing, Held
    <2> QED BY <2>1, <2>2 DEF Queue, Pipeline, Committing, Held, SpawnedIsRecorded, AppliedStands
<1>3. CASE ExecuteWrite \/ ExecuteEdit
    <2> DEFINE op == Current.op
    <2>1. /\ pc = "started" /\ op.tool \in {"Write", "Edit"} /\ pc' = "executed"
          /\ files' = [files EXCEPT ![op.path] = op.content]
          /\ applied' = {a \in applied : a.path # op.path} \cup {op}
          /\ UNCHANGED <<calls, ledger, spawned>>
        BY <1>3 DEF ExecuteWrite, ExecuteEdit, Replace, Standing
    <2>2. /\ op \in Ops /\ op.path \in Paths /\ op.content \in Contents
          /\ op \in Keys /\ ledger[op] = "running" /\ pc \in Pipeline
        <3>1. pc \in Pipeline /\ pc \in Held
            BY <2>1 DEF Pipeline, Committing, Held
        <3>2. op = Key(Current) /\ op \in Ops /\ op \in Keys
            BY <2>1, <3>1, CurrentCall, KeysApart
        <3>3. ledger[op] = "running"
            BY <3>1, <3>2 DEF Cleared, Status
        <3> QED BY <2>1, <3>1, <3>2, <3>3, OpFields
    <2>3. Queue'
        BY <2>1, <2>2 DEF Queue, Pipeline, Committing, Held
    <2>4. Cleared'
        BY <2>1 DEF Cleared, Status, HasEffects, Mutates, Current, Committing, Held
    <2>5. ASSUME NEW a \in applied'
          PROVE  /\ a \in Ops /\ a.tool \in {"Write", "Edit"} /\ files'[a.path] = a.content
                 /\ a.tool = "Write" =>
                       a \in Keys /\ ledger'[a] \notin {"none", "resolved_not_applied"}
        <3>1. CASE a = op
            BY <2>1, <2>2, <3>1 DEF Queue
        <3>2. CASE a \in applied /\ a.path # op.path
            <4>1. a.path \in Paths
                BY <3>2, OpFields DEF AppliedStands
            <4> QED BY <2>1, <3>2, <4>1 DEF AppliedStands, Queue
        <3> QED BY <2>1, <3>1, <3>2
    <2>6. SpawnedIsRecorded'
        BY <2>1 DEF SpawnedIsRecorded
    <2> QED BY <2>3, <2>4, <2>5, <2>6 DEF AppliedStands
<1>4. ASSUME NEW writes \in ShellWrites, NEW end \in ProcessEnds, ExecuteShell(writes, end)
      PROVE  LedgerInv'
    <2>1. /\ pc = "started" /\ Current.op.tool = "Shell" /\ pc' = "executed"
          /\ files' = [p \in Paths |-> IF writes = None \/ writes.path # p THEN files[p]
                                       ELSE writes.content]
          /\ applied' = IF writes = None THEN applied ELSE {a \in applied : a.path # writes.path}
          /\ spawned' = spawned \cup {Current} /\ UNCHANGED <<calls, ledger>>
        BY <1>4 DEF ExecuteShell, Standing
    <2>2. Current \in Call /\ ledger[Current] = "running"
        <3>1. pc \in Pipeline /\ pc \in Held
            BY <2>1 DEF Pipeline, Committing, Held
        <3>2. Current \in Call /\ Key(Current) = Current
            BY <2>1, <3>1, CurrentCall, KeysApart
        <3> QED BY <3>1, <3>2 DEF Cleared, Status
    <2>3. SpawnedIsRecorded'
        BY <2>1, <2>2 DEF SpawnedIsRecorded
    <2>4. Queue'
        BY <2>1 DEF Queue, Pipeline, Committing, Held, ShellWrites
    <2>5. Cleared'
        BY <2>1 DEF Cleared, Status, HasEffects, Mutates, Current, Committing, Held
    <2>6. ASSUME NEW a \in applied'
          PROVE  files'[a.path] = a.content /\ a \in applied
        <3>1. a \in applied /\ a.path \in Paths /\ files[a.path] = a.content
            BY <2>1, <2>6, OpFields DEF AppliedStands
        <3> QED BY <2>1, <2>6, <3>1
    <2>7. AppliedStands'
        BY <2>1, <2>6 DEF AppliedStands
    <2> QED BY <2>3, <2>4, <2>5, <2>7
<1>5. ASSUME NEW passed \in BOOLEAN, AssertFile(passed)
      PROVE  LedgerInv'
    <2>1. /\ pc = "guard" /\ UNCHANGED <<ledger, files, applied, spawned>>
          /\ \E facts : Settle(facts)
        BY <1>5 DEF AssertFile
    <2>2. Queue' /\ pc' \notin Committing
        BY <2>1, SettleQueue DEF Queue, Pipeline, Committing, Held
    <2> QED BY <2>1, <2>2, Unclear DEF SpawnedIsRecorded, AppliedStands
<1>6. CASE ExecuteThrows \/ SettleExecution \/ ThrowAfterEffect
    <2>1. /\ pc \in {"started", "executed"} /\ UNCHANGED <<files, applied, spawned>>
          /\ \E facts : Settle(facts)
          /\ \E status \in {"committed", "unknown"} : ledger' = Marked(status)
        BY <1>6 DEF ExecuteThrows, SettleExecution, ThrowAfterEffect, history
    <2>2. pc \in Pipeline
        BY <2>1 DEF Pipeline, Committing, Held
    <2>3. ledger' \in [Keys -> Statuses] /\ SpawnedIsRecorded' /\ AppliedStands'
        BY <2>1, <2>2, MarkKeeps DEF Statuses
    <2>4. Queue' /\ pc' \notin Committing
        BY <2>1, <2>2, <2>3, SettleQueue DEF Queue, Pipeline, Committing, Held
    <2> QED BY <2>3, <2>4, Unclear
<1> QED BY <1>1, <1>2, <1>3, <1>4, <1>5, <1>6 DEF Execute

(* Every step keeps the ledger in line with the effects. *)
LEMMA LedgerStep ==
    ASSUME LedgerInv, [Next]_vars
    PROVE  LedgerInv'
<1> USE DEF LedgerInv
<1>1. ASSUME UNCHANGED <<ledger, files, applied, spawned>>,
             pc' \in {"idle", "loop", "emit", "guard"}, calls' \in Seq(Call),
             pc' = "guard" => calls' # <<>>
      PROVE  LedgerInv'
    <2>1. Queue' /\ pc' \notin Committing
        BY <1>1 DEF Queue, Pipeline, Committing, Held
    <2> QED BY <1>1, <2>1, Unclear DEF SpawnedIsRecorded, AppliedStands
<1>2. calls \in Seq(Call) /\ <<>> \in Seq(Call)
    BY DEF Queue
<1>3. CASE StartTurn
    BY <1>1, <1>2, <1>3 DEF StartTurn, history
<1>4. ASSUME NEW batch \in Batches, RequestBatch(batch)
      PROVE  LedgerInv'
    <2>1. batch \in Seq(Call) /\ batch # <<>>
        <3>1. PICK n \in 1..MaxBatch : batch \in [1..n -> Call]
            BY DEF Batches
        <3>2. n \in Nat /\ n >= 1
            BY BoundsAreNaturals
        <3>3. batch \in Seq(Call) /\ Len(batch) = n
            BY <3>1, <3>2
        <3> QED BY <3>2, <3>3
    <2> QED BY <1>1, <1>4, <2>1 DEF RequestBatch, history
<1>5. CASE EmitFact \/ EndBatch \/ FailTurn
    BY <1>1, <1>2, <1>5 DEF EmitFact, EndBatch, FailTurn, history
<1>6. ASSUME NEW reason, EndRun(reason)
      PROVE  LedgerInv'
    BY <1>1, <1>2, <1>6 DEF EndRun
<1>7. CASE CrashAndResume
    BY <1>1, <1>2, <1>7 DEF CrashAndResume, history
<1>8. ASSUME NEW path \in Paths, NEW content \in Contents, ExternalEdit(path, content)
      PROVE  LedgerInv'
    <2>1. /\ files' = [files EXCEPT ![path] = content]
          /\ applied' = {a \in applied : a.path # path}
          /\ UNCHANGED <<pc, calls, ledger, spawned>>
        BY <1>8 DEF ExternalEdit, Standing
    <2>2. Queue' /\ Cleared' /\ SpawnedIsRecorded'
        BY <2>1 DEF Queue, Cleared, SpawnedIsRecorded, Status, HasEffects, Current
    <2>3. AppliedStands'
        BY <2>1, OpFields DEF AppliedStands, Queue
    <2> QED BY <2>2, <2>3
<1>9. CASE UNCHANGED vars
    BY <1>9 DEF vars, Queue, Cleared, SpawnedIsRecorded, AppliedStands, Status, HasEffects, Current
<1> QED BY <1>3, <1>4, <1>5, <1>6, <1>7, <1>8, <1>9, GuardKeeps, EffectKeeps DEF Next, Quit

(* The ledger starts empty. *)
LEMMA LedgerInit == Init => LedgerInv
<1> SUFFICES ASSUME Init PROVE LedgerInv
    OBVIOUS
<1>1. Queue
    BY OriginalIsContent DEF Init, Queue, Pipeline, Committing, Held, Statuses
<1>2. Cleared
    BY DEF Init, Cleared, Committing, Held
<1> QED BY <1>1, <1>2 DEF Init, LedgerInv, SpawnedIsRecorded, AppliedStands

(* Records, started commands and standing effects fit together in every     *)
(* reachable state, crashes included.                                       *)
THEOREM LedgerInvHolds == Spec => []LedgerInv
BY LedgerInit, LedgerStep, PTL DEF Spec

(* A Shell invocation is started at most once, however often its call is    *)
(* issued again and wherever a crash strikes.                               *)
THEOREM ShellIsStartedOnce == Spec => ShellStartsOnce
<1>1. LedgerInv /\ [Next]_vars =>
          [Executes /\ Current.op.tool = "Shell" => Current \notin spawned]_vars
    BY DEF LedgerInv, Cleared, Executes, Committing, Held
<1> QED BY <1>1, LedgerInvHolds, PTL DEF Spec, ShellStartsOnce

(* A file operation is not carried out again while its effect stands. *)
THEOREM EffectsAreNotRepeated == Spec => EffectNotRepeated
<1>1. LedgerInv /\ [Next]_vars =>
          [Executes /\ pc' = "executed" /\ Verifiable => Current.op \notin applied]_vars
    <2> SUFFICES ASSUME LedgerInv, Next, Executes, pc' = "executed", Verifiable
                 PROVE  Current.op \notin applied
        BY DEF Executes
    <2>1. CASE Current.op.tool = "Write"
        BY <2>1 DEF LedgerInv, Cleared, Executes, Committing, Held
    <2>2. CASE Current.op.tool = "Edit"
        <3>1. ExecuteEdit
            BY <2>2 DEF Executes, Next, StartTurn, RequestBatch, Guard, Refuse, Deduplicate,
                        RefuseRepeat, Reopen, Admit, MarkRunning, StartMutation, Execute,
                        ExecuteWrite, ExecuteThrows, ExecuteShell, AssertFile, SettleExecution,
                        ThrowAfterEffect, EmitFact, EndBatch, FailTurn, EndRun, ExternalEdit,
                        CrashAndResume, Quit, Settle
        <3>2. files[Current.op.path] = Current.op.expected
            BY <2>2, <3>1 DEF ExecuteEdit, ConflictsWith
        <3>3. Current.op \in applied => files[Current.op.path] = Current.op.content
            BY DEF LedgerInv, AppliedStands
        <3>4. Current.op \in Ops
            BY CurrentCall DEF LedgerInv, Executes, Pipeline, Committing, Held
        <3> QED BY <2>2, <3>2, <3>3, <3>4, OpFields
    <2> QED BY <2>1, <2>2 DEF Verifiable
<1> QED BY <1>1, LedgerInvHolds, PTL DEF Spec, EffectNotRepeated

-----------------------------------------------------------------------------
(* What tools changed is owed by the state a replay gives. *)

Receipt == [revision : Nat, scope : Scopes, bound : [Paths -> Contents \cup {None}]]

Fact ==
    [type : {"mutation"}, mutation : Nat, scope : Scopes, paths : SUBSET Paths]
    \cup [type : {"changed"}, mutation : Nat, path : Paths]
    \cup [type : {"evidence"}]
    \cup [type : {"completed"}, call : Calls, ok : BOOLEAN, conflict : BOOLEAN]

Pending(s) == s.workspace.pendingVerification

(* The obligation is dated by the revision, and its sources are not younger. *)
(* The pipeline runs no verifier.                                            *)
Dated(s) ==
    /\ s.lastVerification = None
    /\ Pending(s) # None =>
           /\ Pending(s).revision = s.workspace.revision
           /\ \A src \in Pending(s).sources : src.id \in Nat /\ src.id <= s.workspace.revision

Types ==
    /\ state \in AgentState /\ durable \in AgentState /\ turnStart \in AgentState
    /\ events \in Seq(Fact)
    /\ evidence \in [revision : Nat, changedPaths : SUBSET Paths, receipts : SUBSET Receipt]

(* A fact about a change in the buffer is about a mutation the journal has. *)
Announced(e, s) ==
    \A i \in DOMAIN e : e[i].type = "changed" => HasSource(s, e[i].mutation)

(* The journal names the mutation before its effect. *)
Journalled ==
    pc \in {"started", "executed"} =>
        /\ HasSource(durable, evidence.revision)
        /\ Current.op.tool = "Shell" => Pending(durable).scope = "workspace"
        /\ Current.op.tool \in {"Write", "Edit"} =>
               Current.op.path \in Pending(durable).changedPaths

DebtInv ==
    /\ Types
    /\ pc \in {"idle", "loop"} => events = <<>>
    /\ Dated(durable)
    /\ durable.workspace.revision = evidence.revision
    /\ Announced(events, durable)
    /\ Journalled
    /\ owed \subseteq Paths \cup {Everything} /\ unverified \subseteq owed
    /\ EffectsAreOwed

(* t owes at least what s owes, at the same revision. *)
Owes(s, t) ==
    /\ t.workspace.revision = s.workspace.revision
    /\ Pending(s) # None =>
           /\ Pending(t) # None
           /\ Pending(s).changedPaths \subseteq Pending(t).changedPaths
           /\ Pending(s).scope = "workspace" => Pending(t).scope = "workspace"
           /\ \A m : HasSource(s, m) => HasSource(t, m)

(* A state with the same workspace owes the same verification. *)
LEMMA SameDebt ==
    ASSUME NEW s \in AgentState, NEW t \in AgentState, Dated(s), t.workspace = s.workspace,
           t.lastVerification \in {None, s.lastVerification}
    PROVE  Dated(t) /\ Owes(s, t)
BY DEF Dated, Owes, Pending, HasSource

(* The reducer on a buffered fact that is not a mutation *)
LEMMA ReducedOwes ==
    ASSUME NEW s \in AgentState, Dated(s), NEW f \in Fact, f.type # "mutation",
           f.type = "changed" => HasSource(s, f.mutation)
    PROVE  Reduced(s, f) \in AgentState /\ Dated(Reduced(s, f)) /\ Owes(s, Reduced(s, f))
<1>1. CASE f.type = "changed"
    <2> DEFINE t == WorkspaceChanged(s, f.mutation, f.path, "modified")
               o == Pending(s)
    <2>1. f.mutation \in Nat /\ f.path \in Paths
        BY <1>1 DEF Fact
    <2>2. Reduced(s, f) = t
        BY <1>1 DEF Reduced
    <2>3. f.mutation # None
        BY <2>1, NoneIsAbsent
    <2>4. Prepared(s, f.mutation)
        BY <1>1, <2>3 DEF Prepared
    <2>5. /\ t \in AgentState /\ t.lastVerification = None
          /\ t.workspace.revision = s.workspace.revision
          /\ Pending(t) = ObservedObligation(s, f.mutation, f.path)
        BY <2>1, <2>4, WorkspaceChangedEffect, MutationsAreRevisions DEF Pending
    <2>6. o # None /\ o \in Obligation
        BY <1>1 DEF HasSource, Pending, AgentState, Workspace
    <2> DEFINE mark(src) == IF src.id = f.mutation THEN [src EXCEPT !.outcome = "changed"] ELSE src
    <2>7. Pending(t) = [o EXCEPT !.changedPaths = @ \cup {f.path},
                                 !.sources = {mark(src) : src \in @}]
        BY <2>4, <2>5 DEF ObservedObligation, Pending
    <2>8. ASSUME NEW src \in o.sources
          PROVE  mark(src).id = src.id
        BY <2>6 DEF Obligation, Source
    <2>9. /\ Pending(t).changedPaths = o.changedPaths \cup {f.path}
          /\ Pending(t).sources = {mark(src) : src \in o.sources}
          /\ Pending(t).scope = o.scope /\ Pending(t).revision = o.revision
        BY <2>6, <2>7 DEF Obligation
    <2>10. Pending(t) # None
        BY <2>1, <2>5, ObservedObligationType, MutationsAreRevisions, NoneIsAbsent
    <2> HIDE DEF t, o, mark
    <2>11. Dated(t)
        BY <2>5, <2>6, <2>8, <2>9 DEF Dated, o
    <2>12. ASSUME NEW m, HasSource(s, m) PROVE HasSource(t, m)
        BY <2>8, <2>9, <2>10, <2>12 DEF HasSource, Pending, o
    <2> QED BY <2>2, <2>5, <2>9, <2>10, <2>11, <2>12 DEF Owes, o
<1>2. CASE f.type = "evidence"
    <2>1. Reduced(s, f) = EvidenceRecorded(s)
        BY <1>2 DEF Reduced
    <2> QED BY <2>1, EvidenceRecordedEffect, SameDebt DEF SameVerification
<1>3. CASE f.type = "completed"
    <2>1. /\ Reduced(s, f) = ToolCallCompleted(s, f.call, f.ok, f.conflict)
          /\ f.call \in Calls /\ f.ok \in BOOLEAN /\ f.conflict \in BOOLEAN
        BY <1>3 DEF Reduced, Fact
    <2> QED BY <2>1, ToolCallCompletedEffect, SameDebt DEF SameVerification
<1> QED BY <1>1, <1>2, <1>3 DEF Fact

(* The reducer on a mutation fact *)
LEMMA ReducedMutation ==
    ASSUME NEW s \in AgentState, NEW f \in Fact, f.type = "mutation"
    PROVE  LET t == Reduced(s, f) IN
           /\ t = MutationStarted(s, f.mutation, f.scope, f.paths)
           /\ f.mutation \in Nat /\ f.scope \in Scopes /\ f.paths \subseteq Paths
           /\ t \in AgentState /\ t.lastVerification = None
           /\ t.workspace.revision = s.workspace.revision + 1
           /\ Pending(t) = PreparedObligation(s, f.mutation, f.scope, f.paths)
           /\ Pending(t) \in Obligation /\ Pending(t) # None
<1>1. f.mutation \in Nat /\ f.scope \in Scopes /\ f.paths \subseteq Paths
    BY DEF Fact
<1>2. Reduced(s, f) = MutationStarted(s, f.mutation, f.scope, f.paths)
    BY DEF Reduced
<1>3. PreparedObligation(s, f.mutation, f.scope, f.paths) \in Obligation
    BY <1>1, PreparedObligationType, MutationsAreRevisions
<1> QED BY <1>1, <1>2, <1>3, MutationStartedEffect, MutationsAreRevisions, NoneIsAbsent DEF Pending

(* Every buffered fact is reduced to a state. *)
LEMMA ReducedIsState ==
    ASSUME NEW s \in AgentState, NEW f \in Fact
    PROVE  Reduced(s, f) \in AgentState
<1>1. CASE f.type = "mutation"
    BY <1>1, ReducedMutation
<1>2. CASE f.type = "changed"
    <2>1. Reduced(s, f) = WorkspaceChanged(s, f.mutation, f.path, "modified")
        BY <1>2 DEF Reduced
    <2>2. f.mutation \in Mutations /\ f.path \in Paths
        BY <1>2, MutationsAreRevisions DEF Fact
    <2> QED BY <2>1, <2>2, WorkspaceChangedEffect
<1>3. CASE f.type = "evidence"
    BY <1>3, EvidenceRecordedEffect DEF Reduced
<1>4. CASE f.type = "completed"
    <2>1. /\ Reduced(s, f) = ToolCallCompleted(s, f.call, f.ok, f.conflict)
          /\ f.call \in Calls /\ f.ok \in BOOLEAN /\ f.conflict \in BOOLEAN
        BY <1>4 DEF Reduced, Fact
    <2> QED BY <2>1, ToolCallCompletedEffect
<1> QED BY <1>1, <1>2, <1>3, <1>4 DEF Fact

(* Announcements survive where the debt does. *)
LEMMA StillAnnounced ==
    ASSUME NEW e, NEW s, NEW t, Announced(e, s), \A m : HasSource(s, m) => HasSource(t, m)
    PROVE  Announced(e, t)
BY DEF Announced

(* Facts appended to the buffer, and taken from its head *)
LEMMA BufferAppends ==
    ASSUME NEW e \in Seq(Fact), NEW g \in Seq(Fact)
    PROVE  /\ e \o g \in Seq(Fact)
           /\ DOMAIN (e \o g) = 1..(Len(e) + Len(g))
           /\ \A i \in DOMAIN (e \o g) : (e \o g)[i] = IF i <= Len(e) THEN e[i] ELSE g[i - Len(e)]
           /\ DOMAIN e = 1..Len(e) /\ DOMAIN g = 1..Len(g) /\ Len(e) \in Nat /\ Len(g) \in Nat
OBVIOUS

(* The first buffered fact and the others. *)
LEMMA BufferTail ==
    ASSUME NEW e \in Seq(Fact), e # <<>>
    PROVE  /\ Head(e) \in Fact /\ Head(e) = e[1] /\ 1 \in DOMAIN e
           /\ Tail(e) \in Seq(Fact) /\ Len(e) \in Nat /\ Len(e) >= 1
           /\ DOMAIN e = 1..Len(e) /\ DOMAIN Tail(e) = 1..(Len(e) - 1)
           /\ \A i \in DOMAIN Tail(e) : Tail(e)[i] = e[i + 1] /\ i + 1 \in DOMAIN e
OBVIOUS

(* Facts that are announced stay so in one buffer. *)
LEMMA AnnouncedAppend ==
    ASSUME NEW s, NEW e \in Seq(Fact), NEW g \in Seq(Fact), Announced(e, s), Announced(g, s)
    PROVE  Announced(e \o g, s)
<1> SUFFICES ASSUME NEW i \in DOMAIN (e \o g), (e \o g)[i].type = "changed"
             PROVE  HasSource(s, (e \o g)[i].mutation)
    BY DEF Announced
<1>1. CASE i <= Len(e)
    BY <1>1, BufferAppends DEF Announced
<1>2. CASE ~ (i <= Len(e))
    <2>1. i - Len(e) \in DOMAIN g /\ (e \o g)[i] = g[i - Len(e)]
        BY <1>2, BufferAppends
    <2> QED BY <2>1 DEF Announced
<1> QED BY <1>1, <1>2

(* A fact that is no observed change needs no announcement. *)
LEMMA AnnouncedOne ==
    ASSUME NEW s, NEW e \in Seq(Fact), NEW f \in Fact, Announced(e, s), f.type # "changed"
    PROVE  Append(e, f) \in Seq(Fact) /\ Announced(Append(e, f), s)
<1>1. /\ Append(e, f) \in Seq(Fact) /\ DOMAIN Append(e, f) = 1..(Len(e) + 1) /\ Len(e) \in Nat
      /\ \A i \in 1..(Len(e) + 1) :
            Append(e, f)[i] = IF i = Len(e) + 1 THEN f ELSE e[i]
      /\ DOMAIN e = 1..Len(e)
    OBVIOUS
<1> QED BY <1>1 DEF Announced

(* Taking the first fact leaves an announced buffer. *)
LEMMA AnnouncedTail ==
    ASSUME NEW s, NEW e \in Seq(Fact), e # <<>>, Announced(e, s)
    PROVE  Announced(Tail(e), s) /\ (Head(e).type = "changed" => HasSource(s, Head(e).mutation))
BY BufferTail DEF Announced

(* A call settles with facts about nothing new. *)
LEMMA SettleEvents ==
    ASSUME DebtInv, Queue, pc \in Pipeline, NEW facts \in Seq(Fact), Announced(facts, durable),
           Settle(facts)
    PROVE  /\ events' \in Seq(Fact) /\ Announced(events', durable)
           /\ pc' \in {"emit", "guard"}
BY AnnouncedAppend, BufferAppends, SettleQueue DEF Settle, DebtInv, Types

(* The completion of the current call is a fact about no file. *)
LEMMA CompletedIsFact ==
    ASSUME Queue, pc \in Pipeline, NEW ok \in BOOLEAN, NEW conflict \in BOOLEAN
    PROVE  /\ Completed(ok, conflict) \in Fact /\ Completed(ok, conflict).type = "completed"
           /\ <<Completed(ok, conflict)>> \in Seq(Fact)
           /\ \A s : Announced(<<Completed(ok, conflict)>>, s)
<1>1. Completed(ok, conflict) \in Fact /\ Completed(ok, conflict).type = "completed"
    BY CurrentCall DEF Completed, Fact, Call
<1> QED BY <1>1 DEF Announced

(* A step that opens no mutation and has no effect of its own *)
LEMMA QuietDebt ==
    ASSUME DebtInv, Types', Dated(durable'), Owes(durable, durable'),
           evidence'.revision = evidence.revision,
           owed' = owed, unverified' \subseteq unverified,
           Announced(events', durable),
           pc' \in {"idle", "loop"} => events' = <<>>,
           pc' \in {"started", "executed"} => pc \in {"started", "executed"} /\ calls' = calls
    PROVE  DebtInv'
<1> USE DEF DebtInv
<1>1. ASSUME NEW m, HasSource(durable, m) PROVE HasSource(durable', m)
    BY <1>1 DEF Owes, HasSource, Pending
<1>2. Announced(events', durable')
    BY <1>1, StillAnnounced
<1>3. Journalled'
    BY <1>1 DEF Journalled, Owes, Current, HasSource, Pending
<1>4. EffectsAreOwed'
    BY DEF EffectsAreOwed, Owes, Pending
<1>5. durable'.workspace.revision = evidence'.revision
    BY DEF Owes
<1> QED BY <1>2, <1>3, <1>4, <1>5

(* The guards and the steps that settle a call *)
LEMMA SettleDebt ==
    ASSUME DebtInv, LedgerInv, Guard \/ MarkRunning \/ ExecuteThrows \/ SettleExecution
                               \/ ThrowAfterEffect \/ \E passed \in BOOLEAN : AssertFile(passed)
    PROVE  DebtInv'
<1>0. Owes(durable, durable) /\ Dated(durable) /\ Types
    BY DEF Owes, DebtInv
<1>1. ASSUME UNCHANGED <<state, durable, turnStart, owed>>, unverified' \subseteq unverified,
             evidence' \in [revision : Nat, changedPaths : SUBSET Paths, receipts : SUBSET Receipt],
             evidence'.revision = evidence.revision, pc \in Pipeline,
             NEW facts \in Seq(Fact), Announced(facts, durable), Settle(facts)
      PROVE  DebtInv'
    <2>1. events' \in Seq(Fact) /\ Announced(events', durable) /\ pc' \in {"emit", "guard"}
        BY <1>1, SettleEvents DEF LedgerInv
    <2>2. Types' /\ Dated(durable') /\ Owes(durable, durable')
        BY <1>0, <1>1, <2>1 DEF Types
    <2> QED BY <1>1, <2>1, <2>2, QuietDebt
<1>2. ASSUME UNCHANGED <<state, durable, turnStart, evidence, owed, unverified, calls, events>>,
             pc \in Pipeline, pc' \in {"cleared", "running"}
      PROVE  DebtInv'
    BY <1>0, <1>2, QuietDebt DEF Types, DebtInv, Pipeline
<1>3. evidence \in [revision : Nat, changedPaths : SUBSET Paths, receipts : SUBSET Receipt]
    BY <1>0 DEF Types
<1>4. CASE Guard \/ ExecuteThrows \/ ThrowAfterEffect \/ MarkRunning
    <2>1. UNCHANGED <<state, durable, turnStart, evidence, owed, unverified>> /\ pc \in Pipeline
        BY <1>4 DEF Guard, Refuse, Deduplicate, RefuseRepeat, Reopen, Admit, MarkRunning,
                    ExecuteThrows, ThrowAfterEffect, history, Pipeline, Committing, Held
    <2>2. \/ \E ok, conflict \in BOOLEAN : Settle(<<Completed(ok, conflict)>>)
          \/ pc' \in {"cleared", "running"} /\ UNCHANGED <<calls, events>>
        BY <1>4 DEF Guard, Refuse, Deduplicate, RefuseRepeat, Reopen, Admit, MarkRunning,
                    ExecuteThrows, ThrowAfterEffect, ConflictsWith
    <2>3. CASE pc' \in {"cleared", "running"} /\ UNCHANGED <<calls, events>>
        BY <1>2, <2>1, <2>3
    <2>4. ASSUME NEW ok \in BOOLEAN, NEW conflict \in BOOLEAN, Settle(<<Completed(ok, conflict)>>)
          PROVE  DebtInv'
        BY <1>1, <1>3, <2>1, <2>4, CompletedIsFact DEF LedgerInv
    <2> QED BY <2>2, <2>3, <2>4
<1>5. CASE SettleExecution
    <2>1. /\ pc = "executed" /\ pc \in Pipeline
          /\ UNCHANGED <<state, durable, turnStart, evidence, owed, unverified>>
        BY <1>5 DEF SettleExecution, history, Pipeline, Committing, Held
    <2> DEFINE facts == Append(ChangeFacts, Completed(PostconditionHolds, FALSE))
    <2>2. ChangeFacts \in Seq(Fact) /\ Announced(ChangeFacts, durable)
        <3>1. Current.op \in Ops
            BY <2>1, CurrentCall DEF LedgerInv
        <3>2. CASE Verifiable
            <4>1. /\ ChangeFacts = <<[type |-> "changed", mutation |-> evidence.revision,
                                      path |-> Current.op.path]>>
                  /\ Current.op.path \in Paths
                BY <3>1, <3>2, OpFields DEF ChangeFacts, Verifiable
            <4>2. HasSource(durable, evidence.revision)
                BY <2>1 DEF DebtInv, Journalled
            <4> QED BY <1>3, <4>1, <4>2 DEF Fact, Announced
        <3>3. CASE ~ Verifiable
            BY <3>3 DEF ChangeFacts, Fact, Announced
        <3> QED BY <3>2, <3>3
    <2>3. PostconditionHolds \in BOOLEAN
        BY DEF PostconditionHolds
    <2>4. /\ Completed(PostconditionHolds, FALSE) \in Fact
          /\ Completed(PostconditionHolds, FALSE).type = "completed"
        BY <2>1, <2>3, CompletedIsFact DEF LedgerInv
    <2>5. facts \in Seq(Fact) /\ Announced(facts, durable)
        BY <2>2, <2>4, AnnouncedOne
    <2> QED BY <1>1, <1>3, <1>5, <2>1, <2>5 DEF SettleExecution
<1>6. ASSUME NEW passed \in BOOLEAN, AssertFile(passed)
      PROVE  DebtInv'
    <2> DEFINE facts == <<[type |-> "evidence"], Completed(TRUE, FALSE)>>
    <2>1. /\ pc = "guard" /\ pc \in Pipeline /\ Settle(facts)
          /\ UNCHANGED <<state, durable, turnStart, owed>> /\ unverified' \subseteq unverified
        BY <1>6 DEF AssertFile, Pipeline
    <2>2. facts \in Seq(Fact) /\ Announced(facts, durable)
        <3>1. Completed(TRUE, FALSE) \in Fact /\ Completed(TRUE, FALSE).type = "completed"
            BY <2>1, CompletedIsFact DEF LedgerInv
        <3>2. [type |-> "evidence"] \in Fact
            BY DEF Fact
        <3>3. <<[type |-> "evidence"]>> \in Seq(Fact)
            BY <3>2
        <3>4. Announced(<<[type |-> "evidence"]>>, durable)
            BY DEF Announced
        <3>5. facts = Append(<<[type |-> "evidence"]>>, Completed(TRUE, FALSE))
            <4>1. \A a, b : <<a, b>> = Append(<<a>>, b)
                OBVIOUS
            <4> QED BY <4>1
        <3> QED BY <3>1, <3>3, <3>4, <3>5, AnnouncedOne
    <2>3. /\ evidence' \in [revision : Nat, changedPaths : SUBSET Paths,
                            receipts : SUBSET Receipt]
          /\ evidence'.revision = evidence.revision
        <3>1. Current.op.path \in Paths /\ files \in [Paths -> Contents]
            <4>1. Current.op \in Ops /\ Current.op.tool = "FileAssert"
                BY <1>6, <2>1, CurrentCall DEF LedgerInv, AssertFile, HasEffects, Mutates
            <4> QED BY <4>1, OpFields DEF LedgerInv, Queue
        <3> DEFINE bound == [NoBinding EXCEPT ![Current.op.path] = files[Current.op.path]]
        <3>2. [revision |-> evidence.revision, scope |-> "paths", bound |-> bound] \in Receipt
            BY <1>3, <3>1 DEF Receipt, NoBinding, Scopes
        <3>3. evidence' = evidence \/ Recorded("paths", bound)
            BY <1>6 DEF AssertFile
        <3> HIDE DEF bound
        <3> QED BY <1>3, <3>2, <3>3 DEF Recorded
    <2> QED BY <1>1, <2>1, <2>2, <2>3
<1> QED BY <1>4, <1>5, <1>6

(* The mutation fact is in the journal before its effect. *)
LEMMA MutationFactIsFact ==
    ASSUME DebtInv, LedgerInv, pc \in Committing
    PROVE  /\ MutationFact \in Fact /\ MutationFact.type = "mutation"
           /\ MutationFact.mutation = evidence.revision + 1
           /\ Current.op.tool = "Shell" => MutationFact.scope = "workspace"
           /\ Current.op.tool \in {"Write", "Edit"} => MutationFact.paths = {Current.op.path}
<1>1. Current.op \in Ops /\ Current.op.tool # "FileAssert"
    <2>1. pc \in Pipeline
        BY DEF Pipeline
    <2> QED BY <2>1, CurrentCall DEF LedgerInv, Cleared, HasEffects, Mutates
<1>2. Current.op.tool # "Shell" => Current.op.path \in Paths
    BY <1>1, OpFields
<1>3. evidence.revision \in Nat
    BY DEF DebtInv, Types
<1> QED BY <1>1, <1>2, <1>3 DEF MutationFact, Fact, Scopes

(* The intent of a mutation is journalled before the file changes. *)
LEMMA MutationDebt ==
    ASSUME DebtInv, LedgerInv, StartMutation
    PROVE  DebtInv'
<1> DEFINE f == MutationFact
           o == Pending(durable')
<1> USE DEF DebtInv
<1>1. /\ pc = "running" /\ pc' = "started" /\ pc \in Committing
      /\ durable' = Reduced(durable, f) /\ events' = Append(events, f)
      /\ evidence' = [evidence EXCEPT !.revision = @ + 1,
                                      !.changedPaths = @ \cup f.paths]
      /\ UNCHANGED <<state, turnStart, calls, owed, unverified>>
    BY DEF StartMutation, BumpWorkspaceRevision, history, Committing, Held
<1>2. /\ f \in Fact /\ f.type = "mutation" /\ f.mutation = evidence.revision + 1
      /\ Current.op.tool = "Shell" => f.scope = "workspace"
      /\ Current.op.tool \in {"Write", "Edit"} => f.paths = {Current.op.path}
    BY <1>1, MutationFactIsFact
<1> HIDE DEF f
<1>3. /\ evidence \in [revision : Nat, changedPaths : SUBSET Paths, receipts : SUBSET Receipt]
      /\ durable \in AgentState
    BY DEF Types
<1>4. /\ durable' \in AgentState /\ durable'.lastVerification = None
      /\ durable'.workspace.revision = durable.workspace.revision + 1
      /\ o = PreparedObligation(durable, f.mutation, f.scope, f.paths)
      /\ o \in Obligation /\ o # None /\ f.paths \subseteq Paths /\ f.scope \in Scopes
    BY <1>1, <1>2, <1>3, ReducedMutation
<1>5. /\ evidence' \in [revision : Nat, changedPaths : SUBSET Paths, receipts : SUBSET Receipt]
      /\ evidence'.revision = evidence.revision + 1
    <2>1. evidence.revision + 1 \in Nat /\ evidence.changedPaths \cup f.paths \in SUBSET Paths
        BY <1>3, <1>4
    <2> QED BY <1>1, <1>3, <2>1
<1>6. /\ o.revision = durable.workspace.revision + 1
      /\ o.scope = IF Prior(durable).scope = "workspace" THEN "workspace" ELSE f.scope
      /\ o.changedPaths = Prior(durable).changedPaths \cup f.paths
      /\ o.sources = Prior(durable).sources \cup {[id |-> f.mutation, outcome |-> "unknown"]}
    BY <1>4 DEF PreparedObligation
<1> HIDE DEF o
<1>7. Types'
    BY <1>1, <1>2, <1>4, <1>5 DEF Types
<1>8. Dated(durable')
    <2>1. durable.workspace.revision \in Nat
        BY <1>3 DEF AgentState, Workspace
    <2>2. ASSUME NEW src \in o.sources
          PROVE  src.id \in Nat /\ src.id <= durable.workspace.revision + 1
        <3>1. CASE src \in Prior(durable).sources
            <4>1. Pending(durable) # None /\ src \in Pending(durable).sources
                BY <3>1 DEF Prior, Pending
            <4> QED BY <2>1, <4>1 DEF Dated
        <3>2. CASE src.id = f.mutation
            BY <1>2, <1>3, <2>1, <3>2
        <3> QED BY <1>6, <3>1, <3>2
    <2> QED BY <1>4, <1>6, <2>2 DEF Dated, o
<1>9. /\ HasSource(durable', evidence'.revision)
      /\ \A m : HasSource(durable, m) => HasSource(durable', m)
      /\ Pending(durable) # None => /\ Pending(durable).changedPaths \subseteq o.changedPaths
                                    /\ Pending(durable).scope = "workspace" => o.scope = "workspace"
    <2>1. Pending(durable) # None => Prior(durable) = Pending(durable)
        BY DEF Prior, Pending
    <2>2. [id |-> f.mutation, outcome |-> "unknown"] \in o.sources
        BY <1>6
    <2>3. HasSource(durable', f.mutation)
        BY <1>4, <2>2 DEF HasSource, Pending, o
    <2>4. ASSUME NEW m, HasSource(durable, m) PROVE HasSource(durable', m)
        BY <1>4, <1>6, <2>1, <2>4 DEF HasSource, Pending, o
    <2> QED BY <1>2, <1>5, <1>6, <2>1, <2>3, <2>4
<1>10. Announced(events', durable')
    <2>1. Announced(events', durable)
        BY <1>1, <1>2, AnnouncedOne DEF Types
    <2> QED BY <1>9, <2>1, StillAnnounced
<1>11. Journalled'
    <2>1. Current' = Current
        BY <1>1 DEF Current
    <2> QED BY <1>2, <1>6, <1>9, <2>1 DEF Journalled, o
<1>12. EffectsAreOwed'
    BY <1>1, <1>4, <1>9 DEF EffectsAreOwed, Pending, o
<1> QED BY <1>1, <1>3, <1>4, <1>5, <1>7, <1>8, <1>10, <1>11, <1>12

(* The effect is owed: the journal names it already. *)
LEMMA EffectDebt ==
    ASSUME DebtInv, LedgerInv,
           ExecuteWrite \/ ExecuteEdit
           \/ \E writes \in ShellWrites, end \in ProcessEnds : ExecuteShell(writes, end)
    PROVE  DebtInv'
<1> USE DEF DebtInv
<1>0. pc = "started" /\ pc \in Pipeline /\ HasSource(durable, evidence.revision)
    BY DEF ExecuteWrite, ExecuteEdit, ExecuteShell, Pipeline, Committing, Held, Journalled
<1>1. Current.op \in Ops
    BY <1>0, CurrentCall DEF LedgerInv
<1>2. ASSUME UNCHANGED <<state, durable, turnStart, calls, events>>, pc' = "executed", Types',
             evidence'.revision = evidence.revision,
             NEW what \in Paths \cup {Everything},
             owed' = owed \cup {what}, unverified' \subseteq owed',
             what \in Paths => what \in Pending(durable).changedPaths,
             what = Everything => Pending(durable).scope = "workspace"
      PROVE  DebtInv'
    <2>1. Journalled'
        BY <1>0, <1>2 DEF Journalled, Current
    <2>2. EffectsAreOwed'
        <3>1. Pending(durable) # None
            BY <1>0 DEF HasSource, Pending
        <3> QED BY <1>2, <3>1 DEF EffectsAreOwed, Pending
    <2> QED BY <1>2, <2>1, <2>2
<1>3. CASE ExecuteWrite \/ ExecuteEdit
    <2>1. Current.op.tool \in {"Write", "Edit"} /\ Replace(Current.op)
        BY <1>3 DEF ExecuteWrite, ExecuteEdit
    <2>2. Current.op.path \in Paths /\ Current.op.path \in Pending(durable).changedPaths
        BY <1>0, <1>1, <2>1, OpFields DEF Journalled
    <2>3. /\ UNCHANGED <<state, durable, turnStart, calls, events, evidence>> /\ pc' = "executed"
          /\ owed' = owed \cup {Current.op.path} /\ unverified' = owed'
        BY <2>1 DEF Replace, Owe
    <2>4. Types'
        BY <2>3 DEF Types
    <2> QED BY <1>2, <2>2, <2>3, <2>4, EverythingIsNoPath
<1>4. ASSUME NEW writes \in ShellWrites, NEW end \in ProcessEnds, ExecuteShell(writes, end)
      PROVE  DebtInv'
    <2>1. /\ UNCHANGED <<state, durable, turnStart, calls, events>> /\ pc' = "executed"
          /\ owed' = owed \cup {Everything} /\ unverified' \subseteq owed'
          /\ Current.op.tool = "Shell"
        BY <1>4 DEF ExecuteShell
    <2>2. evidence' = evidence \/ Recorded("workspace", ChangedVersions(files'))
        BY <1>4 DEF ExecuteShell
    <2>3. files' \in [Paths -> Contents]
        BY <1>4 DEF ExecuteShell, ShellWrites, LedgerInv, Queue
    <2>4. [revision |-> evidence.revision, scope |-> "workspace",
           bound |-> ChangedVersions(files')] \in Receipt
        BY <2>3 DEF Types, Receipt, ChangedVersions, Scopes
    <2>5. Types' /\ evidence'.revision = evidence.revision
        BY <2>1, <2>2, <2>4 DEF Types, Recorded
    <2>6. Pending(durable).scope = "workspace"
        BY <1>0, <2>1 DEF Journalled
    <2> QED BY <1>2, <2>1, <2>5, <2>6, EverythingIsNoPath
<1> QED BY <1>3, <1>4

(* The reducer steps of a turn, and the resume, keep the debt. *)
LEMMA TurnKeepsDebt ==
    ASSUME NEW s \in AgentState, Dated(s)
    PROVE  /\ HumanMessage(s) \in AgentState /\ Dated(HumanMessage(s)) /\ Owes(s, HumanMessage(s))
           /\ \A n : /\ ToolResultsReady(s, n) \in AgentState /\ Dated(ToolResultsReady(s, n))
                     /\ Owes(s, ToolResultsReady(s, n))
           /\ \A ids \in SUBSET Calls :
                 LET t == ToolCallsAccepted(AssistantMessage(s), ids) IN
                 t \in AgentState /\ Dated(t) /\ Owes(s, t)
           /\ Interrupted(s) \in AgentState /\ Dated(Interrupted(s)) /\ Owes(s, Interrupted(s))
           /\ \A reason :
                 LET t == RunTerminated(s, reason) IN
                 /\ t \in AgentState /\ Dated(t) /\ t.workspace.revision = s.workspace.revision
                 /\ reason \notin CleanEnds => Owes(s, t)
                 /\ reason \in CleanEnds => Pending(t) = None
<1>1. HumanMessage(s) \in AgentState /\ Dated(HumanMessage(s)) /\ Owes(s, HumanMessage(s))
    BY HumanMessageEffect, SameDebt
<1>2. ASSUME NEW n
      PROVE  /\ ToolResultsReady(s, n) \in AgentState /\ Dated(ToolResultsReady(s, n))
             /\ Owes(s, ToolResultsReady(s, n))
    BY ToolResultsReadyEffect, SameDebt DEF SameVerification
<1>3. ASSUME NEW ids \in SUBSET Calls
      PROVE  LET t == ToolCallsAccepted(AssistantMessage(s), ids) IN
             t \in AgentState /\ Dated(t) /\ Owes(s, t)
    BY AssistantMessageEffect, ToolCallsAcceptedEffect, SameDebt DEF SameVerification
<1>4. Interrupted(s) \in AgentState /\ Dated(Interrupted(s)) /\ Owes(s, Interrupted(s))
    BY SnapshotRestoredEffect, CallsInterruptedEffect, SameDebt DEF SameVerification, Interrupted
<1>5. ASSUME NEW reason
      PROVE  LET t == RunTerminated(s, reason) IN
             /\ t \in AgentState /\ Dated(t) /\ t.workspace.revision = s.workspace.revision
             /\ reason \notin CleanEnds => Owes(s, t)
             /\ reason \in CleanEnds => Pending(t) = None
    <2> DEFINE t == RunTerminated(s, reason)
    <2>1. /\ t \in AgentState /\ t.lastVerification = s.lastVerification
          /\ t.workspace.revision = s.workspace.revision
          /\ Pending(t) = IF reason \in CleanEnds THEN None ELSE Pending(s)
        BY RunTerminatedEffect DEF Pending
    <2> HIDE DEF t
    <2>2. Dated(t)
        BY <2>1 DEF Dated
    <2>3. reason \notin CleanEnds => Owes(s, t)
        BY <2>1 DEF Owes, HasSource, Pending
    <2> QED BY <2>1, <2>2, <2>3 DEF t
<1> QED BY <1>1, <1>2, <1>3, <1>4, <1>5

(* Every step keeps the debt. *)
LEMMA DebtStep ==
    ASSUME DebtInv, LedgerInv, [Next]_vars
    PROVE  DebtInv'
<1>0. /\ state \in AgentState /\ durable \in AgentState /\ turnStart \in AgentState
      /\ Dated(durable) /\ Owes(durable, durable) /\ events \in Seq(Fact)
      /\ evidence \in [revision : Nat, changedPaths : SUBSET Paths, receipts : SUBSET Receipt]
      /\ Announced(events, durable) /\ Announced(<<>>, durable) /\ <<>> \in Seq(Fact)
    BY DEF DebtInv, Types, Owes, Announced
<1>1. CASE StartTurn
    <2>1. /\ state' = [HumanMessage(state) EXCEPT !.iteration = 0, !.phase = "active"]
          /\ durable' = HumanMessage(durable) /\ turnStart' = state' /\ pc = "idle" /\ pc' = "loop"
          /\ UNCHANGED <<events, evidence, owed, unverified>>
        BY <1>1 DEF StartTurn, history
    <2>2. state' \in AgentState
        BY <1>0, <2>1, HumanMessageEffect DEF AgentState
    <2>3. Types' /\ Dated(durable') /\ Owes(durable, durable')
        BY <1>0, <2>1, <2>2, TurnKeepsDebt DEF Types
    <2> QED BY <1>0, <2>1, <2>3, QuietDebt DEF DebtInv
<1>2. ASSUME NEW batch \in Batches, RequestBatch(batch)
      PROVE  DebtInv'
    <2> DEFINE ids == {batch[i].id : i \in DOMAIN batch}
    <2>1. /\ state' = ToolCallsAccepted(AssistantMessage(state), ids)
          /\ durable' = ToolCallsAccepted(AssistantMessage(durable), ids)
          /\ pc = "loop" /\ pc' = "guard"
          /\ UNCHANGED <<turnStart, events, evidence, owed, unverified>>
        BY <1>2 DEF RequestBatch, history
    <2>2. ids \in SUBSET Calls
        BY DEF Batches, Call
    <2> HIDE DEF ids
    <2>3. state' \in AgentState
        BY <1>0, <2>1, <2>2, AssistantMessageEffect, ToolCallsAcceptedEffect
    <2>4. Types' /\ Dated(durable') /\ Owes(durable, durable')
        BY <1>0, <2>1, <2>2, <2>3, TurnKeepsDebt DEF Types
    <2> QED BY <1>0, <2>1, <2>4, QuietDebt DEF DebtInv
<1>3. CASE EmitFact
    <2> DEFINE f == Head(events)
    <2>1. /\ pc = "emit" /\ pc' = pc /\ events # <<>> /\ events' = Tail(events)
          /\ state' = Reduced(state, f)
          /\ durable' = IF f.type = "mutation" THEN durable ELSE Reduced(durable, f)
          /\ UNCHANGED <<turnStart, calls, evidence, owed, unverified>>
        BY <1>3 DEF EmitFact, history
    <2>2. /\ f \in Fact /\ events' \in Seq(Fact) /\ Announced(events', durable)
          /\ f.type = "changed" => HasSource(durable, f.mutation)
        BY <1>0, <2>1, BufferTail, AnnouncedTail
    <2> HIDE DEF f
    <2>3. state' \in AgentState
        BY <1>0, <2>1, <2>2, ReducedIsState
    <2>4. durable' \in AgentState /\ Dated(durable') /\ Owes(durable, durable')
        BY <1>0, <2>1, <2>2, ReducedOwes
    <2>5. Types'
        BY <1>0, <2>1, <2>2, <2>3, <2>4 DEF Types
    <2> QED BY <2>1, <2>2, <2>4, <2>5, QuietDebt
<1>4. CASE EndBatch
    <2>1. /\ state' = ToolResultsReady(state, size) /\ durable' = ToolResultsReady(durable, size)
          /\ events = <<>> /\ pc' = "loop"
          /\ UNCHANGED <<turnStart, events, evidence, owed, unverified>>
        BY <1>4 DEF EndBatch, history
    <2>2. Types' /\ Dated(durable') /\ Owes(durable, durable')
        BY <1>0, <2>1, TurnKeepsDebt, ToolResultsReadyEffect DEF Types
    <2> QED BY <1>0, <2>1, <2>2, QuietDebt
<1>5. CASE FailTurn
    <2>1. /\ state' = turnStart /\ durable' = RunTerminated(durable, "invariant_violation")
          /\ events' = <<>> /\ pc' = "idle"
          /\ UNCHANGED <<turnStart, evidence, owed, unverified>>
        BY <1>5 DEF FailTurn, history
    <2>2. "invariant_violation" \notin CleanEnds
        BY DEF CleanEnds
    <2>3. Types' /\ Dated(durable') /\ Owes(durable, durable')
        BY <1>0, <2>1, <2>2, TurnKeepsDebt DEF Types
    <2> QED BY <1>0, <2>1, <2>3, QuietDebt
<1>6. ASSUME NEW reason, EndRun(reason)
      PROVE  DebtInv'
    <2>1. /\ state' = RunTerminated(state, reason) /\ durable' = RunTerminated(durable, reason)
          /\ turnStart' = state' /\ pc = "loop" /\ pc' = "idle"
          /\ UNCHANGED <<calls, events, evidence>>
          /\ owed' = (IF reason \in CleanEnds THEN {} ELSE owed)
          /\ unverified' = (IF reason \in CleanEnds THEN {} ELSE unverified)
        BY <1>6 DEF EndRun
    <2>2. Types' /\ Dated(durable') /\ durable'.workspace.revision = durable.workspace.revision
        BY <1>0, <2>1, TurnKeepsDebt, RunTerminatedEffect DEF Types
    <2>3. CASE reason \notin CleanEnds
        BY <1>0, <2>1, <2>2, <2>3, TurnKeepsDebt, QuietDebt DEF DebtInv
    <2>4. CASE reason \in CleanEnds
        <3>1. events' = <<>> /\ Announced(events', durable')
            BY <2>1 DEF DebtInv, Announced
        <3> QED BY <2>1, <2>2, <2>4, <3>1 DEF DebtInv, Journalled, EffectsAreOwed
    <2> QED BY <2>3, <2>4
<1>7. CASE CrashAndResume
    <2>1. /\ state' = Interrupted(durable) /\ durable' = state' /\ turnStart' = state'
          /\ pc' = "idle" /\ events' = <<>>
          /\ evidence' = RestoredEvidence(state'.workspace.revision,
                                          RestoredPaths(state'.workspace))
          /\ UNCHANGED <<owed, unverified>>
        BY <1>7 DEF CrashAndResume, history
    <2>2. durable' \in AgentState /\ Dated(durable') /\ Owes(durable, durable')
        BY <1>0, <2>1, TurnKeepsDebt
    <2>3. state'.workspace.revision = evidence.revision
        BY <2>1, <2>2 DEF Owes, DebtInv
    <2>4. RestoredPaths(state'.workspace) \subseteq Paths
        BY <2>1, <2>2 DEF AgentState, Workspace, Obligation, RestoredPaths
    <2>5. Types' /\ evidence'.revision = evidence.revision
        BY <1>0, <2>1, <2>2, <2>3, <2>4 DEF Types, RestoredEvidence
    <2> QED BY <1>0, <2>1, <2>2, <2>5, QuietDebt
<1>8. CASE UNCHANGED <<state, durable, turnStart, pc, calls, events, evidence, owed, unverified>>
    BY <1>0, <1>8, QuietDebt DEF DebtInv, Types
<1>9. ASSUME NEW path, NEW content, ExternalEdit(path, content) PROVE DebtInv'
    BY <1>8, <1>9 DEF ExternalEdit
<1>10. CASE UNCHANGED vars
    BY <1>8, <1>10 DEF vars
<1> QED BY <1>1, <1>2, <1>3, <1>4, <1>5, <1>6, <1>7, <1>9, <1>10, SettleDebt, MutationDebt,
          EffectDebt DEF Next, Execute, Quit

(* Nothing is owed at the start. *)
LEMMA DebtInit == Init => DebtInv
<1> SUFFICES ASSUME Init PROVE DebtInv
    OBVIOUS
<1>1. /\ durable \in AgentState /\ state = durable /\ turnStart = durable
      /\ durable.workspace.revision = 0 /\ Pending(durable) = None
      /\ durable.lastVerification = None
    BY InitialStateIsState DEF Init, Pending, Modes
<1>2. Types /\ Dated(durable) /\ durable.workspace.revision = 0
    BY <1>1 DEF Init, Types, Dated
<1> QED BY <1>2 DEF Init, DebtInv, Announced, Journalled, EffectsAreOwed

(* The journal owes every effect, at its revision, in every reachable state. *)
THEOREM DebtInvHolds == Spec => []DebtInv
BY DebtInit, DebtStep, LedgerInvHolds, PTL DEF Spec

(* The variables have their types, for any operations, files and batches. *)
THEOREM SideEffectsTypeCorrect == Spec => []TypeOK
<1>1. LedgerInv /\ DebtInv => TypeOK
    BY DEF LedgerInv, Queue, DebtInv, Types, TypeOK, Receipt, Pipeline, Committing, Held
<1> QED BY <1>1, LedgerInvHolds, DebtInvHolds, PTL

(* What tools changed since the last clean end is in the obligation that a  *)
(* replay of the journal gives, at every moment a crash may strike.         *)
THEOREM EffectsStayOwed == Spec => []EffectsAreOwed
<1>1. DebtInv => EffectsAreOwed
    BY DEF DebtInv
<1> QED BY <1>1, DebtInvHolds, PTL

-----------------------------------------------------------------------------
(* The live state lags behind the replayed one by the mutations in the      *)
(* buffer, and by nothing else.                                             *)

Buffered(e) == {e[i] : i \in {j \in DOMAIN e : e[j].type = "mutation"}}

(* Equal but for what runTurn resets, the revision and the obligation. *)
SameRest(s, t) ==
    /\ t.pendingToolCalls = s.pendingToolCalls /\ t.toolResults = s.toolResults
    /\ t.mode = s.mode /\ t.prePlanMode = s.prePlanMode /\ t.activePlan = s.activePlan
    /\ t.tasks = s.tasks /\ t.evidenceCount = s.evidenceCount
    /\ t.lastVerification = s.lastVerification
    /\ t.pendingVerificationRepair = s.pendingVerificationRepair
    /\ t.recovery = s.recovery /\ t.used = s.used
    /\ t.workspace.touchedFiles = s.workspace.touchedFiles
    /\ t.workspace.planScopedTouchedFiles = s.workspace.planScopedTouchedFiles
    /\ t.workspace.createdFiles = s.workspace.createdFiles
    /\ t.workspace.deletedFiles = s.workspace.deletedFiles

(* What t owes is what s owes and the mutations M, numbered from s to t. *)
Lags(s, t, M) ==
    /\ s.workspace.revision <= t.workspace.revision
    /\ \A n \in Nat : (s.workspace.revision < n /\ n <= t.workspace.revision)
                           <=> \E f \in M : f.mutation = n
    /\ Pending(t) = None <=> (Pending(s) = None /\ M = {})
    /\ Prior(t).changedPaths = Prior(s).changedPaths \cup UNION {f.paths : f \in M}
    /\ Prior(t).sources = Prior(s).sources
           \cup {[id |-> f.mutation, outcome |-> "unknown"] : f \in M}
    /\ Prior(t).scope = "workspace"
           <=> (Prior(s).scope = "workspace" \/ \E f \in M : f.scope = "workspace")

Ordered(e) ==
    \A i, j \in DOMAIN e :
        i < j /\ e[i].type = "mutation" /\ e[j].type = "mutation" =>
            e[i].mutation < e[j].mutation

(* A change is reduced after the mutation that announced it. *)
InTurn(e, s) ==
    \A j \in DOMAIN e : e[j].type = "changed" =>
        \/ HasSource(s, e[j].mutation)
        \/ \E i \in DOMAIN e : /\ i < j /\ e[i].type = "mutation"
                              /\ e[i].mutation = e[j].mutation

ReplayInv ==
    /\ pc \in {"started", "executed"} =>
           \E f \in Buffered(events) : f.mutation = evidence.revision
    /\ ~ strayed =>
           /\ Dated(state)
           /\ SameRest(state, durable)
           /\ Lags(state, durable, Buffered(events))
           /\ Ordered(events)
           /\ InTurn(events, state)

(* A receipt of the current revision was signed after the last effect, and  *)
(* nothing it covers has gone unverified since.                             *)
ReceiptInv ==
    \A r \in evidence.receipts :
        /\ r.revision <= evidence.revision
        /\ pc = "started" => r.revision < evidence.revision
        /\ r.revision = evidence.revision =>
               /\ Bound(r) \cap unverified = {}
               /\ r.scope = "workspace" => Everything \notin unverified

(* The reducer treats states alike that are alike. *)
LEMMA RestStaysSame ==
    ASSUME NEW s \in AgentState, NEW t \in AgentState, SameRest(s, t), s.lastVerification = None
    PROVE  /\ SameRest([HumanMessage(s) EXCEPT !.iteration = 0, !.phase = "active"],
                       HumanMessage(t))
           /\ \A ids : SameRest(ToolCallsAccepted(AssistantMessage(s), ids),
                                ToolCallsAccepted(AssistantMessage(t), ids))
           /\ \A c, ok, conflict : SameRest(ToolCallCompleted(s, c, ok, conflict),
                                            ToolCallCompleted(t, c, ok, conflict))
           /\ SameRest(EvidenceRecorded(s), EvidenceRecorded(t))
           /\ \A m, path : SameRest(WorkspaceChanged(s, m, path, "modified"),
                                    WorkspaceChanged(t, m, path, "modified"))
           /\ \A n : SameRest(ToolResultsReady(s, n), ToolResultsReady(t, n))
           /\ \A reason : SameRest(RunTerminated(s, reason), RunTerminated(t, reason))
           /\ \A m, scope, paths : /\ SameRest(MutationStarted(s, m, scope, paths), t)
                                   /\ SameRest(s, MutationStarted(t, m, scope, paths))
<1> USE DEF AgentState, SameRest
<1>1. SameRest([HumanMessage(s) EXCEPT !.iteration = 0, !.phase = "active"], HumanMessage(t))
    BY DEF HumanMessage, RecoveryState
<1>2. ASSUME NEW ids
      PROVE  SameRest(ToolCallsAccepted(AssistantMessage(s), ids),
                      ToolCallsAccepted(AssistantMessage(t), ids))
    BY DEF ToolCallsAccepted, AssistantMessage
<1>3. ASSUME NEW c, NEW ok, NEW conflict
      PROVE  SameRest(ToolCallCompleted(s, c, ok, conflict), ToolCallCompleted(t, c, ok, conflict))
    BY DEF ToolCallCompleted
<1>4. SameRest(EvidenceRecorded(s), EvidenceRecorded(t))
    BY DEF EvidenceRecorded
<1>5. ASSUME NEW m, NEW path
      PROVE  SameRest(WorkspaceChanged(s, m, path, "modified"),
                      WorkspaceChanged(t, m, path, "modified"))
    BY DEF WorkspaceChanged, Workspace
<1>6. ASSUME NEW n
      PROVE  SameRest(ToolResultsReady(s, n), ToolResultsReady(t, n))
    <2>1. LatestResults(s, n) = LatestResults(t, n)
        BY DEF LatestResults
    <2>2. /\ AllFailed(s, LatestResults(s, n)) = AllFailed(t, LatestResults(t, n))
          /\ Conflicts(s, LatestResults(s, n)) = Conflicts(t, LatestResults(t, n))
        BY <2>1 DEF AllFailed, Conflicts
    <2> QED BY <2>2 DEF ToolResultsReady
<1>7. ASSUME NEW reason
      PROVE  SameRest(RunTerminated(s, reason), RunTerminated(t, reason))
    BY DEF RunTerminated, Workspace
<1>8. ASSUME NEW m, NEW scope, NEW paths
      PROVE  /\ SameRest(MutationStarted(s, m, scope, paths), t)
             /\ SameRest(s, MutationStarted(t, m, scope, paths))
    BY DEF MutationStarted, Workspace
<1> QED BY <1>1, <1>2, <1>3, <1>4, <1>5, <1>6, <1>7, <1>8

(* The lag is about the revisions and the obligations only. *)
LEMMA LagStays ==
    ASSUME NEW s, NEW t, NEW u, NEW v, NEW M, Lags(s, t, M),
           u.workspace.revision = s.workspace.revision, Pending(u) = Pending(s),
           v.workspace.revision = t.workspace.revision, Pending(v) = Pending(t)
    PROVE  Lags(u, v, M)
<1>1. Prior(u) = Prior(s) /\ Prior(v) = Prior(t)
    BY DEF Prior, Pending
<1> QED BY <1>1 DEF Lags

(* A mutation is journalled: one more to catch up with. *)
LEMMA LagGrows ==
    ASSUME NEW s \in AgentState, NEW t \in AgentState, NEW M, Lags(s, t, M),
           NEW f \in Fact, f.type = "mutation", f.mutation = t.workspace.revision + 1
    PROVE  Lags(s, Reduced(t, f), M \cup {f})
<1> DEFINE u == Reduced(t, f)
           o == Pending(u)
<1>1. /\ u.workspace.revision = t.workspace.revision + 1 /\ o # None
      /\ o = PreparedObligation(t, f.mutation, f.scope, f.paths)
    BY ReducedMutation
<1>2. Prior(u) = o
    BY <1>1 DEF Prior, Pending
<1>3. /\ o.scope = IF Prior(t).scope = "workspace" THEN "workspace" ELSE f.scope
      /\ o.changedPaths = Prior(t).changedPaths \cup f.paths
      /\ o.sources = Prior(t).sources \cup {[id |-> f.mutation, outcome |-> "unknown"]}
    BY <1>1 DEF PreparedObligation
<1>4. s.workspace.revision \in Nat /\ t.workspace.revision \in Nat
    BY DEF AgentState, Workspace
<1> HIDE DEF u, o
<1>5. s.workspace.revision <= u.workspace.revision
    BY <1>1, <1>4 DEF Lags
<1>6. ASSUME NEW n \in Nat
      PROVE  (s.workspace.revision < n /\ n <= u.workspace.revision)
                 <=> \E g \in M \cup {f} : g.mutation = n
    <2>1. (s.workspace.revision < n /\ n <= t.workspace.revision) <=> \E g \in M : g.mutation = n
        BY DEF Lags
    <2>2. (\E g \in M \cup {f} : g.mutation = n)
              <=> ((\E g \in M : g.mutation = n) \/ n = t.workspace.revision + 1)
        OBVIOUS
    <2>3. s.workspace.revision <= t.workspace.revision
        BY DEF Lags
    <2> QED BY <1>1, <1>4, <2>1, <2>2, <2>3
<1>7. Prior(u).changedPaths = Prior(s).changedPaths \cup UNION {g.paths : g \in M \cup {f}}
    BY <1>2, <1>3 DEF Lags
<1>8. Prior(u).sources = Prior(s).sources
          \cup {[id |-> g.mutation, outcome |-> "unknown"] : g \in M \cup {f}}
    BY <1>2, <1>3 DEF Lags
<1>9. Prior(u).scope = "workspace"
          <=> (Prior(s).scope = "workspace" \/ \E g \in M \cup {f} : g.scope = "workspace")
    BY <1>2, <1>3 DEF Lags
<1> QED BY <1>1, <1>5, <1>6, <1>7, <1>8, <1>9 DEF Lags, u, o

(* The live state catches up with the oldest mutation. *)
LEMMA LagShrinks ==
    ASSUME NEW s \in AgentState, NEW t \in AgentState, NEW M, NEW f \in Fact, f.type = "mutation",
           Lags(s, t, M \cup {f}), f.mutation = s.workspace.revision + 1,
           \A g \in M : g.mutation # f.mutation
    PROVE  Lags(Reduced(s, f), t, M)
<1> DEFINE u == Reduced(s, f)
           o == Pending(u)
<1>1. /\ u.workspace.revision = s.workspace.revision + 1 /\ o # None
      /\ o = PreparedObligation(s, f.mutation, f.scope, f.paths) /\ f.mutation \in Nat
    BY ReducedMutation
<1>2. Prior(u) = o
    BY <1>1 DEF Prior, Pending
<1>3. /\ o.scope = IF Prior(s).scope = "workspace" THEN "workspace" ELSE f.scope
      /\ o.changedPaths = Prior(s).changedPaths \cup f.paths
      /\ o.sources = Prior(s).sources \cup {[id |-> f.mutation, outcome |-> "unknown"]}
    BY <1>1 DEF PreparedObligation
<1>4. s.workspace.revision \in Nat /\ t.workspace.revision \in Nat
    BY DEF AgentState, Workspace
<1> HIDE DEF u, o
<1>5. u.workspace.revision <= t.workspace.revision
    <2>1. \E g \in M \cup {f} : g.mutation = f.mutation
        OBVIOUS
    <2>2. f.mutation <= t.workspace.revision
        BY <1>1, <2>1 DEF Lags
    <2> QED BY <1>1, <2>2
<1>6. ASSUME NEW n \in Nat
      PROVE  (u.workspace.revision < n /\ n <= t.workspace.revision)
                 <=> \E g \in M : g.mutation = n
    <2>1. (s.workspace.revision < n /\ n <= t.workspace.revision)
              <=> \E g \in M \cup {f} : g.mutation = n
        BY DEF Lags
    <2>2. (\E g \in M : g.mutation = n)
              <=> ((\E g \in M \cup {f} : g.mutation = n) /\ n # s.workspace.revision + 1)
        OBVIOUS
    <2> QED BY <1>1, <1>4, <2>1, <2>2
<1>7. Prior(t).changedPaths = Prior(u).changedPaths \cup UNION {g.paths : g \in M}
    BY <1>2, <1>3 DEF Lags
<1>8. Prior(t).sources = Prior(u).sources
          \cup {[id |-> g.mutation, outcome |-> "unknown"] : g \in M}
    BY <1>2, <1>3 DEF Lags
<1>9. Prior(t).scope = "workspace"
          <=> (Prior(u).scope = "workspace" \/ \E g \in M : g.scope = "workspace")
    BY <1>2, <1>3 DEF Lags
<1>10. Pending(t) # None
    BY DEF Lags
<1> QED BY <1>1, <1>5, <1>6, <1>7, <1>8, <1>9, <1>10 DEF Lags, u, o

(* The obligation after a change that was announced *)
LEMMA ChangedObligation ==
    ASSUME NEW s \in AgentState, NEW m \in Nat, NEW path \in Paths, HasSource(s, m)
    PROVE  LET t == WorkspaceChanged(s, m, path, "modified") IN
           /\ t \in AgentState /\ t.lastVerification = None
           /\ t.workspace.revision = s.workspace.revision
           /\ Pending(t) # None /\ Pending(s) # None
           /\ Prior(t) = [Prior(s) EXCEPT
                  !.changedPaths = @ \cup {path},
                  !.sources = {IF src.id = m THEN [src EXCEPT !.outcome = "changed"]
                               ELSE src : src \in @}]
<1> DEFINE t == WorkspaceChanged(s, m, path, "modified")
<1>1. m # None /\ Prepared(s, m)
    BY NoneIsAbsent DEF Prepared
<1>2. /\ t \in AgentState /\ t.lastVerification = None
      /\ t.workspace.revision = s.workspace.revision
      /\ Pending(t) = ObservedObligation(s, m, path)
    BY <1>1, WorkspaceChangedEffect, MutationsAreRevisions DEF Pending
<1>3. Pending(t) # None /\ Pending(s) # None
    BY <1>2, ObservedObligationType, MutationsAreRevisions, NoneIsAbsent DEF HasSource, Pending
<1>4. Prior(s) = Pending(s) /\ Prior(t) = Pending(t)
    BY <1>3 DEF Prior, Pending
<1> QED BY <1>1, <1>2, <1>3, <1>4 DEF ObservedObligation, Pending

(* Both states learn of an announced change. *)
LEMMA LagUnderChange ==
    ASSUME NEW s \in AgentState, NEW t \in AgentState, NEW M \in SUBSET Fact, Lags(s, t, M),
           NEW m \in Nat, NEW path \in Paths, HasSource(s, m), HasSource(t, m), Dated(s),
           \A f \in M : f.mutation \in Nat
    PROVE  Lags(WorkspaceChanged(s, m, path, "modified"),
                WorkspaceChanged(t, m, path, "modified"), M)
<1> DEFINE u == WorkspaceChanged(s, m, path, "modified")
           v == WorkspaceChanged(t, m, path, "modified")
           mark(src) == IF src.id = m THEN [src EXCEPT !.outcome = "changed"] ELSE src
           todo == {[id |-> f.mutation, outcome |-> "unknown"] : f \in M}
<1>1. /\ u.workspace.revision = s.workspace.revision /\ v.workspace.revision = t.workspace.revision
      /\ Pending(u) # None /\ Pending(v) # None /\ Pending(s) # None /\ Pending(t) # None
      /\ Prior(u) = [Prior(s) EXCEPT !.changedPaths = @ \cup {path},
                                     !.sources = {mark(src) : src \in @}]
      /\ Prior(v) = [Prior(t) EXCEPT !.changedPaths = @ \cup {path},
                                     !.sources = {mark(src) : src \in @}]
    BY ChangedObligation
<1>2. Prior(s) \in Obligation /\ Prior(t) \in Obligation
    BY PriorObligation
<1>3. /\ Prior(u).changedPaths = Prior(s).changedPaths \cup {path}
      /\ Prior(u).sources = {mark(src) : src \in Prior(s).sources}
      /\ Prior(u).scope = Prior(s).scope
      /\ Prior(v).changedPaths = Prior(t).changedPaths \cup {path}
      /\ Prior(v).sources = {mark(src) : src \in Prior(t).sources}
      /\ Prior(v).scope = Prior(t).scope
    BY <1>1, <1>2 DEF Obligation
<1>4. ASSUME NEW x \in todo PROVE mark(x) = x
    <2>1. PICK f \in M : x = [id |-> f.mutation, outcome |-> "unknown"]
        OBVIOUS
    <2>2. s.workspace.revision < f.mutation
        BY DEF Lags
    <2>3. m <= s.workspace.revision
        <3>1. PICK src \in Pending(s).sources : src.id = m
            BY DEF HasSource, Pending
        <3> QED BY <1>1, <3>1 DEF Dated
    <2>4. s.workspace.revision \in Nat /\ f.mutation \in Nat
        BY DEF AgentState, Workspace
    <2>5. m # f.mutation
        BY <2>2, <2>3, <2>4
    <2> QED BY <2>1, <2>5
<1>5. Prior(t).sources = Prior(s).sources \cup todo
    BY DEF Lags
<1> HIDE DEF u, v, mark, todo
<1>6. Prior(v).sources = Prior(u).sources \cup todo
    BY <1>3, <1>4, <1>5
<1>7. Prior(v).changedPaths = Prior(u).changedPaths \cup UNION {f.paths : f \in M}
    BY <1>3 DEF Lags
<1> QED BY <1>1, <1>3, <1>6, <1>7 DEF Lags, u, v, todo

(* The mutations of a buffer that grows or shrinks *)
LEMMA BufferedAppend ==
    ASSUME NEW e \in Seq(Fact), NEW g \in Seq(Fact), \A i \in DOMAIN g : g[i].type # "mutation"
    PROVE  Buffered(e \o g) = Buffered(e)
<1> USE BufferAppends
<1>1. ASSUME NEW f \in Buffered(e) PROVE f \in Buffered(e \o g)
    <2>1. PICK i \in DOMAIN e : e[i].type = "mutation" /\ f = e[i]
        BY DEF Buffered
    <2>2. i \in DOMAIN (e \o g) /\ (e \o g)[i] = e[i]
        OBVIOUS
    <2> QED BY <2>1, <2>2 DEF Buffered
<1>2. ASSUME NEW f \in Buffered(e \o g) PROVE f \in Buffered(e)
    <2>1. PICK i \in DOMAIN (e \o g) : (e \o g)[i].type = "mutation" /\ f = (e \o g)[i]
        BY DEF Buffered
    <2>2. CASE i <= Len(e)
        <3>1. i \in DOMAIN e /\ (e \o g)[i] = e[i]
            BY <2>2
        <3> QED BY <2>1, <3>1 DEF Buffered
    <2>3. CASE ~ (i <= Len(e))
        <3>1. i - Len(e) \in DOMAIN g /\ (e \o g)[i] = g[i - Len(e)]
            BY <2>3
        <3> QED BY <2>1, <3>1
    <2> QED BY <2>2, <2>3
<1> QED BY <1>1, <1>2

(* A buffer with one more fact. *)
LEMMA BufferGrows ==
    ASSUME NEW e \in Seq(Fact), NEW f \in Fact
    PROVE  /\ Append(e, f) \in Seq(Fact) /\ Len(e) \in Nat /\ DOMAIN e = 1..Len(e)
           /\ DOMAIN Append(e, f) = 1..(Len(e) + 1)
           /\ \A i \in 1..(Len(e) + 1) : Append(e, f)[i] = IF i = Len(e) + 1 THEN f ELSE e[i]
OBVIOUS

(* Buffering a mutation adds it to the buffered mutations. *)
LEMMA BufferedOne ==
    ASSUME NEW e \in Seq(Fact), NEW f \in Fact, f.type = "mutation"
    PROVE  Buffered(Append(e, f)) = Buffered(e) \cup {f}
<1> USE BufferGrows
<1>1. ASSUME NEW h \in Buffered(e) PROVE h \in Buffered(Append(e, f))
    <2>1. PICK i \in DOMAIN e : e[i].type = "mutation" /\ h = e[i]
        BY DEF Buffered
    <2>2. i \in DOMAIN Append(e, f) /\ Append(e, f)[i] = e[i]
        OBVIOUS
    <2> QED BY <2>1, <2>2 DEF Buffered
<1>2. f \in Buffered(Append(e, f))
    <2>1. Len(e) + 1 \in DOMAIN Append(e, f) /\ Append(e, f)[Len(e) + 1] = f
        OBVIOUS
    <2> QED BY <2>1 DEF Buffered
<1>3. ASSUME NEW h \in Buffered(Append(e, f)) PROVE h \in Buffered(e) \cup {f}
    <2>1. PICK i \in DOMAIN Append(e, f) : /\ Append(e, f)[i].type = "mutation"
                                           /\ h = Append(e, f)[i]
        BY DEF Buffered
    <2>2. CASE i = Len(e) + 1
        BY <2>1, <2>2
    <2>3. CASE i # Len(e) + 1
        <3>1. i \in DOMAIN e /\ Append(e, f)[i] = e[i]
            BY <2>3
        <3> QED BY <2>1, <3>1 DEF Buffered
    <2> QED BY <2>2, <2>3
<1> QED BY <1>1, <1>2, <1>3

(* Writing the first fact takes at most that mutation away. *)
LEMMA BufferedTail ==
    ASSUME NEW e \in Seq(Fact), e # <<>>
    PROVE  /\ Head(e).type # "mutation" => Buffered(Tail(e)) = Buffered(e)
           /\ Head(e).type = "mutation" => Buffered(e) = Buffered(Tail(e)) \cup {Head(e)}
<1> USE BufferTail
<1>1. ASSUME NEW h \in Buffered(Tail(e)) PROVE h \in Buffered(e)
    <2>1. PICK i \in DOMAIN Tail(e) : Tail(e)[i].type = "mutation" /\ h = Tail(e)[i]
        BY DEF Buffered
    <2>2. i + 1 \in DOMAIN e /\ Tail(e)[i] = e[i + 1]
        OBVIOUS
    <2> QED BY <2>1, <2>2 DEF Buffered
<1>2. ASSUME NEW h \in Buffered(e) PROVE h \in Buffered(Tail(e)) \/ h = Head(e)
    <2>1. PICK i \in DOMAIN e : e[i].type = "mutation" /\ h = e[i]
        BY DEF Buffered
    <2>2. CASE i = 1
        BY <2>1, <2>2
    <2>3. CASE i # 1
        <3>1. i - 1 \in DOMAIN Tail(e) /\ Tail(e)[i - 1] = e[(i - 1) + 1] /\ (i - 1) + 1 = i
            BY <2>3
        <3> QED BY <2>1, <3>1 DEF Buffered
    <2> QED BY <2>2, <2>3
<1>3. ASSUME NEW h \in Buffered(e) PROVE h.type = "mutation"
    BY DEF Buffered
<1>4. Head(e).type = "mutation" => Head(e) \in Buffered(e)
    BY DEF Buffered
<1> QED BY <1>1, <1>2, <1>3, <1>4

(* A buffered mutation stands somewhere in the buffer. *)
LEMMA BufferedFacts ==
    ASSUME NEW e \in Seq(Fact)
    PROVE  \A f \in Buffered(e) : /\ f \in Fact /\ f.mutation \in Nat
                                  /\ \E i \in DOMAIN e : e[i].type = "mutation" /\ f = e[i]
<1> SUFFICES ASSUME NEW f \in Buffered(e)
             PROVE  /\ f \in Fact /\ f.mutation \in Nat
                    /\ \E i \in DOMAIN e : e[i].type = "mutation" /\ f = e[i]
    OBVIOUS
<1>1. PICK i \in DOMAIN e : e[i].type = "mutation" /\ f = e[i]
    BY DEF Buffered
<1>2. e[i] \in Fact
    OBVIOUS
<1> QED BY <1>1, <1>2 DEF Fact

(* The order of the buffer *)
LEMMA OrderedAppend ==
    ASSUME NEW e \in Seq(Fact), NEW g \in Seq(Fact), Ordered(e),
           \A i \in DOMAIN g : g[i].type # "mutation"
    PROVE  Ordered(e \o g)
<1> SUFFICES ASSUME NEW i \in DOMAIN (e \o g), NEW j \in DOMAIN (e \o g), i < j,
                    (e \o g)[i].type = "mutation", (e \o g)[j].type = "mutation"
             PROVE  (e \o g)[i].mutation < (e \o g)[j].mutation
    BY DEF Ordered
<1>1. ASSUME NEW k \in DOMAIN (e \o g), (e \o g)[k].type = "mutation"
      PROVE  k \in DOMAIN e /\ (e \o g)[k] = e[k]
    <2>1. CASE k <= Len(e)
        BY <2>1, BufferAppends
    <2>2. CASE ~ (k <= Len(e))
        <3>1. k - Len(e) \in DOMAIN g /\ (e \o g)[k] = g[k - Len(e)]
            BY <2>2, BufferAppends
        <3> QED BY <1>1, <3>1
    <2> QED BY <2>1, <2>2
<1> QED BY <1>1 DEF Ordered

(* A mutation younger than all the others keeps the buffer in order. *)
LEMMA OrderedOne ==
    ASSUME NEW e \in Seq(Fact), NEW f \in Fact, Ordered(e),
           \A h \in Buffered(e) : h.mutation < f.mutation
    PROVE  Ordered(Append(e, f))
<1> DEFINE a == Append(e, f)
<1> SUFFICES ASSUME NEW i \in DOMAIN a, NEW j \in DOMAIN a, i < j,
                    a[i].type = "mutation", a[j].type = "mutation"
             PROVE  a[i].mutation < a[j].mutation
    BY DEF Ordered
<1>1. i \in DOMAIN e /\ a[i] = e[i]
    BY BufferGrows
<1>2. CASE j = Len(e) + 1
    <2>1. a[j] = f
        BY <1>2, BufferGrows
    <2> QED BY <1>1, <2>1 DEF Buffered
<1>3. CASE j # Len(e) + 1
    <2>1. j \in DOMAIN e /\ a[j] = e[j]
        BY <1>3, BufferGrows
    <2> QED BY <1>1, <2>1 DEF Ordered
<1> QED BY <1>2, <1>3

(* The rest of an ordered buffer is in order, and younger. *)
LEMMA OrderedTail ==
    ASSUME NEW e \in Seq(Fact), e # <<>>, Ordered(e)
    PROVE  /\ Ordered(Tail(e))
           /\ Head(e).type = "mutation" =>
                  \A h \in Buffered(Tail(e)) : Head(e).mutation < h.mutation
<1> USE BufferTail
<1>1. Ordered(Tail(e))
    <2> SUFFICES ASSUME NEW i \in DOMAIN Tail(e), NEW j \in DOMAIN Tail(e), i < j,
                        Tail(e)[i].type = "mutation", Tail(e)[j].type = "mutation"
                 PROVE  Tail(e)[i].mutation < Tail(e)[j].mutation
        BY DEF Ordered
    <2>1. /\ i + 1 \in DOMAIN e /\ j + 1 \in DOMAIN e /\ i + 1 < j + 1
          /\ Tail(e)[i] = e[i + 1] /\ Tail(e)[j] = e[j + 1]
        OBVIOUS
    <2> QED BY <2>1 DEF Ordered
<1>2. ASSUME Head(e).type = "mutation", NEW h \in Buffered(Tail(e))
      PROVE  Head(e).mutation < h.mutation
    <2>1. PICK i \in DOMAIN Tail(e) : Tail(e)[i].type = "mutation" /\ h = Tail(e)[i]
        BY DEF Buffered
    <2>2. i + 1 \in DOMAIN e /\ 1 < i + 1 /\ Tail(e)[i] = e[i + 1]
        OBVIOUS
    <2> QED BY <1>2, <2>1, <2>2 DEF Ordered
<1> QED BY <1>1, <1>2

(* Changes of mutations that are already buffered come after them. *)
LEMMA InTurnAppend ==
    ASSUME NEW s, NEW e \in Seq(Fact), NEW g \in Seq(Fact), InTurn(e, s),
           \A j \in DOMAIN g : g[j].type = "changed" =>
               \E h \in Buffered(e) : h.mutation = g[j].mutation
    PROVE  InTurn(e \o g, s)
<1> DEFINE a == e \o g
<1> USE BufferAppends
<1> SUFFICES ASSUME NEW j \in DOMAIN a, a[j].type = "changed", ~ HasSource(s, a[j].mutation)
             PROVE  \E i \in DOMAIN a : /\ i < j /\ a[i].type = "mutation"
                                        /\ a[i].mutation = a[j].mutation
    BY DEF InTurn
<1>1. CASE j <= Len(e)
    <2>1. j \in DOMAIN e /\ a[j] = e[j]
        BY <1>1
    <2>2. PICK i \in DOMAIN e : i < j /\ e[i].type = "mutation" /\ e[i].mutation = e[j].mutation
        BY <2>1 DEF InTurn
    <2>3. i \in DOMAIN a /\ a[i] = e[i]
        OBVIOUS
    <2> QED BY <2>1, <2>2, <2>3
<1>2. CASE ~ (j <= Len(e))
    <2>1. j - Len(e) \in DOMAIN g /\ a[j] = g[j - Len(e)]
        BY <1>2
    <2>2. PICK h \in Buffered(e) : h.mutation = a[j].mutation
        BY <2>1
    <2>3. PICK i \in DOMAIN e : e[i].type = "mutation" /\ h = e[i]
        BY DEF Buffered
    <2>4. i \in DOMAIN a /\ a[i] = e[i] /\ i < j
        BY <1>2
    <2> QED BY <2>2, <2>3, <2>4
<1> QED BY <1>1, <1>2

(* A buffered mutation keeps every change behind its own mutation. *)
LEMMA InTurnOne ==
    ASSUME NEW s, NEW e \in Seq(Fact), NEW f \in Fact, f.type = "mutation", InTurn(e, s)
    PROVE  InTurn(Append(e, f), s)
<1> DEFINE a == Append(e, f)
<1> USE BufferGrows
<1> SUFFICES ASSUME NEW j \in DOMAIN a, a[j].type = "changed", ~ HasSource(s, a[j].mutation)
             PROVE  \E i \in DOMAIN a : /\ i < j /\ a[i].type = "mutation"
                                        /\ a[i].mutation = a[j].mutation
    BY DEF InTurn
<1>1. j \in DOMAIN e /\ a[j] = e[j]
    OBVIOUS
<1>2. PICK i \in DOMAIN e : i < j /\ e[i].type = "mutation" /\ e[i].mutation = e[j].mutation
    BY <1>1 DEF InTurn
<1>3. i \in DOMAIN a /\ a[i] = e[i]
    OBVIOUS
<1> QED BY <1>1, <1>2, <1>3

(* Writing the first fact keeps every change behind its mutation. *)
LEMMA InTurnTail ==
    ASSUME NEW s, NEW t, NEW e \in Seq(Fact), e # <<>>, InTurn(e, s),
           \A m : HasSource(s, m) => HasSource(t, m),
           Head(e).type = "mutation" => HasSource(t, Head(e).mutation)
    PROVE  /\ InTurn(Tail(e), t)
           /\ Head(e).type = "changed" => HasSource(s, Head(e).mutation)
<1> USE BufferTail
<1>1. Head(e).type = "changed" => HasSource(s, Head(e).mutation)
    BY DEF InTurn
<1>2. InTurn(Tail(e), t)
    <2> SUFFICES ASSUME NEW j \in DOMAIN Tail(e), Tail(e)[j].type = "changed",
                        ~ HasSource(t, Tail(e)[j].mutation)
                 PROVE  \E i \in DOMAIN Tail(e) : /\ i < j /\ Tail(e)[i].type = "mutation"
                                                  /\ Tail(e)[i].mutation = Tail(e)[j].mutation
        BY DEF InTurn
    <2>1. j + 1 \in DOMAIN e /\ Tail(e)[j] = e[j + 1]
        OBVIOUS
    <2>2. PICK i \in DOMAIN e : /\ i < j + 1 /\ e[i].type = "mutation"
                                /\ e[i].mutation = e[j + 1].mutation
        BY <2>1 DEF InTurn
    <2>3. i # 1
        BY <2>1, <2>2
    <2>4. i - 1 \in DOMAIN Tail(e) /\ Tail(e)[i - 1] = e[(i - 1) + 1] /\ (i - 1) + 1 = i /\ i - 1 < j
        BY <2>2, <2>3
    <2> QED BY <2>1, <2>2, <2>4
<1> QED BY <1>1, <1>2

(* What a settled call leaves in the buffer: nothing it has not announced *)
LEMMA SettledFacts ==
    ASSUME DebtInv, LedgerInv, ReplayInv,
           Refuse \/ Deduplicate \/ RefuseRepeat \/ ExecuteThrows \/ SettleExecution
           \/ ThrowAfterEffect \/ \E passed \in BOOLEAN : AssertFile(passed)
    PROVE  \E g \in Seq(Fact) :
               /\ events' = events \o g
               /\ \A i \in DOMAIN g : g[i].type # "mutation"
               /\ \A i \in DOMAIN g : g[i].type = "changed" =>
                      \E h \in Buffered(events) : h.mutation = g[i].mutation
<1>0. pc \in Pipeline /\ Queue
    BY DEF Refuse, Deduplicate, RefuseRepeat, ExecuteThrows, SettleExecution, ThrowAfterEffect,
           AssertFile, Pipeline, Committing, Held, LedgerInv
<1>1. CASE Refuse \/ Deduplicate \/ RefuseRepeat \/ ExecuteThrows \/ ThrowAfterEffect
    <2>1. PICK ok, conflict \in BOOLEAN : Settle(<<Completed(ok, conflict)>>)
        BY <1>1 DEF Refuse, Deduplicate, RefuseRepeat, ExecuteThrows, ThrowAfterEffect,
                    ConflictsWith
    <2>2. /\ <<Completed(ok, conflict)>> \in Seq(Fact)
          /\ Completed(ok, conflict).type = "completed"
        BY <1>0, CompletedIsFact
    <2>3. events' = events \o <<Completed(ok, conflict)>>
        BY <2>1 DEF Settle
    <2> DEFINE done == Completed(ok, conflict)
               g == <<done>>
    <2> HIDE DEF done
    <2>4. DOMAIN g = {1} /\ g[1] = done
        OBVIOUS
    <2>5. \A i \in DOMAIN g : g[i].type = "completed"
        BY <2>2, <2>4 DEF done
    <2> QED BY <2>2, <2>3, <2>5 DEF done
<1>2. CASE SettleExecution
    <2> DEFINE done == Completed(PostconditionHolds, FALSE)
               g == Append(ChangeFacts, done)
    <2>1. done \in Fact /\ done.type = "completed"
        <3>1. PostconditionHolds \in BOOLEAN
            BY DEF PostconditionHolds
        <3> QED BY <1>0, <3>1, CompletedIsFact
    <2>2. events' = events \o g /\ pc = "executed"
        BY <1>2 DEF SettleExecution, Settle
    <2>3. PICK x \in Fact : /\ ChangeFacts = <<x>> /\ x.type # "mutation"
                            /\ x.type = "changed" => x.mutation = evidence.revision
        <3>1. Current.op \in Ops /\ evidence.revision \in Nat
            BY <1>0, CurrentCall DEF DebtInv, Types
        <3>2. Verifiable => Current.op.path \in Paths
            BY <3>1, OpFields DEF Verifiable
        <3> QED BY <3>1, <3>2 DEF ChangeFacts, Fact
    <2> HIDE DEF done
    <2>4. /\ g \in Seq(Fact) /\ DOMAIN g = 1..2 /\ g[1] = x /\ g[2] = done
        BY <2>1, <2>3
    <2>5. \E h \in Buffered(events) : h.mutation = evidence.revision
        BY <2>2 DEF ReplayInv
    <2>6. ASSUME NEW i \in DOMAIN g
          PROVE  /\ g[i].type # "mutation"
                 /\ g[i].type = "changed" => g[i].mutation = evidence.revision
        <3>1. i = 1 \/ i = 2
            BY <2>4
        <3> QED BY <2>1, <2>3, <2>4, <3>1
    <2> QED BY <2>2, <2>4, <2>5, <2>6
<1>3. ASSUME NEW passed \in BOOLEAN, AssertFile(passed)
      PROVE  \E g \in Seq(Fact) :
               /\ events' = events \o g
               /\ \A i \in DOMAIN g : g[i].type # "mutation"
               /\ \A i \in DOMAIN g : g[i].type = "changed" =>
                      \E h \in Buffered(events) : h.mutation = g[i].mutation
    <2> DEFINE x == [type |-> "evidence"]
               done == Completed(TRUE, FALSE)
               g == <<x, done>>
    <2>1. done \in Fact /\ done.type = "completed"
        BY <1>0, CompletedIsFact
    <2>2. x \in Fact /\ x.type = "evidence"
        BY DEF Fact
    <2>3. events' = events \o g
        BY <1>3 DEF AssertFile, Settle
    <2> HIDE DEF x, done
    <2>4. g \in Seq(Fact) /\ DOMAIN g = 1..2 /\ g[1] = x /\ g[2] = done
        BY <2>1, <2>2
    <2>5. ASSUME NEW i \in DOMAIN g PROVE g[i].type \notin {"mutation", "changed"}
        <3>1. i = 1 \/ i = 2
            BY <2>4
        <3> QED BY <2>1, <2>2, <2>4, <3>1
    <2> QED BY <2>3, <2>4, <2>5
<1> QED BY <1>1, <1>2, <1>3

(* Between batches the two states owe the same at the same revision. *)
LEMMA CaughtUp ==
    ASSUME DebtInv, ReplayInv, ~ strayed, events = <<>>
    PROVE  /\ state.workspace.revision = durable.workspace.revision
           /\ Pending(state) = Pending(durable)
<1> DEFINE s == state
           t == durable
<1>1. Buffered(events) = {}
    BY DEF Buffered
<1>2. Lags(s, t, {}) /\ Dated(s) /\ Dated(t) /\ s \in AgentState /\ t \in AgentState
    BY <1>1 DEF ReplayInv, DebtInv, Types
<1> HIDE DEF s, t
<1>3. s.workspace.revision \in Nat /\ t.workspace.revision \in Nat
    BY <1>2 DEF AgentState, Workspace
<1>4. s.workspace.revision = t.workspace.revision
    <2>1. ~ (s.workspace.revision < t.workspace.revision)
        BY <1>2, <1>3 DEF Lags
    <2> QED BY <1>2, <1>3, <2>1 DEF Lags
<1>5. Pending(t) = None => Pending(s) = None
    BY <1>2 DEF Lags
<1>6. ASSUME Pending(t) # None
      PROVE  Pending(s) = Pending(t)
    <2>1. Pending(s) # None
        BY <1>2, <1>6 DEF Lags
    <2>2. Prior(s) = Pending(s) /\ Prior(t) = Pending(t)
        BY <1>6, <2>1 DEF Prior, Pending
    <2>3. Pending(s) \in Obligation /\ Pending(t) \in Obligation
        BY <1>2, <2>2, PriorObligation
    <2>4. Pending(s).revision = Pending(t).revision
        BY <1>2, <1>4, <1>6, <2>1 DEF Dated
    <2>5. /\ Pending(s).changedPaths = Pending(t).changedPaths
          /\ Pending(s).sources = Pending(t).sources
          /\ Pending(s).scope = "workspace" <=> Pending(t).scope = "workspace"
        BY <1>2, <2>2 DEF Lags
    <2>6. Pending(s).scope = Pending(t).scope
        BY <2>3, <2>5 DEF Obligation, Scopes
    <2> QED BY <2>3, <2>4, <2>5, <2>6 DEF Obligation
<1> QED BY <1>4, <1>5, <1>6 DEF s, t

(* Two states that owe the same do not lag. *)
LEMMA NoLag ==
    ASSUME NEW s \in AgentState, NEW t \in AgentState,
           s.workspace.revision = t.workspace.revision, Pending(s) = Pending(t)
    PROVE  Lags(s, t, Buffered(<<>>)) /\ Ordered(<<>>) /\ InTurn(<<>>, s)
<1>1. Buffered(<<>>) = {}
    BY DEF Buffered
<1>2. s.workspace.revision \in Nat
    BY DEF AgentState, Workspace
<1>3. Prior(s) = Prior(t)
    BY DEF Prior, Pending
<1>4. \A n \in Nat : ~ (s.workspace.revision < n /\ n <= s.workspace.revision)
    BY <1>2
<1>5. Lags(s, t, {})
    BY <1>2, <1>3, <1>4 DEF Lags
<1>6. Ordered(<<>>)
    BY DEF Ordered
<1>7. InTurn(<<>>, s)
    BY DEF InTurn
<1> QED BY <1>1, <1>5, <1>6, <1>7

(* The pipeline appends what it journals. *)
LEMMA PipelineReplay ==
    ASSUME DebtInv, LedgerInv, ReplayInv, Guard \/ MarkRunning \/ StartMutation \/ Execute
    PROVE  ReplayInv'
<1>0. state' = state /\ strayed' = strayed /\ events \in Seq(Fact)
    BY DEF Guard, Refuse, Deduplicate, RefuseRepeat, Reopen, Admit, MarkRunning, StartMutation,
           Execute, ExecuteWrite, ExecuteEdit, Replace, ExecuteThrows, ExecuteShell, AssertFile,
           SettleExecution, ThrowAfterEffect, bounds, DebtInv, Types
<1>1. CASE Refuse \/ Deduplicate \/ RefuseRepeat \/ ExecuteThrows \/ SettleExecution
           \/ ThrowAfterEffect \/ \E passed \in BOOLEAN : AssertFile(passed)
    <2>1. durable' = durable /\ pc' \in {"emit", "guard"}
        BY <1>1 DEF Refuse, Deduplicate, RefuseRepeat, ExecuteThrows, SettleExecution,
                    ThrowAfterEffect, AssertFile, Settle
    <2>2. PICK g \in Seq(Fact) :
              /\ events' = events \o g
              /\ \A i \in DOMAIN g : g[i].type # "mutation"
              /\ \A i \in DOMAIN g : g[i].type = "changed" =>
                     \E h \in Buffered(events) : h.mutation = g[i].mutation
        BY <1>1, SettledFacts
    <2>3. Buffered(events') = Buffered(events)
        BY <1>0, <2>2, BufferedAppend
    <2>4. ~ strayed => Ordered(events')
        BY <1>0, <2>2, OrderedAppend DEF ReplayInv
    <2>5. ~ strayed => InTurn(events', state)
        BY <1>0, <2>2, InTurnAppend DEF ReplayInv
    <2> QED BY <1>0, <2>1, <2>3, <2>4, <2>5 DEF ReplayInv
<1>2. CASE StartMutation
    <2> DEFINE f == MutationFact
    <2>1. /\ pc = "running" /\ pc' = "started" /\ pc \in Committing
          /\ durable' = Reduced(durable, f) /\ events' = Append(events, f)
          /\ evidence'.revision = evidence.revision + 1
        BY <1>2 DEF StartMutation, BumpWorkspaceRevision, Committing, Held, DebtInv, Types
    <2>2. f \in Fact /\ f.type = "mutation" /\ f.mutation = evidence.revision + 1
        BY <2>1, MutationFactIsFact
    <2>3. /\ evidence.revision = durable.workspace.revision /\ evidence.revision \in Nat
          /\ state \in AgentState /\ durable \in AgentState
        BY DEF DebtInv, Types
    <2> HIDE DEF f
    <2>4. Buffered(events') = Buffered(events) \cup {f}
        BY <1>0, <2>1, <2>2, BufferedOne
    <2>5. \E h \in Buffered(events') : h.mutation = evidence'.revision
        BY <2>1, <2>2, <2>4
    <2>6. ASSUME ~ strayed
          PROVE  /\ SameRest(state, durable') /\ Lags(state, durable', Buffered(events'))
                 /\ Ordered(events') /\ InTurn(events', state)
        <3>1. SameRest(state, durable) /\ Lags(state, durable, Buffered(events)) /\ Dated(state)
              /\ Ordered(events) /\ InTurn(events, state)
            BY <2>6 DEF ReplayInv
        <3>2. durable' = MutationStarted(durable, f.mutation, f.scope, f.paths)
            BY <2>1, <2>2, <2>3, ReducedMutation
        <3>3. SameRest(state, durable')
            BY <2>3, <3>1, <3>2, RestStaysSame DEF Dated
        <3>4. Lags(state, durable', Buffered(events'))
            BY <2>1, <2>2, <2>3, <2>4, <3>1, LagGrows
        <3>5. \A h \in Buffered(events) : h.mutation < f.mutation
            <4> SUFFICES ASSUME NEW h \in Buffered(events) PROVE h.mutation < f.mutation
                OBVIOUS
            <4>1. h.mutation \in Nat
                BY <1>0, BufferedFacts
            <4>2. h.mutation <= durable.workspace.revision
                BY <3>1, <4>1 DEF Lags
            <4> QED BY <2>2, <2>3, <4>1, <4>2
        <3>6. Ordered(events') /\ InTurn(events', state)
            BY <1>0, <2>1, <2>2, <3>1, <3>5, OrderedOne, InTurnOne
        <3> QED BY <3>3, <3>4, <3>6
    <2> QED BY <1>0, <2>5, <2>6 DEF ReplayInv
<1>3. CASE Reopen \/ Admit \/ MarkRunning
    BY <1>0, <1>3 DEF Reopen, Admit, MarkRunning, ReplayInv
<1>4. CASE ExecuteWrite \/ ExecuteEdit
    BY <1>0, <1>4 DEF ExecuteWrite, ExecuteEdit, Replace, ReplayInv
<1>5. ASSUME NEW writes, NEW end, ExecuteShell(writes, end)
      PROVE  ReplayInv'
    <2>1. /\ pc = "started" /\ pc' = "executed" /\ UNCHANGED <<durable, events>>
          /\ evidence' = evidence \/ Recorded("workspace", ChangedVersions(files'))
        BY <1>5 DEF ExecuteShell
    <2>2. evidence'.revision = evidence.revision
        BY <2>1 DEF Recorded, DebtInv, Types
    <2> QED BY <1>0, <2>1, <2>2 DEF ReplayInv
<1> QED BY <1>1, <1>2, <1>3, <1>4, <1>5 DEF Guard, Execute

(* The buffer is reduced: the live state catches up. *)
LEMMA EmitReplay ==
    ASSUME DebtInv, LedgerInv, ReplayInv, EmitFact
    PROVE  ReplayInv'
<1> DEFINE f == Head(events)
<1>1. /\ pc = "emit" /\ pc' = pc /\ events # <<>> /\ events' = Tail(events)
      /\ state' = Reduced(state, f) /\ strayed' = strayed
      /\ durable' = IF f.type = "mutation" THEN durable ELSE Reduced(durable, f)
    BY DEF EmitFact, bounds
<1>2. /\ state \in AgentState /\ durable \in AgentState /\ events \in Seq(Fact) /\ Dated(durable)
      /\ Announced(events, durable)
    BY DEF DebtInv, Types
<1>3. f \in Fact /\ (f.type = "changed" => HasSource(durable, f.mutation))
    BY <1>1, <1>2, BufferTail, AnnouncedTail
<1> SUFFICES ASSUME ~ strayed
             PROVE  /\ Dated(state') /\ SameRest(state', durable')
                    /\ Lags(state', durable', Buffered(events'))
                    /\ Ordered(events') /\ InTurn(events', state')
    BY <1>1 DEF ReplayInv
<1>4. /\ Dated(state) /\ SameRest(state, durable) /\ Lags(state, durable, Buffered(events))
      /\ Ordered(events) /\ InTurn(events, state) /\ state.lastVerification = None
    BY DEF ReplayInv, Dated
<1>5. Ordered(events')
    BY <1>1, <1>2, <1>4, OrderedTail
<1>6. f.type = "changed" => HasSource(state, f.mutation)
    BY <1>1, <1>2, <1>4 DEF InTurn
<1>7. CASE f.type = "mutation"
    <2> DEFINE M == Buffered(Tail(events))
               o == Pending(state')
    <2>1. Buffered(events) = M \cup {f} /\ \A h \in M : f.mutation < h.mutation
        BY <1>1, <1>2, <1>4, <1>7, BufferedTail, OrderedTail
    <2>2. /\ state' = MutationStarted(state, f.mutation, f.scope, f.paths)
          /\ f.mutation \in Nat /\ state'.lastVerification = None
          /\ state'.workspace.revision = state.workspace.revision + 1
          /\ o = PreparedObligation(state, f.mutation, f.scope, f.paths) /\ o # None
        BY <1>1, <1>2, <1>3, <1>7, ReducedMutation
    <2> HIDE DEF f, M, o
    <2>3. state.workspace.revision \in Nat /\ durable.workspace.revision \in Nat
        BY <1>2 DEF AgentState, Workspace
    <2>4. f.mutation = state.workspace.revision + 1
        <3>1. state.workspace.revision < f.mutation /\ f.mutation <= durable.workspace.revision
            BY <1>4, <2>1, <2>2 DEF Lags
        <3>2. state.workspace.revision + 1 \in Nat
              /\ state.workspace.revision < state.workspace.revision + 1
              /\ state.workspace.revision + 1 <= durable.workspace.revision
            BY <2>2, <2>3, <3>1
        <3>3. PICK h \in M \cup {f} : h.mutation = state.workspace.revision + 1
            BY <1>4, <2>1, <3>2 DEF Lags
        <3>4. h \in M => f.mutation < state.workspace.revision + 1
            BY <2>1, <3>3
        <3>5. h \notin M
            BY <2>2, <2>3, <3>1, <3>4
        <3> QED BY <3>3, <3>5
    <2>5. \A h \in M : h.mutation # f.mutation
        BY <2>1, <2>2
    <2>6. Lags(state', durable', Buffered(events'))
        BY <1>1, <1>2, <1>3, <1>4, <1>7, <2>1, <2>4, <2>5, LagShrinks DEF M
    <2>7. SameRest(state', durable')
        BY <1>1, <1>2, <1>4, <1>7, <2>2, RestStaysSame
    <2>8. /\ o.revision = state.workspace.revision + 1
          /\ o.sources = Prior(state).sources \cup {[id |-> f.mutation, outcome |-> "unknown"]}
        BY <2>2 DEF PreparedObligation
    <2>9. Dated(state')
        <3>1. ASSUME NEW src \in o.sources
              PROVE  src.id \in Nat /\ src.id <= state.workspace.revision + 1
            <4>1. CASE src \in Prior(state).sources
                <5>1. Pending(state) # None /\ src \in Pending(state).sources
                    BY <4>1 DEF Prior, Pending
                <5> QED BY <1>4, <2>3, <5>1 DEF Dated
            <4>2. CASE src.id = f.mutation
                BY <2>3, <2>4, <4>2
            <4> QED BY <2>8, <4>1, <4>2
        <3> QED BY <2>2, <2>8, <3>1 DEF Dated, o
    <2>10. /\ HasSource(state', f.mutation)
           /\ \A m : HasSource(state, m) => HasSource(state', m)
        <3>1. Pending(state) # None => Prior(state) = Pending(state)
            BY DEF Prior, Pending
        <3>2. [id |-> f.mutation, outcome |-> "unknown"] \in o.sources
            BY <2>8
        <3>3. HasSource(state', f.mutation)
            BY <2>2, <3>2 DEF HasSource, Pending, o
        <3>4. ASSUME NEW m, HasSource(state, m) PROVE HasSource(state', m)
            BY <2>2, <2>8, <3>1, <3>4 DEF HasSource, Pending, o
        <3> QED BY <3>3, <3>4
    <2>11. InTurn(events', state')
        BY <1>1, <1>2, <1>4, <2>10, InTurnTail DEF f
    <2> QED BY <1>5, <2>6, <2>7, <2>9, <2>11
<1>8. CASE f.type # "mutation"
    <2>1. Buffered(events') = Buffered(events)
        BY <1>1, <1>2, <1>8, BufferedTail
    <2> HIDE DEF f
    <2>2. /\ state' \in AgentState /\ Dated(state') /\ Owes(state, state')
          /\ durable' = Reduced(durable, f)
        BY <1>1, <1>2, <1>3, <1>4, <1>6, <1>8, ReducedOwes
    <2>3. \A m : HasSource(state, m) => HasSource(state', m)
        BY <2>2 DEF Owes, HasSource, Pending
    <2>4. InTurn(events', state')
        BY <1>1, <1>2, <1>4, <1>8, <2>3, InTurnTail DEF f
    <2>5. CASE f.type = "changed"
        <3>1. /\ state' = WorkspaceChanged(state, f.mutation, f.path, "modified")
              /\ durable' = WorkspaceChanged(durable, f.mutation, f.path, "modified")
            BY <1>1, <2>2, <2>5 DEF Reduced
        <3>2. f.mutation \in Nat /\ f.path \in Paths
            BY <1>3, <2>5 DEF Fact
        <3>3. SameRest(state', durable')
            BY <1>2, <1>4, <3>1, RestStaysSame
        <3>4. /\ Buffered(events) \in SUBSET Fact
              /\ \A h \in Buffered(events) : h.mutation \in Nat
            BY <1>2, BufferedFacts
        <3>5. Lags(state', durable', Buffered(events))
            BY <1>2, <1>3, <1>4, <1>6, <2>5, <3>1, <3>2, <3>4, LagUnderChange
        <3> QED BY <1>5, <2>1, <2>2, <2>4, <3>3, <3>5
    <2>6. CASE f.type = "evidence"
        <3>1. state' = EvidenceRecorded(state) /\ durable' = EvidenceRecorded(durable)
            BY <1>1, <2>2, <2>6 DEF Reduced
        <3>2. SameRest(state', durable')
            BY <1>2, <1>4, <3>1, RestStaysSame
        <3>3. state'.workspace = state.workspace /\ durable'.workspace = durable.workspace
            BY <1>2, <3>1, EvidenceRecordedEffect DEF SameVerification
        <3>4. Lags(state', durable', Buffered(events))
            BY <1>4, <3>3, LagStays DEF Pending
        <3> QED BY <1>5, <2>1, <2>2, <2>4, <3>2, <3>4
    <2>7. CASE f.type = "completed"
        <3>1. /\ state' = ToolCallCompleted(state, f.call, f.ok, f.conflict)
              /\ durable' = ToolCallCompleted(durable, f.call, f.ok, f.conflict)
              /\ f.call \in Calls /\ f.ok \in BOOLEAN /\ f.conflict \in BOOLEAN
            BY <1>1, <1>3, <2>2, <2>7 DEF Reduced, Fact
        <3>2. SameRest(state', durable')
            BY <1>2, <1>4, <3>1, RestStaysSame
        <3>3. state'.workspace = state.workspace /\ durable'.workspace = durable.workspace
            BY <1>2, <3>1, ToolCallCompletedEffect DEF SameVerification
        <3>4. Lags(state', durable', Buffered(events))
            BY <1>4, <3>3, LagStays DEF Pending
        <3> QED BY <1>5, <2>1, <2>2, <2>4, <3>2, <3>4
    <2> QED BY <1>3, <1>8, <2>5, <2>6, <2>7 DEF Fact
<1> QED BY <1>7, <1>8

(* Between batches both states take the same step. *)
LEMMA TurnReplay ==
    ASSUME DebtInv, DebtInv', ReplayInv, events = <<>>, events' = <<>>,
           pc' \notin {"started", "executed"}, strayed' = strayed,
           ~ strayed => /\ SameRest(state', durable') /\ Dated(state')
                        /\ state'.workspace.revision = durable'.workspace.revision
                        /\ Pending(state') = Pending(durable')
    PROVE  ReplayInv'
<1>1. state' \in AgentState /\ durable' \in AgentState
    BY DEF DebtInv, Types
<1>2. ~ strayed => /\ Lags(state', durable', Buffered(events')) /\ Ordered(events')
                   /\ InTurn(events', state')
    BY <1>1, NoLag
<1> QED BY <1>2 DEF ReplayInv

(* ReplayInv is inductive, together with DebtInv and LedgerInv. *)
LEMMA ReplayStep ==
    ASSUME DebtInv, DebtInv', LedgerInv, ReplayInv, [Next]_vars
    PROVE  ReplayInv'
<1>0. state \in AgentState /\ durable \in AgentState /\ Dated(durable)
    BY DEF DebtInv, Types
<1>1. ASSUME ~ strayed
      PROVE  SameRest(state, durable) /\ Dated(state) /\ state.lastVerification = None
    BY <1>1 DEF ReplayInv, Dated
<1>2. CASE StartTurn
    <2>1. /\ state' = [HumanMessage(state) EXCEPT !.iteration = 0, !.phase = "active"]
          /\ durable' = HumanMessage(durable) /\ pc = "idle" /\ pc' = "loop"
          /\ UNCHANGED <<events, strayed>>
        BY <1>2 DEF StartTurn
    <2>2. /\ events = <<>> /\ HumanMessage(state) \in AgentState
          /\ HumanMessage(state).workspace = state.workspace
          /\ HumanMessage(state).lastVerification = None
          /\ durable'.workspace = durable.workspace
        BY <1>0, <2>1, HumanMessageEffect DEF DebtInv
    <2>3. state'.workspace = state.workspace /\ state'.lastVerification = None
        BY <2>1, <2>2 DEF AgentState
    <2>4. ASSUME ~ strayed
          PROVE  /\ SameRest(state', durable') /\ Dated(state')
                 /\ state'.workspace.revision = durable'.workspace.revision
                 /\ Pending(state') = Pending(durable')
        <3>1. SameRest(state', durable')
            BY <1>0, <1>1, <2>1, <2>4, RestStaysSame
        <3>2. Dated(state')
            BY <1>1, <2>3, <2>4 DEF Dated, Pending
        <3> QED BY <2>2, <2>3, <2>4, <3>1, <3>2, CaughtUp DEF Pending
    <2> QED BY <2>1, <2>2, <2>4, TurnReplay
<1>3. ASSUME NEW batch \in Batches, RequestBatch(batch)
      PROVE  ReplayInv'
    <2> DEFINE ids == {batch[i].id : i \in DOMAIN batch}
    <2>1. /\ state' = ToolCallsAccepted(AssistantMessage(state), ids)
          /\ durable' = ToolCallsAccepted(AssistantMessage(durable), ids)
          /\ pc = "loop" /\ pc' = "guard" /\ UNCHANGED <<events, strayed>>
        BY <1>3 DEF RequestBatch, bounds
    <2>2. ids \in SUBSET Calls
        BY DEF Batches, Call
    <2> HIDE DEF ids
    <2>3. /\ events = <<>>
          /\ state'.workspace = state.workspace /\ durable'.workspace = durable.workspace
          /\ state'.lastVerification = state.lastVerification
        BY <1>0, <2>1, <2>2, AssistantMessageEffect, ToolCallsAcceptedEffect
           DEF DebtInv, SameVerification
    <2>4. ASSUME ~ strayed
          PROVE  /\ SameRest(state', durable') /\ Dated(state')
                 /\ state'.workspace.revision = durable'.workspace.revision
                 /\ Pending(state') = Pending(durable')
        <3>1. SameRest(state', durable')
            BY <1>0, <1>1, <2>1, <2>4, RestStaysSame
        <3>2. Dated(state')
            BY <1>1, <2>3, <2>4 DEF Dated, Pending
        <3> QED BY <2>3, <2>4, <3>1, <3>2, CaughtUp DEF Pending
    <2> QED BY <2>1, <2>3, <2>4, TurnReplay
<1>4. CASE EndBatch
    <2>1. /\ state' = ToolResultsReady(state, size) /\ durable' = ToolResultsReady(durable, size)
          /\ events = <<>> /\ pc' = "loop" /\ UNCHANGED <<events, strayed>>
        BY <1>4 DEF EndBatch, bounds
    <2>2. /\ state'.workspace = state.workspace /\ durable'.workspace = durable.workspace
          /\ state'.lastVerification = state.lastVerification
        BY <1>0, <2>1, ToolResultsReadyEffect DEF SameVerification
    <2>3. ASSUME ~ strayed
          PROVE  /\ SameRest(state', durable') /\ Dated(state')
                 /\ state'.workspace.revision = durable'.workspace.revision
                 /\ Pending(state') = Pending(durable')
        <3>1. SameRest(state', durable')
            BY <1>0, <1>1, <2>1, <2>3, RestStaysSame
        <3>2. Dated(state')
            BY <1>1, <2>2, <2>3 DEF Dated, Pending
        <3> QED BY <2>1, <2>2, <2>3, <3>1, <3>2, CaughtUp DEF Pending
    <2> QED BY <2>1, <2>3, TurnReplay
<1>5. ASSUME NEW reason, EndRun(reason)
      PROVE  ReplayInv'
    <2>1. /\ state' = RunTerminated(state, reason) /\ durable' = RunTerminated(durable, reason)
          /\ pc = "loop" /\ pc' = "idle" /\ UNCHANGED <<events, strayed>>
        BY <1>5 DEF EndRun, bounds
    <2>2. /\ events = <<>>
          /\ state'.workspace.revision = state.workspace.revision
          /\ durable'.workspace.revision = durable.workspace.revision
          /\ Pending(state') = (IF reason \in CleanEnds THEN None ELSE Pending(state))
          /\ Pending(durable') = (IF reason \in CleanEnds THEN None ELSE Pending(durable))
        BY <1>0, <2>1, RunTerminatedEffect DEF DebtInv, Pending
    <2>3. ASSUME ~ strayed
          PROVE  /\ SameRest(state', durable') /\ Dated(state')
                 /\ state'.workspace.revision = durable'.workspace.revision
                 /\ Pending(state') = Pending(durable')
        <3>1. SameRest(state', durable')
            BY <1>0, <1>1, <2>1, <2>3, RestStaysSame
        <3>2. Dated(state')
            BY <1>0, <1>1, <2>1, <2>3, TurnKeepsDebt
        <3> QED BY <2>2, <2>3, <3>1, <3>2, CaughtUp
    <2> QED BY <2>1, <2>2, <2>3, TurnReplay
<1>6. CASE FailTurn
    BY <1>6 DEF FailTurn, ReplayInv
<1>7. CASE CrashAndResume
    <2>1. /\ state' = Interrupted(durable) /\ durable' = state' /\ pc' = "idle"
          /\ events' = <<>>
        BY <1>7 DEF CrashAndResume
    <2>2. state' \in AgentState /\ Dated(state')
        BY <1>0, <2>1, TurnKeepsDebt
    <2>3. SameRest(state', durable')
        BY <2>1 DEF SameRest
    <2>4. /\ Lags(state', durable', Buffered(events')) /\ Ordered(events')
          /\ InTurn(events', state')
        BY <2>1, <2>2, NoLag
    <2> QED BY <2>1, <2>2, <2>3, <2>4 DEF ReplayInv
<1>8. CASE UNCHANGED <<state, durable, pc, events, evidence, strayed>>
    BY <1>8 DEF ReplayInv
<1>9. ASSUME NEW path, NEW content, ExternalEdit(path, content) PROVE ReplayInv'
    BY <1>8, <1>9 DEF ExternalEdit
<1>10. CASE UNCHANGED vars
    BY <1>8, <1>10 DEF vars
<1> QED BY <1>2, <1>3, <1>4, <1>5, <1>6, <1>7, <1>9, <1>10, PipelineReplay, EmitReplay
        DEF Next, Quit

(* The live and the durable state start equal. *)
LEMMA ReplayInit == Init => ReplayInv
<1> SUFFICES ASSUME Init PROVE ReplayInv
    OBVIOUS
<1>1. /\ durable \in AgentState /\ state = durable /\ events = <<>> /\ pc = "idle"
      /\ Dated(state)
    BY InitialStateIsState DEF Init, Modes, Dated, Pending
<1>2. SameRest(state, durable)
    BY <1>1 DEF SameRest
<1> QED BY <1>1, <1>2, NoLag DEF ReplayInv

(* The live state lags behind the replayed one by the buffered mutations,   *)
(* unless a turn has failed in this process.                                *)
THEOREM ReplayInvHolds == Spec => []ReplayInv
<1>1. DebtInv /\ DebtInv' /\ LedgerInv /\ ReplayInv /\ [Next]_vars => ReplayInv'
    BY ReplayStep
<1> QED BY <1>1, ReplayInit, DebtInvHolds, LedgerInvHolds, PTL DEF Spec

(* Between batches the evidence store counts the revision of the state, so  *)
(* that receipts can meet the obligation, also after a resume.              *)
THEOREM RevisionsStayEqual == Spec => []RevisionsAgree
<1>1. DebtInv /\ ReplayInv => RevisionsAgree
    BY CaughtUp DEF RevisionsAgree, DebtInv
<1> QED BY <1>1, DebtInvHolds, ReplayInvHolds, PTL

(* Between batches the live state is the one a replay of the journal gives, *)
(* although mutation facts overtake the other facts of their batch.         *)
THEOREM ReplayGivesLiveState == Spec => []ReplayAgrees
<1>1. DebtInv /\ ReplayInv => ReplayAgrees
    <2> SUFFICES ASSUME DebtInv, ReplayInv, pc \in {"idle", "loop"}, ~ strayed
                 PROVE  Lasting(state) = Lasting(durable)
        BY DEF ReplayAgrees
    <2>1. /\ state \in AgentState /\ durable \in AgentState /\ SameRest(state, durable)
          /\ state.workspace.revision = durable.workspace.revision
          /\ Pending(state) = Pending(durable)
        BY CaughtUp DEF DebtInv, ReplayInv, Types
    <2>2. state.workspace = durable.workspace
        BY <2>1 DEF SameRest, AgentState, Workspace, Pending
    <2> QED BY <2>1, <2>2 DEF Lasting, SameRest, AgentState
<1> QED BY <1>1, DebtInvHolds, ReplayInvHolds, PTL

-----------------------------------------------------------------------------
(* Receipts and the completion gate. *)

(* A step that signs no receipt and starts no effect keeps ReceiptInv. *)
LEMMA QuietReceipts ==
    ASSUME ReceiptInv, evidence' = evidence, unverified' \subseteq unverified,
           pc' = "started" => pc = "started"
    PROVE  ReceiptInv'
BY DEF ReceiptInv, Bound

(* A receipt that is signed covers what it takes from the unverified. *)
LEMMA SignedReceipt ==
    ASSUME DebtInv, ReceiptInv, pc' # "started", NEW scope, NEW bound, Recorded(scope, bound),
           NEW covered, {p \in Paths : bound[p] # None} \subseteq covered,
           scope = "workspace" => Everything \in covered,
           unverified' \cap covered = {},
           pc = "started" \/ unverified' \subseteq unverified
    PROVE  ReceiptInv'
<1> DEFINE new == [revision |-> evidence.revision, scope |-> scope, bound |-> bound]
<1>1. /\ evidence'.receipts = evidence.receipts \cup {new}
      /\ evidence'.revision = evidence.revision /\ evidence.revision \in Nat
    BY DEF Recorded, DebtInv, Types
<1>2. Bound(new) \subseteq covered /\ new.scope = scope /\ new.revision = evidence.revision
    BY DEF Bound
<1> HIDE DEF new
<1>3. ASSUME NEW r \in evidence'.receipts
      PROVE  /\ r.revision <= evidence'.revision
             /\ r.revision = evidence'.revision =>
                   /\ Bound(r) \cap unverified' = {}
                   /\ r.scope = "workspace" => Everything \notin unverified'
    <2>1. CASE r = new
        BY <1>1, <1>2, <2>1
    <2>2. CASE r \in evidence.receipts
        <3>1. r.revision <= evidence.revision /\ r.revision \in Nat
            BY <2>2 DEF ReceiptInv, DebtInv, Types, Receipt
        <3>2. CASE pc = "started"
            BY <1>1, <2>2, <3>1, <3>2 DEF ReceiptInv
        <3>3. CASE unverified' \subseteq unverified
            BY <1>1, <2>2, <3>1, <3>3 DEF ReceiptInv
        <3> QED BY <3>2, <3>3
    <2> QED BY <1>1, <2>1, <2>2
<1> QED BY <1>3 DEF ReceiptInv, Bound

(* ReceiptInv is inductive, together with DebtInv and LedgerInv. *)
LEMMA ReceiptStep ==
    ASSUME DebtInv, LedgerInv, ReceiptInv, [Next]_vars
    PROVE  ReceiptInv'
<1>0. /\ evidence \in [revision : Nat, changedPaths : SUBSET Paths, receipts : SUBSET Receipt]
      /\ \A r \in evidence.receipts : r.revision \in Nat
    BY DEF DebtInv, Types, Receipt
<1>1. CASE Guard \/ MarkRunning \/ ExecuteThrows \/ SettleExecution \/ ThrowAfterEffect
    BY <1>1, QuietReceipts
       DEF Guard, Refuse, Deduplicate, RefuseRepeat, Reopen, Admit, MarkRunning, ExecuteThrows,
           SettleExecution, ThrowAfterEffect, Settle, history
<1>2. CASE StartMutation
    <2>1. /\ evidence'.revision = evidence.revision + 1 /\ evidence'.receipts = evidence.receipts
        BY <1>0, <1>2 DEF StartMutation, BumpWorkspaceRevision
    <2>2. \A r \in evidence.receipts : r.revision <= evidence.revision
        BY DEF ReceiptInv
    <2>3. \A r \in evidence'.receipts : r.revision < evidence'.revision /\ r.revision \in Nat
        BY <1>0, <2>1, <2>2
    <2>4. \A r \in evidence'.receipts : /\ r.revision <= evidence'.revision
                                        /\ r.revision # evidence'.revision
        BY <1>0, <2>1, <2>3
    <2> QED BY <2>3, <2>4 DEF ReceiptInv
<1>3. CASE ExecuteWrite \/ ExecuteEdit
    <2>1. pc = "started" /\ pc' = "executed" /\ evidence' = evidence
        BY <1>3 DEF ExecuteWrite, ExecuteEdit, Replace
    <2>2. \A r \in evidence.receipts : r.revision < evidence.revision
        BY <2>1 DEF ReceiptInv
    <2>3. \A r \in evidence.receipts : /\ r.revision <= evidence.revision
                                       /\ r.revision # evidence.revision
        BY <1>0, <2>2
    <2> QED BY <2>1, <2>3 DEF ReceiptInv
<1>4. ASSUME NEW writes \in ShellWrites, NEW end \in ProcessEnds, ExecuteShell(writes, end)
      PROVE  ReceiptInv'
    <2>1. pc = "started" /\ pc' = "executed"
        BY <1>4 DEF ExecuteShell
    <2>2. CASE evidence' = evidence
        <3>1. \A r \in evidence.receipts : r.revision < evidence.revision
            BY <2>1 DEF ReceiptInv
        <3>2. \A r \in evidence.receipts : /\ r.revision <= evidence.revision
                                           /\ r.revision # evidence.revision
            BY <1>0, <3>1
        <3> QED BY <2>1, <2>2, <3>2 DEF ReceiptInv
    <2>3. CASE evidence' # evidence
        <3>1. /\ Recorded("workspace", ChangedVersions(files'))
              /\ unverified' = owed' \ (evidence.changedPaths \cup {Everything})
            BY <1>4, <2>3 DEF ExecuteShell
        <3>2. {p \in Paths : ChangedVersions(files')[p] # None}
                  \subseteq evidence.changedPaths \cup {Everything}
            BY DEF ChangedVersions
        <3> QED BY <2>1, <3>1, <3>2, SignedReceipt
    <2> QED BY <2>2, <2>3
<1>5. ASSUME NEW passed \in BOOLEAN, AssertFile(passed)
      PROVE  ReceiptInv'
    <2> DEFINE path == Current.op.path
               bound == [NoBinding EXCEPT ![path] = files[path]]
    <2>1. pc = "guard" /\ pc' # "started"
        BY <1>5 DEF AssertFile, Settle
    <2>2. \/ evidence' = evidence /\ unverified' = unverified
          \/ Recorded("paths", bound) /\ unverified' = unverified \ {path}
        BY <1>5 DEF AssertFile
    <2>3. {p \in Paths : bound[p] # None} \subseteq {path}
        BY DEF NoBinding
    <2> HIDE DEF path, bound
    <2>4. CASE evidence' = evidence /\ unverified' = unverified
        BY <2>1, <2>4, QuietReceipts
    <2>5. CASE Recorded("paths", bound) /\ unverified' = unverified \ {path}
        <3>1. unverified' \cap {path} = {} /\ unverified' \subseteq unverified
            BY <2>5
        <3>2. Recorded("paths", bound) /\ "paths" # "workspace" /\ pc' # "started"
            BY <2>1, <2>5
        <3> QED BY <2>3, <3>1, <3>2, SignedReceipt
    <2> QED BY <2>2, <2>4, <2>5
<1>6. CASE StartTurn \/ EmitFact \/ EndBatch \/ FailTurn
    BY <1>6, QuietReceipts DEF StartTurn, EmitFact, EndBatch, FailTurn, history
<1>7. ASSUME NEW batch, RequestBatch(batch) PROVE ReceiptInv'
    BY <1>7, QuietReceipts DEF RequestBatch, history
<1>8. ASSUME NEW reason, EndRun(reason) PROVE ReceiptInv'
    BY <1>8, QuietReceipts DEF EndRun
<1>9. ASSUME NEW path, NEW content, ExternalEdit(path, content) PROVE ReceiptInv'
    BY <1>9, QuietReceipts DEF ExternalEdit
<1>10. CASE CrashAndResume
    BY <1>10 DEF CrashAndResume, RestoredEvidence, ReceiptInv
<1>11. CASE UNCHANGED vars
    BY <1>11, QuietReceipts DEF vars
<1> QED BY <1>1, <1>2, <1>3, <1>4, <1>5, <1>6, <1>7, <1>8, <1>9, <1>10, <1>11
        DEF Next, Execute, Quit

(* Receipts never outlive an effect they do not cover. *)
THEOREM ReceiptInvHolds == Spec => []ReceiptInv
<1>1. Init => ReceiptInv
    BY DEF Init, ReceiptInv
<1> QED BY <1>1, ReceiptStep, DebtInvHolds, LedgerInvHolds, PTL DEF Spec

(* A run ends as completed only if every effect of a tool since the last    *)
(* clean end was followed by passed evidence that covers it and was signed  *)
(* after the last effect.                                                   *)
THEOREM CompletionIsVerified == Spec => CompletedIsVerified
<1>1. DebtInv /\ ReplayInv /\ ReceiptInv /\ [Next]_vars =>
          [EndsCompleted /\ ~ strayed => unverified = {}]_vars
    <2> SUFFICES ASSUME DebtInv, ReplayInv, ReceiptInv, EndsCompleted, ~ strayed,
                        NEW x \in unverified
                 PROVE  FALSE
        OBVIOUS
    <2> DEFINE pending == Pending(state)
               candidates == {r \in evidence.receipts :
                                 r.revision = evidence.revision /\ ~ Stale(r)}
    <2>1. pending = Pending(durable)
        BY CaughtUp DEF EndsCompleted, DebtInv
    <2>2. /\ x \in owed /\ x \in Paths \cup {Everything} /\ pending # None
          /\ x # Everything => x \in pending.changedPaths
          /\ x = Everything => pending.scope = "workspace"
        BY <2>1 DEF DebtInv, EffectsAreOwed, Pending
    <2>3. /\ pending.scope = "workspace" => \E r \in candidates : r.scope = "workspace"
          /\ pending.changedPaths \subseteq UNION {Bound(r) : r \in candidates}
        BY <2>2 DEF EndsCompleted, Verified, Pending
    <2>4. \A r \in candidates : /\ x \notin Bound(r)
                                /\ r.scope = "workspace" => x # Everything
        BY DEF ReceiptInv
    <2> HIDE DEF candidates, pending
    <2> QED BY <2>2, <2>3, <2>4
<1> QED BY <1>1, DebtInvHolds, ReplayInvHolds, ReceiptInvHolds, PTL DEF Spec, CompletedIsVerified
=============================================================================
