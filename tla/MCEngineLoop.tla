----------------------------- MODULE MCEngineLoop -----------------------------
(* Finite instances of EngineLoop: one required criterion, receipts that     *)
(* each lack one thing, and the reports of up to two checks about them.      *)
EXTENDS EngineLoop

GoodReceipt ==
    [status |-> "passed", exit |-> "zero", criteria |-> {"k"}, kind |-> "test",
     intact |-> TRUE, here |-> TRUE, trivial |-> FALSE]
Ids == {"good", "stale", "untested", "failed", "crashed", "unrelated", "tampered", "away",
        "echo", "missing"}
Receipts ==
    [id \in Ids \ {"missing"} |->
        CASE id = "untested" -> [GoodReceipt EXCEPT !.kind = "command"]
          [] id = "failed" -> [GoodReceipt EXCEPT !.status = "failed"]
          [] id = "crashed" -> [GoodReceipt EXCEPT !.exit = "other"]
          [] id = "unrelated" -> [GoodReceipt EXCEPT !.criteria = {}]
          [] id = "tampered" -> [GoodReceipt EXCEPT !.intact = FALSE]
          [] id = "away" -> [GoodReceipt EXCEPT !.here = FALSE]
          [] id = "echo" -> [GoodReceipt EXCEPT !.trivial = TRUE]
          [] OTHER -> GoodReceipt]
PlanCriteria ==
    {[id |-> "k", kind |-> "test", required |-> TRUE],
     [id |-> "o", kind |-> "manual", required |-> FALSE]}

Checks ==
    [criteria : {{}, {"k"}}, evidence : {{}} \cup {{id} : id \in Ids}, result : {"PASS", "SKIP"}]
MCReports ==
    [verdict : {"PASS"}, checks : {{}} \cup {{a, b} : a, b \in Checks},
     probe : {None, "good", "echo"}, failures : {{}}, unverified : {FALSE}]
    \cup [verdict : {"PASS", "FAIL", "PARTIAL"}, checks : {{x} : x \in Checks},
          probe : {"good"}, failures : {{}, {[evidence |-> {"missing"}]}, {[evidence |-> {}]}},
          unverified : BOOLEAN]
=============================================================================
