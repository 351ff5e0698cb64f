------------------------------- MODULE Verdict -------------------------------
(***************************************************************************)
(* The independent verifier's report and its machine validation            *)
(* (verification/verdict.ts), and the rule on evidence that tasks and the   *)
(* completion gate share (verification/criteriaEvidence.ts).               *)
(*                                                                         *)
(* A report is what the verifier's model wrote: it may name receipts that   *)
(* do not exist or support nothing.  Names, wording and the order of checks *)
(* are left out; a list of checks is the set of them.                       *)
(***************************************************************************)
CONSTANTS
    None,
    EvidenceIds,    \* every id a report may name
    Store,          \* EvidenceStore: the receipts the runtime issued, by id
    Stale,          \* findStaleReceipts when the verification began
    CriterionIds,
    Criteria        \* acceptance criteria of the approved plan

EvidenceKinds == {"command", "test", "file_assertion", "diff_assertion", "manual"}

(* exit is that of the command, intact its hash, here the workspace it was  *)
(* signed in, trivial a command that probes nothing.                        *)
Receipt ==
    [status : {"passed", "failed", "inconclusive"}, exit : {"none", "zero", "other"},
     criteria : SUBSET CriterionIds, kind : EvidenceKinds,
     intact : BOOLEAN, here : BOOLEAN, trivial : BOOLEAN]
Criterion == [id : CriterionIds, kind : EvidenceKinds, required : BOOLEAN]
Check ==
    [criteria : SUBSET CriterionIds, evidence : SUBSET EvidenceIds,
     result : {"PASS", "FAIL", "SKIP"}]
Report ==
    [verdict : {"PASS", "FAIL", "PARTIAL"}, checks : SUBSET Check,
     probe : EvidenceIds \cup {None},
     failures : SUBSET [evidence : SUBSET EvidenceIds], unverified : BOOLEAN]

ASSUME VerdictAssumption ==
    /\ None \notin EvidenceIds
    /\ DOMAIN Store \subseteq EvidenceIds /\ Stale \subseteq DOMAIN Store
    /\ \A id \in DOMAIN Store : Store[id] \in Receipt
    /\ Criteria \subseteq Criterion

(* receiptIsUsable, receiptSupportsCriterion *)
Usable(id) ==
    /\ Store[id].status = "passed" /\ Store[id].intact
    /\ id \notin Stale
    /\ Store[id].here
Supports(id, c) == Usable(id) /\ c.id \in Store[id].criteria /\ Store[id].kind = c.kind

(* requiredCriteriaWithoutUsableEvidence, of the receipts in ids *)
WithoutEvidence(ids) ==
    {c \in Criteria : c.required /\ ~ \E id \in ids \cap DOMAIN Store : Supports(id, c)}

-----------------------------------------------------------------------------
(* validateReport *)
Named(report) == UNION {k.evidence : k \in report.checks}
Referenced(report) ==
    Named(report) \cup UNION {f.evidence : f \in report.failures} \cup ({report.probe} \ {None})

(* What is referenced exists, is untampered and fresh. *)
EvidenceHolds(report) ==
    \A id \in Referenced(report) :
        id \in DOMAIN Store /\ Store[id].intact /\ id \notin Stale

(* Faulty variant: naming the criterion is enough. *)
CheckHoldsByName(check) ==
    check.result = "PASS" =>
        \A id \in check.evidence : Store[id].status = "passed" /\ Store[id].exit # "other"

(* A PASS check rests on what passed, and claims no criterion its evidence  *)
(* never measured.                                                          *)
CheckHolds(check) ==
    check.result = "PASS" =>
        /\ \A id \in check.evidence : Store[id].status = "passed" /\ Store[id].exit # "other"
        /\ \A c \in check.criteria :
            \E id \in check.evidence : c \in Store[id].criteria /\ Usable(id)

(* Required criteria are covered, by evidence of their kind. *)
Backing(report, c) ==
    UNION {k.evidence : k \in {x \in report.checks : x.result = "PASS" /\ c.id \in x.criteria}}
Covered(report, c) ==
    /\ \E k \in report.checks : c.id \in k.criteria
    /\ LET backing == {id \in Backing(report, c) : Store[id].status = "passed"} IN
       backing # {} => \E id \in backing : Supports(id, c)

PassHolds(report) ==
    /\ report.failures = {} /\ ~ report.unverified
    /\ \A k \in report.checks : CheckHolds(k)
    /\ report.probe # None /\ ~ Store[report.probe].trivial
    /\ \A k \in report.checks : k.result = "PASS"
    /\ \E k \in report.checks : k.evidence # {}
    /\ \A c \in Criteria : c.required => Covered(report, c)

ValidReport(report) ==
    /\ EvidenceHolds(report)
    /\ report.verdict = "PASS" => PassHolds(report)
    /\ report.verdict = "PARTIAL" => report.unverified
    /\ report.verdict = "FAIL" => report.failures # {}

(* What the report of a PASS leaves without usable evidence *)
Lacking(report) == IF report.verdict = "PASS" THEN WithoutEvidence(Named(report)) ELSE {}
=============================================================================
