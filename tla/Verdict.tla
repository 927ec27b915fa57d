-------------------------------- MODULE Verdict --------------------------------
(***************************************************************************)
(* From the results of an execution to the gate of a Run: how a failure is *)
(* classified (execution), triaged (triage), how results are reconciled    *)
(* with the plan and the requirements (audit, derivation, core) and which  *)
(* gate follows (gate). Everything here is a pure function of the plan p   *)
(* and of the sequence rs of its results, in the order they were produced. *)
(*                                                                         *)
(* A plan is a record:                                                     *)
(*   engine    "declarative", or "fixture": the frozen plan of the demo    *)
(*   origin    type of the origin of the plan                              *)
(*   cases     sequence of cases, in the order of execution                *)
(*   reqs      set of requirements                                         *)
(*   batches   sequence of batch ids: cells of the execution matrix        *)
(*   tier, production, blocked, min_p0, max_flaky   settings of the Run    *)
(* A case: id, origin, kind, risk, tier, confidence, refs (sequence of     *)
(* requirement ids), bound (those with an oracle binding), retries,        *)
(* allowed (production_allowed), setup, steps, cleanup (sequences of       *)
(* actions) and cleans (a cleanup is declared). A requirement: id, status, *)
(* priority, refs (it has evidence), oracle. A result: exec (a case id and *)
(* a batch id), status, flaky, class, kind, phase, evidence (kinds of      *)
(* artifacts), cleanup, redacted, attempts.                                *)
(***************************************************************************)
EXTENDS Naturals, Sequences, FiniteSets, SequencesExt

Classes == {"PRODUCT_DEFECT", "PLAN_DEFECT", "TEST_DEFECT", "INFRA_DEFECT"}
Signals == {"network", "contract", "assertion", "timeout", "policy"}
Unexecuted == {"BLOCKED_RESUME", "INFRA_BLOCKED"}

ExecutionId(c, batch) == <<c.id, batch>>
CaseOf(p, id) == CHOOSE c \in ToSet(p.cases) : c.id = id

\* What makes a defect of the test itself.
SelfBlame(generated) == IF generated THEN "PLAN_DEFECT" ELSE "TEST_DEFECT"

\* Mutant: an assertion is recognised before anything else.
KindAssertionFirst(error) ==
  IF error = {} THEN "unknown"
  ELSE IF "assertion" \in error THEN "assertion" ELSE CHOOSE k \in error : TRUE

\* An error is the set of the signals that classifyFailure finds in its code,
\* message and action; the kind it reports is the first of them.
Kind(error) ==
  IF error = {} THEN "unknown"
  ELSE LET order == <<"network", "contract", "assertion", "timeout", "policy">>
       IN  order[CHOOSE i \in DOMAIN order :
             /\ order[i] \in error
             /\ \A j \in 1..(i-1) : order[j] \notin error]

ClassifyFailure(error, phase, generated) ==
  [ kind  |-> Kind(error),
    phase |-> phase,
    class |-> IF "network" \in error THEN "INFRA_DEFECT"
              ELSE IF "assertion" \in error /\ phase = "test"
                   THEN "PRODUCT_DEFECT" ELSE SelfBlame(generated) ]

\* Provenance of a case and evidence together.
Strength(confidence, hasRefs) ==
  IF confidence = "high" /\ hasRefs THEN "HIGH"
  ELSE IF confidence \in {"high", "medium"} \/ hasRefs THEN "MEDIUM" ELSE "LOW"

\* The first requirement of a case that exists; a case without any counts as
\* one with a proven oracle, for undefined is not null.
NoRequirement == [id |-> "none", refs |-> FALSE, oracle |-> "basic"]
Requirement(p, c) ==
  LET known == SelectSeq(c.refs, LAMBDA id : \E q \in p.reqs : q.id = id)
  IN  IF known = <<>> THEN NoRequirement
      ELSE CHOOSE q \in p.reqs : q.id = Head(known)

\* triageFailure: the rules in their order; the first that applies decides.
Triage(p, r) ==
  LET c         == CaseOf(p, r.exec[1])
      known     == p.engine = "declarative"  \* audit is given the cases
      generated == known /\ c.origin = "generated"
      refs      == \/ r.evidence # {}
                   \/ known /\ Requirement(p, c).refs
      evidence  == Strength(IF known THEN c.confidence ELSE "low", refs)
      proven    == known => Requirement(p, c).oracle \notin {"null", "unproven"}
  IN  IF r.kind = "network" \/ r.class = "INFRA_DEFECT" THEN "INFRA_DEFECT"
      ELSE IF r.phase \in {"setup", "cleanup"} \/ r.kind \in {"contract", "policy", "timeout"}
      THEN SelfBlame(generated)
      ELSE IF r.kind = "assertion" /\ r.phase = "test" /\ evidence = "HIGH" /\ proven
      THEN "PRODUCT_DEFECT"
      ELSE IF ~generated /\ r.class = "PRODUCT_DEFECT" /\ evidence # "LOW"
      THEN "PRODUCT_DEFECT" ELSE SelfBlame(generated)

Failed(rs) == {r \in ToSet(rs) : r.status \in {"FAILED", "INFRA_BLOCKED"}}
Issues(p, rs) ==
  {[exec |-> r.exec, class |-> Triage(p, r)] : r \in Failed(rs)}
  \cup {[exec |-> r.exec, class |-> "UNSTABLE"] : r \in {x \in ToSet(rs) : x.flaky}}

-------------------------------------------------------------------------------
\* The requirements of the tier and the cases mapped to them (core).
Required(p) == {q \in p.reqs : q.status \notin {"NOT_APPLICABLE", "TIER_SKIPPED"}}
CaseMap(p, q)   == {c.id : c \in {x \in ToSet(p.cases) : q.id \in ToSet(x.refs)}}
OracleMap(p, q) == {c.id : c \in {x \in ToSet(p.cases) : q.id \in ToSet(x.bound)}}

\* A map from the case id keeps the last result of a case, find the first.
ResultsOf(rs, id) == {i \in DOMAIN rs : rs[i].exec[1] = id}
LastStatus(rs, id) ==
  IF ResultsOf(rs, id) = {} THEN "none" ELSE rs[Max(ResultsOf(rs, id))].status
FirstCleanup(rs, id) ==
  IF ResultsOf(rs, id) = {} THEN "none" ELSE rs[Min(ResultsOf(rs, id))].cleanup

\* reconcileRequirementCoverage, its counts for the requirements in Q.
Coverage(p, rs, Q) ==
  LET planned    == {q \in Q : CaseMap(p, q) # {} \/ q.status = "PLANNED"}
      executable == {q \in planned : q.status # "BLOCKED" /\ q.oracle # "null"}
      passed     == {q \in executable :
                       /\ CaseMap(p, q) # {}
                       /\ \A id \in CaseMap(p, q) : LastStatus(rs, id) = "PASSED"}
  IN  [ required   |-> Cardinality(Q),          planned |-> Cardinality(planned),
        executable |-> Cardinality(executable), passed  |-> Cardinality(passed) ]
P0Coverage(p, rs) == Coverage(p, rs, {q \in Required(p) : q.priority = "P0"})

\* The frozen plan of the demo is audited without requirements and cases.
Audited(p, set) == IF p.engine = "declarative" THEN set ELSE {}

\* Mutant: no result is foreign to the plan, but a case may be without one.
CaseReconciliationLoose(p, rs) ==
  {r.exec[1] : r \in ToSet(rs)} \subseteq {c.id : c \in ToSet(p.cases)}

CaseReconciliation(p, rs) ==
  /\ Cardinality({c.id : c \in ToSet(p.cases)}) = Len(p.cases)
  /\ {r.exec[1] : r \in ToSet(rs)} = {c.id : c \in ToSet(p.cases)}

\* planned: the execution ids of the manifest, in order, repetitions included.
InstanceReconciliation(rs, planned) ==
  /\ Cardinality({r.exec : r \in ToSet(rs)}) = Len(rs)
  /\ Len(planned) = Len(rs)
  /\ ToSet(planned) \subseteq {r.exec : r \in ToSet(rs)}

RequirementReconciliation(p) ==
  \A q \in Audited(p, Required(p)) : CaseMap(p, q) # {}
OracleReconciliation(p) ==
  \A q \in Audited(p, Required(p)) : q.oracle # "null" /\ OracleMap(p, q) # {}

EvidenceForCase(p, r) ==
  LET kind == IF p.engine = "declarative" THEN CaseOf(p, r.exec[1]).kind ELSE "any"
  IN  /\ r.evidence # {}
      /\ kind \in {"ui", "hybrid"} =>
           {"screenshot", "console.json", "playwright-trace"} \subseteq r.evidence
      /\ kind \in {"api", "hybrid"} => "api-response" \in r.evidence
EvidenceComplete(p, rs) ==
  \A r \in ToSet(rs) : r.status \notin Unexecuted => EvidenceForCase(p, r)

\* Mutant: only a destructive case must have been cleaned up.
CleanupCompleteDestructive(p, rs) ==
  \A c \in Audited(p, ToSet(p.cases)) :
    c.risk = "destructive" => FirstCleanup(rs, c.id) = "PASSED"

CleanupComplete(p, rs) ==
  \A c \in Audited(p, ToSet(p.cases)) :
    c.risk \in {"mutating", "destructive"} => FirstCleanup(rs, c.id) = "PASSED"

AuditComplete(p, rs, planned) ==
  /\ CaseReconciliation(p, rs)
  /\ InstanceReconciliation(rs, planned)
  /\ RequirementReconciliation(p) /\ OracleReconciliation(p)
  /\ EvidenceComplete(p, rs) /\ CleanupComplete(p, rs)
  /\ \A r \in ToSet(rs) : r.status \notin Unexecuted

\* Distinct executions that are flaky: as an issue, or in a result.
Flaky(rs) == Cardinality({r.exec : r \in {x \in ToSet(rs) : x.flaky}})

\* evaluateGate: the first reason that applies decides.
Gate(p, rs, planned) ==
  LET found == {i.class : i \in Issues(p, rs)}
      p0    == IF p.engine = "declarative" THEN P0Coverage(p, rs)
               ELSE [required |-> 0, planned |-> 0, executable |-> 0, passed |-> 0]
  IN  IF ~AuditComplete(p, rs, planned) THEN "incomplete"
      ELSE IF p0.executable < p0.required \/ p0.planned < p0.required THEN "incomplete"
      ELSE IF found \cap {"PLAN_DEFECT", "TEST_DEFECT"} # {} THEN "incomplete"
      ELSE IF "INFRA_DEFECT" \in found THEN "infra"
      ELSE IF "PRODUCT_DEFECT" \in found THEN "fail"
      ELSE IF Flaky(rs) > p.max_flaky THEN "unstable"
      ELSE IF p0.passed * 100 < p0.required * p.min_p0 THEN "incomplete"
      ELSE "pass"
================================================================================
