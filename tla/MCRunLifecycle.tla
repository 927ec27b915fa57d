----------------------------- MODULE MCRunLifecycle -----------------------------
(***************************************************************************)
(* RunLifecycle for TLC: the claims that the documents of the repository   *)
(* make about a Run and that the code does not keep. TLC ends each     *)
(* with a counterexample; the README tells what happens in it.             *)
(***************************************************************************)
EXTENDS RunQueries

\* Phases move along the table only, "neither skipped nor in reverse"
\* (INV-STATE-02), and GATED has no outbound transition.
PhasesInOrder ==
  [][\A r \in Runs :
       \/ run[r].phase = "NONE" \/ run'[r].phase = run[r].phase
       \/ <<run[r].phase, run'[r].phase>> \in Transitions]_run

\* One handler at a time, also while the target is being closed (specification 252).
LeaseExcludes ==
  \A r \in Runs : Cardinality({ o \in Running : RunOf(o) = r }) <= 1

\* A Run that failed fatally has no gate (INV-STATE-12, ADR-009).
FatalYieldsNoGate ==
  \A r \in Runs : run[r].status = "FAILED" => run[r].gate = "null"

\* results.json is the only source of a verdict about the product.
GateFromResults ==
  \A r \in Runs : run[r].gate \in Judged => run[r].gate = results[r]

\* A resume_run that really resumed its Run is reported finished in the end,
\* unless the process dies once more.
ResumeReported ==
  \A o \in Resumes :
    task[o].pc = "sleep" ~> (ops[o].status \in Terminal \/ up = "down")
================================================================================
