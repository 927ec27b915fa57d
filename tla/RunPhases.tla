------------------------------- MODULE RunPhases -------------------------------
(***************************************************************************)
(* The vocabulary of a Run: its phases in the order of the normal path,    *)
(* the side branch that ends it early, and the table of the transitions    *)
(* the schema package freezes (packages/schemas/src/state-machine.mjs).    *)
(* Constant-level: every other module about Runs extends this one.         *)
(***************************************************************************)

\* The phases a Run goes through before anything was executed, in order.
\* From each of them, and from EXECUTION_FINISHED, the table allows a branch.
BranchAfter ==
  { "CREATED", "TARGET_READY", "SEED_RESOLVED", "DISCOVERED",
    "COVERAGE_DERIVED", "PLAN_FILLED", "PLAN_FROZEN", "SUITE_GENERATED",
    "SUITE_FROZEN", "RUNNING", "EXECUTION_FINISHED" }

\* The phases after which a Run may only go forward.
Closing == { "RUNTIME_FINALIZED", "AUDITED", "REPORTED", "GATED" }

Phases == BranchAfter \cup Closing \cup { "TERMINALIZING" }

\* The phase that follows p on the linear path; GATED is last, and the side
\* branch joins the path again at RUNTIME_FINALIZED.
Following(p) ==
  CASE p = "CREATED"            -> "TARGET_READY"
    [] p = "TARGET_READY"       -> "SEED_RESOLVED"
    [] p = "SEED_RESOLVED"      -> "DISCOVERED"
    [] p = "DISCOVERED"         -> "COVERAGE_DERIVED"
    [] p = "COVERAGE_DERIVED"   -> "PLAN_FILLED"
    [] p = "PLAN_FILLED"        -> "PLAN_FROZEN"
    [] p = "PLAN_FROZEN"        -> "SUITE_GENERATED"
    [] p = "SUITE_GENERATED"    -> "SUITE_FROZEN"
    [] p = "SUITE_FROZEN"       -> "RUNNING"
    [] p = "RUNNING"            -> "EXECUTION_FINISHED"
    [] p = "EXECUTION_FINISHED" -> "RUNTIME_FINALIZED"
    [] p = "TERMINALIZING"      -> "RUNTIME_FINALIZED"
    [] p = "RUNTIME_FINALIZED"  -> "AUDITED"
    [] p = "AUDITED"            -> "REPORTED"
    [] OTHER                    -> "GATED"

\* The frozen transition table: one step forward, or the branch out of a
\* phase that allows it. GATED has no way out.
Transitions ==
  { <<p, Following(p)>> : p \in Phases \ {"GATED"} }
    \cup { <<p, "TERMINALIZING">> : p \in BranchAfter }
================================================================================
