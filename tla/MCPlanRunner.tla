------------------------------ MODULE MCPlanRunner ------------------------------
(***************************************************************************)
(* PlanRunner for TLC: plans small enough to be executed in every way, and *)
(* each of them the smallest that meets one of the code's distinctions.    *)
(***************************************************************************)
EXTENDS PlanRunner

Read == [id |-> "c1", origin |-> "generated", kind |-> "api", risk |-> "read_only",
         tier |-> "fast", confidence |-> "high", refs |-> <<"q1">>, bound |-> <<"q1">>,
         retries |-> 0, allowed |-> TRUE, setup |-> <<>>,
         steps |-> <<"get", "expect">>, cleanup |-> <<>>, cleans |-> FALSE]
Write == [Read EXCEPT !.id = "c2", !.risk = "mutating", !.retries = 1, !.allowed = FALSE,
          !.setup = <<"get">>, !.steps = <<"send", "expect">>,
          !.cleanup = <<"send", "expect">>, !.cleans = TRUE]
View == [Read EXCEPT !.id = "c3", !.kind = "ui", !.origin = "manual",
         !.confidence = "medium", !.retries = 1, !.steps = <<"goto", "expect">>]
Demo == [View EXCEPT !.origin = "migrated", !.refs = <<"legacy">>, !.bound = <<>>,
         !.retries = 0, !.confidence = "high"]

Q == [id |-> "q1", status |-> "PLANNED", priority |-> "P0", refs |-> TRUE,
      oracle |-> "basic"]
Single == [engine |-> "declarative", origin |-> "generated", cases |-> <<Read>>,
           reqs |-> {Q}, batches |-> <<"b1">>, tier |-> "fast", production |-> FALSE,
           blocked |-> {}, min_p0 |-> 100, max_flaky |-> 0]

Suites ==
  { Single,
    \* a second cell of the matrix, and the same cell twice
    [Single EXCEPT !.batches = <<"b1", "b2">>],
    [Single EXCEPT !.batches = <<"b1", "b1">>],
    \* a mutating case with retries, one that declares no cleanup
    [Single EXCEPT !.cases = <<Write>>],
    [Single EXCEPT !.cases = <<Write>>, !.max_flaky = 1],
    [Single EXCEPT !.cases = <<[Write EXCEPT !.cleans = FALSE, !.cleanup = <<>>]>>],
    \* a manual graphic case beside a generated one
    [Single EXCEPT !.cases = <<Read, View>>, !.origin = "mixed"],
    [Single EXCEPT !.cases = <<[View EXCEPT !.refs = <<>>, !.bound = <<>>, !.confidence = "low"]>>,
                   !.reqs = {}, !.origin = "manual"],
    \* a graphic case that never navigates
    [Single EXCEPT !.cases = <<[View EXCEPT !.steps = <<"expect">>]>>],
    \* a case of the full tier in a fast run, two requirements on one case
    [Single EXCEPT !.cases = <<Read, [View EXCEPT !.tier = "full", !.refs = <<>>, !.bound = <<>>]>>],
    [Single EXCEPT !.reqs = {Q, [Q EXCEPT !.id = "q2", !.priority = "P1"]}],
    [Single EXCEPT !.reqs = {[Q EXCEPT !.status = "BLOCKED"]}],
    [Single EXCEPT !.reqs = {[Q EXCEPT !.oracle = "unproven"]},
                   !.cases = <<[Read EXCEPT !.origin = "manual"]>>],
    \* production, resumption around a blocked case, the demo
    [Single EXCEPT !.production = TRUE, !.cases = <<Read, [Write EXCEPT !.retries = 0]>>],
    [Single EXCEPT !.blocked = {"c1"}],
    [Single EXCEPT !.cases = <<Demo>>, !.engine = "fixture", !.origin = "migrated"] }

StepErrors == {{}, {"network"}, {"assertion"}, {"assertion", "network"},
               {"assertion", "timeout"}, {"assertion", "contract", "timeout"}, {"timeout"}}
================================================================================
