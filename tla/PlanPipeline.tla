------------------------------ MODULE PlanPipeline ------------------------------
(***************************************************************************)
(* The planning half of a Run (core, AuditVerticalSlice): the preflight    *)
(* that bounds the Run, the derivation of its requirements, the planner    *)
(* with its attempts and its cache of plan templates, the compilation, the *)
(* merge with a manual plan and the admission of the plan by the runner.   *)
(* One process plans one Run after another; what survives a Run is the     *)
(* cache of templates, on disk, and that of preflights, in memory.         *)
(*                                                                         *)
(* A configuration is a record: target (see Requirements), tier,           *)
(* destructive (the trust policy allows it), diff, batches (the number of  *)
(* cells of the matrix, 0 if the request has none), budget (the executions *)
(* that are allowed), manual (the cases of a manual plan) and mode (auto,  *)
(* overlay or replace).                                                    *)
(***************************************************************************)
EXTENDS PlanCompiler

CONSTANTS Configs, MaxRuns

ASSUME MaxRunsAssumption == MaxRuns \in Nat \ {0}

\* What was observed is what the graph has, in another order. A field has one
\* constraint of a kind: deriveGraphRequirements keeps the first (add).
ASSUME ConfigsAssumption ==
  \A c \in Configs :
    /\ c.tier \in Tiers
    /\ c.target.ops \in Seq(Operations) /\ c.target.facts \in Seq(Operations)
    /\ ToSet(c.target.facts) = ToSet(c.target.ops)
    /\ \A f \in c.target.fields :
         /\ f[2] \in Rules
         /\ \A g \in c.target.fields : f[1] = g[1] /\ f[2] = g[2] => f = g
    /\ \A m \in c.manual : m.origin # "generated"

VARIABLES
  conf,      \* the request of this Run, and the target as it is discovered
  pc,        \* the step of the pipeline that comes next
  preview,   \* the preflight that is cached: its request, target and projection
  reqs,      \* the requirements
  templates, \* the cache of plan templates: key, output, sound
  output,    \* the selections of the planner
  attempts,  \* how often the planner was asked
  compiled,  \* the generated cases
  plan,      \* the cases of the plan that is frozen
  mapping,   \* COMPLETE or PARTIAL
  error,     \* why the Run failed, or "none"
  runs       \* how many Runs were begun

vars == <<conf, pc, preview, reqs, templates, output, attempts, compiled, plan,
          mapping, error, runs>>

MaxAttempts == 2
None == [request |-> "none"]
Request(c) == [request |-> "some", tier |-> c.tier, destructive |-> c.destructive,
               diff |-> c.diff, batches |-> c.batches, budget |-> c.budget]

Init ==
  /\ conf \in Configs /\ pc = "preflight" /\ runs = 1
  /\ preview = None /\ reqs = {} /\ templates = {} /\ output = {} /\ attempts = 0
  /\ compiled = {} /\ plan = {} /\ mapping = "none" /\ error = "none"

DeriveFor(c) == Derive(c.target, c.tier, c.destructive, c.diff)
Live(rs) == {q \in rs : q.status = "REQUIRED"}

\* A step that throws ends the Run.
Throw(code) == pc' = "failed" /\ error' = code
Proceed(next) == pc' = next /\ UNCHANGED error

\* The diff is asked of git, each time.
DiffFails == conf.diff # "noop" /\ Throw("DIFF_UNAVAILABLE")

\* matrixFromRequest: the full tier asks for three browsers and two viewports,
\* unless the request says otherwise.
Batches(c) == IF c.batches # 0 THEN c.batches ELSE IF c.tier = "full" THEN 6 ELSE 1

\* preflight: a case per requirement that is to be tested, in each cell.
Projected(c) == Cardinality(Live(DeriveFor(c))) * Batches(c)

\* The control plane compares the projection with the budget.
Budget(projected) ==
  IF projected > conf.budget THEN Throw("MATRIX_BUDGET_EXCEEDED") ELSE Proceed("derive")

\* Within 30 s a request that differs in its client_request_id only is
\* answered from memory. A manual plan is not looked at.
Preflight ==
  /\ pc = "preflight"
  /\ \/ /\ preview' = Request(conf) @@ [target |-> conf.target, projected |-> Projected(conf)]
        /\ Budget(Projected(conf))
     \/ /\ preview # None
        /\ \A f \in DOMAIN Request(conf) : preview[f] = Request(conf)[f]
        /\ Budget(preview.projected) /\ UNCHANGED preview
     \/ DiffFails /\ UNCHANGED preview
  /\ UNCHANGED <<conf, reqs, templates, output, attempts, compiled, plan, mapping, runs>>

\* deriveCoverage: of the target as it is now.
DeriveCoverage ==
  /\ pc = "derive"
  /\ \/ DiffFails /\ UNCHANGED reqs
     \/ reqs' = DeriveFor(conf) /\ Proceed("lookup")
  /\ UNCHANGED <<conf, preview, templates, output, attempts, compiled, plan, mapping, runs>>

\* Mutant: the statuses of the requirements are no part of the key.
KeyStatusless(c, rs) ==
  LET catalog == Catalog(c.target, rs)
  IN  <<[id \in DOMAIN catalog |-> [catalog[id] EXCEPT !.status = "REQUIRED"]], c.tier>>

\* The key of a template: the input of the planner and the base tier.
Key(c, rs) == <<Catalog(c.target, rs), c.tier>>

Cached(key) == {x \in templates : x.key = key /\ x.sound}

Put(key, out) ==
  templates' = {x \in templates : x.key # key} \cup {[key |-> key, output |-> out, sound |-> TRUE]}

\* fillPlanner, before the first attempt.
LookUp ==
  /\ pc = "lookup"
  /\ LET hits == Cached(Key(conf, reqs))
     IN  IF hits = {} THEN Proceed("fill") /\ UNCHANGED output
         ELSE output' = (CHOOSE x \in hits : TRUE).output /\ Proceed("check")
  /\ attempts' = 0
  /\ UNCHANGED <<conf, preview, reqs, templates, compiled, plan, mapping, runs>>

\* An attempt of the provider: it times out, it selects what is invalid, or
\* its output is kept as the template.
Attempt ==
  /\ pc = "fill"
  /\ attempts' = attempts + 1
  /\ LET out   == Fill(conf.target, reqs)
         fails == IF attempts' = MaxAttempts THEN Throw("PLAN_DEFECT") ELSE Proceed("fill")
     IN  \/ fails /\ UNCHANGED <<output, templates>>
         \/ /\ ValidOutput(Catalog(conf.target, reqs), out)
            /\ output' = out /\ Put(Key(conf, reqs), out) /\ Proceed("check")
  /\ UNCHANGED <<conf, preview, reqs, compiled, plan, mapping, runs>>

\* The output is validated again, wherever it comes from, and its template
\* is written if it is no longer there.
Check ==
  /\ pc = "check"
  /\ IF ValidOutput(Catalog(conf.target, reqs), output)
     THEN /\ Proceed("compile")
          /\ IF Cached(Key(conf, reqs)) = {} THEN Put(Key(conf, reqs), output)
             ELSE UNCHANGED templates
     ELSE Throw("PLAN_DEFECT") /\ UNCHANGED templates
  /\ UNCHANGED <<conf, preview, reqs, output, attempts, compiled, plan, mapping, runs>>

Compile ==
  /\ pc = "compile"
  /\ LET cases == CompiledCases(conf.target, reqs, Catalog(conf.target, reqs), output)
     IN  IF Emitted(cases)
         THEN compiled' = cases /\ Proceed("merge")
         ELSE Throw("PLAN_INVALID") /\ UNCHANGED compiled
  /\ UNCHANGED <<conf, preview, reqs, templates, output, attempts, plan, mapping, runs>>

\* normalizePlan, which loadPlan calls, puts only a valid plan in order.
Loads(manual) == manual # {} => ValidPlan(manual, "trusted_manual")

\* The manual plan is loaded, merged, and the whole is validated with the
\* authority of the manual one. Then the plan is frozen.
Freeze ==
  /\ pc = "merge"
  /\ LET merged == Merge(compiled, conf.manual, conf.mode)
         mixed  == conf.manual # {} /\ conf.mode # "auto"
     IN  IF /\ Loads(conf.manual)
            /\ mixed => ValidPlan(merged, "trusted_manual")
         THEN /\ plan' = merged /\ mapping' = Mapping(reqs, merged)
              /\ Proceed("admit")
         ELSE Throw("PLAN_INVALID") /\ UNCHANGED <<plan, mapping>>
  /\ UNCHANGED <<conf, preview, reqs, templates, output, attempts, compiled, runs>>

\* The runner validates what it is given: as a manual plan, if there is one
\* in the request, whatever the mode.
Admit ==
  /\ pc = "admit"
  /\ IF ValidPlan(plan, IF conf.manual = {} THEN "generated" ELSE "trusted_manual")
     THEN Proceed("running") ELSE Throw("PLAN_INVALID")
  /\ UNCHANGED <<conf, preview, reqs, templates, output, attempts, compiled, plan, mapping, runs>>

\* A template on disk is damaged: from then on it is none.
Corrupt ==
  /\ \E x \in templates :
       x.sound /\ templates' = (templates \ {x}) \cup {[x EXCEPT !.sound = FALSE]}
  /\ UNCHANGED <<conf, pc, preview, reqs, output, attempts, compiled, plan, mapping, error, runs>>

\* The next Run, with other settings or of a target that has changed.
NextRun ==
  /\ pc \in {"running", "failed"} /\ runs < MaxRuns
  /\ conf' \in Configs /\ pc' = "preflight" /\ runs' = runs + 1
  /\ reqs' = {} /\ output' = {} /\ attempts' = 0 /\ compiled' = {} /\ plan' = {}
  /\ mapping' = "none" /\ error' = "none"
  /\ UNCHANGED <<preview, templates>>

Next ==
  \/ Preflight \/ DeriveCoverage \/ LookUp \/ Attempt \/ Check
  \/ Compile \/ Freeze \/ Admit \/ Corrupt \/ NextRun

Spec == Init /\ [][Next]_vars

-------------------------------------------------------------------------------
(* Properties.                                                             *)

Planned == pc \in {"admit", "running"}
Generated == {c \in plan : c.origin = "generated"}
RequirementOf(c) == CHOOSE q \in reqs : q.id \in c.refs

\* selectCases of the runner.
Rank(tier) == CASE tier = "smoke" -> 0 [] tier = "fast" -> 1 [] OTHER -> 2
Selected == {c \in plan : Rank(c.tier) <= Rank(conf.tier)}

\* The requirements and the cases of a plan account for each other. No requirement
\* of a generated plan gets lost: it has a case with an oracle that the runner
\* selects at the tier of the Run, or the mapping audit says that it has none
\* (compiler: unmapped; execution: selectCases). And what is blocked or skipped is
\* not executed, also when the selections come from a template of an earlier Run
\* (PlanTemplateCache.key).
NothingUnaccounted ==
  Planned =>
    /\ conf.manual = {} =>
         \A q \in Required(reqs) :
           \/ \E c \in Selected : q.id \in c.bound
           \/ q.id \in {u.id : u \in Unmapped(reqs, compiled)} /\ mapping = "PARTIAL"
    /\ \A c \in Generated : \E q \in Live(reqs) : q.id \in c.refs

\* Planning fails for a reason that lies outside of it: a planner that timed
\* out, no requirement to test, ids the code cannot carry, a manual plan that
\* is not valid, or a valid one beside discovered locators (compiler and
\* validator agree otherwise).
FailsForCause ==
  /\ error = "PLAN_DEFECT" => attempts = MaxAttempts
  /\ error = "PLAN_INVALID" =>
       \/ Live(reqs) = {} \/ conf.target.naming # "plain"
       \/ /\ conf.manual # {}
          /\ \/ ~ValidPlan(conf.manual, "trusted_manual")
             \/ conf.mode # "replace" /\ \E q \in Live(reqs) : q.intent \in UiIntents

\* What an assertion or a capture of a plan reads was saved before; the
\* validator checks only what is interpolated (validateSteps).
SourcesAreSaved ==
  Planned => \A c \in Generated : \A i \in DOMAIN AllSteps(c) :
    \A name \in AllSteps(c)[i].src : \E j \in 1..(i - 1) : AllSteps(c)[j].save = name

\* A constraint of a resource that has an update and no create, where a removal
\* was observed first: selectEndpointFact of the catalog finds no POST and takes
\* the first fact of the feature (catalog-builder 24 and 84). The case of such a
\* read_only requirement sends a DELETE to an id that none of its steps made.
Misdirected(t) ==
  /\ WithMethod(t, {"POST"}) = "none" /\ WithMethod(t, {"PATCH"}) # "none"
  /\ \E f \in t.fields : f[2] \in {"required", "enum"}
  /\ Method(First(t.facts, Operations)) = "DELETE"

\* Where the resource has an operation that removes one item, a generated
\* case removes only what it created (or found by its own marker): for every
\* target but the misdirected ones. Of those it is false, also where destructive
\* cases are not allowed, against docs/M11-generalized-evidence-and-triage-plan.md:27
\* ("Default destructive generation to deny").
Own(c, i) == \A name \in AllSteps(c)[i].by :
  \E j \in 1..(i - 1) : /\ AllSteps(c)[j].save = name
                        /\ AllSteps(c)[j].method = "POST" \/ AllSteps(c)[j].act = "capture_json"
RemovesOnlyOwn ==
  Planned /\ WithMethod(conf.target, {"DELETE"}) = "delete" /\ ~Misdirected(conf.target) =>
    \A c \in Generated : \A i \in DOMAIN AllSteps(c) :
      AllSteps(c)[i].method = "DELETE" => AllSteps(c)[i].by # {} /\ Own(c, i)

\* docs/M11-generalized-evidence-and-triage-plan.md:92 and 237: a requirement
\* whose fixture operations are not proven is blocked, every mutating case
\* has a proven fixture strategy.
Mutating(c) == \E i \in DOMAIN AllSteps(c) :
  AllSteps(c)[i].method \in {"POST", "PATCH", "DELETE"}
MutatingIsProven ==
  Planned => \A c \in Generated :
    Mutating(c) /\ RequirementOf(c).scenario \in {"normal", "persistence", "empty_state"}
      => FixtureProven(conf.target)

\* derivation/src/requirements-v2.ts:102: "operation returns its declared
\* success response": the request of a case is one to its own operation.
AsksItsOwn ==
  Planned => \A c \in Generated :
    LET q == RequirementOf(c)
    IN  q.op # "none" => \E i \in DOMAIN AllSteps(c) :
          /\ AllSteps(c)[i].method = Method(q.op)
          /\ AllSteps(c)[i].path = PathOf(conf.target, q.op)
================================================================================
