------------------------------ MODULE PlanCompiler ------------------------------
(***************************************************************************)
(* From requirements to a test plan: the catalog of candidates and the     *)
(* selections of the planner (planner), the cases that are compiled from   *)
(* them (compiler) and the validation and merging of plans (test-plan).    *)
(*                                                                         *)
(* A step is a record: act, method and path (for a request), by (the names *)
(* that are interpolated in it), src (the names its assertion or capture   *)
(* reads), save (the name it defines) and css (it holds a locator that was *)
(* discovered in the page, or "manual"). A plan is the set of its cases:   *)
(* their order is left out, and cases of one id differ otherwise.          *)
(***************************************************************************)
EXTENDS Requirements

Cut == <<"cut", "cut">>
CaseId(t, q) == IF t.naming = "long" /\ q.slugged THEN Cut ELSE q.id

-------------------------------------------------------------------------------
(* The planner.                                                            *)

Strength(q) ==
  IF q.intent \in {"route_loads", "not_found_semantics", "cors_allows_operation"}
  THEN "normal" ELSE "strong"

\* The endpoint facts a requirement refers to: all those of its resource, or,
\* for a constraint of a field, that of the mutation.
Related(q) ==
  IF q.intent \in {"required_field_rejected", "enum_validation", "boundary_rejected"}
  THEN {q.op} ELSE Operations

\* selectEndpointFact: the first related fact of the method the intent calls
\* for; failing that, the first fact of the feature.
Endpoint(t, q) ==
  LET Got(wanted) == First(t.facts, wanted \cap Related(q))
      gets == {op \in Operations : Method(op) = "GET"}
      match ==
        CASE q.intent = "not_found_semantics" -> Got({op \in gets : PathOf(t, op) = "item"})
          [] q.intent \in {"required_field_rejected", "enum_validation"} -> Got({"create"})
          [] q.intent = "search_filters_results" ->
               IF Got({"search"}) # "none" THEN "search" ELSE Got(gets)
          [] q.intent = "summary_is_consistent" -> Got({"summary"})
          [] q.intent = "count_consistent" -> Got({"count"})
          [] q.intent = "cors_allows_operation" -> Got({"cors"})
          [] OTHER -> IF Got(gets) # "none" THEN Got(gets) ELSE Got(Operations)
  IN  IF match # "none" THEN match ELSE First(t.facts, Operations)

\* One action and one expectation per requirement; ids that are cut to the
\* same prefix are one entry, and one requirement has it.
Catalog(t, reqs) ==
  [ id \in {CaseId(t, q) : q \in reqs} |->
      LET q == CHOOSE r \in reqs : CaseId(t, r) = id
      IN  [ intent |-> q.intent, scenario |-> q.scenario, status |-> q.status,
            priority |-> q.priority, strength |-> Strength(q),
            endpoint |-> IF q.op = "none" THEN "none" ELSE Endpoint(t, q) ] ]

\* fill: everything that is neither blocked nor skipped, with the actions and
\* expectations that are made for it.
Fill(t, reqs) ==
  { [case |-> CaseId(t, q), made |-> q.id] : q \in {r \in reqs : r.status = "REQUIRED"} }

\* validatePlannerOutput; the statuses that are checked do not include
\* TIER_SKIPPED.
ValidOutput(catalog, output) ==
  /\ \A x, y \in output : x.case = y.case => x = y
  /\ \A x \in output :
       /\ x.case \in DOMAIN catalog
       /\ catalog[x.case].status \notin {"BLOCKED", "NOT_APPLICABLE"}
       /\ catalog[x.case].scenario = "normal" =>
            catalog[x.case].strength = "strong" \/ catalog[x.case].intent \in
              {"route_loads", "not_found_semantics", "cors_allows_operation"}
  /\ \A id \in DOMAIN catalog :
       catalog[id].priority = "P0" /\ catalog[id].status = "REQUIRED" =>
         \E x \in output : x.case = id

-------------------------------------------------------------------------------
(* The compiler.                                                           *)

Step == [act |-> "", method |-> "", path |-> "", by |-> {}, src |-> {}, save |-> "none",
         css |-> "none"]
Ask(method, path, by, save) ==
  [Step EXCEPT !.act = "api_request", !.method = method, !.path = path, !.by = by, !.save = save]
Expect(act, src) == [Step EXCEPT !.act = act, !.src = src]
Look(act, save) == [Step EXCEPT !.act = act, !.css = "discovered_dom", !.save = save]
Goto == [Step EXCEPT !.act = "goto", !.path = "page"]
Wait == [Step EXCEPT !.act = "wait_for"]

\* A parameter of a path is replaced by an identity; without one, nothing is.
At(path, names) == IF HasParameter(path) THEN names ELSE {}

\* The paths that the oracle and the fixture of a requirement name; an
\* operation that is missing is guessed as an item of the collection.
Collection(t) == PathOf(t, CollectionRead(t))
PathFor(t, methods, otherwise) ==
  IF WithMethod(t, methods) # "none" THEN PathOf(t, WithMethod(t, methods)) ELSE otherwise
DetailPath(t) == IF DetailRead(t) # "none" THEN PathOf(t, DetailRead(t)) ELSE "item"
CreatePath(t) == PathFor(t, {"POST"}, Collection(t))
DeletePath(t) == PathFor(t, {"DELETE"}, DetailPath(t))
UpdatePath(t) == PathFor(t, {"PATCH"}, DetailPath(t))

Execution(setup, steps, cleanup, bound) ==
  [setup |-> setup, steps |-> steps, cleanup |-> cleanup, bound |-> bound]
IsAssertion(step) ==
  step.act \in {"expect_status", "expect_header", "expect_relation", "expect_collection",
                "expect_visible"}

\* Mutant: the update comes before the entity it updates.
RuntimeCrudSwapped(t, intent) ==
  Execution(<<>>,
    <<Ask("GET", Collection(t), {}, "seed"),
      Ask("PATCH", UpdatePath(t), At(UpdatePath(t), {"created"}), "updated"),
      Ask("POST", CreatePath(t), {}, "created"), Expect("expect_relation", {"updated"})>>,
    <<Ask("DELETE", DeletePath(t), At(DeletePath(t), {"created"}), "none")>>, {4})

\* Mutant: the case deletes what it found, not what it created.
RuntimeCrudSeed(t, intent) ==
  Execution(<<>>,
    <<Ask("GET", Collection(t), {}, "seed"), Ask("POST", CreatePath(t), {}, "created"),
      Expect("expect_relation", {"created"})>>,
    <<Ask("DELETE", DeletePath(t), At(DeletePath(t), {"seed"}), "none")>>, {3})

\* Without a payload that can be used, the first entity found is cloned.
RuntimeCrud(t, intent) ==
  LET usable == Usable(t)
      clone  == IF usable THEN {} ELSE {"seed"}
      seed   == Ask("GET", Collection(t), {}, "seed")
      remove == Ask("DELETE", DeletePath(t), At(DeletePath(t), {"created"}), "none")
      readback(save) == Ask("GET", DetailPath(t), At(DetailPath(t), {"created"}), save)
      whose  == IF usable THEN {"created"} ELSE {"seed"}
      patch(save) == Ask("PATCH", UpdatePath(t), At(UpdatePath(t), whose) \cup clone, save)
      list   == Ask("GET", Collection(t), {}, "refreshed")
  IN  CASE intent = "create_succeeds" ->
             Execution(<<>>,
               <<seed, Ask("POST", CreatePath(t), clone, "created"), list,
                 [Expect("expect_collection", {"refreshed"}) EXCEPT !.by = {"created"}]>>,
               <<remove>>, {4})
        [] intent = "update_persists" ->
             LET own   == IF usable THEN <<Ask("POST", CreatePath(t), {}, "created")>> ELSE <<>>
                 steps == <<seed>> \o own \o
                   <<patch("updated"), list,
                     [Step EXCEPT !.act = "capture_json", !.src = {"refreshed"},
                                  !.by = {"updated"}, !.save = "selected"],
                     Expect("expect_relation", {"updated", "selected"})>>
             IN  Execution(<<>>, steps, <<IF usable THEN remove ELSE patch("none")>>, {Len(steps)})
        [] intent = "delete_removes_entity" ->
             Execution(<<>>,
               <<seed, Ask("POST", CreatePath(t), clone, "created"),
                 [remove EXCEPT !.save = "deleted"], readback("refreshed"),
                 Expect("expect_status", {"refreshed"})>>,
               <<readback("none")>>, {5})

\* Mutant: the entity of the list is compared, though none was selected.
DetailConsistencyUnselected(t) ==
  Execution(<<>>,
    <<Ask("GET", Collection(t), {}, "list"),
      Ask("GET", DetailPath(t), At(DetailPath(t), {"list"}), "detail"),
      Expect("expect_relation", {"detail", "selected"})>>, <<>>, {3})

\* buildDetailConsistencyExecution: of an entity of its own, or of the second
\* one that is listed.
DetailConsistency(t) ==
  LET usable == Usable(t)
      whose  == IF usable THEN {"fixture"} ELSE {"list"}
      setup  == IF usable THEN <<Ask("POST", CreatePath(t), {}, "fixture")>> ELSE <<>>
      steps  == <<Ask("GET", Collection(t), {}, "list")>>
        \o (IF usable THEN <<[Step EXCEPT !.act = "capture_json", !.src = {"list"},
                                          !.by = whose, !.save = "selected"]>> ELSE <<>>)
        \o <<Ask("GET", DetailPath(t), At(DetailPath(t), whose), "detail"),
             Expect("expect_relation", {"detail", IF usable THEN "selected" ELSE "list"})>>
      cleanup == IF usable /\ WithMethod(t, {"DELETE"}) # "none"
                 THEN <<Ask("DELETE", DeletePath(t), At(DeletePath(t), whose), "none")>> ELSE <<>>
  IN  Execution(setup, steps, cleanup, {Len(setup) + Len(steps)})

\* buildUiBehaviorExecution
UiBehavior(t, intent) ==
  LET list == Ask("GET", Collection(t), {}, "list")
      click == Look("click", "none")
      typed(by) == [Look("fill", "none") EXCEPT !.by = by]
      same(names) == Expect("expect_relation", names)
      all(by) == [Expect("expect_collection", {"texts"}) EXCEPT !.by = by]
      bind(setup, steps, cleanup) ==
        Execution(setup, steps, cleanup,
          {Len(setup) + i : i \in {j \in DOMAIN steps : IsAssertion(steps[j])}})
  IN  CASE intent = "ui_count_consistent" ->
             bind(<<>>, <<list, Goto, Look("capture_count", "rendered"),
               Look("capture_text", "displayed"), same({"rendered", "list"}),
               same({"displayed", "list"})>>, <<>>)
        [] intent = "ui_search_filters" ->
             bind(<<>>, <<list, Goto, typed({"list"}), Wait, Look("capture_texts", "texts"),
               same({"texts"}), all({"list"}), typed({}), Wait,
               Look("capture_count", "empty"), same({"empty"})>>, <<>>)
        [] intent = "ui_status_consistent" ->
             bind(<<>>, <<list, Goto, Look("capture_texts", "texts")>>
               \o (IF t.states THEN <<Expect("expect_collection", {"list"})>> ELSE <<>>)
               \o <<same({"list", "texts"})>>, <<>>)
        [] intent = "ui_create_refreshes" ->
             bind(<<>>, <<Goto, typed({}), click, Wait, Look("expect_visible", "none")>>,
               <<list, [Step EXCEPT !.act = "capture_json", !.src = {"list"}, !.save = "created"],
                 Ask("DELETE", "item", {"created"}, "none")>>)
        [] intent = "ui_toggle_refreshes" ->
             bind(<<>>, <<list, Goto, Look("capture_text", "before"), click, Wait,
               Look("capture_text", "after"), same({"after", "before"})>>,
               <<Ask("PATCH", "item", {"list"}, "none")>>)
        [] intent = "ui_delete_removes" ->
             bind(<<list, Ask("POST", "items", {"list"}, "created")>>,
               <<Goto, Look("capture_count", "before"), click, Wait,
                 Look("capture_count", "after"), same({"after", "before"})>>,
               <<Ask("DELETE", "item", {"created"}, "none")>>)

\* The rest of buildRequirementExecution: a request to the endpoint of the
\* catalog, what the intent adds to it, and its assertions.
ByEndpoint(t, q, endpoint) ==
  LET path    == PathOf(t, endpoint)
      primary == Ask(Method(endpoint), path, {}, "response")
      search  == q.intent = "search_filters_results"
      base    == IF path = "query" THEN "items" ELSE path
      where   == PathFor(t, {"POST"}, base)
      post(save) == Ask("POST", where, {}, save)
      undo(save) == LET target == PathFor(t, {"DELETE"}, where)
                    IN  Ask("DELETE", target, At(target, {save}), "none")
      setup   == IF search THEN <<post("setup"), post("secondary")>> ELSE <<>>
      status  == Expect("expect_status", {"response"})
      steps   ==
        <<primary>>
        \o (IF q.intent = "count_consistent"
            THEN <<Ask("GET", Collection(t), {}, "list")>> ELSE <<>>)
        \o <<status>>
        \o (CASE q.intent = "count_consistent" -> <<Expect("expect_relation", {"response", "list"})>>
              [] q.intent = "summary_is_consistent" -> <<Expect("expect_relation", {"response"})>>
              [] search -> <<Expect("expect_collection", {"response"})>>
              [] q.intent = "cors_allows_operation" -> <<Expect("expect_header", {"response"})>>
              [] OTHER -> <<>>)
      \* the status alone is no oracle where the intent has a semantic one
      semantic == q.intent \in {"count_consistent", "summary_is_consistent", "search_filters_results"}
  IN  Execution(setup, steps, IF search THEN <<undo("setup"), undo("secondary")>> ELSE <<>>,
        {Len(setup) + i : i \in {j \in DOMAIN steps :
           IsAssertion(steps[j]) /\ (semantic => steps[j].act # "expect_status")}})

\* buildRequirementExecution
Build(t, q, endpoint) ==
  CASE q.intent \in UiIntents -> UiBehavior(t, q.intent)
    [] q.intent = "route_detail" -> DetailConsistency(t)
    [] q.intent \in {"create_succeeds", "update_persists", "delete_removes_entity"} ->
         RuntimeCrud(t, q.intent)
    [] OTHER -> ByEndpoint(t, q, endpoint)

AllSteps(c) == c.setup \o c.steps \o c.cleanup


\* Mutant: what is no P0 is left to the full tier.
TierOfFull(q) ==
  IF q.priority # "P0" THEN "full"
  ELSE IF q.scenario \in {"invalid_input", "empty_state", "boundary"} THEN "fast" ELSE "smoke"

TierOf(q) ==
  IF q.priority # "P0" THEN IF q.priority = "P1" THEN "fast" ELSE "full"
  ELSE IF q.scenario \in {"invalid_input", "empty_state", "boundary"} THEN "fast" ELSE "smoke"

\* A case names its requirement; an oracle is bound if a step asserts it.
Case(t, q, endpoint) ==
  LET x == Build(t, q, endpoint)
  IN  [ id |-> q.id, origin |-> "generated", refs |-> {q.id},
        bound |-> IF x.bound = {} THEN {} ELSE {q.id}, oracles |-> x.bound,
        tier |-> TierOf(q), risk |-> q.risk, dotted |-> t.naming = "dotted" /\ q.slugged,
        setup |-> x.setup, steps |-> x.steps, cleanup |-> x.cleanup ]

\* compileTestPlan: a selection whose case id is not that of a requirement,
\* uncut, is passed over.
CompiledCases(t, reqs, catalog, output) ==
  { Case(t, q, catalog[q.id].endpoint) : q \in {r \in reqs : \E x \in output : x.case = r.id} }

-------------------------------------------------------------------------------
(* Validation, merging and mapping.                                        *)

\* extractVariableReferences splits a reference at its dots: where the names
\* have dots themselves, it finds other ones.
References(c, i) == IF c.dotted THEN {"cut" : name \in AllSteps(c)[i].by}
                    ELSE AllSteps(c)[i].by

\* What is interpolated must be defined by an earlier step. What src reads is
\* not checked.
Resolves(c) ==
  \A i \in DOMAIN AllSteps(c) : \A name \in References(c, i) :
    \E j \in 1..(i - 1) : AllSteps(c)[j].save = name

\* validateLocator: who may use a CSS locator.
Trusted(step, authority) ==
  /\ step.css = "manual" => authority = "trusted_manual"
  /\ step.css = "discovered_dom" => authority = "generated"

\* validatePlan
ValidPlan(cases, authority) ==
  /\ cases # {}
  /\ \A c, d \in cases : c.id = d.id => c = d
  /\ \A c \in cases :
       /\ c.steps # <<>> /\ c.refs # {}
       /\ c.bound \subseteq c.refs
       /\ \A i \in c.oracles : i \in DOMAIN AllSteps(c) /\ IsAssertion(AllSteps(c)[i])
       /\ Resolves(c)
       /\ \A i \in DOMAIN AllSteps(c) : Trusted(AllSteps(c)[i], authority)

\* compileTestPlan returns no plan that is not valid.
Emitted(cases) == ValidPlan(cases, "generated")

\* mergePlans: a manual case takes the place of the generated one of its id.
Merge(auto, manual, mode) ==
  IF manual = {} \/ mode = "auto" THEN auto
  ELSE IF mode = "replace" THEN manual
  ELSE manual \cup {c \in auto : \A m \in manual : m.id # c.id}

\* requirementCaseMapFor, requirementOracleMapFor
CasesFor(q, cases) == {c.id : c \in {x \in cases : q.id \in x.refs}}
OraclesFor(q, cases) == {c.id : c \in {x \in cases : q.id \in x.bound}}

Mapping(reqs, cases) ==
  IF \A q \in Required(reqs) : CasesFor(q, cases) # {} /\ OraclesFor(q, cases) # {}
  THEN "COMPLETE" ELSE "PARTIAL"

\* The reason why the compiler left a requirement without a case.
Unmapped(reqs, cases) ==
  { [ id |-> q.id, reason |-> IF q.status # "BLOCKED" THEN "NOT_PLANNED"
                              ELSE IF q.oracle THEN "BLOCKED" ELSE "MISSING_ORACLE" ]
    : q \in {r \in Required(reqs) : CasesFor(r, cases) = {}} }
================================================================================
