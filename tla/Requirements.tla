------------------------------ MODULE Requirements ------------------------------
(***************************************************************************)
(* What a Run must test: the requirements derived from the application     *)
(* graph of the target (derivation), and the payloads and fixtures that    *)
(* are synthesized for them (payload-synthesis). Pure functions of what    *)
(* was discovered and of the settings of the Run.                          *)
(*                                                                         *)
(* A target t is a record: one resource, as the application graph shows it *)
(*   ops       its operations, in the order of their ids                   *)
(*   facts     the same operations, in the order they were observed        *)
(*   observed  those that were seen to answer 2xx                          *)
(*   open      the path of the search carries a parameter (/r?q=:query)    *)
(*   schema    the create operation has a request schema                   *)
(*   identity  the create operation has evidence of an identity            *)
(*   fields    set of <<name, rule, numeric>>: the constraints of fields;  *)
(*             only the field "title" is no metadata of the entity         *)
(*   workflow  a workflow over the operations was discovered               *)
(*   ui        the semantics of the structures found in the live page      *)
(*   states    the page maps the states of the resource                    *)
(*   naming    "plain"; "long": the ids of requirements exceed 90          *)
(*             characters; "dotted": the last segment of the path has a    *)
(*             dot                                                         *)
(***************************************************************************)
EXTENDS Naturals, Sequences, FiniteSets, SequencesExt

Operations == {"list", "export", "detail", "search", "summary", "count",
               "create", "update", "delete", "clear", "cors"}
Rules == {"required", "enum", "length", "format", "unknown"}
Tiers == {"smoke", "fast", "full"}

Method(op) ==
  CASE op = "create" -> "POST" [] op = "update" -> "PATCH" [] op = "cors" -> "OPTIONS"
    [] op \in {"delete", "clear"} -> "DELETE" [] OTHER -> "GET"

\* The template of a path: the collection, one of its items, or another one.
PathOf(t, op) ==
  CASE op \in {"list", "create", "clear", "cors"} -> "items"
    [] op \in {"detail", "update", "delete"} -> "item"
    [] op = "search" -> IF t.open THEN "query" ELSE "search"
    [] OTHER -> op
HasParameter(path) == path \in {"item", "query"}

\* Array.find: the first element of a sequence that is wanted, or "none".
First(s, wanted) ==
  IF \E i \in DOMAIN s : s[i] \in wanted
  THEN s[CHOOSE i \in DOMAIN s : s[i] \in wanted /\ \A j \in 1..(i - 1) : s[j] \notin wanted]
  ELSE "none"
WithMethod(t, methods) == First(t.ops, {op \in Operations : Method(op) \in methods})

\* The collection is the shallowest GET without a parameter that is no
\* search, summary or count.
CollectionRead(t) ==
  IF "list" \in ToSet(t.ops) THEN "list"
  ELSE First(t.ops, {"export"})
DetailRead(t) ==
  First(t.ops, {op \in Operations : Method(op) = "GET" /\ HasParameter(PathOf(t, op))})

-------------------------------------------------------------------------------
\* Payload synthesis. A constraint has a variant that violates it if the code
\* knows how to make one; a length without a number has none.
Variant(field) ==
  \/ field[2] \in {"required", "enum", "format"}
  \/ field[2] = "length" /\ field[3]
PayloadProven(t) == t.schema /\ t.fields # {}

\* synthesizeFixture: what a fixture of the resource can be made of.
FixtureProven(t) ==
  /\ WithMethod(t, {"POST"}) # "none"
  /\ PayloadProven(t) /\ t.identity
  /\ WithMethod(t, {"GET"}) # "none" /\ WithMethod(t, {"DELETE"}) # "none"

\* usableRuntimePayload: the synthesized payload of a create has a value that
\* is not metadata.
Usable(t) == "create" \in ToSet(t.ops) /\ \E f \in t.fields : f[1] = "title"

-------------------------------------------------------------------------------
\* A requirement as it is drafted: its id is made of what it is about and of what
\* it tests; lacks are the reasons to block it.
Draft(op, intent, scenario, priority, risk) ==
  [ id |-> <<op, intent>>, op |-> op, intent |-> intent, scenario |-> scenario,
    priority |-> priority, risk |-> risk, feature |-> "items", oracle |-> TRUE,
    lacks |-> {}, slugged |-> TRUE ]

Missing(op, reason) == IF op = "none" THEN {reason} ELSE {}

ReadRequirement(t, op, intent, scenario, priority) ==
  { [Draft(op, intent, scenario, IF op \in t.observed THEN priority ELSE "P1", "read_only")
      EXCEPT !.slugged = FALSE] }

SearchRequirement(op) == {Draft(op, "search_filters_results", "normal", "P0", "read_only")}

CountRequirement(t, op) ==
  IF CollectionRead(t) = "none"
  THEN ReadRequirement(t, op, "route_loads", "normal", "P1")
  ELSE {Draft(op, "count_consistent", "normal", "P0", "read_only")}

DetailRequirements(t, op) ==
  { [Draft(op, "route_detail", "normal", "P0", "read_only")
      EXCEPT !.oracle = CollectionRead(t) # "none",
             !.lacks  = Missing(CollectionRead(t), "MISSING_ASSOCIATED_COLLECTION_OPERATION")],
    [Draft(op, "not_found_semantics", "not_found", "P0", "read_only") EXCEPT !.slugged = FALSE] }

CreateRequirement(t, op) ==
  LET read == CollectionRead(t)  cleanup == WithMethod(t, {"DELETE"})
  IN  { [Draft(op, "create_succeeds", "normal", "P0", "mutating")
          EXCEPT !.oracle = "none" \notin {read, cleanup},
                 !.lacks  = Missing(read, "MISSING_READ_OPERATION")
                              \cup Missing(cleanup, "MISSING_RESOURCE_FIXTURE_OPERATION")] }

UpdateRequirement(t, op) ==
  LET list == CollectionRead(t)  read == DetailRead(t)
  IN  { [Draft(op, "update_persists", "persistence", "P0", "mutating")
          EXCEPT !.oracle = "none" \notin {list, read},
                 !.lacks  = Missing(list, "MISSING_COLLECTION_OPERATION")
                              \cup Missing(read, "MISSING_READ_OPERATION")] }

DeleteRequirement(t, op) ==
  LET create == WithMethod(t, {"POST"})  list == CollectionRead(t)  read == DetailRead(t)
  IN  { [Draft(op, "delete_removes_entity", "empty_state", "P0", "destructive")
          EXCEPT !.oracle = "none" \notin {create, list, read},
                 !.lacks  = Missing(create, "MISSING_CREATE_OPERATION")
                              \cup Missing(list, "MISSING_COLLECTION_OPERATION")
                              \cup Missing(read, "MISSING_READ_OPERATION")] }

OperationRequirements(t, op) ==
  CASE op = "search"  -> SearchRequirement(op)
    [] op = "summary" -> ReadRequirement(t, op, "summary_is_consistent", "normal", "P0")
    [] op = "count"   -> CountRequirement(t, op)
    [] op = "cors"    -> ReadRequirement(t, op, "cors_allows_operation", "cors", "P1")
    [] op = "detail"  -> DetailRequirements(t, op)
    [] op \in {"list", "export"} -> ReadRequirement(t, op, "route_loads", "normal", "P0")
    [] op = "create"  -> CreateRequirement(t, op)
    [] op = "update"  -> UpdateRequirement(t, op)
    \* both removals have the id req_<resource>_delete: add keeps the first
    [] op \in {"delete", "clear"} -> DeleteRequirement(t, WithMethod(t, {"DELETE"}))

\* A violation of a constraint must be rejected by the create operation, or,
\* if there is none, by the update.
FieldRequirement(t, field) ==
  LET mutation == IF WithMethod(t, {"POST"}) # "none" THEN WithMethod(t, {"POST"})
                  ELSE WithMethod(t, {"PATCH"})
      rule == field[2]
      missing == Missing(mutation, "MISSING_MUTATION_OPERATION")
  IN  IF rule = "unknown" THEN {}
      ELSE { [Draft(mutation,
                 CASE rule = "required" -> "required_field_rejected"
                   [] rule = "enum" -> "enum_validation" [] OTHER -> "boundary_rejected",
                 CASE rule = "required" -> "required_field"
                   [] rule = "enum" -> "invalid_input" [] OTHER -> "boundary",
                 "P0", "read_only")
               EXCEPT !.id = <<field[1], rule>>, !.oracle = mutation # "none",
                      !.lacks = missing \cup
                        (IF Variant(field) THEN {} ELSE {"MISSING_CONSTRAINT_VARIANT"})] }

WorkflowRequirement(t) ==
  IF ~t.workflow THEN {}
  ELSE { [Draft("none", "route_loads", "normal", "P1", "read_only")
           EXCEPT !.oracle = FALSE, !.lacks = {"MISSING_WORKFLOW_ORACLE"}, !.slugged = FALSE] }

UiIntents == {"ui_count_consistent", "ui_search_filters", "ui_status_consistent",
              "ui_create_refreshes", "ui_toggle_refreshes", "ui_delete_removes"}

\* The behaviours of the live page that its structures let one test.
UiRequirements(t) ==
  LET has(semantics) == semantics \subseteq t.ui
      create == "create" \in ToSet(t.ops)
      remove == "delete" \in ToSet(t.ops)
      ui(intent, scenario, risk) ==
        [Draft("none", intent, scenario, "P0", risk)
          EXCEPT !.feature = "live.ui", !.slugged = FALSE]
      when(condition, q) == IF condition THEN {q} ELSE {}
  IN  IF ~has({"item"}) \/ CollectionRead(t) = "none" THEN {}
      ELSE UNION {
        when(has({"count"}),  ui("ui_count_consistent", "normal", "read_only")),
        when(has({"search"}), ui("ui_search_filters", "normal", "read_only")),
        when(has({"status"}), ui("ui_status_consistent", "normal", "read_only")),
        when(create /\ remove /\ has({"input", "submit"}),
             ui("ui_create_refreshes", "normal", "mutating")),
        when("update" \in ToSet(t.ops) /\ has({"status", "toggle"}),
             ui("ui_toggle_refreshes", "persistence", "mutating")),
        when(create /\ remove /\ has({"delete"}),
             ui("ui_delete_removes", "empty_state", "destructive")) }

Drafts(t) ==
  (UNION { OperationRequirements(t, op) : op \in ToSet(t.ops) })
    \cup (UNION { FieldRequirement(t, f) : f \in t.fields })
    \cup WorkflowRequirement(t) \cup UiRequirements(t)

-------------------------------------------------------------------------------
AllowedPriorities(tier) ==
  CASE tier = "smoke" -> {"P0"} [] tier = "fast" -> {"P0", "P1"}
    [] OTHER -> {"P0", "P1", "P2"}
AllowedScenarios(tier) ==
  {"normal", "required_field"} \cup
  (IF tier = "smoke" THEN {}
   ELSE {"invalid_input", "empty_state", "boundary", "not_found", "persistence", "cors"})

\* diff: "noop", or a change that touches the feature of the resource ("hit")
\* or another one ("miss"). No mapping of a file names the feature live.ui.
Affected(d, diff) == diff = "noop" \/ (diff = "hit" /\ d.feature = "items")

\* Why a draft cannot be planned.
Lack(d, destructive) ==
  d.lacks \cup (IF d.oracle THEN {} ELSE {"MISSING_ORACLE"})
    \cup (IF d.risk = "destructive" /\ ~destructive THEN {"DESTRUCTIVE_NOT_ALLOWED"} ELSE {})

\* The tier has the last word: what it skips is neither required nor blocked.
Status(d, tier, destructive, diff) ==
  IF \/ ~Affected(d, diff)
     \/ d.priority \notin AllowedPriorities(tier)
     \/ d.scenario \notin AllowedScenarios(tier) THEN "TIER_SKIPPED"
  ELSE IF Lack(d, destructive) # {} THEN "BLOCKED" ELSE "REQUIRED"

\* deriveGraphRequirements
Derive(t, tier, destructive, diff) ==
  { [ id |-> d.id, op |-> d.op, intent |-> d.intent, scenario |-> d.scenario,
      priority |-> d.priority, risk |-> d.risk, oracle |-> d.oracle,
      slugged |-> d.slugged, status |-> Status(d, tier, destructive, diff) ]
    : d \in Drafts(t) }

\* Those a Run must account for.
Required(reqs) == {q \in reqs : q.status \notin {"TIER_SKIPPED", "NOT_APPLICABLE"}}
================================================================================
