--------------------------- MODULE PlanPipelineProofs ---------------------------
(***************************************************************************)
(* Theorems about PlanPipeline, for all targets, settings, manual plans    *)
(* and histories of the caches: what a plan accounts for, why planning may *)
(* fail, and what the steps of its cases refer to and remove.              *)
(***************************************************************************)
EXTENDS PlanPipeline, SequenceTheorems, WellFoundedInduction, TLAPS

--------------------------------------------------------------------------------
(***************************************************************************)
(* What is found in a list, and the operations of a target.                *)
(***************************************************************************)
LEMMA Least ==
  ASSUME NEW S \in SUBSET Nat, S # {} PROVE \E m \in S : \A i \in S : m <= i
<1>1. IsWellFoundedOn(OpToRel(<, Nat), Nat)  BY NatLessThanWellFounded
<1>2. PICK m \in S : \A i \in S : ~(<<i, m>> \in OpToRel(<, Nat))
  <2> HIDE DEF IsWellFoundedOn
  <2> QED BY <1>1, WFMin
<1>3. ASSUME NEW i \in S PROVE m <= i
  <2>1. <<i, m>> \in Nat \X Nat  OBVIOUS
  <2>2. i < m => <<i, m>> \in OpToRel(<, Nat)  BY <2>1 DEF OpToRel
  <2>3. ~(i < m)  BY <2>2, <1>2, Zenon
  <2> QED BY <2>3
<1> QED BY <1>3

LEMMA FirstIs ==
  ASSUME NEW s \in Seq(Operations), NEW wanted
  PROVE  \/ First(s, wanted) \in wanted /\ First(s, wanted) \in ToSet(s)
         \/ First(s, wanted) = "none" /\ wanted \cap ToSet(s) = {}
<1> DEFINE P(i) == s[i] \in wanted /\ \A j \in 1..(i - 1) : s[j] \notin wanted
           hits == {i \in DOMAIN s : s[i] \in wanted}
<1>0. DOMAIN s = 1..Len(s) /\ Len(s) \in Nat  OBVIOUS
<1>1. CASE hits = {}
  BY <1>1 DEF First, ToSet
<1>2. CASE hits # {}
  <2>1. hits \in SUBSET Nat  BY <1>0
  <2>2. PICK m \in hits : \A i \in hits : m <= i  BY <1>2, <2>1, Least
  <2>3. m \in DOMAIN s /\ P(m)  BY <1>0, <2>2
  <2>4. \E i \in DOMAIN s : P(i)  BY <2>3
  <2> DEFINE i == CHOOSE i \in DOMAIN s : P(i)
  <2>5. i \in DOMAIN s /\ P(i)  BY <2>4
  <2>6. First(s, wanted) = s[i]  BY <1>2 DEF First
  <2> QED BY <2>5, <2>6 DEF ToSet
<1> QED BY <1>1, <1>2

\* A target, as far as the proofs need to know it.
Fields(t) ==
  \A f \in t.fields : f[2] \in Rules /\ \A g \in t.fields : f[1] = g[1] /\ f[2] = g[2] => f = g
Target(t) ==
  /\ t.ops \in Seq(Operations) /\ t.facts \in Seq(Operations) /\ ToSet(t.facts) = ToSet(t.ops)
  /\ Fields(t)

LEMMA ConfTarget == ASSUME NEW c \in Configs PROVE Target(c.target) /\ c.tier \in Tiers
BY ConfigsAssumption DEF Target, Fields

LEMMA OpsAre == ASSUME NEW t, Target(t) PROVE ToSet(t.ops) \subseteq Operations
BY DEF Target, ToSet

LEMMA WithMethodIs ==
  ASSUME NEW t, Target(t), NEW methods
  PROVE  LET op == WithMethod(t, methods)
         IN  \/ op \in ToSet(t.ops) /\ Method(op) \in methods
             \/ op = "none" /\ \A o \in ToSet(t.ops) : Method(o) \notin methods
<1> DEFINE wanted == {op \in Operations : Method(op) \in methods}
<1>1. t.ops \in Seq(Operations)  BY DEF Target
<1>2. \/ First(t.ops, wanted) \in wanted /\ First(t.ops, wanted) \in ToSet(t.ops)
      \/ First(t.ops, wanted) = "none" /\ wanted \cap ToSet(t.ops) = {}
  BY <1>1, FirstIs
<1> QED BY <1>2, OpsAre DEF WithMethod

--------------------------------------------------------------------------------
(***************************************************************************)
(* The requirements: an id tells what a requirement is about, and no two   *)
(* have the same one.                                                      *)
(***************************************************************************)
OpIntents(op) ==
  CASE op \in {"list", "export"} -> {"route_loads"}
    [] op = "count" -> {"route_loads", "count_consistent"}
    [] op = "search" -> {"search_filters_results"}
    [] op = "summary" -> {"summary_is_consistent"}
    [] op = "cors" -> {"cors_allows_operation"}
    [] op = "detail" -> {"route_detail", "not_found_semantics"}
    [] op = "create" -> {"create_succeeds"}
    [] op = "update" -> {"update_persists"}
    [] op \in {"delete", "clear"} -> {"delete_removes_entity"}

\* One requirement of op with an intent: S is all that is drafted for op.
Sole(S, d, op, intent) ==
  d.id = <<op, intent>> /\ d.op = op /\ d.intent = intent
    /\ \A e \in S : e.intent = intent => e = d

LEMMA ReadDraft ==
  ASSUME NEW t, NEW op, NEW intent, NEW scenario, NEW priority,
         NEW d \in ReadRequirement(t, op, intent, scenario, priority)
  PROVE  Sole(ReadRequirement(t, op, intent, scenario, priority), d, op, intent)
BY DEF ReadRequirement, Draft, Sole

\* A requirement of an operation is that of its own operation.
LEMMA OperationDrafts ==
  ASSUME NEW t, Target(t), NEW op \in ToSet(t.ops), NEW d \in OperationRequirements(t, op)
  PROVE  /\ d.op \in ToSet(t.ops) /\ d.intent \in OpIntents(d.op)
         /\ d \in OperationRequirements(t, d.op)
         /\ Sole(OperationRequirements(t, op), d, d.op, d.intent)
<1> DEFINE S == OperationRequirements(t, op)
           Goal(r, intent) == r \in ToSet(t.ops) /\ intent \in OpIntents(r)
                              /\ S = OperationRequirements(t, r) /\ Sole(S, d, r, intent)
<1> SUFFICES \E r, intent : Goal(r, intent)
  BY DEF Sole
<1>0. op \in Operations  BY OpsAre
<1>1. CASE op \in {"summary", "cors", "list", "export"}
  <2>1. \E intent, scenario, priority :
          intent \in OpIntents(op) /\ S = ReadRequirement(t, op, intent, scenario, priority)
    BY <1>1 DEF OperationRequirements, OpIntents
  <2> QED BY <2>1, ReadDraft
<1>2. CASE op = "count"
  <2>1. S = CountRequirement(t, op)  BY <1>2 DEF OperationRequirements
  <2>2. CASE CollectionRead(t) = "none"
    <3>1. S = ReadRequirement(t, op, "route_loads", "normal", "P1")
      BY <2>1, <2>2 DEF CountRequirement
    <3>2. Goal(op, "route_loads")  BY <3>1, <1>2, ReadDraft DEF OpIntents
    <3> QED BY <3>2
  <2>3. CASE CollectionRead(t) # "none"
    <3>1. S = {Draft(op, "count_consistent", "normal", "P0", "read_only")}
      BY <2>1, <2>3 DEF CountRequirement
    <3>2. Sole(S, d, op, "count_consistent")  BY <3>1 DEF Sole, Draft
    <3>3. Goal(op, "count_consistent")  BY <3>2, <1>2 DEF OpIntents
    <3> QED BY <3>3
  <2> QED BY <2>2, <2>3
<1>3. CASE op = "detail"
  <2>1. S = DetailRequirements(t, op)  BY <1>3 DEF OperationRequirements
  <2>2. \/ Sole(S, d, op, "route_detail") \/ Sole(S, d, op, "not_found_semantics")
    BY <2>1 DEF DetailRequirements, Draft, Sole
  <2>3. Goal(op, "route_detail") \/ Goal(op, "not_found_semantics")
    BY <2>2, <1>3 DEF OpIntents
  <2> QED BY <2>3
<1>4. CASE op = "create"
  <2>1. S = CreateRequirement(t, op)  BY <1>4 DEF OperationRequirements
  <2>2. Sole(S, d, op, "create_succeeds")  BY <2>1 DEF CreateRequirement, Draft, Sole
  <2>3. Goal(op, "create_succeeds")  BY <2>2, <1>4 DEF OpIntents
  <2> QED BY <2>3
<1>5. CASE op = "update"
  <2>1. S = UpdateRequirement(t, op)  BY <1>5 DEF OperationRequirements
  <2>2. Sole(S, d, op, "update_persists")  BY <2>1 DEF UpdateRequirement, Draft, Sole
  <2>3. Goal(op, "update_persists")  BY <2>2, <1>5 DEF OpIntents
  <2> QED BY <2>3
<1>6. CASE op \in {"delete", "clear"}
  <2> DEFINE r == WithMethod(t, {"DELETE"})
  <2>1. r \in {"delete", "clear"} /\ r \in ToSet(t.ops)
    BY <1>6, WithMethodIs, OpsAre DEF Method, Operations
  <2>2. S = DeleteRequirement(t, r)  BY <1>6 DEF OperationRequirements
  <2>3. OperationRequirements(t, r) = DeleteRequirement(t, r)
    BY <2>1 DEF OperationRequirements
  <2> HIDE DEF r
  <2>4. Sole(S, d, r, "delete_removes_entity")
    BY <2>2 DEF DeleteRequirement, Draft, Sole
  <2>5. Goal(r, "delete_removes_entity")  BY <2>1, <2>2, <2>3, <2>4 DEF OpIntents
  <2> QED BY <2>5
<1>7. CASE op = "search"
  <2>1. S = SearchRequirement(op)  BY <1>7 DEF OperationRequirements
  <2>2. Sole(S, d, op, "search_filters_results")  BY <2>1 DEF SearchRequirement, Draft, Sole
  <2>3. Goal(op, "search_filters_results")  BY <2>2, <1>7 DEF OpIntents
  <2> QED BY <2>3
<1> QED BY <1>0, <1>1, <1>2, <1>3, <1>4, <1>5, <1>6, <1>7 DEF Operations

FieldIntents == {"required_field_rejected", "enum_validation", "boundary_rejected"}
Mutation(t) ==
  IF WithMethod(t, {"POST"}) # "none" THEN WithMethod(t, {"POST"}) ELSE WithMethod(t, {"PATCH"})

LEMMA FieldDrafts ==
  ASSUME NEW t, NEW f \in t.fields, Fields(t), NEW d \in FieldRequirement(t, f)
  PROVE  /\ d.id = <<f[1], f[2]>> /\ d.op = Mutation(t) /\ d.intent \in FieldIntents
         /\ d.intent = "required_field_rejected" <=> f[2] = "required"
         /\ d.intent = "enum_validation" <=> f[2] = "enum"
         /\ \A e \in FieldRequirement(t, f) : e = d
<1> DEFINE rule == f[2]
           op == Mutation(t)
           intent == CASE rule = "required" -> "required_field_rejected"
                       [] rule = "enum" -> "enum_validation" [] OTHER -> "boundary_rejected"
           scenario == CASE rule = "required" -> "required_field"
                         [] rule = "enum" -> "invalid_input" [] OTHER -> "boundary"
           oracle == op # "none"
           lacks == Missing(op, "MISSING_MUTATION_OPERATION") \cup
                      (IF Variant(f) THEN {} ELSE {"MISSING_CONSTRAINT_VARIANT"})
<1>1. FieldRequirement(t, f) =
        IF rule = "unknown" THEN {}
        ELSE {[Draft(op, intent, scenario, "P0", "read_only")
                 EXCEPT !.id = <<f[1], rule>>, !.oracle = oracle, !.lacks = lacks]}
  BY Zenon DEF FieldRequirement, Mutation
<1>2. intent \in FieldIntents  BY DEF FieldIntents
<1>3. intent = "required_field_rejected" <=> rule = "required"
  <2>1. CASE rule = "required"  BY <2>1
  <2>2. CASE rule = "enum"  BY <2>2
  <2>3. CASE rule # "required" /\ rule # "enum"
    <3>1. intent = "boundary_rejected"  BY <2>3
    <3> QED BY <2>3, <3>1
  <2> QED BY <2>1, <2>2, <2>3
<1>4. intent = "enum_validation" <=> rule = "enum"
  <2>1. CASE rule = "required"  BY <2>1
  <2>2. CASE rule = "enum"  BY <2>2
  <2>3. CASE rule # "required" /\ rule # "enum"
    <3>1. intent = "boundary_rejected"  BY <2>3
    <3> QED BY <2>3, <3>1
  <2> QED BY <2>1, <2>2, <2>3
<1> HIDE DEF rule, op, intent, scenario, oracle, lacks
<1> DEFINE draft == Draft(op, intent, scenario, "P0", "read_only")
<1>5. draft = [id |-> <<op, intent>>, op |-> op, intent |-> intent, scenario |-> scenario,
               priority |-> "P0", risk |-> "read_only", feature |-> "items", oracle |-> TRUE,
               lacks |-> {}, slugged |-> TRUE]
  BY DEF Draft
<1> HIDE DEF draft
<1>6. d = [draft EXCEPT !.id = <<f[1], rule>>, !.oracle = oracle, !.lacks = lacks]
  BY <1>1, Zenon DEF draft
<1>7. d.id = <<f[1], rule>> /\ d.op = op /\ d.intent = intent  BY <1>5, <1>6
<1>8. \A e \in FieldRequirement(t, f) : e = d  BY <1>1, <1>6, Zenon DEF draft
<1> QED BY <1>2, <1>3, <1>4, <1>7, <1>8 DEF op, rule

\* What is about no single operation.
LEMMA OtherDrafts ==
  ASSUME NEW t, NEW d \in WorkflowRequirement(t) \cup UiRequirements(t)
  PROVE  /\ d.intent \in UiIntents \cup {"route_loads"}
         /\ Sole(WorkflowRequirement(t) \cup UiRequirements(t), d, "none", d.intent)
<1> DEFINE Ui(intent, scenario, risk) ==
      [Draft("none", intent, scenario, "P0", risk) EXCEPT !.feature = "live.ui", !.slugged = FALSE]
    Flow == [Draft("none", "route_loads", "normal", "P1", "read_only")
               EXCEPT !.oracle = FALSE, !.lacks = {"MISSING_WORKFLOW_ORACLE"}, !.slugged = FALSE]
    All == {Ui("ui_count_consistent", "normal", "read_only"),
            Ui("ui_search_filters", "normal", "read_only"),
            Ui("ui_status_consistent", "normal", "read_only"),
            Ui("ui_create_refreshes", "normal", "mutating"),
            Ui("ui_toggle_refreshes", "persistence", "mutating"),
            Ui("ui_delete_removes", "empty_state", "destructive"), Flow}
<1>1. \A intent, scenario, risk :
        LET u == Ui(intent, scenario, risk)
        IN  u.id = <<"none", intent>> /\ u.op = "none" /\ u.intent = intent
  BY DEF Draft
<1>2. Flow.id = <<"none", "route_loads">> /\ Flow.op = "none" /\ Flow.intent = "route_loads"
  BY DEF Draft
<1>3. UiRequirements(t) \subseteq All
  <2> DEFINE When(condition, q) == IF condition THEN {q} ELSE {}
             create == "create" \in ToSet(t.ops)
             remove == "delete" \in ToSet(t.ops)
             Has(semantics) == semantics \subseteq t.ui
             Sets ==
               {When(Has({"count"}), Ui("ui_count_consistent", "normal", "read_only")),
                When(Has({"search"}), Ui("ui_search_filters", "normal", "read_only")),
                When(Has({"status"}), Ui("ui_status_consistent", "normal", "read_only")),
                When(create /\ remove /\ Has({"input", "submit"}),
                     Ui("ui_create_refreshes", "normal", "mutating")),
                When("update" \in ToSet(t.ops) /\ Has({"status", "toggle"}),
                     Ui("ui_toggle_refreshes", "persistence", "mutating")),
                When(create /\ remove /\ Has({"delete"}),
                     Ui("ui_delete_removes", "empty_state", "destructive"))}
  <2>1. UiRequirements(t) = {} \/ UiRequirements(t) = UNION Sets
    BY Zenon DEF UiRequirements
  <2>2. \A S \in Sets : S \subseteq All
    <3> HIDE DEF Ui, Flow, Has, create, remove
    <3> QED OBVIOUS
  <2> HIDE DEF Sets, All
  <2> QED BY <2>1, <2>2
<1>4. WorkflowRequirement(t) \subseteq All
  BY DEF WorkflowRequirement
<1> HIDE DEF Ui, Flow
<1> QED BY <1>1, <1>2, <1>3, <1>4 DEF UiIntents, Sole

OfOperation(t, d) ==
  d.op \in ToSet(t.ops) /\ d.intent \in OpIntents(d.op) /\ d.id = <<d.op, d.intent>>
OfField(t, d) ==
  \E f \in t.fields :
    /\ d.id = <<f[1], f[2]>> /\ d.op = Mutation(t) /\ d.intent \in FieldIntents
    /\ d.intent = "required_field_rejected" <=> f[2] = "required"
    /\ d.intent = "enum_validation" <=> f[2] = "enum"
OfNoOperation(d) ==
  d.op = "none" /\ d.intent \in UiIntents \cup {"route_loads"} /\ d.id = <<"none", d.intent>>
About(t, d) == OfOperation(t, d) \/ OfField(t, d) \/ OfNoOperation(d)

LEMMA DraftsIn ==
  ASSUME NEW t
  PROVE  LET ops == UNION { OperationRequirements(t, op) : op \in ToSet(t.ops) }
             fields == UNION { FieldRequirement(t, f) : f \in t.fields }
         IN  Drafts(t) = ops \cup fields \cup (WorkflowRequirement(t) \cup UiRequirements(t))
<1> DEFINE ops == UNION { OperationRequirements(t, op) : op \in ToSet(t.ops) }
           fields == UNION { FieldRequirement(t, f) : f \in t.fields }
<1>1. Drafts(t) = ops \cup fields \cup WorkflowRequirement(t) \cup UiRequirements(t)
  BY DEF Drafts
<1> HIDE DEF ops, fields
<1>2. Drafts(t) = ops \cup fields \cup (WorkflowRequirement(t) \cup UiRequirements(t))
  BY <1>1
<1> QED BY <1>2, Zenon DEF ops, fields

LEMMA DraftsAre == ASSUME NEW t, Target(t), NEW d \in Drafts(t) PROVE About(t, d)
<1>1. CASE \E op \in ToSet(t.ops) : d \in OperationRequirements(t, op)
  BY <1>1, OperationDrafts DEF OfOperation, About, Sole
<1>2. CASE \E f \in t.fields : d \in FieldRequirement(t, f)
  <2>1. PICK f \in t.fields : d \in FieldRequirement(t, f)  BY <1>2
  <2>2. Fields(t)  BY DEF Target
  <2>3. OfField(t, d)  BY <2>1, <2>2, FieldDrafts DEF OfField
  <2> QED BY <2>3 DEF About
<1>3. CASE d \in WorkflowRequirement(t) \cup UiRequirements(t)
  BY <1>3, OtherDrafts DEF OfNoOperation, About, Sole
<1> QED BY <1>1, <1>2, <1>3, DraftsIn

LEMMA OpIntentsAre ==
  ASSUME NEW op \in Operations, NEW intent \in OpIntents(op)
  PROVE  /\ intent \notin Rules \cup {"cut"} \cup FieldIntents \cup UiIntents
         /\ intent \in {"route_detail", "create_succeeds", "update_persists", "delete_removes_entity",
                        "count_consistent", "search_filters_results", "summary_is_consistent",
                        "not_found_semantics", "cors_allows_operation", "route_loads"}
BY DEF Operations, OpIntents, Rules, FieldIntents, UiIntents

\* add keeps the first requirement of an id; there never is a second one that differs.
LEMMA DraftsDiffer ==
  ASSUME NEW t, Target(t), NEW d \in Drafts(t), NEW e \in Drafts(t), d.id = e.id
  PROVE  d = e
<1> DEFINE ops == UNION { OperationRequirements(t, op) : op \in ToSet(t.ops) }
           fields == UNION { FieldRequirement(t, f) : f \in t.fields }
           others == WorkflowRequirement(t) \cup UiRequirements(t)
<1>1. \A x \in ops : OfOperation(t, x) /\ x \in OperationRequirements(t, x.op)
         /\ Sole(OperationRequirements(t, x.op), x, x.op, x.intent)
  <2> SUFFICES ASSUME NEW op \in ToSet(t.ops), NEW x \in OperationRequirements(t, op)
               PROVE  OfOperation(t, x) /\ x \in OperationRequirements(t, x.op)
                        /\ Sole(OperationRequirements(t, x.op), x, x.op, x.intent)
    OBVIOUS
  <2>1. x.op \in ToSet(t.ops) /\ x \in OperationRequirements(t, x.op)  BY OperationDrafts
  <2>2. Sole(OperationRequirements(t, x.op), x, x.op, x.intent)  BY <2>1, OperationDrafts
  <2>3. x.intent \in OpIntents(x.op)  BY OperationDrafts
  <2> QED BY <2>1, <2>2, <2>3 DEF OfOperation, Sole
<1>2. ASSUME NEW x \in fields, NEW y \in fields, x.id = y.id PROVE x = y
  <2>1. PICK f \in t.fields : x \in FieldRequirement(t, f)  OBVIOUS
  <2>2. PICK g \in t.fields : y \in FieldRequirement(t, g)  OBVIOUS
  <2>3. Fields(t)  BY DEF Target
  <2>4. x.id = <<f[1], f[2]>> /\ y.id = <<g[1], g[2]>>  BY <2>1, <2>2, <2>3, FieldDrafts
  <2>5. f = g  BY <2>3, <2>4, <1>2 DEF Fields
  <2> QED BY <2>1, <2>2, <2>3, <2>5, FieldDrafts
<1>3. \A x \in fields : x.id[2] \in Rules
  <2> SUFFICES ASSUME NEW f \in t.fields, NEW x \in FieldRequirement(t, f) PROVE x.id[2] \in Rules
    OBVIOUS
  <2>1. Fields(t)  BY DEF Target
  <2> QED BY <2>1, FieldDrafts DEF Fields
<1>4. \A x \in others : Sole(others, x, "none", x.intent) /\ x.intent \in UiIntents \cup {"route_loads"}
  BY OtherDrafts
<1>5. \A x \in ops : x.id[1] \in Operations /\ x.id[2] \notin Rules
  BY <1>1, OpsAre, OpIntentsAre DEF OfOperation
<1>6. \A x \in others : x.id[1] = "none" /\ x.id[2] \notin Rules
  BY <1>4 DEF Sole, UiIntents, Rules
<1>7. Drafts(t) = ops \cup fields \cup others  BY DraftsIn
<1> HIDE DEF ops, fields, others
<1>8. CASE d \in ops /\ e \in ops
  BY <1>8, <1>1 DEF Sole
<1>9. CASE d \in others /\ e \in others
  BY <1>9, <1>4 DEF Sole
<1>10. "none" \notin Operations  BY DEF Operations
<1> QED BY <1>2, <1>3, <1>5, <1>6, <1>7, <1>8, <1>9, <1>10

\* What is derived for a draft.
LEMMA DerivedFrom ==
  ASSUME NEW t, NEW tier, NEW destructive, NEW diff, NEW q \in Derive(t, tier, destructive, diff)
  PROVE  \E d \in Drafts(t) :
           /\ q = [ id |-> d.id, op |-> d.op, intent |-> d.intent, scenario |-> d.scenario,
                    priority |-> d.priority, risk |-> d.risk, oracle |-> d.oracle,
                    slugged |-> d.slugged, status |-> Status(d, tier, destructive, diff) ]
           /\ q.id = d.id /\ q.op = d.op /\ q.intent = d.intent /\ q.scenario = d.scenario
           /\ q.priority = d.priority /\ q.risk = d.risk /\ q.oracle = d.oracle
           /\ q.status = Status(d, tier, destructive, diff)
BY DEF Derive

LEMMA DerivedAre ==
  ASSUME NEW t, Target(t), NEW tier, NEW destructive, NEW diff,
         NEW q \in Derive(t, tier, destructive, diff)
  PROVE  About(t, q) /\ q.status \in {"TIER_SKIPPED", "BLOCKED", "REQUIRED"}
<1>1. PICK d \in Drafts(t) : q.id = d.id /\ q.op = d.op /\ q.intent = d.intent
         /\ q.status = Status(d, tier, destructive, diff)
  BY DerivedFrom
<1>2. About(t, d)  BY DraftsAre
<1>3. About(t, q)  BY <1>1, <1>2 DEF About, OfOperation, OfField, OfNoOperation
<1> QED BY <1>1, <1>3 DEF Status

LEMMA DerivedDiffer ==
  ASSUME NEW t, Target(t), NEW tier, NEW destructive, NEW diff,
         NEW q \in Derive(t, tier, destructive, diff), NEW r \in Derive(t, tier, destructive, diff),
         q.id = r.id
  PROVE  q = r
<1>1. PICK d \in Drafts(t) :
        /\ q = [ id |-> d.id, op |-> d.op, intent |-> d.intent, scenario |-> d.scenario,
                 priority |-> d.priority, risk |-> d.risk, oracle |-> d.oracle,
                 slugged |-> d.slugged, status |-> Status(d, tier, destructive, diff) ]
        /\ q.id = d.id
  BY DerivedFrom
<1>2. PICK e \in Drafts(t) :
        /\ r = [ id |-> e.id, op |-> e.op, intent |-> e.intent, scenario |-> e.scenario,
                 priority |-> e.priority, risk |-> e.risk, oracle |-> e.oracle,
                 slugged |-> e.slugged, status |-> Status(e, tier, destructive, diff) ]
        /\ r.id = e.id
  BY DerivedFrom
<1>3. d = e  BY <1>1, <1>2, DraftsDiffer
<1> QED BY <1>1, <1>2, <1>3

LEMMA IdIsNotCut ==
  ASSUME NEW t, Target(t), NEW q, About(t, q) PROVE q.id # Cut
<1>1. CASE OfOperation(t, q)  BY <1>1, OpsAre, OpIntentsAre DEF OfOperation, Cut
<1>2. CASE OfField(t, q)  BY <1>2 DEF OfField, Cut, Target, Fields, Rules
<1>3. CASE OfNoOperation(q)  BY <1>3 DEF OfNoOperation, Cut
<1> QED BY <1>1, <1>2, <1>3 DEF About

\* What a tier requires, the runner selects at that tier.
LEMMA RequiredIsSelected ==
  ASSUME NEW t, NEW tier \in Tiers, NEW destructive, NEW diff,
         NEW q \in Live(Derive(t, tier, destructive, diff))
  PROVE  Rank(TierOf(q)) <= Rank(tier)
<1>1. PICK d \in Drafts(t) : q.scenario = d.scenario /\ q.priority = d.priority
         /\ q.status = Status(d, tier, destructive, diff)
  BY DerivedFrom DEF Live
<1>2. d.priority \in AllowedPriorities(tier) /\ d.scenario \in AllowedScenarios(tier)
  BY <1>1 DEF Live, Status
<1>3. CASE tier = "smoke"
  <2>1. q.priority = "P0" /\ q.scenario \in {"normal", "required_field"}
    BY <1>1, <1>2, <1>3 DEF AllowedPriorities, AllowedScenarios
  <2> QED BY <2>1, <1>3 DEF TierOf, Rank
<1>4. CASE tier = "fast"
  <2>1. q.priority \in {"P0", "P1"}  BY <1>1, <1>2, <1>4 DEF AllowedPriorities
  <2> QED BY <2>1, <1>4 DEF TierOf, Rank
<1>5. CASE tier = "full"
  BY <1>5 DEF TierOf, Rank
<1> QED BY <1>3, <1>4, <1>5 DEF Tiers

--------------------------------------------------------------------------------
(***************************************************************************)
(* The steps of a case. What a step reads must have been saved before; what *)
(* it owes, the entities it removes, must have been made by the case. A    *)
(* sequence runs from the names S, those of O its own, to S2 and O2.       *)
(***************************************************************************)
Fine(x, css, aimed) == x.css \in css /\ (aimed /\ x.method = "DELETE" => x.by # {})
Reads(x) == x.src \cup x.by
Owes(x) == IF x.method = "DELETE" THEN x.by ELSE {}
Makes(x) == IF x.method = "POST" \/ x.act = "capture_json" THEN {x.save} ELSE {}
Saved(s, n) == {s[j].save : j \in 1..n}
Made(s, n) == UNION {Makes(s[j]) : j \in 1..n}
Fits(s, S, O) ==
  \A i \in DOMAIN s : Reads(s[i]) \subseteq S \cup Saved(s, i - 1)
                      /\ Owes(s[i]) \subseteq O \cup Made(s, i - 1)
Runs(s, css, aimed, S, O, S2, O2) ==
  /\ \E E : s \in Seq(E)
  /\ \A i \in DOMAIN s : Fine(s[i], css, aimed)
  /\ Fits(s, S, O)
  /\ S2 \subseteq S \cup Saved(s, Len(s)) /\ O2 \subseteq O \cup Made(s, Len(s))

LEMMA RunsNone == ASSUME NEW css, NEW aimed, NEW S, NEW O PROVE Runs(<<>>, css, aimed, S, O, S, O)
<1>1. <<>> \in Seq({})  OBVIOUS
<1> QED BY <1>1 DEF Runs, Fits

LEMMA RunsJoin ==
  ASSUME NEW css, NEW aimed, NEW S, NEW O, NEW S1, NEW O1, NEW S2, NEW O2, NEW a, NEW b,
         Runs(a, css, aimed, S, O, S1, O1), Runs(b, css, aimed, S1, O1, S2, O2)
  PROVE  Runs(a \o b, css, aimed, S, O, S2, O2)
<1> DEFINE s == a \o b
<1>0. PICK E : a \in Seq(E) /\ b \in Seq(E)
  <2>1. PICK A, B : a \in Seq(A) /\ b \in Seq(B)  BY DEF Runs
  <2>2. a \in Seq(A \cup B) /\ b \in Seq(A \cup B)  BY <2>1
  <2> QED BY <2>2
<1>2. /\ s \in Seq(E) /\ Len(s) = Len(a) + Len(b) /\ DOMAIN s = 1..(Len(a) + Len(b))
      /\ \A i \in 1..Len(a) : s[i] = a[i]
      /\ \A i \in 1..Len(b) : s[Len(a) + i] = b[i]
      /\ Len(a) \in Nat /\ Len(b) \in Nat /\ DOMAIN a = 1..Len(a) /\ DOMAIN b = 1..Len(b)
  BY <1>0
<1> HIDE DEF s
<1>3. \A n \in 0..Len(a) : Saved(s, n) = Saved(a, n) /\ Made(s, n) = Made(a, n)
  <2> SUFFICES ASSUME NEW n \in 0..Len(a)
               PROVE  Saved(s, n) = Saved(a, n) /\ Made(s, n) = Made(a, n)
    OBVIOUS
  <2>1. \A i \in 1..n : s[i] = a[i]  BY <1>2
  <2> QED BY <2>1 DEF Saved, Made
<1>4. \A n \in 0..Len(b) : /\ Saved(a, Len(a)) \cup Saved(b, n) \subseteq Saved(s, Len(a) + n)
                           /\ Made(a, Len(a)) \cup Made(b, n) \subseteq Made(s, Len(a) + n)
  <2> SUFFICES ASSUME NEW n \in 0..Len(b)
               PROVE  /\ Saved(a, Len(a)) \cup Saved(b, n) \subseteq Saved(s, Len(a) + n)
                      /\ Made(a, Len(a)) \cup Made(b, n) \subseteq Made(s, Len(a) + n)
    OBVIOUS
  <2>1. \A i \in 1..Len(a) : s[i] = a[i] /\ i \in 1..(Len(a) + n)  BY <1>2
  <2>2. \A i \in 1..n : s[Len(a) + i] = b[i] /\ Len(a) + i \in 1..(Len(a) + n)  BY <1>2
  <2> QED BY <2>1, <2>2 DEF Saved, Made
<1>5. S1 \subseteq S \cup Saved(a, Len(a)) /\ O1 \subseteq O \cup Made(a, Len(a))  BY DEF Runs
<1>6. ASSUME NEW i \in DOMAIN s
      PROVE  /\ Fine(s[i], css, aimed)
             /\ Reads(s[i]) \subseteq S \cup Saved(s, i - 1) /\ Owes(s[i]) \subseteq O \cup Made(s, i - 1)
  <2>1. CASE i \in 1..Len(a)
    <3>1. i - 1 \in 0..Len(a) /\ s[i] = a[i]  BY <2>1, <1>2
    <3> QED BY <3>1, <2>1, <1>2, <1>3 DEF Runs, Fits
  <2>2. CASE i \notin 1..Len(a)
    <3>1. PICK k \in 1..Len(b) : i = Len(a) + k
      <4>1. i - Len(a) \in 1..Len(b) /\ i = Len(a) + (i - Len(a))  BY <2>2, <1>2
      <4> QED BY <4>1
    <3>2. s[i] = b[k] /\ i - 1 = Len(a) + (k - 1) /\ k - 1 \in 0..Len(b)  BY <3>1, <1>2
    <3>3. Fine(b[k], css, aimed) /\ Reads(b[k]) \subseteq S1 \cup Saved(b, k - 1) /\ Owes(b[k]) \subseteq O1 \cup Made(b, k - 1)
      BY <1>2 DEF Runs, Fits
    <3>4. /\ Saved(a, Len(a)) \cup Saved(b, k - 1) \subseteq Saved(s, i - 1)
          /\ Made(a, Len(a)) \cup Made(b, k - 1) \subseteq Made(s, i - 1)
      BY <3>2, <1>4
    <3> QED BY <3>2, <3>3, <3>4, <1>5
  <2> QED BY <2>1, <2>2
<1>7. S2 \subseteq S \cup Saved(s, Len(s)) /\ O2 \subseteq O \cup Made(s, Len(s))
  <2>1. Len(b) \in 0..Len(b)  BY <1>2
  <2>2. /\ Saved(a, Len(a)) \cup Saved(b, Len(b)) \subseteq Saved(s, Len(s))
        /\ Made(a, Len(a)) \cup Made(b, Len(b)) \subseteq Made(s, Len(s))
    BY <2>1, <1>2, <1>4
  <2>3. S2 \subseteq S1 \cup Saved(b, Len(b)) /\ O2 \subseteq O1 \cup Made(b, Len(b))  BY DEF Runs
  <2> QED BY <2>2, <2>3, <1>5
<1> QED BY <1>2, <1>6, <1>7 DEF Runs, Fits, s

\* More may be there before, and less afterwards.
LEMMA RunsWeaker ==
  ASSUME NEW css, NEW aimed, NEW S, NEW O, NEW S1, NEW O1, NEW S2, NEW O2, NEW S3, NEW O3, NEW s,
         Runs(s, css, aimed, S1, O1, S2, O2), S1 \subseteq S, O1 \subseteq O,
         S3 \subseteq S \cup S2, O3 \subseteq O \cup O2
  PROVE  Runs(s, css, aimed, S, O, S3, O3)
<1>1. (\E E : s \in Seq(E)) /\ Fits(s, S1, O1)  BY DEF Runs
<1>2. Fits(s, S, O)  BY <1>1 DEF Fits
<1> QED BY <1>1, <1>2 DEF Runs

--------------------------------------------------------------------------------
(***************************************************************************)
(* The cases the compiler makes. A case is sound if each step finds what   *)
(* it reads and owns what it removes, and if it has an oracle that is one  *)
(* of its assertions.                                                      *)
(***************************************************************************)
Sound(x, css, aimed) ==
  /\ Runs(AllSteps(x), css, aimed, {}, {}, {}, {})
  /\ x.steps # <<>> /\ x.bound # {}
  /\ \A i \in x.bound : i \in DOMAIN AllSteps(x) /\ IsAssertion(AllSteps(x)[i])

LEMMA SoundIf ==
  ASSUME NEW css, NEW aimed, NEW setup, NEW steps, NEW cleanup, NEW bound,
         NEW S1, NEW O1, NEW S2, NEW O2,
         Runs(setup, css, aimed, {}, {}, S1, O1), Runs(steps, css, aimed, S1, O1, S2, O2),
         Runs(cleanup, css, aimed, S2, O2, {}, {}),
         NEW J, J # {}, J \subseteq DOMAIN steps, \A j \in J : IsAssertion(steps[j]),
         bound = {Len(setup) + j : j \in J}
  PROVE  Sound(Execution(setup, steps, cleanup, bound), css, aimed)
<1> DEFINE x == Execution(setup, steps, cleanup, bound)
<1>1. AllSteps(x) = (setup \o steps) \o cleanup /\ x.steps = steps /\ x.bound = bound
  BY DEF AllSteps, Execution
<1> HIDE DEF x
<1>2. Runs(AllSteps(x), css, aimed, {}, {}, {}, {})
  <2>1. Runs(setup \o steps, css, aimed, {}, {}, S2, O2)  BY RunsJoin
  <2> QED BY <2>1, <1>1, RunsJoin
<1>3. steps # <<>>  OBVIOUS
<1>4. PICK E : setup \in Seq(E) /\ steps \in Seq(E) /\ cleanup \in Seq(E)
  <2>1. PICK A, B, C : setup \in Seq(A) /\ steps \in Seq(B) /\ cleanup \in Seq(C)  BY DEF Runs
  <2>2. \A Z : A \cup B \cup C = Z => setup \in Seq(Z) /\ steps \in Seq(Z) /\ cleanup \in Seq(Z)
    BY <2>1
  <2> QED BY <2>2
<1>5. ASSUME NEW j \in J
      PROVE  Len(setup) + j \in DOMAIN AllSteps(x) /\ AllSteps(x)[Len(setup) + j] = steps[j]
  <2>1. j \in 1..Len(steps) /\ Len(setup) \in Nat /\ Len(cleanup) \in Nat /\ Len(steps) \in Nat
    BY <1>4
  <2>2. Len(setup) + j \in 1..Len(setup \o steps) /\ (setup \o steps)[Len(setup) + j] = steps[j]
    BY <2>1, <1>4
  <2>3. setup \o steps \in Seq(E)  BY <1>4
  <2> QED BY <2>1, <2>2, <2>3, <1>1, <1>4
<1> QED BY <1>1, <1>2, <1>3, <1>5 DEF Sound, x

InPage == {"none", "discovered_dom"}

LEMMA SavedAt ==
  ASSUME NEW s, NEW k \in Nat, NEW n \in Nat, 0 < k, k <= n
  PROVE  s[k].save \in Saved(s, n) /\ Makes(s[k]) \subseteq Made(s, n)
BY DEF Saved, Made

\* A step that removes nothing.
Quiet(x, css) == Owes(x) = {} /\ \A aimed : Fine(x, css, aimed)

LEMMA RunsIf ==
  ASSUME NEW css, NEW aimed, NEW S, NEW O, NEW S2, NEW O2, NEW E, NEW s \in Seq(E),
         \A i \in DOMAIN s : /\ Fine(s[i], css, aimed)
                             /\ Reads(s[i]) \subseteq S \cup Saved(s, i - 1)
                             /\ Owes(s[i]) \subseteq O \cup Made(s, i - 1),
         S2 \subseteq S \cup Saved(s, Len(s)), O2 \subseteq O \cup Made(s, Len(s))
  PROVE  Runs(s, css, aimed, S, O, S2, O2)
BY DEF Runs, Fits

LEMMA QuietRuns ==
  ASSUME NEW css, NEW aimed, NEW S, NEW O, NEW S2, NEW O2, NEW E, NEW s \in Seq(E),
         \A i \in DOMAIN s : Quiet(s[i], css) /\ Reads(s[i]) \subseteq S \cup Saved(s, i - 1),
         S2 \subseteq S \cup Saved(s, Len(s)), O2 \subseteq O \cup Made(s, Len(s))
  PROVE  Runs(s, css, aimed, S, O, S2, O2)
BY DEF Runs, Fits, Quiet

LEMMA Splice ==
  ASSUME NEW E, NEW a \in Seq(E), NEW b \in Seq(E), NEW c \in Seq(E), Len(c) = Len(a) + Len(b),
         \A i \in 1..Len(a) : c[i] = a[i], \A i \in 1..Len(b) : c[Len(a) + i] = b[i]
  PROVE  a \o b = c
<1>1. a \o b \in Seq(E) /\ Len(a \o b) = Len(c)  OBVIOUS
<1>2. \A i \in 1..Len(c) : (a \o b)[i] = c[i]
  <2> SUFFICES ASSUME NEW i \in 1..Len(c) PROVE (a \o b)[i] = c[i]  OBVIOUS
  <2>1. CASE i <= Len(a)  BY <2>1
  <2>2. CASE i > Len(a)
    <3>1. i - Len(a) \in 1..Len(b) /\ i = Len(a) + (i - Len(a))  BY <2>2
    <3>2. c[i] = b[i - Len(a)]  BY <3>1
    <3> QED BY <2>2, <3>1, <3>2
  <2> QED BY <2>1, <2>2
<1> QED BY <1>1, <1>2, SeqEqual

LEMMA Splice11 ==
  ASSUME NEW x1, NEW x2
  PROVE  <<x1>> \o <<x2>> = <<x1, x2>>
<1> DEFINE a == <<x1>>  b == <<x2>>  c == <<x1, x2>>  E == {x1, x2}
<1>1. a \in Seq(E) /\ b \in Seq(E) /\ c \in Seq(E) /\ Len(a) = 1 /\ Len(b) = 1 /\ Len(c) = 2
  OBVIOUS
<1>2. (\A i \in 1..1 : c[i] = a[i]) /\ \A i \in 1..1 : c[1 + i] = b[i]
  OBVIOUS
<1> HIDE DEF a, b, c, E
<1>3. (\A i \in 1..Len(a) : c[i] = a[i]) /\ \A i \in 1..Len(b) : c[Len(a) + i] = b[i]
  BY <1>1, <1>2
<1>4. Len(c) = Len(a) + Len(b)  BY <1>1
<1>5. a \o b = c  BY <1>1, <1>3, <1>4, Splice, Zenon
<1> QED BY <1>5 DEF a, b, c

LEMMA Splice12 ==
  ASSUME NEW x1, NEW x2, NEW x3
  PROVE  <<x1>> \o <<x2, x3>> = <<x1, x2, x3>>
<1> DEFINE a == <<x1>>  b == <<x2, x3>>  c == <<x1, x2, x3>>  E == {x1, x2, x3}
<1>1. a \in Seq(E) /\ b \in Seq(E) /\ c \in Seq(E) /\ Len(a) = 1 /\ Len(b) = 2 /\ Len(c) = 3
  OBVIOUS
<1>2. (\A i \in 1..1 : c[i] = a[i]) /\ \A i \in 1..2 : c[1 + i] = b[i]
  OBVIOUS
<1> HIDE DEF a, b, c, E
<1>3. (\A i \in 1..Len(a) : c[i] = a[i]) /\ \A i \in 1..Len(b) : c[Len(a) + i] = b[i]
  BY <1>1, <1>2
<1>4. Len(c) = Len(a) + Len(b)  BY <1>1
<1>5. a \o b = c  BY <1>1, <1>3, <1>4, Splice, Zenon
<1> QED BY <1>5 DEF a, b, c

LEMMA Splice14 ==
  ASSUME NEW x1, NEW x2, NEW x3, NEW x4, NEW x5
  PROVE  <<x1>> \o <<x2, x3, x4, x5>> = <<x1, x2, x3, x4, x5>>
<1> DEFINE a == <<x1>>  b == <<x2, x3, x4, x5>>  c == <<x1, x2, x3, x4, x5>>  E == {x1, x2, x3, x4, x5}
<1>1. a \in Seq(E) /\ b \in Seq(E) /\ c \in Seq(E) /\ Len(a) = 1 /\ Len(b) = 4 /\ Len(c) = 5
  OBVIOUS
<1>2. (\A i \in 1..1 : c[i] = a[i]) /\ \A i \in 1..4 : c[1 + i] = b[i]
  OBVIOUS
<1> HIDE DEF a, b, c, E
<1>3. (\A i \in 1..Len(a) : c[i] = a[i]) /\ \A i \in 1..Len(b) : c[Len(a) + i] = b[i]
  BY <1>1, <1>2
<1>4. Len(c) = Len(a) + Len(b)  BY <1>1
<1>5. a \o b = c  BY <1>1, <1>3, <1>4, Splice, Zenon
<1> QED BY <1>5 DEF a, b, c

LEMMA Splice21 ==
  ASSUME NEW x1, NEW x2, NEW x3
  PROVE  <<x1, x2>> \o <<x3>> = <<x1, x2, x3>>
<1> DEFINE a == <<x1, x2>>  b == <<x3>>  c == <<x1, x2, x3>>  E == {x1, x2, x3}
<1>1. a \in Seq(E) /\ b \in Seq(E) /\ c \in Seq(E) /\ Len(a) = 2 /\ Len(b) = 1 /\ Len(c) = 3
  OBVIOUS
<1>2. (\A i \in 1..2 : c[i] = a[i]) /\ \A i \in 1..1 : c[2 + i] = b[i]
  OBVIOUS
<1> HIDE DEF a, b, c, E
<1>3. (\A i \in 1..Len(a) : c[i] = a[i]) /\ \A i \in 1..Len(b) : c[Len(a) + i] = b[i]
  BY <1>1, <1>2
<1>4. Len(c) = Len(a) + Len(b)  BY <1>1
<1>5. a \o b = c  BY <1>1, <1>3, <1>4, Splice, Zenon
<1> QED BY <1>5 DEF a, b, c

LEMMA Splice22 ==
  ASSUME NEW x1, NEW x2, NEW x3, NEW x4
  PROVE  <<x1, x2>> \o <<x3, x4>> = <<x1, x2, x3, x4>>
<1> DEFINE a == <<x1, x2>>  b == <<x3, x4>>  c == <<x1, x2, x3, x4>>  E == {x1, x2, x3, x4}
<1>1. a \in Seq(E) /\ b \in Seq(E) /\ c \in Seq(E) /\ Len(a) = 2 /\ Len(b) = 2 /\ Len(c) = 4
  OBVIOUS
<1>2. (\A i \in 1..2 : c[i] = a[i]) /\ \A i \in 1..2 : c[2 + i] = b[i]
  OBVIOUS
<1> HIDE DEF a, b, c, E
<1>3. (\A i \in 1..Len(a) : c[i] = a[i]) /\ \A i \in 1..Len(b) : c[Len(a) + i] = b[i]
  BY <1>1, <1>2
<1>4. Len(c) = Len(a) + Len(b)  BY <1>1
<1>5. a \o b = c  BY <1>1, <1>3, <1>4, Splice, Zenon
<1> QED BY <1>5 DEF a, b, c

LEMMA Splice24 ==
  ASSUME NEW x1, NEW x2, NEW x3, NEW x4, NEW x5, NEW x6
  PROVE  <<x1, x2>> \o <<x3, x4, x5, x6>> = <<x1, x2, x3, x4, x5, x6>>
<1> DEFINE a == <<x1, x2>>  b == <<x3, x4, x5, x6>>  c == <<x1, x2, x3, x4, x5, x6>>  E == {x1, x2, x3, x4, x5, x6}
<1>1. a \in Seq(E) /\ b \in Seq(E) /\ c \in Seq(E) /\ Len(a) = 2 /\ Len(b) = 4 /\ Len(c) = 6
  OBVIOUS
<1>2. (\A i \in 1..2 : c[i] = a[i]) /\ \A i \in 1..4 : c[2 + i] = b[i]
  OBVIOUS
<1> HIDE DEF a, b, c, E
<1>3. (\A i \in 1..Len(a) : c[i] = a[i]) /\ \A i \in 1..Len(b) : c[Len(a) + i] = b[i]
  BY <1>1, <1>2
<1>4. Len(c) = Len(a) + Len(b)  BY <1>1
<1>5. a \o b = c  BY <1>1, <1>3, <1>4, Splice, Zenon
<1> QED BY <1>5 DEF a, b, c

LEMMA Splice31 ==
  ASSUME NEW x1, NEW x2, NEW x3, NEW x4
  PROVE  <<x1, x2, x3>> \o <<x4>> = <<x1, x2, x3, x4>>
<1> DEFINE a == <<x1, x2, x3>>  b == <<x4>>  c == <<x1, x2, x3, x4>>  E == {x1, x2, x3, x4}
<1>1. a \in Seq(E) /\ b \in Seq(E) /\ c \in Seq(E) /\ Len(a) = 3 /\ Len(b) = 1 /\ Len(c) = 4
  OBVIOUS
<1>2. (\A i \in 1..3 : c[i] = a[i]) /\ \A i \in 1..1 : c[3 + i] = b[i]
  OBVIOUS
<1> HIDE DEF a, b, c, E
<1>3. (\A i \in 1..Len(a) : c[i] = a[i]) /\ \A i \in 1..Len(b) : c[Len(a) + i] = b[i]
  BY <1>1, <1>2
<1>4. Len(c) = Len(a) + Len(b)  BY <1>1
<1>5. a \o b = c  BY <1>1, <1>3, <1>4, Splice, Zenon
<1> QED BY <1>5 DEF a, b, c

LEMMA Splice41 ==
  ASSUME NEW x1, NEW x2, NEW x3, NEW x4, NEW x5
  PROVE  <<x1, x2, x3, x4>> \o <<x5>> = <<x1, x2, x3, x4, x5>>
<1> DEFINE a == <<x1, x2, x3, x4>>  b == <<x5>>  c == <<x1, x2, x3, x4, x5>>  E == {x1, x2, x3, x4, x5}
<1>1. a \in Seq(E) /\ b \in Seq(E) /\ c \in Seq(E) /\ Len(a) = 4 /\ Len(b) = 1 /\ Len(c) = 5
  OBVIOUS
<1>2. (\A i \in 1..4 : c[i] = a[i]) /\ \A i \in 1..1 : c[4 + i] = b[i]
  OBVIOUS
<1> HIDE DEF a, b, c, E
<1>3. (\A i \in 1..Len(a) : c[i] = a[i]) /\ \A i \in 1..Len(b) : c[Len(a) + i] = b[i]
  BY <1>1, <1>2
<1>4. Len(c) = Len(a) + Len(b)  BY <1>1
<1>5. a \o b = c  BY <1>1, <1>3, <1>4, Splice, Zenon
<1> QED BY <1>5 DEF a, b, c

LEMMA SpliceNone ==
  ASSUME NEW x1, NEW x2, NEW x3
  PROVE  /\ <<x1>> \o <<>> = <<x1>> /\ <<x1, x2>> \o <<>> = <<x1, x2>>
         /\ <<x1, x2, x3>> \o <<>> = <<x1, x2, x3>>
OBVIOUS

LEMMA UiCount ==
  ASSUME NEW t, NEW aimed PROVE Sound(UiBehavior(t, "ui_count_consistent"), InPage, aimed)
<1> DEFINE a == Ask("GET", Collection(t), {}, "list")
           b == Look("capture_count", "rendered")
           c == Look("capture_text", "displayed")
           d == Expect("expect_relation", {"rendered", "list"})
           e == Expect("expect_relation", {"displayed", "list"})
           setup == <<>>
           steps == <<a, Goto, b, c, d, e>>
           cleanup == <<>>
           J == {j \in DOMAIN steps : IsAssertion(steps[j])}
<1>1. UiBehavior(t, "ui_count_consistent") = Execution(setup, steps, cleanup, {Len(setup) + j : j \in J})
  BY DEF UiBehavior
<1>2. a.save = "list" /\ Reads(a) = {} /\ Quiet(a, InPage)
  BY DEF Ask, Step, Reads, Owes, Fine, Quiet, InPage
<1>3. b.save = "rendered" /\ Reads(b) = {} /\ Quiet(b, InPage)
  BY DEF Look, Step, Reads, Owes, Fine, Quiet, InPage
<1>4. c.save = "displayed" /\ Reads(c) = {} /\ Quiet(c, InPage)
  BY DEF Look, Step, Reads, Owes, Fine, Quiet, InPage
<1>5. Reads(d) = {"rendered", "list"} /\ Quiet(d, InPage) /\ IsAssertion(d)
  BY DEF Expect, Step, Reads, Owes, Fine, Quiet, InPage, IsAssertion
<1>6. Reads(e) = {"displayed", "list"} /\ Quiet(e, InPage)
  BY DEF Expect, Step, Reads, Owes, Fine, Quiet, InPage
<1>7. Reads(Goto) = {} /\ Quiet(Goto, InPage) /\ Reads(Wait) = {} /\ Quiet(Wait, InPage)
  BY DEF Goto, Wait, Step, Reads, Owes, Fine, Quiet, InPage
<1> HIDE DEF a, b, c, d, e
<1>8. Runs(setup, InPage, aimed, {}, {}, {}, {})  BY RunsNone
<1>9. Runs(steps, InPage, aimed, {}, {}, {}, {})
  <2>1. steps \in Seq({Goto, a, b, c, d, e}) /\ DOMAIN steps = 1..6 /\ Len(steps) = 6
    OBVIOUS
  <2>2. \A i \in 1..7 :
          /\ 1 < i => steps[1].save \in Saved(steps, i - 1)
          /\ 3 < i => steps[3].save \in Saved(steps, i - 1)
          /\ 4 < i => steps[4].save \in Saved(steps, i - 1)
    <3> HIDE DEF steps
    <3> QED BY SavedAt
  <2>3. \A i \in 1..7 :
          /\ 1 < i => "list" \in Saved(steps, i - 1)
          /\ 3 < i => "rendered" \in Saved(steps, i - 1)
          /\ 4 < i => "displayed" \in Saved(steps, i - 1)
    BY <2>2, <1>2, <1>3, <1>4
  <2>4. \A i \in 1..6 : Quiet(steps[i], InPage) /\ Reads(steps[i]) \subseteq {} \cup Saved(steps, i - 1)
    BY <1>2, <1>3, <1>4, <1>5, <1>6, <1>7, <2>3
  <2> HIDE DEF steps
  <2>5. {} \subseteq {} \cup Saved(steps, Len(steps)) /\ {} \subseteq {} \cup Made(steps, Len(steps))
    BY <2>1, <2>3
  <2> QED BY <2>1, <2>4, <2>5, QuietRuns
<1>10. Runs(cleanup, InPage, aimed, {}, {}, {}, {})  BY RunsNone
<1>11. J # {} /\ J \subseteq DOMAIN steps /\ \A j \in J : IsAssertion(steps[j])
  BY <1>5
<1> HIDE DEF setup, steps, cleanup, J
<1> QED BY <1>1, <1>8, <1>9, <1>10, <1>11, SoundIf

LEMMA UiSearch ==
  ASSUME NEW t, NEW aimed PROVE Sound(UiBehavior(t, "ui_search_filters"), InPage, aimed)
<1> DEFINE a == Ask("GET", Collection(t), {}, "list")
           b == [Look("fill", "none") EXCEPT !.by = {"list"}]
           c == Look("capture_texts", "texts")
           d == Expect("expect_relation", {"texts"})
           e == [Expect("expect_collection", {"texts"}) EXCEPT !.by = {"list"}]
           f == [Look("fill", "none") EXCEPT !.by = {}]
           g == Look("capture_count", "empty")
           h == Expect("expect_relation", {"empty"})
           setup == <<>>
           steps == <<a, Goto, b, Wait, c, d, e, f, Wait, g, h>>
           cleanup == <<>>
           J == {j \in DOMAIN steps : IsAssertion(steps[j])}
<1>1. UiBehavior(t, "ui_search_filters") = Execution(setup, steps, cleanup, {Len(setup) + j : j \in J})
  BY DEF UiBehavior
<1>2. a.save = "list" /\ Reads(a) = {} /\ Quiet(a, InPage)
  BY DEF Ask, Step, Reads, Owes, Fine, Quiet, InPage
<1>3. Reads(b) = {"list"} /\ Quiet(b, InPage)
  BY DEF Look, Step, Reads, Owes, Fine, Quiet, InPage
<1>4. c.save = "texts" /\ Reads(c) = {} /\ Quiet(c, InPage)
  BY DEF Look, Step, Reads, Owes, Fine, Quiet, InPage
<1>5. Reads(d) = {"texts"} /\ Quiet(d, InPage) /\ IsAssertion(d)
  BY DEF Expect, Step, Reads, Owes, Fine, Quiet, InPage, IsAssertion
<1>6. Reads(e) = {"texts", "list"} /\ Quiet(e, InPage)
  BY DEF Expect, Step, Reads, Owes, Fine, Quiet, InPage
<1>7. Reads(f) = {} /\ Quiet(f, InPage)
  BY DEF Look, Step, Reads, Owes, Fine, Quiet, InPage
<1>8. g.save = "empty" /\ Reads(g) = {} /\ Quiet(g, InPage)
  BY DEF Look, Step, Reads, Owes, Fine, Quiet, InPage
<1>9. Reads(h) = {"empty"} /\ Quiet(h, InPage)
  BY DEF Expect, Step, Reads, Owes, Fine, Quiet, InPage
<1>10. Reads(Goto) = {} /\ Quiet(Goto, InPage) /\ Reads(Wait) = {} /\ Quiet(Wait, InPage)
  BY DEF Goto, Wait, Step, Reads, Owes, Fine, Quiet, InPage
<1> HIDE DEF a, b, c, d, e, f, g, h
<1>11. Runs(setup, InPage, aimed, {}, {}, {}, {})  BY RunsNone
<1>12. Runs(steps, InPage, aimed, {}, {}, {}, {})
  <2>1. steps \in Seq({Goto, Wait, a, b, c, d, e, f, g, h}) /\ DOMAIN steps = 1..11 /\ Len(steps) = 11
    OBVIOUS
  <2>2. \A i \in 1..12 :
          /\ 1 < i => steps[1].save \in Saved(steps, i - 1)
          /\ 5 < i => steps[5].save \in Saved(steps, i - 1)
          /\ 10 < i => steps[10].save \in Saved(steps, i - 1)
    <3> HIDE DEF steps
    <3> QED BY SavedAt
  <2>3. \A i \in 1..12 :
          /\ 1 < i => "list" \in Saved(steps, i - 1)
          /\ 5 < i => "texts" \in Saved(steps, i - 1)
          /\ 10 < i => "empty" \in Saved(steps, i - 1)
    BY <2>2, <1>2, <1>4, <1>8
  <2>4. \A i \in 1..11 : Quiet(steps[i], InPage) /\ Reads(steps[i]) \subseteq {} \cup Saved(steps, i - 1)
    BY <1>2, <1>3, <1>4, <1>5, <1>6, <1>7, <1>8, <1>9, <1>10, <2>3
  <2> HIDE DEF steps
  <2>5. {} \subseteq {} \cup Saved(steps, Len(steps)) /\ {} \subseteq {} \cup Made(steps, Len(steps))
    BY <2>1, <2>3
  <2> QED BY <2>1, <2>4, <2>5, QuietRuns
<1>13. Runs(cleanup, InPage, aimed, {}, {}, {}, {})  BY RunsNone
<1>14. J # {} /\ J \subseteq DOMAIN steps /\ \A j \in J : IsAssertion(steps[j])
  BY <1>5
<1> HIDE DEF setup, steps, cleanup, J
<1> QED BY <1>1, <1>11, <1>12, <1>13, <1>14, SoundIf

LEMMA UiStates ==
  ASSUME NEW t, NEW aimed, t.states PROVE Sound(UiBehavior(t, "ui_status_consistent"), InPage, aimed)
<1> DEFINE a == Ask("GET", Collection(t), {}, "list")
           b == Look("capture_texts", "texts")
           c == Expect("expect_collection", {"list"})
           d == Expect("expect_relation", {"list", "texts"})
           setup == <<>>
           steps == <<a, Goto, b, c, d>>
           cleanup == <<>>
           J == {j \in DOMAIN steps : IsAssertion(steps[j])}
<1>1. UiBehavior(t, "ui_status_consistent") = Execution(setup, steps, cleanup, {Len(setup) + j : j \in J})
  <2> DEFINE some == IF t.states THEN <<c>> ELSE <<>>
             concat == <<a, Goto, b>> \o some \o <<d>>
  <2>1. UiBehavior(t, "ui_status_consistent")
          = Execution(setup, concat, cleanup,
                      {Len(setup) + j : j \in {j \in DOMAIN concat : IsAssertion(concat[j])}})
    BY DEF UiBehavior
  <2>2. concat = steps
    <3>1. some = <<c>>  OBVIOUS
    <3> HIDE DEF a, b, c, d, some
    <3>2. <<a, Goto, b>> \o <<c>> = <<a, Goto, b, c>>  BY Splice31
    <3>3. <<a, Goto, b, c>> \o <<d>> = steps  BY Splice41
    <3> QED BY <3>1, <3>2, <3>3
  <2> HIDE DEF concat, steps
  <2> QED BY <2>1, <2>2
<1>2. a.save = "list" /\ Reads(a) = {} /\ Quiet(a, InPage)
  BY DEF Ask, Step, Reads, Owes, Fine, Quiet, InPage
<1>3. b.save = "texts" /\ Reads(b) = {} /\ Quiet(b, InPage)
  BY DEF Look, Step, Reads, Owes, Fine, Quiet, InPage
<1>4. Reads(c) = {"list"} /\ Quiet(c, InPage)
  BY DEF Expect, Step, Reads, Owes, Fine, Quiet, InPage
<1>5. Reads(d) = {"list", "texts"} /\ Quiet(d, InPage) /\ IsAssertion(d)
  BY DEF Expect, Step, Reads, Owes, Fine, Quiet, InPage, IsAssertion
<1>6. Reads(Goto) = {} /\ Quiet(Goto, InPage) /\ Reads(Wait) = {} /\ Quiet(Wait, InPage)
  BY DEF Goto, Wait, Step, Reads, Owes, Fine, Quiet, InPage
<1> HIDE DEF a, b, c, d
<1>7. Runs(setup, InPage, aimed, {}, {}, {}, {})  BY RunsNone
<1>8. Runs(steps, InPage, aimed, {}, {}, {}, {})
  <2>1. steps \in Seq({Goto, a, b, c, d}) /\ DOMAIN steps = 1..5 /\ Len(steps) = 5
    OBVIOUS
  <2>2. \A i \in 1..6 :
          /\ 1 < i => steps[1].save \in Saved(steps, i - 1)
          /\ 3 < i => steps[3].save \in Saved(steps, i - 1)
    <3> HIDE DEF steps
    <3> QED BY SavedAt
  <2>3. \A i \in 1..6 :
          /\ 1 < i => "list" \in Saved(steps, i - 1)
          /\ 3 < i => "texts" \in Saved(steps, i - 1)
    BY <2>2, <1>2, <1>3
  <2>4. \A i \in 1..5 : Quiet(steps[i], InPage) /\ Reads(steps[i]) \subseteq {} \cup Saved(steps, i - 1)
    BY <1>2, <1>3, <1>4, <1>5, <1>6, <2>3
  <2> HIDE DEF steps
  <2>5. {} \subseteq {} \cup Saved(steps, Len(steps)) /\ {} \subseteq {} \cup Made(steps, Len(steps))
    BY <2>1, <2>3
  <2> QED BY <2>1, <2>4, <2>5, QuietRuns
<1>9. Runs(cleanup, InPage, aimed, {}, {}, {}, {})  BY RunsNone
<1>10. J # {} /\ J \subseteq DOMAIN steps /\ \A j \in J : IsAssertion(steps[j])
  BY <1>5
<1> HIDE DEF setup, steps, cleanup, J
<1> QED BY <1>1, <1>7, <1>8, <1>9, <1>10, SoundIf

LEMMA UiNoStates ==
  ASSUME NEW t, NEW aimed, ~t.states PROVE Sound(UiBehavior(t, "ui_status_consistent"), InPage, aimed)
<1> DEFINE a == Ask("GET", Collection(t), {}, "list")
           b == Look("capture_texts", "texts")
           c == Expect("expect_collection", {"list"})
           d == Expect("expect_relation", {"list", "texts"})
           setup == <<>>
           steps == <<a, Goto, b, d>>
           cleanup == <<>>
           J == {j \in DOMAIN steps : IsAssertion(steps[j])}
<1>1. UiBehavior(t, "ui_status_consistent") = Execution(setup, steps, cleanup, {Len(setup) + j : j \in J})
  <2> DEFINE some == IF t.states THEN <<c>> ELSE <<>>
             concat == <<a, Goto, b>> \o some \o <<d>>
  <2>1. UiBehavior(t, "ui_status_consistent")
          = Execution(setup, concat, cleanup,
                      {Len(setup) + j : j \in {j \in DOMAIN concat : IsAssertion(concat[j])}})
    BY DEF UiBehavior
  <2>2. concat = steps
    <3>1. some = <<>>  OBVIOUS
    <3> HIDE DEF a, b, c, d, some
    <3> QED BY <3>1, Splice31, SpliceNone
  <2> HIDE DEF concat, steps
  <2> QED BY <2>1, <2>2
<1>2. a.save = "list" /\ Reads(a) = {} /\ Quiet(a, InPage)
  BY DEF Ask, Step, Reads, Owes, Fine, Quiet, InPage
<1>3. b.save = "texts" /\ Reads(b) = {} /\ Quiet(b, InPage)
  BY DEF Look, Step, Reads, Owes, Fine, Quiet, InPage
<1>4. Reads(c) = {"list"} /\ Quiet(c, InPage)
  BY DEF Expect, Step, Reads, Owes, Fine, Quiet, InPage
<1>5. Reads(d) = {"list", "texts"} /\ Quiet(d, InPage) /\ IsAssertion(d)
  BY DEF Expect, Step, Reads, Owes, Fine, Quiet, InPage, IsAssertion
<1>6. Reads(Goto) = {} /\ Quiet(Goto, InPage) /\ Reads(Wait) = {} /\ Quiet(Wait, InPage)
  BY DEF Goto, Wait, Step, Reads, Owes, Fine, Quiet, InPage
<1> HIDE DEF a, b, c, d
<1>7. Runs(setup, InPage, aimed, {}, {}, {}, {})  BY RunsNone
<1>8. Runs(steps, InPage, aimed, {}, {}, {}, {})
  <2>1. steps \in Seq({Goto, a, b, d}) /\ DOMAIN steps = 1..4 /\ Len(steps) = 4
    OBVIOUS
  <2>2. \A i \in 1..5 :
          /\ 1 < i => steps[1].save \in Saved(steps, i - 1)
          /\ 3 < i => steps[3].save \in Saved(steps, i - 1)
    <3> HIDE DEF steps
    <3> QED BY SavedAt
  <2>3. \A i \in 1..5 :
          /\ 1 < i => "list" \in Saved(steps, i - 1)
          /\ 3 < i => "texts" \in Saved(steps, i - 1)
    BY <2>2, <1>2, <1>3
  <2>4. \A i \in 1..4 : Quiet(steps[i], InPage) /\ Reads(steps[i]) \subseteq {} \cup Saved(steps, i - 1)
    BY <1>2, <1>3, <1>5, <1>6, <2>3
  <2> HIDE DEF steps
  <2>5. {} \subseteq {} \cup Saved(steps, Len(steps)) /\ {} \subseteq {} \cup Made(steps, Len(steps))
    BY <2>1, <2>3
  <2> QED BY <2>1, <2>4, <2>5, QuietRuns
<1>9. Runs(cleanup, InPage, aimed, {}, {}, {}, {})  BY RunsNone
<1>10. J # {} /\ J \subseteq DOMAIN steps /\ \A j \in J : IsAssertion(steps[j])
  BY <1>5
<1> HIDE DEF setup, steps, cleanup, J
<1> QED BY <1>1, <1>7, <1>8, <1>9, <1>10, SoundIf

LEMMA UiCreate ==
  ASSUME NEW t, NEW aimed PROVE Sound(UiBehavior(t, "ui_create_refreshes"), InPage, aimed)
<1> DEFINE a == [Look("fill", "none") EXCEPT !.by = {}]
           b == Look("click", "none")
           c == Look("expect_visible", "none")
           d == Ask("GET", Collection(t), {}, "list")
           e == [Step EXCEPT !.act = "capture_json", !.src = {"list"}, !.save = "created"]
           f == Ask("DELETE", "item", {"created"}, "none")
           setup == <<>>
           steps == <<Goto, a, b, Wait, c>>
           cleanup == <<d, e, f>>
           J == {j \in DOMAIN steps : IsAssertion(steps[j])}
<1>1. UiBehavior(t, "ui_create_refreshes") = Execution(setup, steps, cleanup, {Len(setup) + j : j \in J})
  BY DEF UiBehavior
<1>2. Reads(a) = {} /\ Quiet(a, InPage)
  BY DEF Look, Step, Reads, Owes, Fine, Quiet, InPage
<1>3. Reads(b) = {} /\ Quiet(b, InPage)
  BY DEF Look, Step, Reads, Owes, Fine, Quiet, InPage
<1>4. Reads(c) = {} /\ Quiet(c, InPage) /\ IsAssertion(c)
  BY DEF Look, Step, Reads, Owes, Fine, Quiet, InPage, IsAssertion
<1>5. d.save = "list" /\ Reads(d) = {} /\ Quiet(d, InPage)
  BY DEF Ask, Step, Reads, Owes, Fine, Quiet, InPage
<1>6. e.save = "created" /\ Reads(e) = {"list"} /\ Quiet(e, InPage) /\ Makes(e) = {"created"}
  BY DEF Step, Reads, Owes, Fine, Quiet, InPage, Makes
<1>7. Reads(f) = {"created"} /\ Owes(f) \subseteq {"created"} /\ Fine(f, InPage, aimed)
  BY DEF Ask, Step, Reads, Owes, Fine, InPage
<1>8. Reads(Goto) = {} /\ Quiet(Goto, InPage) /\ Reads(Wait) = {} /\ Quiet(Wait, InPage)
  BY DEF Goto, Wait, Step, Reads, Owes, Fine, Quiet, InPage
<1> HIDE DEF a, b, c, d, e, f
<1>9. Runs(setup, InPage, aimed, {}, {}, {}, {})  BY RunsNone
<1>10. Runs(steps, InPage, aimed, {}, {}, {}, {})
  <2>1. steps \in Seq({Goto, Wait, a, b, c}) /\ DOMAIN steps = 1..5 /\ Len(steps) = 5
    OBVIOUS
  <2>4. \A i \in 1..5 : Quiet(steps[i], InPage) /\ Reads(steps[i]) \subseteq {} \cup Saved(steps, i - 1)
    BY <1>2, <1>3, <1>4, <1>8
  <2> HIDE DEF steps
  <2>5. {} \subseteq {} \cup Saved(steps, Len(steps)) /\ {} \subseteq {} \cup Made(steps, Len(steps))
    BY <2>1
  <2> QED BY <2>1, <2>4, <2>5, QuietRuns
<1>11. Runs(cleanup, InPage, aimed, {}, {}, {}, {})
  <2>1. cleanup \in Seq({d, e, f}) /\ DOMAIN cleanup = 1..3 /\ Len(cleanup) = 3
    OBVIOUS
  <2>2. \A i \in 1..4 :
          /\ 1 < i => cleanup[1].save \in Saved(cleanup, i - 1)
          /\ 2 < i => cleanup[2].save \in Saved(cleanup, i - 1)
          /\ 2 < i => Makes(cleanup[2]) \subseteq Made(cleanup, i - 1)
    <3> HIDE DEF cleanup
    <3> QED BY SavedAt
  <2>3. \A i \in 1..4 :
          /\ 1 < i => "list" \in Saved(cleanup, i - 1)
          /\ 2 < i => "created" \in Saved(cleanup, i - 1)
          /\ 2 < i => "created" \in Made(cleanup, i - 1)
    BY <2>2, <1>5, <1>6
  <2>4. \A i \in 1..3 : /\ Fine(cleanup[i], InPage, aimed)
                       /\ Reads(cleanup[i]) \subseteq {} \cup Saved(cleanup, i - 1)
                       /\ Owes(cleanup[i]) \subseteq {} \cup Made(cleanup, i - 1)
    BY <1>5, <1>6, <1>7, <2>3 DEF Quiet
  <2> HIDE DEF cleanup
  <2>5. {} \subseteq {} \cup Saved(cleanup, Len(cleanup)) /\ {} \subseteq {} \cup Made(cleanup, Len(cleanup))
    BY <2>1, <2>3
  <2> QED BY <2>1, <2>4, <2>5, RunsIf
<1>12. J # {} /\ J \subseteq DOMAIN steps /\ \A j \in J : IsAssertion(steps[j])
  BY <1>4
<1> HIDE DEF setup, steps, cleanup, J
<1> QED BY <1>1, <1>9, <1>10, <1>11, <1>12, SoundIf

LEMMA UiToggle ==
  ASSUME NEW t, NEW aimed PROVE Sound(UiBehavior(t, "ui_toggle_refreshes"), InPage, aimed)
<1> DEFINE a == Ask("GET", Collection(t), {}, "list")
           b == Look("capture_text", "before")
           c == Look("click", "none")
           d == Look("capture_text", "after")
           e == Expect("expect_relation", {"after", "before"})
           f == Ask("PATCH", "item", {"list"}, "none")
           setup == <<>>
           steps == <<a, Goto, b, c, Wait, d, e>>
           cleanup == <<f>>
           J == {j \in DOMAIN steps : IsAssertion(steps[j])}
<1>1. UiBehavior(t, "ui_toggle_refreshes") = Execution(setup, steps, cleanup, {Len(setup) + j : j \in J})
  BY DEF UiBehavior
<1>2. a.save = "list" /\ Reads(a) = {} /\ Quiet(a, InPage)
  BY DEF Ask, Step, Reads, Owes, Fine, Quiet, InPage
<1>3. b.save = "before" /\ Reads(b) = {} /\ Quiet(b, InPage)
  BY DEF Look, Step, Reads, Owes, Fine, Quiet, InPage
<1>4. Reads(c) = {} /\ Quiet(c, InPage)
  BY DEF Look, Step, Reads, Owes, Fine, Quiet, InPage
<1>5. d.save = "after" /\ Reads(d) = {} /\ Quiet(d, InPage)
  BY DEF Look, Step, Reads, Owes, Fine, Quiet, InPage
<1>6. Reads(e) = {"after", "before"} /\ Quiet(e, InPage) /\ IsAssertion(e)
  BY DEF Expect, Step, Reads, Owes, Fine, Quiet, InPage, IsAssertion
<1>7. Reads(f) = {"list"} /\ Quiet(f, InPage)
  BY DEF Ask, Step, Reads, Owes, Fine, Quiet, InPage
<1>8. Reads(Goto) = {} /\ Quiet(Goto, InPage) /\ Reads(Wait) = {} /\ Quiet(Wait, InPage)
  BY DEF Goto, Wait, Step, Reads, Owes, Fine, Quiet, InPage
<1> HIDE DEF a, b, c, d, e, f
<1>9. Runs(setup, InPage, aimed, {}, {}, {}, {})  BY RunsNone
<1>10. Runs(steps, InPage, aimed, {}, {}, {"list"}, {})
  <2>1. steps \in Seq({Goto, Wait, a, b, c, d, e}) /\ DOMAIN steps = 1..7 /\ Len(steps) = 7
    OBVIOUS
  <2>2. \A i \in 1..8 :
          /\ 1 < i => steps[1].save \in Saved(steps, i - 1)
          /\ 3 < i => steps[3].save \in Saved(steps, i - 1)
          /\ 6 < i => steps[6].save \in Saved(steps, i - 1)
    <3> HIDE DEF steps
    <3> QED BY SavedAt
  <2>3. \A i \in 1..8 :
          /\ 1 < i => "list" \in Saved(steps, i - 1)
          /\ 3 < i => "before" \in Saved(steps, i - 1)
          /\ 6 < i => "after" \in Saved(steps, i - 1)
    BY <2>2, <1>2, <1>3, <1>5
  <2>4. \A i \in 1..7 : Quiet(steps[i], InPage) /\ Reads(steps[i]) \subseteq {} \cup Saved(steps, i - 1)
    BY <1>2, <1>3, <1>4, <1>5, <1>6, <1>8, <2>3
  <2> HIDE DEF steps
  <2>5. {"list"} \subseteq {} \cup Saved(steps, Len(steps)) /\ {} \subseteq {} \cup Made(steps, Len(steps))
    BY <2>1, <2>3
  <2> QED BY <2>1, <2>4, <2>5, QuietRuns
<1>11. Runs(cleanup, InPage, aimed, {"list"}, {}, {}, {})
  <2>1. cleanup \in Seq({f}) /\ DOMAIN cleanup = 1..1 /\ Len(cleanup) = 1
    OBVIOUS
  <2>4. \A i \in 1..1 : Quiet(cleanup[i], InPage) /\ Reads(cleanup[i]) \subseteq {"list"} \cup Saved(cleanup, i - 1)
    BY <1>7
  <2> HIDE DEF cleanup
  <2>5. {} \subseteq {"list"} \cup Saved(cleanup, Len(cleanup)) /\ {} \subseteq {} \cup Made(cleanup, Len(cleanup))
    BY <2>1
  <2> QED BY <2>1, <2>4, <2>5, QuietRuns
<1>12. J # {} /\ J \subseteq DOMAIN steps /\ \A j \in J : IsAssertion(steps[j])
  BY <1>6
<1> HIDE DEF setup, steps, cleanup, J
<1> QED BY <1>1, <1>9, <1>10, <1>11, <1>12, SoundIf

LEMMA UiDelete ==
  ASSUME NEW t, NEW aimed PROVE Sound(UiBehavior(t, "ui_delete_removes"), InPage, aimed)
<1> DEFINE a == Ask("GET", Collection(t), {}, "list")
           b == Ask("POST", "items", {"list"}, "created")
           c == Look("capture_count", "before")
           d == Look("click", "none")
           e == Look("capture_count", "after")
           f == Expect("expect_relation", {"after", "before"})
           g == Ask("DELETE", "item", {"created"}, "none")
           setup == <<a, b>>
           steps == <<Goto, c, d, Wait, e, f>>
           cleanup == <<g>>
           J == {j \in DOMAIN steps : IsAssertion(steps[j])}
<1>1. UiBehavior(t, "ui_delete_removes") = Execution(setup, steps, cleanup, {Len(setup) + j : j \in J})
  BY DEF UiBehavior
<1>2. a.save = "list" /\ Reads(a) = {} /\ Quiet(a, InPage)
  BY DEF Ask, Step, Reads, Owes, Fine, Quiet, InPage
<1>3. b.save = "created" /\ Reads(b) = {"list"} /\ Quiet(b, InPage) /\ Makes(b) = {"created"}
  BY DEF Ask, Step, Reads, Owes, Fine, Quiet, InPage, Makes
<1>4. c.save = "before" /\ Reads(c) = {} /\ Quiet(c, InPage)
  BY DEF Look, Step, Reads, Owes, Fine, Quiet, InPage
<1>5. Reads(d) = {} /\ Quiet(d, InPage)
  BY DEF Look, Step, Reads, Owes, Fine, Quiet, InPage
<1>6. e.save = "after" /\ Reads(e) = {} /\ Quiet(e, InPage)
  BY DEF Look, Step, Reads, Owes, Fine, Quiet, InPage
<1>7. Reads(f) = {"after", "before"} /\ Quiet(f, InPage) /\ IsAssertion(f)
  BY DEF Expect, Step, Reads, Owes, Fine, Quiet, InPage, IsAssertion
<1>8. Reads(g) = {"created"} /\ Owes(g) \subseteq {"created"} /\ Fine(g, InPage, aimed)
  BY DEF Ask, Step, Reads, Owes, Fine, InPage
<1>9. Reads(Goto) = {} /\ Quiet(Goto, InPage) /\ Reads(Wait) = {} /\ Quiet(Wait, InPage)
  BY DEF Goto, Wait, Step, Reads, Owes, Fine, Quiet, InPage
<1> HIDE DEF a, b, c, d, e, f, g
<1>10. Runs(setup, InPage, aimed, {}, {}, {"created"}, {"created"})
  <2>1. setup \in Seq({a, b}) /\ DOMAIN setup = 1..2 /\ Len(setup) = 2
    OBVIOUS
  <2>2. \A i \in 1..3 :
          /\ 1 < i => setup[1].save \in Saved(setup, i - 1)
          /\ 2 < i => setup[2].save \in Saved(setup, i - 1)
          /\ 2 < i => Makes(setup[2]) \subseteq Made(setup, i - 1)
    <3> HIDE DEF setup
    <3> QED BY SavedAt
  <2>3. \A i \in 1..3 :
          /\ 1 < i => "list" \in Saved(setup, i - 1)
          /\ 2 < i => "created" \in Saved(setup, i - 1)
          /\ 2 < i => "created" \in Made(setup, i - 1)
    BY <2>2, <1>2, <1>3
  <2>4. \A i \in 1..2 : Quiet(setup[i], InPage) /\ Reads(setup[i]) \subseteq {} \cup Saved(setup, i - 1)
    BY <1>2, <1>3, <2>3
  <2> HIDE DEF setup
  <2>5. {"created"} \subseteq {} \cup Saved(setup, Len(setup)) /\ {"created"} \subseteq {} \cup Made(setup, Len(setup))
    BY <2>1, <2>3
  <2> QED BY <2>1, <2>4, <2>5, QuietRuns
<1>11. Runs(steps, InPage, aimed, {"created"}, {"created"}, {"created"}, {"created"})
  <2>1. steps \in Seq({Goto, Wait, c, d, e, f}) /\ DOMAIN steps = 1..6 /\ Len(steps) = 6
    OBVIOUS
  <2>2. \A i \in 1..7 :
          /\ 2 < i => steps[2].save \in Saved(steps, i - 1)
          /\ 5 < i => steps[5].save \in Saved(steps, i - 1)
    <3> HIDE DEF steps
    <3> QED BY SavedAt
  <2>3. \A i \in 1..7 :
          /\ 2 < i => "before" \in Saved(steps, i - 1)
          /\ 5 < i => "after" \in Saved(steps, i - 1)
    BY <2>2, <1>4, <1>6
  <2>4. \A i \in 1..6 : Quiet(steps[i], InPage) /\ Reads(steps[i]) \subseteq {"created"} \cup Saved(steps, i - 1)
    BY <1>4, <1>5, <1>6, <1>7, <1>9, <2>3
  <2> HIDE DEF steps
  <2>5. {"created"} \subseteq {"created"} \cup Saved(steps, Len(steps)) /\ {"created"} \subseteq {"created"} \cup Made(steps, Len(steps))
    BY <2>1, <2>3
  <2> QED BY <2>1, <2>4, <2>5, QuietRuns
<1>12. Runs(cleanup, InPage, aimed, {"created"}, {"created"}, {}, {})
  <2>1. cleanup \in Seq({g}) /\ DOMAIN cleanup = 1..1 /\ Len(cleanup) = 1
    OBVIOUS
  <2>4. \A i \in 1..1 : /\ Fine(cleanup[i], InPage, aimed)
                       /\ Reads(cleanup[i]) \subseteq {"created"} \cup Saved(cleanup, i - 1)
                       /\ Owes(cleanup[i]) \subseteq {"created"} \cup Made(cleanup, i - 1)
    BY <1>8 DEF Quiet
  <2> HIDE DEF cleanup
  <2>5. {} \subseteq {"created"} \cup Saved(cleanup, Len(cleanup)) /\ {} \subseteq {"created"} \cup Made(cleanup, Len(cleanup))
    BY <2>1
  <2> QED BY <2>1, <2>4, <2>5, RunsIf
<1>13. J # {} /\ J \subseteq DOMAIN steps /\ \A j \in J : IsAssertion(steps[j])
  BY <1>7
<1> HIDE DEF setup, steps, cleanup, J
<1> QED BY <1>1, <1>10, <1>11, <1>12, <1>13, SoundIf

LEMMA AtIs == ASSUME NEW path, NEW names PROVE At(path, names) \subseteq names
BY DEF At

\* Where the resource removes one item, a removal names the item.
LEMMA AtItem ==
  ASSUME NEW t, WithMethod(t, {"DELETE"}) = "delete", NEW otherwise, NEW names
  PROVE  At(PathFor(t, {"DELETE"}, otherwise), names) = names
<1>1. PathFor(t, {"DELETE"}, otherwise) = "item"  BY DEF PathFor, PathOf
<1> QED BY <1>1 DEF At, HasParameter

LEMMA CrudCreates ==
  ASSUME NEW t, NEW aimed, aimed => WithMethod(t, {"DELETE"}) = "delete"
  PROVE  Sound(RuntimeCrud(t, "create_succeeds"), {"none"}, aimed)
<1> DEFINE clone == IF Usable(t) THEN {} ELSE {"seed"}
           a == Ask("GET", Collection(t), {}, "seed")
           b == Ask("POST", CreatePath(t), clone, "created")
           c == Ask("GET", Collection(t), {}, "refreshed")
           d == [Expect("expect_collection", {"refreshed"}) EXCEPT !.by = {"created"}]
           e == Ask("DELETE", DeletePath(t), At(DeletePath(t), {"created"}), "none")
           setup == <<>>
           steps == <<a, b, c, d>>
           cleanup == <<e>>
           J == {4}
<1>1. RuntimeCrud(t, "create_succeeds") = Execution(setup, steps, cleanup, {Len(setup) + j : j \in J})
  <2>1. RuntimeCrud(t, "create_succeeds") = Execution(setup, steps, cleanup, {4})
    BY DEF RuntimeCrud
  <2>2. {Len(setup) + j : j \in J} = {4}  OBVIOUS
  <2> QED BY <2>1, <2>2
<1>2. a.save = "seed" /\ Reads(a) = {} /\ Quiet(a, {"none"})
  BY DEF Ask, Step, Reads, Owes, Fine, Quiet
<1>3. b.save = "created" /\ Reads(b) \subseteq {"seed"} /\ Quiet(b, {"none"})
      /\ Makes(b) = {"created"}
  <2>1. clone \subseteq {"seed"}  OBVIOUS
  <2> HIDE DEF clone
  <2> QED BY <2>1 DEF Ask, Step, Reads, Owes, Fine, Quiet, Makes
<1>4. c.save = "refreshed" /\ Reads(c) = {} /\ Quiet(c, {"none"})
  BY DEF Ask, Step, Reads, Owes, Fine, Quiet
<1>5. Reads(d) = {"refreshed", "created"} /\ Quiet(d, {"none"}) /\ IsAssertion(d)
      /\ d.act # "expect_status"
  BY DEF Expect, Step, Reads, Owes, Fine, Quiet, IsAssertion
<1>6. Reads(e) \subseteq {"created"} /\ Owes(e) \subseteq {"created"}
      /\ Fine(e, {"none"}, aimed)
  <2> DEFINE names == At(DeletePath(t), {"created"})
  <2>1. names \subseteq {"created"} /\ (aimed => names # {})
    BY AtIs, AtItem DEF DeletePath
  <2>2. e = Ask("DELETE", DeletePath(t), names, "none")
    OBVIOUS
  <2> HIDE DEF names, e
  <2> QED BY <2>1, <2>2 DEF Ask, Step, Reads, Owes, Fine
<1> HIDE DEF a, b, c, d, e
<1>7. Runs(setup, {"none"}, aimed, {}, {}, {}, {})  BY RunsNone
<1>8. Runs(steps, {"none"}, aimed, {}, {}, {"created"}, {"created"})
  <2>1. steps \in Seq({a, b, c, d}) /\ DOMAIN steps = 1..4 /\ Len(steps) = 4
    OBVIOUS
  <2>2. \A i \in 1..5 :
          /\ 1 < i => steps[1].save \in Saved(steps, i - 1)
          /\ 2 < i => steps[2].save \in Saved(steps, i - 1)
          /\ 3 < i => steps[3].save \in Saved(steps, i - 1)
          /\ 2 < i => Makes(steps[2]) \subseteq Made(steps, i - 1)
    <3> HIDE DEF steps
    <3> QED BY SavedAt
  <2>3. \A i \in 1..5 :
          /\ 1 < i => "seed" \in Saved(steps, i - 1)
          /\ 2 < i => "created" \in Saved(steps, i - 1)
          /\ 3 < i => "refreshed" \in Saved(steps, i - 1)
          /\ 2 < i => "created" \in Made(steps, i - 1)
    BY <2>2, <1>2, <1>3, <1>4
  <2>4. \A i \in 1..4 : Quiet(steps[i], {"none"}) /\ Reads(steps[i]) \subseteq {} \cup Saved(steps, i - 1)
    BY <1>2, <1>3, <1>4, <1>5, <2>3
  <2> HIDE DEF steps
  <2>5. {"created"} \subseteq {} \cup Saved(steps, Len(steps)) /\ {"created"} \subseteq {} \cup Made(steps, Len(steps))
    BY <2>1, <2>3
  <2> QED BY <2>1, <2>4, <2>5, QuietRuns
<1>9. Runs(cleanup, {"none"}, aimed, {"created"}, {"created"}, {}, {})
  <2>1. cleanup \in Seq({e}) /\ DOMAIN cleanup = 1..1 /\ Len(cleanup) = 1
    OBVIOUS
  <2>4. \A i \in 1..1 : /\ Fine(cleanup[i], {"none"}, aimed)
                       /\ Reads(cleanup[i]) \subseteq {"created"} \cup Saved(cleanup, i - 1)
                       /\ Owes(cleanup[i]) \subseteq {"created"} \cup Made(cleanup, i - 1)
    BY <1>6 DEF Quiet
  <2> HIDE DEF cleanup
  <2>5. {} \subseteq {"created"} \cup Saved(cleanup, Len(cleanup)) /\ {} \subseteq {"created"} \cup Made(cleanup, Len(cleanup))
    BY <2>1
  <2> QED BY <2>1, <2>4, <2>5, RunsIf
<1>10. J # {} /\ J \subseteq DOMAIN steps /\ \A j \in J : IsAssertion(steps[j])
  BY <1>5
<1> HIDE DEF setup, steps, cleanup, J
<1> QED BY <1>1, <1>7, <1>8, <1>9, <1>10, SoundIf

LEMMA CrudDeletes ==
  ASSUME NEW t, NEW aimed, aimed => WithMethod(t, {"DELETE"}) = "delete"
  PROVE  Sound(RuntimeCrud(t, "delete_removes_entity"), {"none"}, aimed)
<1> DEFINE clone == IF Usable(t) THEN {} ELSE {"seed"}
           a == Ask("GET", Collection(t), {}, "seed")
           b == Ask("POST", CreatePath(t), clone, "created")
           c == [Ask("DELETE", DeletePath(t), At(DeletePath(t), {"created"}), "none") EXCEPT !.save = "deleted"]
           d == Ask("GET", DetailPath(t), At(DetailPath(t), {"created"}), "refreshed")
           e == Expect("expect_status", {"refreshed"})
           f == Ask("GET", DetailPath(t), At(DetailPath(t), {"created"}), "none")
           setup == <<>>
           steps == <<a, b, c, d, e>>
           cleanup == <<f>>
           J == {5}
<1>1. RuntimeCrud(t, "delete_removes_entity") = Execution(setup, steps, cleanup, {Len(setup) + j : j \in J})
  <2>1. RuntimeCrud(t, "delete_removes_entity") = Execution(setup, steps, cleanup, {5})
    BY DEF RuntimeCrud
  <2>2. {Len(setup) + j : j \in J} = {5}  OBVIOUS
  <2> QED BY <2>1, <2>2
<1>2. a.save = "seed" /\ Reads(a) = {} /\ Quiet(a, {"none"})
  BY DEF Ask, Step, Reads, Owes, Fine, Quiet
<1>3. b.save = "created" /\ Reads(b) \subseteq {"seed"} /\ Quiet(b, {"none"})
      /\ Makes(b) = {"created"}
  <2>1. clone \subseteq {"seed"}  OBVIOUS
  <2> HIDE DEF clone
  <2> QED BY <2>1 DEF Ask, Step, Reads, Owes, Fine, Quiet, Makes
<1>4. Reads(c) \subseteq {"created"} /\ Owes(c) \subseteq {"created"}
      /\ Fine(c, {"none"}, aimed)
  <2> DEFINE names == At(DeletePath(t), {"created"})
  <2>1. names \subseteq {"created"} /\ (aimed => names # {})
    BY AtIs, AtItem DEF DeletePath
  <2>2. c = [Ask("DELETE", DeletePath(t), names, "none") EXCEPT !.save = "deleted"]
    OBVIOUS
  <2> HIDE DEF names, c
  <2> QED BY <2>1, <2>2 DEF Ask, Step, Reads, Owes, Fine
<1>5. d.save = "refreshed" /\ Reads(d) \subseteq {"created"} /\ Quiet(d, {"none"})
  <2> DEFINE names == At(DetailPath(t), {"created"})
  <2>1. names \subseteq {"created"}  BY AtIs
  <2>2. d = Ask("GET", DetailPath(t), names, "refreshed")
    OBVIOUS
  <2> HIDE DEF names, d
  <2> QED BY <2>1, <2>2 DEF Ask, Step, Reads, Owes, Fine, Quiet
<1>6. Reads(e) = {"refreshed"} /\ Quiet(e, {"none"}) /\ IsAssertion(e)
  BY DEF Expect, Step, Reads, Owes, Fine, Quiet, IsAssertion
<1>7. Reads(f) \subseteq {"created"} /\ Quiet(f, {"none"})
  <2> DEFINE names == At(DetailPath(t), {"created"})
  <2>1. names \subseteq {"created"}  BY AtIs
  <2>2. f = Ask("GET", DetailPath(t), names, "none")
    OBVIOUS
  <2> HIDE DEF names, f
  <2> QED BY <2>1, <2>2 DEF Ask, Step, Reads, Owes, Fine, Quiet
<1> HIDE DEF a, b, c, d, e, f
<1>8. Runs(setup, {"none"}, aimed, {}, {}, {}, {})  BY RunsNone
<1>9. Runs(steps, {"none"}, aimed, {}, {}, {"created"}, {})
  <2>1. steps \in Seq({a, b, c, d, e}) /\ DOMAIN steps = 1..5 /\ Len(steps) = 5
    OBVIOUS
  <2>2. \A i \in 1..6 :
          /\ 1 < i => steps[1].save \in Saved(steps, i - 1)
          /\ 2 < i => steps[2].save \in Saved(steps, i - 1)
          /\ 4 < i => steps[4].save \in Saved(steps, i - 1)
          /\ 2 < i => Makes(steps[2]) \subseteq Made(steps, i - 1)
    <3> HIDE DEF steps
    <3> QED BY SavedAt
  <2>3. \A i \in 1..6 :
          /\ 1 < i => "seed" \in Saved(steps, i - 1)
          /\ 2 < i => "created" \in Saved(steps, i - 1)
          /\ 4 < i => "refreshed" \in Saved(steps, i - 1)
          /\ 2 < i => "created" \in Made(steps, i - 1)
    BY <2>2, <1>2, <1>3, <1>5
  <2>4. \A i \in 1..5 : /\ Fine(steps[i], {"none"}, aimed)
                       /\ Reads(steps[i]) \subseteq {} \cup Saved(steps, i - 1)
                       /\ Owes(steps[i]) \subseteq {} \cup Made(steps, i - 1)
    BY <1>2, <1>3, <1>4, <1>5, <1>6, <2>3 DEF Quiet
  <2> HIDE DEF steps
  <2>5. {"created"} \subseteq {} \cup Saved(steps, Len(steps)) /\ {} \subseteq {} \cup Made(steps, Len(steps))
    BY <2>1, <2>3
  <2> QED BY <2>1, <2>4, <2>5, RunsIf
<1>10. Runs(cleanup, {"none"}, aimed, {"created"}, {}, {}, {})
  <2>1. cleanup \in Seq({f}) /\ DOMAIN cleanup = 1..1 /\ Len(cleanup) = 1
    OBVIOUS
  <2>4. \A i \in 1..1 : Quiet(cleanup[i], {"none"}) /\ Reads(cleanup[i]) \subseteq {"created"} \cup Saved(cleanup, i - 1)
    BY <1>7
  <2> HIDE DEF cleanup
  <2>5. {} \subseteq {"created"} \cup Saved(cleanup, Len(cleanup)) /\ {} \subseteq {} \cup Made(cleanup, Len(cleanup))
    BY <2>1
  <2> QED BY <2>1, <2>4, <2>5, QuietRuns
<1>11. J # {} /\ J \subseteq DOMAIN steps /\ \A j \in J : IsAssertion(steps[j])
  BY <1>6
<1> HIDE DEF setup, steps, cleanup, J
<1> QED BY <1>1, <1>8, <1>9, <1>10, <1>11, SoundIf

LEMMA CrudUpdatesOwn ==
  ASSUME NEW t, NEW aimed, aimed => WithMethod(t, {"DELETE"}) = "delete", Usable(t)
  PROVE  Sound(RuntimeCrud(t, "update_persists"), {"none"}, aimed)
<1> DEFINE clone == IF Usable(t) THEN {} ELSE {"seed"}
           whose == IF Usable(t) THEN {"created"} ELSE {"seed"}
           patch(save) == Ask("PATCH", UpdatePath(t), At(UpdatePath(t), whose) \cup clone, save)
           own == IF Usable(t) THEN <<Ask("POST", CreatePath(t), {}, "created")>> ELSE <<>>
           a == Ask("GET", Collection(t), {}, "seed")
           b == Ask("POST", CreatePath(t), {}, "created")
           c == patch("updated")
           d == Ask("GET", Collection(t), {}, "refreshed")
           e == [Step EXCEPT !.act = "capture_json", !.src = {"refreshed"},
                             !.by = {"updated"}, !.save = "selected"]
           f == Expect("expect_relation", {"updated", "selected"})
           g == Ask("DELETE", DeletePath(t), At(DeletePath(t), {"created"}), "none")
           setup == <<>>
           steps == <<a, b, c, d, e, f>>
           cleanup == <<g>>
           J == {6}
<1>1. RuntimeCrud(t, "update_persists") = Execution(setup, steps, cleanup, {Len(setup) + j : j \in J})
  <2> DEFINE concat == <<a>> \o own \o <<c, d, e, f>>
  <2>1. RuntimeCrud(t, "update_persists") = Execution(setup, concat, <<IF Usable(t) THEN g ELSE patch("none")>>, {Len(concat)})
    BY DEF RuntimeCrud
  <2>2. concat = steps /\ cleanup = <<IF Usable(t) THEN g ELSE patch("none")>>
    <3>1. own = <<b>>  OBVIOUS
    <3>2. cleanup = <<IF Usable(t) THEN g ELSE patch("none")>>  OBVIOUS
    <3> HIDE DEF a, c, d, e, f, own, cleanup, b
    <3>3. concat = steps
      <4>1. <<a>> \o <<b>> = <<a, b>>  BY Splice11
      <4>2. <<a, b>> \o <<c, d, e, f>> = steps  BY Splice24
      <4> QED BY <3>1, <4>1, <4>2
    <3> QED BY <3>2, <3>3
  <2>3. {Len(setup) + j : j \in J} = {Len(steps)}  OBVIOUS
  <2> HIDE DEF concat, steps
  <2> QED BY <2>1, <2>2, <2>3
<1>2. a.save = "seed" /\ Reads(a) = {} /\ Quiet(a, {"none"})
  BY DEF Ask, Step, Reads, Owes, Fine, Quiet
<1>3. b.save = "created" /\ Reads(b) = {} /\ Quiet(b, {"none"}) /\ Makes(b) = {"created"}
  BY DEF Ask, Step, Reads, Owes, Fine, Quiet, Makes
<1>4. c.save = "updated" /\ Reads(c) \subseteq {"created"} /\ Quiet(c, {"none"})
  <2> DEFINE names == At(UpdatePath(t), whose) \cup clone
  <2>1. names \subseteq {"created"}  BY AtIs
  <2>2. c = Ask("PATCH", UpdatePath(t), names, "updated")
    OBVIOUS
  <2> HIDE DEF names, c
  <2> QED BY <2>1, <2>2 DEF Ask, Step, Reads, Owes, Fine, Quiet
<1>5. d.save = "refreshed" /\ Reads(d) = {} /\ Quiet(d, {"none"})
  BY DEF Ask, Step, Reads, Owes, Fine, Quiet
<1>6. e.save = "selected" /\ Reads(e) = {"refreshed", "updated"} /\ Quiet(e, {"none"})
  BY DEF Step, Reads, Owes, Fine, Quiet
<1>7. Reads(f) = {"updated", "selected"} /\ Quiet(f, {"none"}) /\ IsAssertion(f)
      /\ f.act # "expect_status"
  BY DEF Expect, Step, Reads, Owes, Fine, Quiet, IsAssertion
<1>8. Reads(g) \subseteq {"created"} /\ Owes(g) \subseteq {"created"}
      /\ Fine(g, {"none"}, aimed)
  <2> DEFINE names == At(DeletePath(t), {"created"})
  <2>1. names \subseteq {"created"} /\ (aimed => names # {})
    BY AtIs, AtItem DEF DeletePath
  <2>2. g = Ask("DELETE", DeletePath(t), names, "none")
    OBVIOUS
  <2> HIDE DEF names, g
  <2> QED BY <2>1, <2>2 DEF Ask, Step, Reads, Owes, Fine
<1> HIDE DEF a, b, c, d, e, f, g
<1>9. Runs(setup, {"none"}, aimed, {}, {}, {}, {})  BY RunsNone
<1>10. Runs(steps, {"none"}, aimed, {}, {}, {"created"}, {"created"})
  <2>1. steps \in Seq({a, b, c, d, e, f}) /\ DOMAIN steps = 1..6 /\ Len(steps) = 6
    OBVIOUS
  <2>2. \A i \in 1..7 :
          /\ 1 < i => steps[1].save \in Saved(steps, i - 1)
          /\ 2 < i => steps[2].save \in Saved(steps, i - 1)
          /\ 3 < i => steps[3].save \in Saved(steps, i - 1)
          /\ 4 < i => steps[4].save \in Saved(steps, i - 1)
          /\ 5 < i => steps[5].save \in Saved(steps, i - 1)
          /\ 2 < i => Makes(steps[2]) \subseteq Made(steps, i - 1)
    <3> HIDE DEF steps
    <3> QED BY SavedAt
  <2>3. \A i \in 1..7 :
          /\ 1 < i => "seed" \in Saved(steps, i - 1)
          /\ 2 < i => "created" \in Saved(steps, i - 1)
          /\ 3 < i => "updated" \in Saved(steps, i - 1)
          /\ 4 < i => "refreshed" \in Saved(steps, i - 1)
          /\ 5 < i => "selected" \in Saved(steps, i - 1)
          /\ 2 < i => "created" \in Made(steps, i - 1)
    BY <2>2, <1>2, <1>3, <1>4, <1>5, <1>6
  <2>4. \A i \in 1..6 : Quiet(steps[i], {"none"}) /\ Reads(steps[i]) \subseteq {} \cup Saved(steps, i - 1)
    BY <1>2, <1>3, <1>4, <1>5, <1>6, <1>7, <2>3
  <2> HIDE DEF steps
  <2>5. {"created"} \subseteq {} \cup Saved(steps, Len(steps)) /\ {"created"} \subseteq {} \cup Made(steps, Len(steps))
    BY <2>1, <2>3
  <2> QED BY <2>1, <2>4, <2>5, QuietRuns
<1>11. Runs(cleanup, {"none"}, aimed, {"created"}, {"created"}, {}, {})
  <2>1. cleanup \in Seq({g}) /\ DOMAIN cleanup = 1..1 /\ Len(cleanup) = 1
    OBVIOUS
  <2>4. \A i \in 1..1 : /\ Fine(cleanup[i], {"none"}, aimed)
                       /\ Reads(cleanup[i]) \subseteq {"created"} \cup Saved(cleanup, i - 1)
                       /\ Owes(cleanup[i]) \subseteq {"created"} \cup Made(cleanup, i - 1)
    BY <1>8 DEF Quiet
  <2> HIDE DEF cleanup
  <2>5. {} \subseteq {"created"} \cup Saved(cleanup, Len(cleanup)) /\ {} \subseteq {"created"} \cup Made(cleanup, Len(cleanup))
    BY <2>1
  <2> QED BY <2>1, <2>4, <2>5, RunsIf
<1>12. J # {} /\ J \subseteq DOMAIN steps /\ \A j \in J : IsAssertion(steps[j])
  BY <1>7
<1> HIDE DEF setup, steps, cleanup, J
<1> QED BY <1>1, <1>9, <1>10, <1>11, <1>12, SoundIf

LEMMA CrudUpdatesSeed ==
  ASSUME NEW t, NEW aimed, aimed => WithMethod(t, {"DELETE"}) = "delete", ~Usable(t)
  PROVE  Sound(RuntimeCrud(t, "update_persists"), {"none"}, aimed)
<1> DEFINE clone == IF Usable(t) THEN {} ELSE {"seed"}
           whose == IF Usable(t) THEN {"created"} ELSE {"seed"}
           patch(save) == Ask("PATCH", UpdatePath(t), At(UpdatePath(t), whose) \cup clone, save)
           own == IF Usable(t) THEN <<Ask("POST", CreatePath(t), {}, "created")>> ELSE <<>>
           a == Ask("GET", Collection(t), {}, "seed")
           c == patch("updated")
           d == Ask("GET", Collection(t), {}, "refreshed")
           e == [Step EXCEPT !.act = "capture_json", !.src = {"refreshed"},
                             !.by = {"updated"}, !.save = "selected"]
           f == Expect("expect_relation", {"updated", "selected"})
           g == patch("none")
           setup == <<>>
           steps == <<a, c, d, e, f>>
           cleanup == <<g>>
           J == {5}
<1>1. RuntimeCrud(t, "update_persists") = Execution(setup, steps, cleanup, {Len(setup) + j : j \in J})
  <2> DEFINE concat == <<a>> \o own \o <<c, d, e, f>>
  <2>1. RuntimeCrud(t, "update_persists") = Execution(setup, concat, <<IF Usable(t) THEN Ask("DELETE", DeletePath(t), At(DeletePath(t), {"created"}), "none") ELSE g>>, {Len(concat)})
    BY DEF RuntimeCrud
  <2>2. concat = steps /\ cleanup = <<IF Usable(t) THEN Ask("DELETE", DeletePath(t), At(DeletePath(t), {"created"}), "none") ELSE g>>
    <3>1. own = <<>>  OBVIOUS
    <3>2. cleanup = <<IF Usable(t) THEN Ask("DELETE", DeletePath(t), At(DeletePath(t), {"created"}), "none") ELSE g>>  OBVIOUS
    <3> HIDE DEF a, c, d, e, f, own, cleanup
    <3>3. concat = steps
      BY <3>1, SpliceNone, Splice14
    <3> QED BY <3>2, <3>3
  <2>3. {Len(setup) + j : j \in J} = {Len(steps)}  OBVIOUS
  <2> HIDE DEF concat, steps
  <2> QED BY <2>1, <2>2, <2>3
<1>2. a.save = "seed" /\ Reads(a) = {} /\ Quiet(a, {"none"})
  BY DEF Ask, Step, Reads, Owes, Fine, Quiet
<1>3. c.save = "updated" /\ Reads(c) \subseteq {"seed"} /\ Quiet(c, {"none"})
  <2> DEFINE names == At(UpdatePath(t), whose) \cup clone
  <2>1. names \subseteq {"seed"}  BY AtIs
  <2>2. c = Ask("PATCH", UpdatePath(t), names, "updated")
    OBVIOUS
  <2> HIDE DEF names, c
  <2> QED BY <2>1, <2>2 DEF Ask, Step, Reads, Owes, Fine, Quiet
<1>4. d.save = "refreshed" /\ Reads(d) = {} /\ Quiet(d, {"none"})
  BY DEF Ask, Step, Reads, Owes, Fine, Quiet
<1>5. e.save = "selected" /\ Reads(e) = {"refreshed", "updated"} /\ Quiet(e, {"none"})
  BY DEF Step, Reads, Owes, Fine, Quiet
<1>6. Reads(f) = {"updated", "selected"} /\ Quiet(f, {"none"}) /\ IsAssertion(f)
      /\ f.act # "expect_status"
  BY DEF Expect, Step, Reads, Owes, Fine, Quiet, IsAssertion
<1>7. Reads(g) \subseteq {"seed"} /\ Quiet(g, {"none"})
  <2> DEFINE names == At(UpdatePath(t), whose) \cup clone
  <2>1. names \subseteq {"seed"}  BY AtIs
  <2>2. g = Ask("PATCH", UpdatePath(t), names, "none")
    OBVIOUS
  <2> HIDE DEF names, g
  <2> QED BY <2>1, <2>2 DEF Ask, Step, Reads, Owes, Fine, Quiet
<1> HIDE DEF a, c, d, e, f, g
<1>8. Runs(setup, {"none"}, aimed, {}, {}, {}, {})  BY RunsNone
<1>9. Runs(steps, {"none"}, aimed, {}, {}, {"seed"}, {})
  <2>1. steps \in Seq({a, c, d, e, f}) /\ DOMAIN steps = 1..5 /\ Len(steps) = 5
    OBVIOUS
  <2>2. \A i \in 1..6 :
          /\ 1 < i => steps[1].save \in Saved(steps, i - 1)
          /\ 2 < i => steps[2].save \in Saved(steps, i - 1)
          /\ 3 < i => steps[3].save \in Saved(steps, i - 1)
          /\ 4 < i => steps[4].save \in Saved(steps, i - 1)
    <3> HIDE DEF steps
    <3> QED BY SavedAt
  <2>3. \A i \in 1..6 :
          /\ 1 < i => "seed" \in Saved(steps, i - 1)
          /\ 2 < i => "updated" \in Saved(steps, i - 1)
          /\ 3 < i => "refreshed" \in Saved(steps, i - 1)
          /\ 4 < i => "selected" \in Saved(steps, i - 1)
    BY <2>2, <1>2, <1>3, <1>4, <1>5
  <2>4. \A i \in 1..5 : Quiet(steps[i], {"none"}) /\ Reads(steps[i]) \subseteq {} \cup Saved(steps, i - 1)
    BY <1>2, <1>3, <1>4, <1>5, <1>6, <2>3
  <2> HIDE DEF steps
  <2>5. {"seed"} \subseteq {} \cup Saved(steps, Len(steps)) /\ {} \subseteq {} \cup Made(steps, Len(steps))
    BY <2>1, <2>3
  <2> QED BY <2>1, <2>4, <2>5, QuietRuns
<1>10. Runs(cleanup, {"none"}, aimed, {"seed"}, {}, {}, {})
  <2>1. cleanup \in Seq({g}) /\ DOMAIN cleanup = 1..1 /\ Len(cleanup) = 1
    OBVIOUS
  <2>4. \A i \in 1..1 : Quiet(cleanup[i], {"none"}) /\ Reads(cleanup[i]) \subseteq {"seed"} \cup Saved(cleanup, i - 1)
    BY <1>7
  <2> HIDE DEF cleanup
  <2>5. {} \subseteq {"seed"} \cup Saved(cleanup, Len(cleanup)) /\ {} \subseteq {} \cup Made(cleanup, Len(cleanup))
    BY <2>1
  <2> QED BY <2>1, <2>4, <2>5, QuietRuns
<1>11. J # {} /\ J \subseteq DOMAIN steps /\ \A j \in J : IsAssertion(steps[j])
  BY <1>6
<1> HIDE DEF setup, steps, cleanup, J
<1> QED BY <1>1, <1>8, <1>9, <1>10, <1>11, SoundIf

LEMMA DetailOwn ==
  ASSUME NEW t, NEW aimed, aimed => WithMethod(t, {"DELETE"}) = "delete", Usable(t),
         WithMethod(t, {"DELETE"}) # "none"
  PROVE  Sound(DetailConsistency(t), {"none"}, aimed)
<1> DEFINE whose == IF Usable(t) THEN {"fixture"} ELSE {"list"}
           a == Ask("POST", CreatePath(t), {}, "fixture")
           b == Ask("GET", Collection(t), {}, "list")
           c == [Step EXCEPT !.act = "capture_json", !.src = {"list"},
                             !.by = whose, !.save = "selected"]
           d == Ask("GET", DetailPath(t), At(DetailPath(t), whose), "detail")
           e == Expect("expect_relation", {"detail", IF Usable(t) THEN "selected" ELSE "list"})
           f == Ask("DELETE", DeletePath(t), At(DeletePath(t), whose), "none")
           setup == <<a>>
           steps == <<b, c, d, e>>
           cleanup == <<f>>
           J == {4}
<1>1. DetailConsistency(t) = Execution(setup, steps, cleanup, {Len(setup) + j : j \in J})
  <2> DEFINE first == IF Usable(t) THEN <<a>> ELSE <<>>
             some == IF Usable(t) THEN <<c>> ELSE <<>>
             last == IF Usable(t) /\ WithMethod(t, {"DELETE"}) # "none" THEN <<f>> ELSE <<>>
             concat == <<b>> \o some \o <<d, e>>
  <2>1. DetailConsistency(t) = Execution(first, concat, last, {Len(first) + Len(concat)})
    BY DEF DetailConsistency
  <2>2. first = setup /\ last = cleanup
    OBVIOUS
  <2>3. concat = steps
    <3>1. some = <<c>>  OBVIOUS
    <3> HIDE DEF a, b, c, d, e, some
    <3>3. <<b>> \o <<c>> = <<b, c>>  BY Splice11
    <3>4. <<b, c>> \o <<d, e>> = steps  BY Splice22
    <3> QED BY <3>1, <3>3, <3>4
  <2>4. {Len(setup) + j : j \in J} = {Len(setup) + Len(steps)}
    OBVIOUS
  <2> HIDE DEF concat, steps, first, last, setup, cleanup
  <2> QED BY <2>1, <2>2, <2>3, <2>4
<1>2. a.save = "fixture" /\ Reads(a) = {} /\ Quiet(a, {"none"}) /\ Makes(a) = {"fixture"}
  BY DEF Ask, Step, Reads, Owes, Fine, Quiet, Makes
<1>3. b.save = "list" /\ Reads(b) = {} /\ Quiet(b, {"none"})
  BY DEF Ask, Step, Reads, Owes, Fine, Quiet
<1>4. c.save = "selected" /\ Reads(c) = {"list", "fixture"} /\ Quiet(c, {"none"})
  BY DEF Step, Reads, Owes, Fine, Quiet
<1>5. d.save = "detail" /\ Reads(d) \subseteq {"fixture"} /\ Quiet(d, {"none"})
  <2> DEFINE names == At(DetailPath(t), whose)
  <2>1. names \subseteq {"fixture"}  BY AtIs
  <2>2. d = Ask("GET", DetailPath(t), names, "detail")
    OBVIOUS
  <2> HIDE DEF names, d
  <2> QED BY <2>1, <2>2 DEF Ask, Step, Reads, Owes, Fine, Quiet
<1>6. Reads(e) = {"detail", "selected"} /\ Quiet(e, {"none"}) /\ IsAssertion(e)
      /\ e.act # "expect_status"
  BY DEF Expect, Step, Reads, Owes, Fine, Quiet, IsAssertion
<1>7. Reads(f) \subseteq {"fixture"} /\ Owes(f) \subseteq {"fixture"}
      /\ Fine(f, {"none"}, aimed)
  <2> DEFINE names == At(DeletePath(t), whose)
  <2>1. names \subseteq {"fixture"} /\ (aimed => names # {})
    BY AtIs, AtItem DEF DeletePath
  <2>2. f = Ask("DELETE", DeletePath(t), names, "none")
    OBVIOUS
  <2> HIDE DEF names, f
  <2> QED BY <2>1, <2>2 DEF Ask, Step, Reads, Owes, Fine
<1> HIDE DEF a, b, c, d, e, f
<1>8. Runs(setup, {"none"}, aimed, {}, {}, {"fixture"}, {"fixture"})
  <2>1. setup \in Seq({a}) /\ DOMAIN setup = 1..1 /\ Len(setup) = 1
    OBVIOUS
  <2>2. \A i \in 1..2 :
          /\ 1 < i => setup[1].save \in Saved(setup, i - 1)
          /\ 1 < i => Makes(setup[1]) \subseteq Made(setup, i - 1)
    <3> HIDE DEF setup
    <3> QED BY SavedAt
  <2>3. \A i \in 1..2 :
          /\ 1 < i => "fixture" \in Saved(setup, i - 1)
          /\ 1 < i => "fixture" \in Made(setup, i - 1)
    BY <2>2, <1>2
  <2>4. \A i \in 1..1 : Quiet(setup[i], {"none"}) /\ Reads(setup[i]) \subseteq {} \cup Saved(setup, i - 1)
    BY <1>2, <2>3
  <2> HIDE DEF setup
  <2>5. {"fixture"} \subseteq {} \cup Saved(setup, Len(setup)) /\ {"fixture"} \subseteq {} \cup Made(setup, Len(setup))
    BY <2>1, <2>3
  <2> QED BY <2>1, <2>4, <2>5, QuietRuns
<1>9. Runs(steps, {"none"}, aimed, {"fixture"}, {"fixture"}, {"fixture"}, {"fixture"})
  <2>1. steps \in Seq({b, c, d, e}) /\ DOMAIN steps = 1..4 /\ Len(steps) = 4
    OBVIOUS
  <2>2. \A i \in 1..5 :
          /\ 1 < i => steps[1].save \in Saved(steps, i - 1)
          /\ 2 < i => steps[2].save \in Saved(steps, i - 1)
          /\ 3 < i => steps[3].save \in Saved(steps, i - 1)
    <3> HIDE DEF steps
    <3> QED BY SavedAt
  <2>3. \A i \in 1..5 :
          /\ 1 < i => "list" \in Saved(steps, i - 1)
          /\ 2 < i => "selected" \in Saved(steps, i - 1)
          /\ 3 < i => "detail" \in Saved(steps, i - 1)
    BY <2>2, <1>3, <1>4, <1>5
  <2>4. \A i \in 1..4 : Quiet(steps[i], {"none"}) /\ Reads(steps[i]) \subseteq {"fixture"} \cup Saved(steps, i - 1)
    BY <1>3, <1>4, <1>5, <1>6, <2>3
  <2> HIDE DEF steps
  <2>5. {"fixture"} \subseteq {"fixture"} \cup Saved(steps, Len(steps)) /\ {"fixture"} \subseteq {"fixture"} \cup Made(steps, Len(steps))
    BY <2>1, <2>3
  <2> QED BY <2>1, <2>4, <2>5, QuietRuns
<1>10. Runs(cleanup, {"none"}, aimed, {"fixture"}, {"fixture"}, {}, {})
  <2>1. cleanup \in Seq({f}) /\ DOMAIN cleanup = 1..1 /\ Len(cleanup) = 1
    OBVIOUS
  <2>4. \A i \in 1..1 : /\ Fine(cleanup[i], {"none"}, aimed)
                       /\ Reads(cleanup[i]) \subseteq {"fixture"} \cup Saved(cleanup, i - 1)
                       /\ Owes(cleanup[i]) \subseteq {"fixture"} \cup Made(cleanup, i - 1)
    BY <1>7 DEF Quiet
  <2> HIDE DEF cleanup
  <2>5. {} \subseteq {"fixture"} \cup Saved(cleanup, Len(cleanup)) /\ {} \subseteq {"fixture"} \cup Made(cleanup, Len(cleanup))
    BY <2>1
  <2> QED BY <2>1, <2>4, <2>5, RunsIf
<1>11. J # {} /\ J \subseteq DOMAIN steps /\ \A j \in J : IsAssertion(steps[j])
  BY <1>6
<1> HIDE DEF setup, steps, cleanup, J
<1> QED BY <1>1, <1>8, <1>9, <1>10, <1>11, SoundIf

LEMMA DetailLeft ==
  ASSUME NEW t, NEW aimed, aimed => WithMethod(t, {"DELETE"}) = "delete", Usable(t),
         WithMethod(t, {"DELETE"}) = "none"
  PROVE  Sound(DetailConsistency(t), {"none"}, aimed)
<1> DEFINE whose == IF Usable(t) THEN {"fixture"} ELSE {"list"}
           a == Ask("POST", CreatePath(t), {}, "fixture")
           b == Ask("GET", Collection(t), {}, "list")
           c == [Step EXCEPT !.act = "capture_json", !.src = {"list"},
                             !.by = whose, !.save = "selected"]
           d == Ask("GET", DetailPath(t), At(DetailPath(t), whose), "detail")
           e == Expect("expect_relation", {"detail", IF Usable(t) THEN "selected" ELSE "list"})
           f == Ask("DELETE", DeletePath(t), At(DeletePath(t), whose), "none")
           setup == <<a>>
           steps == <<b, c, d, e>>
           cleanup == <<>>
           J == {4}
<1>1. DetailConsistency(t) = Execution(setup, steps, cleanup, {Len(setup) + j : j \in J})
  <2> DEFINE first == IF Usable(t) THEN <<a>> ELSE <<>>
             some == IF Usable(t) THEN <<c>> ELSE <<>>
             last == IF Usable(t) /\ WithMethod(t, {"DELETE"}) # "none" THEN <<f>> ELSE <<>>
             concat == <<b>> \o some \o <<d, e>>
  <2>1. DetailConsistency(t) = Execution(first, concat, last, {Len(first) + Len(concat)})
    BY DEF DetailConsistency
  <2>2. first = setup /\ last = cleanup
    OBVIOUS
  <2>3. concat = steps
    <3>1. some = <<c>>  OBVIOUS
    <3> HIDE DEF a, b, c, d, e, some
    <3>3. <<b>> \o <<c>> = <<b, c>>  BY Splice11
    <3>4. <<b, c>> \o <<d, e>> = steps  BY Splice22
    <3> QED BY <3>1, <3>3, <3>4
  <2>4. {Len(setup) + j : j \in J} = {Len(setup) + Len(steps)}
    OBVIOUS
  <2> HIDE DEF concat, steps, first, last, setup, cleanup
  <2> QED BY <2>1, <2>2, <2>3, <2>4
<1>2. a.save = "fixture" /\ Reads(a) = {} /\ Quiet(a, {"none"}) /\ Makes(a) = {"fixture"}
  BY DEF Ask, Step, Reads, Owes, Fine, Quiet, Makes
<1>3. b.save = "list" /\ Reads(b) = {} /\ Quiet(b, {"none"})
  BY DEF Ask, Step, Reads, Owes, Fine, Quiet
<1>4. c.save = "selected" /\ Reads(c) = {"list", "fixture"} /\ Quiet(c, {"none"})
  BY DEF Step, Reads, Owes, Fine, Quiet
<1>5. d.save = "detail" /\ Reads(d) \subseteq {"fixture"} /\ Quiet(d, {"none"})
  <2> DEFINE names == At(DetailPath(t), whose)
  <2>1. names \subseteq {"fixture"}  BY AtIs
  <2>2. d = Ask("GET", DetailPath(t), names, "detail")
    OBVIOUS
  <2> HIDE DEF names, d
  <2> QED BY <2>1, <2>2 DEF Ask, Step, Reads, Owes, Fine, Quiet
<1>6. Reads(e) = {"detail", "selected"} /\ Quiet(e, {"none"}) /\ IsAssertion(e)
      /\ e.act # "expect_status"
  BY DEF Expect, Step, Reads, Owes, Fine, Quiet, IsAssertion
<1>7. Reads(f) \subseteq {"fixture"} /\ Owes(f) \subseteq {"fixture"}
      /\ Fine(f, {"none"}, aimed)
  <2> DEFINE names == At(DeletePath(t), whose)
  <2>1. names \subseteq {"fixture"} /\ (aimed => names # {})
    BY AtIs, AtItem DEF DeletePath
  <2>2. f = Ask("DELETE", DeletePath(t), names, "none")
    OBVIOUS
  <2> HIDE DEF names, f
  <2> QED BY <2>1, <2>2 DEF Ask, Step, Reads, Owes, Fine
<1> HIDE DEF a, b, c, d, e, f
<1>8. Runs(setup, {"none"}, aimed, {}, {}, {"fixture"}, {"fixture"})
  <2>1. setup \in Seq({a}) /\ DOMAIN setup = 1..1 /\ Len(setup) = 1
    OBVIOUS
  <2>2. \A i \in 1..2 :
          /\ 1 < i => setup[1].save \in Saved(setup, i - 1)
          /\ 1 < i => Makes(setup[1]) \subseteq Made(setup, i - 1)
    <3> HIDE DEF setup
    <3> QED BY SavedAt
  <2>3. \A i \in 1..2 :
          /\ 1 < i => "fixture" \in Saved(setup, i - 1)
          /\ 1 < i => "fixture" \in Made(setup, i - 1)
    BY <2>2, <1>2
  <2>4. \A i \in 1..1 : Quiet(setup[i], {"none"}) /\ Reads(setup[i]) \subseteq {} \cup Saved(setup, i - 1)
    BY <1>2, <2>3
  <2> HIDE DEF setup
  <2>5. {"fixture"} \subseteq {} \cup Saved(setup, Len(setup)) /\ {"fixture"} \subseteq {} \cup Made(setup, Len(setup))
    BY <2>1, <2>3
  <2> QED BY <2>1, <2>4, <2>5, QuietRuns
<1>9. Runs(steps, {"none"}, aimed, {"fixture"}, {"fixture"}, {"fixture"}, {"fixture"})
  <2>1. steps \in Seq({b, c, d, e}) /\ DOMAIN steps = 1..4 /\ Len(steps) = 4
    OBVIOUS
  <2>2. \A i \in 1..5 :
          /\ 1 < i => steps[1].save \in Saved(steps, i - 1)
          /\ 2 < i => steps[2].save \in Saved(steps, i - 1)
          /\ 3 < i => steps[3].save \in Saved(steps, i - 1)
    <3> HIDE DEF steps
    <3> QED BY SavedAt
  <2>3. \A i \in 1..5 :
          /\ 1 < i => "list" \in Saved(steps, i - 1)
          /\ 2 < i => "selected" \in Saved(steps, i - 1)
          /\ 3 < i => "detail" \in Saved(steps, i - 1)
    BY <2>2, <1>3, <1>4, <1>5
  <2>4. \A i \in 1..4 : Quiet(steps[i], {"none"}) /\ Reads(steps[i]) \subseteq {"fixture"} \cup Saved(steps, i - 1)
    BY <1>3, <1>4, <1>5, <1>6, <2>3
  <2> HIDE DEF steps
  <2>5. {"fixture"} \subseteq {"fixture"} \cup Saved(steps, Len(steps)) /\ {"fixture"} \subseteq {"fixture"} \cup Made(steps, Len(steps))
    BY <2>1, <2>3
  <2> QED BY <2>1, <2>4, <2>5, QuietRuns
<1>10. Runs(cleanup, {"none"}, aimed, {"fixture"}, {"fixture"}, {}, {})
  BY RunsNone, RunsWeaker
<1>11. J # {} /\ J \subseteq DOMAIN steps /\ \A j \in J : IsAssertion(steps[j])
  BY <1>6
<1> HIDE DEF setup, steps, cleanup, J
<1> QED BY <1>1, <1>8, <1>9, <1>10, <1>11, SoundIf

LEMMA DetailListed ==
  ASSUME NEW t, NEW aimed, aimed => WithMethod(t, {"DELETE"}) = "delete", ~Usable(t)
  PROVE  Sound(DetailConsistency(t), {"none"}, aimed)
<1> DEFINE whose == IF Usable(t) THEN {"fixture"} ELSE {"list"}
           a == Ask("POST", CreatePath(t), {}, "fixture")
           b == Ask("GET", Collection(t), {}, "list")
           c == [Step EXCEPT !.act = "capture_json", !.src = {"list"},
                             !.by = whose, !.save = "selected"]
           d == Ask("GET", DetailPath(t), At(DetailPath(t), whose), "detail")
           e == Expect("expect_relation", {"detail", IF Usable(t) THEN "selected" ELSE "list"})
           f == Ask("DELETE", DeletePath(t), At(DeletePath(t), whose), "none")
           setup == <<>>
           steps == <<b, d, e>>
           cleanup == <<>>
           J == {3}
<1>1. DetailConsistency(t) = Execution(setup, steps, cleanup, {Len(setup) + j : j \in J})
  <2> DEFINE first == IF Usable(t) THEN <<a>> ELSE <<>>
             some == IF Usable(t) THEN <<c>> ELSE <<>>
             last == IF Usable(t) /\ WithMethod(t, {"DELETE"}) # "none" THEN <<f>> ELSE <<>>
             concat == <<b>> \o some \o <<d, e>>
  <2>1. DetailConsistency(t) = Execution(first, concat, last, {Len(first) + Len(concat)})
    BY DEF DetailConsistency
  <2>2. first = setup /\ last = cleanup
    OBVIOUS
  <2>3. concat = steps
    <3>1. some = <<>>  OBVIOUS
    <3> HIDE DEF a, b, c, d, e, some
    <3> QED BY <3>1, SpliceNone, Splice12
  <2>4. {Len(setup) + j : j \in J} = {Len(setup) + Len(steps)}
    OBVIOUS
  <2> HIDE DEF concat, steps, first, last, setup, cleanup
  <2> QED BY <2>1, <2>2, <2>3, <2>4
<1>2. a.save = "fixture" /\ Reads(a) = {} /\ Quiet(a, {"none"}) /\ Makes(a) = {"fixture"}
  BY DEF Ask, Step, Reads, Owes, Fine, Quiet, Makes
<1>3. b.save = "list" /\ Reads(b) = {} /\ Quiet(b, {"none"})
  BY DEF Ask, Step, Reads, Owes, Fine, Quiet
<1>4. c.save = "selected" /\ Reads(c) = {"list", "list"} /\ Quiet(c, {"none"})
  BY DEF Step, Reads, Owes, Fine, Quiet
<1>5. d.save = "detail" /\ Reads(d) \subseteq {"list"} /\ Quiet(d, {"none"})
  <2> DEFINE names == At(DetailPath(t), whose)
  <2>1. names \subseteq {"list"}  BY AtIs
  <2>2. d = Ask("GET", DetailPath(t), names, "detail")
    OBVIOUS
  <2> HIDE DEF names, d
  <2> QED BY <2>1, <2>2 DEF Ask, Step, Reads, Owes, Fine, Quiet
<1>6. Reads(e) = {"detail", "list"} /\ Quiet(e, {"none"}) /\ IsAssertion(e)
      /\ e.act # "expect_status"
  BY DEF Expect, Step, Reads, Owes, Fine, Quiet, IsAssertion
<1>7. Reads(f) \subseteq {"list"} /\ Owes(f) \subseteq {"list"} /\ Fine(f, {"none"}, aimed)
  <2> DEFINE names == At(DeletePath(t), whose)
  <2>1. names \subseteq {"list"} /\ (aimed => names # {})
    BY AtIs, AtItem DEF DeletePath
  <2>2. f = Ask("DELETE", DeletePath(t), names, "none")
    OBVIOUS
  <2> HIDE DEF names, f
  <2> QED BY <2>1, <2>2 DEF Ask, Step, Reads, Owes, Fine
<1> HIDE DEF a, b, c, d, e, f
<1>8. Runs(setup, {"none"}, aimed, {}, {}, {}, {})  BY RunsNone
<1>9. Runs(steps, {"none"}, aimed, {}, {}, {}, {})
  <2>1. steps \in Seq({b, d, e}) /\ DOMAIN steps = 1..3 /\ Len(steps) = 3
    OBVIOUS
  <2>2. \A i \in 1..4 :
          /\ 1 < i => steps[1].save \in Saved(steps, i - 1)
          /\ 2 < i => steps[2].save \in Saved(steps, i - 1)
    <3> HIDE DEF steps
    <3> QED BY SavedAt
  <2>3. \A i \in 1..4 :
          /\ 1 < i => "list" \in Saved(steps, i - 1)
          /\ 2 < i => "detail" \in Saved(steps, i - 1)
    BY <2>2, <1>3, <1>5
  <2>4. \A i \in 1..3 : Quiet(steps[i], {"none"}) /\ Reads(steps[i]) \subseteq {} \cup Saved(steps, i - 1)
    BY <1>3, <1>5, <1>6, <2>3
  <2> HIDE DEF steps
  <2>5. {} \subseteq {} \cup Saved(steps, Len(steps)) /\ {} \subseteq {} \cup Made(steps, Len(steps))
    BY <2>1, <2>3
  <2> QED BY <2>1, <2>4, <2>5, QuietRuns
<1>10. Runs(cleanup, {"none"}, aimed, {}, {}, {}, {})  BY RunsNone
<1>11. J # {} /\ J \subseteq DOMAIN steps /\ \A j \in J : IsAssertion(steps[j])
  BY <1>6
<1> HIDE DEF setup, steps, cleanup, J
<1> QED BY <1>1, <1>8, <1>9, <1>10, <1>11, SoundIf

LEMMA EndpointSearch ==
  ASSUME NEW t, NEW q, NEW endpoint, NEW aimed,
         aimed => WithMethod(t, {"DELETE"}) = "delete" /\ Method(endpoint) # "DELETE",
         q.intent = "search_filters_results"
  PROVE  Sound(ByEndpoint(t, q, endpoint), {"none"}, aimed)
<1> DEFINE path == PathOf(t, endpoint)
           search == q.intent = "search_filters_results"
           base == IF path = "query" THEN "items" ELSE path
           where == PathFor(t, {"POST"}, base)
           target == PathFor(t, {"DELETE"}, where)
           undo(save) == Ask("DELETE", target, At(target, {save}), "none")
           semantic == q.intent \in {"count_consistent", "summary_is_consistent",
                                     "search_filters_results"}
           a == Ask("POST", where, {}, "setup")
           b == Ask("POST", where, {}, "secondary")
           c == Ask(Method(endpoint), path, {}, "response")
           d == Expect("expect_status", {"response"})
           e == Expect("expect_collection", {"response"})
           f == undo("setup")
           g == undo("secondary")
           setup == <<a, b>>
           steps == <<c, d, e>>
           cleanup == <<f, g>>
           J == {j \in DOMAIN steps :
                    IsAssertion(steps[j]) /\ (semantic => steps[j].act # "expect_status")}
<1>1. ByEndpoint(t, q, endpoint) = Execution(setup, steps, cleanup, {Len(setup) + j : j \in J})
  <2> DEFINE first == IF search THEN <<Ask("POST", where, {}, "setup"), Ask("POST", where, {}, "secondary")>>
                      ELSE <<>>
             some == IF q.intent = "count_consistent"
                     THEN <<Ask("GET", Collection(t), {}, "list")>> ELSE <<>>
             more == CASE q.intent = "count_consistent" ->
                            <<Expect("expect_relation", {"response", "list"})>>
                       [] q.intent = "summary_is_consistent" -> <<Expect("expect_relation", {"response"})>>
                       [] search -> <<Expect("expect_collection", {"response"})>>
                       [] q.intent = "cors_allows_operation" -> <<Expect("expect_header", {"response"})>>
                       [] OTHER -> <<>>
             last == IF search THEN <<undo("setup"), undo("secondary")>> ELSE <<>>
             concat == <<c>> \o some \o <<d>> \o more
  <2>1. ByEndpoint(t, q, endpoint)
          = Execution(first, concat, last,
              {Len(first) + i : i \in {j \in DOMAIN concat :
                 IsAssertion(concat[j]) /\ (semantic => concat[j].act # "expect_status")}})
    BY DEF ByEndpoint
  <2>2. first = setup /\ last = cleanup
    OBVIOUS
  <2>3. concat = steps
    <3>1. some = <<>>  OBVIOUS
    <3>2. more = <<e>>  OBVIOUS
    <3> HIDE DEF c, d, some, more, e
    <3>3. <<c>> \o <<>> = <<c>>  BY SpliceNone
    <3>4. <<c>> \o <<d>> = <<c, d>>  BY Splice11
    <3>5. <<c, d>> \o <<e>> = steps  BY Splice21
    <3> QED BY <3>1, <3>2, <3>3, <3>4, <3>5
  <2> HIDE DEF concat, steps, first, last, setup, cleanup, semantic
  <2> QED BY <2>1, <2>2, <2>3
<1>2. a.save = "setup" /\ Reads(a) = {} /\ Quiet(a, {"none"}) /\ Makes(a) = {"setup"}
  BY DEF Ask, Step, Reads, Owes, Fine, Quiet, Makes
<1>3. b.save = "secondary" /\ Reads(b) = {} /\ Quiet(b, {"none"}) /\ Makes(b) = {"secondary"}
  BY DEF Ask, Step, Reads, Owes, Fine, Quiet, Makes
<1>4. c.save = "response" /\ Reads(c) = {} /\ Owes(c) \subseteq {} /\ Fine(c, {"none"}, aimed)
  BY DEF Ask, Step, Reads, Owes, Fine
<1>5. Reads(d) = {"response"} /\ Quiet(d, {"none"}) /\ IsAssertion(d)
  BY DEF Expect, Step, Reads, Owes, Fine, Quiet, IsAssertion
<1>6. Reads(e) = {"response"} /\ Quiet(e, {"none"}) /\ IsAssertion(e) /\ e.act # "expect_status"
  BY DEF Expect, Step, Reads, Owes, Fine, Quiet, IsAssertion
<1>7. Reads(f) \subseteq {"setup"} /\ Owes(f) \subseteq {"setup"} /\ Fine(f, {"none"}, aimed)
  <2> DEFINE names == At(target, {"setup"})
  <2>1. names \subseteq {"setup"} /\ (aimed => names # {})
    BY AtIs, AtItem
  <2>2. f = Ask("DELETE", target, names, "none")
    OBVIOUS
  <2> HIDE DEF names, f
  <2> QED BY <2>1, <2>2 DEF Ask, Step, Reads, Owes, Fine
<1>8. Reads(g) \subseteq {"secondary"} /\ Owes(g) \subseteq {"secondary"}
      /\ Fine(g, {"none"}, aimed)
  <2> DEFINE names == At(target, {"secondary"})
  <2>1. names \subseteq {"secondary"} /\ (aimed => names # {})
    BY AtIs, AtItem
  <2>2. g = Ask("DELETE", target, names, "none")
    OBVIOUS
  <2> HIDE DEF names, g
  <2> QED BY <2>1, <2>2 DEF Ask, Step, Reads, Owes, Fine
<1> HIDE DEF a, b, c, d, e, f, g
<1>9. Runs(setup, {"none"}, aimed, {}, {}, {"setup", "secondary"}, {"setup", "secondary"})
  <2>1. setup \in Seq({a, b}) /\ DOMAIN setup = 1..2 /\ Len(setup) = 2
    OBVIOUS
  <2>2. \A i \in 1..3 :
          /\ 1 < i => setup[1].save \in Saved(setup, i - 1)
          /\ 2 < i => setup[2].save \in Saved(setup, i - 1)
          /\ 1 < i => Makes(setup[1]) \subseteq Made(setup, i - 1)
          /\ 2 < i => Makes(setup[2]) \subseteq Made(setup, i - 1)
    <3> HIDE DEF setup
    <3> QED BY SavedAt
  <2>3. \A i \in 1..3 :
          /\ 1 < i => "setup" \in Saved(setup, i - 1)
          /\ 2 < i => "secondary" \in Saved(setup, i - 1)
          /\ 1 < i => "setup" \in Made(setup, i - 1)
          /\ 2 < i => "secondary" \in Made(setup, i - 1)
    BY <2>2, <1>2, <1>3
  <2>4. \A i \in 1..2 : Quiet(setup[i], {"none"}) /\ Reads(setup[i]) \subseteq {} \cup Saved(setup, i - 1)
    BY <1>2, <1>3, <2>3
  <2> HIDE DEF setup
  <2>5. {"setup", "secondary"} \subseteq {} \cup Saved(setup, Len(setup)) /\ {"setup", "secondary"} \subseteq {} \cup Made(setup, Len(setup))
    BY <2>1, <2>3
  <2> QED BY <2>1, <2>4, <2>5, QuietRuns
<1>10. Runs(steps, {"none"}, aimed, {"setup", "secondary"}, {"setup", "secondary"}, {"setup", "secondary"}, {"setup", "secondary"})
  <2>1. steps \in Seq({c, d, e}) /\ DOMAIN steps = 1..3 /\ Len(steps) = 3
    OBVIOUS
  <2>2. \A i \in 1..4 :
          /\ 1 < i => steps[1].save \in Saved(steps, i - 1)
    <3> HIDE DEF steps
    <3> QED BY SavedAt
  <2>3. \A i \in 1..4 :
          /\ 1 < i => "response" \in Saved(steps, i - 1)
    BY <2>2, <1>4
  <2>4. \A i \in 1..3 : /\ Fine(steps[i], {"none"}, aimed)
                       /\ Reads(steps[i]) \subseteq {"setup", "secondary"} \cup Saved(steps, i - 1)
                       /\ Owes(steps[i]) \subseteq {"setup", "secondary"} \cup Made(steps, i - 1)
    BY <1>4, <1>5, <1>6, <2>3 DEF Quiet
  <2> HIDE DEF steps
  <2>5. {"setup", "secondary"} \subseteq {"setup", "secondary"} \cup Saved(steps, Len(steps)) /\ {"setup", "secondary"} \subseteq {"setup", "secondary"} \cup Made(steps, Len(steps))
    BY <2>1, <2>3
  <2> QED BY <2>1, <2>4, <2>5, RunsIf
<1>11. Runs(cleanup, {"none"}, aimed, {"setup", "secondary"}, {"setup", "secondary"}, {}, {})
  <2>1. cleanup \in Seq({f, g}) /\ DOMAIN cleanup = 1..2 /\ Len(cleanup) = 2
    OBVIOUS
  <2>4. \A i \in 1..2 : /\ Fine(cleanup[i], {"none"}, aimed)
                       /\ Reads(cleanup[i]) \subseteq {"setup", "secondary"} \cup Saved(cleanup, i - 1)
                       /\ Owes(cleanup[i]) \subseteq {"setup", "secondary"} \cup Made(cleanup, i - 1)
    BY <1>7, <1>8 DEF Quiet
  <2> HIDE DEF cleanup
  <2>5. {} \subseteq {"setup", "secondary"} \cup Saved(cleanup, Len(cleanup)) /\ {} \subseteq {"setup", "secondary"} \cup Made(cleanup, Len(cleanup))
    BY <2>1
  <2> QED BY <2>1, <2>4, <2>5, RunsIf
<1>12. J # {} /\ J \subseteq DOMAIN steps /\ \A j \in J : IsAssertion(steps[j])
  BY <1>6
<1> HIDE DEF setup, steps, cleanup, J
<1> QED BY <1>1, <1>9, <1>10, <1>11, <1>12, SoundIf

LEMMA EndpointCount ==
  ASSUME NEW t, NEW q, NEW endpoint, NEW aimed,
         aimed => WithMethod(t, {"DELETE"}) = "delete" /\ Method(endpoint) # "DELETE",
         q.intent = "count_consistent"
  PROVE  Sound(ByEndpoint(t, q, endpoint), {"none"}, aimed)
<1> DEFINE path == PathOf(t, endpoint)
           search == q.intent = "search_filters_results"
           base == IF path = "query" THEN "items" ELSE path
           where == PathFor(t, {"POST"}, base)
           target == PathFor(t, {"DELETE"}, where)
           undo(save) == Ask("DELETE", target, At(target, {save}), "none")
           semantic == q.intent \in {"count_consistent", "summary_is_consistent",
                                     "search_filters_results"}
           c == Ask(Method(endpoint), path, {}, "response")
           d == Expect("expect_status", {"response"})
           e == Expect("expect_relation", {"response", "list"})
           h == Ask("GET", Collection(t), {}, "list")
           setup == <<>>
           steps == <<c, h, d, e>>
           cleanup == <<>>
           J == {j \in DOMAIN steps :
                    IsAssertion(steps[j]) /\ (semantic => steps[j].act # "expect_status")}
<1>1. ByEndpoint(t, q, endpoint) = Execution(setup, steps, cleanup, {Len(setup) + j : j \in J})
  <2> DEFINE first == IF search THEN <<Ask("POST", where, {}, "setup"), Ask("POST", where, {}, "secondary")>>
                      ELSE <<>>
             some == IF q.intent = "count_consistent"
                     THEN <<Ask("GET", Collection(t), {}, "list")>> ELSE <<>>
             more == CASE q.intent = "count_consistent" ->
                            <<Expect("expect_relation", {"response", "list"})>>
                       [] q.intent = "summary_is_consistent" -> <<Expect("expect_relation", {"response"})>>
                       [] search -> <<Expect("expect_collection", {"response"})>>
                       [] q.intent = "cors_allows_operation" -> <<Expect("expect_header", {"response"})>>
                       [] OTHER -> <<>>
             last == IF search THEN <<undo("setup"), undo("secondary")>> ELSE <<>>
             concat == <<c>> \o some \o <<d>> \o more
  <2>1. ByEndpoint(t, q, endpoint)
          = Execution(first, concat, last,
              {Len(first) + i : i \in {j \in DOMAIN concat :
                 IsAssertion(concat[j]) /\ (semantic => concat[j].act # "expect_status")}})
    BY DEF ByEndpoint
  <2>2. first = setup /\ last = cleanup
    OBVIOUS
  <2>3. concat = steps
    <3>1. some = <<h>>  OBVIOUS
    <3>2. more = <<e>>  OBVIOUS
    <3> HIDE DEF c, d, some, more, e, h
    <3>3. <<c>> \o <<h>> = <<c, h>>  BY Splice11
    <3>4. <<c, h>> \o <<d>> = <<c, h, d>>  BY Splice21
    <3>5. <<c, h, d>> \o <<e>> = steps  BY Splice31
    <3> QED BY <3>1, <3>2, <3>3, <3>4, <3>5
  <2> HIDE DEF concat, steps, first, last, setup, cleanup, semantic
  <2> QED BY <2>1, <2>2, <2>3
<1>2. c.save = "response" /\ Reads(c) = {} /\ Owes(c) \subseteq {} /\ Fine(c, {"none"}, aimed)
  BY DEF Ask, Step, Reads, Owes, Fine
<1>3. Reads(d) = {"response"} /\ Quiet(d, {"none"}) /\ IsAssertion(d)
  BY DEF Expect, Step, Reads, Owes, Fine, Quiet, IsAssertion
<1>4. Reads(e) = {"response", "list"} /\ Quiet(e, {"none"}) /\ IsAssertion(e)
      /\ e.act # "expect_status"
  BY DEF Expect, Step, Reads, Owes, Fine, Quiet, IsAssertion
<1>5. h.save = "list" /\ Reads(h) = {} /\ Quiet(h, {"none"})
  BY DEF Ask, Step, Reads, Owes, Fine, Quiet
<1> HIDE DEF c, d, e, h
<1>6. Runs(setup, {"none"}, aimed, {}, {}, {}, {})  BY RunsNone
<1>7. Runs(steps, {"none"}, aimed, {}, {}, {}, {})
  <2>1. steps \in Seq({c, d, e, h}) /\ DOMAIN steps = 1..4 /\ Len(steps) = 4
    OBVIOUS
  <2>2. \A i \in 1..5 :
          /\ 1 < i => steps[1].save \in Saved(steps, i - 1)
          /\ 2 < i => steps[2].save \in Saved(steps, i - 1)
    <3> HIDE DEF steps
    <3> QED BY SavedAt
  <2>3. \A i \in 1..5 :
          /\ 1 < i => "response" \in Saved(steps, i - 1)
          /\ 2 < i => "list" \in Saved(steps, i - 1)
    BY <2>2, <1>2, <1>5
  <2>4. \A i \in 1..4 : /\ Fine(steps[i], {"none"}, aimed)
                       /\ Reads(steps[i]) \subseteq {} \cup Saved(steps, i - 1)
                       /\ Owes(steps[i]) \subseteq {} \cup Made(steps, i - 1)
    BY <1>2, <1>5, <1>3, <1>4, <2>3 DEF Quiet
  <2> HIDE DEF steps
  <2>5. {} \subseteq {} \cup Saved(steps, Len(steps)) /\ {} \subseteq {} \cup Made(steps, Len(steps))
    BY <2>1, <2>3
  <2> QED BY <2>1, <2>4, <2>5, RunsIf
<1>8. Runs(cleanup, {"none"}, aimed, {}, {}, {}, {})  BY RunsNone
<1>9. J # {} /\ J \subseteq DOMAIN steps /\ \A j \in J : IsAssertion(steps[j])
  BY <1>4
<1> HIDE DEF setup, steps, cleanup, J
<1> QED BY <1>1, <1>6, <1>7, <1>8, <1>9, SoundIf

LEMMA EndpointSummary ==
  ASSUME NEW t, NEW q, NEW endpoint, NEW aimed,
         aimed => WithMethod(t, {"DELETE"}) = "delete" /\ Method(endpoint) # "DELETE",
         q.intent = "summary_is_consistent"
  PROVE  Sound(ByEndpoint(t, q, endpoint), {"none"}, aimed)
<1> DEFINE path == PathOf(t, endpoint)
           search == q.intent = "search_filters_results"
           base == IF path = "query" THEN "items" ELSE path
           where == PathFor(t, {"POST"}, base)
           target == PathFor(t, {"DELETE"}, where)
           undo(save) == Ask("DELETE", target, At(target, {save}), "none")
           semantic == q.intent \in {"count_consistent", "summary_is_consistent",
                                     "search_filters_results"}
           c == Ask(Method(endpoint), path, {}, "response")
           d == Expect("expect_status", {"response"})
           e == Expect("expect_relation", {"response"})
           setup == <<>>
           steps == <<c, d, e>>
           cleanup == <<>>
           J == {j \in DOMAIN steps :
                    IsAssertion(steps[j]) /\ (semantic => steps[j].act # "expect_status")}
<1>1. ByEndpoint(t, q, endpoint) = Execution(setup, steps, cleanup, {Len(setup) + j : j \in J})
  <2> DEFINE first == IF search THEN <<Ask("POST", where, {}, "setup"), Ask("POST", where, {}, "secondary")>>
                      ELSE <<>>
             some == IF q.intent = "count_consistent"
                     THEN <<Ask("GET", Collection(t), {}, "list")>> ELSE <<>>
             more == CASE q.intent = "count_consistent" ->
                            <<Expect("expect_relation", {"response", "list"})>>
                       [] q.intent = "summary_is_consistent" -> <<Expect("expect_relation", {"response"})>>
                       [] search -> <<Expect("expect_collection", {"response"})>>
                       [] q.intent = "cors_allows_operation" -> <<Expect("expect_header", {"response"})>>
                       [] OTHER -> <<>>
             last == IF search THEN <<undo("setup"), undo("secondary")>> ELSE <<>>
             concat == <<c>> \o some \o <<d>> \o more
  <2>1. ByEndpoint(t, q, endpoint)
          = Execution(first, concat, last,
              {Len(first) + i : i \in {j \in DOMAIN concat :
                 IsAssertion(concat[j]) /\ (semantic => concat[j].act # "expect_status")}})
    BY DEF ByEndpoint
  <2>2. first = setup /\ last = cleanup
    OBVIOUS
  <2>3. concat = steps
    <3>1. some = <<>>  OBVIOUS
    <3>2. more = <<e>>  OBVIOUS
    <3> HIDE DEF c, d, some, more, e
    <3>3. <<c>> \o <<>> = <<c>>  BY SpliceNone
    <3>4. <<c>> \o <<d>> = <<c, d>>  BY Splice11
    <3>5. <<c, d>> \o <<e>> = steps  BY Splice21
    <3> QED BY <3>1, <3>2, <3>3, <3>4, <3>5
  <2> HIDE DEF concat, steps, first, last, setup, cleanup, semantic
  <2> QED BY <2>1, <2>2, <2>3
<1>2. c.save = "response" /\ Reads(c) = {} /\ Owes(c) \subseteq {} /\ Fine(c, {"none"}, aimed)
  BY DEF Ask, Step, Reads, Owes, Fine
<1>3. Reads(d) = {"response"} /\ Quiet(d, {"none"}) /\ IsAssertion(d)
  BY DEF Expect, Step, Reads, Owes, Fine, Quiet, IsAssertion
<1>4. Reads(e) = {"response"} /\ Quiet(e, {"none"}) /\ IsAssertion(e) /\ e.act # "expect_status"
  BY DEF Expect, Step, Reads, Owes, Fine, Quiet, IsAssertion
<1> HIDE DEF c, d, e
<1>5. Runs(setup, {"none"}, aimed, {}, {}, {}, {})  BY RunsNone
<1>6. Runs(steps, {"none"}, aimed, {}, {}, {}, {})
  <2>1. steps \in Seq({c, d, e}) /\ DOMAIN steps = 1..3 /\ Len(steps) = 3
    OBVIOUS
  <2>2. \A i \in 1..4 :
          /\ 1 < i => steps[1].save \in Saved(steps, i - 1)
    <3> HIDE DEF steps
    <3> QED BY SavedAt
  <2>3. \A i \in 1..4 :
          /\ 1 < i => "response" \in Saved(steps, i - 1)
    BY <2>2, <1>2
  <2>4. \A i \in 1..3 : /\ Fine(steps[i], {"none"}, aimed)
                       /\ Reads(steps[i]) \subseteq {} \cup Saved(steps, i - 1)
                       /\ Owes(steps[i]) \subseteq {} \cup Made(steps, i - 1)
    BY <1>2, <1>3, <1>4, <2>3 DEF Quiet
  <2> HIDE DEF steps
  <2>5. {} \subseteq {} \cup Saved(steps, Len(steps)) /\ {} \subseteq {} \cup Made(steps, Len(steps))
    BY <2>1, <2>3
  <2> QED BY <2>1, <2>4, <2>5, RunsIf
<1>7. Runs(cleanup, {"none"}, aimed, {}, {}, {}, {})  BY RunsNone
<1>8. J # {} /\ J \subseteq DOMAIN steps /\ \A j \in J : IsAssertion(steps[j])
  BY <1>4
<1> HIDE DEF setup, steps, cleanup, J
<1> QED BY <1>1, <1>5, <1>6, <1>7, <1>8, SoundIf

LEMMA EndpointCors ==
  ASSUME NEW t, NEW q, NEW endpoint, NEW aimed,
         aimed => WithMethod(t, {"DELETE"}) = "delete" /\ Method(endpoint) # "DELETE",
         q.intent = "cors_allows_operation"
  PROVE  Sound(ByEndpoint(t, q, endpoint), {"none"}, aimed)
<1> DEFINE path == PathOf(t, endpoint)
           search == q.intent = "search_filters_results"
           base == IF path = "query" THEN "items" ELSE path
           where == PathFor(t, {"POST"}, base)
           target == PathFor(t, {"DELETE"}, where)
           undo(save) == Ask("DELETE", target, At(target, {save}), "none")
           semantic == q.intent \in {"count_consistent", "summary_is_consistent",
                                     "search_filters_results"}
           c == Ask(Method(endpoint), path, {}, "response")
           d == Expect("expect_status", {"response"})
           e == Expect("expect_header", {"response"})
           setup == <<>>
           steps == <<c, d, e>>
           cleanup == <<>>
           J == {j \in DOMAIN steps :
                    IsAssertion(steps[j]) /\ (semantic => steps[j].act # "expect_status")}
<1>1. ByEndpoint(t, q, endpoint) = Execution(setup, steps, cleanup, {Len(setup) + j : j \in J})
  <2> DEFINE first == IF search THEN <<Ask("POST", where, {}, "setup"), Ask("POST", where, {}, "secondary")>>
                      ELSE <<>>
             some == IF q.intent = "count_consistent"
                     THEN <<Ask("GET", Collection(t), {}, "list")>> ELSE <<>>
             more == CASE q.intent = "count_consistent" ->
                            <<Expect("expect_relation", {"response", "list"})>>
                       [] q.intent = "summary_is_consistent" -> <<Expect("expect_relation", {"response"})>>
                       [] search -> <<Expect("expect_collection", {"response"})>>
                       [] q.intent = "cors_allows_operation" -> <<Expect("expect_header", {"response"})>>
                       [] OTHER -> <<>>
             last == IF search THEN <<undo("setup"), undo("secondary")>> ELSE <<>>
             concat == <<c>> \o some \o <<d>> \o more
  <2>1. ByEndpoint(t, q, endpoint)
          = Execution(first, concat, last,
              {Len(first) + i : i \in {j \in DOMAIN concat :
                 IsAssertion(concat[j]) /\ (semantic => concat[j].act # "expect_status")}})
    BY DEF ByEndpoint
  <2>2. first = setup /\ last = cleanup
    OBVIOUS
  <2>3. concat = steps
    <3>1. some = <<>>  OBVIOUS
    <3>2. more = <<e>>  OBVIOUS
    <3> HIDE DEF c, d, some, more, e
    <3>3. <<c>> \o <<>> = <<c>>  BY SpliceNone
    <3>4. <<c>> \o <<d>> = <<c, d>>  BY Splice11
    <3>5. <<c, d>> \o <<e>> = steps  BY Splice21
    <3> QED BY <3>1, <3>2, <3>3, <3>4, <3>5
  <2> HIDE DEF concat, steps, first, last, setup, cleanup, semantic
  <2> QED BY <2>1, <2>2, <2>3
<1>2. c.save = "response" /\ Reads(c) = {} /\ Owes(c) \subseteq {} /\ Fine(c, {"none"}, aimed)
  BY DEF Ask, Step, Reads, Owes, Fine
<1>3. Reads(d) = {"response"} /\ Quiet(d, {"none"}) /\ IsAssertion(d)
  BY DEF Expect, Step, Reads, Owes, Fine, Quiet, IsAssertion
<1>4. Reads(e) = {"response"} /\ Quiet(e, {"none"}) /\ IsAssertion(e) /\ e.act # "expect_status"
  BY DEF Expect, Step, Reads, Owes, Fine, Quiet, IsAssertion
<1> HIDE DEF c, d, e
<1>5. Runs(setup, {"none"}, aimed, {}, {}, {}, {})  BY RunsNone
<1>6. Runs(steps, {"none"}, aimed, {}, {}, {}, {})
  <2>1. steps \in Seq({c, d, e}) /\ DOMAIN steps = 1..3 /\ Len(steps) = 3
    OBVIOUS
  <2>2. \A i \in 1..4 :
          /\ 1 < i => steps[1].save \in Saved(steps, i - 1)
    <3> HIDE DEF steps
    <3> QED BY SavedAt
  <2>3. \A i \in 1..4 :
          /\ 1 < i => "response" \in Saved(steps, i - 1)
    BY <2>2, <1>2
  <2>4. \A i \in 1..3 : /\ Fine(steps[i], {"none"}, aimed)
                       /\ Reads(steps[i]) \subseteq {} \cup Saved(steps, i - 1)
                       /\ Owes(steps[i]) \subseteq {} \cup Made(steps, i - 1)
    BY <1>2, <1>3, <1>4, <2>3 DEF Quiet
  <2> HIDE DEF steps
  <2>5. {} \subseteq {} \cup Saved(steps, Len(steps)) /\ {} \subseteq {} \cup Made(steps, Len(steps))
    BY <2>1, <2>3
  <2> QED BY <2>1, <2>4, <2>5, RunsIf
<1>7. Runs(cleanup, {"none"}, aimed, {}, {}, {}, {})  BY RunsNone
<1>8. J # {} /\ J \subseteq DOMAIN steps /\ \A j \in J : IsAssertion(steps[j])
  BY <1>4
<1> HIDE DEF setup, steps, cleanup, J
<1> QED BY <1>1, <1>5, <1>6, <1>7, <1>8, SoundIf

LEMMA EndpointOther ==
  ASSUME NEW t, NEW q, NEW endpoint, NEW aimed,
         aimed => WithMethod(t, {"DELETE"}) = "delete" /\ Method(endpoint) # "DELETE",
         q.intent \notin {"search_filters_results", "count_consistent", "summary_is_consistent",
                       "cors_allows_operation"}
  PROVE  Sound(ByEndpoint(t, q, endpoint), {"none"}, aimed)
<1> DEFINE path == PathOf(t, endpoint)
           search == q.intent = "search_filters_results"
           base == IF path = "query" THEN "items" ELSE path
           where == PathFor(t, {"POST"}, base)
           target == PathFor(t, {"DELETE"}, where)
           undo(save) == Ask("DELETE", target, At(target, {save}), "none")
           semantic == q.intent \in {"count_consistent", "summary_is_consistent",
                                     "search_filters_results"}
           c == Ask(Method(endpoint), path, {}, "response")
           d == Expect("expect_status", {"response"})
           setup == <<>>
           steps == <<c, d>>
           cleanup == <<>>
           J == {j \in DOMAIN steps :
                    IsAssertion(steps[j]) /\ (semantic => steps[j].act # "expect_status")}
<1>1. ByEndpoint(t, q, endpoint) = Execution(setup, steps, cleanup, {Len(setup) + j : j \in J})
  <2> DEFINE first == IF search THEN <<Ask("POST", where, {}, "setup"), Ask("POST", where, {}, "secondary")>>
                      ELSE <<>>
             some == IF q.intent = "count_consistent"
                     THEN <<Ask("GET", Collection(t), {}, "list")>> ELSE <<>>
             more == CASE q.intent = "count_consistent" ->
                            <<Expect("expect_relation", {"response", "list"})>>
                       [] q.intent = "summary_is_consistent" -> <<Expect("expect_relation", {"response"})>>
                       [] search -> <<Expect("expect_collection", {"response"})>>
                       [] q.intent = "cors_allows_operation" -> <<Expect("expect_header", {"response"})>>
                       [] OTHER -> <<>>
             last == IF search THEN <<undo("setup"), undo("secondary")>> ELSE <<>>
             concat == <<c>> \o some \o <<d>> \o more
  <2>1. ByEndpoint(t, q, endpoint)
          = Execution(first, concat, last,
              {Len(first) + i : i \in {j \in DOMAIN concat :
                 IsAssertion(concat[j]) /\ (semantic => concat[j].act # "expect_status")}})
    BY DEF ByEndpoint
  <2>2. first = setup /\ last = cleanup
    OBVIOUS
  <2>3. concat = steps
    <3>1. some = <<>>  OBVIOUS
    <3>2. more = <<>>  OBVIOUS
    <3> HIDE DEF c, d, some, more
    <3>3. <<c>> \o <<>> = <<c>>  BY SpliceNone
    <3>4. <<c>> \o <<d>> = <<c, d>>  BY Splice11
    <3>5. <<c, d>> \o <<>> = steps  BY SpliceNone
    <3> QED BY <3>1, <3>2, <3>3, <3>4, <3>5
  <2> HIDE DEF concat, steps, first, last, setup, cleanup, semantic
  <2> QED BY <2>1, <2>2, <2>3
<1>2. c.save = "response" /\ Reads(c) = {} /\ Owes(c) \subseteq {} /\ Fine(c, {"none"}, aimed)
  BY DEF Ask, Step, Reads, Owes, Fine
<1>3. Reads(d) = {"response"} /\ Quiet(d, {"none"}) /\ IsAssertion(d)
  BY DEF Expect, Step, Reads, Owes, Fine, Quiet, IsAssertion
<1> HIDE DEF c, d
<1>4. Runs(setup, {"none"}, aimed, {}, {}, {}, {})  BY RunsNone
<1>5. Runs(steps, {"none"}, aimed, {}, {}, {}, {})
  <2>1. steps \in Seq({c, d}) /\ DOMAIN steps = 1..2 /\ Len(steps) = 2
    OBVIOUS
  <2>2. \A i \in 1..3 :
          /\ 1 < i => steps[1].save \in Saved(steps, i - 1)
    <3> HIDE DEF steps
    <3> QED BY SavedAt
  <2>3. \A i \in 1..3 :
          /\ 1 < i => "response" \in Saved(steps, i - 1)
    BY <2>2, <1>2
  <2>4. \A i \in 1..2 : /\ Fine(steps[i], {"none"}, aimed)
                       /\ Reads(steps[i]) \subseteq {} \cup Saved(steps, i - 1)
                       /\ Owes(steps[i]) \subseteq {} \cup Made(steps, i - 1)
    BY <1>2, <1>3, <2>3 DEF Quiet
  <2> HIDE DEF steps
  <2>5. {} \subseteq {} \cup Saved(steps, Len(steps)) /\ {} \subseteq {} \cup Made(steps, Len(steps))
    BY <2>1, <2>3
  <2> QED BY <2>1, <2>4, <2>5, RunsIf
<1>6. Runs(cleanup, {"none"}, aimed, {}, {}, {}, {})  BY RunsNone
<1>7. J # {} /\ J \subseteq DOMAIN steps /\ \A j \in J : IsAssertion(steps[j])
  BY <1>3
<1> HIDE DEF setup, steps, cleanup, J
<1> QED BY <1>1, <1>4, <1>5, <1>6, <1>7, SoundIf

--------------------------------------------------------------------------------
(***************************************************************************)
(* Every case is sound; whether its removals name what they remove depends *)
(* on the request of the catalog.                                          *)
(***************************************************************************)
Css(q) == IF q.intent \in UiIntents THEN InPage ELSE {"none"}

\* The intents whose execution takes its requests from the target.
Direct == UiIntents \cup {"route_detail", "create_succeeds", "update_persists",
                          "delete_removes_entity"}

LEMMA UiSound ==
  ASSUME NEW t, NEW intent \in UiIntents, NEW aimed
  PROVE  Sound(UiBehavior(t, intent), InPage, aimed)
<1>1. intent \in {"ui_count_consistent", "ui_search_filters", "ui_status_consistent",
                  "ui_create_refreshes", "ui_toggle_refreshes", "ui_delete_removes"}
  BY DEF UiIntents
<1>2. CASE intent = "ui_status_consistent"
  BY <1>2, UiStates, UiNoStates
<1> QED BY <1>1, <1>2, UiCount, UiSearch, UiCreate, UiToggle, UiDelete

LEMMA CrudSound ==
  ASSUME NEW t, NEW intent \in {"create_succeeds", "update_persists", "delete_removes_entity"},
         NEW aimed, aimed => WithMethod(t, {"DELETE"}) = "delete"
  PROVE  Sound(RuntimeCrud(t, intent), {"none"}, aimed)
<1>1. CASE intent = "create_succeeds"  BY <1>1, CrudCreates
<1>2. CASE intent = "update_persists"  BY <1>2, CrudUpdatesOwn, CrudUpdatesSeed
<1>3. CASE intent = "delete_removes_entity"  BY <1>3, CrudDeletes
<1> QED BY <1>1, <1>2, <1>3

LEMMA DetailSound ==
  ASSUME NEW t, NEW aimed, aimed => WithMethod(t, {"DELETE"}) = "delete"
  PROVE  Sound(DetailConsistency(t), {"none"}, aimed)
BY DetailOwn, DetailLeft, DetailListed

LEMMA EndpointSound ==
  ASSUME NEW t, NEW q, NEW endpoint, NEW aimed,
         aimed => WithMethod(t, {"DELETE"}) = "delete" /\ Method(endpoint) # "DELETE"
  PROVE  Sound(ByEndpoint(t, q, endpoint), {"none"}, aimed)
BY EndpointSearch, EndpointCount, EndpointSummary, EndpointCors, EndpointOther

LEMMA BuildSound ==
  ASSUME NEW t, NEW q, NEW endpoint, NEW aimed,
         aimed => /\ WithMethod(t, {"DELETE"}) = "delete"
                  /\ q.intent \notin Direct => Method(endpoint) # "DELETE"
  PROVE  Sound(Build(t, q, endpoint), Css(q), aimed)
<1>1. CASE q.intent \in UiIntents
  <2>0. q.intent \notin {"route_detail", "create_succeeds", "update_persists",
                       "delete_removes_entity"}
    BY <1>1 DEF UiIntents
  <2>1. Build(t, q, endpoint) = UiBehavior(t, q.intent) /\ Css(q) = InPage
    BY <1>1, <2>0 DEF Build, Css
  <2> QED BY <1>1, <2>1, UiSound
<1>2. CASE q.intent = "route_detail"
  <2>1. q.intent \notin UiIntents  BY <1>2 DEF UiIntents
  <2>2. Build(t, q, endpoint) = DetailConsistency(t) /\ Css(q) = {"none"}
    BY <1>2, <2>1 DEF Build, Css
  <2> QED BY <2>2, DetailSound
<1>3. CASE q.intent \in {"create_succeeds", "update_persists", "delete_removes_entity"}
  <2>1. q.intent \notin UiIntents /\ q.intent # "route_detail"  BY <1>3 DEF UiIntents
  <2>2. Build(t, q, endpoint) = RuntimeCrud(t, q.intent) /\ Css(q) = {"none"}
    BY <1>3, <2>1 DEF Build, Css
  <2> QED BY <1>3, <2>2, CrudSound
<1>4. CASE q.intent \notin Direct
  <2>0. /\ q.intent \notin UiIntents /\ q.intent # "route_detail"
        /\ q.intent \notin {"create_succeeds", "update_persists", "delete_removes_entity"}
    BY <1>4 DEF Direct
  <2>1. Build(t, q, endpoint) = ByEndpoint(t, q, endpoint) /\ Css(q) = {"none"}
    BY <2>0 DEF Build, Css
  <2> QED BY <1>4, <2>1, EndpointSound
<1> QED BY <1>1, <1>2, <1>3, <1>4 DEF Direct

EndpointOf(t, q) == IF q.op = "none" THEN "none" ELSE Endpoint(t, q)

LEMMA FactIs ==
  ASSUME NEW t, Target(t), NEW wanted, NEW op \in ToSet(t.ops), op \in wanted
  PROVE  First(t.facts, wanted) \in wanted /\ First(t.facts, wanted) \in ToSet(t.ops)
         /\ First(t.facts, wanted) # "none"
<1>1. t.facts \in Seq(Operations) /\ op \in ToSet(t.facts)  BY DEF Target
<1>2. \/ First(t.facts, wanted) \in wanted /\ First(t.facts, wanted) \in ToSet(t.facts)
      \/ First(t.facts, wanted) = "none" /\ wanted \cap ToSet(t.facts) = {}
  BY <1>1, FirstIs
<1>3. First(t.facts, wanted) \in wanted /\ First(t.facts, wanted) \in ToSet(t.ops)
  BY <1>1, <1>2 DEF Target
<1>4. "none" \notin Operations  BY DEF Operations
<1> QED BY <1>3, <1>4, OpsAre

LEMMA MethodsAre ==
  ASSUME NEW op \in Operations
  PROVE  /\ Method(op) = "POST" => op = "create"
         /\ Method(op) = "PATCH" => op = "update"
         /\ op \in {"list", "export", "detail", "search", "summary", "count"} => Method(op) = "GET"
         /\ op = "cors" => Method(op) = "OPTIONS"
         /\ op = "create" => Method(op) = "POST"
         /\ op = "update" => Method(op) = "PATCH"
BY DEF Operations, Method

LEMMA EndpointAims ==
  ASSUME NEW t, Target(t), NEW q, About(t, q), q.intent \notin Direct, ~Misdirected(t)
  PROVE  Method(EndpointOf(t, q)) # "DELETE"
<1> DEFINE Got(wanted) == First(t.facts, wanted \cap Related(q))
           gets == {op \in Operations : Method(op) = "GET"}
<1>1. CASE q.op = "none"
  BY <1>1 DEF EndpointOf, Method
<1>2. CASE OfOperation(t, q)
  <2>1. q.op \in ToSet(t.ops) /\ q.op \in Operations /\ q.intent \in OpIntents(q.op)
    BY <1>2, OpsAre DEF OfOperation
  <2>2. Related(q) = Operations
    <3>1. q.intent \notin FieldIntents  BY <2>1, OpIntentsAre
    <3> QED BY <3>1 DEF Related, FieldIntents
  <2>3. \A wanted : q.op \in wanted => /\ Got(wanted) \in wanted /\ Got(wanted) # "none"
                                      /\ Got(wanted) \in Operations
    <3> SUFFICES ASSUME NEW wanted, q.op \in wanted
                 PROVE  Got(wanted) \in wanted /\ Got(wanted) # "none" /\ Got(wanted) \in Operations
      OBVIOUS
    <3>1. q.op \in wanted \cap Related(q)  BY <2>1, <2>2
    <3>2. Got(wanted) \in wanted \cap Related(q) /\ Got(wanted) # "none"  BY <2>1, <3>1, FactIs
    <3> QED BY <3>2, <2>2
  <2>4. EndpointOf(t, q) = Endpoint(t, q)
    <3>1. q.op # "none"  BY <2>1 DEF Operations
    <3> QED BY <3>1 DEF EndpointOf
  <2>5. CASE q.op \in {"search", "summary", "cors", "count"} /\ q.intent # "route_loads"
    <3>1. \/ q.op = "search" /\ q.intent = "search_filters_results"
          \/ q.op = "summary" /\ q.intent = "summary_is_consistent"
          \/ q.op = "cors" /\ q.intent = "cors_allows_operation"
          \/ q.op = "count" /\ q.intent = "count_consistent"
      BY <2>1, <2>5 DEF OpIntents
    <3>2. Got({q.op}) = q.op /\ q.op # "none"
      <4> DEFINE sole == {q.op}
      <4>1. q.op \in sole  OBVIOUS
      <4> HIDE DEF sole, Got
      <4>2. Got(sole) \in sole /\ Got(sole) # "none"  BY <4>1, <2>3
      <4> QED BY <4>2 DEF sole
    <3> HIDE DEF Got
    <3>3. Endpoint(t, q) = q.op
      <4>1. CASE q.op = "search"
        <5>0. q.op \in {"search"}  BY <4>1
        <5>1. q.intent = "search_filters_results" /\ Got({"search"}) = "search"
          BY <2>3, <3>1, <4>1, <5>0
        <5>2. Got({"search"}) # "none"  BY <5>1
        <5> QED BY <4>1, <5>1, <5>2 DEF Endpoint, Got
      <4>2. CASE q.op = "summary"  BY <3>1, <3>2, <4>2 DEF Endpoint, Got
      <4>3. CASE q.op = "cors"  BY <3>1, <3>2, <4>3 DEF Endpoint, Got
      <4>4. CASE q.op = "count"  BY <3>1, <3>2, <4>4 DEF Endpoint, Got
      <4> QED BY <3>1, <4>1, <4>2, <4>3, <4>4
    <3> QED BY <2>1, <2>4, <2>5, <3>3, MethodsAre
  <2>6. CASE q.intent = "not_found_semantics"
    <3>1. q.op = "detail"  BY <2>1, <2>6 DEF OpIntents, Operations
    <3> DEFINE items == {op \in gets : PathOf(t, op) = "item"}
    <3>2. q.op \in items  BY <2>1, <3>1, MethodsAre DEF PathOf
    <3>3. Got(items) \in items /\ Got(items) # "none"  BY <2>3, <3>2
    <3>4. Endpoint(t, q) = Got(items)  BY <2>6, <3>3 DEF Endpoint
    <3>5. Method(Got(items)) = "GET"  BY <3>3
    <3> QED BY <2>4, <3>4, <3>5
  <2>7. CASE q.intent = "route_loads"
    <3>1. q.op \in {"list", "export", "count"}  BY <2>1, <2>7 DEF OpIntents, Operations
    <3>2. q.op \in gets  BY <2>1, <3>1, MethodsAre
    <3>3. Got(gets) \in gets /\ Got(gets) # "none"  BY <2>3, <3>2
    <3>4. Endpoint(t, q) = Got(gets)  BY <2>7, <3>3 DEF Endpoint
    <3>5. Method(Got(gets)) = "GET"  BY <3>3
    <3> QED BY <2>4, <3>4, <3>5
  <2>8. \/ q.op \in {"search", "summary", "cors", "count"} /\ q.intent # "route_loads"
        \/ q.intent = "not_found_semantics" \/ q.intent = "route_loads"
    BY <2>1 DEF OpIntents, Operations, Direct
  <2> QED BY <2>5, <2>6, <2>7, <2>8
<1>3. CASE OfField(t, q) /\ q.op # "none"
  <2>1. PICK f \in t.fields :
          /\ q.op = Mutation(t) /\ q.intent \in FieldIntents
          /\ q.intent = "required_field_rejected" <=> f[2] = "required"
          /\ q.intent = "enum_validation" <=> f[2] = "enum"
    BY <1>3 DEF OfField
  <2>2. Related(q) = {q.op}  BY <2>1 DEF Related, FieldIntents
  <2>3. EndpointOf(t, q) = Endpoint(t, q)  BY <1>3 DEF EndpointOf
  <2>4. q.op \in ToSet(t.ops) /\ q.op \in Operations
        /\ \/ WithMethod(t, {"POST"}) # "none" /\ q.op = "create"
           \/ /\ WithMethod(t, {"POST"}) = "none" /\ WithMethod(t, {"PATCH"}) # "none"
              /\ q.op = "update"
    <3>1. CASE WithMethod(t, {"POST"}) # "none"
      <4>1. q.op = WithMethod(t, {"POST"})  BY <2>1, <3>1 DEF Mutation
      <4>2. q.op \in ToSet(t.ops) /\ Method(q.op) = "POST"  BY <1>3, <4>1, WithMethodIs
      <4> QED BY <3>1, <4>2, OpsAre, MethodsAre
    <3>2. CASE WithMethod(t, {"POST"}) = "none"
      <4>1. q.op = WithMethod(t, {"PATCH"})  BY <2>1, <3>2 DEF Mutation
      <4>2. q.op \in ToSet(t.ops) /\ Method(q.op) = "PATCH"  BY <1>3, <4>1, WithMethodIs
      <4> QED BY <1>3, <3>2, <4>1, <4>2, OpsAre, MethodsAre
    <3> QED BY <3>1, <3>2
  <2>5. \A wanted : Got(wanted) = (IF q.op \in wanted THEN q.op ELSE "none")
    <3> SUFFICES ASSUME NEW wanted PROVE Got(wanted) = (IF q.op \in wanted THEN q.op ELSE "none")
      OBVIOUS
    <3>1. t.facts \in Seq(Operations)  BY DEF Target
    <3>2. CASE q.op \in wanted
      <4>1. q.op \in wanted \cap Related(q)  BY <2>2, <3>2
      <4>2. Got(wanted) \in wanted \cap Related(q)  BY <2>4, <4>1, FactIs
      <4> QED BY <2>2, <3>2, <4>2
    <3>3. CASE q.op \notin wanted
      <4>1. wanted \cap Related(q) = {}  BY <2>2, <3>3
      <4>2. Got(wanted) = "none"  BY <3>1, <4>1, FirstIs
      <4> QED BY <3>3, <4>2
    <3> QED BY <3>2, <3>3
  <2>6. CASE q.intent \in {"required_field_rejected", "enum_validation"}
    <3>1. f[2] \in {"required", "enum"}  BY <2>1, <2>6
    <3>2. CASE q.op = "create"
      <4>1. Got({"create"}) = "create"  BY <2>5, <3>2
      <4>2. Endpoint(t, q) = "create"  BY <2>6, <4>1 DEF Endpoint
      <4> QED BY <2>3, <4>2 DEF Method
    <3>3. CASE q.op = "update"
      <4>1. Got({"create"}) = "none"  BY <2>5, <3>3
      <4>2. Endpoint(t, q) = First(t.facts, Operations)  BY <2>6, <4>1 DEF Endpoint
      <4>3. Method(First(t.facts, Operations)) # "DELETE"  BY <2>4, <3>1, <3>3 DEF Misdirected
      <4> QED BY <2>3, <4>2, <4>3
    <3> QED BY <2>4, <3>2, <3>3
  <2>7. CASE q.intent = "boundary_rejected"
    <3>1. Method(q.op) \in {"POST", "PATCH"}  BY <2>4, MethodsAre
    <3>2. Got(gets) = "none"  BY <2>5, <3>1
    <3>3. Got(Operations) = q.op  BY <2>4, <2>5
    <3>4. Endpoint(t, q) = q.op  BY <1>3, <2>7, <3>2, <3>3 DEF Endpoint
    <3> QED BY <2>3, <3>1, <3>4
  <2> QED BY <2>1, <2>6, <2>7 DEF FieldIntents
<1>4. OfNoOperation(q) => q.op = "none"  BY DEF OfNoOperation
<1> QED BY <1>1, <1>2, <1>3, <1>4 DEF About

--------------------------------------------------------------------------------
(***************************************************************************)
(* The cases of a plan. What the catalog says of a requirement that has an *)
(* entry of its own is what was derived for it; so the compiled cases are  *)
(* those of the requirements that are to be tested.                        *)
(***************************************************************************)
LEMMA CaseIs ==
  ASSUME NEW t, NEW q, NEW endpoint, NEW aimed,
         aimed => /\ WithMethod(t, {"DELETE"}) = "delete"
                  /\ q.intent \notin Direct => Method(endpoint) # "DELETE",
         NEW c, c = Case(t, q, endpoint)
  PROVE  /\ c.id = q.id /\ c.refs = {q.id} /\ c.bound = {q.id} /\ c.tier = TierOf(q)
         /\ t.naming = "plain" => ~c.dotted
         /\ c.steps # <<>>
         /\ \A i \in c.oracles : i \in DOMAIN AllSteps(c) /\ IsAssertion(AllSteps(c)[i])
         /\ Runs(AllSteps(c), Css(q), aimed, {}, {}, {}, {})
<1> DEFINE x == Build(t, q, endpoint)
<1>1. Sound(x, Css(q), aimed)  BY BuildSound
<1>2. /\ c.id = q.id /\ c.refs = {q.id} /\ c.tier = TierOf(q) /\ c.oracles = x.bound
      /\ c.bound = (IF x.bound = {} THEN {} ELSE {q.id})
      /\ c.setup = x.setup /\ c.steps = x.steps /\ c.cleanup = x.cleanup
      /\ t.naming = "plain" => ~c.dotted
  BY DEF Case
<1> HIDE DEF x
<1>3. AllSteps(c) = AllSteps(x)  BY <1>2 DEF AllSteps
<1> QED BY <1>1, <1>2, <1>3 DEF Sound

\* What a catalog and the selections of the planner must agree on.
Faithful(catalog, out) ==
  /\ \A y \in out : y.case \in DOMAIN catalog
                     /\ (y.case # Cut => catalog[y.case].status = "REQUIRED")
  /\ \A id \in DOMAIN catalog :
       id # Cut /\ catalog[id].status = "REQUIRED" => \E y \in out : y.case = id

\* R is what is derived for a target.
Derived(t, R) ==
  /\ Target(t) /\ \A q \in R : About(t, q)
  /\ \A q, r \in R : q.id = r.id => q = r

LEMMA DeriveIs ==
  ASSUME NEW t, Target(t), NEW tier, NEW destructive, NEW diff
  PROVE  Derived(t, Derive(t, tier, destructive, diff))
BY DerivedAre, DerivedDiffer DEF Derived

LEMMA CatalogIs ==
  ASSUME NEW t, NEW R, Derived(t, R), NEW cat, cat = Catalog(t, R)
  PROVE  /\ DOMAIN cat = {CaseId(t, q) : q \in R}
         /\ \A q \in R : q.id \in DOMAIN cat =>
              /\ CaseId(t, q) = q.id
              /\ cat[q.id].status = q.status
              /\ cat[q.id].endpoint = EndpointOf(t, q)
<1> DEFINE One(id) == CHOOSE r \in R : CaseId(t, r) = id
<1>1. /\ DOMAIN cat = {CaseId(t, q) : q \in R}
      /\ \A id \in {CaseId(t, q) : q \in R} :
           /\ cat[id].status = One(id).status
           /\ cat[id].endpoint = EndpointOf(t, One(id))
  BY DEF Catalog, EndpointOf
<1>2. ASSUME NEW q \in R, q.id \in DOMAIN cat
      PROVE  /\ CaseId(t, q) = q.id /\ cat[q.id].status = q.status
             /\ cat[q.id].endpoint = EndpointOf(t, q)
  <2>1. q.id # Cut /\ \A r \in R : CaseId(t, r) \in {Cut, r.id}
    BY IdIsNotCut DEF Derived, CaseId
  <2>2. \E r \in R : CaseId(t, r) = q.id  BY <1>1, <1>2
  <2>3. One(q.id) \in R /\ CaseId(t, One(q.id)) = q.id  BY <2>2
  <2> HIDE DEF One
  <2>4. One(q.id) = q  BY <2>1, <2>3 DEF Derived
  <2> QED BY <1>1, <1>2, <2>3, <2>4
<1> QED BY <1>1, <1>2

LEMMA FillIsFaithful ==
  ASSUME NEW t, NEW R, Derived(t, R), NEW cat, cat = Catalog(t, R)
  PROVE  Faithful(cat, Fill(t, R))
<1> DEFINE out == Fill(t, R)
<1>0. /\ DOMAIN cat = {CaseId(t, q) : q \in R}
      /\ \A q \in R : q.id \in DOMAIN cat =>
           CaseId(t, q) = q.id /\ cat[q.id].status = q.status
             /\ cat[q.id].endpoint = EndpointOf(t, q)
  BY CatalogIs
<1>1. \A r \in R : CaseId(t, r) \in {Cut, r.id}  BY DEF CaseId
<1>2. ASSUME NEW y \in out
      PROVE  y.case \in DOMAIN cat /\ (y.case # Cut => cat[y.case].status = "REQUIRED")
  <2>1. PICK q \in R : q.status = "REQUIRED" /\ y.case = CaseId(t, q)  BY DEF Fill
  <2>2. y.case \in DOMAIN cat  BY <2>1, <1>0
  <2>3. ASSUME y.case # Cut PROVE cat[y.case].status = "REQUIRED"
    <3>1. y.case = q.id  BY <2>1, <2>3, <1>1
    <3> QED BY <2>1, <2>2, <3>1, <1>0
  <2> QED BY <2>2, <2>3
<1>3. ASSUME NEW id \in DOMAIN cat, id # Cut, cat[id].status = "REQUIRED"
      PROVE  \E y \in out : y.case = id
  <2>1. PICK q \in R : CaseId(t, q) = id  BY <1>0
  <2>2. id = q.id  BY <2>1, <1>1, <1>3
  <2>3. q.status = "REQUIRED"  BY <2>2, <1>3, <1>0
  <2>4. [case |-> CaseId(t, q), made |-> q.id] \in out  BY <2>3 DEF Fill
  <2> QED BY <2>1, <2>4
<1> QED BY <1>2, <1>3 DEF Faithful

\* The requirements that have a case: those to be tested whose id is not cut.
Covered(t, R) == {q \in R : q.status = "REQUIRED" /\ CaseId(t, q) = q.id}
Expected(t, R) == {Case(t, q, EndpointOf(t, q)) : q \in Covered(t, R)}

LEMMA CompiledIs ==
  ASSUME NEW t, NEW R, Derived(t, R), NEW cat, cat = Catalog(t, R),
         NEW out, Faithful(cat, out)
  PROVE  CompiledCases(t, R, cat, out) = Expected(t, R)
<1>0. /\ DOMAIN cat = {CaseId(t, q) : q \in R}
      /\ \A q \in R : q.id \in DOMAIN cat =>
           CaseId(t, q) = q.id /\ cat[q.id].status = q.status
             /\ cat[q.id].endpoint = EndpointOf(t, q)
  BY CatalogIs
<1>7. Faithful(cat, out)  OBVIOUS
<1>1. \A q \in R : q.id # Cut  BY IdIsNotCut DEF Derived
<1>2. \A q \in R : (\E y \in out : y.case = q.id) <=> q \in Covered(t, R)
  <2> SUFFICES ASSUME NEW q \in R PROVE (\E y \in out : y.case = q.id) <=> q \in Covered(t, R)
    OBVIOUS
  <2>1. ASSUME NEW y \in out, y.case = q.id PROVE q \in Covered(t, R)
    <3>1. q.id \in DOMAIN cat /\ cat[q.id].status = "REQUIRED"  BY <1>1, <1>7, <2>1 DEF Faithful
    <3> QED BY <3>1, <1>0 DEF Covered
  <2>2. ASSUME q \in Covered(t, R) PROVE \E y \in out : y.case = q.id
    <3>1. q.id \in DOMAIN cat  BY <2>2, <1>0 DEF Covered
    <3>2. cat[q.id].status = "REQUIRED"  BY <2>2, <3>1, <1>0 DEF Covered
    <3> QED BY <1>1, <1>7, <3>1, <3>2 DEF Faithful
  <2> QED BY <2>1, <2>2
<1>3. \A q \in Covered(t, R) : cat[q.id].endpoint = EndpointOf(t, q)
  BY <1>0 DEF Covered
<1>4. {r \in R : \E y \in out : y.case = r.id} = Covered(t, R)
  BY <1>2 DEF Covered
<1>5. CompiledCases(t, R, cat, out) = {Case(t, q, cat[q.id].endpoint) : q \in Covered(t, R)}
  BY <1>4, Zenon DEF CompiledCases
<1>6. {Case(t, q, cat[q.id].endpoint) : q \in Covered(t, R)} = Expected(t, R)
  BY <1>3 DEF Expected
<1> QED BY <1>5, <1>6

--------------------------------------------------------------------------------
(***************************************************************************)
(* The inductive invariant. From the derivation on, the requirements are   *)
(* those of the configuration; a template holds a valid and faithful       *)
(* output for the catalog in its key, whatever Run wrote it; so what is    *)
(* compiled are the expected cases, and the plan is merged of them.        *)
(***************************************************************************)
TemplatesKept ==
  \A x \in templates : ValidOutput(x.key[1], x.output) /\ Faithful(x.key[1], x.output)

ReqsDerived ==
  pc \in {"lookup", "fill", "check", "compile", "merge", "admit", "running"} =>
    reqs = DeriveFor(conf)

OutputServes ==
  pc \in {"check", "compile"} =>
    LET cat == Catalog(conf.target, reqs) IN ValidOutput(cat, output) /\ Faithful(cat, output)

CompiledExpected ==
  pc \in {"merge", "admit", "running"} =>
    compiled = Expected(conf.target, reqs) /\ Emitted(compiled)

PlanMerged ==
  Planned =>
    /\ plan = Merge(compiled, conf.manual, conf.mode) /\ mapping = Mapping(reqs, plan)
    /\ conf.manual # {} /\ conf.mode # "auto" => ValidPlan(plan, "trusted_manual")

IInv ==
  /\ conf \in Configs /\ (pc # "failed" => error = "none")
  /\ TemplatesKept /\ ReqsDerived /\ OutputServes /\ CompiledExpected /\ PlanMerged
  /\ FailsForCause

\* What holds of a case whatever it removes.
LEMMA CaseReads ==
  ASSUME NEW t, NEW q, NEW endpoint, NEW c, c = Case(t, q, endpoint)
  PROVE  /\ c.id = q.id /\ c.refs = {q.id} /\ c.bound = {q.id} /\ c.tier = TierOf(q)
         /\ t.naming = "plain" => ~c.dotted
         /\ c.steps # <<>>
         /\ \A i \in c.oracles : i \in DOMAIN AllSteps(c) /\ IsAssertion(AllSteps(c)[i])
         /\ \A i \in DOMAIN AllSteps(c) :
              AllSteps(c)[i].css \in Css(q) /\ Reads(AllSteps(c)[i]) \subseteq Saved(AllSteps(c), i - 1)
<1> DEFINE aimed == FALSE
<1>1. aimed => FALSE  OBVIOUS
<1> HIDE DEF aimed
<1>2. /\ c.id = q.id /\ c.refs = {q.id} /\ c.bound = {q.id} /\ c.tier = TierOf(q)
      /\ t.naming = "plain" => ~c.dotted
      /\ c.steps # <<>>
      /\ \A i \in c.oracles : i \in DOMAIN AllSteps(c) /\ IsAssertion(AllSteps(c)[i])
      /\ Runs(AllSteps(c), Css(q), aimed, {}, {}, {}, {})
  BY <1>1, CaseIs
<1> QED BY <1>2 DEF Runs, Fits, Fine

\* A case of ids that are neither cut nor dotted passes the validation.
LEMMA CaseStands ==
  ASSUME NEW t, t.naming = "plain", NEW q, NEW endpoint, NEW c, c = Case(t, q, endpoint)
  PROVE  /\ c.id = q.id /\ c.steps # <<>> /\ c.refs # {} /\ c.bound \subseteq c.refs
         /\ \A i \in c.oracles : i \in DOMAIN AllSteps(c) /\ IsAssertion(AllSteps(c)[i])
         /\ Resolves(c)
         /\ \A i \in DOMAIN AllSteps(c) : Trusted(AllSteps(c)[i], "generated")
<1>2. /\ c.id = q.id /\ c.refs = {q.id} /\ c.bound = {q.id} /\ c.steps # <<>>
      /\ ~c.dotted
      /\ \A i \in c.oracles : i \in DOMAIN AllSteps(c) /\ IsAssertion(AllSteps(c)[i])
  BY CaseReads
<1>4. Resolves(c)
  <2> SUFFICES ASSUME NEW i \in DOMAIN AllSteps(c), NEW name \in References(c, i)
               PROVE  \E j \in 1..(i - 1) : AllSteps(c)[j].save = name
    BY DEF Resolves
  <2>1. name \in Saved(AllSteps(c), i - 1)  BY <1>2, CaseReads DEF References, Reads
  <2> QED BY <2>1 DEF Saved
<1>5. \A i \in DOMAIN AllSteps(c) : AllSteps(c)[i].css \in InPage
  <2>1. Css(q) \subseteq InPage  BY DEF Css, InPage
  <2> QED BY <2>1, CaseReads
<1> QED BY <1>2, <1>4, <1>5 DEF InPage, Trusted

\* Where there is something to test, and the ids are plain, the cases are a plan.
LEMMA ExpectedIsValid ==
  ASSUME NEW t, NEW R, Derived(t, R), t.naming = "plain", Live(R) # {}
  PROVE  Emitted(Expected(t, R))
<1>1. Covered(t, R) = Live(R)  BY DEF Covered, Live, CaseId
<1>2. Expected(t, R) # {}  BY <1>1 DEF Expected
<1>3. ASSUME NEW c \in Expected(t, R), NEW d \in Expected(t, R), c.id = d.id PROVE c = d
  <2>1. PICK q \in Covered(t, R) : c = Case(t, q, EndpointOf(t, q))  BY DEF Expected
  <2>2. PICK r \in Covered(t, R) : d = Case(t, r, EndpointOf(t, r))  BY DEF Expected
  <2>3. c.id = q.id /\ d.id = r.id  BY <2>1, <2>2, CaseStands
  <2>4. q = r  BY <1>3, <2>3 DEF Covered, Derived
  <2> QED BY <2>1, <2>2, <2>4
<1>4. ASSUME NEW c \in Expected(t, R)
      PROVE  /\ c.steps # <<>> /\ c.refs # {} /\ c.bound \subseteq c.refs
             /\ \A i \in c.oracles : i \in DOMAIN AllSteps(c) /\ IsAssertion(AllSteps(c)[i])
             /\ Resolves(c)
             /\ \A i \in DOMAIN AllSteps(c) : Trusted(AllSteps(c)[i], "generated")
  <2>1. PICK q \in Covered(t, R) : c = Case(t, q, EndpointOf(t, q))  BY DEF Expected
  <2> QED BY <2>1, CaseStands
<1> QED BY <1>2, <1>3, <1>4 DEF Emitted, ValidPlan

\* The validator of manual plans accepts generated cases that use no locators.
LEMMA TrustedToo ==
  ASSUME NEW t, NEW R, Derived(t, R), ~\E q \in Live(R) : q.intent \in UiIntents
  PROVE  /\ Emitted(Expected(t, R)) => ValidPlan(Expected(t, R), "trusted_manual")
         /\ \A manual, mode :
              /\ Emitted(Expected(t, R)) /\ ValidPlan(manual, "trusted_manual")
              => ValidPlan(Merge(Expected(t, R), manual, mode), "trusted_manual")
<1> DEFINE auto == Expected(t, R)
<1>1. ASSUME NEW c \in auto, NEW i \in DOMAIN AllSteps(c)
      PROVE  Trusted(AllSteps(c)[i], "trusted_manual")
  <2>1. PICK q \in Covered(t, R) : c = Case(t, q, EndpointOf(t, q))  BY DEF Expected
  <2>2. Css(q) = {"none"}  BY DEF Css, Covered, Live
  <2>3. AllSteps(c)[i].css = "none"  BY <2>1, <2>2, <1>1, CaseReads
  <2> QED BY <2>3 DEF Trusted
<1> HIDE DEF auto
<1>2. Emitted(auto) => ValidPlan(auto, "trusted_manual")
  BY <1>1 DEF Emitted, ValidPlan
<1>3. ASSUME NEW manual, NEW mode, ValidPlan(auto, "trusted_manual"),
             ValidPlan(manual, "trusted_manual")
      PROVE  ValidPlan(Merge(auto, manual, mode), "trusted_manual")
  <2>1. CASE manual = {} \/ mode = "auto"  BY <1>3, <2>1 DEF Merge
  <2>2. CASE ~(manual = {} \/ mode = "auto") /\ mode = "replace"  BY <1>3, <2>2 DEF Merge
  <2>3. CASE ~(manual = {} \/ mode = "auto") /\ mode # "replace"
    <3> DEFINE merged == manual \cup {c \in auto : \A m \in manual : m.id # c.id}
    <3>1. Merge(auto, manual, mode) = merged  BY <2>3 DEF Merge
    <3>2. merged # {}  BY <2>3
    <3>3. \A c, d \in merged : c.id = d.id => c = d
      BY <1>3 DEF ValidPlan
    <3>4. \A c \in merged : c \in auto \/ c \in manual  OBVIOUS
    <3> HIDE DEF merged
    <3> QED BY <1>3, <3>1, <3>2, <3>3, <3>4 DEF ValidPlan
  <2> QED BY <2>1, <2>2, <2>3
<1> QED BY <1>2, <1>3 DEF auto

--------------------------------------------------------------------------------
(***************************************************************************)
(* Every step keeps the invariant.                                         *)
(***************************************************************************)
LEMMA ConfDerived ==
  ASSUME NEW c \in Configs PROVE Derived(c.target, DeriveFor(c))
BY ConfTarget, DeriveIs DEF DeriveFor

LEMMA InitIInv == Init => IInv
BY DEF Init, IInv, TemplatesKept, ReqsDerived, OutputServes, CompiledExpected, PlanMerged,
       Planned, FailsForCause

LEMMA PutKeeps ==
  ASSUME NEW key, NEW out, TemplatesKept, Put(key, out),
         ValidOutput(key[1], out), Faithful(key[1], out)
  PROVE  TemplatesKept'
BY DEF TemplatesKept, Put

LEMMA StepPreflight == ASSUME IInv, Preflight PROVE IInv'
<1>1. /\ conf' = conf /\ templates' = templates /\ error = "none"
      /\ \/ pc' = "derive" /\ error' = "none"
         \/ pc' = "failed" /\ error' \in {"MATRIX_BUDGET_EXCEEDED", "DIFF_UNAVAILABLE"}
  BY DEF IInv, Preflight, Budget, DiffFails, Throw, Proceed
<1>2. TemplatesKept'  BY <1>1 DEF IInv, TemplatesKept
<1> QED BY <1>1, <1>2 DEF IInv, ReqsDerived, OutputServes, CompiledExpected, PlanMerged,
                          Planned, FailsForCause

LEMMA StepDeriveCoverage == ASSUME IInv, DeriveCoverage PROVE IInv'
<1>1. /\ conf' = conf /\ templates' = templates /\ error = "none"
      /\ \/ pc' = "lookup" /\ error' = "none" /\ reqs' = DeriveFor(conf)
         \/ pc' = "failed" /\ error' = "DIFF_UNAVAILABLE"
  BY DEF IInv, DeriveCoverage, DiffFails, Throw, Proceed
<1>2. TemplatesKept'  BY <1>1 DEF IInv, TemplatesKept
<1>3. DeriveFor(conf)' = DeriveFor(conf)  BY <1>1
<1> QED BY <1>1, <1>2, <1>3 DEF IInv, ReqsDerived, OutputServes, CompiledExpected, PlanMerged,
                          Planned, FailsForCause

LEMMA StepLookUp == ASSUME IInv, LookUp PROVE IInv'
<1> DEFINE cat == Catalog(conf.target, reqs)
           hits == Cached(Key(conf, reqs))
<1>1. /\ conf' = conf /\ templates' = templates /\ reqs' = reqs /\ error = "none" /\ error' = "none"
      /\ reqs = DeriveFor(conf)
      /\ \/ pc' = "fill"
         \/ /\ pc' = "check" /\ hits # {} /\ output' = (CHOOSE x \in hits : TRUE).output
  BY DEF IInv, LookUp, Proceed, ReqsDerived
<1>2. TemplatesKept'  BY <1>1 DEF IInv, TemplatesKept
<1>3. pc' = "check" => ValidOutput(cat, output') /\ Faithful(cat, output')
  <2> SUFFICES ASSUME pc' = "check" PROVE ValidOutput(cat, output') /\ Faithful(cat, output')
    OBVIOUS
  <2>1. PICK x \in hits : output' = x.output  BY <1>1
  <2>2. x \in templates /\ x.key = <<cat, conf.tier>>  BY <2>1 DEF Cached, Key
  <2>3. x.key[1] = cat  BY <2>2
  <2> QED BY <2>1, <2>2, <2>3 DEF IInv, TemplatesKept
<1>4. Catalog(conf.target, reqs)' = cat /\ DeriveFor(conf)' = DeriveFor(conf)  BY <1>1
<1> HIDE DEF cat, hits
<1> QED BY <1>1, <1>2, <1>3, <1>4 DEF IInv, ReqsDerived, OutputServes, CompiledExpected,
                          PlanMerged, Planned, FailsForCause

LEMMA StepAttempt == ASSUME IInv, Attempt PROVE IInv'
<1> DEFINE cat == Catalog(conf.target, reqs)
           out == Fill(conf.target, reqs)
<1>1. /\ conf' = conf /\ reqs' = reqs /\ error = "none" /\ reqs = DeriveFor(conf)
      /\ \/ /\ templates' = templates
            /\ \/ pc' = "failed" /\ error' = "PLAN_DEFECT" /\ attempts' = MaxAttempts
               \/ pc' = "fill" /\ error' = "none"
         \/ /\ pc' = "check" /\ error' = "none" /\ output' = out
            /\ ValidOutput(cat, out) /\ Put(Key(conf, reqs), out)
  BY DEF IInv, Attempt, Proceed, Throw, ReqsDerived
<1>2. Faithful(cat, out)
  <2>1. Derived(conf.target, reqs)  BY <1>1, ConfDerived DEF IInv
  <2> QED BY <2>1, FillIsFaithful
<1>3. TemplatesKept'
  <2>1. Key(conf, reqs)[1] = cat  BY DEF Key
  <2>2. CASE templates' = templates  BY <2>2 DEF IInv, TemplatesKept
  <2>3. CASE ValidOutput(cat, out) /\ Put(Key(conf, reqs), out)
    BY <1>2, <2>1, <2>3, PutKeeps DEF IInv
  <2> QED BY <1>1, <2>2, <2>3
<1>4. Catalog(conf.target, reqs)' = cat /\ DeriveFor(conf)' = DeriveFor(conf)  BY <1>1
<1> HIDE DEF cat, out
<1> QED BY <1>1, <1>2, <1>3, <1>4 DEF IInv, ReqsDerived, OutputServes, CompiledExpected,
                          PlanMerged, Planned, FailsForCause

\* The second validation never fails: neither an attempt nor a template of
\* another Run has an output that is not valid for this catalog.
LEMMA StepCheck == ASSUME IInv, Check PROVE IInv'
<1> DEFINE cat == Catalog(conf.target, reqs)
<1>1. ValidOutput(cat, output) /\ Faithful(cat, output)  BY DEF IInv, OutputServes, Check
<1>2. /\ conf' = conf /\ reqs' = reqs /\ output' = output /\ reqs = DeriveFor(conf)
      /\ error = "none" /\ error' = "none" /\ pc' = "compile"
      /\ Put(Key(conf, reqs), output) \/ templates' = templates
  BY <1>1 DEF IInv, Check, Proceed, ReqsDerived
<1>3. TemplatesKept'
  <2>1. Key(conf, reqs)[1] = cat  BY DEF Key
  <2>2. CASE templates' = templates  BY <2>2 DEF IInv, TemplatesKept
  <2>3. CASE Put(Key(conf, reqs), output)  BY <1>1, <2>1, <2>3, PutKeeps DEF IInv
  <2> QED BY <1>2, <2>2, <2>3
<1>4. Catalog(conf.target, reqs)' = cat /\ DeriveFor(conf)' = DeriveFor(conf)  BY <1>2
<1> HIDE DEF cat
<1> QED BY <1>1, <1>2, <1>3, <1>4 DEF IInv, ReqsDerived, OutputServes, CompiledExpected,
                          PlanMerged, Planned, FailsForCause

LEMMA StepCompile == ASSUME IInv, Compile PROVE IInv'
<1> DEFINE cat == Catalog(conf.target, reqs)
           cases == CompiledCases(conf.target, reqs, cat, output)
<1>1. /\ conf' = conf /\ reqs' = reqs /\ templates' = templates /\ reqs = DeriveFor(conf)
      /\ error = "none"
      /\ \/ Emitted(cases) /\ compiled' = cases /\ pc' = "merge" /\ error' = "none"
         \/ ~Emitted(cases) /\ pc' = "failed" /\ error' = "PLAN_INVALID"
  BY DEF IInv, Compile, Proceed, Throw, ReqsDerived
<1>2. Derived(conf.target, reqs)  BY <1>1, ConfDerived DEF IInv
<1>3. cases = Expected(conf.target, reqs)
  <2>1. Faithful(cat, output)  BY DEF IInv, OutputServes, Compile
  <2> QED BY <1>2, <2>1, CompiledIs
<1>4. TemplatesKept'  BY <1>1 DEF IInv, TemplatesKept
<1>5. Expected(conf.target, reqs)' = Expected(conf.target, reqs)
      /\ DeriveFor(conf)' = DeriveFor(conf) /\ Live(reqs)' = Live(reqs)
  BY <1>1
<1>6. ~Emitted(cases) => Live(reqs) = {} \/ conf.target.naming # "plain"
  BY <1>2, <1>3, ExpectedIsValid
<1> HIDE DEF cat, cases
<1> QED BY <1>1, <1>3, <1>4, <1>5, <1>6 DEF IInv, ReqsDerived, OutputServes, CompiledExpected,
                          PlanMerged, Planned, FailsForCause

LEMMA StepFreeze == ASSUME IInv, Freeze PROVE IInv'
<1> DEFINE merged == Merge(compiled, conf.manual, conf.mode)
           mixed == conf.manual # {} /\ conf.mode # "auto"
<1>0. /\ reqs = DeriveFor(conf) /\ compiled = Expected(conf.target, reqs) /\ Emitted(compiled)
      /\ error = "none"
  BY DEF IInv, Freeze, ReqsDerived, CompiledExpected
<1>1. /\ conf' = conf /\ reqs' = reqs /\ templates' = templates /\ compiled' = compiled
      /\ reqs = DeriveFor(conf) /\ compiled = Expected(conf.target, reqs) /\ Emitted(compiled)
      /\ error = "none"
      /\ \/ /\ mixed => ValidPlan(merged, "trusted_manual")
            /\ plan' = merged /\ mapping' = Mapping(reqs, merged)
            /\ pc' = "admit" /\ error' = "none"
         \/ /\ ~Loads(conf.manual) \/ (mixed /\ ~ValidPlan(merged, "trusted_manual"))
            /\ pc' = "failed" /\ error' = "PLAN_INVALID"
  <2> DEFINE fine == Loads(conf.manual) /\ (mixed => ValidPlan(merged, "trusted_manual"))
  <2>1. /\ UNCHANGED <<conf, reqs, templates, compiled>>
        /\ IF fine
           THEN plan' = merged /\ mapping' = Mapping(reqs, merged) /\ Proceed("admit")
           ELSE Throw("PLAN_INVALID")
    BY DEF Freeze
  <2>2. CASE fine  BY <1>0, <2>1, <2>2 DEF Proceed
  <2>3. CASE ~fine  BY <1>0, <2>1, <2>3 DEF Throw
  <2> QED BY <2>2, <2>3
<1>2. Derived(conf.target, reqs)  BY <1>1, ConfDerived DEF IInv
<1>3. TemplatesKept'  BY <1>1 DEF IInv, TemplatesKept
<1>4. /\ Expected(conf.target, reqs)' = Expected(conf.target, reqs)
      /\ DeriveFor(conf)' = DeriveFor(conf) /\ Live(reqs)' = Live(reqs)
  BY <1>1
<1>5. ASSUME pc' = "failed"
      PROVE  /\ conf.manual # {}
             /\ \/ ~ValidPlan(conf.manual, "trusted_manual")
                \/ conf.mode # "replace" /\ \E q \in Live(reqs) : q.intent \in UiIntents
  <2>1. CASE ~Loads(conf.manual)  BY <2>1 DEF Loads
  <2>2. CASE Loads(conf.manual) /\ mixed /\ ~ValidPlan(merged, "trusted_manual")
    <3>1. conf.manual # {} /\ ValidPlan(conf.manual, "trusted_manual")  BY <2>2 DEF Loads
    <3>2. conf.mode # "replace"  BY <2>2, <3>1 DEF Merge
    <3>3. \E q \in Live(reqs) : q.intent \in UiIntents
      BY <1>1, <1>2, <2>2, <3>1, TrustedToo
    <3> QED BY <3>1, <3>2, <3>3
  <2> QED BY <1>1, <1>5, <2>1, <2>2
<1> HIDE DEF merged, mixed
<1>6. PlanMerged'
  <2>1. ASSUME pc' = "admit" PROVE PlanMerged'
    BY <1>1, <2>1 DEF PlanMerged, Planned, merged, mixed
  <2> QED BY <1>1, <2>1 DEF PlanMerged, Planned
<1>7. FailsForCause'  BY <1>1, <1>4, <1>5 DEF FailsForCause
<1> QED BY <1>1, <1>3, <1>4, <1>6, <1>7 DEF IInv, ReqsDerived, OutputServes, CompiledExpected

LEMMA StepAdmit == ASSUME IInv, Admit PROVE IInv'
<1> DEFINE authority == IF conf.manual = {} THEN "generated" ELSE "trusted_manual"
<1>1. /\ UNCHANGED <<conf, reqs, templates, compiled, plan, mapping>>
      /\ reqs = DeriveFor(conf) /\ compiled = Expected(conf.target, reqs) /\ Emitted(compiled)
      /\ plan = Merge(compiled, conf.manual, conf.mode)
      /\ conf.manual # {} /\ conf.mode # "auto" => ValidPlan(plan, "trusted_manual")
      /\ error = "none"
      /\ \/ pc' = "running" /\ error' = "none"
         \/ ~ValidPlan(plan, authority) /\ pc' = "failed" /\ error' = "PLAN_INVALID"
  BY DEF IInv, Admit, Proceed, Throw, ReqsDerived, CompiledExpected, PlanMerged, Planned
<1>2. Derived(conf.target, reqs)  BY <1>1, ConfDerived DEF IInv
<1>3. TemplatesKept'  BY <1>1 DEF IInv, TemplatesKept
<1>4. /\ Expected(conf.target, reqs)' = Expected(conf.target, reqs)
      /\ DeriveFor(conf)' = DeriveFor(conf) /\ Live(reqs)' = Live(reqs)
  BY <1>1
<1>5. ASSUME ~ValidPlan(plan, authority)
      PROVE  /\ conf.manual # {}
             /\ conf.mode # "replace" /\ \E q \in Live(reqs) : q.intent \in UiIntents
  <2>1. conf.manual # {}
    BY <1>1, <1>5 DEF Merge, Emitted
  <2>2. conf.mode = "auto"  BY <1>1, <1>5, <2>1
  <2>3. plan = compiled  BY <1>1, <2>2 DEF Merge
  <2>4. \E q \in Live(reqs) : q.intent \in UiIntents
    BY <1>1, <1>2, <1>5, <2>1, <2>3, TrustedToo
  <2> QED BY <2>1, <2>2, <2>4
<1> HIDE DEF authority
<1>6. PlanMerged'  BY <1>1 DEF IInv, PlanMerged, Planned, Admit
<1>7. FailsForCause'  BY <1>1, <1>4, <1>5 DEF FailsForCause
<1> QED BY <1>1, <1>3, <1>4, <1>6, <1>7 DEF IInv, ReqsDerived, OutputServes, CompiledExpected

LEMMA StepCorrupt == ASSUME IInv, Corrupt PROVE IInv'
<1>1. UNCHANGED <<conf, pc, reqs, output, attempts, compiled, plan, mapping, error>>
  BY DEF Corrupt
<1>2. TemplatesKept'
  <2>1. PICK x \in templates :
          templates' = (templates \ {x}) \cup {[x EXCEPT !.sound = FALSE]}
    BY DEF Corrupt
  <2>2. [x EXCEPT !.sound = FALSE].key = x.key /\ [x EXCEPT !.sound = FALSE].output = x.output
    OBVIOUS
  <2> QED BY <2>1, <2>2 DEF IInv, TemplatesKept
<1> QED BY <1>1, <1>2 DEF IInv, ReqsDerived, OutputServes, CompiledExpected, PlanMerged,
                          Planned, FailsForCause

LEMMA StepNextRun == ASSUME IInv, NextRun PROVE IInv'
<1>1. /\ conf' \in Configs /\ pc' = "preflight" /\ error' = "none" /\ templates' = templates
  BY DEF NextRun
<1>2. TemplatesKept'  BY <1>1 DEF IInv, TemplatesKept
<1> QED BY <1>1, <1>2 DEF IInv, ReqsDerived, OutputServes, CompiledExpected, PlanMerged,
                          Planned, FailsForCause

LEMMA Inductive == IInv /\ [Next]_vars => IInv'
<1> SUFFICES ASSUME IInv, [Next]_vars PROVE IInv'
  OBVIOUS
<1>1. CASE UNCHANGED vars
  <2>1. TemplatesKept'  BY <1>1 DEF IInv, TemplatesKept, vars
  <2> QED BY <1>1, <2>1 DEF IInv, ReqsDerived, OutputServes, CompiledExpected, PlanMerged,
                            Planned, FailsForCause, vars
<1> QED BY <1>1, StepPreflight, StepDeriveCoverage, StepLookUp, StepAttempt, StepCheck,
           StepCompile, StepFreeze, StepAdmit, StepCorrupt, StepNextRun DEF Next

THEOREM Invariance == Spec => []IInv
BY InitIInv, Inductive, PTL DEF Spec

--------------------------------------------------------------------------------
(***************************************************************************)
(* The theorems.                                                           *)
(***************************************************************************)

\* A generated case of a plan is that of a requirement that is to be tested.
LEMMA GeneratedIs ==
  ASSUME IInv, Planned, NEW c \in Generated
  PROVE  /\ Derived(conf.target, reqs)
         /\ \E q \in Covered(conf.target, reqs) : c = Case(conf.target, q, EndpointOf(conf.target, q))
<1>1. /\ reqs = DeriveFor(conf) /\ compiled = Expected(conf.target, reqs)
      /\ plan = Merge(compiled, conf.manual, conf.mode)
  BY DEF IInv, Planned, ReqsDerived, CompiledExpected, PlanMerged
<1>2. c \in compiled \cup conf.manual  BY <1>1 DEF Generated, Merge
<1>3. c \notin conf.manual  BY ConfigsAssumption DEF IInv, Generated
<1>4. Derived(conf.target, reqs)  BY <1>1, ConfDerived DEF IInv
<1> QED BY <1>1, <1>2, <1>3, <1>4 DEF Expected

\* Whatever the history of the caches, planning fails only for a cause outside
\* of it: compiler and validators agree on every plan, and the second
\* validation of an output never fails (AuditVerticalSlice, validatePlan).
THEOREM PlanningFailsForCause == Spec => []FailsForCause
<1>1. IInv => FailsForCause  BY DEF IInv
<1> QED BY <1>1, Invariance, PTL

\* What an assertion or a capture of a generated case reads, and not only what
\* it interpolates, an earlier step saved (compiler; validateSteps checks the
\* latter only).
THEOREM PlansReadWhatIsSaved == Spec => []SourcesAreSaved
<1>1. IInv => SourcesAreSaved
  <2> SUFFICES ASSUME IInv, Planned, NEW c \in Generated, NEW i \in DOMAIN AllSteps(c),
                      NEW name \in AllSteps(c)[i].src
               PROVE  \E j \in 1..(i - 1) : AllSteps(c)[j].save = name
    BY DEF SourcesAreSaved
  <2>1. PICK q \in Covered(conf.target, reqs) :
          c = Case(conf.target, q, EndpointOf(conf.target, q))
    BY GeneratedIs
  <2>2. name \in Saved(AllSteps(c), i - 1)  BY <2>1, CaseReads DEF Reads
  <2> QED BY <2>2 DEF Saved
<1> QED BY <1>1, Invariance, PTL

\* Every requirement of a plan without a manual one has a case with an oracle
\* that the runner selects, or is reported as unmapped; what is blocked or
\* skipped has none (compileTestPlan, selectCases, PlanTemplateCache.key).
THEOREM PlansAccountForAll == Spec => []NothingUnaccounted
<1>1. ASSUME IInv, Planned, conf.manual = {}, NEW q \in Required(reqs)
      PROVE  \/ \E c \in Selected : q.id \in c.bound
             \/ q.id \in {u.id : u \in Unmapped(reqs, compiled)} /\ mapping = "PARTIAL"
  <2> DEFINE t == conf.target
  <2>1. /\ reqs = DeriveFor(conf) /\ compiled = Expected(t, reqs)
        /\ plan = compiled /\ mapping = Mapping(reqs, plan) /\ conf \in Configs
    BY <1>1 DEF IInv, Planned, ReqsDerived, CompiledExpected, PlanMerged, Merge
  <2>2. Derived(t, reqs) /\ q \in reqs  BY <2>1, ConfDerived DEF Required
  <2>3. CASE q \in Covered(t, reqs)
    <3> DEFINE c == Case(t, q, EndpointOf(t, q))
    <3>1. c \in plan  BY <2>1, <2>3 DEF Expected
    <3>0. c = Case(t, q, EndpointOf(t, q))  OBVIOUS
    <3> HIDE DEF c
    <3>2. c.bound = {q.id} /\ c.tier = TierOf(q)  BY <3>0, CaseReads
    <3>3. Rank(TierOf(q)) <= Rank(conf.tier)
      <4>1. conf.tier \in Tiers  BY <2>1, ConfTarget
      <4>2. q \in Live(Derive(conf.target, conf.tier, conf.destructive, conf.diff))
        BY <2>1, <2>3 DEF Covered, Live, DeriveFor
      <4> QED BY <4>1, <4>2, RequiredIsSelected
    <3> QED BY <3>1, <3>2, <3>3 DEF Selected
  <2>4. CASE q \notin Covered(t, reqs)
    <3>1. \A c \in compiled : q.id \notin c.refs
      <4> SUFFICES ASSUME NEW c \in compiled, q.id \in c.refs PROVE FALSE
        OBVIOUS
      <4>1. PICK r \in Covered(t, reqs) : c = Case(t, r, EndpointOf(t, r))
        BY <2>1 DEF Expected
      <4>2. c.refs = {r.id}  BY <4>1 DEF Case
      <4>3. q = r  BY <2>2, <4>1, <4>2 DEF Covered, Derived
      <4> QED BY <2>4, <4>1, <4>3
    <3>2. CasesFor(q, compiled) = {}  BY <3>1 DEF CasesFor
    <3>3. mapping = "PARTIAL"  BY <2>1, <3>2, <1>1 DEF Mapping
    <3> DEFINE u == [ id |-> q.id, reason |-> IF q.status # "BLOCKED" THEN "NOT_PLANNED"
                              ELSE IF q.oracle THEN "BLOCKED" ELSE "MISSING_ORACLE" ]
    <3>4. u \in Unmapped(reqs, compiled) /\ u.id = q.id  BY <3>2, <1>1 DEF Unmapped
    <3> HIDE DEF u
    <3> QED BY <3>3, <3>4
  <2> QED BY <2>3, <2>4
<1>2. ASSUME IInv, Planned, NEW c \in Generated PROVE \E q \in Live(reqs) : q.id \in c.refs
  <2>1. PICK q \in Covered(conf.target, reqs) :
          c = Case(conf.target, q, EndpointOf(conf.target, q))
    BY <1>2, GeneratedIs
  <2>2. c.refs = {q.id}  BY <2>1 DEF Case
  <2> QED BY <2>1, <2>2 DEF Covered, Live
<1>3. IInv => NothingUnaccounted  BY <1>1, <1>2 DEF NothingUnaccounted
<1> QED BY <1>3, Invariance, PTL

\* Where one item can be removed, a generated case removes only what it
\* created or found by its own marker (buildRequirementExecution): for every
\* target that RemovesOnlyOwn does not name as misdirected.
THEOREM PlansRemoveOnlyOwn == Spec => []RemovesOnlyOwn
<1>1. IInv => RemovesOnlyOwn
  <2> DEFINE t == conf.target
  <2> SUFFICES ASSUME IInv, ~Misdirected(t), Planned, WithMethod(t, {"DELETE"}) = "delete",
                      NEW c \in Generated, NEW i \in DOMAIN AllSteps(c),
                      AllSteps(c)[i].method = "DELETE"
               PROVE  AllSteps(c)[i].by # {} /\ Own(c, i)
    BY DEF RemovesOnlyOwn
  <2>1. Derived(t, reqs)  BY GeneratedIs
  <2>2. PICK q \in Covered(t, reqs) : c = Case(t, q, EndpointOf(t, q))  BY GeneratedIs
  <2>3. q.intent \notin Direct => Method(EndpointOf(t, q)) # "DELETE"
    BY <2>1, <2>2, EndpointAims DEF Derived, Covered
  <2>4. Runs(AllSteps(c), Css(q), TRUE, {}, {}, {}, {})  BY <2>2, <2>3, CaseIs
  <2>5. AllSteps(c)[i].by # {} /\ AllSteps(c)[i].by \subseteq Made(AllSteps(c), i - 1)
    BY <2>4 DEF Runs, Fits, Fine, Owes
  <2>6. Own(c, i)
    <3> SUFFICES ASSUME NEW name \in AllSteps(c)[i].by
                 PROVE  \E j \in 1..(i - 1) :
                          /\ AllSteps(c)[j].save = name
                          /\ AllSteps(c)[j].method = "POST" \/ AllSteps(c)[j].act = "capture_json"
      BY DEF Own
    <3>1. PICK j \in 1..(i - 1) : name \in Makes(AllSteps(c)[j])  BY <2>5 DEF Made
    <3> QED BY <3>1 DEF Makes
  <2> QED BY <2>5, <2>6
<1> QED BY <1>1, Invariance, PTL
================================================================================
