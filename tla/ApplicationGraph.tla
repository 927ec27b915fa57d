---------------------------- MODULE ApplicationGraph ----------------------------
(***************************************************************************)
(* buildApplicationGraph: the facts of a discovery are fused into          *)
(* operations, resources, fields, routes and controls, linked by edges,    *)
(* every one with the facts it rests on; what cannot be linked becomes a   *)
(* diagnostic. A fact stands for its own evidence record.                  *)
(*                                                                         *)
(* Nodes are sets, because the code sorts and deduplicates. One loop       *)
(* depends on an order, that of the hashed operation ids: operations that  *)
(* no parameter and no POST puts under a collection are grouped one after  *)
(* the other (action Group), in an order nobody chose. Confidences are     *)
(* left out.                                                               *)
(***************************************************************************)
EXTENDS Naturals, FiniteSets, Sequences, SequencesExt

VARIABLES
  facts,       \* what discover() collected
  ungrouped,   \* operations the second loop of resourceCandidates has not seen
  candidates   \* collection paths found so far

graphVars == <<facts, ungrouped, candidates>>

\* A path template: its segments, and the name of its query parameter or "".
Parameter == ":id"
Path(segments, query) == [seg |-> segments, query |-> query]
Mutating == {"POST", "PUT", "PATCH", "DELETE"}

OfType(types) == {f \in facts : f.type \in types}

-----------------------------------------------------------------------------
(* Operations: endpoint facts with one method and path template are fused;    *)
(* a response joins the operation it answers, if there is one.                *)

Operation(f) == <<f.method, f.path>>
Operations == {Operation(f) : f \in OfType({"endpoint"})}

OperationFacts(o) ==
  {f \in OfType({"endpoint", "runtime_response"}) : Operation(f) = o}
Kinds(o) == {f.kind : f \in {e \in OperationFacts(o) : e.type = "endpoint"}}
Features(o) == {f.feature : f \in {e \in OperationFacts(o) : e.type = "endpoint"}}

-----------------------------------------------------------------------------
(* Resources: every operation belongs to the longest collection path that     *)
(* contains its own.                                                          *)

Pathname(o) == o[2].seg
BelongsTo(path, collection) == IsPrefix(collection, path)

\* Mutant: the parameter stays in the path.
CollectionWithId(path) ==
  SubSeq(path, 1, SelectInSeq(path, LAMBDA s : s = Parameter))

\* The path in front of the first parameter.
Collection(path) ==
  IF Contains(path, Parameter)
    THEN SubSeq(path, 1, SelectInSeq(path, LAMBDA s : s = Parameter) - 1)
    ELSE path

NamedCollections ==
  {Collection(Pathname(o)) : o \in {p \in Operations : Contains(Pathname(p), Parameter)}}
    \cup {Pathname(o) : o \in {p \in Operations : p[1] = "POST"}}

GraphInit == ungrouped = {} /\ candidates = {}

StartGraph(fs) ==
  /\ facts' = fs
  /\ ungrouped' = {Operation(f) : f \in {e \in fs : e.type = "endpoint"}}
  /\ candidates' = NamedCollections'

\* Mutant: every operation founds a collection.
GroupEach ==
  \E o \in ungrouped :
    /\ ungrouped' = ungrouped \ {o}
    /\ candidates' = candidates \cup {Pathname(o)}
    /\ UNCHANGED facts

\* The second loop: an operation outside every candidate founds its own.
Group ==
  \E o \in ungrouped :
    /\ ungrouped' = ungrouped \ {o}
    /\ candidates' = IF \E c \in candidates : BelongsTo(Pathname(o), c)
                       THEN candidates ELSE candidates \cup {Pathname(o)}
    /\ UNCHANGED facts

ResourceOf(o) ==
  LET around == {c \in candidates : BelongsTo(Pathname(o), c)}
  IN IF around = {} THEN Pathname(o)
     ELSE CHOOSE c \in around : \A d \in around : Len(d) <= Len(c)

Resources == {ResourceOf(o) : o \in Operations}
OperationsOf(r) == {o \in Operations : ResourceOf(o) = r}
Mutable(r) == \E o \in OperationsOf(r) : o[1] \in Mutating

-----------------------------------------------------------------------------
(* Fields: bound by the resource path they name, or by their feature if that  *)
(* leaves one resource, or one that can be written to.                        *)

Unbound == <<"unbound">>
NoPath == <<"none">>

\* Mutant: the resource that a fact names need not exist.
ExistingCandidatesAny(f) ==
  IF f.resource # NoPath THEN {f.resource}
  ELSE {ResourceOf(o) : o \in {p \in Operations : f.feature \in Features(p)}}

ExistingCandidates(f) ==
  IF f.resource # NoPath THEN {f.resource} \cap Resources
  ELSE {ResourceOf(o) : o \in {p \in Operations : f.feature \in Features(p)}}

Home(f) ==
  LET existing == ExistingCandidates(f)
      writable == {r \in existing : Mutable(r)}
  IN IF Cardinality(existing) = 1 THEN CHOOSE r \in existing : TRUE
     ELSE IF Cardinality(writable) = 1 THEN CHOOSE r \in writable : TRUE
     ELSE Unbound

FieldFacts == OfType({"validation", "field"})
Field(f) == <<Home(f), f.field>>
Fields == {Field(f) : f \in FieldFacts}
FieldsOf(r) == {x \in Fields : x[1] = r}

-----------------------------------------------------------------------------
(* Routes, controls, edges, diagnostics.                                      *)

Routes == {f.route : f \in OfType({"endpoint", "control"})}
Control(f) == <<f.route, f.control, f.tag, f.name>>
Controls == {Control(f) : f \in OfType({"control"})}

Nodes ==
  ({"operation"} \X Operations) \cup ({"resource"} \X Resources) \cup ({"field"} \X Fields)
    \cup ({"route"} \X Routes) \cup ({"control"} \X Controls)

\* The facts a node is made of.
EvidenceOf(node) ==
  CASE node[1] = "operation" -> OperationFacts(node[2])
    [] node[1] = "resource" -> UNION {OperationFacts(o) : o \in OperationsOf(node[2])}
    [] node[1] = "field" -> {f \in FieldFacts : Field(f) = node[2]}
    [] node[1] = "route" -> {f \in OfType({"endpoint", "control"}) : f.route = node[2]}
    [] node[1] = "control" -> {f \in OfType({"control"}) : Control(f) = node[2]}

Edge(from, to, evidence) == [from |-> from, to |-> to, evidence |-> evidence]

\* The control and the endpoint facts that a correlation names.
Linked(f) ==
  {l \in OfType({"control"}) \X OfType({"endpoint"}) :
     l[1].id = f.controlFact /\ l[2].id = f.endpointFact}

\* The evidence two nodes have in common; all of it if there is none.
Shared(left, right) == IF left \cap right # {} THEN left \cap right ELSE left \cup right

OperationEdges(r) ==
  {Edge(<<"resource", r>>, <<"operation", o>>,
        Shared(EvidenceOf(<<"resource", r>>), OperationFacts(o))) : o \in OperationsOf(r)}
FieldEdges(r) ==
  {Edge(<<"resource", r>>, <<"field", x>>, EvidenceOf(<<"field", x>>)) : x \in FieldsOf(r)}
ControlEdge(f) == Edge(<<"route", f.route>>, <<"control", Control(f)>>, {f})
CorrelationEdges(f) ==
  {Edge(<<"control", Control(l[1])>>, <<"operation", Operation(l[2])>>, {f}) : l \in Linked(f)}

Edges ==
  (UNION {OperationEdges(r) \cup FieldEdges(r) : r \in Resources})
    \cup {ControlEdge(f) : f \in OfType({"control"})}
    \cup (UNION {CorrelationEdges(f) : f \in OfType({"correlation"})})

Diagnostic(code, evidence) == [code |-> code, evidence |-> evidence]

Diagnostics ==
  {Diagnostic("CONFLICTING_OPERATION_EVIDENCE", OperationFacts(o)) :
     o \in {p \in Operations : Cardinality(Kinds(p)) > 1}}
    \cup {Diagnostic("AMBIGUOUS_FIELD_RESOURCE", {f}) :
            f \in {g \in FieldFacts : Cardinality(ExistingCandidates(g)) > 1 /\ Home(g) = Unbound}}
    \cup {Diagnostic("WEAK_ASSOCIATION", {f}) :
            f \in {g \in FieldFacts : Home(g) # Unbound /\ g.resource = NoPath}}
    \cup {Diagnostic("UNLINKED_CORRELATION", {f}) :
            f \in {g \in OfType({"correlation"}) : Linked(g) = {}}}
================================================================================
