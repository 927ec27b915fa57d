----------------------------- MODULE StaticAdapters -----------------------------
(***************************************************************************)
(* extractStaticEvidence: the facts of one file. A file is a record of     *)
(* what its parser sees: the operations of an OpenAPI document, the fields *)
(* of a schema, or the calls, mounts, branches and decorators of a program.*)
(*                                                                         *)
(* An expression of a program is a sequence of parts: a literal segment    *)
(* <<"is", s>>, or a name <<"of", n>>; a lone name is an identifier, and   *)
(* any other expression a template or a concatenation. A call stands at    *)
(* its index in file.calls; "query" is the query parameter of its path.    *)
(***************************************************************************)
EXTENDS ApplicationGraph

Nowhere == Path(<<"nowhere">>, "")
NoId == <<>>
HttpMethods == {"GET", "POST", "PUT", "PATCH", "DELETE", "OPTIONS", "HEAD"}

\* One record shape for all facts, which name the fields they have; a fact with
\* the id of an earlier one replaces it.
Blank(type, id) ==
  [type |-> type, id |-> <<type, id>>, method |-> "", path |-> Nowhere,
   route |-> Nowhere, kind |-> "", feature |-> "", field |-> "",
   resource |-> NoPath, control |-> "", tag |-> "", name |-> "",
   controlFact |-> NoId, endpointFact |-> NoId, by |-> NoId]
Fact(type, id, fields) ==
  [x \in DOMAIN Blank(type, id) |->
     IF x \in DOMAIN fields THEN fields[x] ELSE Blank(type, id)[x]]

Put(old, new) == {f \in old : \A g \in new : g.id # f.id} \cup new

ByMethod(method) ==
  CASE method = "GET" -> "read" [] method = "POST" -> "create"
    [] method = "DELETE" -> "delete" [] OTHER -> "update"
StaticKind(method, path) ==
  CASE path.query = "page" -> "pagination" [] path.query = "q" -> "search"
    [] OTHER -> ByMethod(method)

FeatureFromPath(path) ==
  LET named == SelectSeq(path.seg, LAMBDA s : s # Parameter)
  IN IF named = <<>> THEN "project_root" ELSE Last(named)
FeatureOf(file, path) ==
  IF file.features = <<>> THEN FeatureFromPath(path) ELSE Head(file.features)

\* A document without paths is a schema if it has properties; a file that is
\* neither, and is no program, is left to the regular expressions.
Adapter(file) ==
  CASE {"version", "paths"} \subseteq file.shape -> "openapi"
    [] ~({"version", "paths"} \subseteq file.shape)
         /\ {"schema", "properties"} \subseteq file.shape -> "json-schema"
    [] "program" \in file.shape -> "typescript-ast"
    [] OTHER -> "none"

-----------------------------------------------------------------------------
(* OpenAPI documents and schemas.                                             *)

\* A field names the collection its schema is sent to, not the method: the schemas
\* of two operations of one path replace each other's facts.
SchemaFacts(file, fields, path, feature) ==
  LET Of(type, p, rule) ==
        Fact(type, <<file.name, path, p.field, rule>>,
             [field |-> p.field, feature |-> feature, resource |-> Collection(path.seg)])
  IN UNION {{Of("field", p, "schema")} \cup {Of("validation", p, r) : r \in p.rules} :
              p \in fields}

OperationFeature(file, o) == IF o.tag # "" THEN o.tag ELSE FeatureOf(file, o.path)

OpenApiEndpoint(file, o) ==
  Fact("endpoint", <<file.name, o.method, o.path>>,
       [method |-> o.method, path |-> o.path, kind |-> StaticKind(o.method, o.path),
        route |-> o.path, feature |-> OperationFeature(file, o)])

\* The operations are gone through in their order: the last fact with an id stays.
OpenApiFields(file) ==
  LET found == [k \in DOMAIN file.operations |->
                  LET o == file.operations[k]
                  IN SchemaFacts(file, o.fields, o.path, OperationFeature(file, o))]
      Replaced(f, k) == \E l \in DOMAIN found : l > k /\ \E g \in found[l] : g.id = f.id
  IN UNION {{f \in found[k] : ~Replaced(f, k)} : k \in DOMAIN found}

\* A schema that names no resource path is filed under the route of the file.
StandaloneFields(file) ==
  LET feature == FeatureOf(file, file.route)
      path == IF file.resource = Nowhere THEN file.route ELSE file.resource
  IN {Fact("schema", <<file.name, feature>>, [feature |-> feature])}
       \cup SchemaFacts(file, file.fields, path, feature)

-----------------------------------------------------------------------------
(* Programs: the text of an expression.                                       *)

Unresolved == "${path}"

\* expressionString: the empty text is no endpoint.
TextOf(expression, constants) ==
  LET Read(part) ==
        CASE part[1] = "is" -> <<part[2]>>
          [] part[1] = "of" /\ part[2] \in DOMAIN constants -> constants[part[2]]
          [] part[1] = "of" /\ part[2] \notin DOMAIN constants /\ Len(expression) = 1 -> <<>>
          [] part[1] = "of" /\ part[2] \notin DOMAIN constants /\ Len(expression) > 1 ->
               IF part[2] \in {"path", "url", "endpoint"} THEN <<Unresolved>> ELSE <<Parameter>>
  IN FlattenSeq([i \in DOMAIN expression |-> Read(expression[i])])

Resolved(text) == text # <<>> /\ ~Contains(text, Unresolved)

Roots == {"app", "server", "fastify"}

\* What a mount adds to the known prefixes: nothing, until its parent is known.
Mount(known, m) ==
  LET below == IF m.parent \in Roots THEN <<>> ELSE known[m.parent]
  IN IF m.parent \in Roots \cup DOMAIN known THEN (m.child :> below \o m.prefix) @@ known
     ELSE known

\* What is known after each mount, when the list of the mounts is gone through
\* "passes" times.
PrefixesAfter(file, passes) ==
  LET n == Len(file.mounts)
      after[i \in 0 .. passes * n] ==
        IF i = 0 THEN <<>>
        ELSE CHOOSE next \in {Mount(known, file.mounts[1 + ((i - 1) % n)]) :
                                known \in {after[i - 1]}} : TRUE
  IN after[passes * n]

\* Mutant: once.
MountedRouterPrefixesOnce(file) == PrefixesAfter(file, 1)

\* Once more than there are mounts, so that the order in which they are written
\* does not matter.
MountedRouterPrefixes(file) == PrefixesAfter(file, Len(file.mounts) + 1)

\* A function of the file is a wrapper by the first HTTP call in its body that
\* mentions one of its parameters, the first one mentioned.
Wrappers(file) ==
  LET Matching(f) == {i \in DOMAIN f.calls : ToSet(f.parameters) \cap f.calls[i].mentions # {}}
      First(f) == CHOOSE i \in Matching(f) : \A j \in Matching(f) : i <= j
      Index(f, mentions) ==
        CHOOSE k \in DOMAIN f.parameters :
          /\ f.parameters[k] \in mentions
          /\ \A j \in 1 .. k - 1 : f.parameters[j] \notin mentions
  IN {[name |-> f.name, method |-> f.calls[First(f)].method,
       index |-> Index(f, f.calls[First(f)].mentions)] :
        f \in {g \in file.functions : Matching(g) # {}}}

-----------------------------------------------------------------------------
(* Programs: calls, branches, controllers and route files.                    *)

\* A route found at a place of the file; the feature is that of "about".
RouteAt(method, path, adapter, at) ==
  [method |-> method, path |-> path, adapter |-> adapter, at |-> at, about |-> path,
   kind |-> StaticKind(method, path)]

\* Receivers that look like a client or a router.
HttpReceivers == Roots \cup {"axios", "client", "router", "usersRouter", "postsRouter"}

\* A call of a wrapper, then fetch, then a method of a client or a router: with an
\* unresolved path, these are the insides of wrappers.
CalledSites(file, i) ==
  LET call == file.calls[i]
      Text(k) == IF k \in DOMAIN call.args THEN TextOf(call.args[k], file.constants) ELSE <<>>
      At(text) == Path(text, call.query)
      method == IF call.method = "" THEN "GET" ELSE call.method
      own == {w \in Wrappers(file) : w.name = call.name}
      mounts == MountedRouterPrefixes(file)
      prefix == IF call.name \in DOMAIN mounts THEN mounts[call.name] ELSE <<>>
      If(condition, site) == IF condition THEN {site} ELSE {}
  IN CASE call.form = "function" /\ own # {} ->
            {RouteAt(w.method, At(Text(w.index)), "request-wrapper-call", i) :
               w \in {v \in own : Resolved(Text(v.index))}}
       [] call.form = "function" /\ own = {} ->
            If(call.name = "fetch" /\ Resolved(Text(1)), RouteAt(method, At(Text(1)), "fetch", i))
       [] call.form = "member" ->
            If(call.name \in HttpReceivers /\ Resolved(Text(1)),
               RouteAt(method, At(prefix \o Text(1)), "client", i))
       [] call.form = "route" ->
            If(call.method \in HttpMethods /\ Text(1) # <<>>,
               RouteAt(method, At(Text(1)), "route-object", i))
       [] call.form = "options" ->
            If(method \in HttpMethods /\ Text(1) # <<>>,
               RouteAt(method, At(Text(1)), "request-wrapper", i))
       [] call.form = "graphql" ->
            {[RouteAt("POST", Path(<<"graphql">>, ""), "graphql-client", i) EXCEPT !.kind = call.query]}
       [] call.form = "trpc" ->
            {[RouteAt("POST", Path(<<"rpc", call.name>>, ""), "trpc-client", i) EXCEPT !.kind = call.query]}
       [] OTHER -> {}

\* What an if tests, whether the tests are joined by "and" or "or", or negated: the
\* method, the path or its start, or the name of an earlier match of the path.
Tested(condition, properties) == {t.value : t \in {u \in condition : u.property \in properties}}
ConditionMethods(condition) == Tested(condition, {"method"}) \cap HttpMethods
ConditionPaths(file, condition) ==
  Tested(condition, {"pathname", "startsWith"})
    \cup {file.guards[n] : n \in Tested(condition, {"name"}) \cap DOMAIN file.guards}

\* extractConditionalRoutes: an if without a path of its own has those of the if
\* in whose then-branch it stands ("inside", 0 for none).
BranchPaths(file) ==
  LET at[i \in 0 .. Len(file.branches)] ==
        IF i = 0 THEN {}
        ELSE LET own == ConditionPaths(file, file.branches[i].condition)
             IN IF own # {} THEN own ELSE at[file.branches[i].inside]
  IN at
BranchSites(file) ==
  UNION {{RouteAt(m, p, "conditional-router", i) :
            m \in ConditionMethods(file.branches[i].condition), p \in BranchPaths(file)[i]} :
           i \in DOMAIN file.branches}

ControllerSites(file) ==
  UNION {{[RouteAt(d.method, Path(c.prefix \o d.suffix, ""), "nestjs", <<c, d>>)
             EXCEPT !.about = Path(c.prefix, "")] : d \in c.members} : c \in file.controllers}

\* Only a file called route below app/ has "exports" here; its path is its place.
NextSites(file) == {RouteAt(m, file.place, "nextjs-route", m) : m \in file.exports \cap HttpMethods}

ProgramEndpoints(file) ==
  {Fact("endpoint", <<file.name, s.method, s.path, s.adapter, s.at>>,
        [method |-> s.method, path |-> s.path, kind |-> s.kind, route |-> file.route,
         feature |-> FeatureOf(file, s.about)]) :
     s \in (UNION {CalledSites(file, i) : i \in DOMAIN file.calls})
             \cup BranchSites(file) \cup ControllerSites(file) \cup NextSites(file)}

\* The scripts inside string literals are programs of their own.
TypeScriptEndpoints(file) ==
  ProgramEndpoints(file) \cup UNION {ProgramEndpoints(script) : script \in file.scripts}

-----------------------------------------------------------------------------

StructuredEndpoints(file) ==
  CASE Adapter(file) = "openapi" -> {OpenApiEndpoint(file, o) : o \in ToSet(file.operations)}
    [] Adapter(file) = "typescript-ast" -> TypeScriptEndpoints(file)
    [] OTHER -> {}
SchemaFields(file) ==
  CASE Adapter(file) = "openapi" -> OpenApiFields(file)
    [] Adapter(file) = "json-schema" -> StandaloneFields(file)
    [] OTHER -> {}
================================================================================
