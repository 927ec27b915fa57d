------------------------------ MODULE MCDiscovery ------------------------------
(***************************************************************************)
(* Discovery for TLC: small projects and small sites, and claims about     *)
(* what is found that TLC refutes.                                         *)
(***************************************************************************)
EXTENDS Discovery

P(segments) == Path(segments, "")
Users == P(<<"users">>)
User == P(<<"users", ":id">>)
Posts == P(<<"users", ":id", "posts">>)
Post == P(<<"users", ":id", "posts", ":id">>)
Search == Path(<<"users">>, "q")
Paged == Path(<<"users">>, "page")
Root == P(<<>>)
Details == P(<<"details">>)
Old == P(<<"old">>)

O(method, path, fields) == [method |-> method, path |-> path, tag |-> "", fields |-> fields]
F(name, rules) == [field |-> name, rules |-> rules]

NoFile ==
  [name |-> "a", shape |-> {}, features |-> <<>>, route |-> P(<<"a">>), place |-> Nowhere,
   operations |-> <<>>, fields |-> {}, resource |-> Nowhere,
   constants |-> <<>>, calls |-> <<>>, functions |-> {}, mounts |-> <<>>, branches |-> <<>>, guards |-> <<>>,
   controllers |-> {}, exports |-> {}, scripts |-> {},
   matched |-> {}, controls |-> {}, aria |-> "", attributes |-> {},
   readable |-> TRUE, depth |-> 0, long |-> FALSE, head |-> <<>>]
Program(name) == [NoFile EXCEPT !.name = name, !.shape = {"program"}]

\* An OpenAPI document with a nested resource.
OpenApi ==
  [NoFile EXCEPT !.name = "api", !.shape = {"version", "paths"},
     !.operations = <<O("GET", Users, {}), O("POST", Users, {F("name", {"required", "minLength"})}),
                      O("PUT", Users, {F("name", {"enum"})}), O("DELETE", User, {}), O("GET", User, {}),
                      O("POST", Posts, {F("title", {"required"})}), O("GET", Post, {})>>]

Is(s) == <<"is", s>>
Of(n) == <<"of", n>>
Call(form, name, method, text, query) ==
  [form |-> form, name |-> name, method |-> method, args |-> <<text>>, query |-> query]

\* A client that calls the same operations, and one the document does not have,
\* through a wrapper of its own.
Client ==
  [Program("client") EXCEPT !.features = <<"users">>,
     !.constants = "BASE" :> <<"users">>,
     !.functions = {[name |-> "load", parameters |-> <<"n", "path">>,
                     calls |-> <<[method |-> "GET", mentions |-> {"path"}]>>]},
     !.calls = <<Call("member", "client", "GET", <<Of("path")>>, ""),
                 [Call("function", "load", "", <<Is("2")>>, "") EXCEPT
                    !.args = <<<<Is("2")>>, <<Of("BASE"), Of("id")>>>>],
                 Call("function", "fetch", "", <<Is("users")>>, "page"),
                 Call("options", "client", "", <<Of("BASE"), Of("path")>>, "q"),
                 Call("graphql", "gql", "", <<>>, "graphql_query")>>,
     !.attributes = {"name"}]

\* Routers below routers, in every order of the mounts.
Mounts ==
  {<<[parent |-> "app", child |-> "router", prefix |-> <<"api">>], "a">>,
   <<[parent |-> "router", child |-> "usersRouter", prefix |-> <<"users">>], "b">>,
   <<[parent |-> "usersRouter", child |-> "postsRouter", prefix |-> <<":id", "posts">>], "c">>}
Server(mounts) ==
  [Program("server") EXCEPT !.mounts = mounts,
     !.calls = <<Call("member", "usersRouter", "POST", <<Is("new")>>, ""),
                 Call("member", "postsRouter", "GET", <<Is("latest")>>, ""),
                 Call("member", "users", "GET", <<Is("all")>>, "")>>]
Servers == {Server([i \in 1 .. 3 |-> order[i][1]]) : order \in SetToSeqs(Mounts)}

T(property, value) == [property |-> property, value |-> value]
\* A server that tests paths and methods, one by decorators, one by files.
Branching ==
  [Program("branching") EXCEPT
     !.guards = "match" :> User,
     !.branches = <<[condition |-> {T("pathname", Users), T("name", "match"), T("name", "ready")}, inside |-> 0],
                    [condition |-> {T("method", "GET"), T("method", "POST")}, inside |-> 1],
                    [condition |-> {T("method", "PUT")}, inside |-> 0]>>,
     !.scripts = {[Program("script") EXCEPT
                     !.calls = <<Call("function", "fetch", "PATCH", <<Is("users"), Of("id")>>, "")>>]}]
Decorated ==
  [Program("decorated") EXCEPT
     !.controllers = {[prefix |-> <<"users">>,
                       members |-> {[method |-> "GET", suffix |-> <<>>],
                                    [method |-> "DELETE", suffix |-> <<":id">>]}]},
     !.calls = <<Call("route", "fastify", "PUT", <<Is("users")>>, ""),
                 Call("route", "fastify", "", <<Is("me")>>, ""),
                 Call("trpc", "users", "", <<>>, "rpc_query")>>,
     !.exports = {"GET", "helper"}, !.place = Post]

\* A page read with regular expressions.
Html ==
  [NoFile EXCEPT !.name = "html", !.features = <<"users">>, !.controls = {"q", "save"}, !.aria = "search",
     !.matched = {[method |-> "GET", path |-> Search]}, !.attributes = {"name", "age"}]

Fetches(name, paths) ==
  [Program(name) EXCEPT
     !.calls = [i \in DOMAIN paths |-> Call("function", "fetch", paths[i][1],
                                            [k \in DOMAIN paths[i][2] |-> Is(paths[i][2][k])], "")]]
\* Paths without a parameter and without POST.
Reports ==
  Fetches("reports", <<<<"GET", <<"a">>>>, <<"GET", <<"a", "b">>>>, <<"GET", <<"a", "b", "c">>>>,
                       <<"PUT", <<"a", "b">>>>>>)

\* GET on a page below a collection, and on a path beside it.
Mixed ==
  [Fetches("mixed", <<<<"POST", <<"users">>>>, <<"GET", <<"users", "active">>>>, <<"GET", <<"me">>>>>>)
     EXCEPT !.features = <<"users">>, !.attributes = {"name"}]

\* A schema of a resource that nothing else mentions.
Orders ==
  [NoFile EXCEPT !.name = "orders", !.shape = {"schema", "properties"}, !.features = <<"orders">>,
     !.fields = {F("total", {"minimum"})}, !.resource = P(<<"orders">>)]

Broken == [Reports EXCEPT !.name = "broken", !.readable = FALSE]

\* A document of which the first 100,000 bytes do not parse, so that nothing is found
\* in it; a program of which they end before the last call; and a file of a directory
\* too deep.
LongApi == [OpenApi EXCEPT !.long = TRUE, !.head = [NoFile EXCEPT !.name = "api"]]
LongReports ==
  [Reports EXCEPT !.name = "long", !.long = TRUE,
     !.head = [Reports EXCEPT !.name = "long", !.calls = SubSeq(@, 1, 2)]]
Deep == [Mixed EXCEPT !.name = "deep", !.depth = MaxDepth + 1]

Q(method, path) == Request(method, path, FALSE)
C(name, tag, to, sends) ==
  [name |-> name, tag |-> tag, to |-> to, sends |-> sends, mutating |-> FALSE, disabled |-> FALSE,
   relative |-> FALSE]

\* A home page that polls, with a button whose label does not say that it posts.
HomePage ==
  [lands |-> Root, look |-> "home", own |-> {Q("GET", Users)},
   controls |-> <<C("refresh", "button", Nowhere, {Q("POST", Users)}),
                  C("details", "a", Details, {})>>]
DetailsPage ==
  [lands |-> Details, look |-> "details", own |-> {Request("GET", Users, TRUE)},
   controls |-> <<[C("save", "button", Nowhere, {Q("DELETE", User)}) EXCEPT !.mutating = TRUE],
                  C("back", "a", Old, {})>>]
OldPage == [HomePage EXCEPT !.lands = Root]
Site == (Root :> HomePage) @@ (Details :> DetailsPage) @@ (Old :> OldPage)

\* The same site with a disabled control in front, and one that posts on arrival.
DisabledSite ==
  [Site EXCEPT ![Root].controls = <<[Head(@) EXCEPT !.disabled = TRUE]>> \o Tail(@)]
SearchSite ==
  [Site EXCEPT
     ![Root].controls = <<C("search", "button", Nowhere, {Q("GET", Search)}), C("go", "button", Details, {})>>,
     ![Details].own = {Q("POST", Users)}]

\* Two ways to one page, the longer one queued last: a page behind it is within reach by
\* the shorter one only.
Far == P(<<"far">>)
Link(to) == C("about", "a", to, {})
Plain(to, controls) == [lands |-> to, look |-> "plain", own |-> {}, controls |-> controls]
LinkedSite ==
  (Root :> Plain(Root, <<Link(Details), Link(Old)>>)) @@ (Old :> Plain(Old, <<Link(Details)>>))
    @@ (Details :> Plain(Details, <<Link(Far)>>)) @@ (Far :> Plain(Far, <<Link(Root)>>))

\* A page with a relative link behind one that leads into another directory.
Help == P(<<"docs", "help">>)
About == P(<<"about">>)
Missing == P(<<"docs", "about">>)
RelativeSite ==
  (Root :> Plain(Root, <<Link(Help), [Link(About) EXCEPT !.relative = TRUE]>>))
    @@ (Help :> Plain(Help, <<>>)) @@ (About :> Plain(About, <<>>)) @@ (Missing :> Plain(Missing, <<>>))

Static(files) ==
  [files |-> files, manyDirectories |-> FALSE, target |-> FALSE, allowed |-> TRUE,
   routes |-> 8, pages |-> Site, start |-> Root, policy |-> {}, interactions |-> 2]
Live(files, pages, policy, interactions) ==
  [Static(files) EXCEPT !.target = TRUE, !.pages = pages, !.policy = policy,
                        !.interactions = interactions]

Tight(routes, conf) == [conf EXCEPT !.routes = routes]

All == {"trusted", "mutating", "isolated"}

MCSettings ==
  {Static(<<server, Orders>>) : server \in Servers} \cup
  {Static(<<Branching>>), Static(<<Decorated>>), Static(<<OpenApi, Client>>), Static(<<Client, Orders>>), Static(<<Client, Html>>), Static(<<Reports, Html>>),
   Static(<<Mixed, Broken>>), Static(<<Mixed, Reports>>), Static(<<Html, Mixed, Broken, Client>>),
   [Static(<<Mixed>>) EXCEPT !.manyDirectories = TRUE],
   [Static(<<>>) EXCEPT !.target = TRUE, !.allowed = FALSE],
   Live(<<>>, Site, All, 2), Live(<<>>, DisabledSite, {"trusted", "mutating"}, 2),
   Static(<<LongApi, Deep, Html>>), Static(<<Deep, LongReports>>),
   Live(<<>>, LinkedSite, {}, 1), Live(<<>>, RelativeSite, {}, 1), Live(<<>>, SearchSite, {}, 0), Live(<<Html, Mixed>>, Site, {}, 0),
   Tight(3, Static(<<Mixed, Reports>>)), Tight(3, Live(<<Html>>, SearchSite, {}, 1)),
   Tight(4, Live(<<Html, Mixed>>, Site, {}, 2)), Tight(4, Live(<<Html, Mixed>>, Site, {}, 0))}

\* A field that a request schema declares is bound to the resource of the operation
\* whose request it describes (the check m11-fields-bind-only-to-their-resource).
FieldsBindToTheirResource ==
  Built =>
    \A i \in DOMAIN Project : \A k \in DOMAIN Project[i].operations :
      LET o == Project[i].operations[k] IN
      \A f \in FieldFacts : f.field \in {p.field : p \in o.fields} /\ o.method = "POST" =>
        Home(f) = ResourceOf(<<"POST", o.path>>)

\* "Static/live budgets produce explicit Blocker output.", docs/M9.5-milestone-report.md:20:
\* without a blocker every endpoint of every file is a fact, and every page that links
\* lead to was seen.
CutsAreReported ==
  Built /\ Observed =>
    /\ \A file \in ToSet(setting.files) : file.readable =>
         \A e \in EndpointsOf(file) : \E f \in facts : f.id = e.id
    /\ setting.target /\ ~SinglePage => SeenAlong({FALSE})

\* LinkedPagesAreSeen of relative links as well: behind a click they are looked for in
\* another directory.
LinksAreFollowed ==
  Built /\ Observed /\ setting.target /\ ~SinglePage /\ Cardinality(discovered) < MaxRoutes =>
    SeenAlong(BOOLEAN)

\* What the wrappers, fetch and the clients keep out of the facts, the forms of options
\* and of route objects let in.
NoPathLeftUnresolved ==
  Built => \A f \in OfType({"endpoint"}) : Unresolved \notin ToSet(f.path.seg)
================================================================================
