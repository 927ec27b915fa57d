------------------------------- MODULE Discovery -------------------------------
(***************************************************************************)
(* discover(): the static pass over the files of a project, then the live  *)
(* exploration of its target in a browser, then the ApplicationGraph over  *)
(* what both found.                                                        *)
(*                                                                         *)
(* The explorer is one async function that stops at every call of the      *)
(* browser. While it waits, the page sends requests and receives answers   *)
(* of its own accord; their handlers read what the explorer left in        *)
(* activeInteraction, and the timer of the live budget may close the       *)
(* browser under it. One action is one step of the explorer up to its next *)
(* await, one event of the network, or the timer.                          *)
(*                                                                         *)
(* A URL is a path (ApplicationGraph); origins are kept only as the flag   *)
(* "foreign" of a request.                                                 *)
(***************************************************************************)
EXTENDS StaticAdapters

CONSTANTS
  Settings,      \* projects, targets and policies to start from
  MaxFiles,      \* budget.max_files
  MaxDepth,      \* budget.max_depth, of directories and of the live queue
  MaxControls,   \* budget.max_controls_per_route
  MaxNetwork     \* budget.max_network_observations

ASSUME BudgetAssumption ==
  {MaxFiles, MaxDepth, MaxControls, MaxNetwork} \subseteq Nat

VARIABLES
  setting,       \* the project, the target and the policy of this discovery
  pc,            \* where discover() stands
  read,          \* files read so far
  discovered,    \* discoveredRoutes
  blockers,      \* blockers; budget_exceeded as soon as there is one
  queue, current, visited, states,   \* the explorer's queue, head, routeKeys, stateKeys
  control, tried,  \* the next control of the current page, interactions tried on it
  active,        \* activeInteraction
  document,      \* the page the browser shows
  due, inflight, \* requests this document will still send, and unanswered ones
  live,          \* networkCount and the facts of the explorer
  late,          \* the live budget has run out
  open           \* browser resources that are open

explorer == <<queue, current, visited, states, control, tried, active>>
browser == <<document, due, inflight, live>>
vars == <<setting, pc, read, discovered, blockers, explorer, browser, late, open,
          graphVars>>

\* operationKind of the explorer does not know pagination.
LiveKind(method, path) ==
  IF path.query = "q" THEN "search" ELSE ByMethod(method)

-----------------------------------------------------------------------------
(* The static pass.                                                           *)

\* readBounded reads the first 100,000 bytes of a file; of a long one the adapters
\* see this head alone, and nothing says so.
Seen(file) == IF file.long THEN file.head ELSE file

\* walk() returns where it is deeper than max_depth, and nothing says so either.
Listed(s) == SelectSeq(s.files, LAMBDA file : file.depth <= MaxDepth)

\* What the adapters see of a project.
Sources(s) == [i \in DOMAIN Listed(s) |-> Seen(Listed(s)[i])]
Project == Sources(setting)
MaxRoutes == setting.routes      \* budget.max_routes, shared by both passes
File == Project[read + 1]

FallbackFeature(file) ==
  IF file.features = <<>> THEN "unknown_feature" ELSE Head(file.features)

\* The regular expressions are the fallback of the adapters.
FallbackEndpoints(file) ==
  {Fact("endpoint", <<file.name, d.method, d.path, "regex">>,
        [method |-> d.method, path |-> d.path, kind |-> LiveKind(d.method, d.path),
         route |-> file.route, feature |-> FallbackFeature(file)]) : d \in file.matched}
FallbackFields(file) ==
  IF Adapter(file) \in {"openapi", "json-schema"} THEN {}
  ELSE {Fact("validation", <<file.name, name>>,
             [field |-> name, feature |-> FallbackFeature(file)]) : name \in file.attributes}

EndpointsOf(file) ==
  IF StructuredEndpoints(file) # {} THEN StructuredEndpoints(file)
  ELSE FallbackEndpoints(file)
\* The first aria-label of a file names every control in it. A file has its first
\* max_controls_per_route controls only, without a word about the others.
ControlsOf(file) ==
  {Fact("control", <<file.name, file.route, name>>,
        [route |-> file.route, control |-> name, name |-> file.aria,
         feature |-> FallbackFeature(file)]) : name \in file.controls}

\* A project lists finite files. What an expression says is put together by
\* FlattenSeq and by the passes over the mounts: that the outcome is a path is
\* evaluated here for every file. An object of OpenAPI has a key once, and two of its
\* paths do not differ in the names of their parameters only; the scripts of a file
\* are named after it and their positions.
ASSUME FilesAssumption ==
  \A s \in Settings :
    /\ Sources(s) \in Seq(ToSet(Sources(s)))
    /\ s.routes \in Nat
    /\ \A file \in ToSet(Sources(s)) :
         /\ IsFiniteSet(EndpointsOf(file))
         /\ \A f \in EndpointsOf(file) : f.path.seg \in Seq(STRING)
         /\ file.operations \in Seq(ToSet(file.operations))
         /\ \A o, p \in ToSet(file.operations) :
              o.method = p.method /\ o.path = p.path => o = p
         /\ \A script \in file.scripts :
              /\ script.name # file.name
              /\ \A other \in file.scripts : script.name = other.name => script = other

RouteKey(f) == <<f.method, f.path>>

\* The loop over the endpoints of a file ends where the route budget does: the
\* kept ones open as many new routes as are left, or all of them.
WithinRoutes(fs, kept) ==
  LET opened(s) == {RouteKey(f) : f \in s} \ discovered
      room == MaxRoutes - Cardinality(discovered)
  IN /\ kept \subseteq fs
     /\ Cardinality(opened(kept)) <= room
     /\ kept # fs => Cardinality(opened(kept)) = room /\ opened(fs) # opened(kept)

Init ==
  /\ setting \in Settings
  /\ pc = "walk" /\ read = 0
  /\ discovered = {} /\ blockers = {}
  /\ queue = <<>> /\ current = [url |-> Nowhere, depth |-> 0, via |-> NoId]
  /\ visited = {} /\ states = {}
  /\ control = 1 /\ tried = 0 /\ active = NoId
  /\ document = Nowhere /\ due = {} /\ inflight = {}
  /\ live = [count |-> 0, facts |-> {}]
  /\ late = FALSE /\ open = {}
  /\ facts = {} /\ GraphInit

\* walk() lists the files that are not too deep, or is ended by the budget of
\* directories or of time; what it listed until then is read.
Walk ==
  /\ pc = "walk"
  /\ \/ /\ ~setting.manyDirectories
        /\ blockers' = IF Len(Project) > MaxFiles THEN {"FILES"} ELSE {}
     \/ \E more \in SUBSET {"FILES"} :
          /\ more # {} => Len(Project) > MaxFiles
          /\ blockers' = more \cup {IF setting.manyDirectories THEN "DIRECTORIES" ELSE "STATIC"}
  /\ pc' = "read"
  /\ UNCHANGED <<setting, read, discovered, explorer, browser, late, open, graphVars>>

\* readBounded: a file that cannot be read has no source, and no facts.
ReadBounded(found) == IF File.readable THEN found ELSE {}

ReadFile ==
  /\ pc = "read" /\ read < Len(Project) /\ read < MaxFiles /\ "STATIC" \notin blockers
  /\ read' = read + 1
  /\ LET found == ReadBounded(EndpointsOf(File))
         others == ReadBounded(ControlsOf(File) \cup SchemaFields(File) \cup FallbackFields(File))
     IN \E kept \in SUBSET found :
          /\ WithinRoutes(found, kept)
          /\ facts' = Put(facts, kept \cup others)
          /\ discovered' = discovered \cup {RouteKey(f) : f \in kept}
          /\ blockers' = IF kept = found THEN blockers ELSE blockers \cup {"ROUTES"}
  /\ UNCHANGED <<setting, pc, explorer, browser, late, open, ungrouped, candidates>>

\* The loop ends after the last file, at the budget of files, or where the time
\* is over, before, in or after a file.
EndRead ==
  /\ pc = "read"
  /\ \/ read = Len(Project) /\ UNCHANGED blockers
     \/ read < Len(Project) /\ read = MaxFiles /\ blockers' = blockers \cup {"FILES"}
     \/ blockers \cap {"DIRECTORIES", "STATIC"} # {} /\ UNCHANGED blockers
     \/ blockers' = blockers \cup {"STATIC"}
  /\ pc' = CASE ~setting.target -> "correlate"
             [] setting.target /\ ~setting.allowed -> "failed"
             [] OTHER -> "launch"
  /\ UNCHANGED <<setting, read, discovered, explorer, browser, late, open, graphVars>>

-----------------------------------------------------------------------------
(* The live pass: the network and the timer.                                  *)

Pages == setting.pages

MutationEnabled == setting.policy = {"trusted", "mutating", "isolated"}
SinglePage == setting.interactions = 0

Request(method, path, foreign) == [method |-> method, path |-> path, foreign |-> foreign]
DocumentRequest(url) == Request("GET", url, FALSE)

\* Where the last name of a relative address is found from a page.
Beside(page, to) ==
  Path((IF page.seg = <<>> THEN <<>> ELSE Front(page.seg)) \o <<Last(to.seg)>>, to.query)

\* The browser shows something for every address that the target names, if only an
\* error, and every request it sends has a path.
ASSUME PagesAssumption ==
  \A s \in Settings :
    LET Sent(requests) == \A q \in requests : q.path.seg \in Seq(STRING) IN
    /\ s.start \in DOMAIN s.pages /\ s.interactions \in Nat
    /\ \A url \in DOMAIN s.pages :
         /\ url.seg \in Seq(STRING)
         /\ s.pages[url].lands \in DOMAIN s.pages
         /\ Sent(s.pages[url].own)
         /\ s.pages[url].controls \in Seq(ToSet(s.pages[url].controls))
         /\ \A c \in ToSet(s.pages[url].controls) :
              /\ c.to \in DOMAIN s.pages \cup {Nowhere} /\ Sent(c.sends)
              /\ c.relative => \A page \in DOMAIN s.pages : Beside(page, c.to) \in DOMAIN s.pages

LiveFeature(words) ==
  CASE "search" \in words -> "live.search"
    [] words \cap {"next", "back", "details", "about"} # {} -> "live.navigation"
    [] OTHER -> "live.ui"

\* page.on("request"): everything that is sent counts, what goes to an allowed
\* origin is a fact, on account of the interaction that is active.
Heard(log, q, by) ==
  IF log.count >= MaxNetwork THEN log
  ELSE [count |-> log.count + 1,
        facts |-> log.facts \cup
          IF q.foreign THEN {}
          ELSE {Fact("endpoint", <<"runtime", q.method, q.path, by>>,
                     [method |-> q.method, path |-> q.path, route |-> Path(q.path.seg, ""),
                      kind |-> LiveKind(q.method, q.path), by |-> by,
                      feature |-> LiveFeature(ToSet(q.path.seg))])}]

\* page.on("response")
Answered(log, q, by) ==
  IF log.count >= MaxNetwork \/ q.foreign THEN log
  ELSE [log EXCEPT !.facts = @ \cup
          {Fact("runtime_response", <<q.method, q.path, by>>,
                [method |-> q.method, path |-> q.path, by |-> by])}]

\* The browser has loaded a document: the old one, with all it had under way, is gone.
Load(url, by) ==
  LET Served(log, u) ==
        Answered(Heard(log, DocumentRequest(u), by), DocumentRequest(u), by)
      landed == Pages[url].lands
  IN /\ document' = landed
     /\ due' = Pages[landed].own
     /\ inflight' = {}
     /\ live' = IF landed = url THEN Served(live, url) ELSE Served(Served(live, url), landed)

Browsing == {"settle", "observe", "resettle", "click", "wait", "post", "single"}

\* context.route: what may leave the browser.
LetThrough(q) ==
  /\ ~q.foreign
  /\ SinglePage \/ MutationEnabled \/ q.method \notin Mutating

Send ==
  /\ pc \in Browsing /\ ~late
  /\ \E q \in due :
       /\ due' = due \ {q}
       /\ live' = Heard(live, q, active)
       /\ inflight' = IF LetThrough(q) THEN inflight \cup {q} ELSE inflight
  /\ UNCHANGED <<setting, pc, read, discovered, blockers, explorer, document, late, open,
                 graphVars>>

Answer ==
  /\ pc \in Browsing /\ ~late
  /\ \E q \in inflight :
       /\ inflight' = inflight \ {q}
       /\ live' = Answered(live, q, active)
  /\ UNCHANGED <<setting, pc, read, discovered, blockers, explorer, document, due, late,
                 open, graphVars>>

Awaiting == {"launch", "goto", "settle", "observe", "revisit", "resettle", "click", "wait",
             "post", "single"}
Exploring == Awaiting \cup {"top", "pick"}

\* Mutant: the page alone is closed.
ClosePageOnly == open' = open \ {"page"}
CloseLiveResources == open' = {}

\* The timer of the live budget aborts, and closes what is registered as open.
Timeout ==
  /\ pc \in Exploring /\ ~late
  /\ late' = TRUE
  /\ CloseLiveResources
  /\ UNCHANGED <<setting, pc, read, discovered, blockers, explorer, browser, graphVars>>

\* Mutant: the exception is not reported.
ThrowQuietly(code) ==
  /\ pc' = "closing"
  /\ live' = [count |-> 0, facts |-> {}]
  /\ UNCHANGED <<setting, read, discovered, blockers, explorer, document, due, inflight,
                 late, open, graphVars>>

\* An exception leaves the explorer; nothing it found is kept.
Throw(code) ==
  /\ pc' = "closing"
  /\ blockers' = blockers \cup {code}
  /\ live' = [count |-> 0, facts |-> {}]
  /\ UNCHANGED <<setting, read, discovered, explorer, document, due, inflight, late, open,
                 graphVars>>

\* Every wait of the explorer ends once the browser is closed, or with what is left
\* of the time if it was given that. An exhausted budget is met there, or at the head
\* of the loop if there is a page left to visit: not while controls are picked and
\* links followed, and a click catches it (ClickFails).
OverBudget ==
  /\ late
  /\ \/ pc \in Awaiting \ {"click", "wait"} /\ open = {}
     \/ pc \in {"goto", "revisit"}
     \/ pc = "top" /\ queue # <<>> /\ Cardinality(visited) < MaxRoutes
  /\ Throw("LIVE")
\* A page that does not load or that dies, a browser that does not start. After the
\* timer, whatever fails is put down to the budget.
BrowserFails == pc \in Awaiting \ {"click", "wait"} /\ ~late /\ Throw("ERROR")

-----------------------------------------------------------------------------
(* The live pass: the explorer.                                               *)

\* browser, context and page are opened and registered one after the other; what
\* is registered after the timer is closed at once.
Launch ==
  /\ pc = "launch"
  /\ \E r \in {"browser", "context", "page"} :
       /\ open = CASE r = "browser" -> {} [] r = "context" -> {"browser"}
                   [] r = "page" -> {"browser", "context"}
       /\ open' = IF late THEN {} ELSE open \cup {r}
       /\ pc' = IF ~late /\ r = "page" THEN (IF SinglePage THEN "goto" ELSE "top") ELSE pc
  /\ queue' = IF pc' = "top" THEN <<[url |-> setting.start, depth |-> 0, via |-> NoId]>>
              ELSE queue
  /\ current' = [url |-> setting.start, depth |-> 0, via |-> NoId]
  /\ UNCHANGED <<setting, read, discovered, blockers, visited, states, control, tried,
                 active, browser, late, graphVars>>

PageKey(url) == <<"PAGE", url>>

\* Mutant: the pages of the live pass alone are counted.
NoRouteLeftVisited(url) == PageKey(url) \notin discovered /\ Cardinality(visited) >= MaxRoutes
NoRouteLeft(url) == PageKey(url) \notin discovered /\ Cardinality(discovered) >= MaxRoutes

\* The explorer returns what it found.
Return ==
  /\ pc' = "closing"
  /\ facts' = Put(facts, live.facts)
  /\ UNCHANGED <<setting, read, blockers, browser, late, open, ungrouped, candidates>>

\* No page is left, or the routes of the live pass are used up, whatever the time; or
\* the static pass has used up those of both (break).
Finish ==
  /\ pc = "top"
  /\ \/ queue = <<>> \/ Cardinality(visited) >= MaxRoutes
     \/ /\ ~late /\ queue # <<>> /\ Head(queue).depth <= MaxDepth /\ Head(queue).url \notin visited
        /\ NoRouteLeft(Head(queue).url)
  /\ Return
  /\ UNCHANGED <<explorer, discovered>>

\* The head of the queue is too deep, or was visited since it was queued.
Skip(item) ==
  /\ item.depth > MaxDepth \/ item.url \in visited
  /\ UNCHANGED <<pc, discovered, current, visited, active>>

Visit(item) ==
  /\ item.depth <= MaxDepth /\ item.url \notin visited /\ ~NoRouteLeft(item.url)
  /\ visited' = visited \cup {item.url}
  /\ discovered' = discovered \cup {PageKey(item.url)}
  /\ current' = item
  /\ active' = item.via
  /\ pc' = "goto"

\* Mutant: the page queued last is visited first.
DequeueLast ==
  /\ pc = "top" /\ ~late
  /\ queue # <<>> /\ Cardinality(visited) < MaxRoutes
  /\ queue' = Front(queue)
  /\ Skip(Last(queue)) \/ Visit(Last(queue))
  /\ UNCHANGED <<setting, read, blockers, states, control, tried, browser, late, open,
                 graphVars>>
Dequeue ==
  /\ pc = "top" /\ ~late
  /\ queue # <<>> /\ Cardinality(visited) < MaxRoutes
  /\ queue' = Tail(queue)
  /\ Skip(Head(queue)) \/ Visit(Head(queue))
  /\ UNCHANGED <<setting, read, blockers, states, control, tried, browser, late, open,
                 graphVars>>

Goto ==
  /\ pc \in {"goto", "revisit"} /\ ~late
  /\ Load(current.url, active)
  /\ pc' = CASE pc = "revisit" -> "resettle" [] pc = "goto" /\ SinglePage -> "single"
             [] OTHER -> "settle"
  /\ UNCHANGED <<setting, read, discovered, blockers, explorer, late, open, graphVars>>

Settle ==
  /\ pc \in {"settle", "wait"}
  /\ active' = NoId
  /\ pc' = IF pc = "settle" THEN "observe" ELSE "post"
  /\ UNCHANGED <<setting, read, discovered, blockers, queue, current, visited, states,
                 control, tried, browser, late, open, graphVars>>

Here == Pages[current.url].lands      \* the route the current page was found at
Shown == LET all == Pages[Here].controls
             IN SubSeq(all, 1, IF Len(all) < MaxControls THEN Len(all) ELSE MaxControls)
State(url) == <<url, Pages[url].look>>

ControlFact(i) ==
  LET c == Shown[i]
  IN Fact("control", <<"live", Here, c.name, i>>,
          [route |-> Here, control |-> c.name, tag |-> c.tag, name |-> c.name,
           feature |-> LiveFeature({c.name})])
Interaction(i) ==
  Fact("interaction", <<Here, ControlFact(i).id, Pages[Here].look>>,
       [route |-> Here, controlFact |-> ControlFact(i).id])

\* What was under way when the timer struck may still succeed, here as in Settle,
\* Prepare and Record. A page in a known state is left; of a new one, route and controls are facts.
Observe ==
  /\ pc = "observe"
  /\ IF State(document) \in states
       THEN pc' = "top" /\ UNCHANGED <<states, live, control, tried>>
       ELSE /\ pc' = "pick"
            /\ states' = states \cup {State(document)}
            /\ live' = [live EXCEPT !.facts = @
                          \cup {Fact("route", State(document), [route |-> document])}
                          \cup {ControlFact(i) : i \in DOMAIN Shown}]
            /\ control' = 1 /\ tried' = 0
  /\ UNCHANGED <<setting, read, discovered, blockers, queue, current, visited, active,
                 document, due, inflight, late, open, graphVars>>

\* Controls are tried in turn, until enough were or a disabled one is met.
Exhausted ==
  \/ control \notin DOMAIN Shown \/ tried >= setting.interactions
  \/ control \in DOMAIN Shown /\ Shown[control].disabled
Explorable(c) == (c.mutating => MutationEnabled) /\ c.tag \in {"a", "button"}

Pick ==
  /\ pc = "pick" /\ ~Exhausted
  /\ IF Explorable(Shown[control])
       THEN pc' = "revisit" /\ tried' = tried + 1 /\ UNCHANGED control
       ELSE control' = control + 1 /\ UNCHANGED <<pc, tried>>
  /\ UNCHANGED <<setting, read, discovered, blockers, queue, current, visited, states,
                 active, browser, late, open, graphVars>>

Prepare ==
  /\ pc = "resettle"
  /\ active' = Interaction(control).id
  /\ live' = [live EXCEPT !.facts = @ \cup {Interaction(control)}]
  /\ pc' = "click"
  /\ UNCHANGED <<setting, read, discovered, blockers, queue, current, visited, states,
                 control, tried, document, due, inflight, late, open, graphVars>>

Click ==
  /\ pc = "click" /\ ~late
  /\ LET c == Shown[control]
     IN IF c.to # Nowhere THEN Load(c.to, active)
        ELSE due' = due \cup c.sends /\ UNCHANGED <<document, inflight, live>>
  /\ pc' = "wait"
  /\ UNCHANGED <<setting, read, discovered, blockers, explorer, late, open, graphVars>>

\* Mutant: the interaction stays active.
ClickFailsActive ==
  /\ pc \in {"click", "wait"}
  /\ control' = control + 1
  /\ pc' = "pick"
  /\ UNCHANGED <<setting, read, discovered, blockers, queue, current, visited, states,
                 tried, active, browser, late, open, graphVars>>

\* The control cannot be clicked in time, or the time is over; the next one is tried.
ClickFails ==
  /\ pc \in {"click", "wait"}
  /\ active' = NoId
  /\ control' = control + 1
  /\ pc' = "pick"
  /\ UNCHANGED <<setting, read, discovered, blockers, queue, current, visited, states,
                 tried, browser, late, open, graphVars>>

Child(url, via) == [url |-> url, depth |-> current.depth + 1, via |-> via]
Worth(url) == current.depth < MaxDepth /\ url \notin visited

\* What the interaction led to: the new state of the page, and the requests that
\* were heard while it was active.
Record ==
  /\ pc = "post"
  /\ LET i == Interaction(control).id
         caused == {f \in live.facts : f.type = "endpoint" /\ f.by = i}
     IN /\ live' = [live EXCEPT !.facts = @
              \cup {Fact("ui_mutation", <<i, Pages[document].look>>, [route |-> document, by |-> i])}
              \cup {Fact("correlation", <<ControlFact(control).id, e.id, i>>,
                         [controlFact |-> ControlFact(control).id, endpointFact |-> e.id,
                          route |-> Here]) : e \in caused}]
        /\ queue' = IF document # Here /\ Worth(document)
                      THEN Append(queue, Child(document, i)) ELSE queue
  /\ control' = control + 1
  /\ pc' = "pick"
  /\ UNCHANGED <<setting, read, discovered, blockers, current, visited, states, tried,
                 active, document, due, inflight, late, open, graphVars>>

\* The n-th of a set of numbers.
Nth(S, n) == CHOOSE i \in S : Cardinality({j \in S : j < i}) = n - 1
\* Where a link leads: a relative one is resolved against the page that the browser
\* shows now, and that is where the last click went.
Leads(i) == IF Shown[i].relative THEN Beside(document, Shown[i].to) ELSE Shown[i].to
Links ==
  {i \in DOMAIN Shown : Shown[i].tag = "a" /\ Shown[i].to # Nowhere /\ Worth(Leads(i))}

Follow ==
  /\ pc = "pick" /\ Exhausted
  /\ queue' = queue \o [n \in 1 .. Cardinality(Links) |-> Child(Leads(Nth(Links, n)), NoId)]
  /\ pc' = "top"
  /\ UNCHANGED <<setting, read, discovered, blockers, current, visited, states, control,
                 tried, active, browser, late, open, graphVars>>

\* discoverTargetSinglePage, for a budget without interactions.
Single ==
  /\ pc = "single" /\ ~late
  /\ IF NoRouteLeft(document) THEN Throw("ROUTES")
     ELSE /\ discovered' = discovered \cup {PageKey(document)}
          /\ pc' = "closing"
          /\ facts' = Put(facts, live.facts \cup {ControlFact(i) : i \in DOMAIN Shown})
          /\ UNCHANGED <<setting, read, blockers, explorer, browser, late, open, ungrouped,
                         candidates>>

-----------------------------------------------------------------------------
(* The end of discover(), and the graph.                                      *)

\* The finally blocks of the explorer and of discover().
Close ==
  /\ pc = "closing"
  /\ CloseLiveResources
  /\ pc' = "correlate"
  /\ UNCHANGED <<setting, read, discovered, blockers, explorer, browser, late, graphVars>>

\* A control called search belongs to every endpoint that takes a query.
SearchLink(c, e) ==
  Fact("correlation", <<c.id, e.id>>,
       [controlFact |-> c.id, endpointFact |-> e.id, feature |-> "todo.search",
        route |-> c.route])
Searches ==
  LET controls == {f \in facts : f.type = "control" /\ f.name = "search"}
      endpoints == {f \in facts : f.type = "endpoint" /\ f.path.query = "q"}
  IN UNION {{SearchLink(c, e) : e \in endpoints} : c \in controls}

Correlate ==
  /\ pc = "correlate"
  /\ StartGraph(Put(facts, Searches))
  /\ pc' = "graph"
  /\ UNCHANGED <<setting, read, discovered, blockers, explorer, browser, late, open>>

GroupNext ==
  /\ pc = "graph"
  /\ \/ Group /\ UNCHANGED pc
     \/ ungrouped = {} /\ pc' = "built" /\ UNCHANGED graphVars
  /\ UNCHANGED <<setting, read, discovered, blockers, explorer, browser, late, open>>

\* What scenario_observations say of every feature.
Observed == blockers = {}

Explore ==
  \/ Launch \/ Finish \/ Dequeue \/ Goto \/ Settle \/ Observe \/ Pick \/ Prepare
  \/ Click \/ ClickFails \/ Record \/ Follow \/ Single

Next ==
  \/ Walk \/ ReadFile \/ EndRead
  \/ Explore \/ Send \/ Answer \/ Timeout \/ OverBudget \/ BrowserFails
  \/ Close \/ Correlate \/ GroupNext

Spec == Init /\ [][Next]_vars

\* Files are read, results assembled, controls picked and pages dequeued by synchronous
\* code, a timer expires, and once it has, no wait goes on. Until then the browser may
\* keep the explorer waiting for ever.
Fairness ==
  /\ WF_vars(Walk \/ ReadFile \/ EndRead \/ Close \/ Correlate \/ GroupNext)
  /\ WF_vars(Finish \/ Dequeue \/ Pick \/ Follow)
  /\ WF_vars(Timeout)
  /\ WF_vars(OverBudget)
  /\ WF_vars(late /\ ClickFails)

FairSpec == Spec /\ Fairness

-----------------------------------------------------------------------------
(* Properties.                                                                *)

Built == pc = "built"

TypeOK ==
  /\ setting \in Settings
  /\ pc \in Exploring \cup {"walk", "read", "closing", "correlate", "graph", "built", "failed"}
  /\ read \in 0 .. Len(Project)
  /\ Cardinality(discovered) <= MaxRoutes
  /\ blockers \subseteq {"FILES", "DIRECTORIES", "STATIC", "ROUTES", "LIVE", "ERROR"}
  /\ Cardinality(visited) <= MaxRoutes /\ visited \subseteq DOMAIN Pages
  /\ \A i \in DOMAIN queue : queue[i].depth <= MaxDepth
  /\ live.count <= MaxNetwork /\ tried <= setting.interactions
  /\ open \subseteq {"browser", "context", "page"}
  /\ \A f, g \in facts : f.id = g.id => f = g
  /\ ungrouped \subseteq Operations /\ \A c \in candidates : IsPrefix(<<>>, c)

\* The ways from a root to a router: each mount hangs below the one before.
MountChains(file, router) ==
  {chain \in UNION {[1 .. n -> ToSet(file.mounts)] : n \in 1 .. Len(file.mounts)} :
     /\ Head(chain).parent \in Roots /\ Last(chain).child = router
     /\ \A i \in 1 .. Len(chain) - 1 : chain[i].child = chain[i + 1].parent}

\* A route of a mounted router that has a path (Resolved) is found where the program
\* serves it, under the prefixes of the whole chain of mounts, whatever the order in
\* which the mounts are written.
RoutesAsServed ==
  Built => \A i \in 1 .. read : "ROUTES" \notin blockers /\ Project[i].readable =>
    \A k \in DOMAIN Project[i].calls :
      LET call == Project[i].calls[k]
          chains == MountChains(Project[i], call.name)
          Prefix(chain) == FlattenSeq([n \in DOMAIN chain |-> chain[n].prefix])
          text == TextOf(call.args[1], Project[i].constants)
      IN call.form = "member" /\ call.name \in HttpReceivers /\ chains # {} /\ Resolved(text) =>
           \E f \in facts, chain \in chains :
             f.type = "endpoint" /\ f.method = call.method /\ f.path.seg = Prefix(chain) \o text

\* activeInteraction is shared by the explorer and the handlers of the network: a
\* request is put to the account of a control only while that control of the page
\* at hand is being clicked, or while the page it led to is loaded.
AttributedWhileActive ==
  [][\A f \in live'.facts \ live.facts :
       f.type \in {"endpoint", "runtime_response"} /\ f.by # NoId =>
         \/ pc \in {"click", "wait"} /\ f.by = Interaction(control).id
         \/ pc \in {"goto", "settle", "single"} /\ f.by = current.via]_vars

\* scenario_observations call a feature observed only if no blocker was met: then no
\* file that the walk listed was left out, every endpoint in what was read of a file is
\* a fact, and the entry page of the target was seen, unless files and pages together
\* have used up the routes. It does not say that nothing was cut. Without a blocker go:
\* directories below max_depth and what follows the first 100,000 bytes of a file (the
\* two of CutsAreReported in MCDiscovery), controls above max_controls_per_route, pages
\* below max_depth, requests above max_network_observations, interactions above
\* max_interactions_per_route or behind a disabled control, what the break of Finish
\* leaves, and the last clicks if the time is over.
ObservedWasRead ==
  Built /\ Observed =>
    /\ \A i \in DOMAIN Project : Project[i].readable =>
         \A e \in EndpointsOf(Project[i]) : \E f \in facts : f.id = e.id
    /\ setting.target /\ ~SinglePage /\ Cardinality(discovered) < MaxRoutes =>
         \E f \in OfType({"route"}) : f.route = Pages[setting.start].lands

\* The ways of n links, among the controls that are shown, that begin at the entry:
\* absolute links, relative ones, or both.
LinkedFrom(url, relative) ==
  LET all == Pages[Pages[url].lands].controls
  IN {all[i].to : i \in {k \in DOMAIN all : /\ k <= MaxControls /\ all[k].tag = "a"
                                           /\ all[k].to # Nowhere
                                           /\ all[k].relative \in relative}}
Ways(n, relative) ==
  {way \in [0 .. n -> DOMAIN Pages] :
     /\ way[0] = setting.start
     /\ \A i \in 1 .. n : way[i] \in LinkedFrom(way[i - 1], relative)}

SeenAlong(relative) ==
  \A n \in 0 .. MaxDepth : \A way \in Ways(n, relative) :
    \E f \in OfType({"route"}) : f.route = Pages[way[n]].lands

\* An exploration that met no blocker and kept within the routes has seen every page
\* that absolute links lead to in max_depth steps: no page is passed over because it
\* was queued twice, reached the long way first or known from another address, or
\* because the time ended in a click. Relative links are not always followed (Leads).
LinkedPagesAreSeen ==
  Built /\ Observed /\ setting.target /\ ~SinglePage /\ Cardinality(discovered) < MaxRoutes =>
    SeenAlong({FALSE})

\* Whatever the page keeps the explorer waiting for, discovery ends, and leaves no
\* browser behind: the timer closes what is open, and what opens later.
DiscoveryEnds == <>(pc \in {"built", "failed"} /\ open = {})

\* Nothing found is lost in the graph, and the graph claims nothing it cannot
\* show: every endpoint, control and field fact is in a node, whatever the budgets
\* cut away around it; a bound field belongs to a resource of the graph; an edge
\* joins two nodes and rests on facts; a correlation links a control with an
\* operation.
EvidenceKept ==
  Built =>
    /\ \A f \in OfType({"endpoint", "control", "field", "validation"}) :
         \E n \in Nodes : f \in EvidenceOf(n)
    /\ \A x \in Fields : x[1] \in Resources \cup {Unbound}
    /\ \A e \in Edges : /\ {e.from, e.to} \subseteq Nodes
                        /\ e.evidence # {} /\ e.evidence \subseteq facts
    /\ \A d \in Diagnostics : d.code # "UNLINKED_CORRELATION"

\* The operations a fixture is made of come together: what reads or changes an item
\* belongs to the resource in which a POST creates it, whatever else the graph has
\* (a POST to the item's own path makes it a collection of its own). And the order
\* in which the last operations are grouped, that of their hashed ids, moves no
\* operation out of the collection that a parameter or a POST names.
ResourcesAreWhole ==
  Built =>
    /\ \A create, item \in Operations :
         /\ create[1] = "POST"
         /\ Pathname(item) = Append(Pathname(create), Parameter)
         /\ \A o \in Operations : Pathname(o) = Pathname(item) => o[1] # "POST"
         => ResourceOf(item) = ResourceOf(create)
    /\ \A o \in Operations :
         (\E c \in NamedCollections : BelongsTo(Pathname(o), c)) =>
           ResourceOf(o) \in NamedCollections
================================================================================
