---------------------------- MODULE DiscoveryProofs ----------------------------
(***************************************************************************)
(* Theorems about Discovery, for all projects, sites, policies and         *)
(* budgets: on whose account the network is, what a discovery without      *)
(* blockers has read, what the graph keeps of the facts, and that an id    *)
(* names one fact and the budgets hold.                                    *)
(***************************************************************************)
EXTENDS Discovery, FiniteSetTheorems, SequenceTheorems, WellFoundedInduction, TLAPS

--------------------------------------------------------------------------------
(***************************************************************************)
(* The parts of the inductive invariant, of which each theorem takes those *)
(* it needs. First, whose account the network is on: the explorer leaves   *)
(* activeInteraction set over these awaits, and only these.                *)
(***************************************************************************)
ActiveFits ==
  /\ pc \in {"goto", "settle", "single"} => active = current.via
  /\ pc \in {"click", "wait"} => active = Interaction(control).id
  /\ pc \in {"walk", "read", "launch", "top", "observe", "pick", "revisit", "resettle", "post"} =>
       active = NoId

\* Two logs of the network are compared by their facts.
LiveFits == live = [count |-> live.count, facts |-> live.facts]

\* Where discover() may stand: the explorer never meets a single page, and the
\* graph is not begun before the facts are collected.
Stands ==
  /\ setting \in Settings
  /\ pc \in Exploring \cup {"walk", "read", "closing", "correlate", "graph", "built", "failed"}
  /\ pc \in Exploring => setting.target
  /\ pc = "single" => SinglePage

(***************************************************************************)
(* Then, what was read and seen as long as nothing was cut away.           *)
(***************************************************************************)
Known(fs, e) == \E f \in fs : f.id = e.id

FilesKept ==
  /\ read \in 0 .. Len(Project)
  /\ IsFiniteSet(discovered)
  /\ pc = "walk" => blockers = {}
  /\ blockers = {} =>
       \A i \in 1 .. read : Project[i].readable =>
         \A e \in EndpointsOf(Project[i]) : Known(facts, e)
  /\ blockers = {} /\ pc \notin {"walk", "read"} => read = Len(Project)

Entry == Pages[setting.start].lands
EntryIn(fs) == \E f \in fs : f.type = "route" /\ f.route = Entry
Ahead == visited = {} /\ states = {}

EntrySeen ==
  setting.target /\ ~SinglePage /\ blockers = {} =>
    /\ pc \in {"walk", "read", "launch"} => Ahead
    /\ pc = "top" =>
         \/ EntryIn(live.facts)
         \/ Ahead /\ queue # <<>> /\ Head(queue).url = setting.start /\ Head(queue).depth = 0
    /\ pc = "goto" => EntryIn(live.facts) \/ (states = {} /\ current.url = setting.start)
    /\ pc \in {"settle", "observe"} => EntryIn(live.facts) \/ (states = {} /\ document = Entry)
    /\ pc \in {"pick", "revisit", "resettle", "click", "wait", "post"} => EntryIn(live.facts)
    /\ pc \in {"closing", "correlate", "graph", "built"} =>
         EntryIn(facts) \/ Cardinality(discovered) >= MaxRoutes

(***************************************************************************)
(* Then, what the facts are about: an id begins with the type, so that a   *)
(* fact is replaced by one of its own type only; a correlation names a     *)
(* control and an endpoint that are there.                                 *)
(***************************************************************************)
Typed(fs) == \A f \in fs : f.id[1] = f.type
Has(fs, type, id) == \E f \in fs : f.type = type /\ f.id = id
LinkedIn(f, fs) ==
  f.type = "correlation" => Has(fs, "control", f.controlFact) /\ Has(fs, "endpoint", f.endpointFact)

Trying == {"revisit", "resettle", "click", "wait", "post"}
FactsFit ==
  /\ Typed(facts) /\ Typed(live.facts)
  /\ \A f \in facts : LinkedIn(f, facts)
  /\ \A f \in live.facts : LinkedIn(f, live.facts)
  /\ pc \in Trying \cup {"pick"} => \A i \in DOMAIN Shown : ControlFact(i) \in live.facts
  /\ pc \in Trying => control \in DOMAIN Shown

(***************************************************************************)
(* Then, that every path is a sequence of segments.                        *)
(***************************************************************************)
PathsIn(fs) == \A f \in fs : f.type = "endpoint" => f.path.seg \in Seq(STRING)
Sendable(requests) == \A q \in requests : q.path.seg \in Seq(STRING)
Waiting(q) == q \in Seq(ToSet(q)) /\ \A item \in ToSet(q) : item.url \in DOMAIN Pages
Loaded == {"settle", "observe", "resettle", "click", "wait", "post", "pick", "single"}

PathsFit ==
  /\ PathsIn(facts) /\ PathsIn(live.facts)
  /\ Sendable(due) /\ Sendable(inflight)
  /\ Waiting(queue)
  /\ pc \in Exploring \ {"launch"} => current.url \in DOMAIN Pages
  /\ pc \in Loaded => document \in DOMAIN Pages

(***************************************************************************)
(* Last, the collections of the graph: those that a parameter or a POST    *)
(* names, and those of operations outside all of them.                     *)
(***************************************************************************)
Outside(path) == \A c \in NamedCollections : ~BelongsTo(path, c)
GraphFits ==
  pc \in {"graph", "built"} =>
    /\ ungrouped \subseteq Operations
    /\ NamedCollections \subseteq candidates
    /\ \A c \in candidates \ NamedCollections :
         Outside(c) /\ \E o \in Operations : c = Pathname(o)
--------------------------------------------------------------------------------
(***************************************************************************)
(* Facts, and the logs of the network.                                     *)
(***************************************************************************)
LEMMA FactIs ==
  ASSUME NEW type, NEW id, NEW fields, "type" \notin DOMAIN fields, "id" \notin DOMAIN fields
  PROVE  Fact(type, id, fields).type = type /\ Fact(type, id, fields).id = <<type, id>>
BY DEF Fact, Blank

\* What the handlers of the network and the explorer write down.
LEMMA RequestFact ==
  ASSUME NEW id, NEW m, NEW p, NEW r, NEW k, NEW b, NEW g,
         NEW f, f = Fact("endpoint", id, [method |-> m, path |-> p, route |-> r, kind |-> k,
                                           by |-> b, feature |-> g])
  PROVE  f.type = "endpoint" /\ f.id = <<"endpoint", id>> /\ f.path = p /\ f.by = b
BY DEF Fact, Blank

LEMMA ResponseFact ==
  ASSUME NEW id, NEW m, NEW p, NEW b,
         NEW f, f = Fact("runtime_response", id, [method |-> m, path |-> p, by |-> b])
  PROVE  f.type = "runtime_response" /\ f.id = <<"runtime_response", id>> /\ f.by = b
BY DEF Fact, Blank

\* A log that a handler has added to: more facts, of the kinds of the network, on
\* the account it was given.
Adds(old, new, by, ok) ==
  /\ new = [count |-> new.count, facts |-> new.facts]
  /\ old.facts \subseteq new.facts
  /\ \A f \in new.facts \ old.facts :
       /\ f.type \in {"endpoint", "runtime_response"} /\ f.id[1] = f.type
       /\ f.by = by
       /\ ok /\ f.type = "endpoint" => f.path.seg \in Seq(STRING)

RequestOf(q, by) ==
  Fact("endpoint", <<"runtime", q.method, q.path, by>>,
       [method |-> q.method, path |-> q.path, route |-> Path(q.path.seg, ""),
        kind |-> LiveKind(q.method, q.path), by |-> by,
        feature |-> LiveFeature(ToSet(q.path.seg))])

LEMMA HeardIs ==
  ASSUME NEW log, NEW q, NEW by, ~(log.count >= MaxNetwork)
  PROVE  \/ q.foreign /\ Heard(log, q, by) = [count |-> log.count + 1, facts |-> log.facts \cup {}]
         \/ ~q.foreign /\ Heard(log, q, by) =
              [count |-> log.count + 1, facts |-> log.facts \cup {RequestOf(q, by)}]
BY Zenon DEF Heard, RequestOf

LEMMA RequestOfIs ==
  ASSUME NEW q, NEW by
  PROVE  LET f == RequestOf(q, by)
         IN f.type = "endpoint" /\ f.id = <<"endpoint", <<"runtime", q.method, q.path, by>>>>
              /\ f.path = q.path /\ f.by = by
<1> DEFINE id == <<"runtime", q.method, q.path, by>>
           r == Path(q.path.seg, "")
           k == LiveKind(q.method, q.path)
           g == LiveFeature(ToSet(q.path.seg))
<1> HIDE DEF id, r, k, g
<1> DEFINE f == Fact("endpoint", id, [method |-> q.method, path |-> q.path, route |-> r, kind |-> k,
                                      by |-> by, feature |-> g])
<1>1. f.type = "endpoint" /\ f.id = <<"endpoint", id>> /\ f.path = q.path /\ f.by = by
  BY RequestFact
<1>2. RequestOf(q, by) = f  BY Zenon DEF RequestOf, id, r, k, g
<1> HIDE DEF f
<1> QED BY <1>1, <1>2 DEF id

LEMMA HeardAdds ==
  ASSUME NEW log, log = [count |-> log.count, facts |-> log.facts], NEW q, NEW by
  PROVE  Adds(log, Heard(log, q, by), by, q.path.seg \in Seq(STRING))
<1> DEFINE new == Heard(log, q, by)
<1>1. CASE log.count >= MaxNetwork
  <2>1. new = log  BY <1>1 DEF Heard
  <2> QED BY <2>1 DEF Adds
<1>2. CASE ~(log.count >= MaxNetwork)
  <2> DEFINE f == RequestOf(q, by)
  <2>1. f.type = "endpoint" /\ f.id = <<"endpoint", <<"runtime", q.method, q.path, by>>>>
          /\ f.path = q.path /\ f.by = by
    BY RequestOfIs
  <2>2. \/ new = [count |-> log.count + 1, facts |-> log.facts \cup {}]
        \/ new = [count |-> log.count + 1, facts |-> log.facts \cup {f}]
    BY <1>2, HeardIs
  <2> HIDE DEF f, new
  <2>3. new = [count |-> new.count, facts |-> new.facts]  BY <2>2
  <2>4. new.facts = log.facts \cup {} \/ new.facts = log.facts \cup {f}  BY <2>2
  <2>5. \A g \in new.facts \ log.facts : g = f  BY <2>4
  <2>6. f.id[1] = f.type  BY <2>1
  <2> QED BY <2>1, <2>3, <2>4, <2>5, <2>6 DEF Adds, new
<1> QED BY <1>1, <1>2

LEMMA AnsweredAdds ==
  ASSUME NEW log, log = [count |-> log.count, facts |-> log.facts], NEW q, NEW by, NEW ok
  PROVE  Adds(log, Answered(log, q, by), by, ok)
<1> DEFINE new == Answered(log, q, by)
<1>1. CASE log.count >= MaxNetwork \/ q.foreign
  <2>1. new = log  BY <1>1 DEF Answered
  <2> QED BY <2>1 DEF Adds
<1>2. CASE ~(log.count >= MaxNetwork \/ q.foreign)
  <2> DEFINE f == Fact("runtime_response", <<q.method, q.path, by>>,
                       [method |-> q.method, path |-> q.path, by |-> by])
  <2>1. f.type = "runtime_response" /\ f.id = <<"runtime_response", <<q.method, q.path, by>>>>
          /\ f.by = by
    BY ResponseFact
  <2>2. new = [log EXCEPT !.facts = log.facts \cup {f}]  BY <1>2 DEF Answered
  <2> HIDE DEF f, new
  <2>3. new = [count |-> log.count, facts |-> log.facts \cup {f}]  BY <2>2
  <2>4. new = [count |-> new.count, facts |-> new.facts]  BY <2>3
  <2>5. new.facts = log.facts \cup {f}  BY <2>3
  <2>6. f.id[1] = f.type  BY <2>1
  <2> QED BY <2>1, <2>4, <2>5, <2>6 DEF Adds, new
<1> QED BY <1>1, <1>2

LEMMA AddsAgain ==
  ASSUME NEW a, NEW b, NEW c, NEW by, NEW ok, Adds(a, b, by, ok), Adds(b, c, by, ok)
  PROVE  Adds(a, c, by, ok)
BY DEF Adds

LEMMA ServedAdds ==
  ASSUME NEW log, log = [count |-> log.count, facts |-> log.facts], NEW u, NEW by
  PROVE  Adds(log, Answered(Heard(log, DocumentRequest(u), by), DocumentRequest(u), by), by,
              u.seg \in Seq(STRING))
<1> DEFINE q == DocumentRequest(u)
<1>1. q.path = u  BY DEF DocumentRequest, Request
<1> DEFINE mid == Heard(log, q, by)
           ok == u.seg \in Seq(STRING)
<1>2. Adds(log, mid, by, ok)  BY HeardAdds, <1>1
<1> HIDE DEF q, mid
<1>3. mid = [count |-> mid.count, facts |-> mid.facts]  BY <1>2 DEF Adds
<1>4. Adds(mid, Answered(mid, q, by), by, ok)  BY <1>3, AnsweredAdds
<1> QED BY <1>2, <1>4, AddsAgain DEF q, mid

LEMMA LoadAdds ==
  ASSUME LiveFits, NEW url, NEW by, Load(url, by)
  PROVE  /\ Adds(live, live', by, url.seg \in Seq(STRING) /\ Pages[url].lands.seg \in Seq(STRING))
         /\ document' = Pages[url].lands /\ due' = Pages[Pages[url].lands].own /\ inflight' = {}
<1> DEFINE Served(log, u) == Answered(Heard(log, DocumentRequest(u), by), DocumentRequest(u), by)
           landed == Pages[url].lands
           one == Served(live, url)
           ok == url.seg \in Seq(STRING) /\ landed.seg \in Seq(STRING)
<1>1. /\ document' = landed /\ due' = Pages[landed].own /\ inflight' = {}
      /\ \/ live' = one
         \/ live' = Served(one, landed)
  BY DEF Load
<1>2. live = [count |-> live.count, facts |-> live.facts]  BY DEF LiveFits
<1>3. Adds(live, one, by, url.seg \in Seq(STRING))  BY <1>2, ServedAdds
<1>4. Adds(live, one, by, ok)  BY <1>3 DEF Adds
<1>5. one = [count |-> one.count, facts |-> one.facts]  BY <1>3 DEF Adds
<1> HIDE DEF one
<1>6. Adds(one, Served(one, landed), by, landed.seg \in Seq(STRING))  BY <1>5, ServedAdds
<1>7. Adds(one, Served(one, landed), by, ok)  BY <1>6 DEF Adds
<1>8. Adds(live, Served(one, landed), by, ok)  BY <1>4, <1>7, AddsAgain
<1> HIDE DEF Served, landed
<1> QED BY <1>1, <1>4, <1>8 DEF landed

--------------------------------------------------------------------------------
(***************************************************************************)
(* The project, the target and the policy are never changed under a        *)
(* discovery.                                                              *)
(***************************************************************************)
LEMMA SettingKept == ASSUME Next PROVE setting' = setting
<1>1. CASE Explore
  BY <1>1 DEF Explore, Launch, Finish, Return, Dequeue, Goto, Settle, Observe, Pick, Prepare,
              Click, ClickFails, Record, Follow, Single, Throw
<1>2. CASE Walk \/ ReadFile \/ EndRead \/ Close \/ Correlate \/ GroupNext
  BY <1>2 DEF Walk, ReadFile, EndRead, Close, Correlate, GroupNext
<1>3. CASE Send \/ Answer \/ Timeout \/ OverBudget \/ BrowserFails
  BY <1>3 DEF Send, Answer, Timeout, OverBudget, BrowserFails, Throw
<1> QED BY <1>1, <1>2, <1>3 DEF Next

--------------------------------------------------------------------------------
(***************************************************************************)
(* The account of the network. What a control is called depends on the     *)
(* setting and the current item alone.                                     *)
(***************************************************************************)
LEMMA SamePage ==
  ASSUME setting' = setting, current' = current
  PROVE  /\ Pages' = Pages /\ Here' = Here /\ Shown' = Shown
         /\ \A i : ControlFact(i)' = ControlFact(i) /\ Interaction(i)' = Interaction(i)
<1>1. Pages' = Pages  BY DEF Pages
<1>2. Here' = Here  BY <1>1 DEF Here
<1>3. Shown' = Shown  BY <1>1, <1>2, Zenon DEF Shown
<1>4. \A i : ControlFact(i)' = ControlFact(i)  BY <1>2, <1>3, Zenon DEF ControlFact
<1>5. \A i : Interaction(i)' = Interaction(i)  BY <1>1, <1>2, <1>4, Zenon DEF Interaction
<1> QED BY <1>1, <1>2, <1>3, <1>4, <1>5

LEMMA SinglePageKept == ASSUME setting' = setting PROVE SinglePage' <=> SinglePage
BY DEF SinglePage

LEMMA StandsKept == ASSUME Stands, Next PROVE Stands'
<1>1. setting' = setting  BY SettingKept
<1>2. SinglePage' <=> SinglePage  BY <1>1, SinglePageKept
<1> USE DEF Stands, Exploring, Awaiting
<1>3. CASE Explore
  <2>1. CASE Launch  BY <1>1, <1>2, <2>1 DEF Launch
  <2>2. CASE Finish \/ Dequeue \/ Settle \/ Observe \/ Pick \/ Prepare \/ ClickFails \/ Record \/ Follow
    BY <1>1, <1>2, <2>2 DEF Finish, Return, Dequeue, Skip, Visit, Settle, Observe, Pick, Prepare,
                            ClickFails, Record, Follow
  <2>3. CASE Goto  BY <1>1, <1>2, <2>3 DEF Goto
  <2>4. CASE Click  BY <1>1, <1>2, <2>4 DEF Click
  <2>5. CASE Single  BY <1>1, <1>2, <2>5 DEF Single, Throw
  <2> QED BY <1>3, <2>1, <2>2, <2>3, <2>4, <2>5 DEF Explore
<1>4. CASE Walk \/ ReadFile \/ EndRead \/ Close \/ Correlate \/ GroupNext
  BY <1>1, <1>2, <1>4 DEF Walk, ReadFile, EndRead, Close, Correlate, GroupNext
<1>5. CASE Send \/ Answer \/ Timeout \/ OverBudget \/ BrowserFails
  BY <1>1, <1>2, <1>5 DEF Send, Answer, Timeout, OverBudget, BrowserFails, Throw
<1> QED BY <1>3, <1>4, <1>5 DEF Next

LEMMA ActiveKept == ASSUME ActiveFits, Next PROVE ActiveFits'
<1>1. setting' = setting  BY SettingKept
<1>2. CASE Explore
  <2>1. CASE Launch  BY <2>1 DEF Launch, ActiveFits
  <2>2. CASE Dequeue  BY <2>2 DEF Dequeue, Skip, Visit, ActiveFits
  <2>3. CASE Goto  BY <2>3 DEF Goto, explorer, ActiveFits
  <2>4. CASE Prepare
    <3>1. current' = current /\ control' = control /\ active' = Interaction(control).id /\ pc' = "click"
      BY <2>4 DEF Prepare
    <3>2. Interaction(control)' = Interaction(control)  BY <1>1, <3>1, SamePage
    <3> QED BY <3>1, <3>2 DEF ActiveFits
  <2>5. CASE Click
    <3>1. current' = current /\ control' = control /\ active' = active /\ pc = "click" /\ pc' = "wait"
      BY <2>5 DEF Click, explorer
    <3>2. Interaction(control)' = Interaction(control)  BY <1>1, <3>1, SamePage
    <3> QED BY <3>1, <3>2 DEF ActiveFits
  <2>6. CASE Finish \/ Settle \/ Observe \/ Pick \/ ClickFails \/ Record \/ Follow
    BY <2>6 DEF Finish, Return, Settle, Observe, Pick, ClickFails, Record, Follow, explorer, ActiveFits
  <2>7. CASE Single  BY <2>7 DEF Single, Throw, explorer, ActiveFits
  <2> QED BY <1>2, <2>1, <2>2, <2>3, <2>4, <2>5, <2>6, <2>7 DEF Explore
<1>3. CASE Walk \/ ReadFile \/ EndRead \/ Close \/ Correlate \/ GroupNext
  BY <1>3 DEF Walk, ReadFile, EndRead, Close, Correlate, GroupNext, explorer, ActiveFits
<1>4. CASE Send \/ Answer \/ Timeout
  <2>1. current' = current /\ control' = control /\ active' = active /\ pc' = pc
    BY <1>4 DEF Send, Answer, Timeout, explorer
  <2>2. Interaction(control)' = Interaction(control)  BY <1>1, <2>1, SamePage
  <2> QED BY <2>1, <2>2 DEF ActiveFits
<1>5. CASE OverBudget \/ BrowserFails
  BY <1>5 DEF OverBudget, BrowserFails, Throw, explorer, ActiveFits
<1> QED BY <1>2, <1>3, <1>4, <1>5 DEF Next

LEMMA LiveKept == ASSUME LiveFits, Next PROVE LiveFits'
<1>1. CASE Goto  BY <1>1, LoadAdds DEF Goto, LiveFits, Adds
<1>2. CASE Click  BY <1>2, LoadAdds DEF Click, LiveFits, Adds
<1>3. CASE Send  BY <1>3, HeardAdds DEF Send, LiveFits, Adds
<1>4. CASE Answer  BY <1>4, AnsweredAdds DEF Answer, LiveFits, Adds
<1>5. CASE Observe \/ Prepare
  <2>1. \/ live' = live
        \/ \E fs : live' = [live EXCEPT !.facts = fs]
    BY <1>5 DEF Observe, Prepare
  <2> QED BY <2>1 DEF LiveFits
<1>6. CASE Record
  <2>1. \E fs : live' = [live EXCEPT !.facts = fs]
    BY <1>6, Zenon DEF Record
  <2> QED BY <2>1 DEF LiveFits
<1>7. CASE Single  BY <1>7 DEF Single, Throw, browser, LiveFits
<1>8. CASE Launch \/ Finish \/ Dequeue \/ Settle \/ Pick \/ ClickFails \/ Follow
  BY <1>8 DEF Launch, Finish, Return, Dequeue, Settle, Pick, ClickFails, Follow, browser, LiveFits
<1>9. CASE Walk \/ ReadFile \/ EndRead \/ Close \/ Correlate \/ GroupNext \/ Timeout
  BY <1>9 DEF Walk, ReadFile, EndRead, Close, Correlate, GroupNext, Timeout, browser, LiveFits
<1>10. CASE OverBudget \/ BrowserFails
  BY <1>10 DEF OverBudget, BrowserFails, Throw, LiveFits
<1> QED BY <1>1, <1>2, <1>3, <1>4, <1>5, <1>6, <1>7, <1>8, <1>9, <1>10 DEF Next, Explore

(***************************************************************************)
(* The facts that the explorer writes down itself.                         *)
(***************************************************************************)
LEMMA ControlFactIs ==
  ASSUME NEW i
  PROVE  ControlFact(i).type = "control" /\ ControlFact(i).id[1] = "control"
<1> DEFINE fields == [route |-> Here, control |-> Shown[i].name, tag |-> Shown[i].tag,
                      name |-> Shown[i].name, feature |-> LiveFeature({Shown[i].name})]
           id == <<"live", Here, Shown[i].name, i>>
<1>1. ControlFact(i) = Fact("control", id, fields)  BY Zenon DEF ControlFact
<1>2. "type" \notin DOMAIN fields /\ "id" \notin DOMAIN fields  OBVIOUS
<1> HIDE DEF fields, id
<1> QED BY <1>1, <1>2, FactIs

LEMMA InteractionIs ==
  ASSUME NEW i
  PROVE  Interaction(i).type = "interaction" /\ Interaction(i).id[1] = "interaction"
<1> DEFINE fields == [route |-> Here, controlFact |-> ControlFact(i).id]
           id == <<Here, ControlFact(i).id, Pages[Here].look>>
<1>1. Interaction(i) = Fact("interaction", id, fields)  BY Zenon DEF Interaction
<1>2. "type" \notin DOMAIN fields /\ "id" \notin DOMAIN fields  OBVIOUS
<1> HIDE DEF fields, id
<1> QED BY <1>1, <1>2, FactIs

LEMMA RouteFactIs ==
  ASSUME NEW id, NEW r
  PROVE  LET f == Fact("route", id, [route |-> r])
         IN f.type = "route" /\ f.id[1] = "route" /\ f.route = r
BY DEF Fact, Blank

LEMMA MutationFactIs ==
  ASSUME NEW id, NEW r, NEW i
  PROVE  LET f == Fact("ui_mutation", id, [route |-> r, by |-> i])
         IN f.type = "ui_mutation" /\ f.id[1] = "ui_mutation"
BY DEF Fact, Blank

LEMMA CorrelationIs ==
  ASSUME NEW id, NEW c, NEW e, NEW r
  PROVE  LET f == Fact("correlation", id, [controlFact |-> c, endpointFact |-> e, route |-> r])
         IN /\ f.type = "correlation" /\ f.id[1] = "correlation"
            /\ f.controlFact = c /\ f.endpointFact = e
BY DEF Fact, Blank

\* What Observe, Prepare and Record add to the log.
LEMMA ObserveAdds ==
  ASSUME LiveFits, Observe
  PROVE  \/ live' = live /\ pc' = "top" /\ State(document) \in states
         \/ /\ pc' = "pick"
            /\ live'.facts = live.facts
                 \cup {Fact("route", State(document), [route |-> document])}
                 \cup {ControlFact(i) : i \in DOMAIN Shown}
BY DEF Observe, LiveFits

LEMMA PrepareAdds ==
  ASSUME LiveFits, Prepare PROVE live'.facts = live.facts \cup {Interaction(control)}
BY DEF Prepare, LiveFits

Caused(i) == {f \in live.facts : f.type = "endpoint" /\ f.by = i}
Correlated(i, c) ==
  {Fact("correlation", <<c, e.id, i>>, [controlFact |-> c, endpointFact |-> e.id, route |-> Here]) :
     e \in Caused(i)}

LEMMA RecordAdds ==
  ASSUME LiveFits, Record
  PROVE  \E i, id :
           live'.facts = live.facts
             \cup {Fact("ui_mutation", id, [route |-> document, by |-> i])}
             \cup Correlated(i, ControlFact(control).id)
<1> DEFINE i == Interaction(control).id
           id == <<i, Pages[document].look>>
           new == {Fact("ui_mutation", id, [route |-> document, by |-> i])}
                    \cup Correlated(i, ControlFact(control).id)
<1>1. live' = [live EXCEPT !.facts = live.facts
                 \cup {Fact("ui_mutation", id, [route |-> document, by |-> i])}
                 \cup Correlated(i, ControlFact(control).id)]
  BY Zenon DEF Record, Correlated, Caused
<1> HIDE DEF i, id
<1> QED BY <1>1 DEF LiveFits

LEMMA CorrelatedAre ==
  ASSUME NEW i, NEW c, NEW f \in Correlated(i, c)
  PROVE  /\ f.type = "correlation" /\ f.id[1] = "correlation" /\ f.controlFact = c
         /\ \E e \in live.facts : e.type = "endpoint" /\ e.id = f.endpointFact
<1>1. PICK e \in Caused(i) :
        f = Fact("correlation", <<c, e.id, i>>,
                 [controlFact |-> c, endpointFact |-> e.id, route |-> Here])
  BY DEF Correlated
<1>2. /\ f.type = "correlation" /\ f.id[1] = "correlation" /\ f.controlFact = c
      /\ f.endpointFact = e.id
  BY <1>1, CorrelationIs
<1> QED BY <1>2 DEF Caused

(***************************************************************************)
(* The handlers of the network read activeInteraction when an event comes. *)
(***************************************************************************)
Attributed ==
  \A f \in live'.facts \ live.facts :
    f.type \in {"endpoint", "runtime_response"} /\ f.by # NoId =>
      \/ pc \in {"click", "wait"} /\ f.by = Interaction(control).id
      \/ pc \in {"goto", "settle", "single"} /\ f.by = current.via

LEMMA StepAttributed == ASSUME LiveFits, ActiveFits, Next PROVE Attributed
<1>1. CASE Goto
  <2>1. \A f \in live'.facts \ live.facts : f.by = active  BY <1>1, LoadAdds DEF Goto, Adds
  <2> QED BY <1>1, <2>1 DEF Goto, ActiveFits, Attributed
<1>2. CASE Click
  <2>1. live' = live \/ \A f \in live'.facts \ live.facts : f.by = active
    BY <1>2, LoadAdds DEF Click, Adds
  <2> QED BY <1>2, <2>1 DEF Click, ActiveFits, Attributed
<1>3. CASE Send \/ Answer
  <2>1. \A f \in live'.facts \ live.facts : f.by = active
    <3>1. CASE Send  BY <3>1, HeardAdds DEF Send, Adds, LiveFits
    <3>2. CASE Answer  BY <3>2, AnsweredAdds DEF Answer, Adds, LiveFits
    <3> QED BY <1>3, <3>1, <3>2
  <2>2. pc \in Browsing  BY <1>3 DEF Send, Answer
  <2> QED BY <2>1, <2>2 DEF ActiveFits, Browsing, Attributed
<1>4. CASE Observe
  BY <1>4, ObserveAdds, RouteFactIs, ControlFactIs DEF Attributed
<1>5. CASE Prepare  BY <1>5, PrepareAdds, InteractionIs DEF Attributed
<1>6. CASE Record
  <2>1. PICK i, id : live'.facts = live.facts
             \cup {Fact("ui_mutation", id, [route |-> document, by |-> i])}
             \cup Correlated(i, ControlFact(control).id)
    BY <1>6, RecordAdds
  <2> QED BY <2>1, MutationFactIs, CorrelatedAre DEF Attributed
<1>7. CASE Single \/ OverBudget \/ BrowserFails
  <2>1. live' = live \/ live'.facts = {}
    BY <1>7 DEF Single, OverBudget, BrowserFails, Throw, browser
  <2> QED BY <2>1 DEF Attributed
<1>8. CASE Launch \/ Finish \/ Dequeue \/ Settle \/ Pick \/ ClickFails \/ Follow
  BY <1>8 DEF Launch, Finish, Return, Dequeue, Settle, Pick, ClickFails, Follow, browser, Attributed
<1>9. CASE Walk \/ ReadFile \/ EndRead \/ Close \/ Correlate \/ GroupNext \/ Timeout
  BY <1>9 DEF Walk, ReadFile, EndRead, Close, Correlate, GroupNext, Timeout, browser, Attributed
<1> QED BY <1>1, <1>2, <1>3, <1>4, <1>5, <1>6, <1>7, <1>8, <1>9 DEF Next, Explore

\* A request or an answer is put to the account of a control only while that control
\* of the page at hand is clicked or the page it led to is loaded: the explorer has
\* no other step at which activeInteraction is set (live-explorer.ts).
THEOREM RequestsAreAttributed == Spec => AttributedWhileActive
<1>1. Init => LiveFits /\ ActiveFits  BY DEF Init, LiveFits, ActiveFits
<1>2. LiveFits /\ ActiveFits /\ [Next]_vars => (LiveFits /\ ActiveFits)'
  <2>1. ASSUME LiveFits, ActiveFits, Next PROVE (LiveFits /\ ActiveFits)'
    BY <2>1, LiveKept, ActiveKept
  <2>2. ASSUME LiveFits, ActiveFits, UNCHANGED vars PROVE (LiveFits /\ ActiveFits)'
    <3>1. Interaction(control)' = Interaction(control)
      BY <2>2, SamePage DEF vars, explorer
    <3> QED BY <2>2, <3>1 DEF LiveFits, ActiveFits, vars, explorer, browser
  <2> QED BY <2>1, <2>2
<1>3. LiveFits /\ ActiveFits /\ [Next]_vars => [Attributed]_vars
  BY StepAttributed
<1>4. AttributedWhileActive <=> [][Attributed]_vars
  BY DEF AttributedWhileActive, Attributed
<1> QED BY <1>1, <1>2, <1>3, <1>4, PTL DEF Spec

--------------------------------------------------------------------------------
(***************************************************************************)
(* The facts of a file: its endpoints, and others, and no correlations.    *)
(***************************************************************************)
Static(fs) == \A f \in fs : f.id[1] = f.type /\ f.type \notin {"correlation", "endpoint"}
OnlyEndpoints(fs) == \A f \in fs : f.id[1] = f.type /\ f.type = "endpoint"

LEMMA OpenApiEndpointIs ==
  ASSUME NEW file, NEW o PROVE OnlyEndpoints({OpenApiEndpoint(file, o)})
<1> DEFINE id == <<file.name, o.method, o.path>>
           fields == [method |-> o.method, path |-> o.path, kind |-> StaticKind(o.method, o.path),
                      route |-> o.path, feature |-> OperationFeature(file, o)]
<1>1. OpenApiEndpoint(file, o) = Fact("endpoint", id, fields)  BY Zenon DEF OpenApiEndpoint
<1>2. "type" \notin DOMAIN fields /\ "id" \notin DOMAIN fields  OBVIOUS
<1> HIDE DEF id, fields
<1> QED BY <1>1, <1>2, FactIs DEF OnlyEndpoints

LEMMA ProgramEndpointsAre ==
  ASSUME NEW file PROVE OnlyEndpoints(ProgramEndpoints(file))
<1> SUFFICES ASSUME NEW f \in ProgramEndpoints(file)
             PROVE  f.id[1] = f.type /\ f.type = "endpoint"
  BY DEF OnlyEndpoints
<1> DEFINE Id(s) == <<file.name, s.method, s.path, s.adapter, s.at>>
           Data(s) == [method |-> s.method, path |-> s.path, kind |-> s.kind, route |-> file.route,
                         feature |-> FeatureOf(file, s.about)]
<1>1. \E s : f = Fact("endpoint", Id(s), Data(s))  BY Zenon DEF ProgramEndpoints
<1>2. \A s : "type" \notin DOMAIN Data(s) /\ "id" \notin DOMAIN Data(s)  OBVIOUS
<1> HIDE DEF Id, Data
<1> QED BY <1>1, <1>2, FactIs

LEMMA FallbackEndpointsAre ==
  ASSUME NEW file PROVE OnlyEndpoints(FallbackEndpoints(file))
<1> SUFFICES ASSUME NEW f \in FallbackEndpoints(file)
             PROVE  f.id[1] = f.type /\ f.type = "endpoint"
  BY DEF OnlyEndpoints
<1> DEFINE Id(d) == <<file.name, d.method, d.path, "regex">>
           Data(d) == [method |-> d.method, path |-> d.path, kind |-> LiveKind(d.method, d.path),
                         route |-> file.route, feature |-> FallbackFeature(file)]
<1>1. \E d : f = Fact("endpoint", Id(d), Data(d))  BY Zenon DEF FallbackEndpoints
<1>2. \A d : "type" \notin DOMAIN Data(d) /\ "id" \notin DOMAIN Data(d)  OBVIOUS
<1> HIDE DEF Id, Data
<1> QED BY <1>1, <1>2, FactIs

LEMMA EndpointsAre == ASSUME NEW file PROVE OnlyEndpoints(EndpointsOf(file))
<1>1. OnlyEndpoints(TypeScriptEndpoints(file))
  BY ProgramEndpointsAre DEF TypeScriptEndpoints, OnlyEndpoints
<1>2. OnlyEndpoints({OpenApiEndpoint(file, o) : o \in ToSet(file.operations)})
  BY OpenApiEndpointIs DEF OnlyEndpoints
<1>3. OnlyEndpoints(StructuredEndpoints(file))
  <2>1. OnlyEndpoints({})  BY DEF OnlyEndpoints
  <2> QED BY <1>1, <1>2, <2>1, Zenon DEF StructuredEndpoints
<1> QED BY <1>3, FallbackEndpointsAre, Zenon DEF EndpointsOf

LEMMA SchemaFactsAre ==
  ASSUME NEW file, NEW fields, NEW path, NEW feature
  PROVE  Static(SchemaFacts(file, fields, path, feature))
<1> DEFINE Id(p, rule) == <<file.name, path, p.field, rule>>
           Data(p) == [field |-> p.field, feature |-> feature, resource |-> Collection(path.seg)]
<1>1. \A p : "type" \notin DOMAIN Data(p) /\ "id" \notin DOMAIN Data(p)  OBVIOUS
<1>2. ASSUME NEW f \in SchemaFacts(file, fields, path, feature)
      PROVE  \E p, rule : \/ f = Fact("field", Id(p, rule), Data(p))
                          \/ f = Fact("validation", Id(p, rule), Data(p))
  <2>1. PICK p \in fields :
          f \in {Fact("field", Id(p, "schema"), Data(p))}
                  \cup {Fact("validation", Id(p, r), Data(p)) : r \in p.rules}
    BY <1>2, Zenon DEF SchemaFacts
  <2> HIDE DEF Id, Data
  <2> QED BY <2>1
<1> HIDE DEF Id, Data
<1> QED BY <1>1, <1>2, FactIs DEF Static

LEMMA OthersAre ==
  ASSUME NEW file
  PROVE  Static(ControlsOf(file) \cup SchemaFields(file) \cup FallbackFields(file))
<1>1. Static(ControlsOf(file))
  <2> DEFINE Id(name) == <<file.name, file.route, name>>
             Data(name) == [route |-> file.route, control |-> name, name |-> file.aria,
                              feature |-> FallbackFeature(file)]
  <2>1. \A f \in ControlsOf(file) : \E name : f = Fact("control", Id(name), Data(name))
    BY Zenon DEF ControlsOf
  <2>2. \A n : "type" \notin DOMAIN Data(n) /\ "id" \notin DOMAIN Data(n)  OBVIOUS
  <2> HIDE DEF Id, Data
  <2> QED BY <2>1, <2>2, FactIs DEF Static
<1>2. Static(FallbackFields(file))
  <2> DEFINE Id(name) == <<file.name, name>>
             Data(name) == [field |-> name, feature |-> FallbackFeature(file)]
  <2>1. \A f \in FallbackFields(file) : \E name : f = Fact("validation", Id(name), Data(name))
    BY Zenon DEF FallbackFields
  <2>2. \A n : "type" \notin DOMAIN Data(n) /\ "id" \notin DOMAIN Data(n)  OBVIOUS
  <2> HIDE DEF Id, Data
  <2> QED BY <2>1, <2>2, FactIs DEF Static
<1>3. Static(OpenApiFields(file))
  <2>1. \A f \in OpenApiFields(file) : \E o :
          f \in SchemaFacts(file, o.fields, o.path, OperationFeature(file, o))
    BY DEF OpenApiFields
  <2> QED BY <2>1, SchemaFactsAre, Zenon DEF Static
<1>4. Static(StandaloneFields(file))
  <2> DEFINE feature == FeatureOf(file, file.route)
             path == IF file.resource = Nowhere THEN file.route ELSE file.resource
  <2>1. StandaloneFields(file) =
          {Fact("schema", <<file.name, feature>>, [feature |-> feature])}
            \cup SchemaFacts(file, file.fields, path, feature)
    BY Zenon DEF StandaloneFields
  <2> HIDE DEF feature, path
  <2>2. Static(SchemaFacts(file, file.fields, path, feature))  BY SchemaFactsAre
  <2>3. "type" \notin DOMAIN [feature |-> feature] /\ "id" \notin DOMAIN [feature |-> feature]
    OBVIOUS
  <2>4. Static({Fact("schema", <<file.name, feature>>, [feature |-> feature])})
    BY <2>3, FactIs DEF Static
  <2> QED BY <2>1, <2>2, <2>4 DEF Static
<1>5. Static({})  BY DEF Static
<1>6. Static(SchemaFields(file))  BY <1>3, <1>4, <1>5, Zenon DEF SchemaFields
<1> QED BY <1>1, <1>2, <1>6 DEF Static

(***************************************************************************)
(* Put: a fact goes only where one with its id comes.                      *)
(***************************************************************************)
LEMMA PutIs ==
  ASSUME NEW old, NEW new
  PROVE  /\ Put(old, new) \subseteq old \cup new /\ new \subseteq Put(old, new)
         /\ \A f \in old : Known(Put(old, new), f)
BY DEF Put, Known

LEMMA PutLinks ==
  ASSUME NEW old, NEW new, Typed(old), Typed(new),
         \A f \in old \cup new : LinkedIn(f, old \cup new)
  PROVE  Typed(Put(old, new)) /\ \A f \in Put(old, new) : LinkedIn(f, Put(old, new))
<1>1. Typed(Put(old, new))  BY PutIs DEF Typed
<1>2. ASSUME NEW type, NEW id, Has(old \cup new, type, id) PROVE Has(Put(old, new), type, id)
  <2>1. PICK f \in old \cup new : f.type = type /\ f.id = id  BY <1>2 DEF Has
  <2>2. PICK g \in Put(old, new) : g.id = f.id  BY PutIs DEF Known
  <2>3. g.type = f.type  BY <1>1, <2>2 DEF Typed
  <2> QED BY <2>1, <2>2, <2>3 DEF Has
<1> QED BY <1>1, <1>2, PutIs DEF LinkedIn

LEMMA LinksGrow ==
  ASSUME NEW fs, NEW gs, fs \subseteq gs, NEW f, LinkedIn(f, fs) PROVE LinkedIn(f, gs)
BY DEF LinkedIn, Has

--------------------------------------------------------------------------------
(***************************************************************************)
(* FactsFit, by what a step does to the facts and to the log.              *)
(***************************************************************************)
Sound(fs) == Typed(fs) /\ \A f \in fs : LinkedIn(f, fs)

\* The controls of the page at hand are facts while they are tried.
ControlsNoted ==
  /\ pc \in Trying \cup {"pick"} => \A i \in DOMAIN Shown : ControlFact(i) \in live.facts
  /\ pc \in Trying => control \in DOMAIN Shown

LEMMA FactsFitParts == FactsFit <=> Sound(facts) /\ Sound(live.facts) /\ ControlsNoted
BY DEF FactsFit, Sound, ControlsNoted

LEMMA Unlinked ==
  ASSUME NEW fs, Sound(fs), NEW gs, fs \subseteq gs,
         \A f \in gs \ fs : f.id[1] = f.type /\ LinkedIn(f, gs)
  PROVE  Sound(gs)
<1>1. \A f \in fs : LinkedIn(f, gs)  BY LinksGrow DEF Sound
<1>2. Typed(gs)  BY DEF Sound, Typed
<1> QED BY <1>1, <1>2 DEF Sound

LEMMA NetworkSound ==
  ASSUME NEW old, NEW new, NEW by, NEW ok, Sound(old.facts), Adds(old, new, by, ok)
  PROVE  Sound(new.facts)
<1>1. \A f \in new.facts \ old.facts : f.id[1] = f.type /\ LinkedIn(f, new.facts)
  BY DEF Adds, LinkedIn
<1> QED BY <1>1, Unlinked DEF Adds

LEMMA LiveSound ==
  ASSUME LiveFits, FactsFit, Next PROVE Sound(live'.facts)
<1>1. Sound(live.facts)  BY FactsFitParts
<1>2. CASE Goto  BY <1>1, <1>2, LoadAdds, NetworkSound DEF Goto
<1>3. CASE Click  BY <1>1, <1>3, LoadAdds, NetworkSound DEF Click
<1>4. CASE Send  BY <1>1, <1>4, HeardAdds, NetworkSound DEF Send, LiveFits
<1>5. CASE Answer
  <2>1. PICK q \in inflight : live' = Answered(live, q, active)  BY <1>5 DEF Answer
  <2>2. Adds(live, live', active, TRUE)  BY <2>1, AnsweredAdds DEF LiveFits
  <2> QED BY <1>1, <2>2, NetworkSound
<1>6. CASE Observe
  <2>1. \A f \in live'.facts \ live.facts : f.id[1] = f.type /\ f.type # "correlation"
    BY <1>6, ObserveAdds, RouteFactIs, ControlFactIs
  <2>2. live.facts \subseteq live'.facts  BY <1>6, ObserveAdds
  <2> QED BY <1>1, <2>1, <2>2, Unlinked DEF LinkedIn
<1>7. CASE Prepare
  <2>1. \A f \in live'.facts \ live.facts : f.id[1] = f.type /\ f.type # "correlation"
    BY <1>7, PrepareAdds, InteractionIs
  <2>2. live.facts \subseteq live'.facts  BY <1>7, PrepareAdds
  <2> QED BY <1>1, <2>1, <2>2, Unlinked DEF LinkedIn
<1>8. CASE Record
  <2> DEFINE c == ControlFact(control)
  <2>1. PICK i, id : live'.facts = live.facts
             \cup {Fact("ui_mutation", id, [route |-> document, by |-> i])}
             \cup Correlated(i, c.id)
    BY <1>8, RecordAdds
  <2>2. c \in live.facts /\ c.type = "control"
    BY <1>8, ControlFactIs DEF Record, FactsFit, Trying
  <2> HIDE DEF c
  <2>3. \A f \in Correlated(i, c.id) : f.id[1] = f.type /\ LinkedIn(f, live'.facts)
    <3>1. Has(live'.facts, "control", c.id)  BY <2>1, <2>2 DEF Has
    <3> QED BY <2>1, <3>1, CorrelatedAre DEF LinkedIn, Has
  <2>4. LET f == Fact("ui_mutation", id, [route |-> document, by |-> i])
        IN f.id[1] = f.type /\ LinkedIn(f, live'.facts)
    BY MutationFactIs DEF LinkedIn
  <2> QED BY <1>1, <2>1, <2>3, <2>4, Unlinked
<1>9. CASE Single \/ OverBudget \/ BrowserFails
  <2>1. live' = live \/ live'.facts = {}
    BY <1>9 DEF Single, OverBudget, BrowserFails, Throw, browser
  <2>2. Sound({})  BY DEF Sound, Typed
  <2> QED BY <1>1, <2>1, <2>2
<1>10. CASE Launch \/ Finish \/ Dequeue \/ Settle \/ Pick \/ ClickFails \/ Follow
  BY <1>1, <1>10 DEF Launch, Finish, Return, Dequeue, Settle, Pick, ClickFails, Follow, browser
<1>11. CASE Walk \/ ReadFile \/ EndRead \/ Close \/ Correlate \/ GroupNext \/ Timeout
  BY <1>1, <1>11 DEF Walk, ReadFile, EndRead, Close, Correlate, GroupNext, Timeout, browser
<1> QED BY <1>2, <1>3, <1>4, <1>5, <1>6, <1>7, <1>8, <1>9, <1>10, <1>11 DEF Next, Explore

LEMMA PutSound ==
  ASSUME NEW old, NEW new, Sound(old), Typed(new), \A f \in new : LinkedIn(f, old \cup new)
  PROVE  Sound(Put(old, new))
<1>1. \A f \in old \cup new : LinkedIn(f, old \cup new)  BY LinksGrow DEF Sound
<1> QED BY <1>1, PutLinks DEF Sound

LEMMA SearchIs ==
  ASSUME NEW c, NEW e
  PROVE  /\ SearchLink(c, e).type = "correlation" /\ SearchLink(c, e).id[1] = "correlation"
         /\ SearchLink(c, e).controlFact = c.id /\ SearchLink(c, e).endpointFact = e.id
BY DEF SearchLink, Fact, Blank

LEMMA SearchesAre ==
  \A f \in Searches : /\ f.type = "correlation" /\ f.id[1] = "correlation" /\ LinkedIn(f, facts)
<1> SUFFICES ASSUME NEW f \in Searches
             PROVE  f.type = "correlation" /\ f.id[1] = "correlation" /\ LinkedIn(f, facts)
  OBVIOUS
<1>1. PICK c \in facts, e \in facts :
        c.type = "control" /\ e.type = "endpoint" /\ f = SearchLink(c, e)
  BY DEF Searches
<1> QED BY <1>1, SearchIs DEF LinkedIn, Has

LEMMA CollectedSound ==
  ASSUME LiveFits, FactsFit, Next PROVE Sound(facts')
<1>1. Sound(facts) /\ Sound(live.facts)  BY FactsFitParts
<1>2. CASE ReadFile
  <2> DEFINE others == ControlsOf(File) \cup SchemaFields(File) \cup FallbackFields(File)
  <2>1. PICK kept \in SUBSET ReadBounded(EndpointsOf(File)) :
          facts' = Put(facts, kept \cup ReadBounded(others))
    BY <1>2 DEF ReadFile
  <2>2. ReadBounded(EndpointsOf(File)) \subseteq EndpointsOf(File) /\ ReadBounded(others) \subseteq others
    BY DEF ReadBounded
  <2> HIDE DEF others
  <2> DEFINE new == kept \cup ReadBounded(others)
  <2>3. \A f \in new : f.id[1] = f.type /\ f.type # "correlation"
    BY <2>1, <2>2, EndpointsAre, OthersAre DEF OnlyEndpoints, Static, others
  <2> HIDE DEF new
  <2>4. Typed(new) /\ \A f \in new : LinkedIn(f, facts \cup new)
    BY <2>3 DEF Typed, LinkedIn
  <2> QED BY <1>1, <2>1, <2>4, PutSound DEF new
<1>3. CASE Finish
  <2>1. facts' = Put(facts, live.facts)  BY <1>3 DEF Finish, Return
  <2>2. \A f \in live.facts : LinkedIn(f, facts \cup live.facts)  BY <1>1, LinksGrow DEF Sound
  <2> QED BY <1>1, <2>1, <2>2, PutSound DEF Sound
<1>4. CASE Single
  <2>1. CASE facts' = facts  BY <1>1, <2>1
  <2>2. CASE facts' # facts
    <3> DEFINE new == live.facts \cup {ControlFact(i) : i \in DOMAIN Shown}
    <3>1. facts' = Put(facts, new)  BY <1>4, <2>2 DEF Single, Throw, graphVars
    <3>2. Sound(new)
      <4>1. \A f \in new \ live.facts : f.id[1] = f.type /\ LinkedIn(f, new)
        BY ControlFactIs DEF LinkedIn
      <4> QED BY <1>1, <4>1, Unlinked
    <3> HIDE DEF new
    <3>3. \A f \in new : LinkedIn(f, facts \cup new)  BY <3>2, LinksGrow DEF Sound
    <3> QED BY <1>1, <3>1, <3>2, <3>3, PutSound DEF Sound
  <2> QED BY <2>1, <2>2
<1>5. CASE Correlate
  <2>1. facts' = Put(facts, Searches)  BY <1>5 DEF Correlate, StartGraph
  <2>2. Typed(Searches) /\ \A f \in Searches : LinkedIn(f, facts \cup Searches)
    BY SearchesAre, LinksGrow DEF Typed
  <2> QED BY <1>1, <2>1, <2>2, PutSound
<1>6. CASE Launch \/ Dequeue \/ Goto \/ Settle \/ Observe \/ Pick \/ Prepare \/ Click \/ ClickFails
             \/ Record \/ Follow
  BY <1>1, <1>6 DEF Launch, Dequeue, Goto, Settle, Observe, Pick, Prepare, Click, ClickFails,
                    Record, Follow, graphVars
<1>7. CASE Walk \/ EndRead \/ Close \/ GroupNext
  BY <1>1, <1>7 DEF Walk, EndRead, Close, GroupNext, Group, graphVars
<1>8. CASE Send \/ Answer \/ Timeout \/ OverBudget \/ BrowserFails
  BY <1>1, <1>8 DEF Send, Answer, Timeout, OverBudget, BrowserFails, Throw, graphVars
<1> QED BY <1>2, <1>3, <1>4, <1>5, <1>6, <1>7, <1>8 DEF Next, Explore

LEMMA NotedKept ==
  ASSUME LiveFits, FactsFit, Next PROVE ControlsNoted'
<1> USE DEF Trying
<1>1. ControlsNoted  BY FactsFitParts
<1>2. setting' = setting  BY SettingKept
<1>3. ASSUME current' = current, pc \in Trying \cup {"pick"}, live.facts \subseteq live'.facts,
             pc' \in Trying => control' \in DOMAIN Shown
      PROVE  ControlsNoted'
  BY <1>1, <1>2, <1>3, SamePage DEF ControlsNoted
<1>4. ASSUME pc' \notin Trying \cup {"pick"} PROVE ControlsNoted'
  BY <1>4 DEF ControlsNoted
<1>5. CASE Goto
  <2>1. pc = "revisit" \/ pc' \notin Trying \cup {"pick"}  BY <1>5 DEF Goto
  <2>2. current' = current /\ control' = control /\ live.facts \subseteq live'.facts
    BY <1>5, LoadAdds DEF Goto, explorer, Adds
  <2> QED BY <1>1, <1>3, <1>4, <2>1, <2>2 DEF ControlsNoted
<1>6. CASE Click
  <2>1. current' = current /\ control' = control /\ live.facts \subseteq live'.facts /\ pc = "click"
    BY <1>6, LoadAdds DEF Click, explorer, Adds
  <2> QED BY <1>1, <1>3, <2>1 DEF ControlsNoted
<1>7. CASE Send \/ Answer \/ Timeout
  <2>1. current' = current /\ control' = control /\ pc' = pc
    BY <1>7 DEF Send, Answer, Timeout, explorer
  <2>2. live.facts \subseteq live'.facts
    <3>1. CASE Send  BY <3>1, HeardAdds DEF Send, LiveFits, Adds
    <3>2. CASE Answer  BY <3>2, AnsweredAdds DEF Answer, LiveFits, Adds
    <3>3. CASE Timeout  BY <3>3 DEF Timeout, browser
    <3> QED BY <1>7, <3>1, <3>2, <3>3
  <2> QED BY <1>1, <1>3, <1>4, <2>1, <2>2 DEF ControlsNoted
<1>8. CASE Observe
  <2>1. current' = current  BY <1>8 DEF Observe
  <2>2. pc' = "pick" => \A i \in DOMAIN Shown : ControlFact(i) \in live'.facts
    BY <1>8, ObserveAdds
  <2>3. pc' \in {"pick", "top"}  BY <1>8 DEF Observe
  <2> QED BY <1>2, <2>1, <2>2, <2>3, SamePage DEF ControlsNoted
<1>9. CASE Pick
  <2>1. current' = current /\ live' = live /\ pc = "pick" /\ control \in DOMAIN Shown
    BY <1>9 DEF Pick, browser, Exhausted
  <2>2. (pc' = "revisit" /\ control' = control) \/ pc' = "pick"
    BY <1>9 DEF Pick
  <2> QED BY <1>3, <2>1, <2>2
<1>10. CASE Settle
  <2>1. current' = current /\ control' = control /\ live' = live /\ (pc = "wait" \/ pc' = "observe")
    BY <1>10 DEF Settle, browser
  <2> QED BY <1>1, <1>3, <1>4, <2>1 DEF ControlsNoted
<1>11. CASE Prepare
  <2>1. current' = current /\ control' = control /\ pc = "resettle"  BY <1>11 DEF Prepare
  <2> QED BY <1>1, <1>3, <1>11, <2>1, PrepareAdds DEF ControlsNoted
<1>12. CASE ClickFails
  <2>1. current' = current /\ live' = live /\ pc \in {"click", "wait"} /\ pc' = "pick"
    BY <1>12 DEF ClickFails, browser
  <2> QED BY <1>3, <2>1
<1>13. CASE Record
  <2>1. current' = current /\ pc = "post" /\ pc' = "pick"  BY <1>13 DEF Record
  <2> QED BY <1>3, <1>13, <2>1, RecordAdds
<1>14. CASE Launch \/ Finish \/ Dequeue \/ Follow \/ Single
  BY <1>4, <1>14 DEF Launch, Finish, Return, Dequeue, Skip, Visit, Follow, Single, Throw
<1>15. CASE Walk \/ ReadFile \/ EndRead \/ Close \/ Correlate \/ GroupNext \/ OverBudget \/ BrowserFails
  BY <1>4, <1>15 DEF Walk, ReadFile, EndRead, Close, Correlate, GroupNext, OverBudget, BrowserFails, Throw
<1> QED BY <1>5, <1>6, <1>7, <1>8, <1>9, <1>10, <1>11, <1>12, <1>13, <1>14, <1>15 DEF Next, Explore

LEMMA FactsKept == ASSUME LiveFits, FactsFit, Next PROVE FactsFit'
BY LiveSound, CollectedSound, NotedKept DEF FactsFit, Sound, ControlsNoted

LEMMA FactsStay == ASSUME FactsFit, UNCHANGED vars PROVE FactsFit'
<1>1. /\ setting' = setting /\ current' = current /\ facts' = facts /\ live' = live
      /\ pc' = pc /\ control' = control
  BY DEF vars, explorer, browser, graphVars
<1>2. Sound(facts') /\ Sound(live'.facts) /\ ControlsNoted'
  BY <1>1, FactsFitParts, SamePage DEF ControlsNoted
<1> QED BY <1>2 DEF FactsFit, Sound, ControlsNoted

LEMMA FactsInitially == ASSUME Init PROVE FactsFit
BY DEF Init, FactsFit, Typed, Trying

(***************************************************************************)
(* What the graph makes of facts that fit: its nodes, fields and edges are *)
(* defined over all of them.                                               *)
(***************************************************************************)
LEMMA NodeOf ==
  ASSUME NEW f \in OfType({"endpoint", "control", "field", "validation"})
  PROVE  \E n \in Nodes : f \in EvidenceOf(n)
<1>1. f \in facts /\ f.type \in {"endpoint", "control", "field", "validation"}  BY DEF OfType
<1>2. CASE f.type = "endpoint"
  <2> DEFINE n == <<"operation", Operation(f)>>
  <2>1. n \in Nodes  BY <1>1, <1>2 DEF Nodes, Operations, OfType
  <2>2. EvidenceOf(n) = OperationFacts(Operation(f))  BY DEF EvidenceOf
  <2>3. f \in OperationFacts(Operation(f))  BY <1>1, <1>2 DEF OperationFacts, OfType
  <2> QED BY <2>1, <2>2, <2>3
<1>3. CASE f.type = "control"
  <2> DEFINE n == <<"control", Control(f)>>
  <2>1. n \in Nodes  BY <1>1, <1>3 DEF Nodes, Controls, OfType
  <2>2. EvidenceOf(n) = {g \in OfType({"control"}) : Control(g) = Control(f)}  BY DEF EvidenceOf
  <2>3. f \in OfType({"control"})  BY <1>1, <1>3 DEF OfType
  <2> QED BY <2>1, <2>2, <2>3
<1>4. CASE f.type \in {"field", "validation"}
  <2> DEFINE n == <<"field", Field(f)>>
  <2>1. f \in FieldFacts  BY <1>1, <1>4 DEF FieldFacts, OfType
  <2>2. n \in Nodes  BY <2>1 DEF Nodes, Fields
  <2>3. EvidenceOf(n) = {g \in FieldFacts : Field(g) = Field(f)}  BY DEF EvidenceOf
  <2> QED BY <2>1, <2>2, <2>3
<1> QED BY <1>1, <1>2, <1>3, <1>4

LEMMA HomeExists == ASSUME NEW f PROVE Home(f) \in Resources \cup {Unbound}
<1> DEFINE existing == ExistingCandidates(f)
           writable == {r \in existing : Mutable(r)}
<1>1. existing \subseteq Resources
  BY DEF ExistingCandidates, Resources
<1>2. ASSUME NEW S, Cardinality(S) = 1 PROVE (CHOOSE r \in S : TRUE) \in S
  <2>1. S # {}  BY <1>2, FS_EmptySet
  <2> QED BY <2>1
<1>3. \/ Cardinality(existing) = 1 /\ Home(f) = CHOOSE r \in existing : TRUE
      \/ Cardinality(writable) = 1 /\ Home(f) = CHOOSE r \in writable : TRUE
      \/ Home(f) = Unbound
  BY Zenon DEF Home
<1>4. writable \subseteq existing  OBVIOUS
<1> HIDE DEF existing, writable
<1> QED BY <1>1, <1>2, <1>3, <1>4

LEMMA OperationEvidence ==
  ASSUME NEW o \in Operations PROVE OperationFacts(o) # {} /\ OperationFacts(o) \subseteq facts
<1>1. PICK f \in OfType({"endpoint"}) : o = Operation(f)  BY DEF Operations
<1>2. f \in OperationFacts(o)  BY <1>1 DEF OperationFacts, OfType
<1>3. OperationFacts(o) \subseteq facts  BY DEF OperationFacts, OfType
<1> QED BY <1>2, <1>3

GoodEdge(e) == {e.from, e.to} \subseteq Nodes /\ e.evidence # {} /\ e.evidence \subseteq facts

LEMMA EdgeIs ==
  ASSUME NEW a, NEW b, NEW ev, a \in Nodes, b \in Nodes, ev # {}, ev \subseteq facts
  PROVE  GoodEdge(Edge(a, b, ev))
BY DEF GoodEdge, Edge

LEMMA OperationEdgesRest ==
  ASSUME NEW r \in Resources, NEW e \in OperationEdges(r) PROVE GoodEdge(e)
<1>1. PICK o \in OperationsOf(r) :
        e = Edge(<<"resource", r>>, <<"operation", o>>,
                 Shared(EvidenceOf(<<"resource", r>>), OperationFacts(o)))
  BY DEF OperationEdges
<1>2. o \in Operations  BY DEF OperationsOf
<1>3. <<"resource", r>> \in Nodes /\ <<"operation", o>> \in Nodes  BY <1>2 DEF Nodes
<1>4. EvidenceOf(<<"resource", r>>) = UNION {OperationFacts(p) : p \in OperationsOf(r)}
  BY DEF EvidenceOf
<1>5. OperationFacts(o) \subseteq EvidenceOf(<<"resource", r>>)  BY <1>4
<1> DEFINE left == EvidenceOf(<<"resource", r>>)
           right == OperationFacts(o)
<1>6. right # {} /\ right \subseteq facts  BY <1>2, OperationEvidence
<1> HIDE DEF left, right
<1>7. Shared(left, right) # {} /\ Shared(left, right) \subseteq facts
  BY <1>5, <1>6 DEF Shared, left, right
<1> QED BY <1>1, <1>3, <1>7, EdgeIs DEF left, right

LEMMA FieldEdgesRest ==
  ASSUME NEW r \in Resources, NEW e \in FieldEdges(r) PROVE GoodEdge(e)
<1>1. PICK x \in FieldsOf(r) : e = Edge(<<"resource", r>>, <<"field", x>>, EvidenceOf(<<"field", x>>))
  BY DEF FieldEdges
<1>2. x \in Fields  BY DEF FieldsOf
<1>3. PICK f \in FieldFacts : x = Field(f)  BY <1>2 DEF Fields
<1>4. EvidenceOf(<<"field", x>>) = {g \in FieldFacts : Field(g) = x}  BY DEF EvidenceOf
<1>5. <<"resource", r>> \in Nodes /\ <<"field", x>> \in Nodes  BY <1>2 DEF Nodes
<1>6. FieldFacts \subseteq facts  BY DEF FieldFacts, OfType
<1> QED BY <1>1, <1>3, <1>4, <1>5, <1>6, EdgeIs

LEMMA ControlEdgeRests ==
  ASSUME NEW f \in OfType({"control"}) PROVE GoodEdge(ControlEdge(f))
<1>1. f \in facts /\ f \in OfType({"endpoint", "control"})  BY DEF OfType
<1>2. <<"route", f.route>> \in Nodes  BY <1>1 DEF Nodes, Routes
<1>3. <<"control", Control(f)>> \in Nodes  BY DEF Nodes, Controls
<1> QED BY <1>1, <1>2, <1>3, EdgeIs DEF ControlEdge

LEMMA CorrelationEdgesRest ==
  ASSUME NEW f \in OfType({"correlation"}), NEW e \in CorrelationEdges(f) PROVE GoodEdge(e)
<1>1. PICK l \in Linked(f) :
        e = Edge(<<"control", Control(l[1])>>, <<"operation", Operation(l[2])>>, {f})
  BY DEF CorrelationEdges
<1>2. l[1] \in OfType({"control"}) /\ l[2] \in OfType({"endpoint"})  BY DEF Linked
<1>3. <<"control", Control(l[1])>> \in Nodes  BY <1>2 DEF Nodes, Controls
<1>4. <<"operation", Operation(l[2])>> \in Nodes  BY <1>2 DEF Nodes, Operations
<1>5. f \in facts  BY DEF OfType
<1> QED BY <1>1, <1>3, <1>4, <1>5, EdgeIs

LEMMA EdgesRest == \A e \in Edges : GoodEdge(e)
<1> SUFFICES ASSUME NEW e \in Edges PROVE GoodEdge(e)  OBVIOUS
<1>1. \/ \E r \in Resources : e \in OperationEdges(r) \/ e \in FieldEdges(r)
      \/ \E f \in OfType({"control"}) : e = ControlEdge(f)
      \/ \E f \in OfType({"correlation"}) : e \in CorrelationEdges(f)
  BY DEF Edges
<1> QED BY <1>1, OperationEdgesRest, FieldEdgesRest, ControlEdgeRests, CorrelationEdgesRest, Zenon

LEMMA AllLinked ==
  ASSUME \A f \in facts : LinkedIn(f, facts), NEW d \in Diagnostics
  PROVE  d.code # "UNLINKED_CORRELATION"
<1>1. ASSUME NEW f \in OfType({"correlation"}) PROVE Linked(f) # {}
  <2>1. f \in facts /\ f.type = "correlation"  BY <1>1 DEF OfType
  <2>2. PICK c \in facts, e \in facts : /\ c.type = "control" /\ c.id = f.controlFact
                                        /\ e.type = "endpoint" /\ e.id = f.endpointFact
    BY <2>1 DEF LinkedIn, Has
  <2>3. <<c, e>> \in Linked(f)  BY <2>2 DEF Linked, OfType
  <2> QED BY <2>3
<1>2. ASSUME d.code = "UNLINKED_CORRELATION"
      PROVE  \E f \in OfType({"correlation"}) : Linked(f) = {}
  BY <1>2 DEF Diagnostics, Diagnostic
<1> QED BY <1>1, <1>2

\* The graph keeps every endpoint, control and field fact, binds fields to resources
\* it has, joins nodes by edges that rest on facts, and links every correlation with
\* a control and an operation (buildApplicationGraph), whatever was cut away.
THEOREM GraphKeepsEvidence == Spec => []EvidenceKept
<1>1. Init => LiveFits /\ FactsFit  BY FactsInitially DEF Init, LiveFits
<1>2. ASSUME LiveFits, FactsFit, [Next]_vars PROVE (LiveFits /\ FactsFit)'
  <2>1. CASE Next  BY <1>2, <2>1, LiveKept, FactsKept
  <2>2. CASE UNCHANGED vars
    BY <1>2, <2>2, FactsStay DEF vars, browser, LiveFits
  <2> QED BY <1>2, <2>1, <2>2
<1>3. ASSUME FactsFit PROVE EvidenceKept
  <2>1. \A f \in facts : LinkedIn(f, facts)  BY <1>3 DEF FactsFit
  <2>2. \A x \in Fields : x[1] \in Resources \cup {Unbound}
    BY HomeExists DEF Fields, Field
  <2>3. \A d \in Diagnostics : d.code # "UNLINKED_CORRELATION"  BY <2>1, AllLinked
  <2>4. \A f \in OfType({"endpoint", "control", "field", "validation"}) :
          \E n \in Nodes : f \in EvidenceOf(n)
    BY NodeOf
  <2> QED BY <2>2, <2>3, <2>4, EdgesRest, Zenon DEF EvidenceKept, GoodEdge
<1> QED BY <1>1, <1>2, <1>3, PTL DEF Spec

--------------------------------------------------------------------------------
(***************************************************************************)
(* What a discovery without blockers has read: every file that was listed, *)
(* and every endpoint in what was read of it.                              *)
(***************************************************************************)
LEMMA ProjectIs ==
  ASSUME Stands
  PROVE  /\ Project \in Seq(ToSet(Project)) /\ MaxRoutes \in Nat
         /\ \A i \in DOMAIN Project : IsFiniteSet(EndpointsOf(Project[i]))
<1>1. /\ Project \in Seq(ToSet(Project)) /\ setting.routes \in Nat
      /\ \A file \in ToSet(Project) : IsFiniteSet(EndpointsOf(file))
  BY FilesAssumption, Zenon DEF Stands, Project
<1>2. \A i \in DOMAIN Project : Project[i] \in ToSet(Project)  BY DEF ToSet
<1> QED BY <1>1, <1>2 DEF MaxRoutes

LEMMA ProjectKept ==
  ASSUME setting' = setting
  PROVE  Project' = Project /\ MaxRoutes' = MaxRoutes /\ Entry' = Entry
BY DEF Project, MaxRoutes, Entry, Pages

LEMMA BlockersKept == ASSUME Next, pc # "walk" PROVE blockers \subseteq blockers'
<1>1. CASE Explore
  BY <1>1 DEF Explore, Launch, Finish, Return, Dequeue, Goto, Settle, Observe, Pick, Prepare,
              Click, ClickFails, Record, Follow, Single, Throw
<1>2. CASE ReadFile \/ EndRead \/ Close \/ Correlate \/ GroupNext
  BY <1>2 DEF ReadFile, EndRead, Close, Correlate, GroupNext
<1>3. CASE Send \/ Answer \/ Timeout \/ OverBudget \/ BrowserFails
  BY <1>3 DEF Send, Answer, Timeout, OverBudget, BrowserFails, Throw
<1>4. CASE Walk  BY <1>4 DEF Walk
<1> QED BY <1>1, <1>2, <1>3, <1>4 DEF Next

\* No fact leaves without another of its id.
LEMMA KnownKept ==
  ASSUME Next PROVE facts' = facts \/ \E new : facts' = Put(facts, new)
<1>1. CASE ReadFile
  BY <1>1 DEF ReadFile
<1>2. CASE Finish  BY <1>2 DEF Finish, Return
<1>3. CASE Single  BY <1>3 DEF Single, Throw, graphVars
<1>4. CASE Correlate  BY <1>4 DEF Correlate, StartGraph
<1>5. CASE Launch \/ Dequeue \/ Goto \/ Settle \/ Observe \/ Pick \/ Prepare \/ Click \/ ClickFails
             \/ Record \/ Follow
  BY <1>5 DEF Launch, Dequeue, Goto, Settle, Observe, Pick, Prepare, Click, ClickFails,
              Record, Follow, graphVars
<1>6. CASE Walk \/ EndRead \/ Close \/ GroupNext
  BY <1>6 DEF Walk, EndRead, Close, GroupNext, Group, graphVars
<1>7. CASE Send \/ Answer \/ Timeout \/ OverBudget \/ BrowserFails
  BY <1>7 DEF Send, Answer, Timeout, OverBudget, BrowserFails, Throw, graphVars
<1> QED BY <1>1, <1>2, <1>3, <1>4, <1>5, <1>6, <1>7 DEF Next, Explore

LEMMA StillKnown ==
  ASSUME Next, NEW e, Known(facts, e) PROVE Known(facts', e)
<1>1. PICK f \in facts : f.id = e.id  BY DEF Known
<1>2. CASE facts' = facts  BY <1>2
<1>3. ASSUME NEW new, facts' = Put(facts, new) PROVE Known(facts', e)
  <2>1. Known(Put(facts, new), f)  BY PutIs
  <2> QED BY <1>1, <1>3, <2>1 DEF Known
<1> QED BY <1>2, <1>3, KnownKept

LEMMA KeysFinite ==
  ASSUME NEW S, IsFiniteSet(S) PROVE IsFiniteSet({RouteKey(f) : f \in S})
<1> DEFINE T == {RouteKey(f) : f \in S}
           g == [f \in S |-> RouteKey(f)]
<1>1. g \in Surjection(S, T)  BY DEF Surjection
<1> HIDE DEF T, g
<1> QED BY <1>1, FS_Surjection DEF T

LEMMA DiscoveredFinite ==
  ASSUME Stands, FilesKept, Next PROVE IsFiniteSet(discovered')
<1>1. IsFiniteSet(discovered)  BY DEF FilesKept
<1>2. CASE ReadFile
  <2>1. PICK kept \in SUBSET ReadBounded(EndpointsOf(File)) :
          discovered' = discovered \cup {RouteKey(f) : f \in kept}
    BY <1>2 DEF ReadFile
  <2>2. read + 1 \in DOMAIN Project
    BY <1>2, ProjectIs DEF ReadFile, FilesKept
  <2>3. IsFiniteSet(EndpointsOf(File))  BY <2>2, ProjectIs DEF File
  <2>4. ReadBounded(EndpointsOf(File)) \subseteq EndpointsOf(File)  BY DEF ReadBounded
  <2>5. kept \in SUBSET EndpointsOf(File)  BY <2>1, <2>4
  <2>6. IsFiniteSet(kept)  BY <2>3, <2>5, FS_Subset
  <2> QED BY <1>1, <2>1, <2>6, KeysFinite, FS_Union
<1>3. CASE Dequeue
  <2>1. discovered' = discovered \/ \E x : discovered' = discovered \cup {x}
    BY <1>3 DEF Dequeue, Skip, Visit
  <2> QED BY <1>1, <2>1, FS_AddElement
<1>4. CASE Single
  <2>1. discovered' = discovered \/ \E x : discovered' = discovered \cup {x}
    BY <1>4 DEF Single, Throw
  <2> QED BY <1>1, <2>1, FS_AddElement
<1>5. CASE Launch \/ Finish \/ Goto \/ Settle \/ Observe \/ Pick \/ Prepare \/ Click \/ ClickFails
             \/ Record \/ Follow
  BY <1>1, <1>5 DEF Launch, Finish, Goto, Settle, Observe, Pick, Prepare, Click, ClickFails,
                    Record, Follow
<1>6. CASE Walk \/ EndRead \/ Close \/ Correlate \/ GroupNext
  BY <1>1, <1>6 DEF Walk, EndRead, Close, Correlate, GroupNext
<1>7. CASE Send \/ Answer \/ Timeout \/ OverBudget \/ BrowserFails
  BY <1>1, <1>7 DEF Send, Answer, Timeout, OverBudget, BrowserFails, Throw
<1> QED BY <1>2, <1>3, <1>4, <1>5, <1>6, <1>7 DEF Next, Explore

LEMMA ReadsAll ==
  ASSUME FilesKept, Stands, ReadFile, blockers' = {}
  PROVE  blockers = {} /\ (File.readable => \A e \in EndpointsOf(File) : Known(facts', e))
<1> DEFINE found == ReadBounded(EndpointsOf(File))
           others == ReadBounded(ControlsOf(File) \cup SchemaFields(File) \cup FallbackFields(File))
<1>1. PICK kept \in SUBSET found :
        /\ facts' = Put(facts, kept \cup others)
        /\ blockers' = IF kept = found THEN blockers ELSE blockers \cup {"ROUTES"}
  BY DEF ReadFile
<1>2. kept = found /\ blockers = {}  BY <1>1
<1>3. File.readable => found = EndpointsOf(File)  BY DEF ReadBounded
<1> HIDE DEF found, others
<1>4. kept \subseteq facts'  BY <1>1, PutIs
<1> QED BY <1>2, <1>3, <1>4 DEF Known

LEMMA FilesStillKept == ASSUME Stands, FilesKept, Next PROVE FilesKept'
<1>1. setting' = setting  BY SettingKept
<1>2. Project' = Project /\ Len(Project) \in Nat /\ Project \in Seq(ToSet(Project))
  BY <1>1, ProjectKept, ProjectIs
<1>3. IsFiniteSet(discovered')  BY DiscoveredFinite
<1> DEFINE Read(n, fs) ==
             \A i \in 1 .. n : Project[i].readable =>
               \A e \in EndpointsOf(Project[i]) : Known(fs, e)
<1>4. FilesKept' <=>
        /\ read' \in 0 .. Len(Project)
        /\ pc' = "walk" => blockers' = {}
        /\ blockers' = {} => Read(read', facts')
        /\ blockers' = {} /\ pc' \notin {"walk", "read"} => read' = Len(Project)
  BY <1>2, <1>3, Zenon DEF FilesKept
<1>5. /\ read \in 0 .. Len(Project)
      /\ pc = "walk" => blockers = {}
      /\ blockers = {} => Read(read, facts)
      /\ blockers = {} /\ pc \notin {"walk", "read"} => read = Len(Project)
  BY Zenon DEF FilesKept
<1>6. Read(read, facts) => Read(read, facts')  BY StillKnown
<1> HIDE DEF Read
<1>7. blockers' = {} => blockers = {}  BY <1>5, BlockersKept
<1>8. CASE ReadFile
  <2>1. read' = read + 1 /\ pc' = "read" /\ read < Len(Project)  BY <1>8 DEF ReadFile
  <2>2. ASSUME blockers' = {} PROVE Read(read + 1, facts')
    <3>1. blockers = {} /\ (File.readable => \A e \in EndpointsOf(File) : Known(facts', e))
      BY <1>8, <2>2, ReadsAll
    <3>2. Read(read, facts')  BY <1>5, <1>6, <3>1
    <3>3. \A i \in 1 .. read + 1 : i \in 1 .. read \/ i = read + 1  BY <1>5, <1>2
    <3> QED BY <3>1, <3>2, <3>3, Zenon DEF Read, File
  <2> QED BY <1>2, <1>4, <1>5, <2>1, <2>2
<1>9. CASE Walk
  <2>1. read' = read /\ pc' = "read" /\ pc = "walk"  BY <1>9 DEF Walk
  <2> QED BY <1>4, <1>5, <1>6, <2>1
<1>10. CASE EndRead
  <2>1. read' = read /\ pc = "read" /\ pc' # "walk"  BY <1>10 DEF EndRead
  <2>2. blockers' = {} => read = Len(Project)  BY <1>10 DEF EndRead
  <2> QED BY <1>4, <1>5, <1>6, <1>7, <2>1, <2>2
<1>11. ASSUME read' = read, pc \notin {"walk", "read"}, pc' \notin {"walk", "read"} PROVE FilesKept'
  BY <1>4, <1>5, <1>6, <1>7, <1>11
<1>12. CASE Explore
  BY <1>11, <1>12 DEF Explore, Launch, Finish, Return, Dequeue, Skip, Visit, Goto, Settle, Observe, Pick,
              Prepare, Click, ClickFails, Record, Follow, Single, Throw
<1>13. CASE Close \/ Correlate \/ GroupNext
  BY <1>11, <1>13 DEF Close, Correlate, GroupNext
<1>14. CASE Send \/ Answer \/ Timeout \/ OverBudget \/ BrowserFails
  BY <1>11, <1>14 DEF Send, Answer, Timeout, OverBudget, BrowserFails, Throw, Browsing, Exploring, Awaiting
<1> QED BY <1>8, <1>9, <1>10, <1>12, <1>13, <1>14 DEF Next

(***************************************************************************)
(* The entry page: it is at the head of the queue until it is visited, its *)
(* state is new when it is observed, and from then on its route is a fact. *)
(***************************************************************************)
LEMMA EntryGrows ==
  ASSUME NEW fs, NEW gs, fs \subseteq gs, EntryIn(fs) PROVE EntryIn(gs)
BY DEF EntryIn

LEMMA EntryPut ==
  ASSUME NEW old, NEW new, EntryIn(new) PROVE EntryIn(Put(old, new))
BY PutIs, EntryGrows

LEMMA EntryCorrelated ==
  ASSUME FactsFit, EntryIn(facts) PROVE EntryIn(Put(facts, Searches))
<1>1. PICK f \in facts : f.type = "route" /\ f.route = Entry  BY DEF EntryIn
<1>2. f.id[1] = "route"  BY <1>1 DEF FactsFit, Typed
<1>3. \A g \in Searches : g.id # f.id  BY <1>2, SearchesAre
<1>4. f \in Put(facts, Searches)  BY <1>3 DEF Put
<1> QED BY <1>1, <1>4 DEF EntryIn

\* EntrySeen for the state that a step reaches, in terms of the setting before it.
LEMMA EntrySeenNext ==
  ASSUME setting' = setting
  PROVE  EntrySeen' <=>
           (setting.target /\ ~SinglePage /\ blockers' = {} =>
             /\ pc' \in {"walk", "read", "launch"} => Ahead'
             /\ pc' = "top" =>
                  \/ EntryIn(live'.facts)
                  \/ Ahead' /\ queue' # <<>> /\ Head(queue').url = setting.start /\ Head(queue').depth = 0
             /\ pc' = "goto" =>
                  EntryIn(live'.facts) \/ (states' = {} /\ current'.url = setting.start)
             /\ pc' \in {"settle", "observe"} => EntryIn(live'.facts) \/ (states' = {} /\ document' = Entry)
             /\ pc' \in {"pick", "revisit", "resettle", "click", "wait", "post"} => EntryIn(live'.facts)
             /\ pc' \in {"closing", "correlate", "graph", "built"} =>
                  EntryIn(facts') \/ Cardinality(discovered') >= MaxRoutes)
<1>1. Entry' = Entry /\ MaxRoutes' = MaxRoutes  BY ProjectKept
<1>2. EntryIn(live.facts)' <=> EntryIn(live'.facts)  BY <1>1 DEF EntryIn
<1>3. EntryIn(facts)' <=> EntryIn(facts')  BY <1>1 DEF EntryIn
<1>4. SinglePage' <=> SinglePage  BY SinglePageKept
<1> QED BY <1>1, <1>2, <1>3, <1>4 DEF EntrySeen

LEMMA EntryFinish ==
  ASSUME Stands, FilesKept, EntrySeen, Finish,
         setting.target, ~SinglePage, blockers = {}
  PROVE  pc' = "closing" /\ (EntryIn(facts') \/ Cardinality(discovered') >= MaxRoutes)
<1>1. /\ pc = "top" /\ pc' = "closing" /\ facts' = Put(facts, live.facts)
      /\ discovered' = discovered
      /\ \/ queue = <<>>
         \/ Cardinality(visited) >= MaxRoutes
         \/ queue # <<>> /\ Head(queue).depth <= MaxDepth /\ NoRouteLeft(Head(queue).url)
  BY DEF Finish, Return
<1>2. CASE EntryIn(live.facts)  BY <1>1, <1>2, EntryPut
<1>3. CASE ~EntryIn(live.facts)
  <2>1. visited = {} /\ queue # <<>>  BY <1>1, <1>3 DEF EntrySeen, Ahead
  <2>2. CASE Cardinality(visited) >= MaxRoutes
    <3>1. Cardinality(visited) = 0 /\ MaxRoutes \in Nat  BY <2>1, FS_EmptySet, ProjectIs
    <3>2. Cardinality(discovered) \in Nat  BY FS_CardinalityType DEF FilesKept
    <3> QED BY <1>1, <2>2, <3>1, <3>2
  <2>3. CASE NoRouteLeft(Head(queue).url)  BY <1>1, <2>3 DEF NoRouteLeft
  <2> QED BY <1>1, <2>1, <2>2, <2>3
<1> QED BY <1>2, <1>3, <1>1

LEMMA EntryDequeue ==
  ASSUME Stands, FilesKept, EntrySeen, Dequeue,
         setting.target, ~SinglePage, blockers = {}
  PROVE  \/ pc' = "top" /\ EntryIn(live'.facts)
         \/ pc' = "goto" /\ (EntryIn(live'.facts) \/ (states' = {} /\ current'.url = setting.start))
<1>1. /\ pc = "top" /\ live' = live /\ states' = states
      /\ Skip(Head(queue)) \/ Visit(Head(queue))
  BY DEF Dequeue, browser
<1>2. Skip(Head(queue)) => pc' = "top" /\ (Head(queue).depth > MaxDepth \/ Head(queue).url \in visited)
  BY <1>1 DEF Skip
<1>3. Visit(Head(queue)) => pc' = "goto" /\ current' = Head(queue)  BY DEF Visit
<1>4. MaxDepth \in Nat  BY BudgetAssumption
<1>5. CASE EntryIn(live.facts)  BY <1>1, <1>2, <1>3, <1>5
<1>6. CASE ~EntryIn(live.facts)
  <2>1. visited = {} /\ states = {} /\ Head(queue).url = setting.start /\ Head(queue).depth = 0
    BY <1>1, <1>6 DEF EntrySeen, Ahead
  <2> QED BY <1>1, <1>2, <1>3, <1>4, <2>1
<1> QED BY <1>5, <1>6

LEMMA EntryObserve ==
  ASSUME LiveFits, EntrySeen, Observe,
         setting.target, ~SinglePage, blockers = {}
  PROVE  pc' \in {"top", "pick"} /\ EntryIn(live'.facts)
<1>1. pc = "observe" /\ pc' \in {"top", "pick"}  BY DEF Observe
<1>2. EntryIn(live.facts) \/ (states = {} /\ document = Entry)  BY <1>1 DEF EntrySeen
<1>3. CASE EntryIn(live.facts)
  <2>1. live.facts \subseteq live'.facts  BY ObserveAdds
  <2> QED BY <1>1, <1>3, <2>1, EntryGrows
<1>4. CASE states = {} /\ document = Entry
  <2> DEFINE f == Fact("route", State(document), [route |-> document])
  <2>1. f \in live'.facts  BY <1>4, ObserveAdds
  <2>2. f.type = "route" /\ f.route = document  BY RouteFactIs
  <2> HIDE DEF f
  <2> QED BY <1>1, <1>4, <2>1, <2>2 DEF EntryIn
<1> QED BY <1>2, <1>3, <1>4

LEMMA EntryStillSeen ==
  ASSUME Stands, LiveFits, FilesKept, EntrySeen, FactsFit, Next
  PROVE  EntrySeen'
<1>1. setting' = setting  BY SettingKept
<1>2. SUFFICES ASSUME setting.target, ~SinglePage, blockers' = {}
      PROVE /\ pc' \in {"walk", "read", "launch"} => Ahead'
            /\ pc' = "top" =>
                  \/ EntryIn(live'.facts)
                  \/ Ahead' /\ queue' # <<>> /\ Head(queue').url = setting.start /\ Head(queue').depth = 0
            /\ pc' = "goto" =>
                  EntryIn(live'.facts) \/ (states' = {} /\ current'.url = setting.start)
            /\ pc' \in {"settle", "observe"} => EntryIn(live'.facts) \/ (states' = {} /\ document' = Entry)
            /\ pc' \in {"pick", "revisit", "resettle", "click", "wait", "post"} => EntryIn(live'.facts)
            /\ pc' \in {"closing", "correlate", "graph", "built"} =>
                  EntryIn(facts') \/ Cardinality(discovered') >= MaxRoutes
  BY <1>1, EntrySeenNext
<1>3. blockers = {}  BY <1>2, BlockersKept DEF FilesKept
<1> HIDE <1>2
<1>4. /\ pc \in {"walk", "read", "launch"} => Ahead
      /\ pc = "top" =>
           \/ EntryIn(live.facts)
           \/ Ahead /\ queue # <<>> /\ Head(queue).url = setting.start /\ Head(queue).depth = 0
      /\ pc = "goto" => EntryIn(live.facts) \/ (states = {} /\ current.url = setting.start)
      /\ pc \in {"settle", "observe"} => EntryIn(live.facts) \/ (states = {} /\ document = Entry)
      /\ pc \in {"pick", "revisit", "resettle", "click", "wait", "post"} => EntryIn(live.facts)
      /\ pc \in {"closing", "correlate", "graph", "built"} =>
           EntryIn(facts) \/ Cardinality(discovered) >= MaxRoutes
  BY <1>2, <1>3 DEF EntrySeen
<1>5. pc # "single"  BY <1>2 DEF Stands
<1>6. CASE Walk \/ ReadFile
  BY <1>4, <1>6 DEF Walk, ReadFile, explorer, Ahead
<1>7. CASE EndRead
  BY <1>2, <1>4, <1>7 DEF EndRead, explorer, Ahead
<1>8. CASE Launch
  <2>1. pc = "launch" /\ pc' \in {"launch", "top"} /\ visited' = visited /\ states' = states
    BY <1>2, <1>8 DEF Launch
  <2>2. pc' = "top" => queue' = <<[url |-> setting.start, depth |-> 0, via |-> NoId]>>
    BY <1>8 DEF Launch
  <2> QED BY <1>4, <2>1, <2>2 DEF Ahead
<1>9. CASE Finish  BY <1>2, <1>3, <1>9, EntryFinish
<1>10. CASE Dequeue  BY <1>2, <1>3, <1>10, EntryDequeue
<1>11. CASE Goto
  <2>1. /\ \/ pc = "revisit" /\ pc' = "resettle"
           \/ pc = "goto" /\ pc' = "settle"
        /\ states' = states
    BY <1>2, <1>11 DEF Goto, explorer
  <2>2. live.facts \subseteq live'.facts  BY <1>11, LoadAdds DEF Goto, Adds
  <2>3. current.url = setting.start => document' = Entry
    BY <1>11, LoadAdds DEF Goto, Entry
  <2> QED BY <1>4, <2>1, <2>2, <2>3, EntryGrows
<1>12. CASE Settle
  <2>1. /\ \/ pc = "settle" /\ pc' = "observe"
           \/ pc = "wait" /\ pc' = "post"
        /\ states' = states /\ document' = document /\ live' = live
    BY <1>12 DEF Settle, browser
  <2> QED BY <1>4, <2>1
<1>13. CASE Observe  BY <1>2, <1>3, <1>13, EntryObserve
<1>14. CASE Pick \/ ClickFails
  BY <1>4, <1>14 DEF Pick, ClickFails, browser
<1>15. CASE Prepare
  <2>1. pc = "resettle" /\ pc' = "click"  BY <1>15 DEF Prepare
  <2> QED BY <1>4, <1>15, <2>1, PrepareAdds, EntryGrows
<1>16. CASE Click
  <2>1. pc = "click" /\ pc' = "wait"  BY <1>16 DEF Click
  <2>2. live.facts \subseteq live'.facts  BY <1>16, LoadAdds DEF Click, Adds
  <2> QED BY <1>4, <2>1, <2>2, EntryGrows
<1>17. CASE Record
  <2>1. pc = "post" /\ pc' = "pick"  BY <1>17 DEF Record
  <2>2. live.facts \subseteq live'.facts  BY <1>17, RecordAdds
  <2> QED BY <1>4, <2>1, <2>2, EntryGrows
<1>18. CASE Follow
  BY <1>4, <1>18 DEF Follow, browser
<1>19. CASE Single  BY <1>5, <1>19 DEF Single
<1>20. CASE Send \/ Answer \/ Timeout
  <2>1. /\ pc' = pc /\ queue' = queue /\ states' = states /\ visited' = visited /\ current' = current
        /\ document' = document /\ facts' = facts /\ discovered' = discovered
    BY <1>20 DEF Send, Answer, Timeout, explorer, browser, graphVars
  <2>2. live.facts \subseteq live'.facts
    <3>1. CASE Send  BY <3>1, HeardAdds DEF Send, LiveFits, Adds
    <3>2. CASE Answer  BY <3>2, AnsweredAdds DEF Answer, LiveFits, Adds
    <3>3. CASE Timeout  BY <3>3 DEF Timeout, browser
    <3> QED BY <1>20, <3>1, <3>2, <3>3
  <2>3. EntryIn(live.facts) => EntryIn(live'.facts)  BY <2>2, EntryGrows
  <2> QED BY <1>4, <2>1, <2>3 DEF Ahead
<1>21. CASE OverBudget \/ BrowserFails
  BY <1>2, <1>21 DEF OverBudget, BrowserFails, Throw
<1>22. CASE Close \/ GroupNext
  BY <1>4, <1>22 DEF Close, GroupNext, Group, graphVars
<1>23. CASE Correlate
  <2>1. pc = "correlate" /\ pc' = "graph" /\ facts' = Put(facts, Searches) /\ discovered' = discovered
    BY <1>23 DEF Correlate, StartGraph
  <2> QED BY <1>4, <2>1, EntryCorrelated
<1> QED BY <1>6, <1>7, <1>8, <1>9, <1>10, <1>11, <1>12, <1>13, <1>14, <1>15, <1>16, <1>17, <1>18,
           <1>19, <1>20, <1>21, <1>22, <1>23 DEF Next, Explore

LEMMA StandsStay ==
  ASSUME UNCHANGED vars, Stands, LiveFits, FilesKept, EntrySeen, FactsFit
  PROVE  (Stands /\ LiveFits /\ FilesKept /\ EntrySeen /\ FactsFit)'
<1>1. /\ setting' = setting /\ pc' = pc /\ read' = read /\ discovered' = discovered
      /\ blockers' = blockers /\ queue' = queue /\ current' = current /\ visited' = visited
      /\ states' = states /\ document' = document /\ live' = live /\ facts' = facts
  BY DEF vars, explorer, browser, graphVars
<1>2. (SinglePage' <=> SinglePage) /\ Project' = Project  BY <1>1, SinglePageKept, ProjectKept
<1>3. FactsFit'  BY FactsStay
<1>4. Stands' /\ LiveFits'  BY <1>1, <1>2 DEF Stands, LiveFits
<1>5. FilesKept'  BY <1>1, <1>2, Zenon DEF FilesKept
<1>6. EntrySeen'  BY <1>1, EntrySeenNext DEF EntrySeen, Ahead
<1> QED BY <1>3, <1>4, <1>5, <1>6

\* A discovery that names no blocker has left out no file that was listed, has every
\* endpoint in what was read of a file as a fact, and the route of the entry page,
\* unless the route budget was used up (discovery/src/index.ts, live-explorer.ts).
THEOREM WhatIsObservedWasRead == Spec => []ObservedWasRead
<1> DEFINE I == Stands /\ LiveFits /\ FilesKept /\ EntrySeen /\ FactsFit
<1>1. ASSUME Init PROVE I
  <2>1. Stands /\ LiveFits /\ EntrySeen
    BY <1>1 DEF Init, Stands, LiveFits, EntrySeen, Ahead, Exploring, Awaiting
  <2>2. Len(Project) \in Nat  BY <2>1, ProjectIs
  <2>3. FilesKept  BY <1>1, <2>2, FS_EmptySet DEF Init, FilesKept
  <2> QED BY <1>1, <2>1, <2>3, FactsInitially
<1>2. ASSUME I, [Next]_vars PROVE I'
  <2>1. CASE Next
    BY <1>2, <2>1, StandsKept, LiveKept, FilesStillKept, EntryStillSeen, FactsKept
  <2>2. CASE UNCHANGED vars  BY <1>2, <2>2, StandsStay
  <2> QED BY <1>2, <2>1, <2>2
<1>3. ASSUME I PROVE ObservedWasRead
  <2> SUFFICES ASSUME pc = "built", blockers = {} PROVE
        /\ \A i \in DOMAIN Project : Project[i].readable =>
             \A e \in EndpointsOf(Project[i]) : \E f \in facts : f.id = e.id
        /\ setting.target /\ ~SinglePage /\ Cardinality(discovered) < MaxRoutes =>
             \E f \in OfType({"route"}) : f.route = Pages[setting.start].lands
    BY Zenon DEF ObservedWasRead, Built, Observed
  <2>1. read = Len(Project)  BY <1>3 DEF FilesKept
  <2>2. DOMAIN Project = 1 .. read  BY <1>3, <2>1, ProjectIs
  <2>3. \A i \in 1 .. read : Project[i].readable =>
          \A e \in EndpointsOf(Project[i]) : \E f \in facts : f.id = e.id
    BY <1>3, Zenon DEF FilesKept, Known
  <2>4. ASSUME setting.target, ~SinglePage, Cardinality(discovered) < MaxRoutes
        PROVE  \E f \in OfType({"route"}) : f.route = Pages[setting.start].lands
    <3>1. EntryIn(facts) \/ Cardinality(discovered) >= MaxRoutes  BY <1>3, <2>4 DEF EntrySeen
    <3>2. Cardinality(discovered) \in Nat /\ MaxRoutes \in Nat
      BY <1>3, ProjectIs, FS_CardinalityType DEF FilesKept
    <3>3. EntryIn(facts)  BY <2>4, <3>1, <3>2
    <3> QED BY <3>3 DEF EntryIn, Entry, OfType
  <2> QED BY <2>2, <2>3, <2>4, Zenon
<1> HIDE DEF I
<1> QED BY <1>1, <1>2, <1>3, PTL DEF Spec

--------------------------------------------------------------------------------
(***************************************************************************)
(* PathsFit. The numbers of a finite set can be counted off.               *)
(***************************************************************************)
LEMMA Least ==
  ASSUME NEW S \in SUBSET Nat, S # {} PROVE \E m \in S : \A i \in S : m <= i
<1>1. IsWellFoundedOn(OpToRel(<, Nat), Nat)  BY NatLessThanWellFounded
<1>2. PICK m \in S : \A i \in S : ~(<<i, m>> \in OpToRel(<, Nat))
  <2> HIDE DEF IsWellFoundedOn
  <2> QED BY <1>1, WFMin
<1>3. ASSUME NEW i \in S PROVE m <= i
  <2>1. <<i, m>> \in Nat \X Nat  OBVIOUS
  <2>2. i < m => <<i, m>> \in OpToRel(<, Nat)  BY <2>1 DEF OpToRel
  <2>3. ~(i < m)  BY <2>2, <1>2, Zenon
  <2> QED BY <2>3
<1> QED BY <1>3

LEMMA Greatest ==
  ASSUME NEW n \in Nat, NEW S \in SUBSET (0 .. n), S # {}
  PROVE  \E m \in S : \A i \in S : i <= m
<1> DEFINE T == {k \in Nat : \A i \in S : i <= k}
<1>1. n \in T  OBVIOUS
<1>2. PICK k \in T : \A j \in T : k <= j
  <2>1. T \in SUBSET Nat /\ T # {}  BY <1>1
  <2> HIDE DEF T
  <2> QED BY <2>1, Least
<1>3. k \in S
  <2> SUFFICES ASSUME k \notin S PROVE FALSE  OBVIOUS
  <2>1. \A i \in S : i \in Nat /\ i < k  BY <1>2
  <2>2. k \in Nat /\ k > 0
    <3>1. PICK i \in S : TRUE  OBVIOUS
    <3>2. i \in Nat /\ i < k  BY <2>1
    <3> QED BY <1>2, <3>2
  <2>3. \A i \in S : i <= k - 1  BY <2>1, <2>2
  <2>4. k - 1 \in T  BY <2>2, <2>3
  <2> QED BY <1>2, <2>2, <2>4
<1> QED BY <1>2, <1>3

\* What lies below the greatest of a set of numbers.
LEMMA BelowGreatest ==
  ASSUME NEW R \in SUBSET Nat, NEW m \in R, \A i \in R : i <= m, IsFiniteSet(R)
  PROVE  Cardinality({j \in R : j < m}) = Cardinality(R) - 1 /\ Cardinality(R) \in Nat
<1>1. \A j \in R : j < m <=> j # m
  <2> SUFFICES ASSUME NEW j \in R PROVE j < m <=> j # m  OBVIOUS
  <2>1. j \in Nat /\ m \in Nat /\ j <= m  OBVIOUS
  <2> QED BY <2>1
<1>2. {j \in R : j < m} = R \ {m}  BY <1>1
<1> QED BY <1>2, FS_RemoveElement, FS_CardinalityType

LEMMA NthIn ==
  ASSUME NEW L \in Nat, NEW S \in SUBSET (1 .. L), IsFiniteSet(S), NEW n \in 1 .. Cardinality(S)
  PROVE  Nth(S, n) \in S
<1> DEFINE Below(i) == {j \in S : j < i}
           B == {i \in S : Cardinality(Below(i)) >= n - 1}
<1>0. Cardinality(S) \in Nat /\ S \in SUBSET (0 .. L) /\ S # {}
  <2>1. Cardinality(S) \in Nat  BY FS_CardinalityType
  <2>2. S # {}
    <3> SUFFICES ASSUME S = {} PROVE FALSE  OBVIOUS
    <3>1. Cardinality(S) = 0  BY FS_EmptySet
    <3> QED BY <3>1
  <2> QED BY <2>1, <2>2
<1>1. S \in SUBSET Nat /\ n \in Nat
  BY <1>0
<1>2. \A i \in S : Cardinality(Below(i)) \in Nat
  <2> SUFFICES ASSUME NEW i \in S PROVE Cardinality(Below(i)) \in Nat  OBVIOUS
  <2>1. IsFiniteSet(Below(i))  BY FS_Subset
  <2> HIDE DEF Below
  <2> QED BY <2>1, FS_CardinalityType
<1>3. B # {}
  <2>1. PICK m \in S : \A i \in S : i <= m  BY <1>0, Greatest
  <2>2. Cardinality({j \in S : j < m}) = Cardinality(S) - 1  BY <1>1, <2>1, BelowGreatest
  <2> DEFINE d == Cardinality(Below(m))
             size == Cardinality(S)
  <2>3. d = size - 1  BY <2>2
  <2>4. size \in Nat /\ n <= size  BY <1>0
  <2>5. d >= n - 1
    <3> HIDE DEF d, size
    <3> QED BY <2>3, <2>4
  <2>6. m \in B  BY <2>5
  <2> QED BY <2>6
<1>4. PICK i \in B : \A j \in B : i <= j
  <2>1. B \in SUBSET Nat
    <3>1. B \subseteq S
      <4> HIDE DEF Below
      <4> QED OBVIOUS
    <3> HIDE DEF B
    <3> QED BY <1>1, <3>1
  <2> HIDE DEF B
  <2> QED BY <1>3, <2>1, Least
<1>5. Cardinality(Below(i)) = n - 1
  <2> SUFFICES ASSUME Cardinality(Below(i)) # n - 1 PROVE FALSE  OBVIOUS
  <2>1. Cardinality(Below(i)) >= n /\ Cardinality(Below(i)) \in Nat /\ i \in S
    BY <1>2, <1>4
  <2>2. Below(i) # {}  BY <2>1, FS_EmptySet
  <2>3. Below(i) \in SUBSET (0 .. L) /\ Below(i) \subseteq S  BY <1>0
  <2> DEFINE R == Below(i)
  <2>4. PICK m \in R : \A j \in R : j <= m
    <3> HIDE DEF R, Below
    <3> QED BY <2>2, <2>3, Greatest DEF R
  <2>5. {j \in R : j < m} = Below(m)
    <3>1. m \in Nat /\ i \in Nat /\ m < i  BY <1>1, <2>1, <2>4
    <3>2. \A j \in S : j < m => j < i  BY <1>1, <3>1
    <3> QED BY <3>2
  <2>6. Cardinality(Below(m)) = Cardinality(R) - 1
    <3>1. R \in SUBSET Nat  BY <1>1
    <3>2. IsFiniteSet(R)  BY <2>3, FS_Subset
    <3> HIDE DEF R, Below
    <3> QED BY <2>4, <2>5, <3>1, <3>2, BelowGreatest
  <2> DEFINE d == Cardinality(Below(m))
             size == Cardinality(R)
  <2>7. d = size - 1 /\ size >= n /\ size \in Nat
    BY <2>1, <2>5, <2>6
  <2>8. d >= n - 1
    <3> HIDE DEF d, size
    <3> QED BY <2>7
  <2>9. m \in S /\ m < i  BY <2>3, <2>4
  <2>10. m \in B  BY <2>8, <2>9
  <2>11. i <= m  BY <1>4, <2>10
  <2>12. i \in Nat /\ m \in Nat  BY <1>0, <2>1, <2>9
  <2> HIDE DEF R, d, size
  <2> QED BY <2>9, <2>11, <2>12
<1>6. \E k \in S : Cardinality({j \in S : j < k}) = n - 1
  <2>1. i \in S /\ Cardinality({j \in S : j < i}) = n - 1  BY <1>4, <1>5
  <2> QED BY <2>1
<1> QED BY <1>6 DEF Nth

(***************************************************************************)
(* What the pages of a target are made of.                                 *)
(***************************************************************************)
LEMMA PagesAre ==
  ASSUME setting \in Settings
  PROVE  /\ setting.start \in DOMAIN Pages
         /\ \A url \in DOMAIN Pages :
              /\ url.seg \in Seq(STRING) /\ Pages[url].lands \in DOMAIN Pages
              /\ Sendable(Pages[url].own)
              /\ Pages[url].controls \in Seq(ToSet(Pages[url].controls))
              /\ \A c \in ToSet(Pages[url].controls) :
                   /\ c.to \in DOMAIN Pages \cup {Nowhere} /\ Sendable(c.sends)
                   /\ c.relative => \A page \in DOMAIN Pages : Beside(page, c.to) \in DOMAIN Pages
BY PagesAssumption, Zenon DEF Pages, Sendable

LEMMA ShownAre ==
  ASSUME setting \in Settings, current.url \in DOMAIN Pages
  PROVE  /\ \E n \in Nat : DOMAIN Shown = 1 .. n
         /\ \A i \in DOMAIN Shown :
              /\ Shown[i].to \in DOMAIN Pages \cup {Nowhere} /\ Sendable(Shown[i].sends)
              /\ Shown[i].relative =>
                   \A page \in DOMAIN Pages : Beside(page, Shown[i].to) \in DOMAIN Pages
<1> DEFINE all == Pages[Here].controls
           k == IF Len(all) < MaxControls THEN Len(all) ELSE MaxControls
<1>1. Here \in DOMAIN Pages  BY PagesAre DEF Here
<1>2. /\ all \in Seq(ToSet(all))
      /\ \A c \in ToSet(all) :
           /\ c.to \in DOMAIN Pages \cup {Nowhere} /\ Sendable(c.sends)
           /\ c.relative => \A page \in DOMAIN Pages : Beside(page, c.to) \in DOMAIN Pages
  BY <1>1, PagesAre, Zenon
<1>3. Shown = SubSeq(all, 1, k)  BY DEF Shown
<1> HIDE DEF all
<1>4. k \in Nat /\ k <= Len(all)  BY <1>2, BudgetAssumption
<1> HIDE DEF k
<1>5. \A i \in 1 .. k : all[i] \in ToSet(all)  BY <1>2, <1>4
<1>6. SubSeq(all, 1, k) \in Seq(ToSet(all))  BY <1>4, <1>5, SubSeqProperties
<1> QED BY <1>2, <1>3, <1>6

LEMMA WaitingIs ==
  ASSUME NEW q, NEW S, q \in Seq(S), \A item \in S : item.url \in DOMAIN Pages
  PROVE  Waiting(q)
<1>1. \A x \in ToSet(q) : x \in S  BY DEF ToSet
<1>2. q \in Seq(ToSet(q))  BY DEF ToSet
<1> QED BY <1>1, <1>2 DEF Waiting

LEMMA ChildIs == ASSUME NEW url, NEW via PROVE Child(url, via).url = url
BY DEF Child

--------------------------------------------------------------------------------
(***************************************************************************)
(* PathsFit, by what a step does.                                          *)
(***************************************************************************)
LEMMA PathsAdded ==
  ASSUME NEW old, NEW new, NEW by, PathsIn(old.facts), Adds(old, new, by, TRUE)
  PROVE  PathsIn(new.facts)
BY DEF PathsIn, Adds

LEMMA PathsPut ==
  ASSUME NEW old, NEW new, PathsIn(old), PathsIn(new) PROVE PathsIn(Put(old, new))
BY PutIs DEF PathsIn

\* A document that is loaded was found at an address of the target, and sends what
\* its page does.
LEMMA LoadFits ==
  ASSUME setting \in Settings, LiveFits, PathsIn(live.facts), NEW url \in DOMAIN Pages, NEW by,
         Load(url, by)
  PROVE  /\ PathsIn(live'.facts) /\ Sendable(due') /\ Sendable(inflight')
         /\ document' \in DOMAIN Pages
<1>1. url.seg \in Seq(STRING) /\ Pages[url].lands \in DOMAIN Pages  BY PagesAre
<1>2. Pages[url].lands.seg \in Seq(STRING) /\ Sendable(Pages[Pages[url].lands].own)
  BY <1>1, PagesAre
<1>3. Adds(live, live', by, TRUE)  BY <1>1, <1>2, LoadAdds DEF Adds
<1>4. document' = Pages[url].lands /\ due' = Pages[Pages[url].lands].own /\ inflight' = {}
  BY LoadAdds
<1> QED BY <1>1, <1>2, <1>3, <1>4, PathsAdded DEF Sendable

LEMMA FactPathsKept ==
  ASSUME Stands, FilesKept, PathsFit, Next PROVE PathsIn(facts')
<1>1. PathsIn(facts) /\ PathsIn(live.facts)  BY DEF PathsFit
<1>2. CASE ReadFile
  <2> DEFINE others == ControlsOf(File) \cup SchemaFields(File) \cup FallbackFields(File)
  <2>1. PICK kept \in SUBSET ReadBounded(EndpointsOf(File)) :
          facts' = Put(facts, kept \cup ReadBounded(others))
    BY <1>2 DEF ReadFile
  <2>2. ReadBounded(EndpointsOf(File)) \subseteq EndpointsOf(File) /\ ReadBounded(others) \subseteq others
    BY DEF ReadBounded
  <2>3. \A f \in others : f.type # "endpoint"  BY OthersAre DEF Static
  <2> HIDE DEF others
  <2>4. File \in ToSet(Project)
    <3>1. read + 1 \in DOMAIN Project  BY <1>2, ProjectIs DEF ReadFile, FilesKept
    <3> QED BY <3>1 DEF File, ToSet
  <2>5. \A f \in EndpointsOf(File) : f.path.seg \in Seq(STRING)
    BY <2>4, FilesAssumption, Zenon DEF Stands, Project
  <2>6. PathsIn(kept \cup ReadBounded(others))  BY <2>1, <2>2, <2>3, <2>5 DEF PathsIn
  <2> QED BY <1>1, <2>1, <2>6, PathsPut
<1>3. CASE Finish
  BY <1>1, <1>3, PathsPut DEF Finish, Return
<1>4. CASE Single
  <2>1. CASE facts' = facts  BY <1>1, <2>1
  <2>2. CASE facts' # facts
    <3> DEFINE new == live.facts \cup {ControlFact(i) : i \in DOMAIN Shown}
    <3>1. facts' = Put(facts, new)  BY <1>4, <2>2 DEF Single, Throw, graphVars
    <3>2. PathsIn(new)  BY <1>1, ControlFactIs DEF PathsIn
    <3> HIDE DEF new
    <3> QED BY <1>1, <3>1, <3>2, PathsPut
  <2> QED BY <2>1, <2>2
<1>5. CASE Correlate
  <2>1. facts' = Put(facts, Searches)  BY <1>5 DEF Correlate, StartGraph
  <2>2. PathsIn(Searches)  BY SearchesAre DEF PathsIn
  <2> QED BY <1>1, <2>1, <2>2, PathsPut
<1>6. CASE Launch \/ Dequeue \/ Goto \/ Settle \/ Observe \/ Pick \/ Prepare \/ Click \/ ClickFails
             \/ Record \/ Follow
  BY <1>1, <1>6 DEF Launch, Dequeue, Goto, Settle, Observe, Pick, Prepare, Click, ClickFails,
                    Record, Follow, graphVars
<1>7. CASE Walk \/ EndRead \/ Close \/ GroupNext
  BY <1>1, <1>7 DEF Walk, EndRead, Close, GroupNext, Group, graphVars
<1>8. CASE Send \/ Answer \/ Timeout \/ OverBudget \/ BrowserFails
  BY <1>1, <1>8 DEF Send, Answer, Timeout, OverBudget, BrowserFails, Throw, graphVars
<1> QED BY <1>2, <1>3, <1>4, <1>5, <1>6, <1>7, <1>8 DEF Next, Explore

\* What is clicked is a control of the page at hand.
LEMMA ClickedAre ==
  ASSUME Stands, FactsFit, PathsFit, pc = "click"
  PROVE  /\ Shown[control].to # Nowhere => Shown[control].to \in DOMAIN Pages
         /\ Sendable(Shown[control].sends)
<1>1. current.url \in DOMAIN Pages  BY DEF PathsFit, Exploring, Awaiting
<1>2. control \in DOMAIN Shown  BY DEF FactsFit, Trying
<1> QED BY <1>1, <1>2, ShownAre DEF Stands

\* The log, the requests under way and the document.
BrowserFits ==
  /\ PathsIn(live.facts) /\ Sendable(due) /\ Sendable(inflight)
  /\ pc \in Loaded => document \in DOMAIN Pages

LEMMA BrowserKept ==
  ASSUME Stands, LiveFits, FactsFit, PathsFit, Next PROVE BrowserFits'
<1>1. BrowserFits  BY DEF PathsFit, BrowserFits
<1>2. setting' = setting /\ Pages' = Pages  BY SettingKept DEF Pages
<1>3. ASSUME PathsIn(live'.facts), Sendable(due'), Sendable(inflight'), document' \in DOMAIN Pages
      PROVE  BrowserFits'
  BY <1>2, <1>3 DEF BrowserFits
<1>4. ASSUME PathsIn(live'.facts), Sendable(due'), Sendable(inflight'), document' = document,
             pc \in Loaded \/ pc' \notin Loaded
      PROVE  BrowserFits'
  BY <1>1, <1>2, <1>4 DEF BrowserFits
<1>5. CASE Goto
  <2>1. current.url \in DOMAIN Pages  BY <1>5 DEF Goto, PathsFit, Exploring, Awaiting
  <2>2. Load(current.url, active)  BY <1>5 DEF Goto
  <2> QED BY <1>1, <1>3, <2>1, <2>2, LoadFits DEF BrowserFits, Stands
<1>6. CASE Click
  <2> DEFINE c == Shown[control]
  <2>1. pc = "click" /\ pc' = "wait"  BY <1>6 DEF Click
  <2>2. (c.to # Nowhere => c.to \in DOMAIN Pages) /\ Sendable(c.sends)  BY <2>1, ClickedAre
  <2>3. CASE c.to # Nowhere
    <3>1. Load(c.to, active)  BY <1>6, <2>3, Zenon DEF Click
    <3> HIDE DEF c
    <3> QED BY <1>1, <1>3, <2>2, <2>3, <3>1, LoadFits DEF BrowserFits, Stands
  <2>4. CASE c.to = Nowhere
    <3>1. due' = due \cup c.sends /\ document' = document /\ inflight' = inflight /\ live' = live
      BY <1>6, <2>4, Zenon DEF Click
    <3>2. Sendable(due')  BY <1>1, <2>2, <3>1 DEF BrowserFits, Sendable
    <3> QED BY <1>1, <1>4, <2>1, <3>1, <3>2 DEF BrowserFits, Loaded
  <2> QED BY <2>3, <2>4
<1>7. CASE Send
  <2>1. PICK q \in due : /\ due' = due \ {q} /\ live' = Heard(live, q, active)
                         /\ inflight' \subseteq inflight \cup {q}
    BY <1>7 DEF Send
  <2>2. q.path.seg \in Seq(STRING)  BY <1>1 DEF BrowserFits, Sendable
  <2>3. Adds(live, live', active, TRUE)  BY <2>1, <2>2, HeardAdds DEF LiveFits, Adds
  <2>4. PathsIn(live'.facts)  BY <1>1, <2>3, PathsAdded DEF BrowserFits
  <2>5. Sendable(due') /\ Sendable(inflight')  BY <1>1, <2>1, <2>2 DEF BrowserFits, Sendable
  <2>6. document' = document /\ pc' = pc  BY <1>7 DEF Send
  <2> QED BY <1>4, <2>4, <2>5, <2>6
<1>8. CASE Answer
  <2>1. PICK q \in inflight : inflight' = inflight \ {q} /\ live' = Answered(live, q, active)
    BY <1>8 DEF Answer
  <2>2. Adds(live, live', active, TRUE)  BY <2>1, AnsweredAdds DEF LiveFits
  <2>3. PathsIn(live'.facts)  BY <1>1, <2>2, PathsAdded DEF BrowserFits
  <2>4. Sendable(inflight')  BY <1>1, <2>1 DEF BrowserFits, Sendable
  <2>5. document' = document /\ pc' = pc /\ due' = due  BY <1>8 DEF Answer
  <2> QED BY <1>1, <1>4, <2>3, <2>4, <2>5 DEF BrowserFits
<1> DEFINE quiet == \A f \in live'.facts \ live.facts : f.type # "endpoint"
<1>9. ASSUME quiet, due' = due, inflight' = inflight, document' = document,
             pc \in Loaded \/ pc' \notin Loaded
      PROVE  BrowserFits'
  <2>1. PathsIn(live'.facts)  BY <1>1, <1>9 DEF BrowserFits, PathsIn
  <2> QED BY <1>1, <1>4, <1>9, <2>1 DEF BrowserFits
<1>10. CASE Observe
  <2>1. quiet  BY <1>10, ObserveAdds, RouteFactIs, ControlFactIs
  <2> HIDE DEF quiet
  <2> QED BY <1>9, <1>10, <2>1 DEF Observe, Loaded
<1>11. CASE Prepare
  <2>1. quiet  BY <1>11, PrepareAdds, InteractionIs
  <2> HIDE DEF quiet
  <2> QED BY <1>9, <1>11, <2>1 DEF Prepare, Loaded
<1>12. CASE Record
  <2>1. PICK i, id : live'.facts = live.facts
             \cup {Fact("ui_mutation", id, [route |-> document, by |-> i])}
             \cup Correlated(i, ControlFact(control).id)
    BY <1>12, RecordAdds
  <2>2. quiet  BY <2>1, MutationFactIs, CorrelatedAre
  <2>3. due' = due /\ inflight' = inflight /\ document' = document /\ pc = "post"
    BY <1>12 DEF Record
  <2> HIDE DEF quiet
  <2> QED BY <1>9, <2>2, <2>3 DEF Loaded
<1>13. CASE Single \/ OverBudget \/ BrowserFails
  <2>1. live' = live \/ live'.facts = {}
    BY <1>13 DEF Single, OverBudget, BrowserFails, Throw, browser
  <2>2. quiet  BY <2>1
  <2>3. due' = due /\ inflight' = inflight /\ document' = document /\ pc' = "closing"
    BY <1>13 DEF Single, OverBudget, BrowserFails, Throw, browser
  <2> HIDE DEF quiet
  <2> QED BY <1>9, <2>2, <2>3 DEF Loaded
<1>14. CASE Launch \/ Finish \/ Dequeue \/ Settle \/ Pick \/ ClickFails \/ Follow
  <2>1. live' = live /\ due' = due /\ inflight' = inflight /\ document' = document
    BY <1>14 DEF Launch, Finish, Return, Dequeue, Settle, Pick, ClickFails, Follow, browser
  <2>2. pc \in Loaded \/ pc' \notin Loaded
    BY <1>14 DEF Launch, Finish, Return, Dequeue, Skip, Visit, Settle, Pick, ClickFails, Follow, Loaded
  <2> QED BY <1>9, <2>1, <2>2
<1>15. CASE Walk \/ ReadFile \/ EndRead \/ Close \/ Correlate \/ GroupNext \/ Timeout
  <2>1. live' = live /\ due' = due /\ inflight' = inflight /\ document' = document
    BY <1>15 DEF Walk, ReadFile, EndRead, Close, Correlate, GroupNext, Timeout, browser
  <2>2. pc' = pc \/ pc' \notin Loaded
    BY <1>15 DEF Walk, ReadFile, EndRead, Close, Correlate, GroupNext, Timeout, Loaded
  <2> QED BY <1>9, <2>1, <2>2
<1> QED BY <1>5, <1>6, <1>7, <1>8, <1>10, <1>11, <1>12, <1>13, <1>14, <1>15 DEF Next, Explore

\* The pages that wait, and the one that is explored.
QueueFits ==
  /\ Waiting(queue)
  /\ pc \in Exploring \ {"launch"} => current.url \in DOMAIN Pages

LEMMA QueueKept ==
  ASSUME Stands, PathsFit, Next PROVE QueueFits'
<1> USE DEF Exploring, Awaiting
<1>1. QueueFits  BY DEF PathsFit, QueueFits
<1>2. setting' = setting /\ Pages' = Pages  BY SettingKept DEF Pages
<1>3. ASSUME Waiting(queue'), current'.url \in DOMAIN Pages PROVE QueueFits'
  BY <1>2, <1>3 DEF QueueFits, Waiting
<1>4. ASSUME queue' = queue, current' = current, pc \in Exploring \ {"launch"} \/ pc' \notin Exploring \ {"launch"}
      PROVE  QueueFits'
  BY <1>1, <1>2, <1>4 DEF QueueFits, Waiting
<1>5. queue \in Seq(ToSet(queue)) /\ \A item \in ToSet(queue) : item.url \in DOMAIN Pages
  BY <1>1 DEF QueueFits, Waiting
<1>6. CASE Launch
  <2> DEFINE item == [url |-> setting.start, depth |-> 0, via |-> NoId]
  <2>1. item.url \in DOMAIN Pages  BY PagesAre DEF Stands
  <2>2. (queue' = queue \/ queue' = <<item>>) /\ current' = item  BY <1>6 DEF Launch
  <2> HIDE DEF item
  <2>3. Waiting(<<item>>)
    <3> DEFINE S == {item}
               q == <<item>>
    <3>1. q \in Seq(S)  OBVIOUS
    <3>2. \A x \in S : x.url \in DOMAIN Pages  BY <2>1
    <3> HIDE DEF S, q
    <3>3. Waiting(q)  BY <3>1, <3>2, WaitingIs
    <3> QED BY <3>3 DEF q
  <2> QED BY <1>1, <1>3, <2>1, <2>2, <2>3 DEF QueueFits
<1>7. CASE Dequeue
  <2>1. queue # <<>> /\ queue' = Tail(queue) /\ pc = "top" /\ (current' = current \/ current' = Head(queue))
    BY <1>7 DEF Dequeue, Skip, Visit
  <2>2. Head(queue) \in ToSet(queue) /\ Tail(queue) \in Seq(ToSet(queue))
    BY <1>5, <2>1, HeadTailProperties
  <2>3. Waiting(queue')  BY <1>5, <2>1, <2>2, WaitingIs
  <2> QED BY <1>1, <1>3, <1>5, <2>1, <2>2, <2>3 DEF QueueFits
<1>8. CASE Record
  <2>1. pc = "post" /\ current' = current  BY <1>8 DEF Record
  <2>2. current.url \in DOMAIN Pages /\ document \in DOMAIN Pages  BY <2>1 DEF PathsFit, Loaded
  <2>3. PICK x : (queue' = queue \/ queue' = Append(queue, x)) /\ x.url = document
    <3>1. queue' = queue \/ queue' = Append(queue, Child(document, Interaction(control).id))
      BY <1>8, Zenon DEF Record
    <3>2. Child(document, Interaction(control).id).url = document  BY ChildIs
    <3> QED BY <3>1, <3>2
  <2>4. Waiting(Append(queue, x))
    <3> DEFINE S == ToSet(queue) \cup {x}
    <3>1. queue \in Seq(S) /\ x \in S  BY <1>5
    <3>2. \A item \in S : item.url \in DOMAIN Pages  BY <1>5, <2>2, <2>3
    <3>3. Append(queue, x) \in Seq(S)  BY <3>1, AppendProperties
    <3> QED BY <3>2, <3>3, WaitingIs
  <2> QED BY <1>1, <1>3, <2>1, <2>2, <2>3, <2>4 DEF QueueFits
<1>9. CASE Follow
  <2> DEFINE more == [n \in 1 .. Cardinality(Links) |-> Child(Leads(Nth(Links, n)), NoId)]
             S == ToSet(queue) \cup {Child(Leads(i), NoId) : i \in Links}
  <2>1. queue' = queue \o more /\ current' = current /\ pc = "pick"  BY <1>9 DEF Follow
  <2>2. current.url \in DOMAIN Pages /\ document \in DOMAIN Pages  BY <2>1 DEF PathsFit, Loaded
  <2>3. PICK n \in Nat : DOMAIN Shown = 1 .. n  BY <2>2, ShownAre DEF Stands
  <2>4. Links \in SUBSET (1 .. n) /\ \A i \in Links : Shown[i].to # Nowhere
    BY <2>3 DEF Links
  <2>5. \A i \in Links : Leads(i) \in DOMAIN Pages  BY <2>2, <2>3, <2>4, ShownAre DEF Stands, Leads
  <2>6. IsFiniteSet(Links) /\ Cardinality(Links) \in Nat
    <3>1. IsFiniteSet(1 .. n)  BY FS_Interval
    <3>2. IsFiniteSet(Links)  BY <2>4, <3>1, FS_Subset
    <3> QED BY <3>2, FS_CardinalityType
  <2>7. \A k \in 1 .. Cardinality(Links) : Nth(Links, k) \in Links  BY <2>4, <2>6, NthIn
  <2>8. more \in Seq(S)
    <3>1. \A k \in 1 .. Cardinality(Links) : Child(Leads(Nth(Links, k)), NoId) \in S  BY <2>7
    <3> DEFINE m == Cardinality(Links)
               e(k) == Child(Leads(Nth(Links, k)), NoId)
    <3> HIDE DEF S, m, e
    <3>2. m \in Nat /\ \A k \in 1 .. m : e(k) \in S  BY <2>6, <3>1 DEF m, e
    <3>3. [k \in 1 .. m |-> e(k)] \in Seq(S)  BY <3>2
    <3> QED BY <3>3 DEF m, e
  <2>9. \A item \in S : item.url \in DOMAIN Pages  BY <1>5, <2>5, ChildIs
  <2>10. queue \in Seq(S)  BY <1>5
  <2> HIDE DEF S, more
  <2>11. Waiting(queue \o more)  BY <2>8, <2>9, <2>10, ConcatProperties, WaitingIs
  <2> QED BY <1>3, <2>1, <2>2, <2>11
<1>10. CASE Finish \/ Goto \/ Settle \/ Observe \/ Pick \/ Prepare \/ Click \/ ClickFails \/ Single
  <2>1. queue' = queue /\ current' = current
    BY <1>10 DEF Finish, Return, Goto, Settle, Observe, Pick, Prepare, Click, ClickFails, Single, Throw, explorer
  <2>2. pc \in Exploring \ {"launch"}
    BY <1>10 DEF Finish, Return, Goto, Settle, Observe, Pick, Prepare, Click, ClickFails, Single
  <2> QED BY <1>4, <2>1, <2>2
<1>11. CASE Walk \/ ReadFile \/ EndRead \/ Close \/ Correlate \/ GroupNext
  <2>1. queue' = queue /\ current' = current /\ pc' \notin Exploring \ {"launch"}
    BY <1>11 DEF Walk, ReadFile, EndRead, Close, Correlate, GroupNext, explorer
  <2> QED BY <1>4, <2>1
<1>12. CASE Send \/ Answer \/ Timeout \/ OverBudget \/ BrowserFails
  <2>1. queue' = queue /\ current' = current
    BY <1>12 DEF Send, Answer, Timeout, OverBudget, BrowserFails, Throw, explorer
  <2>2. pc' = pc \/ pc' = "closing"
    BY <1>12 DEF Send, Answer, Timeout, OverBudget, BrowserFails, Throw
  <2> QED BY <1>4, <2>1, <2>2
<1> QED BY <1>6, <1>7, <1>8, <1>9, <1>10, <1>11, <1>12 DEF Next, Explore

LEMMA PathsKept ==
  ASSUME Stands, LiveFits, FilesKept, FactsFit, PathsFit, Next PROVE PathsFit'
BY FactPathsKept, BrowserKept, QueueKept DEF PathsFit, BrowserFits, QueueFits

--------------------------------------------------------------------------------
(***************************************************************************)
(* Prefixes, and the collection that a path names.                         *)
(***************************************************************************)
Segments == Seq(STRING)

LEMMA PrefixIs ==
  ASSUME NEW a \in Segments, NEW b \in Segments
  PROVE  BelongsTo(b, a) <=> Len(a) <= Len(b) /\ \A i \in 1 .. Len(a) : a[i] = b[i]
<1>1. Len(a) \in Nat /\ Len(b) \in Nat  BY DEF Segments
<1>2. SubSeq(a, 1, Len(a)) = a  BY DEF Segments
<1>3. CASE Len(a) <= Len(b)
  <2> DEFINE c == SubSeq(b, 1, Len(a))
  <2>1. c \in Segments /\ Len(c) = Len(a) /\ \A i \in 1 .. Len(a) : c[i] = b[i]
    BY <1>1, <1>3 DEF Segments
  <2> HIDE DEF c
  <2>2. a = c <=> \A i \in 1 .. Len(a) : a[i] = b[i]
    BY <2>1, SeqEqual DEF Segments
  <2> QED BY <1>2, <1>3, <2>2 DEF BelongsTo, IsPrefix, c
<1>4. CASE ~(Len(a) <= Len(b))  BY <1>4 DEF BelongsTo, IsPrefix
<1> QED BY <1>3, <1>4

LEMMA PrefixOfPrefix ==
  ASSUME NEW a \in Segments, NEW b \in Segments, NEW p \in Segments,
         BelongsTo(p, a), BelongsTo(p, b), Len(a) <= Len(b)
  PROVE  BelongsTo(b, a) /\ (Len(a) = Len(b) => a = b)
<1>1. \A i \in 1 .. Len(a) : a[i] = p[i]  BY PrefixIs
<1>2. \A i \in 1 .. Len(b) : b[i] = p[i]  BY PrefixIs
<1>3. Len(a) \in Nat /\ Len(b) \in Nat  BY DEF Segments
<1>4. \A i \in 1 .. Len(a) : i \in 1 .. Len(b)  BY <1>3
<1>5. \A i \in 1 .. Len(a) : a[i] = b[i]  BY <1>1, <1>2, <1>4
<1>6. BelongsTo(b, a)  BY <1>5, PrefixIs
<1>7. Len(a) = Len(b) => a = b  BY <1>5, SeqEqual DEF Segments
<1> QED BY <1>6, <1>7

\* What stands in front of the first parameter has none.
LEMMA CollectionIs ==
  ASSUME NEW path \in Segments
  PROVE  /\ Collection(path) \in Segments
         /\ \A i \in 1 .. Len(Collection(path)) : Collection(path)[i] # Parameter
<1> DEFINE I == {i \in 1 .. Len(path) : path[i] = Parameter}
           first == SelectInSeq(path, LAMBDA s : s = Parameter)
<1>1. Len(path) \in Nat  BY DEF Segments
<1>2. CASE Contains(path, Parameter)
  <2>1. I # {}  BY <1>2 DEF Contains
  <2>2. PICK k \in I : \A j \in I : k <= j
    <3>1. I \in SUBSET Nat  OBVIOUS
    <3> HIDE DEF I
    <3> QED BY <2>1, <3>1, Least
  <2>3. first \in I /\ \A j \in I : first <= j
    <3>1. first = IF I # {} THEN Min(I) ELSE 0  BY DEF SelectInSeq
    <3> HIDE DEF first, I
    <3>2. first = CHOOSE m \in I : \A j \in I : m <= j  BY <2>1, <3>1 DEF Min
    <3> QED BY <2>2, <3>2
  <2> HIDE DEF first
  <2>4. first \in 1 .. Len(path) /\ \A j \in 1 .. first - 1 : path[j] # Parameter
    <3>1. first \in 1 .. Len(path)  BY <2>3
    <3>2. ASSUME NEW j \in 1 .. first - 1, path[j] = Parameter PROVE FALSE
      <4>1. j \in I  BY <1>1, <3>1, <3>2
      <4> QED BY <2>3, <3>1, <4>1
    <3> QED BY <3>1, <3>2
  <2>5. Collection(path) = SubSeq(path, 1, first - 1)  BY <1>2, Zenon DEF Collection, first
  <2> DEFINE c == SubSeq(path, 1, first - 1)
  <2>6. c \in Segments /\ Len(c) = first - 1 /\ \A i \in 1 .. first - 1 : c[i] = path[i]
    BY <1>1, <2>4 DEF Segments
  <2> HIDE DEF c
  <2> QED BY <2>4, <2>5, <2>6 DEF c
<1>3. CASE ~Contains(path, Parameter)
  <2>1. Collection(path) = path  BY <1>3 DEF Collection
  <2> QED BY <1>3, <2>1 DEF Contains
<1> QED BY <1>2, <1>3

\* Among the prefixes of a path there is a longest.
LEMMA Longest ==
  ASSUME NEW p \in Segments, NEW A \in SUBSET Segments, A # {}, \A a \in A : BelongsTo(p, a)
  PROVE  \E c \in A : \A d \in A : Len(d) <= Len(c)
<1> DEFINE lengths == {Len(a) : a \in A}
<1>1. Len(p) \in Nat /\ \A a \in A : Len(a) \in Nat /\ Len(a) <= Len(p)
  BY PrefixIs DEF Segments
<1>2. lengths \in SUBSET (0 .. Len(p)) /\ lengths # {}
  <2>1. \A l \in lengths : l \in 0 .. Len(p)  BY <1>1
  <2>2. PICK a \in A : TRUE  OBVIOUS
  <2>3. Len(a) \in lengths  OBVIOUS
  <2> QED BY <2>1, <2>3
<1>3. PICK m \in lengths : \A l \in lengths : l <= m
  <2> HIDE DEF lengths
  <2> QED BY <1>1, <1>2, Greatest
<1>4. PICK c \in A : Len(c) = m  BY <1>3
<1> QED BY <1>3, <1>4

--------------------------------------------------------------------------------
(***************************************************************************)
(* GraphFits, and the collection that the longest candidate is.            *)
(***************************************************************************)
LEMMA GraphKept ==
  ASSUME GraphFits, Next PROVE GraphFits'
<1> DEFINE Fits == /\ ungrouped \subseteq Operations
                   /\ NamedCollections \subseteq candidates
                   /\ \A c \in candidates \ NamedCollections :
                        Outside(c) /\ \E o \in Operations : c = Pathname(o)
<1>1. GraphFits <=> (pc \in {"graph", "built"} => Fits)  BY DEF GraphFits
<1>2. GraphFits' <=> (pc' \in {"graph", "built"} => Fits')  BY DEF GraphFits
<1>3. ASSUME facts' = facts
      PROVE  /\ Operations' = Operations /\ NamedCollections' = NamedCollections
             /\ \A c : Outside(c)' <=> Outside(c)
  <2>1. Operations' = Operations  BY <1>3 DEF Operations, OfType
  <2>2. NamedCollections' = NamedCollections  BY <2>1 DEF NamedCollections
  <2> QED BY <2>1, <2>2 DEF Outside
<1>4. ASSUME UNCHANGED graphVars, Fits PROVE Fits'
  <2>1. facts' = facts /\ ungrouped' = ungrouped /\ candidates' = candidates
    BY <1>4 DEF graphVars
  <2> QED BY <1>3, <1>4, <2>1
<1>5. CASE Correlate
  <2>1. facts' = Put(facts, Searches) /\ candidates' = NamedCollections'
    BY <1>5 DEF Correlate, StartGraph
  <2>2. ungrouped' = Operations'
    BY <1>5, <2>1 DEF Correlate, StartGraph, Operations, OfType
  <2>3. Fits'  BY <2>1, <2>2
  <2> HIDE DEF Fits
  <2> QED BY <1>2, <2>3
<1>6. CASE GroupNext
  <2>1. pc = "graph"  BY <1>6 DEF GroupNext
  <2>2. Fits  BY <1>1, <2>1
  <2>3. CASE UNCHANGED graphVars
    <3>1. Fits'  BY <1>4, <2>2, <2>3
    <3> HIDE DEF Fits
    <3> QED BY <1>2, <3>1
  <2>4. CASE Group
    <3>1. PICK o \in ungrouped :
            /\ ungrouped' = ungrouped \ {o} /\ facts' = facts
            /\ \/ candidates' = candidates
               \/ /\ candidates' = candidates \cup {Pathname(o)}
                  /\ \A c \in candidates : ~BelongsTo(Pathname(o), c)
      BY <2>4 DEF Group
    <3>2. o \in Operations  BY <2>2, <3>1
    <3>3. (\A c \in candidates : ~BelongsTo(Pathname(o), c)) => Outside(Pathname(o))
      BY <2>2 DEF Outside
    <3>4. ungrouped' \subseteq Operations'  BY <1>3, <2>2, <3>1
    <3>5. NamedCollections' \subseteq candidates'  BY <1>3, <2>2, <3>1
    <3>6. ASSUME NEW c \in candidates' \ NamedCollections'
          PROVE  Outside(c)' /\ \E p \in Operations' : c = Pathname(p)
      <4>1. c \notin NamedCollections  BY <1>3, <3>1, <3>6
      <4>2. c \in candidates \/ (c = Pathname(o) /\ Outside(c))  BY <3>1, <3>3, <3>6
      <4>3. Outside(c) /\ \E p \in Operations : c = Pathname(p)
        BY <2>2, <3>2, <4>1, <4>2
      <4> QED BY <1>3, <3>1, <4>3
    <3>7. Fits'  BY <3>4, <3>5, <3>6 DEF Pathname
    <3> HIDE DEF Fits
    <3> QED BY <1>2, <3>7
  <2> QED BY <1>6, <2>3, <2>4 DEF GroupNext
<1>7. ASSUME pc' \notin {"graph", "built"} PROVE GraphFits'
  <2> HIDE DEF Fits
  <2> QED BY <1>2, <1>7
<1>8. CASE Explore
  BY <1>7, <1>8 DEF Explore, Launch, Finish, Return, Dequeue, Skip, Visit, Goto, Settle, Observe,
              Pick, Prepare, Click, ClickFails, Record, Follow, Single, Throw
<1>9. CASE Walk \/ ReadFile \/ EndRead \/ Close
  BY <1>7, <1>9 DEF Walk, ReadFile, EndRead, Close
<1>10. CASE Send \/ Answer \/ Timeout \/ OverBudget \/ BrowserFails
  BY <1>7, <1>10 DEF Send, Answer, Timeout, OverBudget, BrowserFails, Throw, Browsing, Exploring, Awaiting
<1> QED BY <1>5, <1>6, <1>8, <1>9, <1>10 DEF Next

LEMMA PathnamesAre ==
  ASSUME PathsIn(facts) PROVE \A o \in Operations : Pathname(o) \in Segments
<1> SUFFICES ASSUME NEW o \in Operations PROVE Pathname(o) \in Segments  OBVIOUS
<1>1. PICK f \in facts : f.type = "endpoint" /\ o = <<f.method, f.path>>
  BY DEF Operations, OfType, Operation
<1> QED BY <1>1 DEF PathsIn, Pathname, Segments

LEMMA NamedAre ==
  ASSUME PathsIn(facts)
  PROVE  \A c \in NamedCollections :
           /\ c \in Segments
           /\ \/ \A i \in 1 .. Len(c) : c[i] # Parameter
              \/ \E o \in Operations : o[1] = "POST" /\ c = Pathname(o)
<1> SUFFICES ASSUME NEW c \in NamedCollections
             PROVE  /\ c \in Segments
                    /\ \/ \A i \in 1 .. Len(c) : c[i] # Parameter
                       \/ \E o \in Operations : o[1] = "POST" /\ c = Pathname(o)
  OBVIOUS
<1>1. PICK o \in Operations : c = Collection(Pathname(o)) \/ (o[1] = "POST" /\ c = Pathname(o))
  BY DEF NamedCollections
<1>2. Pathname(o) \in Segments  BY PathnamesAre
<1>3. CASE c = Collection(Pathname(o))  BY <1>2, <1>3, CollectionIs
<1>4. CASE o[1] = "POST" /\ c = Pathname(o)  BY <1>2, <1>4
<1> QED BY <1>1, <1>3, <1>4

LEMMA CandidatesAre ==
  ASSUME PathsIn(facts), GraphFits, Built PROVE candidates \in SUBSET Segments
<1>1. \A c \in candidates : c \in NamedCollections \/ \E o \in Operations : c = Pathname(o)
  BY DEF GraphFits, Built
<1> QED BY <1>1, PathnamesAre, NamedAre

\* The resource of an operation that a candidate contains is the longest of them.
LEMMA ResourceIs ==
  ASSUME PathsIn(facts), GraphFits, Built, NEW o \in Operations, NEW c \in candidates,
         BelongsTo(Pathname(o), c)
  PROVE  /\ ResourceOf(o) \in candidates /\ BelongsTo(Pathname(o), ResourceOf(o))
         /\ \A d \in candidates : BelongsTo(Pathname(o), d) => Len(d) <= Len(ResourceOf(o))
<1> DEFINE around == {d \in candidates : BelongsTo(Pathname(o), d)}
<1>1. c \in around  OBVIOUS
<1>2. around \in SUBSET Segments  BY CandidatesAre
<1>3. Pathname(o) \in Segments  BY PathnamesAre
<1>4. ResourceOf(o) = CHOOSE d \in around : \A e \in around : Len(e) <= Len(d)
  BY <1>1, Zenon DEF ResourceOf
<1>5. \A d \in around : d \in candidates /\ BelongsTo(Pathname(o), d)  OBVIOUS
<1>6. \A d \in candidates : BelongsTo(Pathname(o), d) => d \in around  OBVIOUS
<1> HIDE DEF around
<1>7. \E d \in around : \A e \in around : Len(e) <= Len(d)
  BY <1>1, <1>2, <1>3, <1>5, Longest
<1>8. ResourceOf(o) \in around /\ \A e \in around : Len(e) <= Len(ResourceOf(o))
  BY <1>4, <1>7
<1> QED BY <1>5, <1>6, <1>8

\* A candidate that nothing names contains no path that a named one contains.
LEMMA NamedStays ==
  ASSUME PathsIn(facts), GraphFits, Built, NEW o \in Operations, NEW c \in NamedCollections,
         BelongsTo(Pathname(o), c)
  PROVE  ResourceOf(o) \in NamedCollections
<1> DEFINE r == ResourceOf(o)
<1>1. c \in candidates  BY DEF GraphFits, Built
<1>2. r \in candidates /\ BelongsTo(Pathname(o), r) /\ Len(c) <= Len(r)
  BY <1>1, ResourceIs
<1>3. r \in Segments /\ c \in Segments /\ Pathname(o) \in Segments
  BY <1>1, <1>2, CandidatesAre, PathnamesAre
<1>4. BelongsTo(r, c)  BY <1>2, <1>3, PrefixOfPrefix
<1>5. ~Outside(r)  BY <1>4 DEF Outside
<1> HIDE DEF r
<1>6. r \in NamedCollections  BY <1>2, <1>5 DEF GraphFits, Built
<1> QED BY <1>6 DEF r

\* A collection and its items are one resource.
LEMMA ItemsJoin ==
  ASSUME PathsIn(facts), GraphFits, Built, NEW create \in Operations, NEW item \in Operations,
         create[1] = "POST", Pathname(item) = Append(Pathname(create), Parameter),
         \A o \in Operations : Pathname(o) = Pathname(item) => o[1] # "POST"
  PROVE  ResourceOf(item) = ResourceOf(create)
<1> DEFINE p == Pathname(create)
           q == Pathname(item)
           r == ResourceOf(create)
           s == ResourceOf(item)
<1>1. p \in Segments /\ q \in Segments  BY PathnamesAre
<1>2. p \in NamedCollections  BY DEF NamedCollections
<1>3. p \in candidates  BY <1>2 DEF GraphFits, Built
<1>4. q = Append(p, Parameter)  OBVIOUS
<1>5. \A o \in Operations : Pathname(o) = q => o[1] # "POST"  OBVIOUS
<1>6. r = p
  <2>1. BelongsTo(p, p)  BY <1>1, PrefixIs DEF Segments
  <2>2. r \in candidates /\ BelongsTo(p, r) /\ Len(p) <= Len(r)  BY <1>3, <2>1, ResourceIs
  <2>3. r \in Segments  BY <2>2, CandidatesAre
  <2> HIDE DEF p, r
  <2>4. Len(r) <= Len(p)  BY <1>1, <2>2, <2>3, PrefixIs
  <2>5. Len(r) \in Nat /\ Len(p) \in Nat  BY <1>1, <2>3 DEF Segments
  <2> QED BY <1>1, <2>1, <2>2, <2>3, <2>4, <2>5, PrefixOfPrefix
<1>7. s = p
  <2>1. Len(q) = Len(p) + 1 /\ Len(p) \in Nat /\ q[Len(p) + 1] = Parameter
          /\ \A i \in 1 .. Len(p) : p[i] = q[i]
    <3> HIDE DEF p, q
    <3> DEFINE S == STRING \cup {Parameter}
    <3>1. p \in Seq(S) /\ Parameter \in S  BY <1>1 DEF Segments
    <3> HIDE DEF S
    <3> QED BY <1>4, <3>1, AppendProperties
  <2>2. BelongsTo(q, p)
    <3> HIDE DEF p, q
    <3> QED BY <1>1, <2>1, PrefixIs
  <2>3. s \in candidates /\ BelongsTo(q, s) /\ Len(p) <= Len(s)  BY <1>3, <2>2, ResourceIs
  <2>4. s \in NamedCollections  BY <1>2, <2>2, NamedStays
  <2>5. s \in Segments  BY <2>3, CandidatesAre
  <2>6. \A i \in 1 .. Len(s) : s[i] = q[i]
    <3> HIDE DEF p, q, s
    <3> QED BY <1>1, <2>3, <2>5, PrefixIs
  <2>7. Len(s) \in Nat /\ Len(s) <= Len(q)
    <3> HIDE DEF p, q, s
    <3> QED BY <1>1, <2>3, <2>5, PrefixIs DEF Segments
  <2>8. s # q
    <3> SUFFICES ASSUME s = q PROVE FALSE  OBVIOUS
    <3>1. ~(\A i \in 1 .. Len(s) : s[i] # Parameter)
      <4> HIDE DEF p, q, s
      <4> QED BY <2>1
    <3>2. ~\E o \in Operations : o[1] = "POST" /\ s = Pathname(o)
      <4> HIDE DEF s, q
      <4> QED BY <1>5
    <3> QED BY <2>4, <3>1, <3>2, NamedAre
  <2> HIDE DEF p, q, s
  <2>9. Len(s) # Len(q)
    <3>1. BelongsTo(q, q)  BY <1>1, PrefixIs DEF Segments
    <3> QED BY <1>1, <2>3, <2>5, <2>7, <2>8, <3>1, PrefixOfPrefix
  <2>10. Len(s) = Len(p)  BY <2>1, <2>3, <2>7, <2>9
  <2> QED BY <1>1, <2>2, <2>3, <2>5, <2>10, PrefixOfPrefix
<1> QED BY <1>6, <1>7

LEMMA FitsInitially ==
  ASSUME Init PROVE Stands /\ LiveFits /\ FilesKept /\ FactsFit /\ PathsFit /\ GraphFits
<1>1. Stands /\ LiveFits
  BY DEF Init, Stands, LiveFits, Exploring, Awaiting
<1>2. Len(Project) \in Nat  BY <1>1, ProjectIs
<1>3. FilesKept  BY <1>2, FS_EmptySet DEF Init, FilesKept
<1>4. Waiting(<<>>)
  <2> DEFINE S == {}
  <2>1. <<>> \in Seq(S) /\ \A item \in S : item.url \in DOMAIN Pages  OBVIOUS
  <2> HIDE DEF S
  <2> QED BY <2>1, WaitingIs
<1>5. PathsFit
  BY <1>4 DEF Init, PathsFit, PathsIn, Sendable, Loaded, Exploring, Awaiting
<1>6. GraphFits  BY DEF Init, GraphFits
<1> QED BY <1>1, <1>3, <1>5, <1>6, FactsInitially

LEMMA FitsStay ==
  ASSUME Stands, LiveFits, FilesKept, FactsFit, PathsFit, GraphFits, UNCHANGED vars
  PROVE  Stands' /\ LiveFits' /\ FilesKept' /\ FactsFit' /\ PathsFit' /\ GraphFits'
<1>1. /\ setting' = setting /\ pc' = pc /\ read' = read /\ discovered' = discovered
      /\ blockers' = blockers /\ queue' = queue /\ current' = current
      /\ document' = document /\ due' = due /\ inflight' = inflight
      /\ live' = live /\ facts' = facts /\ ungrouped' = ungrouped /\ candidates' = candidates
  BY DEF vars, explorer, browser, graphVars
<1>2. (SinglePage' <=> SinglePage) /\ Project' = Project /\ Pages' = Pages
  BY <1>1, SinglePageKept, ProjectKept DEF Pages
<1>3. FactsFit'  BY FactsStay
<1>4. Stands' /\ LiveFits'  BY <1>1, <1>2 DEF Stands, LiveFits
<1>5. FilesKept'  BY <1>1, <1>2, Zenon DEF FilesKept
<1>6. PathsFit'  BY <1>1, <1>2 DEF PathsFit, Waiting
<1>7. GraphFits'
  <2>1. Operations' = Operations  BY <1>1 DEF Operations, OfType
  <2>2. NamedCollections' = NamedCollections  BY <2>1 DEF NamedCollections
  <2> QED BY <1>1, <2>1, <2>2 DEF GraphFits, Outside
<1> QED BY <1>3, <1>4, <1>5, <1>6, <1>7

\* What creates and what reads, changes or removes an item come together in one
\* resource, and no order in which the last operations are grouped takes one out of
\* the collection that a parameter or a POST names (resourceCandidates,
\* application-graph/src/index.ts).
THEOREM OperationsStayTogether == Spec => []ResourcesAreWhole
<1> DEFINE I == Stands /\ LiveFits /\ FilesKept /\ FactsFit /\ PathsFit /\ GraphFits
<1>1. ASSUME Init PROVE I  BY <1>1, FitsInitially
<1>2. ASSUME I, [Next]_vars PROVE I'
  <2>1. CASE Next
    BY <1>2, <2>1, StandsKept, LiveKept, FilesStillKept, FactsKept, PathsKept, GraphKept
  <2>2. CASE UNCHANGED vars  BY <1>2, <2>2, FitsStay
  <2> QED BY <1>2, <2>1, <2>2
<1>3. ASSUME I PROVE ResourcesAreWhole
  <2> SUFFICES ASSUME Built PROVE ResourcesAreWhole  BY DEF ResourcesAreWhole
  <2>1. PathsIn(facts) /\ GraphFits  BY <1>3 DEF PathsFit
  <2> HIDE DEF I
  <2>2. \A create, item \in Operations :
          /\ create[1] = "POST"
          /\ Pathname(item) = Append(Pathname(create), Parameter)
          /\ \A o \in Operations : Pathname(o) = Pathname(item) => o[1] # "POST"
          => ResourceOf(item) = ResourceOf(create)
    BY <2>1, ItemsJoin
  <2>3. \A o \in Operations :
          (\E c \in NamedCollections : BelongsTo(Pathname(o), c)) => ResourceOf(o) \in NamedCollections
    BY <2>1, NamedStays
  <2> QED BY <2>2, <2>3, Zenon DEF ResourcesAreWhole
<1> HIDE DEF I
<1> QED BY <1>1, <1>2, <1>3, PTL DEF Spec

--------------------------------------------------------------------------------
(***************************************************************************)
(* Ids. Two facts with one id are one fact: a fact says no more than its   *)
(* id and the setting determine, except where an interaction led, and no   *)
(* interaction is recorded twice.                                          *)
(***************************************************************************)
Unique(fs) == \A f, g \in fs : f.id = g.id => f = g

LEMMA UniquePut ==
  ASSUME NEW old, NEW new, Unique(old), Unique(new) PROVE Unique(Put(old, new))
BY DEF Unique, Put

LEMMA UniqueUnion ==
  ASSUME NEW fs, NEW gs, Unique(fs), Unique(gs), \A f \in fs, g \in gs : f.id # g.id
  PROVE  Unique(fs \cup gs)
BY DEF Unique

(***************************************************************************)
(* The endpoints of a program: what a site says beside its id follows from *)
(* the place it was found at.                                              *)
(***************************************************************************)
KindAt(file, s) ==
  IF s.adapter \in {"graphql-client", "trpc-client"} THEN file.calls[s.at].query
  ELSE StaticKind(s.method, s.path)
AboutAt(s) == IF s.adapter = "nestjs" THEN Path(s.at[1].prefix, "") ELSE s.path
Placed(file, s) == s.kind = KindAt(file, s) /\ s.about = AboutAt(s)

LEMMA RouteAtIs ==
  ASSUME NEW m, NEW p, NEW a, NEW at, NEW s, s = RouteAt(m, p, a, at)
  PROVE  /\ s = [method |-> m, path |-> p, adapter |-> a, at |-> at, about |-> p,
                 kind |-> StaticKind(m, p)]
         /\ s.method = m /\ s.path = p /\ s.adapter = a /\ s.at = at /\ s.about = p
         /\ s.kind = StaticKind(m, p)
BY DEF RouteAt

LEMMA RouteAtPlaced ==
  ASSUME NEW file, NEW m, NEW p, NEW at,
         NEW a \in {"request-wrapper-call", "fetch", "client", "route-object", "request-wrapper",
                    "conditional-router", "nextjs-route"}
  PROVE  Placed(file, RouteAt(m, p, a, at))
<1> DEFINE s == RouteAt(m, p, a, at)
<1>1. s.method = m /\ s.path = p /\ s.adapter = a /\ s.about = p /\ s.kind = StaticKind(m, p)
  BY RouteAtIs
<1> HIDE DEF s
<1>2. Placed(file, s)  BY <1>1 DEF Placed, KindAt, AboutAt
<1> QED BY <1>2 DEF s

LEMMA KindPlaced ==
  ASSUME NEW file, NEW p, NEW i, NEW a \in {"graphql-client", "trpc-client"}
  PROVE  Placed(file, [RouteAt("POST", p, a, i) EXCEPT !.kind = file.calls[i].query])
<1> DEFINE r == RouteAt("POST", p, a, i)
           k == file.calls[i].query
           s == [r EXCEPT !.kind = k]
<1>1. r = [method |-> "POST", path |-> p, adapter |-> a, at |-> i, about |-> p,
           kind |-> StaticKind("POST", p)]
  BY RouteAtIs
<1> HIDE DEF r, k
<1>2. s.path = p /\ s.adapter = a /\ s.at = i /\ s.about = p /\ s.kind = k  BY <1>1
<1> HIDE DEF s
<1>3. Placed(file, s)  BY <1>2 DEF Placed, KindAt, AboutAt, k
<1> QED BY <1>3 DEF s, r, k

LEMMA CalledPlaced ==
  ASSUME NEW file, NEW i, NEW s \in CalledSites(file, i) PROVE Placed(file, s)
<1> DEFINE adapters == {"request-wrapper-call", "fetch", "client", "route-object", "request-wrapper"}
<1>1. \/ \E m, p : \E a \in adapters : s = RouteAt(m, p, a, i)
      \/ \E p : \E a \in {"graphql-client", "trpc-client"} :
           s = [RouteAt("POST", p, a, i) EXCEPT !.kind = file.calls[i].query]
  <2> DEFINE call == file.calls[i]
             Text(k) == IF k \in DOMAIN call.args THEN TextOf(call.args[k], file.constants) ELSE <<>>
             At(text) == Path(text, call.query)
             method == IF call.method = "" THEN "GET" ELSE call.method
             own == {w \in Wrappers(file) : w.name = call.name}
             mounts == MountedRouterPrefixes(file)
             prefix == IF call.name \in DOMAIN mounts THEN mounts[call.name] ELSE <<>>
             If(condition, site) == IF condition THEN {site} ELSE {}
             wrapped == {RouteAt(w.method, At(Text(w.index)), "request-wrapper-call", i) :
                           w \in {v \in own : Resolved(Text(v.index))}}
             fetched == If(call.name = "fetch" /\ Resolved(Text(1)), RouteAt(method, At(Text(1)), "fetch", i))
             member == If(call.name \in HttpReceivers /\ Resolved(Text(1)),
                          RouteAt(method, At(prefix \o Text(1)), "client", i))
             route == If(call.method \in HttpMethods /\ Text(1) # <<>>,
                         RouteAt(method, At(Text(1)), "route-object", i))
             options == If(method \in HttpMethods /\ Text(1) # <<>>,
                           RouteAt(method, At(Text(1)), "request-wrapper", i))
             graphql == {[RouteAt("POST", Path(<<"graphql">>, ""), "graphql-client", i)
                            EXCEPT !.kind = call.query]}
             trpc == {[RouteAt("POST", Path(<<"rpc", call.name>>, ""), "trpc-client", i)
                         EXCEPT !.kind = call.query]}
  <2> HIDE DEF wrapped, fetched, member, route, options, graphql, trpc
  <2>1. CalledSites(file, i) =
          CASE call.form = "function" /\ own # {} -> wrapped
            [] call.form = "function" /\ own = {} -> fetched
            [] call.form = "member" -> member
            [] call.form = "route" -> route
            [] call.form = "options" -> options
            [] call.form = "graphql" -> graphql
            [] call.form = "trpc" -> trpc
            [] OTHER -> {}
    BY Zenon DEF CalledSites, wrapped, fetched, member, route, options, graphql, trpc
  <2>2. s \in wrapped \cup fetched \cup member \cup route \cup options \cup graphql \cup trpc
    BY <2>1
  <2>3. CASE s \in wrapped  BY <2>3 DEF wrapped
  <2>4. CASE s \in fetched \cup member \cup route \cup options
    <3> HIDE DEF Text, At, method, prefix
    <3> QED BY <2>4 DEF fetched, member, route, options
  <2>5. CASE s \in graphql \cup trpc
    <3> DEFINE g == Path(<<"graphql">>, "")
               t == Path(<<"rpc", call.name>>, "")
    <3>1. \/ s = [RouteAt("POST", g, "graphql-client", i) EXCEPT !.kind = call.query]
          \/ s = [RouteAt("POST", t, "trpc-client", i) EXCEPT !.kind = call.query]
      BY <2>5 DEF graphql, trpc
    <3> HIDE DEF g, t
    <3> QED BY <3>1
  <2>6. s \in wrapped \/ s \in fetched \cup member \cup route \cup options \/ s \in graphql \cup trpc
    BY <2>2
  <2> QED BY <2>3, <2>4, <2>5, <2>6
<1>2. \A m, p : \A a \in adapters : Placed(file, RouteAt(m, p, a, i))  BY RouteAtPlaced
<1>3. \A p : \A a \in {"graphql-client", "trpc-client"} :
        Placed(file, [RouteAt("POST", p, a, i) EXCEPT !.kind = file.calls[i].query])
  BY KindPlaced, Zenon
<1> QED BY <1>1, <1>2, <1>3, Zenon

LEMMA ControllerPlaced ==
  ASSUME NEW file, NEW s \in ControllerSites(file) PROVE Placed(file, s)
<1>0. PICK c, d : s = [RouteAt(d.method, Path(c.prefix \o d.suffix, ""), "nestjs", <<c, d>>)
                         EXCEPT !.about = Path(c.prefix, "")]
  BY Zenon DEF ControllerSites
<1> DEFINE m == d.method
           p == Path(c.prefix \o d.suffix, "")
           at == <<c, d>>
           about == Path(at[1].prefix, "")
           r == RouteAt(m, p, "nestjs", at)
<1>1. about = Path(c.prefix, "")  OBVIOUS
<1>2. s = [r EXCEPT !.about = about]  BY <1>0, <1>1, Zenon
<1> HIDE DEF m, p, at, about
<1>3. r = [method |-> m, path |-> p, adapter |-> "nestjs", at |-> at, about |-> p,
           kind |-> StaticKind(m, p)]
  BY RouteAtIs
<1> HIDE DEF r
<1>4. s.method = m /\ s.path = p /\ s.adapter = "nestjs" /\ s.at = at /\ s.about = about
        /\ s.kind = StaticKind(m, p)
  BY <1>2, <1>3
<1> QED BY <1>4 DEF Placed, KindAt, AboutAt, about

Sites(file) ==
  (UNION {CalledSites(file, i) : i \in DOMAIN file.calls})
    \cup BranchSites(file) \cup ControllerSites(file) \cup NextSites(file)

LEMMA SitesPlaced == ASSUME NEW file, NEW s \in Sites(file) PROVE Placed(file, s)
<1>1. CASE \E i : s \in CalledSites(file, i)  BY <1>1, CalledPlaced
<1>2. CASE s \in BranchSites(file)
  <2>1. \E m, p, i : s = RouteAt(m, p, "conditional-router", i)  BY <1>2 DEF BranchSites
  <2> QED BY <2>1, RouteAtPlaced
<1>3. CASE s \in ControllerSites(file)  BY <1>3, ControllerPlaced
<1>4. CASE s \in NextSites(file)
  <2>1. \E m : s = RouteAt(m, file.place, "nextjs-route", m)  BY <1>4 DEF NextSites
  <2> QED BY <2>1, RouteAtPlaced
<1> QED BY <1>1, <1>2, <1>3, <1>4 DEF Sites

SiteFact(file, s) ==
  Fact("endpoint", <<file.name, s.method, s.path, s.adapter, s.at>>,
       [method |-> s.method, path |-> s.path, kind |-> s.kind, route |-> file.route,
        feature |-> FeatureOf(file, s.about)])

LEMMA SiteFactId ==
  ASSUME NEW file, NEW s
  PROVE  SiteFact(file, s).id = <<"endpoint", <<file.name, s.method, s.path, s.adapter, s.at>>>>
<1> DEFINE id == <<file.name, s.method, s.path, s.adapter, s.at>>
           fields == [method |-> s.method, path |-> s.path, kind |-> s.kind, route |-> file.route,
                      feature |-> FeatureOf(file, s.about)]
<1>1. "type" \notin DOMAIN fields /\ "id" \notin DOMAIN fields  OBVIOUS
<1>2. SiteFact(file, s) = Fact("endpoint", id, fields)  BY DEF SiteFact
<1> HIDE DEF id, fields
<1>3. SiteFact(file, s).id = <<"endpoint", id>>  BY <1>1, <1>2, FactIs
<1> QED BY <1>3 DEF id

LEMMA ProgramIs ==
  ASSUME NEW file, NEW f \in ProgramEndpoints(file)
  PROVE  /\ \E s \in Sites(file) : f = SiteFact(file, s)
         /\ f.id[2][1] = file.name
<1>1. PICK s \in Sites(file) : f = SiteFact(file, s)
  BY Zenon DEF ProgramEndpoints, SiteFact, Sites
<1>2. f.id = <<"endpoint", <<file.name, s.method, s.path, s.adapter, s.at>>>>  BY <1>1, SiteFactId
<1>3. f.id[2][1] = file.name  BY <1>2
<1> QED BY <1>1, <1>3

LEMMA ProgramUnique == ASSUME NEW file PROVE Unique(ProgramEndpoints(file))
<1> SUFFICES ASSUME NEW f \in ProgramEndpoints(file), NEW g \in ProgramEndpoints(file), f.id = g.id
             PROVE  f = g
  BY DEF Unique
<1>1. PICK s \in Sites(file) : f = SiteFact(file, s)  BY ProgramIs
<1>2. PICK t \in Sites(file) : g = SiteFact(file, t)  BY ProgramIs
<1>3. s.method = t.method /\ s.path = t.path /\ s.adapter = t.adapter /\ s.at = t.at
  <2>1. <<file.name, s.method, s.path, s.adapter, s.at>> = <<file.name, t.method, t.path, t.adapter, t.at>>
    BY <1>1, <1>2, SiteFactId
  <2> QED BY <2>1
<1>4. s.kind = t.kind /\ s.about = t.about
  BY <1>3, SitesPlaced, Zenon DEF Placed, KindAt, AboutAt
<1> QED BY <1>1, <1>2, <1>3, <1>4, Zenon DEF SiteFact

(***************************************************************************)
(* The facts of a file.                                                    *)
(***************************************************************************)
\* What a file is named, and what is named in it.
Named(file) ==
  /\ file.operations \in Seq(ToSet(file.operations))
  /\ \A o, p \in ToSet(file.operations) : o.method = p.method /\ o.path = p.path => o = p
  /\ \A script \in file.scripts :
       /\ script.name # file.name
       /\ \A other \in file.scripts : script.name = other.name => script = other

LEMMA ScriptsUnique ==
  ASSUME NEW file, Named(file) PROVE Unique(TypeScriptEndpoints(file))
<1> SUFFICES ASSUME NEW f \in TypeScriptEndpoints(file), NEW g \in TypeScriptEndpoints(file),
                    f.id = g.id
             PROVE  f = g
  BY DEF Unique
<1>1. PICK a \in {file} \cup file.scripts : f \in ProgramEndpoints(a)  BY DEF TypeScriptEndpoints
<1>2. PICK b \in {file} \cup file.scripts : g \in ProgramEndpoints(b)  BY DEF TypeScriptEndpoints
<1>3. a.name = b.name  BY <1>1, <1>2, ProgramIs
<1>4. a = b  BY <1>3 DEF Named
<1> QED BY <1>1, <1>2, <1>4, ProgramUnique DEF Unique

LEMMA OperationsUnique ==
  ASSUME NEW file, Named(file)
  PROVE  Unique({OpenApiEndpoint(file, o) : o \in ToSet(file.operations)})
<1> SUFFICES ASSUME NEW o \in ToSet(file.operations), NEW p \in ToSet(file.operations),
                    OpenApiEndpoint(file, o).id = OpenApiEndpoint(file, p).id
             PROVE  OpenApiEndpoint(file, o) = OpenApiEndpoint(file, p)
  BY Zenon DEF Unique
<1>1. ASSUME NEW q
      PROVE  OpenApiEndpoint(file, q).id = <<"endpoint", <<file.name, q.method, q.path>>>>
  <2> DEFINE id == <<file.name, q.method, q.path>>
             fields == [method |-> q.method, path |-> q.path, kind |-> StaticKind(q.method, q.path),
                        route |-> q.path, feature |-> OperationFeature(file, q)]
  <2>1. "type" \notin DOMAIN fields /\ "id" \notin DOMAIN fields  OBVIOUS
  <2>2. OpenApiEndpoint(file, q) = Fact("endpoint", id, fields)  BY Zenon DEF OpenApiEndpoint
  <2> HIDE DEF id, fields
  <2>3. OpenApiEndpoint(file, q).id = <<"endpoint", id>>  BY <2>1, <2>2, FactIs
  <2> QED BY <2>3 DEF id
<1>2. <<"endpoint", <<file.name, o.method, o.path>>>> = <<"endpoint", <<file.name, p.method, p.path>>>>
  BY <1>1, Zenon
<1>3. o.method = p.method /\ o.path = p.path  BY <1>2
<1> QED BY <1>3, Zenon DEF Named

LEMMA MatchesUnique == ASSUME NEW file PROVE Unique(FallbackEndpoints(file))
<1> DEFINE Made(m, p) == Fact("endpoint", <<file.name, m, p, "regex">>,
                             [method |-> m, path |-> p, kind |-> LiveKind(m, p),
                              route |-> file.route, feature |-> FallbackFeature(file)])
<1>1. ASSUME NEW m, NEW p PROVE Made(m, p).id = <<"endpoint", <<file.name, m, p, "regex">>>>
  <2> DEFINE id == <<file.name, m, p, "regex">>
             fields == [method |-> m, path |-> p, kind |-> LiveKind(m, p),
                        route |-> file.route, feature |-> FallbackFeature(file)]
  <2>1. "type" \notin DOMAIN fields /\ "id" \notin DOMAIN fields  OBVIOUS
  <2>2. Made(m, p) = Fact("endpoint", id, fields)  OBVIOUS
  <2> HIDE DEF id, fields, Made
  <2>3. Made(m, p).id = <<"endpoint", id>>  BY <2>1, <2>2, FactIs
  <2> QED BY <2>3 DEF id
<1>2. \A f \in FallbackEndpoints(file) : \E d : f = Made(d.method, d.path)
  BY Zenon DEF FallbackEndpoints
<1> HIDE DEF Made
<1>3. \A f \in FallbackEndpoints(file) : \E m, p : f = Made(m, p)  BY <1>2
<1> SUFFICES ASSUME NEW f \in FallbackEndpoints(file), NEW g \in FallbackEndpoints(file), f.id = g.id
             PROVE  f = g
  BY DEF Unique
<1>4. PICK m, p : f = Made(m, p)  BY <1>3
<1>5. PICK n, q : g = Made(n, q)  BY <1>3
<1>6. <<"endpoint", <<file.name, m, p, "regex">>>> = <<"endpoint", <<file.name, n, q, "regex">>>>
  BY <1>1, <1>4, <1>5, Zenon
<1>7. m = n /\ p = q  BY <1>6
<1> QED BY <1>4, <1>5, <1>7

LEMMA EndpointsUnique == ASSUME NEW file, Named(file) PROVE Unique(EndpointsOf(file))
<1>1. Unique({})  BY DEF Unique
<1>2. Unique(StructuredEndpoints(file))
  BY <1>1, ScriptsUnique, OperationsUnique, Zenon DEF StructuredEndpoints
<1> QED BY <1>2, MatchesUnique, Zenon DEF EndpointsOf

SchemaFact(file, path, feature, type, field, rule) ==
  Fact(type, <<file.name, path, field, rule>>,
       [field |-> field, feature |-> feature, resource |-> Collection(path.seg)])

LEMMA SchemaFactIs ==
  ASSUME NEW file, NEW path, NEW feature, NEW type, NEW field, NEW rule
  PROVE  SchemaFact(file, path, feature, type, field, rule).type = type
         /\ SchemaFact(file, path, feature, type, field, rule).id =
              <<type, <<file.name, path, field, rule>>>>
<1> DEFINE id == <<file.name, path, field, rule>>
           fields == [field |-> field, feature |-> feature, resource |-> Collection(path.seg)]
           f == SchemaFact(file, path, feature, type, field, rule)
<1>1. "type" \notin DOMAIN fields /\ "id" \notin DOMAIN fields  OBVIOUS
<1>2. f = Fact(type, id, fields)  BY DEF SchemaFact
<1> HIDE DEF id, fields, f
<1>3. f.type = type /\ f.id = <<type, id>>  BY <1>1, <1>2, FactIs
<1> QED BY <1>3 DEF id, f

LEMMA SchemaUnique ==
  ASSUME NEW file, NEW fields, NEW path, NEW feature
  PROVE  /\ Unique(SchemaFacts(file, fields, path, feature))
         /\ \A f \in SchemaFacts(file, fields, path, feature) :
              f.type \in {"field", "validation"} /\ f.id[1] = f.type
<1> DEFINE Made(type, field, rule) == SchemaFact(file, path, feature, type, field, rule)
           S == SchemaFacts(file, fields, path, feature)
<1>1. ASSUME NEW f \in S
      PROVE  \E type \in {"field", "validation"} : \E field, rule : f = Made(type, field, rule)
  <2> DEFINE Of(p) == {Made("field", p.field, "schema")}
                       \cup {Made("validation", p.field, r) : r \in p.rules}
  <2>1. S = UNION {Of(p) : p \in fields}  BY Zenon DEF SchemaFacts, SchemaFact
  <2> HIDE DEF Made, S
  <2>2. PICK p \in fields : f \in Of(p)  BY <2>1
  <2> QED BY <2>2
<1>2. \A type, field, rule : /\ Made(type, field, rule).type = type
                             /\ Made(type, field, rule).id = <<type, <<file.name, path, field, rule>>>>
  BY SchemaFactIs
<1> HIDE DEF Made, S
<1>3. ASSUME NEW f \in S, NEW g \in S, f.id = g.id PROVE f = g
  <2>1. PICK t, x, r : f = Made(t, x, r)  BY <1>1
  <2>2. PICK u, y, q : g = Made(u, y, q)  BY <1>1
  <2>3. <<t, <<file.name, path, x, r>>>> = <<u, <<file.name, path, y, q>>>>
    <3>1. f.id = <<t, <<file.name, path, x, r>>>>  BY <1>2, <2>1
    <3>2. g.id = <<u, <<file.name, path, y, q>>>>  BY <1>2, <2>2
    <3> QED BY <1>3, <3>1, <3>2
  <2>4. t = u /\ x = y /\ r = q  BY <2>3
  <2> QED BY <2>1, <2>2, <2>4
<1>4. \A f \in S : f.type \in {"field", "validation"} /\ f.id[1] = f.type
  BY <1>1, <1>2
<1> QED BY <1>3, <1>4 DEF S, Unique

LEMMA OpenApiFieldsUnique == ASSUME NEW file, Named(file) PROVE Unique(OpenApiFields(file))
<1> DEFINE found == [k \in DOMAIN file.operations |->
                       SchemaFacts(file, file.operations[k].fields, file.operations[k].path,
                                   OperationFeature(file, file.operations[k]))]
           Replaced(f, k) == \E l \in DOMAIN found : l > k /\ \E g \in found[l] : g.id = f.id
<1>1. OpenApiFields(file) = UNION {{f \in found[k] : ~Replaced(f, k)} : k \in DOMAIN found}
  BY Zenon DEF OpenApiFields
<1>2. \A k \in DOMAIN found : Unique(found[k])  BY SchemaUnique
<1>3. DOMAIN found \subseteq Nat  BY DEF Named
<1> HIDE DEF found
<1> SUFFICES ASSUME NEW f \in OpenApiFields(file), NEW g \in OpenApiFields(file), f.id = g.id
             PROVE  f = g
  BY DEF Unique
<1>4. PICK k \in DOMAIN found : f \in found[k] /\ ~Replaced(f, k)  BY <1>1
<1>5. PICK l \in DOMAIN found : g \in found[l] /\ ~Replaced(g, l)  BY <1>1
<1>6. ~(l > k) /\ ~(k > l)  BY <1>4, <1>5
<1>7. k = l  BY <1>3, <1>6
<1> QED BY <1>2, <1>4, <1>5, <1>7 DEF Unique

LEMMA OpenApiIds == ASSUME NEW file, NEW f \in OpenApiFields(file) PROVE f.id[1] \in {"field", "validation"}
<1>1. PICK o : f \in SchemaFacts(file, o.fields, o.path, OperationFeature(file, o))
  BY DEF OpenApiFields
<1> QED BY <1>1, SchemaUnique

LEMMA StandaloneUnique ==
  ASSUME NEW file
  PROVE  /\ Unique(StandaloneFields(file))
         /\ \A f \in StandaloneFields(file) : f.id[1] \in {"field", "validation", "schema"}
<1> DEFINE feature == FeatureOf(file, file.route)
           path == IF file.resource = Nowhere THEN file.route ELSE file.resource
           fields == [feature |-> feature]
           id == <<file.name, feature>>
           f == Fact("schema", id, fields)
           S == SchemaFacts(file, file.fields, path, feature)
<1>1. StandaloneFields(file) = {f} \cup S  BY Zenon DEF StandaloneFields
<1>2. Unique(S) /\ \A g \in S : g.id[1] \in {"field", "validation"}
  <2> HIDE DEF path, feature
  <2> QED BY SchemaUnique
<1>3. "type" \notin DOMAIN fields /\ "id" \notin DOMAIN fields  OBVIOUS
<1> HIDE DEF feature, path, fields, id, f, S
<1>4. f.id[1] = "schema"
  <2>1. f.id = <<"schema", id>>  BY <1>3, FactIs DEF f
  <2> QED BY <2>1
<1>5. Unique({f})  BY DEF Unique
<1>6. \A g \in {f}, h \in S : g.id # h.id  BY <1>2, <1>4
<1> QED BY <1>1, <1>2, <1>4, <1>5, <1>6, UniqueUnion

LEMMA SchemaFieldsUnique ==
  ASSUME NEW file, Named(file)
  PROVE  /\ Unique(SchemaFields(file))
         /\ \A f \in SchemaFields(file) : f.id[1] \in {"field", "validation", "schema"}
<1>1. Unique({})  BY DEF Unique
<1>2. \A f \in OpenApiFields(file) : f.id[1] \in {"field", "validation", "schema"}  BY OpenApiIds
<1>3. SchemaFields(file) \in {OpenApiFields(file), StandaloneFields(file), {}}
  BY Zenon DEF SchemaFields
<1> QED BY <1>1, <1>2, <1>3, OpenApiFieldsUnique, StandaloneUnique

LEMMA ControlsUnique ==
  ASSUME NEW file PROVE Unique(ControlsOf(file)) /\ \A f \in ControlsOf(file) : f.id[1] = "control"
<1> DEFINE Id(name) == <<file.name, file.route, name>>
           Data(name) == [route |-> file.route, control |-> name, name |-> file.aria,
                            feature |-> FallbackFeature(file)]
           Made(name) == Fact("control", Id(name), Data(name))
<1>1. \A f \in ControlsOf(file) : \E name : f = Made(name)  BY Zenon DEF ControlsOf
<1>2. \A n : "type" \notin DOMAIN Data(n) /\ "id" \notin DOMAIN Data(n)  OBVIOUS
<1> HIDE DEF Data
<1>3. ASSUME NEW n PROVE Made(n).id = <<"control", <<file.name, file.route, n>>>>
  BY <1>2, FactIs
<1> HIDE DEF Made
<1>4. ASSUME NEW f \in ControlsOf(file), NEW g \in ControlsOf(file), f.id = g.id PROVE f = g
  <2>1. PICK m : f = Made(m)  BY <1>1
  <2>2. PICK n : g = Made(n)  BY <1>1
  <2>3. f.id = <<"control", <<file.name, file.route, m>>>>  BY <1>3, <2>1
  <2>4. g.id = <<"control", <<file.name, file.route, n>>>>  BY <1>3, <2>2
  <2>5. f.id[2][3] = m /\ g.id[2][3] = n  BY <2>3, <2>4
  <2> QED BY <1>4, <2>1, <2>2, <2>5
<1>5. \A f \in ControlsOf(file) : f.id[1] = "control"  BY <1>1, <1>3
<1> QED BY <1>4, <1>5 DEF Unique

LEMMA FallbackUnique ==
  ASSUME NEW file
  PROVE  Unique(FallbackFields(file)) /\ \A f \in FallbackFields(file) : f.id[1] = "validation"
<1> DEFINE Id(name) == <<file.name, name>>
           Data(name) == [field |-> name, feature |-> FallbackFeature(file)]
           Made(name) == Fact("validation", Id(name), Data(name))
<1>1. \A f \in FallbackFields(file) : \E name : f = Made(name)  BY Zenon DEF FallbackFields
<1>2. \A n : "type" \notin DOMAIN Data(n) /\ "id" \notin DOMAIN Data(n)  OBVIOUS
<1> HIDE DEF Data
<1>3. ASSUME NEW n PROVE Made(n).id = <<"validation", <<file.name, n>>>>
  BY <1>2, FactIs
<1> HIDE DEF Made
<1>4. ASSUME NEW f \in FallbackFields(file), NEW g \in FallbackFields(file), f.id = g.id PROVE f = g
  <2>1. PICK m : f = Made(m)  BY <1>1
  <2>2. PICK n : g = Made(n)  BY <1>1
  <2>3. f.id = <<"validation", <<file.name, m>>>>  BY <1>3, <2>1
  <2>4. g.id = <<"validation", <<file.name, n>>>>  BY <1>3, <2>2
  <2>5. f.id[2][2] = m /\ g.id[2][2] = n  BY <2>3, <2>4
  <2> QED BY <1>4, <2>1, <2>2, <2>5
<1>5. \A f \in FallbackFields(file) : f.id[1] = "validation"  BY <1>1, <1>3
<1> QED BY <1>4, <1>5 DEF Unique

\* Whatever is kept of a file, no two of its facts have one id.
LEMMA FileUnique ==
  ASSUME NEW file, Named(file), NEW kept \in SUBSET EndpointsOf(file),
         NEW others \in SUBSET (ControlsOf(file) \cup SchemaFields(file) \cup FallbackFields(file))
  PROVE  Unique(kept \cup others)
<1> DEFINE S == SchemaFields(file)
           F == FallbackFields(file)
           C == ControlsOf(file)
           E == EndpointsOf(file)
<1>1. S = {} \/ F = {}  BY Zenon DEF SchemaFields, FallbackFields
<1>2. Unique(S) /\ \A f \in S : f.id[1] \in {"field", "validation", "schema"}
  BY SchemaFieldsUnique
<1>3. Unique(F) /\ \A f \in F : f.id[1] = "validation"  BY FallbackUnique
<1>4. Unique(C) /\ \A f \in C : f.id[1] = "control"  BY ControlsUnique
<1>5. Unique(E) /\ \A f \in E : f.id[1] = "endpoint"
  BY EndpointsUnique, EndpointsAre DEF OnlyEndpoints
<1> HIDE DEF S, F, C, E
<1>6. Unique(S \cup F) /\ \A f \in S \cup F : f.id[1] \in {"field", "validation", "schema"}
  <2>1. S \cup F = S \/ S \cup F = F  BY <1>1
  <2> QED BY <1>2, <1>3, <2>1
<1>7. Unique(C \cup (S \cup F))  BY <1>4, <1>6, UniqueUnion
<1>8. \A f \in E, g \in C \cup (S \cup F) : f.id # g.id  BY <1>4, <1>5, <1>6
<1>9. Unique(E \cup (C \cup (S \cup F)))  BY <1>5, <1>7, <1>8, UniqueUnion
<1>10. kept \cup others \subseteq E \cup (C \cup (S \cup F))  BY DEF E, C, S, F
<1> QED BY <1>9, <1>10 DEF Unique

--------------------------------------------------------------------------------
(***************************************************************************)
(* The facts of the explorer: a response, a route, a control, an           *)
(* interaction, a correlation and a mutation, by what their ids name.      *)
(***************************************************************************)
ShownAt(h) ==
  LET all == Pages[h].controls
  IN SubSeq(all, 1, IF Len(all) < MaxControls THEN Len(all) ELSE MaxControls)

ResponseOf(q, by) ==
  Fact("runtime_response", <<q.method, q.path, by>>,
       [method |-> q.method, path |-> q.path, by |-> by])
RouteOf(h, look) == Fact("route", <<h, look>>, [route |-> h])
ControlAt(h, i) ==
  LET c == ShownAt(h)[i]
  IN Fact("control", <<"live", h, c.name, i>>,
          [route |-> h, control |-> c.name, tag |-> c.tag, name |-> c.name,
           feature |-> LiveFeature({c.name})])
InteractionAt(h, i) ==
  Fact("interaction", <<h, ControlAt(h, i).id, Pages[h].look>>,
       [route |-> h, controlFact |-> ControlAt(h, i).id])
CorrelationAt(h, i, e, by) ==
  Fact("correlation", <<ControlAt(h, i).id, e, by>>,
       [controlFact |-> ControlAt(h, i).id, endpointFact |-> e, route |-> h])
MutationOf(by, look, r) == Fact("ui_mutation", <<by, look>>, [route |-> r, by |-> by])

Network(f) == \E q, by : f = RequestOf(q, by) \/ f = ResponseOf(q, by)
\* What the explorer writes down of its own, a mutation apart.
Noted(f) ==
  \/ \E h, look : f = RouteOf(h, look)
  \/ \E h, i : f = ControlAt(h, i) \/ f = InteractionAt(h, i)
  \/ \E h, i, e, by : f = CorrelationAt(h, i, e, by)
Mutation(f) == \E by, look, r : f = MutationOf(by, look, r)

LEMMA HereShown ==
  /\ Shown = ShownAt(Here)
  /\ \A i : ControlFact(i) = ControlAt(Here, i) /\ Interaction(i) = InteractionAt(Here, i)
<1>1. Shown = ShownAt(Here)  BY Zenon DEF Shown, ShownAt
<1>2. \A i : ControlFact(i) = ControlAt(Here, i)  BY <1>1, Zenon DEF ControlFact, ControlAt
<1>3. \A i : Interaction(i) = InteractionAt(Here, i)
  BY <1>2, Zenon DEF Interaction, InteractionAt
<1> QED BY <1>1, <1>2, <1>3

LEMMA ResponseOfIs ==
  ASSUME NEW q, NEW by
  PROVE  ResponseOf(q, by).type = "runtime_response"
         /\ ResponseOf(q, by).id = <<"runtime_response", <<q.method, q.path, by>>>>
BY DEF ResponseOf, Fact, Blank

LEMMA RouteOfIs ==
  ASSUME NEW h, NEW look
  PROVE  RouteOf(h, look).type = "route" /\ RouteOf(h, look).id = <<"route", <<h, look>>>>
BY DEF RouteOf, Fact, Blank

LEMMA ControlAtIs ==
  ASSUME NEW h, NEW i
  PROVE  /\ ControlAt(h, i).type = "control"
         /\ ControlAt(h, i).id = <<"control", <<"live", h, ShownAt(h)[i].name, i>>>>
<1> DEFINE c == ShownAt(h)[i]
           id == <<"live", h, c.name, i>>
           fields == [route |-> h, control |-> c.name, tag |-> c.tag, name |-> c.name,
                      feature |-> LiveFeature({c.name})]
<1>1. ControlAt(h, i) = Fact("control", id, fields)  BY Zenon DEF ControlAt
<1>2. "type" \notin DOMAIN fields /\ "id" \notin DOMAIN fields  OBVIOUS
<1> HIDE DEF id, fields
<1>3. ControlAt(h, i).type = "control" /\ ControlAt(h, i).id = <<"control", id>>
  BY <1>1, <1>2, FactIs
<1> QED BY <1>3 DEF id

LEMMA InteractionAtIs ==
  ASSUME NEW h, NEW i
  PROVE  /\ InteractionAt(h, i).type = "interaction"
         /\ InteractionAt(h, i).id = <<"interaction", <<h, ControlAt(h, i).id, Pages[h].look>>>>
<1> DEFINE c == ControlAt(h, i).id
           look == Pages[h].look
<1> HIDE DEF c, look
<1>1. LET f == Fact("interaction", <<h, c, look>>, [route |-> h, controlFact |-> c])
      IN f.type = "interaction" /\ f.id = <<"interaction", <<h, c, look>>>>
  BY DEF Fact, Blank
<1> QED BY <1>1, Zenon DEF InteractionAt, c, look

LEMMA CorrelationAtIs ==
  ASSUME NEW h, NEW i, NEW e, NEW by
  PROVE  /\ CorrelationAt(h, i, e, by).type = "correlation"
         /\ CorrelationAt(h, i, e, by).id = <<"correlation", <<ControlAt(h, i).id, e, by>>>>
<1> DEFINE c == ControlAt(h, i).id
<1> HIDE DEF c
<1>1. LET f == Fact("correlation", <<c, e, by>>, [controlFact |-> c, endpointFact |-> e, route |-> h])
      IN f.type = "correlation" /\ f.id = <<"correlation", <<c, e, by>>>>
  BY DEF Fact, Blank
<1> QED BY <1>1, Zenon DEF CorrelationAt, c

LEMMA MutationOfIs ==
  ASSUME NEW by, NEW look, NEW r
  PROVE  /\ MutationOf(by, look, r).type = "ui_mutation" /\ MutationOf(by, look, r).by = by
         /\ MutationOf(by, look, r).id = <<"ui_mutation", <<by, look>>>>
BY DEF MutationOf, Fact, Blank

\* The id of a control names its page and its position.
LEMMA SameControl ==
  ASSUME NEW h, NEW i, NEW k, NEW j, ControlAt(h, i).id = ControlAt(k, j).id PROVE h = k /\ i = j
<1>1. ControlAt(h, i).id[2][2] = h /\ ControlAt(h, i).id[2][4] = i  BY ControlAtIs
<1>2. ControlAt(k, j).id[2][2] = k /\ ControlAt(k, j).id[2][4] = j  BY ControlAtIs
<1> QED BY <1>1, <1>2

LEMMA SameInteraction ==
  ASSUME NEW h, NEW i, NEW k, NEW j, InteractionAt(h, i).id = InteractionAt(k, j).id
  PROVE  h = k /\ i = j
<1>1. InteractionAt(h, i).id[2][2] = ControlAt(h, i).id  BY InteractionAtIs
<1>2. InteractionAt(k, j).id[2][2] = ControlAt(k, j).id  BY InteractionAtIs
<1> QED BY <1>1, <1>2, SameControl

LEMMA NetworkTyped ==
  ASSUME NEW f, Network(f)
  PROVE  f.type \in {"endpoint", "runtime_response"} /\ f.id[1] = f.type
<1>1. PICK q, by : f = RequestOf(q, by) \/ f = ResponseOf(q, by)  BY DEF Network
<1>2. CASE f = RequestOf(q, by)
  <2>1. f.type = "endpoint" /\ f.id = <<"endpoint", <<"runtime", q.method, q.path, by>>>>
    BY <1>2, RequestOfIs
  <2> QED BY <2>1
<1>3. CASE f = ResponseOf(q, by)
  <2>1. f.type = "runtime_response" /\ f.id = <<"runtime_response", <<q.method, q.path, by>>>>
    BY <1>3, ResponseOfIs
  <2> QED BY <2>1
<1> QED BY <1>1, <1>2, <1>3

LEMMA NotedTyped ==
  ASSUME NEW f, Noted(f)
  PROVE  f.type \in {"route", "control", "interaction", "correlation"} /\ f.id[1] = f.type
<1>1. ASSUME NEW h, NEW look, f = RouteOf(h, look) PROVE f.type = "route" /\ f.id[1] = "route"
  BY <1>1, RouteOfIs
<1>2. ASSUME NEW h, NEW i, f = ControlAt(h, i) PROVE f.type = "control" /\ f.id[1] = "control"
  BY <1>2, ControlAtIs
<1>3. ASSUME NEW h, NEW i, f = InteractionAt(h, i)
      PROVE  f.type = "interaction" /\ f.id[1] = "interaction"
  BY <1>3, InteractionAtIs
<1>4. ASSUME NEW h, NEW i, NEW e, NEW by, f = CorrelationAt(h, i, e, by)
      PROVE  f.type = "correlation" /\ f.id[1] = "correlation"
  BY <1>4, CorrelationAtIs
<1> QED BY <1>1, <1>2, <1>3, <1>4 DEF Noted

LEMMA NetworkUnique ==
  ASSUME NEW f, NEW g, Network(f), Network(g), f.id = g.id PROVE f = g
<1>1. f.type = g.type  BY NetworkTyped
<1>2. CASE f.type = "endpoint"
  <2>1. PICK q, by : f = RequestOf(q, by)  BY <1>2, ResponseOfIs DEF Network
  <2>2. PICK r, to : g = RequestOf(r, to)  BY <1>1, <1>2, ResponseOfIs DEF Network
  <2>3. f.id[2] = <<"runtime", q.method, q.path, by>>  BY <2>1, RequestOfIs
  <2>4. g.id[2] = <<"runtime", r.method, r.path, to>>  BY <2>2, RequestOfIs
  <2>5. <<"runtime", q.method, q.path, by>> = <<"runtime", r.method, r.path, to>>
    BY <2>3, <2>4
  <2>6. q.method = r.method /\ q.path = r.path /\ by = to  BY <2>5
  <2>7. RequestOf(q, by) = RequestOf(r, to)  BY <2>6, Zenon DEF RequestOf
  <2> QED BY <2>1, <2>2, <2>7
<1>3. CASE f.type # "endpoint"
  <2>1. PICK q, by : f = ResponseOf(q, by)  BY <1>3, RequestOfIs DEF Network
  <2>2. PICK r, to : g = ResponseOf(r, to)  BY <1>1, <1>3, RequestOfIs DEF Network
  <2>3. f.id[2] = <<q.method, q.path, by>>  BY <2>1, ResponseOfIs
  <2>4. g.id[2] = <<r.method, r.path, to>>  BY <2>2, ResponseOfIs
  <2>5. <<q.method, q.path, by>> = <<r.method, r.path, to>>  BY <2>3, <2>4
  <2>6. q.method = r.method /\ q.path = r.path /\ by = to  BY <2>5
  <2>7. ResponseOf(q, by) = ResponseOf(r, to)  BY <2>6, Zenon DEF ResponseOf
  <2> QED BY <2>1, <2>2, <2>7
<1> QED BY <1>2, <1>3

LEMMA NotedUnique ==
  ASSUME NEW f, NEW g, Noted(f), Noted(g), f.id = g.id PROVE f = g
<1> DEFINE IsRoute(x) == \E h, look : x = RouteOf(h, look)
           IsControl(x) == \E h, i : x = ControlAt(h, i)
           IsInteraction(x) == \E h, i : x = InteractionAt(h, i)
           IsCorrelation(x) == \E h, i, e, by : x = CorrelationAt(h, i, e, by)
<1>1. ASSUME NEW x, Noted(x) PROVE IsRoute(x) \/ IsControl(x) \/ IsInteraction(x) \/ IsCorrelation(x)
  BY <1>1 DEF Noted
<1>2. \A x : /\ IsRoute(x) => x.id[1] = "route"
             /\ IsControl(x) => x.id[1] = "control"
             /\ IsInteraction(x) => x.id[1] = "interaction"
             /\ IsCorrelation(x) => x.id[1] = "correlation"
  <2>1. \A x : IsRoute(x) => x.id[1] = "route"  BY RouteOfIs
  <2>2. \A x : IsControl(x) => x.id[1] = "control"  BY ControlAtIs
  <2>3. \A x : IsInteraction(x) => x.id[1] = "interaction"  BY InteractionAtIs
  <2>4. \A x : IsCorrelation(x) => x.id[1] = "correlation"  BY CorrelationAtIs
  <2> HIDE DEF IsRoute, IsControl, IsInteraction, IsCorrelation
  <2> QED BY <2>1, <2>2, <2>3, <2>4
<1>3. ASSUME IsRoute(f), IsRoute(g) PROVE f = g
  <2>1. PICK h, look : f = RouteOf(h, look)  BY <1>3
  <2>2. PICK k, view : g = RouteOf(k, view)  BY <1>3
  <2>3. f.id[2] = <<h, look>> /\ g.id[2] = <<k, view>>  BY <2>1, <2>2, RouteOfIs
  <2>4. <<h, look>> = <<k, view>>  BY <2>3
  <2>5. h = k /\ look = view  BY <2>4
  <2> QED BY <2>1, <2>2, <2>5
<1>4. ASSUME IsControl(f), IsControl(g) PROVE f = g
  <2>1. PICK h, i : f = ControlAt(h, i)  BY <1>4
  <2>2. PICK k, j : g = ControlAt(k, j)  BY <1>4
  <2>3. h = k /\ i = j  BY <2>1, <2>2, SameControl
  <2> QED BY <2>1, <2>2, <2>3
<1>5. ASSUME IsInteraction(f), IsInteraction(g) PROVE f = g
  <2>1. PICK h, i : f = InteractionAt(h, i)  BY <1>5
  <2>2. PICK k, j : g = InteractionAt(k, j)  BY <1>5
  <2>3. h = k /\ i = j  BY <2>1, <2>2, SameInteraction
  <2> QED BY <2>1, <2>2, <2>3
<1>6. ASSUME IsCorrelation(f), IsCorrelation(g) PROVE f = g
  <2>1. PICK h, i, e, by : f = CorrelationAt(h, i, e, by)  BY <1>6
  <2>2. PICK k, j, d, to : g = CorrelationAt(k, j, d, to)  BY <1>6
  <2>3. f.id[2] = <<ControlAt(h, i).id, e, by>>  BY <2>1, CorrelationAtIs
  <2>4. g.id[2] = <<ControlAt(k, j).id, d, to>>  BY <2>2, CorrelationAtIs
  <2>5. <<ControlAt(h, i).id, e, by>> = <<ControlAt(k, j).id, d, to>>  BY <2>3, <2>4
  <2>6. ControlAt(h, i).id = ControlAt(k, j).id /\ e = d /\ by = to  BY <2>5
  <2>7. h = k /\ i = j  BY <2>6, SameControl
  <2> QED BY <2>1, <2>2, <2>6, <2>7
<1> HIDE DEF IsRoute, IsControl, IsInteraction, IsCorrelation
<1> QED BY <1>1, <1>2, <1>3, <1>4, <1>5, <1>6

LEMMA MutationTyped ==
  ASSUME NEW f, Mutation(f) PROVE f.type = "ui_mutation" /\ f.id[1] = f.type
BY MutationOfIs DEF Mutation

\* Of the facts that the explorer collects, only a mutation says more than its id.
LEMMA LiveUnique ==
  ASSUME NEW fs, \A f \in fs : Network(f) \/ Noted(f) \/ Mutation(f),
         \A f, g \in fs : Mutation(f) /\ Mutation(g) /\ f.id = g.id => f = g
  PROVE  Unique(fs)
BY NetworkTyped, NotedTyped, MutationTyped, NetworkUnique, NotedUnique DEF Unique

(***************************************************************************)
(* What a step adds to the log.                                            *)
(***************************************************************************)
Logs(old, new) ==
  /\ new = [count |-> new.count, facts |-> new.facts]
  /\ old.facts \subseteq new.facts
  /\ \A f \in new.facts \ old.facts : Network(f)
  /\ old.count \in 0 .. MaxNetwork => new.count \in 0 .. MaxNetwork

LEMMA HeardLogs ==
  ASSUME NEW log, log = [count |-> log.count, facts |-> log.facts], NEW q, NEW by
  PROVE  Logs(log, Heard(log, q, by))
<1> DEFINE new == Heard(log, q, by)
           f == RequestOf(q, by)
           m == log.count
<1>0. MaxNetwork \in Nat  BY BudgetAssumption
<1>1. CASE m >= MaxNetwork
  <2>1. new = log  BY <1>1 DEF Heard
  <2> QED BY <2>1 DEF Logs
<1>2. CASE ~(m >= MaxNetwork)
  <2>1. Network(f)  BY DEF Network
  <2>2. \/ new = [count |-> m + 1, facts |-> log.facts \cup {}]
        \/ new = [count |-> m + 1, facts |-> log.facts \cup {f}]
    BY <1>2, HeardIs
  <2> HIDE DEF f, new
  <2>3. new = [count |-> new.count, facts |-> new.facts] /\ new.count = m + 1  BY <2>2
  <2>4. new.facts = log.facts \cup {} \/ new.facts = log.facts \cup {f}  BY <2>2
  <2>5. m \in 0 .. MaxNetwork => m + 1 \in 0 .. MaxNetwork
    <3> HIDE DEF m
    <3> QED BY <1>0, <1>2
  <2> QED BY <2>1, <2>3, <2>4, <2>5 DEF Logs, new
<1> QED BY <1>1, <1>2

LEMMA AnsweredLogs ==
  ASSUME NEW log, log = [count |-> log.count, facts |-> log.facts], NEW q, NEW by
  PROVE  Logs(log, Answered(log, q, by))
<1> DEFINE new == Answered(log, q, by)
           f == ResponseOf(q, by)
<1>1. CASE log.count >= MaxNetwork \/ q.foreign
  <2>1. new = log  BY <1>1 DEF Answered
  <2> QED BY <2>1 DEF Logs
<1>2. CASE ~(log.count >= MaxNetwork \/ q.foreign)
  <2>1. Network(f)  BY DEF Network
  <2>2. new = [log EXCEPT !.facts = log.facts \cup {f}]  BY <1>2 DEF Answered, ResponseOf
  <2> HIDE DEF f, new
  <2>3. new = [count |-> log.count, facts |-> log.facts \cup {f}]  BY <2>2
  <2>4. /\ new = [count |-> new.count, facts |-> new.facts]
        /\ new.facts = log.facts \cup {f} /\ new.count = log.count
    BY <2>3
  <2> QED BY <2>1, <2>4 DEF Logs, new
<1> QED BY <1>1, <1>2

LEMMA LogsAgain == ASSUME NEW a, NEW b, NEW c, Logs(a, b), Logs(b, c) PROVE Logs(a, c)
BY DEF Logs

LEMMA LoadLogs == ASSUME LiveFits, NEW url, NEW by, Load(url, by) PROVE Logs(live, live')
<1> DEFINE Served(log, u) == Answered(Heard(log, DocumentRequest(u), by), DocumentRequest(u), by)
           landed == Pages[url].lands
           one == Served(live, url)
<1>1. live' = one \/ live' = Served(one, landed)  BY DEF Load
<1>2. ASSUME NEW log, log = [count |-> log.count, facts |-> log.facts], NEW u
      PROVE  Logs(log, Served(log, u))
  <2> DEFINE mid == Heard(log, DocumentRequest(u), by)
  <2>1. Logs(log, mid)  BY <1>2, HeardLogs
  <2> HIDE DEF mid
  <2>2. mid = [count |-> mid.count, facts |-> mid.facts]  BY <2>1 DEF Logs
  <2>3. Logs(mid, Answered(mid, DocumentRequest(u), by))  BY <2>2, AnsweredLogs
  <2> QED BY <2>1, <2>3, LogsAgain DEF mid
<1> HIDE DEF Served
<1>3. Logs(live, one)  BY <1>2 DEF LiveFits
<1>4. one = [count |-> one.count, facts |-> one.facts]  BY <1>3 DEF Logs
<1>5. Logs(one, Served(one, landed))
  <2> HIDE DEF one
  <2> QED BY <1>2, <1>4
<1>6. Logs(live, Served(one, landed))  BY <1>3, <1>5, LogsAgain
<1> QED BY <1>1, <1>3, <1>6

\* The mutation that Record writes down.
Recorded == MutationOf(Interaction(control).id, Pages[document].look, document)

\* The log is forgotten, or added to by its handlers or by the explorer.
Grows ==
  /\ live.count \in 0 .. MaxNetwork => live'.count \in 0 .. MaxNetwork
  /\ \/ live'.facts = {}
     \/ /\ live.facts \subseteq live'.facts
        /\ \A f \in live'.facts \ live.facts :
             Network(f) \/ Noted(f) \/ (Record /\ f = Recorded)

LEMMA LiveGrows == ASSUME LiveFits, Next PROVE Grows
<1>1. ASSUME Logs(live, live') PROVE Grows  BY <1>1 DEF Logs, Grows
<1>2. ASSUME live' = live PROVE Grows  BY <1>2 DEF Grows
<1>3. ASSUME live' = [count |-> 0, facts |-> {}] PROVE Grows
  <2>1. MaxNetwork \in Nat  BY BudgetAssumption
  <2>2. live'.facts = {} /\ live'.count = 0  BY <1>3
  <2> QED BY <2>1, <2>2 DEF Grows
<1>4. ASSUME NEW new, live' = [live EXCEPT !.facts = live.facts \cup new],
             \A f \in new : Noted(f) \/ (Record /\ f = Recorded)
      PROVE  Grows
  <2>1. live' = [count |-> live.count, facts |-> live.facts \cup new]  BY <1>4 DEF LiveFits
  <2>2. live'.count = live.count /\ live'.facts = live.facts \cup new  BY <2>1
  <2> QED BY <1>4, <2>2 DEF Grows
<1>5. CASE Goto
  <2>1. Load(current.url, active)  BY <1>5 DEF Goto
  <2> QED BY <1>1, <2>1, LoadLogs
<1>6. CASE Click
  <2>1. live' = live \/ \E url : Load(url, active)  BY <1>6 DEF Click
  <2> QED BY <1>1, <1>2, <2>1, LoadLogs
<1>7. CASE Send
  <2>1. PICK q : live' = Heard(live, q, active)  BY <1>7 DEF Send
  <2>2. Logs(live, live')  BY <2>1, HeardLogs DEF LiveFits
  <2> QED BY <1>1, <2>2
<1>8. CASE Answer
  <2>1. PICK q : live' = Answered(live, q, active)  BY <1>8 DEF Answer
  <2>2. Logs(live, live')  BY <2>1, AnsweredLogs DEF LiveFits
  <2> QED BY <1>1, <2>2
<1>9. CASE Observe
  <2> DEFINE new == {RouteOf(document, Pages[document].look)} \cup {ControlFact(i) : i \in DOMAIN Shown}
  <2>1. live' = live \/ live' = [live EXCEPT !.facts = live.facts \cup new]
    <3>1. \/ live' = live
          \/ live' = [live EXCEPT !.facts = live.facts
                        \cup {Fact("route", State(document), [route |-> document])}
                        \cup {ControlFact(i) : i \in DOMAIN Shown}]
      BY <1>9 DEF Observe
    <3>2. Fact("route", State(document), [route |-> document]) = RouteOf(document, Pages[document].look)
      BY Zenon DEF RouteOf, State
    <3> DEFINE r == RouteOf(document, Pages[document].look)
               C == {ControlFact(i) : i \in DOMAIN Shown}
    <3>3. live' = live \/ live' = [live EXCEPT !.facts = live.facts \cup {r} \cup C]
      BY <3>1, <3>2, Zenon
    <3> HIDE DEF r, C
    <3>4. live.facts \cup {r} \cup C = live.facts \cup ({r} \cup C)  OBVIOUS
    <3> QED BY <3>3, <3>4, Zenon DEF r, C
  <2>2. \A f \in new : Noted(f) \/ (Record /\ f = Recorded)  BY HereShown DEF Noted
  <2> HIDE DEF new
  <2> QED BY <1>2, <1>4, <2>1, <2>2
<1>10. CASE Prepare
  <2> DEFINE new == {Interaction(control)}
  <2>1. live' = [live EXCEPT !.facts = live.facts \cup new]  BY <1>10 DEF Prepare
  <2>2. \A f \in new : Noted(f) \/ (Record /\ f = Recorded)  BY HereShown DEF Noted
  <2> HIDE DEF new
  <2> QED BY <1>4, <2>1, <2>2
<1>11. CASE Record
  <2> DEFINE i == Interaction(control).id
             c == ControlFact(control).id
             new == {Recorded} \cup Correlated(i, c)
  <2>1. live' = [live EXCEPT !.facts = live.facts \cup new]
    <3>1. live' = [live EXCEPT !.facts = live.facts
                     \cup {Fact("ui_mutation", <<i, Pages[document].look>>, [route |-> document, by |-> i])}
                     \cup Correlated(i, c)]
      BY <1>11, Zenon DEF Record, Correlated, Caused
    <3>2. Fact("ui_mutation", <<i, Pages[document].look>>, [route |-> document, by |-> i]) = Recorded
      BY Zenon DEF Recorded, MutationOf
    <3> DEFINE D == Correlated(i, c)
    <3>3. live' = [live EXCEPT !.facts = live.facts \cup {Recorded} \cup D]  BY <3>1, <3>2, Zenon
    <3> HIDE DEF D
    <3>4. live.facts \cup {Recorded} \cup D = live.facts \cup ({Recorded} \cup D)  OBVIOUS
    <3> QED BY <3>3, <3>4, Zenon DEF D
  <2>2. \A f \in Correlated(i, c) : Noted(f)
    <3> SUFFICES ASSUME NEW f \in Correlated(i, c) PROVE Noted(f)  OBVIOUS
    <3>1. c = ControlAt(Here, control).id  BY HereShown
    <3> HIDE DEF i, c
    <3>2. PICK e : f = Fact("correlation", <<c, e.id, i>>,
                            [controlFact |-> c, endpointFact |-> e.id, route |-> Here])
      BY DEF Correlated
    <3>3. f = CorrelationAt(Here, control, e.id, i)  BY <3>1, <3>2, Zenon DEF CorrelationAt
    <3> QED BY <3>3 DEF Noted
  <2>3. \A f \in new : Noted(f) \/ (Record /\ f = Recorded)  BY <1>11, <2>2
  <2> HIDE DEF new
  <2> QED BY <1>4, <2>1, <2>3
<1>12. CASE Single \/ OverBudget \/ BrowserFails
  <2>1. live' = live \/ live' = [count |-> 0, facts |-> {}]
    BY <1>12 DEF Single, OverBudget, BrowserFails, Throw, browser
  <2> QED BY <1>2, <1>3, <2>1
<1>13. CASE Launch \/ Finish \/ Dequeue \/ Settle \/ Pick \/ ClickFails \/ Follow
  <2>1. live' = live
    BY <1>13 DEF Launch, Finish, Return, Dequeue, Settle, Pick, ClickFails, Follow, browser
  <2> QED BY <1>2, <2>1
<1>14. CASE Walk \/ ReadFile \/ EndRead \/ Close \/ Correlate \/ GroupNext \/ Timeout
  <2>1. live' = live
    BY <1>14 DEF Walk, ReadFile, EndRead, Close, Correlate, GroupNext, Timeout, browser
  <2> QED BY <1>2, <2>1
<1> QED BY <1>5, <1>6, <1>7, <1>8, <1>9, <1>10, <1>11, <1>12, <1>13, <1>14 DEF Next, Explore

--------------------------------------------------------------------------------
(***************************************************************************)
(* No interaction is recorded twice: the state of a page is new when its   *)
(* controls begin to be tried, and each is tried once.                     *)
(***************************************************************************)
PageFits ==
  /\ control \in Nat
  /\ pc \in {"settle", "observe"} => document = Here
  /\ pc \in Trying \cup {"pick"} => State(Here) \in states

\* The interaction that a mutation is the outcome of has had its turn.
Tried(f) ==
  \E h : \E i \in Nat :
    /\ f.by = InteractionAt(h, i).id
    /\ State(h) \in states
    /\ pc \in Trying \cup {"pick"} /\ h = Here => i < control

IdsFit ==
  /\ Unique(facts) /\ Unique(live.facts)
  /\ \A f \in live.facts : Network(f) \/ Noted(f) \/ Mutation(f)
  /\ \A f \in live.facts : Mutation(f) => Tried(f)

\* Where the controls are tried next: on the page at hand, further on, or on one
\* that was not seen before.
Onward ==
  /\ states \subseteq states'
  /\ pc' \in Trying \cup {"pick"} =>
       /\ current' = current
       /\ \/ State(Here) \notin states
          \/ pc \in Trying \cup {"pick"} /\ control' \in {control, control + 1}

LEMMA StateKept ==
  ASSUME setting' = setting
  PROVE  /\ \A h : State(h)' = State(h)
         /\ \A h, i : InteractionAt(h, i)' = InteractionAt(h, i)
         /\ \A f : Noted(f)' <=> Noted(f)
<1>1. Pages' = Pages  BY DEF Pages
<1>2. \A h : State(h)' = State(h)  BY <1>1 DEF State
<1>3. \A h : ShownAt(h)' = ShownAt(h)  BY <1>1, Zenon DEF ShownAt
<1>4. \A h, i : ControlAt(h, i)' = ControlAt(h, i)  BY <1>3, Zenon DEF ControlAt
<1>5. \A h, i : InteractionAt(h, i)' = InteractionAt(h, i)  BY <1>1, <1>4, Zenon DEF InteractionAt
<1>6. \A h, i, e, by : CorrelationAt(h, i, e, by)' = CorrelationAt(h, i, e, by)
  BY <1>4, Zenon DEF CorrelationAt
<1>7. \A f : Noted(f)' <=> Noted(f)  BY <1>4, <1>5, <1>6, Zenon DEF Noted
<1> QED BY <1>2, <1>5, <1>7

LEMMA PageKept == ASSUME LiveFits, PageFits, Next PROVE PageFits' /\ Onward
<1> USE DEF Trying
<1>1. setting' = setting  BY SettingKept
<1>2. \A h : State(h)' = State(h)  BY <1>1, StateKept
<1>3. ASSUME current' = current PROVE Here' = Here /\ State(Here)' = State(Here)
  BY <1>1, <1>2, <1>3, SamePage
<1>4. ASSUME control' \in {control, control + 1}, states' = states, current' = current,
             pc' \in {"settle", "observe"} => pc \in {"settle", "observe"} /\ document' = document,
             pc' \in Trying \cup {"pick"} => pc \in Trying \cup {"pick"}
      PROVE  PageFits' /\ Onward
  BY <1>3, <1>4 DEF PageFits, Onward
<1>5. ASSUME control' = control, states' = states, pc' \notin Trying \cup {"pick", "settle", "observe"}
      PROVE  PageFits' /\ Onward
  BY <1>5 DEF PageFits, Onward
<1>6. CASE Goto
  <2>1. control' = control /\ states' = states /\ current' = current
    BY <1>6 DEF Goto, explorer
  <2>2. \/ pc = "revisit" /\ pc' = "resettle"
        \/ pc = "goto" /\ pc' = "single"
        \/ pc = "goto" /\ pc' = "settle"
    BY <1>6 DEF Goto
  <2>3. CASE pc' = "settle"
    <3>1. document' = Here  BY <1>6, LoadAdds DEF Goto, Here
    <3> QED BY <1>3, <2>1, <2>3, <3>1 DEF PageFits, Onward
  <2> QED BY <1>4, <1>5, <2>1, <2>2, <2>3
<1>7. CASE Observe
  <2>1. current' = current /\ document' = document /\ document = Here
    BY <1>7 DEF Observe, PageFits
  <2>2. CASE State(document) \in states
    <3>1. control' = control /\ states' = states /\ pc' = "top"  BY <1>7, <2>2 DEF Observe
    <3> QED BY <1>5, <3>1
  <2>3. CASE State(document) \notin states
    <3>1. control' = 1 /\ states' = states \cup {State(document)} /\ pc' = "pick"
      BY <1>7, <2>3 DEF Observe
    <3> QED BY <1>3, <2>1, <2>3, <3>1 DEF PageFits, Onward
  <2> QED BY <2>2, <2>3
<1>8. CASE Settle \/ Pick \/ Prepare \/ Click \/ ClickFails \/ Record
  <2>1. control' \in {control, control + 1} /\ states' = states /\ current' = current
    BY <1>8, Zenon DEF Settle, Pick, Prepare, Click, ClickFails, Record, explorer
  <2>2. /\ pc' \in {"settle", "observe"} => pc \in {"settle", "observe"} /\ document' = document
        /\ pc' \in Trying \cup {"pick"} => pc \in Trying \cup {"pick"}
    BY <1>8 DEF Settle, Pick, Prepare, Click, ClickFails, Record, browser
  <2> QED BY <1>4, <2>1, <2>2
<1>9. CASE Send \/ Answer \/ Timeout
  <2>1. control' = control /\ states' = states /\ current' = current /\ pc' = pc /\ document' = document
    BY <1>9 DEF Send, Answer, Timeout, explorer, browser
  <2> QED BY <1>4, <2>1
<1>10. CASE Launch \/ Finish \/ Dequeue \/ Follow \/ Single
  BY <1>5, <1>10 DEF Launch, Finish, Return, Dequeue, Skip, Visit, Follow, Single, Throw, explorer
<1>11. CASE Walk \/ ReadFile \/ EndRead \/ Close \/ Correlate \/ GroupNext \/ OverBudget \/ BrowserFails
  BY <1>5, <1>11 DEF Walk, ReadFile, EndRead, Close, Correlate, GroupNext, OverBudget, BrowserFails,
                     Throw, explorer
<1> QED BY <1>6, <1>7, <1>8, <1>9, <1>10, <1>11 DEF Next, Explore

LEMMA StillTried ==
  ASSUME PageFits, PageFits', Onward, setting' = setting, NEW f, Tried(f) PROVE Tried(f)'
<1>1. PICK h : \E i \in Nat :
        /\ f.by = InteractionAt(h, i).id
        /\ State(h) \in states
        /\ pc \in Trying \cup {"pick"} /\ h = Here => i < control
  BY Zenon DEF Tried
<1>2. PICK i \in Nat :
        /\ f.by = InteractionAt(h, i).id
        /\ State(h) \in states
        /\ pc \in Trying \cup {"pick"} /\ h = Here => i < control
  BY <1>1
<1>3. f.by = InteractionAt(h, i)'.id /\ State(h)' \in states'
  BY <1>2, StateKept DEF Onward
<1>4. ASSUME pc' \in Trying \cup {"pick"}, h = Here' PROVE i < control'
  <2>1. h = Here  BY <1>4, SamePage DEF Onward
  <2>2. pc \in Trying \cup {"pick"} /\ control' \in {control, control + 1}
    BY <1>2, <1>4, <2>1 DEF Onward
  <2>3. i < control  BY <1>2, <2>1, <2>2
  <2> QED BY <2>2, <2>3 DEF PageFits
<1> QED BY <1>3, <1>4, Zenon DEF Tried

\* Two mutations with one id come from one interaction.
LEMMA MutationBy ==
  ASSUME NEW f, NEW g, Mutation(f), Mutation(g), f.id = g.id PROVE f.by = g.by
<1>1. PICK a, look, r : f = MutationOf(a, look, r)  BY DEF Mutation
<1>2. PICK b, view, s : g = MutationOf(b, view, s)  BY DEF Mutation
<1>3. f.by = a /\ f.id[2] = <<a, look>>  BY <1>1, MutationOfIs
<1>4. g.by = b /\ g.id[2] = <<b, view>>  BY <1>2, MutationOfIs
<1>5. <<a, look>> = <<b, view>>  BY <1>3, <1>4
<1>6. a = b  BY <1>5
<1> QED BY <1>3, <1>4, <1>6

LEMMA LiveIdsKept ==
  ASSUME LiveFits, PageFits, IdsFit, Next
  PROVE  /\ Unique(live'.facts)
         /\ \A f \in live'.facts : Network(f) \/ Noted(f)' \/ Mutation(f)
         /\ \A f \in live'.facts : Mutation(f) => Tried(f)'
<1>1. PageFits' /\ Onward  BY PageKept
<1>2. setting' = setting  BY SettingKept
<1>3. CASE live'.facts = {}  BY <1>3 DEF Unique
<1>4. CASE live'.facts # {}
  <2>1. /\ live.facts \subseteq live'.facts
        /\ \A f \in live'.facts \ live.facts :
             Network(f) \/ Noted(f) \/ (Record /\ f = Recorded)
    BY <1>4, LiveGrows DEF Grows
  <2>2. Mutation(Recorded)  BY DEF Mutation, Recorded
  <2>3. \A f \in live'.facts : Network(f) \/ Noted(f) \/ Mutation(f)
    BY <2>1, <2>2 DEF IdsFit
  <2>4. ASSUME NEW f \in live'.facts, Mutation(f), f \notin live.facts PROVE Record /\ f = Recorded
    BY <2>1, <2>4, MutationTyped, NetworkTyped, NotedTyped
  <2>5. ASSUME Record
        PROVE  /\ Recorded.by = InteractionAt(Here, control).id /\ State(Here) \in states
               /\ control \in Nat /\ control' = control + 1 /\ current' = current
               /\ pc = "post"
    <3>1. Recorded.by = InteractionAt(Here, control).id  BY HereShown, MutationOfIs DEF Recorded
    <3>2. pc = "post" /\ control' = control + 1 /\ current' = current
      BY <2>5, Zenon DEF Record
    <3> QED BY <3>1, <3>2 DEF PageFits, Trying
  <2>6. ASSUME NEW f \in live.facts, Mutation(f), Record, f.by = Recorded.by PROVE FALSE
    <3>1. PICK h : \E i \in Nat :
            /\ f.by = InteractionAt(h, i).id
            /\ pc \in Trying \cup {"pick"} /\ h = Here => i < control
      BY <2>6, Zenon DEF IdsFit, Tried
    <3>2. PICK i \in Nat :
            /\ f.by = InteractionAt(h, i).id
            /\ pc \in Trying \cup {"pick"} /\ h = Here => i < control
      BY <3>1
    <3>3. h = Here /\ i = control  BY <2>5, <2>6, <3>2, SameInteraction
    <3> QED BY <2>5, <2>6, <3>2, <3>3 DEF Trying
  <2>7. ASSUME NEW f \in live'.facts, NEW g \in live'.facts, Mutation(f), Mutation(g), f.id = g.id
        PROVE  f = g
    <3>1. f.by = g.by  BY <2>7, MutationBy
    <3>2. CASE f \in live.facts /\ g \in live.facts  BY <2>7, <3>2 DEF IdsFit, Unique
    <3>3. CASE f \in live.facts /\ g \notin live.facts  BY <2>4, <2>6, <2>7, <3>1, <3>3
    <3>4. CASE f \notin live.facts /\ g \in live.facts  BY <2>4, <2>6, <2>7, <3>1, <3>4
    <3>5. CASE f \notin live.facts /\ g \notin live.facts  BY <2>4, <2>7, <3>5
    <3> QED BY <3>2, <3>3, <3>4, <3>5
  <2>8. ASSUME NEW f \in live'.facts, Mutation(f) PROVE Tried(f)'
    <3>1. CASE f \in live.facts  BY <1>1, <1>2, <2>8, <3>1, StillTried DEF IdsFit
    <3>2. CASE f \notin live.facts
      <4>1. Record /\ f = Recorded  BY <2>4, <2>8, <3>2
      <4>0. PICK h, i : h = Here /\ i = control  OBVIOUS
      <4>2. /\ f.by = InteractionAt(h, i).id /\ State(h) \in states /\ Here' = h
            /\ i \in Nat /\ control' = i + 1
        BY <1>2, <2>5, <4>0, <4>1, SamePage
      <4>3. f.by = InteractionAt(h, i)'.id /\ State(h)' \in states'
        BY <1>1, <1>2, <4>2, StateKept DEF Onward
      <4>4. i < control'  BY <4>2
      <4>5. pc' \in Trying \cup {"pick"} /\ h = Here' => i < control'  BY <4>4
      <4> QED BY <4>2, <4>3, <4>5, Zenon DEF Tried
    <3> QED BY <3>1, <3>2
  <2> QED BY <1>2, <2>3, <2>7, <2>8, LiveUnique, StateKept
<1> QED BY <1>3, <1>4

LEMMA SearchesUnique == ASSUME Unique(facts) PROVE Unique(Searches)
<1> SUFFICES ASSUME NEW f \in Searches, NEW g \in Searches, f.id = g.id PROVE f = g
  BY DEF Unique
<1>1. ASSUME NEW c, NEW e PROVE SearchLink(c, e).id = <<"correlation", <<c.id, e.id>>>>
  <2> DEFINE fields == [controlFact |-> c.id, endpointFact |-> e.id, feature |-> "todo.search",
                        route |-> c.route]
             id == <<c.id, e.id>>
  <2>1. SearchLink(c, e) = Fact("correlation", id, fields)  BY Zenon DEF SearchLink
  <2>2. "type" \notin DOMAIN fields /\ "id" \notin DOMAIN fields  OBVIOUS
  <2> HIDE DEF id, fields
  <2>3. SearchLink(c, e).id = <<"correlation", id>>  BY <2>1, <2>2, FactIs
  <2> QED BY <2>3 DEF id
<1>2. PICK c \in facts, e \in facts : f = SearchLink(c, e)  BY DEF Searches
<1>3. PICK d \in facts, o \in facts : g = SearchLink(d, o)  BY DEF Searches
<1>4. f.id[2] = <<c.id, e.id>> /\ g.id[2] = <<d.id, o.id>>  BY <1>1, <1>2, <1>3
<1>5. <<c.id, e.id>> = <<d.id, o.id>>  BY <1>4
<1>6. c.id = d.id /\ e.id = o.id  BY <1>5
<1>7. c = d /\ e = o  BY <1>6 DEF Unique
<1> QED BY <1>2, <1>3, <1>7

LEMMA FactIdsKept ==
  ASSUME Stands, FilesKept, IdsFit, Next PROVE Unique(facts')
<1>1. Unique(facts) /\ Unique(live.facts)  BY DEF IdsFit
<1>2. CASE ReadFile
  <2> DEFINE others == ControlsOf(File) \cup SchemaFields(File) \cup FallbackFields(File)
  <2>1. PICK kept \in SUBSET ReadBounded(EndpointsOf(File)) :
          facts' = Put(facts, kept \cup ReadBounded(others))
    BY <1>2 DEF ReadFile
  <2>2. kept \in SUBSET EndpointsOf(File) /\ ReadBounded(others) \in SUBSET others
    BY <2>1 DEF ReadBounded
  <2> HIDE DEF others
  <2>3. File \in ToSet(Project)
    <3>1. read + 1 \in DOMAIN Project  BY <1>2, ProjectIs DEF ReadFile, FilesKept
    <3> QED BY <3>1 DEF File, ToSet
  <2>4. Named(File)  BY <2>3, FilesAssumption, Zenon DEF Stands, Project, Named
  <2>5. Unique(kept \cup ReadBounded(others))  BY <2>2, <2>4, FileUnique DEF others
  <2> QED BY <1>1, <2>1, <2>5, UniquePut
<1>3. CASE Finish
  BY <1>1, <1>3, UniquePut DEF Finish, Return
<1>4. CASE Single
  <2>1. CASE facts' = facts  BY <1>1, <2>1
  <2>2. CASE facts' # facts
    <3> DEFINE new == live.facts \cup {ControlFact(i) : i \in DOMAIN Shown}
    <3>1. facts' = Put(facts, new)  BY <1>4, <2>2 DEF Single, Throw, graphVars
    <3>2. \A f \in new : f \in live.facts \/ Noted(f)  BY HereShown DEF Noted
    <3> HIDE DEF new
    <3>3. \A f \in new : Network(f) \/ Noted(f) \/ Mutation(f)  BY <3>2 DEF IdsFit
    <3>4. \A f \in new : Mutation(f) => f \in live.facts  BY <3>2, MutationTyped, NotedTyped
    <3>5. \A f, g \in new : Mutation(f) /\ Mutation(g) /\ f.id = g.id => f = g
      BY <1>1, <3>4 DEF Unique
    <3>6. Unique(new)  BY <3>3, <3>5, LiveUnique
    <3> QED BY <1>1, <3>1, <3>6, UniquePut
  <2> QED BY <2>1, <2>2
<1>5. CASE Correlate
  <2>1. facts' = Put(facts, Searches)  BY <1>5 DEF Correlate, StartGraph
  <2> QED BY <1>1, <2>1, SearchesUnique, UniquePut
<1>6. CASE Launch \/ Dequeue \/ Goto \/ Settle \/ Observe \/ Pick \/ Prepare \/ Click \/ ClickFails
             \/ Record \/ Follow
  BY <1>1, <1>6 DEF Launch, Dequeue, Goto, Settle, Observe, Pick, Prepare, Click, ClickFails,
                    Record, Follow, graphVars
<1>7. CASE Walk \/ EndRead \/ Close \/ GroupNext
  BY <1>1, <1>7 DEF Walk, EndRead, Close, GroupNext, Group, graphVars
<1>8. CASE Send \/ Answer \/ Timeout \/ OverBudget \/ BrowserFails
  BY <1>1, <1>8 DEF Send, Answer, Timeout, OverBudget, BrowserFails, Throw, graphVars
<1> QED BY <1>2, <1>3, <1>4, <1>5, <1>6, <1>7, <1>8 DEF Next, Explore

LEMMA IdsKept == ASSUME Stands, LiveFits, FilesKept, PageFits, IdsFit, Next PROVE IdsFit'
<1>1. \A f : (Network(f)' <=> Network(f)) /\ (Mutation(f)' <=> Mutation(f))
  BY DEF Network, Mutation
<1>2. Unique(facts)' /\ Unique(live.facts)'
  BY FactIdsKept, LiveIdsKept DEF Unique
<1> QED BY <1>1, <1>2, LiveIdsKept, Zenon DEF IdsFit

LEMMA IdsStay == ASSUME PageFits, IdsFit, UNCHANGED vars PROVE PageFits' /\ IdsFit'
<1>1. /\ setting' = setting /\ pc' = pc /\ control' = control /\ states' = states
      /\ current' = current /\ document' = document /\ facts' = facts /\ live' = live
  BY DEF vars, explorer, browser, graphVars
<1>2. Here' = Here /\ \A h : State(h)' = State(h)  BY <1>1, SamePage, StateKept
<1>3. PageFits'  BY <1>1, <1>2 DEF PageFits
<1>4. \A f : (Network(f)' <=> Network(f)) /\ (Mutation(f)' <=> Mutation(f))
  BY DEF Network, Mutation
<1>5. \A f : (Noted(f)' <=> Noted(f)) /\ (Tried(f)' <=> Tried(f))
  BY <1>1, <1>2, StateKept, Zenon DEF Tried
<1>6. Unique(facts)' /\ Unique(live.facts)'  BY <1>1 DEF IdsFit, Unique
<1> QED BY <1>1, <1>3, <1>4, <1>5, <1>6 DEF IdsFit

LEMMA IdsInitially == ASSUME Init PROVE PageFits /\ IdsFit
BY DEF Init, PageFits, IdsFit, Unique, Trying

--------------------------------------------------------------------------------
(***************************************************************************)
(* The budgets: routes, depth, observations and interactions.              *)
(***************************************************************************)
Shallow(q) == \A item \in ToSet(q) : item.depth \in 0 .. MaxDepth
DepthsFit == current.depth \in 0 .. MaxDepth /\ Shallow(queue)

RoutesFit ==
  /\ IsFiniteSet(visited) /\ Cardinality(visited) <= MaxRoutes /\ visited \subseteq DOMAIN Pages
  /\ Cardinality(discovered) <= MaxRoutes

CountsFit ==
  /\ live.count \in 0 .. MaxNetwork
  /\ tried \in 0 .. setting.interactions
  /\ blockers \subseteq {"FILES", "DIRECTORIES", "STATIC", "ROUTES", "LIVE", "ERROR"}
  /\ open \subseteq {"browser", "context", "page"}
  /\ pc \notin {"graph", "built"} => ungrouped = {} /\ candidates = {}

LEMMA ShallowIs ==
  ASSUME NEW q, NEW S, q \in Seq(S), \A item \in S : item.depth \in 0 .. MaxDepth
  PROVE  Shallow(q)
<1>1. \A x \in ToSet(q) : x \in S  BY DEF ToSet
<1> QED BY <1>1 DEF Shallow

LEMMA DepthsKept == ASSUME Stands, PathsFit, DepthsFit, Next PROVE DepthsFit'
<1>0. MaxDepth \in Nat  BY BudgetAssumption
<1>1. queue \in Seq(ToSet(queue)) /\ \A item \in ToSet(queue) : item.depth \in 0 .. MaxDepth
  BY DEF PathsFit, Waiting, DepthsFit, Shallow
<1>2. ASSUME Shallow(queue'), current' = current PROVE DepthsFit'
  BY <1>2 DEF DepthsFit, Shallow
<1>3. ASSUME NEW url, NEW via, current.depth < MaxDepth
      PROVE  Child(url, via).depth \in 0 .. MaxDepth
  <2>1. Child(url, via).depth = current.depth + 1  BY DEF Child
  <2>2. current.depth \in Nat  BY DEF DepthsFit
  <2> QED BY <1>0, <1>3, <2>1, <2>2
<1>4. CASE Launch
  <2> DEFINE item == [url |-> setting.start, depth |-> 0, via |-> NoId]
  <2>1. item.depth \in 0 .. MaxDepth  BY <1>0
  <2>2. (queue' = queue \/ queue' = <<item>>) /\ current' = item  BY <1>4 DEF Launch
  <2> HIDE DEF item
  <2>3. Shallow(<<item>>)
    <3> DEFINE S == {item}
               q == <<item>>
    <3>1. q \in Seq(S) /\ \A x \in S : x.depth \in 0 .. MaxDepth  BY <2>1
    <3> HIDE DEF S, q
    <3>2. Shallow(q)  BY <3>1, ShallowIs
    <3> QED BY <3>2 DEF q
  <2> QED BY <2>1, <2>2, <2>3 DEF DepthsFit, Shallow
<1>5. CASE Dequeue
  <2>1. queue # <<>> /\ queue' = Tail(queue) /\ (current' = current \/ current' = Head(queue))
    BY <1>5 DEF Dequeue, Skip, Visit
  <2>2. Head(queue) \in ToSet(queue) /\ Tail(queue) \in Seq(ToSet(queue))
    BY <1>1, <2>1, HeadTailProperties
  <2>3. Shallow(queue')  BY <1>1, <2>1, <2>2, ShallowIs
  <2> QED BY <1>1, <2>1, <2>2, <2>3 DEF DepthsFit, Shallow
<1>6. CASE Record
  <2> DEFINE x == Child(document, Interaction(control).id)
  <2>1. /\ current' = current
        /\ queue' = queue \/ (queue' = Append(queue, x) /\ current.depth < MaxDepth)
    <3>1. /\ current' = current
          /\ queue' = IF document # Here /\ Worth(document) THEN Append(queue, x) ELSE queue
      BY <1>6, Zenon DEF Record
    <3> HIDE DEF x
    <3> QED BY <3>1 DEF Worth
  <2>2. ASSUME current.depth < MaxDepth PROVE Shallow(Append(queue, x))
    <3>1. x.depth \in 0 .. MaxDepth  BY <1>3, <2>2
    <3> HIDE DEF x
    <3> DEFINE S == ToSet(queue) \cup {x}
    <3>2. queue \in Seq(S) /\ x \in S /\ \A item \in S : item.depth \in 0 .. MaxDepth
      BY <1>1, <3>1
    <3> HIDE DEF S
    <3>3. Append(queue, x) \in Seq(S)  BY <3>2, AppendProperties
    <3> QED BY <3>2, <3>3, ShallowIs
  <2> HIDE DEF x
  <2> QED BY <1>2, <2>1, <2>2 DEF DepthsFit
<1>7. CASE Follow
  <2> DEFINE m == Cardinality(Links)
             e(k) == Child(Leads(Nth(Links, k)), NoId)
             more == [k \in 1 .. m |-> e(k)]
             S == ToSet(queue) \cup {e(k) : k \in 1 .. m}
  <2>1. queue' = queue \o more /\ current' = current /\ pc = "pick"  BY <1>7 DEF Follow
  <2>2. current.url \in DOMAIN Pages  BY <2>1 DEF PathsFit, Exploring, Awaiting
  <2>3. PICK n \in Nat : DOMAIN Shown = 1 .. n  BY <2>2, ShownAre DEF Stands
  <2>4. m \in Nat
    <3>1. Links \subseteq 1 .. n  BY <2>3 DEF Links
    <3>2. IsFiniteSet(1 .. n)  BY FS_Interval
    <3>3. IsFiniteSet(Links)  BY <3>1, <3>2, FS_Subset
    <3> QED BY <3>3, FS_CardinalityType
  <2>5. ASSUME NEW k \in 1 .. m PROVE e(k).depth \in 0 .. MaxDepth
    <3>1. Links # {}
      <4> SUFFICES ASSUME Links = {} PROVE FALSE  OBVIOUS
      <4>1. m = 0  BY FS_EmptySet
      <4> QED BY <4>1
    <3>2. current.depth < MaxDepth  BY <3>1 DEF Links, Worth
    <3> QED BY <1>3, <3>2
  <2> HIDE DEF m, e
  <2>6. more \in Seq(S)  BY <2>4
  <2>7. queue \in Seq(S) /\ \A item \in S : item.depth \in 0 .. MaxDepth  BY <1>1, <2>5
  <2> HIDE DEF S, more
  <2>8. Shallow(queue \o more)  BY <2>6, <2>7, ConcatProperties, ShallowIs
  <2> QED BY <1>2, <2>1, <2>8
<1>8. ASSUME queue' = queue, current' = current PROVE DepthsFit'
  BY <1>8 DEF DepthsFit, Shallow
<1>9. CASE Finish \/ Goto \/ Settle \/ Observe \/ Pick \/ Prepare \/ Click \/ ClickFails \/ Single
  BY <1>8, <1>9 DEF Finish, Return, Goto, Settle, Observe, Pick, Prepare, Click, ClickFails, Single, Throw, explorer
<1>10. CASE Walk \/ ReadFile \/ EndRead \/ Close \/ Correlate \/ GroupNext
  BY <1>8, <1>10 DEF Walk, ReadFile, EndRead, Close, Correlate, GroupNext, explorer
<1>11. CASE Send \/ Answer \/ Timeout \/ OverBudget \/ BrowserFails
  BY <1>8, <1>11 DEF Send, Answer, Timeout, OverBudget, BrowserFails, Throw, explorer
<1> QED BY <1>4, <1>5, <1>6, <1>7, <1>9, <1>10, <1>11 DEF Next, Explore

\* The routes that a file opens are those that are left.
LEMMA OpenedFit ==
  ASSUME MaxRoutes \in Nat, IsFiniteSet(discovered), Cardinality(discovered) <= MaxRoutes,
         NEW fs, NEW kept, IsFiniteSet(kept), WithinRoutes(fs, kept)
  PROVE  Cardinality(discovered \cup {RouteKey(f) : f \in kept}) <= MaxRoutes
<1> DEFINE opened == {RouteKey(f) : f \in kept} \ discovered
           n == Cardinality(discovered)
           k == Cardinality(opened)
<1>1. k <= MaxRoutes - n  BY DEF WithinRoutes
<1>2. discovered \cup {RouteKey(f) : f \in kept} = discovered \cup opened  OBVIOUS
<1>3. discovered \cap opened = {}  OBVIOUS
<1>4. IsFiniteSet(opened)
  <2>1. IsFiniteSet({RouteKey(f) : f \in kept})  BY KeysFinite
  <2> QED BY <2>1, FS_Subset
<1> HIDE DEF opened
<1>5. Cardinality(discovered \cup opened) = n + k - Cardinality(discovered \cap opened)
  BY <1>4, FS_Union
<1>6. Cardinality(discovered \cap opened) = 0  BY <1>3, FS_EmptySet
<1>7. n \in Nat /\ k \in Nat  BY <1>4, FS_CardinalityType
<1> HIDE DEF n, k
<1>8. Cardinality(discovered \cup opened) = n + k  BY <1>5, <1>6, <1>7
<1> QED BY <1>1, <1>2, <1>7, <1>8

LEMMA RoomLeft ==
  ASSUME MaxRoutes \in Nat, IsFiniteSet(discovered), Cardinality(discovered) <= MaxRoutes,
         NEW url, ~NoRouteLeft(url)
  PROVE  Cardinality(discovered \cup {PageKey(url)}) <= MaxRoutes
<1> DEFINE n == Cardinality(discovered)
<1>1. n \in Nat  BY FS_CardinalityType
<1>2. PageKey(url) \in discovered \/ n < MaxRoutes
  <2>1. PageKey(url) \in discovered \/ ~(n >= MaxRoutes)  BY DEF NoRouteLeft
  <2> HIDE DEF n
  <2> QED BY <1>1, <2>1
<1>3. Cardinality(discovered \cup {PageKey(url)}) = IF PageKey(url) \in discovered THEN n ELSE n + 1
  BY FS_AddElement
<1> HIDE DEF n
<1>4. n <= MaxRoutes  BY DEF n
<1> QED BY <1>1, <1>2, <1>3, <1>4

LEMMA RoutesKept ==
  ASSUME Stands, FilesKept, PathsFit, RoutesFit, Next PROVE RoutesFit'
<1>1. setting' = setting /\ Pages' = Pages /\ MaxRoutes' = MaxRoutes
  BY SettingKept, ProjectKept DEF Pages
<1>2. MaxRoutes \in Nat /\ IsFiniteSet(discovered)  BY ProjectIs DEF FilesKept
<1>3. ASSUME visited' = visited, Cardinality(discovered') <= MaxRoutes PROVE RoutesFit'
  BY <1>1, <1>3 DEF RoutesFit
<1>4. ASSUME visited' = visited, discovered' = discovered PROVE RoutesFit'
  BY <1>1, <1>4 DEF RoutesFit
<1>5. CASE ReadFile
  <2>1. visited' = visited  BY <1>5 DEF ReadFile, explorer
  <2>2. PICK kept \in SUBSET ReadBounded(EndpointsOf(File)) :
          /\ WithinRoutes(ReadBounded(EndpointsOf(File)), kept)
          /\ discovered' = discovered \cup {RouteKey(f) : f \in kept}
    BY <1>5 DEF ReadFile
  <2>3. IsFiniteSet(EndpointsOf(File))
    <3>1. read + 1 \in DOMAIN Project  BY <1>5, ProjectIs DEF ReadFile, FilesKept
    <3> QED BY <3>1, ProjectIs DEF File
  <2>4. ReadBounded(EndpointsOf(File)) \subseteq EndpointsOf(File)  BY DEF ReadBounded
  <2>5. IsFiniteSet(kept)
    <3>1. kept \subseteq EndpointsOf(File)  BY <2>4
    <3> QED BY <2>3, <3>1, FS_Subset
  <2>6. Cardinality(discovered') <= MaxRoutes  BY <1>2, <2>2, <2>5, OpenedFit DEF RoutesFit
  <2> QED BY <1>3, <2>1, <2>6
<1>6. CASE Dequeue
  <2>1. /\ queue # <<>> /\ Cardinality(visited) < MaxRoutes
        /\ \/ visited' = visited /\ discovered' = discovered
           \/ /\ visited' = visited \cup {Head(queue).url}
              /\ discovered' = discovered \cup {PageKey(Head(queue).url)}
              /\ ~NoRouteLeft(Head(queue).url)
    BY <1>6 DEF Dequeue, Skip, Visit
  <2>2. CASE visited' = visited /\ discovered' = discovered  BY <1>4, <2>2
  <2>3. CASE /\ visited' = visited \cup {Head(queue).url}
             /\ discovered' = discovered \cup {PageKey(Head(queue).url)}
             /\ ~NoRouteLeft(Head(queue).url)
    <3> DEFINE url == Head(queue).url
               n == Cardinality(visited)
    <3>1. url \in DOMAIN Pages
      <4>1. queue \in Seq(ToSet(queue)) /\ \A item \in ToSet(queue) : item.url \in DOMAIN Pages
        BY DEF PathsFit, Waiting
      <4>2. Head(queue) \in ToSet(queue)  BY <2>1, <4>1, HeadTailProperties
      <4> QED BY <4>1, <4>2
    <3>2. Cardinality(discovered') <= MaxRoutes  BY <1>2, <2>3, RoomLeft DEF RoutesFit
    <3>3. n \in Nat /\ IsFiniteSet(visited)  BY FS_CardinalityType DEF RoutesFit
    <3>4. n < MaxRoutes  BY <2>1
    <3>5. IsFiniteSet(visited') /\ Cardinality(visited') \in {n, n + 1}
      BY <2>3, <3>3, FS_AddElement
    <3> HIDE DEF n
    <3>6. Cardinality(visited') <= MaxRoutes  BY <1>2, <3>3, <3>4, <3>5
    <3>7. visited' \subseteq DOMAIN Pages  BY <2>3, <3>1 DEF RoutesFit
    <3> QED BY <1>1, <3>2, <3>5, <3>6, <3>7 DEF RoutesFit
  <2> QED BY <2>1, <2>2, <2>3
<1>7. CASE Single
  <2>1. visited' = visited  BY <1>7 DEF Single, Throw, explorer
  <2>2. discovered' = discovered \/ (discovered' = discovered \cup {PageKey(document)} /\ ~NoRouteLeft(document))
    BY <1>7 DEF Single, Throw
  <2>3. Cardinality(discovered') <= MaxRoutes  BY <1>2, <2>2, RoomLeft DEF RoutesFit
  <2> QED BY <1>3, <2>1, <2>3
<1>8. CASE Launch \/ Finish \/ Goto \/ Settle \/ Observe \/ Pick \/ Prepare \/ Click \/ ClickFails
             \/ Record \/ Follow
  BY <1>4, <1>8 DEF Launch, Finish, Goto, Settle, Observe, Pick, Prepare, Click, ClickFails,
                    Record, Follow, explorer
<1>9. CASE Walk \/ EndRead \/ Close \/ Correlate \/ GroupNext
  BY <1>4, <1>9 DEF Walk, EndRead, Close, Correlate, GroupNext, explorer
<1>10. CASE Send \/ Answer \/ Timeout \/ OverBudget \/ BrowserFails
  BY <1>4, <1>10 DEF Send, Answer, Timeout, OverBudget, BrowserFails, Throw, explorer
<1> QED BY <1>5, <1>6, <1>7, <1>8, <1>9, <1>10 DEF Next, Explore

LEMMA CountsKept ==
  ASSUME Stands, LiveFits, CountsFit, Next PROVE CountsFit'
<1>1. setting' = setting /\ setting.interactions \in Nat
  BY SettingKept, PagesAssumption DEF Stands
<1>2. live'.count \in 0 .. MaxNetwork  BY LiveGrows DEF Grows, CountsFit
<1>3. tried' \in 0 .. setting.interactions
  <2>1. CASE tried' = tried  BY <2>1 DEF CountsFit
  <2>2. CASE Observe
    <3>1. tried' = tried \/ tried' = 0  BY <2>2 DEF Observe
    <3> QED BY <1>1, <2>1, <3>1
  <2>3. CASE Pick
    <3>1. (tried' = tried \/ tried' = tried + 1) /\ ~(tried >= setting.interactions)
      BY <2>3 DEF Pick, Exhausted
    <3>2. tried \in 0 .. setting.interactions  BY DEF CountsFit
    <3> QED BY <1>1, <3>1, <3>2
  <2>4. CASE Launch \/ Finish \/ Dequeue \/ Goto \/ Settle \/ Prepare \/ Click \/ ClickFails
               \/ Record \/ Follow \/ Single
    BY <2>1, <2>4 DEF Launch, Finish, Dequeue, Goto, Settle, Prepare, Click, ClickFails,
                      Record, Follow, Single, Throw, explorer
  <2>5. CASE Walk \/ ReadFile \/ EndRead \/ Close \/ Correlate \/ GroupNext
    BY <2>1, <2>5 DEF Walk, ReadFile, EndRead, Close, Correlate, GroupNext, explorer
  <2>6. CASE Send \/ Answer \/ Timeout \/ OverBudget \/ BrowserFails
    BY <2>1, <2>6 DEF Send, Answer, Timeout, OverBudget, BrowserFails, Throw, explorer
  <2> QED BY <2>2, <2>3, <2>4, <2>5, <2>6 DEF Next, Explore
<1>4. blockers' \subseteq {"FILES", "DIRECTORIES", "STATIC", "ROUTES", "LIVE", "ERROR"}
  <2> DEFINE B == {"FILES", "DIRECTORIES", "STATIC", "ROUTES", "LIVE", "ERROR"}
  <2>1. blockers \subseteq B  BY DEF CountsFit
  <2>2. CASE Walk
    <3>1. \/ blockers' \subseteq {"FILES"}
          \/ \E more \in SUBSET {"FILES"}, d \in {"DIRECTORIES", "STATIC"} : blockers' = more \cup {d}
      BY <2>2 DEF Walk
    <3> QED BY <3>1
  <2>3. ASSUME NEW more \in SUBSET B, blockers' = blockers \cup more PROVE blockers' \subseteq B
    BY <2>1, <2>3
  <2>4. ASSUME blockers' = blockers PROVE blockers' \subseteq B  BY <2>1, <2>4
  <2>5. CASE ReadFile
    <3>1. blockers' = blockers \/ blockers' = blockers \cup {"ROUTES"}  BY <2>5 DEF ReadFile
    <3> QED BY <2>3, <2>4, <3>1
  <2>6. CASE EndRead
    <3>1. \/ blockers' = blockers \/ blockers' = blockers \cup {"FILES"}
          \/ blockers' = blockers \cup {"STATIC"}
      BY <2>6 DEF EndRead
    <3> QED BY <2>3, <2>4, <3>1
  <2>7. CASE Single \/ OverBudget \/ BrowserFails
    <3>1. \/ blockers' = blockers \/ blockers' = blockers \cup {"ROUTES"}
          \/ blockers' = blockers \cup {"LIVE"} \/ blockers' = blockers \cup {"ERROR"}
      BY <2>7 DEF Single, OverBudget, BrowserFails, Throw
    <3> QED BY <2>3, <2>4, <3>1
  <2>8. CASE Launch \/ Finish \/ Dequeue \/ Goto \/ Settle \/ Observe \/ Pick \/ Prepare \/ Click
               \/ ClickFails \/ Record \/ Follow
    BY <2>4, <2>8 DEF Launch, Finish, Return, Dequeue, Goto, Settle, Observe, Pick, Prepare,
                      Click, ClickFails, Record, Follow
  <2>9. CASE Close \/ Correlate \/ GroupNext \/ Send \/ Answer \/ Timeout
    BY <2>4, <2>9 DEF Close, Correlate, GroupNext, Send, Answer, Timeout
  <2> QED BY <2>2, <2>5, <2>6, <2>7, <2>8, <2>9 DEF Next, Explore
<1>5. open' \subseteq {"browser", "context", "page"}
  <2> DEFINE R == {"browser", "context", "page"}
  <2>1. open \subseteq R  BY DEF CountsFit
  <2>2. ASSUME open' = open PROVE open' \subseteq R  BY <2>1, <2>2
  <2>3. CASE Launch
    <3>1. open' = {} \/ \E r \in R : open' = open \cup {r}  BY <2>3 DEF Launch
    <3> QED BY <2>1, <3>1
  <2>4. CASE Timeout \/ Close
    <3>1. open' = {}  BY <2>4 DEF Timeout, Close, CloseLiveResources
    <3> QED BY <3>1
  <2>5. CASE Finish \/ Dequeue \/ Goto \/ Settle \/ Observe \/ Pick \/ Prepare \/ Click
               \/ ClickFails \/ Record \/ Follow \/ Single
    BY <2>2, <2>5 DEF Finish, Return, Dequeue, Goto, Settle, Observe, Pick, Prepare,
                      Click, ClickFails, Record, Follow, Single, Throw
  <2>6. CASE Walk \/ ReadFile \/ EndRead \/ Correlate \/ GroupNext
    BY <2>2, <2>6 DEF Walk, ReadFile, EndRead, Correlate, GroupNext
  <2>7. CASE Send \/ Answer \/ OverBudget \/ BrowserFails
    BY <2>2, <2>7 DEF Send, Answer, OverBudget, BrowserFails, Throw
  <2> QED BY <2>3, <2>4, <2>5, <2>6, <2>7 DEF Next, Explore
<1>6. pc' \notin {"graph", "built"} => ungrouped' = {} /\ candidates' = {}
  <2>1. ASSUME pc \notin {"graph", "built"}, ungrouped' = ungrouped, candidates' = candidates
        PROVE  ungrouped' = {} /\ candidates' = {}
    BY <2>1 DEF CountsFit
  <2>2. CASE Explore
    <3>1. ungrouped' = ungrouped /\ candidates' = candidates
      BY <2>2 DEF Explore, Launch, Finish, Return, Dequeue, Goto, Settle, Observe, Pick, Prepare,
                  Click, ClickFails, Record, Follow, Single, Throw, graphVars
    <3>2. pc \notin {"graph", "built"}
      BY <2>2 DEF Explore, Launch, Finish, Return, Dequeue, Goto, Settle, Observe, Pick, Prepare,
                  Click, ClickFails, Record, Follow, Single
    <3> QED BY <2>1, <3>1, <3>2
  <2>3. CASE Walk \/ ReadFile \/ EndRead \/ Close
    BY <2>1, <2>3 DEF Walk, ReadFile, EndRead, Close, graphVars
  <2>4. CASE Send \/ Answer \/ Timeout \/ OverBudget \/ BrowserFails
    BY <2>1, <2>4 DEF Send, Answer, Timeout, OverBudget, BrowserFails, Throw, graphVars,
                      Browsing, Exploring, Awaiting
  <2>5. CASE Correlate \/ GroupNext
    BY <2>5 DEF Correlate, GroupNext, Group
  <2> QED BY <2>2, <2>3, <2>4, <2>5 DEF Next
<1> QED BY <1>1, <1>2, <1>3, <1>4, <1>5, <1>6 DEF CountsFit

LEMMA BudgetsStay ==
  ASSUME Stands, RoutesFit, DepthsFit, CountsFit, UNCHANGED vars
  PROVE  RoutesFit' /\ DepthsFit' /\ CountsFit'
<1>1. /\ setting' = setting /\ pc' = pc /\ discovered' = discovered /\ visited' = visited
      /\ blockers' = blockers /\ queue' = queue /\ current' = current /\ tried' = tried
      /\ live' = live /\ open' = open /\ ungrouped' = ungrouped /\ candidates' = candidates
  BY DEF vars, explorer, browser, graphVars
<1>2. Pages' = Pages /\ MaxRoutes' = MaxRoutes  BY <1>1 DEF Pages, MaxRoutes
<1> QED BY <1>1, <1>2 DEF RoutesFit, DepthsFit, Shallow, CountsFit

LEMMA BudgetsInitially ==
  ASSUME Init, Stands PROVE RoutesFit /\ DepthsFit /\ CountsFit
<1>1. {MaxDepth, MaxNetwork, MaxRoutes, setting.interactions} \subseteq Nat
  BY BudgetAssumption, ProjectIs, PagesAssumption DEF Stands
<1>2. RoutesFit  BY <1>1, FS_EmptySet DEF Init, RoutesFit
<1>3. Shallow(<<>>)
  <2> DEFINE S == {}
  <2>1. <<>> \in Seq(S) /\ \A item \in S : item.depth \in 0 .. MaxDepth  OBVIOUS
  <2> HIDE DEF S
  <2> QED BY <2>1, ShallowIs
<1>4. DepthsFit  BY <1>1, <1>3 DEF Init, DepthsFit
<1>5. CountsFit  BY <1>1 DEF Init, CountsFit, GraphInit
<1> QED BY <1>2, <1>4, <1>5

LEMMA EmptyPrefix == ASSUME NEW c \in Segments PROVE IsPrefix(<<>>, c)
<1>1. <<>> \in Segments /\ Len(<<>>) = 0 /\ Len(c) \in Nat  BY DEF Segments
<1>2. BelongsTo(c, <<>>)  BY <1>1, PrefixIs
<1> QED BY <1>2 DEF BelongsTo

\* A discovery stays within what it was given: the files and the browser together
\* open no more routes than the budget has, no item waits deeper than the budget of
\* depth, and neither the requests that are recorded nor the interactions tried on
\* one state of a page exceed theirs (discover in discovery/src/index.ts,
\* exploreLiveTarget in live-explorer.ts). And an id names one fact only: what the
\* graph and a correlation look up by id is unambiguous.
THEOREM DiscoveryTypeCorrect == Spec => []TypeOK
<1> DEFINE I == /\ Stands /\ LiveFits /\ FilesKept /\ FactsFit /\ PathsFit /\ GraphFits
                /\ PageFits /\ IdsFit /\ RoutesFit /\ DepthsFit /\ CountsFit
<1>1. ASSUME Init PROVE I
  BY <1>1, FitsInitially, IdsInitially, BudgetsInitially
<1>2. ASSUME I, [Next]_vars PROVE I'
  <2>1. CASE Next
    <3>1. Stands' /\ LiveFits' /\ FilesKept' /\ FactsFit' /\ PathsFit' /\ GraphFits'
      BY <1>2, <2>1, StandsKept, LiveKept, FilesStillKept, FactsKept, PathsKept, GraphKept
    <3>2. PageFits' /\ IdsFit'  BY <1>2, <2>1, PageKept, IdsKept
    <3>3. RoutesFit' /\ DepthsFit' /\ CountsFit'
      BY <1>2, <2>1, RoutesKept, DepthsKept, CountsKept
    <3> QED BY <3>1, <3>2, <3>3
  <2>2. CASE UNCHANGED vars  BY <1>2, <2>2, FitsStay, IdsStay, BudgetsStay
  <2> QED BY <1>2, <2>1, <2>2
<1>3. ASSUME I PROVE TypeOK
  <2>1. /\ setting \in Settings
        /\ pc \in Exploring \cup {"walk", "read", "closing", "correlate", "graph", "built", "failed"}
        /\ read \in 0 .. Len(Project)
    BY <1>3 DEF Stands, FilesKept
  <2>2. /\ Cardinality(discovered) <= MaxRoutes
        /\ Cardinality(visited) <= MaxRoutes /\ visited \subseteq DOMAIN Pages
    BY <1>3 DEF RoutesFit
  <2>3. \A i \in DOMAIN queue : queue[i].depth <= MaxDepth
    <3>1. \A i \in DOMAIN queue : queue[i] \in ToSet(queue)  BY DEF ToSet
    <3>2. \A item \in ToSet(queue) : item.depth \in 0 .. MaxDepth  BY <1>3 DEF DepthsFit, Shallow
    <3>3. MaxDepth \in Nat  BY BudgetAssumption
    <3> QED BY <3>1, <3>2, <3>3
  <2>4. /\ blockers \subseteq {"FILES", "DIRECTORIES", "STATIC", "ROUTES", "LIVE", "ERROR"}
        /\ live.count <= MaxNetwork /\ tried <= setting.interactions
        /\ open \subseteq {"browser", "context", "page"}
    BY <1>3, BudgetAssumption, PagesAssumption DEF CountsFit, Stands
  <2>5. \A f, g \in facts : f.id = g.id => f = g  BY <1>3 DEF IdsFit, Unique
  <2>6. ungrouped \subseteq Operations /\ \A c \in candidates : IsPrefix(<<>>, c)
    <3>1. CASE pc \in {"graph", "built"}
      <4>1. PathsIn(facts) /\ ungrouped \subseteq Operations
        BY <1>3, <3>1 DEF PathsFit, GraphFits
      <4>2. \A c \in candidates : c \in NamedCollections \/ \E o \in Operations : c = Pathname(o)
        BY <1>3, <3>1 DEF GraphFits
      <4>3. \A c \in candidates : c \in Segments  BY <4>1, <4>2, PathnamesAre, NamedAre
      <4> QED BY <4>1, <4>3, EmptyPrefix
    <3>2. CASE pc \notin {"graph", "built"}
      <4>1. ungrouped = {} /\ candidates = {}  BY <1>3, <3>2 DEF CountsFit
      <4> QED BY <4>1
    <3> QED BY <3>1, <3>2
  <2> HIDE DEF I
  <2> QED BY <2>1, <2>2, <2>3, <2>4, <2>5, <2>6, Zenon DEF TypeOK
<1> HIDE DEF I
<1> QED BY <1>1, <1>2, <1>3, PTL DEF Spec
================================================================================
