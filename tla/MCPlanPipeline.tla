----------------------------- MODULE MCPlanPipeline -----------------------------
(***************************************************************************)
(* PlanPipeline for TLC: targets that differ in what the derivation, the   *)
(* planner and the compiler tell apart, and for each the settings that     *)
(* matter to it.                                                           *)
(***************************************************************************)
EXTENDS PlanPipeline

Crud == <<"create", "delete", "detail", "list", "update">>
Title == {<<"title", "required", FALSE>>}

\* A resource with all its operations, documented well enough for a payload.
Full == [ ops |-> Crud, facts |-> <<"list", "create", "detail", "update", "delete">>,
          observed |-> {"list"}, open |-> FALSE, schema |-> TRUE, identity |-> TRUE,
          fields |-> Title, workflow |-> FALSE, ui |-> {}, states |-> FALSE,
          naming |-> "plain" ]
Only(ops) == [Full EXCEPT !.ops = ops, !.facts = ops, !.fields = {}]
Bare == [Full EXCEPT !.schema = FALSE, !.identity = FALSE, !.fields = {}]
LivePage == {"item", "count", "search", "status", "input", "submit", "toggle", "delete"}

Conf == [ target |-> Full, tier |-> "full", destructive |-> TRUE, diff |-> "noop",
          batches |-> 1, budget |-> 100, manual |-> {}, mode |-> "auto" ]
For(t) == [Conf EXCEPT !.target = t]

Targets ==
  { Full, Bare, Only(<<"list">>), Only(<<"export", "list">>), Only(<<"export">>), Only(<<>>),
    \* what is missing of an entity's life
    Only(<<"list", "update">>), Only(<<"create", "list">>), Only(<<"detail">>),
    Only(<<"create", "delete", "list">>), Only(<<"delete", "detail", "list">>),
    \* the special reads, with and without a collection to compare them with
    Only(<<"count", "list", "summary", "search">>), Only(<<"count", "summary">>),
    Only(<<"cors", "create", "delete", "list", "search">>),
    [Only(<<"create", "list", "search">>) EXCEPT !.open = TRUE],
    \* the only removal clears the collection
    Only(<<"clear", "create", "list">>),
    \* the detail was observed before the collection
    [Full EXCEPT !.facts = <<"detail", "create", "list", "delete", "update">>],
    \* constraints with and without a variant, of an update, of metadata
    [Full EXCEPT !.fields = {<<"title", "enum", FALSE>>, <<"title", "length", FALSE>>,
                             <<"id", "length", TRUE>>, <<"title", "unknown", FALSE>>}],
    [Only(<<"list", "update">>) EXCEPT !.fields = Title \cup {<<"title", "format", FALSE>>}],
    [Full EXCEPT !.fields = {<<"id", "required", FALSE>>}, !.workflow = TRUE],
    \* a removal is what was observed first, and a constraint has no create: Misdirected
    [Only(<<"delete", "list", "update">>) EXCEPT !.fields = Title],
    \* a live page
    [Full EXCEPT !.ui = LivePage], [Full EXCEPT !.ui = LivePage, !.states = TRUE],
    [Bare EXCEPT !.ui = {"item", "search", "toggle"}],
    \* ids the code cannot carry
    [Full EXCEPT !.naming = "long"], [Full EXCEPT !.naming = "dotted"] }

\* A manual case that replaces a generated one, and one of its own.
Create == <<"create", "create_succeeds">>
Manual(id, css) ==
  [ id |-> id, origin |-> "manual", refs |-> {Create}, bound |-> {Create},
    oracles |-> {2}, tier |-> "full", risk |-> "mutating", dotted |-> FALSE, setup |-> <<>>,
    steps |-> <<Ask("POST", "items", {}, "response"), Expect("expect_status", {"response"}),
                [Step EXCEPT !.act = "click", !.css = css]>>, cleanup |-> <<>> ]
Owned == {Manual(Create, "manual"), Manual(<<"mine">>, "none")}

Settings(t) ==
  { [For(t) EXCEPT !.tier = tier, !.destructive = d] : tier \in Tiers, d \in BOOLEAN }
Changed(t) ==
  { [For(t) EXCEPT !.diff = d] : d \in {"hit", "miss"} }
    \cup { [For(t) EXCEPT !.batches = 2, !.budget = b] : b \in {5, 9, 12} }
    \cup { [For(t) EXCEPT !.batches = 0, !.budget = b] : b \in {12, 100} }
WithManual(t) ==
  { [For(t) EXCEPT !.manual = m, !.mode = mode] :
      m \in {Owned, {Manual(<<"mine">>, "discovered_dom")}},
      mode \in {"auto", "overlay", "replace"} }

Pages == {Full, [Full EXCEPT !.ui = LivePage]}
AllConfigs == { For(t) : t \in Targets }
  \cup Settings(Only(<<"export", "list">>))
  \cup UNION { Settings(t) \cup Changed(t) \cup WithManual(t) : t \in Pages }

\* What RemovesOnlyOwn says without its exception; refuted for the misdirected target.
RemovesOnlyOwnAlways ==
  Planned /\ WithMethod(conf.target, {"DELETE"}) = "delete" =>
    \A c \in Generated : \A i \in DOMAIN AllSteps(c) :
      AllSteps(c)[i].method = "DELETE" => AllSteps(c)[i].by # {} /\ Own(c, i)
================================================================================
