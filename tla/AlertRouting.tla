------------------------------ MODULE AlertRouting ------------------------------
(* Where alerts go: the routes the plugin writes for its receivers, the way    *)
(* Alertmanager walks them, the simulations of validate and of the inventory   *)
(* page, and the synthetic alerts both of them fire (cmd_scaffold.go,          *)
(* cmd_validate.go, admin_inventory.go).                                       *)
(*                                                                             *)
(* Receivers are those of ReceiverNames with a field "am", the Alertmanager    *)
(* they are bound to.  A label set is a function from label names to values.   *)
EXTENDS ReceiverNames

-----------------------------------------------------------------------------
(* Routes. *)

Route(matchers, receiver, continue) == [matchers |-> matchers, receiver |-> receiver, continue |-> continue]

\* Mutant of Live: the route ends the walk.
LiveAndLast(ac) == Route([runbook |-> receiverBaseSlug(ac.name)], ac.name, FALSE)

Live(ac) == Route([runbook |-> receiverBaseSlug(ac.name)], ac.name, TRUE)

\* Runbook receivers grouped by runbook, in the order of the list within each;
\* a custom receiver gets a commented stub, which routes nothing.
assembleRoutesYAML(entries) ==
  LET runbooks == Only(entries, {ac \in ToSet(entries) : ~ac.custom})
      slugs == SetToSeq({receiverBaseSlug(ac.name) : ac \in ToSet(runbooks)})
      Grouped(slug) == Only(runbooks, {ac \in ToSet(runbooks) : receiverBaseSlug(ac.name) = slug})
  IN FlattenSeq([i \in DOMAIN slugs |-> [j \in DOMAIN Grouped(slugs[i]) |-> Live(Grouped(slugs[i])[j])]])

\* dispatch.Route.Match, of Alertmanager: the routes in order up to the first
\* that matches and does not continue; the root's receiver if none matches.
Matches(route, labels) ==
  \A l \in DOMAIN route.matchers : l \in DOMAIN labels /\ labels[l] = route.matchers[l]

Match(tree, labels) ==
  LET hits == {i \in DOMAIN tree.routes : Matches(tree.routes[i], labels)}
      reached == {i \in hits : \A j \in hits : j < i => tree.routes[j].continue}
  IN IF hits = {} THEN {tree.default} ELSE {tree.routes[i].receiver : i \in reached}

-----------------------------------------------------------------------------
(* Label arguments: key=value, where a part that is missing makes the argument *)
(* malformed and "legal" tells whether the key is a Prometheus label name.     *)

Arg(key, value, legal) == [key |-> key, value |-> value, legal |-> legal]
Malformed(arg) == arg.key = "" \/ arg.value = NoName

NoLabels == [l \in {} |-> NoName]

\* A key that is given more than once has its last value.
LabelsOf(args) ==
  [key \in {a.key : a \in ToSet(args)} |-> args[Max({i \in DOMAIN args : args[i].key = key})].value]

\* Strict: nothing typed or one bad argument refuses the command.
parseSimulateLabels(args) ==
  IF args # <<>> /\ \A a \in ToSet(args) : ~Malformed(a) /\ a.legal
  THEN [ok |-> TRUE, labels |-> LabelsOf(args)] ELSE [ok |-> FALSE, labels |-> NoLabels]

\* Lenient: what has no key or no value is skipped, and Alertmanager judges names.
parseEndToEndExtraLabels(args) == LabelsOf(Only(args, {a \in ToSet(args) : ~Malformed(a)}))

buildSimulateLabelsInput(runbook, severity, extra) ==
  LET given(key, value) == IF value = NoName THEN <<>> ELSE <<Arg(key, value, TRUE)>>
  IN given("runbook", runbook) \o given("severity", severity) \o extra

-----------------------------------------------------------------------------
(* Simulation.  "status" gives for each Alertmanager whether it answered, and  *)
(* the route tree of its configuration: no tree if it returned none, if that   *)
(* does not parse, or if it has no route block.                                *)

NoTree == [default |-> NoName, routes |-> <<>>]
Usable(entry) == entry.reachable /\ entry.tree # NoTree

Simulated(mode, receivers) == [mode |-> mode, receivers |-> receivers]

\* handleValidateSimulate asks the Alertmanager of the channel's first receiver.
handleValidateSimulate(scoped, args, status) ==
  LET parsed == parseSimulateLabels(args)
  IN IF scoped = <<>> \/ ~parsed.ok \/ ~Usable(status[scoped[1].am])
     THEN Simulated("error", {})
     ELSE Simulated("ok", Match(status[scoped[1].am].tree, parsed.labels))

\* runInventorySimulation asks the first receiver's that answers; a single match
\* whose receiver is the root's counts as no match.
runInventorySimulation(configs, args, status) ==
  LET parsed == parseSimulateLabels(args)
      first == SelectInSeq(configs, LAMBDA c : status[c.am].reachable /\ status[c.am].returned)
      tree == status[configs[first].am].tree
      matched == Match(tree, parsed.labels)
  IN CASE args = <<>>                                          -> Simulated("none", {})
       [] args # <<>> /\ (~parsed.ok \/ first = 0)             -> Simulated("error", {})
       [] args # <<>> /\ parsed.ok /\ first # 0 /\ tree = NoTree -> Simulated("error", {})
       [] OTHER -> IF matched = {tree.default} THEN Simulated("fell-through", matched)
                   ELSE Simulated("ok", matched)

runInventorySimulationMatrixForSlugs(slugs, severity, extra, configs, status) ==
  [s \in slugs |-> runInventorySimulation(configs, buildSimulateLabelsInput(s, severity, extra), status)]

-----------------------------------------------------------------------------
(* Synthetic alerts. *)

syntheticFireSpec(severity, resolved) == [severity |-> severity, resolved |-> resolved]

\* One alert, or all severities and then a resolved one; none for a bad value.
expandSeverityForFire(value) ==
  CASE value = "all" -> <<syntheticFireSpec("warning", FALSE), syntheticFireSpec("critical", FALSE), syntheticFireSpec("info", FALSE), syntheticFireSpec("info", TRUE)>>
    [] value \in {"critical", "warning", "info"} -> <<syntheticFireSpec(value, FALSE)>>
    [] value = ""                                -> <<syntheticFireSpec("warning", FALSE)>>
    [] OTHER                                     -> <<>>

\* Named after its severity, so that each becomes a notification of its own.
alertname(spec) == <<"ValidateSyntheticTest", IF spec.resolved THEN "resolved" ELSE spec.severity>>

\* What the caller adds overrides the name and the runbook, the markers override
\* what the caller adds.
postValidateSyntheticAlert(slug, spec, extra) ==
  LET markers == [severity |-> <<spec.severity>>, test |-> <<"validate">>, source |-> <<"alertmanager-plugin-validate">>]
  IN [labels |-> Over(markers, Over(extra, [alertname |-> alertname(spec), runbook |-> slug])),
      resolved |-> spec.resolved]

\* The validate report's column, from the number of alerts Alertmanager took.
fireSyntheticMatrix(specs, taken) ==
  CASE specs = <<>> -> "skipped"
    [] specs # <<>> /\ taken = Len(specs) -> "passed"
    [] specs # <<>> /\ taken = 0 -> "failed"
    [] OTHER -> "partly"

\* runInventoryEndToEnd fires for all runbooks at one Alertmanager: that of the
\* first receiver of any of them whose Alertmanager answers.
NoAM == "no AM"
EndToEndAM(slugs, configs, status) ==
  LET first == SelectInSeq(configs, LAMBDA c : receiverBaseSlug(c.name) \in slugs /\ status[c.am].reachable)
  IN IF first = 0 THEN NoAM ELSE configs[first].am

runInventoryEndToEnd(slugs, severity, extraArgs, configs, status) ==
  LET specs == expandSeverityForFire(severity)
      am == EndToEndAM(slugs, configs, status)
      extra == parseEndToEndExtraLabels(extraArgs)
  IN IF am = NoAM THEN [am |-> NoAM, fired |-> <<>>]
     ELSE [am |-> am,
           fired |-> FlattenSeq([i \in 1 .. Cardinality(slugs) |->
                       [j \in DOMAIN specs |-> postValidateSyntheticAlert(SetToSeq(slugs)[i], specs[j], extra)]])]

-----------------------------------------------------------------------------
(* Properties. *)

\* An alertmanager.yml: the operator's own routes with the blocks exported from
\* some channels pasted between them, in the order of pasting.
Pasted(before, list, dests, after) ==
  [default |-> <<"default">>,
   routes |-> before \o FlattenSeq([i \in DOMAIN dests |-> assembleRoutesYAML(Here(list, dests[i]))]) \o after]

Stops(routes, labels) == \E r \in ToSet(routes) : Matches(r, labels) /\ ~r.continue

\* An alert that names a runbook reaches the receivers added for it in every
\* channel whose block was pasted, in whatever order, and no other receiver of
\* the plugin; the operator's routes further down still get it too.
FansOut(before, list, dests, after, labels) ==
  LET reached == Match(Pasted(before, list, dests, after), labels)
      wanted == {c \in ToSet(list) : /\ ~c.custom /\ c.dest \in ToSet(dests)
                                     /\ labels["runbook"] = c.typed}
      own == {r.receiver : r \in ToSet(before \o after)}
  IN ~Stops(before, labels) =>
       /\ reached \cap NamesOf(list) = {c.name : c \in wanted}
       /\ reached \cap own = Match([default |-> <<"default">>, routes |-> before \o after], labels) \ {<<"default">>}

\* The synthetic alerts for a runbook, whatever is added to their labels but a
\* runbook, go where the simulations of that runbook say, and to the receivers
\* added for it; and the alerts of a matrix stay apart, so that the resolved one
\* ends none of the others, unless an added alertname makes them one.
TestsTellTheTruth(list, dests, slug, severity, extraArgs) ==
  LET tree == Pasted(<<>>, list, dests, <<>>)
      status == [am \in {"am"} |-> [reachable |-> TRUE, returned |-> TRUE, tree |-> tree]]
      configs == [i \in DOMAIN list |-> Over(list[i], [am |-> "am"])]
      test == runInventoryEndToEnd({slug}, severity, extraArgs, configs, status)
      page == runInventorySimulationMatrixForSlugs({slug}, NoName, <<>>, configs, status)[slug]
      command == handleValidateSimulate(configs, <<Arg("runbook", slug, TRUE)>>, status)
      keys == {a.key : a \in {b \in ToSet(extraArgs) : ~Malformed(b)}}
  IN /\ "runbook" \notin keys =>
          \A i \in DOMAIN test.fired :
            /\ Match(tree, test.fired[i].labels) = page.receivers
            /\ page.receivers = command.receivers
            /\ {c.name : c \in {d \in ToSet(list) : ~d.custom /\ d.dest \in ToSet(dests) /\ d.typed = slug}}
                 = IF page.mode = "ok" THEN page.receivers ELSE {}
     /\ "alertname" \notin keys =>
          \A i, j \in DOMAIN test.fired : test.fired[i].labels = test.fired[j].labels => i = j
=============================================================================
