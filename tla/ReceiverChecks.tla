----------------------------- MODULE ReceiverChecks -----------------------------
(* What the plugin says of its receivers: the validate report and the          *)
(* inventory page with its drift, its groups, its dropdowns and its webhook    *)
(* test (cmd_validate.go, admin_inventory.go, am_probe.go).                    *)
EXTENDS AlertRouting

NoURL == ""

-----------------------------------------------------------------------------
(* The receivers of a loaded configuration.  A line is a top-level key, a      *)
(* "- name:" item, or neither.  The Prometheus Operator prefixes names.        *)

Key(key) == [kind |-> "key", key |-> key]
Item(prefix, name) == [kind |-> "name", prefix |-> prefix, name |-> name]
OtherLine == [kind |-> "other"]

NoPrefix == <<>>

\* Mutant of canonicalReceiverName: the operator's name as it is.
PrefixedName(item) == [name |-> item.prefix \o item.name, viaOperator |-> FALSE]

canonicalReceiverName(item) == [name |-> item.name, viaOperator |-> item.prefix # NoPrefix]

\* Items count only in the receivers block, which the next top-level key ends.
extractAMReceiverNames(config) ==
  LET scan[n \in 0 .. Len(config)] ==
        IF n = 0 THEN [inReceivers |-> FALSE, names |-> {}]
        ELSE [inReceivers |-> IF config[n].kind = "key" THEN config[n].key = "receivers:" ELSE scan[n - 1].inReceivers,
              names |-> scan[n - 1].names \cup
                          IF scan[n - 1].inReceivers /\ config[n].kind = "name" THEN {config[n]} ELSE {}]
  IN scan[Len(config)].names

\* Via the operator only if no plain entry has the name.
receiverLoadedIn(config, name) ==
  LET under == {canonicalReceiverName(n) : n \in extractAMReceiverNames(config)}
      entries == {c \in under : c.name = name}
  IN [loaded |-> entries # {}, viaOperator |-> entries # {} /\ \A c \in entries : c.viaOperator]

-----------------------------------------------------------------------------
(* Asking Alertmanager.  An answer that is not OK or that does not parse is an *)
(* outcome like any other.                                                     *)

\* "text" is the configuration returned; "receivers" what it stands for, which
\* the plugin has to find out.
NoConfig == <<>>
Answer(outcome, text, receivers) == [outcome |-> outcome, text |-> text, receivers |-> receivers]

\* doValidateAMStatus, and doAMProbe alike: an answer that does not parse still
\* shows that Alertmanager is there.
doValidateAMStatus(url, answer) ==
  LET ok == url # NoURL /\ answer.outcome \in {"ok", "garbage"}
  IN [ok |-> ok, config |-> IF ok /\ answer.outcome = "ok" THEN answer.text ELSE NoConfig]

-----------------------------------------------------------------------------
(* validate. *)

\* handleValidate's row for a receiver: each check passed, failed or skipped.
\* "posts" tells whether its webhook takes the test message, "taken" how many of
\* the synthetic alerts Alertmanager accepts.
Verdict(passed) == IF passed THEN "passed" ELSE "failed"

ReportRow(c, options, answer, posts, taken) ==
  LET status == doValidateAMStatus(c.am, answer)
      specs == expandSeverityForFire(options.severity)
  IN [name |-> c.name,
      reach |-> Verdict(status.ok),
      loaded |-> IF status.ok THEN Verdict(receiverLoadedIn(status.config, c.name).loaded) ELSE "skipped",
      webhook |-> IF options.webhookTest THEN Verdict(posts) ELSE "skipped",
      endToEnd |-> IF options.endToEnd /\ status.ok THEN fireSyntheticMatrix(specs, taken) ELSE "skipped"]

\* --end-to-end with a severity that is none refuses the command.
validateReport(list, target, dest, options, answers) ==
  IF options.endToEnd /\ expandSeverityForFire(options.severity) = <<>> THEN {}
  ELSE {ReportRow(c, options, answers[c.am], TRUE, Len(expandSeverityForFire(options.severity))) :
          c \in handleValidate(list, target, dest)}

-----------------------------------------------------------------------------
(* The inventory page. *)

computeHealth(row) ==
  CASE row.am = NoURL                                 -> "no URL"
    [] row.am # NoURL /\ ~row.reachable               -> "unreachable"
    [] row.am # NoURL /\ row.reachable /\ ~row.loaded -> "not in YAML"
    [] OTHER -> IF row.viaOperator THEN "OK via operator" ELSE "OK"

NoTests == [webhookTest |-> FALSE, endToEnd |-> FALSE, severity |-> ""]

Healthy == {"OK", "OK via operator"}

Row(c, answers) ==
  LET entry == doValidateAMStatus(c.am, answers[c.am])
      found == receiverLoadedIn(entry.config, c.name)
      row == [name |-> c.name, dest |-> c.dest, am |-> c.am, reachable |-> entry.ok,
              loaded |-> entry.ok /\ found.loaded, viaOperator |-> entry.ok /\ found.viaOperator]
  IN Over(row, [health |-> computeHealth(row)])

Rows(configs, answers) == {Row(c, answers) : c \in ToSet(configs)}

\* What an Alertmanager has loaded and no receiver bound to it accounts for.
amDrift(configs, answers, url) ==
  LET bound == {c.name : c \in {d \in ToSet(configs) : d.am = url}}
  IN {n \in extractAMReceiverNames(doValidateAMStatus(url, answers[url]).config) :
        canonicalReceiverName(n).name \notin bound}

groupKey(row, mode) ==
  CASE mode = "team" -> row.dest.team
    [] mode = "am"   -> IF row.am = NoURL THEN "(no AM URL)" ELSE row.am
    [] OTHER         -> row.dest.channel

groupInventory(rows, mode) ==
  {[label |-> key, receivers |-> {r \in rows : groupKey(r, mode) = key}] : key \in {groupKey(r, mode) : r \in rows}}

countDistinctChannels(configs) == Cardinality({c.dest.channel : c \in ToSet(configs)})

-----------------------------------------------------------------------------
(* The page's route tester: what its dropdowns offer, and its webhook test. *)

Target(type, value) == [type |-> type, value |-> value]

decodeTargetSelection(target) ==
  CASE target.type = "all"        -> Runbooks
    [] target.type = "group"      -> IF target.value \in DOMAIN Category THEN Category[target.value] ELSE {}
    [] target.type = "individual" -> IF target.value = NoName THEN {} ELSE {target.value}
    [] OTHER                      -> {}

NoFilter == <<>>
filterConfigsByChannel(configs, team, channel) ==
  Only(configs, {c \in ToSet(configs) : team \in {NoFilter, c.dest.team} /\ channel \in {NoFilter, c.dest.channel}})

\* Channels are named without their team here.
ChannelsOf(configs, slugs) == {c.dest.channel : c \in {d \in ToSet(configs) : receiverBaseSlug(d.name) \in slugs}}

\* For "all", and with nothing chosen, every channel with a receiver, custom
\* ones included.
buildTargetChannelMap(configs, target) ==
  IF target.type \in {"", "all"} THEN ChannelsOf(configs, {receiverBaseSlug(c.name) : c \in ToSet(configs)})
  ELSE ChannelsOf(configs, decodeTargetSelection(target))

\* refreshChannelOptions, in the page: an empty list arrives as null, for which
\* the page shows all channels; a team narrows them to the names it has.
OfferedChannels(configs, target, team) ==
  LET ofTarget == buildTargetChannelMap(configs, target)
      shown == IF ofTarget = {} THEN buildTargetChannelMap(configs, Target("", NoName)) ELSE ofTarget
      ofTeam == {c.dest.channel : c \in {d \in ToSet(configs) : d.dest.team = team}}
  IN IF ofTeam = {} THEN shown ELSE shown \cap ofTeam

\* The receivers that get a test message; none matching is an error.
runInventoryWebhookTest(slugs, configs) == {c \in ToSet(configs) : receiverBaseSlug(c.name) \in slugs}

SideEffects == {"webhook-test", "end-to-end"}

\* simSideEffectAllowed: what posts or fires must be a POST of the page itself.
simSideEffectAllowed(request) ==
  request.mode \in SideEffects => request.method = "POST" /\ request.requestedWith = "XMLHttpRequest"

Form(mode, method, target, channel, extra) ==
  [mode |-> mode, method |-> method, requestedWith |-> IF method = "POST" THEN "XMLHttpRequest" ELSE "",
   target |-> target, team |-> NoFilter, channel |-> channel, severity |-> "", extra |-> extra]

Nothing == [posted |-> {}, fired |-> <<>>, shown |-> {}]

\* renderInventoryHTML on a submitted form: the receivers it posts to, the
\* alerts it fires, the simulations it shows.  A simulation ignores the channel
\* and the severity; without a target the labels alone are simulated.
renderInventoryHTML(form, configs, status) ==
  LET slugs == decodeTargetSelection(form.target)
      chosen == filterConfigsByChannel(configs, form.team, form.channel)
      simulated == IF slugs = {} /\ form.extra # <<>> THEN {NoName} ELSE slugs
      matrix == runInventorySimulationMatrixForSlugs(simulated, NoName, form.extra, configs, status)
      allowed == simSideEffectAllowed(form)
  IN CASE form.mode = "webhook-test" /\ allowed -> [Nothing EXCEPT !.posted = runInventoryWebhookTest(slugs, chosen)]
       [] form.mode = "end-to-end" /\ allowed ->
            [Nothing EXCEPT !.fired = runInventoryEndToEnd(slugs, form.severity, form.extra, chosen, status).fired]
       [] form.mode \notin SideEffects -> [Nothing EXCEPT !.shown = {matrix[s] : s \in simulated}]
       [] OTHER -> Nothing

-----------------------------------------------------------------------------
(* Properties. *)

\* For every answer of every Alertmanager, page and report agree with it and
\* with each other: a receiver is healthy, and its row passes validate, when and
\* only when its Alertmanager answered with a configuration that has it, plain
\* or prefixed, wherever its receivers block is; a loaded receiver is drift when
\* no receiver bound to that Alertmanager has its name; via the operator means
\* not plain.  validate reports on the receivers of its channel, all of them, and
\* every grouping of the page shows every receiver once.
ChecksAgree(configs, answers) ==
  LET Has(url) == IF url # NoURL /\ answers[url].outcome = "ok"
                  THEN answers[url].receivers ELSE {}
  IN /\ \A c \in ToSet(configs) :
          LET row == Row(c, answers)
              report == ReportRow(c, NoTests, answers[c.am], TRUE, 0)
              named == {n \in Has(c.am) : n.name = c.name}
          IN /\ row.health \in Healthy <=> named # {}
             /\ row.health = "OK" <=> \E n \in named : n.prefix = NoPrefix
             /\ report.loaded = "passed" <=> named # {}
             /\ report.reach = "passed" <=> row.health \notin {"no URL", "unreachable"}
     /\ \A dest \in {c.dest : c \in ToSet(configs)} :
          {r.name : r \in validateReport(configs, NoName, dest, NoTests, answers)} = NamesOf(Here(configs, dest))
     /\ \A mode \in {"channel", "team", "am"} :
          LET groups == groupInventory(Rows(configs, answers), mode)
          IN /\ \A c \in ToSet(configs) : \E g \in groups :
                  {h \in groups : c.name \in {r.name : r \in h.receivers}} = {g}
             /\ mode = "channel" => Cardinality(groups) = countDistinctChannels(configs)
     /\ \A url \in DOMAIN answers :
          amDrift(configs, answers, url) = {n \in Has(url) : ~\E c \in ToSet(configs) : c.am = url /\ c.name = n.name}

\* A channel in which the chosen target has a receiver can be chosen, with its
\* team or without; for a group or a runbook that has receivers, and no team
\* chosen, no other channel is offered, so that the test always finds a receiver.
OffersWhatCanBeTested(configs) ==
  LET targets == {Target("all", NoName)} \cup {Target("group", g) : g \in DOMAIN Category}
                   \cup {Target("individual", s) : s \in Runbooks}
      teams == {NoFilter} \cup {c.dest.team : c \in ToSet(configs)}
      Tested(target, team, channel) ==
        runInventoryWebhookTest(decodeTargetSelection(target), filterConfigsByChannel(configs, team, channel))
  IN \A target \in targets, team \in teams :
       LET offered == OfferedChannels(configs, target, team)
           testable == {c \in {d.dest.channel : d \in ToSet(configs)} : Tested(target, team, c) # {}}
       IN /\ testable \subseteq offered
          /\ team = NoFilter /\ target.type # "all" /\ testable # {} => offered = testable

\* The tests of the page are of one mind: a group is tested as its runbooks are
\* one by one, in the channel chosen and with the same labels; a runbook chosen
\* in the dropdown is simulated like one given as a label; and a form that comes
\* as a link, not from the page, posts and fires nothing.
GroupsAreTestedAsTheirRunbooks(list, dests) ==
  LET configs == [i \in DOMAIN list |-> Over(list[i], [am |-> "am"])]
      status == [am \in {"am"} |->
                  [reachable |-> TRUE, returned |-> TRUE, tree |-> Pasted(<<>>, list, dests, <<>>)]]
      Submit(mode, method, target, channel, extra) ==
        renderInventoryHTML(Form(mode, method, target, channel, extra), configs, status)
      Single(s) == Target("individual", s)
      groups == {Target("all", NoName)} \cup {Target("group", g) : g \in DOMAIN Category}
      channels == {NoFilter} \cup {c.dest.channel : c \in ToSet(list)}
  IN /\ \A mode \in SideEffects \cup {"simulate"}, group \in groups, channel \in channels :
          LET whole == Submit(mode, "POST", group, channel, <<>>)
              parts == {Submit(mode, "POST", Single(s), channel, <<>>) : s \in decodeTargetSelection(group)}
              link == Submit(mode, "GET", group, channel, <<>>)
          IN /\ whole.posted = UNION {p.posted : p \in parts}
             /\ whole.shown = UNION {p.shown : p \in parts}
             /\ UNION {ToSet(p.fired) : p \in parts} \subseteq ToSet(whole.fired)
             /\ link.posted = {} /\ link.fired = <<>>
     /\ \A s \in Runbooks :
          Submit("simulate", "GET", Single(s), NoFilter, <<>>).shown
            = Submit("simulate", "GET", Target("", NoName), NoFilter, <<Arg("runbook", s, TRUE)>>).shown
=============================================================================
