------------------------------ MODULE ExportMerge ------------------------------
(* /alertmanager export: the receivers of a channel as text for                *)
(* alertmanager.yml, and with --diff-against-loaded the same text spliced into *)
(* the configuration an Alertmanager has loaded (cmd_export.go).               *)
(*                                                                             *)
(* A document is a sequence of lines.  Of a line the splice sees how far it is *)
(* indented and what it starts with; "added" tells the plugin's lines from the *)
(* loaded ones.                                                                *)
EXTENDS Lists, SequencesExt

Line(indent, text) == [indent |-> indent, text |-> text, added |-> FALSE]
Addition(line) == [line EXCEPT !.added = TRUE]

Blank(line) == line.text = "blank"

Content(line) == ~Blank(line) /\ line.text # "#"
Dash(line) == line.text \in {"- name:", "- matchers:"}

Opens(line, key) == line.indent = 0 /\ line.text = key

\* Blocks as YAML has them: the first line that is not indented deeper than a key
\* ends its block, unless it is an item of the key's list, whose dash may stand
\* below the key; comments end nothing.
Closes(line, indent) == Content(line) /\ (line.indent < indent \/ (line.indent = indent /\ ~Dash(line)))
InBlock(loaded, open, i) == i > open /\ \A k \in open + 1 .. i : ~Closes(loaded[k], loaded[open].indent)

\* A configuration that Alertmanager has loaded: no key twice, and routes only in
\* the route, which is indented.
Configuration(loaded) ==
  /\ loaded \in Seq({Line(l.indent, l.text) : l \in ToSet(loaded)})
  /\ \A l \in ToSet(loaded) : l.indent \in Nat
  /\ \A i, j \in DOMAIN loaded, key \in {"receivers:", "route:"} :
       Opens(loaded[i], key) /\ Opens(loaded[j], key) => i = j
  /\ \A i \in DOMAIN loaded : loaded[i].text = "routes:" =>
       \E open \in 1 .. i : Opens(loaded[open], "route:") /\ InBlock(loaded, open, i)

-----------------------------------------------------------------------------
(* The first pass of buildDiffAgainstLoaded: where a block ends, as the number *)
(* of the first line after it; 0 if the block is not there.                    *)

\* Mutant of AtColumnZero: a comment ends the receivers.
AtAnyColumnZero(line) == ~Blank(line) /\ line.indent = 0

\* The test for a top-level key: anything at column 0 but a comment, so also an
\* item whose dash is there.
AtColumnZero(line) == Content(line) /\ line.indent = 0

Unread == [inReceivers |-> FALSE, inRoute |-> FALSE, inRoutes |-> FALSE, receiversEnd |-> 0, routesEnd |-> 0]

Leave(scan, line, i) ==
  LET leavesReceivers == scan.inReceivers /\ AtColumnZero(line) /\ line.text # "receivers:"
      leavesRoutes == scan.inRoutes /\ ~Blank(line) /\ line.indent < 4
  IN [inReceivers |-> scan.inReceivers /\ ~leavesReceivers,
      receiversEnd |-> IF leavesReceivers THEN i ELSE scan.receiversEnd,
      inRoute |-> scan.inRoute /\ ~leavesRoutes,
      inRoutes |-> scan.inRoutes /\ ~leavesRoutes,
      routesEnd |-> IF leavesRoutes THEN i ELSE scan.routesEnd]

Enter(scan, line) ==
  LET inRoute == scan.inRoute \/ Opens(line, "route:")
  IN [inReceivers |-> scan.inReceivers \/ Opens(line, "receivers:"),
      receiversEnd |-> scan.receiversEnd,
      inRoute |-> inRoute,
      inRoutes |-> scan.inRoutes \/ (inRoute /\ line.text = "routes:"),
      routesEnd |-> scan.routesEnd]

Read(loaded) ==
  LET scan[i \in 0 .. Len(loaded)] ==
        IF i = 0 THEN Unread ELSE Enter(Leave(scan[i - 1], loaded[i], i), loaded[i])
  IN scan[Len(loaded)]

Ends(loaded) ==
  LET scan == Read(loaded)
      toEOF(open, end) == IF open /\ end = 0 THEN Len(loaded) + 1 ELSE end
  IN [receivers |-> toEOF(scan.inReceivers, scan.receiversEnd),
      routes |-> toEOF(scan.inRoutes, scan.routesEnd)]

-----------------------------------------------------------------------------
(* The second pass. *)

Splice(loaded, receivers, routes) ==
  LET ends == Ends(loaded)
      at(i, end, text) == IF i = end THEN text ELSE <<>>
      body == FlattenSeq([i \in 1 .. Len(loaded) + 1 |->
                at(i, ends.receivers, receivers) \o at(i, ends.routes, routes)
                \o IF i \in DOMAIN loaded THEN <<loaded[i]>> ELSE <<>>])
      unplaced(end, text) == IF end = 0 THEN text ELSE <<>>
  IN body \o unplaced(ends.receivers, receivers) \o unplaced(ends.routes, routes)

-----------------------------------------------------------------------------
(* What is spliced. *)

\* renderReceiverYAMLForKind: one list item, its dash at column 0.
receiverYAML == <<Addition(Line(0, "- name:")), Addition(Line(2, "key"))>>

\* assembleRoutesYAML: a live route for every runbook receiver, under a key
\* that is left out when there is none, and a commented stub for a custom one.
assembleRoutesYAML(entries) ==
  LET runbooks == Only(entries, {ac \in ToSet(entries) : ~ac.custom})
      customs == Only(entries, {ac \in ToSet(entries) : ac.custom})
      header == <<Addition(Line(0, "#"))>>
      route == <<Addition(Line(2, "- matchers:")), Addition(Line(4, "key"))>>
  IN IF entries = <<>> THEN <<>>
     ELSE header
          \o (IF runbooks = <<>> THEN <<>> ELSE <<Addition(Line(0, "routes:"))>>)
          \o FlattenSeq([i \in DOMAIN runbooks |-> route])
          \o FlattenSeq([i \in DOMAIN customs |-> header])

\* An Alertmanager that answered, with its configuration and the names in it.
Reached(config, names) == [reachable |-> TRUE, config |-> config, names |-> names]

\* handleExportDiff takes a receiver for loaded if "name: <it>" occurs anywhere
\* in the text, so also when it only begins a longer name.
AlreadyLoaded(ac, loadedNames) == \E n \in loadedNames : IsPrefix(ac.name, n)

\* handleExportDiff, for one Alertmanager: nothing to show if it cannot be
\* reached, returned no configuration, or has everything already.
handleExportDiff(am, scoped) ==
  LET toAdd == Only(scoped, {ac \in ToSet(scoped) : ~AlreadyLoaded(ac, am.names)})
  IN IF ~am.reachable \/ am.config = <<>> \/ toAdd = <<>> THEN am.config
     ELSE Splice(am.config, FlattenSeq([i \in DOMAIN toAdd |-> receiverYAML]), assembleRoutesYAML(toAdd))

\* handleExport: the whole of the channel's text, whatever is loaded.
handleExport(scoped) ==
  [receivers |-> FlattenSeq([i \in DOMAIN scoped |-> receiverYAML]), routes |-> assembleRoutesYAML(scoped)]

-----------------------------------------------------------------------------
(* Properties. *)

Loaded(document) == Only(document, {l \in ToSet(document) : ~l.added})
Added(document) == Only(document, {l \in ToSet(document) : l.added})

IsItem(line) == line.text = "- name:"
Items(lines) == Cardinality({i \in DOMAIN lines : IsItem(lines[i])})

\* The additions to a loaded document: every one is there once, whole and in
\* order, wherever its block ends and even if it is missing; and nothing loaded
\* is lost, changed or moved.
MergeIsPureAddition(loaded, receivers, routes) ==
  LET merged == Splice(loaded, receivers, routes)
  IN /\ Loaded(merged) = loaded
     /\ Added(merged) \in {receivers \o routes, routes \o receivers}

\* What is added goes into the block, and after all of it.
Inside(loaded, open, end) == end > open /\ \A k \in open + 1 .. end - 1 : ~Closes(loaded[k], loaded[open].indent)
AfterAll(loaded, open, end) ==
  \A i \in DOMAIN loaded : InBlock(loaded, open, i) /\ Content(loaded[i]) => i < end

\* The lists as most configurations lay them out: the receivers deeper than their
\* key, with comments anywhere; the routes, and the comments above any of them, at
\* least four deep.
ReceiversDeep(loaded, open) ==
  \A i \in DOMAIN loaded : InBlock(loaded, open, i) /\ Content(loaded[i]) => loaded[i].indent > 0
RoutesDeep(loaded, open) ==
  \A i, j \in DOMAIN loaded :
    open < i /\ i <= j /\ InBlock(loaded, open, j) /\ Content(loaded[j]) /\ ~Blank(loaded[i]) =>
      loaded[i].indent >= 4

\* What is added to the receivers, and to the route's own list of routes, goes into
\* that block, also if its dashes stand below the key, and if the list is laid out
\* as above after everything that was in it.  Of routes under a key that is itself
\* four deep nothing is said.
AdditionsEndTheirBlock(loaded) ==
  LET ends == Ends(loaded)
      own == {h \in DOMAIN loaded : /\ loaded[h].text = "routes:" /\ loaded[h].indent < 4
                                   /\ \A i \in 1 .. h - 1 : loaded[i].text # "routes:"}
  IN /\ \A open \in {i \in DOMAIN loaded : Opens(loaded[i], "receivers:")} :
          /\ Inside(loaded, open, ends.receivers)
          /\ ReceiversDeep(loaded, open) => AfterAll(loaded, open, ends.receivers)
     /\ \A h \in own : /\ Inside(loaded, h, ends.routes)
                       /\ RoutesDeep(loaded, h) => AfterAll(loaded, h, ends.routes)

\* The diff adds at most one item for each receiver whose name is not loaded, and
\* exactly one unless such a name begins a longer one that is; once all are loaded
\* there is nothing to show, and an Alertmanager that cannot be reached has
\* nothing added to it.
DiffAddsWhatIsMissing(am, scoped) ==
  LET diff == handleExportDiff(am, scoped)
      added == Items(Added(diff))
      missing == {i \in DOMAIN scoped : scoped[i].name \notin am.names}
      all == [am EXCEPT !.names = {scoped[i].name : i \in DOMAIN scoped}]
  IN /\ Loaded(diff) = am.config
     /\ added <= Cardinality(missing)
     /\ am.reachable /\ am.config # <<>>
        /\ (\A i \in missing, n \in am.names : ~IsPrefix(scoped[i].name, n)) => added = Cardinality(missing)
     /\ handleExportDiff(all, scoped) = am.config
     /\ handleExportDiff([am EXCEPT !.reachable = FALSE], scoped) = am.config
=============================================================================
