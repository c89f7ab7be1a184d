----------------------------- MODULE MCOperators -----------------------------
(* Each module of operators over all inputs of a bounded set; lists of three   *)
(* receivers or, when the last step adds two, of four.                         *)
EXTENDS Operators, TLC

-----------------------------------------------------------------------------
(* Lists of receivers. *)

\* Two runbooks in two categories, custom names, one of which ends in "-"; team
\* and channel names whose hyphens make two destinations share their qualified
\* names, and one channel whose name has "--".
TokenValue == {"-", "a", "b", "c", "d", "x", "cpu", "disk", "db", "my", "all", "compute", "storage"}
RunbooksValue == {<<"cpu">>, <<"disk">>}
CategoryValue == <<"compute">> :> {<<"cpu">>} @@ <<"storage">> :> {<<"disk">>}
D1 == Dest(<<"a">>, <<"b", "-", "c">>)
D2 == Dest(<<"a", "-", "b">>, <<"c">>)
D3 == Dest(<<"a">>, <<"b", "-", "-", "c">>)
D4 == Dest(<<"d">>, <<"c">>)
DestsValue == {D1, D2, D3, D4}
WordsValue == {<<"cpu">>, <<"disk">>, <<"db">>, <<"my", "-", "db">>, <<"cpu", "-">>}

TargetsValue == {<<"cpu">>, <<"storage">>, <<"all">>}
TypedValue == Words \cup {<<"compute">>, <<"cpu", "-", "-", "x">>}

\* From before names were qualified: the runbook's name alone.
LegacyValue == {<<>>} \cup {<<Receiver(<<"cpu">>, d, FALSE, <<"cpu">>)>> : d \in Dests}

\* Lists of up to two commands, for the inputs of the other modules.
Steps == [kind : {"add"}, typed : Targets, dest : Dests \ {D3}]
         \cup [kind : {"custom"}, typed : Typed, dest : Dests \ {D3}]

ListAfter(steps) ==
  FoldLeft(LAMBDA list, s : IF s.kind = "add" THEN Add(list, s.typed, s.dest) ELSE AddCustom(list, s.typed, s.dest),
           <<>>, steps)

-----------------------------------------------------------------------------
(* Inputs of the other modules. *)

OwnRoutes == {<<>>, <<Route([runbook |-> <<"cpu">>], <<"pager">>, FALSE)>>,
              <<Route("severity" :> <<"critical">>, <<"oncall">>, TRUE)>>}

SmallLists == {ListAfter(steps) : steps \in [1 .. 2 -> Steps]}

RoutingInputsValue ==
  [list : SmallLists, dests : {<<D1>>, <<D1, D4>>, <<D4, D2, D1>>}, before : OwnRoutes, after : OwnRoutes]

Plain(name) == Item(NoPrefix, name)
Prefixed(name) == Item(<<"ns/config/">>, name)
FullName == receiverNameForChannel(<<"cpu">>, D1)
Configurations ==
  {LET inReceivers == SetToSeq(has)
       inOthers == IF muted THEN <<Plain(FullName)>> ELSE <<>>
       receivers == <<Key("receivers:")>> \o inReceivers \o <<OtherLine>>
       others == <<Key("time_intervals:")>> \o inOthers
   IN Answer("ok", IF first THEN receivers \o others ELSE others \o receivers, has) :
     has \in SUBSET {Plain(FullName), Prefixed(FullName), Plain(<<"pager">>)}, muted \in BOOLEAN, first \in BOOLEAN}
Silent == {Answer("garbage", <<OtherLine>>, {}), Answer("refused", NoConfig, {}), Answer("bad status", NoConfig, {})}

CheckInputsValue ==
  {[configs |-> Bound(list, ams), answers |-> "am1" :> a1 @@ "am2" :> a2 @@ NoURL :> Answer("refused", NoConfig, {})] :
     list \in {ListAfter(s) : s \in [1 .. 2 -> {t \in Steps : t.typed = <<"cpu">> /\ t.dest \in {D1, D4}}]},
     ams \in {<<"am1", "am2">>, <<"am2", "am1">>, <<"am1", "am1">>, <<NoURL, "am1">>},
     a1 \in Configurations \cup Silent, a2 \in {a \in Configurations : Cardinality(a.receivers) = 1} \cup Silent}

\* Configurations with their blocks in every order, comments or blank lines in
\* between, and the ways to lay out a list: the dashes of the receivers indented,
\* with a comment among them, or below the key as the Prometheus Operator writes
\* them; no routes, or routes four deep, nested, with a key after them, below
\* their key, or under a comment that is less deep.
L(indent, text) == Export!Line(indent, text)
Receivers ==
  {<<L(0, "receivers:"), L(2, "- name:"), L(4, "key"), L(0, "#"), L(2, "- name:")>>,
   <<L(0, "receivers:"), L(0, "- name:"), L(2, "key")>>}
RouteTails ==
  {<<>>,
   <<L(2, "routes:"), L(4, "- matchers:"), L(6, "key")>>,
   <<L(2, "routes:"), L(4, "- matchers:"), L(6, "routes:"), L(8, "- matchers:"), L(2, "group_wait:")>>,
   <<L(2, "routes:"), L(2, "- matchers:"), L(4, "key")>>,
   <<L(2, "routes:"), L(2, "#"), L(4, "- matchers:")>>}
Gaps == {<<>>, <<L(0, "#"), L(0, "blank")>>}
Blocks(receivers, route, gap) ==
  {<<L(0, "global:"), L(2, "key")>> \o gap, receivers \o gap, <<L(0, "route:"), L(2, "receiver:")>> \o route \o gap}
Documents ==
  UNION {{FlattenSeq(s) : s \in UNION {SetToSeqs(b) : b \in SUBSET Blocks(receivers, route, gap)}} :
           receivers \in Receivers, route \in RouteTails, gap \in Gaps}

\* The receivers of one channel.
ExportInputsValue ==
  [document : Documents, list : {l \in SmallLists : Len(l) <= 2 /\ \E d \in {D1, D4} : \A ac \in ToSet(l) : ac.dest = d}]

CallInputsValue ==
  {Call(fates, inTime, tries, buffered) :
     fates \in [1 .. 3 -> Fates], inTime \in 0 .. 3, tries \in 1 .. 3, buffered \in BOOLEAN}

TeamOfValue == [c1 |-> "t1", c2 |-> "t2", c3 |-> "t2"]
Users == {User(sysadmin, roles) : sysadmin \in BOOLEAN,
          roles \in UNION {[T -> {{"team_user"}, {"team_user", "team_admin"}}] : T \in SUBSET Teams}}
CommandInputsValue ==
  {[user |-> user, fields |-> <<"/alertmanager">> \o rest, channel |-> channel] :
     user \in Users, channel \in {"c1", "c2"},
     rest \in {<<sub>> : sub \in Open \cup InChannel \cup ForSystem \cup IntoTeam \cup {"export", "what"}}
              \cup {<<sub, arg>> : sub \in IntoTeam \cup {"export"},
                                   arg \in {"t1", "old", "none", "on", "--private", "--diff-against-loaded"}}
              \cup {<<sub, arg, "t2">> : sub \in IntoTeam, arg \in {"t1", "on", "--private"}}}
=============================================================================
