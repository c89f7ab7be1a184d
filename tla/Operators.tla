------------------------------- MODULE Operators -------------------------------
(* The modules that only define operators, as one specification: which of them *)
(* is looked at, and an input of it.  The list of receivers, the input of      *)
(* ReceiverNames, grows and shrinks by commands; all other inputs are chosen   *)
(* initially and never change.                                                 *)
EXTENDS ReceiverChecks, AlertmanagerCalls, Commands

Export == INSTANCE ExportMerge

CONSTANTS
  Token,           \* the words that names consist of, and "-"
  Dests,           \* channels, each with its team
  Legacy,          \* lists from before names were qualified
  Targets,         \* what is given to add and remove
  Typed,           \* names given to add-custom
  Words,           \* names by which receivers are looked for
  MaxReceivers,    \* bound: nothing is added to a list of that length
  RoutingInputs,   \* inputs of AlertRouting, ReceiverChecks, ExportMerge,
  CheckInputs,     \*   AlertmanagerCalls and Commands
  ExportInputs,
  CallInputs,
  CommandInputs

Tokens == Seq(Token)

ASSUME ListsAssumption ==
  /\ "-" \in Token /\ Runbooks \cup DOMAIN Category \subseteq Tokens
  /\ Dests \subseteq [team : Tokens \ {<<>>}, channel : Tokens \ {<<>>}]
  /\ \A list \in Legacy : /\ list \in Seq(UNION {{Receiver(s, d, FALSE, s) : s \in Runbooks} : d \in Dests})
                           /\ UniqueNames(list)
  /\ Typed \cup Words \subseteq Tokens
  /\ Words \cap (DOMAIN Category \cup {NoName, <<"all">>}) = {}

Entries == [name : Tokens, dest : Dests, custom : BOOLEAN, typed : Tokens]

\* How a receiver came by its name: qualified from what was typed or, if it is
\* one of a runbook, perhaps before names were.
WellNamed(c) ==
  /\ c.typed # <<>> /\ Separators(c.typed) = {}
  /\ c.custom => /\ c.name = receiverNameForChannel(c.typed, c.dest)
                 /\ c.typed \notin Runbooks \cup DOMAIN Category \cup {<<"all">>}
  /\ ~c.custom => /\ c.name \in {receiverNameForChannel(c.typed, c.dest), c.typed}
                  /\ c.typed \in Runbooks

\* A list as commands leave it: no two receivers have a name, nor two of a
\* channel what was typed for them.
ListOK(list) ==
  /\ list \in Seq(Entries) /\ UniqueNames(list)
  /\ \A c \in ToSet(list) : WellNamed(c)
  /\ \A c, d \in ToSet(list) : c.dest = d.dest /\ c.typed = d.typed => c = d

\* Alertmanager refuses two receivers of one name, so the operator's routes
\* have others.
ASSUME RoutingAssumption ==
  \A i \in RoutingInputs :
    /\ ListOK(i.list) /\ <<"default">> \notin NamesOf(i.list)
    /\ i.dests \in Seq(Dests)
    /\ \A own \in {i.before, i.after} :
         /\ own \in Seq(ToSet(own))
         /\ \A r \in ToSet(own) : r.receiver \notin NamesOf(i.list) \cup {<<"default">>}

\* The receivers that a configuration lists: the items of a receivers block.
Listed(text) ==
  {text[n] : n \in {k \in DOMAIN text :
    /\ text[k].kind = "name"
    /\ \E j \in 1 .. k - 1 : /\ text[j].kind = "key" /\ text[j].key = "receivers:"
                             /\ \A m \in j + 1 .. k - 1 : text[m].kind # "key"}}

ASSUME ChecksAssumption ==
  \A i \in CheckInputs :
    /\ i.configs \in Seq(ToSet(i.configs)) /\ UniqueNames(i.configs)
    /\ \A c \in ToSet(i.configs) : c.am \in DOMAIN i.answers
    /\ \A url \in DOMAIN i.answers : i.answers[url].outcome = "ok" =>
         /\ i.answers[url].text \in Seq(ToSet(i.answers[url].text))
         /\ i.answers[url].receivers = Listed(i.answers[url].text)

ASSUME ExportAssumption ==
  \A i \in ExportInputs : i.list \in Seq(Entries) /\ Export!Configuration(i.document)

ASSUME CallsAssumption ==
  CallInputs \subseteq [fates : Seq(Fates), inTime : Nat, tries : Nat \ {0}, buffered : BOOLEAN]

ASSUME CommandInputsAssumption ==
  \A i \in CommandInputs :
    /\ i.user.sysadmin \in BOOLEAN /\ DOMAIN i.user.roles \subseteq Teams
    /\ i.fields \in Seq(STRING) /\ i.fields # <<>> /\ i.fields[1] = "/alertmanager"
    /\ i.channel \in DOMAIN TeamOf

VARIABLES module, input

-----------------------------------------------------------------------------
(* Lists of receivers. *)

AddStep ==
  /\ Len(input) < MaxReceivers
  /\ \E target \in Targets, dest \in Dests : input' = Add(input, target, dest)

AddCustomStep ==
  /\ Len(input) < MaxReceivers
  /\ \E typed \in Typed, dest \in Dests : input' = AddCustom(input, typed, dest)

\* remove leaves everything else in its place.
Without(list, target, dest, force) == Only(list, ToSet(list) \ handleRemove(list, target, dest, force))

RemoveStep ==
  \E target \in Targets \cup Words, dest \in Dests, force \in BOOLEAN :
    input' = Without(input, target, dest, force)

\* Bound to Alertmanagers in turn, starting with either.
Bound(list, ams) ==
  [i \in DOMAIN list |->
     [name |-> list[i].name, dest |-> list[i].dest, custom |-> list[i].custom, typed |-> list[i].typed,
      am |-> ams[1 + (i % 2)], user |-> "u"]]

-----------------------------------------------------------------------------

InputsInit ==
  \/ module = "names" /\ input \in Legacy
  \/ module = "routing" /\ input \in RoutingInputs
  \/ module = "checks" /\ input \in CheckInputs
  \/ module = "export" /\ input \in ExportInputs
  \/ module = "calls" /\ input \in CallInputs
  \/ module = "commands" /\ input \in CommandInputs

InputsNext ==
  \/ module = "names" /\ (AddStep \/ AddCustomStep \/ RemoveStep) /\ UNCHANGED module
  \/ module # "names" /\ UNCHANGED <<module, input>>

InputsSpec == InputsInit /\ [][InputsNext]_<<module, input>>

\* A receiver's short or full name, typed in a channel, stands in every command
\* for the receiver added under it there and for no other (ReceiverNames).
ShortNamesMeanTheReceiverHere ==
  module = "names" => \A dest \in Dests : NamesStayHere(input, dest, Words)

\* Alerts that name a runbook fan out to its receivers and to no other, and the
\* simulations and synthetic alerts show where they go (AlertRouting).
AlertsFanOut ==
  module = "routing" =>
    /\ \A slug \in Runbooks, severity \in {<<"critical">>, <<"info">>} :
         FansOut(input.before, input.list, input.dests, input.after, [runbook |-> slug, severity |-> severity])
    /\ \A slug \in Runbooks, severity \in {"", "info", "all", "bad"} :
         \A extra \in {<<>>, <<Arg("alertname", <<"x">>, TRUE)>>, <<Arg("severity", <<"x">>, TRUE), Arg("", <<"x">>, TRUE)>>,
                       <<Arg("runbook", <<"x">>, TRUE)>>} :
           TestsTellTheTruth(input.list, input.dests, slug, severity, extra)

\* The inventory page, validate and Alertmanager agree on what is loaded, and
\* the page offers every channel in which its tests find a receiver and tests a
\* group as its runbooks one by one (ReceiverChecks).
InventoryTellsTheTruth ==
  /\ module = "checks" => ChecksAgree(input.configs, input.answers)
  /\ module = "names" => OffersWhatCanBeTested(input)
  /\ module = "routing" => GroupsAreTestedAsTheirRunbooks(input.list, input.dests)

\* What export merges into a loaded configuration changes nothing that is there,
\* is all there, goes into its block, in the usual layouts after all that was in
\* it, and is what is missing, whatever of it, or longer names, is loaded
\* (buildDiffAgainstLoaded and handleExportDiff; ExportMerge).
AdditionsLandWhereTheyBelong ==
  module = "export" =>
    LET shown == Export!handleExport(input.list)
    IN /\ Export!MergeIsPureAddition(input.document, shown.receivers, shown.routes)
       /\ Export!AdditionsEndTheirBlock(input.document)
       /\ \A loaded \in SUBSET (NamesOf(input.list) \cup {n \o <<"x">> : n \in NamesOf(input.list)}) :
            Export!DiffAddsWhatIsMissing(Export!Reached(input.document, loaded), input.list)

\* What expire_silence says is true, every answer that could be read is shown,
\* and the commands that silences suggests reach the silences they are listed
\* under (AlertmanagerCalls).
SilencesEndAsSaid ==
  /\ module = "calls" =>
       /\ \A silence \in {"active", "expired", "unknown"} : ExpiryIsTrue(input, silence)
       /\ \A status \in {200, 404}, body \in {"JSON", "not JSON", "too large"} :
            AnswersAreShown(input, [status |-> status, body |-> body, value |-> {}])
  /\ module = "names" =>
       LET list == Bound(input, <<"am1", "am2">>)
           calls == [am \in {"am1", "am2"} |-> Call(<<"answered">>, 1, 1, TRUE)]
           answers == [am \in {"am1", "am2"} |-> [status |-> 200, body |-> "JSON",
                         value |-> {[id |-> am, state |-> "active"], [id |-> "old", state |-> "expired"]}]]
       IN \A dest \in Dests : SuggestionsWork(list, dest, calls, answers)

\* Commands act where their caller has authority, and completion suggests what
\* they accept (Commands).
CompletionMatchesAuthority ==
  module = "commands" => /\ SuggestionsMatchAuthority(input.user, input.fields, input.channel)
                         /\ EndpointsMatchAuthority(input.user, input.channel)

\* add-custom "rejects names that would break the `<slug>--<team>-<channel>`
\* parsing contract" (validateCustomReceiverName): of every receiver, cutting its
\* name at the first "--" gives back what it was added as (violated).
ParsingContractHolds ==
  module = "names" => BoundaryUnambiguous(input)
=============================================================================
