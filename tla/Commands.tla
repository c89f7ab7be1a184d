-------------------------------- MODULE Commands --------------------------------
(* Who may do what: the dispatch of /alertmanager and its authorization, the   *)
(* suggestions made while a command is typed, and the plugin's HTTP endpoints  *)
(* (commands.go, http.go, plugin.go).                                          *)
EXTENDS Naturals, SequencesExt

CONSTANTS
  Teams,       \* slugs of the teams there are
  Archived,    \* those that are archived
  TeamOf       \* the team of each channel

ASSUME CommandsAssumption ==
  /\ Archived \subseteq Teams /\ "" \notin Teams
  /\ \A c \in DOMAIN TeamOf : TeamOf[c] \in Teams

\* A user: system administrator or not, and the roles in the teams joined.
User(sysadmin, roles) == [sysadmin |-> sysadmin, roles |-> roles]

IsTeamAdmin(user, team) == team \in DOMAIN user.roles /\ "team_admin" \in user.roles[team]

-----------------------------------------------------------------------------
(* Authorization. *)

requireSystemAdmin(user) == user.sysadmin

requireChannelTeamAdmin(user, channel) == user.sysadmin \/ IsTeamAdmin(user, TeamOf[channel])

\* A system administrator passes even with a team that does not exist.
requireTeamAdminBySlug(user, slug) == user.sysadmin \/ (slug \in Teams /\ IsTeamAdmin(user, slug))

-----------------------------------------------------------------------------
(* Dispatch.  A command is its fields and the channel it is typed in. *)

\* add takes a bare "on", anywhere, for the rotation flag.
FlagsOf(sub) == IF sub = "add" THEN {"--private", "on"} ELSE {"--private"}

\* Of what follows, flags can stand anywhere; the first of the rest is the team.
Positional(fields) == {i \in 3 .. Len(fields) : fields[i] \notin FlagsOf(fields[2])}
TargetTeam(fields) == IF Positional(fields) = {} THEN "" ELSE fields[Min(Positional(fields))]

Open == {"about", "alerts", "docs", "help", "list", "rules", "silences", "status"}
InChannel == {"config", "expire_silence", "remove", "rotate", "validate"}
ForSystem == {"metrics-token", "reconcile", "repair"}
IntoTeam == {"add", "add-custom"}

Diffs(fields) == fields[2] = "export" /\ "--diff-against-loaded" \in ToSet(fields)

\* The first thing each handler does, after reading its arguments.
Gate(user, fields, channel) ==
  LET sub == fields[2]
  IN CASE sub \in IntoTeam                    -> requireTeamAdminBySlug(user, TargetTeam(fields))
       [] sub \in InChannel                   -> requireChannelTeamAdmin(user, channel)
       [] sub \in ForSystem \/ Diffs(fields)  -> requireSystemAdmin(user)
       [] sub = "export" /\ ~Diffs(fields)    -> requireChannelTeamAdmin(user, channel)
       [] OTHER                               -> TRUE

executeCommand(user, fields, channel) ==
  CASE fields = <<>> \/ Head(fields \o <<"">>) # "/alertmanager" -> "ignored"
    [] Len(fields) = 1 /\ Head(fields) = "/alertmanager"         -> "missing subcommand"
    [] OTHER -> IF fields[2] \notin Open \cup InChannel \cup ForSystem \cup IntoTeam \cup {"export"} THEN "unknown subcommand"
                ELSE IF Gate(user, fields, channel) THEN "runs" ELSE "refused"

\* The teams whose receivers, channels, webhooks or silences a command that runs
\* changes, or whose webhooks it shows.
Touches(fields, channel) ==
  LET sub == fields[2]
  IN CASE sub \in IntoTeam                   -> {TargetTeam(fields)} \cap Teams
       [] sub \in ForSystem \/ Diffs(fields) -> Teams
       [] sub \in InChannel \cup {"export"} /\ ~Diffs(fields) -> {TeamOf[channel]}
       [] OTHER                              -> {}

-----------------------------------------------------------------------------
(* Suggestions. *)

\* Teams of the caller come without the archived ones, all teams with them.
handleAutocompleteTeams(user) ==
  IF user.sysadmin THEN Teams ELSE {t \in DOMAIN user.roles \ Archived : IsTeamAdmin(user, t)}

\* Mutant of extractTeamSlugFromParsed: add-custom is forgotten.
SlugOfAddOnly(fields) == IF Len(fields) >= 3 /\ fields[2] = "add" THEN fields[3] ELSE ""

extractTeamSlugFromParsed(fields) == IF Len(fields) >= 3 /\ fields[2] \in IntoTeam THEN fields[3] ELSE ""

\* The channels of the team in the command so far, or a hint what is wrong.
Hints == {"_fill-team-first_", "_team-not-found_", "_not-authorized_"}

handleAutocompleteChannels(user, fields) ==
  LET slug == extractTeamSlugFromParsed(fields)
  IN CASE slug = ""                         -> {"_fill-team-first_"}
       [] slug # "" /\ slug \notin Teams    -> {"_team-not-found_"}
       [] OTHER -> IF user.sysadmin \/ IsTeamAdmin(user, slug) THEN {c \in DOMAIN TeamOf : TeamOf[c] = slug}
                   ELSE {"_not-authorized_"}

-----------------------------------------------------------------------------
(* HTTP.  A request has a path, the user of its session and a bearer token. *)

NoUser == "no user"

handleMetrics(request, metricsToken) ==
  IF metricsToken = "" THEN "not found" ELSE IF request.bearer = metricsToken THEN "metrics" ELSE "unauthorized"

\* /metrics has its own token; everything else needs a session.
ServeHTTP(request, users, metricsToken) ==
  CASE request.path = "/metrics" -> handleMetrics(request, metricsToken)
    [] request.path # "/metrics" /\ request.user = NoUser -> "unauthorized"
    [] request.path # "/metrics" /\ request.user # NoUser ->
         CASE request.path = "/autocomplete/teams"    -> "teams"
           [] request.path = "/autocomplete/channels" -> "channels"
           [] request.path = "/admin/inventory" -> IF users[request.user].sysadmin THEN "inventory" ELSE "forbidden"
           [] OTHER -> "not found"

-----------------------------------------------------------------------------
(* Properties. *)

\* A command that runs touches only teams the user administers; and typing is
\* of one mind with running.  Every suggested team is one the command accepts,
\* and every team it accepts is suggested unless it is archived or unknown;
\* channels are listed exactly for a team that add and add-custom accept, when
\* the team comes first and is not itself read as a flag.
SuggestionsMatchAuthority(user, fields, channel) ==
  LET Accepts(team) == requireTeamAdminBySlug(user, team)
      listed == handleAutocompleteChannels(user, fields)
      runs == executeCommand(user, fields, channel) = "runs"
  IN /\ runs => \A t \in Touches(fields, channel) : user.sysadmin \/ IsTeamAdmin(user, t)
     /\ \A t \in Teams : Accepts(t) /\ (t \in Archived => user.sysadmin) <=> t \in handleAutocompleteTeams(user)
     /\ Len(fields) >= 3 /\ fields[2] \in IntoTeam /\ fields[3] \notin FlagsOf(fields[2]) =>
          /\ listed \cap Hints = {} => runs
          /\ runs /\ fields[3] \in Teams => listed = {c \in DOMAIN TeamOf : TeamOf[c] = fields[3]}

\* The endpoints are of one mind with the commands: a session sees the inventory
\* when and only when its user could run a command for the whole system in this
\* channel, and the metrics take their own token, session or not, while it is set.
EndpointsMatchAuthority(user, channel) ==
  \A path \in {"/metrics", "/autocomplete/teams", "/admin/inventory", "/other"},
     session \in {"me", NoUser}, bearer, token \in {"", "t"} :
    LET got == ServeHTTP([path |-> path, user |-> session, bearer |-> bearer], [me |-> user], token)
        forSystem == executeCommand(user, <<"/alertmanager", "reconcile">>, channel) = "runs"
    IN /\ got = "inventory" <=> path = "/admin/inventory" /\ session = "me" /\ forSystem
       /\ got = "metrics" <=> path = "/metrics" /\ token # "" /\ bearer = token
=============================================================================
