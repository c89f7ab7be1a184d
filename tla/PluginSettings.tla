---------------------------- MODULE PluginSettings ----------------------------
(* The settings of System Console and what one pod makes of them               *)
(* (server/configuration.go, tls.go, cmd_metrics_token.go). The server stores one *)
(* map of settings. System Console changes one setting of it; the metrics-token   *)
(* command reads the map, changes the token and writes the whole map back. After   *)
(* every save the server calls OnConfigurationChange, and calls may overlap: each   *)
(* reads the map and then swaps three things, one after the other, of which only   *)
(* the second is under configWriteMu.                                              *)
EXTENDS Integers, FiniteSets

CONSTANTS
  Hooks,      \* calls of OnConfigurationChange that may be under way at once
  Admins,     \* system administrators who rotate the metrics token
  MaxTokens,  \* bound: tokens ever generated
  MaxSaves,   \* bound: changes made in System Console
  Nobody      \* nobody holds the mutex

ASSUME PluginSettingsAssumption ==
  /\ MaxTokens \in Nat /\ MaxSaves \in Nat
  /\ Nobody \notin Hooks \cup {"reload"} /\ "reload" \notin Hooks

VARIABLES
  stored,   \* the settings map of the server
  pending,  \* notifications not delivered yet
  hook,     \* the calls of OnConfigurationChange
  mutex,    \* configWriteMu
  conf,     \* the running configuration: metrics token and CA bundle
  allow,    \* the destination allowlist of the alertmanager package
  client,   \* the CA bundle its HTTP client was built with
  reload,   \* a reload of the receiver list: the configuration it has read, or Nobody
  cmd,      \* what each administrator's metrics-token command is doing
  tokens,   \* tokens generated so far
  saves,    \* changes made in System Console so far
  recent,   \* history: the settings that calls were working on when one last began
  failed    \* history: the last call could not read the settings

vars == <<stored, pending, hook, mutex, conf, allow, client, reload, cmd, tokens, saves, recent, failed>>
served == <<conf, allow, client>>
console == <<stored, pending, cmd, tokens, saves>>
history == <<recent, failed>>

(* rawConfiguration. The webhook host is good or rejected by validateWebhookHost; *)
(* the list of networks is empty, usable or has no usable entry; the CA bundle      *)
(* stands for the settings that are only copied.                                    *)
Raw == [token : 0..MaxTokens, host : BOOLEAN, cidrs : {"empty", "nets", "junk"}, ca : 0..1]
Conf == [token : 0..MaxTokens, ca : 0..1]

\* newConfiguration, as far as the settings go.
Settings(raw) == [token |-> raw.token, ca |-> raw.ca]

Idle == [pc |-> "idle", raw |-> Nobody]
Running == {h \in Hooks : hook[h].pc # "idle"}

(* LoadPluginConfiguration, and the webhook host is checked: a bad one ends the    *)
(* call before anything is swapped.                                                 *)
Load(h) ==
  /\ hook[h].pc = "idle" /\ pending > 0
  /\ pending' = pending - 1
  /\ hook' = [hook EXCEPT ![h] = IF stored.host THEN [pc |-> "allow", raw |-> stored] ELSE Idle]
  /\ recent' = IF stored.host THEN {hook[g].raw : g \in Running} \cup {stored} ELSE recent
  /\ failed' = FALSE
  /\ UNCHANGED <<stored, mutex, served, reload, cmd, tokens, saves>>

LoadFails(h) ==
  /\ hook[h].pc = "idle" /\ pending > 0
  /\ pending' = pending - 1
  /\ failed' = TRUE
  /\ UNCHANGED <<stored, hook, mutex, served, reload, cmd, tokens, saves, recent>>

\* What a list without a usable entry makes of the allowlist.
Unusable(old) == IF old = "nets" THEN "nets" ELSE "deny"

(* updateAlertmanagerAllowlist, before the mutex. HasUsableAllowlist and            *)
(* SetDenyAll are two steps.                                                        *)
Allowlist(h) ==
  LET raw == hook[h].raw IN
  /\ hook[h].pc = "allow"
  /\ IF raw.cidrs = "junk"
     THEN /\ UNCHANGED allow
          /\ hook' = [hook EXCEPT ![h].pc = IF Unusable(allow) = allow THEN "lock" ELSE "deny"]
     ELSE /\ allow' = IF raw.cidrs = "nets" THEN "nets" ELSE "public"
          /\ hook' = [hook EXCEPT ![h].pc = "lock"]
  /\ UNCHANGED <<console, mutex, conf, client, reload, history>>

DenyAll(h) ==
  /\ hook[h].pc = "deny"
  /\ allow' = "deny"
  /\ hook' = [hook EXCEPT ![h].pc = "lock"]
  /\ UNCHANGED <<console, mutex, conf, client, reload, history>>

\* Mutant of Lock: the configuration is swapped without the mutex.
LockNothing(h) ==
  /\ hook[h].pc = "lock"
  /\ hook' = [hook EXCEPT ![h].pc = "swap"]
  /\ UNCHANGED <<console, mutex, served, reload, history>>

Lock(h) ==
  /\ hook[h].pc = "lock" /\ mutex = Nobody
  /\ mutex' = h
  /\ hook' = [hook EXCEPT ![h].pc = "swap"]
  /\ UNCHANGED <<console, served, reload, history>>

\* Mutant of Unreadable: the mutex stays locked.
UnreadableKeepsMutex(h) ==
  /\ hook[h].pc = "swap"
  /\ conf' = Settings(hook[h].raw)
  /\ hook' = [hook EXCEPT ![h].pc = "client"]
  /\ UNCHANGED <<console, mutex, allow, client, reload, history>>

(* The receiver list cannot be read: the last-known one stays (ConfigSync), and     *)
(* the settings are applied all the same.                                            *)
Unreadable(h) ==
  /\ hook[h].pc = "swap"
  /\ conf' = Settings(hook[h].raw)
  /\ mutex' = Nobody
  /\ hook' = [hook EXCEPT ![h].pc = "client"]
  /\ UNCHANGED <<console, allow, client, reload, history>>

Swap(h) ==
  /\ hook[h].pc = "swap"
  /\ conf' = Settings(hook[h].raw)
  /\ mutex' = Nobody
  /\ hook' = [hook EXCEPT ![h].pc = "client"]
  /\ UNCHANGED <<console, allow, client, reload, history>>

(* updateAlertmanagerHTTPClient, after the teams were looked up. *)
Client(h) ==
  /\ hook[h].pc = "client"
  /\ client' = hook[h].raw.ca
  /\ hook' = [hook EXCEPT ![h] = Idle]
  /\ UNCHANGED <<console, mutex, conf, allow, reload, history>>

OnConfigurationChange(h) ==
  Allowlist(h) \/ DenyAll(h) \/ Lock(h) \/ Unreadable(h) \/ Swap(h) \/ Client(h)

(* applyAlertConfigsToMemory, called with the mutex held by a reload or a write of  *)
(* the receiver list: it reads the running configuration and swaps in a copy that    *)
(* differs in the list only.                                                          *)
ReloadBegin ==
  /\ mutex = Nobody /\ reload = Nobody
  /\ mutex' = "reload"
  /\ reload' = conf
  /\ UNCHANGED <<console, hook, served, history>>

ReloadEnd ==
  /\ reload # Nobody
  /\ conf' = reload
  /\ reload' = Nobody
  /\ mutex' = Nobody
  /\ UNCHANGED <<console, hook, allow, client, history>>

\* Mutant of Rewritten: one key is missing from the map.
RewrittenWithoutCa(raw, token) == [raw EXCEPT !.token = token, !.ca = 0]

(* toConfigMap with the new token. *)
Rewritten(raw, token) == [raw EXCEPT !.token = token]

(* metrics-token generate: a new token, and the settings are read. *)
Generate(a) ==
  /\ cmd[a] = Nobody /\ tokens < MaxTokens
  /\ tokens' = tokens + 1
  /\ cmd' = [cmd EXCEPT ![a] = [raw |-> stored, token |-> tokens + 1]]
  /\ UNCHANGED <<stored, pending, hook, mutex, served, reload, saves, history>>

(* SavePluginConfig replaces the whole map; the token is shown to its administrator. *)
SaveToken(a) ==
  /\ cmd[a] # Nobody
  /\ stored' = Rewritten(cmd[a].raw, cmd[a].token)
  /\ pending' = pending + 1
  /\ cmd' = [cmd EXCEPT ![a] = Nobody]
  /\ UNCHANGED <<hook, mutex, served, reload, tokens, saves, history>>

SaveTokenFails(a) ==
  /\ cmd[a] # Nobody
  /\ cmd' = [cmd EXCEPT ![a] = Nobody]
  /\ UNCHANGED <<stored, pending, hook, mutex, served, reload, tokens, saves, history>>

(* System Console saves one setting. *)
Console ==
  /\ saves < MaxSaves
  /\ saves' = saves + 1
  /\ pending' = pending + 1
  /\ stored' \in {[stored EXCEPT !.host = ~@], [stored EXCEPT !.ca = 1 - @],
                  [stored EXCEPT !.token = 0]}
                 \cup {[stored EXCEPT !.cidrs = c] : c \in {"empty", "nets", "junk"}}
  /\ UNCHANGED <<hook, mutex, served, reload, cmd, tokens, history>>

Next ==
  \/ \E h \in Hooks : Load(h) \/ LoadFails(h) \/ OnConfigurationChange(h)
  \/ ReloadBegin \/ ReloadEnd
  \/ \E a \in Admins : Generate(a) \/ SaveToken(a) \/ SaveTokenFails(a)
  \/ Console

\* OnActivate has run, on a good host.
Init ==
  /\ \E cidrs \in {"empty", "nets", "junk"} :
       /\ stored = [token |-> 0, host |-> TRUE, cidrs |-> cidrs, ca |-> 0]
       /\ allow = IF cidrs = "junk" THEN Unusable("public")
                  ELSE IF cidrs = "nets" THEN "nets" ELSE "public"
  /\ conf = Settings(stored) /\ client = stored.ca
  /\ pending = 0 /\ hook = [h \in Hooks |-> Idle] /\ mutex = Nobody /\ reload = Nobody
  /\ cmd = [a \in Admins |-> Nobody] /\ tokens = 0 /\ saves = 0
  /\ recent = {stored} /\ failed = FALSE

Spec == Init /\ [][Next]_vars

(* Calls return and goroutines go on. A hook that waits for a mutex which reloads   *)
(* take again and again gets it in the end (Go's mutex hands itself over).           *)
LiveSpec ==
  /\ Spec
  /\ WF_vars(ReloadEnd)
  /\ \A h \in Hooks : WF_vars(OnConfigurationChange(h)) /\ SF_vars(Lock(h))

-----------------------------------------------------------------------------
\* Every variable has its type; a hook that is swapping holds the mutex.
Call == [pc : {"idle", "allow", "deny", "lock", "swap", "client"},
         raw : Raw \cup {Nobody}]
TypeOK ==
  /\ stored \in Raw /\ conf \in Conf /\ client \in 0..1
  /\ allow \in {"public", "nets", "deny"}
  /\ pending \in 0..(MaxTokens + MaxSaves)
  /\ mutex \in Hooks \cup {"reload", Nobody} /\ reload \in Conf \cup {Nobody}
  /\ hook \in [Hooks -> Call]
  /\ \A h \in Hooks : hook[h].pc = "swap" <=> mutex = h
  /\ cmd \in [Admins -> [raw : Raw, token : 1..MaxTokens] \cup {Nobody}]
  /\ tokens \in 0..MaxTokens /\ saves \in 0..MaxSaves
  /\ recent \subseteq Raw /\ failed \in BOOLEAN

\* The allowlists that a list of networks can lead to.
Lists(cidrs) ==
  CASE cidrs = "empty" -> {"public"}
    [] cidrs = "nets" -> {"nets"}
    [] cidrs = "junk" -> {"nets", "deny"}

(* Once the saves have been announced and the calls have finished, what is stored is  *)
(* among the settings that calls worked on when the last one began, and each of the     *)
(* three things the pod swaps is made of such settings: exactly what is stored if the   *)
(* last call found no other under way, and otherwise nothing older than what the calls  *)
(* it found had read, each thing perhaps of another call. This is so although reloads    *)
(* of the receiver list put the settings back that they had read, the list may have      *)
(* been unreadable, and a bad host ended earlier calls at once. Exceptions: a host that  *)
(* is still bad, and a last call that could not read the settings.                        *)
SettledServesStored ==
  pending = 0 /\ Running = {} /\ reload = Nobody /\ ~failed /\ stored.host =>
    /\ stored \in recent
    /\ conf \in {Settings(raw) : raw \in recent}
    /\ client \in {raw.ca : raw \in recent}
    /\ allow \in UNION {Lists(raw.cidrs) : raw \in recent}

(* The metrics-token command persists the token "without disturbing the other System *)
(* Console settings": whatever else changes with its write was saved in System         *)
(* Console while the command had the map in hand, and goes back to what it was then.    *)
TokenDisturbsOnlyRaces ==
  [][\A a \in Admins : cmd[a] # Nobody /\ stored' # stored /\ cmd'[a] = Nobody =>
       \A f \in {"host", "cidrs", "ca"} :
         stored'[f] # stored[f] => stored'[f] = cmd[a].raw[f]]_vars

(* Every call of OnConfigurationChange returns, whoever else wants the mutex.          *)
HooksReturn == \A h \in Hooks : hook[h].pc # "idle" ~> hook[h].pc = "idle"

=============================================================================
