# TLA+ models of the Alertmanager plugin

The plugin lets Mattermost administrators create, rotate and remove *receivers*:
named entries, each carrying the id of a Mattermost incoming webhook, that
Alertmanager posts to. It runs as one process per Mattermost server ("pod"),
several at a time in a cluster. Its durable state is one value in the plugin KV
store (the receiver list), a few other keys, and objects in Mattermost itself
(webhooks, channels, posts) that it creates and is expected to take away again.
All the difficulty is in between: several pods, several goroutines per pod, no
transaction across KV and Mattermost, and every call able to fail half-way.

Line references are to files under `server/` unless they say otherwise.

## 1. The system

| Component | State | Operations | What is hard, and what makes it correct |
|---|---|---|---|
| Receiver list store (`configuration.go`, `updateConfigsAtomic` in `cmd_lifecycle.go`, `cmd_repair.go`) | the KV value, a copy in every pod's memory, `configWriteMu` | load, validate, read-modify-write by compare-and-set with 5 attempts, repair | pods race on one value, a write may succeed and report failure, the value may be damaged. No update is lost, the stored list always parses, the cap holds |
| Lifecycle commands (`cmd_scaffold.go`, `cmd_lifecycle.go`) | none of their own | add, add-custom, remove one/all/set, rotate, rotate all overdue | webhook calls and the list write are separate steps, so a failure leaves one without the other. No webhook leaks and none is deleted while a receiver uses it |
| Destination channels (`resolveOrCreateChannel`, `rollbackCreatedChannel`) | Mattermost channels | find or create; archive again after a failed add | the check "is anybody using it" and the archive are two calls. Only an own, unused channel is archived |
| Incoming webhooks (`incoming_webhook.go`) | Mattermost webhooks, short-lived access tokens | create, delete, probe over loopback HTTP | a reply may be lost |
| Reconciler (`reconciler.go`) | last-run time | prune receivers whose webhook is gone; call the reminders and the janitor | it decides on a snapshot and slow probes, writes much later |
| Rotation reminders (`checkRotationReminders`) | `LastRotatedAt`, `LastReminderAt` of each entry | detect, one message per channel, stamp | messages go out before the stamps; detection reads memory, stamps go to KV |
| Configuration sync (`plugin.go`, `configuration.go`) | in-memory list, ticker and `done` channels | cluster event, two-minute poll, settings change, activate, deactivate | events are lost and late, the poll races with shutdown. No pod goes back in time, all catch up, shutdown ends |
| YAML janitor (`yaml_janitor.go`, `dmYAMLBundle`) | one KV record per sent post | record a post, sweep expired ones | paging while deleting, calls that fail half-way, a TTL that changes |
| Plugin settings (`OnConfigurationChange`, `cmd_metrics_token.go`, `tls.go`) | the server's settings map; in the pod: the running configuration, the destination allowlist, the HTTP client | apply a change, rotate the metrics token | calls overlap, swap three things one after the other, and share one of them with reloads of the list; the token command writes the whole map back. After calls that did not overlap the pod runs on what is stored, after overlapping ones on nothing older than what these had read |
| Bulk rotation (`handleRotateOverdue`) | none of its own | rotate every overdue webhook of a channel, one after the other | what is overdue is looked up once, the mutex is taken per rotation. Nothing is passed over in silence, no webhook is replaced that nobody asked to replace |
| Alertmanager probe cache (`am_probe.go`) | a `sync.Map` with TTL and cap | look up, probe, evict, store | no lock: concurrent misses evict and store past each other. The overshoot is bounded, answers are recent |
| Names and scope (`resolveReceiverName`, `receiverNameForChannel`, ...) | none | build a receiver's name; find it again by full or short name | names are cut at `--`, and bases, teams and channels contain hyphens. A name means the receiver added under it in this channel |
| Routes and their tests (`assembleRoutesYAML`, `cmd_validate.go`, `admin_inventory.go`) | none | generate routes, simulate them, fire synthetic alerts | exports of several channels are pasted around the operator's own routes. Alerts reach all receivers of their runbook and the simulations agree with Alertmanager |
| Validation and inventory (`cmd_validate.go`, `admin_inventory.go`) | none | report and page: what is loaded, reachable, drifted; groups, dropdowns, tests | the same facts derived along different paths, prefixed names, answers that do not parse. They must agree |
| Export and merge (`cmd_export.go`) | none | export a channel, splice it into a loaded configuration | line-based splicing of a format with several layouts. What is there stays; what is missing is added once, inside its block |
| Queries and silences (`cmd_query.go`, `alertmanager/`) | none | status, alerts, silences, expire, over retried HTTP calls | lost answers, two deadlines, a body read later than its headers. What is said of a silence is true |
| Commands and HTTP routing (`commands.go`, `http.go`, `plugin.go`) | none | dispatch, authorization, autocompletion, endpoints | authorization and completion read the typed command separately |
| Outbound guard (`ssrf.go`), help, start-up, build tools | allowlist | classify addresses; text | section 9 |

How they interact: a slash command resolves or creates a **channel**, creates a
**webhook** in it, and appends to the **list** under compare-and-set; on failure
it undoes the first two. The **reconciler** (one pod at a time, chosen by
`cluster.Schedule`) probes webhooks and prunes the list through the same
compare-and-set, then runs the **reminders** and the **janitor**. **Bulk rotation** is
a loop of single rotations through the same path. Every write to the
list is applied to the writer's memory and announced by a cluster event; the
**configuration sync** brings the other pods along. Commands decide what to do from
the pod's *memory* and write to the *KV* value: most hazards come from that gap.
Reports, exports, tests and the inventory page read the same memory and ask the
**Alertmanagers** the receivers are bound to, through the client and allowlist that the
**settings** install and, for the state of an Alertmanager, through the **probe cache**.

## 2. Modules

| Module | Models | Section |
|---|---|---|
| `ReceiverStore` | list store, lifecycle commands, webhooks, the reconciler's prune, repair, reloads, crashes | 3.1 |
| `ReceiverRegistry` | abstract specification: one list, atomic commands | 3.1 |
| `ConfigSync` | configuration sync and the life of the plugin process | 3.2 |
| `ChannelRollback` | creation and rollback of destination channels | 3.3 |
| `RotationReminders` | rotation clocks and reminders | 3.4 |
| `YamlJanitor` | delivery records and the sweep | 3.5 |
| `ProbeCache` | the reachability cache under concurrent calls | 3.6 |
| `BulkRotation` | `rotate all --overdue` between other commands | 3.7 |
| `PluginSettings` | settings changes, the metrics-token command, and what the pod serves | 3.8 |
| `ReceiverNames` | names, and how commands find receivers by them | 3.9 |
| `AlertRouting` (extends `ReceiverNames`) | generated routes, Alertmanager's walk, simulations, synthetic alerts | 3.9 |
| `ReceiverChecks` (extends `AlertRouting`) | validate report, inventory page and its tests | 3.9 |
| `ExportMerge` | export and its splice into a loaded configuration | 3.9 |
| `AlertmanagerCalls` (extends `ReceiverNames`) | retried calls, queries and silences | 3.9 |
| `Commands` | dispatch, authorization, completion, endpoints | 3.9 |
| `Lists` (extended by `ReceiverNames` and `ExportMerge`) | what they all do with lists and label sets | 3.9 |
| `Operators` | the six together: a list that commands build, or an input of the others; what they promise of it | 3.9 |
| `ReceiverStore_proofs` and one each for the channels, reminders, janitor, cache, bulk rotation and settings | theorems about that state machine | 6 |
| `ServedLists_proofs` | theorems about `ConfigSync`, which list a pod serves, and about `Operators`, what is made of a list | 6 |
| `MC*` | constants, symmetry and inputs for TLC | 4 |

The modules share the receiver list but look at different gaps around it, so each
abstracts what another details: `ReceiverStore` details commands and abstracts
channels; `ChannelRollback` details channels and reduces a list write to one step
that succeeds or fails, which `CommandsAreAtomic` (section 3.1) justifies;
`RotationReminders` treats commands and its own stamp as atomic writes for the same
reason; `ConfigSync` keeps only the number of the last write, and `PluginSettings` only
the settings, with reloads as steps that must not disturb them; `BulkRotation` reduces a
rotation to lock, create and write and leaves the deletion of webhooks to
`ReceiverStore` and the age of a rotation to `RotationReminders`.

The six modules of section 3.9 before `Lists` have no variables: they are the plugin's pure functions as
operators, with the agreements between them stated as predicates over their inputs.
`Operators` composes all six. Its state is an input of one module: a list of receivers, which
grows and shrinks by `add`, `add-custom` and `remove`, or an input of another module, chosen
initially. Its assumptions say which inputs these may be; its invariants are the promises.

`TypeOK` in each of the eight state machines says what shapes their variables take. It is a
theorem in all of them (`TypeCorrect`); the runs check the properties below instead. For
`Operators`, `ListsStayOK` takes its place.

Operators named as a mutant of a definition (`AcceptsAnyList`, `ReadFailsForgets`,
...) are variants of it with one plausible bug, kept beside it to show that the
properties notice; no specification uses them.

## 3. Models and code

### 3.1 ReceiverStore, ReceiverRegistry

A *worker* is a goroutine that runs one operation at a time. `req[w].pc` is the
external call it makes next, so the interleavings are exactly those the code
allows between two external calls:

| pc | the call | code |
|---|---|---|
| `mint` | create the webhook | `createIncomingWebhook`, from handleAdd, handleAddCustom, handleRotateSingle |
| `probe` | probe each distinct webhook (reconcile) | `reconcileOrphans`, before the mutex |
| `lock` | wait for `configWriteMu` (reconcile) | `reconcileOrphans`; commands take it as their first step |
| `read` | KVGet, validate, transform, validate again | `updateConfigsAtomic` |
| `cas` | KVCompareAndSet and, if it wins, apply to memory | `updateConfigsAtomic` |
| `retire` | delete webhooks, one call each | the commands' tails and their rollbacks |
| `apply` | swap in what a reload has read | `reloadAlertConfigsFromKV` |

The commands' begin actions read the pod's memory, which may be stale, exactly
where the handlers read `getConfiguration()`. The transforms are the closures the
handlers pass to `updateConfigsAtomic` (`Added`, `Repointed`, `Removed`, `Pruned`).
The environment crashes and restarts pods, deletes webhooks in System Console and,
when `Faults`, damages the stored value and makes a compare-and-set report an
error although it wrote.

Abstracted: the list is a set (order matters to no command, and webhook ids are
never reused, so equal sets are equal bytes in the compare-and-set); an entry is
its name and webhook; team and channel follow from the name (`DestOf`); deleting a
webhook that is gone counts as success, as in the code.

Properties:

- `StoredListIsValid`: the stored value always parses; otherwise every pod's next
  load fails.
- `CommandsAreAtomic`: the store implements `ReceiverRegistry`. The refinement
  mapping takes the KV value for the list and, for the intent of a command, the
  entries its request will create, delete or repoint while it is reading or about
  to write. So whatever a command decided on stale memory, what it does to the list
  is what it announced, in one step, on the list of that moment.
- `CapHolds`: concurrent adds do not exceed `maxReceivers`.
- `NoReceiverOnRetiredHook`, `NoHookLeaks`, `HooksInHandArePrivate`: the life of
  webhooks against the list. A webhook that exists is used by a receiver, is in
  the hands of a running command, or was lost in one of the named ways.
- `PruneSparesLiveHooks`: a receiver that got a fresh webhook after the probe
  survives the prune.
- `MutexHeldThroughout`: `updateConfigsAtomic` only checks with TryLock that
  *somebody* holds the mutex; this says it is the caller.
- `CommandsReturn`, `DeadReceiversArePruned`: liveness, section 5.

### 3.2 ConfigSync

Three goroutines per pod: a command that writes, a plugin hook that reloads, the
poll. `served[p]` is the number of the write whose list the pod serves. The poll's
`select` may take either ready case, then re-checks `done`, then takes the mutex;
`OnDeactivate` closes `done` and waits for the goroutine. A broadcast reaches any
subset of the running peers, at any later time or never. A new process starts with
the stored list, or with an empty one when it cannot be read.

`NeverServesOlder` (no pod goes back to an older list while its process lives) is
why the reload reads KV *under* the mutex. `NoPollAfterDeactivate` and
`NoReloadStartsAfterStop` are about shutdown; `Converges` and `DeactivateReturns`
are liveness.

### 3.3 ChannelRollback

A command finds the channel by slug or creates it (two calls), creates the webhook
there, writes the list; on failure it reads the list again and archives the channel
it created unless a receiver is bound to that team and channel. People open,
rename and archive channels meanwhile. A stored receiver is the pair of its slug
and the channel its webhook really posts to, since a rename parts the two.

`RollbacksAreOwn`: only a channel this command created is ever archived.
`NoChannelSquatted`: a channel the plugin created does not stay behind empty, except for the
reasons collected in `excused` and `renamed`. `ArchivesInUseOnlyByRace`: if the rollback archives a
channel that a receiver uses, that receiver was stored after the rollback had looked. That
holds as long as the channel keeps its name: the read compares stored team and channel
names, so a receiver bound to a channel under the name it was given after its creation is
not found under the old one. `RenameChannel` gives a channel any name that is free, another
destination's slug too, and the history `renamed` is the property's exemption (section 7 for
both ways to lose a channel in use).

### 3.4 RotationReminders

`checkRotationReminders` as detect, open the DM channel, one message per channel,
stamp; each may fail, the pod may restart. Between the steps commands add, rotate
and remove receivers on any pod. The stamp applies to the KV list of its moment,
by name. Zero `LastRotatedAt` values, from lists older than the feature, are
stamped in the same pass. A `CreatePost` that fails is logged and its channel is stamped
like the others (`SendDMFails`); the history `lost` records whose message that was.

`NoRotationLost`: the late stamp never undoes a rotation, or brings back or drops a
receiver. `Throttled`: no reminder is repeated within the interval, as far as the
stamps were written and the pass worked on current memory; the two exceptions are
the ones the code cannot avoid with this order of calls. `OverdueIsReminded`:
liveness: of a receiver that stays overdue a message is really sent, whatever happens to
the messages of other channels, unless sending its own failed (section 7).

### 3.5 YamlJanitor

A bundle is a post and then a record in KV. The sweep pages through *all* keys by offset
(`KVList(page, perPage)`), reads each delivery record, deletes the post if it has expired,
then deletes the record. A record that does not parse is deleted and its post left
(`Discard`): the plugin writes no such record, but the code expects one. Posts are numbered
by the place of their key in the listing; other keys of the plugin sit between them.

`NoPostForgotten`: the record outlives the post whatever fails, unless it could not be
written or did not parse (section 7). `NeverTooEarly`:
no post goes before the TTL the sweep started with. `TrackedPostsGo`: liveness: every
recorded post goes in the end, although a sweep that pages by offset while it deletes
can pass over some (section 7).

### 3.6 ProbeCache

A call that finds no fresh entry probes, visits the keys of the `sync.Map` one by one
(each with the value it has when visited; a key stored meanwhile may or may not be
visited), deletes expired ones as it goes, trims the stalest, and stores its own
entry. Any number of calls are between any two of these steps.

`OvershootBounded`: the cache never exceeds its cap by more than the other calls in
flight, as the comment in `am_probe.go` claims. `LoneCallRestoresCap`: one call that has
the cache to itself brings it back within the cap, however far it was over.
`HitsAreRecent`: whichever calls overwrite each other, an Alertmanager that went down is
shown as up for one TTL and no longer.

### 3.7 BulkRotation

`Detect` looks up the overdue receivers in the pod's memory and picks one
representative per webhook; `Lock`, `Mint`, `Write` rotate one representative under the
mutex; `Collect` reads memory again, without the mutex, to name the group in the
report. On the same pod between two rotations, and on the other pod at any time, other
administrators add, remove, rotate or rotate in bulk, and pods reload.

`FailuresAreNamed`: an overdue receiver that still has the webhook it was seen with is
reported as failed. `RotatesEachOnce`: undisturbed, the report names each rotated
receiver once and none of them is overdue any more. `UnmanagedSpared`: a webhook is
replaced only if one of its receivers opted in and is overdue; the exceptions, in the
property, are races with the look-up. `BulkReturns`: liveness.

### 3.8 PluginSettings

A call of `OnConfigurationChange` reads the stored map and checks the webhook host,
swaps the allowlist (deciding on "is there a usable one" and denying all are two
steps), takes `configWriteMu`, swaps the configuration, and after releasing it the HTTP client.
Two calls may overlap. A reload of the receiver list copies the running configuration
under the mutex and swaps the copy in. The metrics-token command reads the map,
and writes all of it back with a new token; System Console changes one setting at a
time. One setting stands for those that are only copied.

`SettledServesStored`: when the saves have been announced and the calls are done, each of
the three places runs on settings that calls were working on when the last one began
(`recent`), and what is stored is among these. So a last call that found no other under way
leaves the pod on exactly what is stored, in all three places; after overlapping calls each
place may keep the settings of another one of them, but of none that had ended before
(section 7). `TokenDisturbsOnlyRaces`: the token command changes another setting only back
to what it was when it read the map. `HooksReturn`: liveness.

### 3.9 Operator modules

*ReceiverNames.* A name is a sequence of words and hyphens. `Add` and `AddCustom` build
names as the handlers do, with their refusals (empty, too long, a runbook's name,
`--` inside); `removes`, `rotates`, `config`, `validate` and `expire_silence` resolve
what is typed in a channel, full or short. Lists are what any sequence of these commands
makes of an empty or a legacy list (a receiver named by its runbook alone).
`NamesStayHere`: in every command a typed name stands for the receiver added under it in
this channel and for no other, though destinations share qualified names.

*AlertRouting.* The routes of `assembleRoutesYAML`, Alertmanager's dispatch (external),
`simulateRouting` of the report and of the page, and the synthetic alerts with their extra
labels and severities. `FansOut`: pasted from several channels, between the operator's own
routes, the routes bring an alert to every receiver of its runbook, to no other receiver of
the plugin, and the operator's own routes below still get it. `TestsTellTheTruth`:
simulations and synthetic alerts show where alerts go.

*ReceiverChecks.* Lines of `/api/v2/status` to loaded receivers (block state, operator
prefixes), health and drift of a row, groups, dropdowns, target selection, the webhook
and routing tests. `ChecksAgree`, `OffersWhatCanBeTested`, `GroupsAreTestedAsTheirRunbooks`
relate the report, the page and what is really loaded.

*ExportMerge.* The two passes of `buildDiffAgainstLoaded` over lines with an indentation.
`MergeIsPureAddition`: whatever the splice finds, loaded lines keep their place and order
and every addition is there once, whole. The other two are stated in terms of YAML, not of
the code's tests. A block (`InBlock`) ends before the first line that is not indented deeper
than its key, unless that is an item of its list whose dash stands below the key; comments
end nothing. `AdditionsEndTheirBlock`: what is added goes into its block in every layout,
and after everything in it if the receivers are indented (`ReceiversDeep`) or the routes and
the comments above them are four deep (`RoutesDeep`). In other layouts it may go before
items that were there (section 7). `DiffAddsWhatIsMissing`: a receiver is missing if its
name is not loaded; the diff never adds more items than are missing, and exactly these
unless a missing name begins a longer one that is loaded. A loaded configuration
(`Configuration`) has no key twice and `routes:` only in its route.

*AlertmanagerCalls.* `httpRetry` with its shared deadline and its backoff as a script of
what becomes of each attempt; response limits; the four commands. `ExpiryIsTrue`: a silence
said to be expired was active and has ended, and one said not to be, although it has, means
that an answer was lost; `AnswersAreShown`: what could be read is shown; `SuggestionsWork`:
the `expire` lines that `silences` prints reach the silences they stand under.

*Commands.* `executeCommand`, the three authorization checks, completion, and the
HTTP endpoints as decisions. `SuggestionsMatchAuthority`: completion suggests what the
caller's command would be let through for; `EndpointsMatchAuthority` the same for HTTP.

## 4. Runs

Every run explores its whole state space. "Bound" names every constant that cuts
behaviours off.

| Run | Instance | Shows |
|---|---|---|
| `ReceiverStore_pods` | two pods, one worker each; two receivers, a cap of one; two webhooks; two attempts; `Faults` | two names compete for one place under the cap, a rotation meets a removal or a prune, with damage, lying replies and repair on both pods: the cap, private webhooks, leaks, the prune, the refinement |
| `ReceiverStore_groups` | two pods, one worker each; two receivers of one channel; two webhooks; two attempts; `Faults` off | two receivers of one batch share a webhook: a group is removed in part, rotated together, pruned together. Validity of the list, shared webhooks |
| `ReceiverStore_live` | three workers on two pods, two receivers, one webhook | the mutex within a pod, and liveness under contention for mutex *and* compare-and-set. One webhook id in all, so a list changes by one add and then removals and prunes, and a rotation ends at its failed creation |
| `ConfigSync_pods` | two pods, one write | all safety and liveness of the module; one write is enough to have an older and a newer list, and the safety properties are proved for any number |
| `ChannelRollback_commands` | two commands, two slugs, two channels | two commands for one destination or for two, a channel reopened under the same name after an archive or a rename, and a channel that is renamed to the other destination's slug and resolved there, while its creator may be rolling back |
| `RotationReminders_pods` | two pods; two receivers in two channels, one of which no command touches (`Quiet`); threshold 1, repeat 1, clock to 3 | stale memory, a rotation or a re-creation during a pass, time for two reminders, one channel's message failing before or after the other's, and that both receivers are told of in the end |
| `YamlJanitor_sweeps` | three posts and one other key, pages of two, TTL 0 or 1, clock to 3 | all safety and liveness; two full pages, with a deletion on the first while the second is still to come, of an expired record or of one that does not parse |
| `ProbeCache_calls` | three Alertmanagers, two callers, a cap of one, TTL 1, clock to 2 | an overshoot, its repair by a lone call, and answers that expire or are overwritten between steps |
| `BulkRotation_overdue` | two pods, two receivers, four webhooks | one shared webhook or two; two bulk rotations, or one among other commands, with enough webhooks to rotate both names or one name twice |
| `PluginSettings_saves` | two overlapping calls, one administrator, one token, two saves | a token command between two saves, three notifications for two calls, which may overlap or not, and reloads around all of them |
| `Operators_inputs` (`MCOperators`) | 31 782 states | the six operator modules: all lists that adds and removals make of an empty or a legacy list, with up to three receivers, or four when the last step adds two (two runbooks in two categories, names that contain or end in hyphens, destinations that share qualified names); pastings of one to three channels between own routes; pairs of loaded configurations; documents with their blocks in any order, receivers indented with a comment among them or with their dashes at column 0, routes four deep, two deep, nested, and behind a shallow comment; three attempts with every fate; users with every set of roles |
| `Operators_contract` (`MCOperators`) | the same | violated, section 7 |

Bounds in the models: `MaxAttempts` (5 in the code, `cmd_lifecycle.go:1076`, 2 here: the
last attempt and one before it), `MaxReceivers` (in `ReceiverStore` the code's cap; in
`Operators` the length at which a list stops growing, enough for one name typed in two
channels and another receiver between), `Hooks` and `MaxHooks` (webhook ids ever created:
when they run out, creation fails), `Ids` (channels ever created), `Quiet` (receivers that
no command touches), `MaxWrites`, `MaxTokens`, `MaxSaves`, `MaxTime` and `MaxTtl`. In
`ProbeCache` one Alertmanager goes down, once. Symmetry over webhooks, names, URLs, callers,
workers or channels is used in runs without liveness only. Deadlock is checked except in
`ChannelRollback`, `RotationReminders`, `YamlJanitor`, `ProbeCache`, `BulkRotation` and
`PluginSettings`: there channels, time, posts, webhooks or saves run out and the model
really stops.

With one destination in all `ReceiverStore` runs, the part of validity about
webhooks shared across destinations is not exercised by TLC; the theorem covers it. So it is with
two rotations of one webhook that both create a new one, which takes a third webhook id: the
theorems about webhooks cover it, the runs have the rotation that meets a removal or a prune.

## 5. Fairness

- `ReceiverStore!LiveSpec`: a worker that has begun goes on (`WF(Progress)`): Go
  runs every goroutine, and every KV, plugin API and loopback call returns,
  with or without an error. A reconcile pass that waits for the mutex again and
  again when it is free gets it (`SF(ReconcileLock)`): Go's mutex hands itself to a
  waiter that has starved. No success is assumed: `CommandsReturn` rests on the
  bounded retry loop and on no command keeping the mutex.
- `DeadReceiversArePruned` names its own premise instead of a fairness of success:
  from some point on only reloads and reconcile passes run, unharmed, and one pod
  goes on with both. Copies in memory that lag behind and colliding writes remain.
- `ConfigSync!LiveSpec`: goroutines go on, the ticker fires, a waiting poll gets the
  mutex sooner or later, KV does not fail on every read of the poll
  (`SF(Read)`). Nothing is assumed of events: convergence rests on the poll.
- `RotationReminders!LiveSpec`, `YamlJanitor!LiveSpec`: time passes, the scheduled
  job keeps running and a pass goes on. The properties say as a premise that passes
  stop breaking off in the middle and, for the janitor, that the TTL stays enabled.
- `BulkRotation!LiveSpec`: a bulk rotation that has begun goes on (`WF(Bulk)`): every call
  it makes returns, with or without an error, and the mutex of its pod is not kept.
- `PluginSettings!LiveSpec`: a call of `OnConfigurationChange` and a reload go on (`WF`), and
  a call that waits for `configWriteMu` while reloads take it again and again gets it
  (`SF(Lock)`): Go's mutex hands itself over. `HooksReturn` would fail on a path
  that forgets to unlock.

## 6. Proofs

Every safety property of a passing run is proved by TLAPS for all values of the constants
that satisfy the assumptions below: for any number of pods, workers, receivers and webhooks, for
lists, routing trees, configurations and documents of any length, and with no bound on the
length of a run. Each state machine also proves `TypeCorrect` (`Spec => []TypeOK`).

| Theorem | Says |
|---|---|
| `ReceiverStore_proofs!StoredListAlwaysValid`, `!CapAlwaysHolds` | the stored list always parses and stays within the cap |
| `!NeverOnRetiredHook`, `!HandsArePrivate`, `!NoHookEverLeaks` | webhooks against the list |
| `!PruneAlwaysSparesLiveHooks` | the prune removes only receivers whose webhook is gone |
| `!MutexAlwaysHeld` | whoever is past the lock holds it |
| `!StoreImplementsRegistry` | the store implements `ReceiverRegistry` (`CommandsAreAtomic`) |
| `ServedLists_proofs!ServesOnlyCommitted`, `!NeverServesOlderHolds` | a pod serves what was committed, and never goes back |
| `!PollEndsWithDeactivate`, `!NoReloadAfterStop` | shutdown |
| `ChannelRollback_proofs!AlwaysOwn`, `!NeverSquatted`, `!OnlyARaceArchives` | as in 3.3 |
| `RotationReminders_proofs!RotationsStay`, `!NotTooOften` | `NoRotationLost`, `Throttled` |
| `YamlJanitor_proofs!NeverForgotten`, `!NeverEarly` | `NoPostForgotten`, `NeverTooEarly` |
| `ProbeCache_proofs!HitsAlwaysRecent`, `!OvershootAlwaysBounded`, `!LoneCallAlwaysRestores` | as in 3.6 |
| `BulkRotation_proofs!FailuresAlwaysNamed`, `!EachRotatedOnce`, `!UnmanagedAlwaysSpared` | as in 3.7 |
| `PluginSettings_proofs!SettledIsStored`, `!TokenDisturbsLittle` | as in 3.8 |
| `ServedLists_proofs!ListsStayOK` | the lists that commands build satisfy `ListOK` |
| `!NamesMeanReceivers` | `ShortNamesMeanTheReceiverHere` |
| `!AlertsReach` | `AlertsFanOut` |
| `!InventoryHolds` | `InventoryTellsTheTruth` |
| `!AdditionsLand` | `AdditionsLandWhereTheyBelong` |
| `!SilencesHold` | `SilencesEndAsSaid` |
| `!AuthorityHolds` | `CompletionMatchesAuthority` |

### Assumptions

The `ASSUME`s of the modules, which TLC evaluates on every run, and nothing else:

- types: workers live on pods, limits are naturals, the null values (`NoHook`, `NoWorker`,
  `NoId`, `NoPod`, `None`, `Nobody`, `Nothing`, `Garbage`) are not members of what they stand
  beside, posts and other keys are different places of the listing;
- limits that are positive in the code: attempts, the cache's cap, the page size;
- finite sets where something is counted: names in `ReceiverStore` (a name has a bounded
  length) and in `BulkRotation`, callers and URLs in `ProbeCache`;
- bounds of a model that must leave room for its initial states: in `BulkRotation` the webhooks
  of the first list are numbered within `MaxHooks`, in `RotationReminders` and `YamlJanitor`
  the clock, which starts at 1, may reach 1;
- in `Operators`, what inputs can be:
  - `ListsAssumption`: names consist of tokens, teams and channels have names, runbooks and
    the words that are looked for are neither a category nor `all`, and a list from before
    names were qualified has receivers of runbooks, with different names;
  - `RoutingAssumption`: the list is one that commands build, and the operator's own routes
    lead to receivers of other names, since Alertmanager refuses two receivers of one name;
  - `ChecksAssumption`: names in the plugin's list are unique (`validateAlertConfigs`), every
    receiver's Alertmanager has an answer, and what it lists are the items of the `receivers:`
    blocks of the text it returns;
  - `ExportAssumption`: a configuration that Alertmanager has loaded has no key twice, and
    `routes:` stands only in the route;
  - `CallsAssumption`, `CommandInputsAssumption`: there is at least one try; what was typed
    begins with the command's name, in a channel of a team.

### ReceiverStore

Three invariants, each inductive given the ones before it.

1. `Typed`: `TypeOK` and the *shape* of a request, which fields each program point
   may have set. `TypeOK` alone is not inductive: a step that takes a webhook from
   a request field needs to know that the field is set at that point.
2. `Valid`: the stored list and every copy in memory are sound (valid and within the cap), and
   so is what a worker about to write has computed from the list it read. This is the
   validation *before* the write (`Acceptable`) that the compare-and-set then carries over: it
   only writes if the list is still the one that was validated. Repair persists a copy
   in memory, which is why the copies must be sound too.
3. `Owned`: who owns which webhook. Besides the three webhook invariants of the
   runs it says that every id anybody knows (in the stored list, in a memory, in a
   request, in a list being reloaded) has been handed out, so that a new one is
   nobody's (`Known`); that what reconcile is about to drop stays dead
   (`DropIsDead`); that only damage makes the value unreadable
   (`GarbageIsDamage`); and that a webhook a command may still commit has not been
   deleted (`FreshNotRetired`). Without `Known` a freshly created webhook could be
   one that a stale copy or another command already refers to.

`MutexHeldThroughout` is inductive with `Typed`. `PruneSparesLiveHooks` is an action
property that follows from `DropIsDead`.

The refinement is a step simulation under `Typed` and `Valid`. `IntentOf(req[w])` is what a
command has announced. A step that gets a command ready to write announces it
(`Announce`); a failure, a lost retry budget or a crash takes the announcement back (`Withdraw`, for
all commands of a pod at once); the compare-and-set that wins is `Serve`: the list is still the
one the transform was computed from, the transform is the announced change, and the
validation before the write gives `Proper` and the cap. Damage and repair are `Damage` and
`Restore`. Everything else, a reload, a probe, a deleted webhook, a compare-and-set that lost
and will be tried again, changes neither list nor announcement.

### ConfigSync

`SyncInv` says of a pod that has read version `got` and not yet
applied it that it holds the mutex and `served <= got <= version`: that is what
reading under the mutex buys, and it gives `NeverServesOlder` as the step
property. `Exclusive` says who may be where while holding the mutex, `DownIsClean`
that a process that is down left nothing behind. `ServesOnlyCommitted` is the part of
`SyncInv` a reader may want on its own. `NoReloadStartsAfterStop` needs the types only: no
other goroutine moves the poll, and the poll looks at `done` again.

### ProbeCache

`HitsAreRecent` rests on `EntriesTruthful`: an entry that says "up", in the cache or in the
hands of a call, carries a time at which the Alertmanager had not gone down yet.

`OvershootBounded` counts steps that calls took without seeing each other. The invariant
`Overshoot` orders the calls in flight by their probes, with three witnesses that the proof
chooses anew at each step: `behind`, for each call the others that probed before it; `old`,
the calls that probed before the last one to have stored; `kept`, what a call that has
trimmed left in the cache, less than the cap. What a call has not come upon was stored since
its probe, and each call behind it stores at most once more: the keys it has not come upon
and the calls behind it are together fewer than the callers. `LoneCallRestoresCap` rests on
`Lone`: a call that has had the cache to itself knows every cached key.

### ChannelRollback

`Set` says what each program point has set; `UsesKnown`, `OneSlug` and `OneMaker` that a
channel that is named, posted to or in a command's hands is known, belongs to one slug, and
was created by one command, as far as the channel has not been renamed; `Unseen` that what
the fresh read found does not post to the channel about to be archived. A renamed channel
may belong to two slugs, the one it was created for and the one it answers to now; `OneSlug`
leaves it out, and `NoChannelSquatted` and `ArchivesInUseOnlyByRace` exempt it through
`renamed`. Mattermost never reuses an id, so `Known`, the ids that a new channel must avoid,
includes the archived, the excused and the renamed ones.

### RotationReminders and YamlJanitor

`RotationReminders`: no time is ahead of the clock or of the running pass (`TimesOK`); the
stored list tells of every reminder whose stamp is not outstanding (`StoreTells`), by
`LastReminderAt` or by a rotation since; and so does the copy of a fresh pass, of every
receiver whose channel it has not come to (`PassTells`).

`YamlJanitor`: a post is recorded after it is sent and a sweep's clock only falls behind
(`TimesOK`), so an age is never overestimated; between the deletion of a post and that of
its record the post is gone (`DoomedGone`). A record that is discarded takes its post out of what is
promised (`excused`), and a post is sent only once.

### PluginSettings

Every notification stems from a save (`Counted`); a reload holds the mutex
while it has a copy of the configuration in hand, and the copy is the running one
(`ReloadCurrent`). What a call works on is in `recent` (`Works`). When a call begins, `recent`
becomes what the calls then under way work on, so the three places may hold something older
until the new call has come to them: `ListRecent`, `ConfRecent` and `ClientRecent` say of each place that
it is recent or some call under way that has not passed it will make it so. With no notification left
the stored settings are recent (`Current`), and with no call under way nothing is left to pass.

### BulkRotation

Webhooks are numbered as they are created (`Bounded`), so that one not yet written is in no
list, no copy and no look-up (`NewIsFresh`), and entries with one webhook are the
same entry (`Coherent`). Of each bulk rotation: the representative in its turn is
there (`Held`); what was overdue is, as long as its webhook has not changed
(`StillOverdue`); an overdue receiver is to be rotated, or failed, or has left its
webhook (`Named`); no webhook has two representatives (`OneEach`); and what is so of a
rotation nobody disturbs (`Undisturbed`). `NewIsFresh` is where the other pods come in: without it, a
webhook that somebody else installs could be the one the look-up saw.

### Operators

*The invariant.* Of a list of receivers all rests on `ListOK`. `ShortNamesMeanTheReceiverHere`
and unique names alone are not inductive: a receiver whose name did not tell what was typed
for it could be taken for the next one that is added. `ListOK` says how each came by
its name (`WellNamed`: qualified from what was typed, without a `--` in it, or a runbook's name
from before), that names are unique and that no channel has the same typed name twice. `add` and
`add-custom` keep it because of their refusals, `remove` because it leaves some out. Cutting a
qualified name at its first `--` gives back what was typed unless that ends in a hyphen
(`BaseOfQualified`), which is the one exception of `NamesStayHere` and the violation of section 7.

*Loops.* The operators fold over lists, filter and flatten them, or scan a document line by
line. The library's induction theorems take an operator as parameter, which the provers
cannot instantiate. Instead the recursion is written as a recursive function over the
prefixes of its input, and what it computes is stated of each prefix as a set of numbers for
which it holds. Were one missing there would be a least, since `<` is well-founded on the naturals,
and the step from the prefix before it is the contradiction (`LeastIsMin`, `Climb`). That such a
function exists at all, which a recursive definition (a `CHOOSE`) takes for granted, is proved
in the same way (`UpToExists`, `FlatExists`, `ScanExists`). What a loop computes is then a lemma
of its own, such as `OnlyKeeps` for filtering and `FlatByPrefix` for flattening.

*Routes.* Pasted blocks consist of exactly the live routes of the runbook receivers in their
channels (`BlocksAreLive`), every one of which continues and matches by the runbook's
name alone; `ListOK` makes that name the one typed. So Alertmanager's walk passes
all of them and comes to the operator's own routes below as if they were not there.

*Inventory.* The scan of a loaded text yields what stands in its `receivers:` blocks, which is
what Alertmanager lists by assumption; the report and the page then differ only in the order
in which they look, and every receiver's row depends on its own Alertmanager.

*Export.* The lines of a merged document are filtered once for the loaded and once for the added
ones, prefix by prefix of the splice: the first gives back the document, the second each text
whole, at the one place where it goes (`MergeAdds`). Where that place is follows from what a
scan knows after each line (`ScanInvariant`): which block it is in, and that an end it has found is the
number of a line that the code takes for the first one after the block. A line that closes a block in
the sense of YAML is one that the code takes for its end (`ClosingLines`), so the addition
is inside the block (`ReceiversLand`, `RoutesLand`); in the usual layouts no line of the block is taken
for its end, so it comes after all of them. That there is one such block, and that `routes:`
stands in the route, is what `Configuration` is for: a second block would move the end of the first.

*Calls and commands* need no invariant: a silence is said to have ended only after an
attempt that the server answered, and completion and execution read the same fields.

### Only model-checked

Liveness, which is beyond the prover as is `ENABLED`: `CommandsReturn`,
`DeadReceiversArePruned`, `Converges`, `DeactivateReturns`, `OverdueIsReminded`,
`TrackedPostsGo`, `BulkReturns`, `HooksReturn`.

## 7. Where the code does not do what it says

The run whose property TLC refutes:

- `Operators_contract`. `validateCustomReceiverName` "rejects names that would break the
  `<slug>--<team>-<channel>` parsing contract" (`cmd_scaffold.go:824-826`), but accepts a
  name that ends in a hyphen: `cpu-` becomes `cpu---team-chan`, whose first `--` cuts off
  `cpu`, and the receiver then answers to a runbook's name. `NamesStayHere` shows that
  this is the only such case among the inputs.

Seen in the models, and not the subject of a run. The store and the commands:

- A pod that restarts while the stored list is unreadable comes up with an empty
  list (`Restart`); the comment at `configuration.go:490-491` says a parse error
  "stops the plugin loading at all".
- `handleRotateSingle` creates a channel when no channel has the stored name any
  more, and no failure path gives it back (`RotateResolve`, `CreateChannel`); the
  comment at `cmd_lifecycle.go:489-491` says "a rotate never scaffolds a new channel".
- `handleAddCustom` resolves the channel before it takes the mutex, so it may have
  created the channel in which it then finds the receiver of another command
  (`Duplicate`); the comment at `cmd_scaffold.go:736-737` says it pre-existed.
- `rollbackCreatedChannel` reads the list, finds nothing bound, and archives the channel;
  another pod's add to that channel may commit in between. And it looks for receivers by
  their stored team and channel names (`cmd_lifecycle.go:1062-1067`): a channel created as
  `s1`, renamed to `s2` and then bound by another add under `s2` is not found under `s1` and
  is archived although it was in use before the read. `ArchivesInUseOnlyByRace` states what
  is left of the comment at `cmd_lifecycle.go:1046-1052` ("skip the archive if anything is
  now bound").
- A compare-and-set that reports an error although it wrote makes the rollback delete a webhook which the
  stored list then refers to. Nothing in the code rules it out; the model has it (`Faults`) and
  `NoReceiverOnRetiredHook` exempts it through `damaged`. A webhook created just before a crash is
  likewise lost for good, and `NoHookLeaks` exempts it through `abandoned`.
- A bulk rotation whose representative was removed and added again meanwhile rotates the
  new webhook and says nothing of the rest of its group (`FailuresAreNamed`).
- Destinations can share qualified names (team `a-b` with channel `c`, team `a` with channel `b-c`).
  `handleAdd` skips what exists in the same team and channel only; a runbook whose name another
  such destination has makes the whole batch fail (`Persisted`). A team named `on` cannot be the
  target of `add` (`FlagsOf`).

Reminders and the janitor:

- A receiver rotated after detection is reminded of all the same, and a reminder is
  repeated after five minutes when the stamps could not be written (`Throttled`
  states what is left); `docs/ROTATION.md:91-92` promises seven days.
- A failing `CreatePost` is logged and the channel is stamped all the same
  (`reconciler.go:214`, against `configuration.go:180-181`): `LastReminderAt` then records a
  reminder nobody got, and the next one is a week away. `OverdueIsReminded` exempts the receivers of
  such a message (`lost`) and no others.
- A delivery record that does not parse is deleted without a word and its post stays for
  ever (`yaml_janitor.go:96-100`); the comment at `68-69` says that errors on individual
  posts "are logged and skipped" and "missed entries are picked up on the next cycle".
  `NoPostForgotten` exempts it through `excused`.
- Reminders go out at an age `>=` the threshold, the list and bulk rotation take `>`;
  `BulkRotation` abstracts the age to a flag.
- The sweep deletes keys while it pages by offset (`yaml_janitor.go:78`, against `64-65`);
  the keys behind move up and the next page skips some, so an expired post survives a
  sweep without a failure. `TrackedPostsGo` holds all the same: a later sweep finds it.

Settings, cache and calls:

- Overlapping calls of `OnConfigurationChange` may leave the allowlist, the configuration or
  the HTTP client on older settings for good, each on those of another call: a call swaps
  the allowlist before it takes the mutex, the client after it has released it, and the
  configuration with what it loaded before (`configuration.go:603-659`). The comment at
  `593-596` says that it "atomically swaps the runtime configuration". Only the next call
  mends it. `SettledServesStored` states what is left: nothing older than what the
  overlapping calls read.
- A setting saved in System Console while the metrics-token command has the map in hand
  goes back to what it was (`TokenDisturbsOnlyRaces`).
- The comment of `evictReachabilityCache` speaks of the single stalest entry; the code trims
  all that exceed the cap, which `LoneCallRestoresCap` needs.
- `httpRetry` backs off for up to 30 s under a context that ends after 15 s, and
  cancels that context before its caller has read the body. A DELETE that was served and whose
  answer was lost is retried and then reported as failed (`ExpiryIsTrue`). The
  "No active alerts" footer also appears when every query failed.

Export, routes and inventory:

- The first pass takes any line at column 0 but a comment for the end of the receivers, and
  any line that is not four deep, a comment too, for the end of the routes
  (`cmd_export.go:290`, `296`). So with dashes at column 0, which is how the Prometheus
  Operator writes them (`am_probe.go:228-238`), with routes two deep or behind a shallow
  comment, the additions go before the first such line and not to the end, against the
  comment at `cmd_export.go:276-279` ("the END of the receivers: block (first top-level key
  ...)"). They are inside the block all the same, which is what `AdditionsEndTheirBlock`
  says of these layouts. Of a `routes:` key that is itself four deep it says nothing.
- The plugin's receiver items have their dash at column 0 (`templates.go:126`). Spliced into
  an indented list they do not align with it, and the merged text may not parse;
  `validateMergedConfig` tells the operator.
- The diff splices a top-level `routes:` key where the comment promises the YAML that
  pasting would result in. The test for "already loaded" is by substring
  (`cmd_export.go:171`), so a receiver whose name begins a longer one that is loaded is
  never offered, although it is missing (`AlreadyLoaded`).
- The message that comes with the diff says "Raw output, no redaction", although the values of
  other channels are masked in it.
- The synthetic alert's severity and markers win over the caller's labels, whose
  `alertname` and `runbook` win over the plugin's; comments say otherwise in two places.
  With an `alertname` of the caller's, `severity=all` makes the resolved alert and the
  info alert one (`TestsTellTheTruth`).
- The page fires a group's alerts at one Alertmanager, that of the first receiver that answers.
  Its dropdown falls back to all channels for a target without receivers, offers
  channels of custom receivers under "all", and with a team chosen goes by channel name
  alone (`OffersWhatCanBeTested` states what is left).
- `validate` on a custom receiver fires end to end and reports success although no
  route leads to it. The answer "NO sub-routes matched" of `validate simulate` cannot occur, and
  the page reports a sub-route to the default receiver as fallen through.

## 8. Plan

Done: the store and its abstract specification, sync, channels, reminders, janitor, probe
cache, bulk rotation, settings, and the operator modules; proofs of all their safety
properties. In this order next:

1. An inductive invariant per machine as a property of its run where the state space allows it,
   so that a change to a model shows up in TLC before it does in the prover.
2. The classification of addresses in `ssrf.go` and `redactOtherChannelsInDiff`, as operators.
3. The CRD format of export, over the same lists.
4. A second destination in `ReceiverStore`, with a reduced set of commands.

## 9. Not modelled, and why

- Text: help, docs, templates, the wording of messages, the HTML of the inventory page
  and the order of its rows; the CRD format, which renders what `ExportMerge` renders in other
  words.
- The redaction of other channels' data in the diff: it works on the text of a line.
- `ssrf.go`: which addresses count as private or are on the allowlist. `PluginSettings` has the swap
  of the allowlist, not what it lets through.
- The life of the short-lived access token behind a webhook call: the call is an
  atomic step here, and a token that is not revoked changes nothing in these models.
- `cluster.Schedule`'s leader election: external; the job is taken to run on at most
  one pod at a time where that matters (reminders, janitor). `ReceiverStore` does
  not rely on it: any worker may reconcile at any time.
- Registration of the command and the routes at start-up; generators and deployment helpers,
  which are not part of the running plugin.
- Flags that carry their value (`--webhook-host=<url>`): `Commands` has the bare ones, `--private`
  and `on`.
- Authorization and the commands' effects are in separate modules: `Commands` decides who gets to
  a handler, the other modules begin where it begins.

## 10. Running

In this directory, `tlc -config ReceiverStore_pods.cfg MCReceiverStore` (likewise for
the other runs: the part before the underscore names the module), and
`tlapm ReceiverStore_proofs.tla` (likewise for the other seven `_proofs` modules). The longest
runs take a few minutes with two workers, the proofs of `ServedLists_proofs` about half an hour.
