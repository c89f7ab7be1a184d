---------------------------- MODULE ReceiverStore ----------------------------
(***************************************************************************)
(* The receiver list of the Alertmanager plugin, as the pods of a          *)
(* Mattermost cluster change it.                                           *)
(*                                                                         *)
(* The durable list is one value of the plugin KV store; every pod keeps a *)
(* copy of it in memory, and each receiver carries the id of a Mattermost  *)
(* incoming webhook that the plugin created for it.  A slash command or a  *)
(* reconcile pass is a goroutine (a worker) that makes one external call   *)
(* per step: create a webhook, read the list, compare-and-set the list,    *)
(* delete a webhook.  configWriteMu orders the workers of one pod; between *)
(* pods only the compare-and-set does.                                     *)
(*                                                                         *)
(* Abstractions: the list is the SET of its entries (a re-created receiver *)
(* always has a webhook id never used before, so equal bytes and equal     *)
(* sets coincide); an entry keeps the two fields commands decide on, name  *)
(* and webhook id.  The destination of a receiver, a team and a channel,   *)
(* follows from its name (DestOf); its group does not matter, because only *)
(* receivers of one add ever share a webhook.  An absent key and an empty  *)
(* list are the same value.                                                *)
(***************************************************************************)
EXTENDS Naturals, FiniteSets

CONSTANTS
  Pods,          \* plugin processes, one per Mattermost server
  Workers,       \* goroutines that run commands, jobs and reloads
  PodOf,         \* the pod a worker runs on
  Names,         \* receiver names (globally unique, team+channel qualified)
  DestOf,        \* the team and channel a receiver name belongs to
  Hooks,         \* incoming-webhook ids Mattermost can hand out
  MaxReceivers,  \* maxReceivers
  MaxAttempts,   \* maxConfigWriteAttempts
  Garbage,       \* a stored value parseAlertConfigs rejects
  NoWorker, NoHook,
  Faults         \* may the stored value be damaged, or a write's reply lie?

ASSUME PodsAssumption == PodOf \in [Workers -> Pods]
ASSUME LimitsAssumption == MaxReceivers \in Nat /\ MaxAttempts \in Nat \ {0}
\* A name has a bounded length: slugs of a runbook, a team and a channel.
ASSUME NamesAssumption == IsFiniteSet(Names)
ASSUME NullsAssumption == NoWorker \notin Workers /\ NoHook \notin Hooks
ASSUME FaultsAssumption == Faults \in BOOLEAN

Entry == [name : Names, hook : Hooks]

ASSUME GarbageAssumption == \A list \in SUBSET Entry : list # Garbage

VARIABLES
  kv,             \* the value under kvKeyAlertConfigs
  mem,            \* per pod: the AlertConfigs of its configuration
  up,             \* the pods whose plugin process is running
  configWriteMu,  \* per pod: the worker holding the mutex
  req,            \* per worker: the operation it is executing
  hooks,          \* incoming webhooks that exist in Mattermost
  minted,         \* history: every id handed out so far
  retired,        \* history: ids the plugin itself deleted
  abandoned,      \* history: ids the plugin lost track of (failed delete, crash)
  damaged         \* history: the list was corrupted, or a write's reply lied

vars == <<kv, mem, up, configWriteMu, req, hooks, minted, retired, abandoned, damaged>>
history == <<minted, retired, abandoned, damaged>>

-----------------------------------------------------------------------------
(* The list. *)

HooksOf(list) == {e.hook : e \in list}
NamesOf(list) == {e.name : e \in list}

\* parseAlertConfigs: unique names, and receivers that share a webhook have
\* the same destination.
ValidList(list) ==
  /\ \A e, f \in list : e.name = f.name => e = f
  /\ \A e, f \in list : e.hook = f.hook => DestOf[e.name] = DestOf[f.name]

\* The list as the load path sees it; an unreadable value has no receivers.
Stored == IF kv = Garbage THEN {} ELSE kv

-----------------------------------------------------------------------------
(* Requests. *)

Ops == {"none", "add", "remove", "rotate", "reconcile", "repair", "reload"}
Steps == {"idle", "mint", "probe", "lock", "read", "cas", "apply", "retire"}

Request ==
  [op    : Ops,
   pc    : Steps,
   names : SUBSET Names,            \* add: receivers to create
   drop  : SUBSET Entry,            \* remove, reconcile: exact identities to delete
   old   : Hooks \cup {NoHook},     \* rotate: the webhook being replaced
   new   : Hooks \cup {NoHook},     \* add, rotate: the webhook just created
   seen  : (SUBSET Entry) \cup {Garbage},  \* the value KVGet returned
   left  : 0..MaxAttempts,          \* compare-and-set attempts left
   kill  : SUBSET Hooks]            \* webhooks still to be deleted

Idle ==
  [op |-> "none", pc |-> "idle", names |-> {}, drop |-> {}, old |-> NoHook,
   new |-> NoHook, seen |-> {}, left |-> 0, kill |-> {}]

\* add: append the new receivers, all on the webhook just created.
Added(r, list) == list \cup [name : r.names, hook : {r.new}]

\* rotate: every receiver that still carries the old webhook gets the new one.
Repointed(r, list) == {IF e.hook = r.old THEN [e EXCEPT !.hook = r.new] ELSE e : e \in list}

\* remove: a receiver goes only if name and webhook are those of the preview.
Removed(r, list) == list \ r.drop

\* Mutant of Pruned: the name decides, whatever webhook it has now.
PrunedByName(r, list) == {e \in list : e.name \notin NamesOf(r.drop)}

\* Mutant of Pruned: the dead receivers are reported and kept.
PrunedNever(r, list) == list

\* reconcile: a receiver goes only if it still carries the webhook found dead.
Pruned(r, list) == list \ r.drop

\* The pure transform each command hands to updateConfigsAtomic; repair
\* replaces the value by the pod's own copy.
Transform(r, list, copy) ==
  CASE r.op = "add" -> Added(r, list)
    [] r.op = "rotate" -> Repointed(r, list)
    [] r.op = "remove" -> Removed(r, list)
    [] r.op = "reconcile" -> Pruned(r, list)
    [] OTHER -> copy

\* Mutant of Acceptable: the list is not validated before it is written.
AcceptsAnyList(r, list) ==
  r.op = "add" => Cardinality(list) + Cardinality(r.names) <= MaxReceivers

\* Mutant of Acceptable: the cap is checked for one more receiver, not for the batch.
AcceptsWholeBatch(r, list) ==
  /\ r.op = "add" => Cardinality(list) < MaxReceivers
  /\ ValidList(Transform(r, list, {}))

\* enforceReceiverCap, then validation of the list about to be written.
Acceptable(r, list) ==
  /\ r.op = "add" => Cardinality(list) + Cardinality(r.names) <= MaxReceivers
  /\ ValidList(Transform(r, list, {}))

\* The webhook a failed command created and must take back.
Undo(r) == {r.new} \ {NoHook}

\* Mutant of Orphaned: the webhook of every removed receiver, shared with a
\* remaining one or not.
OrphanedOrShared(before, after) == HooksOf(before \ after)

\* orphanedWebhookIDs: the webhooks whose last receiver is gone.
Orphaned(before, after) == HooksOf(before) \ HooksOf(after)

\* The webhooks a command deletes after its write committed.
Doomed(r, before, after) ==
  CASE r.op = "remove" -> Orphaned(before, after)
    [] r.op = "rotate" -> IF r.new \in HooksOf(after) THEN {r.old} ELSE {r.new}
    [] OTHER -> {}

-----------------------------------------------------------------------------
(* Control flow shared by the commands. *)

Pod(w) == PodOf[w]
At(w, step) == Pod(w) \in up /\ req[w].pc = step

Lock(w) ==
  /\ configWriteMu[Pod(w)] = NoWorker
  /\ configWriteMu' = [configWriteMu EXCEPT ![Pod(w)] = w]

\* Mutant of Return: the mutex stays locked.
ReturnLocked(w) ==
  /\ req' = [req EXCEPT ![w] = Idle]
  /\ UNCHANGED configWriteMu

\* Return from the command: the deferred unlock.
Return(w) ==
  /\ configWriteMu' = [configWriteMu EXCEPT ![Pod(w)] = NoWorker]
  /\ req' = [req EXCEPT ![w] = Idle]

\* Delete the webhooks in doomed, then return.
Settle(w, doomed) ==
  \/ doomed = {} /\ Return(w)
  \/ /\ doomed # {}
     /\ req' = [req EXCEPT ![w] = [Idle EXCEPT !.op = req[w].op, !.pc = "retire", !.kill = doomed]]
     /\ UNCHANGED configWriteMu

Begin(w, r) ==
  /\ At(w, "idle")
  /\ Lock(w)
  /\ req' = [req EXCEPT ![w] = r]
  /\ UNCHANGED <<kv, mem, up, hooks, history>>

-----------------------------------------------------------------------------
(* Commands up to the durable write. *)

\* /alertmanager add: a batch of receivers of one channel; those the pod
\* already has in memory are skipped.
AddBegin(w, batch) ==
  LET fresh == batch \ NamesOf(mem[Pod(w)]) IN
  /\ fresh # {}
  /\ \A m, n \in batch : DestOf[m] = DestOf[n]
  /\ Begin(w, [Idle EXCEPT !.op = "add", !.pc = "mint", !.names = fresh, !.left = MaxAttempts])

\* /alertmanager add-custom: one receiver, with a webhook of its own.
AddCustomBegin(w, n) == AddBegin(w, {n})

\* The previewed receivers of one channel, each with the webhook it has now.
RemoveBegin(w, preview) ==
  /\ preview # {} /\ preview \subseteq mem[Pod(w)]
  /\ \A e, f \in preview : DestOf[e.name] = DestOf[f.name]
  /\ Begin(w, [Idle EXCEPT !.op = "remove", !.pc = "read", !.drop = preview, !.left = MaxAttempts])

\* /alertmanager remove <name>
RemoveOneBegin(w, e) == RemoveBegin(w, {e})

\* /alertmanager remove all --force
RemoveAllBegin(w, e) == RemoveBegin(w, {f \in mem[Pod(w)] : DestOf[f.name] = DestOf[e.name]})

\* /alertmanager remove <set> --force: the channel's receivers in some set of runbooks.
RemoveSetBegin(w, preview) == RemoveBegin(w, preview)

\* /alertmanager rotate <name>: replace the webhook the receiver has in memory.
RotateBegin(w, e) ==
  /\ e \in mem[Pod(w)]
  /\ Begin(w, [Idle EXCEPT !.op = "rotate", !.pc = "mint", !.old = e.hook, !.left = MaxAttempts])

\* /alertmanager repair --force: one attempt, on the value that does not parse.
RepairBegin(w) ==
  Begin(w, [Idle EXCEPT !.op = "repair", !.pc = "read", !.left = 1])

\* createIncomingWebhook succeeds: a never-used id.
Mint(w, h) ==
  /\ At(w, "mint") /\ h \notin minted
  /\ hooks' = hooks \cup {h}
  /\ minted' = minted \cup {h}
  /\ req' = [req EXCEPT ![w].new = h, ![w].pc = "read"]
  /\ UNCHANGED <<kv, mem, up, configWriteMu, retired, abandoned, damaged>>

\* createIncomingWebhook returns an error: the command returns.
MintFails(w) ==
  /\ At(w, "mint") /\ Return(w)
  /\ UNCHANGED <<kv, mem, up, hooks, history>>

\* The loopback call times out although the webhook was created: the command
\* reports failure and the id is known to nobody.
MintReplyLost(w, h) ==
  /\ At(w, "mint") /\ h \notin minted
  /\ hooks' = hooks \cup {h}
  /\ minted' = minted \cup {h}
  /\ abandoned' = abandoned \cup {h}
  /\ Return(w)
  /\ UNCHANGED <<kv, mem, up, retired, damaged>>

-----------------------------------------------------------------------------
(* reconcileOrphans before its write: no mutex is held. *)

ReconcileBegin(w) ==
  /\ At(w, "idle") /\ mem[Pod(w)] # {}
  /\ req' = [req EXCEPT ![w] = [Idle EXCEPT !.op = "reconcile", !.pc = "probe", !.drop = mem[Pod(w)]]]
  /\ UNCHANGED <<kv, mem, up, configWriteMu, hooks, history>>

\* Ask Mattermost for every webhook of the snapshot.  dead are the ones that
\* answered 404; a webhook whose probe failed otherwise is left alone.
Probe(w, dead) ==
  /\ At(w, "probe")
  /\ dead \subseteq HooksOf(req[w].drop) \ hooks
  /\ LET orphans == {e \in req[w].drop : e.hook \in dead} IN
     req' = [req EXCEPT ![w] = IF orphans = {} THEN Idle
                               ELSE [@ EXCEPT !.pc = "lock", !.drop = orphans]]
  /\ UNCHANGED <<kv, mem, up, configWriteMu, hooks, history>>

\* Mutant of ReconcileLock: the write runs outside the mutex, like the probe.
ReconcileUnlocked(w) ==
  /\ At(w, "lock")
  /\ req' = [req EXCEPT ![w].pc = "read", ![w].left = MaxAttempts]
  /\ UNCHANGED <<kv, mem, up, configWriteMu, hooks, history>>

ReconcileLock(w) ==
  /\ At(w, "lock") /\ Lock(w)
  /\ req' = [req EXCEPT ![w].pc = "read", ![w].left = MaxAttempts]
  /\ UNCHANGED <<kv, mem, up, hooks, history>>

-----------------------------------------------------------------------------
(* updateConfigsAtomic and the write of repair. *)

\* KVGet, parse, transform and validate all succeed.
ReadList(w) ==
  /\ At(w, "read") /\ req[w].op # "repair"
  /\ kv # Garbage
  /\ Acceptable(req[w], kv)
  /\ req' = [req EXCEPT ![w].seen = kv, ![w].pc = "cas"]
  /\ UNCHANGED <<kv, mem, up, configWriteMu, hooks, history>>

\* repair goes on only when the stored value does not parse and its own copy does.
ReadGarbage(w) ==
  /\ At(w, "read") /\ req[w].op = "repair"
  /\ kv = Garbage
  /\ ValidList(mem[Pod(w)])
  /\ req' = [req EXCEPT ![w].seen = kv, ![w].pc = "cas"]
  /\ UNCHANGED <<kv, mem, up, configWriteMu, hooks, history>>

\* Mutant of ReadFails: giving up forgets the webhook just created.
ReadFailsForgets(w) ==
  /\ At(w, "read") /\ Return(w)
  /\ UNCHANGED <<kv, mem, up, hooks, history>>

\* KVGet fails, or the list does not parse, is full or would become invalid.
ReadFails(w) ==
  /\ At(w, "read")
  /\ Settle(w, Undo(req[w]))
  /\ UNCHANGED <<kv, mem, up, hooks, history>>

\* Mutant of Commit: a plain KVSet.
CommitBlindly(w) ==
  LET next == Transform(req[w], req[w].seen, mem[Pod(w)]) IN
  /\ At(w, "cas")
  /\ kv' = next
  /\ mem' = [mem EXCEPT ![Pod(w)] = next]
  /\ Settle(w, Doomed(req[w], req[w].seen, next))
  /\ UNCHANGED <<up, hooks, history>>

\* KVCompareAndSet succeeds; the pod applies the list to its own memory.
Commit(w) ==
  LET next == Transform(req[w], req[w].seen, mem[Pod(w)]) IN
  /\ At(w, "cas") /\ kv = req[w].seen
  /\ kv' = next
  /\ mem' = [mem EXCEPT ![Pod(w)] = next]
  /\ Settle(w, Doomed(req[w], req[w].seen, next))
  /\ UNCHANGED <<up, hooks, history>>

\* Another pod wrote since the read: reload and retry, or give up.
CasLost(w) ==
  /\ At(w, "cas") /\ kv # req[w].seen
  /\ IF req[w].left > 1
     THEN /\ req' = [req EXCEPT ![w].pc = "read", ![w].seen = {}, ![w].left = @ - 1]
          /\ UNCHANGED configWriteMu
     ELSE Settle(w, Undo(req[w]))
  /\ UNCHANGED <<kv, mem, up, hooks, history>>

\* KVCompareAndSet returns an error and wrote nothing.
CasError(w) ==
  /\ At(w, "cas")
  /\ Settle(w, Undo(req[w]))
  /\ UNCHANGED <<kv, mem, up, hooks, history>>

\* KVCompareAndSet returns an error although the list was written.
CasReplyLost(w) ==
  /\ Faults /\ At(w, "cas") /\ kv = req[w].seen
  /\ kv' = Transform(req[w], req[w].seen, mem[Pod(w)])
  /\ damaged' = TRUE
  /\ Settle(w, Undo(req[w]))
  /\ UNCHANGED <<mem, up, hooks, minted, retired, abandoned>>

-----------------------------------------------------------------------------
(* deleteIncomingWebhook, for a rollback or after a commit. *)

Retire(w, h) ==
  /\ At(w, "retire") /\ h \in req[w].kill
  /\ hooks' = hooks \ {h}
  /\ retired' = retired \cup {h}
  /\ Settle(w, req[w].kill \ {h})
  /\ UNCHANGED <<kv, mem, up, minted, abandoned, damaged>>

\* The delete fails: it is logged or reported, never retried.
RetireFails(w, h) ==
  /\ At(w, "retire") /\ h \in req[w].kill
  /\ abandoned' = abandoned \cup {h}
  /\ Settle(w, req[w].kill \ {h})
  /\ UNCHANGED <<kv, mem, up, hooks, minted, retired, damaged>>

-----------------------------------------------------------------------------
(* Reload from KV: cluster event, two-minute poll or settings change.  It    *)
(* may happen at any time: events can be lost, repeated or late.             *)

ReloadRead(w) ==
  /\ kv # Garbage
  /\ Begin(w, [Idle EXCEPT !.op = "reload", !.pc = "apply", !.seen = kv])

ReloadApply(w) ==
  /\ At(w, "apply")
  /\ mem' = [mem EXCEPT ![Pod(w)] = req[w].seen]
  /\ Return(w)
  /\ UNCHANGED <<kv, up, hooks, history>>

-----------------------------------------------------------------------------
(* Environment. *)

\* Webhooks a worker created or condemned and has not finished dealing with.
InHand(r) == IF r.pc \in {"read", "cas"} THEN Undo(r) ELSE r.kill

Crash(p) ==
  /\ p \in up
  /\ up' = up \ {p}
  /\ mem' = [mem EXCEPT ![p] = {}]
  /\ configWriteMu' = [configWriteMu EXCEPT ![p] = NoWorker]
  /\ req' = [w \in Workers |-> IF Pod(w) = p THEN Idle ELSE req[w]]
  /\ abandoned' = abandoned \cup UNION {InHand(req[w]) : w \in {v \in Workers : Pod(v) = p}}
  /\ UNCHANGED <<kv, hooks, minted, retired, damaged>>

\* OnConfigurationChange of a new process: the stored list, or the (empty)
\* list it started with when the value cannot be read.
Restart(p) ==
  /\ p \notin up
  /\ up' = up \cup {p}
  /\ \E loaded \in {Stored, {}} : mem' = [mem EXCEPT ![p] = loaded]
  /\ UNCHANGED <<kv, configWriteMu, req, hooks, history>>

\* Somebody deletes a webhook in System Console.
DeleteOutOfBand(h) ==
  /\ h \in hooks
  /\ hooks' = hooks \ {h}
  /\ UNCHANGED <<kv, mem, up, configWriteMu, req, history>>

\* The stored value is overwritten by something that does not parse.
Corrupt ==
  /\ Faults
  /\ kv' = Garbage
  /\ damaged' = TRUE
  /\ UNCHANGED <<mem, up, configWriteMu, req, hooks, minted, retired, abandoned>>

-----------------------------------------------------------------------------

Init ==
  /\ kv = {}
  /\ mem = [p \in Pods |-> {}]
  /\ up = Pods
  /\ configWriteMu = [p \in Pods |-> NoWorker]
  /\ req = [w \in Workers |-> Idle]
  /\ hooks = {} /\ minted = {} /\ retired = {} /\ abandoned = {}
  /\ damaged = FALSE

\* What a worker does once its command has begun.
Progress(w) ==
  \/ \E h \in Hooks : Mint(w, h) \/ MintReplyLost(w, h)
  \/ MintFails(w)
  \/ \E dead \in SUBSET HooksOf(req[w].drop) : Probe(w, dead)
  \/ ReconcileLock(w)
  \/ ReadList(w) \/ ReadGarbage(w) \/ ReadFails(w)
  \/ Commit(w) \/ CasLost(w) \/ CasError(w) \/ CasReplyLost(w)
  \/ \E h \in req[w].kill : Retire(w, h) \/ RetireFails(w, h)
  \/ ReloadApply(w)

Start(w) ==
  \/ \E batch \in SUBSET Names : AddBegin(w, batch)
  \/ \E n \in Names : AddCustomBegin(w, n)
  \/ \E e \in mem[Pod(w)] : RemoveOneBegin(w, e) \/ RemoveAllBegin(w, e) \/ RotateBegin(w, e)
  \/ \E preview \in SUBSET mem[Pod(w)] : RemoveSetBegin(w, preview)
  \/ RepairBegin(w)
  \/ ReconcileBegin(w)
  \/ ReloadRead(w)

Environment ==
  \/ \E p \in Pods : Crash(p) \/ Restart(p)
  \/ \E h \in Hooks : DeleteOutOfBand(h)
  \/ Corrupt

Next == Environment \/ \E w \in Workers : Start(w) \/ Progress(w)

Spec == Init /\ [][Next]_vars

-----------------------------------------------------------------------------
(* Properties. *)

\* Every variable keeps the shape the code gives it.
TypeOK ==
  /\ kv = Garbage \/ kv \in SUBSET Entry
  /\ mem \in [Pods -> SUBSET Entry]
  /\ up \subseteq Pods
  /\ configWriteMu \in [Pods -> Workers \cup {NoWorker}]
  /\ req \in [Workers -> Request]
  /\ hooks \subseteq minted /\ minted \subseteq Hooks
  /\ retired \subseteq Hooks /\ abandoned \subseteq Hooks
  /\ damaged \in BOOLEAN

\* configWriteMu is held across the whole read-modify-write: a worker past the
\* lock is the holder (updateConfigsAtomic panics otherwise), and a held mutex
\* belongs to a worker that is still going to release it.
Inside(w) == req[w].pc \notin {"idle", "probe", "lock"}
MutexHeldThroughout ==
  \A w \in Workers : Inside(w) <=> configWriteMu[Pod(w)] = w

\* The stored list always passes the validation the load path applies (unique
\* names, no webhook shared across destinations); otherwise every pod's next
\* load fails.  Two pods adding the same name race for this one.
StoredListIsValid == kv # Garbage => ValidList(kv)

\* The receiver cap holds for the stored list, although every command counts
\* the list it read and not the one it writes over.
CapHolds == Cardinality(Stored) <= MaxReceivers

\* No stored receiver points at a webhook the plugin itself deleted: rotation
\* deletes the old webhook only after the write, a rollback deletes one that no
\* list refers to, a remove deletes one without remaining receivers.  It holds
\* while the stored value is not damaged: repair may write back a copy older
\* than a deletion, and a lost reply makes a rollback delete a stored webhook.
NoReceiverOnRetiredHook == ~damaged => HooksOf(Stored) \cap retired = {}

\* No webhook leaks: one that exists in Mattermost serves a stored receiver,
\* or a running command still has to deal with it, or the plugin lost it in
\* one of the ways it cannot help (a failed delete, a lost reply, a crash).
NoHookLeaks ==
  ~damaged => hooks \subseteq HooksOf(Stored) \cup abandoned \cup UNION {InHand(req[w]) : w \in Workers}

\* Commands never meet on a webhook: what one has created and not committed, or
\* is about to delete, no stored receiver and no other command relies on.
HooksInHandArePrivate ==
  ~damaged => \A w \in Workers :
    /\ InHand(req[w]) \cap HooksOf(Stored) = {}
    /\ \A v \in Workers \ {w} : InHand(req[w]) \cap Undo(req[v]) = {}

\* Reconcile removes a receiver only if its webhook is gone from Mattermost,
\* however old its snapshot and its probes are when the write lands.
PruneSparesLiveHooks ==
  [][\A w \in Workers : (req[w].op = "reconcile" /\ req[w].pc = "cas" /\ req'[w].pc = "idle") =>
       HooksOf(Stored \ Stored') \cap hooks = {}]_kv

\* No lost update: seen from the list alone, every command takes effect
\* atomically on the list as it then is, exactly as it announced, or not at all.
IntentOf(r) ==
  IF r.pc \notin {"read", "cas"} \/ r.op = "repair"
  THEN [create |-> {}, delete |-> {}, from |-> NoHook, to |-> NoHook]
  ELSE [create |-> [name : r.names, hook : Undo(r)], delete |-> r.drop, from |-> r.old,
        to |-> IF r.op = "rotate" THEN r.new ELSE NoHook]

Registry == INSTANCE ReceiverRegistry WITH
  Clients <- Workers, list <- kv, intent <- [w \in Workers |-> IntentOf(req[w])]

CommandsAreAtomic == Registry!Spec

-----------------------------------------------------------------------------
(* Progress. *)

\* Go runs every goroutine and its mutexes do not starve a waiter; calls return.
FairCommands ==
  \A w \in Workers : WF_vars(Progress(w)) /\ SF_vars(ReconcileLock(w))

LiveSpec == Spec /\ FairCommands

\* Every command and every reconcile pass returns: the retry loop is bounded
\* and no worker waits for a mutex for ever.
CommandsReturn == \A w \in Workers : []<>(req[w].pc = "idle")

\* A reconcile pass and the reloads between passes, with answers from Mattermost
\* and from KV; writes of several pods may still collide.
Reconciling(w) ==
  \/ ReloadRead(w) \/ ReloadApply(w)
  \/ ReconcileBegin(w) \/ Probe(w, HooksOf(req[w].drop) \ hooks) \/ ReconcileLock(w)
  \/ ReadList(w) \/ Commit(w) \/ CasLost(w)

\* Once commands and failures come to rest, and some pod goes on reloading and
\* reconciling, no receiver whose webhook is gone stays in the list: copies in
\* memory that lag behind and colliding writes only delay the prune.
DeadReceiversArePruned ==
  (/\ <>[][\E w \in Workers : Reconciling(w)]_vars
   /\ \E w \in Workers : []<><<ReloadRead(w)>>_vars /\ []<><<ReconcileBegin(w)>>_vars)
    => <>[](HooksOf(Stored) \subseteq hooks)

=============================================================================
