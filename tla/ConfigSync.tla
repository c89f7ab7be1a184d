------------------------------ MODULE ConfigSync ------------------------------
(***************************************************************************)
(* How every pod's in-memory receiver list follows the one in the KV       *)
(* store.  A KV write wakes nobody: the writing pod applies its own write  *)
(* and broadcasts a cluster event, best effort; the other pods reload when *)
(* the event reaches them, when settings change, or at the next tick of    *)
(* the two-minute poll.  Every reload reads KV and swaps the copy in under *)
(* configWriteMu, like a command's read-modify-write.                      *)
(*                                                                         *)
(* The list is abstracted to the number of the write that produced it:     *)
(* this module is about which copy a pod serves, not about its content.    *)
(***************************************************************************)
EXTENDS Naturals

CONSTANTS
  Pods,
  MaxWrites     \* bound on the number of committed writes

ASSUME MaxWritesAssumption == MaxWrites \in Nat

VARIABLES
  version,        \* number of the last write committed to kvKeyAlertConfigs
  served,         \* per pod: the write its in-memory list comes from
  phase,          \* per pod: life of the plugin process
  configWriteMu,  \* per pod: the goroutine holding the mutex
  at,             \* per pod and goroutine: where it is
  got,            \* per pod: the write its mutex holder has read from KV
  outgoing,       \* pods whose broadcast goroutine has not run yet
  inbox,          \* pods a reload event is on its way to
  tick,           \* pods whose ticker channel holds a tick
  done            \* pods whose poll has been told to stop

vars == <<version, served, phase, configWriteMu, at, got, outgoing, inbox, tick, done>>

\* A slash command or job that writes; the plugin hooks that reload
\* (OnPluginClusterEvent, OnConfigurationChange); the poll goroutine.
Goroutines == {"command", "hook", "poll"}
Places == {"off", "select", "recheck", "wait", "read", "apply"}

\* "up": loaded, not activated (or deactivated, process still alive).
Phases == {"down", "up", "active", "stopping"}

-----------------------------------------------------------------------------

Goto(p, g, place) == at' = [at EXCEPT ![p][g] = place]

\* Mutant of Lock: nobody waits.
LockAtOnce(p, g) == configWriteMu' = [configWriteMu EXCEPT ![p] = g]

Lock(p, g) ==
  /\ configWriteMu[p] = "free"
  /\ configWriteMu' = [configWriteMu EXCEPT ![p] = g]

\* Unlock; the poll goes back to its select, the others end.
Unlock(p, g) ==
  /\ configWriteMu' = [configWriteMu EXCEPT ![p] = "free"]
  /\ Goto(p, g, IF g = "poll" THEN "select" ELSE "off")

\* OnConfigurationChange of a new process loads the list, or starts empty.
Launch(p) ==
  /\ phase[p] = "down"
  /\ phase' = [phase EXCEPT ![p] = "up"]
  /\ \E loaded \in {version, 0} : served' = [served EXCEPT ![p] = loaded]
  /\ UNCHANGED <<version, configWriteMu, at, got, outgoing, inbox, tick, done>>

\* OnActivate starts the poll with new channels.
OnActivate(p) ==
  /\ phase[p] = "up" /\ at[p]["poll"] = "off"
  /\ phase' = [phase EXCEPT ![p] = "active"]
  /\ Goto(p, "poll", "select")
  /\ tick' = tick \ {p} /\ done' = done \ {p}
  /\ UNCHANGED <<version, served, configWriteMu, got, outgoing, inbox>>

\* OnDeactivate: stop the ticker (a tick already in the channel stays), close
\* done, then wait for the goroutine.
OnDeactivate(p) ==
  /\ phase[p] = "active"
  /\ phase' = [phase EXCEPT ![p] = "stopping"]
  /\ done' = done \cup {p}
  /\ UNCHANGED <<version, served, configWriteMu, at, got, outgoing, inbox, tick>>

\* Mutant of Deactivated: OnDeactivate does not wait for the goroutine.
DeactivatedAtOnce(p) ==
  /\ phase[p] = "stopping"
  /\ phase' = [phase EXCEPT ![p] = "up"]
  /\ UNCHANGED <<version, served, configWriteMu, at, got, outgoing, inbox, tick, done>>

Deactivated(p) ==
  /\ phase[p] = "stopping" /\ at[p]["poll"] = "off"
  /\ phase' = [phase EXCEPT ![p] = "up"]
  /\ UNCHANGED <<version, served, configWriteMu, at, got, outgoing, inbox, tick, done>>

\* The process dies with its goroutines, its memory and its pending events.
Crash(p) ==
  /\ phase[p] # "down"
  /\ phase' = [phase EXCEPT ![p] = "down"]
  /\ served' = [served EXCEPT ![p] = 0]
  /\ configWriteMu' = [configWriteMu EXCEPT ![p] = "free"]
  /\ at' = [at EXCEPT ![p] = [g \in Goroutines |-> "off"]]
  /\ got' = [got EXCEPT ![p] = 0]
  /\ outgoing' = outgoing \ {p} /\ inbox' = inbox \ {p}
  /\ tick' = tick \ {p} /\ done' = done \ {p}
  /\ UNCHANGED version

-----------------------------------------------------------------------------
(* The poll goroutine. *)

Tick(p) ==
  /\ phase[p] = "active" /\ p \notin tick
  /\ tick' = tick \cup {p}
  /\ UNCHANGED <<version, served, phase, configWriteMu, at, got, outgoing, inbox, done>>

\* Mutant of PollSelect: the loop ranges over the ticks alone.
PollSelectTicks(p) ==
  /\ at[p]["poll"] = "select" /\ p \in tick
  /\ Goto(p, "poll", "recheck") /\ tick' = tick \ {p}
  /\ UNCHANGED <<version, served, phase, configWriteMu, got, outgoing, inbox, done>>

\* select: when both channels are ready either case may run.
PollSelect(p) ==
  /\ at[p]["poll"] = "select"
  /\ \/ p \in done /\ Goto(p, "poll", "off") /\ UNCHANGED tick
     \/ p \in tick /\ Goto(p, "poll", "recheck") /\ tick' = tick \ {p}
  /\ UNCHANGED <<version, served, phase, configWriteMu, got, outgoing, inbox, done>>

\* Mutant of PollRecheck: done is not looked at again.
PollNoRecheck(p) ==
  /\ at[p]["poll"] = "recheck"
  /\ Goto(p, "poll", "wait")
  /\ UNCHANGED <<version, served, phase, configWriteMu, got, outgoing, inbox, tick, done>>

\* Mutant of PollRecheck: the poll leaves reloading to the cluster events.
PollNeverReloads(p) ==
  /\ at[p]["poll"] = "recheck"
  /\ Goto(p, "poll", IF p \in done THEN "off" ELSE "select")
  /\ UNCHANGED <<version, served, phase, configWriteMu, got, outgoing, inbox, tick, done>>

PollRecheck(p) ==
  /\ at[p]["poll"] = "recheck"
  /\ Goto(p, "poll", IF p \in done THEN "off" ELSE "wait")
  /\ UNCHANGED <<version, served, phase, configWriteMu, got, outgoing, inbox, tick, done>>

PollLock(p) ==
  /\ at[p]["poll"] = "wait" /\ Lock(p, "poll")
  /\ Goto(p, "poll", "read")
  /\ UNCHANGED <<version, served, phase, got, outgoing, inbox, tick, done>>

-----------------------------------------------------------------------------
(* Commands and hooks take the mutex as their first step here. *)

CommandLock(p) ==
  /\ phase[p] # "down" /\ at[p]["command"] = "off" /\ Lock(p, "command")
  /\ Goto(p, "command", "read")
  /\ UNCHANGED <<version, served, phase, got, outgoing, inbox, tick, done>>

OnPluginClusterEvent(p) ==
  /\ p \in inbox /\ at[p]["hook"] = "off" /\ Lock(p, "hook")
  /\ inbox' = inbox \ {p}
  /\ Goto(p, "hook", "read")
  /\ UNCHANGED <<version, served, phase, got, outgoing, tick, done>>

OnConfigurationChange(p) ==
  /\ phase[p] # "down" /\ at[p]["hook"] = "off" /\ Lock(p, "hook")
  /\ Goto(p, "hook", "read")
  /\ UNCHANGED <<version, served, phase, got, outgoing, inbox, tick, done>>

\* KVGet, and parsing, succeed.
Read(p, g) ==
  /\ at[p][g] = "read"
  /\ got' = [got EXCEPT ![p] = version]
  /\ Goto(p, g, "apply")
  /\ UNCHANGED <<version, served, phase, configWriteMu, outgoing, inbox, tick, done>>

\* They fail: keep the copy in memory.
ReadFails(p, g) ==
  /\ at[p][g] = "read"
  /\ Unlock(p, g)
  /\ UNCHANGED <<version, served, phase, got, outgoing, inbox, tick, done>>

\* reloadAlertConfigsFromKV swaps in what it read.
Reload(p, g) ==
  /\ g # "command" /\ at[p][g] = "apply"
  /\ served' = [served EXCEPT ![p] = got[p]]
  /\ got' = [got EXCEPT ![p] = 0]
  /\ Unlock(p, g)
  /\ UNCHANGED <<version, phase, outgoing, inbox, tick, done>>

\* updateConfigsAtomic: compare-and-set, apply, start the broadcast goroutine.
Commit(p) ==
  /\ at[p]["command"] = "apply" /\ version = got[p] /\ version < MaxWrites
  /\ version' = version + 1
  /\ served' = [served EXCEPT ![p] = version']
  /\ got' = [got EXCEPT ![p] = 0]
  /\ outgoing' = outgoing \cup {p}
  /\ Unlock(p, "command")
  /\ UNCHANGED <<phase, inbox, tick, done>>

\* The compare-and-set loses: read again.  Or the command gives up.
CasLost(p) ==
  /\ at[p]["command"] = "apply" /\ version # got[p]
  /\ got' = [got EXCEPT ![p] = 0]
  /\ Goto(p, "command", "read")
  /\ UNCHANGED <<version, served, phase, configWriteMu, outgoing, inbox, tick, done>>

CommandFails(p) ==
  /\ at[p]["command"] = "apply"
  /\ got' = [got EXCEPT ![p] = 0]
  /\ Unlock(p, "command")
  /\ UNCHANGED <<version, served, phase, outgoing, inbox, tick, done>>

\* broadcastConfigReload: the event reaches some of the running peers, or none.
Broadcast(p) ==
  /\ p \in outgoing
  /\ outgoing' = outgoing \ {p}
  /\ \E peers \in SUBSET {q \in Pods \ {p} : phase[q] # "down"} : inbox' = inbox \cup peers
  /\ UNCHANGED <<version, served, phase, configWriteMu, at, got, tick, done>>

-----------------------------------------------------------------------------

Init ==
  /\ version = 0
  /\ served = [p \in Pods |-> 0]
  /\ phase = [p \in Pods |-> "down"]
  /\ configWriteMu = [p \in Pods |-> "free"]
  /\ at = [p \in Pods |-> [g \in Goroutines |-> "off"]]
  /\ got = [p \in Pods |-> 0]
  /\ outgoing = {} /\ inbox = {} /\ tick = {} /\ done = {}

\* What a goroutine does next, once it has been started and holds what it needs.
Continue(p, g) ==
  \/ g = "poll" /\ (PollSelect(p) \/ PollRecheck(p))
  \/ g = "command" /\ (Commit(p) \/ CasLost(p) \/ CommandFails(p))
  \/ Read(p, g) \/ ReadFails(p, g) \/ Reload(p, g)

Next ==
  \E p \in Pods :
    \/ Launch(p) \/ OnActivate(p) \/ OnDeactivate(p) \/ Deactivated(p) \/ Crash(p)
    \/ Tick(p) \/ PollLock(p)
    \/ CommandLock(p) \/ OnPluginClusterEvent(p) \/ OnConfigurationChange(p)
    \/ \E g \in Goroutines : Continue(p, g)
    \/ Broadcast(p)

Spec == Init /\ [][Next]_vars

-----------------------------------------------------------------------------
(* Properties. *)

\* Every variable keeps the shape the code gives it.
TypeOK ==
  /\ version \in Nat
  /\ served \in [Pods -> Nat]
  /\ phase \in [Pods -> Phases]
  /\ configWriteMu \in [Pods -> Goroutines \cup {"free"}]
  /\ at \in [Pods -> [Goroutines -> Places]]
  /\ got \in [Pods -> Nat]
  /\ outgoing \subseteq Pods /\ inbox \subseteq Pods
  /\ tick \subseteq Pods /\ done \subseteq Pods

\* As long as its process lives, a pod never goes back to an older list than the
\* one it serves: a reload cannot overwrite the pod's own newer commit with
\* what it read before it (plugin.go:250-257).
NeverServesOlder ==
  [][\A p \in Pods : phase'[p] # "down" => served'[p] >= served[p]]_vars

\* A pod never serves a list that was not committed (a failed or lost
\* compare-and-set leaves the copy in memory alone).
ServesCommitted == \A p \in Pods : served[p] <= version

\* Once OnDeactivate has returned, and before OnActivate, the poll goroutine
\* is gone: no reload of the old instance is in flight (plugin.go:195-207).
NoPollAfterDeactivate == \A p \in Pods : phase[p] \in {"down", "up"} => at[p]["poll"] = "off"

\* A tick that is ready together with the stop starts no reload, whichever of
\* the two channels select picks: a poll that had not yet re-checked done when
\* the stop came leaves without touching the mutex or KV (plugin.go:190-199).
NoReloadStartsAfterStop ==
  [][\A p \in Pods : (p \in done /\ at[p]["poll"] \in {"select", "recheck"}) =>
       at'[p]["poll"] \in {"select", "recheck", "off"}]_vars

-----------------------------------------------------------------------------

\* Goroutines run, the ticker fires, a waiter gets the mutex, and KV answers
\* sooner or later.  Events are NOT assumed to arrive.
Fairness ==
  \A p \in Pods :
    /\ \A g \in Goroutines : WF_vars(Continue(p, g))
    /\ WF_vars(Tick(p)) /\ WF_vars(Deactivated(p))
    /\ SF_vars(PollLock(p))
    /\ SF_vars(Read(p, "poll"))

LiveSpec == Spec /\ Fairness

\* A pod that stays active ends up serving the last committed list, even if no
\* event ever reaches it.
Converges ==
  \A p \in Pods : <>[](phase[p] = "active") => <>[](served[p] = version)

\* OnDeactivate returns: waiting for the poll cannot block it for ever.
DeactivateReturns == \A p \in Pods : []<>(phase[p] # "stopping")

=============================================================================
