------------------------------ MODULE ProbeCache ------------------------------
(* The reachability cache of one pod (server/am_probe.go). Goroutines that     *)
(* render the inventory page or run a command ask for the state of an          *)
(* Alertmanager. probeAMReachability answers from a sync.Map while the entry is *)
(* younger than the TTL; otherwise it probes, evicts and stores, three steps    *)
(* without a lock, so any number of calls may be between any two of them.       *)
EXTENDS Integers, FiniteSets

CONSTANTS
  URLs,     \* Alertmanager base URLs
  Callers,  \* goroutines that probe
  Ttl,      \* amReachabilityTTL
  Cap,      \* amReachabilityMaxEntries
  MaxTime,  \* bound: the clock stops here
  Nothing   \* no entry, no URL, no time

ASSUME ProbeCacheAssumption ==
  /\ Ttl \in Nat /\ Cap \in Nat \ {0} /\ MaxTime \in Nat
  /\ IsFiniteSet(Callers) /\ IsFiniteSet(URLs)
  /\ Nothing \notin URLs /\ Nothing \notin Int

VARIABLES
  now,    \* the clock
  down,   \* for each URL, when its Alertmanager stopped answering (external)
  cache,  \* amReachabilityCache: URL -> entry or Nothing
  req     \* what each goroutine is doing

vars == <<now, down, cache, req>>

\* amReachabilityEntry: CheckedAt and Reachable.
Entry == [at : 0..MaxTime, up : BOOLEAN]

(* A call in progress: the URL, the probe's entry, the keys Range has still to  *)
(* visit and then those that are to be trimmed, the expired key it is about to    *)
(* delete, the live entries it has seen, and, as history, whether the call has    *)
(* had the cache to itself.                                                       *)
Idle == [pc |-> "idle", url |-> Nothing, entry |-> Nothing, todo |-> {},
         expired |-> Nothing, live |-> {}, alone |-> FALSE]

Cached == {u \in URLs : cache[u] # Nothing}

\* A look-up is answered from the cache: the entry is younger than the TTL.
Fresh(u) == cache[u] # Nothing /\ now - cache[u].at < Ttl

(* No entry, or one past its TTL: the call goes on to probe. A call that finds a *)
(* fresh entry returns it and changes nothing.                                    *)
Miss(c, u) ==
  /\ req[c].pc = "idle" /\ ~Fresh(u)
  /\ req' = [d \in Callers |->
               IF d = c
               THEN [Idle EXCEPT !.pc = "probe", !.url = u,
                                 !.alone = \A e \in Callers : req[e].pc = "idle"]
               ELSE [req[d] EXCEPT !.alone = FALSE]]
  /\ UNCHANGED <<now, down, cache>>

(* doAMProbe: one GET, bounded by amProbeTimeout. CheckedAt is the time it ends,  *)
(* and so is the time the eviction takes for now.                                 *)
Probe(c) ==
  /\ req[c].pc = "probe"
  /\ req' = [req EXCEPT ![c].pc = "range", ![c].todo = Cached,
                        ![c].entry = [at |-> now, up |-> down[req[c].url] = Nothing]]
  /\ UNCHANGED <<now, down, cache>>

(* evictReachabilityCache, sync.Map.Range: one key at a time, each with the      *)
(* value it has when it is visited; no snapshot of the map.                       *)
Visit(c, u) ==
  LET r == req[c]
      age == r.entry.at - cache[u].at
  IN
  /\ r.pc = "range" /\ r.expired = Nothing /\ u \in r.todo
  /\ req' = [req EXCEPT
       ![c].todo = @ \ {u},
       ![c].expired = IF u \in Cached /\ age > Ttl THEN u ELSE Nothing,
       ![c].live = IF u \in Cached /\ age <= Ttl THEN @ \cup {<<u, cache[u].at>>} ELSE @]
  /\ UNCHANGED <<now, down, cache>>

(* Delete(k): by key, whatever the map holds under it by now. *)
Drop(c) ==
  /\ req[c].pc = "range" /\ req[c].expired # Nothing
  /\ cache' = [cache EXCEPT ![req[c].expired] = Nothing]
  /\ req' = [req EXCEPT ![c].expired = Nothing]
  /\ UNCHANGED <<now, down>>

\* Mutant of Excess: only the stalest entry goes, once the cache is over the cap.
ExcessOfOne(live) == IF Cardinality(live) + 1 > Cap THEN 1 ELSE 0

\* Mutant of Excess: no room is reserved for the entry about to be stored.
ExcessWithoutRoom(live) == Cardinality(live) - Cap

Excess(live) == Cardinality(live) + 1 - Cap

(* The Excess stalest of the live entries seen, in any order among equals. *)
Victims(live) ==
  {V \in SUBSET live :
     /\ Cardinality(V) = (IF Excess(live) > 0 THEN Excess(live) ELSE 0)
     /\ \A v \in V, l \in live \ V : v[2] <= l[2]}

Trim(c) ==
  LET r == req[c] IN
  /\ r.pc = "range" /\ r.expired = Nothing /\ r.todo = {}
  /\ \E V \in Victims(r.live) :
       req' = [req EXCEPT ![c].pc = "store", ![c].live = {}, ![c].todo = {v[1] : v \in V}]
  /\ UNCHANGED <<now, down, cache>>

Evict(c, u) ==
  /\ req[c].pc = "store" /\ u \in req[c].todo
  /\ cache' = [cache EXCEPT ![u] = Nothing]
  /\ req' = [req EXCEPT ![c].todo = @ \ {u}]
  /\ UNCHANGED <<now, down>>

\* Mutant of Store: CheckedAt is the time of the Store, not of the probe.
StoreStampsAgain(c) ==
  LET u == req[c].url IN
  /\ req[c].pc = "store" /\ req[c].todo = {}
  /\ cache' = [cache EXCEPT ![u] = [req[c].entry EXCEPT !.at = now]]
  /\ \E sees \in SUBSET {d \in Callers : req[d].pc = "range"} :
       req' = [d \in Callers |->
                 IF d = c THEN Idle
                 ELSE IF d \in sees THEN [req[d] EXCEPT !.todo = @ \cup {u}] ELSE req[d]]
  /\ UNCHANGED <<now, down>>

(* Store. Whether a Range that is under way elsewhere comes upon the new entry is *)
(* up to sync.Map.                                                                *)
Store(c) ==
  LET u == req[c].url IN
  /\ req[c].pc = "store" /\ req[c].todo = {}
  /\ cache' = [cache EXCEPT ![u] = req[c].entry]
  /\ \E sees \in SUBSET {d \in Callers : req[d].pc = "range"} :
       req' = [d \in Callers |->
                 IF d = c THEN Idle
                 ELSE IF d \in sees THEN [req[d] EXCEPT !.todo = @ \cup {u}] ELSE req[d]]
  /\ UNCHANGED <<now, down>>

Call(c) ==
  \/ \E u \in URLs : Miss(c, u) \/ Visit(c, u) \/ Evict(c, u)
  \/ Probe(c)
  \/ Drop(c)
  \/ Trim(c)
  \/ Store(c)

\* Bound: one Alertmanager goes down, once.
GoDown(u) ==
  /\ \A v \in URLs : down[v] = Nothing
  /\ down' = [down EXCEPT ![u] = now]
  /\ UNCHANGED <<now, cache, req>>

Tick ==
  /\ now < MaxTime
  /\ now' = now + 1
  /\ UNCHANGED <<down, cache, req>>

Init ==
  /\ now = 0
  /\ down = [u \in URLs |-> Nothing]
  /\ cache = [u \in URLs |-> Nothing]
  /\ req = [c \in Callers |-> Idle]

Next ==
  \/ \E c \in Callers : Call(c)
  \/ \E u \in URLs : GoDown(u)
  \/ Tick

Spec == Init /\ [][Next]_vars

-----------------------------------------------------------------------------
\* Every variable has its type; a call past its probe carries an entry.
TypeOK ==
  /\ now \in 0..MaxTime
  /\ down \in [URLs -> 0..MaxTime \cup {Nothing}]
  /\ cache \in [URLs -> Entry \cup {Nothing}]
  /\ \A c \in Callers :
       /\ req[c].pc \in {"idle", "probe", "range", "store"}
       /\ (req[c].pc = "idle") = (req[c].url = Nothing)
       /\ req[c].pc \in {"range", "store"} => req[c].entry \in Entry
       /\ req[c].todo \subseteq URLs /\ req[c].expired \in URLs \cup {Nothing}

(* The cache may outgrow its cap, since eviction and Store are separate steps,   *)
(* but never by more than the other calls in flight can add: "so the overshoot    *)
(* stays bounded without taking a lock on the probe hot path" (am_probe.go).       *)
OvershootBounded == Cardinality(Cached) <= Cap + Cardinality(Callers) - 1

(* The overshoot does not last: a call that had the cache to itself from its      *)
(* look-up on leaves it within the cap, however far it was over.                   *)
LoneCallRestoresCap ==
  [][\A c \in Callers :
       req[c].pc = "store" /\ req[c].alone /\ req'[c].pc = "idle"
         => Cardinality(Cached') <= Cap]_vars

(* A look-up answered from the cache was right at some time within the last TTL,   *)
(* however late its entry was stored and whichever calls overwrote each other: an   *)
(* Alertmanager that went down is shown as up for one TTL and no longer.            *)
HitsAreRecent ==
  \A u \in URLs : Fresh(u) /\ cache[u].up /\ down[u] # Nothing => down[u] > now - Ttl

=============================================================================
