-------------------------- MODULE ProbeCache_proofs --------------------------
(***************************************************************************)
(* Proofs about ProbeCache, for every number of goroutines, Alertmanagers, *)
(* cap and TTL, and however long the clock runs.                           *)
(*                                                                         *)
(* OvershootBounded is the hard one: it counts steps that calls took       *)
(* without seeing each other.  Its invariant orders the calls in flight by *)
(* their probes: what a call has not seen was stored since its probe, and  *)
(* each call that probed before it stores at most once.                    *)
(***************************************************************************)
EXTENDS ProbeCache, FiniteSetTheorems, TLAPS

\* A call in progress, as the steps build it.
Request ==
  [pc : {"idle", "probe", "range", "store"}, url : URLs \cup {Nothing},
   entry : Entry \cup {Nothing}, todo : SUBSET URLs, expired : URLs \cup {Nothing},
   live : SUBSET (URLs \X (0..MaxTime)), alone : BOOLEAN]

\* Which fields of a call mean something at which step.
Shape(r) ==
  /\ (r.pc = "idle") <=> (r.url = Nothing)
  /\ r.pc \in {"range", "store"} => r.entry \in Entry
  /\ r.pc # "range" => r.live = {} /\ r.expired = Nothing
  /\ r.alone => r.pc # "idle"

Typed ==
  /\ now \in 0..MaxTime
  /\ down \in [URLs -> 0..MaxTime \cup {Nothing}]
  /\ cache \in [URLs -> Entry \cup {Nothing}]
  /\ req \in [Callers -> Request]
  /\ \A c \in Callers : Shape(req[c])

-----------------------------------------------------------------------------
(* Types. *)

\* A goroutine without a call is well formed.
LEMMA IdleTyped == Idle \in Request /\ Shape(Idle)
BY ProbeCacheAssumption DEF Idle, Request, Shape

\* The cache starts empty, and nobody has called.
LEMMA TypedInit == Init => Typed
BY ProbeCacheAssumption, IdleTyped DEF Init, Typed

\* No step changes the shape of a variable or of a call.
LEMMA TypedStep == Typed /\ [Next]_vars => Typed'
<1> SUFFICES ASSUME Typed, [Next]_vars PROVE Typed'
  OBVIOUS
<1> USE ProbeCacheAssumption DEF Typed
<1>1. ASSUME NEW c \in Callers, NEW r \in Request, Shape(r), req' = [req EXCEPT ![c] = r]
      PROVE  req' \in [Callers -> Request] /\ \A d \in Callers : Shape(req'[d])
  BY <1>1
<1>2. ASSUME NEW c \in Callers, NEW u \in URLs, Miss(c, u) PROVE Typed'
  <2> DEFINE r == [Idle EXCEPT !.pc = "probe", !.url = u,
                               !.alone = \A e \in Callers : req[e].pc = "idle"]
  <2>1. r \in Request /\ Shape(r) BY IdleTyped DEF Request, Shape, Idle
  <2>2. ASSUME NEW d \in Callers
        PROVE  LET q == [req[d] EXCEPT !.alone = FALSE] IN q \in Request /\ Shape(q)
    <3> DEFINE q == [req[d] EXCEPT !.alone = FALSE]
    <3>1. q \in Request BY ZenonT(40) DEF Request
    <3>2. /\ ~q.alone /\ q.pc = req[d].pc /\ q.url = req[d].url /\ q.entry = req[d].entry
          /\ q.live = req[d].live /\ q.expired = req[d].expired
      BY DEF Request
    <3> HIDE DEF q
    <3>3. Shape(q) BY <3>2 DEF Shape
    <3>4. QED BY <3>1, <3>3 DEF q
  <2>3. QED BY <1>2, <2>1, <2>2 DEF Miss
<1>3. ASSUME NEW c \in Callers, Probe(c) PROVE Typed'
  <2> DEFINE e == [at |-> now, up |-> down[req[c].url] = Nothing]
             r == [req[c] EXCEPT !.pc = "range", !.todo = Cached, !.entry = e]
  <2>1. e \in Entry BY DEF Entry
  <2>2. req' = [req EXCEPT ![c] = r] BY <1>3 DEF Probe
  <2> HIDE DEF e
  <2>3. r \in Request BY ZenonT(40), <2>1 DEF Request, Cached
  <2>4. Shape(r) BY <1>3, <2>1 DEF Shape, Probe, Request
  <2>5. QED BY <1>1, <1>3, <2>2, <2>3, <2>4 DEF Probe
<1>4. ASSUME NEW c \in Callers, NEW u \in URLs, Visit(c, u) PROVE Typed'
  <2> DEFINE age == req[c].entry.at - cache[u].at
             e == IF u \in Cached /\ age > Ttl THEN u ELSE Nothing
             l == IF u \in Cached /\ age <= Ttl THEN req[c].live \cup {<<u, cache[u].at>>} ELSE req[c].live
             r == [req[c] EXCEPT !.todo = @ \ {u}, !.expired = e, !.live = l]
  <2>1. u \in Cached => cache[u] \in Entry BY DEF Cached
  <2>2. l \in SUBSET (URLs \X (0..MaxTime)) BY <2>1 DEF Request, Entry
  <2>3. r \in Request BY ZenonT(40), <2>2 DEF Request
  <2>4. Shape(r) BY <1>4 DEF Shape, Visit, Request
  <2>5. req' = [req EXCEPT ![c] = r] BY <1>4 DEF Visit
  <2>6. QED BY <1>1, <1>4, <2>3, <2>4, <2>5 DEF Visit
<1>5. ASSUME NEW c \in Callers, Drop(c) PROVE Typed'
  <2> DEFINE r == [req[c] EXCEPT !.expired = Nothing]
  <2>1. r \in Request BY DEF Request
  <2>2. Shape(r) BY <1>5 DEF Shape, Drop, Request
  <2>3. req' = [req EXCEPT ![c] = r] BY <1>5 DEF Drop
  <2>4. QED BY <1>1, <1>5, <2>1, <2>2, <2>3 DEF Drop
<1>6. ASSUME NEW c \in Callers, Trim(c) PROVE Typed'
  <2>1. PICK V \in Victims(req[c].live) :
           req' = [req EXCEPT ![c].pc = "store", ![c].live = {}, ![c].todo = {v[1] : v \in V}]
    BY <1>6 DEF Trim
  <2> DEFINE r == [req[c] EXCEPT !.pc = "store", !.live = {}, !.todo = {v[1] : v \in V}]
  <2>2. {v[1] : v \in V} \in SUBSET URLs
    <3>1. V \subseteq URLs \X (0..MaxTime) BY DEF Victims, Request
    <3>2. QED BY <3>1
  <2>3. r \in Request BY ZenonT(40), <2>2 DEF Request
  <2>4. Shape(r) BY <1>6 DEF Shape, Trim, Request
  <2>5. QED BY <1>1, <1>6, <2>1, <2>3, <2>4 DEF Trim
<1>7. ASSUME NEW c \in Callers, NEW u \in URLs, Evict(c, u) PROVE Typed'
  <2> DEFINE r == [req[c] EXCEPT !.todo = @ \ {u}]
  <2>1. r \in Request BY ZenonT(40) DEF Request
  <2>2. Shape(r) BY <1>7 DEF Shape, Evict, Request
  <2>3. req' = [req EXCEPT ![c] = r] BY <1>7 DEF Evict
  <2>4. QED BY <1>1, <1>7, <2>1, <2>2, <2>3 DEF Evict
<1>8. ASSUME NEW c \in Callers, Store(c) PROVE Typed'
  <2>1. req[c].url \in URLs /\ req[c].entry \in Entry BY <1>8 DEF Store, Shape, Request
  <2>2. \A d \in Callers : LET r == [req[d] EXCEPT !.todo = @ \cup {req[c].url}] IN
                           r \in Request /\ Shape(r)
    BY <2>1 DEF Request, Shape
  <2>3. PICK sees \in SUBSET {d \in Callers : req[d].pc = "range"} :
           req' = [d \in Callers |->
                     IF d = c THEN Idle
                     ELSE IF d \in sees THEN [req[d] EXCEPT !.todo = @ \cup {req[c].url}] ELSE req[d]]
    BY <1>8 DEF Store
  <2>4. req' \in [Callers -> Request] /\ \A d \in Callers : Shape(req'[d])
    BY <2>2, <2>3, IdleTyped
  <2>5. QED BY <1>8, <2>1, <2>4 DEF Store
<1>9. ASSUME NEW u \in URLs, GoDown(u) PROVE Typed'
  BY <1>9 DEF GoDown
<1>10. CASE Tick BY <1>10 DEF Tick
<1>11. CASE UNCHANGED vars BY <1>11 DEF vars
<1>12. QED
  BY <1>2, <1>3, <1>4, <1>5, <1>6, <1>7, <1>8, <1>9, <1>10, <1>11 DEF Next, Call

\* Every variable has its type, and a call past its probe carries an entry.
THEOREM TypeCorrect == Spec => []TypeOK
<1>1. Typed => TypeOK BY DEF Typed, TypeOK, Shape, Request
<1>2. QED BY <1>1, TypedInit, TypedStep, PTL DEF Spec

-----------------------------------------------------------------------------
(* Answers from the cache. *)

\* An entry says "up" only if its Alertmanager had not gone down by then; and
\* nobody carries an entry from the future.
Truthful(e, u) == e.at <= now /\ (e.up /\ down[u] # Nothing => e.at <= down[u])

EntriesTruthful ==
  /\ \A u \in Cached : Truthful(cache[u], u)
  /\ \A c \in Callers : req[c].pc \in {"range", "store"} => Truthful(req[c].entry, req[c].url)

\* No step makes an entry say "up" of a later time than it was seen at.
LEMMA TruthfulStep == Typed /\ EntriesTruthful /\ [Next]_vars => EntriesTruthful'
<1> SUFFICES ASSUME Typed, EntriesTruthful, [Next]_vars PROVE EntriesTruthful'
  OBVIOUS
<1> USE ProbeCacheAssumption DEF Typed, EntriesTruthful, Truthful, Cached
<1>1. ASSUME NEW c \in Callers, NEW u \in URLs, Miss(c, u) PROVE EntriesTruthful'
  <2>1. UNCHANGED <<now, down, cache>> BY <1>1 DEF Miss
  <2>2. \A d \in Callers : req'[d].pc \in {"range", "store"} =>
           req'[d].pc = req[d].pc /\ req'[d].entry = req[d].entry /\ req'[d].url = req[d].url
    BY <1>1, IdleTyped DEF Miss, Request
  <2>3. QED BY <2>1, <2>2
<1>2. ASSUME NEW c \in Callers, Probe(c) PROVE EntriesTruthful'
  <2>1. UNCHANGED <<now, down, cache>> /\ \A d \in Callers \ {c} : req'[d] = req[d]
    BY <1>2 DEF Probe
  <2>2. /\ req'[c].entry.at = now /\ (req'[c].entry.up => down[req[c].url] = Nothing)
        /\ req'[c].url = req[c].url
    BY <1>2 DEF Probe, Request
  <2>3. Truthful(req'[c].entry, req'[c].url) BY <2>2
  <2>4. QED BY <2>1, <2>3
<1>3. ASSUME NEW c \in Callers, NEW T \in SUBSET URLs,
             cache' = [u \in URLs |-> IF u \in T THEN Nothing ELSE cache[u]], UNCHANGED <<now, down>>,
             \A d \in Callers : req'[d].pc \in {"range", "store"} =>
               /\ req[d].pc \in {"range", "store"}
               /\ req'[d].entry = req[d].entry /\ req'[d].url = req[d].url
      PROVE  EntriesTruthful'
  BY <1>3
<1>4. ASSUME NEW c \in Callers, NEW u \in URLs, Visit(c, u) PROVE EntriesTruthful'
  <2>1. cache' = [v \in URLs |-> IF v \in {} THEN Nothing ELSE cache[v]] BY <1>4 DEF Visit
  <2>2. UNCHANGED <<now, down>> BY <1>4 DEF Visit
  <2>3. \A d \in Callers : req'[d].pc \in {"range", "store"} =>
          /\ req[d].pc \in {"range", "store"}
          /\ req'[d].entry = req[d].entry /\ req'[d].url = req[d].url
    BY <1>4 DEF Visit, Request
  <2>4. QED BY <1>3, <2>1, <2>2, <2>3
<1>5. ASSUME NEW c \in Callers, Drop(c) PROVE EntriesTruthful'
  <2>1. cache' = [v \in URLs |-> IF v \in {req[c].expired} \cap URLs THEN Nothing ELSE cache[v]]
    BY <1>5 DEF Drop
  <2>2. UNCHANGED <<now, down>> BY <1>5 DEF Drop
  <2>3. \A d \in Callers : req'[d].pc \in {"range", "store"} =>
          /\ req[d].pc \in {"range", "store"}
          /\ req'[d].entry = req[d].entry /\ req'[d].url = req[d].url
    BY <1>5 DEF Drop, Request
  <2>4. QED BY <1>3, <2>1, <2>2, <2>3
<1>6. ASSUME NEW c \in Callers, Trim(c) PROVE EntriesTruthful'
  <2>1. cache' = [v \in URLs |-> IF v \in {} THEN Nothing ELSE cache[v]] BY <1>6 DEF Trim
  <2>2. UNCHANGED <<now, down>> BY <1>6 DEF Trim
  <2>3. \A d \in Callers : req'[d].pc \in {"range", "store"} =>
          /\ req[d].pc \in {"range", "store"}
          /\ req'[d].entry = req[d].entry /\ req'[d].url = req[d].url
    BY <1>6 DEF Trim, Request
  <2>4. QED BY <1>3, <2>1, <2>2, <2>3
<1>7. ASSUME NEW c \in Callers, NEW u \in URLs, Evict(c, u) PROVE EntriesTruthful'
  <2>1. cache' = [v \in URLs |-> IF v \in {u} THEN Nothing ELSE cache[v]] BY <1>7 DEF Evict
  <2>2. UNCHANGED <<now, down>> BY <1>7 DEF Evict
  <2>3. \A d \in Callers : req'[d].pc \in {"range", "store"} =>
          /\ req[d].pc \in {"range", "store"}
          /\ req'[d].entry = req[d].entry /\ req'[d].url = req[d].url
    BY <1>7 DEF Evict, Request
  <2>4. QED BY <1>3, <2>1, <2>2, <2>3
<1>8. ASSUME NEW c \in Callers, Store(c) PROVE EntriesTruthful'
  <2>1. UNCHANGED <<now, down>> /\ cache' = [cache EXCEPT ![req[c].url] = req[c].entry]
    BY <1>8 DEF Store
  <2>2. \A d \in Callers : req'[d].pc \in {"range", "store"} =>
          req'[d].pc = req[d].pc /\ req'[d].entry = req[d].entry /\ req'[d].url = req[d].url
    BY <1>8, IdleTyped DEF Store, Idle, Request
  <2>3. Truthful(req[c].entry, req[c].url) BY <1>8 DEF Store
  <2>4. QED BY <2>1, <2>2, <2>3
<1>9. ASSUME NEW u \in URLs, GoDown(u) PROVE EntriesTruthful'
  BY <1>9 DEF GoDown
<1>10. CASE Tick
  <2>1. \A u \in Cached : cache[u].at \in Nat BY DEF Entry
  <2>2. \A c \in Callers : req[c].pc \in {"range", "store"} => req[c].entry.at \in Nat
    BY DEF Shape, Entry
  <2>3. QED BY <1>10, <2>1, <2>2 DEF Tick
<1>11. CASE UNCHANGED vars BY <1>11 DEF vars
<1>12. QED
  BY <1>1, <1>2, <1>4, <1>5, <1>6, <1>7, <1>8, <1>9, <1>10, <1>11 DEF Next, Call

\* An answer from the cache was right at some time within the last TTL: an
\* Alertmanager that went down is shown as up for one TTL and no longer.
THEOREM HitsAlwaysRecent == Spec => []HitsAreRecent
<1>1. Init => EntriesTruthful
  BY DEF Init, EntriesTruthful, Cached, Idle
<1>2. Typed /\ EntriesTruthful => HitsAreRecent
  <2> SUFFICES ASSUME Typed, EntriesTruthful, NEW u \in URLs, Fresh(u), cache[u].up, down[u] # Nothing
               PROVE  down[u] > now - Ttl
    BY DEF HitsAreRecent
  <2>1. cache[u].at <= down[u] BY DEF EntriesTruthful, Truthful, Cached, Fresh
  <2>2. cache[u].at \in Nat /\ now \in Nat /\ down[u] \in Nat
    BY DEF Typed, Fresh, Entry
  <2>3. now - cache[u].at < Ttl BY DEF Fresh
  <2>4. QED BY <2>1, <2>2, <2>3, ProbeCacheAssumption
<1>3. QED BY <1>1, <1>2, TypedInit, TypedStep, TruthfulStep, PTL DEF Spec

-----------------------------------------------------------------------------
(* The overshoot.  A witness of the invariant names, for the calls in flight:   *)
(* behind, for each call the others that probed before it; old, those that       *)
(* probed before the last call to have stored; kept, the keys a call that has     *)
(* trimmed left in the cache.                                                     *)

InFlight(q) == {c \in Callers : q[c].pc \in {"range", "store"}}

\* The keys a call still has to deal with, and the keys it has not come upon.
Known(r) == r.todo \cup {r.expired} \cup {l[1] : l \in r.live}
Unseen(r, S, kept) == S \ (Known(r) \cup kept)

\* behind orders the calls that are not old.
Ranked(q, old, behind) ==
  /\ old \subseteq InFlight(q)
  /\ \A c \in InFlight(q) \ old :
       /\ old \subseteq behind[c] /\ behind[c] \subseteq InFlight(q) \ {c}
       /\ \A d \in InFlight(q) \ old :
            /\ d = c \/ c \in behind[d] \/ d \in behind[c]
            /\ c \in behind[d] => behind[c] \subseteq behind[d]

\* The cached keys S, and those a call has not seen, are few enough that the
\* calls that may still store cannot exceed the bound.
Counted(q, S, old, behind, kept) ==
  /\ Cardinality(S) + Cardinality(old) <= Cap + Cardinality(Callers) - 1
  /\ \A c \in InFlight(q) \ old :
       Cardinality(Unseen(q[c], S, kept[c])) + Cardinality(behind[c]) <= Cardinality(Callers) - 1
  /\ \A c \in Callers : Cardinality(kept[c]) <= Cap - 1 /\ (q[c].pc # "store" => kept[c] = {})

Ranks == [Callers -> SUBSET Callers]
Keeps == [Callers -> SUBSET URLs]

Overshoot ==
  \E old \in SUBSET Callers, behind \in Ranks, kept \in Keeps :
    Ranked(req, old, behind) /\ Counted(req, Cached, old, behind, kept)

\* What the counts need to know of sets of keys and of goroutines.
LEMMA Sizes ==
  ASSUME NEW S, IsFiniteSet(S)
  PROVE  /\ Cardinality(S) \in Nat
         /\ \A T \in SUBSET S : IsFiniteSet(T) /\ Cardinality(T) \in Nat /\ Cardinality(T) <= Cardinality(S)
BY FS_Subset, FS_CardinalityType

\* A union is no larger than its parts together.
LEMMA UnionSize ==
  ASSUME NEW S, NEW T, IsFiniteSet(S), IsFiniteSet(T)
  PROVE  IsFiniteSet(S \cup T) /\ Cardinality(S \cup T) <= Cardinality(S) + Cardinality(T)
<1>1. /\ IsFiniteSet(S \cup T) /\ IsFiniteSet(S \cap T)
      /\ Cardinality(S \cup T) = Cardinality(S) + Cardinality(T) - Cardinality(S \cap T)
  BY FS_Union, FS_Intersection
<1>2. Cardinality(S) \in Nat /\ Cardinality(T) \in Nat /\ Cardinality(S \cap T) \in Nat
  BY <1>1, FS_CardinalityType
<1>3. QED BY <1>1, <1>2

\* Sets of keys and of goroutines can be counted.
LEMMA Small ==
  /\ \A S \in SUBSET URLs : IsFiniteSet(S) /\ Cardinality(S) \in Nat
  /\ \A S \in SUBSET Callers : IsFiniteSet(S) /\ Cardinality(S) \in Nat
  /\ Cardinality(Callers) \in Nat
  /\ \A c \in Callers : \A S \in SUBSET (Callers \ {c}) : Cardinality(S) <= Cardinality(Callers) - 1
<1>1. IsFiniteSet(URLs) /\ IsFiniteSet(Callers) BY ProbeCacheAssumption
<1>2. ASSUME NEW c \in Callers, NEW S \in SUBSET (Callers \ {c})
      PROVE  Cardinality(S) <= Cardinality(Callers) - 1
  <2>1. IsFiniteSet(Callers \ {c}) /\ Cardinality(Callers \ {c}) = Cardinality(Callers) - 1
    BY <1>1, FS_RemoveElement
  <2>2. QED BY <2>1, Sizes
<1>3. QED BY <1>1, <1>2, Sizes

\* What a call has not come upon are keys.
LEMMA UnseenType ==
  ASSUME NEW r, NEW S \in SUBSET URLs, NEW kept
  PROVE  Unseen(r, S, kept) \in SUBSET URLs
BY DEF Unseen

\* A step after which the same calls are in flight, nothing is new in the cache and
\* no call loses sight of a key that is still there.
LEMMA QuietStep ==
  ASSUME NEW q, NEW q2, NEW S \in SUBSET URLs, NEW T \in SUBSET S,
         NEW old \in SUBSET Callers, NEW behind \in Ranks, NEW kept \in Keeps, NEW kept2 \in Keeps,
         Ranked(q, old, behind), Counted(q, S, old, behind, kept),
         InFlight(q2) = InFlight(q),
         \A c \in InFlight(q) : Unseen(q2[c], T, kept2[c]) \subseteq Unseen(q[c], S, kept[c]),
         \A c \in Callers : Cardinality(kept2[c]) <= Cap - 1 /\ (q2[c].pc # "store" => kept2[c] = {})
  PROVE  Ranked(q2, old, behind) /\ Counted(q2, T, old, behind, kept2)
<1>1. Ranked(q2, old, behind) BY DEF Ranked
<1>2. Cardinality(T) + Cardinality(old) <= Cap + Cardinality(Callers) - 1
  <2>1. Cardinality(T) <= Cardinality(S) BY Small, Sizes
  <2>2. Cardinality(T) \in Nat /\ Cardinality(S) \in Nat /\ Cardinality(old) \in Nat BY Small
  <2>3. QED BY <2>1, <2>2, Small, ProbeCacheAssumption DEF Counted
<1>3. ASSUME NEW c \in InFlight(q2) \ old
      PROVE  Cardinality(Unseen(q2[c], T, kept2[c])) + Cardinality(behind[c]) <= Cardinality(Callers) - 1
  <2> DEFINE before == Unseen(q[c], S, kept[c])
             after == Unseen(q2[c], T, kept2[c])
  <2>1. c \in Callers /\ c \in InFlight(q) \ old BY DEF InFlight
  <2>2. before \in SUBSET URLs /\ after \in SUBSET before BY <2>1, UnseenType
  <2>3. Cardinality(before) + Cardinality(behind[c]) <= Cardinality(Callers) - 1 BY <2>1 DEF Counted
  <2> HIDE DEF before, after
  <2>4. /\ Cardinality(after) <= Cardinality(before) /\ Cardinality(after) \in Nat
        /\ Cardinality(before) \in Nat
    BY <2>2, Small, Sizes
  <2>5. Cardinality(behind[c]) \in Nat BY <2>1, Small DEF Ranks
  <2>6. Cardinality(after) + Cardinality(behind[c]) <= Cardinality(Callers) - 1
    BY <2>3, <2>4, <2>5, Small
  <2>7. QED BY <2>6 DEF after
<1>4. QED BY <1>1, <1>2, <1>3 DEF Counted

\* A probe ranks its call last: it has everything still to see.
LEMMA ProbeStep ==
  ASSUME Typed, NEW c \in Callers, Probe(c),
         NEW old \in SUBSET Callers, NEW behind \in Ranks, NEW kept \in Keeps,
         Ranked(req, old, behind), Counted(req, Cached, old, behind, kept)
  PROVE  LET b == [behind EXCEPT ![c] = InFlight(req)] IN
         Ranked(req', old, b) /\ Counted(req', Cached, old, b, kept)
<1> DEFINE b == [behind EXCEPT ![c] = InFlight(req)]
<1>1. c \notin InFlight(req) /\ InFlight(req') = InFlight(req) \cup {c}
  BY DEF Probe, InFlight, Typed, Request
<1>2. \A d \in Callers \ {c} : req'[d] = req[d] BY DEF Probe, Typed
<1>3. req'[c].todo = Cached /\ req'[c].pc = "range" BY DEF Probe, Typed, Request
<1>4. \A d \in InFlight(req) : d \in Callers \ {c} BY <1>1 DEF InFlight
<1>5. b[c] = InFlight(req) /\ \A d \in Callers \ {c} : b[d] = behind[d] BY DEF Ranks
<1> HIDE DEF b
<1>6. Ranked(req', old, b)
  BY <1>1, <1>4, <1>5 DEF Ranked
<1>7. Cardinality(Unseen(req'[c], Cached, kept[c])) + Cardinality(b[c]) <= Cardinality(Callers) - 1
  <2>1. Unseen(req'[c], Cached, kept[c]) = {} BY <1>3 DEF Unseen, Known
  <2>2. InFlight(req) \in SUBSET (Callers \ {c}) BY <1>4
  <2>3. Cardinality(InFlight(req)) <= Cardinality(Callers) - 1 /\ Cardinality(InFlight(req)) \in Nat
    BY <2>2, Small
  <2>4. QED BY <1>5, <2>1, <2>3, FS_EmptySet
<1>8. Counted(req', Cached, old, b, kept)
  <2>1. \A d \in InFlight(req') \ old :
          Cardinality(Unseen(req'[d], Cached, kept[d])) + Cardinality(b[d]) <= Cardinality(Callers) - 1
    BY <1>1, <1>2, <1>4, <1>5, <1>7 DEF Counted
  <2>2. \A d \in Callers : Cardinality(kept[d]) <= Cap - 1 /\ (req'[d].pc # "store" => kept[d] = {})
    <3>1. kept[c] = {} BY DEF Counted, Probe
    <3>2. QED BY <1>2, <3>1 DEF Counted
  <2>3. QED BY <2>1, <2>2 DEF Counted
<1>9. QED BY <1>6, <1>8 DEF b

\* A store uses up the place its call had in every count.  If the call is not old,
\* it becomes the last one to have stored: what is cached is what it kept, what it
\* had not seen, and its own entry.
LEMMA StoreStep ==
  ASSUME Typed, NEW c \in Callers, Store(c),
         NEW old \in SUBSET Callers, NEW behind \in Ranks, NEW kept \in Keeps,
         Ranked(req, old, behind), Counted(req, Cached, old, behind, kept)
  PROVE  Overshoot'
<1> DEFINE u == req[c].url
           old2 == (IF c \in old THEN old ELSE behind[c]) \ {c}
           behind2 == [d \in Callers |-> behind[d] \ {c}]
           kept2 == [kept EXCEPT ![c] = {}]
           S2 == Cached \cup {u}
<1>1. /\ c \in InFlight(req) /\ u \in URLs /\ req[c].pc = "store" /\ req[c].todo = {}
      /\ req[c].live = {} /\ req[c].expired = Nothing /\ Cached' \subseteq S2
  BY DEF Store, InFlight, Typed, Shape, Cached, Request
<1>2. /\ req'[c] = Idle
      /\ \A d \in Callers \ {c} : /\ req'[d].pc = req[d].pc /\ req'[d].expired = req[d].expired
                                  /\ req'[d].live = req[d].live /\ req[d].todo \subseteq req'[d].todo
  BY DEF Store, Typed, Request
<1>3. InFlight(req') = InFlight(req) \ {c}
  BY <1>2 DEF InFlight, Idle
<1>4. /\ old2 \in SUBSET Callers /\ behind2 \in Ranks /\ kept2 \in Keeps
      /\ \A d \in Callers : behind2[d] = behind[d] \ {c}
      /\ kept2[c] = {} /\ \A d \in Callers \ {c} : kept2[d] = kept[d]
  BY DEF Ranks, Keeps
<1>5. \A d \in InFlight(req') \ old2 : d \in Callers \ {c} /\ d \in InFlight(req) \ old /\ c \in behind[d]
  <2> SUFFICES ASSUME NEW d \in InFlight(req') \ old2
               PROVE  d \in Callers \ {c} /\ d \in InFlight(req) \ old /\ c \in behind[d]
    OBVIOUS
  <2>1. d \in Callers \ {c} /\ d \in InFlight(req) BY <1>3 DEF InFlight
  <2>2. CASE c \in old BY <2>1, <2>2 DEF Ranked
  <2>3. CASE c \notin old BY <1>1, <2>1, <2>3 DEF Ranked
  <2>4. QED BY <2>2, <2>3
<1>6. Ranked(req', old2, behind2)
  <2>1. old2 \subseteq InFlight(req')
    <3>1. CASE c \in old BY <1>3, <3>1 DEF Ranked
    <3>2. CASE c \notin old BY <1>1, <1>3, <3>2 DEF Ranked
    <3>3. QED BY <3>1, <3>2
  <2>2. ASSUME NEW d \in InFlight(req') \ old2 PROVE old2 \subseteq behind2[d]
    <3>1. CASE c \in old BY <1>4, <1>5, <3>1 DEF Ranked
    <3>2. CASE c \notin old
      <4>1. behind[c] \subseteq behind[d] BY <1>1, <1>5, <3>2 DEF Ranked
      <4>2. QED BY <1>4, <1>5, <3>2, <4>1
    <3>3. QED BY <3>1, <3>2
  <2>3. ASSUME NEW d \in InFlight(req') \ old2
        PROVE  /\ behind2[d] \subseteq InFlight(req') \ {d}
               /\ \A e \in InFlight(req') \ old2 :
                    /\ e = d \/ d \in behind2[e] \/ e \in behind2[d]
                    /\ d \in behind2[e] => behind2[d] \subseteq behind2[e]
    BY <1>3, <1>4, <1>5 DEF Ranked
  <2> HIDE DEF old2, behind2
  <2>4. QED BY <2>1, <2>2, <2>3 DEF Ranked
<1>7. Cardinality(Cached') + Cardinality(old2) <= Cap + Cardinality(Callers) - 1
  <2>0. /\ Cached \in SUBSET URLs /\ Cached' \in SUBSET URLs /\ S2 \in SUBSET URLs
        /\ {u} \in SUBSET URLs /\ Cardinality({u}) = 1
        /\ behind[c] \in SUBSET Callers /\ kept[c] \in SUBSET URLs
    BY <1>1, FS_Singleton DEF Cached, Ranks, Keeps
  <2>1. Cardinality(Cached') <= Cardinality(S2)
    BY <1>1, <2>0, Small, Sizes
  <2>2. Cardinality(S2) <= Cardinality(Cached) + 1
    BY <2>0, Small, UnionSize
  <2>3. CASE c \in old
    <3>1. Cardinality(old2) = Cardinality(old) - 1 BY <2>3, Small, FS_RemoveElement
    <3>2. /\ Cardinality(Cached') \in Nat /\ Cardinality(S2) \in Nat
          /\ Cardinality(Cached) \in Nat /\ Cardinality(old) \in Nat
      BY <2>0, Small
    <3>3. Cardinality(Cached) + Cardinality(old) <= Cap + Cardinality(Callers) - 1 BY DEF Counted
    <3> HIDE DEF S2, old2
    <3>4. QED BY <2>1, <2>2, <3>1, <3>2, <3>3, Small, ProbeCacheAssumption
  <2>4. CASE c \notin old
    <3> DEFINE fresh == Unseen(req[c], Cached, kept[c])
    <3>1. c \notin behind[c] /\ old2 = behind[c] BY <1>1, <2>4 DEF Ranked
    <3>2. Cached \subseteq fresh \cup kept[c]
      BY <1>1, <2>0, ProbeCacheAssumption DEF Unseen, Known
    <3>3. fresh \in SUBSET URLs BY <2>0, UnseenType
    <3>4. Cardinality(fresh) + Cardinality(behind[c]) <= Cardinality(Callers) - 1
      BY <1>1, <2>4 DEF Counted
    <3>5. Cardinality(kept[c]) <= Cap - 1 BY DEF Counted
    <3> HIDE DEF fresh
    <3>6. Cardinality(Cached) <= Cardinality(fresh) + Cardinality(kept[c])
      <4>1. /\ IsFiniteSet(fresh \cup kept[c])
            /\ Cardinality(fresh \cup kept[c]) <= Cardinality(fresh) + Cardinality(kept[c])
        BY <2>0, <3>3, Small, UnionSize
      <4>2. Cardinality(Cached) <= Cardinality(fresh \cup kept[c]) BY <3>2, <4>1, Sizes
      <4>3. /\ Cardinality(Cached) \in Nat /\ Cardinality(fresh) \in Nat /\ Cardinality(kept[c]) \in Nat
            /\ Cardinality(fresh \cup kept[c]) \in Nat
        BY <2>0, <3>3, <4>1, Small, Sizes
      <4>4. QED BY <4>1, <4>2, <4>3
    <3>7. /\ Cardinality(Cached') \in Nat /\ Cardinality(S2) \in Nat /\ Cardinality(Cached) \in Nat
          /\ Cardinality(fresh) \in Nat /\ Cardinality(kept[c]) \in Nat /\ Cardinality(behind[c]) \in Nat
      BY <2>0, <3>3, Small
    <3> HIDE DEF S2, old2
    <3>8. QED BY <2>1, <2>2, <3>1, <3>4, <3>5, <3>6, <3>7, Small, ProbeCacheAssumption
  <2>5. QED BY <2>3, <2>4
<1>8. ASSUME NEW d \in InFlight(req') \ old2
      PROVE  Cardinality(Unseen(req'[d], Cached', kept2[d])) + Cardinality(behind2[d]) <= Cardinality(Callers) - 1
  <2> DEFINE before == Unseen(req[d], Cached, kept[d])
             after == Unseen(req'[d], Cached', kept2[d])
  <2>1. after \subseteq before \cup {u}
    BY <1>1, <1>2, <1>4, <1>5 DEF Unseen, Known
  <2>2. before \in SUBSET URLs /\ behind[d] \in SUBSET Callers
    BY <1>5, UnseenType DEF Ranks, Cached
  <2>3. Cardinality(before) + Cardinality(behind[d]) <= Cardinality(Callers) - 1
    BY <1>5 DEF Counted
  <2>4. Cardinality(behind2[d]) = Cardinality(behind[d]) - 1
    BY <1>4, <1>5, <2>2, Small, FS_RemoveElement
  <2> HIDE DEF before, after, behind2
  <2>5. IsFiniteSet(before \cup {u}) /\ Cardinality(before \cup {u}) <= Cardinality(before) + 1
    BY <2>2, Small, UnionSize, FS_Singleton
  <2>6. Cardinality(after) <= Cardinality(before \cup {u})
    BY <2>1, <2>5, Sizes
  <2>7. /\ Cardinality(after) \in Nat /\ Cardinality(before) \in Nat /\ Cardinality(behind[d]) \in Nat
        /\ Cardinality(before \cup {u}) \in Nat
    BY <2>1, <2>2, <2>5, Small, Sizes
  <2>8. Cardinality(after) + Cardinality(behind2[d]) <= Cardinality(Callers) - 1
    BY <2>3, <2>4, <2>5, <2>6, <2>7, Small
  <2>9. QED BY <2>8 DEF after
<1>9. \A d \in Callers : Cardinality(kept2[d]) <= Cap - 1 /\ (req'[d].pc # "store" => kept2[d] = {})
  <2>1. Cardinality(kept2[c]) <= Cap - 1 BY <1>4, FS_EmptySet, ProbeCacheAssumption
  <2>2. QED BY <1>2, <1>4, <2>1 DEF Counted
<1> HIDE DEF old2, behind2, kept2
<1>10. Counted(req', Cached', old2, behind2, kept2) BY <1>7, <1>8, <1>9 DEF Counted
<1>11. QED BY <1>4, <1>6, <1>10 DEF Overshoot

\* A visit moves a cached key to the expired or the live ones; it loses none.
LEMMA VisitSees ==
  ASSUME Typed, NEW c \in Callers, NEW u \in URLs, Visit(c, u), NEW kept
  PROVE  Unseen(req'[c], Cached, kept) \subseteq Unseen(req[c], Cached, kept)
<1>1. /\ req[c].expired = Nothing /\ req'[c].todo = req[c].todo \ {u}
      /\ req'[c].expired = IF u \in Cached /\ req[c].entry.at - cache[u].at > Ttl THEN u ELSE Nothing
      /\ req'[c].live = IF u \in Cached /\ req[c].entry.at - cache[u].at <= Ttl
                        THEN req[c].live \cup {<<u, cache[u].at>>} ELSE req[c].live
  BY DEF Visit, Typed, Request
<1>2. u \in Cached => u \in Known(req'[c])
  <2>1. SUFFICES ASSUME u \in Cached PROVE u \in Known(req'[c])
    OBVIOUS
  <2>2. req[c].entry \in Entry /\ cache[u] \in Entry
    BY <2>1 DEF Visit, Typed, Shape, Cached
  <2>3. req[c].entry.at - cache[u].at \in Int BY <2>2 DEF Entry
  <2>4. CASE req[c].entry.at - cache[u].at > Ttl BY <1>1, <2>1, <2>4 DEF Known
  <2>5. CASE req[c].entry.at - cache[u].at <= Ttl
    <3>1. <<u, cache[u].at>> \in req'[c].live BY <1>1, <2>1, <2>5
    <3>2. <<u, cache[u].at>>[1] = u OBVIOUS
    <3>3. QED BY <3>1, <3>2 DEF Known
  <2>6. QED BY <2>3, <2>4, <2>5, ProbeCacheAssumption
<1>3. \A l \in req[c].live : l \in req'[c].live BY <1>1
<1>4. \A v \in Cached : v \in Known(req[c]) => v \in Known(req'[c])
  <2> SUFFICES ASSUME NEW v \in Cached, v \in Known(req[c]), v # u PROVE v \in Known(req'[c])
    BY <1>2
  <2>1. v # Nothing BY ProbeCacheAssumption DEF Cached
  <2>2. CASE v \in req[c].todo BY <1>1, <2>2 DEF Known
  <2>3. CASE v \in {l[1] : l \in req[c].live} BY <1>3, <2>3 DEF Known
  <2>4. QED BY <1>1, <2>1, <2>2, <2>3 DEF Known
<1>5. QED BY <1>4 DEF Unseen

\* Trimming keeps fewer keys than the cap, and knows them.
LEMMA TrimKeeps ==
  ASSUME Typed, NEW c \in Callers, req[c].pc = "range", NEW V \in Victims(req[c].live)
  PROVE  LET kept == {l[1] : l \in req[c].live \ V} IN
         kept \in SUBSET URLs /\ Cardinality(kept) <= Cap - 1
<1> DEFINE live == req[c].live
           rest == live \ V
           kept == {l[1] : l \in rest}
<1>1. live \in SUBSET (URLs \X (0..MaxTime)) /\ V \in SUBSET live BY DEF Typed, Request, Victims
<1>2. IsFiniteSet(URLs \X (0..MaxTime))
  <2>1. IsFiniteSet(0..MaxTime) BY ProbeCacheAssumption, FS_Interval
  <2>2. QED BY <2>1, ProbeCacheAssumption, FS_Product
<1>3. /\ IsFiniteSet(live) /\ IsFiniteSet(rest) /\ Cardinality(live) \in Nat
      /\ Cardinality(V) \in Nat /\ Cardinality(rest) \in Nat
  <2>1. IsFiniteSet(live) BY <1>1, <1>2, Sizes
  <2>2. rest \in SUBSET live OBVIOUS
  <2>3. QED BY <1>1, <2>1, <2>2, Sizes
<1>4. Cardinality(rest) = Cardinality(live) - Cardinality(V)
  <2>1. live \cap V = V BY <1>1
  <2>2. QED BY ZenonT(40), <1>3, <2>1, FS_Difference
<1>5. Cardinality(V) = IF Cardinality(live) + 1 - Cap > 0 THEN Cardinality(live) + 1 - Cap ELSE 0
  BY DEF Victims, Excess
<1>6. kept \in SUBSET URLs BY <1>1
<1>7. Cardinality(kept) <= Cardinality(rest)
  <2> DEFINE f == [l \in rest |-> l[1]]
  <2>1. f \in Surjection(rest, kept) BY DEF Surjection
  <2>2. QED BY <1>3, <2>1, FS_Surjection
<1>8. Cardinality(kept) \in Nat BY <1>6, Small
<1> HIDE DEF live, rest, kept
<1>9. Cardinality(kept) <= Cap - 1 BY <1>3, <1>4, <1>5, <1>7, <1>8, ProbeCacheAssumption
<1>10. QED BY <1>6, <1>9 DEF kept, rest, live

\* The other steps of a call take nothing out of its sight that is still cached.
LEMMA QuietCall ==
  ASSUME Typed, NEW c \in Callers,
         \/ \E u \in URLs : Miss(c, u) \/ Visit(c, u) \/ Evict(c, u)
         \/ Drop(c) \/ Trim(c),
         NEW old \in SUBSET Callers, NEW behind \in Ranks, NEW kept \in Keeps,
         Ranked(req, old, behind), Counted(req, Cached, old, behind, kept)
  PROVE  Overshoot'
<1>0. /\ Cached \in SUBSET URLs /\ Ranked(req, old, behind) /\ Counted(req, Cached, old, behind, kept)
      /\ \A d \in Callers : Cardinality(kept[d]) <= Cap - 1 /\ (req[d].pc # "store" => kept[d] = {})
  BY DEF Cached, Counted
<1> DEFINE Goal(kept2) ==
      /\ kept2 \in Keeps /\ Cached' \in SUBSET Cached /\ InFlight(req') = InFlight(req)
      /\ \A d \in InFlight(req) : Unseen(req'[d], Cached', kept2[d]) \subseteq Unseen(req[d], Cached, kept[d])
      /\ \A d \in Callers : Cardinality(kept2[d]) <= Cap - 1 /\ (req'[d].pc # "store" => kept2[d] = {})
<1>1. ASSUME NEW kept2, Goal(kept2) PROVE Overshoot'
  <2>1. Ranked(req', old, behind) /\ Counted(req', Cached', old, behind, kept2)
    BY <1>0, <1>1, QuietStep
  <2>2. QED BY <1>1, <2>1 DEF Overshoot
<1>2. ASSUME NEW u \in URLs, Miss(c, u) PROVE Goal(kept)
  <2>1. Cached' = Cached BY <1>2 DEF Miss, Cached
  <2>2. \A d \in InFlight(req) : req'[d].todo = req[d].todo /\ req'[d].expired = req[d].expired
                                 /\ req'[d].live = req[d].live
    BY <1>2 DEF Miss, InFlight, Typed, Request
  <2>3. InFlight(req') = InFlight(req) BY <1>2, IdleTyped DEF Miss, InFlight, Typed, Request
  <2>4. \A d \in Callers : req[d].pc = "store" => req'[d].pc = "store"
    BY <1>2, IdleTyped DEF Miss, Typed, Request
  <2>5. \A d \in Callers : req'[d].pc = "store" => req[d].pc = "store"
    BY <1>2, IdleTyped DEF Miss, Typed, Request
  <2>6. QED BY <1>0, <2>1, <2>2, <2>3, <2>4, <2>5 DEF Unseen, Known
<1>3. ASSUME NEW u \in URLs, Visit(c, u) PROVE Goal(kept)
  <2>1. Cached' = Cached /\ \A d \in Callers \ {c} : req'[d] = req[d]
    BY <1>3 DEF Visit, Cached, Typed
  <2>2. req'[c].pc = req[c].pc BY <1>3 DEF Visit, Typed, Request
  <2>3. QED BY <1>0, <1>3, <2>1, <2>2, VisitSees DEF InFlight
<1>4. ASSUME NEW u \in URLs, Evict(c, u) PROVE Goal(kept)
  <2>1. Cached' = Cached \ {u} /\ \A d \in Callers \ {c} : req'[d] = req[d]
    BY <1>4 DEF Evict, Cached, Typed
  <2>2. /\ req'[c].pc = req[c].pc /\ req'[c].todo = req[c].todo \ {u}
        /\ req'[c].expired = req[c].expired /\ req'[c].live = req[c].live
    BY <1>4 DEF Evict, Typed, Request
  <2>3. QED BY <1>0, <2>1, <2>2 DEF InFlight, Unseen, Known
<1>5. CASE Drop(c)
  <2>1. Cached' = Cached \ {req[c].expired} /\ \A d \in Callers \ {c} : req'[d] = req[d]
    BY <1>5 DEF Drop, Cached, Typed
  <2>2. req'[c].pc = req[c].pc /\ req'[c].todo = req[c].todo /\ req'[c].live = req[c].live
    BY <1>5 DEF Drop, Typed, Request
  <2>3. Goal(kept) BY <1>0, <2>1, <2>2 DEF InFlight, Unseen, Known
  <2>4. QED BY <1>1, <2>3
<1>6. CASE Trim(c)
  <2>1. PICK V \in Victims(req[c].live) :
          req' = [req EXCEPT ![c].pc = "store", ![c].live = {}, ![c].todo = {v[1] : v \in V}]
    BY <1>6 DEF Trim
  <2>2. req[c].pc = "range" /\ req[c].expired = Nothing /\ req[c].todo = {} /\ UNCHANGED cache
    BY <1>6 DEF Trim
  <2>3. PICK left : left = {l[1] : l \in req[c].live \ V} OBVIOUS
  <2>4. left \in SUBSET URLs /\ Cardinality(left) <= Cap - 1 BY <2>2, <2>3, TrimKeeps
  <2> DEFINE kept2 == [kept EXCEPT ![c] = left]
  <2>5. kept2 \in Keeps /\ kept2[c] = left /\ \A d \in Callers \ {c} : kept2[d] = kept[d]
    BY <2>4 DEF Keeps
  <2>6. Cached' = Cached /\ \A d \in Callers \ {c} : req'[d] = req[d]
    BY <2>1, <2>2 DEF Cached, Typed
  <2>7. req'[c].pc = "store" /\ req'[c].todo = {v[1] : v \in V}
    BY <2>1 DEF Typed, Request
  <2>8. \A l \in req[c].live : l[1] \in req'[c].todo \cup left BY <2>3, <2>7
  <2>9. Unseen(req'[c], Cached, left) \subseteq Unseen(req[c], Cached, kept[c])
    <3>1. kept[c] = {} BY <1>0, <2>2
    <3>2. \A v \in Cached : v # Nothing BY ProbeCacheAssumption DEF Cached
    <3>3. QED BY <2>2, <2>8, <3>1, <3>2 DEF Unseen, Known
  <2>10. InFlight(req') = InFlight(req) BY <2>2, <2>6, <2>7 DEF InFlight
  <2> HIDE DEF kept2
  <2>11. \A d \in InFlight(req) : Unseen(req'[d], Cached', kept2[d]) \subseteq Unseen(req[d], Cached, kept[d])
    BY <2>5, <2>6, <2>9 DEF InFlight
  <2>12. \A d \in Callers : Cardinality(kept2[d]) <= Cap - 1 /\ (req'[d].pc # "store" => kept2[d] = {})
    BY <1>0, <2>4, <2>5, <2>6, <2>7
  <2>13. Goal(kept2) BY <2>5, <2>6, <2>10, <2>11, <2>12
  <2>14. QED BY <1>1, <2>13
<1>7. QED BY <1>1, <1>2, <1>3, <1>4, <1>5, <1>6

\* With no call in flight and nothing cached every count holds.
LEMMA OvershootInit == Init => Overshoot
<1> SUFFICES ASSUME Init PROVE Overshoot
  OBVIOUS
<1> DEFINE none == [c \in Callers |-> {}]
<1>1. Cached = {} /\ InFlight(req) = {} /\ \A c \in Callers : req[c].pc = "idle"
  BY DEF Init, Cached, InFlight, Idle
<1>2. none \in Ranks /\ none \in Keeps BY DEF Ranks, Keeps
<1>3. Ranked(req, {}, none) BY <1>1 DEF Ranked
<1>4. Counted(req, Cached, {}, none, none)
  BY <1>1, FS_EmptySet, Small, ProbeCacheAssumption DEF Counted
<1>5. QED BY <1>2, <1>3, <1>4 DEF Overshoot

\* Whichever call takes the next step, witnesses of the counts can be found again.
LEMMA OvershootStep == Typed /\ Overshoot /\ [Next]_vars => Overshoot'
<1> SUFFICES ASSUME Typed, Overshoot, [Next]_vars PROVE Overshoot'
  OBVIOUS
<1>1. PICK old \in SUBSET Callers, behind \in Ranks, kept \in Keeps :
        Ranked(req, old, behind) /\ Counted(req, Cached, old, behind, kept)
  BY DEF Overshoot
<1>2. ASSUME NEW c \in Callers, Call(c) PROVE Overshoot'
  <2>1. CASE Probe(c)
    <3>1. Cached' = Cached BY <2>1 DEF Probe, Cached
    <3>2. [behind EXCEPT ![c] = InFlight(req)] \in Ranks BY DEF Ranks, InFlight
    <3>3. QED BY <1>1, <2>1, <3>1, <3>2, ProbeStep DEF Overshoot
  <2>2. CASE Store(c) BY <1>1, <2>2, StoreStep
  <2>3. QED BY <1>1, <1>2, <2>1, <2>2, QuietCall DEF Call
<1>3. ASSUME UNCHANGED <<cache, req>> PROVE Overshoot'
  <2>1. Cached' = Cached BY <1>3 DEF Cached
  <2>2. QED BY <1>1, <1>3, <2>1 DEF Overshoot
<1>4. QED BY <1>2, <1>3 DEF Next, GoDown, Tick, vars

\* The cache may outgrow its cap, but never by more than the other calls in flight
\* can add: for every cap and any number of goroutines, without a lock.
THEOREM OvershootAlwaysBounded == Spec => []OvershootBounded
<1>1. Overshoot => OvershootBounded
  <2> SUFFICES ASSUME NEW old \in SUBSET Callers, NEW behind \in Ranks, NEW kept \in Keeps,
                      Counted(req, Cached, old, behind, kept)
               PROVE  OvershootBounded
    BY DEF Overshoot
  <2>1. Cardinality(old) \in Nat /\ Cardinality(Cached) \in Nat BY Small DEF Cached
  <2>2. QED BY <2>1, Small, ProbeCacheAssumption DEF Counted, OvershootBounded
<1>2. QED BY <1>1, TypedInit, TypedStep, OvershootInit, OvershootStep, PTL DEF Spec

-----------------------------------------------------------------------------
(* A call that has the cache to itself. *)

\* While a call is alone it knows every key, and once it has trimmed it leaves
\* fewer than the cap.
Alone(c) ==
  /\ \A d \in Callers \ {c} : req[d].pc = "idle"
  /\ req[c].pc = "range" => Cached \subseteq Known(req[c])
  /\ req[c].pc = "store" => Cardinality(Cached \ req[c].todo) <= Cap - 1

Lone == \A c \in Callers : req[c].alone => Alone(c)

\* What a look-up and a store leave of the other calls.
LEMMA MissSparesOthers ==
  ASSUME Typed, NEW c \in Callers, NEW u \in URLs, Miss(c, u)
  PROVE  \A d \in Callers \ {c} : req'[d].pc = req[d].pc
BY DEF Miss, Typed, Request

\* A store changes nothing of another call but the keys it has yet to visit.
LEMMA StoreSparesOthers ==
  ASSUME Typed, NEW c \in Callers, Store(c), NEW d \in Callers \ {c}
  PROVE  \E todo : req'[d] = [req[d] EXCEPT !.todo = todo]
<1>1. req[d] = [req[d] EXCEPT !.todo = @] BY DEF Typed, Request
<1>2. req'[d] = req[d] \/ req'[d] = [req[d] EXCEPT !.todo = @ \cup {req[c].url}] BY DEF Store
<1>3. QED BY <1>1, <1>2

\* A call that is alone is the only one that can take a step without ending that.
LEMMA LoneActor ==
  ASSUME Typed, Lone, NEW d \in Callers, Call(d), NEW c \in Callers, req'[c].alone
  PROVE  c = d
<1> SUFFICES ASSUME c # d PROVE FALSE
  OBVIOUS
<1>1. ASSUME NEW u \in URLs, Miss(d, u) PROVE FALSE
  BY <1>1 DEF Miss, Typed, Request
<1>2. ~ \E u \in URLs : Miss(d, u) BY <1>1
<1>3. \E f : req'[c] = [req[c] EXCEPT !.todo = f]
  <2>1. CASE Store(d) BY <2>1, StoreSparesOthers
  <2>2. CASE ~Store(d)
    <3>1. req'[c] = req[c] BY <1>2, <2>2 DEF Call, Visit, Evict, Probe, Drop, Trim, Typed
    <3>2. req[c] = [req[c] EXCEPT !.todo = @] BY DEF Typed, Request
    <3>3. QED BY <3>1, <3>2
  <2>3. QED BY <2>1, <2>2
<1>4. req[d].pc # "idle" BY <1>2 DEF Call, Visit, Evict, Probe, Drop, Trim, Store
<1>5. req[c].alone BY <1>3 DEF Typed, Request
<1>6. QED BY <1>4, <1>5 DEF Lone, Alone

\* A call that nobody has disturbed keeps knowing all that is cached.
LEMMA LoneStep == Typed /\ Lone /\ [Next]_vars => Lone'
<1> SUFFICES ASSUME Typed, Lone, [Next]_vars PROVE Lone'
  OBVIOUS
<1>1. ASSUME UNCHANGED <<cache, req>> PROVE Lone'
  BY <1>1 DEF Lone, Alone, Cached, Known
<1>2. ASSUME NEW c \in Callers, Call(c) PROVE Lone'
  <2> SUFFICES ASSUME req'[c].alone PROVE Alone(c)'
    BY <1>2, LoneActor DEF Lone
  <2>1. ASSUME NEW u \in URLs, Miss(c, u) PROVE Alone(c)'
    <3>1. req'[c].pc = "probe" BY <2>1, IdleTyped DEF Miss, Typed, Request
    <3>2. \A d \in Callers \ {c} : req'[d].pc = req[d].pc BY <2>1, MissSparesOthers
    <3> DEFINE all == \A e \in Callers : req[e].pc = "idle"
    <3>3. req'[c] = [Idle EXCEPT !.pc = "probe", !.url = u, !.alone = all] BY <2>1 DEF Miss
    <3> HIDE DEF all
    <3>4. req'[c].alone = all BY <3>3 DEF Idle
    <3>5. all BY <3>4
    <3>6. QED BY <3>1, <3>2, <3>5 DEF Alone, all
  <2>2. ASSUME req[c].alone /\ \A d \in Callers \ {c} : req'[d] = req[d]
        PROVE  \A d \in Callers \ {c} : req'[d].pc = "idle"
    BY <2>2 DEF Lone, Alone
  <2>3. CASE Probe(c)
    <3>1. req[c].alone /\ req'[c].pc = "range" /\ req'[c].todo = Cached BY <2>3 DEF Probe, Typed, Request
    <3>2. Cached' = Cached /\ \A d \in Callers \ {c} : req'[d] = req[d] BY <2>3 DEF Probe, Cached, Typed
    <3>3. QED BY <2>2, <3>1, <3>2 DEF Alone, Known
  <2>4. ASSUME NEW u \in URLs, Visit(c, u) PROVE Alone(c)'
    <3>1. req[c].alone /\ req[c].pc = "range" /\ req'[c].pc = "range" BY <2>4 DEF Visit, Typed, Request
    <3>2. Cached' = Cached /\ \A d \in Callers \ {c} : req'[d] = req[d] BY <2>4 DEF Visit, Cached, Typed
    <3>3. Cached \subseteq Known(req[c]) BY <3>1 DEF Lone, Alone
    <3>4. Unseen(req'[c], Cached, {}) \subseteq Unseen(req[c], Cached, {}) BY <2>4, VisitSees
    <3>5. Cached \subseteq Known(req'[c]) BY <3>3, <3>4 DEF Unseen
    <3>6. QED BY <2>2, <3>1, <3>2, <3>5 DEF Alone, Known
  <2>5. ASSUME NEW u \in URLs, Evict(c, u) PROVE Alone(c)'
    <3>1. /\ req[c].alone /\ req[c].pc = "store" /\ req'[c].pc = "store"
          /\ req'[c].todo = req[c].todo \ {u}
      BY <2>5 DEF Evict, Typed, Request
    <3>2. Cached' = Cached \ {u} /\ \A d \in Callers \ {c} : req'[d] = req[d]
      BY <2>5 DEF Evict, Cached, Typed
    <3>3. Cached' \ req'[c].todo = Cached \ req[c].todo BY <2>5, <3>1, <3>2 DEF Evict
    <3>4. QED BY <2>2, <3>1, <3>2, <3>3 DEF Lone, Alone
  <2>6. CASE Drop(c)
    <3>1. /\ req[c].alone /\ req[c].pc = "range" /\ req'[c].pc = "range"
          /\ req'[c].todo = req[c].todo /\ req'[c].live = req[c].live
      BY <2>6 DEF Drop, Typed, Request
    <3>2. Cached' = Cached \ {req[c].expired} /\ \A d \in Callers \ {c} : req'[d] = req[d]
      BY <2>6 DEF Drop, Cached, Typed
    <3>3. Cached' \subseteq Known(req'[c]) BY <3>1, <3>2 DEF Lone, Alone, Known
    <3>4. QED BY <2>2, <3>1, <3>2, <3>3 DEF Alone, Known
  <2>7. CASE Trim(c)
    <3>1. PICK V \in Victims(req[c].live) :
            req' = [req EXCEPT ![c].pc = "store", ![c].live = {}, ![c].todo = {v[1] : v \in V}]
      BY <2>7 DEF Trim
    <3>2. /\ req[c].alone /\ req[c].pc = "range" /\ req[c].expired = Nothing /\ req[c].todo = {}
          /\ req'[c].pc = "store" /\ req'[c].todo = {v[1] : v \in V}
      <4>1. PICK dropped : dropped = {v[1] : v \in V} OBVIOUS
      <4>2. /\ req'[c].pc = "store" /\ req'[c].todo = dropped /\ req'[c].alone = req[c].alone
        BY ZenonT(40), <3>1, <4>1 DEF Typed, Request
      <4>3. QED BY <2>7, <4>1, <4>2 DEF Trim
    <3>3. Cached' = Cached /\ \A d \in Callers \ {c} : req'[d] = req[d]
      BY <2>7, <3>1 DEF Trim, Cached, Typed
    <3> DEFINE left == {l[1] : l \in req[c].live \ V}
    <3>4. left \in SUBSET URLs /\ Cardinality(left) <= Cap - 1 BY <3>2, TrimKeeps
    <3>5. Cached \subseteq {Nothing} \cup {l[1] : l \in req[c].live} BY <3>2 DEF Lone, Alone, Known
    <3>6. Cached \ req'[c].todo \subseteq left
      <4>1. \A v \in Cached : v # Nothing BY ProbeCacheAssumption DEF Cached
      <4>2. QED BY <3>2, <3>5, <4>1
    <3> HIDE DEF left
    <3>7. /\ Cardinality(Cached \ req'[c].todo) <= Cardinality(left)
          /\ Cardinality(Cached \ req'[c].todo) \in Nat /\ Cardinality(left) \in Nat
      BY <3>4, <3>6, Small, Sizes
    <3>8. Cardinality(Cached \ req'[c].todo) <= Cap - 1 BY <3>4, <3>7, ProbeCacheAssumption
    <3>9. QED BY <2>2, <3>2, <3>3, <3>8 DEF Alone
  <2>8. CASE Store(c)
    BY <2>8 DEF Store, Idle, Typed
  <2>9. QED BY <1>2, <2>1, <2>3, <2>4, <2>5, <2>6, <2>7, <2>8 DEF Call
<1>3. QED BY <1>1, <1>2 DEF Next, GoDown, Tick, vars

\* The overshoot does not last: a call that had the cache to itself from its look-up
\* on leaves it within the cap, however far it was over.
THEOREM LoneCallAlwaysRestores == Spec => LoneCallRestoresCap
<1> DEFINE Restores ==
      \A c \in Callers :
        req[c].pc = "store" /\ req[c].alone /\ req'[c].pc = "idle" => Cardinality(Cached') <= Cap
<1>1. Init => Lone BY DEF Init, Lone, Idle
<1>2. Typed /\ Lone /\ [Next]_vars => [Restores]_vars
  <2> SUFFICES ASSUME Typed, Lone, Next, NEW c \in Callers,
                      req[c].pc = "store", req[c].alone, req'[c].pc = "idle"
               PROVE  Cardinality(Cached') <= Cap
    OBVIOUS
  <2>1. PICK d \in Callers : Call(d) BY DEF Next, GoDown, Tick
  <2>2. c = d
    <3> SUFFICES ASSUME c # d PROVE FALSE
      OBVIOUS
    <3>1. req[d].pc = "idle" BY DEF Lone, Alone
    <3>2. ~(Probe(d) \/ Drop(d) \/ Trim(d)) /\ ~Store(d) /\ ~(\E u \in URLs : Visit(d, u) \/ Evict(d, u))
      BY <3>1 DEF Visit, Evict, Probe, Drop, Trim, Store
    <3>3. PICK u \in URLs : Miss(d, u) BY <2>1, <3>2 DEF Call
    <3>4. req'[c].pc = req[c].pc BY <3>3 DEF Miss, Typed, Request
    <3>5. QED BY <3>4
  <2>3. Store(c)
    <3>1. ~(Probe(c) \/ Drop(c) \/ Trim(c)) BY DEF Probe, Drop, Trim
    <3>2. ~(\E u \in URLs : Miss(c, u) \/ Visit(c, u)) BY DEF Miss, Visit
    <3>3. ~(\E u \in URLs : Evict(c, u)) BY DEF Evict, Typed, Request
    <3>4. QED BY <2>1, <2>2, <3>1, <3>2, <3>3 DEF Call
  <2>4. Cached' \subseteq Cached \cup {req[c].url} /\ req[c].url \in URLs /\ req[c].todo = {}
    BY <2>3 DEF Store, Cached, Typed, Shape, Request
  <2>5. Cardinality(Cached) <= Cap - 1
    <3>1. Cached \ req[c].todo = Cached BY <2>4
    <3>2. QED BY <3>1 DEF Lone, Alone
  <2>6. Cached \in SUBSET URLs BY DEF Cached
  <2>7. /\ IsFiniteSet(Cached \cup {req[c].url})
        /\ Cardinality(Cached \cup {req[c].url}) <= Cardinality(Cached) + 1
    BY <2>6, Small, UnionSize, FS_Singleton
  <2>8. /\ Cardinality(Cached') <= Cardinality(Cached \cup {req[c].url}) /\ Cardinality(Cached') \in Nat
        /\ Cardinality(Cached \cup {req[c].url}) \in Nat /\ Cardinality(Cached) \in Nat
    BY <2>4, <2>6, <2>7, Small, Sizes
  <2>9. QED BY <2>5, <2>7, <2>8, ProbeCacheAssumption
<1>3. QED BY <1>1, <1>2, TypedInit, TypedStep, LoneStep, PTL DEF Spec, LoneCallRestoresCap

=============================================================================
