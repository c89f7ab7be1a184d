-------------------------- MODULE YamlJanitor_proofs --------------------------
(* What is proved of YamlJanitor, for any posts, other keys and page size. *)
EXTENDS YamlJanitor, TLAPS

(* The post a sweep has deleted, and whose record it is about to delete. *)
Doomed == First(sweep.rest)

(* Posts the janitor knows of, in its records or in the page it works through. *)
Seen == {p \in Posts : p \in records \cup sweep.rest}

(* What is known of times: a post is recorded after it is sent, and a sweep   *)
(* measures ages with a clock that only falls behind.                         *)
TimesOK ==
  /\ now >= 1 /\ sweep.at <= now
  /\ \A p \in posts \cup pending \cup Seen : born[p] >= 1
  /\ \A p \in Posts : born[p] <= now
  /\ \A p \in Seen : born[p] <= created[p]

(* Between the deletion of a post and that of its record, the post is gone.   *)
DoomedGone ==
  sweep.pc = "forget" => Doomed \in sweep.rest /\ Doomed \in Posts /\ Doomed \notin posts

Inv == TypeOK /\ TimesOK /\ DoomedGone /\ NoPostForgotten

-------------------------------------------------------------------------------
(* The sweep's own record. *)

\* A sweep that goes on to the next key keeps its shape, its time and its ttl,
\* and has one key less before it.
LEMMA ContinueTyped ==
  ASSUME sweep \in Sweep, NEW failed \in BOOLEAN, Continue(failed)
  PROVE  /\ sweep' \in Sweep /\ sweep'.pc = "visit" /\ sweep'.rest \subseteq sweep.rest
         /\ sweep'.at = sweep.at /\ sweep'.ttl = sweep.ttl
<1> DEFINE b == sweep.failed \/ failed
<1>1. b \in BOOLEAN
  OBVIOUS
<1>2. sweep' = [sweep EXCEPT !.pc = "visit", !.rest = @ \ {First(@)}, !.failed = b]
  BY DEF Continue
<1> HIDE DEF b
<1>3. sweep.rest \ {First(sweep.rest)} \subseteq sweep.rest
  OBVIOUS
<1>4. sweep' = [sweep EXCEPT !.pc = "visit", !.rest = sweep.rest \ {First(sweep.rest)}, !.failed = b]
  BY <1>2
<1> HIDE DEF First
<1> QED BY <1>1, <1>3, <1>4 DEF Sweep

\* A sweep that only changes where it is keeps the rest.
LEMMA MoveTyped ==
  ASSUME sweep \in Sweep, NEW pc \in {"off", "list", "visit", "forget"},
         sweep' = [sweep EXCEPT !.pc = pc]
  PROVE  /\ sweep' \in Sweep /\ sweep'.pc = pc /\ sweep'.rest = sweep.rest
         /\ sweep'.at = sweep.at /\ sweep'.ttl = sweep.ttl
BY DEF Sweep

\* A sweep that ends by a failure, too.
LEMMA EndTyped ==
  ASSUME sweep \in Sweep, sweep' = [sweep EXCEPT !.pc = "off", !.failed = TRUE]
  PROVE  /\ sweep' \in Sweep /\ sweep'.pc = "off" /\ sweep'.rest = sweep.rest
         /\ sweep'.at = sweep.at /\ sweep'.ttl = sweep.ttl
BY DEF Sweep

\* A page is made of keys there are.
LEMMA PageOfKeys == ASSUME NEW n PROVE Page(n) \subseteq records \cup Others
BY DEF Page, Keys

\* Whatever a step of the sweep does, it keeps its shape and its clock reading is
\* no later than now; what it turns to next are keys of the store, and the post it
\* is about to forget is one it has just deleted, or has a record that does not
\* parse (sweepExpiredYAML).
LEMMA SweepSteps ==
  ASSUME TypeOK, TimesOK, Janitor \/ Crash
  PROVE  /\ sweep' \in Sweep /\ sweep'.at <= now
         /\ sweep'.rest \subseteq sweep.rest \cup records \cup Others
         /\ sweep'.pc = "forget" =>
              /\ sweep.pc = "visit" /\ Expired(Doomed) /\ posts' = posts \ {Doomed}
              /\ sweep'.rest = sweep.rest /\ Doomed \in sweep.rest
         /\ sweep'.pc # "forget" => posts' = posts
         /\ records' # records => /\ records' = records \ {Doomed}
                                  /\ sweep.pc = "forget" \/ Doomed \in excused'
         /\ excused' = excused \/ (excused' = excused \cup {Doomed} /\ Doomed \in Posts)
         /\ UNCHANGED <<now, ttl, born, pending, created>>
<1> USE DEF TypeOK
<1>t. /\ now \in Nat /\ now <= MaxTime /\ ttl \in 0..MaxTtl /\ now \in 0..MaxTime
      /\ sweep.at <= now /\ sweep.rest \subseteq Posts \cup Others
  BY BoundsAssumption DEF TimesOK, Sweep
<1>1. CASE SweepStart
  <2>1. sweep' = [pc |-> "list", page |-> 0, rest |-> {}, full |-> FALSE, ttl |-> ttl,
                  at |-> now, failed |-> FALSE]
    BY <1>1 DEF SweepStart, Off
  <2>2. sweep' \in Sweep /\ sweep'.at = now /\ sweep'.rest = {} /\ sweep'.pc = "list"
    BY <2>1, <1>t DEF Sweep
  <2> QED BY <1>1, <2>2, <1>t DEF SweepStart
<1>2. CASE List
  <2> DEFINE keys == Page(sweep.page)
             full == (Cardinality(keys) = PerPage)
  <2>1. keys \subseteq records \cup Others
    BY PageOfKeys
  <2>2. full \in BOOLEAN
    OBVIOUS
  <2>3. sweep' = IF keys = {} THEN [sweep EXCEPT !.pc = "off"]
                 ELSE [sweep EXCEPT !.pc = "visit", !.rest = keys, !.full = full]
    BY <1>2 DEF List
  <2>4. UNCHANGED <<now, ttl, posts, born, pending, records, created, excused>>
    BY <1>2 DEF List
  <2> HIDE DEF keys, full
  <2>5. CASE keys = {}
    BY <2>3, <2>4, <2>5, <1>t, MoveTyped
  <2>6. CASE sweep' = [sweep EXCEPT !.pc = "visit", !.rest = keys, !.full = full]
    <3>1. sweep' \in Sweep /\ sweep'.at = sweep.at /\ sweep'.rest = keys /\ sweep'.pc = "visit"
      BY <2>1, <2>2, <2>6 DEF Sweep
    <3> QED BY <3>1, <2>1, <2>4, <1>t
  <2> QED BY <2>3, <2>5, <2>6
<1>3. CASE ListFails
  BY <1>3, <1>t, EndTyped DEF ListFails
<1>4. CASE NextPage
  <2>1. UNCHANGED <<now, ttl, posts, born, pending, records, created, excused>>
    BY <1>4 DEF NextPage
  <2>2. CASE sweep' = [sweep EXCEPT !.pc = "off"]
    BY <2>1, <2>2, <1>t, MoveTyped
  <2>3. CASE sweep' = [sweep EXCEPT !.pc = "list", !.page = @ + 1]
    <3>1. sweep.page + 1 \in Nat
      BY DEF Sweep
    <3>2. sweep' \in Sweep /\ sweep'.at = sweep.at /\ sweep'.rest = sweep.rest /\ sweep'.pc = "list"
      BY <2>3, <3>1 DEF Sweep
    <3> QED BY <2>1, <3>2, <1>t
  <2> QED BY <1>4, <2>2, <2>3 DEF NextPage
<1>5. ASSUME NEW key \in sweep.rest, Skip(key) \/ CallFails(key)
      PROVE  /\ UNCHANGED <<now, ttl, posts, born, pending, records, created, excused>>
             /\ Continue(FALSE) \/ Continue(TRUE)
  BY <1>5 DEF Skip, CallFails
<1>6. CASE \E key \in sweep.rest : Skip(key) \/ CallFails(key)
  BY <1>5, <1>6, <1>t, ContinueTyped
<1>7. ASSUME NEW key \in sweep.rest, DeletePost(key)
      PROVE  /\ sweep' = [sweep EXCEPT !.pc = "forget"] /\ sweep.pc = "visit"
             /\ Expired(Doomed) /\ posts' = posts \ {Doomed} /\ Doomed \in sweep.rest
             /\ UNCHANGED <<now, ttl, born, pending, records, created, excused>>
  BY <1>7 DEF DeletePost, Visiting, Doomed
<1>8. CASE \E key \in sweep.rest : DeletePost(key)
  BY <1>7, <1>8, <1>t, MoveTyped
<1>9. ASSUME NEW key \in sweep.rest, Discard(key)
      PROVE  /\ records' = records \ {Doomed} /\ excused' = excused \cup {Doomed}
             /\ Doomed \in Posts /\ Continue(FALSE)
             /\ UNCHANGED <<now, ttl, posts, born, pending, created>>
  BY <1>9 DEF Discard, Visiting, Doomed
<1>10. CASE \E key \in sweep.rest : Discard(key)
  BY <1>9, <1>10, <1>t, ContinueTyped
<1>11. CASE Forget
  BY <1>11, <1>t, ContinueTyped DEF Forget, Doomed
<1>12. CASE ForgetFails
  BY <1>12, <1>t, ContinueTyped DEF ForgetFails
<1>13. CASE Crash
  BY <1>13, <1>t, EndTyped DEF Crash
<1> QED BY <1>1, <1>2, <1>3, <1>4, <1>6, <1>8, <1>10, <1>11, <1>12, <1>13 DEF Janitor

-------------------------------------------------------------------------------
(* The invariant. *)

\* Before the first bundle is sent there is nothing to lose.
LEMMA Start == Init => Inv
<1> SUFFICES ASSUME Init PROVE Inv
  OBVIOUS
<1>1. sweep \in Sweep /\ sweep.rest = {} /\ sweep.at = 0 /\ sweep.pc = "off"
  BY BoundsAssumption DEF Init, Off, Sweep
<1>2. TypeOK
  BY <1>1, BoundsAssumption DEF Init, TypeOK
<1>3. TimesOK /\ DoomedGone /\ NoPostForgotten
  BY <1>1 DEF Init, TimesOK, DoomedGone, NoPostForgotten, Seen
<1> QED BY <1>2, <1>3 DEF Inv

\* A step of the sweep keeps the invariant: the record of a post goes only after
\* the post, or because it does not parse.
LEMMA SweepKeeps == Inv /\ (Janitor \/ Crash) => Inv'
<1> SUFFICES ASSUME Inv, Janitor \/ Crash PROVE Inv'
  OBVIOUS
<1> USE DEF Inv
<1> DEFINE p == Doomed
<1>1. /\ sweep' \in Sweep /\ sweep'.at <= now
      /\ sweep'.rest \subseteq sweep.rest \cup records \cup Others
      /\ sweep'.pc = "forget" =>
           /\ sweep.pc = "visit" /\ Expired(p) /\ posts' = posts \ {p}
           /\ sweep'.rest = sweep.rest /\ p \in sweep.rest
      /\ sweep'.pc # "forget" => posts' = posts
      /\ records' # records => /\ records' = records \ {p}
                               /\ sweep.pc = "forget" \/ p \in excused'
      /\ excused' = excused \/ (excused' = excused \cup {p} /\ p \in Posts)
      /\ UNCHANGED <<now, ttl, born, pending, created>>
  BY SweepSteps
<1>2. posts' \subseteq posts /\ records' \subseteq records /\ excused \subseteq excused'
  BY <1>1
<1>3. TypeOK'
  BY <1>1, <1>2 DEF TypeOK
<1>4. Seen' \subseteq Seen
  BY <1>1, <1>2, KeysAssumption DEF Seen
<1>5. TimesOK'
  BY <1>1, <1>2, <1>4 DEF TimesOK
<1>6. DoomedGone'
  <2>1. sweep'.pc = "forget" => Doomed' = p
    BY <1>1 DEF Doomed
  <2> QED BY <1>1, <2>1 DEF DoomedGone, Expired
<1>7. NoPostForgotten'
  <2>1. CASE records' = records
    BY <1>1, <1>2, <2>1 DEF NoPostForgotten
  <2>2. CASE records' # records
    BY <1>1, <1>2, <2>2 DEF NoPostForgotten, DoomedGone
  <2> QED BY <2>1, <2>2
<1> QED BY <1>3, <1>5, <1>6, <1>7

\* So does every other step: a post is sent under a number of its own, and is
\* recorded no earlier than it is sent.
LEMMA StepKeeps == Inv /\ [Next]_vars => Inv'
<1> SUFFICES ASSUME Inv, [Next]_vars PROVE Inv'
  OBVIOUS
<1> USE DEF Inv
<1>t. now \in Nat /\ now >= 1 /\ now <= MaxTime /\ now \in 0..MaxTime
  BY BoundsAssumption DEF TypeOK, TimesOK
<1>1. CASE Janitor \/ Crash
  BY <1>1, SweepKeeps
<1>2. CASE Tick
  <2>1. now' = now + 1 /\ now' \in 0..MaxTime
    BY <1>2, <1>t, BoundsAssumption DEF Tick
  <2>2. UNCHANGED <<ttl, posts, born, pending, records, created, excused, sweep>>
    BY <1>2 DEF Tick
  <2>3. TypeOK'
    BY <2>1, <2>2 DEF TypeOK
  <2>4. sweep.at \in Nat
    BY BoundsAssumption DEF TypeOK, Sweep
  <2>5. \A p \in Posts : born[p] \in Nat
    BY BoundsAssumption DEF TypeOK
  <2>6. Seen' = Seen
    BY <2>2 DEF Seen
  <2>7. TimesOK'
    BY <1>t, <2>1, <2>2, <2>4, <2>5, <2>6 DEF TimesOK
  <2> QED BY <2>2, <2>3, <2>7 DEF DoomedGone, NoPostForgotten, Doomed
<1>3. ASSUME NEW p \in Posts, Deliver(p) PROVE Inv'
  <2>1. /\ p \notin posts \cup pending \cup records \cup excused /\ born[p] = 0
        /\ posts' = posts \cup {p} /\ pending' = pending \cup {p}
        /\ born' = [born EXCEPT ![p] = now]
        /\ UNCHANGED <<now, ttl, records, created, excused, sweep>>
    BY <1>3 DEF Deliver
  <2>2. TypeOK'
    BY <1>t, <2>1 DEF TypeOK
  <2>3. p \notin Seen /\ Seen' = Seen
    BY <2>1 DEF TimesOK, Seen
  <2>4. \A q \in Posts : born'[q] = IF q = p THEN now ELSE born[q]
    BY <2>1 DEF TypeOK
  <2>5. TimesOK'
    BY <1>t, <2>1, <2>3, <2>4 DEF TimesOK, Seen, TypeOK
  <2>6. DoomedGone'
    BY <2>1, <2>3 DEF DoomedGone, Doomed, Seen
  <2> QED BY <2>1, <2>2, <2>5, <2>6 DEF NoPostForgotten
<1>4. ASSUME NEW p \in Posts, Track(p) PROVE Inv'
  <2>1. p \in pending /\ pending' = pending \ {p} /\ UNCHANGED <<now, ttl, posts, born, sweep>>
    BY <1>4 DEF Track
  <2>2. CASE excused' = excused \cup {p} /\ UNCHANGED <<records, created>>
    <3>1. TypeOK'
      BY <2>1, <2>2 DEF TypeOK
    <3>2. Seen' = Seen
      BY <2>1, <2>2 DEF Seen
    <3> QED BY <2>1, <2>2, <3>1, <3>2 DEF TimesOK, DoomedGone, NoPostForgotten, Doomed
  <2>3. CASE records' = records \cup {p} /\ created' = [created EXCEPT ![p] = now] /\ UNCHANGED excused
    <3>1. TypeOK'
      BY <1>t, <2>1, <2>3 DEF TypeOK
    <3>2. Seen' = Seen \cup {p}
      BY <2>1, <2>3 DEF Seen
    <3>3. \A q \in Posts : created'[q] = IF q = p THEN now ELSE created[q]
      BY <2>3 DEF TypeOK
    <3>4. TimesOK'
      BY <2>1, <2>3, <3>2, <3>3 DEF TimesOK, TypeOK, Seen
    <3> QED BY <2>1, <2>3, <3>1, <3>4 DEF DoomedGone, NoPostForgotten, Doomed
  <2> QED BY <1>4, <2>2, <2>3 DEF Track
<1>5. ASSUME NEW p \in Posts, TrackFails(p) PROVE Inv'
  <2>1. /\ pending' = pending \ {p} /\ excused' = excused \cup {p}
        /\ UNCHANGED <<now, ttl, posts, born, records, created, sweep>>
    BY <1>5 DEF TrackFails
  <2>2. TypeOK'
    BY <2>1 DEF TypeOK
  <2>3. Seen' = Seen
    BY <2>1 DEF Seen
  <2> QED BY <2>1, <2>2, <2>3 DEF TimesOK, DoomedGone, NoPostForgotten, Doomed
<1>6. ASSUME NEW p \in Posts, DeletedByUser(p) PROVE Inv'
  <2>1. /\ posts' = posts \ {p}
        /\ UNCHANGED <<now, ttl, born, pending, records, created, excused, sweep>>
    BY <1>6 DEF DeletedByUser
  <2>2. TypeOK'
    BY <2>1 DEF TypeOK
  <2>3. Seen' = Seen
    BY <2>1 DEF Seen
  <2> QED BY <2>1, <2>2, <2>3 DEF TimesOK, DoomedGone, NoPostForgotten, Doomed
<1>7. ASSUME NEW hours \in 0..MaxTtl, SetTtl(hours) PROVE Inv'
  <2>1. ttl' = hours /\ UNCHANGED <<now, posts, born, pending, records, created, excused, sweep>>
    BY <1>7 DEF SetTtl
  <2>2. TypeOK'
    BY <2>1 DEF TypeOK
  <2>3. Seen' = Seen
    BY <2>1 DEF Seen
  <2> QED BY <2>1, <2>2, <2>3 DEF TimesOK, DoomedGone, NoPostForgotten, Doomed
<1>8. CASE UNCHANGED vars
  <2>1. UNCHANGED <<now, ttl, posts, born, pending, records, created, excused, sweep>>
    BY <1>8 DEF vars
  <2> QED BY <2>1 DEF TypeOK, TimesOK, DoomedGone, NoPostForgotten, Doomed, Seen
<1> QED BY <1>1, <1>2, <1>3, <1>4, <1>5, <1>6, <1>7, <1>8 DEF Next

\* So it holds in every state of every behaviour.
LEMMA AlwaysInv == Spec => []Inv
BY Start, StepKeeps, PTL DEF Spec

\* The variables keep the shape the code gives them.
THEOREM TypeCorrect == Spec => []TypeOK
<1>1. Inv => TypeOK
  BY DEF Inv
<1> QED BY <1>1, AlwaysInv, PTL

\* A post the plugin promised to delete has its record as long as it exists,
\* whatever calls fail and wherever a pod dies, unless a sweep found that the
\* record does not parse (yaml_janitor.go:96-112).
THEOREM NeverForgotten == Spec => []NoPostForgotten
<1>1. Inv => NoPostForgotten
  BY DEF Inv
<1> QED BY <1>1, AlwaysInv, PTL

\* The janitor deletes no post before the time to live its sweep started with has
\* passed since the post was sent, whoever changes the setting meanwhile
\* (yaml_janitor.go:71-104).
THEOREM NeverEarly == Spec => NeverTooEarly
<1>1. ASSUME Inv, Next
      PROVE  \A p \in posts \ posts' :
               (sweep.pc = "visit" /\ sweep'.pc = "forget") => born[p] + sweep.ttl <= now
  <2> SUFFICES ASSUME NEW p \in posts \ posts', sweep.pc = "visit", sweep'.pc = "forget"
               PROVE  born[p] + sweep.ttl <= now
    OBVIOUS
  <2>1. Janitor \/ Crash
    BY <1>1 DEF Next, Tick, Deliver, Track, TrackFails, DeletedByUser, SetTtl
  <2>2. p = Doomed /\ Expired(p) /\ Doomed \in sweep.rest
    BY <1>1, <2>1, SweepSteps DEF Inv
  <2>3. p \in Seen
    BY <2>2 DEF Seen, Expired
  <2>4. /\ born[p] \in Nat /\ created[p] \in Nat /\ sweep.ttl \in Nat /\ sweep.at \in Nat
        /\ now \in Nat
    BY <1>1, <2>3, BoundsAssumption DEF Inv, TypeOK, Sweep, Seen
  <2>5. born[p] <= created[p] /\ sweep.at <= now
    BY <1>1, <2>3 DEF Inv, TimesOK
  <2>6. created[p] + sweep.ttl <= sweep.at
    BY <2>2 DEF Expired
  <2> QED BY <2>4, <2>5, <2>6
<1>2. ASSUME Inv, [Next]_vars
      PROVE  [\A p \in posts \ posts' :
                (sweep.pc = "visit" /\ sweep'.pc = "forget") => born[p] + sweep.ttl <= now]_posts
  BY <1>1, <1>2 DEF vars
<1> QED BY <1>2, AlwaysInv, PTL DEF NeverTooEarly, Spec

===============================================================================
