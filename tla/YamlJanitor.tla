------------------------------ MODULE YamlJanitor -----------------------------
(***************************************************************************)
(* The life of a YAML bundle sent as a direct message.  dmYAMLBundle       *)
(* creates the post, trackYAMLForAutoDelete records it in the KV store,    *)
(* and sweepExpiredYAML, run by the reconcile job on one pod at a time,    *)
(* pages through all keys of the plugin and deletes the posts that are     *)
(* older than the time to live.                                            *)
(*                                                                         *)
(* A post is its number, which also is the place of its key in the order   *)
(* KVList pages by; the plugin's other keys have numbers too.  Time is in  *)
(* hours.  Each KV or post call is a step; a call that fails changes       *)
(* nothing.  A record that a sweep reads may turn out not to parse.        *)
(***************************************************************************)
EXTENDS Naturals, FiniteSets

CONSTANTS
  Posts,     \* numbers of the posts
  Others,    \* numbers of the keys that are not delivery records
  PerPage,   \* perPage
  MaxTtl,    \* bound on AssembledYAMLTTLHours
  MaxTime    \* bound on the clock; posts are sent and recorded up to MaxTime - MaxTtl

ASSUME KeysAssumption == Posts \subseteq Nat /\ Others \subseteq Nat /\ Posts \cap Others = {}
ASSUME BoundsAssumption == {PerPage, MaxTime} \subseteq Nat \ {0} /\ MaxTtl \in Nat

VARIABLES
  now,       \* the clock
  ttl,       \* AssembledYAMLTTLHours; 0 disables the feature
  posts,     \* posts that exist
  born,      \* history: when each post was created
  pending,   \* posts created by a command that has not recorded them yet
  records,   \* posts with a delivery record
  created,   \* per post: the CreatedAt of its record
  excused,   \* history: posts not tracked (disabled, failed, crash, unreadable record)
  sweep      \* the sweep, or where it ended

vars == <<now, ttl, posts, born, pending, records, created, excused, sweep>>

-----------------------------------------------------------------------------

Sweep ==
  [pc     : {"off", "list", "visit", "forget"},
   page   : Nat,
   rest   : SUBSET (Posts \cup Others),  \* keys of the page still to be visited
   full   : BOOLEAN,                     \* the page had PerPage keys
   ttl    : 0..MaxTtl,                   \* the ttlHours it read when it started
   at     : 0..MaxTime,                  \* and the time
   failed : BOOLEAN]                     \* history: a call failed

Off == [pc |-> "off", page |-> 0, rest |-> {}, full |-> FALSE, ttl |-> 0, at |-> 0,
        failed |-> FALSE]

Keys == records \cup Others
Rank(key) == Cardinality({k \in Keys : k < key})
Page(n) == {k \in Keys : Rank(k) >= n * PerPage /\ Rank(k) < (n + 1) * PerPage}
First(keys) == CHOOSE k \in keys : \A j \in keys : k <= j

\* A delivery record for which rec.CreatedAt > cutoff, with cutoff = start - ttl,
\* is false.
Expired(key) == key \in Posts /\ created[key] + sweep.ttl <= sweep.at

-----------------------------------------------------------------------------
(* Sending. *)

\* dmYAMLBundle: CreatePost.
Deliver(p) ==
  /\ now + MaxTtl <= MaxTime
  /\ p \notin posts \cup pending \cup records \cup excused /\ born[p] = 0
  /\ posts' = posts \cup {p} /\ pending' = pending \cup {p}
  /\ born' = [born EXCEPT ![p] = now]
  /\ UNCHANGED <<now, ttl, records, created, excused, sweep>>

\* trackYAMLForAutoDelete: nothing is recorded while the feature is disabled.
Track(p) ==
  /\ p \in pending
  /\ pending' = pending \ {p}
  /\ \/ /\ ttl = 0
        /\ excused' = excused \cup {p}
        /\ UNCHANGED <<records, created>>
     \/ /\ ttl > 0
        /\ records' = records \cup {p}
        /\ created' = [created EXCEPT ![p] = now]
        /\ UNCHANGED excused
  /\ UNCHANGED <<now, ttl, posts, born, sweep>>

\* KVSet fails, or the pod dies before it: the post stays for ever.
TrackFails(p) ==
  /\ p \in pending
  /\ pending' = pending \ {p}
  /\ excused' = excused \cup {p}
  /\ UNCHANGED <<now, ttl, posts, born, records, created, sweep>>

-----------------------------------------------------------------------------
(* sweepExpiredYAML. *)

SweepStart ==
  /\ sweep.pc = "off" /\ ttl > 0
  /\ sweep' = [Off EXCEPT !.pc = "list", !.ttl = ttl, !.at = now]
  /\ UNCHANGED <<now, ttl, posts, born, pending, records, created, excused>>

\* KVList(page, perPage): the page as the keys are now.
List ==
  LET keys == Page(sweep.page) IN
  /\ sweep.pc = "list"
  /\ sweep' = IF keys = {} THEN [sweep EXCEPT !.pc = "off"]
              ELSE [sweep EXCEPT !.pc = "visit", !.rest = keys,
                                 !.full = Cardinality(keys) = PerPage]
  /\ UNCHANGED <<now, ttl, posts, born, pending, records, created, excused>>

ListFails ==
  /\ sweep.pc = "list"
  /\ sweep' = [sweep EXCEPT !.pc = "off", !.failed = TRUE]
  /\ UNCHANGED <<now, ttl, posts, born, pending, records, created, excused>>

\* The keys of the page are done: the next page, unless this was a short one.
NextPage ==
  /\ sweep.pc = "visit" /\ sweep.rest = {}
  /\ sweep' = IF sweep.full THEN [sweep EXCEPT !.pc = "list", !.page = @ + 1]
              ELSE [sweep EXCEPT !.pc = "off"]
  /\ UNCHANGED <<now, ttl, posts, born, pending, records, created, excused>>

Visiting(key) == sweep.pc = "visit" /\ sweep.rest # {} /\ key = First(sweep.rest)
Continue(failed) ==
  sweep' = [sweep EXCEPT !.pc = "visit", !.rest = @ \ {First(@)}, !.failed = @ \/ failed]

\* Another key, or a post that is not old enough.
Skip(key) ==
  /\ Visiting(key)
  /\ ~Expired(key)
  /\ Continue(FALSE)
  /\ UNCHANGED <<now, ttl, posts, born, pending, records, created, excused>>

\* Mutant of DeletePost: a record that cannot be read counts as old.
DeletePostUnread(p) ==
  /\ Visiting(p) /\ p \in Posts
  /\ posts' = posts \ {p}
  /\ sweep' = [sweep EXCEPT !.pc = "forget"]
  /\ UNCHANGED <<now, ttl, born, pending, records, created, excused>>

\* DeletePost; a post that is gone already (404) counts as deleted.
DeletePost(p) ==
  /\ Visiting(p) /\ Expired(p)
  /\ posts' = posts \ {p}
  /\ sweep' = [sweep EXCEPT !.pc = "forget"]
  /\ UNCHANGED <<now, ttl, born, pending, records, created, excused>>

\* Mutant of CallFails: the record goes although its post could not be deleted.
CallFailsForgets(p) ==
  /\ Visiting(p) /\ p \in Posts
  /\ Continue(TRUE)
  /\ records' = records \ {p}
  /\ UNCHANGED <<now, ttl, posts, born, pending, created, excused>>

\* The record read does not parse: it is deleted, and its post is left.
Discard(p) ==
  /\ Visiting(p) /\ p \in Posts
  /\ records' = records \ {p}
  /\ excused' = excused \cup {p}
  /\ Continue(FALSE)
  /\ UNCHANGED <<now, ttl, posts, born, pending, created>>

\* KVGet or DeletePost fails, or the KVDelete of a record that does not parse: the
\* record stays for the next cycle.
CallFails(p) ==
  /\ Visiting(p) /\ p \in Posts
  /\ Continue(TRUE)
  /\ UNCHANGED <<now, ttl, posts, born, pending, records, created, excused>>

\* Mutant of Forget: a sweep works through the records but leaves them.
ForgetNever ==
  /\ sweep.pc = "forget"
  /\ Continue(FALSE)
  /\ UNCHANGED <<now, ttl, posts, born, pending, records, created, excused>>

\* KVDelete.
Forget ==
  /\ sweep.pc = "forget"
  /\ records' = records \ {First(sweep.rest)}
  /\ Continue(FALSE)
  /\ UNCHANGED <<now, ttl, posts, born, pending, created, excused>>

ForgetFails ==
  /\ sweep.pc = "forget"
  /\ Continue(TRUE)
  /\ UNCHANGED <<now, ttl, posts, born, pending, records, created, excused>>

-----------------------------------------------------------------------------

\* The pod that sweeps dies; the next cycle runs on another one.
Crash ==
  /\ sweep.pc # "off"
  /\ sweep' = [sweep EXCEPT !.pc = "off", !.failed = TRUE]
  /\ UNCHANGED <<now, ttl, posts, born, pending, records, created, excused>>

SetTtl(hours) ==
  /\ ttl' = hours /\ ttl # hours
  /\ UNCHANGED <<now, posts, born, pending, records, created, excused, sweep>>

\* The recipient, or an administrator, deletes the post.
DeletedByUser(p) ==
  /\ p \in posts
  /\ posts' = posts \ {p}
  /\ UNCHANGED <<now, ttl, born, pending, records, created, excused, sweep>>

Tick ==
  /\ now < MaxTime
  /\ pending = {} \/ now + MaxTtl < MaxTime
  /\ now' = now + 1
  /\ UNCHANGED <<ttl, posts, born, pending, records, created, excused, sweep>>

Init ==
  /\ now = 1 /\ ttl \in 0..MaxTtl
  /\ posts = {} /\ pending = {} /\ records = {} /\ excused = {}
  /\ born = [p \in Posts |-> 0] /\ created = [p \in Posts |-> 0]
  /\ sweep = Off

Janitor ==
  \/ SweepStart \/ List \/ ListFails \/ NextPage
  \/ \E key \in sweep.rest : Skip(key) \/ DeletePost(key) \/ Discard(key) \/ CallFails(key)
  \/ Forget \/ ForgetFails

Next ==
  \/ Janitor \/ Crash \/ Tick
  \/ \E p \in Posts : Deliver(p) \/ Track(p) \/ TrackFails(p) \/ DeletedByUser(p)
  \/ \E hours \in 0..MaxTtl : SetTtl(hours)

Spec == Init /\ [][Next]_vars

-----------------------------------------------------------------------------
(* Properties. *)

\* Every variable keeps the shape the code gives it.
TypeOK ==
  /\ now \in 0..MaxTime /\ ttl \in 0..MaxTtl
  /\ posts \subseteq Posts /\ pending \subseteq Posts
  /\ records \subseteq Posts /\ excused \subseteq Posts
  /\ born \in [Posts -> 0..MaxTime] /\ created \in [Posts -> 0..MaxTime]
  /\ sweep \in Sweep

\* The janitor never loses sight of a post it promised to delete: as long as the
\* post exists its record does, whatever calls fail and wherever a pod dies,
\* unless a sweep found that the record does not parse (yaml_janitor.go:96-100).
NoPostForgotten == posts \subseteq records \cup pending \cup excused

\* The janitor deletes a post no earlier than the time to live it started with
\* allows, counted from when the post was sent.
NeverTooEarly ==
  [][\A p \in posts \ posts' :
       (sweep.pc = "visit" /\ sweep'.pc = "forget") => born[p] + sweep.ttl <= now]_posts

\* Time passes, commands finish, and the reconcile job keeps sweeping.
Fairness ==
  /\ WF_vars(Tick) /\ WF_vars(Janitor)
  /\ \A p \in Posts : WF_vars(Track(p) \/ TrackFails(p))

LiveSpec == Spec /\ Fairness

\* Unless the feature is switched off again, no delivery record stays for ever,
\* once calls stop failing and pods stop dying in the middle of a sweep: what one
\* sweep passes over, a later one finds, and with its record a tracked post goes.
SweepBreaks == Crash \/ ListFails \/ ForgetFails \/ \E p \in Posts : CallFails(p)
TrackedPostsGo ==
  (<>[](ttl > 0) /\ <>[][~SweepBreaks]_vars) => \A p \in Posts : []<>(p \notin records)

=============================================================================
