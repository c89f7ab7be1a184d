------------------------- MODULE BulkRotation_proofs --------------------------
(* What is proved of BulkRotation, for any pods and receivers and any number of *)
(* webhooks.                                                                    *)
EXTENDS BulkRotation, FiniteSetTheorems, TLAPS

(* A webhook that no list has and no bulk rotation has seen. *)
Fresh(h) ==
  /\ \A n \in Names : kv[n] # None => kv[n].hook # h
  /\ \A q \in Pods, n \in Names : mem[q][n] # None => mem[q][n].hook # h
  /\ \A q \in Pods, n \in Names : run[q].seen[n] # h

Writing(p) == run[p].pc = "write"

(* Webhooks are numbered in the order they are created. *)
Bounded ==
  /\ \A n \in Names : kv[n] # None => kv[n].hook <= minted
  /\ \A q \in Pods, n \in Names : mem[q][n] # None => mem[q][n].hook <= minted
  /\ \A q \in Pods : run[q].new <= minted /\ \A n \in Names : run[q].seen[n] <= minted

(* Entries of the store and of a copy that have the same webhook are the same. *)
Coherent ==
  \A q \in Pods, n \in Names :
    kv[n] # None /\ mem[q][n] # None /\ mem[q][n].hook = kv[n].hook => mem[q][n] = kv[n]

(* A webhook that has been created and not written yet belongs to one rotation. *)
NewIsFresh ==
  \A p \in Pods : Writing(p) =>
    /\ run[p].new >= 1 /\ Fresh(run[p].new)
    /\ \A q \in Pods : Writing(q) /\ q # p => run[q].new # run[p].new

(* The representative that is being rotated is there, and on the webhook it was *)
(* seen on unless the rotation knows better.                                     *)
Held(p) ==
  LET r == run[p] IN
  r.pc \in {"mint", "write"} =>
    /\ mem[p][r.name] # None
    /\ r.name \notin r.parted => mem[p][r.name].hook = r.seen[r.name]

(* An overdue receiver that is stored under the webhook it was seen with is still *)
(* opted in and overdue.                                                           *)
StillOverdue(p) ==
  LET r == run[p] IN
  \A n \in r.over : /\ r.seen[n] >= 1
                    /\ kv[n] # None /\ kv[n].hook = r.seen[n] => kv[n].on /\ kv[n].old

(* A representative of n's webhook is still to be rotated. *)
Todo(r, n) == \E m \in r.reps : r.seen[m] = r.seen[n] /\ (r.pc = "collect" => m # r.name)

(* An overdue receiver is still to be rotated, is reported as failed, or has left *)
(* the webhook it was seen with.                                                   *)
Named(p) ==
  LET r == run[p] IN
  \A n \in r.over : r.parted \cap Group(r, n) = {} =>
    Todo(r, n) \/ n \in r.failed \/ kv[n] = None \/ kv[n].hook # r.seen[n]

(* No webhook has two representatives. *)
OneEach(p) ==
  \A m, n \in run[p].reps : run[p].seen[m] = run[p].seen[n] => m = n

(* Receivers that share a webhook with one of S, as far as r has seen. *)
Sharing(r, S) == {n \in Names : \E m \in S : r.seen[n] = r.seen[m]}

(* A bulk rotation that nobody has disturbed: what it has done of each receiver.  *)
(* Its copy is the stored list; a receiver it has not come to has the webhook it   *)
(* was seen with, and nobody else has it; one that is rotated is not overdue.      *)
Undisturbed(p) ==
  LET r == run[p] IN
  r.pc # "idle" /\ r.alone =>
    /\ mem[p] = kv
    /\ \A n \in Names : kv[n] # None =>
         kv[n].hook = r.seen[n] \/ \A k \in Names : kv[n].hook # r.seen[k]
    /\ \A n \in Names \ Sharing(r, r.over) : r.rotated[n] = 0
    /\ \A n \in Sharing(r, r.reps) : r.rotated[n] = 0 /\ n \notin Sharing(r, r.failed)
    /\ \A n \in Names : Todo(r, n) => kv[n] # None /\ kv[n].hook = r.seen[n]
    /\ \A n \in Sharing(r, r.over) \ Sharing(r, r.reps) :
         IF n \in Sharing(r, r.failed) THEN r.rotated[n] = 0
         ELSE r.rotated[n] = 1 /\ kv[n] # None /\ ~kv[n].old
    /\ r.pc = "collect" =>
         /\ kv[r.name] # None
         /\ \A n \in Names : n \in On(kv, kv[r.name].hook) <=> r.seen[n] = r.seen[r.name]
         /\ \A n \in On(kv, kv[r.name].hook) : ~kv[n].old

RunOK(p) == Held(p) /\ StillOverdue(p) /\ Named(p) /\ OneEach(p) /\ Undisturbed(p)

Inv == TypeOK /\ Bounded /\ Coherent /\ NewIsFresh /\ \A p \in Pods : RunOK(p)

-------------------------------------------------------------------------------
(* Lists and runs. *)

\* A list has an entry or none for every name, never both.
LEMMA ListEntries ==
  ASSUME NEW list \in Lists, NEW n \in Names
  PROVE  /\ list[n] # None <=> list[n] \in Entry
         /\ list[n] # None => list[n].hook \in 1..MaxHooks
BY NoneAssumption DEF Lists, Entry

\* The numbers of webhooks are numbers.
LEMMA Numbers ==
  ASSUME TypeOK
  PROVE  /\ MaxHooks \in Nat /\ minted \in Nat /\ minted <= MaxHooks
         /\ \A n \in Names : kv[n] # None => kv[n].hook \in Nat /\ kv[n].hook >= 1
         /\ \A q \in Pods, n \in Names : mem[q][n] # None => mem[q][n].hook \in Nat /\ mem[q][n].hook >= 1
         /\ \A q \in Pods : run[q].new \in Nat /\ \A n \in Names : run[q].seen[n] \in Nat
<1>1. MaxHooks \in Nat /\ minted \in Nat /\ minted <= MaxHooks
  BY BulkRotationAssumption DEF TypeOK
<1>2. \A n \in Names : kv[n] # None => kv[n].hook \in Nat /\ kv[n].hook >= 1
  BY <1>1, ListEntries DEF TypeOK
<1>3. \A q \in Pods, n \in Names : mem[q][n] # None => mem[q][n].hook \in Nat /\ mem[q][n].hook >= 1
  BY <1>1, ListEntries DEF TypeOK
<1>4. \A q \in Pods : run[q].new \in Nat /\ \A n \in Names : run[q].seen[n] \in Nat
  BY <1>1 DEF TypeOK, Run
<1> QED BY <1>1, <1>2, <1>3, <1>4

\* A webhook that is about to be created is a new one.
LEMMA NextIsFresh ==
  ASSUME TypeOK, Bounded
  PROVE  Fresh(minted + 1) /\ \A q \in Pods : run[q].new # minted + 1
BY Numbers DEF Bounded, Fresh

\* A pod that is not rotating anything.
LEMMA IdleRun ==
  /\ Idle \in Run /\ Idle.pc = "idle" /\ Idle.over = {} /\ Idle.reps = {} /\ Idle.failed = {}
  /\ Idle.parted = {} /\ Idle.name = None /\ Idle.new = 0 /\ ~Idle.alone
  /\ \A n \in Names : Idle.seen[n] = 0
<1>1. 0 \in 0..MaxHooks /\ 0 \in Nat
  BY BulkRotationAssumption
<1> QED BY <1>1 DEF Idle, Run

\* A representative whose rotation failed.
LEMMA FailedRun ==
  ASSUME NEW r \in Run, NEW n \in r.reps, r.failed \subseteq r.over
  PROVE  LET f == Failed(r, n) IN
         /\ f \in Run /\ f.pc = "next" /\ f.over = r.over /\ f.seen = r.seen
         /\ f.reps = r.reps \ {n} /\ f.name = None /\ f.new = 0 /\ f.rotated = r.rotated
         /\ f.failed = r.failed \cup Group(r, n) /\ f.parted = r.parted
         /\ f.alone <=> r.alone
<1> DEFINE reps == r.reps \ {n}
           failed == r.failed \cup Group(r, n)
<1>1. reps \subseteq Names /\ failed \subseteq Names /\ 0 \in 0..MaxHooks
  BY BulkRotationAssumption DEF Run, Group
<1>2. Failed(r, n) = [r EXCEPT !.pc = "next", !.reps = reps, !.failed = failed, !.name = None, !.new = 0]
  BY DEF Failed, Left
<1> HIDE DEF reps, failed
<1>3. /\ Failed(r, n) \in Run
      /\ Failed(r, n).pc = "next" /\ Failed(r, n).over = r.over /\ Failed(r, n).seen = r.seen
      /\ Failed(r, n).reps = reps /\ Failed(r, n).name = None /\ Failed(r, n).new = 0
      /\ Failed(r, n).rotated = r.rotated /\ Failed(r, n).failed = failed
      /\ Failed(r, n).parted = r.parted
  BY ZenonT(40), <1>1, <1>2 DEF Run
<1>4. Failed(r, n).alone = r.alone
  BY <1>2 DEF Run
<1>5. Failed(r, n).alone <=> r.alone
  BY <1>4
<1> QED BY <1>3, <1>5 DEF reps, failed

-------------------------------------------------------------------------------
(* The start. *)

\* There are numbers enough for the webhooks of the first list.
LEMMA Numbered ==
  LET f == CHOOSE f \in [Names -> 1..Cardinality(Names)] : IsInjective(f)
  IN  f \in [Names -> 1..Cardinality(Names)]
<1> DEFINE c == Cardinality(Names)
<1>1. c \in Nat
  BY BulkRotationAssumption, FS_CardinalityType
<1>2. IsFiniteSet(1..c) /\ Cardinality(1..c) = c
  BY <1>1, FS_Interval
<1>3. ExistsBijection(Names, 1..c)
  BY <1>2, BulkRotationAssumption, FS_SameCardinalityBij
<1>4. \E f \in [Names -> 1..c] : IsInjective(f)
  BY <1>3 DEF ExistsBijection, Bijection, Injection
<1> QED BY <1>4

\* Nobody rotates in bulk at first, and every pod has the stored list.
LEMMA Start == Init => Inv
<1> SUFFICES ASSUME Init PROVE Inv
  OBVIOUS
<1> DEFINE c == Cardinality(Names)
<1>1. c \in Nat /\ c <= MaxHooks /\ MaxHooks \in Nat
  BY BulkRotationAssumption, FS_CardinalityType
<1>2. PICK share \in {[n \in Names |-> 1],
                    CHOOSE f \in [Names -> 1..Cardinality(Names)] : IsInjective(f)},
           on \in [Names -> BOOLEAN] :
        kv = [n \in Names |-> [hook |-> share[n], on |-> on[n], old |-> TRUE]]
  BY DEF Init
<1>3. mem = [p \in Pods |-> kv] /\ minted = c /\ run = [p \in Pods |-> Idle]
  BY DEF Init
<1>4. ASSUME NEW n \in Names PROVE share[n] \in 1..c
  <2>1. c >= 1
    <3>1. Names # {}
      OBVIOUS
    <3>2. c # 0
      BY <3>1, BulkRotationAssumption, FS_EmptySet
    <3> QED BY <1>1, <3>2
  <2>2. CASE share = [m \in Names |-> 1]
    BY <1>1, <2>1, <2>2
  <2>3. CASE share = CHOOSE f \in [Names -> 1..Cardinality(Names)] : IsInjective(f)
    BY <2>3, Numbered
  <2> QED BY <2>2, <2>3
<1> HIDE DEF c
<1>5. ASSUME NEW n \in Names
      PROVE  kv[n] \in Entry /\ kv[n].hook = share[n]
  <2>1. share[n] \in 1..MaxHooks
    BY <1>1, <1>4
  <2>2. on[n] \in BOOLEAN /\ kv[n] = [hook |-> share[n], on |-> on[n], old |-> TRUE]
    BY <1>2
  <2>3. [hook |-> share[n], on |-> on[n], old |-> TRUE] \in Entry
    BY <2>1, <2>2 DEF Entry
  <2> QED BY <2>2, <2>3
<1>6. kv \in Lists
  BY <1>2, <1>5 DEF Lists
<1>7. \A p \in Pods : run[p] = Idle /\ mem[p] = kv
  BY <1>3
<1>8. TypeOK
  BY <1>1, <1>3, <1>6, <1>7, IdleRun, NoneAssumption DEF TypeOK
<1>9. Bounded
  <2>1. \A n \in Names : kv[n].hook <= minted
    BY <1>1, <1>3, <1>4, <1>5
  <2>2. \A q \in Pods : run[q].new = 0 /\ \A n \in Names : run[q].seen[n] = 0
    BY <1>7, IdleRun
  <2> QED BY <1>1, <1>3, <1>7, <2>1, <2>2 DEF Bounded
<1>10. Coherent
  BY <1>7 DEF Coherent
<1>11. NewIsFresh
  BY <1>7, IdleRun DEF NewIsFresh, Writing
<1>12. \A p \in Pods : RunOK(p)
  BY <1>7, IdleRun DEF RunOK, Held, StillOverdue, Named, OneEach, Undisturbed
<1> QED BY <1>8, <1>9, <1>10, <1>11, <1>12 DEF Inv

-------------------------------------------------------------------------------
(* Steps. *)

(* list is the stored list with receivers removed or given the webhook h. *)
Changes(list, h) ==
  \A n \in Names : list[n] = kv[n] \/ list[n] = None \/ (list[n] \in Entry /\ list[n].hook = h)

\* Company: the fields a disturbed rotation keeps.
LEMMA UnaloneRun ==
  ASSUME NEW r \in Run
  PROVE  LET u == [r EXCEPT !.alone = FALSE] IN
         /\ u \in Run /\ u.pc = r.pc /\ u.over = r.over /\ u.seen = r.seen /\ u.reps = r.reps
         /\ u.name = r.name /\ u.new = r.new /\ u.rotated = r.rotated /\ u.failed = r.failed
         /\ u.parted = r.parted /\ ~u.alone
BY DEF Run

\* A webhook that is written to the list is one no copy has, so that the copies
\* stay right about the webhooks they still know.
LEMMA CommitShared ==
  ASSUME Inv, NEW p \in Pods, NEW list \in Lists, NEW h, Commit(p, list), Changes(list, h),
         Fresh(h), minted' \in Nat, minted <= minted',
         \A n \in Names : list[n] # None => list[n].hook <= minted',
         \A q \in Pods : run'[q].seen = run[q].seen,
         \A q \in Pods : run'[q].new = run[q].new \/ run'[q].new = 0,
         \A q \in Pods : Writing(q)' => Writing(q) /\ run'[q].new = run[q].new /\ run[q].new # h
  PROVE  Bounded' /\ Coherent' /\ NewIsFresh'
<1>1. TypeOK /\ Bounded /\ Coherent /\ NewIsFresh
  BY DEF Inv
<1>2. kv' = list /\ \A q \in Pods : mem'[q] = IF q = p THEN list ELSE mem[q]
  BY <1>1 DEF Commit, TypeOK
<1>3. Bounded'
  <2>1. \A q \in Pods, n \in Names : mem'[q][n] # None => mem'[q][n].hook <= minted'
    <3>1. ASSUME NEW q \in Pods, NEW n \in Names, mem'[q][n] # None
          PROVE  mem'[q][n].hook <= minted'
      <4>1. CASE q = p
        BY <1>2, <3>1, <4>1
      <4>2. CASE q # p
        <5>1. mem'[q][n] = mem[q][n]
          BY <1>2, <4>2
        <5>2. mem[q][n].hook <= minted /\ mem[q][n].hook \in Nat /\ minted \in Nat
          BY <1>1, <3>1, <5>1, Numbers DEF Bounded
        <5> QED BY <5>1, <5>2
      <4> QED BY <4>1, <4>2
    <3> QED BY <3>1
  <2>2. \A q \in Pods : run'[q].new <= minted' /\ \A n \in Names : run'[q].seen[n] <= minted'
    <3>1. ASSUME NEW q \in Pods PROVE run'[q].new <= minted'
      BY <1>1, Numbers DEF Bounded
    <3>2. ASSUME NEW q \in Pods, NEW n \in Names PROVE run'[q].seen[n] <= minted'
      <4>1. run'[q].seen[n] = run[q].seen[n]
        OBVIOUS
      <4> QED BY <1>1, <4>1, Numbers DEF Bounded
    <3> QED BY <3>1, <3>2
  <2> QED BY <1>2, <2>1, <2>2 DEF Bounded
<1>4. Coherent'
  <2>1. ASSUME NEW q \in Pods, NEW n \in Names, list[n] # None, mem'[q][n] # None,
               mem'[q][n].hook = list[n].hook
        PROVE  mem'[q][n] = list[n]
    BY <1>1, <1>2, <2>1 DEF Coherent, Changes, Fresh
  <2> QED BY <1>2, <2>1 DEF Coherent
<1>5. NewIsFresh'
  <2>1. ASSUME NEW q \in Pods, Writing(q)'
        PROVE  /\ run'[q].new >= 1 /\ Fresh(run[q].new)'
               /\ \A o \in Pods : Writing(o)' /\ o # q => run'[o].new # run'[q].new
    <3>1. Writing(q) /\ run'[q].new = run[q].new /\ run[q].new # h
      BY <2>1
    <3>2. run[q].new >= 1 /\ Fresh(run[q].new)
          /\ \A o \in Pods : Writing(o) /\ o # q => run[o].new # run[q].new
      BY <1>1, <3>1 DEF NewIsFresh
    <3>3. ASSUME NEW n \in Names, list[n] # None PROVE list[n].hook # run[q].new
      BY <3>1, <3>2, <3>3 DEF Changes, Fresh
    <3>4. ASSUME NEW o \in Pods, NEW n \in Names, mem'[o][n] # None
          PROVE  mem'[o][n].hook # run[q].new
      BY <1>2, <3>2, <3>3, <3>4 DEF Fresh
    <3>5. Fresh(run[q].new)'
      BY <1>2, <3>1, <3>2, <3>3, <3>4 DEF Fresh
    <3> QED BY <3>1, <3>2, <3>5
  <2> QED BY <2>1 DEF NewIsFresh
<1> QED BY <1>3, <1>4, <1>5

\* A rotation that somebody disturbs: what it has seen of the receivers that got
\* the new webhook is no longer so.
LEMMA OtherRun ==
  ASSUME Inv, NEW q \in Pods, NEW list, NEW h, kv' = list, Changes(list, h), Fresh(h),
         run'[q] = [run[q] EXCEPT !.alone = FALSE],
         mem'[q] = mem[q] \/ run[q].pc \notin {"mint", "write"}
  PROVE  RunOK(q)'
<1> DEFINE r == run[q]
           u == run'[q]
<1>1. TypeOK /\ RunOK(q) /\ r \in Run
  BY DEF Inv, TypeOK
<1>2. /\ u.pc = r.pc /\ u.over = r.over /\ u.seen = r.seen /\ u.reps = r.reps
      /\ u.name = r.name /\ u.failed = r.failed /\ u.parted = r.parted /\ ~u.alone
  BY <1>1, UnaloneRun
<1>3. \A n \in Names : h # r.seen[n]
  BY DEF Fresh
<1>4. r.over \subseteq Names
  BY <1>1 DEF Run
<1>5. Held(q)'
  BY <1>1, <1>2 DEF RunOK, Held
<1>6. StillOverdue(q)'
  BY <1>1, <1>2, <1>3, <1>4 DEF RunOK, StillOverdue, Changes
<1>7. Named(q)'
  <2>1. ASSUME NEW n \in r.over, r.parted \cap Group(r, n) = {}
        PROVE  Todo(r, n) \/ n \in r.failed \/ list[n] = None \/ list[n].hook # r.seen[n]
    BY <1>1, <1>3, <1>4, <2>1 DEF RunOK, Named, Changes
  <2>2. \A n : Todo(u, n) <=> Todo(r, n)
    BY <1>2 DEF Todo
  <2>3. \A n : Group(u, n) = Group(r, n)
    BY <1>2 DEF Group
  <2> QED BY <1>2, <2>1, <2>2, <2>3 DEF Named
<1>8. OneEach(q)'
  BY <1>1, <1>2 DEF RunOK, OneEach
<1>9. Undisturbed(q)'
  BY <1>2 DEF Undisturbed
<1> QED BY <1>5, <1>6, <1>7, <1>8, <1>9 DEF RunOK

\* A rotation that goes on alone: the list and the copies stay as they are, and what
\* it remembers of webhooks it has from before, from its copy or from creating one.
LEMMA OwnStep ==
  ASSUME Inv, NEW p \in Pods, NEW r \in Run, run' = [run EXCEPT ![p] = r],
         UNCHANGED <<kv, mem>>, minted' \in 0..MaxHooks, minted <= minted',
         \A n \in Names : \/ r.seen[n] = 0
                          \/ r.seen[n] = run[p].seen[n]
                          \/ mem[p][n] # None /\ r.seen[n] = mem[p][n].hook,
         r.new = run[p].new \/ r.new = 0 \/ (r.new = minted + 1 /\ minted' = minted + 1),
         r.pc = "write" => r.new = minted + 1 /\ minted' = minted + 1,
         r.reps \subseteq r.over, r.failed \subseteq r.over,
         r.pc \in {"mint", "write", "collect"} <=> r.name \in r.reps,
         RunOK(p)'
  PROVE  Inv'
<1>1. TypeOK /\ Bounded /\ Coherent /\ NewIsFresh
  BY DEF Inv
<1>2. run'[p] = r /\ \A q \in Pods : q # p => run'[q] = run[q]
  BY <1>1 DEF TypeOK
<1>3. TypeOK'
  <2>1. run' \in [Pods -> Run]
    BY <1>1 DEF TypeOK
  <2>2. \A q \in Pods : LET o == run'[q] IN
          /\ o.reps \subseteq o.over /\ o.failed \subseteq o.over
          /\ o.pc \in {"mint", "write", "collect"} <=> o.name \in o.reps
    BY <1>1, <1>2 DEF TypeOK
  <2> QED BY <1>1, <2>1, <2>2 DEF TypeOK
<1>4. minted \in Nat /\ minted' \in Nat
  BY <1>1, Numbers
<1>5. ASSUME NEW n \in Names PROVE r.seen[n] \in Nat /\ r.seen[n] <= minted
  BY <1>1, <1>4, Numbers DEF Bounded
<1>6. Bounded'
  <2>1. ASSUME NEW n \in Names, kv[n] # None PROVE kv[n].hook <= minted'
    BY <1>1, <1>4, <2>1, Numbers DEF Bounded
  <2>2. ASSUME NEW q \in Pods, NEW n \in Names, mem[q][n] # None PROVE mem[q][n].hook <= minted'
    BY <1>1, <1>4, <2>2, Numbers DEF Bounded
  <2>3. ASSUME NEW q \in Pods PROVE run'[q].new <= minted' /\ \A n \in Names : run'[q].seen[n] <= minted'
    <3>1. run[q].new <= minted /\ run[q].new \in Nat
      BY <1>1, Numbers DEF Bounded
    <3>2. \A n \in Names : run[q].seen[n] <= minted /\ run[q].seen[n] \in Nat
      BY <1>1, Numbers DEF Bounded
    <3> QED BY <1>2, <1>4, <1>5, <3>1, <3>2
  <2> QED BY <2>1, <2>2, <2>3 DEF Bounded
<1>7. Coherent'
  BY <1>1 DEF Coherent
<1>8. ASSUME NEW q \in Pods, Writing(q), q # p
      PROVE  Fresh(run[q].new)'
  <2>1. Fresh(run[q].new) /\ run[q].new >= 1
    BY <1>1, <1>8 DEF NewIsFresh
  <2>2. \A n \in Names : r.seen[n] # run[q].new
    BY <2>1 DEF Fresh
  <2>3. run'[q].new = run[q].new
    BY <1>2, <1>8
  <2>4. \A o \in Pods, n \in Names : run'[o].seen[n] # run[q].new
    BY <1>2, <2>1, <2>2 DEF Fresh
  <2> QED BY <2>1, <2>3, <2>4 DEF Fresh
<1>9. ASSUME r.pc = "write" PROVE Fresh(run[p].new)'
  <2>1. Fresh(minted + 1) /\ run'[p].new = minted + 1
    BY <1>1, <1>2, <1>9, NextIsFresh
  <2>2. \A n \in Names : r.seen[n] # minted + 1
    BY <1>4, <1>5
  <2>3. \A o \in Pods, n \in Names : run'[o].seen[n] # minted + 1
    BY <1>2, <2>1, <2>2 DEF Fresh
  <2> QED BY <2>1, <2>3 DEF Fresh
<1>10. NewIsFresh'
  <2>1. ASSUME NEW q \in Pods, Writing(q)'
        PROVE  run'[q].new >= 1 /\ Fresh(run[q].new)'
    <3>1. CASE q = p
      BY <1>2, <1>4, <1>9, <2>1, <3>1 DEF Writing
    <3>2. CASE q # p
      BY <1>1, <1>2, <1>8, <2>1, <3>2 DEF Writing, NewIsFresh
    <3> QED BY <3>1, <3>2
  <2>2. ASSUME NEW q \in Pods, NEW o \in Pods, Writing(q)', Writing(o)', o # q
        PROVE  run'[o].new # run'[q].new
    <3>1. \A u \in Pods : run[u].new # minted + 1
      BY <1>1, NextIsFresh
    <3>2. \A u \in Pods : Writing(u)' /\ u # p => Writing(u) /\ run'[u].new = run[u].new
      BY <1>2 DEF Writing
    <3>3. Writing(p)' => run'[p].new = minted + 1
      BY <1>2 DEF Writing
    <3> QED BY <1>1, <2>2, <3>1, <3>2, <3>3 DEF NewIsFresh
  <2> QED BY <2>1, <2>2 DEF NewIsFresh
<1>11. ASSUME NEW q \in Pods, q # p PROVE RunOK(q)'
  <2>1. run'[q] = run[q] /\ RunOK(q)
    BY <1>2, <1>11 DEF Inv
  <2> QED BY <2>1 DEF RunOK, Held, StillOverdue, Named, OneEach, Undisturbed
<1> QED BY <1>3, <1>6, <1>7, <1>10, <1>11 DEF Inv

\* The same where no webhook is created.
LEMMA QuietStep ==
  ASSUME Inv, NEW p \in Pods, NEW r \in Run, run' = [run EXCEPT ![p] = r],
         UNCHANGED <<kv, mem, minted>>,
         \A n \in Names : \/ r.seen[n] = 0
                          \/ r.seen[n] = run[p].seen[n]
                          \/ mem[p][n] # None /\ r.seen[n] = mem[p][n].hook,
         r.new = run[p].new \/ r.new = 0, r.pc # "write",
         r.reps \subseteq r.over, r.failed \subseteq r.over,
         r.pc \in {"mint", "write", "collect"} <=> r.name \in r.reps,
         RunOK(p)'
  PROVE  Inv'
<1>1. minted' \in 0..MaxHooks /\ minted \in Nat /\ minted' = minted
  BY Numbers DEF Inv, TypeOK
<1>2. minted' \in 0..MaxHooks /\ minted <= minted'
  BY <1>1
<1>3. UNCHANGED <<kv, mem>>
  OBVIOUS
<1>4. r.pc = "write" => r.new = minted + 1 /\ minted' = minted + 1
  OBVIOUS
<1>5. r.new = run[p].new \/ r.new = 0 \/ (r.new = minted + 1 /\ minted' = minted + 1)
  OBVIOUS
<1> QED BY <1>2, <1>3, <1>4, <1>5, OwnStep

\* A representative whose rotation fails: its whole group is reported as failed.
LEMMA FailedKeeps ==
  ASSUME Inv, NEW p \in Pods, NEW n \in run[p].reps, run[p].pc \in {"next", "mint", "write"},
         kv' = kv, mem'[p] = mem[p] \/ mem'[p] = kv, run'[p] = Failed(run[p], n)
  PROVE  RunOK(p)'
<1> DEFINE r == run[p]
           f == run'[p]
<1>1. /\ RunOK(p) /\ r \in Run /\ r.reps \subseteq r.over /\ r.failed \subseteq r.over
      /\ r.over \subseteq Names
  BY DEF Inv, TypeOK, Run
<1>2. /\ f.pc = "next" /\ f.over = r.over /\ f.seen = r.seen /\ f.reps = r.reps \ {n}
      /\ f.rotated = r.rotated /\ f.failed = r.failed \cup Group(r, n) /\ f.parted = r.parted
  BY <1>1, FailedRun
<1>3. n \in Group(r, n)
  BY <1>1 DEF Group
<1>4. \A k : Todo(f, k) <=> \E m \in r.reps : m # n /\ r.seen[m] = r.seen[k]
  BY <1>2 DEF Todo
<1>5. \A k : Todo(r, k) <=> \E m \in r.reps : r.seen[m] = r.seen[k]
  BY DEF Todo
<1>6. Held(p)'
  BY <1>2 DEF Held
<1>7. StillOverdue(p)'
  BY <1>1, <1>2 DEF RunOK, StillOverdue
<1>8. Named(p)'
  <2>1. ASSUME NEW k \in r.over, r.parted \cap Group(r, k) = {}, ~Todo(f, k), Todo(r, k)
        PROVE  k \in f.failed
    BY <1>2, <1>4, <1>5, <2>1 DEF Group
  <2>2. \A k : Group(f, k) = Group(r, k)
    BY <1>2 DEF Group
  <2> QED BY <1>1, <1>2, <2>1, <2>2 DEF RunOK, Named
<1>9. OneEach(p)'
  BY <1>1, <1>2 DEF RunOK, OneEach
<1>10. Undisturbed(p)'
  <2> SUFFICES ASSUME f.alone PROVE Undisturbed(p)'
    BY DEF Undisturbed
  <2>1. r.pc # "idle" /\ r.alone
    BY <1>1, FailedRun
  <2>2. /\ Sharing(f, f.over) = Sharing(r, r.over) /\ Sharing(f, f.reps) = Sharing(r, f.reps)
        /\ Sharing(f, f.failed) = Sharing(r, f.failed)
    BY <1>2 DEF Sharing
  <2>3. \A k \in Names : k \in Sharing(r, f.failed) <=> k \in Sharing(r, r.failed) \/ r.seen[k] = r.seen[n]
    BY <1>2, <1>3 DEF Sharing, Group
  <2>4. \A k \in Names : k \in Sharing(r, r.reps) <=> k \in Sharing(r, f.reps) \/ r.seen[k] = r.seen[n]
    BY <1>2 DEF Sharing
  <2>5. \A k \in Sharing(r, f.reps) : r.seen[k] # r.seen[n]
    BY <1>1, <1>2 DEF Sharing, RunOK, OneEach
  <2>6. /\ mem[p] = kv
        /\ \A k \in Names : kv[k] # None =>
             kv[k].hook = r.seen[k] \/ \A m \in Names : kv[k].hook # r.seen[m]
        /\ \A k \in Names \ Sharing(r, r.over) : r.rotated[k] = 0
    BY <1>1, <2>1 DEF RunOK, Undisturbed
  <2>7. \A k \in Sharing(r, r.reps) : r.rotated[k] = 0 /\ k \notin Sharing(r, r.failed)
    BY <1>1, <2>1 DEF RunOK, Undisturbed
  <2>8. \A k \in Names : Todo(r, k) => kv[k] # None /\ kv[k].hook = r.seen[k]
    BY <1>1, <2>1 DEF RunOK, Undisturbed
  <2>9. \A k \in Sharing(r, r.over) \ Sharing(r, r.reps) :
          IF k \in Sharing(r, r.failed) THEN r.rotated[k] = 0
          ELSE r.rotated[k] = 1 /\ kv[k] # None /\ ~kv[k].old
    BY <1>1, <2>1 DEF RunOK, Undisturbed
  <2>10. \A S : Sharing(r, S) \subseteq Names
    BY DEF Sharing
  <2>11. \A k \in Sharing(f, f.reps) : f.rotated[k] = 0 /\ k \notin Sharing(f, f.failed)
    BY <1>2, <2>2, <2>3, <2>4, <2>5, <2>7, <2>10
  <2>12. \A k \in Names : Todo(f, k) => kv[k] # None /\ kv[k].hook = f.seen[k]
    BY <1>2, <1>4, <1>5, <2>8
  <2>13. \A k \in Sharing(f, f.over) \ Sharing(f, f.reps) :
           IF k \in Sharing(f, f.failed) THEN f.rotated[k] = 0
           ELSE f.rotated[k] = 1 /\ kv[k] # None /\ ~kv[k].old
    <3>1. SUFFICES ASSUME NEW k \in Sharing(r, r.over) \ Sharing(r, f.reps)
                   PROVE  IF k \in Sharing(r, f.failed) THEN r.rotated[k] = 0
                          ELSE r.rotated[k] = 1 /\ kv[k] # None /\ ~kv[k].old
      BY ZenonT(40), <1>2, <2>2
    <3>2. k \in Names
      BY <2>10
    <3>3. CASE k \in Sharing(r, r.reps)
      <4>1. r.seen[k] = r.seen[n]
        BY <2>4, <3>2, <3>3
      <4>2. k \in Sharing(r, f.failed)
        BY <2>3, <3>2, <4>1
      <4> QED BY <2>7, <3>3, <4>2
    <3>4. CASE k \notin Sharing(r, r.reps)
      <4>1. k \in Sharing(r, f.failed) <=> k \in Sharing(r, r.failed)
        BY <2>3, <2>4, <3>2, <3>4
      <4> QED BY <2>9, <3>4, <4>1
    <3> QED BY <3>3, <3>4
  <2>14. f.pc # "collect" /\ mem'[p] = kv'
    BY <1>2, <2>6
  <2>15. /\ \A k \in Names : kv[k] # None =>
              kv[k].hook = f.seen[k] \/ \A m \in Names : kv[k].hook # f.seen[m]
         /\ \A k \in Names \ Sharing(f, f.over) : f.rotated[k] = 0
    BY <1>2, <2>2, <2>6
  <2> QED BY <2>11, <2>12, <2>13, <2>14, <2>15 DEF Undisturbed
<1> QED BY <1>6, <1>7, <1>8, <1>9, <1>10 DEF RunOK

\* What the mutex holder takes up is the representative as it is in memory.
LEMMA LockStep ==
  ASSUME Inv, NEW p \in Pods, NEW n \in Names, Lock(p, n)
  PROVE  Inv'
<1> DEFINE r == run[p]
           parted == IF mem[p][n].hook # r.seen[n] THEN r.parted \cup {n} ELSE r.parted
           m == [r EXCEPT !.pc = "mint", !.name = n, !.parted = parted]
<1>1. /\ TypeOK /\ RunOK(p) /\ r \in Run /\ r.reps \subseteq r.over /\ r.failed \subseteq r.over
      /\ r.over \subseteq Names /\ minted \in 0..MaxHooks /\ minted \in Nat
  BY Numbers DEF Inv, TypeOK, Run
<1>2. r.pc = "next" /\ n \in r.reps /\ UNCHANGED <<kv, mem, minted>>
  BY DEF Lock
<1>3. CASE mem[p][n] = None
  <2> DEFINE f == Failed(r, n)
  <2>1. run' = [run EXCEPT ![p] = f]
    BY <1>3 DEF Lock
  <2>2. /\ f \in Run /\ f.pc = "next" /\ f.over = r.over /\ f.seen = r.seen
        /\ f.reps = r.reps \ {n} /\ f.name = None /\ f.new = 0
        /\ f.failed = r.failed \cup Group(r, n)
    BY <1>1, <1>2, FailedRun
  <2>3. f.name \notin f.reps
    BY <1>1, <2>2, NoneAssumption DEF Run
  <2>4. f.failed \subseteq f.over
    BY <1>1, <2>2 DEF Group
  <2>5. run'[p] = f
    BY <1>1, <2>1 DEF TypeOK
  <2>6. RunOK(p)'
    BY <1>2, <2>5, FailedKeeps
  <2> HIDE DEF f
  <2> QED BY <1>1, <1>2, <2>1, <2>2, <2>3, <2>4, <2>6, QuietStep
<1>4. CASE mem[p][n] # None
  <2>1. run' = [run EXCEPT ![p] = m]
    BY <1>4 DEF Lock
  <2>2. parted \in SUBSET Names /\ r.parted \subseteq parted
        /\ (n \notin parted => mem[p][n].hook = r.seen[n])
    BY <1>1 DEF Run
  <2> HIDE DEF parted
  <2>3. /\ m \in Run /\ m.pc = "mint" /\ m.over = r.over /\ m.seen = r.seen
        /\ m.reps = r.reps /\ m.name = n /\ m.new = r.new /\ m.rotated = r.rotated
        /\ m.failed = r.failed /\ m.parted = parted
    BY <1>1, <2>2 DEF Run
  <2>4. m.alone => r.alone
    <3>1. m.alone = r.alone
      BY <1>1 DEF Run
    <3> QED BY <3>1
  <2>5. run'[p] = m
    BY <1>1, <2>1 DEF TypeOK
  <2> HIDE DEF m
  <2>6. Held(p)'
    BY <1>2, <1>4, <2>2, <2>3, <2>5 DEF Held
  <2>7. StillOverdue(p)'
    BY <1>1, <1>2, <2>3, <2>5 DEF RunOK, StillOverdue
  <2>8. \A k : Todo(m, k) <=> Todo(r, k)
    BY <1>2, <2>3 DEF Todo
  <2>9. Named(p)'
    <3>1. \A k : Group(m, k) = Group(r, k)
      BY <2>3 DEF Group
    <3>2. ASSUME NEW k \in r.over, parted \cap Group(r, k) = {}
          PROVE  Todo(m, k) \/ k \in m.failed \/ kv[k] = None \/ kv[k].hook # m.seen[k]
      BY <1>1, <2>2, <2>3, <2>8, <3>2 DEF RunOK, Named
    <3> QED BY <1>2, <2>3, <2>5, <3>1, <3>2 DEF Named
  <2>10. OneEach(p)'
    BY <1>1, <2>3, <2>5 DEF RunOK, OneEach
  <2>11. Undisturbed(p)'
    <3> SUFFICES ASSUME m.alone PROVE Undisturbed(p)'
      BY <2>5 DEF Undisturbed
    <3>1. r.alone /\ r.pc # "idle"
      BY <1>2, <2>4
    <3>2. \A S : Sharing(m, S) = Sharing(r, S)
      BY <2>3 DEF Sharing
    <3> QED BY <1>1, <1>2, <2>3, <2>5, <2>8, <3>1, <3>2 DEF RunOK, Undisturbed
  <2>12. RunOK(p)'
    BY <2>6, <2>7, <2>9, <2>10, <2>11 DEF RunOK
  <2> QED BY <1>1, <1>2, <2>1, <2>3, <2>12, QuietStep
<1> QED BY <1>3, <1>4

\* The webhook that is created is one nobody has seen.
LEMMA MintStep ==
  ASSUME Inv, NEW p \in Pods, Mint(p)
  PROVE  Inv'
<1> DEFINE r == run[p]
           m == [r EXCEPT !.pc = "write", !.new = minted + 1]
<1>1. /\ TypeOK /\ RunOK(p) /\ r \in Run /\ r.reps \subseteq r.over /\ r.failed \subseteq r.over
      /\ r.over \subseteq Names /\ (r.pc \in {"mint", "write", "collect"} => r.name \in r.reps)
  BY DEF Inv, TypeOK, Run
<1>2. r.pc = "mint" /\ minted' = minted + 1 /\ UNCHANGED <<kv, mem>>
  BY DEF Mint
<1>3. minted' \in 0..MaxHooks /\ minted <= minted'
  BY <1>1, Numbers DEF Mint
<1>4. run' = [run EXCEPT ![p] = m]
  BY <1>1 DEF Mint, TypeOK
<1>5. /\ m \in Run /\ m.pc = "write" /\ m.over = r.over /\ m.seen = r.seen
      /\ m.reps = r.reps /\ m.name = r.name /\ m.new = minted + 1 /\ m.rotated = r.rotated
      /\ m.failed = r.failed /\ m.parted = r.parted
  BY <1>1, <1>2, <1>3 DEF Run
<1>6. m.alone => r.alone
  <2>1. m.alone = r.alone
    BY <1>1 DEF Run
  <2> QED BY <2>1
<1>7. run'[p] = m
  BY <1>1, <1>4 DEF TypeOK
<1> HIDE DEF m
<1>8. Held(p)'
  BY <1>1, <1>2, <1>5, <1>7 DEF RunOK, Held
<1>9. StillOverdue(p)'
  BY <1>1, <1>2, <1>5, <1>7 DEF RunOK, StillOverdue
<1>10. \A k : (Todo(m, k) <=> Todo(r, k)) /\ Group(m, k) = Group(r, k)
  BY <1>2, <1>5 DEF Todo, Group
<1>11. Named(p)'
  BY <1>1, <1>2, <1>5, <1>7, <1>10 DEF RunOK, Named
<1>12. OneEach(p)'
  BY <1>1, <1>5, <1>7 DEF RunOK, OneEach
<1>13. Undisturbed(p)'
  <2> SUFFICES ASSUME m.alone PROVE Undisturbed(p)'
    BY <1>7 DEF Undisturbed
  <2>1. r.alone /\ r.pc # "idle"
    BY <1>2, <1>6
  <2>2. \A S : Sharing(m, S) = Sharing(r, S)
    BY <1>5 DEF Sharing
  <2> QED BY <1>1, <1>2, <1>5, <1>7, <1>10, <2>1, <2>2 DEF RunOK, Undisturbed
<1>14. RunOK(p)'
  BY <1>8, <1>9, <1>11, <1>12, <1>13 DEF RunOK
<1> QED BY <1>1, <1>2, <1>3, <1>4, <1>5, <1>14, OwnStep

\* A rotation that fails before it writes changes nothing but the report.
LEMMA FailsStep ==
  ASSUME Inv, NEW p \in Pods, Fails(p)
  PROVE  Inv'
<1> DEFINE r == run[p]
           f == Failed(r, r.name)
<1>1. /\ TypeOK /\ RunOK(p) /\ r \in Run /\ r.reps \subseteq r.over /\ r.failed \subseteq r.over
      /\ r.over \subseteq Names /\ minted \in 0..MaxHooks /\ minted \in Nat
      /\ (r.pc \in {"mint", "write", "collect"} => r.name \in r.reps)
  BY Numbers DEF Inv, TypeOK, Run
<1>2. r.pc \in {"mint", "write"} /\ UNCHANGED <<kv, mem, minted>> /\ run' = [run EXCEPT ![p] = f]
  BY DEF Fails
<1>3. r.name \in r.reps
  BY <1>1, <1>2
<1>4. /\ f \in Run /\ f.pc = "next" /\ f.over = r.over /\ f.seen = r.seen
      /\ f.reps = r.reps \ {r.name} /\ f.name = None /\ f.new = 0
      /\ f.failed = r.failed \cup Group(r, r.name)
  BY <1>1, <1>3, FailedRun
<1>5. f.name \notin f.reps /\ f.failed \subseteq f.over
  BY <1>1, <1>4, NoneAssumption DEF Run, Group
<1>6. run'[p] = f
  BY <1>1, <1>2 DEF TypeOK
<1>7. RunOK(p)'
  BY <1>2, <1>3, <1>6, FailedKeeps
<1> HIDE DEF f
<1> QED BY <1>1, <1>2, <1>4, <1>5, <1>7, QuietStep

\* The report ends the rotation.
LEMMA ReportStep ==
  ASSUME Inv, NEW p \in Pods, Report(p)
  PROVE  Inv'
<1>1. TypeOK /\ minted \in 0..MaxHooks /\ minted \in Nat
  BY Numbers DEF Inv, TypeOK
<1>2. run' = [run EXCEPT ![p] = Idle] /\ UNCHANGED <<kv, mem, minted>>
  BY DEF Report
<1>3. run'[p] = Idle
  BY <1>1, <1>2 DEF TypeOK
<1>4. RunOK(p)'
  BY <1>3, IdleRun DEF RunOK, Held, StillOverdue, Named, OneEach, Undisturbed
<1> QED BY <1>1, <1>2, <1>4, IdleRun, QuietStep

\* The representative whose webhook is replaced leaves the loop; left alone, the
\* receivers that are now reported as rotated are the group it stood for.
LEMMA CollectStep ==
  ASSUME Inv, NEW p \in Pods, Collect(p)
  PROVE  Inv'
<1> DEFINE r == run[p]
           n == r.name
           fresh == IF mem[p][n] = None THEN {} ELSE On(mem[p], mem[p][n].hook)
           reps == r.reps \ {n}
           rotated == [k \in Names |-> r.rotated[k] + (IF k \in fresh THEN 1 ELSE 0)]
           m == [r EXCEPT !.pc = "next", !.reps = reps, !.name = None, !.new = 0,
                          !.rotated = rotated]
<1>1. /\ TypeOK /\ RunOK(p) /\ r \in Run /\ r.reps \subseteq r.over /\ r.failed \subseteq r.over
      /\ r.over \subseteq Names /\ (r.pc \in {"mint", "write", "collect"} => n \in r.reps)
  BY DEF Inv, TypeOK, Run
<1>2. /\ r.pc = "collect" /\ n \in r.reps /\ n \in r.over /\ n \in Names
      /\ UNCHANGED <<kv, mem, minted>>
  BY <1>1 DEF Collect
<1>3. run' = [run EXCEPT ![p] = m]
  BY <1>1 DEF Collect, Left, Run
<1>4. rotated \in [Names -> Nat] /\ reps \subseteq Names /\ 0 \in 0..MaxHooks
  <2>1. \A k \in Names : r.rotated[k] \in Nat
    BY <1>1 DEF Run
  <2>2. \A k \in Names : r.rotated[k] + (IF k \in fresh THEN 1 ELSE 0) \in Nat
    BY <2>1
  <2> QED BY <1>1, <2>2, Numbers
<1>5. \A k \in Names : rotated[k] = r.rotated[k] + (IF k \in fresh THEN 1 ELSE 0)
  OBVIOUS
<1> HIDE DEF rotated, reps
<1>6. /\ m \in Run /\ m.pc = "next" /\ m.over = r.over /\ m.seen = r.seen
      /\ m.reps = reps /\ m.name = None /\ m.new = 0 /\ m.rotated = rotated
      /\ m.failed = r.failed /\ m.parted = r.parted
  BY <1>1, <1>4 DEF Run
<1>7. m.alone => r.alone
  <2>1. m.alone = r.alone
    BY <1>1 DEF Run
  <2> QED BY <2>1
<1>8. run'[p] = m
  BY <1>1, <1>3 DEF TypeOK
<1> HIDE DEF m
<1>9. Held(p)'
  BY <1>6, <1>8 DEF Held
<1>10. StillOverdue(p)'
  BY <1>1, <1>2, <1>6, <1>8 DEF RunOK, StillOverdue
<1>11. \A k : (Todo(m, k) <=> Todo(r, k)) /\ Group(m, k) = Group(r, k)
  BY <1>2, <1>6 DEF Todo, Group, reps
<1>12. Named(p)'
  BY <1>1, <1>2, <1>6, <1>8, <1>11 DEF RunOK, Named
<1>13. OneEach(p)'
  BY <1>1, <1>6, <1>8 DEF RunOK, OneEach, reps
<1>14. Undisturbed(p)'
  <2> SUFFICES ASSUME m.alone PROVE Undisturbed(p)'
    BY <1>8 DEF Undisturbed
  <2>1. r.pc # "idle" /\ r.alone
    BY <1>2, <1>7
  <2>2. /\ Sharing(m, m.over) = Sharing(r, r.over) /\ Sharing(m, m.reps) = Sharing(r, m.reps)
        /\ Sharing(m, m.failed) = Sharing(r, r.failed)
    BY <1>6 DEF Sharing
  <2>3. /\ mem[p] = kv
        /\ \A k \in Names : kv[k] # None =>
             kv[k].hook = r.seen[k] \/ \A o \in Names : kv[k].hook # r.seen[o]
        /\ \A k \in Names \ Sharing(r, r.over) : r.rotated[k] = 0
    BY <1>1, <2>1 DEF RunOK, Undisturbed
  <2>4. \A k \in Sharing(r, r.reps) : r.rotated[k] = 0 /\ k \notin Sharing(r, r.failed)
    BY <1>1, <2>1 DEF RunOK, Undisturbed
  <2>5. \A k \in Names : Todo(r, k) => kv[k] # None /\ kv[k].hook = r.seen[k]
    BY <1>1, <2>1 DEF RunOK, Undisturbed
  <2>6. \A k \in Sharing(r, r.over) \ Sharing(r, r.reps) :
          IF k \in Sharing(r, r.failed) THEN r.rotated[k] = 0
          ELSE r.rotated[k] = 1 /\ kv[k] # None /\ ~kv[k].old
    BY <1>1, <2>1 DEF RunOK, Undisturbed
  <2>7. /\ kv[n] # None
        /\ \A k \in Names : k \in On(kv, kv[n].hook) <=> r.seen[k] = r.seen[n]
        /\ \A k \in On(kv, kv[n].hook) : ~kv[k].old
    BY <1>1, <1>2, <2>1 DEF RunOK, Undisturbed
  <2>8. \A k \in Names : k \in fresh <=> r.seen[k] = r.seen[n]
    BY <2>3, <2>7
  <2>9. \A k \in Names : rotated[k] = IF r.seen[k] = r.seen[n] THEN r.rotated[k] + 1 ELSE r.rotated[k]
    BY <1>1, <1>5, <2>8 DEF Run
  <2>10. \A k \in Names : k \in Sharing(r, r.reps) <=> k \in Sharing(r, reps) \/ r.seen[k] = r.seen[n]
    BY <1>2 DEF Sharing, reps
  <2>11. \A k \in Sharing(r, reps) : r.seen[k] # r.seen[n] /\ k \in Names
    BY <1>1, <1>2 DEF Sharing, RunOK, OneEach, reps
  <2>12. \A k \in Names : r.seen[k] = r.seen[n] => k \in Sharing(r, r.over)
    BY <1>2 DEF Sharing
  <2>13. \A k \in Names \ Sharing(m, m.over) : m.rotated[k] = 0
    BY <1>6, <2>2, <2>3, <2>9, <2>12
  <2>14. \A k \in Sharing(m, m.reps) : m.rotated[k] = 0 /\ k \notin Sharing(m, m.failed)
    BY <1>6, <2>2, <2>4, <2>9, <2>10, <2>11
  <2>15. \A k \in Sharing(m, m.over) \ Sharing(m, m.reps) :
           IF k \in Sharing(m, m.failed) THEN m.rotated[k] = 0
           ELSE m.rotated[k] = 1 /\ kv[k] # None /\ ~kv[k].old
    <3>1. SUFFICES ASSUME NEW k \in Sharing(r, r.over) \ Sharing(r, reps)
                   PROVE  IF k \in Sharing(r, r.failed) THEN rotated[k] = 0
                          ELSE rotated[k] = 1 /\ kv[k] # None /\ ~kv[k].old
      BY <1>6, <2>2
    <3>2. k \in Names
      BY DEF Sharing
    <3>3. CASE r.seen[k] = r.seen[n]
      <4>1. r.rotated[k] = 0 /\ k \notin Sharing(r, r.failed)
        BY <2>4, <2>10, <3>2, <3>3
      <4>2. rotated[k] = 1
        BY <2>9, <3>2, <3>3, <4>1
      <4>3. kv[k] # None /\ ~kv[k].old
        BY <2>7, <3>2, <3>3 DEF On
      <4> QED BY <4>1, <4>2, <4>3
    <3>4. CASE r.seen[k] # r.seen[n]
      <4>1. rotated[k] = r.rotated[k]
        BY <2>9, <3>2, <3>4
      <4> QED BY <2>6, <2>10, <3>2, <3>4, <4>1
    <3> QED BY <3>3, <3>4
  <2>16. \A k \in Names : Todo(m, k) => kv[k] # None /\ kv[k].hook = m.seen[k]
    BY <1>6, <1>11, <2>5
  <2>17. \A k \in Names : kv[k] # None =>
           kv[k].hook = m.seen[k] \/ \A o \in Names : kv[k].hook # m.seen[o]
    BY <1>6, <2>3
  <2>18. m.pc # "collect" /\ mem'[p] = kv' /\ kv' = kv
    BY <1>2, <1>6, <2>3
  <2> QED BY <1>8, <2>13, <2>14, <2>15, <2>16, <2>17, <2>18 DEF Undisturbed
<1>15. RunOK(p)'
  BY <1>9, <1>10, <1>12, <1>13, <1>14 DEF RunOK
<1>16. m.name \notin m.reps /\ m.reps \subseteq m.over /\ m.failed \subseteq m.over
  BY <1>1, <1>6, NoneAssumption DEF Run, reps
<1> QED BY <1>2, <1>3, <1>6, <1>15, <1>16, QuietStep

\* Each webhook with an overdue receiver has exactly one representative.
LEMMA OneOfEach ==
  ASSUME NEW list \in Lists, NEW over \in SUBSET Names, NEW R \in Representatives(over, list),
         \A n \in over : list[n] # None
  PROVE  /\ R \subseteq over
         /\ \A n \in over : \E m \in R : list[m] # None /\ list[m].hook = list[n].hook
         /\ \A m, n \in R : list[m].hook = list[n].hook => m = n
<1>1. R \subseteq over
  BY DEF Representatives
<1>2. ASSUME NEW n \in over
      PROVE  \E m \in Names : R \cap On(list, list[n].hook) = {m}
  <2>1. Cardinality(R \cap On(list, list[n].hook)) = 1
    BY DEF Representatives
  <2>2. IsFiniteSet(R \cap On(list, list[n].hook))
    <3>1. R \cap On(list, list[n].hook) \subseteq Names
      BY DEF On
    <3> QED BY <3>1, BulkRotationAssumption, FS_Subset
  <2>3. \E m : R \cap On(list, list[n].hook) = {m}
    BY <2>1, <2>2, FS_Singleton
  <2> QED BY <2>3 DEF On
<1>3. ASSUME NEW n \in over
      PROVE  \E m \in R : list[m] # None /\ list[m].hook = list[n].hook
  BY <1>2, <1>3 DEF On
<1>4. ASSUME NEW m \in R, NEW n \in R, list[m].hook = list[n].hook
      PROVE  m = n
  <2>1. m \in over /\ n \in over /\ list[m] # None /\ list[n] # None
    BY <1>1
  <2>2. m \in R \cap On(list, list[n].hook) /\ n \in R \cap On(list, list[n].hook)
    BY <1>4, <2>1 DEF On
  <2> QED BY <1>2, <2>1, <2>2
<1> QED BY <1>1, <1>3, <1>4

\* What is looked up is overdue: if it is stored under the same webhook, it is the
\* same entry.
LEMMA DetectStep ==
  ASSUME Inv, NEW p \in Pods, Detect(p)
  PROVE  Inv'
<1> DEFINE over == Overdue(mem[p])
           seen == HooksOf(mem[p])
<1>1. TypeOK /\ Coherent /\ mem[p] \in Lists /\ minted \in 0..MaxHooks /\ minted \in Nat /\ MaxHooks \in Nat
  BY Numbers DEF Inv, TypeOK
<1>2. PICK R \in Representatives(over, mem[p]) :
        run' = [run EXCEPT ![p] = [Idle EXCEPT !.pc = "next", !.over = over, !.reps = R,
                                               !.seen = seen, !.alone = (mem[p] = kv)]]
  BY DEF Detect
<1>3. UNCHANGED <<kv, mem, minted>>
  BY DEF Detect
<1>4. /\ over \in SUBSET Names
      /\ \A n \in over : mem[p][n] # None /\ mem[p][n].on /\ mem[p][n].old
  BY DEF Overdue
<1>5. \A n \in Names : IF mem[p][n] = None THEN seen[n] = 0
                       ELSE seen[n] = mem[p][n].hook /\ seen[n] >= 1
  BY <1>1, Numbers DEF HooksOf
<1>6. seen \in [Names -> 0..MaxHooks]
  <2>1. \A n \in Names : mem[p][n] # None => mem[p][n].hook \in 0..MaxHooks
    BY <1>1, ListEntries
  <2> QED BY <1>1, <2>1 DEF HooksOf
<1>7. /\ R \subseteq over
      /\ \A n \in over : \E k \in R : mem[p][k] # None /\ mem[p][k].hook = mem[p][n].hook
      /\ \A k, n \in R : mem[p][k].hook = mem[p][n].hook => k = n
  BY <1>1, <1>2, <1>4, OneOfEach
<1> DEFINE alone == mem[p] = kv
           m == [Idle EXCEPT !.pc = "next", !.over = over, !.reps = R, !.seen = seen,
                             !.alone = alone]
<1>8. alone \in BOOLEAN /\ run' = [run EXCEPT ![p] = m]
  BY <1>2
<1>9. alone => mem[p] = kv
  OBVIOUS
<1> HIDE DEF over, seen, alone
<1>10. /\ m \in Run /\ m.pc = "next" /\ m.over = over /\ m.seen = seen /\ m.reps = R
       /\ m.name = None /\ m.new = 0 /\ m.rotated = Idle.rotated /\ m.failed = {}
       /\ m.parted = {}
  <2>1. R \in SUBSET Names
    BY <1>4, <1>7
  <2> QED BY <1>4, <1>6, <1>8, <2>1, IdleRun DEF Run
<1>11. m.alone => mem[p] = kv
  <2>1. m.alone = alone
    BY DEF Idle
  <2> QED BY <1>9, <2>1
<1>12. run'[p] = m
  BY <1>1, <1>8 DEF TypeOK
<1> HIDE DEF m
<1>13. \A n \in over : Todo(m, n)
  BY <1>4, <1>5, <1>7, <1>10 DEF Todo
<1>14. Held(p)'
  BY <1>10, <1>12 DEF Held
<1>15. StillOverdue(p)'
  <2>1. ASSUME NEW n \in over
        PROVE  seen[n] >= 1 /\ (kv[n] # None /\ kv[n].hook = seen[n] => kv[n].on /\ kv[n].old)
    <3>1. n \in Names /\ mem[p][n] # None /\ mem[p][n].on /\ mem[p][n].old
      BY <1>4
    <3>2. seen[n] = mem[p][n].hook /\ seen[n] >= 1
      BY <1>5, <3>1
    <3>3. kv[n] # None /\ kv[n].hook = seen[n] => mem[p][n] = kv[n]
      BY <1>1, <3>1, <3>2 DEF Coherent
    <3> QED BY <3>1, <3>2, <3>3
  <2> QED BY <1>3, <1>10, <1>12, <2>1 DEF StillOverdue
<1>16. Named(p)'
  BY <1>10, <1>12, <1>13 DEF Named
<1>17. OneEach(p)'
  BY <1>4, <1>5, <1>7, <1>10, <1>12 DEF OneEach
<1>18. Undisturbed(p)'
  <2> SUFFICES ASSUME m.alone PROVE Undisturbed(p)'
    BY <1>12 DEF Undisturbed
  <2>1. mem[p] = kv
    BY <1>11
  <2>2. \A n \in Names : kv[n] # None => kv[n].hook = m.seen[n]
    BY <1>5, <1>10, <2>1
  <2>3. \A n \in Names : m.rotated[n] = 0
    BY <1>10 DEF Idle
  <2>4. Sharing(m, m.failed) = {}
    BY <1>10 DEF Sharing
  <2>5. \A n \in Names : Todo(m, n) => kv[n] # None /\ kv[n].hook = m.seen[n]
    BY <1>4, <1>5, <1>7, <1>10, <2>1 DEF Todo
  <2>6. Sharing(m, m.over) \subseteq Sharing(m, m.reps)
    BY <1>4, <1>10, <1>13 DEF Sharing, Todo
  <2>7. Sharing(m, m.reps) \subseteq Names
    BY DEF Sharing
  <2>8. m.pc # "collect" /\ mem'[p] = kv' /\ kv' = kv
    BY <1>3, <1>10, <2>1
  <2> QED BY <1>12, <2>2, <2>3, <2>4, <2>5, <2>6, <2>7, <2>8 DEF Undisturbed
<1>19. RunOK(p)'
  BY <1>14, <1>15, <1>16, <1>17, <1>18 DEF RunOK
<1>20. \A n \in Names : \/ m.seen[n] = 0
                        \/ mem[p][n] # None /\ m.seen[n] = mem[p][n].hook
  BY <1>5, <1>10
<1>21. m.name \notin m.reps /\ m.reps \subseteq m.over /\ m.failed \subseteq m.over
  BY <1>4, <1>7, <1>10, NoneAssumption
<1> QED BY <1>3, <1>8, <1>10, <1>19, <1>20, <1>21, QuietStep

\* The list with a new webhook for whoever has the old one.
LEMMA RepointedList ==
  ASSUME TypeOK, NEW old, NEW h \in 1..MaxHooks
  PROVE  LET list == Repointed(kv, old, h) IN
         /\ list \in Lists /\ Changes(list, h)
         /\ \A n \in On(kv, old) : list[n] \in Entry /\ list[n].hook = h /\ ~list[n].old
         /\ \A n \in Names \ On(kv, old) : list[n] = kv[n]
<1> DEFINE list == Repointed(kv, old, h)
<1>1. ASSUME NEW n \in Names, n \in On(kv, old)
      PROVE  list[n] \in Entry /\ list[n].hook = h /\ ~list[n].old
  <2>1. kv[n] \in Entry
    BY <1>1, ListEntries DEF On, TypeOK
  <2>2. list[n] = [kv[n] EXCEPT !.hook = h, !.old = FALSE]
    BY <1>1 DEF Repointed
  <2> HIDE DEF list
  <2>3. list[n] \in Entry /\ list[n].hook = h
    BY <2>1, <2>2 DEF Entry
  <2>4. ~list[n].old
    BY <2>1, <2>2 DEF Entry
  <2> QED BY <2>3, <2>4
<1>2. ASSUME NEW n \in Names, n \notin On(kv, old)
      PROVE  list[n] = kv[n]
  BY <1>2 DEF Repointed
<1>3. list \in [Names -> Entry \cup {None}]
  <2>1. \A n \in Names : list[n] \in Entry \cup {None}
    BY <1>1, <1>2 DEF TypeOK, Lists
  <2>2. list = [n \in Names |-> list[n]]
    BY DEF Repointed
  <2> HIDE DEF list
  <2>3. [n \in Names |-> list[n]] \in [Names -> Entry \cup {None}]
    BY <2>1
  <2> QED BY <2>2, <2>3
<1> HIDE DEF list
<1>4. Changes(list, h)
  BY <1>1, <1>2 DEF Changes
<1>5. /\ \A n \in On(kv, old) : list[n] \in Entry /\ list[n].hook = h /\ ~list[n].old
      /\ \A n \in Names \ On(kv, old) : list[n] = kv[n]
  BY <1>1, <1>2 DEF On
<1>6. list \in Lists
  BY <1>3 DEF Lists
<1> QED BY <1>4, <1>5, <1>6 DEF list

\* A command on a pod whose mutex is free writes its list: it disturbs every bulk
\* rotation, its own pod's too.
LEMMA CommandStep ==
  ASSUME Inv, NEW p \in Pods, Free(p), NEW list \in Lists, NEW h, Commit(p, list),
         Changes(list, h), Fresh(h), \A q \in Pods : run[q].new # h,
         minted' \in 0..MaxHooks, minted <= minted',
         \A n \in Names : list[n] # None => list[n].hook <= minted',
         run' = [q \in Pods |-> [run[q] EXCEPT !.alone = FALSE]]
  PROVE  Inv'
<1>1. TypeOK
  BY DEF Inv
<1>2. ASSUME NEW q \in Pods
      PROVE  /\ run'[q] \in Run /\ run'[q] = [run[q] EXCEPT !.alone = FALSE]
             /\ run'[q].pc = run[q].pc /\ run'[q].over = run[q].over /\ run'[q].seen = run[q].seen
             /\ run'[q].reps = run[q].reps /\ run'[q].name = run[q].name
             /\ run'[q].new = run[q].new /\ run'[q].failed = run[q].failed
  <2>1. run[q] \in Run
    BY <1>1 DEF TypeOK
  <2> QED BY <2>1, UnaloneRun
<1>3. kv' = list /\ mem' = [mem EXCEPT ![p] = list] /\ mem'[p] = list
      /\ \A q \in Pods : q # p => mem'[q] = mem[q]
  BY <1>1 DEF Commit, TypeOK
<1>4. TypeOK'
  <2>1. mem' \in [Pods -> Lists] /\ kv' \in Lists
    BY <1>1, <1>3 DEF TypeOK
  <2>2. run' \in [Pods -> Run]
    BY <1>2
  <2>3. \A q \in Pods : LET o == run'[q] IN
          /\ o.reps \subseteq o.over /\ o.failed \subseteq o.over
          /\ o.pc \in {"mint", "write", "collect"} <=> o.name \in o.reps
    BY <1>1, <1>2 DEF TypeOK
  <2> QED BY <2>1, <2>2, <2>3 DEF TypeOK
<1>5. Bounded' /\ Coherent' /\ NewIsFresh'
  <2>1. minted' \in Nat
    BY <1>1, Numbers
  <2>2. \A q \in Pods : Writing(q)' => Writing(q) /\ run'[q].new = run[q].new /\ run[q].new # h
    BY <1>2 DEF Writing
  <2> QED BY <1>2, <2>1, <2>2, CommitShared
<1>6. ASSUME NEW q \in Pods PROVE RunOK(q)'
  <2>1. mem'[q] = mem[q] \/ run[q].pc \notin {"mint", "write"}
    BY <1>3 DEF Free
  <2> QED BY <1>2, <1>3, <2>1, OtherRun
<1> QED BY <1>4, <1>5, <1>6 DEF Inv

\* remove: no new webhook comes into the list.
LEMMA RemoveStep ==
  ASSUME Inv, NEW p \in Pods, NEW n \in Names, Remove(p, n)
  PROVE  Inv'
<1> DEFINE list == [kv EXCEPT ![n] = None]
           h == minted + 1
<1>1. TypeOK /\ Bounded /\ minted \in Nat /\ minted' = minted /\ minted' \in 0..MaxHooks
  BY Numbers DEF Inv, TypeOK, Remove
<1>2. list \in Lists /\ \A k \in Names : list[k] = IF k = n THEN None ELSE kv[k]
  BY <1>1 DEF TypeOK, Lists
<1>3. Free(p) /\ Commit(p, list) /\ run' = [q \in Pods |-> [run[q] EXCEPT !.alone = FALSE]]
  BY DEF Remove
<1>4. Fresh(h) /\ \A q \in Pods : run[q].new # h
  BY <1>1, NextIsFresh
<1> HIDE DEF list
<1>5. Changes(list, h)
  BY <1>2 DEF Changes
<1>6. \A k \in Names : list[k] # None => list[k].hook <= minted'
  BY <1>1, <1>2 DEF Bounded
<1>7. minted <= minted'
  BY <1>1
<1> HIDE DEF h
<1> QED BY <1>1, <1>2, <1>3, <1>4, <1>5, <1>6, <1>7, CommandStep

\* add: the new receiver has a webhook of its own.
LEMMA AddStep ==
  ASSUME Inv, NEW p \in Pods, NEW n \in Names, Add(p, n)
  PROVE  Inv'
<1> DEFINE h == minted + 1
           e == [hook |-> h, on |-> TRUE, old |-> FALSE]
           list == [kv EXCEPT ![n] = e]
<1>1. TypeOK /\ Bounded /\ minted \in Nat /\ minted' = minted + 1
  BY Numbers DEF Inv, Add
<1>2. h \in 1..MaxHooks /\ minted' \in 0..MaxHooks /\ minted <= minted'
  BY <1>1, Numbers DEF Add
<1>3. e \in Entry /\ e.hook = h
  BY <1>2 DEF Entry
<1>4. Free(p) /\ Commit(p, list) /\ run' = [q \in Pods |-> [run[q] EXCEPT !.alone = FALSE]]
  BY DEF Add
<1>5. Fresh(h) /\ \A q \in Pods : run[q].new # h
  BY <1>1, NextIsFresh
<1> HIDE DEF e
<1>6. list \in Lists /\ \A k \in Names : list[k] = IF k = n THEN e ELSE kv[k]
  BY <1>1, <1>3 DEF TypeOK, Lists
<1> HIDE DEF list
<1>7. Changes(list, h)
  BY <1>3, <1>6 DEF Changes
<1>8. \A k \in Names : list[k] # None => list[k].hook <= minted'
  <2>1. ASSUME NEW k \in Names, list[k] # None PROVE list[k].hook <= minted'
    <3>1. CASE k = n
      BY <1>1, <1>3, <1>6, <3>1
    <3>2. CASE k # n
      <4>1. kv[k].hook <= minted /\ kv[k].hook \in Nat /\ list[k] = kv[k]
        BY <1>1, <1>6, <2>1, <3>2, Numbers DEF Bounded
      <4> QED BY <1>1, <4>1
    <3> QED BY <3>1, <3>2
  <2> QED BY <2>1
<1> HIDE DEF h
<1> QED BY <1>2, <1>4, <1>5, <1>6, <1>7, <1>8, CommandStep

\* rotate: the receivers of one webhook get a new one.
LEMMA RotateStep ==
  ASSUME Inv, NEW p \in Pods, NEW n \in Names, Rotate(p, n)
  PROVE  Inv'
<1> DEFINE h == minted + 1
           old == mem[p][n].hook
           list == Repointed(kv, old, h)
<1>1. TypeOK /\ Bounded /\ minted \in Nat /\ minted' = minted + 1
  BY Numbers DEF Inv, Rotate
<1>2. h \in 1..MaxHooks /\ minted' \in 0..MaxHooks /\ minted <= minted'
  BY <1>1, Numbers DEF Rotate
<1>3. Free(p) /\ Commit(p, list) /\ run' = [q \in Pods |-> [run[q] EXCEPT !.alone = FALSE]]
  BY DEF Rotate
<1>4. Fresh(h) /\ \A q \in Pods : run[q].new # h
  BY <1>1, NextIsFresh
<1>5. /\ list \in Lists /\ Changes(list, h)
      /\ \A k \in Names : list[k] = kv[k] \/ list[k].hook = h
  BY <1>1, <1>2, RepointedList
<1> HIDE DEF list, old
<1>6. \A k \in Names : list[k] # None => list[k].hook <= minted'
  <2>1. ASSUME NEW k \in Names, list[k] # None PROVE list[k].hook <= minted'
    <3>1. CASE list[k].hook = h
      BY <1>1, <3>1
    <3>2. CASE list[k] = kv[k]
      <4>1. kv[k].hook <= minted /\ kv[k].hook \in Nat
        BY <1>1, <2>1, <3>2, Numbers DEF Bounded
      <4> QED BY <1>1, <3>2, <4>1
    <3> QED BY <1>5, <3>1, <3>2
  <2> QED BY <2>1
<1> HIDE DEF h
<1> QED BY <1>2, <1>3, <1>4, <1>5, <1>6, CommandStep

\* A reload brings a copy up to date while its pod holds no mutex.
LEMMA ReloadStep ==
  ASSUME Inv, NEW p \in Pods, Reload(p)
  PROVE  Inv'
<1>1. TypeOK /\ Bounded /\ Coherent /\ NewIsFresh /\ \A q \in Pods : RunOK(q)
  BY DEF Inv
<1>2. /\ Free(p) /\ kv' = kv /\ minted' = minted /\ run' = run /\ mem' = [mem EXCEPT ![p] = kv]
      /\ mem'[p] = kv /\ \A q \in Pods : q # p => mem'[q] = mem[q]
  BY <1>1 DEF Reload, TypeOK
<1>3. TypeOK'
  BY <1>1, <1>2 DEF TypeOK
<1>4. Bounded'
  BY <1>1, <1>2 DEF Bounded
<1>5. Coherent'
  BY <1>1, <1>2 DEF Coherent
<1>7. NewIsFresh'
  <2>1. ASSUME NEW q \in Pods, Writing(q)
        PROVE  /\ run[q].new >= 1 /\ Fresh(run[q].new)'
               /\ \A o \in Pods : Writing(o) /\ o # q => run[o].new # run[q].new
    <3>1. Fresh(run[q].new)
      BY <1>1, <2>1 DEF NewIsFresh
    <3>2. Fresh(run[q].new)'
      BY <1>2, <3>1 DEF Fresh
    <3> QED BY <1>1, <2>1, <3>2 DEF NewIsFresh
  <2> QED BY <1>2, <2>1 DEF NewIsFresh, Writing
<1>8. ASSUME NEW q \in Pods PROVE RunOK(q)'
  <2>1. Held(q)'
    BY <1>1, <1>2 DEF RunOK, Held, Free
  <2>2. StillOverdue(q)' /\ Named(q)' /\ OneEach(q)'
    BY <1>1, <1>2 DEF RunOK, StillOverdue, Named, OneEach
  <2>3. Undisturbed(q)'
    BY <1>1, <1>2 DEF RunOK, Undisturbed
  <2> QED BY <2>1, <2>2, <2>3 DEF RunOK
<1> QED BY <1>3, <1>4, <1>5, <1>7, <1>8 DEF Inv

\* The group of a representative leaves the webhook it was seen with: what it has in
\* the list from now on nobody has seen.
LEMMA WriteRun ==
  ASSUME Inv, NEW p \in Pods, Writing(p), NEW list \in Lists, NEW old, NEW h \in 1..MaxHooks,
         old = mem[p][run[p].name].hook, h = run[p].new,
         \A n \in On(kv, old) : list[n] \in Entry /\ list[n].hook = h /\ ~list[n].old,
         \A n \in Names \ On(kv, old) : list[n] = kv[n],
         kv' = list, mem'[p] = list, On(kv, old) # {},
         run'[p] = [run[p] EXCEPT !.pc = "collect"]
  PROVE  RunOK(p)'
<1> DEFINE r == run[p]
           n == r.name
           m == run'[p]
<1>1. /\ TypeOK /\ RunOK(p) /\ NewIsFresh /\ r \in Run /\ r.reps \subseteq r.over
      /\ r.failed \subseteq r.over /\ r.over \subseteq Names
      /\ (r.pc \in {"mint", "write", "collect"} => n \in r.reps)
  BY DEF Inv, TypeOK, Run
<1>2. r.pc = "write" /\ n \in r.reps /\ n \in r.over /\ n \in Names
  BY <1>1 DEF Writing
<1>3. /\ m.pc = "collect" /\ m.over = r.over /\ m.seen = r.seen /\ m.reps = r.reps
      /\ m.name = n /\ m.rotated = r.rotated /\ m.failed = r.failed /\ m.parted = r.parted
  BY <1>1 DEF Run
<1>4. m.alone => r.alone
  <2>1. m.alone = r.alone
    BY <1>1 DEF Run
  <2> QED BY <2>1
<1>5. /\ \A k \in Names : h # r.seen[k]
      /\ \A k \in Names : kv[k] # None => kv[k].hook # h
  BY <1>1 DEF NewIsFresh, Fresh
<1>6. /\ \A k \in On(kv, old) : list[k] \in Entry /\ list[k].hook = h /\ ~list[k].old
      /\ \A k \in Names \ On(kv, old) : list[k] = kv[k]
  OBVIOUS
<1>7. Held(p)'
  BY <1>3 DEF Held
<1>8. StillOverdue(p)'
  BY <1>1, <1>3, <1>5, <1>6 DEF RunOK, StillOverdue
<1>9. \A k : Todo(m, k) <=> \E o \in r.reps : o # n /\ r.seen[o] = r.seen[k]
  BY <1>3 DEF Todo
<1>10. \A k : Todo(r, k) <=> \E o \in r.reps : r.seen[o] = r.seen[k]
  BY <1>2 DEF Todo
<1>11. Named(p)'
  <2>1. ASSUME NEW k \in r.over, r.parted \cap Group(r, k) = {}
        PROVE  Todo(m, k) \/ k \in r.failed \/ list[k] = None \/ list[k].hook # r.seen[k]
    <3>1. CASE k \in On(kv, old)
      BY <1>1, <1>5, <1>6, <3>1
    <3>2. CASE k \notin On(kv, old)
      <4>1. list[k] = kv[k] /\ k \in Names
        BY <1>1, <1>6, <3>2
      <4>2. Todo(r, k) \/ k \in r.failed \/ kv[k] = None \/ kv[k].hook # r.seen[k]
        BY <1>1, <2>1 DEF RunOK, Named
      <4>3. CASE r.seen[n] = r.seen[k]
        <5>1. n \in Group(r, k)
          BY <1>2, <4>3 DEF Group
        <5>2. n \notin r.parted
          BY <2>1, <5>1
        <5>3. old = r.seen[k]
          BY <1>1, <1>2, <4>3, <5>2 DEF RunOK, Held
        <5> QED BY <3>2, <4>1, <5>3 DEF On
      <4>4. CASE r.seen[n] # r.seen[k]
        <5>1. Todo(r, k) => Todo(m, k)
          BY <1>9, <1>10, <4>4
        <5> QED BY <4>1, <4>2, <5>1
      <4> QED BY <4>3, <4>4
    <3> QED BY <3>1, <3>2
  <2>2. \A k : Group(m, k) = Group(r, k)
    BY <1>3 DEF Group
  <2> QED BY <1>3, <2>1, <2>2 DEF Named
<1>12. OneEach(p)'
  BY <1>1, <1>3 DEF RunOK, OneEach
<1>13. Undisturbed(p)'
  <2> SUFFICES ASSUME m.alone PROVE Undisturbed(p)'
    BY DEF Undisturbed
  <2>1. r.pc # "idle" /\ r.alone
    BY <1>2, <1>4
  <2>2. /\ Sharing(m, m.over) = Sharing(r, r.over) /\ Sharing(m, m.reps) = Sharing(r, r.reps)
        /\ Sharing(m, m.failed) = Sharing(r, r.failed)
    BY <1>3 DEF Sharing
  <2>3. /\ mem[p] = kv
        /\ \A k \in Names : kv[k] # None =>
             kv[k].hook = r.seen[k] \/ \A o \in Names : kv[k].hook # r.seen[o]
        /\ \A k \in Names \ Sharing(r, r.over) : r.rotated[k] = 0
    BY <1>1, <2>1 DEF RunOK, Undisturbed
  <2>4. \A k \in Sharing(r, r.reps) : r.rotated[k] = 0 /\ k \notin Sharing(r, r.failed)
    BY <1>1, <2>1 DEF RunOK, Undisturbed
  <2>5. \A k \in Names : Todo(r, k) => kv[k] # None /\ kv[k].hook = r.seen[k]
    BY <1>1, <2>1 DEF RunOK, Undisturbed
  <2>6. \A k \in Sharing(r, r.over) \ Sharing(r, r.reps) :
          IF k \in Sharing(r, r.failed) THEN r.rotated[k] = 0
          ELSE r.rotated[k] = 1 /\ kv[k] # None /\ ~kv[k].old
    BY <1>1, <2>1 DEF RunOK, Undisturbed
  <2>7. Todo(r, n)
    BY <1>2, <1>10
  <2>8. old = r.seen[n] /\ kv[n] # None
    BY <1>2, <2>3, <2>5, <2>7
  <2>9. \A k \in Names : k \in On(kv, old) <=> r.seen[k] = r.seen[n]
    <3>1. ASSUME NEW k \in Names, k \in On(kv, old) PROVE r.seen[k] = r.seen[n]
      BY <1>2, <2>3, <2>8, <3>1 DEF On
    <3>2. ASSUME NEW k \in Names, r.seen[k] = r.seen[n] PROVE k \in On(kv, old)
      <4>1. Todo(r, k)
        BY <1>2, <1>10, <3>2
      <4> QED BY <2>5, <2>8, <3>2, <4>1 DEF On
    <3> QED BY <3>1, <3>2
  <2>10. \A k \in Names : k \in On(list, h) <=> r.seen[k] = r.seen[n]
    <3>1. ASSUME NEW k \in Names, k \in On(kv, old) PROVE k \in On(list, h)
      BY <1>6, <3>1, NoneAssumption DEF On
    <3>2. ASSUME NEW k \in Names, k \notin On(kv, old) PROVE k \notin On(list, h)
      BY <1>5, <1>6, <3>2 DEF On
    <3> QED BY <2>9, <3>1, <3>2
  <2>11. list[n] # None /\ list[n].hook = h /\ \A k \in On(list, h) : ~list[k].old
    <3>1. \A k \in Names : r.seen[k] = r.seen[n] => list[k] # None /\ list[k].hook = h /\ ~list[k].old
      BY <1>6, <2>9, NoneAssumption
    <3> QED BY <1>2, <2>10, <3>1 DEF On
  <2>12. \A k \in Names : list[k] # None =>
            list[k].hook = m.seen[k] \/ \A o \in Names : list[k].hook # m.seen[o]
    <3>1. ASSUME NEW k \in Names, list[k] # None
          PROVE  list[k].hook = m.seen[k] \/ \A o \in Names : list[k].hook # m.seen[o]
      <4>1. CASE k \in On(kv, old)
        <5>1. list[k].hook = h
          BY <1>6, <4>1
        <5>2. \A o \in Names : h # m.seen[o]
          BY <1>3, <1>5
        <5> QED BY <5>1, <5>2
      <4>2. CASE k \notin On(kv, old)
        <5>1. list[k] = kv[k]
          BY <1>6, <4>2
        <5>2. kv[k].hook = r.seen[k] \/ \A o \in Names : kv[k].hook # r.seen[o]
          BY <2>3, <3>1, <5>1
        <5>3. kv[k].hook = m.seen[k] \/ \A o \in Names : kv[k].hook # m.seen[o]
          BY <1>3, <5>2
        <5> QED BY <5>1, <5>3
      <4> QED BY <4>1, <4>2
    <3> QED BY <3>1
  <2>13. \A k \in Names : Todo(m, k) => list[k] # None /\ list[k].hook = m.seen[k]
    <3>1. ASSUME NEW k \in Names, Todo(m, k) PROVE list[k] # None /\ list[k].hook = m.seen[k]
      <4>1. PICK o \in r.reps : o # n /\ r.seen[o] = r.seen[k]
        BY <1>9, <3>1
      <4>2. r.seen[k] # r.seen[n]
        BY <1>1, <1>2, <4>1 DEF RunOK, OneEach
      <4>3. list[k] = kv[k]
        BY <1>6, <2>9, <4>2
      <4>4. Todo(r, k)
        BY <1>10, <4>1
      <4> QED BY <1>3, <2>5, <4>3, <4>4
    <3> QED BY <3>1
  <2>14. \A k \in Sharing(m, m.over) \ Sharing(m, m.reps) :
           IF k \in Sharing(m, m.failed) THEN m.rotated[k] = 0
           ELSE m.rotated[k] = 1 /\ list[k] # None /\ ~list[k].old
    <3>1. ASSUME NEW k \in Sharing(r, r.over) \ Sharing(r, r.reps)
          PROVE  IF k \in Sharing(r, r.failed) THEN r.rotated[k] = 0
                 ELSE r.rotated[k] = 1 /\ list[k] # None /\ ~list[k].old
      <4>1. k \in Names /\ r.seen[k] # r.seen[n]
        BY <1>2 DEF Sharing
      <4>2. list[k] = kv[k]
        BY <1>6, <2>9, <4>1
      <4> QED BY <2>6, <4>2
    <3> DEFINE failed == Sharing(r, r.failed)
               rotated == r.rotated
               left == Sharing(r, r.over) \ Sharing(r, r.reps)
    <3>2. /\ Sharing(m, m.over) \ Sharing(m, m.reps) = left /\ Sharing(m, m.failed) = failed
          /\ m.rotated = rotated
      BY <1>3, <2>2
    <3>3. \A k \in left : IF k \in failed THEN rotated[k] = 0
                         ELSE rotated[k] = 1 /\ list[k] # None /\ ~list[k].old
      BY <3>1
    <3> HIDE DEF failed, rotated, left
    <3> QED BY <3>2, <3>3, Zenon
  <2>15. /\ \A k \in Names \ Sharing(m, m.over) : m.rotated[k] = 0
         /\ \A k \in Sharing(m, m.reps) : m.rotated[k] = 0 /\ k \notin Sharing(m, m.failed)
    BY <1>3, <2>2, <2>3, <2>4
  <2>16. /\ list[m.name] # None
         /\ \A k \in Names : k \in On(list, list[m.name].hook) <=> m.seen[k] = m.seen[m.name]
         /\ \A k \in On(list, list[m.name].hook) : ~list[k].old
    BY <1>3, <2>10, <2>11
  <2> QED BY <2>12, <2>13, <2>14, <2>15, <2>16 DEF Undisturbed
<1> QED BY <1>7, <1>8, <1>11, <1>12, <1>13 DEF RunOK

\* The write of a bulk rotation disturbs the others. If no receiver uses the old webhook
\* any more, the list stays as it is and the group has failed.
LEMMA WriteStep ==
  ASSUME Inv, NEW p \in Pods, Write(p)
  PROVE  Inv'
<1> DEFINE r == run[p]
           n == r.name
           old == mem[p][n].hook
           h == r.new
           list == Repointed(kv, old, h)
           m == IF On(kv, old) = {} THEN Failed(r, n) ELSE [r EXCEPT !.pc = "collect"]
<1>1. /\ TypeOK /\ Bounded /\ NewIsFresh /\ r \in Run /\ r.reps \subseteq r.over
      /\ r.failed \subseteq r.over /\ r.over \subseteq Names
      /\ (r.pc \in {"mint", "write", "collect"} => n \in r.reps)
  BY DEF Inv, TypeOK, Run
<1>2. /\ Writing(p) /\ n \in r.reps /\ n \in r.over /\ Commit(p, list) /\ minted' = minted
      /\ run' = [Disturb(p) EXCEPT ![p] = m]
  BY <1>1 DEF Write, Writing
<1>3. /\ h \in 1..MaxHooks /\ Fresh(h) /\ h <= minted /\ minted \in Nat /\ minted' \in Nat
      /\ minted <= minted' /\ minted' \in 0..MaxHooks
  BY <1>1, <1>2, Numbers DEF NewIsFresh, Bounded
<1>4. /\ list \in Lists /\ Changes(list, h)
      /\ \A k \in On(kv, old) : list[k] \in Entry /\ list[k].hook = h /\ ~list[k].old
      /\ \A k \in Names \ On(kv, old) : list[k] = kv[k]
  BY <1>1, <1>3, RepointedList
<1>5. /\ run'[p] = m
      /\ \A q \in Pods : q # p => run'[q] = [run[q] EXCEPT !.alone = FALSE]
  BY <1>2 DEF Disturb
<1>6. kv' = list /\ mem' = [mem EXCEPT ![p] = list] /\ mem'[p] = list
      /\ \A q \in Pods : q # p => mem'[q] = mem[q]
  BY <1>1, <1>2 DEF Commit, TypeOK
<1>7. On(kv, old) = {} => list = kv
  <2>1. ASSUME On(kv, old) = {} PROVE Repointed(kv, old, h) = kv
    <3>1. Repointed(kv, old, h) = [k \in Names |-> kv[k]]
      BY <2>1 DEF Repointed
    <3> QED BY <1>1, <3>1 DEF TypeOK, Lists
  <2> QED BY <2>1
<1>8. /\ m \in Run /\ m.seen = r.seen /\ m.pc # "write" /\ (m.new = r.new \/ m.new = 0)
      /\ m.over = r.over /\ m.reps \subseteq m.over /\ m.failed \subseteq m.over
      /\ (m.pc \in {"mint", "write", "collect"} <=> m.name \in m.reps)
  <2>1. CASE On(kv, old) = {}
    <3> DEFINE f == Failed(r, n)
    <3>1. /\ f \in Run /\ f.pc = "next" /\ f.over = r.over /\ f.seen = r.seen
          /\ f.reps = r.reps \ {n} /\ f.name = None /\ f.new = 0
          /\ f.failed = r.failed \cup Group(r, n)
      BY <1>1, <1>2, FailedRun
    <3>2. f.name \notin f.reps /\ f.failed \subseteq f.over
      BY <1>1, <3>1, NoneAssumption DEF Run, Group
    <3>3. m = f
      BY <2>1
    <3> HIDE DEF f, m
    <3> QED BY <1>1, <3>1, <3>2, <3>3
  <2>2. CASE On(kv, old) # {}
    <3> DEFINE c == [r EXCEPT !.pc = "collect"]
    <3>1. /\ c \in Run /\ c.pc = "collect" /\ c.over = r.over /\ c.seen = r.seen
          /\ c.reps = r.reps /\ c.name = n /\ c.new = r.new /\ c.failed = r.failed
      BY <1>1 DEF Run
    <3>2. m = c
      BY <2>2
    <3> HIDE DEF c, m
    <3> QED BY <1>1, <1>2, <3>1, <3>2
  <2> QED BY <2>1, <2>2
<1>9. RunOK(p)'
  <2>1. CASE On(kv, old) = {}
    <3>1. run'[p] = Failed(r, n)
      BY <1>5, <2>1
    <3>2. kv' = kv /\ mem'[p] = kv
      BY <1>6, <1>7, <2>1
    <3>3. r.pc = "write"
      BY <1>2 DEF Writing
    <3> QED BY <1>2, <3>1, <3>2, <3>3, FailedKeeps
  <2>2. CASE On(kv, old) # {}
    <3>1. run'[p] = [r EXCEPT !.pc = "collect"]
      BY <1>5, <2>2
    <3> QED BY <1>2, <1>3, <1>4, <1>6, <2>2, <3>1, WriteRun
  <2> QED BY <2>1, <2>2
<1> HIDE DEF m, list
<1>10. ASSUME NEW q \in Pods, q # p
       PROVE  /\ run'[q] \in Run /\ run'[q].pc = run[q].pc /\ run'[q].over = run[q].over
              /\ run'[q].seen = run[q].seen /\ run'[q].reps = run[q].reps
              /\ run'[q].name = run[q].name /\ run'[q].new = run[q].new
              /\ run'[q].failed = run[q].failed
  <2>1. run[q] \in Run
    BY <1>1 DEF TypeOK
  <2>2. run'[q] = [run[q] EXCEPT !.alone = FALSE]
    BY <1>5, <1>10
  <2> QED BY <2>1, <2>2, UnaloneRun
<1>11. TypeOK'
  <2>1. mem' \in [Pods -> Lists] /\ kv' \in Lists
    BY <1>1, <1>4, <1>6 DEF TypeOK
  <2>2. run' = [q \in Pods |-> run'[q]]
    BY <1>2 DEF Disturb
  <2>3. \A q \in Pods : run'[q] \in Run
    BY <1>5, <1>8, <1>10
  <2>4. run' \in [Pods -> Run]
    BY <2>2, <2>3
  <2>5. \A q \in Pods : LET o == run'[q] IN
          /\ o.reps \subseteq o.over /\ o.failed \subseteq o.over
          /\ o.pc \in {"mint", "write", "collect"} <=> o.name \in o.reps
    <3>1. ASSUME NEW q \in Pods, q # p
          PROVE  LET o == run'[q] IN
                 /\ o.reps \subseteq o.over /\ o.failed \subseteq o.over
                 /\ o.pc \in {"mint", "write", "collect"} <=> o.name \in o.reps
      BY <1>1, <1>10, <3>1 DEF TypeOK
    <3> QED BY <1>5, <1>8, <3>1
  <2> QED BY <1>3, <2>1, <2>4, <2>5 DEF TypeOK
<1>12. Bounded' /\ Coherent' /\ NewIsFresh'
  <2>1. \A k \in Names : list[k] # None => list[k].hook <= minted'
    BY <1>1, <1>2, <1>3, <1>4 DEF Bounded
  <2>2. \A q \in Pods : run'[q].seen = run[q].seen
    BY <1>5, <1>8, <1>10
  <2>3. \A q \in Pods : run'[q].new = run[q].new \/ run'[q].new = 0
    BY <1>5, <1>8, <1>10
  <2>4. ASSUME NEW q \in Pods, Writing(q)'
        PROVE  Writing(q) /\ run'[q].new = run[q].new /\ run[q].new # h
    <3>1. q # p
      BY <1>5, <1>8, <2>4 DEF Writing
    <3>2. Writing(q) /\ run'[q].new = run[q].new
      BY <1>10, <2>4, <3>1 DEF Writing
    <3> QED BY <1>1, <1>2, <3>1, <3>2 DEF NewIsFresh
  <2> HIDE DEF h
  <2> QED BY <1>2, <1>3, <1>4, <2>1, <2>2, <2>3, <2>4, CommitShared
<1>13. ASSUME NEW q \in Pods, q # p PROVE RunOK(q)'
  BY <1>3, <1>4, <1>5, <1>6, <1>13, OtherRun
<1> QED BY <1>9, <1>11, <1>12, <1>13 DEF Inv

-------------------------------------------------------------------------------
(* Theorems. *)

\* The invariant holds in every reachable state.
THEOREM Invariant == Spec => []Inv
<1>1. Inv /\ [Next]_vars => Inv'
  <2> SUFFICES ASSUME Inv, [Next]_vars PROVE Inv'
    OBVIOUS
  <2>1. CASE Others
    <3>1. PICK p \in Pods : (\E n \in Names : Remove(p, n) \/ Add(p, n) \/ Rotate(p, n)) \/ Reload(p)
      BY <2>1 DEF Others
    <3> QED BY <3>1, RemoveStep, AddStep, RotateStep, ReloadStep
  <2>2. ASSUME NEW p \in Pods, Detect(p) PROVE Inv'
    BY <2>2, DetectStep
  <2>3. ASSUME NEW p \in Pods, Bulk(p) PROVE Inv'
    BY <2>3, LockStep, MintStep, FailsStep, WriteStep, CollectStep, ReportStep DEF Bulk
  <2>4. CASE UNCHANGED vars
    <3>1. kv' = kv /\ mem' = mem /\ minted' = minted /\ run' = run
      BY <2>4 DEF vars
    <3>2. TypeOK' /\ Bounded' /\ Coherent'
      BY <3>1 DEF Inv, TypeOK, Bounded, Coherent
    <3>3. NewIsFresh'
      BY <3>1 DEF Inv, NewIsFresh, Writing, Fresh
    <3>4. \A p \in Pods : RunOK(p)'
      BY <3>1 DEF Inv, RunOK, Held, StillOverdue, Named, OneEach, Undisturbed
    <3> QED BY <3>2, <3>3, <3>4 DEF Inv
  <2> QED BY <2>1, <2>2, <2>3, <2>4 DEF Next
<1> QED BY <1>1, Start, PTL DEF Spec

\* Every variable has its type: a rotation has a representative in hand exactly while
\* it is rotating one.
THEOREM TypeCorrect == Spec => []TypeOK
<1>1. Inv => TypeOK
  BY DEF Inv
<1> QED BY <1>1, Invariant, PTL

\* handleRotateOverdue reports as failed every overdue receiver it has not dealt with,
\* whatever other commands and other pods did between its rotations.
THEOREM FailuresAlwaysNamed == Spec => []FailuresAreNamed
<1>1. Inv => FailuresAreNamed
  <2> SUFFICES ASSUME Inv, NEW p \in Pods, AtReport(p), NEW n \in run[p].over,
                      kv[n] # None, kv[n].hook = run[p].seen[n],
                      run[p].parted \cap Group(run[p], n) = {}
               PROVE  n \in run[p].failed
    BY DEF FailuresAreNamed
  <2>1. Named(p)
    BY DEF Inv, RunOK
  <2>2. ~Todo(run[p], n)
    BY DEF AtReport, Todo
  <2> QED BY <2>1, <2>2 DEF Named
<1> QED BY <1>1, Invariant, PTL

\* A bulk rotation that nobody disturbs reports each receiver that shared a webhook
\* with an overdue one once, as rotated or as failed, and what it reports as rotated
\* is no longer past the threshold.
THEOREM EachRotatedOnce == Spec => []RotatesEachOnce
<1>1. Inv => RotatesEachOnce
  <2> SUFFICES ASSUME Inv, NEW p \in Pods, AtReport(p), run[p].alone, NEW n \in Names
               PROVE  LET r == run[p] IN
                      /\ r.rotated[n] = IF n \in Sharing(r, r.over) \ Sharing(r, r.failed) THEN 1 ELSE 0
                      /\ r.rotated[n] = 1 => ~kv[n].old
    BY DEF RotatesEachOnce, Sharing
  <2> DEFINE r == run[p]
  <2>1. r.pc = "next" /\ r.reps = {}
    BY DEF AtReport
  <2>2. Undisturbed(p) /\ r.pc # "idle" /\ r.alone
    BY <2>1 DEF Inv, RunOK
  <2>3. Sharing(r, r.reps) = {}
    BY <2>1 DEF Sharing
  <2>4. /\ \A k \in Names \ Sharing(r, r.over) : r.rotated[k] = 0
        /\ \A k \in Sharing(r, r.over) \ Sharing(r, r.reps) :
             IF k \in Sharing(r, r.failed) THEN r.rotated[k] = 0
             ELSE r.rotated[k] = 1 /\ kv[k] # None /\ ~kv[k].old
    BY <2>2 DEF Undisturbed
  <2>5. CASE n \notin Sharing(r, r.over)
    BY <2>4, <2>5
  <2>6. CASE n \in Sharing(r, r.over)
    <3>1. IF n \in Sharing(r, r.failed) THEN r.rotated[n] = 0
          ELSE r.rotated[n] = 1 /\ kv[n] # None /\ ~kv[n].old
      BY <2>3, <2>4, <2>6
    <3> QED BY <2>6, <3>1
  <2> QED BY <2>5, <2>6
<1> QED BY <1>1, Invariant, PTL

\* The webhook that a bulk rotation replaces is that of a receiver that has opted in
\* and is overdue, unless the representative was changed behind its back.
THEOREM UnmanagedAlwaysSpared == Spec => UnmanagedSpared
<1> DEFINE Spared == \A p \in Pods : LET r == run[p]
                                       old == mem[p][r.name].hook
                                   IN
              r.pc = "write" /\ run'[p].pc = "collect" =>
                \/ r.name \in r.parted
                \/ kv[r.name] = None \/ kv[r.name].hook # old
                \/ \E n \in On(kv, old) : kv[n].on /\ kv[n].old
<1>1. Inv => Spared
  <2> SUFFICES ASSUME Inv, NEW p \in Pods, run[p].pc = "write", run[p].name \notin run[p].parted,
                      kv[run[p].name] # None, kv[run[p].name].hook = mem[p][run[p].name].hook
               PROVE  \E n \in On(kv, mem[p][run[p].name].hook) : kv[n].on /\ kv[n].old
    OBVIOUS
  <2> DEFINE n == run[p].name
  <2>1. n \in run[p].reps /\ n \in run[p].over /\ n \in Names
    BY DEF Inv, TypeOK, Run
  <2>2. mem[p][n].hook = run[p].seen[n]
    BY DEF Inv, RunOK, Held
  <2>3. kv[n].on /\ kv[n].old
    BY <2>1, <2>2 DEF Inv, RunOK, StillOverdue
  <2>4. n \in On(kv, mem[p][n].hook)
    BY <2>1 DEF On
  <2> QED BY <2>3, <2>4
<1>2. Inv => [Spared]_vars
  BY <1>1
<1>3. Spec => [][Spared]_vars
  BY <1>2, Invariant, PTL
<1> QED BY <1>3 DEF UnmanagedSpared

===============================================================================
