----------------------------- MODULE BulkRotation -----------------------------
(* /alertmanager rotate all --overdue (server/cmd_lifecycle.go): one command    *)
(* looks up which receivers of its channel are overdue, picks one representative *)
(* of each shared webhook, and rotates those one after the other. The mutex is   *)
(* held for one rotation at a time, so commands, reloads and the bulk rotation of *)
(* another administrator come between any two of them. The webhooks themselves    *)
(* (ReceiverStore) and the clock (RotationReminders) are detailed elsewhere: here *)
(* a webhook is a number, and whether a receiver is past the threshold is a flag. *)
EXTENDS Integers, FiniteSets, Functions

CONSTANTS
  Pods,      \* plugin processes; on each at most one administrator rotates in bulk
  Names,     \* the receivers of the channel
  MaxHooks,  \* bound: webhooks ever created
  None       \* no receiver

ASSUME BulkRotationAssumption ==
  /\ IsFiniteSet(Names) /\ MaxHooks \in Nat /\ Cardinality(Names) <= MaxHooks

VARIABLES
  kv,      \* the stored list: name -> entry or None
  mem,     \* each pod's copy
  minted,  \* number of webhooks created so far
  run      \* each pod's bulk rotation

vars == <<kv, mem, minted, run>>

\* alertConfig: the webhook, RotationRemindersEnabled, past the threshold.
Entry == [hook : 1..MaxHooks, on : BOOLEAN, old : BOOLEAN]
Lists == [Names -> Entry \cup {None}]

ASSUME NoneAssumption == None \notin Names \cup Entry

On(list, h) == {n \in Names : list[n] # None /\ list[n].hook = h}

(* A bulk rotation: the overdue names and every name's webhook as looked up, the *)
(* representatives still to do, the one being rotated with its new webhook, how     *)
(* often each receiver is reported as rotated, the ones reported as  *)
(* failed; and as history the representatives that were found on another webhook  *)
(* than they had been seen on, and whether nobody else has changed the list.       *)
Idle == [pc |-> "idle", over |-> {}, seen |-> [n \in Names |-> 0], reps |-> {},
         name |-> None, new |-> 0, rotated |-> [n \in Names |-> 0],
         failed |-> {}, parted |-> {}, alone |-> FALSE]

\* Mutant of Overdue: also receivers that never opted in.
OverdueAnyway(list) == {n \in Names : list[n] # None /\ list[n].old}

Overdue(list) == {n \in Names : list[n] # None /\ list[n].on /\ list[n].old}

\* Mutant of Representatives: every overdue receiver stands for itself.
EveryOne(over, list) == {over}

\* The sets that hold one overdue receiver of each webhook; which of them the
\* code takes depends on the order of the list.
Representatives(over, list) ==
  {R \in SUBSET over : \A h \in {list[n].hook : n \in over} :
                         Cardinality(R \cap On(list, h)) = 1}

\* Mutant of Group: only the receiver that was tried.
Alone(r, n) == {n}

(* groupOverdueByWebhook: the overdue receivers that shared n's webhook.         *)
Group(r, n) == {m \in r.over : r.seen[m] = r.seen[n]}

HooksOf(list) == [n \in Names |-> IF list[n] = None THEN 0 ELSE list[n].hook]

Free(p) == run[p].pc \notin {"mint", "write"}

(* A write to the list by pod p: every other bulk rotation has company now. *)
Disturb(p) == [q \in Pods |-> IF q = p THEN run[q] ELSE [run[q] EXCEPT !.alone = FALSE]]
Commit(p, list) == kv' = list /\ mem' = [mem EXCEPT ![p] = list]

(* handleRotateOverdue up to its loop; without an overdue receiver it returns.   *)
Detect(p) ==
  /\ run[p].pc = "idle" /\ Overdue(mem[p]) # {}
  /\ \E R \in Representatives(Overdue(mem[p]), mem[p]) :
       run' = [run EXCEPT ![p] =
                 [Idle EXCEPT !.pc = "next", !.over = Overdue(mem[p]), !.reps = R,
                              !.seen = HooksOf(mem[p]), !.alone = (mem[p] = kv)]]
  /\ UNCHANGED <<kv, mem, minted>>

\* Mutant of Left: a representative whose rotation failed is tried again.
LeftAgain(r, n, ok) == IF ok THEN r.reps \ {n} ELSE r.reps

\* The loop goes on to the next representative, whatever became of this one.
Left(r, n, ok) == r.reps \ {n}

Failed(r, n) ==
  [r EXCEPT !.pc = "next", !.reps = Left(r, n, FALSE), !.failed = @ \cup Group(r, n),
            !.name = None, !.new = 0]

(* handleRotateSingle: take the mutex and look the receiver up in memory. *)
Lock(p, n) ==
  LET r == run[p] IN
  /\ r.pc = "next" /\ n \in r.reps
  /\ run' = [run EXCEPT ![p] =
       IF mem[p][n] = None THEN Failed(r, n)
       ELSE [r EXCEPT !.pc = "mint", !.name = n,
                      !.parted = IF mem[p][n].hook # r.seen[n] THEN @ \cup {n} ELSE @]]
  /\ UNCHANGED <<kv, mem, minted>>

(* The channel is resolved and a new webhook created in it. *)
Mint(p) ==
  /\ run[p].pc = "mint" /\ minted < MaxHooks
  /\ minted' = minted + 1
  /\ run' = [run EXCEPT ![p].pc = "write", ![p].new = minted + 1]
  /\ UNCHANGED <<kv, mem>>

\* Resolving, creating or the compare-and-set fails (always so at the bound MaxHooks).
Fails(p) ==
  /\ run[p].pc \in {"mint", "write"}
  /\ run' = [run EXCEPT ![p] = Failed(run[p], run[p].name)]
  /\ UNCHANGED <<kv, mem, minted>>

Repointed(list, old, new) ==
  [n \in Names |-> IF n \in On(list, old) THEN [list[n] EXCEPT !.hook = new, !.old = FALSE]
                   ELSE list[n]]

(* updateConfigsAtomic, and the mutex is released. If nobody uses the old webhook *)
(* any more, nothing was rotated.                                                  *)
Write(p) ==
  LET r == run[p]
      old == mem[p][r.name].hook
  IN
  /\ r.pc = "write"
  /\ Commit(p, Repointed(kv, old, r.new))
  /\ run' = [Disturb(p) EXCEPT ![p] =
       IF On(kv, old) = {} THEN Failed(r, r.name) ELSE [r EXCEPT !.pc = "collect"]]
  /\ UNCHANGED minted

(* Without the mutex, back in the loop: whoever shares the representative's        *)
(* webhook in memory now is reported as rotated.                                    *)
Collect(p) ==
  LET r == run[p]
      fresh == IF mem[p][r.name] = None THEN {} ELSE On(mem[p], mem[p][r.name].hook)
  IN
  /\ r.pc = "collect"
  /\ run' = [run EXCEPT ![p] =
       [r EXCEPT !.pc = "next", !.reps = Left(r, r.name, TRUE), !.name = None, !.new = 0,
                 !.rotated = [n \in Names |-> @[n] + (IF n \in fresh THEN 1 ELSE 0)]]]
  /\ UNCHANGED <<kv, mem, minted>>

(* The report is rendered and the command returns. *)
Report(p) ==
  /\ run[p].pc = "next" /\ run[p].reps = {}
  /\ run' = [run EXCEPT ![p] = Idle]
  /\ UNCHANGED <<kv, mem, minted>>

Bulk(p) ==
  \/ \E n \in Names : Lock(p, n)
  \/ Mint(p)
  \/ Fails(p)
  \/ Write(p)
  \/ Collect(p)
  \/ Report(p)

(* The other commands, one at a time on a pod whose mutex is free. *)
Remove(p, n) ==
  /\ Free(p) /\ kv[n] # None
  /\ Commit(p, [kv EXCEPT ![n] = None])
  /\ run' = [q \in Pods |-> [run[q] EXCEPT !.alone = FALSE]]
  /\ UNCHANGED minted

\* A fresh receiver is not overdue, opted in or not.
Add(p, n) ==
  /\ Free(p) /\ kv[n] = None /\ minted < MaxHooks
  /\ minted' = minted + 1
  /\ Commit(p, [kv EXCEPT ![n] = [hook |-> minted + 1, on |-> TRUE, old |-> FALSE]])
  /\ run' = [q \in Pods |-> [run[q] EXCEPT !.alone = FALSE]]

Rotate(p, n) ==
  /\ Free(p) /\ mem[p][n] # None /\ minted < MaxHooks
  /\ minted' = minted + 1
  /\ Commit(p, Repointed(kv, mem[p][n].hook, minted + 1))
  /\ run' = [q \in Pods |-> [run[q] EXCEPT !.alone = FALSE]]

Reload(p) ==
  /\ Free(p) /\ mem[p] # kv
  /\ mem' = [mem EXCEPT ![p] = kv]
  /\ UNCHANGED <<kv, minted, run>>

Others ==
  \E p \in Pods :
    \/ \E n \in Names : Remove(p, n) \/ Add(p, n) \/ Rotate(p, n)
    \/ Reload(p)

Next == Others \/ \E p \in Pods : Detect(p) \/ Bulk(p)

(* The receivers share one webhook, or each has its own; any of them may have      *)
(* opted in; the webhooks are past the threshold.                                   *)
Init ==
  /\ \E share \in {[n \in Names |-> 1],
                  CHOOSE f \in [Names -> 1..Cardinality(Names)] : IsInjective(f)},
        on \in [Names -> BOOLEAN] :
       kv = [n \in Names |-> [hook |-> share[n], on |-> on[n], old |-> TRUE]]
  /\ mem = [p \in Pods |-> kv]
  /\ minted = Cardinality(Names)
  /\ run = [p \in Pods |-> Idle]

Spec == Init /\ [][Next]_vars

\* A command that has begun goes on: every call it makes returns.
LiveSpec == Spec /\ \A p \in Pods : WF_vars(Bulk(p))

-----------------------------------------------------------------------------
\* Every variable has its type; a rotation in progress has a name.
Run == [pc : {"idle", "next", "mint", "write", "collect"}, over : SUBSET Names,
        seen : [Names -> 0..MaxHooks], reps : SUBSET Names, name : Names \cup {None},
        new : 0..MaxHooks, rotated : [Names -> Nat], failed : SUBSET Names,
        parted : SUBSET Names, alone : BOOLEAN]
TypeOK ==
  /\ kv \in Lists /\ mem \in [Pods -> Lists] /\ minted \in 0..MaxHooks
  /\ run \in [Pods -> Run]
  /\ \A p \in Pods : LET r == run[p] IN
       /\ r.reps \subseteq r.over /\ r.failed \subseteq r.over
       /\ r.pc \in {"mint", "write", "collect"} <=> r.name \in r.reps

AtReport(p) == run[p].pc = "next" /\ run[p].reps = {}

(* What the command does not report as failed has been dealt with: an overdue    *)
(* receiver that still has the webhook it was seen with is named in the report,   *)
(* whatever other commands did meanwhile. The exception is a group whose           *)
(* representative was removed and added again meanwhile: the loop then rotates the *)
(* representative's new webhook and says nothing of the rest of the group, although *)
(* "rotating the representative rotated its whole group".                            *)
FailuresAreNamed ==
  \A p \in Pods : AtReport(p) =>
    \A n \in run[p].over :
      /\ kv[n] # None /\ kv[n].hook = run[p].seen[n]
      /\ run[p].parted \cap Group(run[p], n) = {}
      => n \in run[p].failed

(* Left alone, the command does what it is for: it reports as rotated, once each,  *)
(* exactly the receivers that shared a webhook with an overdue one and are not      *)
(* reported as failed, and none of those is past the threshold any more.             *)
RotatesEachOnce ==
  \A p \in Pods : AtReport(p) /\ run[p].alone =>
    LET r == run[p]
        sharing(S) == {n \in Names : \E m \in S : r.seen[n] = r.seen[m]}
    IN \A n \in Names :
         /\ r.rotated[n] = IF n \in sharing(r.over) \ sharing(r.failed) THEN 1 ELSE 0
         /\ r.rotated[n] = 1 => ~kv[n].old

(* A bulk rotation replaces a webhook only if a receiver that uses it has opted in  *)
(* and is overdue: it does not invalidate "a webhook the operator never asked the   *)
(* plugin to manage". Exceptions: its representative was rotated or added again       *)
(* since the look-up, or has just been removed on another pod.                         *)
UnmanagedSpared ==
  [][\A p \in Pods : LET r == run[p]
                         old == mem[p][r.name].hook
                     IN
       r.pc = "write" /\ run'[p].pc = "collect" =>
         \/ r.name \in r.parted
         \/ kv[r.name] = None \/ kv[r.name].hook # old
         \/ \E n \in On(kv, old) : kv[n].on /\ kv[n].old]_vars

(* The command returns: the loop visits each representative once, and commands on   *)
(* other pods cannot keep it going.                                                   *)
BulkReturns == \A p \in Pods : run[p].pc # "idle" ~> run[p].pc = "idle"

=============================================================================
