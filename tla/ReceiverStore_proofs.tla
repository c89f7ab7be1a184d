------------------------ MODULE ReceiverStore_proofs -------------------------
(***************************************************************************)
(* Proofs about ReceiverStore, for every set of pods, workers, names and   *)
(* webhooks, and with faults.                                              *)
(*                                                                         *)
(* Three layers, each inductive relative to the ones before it: requests   *)
(* are well formed (Typed); every list anybody holds is sound (Valid); the *)
(* webhooks commands have in hand are theirs alone (Owned).                *)
(***************************************************************************)
EXTENDS ReceiverStore, FiniteSetTheorems, TLAPS

\* Which fields of a request mean something at which step.
Shape(r) ==
  /\ r.pc = "mint" => r.op \in {"add", "rotate"}
  /\ r.pc \in {"probe", "lock"} => r.op = "reconcile"
  /\ r.pc = "apply" => r.op = "reload" /\ r.seen # Garbage
  /\ r.pc \in {"read", "cas"} => r.op \in {"add", "remove", "rotate", "reconcile", "repair"}
  /\ r.pc = "cas" => (r.op = "repair" <=> r.seen = Garbage)
  /\ r.new # NoHook <=> r.op \in {"add", "rotate"} /\ r.pc \in {"read", "cas"}
  /\ r.op = "add" /\ r.pc \in {"mint", "read", "cas"} => r.names # {}
  /\ r.op = "rotate" /\ r.pc \in {"mint", "read", "cas"} => r.old \in Hooks
  /\ r.pc # "retire" => r.kill = {}
  /\ r.op # "add" => r.names = {}
  /\ r.op # "rotate" => r.old = NoHook
  /\ r.op \notin {"remove", "reconcile"} => r.drop = {}
  /\ r.op \in {"remove", "reconcile"} /\ r.pc # "retire" => r.drop # {}

Typed == TypeOK /\ \A w \in Workers : Shape(req[w])

-----------------------------------------------------------------------------
(* The first layer: types and shapes. *)

\* What a transform produces is a list of entries.
LEMMA TransformType ==
  ASSUME NEW r \in Request, Shape(r), r.pc = "cas",
         NEW list \in SUBSET Entry, NEW copy \in SUBSET Entry
  PROVE  Transform(r, list, copy) \in SUBSET Entry
<1> USE DEF Entry, Request
<1>1. CASE r.op = "add"
  <2>1. r.new \in Hooks BY <1>1 DEF Shape
  <2>2. [name : r.names, hook : {r.new}] \in SUBSET Entry BY <2>1
  <2>3. QED BY <1>1, <2>2 DEF Transform, Added
<1>2. CASE r.op = "rotate"
  <2>1. r.new \in Hooks BY <1>2 DEF Shape
  <2>2. QED BY <1>2, <2>1 DEF Transform, Repointed
<1>3. CASE r.op \notin {"add", "rotate"}
  BY <1>3 DEF Transform, Removed, Pruned, Shape
<1>4. QED BY <1>1, <1>2, <1>3

\* A step that replaces one worker's request by a well-formed one keeps them all so.
LEMMA OneRequest ==
  ASSUME Typed, NEW w \in Workers, NEW r \in Request, Shape(r),
         req' = [req EXCEPT ![w] = r]
  PROVE  req' \in [Workers -> Request] /\ \A v \in Workers : Shape(req'[v])
BY DEF Typed, TypeOK

\* The idle request is well formed, and so is one that only deletes webhooks.
LEMMA IdleShape == Idle \in Request /\ Shape(Idle)
BY LimitsAssumption DEF Idle, Request, Shape, Ops, Steps

Retiring(op, doomed) == [Idle EXCEPT !.op = op, !.pc = "retire", !.kill = doomed]
\* A command that has only deletions left to do is well formed.
LEMMA RetireShape ==
  ASSUME NEW op \in Ops, NEW doomed \in SUBSET Hooks
  PROVE  Retiring(op, doomed) \in Request /\ Shape(Retiring(op, doomed))
<1>1. Retiring(op, doomed) \in Request
  BY IdleShape DEF Retiring, Request, Steps
<1>2. Shape(Retiring(op, doomed))
  BY DEF Retiring, Idle, Shape
<1>3. QED BY <1>1, <1>2

\* Returning, or going on to delete webhooks, leaves mutexes and requests well formed.
LEMMA SettleTyped ==
  ASSUME Typed, NEW w \in Workers, NEW doomed \in SUBSET Hooks, Settle(w, doomed)
  PROVE  /\ configWriteMu' \in [Pods -> Workers \cup {NoWorker}]
         /\ req' \in [Workers -> Request] /\ \A v \in Workers : Shape(req'[v])
<1>1. req[w].op \in Ops BY DEF Typed, TypeOK, Request
<1>2. CASE Return(w)
  BY <1>2, IdleShape, OneRequest DEF Return, Typed, TypeOK
<1>3. CASE ~Return(w)
  <2>1. PICK r \in Request : Shape(r) /\ req' = [req EXCEPT ![w] = r]
    BY <1>1, <1>3, RetireShape DEF Settle, Retiring
  <2>2. configWriteMu' = configWriteMu BY <1>3 DEF Settle
  <2>3. QED BY <2>1, <2>2, OneRequest DEF Typed, TypeOK
<1>4. QED BY <1>2, <1>3

\* A worker without a command has nothing in hand.
LEMMA IdleFields ==
  /\ Idle.op = "none" /\ Idle.new = NoHook /\ Idle.kill = {}
  /\ Idle.drop = {} /\ Idle.names = {} /\ Idle.old = NoHook
BY DEF Idle

\* Starting a command with a well-formed request.
LEMMA BeginTyped ==
  ASSUME Typed, NEW w \in Workers, NEW r \in Request, Shape(r), Begin(w, r)
  PROVE  Typed'
<1>1. Pod(w) \in Pods BY PodsAssumption DEF Pod
<1>2. configWriteMu' \in [Pods -> Workers \cup {NoWorker}]
  BY <1>1 DEF Begin, Lock, Typed, TypeOK
<1>3. req' \in [Workers -> Request] /\ \A v \in Workers : Shape(req'[v])
  BY OneRequest DEF Begin
<1>4. QED BY <1>2, <1>3 DEF Begin, history, Typed, TypeOK

\* The attempts a command starts and ends with are within their bound.
LEMMA AttemptsInRange == {0, 1, MaxAttempts} \subseteq 0..MaxAttempts
BY LimitsAssumption

\* Every command begins in one of six ways.
LEMMA StartCases ==
  ASSUME NEW w, Start(w)
  PROVE  \/ \E batch \in SUBSET Names : AddBegin(w, batch)
         \/ \E preview \in SUBSET mem[Pod(w)] : RemoveBegin(w, preview)
         \/ \E e \in mem[Pod(w)] : RotateBegin(w, e)
         \/ RepairBegin(w) \/ ReconcileBegin(w) \/ ReloadRead(w)
<1>1. ASSUME NEW n \in Names, AddCustomBegin(w, n) PROVE \E batch \in SUBSET Names : AddBegin(w, batch)
  BY <1>1 DEF AddCustomBegin
<1>2. ASSUME NEW e \in mem[Pod(w)], RemoveOneBegin(w, e) \/ RemoveAllBegin(w, e)
      PROVE  \E preview \in SUBSET mem[Pod(w)] : RemoveBegin(w, preview)
  BY <1>2 DEF RemoveOneBegin, RemoveAllBegin
<1>3. QED BY <1>1, <1>2 DEF Start, RemoveSetBegin

\* The beginnings of the commands.
LEMMA StartTyped ==
  ASSUME Typed, NEW w \in Workers, Start(w)
  PROVE  Typed'
<1> USE IdleShape, IdleFields, AttemptsInRange
<1>1. ASSUME NEW batch \in SUBSET Names, AddBegin(w, batch) PROVE Typed'
  <2> DEFINE r == [Idle EXCEPT !.op = "add", !.pc = "mint",
                               !.names = batch \ NamesOf(mem[Pod(w)]), !.left = MaxAttempts]
  <2>1. r \in Request BY DEF Request, Ops, Steps
  <2>2. Shape(r) BY <1>1 DEF Shape, AddBegin
  <2>3. QED BY <1>1, <2>1, <2>2, BeginTyped DEF AddBegin
<1>2. ASSUME NEW preview \in SUBSET mem[Pod(w)], RemoveBegin(w, preview) PROVE Typed'
  <2> DEFINE r == [Idle EXCEPT !.op = "remove", !.pc = "read", !.drop = preview, !.left = MaxAttempts]
  <2>1. preview \in SUBSET Entry BY PodsAssumption DEF Typed, TypeOK, Pod
  <2>2. r \in Request BY <2>1 DEF Request, Ops, Steps
  <2>3. Shape(r) BY <1>2 DEF Shape, RemoveBegin, Request
  <2>4. QED BY <1>2, <2>2, <2>3, BeginTyped DEF RemoveBegin
<1>3. ASSUME NEW e \in mem[Pod(w)], RotateBegin(w, e) PROVE Typed'
  <2> DEFINE r == [Idle EXCEPT !.op = "rotate", !.pc = "mint", !.old = e.hook, !.left = MaxAttempts]
  <2>1. e.hook \in Hooks BY PodsAssumption DEF Typed, TypeOK, Pod, Entry
  <2>2. r \in Request BY <2>1 DEF Request, Ops, Steps
  <2>3. Shape(r) BY <2>1 DEF Shape, Request
  <2>4. QED BY <1>3, <2>2, <2>3, BeginTyped DEF RotateBegin
<1>4. CASE RepairBegin(w)
  <2> DEFINE r == [Idle EXCEPT !.op = "repair", !.pc = "read", !.left = 1]
  <2>1. r \in Request BY DEF Request, Ops, Steps
  <2>2. Shape(r) BY DEF Shape
  <2>3. QED BY <1>4, <2>1, <2>2, BeginTyped DEF RepairBegin
<1>5. CASE ReconcileBegin(w)
  <2> DEFINE r == [Idle EXCEPT !.op = "reconcile", !.pc = "probe", !.drop = mem[Pod(w)]]
  <2>1. mem[Pod(w)] \in SUBSET Entry BY PodsAssumption DEF Typed, TypeOK, Pod
  <2>2. r \in Request BY <2>1 DEF Request, Ops, Steps
  <2>3. Shape(r) BY <1>5 DEF Shape, ReconcileBegin, Request
  <2>4. req' \in [Workers -> Request] /\ \A v \in Workers : Shape(req'[v])
    BY <1>5, <2>2, <2>3, OneRequest DEF ReconcileBegin
  <2>5. QED BY <1>5, <2>4 DEF ReconcileBegin, history, Typed, TypeOK
<1>6. CASE ReloadRead(w)
  <2> DEFINE r == [Idle EXCEPT !.op = "reload", !.pc = "apply", !.seen = kv]
  <2>1. r \in Request BY DEF Request, Ops, Steps, Typed, TypeOK
  <2>2. r.seen = kv /\ kv # Garbage BY <1>6 DEF ReloadRead, Request
  <2>3. Shape(r) BY <2>2 DEF Shape
  <2>4. QED BY <1>6, <2>1, <2>3, BeginTyped DEF ReloadRead
<1>7. QED BY StartCases, <1>1, <1>2, <1>3, <1>4, <1>5, <1>6

\* What a command deletes after its write are webhooks.
LEMMA DoomedType ==
  ASSUME Typed, NEW w \in Workers, req[w].pc = "cas", NEW after \in SUBSET Entry
  PROVE  Doomed(req[w], req[w].seen, after) \in SUBSET Hooks
<1>1. CASE req[w].op = "remove"
  <2>1. req[w].seen \in SUBSET Entry BY <1>1 DEF Typed, TypeOK, Request, Shape
  <2>2. QED BY <1>1, <2>1 DEF Doomed, Orphaned, HooksOf, Entry
<1>2. CASE req[w].op = "rotate"
  BY <1>2, NullsAssumption DEF Doomed, Typed, TypeOK, Request, Shape
<1>3. CASE req[w].op \notin {"remove", "rotate"}
  BY <1>3 DEF Doomed
<1>4. QED BY <1>1, <1>2, <1>3

\* The list a worker at its compare-and-set would write.
Written(w) == Transform(req[w], req[w].seen, mem[Pod(w)])

\* What a command is about to write is a list.
LEMMA NextType ==
  ASSUME Typed, NEW w \in Workers, req[w].pc = "cas"
  PROVE  Written(w) \in SUBSET Entry
<1>1. mem[Pod(w)] \in SUBSET Entry /\ req[w] \in Request /\ Shape(req[w])
  BY PodsAssumption DEF Typed, TypeOK, Pod
<1>2. CASE req[w].op = "repair"
  BY <1>1, <1>2 DEF Written, Transform
<1>3. CASE req[w].op # "repair"
  <2>1. req[w].seen \in SUBSET Entry BY <1>1, <1>3 DEF Request, Shape
  <2>2. QED BY <1>1, <2>1, TransformType DEF Written
<1>4. QED BY <1>2, <1>3

\* The steps of a command up to its write.
LEMMA EarlyTyped ==
  ASSUME Typed, NEW w \in Workers,
         \/ \E h \in Hooks : Mint(w, h) \/ MintReplyLost(w, h)
         \/ MintFails(w)
         \/ \E dead \in SUBSET HooksOf(req[w].drop) : Probe(w, dead)
         \/ ReconcileLock(w) \/ ReadList(w) \/ ReadGarbage(w) \/ ReadFails(w)
  PROVE  Typed'
<1>0. /\ req[w] \in Request /\ Shape(req[w]) /\ Pod(w) \in Pods
      /\ {} \in SUBSET Hooks /\ Undo(req[w]) \in SUBSET Hooks
  BY PodsAssumption DEF Typed, TypeOK, Pod, Undo, Request
<1> USE AttemptsInRange
<1>1. ASSUME NEW h \in Hooks, Mint(w, h) PROVE Typed'
  <2> DEFINE r == [req[w] EXCEPT !.new = h, !.pc = "read"]
  <2>1. r \in Request BY <1>0 DEF Request, Steps
  <2>2. Shape(r) BY <1>0, <1>1, NullsAssumption DEF Shape, Mint, At, Request
  <2>3. req' = [req EXCEPT ![w] = r] BY <1>1 DEF Mint
  <2>4. QED BY <1>1, <2>1, <2>2, <2>3, OneRequest DEF Mint, Typed, TypeOK
<1>2. ASSUME NEW h \in Hooks, MintReplyLost(w, h) PROVE Typed'
  <2>1. Settle(w, {}) BY <1>2 DEF MintReplyLost, Settle
  <2>2. QED BY <1>0, <1>2, <2>1, SettleTyped DEF MintReplyLost, Typed, TypeOK
<1>3. CASE MintFails(w)
  <2>1. Settle(w, {}) BY <1>3 DEF MintFails, Settle
  <2>2. QED BY <1>0, <1>3, <2>1, SettleTyped DEF MintFails, history, Typed, TypeOK
<1>4. ASSUME NEW dead \in SUBSET HooksOf(req[w].drop), Probe(w, dead) PROVE Typed'
  <2> DEFINE orphans == {e \in req[w].drop : e.hook \in dead}
             r == [req[w] EXCEPT !.pc = "lock", !.drop = orphans]
  <2>1. r \in Request BY <1>0 DEF Request, Steps
  <2>2. orphans # {} => Shape(r) BY <1>0, <1>4 DEF Shape, Probe, At, Request
  <2>3. \/ req' = [req EXCEPT ![w] = Idle]
        \/ orphans # {} /\ req' = [req EXCEPT ![w] = r]
    BY <1>4 DEF Probe
  <2>4. QED BY <1>4, <2>1, <2>2, <2>3, OneRequest, IdleShape DEF Probe, history, Typed, TypeOK
<1>5. CASE ReconcileLock(w)
  <2> DEFINE r == [req[w] EXCEPT !.pc = "read", !.left = MaxAttempts]
  <2>1. r \in Request BY <1>0 DEF Request, Steps
  <2>2. Shape(r) BY <1>0, <1>5 DEF Shape, ReconcileLock, At, Request
  <2>3. req' = [req EXCEPT ![w] = r] BY <1>5 DEF ReconcileLock
  <2>4. QED BY <1>0, <1>5, <2>1, <2>2, <2>3, OneRequest DEF ReconcileLock, Lock, history, Typed, TypeOK
<1>6. CASE ReadList(w) \/ ReadGarbage(w)
  <2> DEFINE r == [req[w] EXCEPT !.seen = kv, !.pc = "cas"]
  <2>1. r \in Request BY <1>0 DEF Request, Steps, Typed, TypeOK
  <2>2. Shape(r) BY <1>0, <1>6 DEF Shape, ReadList, ReadGarbage, At, Request
  <2>3. req' = [req EXCEPT ![w] = r] BY <1>6 DEF ReadList, ReadGarbage
  <2>4. QED BY <1>6, <2>1, <2>2, <2>3, OneRequest DEF ReadList, ReadGarbage, history, Typed, TypeOK
<1>7. CASE ReadFails(w)
  BY <1>0, <1>7, SettleTyped DEF ReadFails, history, Typed, TypeOK
<1>8. QED BY <1>1, <1>2, <1>3, <1>4, <1>5, <1>6, <1>7

\* The compare-and-set, what follows it, and the reload.
LEMMA LateTyped ==
  ASSUME Typed, NEW w \in Workers,
         \/ Commit(w) \/ CasLost(w) \/ CasError(w) \/ CasReplyLost(w)
         \/ \E h \in req[w].kill : Retire(w, h) \/ RetireFails(w, h)
         \/ ReloadApply(w)
  PROVE  Typed'
<1>0. /\ req[w] \in Request /\ Shape(req[w]) /\ Pod(w) \in Pods
      /\ {} \in SUBSET Hooks /\ Undo(req[w]) \in SUBSET Hooks /\ req[w].kill \in SUBSET Hooks
  BY PodsAssumption DEF Typed, TypeOK, Pod, Undo, Request
<1>1. CASE Commit(w)
  <2>1. req[w].pc = "cas" BY <1>1 DEF Commit, At
  <2>2. Written(w) \in SUBSET Entry BY <2>1, NextType
  <2>3. Settle(w, Doomed(req[w], req[w].seen, Written(w))) BY <1>1 DEF Commit, Written
  <2>4. mem' \in [Pods -> SUBSET Entry] /\ kv' \in SUBSET Entry
    BY <1>1, <2>2 DEF Commit, Written, Typed, TypeOK
  <2>5. QED BY <1>1, <2>1, <2>2, <2>3, <2>4, DoomedType, SettleTyped DEF Commit, history, Typed, TypeOK
<1>2. CASE CasLost(w)
  <2>1. CASE req[w].left > 1
    <3> DEFINE r == [req[w] EXCEPT !.pc = "read", !.seen = {}, !.left = @ - 1]
    <3>1. req[w].left - 1 \in 0..MaxAttempts BY <1>0, <2>1, LimitsAssumption DEF Request
    <3>2. r \in Request BY <1>0, <3>1 DEF Request, Steps
    <3>3. Shape(r) BY <1>0, <1>2 DEF Shape, CasLost, At, Request
    <3>4. req' = [req EXCEPT ![w] = r] BY <1>2, <2>1 DEF CasLost
    <3>5. QED BY <1>2, <2>1, <3>2, <3>3, <3>4, OneRequest DEF CasLost, history, Typed, TypeOK
  <2>2. CASE ~(req[w].left > 1)
    BY <1>0, <1>2, <2>2, SettleTyped DEF CasLost, history, Typed, TypeOK
  <2>3. QED BY <2>1, <2>2
<1>3. CASE CasError(w)
  BY <1>0, <1>3, SettleTyped DEF CasError, history, Typed, TypeOK
<1>4. CASE CasReplyLost(w)
  <2>1. req[w].pc = "cas" BY <1>4 DEF CasReplyLost, At
  <2>2. kv' \in SUBSET Entry BY <1>4, <2>1, NextType DEF CasReplyLost, Written
  <2>3. QED BY <1>0, <1>4, <2>2, SettleTyped DEF CasReplyLost, Typed, TypeOK
<1>5. ASSUME NEW h \in req[w].kill, Retire(w, h) PROVE Typed'
  BY <1>0, <1>5, SettleTyped DEF Retire, Typed, TypeOK
<1>6. ASSUME NEW h \in req[w].kill, RetireFails(w, h) PROVE Typed'
  BY <1>0, <1>6, SettleTyped DEF RetireFails, Typed, TypeOK
<1>7. CASE ReloadApply(w)
  <2>1. req[w].seen \in SUBSET Entry BY <1>0, <1>7 DEF ReloadApply, At, Request, Shape
  <2>2. Settle(w, {}) BY <1>7 DEF ReloadApply, Settle
  <2>3. QED BY <1>0, <1>7, <2>1, <2>2, SettleTyped DEF ReloadApply, history, Typed, TypeOK
<1>8. QED BY <1>1, <1>2, <1>3, <1>4, <1>5, <1>6, <1>7

\* Crashes, damage and deletions by hand keep every type.
LEMMA EnvironmentTyped == ASSUME Typed, Environment PROVE Typed'
<1>1. ASSUME NEW p \in Pods, Crash(p) PROVE Typed'
  <2>1. \A w \in Workers : InHand(req[w]) \in SUBSET Hooks
    BY DEF InHand, Undo, Typed, TypeOK, Request
  <2>2. req' \in [Workers -> Request] /\ \A v \in Workers : Shape(req'[v])
    BY <1>1, IdleShape DEF Crash, Typed, TypeOK
  <2>3. QED BY <1>1, <2>1, <2>2 DEF Crash, Typed, TypeOK
<1>2. ASSUME NEW p \in Pods, Restart(p) PROVE Typed'
  <2>1. Stored \in SUBSET Entry BY DEF Stored, Typed, TypeOK
  <2>2. QED BY <1>2, <2>1 DEF Restart, history, Typed, TypeOK
<1>3. ASSUME NEW h \in Hooks, DeleteOutOfBand(h) PROVE Typed'
  BY <1>3 DEF DeleteOutOfBand, history, Typed, TypeOK
<1>4. CASE Corrupt
  BY <1>4 DEF Corrupt, Typed, TypeOK
<1>5. QED BY <1>1, <1>2, <1>3, <1>4 DEF Environment

\* The store starts empty, with idle workers.
LEMMA TypedInit == Init => Typed
BY IdleShape DEF Init, Typed, TypeOK

\* No step changes the shape of a variable or of a request.
LEMMA TypedStep == Typed /\ [Next]_vars => Typed'
<1>1. ASSUME Typed, NEW w \in Workers, Progress(w) PROVE Typed'
  BY <1>1, EarlyTyped, LateTyped DEF Progress
<1>2. ASSUME Typed, UNCHANGED vars PROVE Typed'
  BY <1>2 DEF vars, Typed, TypeOK
<1>3. QED BY <1>1, <1>2, StartTyped, EnvironmentTyped DEF Next

\* Every variable keeps the shape the code gives it, and every request is well
\* formed for the step it is at.
THEOREM TypeCorrect == Spec => []TypeOK
<1>1. Typed => TypeOK BY DEF Typed
<1>2. QED BY <1>1, TypedInit, TypedStep, PTL DEF Spec

-----------------------------------------------------------------------------
(* The second layer: the mutex, and the lists. *)

\* A worker changes no request but its own, and its return is idle.
LEMMA OwnRequestOnly ==
  ASSUME Typed, NEW w \in Workers, Start(w) \/ Progress(w)
  PROVE  \A v \in Workers \ {w} : req'[v] = req[v]
<1> USE DEF Typed, TypeOK, Begin, Settle, Return
<1>1. CASE Start(w)
  <2>1. \E r : req' = [req EXCEPT ![w] = r]
    BY <1>1, StartCases DEF AddBegin, RemoveBegin, RotateBegin, RepairBegin, ReconcileBegin, ReloadRead
  <2>2. QED BY <2>1
<1>2. CASE Progress(w)
  <2>1. CASE \E h \in Hooks : Mint(w, h) \/ MintReplyLost(w, h)
    BY <2>1 DEF Mint, MintReplyLost
  <2>2. CASE \E dead \in SUBSET HooksOf(req[w].drop) : Probe(w, dead)
    BY <2>2 DEF Probe
  <2>3. CASE MintFails(w) \/ ReconcileLock(w) \/ ReadList(w) \/ ReadGarbage(w) \/ ReadFails(w)
    BY <2>3 DEF MintFails, ReconcileLock, ReadList, ReadGarbage, ReadFails
  <2>4. CASE Commit(w) \/ CasLost(w) \/ CasError(w) \/ CasReplyLost(w)
    BY <2>4 DEF Commit, CasLost, CasError, CasReplyLost
  <2>5. CASE (\E h \in req[w].kill : Retire(w, h) \/ RetireFails(w, h)) \/ ReloadApply(w)
    BY <2>5 DEF Retire, RetireFails, ReloadApply
  <2>6. QED BY <1>2, <2>1, <2>2, <2>3, <2>4, <2>5 DEF Progress
<1>3. QED BY <1>1, <1>2

\* What a command writes, whatever copy its pod holds, is what it validated.
LEMMA CopyIrrelevant ==
  ASSUME NEW r, r.op \in {"add", "remove", "rotate", "reconcile"}, NEW list, NEW copy
  PROVE  Transform(r, list, copy) = Transform(r, list, {})
BY DEF Transform

\* A list the load path accepts, within the cap.
Sound(list) == ValidList(list) /\ Cardinality(list) <= MaxReceivers

\* Every list that is stored, served, about to be written or about to be served
\* is sound.
Valid ==
  /\ kv # Garbage => Sound(kv)
  /\ \A p \in Pods : Sound(mem[p])
  /\ \A w \in Workers :
       /\ req[w].pc = "apply" => Sound(req[w].seen)
       /\ req[w].pc = "cas" /\ req[w].op # "repair" => Sound(Transform(req[w], req[w].seen, {}))

\* The list a pod starts with is valid and within every cap.
LEMMA EmptyIsSound == Sound({})
BY LimitsAssumption, FS_EmptySet DEF Sound, ValidList

\* A valid list has at most as many entries as there are names.
LEMMA ValidIsFinite ==
  ASSUME NEW list \in SUBSET Entry, ValidList(list)
  PROVE  IsFiniteSet(list)
<1> DEFINE f == [e \in list |-> e.name]
<1>1. f \in [list -> Names] BY DEF Entry
<1>2. \A d, e \in list : f[d] = f[e] => d = e BY DEF ValidList
<1>3. f \in Injection(list, Names) BY <1>1, <1>2 DEF Injection, IsInjective
<1>4. QED BY <1>3, NamesAssumption, FS_Injection

\* What a command adds is no more than its names, what it repoints no more than was there.
LEMMA AddedSize ==
  ASSUME NEW list, IsFiniteSet(list), NEW names \in SUBSET Names, NEW h
  PROVE  LET after == list \cup [name : names, hook : {h}] IN
         Cardinality(after) \in Nat /\ Cardinality(after) <= Cardinality(list) + Cardinality(names)
<1> DEFINE new == [name : names, hook : {h}]
           f == [n \in names |-> [name |-> n, hook |-> h]]
<1>1. IsFiniteSet(names) BY NamesAssumption, FS_Subset
<1>2. f \in Surjection(names, new)
  <2>1. f \in [names -> new] OBVIOUS
  <2>2. \A e \in new : e.name \in names /\ f[e.name] = e OBVIOUS
  <2>3. QED BY <2>1, <2>2 DEF Surjection
<1>3. IsFiniteSet(new) /\ Cardinality(new) <= Cardinality(names) BY <1>1, <1>2, FS_Surjection
<1>4. /\ IsFiniteSet(list \cup new)
      /\ Cardinality(list \cup new) = Cardinality(list) + Cardinality(new) - Cardinality(list \cap new)
  BY <1>3, FS_Union
<1>5. IsFiniteSet(list \cap new) BY <1>3, FS_Intersection
<1>6. /\ Cardinality(list \cap new) \in Nat /\ Cardinality(list) \in Nat
      /\ Cardinality(new) \in Nat /\ Cardinality(names) \in Nat
      /\ Cardinality(list \cup new) \in Nat
  BY <1>1, <1>3, <1>4, <1>5, FS_CardinalityType
<1>7. QED BY <1>3, <1>4, <1>6

\* A rotation adds no entry to the list.
LEMMA RepointedSize ==
  ASSUME NEW r, NEW list, IsFiniteSet(list)
  PROVE  /\ Cardinality(Repointed(r, list)) \in Nat /\ Cardinality(list) \in Nat
         /\ Cardinality(Repointed(r, list)) <= Cardinality(list)
<1> DEFINE f == [e \in list |-> IF e.hook = r.old THEN [e EXCEPT !.hook = r.new] ELSE e]
<1>1. f \in Surjection(list, Repointed(r, list)) BY DEF Surjection, Repointed
<1>2. QED BY <1>1, FS_Surjection, FS_CardinalityType

\* What is acceptable for a sound list keeps it sound.
LEMMA AcceptedIsSound ==
  ASSUME NEW r \in Request, r.op \in {"add", "remove", "rotate", "reconcile"},
         NEW list \in SUBSET Entry, Sound(list), Acceptable(r, list)
  PROVE  Sound(Transform(r, list, {}))
<1>1. IsFiniteSet(list) /\ Cardinality(list) \in Nat
  BY ValidIsFinite, FS_CardinalityType DEF Sound
<1>2. ValidList(Transform(r, list, {})) BY DEF Acceptable
<1>3. CASE r.op = "add"
  <2>1. r.names \in SUBSET Names BY DEF Request
  <2>2. /\ Cardinality(Added(r, list)) \in Nat
        /\ Cardinality(Added(r, list)) <= Cardinality(list) + Cardinality(r.names)
    BY <1>1, <2>1, AddedSize DEF Added
  <2>3. Cardinality(list) + Cardinality(r.names) <= MaxReceivers BY <1>3 DEF Acceptable
  <2>4. Cardinality(r.names) \in Nat BY <2>1, NamesAssumption, FS_Subset, FS_CardinalityType
  <2>5. Cardinality(Added(r, list)) <= MaxReceivers BY <1>1, <2>2, <2>3, <2>4, LimitsAssumption
  <2>6. Transform(r, list, {}) = Added(r, list) BY <1>3 DEF Transform
  <2>7. QED BY <1>2, <2>5, <2>6 DEF Sound
<1>4. CASE r.op = "rotate"
  <2>1. Transform(r, list, {}) = Repointed(r, list) BY <1>4 DEF Transform
  <2>2. /\ Cardinality(Repointed(r, list)) \in Nat
        /\ Cardinality(Repointed(r, list)) <= Cardinality(list)
    BY <1>1, RepointedSize
  <2>3. Cardinality(Repointed(r, list)) <= MaxReceivers BY <1>1, <2>2, LimitsAssumption DEF Sound
  <2>4. QED BY <1>2, <2>1, <2>3 DEF Sound
<1>5. CASE r.op \in {"remove", "reconcile"}
  <2> DEFINE after == Transform(r, list, {})
  <2>1. after \in SUBSET list BY <1>5 DEF Transform, Removed, Pruned
  <2>2. Cardinality(after) \in Nat /\ Cardinality(after) <= Cardinality(list)
    BY <1>1, <2>1, FS_Subset, FS_CardinalityType
  <2> HIDE DEF after
  <2>3. Cardinality(after) <= MaxReceivers BY <1>1, <2>2, LimitsAssumption DEF Sound
  <2>4. QED BY <1>2, <2>3 DEF Sound, after
<1>6. QED BY <1>3, <1>4, <1>5

\* What a compare-and-set installs is valid and within the cap.
LEMMA WrittenIsSound ==
  ASSUME Typed, Valid, NEW w \in Workers, req[w].pc = "cas"
  PROVE  Sound(Written(w))
<1>1. CASE req[w].op = "repair"
  <2>1. Written(w) = mem[Pod(w)] BY <1>1 DEF Written, Transform
  <2>2. QED BY <2>1, PodsAssumption DEF Valid, Pod
<1>2. CASE req[w].op # "repair"
  BY <1>2, CopyIrrelevant DEF Written, Valid, Typed, Shape
<1>3. QED BY <1>1, <1>2

\* Settling leaves a worker idle, or with nothing but webhooks to delete.
LEMMA Settled ==
  ASSUME Typed, NEW w \in Workers, NEW doomed, Settle(w, doomed)
  PROVE  /\ req'[w].pc = IF doomed = {} THEN "idle" ELSE "retire"
         /\ req'[w].kill = doomed
         /\ req'[w].new = NoHook /\ req'[w].old = NoHook /\ req'[w].drop = {}
<1>1. CASE doomed = {}
  <2>1. req'[w] = Idle BY <1>1 DEF Settle, Return, Typed, TypeOK
  <2>2. QED BY <1>1, <2>1 DEF Idle
<1>2. CASE doomed # {}
  <2>1. req'[w] = Retiring(req[w].op, doomed) BY <1>2 DEF Settle, Retiring, Typed, TypeOK
  <2>2. QED BY <1>2, <2>1 DEF Idle, Retiring
<1>3. QED BY <1>1, <1>2

\* The inductive step of Valid.
LEMMA ValidStep == Typed /\ Valid /\ [Next]_vars => Valid'
<1> SUFFICES ASSUME Typed, Valid, [Next]_vars PROVE Valid'
  OBVIOUS
<1> USE DEF Valid
<1>1. ASSUME NEW w \in Workers, Start(w) \/ Progress(w),
             UNCHANGED <<kv, mem>>,
             req'[w].pc = "apply" => Sound(req'[w].seen),
             req'[w].pc = "cas" /\ req'[w].op # "repair" =>
               Sound(Transform(req'[w], req'[w].seen, {}))
      PROVE  Valid'
  BY <1>1, OwnRequestOnly
<1>2. ASSUME NEW w \in Workers, Start(w) PROVE Valid'
  <2>1. UNCHANGED <<kv, mem>>
    BY <1>2, StartCases DEF AddBegin, RemoveBegin, RotateBegin, RepairBegin, ReconcileBegin, ReloadRead, Begin
  <2>2. req'[w].pc \in {"mint", "read", "probe"} \/ ReloadRead(w)
    <3> USE IdleShape DEF Begin, Typed, TypeOK, Request
    <3>1. ASSUME NEW batch \in SUBSET Names, AddBegin(w, batch) PROVE req'[w].pc = "mint"
      BY <3>1 DEF AddBegin
    <3>2. ASSUME NEW preview \in SUBSET mem[Pod(w)], RemoveBegin(w, preview) PROVE req'[w].pc = "read"
      BY <3>2 DEF RemoveBegin
    <3>3. ASSUME NEW e \in mem[Pod(w)], RotateBegin(w, e) PROVE req'[w].pc = "mint"
      BY <3>3 DEF RotateBegin
    <3>4. RepairBegin(w) => req'[w].pc = "read" BY DEF RepairBegin
    <3>5. ReconcileBegin(w) => req'[w].pc = "probe" BY DEF ReconcileBegin
    <3>6. QED BY StartCases, <1>2, <3>1, <3>2, <3>3, <3>4, <3>5
  <2>3. CASE ReloadRead(w)
    <3>1. kv # Garbage /\ req'[w] = [Idle EXCEPT !.op = "reload", !.pc = "apply", !.seen = kv]
      BY <2>3 DEF ReloadRead, Begin, Typed, TypeOK
    <3>2. req'[w].pc = "apply" /\ req'[w].seen = kv BY <3>1, IdleShape DEF Request
    <3>3. QED BY <1>1, <1>2, <2>1, <3>1, <3>2
  <2>4. QED BY <1>1, <1>2, <2>1, <2>2, <2>3
<1>3. ASSUME NEW w \in Workers, Progress(w) PROVE Valid'
  <2>0. req[w] \in Request /\ Pod(w) \in Pods BY PodsAssumption DEF Typed, TypeOK, Pod
  <2>1. ASSUME NEW doomed, Settle(w, doomed), UNCHANGED <<kv, mem>> PROVE Valid'
    BY <1>1, <1>3, <2>1, Settled
  <2>2. ASSUME NEW h \in Hooks, Mint(w, h) PROVE Valid'
    <3>1. req'[w].pc = "read" BY <2>0, <2>2 DEF Mint, Typed, TypeOK, Request
    <3>2. QED BY <1>1, <1>3, <2>2, <3>1 DEF Mint
  <2>3. CASE MintFails(w) \/ ReadFails(w) \/ CasError(w) \/ \E h \in Hooks : MintReplyLost(w, h)
    <3>1. \E doomed : Settle(w, doomed)
      BY <2>3 DEF MintFails, ReadFails, CasError, MintReplyLost, Settle
    <3>2. QED BY <2>1, <2>3, <3>1 DEF MintFails, ReadFails, CasError, MintReplyLost
  <2>4. ASSUME NEW dead \in SUBSET HooksOf(req[w].drop), Probe(w, dead) PROVE Valid'
    <3>1. req'[w].pc \in {"idle", "lock"}
      BY <2>0, <2>4, IdleShape DEF Probe, Idle, Typed, TypeOK, Request
    <3>2. QED BY <1>1, <1>3, <2>4, <3>1 DEF Probe
  <2>5. CASE ReconcileLock(w)
    <3>1. req'[w].pc = "read" BY <2>0, <2>5 DEF ReconcileLock, Typed, TypeOK, Request
    <3>2. QED BY <1>1, <1>3, <2>5, <3>1 DEF ReconcileLock
  <2>6. CASE ReadList(w)
    <3> DEFINE r == [req[w] EXCEPT !.seen = kv, !.pc = "cas"]
    <3>1. req'[w] = r BY <2>6 DEF ReadList, Typed, TypeOK
    <3>2. Transform(r, kv, {}) = Transform(req[w], kv, {}) BY <2>0 DEF Transform, Added, Repointed, Removed, Pruned, Request
    <3>3. r.seen = kv /\ r.pc = "cas" BY <2>0 DEF Request
    <3>4. Sound(Transform(req[w], kv, {}))
      BY <2>0, <2>6, AcceptedIsSound DEF ReadList, At, Typed, TypeOK, Shape
    <3>5. QED BY <1>1, <1>3, <2>6, <3>1, <3>2, <3>3, <3>4 DEF ReadList
  <2>7. CASE ReadGarbage(w)
    <3>1. req'[w].op = "repair" /\ req'[w].pc = "cas"
      BY <2>0, <2>7 DEF ReadGarbage, Typed, TypeOK, Request
    <3>2. QED BY <1>1, <1>3, <2>7, <3>1 DEF ReadGarbage
  <2>8. CASE Commit(w)
    <3>1. req[w].pc = "cas" BY <2>8 DEF Commit, At
    <3>2. Sound(Written(w)) BY <3>1, WrittenIsSound
    <3>3. req'[w].pc \in {"idle", "retire"} BY <2>8, Settled DEF Commit
    <3>4. kv' = Written(w) /\ mem' = [mem EXCEPT ![Pod(w)] = Written(w)]
      BY <2>8 DEF Commit, Written
    <3>5. \A p \in Pods : Sound(mem'[p])
      BY <3>2, <3>4 DEF Typed, TypeOK
    <3>6. QED BY <1>3, <3>2, <3>3, <3>4, <3>5, OwnRequestOnly
  <2>9. CASE CasReplyLost(w)
    <3>1. req[w].pc = "cas" BY <2>9 DEF CasReplyLost, At
    <3>2. Sound(Written(w)) BY <3>1, WrittenIsSound
    <3>3. req'[w].pc \in {"idle", "retire"} BY <2>9, Settled DEF CasReplyLost
    <3>4. kv' = Written(w) /\ mem' = mem BY <2>9 DEF CasReplyLost, Written
    <3>5. QED BY <1>3, <3>2, <3>3, <3>4, OwnRequestOnly
  <2>10. CASE CasLost(w)
    <3>1. CASE req[w].left > 1
      <4>1. req'[w].pc = "read" BY <2>0, <2>10, <3>1 DEF CasLost, Typed, TypeOK, Request
      <4>2. QED BY <1>1, <1>3, <2>10, <4>1 DEF CasLost
    <3>2. CASE ~(req[w].left > 1)
      BY <2>1, <2>10, <3>2 DEF CasLost
    <3>3. QED BY <3>1, <3>2
  <2>11. ASSUME NEW h \in req[w].kill, Retire(w, h) \/ RetireFails(w, h) PROVE Valid'
    BY <2>1, <2>11 DEF Retire, RetireFails
  <2>12. CASE ReloadApply(w)
    <3>1. Settle(w, {}) BY <2>12 DEF ReloadApply, Settle
    <3>2. req'[w].pc = "idle" BY <3>1, Settled
    <3>3. Sound(req[w].seen) BY <2>12 DEF ReloadApply, At
    <3>4. \A p \in Pods : Sound(mem'[p])
      BY <2>12, <3>3 DEF ReloadApply, Typed, TypeOK
    <3>5. QED BY <1>3, <2>12, <3>2, <3>4, OwnRequestOnly DEF ReloadApply
  <2>13. QED
    BY <1>3, <2>2, <2>3, <2>4, <2>5, <2>6, <2>7, <2>8, <2>9, <2>10, <2>11, <2>12 DEF Progress
<1>4. ASSUME NEW p \in Pods, Crash(p) PROVE Valid'
  BY <1>4, EmptyIsSound DEF Crash, Idle, Typed, TypeOK
<1>5. ASSUME NEW p \in Pods, Restart(p) PROVE Valid'
  BY <1>5, EmptyIsSound DEF Restart, Stored, Typed, TypeOK
<1>6. ASSUME NEW h \in Hooks, DeleteOutOfBand(h) PROVE Valid'
  BY <1>6 DEF DeleteOutOfBand
<1>7. CASE Corrupt
  BY <1>7 DEF Corrupt
<1>8. CASE UNCHANGED vars
  BY <1>8 DEF vars
<1>9. QED BY <1>2, <1>3, <1>4, <1>5, <1>6, <1>7, <1>8 DEF Next, Environment

\* The empty list is sound wherever it is.
LEMMA ValidInit == Init => Valid
<1>1. Init => ~\E w \in Workers : req[w].pc \in {"apply", "cas"} BY DEF Init, Idle
<1>2. QED BY <1>1, EmptyIsSound DEF Init, Valid

\* The stored list always passes the validation of the load path.
THEOREM StoredListAlwaysValid == Spec => []StoredListIsValid
<1>1. Valid => StoredListIsValid BY DEF Valid, Sound, StoredListIsValid
<1>2. QED BY <1>1, TypedInit, TypedStep, ValidInit, ValidStep, PTL DEF Spec

\* The stored list never exceeds the cap, however many commands add at once.
THEOREM CapAlwaysHolds == Spec => []CapHolds
<1>1. Valid => CapHolds BY EmptyIsSound DEF Valid, Sound, CapHolds, Stored
<1>2. QED BY <1>1, TypedInit, TypedStep, ValidInit, ValidStep, PTL DEF Spec

-----------------------------------------------------------------------------
(* The third layer: who owns which webhook. *)

\* Every webhook id anybody knows has been handed out, so a new one is nobody's.
Known ==
  /\ HooksOf(Stored) \cup retired \subseteq minted
  /\ \A p \in Pods : HooksOf(mem[p]) \subseteq minted
  /\ \A w \in Workers :
       /\ req[w].kill \cup HooksOf(req[w].drop) \cup ({req[w].old, req[w].new} \ {NoHook}) \subseteq minted
       /\ req[w].pc = "apply" => HooksOf(req[w].seen) \subseteq minted

\* What reconcile is going to drop stays dead: ids are not used twice.
DropIsDead ==
  \A w \in Workers : req[w].op = "reconcile" /\ req[w].pc \in {"lock", "read", "cas"} =>
    HooksOf(req[w].drop) \cap hooks = {}

\* Nothing but damage makes the stored value unreadable.
GarbageIsDamage == kv = Garbage => damaged

\* A rotation replaces a webhook by another one.
RotatesToNew ==
  \A w \in Workers : req[w].op = "rotate" /\ req[w].pc \in {"read", "cas"} => req[w].old # req[w].new

\* A webhook a command may still commit has not been deleted.
FreshNotRetired == ~damaged => \A w \in Workers : Undo(req[w]) \cap retired = {}

Owned ==
  /\ Known /\ DropIsDead /\ GarbageIsDamage /\ RotatesToNew /\ FreshNotRetired
  /\ NoReceiverOnRetiredHook /\ HooksInHandArePrivate /\ NoHookLeaks

\* What a write does to the webhooks of the list: it adds none but the new one,
\* deletes none that is left in the list, and loses none it does not delete,
\* except those reconcile found dead.
LEMMA WriteHooks ==
  ASSUME NEW r \in Request, Shape(r), r.pc = "cas", r.op # "repair",
         NEW list \in SUBSET Entry, Undo(r) \cap HooksOf(list) = {},
         r.op = "rotate" => r.old # r.new,
         NEW copy, NEW after, after = Transform(r, list, copy)
  PROVE  /\ HooksOf(after) \subseteq HooksOf(list) \cup Undo(r)
         /\ Doomed(r, list, after) \cap HooksOf(after) = {}
         /\ Doomed(r, list, after) \subseteq HooksOf(list) \cup Undo(r)
         /\ HooksOf(list) \cup Undo(r) \subseteq
              HooksOf(after) \cup Doomed(r, list, after)
                \cup (IF r.op = "reconcile" THEN HooksOf(r.drop) ELSE {})
<1>1. CASE r.op = "add"
  <2>1. r.names # {} /\ r.names \subseteq Names /\ r.new \in Hooks /\ Undo(r) = {r.new}
    BY <1>1, NullsAssumption DEF Shape, Request, Undo
  <2>2. after = list \cup [name : r.names, hook : {r.new}]
    BY <1>1 DEF Transform, Added
  <2>3. HooksOf([name : r.names, hook : {r.new}]) = {r.new}
    <3>1. PICK n \in r.names : TRUE BY <2>1
    <3>2. [name |-> n, hook |-> r.new] \in [name : r.names, hook : {r.new}] BY <3>1
    <3>3. [name |-> n, hook |-> r.new].hook = r.new OBVIOUS
    <3>4. r.new \in HooksOf([name : r.names, hook : {r.new}]) BY <3>2, <3>3 DEF HooksOf
    <3>5. HooksOf([name : r.names, hook : {r.new}]) \subseteq {r.new} BY DEF HooksOf
    <3>6. QED BY <3>4, <3>5
  <2>4. HooksOf(after) = HooksOf(list) \cup HooksOf([name : r.names, hook : {r.new}])
    BY <2>2 DEF HooksOf
  <2>5. Doomed(r, list, after) = {} BY <1>1 DEF Doomed
  <2>6. QED BY <1>1, <2>1, <2>3, <2>4, <2>5
<1>2. CASE r.op = "rotate"
  <2>1. r.old \in Hooks /\ r.new \in Hooks /\ Undo(r) = {r.new} /\ r.new \notin HooksOf(list)
    BY <1>2, NullsAssumption DEF Shape, Request, Undo
  <2> DEFINE To(e) == IF e.hook = r.old THEN [e EXCEPT !.hook = r.new] ELSE e
  <2>2. after = {To(e) : e \in list} BY <1>2 DEF Transform, Repointed
  <2>3. \A e \in list : To(e).hook = IF e.hook = r.old THEN r.new ELSE e.hook
    BY <2>1 DEF Entry
  <2>4. HooksOf(after) = {IF e.hook = r.old THEN r.new ELSE e.hook : e \in list}
    BY <2>2, <2>3 DEF HooksOf
  <2>5. Doomed(r, list, after) = IF r.new \in HooksOf(after) THEN {r.old} ELSE {r.new}
    BY <1>2 DEF Doomed
  <2>6. r.old # r.new BY <1>2
  <2>7. r.new \in HooksOf(after) <=> r.old \in HooksOf(list)
    BY <2>1, <2>4 DEF HooksOf
  <2>8. HooksOf(after) \subseteq (HooksOf(list) \ {r.old}) \cup {r.new}
    BY <2>4 DEF HooksOf
  <2>9. HooksOf(list) \ {r.old} \subseteq HooksOf(after)
    BY <2>4 DEF HooksOf
  <2>10. QED BY <1>2, <2>1, <2>5, <2>6, <2>7, <2>8, <2>9
<1>3. CASE r.op \notin {"add", "rotate"}
  <2>1. Undo(r) = {} BY <1>3 DEF Shape, Undo
  <2>2. after = list \ r.drop BY <1>3 DEF Transform, Removed, Pruned, Shape
  <2>3. HooksOf(after) \subseteq HooksOf(list) /\ HooksOf(list) \subseteq HooksOf(after) \cup HooksOf(r.drop)
    BY <2>2 DEF HooksOf
  <2>4. CASE r.op = "remove"
    <3>1. Doomed(r, list, after) = HooksOf(list) \ HooksOf(after) BY <2>4 DEF Doomed, Orphaned
    <3>2. QED BY <2>1, <2>3, <2>4, <3>1
  <2>5. CASE r.op = "reconcile"
    <3>1. Doomed(r, list, after) = {} BY <2>5 DEF Doomed
    <3>2. QED BY <2>1, <2>3, <2>5, <3>1
  <2>6. QED BY <1>3, <2>4, <2>5 DEF Shape
<1>4. QED BY <1>1, <1>2, <1>3

\* What a worker has in hand: the webhook it would take back, and those it deletes.
LEMMA Hand ==
  ASSUME Typed, NEW w \in Workers
  PROVE  /\ InHand(req[w]) = Undo(req[w]) \cup req[w].kill
         /\ InHand(req[w]) \subseteq Hooks
         /\ Undo(req[w]) = {req[w].new} \ {NoHook}
BY DEF Typed, TypeOK, Shape, InHand, Undo, Request

\* What the invariant asks of the request of one worker, given who owns what.
Tidy(r) ==
  /\ r.kill \cup HooksOf(r.drop) \cup ({r.old, r.new} \ {NoHook}) \subseteq minted
  /\ r.pc = "apply" => HooksOf(r.seen) \subseteq minted
  /\ r.op = "reconcile" /\ r.pc \in {"lock", "read", "cas"} => HooksOf(r.drop) \cap hooks = {}
  /\ r.op = "rotate" /\ r.pc \in {"read", "cas"} => r.old # r.new

\* The claims about webhooks hold of every request by itself.
LEMMA AllTidy == Owned => \A w \in Workers : Tidy(req[w])
BY DEF Owned, Known, DropIsDead, RotatesToNew, Tidy

\* A step of one worker that moves no webhook and keeps what it has in hand.
LEMMA OwnedFrame ==
  ASSUME Typed, Owned, NEW w \in Workers,
         \A v \in Workers \ {w} : req'[v] = req[v],
         UNCHANGED <<kv, mem, hooks, minted, retired, abandoned, damaged>>,
         Tidy(req'[w]),
         InHand(req'[w]) = InHand(req[w]), Undo(req'[w]) \subseteq Undo(req[w])
  PROVE  Owned'
<1> USE DEF Owned
<1>1. Stored' = Stored BY DEF Stored
<1>2. Known' BY <1>1 DEF Known, Tidy
<1>3. DropIsDead' BY DEF DropIsDead, Tidy
<1>4. (GarbageIsDamage /\ RotatesToNew)' BY DEF GarbageIsDamage, RotatesToNew, Tidy
<1>5. FreshNotRetired' BY DEF FreshNotRetired
<1>6. NoReceiverOnRetiredHook' BY <1>1 DEF NoReceiverOnRetiredHook
<1>7. HooksInHandArePrivate' BY <1>1 DEF HooksInHandArePrivate
<1>8. NoHookLeaks'
  <2>1. \A v \in Workers : InHand(req'[v]) = InHand(req[v]) OBVIOUS
  <2>2. QED BY <1>1, <2>1 DEF NoHookLeaks
<1>9. QED BY <1>2, <1>3, <1>4, <1>5, <1>6, <1>7, <1>8

\* Settling leaves a tidy request with exactly the condemned webhooks in hand.
LEMMA SettledTidy ==
  ASSUME Typed, NEW w \in Workers, NEW doomed, doomed \subseteq minted', Settle(w, doomed)
  PROVE  /\ Tidy(req[w])'
         /\ InHand(req'[w]) = doomed /\ Undo(req'[w]) = {}
<1>1. /\ req'[w].pc \in {"idle", "retire"} /\ req'[w].kill = doomed
      /\ req'[w].new = NoHook /\ req'[w].old = NoHook /\ req'[w].drop = {}
  BY Settled
<1>2. HooksOf({}) = {} BY DEF HooksOf
<1>3. QED BY <1>1, <1>2 DEF Tidy, InHand, Undo

\* Starting a command: its webhook ids come from the pod's memory.
LEMMA OwnedStart ==
  ASSUME Typed, Typed', Owned, NEW w \in Workers, Start(w)
  PROVE  Owned'
<1>0. Pod(w) \in Pods /\ HooksOf({}) = {} BY PodsAssumption DEF Pod, HooksOf
<1>1. req[w].pc = "idle"
  BY StartCases DEF AddBegin, RemoveBegin, RotateBegin, RepairBegin, ReconcileBegin, ReloadRead, Begin, At
<1>2. InHand(req[w]) = {} BY <1>1, Hand DEF Typed, Shape, InHand
<1>3. /\ \A v \in Workers \ {w} : req'[v] = req[v]
      /\ UNCHANGED <<kv, mem, hooks, minted, retired, abandoned, damaged>>
  BY OwnRequestOnly, StartCases DEF AddBegin, RemoveBegin, RotateBegin, RepairBegin, ReconcileBegin,
                        ReloadRead, Begin, history
<1>4. SUFFICES /\ Tidy(req'[w])
               /\ req'[w].new = NoHook /\ req'[w].kill = {}
  <2>1. Undo(req'[w]) = {} /\ InHand(req'[w]) = {} BY <1>4 DEF Undo, InHand
  <2>2. QED BY <1>2, <1>3, <1>4, <2>1, OwnedFrame
<1>5. Idle.old = NoHook /\ \A r : Begin(w, r) => req'[w] = r BY DEF Idle, Begin, Typed, TypeOK
<1>6. ASSUME NEW batch \in SUBSET Names, AddBegin(w, batch)
      PROVE  Tidy(req'[w]) /\ req'[w].new = NoHook /\ req'[w].kill = {}
  <2>1. req'[w] = [Idle EXCEPT !.op = "add", !.pc = "mint", !.names = batch \ NamesOf(mem[Pod(w)]),
                                  !.left = MaxAttempts]
    BY <1>0, <1>5, <1>6 DEF AddBegin, Typed, TypeOK
  <2>2. /\ req'[w].new = NoHook /\ req'[w].kill = {}
        /\ req'[w].pc = "mint" /\ req'[w].drop = {} /\ req'[w].old = NoHook
    BY <2>1, <1>5, IdleShape, IdleFields DEF Request
  <2>3. QED BY <1>0, <2>2 DEF Tidy
<1>7. ASSUME NEW preview \in SUBSET mem[Pod(w)], RemoveBegin(w, preview)
      PROVE  Tidy(req'[w]) /\ req'[w].new = NoHook /\ req'[w].kill = {}
  <2>1. HooksOf(preview) \subseteq minted BY <1>0 DEF Owned, Known, HooksOf
  <2>2. req'[w] = [Idle EXCEPT !.op = "remove", !.pc = "read", !.drop = preview, !.left = MaxAttempts]
    BY <1>0, <1>5, <1>7 DEF RemoveBegin, Typed, TypeOK
  <2>3. /\ req'[w].new = NoHook /\ req'[w].kill = {}
        /\ req'[w].op = "remove" /\ req'[w].pc = "read" /\ req'[w].drop = preview /\ req'[w].old = NoHook
    BY <2>2, <1>5, IdleShape, IdleFields DEF Request
  <2>4. QED BY <1>0, <2>1, <2>3 DEF Tidy
<1>8. ASSUME NEW e \in mem[Pod(w)], RotateBegin(w, e)
      PROVE  Tidy(req'[w]) /\ req'[w].new = NoHook /\ req'[w].kill = {}
  <2>1. e.hook \in minted BY <1>0 DEF Owned, Known, HooksOf
  <2>2. req'[w] = [Idle EXCEPT !.op = "rotate", !.pc = "mint", !.old = e.hook, !.left = MaxAttempts]
    BY <1>0, <1>5, <1>8 DEF RotateBegin, Typed, TypeOK
  <2>3. /\ req'[w].new = NoHook /\ req'[w].kill = {}
        /\ req'[w].pc = "mint" /\ req'[w].drop = {} /\ req'[w].old = e.hook
    BY <2>2, <1>5, IdleShape, IdleFields DEF Request
  <2>4. QED BY <1>0, <2>1, <2>3 DEF Tidy
<1>9. ASSUME RepairBegin(w)
      PROVE  Tidy(req'[w]) /\ req'[w].new = NoHook /\ req'[w].kill = {}
  <2>1. req'[w] = [Idle EXCEPT !.op = "repair", !.pc = "read", !.left = 1]
    BY <1>0, <1>5, <1>9 DEF RepairBegin, Typed, TypeOK
  <2>2. /\ req'[w].new = NoHook /\ req'[w].kill = {}
        /\ req'[w].op = "repair" /\ req'[w].pc = "read" /\ req'[w].drop = {} /\ req'[w].old = NoHook
    BY <2>1, <1>5, IdleShape, IdleFields DEF Request
  <2>3. QED BY <1>0, <2>2 DEF Tidy
<1>10. ASSUME ReconcileBegin(w)
      PROVE  Tidy(req'[w]) /\ req'[w].new = NoHook /\ req'[w].kill = {}
  <2>1. HooksOf(mem[Pod(w)]) \subseteq minted BY <1>0 DEF Owned, Known
  <2>2. req'[w] = [Idle EXCEPT !.op = "reconcile", !.pc = "probe", !.drop = mem[Pod(w)]]
    BY <1>0, <1>5, <1>10 DEF ReconcileBegin, Typed, TypeOK
  <2>3. /\ req'[w].new = NoHook /\ req'[w].kill = {}
        /\ req'[w].pc = "probe" /\ req'[w].drop = mem[Pod(w)] /\ req'[w].old = NoHook
    BY <2>2, <1>5, IdleShape, IdleFields DEF Request
  <2>4. QED BY <1>0, <2>1, <2>3 DEF Tidy
<1>11. ASSUME ReloadRead(w)
      PROVE  Tidy(req'[w]) /\ req'[w].new = NoHook /\ req'[w].kill = {}
  <2>1. HooksOf(kv) \subseteq minted BY <1>11 DEF ReloadRead, Owned, Known, Stored
  <2>2. req'[w] = [Idle EXCEPT !.op = "reload", !.pc = "apply", !.seen = kv]
    BY <1>0, <1>5, <1>11 DEF ReloadRead, Typed, TypeOK
  <2>3. /\ req'[w].new = NoHook /\ req'[w].kill = {}
        /\ req'[w].op = "reload" /\ req'[w].pc = "apply" /\ req'[w].drop = {} /\ req'[w].old = NoHook
        /\ req'[w].seen = kv
    BY <2>2, <1>5, IdleShape, IdleFields DEF Request
  <2>4. QED BY <1>0, <2>1, <2>3 DEF Tidy
<1>12. QED BY StartCases, <1>6, <1>7, <1>8, <1>9, <1>10, <1>11

\* Before the write: a new webhook is nobody else's; the rest moves none.
LEMMA OwnedEarly ==
  ASSUME Typed, Typed', Owned, NEW w \in Workers,
         \/ \E h \in Hooks : Mint(w, h) \/ MintReplyLost(w, h)
         \/ MintFails(w)
         \/ \E dead \in SUBSET HooksOf(req[w].drop) : Probe(w, dead)
         \/ ReconcileLock(w) \/ ReadList(w) \/ ReadGarbage(w) \/ ReadFails(w)
  PROVE  Owned'
<1>0. /\ Pod(w) \in Pods /\ HooksOf({}) = {} /\ req[w] \in Request /\ Shape(req[w]) /\ Tidy(req[w])
      /\ \A v \in Workers \ {w} : req'[v] = req[v]
      /\ Undo(req[w]) \subseteq minted
  BY PodsAssumption, AllTidy, OwnRequestOnly DEF Pod, HooksOf, Progress, Typed, TypeOK, Tidy, Undo
<1>1. ASSUME NEW h \in Hooks, Mint(w, h) PROVE Owned'
  <2>1. /\ req'[w] = [req[w] EXCEPT !.new = h, !.pc = "read"]
        /\ req[w].pc = "mint" /\ h \notin minted /\ minted' = minted \cup {h} /\ hooks' = hooks \cup {h}
        /\ UNCHANGED <<kv, mem, retired, abandoned, damaged>>
    BY <1>1 DEF Mint, At, Typed, TypeOK
  <2>2. /\ req'[w].new = h /\ req'[w].pc = "read" /\ req'[w].kill = {} /\ req'[w].drop = req[w].drop
        /\ req'[w].old = req[w].old /\ req'[w].op = req[w].op /\ req[w].op \in {"add", "rotate"}
        /\ InHand(req[w]) = {}
    BY <1>0, <2>1, Hand DEF Request, Shape, InHand
  <2>3. Undo(req'[w]) = {h} /\ InHand(req'[w]) = {h}
    BY <2>2, NullsAssumption DEF Undo, InHand
  <2>4. \A v \in Workers : InHand(req[v]) \subseteq minted /\ Undo(req[v]) \subseteq minted
    BY Hand DEF Owned, Known, Undo
  <2>5. Stored' = Stored BY <2>1 DEF Stored
  <2>6. req[w].old # h BY <1>0, <2>1, NullsAssumption DEF Tidy
  <2> USE DEF Owned
  <2>7. Known'
    <3>1. ASSUME NEW v \in Workers
          PROVE  /\ req'[v].kill \cup HooksOf(req'[v].drop) \cup ({req'[v].old, req'[v].new} \ {NoHook}) \subseteq minted'
                 /\ req'[v].pc = "apply" => HooksOf(req'[v].seen) \subseteq minted'
      <4>1. CASE v = w BY <1>0, <2>1, <2>2, <4>1 DEF Tidy
      <4>2. CASE v # w BY <1>0, <2>1, <4>2 DEF Known
      <4>3. QED BY <4>1, <4>2
    <3>2. QED BY <2>1, <2>5, <3>1 DEF Known
  <2>8. DropIsDead'
    <3>1. \A v \in Workers : h \notin HooksOf(req[v].drop) BY <2>1 DEF Known
    <3>2. SUFFICES ASSUME NEW v \in Workers, req'[v].op = "reconcile",
                          req'[v].pc \in {"lock", "read", "cas"}
                   PROVE  HooksOf(req'[v].drop) \cap hooks' = {}
      BY DEF DropIsDead
    <3>3. v # w BY <2>2, <3>2
    <3>4. req'[v] = req[v] BY <1>0, <3>3
    <3>5. HooksOf(req[v].drop) \cap hooks = {} BY <3>2, <3>4 DEF DropIsDead
    <3>6. QED BY <2>1, <3>1, <3>4, <3>5
  <2>9. (GarbageIsDamage /\ RotatesToNew)'
    <3>1. req'[w].old # req'[w].new BY <2>2, <2>6
    <3>2. RotatesToNew' BY <1>0, <3>1 DEF RotatesToNew
    <3>3. QED BY <2>1, <3>2 DEF GarbageIsDamage
  <2>10. FreshNotRetired' /\ NoReceiverOnRetiredHook' /\ HooksInHandArePrivate'
    BY <1>0, <2>1, <2>3, <2>4, <2>5
       DEF FreshNotRetired, NoReceiverOnRetiredHook, HooksInHandArePrivate, Known
  <2>11. NoHookLeaks'
    BY <1>0, <2>1, <2>2, <2>3, <2>5 DEF NoHookLeaks
  <2>12. QED BY <2>7, <2>8, <2>9, <2>10, <2>11
<1>2. ASSUME NEW h \in Hooks, MintReplyLost(w, h) PROVE Owned'
  <2>1. Settle(w, {}) BY <1>2 DEF MintReplyLost, Settle
  <2>2. /\ hooks' = hooks \cup {h} /\ minted' = minted \cup {h} /\ abandoned' = abandoned \cup {h}
        /\ h \notin minted /\ UNCHANGED <<kv, mem, retired, damaged>> /\ req[w].pc = "mint"
    BY <1>2 DEF MintReplyLost, At
  <2>3. Tidy(req[w])' /\ InHand(req'[w]) = {} /\ Undo(req'[w]) = {} BY <2>1, SettledTidy
  <2>4. InHand(req[w]) = {} BY <1>0, <2>2 DEF Shape, InHand
  <2>5. Stored' = Stored BY <2>2 DEF Stored
  <2> USE DEF Owned
  <2>6. Known' BY <1>0, <2>2, <2>3, <2>5 DEF Known, Tidy
  <2>7. DropIsDead'
    <3>1. \A v \in Workers : HooksOf(req[v].drop) \subseteq minted BY DEF Known
    <3>2. QED BY <1>0, <2>2, <2>3, <3>1 DEF DropIsDead, Tidy
  <2>8. (GarbageIsDamage /\ RotatesToNew)' BY <1>0, <2>2, <2>3 DEF GarbageIsDamage, RotatesToNew, Tidy
  <2>9. FreshNotRetired' /\ NoReceiverOnRetiredHook' /\ HooksInHandArePrivate'
    BY <1>0, <2>2, <2>3, <2>5 DEF FreshNotRetired, NoReceiverOnRetiredHook, HooksInHandArePrivate
  <2>10. NoHookLeaks'
    BY <1>0, <2>2, <2>3, <2>4, <2>5 DEF NoHookLeaks
  <2>11. QED BY <2>6, <2>7, <2>8, <2>9, <2>10
<1>3. CASE MintFails(w)
  <2>1. Settle(w, {}) /\ req[w].pc = "mint" BY <1>3 DEF MintFails, Settle, At
  <2>2. InHand(req[w]) = {} BY <1>0, <2>1 DEF Shape, InHand
  <2>3. UNCHANGED <<kv, mem, hooks, minted, retired, abandoned, damaged>> BY <1>3 DEF MintFails, history
  <2>4. Tidy(req'[w]) /\ InHand(req'[w]) = {} /\ Undo(req'[w]) = {}
    BY <2>1, <2>3, SettledTidy DEF Tidy
  <2>5. QED BY <1>0, <2>2, <2>3, <2>4, OwnedFrame
<1>4. ASSUME NEW dead \in SUBSET HooksOf(req[w].drop), Probe(w, dead) PROVE Owned'
  <2> DEFINE orphans == {e \in req[w].drop : e.hook \in dead}
             r == [req[w] EXCEPT !.pc = "lock", !.drop = orphans]
  <2>1. req[w].pc = "probe" /\ dead \cap hooks = {} BY <1>4 DEF Probe, At
  <2>2. UNCHANGED <<kv, mem, hooks, minted, retired, abandoned, damaged>> BY <1>4 DEF Probe, history
  <2>3. req'[w] = Idle \/ req'[w] = r BY <1>4 DEF Probe, Typed, TypeOK
  <2>4. HooksOf(orphans) \subseteq minted /\ HooksOf(orphans) \cap hooks = {}
    BY <1>0, <2>1 DEF HooksOf, Tidy
  <2>5. CASE req'[w] = r
    <3>1. /\ r.pc = "lock" /\ r.drop = orphans /\ r.kill = req[w].kill /\ r.old = req[w].old
          /\ r.new = req[w].new /\ r.op = req[w].op
      BY <1>0 DEF Request
    <3>2. Tidy(r) BY <1>0, <2>4, <3>1 DEF Tidy
    <3>3. InHand(r) = InHand(req[w]) /\ Undo(r) = Undo(req[w]) BY <2>1, <3>1 DEF InHand, Undo
    <3>4. QED BY <1>0, <2>2, <2>5, <3>2, <3>3, OwnedFrame
  <2>6. CASE req'[w] = Idle
    <3>1. Tidy(Idle) /\ InHand(Idle) = {} /\ Undo(Idle) = {} BY <1>0 DEF Idle, Tidy, InHand, Undo
    <3>2. InHand(req[w]) = {} BY <1>0, <2>1 DEF Shape, InHand
    <3>3. QED BY <1>0, <2>2, <2>6, <3>1, <3>2, OwnedFrame
  <2>7. QED BY <2>3, <2>5, <2>6
<1>5. CASE ReconcileLock(w)
  <2> DEFINE r == [req[w] EXCEPT !.pc = "read", !.left = MaxAttempts]
  <2>1. req'[w] = r /\ req[w].pc = "lock" BY <1>5 DEF ReconcileLock, At, Typed, TypeOK
  <2>2. UNCHANGED <<kv, mem, hooks, minted, retired, abandoned, damaged>> BY <1>5 DEF ReconcileLock, history
  <2>3. /\ r.pc = "read" /\ r.drop = req[w].drop /\ r.kill = req[w].kill /\ r.old = req[w].old
        /\ r.new = req[w].new /\ r.op = req[w].op
    BY <1>0 DEF Request
  <2>4. Tidy(r) BY <1>0, <2>1, <2>3 DEF Tidy, Shape
  <2>5. InHand(r) = InHand(req[w]) /\ Undo(r) = Undo(req[w])
    BY <1>0, <2>1, <2>3 DEF InHand, Undo, Shape
  <2>6. QED BY <1>0, <2>1, <2>2, <2>4, <2>5, OwnedFrame
<1>6. CASE ReadList(w) \/ ReadGarbage(w)
  <2> DEFINE r == [req[w] EXCEPT !.seen = kv, !.pc = "cas"]
  <2>1. req'[w] = r /\ req[w].pc = "read" BY <1>6 DEF ReadList, ReadGarbage, At, Typed, TypeOK
  <2>2. UNCHANGED <<kv, mem, hooks, minted, retired, abandoned, damaged>>
    BY <1>6 DEF ReadList, ReadGarbage, history
  <2>3. /\ r.pc = "cas" /\ r.drop = req[w].drop /\ r.kill = req[w].kill /\ r.old = req[w].old
        /\ r.new = req[w].new /\ r.op = req[w].op
    BY <1>0 DEF Request
  <2>4. Tidy(r) BY <1>0, <2>1, <2>3 DEF Tidy
  <2>5. InHand(r) = InHand(req[w]) /\ Undo(r) = Undo(req[w])
    BY <2>1, <2>3 DEF InHand, Undo
  <2>6. QED BY <1>0, <2>1, <2>2, <2>4, <2>5, OwnedFrame
<1>7. CASE ReadFails(w)
  <2>1. Settle(w, Undo(req[w])) /\ InHand(req[w]) = Undo(req[w]) BY <1>7 DEF ReadFails, At, InHand
  <2>2. UNCHANGED <<kv, mem, hooks, minted, retired, abandoned, damaged>> BY <1>7 DEF ReadFails, history
  <2>3. Tidy(req'[w]) /\ InHand(req'[w]) = InHand(req[w]) /\ Undo(req'[w]) = {}
    BY <1>0, <2>1, <2>2, SettledTidy DEF Tidy
  <2>4. QED BY <1>0, <2>2, <2>3, OwnedFrame
<1>8. QED BY <1>1, <1>2, <1>3, <1>4, <1>5, <1>6, <1>7

\* Whatever happened before, a write involves only ids the command knows.
LEMMA WriteKnown ==
  ASSUME NEW r \in Request, Shape(r), r.pc = "cas", r.op # "repair",
         NEW list \in SUBSET Entry, NEW copy, NEW after, after = Transform(r, list, copy)
  PROVE  HooksOf(after) \cup Doomed(r, list, after) \subseteq
           HooksOf(list) \cup ({r.old, r.new} \ {NoHook})
<1>1. CASE r.op = "add"
  <2>1. r.new # NoHook /\ after = list \cup [name : r.names, hook : {r.new}]
    BY <1>1 DEF Shape, Transform, Added
  <2>2. HooksOf(after) \subseteq HooksOf(list) \cup {r.new} BY <2>1 DEF HooksOf
  <2>3. QED BY <1>1, <2>1, <2>2 DEF Doomed
<1>2. CASE r.op = "rotate"
  <2>1. r.old \in Hooks /\ r.new \in Hooks BY <1>2 DEF Shape, Request
  <2> DEFINE To(e) == IF e.hook = r.old THEN [e EXCEPT !.hook = r.new] ELSE e
  <2>2. after = {To(e) : e \in list} BY <1>2 DEF Transform, Repointed
  <2>3. \A e \in list : To(e).hook = IF e.hook = r.old THEN r.new ELSE e.hook
    BY <2>1 DEF Entry
  <2>4. HooksOf(after) \subseteq HooksOf(list) \cup {r.new} BY <2>2, <2>3 DEF HooksOf
  <2>5. QED BY <1>2, <2>1, <2>4, NullsAssumption DEF Doomed
<1>3. CASE r.op \notin {"add", "rotate"}
  <2>1. after = list \ r.drop BY <1>3 DEF Transform, Removed, Pruned, Shape
  <2>2. HooksOf(after) \subseteq HooksOf(list) BY <2>1 DEF HooksOf
  <2>3. QED BY <1>3, <2>2 DEF Doomed, Orphaned
<1>4. QED BY <1>1, <1>2, <1>3

\* The ids in what a worker writes, and in what it then deletes, were handed out.
LEMMA WrittenKnown ==
  ASSUME Typed, Known, NEW w \in Workers, req[w].pc = "cas", kv = req[w].seen
  PROVE  /\ HooksOf(Written(w)) \subseteq minted
         /\ Doomed(req[w], req[w].seen, Written(w)) \subseteq minted
<1>1. CASE req[w].op = "repair"
  BY <1>1, PodsAssumption DEF Written, Transform, Doomed, Known, Pod
<1>2. CASE req[w].op # "repair"
  <2>1. req[w].seen \in SUBSET Entry /\ req[w] \in Request /\ Shape(req[w]) /\ kv # Garbage
    BY <1>2 DEF Typed, TypeOK, Request, Shape
  <2>2. HooksOf(req[w].seen) \subseteq minted BY <2>1 DEF Known, Stored
  <2>3. QED BY <1>2, <2>1, <2>2, WriteKnown DEF Written, Known
<1>3. QED BY <1>1, <1>2

\* The write commits: the list and what the worker has in hand change together.
LEMMA OwnedCommit ==
  ASSUME Typed, Typed', Owned, NEW w \in Workers, Commit(w)
  PROVE  Owned'
<1> DEFINE doomed == Doomed(req[w], req[w].seen, Written(w))
<1>0. /\ Pod(w) \in Pods /\ req[w] \in Request /\ Shape(req[w]) /\ Tidy(req[w])
      /\ \A v \in Workers \ {w} : req'[v] = req[v]
      /\ req[w].pc = "cas" /\ Written(w) \in SUBSET Entry /\ Written(w) # Garbage
  <2>1. req[w].pc = "cas" BY DEF Commit, At
  <2>2. Written(w) \in SUBSET Entry BY <2>1, NextType
  <2>3. QED
    BY <2>1, <2>2, PodsAssumption, GarbageAssumption, AllTidy, OwnRequestOnly
       DEF Pod, Progress, Typed, TypeOK
<1>1. /\ kv = req[w].seen /\ kv' = Written(w) /\ mem' = [mem EXCEPT ![Pod(w)] = Written(w)]
      /\ Settle(w, doomed)
      /\ UNCHANGED <<hooks, minted, retired, abandoned, damaged>>
  BY DEF Commit, Written, history
<1>2. InHand(req[w]) = Undo(req[w]) /\ Undo(req[w]) \subseteq minted
  BY <1>0 DEF InHand, Undo, Tidy
<1>3. Stored' = Written(w) BY <1>0, <1>1 DEF Stored
<1>4. ASSUME req[w].op # "repair", ~damaged
      PROVE  /\ Stored = req[w].seen
             /\ HooksOf(Written(w)) \subseteq HooksOf(Stored) \cup Undo(req[w])
             /\ doomed \cap HooksOf(Written(w)) = {}
             /\ doomed \subseteq HooksOf(Stored) \cup Undo(req[w])
             /\ HooksOf(Stored) \cup Undo(req[w]) \subseteq
                  HooksOf(Written(w)) \cup doomed
                    \cup (IF req[w].op = "reconcile" THEN HooksOf(req[w].drop) ELSE {})
  <2>1. Stored = req[w].seen /\ req[w].seen \in SUBSET Entry
    BY <1>0, <1>1, <1>4 DEF Stored, Shape, Request
  <2>2. Undo(req[w]) \cap HooksOf(Stored) = {}
    BY <1>2, <1>4 DEF Owned, HooksInHandArePrivate
  <2>3. req[w].op = "rotate" => req[w].old # req[w].new BY <1>0 DEF Tidy
  <2>4. QED BY <1>0, <1>4, <2>1, <2>2, <2>3, WriteHooks DEF Written
<1>5. req[w].op = "repair" => damaged
  BY <1>0, <1>1 DEF Shape, Owned, GarbageIsDamage
<1>6. HooksOf(Written(w)) \subseteq minted /\ doomed \subseteq minted
  BY <1>0, <1>1, WrittenKnown DEF Owned
<1>7. Tidy(req[w])' /\ InHand(req'[w]) = doomed /\ Undo(req'[w]) = {}
  BY <1>1, <1>6, SettledTidy
<1> USE DEF Owned
<1>8. Known'
  <2>1. \A p \in Pods : HooksOf(mem'[p]) \subseteq minted
    BY <1>0, <1>1, <1>6 DEF Known, Typed, TypeOK
  <2>2. QED BY <1>0, <1>1, <1>3, <1>6, <1>7, <2>1 DEF Known, Tidy
<1>9. DropIsDead' BY <1>0, <1>1, <1>7 DEF DropIsDead, Tidy
<1>10. (GarbageIsDamage /\ RotatesToNew)'
  <2>1. RotatesToNew' BY <1>0, <1>7 DEF RotatesToNew, Tidy
  <2>2. QED BY <1>0, <1>1, <2>1 DEF GarbageIsDamage
<1>11. ASSUME ~damaged PROVE (FreshNotRetired /\ NoReceiverOnRetiredHook /\ HooksInHandArePrivate /\ NoHookLeaks)'
  <2> DEFINE B == HooksOf(Stored)
             A == HooksOf(Written(w))
             U == Undo(req[w])
  <2>1. /\ A \subseteq B \cup U /\ doomed \cap A = {} /\ doomed \subseteq B \cup U
        /\ (B \cup U) \cap hooks \subseteq A \cup doomed
    BY <1>0, <1>4, <1>5, <1>11 DEF Tidy
  <2>2. HooksOf(Stored)' = A BY <1>3 DEF HooksOf
  <2>3. FreshNotRetired' BY <1>0, <1>1, <1>7 DEF FreshNotRetired
  <2>4. NoReceiverOnRetiredHook'
    BY <1>1, <1>11, <2>1, <2>2 DEF NoReceiverOnRetiredHook, FreshNotRetired
  <2>5. HooksInHandArePrivate'
    <3>1. \A v \in Workers \ {w} :
            /\ InHand(req[v]) \cap (B \cup U) = {}
            /\ Undo(req[v]) \cap (B \cup U) = {}
      BY <1>2, <1>11, Hand DEF HooksInHandArePrivate
    <3> HIDE DEF doomed, A, B, U
    <3>2. \A v \in Workers : InHand(req'[v]) \cap A = {}
      BY <1>0, <1>7, <2>1, <3>1
    <3>3. \A v \in Workers, u \in Workers : u # v => InHand(req'[v]) \cap Undo(req'[u]) = {}
      <4>1. \A v \in Workers : \A u \in Workers \ {v} : InHand(req[v]) \cap Undo(req[u]) = {}
        BY <1>11 DEF HooksInHandArePrivate
      <4>2. QED BY <1>0, <1>7, <2>1, <3>1, <4>1
    <3>4. QED BY <2>2, <3>2, <3>3 DEF HooksInHandArePrivate
  <2>6. NoHookLeaks'
    <3>1. hooks \subseteq B \cup abandoned \cup UNION {InHand(req[v]) : v \in Workers}
      BY <1>11 DEF NoHookLeaks
    <3> HIDE DEF doomed, A, B, U
    <3>2. ASSUME NEW h \in hooks
          PROVE  h \in A \cup abandoned \cup UNION {InHand(req'[v]) : v \in Workers}
      <4>1. CASE h \in B \cup U
        BY <1>7, <2>1, <3>2, <4>1
      <4>2. CASE h \in abandoned
        BY <4>2
      <4>3. CASE h \in UNION {InHand(req[v]) : v \in Workers}
        <5>1. PICK v \in Workers : h \in InHand(req[v]) BY <4>3
        <5>2. CASE v = w BY <1>2, <4>1, <5>1, <5>2 DEF U
        <5>3. CASE v # w BY <1>0, <5>1, <5>3
        <5>4. QED BY <5>2, <5>3
      <4>4. QED BY <3>1, <4>1, <4>2, <4>3
    <3>3. QED BY <1>1, <2>2, <3>2 DEF NoHookLeaks
  <2>7. QED BY <2>3, <2>4, <2>5, <2>6
<1>12. CASE damaged
  <2>1. damaged' BY <1>1, <1>12
  <2>2. QED
    BY <1>8, <1>9, <1>10, <2>1
       DEF FreshNotRetired, NoReceiverOnRetiredHook, HooksInHandArePrivate, NoHookLeaks
<1>13. QED BY <1>8, <1>9, <1>10, <1>11, <1>12

\* Losing the compare-and-set, and a lying reply.
LEMMA OwnedCasFails ==
  ASSUME Typed, Typed', Owned, NEW w \in Workers, CasLost(w) \/ CasError(w) \/ CasReplyLost(w)
  PROVE  Owned'
<1>0. /\ req[w] \in Request /\ Shape(req[w]) /\ Tidy(req[w])
      /\ \A v \in Workers \ {w} : req'[v] = req[v]
      /\ req[w].pc = "cas" /\ InHand(req[w]) = Undo(req[w]) /\ Undo(req[w]) \subseteq minted
  BY AllTidy, OwnRequestOnly
     DEF CasLost, CasError, CasReplyLost, At, InHand, Undo, Tidy, Progress, Typed, TypeOK
<1>1. ASSUME Settle(w, Undo(req[w])), UNCHANGED <<kv, mem, hooks, minted, retired, abandoned, damaged>>
      PROVE  Owned'
  <2>1. Tidy(req'[w]) /\ InHand(req'[w]) = InHand(req[w]) /\ Undo(req'[w]) = {}
    BY <1>0, <1>1, SettledTidy DEF Tidy
  <2>2. QED BY <1>0, <1>1, <2>1, OwnedFrame
<1>2. CASE CasError(w)
  BY <1>1, <1>2 DEF CasError, history
<1>3. CASE CasLost(w)
  <2>1. UNCHANGED <<kv, mem, hooks, minted, retired, abandoned, damaged>> BY <1>3 DEF CasLost, history
  <2>2. CASE req[w].left > 1
    <3> DEFINE r == [req[w] EXCEPT !.pc = "read", !.seen = {}, !.left = @ - 1]
    <3>1. req'[w] = r BY <1>3, <2>2 DEF CasLost, Typed, TypeOK
    <3>2. /\ r.pc = "read" /\ r.drop = req[w].drop /\ r.kill = req[w].kill /\ r.old = req[w].old
          /\ r.new = req[w].new /\ r.op = req[w].op
      BY <1>0 DEF Request
    <3>3. Tidy(r) BY <1>0, <3>2 DEF Tidy
    <3>4. InHand(r) = InHand(req[w]) /\ Undo(r) = Undo(req[w]) BY <1>0, <3>2 DEF InHand, Undo
    <3>5. QED BY <1>0, <2>1, <3>1, <3>3, <3>4, OwnedFrame
  <2>3. CASE ~(req[w].left > 1)
    BY <1>1, <1>3, <2>1, <2>3 DEF CasLost
  <2>4. QED BY <2>2, <2>3
<1>4. CASE CasReplyLost(w)
  <2>1. /\ kv = req[w].seen /\ kv' = Written(w) /\ damaged' = TRUE
        /\ Settle(w, Undo(req[w])) /\ UNCHANGED <<mem, hooks, minted, retired, abandoned>>
    BY <1>4 DEF CasReplyLost, Written
  <2>2. Tidy(req[w])' BY <1>0, <2>1, SettledTidy
  <2>3. HooksOf(Stored)' \subseteq minted
    <3>1. HooksOf({}) = {} BY DEF HooksOf
    <3>2. HooksOf(Written(w)) \subseteq minted BY <1>0, <2>1, WrittenKnown DEF Owned
    <3>3. QED BY <2>1, <3>1, <3>2 DEF Stored
  <2> USE DEF Owned
  <2>4. Known' BY <1>0, <2>1, <2>2, <2>3 DEF Known, Tidy
  <2>5. DropIsDead' BY <1>0, <2>1, <2>2 DEF DropIsDead, Tidy
  <2>6. RotatesToNew' BY <1>0, <2>2 DEF RotatesToNew, Tidy
  <2>7. QED
    BY <2>1, <2>4, <2>5, <2>6
       DEF GarbageIsDamage, FreshNotRetired, NoReceiverOnRetiredHook, HooksInHandArePrivate, NoHookLeaks
<1>5. QED BY <1>2, <1>3, <1>4

\* Deleting a webhook in hand, or failing to.
LEMMA OwnedRetire ==
  ASSUME Typed, Typed', Owned, NEW w \in Workers, NEW h \in req[w].kill,
         Retire(w, h) \/ RetireFails(w, h)
  PROVE  Owned'
<1>0. /\ req[w] \in Request /\ Shape(req[w]) /\ Tidy(req[w])
      /\ \A v \in Workers \ {w} : req'[v] = req[v]
      /\ req[w].pc = "retire" /\ InHand(req[w]) = req[w].kill /\ Undo(req[w]) = {}
      /\ req[w].kill \subseteq minted
  BY AllTidy, OwnRequestOnly
     DEF Retire, RetireFails, At, InHand, Undo, Tidy, Progress, Typed, TypeOK, Shape
<1>1. /\ UNCHANGED <<kv, mem, minted, damaged>> /\ Settle(w, req[w].kill \ {h})
      /\ \/ hooks' = hooks \ {h} /\ retired' = retired \cup {h} /\ abandoned' = abandoned
         \/ hooks' = hooks /\ retired' = retired /\ abandoned' = abandoned \cup {h}
  BY DEF Retire, RetireFails
<1>2. Tidy(req[w])' /\ InHand(req'[w]) = req[w].kill \ {h} /\ Undo(req'[w]) = {}
  BY <1>0, <1>1, SettledTidy
<1>3. Stored' = Stored BY <1>1 DEF Stored
<1> USE DEF Owned
<1>4. Known' BY <1>0, <1>1, <1>2, <1>3 DEF Known, Tidy
<1>5. DropIsDead' BY <1>0, <1>1, <1>2 DEF DropIsDead, Tidy
<1>6. (GarbageIsDamage /\ RotatesToNew)'
  <2>1. RotatesToNew' BY <1>0, <1>2 DEF RotatesToNew, Tidy
  <2>2. QED BY <1>1, <2>1 DEF GarbageIsDamage
<1>7. FreshNotRetired'
  BY <1>0, <1>1, <1>2 DEF FreshNotRetired, HooksInHandArePrivate
<1>8. NoReceiverOnRetiredHook'
  BY <1>0, <1>1, <1>3 DEF NoReceiverOnRetiredHook, HooksInHandArePrivate
<1>9. HooksInHandArePrivate'
  BY <1>0, <1>1, <1>2, <1>3 DEF HooksInHandArePrivate
<1>10. NoHookLeaks'
  <2>1. ASSUME NEW g \in hooks', ~damaged,
               g \in UNION {InHand(req[v]) : v \in Workers}
        PROVE  g \in abandoned' \cup UNION {InHand(req'[v]) : v \in Workers}
    <3>1. PICK v \in Workers : g \in InHand(req[v]) BY <2>1
    <3>2. CASE v = w BY <1>0, <1>1, <1>2, <2>1, <3>1, <3>2
    <3>3. CASE v # w BY <1>0, <3>1, <3>3
    <3>4. QED BY <3>2, <3>3
  <2>2. QED BY <1>1, <1>3, <2>1 DEF NoHookLeaks
<1>11. QED BY <1>4, <1>5, <1>6, <1>7, <1>8, <1>9, <1>10

\* A reload changes only what its pod has in memory.
LEMMA OwnedReload ==
  ASSUME Typed, Typed', Owned, NEW w \in Workers, ReloadApply(w)
  PROVE  Owned'
<1>0. /\ req[w] \in Request /\ Shape(req[w]) /\ Tidy(req[w]) /\ Pod(w) \in Pods
      /\ \A v \in Workers \ {w} : req'[v] = req[v]
      /\ req[w].pc = "apply" /\ InHand(req[w]) = {} /\ HooksOf(req[w].seen) \subseteq minted
  BY AllTidy, OwnRequestOnly, PodsAssumption
     DEF ReloadApply, At, InHand, Tidy, Progress, Typed, TypeOK, Shape, Pod
<1>1. /\ mem' = [mem EXCEPT ![Pod(w)] = req[w].seen] /\ Settle(w, {})
      /\ UNCHANGED <<kv, hooks, minted, retired, abandoned, damaged>>
  BY DEF ReloadApply, Settle, history
<1>2. Tidy(req[w])' /\ InHand(req'[w]) = {} /\ Undo(req'[w]) = {} BY <1>1, SettledTidy
<1>3. Stored' = Stored BY <1>1 DEF Stored
<1>4. \A v \in Workers : InHand(req'[v]) = InHand(req[v]) BY <1>0, <1>2
<1> USE DEF Owned
<1>5. Known'
  <2>1. \A p \in Pods : HooksOf(mem'[p]) \subseteq minted
    BY <1>0, <1>1 DEF Known, Typed, TypeOK
  <2>2. QED BY <1>0, <1>1, <1>2, <1>3, <2>1 DEF Known, Tidy
<1>6. DropIsDead' BY <1>0, <1>1, <1>2 DEF DropIsDead, Tidy
<1>7. (GarbageIsDamage /\ RotatesToNew)'
  <2>1. RotatesToNew' BY <1>0, <1>2 DEF RotatesToNew, Tidy
  <2>2. QED BY <1>1, <2>1 DEF GarbageIsDamage
<1>8. FreshNotRetired' /\ NoReceiverOnRetiredHook'
  BY <1>0, <1>1, <1>2, <1>3 DEF FreshNotRetired, NoReceiverOnRetiredHook
<1>9. HooksInHandArePrivate' BY <1>0, <1>1, <1>2, <1>3, <1>4 DEF HooksInHandArePrivate
<1>10. NoHookLeaks' BY <1>1, <1>3, <1>4 DEF NoHookLeaks
<1>11. QED BY <1>5, <1>6, <1>7, <1>8, <1>9, <1>10

\* Crashes, restarts, outside deletions and corruption.
LEMMA OwnedEnvironment == ASSUME Typed, Typed', Owned, Environment PROVE Owned'
<1>0. HooksOf({}) = {} BY DEF HooksOf
<1>1. ASSUME NEW p \in Pods, Crash(p) PROVE Owned'
  <2> DEFINE dying == {v \in Workers : Pod(v) = p}
  <2>1. /\ UNCHANGED <<kv, hooks, minted, retired, damaged>>
        /\ mem' = [mem EXCEPT ![p] = {}]
        /\ abandoned' = abandoned \cup UNION {InHand(req[v]) : v \in dying}
        /\ \A v \in Workers : req'[v] = IF Pod(v) = p THEN Idle ELSE req[v]
    BY <1>1 DEF Crash
  <2>2. Tidy(Idle) /\ InHand(Idle) = {} /\ Undo(Idle) = {}
    BY <1>0 DEF Idle, Tidy, InHand, Undo
  <2>3. Stored' = Stored BY <2>1 DEF Stored
  <2>4. \A v \in Workers : /\ Tidy(req'[v])
                           /\ InHand(req'[v]) \subseteq InHand(req[v]) /\ Undo(req'[v]) \subseteq Undo(req[v])
    BY <2>1, <2>2, AllTidy
  <2> USE DEF Owned
  <2>5. Known'
    <3>1. \A q \in Pods : HooksOf(mem'[q]) \subseteq minted
      BY <1>0, <2>1 DEF Known, Typed, TypeOK
    <3>2. QED BY <2>1, <2>3, <2>4, <3>1 DEF Known, Tidy
  <2>6. (DropIsDead /\ RotatesToNew)' BY <2>1, <2>4 DEF DropIsDead, RotatesToNew, Tidy
  <2>7. GarbageIsDamage' /\ NoReceiverOnRetiredHook' BY <2>1, <2>3 DEF GarbageIsDamage, NoReceiverOnRetiredHook
  <2>8. FreshNotRetired' BY <2>1, <2>4 DEF FreshNotRetired
  <2>9. HooksInHandArePrivate'
    <3>1. CASE damaged BY <2>1, <3>1 DEF HooksInHandArePrivate
    <3>2. CASE ~damaged
      <4>1. \A v \in Workers : InHand(req'[v]) \cap HooksOf(Stored) = {}
        BY <2>4, <3>2 DEF HooksInHandArePrivate
      <4>2. \A v \in Workers : \A u \in Workers \ {v} : InHand(req'[v]) \cap Undo(req'[u]) = {}
        BY <2>4, <3>2 DEF HooksInHandArePrivate
      <4>3. QED BY <2>3, <4>1, <4>2 DEF HooksInHandArePrivate
    <3>3. QED BY <3>1, <3>2
  <2>10. NoHookLeaks'
    <3>1. ASSUME NEW h, h \in UNION {InHand(req[v]) : v \in Workers}
          PROVE  h \in abandoned' \cup UNION {InHand(req'[v]) : v \in Workers}
      <4>1. PICK v \in Workers : h \in InHand(req[v]) BY <3>1
      <4>2. CASE v \in dying BY <2>1, <4>1, <4>2
      <4>3. CASE v \notin dying BY <2>1, <4>1, <4>3
      <4>4. QED BY <4>2, <4>3
    <3>2. abandoned \subseteq abandoned' BY <2>1
    <3>3. QED BY <2>1, <2>3, <3>1, <3>2 DEF NoHookLeaks
  <2>11. QED BY <2>5, <2>6, <2>7, <2>8, <2>9, <2>10
<1> USE DEF Owned
<1>2. ASSUME NEW p \in Pods, Restart(p) PROVE Owned'
  <2>1. /\ UNCHANGED <<kv, req, hooks, minted, retired, abandoned, damaged>>
        /\ \E loaded \in {Stored, {}} : mem' = [mem EXCEPT ![p] = loaded]
    BY <1>2 DEF Restart, history
  <2>2. Stored' = Stored BY <2>1 DEF Stored
  <2>3. \A q \in Pods : HooksOf(mem'[q]) \subseteq minted
    BY <1>0, <2>1 DEF Known, Typed, TypeOK
  <2>4. Known' BY <2>1, <2>2, <2>3 DEF Known
  <2>5. QED
    BY <2>1, <2>2, <2>4
       DEF DropIsDead, GarbageIsDamage, RotatesToNew, FreshNotRetired,
           NoReceiverOnRetiredHook, HooksInHandArePrivate, NoHookLeaks
<1>3. ASSUME NEW h \in Hooks, DeleteOutOfBand(h) PROVE Owned'
  <2>1. UNCHANGED <<kv, mem, req, minted, retired, abandoned, damaged>> /\ hooks' = hooks \ {h}
    BY <1>3 DEF DeleteOutOfBand, history
  <2>2. Stored' = Stored BY <2>1 DEF Stored
  <2>3. QED
    BY <2>1, <2>2
       DEF Known, DropIsDead, GarbageIsDamage, RotatesToNew, FreshNotRetired,
           NoReceiverOnRetiredHook, HooksInHandArePrivate, NoHookLeaks
<1>4. CASE Corrupt
  <2>1. /\ kv' = Garbage /\ damaged' = TRUE /\ UNCHANGED <<mem, req, hooks, minted, retired, abandoned>>
    BY <1>4 DEF Corrupt
  <2>2. Stored' = {} BY <2>1 DEF Stored
  <2>3. QED
    BY <1>0, <2>1, <2>2
       DEF Known, DropIsDead, GarbageIsDamage, RotatesToNew, FreshNotRetired,
           NoReceiverOnRetiredHook, HooksInHandArePrivate, NoHookLeaks
<1>5. QED BY <1>1, <1>2, <1>3, <1>4 DEF Environment

\* With no webhook created nothing can be shared or lost.
LEMMA OwnedInit == Init => Owned
<1> SUFFICES ASSUME Init PROVE Owned
  OBVIOUS
<1>1. Tidy(Idle) /\ InHand(Idle) = {} /\ Undo(Idle) = {} BY DEF Idle, Tidy, InHand, Undo, HooksOf
<1>2. HooksOf({}) = {} BY DEF HooksOf
<1>3. Stored = {} BY DEF Init, Stored
<1>4. \A w \in Workers : req[w] = Idle BY DEF Init
<1>5. Known BY <1>1, <1>2, <1>3, <1>4 DEF Init, Known, Tidy
<1>6. DropIsDead /\ RotatesToNew BY <1>1, <1>4 DEF DropIsDead, RotatesToNew, Tidy
<1>7. GarbageIsDamage BY GarbageAssumption DEF Init, GarbageIsDamage
<1>8. FreshNotRetired /\ NoReceiverOnRetiredHook /\ HooksInHandArePrivate /\ NoHookLeaks
  BY <1>1, <1>2, <1>3, <1>4
     DEF Init, FreshNotRetired, NoReceiverOnRetiredHook, HooksInHandArePrivate, NoHookLeaks
<1>9. QED BY <1>5, <1>6, <1>7, <1>8 DEF Owned

\* No step of a worker or of its surroundings breaks the claims about webhooks.
LEMMA OwnedStep == Typed /\ Owned /\ [Next]_vars => Owned'
<1>1. ASSUME Typed, Owned, UNCHANGED vars PROVE Owned'
  <2>1. Stored' = Stored BY <1>1 DEF vars, Stored
  <2>2. QED
    BY <1>1, <2>1
       DEF vars, Owned, Known, DropIsDead, GarbageIsDamage, RotatesToNew, FreshNotRetired,
           NoReceiverOnRetiredHook, HooksInHandArePrivate, NoHookLeaks
<1>2. ASSUME Typed, Owned, NEW w \in Workers, Progress(w) PROVE Owned'
  <2>1. Typed' BY <1>2, TypedStep DEF Next
  <2>2. QED
    BY <1>2, <2>1, OwnedEarly, OwnedCommit, OwnedCasFails, OwnedRetire, OwnedReload DEF Progress
<1>3. QED
  BY <1>1, <1>2, TypedStep, OwnedStart, OwnedEnvironment DEF Next

\* Rotation, removal and rollback never leave a stored receiver on a webhook the
\* plugin deleted, unless the stored value was damaged.
THEOREM NeverOnRetiredHook == Spec => []NoReceiverOnRetiredHook
<1>1. Owned => NoReceiverOnRetiredHook BY DEF Owned
<1>2. QED BY <1>1, TypedInit, TypedStep, OwnedInit, OwnedStep, PTL DEF Spec

\* Commands never meet on a webhook.
THEOREM HandsArePrivate == Spec => []HooksInHandArePrivate
<1>1. Owned => HooksInHandArePrivate BY DEF Owned
<1>2. QED BY <1>1, TypedInit, TypedStep, OwnedInit, OwnedStep, PTL DEF Spec

\* Every webhook in Mattermost is accounted for.
THEOREM NoHookEverLeaks == Spec => []NoHookLeaks
<1>1. Owned => NoHookLeaks BY DEF Owned
<1>2. QED BY <1>1, TypedInit, TypedStep, OwnedInit, OwnedStep, PTL DEF Spec

\* Reconcile removes a receiver only if its webhook is gone, however old its
\* snapshot and its probes are when the write lands.
THEOREM PruneAlwaysSparesLiveHooks == Spec => PruneSparesLiveHooks
<1> DEFINE Spares ==
      \A w \in Workers : (req[w].op = "reconcile" /\ req[w].pc = "cas" /\ req'[w].pc = "idle") =>
        HooksOf(Stored \ Stored') \cap hooks = {}
<1>1. Typed /\ Owned /\ [Next]_vars => [Spares]_kv
  <2> SUFFICES ASSUME Typed, Owned, [Next]_vars, kv' # kv, NEW w \in Workers,
                      req[w].op = "reconcile", req[w].pc = "cas", req'[w].pc = "idle"
               PROVE  HooksOf(Stored \ Stored') \cap hooks = {}
    OBVIOUS
  <2>1. ASSUME NEW v \in Workers, Start(v) \/ Progress(v) PROVE v = w
    BY <2>1, OwnRequestOnly
  <2>2. ~(\E p \in Pods : Crash(p) \/ Restart(p)) /\ ~(\E h \in Hooks : DeleteOutOfBand(h))
    BY DEF Crash, Restart, DeleteOutOfBand
  <2>3. ~Corrupt BY DEF Corrupt
  <2>4. Commit(w) \/ CasReplyLost(w)
    <3>1. Start(w) \/ Progress(w) BY <2>1, <2>2, <2>3 DEF Next, Environment, vars
    <3>2. ~Start(w)
      BY StartCases DEF AddBegin, RemoveBegin, RotateBegin, RepairBegin, ReconcileBegin, ReloadRead, Begin
    <3>3. QED
      BY <3>1, <3>2
         DEF Progress, Mint, MintReplyLost, MintFails, Probe, ReconcileLock, ReadList, ReadGarbage,
             ReadFails, CasLost, CasError, Retire, RetireFails, ReloadApply, history
  <2>5. kv = req[w].seen /\ kv' = Written(w) BY <2>4 DEF Commit, CasReplyLost, Written
  <2>6. Written(w) = req[w].seen \ req[w].drop BY DEF Written, Transform, Pruned
  <2>7. Written(w) \in SUBSET Entry /\ kv # Garbage
    BY <2>5, NextType DEF Typed, Shape
  <2>8. Stored = kv /\ Stored' = Written(w) BY <2>5, <2>7, GarbageAssumption DEF Stored
  <2>9. HooksOf(Stored \ Stored') \subseteq HooksOf(req[w].drop) BY <2>5, <2>6, <2>8 DEF HooksOf
  <2>10. QED BY <2>9 DEF Owned, DropIsDead
<1>2. QED
  BY <1>1, TypedInit, TypedStep, OwnedInit, OwnedStep, PTL DEF Spec, PruneSparesLiveHooks

-----------------------------------------------------------------------------
(* The store implements the registry: Registry!Spec, step by step.  A command *)
(* announces itself when it has what it needs (a preview, a webhook, a lock), *)
(* is served by its compare-and-set, and is withdrawn by a failure or a crash.*)

Announced == [w \in Workers |-> IntentOf(req[w])]

\* Outside read and compare-and-set a command intends nothing.
LEMMA NoIntent ==
  ASSUME NEW r, r.pc \notin {"read", "cas"} \/ r.op = "repair"
  PROVE  IntentOf(r) = Registry!Nothing
BY DEF IntentOf, Registry!Nothing

\* Between them it intends something.
LEMMA SomeIntent ==
  ASSUME NEW r \in Request, Shape(r), r.pc \in {"read", "cas"}, r.op # "repair"
  PROVE  IntentOf(r) \in Registry!Intent \ {Registry!Nothing}
<1> USE DEF Request, Shape
<1>1. IntentOf(r) = [create |-> [name : r.names, hook : Undo(r)], delete |-> r.drop, from |-> r.old,
                     to |-> IF r.op = "rotate" THEN r.new ELSE NoHook]
  BY DEF IntentOf
<1>2. [name : r.names, hook : Undo(r)] \in SUBSET Entry BY DEF Undo, Entry
<1>3. IntentOf(r) \in Registry!Intent BY <1>1, <1>2 DEF Registry!Intent, Registry!Entry, Entry
<1>4. CASE r.op = "add"
  <2>1. PICK n \in r.names : TRUE BY <1>4
  <2>2. r.new \in Hooks /\ r.new # NoHook BY <1>4
  <2>3. [name |-> n, hook |-> r.new] \in [name : r.names, hook : Undo(r)] BY <2>1, <2>2 DEF Undo
  <2>4. IntentOf(r).create = [name : r.names, hook : Undo(r)] BY DEF IntentOf
  <2>5. Registry!Nothing.create = {} BY DEF Registry!Nothing
  <2>6. QED BY <1>3, <2>3, <2>4, <2>5
<1>5. CASE r.op = "rotate"
  <2>1. IntentOf(r).from # NoHook BY <1>1, <1>5, NullsAssumption
  <2>2. QED BY <1>3, <2>1 DEF Registry!Nothing
<1>6. CASE r.op \in {"remove", "reconcile"}
  <2>1. IntentOf(r).delete # {} BY <1>1, <1>6
  <2>2. QED BY <1>3, <2>1 DEF Registry!Nothing
<1>7. QED BY <1>4, <1>5, <1>6

\* The transform of a command is the change it announced.
LEMMA TransformIsIntent ==
  ASSUME NEW r \in Request, Shape(r), r.pc = "cas", r.op # "repair",
         NEW list \in SUBSET Entry, NEW copy
  PROVE  Transform(r, list, copy) = Registry!Apply(IntentOf(r), list)
<1> USE DEF Request, Shape
<1> DEFINE i == IntentOf(r)
           create == [name : r.names, hook : Undo(r)]
<1>1. /\ i.create = create /\ i.delete = r.drop /\ i.from = r.old
      /\ i.to = IF r.op = "rotate" THEN r.new ELSE NoHook
  BY DEF IntentOf
<1> HIDE DEF i
<1>2. r.op # "rotate" => Registry!Apply(i, list) = (list \ r.drop) \cup create
  <2>1. ASSUME r.op # "rotate" PROVE \A e \in list : Registry!Repoint(e, i.from, i.to) = e
    BY <1>1, <2>1, NullsAssumption DEF Registry!Repoint, Entry
  <2>2. QED BY <1>1, <2>1 DEF Registry!Apply
<1>3. r.op # "add" => create = {} OBVIOUS
<1>4. CASE r.op = "add"
  <2>1. Undo(r) = {r.new} BY <1>4 DEF Undo
  <2>2. QED BY <1>2, <1>4, <2>1 DEF i, Transform, Added
<1>5. CASE r.op = "rotate"
  <2>1. r.drop = {} /\ create = {} BY <1>3, <1>5
  <2>2. Registry!Apply(i, list) = {Registry!Repoint(e, r.old, r.new) : e \in list}
    BY <1>1, <1>5, <2>1 DEF Registry!Apply
  <2>3. QED BY <1>5, <2>2 DEF i, Transform, Repointed, Registry!Repoint
<1>6. CASE r.op \in {"remove", "reconcile"}
  BY <1>2, <1>3, <1>6 DEF i, Transform, Removed, Pruned
<1>7. QED BY <1>4, <1>5, <1>6

\* The registry calls a list proper if the store calls it valid.
LEMMA ProperMeansValid == \A list : Registry!Proper(list) <=> ValidList(list)
BY DEF Registry!Proper, ValidList

\* The registry counts as the store does.
LEMMA SameCount == \A list : Registry!Cardinality(list) = Cardinality(list)
BY DEF Registry!Cardinality, Cardinality

\* How a step shows in the registry, given what it does to one worker's request.
LEMMA StutterStep ==
  ASSUME UNCHANGED kv, \A v \in Workers : IntentOf(req'[v]) = IntentOf(req[v])
  PROVE  UNCHANGED <<kv, Announced>>
BY DEF Announced

\* A step that gives one worker an intent is an announcement.
LEMMA AnnounceStep ==
  ASSUME NEW w \in Workers, UNCHANGED kv, IntentOf(req[w]) = Registry!Nothing,
         IntentOf(req'[w]) \in Registry!Intent \ {Registry!Nothing},
         \A v \in Workers \ {w} : req'[v] = req[v]
  PROVE  Registry!Next
<1>1. /\ Announced'[w] = IntentOf(req'[w]) /\ Announced[w] = IntentOf(req[w])
      /\ \A v \in Workers \ {w} : IntentOf(req'[v]) = IntentOf(req[v])
  BY DEF Announced
<1>2. Announced' = [Announced EXCEPT ![w] = Announced'[w]] BY <1>1 DEF Announced
<1>3. Registry!Announce(w) BY <1>1, <1>2 DEF Announced, Registry!Announce
<1>4. QED BY <1>3 DEF Registry!Next

\* A step that takes the intents of some workers away is a withdrawal.
LEMMA WithdrawStep ==
  ASSUME NEW group \in SUBSET Workers, UNCHANGED kv,
         \A w \in group : IntentOf(req'[w]) = Registry!Nothing,
         \A v \in Workers \ group : req'[v] = req[v]
  PROVE  Registry!Next
<1>1. Announced' = [w \in Workers |-> IF w \in group THEN Registry!Nothing ELSE Announced[w]]
  BY DEF Announced
<1>2. Registry!Withdraw(group) BY <1>1 DEF Announced, Registry!Withdraw
<1>3. QED BY <1>2 DEF Registry!Next

\* A write that reaches the list serves its command; a repair's restores the list.
LEMMA ServeStep ==
  ASSUME Typed, Valid, NEW w \in Workers, req[w].pc = "cas", kv = req[w].seen, kv' = Written(w),
         IntentOf(req'[w]) = Registry!Nothing,
         \A v \in Workers \ {w} : req'[v] = req[v]
  PROVE  Registry!Next
<1>0. req[w] \in Request /\ Shape(req[w]) BY DEF Typed, TypeOK
<1>1. Registry!Proper(kv') /\ Cardinality(kv') <= MaxReceivers
  BY WrittenIsSound, ProperMeansValid DEF Sound
<1>2. CASE req[w].op = "repair"
  <2>1. kv = Garbage BY <1>0, <1>2 DEF Shape
  <2>2. \A v \in Workers : IntentOf(req'[v]) = IntentOf(req[v]) BY <1>2, NoIntent
  <2>3. UNCHANGED Announced BY <2>2, StutterStep DEF Announced
  <2>4. Registry!Restore BY <1>1, <2>1, <2>3 DEF Announced, Registry!Restore
  <2>5. QED BY <2>4 DEF Registry!Next
<1>3. CASE req[w].op # "repair"
  <2>1. kv # Garbage /\ kv \in SUBSET Entry BY <1>0, <1>3 DEF Shape, Request
  <2>2. kv' = Registry!Apply(IntentOf(req[w]), kv) BY <1>0, <1>3, <2>1, TransformIsIntent DEF Written
  <2>3. /\ IntentOf(req[w]) # Registry!Nothing
        /\ Announced[w] = IntentOf(req[w]) /\ Announced'[w] = Registry!Nothing
        /\ \A v \in Workers \ {w} : IntentOf(req'[v]) = IntentOf(req[v])
    BY <1>0, <1>3, SomeIntent DEF Announced
  <2>4. Announced' = [Announced EXCEPT ![w] = Registry!Nothing] BY <2>3 DEF Announced
  <2>5. /\ Announced[w] # Registry!Nothing
        /\ kv' = Registry!Apply(Announced[w], kv)
        /\ Announced[w].create # {} => Cardinality(kv') <= MaxReceivers
    BY <1>1, <2>2, <2>3
  <2>6. Registry!Serve(w) BY <1>1, <2>1, <2>4, <2>5, SameCount DEF Announced, Registry!Serve
  <2>7. QED BY <2>6 DEF Registry!Next
<1>4. QED BY <1>2, <1>3

\* A command that is done or only deletes intends nothing.
LEMMA SettledIntent ==
  ASSUME Typed, NEW w \in Workers, NEW doomed, Settle(w, doomed)
  PROVE  IntentOf(req'[w]) = Registry!Nothing
BY Settled, NoIntent

\* The beginning of a command: a removal announces itself at once.
LEMMA RegistryStart ==
  ASSUME Typed, Typed', NEW w \in Workers, Start(w)
  PROVE  [Registry!Next]_<<kv, Announced>>
<1>0. /\ UNCHANGED kv /\ IntentOf(req[w]) = Registry!Nothing
      /\ \A v \in Workers \ {w} : req'[v] = req[v]
      /\ req'[w] \in Request /\ Shape(req'[w])
  <2>1. At(w, "idle") /\ UNCHANGED kv
    BY StartCases DEF AddBegin, RemoveBegin, RotateBegin, RepairBegin, ReconcileBegin, ReloadRead, Begin
  <2>2. QED BY <2>1, NoIntent, OwnRequestOnly DEF At, Typed, TypeOK
<1>1. CASE IntentOf(req'[w]) = Registry!Nothing
  <2>1. \A v \in Workers : IntentOf(req'[v]) = IntentOf(req[v]) BY <1>0, <1>1
  <2>2. QED BY <1>0, <2>1, StutterStep
<1>2. CASE IntentOf(req'[w]) # Registry!Nothing
  <2>1. req'[w].pc \in {"read", "cas"} /\ req'[w].op # "repair" BY <1>2, NoIntent
  <2>2. QED BY <1>0, <2>1, SomeIntent, AnnounceStep
<1>3. QED BY <1>1, <1>2

\* The other steps of a command.
LEMMA RegistryProgress ==
  ASSUME Typed, Typed', Valid, NEW w \in Workers, Progress(w)
  PROVE  [Registry!Next]_<<kv, Announced>>
<1>0. /\ req[w] \in Request /\ Shape(req[w]) /\ req'[w] \in Request /\ Shape(req'[w])
      /\ \A v \in Workers \ {w} : req'[v] = req[v]
  BY OwnRequestOnly DEF Typed, TypeOK
<1>1. ASSUME UNCHANGED kv, IntentOf(req'[w]) = IntentOf(req[w])
      PROVE  [Registry!Next]_<<kv, Announced>>
  <2>1. \A v \in Workers : IntentOf(req'[v]) = IntentOf(req[v]) BY <1>0, <1>1
  <2>2. QED BY <1>1, <2>1, StutterStep
<1>2. ASSUME UNCHANGED kv, NEW doomed, Settle(w, doomed)
      PROVE  [Registry!Next]_<<kv, Announced>>
  <2>1. {w} \in SUBSET Workers /\ \A v \in {w} : IntentOf(req'[v]) = Registry!Nothing
    BY <1>2, SettledIntent
  <2>2. QED BY <1>0, <1>2, <2>1, WithdrawStep
<1>3. ASSUME UNCHANGED kv, req[w].pc \in {"mint", "lock"}, req'[w].pc = "read"
      PROVE  [Registry!Next]_<<kv, Announced>>
  <2>1. req[w].op # "repair" /\ IntentOf(req[w]) = Registry!Nothing BY <1>0, <1>3, NoIntent DEF Shape
  <2>2. CASE req'[w].op = "repair" BY <1>1, <1>3, <2>1, <2>2, NoIntent
  <2>3. CASE req'[w].op # "repair" BY <1>0, <1>3, <2>1, <2>3, SomeIntent, AnnounceStep
  <2>4. QED BY <2>2, <2>3
<1> USE DEF Typed, TypeOK, Request
<1>4. ASSUME NEW h \in Hooks, Mint(w, h) PROVE [Registry!Next]_<<kv, Announced>>
  BY <1>0, <1>3, <1>4 DEF Mint, At
<1>5. CASE ReconcileLock(w)
  BY <1>0, <1>3, <1>5 DEF ReconcileLock, At
<1>6. ASSUME NEW dead \in SUBSET HooksOf(req[w].drop), Probe(w, dead)
      PROVE  [Registry!Next]_<<kv, Announced>>
  <2>1. req[w].pc = "probe" /\ req'[w].pc \in {"idle", "lock"} /\ UNCHANGED kv
    BY ZenonT(40), <1>0, <1>6, IdleShape DEF Probe, At, Idle
  <2>2. QED BY <1>1, <2>1, NoIntent
<1>7. CASE ReadList(w) \/ ReadGarbage(w)
  <2>1. UNCHANGED kv /\ req[w].pc = "read" /\ req' = [req EXCEPT ![w].seen = kv, ![w].pc = "cas"]
    BY <1>7 DEF ReadList, ReadGarbage, At
  <2>2. IntentOf(req'[w]) = IntentOf(req[w]) BY <1>0, <2>1 DEF IntentOf, Undo
  <2>3. QED BY <1>1, <2>1, <2>2
<1>8. CASE CasLost(w)
  <2>1. UNCHANGED kv /\ req[w].pc = "cas" BY <1>8 DEF CasLost, At
  <2>2. CASE req[w].left > 1
    <3>1. req' = [req EXCEPT ![w].pc = "read", ![w].seen = {}, ![w].left = @ - 1]
      BY <1>8, <2>2 DEF CasLost
    <3>2. IntentOf(req'[w]) = IntentOf(req[w]) BY <1>0, <2>1, <3>1 DEF IntentOf, Undo
    <3>3. QED BY <1>1, <2>1, <3>2
  <2>3. CASE ~(req[w].left > 1) BY <1>2, <1>8, <2>1, <2>3 DEF CasLost
  <2>4. QED BY <2>2, <2>3
<1>9. CASE \/ \E h \in Hooks : MintReplyLost(w, h)
           \/ MintFails(w) \/ ReadFails(w) \/ CasError(w) \/ ReloadApply(w)
           \/ \E h \in req[w].kill : Retire(w, h) \/ RetireFails(w, h)
  <2>1. UNCHANGED kv /\ \E doomed : Settle(w, doomed)
    BY <1>9 DEF MintReplyLost, MintFails, ReadFails, CasError, ReloadApply, Retire, RetireFails, Settle
  <2>2. QED BY <1>2, <2>1
<1>10. CASE Commit(w) \/ CasReplyLost(w)
  <2>1. /\ req[w].pc = "cas" /\ kv = req[w].seen /\ kv' = Written(w)
        /\ \E doomed : Settle(w, doomed)
    BY <1>10 DEF Commit, CasReplyLost, Written, At
  <2>2. QED BY <1>0, <2>1, SettledIntent, ServeStep
<1>11. QED BY <1>4, <1>5, <1>6, <1>7, <1>8, <1>9, <1>10 DEF Progress

\* Every step of the store is a step of the registry or a stutter.
LEMMA RegistryStep ==
  Typed /\ Valid /\ [Next]_vars => [Registry!Next]_<<kv, Announced>>
<1> SUFFICES ASSUME Typed, Valid, [Next]_vars PROVE [Registry!Next]_<<kv, Announced>>
  OBVIOUS
<1>1. Typed' BY TypedStep
<1>2. ASSUME NEW p \in Pods, Crash(p) PROVE Registry!Next
  <2> DEFINE group == {v \in Workers : Pod(v) = p}
  <2>1. UNCHANGED kv /\ \A w \in group : req'[w] = Idle BY <1>2 DEF Crash
  <2>2. \A v \in Workers \ group : req'[v] = req[v] BY <1>2 DEF Crash
  <2>3. IntentOf(Idle) = Registry!Nothing BY NoIntent DEF Idle
  <2>4. group \in SUBSET Workers OBVIOUS
  <2> HIDE DEF group
  <2>5. QED BY <2>1, <2>2, <2>3, <2>4, WithdrawStep
<1>3. ASSUME UNCHANGED <<kv, req>> PROVE UNCHANGED <<kv, Announced>>
  BY <1>3 DEF Announced
<1>4. CASE Corrupt
  <2>1. kv' = Garbage /\ UNCHANGED Announced BY <1>4 DEF Corrupt, Announced
  <2>2. Registry!Damage BY <2>1 DEF Registry!Damage, Announced
  <2>3. QED BY <2>2 DEF Registry!Next
<1>5. CASE Environment
  <2>1. ASSUME NEW p \in Pods, Restart(p) PROVE UNCHANGED <<kv, Announced>>
    BY <1>3, <2>1 DEF Restart
  <2>2. ASSUME NEW h \in Hooks, DeleteOutOfBand(h) PROVE UNCHANGED <<kv, Announced>>
    BY <1>3, <2>2 DEF DeleteOutOfBand
  <2>3. QED BY <1>2, <1>4, <1>5, <2>1, <2>2 DEF Environment
<1>6. CASE UNCHANGED vars BY <1>3, <1>6 DEF vars
<1>7. QED BY <1>1, <1>5, <1>6, RegistryStart, RegistryProgress DEF Next

\* The store starts as the registry does.
LEMMA RegistryInit == Init => Registry!Init
<1>1. IntentOf(Idle) = Registry!Nothing BY NoIntent DEF Idle
<1>2. QED BY <1>1 DEF Init, Registry!Init

\* No lost update: seen from the list alone, every command takes effect
\* atomically on the list as it then is, exactly as it announced, or not at all;
\* whatever the number of pods, commands and retries, and with faults.
THEOREM StoreImplementsRegistry == Spec => CommandsAreAtomic
<1>1. Typed /\ Valid /\ [Next]_vars => [Registry!Next]_<<kv, [w \in Workers |-> IntentOf(req[w])]>>
  BY RegistryStep DEF Announced
<1>2. QED
  BY <1>1, RegistryInit, TypedInit, TypedStep, ValidInit, ValidStep, PTL
     DEF Spec, CommandsAreAtomic, Registry!Spec

-----------------------------------------------------------------------------

\* The inductive step of mutual exclusion.
LEMMA MutexStep == Typed /\ MutexHeldThroughout /\ [Next]_vars => MutexHeldThroughout'
<1> SUFFICES ASSUME Typed, MutexHeldThroughout, [Next]_vars PROVE MutexHeldThroughout'
  OBVIOUS
<1> USE DEF MutexHeldThroughout, Inside
<1>1. ASSUME NEW w \in Workers, Start(w) \/ Progress(w), UNCHANGED configWriteMu,
             Inside(w) <=> Inside(w)'
      PROVE  MutexHeldThroughout'
  BY <1>1, OwnRequestOnly
<1>2. ASSUME NEW w \in Workers, Start(w) \/ Progress(w), Lock(w), Inside(w)'
      PROVE  MutexHeldThroughout'
  BY <1>2, OwnRequestOnly, PodsAssumption, NullsAssumption DEF Lock, Pod, Typed, TypeOK
<1>3. ASSUME NEW w \in Workers, Start(w) \/ Progress(w), NEW doomed, Settle(w, doomed), Inside(w)
      PROVE  MutexHeldThroughout'
  <2>1. CASE doomed = {}
    <3>1. configWriteMu' = [configWriteMu EXCEPT ![Pod(w)] = NoWorker] /\ ~Inside(w)'
      BY <1>3, <2>1, Settled DEF Settle, Return
    <3>2. QED BY <1>3, <3>1, OwnRequestOnly, PodsAssumption, NullsAssumption DEF Pod, Typed, TypeOK
  <2>2. CASE doomed # {}
    <3>1. UNCHANGED configWriteMu /\ Inside(w)' BY <1>3, <2>2, Settled DEF Settle
    <3>2. QED BY <1>1, <1>3, <3>1
  <2>3. QED BY <2>1, <2>2
<1>4. ASSUME NEW w \in Workers, Start(w) PROVE MutexHeldThroughout'
  <2> USE IdleShape DEF Begin, Typed, TypeOK, Request
  <2>1. ASSUME NEW batch \in SUBSET Names, AddBegin(w, batch) PROVE Lock(w) /\ Inside(w)'
    BY <2>1 DEF AddBegin
  <2>2. ASSUME NEW preview \in SUBSET mem[Pod(w)], RemoveBegin(w, preview) PROVE Lock(w) /\ Inside(w)'
    BY <2>2 DEF RemoveBegin
  <2>3. ASSUME NEW e \in mem[Pod(w)], RotateBegin(w, e) PROVE Lock(w) /\ Inside(w)'
    BY <2>3 DEF RotateBegin
  <2>4. RepairBegin(w) => Lock(w) /\ Inside(w)' BY DEF RepairBegin
  <2>5. ReloadRead(w) => Lock(w) /\ Inside(w)' BY DEF ReloadRead
  <2>6. ReconcileBegin(w) => UNCHANGED configWriteMu /\ ~Inside(w) /\ ~Inside(w)'
    BY DEF ReconcileBegin, At
  <2> HIDE DEF Inside
  <2>7. QED BY StartCases, <1>1, <1>2, <1>4, <2>1, <2>2, <2>3, <2>4, <2>5, <2>6
<1>5. ASSUME NEW w \in Workers, Progress(w) PROVE MutexHeldThroughout'
  <2>0. req[w] \in Request BY DEF Typed, TypeOK
  <2> USE <2>0 DEF At, Request, Typed, TypeOK
  <2>1. ASSUME NEW h \in Hooks, Mint(w, h) PROVE MutexHeldThroughout'
    <3>1. Inside(w) /\ Inside(w)' /\ UNCHANGED configWriteMu BY <2>1 DEF Mint
    <3>2. QED BY <1>1, <1>5, <3>1
  <2>2. CASE MintFails(w) \/ ReadFails(w) \/ CasError(w) \/ Commit(w) \/ CasReplyLost(w) \/ ReloadApply(w)
             \/ \E h \in Hooks : MintReplyLost(w, h)
    <3>1. \E doomed : Settle(w, doomed)
      BY <2>2 DEF MintFails, ReadFails, CasError, Commit, CasReplyLost, ReloadApply, MintReplyLost, Settle
    <3>2. Inside(w)
      BY <2>2 DEF MintFails, ReadFails, CasError, Commit, CasReplyLost, ReloadApply, MintReplyLost
    <3>3. QED BY <1>3, <1>5, <3>1, <3>2
  <2>3. ASSUME NEW dead \in SUBSET HooksOf(req[w].drop), Probe(w, dead) PROVE MutexHeldThroughout'
    <3>1. ~Inside(w) /\ ~Inside(w)' /\ UNCHANGED configWriteMu BY <2>3, IdleShape DEF Probe, Idle
    <3>2. QED BY <1>1, <1>5, <3>1
  <2>4. CASE ReconcileLock(w)
    <3>1. Lock(w) /\ Inside(w)' BY <2>4 DEF ReconcileLock
    <3>2. QED BY <1>2, <1>5, <3>1
  <2>5. CASE ReadList(w) \/ ReadGarbage(w)
    <3>1. Inside(w) /\ Inside(w)' /\ UNCHANGED configWriteMu BY <2>5 DEF ReadList, ReadGarbage
    <3>2. QED BY <1>1, <1>5, <3>1
  <2>6. CASE CasLost(w)
    <3>1. Inside(w) BY <2>6 DEF CasLost
    <3>2. CASE req[w].left > 1
      <4>1. Inside(w)' /\ UNCHANGED configWriteMu BY <2>6, <3>2 DEF CasLost
      <4>2. QED BY <1>1, <1>5, <3>1, <4>1
    <3>3. CASE ~(req[w].left > 1)
      BY <1>3, <1>5, <2>6, <3>1, <3>3 DEF CasLost
    <3>4. QED BY <3>2, <3>3
  <2>7. ASSUME NEW h \in req[w].kill, Retire(w, h) \/ RetireFails(w, h) PROVE MutexHeldThroughout'
    <3>1. Inside(w) BY <2>7 DEF Retire, RetireFails
    <3>2. QED BY <1>3, <1>5, <2>7, <3>1 DEF Retire, RetireFails
  <2>8. QED BY <1>5, <2>1, <2>2, <2>3, <2>4, <2>5, <2>6, <2>7 DEF Progress
<1>6. CASE Environment
  <2>1. ASSUME NEW p \in Pods, Crash(p) PROVE MutexHeldThroughout'
    BY <2>1, PodsAssumption, NullsAssumption DEF Crash, Idle, Pod, Typed, TypeOK
  <2>2. ASSUME NEW p \in Pods, Restart(p) PROVE MutexHeldThroughout'
    BY <2>2 DEF Restart, history
  <2>3. ASSUME NEW h \in Hooks, DeleteOutOfBand(h) PROVE MutexHeldThroughout'
    BY <2>3 DEF DeleteOutOfBand
  <2>4. CASE Corrupt
    BY <2>4 DEF Corrupt
  <2>5. QED BY <1>6, <2>1, <2>2, <2>3, <2>4 DEF Environment
<1>7. CASE UNCHANGED vars
  BY <1>7 DEF vars
<1>8. QED BY <1>4, <1>5, <1>6, <1>7 DEF Next

\* configWriteMu is held across every read-modify-write, and every holder is
\* a worker that will release it.
THEOREM MutexAlwaysHeld == Spec => []MutexHeldThroughout
<1>1. Init => MutexHeldThroughout
  BY PodsAssumption, NullsAssumption DEF Init, MutexHeldThroughout, Inside, Idle, Pod
<1>2. QED BY <1>1, TypedInit, TypedStep, MutexStep, PTL DEF Spec

=============================================================================
