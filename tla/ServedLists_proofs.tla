-------------------------- MODULE ServedLists_proofs --------------------------
(* Which list of receivers a pod serves, and what everything that reads a list *)
(* makes of it: proofs about ConfigSync, for every set of pods and any number  *)
(* of writes and restarts, and about Operators, for every list that commands   *)
(* can build and all inputs that satisfy the assumptions on constants.         *)
(*                                                                             *)
(* The argument for NeverServesOlder is the one configWriteMu exists for:      *)
(* what a goroutine reads from KV while it holds the mutex is at least as new  *)
(* as what its pod serves, and stays so until it lets go, because only the     *)
(* holder changes what the pod serves.                                         *)
(*                                                                             *)
(* Of a list, all rests on ListOK: every receiver has a name that tells what   *)
(* was typed for it and where, and no two have the same.  Every command keeps  *)
(* it (ListsStayOK), so what is true of the lists that satisfy it is true      *)
(* after any commands.  What a loop or a recursive definition computes is      *)
(* stated of its prefixes and holds of all, as there is no shortest prefix     *)
(* that it does not hold of.                                                   *)
EXTENDS ConfigSync, Operators, FiniteSetTheorems, WellFoundedInduction, TLAPS

-----------------------------------------------------------------------------
(* Which write a pod serves. *)

\* The goroutine between its KV read and the end of its turn is the holder.
Exclusive ==
  \A p \in Pods, g \in Goroutines : at[p][g] \in {"read", "apply"} => configWriteMu[p] = g

\* What the holder has read is not older than what the pod serves.
ReadIsFresh ==
  \A p \in Pods, g \in Goroutines :
    at[p][g] = "apply" => served[p] <= got[p] /\ got[p] <= version

\* A process that is down runs nothing, remembers nothing and gets no events.
DownIsClean ==
  \A p \in Pods : phase[p] = "down" =>
    /\ served[p] = 0
    /\ p \notin inbox
    /\ \A g \in Goroutines : at[p][g] = "off"

\* What every step keeps.
SyncInv ==
  /\ TypeOK
  /\ Exclusive /\ ReadIsFresh /\ DownIsClean
  /\ ServesCommitted /\ NoPollAfterDeactivate

-----------------------------------------------------------------------------

\* No action changes the shape of a variable.
LEMMA TypeStep == TypeOK /\ [Next]_vars => TypeOK'
<1> SUFFICES ASSUME TypeOK, [Next]_vars PROVE TypeOK'
  OBVIOUS
<1> USE DEF TypeOK, Goroutines, Places, Phases, Goto, Lock, Unlock
<1>1. ASSUME NEW p \in Pods, Launch(p) \/ OnActivate(p) \/ OnDeactivate(p)
                               \/ Deactivated(p) \/ Crash(p)
      PROVE TypeOK'
  <2>1. CASE Launch(p) BY <2>1 DEF Launch
  <2>2. CASE OnActivate(p) BY <2>2 DEF OnActivate
  <2>3. CASE OnDeactivate(p) BY <2>3 DEF OnDeactivate
  <2>4. CASE Deactivated(p) BY <2>4 DEF Deactivated
  <2>5. CASE Crash(p) BY <2>5 DEF Crash
  <2>6. QED BY <1>1, <2>1, <2>2, <2>3, <2>4, <2>5
<1>2. ASSUME NEW p \in Pods, Tick(p) \/ PollLock(p) \/ PollSelect(p) \/ PollRecheck(p)
      PROVE TypeOK'
  <2>1. CASE Tick(p) BY <2>1 DEF Tick
  <2>2. CASE PollLock(p) BY <2>2 DEF PollLock
  <2>3. CASE PollSelect(p) BY <2>3 DEF PollSelect
  <2>4. CASE PollRecheck(p) BY <2>4 DEF PollRecheck
  <2>5. QED BY <1>2, <2>1, <2>2, <2>3, <2>4
<1>3. ASSUME NEW p \in Pods, CommandLock(p) \/ OnPluginClusterEvent(p)
                               \/ OnConfigurationChange(p) \/ Broadcast(p)
      PROVE TypeOK'
  <2>1. CASE CommandLock(p) BY <2>1 DEF CommandLock
  <2>2. CASE OnPluginClusterEvent(p) BY <2>2 DEF OnPluginClusterEvent
  <2>3. CASE OnConfigurationChange(p) BY <2>3 DEF OnConfigurationChange
  <2>4. CASE Broadcast(p) BY <2>4 DEF Broadcast
  <2>5. QED BY <1>3, <2>1, <2>2, <2>3, <2>4
<1>4. ASSUME NEW p \in Pods, Commit(p) \/ CasLost(p) \/ CommandFails(p)
      PROVE TypeOK'
  <2>1. CASE Commit(p) BY <2>1 DEF Commit
  <2>2. CASE CasLost(p) BY <2>2 DEF CasLost
  <2>3. CASE CommandFails(p) BY <2>3 DEF CommandFails
  <2>4. QED BY <1>4, <2>1, <2>2, <2>3
<1>5. ASSUME NEW p \in Pods, NEW g \in Goroutines, Read(p, g) \/ ReadFails(p, g) \/ Reload(p, g)
      PROVE TypeOK'
  <2>1. CASE Read(p, g) BY <2>1 DEF Read
  <2>2. CASE ReadFails(p, g) BY <2>2 DEF ReadFails
  <2>3. CASE Reload(p, g) BY <2>3 DEF Reload
  <2>4. QED BY <1>5, <2>1, <2>2, <2>3
<1>6. CASE UNCHANGED vars
  BY <1>6 DEF vars
<1>7. QED
  BY <1>1, <1>2, <1>3, <1>4, <1>5, <1>6 DEF Next, Continue

\* Every variable keeps the shape the code gives it, in every reachable state.
THEOREM TypeCorrect == Spec => []TypeOK
<1>1. Init => TypeOK
  BY DEF Init, TypeOK, Goroutines, Places, Phases
<1>2. QED BY <1>1, TypeStep, PTL DEF Spec

-----------------------------------------------------------------------------

\* The inductive step: no action of any goroutine of any pod breaks SyncInv.
\* Only the mutex holder reads or applies, so the facts about what a pod has
\* read are disturbed by its own holder alone, or by a commit elsewhere that
\* makes the stored list newer.
LEMMA SyncInvStep == SyncInv /\ [Next]_vars => SyncInv'
<1> SUFFICES ASSUME SyncInv, [Next]_vars PROVE SyncInv'
  OBVIOUS
<1>0. TypeOK' BY TypeStep DEF SyncInv
<1> USE DEF SyncInv, TypeOK, Exclusive, ReadIsFresh, DownIsClean, ServesCommitted,
            NoPollAfterDeactivate, Goroutines, Places, Phases, Goto, Lock, Unlock
<1>1. ASSUME NEW p \in Pods, Launch(p) PROVE SyncInv'
  BY <1>0, <1>1 DEF Launch
<1>2. ASSUME NEW p \in Pods, OnActivate(p) PROVE SyncInv'
  BY <1>0, <1>2 DEF OnActivate
<1>3. ASSUME NEW p \in Pods, OnDeactivate(p) PROVE SyncInv'
  BY <1>0, <1>3 DEF OnDeactivate
<1>4. ASSUME NEW p \in Pods, Deactivated(p) PROVE SyncInv'
  BY <1>0, <1>4 DEF Deactivated
<1>5. ASSUME NEW p \in Pods, Crash(p) PROVE SyncInv'
  BY <1>0, <1>5 DEF Crash
<1>6. ASSUME NEW p \in Pods, Tick(p) PROVE SyncInv'
  BY <1>0, <1>6 DEF Tick
<1>7. ASSUME NEW p \in Pods, PollLock(p) PROVE SyncInv'
  BY <1>0, <1>7 DEF PollLock
<1>8. ASSUME NEW p \in Pods, PollSelect(p) PROVE SyncInv'
  <2>1. CASE at' = [at EXCEPT ![p]["poll"] = "off"] BY <1>0, <1>8, <2>1 DEF PollSelect
  <2>2. CASE at' = [at EXCEPT ![p]["poll"] = "recheck"] BY <1>0, <1>8, <2>2 DEF PollSelect
  <2>3. QED BY <1>8, <2>1, <2>2 DEF PollSelect
<1>9. ASSUME NEW p \in Pods, PollRecheck(p) PROVE SyncInv'
  BY <1>0, <1>9 DEF PollRecheck
<1>10. ASSUME NEW p \in Pods, CommandLock(p) PROVE SyncInv'
  BY <1>0, <1>10 DEF CommandLock
<1>11. ASSUME NEW p \in Pods, OnPluginClusterEvent(p) PROVE SyncInv'
  <2>1. Exclusive' BY <1>11 DEF OnPluginClusterEvent
  <2>2. NoPollAfterDeactivate' BY <1>11 DEF OnPluginClusterEvent
  <2>3. ReadIsFresh' BY <1>11 DEF OnPluginClusterEvent
  <2>4. (DownIsClean /\ ServesCommitted)' BY <1>11 DEF OnPluginClusterEvent
  <2>5. QED BY <1>0, <2>1, <2>2, <2>3, <2>4
<1>12. ASSUME NEW p \in Pods, OnConfigurationChange(p) PROVE SyncInv'
  BY <1>0, <1>12 DEF OnConfigurationChange
<1>13. ASSUME NEW p \in Pods, Broadcast(p) PROVE SyncInv'
  BY <1>0, <1>13 DEF Broadcast
<1>14. ASSUME NEW p \in Pods, Commit(p) PROVE SyncInv'
  BY <1>0, <1>14 DEF Commit
<1>15. ASSUME NEW p \in Pods, CasLost(p) PROVE SyncInv'
  BY <1>0, <1>15 DEF CasLost
<1>16. ASSUME NEW p \in Pods, CommandFails(p) PROVE SyncInv'
  BY <1>0, <1>16 DEF CommandFails
<1>17. ASSUME NEW p \in Pods, NEW g \in Goroutines, Read(p, g) PROVE SyncInv'
  BY <1>0, <1>17 DEF Read
<1>18. ASSUME NEW p \in Pods, NEW g \in Goroutines, ReadFails(p, g) PROVE SyncInv'
  BY <1>0, <1>18 DEF ReadFails
<1>19. ASSUME NEW p \in Pods, NEW g \in Goroutines, Reload(p, g) PROVE SyncInv'
  BY <1>0, <1>19 DEF Reload
<1>20. CASE UNCHANGED vars BY <1>20 DEF vars
<1> HIDE DEF SyncInv, TypeOK, Exclusive, ReadIsFresh, DownIsClean, ServesCommitted,
             NoPollAfterDeactivate, Goroutines, Places, Phases, Goto, Lock, Unlock
<1>21. ASSUME NEW p \in Pods, NEW g \in Goroutines, Continue(p, g) PROVE SyncInv'
  BY <1>8, <1>9, <1>14, <1>15, <1>16, <1>17, <1>18, <1>19, <1>21 DEF Continue
<1>22. QED
  BY <1>1, <1>2, <1>3, <1>4, <1>5, <1>6, <1>7, <1>10, <1>11, <1>12, <1>13, <1>20, <1>21 DEF Next

\* SyncInv holds in every reachable state: in particular a pod never serves an
\* uncommitted list.
THEOREM ServesOnlyCommitted == Spec => []ServesCommitted
<1>1. Init => SyncInv
  BY DEF Init, SyncInv, TypeOK, Exclusive, ReadIsFresh, DownIsClean, ServesCommitted,
         NoPollAfterDeactivate, Goroutines, Places, Phases
<1>2. SyncInv => ServesCommitted BY DEF SyncInv
<1>3. QED BY <1>1, <1>2, SyncInvStep, PTL DEF Spec

\* After OnDeactivate has returned no poll goroutine of the old instance is left.
THEOREM PollEndsWithDeactivate == Spec => []NoPollAfterDeactivate
<1>1. Init => SyncInv
  BY DEF Init, SyncInv, TypeOK, Exclusive, ReadIsFresh, DownIsClean, ServesCommitted,
         NoPollAfterDeactivate, Goroutines, Places, Phases
<1>2. SyncInv => NoPollAfterDeactivate BY DEF SyncInv
<1>3. QED BY <1>1, <1>2, SyncInvStep, PTL DEF Spec

\* As long as its process lives, a pod never goes back to an older list: the only
\* steps that change what it serves are its mutex holder's, and what the holder
\* has read is at least as new.
THEOREM NeverServesOlderHolds == Spec => NeverServesOlder
<1> DEFINE Newer == \A p \in Pods : phase'[p] # "down" => served'[p] >= served[p]
<1>1. Init => SyncInv
  BY DEF Init, SyncInv, TypeOK, Exclusive, ReadIsFresh, DownIsClean, ServesCommitted,
         NoPollAfterDeactivate, Goroutines, Places, Phases
<1>2. SyncInv /\ [Next]_vars => [Newer]_vars
  <2> SUFFICES ASSUME SyncInv, Next PROVE Newer
    OBVIOUS
  <2> USE DEF SyncInv, TypeOK, ReadIsFresh, DownIsClean, ServesCommitted
  <2>1. ASSUME NEW p \in Pods, Launch(p) PROVE Newer
    BY <2>1 DEF Launch
  <2>2. ASSUME NEW p \in Pods, Crash(p) PROVE Newer
    BY <2>2 DEF Crash
  <2>3. ASSUME NEW p \in Pods, NEW g \in Goroutines, Reload(p, g) PROVE Newer
    BY <2>3 DEF Reload
  <2>4. ASSUME NEW p \in Pods, Commit(p) PROVE Newer
    BY <2>4 DEF Commit
  <2>5. CASE UNCHANGED served
    BY <2>5
  <2>6. QED
    BY <2>1, <2>2, <2>3, <2>4, <2>5
       DEF Next, Continue, OnActivate, OnDeactivate, Deactivated, Tick, PollSelect,
           PollRecheck, PollLock, CommandLock, OnPluginClusterEvent, OnConfigurationChange,
           Read, ReadFails, CasLost, CommandFails, Broadcast
<1>3. QED
  BY <1>1, <1>2, SyncInvStep, PTL DEF Spec, NeverServesOlder

\* Once the poll has been told to stop, a tick that is already in its channel
\* starts no reload: from select or from the re-check of done it goes nowhere but
\* out, whatever its pod and the other goroutines do meanwhile.
THEOREM NoReloadAfterStop == Spec => NoReloadStartsAfterStop
<1> DEFINE Stopped ==
      \A p \in Pods : (p \in done /\ at[p]["poll"] \in {"select", "recheck"}) =>
        at'[p]["poll"] \in {"select", "recheck", "off"}
<1>1. Init => TypeOK
  BY DEF Init, TypeOK, Goroutines, Places, Phases
<1>2. TypeOK /\ [Next]_vars => [Stopped]_vars
  <2> SUFFICES ASSUME TypeOK, Next PROVE Stopped
    OBVIOUS
  <2>0. /\ at \in [Pods -> [Goroutines -> Places]]
        /\ "poll" \in Goroutines /\ "hook" \in Goroutines /\ "command" \in Goroutines
    BY DEF TypeOK, Goroutines
  <2> USE DEF Goto, Unlock
  <2>1. CASE UNCHANGED at BY <2>1
  <2>2. ASSUME NEW p \in Pods, NEW g \in Goroutines \ {"poll"}, NEW place, Goto(p, g, place)
        PROVE  Stopped
    BY <2>0, <2>2
  <2>3. ASSUME NEW p \in Pods, Crash(p) PROVE Stopped BY <2>0, <2>3 DEF Crash
  <2>4. ASSUME NEW p \in Pods, OnActivate(p) PROVE Stopped BY <2>0, <2>4 DEF OnActivate
  <2>5. ASSUME NEW p \in Pods, PollSelect(p) PROVE Stopped
    <3>1. \E place \in {"off", "recheck"} : Goto(p, "poll", place) BY <2>5 DEF PollSelect
    <3>2. QED BY <2>0, <3>1
  <2>6. ASSUME NEW p \in Pods, PollRecheck(p) PROVE Stopped BY <2>0, <2>6 DEF PollRecheck
  <2>7. ASSUME NEW p \in Pods, PollLock(p) PROVE Stopped BY <2>0, <2>7 DEF PollLock
  <2>8. ASSUME NEW p \in Pods, NEW g \in Goroutines, Read(p, g) \/ ReadFails(p, g) \/ Reload(p, g)
        PROVE  Stopped
    <3>1. at[p][g] \in {"read", "apply"} /\ \E place : Goto(p, g, place)
      BY <2>8 DEF Read, ReadFails, Reload
    <3>2. CASE g = "poll" BY <2>0, <3>1, <3>2
    <3>3. CASE g # "poll" BY <2>2, <3>1, <3>3
    <3>4. QED BY <3>2, <3>3
  <2>9. ASSUME NEW p \in Pods,
               \/ CommandLock(p) \/ OnPluginClusterEvent(p) \/ OnConfigurationChange(p)
               \/ Commit(p) \/ CasLost(p) \/ CommandFails(p)
        PROVE  Stopped
    <3>1. \E g \in Goroutines \ {"poll"} : \E place : Goto(p, g, place)
      BY <2>0, <2>9
         DEF CommandLock, OnPluginClusterEvent, OnConfigurationChange, Commit, CasLost, CommandFails
    <3>2. QED BY <2>2, <3>1
  <2>10. ASSUME NEW p \in Pods,
                Launch(p) \/ OnDeactivate(p) \/ Deactivated(p) \/ Tick(p) \/ Broadcast(p)
         PROVE  UNCHANGED at
    BY <2>10 DEF Launch, OnDeactivate, Deactivated, Tick, Broadcast
  <2> HIDE DEF Stopped
  <2>11. QED
    BY <2>1, <2>3, <2>4, <2>5, <2>6, <2>7, <2>8, <2>9, <2>10 DEF Next, Continue
<1>3. QED
  BY <1>1, <1>2, TypeStep, PTL DEF Spec, NoReloadStartsAfterStop

-----------------------------------------------------------------------------
(* Numbers and sequences. *)

\* A set of numbers that is not empty has a least one, which Min chooses.
LEMMA LeastIsMin ==
  ASSUME NEW S \in SUBSET Nat, S # {}
  PROVE  Min(S) \in S /\ \A n \in S : Min(S) <= n
<1>1. PICK m \in S : \A n \in S : ~(<<n, m>> \in OpToRel(<, Nat))
  BY WFMin, NatLessThanWellFounded
<1>2. ASSUME NEW n \in S PROVE m <= n
  <2>1. <<n, m>> \notin {p \in Nat \X Nat : p[1] < p[2]}
    BY <1>1, Zenon DEF OpToRel
  <2> QED BY <2>1
<1> QED BY <1>1, <1>2 DEF Min

\* Append adds one element.
LEMMA AppendAdds ==
  ASSUME NEW S, NEW s \in Seq(S), NEW x \in S
  PROVE  Append(s, x) \in Seq(S) /\ ToSet(Append(s, x)) = ToSet(s) \cup {x}
<1>1. /\ Append(s, x) \in Seq(S) /\ Len(s) \in Nat /\ DOMAIN s = 1 .. Len(s)
      /\ DOMAIN Append(s, x) = 1 .. Len(s) + 1
  OBVIOUS
<1>2. \A i \in 1 .. Len(s) : Append(s, x)[i] = s[i]
  OBVIOUS
<1>3. Append(s, x)[Len(s) + 1] = x
  OBVIOUS
<1>4. 1 .. Len(s) + 1 = 1 .. Len(s) \cup {Len(s) + 1}
  BY <1>1
<1> DEFINE t == Append(s, x)
<1>5. {t[i] : i \in 1 .. Len(s) + 1} = {t[i] : i \in 1 .. Len(s)} \cup {t[Len(s) + 1]}
  BY <1>4, Zenon
<1>6. {t[i] : i \in 1 .. Len(s)} = {s[i] : i \in 1 .. Len(s)}
  BY <1>2
<1> QED BY <1>1, <1>3, <1>5, <1>6 DEF ToSet

\* What a prefix of a list keeps of it: the witness for the function in Only.
UpTo(list, some, f, k) ==
  f = [n \in 0 .. k |-> IF n = 0 THEN <<>> ELSE IF list[n] \in some THEN Append(f[n - 1], list[n]) ELSE f[n - 1]]

\* Every prefix of a list has that function.
LEMMA UpToExists ==
  ASSUME NEW list, NEW some, NEW k \in Nat
  PROVE  \E f : UpTo(list, some, f, k)
<1> DEFINE None == {n \in Nat : ~\E f : UpTo(list, some, f, n)}
<1>1. SUFFICES ASSUME None # {} PROVE FALSE
  OBVIOUS
<1>2. Min(None) \in None /\ \A n \in None : Min(None) <= n
  BY <1>1, LeastIsMin
<1> DEFINE m == Min(None)
<1>3. m # 0
  <2>1. UpTo(list, some, [n \in 0 .. 0 |-> <<>>], 0)
    BY DEF UpTo
  <2> QED BY <2>1, <1>2
<1>4. PICK f : UpTo(list, some, f, m - 1)
  <2>1. m - 1 \in Nat /\ m - 1 \notin None
    BY <1>2, <1>3
  <2> QED BY <2>1
<1> DEFINE g == [n \in 0 .. m |-> IF n < m THEN f[n] ELSE IF list[m] \in some THEN Append(f[m - 1], list[m]) ELSE f[m - 1]]
<1>5. UpTo(list, some, g, m)
  <2> HIDE DEF None
  <2>1. m \in Nat /\ m # 0
    BY <1>2, <1>3 DEF None
  <2> HIDE DEF m
  <2>2. f = [n \in 0 .. m - 1 |-> IF n = 0 THEN <<>> ELSE IF list[n] \in some THEN Append(f[n - 1], list[n]) ELSE f[n - 1]]
    BY <1>4 DEF UpTo
  <2>3. ASSUME NEW n \in 0 .. m
        PROVE  g[n] = IF n = 0 THEN <<>> ELSE IF list[n] \in some THEN Append(g[n - 1], list[n]) ELSE g[n - 1]
    <3>1. CASE n = m
      <4>1. g[m] = IF list[m] \in some THEN Append(f[m - 1], list[m]) ELSE f[m - 1]
        BY <2>1
      <4>2. g[m - 1] = f[m - 1]
        BY <2>1
      <4> HIDE DEF g
      <4> QED BY <3>1, <2>1, <4>1, <4>2
    <3>2. CASE n < m
      <4>1. n \in 0 .. m - 1 /\ g[n] = f[n]
        BY <3>2, <2>1
      <4>2. n # 0 => g[n - 1] = f[n - 1]
        BY <4>1, <2>1
      <4>3. f[n] = IF n = 0 THEN <<>> ELSE IF list[n] \in some THEN Append(f[n - 1], list[n]) ELSE f[n - 1]
        BY <4>1, <2>2
      <4> HIDE DEF g
      <4> QED BY <4>1, <4>2, <4>3
    <3> QED BY <3>1, <3>2, <2>1
  <2>4. g = [n \in 0 .. m |-> g[n]]
    OBVIOUS
  <2> HIDE DEF g
  <2>5. [n \in 0 .. m |-> g[n]] = [n \in 0 .. m |-> IF n = 0 THEN <<>> ELSE IF list[n] \in some THEN Append(g[n - 1], list[n]) ELSE g[n - 1]]
    BY <2>3, Zenon
  <2> QED BY <2>4, <2>5, Zenon DEF UpTo
<1> QED BY <1>5, <1>2

\* The elements of s come in the order in which the first n of a list have them.
Ordered(s, list, n) ==
  \A a, b \in DOMAIN s : a < b => \E i, j \in 1 .. n : i < j /\ s[a] = list[i] /\ s[b] = list[j]

\* What Only keeps of a prefix is what is in the set, in the order of the list.
Kept(S, list, some, f, n) ==
  /\ f[n] \in Seq(S) /\ ToSet(f[n]) = {list[i] : i \in {j \in 1 .. n : list[j] \in some}}
  /\ Ordered(f[n], list, n)

\* One more element.
LEMMA KeptStep ==
  ASSUME NEW S, NEW list \in Seq(S), NEW some, NEW n \in 1 .. Len(list),
         NEW f, UpTo(list, some, f, Len(list)), Kept(S, list, some, f, n - 1)
  PROVE  Kept(S, list, some, f, n)
<1> DEFINE Positions(k) == {j \in 1 .. k : list[j] \in some}
<1>1. f[n] = IF list[n] \in some THEN Append(f[n - 1], list[n]) ELSE f[n - 1]
  <2>1. f = [k \in 0 .. Len(list) |-> IF k = 0 THEN <<>> ELSE IF list[k] \in some THEN Append(f[k - 1], list[k]) ELSE f[k - 1]]
    BY DEF UpTo
  <2>2. n \in 0 .. Len(list) /\ n # 0
    OBVIOUS
  <2> QED BY <2>1, <2>2, Zenon
<1>2. /\ f[n - 1] \in Seq(S) /\ ToSet(f[n - 1]) = {list[i] : i \in Positions(n - 1)}
      /\ Ordered(f[n - 1], list, n - 1)
  BY DEF Kept
<1>3. CASE list[n] \in some
  <2>1. f[n] \in Seq(S) /\ ToSet(f[n]) = ToSet(f[n - 1]) \cup {list[n]}
    <3> DEFINE s == f[n - 1]
               x == list[n]
    <3>1. s \in Seq(S) /\ x \in S
      BY <1>2
    <3>2. f[n] = Append(s, x)
      BY <1>1, <1>3
    <3> HIDE DEF s, x
    <3>3. Append(s, x) \in Seq(S) /\ ToSet(Append(s, x)) = ToSet(s) \cup {x}
      BY <3>1, AppendAdds
    <3> QED BY <3>2, <3>3 DEF s, x
  <2>2. Positions(n) = Positions(n - 1) \cup {n}
    BY <1>3
  <2>4. Ordered(f[n], list, n)
    <3> DEFINE s == f[n - 1]
               x == list[n]
    <3>1. s \in Seq(S) /\ x \in S /\ f[n] = Append(s, x) /\ Ordered(s, list, n - 1)
      BY <1>1, <1>2, <1>3
    <3>2. \A a \in DOMAIN s : \E i \in 1 .. n - 1 : s[a] = list[i]
      BY <1>2 DEF ToSet
    <3> HIDE DEF s
    <3>3. SUFFICES ASSUME NEW a \in DOMAIN f[n], NEW b \in DOMAIN f[n], a < b
                   PROVE  \E i, j \in 1 .. n : i < j /\ f[n][a] = list[i] /\ f[n][b] = list[j]
      BY DEF Ordered
    <3>4. a \in 1 .. Len(s) /\ f[n][a] = s[a] /\ b \in 1 .. Len(s) + 1
      BY <3>1, <3>3
    <3>5. CASE b \in 1 .. Len(s)
      <4>1. f[n][b] = s[b] /\ a \in DOMAIN s /\ b \in DOMAIN s
        BY <3>1, <3>4, <3>5
      <4>2. PICK i \in 1 .. n - 1, j \in 1 .. n - 1 : i < j /\ s[a] = list[i] /\ s[b] = list[j]
        BY <3>1, <3>3, <4>1 DEF Ordered
      <4> QED BY <3>4, <4>1, <4>2
    <3>6. CASE b = Len(s) + 1
      <4>1. f[n][b] = list[n]
        BY <3>1, <3>6
      <4>2. PICK i \in 1 .. n - 1 : s[a] = list[i]
        BY <3>1, <3>2, <3>4
      <4>3. i \in 1 .. n /\ n \in 1 .. n /\ i < n
        OBVIOUS
      <4> QED BY <3>4, <4>1, <4>2, <4>3
    <3> QED BY <3>4, <3>5, <3>6
  <2> HIDE DEF Positions
  <2>3. {list[i] : i \in Positions(n)} = {list[i] : i \in Positions(n - 1)} \cup {list[n]}
    BY <2>2
  <2> QED BY <1>2, <2>1, <2>3, <2>4 DEF Kept, Positions
<1>4. CASE list[n] \notin some
  <2>1. f[n] = f[n - 1]
    BY <1>1, <1>4
  <2>2. Positions(n) = Positions(n - 1)
    BY <1>4
  <2>3. Ordered(f[n], list, n)
    <3> DEFINE s == f[n - 1]
    <3>1. f[n] = s /\ Ordered(s, list, n - 1)
      BY <1>2, <2>1
    <3> HIDE DEF s
    <3>2. 1 .. n - 1 \subseteq 1 .. n
      OBVIOUS
    <3>3. Ordered(s, list, n)
      <4> SUFFICES ASSUME NEW a \in DOMAIN s, NEW b \in DOMAIN s, a < b
                   PROVE  \E i, j \in 1 .. n : i < j /\ s[a] = list[i] /\ s[b] = list[j]
        BY DEF Ordered
      <4>1. PICK i \in 1 .. n - 1, j \in 1 .. n - 1 : i < j /\ s[a] = list[i] /\ s[b] = list[j]
        BY <3>1 DEF Ordered
      <4>2. i \in 1 .. n /\ j \in 1 .. n
        BY <3>2, Zenon
      <4> QED BY <4>1, <4>2, Zenon
    <3> QED BY <3>1, <3>3, Zenon
  <2> QED BY <1>2, <2>1, <2>2, <2>3 DEF Kept
<1> QED BY <1>3, <1>4

\* All of them, by the least one that fails.
LEMMA AllKept ==
  ASSUME NEW S, NEW list \in Seq(S), NEW some, NEW f, UpTo(list, some, f, Len(list))
  PROVE  \A n \in 0 .. Len(list) : Kept(S, list, some, f, n)
<1> DEFINE Bad == {n \in 0 .. Len(list) : ~Kept(S, list, some, f, n)}
<1>1. SUFFICES ASSUME Bad # {} PROVE FALSE
  OBVIOUS
<1>2. PICK m \in Bad : \A n \in Bad : m <= n
  <2>1. Bad \in SUBSET Nat
    OBVIOUS
  <2> HIDE DEF Bad
  <2> QED BY <1>1, <2>1, LeastIsMin
<1>3. m # 0
  <2>1. f = [k \in 0 .. Len(list) |-> IF k = 0 THEN <<>> ELSE IF list[k] \in some THEN Append(f[k - 1], list[k]) ELSE f[k - 1]]
    BY DEF UpTo
  <2>2. 0 \in 0 .. Len(list)
    OBVIOUS
  <2>3. f[0] = <<>>
    BY <2>1, <2>2, Zenon
  <2>4. Kept(S, list, some, f, 0)
    BY <2>3 DEF Kept, ToSet, Ordered
  <2> QED BY <2>4
<1>4. m \in 1 .. Len(list) /\ m - 1 \in 0 .. Len(list) /\ ~(m <= m - 1)
  BY <1>3
<1>5. Kept(S, list, some, f, m - 1)
  BY <1>2, <1>4
<1> QED BY <1>4, <1>5, KeptStep

\* Only keeps of a list what is in the set.
LEMMA OnlyKeeps ==
  ASSUME NEW S, NEW list \in Seq(S), NEW some
  PROVE  /\ Only(list, some) \in Seq(S)
         /\ ToSet(Only(list, some)) = ToSet(list) \cap some
         /\ Ordered(Only(list, some), list, Len(list))
<1> DEFINE f == CHOOSE g : UpTo(list, some, g, Len(list))
<1>1. UpTo(list, some, f, Len(list))
  <2>1. Len(list) \in Nat
    OBVIOUS
  <2>2. \E g : UpTo(list, some, g, Len(list))
    BY <2>1, UpToExists
  <2> QED BY <2>2, Zenon
<1>2. Only(list, some) = f[Len(list)]
  BY Zenon DEF Only, UpTo
<1> HIDE DEF f
<1>3. Kept(S, list, some, f, Len(list))
  <2>1. Len(list) \in 0 .. Len(list)
    OBVIOUS
  <2> QED BY <1>1, <2>1, AllKept
<1>4. {list[i] : i \in {j \in 1 .. Len(list) : list[j] \in some}} = ToSet(list) \cap some
  BY DEF ToSet
<1> QED BY <1>2, <1>3, <1>4 DEF Kept

-----------------------------------------------------------------------------
(* Names of receivers. *)

\* A channel and its team, by their names.
DestType == [team : Tokens, channel : Tokens]

\* What a concatenation consists of.
LEMMA ConcatParts ==
  ASSUME NEW S, NEW a \in Seq(S), NEW b \in Seq(S)
  PROVE  /\ a \o b \in Seq(S) /\ Len(a \o b) = Len(a) + Len(b)
         /\ \A i \in 1 .. Len(a) : (a \o b)[i] = a[i]
         /\ \A i \in 1 .. Len(b) : (a \o b)[Len(a) + i] = b[i]
<1>1. a \o b \in Seq(S) /\ Len(a \o b) = Len(a) + Len(b)
  OBVIOUS
<1>2. \A i \in 1 .. Len(a) : (a \o b)[i] = a[i]
  OBVIOUS
<1>3. \A i \in 1 .. Len(b) : (a \o b)[Len(a) + i] = b[i]
  OBVIOUS
<1> QED BY <1>1, <1>2, <1>3

\* By how much qualifying lengthens a name.
Suffix(dest) == 3 + Len(dest.team) + Len(dest.channel)

\* Qualifying a name adds at least the separator and a "-".
LEMMA SuffixIsLong ==
  ASSUME NEW dest \in DestType
  PROVE  Suffix(dest) \in Nat /\ Suffix(dest) >= 3
<1> DEFINE team == dest.team
           channel == dest.channel
<1>1. team \in Seq(Token) /\ channel \in Seq(Token)
  BY DEF DestType, Tokens
<1> HIDE DEF team, channel
<1>2. 3 + Len(team) + Len(channel) \in Nat /\ 3 + Len(team) + Len(channel) >= 3
  BY <1>1
<1> QED BY <1>2 DEF Suffix, team, channel

\* What a qualified name consists of.
LEMMA QualifiedParts ==
  ASSUME NEW base \in Tokens, NEW dest \in DestType
  PROVE  LET full == receiverNameForChannel(base, dest)
         IN /\ full \in Tokens /\ Len(full) = Len(base) + Suffix(dest)
            /\ \A i \in 1 .. Len(base) : full[i] = base[i]
            /\ full[Len(base) + 1] = "-" /\ full[Len(base) + 2] = "-"
<1>1. dest.team \in Tokens /\ dest.channel \in Tokens
  BY DEF DestType
<1> DEFINE team == dest.team
           channel == dest.channel
           a == base \o Separator
           b == a \o team
           c == b \o <<"-">>
           d == c \o channel
<1>2. team \in Seq(Token) /\ channel \in Seq(Token) /\ base \in Seq(Token)
  BY <1>1 DEF Tokens
<1> HIDE DEF team, channel
<1>8. Len(base) \in Nat /\ Len(team) \in Nat /\ Len(channel) \in Nat
  BY <1>2
<1>3. /\ a \in Seq(Token) /\ Len(a) = Len(base) + 2 /\ \A i \in 1 .. Len(base) : a[i] = base[i]
      /\ a[Len(base) + 1] = "-" /\ a[Len(base) + 2] = "-"
  <2>1. Separator \in Seq(Token) /\ Len(Separator) = 2 /\ Separator[1] = "-" /\ Separator[2] = "-"
    BY ListsAssumption DEF Separator, ListsAssumption
  <2>2. 1 \in 1 .. Len(Separator) /\ 2 \in 1 .. Len(Separator)
    BY <2>1
  <2>3. /\ a \in Seq(Token) /\ Len(a) = Len(base) + Len(Separator)
        /\ \A i \in 1 .. Len(base) : a[i] = base[i]
        /\ \A i \in 1 .. Len(Separator) : a[Len(base) + i] = Separator[i]
    <3>1. Separator \in Seq(Token)
      BY <2>1
    <3>2. base \in Seq(Token)
      BY <1>2
    <3>3. /\ base \o Separator \in Seq(Token) /\ Len(base \o Separator) = Len(base) + Len(Separator)
          /\ \A i \in 1 .. Len(base) : (base \o Separator)[i] = base[i]
          /\ \A i \in 1 .. Len(Separator) : (base \o Separator)[Len(base) + i] = Separator[i]
      BY <3>1, <3>2, ConcatParts
    <3> QED BY <3>3
  <2> HIDE DEF a
  <2> DEFINE n == Len(base)
  <2>4. Len(a) = n + 2
    BY <2>1, <2>3
  <2>5. a[n + 1] = Separator[1]
    BY <2>2, <2>3
  <2>6. a[n + 2] = Separator[2]
    BY <2>2, <2>3
  <2> QED BY <2>1, <2>3, <2>4, <2>5, <2>6
<1> HIDE DEF a
<1>4. b \in Seq(Token) /\ Len(b) = Len(a) + Len(team) /\ \A i \in 1 .. Len(a) : b[i] = a[i]
  BY <1>2, <1>3, ConcatParts
<1> HIDE DEF b
<1>5. c \in Seq(Token) /\ Len(c) = Len(b) + 1 /\ \A i \in 1 .. Len(b) : c[i] = b[i]
  <2>1. <<"-">> \in Seq(Token) /\ Len(<<"-">>) = 1
    BY ListsAssumption DEF ListsAssumption
  <2> QED BY <1>4, <2>1, ConcatParts
<1> HIDE DEF c
<1>6. d \in Seq(Token) /\ Len(d) = Len(c) + Len(channel) /\ \A i \in 1 .. Len(c) : d[i] = c[i]
  BY <1>2, <1>5, ConcatParts
<1>7. receiverNameForChannel(base, dest) = d
  BY DEF receiverNameForChannel, a, b, c, team, channel
<1> HIDE DEF d
<1>9. Len(d) = Len(base) + 3 + Len(team) + Len(channel)
  BY <1>3, <1>4, <1>5, <1>6, <1>8
<1>10. \A i \in 1 .. Len(base) + 2 : d[i] = a[i]
  BY <1>3, <1>4, <1>5, <1>6, <1>8
<1>11. \A i \in 1 .. Len(base) : d[i] = base[i]
  BY <1>3, <1>8, <1>10
<1>12. d[Len(base) + 1] = "-" /\ d[Len(base) + 2] = "-"
  BY <1>3, <1>8, <1>10
<1>13. Len(d) = Len(base) + (3 + Len(team) + Len(channel))
  BY <1>8, <1>9
<1>14. Len(d) = Len(base) + Suffix(dest)
  BY <1>13 DEF Suffix, team, channel
<1> QED BY <1>6, <1>7, <1>14, <1>11, <1>12 DEF Tokens

\* Two names qualified alike have one base.
LEMMA QualifiedApart ==
  ASSUME NEW a \in Tokens, NEW b \in Tokens, NEW dest \in DestType,
         receiverNameForChannel(a, dest) = receiverNameForChannel(b, dest)
  PROVE  a = b
<1> DEFINE full == receiverNameForChannel(a, dest)
<1>1. /\ Len(full) = Len(a) + Suffix(dest)
      /\ \A i \in 1 .. Len(a) : full[i] = a[i]
  BY QualifiedParts
<1>2. /\ Len(full) = Len(b) + Suffix(dest)
      /\ \A i \in 1 .. Len(b) : full[i] = b[i]
  <2>1. full = receiverNameForChannel(b, dest)
    OBVIOUS
  <2> HIDE DEF full
  <2> QED BY <2>1, QualifiedParts
<1> HIDE DEF full
<1>3. a \in Seq(Token) /\ b \in Seq(Token)
  BY DEF Tokens
<1>4. Len(a) \in Nat /\ Len(b) \in Nat /\ Suffix(dest) \in Nat
  BY <1>3, SuffixIsLong
<1>5. Len(b) = Len(a)
  BY <1>1, <1>2, <1>4
<1>6. \A i \in 1 .. Len(a) : a[i] = b[i]
  BY <1>1, <1>2, <1>5
<1> QED BY <1>3, <1>5, <1>6

\* Cutting at the first "--" recovers the base, unless that has one of its own
\* or ends in a hyphen.
LEMMA BaseOfQualified ==
  ASSUME NEW base \in Tokens, NEW dest \in DestType,
         base # <<>>, Separators(base) = {}, base[Len(base)] # "-"
  PROVE  receiverBaseSlug(receiverNameForChannel(base, dest)) = base
<1> DEFINE full == receiverNameForChannel(base, dest)
           n == Len(base)
<1>1. /\ full \in Tokens /\ Len(full) = n + Suffix(dest)
      /\ \A i \in 1 .. n : full[i] = base[i]
      /\ full[n + 1] = "-" /\ full[n + 2] = "-"
  BY QualifiedParts
<1>2. Suffix(dest) \in Nat /\ Suffix(dest) >= 3 /\ n \in Nat /\ n # 0 /\ base \in Seq(Token)
  BY SuffixIsLong DEF Tokens
<1> HIDE DEF full, n
<1>3. full \in Seq(Token) /\ Len(full) \in Nat /\ Len(full) >= n + 3
  BY <1>1, <1>2 DEF Tokens
<1>4. Separators(full) \in SUBSET Nat /\ n + 1 \in Separators(full)
  <2>1. n + 1 \in 1 .. Len(full) - 1 /\ full[n + 1 + 1] = "-"
    BY <1>1, <1>2, <1>3
  <2> QED BY <2>1, <1>1, <1>3 DEF Separators
<1>5. ASSUME NEW i \in Separators(full) PROVE n + 1 <= i
  <2>1. i \in Nat /\ i >= 1 /\ full[i] = "-" /\ full[i + 1] = "-"
    BY <1>3 DEF Separators
  <2>2. SUFFICES ASSUME i <= n PROVE FALSE
    BY <2>1, <1>2
  <2>3. CASE i = n
    <3>1. n \in 1 .. n /\ base[n] # "-"
      BY <1>2 DEF n
    <3> QED BY <3>1, <2>3, <2>1, <1>1
  <2>4. CASE i < n
    <3>1. i \in 1 .. n - 1 /\ i \in 1 .. n /\ i + 1 \in 1 .. n
      BY <2>1, <2>4, <1>2
    <3>2. base[i] = "-" /\ base[i + 1] = "-"
      BY <3>1, <2>1, <1>1
    <3> QED BY <3>1, <3>2 DEF Separators, n
  <2> QED BY <2>1, <2>2, <2>3, <2>4, <1>2
<1>6. Min(Separators(full)) = n + 1
  <2>1. Min(Separators(full)) \in Separators(full) /\ \A i \in Separators(full) : Min(Separators(full)) <= i
    BY <1>4, LeastIsMin
  <2> QED BY <2>1, <1>2, <1>4, <1>5
<1>7. Separators(full) # {} /\ 1 \notin Separators(full)
  BY <1>2, <1>4, <1>5
<1>8. receiverBaseSlug(full) = SubSeq(full, 1, n)
  BY <1>2, <1>6, <1>7 DEF receiverBaseSlug
<1>9. SubSeq(full, 1, n) = base
  <2>1. SubSeq(full, 1, n) \in Seq(Token) /\ Len(SubSeq(full, 1, n)) = n
    BY <1>2, <1>3
  <2>2. \A i \in 1 .. n : SubSeq(full, 1, n)[i] = full[i]
    BY <1>2, <1>3
  <2>3. \A i \in 1 .. n : SubSeq(full, 1, n)[i] = base[i]
    BY <2>2, <1>1
  <2> QED BY <2>1, <2>3, <1>2 DEF n
<1> QED BY <1>8, <1>9 DEF full

\* A qualified name has a "--", a name without one is its own base.
LEMMA QualifiedHasSeparator ==
  ASSUME NEW base \in Tokens, NEW dest \in DestType
  PROVE  Separators(receiverNameForChannel(base, dest)) # {}
<1> DEFINE full == receiverNameForChannel(base, dest)
           n == Len(base)
<1>1. /\ full \in Tokens /\ Len(full) = n + Suffix(dest)
      /\ full[n + 1] = "-" /\ full[n + 2] = "-"
  BY QualifiedParts
<1>2. Suffix(dest) \in Nat /\ Suffix(dest) >= 3 /\ n \in Nat
  BY SuffixIsLong DEF Tokens
<1> HIDE DEF full, n
<1>3. n + 1 \in 1 .. Len(full) - 1 /\ full[n + 1 + 1] = "-"
  BY <1>1, <1>2
<1> QED BY <1>1, <1>3 DEF full, Separators

-----------------------------------------------------------------------------
(* Lists of receivers. *)

\* The list of receivers is as commands leave it.
ListsOK == module = "names" => ListOK(input)

\* In a list with unique names, a name is one receiver's.
LEMMA NameIsOne ==
  ASSUME NEW list, UniqueNames(list), NEW c \in ToSet(list), NEW d \in ToSet(list), c.name = d.name
  PROVE  c = d
<1>1. PICK i \in DOMAIN list, j \in DOMAIN list : c = list[i] /\ d = list[j]
  BY DEF ToSet
<1> DEFINE f == [k \in DOMAIN list |-> list[k].name]
<1>2. f[i] = f[j]
  BY <1>1
<1> QED BY <1>1, <1>2, Zenon DEF UniqueNames, IsInjective

\* What a batch that is persisted adds to a list.
LEMMA PersistedAdds ==
  ASSUME NEW S, NEW list \in Seq(S), NEW batch \in Seq(S), UniqueNames(list)
  PROVE  LET next == Persisted(list, batch)
         IN next \in Seq(S) /\ UniqueNames(next) /\ ToSet(next) \subseteq ToSet(list) \cup ToSet(batch)
<1>1. list \o batch \in Seq(S) /\ ToSet(list \o batch) \subseteq ToSet(list) \cup ToSet(batch)
  <2>1. /\ list \o batch \in Seq(S) /\ Len(list \o batch) = Len(list) + Len(batch)
        /\ \A i \in 1 .. Len(list) : (list \o batch)[i] = list[i]
        /\ \A i \in 1 .. Len(batch) : (list \o batch)[Len(list) + i] = batch[i]
    BY ConcatParts
  <2> DEFINE both == list \o batch
  <2> HIDE DEF both
  <2>2. ASSUME NEW i \in 1 .. Len(both) PROVE both[i] \in ToSet(list) \cup ToSet(batch)
    <3>1. Len(list) \in Nat /\ Len(batch) \in Nat /\ i \in 1 .. Len(list) + Len(batch)
      BY <2>1 DEF both
    <3>2. CASE i <= Len(list)
      BY <3>1, <3>2, <2>1 DEF both, ToSet
    <3>3. CASE i > Len(list)
      <4>1. i - Len(list) \in 1 .. Len(batch) /\ i = Len(list) + (i - Len(list))
        BY <3>1, <3>3
      <4>2. both[i] = batch[i - Len(list)]
        BY <4>1, <2>1 DEF both
      <4> QED BY <4>1, <4>2 DEF ToSet
    <3> QED BY <3>1, <3>2, <3>3
  <2>3. both \in Seq(S)
    BY <2>1 DEF both
  <2> QED BY <2>2, <2>3, <2>1 DEF ToSet, both
<1> QED BY <1>1 DEF Persisted

\* The sequence of a finite set is of its elements.
LEMMA SetToSeqOf ==
  ASSUME NEW S, IsFiniteSet(S)
  PROVE  SetToSeq(S) \in Seq(S) /\ ToSet(SetToSeq(S)) \subseteq S
<1>1. Cardinality(S) \in Nat /\ ExistsBijection(1 .. Cardinality(S), S)
  BY FS_CardinalityType
<1>2. PICK f \in [1 .. Cardinality(S) -> S] : IsInjective(f)
  BY <1>1 DEF ExistsBijection, Bijection, Injection, IsInjective
<1>3. SetToSeq(S) \in [1 .. Cardinality(S) -> S]
  BY <1>2, Zenon DEF SetToSeq
<1> QED BY <1>1, <1>3 DEF ToSet

\* What is seen from a channel.
LEMMA HereIs ==
  ASSUME NEW list, ListOK(list), NEW dest
  PROVE  /\ Here(list, dest) \in Seq(Entries)
         /\ ToSet(Here(list, dest)) = {c \in ToSet(list) : c.dest = dest}
<1>1. list \in Seq(Entries)
  BY DEF ListOK
<1> QED BY <1>1, OnlyKeeps DEF Here

\* add keeps the list in order.
LEMMA AddKeepsOK ==
  ASSUME NEW list, ListOK(list), NEW target, NEW dest \in Dests
  PROVE  ListOK(Add(list, target, dest))
<1> DEFINE runbooks == resolveAddTarget(target)
           new == NewRunbooks(list, runbooks, dest)
           Made(s) == Receiver(receiverNameForChannel(s, dest), dest, FALSE, s)
           made == {Made(s) : s \in new}
           next == Persisted(list, SetToSeq(made))
<1>1. dest \in DestType /\ list \in Seq(Entries) /\ UniqueNames(list)
  BY ListsAssumption DEF ListsAssumption, DestType, ListOK
<1>2. runbooks \subseteq Runbooks
  BY NamesAssumption DEF NamesAssumption, resolveAddTarget
<1>3. new \subseteq Runbooks
  BY <1>2 DEF NewRunbooks
<1>4. IsFiniteSet(made)
  <2>1. IsFiniteSet(new)
    BY <1>3, NamesAssumption, FS_Subset DEF NamesAssumption
  <2> HIDE DEF new
  <2> DEFINE f == [s \in new |-> Made(s)]
  <2>2. f \in Surjection(new, made)
    BY DEF Surjection
  <2> QED BY <2>1, <2>2, FS_Surjection
<1>5. ASSUME NEW s \in new
      PROVE  Made(s) \in Entries /\ WellNamed(Made(s))
  <2>1. s \in Runbooks /\ s \in Tokens /\ s # <<>> /\ Separators(s) = {}
    BY <1>3, NamesAssumption, ListsAssumption DEF NamesAssumption, ListsAssumption
  <2>2. receiverNameForChannel(s, dest) \in Tokens
    BY <1>1, <2>1, QualifiedParts
  <2> QED BY <2>1, <2>2 DEF Receiver, Entries, WellNamed
<1>6. SetToSeq(made) \in Seq(made) /\ ToSet(SetToSeq(made)) \subseteq made
  BY <1>4, SetToSeqOf
<1>7. made \subseteq Entries
  BY <1>5
<1> HIDE DEF new, made
<1>8. SetToSeq(made) \in Seq(Entries)
  BY <1>6, <1>7
<1>9. next \in Seq(Entries) /\ UniqueNames(next) /\ ToSet(next) \subseteq ToSet(list) \cup made
  BY <1>1, <1>6, <1>8, PersistedAdds
<1>10. \A c \in ToSet(next) : WellNamed(c)
  BY <1>5, <1>9 DEF ListOK, made
<1>11. ASSUME NEW c \in ToSet(list), NEW d \in made, c.dest = d.dest, c.typed = d.typed
       PROVE  FALSE
  <2>1. PICK s \in new : d = Made(s)
    BY DEF made
  <2>2. c.dest = dest /\ c.typed = s /\ s \in Runbooks
    BY <1>3, <1>11, <2>1 DEF Receiver
  <2>3. c.name \in {receiverNameForChannel(s, dest), s}
    BY <2>2 DEF ListOK, WellNamed
  <2>4. c \in ToSet(Here(list, dest))
    BY <2>2, HereIs
  <2>5. c.name \in NamesOf(Here(list, dest))
    BY <2>4 DEF NamesOf, ToSet
  <2> QED BY <2>1, <2>3, <2>5 DEF new, NewRunbooks
<1>12. ASSUME NEW c \in made, NEW d \in made, c.typed = d.typed
       PROVE  c = d
  <2>1. PICK s \in new, t \in new : c = Made(s) /\ d = Made(t)
    BY DEF made
  <2>2. c.typed = s /\ d.typed = t
    BY <2>1 DEF Receiver
  <2> QED BY <1>12, <2>1, <2>2
<1>13. ASSUME NEW c \in ToSet(next), NEW d \in ToSet(next), c.dest = d.dest, c.typed = d.typed
       PROVE  c = d
  <2>1. CASE c \in ToSet(list) /\ d \in ToSet(list)
    BY <1>13, <2>1 DEF ListOK
  <2>2. CASE c \in made /\ d \in made
    BY <1>12, <1>13, <2>2
  <2>3. CASE c \in ToSet(list) /\ d \in made
    BY <1>11, <1>13, <2>3
  <2>4. CASE c \in made /\ d \in ToSet(list)
    BY <1>11, <1>13, <2>4
  <2> QED BY <1>9, <2>1, <2>2, <2>3, <2>4
<1>14. Add(list, target, dest) = next
  BY DEF Add, new, made
<1> HIDE DEF next
<1> QED BY <1>9, <1>10, <1>13, <1>14 DEF ListOK

\* add-custom keeps the list in order.
LEMMA AddCustomKeepsOK ==
  ASSUME NEW list, ListOK(list), NEW typed \in Typed, NEW dest \in Dests
  PROVE  ListOK(AddCustom(list, typed, dest))
<1> DEFINE full == receiverNameForChannel(typed, dest)
           made == Receiver(full, dest, TRUE, typed)
           next == Persisted(list, <<made>>)
<1>1. dest \in DestType /\ list \in Seq(Entries) /\ UniqueNames(list) /\ typed \in Tokens
  BY ListsAssumption DEF ListsAssumption, DestType, ListOK
<1>2. full \in Tokens
  BY <1>1, QualifiedParts
<1>3. SUFFICES ASSUME validateCustomReceiverName(typed, dest) # NoName,
                      validateCustomReceiverName(typed, dest) \notin NamesOf(Here(list, dest))
               PROVE  ListOK(next)
  BY DEF AddCustom, validateCustomReceiverName, NoName
<1>4. /\ typed # <<>> /\ Separators(typed) = {}
      /\ typed \notin Runbooks \cup DOMAIN Category \cup {<<"all">>}
      /\ validateCustomReceiverName(typed, dest) = full
  BY <1>3 DEF validateCustomReceiverName
<1> HIDE DEF full
<1>5. made \in Entries /\ WellNamed(made)
  BY <1>1, <1>2, <1>4 DEF Receiver, Entries, WellNamed, full
<1>6. made.dest = dest /\ made.typed = typed
  BY DEF Receiver
<1> HIDE DEF made
<1>7. <<made>> \in Seq(Entries) /\ ToSet(<<made>>) = {made}
  BY <1>5 DEF ToSet
<1>8. next \in Seq(Entries) /\ UniqueNames(next) /\ ToSet(next) \subseteq ToSet(list) \cup {made}
  BY <1>1, <1>7, PersistedAdds
<1>9. \A c \in ToSet(next) : WellNamed(c)
  BY <1>5, <1>8 DEF ListOK
<1>10. ASSUME NEW c \in ToSet(list), c.dest = dest, c.typed = typed
       PROVE  FALSE
  <2>1. c.custom
    BY <1>4, <1>10 DEF ListOK, WellNamed
  <2>2. c.name = full
    BY <1>10, <2>1 DEF ListOK, WellNamed, full
  <2>3. c \in ToSet(Here(list, dest))
    BY <1>10, HereIs
  <2>4. full \in NamesOf(Here(list, dest))
    BY <2>2, <2>3 DEF NamesOf, ToSet
  <2> QED BY <1>3, <1>4, <2>4
<1>11. ASSUME NEW c \in ToSet(next), NEW d \in ToSet(next), c.dest = d.dest, c.typed = d.typed
       PROVE  c = d
  <2>1. CASE c \in ToSet(list) /\ d \in ToSet(list)
    BY <1>11, <2>1 DEF ListOK
  <2>2. CASE c = made \/ d = made
    BY <1>6, <1>8, <1>10, <1>11, <2>2
  <2> QED BY <1>8, <2>1, <2>2
<1> HIDE DEF next
<1> QED BY <1>8, <1>9, <1>11 DEF ListOK

\* And so does whatever leaves some receivers out.
LEMMA OnlyKeepsOK ==
  ASSUME NEW list, ListOK(list), NEW some
  PROVE  ListOK(Only(list, some))
<1> DEFINE next == Only(list, some)
<1>1. list \in Seq(Entries) /\ UniqueNames(list)
  BY DEF ListOK
<1>2. next \in Seq(Entries) /\ ToSet(next) \subseteq ToSet(list) /\ Ordered(next, list, Len(list))
  BY <1>1, OnlyKeeps
<1> HIDE DEF next
<1>3. UniqueNames(next)
  <2>1. ASSUME NEW a \in DOMAIN next, NEW b \in DOMAIN next, a < b PROVE next[a].name # next[b].name
    <3>1. PICK i \in 1 .. Len(list), j \in 1 .. Len(list) : i < j /\ next[a] = list[i] /\ next[b] = list[j]
      BY <1>2, <2>1 DEF Ordered
    <3>2. SUFFICES ASSUME list[i].name = list[j].name PROVE FALSE
      BY <3>1
    <3> DEFINE f == [k \in DOMAIN list |-> list[k].name]
    <3>3. i \in DOMAIN f /\ j \in DOMAIN f /\ f[i] = f[j]
      BY <1>1, <3>2
    <3>4. i = j
      BY <1>1, <3>3, Zenon DEF UniqueNames, IsInjective
    <3> QED BY <3>1, <3>4
  <2>2. DOMAIN next \subseteq Nat
    BY <1>2
  <2>3. \A a, b \in DOMAIN next : next[a].name = next[b].name => a = b
    BY <2>1, <2>2
  <2> QED BY <2>3 DEF UniqueNames, IsInjective
<1> QED BY <1>2, <1>3 DEF ListOK, next

\* The lists that the commands make are in order, always.
THEOREM ListsStayOK == InputsSpec => []ListsOK
<1>1. InputsInit => ListsOK
  <2> SUFFICES ASSUME InputsInit, module = "names" PROVE ListOK(input)
    BY DEF ListsOK
  <2>1. input \in Legacy
    BY DEF InputsInit
  <2> DEFINE Old == UNION {{Receiver(s, d, FALSE, s) : s \in Runbooks} : d \in Dests}
  <2>2. input \in Seq(Old) /\ UniqueNames(input)
    BY <2>1, ListsAssumption DEF ListsAssumption
  <2>3. ASSUME NEW c \in Old
        PROVE  c \in Entries /\ WellNamed(c) /\ c.name = c.typed
    <3>1. PICK s \in Runbooks, d \in Dests : c = Receiver(s, d, FALSE, s)
      OBVIOUS
    <3>2. s \in Tokens /\ s # <<>> /\ Separators(s) = {}
      BY NamesAssumption, ListsAssumption DEF NamesAssumption, ListsAssumption
    <3> QED BY <3>1, <3>2 DEF Receiver, Entries, WellNamed
  <2> HIDE DEF Old
  <2>4. input \in Seq(Entries) /\ \A c \in ToSet(input) : c \in Old
    BY <2>2, <2>3 DEF ToSet
  <2>5. ASSUME NEW c \in ToSet(input), NEW d \in ToSet(input), c.typed = d.typed
        PROVE  c = d
    <3>1. c.name = d.name
      BY <2>3, <2>4, <2>5
    <3> QED BY <2>2, <3>1, NameIsOne
  <2> QED BY <2>2, <2>3, <2>4, <2>5 DEF ListOK
<1>2. ListsOK /\ [InputsNext]_<<module, input>> => ListsOK'
  <2> SUFFICES ASSUME ListsOK, [InputsNext]_<<module, input>>, module' = "names" PROVE ListOK(input')
    BY DEF ListsOK
  <2>1. CASE UNCHANGED <<module, input>>
    BY <2>1 DEF ListsOK
  <2>2. CASE InputsNext
    <3>1. CASE module # "names" /\ UNCHANGED <<module, input>>
      BY <3>1
    <3>2. CASE module = "names" /\ AddStep
      BY <3>2, AddKeepsOK DEF ListsOK, AddStep
    <3>3. CASE module = "names" /\ AddCustomStep
      BY <3>3, AddCustomKeepsOK DEF ListsOK, AddCustomStep
    <3>4. CASE module = "names" /\ RemoveStep
      BY <3>4, OnlyKeepsOK DEF ListsOK, RemoveStep, Without
    <3> QED BY <2>2, <3>1, <3>2, <3>3, <3>4 DEF InputsNext
  <2> QED BY <2>1, <2>2
<1> QED BY <1>1, <1>2, PTL DEF InputsSpec

-----------------------------------------------------------------------------
(* Finding receivers by their names. *)

\* Where the first element that passes a test is, if there is one.
SelectedOf(list, first, some) ==
  /\ first = 0 => \A i \in DOMAIN list : i \notin some
  /\ first # 0 => first \in DOMAIN list /\ first \in some

\* The least of the places that pass a test is the first that does.
LEMMA MinSelects ==
  ASSUME NEW S, NEW list \in Seq(S), NEW some \in SUBSET (1 .. Len(list))
  PROVE  SelectedOf(list, IF some # {} THEN Min(some) ELSE 0, some)
<1>1. CASE some = {}
  BY <1>1 DEF SelectedOf
<1>2. CASE some # {}
  <2>1. Min(some) \in some
    <3>1. some \in SUBSET Nat
      OBVIOUS
    <3> QED BY <1>2, <3>1, LeastIsMin
  <2>2. Min(some) \in 1 .. Len(list)
    BY <2>1
  <2> QED BY <1>2, <2>1, <2>2 DEF SelectedOf
<1> QED BY <1>1, <1>2

\* Cutting a receiver's name at the first "--" recovers what was typed for it.
LEMMA BaseIsTyped ==
  ASSUME NEW c \in Entries, WellNamed(c), ~EndsInHyphen(c)
  PROVE  receiverBaseSlug(c.name) = c.typed
<1>1. c.typed \in Tokens /\ c.dest \in DestType /\ c.custom \in BOOLEAN
  BY ListsAssumption DEF Entries, ListsAssumption, DestType
<1>2. c.typed # <<>> /\ Separators(c.typed) = {} /\ c.typed[Len(c.typed)] # "-"
  BY DEF WellNamed, EndsInHyphen
<1>3. CASE c.name = receiverNameForChannel(c.typed, c.dest)
  BY <1>1, <1>2, <1>3, BaseOfQualified
<1>4. CASE c.name = c.typed
  BY <1>2, <1>4 DEF receiverBaseSlug
<1> QED BY <1>1, <1>3, <1>4 DEF WellNamed

\* The receivers of a channel that a name means.
Meant(list, dest, name) == {c \in ToSet(Here(list, dest)) : name \in {c.name, c.typed}}

\* A name means one receiver at most.
LEMMA MeantIsOne ==
  ASSUME NEW list, ListOK(list), NEW dest \in Dests, NEW name \in Tokens,
         NEW c \in Meant(list, dest, name), NEW d \in Meant(list, dest, name)
  PROVE  c = d
<1>1. /\ c \in ToSet(list) /\ d \in ToSet(list) /\ c.dest = dest /\ d.dest = dest
      /\ name \in {c.name, c.typed} /\ name \in {d.name, d.typed}
  BY HereIs DEF Meant
<1>2. /\ WellNamed(c) /\ WellNamed(d) /\ UniqueNames(list)
      /\ (c.typed = d.typed => c = d)
  BY <1>1 DEF ListOK
<1>3. c \in Entries /\ d \in Entries
  BY <1>1 DEF ListOK, ToSet
<1>4. dest \in DestType /\ c.typed \in Tokens /\ d.typed \in Tokens /\ c.custom \in BOOLEAN /\ d.custom \in BOOLEAN
  BY <1>3, ListsAssumption DEF Entries, ListsAssumption, DestType
<1>5. CASE c.name = d.name
  BY <1>1, <1>2, <1>5, NameIsOne
<1>6. CASE c.typed = d.typed
  BY <1>2, <1>6
<1>7. ASSUME NEW a, NEW b, a.name = b.typed, WellNamed(a), WellNamed(b), a.dest = dest, a.typed \in Tokens, a.custom \in BOOLEAN
      PROVE  a.typed = b.typed
  <2>1. Separators(a.name) = {}
    BY <1>7 DEF WellNamed
  <2>2. a.name # receiverNameForChannel(a.typed, dest)
    BY <2>1, <1>4, <1>7, QualifiedHasSeparator
  <2> QED BY <2>2, <1>7 DEF WellNamed
<1>8. CASE c.name = d.typed
  BY <1>8, <1>7, <1>1, <1>2, <1>4
<1>9. CASE c.typed = d.name
  BY <1>9, <1>7, <1>1, <1>2, <1>4
<1> QED BY <1>1, <1>5, <1>6, <1>8, <1>9

\* No receiver's typed name ends in a hyphen: what the parsing of names needs.
Parsable(list) == ~\E c \in ToSet(list) : EndsInHyphen(c)

\* Names that stand for a receiver, not for a set of them.
Single(name) == name \in Tokens /\ name \notin DOMAIN Category \cup {NoName, <<"all">>}

\* The names by which receivers are looked for stand for one, and so do theirs.
LEMMA WordsAreSingle ==
  ASSUME NEW list, ListOK(list), NEW name \in Words \cup NamesOf(list)
  PROVE  Single(name)
<1>1. CASE name \in Words
  BY <1>1, ListsAssumption DEF ListsAssumption, Single
<1>2. CASE name \in NamesOf(list)
  <2>1. PICK i \in DOMAIN list : name = list[i].name
    BY <1>2 DEF NamesOf
  <2> DEFINE c == list[i]
  <2>2. c \in Entries /\ WellNamed(c)
    BY DEF ListOK, ToSet
  <2> HIDE DEF c
  <2>3. c.typed \in Tokens /\ c.dest \in DestType /\ c.custom \in BOOLEAN /\ c.name \in Tokens
    BY <2>2, ListsAssumption DEF Entries, ListsAssumption, DestType
  <2>4. c.name \notin DOMAIN Category \cup {NoName, <<"all">>}
    <3>1. CASE c.name = receiverNameForChannel(c.typed, c.dest)
      <4>1. Separators(c.name) # {}
        BY <2>3, <3>1, QualifiedHasSeparator
      <4>2. \A s \in DOMAIN Category : Separators(s) = {}
        BY NamesAssumption DEF NamesAssumption
      <4>3. Separators(NoName) = {} /\ Separators(<<"all">>) = {}
        BY DEF Separators, NoName
      <4> QED BY <4>1, <4>2, <4>3
    <3>2. CASE c.name = c.typed /\ c.typed \in Runbooks
      BY <3>2, NamesAssumption DEF NamesAssumption, NoName
    <3> QED BY <2>2, <2>3, <3>1, <3>2 DEF WellNamed
  <2> QED BY <2>1, <2>3, <2>4 DEF Single, c
<1> QED BY <1>1, <1>2

\* In a channel, a receiver and its name are the same.
LEMMA ByNameIsMeant ==
  ASSUME NEW list, ListOK(list), NEW dest \in Dests, NEW name \in Tokens, NEW c \in Meant(list, dest, name)
  PROVE  {d \in ToSet(Here(list, dest)) : d.name = c.name} = Meant(list, dest, name)
<1>1. c \in ToSet(Here(list, dest)) /\ c \in ToSet(list)
  BY HereIs DEF Meant
<1>2. ASSUME NEW d \in ToSet(Here(list, dest)), d.name = c.name PROVE d = c
  <2>1. d \in ToSet(list)
    BY HereIs
  <2> QED BY <1>1, <1>2, <2>1, NameIsOne DEF ListOK
<1>3. \A d \in Meant(list, dest, name) : d = c
  BY MeantIsOne
<1> QED BY <1>1, <1>2, <1>3

\* What resolveReceiverName makes of a name is the name of what was meant.
LEMMA ResolvedIsMeant ==
  ASSUME NEW list, ListOK(list), Parsable(list), NEW dest \in Dests, NEW name \in Tokens, NEW known \in BOOLEAN
  PROVE  One(list, name, dest, known) = Meant(list, dest, name)
<1> DEFINE scoped == Here(list, dest)
           here == ToSet(scoped)
           full == receiverNameForChannel(name, dest)
           I == {i \in 1 .. Len(scoped) : receiverBaseSlug(scoped[i].name) = name}
           first == IF I # {} THEN Min(I) ELSE 0
           resolved == resolveReceiverName(scoped, name, dest, known)
<1>1. /\ scoped \in Seq(Entries) /\ here = {c \in ToSet(list) : c.dest = dest}
      /\ dest \in DestType
  BY HereIs, ListsAssumption DEF ListsAssumption, DestType
<1>2. ASSUME NEW c \in here
      PROVE  /\ c \in Entries /\ WellNamed(c) /\ receiverBaseSlug(c.name) = c.typed /\ c.dest = dest
             /\ c.typed \in Tokens /\ c.custom \in BOOLEAN
  <2>1. c \in ToSet(list) /\ c.dest = dest /\ c \in Entries
    BY <1>1 DEF ToSet
  <2>2. WellNamed(c) /\ ~EndsInHyphen(c)
    BY <2>1 DEF ListOK, Parsable
  <2> QED BY <2>1, <2>2, BaseIsTyped DEF Entries
<1>3. SelectedOf(scoped, first, I)
  BY <1>1, MinSelects
<1>4. resolved = IF name \in NamesOf(scoped) THEN name
                 ELSE IF known /\ full \in NamesOf(scoped) THEN full
                 ELSE IF first # 0 THEN scoped[first].name ELSE name
  BY DEF resolveReceiverName, SelectInSeq
<1>5. One(list, name, dest, known) = {c \in here : c.name = resolved}
  BY DEF One
<1>6. NamesOf(scoped) = {c.name : c \in here}
  BY DEF NamesOf, ToSet
<1>7. Meant(list, dest, name) = {c \in here : name \in {c.name, c.typed}}
  BY DEF Meant
<1> HIDE DEF resolved, I, first, here, scoped
<1>8. CASE name \in NamesOf(scoped)
  <2>1. PICK c \in here : c.name = name
    BY <1>6, <1>8
  <2>2. c \in Meant(list, dest, name) /\ resolved = c.name
    BY <1>4, <1>7, <1>8, <2>1
  <2> QED BY <1>5, <2>2, ByNameIsMeant DEF here, scoped
<1>9. CASE name \notin NamesOf(scoped) /\ known /\ full \in NamesOf(scoped)
  <2>1. PICK c \in here : c.name = full
    BY <1>6, <1>9
  <2>2. WellNamed(c) /\ c.dest = dest /\ c.typed \in Tokens /\ c.custom \in BOOLEAN
    BY <1>2
  <2>3. c.name # c.typed
    <3>1. Separators(c.typed) = {} /\ Separators(full) # {}
      BY <1>1, <2>2, QualifiedHasSeparator DEF WellNamed
    <3> QED BY <2>1, <3>1
  <2>4. c.name = receiverNameForChannel(c.typed, dest)
    BY <2>2, <2>3 DEF WellNamed
  <2>5. c.typed = name
    BY <1>1, <2>1, <2>2, <2>4, QualifiedApart
  <2>6. c \in Meant(list, dest, name) /\ resolved = c.name
    BY <1>4, <1>7, <1>9, <2>1, <2>5
  <2> QED BY <1>5, <2>6, ByNameIsMeant DEF here, scoped
<1>10. CASE name \notin NamesOf(scoped) /\ ~(known /\ full \in NamesOf(scoped)) /\ first # 0
  <2>1. scoped[first] \in here /\ receiverBaseSlug(scoped[first].name) = name
    BY <1>3, <1>10 DEF SelectedOf, here, ToSet, I
  <2>2. scoped[first].typed = name
    BY <1>2, <2>1
  <2>3. scoped[first] \in Meant(list, dest, name) /\ resolved = scoped[first].name
    BY <1>4, <1>7, <1>10, <2>1, <2>2
  <2> QED BY <1>5, <2>3, ByNameIsMeant DEF here, scoped
<1>11. CASE name \notin NamesOf(scoped) /\ ~(known /\ full \in NamesOf(scoped)) /\ first = 0
  <2>1. resolved = name
    BY <1>4, <1>11
  <2>2. ASSUME NEW c \in here PROVE c.name # name /\ c.typed # name
    <3>1. PICK i \in DOMAIN scoped : c = scoped[i]
      BY DEF here, ToSet
    <3>2. receiverBaseSlug(c.name) # name
      BY <1>1, <1>3, <1>11, <3>1 DEF SelectedOf, I
    <3> QED BY <1>2, <1>6, <1>11, <3>2
  <2> QED BY <1>5, <1>7, <2>1, <2>2
<1> QED BY <1>8, <1>9, <1>10, <1>11

\* handleConfig shows what was meant.
LEMMA ConfigIsMeant ==
  ASSUME NEW list, ListOK(list), Parsable(list), NEW dest \in Dests, NEW name \in Tokens
  PROVE  handleConfig(list, name, dest) = Meant(list, dest, name)
<1> DEFINE scoped == Here(list, dest)
           here == ToSet(scoped)
           I == {i \in 1 .. Len(scoped) : name \in {scoped[i].name, receiverBaseSlug(scoped[i].name)}}
           first == IF I # {} THEN Min(I) ELSE 0
<1>1. /\ scoped \in Seq(Entries) /\ here = {c \in ToSet(list) : c.dest = dest}
  BY HereIs
<1>2. ASSUME NEW c \in here
      PROVE  receiverBaseSlug(c.name) = c.typed
  <2>1. c \in ToSet(list) /\ c \in Entries
    BY <1>1 DEF ToSet
  <2>2. WellNamed(c) /\ ~EndsInHyphen(c)
    BY <2>1 DEF ListOK, Parsable
  <2> QED BY <2>1, <2>2, BaseIsTyped
<1>3. SelectedOf(scoped, first, I)
  BY <1>1, MinSelects
<1>4. handleConfig(list, name, dest) = IF first = 0 THEN {} ELSE {scoped[first]}
  BY DEF handleConfig, SelectInSeq
<1>5. Meant(list, dest, name) = {c \in here : name \in {c.name, c.typed}}
  BY DEF Meant
<1> HIDE DEF I, first, here, scoped
<1>6. CASE first # 0
  <2>1. scoped[first] \in here /\ name \in {scoped[first].name, receiverBaseSlug(scoped[first].name)}
    BY <1>3, <1>6 DEF SelectedOf, here, ToSet, I
  <2>2. scoped[first] \in Meant(list, dest, name)
    BY <1>2, <1>5, <2>1
  <2>3. \A d \in Meant(list, dest, name) : d = scoped[first]
    BY <2>2, MeantIsOne
  <2> QED BY <1>4, <1>6, <2>2, <2>3
<1>7. CASE first = 0
  <2>1. ASSUME NEW c \in here PROVE c.name # name /\ c.typed # name
    <3>1. PICK i \in DOMAIN scoped : c = scoped[i]
      BY DEF here, ToSet
    <3>2. name \notin {c.name, receiverBaseSlug(c.name)}
      BY <1>1, <1>3, <1>7, <3>1 DEF SelectedOf, I
    <3> QED BY <1>2, <3>2
  <2> QED BY <1>4, <1>5, <1>7, <2>1
<1> QED BY <1>6, <1>7

\* In every list in order, names stay in their channel.
LEMMA NamesStay ==
  ASSUME NEW list, ListOK(list), NEW dest \in Dests
  PROVE  NamesStayHere(list, dest, Words)
<1> DEFINE here == ToSet(Here(list, dest))
           MeantBy(name) == {c \in here : name \in {c.name, c.typed}}
<1>1. SUFFICES ASSUME Parsable(list)
               PROVE  /\ BoundaryUnambiguous(list)
                      /\ \A name \in Words \cup NamesOf(list) :
                           /\ \A channelKnown \in BOOLEAN : One(list, name, dest, channelKnown) = MeantBy(name)
                           /\ handleRemove(list, name, dest, FALSE) = MeantBy(name)
                           /\ handleValidate(list, name, dest) = MeantBy(name)
                           /\ handleConfig(list, name, dest) = MeantBy(name)
                           /\ handleExpireSilence(list, name, dest) \subseteq MeantBy(name)
                      /\ \A set \in DOMAIN Category :
                           handleRemove(list, set, dest, TRUE) = {c \in here : ~c.custom /\ c.typed \in Category[set]}
  BY Zenon DEF NamesStayHere, Parsable
<1>2. ASSUME NEW c \in ToSet(list)
      PROVE  WellNamed(c) /\ c.custom \in BOOLEAN /\ receiverBaseSlug(c.name) = c.typed
  <2>1. WellNamed(c) /\ c \in Entries /\ ~EndsInHyphen(c)
    BY <1>1 DEF ListOK, ToSet, Parsable
  <2> QED BY <2>1, BaseIsTyped DEF Entries
<1>3. BoundaryUnambiguous(list)
  BY <1>2 DEF BoundaryUnambiguous
<1>4. ASSUME NEW name \in Words \cup NamesOf(list)
      PROVE  /\ \A channelKnown \in BOOLEAN : One(list, name, dest, channelKnown) = MeantBy(name)
             /\ handleRemove(list, name, dest, FALSE) = MeantBy(name)
             /\ handleValidate(list, name, dest) = MeantBy(name)
             /\ handleConfig(list, name, dest) = MeantBy(name)
             /\ handleExpireSilence(list, name, dest) \subseteq MeantBy(name)
  <2>1. Single(name)
    BY WordsAreSingle
  <2>2. MeantBy(name) = Meant(list, dest, name)
    BY DEF Meant
  <2>3. \A channelKnown \in BOOLEAN : One(list, name, dest, channelKnown) = Meant(list, dest, name)
    BY <1>1, <2>1, ResolvedIsMeant DEF Single
  <2>4. handleRemove(list, name, dest, FALSE) = One(list, name, dest, TRUE)
    BY <2>1 DEF handleRemove, Single
  <2>5. handleValidate(list, name, dest) = One(list, name, dest, TRUE)
    BY <2>1 DEF handleValidate, Single
  <2>6. handleConfig(list, name, dest) = Meant(list, dest, name)
    BY <1>1, <2>1, ConfigIsMeant DEF Single
  <2>7. handleExpireSilence(list, name, dest) \subseteq Meant(list, dest, name)
    BY DEF handleExpireSilence, Meant
  <2> QED BY <2>2, <2>3, <2>4, <2>5, <2>6, <2>7
<1>5. ASSUME NEW set \in DOMAIN Category
      PROVE  handleRemove(list, set, dest, TRUE) = {c \in here : ~c.custom /\ c.typed \in Category[set]}
  <2>1. set # <<"all">> /\ Category[set] \subseteq Runbooks
    BY NamesAssumption DEF NamesAssumption
  <2>2. handleRemove(list, set, dest, TRUE) = {c \in here : receiverBaseSlug(c.name) \in Category[set]}
    BY <2>1 DEF handleRemove, OfCategory
  <2>3. ASSUME NEW c \in here
        PROVE  receiverBaseSlug(c.name) \in Category[set] <=> ~c.custom /\ c.typed \in Category[set]
    <3>1. c \in ToSet(list)
      BY HereIs
    <3> QED BY <1>2, <2>1, <3>1 DEF WellNamed
  <2> HIDE DEF here
  <2> QED BY <2>2, <2>3
<1> QED BY <1>3, <1>4, <1>5, Zenon

\* A receiver's short or full name, typed in a channel, stands in every command
\* for the receiver added under it there and for no other: for lists of any
\* length, made by any sequence of add, add-custom and remove.
THEOREM NamesMeanReceivers == InputsSpec => []ShortNamesMeanTheReceiverHere
<1>1. ListsOK => ShortNamesMeanTheReceiverHere
  BY NamesStay DEF ListsOK, ShortNamesMeanTheReceiverHere
<1> QED BY <1>1, ListsStayOK, PTL

-----------------------------------------------------------------------------
(* Commands. *)

\* An input of Commands: a user and a command.
CommandOK(user, fields, channel) ==
  /\ user.sysadmin \in BOOLEAN /\ DOMAIN user.roles \subseteq Teams
  /\ fields \in Seq(STRING) /\ fields # <<>> /\ fields[1] = "/alertmanager"
  /\ channel \in DOMAIN TeamOf

\* A team that comes first is the one that is meant.
LEMMA FirstIsTarget ==
  ASSUME NEW fields \in Seq(STRING), Len(fields) >= 3, fields[3] \notin FlagsOf(fields[2])
  PROVE  TargetTeam(fields) = fields[3]
<1>1. Positional(fields) \in SUBSET Nat /\ 3 \in Positional(fields) /\ \A i \in Positional(fields) : 3 <= i
  BY DEF Positional
<1>2. Min(Positional(fields)) \in Positional(fields) /\ Min(Positional(fields)) <= 3
  BY <1>1, LeastIsMin
<1>3. Min(Positional(fields)) = 3
  BY <1>1, <1>2
<1> QED BY <1>1, <1>3 DEF TargetTeam

\* The subcommands there are.
Known == Open \cup InChannel \cup ForSystem \cup IntoTeam \cup {"export"}

\* What comes first stays first when something is appended.
LEMMA HeadStays ==
  ASSUME NEW T, NEW s \in Seq(T), s # <<>>, NEW e \in T
  PROVE  Head(s) = s[1] /\ Head(s \o <<e>>) = s[1]
<1>1. Len(s) \in Nat /\ Len(s) # 0
  OBVIOUS
<1>2. s \o <<e>> \in Seq(T) /\ Len(s \o <<e>>) = Len(s) + 1
  OBVIOUS
<1>3. (s \o <<e>>)[1] = s[1]
  BY <1>1
<1>4. Head(s \o <<e>>) = (s \o <<e>>)[1]
  BY <1>1, <1>2
<1> QED BY <1>3, <1>4

\* What runs has a known subcommand and has passed its gate.
LEMMA RunsIf ==
  ASSUME NEW S, NEW user, NEW channel, NEW fields \in Seq(S), fields # <<>>, fields[1] = "/alertmanager"
  PROVE  executeCommand(user, fields, channel) = "runs" <=>
           Len(fields) # 1 /\ fields[2] \in Known /\ Gate(user, fields, channel)
<1> DEFINE T == S \cup {""}
<1>1. S \subseteq T /\ "" \in T
  OBVIOUS
<1> HIDE DEF T
<1>2. Head(fields) = "/alertmanager" /\ Head(fields \o <<"">>) = "/alertmanager"
  <2>1. Len(fields) \in Nat /\ fields \in [1 .. Len(fields) -> S]
    OBVIOUS
  <2>2. fields \in [1 .. Len(fields) -> T]
    BY <1>1, <2>1
  <2>3. fields \in Seq(T)
    BY <2>1, <2>2
  <2> QED BY <1>1, <2>3, HeadStays
<1> DEFINE gate == Gate(user, fields, channel)
           one == Len(fields) = 1
<1>3. ~(fields = <<>> \/ Head(fields \o <<"">>) # "/alertmanager")
  BY <1>2
<1>4. executeCommand(user, fields, channel)
        = IF one THEN "missing subcommand"
          ELSE IF fields[2] \notin Known THEN "unknown subcommand" ELSE IF gate THEN "runs" ELSE "refused"
  <2> HIDE DEF gate
  <2>1. one => executeCommand(user, fields, channel) = "missing subcommand"
    BY <1>2, <1>3, Zenon DEF executeCommand, gate
  <2>2. ASSUME ~one
        PROVE  executeCommand(user, fields, channel)
                 = IF fields[2] \notin Known THEN "unknown subcommand" ELSE IF gate THEN "runs" ELSE "refused"
    BY <1>2, <1>3, <2>2, Zenon DEF executeCommand, gate, Known
  <2> HIDE DEF one
  <2> QED BY <2>1, <2>2
<1> HIDE DEF gate, one
<1>5. executeCommand(user, fields, channel) = "runs" <=> ~one /\ fields[2] \in Known /\ gate
  BY <1>4
<1> QED BY <1>5 DEF gate, one

\* Each kind of command has its gate.
LEMMA GateOf ==
  ASSUME NEW user, NEW fields, NEW channel
  PROVE  /\ fields[2] \in IntoTeam =>
              Gate(user, fields, channel) = requireTeamAdminBySlug(user, TargetTeam(fields))
              /\ Touches(fields, channel) = {TargetTeam(fields)} \cap Teams
         /\ fields[2] \in InChannel \/ (fields[2] = "export" /\ ~Diffs(fields)) =>
              Gate(user, fields, channel) = requireChannelTeamAdmin(user, channel)
              /\ Touches(fields, channel) = {TeamOf[channel]}
         /\ fields[2] \in ForSystem \/ Diffs(fields) =>
              Gate(user, fields, channel) = requireSystemAdmin(user)
         /\ fields[2] \notin IntoTeam \cup InChannel \cup ForSystem \cup {"export"} => Touches(fields, channel) = {}
<1>1. ASSUME fields[2] \in IntoTeam
      PROVE  fields[2] \notin InChannel \cup ForSystem \cup {"export"} /\ ~Diffs(fields)
  BY <1>1 DEF IntoTeam, InChannel, ForSystem, Diffs
<1>2. ASSUME fields[2] \in InChannel
      PROVE  fields[2] \notin IntoTeam \cup ForSystem \cup {"export"} /\ ~Diffs(fields)
  BY <1>2 DEF IntoTeam, InChannel, ForSystem, Diffs
<1>3. ASSUME fields[2] \in ForSystem
      PROVE  fields[2] \notin IntoTeam \cup InChannel \cup {"export"} /\ ~Diffs(fields)
  BY <1>3 DEF IntoTeam, InChannel, ForSystem, Diffs
<1>4. ASSUME fields[2] = "export"
      PROVE  fields[2] \notin IntoTeam \cup InChannel \cup ForSystem
  BY <1>4 DEF IntoTeam, InChannel, ForSystem
<1>5. Diffs(fields) => fields[2] = "export"
  BY DEF Diffs
<1> HIDE DEF IntoTeam, InChannel, ForSystem, Diffs
<1>6. CASE fields[2] \in IntoTeam
  BY <1>1, <1>6, Zenon DEF Gate, Touches
<1>7. CASE fields[2] \in InChannel
  BY <1>2, <1>7, Zenon DEF Gate, Touches
<1>8. CASE fields[2] \in ForSystem
  BY <1>3, <1>8, Zenon DEF Gate, Touches
<1>9. CASE fields[2] = "export"
  BY <1>4, <1>9, Zenon DEF Gate, Touches
<1>10. CASE fields[2] \notin IntoTeam \cup InChannel \cup ForSystem \cup {"export"}
  BY <1>5, <1>10, Zenon DEF Touches
<1> QED BY <1>6, <1>7, <1>8, <1>9, <1>10

\* What passes its gate touches only teams the user administers.
LEMMA GateGuards ==
  ASSUME NEW user, NEW fields, NEW channel, Gate(user, fields, channel),
         NEW t \in Touches(fields, channel)
  PROVE  user.sysadmin \/ IsTeamAdmin(user, t)
<1>1. CASE fields[2] \in IntoTeam
  BY <1>1, GateOf DEF requireTeamAdminBySlug
<1>2. CASE fields[2] \in InChannel \/ (fields[2] = "export" /\ ~Diffs(fields))
  BY <1>2, GateOf DEF requireChannelTeamAdmin
<1>3. CASE fields[2] \in ForSystem \/ Diffs(fields)
  BY <1>3, GateOf DEF requireSystemAdmin
<1>4. CASE fields[2] \notin IntoTeam \cup InChannel \cup ForSystem \cup {"export"}
  BY <1>4, GateOf
<1> QED BY <1>1, <1>2, <1>3, <1>4

\* Typing a command is of one mind with running it.
LEMMA SuggestionsMatch ==
  ASSUME NEW user, NEW fields, NEW channel, CommandOK(user, fields, channel)
  PROVE  SuggestionsMatchAuthority(user, fields, channel)
<1> DEFINE Accepts(team) == requireTeamAdminBySlug(user, team)
           listed == handleAutocompleteChannels(user, fields)
           runs == executeCommand(user, fields, channel) = "runs"
<1> USE DEF CommandOK
<1>1. runs <=> Len(fields) # 1 /\ fields[2] \in Known /\ Gate(user, fields, channel)
  BY RunsIf
<1>2. runs => \A t \in Touches(fields, channel) : user.sysadmin \/ IsTeamAdmin(user, t)
  BY <1>1, GateGuards
<1>3. \A t \in Teams : (Accepts(t) /\ (t \in Archived => user.sysadmin)) <=> t \in handleAutocompleteTeams(user)
  BY DEF requireTeamAdminBySlug, handleAutocompleteTeams, IsTeamAdmin
<1>4. ASSUME Len(fields) >= 3, fields[2] \in IntoTeam, fields[3] \notin FlagsOf(fields[2])
      PROVE  /\ listed \cap Hints = {} => runs
             /\ runs /\ fields[3] \in Teams => listed = {c \in DOMAIN TeamOf : TeamOf[c] = fields[3]}
  <2> DEFINE slug == fields[3]
             may == user.sysadmin \/ IsTeamAdmin(user, slug)
             here == {c \in DOMAIN TeamOf : TeamOf[c] = slug}
  <2>1. Len(fields) # 1 /\ fields[2] \in Known
    BY <1>4 DEF Known, CommandOK
  <2>2. TargetTeam(fields) = slug
    BY <1>4, FirstIsTarget DEF CommandOK
  <2>3. runs <=> user.sysadmin \/ (slug \in Teams /\ IsTeamAdmin(user, slug))
    <3>1. Gate(user, fields, channel) = requireTeamAdminBySlug(user, slug)
      BY <1>4, <2>2, GateOf
    <3> QED BY <1>1, <2>1, <3>1, Zenon DEF requireTeamAdminBySlug
  <2>4. extractTeamSlugFromParsed(fields) = slug
    BY <1>4 DEF extractTeamSlugFromParsed
  <2> HIDE DEF slug
  <2>5. slug \in Teams => slug # ""
    BY CommandsAssumption DEF CommandsAssumption
  <2>6. ASSUME slug \in Teams
        PROVE  listed = IF may THEN here ELSE {"_not-authorized_"}
    BY <2>4, <2>5, <2>6, Zenon DEF handleAutocompleteChannels
  <2>7. ASSUME slug \notin Teams
        PROVE  listed \subseteq Hints /\ listed # {}
    <3>1. CASE slug = ""
      <4>1. listed = {"_fill-team-first_"}
        BY <2>4, <3>1, Zenon DEF handleAutocompleteChannels
      <4> QED BY <4>1 DEF Hints
    <3>2. CASE slug # ""
      <4>1. listed = {"_team-not-found_"}
        BY <2>4, <2>7, <3>2, Zenon DEF handleAutocompleteChannels
      <4> QED BY <4>1 DEF Hints
    <3> QED BY <3>1, <3>2
  <2> HIDE DEF listed, runs
  <2>8. ASSUME slug \in Teams
        PROVE  /\ listed \cap Hints = {} => runs
               /\ runs => listed = here
    BY <2>3, <2>6, <2>8 DEF Hints
  <2> QED BY <2>7, <2>8 DEF slug
<1> HIDE DEF listed, runs
<1>5. Len(fields) >= 3 /\ fields[2] \in IntoTeam /\ fields[3] \notin FlagsOf(fields[2]) =>
        /\ listed \cap Hints = {} => runs
        /\ runs /\ fields[3] \in Teams => listed = {c \in DOMAIN TeamOf : TeamOf[c] = fields[3]}
  BY <1>4
<1> QED BY <1>2, <1>3, <1>5, Zenon DEF SuggestionsMatchAuthority, listed, runs

\* The endpoints are of one mind with the commands.
LEMMA EndpointsMatch ==
  ASSUME NEW user, NEW channel, user.sysadmin \in BOOLEAN
  PROVE  EndpointsMatchAuthority(user, channel)
<1> DEFINE command == <<"/alertmanager", "reconcile">>
           forSystem == executeCommand(user, command, channel) = "runs"
           users == [me |-> user]
<1>1. forSystem <=> user.sysadmin
  <2>1. command \in Seq({"/alertmanager", "reconcile"}) /\ command # <<>> /\ command[1] = "/alertmanager"
        /\ Len(command) # 1 /\ command[2] = "reconcile"
    OBVIOUS
  <2>2. command[2] \in Known /\ command[2] \in ForSystem
    BY <2>1 DEF Known, ForSystem
  <2> HIDE DEF command
  <2>3. forSystem <=> Gate(user, command, channel)
    BY <2>1, <2>2, RunsIf
  <2>4. Gate(user, command, channel) = requireSystemAdmin(user)
    BY <2>2, GateOf
  <2> QED BY <2>3, <2>4 DEF requireSystemAdmin
<1>2. users["me"].sysadmin = user.sysadmin
  OBVIOUS
<1> HIDE DEF users, forSystem
<1>3. ASSUME NEW path \in {"/metrics", "/autocomplete/teams", "/admin/inventory", "/other"},
             NEW session \in {"me", NoUser}, NEW bearer \in {"", "t"}, NEW token \in {"", "t"}
      PROVE  LET page == ServeHTTP([path |-> path, user |-> session, bearer |-> bearer], users, token)
             IN /\ page = "inventory" <=> path = "/admin/inventory" /\ session = "me" /\ forSystem
                /\ page = "metrics" <=> path = "/metrics" /\ token # "" /\ bearer = token
  <2> DEFINE requested == [path |-> path, user |-> session, bearer |-> bearer]
             result == ServeHTTP(requested, users, token)
  <2> SUFFICES /\ result = "inventory" <=> path = "/admin/inventory" /\ session = "me" /\ forSystem
               /\ result = "metrics" <=> path = "/metrics" /\ token # "" /\ bearer = token
    OBVIOUS
  <2>1. requested.path = path /\ requested.user = session /\ requested.bearer = bearer
    OBVIOUS
  <2> HIDE DEF requested
  <2>2. CASE path = "/metrics"
    <3>1. result = handleMetrics(requested, token)
      BY <2>1, <2>2, Zenon DEF ServeHTTP
    <3> HIDE DEF result
    <3> QED BY <2>1, <2>2, <3>1 DEF handleMetrics
  <2>3. CASE path # "/metrics" /\ session = NoUser
    <3>1. result = "unauthorized"
      BY <2>1, <2>3, Zenon DEF ServeHTTP
    <3> HIDE DEF result
    <3>2. session # "me"
      BY <2>3 DEF NoUser
    <3> QED BY <2>3, <3>1, <3>2
  <2>4. CASE path # "/metrics" /\ session # NoUser
    <3>1. session = "me"
      BY <2>4
    <3>2. result = CASE path = "/autocomplete/teams"    -> "teams"
                  [] path = "/autocomplete/channels" -> "channels"
                  [] path = "/admin/inventory" -> IF users["me"].sysadmin THEN "inventory" ELSE "forbidden"
                  [] OTHER -> "not found"
      BY <2>1, <2>4, <3>1, Zenon DEF ServeHTTP
    <3> HIDE DEF result
    <3>3. (result = "inventory" <=> path = "/admin/inventory" /\ user.sysadmin) /\ result # "metrics"
      BY <1>2, <3>2
    <3> QED BY <1>1, <2>4, <3>1, <3>3
  <2> QED BY <2>2, <2>3, <2>4
<1> QED BY <1>3, Zenon DEF EndpointsMatchAuthority, users, forSystem

\* Commands act where their caller has authority, and completion and the
\* endpoints are of one mind with them: for any teams, channels, roles, and
\* commands of any length.
THEOREM AuthorityHolds == InputsSpec => []CompletionMatchesAuthority
<1> DEFINE Fixed == module = "commands" => input \in CommandInputs
<1>1. InputsInit => Fixed
  BY DEF InputsInit
<1>2. Fixed /\ [InputsNext]_<<module, input>> => Fixed'
  BY DEF InputsNext
<1>3. Fixed => CompletionMatchesAuthority
  <2> SUFFICES ASSUME Fixed, module = "commands"
               PROVE  SuggestionsMatchAuthority(input.user, input.fields, input.channel)
                      /\ EndpointsMatchAuthority(input.user, input.channel)
    BY DEF CompletionMatchesAuthority
  <2>1. CommandOK(input.user, input.fields, input.channel)
    BY CommandInputsAssumption DEF CommandInputsAssumption, CommandOK
  <2> QED BY <2>1, SuggestionsMatch, EndpointsMatch DEF CommandOK
<1> QED BY <1>1, <1>2, <1>3, PTL DEF InputsSpec

-----------------------------------------------------------------------------
(* Calls. *)

\* The retrying call stops at the first status that it need not retry, or after
\* as many as there are; and it closes the bodies of all others.
LEMMA Retries ==
  ASSUME NEW method, NEW n \in Nat \ {0}, NEW statuses, DOMAIN statuses = 1 .. n, Len(statuses) = n
  PROVE  LET resp == httpRetry(method, statuses)
             last == resp.attempts
         IN /\ last \in 1 .. n /\ resp.status = statuses[last]
            /\ resp.ok \in BOOLEAN
            /\ resp.ok <=> ~Retryable(method, statuses[last])
            /\ resp.ok <=> \E i \in 1 .. n : ~Retryable(method, statuses[i])
            /\ \A i \in 1 .. n : ~Retryable(method, statuses[i]) => last <= i
            /\ resp.opened \ {last} \subseteq resp.closed
            /\ ~resp.ok => resp.opened = resp.closed
<1> DEFINE settled == {i \in DOMAIN statuses : ~Retryable(method, statuses[i])}
           last == IF settled = {} THEN Len(statuses) ELSE Min(settled)
           Bodies(from, to) == {i \in from .. to : statuses[i] # NoAnswer}
           resp == [ok |-> settled # {},
                    status |-> statuses[last],
                    attempts |-> last,
                    opened |-> Bodies(1, last),
                    closed |-> Bodies(1, IF settled = {} THEN last ELSE last - 1)]
<1>1. httpRetry(method, statuses) = resp
  BY Zenon DEF httpRetry
<1>2. settled \in SUBSET Nat /\ settled = {i \in 1 .. n : ~Retryable(method, statuses[i])}
  OBVIOUS
<1>3. /\ last \in 1 .. n
      /\ settled # {} => last \in settled /\ \A i \in settled : last <= i
      /\ settled = {} => last = n
  <2>1. CASE settled = {}
    BY <2>1
  <2>2. CASE settled # {}
    <3>1. last = Min(settled)
      BY <2>2
    <3> HIDE DEF settled, last
    <3>2. last \in settled /\ \A i \in settled : last <= i
      BY <1>2, <2>2, <3>1, LeastIsMin
    <3> QED BY <1>2, <2>2, <3>2
  <2> QED BY <2>1, <2>2
<1> HIDE DEF last
<1>4. /\ resp.ok = (settled # {}) /\ resp.status = statuses[last] /\ resp.attempts = last
      /\ resp.opened = Bodies(1, last) /\ resp.closed = Bodies(1, IF settled = {} THEN last ELSE last - 1)
  OBVIOUS
<1> HIDE DEF resp
<1>5. Bodies(1, last) \ {last} \subseteq Bodies(1, last - 1)
  BY <1>3
<1>6. Bodies(1, last) \ {last} \subseteq Bodies(1, last)
  OBVIOUS
<1> HIDE DEF Bodies
<1>7. resp.opened \ {last} \subseteq resp.closed /\ (settled = {} => resp.opened = resp.closed)
  BY <1>4, <1>5, <1>6
<1>8. settled # {} <=> ~Retryable(method, statuses[last])
  BY <1>2, <1>3
<1>9. settled # {} <=> \E i \in 1 .. n : ~Retryable(method, statuses[i])
  BY <1>2
<1>10. \A i \in 1 .. n : ~Retryable(method, statuses[i]) => last <= i
  BY <1>2, <1>3
<1> HIDE DEF settled
<1> QED BY <1>1, <1>3, <1>4, <1>7, <1>8, <1>9, <1>10

\* What expire_silence says of a silence is true, however often it is tried.
LEMMA ExpiryTrue ==
  ASSUME NEW call, NEW n \in Nat \ {0}, call.tries = n, NEW silence
  PROVE  ExpiryIsTrue(call, silence)
<1> DEFINE Before(i) == StateBefore(call, silence, i)
           statuses == [i \in 1 .. n |-> IF Fate(call, i) = "answered" THEN Served(Before(i)) ELSE NoAnswer]
           resp == httpRetry("DELETE", statuses)
           last == resp.attempts
           outcome == [ok |-> resp.ok /\ resp.status = OK, resp |-> resp, after |-> Before(last + 1)]
<1>1. ExpireSilence(call, silence) = outcome
  BY Zenon DEF ExpireSilence
<1>2. DOMAIN statuses = 1 .. n /\ Len(statuses) = n
  OBVIOUS
<1>3. \A i \in 1 .. n : statuses[i] = IF Fate(call, i) = "answered" THEN Served(Before(i)) ELSE NoAnswer
  OBVIOUS
<1> HIDE DEF statuses
<1>4. /\ last \in 1 .. n /\ resp.status = statuses[last]
      /\ resp.ok \in BOOLEAN
      /\ resp.ok <=> ~Retryable("DELETE", statuses[last])
      /\ \A i \in 1 .. n : ~Retryable("DELETE", statuses[i]) => last <= i
      /\ resp.opened \ {last} \subseteq resp.closed
      /\ ~resp.ok => resp.opened = resp.closed
  BY <1>2, Retries
<1>5. \A i \in 1 .. n : Retryable("DELETE", statuses[i]) <=> Fate(call, i) # "answered"
  <2> TAKE i \in 1 .. n
  <2>1. Served(Before(i)) # NoAnswer
    BY DEF Served, OK, NoAnswer
  <2> QED BY <1>3, <2>1 DEF Retryable, NoAnswer
<1>6. \A i \in Nat : Before(i) = IF silence = "active" /\ \E j \in 1 .. i - 1 : Fate(call, j) \in {"answered", "lost"}
                         THEN "expired" ELSE silence
  BY DEF StateBefore
<1>7. outcome.ok = (resp.ok /\ resp.status = OK) /\ outcome.resp = resp /\ outcome.after = Before(last + 1)
  OBVIOUS
<1> HIDE DEF outcome, resp
<1>8. ASSUME outcome.ok PROVE silence = "active" /\ outcome.after = "expired"
  <2>1. resp.ok /\ resp.status = OK
    BY <1>7, <1>8
  <2>2. Fate(call, last) = "answered" /\ Served(Before(last)) = OK
    BY <1>3, <1>4, <1>5, <2>1
  <2>3. Before(last) = "active"
    BY <2>2 DEF Served, OK
  <2>4. silence = "active"
    BY <1>4, <1>6, <2>3
  <2>5. last \in 1 .. last + 1 - 1
    BY <1>4
  <2> QED BY <1>4, <1>6, <1>7, <2>2, <2>4, <2>5
<1>9. ASSUME ~outcome.ok, silence = "active", outcome.after = "expired"
      PROVE  \E i \in 1 .. last : Fate(call, i) = "lost"
  <2> DEFINE next == last + 1
  <2>0. next \in Nat /\ next - 1 = last
    BY <1>4
  <2> HIDE DEF next
  <2>1. PICK j \in 1 .. last : Fate(call, j) \in {"answered", "lost"}
    <3>1. Before(next) = "expired"
      BY <1>7, <1>9 DEF next
    <3>2. \E j \in 1 .. next - 1 : Fate(call, j) \in {"answered", "lost"}
      BY <1>6, <1>9, <2>0, <3>1
    <3> QED BY <2>0, <3>2
  <2>2. j \in 1 .. n
    BY <1>4
  <2>3. SUFFICES ASSUME \A i \in 1 .. last : Fate(call, i) # "lost" PROVE FALSE
    OBVIOUS
  <2>4. Fate(call, j) = "answered" /\ j = last
    BY <1>4, <1>5, <2>1, <2>2, <2>3
  <2>5. \A i \in 1 .. last - 1 : Fate(call, i) \notin {"answered", "lost"}
    BY <1>4, <1>5, <2>3
  <2>6. Before(last) = "active"
    BY <1>4, <1>6, <1>9, <2>5
  <2>7. resp.status = OK
    <3>1. Served(Before(last)) = OK
      BY <2>6 DEF Served
    <3> QED BY <1>3, <1>4, <2>4, <3>1
  <2>8. resp.ok
    BY <1>4, <1>5, <2>4
  <2> QED BY <1>7, <1>9, <2>7, <2>8
<1> QED BY <1>1, <1>4, <1>7, <1>8, <1>9 DEF ExpiryIsTrue

\* A call of n attempts, for an answer with that status and body.
Asks(call, answer, n, code, text) ==
  /\ call.tries = n
  /\ answer.status = code /\ answer.body = text /\ text \in {"JSON", "not JSON", "too large"}

\* An answer that can be read is shown, however often it is asked for.
LEMMA AnswersShown ==
  ASSUME NEW call, NEW answer, NEW n \in Nat \ {0}, NEW code, NEW text,
         Asks(call, answer, n, code, text)
  PROVE  AnswersAreShown(call, answer)
<1> DEFINE statuses == [i \in 1 .. n |-> IF Fate(call, i) = "answered" THEN code ELSE NoAnswer]
           resp == httpRetry("GET", statuses)
           readable == DecodeJSONLimited(BodyRead(call, text))
<1>1. DOMAIN statuses = 1 .. n /\ Len(statuses) = n
  OBVIOUS
<1>2. \A i \in 1 .. n : statuses[i] = IF Fate(call, i) = "answered" THEN code ELSE NoAnswer
  OBVIOUS
<1>3. Get(call, answer) = IF resp.ok /\ readable THEN [ok |-> TRUE, value |-> answer.value, resp |-> resp]
                          ELSE [ok |-> FALSE, value |-> {}, resp |-> resp]
  BY Zenon DEF Get, Asks
<1> HIDE DEF statuses
<1>4. resp.ok \in BOOLEAN /\ (resp.ok <=> \E i \in 1 .. n : ~Retryable("GET", statuses[i]))
  BY <1>1, Retries
<1>5. ASSUME NEW i \in 1 .. n
      PROVE  ~Retryable("GET", statuses[i]) <=> Fate(call, i) = "answered" /\ code = OK
  <2>1. ~Retryable("GET", statuses[i]) <=> statuses[i] = OK
    BY DEF Retryable, NoAnswer, OK
  <2>2. statuses[i] = IF Fate(call, i) = "answered" THEN code ELSE NoAnswer
    BY <1>2
  <2>3. NoAnswer # OK
    BY DEF NoAnswer, OK
  <2> QED BY <2>1, <2>2, <2>3
<1>6. readable <=> text = "JSON" /\ call.buffered
  BY Zenon DEF DecodeJSONLimited, BodyRead, Asks
<1> HIDE DEF resp, readable
<1>7. Get(call, answer).ok <=> resp.ok /\ readable
  <2>1. CASE resp.ok /\ readable
    <3>1. Get(call, answer) = [ok |-> TRUE, value |-> answer.value, resp |-> resp]
      BY <1>3, <2>1, Zenon
    <3>2. Get(call, answer).ok = TRUE
      BY <3>1
    <3> QED BY <2>1, <3>2, Zenon
  <2>2. CASE ~(resp.ok /\ readable)
    <3>1. Get(call, answer) = [ok |-> FALSE, value |-> {}, resp |-> resp]
      BY <1>3, <2>2, Zenon
    <3>2. Get(call, answer).ok = FALSE
      BY <3>1
    <3> QED BY <2>2, <3>2, Zenon
  <2> QED BY <2>1, <2>2, Zenon
<1>8. Get(call, answer).ok <=>
        code = OK /\ text = "JSON" /\ call.buffered /\ \E i \in 1 .. n : Fate(call, i) = "answered"
  <2>1. (\E i \in 1 .. n : ~Retryable("GET", statuses[i]))
          <=> code = OK /\ \E i \in 1 .. n : Fate(call, i) = "answered"
    BY <1>5
  <2> QED BY <1>4, <1>6, <1>7, <2>1, Zenon
<1> QED BY <1>8, Zenon DEF AnswersAreShown, Asks

\* In a list with unique names, the command printed under a silence ends it
\* where it is.
LEMMA SuggestionsReach ==
  ASSUME NEW S, NEW list \in Seq(S), UniqueNames(list), NEW dest, NEW calls, NEW answers
  PROVE  SuggestionsWork(list, dest, calls, answers)
<1> DEFINE here == Here(list, dest)
<1>1. here \in Seq(S) /\ ToSet(here) \subseteq ToSet(list)
  BY OnlyKeeps DEF Here
<1> HIDE DEF here
<1>2. SUFFICES ASSUME NEW line \in handleListSilences(list, dest, calls, answers)
               PROVE  ExpireAt(list, line.suggest, dest) = {line.url}
  BY DEF SuggestionsWork
<1>3. PICK i \in DOMAIN here : line.suggest = here[i].name /\ line.url = here[i].am
  <2>1. PICK section \in Sections(list, dest, calls, answers) :
          line \in {[silence |-> s, url |-> section.group.url, suggest |-> section.group.handle] :
                      s \in {v \in section.got.value : v.state # "expired"}}
    BY DEF handleListSilences
  <2>2. line.url = section.group.url /\ line.suggest = section.group.handle
    BY <2>1
  <2>3. PICK g \in groupByAMURL(here) : section.group = g
    BY <2>1 DEF Sections, here
  <2>4. PICK i \in DOMAIN here : g.url = here[i].am /\ g.handle = here[i].name
    BY <2>3 DEF groupByAMURL
  <2> QED BY <2>2, <2>3, <2>4
<1>4. here[i] \in ToSet(here)
  BY DEF ToSet
<1>5. \A c \in ToSet(here) : c.name = here[i].name => c = here[i]
  BY <1>1, <1>4, NameIsOne
<1> QED BY <1>3, <1>4, <1>5 DEF ExpireAt, handleExpireSilence, here

\* Binding receivers to Alertmanagers keeps their names.
LEMMA BoundKeepsNames ==
  ASSUME NEW S, NEW list \in Seq(S), UniqueNames(list), NEW ams
  PROVE  \E T : Bound(list, ams) \in Seq(T) /\ UniqueNames(Bound(list, ams))
<1> DEFINE bound == Bound(list, ams)
<1>1. Len(list) \in Nat /\ DOMAIN list = 1 .. Len(list) /\ DOMAIN bound = 1 .. Len(list)
  BY DEF Bound
<1>2. \A i \in DOMAIN list : bound[i].name = list[i].name
  BY DEF Bound
<1>3. bound = [i \in 1 .. Len(list) |-> bound[i]]
  BY <1>1 DEF Bound
<1> HIDE DEF bound
<1>4. bound \in Seq({bound[i] : i \in DOMAIN bound})
  BY <1>1, <1>3
<1>5. [i \in DOMAIN bound |-> bound[i].name] = [i \in DOMAIN list |-> list[i].name]
  BY <1>1, <1>2
<1>6. UniqueNames(bound)
  BY <1>5 DEF UniqueNames
<1> QED BY <1>4, <1>6 DEF bound

\* expire_silence tells the truth, every readable answer is shown, and the
\* commands that silences suggests work: for any number of attempts, and for
\* lists of any length.
THEOREM SilencesHold == InputsSpec => []SilencesEndAsSaid
<1> DEFINE Fixed == module = "calls" => input \in CallInputs
<1>1. InputsInit => Fixed
  BY DEF InputsInit
<1>2. Fixed /\ [InputsNext]_<<module, input>> => Fixed'
  BY DEF InputsNext
<1>3. Fixed /\ ListsOK => SilencesEndAsSaid
  <2> SUFFICES ASSUME Fixed, ListsOK
               PROVE  SilencesEndAsSaid
    OBVIOUS
  <2>1. ASSUME module = "calls"
        PROVE  /\ \A silence \in {"active", "expired", "unknown"} : ExpiryIsTrue(input, silence)
               /\ \A status \in {200, 404}, body \in {"JSON", "not JSON", "too large"} :
                    AnswersAreShown(input, [status |-> status, body |-> body, value |-> {}])
    <3>1. input.tries \in Nat \ {0}
      BY <2>1, CallsAssumption DEF CallsAssumption
    <3>2. ASSUME NEW code, NEW text \in {"JSON", "not JSON", "too large"}
          PROVE  AnswersAreShown(input, [status |-> code, body |-> text, value |-> {}])
      <4> DEFINE answer == [status |-> code, body |-> text, value |-> {}]
      <4>1. answer.status = code /\ answer.body = text
        BY Zenon
      <4> HIDE DEF answer
      <4>2. Asks(input, answer, input.tries, code, text)
        BY <4>1, Zenon DEF Asks
      <4>3. AnswersAreShown(input, answer)
        BY <3>1, <4>2, AnswersShown, Zenon
      <4> QED BY <4>3 DEF answer
    <3>3. ASSUME NEW silence PROVE ExpiryIsTrue(input, silence)
      BY <3>1, ExpiryTrue
    <3>4. \A silence \in {"active", "expired", "unknown"} : ExpiryIsTrue(input, silence)
      BY <3>3, Zenon
    <3>5. \A status \in {200, 404}, body \in {"JSON", "not JSON", "too large"} :
            AnswersAreShown(input, [status |-> status, body |-> body, value |-> {}])
      BY <3>2, Zenon
    <3> QED BY <3>4, <3>5, Zenon
  <2>2. ASSUME module = "names", NEW dest \in Dests, NEW calls, NEW answers
        PROVE  SuggestionsWork(Bound(input, <<"am1", "am2">>), dest, calls, answers)
    <3>1. input \in Seq(Entries) /\ UniqueNames(input)
      BY <2>2 DEF ListsOK, ListOK
    <3> QED BY <3>1, BoundKeepsNames, SuggestionsReach
  <2> QED BY <2>1, <2>2 DEF SilencesEndAsSaid
<1> QED BY <1>1, <1>2, <1>3, ListsStayOK, PTL DEF InputsSpec

-----------------------------------------------------------------------------
(* Flattening. *)

\* What the first k of some sequences are as one: the witness for the function
\* in FlattenSeq.
Flat(seqs, f, k) == f = [i \in 1 .. k |-> IF i = 1 THEN seqs[i] ELSE f[i - 1] \o seqs[i]]

\* Every prefix of such sequences has that function.
LEMMA FlatExists ==
  ASSUME NEW seqs, NEW k \in Nat
  PROVE  \E f : Flat(seqs, f, k)
<1> DEFINE None == {n \in Nat : ~\E f : Flat(seqs, f, n)}
           m == Min(None)
<1>1. SUFFICES ASSUME None # {} PROVE FALSE
  OBVIOUS
<1>2. m \in None /\ \A n \in None : m <= n
  BY <1>1, LeastIsMin
<1>3. m # 0
  <2>1. Flat(seqs, [i \in 1 .. 0 |-> <<>>], 0)
    BY DEF Flat
  <2> QED BY <2>1, <1>2
<1>4. PICK f : Flat(seqs, f, m - 1)
  <2>1. m \in Nat
    BY <1>2
  <2> HIDE DEF m
  <2>2. m - 1 \in Nat /\ ~(m <= m - 1)
    BY <1>3, <2>1
  <2>3. m - 1 \notin None
    BY <1>2, <2>2
  <2> QED BY <2>2, <2>3
<1> DEFINE g == [i \in 1 .. m |-> IF i < m THEN f[i] ELSE IF i = 1 THEN seqs[i] ELSE f[i - 1] \o seqs[i]]
<1>5. Flat(seqs, g, m)
  <2> HIDE DEF None
  <2>1. m \in Nat /\ m # 0
    BY <1>2, <1>3 DEF None
  <2> HIDE DEF m
  <2>2. f = [i \in 1 .. m - 1 |-> IF i = 1 THEN seqs[i] ELSE f[i - 1] \o seqs[i]]
    BY <1>4 DEF Flat
  <2>3. ASSUME NEW i \in 1 .. m
        PROVE  g[i] = IF i = 1 THEN seqs[i] ELSE g[i - 1] \o seqs[i]
    <3>1. CASE i = m
      <4>1. g[m] = IF m = 1 THEN seqs[m] ELSE f[m - 1] \o seqs[m]
        BY <2>1
      <4>2. m # 1 => g[m - 1] = f[m - 1]
        BY <2>1
      <4> HIDE DEF g
      <4> QED BY <3>1, <2>1, <4>1, <4>2
    <3>2. CASE i < m
      <4>1. i \in 1 .. m - 1 /\ g[i] = f[i]
        BY <3>2, <2>1
      <4>2. i # 1 => g[i - 1] = f[i - 1]
        BY <4>1, <2>1
      <4>3. f[i] = IF i = 1 THEN seqs[i] ELSE f[i - 1] \o seqs[i]
        BY <4>1, <2>2
      <4> HIDE DEF g
      <4> QED BY <4>1, <4>2, <4>3
    <3> QED BY <3>1, <3>2, <2>1
  <2>4. g = [i \in 1 .. m |-> g[i]]
    OBVIOUS
  <2> HIDE DEF g
  <2>5. [i \in 1 .. m |-> g[i]] = [i \in 1 .. m |-> IF i = 1 THEN seqs[i] ELSE g[i - 1] \o seqs[i]]
    BY <2>3, Zenon
  <2> QED BY <2>4, <2>5, Zenon DEF Flat
<1> QED BY <1>5, <1>2

\* A concatenation has the elements of both.
LEMMA ConcatToSet ==
  ASSUME NEW S, NEW a \in Seq(S), NEW b \in Seq(S)
  PROVE  a \o b \in Seq(S) /\ ToSet(a \o b) = ToSet(a) \cup ToSet(b)
<1>1. /\ a \o b \in Seq(S) /\ Len(a \o b) = Len(a) + Len(b)
      /\ \A i \in 1 .. Len(a) : (a \o b)[i] = a[i]
      /\ \A i \in 1 .. Len(b) : (a \o b)[Len(a) + i] = b[i]
  BY ConcatParts
<1>2. /\ Len(a) \in Nat /\ Len(b) \in Nat
      /\ DOMAIN a = 1 .. Len(a) /\ DOMAIN b = 1 .. Len(b)
  OBVIOUS
<1> DEFINE c == a \o b
<1>3. c \in Seq(S) /\ Len(c) = Len(a) + Len(b) /\ DOMAIN c = 1 .. Len(a) + Len(b)
  BY <1>1
<1> HIDE DEF c
<1>4. ASSUME NEW x \in ToSet(c) PROVE x \in ToSet(a) \cup ToSet(b)
  <2>1. PICK i \in 1 .. Len(a) + Len(b) : x = c[i]
    BY <1>3 DEF ToSet
  <2>2. CASE i \in 1 .. Len(a)
    BY <1>1, <1>2, <2>1, <2>2 DEF ToSet, c
  <2>3. CASE i - Len(a) \in 1 .. Len(b)
    <3>1. i = Len(a) + (i - Len(a))
      BY <1>2
    <3>2. x = b[i - Len(a)]
      BY <1>1, <2>1, <2>3, <3>1 DEF c
    <3> QED BY <1>2, <2>3, <3>2 DEF ToSet
  <2> QED BY <1>2, <2>1, <2>2, <2>3
<1>5. ASSUME NEW x \in ToSet(a) PROVE x \in ToSet(c)
  <2>1. PICK i \in 1 .. Len(a) : x = a[i]
    BY <1>2 DEF ToSet
  <2>2. i \in 1 .. Len(a) + Len(b) /\ c[i] = x
    BY <1>1, <1>2, <2>1 DEF c
  <2> QED BY <1>3, <2>2 DEF ToSet
<1>6. ASSUME NEW x \in ToSet(b) PROVE x \in ToSet(c)
  <2>1. PICK i \in 1 .. Len(b) : x = b[i]
    BY <1>2 DEF ToSet
  <2>2. Len(a) + i \in 1 .. Len(a) + Len(b) /\ c[Len(a) + i] = x
    BY <1>1, <1>2, <2>1 DEF c
  <2> QED BY <1>3, <2>2 DEF ToSet
<1>7. ToSet(c) = ToSet(a) \cup ToSet(b)
  BY <1>4, <1>5, <1>6
<1> QED BY <1>3, <1>7 DEF c

\* Flattening keeps all elements and adds none.
LEMMA FlattenKeeps ==
  ASSUME NEW S, NEW seqs, NEW n \in Nat, DOMAIN seqs = 1 .. n, Len(seqs) = n, n = 0 => seqs = <<>>,
         \A i \in 1 .. n : seqs[i] \in Seq(S)
  PROVE  FlattenSeq(seqs) \in Seq(S) /\ ToSet(FlattenSeq(seqs)) = UNION {ToSet(seqs[i]) : i \in 1 .. n}
<1>1. CASE n = 0
  <2>1. FlattenSeq(seqs) = <<>>
    BY <1>1 DEF FlattenSeq
  <2> QED BY <1>1, <2>1 DEF ToSet
<1>2. CASE n # 0
  <2> DEFINE f == CHOOSE g : Flat(seqs, g, n)
             Parts(k) == {ToSet(seqs[i]) : i \in 1 .. k}
             Holds(k) == f[k] \in Seq(S) /\ ToSet(f[k]) = UNION Parts(k)
             Bad == {k \in 1 .. n : ~Holds(k)}
  <2>1. Flat(seqs, f, n)
    BY FlatExists, Zenon
  <2>2. FlattenSeq(seqs) = f[n]
    BY <1>2, Zenon DEF FlattenSeq, Flat
  <2> HIDE DEF f
  <2>3. ASSUME NEW k \in 1 .. n
        PROVE  f[k] = IF k = 1 THEN seqs[k] ELSE f[k - 1] \o seqs[k]
    <3>1. f = [i \in 1 .. n |-> IF i = 1 THEN seqs[i] ELSE f[i - 1] \o seqs[i]]
      BY <2>1 DEF Flat
    <3> QED BY <3>1, Zenon
  <2>4. SUFFICES ASSUME Bad # {} PROVE FALSE
    <3>1. n \in 1 .. n
      BY <1>2
    <3>2. Bad = {} => Holds(n)
      BY <3>1
    <3> HIDE DEF Bad
    <3> QED BY <2>2, <3>2
  <2>5. PICK m \in Bad : \A k \in Bad : m <= k
    <3>1. Bad \in SUBSET Nat
      OBVIOUS
    <3> HIDE DEF Bad
    <3> QED BY <2>4, <3>1, LeastIsMin
  <2>6. m \in 1 .. n /\ ~Holds(m)
    OBVIOUS
  <2>7. CASE m = 1
    <3>1. f[m] = seqs[1]
      BY <2>3, <2>6, <2>7
    <3>2. Parts(1) = {ToSet(seqs[1])}
      OBVIOUS
    <3> HIDE DEF Parts
    <3>3. Holds(m)
      BY <2>6, <2>7, <3>1, <3>2
    <3> QED BY <2>6, <3>3
  <2>8. CASE m # 1
    <3>1. m - 1 \in 1 .. n /\ ~(m <= m - 1)
      BY <2>6, <2>8
    <3>2. Holds(m - 1)
      BY <2>5, <3>1
    <3> DEFINE a == f[m - 1]
               b == seqs[m]
    <3>3. a \in Seq(S) /\ b \in Seq(S) /\ ToSet(a) = UNION Parts(m - 1)
      BY <2>6, <3>2
    <3>4. f[m] = a \o b
      BY <2>3, <2>6, <2>8
    <3> HIDE DEF a, b, Bad, Holds
    <3>5. f[m] \in Seq(S) /\ ToSet(f[m]) = ToSet(a) \cup ToSet(b)
      BY <3>3, <3>4, ConcatToSet
    <3>6. Parts(m) = Parts(m - 1) \cup {ToSet(b)}
      BY <2>6, <2>8 DEF b
    <3> HIDE DEF Parts
    <3>7. Holds(m)
      BY <3>3, <3>5, <3>6 DEF Holds
    <3> QED BY <2>6, <3>7
  <2> QED BY <2>7, <2>8
<1> QED BY <1>1, <1>2

\* The sequence of a finite set has all of it.
LEMMA SetToSeqOnto ==
  ASSUME NEW S, IsFiniteSet(S)
  PROVE  /\ SetToSeq(S) \in Seq(S) /\ ToSet(SetToSeq(S)) = S
         /\ Len(SetToSeq(S)) = Cardinality(S) /\ Cardinality(S) \in Nat
<1> DEFINE n == Cardinality(S)
<1>1. n \in Nat /\ ExistsBijection(1 .. n, S)
  BY FS_CardinalityType
<1>2. PICK f \in [1 .. n -> S] : IsInjective(f)
  BY <1>1 DEF ExistsBijection, Bijection, Injection, IsInjective
<1> DEFINE s == SetToSeq(S)
<1>3. s \in [1 .. n -> S] /\ IsInjective(s)
  BY <1>2, Zenon DEF SetToSeq
<1>4. IsFiniteSet(1 .. n) /\ Cardinality(1 .. n) = n
  BY <1>1, FS_Interval
<1> HIDE DEF s, n
<1>5. s \in Injection(1 .. n, S)
  BY <1>3 DEF Injection, IsInjective
<1>6. s \in Surjection(1 .. n, S)
  BY <1>4, <1>5, FS_Injection DEF n
<1>7. s \in Seq(S) /\ Len(s) = n /\ DOMAIN s = 1 .. n
  BY <1>1, <1>3
<1>8. ToSet(s) = S
  BY <1>6, <1>7 DEF Surjection, ToSet
<1> QED BY <1>1, <1>7, <1>8 DEF s, n

\* The images of the elements of a sequence are finitely many.
LEMMA ImagesAreFinite ==
  ASSUME NEW S, NEW s \in Seq(S), NEW f
  PROVE  IsFiniteSet({f[x] : x \in ToSet(s)})
<1> DEFINE T == {f[x] : x \in ToSet(s)}
           g == [i \in 1 .. Len(s) |-> f[s[i]]]
<1>1. IsFiniteSet(1 .. Len(s))
  BY FS_Interval
<1>2. g \in Surjection(1 .. Len(s), T)
  BY DEF Surjection, ToSet
<1> HIDE DEF T, g
<1>3. IsFiniteSet(T)
  BY <1>1, <1>2, FS_Surjection
<1> QED BY <1>3 DEF T

-----------------------------------------------------------------------------
(* Routes. *)

\* The receivers that a walk through some routes reaches.
Through(routes, labels) ==
  {routes[i].receiver : i \in {k \in DOMAIN routes :
    /\ Matches(routes[k], labels)
    /\ \A j \in DOMAIN routes : Matches(routes[j], labels) /\ j < k => routes[j].continue}}

\* Matched by none: the root's receiver gets it; else what the walk reaches.
LEMMA MatchIsThrough ==
  ASSUME NEW default, NEW routes, NEW labels
  PROVE  Match([default |-> default, routes |-> routes], labels)
           = IF \A i \in DOMAIN routes : ~Matches(routes[i], labels) THEN {default} ELSE Through(routes, labels)
<1> DEFINE tree == [default |-> default, routes |-> routes]
           hits == {i \in DOMAIN routes : Matches(routes[i], labels)}
           reached == {i \in hits : \A j \in hits : j < i => routes[j].continue}
<1>1. tree.default = default /\ tree.routes = routes
  OBVIOUS
<1> HIDE DEF tree
<1>2. Match(tree, labels) = IF hits = {} THEN {default} ELSE {routes[i].receiver : i \in reached}
  BY <1>1, Zenon DEF Match
<1>3. hits = {} <=> \A i \in DOMAIN routes : ~Matches(routes[i], labels)
  OBVIOUS
<1>4. reached = {k \in DOMAIN routes :
                   /\ Matches(routes[k], labels)
                   /\ \A j \in DOMAIN routes : Matches(routes[j], labels) /\ j < k => routes[j].continue}
  OBVIOUS
<1> HIDE DEF hits, reached
<1>5. Through(routes, labels) = {routes[i].receiver : i \in reached}
  BY <1>4, Zenon DEF Through
<1>6. Match(tree, labels) = IF \A i \in DOMAIN routes : ~Matches(routes[i], labels) THEN {default} ELSE Through(routes, labels)
  BY <1>2, <1>3, <1>5
<1> QED BY <1>6 DEF tree

\* Routes one after the other: the later ones are reached if none stops the walk.
LEMMA ThroughBoth ==
  ASSUME NEW S, NEW a \in Seq(S), NEW b \in Seq(S), NEW labels, ~Stops(a, labels)
  PROVE  Through(a \o b, labels) = Through(a, labels) \cup Through(b, labels)
<1> DEFINE c == a \o b
           Hit(s, i) == Matches(s[i], labels)
           On(s, k) == \A j \in DOMAIN s : Hit(s, j) /\ j < k => s[j].continue
<1>1. /\ DOMAIN a = 1 .. Len(a) /\ DOMAIN b = 1 .. Len(b) /\ Len(a) \in Nat /\ Len(b) \in Nat
      /\ DOMAIN c = 1 .. Len(a) + Len(b)
      /\ \A i \in 1 .. Len(a) : c[i] = a[i]
      /\ \A i \in 1 .. Len(b) : c[Len(a) + i] = b[i]
  <2>1. /\ c \in Seq(S) /\ Len(c) = Len(a) + Len(b)
        /\ \A i \in 1 .. Len(a) : c[i] = a[i]
        /\ \A i \in 1 .. Len(b) : c[Len(a) + i] = b[i]
    BY ConcatParts
  <2> HIDE DEF c
  <2> QED BY <2>1
<1> HIDE DEF c
<1>2. \A j \in 1 .. Len(a) : Hit(a, j) => a[j].continue
  BY <1>1 DEF Stops, ToSet
<1>3. \A i \in 1 .. Len(a) : On(c, i)
  <2> TAKE i \in 1 .. Len(a)
  <2> SUFFICES ASSUME NEW j \in DOMAIN c, Hit(c, j), j < i PROVE c[j].continue
    OBVIOUS
  <2>1. j \in 1 .. Len(a)
    BY <1>1
  <2> QED BY <1>1, <1>2, <2>1
<1>4. \A i \in 1 .. Len(a) : On(a, i)
  BY <1>1, <1>2
<1>5. \A i \in 1 .. Len(b) : On(c, Len(a) + i) <=> On(b, i)
  <2> TAKE i \in 1 .. Len(b)
  <2>1. ASSUME On(c, Len(a) + i), NEW j \in DOMAIN b, Hit(b, j), j < i
        PROVE  b[j].continue
    <3>1. Len(a) + j \in DOMAIN c /\ c[Len(a) + j] = b[j] /\ Len(a) + j < Len(a) + i
      BY <1>1, <2>1
    <3> QED BY <2>1, <3>1
  <2>2. ASSUME On(b, i), NEW j \in DOMAIN c, Hit(c, j), j < Len(a) + i
        PROVE  c[j].continue
    <3>1. CASE j \in 1 .. Len(a)
      BY <1>1, <1>2, <2>2, <3>1
    <3>2. CASE j \notin 1 .. Len(a)
      <4> DEFINE k == j - Len(a)
      <4>1. k \in DOMAIN b /\ k < i /\ j = Len(a) + k
        BY <1>1, <2>2, <3>2
      <4> HIDE DEF k
      <4>2. c[j] = b[k]
        BY <1>1, <4>1
      <4> QED BY <2>2, <4>1, <4>2
    <3> QED BY <3>1, <3>2
  <2> QED BY <2>1, <2>2
<1>6. ASSUME NEW r \in Through(c, labels) PROVE r \in Through(a, labels) \cup Through(b, labels)
  <2>1. PICK i \in DOMAIN c : Hit(c, i) /\ On(c, i) /\ r = c[i].receiver
    BY DEF Through
  <2>2. CASE i \in 1 .. Len(a)
    <3>1. i \in DOMAIN a /\ Hit(a, i) /\ On(a, i) /\ r = a[i].receiver
      BY <1>1, <1>4, <2>1, <2>2
    <3> QED BY <3>1 DEF Through
  <2>3. CASE i \notin 1 .. Len(a)
    <3> DEFINE k == i - Len(a)
    <3>1. k \in DOMAIN b /\ i = Len(a) + k
      BY <1>1, <2>1, <2>3
    <3> HIDE DEF k
    <3>2. c[i] = b[k] /\ On(b, k)
      BY <1>1, <1>5, <2>1, <3>1
    <3>3. Hit(b, k) /\ r = b[k].receiver
      BY <2>1, <3>2
    <3> QED BY <3>1, <3>2, <3>3 DEF Through
  <2> QED BY <2>2, <2>3
<1>7. ASSUME NEW r \in Through(a, labels) PROVE r \in Through(c, labels)
  <2>1. PICK i \in DOMAIN a : Hit(a, i) /\ r = a[i].receiver
    BY DEF Through
  <2>2. i \in DOMAIN c /\ Hit(c, i) /\ On(c, i) /\ r = c[i].receiver
    BY <1>1, <1>3, <2>1
  <2> QED BY <2>2 DEF Through
<1>8. ASSUME NEW r \in Through(b, labels) PROVE r \in Through(c, labels)
  <2>1. PICK i \in DOMAIN b : Hit(b, i) /\ On(b, i) /\ r = b[i].receiver
    BY DEF Through
  <2> DEFINE k == Len(a) + i
  <2>2. k \in DOMAIN c /\ c[k] = b[i] /\ On(c, k)
    <3> HIDE DEF On
    <3>1. i \in 1 .. Len(b)
      BY <1>1, <2>1
    <3>2. On(c, k)
      BY <1>5, <2>1, <3>1
    <3>3. k \in DOMAIN c /\ c[k] = b[i]
      BY <1>1, <3>1
    <3> QED BY <3>2, <3>3
  <2> HIDE DEF k
  <2>3. Hit(c, k) /\ r = c[k].receiver
    BY <2>1, <2>2
  <2> QED BY <2>2, <2>3 DEF Through
<1>9. Through(c, labels) = Through(a, labels) \cup Through(b, labels)
  BY <1>6, <1>7, <1>8
<1> QED BY <1>9 DEF c

\* Routes that never stop the walk are all taken.
LEMMA ThroughAll ==
  ASSUME NEW routes, NEW labels, \A r \in ToSet(routes) : r.continue
  PROVE  /\ ~Stops(routes, labels)
         /\ Through(routes, labels) = {r.receiver : r \in {s \in ToSet(routes) : Matches(s, labels)}}
  BY DEF Stops, Through, ToSet

\* The routes of a channel are those of its runbook receivers.
LEMMA RoutesOf ==
  ASSUME NEW S, NEW entries \in Seq(S)
  PROVE  LET live == {Live(c) : c \in {d \in ToSet(entries) : ~d.custom}}
         IN assembleRoutesYAML(entries) \in Seq(live) /\ ToSet(assembleRoutesYAML(entries)) = live
<1> DEFINE R == {d \in ToSet(entries) : ~d.custom}
           live == {Live(c) : c \in R}
           runbooks == Only(entries, R)
           slugSet == {receiverBaseSlug(c.name) : c \in ToSet(runbooks)}
           slugs == SetToSeq(slugSet)
           With(slug) == {c \in ToSet(runbooks) : receiverBaseSlug(c.name) = slug}
           Grouped(slug) == Only(runbooks, With(slug))
           Part(i) == [j \in DOMAIN Grouped(slugs[i]) |-> Live(Grouped(slugs[i])[j])]
           parts == [i \in DOMAIN slugs |-> Part(i)]
           n == Len(slugs)
<1>1. assembleRoutesYAML(entries) = FlattenSeq(parts)
  BY Zenon DEF assembleRoutesYAML
<1>2. runbooks \in Seq(S) /\ ToSet(runbooks) = R
  BY OnlyKeeps
<1> HIDE DEF R, runbooks
<1>3. IsFiniteSet(slugSet)
  <2> DEFINE f == [c \in ToSet(runbooks) |-> receiverBaseSlug(c.name)]
  <2>1. \A c \in ToSet(runbooks) : f[c] = receiverBaseSlug(c.name)
    OBVIOUS
  <2> HIDE DEF f
  <2>2. IsFiniteSet({f[c] : c \in ToSet(runbooks)})
    BY <1>2, ImagesAreFinite
  <2>3. {f[c] : c \in ToSet(runbooks)} = slugSet
    BY <2>1
  <2> QED BY <2>2, <2>3
<1> HIDE DEF slugSet
<1>4. slugs \in Seq(slugSet) /\ ToSet(slugs) = slugSet
  BY <1>3, SetToSeqOnto
<1> HIDE DEF slugs
<1>5. n \in Nat /\ DOMAIN slugs = 1 .. n /\ (n = 0 => slugs = <<>>)
  BY <1>4
<1>6. DOMAIN parts = 1 .. n /\ Len(parts) = n /\ (n = 0 => parts = <<>>)
  <2> HIDE DEF Part
  <2> QED BY <1>5
<1>7. ASSUME NEW i \in 1 .. n
      PROVE  parts[i] \in Seq(live) /\ ToSet(parts[i]) = {Live(c) : c \in With(slugs[i])}
  <2> DEFINE group == Grouped(slugs[i])
             part == [j \in DOMAIN group |-> Live(group[j])]
  <2>1. group \in Seq(S) /\ ToSet(group) = With(slugs[i])
    <3>1. group \in Seq(S) /\ ToSet(group) = ToSet(runbooks) \cap With(slugs[i])
      BY <1>2, OnlyKeeps
    <3> QED BY <3>1
  <2>2. parts[i] = part
    BY <1>5
  <2>3. \A c \in With(slugs[i]) : c \in R
    BY <1>2
  <2> HIDE DEF group, parts, Grouped, Part
  <2>4. ToSet(part) = {Live(c) : c \in ToSet(group)}
    BY DEF ToSet
  <2>5. part \in Seq(live)
    <3>1. \A j \in DOMAIN group : group[j] \in ToSet(group)
      BY DEF ToSet
    <3>2. \A j \in DOMAIN group : Live(group[j]) \in live
      BY <2>1, <2>3, <3>1
    <3> HIDE DEF live
    <3>3. DOMAIN group = 1 .. Len(group) /\ Len(group) \in Nat
      BY <2>1
    <3> QED BY <3>2, <3>3
  <2> QED BY <2>1, <2>2, <2>4, <2>5
<1> HIDE DEF parts, With, Grouped, Part
<1>8. FlattenSeq(parts) \in Seq(live) /\ ToSet(FlattenSeq(parts)) = UNION {ToSet(parts[i]) : i \in 1 .. n}
  <2>1. \A i \in 1 .. n : parts[i] \in Seq(live)
    BY <1>7
  <2> HIDE DEF live, n
  <2> QED BY <1>5, <1>6, <2>1, FlattenKeeps
<1>9. UNION {ToSet(parts[i]) : i \in 1 .. n} = live
  <2>1. \A c \in R : \E i \in 1 .. n : c \in With(slugs[i])
    <3> TAKE c \in R
    <3>1. receiverBaseSlug(c.name) \in ToSet(slugs)
      BY <1>2, <1>4 DEF slugSet
    <3> QED BY <1>2, <1>5, <3>1 DEF ToSet, With
  <2>2. \A i \in 1 .. n : With(slugs[i]) \subseteq R
    BY <1>2 DEF With
  <2>3. \A i \in 1 .. n : ToSet(parts[i]) = {Live(c) : c \in With(slugs[i])}
    BY <1>7
  <2>4. live = {Live(c) : c \in R}
    OBVIOUS
  <2> HIDE DEF live, n
  <2>5. ASSUME NEW i \in 1 .. n, NEW r \in ToSet(parts[i]) PROVE r \in live
    <3>1. r \in {Live(c) : c \in With(slugs[i])}
      BY <2>3, <2>5, Zenon
    <3>2. PICK c \in With(slugs[i]) : r = Live(c)
      BY <3>1
    <3>3. c \in R
      BY <2>2, <3>2
    <3> QED BY <2>4, <3>2, <3>3
  <2>6. ASSUME NEW r \in live PROVE \E i \in 1 .. n : r \in ToSet(parts[i])
    BY <2>1, <2>3, <2>4, <2>6
  <2> QED BY <2>5, <2>6
<1> QED BY <1>1, <1>8, <1>9 DEF R

-----------------------------------------------------------------------------
(* Pasted blocks. *)

\* The plugin's routes for some receivers.
LiveFor(list, dests) == {Live(c) : c \in {d \in ToSet(list) : ~d.custom /\ d.dest \in ToSet(dests)}}

\* What pasting the blocks of some channels adds to a configuration.
Blocks(list, dests) == FlattenSeq([i \in DOMAIN dests |-> assembleRoutesYAML(Here(list, dests[i]))])

\* The pasted blocks are the routes of the runbook receivers of their channels.
LEMMA BlocksAreLive ==
  ASSUME NEW list, ListOK(list), NEW T, NEW dests \in Seq(T)
  PROVE  Blocks(list, dests) \in Seq(LiveFor(list, dests)) /\ ToSet(Blocks(list, dests)) = LiveFor(list, dests)
<1> DEFINE n == Len(dests)
           part(i) == assembleRoutesYAML(Here(list, dests[i]))
           parts == [i \in DOMAIN dests |-> part(i)]
           live == LiveFor(list, dests)
           R(i) == {d \in ToSet(list) : ~d.custom /\ d.dest = dests[i]}
<1>1. n \in Nat /\ DOMAIN dests = 1 .. n /\ (n = 0 => dests = <<>>)
  OBVIOUS
<1>2. ASSUME NEW i \in 1 .. n
      PROVE  part(i) \in Seq(live) /\ ToSet(part(i)) = {Live(c) : c \in R(i)}
  <2> DEFINE entries == Here(list, dests[i])
             S == {Live(c) : c \in {d \in ToSet(entries) : ~d.custom}}
  <2>1. entries \in Seq(Entries) /\ ToSet(entries) = {c \in ToSet(list) : c.dest = dests[i]}
    BY HereIs
  <2>2. part(i) \in Seq(S) /\ ToSet(part(i)) = S
    <3>1. part(i) = assembleRoutesYAML(entries)
      OBVIOUS
    <3> HIDE DEF entries, part
    <3>2. assembleRoutesYAML(entries) \in Seq(S) /\ ToSet(assembleRoutesYAML(entries)) = S
      BY <2>1, RoutesOf
    <3> HIDE DEF S
    <3> QED BY <3>1, <3>2
  <2> HIDE DEF entries
  <2>3. {d \in ToSet(entries) : ~d.custom} = R(i)
    BY <2>1
  <2>4. S = {Live(c) : c \in R(i)}
    BY <2>3
  <2>5. S \subseteq live
    <3>1. dests[i] \in ToSet(dests)
      BY <1>1 DEF ToSet
    <3>2. \A c \in R(i) : ~c.custom /\ c \in ToSet(list) /\ c.dest \in ToSet(dests)
      BY <3>1
    <3> HIDE DEF R
    <3> QED BY <2>4, <3>2 DEF LiveFor
  <2> HIDE DEF S, live, part
  <2>6. part(i) \in Seq(live)
    BY <2>2, <2>5
  <2> QED BY <2>2, <2>4, <2>6
<1>3. \A i \in 1 .. n : parts[i] = part(i)
  BY <1>1
<1>4. DOMAIN parts = 1 .. n /\ Len(parts) = n /\ (n = 0 => parts = <<>>)
  <2> HIDE DEF part
  <2> QED BY <1>1
<1> HIDE DEF part, live, R
<1>5. Blocks(list, dests) = FlattenSeq(parts)
  BY Zenon DEF Blocks, part
<1> HIDE DEF parts, n
<1>6. FlattenSeq(parts) \in Seq(live) /\ ToSet(FlattenSeq(parts)) = UNION {ToSet(parts[i]) : i \in 1 .. n}
  <2>1. \A i \in 1 .. n : parts[i] \in Seq(live)
    BY <1>2, <1>3
  <2> QED BY <1>1, <1>4, <2>1, FlattenKeeps
<1>7. UNION {ToSet(parts[i]) : i \in 1 .. n} = live
  <2>1. ASSUME NEW i \in 1 .. n, NEW r \in ToSet(parts[i]) PROVE r \in live
    <3>1. part(i) \in Seq(live) /\ r \in ToSet(part(i))
      BY <1>2, <1>3, <2>1
    <3> QED BY <3>1 DEF ToSet
  <2>2. ASSUME NEW r \in live PROVE \E i \in 1 .. n : r \in ToSet(parts[i])
    <3>1. PICK c \in ToSet(list) : ~c.custom /\ c.dest \in ToSet(dests) /\ r = Live(c)
      BY DEF live, LiveFor
    <3>2. PICK i \in 1 .. n : c.dest = dests[i]
      BY <1>1, <3>1 DEF ToSet
    <3>3. c \in R(i)
      BY <3>1, <3>2 DEF R
    <3>4. r \in {Live(d) : d \in R(i)}
      BY <3>1, <3>3
    <3> QED BY <1>2, <1>3, <3>4
  <2> QED BY <2>1, <2>2
<1> QED BY <1>5, <1>6, <1>7 DEF live

\* A route of the plugin takes what has its receiver's runbook.
LEMMA LiveTakes ==
  ASSUME NEW c, NEW labels, "runbook" \in DOMAIN labels
  PROVE  /\ Matches(Live(c), labels) <=> labels["runbook"] = receiverBaseSlug(c.name)
         /\ Live(c).continue /\ Live(c).receiver = c.name
<1> DEFINE m == [runbook |-> receiverBaseSlug(c.name)]
           r == Live(c)
<1>1. r.matchers = m /\ r.continue /\ r.receiver = c.name
  BY DEF Live, Route
<1>2. DOMAIN m = {"runbook"} /\ m["runbook"] = receiverBaseSlug(c.name)
  OBVIOUS
<1> HIDE DEF m, r
<1>3. Matches(r, labels) <=> labels["runbook"] = m["runbook"]
  BY <1>1, <1>2 DEF Matches
<1> QED BY <1>1, <1>2, <1>3 DEF r

\* Of the receivers of a list, those added for a runbook in some channels.
Wanted(list, dests, slug) ==
  {c.name : c \in {d \in ToSet(list) : ~d.custom /\ d.dest \in ToSet(dests) /\ d.typed = slug}}

\* The pasted blocks lead an alert that names a runbook to its receivers.
LEMMA BlocksReach ==
  ASSUME NEW list, ListOK(list), NEW T, NEW dests \in Seq(T), NEW labels, "runbook" \in DOMAIN labels
  PROVE  /\ ~Stops(Blocks(list, dests), labels)
         /\ Through(Blocks(list, dests), labels) = Wanted(list, dests, labels["runbook"])
<1> DEFINE mid == Blocks(list, dests)
           slug == labels["runbook"]
<1>1. ToSet(mid) = LiveFor(list, dests)
  BY BlocksAreLive
<1> HIDE DEF mid
<1>2. ASSUME NEW c \in ToSet(list), ~c.custom PROVE receiverBaseSlug(c.name) = c.typed
  <2>1. c \in Entries /\ WellNamed(c)
    BY DEF ListOK, ToSet
  <2>2. c.typed \in Runbooks
    BY <1>2, <2>1 DEF WellNamed
  <2>3. ~EndsInHyphen(c)
    BY <2>2, NamesAssumption DEF NamesAssumption, EndsInHyphen
  <2> QED BY <2>1, <2>3, BaseIsTyped
<1>3. \A r \in ToSet(mid) : r.continue
  BY <1>1, LiveTakes DEF LiveFor
<1>4. ~Stops(mid, labels) /\ Through(mid, labels) = {r.receiver : r \in {s \in ToSet(mid) : Matches(s, labels)}}
  BY <1>3, ThroughAll
<1>5. ASSUME NEW x \in Through(mid, labels) PROVE x \in Wanted(list, dests, slug)
  <2>1. PICK r \in ToSet(mid) : Matches(r, labels) /\ x = r.receiver
    BY <1>4
  <2>2. PICK c \in ToSet(list) : ~c.custom /\ c.dest \in ToSet(dests) /\ r = Live(c)
    BY <1>1, <2>1 DEF LiveFor
  <2>3. c.typed = slug /\ x = c.name
    BY <1>2, <2>1, <2>2, LiveTakes
  <2> QED BY <2>2, <2>3 DEF Wanted
<1>6. ASSUME NEW x \in Wanted(list, dests, slug) PROVE x \in Through(mid, labels)
  <2>1. PICK c \in ToSet(list) : ~c.custom /\ c.dest \in ToSet(dests) /\ c.typed = slug /\ x = c.name
    BY DEF Wanted
  <2> DEFINE r == Live(c)
  <2>2. r \in ToSet(mid)
    BY <1>1, <2>1 DEF LiveFor
  <2>3. Matches(r, labels) /\ x = r.receiver
    BY <1>2, <2>1, LiveTakes
  <2> HIDE DEF r
  <2> QED BY <1>4, <2>2, <2>3
<1>7. Through(mid, labels) = Wanted(list, dests, slug)
  BY <1>5, <1>6
<1> QED BY <1>4, <1>7 DEF mid

\* Among other receivers than the root's, those reached are those on the way.
LEMMA ReachedOnTheWay ==
  ASSUME NEW default, NEW routes, NEW labels, NEW X, default \notin X
  PROVE  Match([default |-> default, routes |-> routes], labels) \cap X = Through(routes, labels) \cap X
<1> DEFINE reached == Match([default |-> default, routes |-> routes], labels)
           unmatched == \A i \in DOMAIN routes : ~Matches(routes[i], labels)
<1>1. reached = IF unmatched THEN {default} ELSE Through(routes, labels)
  BY MatchIsThrough, Zenon
<1>2. unmatched => Through(routes, labels) = {}
  BY DEF Through
<1> HIDE DEF reached, unmatched
<1>3. reached \cap X = Through(routes, labels) \cap X
  BY <1>1, <1>2
<1> QED BY <1>3 DEF reached

\* Routes lead to their receivers only.
LEMMA ThroughIsOf ==
  ASSUME NEW routes, NEW labels
  PROVE  Through(routes, labels) \subseteq {r.receiver : r \in ToSet(routes)}
  BY DEF Through, ToSet

\* An operator's routes, which lead to none of the plugin's receivers.
OwnOK(own, list) ==
  /\ own \in Seq(ToSet(own))
  /\ \A r \in ToSet(own) : r.receiver \notin NamesOf(list) \cup {<<"default">>}

\* An alert that names a runbook reaches its receivers in the pasted channels and
\* no other.
LEMMA Fans ==
  ASSUME NEW list, ListOK(list), <<"default">> \notin NamesOf(list), NEW T, NEW dests \in Seq(T),
         NEW before, OwnOK(before, list), NEW after, OwnOK(after, list),
         NEW labels, "runbook" \in DOMAIN labels
  PROVE  FansOut(before, list, dests, after, labels)
<1> DEFINE mid == Blocks(list, dests)
           default == <<"default">>
           routes == before \o mid \o after
           slug == labels["runbook"]
           reached == Match([default |-> default, routes |-> routes], labels)
           both == before \o after
           own == {r.receiver : r \in ToSet(both)}
           alone == Match([default |-> default, routes |-> both], labels)
           S == ToSet(before) \cup ToSet(after) \cup LiveFor(list, dests)
           names == NamesOf(list)
<1>1. before \in Seq(S) /\ after \in Seq(S) /\ mid \in Seq(S) /\ ToSet(mid) = LiveFor(list, dests)
  <2>1. mid \in Seq(LiveFor(list, dests)) /\ ToSet(mid) = LiveFor(list, dests)
    BY BlocksAreLive
  <2> HIDE DEF mid
  <2> QED BY <2>1 DEF OwnOK
<1>2. ~Stops(mid, labels) /\ Through(mid, labels) = Wanted(list, dests, slug)
  BY BlocksReach
<1>3. SUFFICES ASSUME ~Stops(before, labels)
               PROVE  /\ reached \cap names = Wanted(list, dests, slug)
                      /\ reached \cap own = alone \ {default}
  <2>1. Pasted(before, list, dests, after) = [default |-> default, routes |-> routes]
    BY Zenon DEF Pasted, Blocks
  <2>2. {c.name : c \in {d \in ToSet(list) : ~d.custom /\ d.dest \in ToSet(dests) /\ labels["runbook"] = d.typed}}
          = Wanted(list, dests, slug)
    BY DEF Wanted
  <2>3. Pasted(before, list, dests, after).default = default
    BY <2>1
  <2> HIDE DEF mid, default, S, routes
  <2> QED BY <1>3, <2>1, <2>2, Zenon DEF FansOut, default
<1> HIDE DEF mid, S
<1> DEFINE front == before \o mid
<1>4. front \in Seq(S) /\ ToSet(front) = ToSet(before) \cup ToSet(mid)
  BY <1>1, ConcatToSet
<1>5. both \in Seq(S) /\ ToSet(both) = ToSet(before) \cup ToSet(after)
  BY <1>1, ConcatToSet
<1>6. Through(front, labels) = Through(before, labels) \cup Through(mid, labels)
  BY <1>1, <1>3, ThroughBoth
<1>7. ~Stops(front, labels)
  <2> HIDE DEF front
  <2> QED BY <1>2, <1>3, <1>4 DEF Stops
<1>8. Through(routes, labels) = Through(before, labels) \cup Wanted(list, dests, slug) \cup Through(after, labels)
  <2>1. routes = front \o after
    OBVIOUS
  <2> HIDE DEF front, routes
  <2>2. Through(front \o after, labels) = Through(front, labels) \cup Through(after, labels)
    BY <1>1, <1>4, <1>7, ThroughBoth
  <2> QED BY <1>2, <1>6, <2>1, <2>2
<1>9. Through(both, labels) = Through(before, labels) \cup Through(after, labels)
  BY <1>1, <1>3, ThroughBoth
<1> HIDE DEF both, routes, front
<1>10. Wanted(list, dests, slug) \subseteq names /\ default \notin names
  BY DEF Wanted, NamesOf, ToSet
<1>11. own \cap names = {} /\ default \notin own /\ Through(both, labels) \subseteq own
  <2>1. \A r \in ToSet(both) : r.receiver \notin names /\ r.receiver # default
    BY <1>5 DEF OwnOK
  <2>2. Through(both, labels) \subseteq own
    BY ThroughIsOf
  <2> HIDE DEF names, default
  <2> QED BY <2>1, <2>2
<1>12. /\ reached \cap names = Through(routes, labels) \cap names
       /\ reached \cap own = Through(routes, labels) \cap own
  <2> HIDE DEF names, own, default
  <2> QED BY <1>10, <1>11, ReachedOnTheWay
<1>13. alone \ {default} = Through(both, labels)
  <2> HIDE DEF own, default
  <2> DEFINE X == (alone \cup own) \ {default}
  <2>1. default \notin X
    OBVIOUS
  <2> HIDE DEF X
  <2>2. alone \cap X = Through(both, labels) \cap X
    BY <2>1, ReachedOnTheWay
  <2> HIDE DEF alone
  <2> QED BY <1>11, <2>2 DEF X
<1> HIDE DEF own, names, default, reached, alone
<1> QED BY <1>8, <1>9, <1>10, <1>11, <1>12, <1>13

-----------------------------------------------------------------------------
(* Tests of routes. *)

\* One function over another.
LEMMA OverIs ==
  ASSUME NEW f, NEW g
  PROVE  /\ DOMAIN Over(f, g) = DOMAIN f \cup DOMAIN g
         /\ \A x \in DOMAIN f : Over(f, g)[x] = f[x]
         /\ \A x \in DOMAIN g : x \notin DOMAIN f => Over(f, g)[x] = g[x]
<1> DEFINE h == [x \in DOMAIN f \cup DOMAIN g |-> IF x \in DOMAIN f THEN f[x] ELSE g[x]]
<1>1. /\ DOMAIN h = DOMAIN f \cup DOMAIN g
      /\ \A x \in DOMAIN f : h[x] = f[x]
      /\ \A x \in DOMAIN g : x \notin DOMAIN f => h[x] = g[x]
  OBVIOUS
<1>2. Over(f, g) = h
  BY Zenon DEF Over
<1> HIDE DEF h
<1> QED BY <1>1, <1>2

\* One sequence flattened is that sequence.
LEMMA FlattenOne ==
  ASSUME NEW seqs, Len(seqs) = 1
  PROVE  FlattenSeq(seqs) = seqs[1]
<1> DEFINE f == CHOOSE g : Flat(seqs, g, 1)
<1>1. Flat(seqs, f, 1)
  <2>1. 1 \in Nat
    OBVIOUS
  <2> QED BY <2>1, FlatExists, Zenon
<1>2. FlattenSeq(seqs) = f[1]
  <2>1. ~(Len(seqs) = 0)
    OBVIOUS
  <2> QED BY <2>1, Zenon DEF FlattenSeq, Flat
<1> HIDE DEF f
<1>3. f[1] = seqs[1]
  <2>1. f = [i \in 1 .. 1 |-> IF i = 1 THEN seqs[i] ELSE f[i - 1] \o seqs[i]]
    BY <1>1 DEF Flat
  <2>2. 1 \in 1 .. 1
    OBVIOUS
  <2> QED BY <2>1, <2>2, Zenon
<1> QED BY <1>2, <1>3

\* The label set that names a runbook and nothing else.
Naming(slug) == LabelsOf(<<Arg("runbook", slug, TRUE)>>)

\* LabelsOf gives it that one label.
LEMMA NamingIs ==
  ASSUME NEW slug
  PROVE  DOMAIN Naming(slug) = {"runbook"} /\ Naming(slug)["runbook"] = slug
<1> DEFINE arg == Arg("runbook", slug, TRUE)
           args == <<arg>>
           latest(key) == Max({i \in DOMAIN args : args[i].key = key})
           labels == [key \in {a.key : a \in ToSet(args)} |-> args[latest(key)].value]
<1>1. arg.key = "runbook" /\ arg.value = slug
  BY DEF Arg
<1> HIDE DEF arg
<1>2. DOMAIN args = {1} /\ args[1] = arg
  OBVIOUS
<1> HIDE DEF args
<1>3. {a.key : a \in ToSet(args)} = {"runbook"}
  BY <1>1, <1>2 DEF ToSet
<1>4. latest("runbook") = 1
  <2>1. {i \in DOMAIN args : args[i].key = "runbook"} = {1}
    BY <1>1, <1>2
  <2>2. Max({1}) = 1
    BY DEF Max
  <2> QED BY <2>1, <2>2
<1> HIDE DEF latest
<1>5. DOMAIN labels = {"runbook"} /\ labels["runbook"] = slug
  BY <1>1, <1>2, <1>3, <1>4
<1>6. Naming(slug) = labels
  BY Zenon DEF Naming, LabelsOf, args, arg, latest
<1> HIDE DEF labels
<1> QED BY <1>5, <1>6

\* A simulation of a runbook parses to the label set that names it.
LEMMA ParsedIsNaming ==
  ASSUME NEW slug, slug # NoName
  PROVE  LET args == <<Arg("runbook", slug, TRUE)>>
         IN /\ buildSimulateLabelsInput(slug, NoName, <<>>) = args /\ args # <<>>
            /\ parseSimulateLabels(args).ok /\ parseSimulateLabels(args).labels = Naming(slug)
<1> DEFINE arg == Arg("runbook", slug, TRUE)
           args == <<arg>>
<1>1. buildSimulateLabelsInput(slug, NoName, <<>>) = args
  <2>1. buildSimulateLabelsInput(slug, NoName, <<>>) = <<arg>> \o <<>> \o <<>>
    BY DEF buildSimulateLabelsInput
  <2> HIDE DEF arg
  <2>2. <<arg>> \o <<>> \o <<>> = <<arg>>
    OBVIOUS
  <2> QED BY <2>1, <2>2
<1>2. arg.key # "" /\ arg.value # NoName /\ arg.legal
  BY DEF Arg
<1> HIDE DEF arg
<1>3. args # <<>> /\ \A a \in ToSet(args) : a = arg
  BY DEF ToSet
<1> HIDE DEF args
<1>4. args # <<>> /\ \A a \in ToSet(args) : ~Malformed(a) /\ a.legal
  BY <1>2, <1>3 DEF Malformed
<1>5. parseSimulateLabels(args) = [ok |-> TRUE, labels |-> LabelsOf(args)]
  BY <1>4, Zenon DEF parseSimulateLabels
<1>6. parseSimulateLabels(args).ok /\ parseSimulateLabels(args).labels = LabelsOf(args)
  BY <1>5
<1> QED BY <1>1, <1>4, <1>6 DEF args, arg, Naming

\* What is fired for one runbook, if something is.
Synthetic(slug, severity, extraArgs) ==
  LET specs == expandSeverityForFire(severity)
  IN [j \in DOMAIN specs |-> postValidateSyntheticAlert(slug, specs[j], parseEndToEndExtraLabels(extraArgs))]

\* Firing at one runbook fires one alert for each severity, if an Alertmanager can
\* be fired at.
LEMMA FiredForOne ==
  ASSUME NEW slug, NEW severity, NEW extraArgs, NEW configs, NEW status
  PROVE  LET fired == runInventoryEndToEnd({slug}, severity, extraArgs, configs, status).fired
         IN fired = IF EndToEndAM({slug}, configs, status) = NoAM THEN <<>> ELSE Synthetic(slug, severity, extraArgs)
<1> DEFINE specs == expandSeverityForFire(severity)
           am == EndToEndAM({slug}, configs, status)
           extra == parseEndToEndExtraLabels(extraArgs)
           order == SetToSeq({slug})
           alerts(s) == [j \in DOMAIN specs |-> postValidateSyntheticAlert(s, specs[j], extra)]
           parts == [i \in 1 .. Cardinality({slug}) |-> alerts(order[i])]
           run == runInventoryEndToEnd({slug}, severity, extraArgs, configs, status)
<1>1. Cardinality({slug}) = 1 /\ order \in Seq({slug}) /\ Len(order) = 1
  <2>1. IsFiniteSet({slug}) /\ Cardinality({slug}) = 1
    BY FS_Singleton
  <2> HIDE DEF order
  <2>2. order \in Seq({slug}) /\ Len(order) = Cardinality({slug})
    BY <2>1, SetToSeqOnto DEF order
  <2> QED BY <2>1, <2>2
<1>2. order[1] = slug
  <2> HIDE DEF order
  <2> QED BY <1>1
<1> HIDE DEF order
<1>3. Len(parts) = 1 /\ parts[1] = alerts(slug)
  <2> HIDE DEF alerts
  <2> QED BY <1>1, <1>2
<1>4. FlattenSeq(parts) = alerts(slug)
  <2> HIDE DEF parts, alerts
  <2> QED BY <1>3, FlattenOne
<1>5. run = IF am = NoAM THEN [am |-> NoAM, fired |-> <<>>] ELSE [am |-> am, fired |-> FlattenSeq(parts)]
  BY Zenon DEF runInventoryEndToEnd, order
<1>6. alerts(slug) = Synthetic(slug, severity, extraArgs)
  BY Zenon DEF Synthetic
<1> HIDE DEF parts, alerts, am, run
<1>7. run.fired = IF am = NoAM THEN <<>> ELSE FlattenSeq(parts)
  BY <1>5
<1> QED BY <1>4, <1>6, <1>7 DEF am, run

\* The lenient parse has no label but those that are given.
LEMMA ExtraLabels ==
  ASSUME NEW S, NEW args \in Seq(S)
  PROVE  DOMAIN parseEndToEndExtraLabels(args) = {a.key : a \in {b \in ToSet(args) : ~Malformed(b)}}
<1> DEFINE fine == {a \in ToSet(args) : ~Malformed(a)}
           kept == Only(args, fine)
<1>1. ToSet(kept) = fine
  <2>1. ToSet(kept) = ToSet(args) \cap fine
    <3> HIDE DEF fine
    <3> QED BY OnlyKeeps
  <2> QED BY <2>1
<1>2. parseEndToEndExtraLabels(args) = LabelsOf(kept)
  BY Zenon DEF parseEndToEndExtraLabels
<1> HIDE DEF kept
<1>3. DOMAIN LabelsOf(kept) = {a.key : a \in ToSet(kept)}
  BY DEF LabelsOf
<1> HIDE DEF fine
<1>4. {a.key : a \in ToSet(kept)} = {a.key : a \in fine}
  BY <1>1, Zenon
<1> QED BY <1>2, <1>3, <1>4 DEF fine

\* A synthetic alert names its runbook and itself unless that is overridden.
LEMMA AlertNames ==
  ASSUME NEW slug, NEW spec, NEW extra
  PROVE  LET labels == postValidateSyntheticAlert(slug, spec, extra).labels
         IN /\ "runbook" \notin DOMAIN extra => "runbook" \in DOMAIN labels /\ labels["runbook"] = slug
            /\ "alertname" \notin DOMAIN extra => labels["alertname"] = alertname(spec)
<1> DEFINE markers == [severity |-> <<spec.severity>>, test |-> <<"validate">>, source |-> <<"alertmanager-plugin-validate">>]
           base == [alertname |-> alertname(spec), runbook |-> slug]
           under == Over(extra, base)
           labels == Over(markers, under)
<1>1. postValidateSyntheticAlert(slug, spec, extra).labels = labels
  BY DEF postValidateSyntheticAlert
<1>2. DOMAIN markers = {"severity", "test", "source"}
  OBVIOUS
<1>3. DOMAIN base = {"alertname", "runbook"} /\ base["alertname"] = alertname(spec) /\ base["runbook"] = slug
  OBVIOUS
<1> HIDE DEF markers, base
<1>4. ASSUME NEW l \in {"alertname", "runbook"}, l \notin DOMAIN extra
      PROVE  l \in DOMAIN labels /\ labels[l] = base[l]
  <2>1. l \in DOMAIN under /\ under[l] = base[l]
    <3>1. /\ DOMAIN under = DOMAIN extra \cup DOMAIN base
          /\ \A x \in DOMAIN base : x \notin DOMAIN extra => under[x] = base[x]
      BY OverIs, Zenon
    <3> HIDE DEF under
    <3> QED BY <1>3, <1>4, <3>1
  <2> HIDE DEF under
  <2>2. l \notin DOMAIN markers
    BY <1>2
  <2>3. /\ DOMAIN labels = DOMAIN markers \cup DOMAIN under
        /\ \A x \in DOMAIN under : x \notin DOMAIN markers => labels[x] = under[x]
    BY OverIs, Zenon
  <2> HIDE DEF labels
  <2> QED BY <2>1, <2>2, <2>3
<1> HIDE DEF labels
<1>5. /\ "runbook" \notin DOMAIN extra => "runbook" \in DOMAIN labels /\ labels["runbook"] = slug
      /\ "alertname" \notin DOMAIN extra => labels["alertname"] = alertname(spec)
  BY <1>3, <1>4
<1> QED BY <1>1, <1>5

\* The alerts of a matrix have names of their own.
LEMMA SpecsApart ==
  ASSUME NEW value
  PROVE  LET specs == expandSeverityForFire(value)
         IN \A i, j \in DOMAIN specs : alertname(specs[i]) = alertname(specs[j]) => i = j
<1> DEFINE warning == syntheticFireSpec("warning", FALSE)
           critical == syntheticFireSpec("critical", FALSE)
           info == syntheticFireSpec("info", FALSE)
           end == syntheticFireSpec("info", TRUE)
           Apart(specs) == \A i, j \in DOMAIN specs : alertname(specs[i]) = alertname(specs[j]) => i = j
           all == <<warning, critical, info, end>>
<1>1. Apart(all)
  <2>1. /\ alertname(warning) = <<"ValidateSyntheticTest", "warning">>
        /\ alertname(critical) = <<"ValidateSyntheticTest", "critical">>
        /\ alertname(info) = <<"ValidateSyntheticTest", "info">>
        /\ alertname(end) = <<"ValidateSyntheticTest", "resolved">>
    BY DEF alertname, syntheticFireSpec
  <2> HIDE DEF warning, critical, info, end
  <2>2. /\ alertname(warning)[2] = "warning" /\ alertname(critical)[2] = "critical"
        /\ alertname(info)[2] = "info" /\ alertname(end)[2] = "resolved"
    BY <2>1
  <2> DEFINE second(spec) == alertname(spec)[2]
  <2>3. second(warning) = "warning" /\ second(critical) = "critical" /\ second(info) = "info" /\ second(end) = "resolved"
    BY <2>2
  <2> HIDE DEF second
  <2>4. DOMAIN all = {1, 2, 3, 4} /\ all[1] = warning /\ all[2] = critical /\ all[3] = info /\ all[4] = end
    OBVIOUS
  <2> HIDE DEF all
  <2>5. \A i, j \in {1, 2, 3, 4} : second(all[i]) = second(all[j]) => i = j
    BY <2>3, <2>4
  <2>6. ASSUME NEW i \in DOMAIN all, NEW j \in DOMAIN all, alertname(all[i]) = alertname(all[j]) PROVE i = j
    <3>1. second(all[i]) = second(all[j])
      BY <2>6 DEF second
    <3> QED BY <2>4, <2>5, <3>1
  <2> QED BY <2>6
<1>2. \A spec : Apart(<<spec>>)
  OBVIOUS
<1>3. Apart(<<>>)
  OBVIOUS
<1>4. expandSeverityForFire(value) = all \/ (\E spec : expandSeverityForFire(value) = <<spec>>) \/ expandSeverityForFire(value) = <<>>
  <2>1. CASE value = "all"
    BY <2>1 DEF expandSeverityForFire
  <2>2. CASE value \in {"critical", "warning", "info"}
    BY <2>2 DEF expandSeverityForFire
  <2>3. CASE value = ""
    BY <2>3 DEF expandSeverityForFire
  <2>4. CASE value \notin {"all", "critical", "warning", "info", ""}
    BY <2>4 DEF expandSeverityForFire
  <2> QED BY <2>1, <2>2, <2>3, <2>4
<1> HIDE DEF all, Apart
<1>5. Apart(expandSeverityForFire(value))
  BY <1>1, <1>2, <1>3, <1>4
<1> QED BY <1>5 DEF Apart

-----------------------------------------------------------------------------
(* One Alertmanager for all receivers, with a configuration of blocks. *)

\* It answers and returns that configuration.
Serves(status, tree) == status["am"].reachable /\ status["am"].returned /\ status["am"].tree = tree

\* All receivers are bound to one Alertmanager.
BoundToAM(configs) == Len(configs) \in Nat /\ \A i \in 1 .. Len(configs) : configs[i].am = "am"

\* The page simulates a runbook where its first receiver is bound.
LEMMA PageShows ==
  ASSUME NEW configs, BoundToAM(configs), Len(configs) # 0,
         NEW tree, tree # NoTree, NEW status, Serves(status, tree), NEW slug, slug # NoName
  PROVE  LET matched == Match(tree, Naming(slug))
         IN runInventorySimulation(configs, buildSimulateLabelsInput(slug, NoName, <<>>), status)
              = Simulated(IF matched = {tree.default} THEN "fell-through" ELSE "ok", matched)
<1> DEFINE args == buildSimulateLabelsInput(slug, NoName, <<>>)
           parsed == parseSimulateLabels(args)
           I == {i \in 1 .. Len(configs) : status[configs[i].am].reachable /\ status[configs[i].am].returned}
           first == IF I # {} THEN Min(I) ELSE 0
           matched == Match(tree, Naming(slug))
           page == runInventorySimulation(configs, args, status)
           found == status[configs[first].am].tree
<1>1. args # <<>> /\ parsed.ok /\ parsed.labels = Naming(slug)
  BY ParsedIsNaming, Zenon
<1>2. I = 1 .. Len(configs)
  <2>1. \A i \in 1 .. Len(configs) : configs[i].am = "am"
    BY DEF BoundToAM
  <2> QED BY <2>1 DEF Serves
<1>3. first \in 1 .. Len(configs) /\ first # 0
  <2>1. 1 .. Len(configs) \in SUBSET Nat /\ 1 .. Len(configs) # {}
    BY DEF BoundToAM
  <2> DEFINE m == Min(1 .. Len(configs))
  <2>2. m \in 1 .. Len(configs)
    BY <2>1, LeastIsMin
  <2>3. first = m
    BY <1>2, <2>1
  <2> HIDE DEF m, first
  <2> QED BY <2>2, <2>3 DEF BoundToAM
<1>4. SelectInSeq(configs, LAMBDA c : status[c.am].reachable /\ status[c.am].returned) = first
  BY Zenon DEF SelectInSeq
<1> HIDE DEF first, I, args
<1>5. found = tree
  <2>1. configs[first].am = "am"
    BY <1>3 DEF BoundToAM
  <2> QED BY <2>1, Zenon DEF Serves
<1>6. page = CASE args = <<>> -> Simulated("none", {})
               [] args # <<>> /\ (~parsed.ok \/ first = 0) -> Simulated("error", {})
               [] args # <<>> /\ parsed.ok /\ first # 0 /\ found = NoTree -> Simulated("error", {})
               [] OTHER -> IF Match(found, parsed.labels) = {found.default} THEN Simulated("fell-through", Match(found, parsed.labels))
                           ELSE Simulated("ok", Match(found, parsed.labels))
  BY <1>4, Zenon DEF runInventorySimulation
<1> HIDE DEF found, page, parsed
<1>7. page = IF matched = {tree.default} THEN Simulated("fell-through", matched) ELSE Simulated("ok", matched)
  BY <1>1, <1>3, <1>5, <1>6, Zenon
<1> HIDE DEF matched
<1>8. page = Simulated(IF matched = {tree.default} THEN "fell-through" ELSE "ok", matched)
  BY <1>7
<1> QED BY <1>8 DEF page, args, matched

\* So does the command.
LEMMA CommandShows ==
  ASSUME NEW configs, BoundToAM(configs), Len(configs) # 0,
         NEW tree, tree # NoTree, NEW status, Serves(status, tree), NEW slug, slug # NoName
  PROVE  handleValidateSimulate(configs, <<Arg("runbook", slug, TRUE)>>, status)
           = Simulated("ok", Match(tree, Naming(slug)))
<1> DEFINE args == <<Arg("runbook", slug, TRUE)>>
           parsed == parseSimulateLabels(args)
           entry == status[configs[1].am]
           bad == configs = <<>> \/ ~parsed.ok \/ ~Usable(entry)
<1>1. parsed.ok /\ parsed.labels = Naming(slug)
  BY ParsedIsNaming, Zenon
<1>2. configs # <<>> /\ configs[1].am = "am"
  BY DEF BoundToAM
<1>3. entry.tree = tree /\ Usable(entry)
  BY <1>2, Zenon DEF Serves, Usable
<1>4. handleValidateSimulate(configs, args, status)
        = IF bad THEN Simulated("error", {}) ELSE Simulated("ok", Match(entry.tree, parsed.labels))
  BY Zenon DEF handleValidateSimulate
<1>5. ~bad
  BY <1>1, <1>2, <1>3, Zenon
<1> HIDE DEF bad, entry, parsed
<1> QED BY <1>1, <1>3, <1>4, <1>5, Zenon

\* Without a receiver nothing is fired.
LEMMA NoneToFireFor ==
  ASSUME NEW configs, Len(configs) = 0, NEW slugs, NEW status
  PROVE  EndToEndAM(slugs, configs, status) = NoAM
<1> DEFINE I == {i \in 1 .. Len(configs) : receiverBaseSlug(configs[i].name) \in slugs /\ status[configs[i].am].reachable}
           first == IF I # {} THEN Min(I) ELSE 0
<1>1. I = {}
  <2>1. 1 .. Len(configs) = {}
    OBVIOUS
  <2> QED BY <2>1
<1>2. SelectInSeq(configs, LAMBDA c : receiverBaseSlug(c.name) \in slugs /\ status[c.am].reachable) = first
  BY Zenon DEF SelectInSeq
<1> HIDE DEF I
<1> QED BY <1>1, <1>2, Zenon DEF EndToEndAM

\* The receivers of a list, all bound to the one Alertmanager.
LEMMA BoundConfigs ==
  ASSUME NEW list, ListOK(list)
  PROVE  LET configs == [i \in DOMAIN list |-> Over(list[i], [am |-> "am"])]
         IN BoundToAM(configs) /\ Len(configs) = Len(list) /\ configs \in Seq(ToSet(configs))
<1> DEFINE configs == [i \in DOMAIN list |-> Over(list[i], [am |-> "am"])]
<1>1. list \in Seq(Entries)
  BY DEF ListOK
<1>2. DOMAIN list = 1 .. Len(list) /\ Len(list) \in Nat
  BY <1>1
<1>3. Len(configs) = Len(list)
  BY <1>2
<1>4. ASSUME NEW i \in 1 .. Len(list) PROVE configs[i].am = "am"
  <2> DEFINE c == list[i]
             bind == [am |-> "am"]
  <2>1. c \in Entries
    BY <1>1
  <2>2. "am" \notin DOMAIN c
    BY <2>1 DEF Entries
  <2>3. "am" \in DOMAIN bind /\ bind["am"] = "am"
    OBVIOUS
  <2> HIDE DEF c, bind
  <2>4. Over(c, bind)["am"] = "am"
    <3>1. \A x \in DOMAIN bind : x \notin DOMAIN c => Over(c, bind)[x] = bind[x]
      BY OverIs, Zenon
    <3> QED BY <2>2, <2>3, <3>1
  <2>5. configs[i] = Over(c, bind)
    BY <1>2 DEF c, bind
  <2>6. Over(c, bind).am = "am"
    BY <2>4
  <2> QED BY <2>5, <2>6
<1>6. configs = [i \in DOMAIN configs |-> configs[i]]
  OBVIOUS
<1>5. configs \in Seq(ToSet(configs))
  <2>1. DOMAIN configs = 1 .. Len(list)
    BY <1>2
  <2> DEFINE n == Len(list)
             S == {configs[i] : i \in 1 .. n}
  <2>2. S = ToSet(configs)
    BY <2>1, Zenon DEF ToSet
  <2> HIDE DEF configs, n
  <2>3. configs = [i \in 1 .. n |-> configs[i]] /\ n \in Nat /\ \A i \in 1 .. n : configs[i] \in S
    BY <1>2, <2>1, <1>6 DEF n
  <2> HIDE DEF S
  <2>4. configs \in Seq(S)
    BY <2>3
  <2> QED BY <2>2, <2>4
<1> HIDE DEF configs
<1>7. BoundToAM(configs) /\ Len(configs) = Len(list) /\ configs \in Seq(ToSet(configs))
  BY <1>2, <1>3, <1>4, <1>5 DEF BoundToAM
<1> QED BY <1>7 DEF configs

\* The test for a runbook, its simulations and the receivers added for it.
LEMMA TestsTell ==
  ASSUME NEW list, ListOK(list), <<"default">> \notin NamesOf(list), NEW T, NEW dests \in Seq(T),
         NEW slug, slug # NoName, NEW severity, NEW S, NEW extraArgs \in Seq(S)
  PROVE  TestsTellTheTruth(list, dests, slug, severity, extraArgs)
<1> DEFINE mid == Blocks(list, dests)
           default == <<"default">>
           tree == Pasted(<<>>, list, dests, <<>>)
           entry == [reachable |-> TRUE, returned |-> TRUE, tree |-> tree]
           status == [am \in {"am"} |-> entry]
           configs == [i \in DOMAIN list |-> Over(list[i], [am |-> "am"])]
           args == buildSimulateLabelsInput(slug, NoName, <<>>)
           fired == runInventoryEndToEnd({slug}, severity, extraArgs, configs, status).fired
           pages == runInventorySimulationMatrixForSlugs({slug}, NoName, <<>>, configs, status)
           page == pages[slug]
           command == handleValidateSimulate(configs, <<Arg("runbook", slug, TRUE)>>, status)
           keys == {a.key : a \in {b \in ToSet(extraArgs) : ~Malformed(b)}}
           extra == parseEndToEndExtraLabels(extraArgs)
           specs == expandSeverityForFire(severity)
           matched == Match(tree, Naming(slug))
           wanted == Wanted(list, dests, slug)
<1>1. tree = [default |-> default, routes |-> mid]
  <2>1. mid \in Seq(LiveFor(list, dests))
    BY BlocksAreLive
  <2> HIDE DEF mid
  <2>2. <<>> \o mid \o <<>> = mid
    BY <2>1
  <2>3. tree = [default |-> default, routes |-> <<>> \o mid \o <<>>]
    BY Zenon DEF Pasted, Blocks, mid
  <2> QED BY <2>2, <2>3
<1> HIDE DEF mid
<1>2. tree.default = default /\ tree # NoTree
  <2>1. tree.default = default /\ NoTree.default = <<>> /\ default # <<>>
    BY <1>1 DEF NoTree, NoName
  <2> QED BY <2>1
<1>3. Serves(status, tree)
  <2> HIDE DEF tree
  <2>1. entry.reachable /\ entry.returned /\ entry.tree = tree
    BY Zenon
  <2> HIDE DEF entry
  <2>2. status["am"] = entry
    OBVIOUS
  <2> QED BY <2>1, <2>2, Zenon DEF Serves
<1>4. BoundToAM(configs) /\ Len(configs) = Len(list)
  BY BoundConfigs, Zenon
<1> HIDE DEF configs, status, tree
<1>5. page = runInventorySimulation(configs, args, status)
  BY Zenon DEF runInventorySimulationMatrixForSlugs
<1>6. CASE fired = <<>>
  <2> HIDE DEF fired
  <2>1. \A i : i \notin DOMAIN fired
    BY <1>6
  <2> QED BY <2>1, Zenon DEF TestsTellTheTruth, configs, status, tree, fired
<1>7. CASE fired # <<>>
  <2>1. fired = Synthetic(slug, severity, extraArgs) /\ EndToEndAM({slug}, configs, status) # NoAM
    BY <1>7, FiredForOne, Zenon
  <2>2. Len(configs) # 0
    BY <2>1, NoneToFireFor, Zenon
  <2>3. page = Simulated(IF matched = {tree.default} THEN "fell-through" ELSE "ok", matched)
    <3> HIDE DEF page, pages, command, fired, specs, extra, keys
    <3>1. runInventorySimulation(configs, args, status)
            = Simulated(IF matched = {tree.default} THEN "fell-through" ELSE "ok", matched)
      BY <1>2, <1>3, <1>4, <2>2, PageShows, ZenonT(30)
    <3> QED BY <1>5, <3>1, Zenon
  <2>4. command = Simulated("ok", matched)
    BY <1>2, <1>3, <1>4, <2>2, CommandShows, Zenon
  <2>5. page.receivers = matched /\ command.receivers = matched
        /\ (page.mode = "ok" <=> matched # {default})
    <3> HIDE DEF page, command, matched
    <3> QED BY <1>2, <2>3, <2>4 DEF Simulated
  <2> DEFINE labels(i) == fired[i].labels
  <2>6. DOMAIN fired = DOMAIN specs /\ \A i \in DOMAIN specs : labels(i) = postValidateSyntheticAlert(slug, specs[i], extra).labels
    <3> HIDE DEF fired
    <3>1. fired = [j \in DOMAIN specs |-> postValidateSyntheticAlert(slug, specs[j], extra)]
      BY <2>1, Zenon DEF Synthetic
    <3> HIDE DEF specs, extra
    <3> QED BY <3>1
  <2>7. DOMAIN extra = keys
    BY ExtraLabels
  <2> HIDE DEF fired, specs, extra, keys, labels, page, command
  <2>8. ASSUME "runbook" \notin keys, NEW i \in DOMAIN fired
        PROVE  "runbook" \in DOMAIN labels(i) /\ labels(i)["runbook"] = slug
    BY <2>6, <2>7, <2>8, AlertNames
  <2>9. ASSUME NEW l, "runbook" \in DOMAIN l, l["runbook"] = slug
        PROVE  Match(tree, l) = IF wanted = {} THEN {default} ELSE wanted
    <3>1. Through(mid, l) = wanted
      BY <2>9, BlocksReach DEF mid
    <3>2. Match(tree, l) = IF \A i \in DOMAIN mid : ~Matches(mid[i], l) THEN {default} ELSE Through(mid, l)
      BY <1>1, MatchIsThrough, Zenon
    <3>3. (\A i \in DOMAIN mid : ~Matches(mid[i], l)) <=> wanted = {}
      <4>1. ToSet(mid) = LiveFor(list, dests)
        BY BlocksAreLive DEF mid
      <4>2. \A r \in ToSet(mid) : r.continue
        BY <4>1, <2>9, LiveTakes DEF LiveFor
      <4>3. Through(mid, l) = {r.receiver : r \in {s \in ToSet(mid) : Matches(s, l)}}
        BY <4>2, ThroughAll
      <4>4. \A i \in DOMAIN mid : mid[i] \in ToSet(mid)
        BY DEF ToSet
      <4>5. \A r \in ToSet(mid) : \E i \in DOMAIN mid : r = mid[i]
        BY DEF ToSet
      <4> HIDE DEF wanted
      <4>6. ASSUME \A i \in DOMAIN mid : ~Matches(mid[i], l) PROVE wanted = {}
        BY <3>1, <4>3, <4>5, <4>6
      <4>7. ASSUME wanted = {}, NEW i \in DOMAIN mid PROVE ~Matches(mid[i], l)
        BY <3>1, <4>3, <4>4, <4>7
      <4> QED BY <4>6, <4>7
    <3> HIDE DEF wanted, default
    <3> QED BY <3>1, <3>2, <3>3
  <2>10. matched = IF wanted = {} THEN {default} ELSE wanted
    BY <2>9, NamingIs
  <2>11. \A i \in DOMAIN fired : "runbook" \notin keys => Match(tree, labels(i)) = matched
    <3> HIDE DEF wanted, matched
    <3> QED BY <2>8, <2>9, <2>10
  <2>12. wanted = IF page.mode = "ok" THEN page.receivers ELSE {}
    <3>1. default \notin wanted
      BY DEF Wanted, NamesOf, ToSet
    <3> HIDE DEF wanted, default, matched
    <3> QED BY <2>5, <2>10, <3>1
  <2>13. ASSUME "alertname" \notin keys, NEW i \in DOMAIN fired, NEW j \in DOMAIN fired, labels(i) = labels(j)
         PROVE  i = j
    <3>1. labels(i)["alertname"] = alertname(specs[i]) /\ labels(j)["alertname"] = alertname(specs[j])
      BY <2>6, <2>7, <2>13, AlertNames
    <3>2. alertname(specs[i]) = alertname(specs[j])
      BY <2>13, <3>1
    <3>3. i \in DOMAIN specs /\ j \in DOMAIN specs
      BY <2>6
    <3> QED BY <3>2, <3>3, SpecsApart DEF specs
  <2>14. {c.name : c \in {d \in ToSet(list) : ~d.custom /\ d.dest \in ToSet(dests) /\ d.typed = slug}} = wanted
    BY Zenon DEF Wanted
  <2>15. \A i, j \in DOMAIN fired : "alertname" \notin keys => (labels(i) = labels(j) => i = j)
    BY <2>13, Zenon
  <2> HIDE DEF wanted, matched
  <2>16. "runbook" \notin keys =>
           \A i \in DOMAIN fired : /\ Match(tree, labels(i)) = page.receivers
                                   /\ page.receivers = command.receivers
                                   /\ wanted = IF page.mode = "ok" THEN page.receivers ELSE {}
    BY <2>5, <2>11, <2>12, Zenon
  <2> QED BY <2>14, <2>15, <2>16, Zenon DEF TestsTellTheTruth, configs, status, tree, fired, labels, page, command, keys
<1> QED BY <1>6, <1>7

\* Short sequences.
LEMMA OneIsSeq ==
  ASSUME NEW S, NEW a \in S
  PROVE  <<>> \in Seq(S) /\ <<a>> \in Seq(S)
  OBVIOUS

\* Of two elements one can make a sequence.
LEMMA TwoAreSeq ==
  ASSUME NEW S, NEW a \in S, NEW b \in S
  PROVE  <<a, b>> \in Seq(S)
  OBVIOUS

\* Alerts that name a runbook fan out to the receivers of the pasted channels
\* and to no other of the plugin's, and the tests show where they go: for every
\* list, every number of blocks, and every operator's routes with names of
\* their own.
THEOREM AlertsReach == InputsSpec => []AlertsFanOut
<1> DEFINE Fixed == module = "routing" => input \in RoutingInputs
<1>1. InputsInit => Fixed
  BY DEF InputsInit
<1>2. Fixed /\ [InputsNext]_<<module, input>> => Fixed'
  BY DEF InputsNext
<1>3. Fixed => AlertsFanOut
  <2> SUFFICES ASSUME Fixed, module = "routing"
               PROVE  /\ \A slug \in Runbooks, severity \in {<<"critical">>, <<"info">>} :
                           FansOut(input.before, input.list, input.dests, input.after, [runbook |-> slug, severity |-> severity])
                      /\ \A slug \in Runbooks, severity \in {"", "info", "all", "bad"} :
                           \A extra \in {<<>>, <<Arg("alertname", <<"x">>, TRUE)>>, <<Arg("severity", <<"x">>, TRUE), Arg("", <<"x">>, TRUE)>>,
                                         <<Arg("runbook", <<"x">>, TRUE)>>} :
                             TestsTellTheTruth(input.list, input.dests, slug, severity, extra)
    BY Zenon DEF AlertsFanOut
  <2>1. /\ ListOK(input.list) /\ <<"default">> \notin NamesOf(input.list)
        /\ input.dests \in Seq(Dests)
        /\ OwnOK(input.before, input.list) /\ OwnOK(input.after, input.list)
    BY RoutingAssumption DEF RoutingAssumption, OwnOK
  <2>2. ASSUME NEW slug, NEW severity
        PROVE  FansOut(input.before, input.list, input.dests, input.after, [runbook |-> slug, severity |-> severity])
    <3> DEFINE labels == [runbook |-> slug, severity |-> severity]
    <3>1. "runbook" \in DOMAIN labels
      OBVIOUS
    <3> HIDE DEF labels
    <3>2. FansOut(input.before, input.list, input.dests, input.after, labels)
      BY <2>1, <3>1, Fans, Zenon
    <3> QED BY <3>2 DEF labels
  <2>3. ASSUME NEW slug \in Runbooks, NEW severity,
               NEW extra \in {<<>>, <<Arg("alertname", <<"x">>, TRUE)>>, <<Arg("severity", <<"x">>, TRUE), Arg("", <<"x">>, TRUE)>>,
                              <<Arg("runbook", <<"x">>, TRUE)>>}
        PROVE  TestsTellTheTruth(input.list, input.dests, slug, severity, extra)
    <3> DEFINE a == Arg("alertname", <<"x">>, TRUE)
               b == Arg("severity", <<"x">>, TRUE)
               c == Arg("", <<"x">>, TRUE)
               d == Arg("runbook", <<"x">>, TRUE)
               S == {a, b, c, d}
    <3> HIDE DEF a, b, c, d
    <3>1. extra \in {<<>>, <<a>>, <<b, c>>, <<d>>}
      BY DEF a, b, c, d
    <3>2. extra \in Seq(S)
      <4>1. a \in S /\ b \in S /\ c \in S /\ d \in S
        OBVIOUS
      <4> HIDE DEF S
      <4>2. <<>> \in Seq(S) /\ <<a>> \in Seq(S) /\ <<b, c>> \in Seq(S) /\ <<d>> \in Seq(S)
        BY <4>1, OneIsSeq, TwoAreSeq, Zenon
      <4> QED BY <3>1, <4>2, Zenon
    <3> HIDE DEF S
    <3>3. slug # NoName
      BY NamesAssumption DEF NamesAssumption, NoName
    <3> QED BY <2>1, <3>2, <3>3, TestsTell, Zenon
  <2> QED BY <2>2, <2>3, Zenon
<1> QED BY <1>1, <1>2, <1>3, PTL DEF InputsSpec

-----------------------------------------------------------------------------
(* The receivers of a loaded configuration. *)

\* The scan of a configuration for its receivers: its state before the first line
\* and after one more.
Begun == [inReceivers |-> FALSE, names |-> {}]
After(state, line) ==
  [inReceivers |-> IF line.kind = "key" THEN line.key = "receivers:" ELSE state.inReceivers,
   names |-> state.names \cup IF state.inReceivers /\ line.kind = "name" THEN {line} ELSE {}]

\* The states of the scan of the first k lines: the witness for the function.
Scan(config, f, k) == f = [n \in 0 .. k |-> IF n = 0 THEN Begun ELSE After(f[n - 1], config[n])]

\* Every prefix of a configuration can be scanned.
LEMMA ScanExists ==
  ASSUME NEW config, NEW k \in Nat
  PROVE  \E f : Scan(config, f, k)
<1> DEFINE None == {n \in Nat : ~\E f : Scan(config, f, n)}
           m == Min(None)
<1>1. SUFFICES ASSUME None # {} PROVE FALSE
  OBVIOUS
<1>2. m \in None /\ \A n \in None : m <= n
  BY <1>1, LeastIsMin
<1>3. m # 0
  <2>1. Scan(config, [n \in 0 .. 0 |-> Begun], 0)
    BY DEF Scan
  <2> QED BY <2>1, <1>2
<1>4. PICK f : Scan(config, f, m - 1)
  <2>1. m \in Nat
    BY <1>2
  <2> HIDE DEF m
  <2>2. m - 1 \in Nat /\ ~(m <= m - 1)
    BY <1>3, <2>1
  <2>3. m - 1 \notin None
    BY <1>2, <2>2
  <2> QED BY <2>2, <2>3
<1> DEFINE g == [n \in 0 .. m |-> IF n < m THEN f[n] ELSE After(f[m - 1], config[m])]
<1>5. Scan(config, g, m)
  <2> HIDE DEF None
  <2>1. m \in Nat /\ m # 0
    BY <1>2, <1>3 DEF None
  <2> HIDE DEF m
  <2>2. f = [n \in 0 .. m - 1 |-> IF n = 0 THEN Begun ELSE After(f[n - 1], config[n])]
    BY <1>4 DEF Scan
  <2>3. ASSUME NEW n \in 0 .. m
        PROVE  g[n] = IF n = 0 THEN Begun ELSE After(g[n - 1], config[n])
    <3>1. CASE n = m
      <4>1. g[m] = After(f[m - 1], config[m]) /\ g[m - 1] = f[m - 1]
        BY <2>1
      <4> HIDE DEF g
      <4> QED BY <3>1, <2>1, <4>1
    <3>2. CASE n < m
      <4>1. n \in 0 .. m - 1 /\ g[n] = f[n]
        BY <3>2, <2>1
      <4>2. n # 0 => g[n - 1] = f[n - 1]
        BY <4>1, <2>1
      <4>3. f[n] = IF n = 0 THEN Begun ELSE After(f[n - 1], config[n])
        BY <4>1, <2>2
      <4> HIDE DEF g
      <4> QED BY <4>1, <4>2, <4>3
    <3> QED BY <3>1, <3>2, <2>1
  <2>4. g = [n \in 0 .. m |-> g[n]]
    OBVIOUS
  <2> HIDE DEF g
  <2>5. [n \in 0 .. m |-> g[n]] = [n \in 0 .. m |-> IF n = 0 THEN Begun ELSE After(g[n - 1], config[n])]
    BY <2>3, Zenon
  <2> QED BY <2>4, <2>5, Zenon DEF Scan
<1> QED BY <1>5, <1>2

\* After n lines the scan is in a receivers block.
Inside(config, n) ==
  \E j \in 1 .. n : /\ config[j].kind = "key" /\ config[j].key = "receivers:"
                    /\ \A m \in j + 1 .. n : config[m].kind # "key"

\* The names that the receivers blocks of the first n lines list.
ItemsUpTo(config, n) == {config[i] : i \in {k \in 1 .. n : config[k].kind = "name" /\ Inside(config, k - 1)}}

\* A key opens the receivers block or ends it; other lines leave it as it was.
LEMMA InsideStep ==
  ASSUME NEW config, NEW n \in Nat, n # 0
  PROVE  Inside(config, n) <=> IF config[n].kind = "key" THEN config[n].key = "receivers:" ELSE Inside(config, n - 1)
<1>1. CASE config[n].kind = "key"
  <2>1. ASSUME config[n].key = "receivers:" PROVE Inside(config, n)
    <3>1. n \in 1 .. n /\ \A m \in n + 1 .. n : config[m].kind # "key"
      OBVIOUS
    <3> QED BY <1>1, <2>1, <3>1 DEF Inside
  <2>2. ASSUME Inside(config, n) PROVE config[n].key = "receivers:"
    <3>1. PICK j \in 1 .. n : /\ config[j].kind = "key" /\ config[j].key = "receivers:"
                              /\ \A m \in j + 1 .. n : config[m].kind # "key"
      BY <2>2 DEF Inside
    <3>2. n \notin j + 1 .. n
      BY <1>1, <3>1
    <3>3. j = n
      BY <3>2
    <3> QED BY <3>1, <3>3
  <2> QED BY <1>1, <2>1, <2>2
<1>2. CASE config[n].kind # "key"
  <2>1. ASSUME Inside(config, n) PROVE Inside(config, n - 1)
    <3>1. PICK j \in 1 .. n : /\ config[j].kind = "key" /\ config[j].key = "receivers:"
                              /\ \A m \in j + 1 .. n : config[m].kind # "key"
      BY <2>1 DEF Inside
    <3>2. j # n
      BY <1>2, <3>1
    <3>3. j \in 1 .. n - 1
      BY <3>2
    <3>4. \A m \in j + 1 .. n - 1 : config[m].kind # "key"
      BY <3>1
    <3> QED BY <3>1, <3>3, <3>4 DEF Inside
  <2>2. ASSUME Inside(config, n - 1) PROVE Inside(config, n)
    <3>1. PICK j \in 1 .. n - 1 : /\ config[j].kind = "key" /\ config[j].key = "receivers:"
                                  /\ \A m \in j + 1 .. n - 1 : config[m].kind # "key"
      BY <2>2 DEF Inside
    <3>2. j \in 1 .. n
      OBVIOUS
    <3>3. ASSUME NEW m \in j + 1 .. n PROVE config[m].kind # "key"
      <4>1. CASE m = n
        BY <1>2, <4>1
      <4>2. CASE m # n
        <5>1. m \in j + 1 .. n - 1
          BY <4>2
        <5> QED BY <3>1, <5>1
      <4> QED BY <4>1, <4>2
    <3> QED BY <3>1, <3>2, <3>3 DEF Inside
  <2> QED BY <1>2, <2>1, <2>2
<1> QED BY <1>1, <1>2

\* What the scan has gathered after n lines.
Gathered(config, f, n) == (f[n].inReceivers <=> Inside(config, n)) /\ f[n].names = ItemsUpTo(config, n)

\* One more line keeps that.
LEMMA GatheredStep ==
  ASSUME NEW config, NEW n \in Nat, n # 0, NEW f, f[n] = After(f[n - 1], config[n]), Gathered(config, f, n - 1)
  PROVE  Gathered(config, f, n)
<1> DEFINE line == config[n]
           state == f[n - 1]
           new == IF state.inReceivers /\ line.kind = "name" THEN {line} ELSE {}
           inside == IF line.kind = "key" THEN line.key = "receivers:" ELSE state.inReceivers
           names == state.names \cup new
           next == f[n]
<1>0. next = [inReceivers |-> inside, names |-> names]
  BY Zenon DEF After
<1> HIDE DEF inside, names, next
<1>1. f[n].inReceivers = IF line.kind = "key" THEN line.key = "receivers:" ELSE state.inReceivers
  <2>1. next.inReceivers = inside
    BY <1>0, Zenon
  <2> QED BY <2>1, Zenon DEF next, inside
<1>2. f[n].names = state.names \cup new
  <2>1. next.names = names
    BY <1>0, Zenon
  <2> QED BY <2>1, Zenon DEF next, names
<1>3. (state.inReceivers <=> Inside(config, n - 1)) /\ state.names = ItemsUpTo(config, n - 1)
  BY Zenon DEF Gathered
<1>4. f[n].inReceivers <=> Inside(config, n)
  <2>1. Inside(config, n) <=> IF line.kind = "key" THEN line.key = "receivers:" ELSE Inside(config, n - 1)
    BY InsideStep, Zenon
  <2> HIDE DEF line, state
  <2> QED BY <1>1, <1>3, <2>1, Zenon
<1>5. ItemsUpTo(config, n) = ItemsUpTo(config, n - 1) \cup new
  <2> DEFINE Hits(k) == {i \in 1 .. k : config[i].kind = "name" /\ Inside(config, i - 1)}
  <2>1. new = IF Inside(config, n - 1) /\ line.kind = "name" THEN {line} ELSE {}
    <3> HIDE DEF line, state
    <3> QED BY <1>3, Zenon
  <2> HIDE DEF new
  <2>2. CASE Inside(config, n - 1) /\ line.kind = "name"
    <3>1. Hits(n) = Hits(n - 1) \cup {n}
      BY <2>2
    <3> HIDE DEF Hits
    <3>2. {config[i] : i \in Hits(n)} = {config[i] : i \in Hits(n - 1)} \cup {line}
      BY <3>1
    <3> QED BY <2>1, <2>2, <3>2 DEF ItemsUpTo, Hits
  <2>3. CASE ~(Inside(config, n - 1) /\ line.kind = "name")
    <3>1. Hits(n) = Hits(n - 1)
      BY <2>3
    <3> HIDE DEF Hits
    <3>2. {config[i] : i \in Hits(n)} = {config[i] : i \in Hits(n - 1)}
      BY <3>1
    <3> QED BY <2>1, <2>3, <3>2 DEF ItemsUpTo, Hits
  <2> QED BY <2>2, <2>3
<1> HIDE DEF new, state
<1>6. f[n].names = ItemsUpTo(config, n)
  BY <1>2, <1>3, <1>5
<1> QED BY <1>4, <1>6, Zenon DEF Gathered

\* extractAMReceiverNames finds the receivers that are listed, and no others.
LEMMA ExtractIsListed ==
  ASSUME NEW S, NEW config \in Seq(S)
  PROVE  extractAMReceiverNames(config) = Listed(config)
<1> DEFINE k == Len(config)
           f == CHOOSE g : Scan(config, g, k)
           Bad == {n \in 0 .. k : ~Gathered(config, f, n)}
<1>1. k \in Nat /\ DOMAIN config = 1 .. k
  OBVIOUS
<1>2. Scan(config, f, k)
  BY <1>1, ScanExists, Zenon
<1>3. extractAMReceiverNames(config) = f[k].names
  BY Zenon DEF extractAMReceiverNames, Scan, Begun, After
<1> HIDE DEF f, k
<1>4. ASSUME NEW n \in 0 .. k
      PROVE  f[n] = IF n = 0 THEN Begun ELSE After(f[n - 1], config[n])
  <2>1. f = [i \in 0 .. k |-> IF i = 0 THEN Begun ELSE After(f[i - 1], config[i])]
    BY <1>2 DEF Scan
  <2> QED BY <2>1, Zenon
<1>5. Bad = {}
  <2>1. SUFFICES ASSUME Bad # {} PROVE FALSE
    OBVIOUS
  <2>2. PICK m \in Bad : \A n \in Bad : m <= n
    <3>1. Bad \in SUBSET Nat
      BY <1>1
    <3> HIDE DEF Bad
    <3> QED BY <2>1, <3>1, LeastIsMin
  <2>3. m \in 0 .. k /\ ~Gathered(config, f, m)
    OBVIOUS
  <2>4. CASE m = 0
    <3>1. f[0] = Begun
      BY <1>4, <2>3, <2>4
    <3>2. ~Inside(config, 0)
      BY DEF Inside
    <3>3. ItemsUpTo(config, 0) = {}
      BY DEF ItemsUpTo
    <3>4. ~Begun.inReceivers /\ Begun.names = {}
      BY DEF Begun
    <3> QED BY <2>3, <2>4, <3>1, <3>2, <3>3, <3>4, Zenon DEF Gathered
  <2>5. CASE m # 0
    <3>1. m - 1 \in 0 .. k /\ ~(m <= m - 1) /\ m \in Nat
      BY <1>1, <2>3, <2>5
    <3>2. Gathered(config, f, m - 1)
      BY <2>2, <3>1
    <3>3. f[m] = After(f[m - 1], config[m])
      BY <1>4, <2>3, <2>5
    <3> QED BY <2>3, <2>5, <3>1, <3>2, <3>3, GatheredStep
  <2> QED BY <2>4, <2>5
<1>6. Gathered(config, f, k)
  <2>1. k \in 0 .. k
    BY <1>1
  <2> QED BY <1>5, <2>1
<1>7. ItemsUpTo(config, k) = Listed(config)
  BY <1>1 DEF ItemsUpTo, Listed, Inside
<1> QED BY <1>3, <1>6, <1>7, Zenon DEF Gathered

-----------------------------------------------------------------------------
(* What page and report say. *)

\* What an Alertmanager has, if it answered.
Has(answers, url) == IF url # NoURL /\ answers[url].outcome = "ok" THEN answers[url].receivers ELSE {}

\* An answer that is fine returns text which stands for its receivers.
AnswerOK(answer) == answer.outcome = "ok" => answer.text \in Seq(ToSet(answer.text)) /\ answer.receivers = Listed(answer.text)

\* What is made of an answer is what it has.
LEMMA StatusHas ==
  ASSUME NEW answers, NEW url, AnswerOK(answers[url])
  PROVE  LET entry == doValidateAMStatus(url, answers[url])
         IN /\ extractAMReceiverNames(entry.config) = Has(answers, url)
            /\ entry.ok <=> url # NoURL /\ answers[url].outcome \in {"ok", "garbage"}
            /\ Has(answers, url) # {} => entry.ok
<1> DEFINE answer == answers[url]
           ok == url # NoURL /\ answer.outcome \in {"ok", "garbage"}
           config == IF ok /\ answer.outcome = "ok" THEN answer.text ELSE NoConfig
           entry == doValidateAMStatus(url, answer)
           has == Has(answers, url)
<1>1. entry = [ok |-> ok, config |-> config]
  BY Zenon DEF doValidateAMStatus
<1>2. has = IF url # NoURL /\ answer.outcome = "ok" THEN answer.receivers ELSE {}
  BY Zenon DEF Has
<1> HIDE DEF entry, ok, config, has
<1>3. entry.config = config
  BY <1>1, Zenon
<1>4. entry.ok <=> ok
  BY <1>1, Zenon
<1>5. CASE url # NoURL /\ answer.outcome = "ok"
  <2>1. ok
    BY <1>5, Zenon DEF ok
  <2>2. config = answer.text
    BY <1>5, <2>1, Zenon DEF config
  <2>3. has = answer.receivers
    BY <1>2, <1>5, Zenon
  <2>4. answer.text \in Seq(ToSet(answer.text)) /\ answer.receivers = Listed(answer.text)
    BY <1>5, Zenon DEF AnswerOK
  <2>5. extractAMReceiverNames(answer.text) = Listed(answer.text)
    BY <2>4, ExtractIsListed, Zenon
  <2>6. extractAMReceiverNames(entry.config) = has /\ entry.ok
    BY <1>3, <1>4, <2>1, <2>2, <2>3, <2>4, <2>5, Zenon
  <2> QED BY <1>4, <2>6, Zenon DEF ok, entry, has
<1>6. CASE ~(url # NoURL /\ answer.outcome = "ok")
  <2>1. config = NoConfig /\ has = {}
    BY <1>2, <1>6, Zenon DEF config, ok
  <2>2. NoConfig \in Seq({})
    BY DEF NoConfig
  <2>3. Listed(NoConfig) = {}
    BY DEF Listed, NoConfig
  <2>4. extractAMReceiverNames(NoConfig) = {}
    BY <2>2, <2>3, ExtractIsListed
  <2>5. extractAMReceiverNames(entry.config) = has /\ has = {}
    BY <1>3, <2>1, <2>4, Zenon
  <2> QED BY <1>4, <2>5, Zenon DEF ok, entry, has
<1> QED BY <1>5, <1>6, Zenon

\* The entries of a name, as receiverLoadedIn sees them.
LEMMA LoadedIs ==
  ASSUME NEW config, NEW name
  PROVE  LET found == receiverLoadedIn(config, name)
             named == {n \in extractAMReceiverNames(config) : n.name = name}
         IN /\ found.loaded <=> named # {}
            /\ found.viaOperator <=> named # {} /\ \A n \in named : n.prefix # NoPrefix
<1> DEFINE items == extractAMReceiverNames(config)
           named == {n \in items : n.name = name}
           under == {canonicalReceiverName(n) : n \in items}
           entries == {c \in under : c.name = name}
           found == receiverLoadedIn(config, name)
           loaded == entries # {}
           via == entries # {} /\ \A c \in entries : c.viaOperator
<1>1. found = [loaded |-> loaded, viaOperator |-> via]
  BY Zenon DEF receiverLoadedIn
<1> HIDE DEF items
<1>2. \A n : canonicalReceiverName(n).name = n.name
  BY DEF canonicalReceiverName
<1>3. ASSUME NEW n PROVE canonicalReceiverName(n).viaOperator <=> n.prefix # NoPrefix
  <2> DEFINE prefixed == n.prefix # NoPrefix
             named1 == n.name
             c == canonicalReceiverName(n)
  <2>1. c = [name |-> named1, viaOperator |-> prefixed]
    BY Zenon DEF canonicalReceiverName
  <2> HIDE DEF prefixed, named1, c
  <2>2. c.viaOperator = prefixed
    BY <2>1, Zenon
  <2> QED BY <2>2, Zenon DEF c, prefixed
<1>4. \A n \in named : canonicalReceiverName(n) \in entries
  BY <1>2
<1>5. \A c \in entries : \E n \in named : c = canonicalReceiverName(n)
  BY <1>2
<1> HIDE DEF entries, named
<1>6. loaded <=> named # {}
  BY <1>4, <1>5
<1>7. via <=> named # {} /\ \A n \in named : n.prefix # NoPrefix
  BY <1>3, <1>4, <1>5, <1>6, Zenon
<1> HIDE DEF loaded, via, found
<1>8. found.loaded = loaded /\ found.viaOperator = via
  BY <1>1, Zenon
<1>9. (found.loaded <=> named # {}) /\ (found.viaOperator <=> named # {} /\ \A n \in named : n.prefix # NoPrefix)
  BY <1>6, <1>7, <1>8, Zenon
<1> QED BY <1>9, Zenon DEF found, named, items

\* The row of a receiver: whose it is, and how it is.
LEMMA RowIs ==
  ASSUME NEW c, NEW answers
  PROVE  LET entry == doValidateAMStatus(c.am, answers[c.am])
             found == receiverLoadedIn(entry.config, c.name)
             row == Row(c, answers)
         IN /\ row.name = c.name /\ row.dest = c.dest /\ row.am = c.am
            /\ row.health = IF c.am = NoURL THEN "no URL"
                            ELSE IF ~entry.ok THEN "unreachable"
                            ELSE IF ~found.loaded THEN "not in YAML"
                            ELSE IF found.viaOperator THEN "OK via operator" ELSE "OK"
<1> DEFINE entry == doValidateAMStatus(c.am, answers[c.am])
           found == receiverLoadedIn(entry.config, c.name)
           ok == entry.ok
           loaded == entry.ok /\ found.loaded
           via == entry.ok /\ found.viaOperator
           name == c.name
           dest == c.dest
           am == c.am
           core == [name |-> name, dest |-> dest, am |-> am, reachable |-> ok, loaded |-> loaded, viaOperator |-> via]
           health == computeHealth(core)
           more == [health |-> health]
           row == Row(c, answers)
<1>1. row = Over(core, more)
  BY Zenon DEF Row
<1> HIDE DEF name, dest, am, ok, loaded, via
<1>2. /\ core.name = name /\ core.dest = dest /\ core.am = am
      /\ core.reachable = ok /\ core.loaded = loaded /\ core.viaOperator = via
  BY Zenon
<1>3. DOMAIN core = {"name", "dest", "am", "reachable", "loaded", "viaOperator"}
  OBVIOUS
<1> HIDE DEF core
<1>4. health = IF am = NoURL THEN "no URL"
               ELSE IF ~ok THEN "unreachable"
               ELSE IF ~loaded THEN "not in YAML"
               ELSE IF via THEN "OK via operator" ELSE "OK"
  BY <1>2, Zenon DEF computeHealth
<1> HIDE DEF health
<1>5. DOMAIN more = {"health"} /\ more["health"] = health
  OBVIOUS
<1> HIDE DEF more
<1>6. /\ \A x \in DOMAIN core : Over(core, more)[x] = core[x]
      /\ \A x \in DOMAIN more : x \notin DOMAIN core => Over(core, more)[x] = more[x]
  BY OverIs, Zenon
<1> DEFINE over == Over(core, more)
<1> HIDE DEF over
<1>7. over["name"] = core["name"] /\ over["dest"] = core["dest"] /\ over["am"] = core["am"] /\ over["health"] = health
  BY <1>3, <1>5, <1>6 DEF over
<1>8. over.name = core.name /\ over.dest = core.dest /\ over.am = core.am /\ over.health = health
  BY <1>7
<1>9. row.name = name /\ row.dest = dest /\ row.am = am /\ row.health = health
  BY <1>1, <1>2, <1>8, Zenon DEF over
<1> QED BY <1>4, <1>9, Zenon DEF row, name, dest, am, ok, loaded, via, entry, found

\* A receiver's row and its part of the report agree with its Alertmanager.
LEMMA RowAgrees ==
  ASSUME NEW c, NEW answers, AnswerOK(answers[c.am])
  PROVE  LET row == Row(c, answers)
             report == ReportRow(c, NoTests, answers[c.am], TRUE, 0)
             named == {n \in Has(answers, c.am) : n.name = c.name}
         IN /\ row.health \in Healthy <=> named # {}
            /\ row.health = "OK" <=> \E n \in named : n.prefix = NoPrefix
            /\ report.loaded = "passed" <=> named # {}
            /\ report.reach = "passed" <=> row.health \notin {"no URL", "unreachable"}
<1> DEFINE entry == doValidateAMStatus(c.am, answers[c.am])
           found == receiverLoadedIn(entry.config, c.name)
           has == Has(answers, c.am)
           named == {n \in has : n.name = c.name}
           health == Row(c, answers).health
           report == ReportRow(c, NoTests, answers[c.am], TRUE, 0)
           ok == entry.ok
           loaded == found.loaded
           via == found.viaOperator
           reach == Verdict(ok)
           verdict == IF ok THEN Verdict(loaded) ELSE "skipped"
           plain == \E n \in named : n.prefix = NoPrefix
<1>1. /\ extractAMReceiverNames(entry.config) = has /\ (has # {} => ok)
      /\ c.am = NoURL => ~ok
  BY StatusHas, Zenon
<1>2. (loaded <=> named # {}) /\ (via <=> named # {} /\ \A n \in named : n.prefix # NoPrefix)
  <2> DEFINE there == {n \in extractAMReceiverNames(entry.config) : n.name = c.name}
  <2>1. (loaded <=> there # {}) /\ (via <=> there # {} /\ \A n \in there : n.prefix # NoPrefix)
    BY LoadedIs, Zenon
  <2>2. there = named
    BY <1>1, Zenon
  <2> HIDE DEF there, named, loaded, via
  <2> QED BY <2>1, <2>2
<1>3. named # {} => ok
  BY <1>1
<1>4. via <=> named # {} /\ ~plain
  <2> HIDE DEF via, named, has
  <2> QED BY <1>2, Zenon
<1>5. health = IF c.am = NoURL THEN "no URL"
               ELSE IF ~ok THEN "unreachable"
               ELSE IF ~loaded THEN "not in YAML"
               ELSE IF via THEN "OK via operator" ELSE "OK"
  BY RowIs, Zenon
<1>6. report.reach = reach /\ report.loaded = verdict
  <2> DEFINE name == c.name
             webhook == IF NoTests.webhookTest THEN Verdict(TRUE) ELSE "skipped"
             end == IF NoTests.endToEnd /\ ok THEN fireSyntheticMatrix(expandSeverityForFire(NoTests.severity), 0) ELSE "skipped"
  <2>1. report = [name |-> name, reach |-> reach, loaded |-> verdict, webhook |-> webhook, endToEnd |-> end]
    BY Zenon DEF ReportRow
  <2> HIDE DEF name, webhook, end, reach, verdict, report
  <2> QED BY <2>1, Zenon
<1>7. reach = IF ok THEN "passed" ELSE "failed"
  BY Zenon DEF Verdict
<1>8. verdict = IF ok THEN IF loaded THEN "passed" ELSE "failed" ELSE "skipped"
  BY Zenon DEF Verdict
<1>9. "passed" # "failed" /\ "passed" # "skipped" /\ Healthy = {"OK", "OK via operator"}
  BY Zenon DEF Healthy
<1>10. /\ "no URL" # "OK" /\ "no URL" # "OK via operator" /\ "unreachable" # "OK" /\ "unreachable" # "OK via operator"
       /\ "not in YAML" # "OK" /\ "not in YAML" # "OK via operator" /\ "OK via operator" # "OK"
       /\ "not in YAML" # "no URL" /\ "not in YAML" # "unreachable" /\ "OK" # "no URL" /\ "OK" # "unreachable"
       /\ "OK via operator" # "no URL" /\ "OK via operator" # "unreachable"
  BY Zenon
<1>11. plain => named # {}
  BY Zenon
<1> DEFINE some == named # {}
           none == c.am = NoURL
<1>12. (loaded <=> some) /\ (via <=> some /\ ~plain) /\ (some => ok) /\ (plain => some) /\ (none => ~ok)
  BY <1>1, <1>2, <1>3, <1>4, <1>11, Zenon
<1> HIDE DEF health, ok, loaded, via, reach, verdict, plain, some, none, report
<1>13. /\ health \in Healthy <=> some
       /\ health = "OK" <=> plain
       /\ verdict = "passed" <=> some
       /\ reach = "passed" <=> health \notin {"no URL", "unreachable"}
  <2>1. health = IF none THEN "no URL"
               ELSE IF ~ok THEN "unreachable"
               ELSE IF ~loaded THEN "not in YAML"
               ELSE IF via THEN "OK via operator" ELSE "OK"
    BY <1>5, Zenon DEF none
  <2>2. CASE none
    <3>1. health = "no URL" /\ ~ok /\ ~some /\ ~plain /\ ~loaded
      BY <1>12, <2>1, <2>2, Zenon
    <3> QED BY <1>7, <1>8, <1>9, <1>10, <3>1, Zenon
  <2>3. CASE ~none /\ ~ok
    <3>1. health = "unreachable" /\ ~some /\ ~plain /\ ~loaded
      BY <1>12, <2>1, <2>3, Zenon
    <3> QED BY <1>7, <1>8, <1>9, <1>10, <2>3, <3>1, Zenon
  <2>4. CASE ~none /\ ok /\ ~loaded
    <3>1. health = "not in YAML" /\ ~some /\ ~plain
      BY <1>12, <2>1, <2>4, Zenon
    <3> QED BY <1>7, <1>8, <1>9, <1>10, <2>4, <3>1, Zenon
  <2>5. CASE ~none /\ ok /\ loaded /\ via
    <3>1. health = "OK via operator" /\ some /\ ~plain
      BY <1>12, <2>1, <2>5, Zenon
    <3> QED BY <1>7, <1>8, <1>9, <1>10, <2>5, <3>1, Zenon
  <2>6. CASE ~none /\ ok /\ loaded /\ ~via
    <3>1. health = "OK" /\ some /\ plain
      BY <1>12, <2>1, <2>6, Zenon
    <3> QED BY <1>7, <1>8, <1>9, <1>10, <2>6, <3>1, Zenon
  <2> QED BY <2>2, <2>3, <2>4, <2>5, <2>6, Zenon
<1> QED BY <1>6, <1>13, Zenon DEF health, report, some, plain, named, has

\* validate reports on the receivers of its channel.
LEMMA ReportsAreHere ==
  ASSUME NEW configs, NEW dest, NEW answers
  PROVE  {r.name : r \in validateReport(configs, NoName, dest, NoTests, answers)} = NamesOf(Here(configs, dest))
<1> DEFINE here == Here(configs, dest)
           row(c) == ReportRow(c, NoTests, answers[c.am], TRUE, Len(expandSeverityForFire(NoTests.severity)))
           report == validateReport(configs, NoName, dest, NoTests, answers)
<1>1. ~NoTests.endToEnd
  BY Zenon DEF NoTests
<1>2. handleValidate(configs, NoName, dest) = ToSet(here)
  <2>1. NoName \in {NoName, <<"all">>} /\ NoName \notin DOMAIN Category
    BY NamesAssumption DEF NamesAssumption, NoName
  <2> QED BY <2>1, Zenon DEF handleValidate
<1>3. report = {row(c) : c \in ToSet(here)}
  BY <1>1, <1>2, Zenon DEF validateReport
<1>4. ASSUME NEW c PROVE row(c).name = c.name
  BY Zenon DEF ReportRow
<1> HIDE DEF report, row, here
<1>5. ASSUME NEW n \in {r.name : r \in report} PROVE n \in NamesOf(here)
  <2>1. PICK c \in ToSet(here) : n = c.name
    BY <1>3, <1>4
  <2> QED BY <2>1 DEF NamesOf, ToSet
<1>6. ASSUME NEW n \in NamesOf(here) PROVE n \in {r.name : r \in report}
  <2>1. PICK c \in ToSet(here) : n = c.name
    BY DEF NamesOf, ToSet
  <2>2. row(c) \in report /\ row(c).name = n
    BY <1>3, <1>4, <2>1
  <2> QED BY <2>2
<1>7. {r.name : r \in report} = NamesOf(here)
  BY <1>5, <1>6
<1> QED BY <1>7 DEF report, here

\* What is loaded and no receiver bound there accounts for is drift.
Unaccounted(configs, answers, url) ==
  {n \in Has(answers, url) : ~\E c \in ToSet(configs) : c.am = url /\ c.name = n.name}

\* amDrift reports just that.
LEMMA DriftIs ==
  ASSUME NEW configs, NEW answers, NEW url, AnswerOK(answers[url])
  PROVE  amDrift(configs, answers, url) = Unaccounted(configs, answers, url)
<1> DEFINE has == Has(answers, url)
           bound == {c.name : c \in {d \in ToSet(configs) : d.am = url}}
<1>1. extractAMReceiverNames(doValidateAMStatus(url, answers[url]).config) = has
  BY StatusHas, Zenon
<1>2. \A n : canonicalReceiverName(n).name = n.name
  BY DEF canonicalReceiverName
<1>3. amDrift(configs, answers, url) = {n \in has : canonicalReceiverName(n).name \notin bound}
  BY <1>1, Zenon DEF amDrift
<1> HIDE DEF has
<1>4. \A n : n.name \notin bound <=> ~\E c \in ToSet(configs) : c.am = url /\ c.name = n.name
  OBVIOUS
<1> HIDE DEF bound
<1>5. amDrift(configs, answers, url) = {n \in has : ~\E c \in ToSet(configs) : c.am = url /\ c.name = n.name}
  BY <1>2, <1>3, <1>4
<1> QED BY <1>5, Zenon DEF has, Unaccounted

-----------------------------------------------------------------------------
(* The groups of the page. *)

\* Grouped by whatever, every receiver is in the group of its key and in no other.
InOne(groups, name) == \E g \in groups : {h \in groups : name \in {r.name : r \in h.receivers}} = {g}

\* groupInventory groups like that.
LEMMA InOneGroup ==
  ASSUME NEW configs, UniqueNames(configs), NEW answers, NEW mode, NEW c \in ToSet(configs)
  PROVE  InOne(groupInventory(Rows(configs, answers), mode), c.name)
<1> DEFINE rows == Rows(configs, answers)
           row == Row(c, answers)
           Group(key) == [label |-> key, receivers |-> {r \in rows : groupKey(r, mode) = key}]
           groups == groupInventory(rows, mode)
           g == Group(groupKey(row, mode))
<1>1. groups = {Group(key) : key \in {groupKey(r, mode) : r \in rows}}
  BY Zenon DEF groupInventory
<1>2. row \in rows /\ row.name = c.name
  BY RowIs, Zenon DEF Rows
<1>3. ASSUME NEW r \in rows, r.name = c.name PROVE r = row
  <2>1. PICK d \in ToSet(configs) : r = Row(d, answers)
    BY DEF Rows
  <2>2. r.name = d.name
    BY <2>1, RowIs, Zenon
  <2>3. c = d
    BY <1>3, <2>2, NameIsOne
  <2> QED BY <2>1, <2>3
<1>4. ASSUME NEW key PROVE Group(key).receivers = {r \in rows : groupKey(r, mode) = key}
  <2> DEFINE some == {r \in rows : groupKey(r, mode) = key}
             whole == Group(key)
  <2>1. whole = [label |-> key, receivers |-> some]
    BY Zenon
  <2> HIDE DEF whole, some
  <2>2. whole.receivers = some
    BY <2>1
  <2> QED BY <2>2, Zenon DEF some, whole
<1> HIDE DEF rows, row, Group, groups
<1>5. g \in groups
  BY <1>1, <1>2
<1>6. c.name \in {r.name : r \in g.receivers}
  <2>1. row \in g.receivers
    BY <1>2, <1>4
  <2> HIDE DEF g
  <2> QED BY <1>2, <2>1
<1>7. ASSUME NEW h \in groups, c.name \in {r.name : r \in h.receivers} PROVE h = g
  <2>1. PICK key : h = Group(key)
    BY <1>1
  <2>2. PICK r \in h.receivers : r.name = c.name
    BY <1>7
  <2>3. r \in rows /\ groupKey(r, mode) = key
    BY <1>4, <2>1, <2>2
  <2>4. r = row
    BY <1>3, <2>2, <2>3
  <2> QED BY <2>1, <2>3, <2>4
<1> HIDE DEF g
<1>8. {h \in groups : c.name \in {r.name : r \in h.receivers}} = {g}
  BY <1>5, <1>6, <1>7
<1> QED BY <1>5, <1>8, Zenon DEF groups, rows, InOne

\* Grouped by channel, there are as many groups as channel names.
LEMMA GroupPerChannel ==
  ASSUME NEW S, NEW configs \in Seq(S), NEW answers
  PROVE  Cardinality(groupInventory(Rows(configs, answers), "channel")) = countDistinctChannels(configs)
<1> DEFINE rows == Rows(configs, answers)
           Members(key) == {r \in rows : groupKey(r, "channel") = key}
           Group(key) == [label |-> key, receivers |-> Members(key)]
           groups == groupInventory(rows, "channel")
           channels == {c.dest.channel : c \in ToSet(configs)}
           f == [key \in channels |-> Group(key)]
<1>1. groups = {Group(key) : key \in {groupKey(r, "channel") : r \in rows}}
  BY Zenon DEF groupInventory
<1>2. {groupKey(r, "channel") : r \in rows} = channels
  <2>1. ASSUME NEW r PROVE groupKey(r, "channel") = r.dest.channel
    <3>1. "channel" # "team" /\ "channel" # "am"
      OBVIOUS
    <3> QED BY <3>1, Zenon DEF groupKey
  <2>2. ASSUME NEW c PROVE Row(c, answers).dest = c.dest
    BY RowIs, Zenon
  <2>3. rows = {Row(c, answers) : c \in ToSet(configs)}
    BY Zenon DEF Rows
  <2> HIDE DEF rows
  <2>4. ASSUME NEW k \in {groupKey(r, "channel") : r \in rows} PROVE k \in channels
    <3>1. PICK r \in rows : k = groupKey(r, "channel")
      BY Zenon
    <3>2. PICK c \in ToSet(configs) : r = Row(c, answers)
      BY <2>3
    <3>3. k = c.dest.channel
      BY <2>1, <2>2, <3>1, <3>2, Zenon
    <3> QED BY <3>3
  <2>5. ASSUME NEW k \in channels PROVE k \in {groupKey(r, "channel") : r \in rows}
    <3>1. PICK c \in ToSet(configs) : k = c.dest.channel
      OBVIOUS
    <3>2. Row(c, answers) \in rows
      BY <2>3
    <3>3. groupKey(Row(c, answers), "channel") = k
      BY <2>1, <2>2, <3>1, Zenon
    <3> QED BY <3>2, <3>3, Zenon
  <2> HIDE DEF channels
  <2> QED BY <2>4, <2>5
<1>3. IsFiniteSet(channels)
  <2> DEFINE ch == [c \in ToSet(configs) |-> c.dest.channel]
  <2>1. \A c \in ToSet(configs) : ch[c] = c.dest.channel
    OBVIOUS
  <2> HIDE DEF ch
  <2>2. IsFiniteSet({ch[c] : c \in ToSet(configs)})
    BY ImagesAreFinite
  <2>3. {ch[c] : c \in ToSet(configs)} = channels
    BY <2>1
  <2> QED BY <2>2, <2>3
<1>4. countDistinctChannels(configs) = Cardinality(channels)
  BY Zenon DEF countDistinctChannels
<1> HIDE DEF rows, groups, channels, Members
<1>5. \A key \in channels : f[key].label = key
  OBVIOUS
<1>6. \A key \in channels : f[key] = Group(key)
  OBVIOUS
<1> HIDE DEF Group
<1>7. groups = {Group(key) : key \in channels}
  BY <1>1, <1>2
<1>8. DOMAIN f = channels /\ f \in [channels -> groups]
  BY <1>6, <1>7
<1> HIDE DEF f
<1>9. f \in Injection(channels, groups)
  BY <1>5, <1>8 DEF Injection, IsInjective
<1>10. f \in Surjection(channels, groups)
  BY <1>6, <1>7, <1>8 DEF Surjection
<1>11. Cardinality(groups) = Cardinality(channels)
  BY <1>3, <1>9, <1>10, FS_Surjection
<1> QED BY <1>4, <1>11 DEF groups, rows

\* Page, report and Alertmanager agree.
LEMMA ChecksDoAgree ==
  ASSUME NEW S, NEW configs \in Seq(S), UniqueNames(configs), NEW answers,
         \A c \in ToSet(configs) : c.am \in DOMAIN answers,
         \A url \in DOMAIN answers : AnswerOK(answers[url])
  PROVE  ChecksAgree(configs, answers)
<1> DEFINE groups(mode) == groupInventory(Rows(configs, answers), mode)
<1>1. ASSUME NEW c \in ToSet(configs)
      PROVE  LET row == Row(c, answers)
                 report == ReportRow(c, NoTests, answers[c.am], TRUE, 0)
                 named == {n \in Has(answers, c.am) : n.name = c.name}
             IN /\ row.health \in Healthy <=> named # {}
                /\ row.health = "OK" <=> \E n \in named : n.prefix = NoPrefix
                /\ report.loaded = "passed" <=> named # {}
                /\ report.reach = "passed" <=> row.health \notin {"no URL", "unreachable"}
  <2>1. AnswerOK(answers[c.am])
    BY Zenon
  <2> QED BY <2>1, RowAgrees, Zenon
<1>2. \A dest \in {c.dest : c \in ToSet(configs)} :
        {r.name : r \in validateReport(configs, NoName, dest, NoTests, answers)} = NamesOf(Here(configs, dest))
  BY ReportsAreHere, Zenon
<1>3. \A mode \in {"channel", "team", "am"} :
        /\ \A c \in ToSet(configs) : InOne(groups(mode), c.name)
        /\ mode = "channel" => Cardinality(groups(mode)) = countDistinctChannels(configs)
  <2>1. ASSUME NEW mode, NEW c \in ToSet(configs)
        PROVE  InOne(groups(mode), c.name)
    BY InOneGroup, Zenon
  <2>2. Cardinality(groups("channel")) = countDistinctChannels(configs)
    BY GroupPerChannel, Zenon
  <2> HIDE DEF groups
  <2> QED BY <2>1, <2>2, Zenon
<1>4. \A url \in DOMAIN answers :
        amDrift(configs, answers, url) = Unaccounted(configs, answers, url)
  <2>1. ASSUME NEW url \in DOMAIN answers
        PROVE  amDrift(configs, answers, url) = Unaccounted(configs, answers, url)
    <3>1. AnswerOK(answers[url])
      BY Zenon
    <3> QED BY <3>1, DriftIs, Zenon
  <2> QED BY <2>1, Zenon
<1> QED BY <1>1, <1>2, <1>3, <1>4, Zenon DEF ChecksAgree, Has, InOne, Unaccounted

-----------------------------------------------------------------------------
(* The dropdowns of the route tester. *)

\* What the route tester calls a receiver by.
Slug(c) == receiverBaseSlug(c.name)

\* The channels with a receiver of some runbooks, in one team or in any.
In(configs, slugs, team) ==
  {c.dest.channel : c \in {d \in ToSet(configs) : Slug(d) \in slugs /\ team \in {NoFilter, d.dest.team}}}

\* What a channel is tested with is what it has of the runbooks.
LEMMA TestableIn ==
  ASSUME NEW S, NEW configs \in Seq(S), \A c \in ToSet(configs) : c.dest.channel # NoFilter,
         NEW slugs, NEW team
  PROVE  {ch \in {c.dest.channel : c \in ToSet(configs)} :
            runInventoryWebhookTest(slugs, filterConfigsByChannel(configs, team, ch)) # {}}
           = In(configs, slugs, team)
<1> DEFINE all == {c.dest.channel : c \in ToSet(configs)}
           Found(ch) == runInventoryWebhookTest(slugs, filterConfigsByChannel(configs, team, ch))
<1>1. ASSUME NEW ch \in all
      PROVE  Found(ch) = {c \in ToSet(configs) : Slug(c) \in slugs /\ team \in {NoFilter, c.dest.team} /\ c.dest.channel = ch}
  <2> DEFINE some == {c \in ToSet(configs) : team \in {NoFilter, c.dest.team} /\ ch \in {NoFilter, c.dest.channel}}
             kept == Only(configs, some)
  <2>1. ToSet(kept) = some
    <3>1. ToSet(kept) = ToSet(configs) \cap some
      <4> HIDE DEF some
      <4> QED BY OnlyKeeps
    <3> QED BY <3>1
  <2>2. filterConfigsByChannel(configs, team, ch) = kept
    BY Zenon DEF filterConfigsByChannel
  <2>3. ch # NoFilter
    OBVIOUS
  <2> HIDE DEF kept
  <2>4. Found(ch) = {c \in ToSet(kept) : Slug(c) \in slugs}
    BY <2>2, Zenon DEF runInventoryWebhookTest, Slug
  <2> QED BY <2>1, <2>3, <2>4
<1>2. ASSUME NEW ch \in all PROVE Found(ch) # {} <=> ch \in In(configs, slugs, team)
  BY <1>1 DEF In
<1>3. In(configs, slugs, team) \subseteq all
  BY DEF In
<1> HIDE DEF all, Found
<1>4. {ch \in all : Found(ch) # {}} = In(configs, slugs, team)
  BY <1>2, <1>3
<1> QED BY <1>4, Zenon DEF all, Found

\* A target names runbooks; the map of its channels is theirs, or all.
LEMMA MapOfTarget ==
  ASSUME NEW configs, NEW target
  PROVE  buildTargetChannelMap(configs, target)
           = IF target.type \in {"", "all"} THEN {c.dest.channel : c \in ToSet(configs)}
             ELSE In(configs, decodeTargetSelection(target), NoFilter)
<1>1. ASSUME NEW slugs PROVE ChannelsOf(configs, slugs) = In(configs, slugs, NoFilter)
  BY DEF ChannelsOf, In, Slug
<1>2. CASE target.type \in {"", "all"}
  <2> DEFINE slugs == {Slug(c) : c \in ToSet(configs)}
  <2>1. In(configs, slugs, NoFilter) = {c.dest.channel : c \in ToSet(configs)}
    BY DEF In
  <2>2. buildTargetChannelMap(configs, target) = ChannelsOf(configs, slugs)
    BY <1>2, Zenon DEF buildTargetChannelMap, Slug
  <2> HIDE DEF slugs
  <2> QED BY <1>1, <1>2, <2>1, <2>2
<1>3. CASE target.type \notin {"", "all"}
  <2>1. buildTargetChannelMap(configs, target) = ChannelsOf(configs, decodeTargetSelection(target))
    BY <1>3, Zenon DEF buildTargetChannelMap
  <2> QED BY <1>1, <1>3, <2>1
<1> QED BY <1>2, <1>3

\* What can be tested is offered; and no more, for a group or a runbook.
LEMMA Offers ==
  ASSUME NEW list, ListOK(list)
  PROVE  OffersWhatCanBeTested(list)
<1> DEFINE targets == {Target("all", NoName)} \cup {Target("group", g) : g \in DOMAIN Category}
                        \cup {Target("individual", s) : s \in Runbooks}
           teams == {NoFilter} \cup {c.dest.team : c \in ToSet(list)}
           all == {c.dest.channel : c \in ToSet(list)}
           Tested(target, team, channel) ==
             runInventoryWebhookTest(decodeTargetSelection(target), filterConfigsByChannel(list, team, channel))
           Testable(target, team) == {c \in all : Tested(target, team, c) # {}}
<1>1. /\ list \in Seq(Entries)
      /\ \A c \in ToSet(list) : c.dest.channel # NoFilter /\ c.dest.team # NoFilter
  <2>1. list \in Seq(Entries) /\ \A c \in ToSet(list) : c \in Entries
    BY DEF ListOK, ToSet
  <2>2. \A c \in Entries : c.dest.channel # NoFilter /\ c.dest.team # NoFilter
    BY ListsAssumption DEF ListsAssumption, Entries, NoFilter
  <2> QED BY <2>1, <2>2
<1>2. ASSUME NEW target \in targets, NEW team \in teams
      PROVE  LET offered == OfferedChannels(list, target, team)
             IN /\ Testable(target, team) \subseteq offered
                /\ team = NoFilter /\ target.type # "all" /\ Testable(target, team) # {} => offered = Testable(target, team)
  <2> DEFINE slugs == decodeTargetSelection(target)
             testable == In(list, slugs, team)
             ofTarget == buildTargetChannelMap(list, target)
             none == Target("", NoName)
             ofNone == buildTargetChannelMap(list, none)
             shown == IF ofTarget = {} THEN ofNone ELSE ofTarget
             ofTeam == {c.dest.channel : c \in {d \in ToSet(list) : d.dest.team = team}}
             offered == OfferedChannels(list, target, team)
             limited == target.type # "all"
  <2>1. Testable(target, team) = testable
    BY <1>1, TestableIn, Zenon
  <2>2. target.type # ""
    <3>1. ASSUME NEW value
          PROVE  Target("all", value).type # "" /\ Target("group", value).type # "" /\ Target("individual", value).type # ""
      BY DEF Target
    <3> QED BY <3>1
  <2>3. ofTarget = IF limited THEN In(list, slugs, NoFilter) ELSE all
    <3>1. ofTarget = IF target.type \in {"", "all"} THEN all ELSE In(list, slugs, NoFilter)
      BY MapOfTarget, Zenon
    <3> HIDE DEF ofTarget, all, slugs, targets
    <3> QED BY <2>2, <3>1
  <2>4. ofNone = all
    <3>1. none.type = ""
      BY DEF Target
    <3> HIDE DEF none
    <3>2. ofNone = IF none.type \in {"", "all"} THEN all ELSE In(list, decodeTargetSelection(none), NoFilter)
      BY MapOfTarget, Zenon
    <3> HIDE DEF ofNone, all
    <3> QED BY <3>1, <3>2
  <2>5. offered = IF ofTeam = {} THEN shown ELSE shown \cap ofTeam
    BY Zenon DEF OfferedChannels
  <2>6. testable \subseteq In(list, slugs, NoFilter) /\ In(list, slugs, NoFilter) \subseteq all
    BY DEF In
  <2>7. team # NoFilter => testable \subseteq ofTeam
    BY DEF In
  <2>8. team = NoFilter => testable = In(list, slugs, NoFilter) /\ ofTeam = {}
    BY <1>1
  <2> HIDE DEF slugs, testable, ofTarget, ofNone, ofTeam, offered, all, limited, targets, teams
  <2>9. testable \subseteq shown /\ (limited /\ testable # {} => shown = In(list, slugs, NoFilter))
    BY <2>3, <2>4, <2>6
  <2> HIDE DEF shown
  <2>10. testable \subseteq offered
    BY <2>5, <2>7, <2>8, <2>9
  <2>11. team = NoFilter /\ limited /\ testable # {} => offered = testable
    BY <2>5, <2>8, <2>9
  <2> QED BY <2>1, <2>10, <2>11, Zenon DEF offered, limited
<1> QED BY <1>2, Zenon DEF OffersWhatCanBeTested

-----------------------------------------------------------------------------
(* The route tester's tests. *)

\* The form's modes: what each posts, fires or shows.
Posts(slugs, chosen) == runInventoryWebhookTest(slugs, chosen)
Fires(slugs, extra, chosen, status) == runInventoryEndToEnd(slugs, "", extra, chosen, status).fired
Shows(slugs, extra, configs, status) ==
  LET simulated == IF slugs = {} /\ extra # <<>> THEN {NoName} ELSE slugs
  IN {runInventorySimulation(configs, buildSimulateLabelsInput(s, NoName, extra), status) : s \in simulated}

\* What a submitted form has done and shows.
Outcome(answer, posted, fired, shown) == answer.posted = posted /\ answer.fired = fired /\ answer.shown = shown

\* A submitted form does what its mode says, for all that was selected.
LEMMA SubmittedAs ==
  ASSUME NEW method, NEW target, NEW channel, NEW extra, NEW configs, NEW status
  PROVE  LET slugs == decodeTargetSelection(target)
             chosen == filterConfigsByChannel(configs, NoFilter, channel)
             Answered(mode) == renderInventoryHTML(Form(mode, method, target, channel, extra), configs, status)
         IN /\ Outcome(Answered("simulate"), {}, <<>>, Shows(slugs, extra, configs, status))
            /\ method = "POST" => Outcome(Answered("webhook-test"), Posts(slugs, chosen), <<>>, {})
            /\ method = "POST" => Outcome(Answered("end-to-end"), {}, Fires(slugs, extra, chosen, status), {})
            /\ method = "GET" => \A mode \in SideEffects : Outcome(Answered(mode), {}, <<>>, {})
<1> DEFINE slugs == decodeTargetSelection(target)
           chosen == filterConfigsByChannel(configs, NoFilter, channel)
           form(mode) == Form(mode, method, target, channel, extra)
           Answered(mode) == renderInventoryHTML(form(mode), configs, status)
           simulated == IF slugs = {} /\ extra # <<>> THEN {NoName} ELSE slugs
           matrix == runInventorySimulationMatrixForSlugs(simulated, NoName, extra, configs, status)
           posts == [Nothing EXCEPT !.posted = Posts(slugs, chosen)]
           fires == [Nothing EXCEPT !.fired = Fires(slugs, extra, chosen, status)]
           shows == [Nothing EXCEPT !.shown = {matrix[s] : s \in simulated}]
           allowed(mode) == simSideEffectAllowed(form(mode))
<1>1. ASSUME NEW mode
      PROVE  /\ form(mode).mode = mode /\ form(mode).method = method /\ form(mode).target = target
             /\ form(mode).team = NoFilter /\ form(mode).channel = channel /\ form(mode).severity = ""
             /\ form(mode).extra = extra
             /\ form(mode).requestedWith = IF method = "POST" THEN "XMLHttpRequest" ELSE ""
  BY DEF Form
<1>2. ASSUME NEW mode
      PROVE  Answered(mode) = CASE mode = "webhook-test" /\ allowed(mode) -> posts
                                [] mode = "end-to-end" /\ allowed(mode) -> fires
                                [] mode \notin SideEffects -> shows
                                [] OTHER -> Nothing
  <2> DEFINE f == form(mode)
  <2>1. /\ f.mode = mode /\ f.method = method /\ f.target = target /\ f.team = NoFilter
        /\ f.channel = channel /\ f.severity = "" /\ f.extra = extra
    BY <1>1
  <2> HIDE DEF f
  <2>2. renderInventoryHTML(f, configs, status) =
          CASE mode = "webhook-test" /\ simSideEffectAllowed(f) -> posts
            [] mode = "end-to-end" /\ simSideEffectAllowed(f) -> fires
            [] mode \notin SideEffects -> shows
            [] OTHER -> Nothing
    BY <2>1, Zenon DEF renderInventoryHTML, Posts, Fires
  <2> QED BY <2>2, Zenon DEF f
<1>3. SideEffects = {"webhook-test", "end-to-end"} /\ "simulate" \notin SideEffects /\ "webhook-test" # "end-to-end"
  BY DEF SideEffects
<1>4. method = "POST" => allowed("webhook-test") /\ allowed("end-to-end")
  <2> HIDE DEF form
  <2> QED BY <1>1, Zenon DEF simSideEffectAllowed
<1>5. method = "GET" => ~allowed("webhook-test") /\ ~allowed("end-to-end")
  <2>1. "GET" # "POST"
    OBVIOUS
  <2> HIDE DEF form
  <2> QED BY <1>1, <1>3, <2>1, Zenon DEF simSideEffectAllowed
<1>6. Outcome(Nothing, {}, <<>>, {})
  BY DEF Outcome, Nothing
<1>7. Outcome(posts, Posts(slugs, chosen), <<>>, {})
  BY DEF Outcome, Nothing
<1>8. Outcome(fires, {}, Fires(slugs, extra, chosen, status), {})
  BY DEF Outcome, Nothing
<1>9. Outcome(shows, {}, <<>>, Shows(slugs, extra, configs, status))
  <2> DEFINE seen == {matrix[s] : s \in simulated}
             seenOne == {runInventorySimulation(configs, buildSimulateLabelsInput(s, NoName, extra), status) : s \in simulated}
  <2>1. \A s \in simulated : matrix[s] = runInventorySimulation(configs, buildSimulateLabelsInput(s, NoName, extra), status)
    <3> HIDE DEF simulated
    <3> QED BY DEF runInventorySimulationMatrixForSlugs
  <2>2. seenOne = Shows(slugs, extra, configs, status)
    BY Zenon DEF Shows
  <2> HIDE DEF simulated, matrix
  <2>3. seen = seenOne
    BY <2>1
  <2> HIDE DEF seen, seenOne
  <2>4. Outcome([Nothing EXCEPT !.shown = seen], {}, <<>>, seen)
    BY DEF Outcome, Nothing
  <2> QED BY <2>2, <2>3, <2>4, Zenon DEF seen
<1> HIDE DEF posts, fires, shows, allowed
<1>10. Answered("simulate") = shows
  BY <1>2, <1>3, Zenon
<1>11. method = "POST" => Answered("webhook-test") = posts /\ Answered("end-to-end") = fires
  BY <1>2, <1>3, <1>4, Zenon
<1>12. method = "GET" => Answered("webhook-test") = Nothing /\ Answered("end-to-end") = Nothing
  BY <1>2, <1>3, <1>5, Zenon
<1> HIDE DEF Answered, slugs, chosen
<1>13. /\ Outcome(Answered("simulate"), {}, <<>>, Shows(slugs, extra, configs, status))
       /\ method = "POST" => Outcome(Answered("webhook-test"), Posts(slugs, chosen), <<>>, {})
       /\ method = "POST" => Outcome(Answered("end-to-end"), {}, Fires(slugs, extra, chosen, status), {})
       /\ method = "GET" => \A mode \in SideEffects : Outcome(Answered(mode), {}, <<>>, {})
  BY <1>3, <1>6, <1>7, <1>8, <1>9, <1>10, <1>11, <1>12, Zenon
<1> QED BY <1>13, Zenon DEF Answered, slugs, chosen

\* Posting for some runbooks is posting for each of them.
LEMMA PostsAreUnion ==
  ASSUME NEW slugs, NEW chosen
  PROVE  Posts(slugs, chosen) = UNION {Posts({s}, chosen) : s \in slugs}
  BY DEF Posts, runInventoryWebhookTest

\* Showing some is showing each.
LEMMA ShowsAreUnion ==
  ASSUME NEW slugs, NEW configs, NEW status
  PROVE  Shows(slugs, <<>>, configs, status) = UNION {Shows({s}, <<>>, configs, status) : s \in slugs}
<1> DEFINE shown(s) == runInventorySimulation(configs, buildSimulateLabelsInput(s, NoName, <<>>), status)
<1>1. ASSUME NEW some PROVE Shows(some, <<>>, configs, status) = {shown(s) : s \in some}
  <2>1. (IF some = {} /\ <<>> # <<>> THEN {NoName} ELSE some) = some
    OBVIOUS
  <2> QED BY <2>1, Zenon DEF Shows
<1> HIDE DEF shown
<1>2. \A s : Shows({s}, <<>>, configs, status) = {shown(s)}
  <2>1. ASSUME NEW s PROVE Shows({s}, <<>>, configs, status) = {shown(s)}
    BY <1>1
  <2> QED BY <2>1
<1>3. Shows(slugs, <<>>, configs, status) = {shown(s) : s \in slugs}
  BY <1>1
<1>4. {shown(s) : s \in slugs} = UNION {{shown(s)} : s \in slugs}
  OBVIOUS
<1>5. UNION {{shown(s)} : s \in slugs} = UNION {Shows({s}, <<>>, configs, status) : s \in slugs}
  BY <1>2, Zenon
<1> QED BY <1>3, <1>4, <1>5, Zenon

\* Where there is a receiver of a runbook, there is an Alertmanager to fire at.
LEMMA FiresAtAM ==
  ASSUME NEW chosen, BoundToAM(chosen), NEW slugs, NEW status, NEW tree, Serves(status, tree)
  PROVE  EndToEndAM(slugs, chosen, status) # NoAM <=> \E i \in 1 .. Len(chosen) : receiverBaseSlug(chosen[i].name) \in slugs
<1> DEFINE I == {i \in 1 .. Len(chosen) : receiverBaseSlug(chosen[i].name) \in slugs /\ status[chosen[i].am].reachable}
           first == IF I # {} THEN Min(I) ELSE 0
           am == EndToEndAM(slugs, chosen, status)
<1>1. I = {i \in 1 .. Len(chosen) : receiverBaseSlug(chosen[i].name) \in slugs}
  <2>1. \A i \in 1 .. Len(chosen) : chosen[i].am = "am"
    BY DEF BoundToAM
  <2> QED BY <2>1 DEF Serves
<1>2. SelectInSeq(chosen, LAMBDA c : receiverBaseSlug(c.name) \in slugs /\ status[c.am].reachable) = first
  BY Zenon DEF SelectInSeq
<1>3. am = IF first = 0 THEN NoAM ELSE chosen[first].am
  BY <1>2, Zenon DEF EndToEndAM
<1>4. I \in SUBSET Nat /\ I \subseteq 1 .. Len(chosen)
  BY DEF BoundToAM
<1> HIDE DEF I, am
<1>5. CASE I = {}
  <2>1. am = NoAM
    BY <1>3, <1>5
  <2> QED BY <1>1, <1>5, <2>1 DEF am
<1>6. CASE I # {}
  <2> DEFINE m == Min(I)
  <2>1. m \in I
    BY <1>4, <1>6, LeastIsMin
  <2>2. first = m
    BY <1>6
  <2> HIDE DEF m, first
  <2>3. first \in 1 .. Len(chosen) /\ first # 0
    BY <1>4, <2>1, <2>2 DEF BoundToAM
  <2>4. chosen[first].am = "am"
    BY <2>3 DEF BoundToAM
  <2>5. am = "am"
    BY <1>3, <2>3, <2>4
  <2>6. "am" # NoAM
    BY Zenon DEF NoAM
  <2>7. am # NoAM
    BY <2>5, <2>6, Zenon
  <2>8. \E i \in 1 .. Len(chosen) : receiverBaseSlug(chosen[i].name) \in slugs
    BY <1>1, <1>6
  <2> QED BY <2>7, <2>8, Zenon DEF am
<1> QED BY <1>5, <1>6

\* A runbook's alert is among those of its group.
LEMMA FiresWithin ==
  ASSUME NEW chosen, BoundToAM(chosen), NEW slugs, IsFiniteSet(slugs), NEW s \in slugs,
         NEW status, NEW tree, Serves(status, tree)
  PROVE  ToSet(Fires({s}, <<>>, chosen, status)) \subseteq ToSet(Fires(slugs, <<>>, chosen, status))
<1> DEFINE am(some) == EndToEndAM(some, chosen, status)
           specs == expandSeverityForFire("")
           extra == parseEndToEndExtraLabels(<<>>)
           alerts(x) == Synthetic(x, "", <<>>)
           warn == specs[1]
           alert(x) == postValidateSyntheticAlert(x, warn, extra)
           order == SetToSeq(slugs)
           n == Cardinality(slugs)
           parts == [i \in 1 .. n |-> alerts(order[i])]
           S == {alert(x) : x \in slugs}
<1>1. CASE am({s}) = NoAM
  <2>1. Fires({s}, <<>>, chosen, status) = <<>>
    BY <1>1, FiredForOne, Zenon DEF Fires
  <2> QED BY <2>1 DEF ToSet
<1>2. CASE am({s}) # NoAM
  <2>1. Fires({s}, <<>>, chosen, status) = alerts(s)
    BY <1>2, FiredForOne, Zenon DEF Fires
  <2>2. am(slugs) # NoAM
    <3>1. \E i \in 1 .. Len(chosen) : receiverBaseSlug(chosen[i].name) \in {s}
      BY <1>2, FiresAtAM, Zenon
    <3>2. \E i \in 1 .. Len(chosen) : receiverBaseSlug(chosen[i].name) \in slugs
      BY <3>1
    <3> QED BY <3>2, FiresAtAM, Zenon
  <2>3. Fires(slugs, <<>>, chosen, status) = FlattenSeq(parts)
    <3> DEFINE run == runInventoryEndToEnd(slugs, "", <<>>, chosen, status)
    <3>1. run = IF am(slugs) = NoAM THEN [am |-> NoAM, fired |-> <<>>] ELSE [am |-> am(slugs), fired |-> FlattenSeq(parts)]
      BY Zenon DEF runInventoryEndToEnd, Synthetic
    <3> HIDE DEF run, am, parts
    <3>2. run.fired = FlattenSeq(parts)
      BY <2>2, <3>1
    <3> QED BY <3>2, Zenon DEF Fires, run
  <2>4. DOMAIN specs = {1} /\ Len(specs) = 1
    <3>1. specs = <<syntheticFireSpec("warning", FALSE)>>
      BY DEF expandSeverityForFire
    <3> DEFINE w == syntheticFireSpec("warning", FALSE)
    <3> HIDE DEF w, specs
    <3>2. specs = <<w>>
      BY <3>1, Zenon DEF w
    <3> QED BY <3>2
  <2> HIDE DEF specs, extra, warn
  <2>5. ASSUME NEW x PROVE alerts(x) = <<alert(x)>>
    <3>1. alerts(x) = [j \in DOMAIN specs |-> postValidateSyntheticAlert(x, specs[j], extra)]
      BY Zenon DEF Synthetic, specs, extra
    <3> HIDE DEF alerts
    <3>2. alerts(x) = [j \in {1} |-> alert(x)]
      BY <2>4, <3>1 DEF warn
    <3> HIDE DEF alert
    <3> QED BY <3>2
  <2> HIDE DEF alerts, alert
  <2>6. order \in Seq(slugs) /\ ToSet(order) = slugs /\ Len(order) = n /\ n \in Nat
    BY SetToSeqOnto
  <2> HIDE DEF order, n
  <2>7. DOMAIN order = 1 .. n /\ \A i \in 1 .. n : order[i] \in slugs
    BY <2>6
  <2>8. DOMAIN parts = 1 .. n /\ Len(parts) = n /\ (n = 0 => parts = <<>>)
    BY <2>6
  <2>9. \A i \in 1 .. n : parts[i] = <<alert(order[i])>>
    BY <2>5
  <2>10. \A i \in 1 .. n : parts[i] \in Seq(S)
    <3>1. ASSUME NEW i \in 1 .. n PROVE parts[i] \in Seq(S)
      <4>1. alert(order[i]) \in S
        BY <2>7
      <4> HIDE DEF S, parts
      <4> QED BY <2>9, <4>1, OneIsSeq
    <3> QED BY <3>1
  <2> HIDE DEF parts, S
  <2>11. ToSet(FlattenSeq(parts)) = UNION {ToSet(parts[i]) : i \in 1 .. n}
    BY <2>6, <2>8, <2>10, FlattenKeeps
  <2>12. PICK i \in 1 .. n : order[i] = s
    BY <2>6, <2>7 DEF ToSet
  <2>13. alerts(s) = parts[i]
    BY <2>5, <2>9, <2>12
  <2>14. ToSet(alerts(s)) \subseteq ToSet(FlattenSeq(parts))
    BY <2>11, <2>13
  <2> QED BY <2>1, <2>3, <2>14
<1> QED BY <1>1, <1>2

\* The tests of a group are those of its runbooks.
LEMMA GroupsTested ==
  ASSUME NEW list, ListOK(list), NEW T, NEW dests \in Seq(T)
  PROVE  GroupsAreTestedAsTheirRunbooks(list, dests)
<1> DEFINE tree == Pasted(<<>>, list, dests, <<>>)
           entry == [reachable |-> TRUE, returned |-> TRUE, tree |-> tree]
           status == [am \in {"am"} |-> entry]
           configs == [i \in DOMAIN list |-> Over(list[i], [am |-> "am"])]
           Submit(mode, method, target, channel, extra) ==
             renderInventoryHTML(Form(mode, method, target, channel, extra), configs, status)
           OneRunbook(s) == Target("individual", s)
           groups == {Target("all", NoName)} \cup {Target("group", g) : g \in DOMAIN Category}
           channels == {NoFilter} \cup {c.dest.channel : c \in ToSet(list)}
<1>1. Serves(status, tree)
  <2> HIDE DEF tree
  <2>1. entry.reachable /\ entry.returned /\ entry.tree = tree
    BY Zenon
  <2> HIDE DEF entry
  <2>2. status["am"] = entry
    OBVIOUS
  <2> QED BY <2>1, <2>2, Zenon DEF Serves
<1>2. BoundToAM(configs) /\ configs \in Seq(ToSet(configs))
  BY BoundConfigs, Zenon
<1> HIDE DEF configs, status, tree
<1>3. ASSUME NEW channel PROVE BoundToAM(filterConfigsByChannel(configs, NoFilter, channel))
  <2> DEFINE some == {c \in ToSet(configs) : NoFilter \in {NoFilter, c.dest.team} /\ channel \in {NoFilter, c.dest.channel}}
             kept == Only(configs, some)
  <2>1. filterConfigsByChannel(configs, NoFilter, channel) = kept
    BY Zenon DEF filterConfigsByChannel
  <2>2. kept \in Seq(ToSet(configs))
    <3> HIDE DEF some
    <3> QED BY <1>2, OnlyKeeps
  <2>3. \A c \in ToSet(configs) : c.am = "am"
    BY <1>2 DEF BoundToAM, ToSet
  <2> HIDE DEF kept
  <2>4. BoundToAM(kept)
    BY <2>2, <2>3 DEF BoundToAM
  <2> QED BY <2>1, <2>4
<1>4. ASSUME NEW s \in Runbooks PROVE decodeTargetSelection(OneRunbook(s)) = {s}
  <2> DEFINE target == OneRunbook(s)
  <2>1. target.type = "individual" /\ target.value = s
    BY DEF Target
  <2>2. s # NoName /\ "individual" # "all" /\ "individual" # "group"
    BY NamesAssumption DEF NamesAssumption, NoName
  <2> HIDE DEF target
  <2>3. decodeTargetSelection(target) = {s}
    BY <2>1, <2>2, Zenon DEF decodeTargetSelection
  <2> QED BY <2>3 DEF target
<1>5. ASSUME NEW group \in groups
      PROVE  decodeTargetSelection(group) \subseteq Runbooks /\ IsFiniteSet(decodeTargetSelection(group))
  <2>1. decodeTargetSelection(group) \subseteq Runbooks
    <3>1. CASE group = Target("all", NoName)
      <4>1. group.type = "all"
        BY <3>1 DEF Target
      <4>2. "all" # "group" /\ "all" # "individual"
        OBVIOUS
      <4>3. decodeTargetSelection(group) = Runbooks
        BY <4>1, <4>2, Zenon DEF decodeTargetSelection
      <4> QED BY <4>3
    <3>2. ASSUME NEW g \in DOMAIN Category, group = Target("group", g)
          PROVE  decodeTargetSelection(group) \subseteq Runbooks
      <4>1. group.type = "group" /\ group.value = g
        BY <3>2 DEF Target
      <4>2. "group" # "all" /\ "group" # "individual"
        OBVIOUS
      <4>3. decodeTargetSelection(group) = Category[g]
        BY <4>1, <4>2, Zenon DEF decodeTargetSelection
      <4> QED BY <4>3, NamesAssumption DEF NamesAssumption
    <3> QED BY <3>1, <3>2
  <2> QED BY <2>1, NamesAssumption, FS_Subset DEF NamesAssumption
<1> HIDE DEF groups, OneRunbook
<1>6. ASSUME NEW mode \in SideEffects \cup {"simulate"}, NEW group \in groups, NEW channel
      PROVE  LET whole == Submit(mode, "POST", group, channel, <<>>)
                 parts == {Submit(mode, "POST", OneRunbook(s), channel, <<>>) : s \in decodeTargetSelection(group)}
                 link == Submit(mode, "GET", group, channel, <<>>)
             IN /\ whole.posted = UNION {p.posted : p \in parts}
                /\ whole.shown = UNION {p.shown : p \in parts}
                /\ UNION {ToSet(p.fired) : p \in parts} \subseteq ToSet(whole.fired)
                /\ link.posted = {} /\ link.fired = <<>>
  <2> DEFINE slugs == decodeTargetSelection(group)
             chosen == filterConfigsByChannel(configs, NoFilter, channel)
             Whole(m) == Submit(m, "POST", group, channel, <<>>)
             Part(m, s) == Submit(m, "POST", OneRunbook(s), channel, <<>>)
             Link(m) == Submit(m, "GET", group, channel, <<>>)
             Parts(m) == {Part(m, s) : s \in slugs}
  <2>1. "POST" # "GET" /\ SideEffects = {"webhook-test", "end-to-end"}
    BY DEF SideEffects
  <2>2. /\ Outcome(Whole("simulate"), {}, <<>>, Shows(slugs, <<>>, configs, status))
        /\ Outcome(Whole("webhook-test"), Posts(slugs, chosen), <<>>, {})
        /\ Outcome(Whole("end-to-end"), {}, Fires(slugs, <<>>, chosen, status), {})
    BY SubmittedAs, Zenon
  <2>3. /\ Outcome(Link("simulate"), {}, <<>>, Shows(slugs, <<>>, configs, status))
        /\ \A m \in SideEffects : Outcome(Link(m), {}, <<>>, {})
    BY SubmittedAs, Zenon
  <2>4. ASSUME NEW s \in slugs
        PROVE  /\ Outcome(Part("simulate", s), {}, <<>>, Shows({s}, <<>>, configs, status))
               /\ Outcome(Part("webhook-test", s), Posts({s}, chosen), <<>>, {})
               /\ Outcome(Part("end-to-end", s), {}, Fires({s}, <<>>, chosen, status), {})
    <3>1. decodeTargetSelection(OneRunbook(s)) = {s}
      BY <1>4, <1>5
    <3>2. /\ Outcome(Part("simulate", s), {}, <<>>, Shows(decodeTargetSelection(OneRunbook(s)), <<>>, configs, status))
          /\ Outcome(Part("webhook-test", s), Posts(decodeTargetSelection(OneRunbook(s)), chosen), <<>>, {})
          /\ Outcome(Part("end-to-end", s), {}, Fires(decodeTargetSelection(OneRunbook(s)), <<>>, chosen, status), {})
      BY SubmittedAs, Zenon
    <3> QED BY <3>1, <3>2, Zenon
  <2>5. Posts(slugs, chosen) = UNION {Posts({s}, chosen) : s \in slugs}
    BY PostsAreUnion
  <2>6. Shows(slugs, <<>>, configs, status) = UNION {Shows({s}, <<>>, configs, status) : s \in slugs}
    BY ShowsAreUnion
  <2>7. \A s \in slugs : ToSet(Fires({s}, <<>>, chosen, status)) \subseteq ToSet(Fires(slugs, <<>>, chosen, status))
    <3>1. BoundToAM(chosen) /\ IsFiniteSet(slugs)
      BY <1>3, <1>5
    <3> HIDE DEF slugs, chosen
    <3> QED BY <1>1, <3>1, FiresWithin
  <2>8. ToSet(<<>>) = {}
    BY DEF ToSet
  <2> HIDE DEF slugs, chosen, Whole, Part, Link
  <2>9. CASE mode = "simulate"
    <3>1. /\ Whole(mode).posted = {} /\ Whole(mode).fired = <<>>
          /\ Whole(mode).shown = Shows(slugs, <<>>, configs, status)
          /\ Link(mode).posted = {} /\ Link(mode).fired = <<>>
      BY <2>2, <2>3, <2>9 DEF Outcome
    <3>2. \A s \in slugs : /\ Part(mode, s).posted = {} /\ Part(mode, s).fired = <<>>
                           /\ Part(mode, s).shown = Shows({s}, <<>>, configs, status)
      BY <2>4, <2>9 DEF Outcome
    <3>3. UNION {p.posted : p \in Parts(mode)} = {}
      BY <3>2
    <3>4. UNION {p.shown : p \in Parts(mode)} = UNION {Shows({s}, <<>>, configs, status) : s \in slugs}
      BY <3>2
    <3>5. UNION {ToSet(p.fired) : p \in Parts(mode)} = {}
      BY <2>8, <3>2
    <3> QED BY <2>6, <3>1, <3>3, <3>4, <3>5 DEF Whole, Part, Link, slugs
  <2>10. CASE mode = "webhook-test"
    <3>1. /\ Whole(mode).posted = Posts(slugs, chosen) /\ Whole(mode).fired = <<>>
          /\ Whole(mode).shown = {}
          /\ Link(mode).posted = {} /\ Link(mode).fired = <<>>
      BY <2>1, <2>2, <2>3, <2>10 DEF Outcome
    <3>2. \A s \in slugs : /\ Part(mode, s).posted = Posts({s}, chosen) /\ Part(mode, s).fired = <<>>
                           /\ Part(mode, s).shown = {}
      BY <2>4, <2>10 DEF Outcome
    <3>3. UNION {p.posted : p \in Parts(mode)} = UNION {Posts({s}, chosen) : s \in slugs}
      BY <3>2
    <3>4. UNION {p.shown : p \in Parts(mode)} = {}
      BY <3>2
    <3>5. UNION {ToSet(p.fired) : p \in Parts(mode)} = {}
      BY <2>8, <3>2
    <3> QED BY <2>5, <3>1, <3>3, <3>4, <3>5 DEF Whole, Part, Link, slugs
  <2>11. CASE mode = "end-to-end"
    <3>1. /\ Whole(mode).posted = {} /\ Whole(mode).fired = Fires(slugs, <<>>, chosen, status)
          /\ Whole(mode).shown = {}
          /\ Link(mode).posted = {} /\ Link(mode).fired = <<>>
      BY <2>1, <2>2, <2>3, <2>11 DEF Outcome
    <3>2. \A s \in slugs : /\ Part(mode, s).posted = {} /\ Part(mode, s).fired = Fires({s}, <<>>, chosen, status)
                           /\ Part(mode, s).shown = {}
      BY <2>4, <2>11 DEF Outcome
    <3>3. UNION {p.posted : p \in Parts(mode)} = {}
      BY <3>2
    <3>4. UNION {p.shown : p \in Parts(mode)} = {}
      BY <3>2
    <3>5. UNION {ToSet(p.fired) : p \in Parts(mode)} \subseteq ToSet(Fires(slugs, <<>>, chosen, status))
      BY <2>7, <3>2
    <3> QED BY <3>1, <3>3, <3>4, <3>5 DEF Whole, Part, Link, slugs
  <2> QED BY <2>1, <2>9, <2>10, <2>11
<1>7. ASSUME NEW s \in Runbooks
      PROVE  Submit("simulate", "GET", OneRunbook(s), NoFilter, <<>>).shown
               = Submit("simulate", "GET", Target("", NoName), NoFilter, <<Arg("runbook", s, TRUE)>>).shown
  <2> DEFINE none == Target("", NoName)
             given == <<Arg("runbook", s, TRUE)>>
  <2>1. decodeTargetSelection(OneRunbook(s)) = {s}
    BY <1>4
  <2>2. decodeTargetSelection(none) = {}
    <3>1. none.type = "" /\ "" # "all" /\ "" # "group" /\ "" # "individual"
      BY DEF Target
    <3> HIDE DEF none
    <3> QED BY <3>1, Zenon DEF decodeTargetSelection
  <2>3. /\ Outcome(Submit("simulate", "GET", OneRunbook(s), NoFilter, <<>>), {}, <<>>, Shows({s}, <<>>, configs, status))
        /\ Outcome(Submit("simulate", "GET", none, NoFilter, given), {}, <<>>, Shows({}, given, configs, status))
    <3>1. /\ Outcome(Submit("simulate", "GET", OneRunbook(s), NoFilter, <<>>), {}, <<>>,
                     Shows(decodeTargetSelection(OneRunbook(s)), <<>>, configs, status))
          /\ Outcome(Submit("simulate", "GET", none, NoFilter, given), {}, <<>>,
                     Shows(decodeTargetSelection(none), given, configs, status))
      BY SubmittedAs, Zenon
    <3> QED BY <2>1, <2>2, <3>1, Zenon
  <2>4. buildSimulateLabelsInput(s, NoName, <<>>) = given
    <3>1. s # NoName
      BY NamesAssumption DEF NamesAssumption, NoName
    <3> QED BY <3>1, ParsedIsNaming, Zenon
  <2> DEFINE arg == Arg("runbook", s, TRUE)
  <2>5. buildSimulateLabelsInput(NoName, NoName, given) = given /\ given # <<>>
    <3> HIDE DEF arg
    <3>1. <<>> \o <<>> \o <<arg>> = <<arg>> /\ <<arg>> # <<>>
      OBVIOUS
    <3>2. buildSimulateLabelsInput(NoName, NoName, <<arg>>) = <<>> \o <<>> \o <<arg>>
      BY Zenon DEF buildSimulateLabelsInput
    <3> QED BY <3>1, <3>2, Zenon DEF arg
  <2> HIDE DEF given
  <2>6. Shows({s}, <<>>, configs, status) = Shows({}, given, configs, status)
    <3> DEFINE Sim(x) == runInventorySimulation(configs, x, status)
    <3>1. Shows({s}, <<>>, configs, status) = {Sim(given)}
      <4>1. (IF {s} = {} /\ <<>> # <<>> THEN {NoName} ELSE {s}) = {s}
        OBVIOUS
      <4>2. Shows({s}, <<>>, configs, status) = {Sim(buildSimulateLabelsInput(x, NoName, <<>>)) : x \in {s}}
        BY <4>1, Zenon DEF Shows
      <4> HIDE DEF Sim
      <4> QED BY <2>4, <4>2
    <3>2. Shows({}, given, configs, status) = {Sim(given)}
      <4>1. (IF {} = {} /\ given # <<>> THEN {NoName} ELSE {}) = {NoName}
        BY <2>5
      <4>2. Shows({}, given, configs, status) = {Sim(buildSimulateLabelsInput(x, NoName, given)) : x \in {NoName}}
        BY <4>1, Zenon DEF Shows
      <4> HIDE DEF Sim
      <4> QED BY <2>5, <4>2
    <3> QED BY <3>1, <3>2, Zenon
  <2> QED BY <2>3, <2>6, Zenon DEF Outcome, given
<1> QED BY <1>6, <1>7, Zenon DEF GroupsAreTestedAsTheirRunbooks, configs, status, tree, groups, OneRunbook

\* The inventory page tells the truth: for lists of any length, any number of
\* Alertmanagers, and configurations of any number of lines.
THEOREM InventoryHolds == InputsSpec => []InventoryTellsTheTruth
<1> DEFINE Fixed == /\ module = "routing" => input \in RoutingInputs
                    /\ module = "checks" => input \in CheckInputs
<1>1. InputsInit => Fixed
  BY DEF InputsInit
<1>2. Fixed /\ [InputsNext]_<<module, input>> => Fixed'
  BY DEF InputsNext
<1>3. Fixed /\ ListsOK => InventoryTellsTheTruth
  <2> SUFFICES ASSUME Fixed, ListsOK
               PROVE  InventoryTellsTheTruth
    OBVIOUS
  <2>1. module = "checks" => ChecksAgree(input.configs, input.answers)
    <3> SUFFICES ASSUME module = "checks" PROVE ChecksAgree(input.configs, input.answers)
      OBVIOUS
    <3> DEFINE configs == input.configs
               answers == input.answers
    <3>1. /\ configs \in Seq(ToSet(configs)) /\ UniqueNames(configs)
          /\ \A c \in ToSet(configs) : c.am \in DOMAIN answers
      BY ChecksAssumption DEF ChecksAssumption
    <3>2. \A url \in DOMAIN answers : AnswerOK(answers[url])
      BY ChecksAssumption DEF ChecksAssumption, AnswerOK
    <3> HIDE DEF configs, answers
    <3>3. ChecksAgree(configs, answers)
      BY <3>1, <3>2, ChecksDoAgree
    <3> QED BY <3>3 DEF configs, answers
  <2>2. module = "names" => OffersWhatCanBeTested(input)
    BY Offers DEF ListsOK
  <2>3. module = "routing" => GroupsAreTestedAsTheirRunbooks(input.list, input.dests)
    <3> SUFFICES ASSUME module = "routing" PROVE GroupsAreTestedAsTheirRunbooks(input.list, input.dests)
      OBVIOUS
    <3>1. ListOK(input.list) /\ input.dests \in Seq(Dests)
      BY RoutingAssumption DEF RoutingAssumption
    <3> QED BY <3>1, GroupsTested
  <2> QED BY <2>1, <2>2, <2>3 DEF InventoryTellsTheTruth
<1> QED BY <1>1, <1>2, <1>3, ListsStayOK, PTL DEF InputsSpec

-----------------------------------------------------------------------------
(* Filtering. *)

\* What holds at 0 and, if before, at the next number, holds up to the last.
LEMMA Climb ==
  ASSUME NEW N \in Nat, NEW Good, 0 \in Good, \A n \in 1 .. N : n - 1 \in Good => n \in Good
  PROVE  \A n \in 0 .. N : n \in Good
<1> DEFINE Bad == (0 .. N) \ Good
<1>1. SUFFICES ASSUME Bad # {} PROVE FALSE
  OBVIOUS
<1>2. PICK m \in Bad : \A n \in Bad : m <= n
  <2>1. Bad \in SUBSET Nat
    OBVIOUS
  <2> HIDE DEF Bad
  <2> QED BY <1>1, <2>1, LeastIsMin
<1>3. m # 0 /\ m \in 1 .. N
  OBVIOUS
<1>4. m - 1 \in 0 .. N /\ ~(m <= m - 1)
  BY <1>3
<1>5. m - 1 \in Good
  BY <1>2, <1>4
<1> QED BY <1>3, <1>5

\* What Only computes, prefix by prefix.
KeptUpTo(S, list, some, f, k) ==
  /\ Len(list) = k /\ k \in Nat /\ f[0] = <<>> /\ Only(list, some) = f[k]
  /\ \A n \in 1 .. k : list[n] \in S /\ f[n] = IF list[n] \in some THEN Append(f[n - 1], list[n]) ELSE f[n - 1]
  /\ \A n \in 0 .. k : f[n] \in Seq(S)

\* It computes it so for every list.
LEMMA OnlyByPrefix ==
  ASSUME NEW S, NEW list \in Seq(S), NEW some
  PROVE  \E f : KeptUpTo(S, list, some, f, Len(list))
<1> DEFINE f == CHOOSE g : UpTo(list, some, g, Len(list))
<1>0. Len(list) \in Nat
  OBVIOUS
<1>1. UpTo(list, some, f, Len(list))
  BY <1>0, UpToExists, Zenon
<1>2. Only(list, some) = f[Len(list)]
  BY Zenon DEF Only, UpTo
<1> HIDE DEF f
<1>3. f = [k \in 0 .. Len(list) |-> IF k = 0 THEN <<>> ELSE IF list[k] \in some THEN Append(f[k - 1], list[k]) ELSE f[k - 1]]
  BY <1>1 DEF UpTo
<1>4. f[0] = <<>>
  <2>1. 0 \in 0 .. Len(list)
    BY <1>0
  <2> QED BY <1>3, <2>1, Zenon
<1>5. ASSUME NEW n \in 1 .. Len(list)
      PROVE  f[n] = IF list[n] \in some THEN Append(f[n - 1], list[n]) ELSE f[n - 1]
  <2>1. n \in 0 .. Len(list) /\ n # 0
    BY <1>0
  <2> QED BY <1>3, <2>1, Zenon
<1>6. \A n \in 0 .. Len(list) : f[n] \in Seq(S)
  BY <1>1, AllKept DEF Kept
<1>7. \A n \in 1 .. Len(list) : list[n] \in S
  OBVIOUS
<1>8. KeptUpTo(S, list, some, f, Len(list))
  BY <1>0, <1>2, <1>4, <1>5, <1>6, <1>7 DEF KeptUpTo
<1> QED BY <1>8

\* Sequences with the same elements at the same places are the same.
LEMMA SameSeq ==
  ASSUME NEW S, NEW a \in Seq(S), NEW b \in Seq(S), Len(a) = Len(b), \A i \in 1 .. Len(a) : a[i] = b[i]
  PROVE  a = b
  OBVIOUS

\* A concatenation, under a name that the facts below can be applied to.
Joined(a, b) == a \o b

\* Its elements are those of the parts, in their order.
LEMMA JoinedSeq ==
  ASSUME NEW S, NEW a \in Seq(S), NEW b \in Seq(S)
  PROVE  Joined(a, b) \in Seq(S) /\ Len(Joined(a, b)) = Len(a) + Len(b)
  BY DEF Joined

\* Up to the length of the first part they are those of the first.
LEMMA JoinedFirst ==
  ASSUME NEW S, NEW a \in Seq(S), NEW b \in Seq(S), NEW i \in 1 .. Len(a)
  PROVE  Joined(a, b)[i] = a[i]
  BY DEF Joined

\* After it those of the second.
LEMMA JoinedSecond ==
  ASSUME NEW S, NEW a \in Seq(S), NEW b \in Seq(S), NEW i \in 1 .. Len(b), NEW j, j = Len(a) + i
  PROVE  Joined(a, b)[j] = b[i]
  BY DEF Joined

\* The empty sequence adds nothing.
LEMMA JoinedNone ==
  ASSUME NEW S, NEW a \in Seq(S)
  PROVE  Joined(a, <<>>) = a /\ Joined(<<>>, a) = a
  BY DEF Joined

\* Appending to a concatenation is appending to its second part.
LEMMA JoinedAppend ==
  ASSUME NEW S, NEW a \in Seq(S), NEW b \in Seq(S), NEW x \in S
  PROVE  Append(Joined(a, b), x) = Joined(a, Append(b, x))
<1> DEFINE ab == Joined(a, b)
           bx == Append(b, x)
           m == Len(a)
           k == Len(b)
           u == Append(ab, x)
           v == Joined(a, bx)
<1>8. m \in Nat /\ k \in Nat
  OBVIOUS
<1>9. ab \in Seq(S) /\ Len(ab) = m + k
  BY JoinedSeq
<1>10. bx \in Seq(S) /\ Len(bx) = k + 1 /\ bx[k + 1] = x /\ \A i \in 1 .. k : bx[i] = b[i]
  OBVIOUS
<1>1. /\ m \in Nat /\ k \in Nat /\ ab \in Seq(S) /\ Len(ab) = m + k
      /\ bx \in Seq(S) /\ Len(bx) = k + 1 /\ bx[k + 1] = x /\ \A i \in 1 .. k : bx[i] = b[i]
  BY <1>8, <1>9, <1>10
<1>2. /\ \A i \in 1 .. m : ab[i] = a[i]
      /\ \A i \in 1 .. k : \A j : j = m + i => ab[j] = b[i]
  BY JoinedFirst, JoinedSecond
<1> HIDE DEF bx
<1>11. v \in Seq(S) /\ Len(v) = m + (k + 1)
  <2>1. v \in Seq(S) /\ Len(v) = Len(a) + Len(bx)
    BY <1>10, JoinedSeq
  <2> QED BY <1>10, <2>1
<1>12. \A i \in 1 .. m : v[i] = a[i]
  BY <1>1, JoinedFirst
<1>3. /\ v \in Seq(S) /\ Len(v) = m + (k + 1)
      /\ \A i \in 1 .. m : v[i] = a[i]
  BY <1>11, <1>12
<1>7. \A i \in 1 .. k + 1 : \A j : j = m + i => v[j] = bx[i]
  <2> SUFFICES ASSUME NEW i \in 1 .. k + 1, NEW j, j = m + i PROVE v[j] = bx[i]
    OBVIOUS
  <2>1. i \in 1 .. Len(bx) /\ j = Len(a) + i
    <3>1. Len(bx) = k + 1
      BY <1>10
    <3> QED BY <3>1, Zenon
  <2>2. Joined(a, bx)[j] = bx[i]
    <3>1. bx \in Seq(S)
      BY <1>10
    <3> QED BY <2>1, <3>1, JoinedSecond
  <2> QED BY <2>2 DEF v
<1> HIDE DEF v
<1>4. u \in Seq(S) /\ Len(u) = m + k + 1 /\ u[m + k + 1] = x /\ \A i \in 1 .. m + k : u[i] = ab[i]
  <2> HIDE DEF ab, m, k
  <2>1. ab \in Seq(S) /\ Len(ab) = m + k
    BY <1>9
  <2>2. u \in Seq(S) /\ Len(u) = Len(ab) + 1 /\ u[Len(ab) + 1] = x
    BY <2>1
  <2>3. \A i \in 1 .. Len(ab) : u[i] = ab[i]
    BY <2>1
  <2> QED BY <2>1, <2>2, <2>3, Zenon
<1> HIDE DEF ab, m, k, u, v, bx
<1>5. ASSUME NEW i \in 1 .. m + k + 1 PROVE u[i] = v[i]
  <2>1. CASE i \in 1 .. m
    BY <1>1, <1>2, <1>3, <1>4, <2>1
  <2>2. CASE i - m \in 1 .. k
    <3>1. i = m + (i - m) /\ i \in 1 .. m + k /\ i - m \in 1 .. k + 1
      BY <1>1, <2>2
    <3>2. u[i] = b[i - m]
      BY <1>2, <1>4, <2>2, <3>1
    <3>3. v[i] = bx[i - m]
      BY <1>7, <3>1
    <3> QED BY <1>1, <2>2, <3>2, <3>3
  <2>3. CASE i = m + k + 1
    <3>1. i = m + (k + 1) /\ k + 1 \in 1 .. k + 1
      BY <1>1, <2>3
    <3>2. v[i] = bx[k + 1]
      BY <1>7, <3>1
    <3> QED BY <1>1, <1>4, <2>3, <3>2
  <2>4. i \in 1 .. m \/ i - m \in 1 .. k \/ i = m + k + 1
    <3>1. m \in Nat /\ k \in Nat
      BY <1>1
    <3> QED BY <3>1
  <2> QED BY <2>1, <2>2, <2>3, <2>4
<1>6. u = v
  BY <1>1, <1>3, <1>4, <1>5, SameSeq
<1> QED BY <1>6 DEF u, v, ab, bx

\* Of a concatenation, Only keeps what it keeps of the parts.
LEMMA OnlyConcat ==
  ASSUME NEW S, NEW s \in Seq(S), NEW t \in Seq(S), NEW some
  PROVE  Only(Joined(s, t), some) = Joined(Only(s, some), Only(t, some))
<1> DEFINE st == Joined(s, t)
           m == Len(s)
           k == Len(t)
<1>8. m \in Nat /\ k \in Nat
  OBVIOUS
<1>9. st \in Seq(S) /\ Len(st) = m + k
  BY JoinedSeq
<1>10. \A i \in 1 .. m : st[i] = s[i]
  BY JoinedFirst
<1>1. /\ st \in Seq(S) /\ Len(st) = m + k /\ m \in Nat /\ k \in Nat
      /\ \A i \in 1 .. m : st[i] = s[i]
  BY <1>8, <1>9, <1>10
<1>7. \A i \in 1 .. k : \A j : j = m + i => st[j] = t[i]
  BY JoinedSecond
<1> HIDE DEF st
<1>2. PICK f : KeptUpTo(S, st, some, f, m + k)
  <2>1. PICK f : KeptUpTo(S, st, some, f, Len(st))
    BY <1>1, OnlyByPrefix
  <2> QED BY <1>1, <2>1
<1>3. PICK g : KeptUpTo(S, s, some, g, m)
  BY OnlyByPrefix
<1>4. PICK h : KeptUpTo(S, t, some, h, k)
  BY OnlyByPrefix
<1> HIDE DEF m, k
<1> USE DEF KeptUpTo
<1>5. f[m] = g[m]
  <2> DEFINE Good == {n \in 0 .. m : f[n] = g[n]}
  <2>1. 0 \in Good
    BY <1>1, <1>2, <1>3
  <2>2. ASSUME NEW n \in 1 .. m, n - 1 \in Good PROVE n \in Good
    <3>1. n \in 0 .. m /\ n \in 1 .. m + k /\ f[n - 1] = g[n - 1] /\ st[n] = s[n]
      BY <1>1, <2>2
    <3>2. f[n] = g[n]
      BY <1>2, <1>3, <3>1
    <3> QED BY <3>1, <3>2
  <2>3. \A n \in 0 .. m : n \in Good
    <3> HIDE DEF Good
    <3> QED BY <1>1, <2>1, <2>2, Climb
  <2>4. m \in 0 .. m
    BY <1>1
  <2> QED BY <2>3, <2>4
<1>6. f[m + k] = Joined(g[m], h[k])
  <2> DEFINE Good == {n \in 0 .. k : f[m + n] = Joined(g[m], h[n])}
  <2>0. g[m] \in Seq(S)
    BY <1>1, <1>3
  <2>1. 0 \in Good
    <3>1. Joined(g[m], <<>>) = g[m]
      BY <2>0, JoinedNone
    <3>2. m + 0 = m /\ 0 \in 0 .. k
      BY <1>1
    <3> QED BY <1>4, <1>5, <3>1, <3>2
  <2>2. ASSUME NEW n \in 1 .. k, n - 1 \in Good PROVE n \in Good
    <3>1. n \in 0 .. k /\ n - 1 \in 0 .. k /\ m + n \in 1 .. m + k /\ m + n - 1 = m + (n - 1)
      BY <1>1
    <3>2. f[m + (n - 1)] = Joined(g[m], h[n - 1]) /\ st[m + n] = t[n]
      BY <1>1, <1>7, <2>2
    <3>3. f[m + n] = IF t[n] \in some THEN Append(Joined(g[m], h[n - 1]), t[n]) ELSE Joined(g[m], h[n - 1])
      BY <1>1, <1>2, <3>1, <3>2
    <3>4. h[n] = IF t[n] \in some THEN Append(h[n - 1], t[n]) ELSE h[n - 1]
      BY <1>4
    <3>5. h[n - 1] \in Seq(S) /\ t[n] \in S
      BY <1>4, <3>1
    <3>6. Append(Joined(g[m], h[n - 1]), t[n]) = Joined(g[m], Append(h[n - 1], t[n]))
      <4> DEFINE u == g[m]
                 v == h[n - 1]
                 x == t[n]
      <4>1. u \in Seq(S) /\ v \in Seq(S) /\ x \in S
        BY <2>0, <3>5
      <4> HIDE DEF u, v, x
      <4>2. Append(Joined(u, v), x) = Joined(u, Append(v, x))
        BY <4>1, JoinedAppend
      <4> QED BY <4>2 DEF u, v, x
    <3>7. f[m + n] = Joined(g[m], h[n])
      BY <3>3, <3>4, <3>6
    <3> QED BY <3>1, <3>7
  <2>3. \A n \in 0 .. k : n \in Good
    <3> HIDE DEF Good
    <3> QED BY <1>1, <2>1, <2>2, Climb
  <2>4. k \in 0 .. k
    BY <1>1
  <2> QED BY <2>3, <2>4
<1> QED BY <1>2, <1>3, <1>4, <1>6 DEF st

\* It keeps all of what is in the set, none of what is not.
LEMMA OnlyAll ==
  ASSUME NEW S, NEW list \in Seq(S), NEW some, ToSet(list) \subseteq some
  PROVE  Only(list, some) = list
<1> DEFINE k == Len(list)
<1>1. PICK f : KeptUpTo(S, list, some, f, k)
  BY OnlyByPrefix
<1> USE DEF KeptUpTo
<1>2. k \in Nat /\ \A n \in 1 .. k : list[n] \in some /\ list[n] \in S
  BY DEF ToSet
<1> DEFINE Good == {n \in 0 .. k : Len(f[n]) = n /\ \A i \in 1 .. n : f[n][i] = list[i]}
<1>3. 0 \in Good
  <2>1. Len(f[0]) = 0 /\ \A i \in 1 .. 0 : f[0][i] = list[i]
    BY <1>1
  <2> QED BY <1>2, <2>1
<1>4. ASSUME NEW n \in 1 .. k, n - 1 \in Good PROVE n \in Good
  <2>1. n \in 0 .. k /\ n - 1 \in 0 .. k
    BY <1>2
  <2>2. f[n] = Append(f[n - 1], list[n]) /\ f[n - 1] \in Seq(S) /\ list[n] \in S
    BY <1>1, <1>2, <2>1
  <2>3. Len(f[n - 1]) = n - 1 /\ \A i \in 1 .. n - 1 : f[n - 1][i] = list[i]
    BY <1>4
  <2> HIDE DEF Good, k
  <2>4. Len(f[n]) = n /\ f[n][n] = list[n]
    BY <2>2, <2>3
  <2>5. ASSUME NEW i \in 1 .. n, i # n PROVE f[n][i] = list[i]
    <3>1. i \in 1 .. n - 1
      BY <2>5
    <3>2. f[n][i] = f[n - 1][i]
      BY <2>2, <2>3, <3>1
    <3> QED BY <2>3, <3>1, <3>2
  <2> QED BY <2>1, <2>4, <2>5 DEF Good
<1>5. k \in Good
  <2>1. \A n \in 0 .. k : n \in Good
    <3> HIDE DEF Good, k
    <3> QED BY <1>2, <1>3, <1>4, Climb
  <2>2. k \in 0 .. k
    BY <1>2
  <2> QED BY <2>1, <2>2
<1>6. f[k] \in Seq(S) /\ Len(f[k]) = Len(list) /\ \A i \in 1 .. Len(list) : f[k][i] = list[i]
  BY <1>1, <1>2, <1>5
<1>7. f[k] = list
  <2> DEFINE l == f[k]
  <2>1. l \in Seq(S) /\ Len(l) = Len(list) /\ \A i \in 1 .. Len(list) : l[i] = list[i]
    BY <1>6
  <2> HIDE DEF l
  <2>2. l = list
    BY <2>1
  <2> QED BY <2>2 DEF l
<1> QED BY <1>1, <1>7

\* It keeps nothing if nothing is in the set.
LEMMA OnlyNone ==
  ASSUME NEW S, NEW list \in Seq(S), NEW some, ToSet(list) \cap some = {}
  PROVE  Only(list, some) = <<>>
<1> DEFINE k == Len(list)
<1>1. PICK f : KeptUpTo(S, list, some, f, k)
  BY OnlyByPrefix
<1> USE DEF KeptUpTo
<1>2. k \in Nat /\ \A n \in 1 .. k : list[n] \notin some
  BY DEF ToSet
<1> DEFINE Good == {n \in 0 .. k : f[n] = <<>>}
<1> HIDE DEF k
<1>3. 0 \in Good
  BY <1>1, <1>2
<1>4. ASSUME NEW n \in 1 .. k, n - 1 \in Good PROVE n \in Good
  BY <1>1, <1>2, <1>4
<1>5. k \in Good
  <2>1. \A n \in 0 .. k : n \in Good
    <3> HIDE DEF Good
    <3> QED BY <1>2, <1>3, <1>4, Climb
  <2> QED BY <1>2, <2>1
<1> QED BY <1>1, <1>5

\* It keeps as many as there are.
LEMMA CountIsLen ==
  ASSUME NEW S, NEW list \in Seq(S), NEW some
  PROVE  Cardinality({i \in DOMAIN list : list[i] \in some}) = Len(Only(list, some))
<1> DEFINE k == Len(list)
           C(n) == {i \in 1 .. n : list[i] \in some}
<1>1. PICK f : KeptUpTo(S, list, some, f, k)
  BY OnlyByPrefix
<1> USE DEF KeptUpTo
<1>2. k \in Nat /\ DOMAIN list = 1 .. k
  OBVIOUS
<1> HIDE DEF k
<1> DEFINE Good == {n \in 0 .. k : IsFiniteSet(C(n)) /\ Cardinality(C(n)) = Len(f[n])}
<1>3. 0 \in Good
  <2>1. C(0) = {}
    OBVIOUS
  <2> HIDE DEF C
  <2>2. IsFiniteSet(C(0)) /\ Cardinality(C(0)) = 0
    BY <2>1, FS_EmptySet
  <2> QED BY <1>1, <1>2, <2>2
<1>4. ASSUME NEW n \in 1 .. k, n - 1 \in Good PROVE n \in Good
  <2>1. n \in 0 .. k /\ n - 1 \in 0 .. k /\ n \notin C(n - 1)
    BY <1>2
  <2>2. IsFiniteSet(C(n - 1)) /\ Cardinality(C(n - 1)) = Len(f[n - 1])
    BY <1>4
  <2>3. CASE list[n] \in some
    <3>1. C(n) = C(n - 1) \cup {n}
      BY <2>3
    <3>2. Len(f[n]) = Len(f[n - 1]) + 1
      <4> DEFINE s == f[n - 1]
                 x == list[n]
      <4>1. s \in Seq(S) /\ x \in S /\ f[n] = Append(s, x)
        BY <1>1, <2>1, <2>3
      <4> HIDE DEF s, x
      <4> QED BY <4>1 DEF s
    <3> HIDE DEF C
    <3>3. IsFiniteSet(C(n)) /\ Cardinality(C(n)) = Cardinality(C(n - 1)) + 1
      <4> DEFINE c == C(n - 1)
      <4>1. IsFiniteSet(c) /\ n \notin c /\ C(n) = c \cup {n}
        BY <2>1, <2>2, <3>1
      <4> HIDE DEF c
      <4>2. IsFiniteSet(c \cup {n}) /\ Cardinality(c \cup {n}) = Cardinality(c) + 1
        BY <4>1, FS_AddElement
      <4> QED BY <4>1, <4>2 DEF c
    <3> QED BY <2>1, <2>2, <3>2, <3>3
  <2>4. CASE list[n] \notin some
    <3>1. C(n) = C(n - 1)
      BY <2>4
    <3>2. f[n] = f[n - 1]
      BY <1>1, <2>4
    <3> HIDE DEF C
    <3> QED BY <2>1, <2>2, <3>1, <3>2
  <2> QED BY <2>3, <2>4
<1>5. k \in Good
  <2>1. \A n \in 0 .. k : n \in Good
    <3> HIDE DEF Good
    <3> QED BY <1>2, <1>3, <1>4, Climb
  <2> QED BY <1>2, <2>1
<1>6. Cardinality(C(k)) = Len(f[k])
  BY <1>5
<1>7. C(k) = {i \in DOMAIN list : list[i] \in some}
  BY <1>2
<1> QED BY <1>1, <1>6, <1>7

\* The first n results of doing step by step what step says.
Course(V, first, step, f, n) ==
  f \in [0 .. n -> V] /\ f[0] = first /\ \A i \in 1 .. n : f[i] = step[<<i, f[i - 1]>>]

\* There are such results for any number of steps.
LEMMA CourseExists ==
  ASSUME NEW V, NEW first \in V, NEW k \in Nat, NEW step \in [(1 .. k) \X V -> V]
  PROVE  \E f : Course(V, first, step, f, k)
<1> DEFINE Good == {n \in 0 .. k : \E f : Course(V, first, step, f, n)}
<1>1. 0 \in Good
  <2>1. Course(V, first, step, [i \in 0 .. 0 |-> first], 0)
    BY DEF Course
  <2> QED BY <2>1
<1>2. ASSUME NEW n \in 1 .. k, n - 1 \in Good PROVE n \in Good
  <2>1. PICK f : Course(V, first, step, f, n - 1)
    BY <1>2
  <2> DEFINE x == step[<<n, f[n - 1]>>]
             g == [i \in 0 .. n |-> IF i = n THEN x ELSE f[i]]
  <2>2. f \in [0 .. n - 1 -> V] /\ n - 1 \in 0 .. n - 1 /\ f[0] = first
    BY <2>1 DEF Course
  <2>3. x \in V
    BY <2>2
  <2>4. \A i \in 0 .. n - 1 : g[i] = f[i]
    OBVIOUS
  <2>5. g[n] = x
    OBVIOUS
  <2>6. \A i \in 0 .. n : (IF i = n THEN x ELSE f[i]) \in V
    <3> HIDE DEF x
    <3> QED BY <2>2, <2>3
  <2>7. g \in [0 .. n -> V]
    <3> HIDE DEF x
    <3> QED BY <2>6
  <2> HIDE DEF g
  <2>8. g[0] = first
    BY <2>2, <2>4
  <2>9. ASSUME NEW i \in 1 .. n PROVE g[i] = step[<<i, g[i - 1]>>]
    <3>1. CASE i = n
      <4>1. g[n - 1] = f[n - 1]
        BY <2>2, <2>4
      <4> QED BY <2>5, <3>1, <4>1
    <3>2. CASE i # n
      <4>1. i \in 1 .. n - 1 /\ i \in 0 .. n - 1 /\ i - 1 \in 0 .. n - 1
        BY <3>2
      <4>2. f[i] = step[<<i, f[i - 1]>>]
        BY <2>1, <4>1 DEF Course
      <4>3. g[i] = f[i] /\ g[i - 1] = f[i - 1]
        BY <2>4, <4>1
      <4> QED BY <4>2, <4>3
    <3> QED BY <3>1, <3>2
  <2>10. Course(V, first, step, g, n)
    BY <2>7, <2>8, <2>9 DEF Course
  <2> QED BY <2>10
<1>3. \A n \in 0 .. k : n \in Good
  <2> HIDE DEF Good
  <2> QED BY <1>1, <1>2, Climb
<1> QED BY <1>3

-----------------------------------------------------------------------------
(* Flattening, prefix by prefix. *)

\* What FlattenSeq computes, prefix by prefix.
Pieces(S, seqs, f, k) ==
  /\ Len(seqs) = k /\ k \in Nat /\ f[0] = <<>> /\ Export!FlattenSeq(seqs) = f[k]
  /\ \A n \in 1 .. k : seqs[n] \in Seq(S) /\ f[n] = Joined(f[n - 1], seqs[n])
  /\ \A n \in 0 .. k : f[n] \in Seq(S)

\* It computes it so for every list of lists.
LEMMA FlatByPrefix ==
  ASSUME NEW S, NEW seqs \in Seq(Seq(S))
  PROVE  \E f : Pieces(S, seqs, f, Len(seqs))
<1> DEFINE k == Len(seqs)
           h == CHOOSE g : Flat(seqs, g, k)
           f == [n \in 0 .. k |-> IF n = 0 THEN <<>> ELSE h[n]]
<1>1. k \in Nat /\ \A i \in 1 .. k : seqs[i] \in Seq(S)
  OBVIOUS
<1>2. Flat(seqs, h, k)
  BY <1>1, FlatExists, Zenon
<1>3. k # 0 => Export!FlattenSeq(seqs) = h[k]
  BY Zenon DEF Export!FlattenSeq, Flat
<1>4. k = 0 => Export!FlattenSeq(seqs) = <<>>
  BY DEF Export!FlattenSeq
<1> HIDE DEF h, k
<1>5. h = [i \in 1 .. k |-> IF i = 1 THEN seqs[i] ELSE h[i - 1] \o seqs[i]]
  BY <1>2, Zenon DEF Flat
<1>6. ASSUME NEW i \in 1 .. k PROVE h[i] = IF i = 1 THEN seqs[i] ELSE Joined(h[i - 1], seqs[i])
  BY <1>5, Zenon DEF Joined
<1>7. f[0] = <<>> /\ \A i \in 1 .. k : f[i] = h[i]
  BY <1>1
<1> HIDE DEF f
<1>8. ASSUME NEW n \in 1 .. k PROVE f[n] = Joined(f[n - 1], seqs[n])
  <2>1. CASE n = 1
    <3>1. Joined(<<>>, seqs[1]) = seqs[1]
      BY <1>1, <2>1, JoinedNone
    <3>2. n - 1 = 0
      BY <2>1
    <3> QED BY <1>6, <1>7, <2>1, <3>1, <3>2, Zenon
  <2>2. CASE n # 1
    <3>1. n - 1 \in 1 .. k
      BY <1>1, <2>2
    <3> QED BY <1>6, <1>7, <2>2, <3>1, Zenon
  <2> QED BY <2>1, <2>2
<1> DEFINE Good == {n \in 0 .. k : f[n] \in Seq(S)}
<1>9. \A n \in 0 .. k : n \in Good
  <2>1. 0 \in Good
    <3>1. <<>> \in Seq(S) /\ 0 \in 0 .. k
      BY <1>1
    <3> QED BY <1>7, <3>1, Zenon
  <2>2. ASSUME NEW n \in 1 .. k, n - 1 \in Good PROVE n \in Good
    <3>1. f[n - 1] \in Seq(S) /\ seqs[n] \in Seq(S) /\ n \in 0 .. k
      BY <1>1, <2>2
    <3>2. f[n] \in Seq(S)
      <4> DEFINE u == f[n - 1]
                 v == seqs[n]
      <4>1. u \in Seq(S) /\ v \in Seq(S)
        BY <3>1
      <4> HIDE DEF u, v
      <4>2. Joined(u, v) \in Seq(S)
        BY <4>1, JoinedSeq
      <4> QED BY <1>8, <4>2 DEF u, v
    <3> QED BY <3>1, <3>2
  <2> HIDE DEF Good
  <2> QED BY <1>1, <2>1, <2>2, Climb
<1>10. Export!FlattenSeq(seqs) = f[k]
  BY <1>1, <1>3, <1>4, <1>7
<1>11. Pieces(S, seqs, f, k)
  BY <1>1, <1>7, <1>8, <1>9, <1>10 DEF Pieces, k
<1> QED BY <1>11 DEF k

\* Only looks at the elements of the list.
LEMMA OnlySame ==
  ASSUME NEW S, NEW list \in Seq(S), NEW some, NEW others, \A x \in ToSet(list) : x \in some <=> x \in others
  PROVE  Only(list, some) = Only(list, others)
<1> DEFINE k == Len(list)
<1>1. PICK f : KeptUpTo(S, list, some, f, k)
  BY OnlyByPrefix
<1>2. PICK g : KeptUpTo(S, list, others, g, k)
  BY OnlyByPrefix
<1> USE DEF KeptUpTo
<1>3. k \in Nat /\ \A n \in 1 .. k : list[n] \in some <=> list[n] \in others
  BY DEF ToSet
<1> DEFINE Good == {n \in 0 .. k : f[n] = g[n]}
<1> HIDE DEF k
<1>4. 0 \in Good
  BY <1>1, <1>2, <1>3
<1>5. ASSUME NEW n \in 1 .. k, n - 1 \in Good PROVE n \in Good
  <2>1. f[n - 1] = g[n - 1] /\ n \in 0 .. k
    BY <1>3, <1>5
  <2>2. list[n] \in some <=> list[n] \in others
    BY <1>3
  <2>3. f[n] = IF list[n] \in some THEN Append(f[n - 1], list[n]) ELSE f[n - 1]
    BY <1>1, Zenon
  <2>4. g[n] = IF list[n] \in others THEN Append(g[n - 1], list[n]) ELSE g[n - 1]
    BY <1>2, Zenon
  <2>5. f[n] = g[n]
    <3> HIDE DEF KeptUpTo
    <3>1. CASE list[n] \in some
      BY <2>1, <2>2, <2>3, <2>4, <3>1, Zenon
    <3>2. CASE list[n] \notin some
      BY <2>1, <2>2, <2>3, <2>4, <3>2, Zenon
    <3> QED BY <3>1, <3>2
  <2> QED BY <2>1, <2>5
<1>6. k \in Good
  <2>1. \A n \in 0 .. k : n \in Good
    <3> HIDE DEF Good
    <3> QED BY <1>3, <1>4, <1>5, Climb
  <2> QED BY <1>3, <2>1
<1> QED BY <1>1, <1>2, <1>6

\* The elements of an instance's operators are those of this module's.
LEMMA ExportSame ==
  /\ \A l, some : Export!Only(l, some) = Only(l, some) /\ Export!ToSet(l) = ToSet(l)
  /\ \A S : Export!Cardinality(S) = Cardinality(S)
<1>1. \A l, some : Export!Only(l, some) = Only(l, some) /\ Export!ToSet(l) = ToSet(l)
  BY DEF Export!Only, Only, Export!ToSet, ToSet
<1>2. \A S : Export!Cardinality(S) = Cardinality(S)
  BY Zenon DEF Export!Cardinality, Cardinality
<1> QED BY <1>1, <1>2

-----------------------------------------------------------------------------
(* The splice. *)

\* A text, where it goes.
Placed(i, end, text) == IF end = i THEN text ELSE <<>>

\* What stands before a loaded line, and the line.
PieceAt(loaded, receiversEnd, receivers, routesEnd, routes, i) ==
  Joined(Joined(Placed(i, receiversEnd, receivers), Placed(i, routesEnd, routes)),
         IF i \in DOMAIN loaded THEN <<loaded[i]>> ELSE <<>>)

\* All pieces, of which the last has no line.
Body(loaded, receiversEnd, receivers, routesEnd, routes) ==
  [i \in 1 .. Len(loaded) + 1 |-> PieceAt(loaded, receiversEnd, receivers, routesEnd, routes, i)]

\* The spliced document is that body, and what has no block.
LEMMA SpliceForm ==
  ASSUME NEW loaded, NEW receivers, NEW routes
  PROVE  LET a == Export!Ends(loaded).receivers
             b == Export!Ends(loaded).routes
         IN Export!Splice(loaded, receivers, routes) =
              Joined(Joined(Export!FlattenSeq(Body(loaded, a, receivers, b, routes)), Placed(0, a, receivers)),
                     Placed(0, b, routes))
<1> DEFINE a == Export!Ends(loaded).receivers
           b == Export!Ends(loaded).routes
<1> DEFINE here(i, end, text) == IF i = end THEN text ELSE <<>>
           line(i) == IF i \in DOMAIN loaded THEN <<loaded[i]>> ELSE <<>>
<1>1. \A i \in 1 .. Len(loaded) + 1 : here(i, a, receivers) = Placed(i, a, receivers) /\ here(i, b, routes) = Placed(i, b, routes)
  BY Zenon DEF Placed
<1> HIDE DEF here, line
<1>2. \A i \in 1 .. Len(loaded) + 1 : here(i, a, receivers) \o here(i, b, routes) \o line(i)
                                        = Joined(Joined(Placed(i, a, receivers), Placed(i, b, routes)), line(i))
  BY <1>1, Zenon DEF Joined
<1>3. [i \in 1 .. Len(loaded) + 1 |-> here(i, a, receivers) \o here(i, b, routes) \o line(i)]
        = [i \in 1 .. Len(loaded) + 1 |-> Joined(Joined(Placed(i, a, receivers), Placed(i, b, routes)), line(i))]
  BY <1>2, Zenon
<1>4. Export!Splice(loaded, receivers, routes) =
        Export!FlattenSeq([i \in 1 .. Len(loaded) + 1 |-> here(i, a, receivers) \o here(i, b, routes) \o line(i)])
          \o (IF a = 0 THEN receivers ELSE <<>>) \o (IF b = 0 THEN routes ELSE <<>>)
  BY Zenon DEF Export!Splice, here, line
<1> QED BY <1>3, <1>4, Zenon DEF Body, PieceAt, line, Joined, Placed

\* Loaded lines and added ones, told apart by two sets.
Apart(S, loaded, receivers, routes, P, Q) ==
  /\ loaded \in Seq(S) /\ receivers \in Seq(S) /\ routes \in Seq(S)
  /\ ToSet(loaded) \subseteq P /\ ToSet(loaded) \cap Q = {}
  /\ ToSet(receivers) \subseteq Q /\ ToSet(receivers) \cap P = {}
  /\ ToSet(routes) \subseteq Q /\ ToSet(routes) \cap P = {}

\* What is placed at a point is a text or nothing.
LEMMA PlacedText ==
  ASSUME NEW S, NEW text \in Seq(S), NEW i, NEW end, NEW some
  PROVE  /\ Placed(i, end, text) \in Seq(S)
         /\ ToSet(text) \subseteq some => Only(Placed(i, end, text), some) = Placed(i, end, text)
         /\ ToSet(text) \cap some = {} => Only(Placed(i, end, text), some) = <<>>
<1> DEFINE p == Placed(i, end, text)
<1>1. p \in Seq(S) /\ ToSet(p) \subseteq ToSet(text)
  <2>1. CASE end = i
    BY <2>1, Zenon DEF Placed
  <2>2. CASE end # i
    <3>1. p = <<>>
      BY <2>2, Zenon DEF Placed
    <3>2. <<>> \in Seq(S) /\ ToSet(<<>>) = {}
      BY DEF ToSet
    <3> QED BY <3>1, <3>2, Zenon
  <2> QED BY <2>1, <2>2
<1> HIDE DEF p
<1>2. ToSet(text) \subseteq some => Only(p, some) = p
  BY <1>1, OnlyAll
<1>3. ToSet(text) \cap some = {} => Only(p, some) = <<>>
  <2>1. ToSet(text) \cap some = {} => ToSet(p) \cap some = {}
    BY <1>1
  <2> QED BY <1>1, <2>1, OnlyNone
<1> QED BY <1>1, <1>2, <1>3 DEF p

\* Of a loaded line there is the line; of what comes before it, the additions.
LEMMA PieceKeeps ==
  ASSUME NEW S, NEW loaded, NEW receivers, NEW routes, NEW P, NEW Q,
         Apart(S, loaded, receivers, routes, P, Q), NEW a, NEW b, NEW i
  PROVE  /\ PieceAt(loaded, a, receivers, b, routes, i) \in Seq(S)
         /\ Only(PieceAt(loaded, a, receivers, b, routes, i), P) = IF i \in DOMAIN loaded THEN <<loaded[i]>> ELSE <<>>
         /\ Only(PieceAt(loaded, a, receivers, b, routes, i), Q) = Joined(Placed(i, a, receivers), Placed(i, b, routes))
<1> DEFINE u == Placed(i, a, receivers)
           v == Placed(i, b, routes)
           l == IF i \in DOMAIN loaded THEN <<loaded[i]>> ELSE <<>>
<1>1. /\ u \in Seq(S) /\ Only(u, Q) = u /\ Only(u, P) = <<>>
      /\ v \in Seq(S) /\ Only(v, Q) = v /\ Only(v, P) = <<>>
  BY PlacedText DEF Apart
<1>2. l \in Seq(S) /\ Only(l, P) = l /\ Only(l, Q) = <<>>
  <2>1. CASE i \in DOMAIN loaded
    <3> DEFINE x == loaded[i]
    <3>1. x \in S /\ x \in P /\ x \notin Q
      BY <2>1 DEF Apart, ToSet
    <3>2. l = <<x>>
      BY <2>1, Zenon
    <3> HIDE DEF x, l
    <3>3. <<x>> \in Seq(S) /\ ToSet(<<x>>) = {x}
      BY <3>1 DEF ToSet
    <3>4. Only(<<x>>, P) = <<x>> /\ Only(<<x>>, Q) = <<>>
      <4> DEFINE s == <<x>>
      <4>1. s \in Seq(S) /\ ToSet(s) \subseteq P /\ ToSet(s) \cap Q = {}
        BY <3>1, <3>3
      <4> HIDE DEF s
      <4>2. Only(s, P) = s
        BY <4>1, OnlyAll
      <4>3. Only(s, Q) = <<>>
        BY <4>1, OnlyNone
      <4> QED BY <4>2, <4>3 DEF s
    <3> QED BY <3>2, <3>3, <3>4, Zenon
  <2>2. CASE i \notin DOMAIN loaded
    <3>1. l = <<>>
      BY <2>2, Zenon
    <3>2. <<>> \in Seq(S) /\ Only(<<>>, P) = <<>> /\ Only(<<>>, Q) = <<>>
      <4> DEFINE s == <<>>
      <4>1. s \in Seq(S) /\ ToSet(s) = {} 
        BY DEF ToSet
      <4> HIDE DEF s
      <4>2. Only(s, P) = <<>>
        BY <4>1, OnlyNone
      <4>3. Only(s, Q) = <<>>
        BY <4>1, OnlyNone
      <4> QED BY <4>1, <4>2, <4>3 DEF s
    <3> QED BY <3>1, <3>2, Zenon
  <2> QED BY <2>1, <2>2
<1>3. PieceAt(loaded, a, receivers, b, routes, i) = Joined(Joined(u, v), l)
  BY Zenon DEF PieceAt
<1> HIDE DEF u, v, l
<1> DEFINE w == Joined(u, v)
<1>4. w \in Seq(S)
  BY <1>1, JoinedSeq
<1>5. \A some : Only(w, some) = Joined(Only(u, some), Only(v, some))
  BY <1>1, OnlyConcat
<1>6. Joined(<<>>, <<>>) = <<>>
  BY DEF Joined
<1>7. Only(w, P) = <<>> /\ Only(w, Q) = w
  BY <1>1, <1>5, <1>6, Zenon
<1> HIDE DEF w
<1>8. Joined(w, l) \in Seq(S)
  BY <1>2, <1>4, JoinedSeq
<1>9. \A some : Only(Joined(w, l), some) = Joined(Only(w, some), Only(l, some))
  BY <1>2, <1>4, OnlyConcat
<1>10. Joined(<<>>, l) = l /\ Joined(w, <<>>) = w
  BY <1>2, <1>4, JoinedNone
<1>11. Only(Joined(w, l), P) = l /\ Only(Joined(w, l), Q) = w
  BY <1>2, <1>7, <1>9, <1>10, Zenon
<1> QED BY <1>3, <1>8, <1>11, Zenon DEF w, u, v, l

\* The additions that a prefix of the document has.
Behind(n, end, text) == IF end \in 1 .. n THEN text ELSE <<>>

\* They come in the order of the ends, the receivers first if both are one.
AdditionsTo(n, a, receivers, b, routes) ==
  IF b < a THEN Joined(Behind(n, b, routes), Behind(n, a, receivers))
  ELSE Joined(Behind(n, a, receivers), Behind(n, b, routes))

\* One line more.
LEMMA AdditionsStep ==
  ASSUME NEW S, NEW receivers \in Seq(S), NEW routes \in Seq(S), NEW a \in Nat, NEW b \in Nat, NEW n \in Nat \ {0}
  PROVE  Joined(AdditionsTo(n - 1, a, receivers, b, routes), Joined(Placed(n, a, receivers), Placed(n, b, routes)))
           = AdditionsTo(n, a, receivers, b, routes)
<1> DEFINE A == Behind(n - 1, a, receivers)
           B == Behind(n - 1, b, routes)
           C == Behind(n, a, receivers)
           D == Behind(n, b, routes)
           u == Placed(n, a, receivers)
           v == Placed(n, b, routes)
<1>1. <<>> \in Seq(S)
  OBVIOUS
<1>2. A \in Seq(S) /\ B \in Seq(S)
  BY <1>1, Zenon DEF Behind
<1>3. \A e \in Nat : /\ e = n => e \notin 1 .. n - 1 /\ e \in 1 .. n
                     /\ e # n => (e \in 1 .. n <=> e \in 1 .. n - 1)
  OBVIOUS
<1>4. /\ a = n => A = <<>> /\ C = receivers /\ u = receivers
      /\ a # n => A = C /\ u = <<>>
      /\ b = n => B = <<>> /\ D = routes /\ v = routes
      /\ b # n => B = D /\ v = <<>>
  BY <1>3, Zenon DEF Behind, Placed
<1>5. /\ a = n /\ ~(b < a) /\ b # n => B = <<>>
      /\ b = n /\ b < a => A = <<>>
  <2>1. /\ a = n /\ ~(b < a) /\ b # n => b \notin 1 .. n - 1
        /\ b = n /\ b < a => a \notin 1 .. n - 1
    OBVIOUS
  <2> QED BY <2>1, Zenon DEF Behind
<1>6. \A x \in Seq(S) : Joined(x, <<>>) = x /\ Joined(<<>>, x) = x
  BY JoinedNone
<1>7. a = n /\ b = n => ~(b < a)
  OBVIOUS
<1>8. AdditionsTo(n - 1, a, receivers, b, routes) = IF b < a THEN Joined(B, A) ELSE Joined(A, B)
  BY Zenon DEF AdditionsTo
<1>9. AdditionsTo(n, a, receivers, b, routes) = IF b < a THEN Joined(D, C) ELSE Joined(C, D)
  BY Zenon DEF AdditionsTo
<1>10. Joined(A, B) \in Seq(S) /\ Joined(B, A) \in Seq(S)
  <2> HIDE DEF A, B
  <2> QED BY <1>2, JoinedSeq
<1> HIDE DEF A, B, C, D, u, v
<1>11. CASE a = n /\ b = n
  <2>1. Joined(<<>>, <<>>) = <<>> /\ Joined(receivers, routes) \in Seq(S)
    BY <1>1, <1>6, JoinedSeq
  <2>2. AdditionsTo(n - 1, a, receivers, b, routes) = <<>>
    BY <1>4, <1>8, <1>11, <2>1, Zenon
  <2>3. AdditionsTo(n, a, receivers, b, routes) = Joined(receivers, routes)
    BY <1>4, <1>7, <1>9, <1>11, Zenon
  <2> QED BY <1>4, <1>6, <1>11, <2>1, <2>2, <2>3, Zenon DEF u, v
<1>12. CASE a = n /\ b # n
  <2>1. Joined(u, v) = receivers
    BY <1>4, <1>6, <1>12, Zenon
  <2>2. CASE b < a
    <3>1. AdditionsTo(n - 1, a, receivers, b, routes) = B
      BY <1>2, <1>4, <1>6, <1>8, <1>12, <2>2, Zenon
    <3> QED BY <1>4, <1>9, <1>12, <2>1, <2>2, <3>1, Zenon DEF u, v
  <2>3. CASE ~(b < a)
    <3>1. AdditionsTo(n - 1, a, receivers, b, routes) = <<>>
      BY <1>1, <1>4, <1>5, <1>6, <1>8, <1>12, <2>3, Zenon
    <3>2. AdditionsTo(n, a, receivers, b, routes) = receivers
      BY <1>4, <1>5, <1>6, <1>9, <1>12, <2>3, Zenon
    <3> QED BY <1>6, <2>1, <3>1, <3>2, Zenon DEF u, v
  <2> QED BY <2>2, <2>3
<1>13. CASE a # n /\ b = n
  <2>1. Joined(u, v) = routes
    BY <1>4, <1>6, <1>13, Zenon
  <2>2. CASE b < a
    <3>1. AdditionsTo(n - 1, a, receivers, b, routes) = <<>>
      BY <1>1, <1>4, <1>5, <1>6, <1>8, <1>13, <2>2, Zenon
    <3>2. AdditionsTo(n, a, receivers, b, routes) = routes
      BY <1>4, <1>5, <1>6, <1>9, <1>13, <2>2, Zenon
    <3> QED BY <1>6, <2>1, <3>1, <3>2, Zenon DEF u, v
  <2>3. CASE ~(b < a)
    <3>1. AdditionsTo(n - 1, a, receivers, b, routes) = A
      BY <1>2, <1>4, <1>6, <1>8, <1>13, <2>3, Zenon
    <3> QED BY <1>4, <1>9, <1>13, <2>1, <2>3, <3>1, Zenon DEF u, v
  <2> QED BY <2>2, <2>3
<1>14. CASE a # n /\ b # n
  <2>1. Joined(u, v) = <<>>
    BY <1>1, <1>4, <1>6, <1>14, Zenon
  <2>2. AdditionsTo(n - 1, a, receivers, b, routes) \in Seq(S)
    BY <1>8, <1>10, Zenon
  <2>4. A = C /\ B = D
    BY <1>4, <1>14, Zenon
  <2>3. AdditionsTo(n - 1, a, receivers, b, routes) = AdditionsTo(n, a, receivers, b, routes)
    <3>1. (IF b < a THEN Joined(B, A) ELSE Joined(A, B)) = IF b < a THEN Joined(D, C) ELSE Joined(C, D)
      BY <2>4
    <3> QED BY <1>8, <1>9, <3>1
  <2> QED BY <1>6, <2>1, <2>2, <2>3, Zenon DEF u, v
<1> QED BY <1>11, <1>12, <1>13, <1>14, Zenon

\* Line by line: the loaded lines so far, and the additions so far.
LEMMA BodyKeeps ==
  ASSUME NEW S, NEW loaded, NEW receivers, NEW routes, NEW P, NEW Q,
         Apart(S, loaded, receivers, routes, P, Q), NEW a \in Nat, NEW b \in Nat
  PROVE  LET body == Export!FlattenSeq(Body(loaded, a, receivers, b, routes))
         IN body \in Seq(S) /\ Only(body, P) = loaded /\ Only(body, Q) = AdditionsTo(Len(loaded) + 1, a, receivers, b, routes)
<1> DEFINE n == Len(loaded)
           piece(i) == PieceAt(loaded, a, receivers, b, routes, i)
           seqs == Body(loaded, a, receivers, b, routes)
           gathered(i) == AdditionsTo(i, a, receivers, b, routes)
<1>0. loaded \in Seq(S) /\ receivers \in Seq(S) /\ routes \in Seq(S) /\ ToSet(loaded) \subseteq P
  BY DEF Apart
<1>1. n \in Nat /\ DOMAIN loaded = 1 .. n
  BY <1>0
<1>2. \A i : /\ piece(i) \in Seq(S)
             /\ Only(piece(i), P) = IF i \in DOMAIN loaded THEN <<loaded[i]>> ELSE <<>>
             /\ Only(piece(i), Q) = Joined(Placed(i, a, receivers), Placed(i, b, routes))
  BY PieceKeeps
<1>3. seqs = [i \in 1 .. n + 1 |-> piece(i)]
  BY DEF Body
<1> HIDE DEF piece, seqs, n
<1>4. seqs \in Seq(Seq(S)) /\ Len(seqs) = n + 1 /\ \A i \in 1 .. n + 1 : seqs[i] = piece(i)
  <2> DEFINE T == Seq(S)
  <2>1. \A i \in 1 .. n + 1 : piece(i) \in T
    BY <1>2
  <2> HIDE DEF T
  <2>2. seqs \in Seq(T) /\ Len(seqs) = n + 1 /\ \A i \in 1 .. n + 1 : seqs[i] = piece(i)
    BY <1>1, <1>3, <2>1
  <2> QED BY <2>2 DEF T
<1>5. PICK f : Pieces(S, seqs, f, n + 1)
  <2>1. PICK f : Pieces(S, seqs, f, Len(seqs))
    BY <1>4, FlatByPrefix
  <2> QED BY <1>4, <2>1
<1>6. /\ f[0] = <<>> /\ Export!FlattenSeq(seqs) = f[n + 1]
      /\ \A i \in 0 .. n + 1 : f[i] \in Seq(S)
      /\ \A i \in 1 .. n + 1 : f[i] = Joined(f[i - 1], piece(i))
  BY <1>4, <1>5, Zenon DEF Pieces
<1>7. ASSUME NEW i \in 1 .. n + 1, NEW some
      PROVE  Only(f[i], some) = Joined(Only(f[i - 1], some), Only(piece(i), some))
  <2> DEFINE u == f[i - 1]
             v == piece(i)
  <2>1. u \in Seq(S) /\ v \in Seq(S)
    <3>1. i - 1 \in 0 .. n + 1
      BY <1>1
    <3> QED BY <1>2, <1>6, <3>1, Zenon
  <2>2. f[i] = Joined(u, v)
    BY <1>6
  <2> HIDE DEF u, v
  <2>3. Only(Joined(u, v), some) = Joined(Only(u, some), Only(v, some))
    BY <2>1, OnlyConcat
  <2> QED BY <2>2, <2>3, Zenon DEF u, v
<1>8. \A some : Only(<<>>, some) = <<>>
  <2> DEFINE s == <<>>
  <2>1. s \in Seq(S) /\ ToSet(s) = {}
    BY DEF ToSet
  <2> HIDE DEF s
  <2>2. \A some : Only(s, some) = <<>>
    BY <2>1, OnlyNone
  <2> QED BY <2>2 DEF s
<1>9. PICK g : KeptUpTo(S, loaded, P, g, n)
  BY <1>0, OnlyByPrefix DEF n
<1>10. g[0] = <<>> /\ g[n] = loaded /\ \A i \in 1 .. n : g[i] = Append(g[i - 1], loaded[i]) /\ loaded[i] \in S
  <2>1. \A i \in 1 .. n : loaded[i] \in P /\ loaded[i] \in S
    BY <1>0, <1>1 DEF ToSet
  <2>2. Only(loaded, P) = loaded
    BY <1>0, OnlyAll
  <2> QED BY <1>9, <2>1, <2>2, Zenon DEF KeptUpTo
<1>11. \A i \in 0 .. n : g[i] \in Seq(S)
  BY <1>9 DEF KeptUpTo
<1> DEFINE Plain == {i \in 0 .. n : Only(f[i], P) = g[i]}
           Extra == {i \in 0 .. n + 1 : Only(f[i], Q) = gathered(i)}
<1>12. n \in Plain
  <2>1. 0 \in Plain
    <3>1. 0 \in 0 .. n
      BY <1>1
    <3> QED BY <1>6, <1>8, <1>10, <3>1, Zenon
  <2>2. ASSUME NEW i \in 1 .. n, i - 1 \in Plain PROVE i \in Plain
    <3>1. i \in 1 .. n + 1 /\ i \in 0 .. n /\ i - 1 \in 0 .. n
      BY <1>1
    <3>2. Only(f[i], P) = Joined(g[i - 1], <<loaded[i]>>)
      BY <1>1, <1>2, <1>7, <2>2, <3>1, Zenon
    <3>3. Joined(g[i - 1], <<loaded[i]>>) = Append(g[i - 1], loaded[i])
      <4> DEFINE u == g[i - 1]
                 x == loaded[i]
      <4>1. u \in Seq(S) /\ x \in S
        BY <1>10, <1>11, <3>1, Zenon
      <4> HIDE DEF u, x
      <4>2. u \o <<x>> = Append(u, x)
        BY <4>1
      <4> QED BY <4>2, Zenon DEF Joined, u, x
    <3> QED BY <1>10, <3>1, <3>2, <3>3, Zenon
  <2>3. \A i \in 0 .. n : i \in Plain
    <3> HIDE DEF Plain
    <3> QED BY <1>1, <2>1, <2>2, Climb
  <2>4. n \in 0 .. n
    BY <1>1
  <2> QED BY <2>3, <2>4
<1>13. Only(f[n + 1], P) = loaded
  <2>1. n + 1 \in 1 .. n + 1 /\ (n + 1) - 1 = n /\ n + 1 \notin 1 .. n
    BY <1>1
  <2>2. Only(f[n + 1], P) = Joined(Only(f[n], P), Only(piece(n + 1), P))
    <3>1. Only(f[n + 1], P) = Joined(Only(f[(n + 1) - 1], P), Only(piece(n + 1), P))
      BY <1>7, <2>1
    <3> QED BY <2>1, <3>1, Zenon
  <2>3. Only(piece(n + 1), P) = <<>> /\ Only(f[n], P) = loaded
    BY <1>1, <1>2, <1>10, <1>12, <2>1, Zenon
  <2>4. Joined(loaded, <<>>) = loaded
    BY <1>0, JoinedNone
  <2> QED BY <2>2, <2>3, <2>4, Zenon
<1>14. n + 1 \in Extra
  <2>1. 0 \in Extra
    <3>1. 0 \in 0 .. n + 1 /\ a \notin 1 .. 0 /\ b \notin 1 .. 0
      BY <1>1
    <3>2. Joined(<<>>, <<>>) = <<>>
      BY DEF Joined
    <3>3. gathered(0) = <<>>
      BY <3>1, <3>2, Zenon DEF AdditionsTo, Behind
    <3> QED BY <1>6, <1>8, <3>1, <3>3, Zenon
  <2>2. ASSUME NEW i \in 1 .. n + 1, i - 1 \in Extra PROVE i \in Extra
    <3>1. i \in 0 .. n + 1 /\ i \in Nat \ {0}
      BY <1>1
    <3>2. Only(f[i], Q) = Joined(gathered(i - 1), Joined(Placed(i, a, receivers), Placed(i, b, routes)))
      BY <1>2, <1>7, <2>2, Zenon
    <3>3. Joined(gathered(i - 1), Joined(Placed(i, a, receivers), Placed(i, b, routes))) = gathered(i)
      BY <1>0, <3>1, AdditionsStep
    <3> QED BY <3>1, <3>2, <3>3, Zenon
  <2>3. \A i \in 0 .. n + 1 : i \in Extra
    <3> HIDE DEF Extra
    <3>1. n + 1 \in Nat
      BY <1>1
    <3> DEFINE m == n + 1
    <3>2. m \in Nat /\ 0 \in Extra /\ \A i \in 1 .. m : i - 1 \in Extra => i \in Extra
      BY <2>1, <2>2, <3>1
    <3> HIDE DEF m
    <3>3. \A i \in 0 .. m : i \in Extra
      BY <3>2, Climb
    <3> QED BY <3>3 DEF m
  <2>4. n + 1 \in 0 .. n + 1
    BY <1>1
  <2> QED BY <2>3, <2>4
<1>15. f[n + 1] \in Seq(S)
  <2>1. n + 1 \in 0 .. n + 1
    BY <1>1
  <2> QED BY <1>6, <2>1, Zenon
<1> QED BY <1>6, <1>13, <1>14, <1>15, Zenon DEF seqs, n

\* Every addition is there once and in order, and nothing loaded has changed.
LEMMA SpliceKeeps ==
  ASSUME NEW S, NEW loaded, NEW receivers, NEW routes, NEW P, NEW Q,
         Apart(S, loaded, receivers, routes, P, Q),
         Export!Ends(loaded).receivers \in 0 .. Len(loaded) + 1,
         Export!Ends(loaded).routes \in 0 .. Len(loaded) + 1
  PROVE  LET merged == Export!Splice(loaded, receivers, routes)
         IN /\ merged \in Seq(S) /\ Only(merged, P) = loaded
            /\ Only(merged, Q) \in {receivers \o routes, routes \o receivers}
<1> DEFINE a == Export!Ends(loaded).receivers
           b == Export!Ends(loaded).routes
           n == Len(loaded) + 1
           body == Export!FlattenSeq(Body(loaded, a, receivers, b, routes))
           u == Placed(0, a, receivers)
           v == Placed(0, b, routes)
           merged == Export!Splice(loaded, receivers, routes)
<1>1. /\ loaded \in Seq(S) /\ receivers \in Seq(S) /\ routes \in Seq(S)
      /\ ToSet(receivers) \subseteq Q /\ ToSet(receivers) \cap P = {}
      /\ ToSet(routes) \subseteq Q /\ ToSet(routes) \cap P = {}
  BY DEF Apart
<1>2. n \in Nat /\ a \in 0 .. n /\ b \in 0 .. n /\ a \in Nat /\ b \in Nat
  <2>1. n \in Nat /\ a \in 0 .. n /\ b \in 0 .. n
    BY <1>1
  <2> HIDE DEF a, b, n
  <2> QED BY <2>1
<1>3. merged = Joined(Joined(body, u), v)
  BY SpliceForm, Zenon
<1> HIDE DEF a, b, merged
<1>4. body \in Seq(S) /\ Only(body, P) = loaded /\ Only(body, Q) = AdditionsTo(n, a, receivers, b, routes)
  BY <1>2, BodyKeeps
<1>5. /\ u \in Seq(S) /\ Only(u, P) = <<>> /\ Only(u, Q) = u
      /\ v \in Seq(S) /\ Only(v, P) = <<>> /\ Only(v, Q) = v
  BY <1>1, PlacedText
<1> HIDE DEF body
<1>6. \A x \in Seq(S) : Joined(x, <<>>) = x /\ Joined(<<>>, x) = x
  BY JoinedNone
<1>7. ASSUME NEW some
      PROVE  Only(merged, some) = Joined(Joined(Only(body, some), Only(u, some)), Only(v, some))
  <2> HIDE DEF u, v
  <2> DEFINE w == Joined(body, u)
  <2>1. w \in Seq(S) /\ Only(w, some) = Joined(Only(body, some), Only(u, some))
    BY <1>4, <1>5, JoinedSeq, OnlyConcat
  <2> HIDE DEF w
  <2>2. Only(Joined(w, v), some) = Joined(Only(w, some), Only(v, some))
    BY <1>5, <2>1, OnlyConcat
  <2> QED BY <1>3, <2>1, <2>2, Zenon DEF w
<1>8. merged \in Seq(S)
  <2> HIDE DEF u, v
  <2> DEFINE w == Joined(body, u)
  <2>1. w \in Seq(S)
    BY <1>4, <1>5, JoinedSeq
  <2> HIDE DEF w
  <2>2. Joined(w, v) \in Seq(S)
    BY <1>5, <2>1, JoinedSeq
  <2> QED BY <1>3, <2>2, Zenon DEF w
<1>9. Only(merged, P) = loaded
  <2>1. Only(merged, P) = Joined(Joined(loaded, <<>>), <<>>)
    BY <1>4, <1>5, <1>7, Zenon
  <2>2. Joined(loaded, <<>>) = loaded
    BY <1>1, <1>6
  <2> QED BY <2>1, <2>2, Zenon
<1>10. Only(merged, Q) = Joined(Joined(AdditionsTo(n, a, receivers, b, routes), u), v)
  BY <1>4, <1>5, <1>7, Zenon
<1>11. Only(merged, Q) \in {Joined(receivers, routes), Joined(routes, receivers)}
  <2> DEFINE A == Behind(n, a, receivers)
             B == Behind(n, b, routes)
  <2>1. AdditionsTo(n, a, receivers, b, routes) = IF b < a THEN Joined(B, A) ELSE Joined(A, B)
    BY Zenon DEF AdditionsTo
  <2>2. /\ a = 0 => a \notin 1 .. n
        /\ a # 0 => a \in 1 .. n
        /\ b = 0 => b \notin 1 .. n
        /\ b # 0 => b \in 1 .. n
        /\ a = 0 => ~(b < a)
        /\ a # 0 /\ b = 0 => b < a
    BY <1>2
  <2>3. /\ a = 0 => A = <<>> /\ u = receivers
        /\ a # 0 => A = receivers /\ u = <<>>
        /\ b = 0 => B = <<>> /\ v = routes
        /\ b # 0 => B = routes /\ v = <<>>
    BY <2>2, Zenon DEF Behind, Placed
  <2>4. Joined(<<>>, <<>>) = <<>>
    BY DEF Joined
  <2>5. Joined(receivers, routes) \in Seq(S) /\ Joined(routes, receivers) \in Seq(S)
    BY <1>1, JoinedSeq
  <2> HIDE DEF A, B, u, v, n
  <2>6. CASE a = 0 /\ b = 0
    <3>1. AdditionsTo(n, a, receivers, b, routes) = <<>>
      BY <2>1, <2>2, <2>3, <2>4, <2>6, Zenon
    <3>2. u = receivers /\ v = routes
      BY <2>3, <2>6, Zenon
    <3>3. Joined(<<>>, receivers) = receivers
      BY <1>1, <1>6
    <3>4. Only(merged, Q) = Joined(receivers, routes)
      BY <1>10, <3>1, <3>2, <3>3, Zenon
    <3> QED BY <3>4
  <2>7. CASE a = 0 /\ b # 0
    <3>1. AdditionsTo(n, a, receivers, b, routes) = routes
      BY <1>1, <1>6, <2>1, <2>2, <2>3, <2>7, Zenon
    <3>2. u = receivers /\ v = <<>>
      BY <2>3, <2>7, Zenon
    <3>3. Only(merged, Q) = Joined(routes, receivers)
      BY <1>6, <1>10, <2>5, <3>1, <3>2, Zenon
    <3> QED BY <3>3
  <2>8. CASE a # 0 /\ b = 0
    <3>1. AdditionsTo(n, a, receivers, b, routes) = receivers
      BY <1>1, <1>6, <2>1, <2>2, <2>3, <2>8, Zenon
    <3>2. u = <<>> /\ v = routes
      BY <2>3, <2>8, Zenon
    <3>3. Only(merged, Q) = Joined(receivers, routes)
      BY <1>1, <1>6, <1>10, <3>1, <3>2, Zenon
    <3> QED BY <3>3
  <2>9. CASE a # 0 /\ b # 0
    <3>1. AdditionsTo(n, a, receivers, b, routes) \in {Joined(receivers, routes), Joined(routes, receivers)}
      <4>1. CASE b < a
        BY <2>1, <2>3, <2>9, <4>1, Zenon
      <4>2. CASE ~(b < a)
        BY <2>1, <2>3, <2>9, <4>2, Zenon
      <4> QED BY <4>1, <4>2
    <3>2. u = <<>> /\ v = <<>>
      BY <2>3, <2>9, Zenon
    <3> DEFINE G == AdditionsTo(n, a, receivers, b, routes)
    <3>3. G \in Seq(S)
      BY <2>5, <3>1
    <3> HIDE DEF G
    <3>4. Only(merged, Q) = G
      BY <1>6, <1>10, <3>2, <3>3, Zenon DEF G
    <3> QED BY <3>1, <3>4 DEF G
  <2> QED BY <2>6, <2>7, <2>8, <2>9
<1> QED BY <1>8, <1>9, <1>11, Zenon DEF merged, Joined

-----------------------------------------------------------------------------
(* Where the blocks end. *)

\* What a scan may be.
Scans == [inReceivers : BOOLEAN, receiversEnd : Nat, inRoute : BOOLEAN, inRoutes : BOOLEAN, routesEnd : Nat]

\* One line of the scan.
Scanned(scan, line, i) == Export!Enter(Export!Leave(scan, line, i), line)

\* What it does to each field.
LEMMA ScannedFields ==
  ASSUME NEW s \in Scans, NEW line, NEW i \in Nat
  PROVE  LET t == Scanned(s, line, i)
             leavesReceivers == s.inReceivers /\ Export!AtColumnZero(line) /\ line.text # "receivers:"
             leavesRoutes == s.inRoutes /\ ~Export!Blank(line) /\ line.indent < 4
         IN /\ t \in Scans
            /\ t.inReceivers <=> (s.inReceivers /\ ~leavesReceivers) \/ Export!Opens(line, "receivers:")
            /\ t.receiversEnd = IF leavesReceivers THEN i ELSE s.receiversEnd
            /\ t.inRoute <=> (s.inRoute /\ ~leavesRoutes) \/ Export!Opens(line, "route:")
            /\ t.inRoutes <=> (s.inRoutes /\ ~leavesRoutes) \/ (t.inRoute /\ line.text = "routes:")
            /\ t.routesEnd = IF leavesRoutes THEN i ELSE s.routesEnd
<1> DEFINE t == Scanned(s, line, i)
           leavesReceivers == s.inReceivers /\ Export!AtColumnZero(line) /\ line.text # "receivers:"
           leavesRoutes == s.inRoutes /\ ~Export!Blank(line) /\ line.indent < 4
           a == (s.inReceivers /\ ~leavesReceivers) \/ Export!Opens(line, "receivers:")
           b == IF leavesReceivers THEN i ELSE s.receiversEnd
           c == (s.inRoute /\ ~leavesRoutes) \/ Export!Opens(line, "route:")
           d == (s.inRoutes /\ ~leavesRoutes) \/ (c /\ line.text = "routes:")
           e == IF leavesRoutes THEN i ELSE s.routesEnd
<1>1. t = [inReceivers |-> a, receiversEnd |-> b, inRoute |-> c, inRoutes |-> d, routesEnd |-> e]
  <2> HIDE DEF leavesReceivers, leavesRoutes
  <2> QED BY DEF Scanned, Export!Enter, Export!Leave, leavesReceivers, leavesRoutes
<1>2. b \in Nat /\ e \in Nat
  BY DEF Scans
<1>3. a \in BOOLEAN /\ c \in BOOLEAN /\ d \in BOOLEAN
  OBVIOUS
<1> HIDE DEF a, b, c, d, e, t
<1>4. t \in Scans
  BY <1>1, <1>2, <1>3 DEF Scans
<1>5. t.inReceivers = a /\ t.receiversEnd = b /\ t.inRoute = c /\ t.inRoutes = d /\ t.routesEnd = e
  BY <1>1
<1> QED BY <1>4, <1>5, Zenon DEF t, a, b, c, d, e

\* The function in Read.
ScanUpTo(loaded, f) ==
  f = [i \in 0 .. Len(loaded) |-> IF i = 0 THEN Export!Unread ELSE Export!Enter(Export!Leave(f[i - 1], loaded[i], i), loaded[i])]

\* There is such a function.
LEMMA ScanFunctionExists ==
  ASSUME NEW loaded, Len(loaded) \in Nat
  PROVE  \E f : ScanUpTo(loaded, f)
<1> DEFINE k == Len(loaded)
           step == [p \in (1 .. k) \X Scans |-> Scanned(p[2], loaded[p[1]], p[1])]
<1>1. Export!Unread \in Scans
  BY DEF Export!Unread, Scans
<1>2. step \in [(1 .. k) \X Scans -> Scans]
  <2>1. ASSUME NEW p \in (1 .. k) \X Scans PROVE Scanned(p[2], loaded[p[1]], p[1]) \in Scans
    <3>1. p[2] \in Scans /\ p[1] \in Nat
      OBVIOUS
    <3> QED BY <3>1, ScannedFields
  <2> HIDE DEF k
  <2> QED BY <2>1
<1>3. PICK f : Course(Scans, Export!Unread, step, f, k)
  <2> HIDE DEF step
  <2> QED BY <1>1, <1>2, CourseExists
<1>4. f \in [0 .. k -> Scans] /\ f[0] = Export!Unread
  BY <1>3 DEF Course
<1>5. ASSUME NEW i \in 1 .. k PROVE f[i] = Scanned(f[i - 1], loaded[i], i)
  <2> HIDE DEF k
  <2>1. i - 1 \in 0 .. k
    BY DEF k
  <2>2. <<i, f[i - 1]>> \in (1 .. k) \X Scans
    BY <1>4, <2>1
  <2>3. f[i] = step[<<i, f[i - 1]>>]
    <3> HIDE DEF step
    <3> QED BY <1>3 DEF Course
  <2> QED BY <2>2, <2>3
<1> DEFINE body(i) == IF i = 0 THEN Export!Unread ELSE Export!Enter(Export!Leave(f[i - 1], loaded[i], i), loaded[i])
<1>6. \A i \in 0 .. k : f[i] = body(i)
  <2>1. \A i \in 0 .. k : i # 0 => i \in 1 .. k
    OBVIOUS
  <2> HIDE DEF k
  <2> QED BY <1>4, <1>5, <2>1, Zenon DEF Scanned
<1>7. f = [i \in 0 .. k |-> f[i]]
  BY <1>4
<1> HIDE DEF body, k
<1>8. [i \in 0 .. k |-> f[i]] = [i \in 0 .. k |-> body(i)]
  BY <1>6, Zenon
<1>9. ScanUpTo(loaded, f)
  BY <1>7, <1>8, Zenon DEF ScanUpTo, body, k
<1> QED BY <1>9

\* What the scan computes, line by line.
Scanning(loaded, s, k) ==
  /\ s[0] = Export!Unread /\ Export!Read(loaded) = s[k]
  /\ \A i \in 1 .. k : s[i] = Scanned(s[i - 1], loaded[i], i)
  /\ \A i \in 0 .. k : s[i] \in Scans

\* It computes it so for every document.
LEMMA ScanByLine ==
  ASSUME NEW loaded, Len(loaded) \in Nat
  PROVE  \E s : Scanning(loaded, s, Len(loaded))
<1> DEFINE k == Len(loaded)
           s == CHOOSE f : ScanUpTo(loaded, f)
<1>1. ScanUpTo(loaded, s)
  BY ScanFunctionExists, Zenon
<1>2. Export!Read(loaded) = s[k]
  BY Zenon DEF Export!Read, ScanUpTo
<1> HIDE DEF s, k
<1>3. s = [i \in 0 .. k |-> IF i = 0 THEN Export!Unread ELSE Export!Enter(Export!Leave(s[i - 1], loaded[i], i), loaded[i])]
  BY <1>1, Zenon DEF ScanUpTo, k
<1>4. k \in Nat /\ 0 \in 0 .. k /\ \A i \in 1 .. k : i \in 0 .. k /\ i # 0
  BY DEF k
<1>5. s[0] = Export!Unread /\ \A i \in 1 .. k : s[i] = Scanned(s[i - 1], loaded[i], i)
  BY <1>3, <1>4, Zenon DEF Scanned
<1> DEFINE Good == {i \in 0 .. k : s[i] \in Scans}
<1>6. 0 \in Good
  <2>1. Export!Unread \in Scans
    BY DEF Export!Unread, Scans
  <2> QED BY <1>4, <1>5, <2>1, Zenon
<1>7. ASSUME NEW i \in 1 .. k, i - 1 \in Good PROVE i \in Good
  <2>1. s[i - 1] \in Scans /\ i \in Nat /\ i \in 0 .. k
    BY <1>4, <1>7
  <2>2. Scanned(s[i - 1], loaded[i], i) \in Scans
    <3> DEFINE u == s[i - 1]
               x == loaded[i]
    <3> HIDE DEF u, x
    <3>1. u \in Scans
      BY <2>1, Zenon DEF u
    <3>2. Scanned(u, x, i) \in Scans
      BY <2>1, <3>1, ScannedFields
    <3> QED BY <3>2 DEF u, x
  <2> QED BY <1>5, <2>1, <2>2, Zenon
<1>8. \A i \in 0 .. k : i \in Good
  <2> HIDE DEF Good
  <2> QED BY <1>4, <1>6, <1>7, Climb
<1>9. Scanning(loaded, s, k)
  BY <1>2, <1>5, <1>8, Zenon DEF Scanning
<1> QED BY <1>9 DEF k

\* No line from i to j is in the set.
Clear(lines, i, j) == \A k \in i .. j : k \notin lines

\* In which block the scan is after i lines and where it ended, by the lines that
\* open it and those at column 0.
InReceivers(opening, starting, within, end, i) ==
  /\ end \in 0 .. i
  /\ within => end = 0 /\ \E o \in opening : o <= i /\ Clear(starting, o + 1, i)
  /\ ~within => \/ end = 0 /\ \A o \in opening : ~(o <= i)
                \/ end \in starting /\ \E o \in opening : o < end /\ Clear(starting, o + 1, end - 1)

\* The receivers block: it ends with the first line at column 0.
LEMMA ReceiversStep ==
  ASSUME NEW opening \in SUBSET Nat, NEW starting \in SUBSET Nat, \A o, p \in opening : o = p,
         NEW i \in Nat \ {0}, NEW within \in BOOLEAN, NEW end, InReceivers(opening, starting, within, end, i - 1),
         NEW leaves \in BOOLEAN, leaves <=> within /\ i \in starting /\ i \notin opening
  PROVE  InReceivers(opening, starting, (within /\ ~leaves) \/ i \in opening, IF leaves THEN i ELSE end, i)
<1>1. CASE within
  <2>1. end = 0
    BY <1>1 DEF InReceivers
  <2>2. PICK o \in opening : o <= i - 1 /\ Clear(starting, o + 1, i - 1)
    BY <1>1 DEF InReceivers
  <2>3. i \notin opening
    BY <2>2
  <2>4. CASE i \in starting
    <3>1. leaves /\ o < i
      BY <1>1, <2>2, <2>3, <2>4
    <3> QED BY <2>2, <2>3, <2>4, <3>1 DEF InReceivers
  <2>5. CASE i \notin starting
    <3>1. Clear(starting, o + 1, i)
      <4>1. \A k \in o + 1 .. i : k = i \/ k \in o + 1 .. i - 1
        BY <2>2
      <4> QED BY <2>2, <2>5, <4>1 DEF Clear
    <3>2. ~leaves /\ o <= i
      BY <2>2, <2>5
    <3> QED BY <1>1, <2>1, <3>1, <3>2 DEF InReceivers
  <2> QED BY <2>4, <2>5
<1>2. CASE ~within
  <2>1. ~leaves /\ end \in 0 .. i
    BY <1>2 DEF InReceivers
  <2>2. CASE i \in opening
    <3>1. \A o \in opening : ~(o < i)
      BY <2>2
    <3>2. end = 0
      BY <1>2, <3>1 DEF InReceivers
    <3>3. Clear(starting, i + 1, i)
      BY DEF Clear
    <3> QED BY <2>1, <2>2, <3>2, <3>3 DEF InReceivers
  <2>3. CASE i \notin opening
    <3>1. \A o \in opening : ~(o <= i - 1) => ~(o <= i)
      BY <2>3
    <3>2. \/ end = 0 /\ \A o \in opening : ~(o <= i - 1)
          \/ end \in starting /\ \E o \in opening : o < end /\ Clear(starting, o + 1, end - 1)
      BY <1>2 DEF InReceivers
    <3>3. \/ end = 0 /\ \A o \in opening : ~(o <= i)
          \/ end \in starting /\ \E o \in opening : o < end /\ Clear(starting, o + 1, end - 1)
      BY <3>1, <3>2
    <3> QED BY <1>2, <2>1, <2>3, <3>3 DEF InReceivers
  <2> QED BY <2>2, <2>3
<1> QED BY <1>1, <1>2

\* The same of the route's own list of routes, by the line that heads it and those
\* that are less than four deep.
InRoutes(opening, heading, outer, inRoute, within, end, i) ==
  IF i < heading
  THEN ~within /\ end = 0 /\ (inRoute <=> \E o \in opening : o <= i)
  ELSE \/ within /\ end = 0 /\ Clear(outer, heading + 1, i)
       \/ ~within /\ ~inRoute /\ end \in outer /\ heading < end /\ Clear(outer, heading + 1, end - 1)

\* A route is opened once, and what heads its list of routes stands below.
RouteLines(opening, headings, outer, heading) ==
  /\ opening \in SUBSET Nat /\ \A o, p \in opening : o = p
  /\ headings \in SUBSET Nat /\ outer \in SUBSET Nat /\ headings \cap opening = {}
  /\ heading \in headings /\ \A g \in headings : heading <= g
  /\ \E o \in opening : o < heading

\* The list of routes in the route: it ends with the first line that is less than
\* four deep.
LEMMA RoutesStep ==
  ASSUME NEW opening, NEW headings, NEW outer, NEW heading, RouteLines(opening, headings, outer, heading),
         NEW i \in Nat \ {0}, NEW inRoute \in BOOLEAN, NEW within \in BOOLEAN, NEW end,
         InRoutes(opening, heading, outer, inRoute, within, end, i - 1),
         NEW leaves \in BOOLEAN, leaves <=> within /\ i \in outer,
         NEW entered \in BOOLEAN, entered <=> (inRoute /\ ~leaves) \/ i \in opening,
         NEW stays \in BOOLEAN, stays <=> (within /\ ~leaves) \/ (entered /\ i \in headings)
  PROVE  InRoutes(opening, heading, outer, entered, stays, IF leaves THEN i ELSE end, i)
<1> USE DEF RouteLines
<1>1. heading \in Nat
  OBVIOUS
<1>2. CASE i < heading
  <2>1. ~within /\ end = 0 /\ (inRoute <=> \E o \in opening : o <= i - 1)
    BY <1>1, <1>2 DEF InRoutes
  <2>2. ~leaves /\ i \notin headings
    BY <1>2, <2>1
  <2>3. (\E o \in opening : o <= i) <=> (\E o \in opening : o <= i - 1) \/ i \in opening
    <3>1. opening \subseteq Nat /\ i \in Nat
      OBVIOUS
    <3>2. \A o \in Nat : o <= i <=> (o <= i - 1 \/ o = i)
      BY <3>1
    <3> QED BY <3>1, <3>2
  <2>4. entered <=> \E o \in opening : o <= i
    BY <2>1, <2>2, <2>3
  <2> QED BY <1>2, <2>1, <2>2, <2>4 DEF InRoutes
<1>3. CASE i = heading
  <2>1. i - 1 < heading
    BY <1>3
  <2>2. ~within /\ end = 0 /\ (inRoute <=> \E o \in opening : o <= i - 1)
    BY <2>1 DEF InRoutes
  <2>3. \E o \in opening : o <= i - 1
    BY <1>1, <1>3
  <2>4. ~leaves /\ entered /\ stays
    BY <1>3, <2>2, <2>3
  <2>5. Clear(outer, heading + 1, i) /\ ~(i < heading)
    BY <1>1, <1>3 DEF Clear
  <2> QED BY <2>2, <2>4, <2>5 DEF InRoutes
<1>4. CASE heading < i
  <2>1. ~(i - 1 < heading) /\ ~(i < heading) /\ i \notin opening
    BY <1>1, <1>4
  <2>2. CASE within /\ end = 0 /\ Clear(outer, heading + 1, i - 1)
    <3>1. CASE i \in outer
      BY <1>4, <2>1, <2>2, <3>1 DEF InRoutes
    <3>2. CASE i \notin outer
      <4>1. \A k \in heading + 1 .. i : k = i \/ k \in heading + 1 .. i - 1
        BY <1>1
      <4>2. Clear(outer, heading + 1, i)
        BY <2>2, <3>2, <4>1 DEF Clear
      <4> QED BY <2>1, <2>2, <3>2, <4>2 DEF InRoutes
    <3> QED BY <3>1, <3>2
  <2>3. CASE ~within /\ ~inRoute /\ end \in outer /\ heading < end /\ Clear(outer, heading + 1, end - 1)
    BY <2>1, <2>3 DEF InRoutes
  <2> QED BY <2>1, <2>2, <2>3 DEF InRoutes
<1> QED BY <1>1, <1>2, <1>3, <1>4

\* The lines of a document that open a block, that stand at column 0, that end a
\* list of routes, and that head one.
Openings(loaded, key) == {i \in DOMAIN loaded : Export!Opens(loaded[i], key)}
Starts(loaded) == {i \in DOMAIN loaded : Export!AtColumnZero(loaded[i])}
Outer(loaded) == {i \in DOMAIN loaded : ~Export!Blank(loaded[i]) /\ loaded[i].indent < 4}
Headings(loaded) == {i \in DOMAIN loaded : loaded[i].text = "routes:"}
Firsts(loaded) == {h \in Headings(loaded) : \A g \in Headings(loaded) : h <= g}

\* Of a loaded configuration.
LEMMA LinesOK ==
  ASSUME NEW loaded, Export!Configuration(loaded)
  PROVE  /\ loaded \in Seq(ToSet(loaded)) /\ Len(loaded) \in Nat /\ DOMAIN loaded = 1 .. Len(loaded)
         /\ \A l \in ToSet(loaded) : l.added = FALSE /\ l.indent \in Nat
         /\ \A key \in {"receivers:", "route:"} : \A o, p \in Openings(loaded, key) : o = p
         /\ \A h \in Headings(loaded) : \E o \in Openings(loaded, "route:") : o < h
<1> DEFINE T == {Export!Line(l.indent, l.text) : l \in ToSet(loaded)}
<1>1. Export!ToSet(loaded) = ToSet(loaded)
  BY ExportSame
<1>2. /\ loaded \in Seq(T)
      /\ \A l \in ToSet(loaded) : l.indent \in Nat
      /\ \A i, j \in DOMAIN loaded, key \in {"receivers:", "route:"} :
           Export!Opens(loaded[i], key) /\ Export!Opens(loaded[j], key) => i = j
      /\ \A i \in DOMAIN loaded : loaded[i].text = "routes:" =>
           \E open \in 1 .. i : Export!Opens(loaded[open], "route:")
  BY <1>1, Zenon DEF Export!Configuration
<1>3. \A l \in T : l.added = FALSE
  BY DEF Export!Line
<1> HIDE DEF T
<1>4. Len(loaded) \in Nat /\ DOMAIN loaded = 1 .. Len(loaded) /\ \A i \in DOMAIN loaded : loaded[i] \in T
  BY <1>2
<1>5. loaded \in Seq(ToSet(loaded)) /\ \A l \in ToSet(loaded) : l \in T
  BY <1>2, <1>4 DEF ToSet
<1>6. \A key \in {"receivers:", "route:"} : \A o, p \in Openings(loaded, key) : o = p
  BY <1>2, Zenon DEF Openings
<1>7. ASSUME NEW h \in Headings(loaded)
      PROVE  \E o \in Openings(loaded, "route:") : o < h
  <2>1. h \in DOMAIN loaded /\ loaded[h].text = "routes:"
    BY DEF Headings
  <2>2. PICK open \in 1 .. h : Export!Opens(loaded[open], "route:")
    BY <1>2, <2>1
  <2>3. open \in DOMAIN loaded
    BY <1>4, <2>1
  <2>4. open \in Openings(loaded, "route:")
    BY <2>2, <2>3, Zenon DEF Openings
  <2>5. open # h
    BY <2>1, <2>2 DEF Export!Opens
  <2> QED BY <1>4, <2>1, <2>4, <2>5
<1> QED BY <1>2, <1>3, <1>4, <1>5, <1>6, <1>7

\* Where the scan has the blocks end, for every line.
LEMMA ScanInvariant ==
  ASSUME NEW loaded, Export!Configuration(loaded), NEW s, Scanning(loaded, s, Len(loaded))
  PROVE  LET r == Export!Read(loaded)
         IN /\ r \in Scans
            /\ InReceivers(Openings(loaded, "receivers:"), Starts(loaded), r.inReceivers, r.receiversEnd, Len(loaded))
            /\ r.routesEnd \in 0 .. Len(loaded)
            /\ \A h \in Firsts(loaded) : InRoutes(Openings(loaded, "route:"), h, Outer(loaded),
                                               r.inRoute, r.inRoutes, r.routesEnd, Len(loaded))
<1> DEFINE n == Len(loaded)
           R == Openings(loaded, "receivers:")
           O == Openings(loaded, "route:")
           Z == Starts(loaded)
           W == Outer(loaded)
           H == Headings(loaded)
           F == Firsts(loaded)
           Receivers(i) == InReceivers(R, Z, s[i].inReceivers, s[i].receiversEnd, i)
           Routes(i) == /\ s[i].routesEnd \in 0 .. i
                        /\ \A h \in F : InRoutes(O, h, W, s[i].inRoute, s[i].inRoutes, s[i].routesEnd, i)
           Good == {i \in 0 .. n : Receivers(i) /\ Routes(i)}
<1>1. n \in Nat /\ DOMAIN loaded = 1 .. n
  BY LinesOK
<1>2. /\ R \in SUBSET Nat /\ O \in SUBSET Nat /\ Z \in SUBSET Nat /\ W \in SUBSET Nat /\ H \in SUBSET Nat
      /\ \A o \in R \cup O : o \in 1 .. n
  BY <1>1 DEF Openings, Starts, Outer, Headings
<1>3. /\ \A o, p \in R : o = p
      /\ \A o, p \in O : o = p
      /\ \A h \in H : \E o \in O : o < h
  BY LinesOK
<1>4. H \cap O = {}
  BY DEF Headings, Openings, Export!Opens
<1>5. /\ s[0] = Export!Unread /\ Export!Read(loaded) = s[n]
      /\ \A i \in 1 .. n : s[i] = Scanned(s[i - 1], loaded[i], i)
      /\ \A i \in 0 .. n : s[i] \in Scans
  BY Zenon DEF Scanning
<1>6. 0 \in Good
  <2>1. /\ s[0].inReceivers = FALSE /\ s[0].receiversEnd = 0 /\ s[0].inRoute = FALSE
        /\ s[0].inRoutes = FALSE /\ s[0].routesEnd = 0
    BY <1>5 DEF Export!Unread
  <2>2. \A o \in R : ~(o <= 0)
    BY <1>2
  <2>6. \A o \in O : ~(o <= 0)
    BY <1>2
  <2>7. \A h \in F : h \in H /\ 0 < h
    BY <1>1 DEF Firsts, Headings
  <2> HIDE DEF R, O, Z, W, F, H
  <2>3. InReceivers(R, Z, FALSE, 0, 0) /\ \A h \in F : InRoutes(O, h, W, FALSE, FALSE, 0, 0)
    BY <2>2, <2>6, <2>7 DEF InReceivers, InRoutes
  <2>8. 0 \in 0 .. 0
    OBVIOUS
  <2>4. Receivers(0) /\ Routes(0)
    BY <2>1, <2>3, <2>8, Zenon
  <2>5. 0 \in 0 .. n
    BY <1>1
  <2> QED BY <2>4, <2>5
<1>7. ASSUME NEW i \in 1 .. n, i - 1 \in Good PROVE i \in Good
  <2> DEFINE u == s[i - 1]
             line == loaded[i]
             leavesReceivers == u.inReceivers /\ Export!AtColumnZero(line) /\ line.text # "receivers:"
             leavesRoutes == u.inRoutes /\ ~Export!Blank(line) /\ line.indent < 4
             t == s[i]
  <2>1. u \in Scans /\ i \in Nat /\ i \in Nat \ {0} /\ i \in 0 .. n /\ t = Scanned(u, line, i)
    <3>1. i - 1 \in 0 .. n
      BY <1>1
    <3>2. i \in Nat /\ i \in Nat \ {0} /\ i \in 0 .. n
      BY <1>1
    <3> QED BY <1>5, <3>1, <3>2, Zenon
  <2>2. Receivers(i - 1) /\ Routes(i - 1)
    BY <1>7
  <2>3. /\ i \in R <=> Export!Opens(line, "receivers:")
        /\ i \in O <=> Export!Opens(line, "route:")
        /\ i \in Z <=> Export!AtColumnZero(line)
        /\ i \in W <=> ~Export!Blank(line) /\ line.indent < 4
        /\ i \in H <=> line.text = "routes:"
    BY <1>1, Zenon DEF Openings, Starts, Outer, Headings
  <2>4. Export!AtColumnZero(line) => (line.text # "receivers:" <=> ~Export!Opens(line, "receivers:"))
    BY DEF Export!AtColumnZero, Export!Opens
  <2> HIDE DEF u, line, t, R, O, Z, W, H, F
  <2>5. /\ t \in Scans
        /\ t.inReceivers <=> (u.inReceivers /\ ~leavesReceivers) \/ Export!Opens(line, "receivers:")
        /\ t.receiversEnd = IF leavesReceivers THEN i ELSE u.receiversEnd
        /\ t.inRoute <=> (u.inRoute /\ ~leavesRoutes) \/ Export!Opens(line, "route:")
        /\ t.inRoutes <=> (u.inRoutes /\ ~leavesRoutes) \/ (t.inRoute /\ line.text = "routes:")
        /\ t.routesEnd = IF leavesRoutes THEN i ELSE u.routesEnd
    <3>1. i \in Nat /\ u \in Scans
      BY <2>1
    <3> DEFINE v == Scanned(u, line, i)
    <3>2. /\ v \in Scans
          /\ v.inReceivers <=> (u.inReceivers /\ ~leavesReceivers) \/ Export!Opens(line, "receivers:")
          /\ v.receiversEnd = IF leavesReceivers THEN i ELSE u.receiversEnd
          /\ v.inRoute <=> (u.inRoute /\ ~leavesRoutes) \/ Export!Opens(line, "route:")
          /\ v.inRoutes <=> (u.inRoutes /\ ~leavesRoutes) \/ (v.inRoute /\ line.text = "routes:")
          /\ v.routesEnd = IF leavesRoutes THEN i ELSE u.routesEnd
      BY <3>1, ScannedFields
    <3>3. t = v
      BY <2>1
    <3> HIDE DEF v
    <3> QED BY <3>2, <3>3
  <2> DEFINE a == u.inReceivers
             b == u.inRoute
             c == u.inRoutes
             e == u.receiversEnd
             f == u.routesEnd
             ta == t.inReceivers
             tb == t.inRoute
             tc == t.inRoutes
  <2>6. a \in BOOLEAN /\ b \in BOOLEAN /\ c \in BOOLEAN /\ ta \in BOOLEAN /\ tb \in BOOLEAN /\ tc \in BOOLEAN
    BY <2>1, <2>5 DEF Scans
  <2>7. leavesReceivers \in BOOLEAN /\ leavesRoutes \in BOOLEAN
    OBVIOUS
  <2>8. leavesReceivers <=> a /\ i \in Z /\ i \notin R
    BY <2>3, <2>4, Zenon
  <2>9. leavesRoutes <=> c /\ i \in W
    BY <2>3, Zenon
  <2> DEFINE te == t.receiversEnd
             tf == t.routesEnd
  <2>10. /\ ta <=> (a /\ ~leavesReceivers) \/ i \in R
         /\ te = IF leavesReceivers THEN i ELSE e
         /\ tb <=> (b /\ ~leavesRoutes) \/ i \in O
         /\ tc <=> (c /\ ~leavesRoutes) \/ (tb /\ i \in H)
         /\ tf = IF leavesRoutes THEN i ELSE f
    BY <2>3, <2>5, Zenon
  <2>11. InReceivers(R, Z, a, e, i - 1) /\ f \in 0 .. i - 1 /\ \A h \in F : InRoutes(O, h, W, b, c, f, i - 1)
    BY <2>2, Zenon DEF u
  <2> HIDE DEF leavesReceivers, leavesRoutes, a, b, c, e, f, ta, tb, tc, te, tf
  <2>12. InReceivers(R, Z, ta, te, i)
    <3>1. InReceivers(R, Z, (a /\ ~leavesReceivers) \/ i \in R, IF leavesReceivers THEN i ELSE e, i)
      BY <1>2, <1>3, <2>1, <2>6, <2>7, <2>8, <2>11, ReceiversStep
    <3>2. ta = ((a /\ ~leavesReceivers) \/ i \in R)
      BY <2>6, <2>10
    <3> QED BY <2>10, <3>1, <3>2
  <2>13. ASSUME NEW h \in F PROVE InRoutes(O, h, W, tb, tc, tf, i)
    <3>1. RouteLines(O, H, W, h)
      <4>1. h \in H /\ \A g \in H : h <= g
        BY DEF F, Firsts, H
      <4> QED BY <1>2, <1>3, <1>4, <4>1 DEF RouteLines
    <3>2. InRoutes(O, h, W, tb, tc, IF leavesRoutes THEN i ELSE f, i)
      <4>1. InRoutes(O, h, W, b, c, f, i - 1)
        BY <2>11
      <4> QED BY <2>1, <2>6, <2>7, <2>9, <2>10, <3>1, <4>1, RoutesStep
    <3> QED BY <2>10, <3>2
  <2>15. tf \in 0 .. i
    BY <2>1, <2>10, <2>11
  <2>14. Receivers(i) /\ Routes(i)
    BY <2>12, <2>13, <2>15, Zenon DEF ta, tb, tc, te, tf, t
  <2> QED BY <2>1, <2>14
<1>8. n \in Good
  <2>1. \A i \in 0 .. n : i \in Good
    <3> HIDE DEF Good
    <3> QED BY <1>1, <1>6, <1>7, Climb
  <2>2. n \in 0 .. n
    BY <1>1
  <2> QED BY <2>1, <2>2
<1>9. s[n] \in Scans
  <2>1. n \in 0 .. n
    BY <1>1
  <2> QED BY <1>5, <2>1, Zenon
<1> QED BY <1>5, <1>8, <1>9, Zenon

\* A line that closes a block whose key is at column 0 stands at column 0, and one
\* that closes a list of routes whose key is less than four deep is less deep.
LEMMA ClosingLines ==
  ASSUME NEW line, line.indent \in Nat, NEW n \in Nat, Export!Closes(line, n)
  PROVE  /\ n = 0 => Export!AtColumnZero(line)
         /\ n < 4 => ~Export!Blank(line) /\ line.indent < 4
<1> DEFINE k == line.indent
<1>1. Export!Content(line) /\ k <= n /\ k \in Nat
  BY DEF Export!Closes
<1>2. ~Export!Blank(line)
  BY <1>1 DEF Export!Content
<1>3. /\ n = 0 => k = 0
      /\ n < 4 => k < 4
  <2> HIDE DEF k
  <2> QED BY <1>1
<1> QED BY <1>1, <1>2, <1>3 DEF Export!AtColumnZero

\* The additions to the receivers are in their block, and if the receivers are
\* deeper than their key nothing of the block comes after them.
LEMMA ReceiversLand ==
  ASSUME NEW loaded, Export!Configuration(loaded), NEW o \in Openings(loaded, "receivers:"),
         NEW a \in 0 .. Len(loaded) + 1, a > o, Clear(Starts(loaded), o + 1, a - 1),
         a \in 1 .. Len(loaded) => a \in Starts(loaded)
  PROVE  /\ Export!Inside(loaded, o, a)
         /\ Export!ReceiversDeep(loaded, o) => Export!AfterAll(loaded, o, a)
<1> DEFINE n == Len(loaded)
<1>1. n \in Nat /\ DOMAIN loaded = 1 .. n /\ \A i \in 1 .. n : loaded[i].indent \in Nat
  <2>1. n \in Nat /\ DOMAIN loaded = 1 .. n /\ \A l \in ToSet(loaded) : l.indent \in Nat
    BY LinesOK
  <2> QED BY <2>1 DEF ToSet
<1>2. o \in 1 .. n /\ loaded[o].indent = 0
  BY <1>1 DEF Openings, Export!Opens
<1> HIDE DEF n
<1>3. ASSUME NEW k \in o + 1 .. a - 1 PROVE ~Export!Closes(loaded[k], loaded[o].indent)
  <2>1. k \in 1 .. n /\ k \notin Starts(loaded)
    BY <1>1, <1>2, <1>3 DEF Clear, n
  <2>2. ~Export!AtColumnZero(loaded[k])
    BY <1>1, <2>1, Zenon DEF Starts
  <2>3. loaded[k].indent \in Nat /\ 0 \in Nat
    BY <1>1, <2>1
  <2> QED BY <1>2, <2>2, <2>3, ClosingLines
<1>4. Export!Inside(loaded, o, a)
  BY <1>3, Zenon DEF Export!Inside
<1>5. ASSUME Export!ReceiversDeep(loaded, o), NEW i \in DOMAIN loaded, Export!InBlock(loaded, o, i), ~(i < a)
      PROVE  FALSE
  <2>1. a \in 1 .. n /\ a \in o + 1 .. i
    BY <1>1, <1>2, <1>5 DEF n
  <2>2. a \in DOMAIN loaded /\ Export!AtColumnZero(loaded[a])
    BY <1>1, <2>1 DEF Starts, n
  <2>3. Export!InBlock(loaded, o, a)
    <3>1. \A k \in o + 1 .. a : k \in o + 1 .. i
      BY <1>1, <1>2, <2>1
    <3>2. a > o
      OBVIOUS
    <3> QED BY <1>5, <3>1, <3>2, Zenon DEF Export!InBlock
  <2>4. Export!Content(loaded[a]) /\ loaded[a].indent = 0
    BY <2>2 DEF Export!AtColumnZero
  <2>5. loaded[a].indent > 0
    BY <1>5, <2>2, <2>3, <2>4, Zenon DEF Export!ReceiversDeep
  <2> QED BY <2>4, <2>5
<1>6. Export!ReceiversDeep(loaded, o) => Export!AfterAll(loaded, o, a)
  BY <1>5, Zenon DEF Export!AfterAll
<1> QED BY <1>4, <1>6

\* The same of the route's own list of routes, with the layout that is four deep.
LEMMA RoutesLand ==
  ASSUME NEW loaded, Export!Configuration(loaded), NEW h \in Headings(loaded), loaded[h].indent < 4,
         NEW b \in 0 .. Len(loaded) + 1, b > h, Clear(Outer(loaded), h + 1, b - 1),
         b \in 1 .. Len(loaded) => b \in Outer(loaded)
  PROVE  /\ Export!Inside(loaded, h, b)
         /\ Export!RoutesDeep(loaded, h) => Export!AfterAll(loaded, h, b)
<1> DEFINE n == Len(loaded)
<1>1. n \in Nat /\ DOMAIN loaded = 1 .. n /\ \A i \in 1 .. n : loaded[i].indent \in Nat
  <2>1. n \in Nat /\ DOMAIN loaded = 1 .. n /\ \A l \in ToSet(loaded) : l.indent \in Nat
    BY LinesOK
  <2> QED BY <2>1 DEF ToSet
<1>2. h \in 1 .. n /\ loaded[h].indent \in Nat
  BY <1>1 DEF Headings
<1> HIDE DEF n
<1>3. ASSUME NEW k \in h + 1 .. b - 1 PROVE ~Export!Closes(loaded[k], loaded[h].indent)
  <2>1. k \in 1 .. n /\ k \notin Outer(loaded)
    BY <1>1, <1>2, <1>3 DEF Clear, n
  <2>2. ~(~Export!Blank(loaded[k]) /\ loaded[k].indent < 4)
    BY <1>1, <2>1, Zenon DEF Outer
  <2>3. loaded[k].indent \in Nat
    BY <1>1, <2>1
  <2> QED BY <1>2, <2>2, <2>3, ClosingLines
<1>4. Export!Inside(loaded, h, b)
  BY <1>3, Zenon DEF Export!Inside
<1>5. ASSUME Export!RoutesDeep(loaded, h), NEW i \in DOMAIN loaded, Export!InBlock(loaded, h, i),
             Export!Content(loaded[i]), ~(i < b)
      PROVE  FALSE
  <2>1. b \in 1 .. n /\ b <= i /\ h < b
    BY <1>1, <1>2, <1>5 DEF n
  <2>2. b \in DOMAIN loaded /\ ~Export!Blank(loaded[b]) /\ loaded[b].indent < 4
    BY <1>1, <2>1 DEF Outer, n
  <2>3. loaded[b].indent >= 4
    BY <1>5, <2>1, <2>2, Zenon DEF Export!RoutesDeep
  <2>4. loaded[b].indent \in Nat
    BY <1>1, <2>1
  <2> QED BY <2>2, <2>3, <2>4
<1>6. Export!RoutesDeep(loaded, h) => Export!AfterAll(loaded, h, b)
  BY <1>5, Zenon DEF Export!AfterAll
<1> QED BY <1>4, <1>6

\* The additions land in their blocks.
LEMMA EndsLand ==
  ASSUME NEW loaded, Export!Configuration(loaded)
  PROVE  /\ Export!Ends(loaded).receivers \in 0 .. Len(loaded) + 1
         /\ Export!Ends(loaded).routes \in 0 .. Len(loaded) + 1
         /\ Export!AdditionsEndTheirBlock(loaded)
<1> DEFINE n == Len(loaded)
           r == Export!Read(loaded)
           R == Openings(loaded, "receivers:")
           O == Openings(loaded, "route:")
           Z == Starts(loaded)
           W == Outer(loaded)
           F == Firsts(loaded)
           p == r.inReceivers
           q == r.inRoute
           w == r.inRoutes
           e == r.receiversEnd
           f == r.routesEnd
           a == Export!Ends(loaded).receivers
           b == Export!Ends(loaded).routes
<1>1. n \in Nat /\ DOMAIN loaded = 1 .. n
  BY LinesOK
<1>2. PICK s : Scanning(loaded, s, n)
  BY <1>1, ScanByLine
<1>3. /\ r \in Scans /\ InReceivers(R, Z, p, e, n)
      /\ f \in 0 .. n /\ \A h \in F : InRoutes(O, h, W, q, w, f, n)
  BY <1>2, ScanInvariant, Zenon
<1>4. p \in BOOLEAN /\ q \in BOOLEAN /\ w \in BOOLEAN
  BY <1>3 DEF Scans
<1>5. a = IF p /\ e = 0 THEN n + 1 ELSE e
  BY Zenon DEF Export!Ends
<1>6. b = IF w /\ f = 0 THEN n + 1 ELSE f
  BY Zenon DEF Export!Ends
<1>7. /\ R \subseteq 1 .. n /\ O \subseteq 1 .. n /\ Z \subseteq 1 .. n /\ W \subseteq 1 .. n
      /\ F \subseteq 1 .. n
      /\ \A x, y \in R : x = y
  <2>1. R \subseteq 1 .. n /\ O \subseteq 1 .. n /\ Z \subseteq 1 .. n /\ W \subseteq 1 .. n
    BY <1>1, Zenon DEF Openings, Starts, Outer
  <2>2. F \subseteq 1 .. n
    BY <1>1, Zenon DEF Firsts, Headings
  <2> QED BY <2>1, <2>2, LinesOK
<1> HIDE DEF n, r, R, O, Z, W, F, p, q, w, e, f, a, b
<1>8. a \in 0 .. n + 1 /\ b \in 0 .. n + 1
  BY <1>1, <1>3, <1>5, <1>6 DEF InReceivers
<1>9. ASSUME NEW o \in R PROVE a > o /\ Clear(Z, o + 1, a - 1)
  <2>1. CASE p
    <3>1. a = n + 1 /\ \E x \in R : x <= n /\ Clear(Z, x + 1, n)
      BY <1>3, <1>5, <2>1 DEF InReceivers
    <3>2. o <= n /\ Clear(Z, o + 1, n) /\ o \in Nat
      BY <1>7, <3>1
    <3>3. (n + 1) - 1 = n /\ n + 1 > o
      BY <1>1, <3>2
    <3> QED BY <3>1, <3>2, <3>3
  <2>2. CASE ~p
    <3>1. a = e /\ ~(\A x \in R : ~(x <= n))
      BY <1>1, <1>5, <1>7, <2>2
    <3>2. \E x \in R : x < e /\ Clear(Z, x + 1, e - 1)
      BY <1>3, <2>2, <3>1 DEF InReceivers
    <3>3. o < e /\ Clear(Z, o + 1, e - 1) /\ o \in Nat /\ e \in Nat
      BY <1>3, <1>7, <3>2 DEF InReceivers
    <3> QED BY <3>1, <3>3
  <2> QED BY <2>1, <2>2
<1>10. a \in 1 .. n => a \in Z
  <2>1. p => a = n + 1
    BY <1>3, <1>5 DEF InReceivers
  <2>2. ~p => a = e /\ (e = 0 \/ e \in Z)
    BY <1>3, <1>5 DEF InReceivers
  <2> QED BY <1>1, <1>4, <2>1, <2>2
<1>11. ASSUME NEW h \in F PROVE b > h /\ Clear(W, h + 1, b - 1) /\ (b \in 1 .. n => b \in W)
  <2>1. h \in 1 .. n /\ ~(n < h)
    BY <1>1, <1>7
  <2>2. \/ w /\ f = 0 /\ Clear(W, h + 1, n)
        \/ ~w /\ ~q /\ f \in W /\ h < f /\ Clear(W, h + 1, f - 1)
    BY <1>3, <2>1 DEF InRoutes
  <2>3. CASE w /\ f = 0 /\ Clear(W, h + 1, n)
    <3>1. b = n + 1 /\ (n + 1) - 1 = n /\ n + 1 > h /\ n + 1 \notin 1 .. n
      BY <1>1, <1>6, <2>1, <2>3
    <3> QED BY <2>3, <3>1
  <2>4. CASE ~w /\ ~q /\ f \in W /\ h < f /\ Clear(W, h + 1, f - 1)
    <3>1. b = f /\ f > h
      BY <1>3, <1>6, <2>1, <2>4
    <3> QED BY <2>4, <3>1
  <2> QED BY <2>2, <2>3, <2>4
<1>12. ASSUME NEW o \in R
       PROVE  /\ Export!Inside(loaded, o, a)
              /\ Export!ReceiversDeep(loaded, o) => Export!AfterAll(loaded, o, a)
  BY <1>8, <1>9, <1>10, ReceiversLand DEF n, R, Z
<1>13. ASSUME NEW h \in F, loaded[h].indent < 4
       PROVE  /\ Export!Inside(loaded, h, b)
              /\ Export!RoutesDeep(loaded, h) => Export!AfterAll(loaded, h, b)
  <2>1. h \in Headings(loaded)
    BY DEF F, Firsts
  <2> QED BY <1>8, <1>11, <1>13, <2>1, RoutesLand DEF n, W
<1>14. {i \in DOMAIN loaded : Export!Opens(loaded[i], "receivers:")} = R
  BY Zenon DEF Openings, R
<1>15. ASSUME NEW h \in DOMAIN loaded, loaded[h].text = "routes:",
              \A i \in 1 .. h - 1 : loaded[i].text # "routes:"
       PROVE  h \in F
  <2>1. h \in Headings(loaded)
    BY <1>15 DEF Headings
  <2>2. ASSUME NEW g \in Headings(loaded), ~(h <= g) PROVE FALSE
    <3>1. g \in 1 .. n /\ h \in 1 .. n /\ loaded[g].text = "routes:"
      BY <1>1 DEF Headings
    <3>2. g \in 1 .. h - 1
      BY <1>1, <2>2, <3>1
    <3> QED BY <1>15, <3>1, <3>2
  <2> QED BY <2>1, <2>2 DEF F, Firsts
<1>16. Export!AdditionsEndTheirBlock(loaded)
  BY <1>12, <1>13, <1>14, <1>15, Zenon DEF Export!AdditionsEndTheirBlock, a, b
<1> QED BY <1>8, <1>16, Zenon DEF a, b, n

-----------------------------------------------------------------------------
(* The text that is added. *)

\* The lines that export writes: the one that begins an item of receivers, and
\* the others.
ItemLine == Export!Addition(Export!Line(0, "- name:"))
OtherLines == {Export!Addition(Export!Line(2, "key")), Export!Addition(Export!Line(0, "#")),
         Export!Addition(Export!Line(0, "routes:")), Export!Addition(Export!Line(2, "- matchers:")),
         Export!Addition(Export!Line(4, "key"))}
Written == {ItemLine} \cup OtherLines

\* All are additions, and one of them begins an item.
LEMMA WrittenLines ==
  /\ \A l \in Written : l.added = TRUE /\ (Export!IsItem(l) <=> l = ItemLine)
  /\ ItemLine \notin OtherLines
<1> DEFINE L(indent, text) == Export!Addition(Export!Line(indent, text))
<1>1. \A indent, text : L(indent, text).added = TRUE /\ L(indent, text).text = text
  BY DEF Export!Addition, Export!Line
<1> HIDE DEF L
<1>2. \A l \in OtherLines : Export!IsItem(l) = FALSE /\ l.added = TRUE
  <2>1. \A l \in OtherLines : \/ l = L(2, "key") \/ l = L(0, "#") \/ l = L(0, "routes:")
                        \/ l = L(2, "- matchers:") \/ l = L(4, "key")
    BY Zenon DEF OtherLines, L
  <2>3. /\ "key" # "- name:" /\ "#" # "- name:" /\ "routes:" # "- name:" /\ "- matchers:" # "- name:"
    BY Zenon
  <2>4. \A indent, text : text # "- name:" => Export!IsItem(L(indent, text)) = FALSE /\ L(indent, text).added = TRUE
    <3>1. \A indent, text : Export!IsItem(L(indent, text)) <=> text = "- name:"
      BY <1>1, Zenon DEF Export!IsItem
    <3>2. \A indent, text : Export!IsItem(L(indent, text)) \in BOOLEAN
      BY DEF Export!IsItem
    <3> QED BY <1>1, <3>1, <3>2
  <2> QED BY <2>1, <2>3, <2>4, Zenon
<1>3. Export!IsItem(ItemLine) /\ ItemLine.added = TRUE
  BY <1>1, Zenon DEF ItemLine, L, Export!IsItem
<1> QED BY <1>2, <1>3, Zenon DEF Written

\* Flattening one text, some number of times.
LEMMA Repeated ==
  ASSUME NEW S, NEW text \in Seq(S), NEW n \in Nat
  PROVE  Export!FlattenSeq([i \in 1 .. n |-> text]) \in Seq(S)
<1> DEFINE seqs == [i \in 1 .. n |-> text]
<1>1. seqs \in Seq(Seq(S)) /\ Len(seqs) = n
  <2> DEFINE T == Seq(S)
  <2>1. text \in T
    OBVIOUS
  <2> HIDE DEF T
  <2>2. seqs \in Seq(T) /\ Len(seqs) = n
    BY <2>1
  <2> QED BY <2>2 DEF T
<1> HIDE DEF seqs
<1>2. PICK f : Pieces(S, seqs, f, Len(seqs))
  BY <1>1, FlatByPrefix
<1>3. Export!FlattenSeq(seqs) = f[n] /\ n \in 0 .. n /\ \A i \in 0 .. n : f[i] \in Seq(S)
  BY <1>1, <1>2 DEF Pieces
<1> QED BY <1>3 DEF seqs

\* A text that holds one element of a set, repeated, holds as many.
LEMMA RepeatedCount ==
  ASSUME NEW S, NEW text \in Seq(S), NEW n \in Nat, NEW some, Len(Only(text, some)) = 1, Only(text, some) \in Seq(S)
  PROVE  Len(Only(Export!FlattenSeq([i \in 1 .. n |-> text]), some)) = n
<1> DEFINE seqs == [i \in 1 .. n |-> text]
<1>1. seqs \in Seq(Seq(S)) /\ Len(seqs) = n /\ \A i \in 1 .. n : seqs[i] = text
  <2> DEFINE T == Seq(S)
  <2>1. text \in T
    OBVIOUS
  <2> HIDE DEF T
  <2>2. seqs \in Seq(T) /\ Len(seqs) = n /\ \A i \in 1 .. n : seqs[i] = text
    BY <2>1
  <2> QED BY <2>2 DEF T
<1> HIDE DEF seqs
<1>2. PICK f : Pieces(S, seqs, f, Len(seqs))
  BY <1>1, FlatByPrefix
<1>3. /\ Export!FlattenSeq(seqs) = f[n] /\ f[0] = <<>>
      /\ \A i \in 0 .. n : f[i] \in Seq(S)
      /\ \A i \in 1 .. n : f[i] = Joined(f[i - 1], text)
  <2>1. \A i \in 1 .. n : f[i] = Joined(f[i - 1], seqs[i])
    BY <1>1, <1>2, Zenon DEF Pieces
  <2>2. Export!FlattenSeq(seqs) = f[n] /\ f[0] = <<>> /\ \A i \in 0 .. n : f[i] \in Seq(S)
    BY <1>1, <1>2, Zenon DEF Pieces
  <2> QED BY <1>1, <2>1, <2>2, Zenon
<1> DEFINE Good == {i \in 0 .. n : Only(f[i], some) \in Seq(S) /\ Len(Only(f[i], some)) = i}
<1>4. 0 \in Good
  <2> DEFINE s == <<>>
  <2>1. s \in Seq(S) /\ ToSet(s) = {} /\ Len(s) = 0
    BY DEF ToSet
  <2> HIDE DEF s
  <2>2. Only(s, some) = <<>>
    BY <2>1, OnlyNone
  <2>3. f[0] = s /\ Only(s, some) = s
    BY <1>3, <2>2, Zenon DEF s
  <2>4. 0 \in 0 .. n
    OBVIOUS
  <2> QED BY <2>1, <2>3, <2>4, Zenon
<1>5. ASSUME NEW i \in 1 .. n, i - 1 \in Good PROVE i \in Good
  <2> DEFINE u == f[i - 1]
             v == Only(u, some)
             w == Only(text, some)
  <2>1. i \in 0 .. n /\ i - 1 \in 0 .. n
    OBVIOUS
  <2>2. u \in Seq(S) /\ v \in Seq(S) /\ Len(v) = i - 1 /\ f[i] = Joined(u, text)
    BY <1>3, <1>5, <2>1, Zenon
  <2>3. w \in Seq(S) /\ Len(w) = 1
    OBVIOUS
  <2> HIDE DEF u
  <2>4. Only(Joined(u, text), some) = Joined(v, w)
    BY <2>2, OnlyConcat
  <2> HIDE DEF v, w
  <2>5. Joined(v, w) \in Seq(S) /\ Len(Joined(v, w)) = Len(v) + Len(w)
    BY <2>2, <2>3, JoinedSeq
  <2>6. Len(v) + Len(w) = i
    BY <2>1, <2>2, <2>3
  <2> QED BY <2>1, <2>2, <2>4, <2>5, <2>6, Zenon
<1>6. n \in Good
  <2>1. \A i \in 0 .. n : i \in Good
    <3> HIDE DEF Good
    <3> QED BY <1>4, <1>5, Climb
  <2>2. n \in 0 .. n
    OBVIOUS
  <2> QED BY <2>1, <2>2
<1> QED BY <1>3, <1>6, Zenon DEF seqs

\* What Only keeps of a list is a list.
LEMMA OnlySeq ==
  ASSUME NEW S, NEW list \in Seq(S), NEW some
  PROVE  Only(list, some) \in Seq(S) /\ Len(Only(list, some)) \in Nat
         /\ DOMAIN Only(list, some) = 1 .. Len(Only(list, some))
<1>1. PICK f : KeptUpTo(S, list, some, f, Len(list))
  BY OnlyByPrefix
<1>2. Only(list, some) \in Seq(S)
  <2>1. Len(list) \in 0 .. Len(list)
    OBVIOUS
  <2> QED BY <1>1, <2>1, Zenon DEF KeptUpTo
<1> QED BY <1>2

\* One item for every receiver.
LEMMA ReceiversText ==
  ASSUME NEW n \in Nat
  PROVE  LET text == Export!FlattenSeq([i \in 1 .. n |-> Export!receiverYAML])
         IN text \in Seq(Written) /\ Len(Only(text, {ItemLine})) = n
<1> DEFINE k == Export!Addition(Export!Line(2, "key"))
           y == Export!receiverYAML
<1>1. y = <<ItemLine, k>> /\ ItemLine \in Written /\ k \in Written /\ k # ItemLine
  <2>1. y = <<ItemLine, k>>
    BY Zenon DEF Export!receiverYAML, ItemLine
  <2>2. ItemLine \in Written /\ k \in OtherLines
    BY Zenon DEF Written, OtherLines
  <2>3. k # ItemLine /\ k \in Written
    BY <2>2, WrittenLines, Zenon DEF Written
  <2> QED BY <2>1, <2>2, <2>3
<1> HIDE DEF k, y
<1>2. y \in Seq(Written) /\ {i \in DOMAIN y : y[i] \in {ItemLine}} = {1}
  BY <1>1
<1>3. Len(Only(y, {ItemLine})) = 1
  <2>1. Cardinality({i \in DOMAIN y : y[i] \in {ItemLine}}) = Len(Only(y, {ItemLine}))
    BY <1>2, CountIsLen
  <2>2. Cardinality({1}) = 1
    BY FS_Singleton
  <2> QED BY <1>2, <2>1, <2>2
<1>4. Only(y, {ItemLine}) \in Seq(Written)
  BY <1>2, OnlySeq
<1> DEFINE one == {ItemLine}
<1> HIDE DEF one
<1>5. Len(Only(Export!FlattenSeq([i \in 1 .. n |-> y]), one)) = n
  <2>1. Len(Only(y, one)) = 1 /\ Only(y, one) \in Seq(Written)
    BY <1>3, <1>4 DEF one
  <2> QED BY <1>2, <2>1, RepeatedCount
<1>6. Export!FlattenSeq([i \in 1 .. n |-> y]) \in Seq(Written)
  BY <1>2, Repeated
<1> QED BY <1>5, <1>6, Zenon DEF y, one

\* None in the routes.
LEMMA RoutesText ==
  ASSUME NEW S, NEW entries \in Seq(S)
  PROVE  Export!assembleRoutesYAML(entries) \in Seq(OtherLines)
<1> DEFINE runbooks == Export!Only(entries, {ac \in Export!ToSet(entries) : ~ac.custom})
           customs == Export!Only(entries, {ac \in Export!ToSet(entries) : ac.custom})
           header == <<Export!Addition(Export!Line(0, "#"))>>
           route == <<Export!Addition(Export!Line(2, "- matchers:")), Export!Addition(Export!Line(4, "key"))>>
           top == IF runbooks = <<>> THEN <<>> ELSE <<Export!Addition(Export!Line(0, "routes:"))>>
           live == Export!FlattenSeq([i \in DOMAIN runbooks |-> route])
           stubs == Export!FlattenSeq([i \in DOMAIN customs |-> header])
<1>1. /\ runbooks \in Seq(S) /\ customs \in Seq(S)
      /\ Len(runbooks) \in Nat /\ DOMAIN runbooks = 1 .. Len(runbooks)
      /\ Len(customs) \in Nat /\ DOMAIN customs = 1 .. Len(customs)
  <2>1. \A some : Export!Only(entries, some) = Only(entries, some)
    BY ExportSame
  <2>2. \A some : Only(entries, some) \in Seq(S) /\ Len(Only(entries, some)) \in Nat
                  /\ DOMAIN Only(entries, some) = 1 .. Len(Only(entries, some))
    BY OnlySeq
  <2> QED BY <2>1, <2>2, Zenon
<1>2. \A l1, l2 \in OtherLines : <<l1>> \in Seq(OtherLines) /\ <<l1, l2>> \in Seq(OtherLines)
  OBVIOUS
<1>3. header \in Seq(OtherLines) /\ route \in Seq(OtherLines)
  BY <1>2, Zenon DEF OtherLines
<1>4. top \in Seq(OtherLines)
  <2>1. <<>> \in Seq(OtherLines)
    OBVIOUS
  <2>2. <<Export!Addition(Export!Line(0, "routes:"))>> \in Seq(OtherLines)
    BY <1>2, Zenon DEF OtherLines
  <2> QED BY <2>1, <2>2, Zenon
<1>5. Export!assembleRoutesYAML(entries) = IF entries = <<>> THEN <<>> ELSE header \o top \o live \o stubs
  BY Zenon DEF Export!assembleRoutesYAML
<1> HIDE DEF header, route, top, runbooks, customs
<1>6. live \in Seq(OtherLines) /\ stubs \in Seq(OtherLines)
  <2>1. \A n \in Nat : /\ Export!FlattenSeq([i \in 1 .. n |-> route]) \in Seq(OtherLines)
                       /\ Export!FlattenSeq([i \in 1 .. n |-> header]) \in Seq(OtherLines)
    BY <1>3, Repeated
  <2> QED BY <1>1, <2>1, Zenon
<1> HIDE DEF live, stubs
<1>7. header \o top \o live \o stubs \in Seq(OtherLines) /\ <<>> \in Seq(OtherLines)
  BY <1>3, <1>4, <1>6
<1> QED BY <1>5, <1>7, Zenon

-----------------------------------------------------------------------------
(* Merging. *)

\* The lines of a document that was merged from a loaded one and what export
\* writes are told apart by "added".
LEMMA ToldApart ==
  ASSUME NEW loaded, Export!Configuration(loaded), NEW receivers \in Seq(Written), NEW routes \in Seq(Written)
  PROVE  LET S == ToSet(loaded) \cup Written
         IN /\ Apart(S, loaded, receivers, routes, ToSet(loaded), Written)
            /\ \A document \in Seq(S) : /\ Export!Loaded(document) = Only(document, ToSet(loaded))
                                        /\ Export!Added(document) = Only(document, Written)
<1> DEFINE P == ToSet(loaded)
           S == P \cup Written
<1>1. loaded \in Seq(P) /\ \A l \in P : l.added = FALSE
  BY LinesOK
<1>2. \A l \in Written : l.added = TRUE
  BY WrittenLines
<1>3. P \cap Written = {}
  BY <1>1, <1>2, Zenon
<1> HIDE DEF P
<1>4. ToSet(receivers) \subseteq Written /\ ToSet(routes) \subseteq Written
  BY DEF ToSet
<1>5. loaded \in Seq(S) /\ receivers \in Seq(S) /\ routes \in Seq(S)
  BY <1>1
<1>6. Apart(S, loaded, receivers, routes, P, Written)
  BY <1>3, <1>4, <1>5 DEF Apart, P
<1>7. ASSUME NEW document \in Seq(S)
      PROVE  /\ Export!Loaded(document) = Only(document, P)
             /\ Export!Added(document) = Only(document, Written)
  <2> DEFINE A == {l \in ToSet(document) : ~l.added}
             B == {l \in ToSet(document) : l.added}
  <2>1. ToSet(document) \subseteq S
    BY DEF ToSet
  <2>2. \A l \in ToSet(document) : (l \in A <=> l \in P) /\ (l \in B <=> l \in Written)
    BY <1>1, <1>2, <1>3, <2>1, Zenon
  <2>3. Export!Loaded(document) = Only(document, A) /\ Export!Added(document) = Only(document, B)
    BY ExportSame, Zenon DEF Export!Loaded, Export!Added
  <2> HIDE DEF A, B, S
  <2>4. Only(document, A) = Only(document, P) /\ Only(document, B) = Only(document, Written)
    BY <2>2, OnlySame
  <2> QED BY <2>3, <2>4, Zenon
<1> QED BY <1>6, <1>7, Zenon DEF P

\* The merge adds and does nothing else.
LEMMA MergeAdds ==
  ASSUME NEW loaded, Export!Configuration(loaded), NEW receivers \in Seq(Written), NEW routes \in Seq(Written)
  PROVE  /\ Export!MergeIsPureAddition(loaded, receivers, routes)
         /\ Export!Splice(loaded, receivers, routes) \in Seq(ToSet(loaded) \cup Written)
<1> DEFINE S == ToSet(loaded) \cup Written
           merged == Export!Splice(loaded, receivers, routes)
<1>1. /\ Apart(S, loaded, receivers, routes, ToSet(loaded), Written)
      /\ \A document \in Seq(S) : /\ Export!Loaded(document) = Only(document, ToSet(loaded))
                                  /\ Export!Added(document) = Only(document, Written)
  BY ToldApart, Zenon
<1>2. /\ Export!Ends(loaded).receivers \in 0 .. Len(loaded) + 1
      /\ Export!Ends(loaded).routes \in 0 .. Len(loaded) + 1
  BY EndsLand
<1>3. /\ merged \in Seq(S) /\ Only(merged, ToSet(loaded)) = loaded
      /\ Only(merged, Written) \in {receivers \o routes, routes \o receivers}
  <2> HIDE DEF S
  <2> QED BY <1>1, <1>2, SpliceKeeps, Zenon
<1>4. Export!Loaded(merged) = loaded /\ Export!Added(merged) \in {receivers \o routes, routes \o receivers}
  BY <1>1, <1>3, Zenon
<1> QED BY <1>3, <1>4, Zenon DEF Export!MergeIsPureAddition

\* A text has as many items as lines that begin one.
LEMMA ItemsCounted ==
  ASSUME NEW text \in Seq(Written)
  PROVE  Export!Items(text) = Len(Only(text, {ItemLine}))
<1> DEFINE one == {ItemLine}
<1>1. \A i \in DOMAIN text : text[i] \in Written
  OBVIOUS
<1>2. \A i \in DOMAIN text : Export!IsItem(text[i]) <=> text[i] \in one
  BY <1>1, WrittenLines, Zenon
<1> HIDE DEF one
<1>3. {i \in DOMAIN text : Export!IsItem(text[i])} = {i \in DOMAIN text : text[i] \in one}
  BY <1>2, Zenon
<1>4. Cardinality({i \in DOMAIN text : text[i] \in one}) = Len(Only(text, one))
  BY CountIsLen
<1> QED BY <1>3, <1>4, ExportSame, Zenon DEF Export!Items, one

\* The items of what is added are those of the receivers.
LEMMA ItemsOfBoth ==
  ASSUME NEW receivers \in Seq(Written), NEW routes \in Seq(OtherLines), NEW text \in {receivers \o routes, routes \o receivers}
  PROVE  Export!Items(text) = Len(Only(receivers, {ItemLine}))
<1> DEFINE one == {ItemLine}
<1>1. routes \in Seq(Written)
  BY DEF Written
<1>2. Only(routes, one) = <<>>
  <2>1. ToSet(routes) \cap one = {}
    BY WrittenLines DEF ToSet
  <2> HIDE DEF one
  <2> QED BY <1>1, <2>1, OnlyNone
<1> HIDE DEF one
<1>3. text \in {Joined(receivers, routes), Joined(routes, receivers)}
  BY Zenon DEF Joined
<1>4. text \in Seq(Written)
  BY <1>1, <1>3, JoinedSeq
<1>5. Only(receivers, one) \in Seq(Written)
  BY OnlySeq
<1>6. /\ Only(Joined(receivers, routes), one) = Joined(Only(receivers, one), Only(routes, one))
      /\ Only(Joined(routes, receivers), one) = Joined(Only(routes, one), Only(receivers, one))
  BY <1>1, OnlyConcat
<1>7. Only(text, one) = Only(receivers, one)
  <2>1. Joined(Only(receivers, one), <<>>) = Only(receivers, one) /\ Joined(<<>>, Only(receivers, one)) = Only(receivers, one)
    BY <1>5, JoinedNone
  <2> QED BY <1>2, <1>3, <1>6, <2>1, Zenon
<1>8. Export!Items(text) = Len(Only(text, one))
  BY <1>4, ItemsCounted DEF one
<1> QED BY <1>7, <1>8, Zenon DEF one

\* What export has to add to what is loaded.
ToAdd(scoped, names) == Only(scoped, {ac \in ToSet(scoped) : ~Export!AlreadyLoaded(ac, names)})

\* The diff of an Alertmanager that can be reached.
LEMMA DiffForm ==
  ASSUME NEW am, am.reachable = TRUE, NEW scoped
  PROVE  LET new == ToAdd(scoped, am.names)
         IN Export!handleExportDiff(am, scoped) =
              IF am.config = <<>> \/ new = <<>> THEN am.config
              ELSE Export!Splice(am.config, Export!FlattenSeq([i \in DOMAIN new |-> Export!receiverYAML]),
                                 Export!assembleRoutesYAML(new))
<1>1. Export!Only(scoped, {ac \in Export!ToSet(scoped) : ~Export!AlreadyLoaded(ac, am.names)}) = ToAdd(scoped, am.names)
  BY ExportSame, Zenon DEF ToAdd
<1> QED BY <1>1, Zenon DEF Export!handleExportDiff

\* One item is added for every receiver that is not loaded, and none for others.
LEMMA DiffAdds ==
  ASSUME NEW am, am.reachable = TRUE, Export!Configuration(am.config), NEW S, NEW scoped \in Seq(S)
  PROVE  LET diff == Export!handleExportDiff(am, scoped)
         IN /\ Export!Loaded(diff) = am.config
            /\ Export!Items(Export!Added(diff)) =
                 IF am.config = <<>> THEN 0
                 ELSE Cardinality({i \in DOMAIN scoped : ~Export!AlreadyLoaded(scoped[i], am.names)})
<1> DEFINE new == ToAdd(scoped, am.names)
           diff == Export!handleExportDiff(am, scoped)
           receivers == Export!FlattenSeq([i \in DOMAIN new |-> Export!receiverYAML])
           routes == Export!assembleRoutesYAML(new)
           config == am.config
           missing == {ac \in ToSet(scoped) : ~Export!AlreadyLoaded(ac, am.names)}
           Missing == {i \in DOMAIN scoped : ~Export!AlreadyLoaded(scoped[i], am.names)}
<1>1. diff = IF config = <<>> \/ new = <<>> THEN config ELSE Export!Splice(config, receivers, routes)
  BY DiffForm, Zenon
<1>2. new \in Seq(S) /\ Len(new) \in Nat /\ DOMAIN new = 1 .. Len(new)
  BY OnlySeq DEF ToAdd
<1>3. Cardinality(Missing) = Len(new)
  <2>1. Missing = {i \in DOMAIN scoped : scoped[i] \in missing}
    <3>1. \A i \in DOMAIN scoped : scoped[i] \in ToSet(scoped)
      BY DEF ToSet
    <3> QED BY <3>1, Zenon
  <2> HIDE DEF missing, Missing
  <2>2. Cardinality({i \in DOMAIN scoped : scoped[i] \in missing}) = Len(Only(scoped, missing))
    BY CountIsLen
  <2>3. new = Only(scoped, missing)
    BY Zenon DEF ToAdd, missing
  <2> QED BY <2>1, <2>2, <2>3, Zenon
<1>4. receivers \in Seq(Written) /\ Len(Only(receivers, {ItemLine})) = Len(new)
  <2>1. \A n \in Nat : /\ Export!FlattenSeq([i \in 1 .. n |-> Export!receiverYAML]) \in Seq(Written)
                       /\ Len(Only(Export!FlattenSeq([i \in 1 .. n |-> Export!receiverYAML]), {ItemLine})) = n
    BY ReceiversText, Zenon
  <2> HIDE DEF new
  <2> QED BY <1>2, <2>1, Zenon
<1>5. routes \in Seq(OtherLines) /\ routes \in Seq(Written)
  <2>1. routes \in Seq(OtherLines)
    BY <1>2, RoutesText
  <2> HIDE DEF routes
  <2> QED BY <2>1 DEF Written
<1> HIDE DEF new, receivers, routes, diff, Missing
<1>6. CASE config = <<>> \/ new = <<>>
  <2>1. diff = config
    BY <1>1, <1>6
  <2>2. config \in Seq(ToSet(config) \cup Written)
    <3>1. config \in Seq(ToSet(config))
      BY LinesOK
    <3> HIDE DEF config
    <3> QED BY <3>1
  <2>3. /\ Apart(ToSet(config) \cup Written, config, receivers, routes, ToSet(config), Written)
        /\ Export!Loaded(config) = Only(config, ToSet(config)) /\ Export!Added(config) = Only(config, Written)
    BY <1>4, <1>5, <2>2, ToldApart, Zenon
  <2> HIDE DEF config
  <2>4. Only(config, ToSet(config)) = config
    BY <2>2, OnlyAll
  <2>5. Only(config, Written) = <<>>
    <3>1. ToSet(config) \cap Written = {}
      BY <2>3 DEF Apart
    <3> QED BY <2>2, <3>1, OnlyNone
  <2>6. Export!Items(<<>>) = 0
    <3>1. {i \in DOMAIN <<>> : Export!IsItem((<<>>)[i])} = {}
      OBVIOUS
    <3>2. Cardinality({}) = 0
      BY FS_EmptySet
    <3> QED BY <3>1, <3>2, ExportSame, Zenon DEF Export!Items
  <2>7. new = <<>> => Cardinality(Missing) = 0
    BY <1>3
  <2>8. Export!Items(Export!Added(diff)) = IF config = <<>> THEN 0 ELSE Cardinality(Missing)
    BY <1>6, <2>1, <2>3, <2>5, <2>6, <2>7, Zenon
  <2>9. Export!Loaded(diff) = config
    BY <2>1, <2>3, <2>4, Zenon
  <2> QED BY <2>8, <2>9, Zenon DEF config, diff, Missing
<1>7. CASE config # <<>> /\ new # <<>>
  <2>1. diff = Export!Splice(config, receivers, routes)
    BY <1>1, <1>7, Zenon
  <2>2. Export!MergeIsPureAddition(config, receivers, routes)
    BY <1>4, <1>5, MergeAdds
  <2>3. Export!Loaded(diff) = config /\ Export!Added(diff) \in {receivers \o routes, routes \o receivers}
    BY <2>1, <2>2, Zenon DEF Export!MergeIsPureAddition
  <2> DEFINE text == Export!Added(diff)
  <2>4. Export!Items(text) = Len(Only(receivers, {ItemLine}))
    BY <1>4, <1>5, <2>3, ItemsOfBoth, Zenon
  <2>5. Export!Items(text) = Cardinality(Missing)
    BY <1>3, <1>4, <2>4, Zenon
  <2> QED BY <1>7, <2>3, <2>5, Zenon DEF diff, Missing
<1> QED BY <1>6, <1>7, Zenon

\* A receiver whose name is loaded is taken for loaded.
LEMMA LoadedNamesCount ==
  ASSUME NEW scoped \in Seq(Entries), NEW names
  PROVE  {i \in DOMAIN scoped : ~Export!AlreadyLoaded(scoped[i], names)}
           \subseteq {i \in DOMAIN scoped : scoped[i].name \notin names}
<1>1. ASSUME NEW i \in DOMAIN scoped, scoped[i].name \in names
      PROVE  Export!AlreadyLoaded(scoped[i], names)
  <2> DEFINE ac == scoped[i]
  <2>1. ac \in Entries
    OBVIOUS
  <2> HIDE DEF ac
  <2>3. ac.name \in Seq(Token)
    BY <2>1 DEF Entries, Tokens
  <2>2. Export!IsPrefix(ac.name, ac.name)
    BY <2>3 DEF Export!IsPrefix
  <2> QED BY <1>1, <2>2, Zenon DEF Export!AlreadyLoaded, ac
<1> DEFINE loaded(i) == Export!AlreadyLoaded(scoped[i], names)
           named(i) == scoped[i].name \in names
<1>2. \A i \in DOMAIN scoped : named(i) => loaded(i)
  BY <1>1
<1> HIDE DEF loaded, named
<1>3. {i \in DOMAIN scoped : ~loaded(i)} \subseteq {i \in DOMAIN scoped : ~named(i)}
  BY <1>2
<1> QED BY <1>3 DEF loaded, named

\* With all receivers loaded there is nothing to add.
LEMMA NothingMissing ==
  ASSUME NEW scoped \in Seq(Entries)
  PROVE  ToAdd(scoped, {scoped[i].name : i \in DOMAIN scoped}) = <<>>
<1> DEFINE names == {scoped[i].name : i \in DOMAIN scoped}
           missing == {ac \in ToSet(scoped) : ~Export!AlreadyLoaded(ac, names)}
<1>1. ASSUME NEW ac \in ToSet(scoped) PROVE Export!AlreadyLoaded(ac, names)
  <2>1. PICK i \in DOMAIN scoped : ac = scoped[i]
    BY DEF ToSet
  <2>4. scoped[i].name \in names
    OBVIOUS
  <2>5. scoped[i] \in Entries
    OBVIOUS
  <2>6. ac.name \in Seq(Token)
    BY <2>1, <2>5 DEF Entries, Tokens
  <2>2. Export!IsPrefix(ac.name, ac.name)
    BY <2>6 DEF Export!IsPrefix
  <2> QED BY <2>1, <2>2, <2>4, Zenon DEF Export!AlreadyLoaded
<1>2. ToSet(scoped) \cap missing = {}
  BY <1>1
<1> HIDE DEF missing
<1>3. Only(scoped, missing) = <<>>
  BY <1>2, OnlyNone
<1> QED BY <1>3, Zenon DEF ToAdd, missing

\* The diff is right, whatever is loaded and exported.
LEMMA DiffIsRight ==
  ASSUME NEW document, Export!Configuration(document), NEW names, NEW scoped \in Seq(Entries)
  PROVE  Export!DiffAddsWhatIsMissing(Export!Reached(document, names), scoped)
<1> DEFINE am == Export!Reached(document, names)
           all == [am EXCEPT !.names = {scoped[i].name : i \in DOMAIN scoped}]
           down == [am EXCEPT !.reachable = FALSE]
           diff == Export!handleExportDiff(am, scoped)
           known == {scoped[i].name : i \in DOMAIN scoped}
<1>1. am.reachable = TRUE /\ am.config = document /\ am.names = names
  BY DEF Export!Reached
<1>2. all.reachable = TRUE /\ all.config = document /\ all.names = known
  <2> HIDE DEF known
  <2>1. all = [am EXCEPT !.names = known]
    BY DEF known
  <2> HIDE DEF all
  <2> QED BY <2>1 DEF Export!Reached
<1>3. down.reachable = FALSE /\ down.config = document
  BY DEF Export!Reached
<1> HIDE DEF am, all, down
<1>4. /\ Export!Loaded(diff) = am.config
      /\ Export!Items(Export!Added(diff)) =
           IF am.config = <<>> THEN 0
           ELSE Cardinality({i \in DOMAIN scoped : ~Export!AlreadyLoaded(scoped[i], am.names)})
  BY <1>1, DiffAdds, Zenon
<1>5. Export!handleExportDiff(all, scoped) = am.config
  <2>1. ToAdd(scoped, all.names) = <<>>
    BY <1>2, NothingMissing, Zenon DEF known
  <2>2. Export!handleExportDiff(all, scoped) = all.config
    BY <1>2, <2>1, DiffForm, Zenon
  <2> QED BY <1>1, <1>2, <2>2, Zenon
<1>6. Export!handleExportDiff(down, scoped) = am.config
  <2>1. Export!handleExportDiff(down, scoped) = down.config
    BY <1>3, Zenon DEF Export!handleExportDiff
  <2> QED BY <1>1, <1>3, <2>1, Zenon
<1> DEFINE added == Export!Items(Export!Added(diff))
           missing == {i \in DOMAIN scoped : scoped[i].name \notin am.names}
           new == {i \in DOMAIN scoped : ~Export!AlreadyLoaded(scoped[i], am.names)}
<1>7. added = IF am.config = <<>> THEN 0 ELSE Cardinality(new)
  BY <1>4, Zenon
<1>8. new \subseteq missing
  BY LoadedNamesCount
<1>9. /\ IsFiniteSet(missing) /\ Cardinality(new) <= Cardinality(missing)
      /\ Cardinality(missing) \in Nat
  <2>1. IsFiniteSet(missing)
    <3>1. Len(scoped) \in Nat /\ DOMAIN scoped = 1 .. Len(scoped)
      OBVIOUS
    <3>2. IsFiniteSet(1 .. Len(scoped))
      BY <3>1, FS_Interval
    <3>3. missing \subseteq 1 .. Len(scoped)
      BY <3>1
    <3> HIDE DEF missing
    <3> QED BY <3>2, <3>3, FS_Subset
  <2> HIDE DEF missing, new
  <2> QED BY <1>8, <2>1, FS_Subset, FS_CardinalityType
<1>10. ASSUME \A i \in missing, m \in am.names : ~Export!IsPrefix(scoped[i].name, m)
       PROVE  new = missing
  <2>1. \A i \in missing : i \in new
    BY <1>10, Zenon DEF Export!AlreadyLoaded
  <2> HIDE DEF missing, new
  <2> QED BY <1>8, <2>1
<1> HIDE DEF diff, added, missing, new
<1>11. added <= Cardinality(missing)
  BY <1>7, <1>9
<1>12. \A S : Export!Cardinality(S) = Cardinality(S)
  BY ExportSame, Zenon
<1> QED BY <1>4, <1>5, <1>6, <1>7, <1>10, <1>11, <1>12, Zenon
        DEF Export!DiffAddsWhatIsMissing, am, all, down, diff, added, missing

\* What export merges into a loaded configuration changes nothing there, is all
\* there, and goes into its block, in the usual layouts after all that was in it;
\* and it is what is missing, but for names that begin a longer one that is loaded.
\* So for configurations and channels of any size.
THEOREM AdditionsLand == InputsSpec => []AdditionsLandWhereTheyBelong
<1> DEFINE Fixed == module = "export" => input \in ExportInputs
<1>1. InputsInit => Fixed
  BY DEF InputsInit
<1>2. Fixed /\ [InputsNext]_<<module, input>> => Fixed'
  BY DEF InputsNext
<1>3. Fixed => AdditionsLandWhereTheyBelong
  <2> SUFFICES ASSUME Fixed, module = "export"
               PROVE  LET shown == Export!handleExport(input.list)
                      IN /\ Export!MergeIsPureAddition(input.document, shown.receivers, shown.routes)
                         /\ Export!AdditionsEndTheirBlock(input.document)
                         /\ \A loaded \in SUBSET (NamesOf(input.list) \cup {n \o <<"x">> : n \in NamesOf(input.list)}) :
                              Export!DiffAddsWhatIsMissing(Export!Reached(input.document, loaded), input.list)
    BY Zenon DEF AdditionsLandWhereTheyBelong
  <2>1. input.list \in Seq(Entries) /\ Export!Configuration(input.document)
    BY ExportAssumption, Zenon DEF ExportAssumption
  <2> DEFINE list == input.list
             shown == Export!handleExport(list)
  <2>2. shown.receivers = Export!FlattenSeq([i \in DOMAIN list |-> Export!receiverYAML])
        /\ shown.routes = Export!assembleRoutesYAML(list)
    BY Zenon DEF Export!handleExport
  <2>3. shown.receivers \in Seq(Written)
    <3>1. Len(list) \in Nat /\ DOMAIN list = 1 .. Len(list)
      BY <2>1
    <3> HIDE DEF list
    <3> QED BY <2>2, <3>1, ReceiversText, Zenon
  <2>4. shown.routes \in Seq(Written)
    <3>1. shown.routes \in Seq(OtherLines)
      BY <2>1, <2>2, RoutesText, Zenon
    <3> HIDE DEF shown
    <3> QED BY <3>1 DEF Written
  <2> HIDE DEF shown
  <2>5. Export!MergeIsPureAddition(input.document, shown.receivers, shown.routes)
    BY <2>1, <2>3, <2>4, MergeAdds, Zenon
  <2>6. Export!AdditionsEndTheirBlock(input.document)
    BY <2>1, EndsLand, Zenon
  <2>7. \A names : Export!DiffAddsWhatIsMissing(Export!Reached(input.document, names), input.list)
    BY <2>1, DiffIsRight, Zenon
  <2> QED BY <2>5, <2>6, <2>7, Zenon DEF shown, list
<1> QED BY <1>1, <1>2, <1>3, PTL DEF InputsSpec
=============================================================================
