----------------------- MODULE RotationReminders_proofs -----------------------
(* What is proved of RotationReminders, for any pods, receivers, thresholds and *)
(* intervals.                                                                   *)
EXTENDS RotationReminders, TLAPS

(* An entry tells of a reminder: the entry's time is no earlier, or the entry    *)
(* has been rotated or made since.                                               *)
Tells(e, time) ==
  \/ e.LastReminderAt >= time
  \/ e.LastReminderAt = 0 /\ e.LastRotatedAt >= time

(* Times are never ahead of the clock, nor of the pass that sets them. *)
TimesOK ==
  /\ \A n \in DOMAIN kv : kv[n].LastRotatedAt <= now
  /\ job.now <= now
  /\ \A n \in Names : sent[n] <= now
  /\ job.pc # "off" => \A n \in Names : sent[n] <= job.now

(* The stored list tells of every reminder whose stamp is not outstanding. *)
StoreTells == \A n \in DOMAIN kv \ missed : Tells(kv[n], sent[n])

(* As long as a pass has not come to a receiver's channel, the repeat interval   *)
(* has passed since the receiver's last reminder, or its count began anew, if the *)
(* pass looked at the stored list and that reminder was stamped.                  *)
Ripe(n) == sent[n] = 0 \/ sent[n] + Repeat <= job.now \/ n \in job.anew
PassTells ==
  \A n \in job.due : job.fresh /\ ChannelOf[n] \in job.todo /\ n \notin missed => Ripe(n)

Inv == TypeOK /\ TimesOK /\ StoreTells /\ PassTells

-------------------------------------------------------------------------------
(* Lists. *)

\* A list has entries for some of the names.
LEMMA ListShape ==
  ASSUME NEW list \in Lists
  PROVE  /\ DOMAIN list \subseteq Names /\ list \in [DOMAIN list -> Entry]
         /\ \A n \in DOMAIN list : list[n] \in Entry
BY DEF Lists

\* And whatever has entries for some of the names is a list.
LEMMA ListMade ==
  ASSUME NEW some, some \subseteq Names, NEW list \in [some -> Entry]
  PROVE  list \in Lists
BY DEF Lists

\* Entries hold times, of which 0 is one.
LEMMA EntryTimes ==
  /\ Times \subseteq Nat /\ 0 \in Times
  /\ \A e \in Entry : e.LastRotatedAt \in Nat /\ e.LastReminderAt \in Nat
BY LimitsAssumption DEF Times, Entry

\* No pass runs yet, and none has run.
LEMMA NoPassTyped == Off \in Job
BY EntryTimes DEF Off, Job

\* Nothing has been sent at first, and no time is set.
LEMMA Start == Init => Inv
<1> SUFFICES ASSUME Init PROVE Inv
  OBVIOUS
<1>1. PICK old \in SUBSET Names : kv \in [old -> Stored]
  BY DEF Init
<1>2. Stored \subseteq Entry
  <2>1. {0} \subseteq Times /\ {1} \subseteq Times
    BY LimitsAssumption DEF Times
  <2>2. {FALSE} \subseteq BOOLEAN /\ {TRUE} \subseteq BOOLEAN
    OBVIOUS
  <2> QED BY <2>1, <2>2, Zenon DEF Entry, Stored
<1>3. kv \in [old -> Entry]
  BY <1>1, <1>2
<1>4. kv \in Lists
  BY <1>3, ListMade
<1>5. /\ now = 1 /\ mem = [p \in Pods |-> kv] /\ job = Off
      /\ sent = [n \in Names |-> 0] /\ lost = {} /\ missed = {}
  BY DEF Init
<1>6. TypeOK
  BY <1>4, <1>5, NoPassTyped, LimitsAssumption DEF TypeOK, Times
<1>7. job.now = 0 /\ job.pc = "off" /\ job.due = {}
  BY <1>5 DEF Off
<1>8. \A n \in DOMAIN kv :
        kv[n].LastRotatedAt \in {0, 1} /\ kv[n].LastReminderAt = 0 /\ n \in Names
  BY <1>1 DEF Stored
<1>9. TimesOK
  BY <1>5, <1>7, <1>8 DEF TimesOK
<1>10. StoreTells
  BY <1>5, <1>8 DEF StoreTells, Tells
<1>11. PassTells
  BY <1>7 DEF PassTells
<1> QED BY <1>6, <1>9, <1>10, <1>11 DEF Inv

-------------------------------------------------------------------------------
(* Commands. *)

\* A list that a command or the pass has written is of the right shape, and so is
\* the copy of the pod that wrote it.
LEMMA Written ==
  ASSUME TypeOK, NEW p, NEW list \in Lists, Write(p, list)
  PROVE  kv' = list /\ mem' \in [Pods -> Lists]
BY DEF Write, TypeOK

\* A command whose list has only entries that are as they were, rotated now or new
\* keeps the invariant.
LEMMA CommandKeeps ==
  ASSUME Inv, NEW p \in Pods, NEW list \in Lists, Write(p, list),
         UNCHANGED <<now, job, sent, missed>>, lost' \subseteq Names,
         \A n \in DOMAIN list :
           \/ n \in DOMAIN kv /\ list[n] = kv[n]
           \/ list[n].LastRotatedAt = now /\ list[n].LastReminderAt = 0
  PROVE  Inv'
<1> USE DEF Inv
<1>1. kv' = list /\ mem' \in [Pods -> Lists]
  BY Written
<1>2. TypeOK'
  BY <1>1 DEF TypeOK
<1>n. now \in Nat
  BY LimitsAssumption DEF TypeOK, Times
<1>3. TimesOK'
  BY <1>1, <1>n DEF TimesOK
<1>4. StoreTells'
  <2> SUFFICES ASSUME NEW n \in DOMAIN list \ missed PROVE Tells(list[n], sent[n])
    BY <1>1 DEF StoreTells
  <2>1. CASE n \in DOMAIN kv /\ list[n] = kv[n]
    BY <2>1 DEF StoreTells
  <2>2. CASE list[n].LastRotatedAt = now /\ list[n].LastReminderAt = 0
    <3>1. n \in Names
      BY ListShape
    <3> QED BY <2>2, <3>1 DEF Tells, TimesOK
  <2> QED BY <2>1, <2>2
<1>5. PassTells'
  BY DEF PassTells, Ripe
<1> QED BY <1>2, <1>3, <1>4, <1>5

\* Commands add, remove and rotate receivers, whatever a reminder pass is doing.
LEMMA CommandsKeep ==
  ASSUME Inv, NEW p \in Pods, Commands(p)
  PROVE  Inv'
<1> USE DEF Inv
<1>l. kv \in Lists /\ DOMAIN kv \subseteq Names /\ \A n \in DOMAIN kv : kv[n] \in Entry
  BY ListShape DEF TypeOK
<1>1. ASSUME NEW n \in Names, Remove(p, n) PROVE Inv'
  <2> DEFINE list == [m \in DOMAIN kv \ {n} |-> kv[m]]
  <2>1. list \in [DOMAIN kv \ {n} -> Entry] /\ DOMAIN kv \ {n} \subseteq Names
    BY <1>l
  <2>2. list \in Lists
    BY <2>1, ListMade
  <2>3. Write(p, list) /\ UNCHANGED <<now, job, sent, missed>> /\ lost' \subseteq Names
    BY <1>1 DEF Remove, TypeOK
  <2>4. \A m \in DOMAIN list : m \in DOMAIN kv /\ list[m] = kv[m]
    OBVIOUS
  <2> HIDE DEF list
  <2> QED BY <2>2, <2>3, <2>4, CommandKeeps
<1>2. ASSUME NEW n \in Names, NEW on \in BOOLEAN, Add(p, n, on) PROVE Inv'
  <2> DEFINE fresh == [LastRotatedAt |-> now, LastReminderAt |-> 0, RemindersEnabled |-> on]
             list == [m \in DOMAIN kv \cup {n} |-> IF m = n THEN fresh ELSE kv[m]]
  <2>1. fresh \in Entry
    BY EntryTimes DEF TypeOK, Entry
  <2>2. fresh.LastRotatedAt = now /\ fresh.LastReminderAt = 0
    OBVIOUS
  <2>3. Write(p, list) /\ UNCHANGED <<now, job, sent, missed>> /\ lost' \subseteq Names
    BY <1>2 DEF Add, TypeOK
  <2> HIDE DEF fresh
  <2>4. list \in [DOMAIN kv \cup {n} -> Entry] /\ DOMAIN kv \cup {n} \subseteq Names
    BY <1>l, <2>1
  <2>5. list \in Lists
    BY <2>4, ListMade
  <2>6. \A m \in DOMAIN list :
          \/ m \in DOMAIN kv /\ list[m] = kv[m]
          \/ list[m].LastRotatedAt = now /\ list[m].LastReminderAt = 0
    BY <2>2
  <2> HIDE DEF list
  <2> QED BY <2>3, <2>5, <2>6, CommandKeeps
<1>3. ASSUME NEW group \in SUBSET DOMAIN kv, Rotate(p, group) PROVE Inv'
  <2> DEFINE list == [n \in DOMAIN kv |->
                        IF n \in group
                        THEN [kv[n] EXCEPT !.LastRotatedAt = now, !.LastReminderAt = 0]
                        ELSE kv[n]]
  <2>1. \A n \in DOMAIN kv :
          LET e == [kv[n] EXCEPT !.LastRotatedAt = now, !.LastReminderAt = 0]
          IN  e \in Entry /\ e.LastRotatedAt = now /\ e.LastReminderAt = 0
    BY <1>l, EntryTimes DEF TypeOK, Entry
  <2>2. list \in [DOMAIN kv -> Entry]
    BY <1>l, <2>1
  <2>3. list \in Lists
    BY <1>l, <2>2, ListMade
  <2>4. Write(p, list) /\ UNCHANGED <<now, job, sent, missed>> /\ lost' \subseteq Names
    BY <1>3 DEF Rotate, TypeOK
  <2>5. \A n \in DOMAIN list :
          \/ n \in DOMAIN kv /\ list[n] = kv[n]
          \/ list[n].LastRotatedAt = now /\ list[n].LastReminderAt = 0
    BY <2>1
  <2> HIDE DEF list
  <2> QED BY <2>3, <2>4, <2>5, CommandKeeps
<1>4. ASSUME NEW group \in SUBSET (DOMAIN kv \ Quiet), Rotate(p, group) PROVE Inv'
  <2>1. group \in SUBSET DOMAIN kv
    OBVIOUS
  <2> QED BY <1>3, <1>4, <2>1
<1> QED BY <1>1, <1>2, <1>4 DEF Commands

-------------------------------------------------------------------------------
(* The reminder pass. *)

\* A pass that ends leaves nothing behind but what it wrote.
LEMMA PassEnds ==
  ASSUME Inv, job' = Off, kv' = kv, mem' \in [Pods -> Lists], UNCHANGED <<now, sent, lost, missed>>
  PROVE  Inv'
<1>1. TypeOK'
  BY NoPassTyped DEF Inv, TypeOK
<1>2. job'.now = 0 /\ job'.pc = "off" /\ job'.due = {}
  BY DEF Off
<1>3. TimesOK'
  BY <1>2, EntryTimes DEF Inv, TypeOK, TimesOK
<1> QED BY <1>1, <1>2, <1>3 DEF Inv, StoreTells, PassTells

\* A pass looks at its pod's copy: what it is due to remind of has not been
\* reminded of too recently, if the copy tells of what was sent, as a fresh one does
\* (checkRotationReminders, reconciler.go:148-196).
LEMMA DetectKeeps ==
  ASSUME Inv, NEW p \in Pods, Detect(p)
  PROVE  Inv'
<1> USE DEF Inv
<1> DEFINE due == {n \in DOMAIN mem[p] : Overdue(mem[p][n])}
           anew == {n \in due : mem[p][n].LastReminderAt = 0 /\ mem[p][n].LastRotatedAt >= sent[n]}
           pc == IF due = {} THEN "stamp" ELSE "open"
           fresh == (mem[p] = kv)
<1>1. mem[p] \in Lists /\ DOMAIN mem[p] \subseteq Names /\ \A n \in DOMAIN mem[p] : mem[p][n] \in Entry
  BY ListShape DEF TypeOK
<1>2. fresh \in BOOLEAN /\ (fresh => mem[p] = kv)
  OBVIOUS
<1>3. /\ job' = [pc |-> pc, pod |-> p, now |-> now, due |-> due,
                 todo |-> {ChannelOf[n] : n \in due}, anew |-> anew, fresh |-> fresh]
      /\ UNCHANGED <<now, kv, mem, sent, lost, missed>>
  BY DEF Detect
<1>4. due \subseteq Names /\ {ChannelOf[n] : n \in due} \subseteq Channels /\ anew \subseteq Names
  BY <1>1 DEF Channels
<1>5. ASSUME NEW n \in due, fresh, n \notin missed
      PROVE  sent[n] = 0 \/ sent[n] + Repeat <= now \/ n \in anew
  <2>1. n \in DOMAIN mem[p] /\ n \in Names /\ mem[p] = kv
    BY <1>1, <1>5
  <2>2. mem[p][n].LastReminderAt = 0 \/ now - mem[p][n].LastReminderAt >= Repeat
    BY DEF Overdue
  <2>3. Tells(mem[p][n], sent[n])
    BY <1>5, <2>1 DEF StoreTells
  <2>4. /\ sent[n] \in Nat /\ now \in Nat /\ Repeat \in Nat
        /\ mem[p][n].LastReminderAt \in Nat /\ mem[p][n].LastRotatedAt \in Nat
    BY <1>1, <2>1, EntryTimes, LimitsAssumption DEF TypeOK
  <2>5. mem[p][n].LastReminderAt = 0 /\ mem[p][n].LastRotatedAt >= sent[n] => n \in anew
    OBVIOUS
  <2> HIDE DEF due, anew, fresh
  <2> QED BY <2>2, <2>3, <2>4, <2>5 DEF Tells
<1>6. pc \in {"open", "stamp"}
  OBVIOUS
<1> HIDE DEF fresh, due, pc, anew
<1>7. job' \in Job
  BY <1>1, <1>2, <1>3, <1>4, <1>6 DEF Job, TypeOK
<1>8. /\ job'.pc = pc /\ job'.now = now /\ job'.due = due /\ job'.anew = anew
      /\ job'.fresh = fresh
  BY <1>3
<1>10. TypeOK'
  BY <1>3, <1>7 DEF TypeOK
<1>11. TimesOK'
  BY <1>3, <1>8, EntryTimes DEF TimesOK, TypeOK
<1>12. StoreTells'
  BY <1>3 DEF StoreTells
<1>13. PassTells'
  <2> SUFFICES ASSUME NEW n \in due, fresh, n \notin missed PROVE Ripe(n)'
    BY <1>3, <1>8 DEF PassTells
  <2> QED BY <1>3, <1>5, <1>8 DEF Ripe
<1> QED BY <1>10, <1>11, <1>12, <1>13

\* A pass that goes on to another step works with what it had.
LEMMA PassGoesOn ==
  ASSUME job \in Job, NEW pc \in {"open", "send", "stamp"}, NEW todo \in SUBSET job.todo,
         job' = [job EXCEPT !.pc = pc, !.todo = todo]
  PROVE  /\ job' \in Job /\ job'.pc = pc /\ job'.todo = todo
         /\ job'.now = job.now /\ job'.due = job.due /\ job'.anew = job.anew
         /\ job'.fresh <=> job.fresh
<1>1. job' \in Job
  BY DEF Job
<1>2. /\ job'.pc = pc /\ job'.todo = todo
      /\ job'.now = job.now /\ job'.due = job.due /\ job'.anew = job.anew
  BY DEF Job
<1>3. job'.fresh = job.fresh
  BY DEF Job
<1> QED BY <1>1, <1>2, <1>3

\* A pass works through its channels one by one; who is reminded of is missing its
\* stamp from then on (checkRotationReminders).
LEMMA SendKeeps ==
  ASSUME Inv, NEW channel \in job.todo, SendDM(channel) \/ SendDMFails(channel)
  PROVE  Inv'
<1> USE DEF Inv
<1>1. /\ job.pc = "send" /\ UNCHANGED <<now, kv, mem>>
      /\ Handled(channel)
  BY DEF SendDM, SendDMFails, Unsent
<1>2. PICK pc \in {"send", "stamp"} : job' = [job EXCEPT !.pc = pc, !.todo = job.todo \ {channel}]
  BY <1>1 DEF Handled, TypeOK, Job
<1>3. /\ job' \in Job /\ job'.pc = pc /\ job'.todo = job.todo \ {channel}
      /\ job'.now = job.now /\ job'.due = job.due /\ job'.anew = job.anew
      /\ job'.fresh <=> job.fresh
  <2>1. job.todo \ {channel} \in SUBSET job.todo /\ pc \in {"open", "send", "stamp"} /\ job \in Job
    BY DEF TypeOK
  <2> QED BY <1>2, <2>1, PassGoesOn
<1>4. job.due \subseteq Names /\ job.now \in Times
  BY DEF TypeOK, Job
<1>5. \A n \in Names : \/ sent'[n] = sent[n] /\ (n \in missed' <=> n \in missed)
                       \/ sent'[n] = job.now /\ n \in missed' /\ n \in Group(channel)
  BY DEF SendDM, SendDMFails, Unsent, TypeOK
<1>6. sent' \in [Names -> Times] /\ missed' \subseteq Names /\ lost' \subseteq Names
  BY <1>4 DEF SendDM, SendDMFails, Unsent, TypeOK, Group
<1>7. TypeOK'
  BY <1>1, <1>3, <1>6 DEF TypeOK
<1>8. TimesOK'
  <2>1. \A n \in Names : sent'[n] <= job.now
    <3>1. job.now \in Nat /\ \A n \in Names : sent[n] <= job.now
      BY <1>1, <1>4, EntryTimes DEF TimesOK
    <3>2. \A n \in Names : sent'[n] = sent[n] \/ sent'[n] = job.now
      BY <1>5
    <3>3. job.now <= job.now
      BY <3>1
    <3> QED BY <3>1, <3>2, <3>3
  <2>2. job.now <= now /\ job.now \in Nat /\ now \in Nat
        /\ \A n \in Names : sent'[n] \in Nat
    BY <1>4, <1>6, EntryTimes DEF TimesOK, TypeOK
  <2>3. \A n \in Names : sent'[n] <= now
    BY <2>1, <2>2
  <2> QED BY <1>1, <1>3, <2>1, <2>2, <2>3 DEF TimesOK
<1>9. StoreTells'
  <2>1. DOMAIN kv \subseteq Names
    BY ListShape DEF TypeOK
  <2> QED BY <1>1, <1>5, <2>1 DEF StoreTells
<1>10. PassTells'
  <2> SUFFICES ASSUME NEW n \in job.due, job.fresh, ChannelOf[n] \in job'.todo, n \notin missed'
               PROVE  Ripe(n)'
    BY <1>3 DEF PassTells
  <2>1. n \notin missed /\ sent'[n] = sent[n] /\ ChannelOf[n] \in job.todo
    BY <1>3, <1>4, <1>5
  <2> QED BY <1>3, <2>1 DEF PassTells, Ripe
<1> QED BY <1>7, <1>8, <1>9, <1>10

\* What the stamps make of an entry.
LEMMA StampedEntry ==
  ASSUME TypeOK, NEW n, NEW e \in Entry
  PROVE  /\ Stamped(n, e) \in Entry
         /\ Stamped(n, e).LastRotatedAt = IF e.LastRotatedAt = 0 THEN job.now ELSE e.LastRotatedAt
         /\ Stamped(n, e).LastReminderAt = IF n \in job.due THEN job.now ELSE e.LastReminderAt
BY DEF Stamped, Entry, TypeOK, Job

\* The stamps make the store tell of what the pass has sent
\* (the write at the end of checkRotationReminders).
LEMMA StampKeeps == Inv /\ Stamp => Inv'
<1> SUFFICES ASSUME Inv, Stamp PROVE Inv'
  OBVIOUS
<1> USE DEF Inv
<1> DEFINE list == [n \in DOMAIN kv |-> Stamped(n, kv[n])]
<1>1. /\ job.pc = "stamp" /\ Write(job.pod, list) /\ missed' = missed \ job.due /\ job' = Off
      /\ UNCHANGED <<now, sent, lost>>
  BY DEF Stamp
<1>2. DOMAIN kv \subseteq Names /\ \A n \in DOMAIN kv : kv[n] \in Entry
  BY ListShape DEF TypeOK
<1>3. \A n \in DOMAIN kv :
        /\ list[n] \in Entry
        /\ list[n].LastRotatedAt = IF kv[n].LastRotatedAt = 0 THEN job.now ELSE kv[n].LastRotatedAt
        /\ list[n].LastReminderAt = IF n \in job.due THEN job.now ELSE kv[n].LastReminderAt
  BY <1>2, StampedEntry
<1>4. list \in [DOMAIN kv -> Entry]
  BY <1>3
<1>5. list \in Lists /\ DOMAIN list = DOMAIN kv
  BY <1>2, <1>4, ListMade
<1> HIDE DEF list
<1>6. kv' = list /\ mem' \in [Pods -> Lists]
  BY <1>1, <1>5, Written
<1>7. TypeOK'
  BY <1>1, <1>5, <1>6, NoPassTyped DEF TypeOK
<1>8. job'.now = 0 /\ job'.pc = "off" /\ job'.due = {}
  BY <1>1 DEF Off
<1>9. \A n \in DOMAIN kv : list[n].LastRotatedAt <= now
  BY <1>3 DEF TimesOK
<1>10. TimesOK'
  BY <1>1, <1>5, <1>6, <1>8, <1>9, EntryTimes DEF TimesOK, TypeOK
<1>11. StoreTells'
  <2> SUFFICES ASSUME NEW n \in DOMAIN kv, n \notin missed \/ n \in job.due
               PROVE  Tells(list[n], sent[n])
    BY <1>1, <1>5, <1>6 DEF StoreTells
  <2>1. /\ sent[n] \in Nat /\ job.now \in Nat /\ kv[n].LastRotatedAt \in Nat
        /\ kv[n].LastReminderAt \in Nat /\ sent[n] <= job.now
    BY <1>1, <1>2, EntryTimes DEF TypeOK, Job, TimesOK
  <2>2. CASE n \in job.due
    BY <1>3, <2>1, <2>2 DEF Tells
  <2>3. CASE n \notin job.due
    <3>1. Tells(kv[n], sent[n])
      BY <2>3 DEF StoreTells
    <3> QED BY <1>3, <2>1, <2>3, <3>1 DEF Tells
  <2> QED BY <2>2, <2>3
<1>12. PassTells'
  BY <1>8 DEF PassTells
<1> QED BY <1>7, <1>10, <1>11, <1>12

-------------------------------------------------------------------------------
(* The invariant. *)

\* Every step keeps the invariant.
LEMMA StepKeeps == Inv /\ [Next]_vars => Inv'
<1> SUFFICES ASSUME Inv, [Next]_vars PROVE Inv'
  OBVIOUS
<1> USE DEF Inv
<1>1. ASSUME NEW p \in Pods, Commands(p) PROVE Inv'
  BY <1>1, CommandsKeep
<1>2. ASSUME NEW p \in Pods, Reload(p) PROVE Inv'
  <2>1. mem' \in [Pods -> Lists] /\ UNCHANGED <<now, kv, job, sent, lost, missed>>
    BY <1>2 DEF Reload, TypeOK
  <2> QED BY <2>1 DEF TypeOK, TimesOK, StoreTells, PassTells, Ripe
<1>3. ASSUME NEW p \in Pods, Restart(p) PROVE Inv'
  <2>1. job' = Off /\ kv' = kv /\ mem' \in [Pods -> Lists] /\ UNCHANGED <<now, sent, lost, missed>>
    BY <1>3 DEF Restart, TypeOK
  <2> QED BY <2>1, PassEnds
<1>4. CASE Tick
  <2>1. now < MaxTime /\ now' = now + 1 /\ UNCHANGED <<kv, mem, job, sent, lost, missed>>
    BY <1>4 DEF Tick
  <2>2. TypeOK'
    BY <2>1, LimitsAssumption DEF TypeOK, Times
  <2>3. /\ now \in Nat /\ job.now \in Nat /\ \A n \in Names : sent[n] \in Nat
        /\ \A n \in DOMAIN kv : kv[n].LastRotatedAt \in Nat
    BY EntryTimes, ListShape DEF TypeOK, Job
  <2>4. TimesOK'
    BY <2>1, <2>3 DEF TimesOK
  <2> QED BY <2>1, <2>2, <2>4 DEF StoreTells, PassTells, Ripe
<1>5. ASSUME NEW p \in Pods, Detect(p) PROVE Inv'
  BY <1>5, DetectKeeps
<1>6. CASE OpenDM
  <2>1. job' = [job EXCEPT !.pc = "send", !.todo = job.todo] /\ job.pc = "open"
        /\ UNCHANGED <<now, kv, mem, sent, lost, missed>>
    BY <1>6 DEF OpenDM, TypeOK, Job
  <2>2. /\ job' \in Job /\ job'.todo = job.todo /\ job'.pc = "send"
        /\ job'.now = job.now /\ job'.due = job.due /\ job'.anew = job.anew
        /\ job'.fresh <=> job.fresh
    BY <2>1, PassGoesOn DEF TypeOK
  <2> QED BY <2>1, <2>2 DEF TypeOK, TimesOK, StoreTells, PassTells, Ripe
<1>7. CASE OpenDMFails \/ StampFails
  <2>1. job' = Off /\ kv' = kv /\ mem' = mem /\ UNCHANGED <<now, sent, lost, missed>>
    BY <1>7 DEF OpenDMFails, StampFails
  <2> QED BY <2>1, PassEnds DEF TypeOK
<1>8. CASE Stamp
  BY <1>8, StampKeeps
<1>9. ASSUME NEW channel \in job.todo, SendDM(channel) \/ SendDMFails(channel) PROVE Inv'
  BY <1>9, SendKeeps
<1>10. CASE UNCHANGED vars
  BY <1>10 DEF vars, TypeOK, TimesOK, StoreTells, PassTells, Ripe
<1> QED BY <1>1, <1>2, <1>3, <1>4, <1>5, <1>6, <1>7, <1>8, <1>9, <1>10 DEF Next, Reminders

\* So it holds in every state of every behaviour.
LEMMA AlwaysInv == Spec => []Inv
BY Start, StepKeeps, PTL DEF Spec

\* The variables keep the shape the code gives them.
THEOREM TypeCorrect == Spec => []TypeOK
<1>1. Inv => TypeOK
  BY DEF Inv
<1> QED BY <1>1, AlwaysInv, PTL

\* The stamps of a reminder pass, applied to the list as it then is, neither bring
\* back nor drop a receiver, and no step moves a rotation clock back.
THEOREM RotationsStay == Spec => NoRotationLost
<1> DEFINE Stay ==
      /\ job.pc = "stamp" /\ job'.pc = "off" => DOMAIN kv' = DOMAIN kv
      /\ \A n \in DOMAIN kv \cap DOMAIN kv' : kv'[n].LastRotatedAt >= kv[n].LastRotatedAt
<1>1. Inv /\ [Next]_vars => [Stay]_kv
  <2> SUFFICES ASSUME Inv, Next, kv' # kv PROVE Stay
    BY DEF vars
  <2>l. /\ \A n \in DOMAIN kv : kv[n] \in Entry /\ kv[n].LastRotatedAt \in Nat
        /\ now \in Nat /\ job.now \in Nat
    BY ListShape, EntryTimes DEF Inv, TypeOK, Job
  <2>1. ASSUME NEW p \in Pods, NEW n \in Names, Remove(p, n) \/ \E on \in BOOLEAN : Add(p, n, on)
        PROVE  Stay
    <3>1. job' = job /\ \A m \in DOMAIN kv \cap DOMAIN kv' : kv'[m] = kv[m]
      BY <2>1 DEF Remove, Add, Write
    <3> QED BY <2>l, <3>1
  <2>2. ASSUME NEW p \in Pods, NEW group \in SUBSET (DOMAIN kv \ Quiet), Rotate(p, group)
        PROVE  Stay
    <3>1. job' = job /\ DOMAIN kv' = DOMAIN kv
          /\ \A n \in DOMAIN kv :
               kv'[n] = IF n \in group
                        THEN [kv[n] EXCEPT !.LastRotatedAt = now, !.LastReminderAt = 0] ELSE kv[n]
      BY <2>2 DEF Rotate, Write
    <3>2. \A n \in DOMAIN kv : kv'[n].LastRotatedAt = now \/ kv'[n] = kv[n]
      BY <2>l, <3>1 DEF Entry
    <3>3. \A n \in DOMAIN kv : kv'[n].LastRotatedAt >= kv[n].LastRotatedAt
      BY <2>l, <3>2 DEF Inv, TimesOK
    <3> QED BY <2>l, <3>1, <3>3
  <2>3. CASE Stamp
    <3>1. DOMAIN kv' = DOMAIN kv /\ \A n \in DOMAIN kv : kv'[n] = Stamped(n, kv[n])
      BY <2>3 DEF Stamp, Write
    <3>2. \A n \in DOMAIN kv : kv'[n].LastRotatedAt =
                               IF kv[n].LastRotatedAt = 0 THEN job.now ELSE kv[n].LastRotatedAt
      BY <2>l, <3>1, StampedEntry DEF Inv
    <3> QED BY <2>l, <3>1, <3>2
  <2> QED BY <2>1, <2>2, <2>3 DEF Next, Reminders, Commands, Reload, Restart, Tick, Detect,
             OpenDM, OpenDMFails, StampFails, SendDM, SendDMFails, Unsent
<1> QED BY <1>1, AlwaysInv, PTL DEF NoRotationLost, Spec

\* A receiver is reminded of again only after the repeat interval, or after a
\* rotation, if the pass saw the store and the earlier reminder was stamped.
THEOREM NotTooOften == Spec => Throttled
<1> DEFINE Late ==
      \A channel \in job.todo : SendDM(channel) =>
        \A n \in Group(channel) :
          (sent[n] # 0 /\ job.fresh /\ n \notin missed) =>
            job.now >= sent[n] + Repeat \/ n \in job.anew
<1>1. Inv => Late
  <2> SUFFICES ASSUME Inv, NEW channel \in job.todo, NEW n \in Group(channel),
                      sent[n] # 0, job.fresh, n \notin missed
               PROVE  job.now >= sent[n] + Repeat \/ n \in job.anew
    OBVIOUS
  <2>1. n \in job.due /\ ChannelOf[n] \in job.todo
    BY DEF Group
  <2>2. Ripe(n)
    BY <2>1 DEF Inv, PassTells
  <2>3. sent[n] \in Nat /\ job.now \in Nat /\ Repeat \in Nat
    BY <2>1, EntryTimes, LimitsAssumption DEF Inv, TypeOK, Job
  <2> QED BY <2>2, <2>3 DEF Ripe
<1> QED BY <1>1, AlwaysInv, PTL DEF Throttled

===============================================================================
