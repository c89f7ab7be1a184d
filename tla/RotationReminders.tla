--------------------------- MODULE RotationReminders --------------------------
(***************************************************************************)
(* The rotation clock of every receiver and the reminders about it.        *)
(* checkRotationReminders, run by the reconcile job, looks for overdue     *)
(* receivers in the memory of its pod, sends one direct message per        *)
(* channel, and only then writes the reminder times back; in the meantime  *)
(* commands on any pod rotate, remove and add receivers.                   *)
(*                                                                         *)
(* The job runs on one pod at a time (cluster.Schedule).  Commands, whose  *)
(* steps are ReceiverStore's subject, take effect in one step here, and so *)
(* does the job's compare-and-set, which applies its stamps to the list as *)
(* it then is.  Time is in days and 0 is the zero time; a receiver's       *)
(* webhook is left out, its rotation is a new LastRotatedAt.               *)
(***************************************************************************)
EXTENDS Naturals

CONSTANTS
  Pods,
  Names,       \* receivers
  Quiet,       \* bound: receivers that no command touches
  ChannelOf,   \* the channel a receiver posts to
  Threshold,   \* WebhookRotationDays; 0 disables the feature
  Repeat,      \* reminderRepeatInterval
  MaxTime,     \* bound on the clock
  NoPod

ASSUME LimitsAssumption == Threshold \in Nat /\ {Repeat, MaxTime} \subseteq Nat \ {0}
ASSUME NoPodAssumption == NoPod \notin Pods

VARIABLES
  now,      \* the clock
  kv,       \* the receiver list in KV: name to entry
  mem,      \* per pod: the list in memory
  job,      \* the reminder pass
  sent,     \* history: per name, the clock of the last reminder that was sent
  lost,     \* history: names of which a message failed while their entry was overdue
  missed    \* history: names reminded of whose stamp was not written after that

vars == <<now, kv, mem, job, sent, lost, missed>>

Times == 0..MaxTime
Channels == {ChannelOf[n] : n \in Names}
Entry == [LastRotatedAt : Times, LastReminderAt : Times, RemindersEnabled : BOOLEAN]
Lists == UNION {[some -> Entry] : some \in SUBSET Names}

Job == [pc : {"off", "open", "send", "stamp"}, pod : Pods \cup {NoPod}, now : Times,
        due : SUBSET Names, todo : SUBSET Channels,
        anew : SUBSET Names,   \* history: those due whose count began after their last reminder
        fresh : BOOLEAN]       \* history: the pass looked at the list as it is stored
Off == [pc |-> "off", pod |-> NoPod, now |-> 0, due |-> {}, todo |-> {}, anew |-> {},
        fresh |-> TRUE]

-----------------------------------------------------------------------------
(* Commands. *)

\* A committed write: the list, and the writing pod's copy of it.
Write(p, list) == kv' = list /\ mem' = [mem EXCEPT ![p] = list]

\* /alertmanager add, with or without "on".
Add(p, n, on) ==
  /\ n \notin DOMAIN kv
  /\ Write(p, [m \in DOMAIN kv \cup {n} |->
                 IF m = n THEN [LastRotatedAt |-> now, LastReminderAt |-> 0,
                                RemindersEnabled |-> on]
                 ELSE kv[m]])
  /\ UNCHANGED <<now, job, sent, lost, missed>>

Remove(p, n) ==
  /\ n \in DOMAIN kv
  /\ Write(p, [m \in DOMAIN kv \ {n} |-> kv[m]])
  /\ lost' = lost \ {n}
  /\ UNCHANGED <<now, job, sent, missed>>

\* /alertmanager rotate: the receivers that share a webhook, so a channel.
Rotate(p, group) ==
  /\ group # {} /\ group \subseteq DOMAIN kv
  /\ \A m, n \in group : ChannelOf[m] = ChannelOf[n]
  /\ Write(p, [n \in DOMAIN kv |->
                 IF n \in group THEN [kv[n] EXCEPT !.LastRotatedAt = now, !.LastReminderAt = 0]
                 ELSE kv[n]])
  /\ lost' = lost \ group
  /\ UNCHANGED <<now, job, sent, missed>>

\* A pod reloads its copy from KV.
Reload(p) ==
  /\ mem' = [mem EXCEPT ![p] = kv]
  /\ UNCHANGED <<now, kv, job, sent, lost, missed>>

-----------------------------------------------------------------------------
(* checkRotationReminders. *)

\* Opted in, past the threshold, and not reminded of too recently.  An entry with
\* the zero time is stamped in this pass and so counts as rotated now.
Overdue(e) ==
  /\ e.RemindersEnabled /\ e.LastRotatedAt # 0
  /\ now - e.LastRotatedAt >= Threshold
  /\ e.LastReminderAt = 0 \/ now - e.LastReminderAt >= Repeat

Unstamped(list) == {n \in DOMAIN list : list[n].LastRotatedAt = 0}

Detect(p) ==
  LET due == {n \in DOMAIN mem[p] : Overdue(mem[p][n])} IN
  /\ job.pc = "off" /\ Threshold > 0
  /\ due # {} \/ Unstamped(mem[p]) # {}
  /\ job' = [pc |-> IF due = {} THEN "stamp" ELSE "open", pod |-> p, now |-> now, due |-> due,
             todo |-> {ChannelOf[n] : n \in due},
             anew |-> {n \in due : mem[p][n].LastReminderAt = 0 /\ mem[p][n].LastRotatedAt >= sent[n]},
             fresh |-> mem[p] = kv]
  /\ UNCHANGED <<now, kv, mem, sent, lost, missed>>

\* GetDirectChannel.
OpenDM ==
  /\ job.pc = "open"
  /\ job' = [job EXCEPT !.pc = "send"]
  /\ UNCHANGED <<now, kv, mem, sent, lost, missed>>

\* It fails: the pass ends, and even the zero times stay.
OpenDMFails ==
  /\ job.pc = "open"
  /\ job' = Off
  /\ UNCHANGED <<now, kv, mem, sent, lost, missed>>

Group(channel) == {n \in job.due : ChannelOf[n] = channel}
Handled(channel) ==
  job' = [job EXCEPT !.todo = @ \ {channel}, !.pc = IF job.todo = {channel} THEN "stamp" ELSE @]

SendDM(channel) ==
  /\ job.pc = "send" /\ channel \in job.todo
  /\ Handled(channel)
  /\ sent' = [n \in Names |-> IF n \in Group(channel) THEN job.now ELSE sent[n]]
  /\ missed' = missed \cup Group(channel)
  /\ UNCHANGED <<now, kv, mem, lost>>

\* Nothing is sent: the receivers of the channel go without a message.
Unsent(channel) ==
  /\ lost' = lost \cup {n \in Group(channel) \cap DOMAIN kv :
                        kv[n].LastRotatedAt + Threshold <= job.now}
  /\ UNCHANGED <<now, kv, mem, sent, missed>>

\* Mutant of SendDMFails: the messages of the channels still to come are left out.
SendDMFailsAll(channel) ==
  /\ job.pc = "send" /\ channel \in job.todo
  /\ job' = [job EXCEPT !.todo = {}, !.pc = "stamp"]
  /\ Unsent(channel)

\* CreatePost fails; the failure is logged and the channel counts as reminded, so
\* that its receivers are tried again only after the repeat interval.
SendDMFails(channel) ==
  /\ job.pc = "send" /\ channel \in job.todo
  /\ Handled(channel)
  /\ Unsent(channel)

Stamped(n, e) ==
  [e EXCEPT !.LastRotatedAt = IF @ = 0 THEN job.now ELSE @,
            !.LastReminderAt = IF n \in job.due THEN job.now ELSE @]

\* Mutant of Stamp: it writes the list in the memory of its pod, with the stamps.
StampMemory ==
  /\ job.pc = "stamp"
  /\ Write(job.pod, [n \in DOMAIN mem[job.pod] |-> Stamped(n, mem[job.pod][n])])
  /\ missed' = missed \ job.due
  /\ job' = Off
  /\ UNCHANGED <<now, sent, lost>>

\* Mutant of Stamp: the reminder times are forgotten.
StampRotationsOnly ==
  /\ job.pc = "stamp"
  /\ Write(job.pod, [n \in DOMAIN kv |->
                       [kv[n] EXCEPT !.LastRotatedAt = IF @ = 0 THEN job.now ELSE @]])
  /\ missed' = missed \ job.due
  /\ job' = Off
  /\ UNCHANGED <<now, sent, lost>>

\* The stamps are applied to the list in KV, by name.
Stamp ==
  /\ job.pc = "stamp"
  /\ Write(job.pod, [n \in DOMAIN kv |-> Stamped(n, kv[n])])
  /\ missed' = missed \ job.due
  /\ job' = Off
  /\ UNCHANGED <<now, sent, lost>>

\* updateConfigsAtomic fails: the messages are out and nothing records it.
StampFails ==
  /\ job.pc = "stamp"
  /\ job' = Off
  /\ UNCHANGED <<now, kv, mem, sent, lost, missed>>

-----------------------------------------------------------------------------

\* A pod restarts, with whatever it was doing.
Restart(p) ==
  /\ mem' = [mem EXCEPT ![p] = kv]
  /\ job.pod = p /\ job' = Off
  /\ UNCHANGED <<now, kv, sent, lost, missed>>

Tick ==
  /\ now < MaxTime
  /\ now' = now + 1
  /\ UNCHANGED <<kv, mem, job, sent, lost, missed>>

\* An entry from before the feature existed has the zero time, one that was just
\* added the present.
Stored == [LastRotatedAt : {0}, LastReminderAt : {0}, RemindersEnabled : {FALSE}]
            \cup [LastRotatedAt : {1}, LastReminderAt : {0}, RemindersEnabled : {TRUE}]

Init ==
  /\ now = 1
  /\ \E old \in SUBSET Names : kv \in [old -> Stored]
  /\ mem = [p \in Pods |-> kv]
  /\ job = Off
  /\ sent = [n \in Names |-> 0] /\ lost = {} /\ missed = {}

Reminders ==
  \/ \E p \in Pods : Detect(p)
  \/ OpenDM \/ OpenDMFails \/ Stamp \/ StampFails
  \/ \E channel \in job.todo : SendDM(channel) \/ SendDMFails(channel)

Commands(p) ==
  \/ \E n \in Names \ Quiet : Remove(p, n) \/ \E on \in BOOLEAN : Add(p, n, on)
  \/ \E group \in SUBSET (DOMAIN kv \ Quiet) : Rotate(p, group)

Next ==
  \/ Reminders \/ Tick
  \/ \E p \in Pods : Commands(p) \/ Reload(p) \/ Restart(p)

Spec == Init /\ [][Next]_vars

-----------------------------------------------------------------------------
(* Properties. *)

\* Every variable keeps the shape the code gives it.
TypeOK ==
  /\ now \in Times
  /\ kv \in Lists /\ mem \in [Pods -> Lists]
  /\ job \in Job
  /\ sent \in [Names -> Times] /\ lost \subseteq Names /\ missed \subseteq Names

\* The reminder pass, however long its messages take, neither brings back nor
\* drops a receiver, and no write moves a rotation clock back: a rotation that
\* commits while reminders go out is not undone by the stamps that follow.
NoRotationLost ==
  [][/\ job.pc = "stamp" /\ job'.pc = "off" => DOMAIN kv' = DOMAIN kv
     /\ \A n \in DOMAIN kv \cap DOMAIN kv' : kv'[n].LastRotatedAt >= kv[n].LastRotatedAt]_kv

\* A receiver is not reminded of twice within the repeat interval, as far as the
\* code can prevent it: the pass worked on the stored list and the stamp of the
\* earlier reminder had been written.  A rotation starts a new count.
Throttled ==
  [][\A channel \in job.todo : SendDM(channel) =>
       \A n \in Group(channel) :
         (sent[n] # 0 /\ job.fresh /\ n \notin missed) =>
           job.now >= sent[n] + Repeat \/ n \in job.anew]_job

-----------------------------------------------------------------------------

\* Time passes, some pod gets to run the job and every pod to reload its copy.
Fairness ==
  /\ WF_vars(Tick) /\ WF_vars(Reminders)
  /\ \A p \in Pods : WF_vars(Reload(p))

LiveSpec == Spec /\ Fairness

\* A receiver that stays in the list, opted in and not rotated, is told of in a
\* message that is really sent once it is overdue, or else the message of its own
\* channel could not be: what happens to those of other channels does not matter
\* (reconciler.go:208-216), nor does a stamp that was meant for an earlier entry of
\* the name.  That holds once passes stop breaking off, and for entries rotated
\* early enough for MaxTime to leave room for such a stamp.
PassBreaks == OpenDMFails \/ StampFails \/ \E p \in Pods : Restart(p)
LongStanding(n) ==
  /\ n \in DOMAIN kv /\ kv[n].RemindersEnabled /\ kv[n].LastRotatedAt # 0
  /\ kv[n].LastRotatedAt + Threshold + Repeat <= MaxTime + 1
Told(n) == n \in DOMAIN kv /\ sent[n] >= kv[n].LastRotatedAt + Threshold
OverdueIsReminded ==
  \A n \in Names :
    (<>[][~PassBreaks]_vars /\ <>[]LongStanding(n)) => <>[](Told(n) \/ n \in lost)

=============================================================================
