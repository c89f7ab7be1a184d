--------------------------- MODULE ChannelRollback ----------------------------
(***************************************************************************)
(* The destination channel of a command: resolveOrCreateChannel finds the  *)
(* channel by its slug or creates it, and a failed add archives again the  *)
(* channel it created, unless a receiver is bound to it by then.           *)
(*                                                                         *)
(* Each worker is a command on a pod of its own; configWriteMu would only  *)
(* serialize two commands of one pod.  The webhook and the write of the    *)
(* receiver list, ReceiverStore's subject, are one step each here that     *)
(* succeeds or fails.  A receiver is the pair of the slug it is stored     *)
(* under and the channel its webhook posts to.                             *)
(***************************************************************************)
EXTENDS FiniteSets

CONSTANTS
  Workers,
  Slugs,     \* team and channel name of a destination
  Ids,       \* channel ids Mattermost can hand out
  NoId

ASSUME NoIdAssumption == NoId \notin Ids \cup Slugs

VARIABLES
  named,     \* per slug: the open channel with that name, or NoId
  archived,  \* channels that are archived
  made,      \* history: channels the plugin created
  excused,   \* history: channels left behind for a stated reason
  renamed,   \* history: channels somebody gave another name
  stored,    \* the receiver list in KV
  req        \* per worker: the command it runs

vars == <<named, archived, made, excused, renamed, stored, req>>

Receiver == [slug : Slugs, id : Ids]
Steps == {"idle", "create", "mint", "write", "check", "archive"}
Request == [op : {"none", "add", "rotate"}, pc : Steps, slug : Slugs \cup {NoId},
            old : Ids \cup {NoId}, id : Ids \cup {NoId}, created : BOOLEAN,
            seen : SUBSET Ids]   \* history: channels in use when the rollback looked

Idle == [op |-> "none", pc |-> "idle", slug |-> NoId, old |-> NoId, id |-> NoId,
         created |-> FALSE, seen |-> {}]

\* Every channel there has been: created, archived, given up, renamed or open.
Known == made \cup archived \cup excused \cup renamed \cup {named[s] : s \in Slugs}
At(w, step) == req[w].pc = step
Goto(w, step) == req' = [req EXCEPT ![w].pc = step]
Return(w) == req' = [req EXCEPT ![w] = Idle]
Bound(slug) == \E r \in stored : r.slug = slug
InUse == {r.id : r \in stored}

-----------------------------------------------------------------------------
(* resolveOrCreateChannel: two calls, GetChannelByName and CreateChannel. *)

Resolve(w, op, slug, old) ==
  /\ At(w, "idle")
  /\ req' = [req EXCEPT ![w] = [op |-> op, pc |-> IF named[slug] = NoId THEN "create" ELSE "mint",
                                slug |-> slug, old |-> old, id |-> named[slug],
                                created |-> FALSE, seen |-> {}]]
  /\ UNCHANGED <<named, archived, made, excused, renamed, stored>>

\* add and add-custom name any channel; rotate, that of a stored receiver, whose
\* webhook may post to a channel that no longer has the name.
AddResolve(w, slug) == Resolve(w, "add", slug, NoId)
RotateResolve(w, r) == r \in stored /\ Resolve(w, "rotate", r.slug, r.id)

\* A name can be taken only while no open channel has it.
CreateChannel(w, id) ==
  LET slug == req[w].slug IN
  /\ At(w, "create")
  /\ named[slug] = NoId /\ id \notin Known
  /\ named' = [named EXCEPT ![slug] = id]
  /\ made' = made \cup {id}
  \* rotate keeps only the id: it will not undo the creation
  /\ excused' = IF req[w].op = "rotate" THEN excused \cup {id} ELSE excused
  /\ req' = [req EXCEPT ![w].pc = "mint", ![w].id = id, ![w].created = TRUE]
  /\ UNCHANGED <<archived, renamed, stored>>

\* The channel cannot be looked up or created: the name was taken meanwhile, or
\* the call fails.
CreateFails(w) ==
  /\ At(w, "create") /\ Return(w)
  /\ UNCHANGED <<named, archived, made, excused, renamed, stored>>

-----------------------------------------------------------------------------

MintHook(w) ==
  /\ At(w, "mint") /\ Goto(w, "write")
  /\ UNCHANGED <<named, archived, made, excused, renamed, stored>>

\* The receiver is already there: add returns before it creates a webhook.
Duplicate(w) ==
  /\ At(w, "mint") /\ req[w].op = "add" /\ Bound(req[w].slug)
  /\ Return(w)
  /\ excused' = IF req[w].created THEN excused \cup {req[w].id} ELSE excused
  /\ UNCHANGED <<named, archived, made, renamed, stored>>

\* add stores its receivers.  rotate repoints those that share the old webhook
\* to the channel it resolved: all that post to the old channel, or some of them,
\* or none, since another command may have rotated or removed them.
Write(w) ==
  LET here == [slug |-> req[w].slug, id |-> req[w].id]
      there == [slug |-> req[w].slug, id |-> req[w].old] IN
  /\ At(w, "write")
  /\ \/ /\ req[w].op = "add" \/ there \in stored
        /\ stored' = stored \cup {here}
        /\ UNCHANGED excused
     \/ /\ req[w].op = "rotate" /\ there \in stored
        /\ stored' = (stored \ {there}) \cup {here}
        /\ excused' = excused \cup {req[w].old}
     \/ req[w].op = "rotate" /\ UNCHANGED <<stored, excused>>
  /\ Return(w)
  /\ UNCHANGED <<named, archived, made, renamed>>

\* Mutant of Undone: whatever channel the command resolved is taken back.
UndoneAlways(w) == Goto(w, IF req[w].op = "add" THEN "check" ELSE "idle")

\* rollbackCreatedChannel, first line: only what this add created.
Undone(w) ==
  IF req[w].op = "add" /\ req[w].created THEN Goto(w, "check") ELSE Return(w)

\* The webhook cannot be created, or the list cannot be written.
Fails(w) ==
  /\ At(w, "mint") \/ At(w, "write")
  /\ Undone(w)
  /\ UNCHANGED <<named, archived, made, excused, renamed, stored>>

\* Mutant of Check: a channel that is in use is left alone, and so is any other.
CheckSkips(w) ==
  /\ At(w, "check") /\ Return(w)
  /\ UNCHANGED <<named, archived, made, excused, renamed, stored>>

\* Mutant of Check: the list is not read again.
CheckNothing(w) ==
  /\ At(w, "check")
  /\ req' = [req EXCEPT ![w].pc = "archive", ![w].seen = InUse]
  /\ UNCHANGED <<named, archived, made, excused, renamed, stored>>

\* The fresh list is read: go on only if nothing is bound to the slug.
Check(w) ==
  /\ At(w, "check")
  /\ IF Bound(req[w].slug)
     THEN Return(w) /\ excused' = excused \cup {req[w].id}
     ELSE req' = [req EXCEPT ![w].pc = "archive", ![w].seen = InUse] /\ UNCHANGED excused
  /\ UNCHANGED <<named, archived, made, renamed, stored>>

\* The list cannot be read (fail closed), or the channel cannot be archived.
RollbackFails(w) ==
  /\ At(w, "check") \/ At(w, "archive")
  /\ excused' = excused \cup {req[w].id}
  /\ Return(w)
  /\ UNCHANGED <<named, archived, made, renamed, stored>>

Close(id) ==
  /\ archived' = archived \cup {id}
  /\ named' = [s \in Slugs |-> IF named[s] = id THEN NoId ELSE named[s]]

\* DeleteChannel, by id.
Archive(w) ==
  /\ At(w, "archive")
  /\ Close(req[w].id)
  /\ Return(w)
  /\ UNCHANGED <<made, excused, renamed, stored>>

\* The pod dies in mid-command.
Crash(w) ==
  /\ ~At(w, "idle")
  /\ Return(w)
  /\ excused' = IF req[w].created THEN excused \cup {req[w].id} ELSE excused
  /\ UNCHANGED <<named, archived, made, renamed, stored>>

-----------------------------------------------------------------------------
(* What people do: open, rename, archive a channel; remove its receivers. *)

OpenChannel(slug, id) ==
  /\ named[slug] = NoId /\ id \notin Known
  /\ named' = [named EXCEPT ![slug] = id]
  /\ UNCHANGED <<archived, made, excused, renamed, stored, req>>

\* To a name no open channel has: that of another destination, or any other.
RenameChannel(slug, to) ==
  /\ named[slug] # NoId
  /\ to \in Slugs => named[to] = NoId
  /\ named' = [s \in Slugs |-> CASE s = slug -> NoId
                               [] s = to -> named[slug]
                               [] OTHER -> named[s]]
  /\ renamed' = renamed \cup {named[slug]}
  /\ UNCHANGED <<archived, made, excused, stored, req>>

ArchiveChannel(slug) ==
  /\ named[slug] # NoId
  /\ Close(named[slug])
  /\ UNCHANGED <<made, excused, renamed, stored, req>>

RemoveReceiver(r) ==
  /\ r \in stored
  /\ stored' = stored \ {r}
  /\ excused' = excused \cup {r.id}
  /\ UNCHANGED <<named, archived, made, renamed, req>>

-----------------------------------------------------------------------------

Init ==
  /\ named = [s \in Slugs |-> NoId]
  /\ archived = {} /\ made = {} /\ excused = {} /\ renamed = {} /\ stored = {}
  /\ req = [w \in Workers |-> Idle]

Command(w) ==
  \/ \E s \in Slugs : AddResolve(w, s)
  \/ \E r \in stored : RotateResolve(w, r)
  \/ \E id \in Ids : CreateChannel(w, id)
  \/ CreateFails(w) \/ Duplicate(w) \/ MintHook(w) \/ Write(w) \/ Fails(w)
  \/ Check(w) \/ RollbackFails(w) \/ Archive(w) \/ Crash(w)

People ==
  \/ \E s \in Slugs :
       \/ \E id \in Ids : OpenChannel(s, id)
       \/ \E to \in Slugs \cup {NoId} : RenameChannel(s, to)
       \/ ArchiveChannel(s)
  \/ \E r \in stored : RemoveReceiver(r)

Next == People \/ \E w \in Workers : Command(w)
Spec == Init /\ [][Next]_vars

-----------------------------------------------------------------------------
(* Properties. *)

\* Every variable keeps the shape the code gives it.
TypeOK ==
  /\ named \in [Slugs -> Ids \cup {NoId}]
  /\ archived \subseteq Ids /\ made \subseteq Ids /\ excused \subseteq Ids /\ renamed \subseteq Ids
  /\ stored \subseteq Receiver
  /\ req \in [Workers -> Request]

\* A rollback is about to archive only a channel its own command created, never
\* one that was there before, and never the one of another command
\* (cmd_lifecycle.go:1037-1041).
RollsBack(w) == req[w].pc \in {"check", "archive"}
RollbacksAreOwn ==
  \A w \in Workers : RollsBack(w) =>
    /\ req[w].id \in made
    /\ \A v \in Workers \ {w} : RollsBack(v) => req[v].id # req[w].id

\* A channel the plugin created is not left behind empty: it is archived, or a
\* receiver posts to it, or the command that created it is still running, or the
\* plugin had a reason to leave it (a failed rollback, a crash, a receiver bound
\* to the slug or removed, a rename, a rotation).
NoChannelSquatted ==
  made \ (archived \cup excused \cup renamed) \subseteq
    {r.id : r \in stored} \cup {req[w].id : w \in {v \in Workers : req[v].created}}

\* The fresh read of the list keeps a rollback from archiving a channel another
\* pod's receiver is bound to (cmd_lifecycle.go:1046-1052), as long as the channel
\* keeps its name: a receiver that posts to an archived channel was stored between
\* that read and the archiving, or was bound to the channel under a name it was
\* given after its creation, which the search by stored names (1062-1067) misses.
ArchivesInUseOnlyByRace ==
  [][\A w \in Workers : Archive(w) =>
       req[w].id \notin req[w].seen \/ req[w].id \in renamed]_archived

=============================================================================
