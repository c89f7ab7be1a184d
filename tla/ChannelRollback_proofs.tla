------------------------ MODULE ChannelRollback_proofs ------------------------
(* What is proved of ChannelRollback, for any workers, slugs and channels. *)
EXTENDS ChannelRollback, TLAPS

(* Where in a command what is set: a channel that a command created is its    *)
(* own to take back, unless it rotates, and only an add ever looks back.      *)
Set(w) ==
  LET q == req[w] IN
  /\ q.pc = "idle" => ~q.created /\ q.id = NoId
  /\ q.pc = "create" => ~q.created /\ q.id = NoId
  /\ q.pc # "idle" => q.op \in {"add", "rotate"} /\ q.slug \in Slugs
  /\ q.pc \in {"mint", "write", "check", "archive"} => q.id \in Ids
  /\ q.pc \in {"check", "archive"} => q.created /\ q.op = "add"
  /\ q.op = "rotate" /\ q.pc # "idle" => q.old \in Ids
  /\ q.created => q.id \in made
  /\ q.created /\ q.op = "rotate" => q.id \in excused

(* A slug has used a channel: it names it, a receiver of that slug posts to   *)
(* it, or a command works with it.  Only one slug has, while the channel keeps  *)
(* its name.                                                                    *)
Use(s, i) ==
  \/ named[s] = i
  \/ [slug |-> s, id |-> i] \in stored
  \/ \E w \in Workers : req[w].slug = s /\ req[w].id = i

UsesKnown == \A s \in Slugs, i \in Ids : Use(s, i) => i \in Known
OneSlug ==
  \A s, t \in Slugs, i \in Ids : i \notin renamed /\ Use(s, i) /\ Use(t, i) => s = t

(* Two commands never believe that both created a channel. *)
OneMaker ==
  \A v, w \in Workers : req[v].created /\ req[w].created /\ req[v].id = req[w].id => v = w

(* What the fresh read found did not post to the channel about to be archived, *)
(* unless that has been renamed.                                               *)
Unseen ==
  \A w \in Workers :
    req[w].pc = "archive" => req[w].id \notin req[w].seen \/ req[w].id \in renamed

Inv ==
  /\ TypeOK
  /\ \A w \in Workers : Set(w)
  /\ UsesKnown
  /\ OneSlug
  /\ OneMaker
  /\ Unseen
  /\ NoChannelSquatted

-------------------------------------------------------------------------------
(* Types. *)

\* Nothing is open, stored or running at first.
LEMMA TypesStart == Init => TypeOK
BY NoIdAssumption DEF Init, TypeOK, Idle, Request, Steps, Receiver

\* A command that returns leaves the shape of every request.
LEMMA ReturnTyped ==
  ASSUME req \in [Workers -> Request], NEW w \in Workers, Return(w)
  PROVE  req' \in [Workers -> Request]
BY DEF Return, Idle, Request, Steps

\* So does one that goes on to its next step.
LEMMA GotoTyped ==
  ASSUME req \in [Workers -> Request], NEW w \in Workers, NEW step \in Steps, Goto(w, step)
  PROVE  req' \in [Workers -> Request]
BY DEF Goto, Request

\* Every step of a command keeps the shape of the variables.
LEMMA CommandTyped ==
  ASSUME TypeOK, \A v \in Workers : Set(v), NEW w \in Workers, Command(w)
  PROVE  TypeOK'
<1> USE DEF TypeOK
<1>q. req[w] \in Request /\ Set(w)
  OBVIOUS
<1>1. ASSUME NEW s \in Slugs, AddResolve(w, s) PROVE TypeOK'
  <2>1. named[s] \in Ids \cup {NoId}
    OBVIOUS
  <2> QED BY <1>1, <2>1 DEF AddResolve, Resolve, Request, Steps
<1>2. ASSUME NEW r \in stored, RotateResolve(w, r) PROVE TypeOK'
  <2>1. r.slug \in Slugs /\ r.id \in Ids
    BY DEF Receiver
  <2>2. named[r.slug] \in Ids \cup {NoId}
    BY <2>1
  <2> QED BY <1>2, <2>1, <2>2 DEF RotateResolve, Resolve, Request, Steps
<1>3. ASSUME NEW id \in Ids, CreateChannel(w, id) PROVE TypeOK'
  <2>1. req[w].slug \in Slugs
    BY <1>3, <1>q DEF CreateChannel, At, Set
  <2> DEFINE q == [req[w] EXCEPT !.pc = "mint", !.id = id, !.created = TRUE]
  <2>2. q \in Request
    BY DEF Request, Steps
  <2>3. req' = [req EXCEPT ![w] = q]
    BY <1>3 DEF CreateChannel
  <2>4. req' \in [Workers -> Request]
    BY <2>2, <2>3
  <2> QED BY <1>3, <2>1, <2>4 DEF CreateChannel
<1>4. CASE CreateFails(w)
  BY <1>4, ReturnTyped DEF CreateFails
<1>5. CASE Duplicate(w)
  BY <1>5, <1>q, ReturnTyped DEF Duplicate, At, Set
<1>6. CASE MintHook(w)
  BY <1>6, GotoTyped DEF MintHook, Steps
<1>7. CASE Write(w)
  <2>1. req[w].slug \in Slugs /\ req[w].id \in Ids
    BY <1>7, <1>q DEF Write, At, Set
  <2>2. [slug |-> req[w].slug, id |-> req[w].id] \in Receiver
    BY <2>1 DEF Receiver
  <2>3. req[w].op = "rotate" => req[w].old \in Ids
    BY <1>7, <1>q DEF Write, At, Set
  <2>4. stored' \subseteq Receiver /\ excused' \subseteq Ids
    BY <1>7, <2>2, <2>3 DEF Write
  <2> QED BY <1>7, <2>4, ReturnTyped DEF Write
<1>8. CASE Fails(w)
  BY <1>8, ReturnTyped, GotoTyped DEF Fails, Undone, Steps
<1>9. CASE Check(w)
  <2>1. req[w].id \in Ids
    BY <1>9, <1>q DEF Check, At, Set
  <2>2. InUse \subseteq Ids
    BY DEF InUse, Receiver
  <2>3. CASE Bound(req[w].slug)
    BY <1>9, <2>1, <2>3, ReturnTyped DEF Check
  <2>4. CASE ~Bound(req[w].slug)
    BY <1>9, <2>2, <2>4 DEF Check, Request, Steps
  <2> QED BY <2>3, <2>4
<1>10. CASE RollbackFails(w)
  BY <1>10, <1>q, ReturnTyped DEF RollbackFails, At, Set
<1>11. CASE Archive(w)
  BY <1>11, <1>q, ReturnTyped DEF Archive, Close, At, Set
<1>12. CASE Crash(w)
  BY <1>12, <1>q, ReturnTyped DEF Crash, At, Set
<1> QED BY <1>1, <1>2, <1>3, <1>4, <1>5, <1>6, <1>7, <1>8, <1>9, <1>10, <1>11, <1>12
        DEF Command

\* Every step of the users of the channels does.
LEMMA PeopleTyped ==
  ASSUME TypeOK, People
  PROVE  TypeOK'
<1> USE DEF TypeOK
<1>1. ASSUME NEW s \in Slugs, NEW id \in Ids, OpenChannel(s, id) PROVE TypeOK'
  BY <1>1 DEF OpenChannel
<1>2. ASSUME NEW s \in Slugs, NEW to \in Slugs \cup {NoId}, RenameChannel(s, to) PROVE TypeOK'
  BY <1>2 DEF RenameChannel
<1>3. ASSUME NEW s \in Slugs, ArchiveChannel(s) PROVE TypeOK'
  BY <1>3 DEF ArchiveChannel, Close
<1>4. ASSUME NEW r \in stored, RemoveReceiver(r) PROVE TypeOK'
  BY <1>4 DEF RemoveReceiver, Receiver
<1> QED BY <1>1, <1>2, <1>3, <1>4 DEF People

-------------------------------------------------------------------------------
(* The step of one command. *)

\* A command's step leaves the requests of the others alone, and what the
\* histories know they keep knowing.
LEMMA CommandAlone ==
  ASSUME TypeOK, \A v \in Workers : Set(v), NEW w \in Workers, Command(w)
  PROVE  /\ \A v \in Workers : v # w => req'[v] = req[v]
         /\ made \subseteq made' /\ excused \subseteq excused'
         /\ archived \subseteq archived' /\ renamed' = renamed
<1> USE DEF TypeOK
<1>1. CASE \E s \in Slugs : AddResolve(w, s)
  BY <1>1 DEF AddResolve, Resolve
<1>2. CASE \E r \in stored : RotateResolve(w, r)
  BY <1>2 DEF RotateResolve, Resolve
<1>3. CASE \E id \in Ids : CreateChannel(w, id)
  BY <1>3 DEF CreateChannel
<1>4. CASE CreateFails(w) \/ Duplicate(w) \/ MintHook(w) \/ Crash(w)
  BY <1>4 DEF CreateFails, Duplicate, MintHook, Crash, Return, Goto
<1>5. CASE Write(w)
  BY <1>5 DEF Write, Return
<1>6. CASE Fails(w)
  BY <1>6 DEF Fails, Undone, Return, Goto
<1>7. CASE Check(w)
  BY <1>7 DEF Check, Return
<1>8. CASE RollbackFails(w) \/ Archive(w)
  BY <1>8 DEF RollbackFails, Archive, Close, Return
<1> QED BY <1>1, <1>2, <1>3, <1>4, <1>5, <1>6, <1>7, <1>8 DEF Command

\* The idle request satisfies all that Set asks.
LEMMA ReturnSet ==
  ASSUME TypeOK, NEW w \in Workers, Return(w)
  PROVE  Set(w)'
BY DEF TypeOK, Return, Set, Idle

\* A command has set what its next step needs (resolveOrCreateChannel, rollbackCreatedChannel).
LEMMA CommandSet ==
  ASSUME TypeOK, \A v \in Workers : Set(v), NEW w \in Workers, Command(w)
  PROVE  \A v \in Workers : Set(v)'
<1> USE DEF TypeOK
<1>q. req[w] \in Request /\ Set(w)
  OBVIOUS
<1>o. \A v \in Workers : v # w => Set(v)'
  BY CommandAlone DEF Set
<1>1. ASSUME NEW s \in Slugs, AddResolve(w, s) PROVE Set(w)'
  <2>1. named[s] \in Ids \cup {NoId}
    OBVIOUS
  <2>2. named[s] = NoId \/ named[s] \in Ids
    BY <2>1
  <2>3. req'[w] = [op |-> "add", pc |-> IF named[s] = NoId THEN "create" ELSE "mint",
                   slug |-> s, old |-> NoId, id |-> named[s], created |-> FALSE, seen |-> {}]
    BY <1>1 DEF AddResolve, Resolve
  <2> QED BY <2>2, <2>3 DEF Set
<1>2. ASSUME NEW r \in stored, RotateResolve(w, r) PROVE Set(w)'
  <2>1. r.slug \in Slugs /\ r.id \in Ids
    BY DEF Receiver
  <2>2. named[r.slug] = NoId \/ named[r.slug] \in Ids
    BY <2>1
  <2>3. req'[w] = [op |-> "rotate", pc |-> IF named[r.slug] = NoId THEN "create" ELSE "mint",
                   slug |-> r.slug, old |-> r.id, id |-> named[r.slug],
                   created |-> FALSE, seen |-> {}]
    BY <1>2 DEF RotateResolve, Resolve
  <2> QED BY <2>1, <2>2, <2>3 DEF Set
<1>3. ASSUME NEW id \in Ids, CreateChannel(w, id) PROVE Set(w)'
  <2>1. req'[w] = [req[w] EXCEPT !.pc = "mint", !.id = id, !.created = TRUE]
    BY <1>3 DEF CreateChannel
  <2>2. /\ req'[w].pc = "mint" /\ req'[w].id = id /\ req'[w].created
        /\ req'[w].op = req[w].op /\ req'[w].slug = req[w].slug /\ req'[w].old = req[w].old
    BY <2>1 DEF Request
  <2>3. req[w].pc = "create" /\ id \in made' /\ (req[w].op = "rotate" => id \in excused')
    BY <1>3 DEF CreateChannel, At
  <2> QED BY <1>q, <2>2, <2>3 DEF Set
<1>4. ASSUME CreateFails(w) \/ Duplicate(w) \/ Write(w) \/ RollbackFails(w) \/ Archive(w)
           \/ Crash(w)
      PROVE  Set(w)'
  <2>1. Return(w)
    BY <1>4 DEF CreateFails, Duplicate, Write, RollbackFails, Archive, Crash
  <2> QED BY <2>1, ReturnSet
<1>5. ASSUME MintHook(w) PROVE Set(w)'
  <2>1. req'[w] = [req[w] EXCEPT !.pc = "write"] /\ req[w].pc = "mint"
        /\ made' = made /\ excused' = excused
    BY <1>5 DEF MintHook, Goto, At
  <2>2. /\ req'[w].pc = "write" /\ req'[w].id = req[w].id
        /\ req'[w].created = req[w].created
          /\ req'[w].op = req[w].op
        /\ req'[w].slug = req[w].slug /\ req'[w].old = req[w].old
    BY <2>1 DEF Request
  <2> QED BY <1>q, <2>1, <2>2 DEF Set
<1>6. ASSUME Fails(w) PROVE Set(w)'
  <2>1. CASE Return(w)
    BY <2>1, ReturnSet
  <2>2. CASE req[w].op = "add" /\ req[w].created /\ Goto(w, "check")
    <3>1. req'[w] = [req[w] EXCEPT !.pc = "check"] /\ req[w].pc \in {"mint", "write"}
          /\ made' = made /\ excused' = excused
      BY <1>6, <2>2 DEF Fails, Goto, At
    <3>2. /\ req'[w].pc = "check" /\ req'[w].id = req[w].id
          /\ req'[w].created = req[w].created
          /\ req'[w].op = req[w].op
          /\ req'[w].slug = req[w].slug /\ req'[w].old = req[w].old
      BY <3>1 DEF Request
    <3> QED BY <1>q, <2>2, <3>1, <3>2 DEF Set
  <2> QED BY <1>6, <2>1, <2>2 DEF Fails, Undone
<1>7. ASSUME Check(w) PROVE Set(w)'
  <2>1. CASE Return(w)
    BY <2>1, ReturnSet
  <2>2. CASE req' = [req EXCEPT ![w].pc = "archive", ![w].seen = InUse] /\ UNCHANGED excused
    <3>1. req'[w] = [req[w] EXCEPT !.pc = "archive", !.seen = InUse] /\ req[w].pc = "check"
          /\ made' = made /\ excused' = excused
      BY <1>7, <2>2 DEF Check, At
    <3>2. /\ req'[w].pc = "archive" /\ req'[w].id = req[w].id
          /\ req'[w].created = req[w].created
          /\ req'[w].op = req[w].op
          /\ req'[w].slug = req[w].slug /\ req'[w].old = req[w].old
      BY <3>1 DEF Request
    <3> QED BY <1>q, <3>1, <3>2 DEF Set
  <2> QED BY <1>7, <2>1, <2>2 DEF Check
<1>8. Set(w)'
  BY <1>1, <1>2, <1>3, <1>4, <1>5, <1>6, <1>7 DEF Command
<1> QED BY <1>o, <1>8

-------------------------------------------------------------------------------
(* Which slug uses which channel. *)

\* A step that gives no channel to anybody but one it renames, and forgets none,
\* keeps the others with one slug.
LEMMA UsesShrink ==
  ASSUME UsesKnown, OneSlug, renamed \subseteq renamed',
         \A s \in Slugs, i \in Ids : Use(s, i)' => Use(s, i) \/ i \in renamed',
         \A i \in Ids : i \in Known => i \in Known'
  PROVE  UsesKnown' /\ OneSlug'
<1>1. \A i \in Ids : i \in renamed' => i \in Known'
  BY DEF Known
<1> QED BY <1>1 DEF UsesKnown, OneSlug

\* A channel that there has never been is new to every slug.
LEMMA UsesGrow ==
  ASSUME UsesKnown, OneSlug, NEW slug \in Slugs, NEW id \in Ids, id \notin Known,
         renamed \subseteq renamed',
         \A s \in Slugs, i \in Ids : Use(s, i)' => Use(s, i) \/ (s = slug /\ i = id),
         \A i \in Ids : i \in Known => i \in Known',
         id \in Known'
  PROVE  UsesKnown' /\ OneSlug'
BY DEF UsesKnown, OneSlug

\* A channel loses its name only when it is archived or renamed.
LEMMA KnownKept ==
  ASSUME made \subseteq made', archived \subseteq archived', excused \subseteq excused',
         renamed \subseteq renamed',
         \A s \in Slugs : named'[s] = named[s] \/ named[s] \in archived' \cup renamed' \cup {NoId}
  PROVE  \A i \in Ids : i \in Known => i \in Known'
<1> SUFFICES ASSUME NEW i \in Ids, i \in Known PROVE i \in Known'
  OBVIOUS
<1>1. CASE i \in made \cup archived \cup excused \cup renamed
  BY <1>1 DEF Known
<1>2. CASE i \in {named[s] : s \in Slugs}
  <2>1. PICK s \in Slugs : named[s] = i
    BY <1>2
  <2>2. CASE named'[s] = named[s]
    BY <2>1, <2>2 DEF Known
  <2>3. CASE named[s] \in archived' \cup renamed' \cup {NoId}
    BY <2>1, <2>3, NoIdAssumption DEF Known
  <2> QED BY <2>2, <2>3
<1> QED BY <1>1, <1>2 DEF Known

\* A slug has used what it uses after a step in which names only go, receivers
\* are stored for channels in use, and one command at most turns to a channel,
\* one that its slug has used.
LEMMA NothingNew ==
  ASSUME NEW w \in Workers, \A v \in Workers : v # w => req'[v] = req[v],
         \A s \in Slugs : named'[s] = named[s] \/ named'[s] = NoId,
         \A s \in Slugs, i \in Ids : [slug |-> s, id |-> i] \in stored' => Use(s, i),
         \A s \in Slugs, i \in Ids : req'[w].slug = s /\ req'[w].id = i => Use(s, i)
  PROVE  \A s \in Slugs, i \in Ids : Use(s, i)' => Use(s, i)
<1> SUFFICES ASSUME NEW s \in Slugs, NEW i \in Ids, Use(s, i)' PROVE Use(s, i)
  OBVIOUS
<1>1. CASE named'[s] = i
  BY <1>1, NoIdAssumption DEF Use
<1>2. CASE [slug |-> s, id |-> i] \in stored'
  BY <1>2
<1>3. ASSUME NEW v \in Workers, req'[v].slug = s /\ req'[v].id = i PROVE Use(s, i)
  <2>1. CASE v = w
    BY <1>3, <2>1
  <2>2. CASE v # w
    BY <1>3, <2>2 DEF Use
  <2> QED BY <2>1, <2>2
<1> QED BY <1>1, <1>2, <1>3 DEF Use

\* A created channel had no slug before, and no other step of a command gives a
\* channel to a slug that has not used it (resolveOrCreateChannel, cmd_lifecycle.go:996-1034).
LEMMA CommandUses ==
  ASSUME TypeOK, \A v \in Workers : Set(v), UsesKnown, OneSlug, NEW w \in Workers, Command(w)
  PROVE  UsesKnown' /\ OneSlug'
<1> USE DEF TypeOK
<1>q. req[w] \in Request /\ Set(w)
  OBVIOUS
<1>o. /\ \A v \in Workers : v # w => req'[v] = req[v]
      /\ made \subseteq made' /\ excused \subseteq excused' /\ archived \subseteq archived'
      /\ renamed' = renamed
  BY CommandAlone
<1>s. \A s \in Slugs, i \in Ids : [slug |-> s, id |-> i] \in stored => Use(s, i)
  BY DEF Use
<1>w. \A i \in Ids, s \in Slugs : req[w].slug = s /\ req[w].id = i => Use(s, i)
  BY DEF Use
<1>k. ASSUME UNCHANGED <<named, stored>>,
             \A s \in Slugs, i \in Ids : req'[w].slug = s /\ req'[w].id = i => Use(s, i)
      PROVE  UsesKnown' /\ OneSlug'
  <2>1. \A i \in Ids : i \in Known => i \in Known'
    BY <1>k, <1>o, KnownKept
  <2>2. \A s \in Slugs, i \in Ids : Use(s, i)' => Use(s, i)
    BY <1>k, <1>o, <1>s, NothingNew
  <2> QED BY <2>1, <2>2, <1>o, UsesShrink
<1>r. ASSUME Return(w)
      PROVE  \A s \in Slugs, i \in Ids : req'[w].slug = s /\ req'[w].id = i => Use(s, i)
  <2>1. req'[w].id = NoId
    BY <1>r DEF Return, Idle
  <2> QED BY <2>1, NoIdAssumption
<1>1. ASSUME NEW s \in Slugs, AddResolve(w, s) PROVE UsesKnown' /\ OneSlug'
  <2>1. req'[w].slug = s /\ req'[w].id = named[s]
    BY <1>1 DEF AddResolve, Resolve
  <2>2. UNCHANGED <<named, stored>>
    BY <1>1 DEF AddResolve, Resolve
  <2> QED BY <2>1, <2>2, <1>k DEF Use
<1>2. ASSUME NEW r \in stored, RotateResolve(w, r) PROVE UsesKnown' /\ OneSlug'
  <2>1. req'[w].slug = r.slug /\ req'[w].id = named[r.slug]
    BY <1>2 DEF RotateResolve, Resolve
  <2>2. UNCHANGED <<named, stored>>
    BY <1>2 DEF RotateResolve, Resolve
  <2> QED BY <2>1, <2>2, <1>k DEF Use
<1>3. ASSUME NEW id \in Ids, CreateChannel(w, id) PROVE UsesKnown' /\ OneSlug'
  <2> DEFINE slug == req[w].slug
  <2>1. slug \in Slugs /\ id \notin Known /\ named[slug] = NoId
    BY <1>3, <1>q DEF CreateChannel, At, Set
  <2>2. /\ named' = [named EXCEPT ![slug] = id] /\ made' = made \cup {id}
        /\ stored' = stored /\ req'[w].slug = slug /\ req'[w].id = id
    BY <1>3 DEF CreateChannel, Request
  <2>3. id \in Known'
    BY <2>2 DEF Known
  <2> HIDE DEF slug
  <2>4. \A i \in Ids : i \in Known => i \in Known'
    <3>1. SUFFICES ASSUME NEW i \in Ids, i \in Known PROVE i \in Known'
      OBVIOUS
    <3>2. CASE i \in made \cup archived \cup excused \cup renamed
      BY <1>o, <3>2 DEF Known
    <3>3. CASE i \in {named[s] : s \in Slugs}
      <4>1. PICK s \in Slugs : named[s] = i
        BY <3>3
      <4>2. s # slug
        BY <4>1, <2>1, NoIdAssumption
      <4>3. named'[s] = i
        BY <4>1, <4>2, <2>2
      <4> QED BY <4>3 DEF Known
    <3> QED BY <3>1, <3>2, <3>3 DEF Known
  <2>5. ASSUME NEW s \in Slugs, NEW i \in Ids, Use(s, i)'
        PROVE  Use(s, i) \/ (s = slug /\ i = id)
    <3>1. CASE named'[s] = i
      BY <3>1, <2>1, <2>2 DEF Use
    <3>2. CASE [slug |-> s, id |-> i] \in stored'
      BY <3>2, <2>2 DEF Use
    <3>3. ASSUME NEW v \in Workers, req'[v].slug = s /\ req'[v].id = i
          PROVE  Use(s, i) \/ (s = slug /\ i = id)
      <4>1. CASE v = w
        BY <3>3, <4>1, <2>2
      <4>2. CASE v # w
        BY <3>3, <4>2, <1>o DEF Use
      <4> QED BY <4>1, <4>2
    <3> QED BY <2>5, <3>1, <3>2, <3>3 DEF Use
  <2> QED BY <2>1, <2>3, <2>4, <2>5, <1>o, UsesGrow
<1>4. ASSUME CreateFails(w) \/ Duplicate(w) \/ RollbackFails(w) \/ Crash(w)
      PROVE  UsesKnown' /\ OneSlug'
  <2>1. Return(w) /\ UNCHANGED <<named, stored>>
    BY <1>4 DEF CreateFails, Duplicate, RollbackFails, Crash
  <2> QED BY <2>1, <1>k, <1>r
<1>5. ASSUME MintHook(w) PROVE UsesKnown' /\ OneSlug'
  <2>1. req'[w] = [req[w] EXCEPT !.pc = "write"] /\ UNCHANGED <<named, stored>>
    BY <1>5 DEF MintHook, Goto
  <2>2. req'[w].slug = req[w].slug /\ req'[w].id = req[w].id
    BY <2>1 DEF Request
  <2> QED BY <2>1, <2>2, <1>k, <1>w
<1>6. ASSUME Write(w) PROVE UsesKnown' /\ OneSlug'
  <2> DEFINE here == [slug |-> req[w].slug, id |-> req[w].id]
  <2>1. stored' \subseteq stored \cup {here} /\ named' = named /\ Return(w)
    BY <1>6 DEF Write
  <2>2. \A s \in Slugs, i \in Ids : [slug |-> s, id |-> i] = here => Use(s, i)
    BY <1>w
  <2>3. \A s \in Slugs, i \in Ids : [slug |-> s, id |-> i] \in stored' => Use(s, i)
    BY <2>1, <2>2, <1>s
  <2>4. \A s \in Slugs, i \in Ids : Use(s, i)' => Use(s, i)
    BY <1>o, <1>r, <2>1, <2>3, NothingNew
  <2>5. \A i \in Ids : i \in Known => i \in Known'
    BY <1>o, <2>1, KnownKept
  <2> QED BY <2>4, <2>5, <1>o, UsesShrink
<1>7. ASSUME Fails(w) PROVE UsesKnown' /\ OneSlug'
  <2>1. UNCHANGED <<named, stored>>
    BY <1>7 DEF Fails
  <2>2. CASE Return(w)
    BY <2>1, <2>2, <1>k, <1>r
  <2>3. CASE Goto(w, "check")
    <3>1. req'[w].slug = req[w].slug /\ req'[w].id = req[w].id
      BY <2>3 DEF Goto, Request
    <3> QED BY <2>1, <3>1, <1>k, <1>w
  <2> QED BY <1>7, <2>2, <2>3 DEF Fails, Undone
<1>8. ASSUME Check(w) PROVE UsesKnown' /\ OneSlug'
  <2>1. UNCHANGED <<named, stored>>
    BY <1>8 DEF Check
  <2>2. CASE Return(w)
    BY <2>1, <2>2, <1>k, <1>r
  <2>3. CASE req' = [req EXCEPT ![w].pc = "archive", ![w].seen = InUse]
    <3>1. req'[w].slug = req[w].slug /\ req'[w].id = req[w].id
      BY <2>3 DEF Request
    <3> QED BY <2>1, <3>1, <1>k, <1>w
  <2> QED BY <1>8, <2>2, <2>3 DEF Check
<1>9. ASSUME Archive(w) PROVE UsesKnown' /\ OneSlug'
  <2>1. /\ Return(w) /\ stored' = stored /\ archived' = archived \cup {req[w].id}
        /\ named' = [s \in Slugs |-> IF named[s] = req[w].id THEN NoId ELSE named[s]]
    BY <1>9 DEF Archive, Close
  <2>2. \A s \in Slugs, i \in Ids : Use(s, i)' => Use(s, i)
    BY <1>o, <1>r, <1>s, <2>1, NothingNew
  <2>3. \A i \in Ids : i \in Known => i \in Known'
    BY <1>o, <2>1, KnownKept
  <2> QED BY <2>2, <2>3, <1>o, UsesShrink
<1> QED BY <1>1, <1>2, <1>3, <1>4, <1>5, <1>6, <1>7, <1>8, <1>9 DEF Command

\* People open channels that are new to the plugin, and otherwise only take names
\* and receivers away.
LEMMA PeopleUses ==
  ASSUME TypeOK, UsesKnown, OneSlug, People
  PROVE  UsesKnown' /\ OneSlug'
<1> USE DEF TypeOK
<1>o. renamed \subseteq renamed'
  BY DEF People, OpenChannel, RenameChannel, ArchiveChannel, RemoveReceiver
<1>1. ASSUME NEW slug \in Slugs, NEW id \in Ids, OpenChannel(slug, id)
      PROVE  UsesKnown' /\ OneSlug'
  <2>1. id \in Known'
    BY <1>1 DEF OpenChannel, Known
  <2>2. ASSUME NEW i \in Ids, i \in Known PROVE i \in Known'
    <3>1. CASE i \in made \cup archived \cup excused \cup renamed
      BY <1>1, <3>1 DEF Known, OpenChannel
    <3>2. CASE i \in {named[s] : s \in Slugs}
      <4>1. PICK s \in Slugs : named[s] = i
        BY <3>2
      <4>2. s # slug
        BY <1>1, <4>1, NoIdAssumption DEF OpenChannel
      <4>3. named'[s] = i
        BY <1>1, <4>1, <4>2 DEF OpenChannel
      <4> QED BY <4>3 DEF Known
    <3> QED BY <2>2, <3>1, <3>2 DEF Known
  <2>3. \A s \in Slugs, i \in Ids : Use(s, i)' => Use(s, i) \/ (s = slug /\ i = id)
    BY <1>1 DEF Use, OpenChannel
  <2>4. id \notin Known
    BY <1>1 DEF OpenChannel
  <2> QED BY <2>1, <2>2, <2>3, <2>4, <1>o, UsesGrow
<1>2. ASSUME NEW slug \in Slugs, NEW to \in Slugs \cup {NoId}, RenameChannel(slug, to)
      PROVE  UsesKnown' /\ OneSlug'
  <2>1. \A s \in Slugs : \/ named'[s] = named[s]
                         \/ named'[s] = NoId /\ named[s] \in renamed'
                         \/ named[s] = NoId /\ named'[s] \in renamed'
    <3>1. SUFFICES ASSUME NEW s \in Slugs
                   PROVE  \/ named'[s] = named[s]
                          \/ named'[s] = NoId /\ named[s] \in renamed'
                          \/ named[s] = NoId /\ named'[s] \in renamed'
      OBVIOUS
    <3>2. CASE s = slug
      BY <1>2, <3>2 DEF RenameChannel
    <3>3. CASE s # slug /\ s = to
      BY <1>2, <3>3 DEF RenameChannel
    <3>4. CASE s # slug /\ s # to
      BY <1>2, <3>4 DEF RenameChannel
    <3> QED BY <3>2, <3>3, <3>4
  <2>2. UNCHANGED <<archived, made, excused, stored, req>>
    BY <1>2 DEF RenameChannel
  <2>3. \A i \in Ids : i \in Known => i \in Known'
    BY <2>1, <2>2, <1>o, KnownKept
  <2>4. \A s \in Slugs, i \in Ids : Use(s, i)' => Use(s, i) \/ i \in renamed'
    BY <2>1, <2>2, NoIdAssumption DEF Use
  <2> QED BY <2>3, <2>4, <1>o, UsesShrink
<1>3. ASSUME NEW slug \in Slugs, ArchiveChannel(slug) PROVE UsesKnown' /\ OneSlug'
  <2>1. \A i \in Ids : i \in Known => i \in Known'
    BY <1>3, KnownKept DEF ArchiveChannel, Close
  <2>2. \A s \in Slugs, i \in Ids : Use(s, i)' => Use(s, i)
    BY <1>3, NoIdAssumption DEF ArchiveChannel, Close, Use
  <2> QED BY <2>1, <2>2, <1>o, UsesShrink
<1>4. ASSUME NEW r \in stored, RemoveReceiver(r) PROVE UsesKnown' /\ OneSlug'
  <2>1. \A i \in Ids : i \in Known => i \in Known'
    BY <1>4, KnownKept DEF RemoveReceiver
  <2>2. \A s \in Slugs, i \in Ids : Use(s, i)' => Use(s, i)
    BY <1>4 DEF RemoveReceiver, Use
  <2> QED BY <2>1, <2>2, <1>o, UsesShrink
<1> QED BY <1>1, <1>2, <1>3, <1>4 DEF People

-------------------------------------------------------------------------------
(* What a rollback archives. *)

\* Only CreateChannel sets "created", and Mattermost never hands out an id twice:
\* two commands never take the same channel for theirs.
LEMMA CommandMakesOne ==
  ASSUME TypeOK, \A v \in Workers : Set(v), OneMaker, NEW w \in Workers, Command(w)
  PROVE  OneMaker'
<1> USE DEF TypeOK
<1>q. req[w] \in Request /\ Set(w)
  OBVIOUS
<1>o. \A v \in Workers : v # w => req'[v] = req[v]
  BY CommandAlone
<1>n. ASSUME req'[w].created => req[w].created /\ req'[w].id = req[w].id
      PROVE  OneMaker'
  BY <1>n, <1>o DEF OneMaker
<1>r. ASSUME Return(w) PROVE OneMaker'
  <2>1. ~req'[w].created
    BY <1>r DEF Return, Idle
  <2> QED BY <2>1, <1>n
<1>1. ASSUME \/ \E s \in Slugs : AddResolve(w, s)
             \/ \E r \in stored : RotateResolve(w, r)
      PROVE  OneMaker'
  <2>1. ~req'[w].created
    BY <1>1 DEF AddResolve, RotateResolve, Resolve
  <2> QED BY <2>1, <1>n
<1>2. ASSUME NEW id \in Ids, CreateChannel(w, id) PROVE OneMaker'
  <2>1. req'[w].id = id /\ id \notin made
    BY <1>2 DEF CreateChannel, Known, Request
  <2>2. \A v \in Workers : v # w /\ req'[v].created => req'[v].id # id
    BY <2>1, <1>o DEF Set
  <2> QED BY <2>1, <2>2, <1>o DEF OneMaker
<1>3. ASSUME CreateFails(w) \/ Duplicate(w) \/ Write(w) \/ RollbackFails(w) \/ Archive(w)
             \/ Crash(w)
      PROVE  OneMaker'
  <2>1. Return(w)
    BY <1>3 DEF CreateFails, Duplicate, Write, RollbackFails, Archive, Crash
  <2> QED BY <2>1, <1>r
<1>4. ASSUME NEW step \in Steps, Goto(w, step) PROVE OneMaker'
  <2>1. req'[w].created = req[w].created /\ req'[w].id = req[w].id
    BY <1>4 DEF Goto, Request
  <2> QED BY <2>1, <1>n
<1>5. CASE MintHook(w)
  BY <1>4, <1>5 DEF MintHook, Steps
<1>6. CASE Fails(w)
  BY <1>4, <1>r, <1>6 DEF Fails, Undone, Steps
<1>7. ASSUME Check(w) PROVE OneMaker'
  <2>1. CASE Return(w)
    BY <2>1, <1>r
  <2>2. CASE req' = [req EXCEPT ![w].pc = "archive", ![w].seen = InUse]
    <3>1. req'[w].created = req[w].created /\ req'[w].id = req[w].id
      BY <2>2 DEF Request
    <3> QED BY <3>1, <1>n
  <2> QED BY <1>7, <2>1, <2>2 DEF Check
<1> QED BY <1>1, <1>2, <1>3, <1>5, <1>6, <1>7 DEF Command

\* The list is searched for the slug, and that finds the channel, unless it has
\* been renamed: no receiver of another slug posts to it (cmd_lifecycle.go:1046-1066).
LEMMA CommandSees ==
  ASSUME TypeOK, \A v \in Workers : Set(v), OneSlug, Unseen, NEW w \in Workers, Command(w)
  PROVE  Unseen'
<1> USE DEF TypeOK
<1>q. req[w] \in Request /\ Set(w)
  OBVIOUS
<1>o. renamed' = renamed /\ \A v \in Workers : v # w => req'[v] = req[v]
  BY CommandAlone
<1>n. ASSUME req'[w].pc = "archive" => req'[w].id \notin req'[w].seen \/ req'[w].id \in renamed
      PROVE  Unseen'
  BY <1>n, <1>o DEF Unseen
<1>r. ASSUME Return(w) PROVE Unseen'
  <2>1. req'[w].pc # "archive"
    BY <1>r DEF Return, Idle
  <2> QED BY <2>1, <1>n
<1>1. ASSUME \/ \E s \in Slugs : AddResolve(w, s)
             \/ \E r \in stored : RotateResolve(w, r)
             \/ \E id \in Ids : CreateChannel(w, id)
      PROVE  Unseen'
  <2>1. CASE \E id \in Ids : CreateChannel(w, id)
    <3>1. req'[w].pc # "archive"
      BY <2>1 DEF CreateChannel, Request
    <3> QED BY <3>1, <1>n
  <2>2. CASE \E s \in Slugs, old \in Ids \cup {NoId}, op \in {"add", "rotate"} : Resolve(w, op, s, old)
    <3>1. req'[w].pc # "archive"
      BY <2>2 DEF Resolve
    <3> QED BY <3>1, <1>n
  <2> QED BY <1>1, <2>1, <2>2 DEF AddResolve, RotateResolve, Receiver
<1>2. ASSUME CreateFails(w) \/ Duplicate(w) \/ Write(w) \/ RollbackFails(w) \/ Archive(w)
             \/ Crash(w)
      PROVE  Unseen'
  <2>1. Return(w)
    BY <1>2 DEF CreateFails, Duplicate, Write, RollbackFails, Archive, Crash
  <2> QED BY <2>1, <1>r
<1>3. ASSUME NEW step \in Steps \ {"archive"}, Goto(w, step) PROVE Unseen'
  <2>1. req'[w].pc # "archive"
    BY <1>3 DEF Goto, Request
  <2> QED BY <2>1, <1>n
<1>4. CASE MintHook(w)
  BY <1>3, <1>4 DEF MintHook, Steps
<1>5. CASE Fails(w)
  BY <1>3, <1>5, <1>r DEF Fails, Undone, Steps
<1>6. ASSUME Check(w) PROVE Unseen'
  <2>1. CASE Return(w)
    BY <2>1, <1>r
  <2>2. CASE ~Bound(req[w].slug) /\ req' = [req EXCEPT ![w].pc = "archive", ![w].seen = InUse]
    <3>1. req'[w].id = req[w].id /\ req'[w].seen = InUse
      BY <2>2 DEF Request
    <3>2. req[w].slug \in Slugs /\ req[w].id \in Ids
      BY <1>6, <1>q DEF Check, At, Set
    <3>3. ASSUME NEW r \in stored, r.id = req[w].id, req[w].id \notin renamed PROVE FALSE
      <4>1. r.slug \in Slugs /\ r = [slug |-> r.slug, id |-> r.id]
        BY DEF Receiver
      <4>2. Use(r.slug, r.id) /\ Use(req[w].slug, req[w].id)
        BY <4>1 DEF Use
      <4>3. r.slug = req[w].slug
        BY <3>2, <3>3, <4>1, <4>2 DEF OneSlug
      <4> QED BY <2>2, <4>3 DEF Bound
    <3> QED BY <3>1, <3>3, <1>n DEF InUse
  <2> QED BY <1>6, <2>1, <2>2 DEF Check
<1> QED BY <1>1, <1>2, <1>4, <1>5, <1>6 DEF Command

-------------------------------------------------------------------------------
(* What is left behind. *)

\* A channel the plugin created is accounted for.
Kept(i) ==
  i \in made =>
    \/ i \in archived \cup excused \cup renamed
    \/ \E r \in stored : r.id = i
    \/ \E w \in Workers : req[w].created /\ req[w].id = i

\* That it is so for each is what NoChannelSquatted says.
LEMMA KeptMeans == ASSUME TypeOK PROVE NoChannelSquatted <=> \A i \in Ids : Kept(i)
BY DEF NoChannelSquatted, Kept, TypeOK

\* The same after a step.
LEMMA KeptMeansThen == ASSUME TypeOK' PROVE NoChannelSquatted' <=> \A i \in Ids : Kept(i)'
BY DEF NoChannelSquatted, Kept, TypeOK

\* A command archives the channel it created, or a receiver posts to it, or the
\* history says why it is left (rollbackCreatedChannel, cmd_lifecycle.go:1042-1069).
LEMMA CommandKeeps ==
  ASSUME TypeOK, \A v \in Workers : Set(v), NEW w \in Workers, Command(w),
         NEW i \in Ids, Kept(i)
  PROVE  Kept(i)'
<1> USE DEF TypeOK
<1>q. req[w] \in Request /\ Set(w)
  OBVIOUS
<1>o. /\ \A v \in Workers : v # w => req'[v] = req[v]
      /\ made \subseteq made' /\ excused \subseteq excused' /\ archived \subseteq archived'
      /\ renamed' = renamed
  BY CommandAlone
<1>n. ASSUME made' = made, stored \subseteq stored',
             req[w].created => req'[w].created /\ req'[w].id = req[w].id
      PROVE  Kept(i)'
  BY <1>n, <1>o DEF Kept
<1>a. ASSUME made' = made, stored \subseteq stored',
             req[w].created => \/ req[w].id \in archived' \cup excused'
                               \/ \E r \in stored' : r.id = req[w].id
      PROVE  Kept(i)'
  BY <1>a, <1>o DEF Kept
<1>1. ASSUME NEW s, NEW old, NEW op, Resolve(w, op, s, old) PROVE Kept(i)'
  <2>1. ~req[w].created /\ made' = made /\ stored' = stored
    BY <1>1, <1>q DEF Resolve, At, Set
  <2> QED BY <2>1, <1>n
<1>2. ASSUME NEW id \in Ids, CreateChannel(w, id) PROVE Kept(i)'
  <2>1. /\ req'[w].id = id /\ req'[w].created /\ made' = made \cup {id}
        /\ stored' = stored /\ ~req[w].created
    BY <1>2, <1>q DEF CreateChannel, Request, At, Set
  <2> QED BY <2>1, <1>o DEF Kept
<1>3. CASE CreateFails(w)
  <2>1. ~req[w].created /\ made' = made /\ stored' = stored
    BY <1>3, <1>q DEF CreateFails, At, Set
  <2> QED BY <2>1, <1>n
<1>4. CASE Duplicate(w) \/ Crash(w)
  BY <1>4, <1>a DEF Duplicate, Crash
<1>5. ASSUME NEW step \in Steps, Goto(w, step), made' = made, stored' = stored PROVE Kept(i)'
  <2>1. req'[w].created = req[w].created /\ req'[w].id = req[w].id
    BY <1>5 DEF Goto, Request
  <2> QED BY <2>1, <1>5, <1>n
<1>6. CASE MintHook(w)
  BY <1>5, <1>6 DEF MintHook, Steps
<1>7. CASE Write(w)
  <2> DEFINE here == [slug |-> req[w].slug, id |-> req[w].id]
             there == [slug |-> req[w].slug, id |-> req[w].old]
  <2>1. here.id = req[w].id /\ there.id = req[w].old /\ made' = made
    BY <1>7 DEF Write
  <2>2. CASE stored' = stored \cup {here}
    BY <2>1, <2>2, <1>a
  <2>3. CASE stored' = (stored \ {there}) \cup {here} /\ excused' = excused \cup {req[w].old}
    <3>1. here \in stored' /\ there.id \in excused'
      BY <2>1, <2>3
    <3>2. \A r \in stored : r \in stored' \/ r.id \in excused'
      BY <2>3, <3>1
    <3> HIDE DEF here, there
    <3> QED BY <2>1, <3>1, <3>2, <1>o DEF Kept
  <2>4. CASE req[w].op = "rotate" /\ stored' = stored
    <3>1. req[w].created => req[w].id \in excused'
      BY <1>q, <1>o, <2>4 DEF Set
    <3> QED BY <2>1, <2>4, <3>1, <1>a
  <2> QED BY <1>7, <2>2, <2>3, <2>4 DEF Write
<1>8. CASE Fails(w)
  <2>1. made' = made /\ stored' = stored
    BY <1>8 DEF Fails
  <2>2. CASE Goto(w, "check")
    BY <2>1, <2>2, <1>5 DEF Steps
  <2>3. CASE ~(req[w].op = "add" /\ req[w].created) /\ Return(w)
    <3>1. req[w].created => req[w].op = "rotate"
      BY <1>8, <2>3, <1>q DEF Set, Fails, At
    <3>2. req[w].created => req[w].id \in excused'
      BY <3>1, <1>q, <1>o DEF Set
    <3> QED BY <2>1, <3>2, <1>a
  <2> QED BY <1>8, <2>2, <2>3 DEF Fails, Undone
<1>9. CASE Check(w)
  <2>1. made' = made /\ stored' = stored
    BY <1>9 DEF Check
  <2>2. CASE excused' = excused \cup {req[w].id}
    BY <2>1, <2>2, <1>a
  <2>3. CASE req' = [req EXCEPT ![w].pc = "archive", ![w].seen = InUse]
    <3>1. req'[w].created = req[w].created /\ req'[w].id = req[w].id
      BY <2>3 DEF Request
    <3> QED BY <2>1, <3>1, <1>n
  <2> QED BY <1>9, <2>2, <2>3 DEF Check
<1>10. CASE RollbackFails(w)
  BY <1>10, <1>a DEF RollbackFails
<1>11. CASE Archive(w)
  BY <1>11, <1>a DEF Archive, Close
<1>12. CASE \/ \E s \in Slugs : AddResolve(w, s)
            \/ \E r \in stored : RotateResolve(w, r)
  BY <1>12, <1>1 DEF AddResolve, RotateResolve
<1> QED BY <1>2, <1>3, <1>4, <1>6, <1>7, <1>8, <1>9, <1>10, <1>11, <1>12 DEF Command

\* People who rename a channel or remove its receiver excuse it.
LEMMA PeopleKeep ==
  ASSUME People, NEW i \in Ids, Kept(i)
  PROVE  Kept(i)'
<1>1. /\ req' = req /\ made' = made /\ archived \subseteq archived'
      /\ excused \subseteq excused' /\ renamed \subseteq renamed'
  BY DEF People, OpenChannel, RenameChannel, ArchiveChannel, RemoveReceiver, Close
<1>2. \A r \in stored : r \in stored' \/ r.id \in excused'
  BY DEF People, OpenChannel, RenameChannel, ArchiveChannel, RemoveReceiver
<1> QED BY <1>1, <1>2 DEF Kept

-------------------------------------------------------------------------------
(* The invariant. *)

\* Nothing is in use and nobody has created anything at first.
LEMMA Start == Init => Inv
<1> SUFFICES ASSUME Init PROVE Inv
  OBVIOUS
<1>1. TypeOK
  BY TypesStart
<1>2. \A w \in Workers : req[w] = Idle
  BY DEF Init
<1>3. \A w \in Workers : Set(w) /\ ~req[w].created /\ req[w].pc # "archive" /\ req[w].id = NoId
  BY <1>2 DEF Set, Idle
<1>4. \A s \in Slugs, i \in Ids : ~Use(s, i)
  BY <1>3, NoIdAssumption DEF Use, Init
<1> QED BY <1>1, <1>3, <1>4 DEF Inv, UsesKnown, OneSlug, OneMaker, Unseen, NoChannelSquatted, Init

\* Every step keeps the invariant, for any workers, slugs and channels.
LEMMA StepKeeps == Inv /\ [Next]_vars => Inv'
<1> SUFFICES ASSUME Inv, [Next]_vars PROVE Inv'
  OBVIOUS
<1> USE DEF Inv
<1>1. ASSUME NEW w \in Workers, Command(w) PROVE Inv'
  <2>1. TypeOK'
    BY <1>1, CommandTyped
  <2>2. \A v \in Workers : Set(v)'
    BY <1>1, CommandSet
  <2>3. UsesKnown' /\ OneSlug'
    BY <1>1, CommandUses
  <2>4. OneMaker'
    BY <1>1, CommandMakesOne
  <2>5. Unseen'
    BY <1>1, CommandSees
  <2>6. NoChannelSquatted'
    BY <1>1, <2>1, CommandKeeps, KeptMeans, KeptMeansThen
  <2> QED BY <2>1, <2>2, <2>3, <2>4, <2>5, <2>6
<1>2. CASE People
  <2>1. TypeOK'
    BY <1>2, PeopleTyped
  <2>2. /\ req' = req /\ made' = made /\ excused \subseteq excused'
        /\ renamed \subseteq renamed'
    BY <1>2 DEF People, OpenChannel, RenameChannel, ArchiveChannel, RemoveReceiver
  <2>3. \A v \in Workers : Set(v)'
    BY <2>2 DEF Set
  <2>4. UsesKnown' /\ OneSlug'
    BY <1>2, PeopleUses
  <2>5. OneMaker' /\ Unseen'
    BY <2>2 DEF OneMaker, Unseen
  <2>6. NoChannelSquatted'
    BY <1>2, <2>1, PeopleKeep, KeptMeans, KeptMeansThen
  <2> QED BY <2>1, <2>3, <2>4, <2>5, <2>6
<1>3. CASE UNCHANGED vars
  BY <1>3 DEF vars, TypeOK, Set, UsesKnown, OneSlug, Use, Known, OneMaker, Unseen,
              NoChannelSquatted
<1> QED BY <1>1, <1>2, <1>3 DEF Next

\* So it holds in every state of every behaviour.
LEMMA AlwaysInv == Spec => []Inv
BY Start, StepKeeps, PTL DEF Spec

\* The variables keep the shape the code gives them.
THEOREM TypeCorrect == Spec => []TypeOK
<1>1. Inv => TypeOK
  BY DEF Inv
<1> QED BY <1>1, AlwaysInv, PTL

\* Whatever the commands and the people do, a rollback is about to archive a
\* channel its own command created, and no other rollback is about to archive it
\* (cmd_lifecycle.go:1037-1041).
THEOREM AlwaysOwn == Spec => []RollbacksAreOwn
<1>1. Inv => RollbacksAreOwn
  BY DEF Inv, RollbacksAreOwn, RollsBack, Set, OneMaker
<1> QED BY <1>1, AlwaysInv, PTL

\* No channel the plugin created is left behind empty without a reason.
THEOREM NeverSquatted == Spec => []NoChannelSquatted
<1>1. Inv => NoChannelSquatted
  BY DEF Inv
<1> QED BY <1>1, AlwaysInv, PTL

\* A rollback archives a channel that a receiver posts to only when that receiver
\* was stored after the list was read, or the channel has been renamed: for the
\* others the search by slug misses none (cmd_lifecycle.go:1046-1067).
THEOREM OnlyARaceArchives == Spec => ArchivesInUseOnlyByRace
<1>1. Inv => [\A w \in Workers : Archive(w) =>
                 req[w].id \notin req[w].seen \/ req[w].id \in renamed]_archived
  BY DEF Inv, Unseen, Archive, At
<1> QED BY <1>1, AlwaysInv, PTL DEF ArchivesInUseOnlyByRace

===============================================================================
