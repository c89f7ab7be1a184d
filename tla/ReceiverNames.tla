----------------------------- MODULE ReceiverNames -----------------------------
(* How receivers are named and how a command finds them again.  add and        *)
(* add-custom build <base>--<team>-<channel>; remove, rotate, config, validate *)
(* and expire_silence accept that name or only its base, and read it as a      *)
(* receiver of the channel the command was typed in (cmd_scaffold.go,          *)
(* cmd_lifecycle.go, cmd_query.go, cmd_validate.go).                           *)
(*                                                                             *)
(* A name is a sequence of tokens: words, which contain no hyphen, and "-".    *)
EXTENDS Naturals, SequencesExt, Lists

CONSTANTS
  Runbooks,    \* names of the embedded runbooks
  Category,    \* the category sets: set name -> runbooks
  MaxLength    \* longest receiver name the plugin accepts, in tokens

NoName == <<>>
Separator == <<"-", "-">>

Dest(team, channel) == [team |-> team, channel |-> channel]

\* alertConfig: "typed" is what the administrator asked for, which the code
\* does not keep.
Receiver(name, dest, custom, typed) == [name |-> name, dest |-> dest, custom |-> custom, typed |-> typed]

-----------------------------------------------------------------------------
(* Names. *)

receiverNameForChannel(base, dest) == base \o Separator \o dest.team \o <<"-">> \o dest.channel

\* Positions at which a name has "--".
Separators(name) == {i \in 1 .. Len(name) - 1 : name[i] = "-" /\ name[i + 1] = "-"}

\* Of the runbooks and the sets, which are part of the build.
ASSUME NamesAssumption ==
  /\ IsFiniteSet(Runbooks) /\ \A c \in DOMAIN Category : Category[c] \subseteq Runbooks
  /\ \A s \in Runbooks \cup DOMAIN Category : s # <<>> /\ Separators(s) = {}
  /\ \A s \in Runbooks : s[Len(s)] # "-"
  /\ DOMAIN Category \cap Runbooks = {} /\ <<"all">> \notin DOMAIN Category \cup Runbooks
  /\ MaxLength \in Nat

\* Mutant of receiverBaseSlug: cut at the last "--".
BaseUpToLast(name) ==
  LET at == Separators(name)
  IN IF at = {} \/ 1 \in at THEN name ELSE SubSeq(name, 1, Max(at) - 1)

\* The name up to the first "--", or all of it if there is none or it leads.
receiverBaseSlug(name) ==
  LET at == Separators(name)
  IN IF at = {} \/ 1 \in at THEN name ELSE SubSeq(name, 1, Min(at) - 1)

\* The runbooks that add takes a target for; none if the target is unknown.
resolveAddTarget(target) ==
  CASE target = <<"all">>          -> Runbooks
    [] target \in DOMAIN Category  -> Category[target]
    [] target \in Runbooks         -> {target}
    [] OTHER                       -> {}

\* The full name of a custom receiver, NoName if the typed one is refused.
validateCustomReceiverName(typed, dest) ==
  LET full == receiverNameForChannel(typed, dest)
      wellFormed == full[1] # "-" /\ Len(full) <= MaxLength
  IN IF /\ typed # <<>> /\ Separators(typed) = {}
        /\ typed \notin Runbooks /\ typed \notin DOMAIN Category \cup {<<"all">>}
        /\ wellFormed
     THEN full ELSE NoName

-----------------------------------------------------------------------------
(* Adding.  A list is a sequence, because "the first match" decides below. *)

NamesOf(list) == {list[i].name : i \in DOMAIN list}
UniqueNames(list) == IsInjective([i \in DOMAIN list |-> list[i].name])

\* configsForCurrentChannel: the receivers of the command's channel and team.
Here(list, dest) == Only(list, {c \in ToSet(list) : c.dest = dest})

\* handleAdd skips a runbook that has a receiver in the destination under its
\* full name or, from before names were qualified, under the runbook's own.
NewRunbooks(list, runbooks, dest) ==
  {s \in runbooks : NamesOf(Here(list, dest)) \cap {receiverNameForChannel(s, dest), s} = {}}

\* A list with a name twice is refused as a whole.
Persisted(list, batch) == IF UniqueNames(list \o batch) THEN list \o batch ELSE list

Add(list, target, dest) ==
  LET new == NewRunbooks(list, resolveAddTarget(target), dest)
  IN Persisted(list, SetToSeq({Receiver(receiverNameForChannel(s, dest), dest, FALSE, s) : s \in new}))

AddCustom(list, typed, dest) ==
  LET full == validateCustomReceiverName(typed, dest)
  IN IF full = NoName \/ full \in NamesOf(Here(list, dest)) THEN list
     ELSE Persisted(list, <<Receiver(full, dest, TRUE, typed)>>)

-----------------------------------------------------------------------------
(* Finding.  "scoped" is the list seen from the command's channel. *)

\* The exact name, else the base qualified with the current channel, else the
\* first receiver with that base, else what was typed.  Mattermost may fail to
\* tell which channel this is.
resolveReceiverName(scoped, supplied, dest, channelKnown) ==
  LET full == receiverNameForChannel(supplied, dest)
      byBase == SelectInSeq(scoped, LAMBDA c : receiverBaseSlug(c.name) = supplied)
  IN CASE supplied \in NamesOf(scoped)              -> supplied
       [] supplied \notin NamesOf(scoped) /\ channelKnown /\ full \in NamesOf(scoped) -> full
       [] OTHER -> IF byBase # 0 THEN scoped[byBase].name ELSE supplied

\* handleRemoveOne and handleRotateSingle: the receivers a name stands for.
One(list, supplied, dest, channelKnown) ==
  LET scoped == Here(list, dest)
      resolved == resolveReceiverName(scoped, supplied, dest, channelKnown)
  IN {c \in ToSet(scoped) : c.name = resolved}

\* handleRemoveSet: the receivers of a category in this channel.
OfCategory(list, set, dest) ==
  {c \in ToSet(Here(list, dest)) : receiverBaseSlug(c.name) \in Category[set]}

\* handleRemove: what goes when the command is confirmed with --force; a single
\* receiver needs no confirmation.
handleRemove(list, target, dest, force) ==
  CASE target = <<"all">>          -> IF force THEN ToSet(Here(list, dest)) ELSE {}
    [] target \in DOMAIN Category  -> IF force THEN OfCategory(list, target, dest) ELSE {}
    [] OTHER                       -> One(list, target, dest, TRUE)

\* handleValidate: the receivers it checks; no target means all of them.
handleValidate(list, target, dest) ==
  CASE target \in {NoName, <<"all">>} -> ToSet(Here(list, dest))
    [] target \in DOMAIN Category     -> OfCategory(list, target, dest)
    [] OTHER                          -> One(list, target, dest, TRUE)

\* handleConfig: the first receiver with that name or that base.
handleConfig(list, name, dest) ==
  LET scoped == Here(list, dest)
      at == SelectInSeq(scoped, LAMBDA c : name \in {c.name, receiverBaseSlug(c.name)})
  IN IF at = 0 THEN {} ELSE {scoped[at]}

\* handleExpireSilence takes the full name only.
handleExpireSilence(list, name, dest) == {c \in ToSet(Here(list, dest)) : c.name = name}

-----------------------------------------------------------------------------
(* Properties. *)

\* The comment of receiverNameForChannel: cutting at the first "--" recovers
\* what was qualified, so "the slug boundary stays unambiguous".
BoundaryUnambiguous(list) == \A c \in ToSet(list) : receiverBaseSlug(c.name) = c.typed

\* It does not for a name that ends in "-", which add-custom accepts.
EndsInHyphen(c) == c.typed[Len(c.typed)] = "-"

\* A name typed in a channel, short or full, stands for the receiver that was
\* added under it there, in every command alike, and for no other channel's; a
\* category stands for the channel's runbook receivers of that category, never
\* for a custom one.  All of this as long as no name ends in "-".
NamesStayHere(list, dest, words) ==
  LET here == ToSet(Here(list, dest))
      Meant(name) == {c \in here : name \in {c.name, c.typed}}
  IN (~\E c \in ToSet(list) : EndsInHyphen(c)) =>
     /\ BoundaryUnambiguous(list)
     /\ \A name \in words \cup NamesOf(list) :
          /\ \A channelKnown \in BOOLEAN : One(list, name, dest, channelKnown) = Meant(name)
          /\ handleRemove(list, name, dest, FALSE) = Meant(name)
          /\ handleValidate(list, name, dest) = Meant(name)
          /\ handleConfig(list, name, dest) = Meant(name)
          /\ handleExpireSilence(list, name, dest) \subseteq Meant(name)
     /\ \A set \in DOMAIN Category :
          handleRemove(list, set, dest, TRUE) = {c \in here : ~c.custom /\ c.typed \in Category[set]}

=============================================================================
