--------------------------- MODULE AlertmanagerCalls ---------------------------
(* The commands that ask an Alertmanager or tell it something: status, alerts, *)
(* silences and expire_silence, over the retrying call they share              *)
(* (cmd_query.go, alertmanager/).  Anyone may ask; only receivers of the       *)
(* channel are asked about.                                                    *)
(*                                                                             *)
(* A call is a script: what happens to each attempt, how many attempts start   *)
(* before the deadline of 15 s that all of them share, how many the backoff    *)
(* allows in its 30 s, and whether the body that came with the last answer was *)
(* there as a whole when its headers were.                                     *)
EXTENDS ReceiverNames

Fates == {"answered", "refused", "lost"}   \* lost: served, but the answer never came

Call(fates, inTime, tries, buffered) == [fates |-> fates, inTime |-> inTime, tries |-> tries, buffered |-> buffered]

\* An attempt after the deadline fails at once and is never sent.
Fate(call, i) == IF i <= call.inTime /\ i \in DOMAIN call.fates THEN call.fates[i] ELSE "refused"

-----------------------------------------------------------------------------
(* httpRetry. *)

OK == 200
BadRequest == 400
NoAnswer == 0

\* Only reads insist on success; a DELETE takes whatever status comes.
Retryable(method, status) ==
  \/ status = NoAnswer
  \/ method = "GET" /\ status # OK
  \/ method = "POST" /\ status = BadRequest

\* statuses[i]: what the i-th attempt is answered.  Retries while the status is
\* retryable and the backoff allows; each retried answer's body is closed, the
\* last one's is the caller's to close.
httpRetry(method, statuses) ==
  LET settled == {i \in DOMAIN statuses : ~Retryable(method, statuses[i])}
      last == IF settled = {} THEN Len(statuses) ELSE Min(settled)
      Bodies(from, to) == {i \in from .. to : statuses[i] # NoAnswer}
  IN [ok |-> settled # {},
      status |-> statuses[last],
      attempts |-> last,
      opened |-> Bodies(1, last),
      closed |-> Bodies(1, IF settled = {} THEN last ELSE last - 1)]

\* The deadline's context is cancelled when httpRetry returns, before the caller
\* reads the body: only what has arrived by then can still be read.
BodyRead(call, body) == IF call.buffered THEN body ELSE "cut off"

\* DecodeJSONLimited: a body past the limit, or that does not parse, is an error.
DecodeJSONLimited(body) == body \notin {"too large", "not JSON", "cut off"}

\* Status, ListAlerts and ListSilences of an Alertmanager that serves "answer".
Get(call, answer) ==
  LET statuses == [i \in 1 .. call.tries |-> IF Fate(call, i) = "answered" THEN answer.status ELSE NoAnswer]
      resp == httpRetry("GET", statuses)
  IN IF resp.ok /\ DecodeJSONLimited(BodyRead(call, answer.body))
     THEN [ok |-> TRUE, value |-> answer.value, resp |-> resp]
     ELSE [ok |-> FALSE, value |-> {}, resp |-> resp]

-----------------------------------------------------------------------------
(* Expiring a silence. *)

\* Alertmanager serves a DELETE: 200 and the silence has ended, 500 if it had
\* ended before, 404 if it does not know it.
Served(state) == CASE state = "active"  -> OK
                   [] state = "expired" -> 500
                   [] OTHER             -> 404

\* The silence's state before each attempt: the first one served ends it.
StateBefore(call, silence, i) ==
  IF silence = "active" /\ \E j \in 1 .. i - 1 : Fate(call, j) \in {"answered", "lost"} THEN "expired" ELSE silence

\* Mutant of ExpireSilence: any answer counts as success.
ExpireOnAnyAnswer(call, silence) ==
  LET statuses == [i \in 1 .. call.tries |->
                    IF Fate(call, i) = "answered" THEN Served(StateBefore(call, silence, i)) ELSE NoAnswer]
      resp == httpRetry("DELETE", statuses)
  IN [ok |-> resp.ok, resp |-> resp, after |-> StateBefore(call, silence, resp.attempts + 1)]

ExpireSilence(call, silence) ==
  LET statuses == [i \in 1 .. call.tries |->
                    IF Fate(call, i) = "answered" THEN Served(StateBefore(call, silence, i)) ELSE NoAnswer]
      resp == httpRetry("DELETE", statuses)
  IN [ok |-> resp.ok /\ resp.status = OK, resp |-> resp, after |-> StateBefore(call, silence, resp.attempts + 1)]

-----------------------------------------------------------------------------
(* The commands.  Receivers have a field "am", their Alertmanager, and "user", *)
(* the credentials for it.                                                     *)

\* One query for each Alertmanager, with the credentials of its first receiver.
groupByAMURL(configs) ==
  LET firsts == {i \in DOMAIN configs : \A j \in 1 .. i - 1 : configs[j].am # configs[i].am}
  IN {[url |-> configs[i].am, user |-> configs[i].user, handle |-> configs[i].name,
       receivers |-> {c.name : c \in {d \in ToSet(configs) : d.am = configs[i].am}}] : i \in firsts}

\* handleStatus, handleAlerts: each Alertmanager's answer, or that it failed.
Sections(list, dest, calls, answers) ==
  {[group |-> g, got |-> Get(calls[g.url], answers[g.url])] : g \in groupByAMURL(Here(list, dest))}

\* handleListSilences: the silences that have not ended, each with the command
\* that ends it; silences have an id and a state.
handleListSilences(list, dest, calls, answers) ==
  UNION {{[silence |-> s, url |-> section.group.url, suggest |-> section.group.handle] :
            s \in {v \in section.got.value : v.state # "expired"}} : section \in Sections(list, dest, calls, answers)}

\* handleExpireSilence: the Alertmanager that is told, none if the receiver is
\* not one of this channel.
ExpireAt(list, name, dest) == {c.am : c \in handleExpireSilence(list, name, dest)}

-----------------------------------------------------------------------------
(* Properties. *)

\* What the command says of a silence is true: expired, then it has ended, and
\* it was not already over; failed although it has ended now, then an answer was
\* lost on the way.  And every body that was opened is closed: by the retry, or
\* as the last one by the caller.
ExpiryIsTrue(call, silence) ==
  LET done == ExpireSilence(call, silence)
  IN /\ done.ok => silence = "active" /\ done.after = "expired"
     /\ ~done.ok /\ silence = "active" /\ done.after = "expired" =>
          \E i \in 1 .. done.resp.attempts : Fate(call, i) = "lost"
     /\ done.resp.opened \ {done.resp.attempts} \subseteq done.resp.closed
     /\ ~done.resp.ok => done.resp.opened = done.resp.closed

\* Every command that silences prints ends, typed in that channel, the silence
\* it is printed under, at the Alertmanager that has it.
SuggestionsWork(list, dest, calls, answers) ==
  \A line \in handleListSilences(list, dest, calls, answers) :
    ExpireAt(list, line.suggest, dest) = {line.url}

\* status, alerts and silences show an answer when and only when one came: OK,
\* decodable and received as a whole before the deadline was cancelled.  While an
\* attempt that can still succeed is left, no failure is final.
AnswersAreShown(call, answer) ==
  Get(call, answer).ok <=>
    /\ answer.status = OK /\ answer.body = "JSON" /\ call.buffered
    /\ \E i \in 1 .. call.tries : Fate(call, i) = "answered"
=============================================================================
