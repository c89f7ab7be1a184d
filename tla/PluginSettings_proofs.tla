------------------------ MODULE PluginSettings_proofs -------------------------
(* What is proved of PluginSettings, for any calls, administrators and bounds. *)
EXTENDS PluginSettings, FiniteSetTheorems, TLAPS

(* Administrators between the generation and the save of a token. *)
Busy == {a \in Admins : cmd[a] # Nobody}

(* Every notification stems from a save, of which there is one for each change *)
(* in System Console and at most one for each token.                            *)
Counted == IsFiniteSet(Busy) /\ pending + Cardinality(Busy) <= tokens + saves

(* A reload holds the mutex while it has a copy of the configuration in hand,   *)
(* and so nothing it would undo can happen meanwhile.                           *)
ReloadCurrent == reload # Nobody => mutex = "reload" /\ reload = conf

(* The allowlist is one that the setting can lead to. *)
Fits(list, cidrs) ==
  /\ cidrs = "empty" => list = "public"
  /\ cidrs = "nets" => list = "nets"
  /\ cidrs = "junk" => list \in {"nets", "deny"}

(* What a call under way has read is among the recent settings, and only a list *)
(* without a usable entry makes it deny all.                                      *)
Works ==
  /\ \A h \in Hooks : hook[h].pc # "idle" => hook[h].raw \in recent
  /\ \A h \in Hooks : hook[h].pc = "deny" => hook[h].raw.cidrs = "junk"

(* Each of the three things is made of recent settings, or a call that has yet to *)
(* swap it is under way.                                                            *)
ListRecent ==
  \/ \E raw \in recent : Fits(allow, raw.cidrs)
  \/ \E h \in Hooks : hook[h].pc \in {"allow", "deny"}
ConfRecent ==
  \/ \E raw \in recent : conf = Settings(raw)
  \/ \E h \in Hooks : hook[h].pc \in {"allow", "deny", "lock", "swap"}
ClientRecent ==
  \/ \E raw \in recent : client = raw.ca
  \/ \E h \in Hooks : hook[h].pc # "idle"

(* With no notification left, the last call to begin has read what is stored. *)
Current == pending = 0 /\ ~failed /\ stored.host => stored \in recent

Inv ==
  TypeOK /\ Counted /\ ReloadCurrent /\ Works /\ ListRecent /\ ConfRecent /\ ClientRecent /\ Current

-------------------------------------------------------------------------------
(* The start. *)

\* OnActivate has applied the stored settings, and no notification is left.
LEMMA Start == Init => Inv
<1> SUFFICES ASSUME Init PROVE Inv
  OBVIOUS
<1>1. PICK cidrs \in {"empty", "nets", "junk"} :
        /\ stored = [token |-> 0, host |-> TRUE, cidrs |-> cidrs, ca |-> 0]
        /\ allow = IF cidrs = "junk" THEN Unusable("public")
                   ELSE IF cidrs = "nets" THEN "nets" ELSE "public"
  BY DEF Init
<1>2. /\ conf = Settings(stored) /\ client = stored.ca
      /\ pending = 0 /\ mutex = Nobody /\ reload = Nobody
      /\ cmd = [a \in Admins |-> Nobody] /\ tokens = 0 /\ saves = 0
      /\ recent = {stored} /\ failed \in BOOLEAN
  BY DEF Init
<1>3. allow \in {"public", "nets", "deny"} /\ Fits(allow, stored.cidrs)
  BY <1>1 DEF Fits, Unusable
<1>4. stored \in Raw /\ conf \in Conf /\ client \in 0..1
  <2>1. 0 \in 0..MaxTokens /\ 0 \in 0..1
    BY PluginSettingsAssumption
  <2>2. stored \in Raw
    BY <1>1, <2>1 DEF Raw
  <2>3. stored.token \in 0..MaxTokens /\ stored.ca \in 0..1
    BY <2>2 DEF Raw
  <2> QED BY <1>2, <2>2, <2>3 DEF Conf, Settings
<1>5. hook \in [Hooks -> Call] /\ \A h \in Hooks : hook[h].pc = "idle"
  BY DEF Init, Call, Idle
<1>6. TypeOK
  <2>1. \A h \in Hooks : hook[h].pc = "swap" <=> mutex = h
    BY <1>2, <1>5, PluginSettingsAssumption
  <2>2. recent \subseteq Raw
    BY <1>2, <1>4
  <2> QED BY <1>2, <1>3, <1>4, <1>5, <2>1, <2>2, PluginSettingsAssumption DEF TypeOK
<1>7. Counted
  <2>1. Busy = {}
    BY <1>2 DEF Busy
  <2>2. IsFiniteSet(Busy) /\ Cardinality(Busy) = 0
    BY <2>1, FS_EmptySet
  <2> QED BY <1>2, <2>2 DEF Counted
<1>8. ReloadCurrent /\ Works /\ Current
  BY <1>2, <1>5 DEF ReloadCurrent, Works, Current
<1>9. ListRecent /\ ConfRecent /\ ClientRecent
  BY <1>2, <1>3 DEF ListRecent, ConfRecent, ClientRecent
<1> QED BY <1>6, <1>7, <1>8, <1>9 DEF Inv

-------------------------------------------------------------------------------
(* OnConfigurationChange. *)

\* A notification that is delivered leaves fewer of them than there were saves.
LEMMA Delivered ==
  ASSUME TypeOK, Counted, pending > 0, pending' = pending - 1, UNCHANGED <<cmd, tokens, saves>>
  PROVE  pending' \in 0..(MaxTokens + MaxSaves) /\ Counted'
<1>1. pending \in Int /\ tokens \in Int /\ saves \in Int /\ pending' \in 0..(MaxTokens + MaxSaves)
  BY PluginSettingsAssumption DEF TypeOK
<1>2. Busy' = Busy
  BY DEF Busy
<1>3. Cardinality(Busy) \in Nat
  BY FS_CardinalityType DEF Counted
<1> QED BY <1>1, <1>2, <1>3 DEF Counted

\* A call that reads good settings has everything before it: what it and the others
\* under way have read is all that the pod can end on (LoadPluginConfiguration).
LEMMA LoadKeeps ==
  ASSUME Inv, NEW h \in Hooks, Load(h)
  PROVE  Inv'
<1> USE DEF Inv
<1>1. /\ hook[h].pc = "idle" /\ pending > 0 /\ pending' = pending - 1 /\ failed' \in BOOLEAN
      /\ UNCHANGED <<stored, mutex, conf, allow, client, reload, cmd, tokens, saves>>
  BY DEF Load, served
<1>2. pending' \in 0..(MaxTokens + MaxSaves) /\ Counted'
  BY <1>1, Delivered
<1>3. ReloadCurrent'
  BY <1>1 DEF ReloadCurrent
<1>4. CASE stored.host
  <2>1. /\ hook' = [hook EXCEPT ![h] = [pc |-> "allow", raw |-> stored]]
        /\ recent' = {hook[g].raw : g \in Running} \cup {stored}
    BY <1>4 DEF Load
  <2>2. [pc |-> "allow", raw |-> stored] \in Call
    BY DEF TypeOK, Call
  <2>3. hook' \in [Hooks -> Call]
    BY <2>1, <2>2 DEF TypeOK
  <2>4. hook'[h].pc = "allow" /\ hook'[h].raw = stored /\ \A g \in Hooks : g # h => hook'[g] = hook[g]
    BY <2>1 DEF TypeOK
  <2>5. \A g \in Running : hook[g].raw \in Raw
    BY DEF TypeOK, Works, Running
  <2>6. recent' \subseteq Raw /\ stored \in recent' /\ \A g \in Running : hook[g].raw \in recent'
    BY <2>1, <2>5 DEF TypeOK
  <2>7. \A g \in Hooks : hook'[g].pc = "swap" <=> mutex' = g
    BY <1>1, <2>4 DEF TypeOK
  <2>8. TypeOK'
    BY <1>1, <1>2, <2>3, <2>6, <2>7 DEF TypeOK
  <2>9. Works'
    BY <2>4, <2>6 DEF Works, Running
  <2>10. ListRecent' /\ ConfRecent' /\ ClientRecent'
    BY <2>4 DEF ListRecent, ConfRecent, ClientRecent
  <2>11. Current'
    BY <1>1, <2>6 DEF Current
  <2> QED BY <1>2, <1>3, <2>8, <2>9, <2>10, <2>11
<1>5. CASE ~stored.host
  <2>1. hook' = [hook EXCEPT ![h] = Idle] /\ recent' = recent
    BY <1>5 DEF Load
  <2>2. Idle \in Call /\ Idle.pc = "idle"
    BY DEF Idle, Call
  <2>3. hook' \in [Hooks -> Call]
    BY <2>1, <2>2 DEF TypeOK
  <2>4. hook'[h].pc = "idle" /\ \A g \in Hooks : g # h => hook'[g] = hook[g]
    BY <2>1, <2>2 DEF TypeOK
  <2>5. \A g \in Hooks : hook'[g].pc = "swap" <=> mutex' = g
    BY <1>1, <2>4 DEF TypeOK
  <2>6. TypeOK'
    BY <1>1, <1>2, <2>1, <2>3, <2>5 DEF TypeOK
  <2>7. Works'
    BY <2>1, <2>4 DEF Works
  <2>8. \A g \in Hooks : hook[g].pc # "idle" => hook'[g] = hook[g]
    BY <1>1, <2>4
  <2>9. ListRecent' /\ ConfRecent' /\ ClientRecent'
    BY <1>1, <2>1, <2>8 DEF ListRecent, ConfRecent, ClientRecent
  <2>10. Current'
    BY <1>1, <1>5 DEF Current
  <2> QED BY <1>2, <1>3, <2>6, <2>7, <2>9, <2>10
<1> QED BY <1>4, <1>5

\* A call that cannot read the settings changes nothing, and the history says so.
LEMMA LoadFailsKeeps ==
  ASSUME Inv, NEW h \in Hooks, LoadFails(h)
  PROVE  Inv'
<1> USE DEF Inv
<1>1. /\ pending > 0 /\ pending' = pending - 1 /\ failed' = TRUE
      /\ UNCHANGED <<stored, hook, mutex, conf, allow, client, reload, cmd, tokens, saves, recent>>
  BY DEF LoadFails, served
<1>2. pending' \in 0..(MaxTokens + MaxSaves) /\ Counted'
  BY <1>1, Delivered
<1>3. TypeOK'
  BY <1>1, <1>2 DEF TypeOK
<1>4. ReloadCurrent' /\ Works' /\ ListRecent' /\ ConfRecent' /\ ClientRecent' /\ Current'
  BY <1>1 DEF ReloadCurrent, Works, ListRecent, ConfRecent, ClientRecent, Current
<1> QED BY <1>2, <1>3, <1>4

\* A call that goes on.
LEMMA Advanced ==
  ASSUME TypeOK, NEW h \in Hooks, NEW pc \in {"allow", "deny", "lock", "swap", "client"},
         hook' = [hook EXCEPT ![h].pc = pc]
  PROVE  /\ hook' \in [Hooks -> Call]
         /\ \A g \in Hooks : g # h => hook'[g] = hook[g]
         /\ hook'[h].pc = pc /\ hook'[h].raw = hook[h].raw
<1>1. hook'[h] = [hook[h] EXCEPT !.pc = pc] /\ hook[h] \in Call
  BY DEF TypeOK
<1>2. hook'[h].pc = pc /\ hook'[h].raw = hook[h].raw
  BY <1>1 DEF Call
<1> QED BY <1>2 DEF TypeOK, Call

\* A call that goes on works on what it has read, and on nothing else.
LEMMA AdvanceKeeps ==
  ASSUME Inv, NEW h \in Hooks, NEW pc \in {"allow", "deny", "lock", "swap", "client"},
         hook[h].pc # "idle", hook' = [hook EXCEPT ![h].pc = pc],
         pc = "deny" => hook[h].raw.cidrs = "junk",
         UNCHANGED <<console, client, history>>
  PROVE  Works' /\ ClientRecent' /\ Current' /\ Counted'
<1>1. /\ \A g \in Hooks : g # h => hook'[g] = hook[g]
      /\ hook'[h].pc = pc /\ hook'[h].raw = hook[h].raw
  BY Advanced DEF Inv
<1>2. Works'
  BY <1>1 DEF Inv, Works, history
<1>3. ClientRecent'
  BY <1>1 DEF ClientRecent
<1>4. Current' /\ Counted'
  BY DEF Inv, Current, Counted, Busy, console, history
<1> QED BY <1>2, <1>3, <1>4

\* Whatever step of OnConfigurationChange a call takes, the thing it swaps follows
\* the settings it has read.
LEMMA HookKeeps ==
  ASSUME Inv, NEW h \in Hooks, OnConfigurationChange(h)
  PROVE  Inv'
<1> USE DEF Inv
<1> DEFINE raw == hook[h].raw
<1>r. hook[h].pc # "idle" => raw \in recent /\ raw \in Raw
  BY DEF Works, TypeOK
<1>1. ASSUME Allowlist(h) PROVE Inv'
  <2>1. UNCHANGED <<console, mutex, conf, client, reload, history>> /\ hook[h].pc = "allow"
    BY <1>1 DEF Allowlist
  <2>2. raw.cidrs \in {"empty", "nets", "junk"}
    BY <1>r, <2>1 DEF Raw
  <2>3. \E pc \in {"deny", "lock"} :
          /\ hook' = [hook EXCEPT ![h].pc = pc]
          /\ allow' \in {"public", "nets", "deny"}
          /\ pc = "deny" => raw.cidrs = "junk"
          /\ pc = "lock" => Fits(allow', raw.cidrs)
    <3>1. CASE raw.cidrs = "junk"
      <4>1. /\ allow' = allow
            /\ hook' = [hook EXCEPT ![h].pc = IF Unusable(allow) = allow THEN "lock" ELSE "deny"]
        BY <1>1, <3>1 DEF Allowlist
      <4>2. CASE Unusable(allow) = allow
        BY <3>1, <4>1, <4>2 DEF Fits, Unusable
      <4>3. CASE Unusable(allow) # allow
        BY <3>1, <4>1, <4>3 DEF TypeOK
      <4> QED BY <4>2, <4>3
    <3>2. CASE raw.cidrs # "junk"
      BY <1>1, <2>2, <3>2 DEF Allowlist, Fits
    <3> QED BY <3>1, <3>2
  <2>4. PICK pc \in {"deny", "lock"} :
          /\ hook' = [hook EXCEPT ![h].pc = pc]
          /\ allow' \in {"public", "nets", "deny"}
          /\ pc = "deny" => raw.cidrs = "junk"
          /\ pc = "lock" => Fits(allow', raw.cidrs)
    BY <2>3
  <2>5. /\ hook' \in [Hooks -> Call] /\ \A g \in Hooks : g # h => hook'[g] = hook[g]
        /\ hook'[h].pc = pc /\ hook'[h].raw = raw
    BY <2>4, Advanced
  <2>6. TypeOK'
    BY <2>1, <2>4, <2>5 DEF TypeOK, console, history
  <2>7. ListRecent'
    <3>1. CASE pc = "deny"
      BY <2>5, <3>1 DEF ListRecent
    <3>2. CASE pc = "lock"
      BY <1>r, <2>1, <2>4, <3>2 DEF ListRecent, history
    <3> QED BY <3>1, <3>2
  <2>8. ConfRecent'
    BY <2>5 DEF ConfRecent
  <2>9. Works' /\ ClientRecent' /\ Current' /\ Counted'
    BY <2>1, <2>4, AdvanceKeeps
  <2> QED BY <2>1, <2>6, <2>7, <2>8, <2>9 DEF ReloadCurrent
<1>2. ASSUME DenyAll(h) PROVE Inv'
  <2>1. /\ UNCHANGED <<console, mutex, conf, client, reload, history>> /\ hook[h].pc = "deny"
        /\ hook' = [hook EXCEPT ![h].pc = "lock"] /\ allow' = "deny"
    BY <1>2 DEF DenyAll
  <2>2. /\ hook' \in [Hooks -> Call] /\ \A g \in Hooks : g # h => hook'[g] = hook[g]
        /\ hook'[h].pc = "lock" /\ hook'[h].raw = raw
    BY <2>1, Advanced
  <2>3. TypeOK'
    BY <2>1, <2>2 DEF TypeOK, console, history
  <2>4. ListRecent'
    <3>1. raw \in recent' /\ Fits(allow', raw.cidrs)
      BY <1>r, <2>1 DEF Works, Fits, history
    <3> QED BY <3>1 DEF ListRecent
  <2>5. ConfRecent'
    BY <2>2 DEF ConfRecent
  <2>6. Works' /\ ClientRecent' /\ Current' /\ Counted'
    BY <2>1, AdvanceKeeps
  <2> QED BY <2>1, <2>3, <2>4, <2>5, <2>6 DEF ReloadCurrent
<1>3. ASSUME Lock(h) PROVE Inv'
  <2>1. /\ UNCHANGED <<console, conf, allow, client, reload, history>> /\ hook[h].pc = "lock"
        /\ hook' = [hook EXCEPT ![h].pc = "swap"] /\ mutex = Nobody /\ mutex' = h
    BY <1>3 DEF Lock, served
  <2>2. /\ hook' \in [Hooks -> Call] /\ \A g \in Hooks : g # h => hook'[g] = hook[g]
        /\ hook'[h].pc = "swap" /\ hook'[h].raw = raw
    BY <2>1, Advanced
  <2>3. TypeOK'
    <3>1. \A g \in Hooks : hook'[g].pc = "swap" <=> mutex' = g
      BY <2>1, <2>2, PluginSettingsAssumption DEF TypeOK
    <3> QED BY <2>1, <2>2, <3>1 DEF TypeOK, console, history
  <2>4. ListRecent'
    BY <2>1, <2>2 DEF ListRecent, history
  <2>5. ConfRecent'
    BY <2>2 DEF ConfRecent
  <2>6. Works' /\ ClientRecent' /\ Current' /\ Counted'
    BY <2>1, AdvanceKeeps
  <2>7. ReloadCurrent'
    BY <2>1, PluginSettingsAssumption DEF ReloadCurrent
  <2> QED BY <2>3, <2>4, <2>5, <2>6, <2>7
<1>4. ASSUME Unreadable(h) \/ Swap(h) PROVE Inv'
  <2>1. /\ UNCHANGED <<console, allow, client, reload, history>> /\ hook[h].pc = "swap"
        /\ hook' = [hook EXCEPT ![h].pc = "client"] /\ mutex' = Nobody
        /\ conf' = Settings(raw)
    BY <1>4 DEF Unreadable, Swap
  <2>2. /\ hook' \in [Hooks -> Call] /\ \A g \in Hooks : g # h => hook'[g] = hook[g]
        /\ hook'[h].pc = "client" /\ hook'[h].raw = raw
    BY <2>1, Advanced
  <2>3. mutex = h
    BY <2>1 DEF TypeOK
  <2>4. TypeOK'
    <3>1. \A g \in Hooks : hook'[g].pc = "swap" <=> mutex' = g
      BY <2>1, <2>2, <2>3, PluginSettingsAssumption DEF TypeOK
    <3>2. conf' \in Conf
      BY <1>r, <2>1 DEF Raw, Conf, Settings
    <3> QED BY <2>1, <2>2, <3>1, <3>2 DEF TypeOK, console, history
  <2>5. ListRecent'
    BY <2>1, <2>2 DEF ListRecent, history
  <2>6. ConfRecent'
    BY <1>r, <2>1 DEF ConfRecent, history
  <2>7. Works' /\ ClientRecent' /\ Current' /\ Counted'
    BY <2>1, AdvanceKeeps
  <2>8. ReloadCurrent'
    BY <2>1, <2>3, PluginSettingsAssumption DEF ReloadCurrent
  <2> QED BY <2>4, <2>5, <2>6, <2>7, <2>8
<1>5. ASSUME Client(h) PROVE Inv'
  <2>1. /\ UNCHANGED <<console, mutex, conf, allow, reload, history>> /\ hook[h].pc = "client"
        /\ client' = raw.ca /\ hook' = [hook EXCEPT ![h] = Idle]
    BY <1>5 DEF Client
  <2>2. Idle \in Call /\ Idle.pc = "idle"
    BY DEF Idle, Call
  <2>3. /\ hook'[h].pc = "idle" /\ \A g \in Hooks : g # h => hook'[g] = hook[g]
        /\ hook' \in [Hooks -> Call]
    BY <2>1, <2>2 DEF TypeOK
  <2>4. TypeOK'
    <3>1. \A g \in Hooks : hook'[g].pc = "swap" <=> mutex' = g
      BY <2>1, <2>3 DEF TypeOK
    <3>2. client' \in 0..1
      BY <1>r, <2>1 DEF Raw
    <3> QED BY <2>1, <2>3, <3>1, <3>2 DEF TypeOK, console, history
  <2>5. ListRecent'
    BY <2>1, <2>3 DEF ListRecent, history
  <2>6. ConfRecent'
    BY <2>1, <2>3 DEF ConfRecent, history
  <2>7. ClientRecent'
    BY <1>r, <2>1 DEF ClientRecent, history
  <2>8. Works' /\ Current'
    BY <2>1, <2>3 DEF Works, Current, console, history
  <2>9. Counted' /\ ReloadCurrent'
    BY <2>1 DEF Counted, Busy, ReloadCurrent, console
  <2> QED BY <2>4, <2>5, <2>6, <2>7, <2>8, <2>9
<1> QED BY <1>1, <1>2, <1>3, <1>4, <1>5 DEF OnConfigurationChange

-------------------------------------------------------------------------------
(* Reloads, the metrics-token command and System Console. *)

\* A reload of the receiver list puts back the settings it has read, and these are
\* still the pod's (applyAlertConfigsToMemory).
LEMMA ReloadKeeps == Inv /\ (ReloadBegin \/ ReloadEnd) => Inv'
<1> SUFFICES ASSUME Inv, ReloadBegin \/ ReloadEnd PROVE Inv'
  OBVIOUS
<1> USE DEF Inv
<1>1. UNCHANGED <<console, hook, allow, client, history>> /\ conf' = conf /\ reload' \in Conf \cup {Nobody}
  BY DEF ReloadBegin, ReloadEnd, served, ReloadCurrent, TypeOK
<1>2. /\ mutex' \in {"reload", Nobody} /\ mutex \in {"reload", Nobody}
      /\ ReloadCurrent'
  BY DEF ReloadBegin, ReloadEnd, ReloadCurrent, served
<1>3. TypeOK'
  BY <1>1, <1>2, PluginSettingsAssumption DEF TypeOK, console, history
<1>4. Counted' /\ Works' /\ Current'
  BY <1>1 DEF Counted, Busy, Works, Current, console, history
<1>5. ListRecent' /\ ConfRecent' /\ ClientRecent'
  BY <1>1 DEF ListRecent, ConfRecent, ClientRecent, history
<1> QED BY <1>2, <1>3, <1>4, <1>5

\* A save leaves a notification, and until it is delivered the pod may lag behind.
LEMMA SaveKeeps ==
  ASSUME Inv, stored' \in Raw, pending' = pending + 1, TypeOK', Counted',
         UNCHANGED <<hook, mutex, served, reload, history>>
  PROVE  Inv'
<1>1. pending' # 0
  BY PluginSettingsAssumption DEF Inv, TypeOK
<1>2. ReloadCurrent' /\ Works' /\ ListRecent' /\ ConfRecent' /\ ClientRecent'
  BY DEF Inv, ReloadCurrent, Works, ListRecent, ConfRecent, ClientRecent, served, history
<1> QED BY <1>1, <1>2 DEF Inv, Current

\* Every token has its administrator, every save its notification.
LEMMA AdminKeeps ==
  ASSUME Inv, NEW a \in Admins, Generate(a) \/ SaveToken(a) \/ SaveTokenFails(a)
  PROVE  Inv'
<1> USE DEF Inv
<1>n. /\ pending \in Nat /\ tokens \in Nat /\ saves \in Nat /\ tokens <= MaxTokens
      /\ saves <= MaxSaves /\ MaxTokens \in Nat /\ MaxSaves \in Nat
  BY PluginSettingsAssumption DEF TypeOK
<1>c. IsFiniteSet(Busy) /\ Cardinality(Busy) \in Nat
  BY FS_CardinalityType DEF Counted
<1>1. ASSUME Generate(a) PROVE Inv'
  <2>1. /\ tokens < MaxTokens /\ tokens' = tokens + 1
        /\ cmd' = [cmd EXCEPT ![a] = [raw |-> stored, token |-> tokens + 1]]
        /\ cmd[a] = Nobody
        /\ UNCHANGED <<stored, pending, hook, mutex, served, reload, saves, history>>
    BY <1>1 DEF Generate
  <2>2. [raw |-> stored, token |-> tokens + 1] \in [raw : Raw, token : 1..MaxTokens]
    BY <1>n, <2>1 DEF TypeOK
  <2>3. cmd' \in [Admins -> [raw : Raw, token : 1..MaxTokens] \cup {Nobody}]
    BY <2>1, <2>2 DEF TypeOK
  <2>4. tokens' \in 0..MaxTokens
    BY <1>n, <2>1
  <2>5. TypeOK'
    BY <2>1, <2>3, <2>4 DEF TypeOK, served, history
  <2>6. Busy' \subseteq Busy \cup {a}
    BY <2>1 DEF Busy, TypeOK
  <2>7. IsFiniteSet(Busy \cup {a}) /\ Cardinality(Busy \cup {a}) <= Cardinality(Busy) + 1
    <3>1. a \notin Busy
      BY <2>1 DEF Busy
    <3>2. IsFiniteSet(Busy \cup {a}) /\ Cardinality(Busy \cup {a}) = Cardinality(Busy) + 1
      BY <1>c, <3>1, FS_AddElement, Zenon
    <3> QED BY <1>c, <3>2
  <2>8. /\ IsFiniteSet(Busy') /\ Cardinality(Busy') <= Cardinality(Busy \cup {a})
        /\ Cardinality(Busy') \in Nat /\ Cardinality(Busy \cup {a}) \in Nat
    BY <2>6, <2>7, FS_Subset, FS_CardinalityType
  <2>9. pending' + Cardinality(Busy') <= tokens' + saves'
    BY <1>n, <1>c, <2>1, <2>7, <2>8 DEF Counted
  <2>10. Counted'
    BY <2>8, <2>9 DEF Counted
  <2>11. ReloadCurrent' /\ Works' /\ Current' /\ ListRecent' /\ ConfRecent' /\ ClientRecent'
    BY <2>1 DEF ReloadCurrent, Works, Current, ListRecent, ConfRecent, ClientRecent, served, history
  <2> QED BY <2>5, <2>10, <2>11
<1>2. ASSUME SaveToken(a) \/ SaveTokenFails(a)
      PROVE  /\ IsFiniteSet(Busy') /\ Cardinality(Busy') = Cardinality(Busy) - 1
             /\ cmd' \in [Admins -> [raw : Raw, token : 1..MaxTokens] \cup {Nobody}]
             /\ a \in Busy
  <2>1. cmd' = [cmd EXCEPT ![a] = Nobody] /\ cmd[a] # Nobody
    BY <1>2 DEF SaveToken, SaveTokenFails
  <2>2. a \in Busy /\ Busy' = Busy \ {a}
    BY <2>1 DEF Busy, TypeOK
  <2>3. IsFiniteSet(Busy') /\ Cardinality(Busy') = Cardinality(Busy) - 1
    BY <1>c, <2>2, FS_RemoveElement
  <2> QED BY <2>1, <2>2, <2>3 DEF TypeOK
<1>3. ASSUME SaveToken(a) PROVE Inv'
  <2>1. /\ cmd[a] # Nobody /\ stored' = Rewritten(cmd[a].raw, cmd[a].token)
        /\ pending' = pending + 1
        /\ UNCHANGED <<hook, mutex, served, reload, tokens, saves, history>>
    BY <1>3 DEF SaveToken
  <2>2. cmd[a].raw \in Raw /\ cmd[a].token \in 0..MaxTokens
    BY <1>n, <2>1 DEF TypeOK
  <2>3. stored' \in Raw
    BY <2>1, <2>2 DEF Rewritten, Raw
  <2>4. pending' + Cardinality(Busy') <= tokens' + saves' /\ pending' \in 0..(MaxTokens + MaxSaves)
    BY <1>n, <1>c, <1>2, <1>3, <2>1, FS_CardinalityType DEF Counted
  <2>5. TypeOK'
    BY <1>2, <1>3, <2>1, <2>3, <2>4 DEF TypeOK, served, history
  <2>6. Counted'
    BY <1>2, <1>3, <2>4 DEF Counted
  <2> QED BY <2>1, <2>3, <2>5, <2>6, SaveKeeps
<1>4. ASSUME SaveTokenFails(a) PROVE Inv'
  <2>1. UNCHANGED <<stored, pending, hook, mutex, served, reload, tokens, saves, history>>
    BY <1>4 DEF SaveTokenFails
  <2>2. TypeOK'
    BY <1>2, <1>4, <2>1 DEF TypeOK, served, history
  <2>3. Counted'
    BY <1>n, <1>c, <1>2, <1>4, <2>1 DEF Counted
  <2>4. ReloadCurrent' /\ Works' /\ Current' /\ ListRecent' /\ ConfRecent' /\ ClientRecent'
    BY <2>1 DEF ReloadCurrent, Works, Current, ListRecent, ConfRecent, ClientRecent, served, history
  <2> QED BY <2>2, <2>3, <2>4
<1> QED BY <1>1, <1>3, <1>4

\* System Console changes one setting to a value the form allows.
LEMMA ConsoleKeeps == Inv /\ Console => Inv'
<1> SUFFICES ASSUME Inv, Console PROVE Inv'
  OBVIOUS
<1> USE DEF Inv
<1>n. /\ pending \in Nat /\ tokens \in Nat /\ saves \in Nat /\ tokens <= MaxTokens
      /\ saves <= MaxSaves /\ MaxTokens \in Nat /\ MaxSaves \in Nat
  BY PluginSettingsAssumption DEF TypeOK
<1>c. IsFiniteSet(Busy) /\ Cardinality(Busy) \in Nat
  BY FS_CardinalityType DEF Counted
<1>1. /\ saves < MaxSaves /\ saves' = saves + 1 /\ pending' = pending + 1
      /\ UNCHANGED <<hook, mutex, served, reload, cmd, tokens, history>>
  BY DEF Console
<1>2. stored' \in Raw
  <2>1. stored.ca \in 0..1 /\ 0 \in 0..MaxTokens
    BY <1>n DEF TypeOK, Raw
  <2>2. 1 - stored.ca \in 0..1
    BY <2>1
  <2>3. (~stored.host) \in BOOLEAN
    OBVIOUS
  <2>4. [stored EXCEPT !.host = ~@] \in Raw
    BY <2>3 DEF TypeOK, Raw
  <2>5. [stored EXCEPT !.ca = 1 - @] \in Raw
    BY <2>2 DEF TypeOK, Raw
  <2>6. [stored EXCEPT !.token = 0] \in Raw
    BY <2>1 DEF TypeOK, Raw
  <2>7. \A c \in {"empty", "nets", "junk"} : [stored EXCEPT !.cidrs = c] \in Raw
    BY DEF TypeOK, Raw
  <2> QED BY <2>4, <2>5, <2>6, <2>7 DEF Console
<1>3. Busy' = Busy
  BY <1>1 DEF Busy
<1>4. Counted'
  BY <1>n, <1>c, <1>1, <1>3 DEF Counted
<1>5. TypeOK'
  <2>1. pending' \in 0..(MaxTokens + MaxSaves) /\ saves' \in 0..MaxSaves
    BY <1>n, <1>c, <1>1, <1>3 DEF Counted
  <2> QED BY <1>1, <1>2, <2>1 DEF TypeOK, served, history
<1> QED BY <1>1, <1>2, <1>4, <1>5, SaveKeeps

\* Every step keeps the invariant.
LEMMA StepKeeps == Inv /\ [Next]_vars => Inv'
<1>1. ASSUME Inv, UNCHANGED vars PROVE Inv'
  BY <1>1 DEF vars, Inv, TypeOK, Counted, Busy, ReloadCurrent, Works, ListRecent, ConfRecent,
              ClientRecent, Current
<1> QED BY <1>1, LoadKeeps, LoadFailsKeeps, HookKeeps, ReloadKeeps, AdminKeeps, ConsoleKeeps DEF Next

\* So it holds in every state of every behaviour.
LEMMA AlwaysInv == Spec => []Inv
BY Start, StepKeeps, PTL DEF Spec

\* The variables keep the shape the code gives them, and a call that swaps the
\* configuration holds the mutex.
THEOREM TypeCorrect == Spec => []TypeOK
<1>1. Inv => TypeOK
  BY DEF Inv
<1> QED BY <1>1, AlwaysInv, PTL

\* Once every save has been announced and every call has returned, each of the three
\* things the pod swaps is made of settings that a call was working on when the last
\* one began, the stored ones among them: exactly of what is stored if that call found
\* no other under way. Overlapping calls may leave the three on different ones.
THEOREM SettledIsStored == Spec => []SettledServesStored
<1>1. Inv => SettledServesStored
  <2> SUFFICES ASSUME Inv, pending = 0, Running = {}, ~failed, stored.host
               PROVE  /\ stored \in recent
                      /\ conf \in {Settings(raw) : raw \in recent}
                      /\ client \in {raw.ca : raw \in recent}
                      /\ allow \in UNION {Lists(raw.cidrs) : raw \in recent}
    BY DEF SettledServesStored
  <2>1. \A h \in Hooks : hook[h].pc = "idle"
    BY DEF Running
  <2>2. PICK raw \in recent : Fits(allow, raw.cidrs)
    BY <2>1 DEF Inv, ListRecent
  <2>3. raw.cidrs \in {"empty", "nets", "junk"}
    BY DEF Inv, TypeOK, Raw
  <2>4. allow \in Lists(raw.cidrs)
    BY <2>2, <2>3 DEF Fits, Lists
  <2>5. allow \in UNION {Lists(r.cidrs) : r \in recent}
    BY <2>4
  <2>6. conf \in {Settings(r) : r \in recent}
    BY <2>1 DEF Inv, ConfRecent
  <2>7. client \in {r.ca : r \in recent}
    BY <2>1 DEF Inv, ClientRecent
  <2> QED BY <2>5, <2>6, <2>7 DEF Inv, Current
<1> QED BY <1>1, AlwaysInv, PTL

\* The metrics-token command changes no other setting, except back to what it was
\* when the command read the map (saveMetricsToken).
THEOREM TokenDisturbsLittle == Spec => TokenDisturbsOnlyRaces
<1> DEFINE Little ==
      \A a \in Admins : cmd[a] # Nobody /\ stored' # stored /\ cmd'[a] = Nobody =>
        \A f \in {"host", "cidrs", "ca"} : stored'[f] # stored[f] => stored'[f] = cmd[a].raw[f]
<1>1. Inv /\ [Next]_vars => [Little]_vars
  <2> SUFFICES ASSUME Inv, Next, NEW a \in Admins, cmd[a] # Nobody, stored' # stored,
                      cmd'[a] = Nobody, NEW f \in {"host", "cidrs", "ca"}
               PROVE  stored'[f] = cmd[a].raw[f]
    BY DEF vars
  <2>1. PICK b \in Admins : SaveToken(b)
    BY DEF Next, Load, LoadFails, OnConfigurationChange, Allowlist, DenyAll, Lock, Unreadable,
           Swap, Client, ReloadBegin, ReloadEnd, Generate, SaveTokenFails, Console, console
  <2>2. b = a
    BY <2>1 DEF SaveToken, Inv, TypeOK
  <2>3. stored' = [cmd[a].raw EXCEPT !.token = cmd[a].token] /\ cmd[a].raw \in Raw
    BY <2>1, <2>2 DEF SaveToken, Rewritten, Inv, TypeOK
  <2> QED BY <2>3 DEF Raw
<1> QED BY <1>1, AlwaysInv, PTL DEF TokenDisturbsOnlyRaces, Spec

===============================================================================
