-------------------------- MODULE ReceiverRegistry ---------------------------
(***************************************************************************)
(* What the receiver store promises: one list, on which every command      *)
(* takes effect at most once, in one atomic step, on the list as it is at  *)
(* that moment, or not at all.  A command says in advance what it will     *)
(* change (its intent) and may be withdrawn until it is served.            *)
(***************************************************************************)
EXTENDS Naturals, FiniteSets

CONSTANTS Clients, Names, DestOf, Hooks, NoHook, MaxReceivers, Garbage

VARIABLES list, intent

Entry == [name : Names, hook : Hooks]

\* Entries to create, entries to delete, and a webhook to replace by another.
Intent == [create : SUBSET Entry, delete : SUBSET Entry,
           from : Hooks \cup {NoHook}, to : Hooks \cup {NoHook}]
Nothing == [create |-> {}, delete |-> {}, from |-> NoHook, to |-> NoHook]

Repoint(e, from, to) == IF e.hook = from THEN [e EXCEPT !.hook = to] ELSE e
Apply(i, entries) == {Repoint(e, i.from, i.to) : e \in entries \ i.delete} \cup i.create

\* One receiver per name; receivers sharing a webhook share their destination.
Proper(entries) ==
  \A e, f \in entries :
    /\ e.name = f.name => e = f
    /\ e.hook = f.hook => DestOf[e.name] = DestOf[f.name]

Init == list = {} /\ intent = [c \in Clients |-> Nothing]

Announce(c) ==
  /\ intent[c] = Nothing
  /\ intent'[c] \in Intent \ {Nothing}
  /\ intent' = [intent EXCEPT ![c] = intent'[c]]
  /\ UNCHANGED list

\* A command fails, or a pod dies with all its commands.
Withdraw(group) ==
  /\ intent' = [c \in Clients |-> IF c \in group THEN Nothing ELSE intent[c]]
  /\ UNCHANGED list

Serve(c) ==
  /\ intent[c] # Nothing /\ list # Garbage
  /\ list' = Apply(intent[c], list)
  /\ Proper(list')
  /\ intent[c].create # {} => Cardinality(list') <= MaxReceivers
  /\ intent' = [intent EXCEPT ![c] = Nothing]

\* The stored value is overwritten from outside; an administrator puts back a list.
Damage == list' = Garbage /\ UNCHANGED intent
Restore == list = Garbage /\ Proper(list') /\ UNCHANGED intent

Next ==
  \/ \E c \in Clients : Announce(c) \/ Serve(c)
  \/ \E group \in SUBSET Clients : Withdraw(group)
  \/ Damage \/ Restore

Spec == Init /\ [][Next]_<<list, intent>>

=============================================================================
