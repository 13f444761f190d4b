------------------------------- MODULE Keying -------------------------------
(***************************************************************************)
(* How somebody who accepts a conversation comes to read it, and how         *)
(* somebody removed stops: the two entries that admit (serve.rs              *)
(* admit_redeemers, Admissions), asking for a key and answering, the three   *)
(* saves of a rotation (governance, keyring, group), catching up on the      *)
(* rotations of others and excluding who was removed, across restarts.       *)
(*                                                                         *)
(* The protocol's group is reduced to the rotation it is at and who has a    *)
(* leaf in it. Members append one after the other, each at the end of the    *)
(* whole log: forks are the subject of Governing. The keys of a rotation     *)
(* are named by its place in the log.                                      *)
(***************************************************************************)
EXTENDS Integers, Sequences, FiniteSets

CONSTANTS
    Nodes,         \* the participants whose machines are modelled
    Others,        \* participants that are only named
    Issuer,        \* the node whose invite the others redeem
    Own,           \* stands for a group a node made beside the network's
    NoOne,
    MaxMishaps,    \* bound: processes that end, requests and answers lost
    MaxRemovals    \* bound: participants removed

ASSUME IssuerRuns == Issuer \in Nodes
ASSUME OwnIsNoPlace == Own = -1

People == Nodes \cup Others

VARIABLES
    log,       \* the governance log all of them converge on
    stored,    \* how much of it each store has
    ring,      \* the epoch keys in each store, by rotation
    current,   \* its rotation file, 0 for none
    saved,     \* the rotation its saved group is at, 0 for none
    up,        \* whether the node runs
    held,      \* the keys the running node has
    group,     \* the rotation its group is at
    keyed, holds,  \* the two flags of the loop
    saving,    \* the save a node is about to make
    room,      \* the issuer's waiting room
    owed,      \* admitted, and not yet a Founder
    told,      \* who was answered: waiting
    asks, answers,  \* requests for a key, and answers to them, on their way
    torn,      \* nodes whose saved keys and group are not of one group (history)
    mishaps, removals

disk == <<stored, ring, current, saved>>
memory == <<up, held, group, keyed, holds, saving>>
door == <<room, owed, told>>
wire == <<asks, answers>>
bounds == <<mishaps, removals>>
vars == <<log, disk, memory, door, wire, torn, bounds>>

Rotations(upto) == {i \in 1..upto : log[i].kind = "rotate"}
Latest(upto) == CHOOSE i \in Rotations(upto) : \A j \in Rotations(upto) : j <= i

(* Replay, as far as a node has the log.                                   *)
Removed(p, upto) == \E i \in 1..upto : log[i].kind = "remove" /\ log[i].who = p
Named(kind, upto) == {log[i].who : i \in {j \in 1..upto : log[j].kind = kind}}
Member(p, upto) == ~Removed(p, upto) /\ p \in Named("member", upto)
Founder(p, upto) == Member(p, upto) /\ p \in Named("founder", upto)

Entry(kind, who, by, leaves) ==
    [kind |-> kind, who |-> who, by |-> by, leaves |-> leaves]

(* The issuer's network as it is when an invite of it is out: the issuer and *)
(* the others are in, and keyed by the rotation that ends the log.          *)
Genesis ==
    LET in == {Issuer} \cup Others
        named == CHOOSE s \in [1..Cardinality(in) -> in] :
                     \A i, j \in DOMAIN s : s[i] = s[j] => i = j
    IN  [i \in 1..Len(named) |-> Entry("member", named[i], Issuer, {})]
        \o [i \in 1..Len(named) |-> Entry("founder", named[i], Issuer, {})]
        \o <<Entry("rotate", NoOne, Issuer, in)>>

Idle == [at |-> "idle", to |-> NoOne]

Init ==
    /\ log = Genesis
    /\ stored = [n \in Nodes |-> IF n = Issuer THEN Len(log) ELSE 0]
    /\ ring = [n \in Nodes |-> IF n = Issuer THEN {Len(log)} ELSE {}]
    /\ current = [n \in Nodes |-> IF n = Issuer THEN Len(log) ELSE 0]
    /\ saved = [n \in Nodes |-> IF n = Issuer THEN Len(log) ELSE 0]
    /\ up = [n \in Nodes |-> FALSE]
    /\ held = [n \in Nodes |-> {}] /\ group = [n \in Nodes |-> 0]
    /\ keyed = [n \in Nodes |-> FALSE] /\ holds = [n \in Nodes |-> FALSE]
    /\ saving = [n \in Nodes |-> Idle]
    /\ room = {} /\ owed = {} /\ told = {}
    /\ asks = {} /\ answers = {}
    /\ torn = {}
    /\ mishaps = 0 /\ removals = 0

Free(n) == up[n] /\ saving[n].at = "idle"

(* Nobody else has appended anything this node does not have.              *)
Whole(n) == stored[n] = Len(log)

AppendBy(n, entry) ==
    /\ log' = Append(log, entry)
    /\ stored' = [stored EXCEPT ![n] = Len(log) + 1]

-----------------------------------------------------------------------------
(* Starting. What is owed is read from replay (Admissions::owed_from); the  *)
(* group comes back as it was saved; who holds neither key nor group and is  *)
(* a Founder of the log it has makes a group.                              *)

(* A mutated form: what is owed is remembered rather than read.             *)
OwedForgotten(n) == {}

OwedFrom(n) == {p \in Nodes \ {Issuer} : Member(p, stored[n]) /\ ~Founder(p, stored[n])}

(* A mutated form: the group is live state and does not come back.          *)
RestoredNever(n) == 0

Restored(n) == saved[n]

(* epoch_keys, and whether epoch_key finds the current one.                 *)
EpochKeys(n) == ring[n]
HasKey(n) == current[n] # 0

Makes(n) == Restored(n) = 0 /\ ~HasKey(n) /\ Founder(n, stored[n])

StartNode(n) ==
    /\ ~up[n]
    /\ up' = [up EXCEPT ![n] = TRUE]
    /\ held' = [held EXCEPT ![n] = IF Makes(n) THEN {Own} ELSE EpochKeys(n)]
    /\ group' = [group EXCEPT ![n] = IF Makes(n) THEN Own ELSE Restored(n)]
    /\ keyed' = [keyed EXCEPT ![n] = HasKey(n) \/ Makes(n)]
    /\ holds' = [holds EXCEPT ![n] = Restored(n) # 0 \/ Makes(n)]
    /\ saving' = [saving EXCEPT ![n] = IF Makes(n) THEN [@ EXCEPT !.at = "keyring"] ELSE @]
    /\ torn' = IF Makes(n) THEN torn \cup {n} ELSE torn
    /\ owed' = IF n = Issuer THEN OwedFrom(n) ELSE owed
    /\ UNCHANGED <<log, disk, room, told, wire, bounds>>

(* The process ends, anywhere. Between the saves of a rotation it leaves     *)
(* files that are not of one rotation.                                     *)
End(n) ==
    /\ up[n] /\ mishaps < MaxMishaps
    /\ up' = [up EXCEPT ![n] = FALSE]
    /\ held' = [held EXCEPT ![n] = {}] /\ group' = [group EXCEPT ![n] = 0]
    /\ keyed' = [keyed EXCEPT ![n] = FALSE] /\ holds' = [holds EXCEPT ![n] = FALSE]
    /\ saving' = [saving EXCEPT ![n] = Idle]
    /\ torn' = IF saving[n].at = "idle" THEN torn ELSE torn \cup {n}
    /\ IF n = Issuer THEN room' = {} /\ owed' = {} ELSE UNCHANGED <<room, owed>>
    /\ asks' = {a \in asks : n \notin {a.from, a.to}}
    /\ answers' = {a \in answers : a.to # n}
    /\ mishaps' = mishaps + 1
    /\ UNCHANGED <<log, disk, told, removals>>

-----------------------------------------------------------------------------
(* Joining.                                                                *)

(* The answer to an invite is: waiting. Who was told so does not ask again.  *)
Redeem(p) ==
    /\ Free(Issuer) /\ p \in Nodes \ ({Issuer} \cup told)
    /\ room' = room \cup {p}
    /\ told' = told \cup {p}
    /\ UNCHANGED <<log, disk, memory, owed, wire, torn, bounds>>

(* admit_redeemers: an entry for everyone, then one for Founders. Each is a  *)
(* command of its own, and what failed is tried again on the next tick.      *)
AdmitMember(p) ==
    /\ Free(Issuer) /\ Whole(Issuer) /\ p \in room
    /\ IF Member(p, Len(log))
       THEN UNCHANGED <<log, stored>>
       ELSE AppendBy(Issuer, Entry("member", p, Issuer, {}))
    /\ room' = room \ {p}
    /\ owed' = owed \cup {p}
    /\ UNCHANGED <<ring, current, saved, memory, told, wire, torn, bounds>>

AdmitFounder(p) ==
    /\ Free(Issuer) /\ Whole(Issuer) /\ p \in owed
    /\ IF Member(p, Len(log)) /\ ~Founder(p, Len(log))
       THEN AppendBy(Issuer, Entry("founder", p, Issuer, {}))
       ELSE UNCHANGED <<log, stored>>
    /\ owed' = owed \ {p}
    /\ UNCHANGED <<ring, current, saved, memory, room, told, wire, torn, bounds>>

(* A member is removed: a command, which needs no node.                     *)
Remove(p) ==
    /\ removals < MaxRemovals /\ Whole(Issuer) /\ p # Issuer /\ Member(p, Len(log))
    /\ AppendBy(Issuer, Entry("remove", p, Issuer, {}))
    /\ removals' = removals + 1
    /\ UNCHANGED <<ring, current, saved, memory, door, wire, torn, mishaps>>

-----------------------------------------------------------------------------
(* Keys. A rotation is in the store before its key is, and its key before    *)
(* the group.                                                              *)

Rotate(n, leaves, to) ==
    /\ AppendBy(n, Entry("rotate", NoOne, n, leaves))
    /\ held' = [held EXCEPT ![n] = @ \cup {Len(log) + 1}]
    /\ group' = [group EXCEPT ![n] = Len(log) + 1]
    /\ saving' = [saving EXCEPT ![n] = [at |-> "keyring", to |-> to]]

SetEpochKeys(n) ==
    /\ ring' = [ring EXCEPT ![n] = @ \cup held[n]]
    /\ current' = [current EXCEPT ![n] = group[n]]

SetGroupState(n) == saved' = [saved EXCEPT ![n] = group[n]]

SaveKeyring(n) ==
    /\ saving[n].at = "keyring"
    /\ SetEpochKeys(n)
    /\ saving' = [saving EXCEPT ![n].at = "group"]
    /\ UNCHANGED <<log, stored, saved, up, held, group, keyed, holds, door,
                   wire, torn, bounds>>

(* A mutated form: the newest key is all an answer brings.                  *)
NewestKey(n) == {group[n]}

KeysGiven(n) == held[n]

(* What an answer carries leaves with the last save.                        *)
SaveGroup(n) ==
    /\ saving[n].at = "group"
    /\ SetGroupState(n)
    /\ keyed' = [keyed EXCEPT ![n] = TRUE]
    /\ saving' = [saving EXCEPT ![n] = Idle]
    /\ answers' = IF saving[n].to = NoOne THEN answers
                  ELSE answers \cup {[to |-> saving[n].to, at |-> group[n],
                                      keys |-> KeysGiven(n)]}
    /\ UNCHANGED <<log, stored, ring, current, up, held, group, holds, door,
                   asks, torn, bounds>>

(* Asked of whoever is connected, every half minute while there is no key.   *)
Ask(n, m) ==
    /\ Free(n) /\ ~keyed[n] /\ Member(n, stored[n])
    /\ up[m] /\ m # n
    /\ \A a \in asks \cup answers : n # a.to /\ (a \in asks => n # a.from)
    /\ \A k \in Nodes : saving[k].to # n
    /\ asks' = asks \cup {[from |-> n, to |-> m]}
    /\ UNCHANGED <<log, disk, memory, door, answers, torn, bounds>>

(* An answer is a rotation with a leaf for who asked; it is given by a node  *)
(* that has the whole log, is at its latest rotation, and knows the asker.   *)
Answer(n, a) ==
    /\ Free(n) /\ Whole(n) /\ a \in asks /\ a.to = n
    /\ asks' = asks \ {a}
    /\ IF group[n] = Latest(Len(log)) /\ Member(a.from, Len(log))
       THEN Rotate(n, log[group[n]].leaves \cup {a.from}, a.from)
       ELSE UNCHANGED <<log, stored, held, group, saving>>
    /\ UNCHANGED <<ring, current, saved, up, keyed, holds, door, answers, torn, bounds>>

Delivered(n, a) ==
    /\ Free(n) /\ a \in answers /\ a.to = n
    /\ answers' = answers \ {a}
    /\ held' = [held EXCEPT ![n] = @ \cup a.keys]
    /\ group' = [group EXCEPT ![n] = a.at]
    /\ saving' = [saving EXCEPT ![n].at = "keyring"]
    /\ UNCHANGED <<log, disk, up, keyed, holds, door, asks, torn, bounds>>

Drop(m) ==
    /\ m \in asks \cup answers /\ mishaps < MaxMishaps
    /\ asks' = asks \ {m} /\ answers' = answers \ {m}
    /\ mishaps' = mishaps + 1
    /\ UNCHANGED <<log, disk, memory, door, torn, removals>>

(* How far the rotations of others take a group: not past one of its own,    *)
(* and not past one that leaves it out.                                    *)
Follows(n, upto) ==
    LET far == {i \in Rotations(upto) :
                  i > group[n] /\ \A j \in Rotations(i) :
                     j > group[n] => log[j].by # n /\ n \in log[j].leaves}
    IN  IF group[n] \in {0, Own} THEN {} ELSE far

Applied(n, followed) ==
    IF followed = {} THEN UNCHANGED <<held, group, saving>>
    ELSE /\ held' = [held EXCEPT ![n] = @ \cup followed]
         /\ group' = [group EXCEPT ![n] = CHOOSE i \in followed : \A j \in followed : j <= i]
         /\ saving' = [saving EXCEPT ![n].at = "keyring"]

(* The log is pulled from a node that runs; what arrives is stored and the   *)
(* rotations in it applied.                                                *)
Sync(n, m) ==
    /\ Free(n) /\ up[m] /\ stored[n] < stored[m]
    /\ n = Issuer \/ n \in told
    /\ stored' = [stored EXCEPT ![n] = stored[m]]
    /\ Applied(n, Follows(n, stored[m]))
    /\ UNCHANGED <<log, ring, current, saved, up, keyed, holds, door, wire, torn, bounds>>

(* The tick of a node that started with a group.                           *)
TickCatchUp(n) ==
    /\ Free(n) /\ holds[n] /\ Follows(n, stored[n]) # {}
    /\ Applied(n, Follows(n, stored[n]))
    /\ UNCHANGED <<log, disk, up, keyed, holds, door, wire, torn, bounds>>

(* Whoever has a leaf and is no member is left out of a new rotation.        *)
Exclude(n, p) ==
    /\ Free(n) /\ Whole(n) /\ holds[n] /\ group[n] = Latest(Len(log))
    /\ Removed(p, Len(log)) /\ p \in log[group[n]].leaves
    /\ Rotate(n, log[group[n]].leaves \ {p}, NoOne)
    /\ UNCHANGED <<ring, current, saved, up, keyed, holds, door, wire, torn, bounds>>

Admits == \E p \in Nodes : AdmitMember(p) \/ AdmitFounder(p)

Next ==
    \/ \E n \in Nodes :
         \/ StartNode(n) \/ End(n) \/ SaveKeyring(n) \/ SaveGroup(n) \/ TickCatchUp(n)
         \/ \E m \in Nodes : Ask(n, m) \/ Sync(n, m)
         \/ \E a \in asks : Answer(n, a)
         \/ \E a \in answers : Delivered(n, a)
         \/ \E p \in People : Exclude(n, p)
    \/ Admits \/ \E p \in Nodes : Redeem(p)
    \/ \E p \in People : Remove(p)
    \/ \E m \in asks \cup answers : Drop(m)

Spec == Init /\ [][Next]_vars

(* The tick and the handlers of one node, but for requests, which may go on   *)
(* for ever where nobody can answer them. Its peer pulls again and again.    *)
Works(n) ==
    \/ StartNode(n) \/ SaveKeyring(n) \/ SaveGroup(n) \/ TickCatchUp(n)
    \/ \E m \in Nodes : Sync(n, m)
    \/ \E a \in answers : Delivered(n, a)
    \/ \E p \in People : Exclude(n, p)

Requests(n) == (\E m \in Nodes : Ask(n, m)) \/ (\E a \in asks : Answer(n, a))

(* Between two mishaps a node runs out of work, so that fairness of the      *)
(* whole of it leaves nothing of it out.                                   *)
FairSpec ==
    /\ Spec /\ WF_vars(Admits)
    /\ \A n \in Nodes : WF_vars(Works(n)) /\ WF_vars(Requests(n))

-----------------------------------------------------------------------------
(* Nobody stays half admitted: who was made a member of a conversation is     *)
(* made a Founder, or has been removed, however often the issuer's process    *)
(* ends between the two entries (serve.rs Admissions::owed_from).            *)
AdmittedIsFounder ==
    \A p \in Nodes : p \in Named("member", Len(log))
                       ~> Founder(p, Len(log)) \/ Removed(p, Len(log))

(* Every member ends with a key, asking as long as it has none, and a node    *)
(* that started with a group ends with the keys of every rotation, from       *)
(* before and from after it joined, unless a process ended between two saves  *)
(* of a rotation or a Founder without a key started (serve.rs, the two places *)
(* that ask, catch_up_epochs).                                              *)
MembersReadAll ==
    \A n \in Nodes :
        <>[](torn = {} /\ Member(n, Len(log)))
            => <>[](keyed[n] /\ (holds[n] => Rotations(Len(log)) \subseteq ring[n]))

(* Who was removed is left out of the group in the end, with the same        *)
(* exception (serve.rs exclude_removed_members).                            *)
RemovedIsShutOut ==
    \A p \in People :
        Removed(p, Len(log)) ~> torn # {} \/ p \notin log[Latest(Len(log))].leaves

=============================================================================
