----------------------------- MODULE Structure ------------------------------
(***************************************************************************)
(* What replay makes of the chat entries of a network's log: its channels, *)
(* categories and display names.  A command is authorised, and chooses the *)
(* capability its entry declares, on the state it is submitted on; other   *)
(* entries may come to stand before its own.  Replay asks whether the      *)
(* author holds what was declared where the entry stands, and the reader   *)
(* whether that is the right thing to have declared.                       *)
(***************************************************************************)
EXTENDS SequencesExt, Integers

CONSTANTS
    Members, Founder,   \* everybody, and who made the network
    Commands,           \* the commands under way on the machines modelled
    Channels, Categories,   \* ids, which order them
    Keys,               \* what display names are compared on
    Granted,            \* capabilities that roles can hold
    MaxPosition, MaxEntries,
    Network, None       \* the widest scope, and no value at all

Scopes == {Network} \cup Categories \cup Channels
Places == Categories \cup {None}
Capabilities == [verb : {"create-channel", "manage-channel"}, scope : Scopes]

ASSUME BoundsAssumption == MaxPosition \in Nat /\ MaxEntries \in Nat
ASSUME SortsAssumption ==
    /\ Founder \in Members /\ None \notin Categories \cup Channels \cup Members \cup Keys
    /\ Categories \cap Channels = {} /\ Granted \subseteq Capabilities
ASSUME IdsAssumption ==
    /\ Channels \subseteq Int /\ IsFiniteSet(Channels)
    /\ Categories \subseteq Int /\ IsFiniteSet(Categories)

VARIABLES
    members,    \* members of everyone: who may post and claim a name
    held,       \* what each member holds through roles
    channels,   \* [category, position, archived] by id, or None
    categories, \* positions of the categories that are defined
    claims,     \* claims on names, [author, key], in the order of the log
    minted,     \* ids that entries have used
    entry,      \* the entry a command is about to append
    overtaken,  \* commands another entry has come before
    entries

net == <<members, held, channels, categories, claims>>
vars == <<members, held, channels, categories, claims, minted, entry, overtaken, entries>>

Defined == {c \in Channels : channels[c] # None}
Categorised == {k \in Categories : categories[k] # None}
NoEntry == [do |-> "none"]

Init ==
    /\ members = Members
    /\ held = [m \in Members |-> IF m = Founder THEN Granted ELSE {}]
    /\ channels = [c \in Channels |-> None]
    /\ categories = [k \in Categories |-> None]
    /\ claims = <<>> /\ minted = {}
    /\ entry = [x \in Commands |-> NoEntry]
    /\ overtaken = {} /\ entries = 0

-----------------------------------------------------------------------------
(* Permissions: a verb is held at the channel, at its category or for the  *)
(* whole network.  Nothing denies.                                         *)
Cap(verb, scope) == [verb |-> verb, scope |-> scope]
HoldsInScope(m, verb, place) ==
    Cap(verb, Network) \in held[m] \/ (place # None /\ Cap(verb, place) \in held[m])
Holds(m, verb, c, place) == Cap(verb, c) \in held[m] \/ HoldsInScope(m, verb, place)
MaySetName(m) == m \in members

(* What an entry may declare, narrowest first.  Only the category of a     *)
(* channel that exists is known to replay; a definition names its own.     *)
Known(e) == IF e.subject \in Defined THEN channels[e.subject].category ELSE None
Verb(e) == IF e.do = "define" THEN "create-channel" ELSE "manage-channel"
AcceptableEntry(e, place) ==
    CASE e.do = "define-category" -> <<Network>>
      [] e.do = "update-category" -> <<e.subject, Network>>
      [] OTHER -> <<e.subject>> \o (IF place = None THEN <<>> ELSE <<place>>) \o <<Network>>
Place(e) == IF e.do = "define" THEN e.to ELSE Known(e)
Acceptable(e) ==
    LET scopes == AcceptableEntry(e, Place(e)) IN
    [i \in DOMAIN scopes |-> Cap(Verb(e), scopes[i])]

DeclarationNarrow(e) == Acceptable(e)[1]
Declaration(e) == Acceptable(e)[SelectInSeq(Acceptable(e), LAMBDA c : c \in held[e.author])]
Declared(e) == [e EXCEPT !.declared = Declaration(e)]

(* The protocol's question of an entry, and the chat reader's.             *)
Accepted(e) ==
    IF e.do = "name" THEN MaySetName(e.author)
    ELSE e.declared \in held[e.author] /\ Contains(Acceptable(e), e.declared)

(* Names: a key is bound by the first claim on it, of those who may claim  *)
(* when the log is replayed; a member's name is the last it has bound.     *)
Judged(c) == MaySetName(c.author)
Binding(key) == {i \in DOMAIN claims : claims[i].key = key /\ Judged(claims[i])}
HolderLatest(key) ==
    IF Binding(key) = {} THEN None
    ELSE claims[CHOOSE i \in Binding(key) : \A j \in Binding(key) : j <= i].author
Holder(key) ==
    IF Binding(key) = {} THEN None
    ELSE claims[CHOOSE i \in Binding(key) : \A j \in Binding(key) : i <= j].author
Bound(m) == {i \in DOMAIN claims : claims[i].author = m /\ Holder(claims[i].key) = m}
NameOf(m) == IF Bound(m) = {} THEN None
             ELSE claims[CHOOSE i \in Bound(m) : \A j \in Bound(m) : j <= i].key
Claimable(m, key) == Holder(key) \in {None, m}

-----------------------------------------------------------------------------
Change(what, to) == [what |-> what, to |-> to]
ChannelChanges ==
    {Change("move", to) : to \in Places} \cup {Change("position", to) : to \in 0..MaxPosition}
        \cup {Change(what, None) : what \in {"archive", "delete"}}
CategoryChanges ==
    {Change("position", to) : to \in 0..MaxPosition} \cup {Change("delete", None)}

(* A command has been authorised and its entry made; a definition mints    *)
(* the id of what it defines.                                              *)
Prepare(x, e) ==
    /\ entry' = [entry EXCEPT ![x] = IF e.do = "name" THEN e ELSE Declared(e)]
    /\ overtaken' = overtaken \ {x}
    /\ UNCHANGED <<net, entries>>

(* A claim on a name; a channel as its definition leaves it.               *)
NameClaim(m, key) == [do |-> "name", author |-> m, key |-> key]
Channel(place) == [category |-> place, position |-> None, archived |-> FALSE]

About(do, m, subject, to) ==
    [do |-> do, author |-> m, subject |-> subject, to |-> to, declared |-> None]

CreateChannel(x, m) ==
    \E c \in Channels \ minted, place \in Places :
        /\ HoldsInScope(m, "create-channel", place)
        /\ Prepare(x, About("define", m, c, place))
        /\ minted' = minted \cup {c}

UpdateChannel(x, m) ==
    \E c \in Defined, change \in ChannelChanges :
        /\ Holds(m, "manage-channel", c, channels[c].category)
        /\ Prepare(x, About("update", m, c, change))
        /\ UNCHANGED minted

CreateCategory(x, m) ==
    \E k \in Categories \ minted, position \in 0..MaxPosition :
        /\ HoldsInScope(m, "manage-channel", None)
        /\ Prepare(x, About("define-category", m, k, position))
        /\ minted' = minted \cup {k}

UpdateCategory(x, m) ==
    \E k \in Categories, change \in CategoryChanges :
        /\ HoldsInScope(m, "manage-channel", k)
        /\ Prepare(x, About("update-category", m, k, change))
        /\ UNCHANGED minted

SetName(x, m) ==
    \E key \in Keys :
        /\ MaySetName(m) /\ Claimable(m, key)
        /\ Prepare(x, NameClaim(m, key))
        /\ UNCHANGED minted

(* What replay makes of an entry both it and the reader accept.            *)
Changed(channel, change) ==
    CASE change.what = "move" -> [channel EXCEPT !.category = change.to]
      [] change.what = "position" -> [channel EXCEPT !.position = change.to]
      [] change.what = "archive" -> [channel EXCEPT !.archived = TRUE]
      [] change.what = "delete" -> None

Replayed(e) ==
    /\ channels' =
         CASE e.do = "define" ->
                [channels EXCEPT ![e.subject] = Channel(e.to)]
           [] e.do = "update" /\ e.subject \in Defined ->
                [channels EXCEPT ![e.subject] = Changed(@, e.to)]
           [] OTHER -> channels
    /\ categories' =
         CASE e.do = "define-category" -> [categories EXCEPT ![e.subject] = e.to]
           [] e.do = "update-category" /\ e.subject \in Categorised ->
                [categories EXCEPT ![e.subject] = e.to.to]
           [] OTHER -> categories
    /\ claims' = IF e.do = "name" THEN Append(claims, [author |-> e.author, key |-> e.key])
                                  ELSE claims

Under(x) == {y \in Commands \ {x} : entry[y] # NoEntry}

(* An entry takes its place in the log, whether or not it has an effect    *)
(* there: a claim stays in it, and may come to have one.                   *)
Land(x) ==
    /\ entry[x] # NoEntry /\ entries < MaxEntries
    /\ IF Accepted(entry[x]) \/ entry[x].do = "name"
         THEN Replayed(entry[x]) ELSE UNCHANGED <<channels, categories, claims>>
    /\ entry' = [entry EXCEPT ![x] = NoEntry]
    /\ overtaken' = overtaken \cup Under(x)
    /\ entries' = entries + 1
    /\ UNCHANGED <<members, held, minted>>

(* A command that is refused after all, or whose process dies.             *)
Drop(x) ==
    /\ entry[x] # NoEntry
    /\ entry' = [entry EXCEPT ![x] = NoEntry]
    /\ UNCHANGED <<net, minted, overtaken, entries>>

(* Roles and membership change by entries of their own (Governing).        *)
Regrant ==
    /\ entries < MaxEntries /\ entries' = entries + 1
    /\ \/ \E m \in Members, cap \in Granted :
            /\ held' = [held EXCEPT ![m] = IF cap \in @ THEN @ \ {cap} ELSE @ \cup {cap}]
            /\ UNCHANGED members
       \/ \E m \in members : members' = members \ {m} /\ UNCHANGED held
       \/ \E m \in Members \ members : members' = members \cup {m} /\ UNCHANGED held
    /\ overtaken' = {x \in Commands : entry[x] # NoEntry} \cup overtaken
    /\ UNCHANGED <<channels, categories, claims, minted, entry>>

Next ==
    \/ \E x \in Commands : Land(x) \/ Drop(x)
    \/ \E x \in Commands, m \in Members :
         /\ entry[x] = NoEntry /\ entries < MaxEntries
         /\ \/ CreateChannel(x, m) \/ UpdateChannel(x, m)
            \/ CreateCategory(x, m) \/ UpdateCategory(x, m) \/ SetName(x, m)
    \/ Regrant

Spec == Init /\ [][Next]_vars

-----------------------------------------------------------------------------
(* The sidebar: siblings that have a position first, by position, then by  *)
(* id; channels in no category before every category; a category that is   *)
(* named by a channel is listed whether or not anything defines it.        *)
Precedes(p, a, q, b) ==
    \/ p # None /\ q = None
    \/ p # None /\ q # None /\ p < q
    \/ p = q /\ a < b
InOrder(ids, Before(_, _)) ==
    CHOOSE list \in [1..Cardinality(ids) -> ids] :
        \A i, j \in 1..Cardinality(ids) : i < j => Before(list[i], list[j])
Siblings(place) ==
    InOrder({c \in Defined : channels[c].category = place},
            LAMBDA a, b : Precedes(channels[a].position, a, channels[b].position, b))
NamedDefined == Categorised
Named == Categorised \cup ({channels[c].category : c \in Defined} \ {None})
Sidebar ==
    LET row(k) == [category |-> k, channels |-> Siblings(k)]
        loose == Siblings(None)
        order == InOrder(Named, LAMBDA a, b : Precedes(categories[a], a, categories[b], b))
    IN  [i \in DOMAIN loose |-> [category |-> None, channels |-> <<loose[i]>>]]
            \o [i \in DOMAIN order |-> row(order[i])]

(* Every channel there is stands in the sidebar once, and under its own    *)
(* category (channel.rs sidebar_order).                                    *)
SidebarShowsAll ==
    \A c \in Defined :
        /\ Cardinality({i \in DOMAIN Sidebar : Contains(Sidebar[i].channels, c)}) = 1
        /\ \A i \in DOMAIN Sidebar :
             Contains(Sidebar[i].channels, c) => Sidebar[i].category = channels[c].category

(* What was authorised is accepted by every reader, unless another entry   *)
(* has come to stand before it: what an entry declares is something its    *)
(* author holds and its kind requires (channel.rs declaration, admit).     *)
AuthorizedIsAccepted ==
    \A x \in Commands : entry[x] # NoEntry /\ x \notin overtaken => Accepted(entry[x])

(* While nobody leaves or returns, a member's name changes only by a claim *)
(* of their own, and a key once bound stays where it is (names.rs Names).  *)
NamesStay ==
    [][members' = members =>
         /\ \A m \in Members : NameOf(m)' # NameOf(m) => \E x \in Commands :
               entry[x] # NoEntry /\ entry'[x] = NoEntry /\ entry[x].author = m
         /\ \A key \in Keys : Holder(key) \in {None, Holder(key)'}]_vars

=============================================================================
