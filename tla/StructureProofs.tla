--------------------------- MODULE StructureProofs ----------------------------
(***************************************************************************)
(* What of Structure holds for any members, commands, ids, roles and any   *)
(* length of the log: that readers accept what was authorised, that names  *)
(* stay where they are, and that the sidebar shows every channel once.     *)
(***************************************************************************)
EXTENDS Structure, FiniteSetTheorems, SequenceTheorems, WellFoundedInduction, TLAPS

Records == [category : Places, position : 0..MaxPosition \cup {None}, archived : BOOLEAN]
Claims == [author : Members, key : Keys]

Declaring(kinds, subjects, tos) ==
    [do : kinds, author : Members, subject : subjects, to : tos, declared : Capabilities]
Structural ==
    Declaring({"define"}, Channels, Places) \cup Declaring({"update"}, Channels, ChannelChanges)
        \cup Declaring({"define-category"}, Categories, 0..MaxPosition)
        \cup Declaring({"update-category"}, Categories, CategoryChanges)
Naming == [do : {"name"}, author : Members, key : Keys]
Entries == Structural \cup Naming \cup {NoEntry}

\* What replay has made, and the entries under way.
TypeOK ==
    /\ members \subseteq Members
    /\ channels \in [Channels -> Records \cup {None}]
    /\ categories \in [Categories -> 0..MaxPosition \cup {None}]
    /\ claims \in Seq(Claims)
    /\ entry \in [Commands -> Entries]

-----------------------------------------------------------------------------
(* Capabilities that are declared.                                         *)

\* A capability is a verb at a scope.
LEMMA CapIsCapability ==
    \A v \in {"create-channel", "manage-channel"} : \A s \in Scopes : Cap(v, s) \in Capabilities
BY DEF Cap, Capabilities

\* The scopes that count for an entry about a channel: the channel, its category if
\* it has one, and the network.
LEMMA ChannelScopes ==
    ASSUME NEW e, e.do = "define" \/ e.do = "update",
           NEW c \in Channels, e.subject = c, NEW place \in Places, Place(e) = place,
           NEW v, Verb(e) = v
    PROVE  /\ Acceptable(e) \in Seq(Capabilities)
           /\ Contains(Acceptable(e), Cap(v, c))
           /\ Contains(Acceptable(e), Cap(v, Network))
           /\ place # None => Contains(Acceptable(e), Cap(v, place))
<1> DEFINE scopes == AcceptableEntry(e, place)
<1>1. scopes = <<c>> \o (IF place = None THEN <<>> ELSE <<place>>) \o <<Network>>
  BY DEF AcceptableEntry
<1>2. Acceptable(e) = [i \in DOMAIN scopes |-> Cap(v, scopes[i])]
  BY DEF Acceptable
<1>3. c \in Scopes /\ Network \in Scopes /\ (place # None => place \in Scopes)
  BY DEF Scopes, Places
<1>4. v \in {"create-channel", "manage-channel"}
  BY DEF Verb
<1> HIDE DEF scopes
<1>5. ASSUME NEW n \in Nat \ {0}, scopes \in Seq(Scopes), Len(scopes) = n
      PROVE  /\ Acceptable(e) \in Seq(Capabilities)
             /\ Len(Acceptable(e)) = n
             /\ \A i \in 1..n : Acceptable(e)[i] = Cap(v, scopes[i])
  BY <1>2, <1>4, <1>5, CapIsCapability
<1>6. CASE place = None
  <2>1. scopes = <<c>> \o <<>> \o <<Network>>
    BY <1>1, <1>6
  <2>2. scopes \in Seq(Scopes) /\ Len(scopes) = 2 /\ scopes[1] = c /\ scopes[2] = Network
    BY <1>3, <2>1
  <2> QED
    BY <1>5, <1>6, <2>2 DEF Contains
<1>7. CASE place # None
  <2>1. scopes = <<c>> \o <<place>> \o <<Network>>
    BY <1>1, <1>7
  <2>2. /\ scopes \in Seq(Scopes) /\ Len(scopes) = 3
        /\ scopes[1] = c /\ scopes[2] = place /\ scopes[3] = Network
    BY <1>3, <1>7, <2>1
  <2> QED
    BY <1>5, <1>7, <2>2 DEF Contains
<1> QED
  BY <1>6, <1>7

\* The scopes that count for an entry about a category.
LEMMA CategoryScopes ==
    ASSUME NEW e, e.do = "define-category" \/ e.do = "update-category",
           NEW k \in Categories, e.subject = k, NEW v, Verb(e) = v
    PROVE  /\ Acceptable(e) \in Seq(Capabilities)
           /\ Contains(Acceptable(e), Cap(v, Network))
           /\ e.do = "update-category" => Contains(Acceptable(e), Cap(v, k))
<1> DEFINE scopes == AcceptableEntry(e, Place(e))
<1>1. scopes = IF e.do = "define-category" THEN <<Network>> ELSE <<k, Network>>
  BY DEF AcceptableEntry
<1>2. Acceptable(e) = [i \in DOMAIN scopes |-> Cap(v, scopes[i])]
  BY DEF Acceptable
<1>3. k \in Scopes /\ Network \in Scopes
  BY DEF Scopes
<1>4. v \in {"create-channel", "manage-channel"}
  BY DEF Verb
<1> HIDE DEF scopes
<1>5. ASSUME NEW n \in Nat \ {0}, scopes \in Seq(Scopes), Len(scopes) = n
      PROVE  /\ Acceptable(e) \in Seq(Capabilities)
             /\ Len(Acceptable(e)) = n
             /\ \A i \in 1..n : Acceptable(e)[i] = Cap(v, scopes[i])
  BY <1>2, <1>4, <1>5, CapIsCapability
<1>6. CASE e.do = "define-category"
  <2>1. scopes \in Seq(Scopes) /\ Len(scopes) = 1 /\ scopes[1] = Network
    BY <1>1, <1>3, <1>6
  <2> QED
    BY <1>5, <1>6, <2>1 DEF Contains
<1>7. CASE e.do = "update-category"
  <2>1. scopes \in Seq(Scopes) /\ Len(scopes) = 2 /\ scopes[1] = k /\ scopes[2] = Network
    BY <1>1, <1>3, <1>7
  <2> QED
    BY <1>5, <1>7, <2>1 DEF Contains
<1> QED
  BY <1>6, <1>7

LessThan == {p \in Nat \X Nat : p[1] < p[2]}

\* A set of numbers that is not empty has a least element.
LEMMA Least ==
    ASSUME NEW T, T \subseteq Nat, T # {}
    PROVE  \E x \in T : \A y \in T : x <= y
<1>1. OpToRel(<, Nat) = LessThan
  BY Zenon DEF OpToRel, LessThan
<1>2. IsWellFoundedOn(LessThan, Nat)
  BY <1>1, NatLessThanWellFounded, Zenon
<1>3. PICK x \in T : \A y \in T : ~ (<<y, x>> \in LessThan)
  BY <1>2, WFMin, Zenon
<1>4. \A y \in T : ~ (y < x)
  BY <1>3 DEF LessThan
<1> QED
  BY <1>4

\* What is declared is held and acceptable, if anything acceptable is held.
LEMMA DeclaresHeld ==
    ASSUME NEW e, NEW C, Acceptable(e) \in Seq(C),
           NEW c \in held[e.author], Contains(Acceptable(e), c)
    PROVE  /\ Declaration(e) \in held[e.author] \cap C
           /\ Contains(Acceptable(e), Declaration(e))
<1> DEFINE a == Acceptable(e)
           I == {i \in 1..Len(a) : a[i] \in held[e.author]}
<1>1. I # {} /\ I \subseteq Nat
  BY DEF Contains
<1>2. SelectInSeq(a, LAMBDA d : d \in held[e.author]) = Min(I)
  BY <1>1 DEF SelectInSeq
<1>3. Min(I) \in I
  BY <1>1, Least DEF Min
<1>4. Declaration(e) = a[Min(I)]
  BY <1>2 DEF Declaration
<1> HIDE DEF a
<1>5. a[Min(I)] \in held[e.author] /\ a[Min(I)] \in C /\ Min(I) \in 1..Len(a)
  BY <1>3 DEF a
<1> QED
  BY <1>4, <1>5 DEF Contains, a

\* An entry that is made of a command its author may give is accepted where it is made.
LEMMA DeclaredIsAccepted ==
    ASSUME NEW do, do # "name", NEW m \in Members, NEW subject, NEW to, NEW e,
           e = About(do, m, subject, to), Acceptable(e) \in Seq(Capabilities),
           NEW c \in held[m], Contains(Acceptable(e), c)
    PROVE  /\ \E d \in Capabilities :
                Declared(e) =
                  [do |-> do, author |-> m, subject |-> subject, to |-> to, declared |-> d]
           /\ Accepted(Declared(e))
<1> DEFINE d == Declaration(e)
           f == [do |-> do, author |-> m, subject |-> subject, to |-> to, declared |-> d]
<1>1. e.do = do /\ e.author = m /\ e.subject = subject /\ e.to = to
  BY DEF About
<1>2. d \in held[m] /\ d \in Capabilities /\ Contains(Acceptable(e), d)
  BY <1>1, DeclaresHeld
<1>3. Declared(e) = f
  <2> HIDE DEF d
  <2>1. Declared(e) = [e EXCEPT !.declared = d]
    BY DEF Declared, d
  <2> QED
    BY <2>1 DEF About
<1>4. Acceptable(f) = Acceptable(e)
  <2> HIDE DEF d
  <2> QED
    BY <1>1 DEF Acceptable, AcceptableEntry, Place, Known, Verb
<1>5. f.do # "name" /\ f.author = m /\ f.declared = d
  OBVIOUS
<1> HIDE DEF d, f
<1>6. Accepted(f)
  BY <1>2, <1>4, <1>5 DEF Accepted
<1> QED
  BY <1>2, <1>3, <1>6 DEF f

\* The same of a command that prepares its entry.
LEMMA PreparedIsAccepted ==
    ASSUME NEW x \in Commands, NEW do, do # "name", NEW m \in Members, NEW subject, NEW to,
           NEW e, e = About(do, m, subject, to), Prepare(x, e),
           Acceptable(e) \in Seq(Capabilities), NEW c \in held[m], Contains(Acceptable(e), c),
           \A d \in Capabilities :
              [do |-> do, author |-> m, subject |-> subject, to |-> to, declared |-> d] \in Structural
    PROVE  \E f \in Entries :
             /\ f # NoEntry /\ Accepted(f)
             /\ entry' = [entry EXCEPT ![x] = f] /\ overtaken' = overtaken \ {x}
             /\ UNCHANGED net
<1>1. e.do # "name"
  BY DEF About
<1>2. Declared(e) \in Structural /\ Accepted(Declared(e))
  BY DeclaredIsAccepted
<1>3. Declared(e) \in Entries /\ Declared(e) # NoEntry
  BY <1>2 DEF Entries, Structural, Declaring, NoEntry
<1>4. entry' = [entry EXCEPT ![x] = Declared(e)] /\ overtaken' = overtaken \ {x}
      /\ UNCHANGED net
  BY <1>1 DEF Prepare
<1> QED
  BY <1>2, <1>3, <1>4

\* A command under way is one its author may give: its entry would be accepted.
LEMMA CommandsAreAuthorised ==
    ASSUME TypeOK, NEW x \in Commands, NEW m \in Members,
           \/ CreateChannel(x, m) \/ UpdateChannel(x, m)
           \/ CreateCategory(x, m) \/ UpdateCategory(x, m) \/ SetName(x, m)
    PROVE  \E f \in Entries :
             /\ f # NoEntry /\ Accepted(f)
             /\ entry' = [entry EXCEPT ![x] = f] /\ overtaken' = overtaken \ {x}
             /\ UNCHANGED net
<1>1. CASE CreateChannel(x, m)
  <2>1. PICK c \in Channels \ minted, place \in Places :
          /\ HoldsInScope(m, "create-channel", place)
          /\ Prepare(x, About("define", m, c, place))
    BY <1>1 DEF CreateChannel
  <2>2. PICK e : e = About("define", m, c, place)
    OBVIOUS
  <2>3. /\ e.do = "define" /\ e.subject = c /\ Place(e) = place
        /\ Verb(e) = "create-channel"
    BY <2>2 DEF About, Place, Verb
  <2>4. /\ Acceptable(e) \in Seq(Capabilities)
        /\ Contains(Acceptable(e), Cap("create-channel", Network))
        /\ place # None => Contains(Acceptable(e), Cap("create-channel", place))
    BY <2>3, ChannelScopes
  <2>5. PICK cap \in held[m] : Contains(Acceptable(e), cap)
    BY <2>1, <2>4 DEF HoldsInScope
  <2>6. \A d \in Capabilities :
           [do |-> "define", author |-> m, subject |-> c, to |-> place, declared |-> d]
              \in Structural
    BY DEF Structural, Declaring
  <2> QED
    BY <2>1, <2>2, <2>4, <2>5, <2>6, PreparedIsAccepted
<1>2. CASE UpdateChannel(x, m)
  <2>1. PICK c \in Defined, change \in ChannelChanges :
          /\ Holds(m, "manage-channel", c, channels[c].category)
          /\ Prepare(x, About("update", m, c, change))
    BY <1>2 DEF UpdateChannel
  <2>2. PICK e, place : e = About("update", m, c, change) /\ place = channels[c].category
    OBVIOUS
  <2>3. /\ e.do = "update" /\ e.subject = c /\ Place(e) = place
        /\ Verb(e) = "manage-channel"
    BY <2>2 DEF About, Place, Known, Verb
  <2>4. c \in Channels /\ place \in Places
    BY <2>2 DEF Defined, TypeOK, Records
  <2>5. /\ Acceptable(e) \in Seq(Capabilities)
        /\ Contains(Acceptable(e), Cap("manage-channel", Network))
        /\ Contains(Acceptable(e), Cap("manage-channel", c))
        /\ place # None => Contains(Acceptable(e), Cap("manage-channel", place))
    BY <2>3, <2>4, ChannelScopes
  <2>6. PICK cap \in held[m] : Contains(Acceptable(e), cap)
    BY <2>1, <2>2, <2>5 DEF Holds, HoldsInScope
  <2>7. \A d \in Capabilities :
           [do |-> "update", author |-> m, subject |-> c, to |-> change, declared |-> d]
              \in Structural
    BY <2>4 DEF Structural, Declaring
  <2> QED
    BY <2>1, <2>2, <2>5, <2>6, <2>7, PreparedIsAccepted
<1>3. CASE CreateCategory(x, m)
  <2>1. PICK k \in Categories \ minted, position \in 0..MaxPosition :
          /\ HoldsInScope(m, "manage-channel", None)
          /\ Prepare(x, About("define-category", m, k, position))
    BY <1>3 DEF CreateCategory
  <2>2. PICK e : e = About("define-category", m, k, position)
    OBVIOUS
  <2>3. e.do = "define-category" /\ e.subject = k /\ Verb(e) = "manage-channel"
    BY <2>2 DEF About, Verb
  <2>4. /\ Acceptable(e) \in Seq(Capabilities)
        /\ Contains(Acceptable(e), Cap("manage-channel", Network))
    BY <2>3, CategoryScopes
  <2>5. Cap("manage-channel", Network) \in held[m]
    BY <2>1 DEF HoldsInScope
  <2>6. \A d \in Capabilities :
           [do |-> "define-category", author |-> m, subject |-> k, to |-> position, declared |-> d]
              \in Structural
    BY DEF Structural, Declaring
  <2> QED
    BY <2>1, <2>2, <2>4, <2>5, <2>6, PreparedIsAccepted
<1>4. CASE UpdateCategory(x, m)
  <2>1. PICK k \in Categories, change \in CategoryChanges :
          /\ HoldsInScope(m, "manage-channel", k)
          /\ Prepare(x, About("update-category", m, k, change))
    BY <1>4 DEF UpdateCategory
  <2>2. PICK e : e = About("update-category", m, k, change)
    OBVIOUS
  <2>3. e.do = "update-category" /\ e.subject = k /\ Verb(e) = "manage-channel"
    BY <2>2 DEF About, Verb
  <2>4. /\ Acceptable(e) \in Seq(Capabilities)
        /\ Contains(Acceptable(e), Cap("manage-channel", Network))
        /\ Contains(Acceptable(e), Cap("manage-channel", k))
    BY <2>3, CategoryScopes
  <2>5. PICK cap \in held[m] : Contains(Acceptable(e), cap)
    BY <2>1, <2>4 DEF HoldsInScope
  <2>6. \A d \in Capabilities :
           [do |-> "update-category", author |-> m, subject |-> k, to |-> change, declared |-> d]
              \in Structural
    BY DEF Structural, Declaring
  <2> QED
    BY <2>1, <2>2, <2>4, <2>5, <2>6, PreparedIsAccepted
<1>5. CASE SetName(x, m)
  <2>1. PICK key \in Keys : MaySetName(m) /\ Prepare(x, NameClaim(m, key))
    BY <1>5 DEF SetName
  <2> DEFINE f == NameClaim(m, key)
  <2>2. f \in Entries /\ f # NoEntry /\ f.do = "name" /\ f.author = m
    BY DEF NameClaim, Entries, Naming, NoEntry
  <2> HIDE DEF f
  <2>3. Accepted(f)
    BY <2>1, <2>2 DEF Accepted
  <2>4. entry' = [entry EXCEPT ![x] = f] /\ overtaken' = overtaken \ {x} /\ UNCHANGED net
    BY <2>1, <2>2 DEF Prepare, f
  <2> QED
    BY <2>2, <2>3, <2>4
<1> QED
  BY <1>1, <1>2, <1>3, <1>4, <1>5

-----------------------------------------------------------------------------
(* Types, and what was authorised is accepted.                             *)

\* What replay makes of an entry is of its type.
LEMMA ReplayedTyped ==
    ASSUME TypeOK, NEW e \in Structural \cup Naming, Replayed(e)
    PROVE  /\ channels' \in [Channels -> Records \cup {None}]
           /\ categories' \in [Categories -> 0..MaxPosition \cup {None}]
           /\ claims' \in Seq(Claims)
<1>1. /\ channels \in [Channels -> Records \cup {None}]
      /\ categories \in [Categories -> 0..MaxPosition \cup {None}]
      /\ claims \in Seq(Claims)
  BY DEF TypeOK
<1>2. CASE e \in Declaring({"define"}, Channels, Places)
  <2>1. /\ channels' = [channels EXCEPT ![e.subject] = Channel(e.to)]
        /\ categories' = categories /\ claims' = claims
    BY <1>2 DEF Declaring, Replayed
  <2>2. e.subject \in Channels /\ Channel(e.to) \in Records
    BY <1>2 DEF Declaring, Records, Channel
  <2> QED
    BY <1>1, <2>1, <2>2
<1>3. CASE e \in Declaring({"update"}, Channels, ChannelChanges)
  <2>1. PICK c \in Channels : e.subject = c
    BY <1>3 DEF Declaring
  <2>2. categories' = categories /\ claims' = claims
    BY <1>3 DEF Declaring, Replayed
  <2>3. ASSUME c \in Defined, NEW ch, ch = channels[c]
        PROVE  Changed(ch, e.to) \in Records \cup {None}
    <3>1. ch \in Records
      BY <1>1, <2>3 DEF Defined
    <3>2. e.to \in ChannelChanges
      BY <1>3 DEF Declaring
    <3>3. CASE e.to \in {Change("move", to) : to \in Places}
      <4>1. Changed(ch, e.to) = [ch EXCEPT !.category = e.to.to] /\ e.to.to \in Places
        BY <3>3 DEF Changed, Change
      <4> QED
        BY <3>1, <4>1 DEF Records
    <3>4. CASE e.to \in {Change("position", to) : to \in 0..MaxPosition}
      <4>1. Changed(ch, e.to) = [ch EXCEPT !.position = e.to.to] /\ e.to.to \in 0..MaxPosition
        BY <3>4 DEF Changed, Change
      <4> QED
        BY <3>1, <4>1 DEF Records
    <3>5. CASE e.to \in {Change(what, None) : what \in {"archive", "delete"}}
      <4>1. Changed(ch, e.to) = [ch EXCEPT !.archived = TRUE] \/ Changed(ch, e.to) = None
        BY <3>5 DEF Changed, Change
      <4> QED
        BY <3>1, <4>1 DEF Records
    <3> QED
      BY <3>2, <3>3, <3>4, <3>5 DEF ChannelChanges
  <2>4. /\ c \in Defined => channels' = [channels EXCEPT ![c] = Changed(channels[c], e.to)]
        /\ c \notin Defined => channels' = channels
    BY <1>3, <2>1 DEF Declaring, Replayed
  <2> QED
    BY <1>1, <2>2, <2>3, <2>4
<1>4. CASE e \in Declaring({"define-category"}, Categories, 0..MaxPosition)
  <2>1. /\ categories' = [categories EXCEPT ![e.subject] = e.to]
        /\ channels' = channels /\ claims' = claims
    BY <1>4 DEF Declaring, Replayed
  <2>2. e.subject \in Categories /\ e.to \in 0..MaxPosition
    BY <1>4 DEF Declaring
  <2> QED
    BY <1>1, <2>1, <2>2
<1>5. CASE e \in Declaring({"update-category"}, Categories, CategoryChanges)
  <2>1. PICK k, to : k \in Categories /\ e.subject = k /\ e.to.to = to
    BY <1>5 DEF Declaring
  <2>2. channels' = channels /\ claims' = claims
    BY <1>5 DEF Declaring, Replayed
  <2>3. to \in 0..MaxPosition \cup {None}
    BY <1>5, <2>1 DEF Declaring, CategoryChanges, Change
  <2>4. /\ k \in Categorised => categories' = [categories EXCEPT ![k] = to]
        /\ k \notin Categorised => categories' = categories
    BY <1>5, <2>1 DEF Declaring, Replayed
  <2> QED
    BY <1>1, <2>2, <2>3, <2>4
<1>6. CASE e \in Naming
  <2>1. /\ channels' = channels /\ categories' = categories
        /\ claims' = Append(claims, [author |-> e.author, key |-> e.key])
    BY <1>6 DEF Naming, Replayed
  <2>2. [author |-> e.author, key |-> e.key] \in Claims
    BY <1>6 DEF Naming, Claims
  <2> QED
    BY <1>1, <2>1, <2>2
<1> QED
  BY <1>2, <1>3, <1>4, <1>5, <1>6 DEF Structural

\* An entry is accepted or not as long as nothing is replayed.
LEMMA AcceptedStays ==
    ASSUME UNCHANGED net, NEW f
    PROVE  Accepted(f)' <=> Accepted(f)
BY DEF net, Accepted, MaySetName, Acceptable, AcceptableEntry, Place, Known, Defined, Verb

Inv == TypeOK /\ AuthorizedIsAccepted

LEMMA InitInv == Init => Inv
<1> SUFFICES ASSUME Init PROVE Inv
  OBVIOUS
<1>1. TypeOK
  BY DEF Init, TypeOK, Entries
<1>2. AuthorizedIsAccepted
  BY DEF Init, AuthorizedIsAccepted
<1> QED
  BY <1>1, <1>2 DEF Inv

LEMMA NextInv == Inv /\ [Next]_vars => Inv'
<1> SUFFICES ASSUME Inv, [Next]_vars PROVE Inv'
  OBVIOUS
<1> USE DEF Inv
<1>1. ASSUME NEW x \in Commands, Land(x) PROVE Inv'
  <2>1. /\ entry[x] \in Structural \cup Naming
        /\ entry' = [entry EXCEPT ![x] = NoEntry] /\ overtaken' = overtaken \cup Under(x)
        /\ UNCHANGED members
        /\ Replayed(entry[x]) \/ UNCHANGED <<channels, categories, claims>>
    BY <1>1 DEF Land, TypeOK, Entries
  <2>2. TypeOK'
    BY <2>1, ReplayedTyped DEF TypeOK, Entries
  <2>3. \A y \in Commands : entry'[y] # NoEntry => y \in overtaken'
    BY <2>1 DEF Under, TypeOK
  <2> QED
    BY <2>2, <2>3 DEF AuthorizedIsAccepted
<1>2. ASSUME NEW x \in Commands, Drop(x) PROVE Inv'
  <2>1. entry' = [entry EXCEPT ![x] = NoEntry] /\ UNCHANGED net /\ UNCHANGED overtaken
    BY <1>2 DEF Drop
  <2>2. TypeOK'
    BY <2>1 DEF TypeOK, Entries, net
  <2>3. \A y \in Commands : entry'[y] # NoEntry => entry'[y] = entry[y]
    BY <2>1 DEF TypeOK
  <2> QED
    BY <2>1, <2>2, <2>3, AcceptedStays DEF AuthorizedIsAccepted
<1>3. ASSUME NEW x \in Commands, NEW m \in Members,
             \/ CreateChannel(x, m) \/ UpdateChannel(x, m)
             \/ CreateCategory(x, m) \/ UpdateCategory(x, m) \/ SetName(x, m)
      PROVE  Inv'
  <2>1. PICK f \in Entries :
          /\ f # NoEntry /\ Accepted(f)
          /\ entry' = [entry EXCEPT ![x] = f] /\ overtaken' = overtaken \ {x}
          /\ UNCHANGED net
    BY <1>3, CommandsAreAuthorised
  <2>2. TypeOK'
    BY <2>1 DEF TypeOK, net
  <2>3. ASSUME NEW y \in Commands, entry'[y] # NoEntry, y \notin overtaken'
        PROVE  Accepted(entry'[y])
    BY <2>1, <2>3 DEF TypeOK, AuthorizedIsAccepted
  <2>4. ASSUME NEW y \in Commands, entry'[y] # NoEntry, y \notin overtaken'
        PROVE  Accepted(entry[y])'
    BY <2>1, <2>3, <2>4, AcceptedStays
  <2> QED
    BY <2>2, <2>4 DEF AuthorizedIsAccepted
<1>4. CASE Regrant
  <2>1. TypeOK'
    BY <1>4 DEF Regrant, TypeOK
  <2>2. \A y \in Commands : entry'[y] # NoEntry => y \in overtaken'
    BY <1>4 DEF Regrant
  <2> QED
    BY <2>1, <2>2 DEF AuthorizedIsAccepted
<1>5. CASE UNCHANGED vars
  <2>1. UNCHANGED net /\ UNCHANGED <<entry, overtaken>>
    BY <1>5 DEF vars, net
  <2>2. TypeOK'
    BY <2>1 DEF TypeOK, net
  <2> QED
    BY <2>1, <2>2, AcceptedStays DEF AuthorizedIsAccepted
<1> QED
  BY <1>1, <1>2, <1>3, <1>4, <1>5 DEF Next

\* The state keeps its types: replay makes nothing of an entry that is not a channel,
\* a position or a claim (channel.rs apply).
THEOREM Typed == Spec => []TypeOK
<1>1. Inv => TypeOK
  BY DEF Inv
<1> QED
  BY <1>1, InitInv, NextInv, PTL DEF Spec

\* What was authorised is accepted by every reader, unless another entry has come to
\* stand before it (channel.rs declaration, admit): whatever the roles, the ids and the
\* number of commands under way.
THEOREM AuthorizedStands == Spec => []AuthorizedIsAccepted
<1>1. Inv => AuthorizedIsAccepted
  BY DEF Inv
<1> QED
  BY <1>1, InitInv, NextInv, PTL DEF Spec

-----------------------------------------------------------------------------
(* Names stay where they are.                                              *)

\* A set of places in a log that is not empty has a last one.
LEMMA Greatest ==
    ASSUME NEW n \in Nat, NEW T, T \subseteq 1..n, T # {}
    PROVE  \E x \in T : \A y \in T : y <= x
<1> DEFINE U == {n - y : y \in T}
<1>1. U \subseteq Nat /\ U # {}
  <2>1. \A y \in T : n - y \in Nat
    OBVIOUS
  <2> QED
    BY <2>1
<1>2. PICK u \in U : \A v \in U : u <= v
  <2> HIDE DEF U
  <2> QED
    BY <1>1, Least
<1>3. PICK x \in T : u = n - x
  OBVIOUS
<1>4. \A y \in T : n - y \in U
  OBVIOUS
<1> HIDE DEF U
<1> QED
  BY <1>2, <1>3, <1>4

\* The least element of a set of numbers is the one chosen as such.
LEMMA TheLeast ==
    ASSUME NEW B, B \subseteq Nat, NEW k \in B, \A j \in B : k <= j
    PROVE  (CHOOSE i \in B : \A j \in B : i <= j) = k
<1>1. \A i, j \in B : i <= j /\ j <= i => i = j
  OBVIOUS
<1>2. (CHOOSE i \in B : \A j \in B : i <= j) \in B
  BY Zenon
<1>3. \A h \in B : (CHOOSE i \in B : \A j \in B : i <= j) <= h
  BY Zenon
<1> QED
  BY <1>1, <1>2, <1>3, Zenon

\* A claim that is taken into the log comes after those there are.
LEMMA Claimed ==
    ASSUME TypeOK, NEW c \in Claims, claims' = Append(claims, c)
    PROVE  /\ Len(claims) \in Nat /\ DOMAIN claims = 1..Len(claims)
           /\ DOMAIN claims' = 1..(Len(claims) + 1)
           /\ \A i \in 1..Len(claims) : claims'[i] = claims[i]
           /\ claims'[Len(claims) + 1] = c
           /\ \A i \in 1..Len(claims) : claims[i] \in Claims
BY DEF TypeOK

\* A key that is bound stays where it is; one that is not goes to the claim's author.
LEMMA HolderStays ==
    ASSUME TypeOK, members' = members, NEW c \in Claims, claims' = Append(claims, c), NEW key
    PROVE  /\ Binding(key) # {} => Holder(key)' = Holder(key)
           /\ Binding(key) = {} => Holder(key) = None /\ Holder(key)' \in {None, c.author}
<1> DEFINE n == Len(claims)
           B == Binding(key)
           C == {i \in DOMAIN claims' : claims'[i].key = key /\ claims'[i].author \in members}
<1>1. B = {i \in 1..n : claims[i].key = key /\ claims[i].author \in members}
  BY Claimed DEF Binding, Judged, MaySetName
<1>2. /\ n \in Nat /\ DOMAIN claims' = 1..(n + 1)
      /\ \A i \in 1..n : claims'[i] = claims[i]
      /\ claims'[n + 1] = c
  BY Claimed
<1>3. B \subseteq C /\ C \subseteq B \cup {n + 1}
  <2> HIDE DEF n, B
  <2> QED
    BY <1>1, <1>2
<1>4. Holder(key)' = IF C = {} THEN None
                     ELSE claims'[CHOOSE i \in C : \A j \in C : i <= j].author
  BY DEF Holder, Binding, Judged, MaySetName
<1>5. Holder(key) = IF B = {} THEN None
                    ELSE claims[CHOOSE i \in B : \A j \in B : i <= j].author
  BY DEF Holder
<1>6. B \subseteq 1..n /\ C \subseteq 1..(n + 1)
  BY <1>1, <1>2
<1> HIDE DEF n, B, C
<1>7. ASSUME B # {} PROVE Holder(key)' = Holder(key)
  <2>0. B \subseteq Nat /\ C \subseteq Nat
    BY <1>2, <1>6
  <2>1. PICK k \in B : \A j \in B : k <= j
    BY <1>7, <2>0, Least
  <2>2. k \in C /\ \A j \in C : k <= j
    BY <1>2, <1>3, <1>6, <2>1
  <2>3. (CHOOSE i \in B : \A j \in B : i <= j) = k
    BY <2>0, <2>1, TheLeast
  <2>4. (CHOOSE i \in C : \A j \in C : i <= j) = k
    BY <2>0, <2>2, TheLeast
  <2> QED
    BY <1>2, <1>3, <1>4, <1>5, <1>6, <1>7, <2>1, <2>3, <2>4
<1>8. ASSUME B = {} PROVE Holder(key) = None /\ Holder(key)' \in {None, c.author}
  <2>1. CASE C = {}
    BY <1>4, <1>5, <1>8, <2>1
  <2>2. CASE C = {n + 1}
    BY <1>2, <1>4, <1>5, <1>8, <2>2
  <2> QED
    BY <1>3, <1>8, <2>1, <2>2
<1> QED
  BY <1>7, <1>8 DEF B

\* A claim of another leaves a member's name alone.
LEMMA NameStays ==
    ASSUME TypeOK, members' = members, NEW c \in Claims, claims' = Append(claims, c),
           NEW m \in Members, c.author # m
    PROVE  NameOf(m)' = NameOf(m)
<1> DEFINE n == Len(claims)
           B == Bound(m)
           C == {i \in DOMAIN claims' : claims'[i].author = m /\ Holder(claims[i].key)' = m}
<1>1. /\ n \in Nat /\ DOMAIN claims = 1..n /\ DOMAIN claims' = 1..(n + 1)
      /\ \A i \in 1..n : claims'[i] = claims[i]
      /\ claims'[n + 1] = c
  BY Claimed
<1>2. \A key : Holder(key)' = m <=> Holder(key) = m
  <2> TAKE key
  <2>1. m # None
    BY SortsAssumption
  <2>2. CASE Binding(key) # {}
    BY <2>2, HolderStays
  <2>3. CASE Binding(key) = {}
    BY <2>1, <2>3, HolderStays
  <2> QED
    BY <2>2, <2>3
<1>3. B = {i \in 1..n : claims[i].author = m /\ Holder(claims[i].key) = m}
  BY <1>1 DEF Bound
<1>4. C = B
  <2>1. \A i \in 1..n : Holder(claims[i].key)' = m <=> Holder(claims[i].key) = m
    BY <1>1, <1>2
  <2> HIDE DEF n, B
  <2> QED
    BY <1>1, <1>3, <2>1
<1>5. Bound(m)' = C
  BY DEF Bound
<1>6. NameOf(m)' = IF C = {} THEN None
                   ELSE claims'[CHOOSE i \in C : \A j \in C : j <= i].key
  BY <1>5 DEF NameOf
<1>7. NameOf(m) = IF B = {} THEN None
                  ELSE claims[CHOOSE i \in B : \A j \in B : j <= i].key
  BY DEF NameOf
<1> HIDE DEF n, B, C
<1>8. ASSUME B # {} PROVE (CHOOSE i \in B : \A j \in B : j <= i) \in 1..n
  <2>1. B \subseteq 1..n
    BY <1>3
  <2>2. \E k \in B : \A j \in B : j <= k
    BY <1>1, <1>8, <2>1, Greatest
  <2> QED
    BY <2>1, <2>2
<1> QED
  BY <1>1, <1>4, <1>6, <1>7, <1>8

\* While nobody leaves or returns, a member's name changes only by a claim of their own,
\* and a key once bound stays where it is, however many claims there are (names.rs Names).
THEOREM NamesDoStay == Spec => NamesStay
<1> DEFINE Stays ==
        /\ \A m \in Members : NameOf(m)' # NameOf(m) => \E x \in Commands :
              entry[x] # NoEntry /\ entry'[x] = NoEntry /\ entry[x].author = m
        /\ \A key \in Keys : Holder(key) \in {None, Holder(key)'}
<1>1. ASSUME TypeOK, members' = members, claims' = claims PROVE Stays
  BY <1>1 DEF NameOf, Bound, Holder, Binding, Judged, MaySetName
<1>2. ASSUME TypeOK, members' = members, NEW x \in Commands, Land(x) PROVE Stays
  <2>1. CASE claims' = claims
    BY <1>1, <1>2, <2>1
  <2>2. CASE claims' # claims
    <3>1. /\ entry[x] # NoEntry /\ entry' = [entry EXCEPT ![x] = NoEntry]
          /\ Replayed(entry[x])
      BY <1>2, <2>2 DEF Land
    <3>2. /\ entry[x].do = "name"
          /\ claims' = Append(claims, [author |-> entry[x].author, key |-> entry[x].key])
      BY <2>2, <3>1 DEF Replayed
    <3>3. entry[x] \in Naming
      BY <1>2, <3>1, <3>2 DEF TypeOK, Entries, Structural, Declaring
    <3>4. PICK c \in Claims : claims' = Append(claims, c) /\ c.author = entry[x].author
      BY <3>2, <3>3 DEF Naming, Claims
    <3>5. entry'[x] = NoEntry
      BY <1>2, <3>1 DEF TypeOK
    <3>6. ASSUME NEW m \in Members, NameOf(m)' # NameOf(m)
          PROVE  entry[x].author = m
      BY <1>2, <3>4, <3>6, NameStays
    <3>7. ASSUME NEW key \in Keys PROVE Holder(key) \in {None, Holder(key)'}
      BY <1>2, <3>4, HolderStays
    <3> QED
      BY <3>1, <3>5, <3>6, <3>7
  <2> QED
    BY <2>1, <2>2
<1>3. ASSUME TypeOK, members' = members, Next PROVE Stays
  <2>1. CASE \E x \in Commands : Land(x)
    BY <1>2, <1>3, <2>1
  <2>2. CASE ~ \E x \in Commands : Land(x)
    <3>1. claims' = claims
      BY <1>3, <2>2 DEF Next, Drop, Regrant, CreateChannel, UpdateChannel, CreateCategory,
           UpdateCategory, SetName, Prepare, net
    <3> QED
      BY <1>1, <1>3, <3>1
  <2> QED
    BY <2>1, <2>2
<1>4. TypeOK /\ [Next]_vars => [members' = members => Stays]_vars
  BY <1>3
<1> QED
  BY <1>4, Typed, PTL DEF Spec, NamesStay

-----------------------------------------------------------------------------
(* The sidebar shows every channel once.                                   *)

\* Strict orders of the members of a set, every two of which it relates.
Orders(S) ==
    {R \in SUBSET (S \X S) :
        /\ \A a \in S : <<a, a>> \notin R
        /\ \A a, b, c \in S : <<a, b>> \in R /\ <<b, c>> \in R => <<a, c>> \in R
        /\ \A a, b \in S : a = b \/ <<a, b>> \in R \/ <<b, a>> \in R}

\* A finite set that is ordered can be listed in its order: an element's place is one
\* more than the number of elements before it.
LEMMA Listing ==
    ASSUME NEW S, IsFiniteSet(S), NEW R \in Orders(S)
    PROVE  \E list \in [1..Cardinality(S) -> S] :
             \A i, j \in 1..Cardinality(S) : i < j => <<list[i], list[j]>> \in R
<1> DEFINE n == Cardinality(S)
           before(b) == {a \in S : <<a, b>> \in R}
           place == [b \in S |-> Cardinality(before(b)) + 1]
<1>1. n \in Nat
  BY FS_CardinalityType
<1>2. /\ \A a \in S : <<a, a>> \notin R
      /\ \A a, b, c \in S : <<a, b>> \in R /\ <<b, c>> \in R => <<a, c>> \in R
      /\ \A a, b \in S : a = b \/ <<a, b>> \in R \/ <<b, a>> \in R
  BY DEF Orders
<1>3. ASSUME NEW b \in S
      PROVE  IsFiniteSet(before(b)) /\ Cardinality(before(b)) \in 0..(n - 1)
  <2>1. before(b) \subseteq S /\ before(b) # S
    BY <1>2
  <2> HIDE DEF before
  <2>2. /\ IsFiniteSet(before(b)) /\ Cardinality(before(b)) <= n
        /\ Cardinality(before(b)) # n
    BY <2>1, FS_Subset
  <2>3. Cardinality(before(b)) \in Nat
    BY <2>2, FS_CardinalityType
  <2> QED
    BY <1>1, <2>2, <2>3
<1>4. ASSUME NEW a \in S, NEW b \in S, <<a, b>> \in R
      PROVE  place[a] < place[b]
  <2>1. before(a) \subseteq before(b) /\ before(a) # before(b)
    BY <1>2, <1>4
  <2>2. /\ IsFiniteSet(before(b)) /\ Cardinality(before(b)) \in Int
        /\ Cardinality(before(a)) \in Int
    BY <1>3
  <2>3. place[a] = Cardinality(before(a)) + 1 /\ place[b] = Cardinality(before(b)) + 1
    OBVIOUS
  <2> HIDE DEF before, place
  <2>4. Cardinality(before(a)) <= Cardinality(before(b))
        /\ Cardinality(before(a)) # Cardinality(before(b))
    BY <2>1, <2>2, FS_Subset
  <2> QED
    BY <2>2, <2>3, <2>4
<1>5. place \in [S -> 1..n]
  <2>1. \A b \in S : Cardinality(before(b)) + 1 \in 1..n
    <3> HIDE DEF before, n
    <3> QED
      BY <1>1, <1>3
  <2> HIDE DEF before
  <2> QED
    BY <2>1
<1> HIDE DEF place
<1>6. place \in Injection(S, 1..n)
  <2> HIDE DEF n
  <2>1. ASSUME NEW a \in S, NEW b \in S, place[a] = place[b] PROVE a = b
    <3>1. place[a] \in Int
      BY <1>1, <1>5
    <3>2. <<a, b>> \notin R /\ <<b, a>> \notin R
      BY <1>4, <2>1, <3>1
    <3> QED
      BY <1>2, <3>2
  <2> QED
    BY <1>5, <2>1 DEF Injection, IsInjective
<1>7. place \in Surjection(S, 1..n)
  <2>1. IsFiniteSet(1..n) /\ Cardinality(1..n) = n
    BY <1>1, FS_Interval
  <2> QED
    BY <1>6, <2>1, FS_Injection
<1>8. \A i \in 1..n : \E a \in S : place[a] = i
  BY <1>7 DEF Surjection
<1> DEFINE list == [i \in 1..n |-> CHOOSE a \in S : place[a] = i]
<1>9. \A i \in 1..n : list[i] \in S /\ place[list[i]] = i
  <2> HIDE DEF n
  <2> QED
    BY <1>8
<1>10. list \in [1..n -> S]
  <2> HIDE DEF n
  <2> QED
    BY <1>9
<1>11. \A i, j \in 1..n : i < j => <<list[i], list[j]>> \in R
  <2> HIDE DEF n, list
  <2> SUFFICES ASSUME NEW i \in 1..n, NEW j \in 1..n, i < j PROVE <<list[i], list[j]>> \in R
    OBVIOUS
  <2>1. list[i] \in S /\ list[j] \in S /\ place[list[i]] = i /\ place[list[j]] = j
    BY <1>9
  <2>2. list[i] # list[j] /\ ~ (place[list[j]] < place[list[i]])
    BY <1>1, <2>1
  <2> QED
    BY <1>2, <1>4, <2>1, <2>2
<1> HIDE DEF list
<1> QED
  BY <1>10, <1>11

\* A list of a set's elements that holds each of them once.
Lists(list, S) ==
    /\ list \in Seq(S)
    /\ \A a \in S : \E i \in 1..Len(list) : \A j \in 1..Len(list) : list[j] = a <=> j = i

\* What is listed in its order is there once.
LEMMA ListedOnce ==
    ASSUME NEW S, IsFiniteSet(S), NEW R \in Orders(S), NEW list \in [1..Cardinality(S) -> S],
           \A i, j \in 1..Cardinality(S) : i < j => <<list[i], list[j]>> \in R
    PROVE  Lists(list, S)
<1> DEFINE n == Cardinality(S)
<1>1. n \in Nat
  BY FS_CardinalityType
<1>2. list \in Seq(S) /\ Len(list) = n
  BY <1>1
<1>3. \A a \in S : <<a, a>> \notin R
  BY DEF Orders
<1> HIDE DEF n
<1>4. \A i, j \in 1..n : list[i] = list[j] => i = j
  <2> SUFFICES ASSUME NEW i \in 1..n, NEW j \in 1..n, list[i] = list[j], i # j PROVE FALSE
    OBVIOUS
  <2>1. i < j \/ j < i
    BY <1>1
  <2> QED
    BY <1>3, <2>1 DEF n
<1>5. list \in Injection(1..n, S)
  BY <1>4 DEF Injection, IsInjective, n
<1>6. list \in Surjection(1..n, S)
  <2>1. Cardinality(1..n) = n
    BY <1>1, FS_Interval
  <2> QED
    BY <1>5, <2>1, FS_Injection DEF n
<1>7. \A a \in S : \E i \in 1..n : list[i] = a
  BY <1>6 DEF Surjection
<1>8. \A a \in S : \E i \in 1..n : \A j \in 1..n : list[j] = a <=> j = i
  <2> TAKE a \in S
  <2>1. PICK i \in 1..n : list[i] = a
    BY <1>7
  <2> WITNESS i \in 1..n
  <2> QED
    BY <1>4, <2>1
<1>9. Len(list) = n /\ list \in Seq(S)
  BY <1>2
<1> QED
  BY <1>8, <1>9 DEF Lists

\* Positions, and ids where they are equal or there are none, order channels and
\* categories alike.
LEMMA PrecedesOrders ==
    ASSUME NEW S, S \subseteq Int, NEW p \in [S -> 0..MaxPosition \cup {None}]
    PROVE  {q \in S \X S : Precedes(p[q[1]], q[1], p[q[2]], q[2])} \in Orders(S)
<1> DEFINE R == {q \in S \X S : Precedes(p[q[1]], q[1], p[q[2]], q[2])}
<1>1. \A a, b \in S : <<a, b>> \in R <=> Precedes(p[a], a, p[b], b)
  OBVIOUS
<1>2. \A a \in S : a \in Int /\ (p[a] # None => p[a] \in Nat)
  BY BoundsAssumption
<1>3. \A a \in S : ~ Precedes(p[a], a, p[a], a)
  BY <1>2 DEF Precedes
<1>4. \A a, b, c \in S :
        Precedes(p[a], a, p[b], b) /\ Precedes(p[b], b, p[c], c) => Precedes(p[a], a, p[c], c)
  BY <1>2 DEF Precedes
<1>5. \A a, b \in S : a = b \/ Precedes(p[a], a, p[b], b) \/ Precedes(p[b], b, p[a], a)
  BY <1>2 DEF Precedes
<1>6. R \subseteq S \X S
  OBVIOUS
<1> HIDE DEF R
<1>7. R \in Orders(S)
  BY <1>1, <1>3, <1>4, <1>5, <1>6 DEF Orders
<1> QED
  BY <1>7 DEF R

\* The channels of a category are listed in it once each.
LEMMA SiblingsAreListed ==
    ASSUME TypeOK, NEW place \in Places
    PROVE  Lists(Siblings(place), {c \in Defined : channels[c].category = place})
<1> DEFINE S == {c \in Defined : channels[c].category = place}
           p == [c \in S |-> channels[c].position]
           R == {q \in S \X S : Precedes(p[q[1]], q[1], p[q[2]], q[2])}
           list == Siblings(place)
<1>1. S \subseteq Int /\ IsFiniteSet(S)
  <2>1. S \subseteq Channels
    BY DEF Defined
  <2> HIDE DEF S
  <2> QED
    BY <2>1, IdsAssumption, FS_Subset
<1>2. p \in [S -> 0..MaxPosition \cup {None}]
  BY DEF TypeOK, Defined, Records
<1>3. R \in Orders(S)
  <2> HIDE DEF S, p
  <2> QED
    BY <1>1, <1>2, PrecedesOrders
<1>4. list = CHOOSE l \in [1..Cardinality(S) -> S] :
                 \A i, j \in 1..Cardinality(S) :
                    i < j => Precedes(channels[l[i]].position, l[i], channels[l[j]].position, l[j])
  BY DEF Siblings, InOrder
<1>5. \A a, b \in S : <<a, b>> \in R <=>
          Precedes(channels[a].position, a, channels[b].position, b)
  OBVIOUS
<1> HIDE DEF S, p, R, list
<1>6. \E l \in [1..Cardinality(S) -> S] :
         \A i, j \in 1..Cardinality(S) :
            i < j => Precedes(channels[l[i]].position, l[i], channels[l[j]].position, l[j])
  <2>1. PICK l \in [1..Cardinality(S) -> S] :
           \A i, j \in 1..Cardinality(S) : i < j => <<l[i], l[j]>> \in R
    BY <1>1, <1>3, Listing
  <2>2. \A i, j \in 1..Cardinality(S) :
            i < j => Precedes(channels[l[i]].position, l[i], channels[l[j]].position, l[j])
    BY <1>5, <2>1
  <2> QED
    BY <2>2
<1>7. /\ list \in [1..Cardinality(S) -> S]
      /\ \A i, j \in 1..Cardinality(S) :
            i < j => Precedes(channels[list[i]].position, list[i],
                              channels[list[j]].position, list[j])
  BY <1>4, <1>6, Zenon
<1>8. \A i, j \in 1..Cardinality(S) : i < j => <<list[i], list[j]>> \in R
  BY <1>5, <1>7
<1>9. Lists(list, S)
  BY <1>1, <1>3, <1>7, <1>8, ListedOnce
<1> QED
  BY <1>9 DEF S, list

\* The categories of a sidebar, in the order they stand in it.
Ordered == InOrder(Named, LAMBDA a, b : Precedes(categories[a], a, categories[b], b))

\* The categories that anything is in, or defines, are listed once each.
LEMMA NamedAreListed ==
    ASSUME TypeOK
    PROVE  Named \subseteq Categories /\ Lists(Ordered, Named)
<1> DEFINE p == [k \in Named |-> categories[k]]
           R == {q \in Named \X Named : Precedes(p[q[1]], q[1], p[q[2]], q[2])}
<1>1. Named \subseteq Categories
  BY DEF Named, Categorised, Defined, TypeOK, Records, Places
<1>2. Named \subseteq Int /\ IsFiniteSet(Named)
  BY <1>1, IdsAssumption, FS_Subset
<1>3. p \in [Named -> 0..MaxPosition \cup {None}]
  BY <1>1 DEF TypeOK
<1>4. R \in Orders(Named)
  <2> HIDE DEF p
  <2> QED
    BY <1>2, <1>3, PrecedesOrders
<1>5. Ordered = CHOOSE l \in [1..Cardinality(Named) -> Named] :
                 \A i, j \in 1..Cardinality(Named) :
                    i < j => Precedes(categories[l[i]], l[i], categories[l[j]], l[j])
  BY DEF Ordered, InOrder
<1>6. \A a, b \in Named : <<a, b>> \in R <=> Precedes(categories[a], a, categories[b], b)
  OBVIOUS
<1> HIDE DEF p, R
<1>7. \E l \in [1..Cardinality(Named) -> Named] :
         \A i, j \in 1..Cardinality(Named) :
            i < j => Precedes(categories[l[i]], l[i], categories[l[j]], l[j])
  <2>1. PICK l \in [1..Cardinality(Named) -> Named] :
           \A i, j \in 1..Cardinality(Named) : i < j => <<l[i], l[j]>> \in R
    BY <1>2, <1>4, Listing
  <2>2. \A i, j \in 1..Cardinality(Named) :
            i < j => Precedes(categories[l[i]], l[i], categories[l[j]], l[j])
    BY <1>6, <2>1
  <2> QED
    BY <2>2
<1>8. /\ Ordered \in [1..Cardinality(Named) -> Named]
      /\ \A i, j \in 1..Cardinality(Named) :
            i < j => Precedes(categories[Ordered[i]], Ordered[i],
                              categories[Ordered[j]], Ordered[j])
  BY <1>5, <1>7, Zenon
<1>9. \A i, j \in 1..Cardinality(Named) : i < j => <<Ordered[i], Ordered[j]>> \in R
  BY <1>6, <1>8
<1> QED
  BY <1>1, <1>2, <1>4, <1>8, <1>9, ListedOnce

\* A channel in no category stands in a row of its own, one in a category in its row.
LEMMA SidebarRows ==
    ASSUME TypeOK
    PROVE  LET loose == Siblings(None) IN
           /\ Len(loose) \in Nat /\ Len(Ordered) \in Nat
           /\ DOMAIN Sidebar = 1..(Len(loose) + Len(Ordered))
           /\ \A i \in 1..Len(loose) :
                Sidebar[i] = [category |-> None, channels |-> <<loose[i]>>]
           /\ \A i \in 1..Len(Ordered) :
                Sidebar[Len(loose) + i] =
                   [category |-> Ordered[i], channels |-> Siblings(Ordered[i])]
<1> DEFINE loose == Siblings(None)
           Rows == [category : Places, channels : Seq(Channels)]
           s == [i \in DOMAIN loose |-> [category |-> None, channels |-> <<loose[i]>>]]
           t == [i \in DOMAIN Ordered |->
                    [category |-> Ordered[i], channels |-> Siblings(Ordered[i])]]
<1>1. \A place \in Places : Siblings(place) \in Seq(Channels)
  <2> TAKE place \in Places
  <2>1. PICK S : S \subseteq Channels /\ Lists(Siblings(place), S)
    <3>1. {c \in Defined : channels[c].category = place} \subseteq Channels
      BY DEF Defined
    <3> QED
      BY <3>1, SiblingsAreListed
  <2> QED
    BY <2>1 DEF Lists
<1>2. loose \in Seq(Channels) /\ Ordered \in Seq(Categories)
  BY <1>1, NamedAreListed DEF Lists, Places
<1>3. Sidebar = s \o t
  BY DEF Sidebar, Ordered
<1> HIDE DEF loose
<1>4. s \in Seq(Rows) /\ Len(s) = Len(loose)
  <2>1. \A i \in 1..Len(loose) : [category |-> None, channels |-> <<loose[i]>>] \in Rows
    BY <1>2 DEF Places
  <2> HIDE DEF Rows
  <2> QED
    BY <1>2, <2>1
<1>5. t \in Seq(Rows) /\ Len(t) = Len(Ordered)
  <2>1. \A i \in 1..Len(Ordered) :
          [category |-> Ordered[i], channels |-> Siblings(Ordered[i])] \in Rows
    BY <1>1, <1>2 DEF Places
  <2> HIDE DEF Rows
  <2> QED
    BY <1>2, <2>1
<1>6. /\ \A i \in 1..Len(loose) : s[i] = [category |-> None, channels |-> <<loose[i]>>]
      /\ \A i \in 1..Len(Ordered) :
           t[i] = [category |-> Ordered[i], channels |-> Siblings(Ordered[i])]
  BY <1>2
<1> HIDE DEF s, t, Rows
<1>7. /\ DOMAIN Sidebar = 1..(Len(loose) + Len(Ordered))
      /\ \A i \in 1..Len(loose) : Sidebar[i] = s[i]
      /\ \A i \in 1..Len(Ordered) : Sidebar[Len(loose) + i] = t[i]
  <2>1. /\ Len(s \o t) = Len(s) + Len(t) /\ s \o t \in Seq(Rows)
        /\ \A i \in 1..(Len(s) + Len(t)) :
             (s \o t)[i] = IF i <= Len(s) THEN s[i] ELSE t[i - Len(s)]
    BY <1>4, <1>5, ConcatProperties
  <2>2. DOMAIN Sidebar = 1..(Len(s) + Len(t)) /\ Len(s) \in Nat /\ Len(t) \in Nat
    BY <1>3, <1>4, <1>5, <2>1
  <2>3. \A i \in 1..Len(s) : Sidebar[i] = s[i]
    BY <1>3, <2>1, <2>2
  <2>4. ASSUME NEW i \in 1..Len(t) PROVE Sidebar[Len(s) + i] = t[i]
    <3>1. Len(s) + i \in 1..(Len(s) + Len(t)) /\ ~ (Len(s) + i <= Len(s))
          /\ (Len(s) + i) - Len(s) = i
      BY <2>2
    <3> QED
      BY <1>3, <2>1, <3>1
  <2> QED
    BY <1>4, <1>5, <2>2, <2>3, <2>4
<1>8. Len(loose) \in Nat /\ Len(Ordered) \in Nat
  BY <1>2
<1>9. \A i \in 1..Len(loose) : Sidebar[i] = [category |-> None, channels |-> <<loose[i]>>]
  BY <1>6, <1>7
<1>10. \A i \in 1..Len(Ordered) :
          Sidebar[Len(loose) + i] = [category |-> Ordered[i], channels |-> Siblings(Ordered[i])]
  BY <1>6, <1>7
<1> QED
  BY <1>7, <1>8, <1>9, <1>10 DEF loose

\* Every channel there is stands in the sidebar once, and under its own category, however
\* channels and categories come and go (channel.rs sidebar_order).
THEOREM SidebarComplete == Spec => []SidebarShowsAll
<1> SUFFICES ASSUME TypeOK, NEW c \in Defined
             PROVE  /\ Cardinality({i \in DOMAIN Sidebar : Contains(Sidebar[i].channels, c)}) = 1
                    /\ \A i \in DOMAIN Sidebar :
                         Contains(Sidebar[i].channels, c) =>
                            Sidebar[i].category = channels[c].category
  <2>1. TypeOK => SidebarShowsAll
    BY DEF SidebarShowsAll
  <2> QED
    BY <2>1, Typed, PTL
<1> DEFINE place == channels[c].category
           loose == Siblings(None)
           n == Len(loose)
           m == Len(Ordered)
           Shows(i) == Contains(Sidebar[i].channels, c)
<1>1. /\ n \in Nat /\ m \in Nat /\ DOMAIN Sidebar = 1..(n + m)
      /\ \A i \in 1..n : Sidebar[i].category = None /\ Sidebar[i].channels = <<loose[i]>>
      /\ \A i \in 1..m : /\ Sidebar[n + i].category = Ordered[i]
                         /\ Sidebar[n + i].channels = Siblings(Ordered[i])
  <2>1. /\ n \in Nat /\ m \in Nat /\ DOMAIN Sidebar = 1..(n + m)
        /\ \A i \in 1..n : Sidebar[i] = [category |-> None, channels |-> <<loose[i]>>]
        /\ \A i \in 1..m :
             Sidebar[n + i] = [category |-> Ordered[i], channels |-> Siblings(Ordered[i])]
    BY SidebarRows, Zenon
  <2>2. ASSUME NEW i \in 1..n
        PROVE  Sidebar[i].category = None /\ Sidebar[i].channels = <<loose[i]>>
    <3>1. Sidebar[i] = [category |-> None, channels |-> <<loose[i]>>]
      BY <2>1
    <3> QED
      BY <3>1
  <2>3. ASSUME NEW i \in 1..m
        PROVE  Sidebar[n + i].category = Ordered[i] /\ Sidebar[n + i].channels = Siblings(Ordered[i])
    <3>1. Sidebar[n + i] = [category |-> Ordered[i], channels |-> Siblings(Ordered[i])]
      BY <2>1
    <3> QED
      BY <3>1
  <2> QED
    BY <2>1, <2>2, <2>3
<1>2. place \in Places
  BY DEF Defined, TypeOK, Records
<1>3. ASSUME NEW other \in Places
      PROVE  Contains(Siblings(other), c) <=> other = place
  <2>1. PICK S : /\ Lists(Siblings(other), S) /\ (c \in S <=> other = place)
    <3>1. c \in {d \in Defined : channels[d].category = other} <=> other = place
      OBVIOUS
    <3> QED
      BY <3>1, SiblingsAreListed
  <2>2. \A i \in 1..Len(Siblings(other)) : Siblings(other)[i] \in S
    BY <2>1 DEF Lists
  <2>3. c \in S => \E i \in 1..Len(Siblings(other)) : Siblings(other)[i] = c
    BY <2>1 DEF Lists
  <2> QED
    BY <2>1, <2>2, <2>3 DEF Contains
<1>4. \A i \in 1..m : Ordered[i] \in Categories /\ Ordered[i] # None
  <2>1. \A i \in 1..m : Ordered[i] \in Categories
    BY NamedAreListed DEF Lists
  <2> QED
    BY <2>1, SortsAssumption
<1> HIDE DEF place, n, m, loose
<1>5. \A i \in 1..n : Shows(i) <=> loose[i] = c
  <2> TAKE i \in 1..n
  <2>1. Sidebar[i].channels = <<loose[i]>>
    BY <1>1
  <2> QED
    BY <2>1 DEF Contains
<1>6. \A i \in 1..m : Shows(n + i) <=> Ordered[i] = place
  BY <1>1, <1>3, <1>4 DEF Places
<1>7. \A i \in 1..(n + m) : i \in 1..n \/ \E j \in 1..m : i = n + j
  <2> TAKE i \in 1..(n + m)
  <2>1. CASE i > n
    <3>1. i - n \in 1..m /\ i = n + (i - n)
      BY <1>1, <2>1
    <3> QED
      BY <3>1
  <2> QED
    BY <1>1, <2>1
<1> HIDE DEF Shows
<1>8. \E k \in 1..(n + m) :
         /\ \A i \in 1..(n + m) : Shows(i) <=> i = k
         /\ Sidebar[k].category = place
  <2>1. CASE place = None
    <3>1. PICK k \in 1..n : \A j \in 1..n : loose[j] = c <=> j = k
      <4>1. c \in {d \in Defined : channels[d].category = None}
        BY <2>1 DEF place
      <4> QED
        BY <1>2, <2>1, <4>1, SiblingsAreListed DEF Lists, loose, n
    <3>2. ASSUME NEW i \in 1..(n + m) PROVE Shows(i) <=> i = k
      <4>1. CASE i \in 1..n
        BY <1>5, <3>1, <4>1
      <4>2. CASE i \notin 1..n
        <5>1. PICK j \in 1..m : i = n + j
          BY <1>7, <4>2
        <5> QED
          BY <1>4, <1>6, <2>1, <3>1, <4>2, <5>1
      <4> QED
        BY <4>1, <4>2
    <3>3. k \in 1..(n + m) /\ Sidebar[k].category = place
      BY <1>1, <2>1, <3>1
    <3> QED
      BY <3>2, <3>3
  <2>2. CASE place # None
    <3>1. place \in Named
      BY <2>2 DEF place, Named
    <3>2. PICK k \in 1..m : \A j \in 1..m : Ordered[j] = place <=> j = k
      BY <3>1, NamedAreListed DEF Lists, m
    <3>3. \A i \in 1..n : ~ Shows(i)
      <4>1. ~ Contains(Siblings(None), c)
        BY <1>3, <2>2 DEF Places
      <4> QED
        BY <1>1, <1>5, <4>1 DEF Contains, loose, n
    <3>4. \A i \in 1..m : Shows(n + i) <=> i = k
      BY <1>6, <3>2
    <3>5. n + k \in 1..(n + m)
      BY <1>1, <3>2
    <3>6. ASSUME NEW i \in 1..(n + m) PROVE Shows(i) <=> i = n + k
      <4>1. CASE i \in 1..n
        BY <1>1, <3>2, <3>3, <4>1
      <4>2. CASE i \notin 1..n
        <5>1. PICK j \in 1..m : i = n + j
          BY <1>7, <4>2
        <5>2. n + j = n + k <=> j = k
          BY <1>1, <3>2
        <5> QED
          BY <3>4, <5>1, <5>2
      <4> QED
        BY <4>1, <4>2
    <3>7. Sidebar[n + k].category = place
      BY <1>1, <3>2
    <3> QED
      BY <3>5, <3>6, <3>7
  <2> QED
    BY <2>1, <2>2
<1>9. PICK k \in 1..(n + m) : /\ \A i \in 1..(n + m) : Shows(i) <=> i = k
                              /\ Sidebar[k].category = place
  BY <1>8
<1>10. {i \in DOMAIN Sidebar : Shows(i)} = {k}
  BY <1>1, <1>9
<1>11. Cardinality({k}) = 1
  BY FS_Singleton
<1>12. \A i \in DOMAIN Sidebar : Shows(i) => Sidebar[i].category = place
  BY <1>1, <1>9
<1> QED
  BY <1>10, <1>11, <1>12 DEF Shows, place
=============================================================================
