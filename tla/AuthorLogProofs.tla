--------------------------- MODULE AuthorLogProofs ---------------------------
(***************************************************************************)
(* One writer, any number of records, deaths and clocks set back, though   *)
(* not both accidents in one behaviour.  The argument has three parts.     *)
(*                                                                         *)
(* Follows: every record signed reads later than all before it.  What the  *)
(* index knows of is before the next reading by next_hlc, whatever the     *)
(* clock says; what a death kept from it was signed before the clock of    *)
(* the writer's next start, if the clock is never set back.                *)
(*                                                                         *)
(* Cuts: where a record goes is decided by the records before it alone.    *)
(* So the segments of a log are those of any initial part of it, with the  *)
(* later records after them.                                               *)
(*                                                                         *)
(* Recalls: the index holds the newest records, and what it dropped does   *)
(* not count.  So what the writer's check lets through keeps the pauses    *)
(* and ceilings (Metered), and a reader that walks the records admits      *)
(* each of them.                                                           *)
(***************************************************************************)
EXTENDS AuthorLog, FiniteSetTheorems, WellFoundedInduction, TLAPS

Readings == [wall : Nat, counter : Nat]
Records == [wall : Nat, counter : Nat, author : {"me"}, class : WrittenClasses]

Types ==
    /\ now \in Nat
    /\ written \in Seq(Records)
    /\ stored \subseteq 1..Len(written)
    /\ index.last \in {None} \cup Readings
    /\ at \in [Writers -> {"idle", "signed", "stored", "noting"}]
    /\ doing = [w \in Writers |-> [record |-> doing[w].record, index |-> doing[w].index]]
    /\ setbacks \in Nat /\ deaths \in Nat

\* What a writer has in hand is the newest record, and an index nobody else touches.
InHand == \A w \in Writers : at[w] # "idle" =>
    /\ 1 <= Len(written) /\ doing[w].record = Len(written)
    /\ at[w] = "signed" => Len(written) \notin stored
    /\ at[w] = "noting" => doing[w].index = index

Sorted == \A i, j \in 1..Len(written) : i < j => Later(written[j], written[i])

Busy == \E w \in Writers : at[w] # "idle"
Known(i) == index.last # None /\ ~Later(written[i], index.last)
Past(i) == deaths > 0 /\ written[i].wall < now

\* What was signed is in hand, or in the index, or of a writer that died since.
Kept == \A i \in 1..Len(written) : (Busy /\ i = Len(written)) \/ Known(i) \/ Past(i)

Clocked == setbacks = 0 =>
    /\ \A i \in 1..Len(written) : written[i].wall <= now
    /\ index.last # None => index.last.wall <= now

OneAccident == deaths = 0 \/ setbacks = 0
Follows == Sorted /\ Kept /\ Clocked

\* A record's segment, given those of the records before it.
Steps(segment, before, n) ==
    \/ before = {} /\ n = 0
    \/ \E newest, oldest \in before :
         /\ \A k \in before : k <= newest
         /\ segment[oldest] = segment[newest]
         /\ \A k \in before : segment[k] = segment[newest] => oldest <= k
         /\ n = segment[newest]
                + (IF ShouldSeal(oldest, newest,
                                 Cardinality({j \in before : segment[j] = segment[newest]}))
                   THEN 1 ELSE 0)

Before(id, ids) == {other \in ids : other < id}
Cuts(segment, ids) ==
    /\ segment \in [ids -> Nat]
    /\ \A id \in ids : Steps(segment, Before(id, ids), segment[id])

\* The published chain is the cut of an initial part of what is stored.
Published ==
    /\ DOMAIN chain \subseteq stored
    /\ \A head \in DOMAIN chain, id \in stored : id < head => id \in DOMAIN chain
    /\ Cuts(chain, DOMAIN chain)

\* What a reader checks of the first n records signed: their pauses and ceilings.
Metered(n, log) == \A i \in 1..n :
    /\ log[i].class = "message" /\ Limits.slowmode > 0 =>
          \A j \in 1..i - 1 :
              log[j].class = "message" => log[i].wall - log[j].wall >= Limits.slowmode
    /\ Readers!Ceiling(log[i].class, Limits) > 0 =>
          Cardinality({j \in 1..i - 1 : log[j].class = log[i].class
                                        /\ log[j].wall > log[i].wall - RateWindow})
              < Readers!Ceiling(log[i].class, Limits)

\* What the index knows of: every record but the one in hand.
Noticed == IF Busy THEN Len(written) - 1 ELSE Len(written)

\* An index that has noted the first n records holds the newest of them.  The newest
\* it has dropped is too old to count, or there are MaxRecent newer.
Heard == [wall : Nat, class : WrittenClasses]
Recalls(ix, n, log) ==
    LET dropped == n - Len(ix.recent)
    IN  /\ ix.recent \in Seq(Heard) /\ dropped >= 0
        /\ \A k \in 1..Len(ix.recent) : /\ ix.recent[k].wall = log[dropped + k].wall
                                        /\ ix.recent[k].class = log[dropped + k].class
        /\ dropped > 0 => \/ log[dropped].wall < log[n].wall - KeptWindow
                          \/ Len(ix.recent) >= MaxRecent
        /\ ix.lastMessage \in {None} \cup Readings
        /\ \A j \in 1..n : log[j].class = "message" =>
              ix.lastMessage # None /\ log[j].wall <= ix.lastMessage.wall

Careful == deaths = 0 => Metered(Len(written), written) /\ Recalls(index, Noticed, written)

\* No more than MaxRecent records in any window, of all classes together.
Sparse == \A i, j \in 1..Len(written) :
    i - j > MaxRecent => written[i].wall - written[j].wall >= RateWindow

\* It is so where every class has a ceiling and the index room for all of them.
Roomy ==
    /\ WrittenClasses \subseteq {"message", "reaction"}
    /\ Limits.message > 0 /\ Limits.reaction > 0
    /\ Limits.message + Limits.reaction <= MaxRecent

-----------------------------------------------------------------------------
(* Numbers.                                                                *)

LessThan == {p \in Nat \X Nat : p[1] < p[2]}

\* A set of numbers that is not empty has a least element.
LEMMA Least ==
    ASSUME NEW T, T \subseteq Nat, T # {}
    PROVE  \E x \in T : \A y \in T : x <= y
<1>1. OpToRel(<, Nat) = LessThan
  BY Zenon DEF OpToRel, LessThan
<1>2. IsWellFoundedOn(LessThan, Nat)
  BY <1>1, NatLessThanWellFounded, Zenon
<1>3. PICK x \in T : \A y \in T : ~ (<<y, x>> \in LessThan)
  BY <1>2, WFMin, Zenon
<1>4. \A y \in T : ~ (y < x)
  BY <1>3 DEF LessThan
<1> QED
  BY <1>4

\* One that is bounded has a greatest.
LEMMA Greatest ==
    ASSUME NEW n \in Nat, NEW T, T \subseteq 1..n, T # {}
    PROVE  \E x \in T : \A y \in T : y <= x
<1> DEFINE U == {n - y : y \in T}
<1>1. U \subseteq Nat /\ U # {}
  <2>1. \A y \in T : n - y \in Nat
    OBVIOUS
  <2> QED
    BY <2>1
<1>2. PICK u \in U : \A v \in U : u <= v
  <2> HIDE DEF U
  <2> QED
    BY <1>1, Least
<1>3. PICK x \in T : u = n - x
  OBVIOUS
<1>4. \A y \in T : n - y \in U
  OBVIOUS
<1> HIDE DEF U
<1> QED
  BY <1>2, <1>3, <1>4

-----------------------------------------------------------------------------
(* Readings.                                                               *)

\* Of two readings the later is not the earlier, and a later one is later still.
LEMMA Order ==
    ASSUME NEW a, NEW b, NEW c, a.wall \in Nat, b.wall \in Nat, c.wall \in Nat,
           a.counter \in Nat, b.counter \in Nat, c.counter \in Nat
    PROVE  /\ Later(a, b) => ~Later(b, a) /\ a # b
           /\ Later(a, b) /\ ~Later(c, b) => Later(a, c)
           /\ Later(a, b) /\ Later(b, c) => Later(a, c)
           /\ ~Later(a, a)
BY DEF Later

\* The next reading is later than the last and not before the clock.
LEMMA NextIsLater ==
    ASSUME NEW last \in {None} \cup Readings, NEW wall \in Nat
    PROVE  /\ NextReading(last, wall) \in Readings
           /\ last # None => Later(NextReading(last, wall), last)
           /\ last # None /\ last.wall <= wall => NextReading(last, wall).wall = wall
           /\ last = None => NextReading(last, wall).wall = wall
           /\ wall <= NextReading(last, wall).wall
<1>1. CASE last = None
  BY <1>1 DEF NextReading, Readings
<1>2. CASE last # None
  <2>1. last \in Readings /\ last.wall \in Nat /\ last.counter \in Nat
    BY <1>2 DEF Readings
  <2>2. CASE wall <= last.wall
    BY <1>2, <2>1, <2>2 DEF NextReading, Readings, Later
  <2>3. CASE ~(wall <= last.wall)
    BY <1>2, <2>1, <2>3 DEF NextReading, Readings, Later
  <2> QED
    BY <2>2, <2>3
<1> QED
  BY <1>1, <1>2

\* The last reading of an index that notes a record: the later of the two.
LEMMA Noted ==
    ASSUME NEW ix, NEW record \in Records, ix.last \in {None} \cup Readings
    PROVE  /\ Note(ix, record).last =
                IF ix.last = None \/ Later(Reading(record), ix.last) THEN Reading(record) ELSE ix.last
           /\ Reading(record) \in Readings
BY DEF Note, Reading, Readings, Records
-----------------------------------------------------------------------------
(* Typed, and one writer at a time.                                        *)

OneWriter == \A v, w \in Writers : v = w

\* Nothing of a write happens in these, and no accident.
Aside == UNCHANGED <<now, writing, setbacks, deaths>>

\* What the node does, and a step of nothing, is aside.
LEMMA NodeAside ==
    ASSUME Pass \/ AnnouncementAges \/ NodeRestarts \/ UNCHANGED vars
    PROVE  Aside
BY DEF Pass, PassBegin, PassReplay, MarkThrough, MarkAnnounced, AnnouncementAges, NodeRestarts,
       vars, writing, bounds, Aside

\* What signing does: one more record, read past the last reading known.
LEMMA Signs ==
    ASSUME Types, NEW w \in Writers, Sign(w)
    PROVE  /\ at[w] = "idle" /\ at' = [at EXCEPT ![w] = "signed"]
           /\ doing' = [doing EXCEPT ![w].record = Len(written) + 1]
           /\ UNCHANGED <<now, stored, index, chain, setbacks, deaths>>
           /\ \E r \in Records : /\ written' = Append(written, r)
                                 /\ Reading(r) = NextReading(index.last, now)
           /\ Len(written') = Len(written) + 1 /\ Len(written) \in Nat
           /\ \A i \in 1..Len(written) : written'[i] = written[i] /\ written[i] \in Records
           /\ written' \in Seq(Records)
           /\ written'[Len(written) + 1] \in Records
           /\ Reading(written'[Len(written) + 1]) = NextReading(index.last, now)
<1>1. PICK class \in WrittenClasses :
        LET reading == NextReading(index.last, now)
            record  == [wall |-> reading.wall, counter |-> reading.counter,
                        author |-> "me", class |-> class]
        IN  /\ at[w] = "idle" /\ written' = Append(written, record)
            /\ at' = [at EXCEPT ![w] = "signed"]
            /\ doing' = [doing EXCEPT ![w].record = Len(written) + 1]
            /\ UNCHANGED <<now, stored, index, publishing, bounds>>
  BY DEF Sign
<1>2. PICK r : r = [wall |-> NextReading(index.last, now).wall,
                    counter |-> NextReading(index.last, now).counter,
                    author |-> "me", class |-> class]
  OBVIOUS
<1>3. NextReading(index.last, now) \in Readings
  BY NextIsLater DEF Types
<1>4. r \in Records /\ Reading(r) = NextReading(index.last, now)
  BY <1>2, <1>3 DEF Readings, Records, Reading
<1>5. written' = Append(written, r) /\ written \in Seq(Records)
  BY <1>1, <1>2 DEF Types
<1>6. /\ Len(written') = Len(written) + 1 /\ Len(written) \in Nat
      /\ \A i \in 1..Len(written) : written'[i] = written[i] /\ written[i] \in Records
      /\ written' \in Seq(Records)
      /\ written'[Len(written) + 1] = r
  BY <1>4, <1>5
<1> QED
  BY <1>1, <1>4, <1>5, <1>6 DEF publishing, bounds

\* What the last step of a write does to the last reading of the index.
LEMMA Notes ==
    ASSUME Types, InHand, NEW w \in Writers, NoteWrite(w)
    PROVE  /\ at[w] = "noting" /\ at' = [at EXCEPT ![w] = "idle"]
           /\ doing' = [doing EXCEPT ![w] = [record |-> None, index |-> EmptyIndex]]
           /\ UNCHANGED <<now, written, stored, chain, setbacks, deaths>>
           /\ Len(written) \in Nat /\ 1 <= Len(written) /\ written[Len(written)] \in Records
           /\ index'.last = IF index.last = None \/ Later(written[Len(written)], index.last)
                            THEN Reading(written[Len(written)]) ELSE index.last
           /\ index'.last \in Readings
<1>1. /\ at[w] = "noting" /\ index' = Note(doing[w].index, written[doing[w].record])
      /\ at' = [at EXCEPT ![w] = "idle"]
      /\ doing' = [doing EXCEPT ![w] = [record |-> None, index |-> EmptyIndex]]
      /\ UNCHANGED <<now, written, stored, chain, setbacks, deaths>>
  BY DEF NoteWrite, publishing, bounds
<1>2. doing[w].index = index /\ doing[w].record = Len(written) /\ 1 <= Len(written)
  BY <1>1 DEF InHand
<1>3. Len(written) \in Nat /\ written[Len(written)] \in Records
  BY <1>2 DEF Types
<1>4. index' = Note(index, written[Len(written)])
  BY <1>1, <1>2
<1> DEFINE r == written[Len(written)]
<1>5. /\ index'.last =
           IF index.last = None \/ Later(Reading(r), index.last) THEN Reading(r) ELSE index.last
      /\ Reading(r) \in Readings
  BY <1>3, <1>4, Noted DEF Types
<1>6. Later(Reading(r), index.last) <=> Later(r, index.last)
  BY DEF Later, Reading
<1> QED
  BY <1>1, <1>2, <1>3, <1>5, <1>6 DEF Types

\* Every step keeps the types, and what a writer has in hand.
LEMMA InHandStep ==
    ASSUME Types, InHand, OneWriter, [Next]_vars
    PROVE  Types' /\ InHand'
<1>1. CASE Aside
  BY <1>1 DEF Aside, writing, Types, InHand
<1>2. ASSUME NEW w \in Writers, Sign(w) PROVE Types' /\ InHand'
  <2>1. Types'
    <3>1. doing' = [v \in Writers |-> [record |-> doing'[v].record, index |-> doing'[v].index]]
      BY <1>2, Signs DEF Types
    <3>2. at' \in [Writers -> {"idle", "signed", "stored", "noting"}]
      BY <1>2, Signs DEF Types
    <3>3. stored' \subseteq 1..Len(written') /\ written' \in Seq(Records)
      BY <1>2, Signs DEF Types
    <3>4. UNCHANGED <<now, index, setbacks, deaths>>
      BY <1>2, Signs
    <3> QED
      BY <3>1, <3>2, <3>3, <3>4 DEF Types
  <2>2. Len(written') \notin stored'
    BY <1>2, Signs DEF Types
  <2>3. at'[w] = "signed" /\ doing'[w].record = Len(written')
    BY <1>2, Signs DEF Types
  <2>4. \A v \in Writers : v = w
    BY DEF OneWriter
  <2> QED
    BY <1>2, <2>1, <2>2, <2>3, <2>4, Signs DEF InHand
<1>3. ASSUME NEW w \in Writers, PutFile(w) PROVE Types' /\ InHand'
  <2>1. /\ at[w] = "signed" /\ stored' = stored \cup {doing[w].record}
        /\ at' = [at EXCEPT ![w] = "stored"]
        /\ UNCHANGED <<now, written, index, doing, setbacks, deaths>>
    BY <1>3 DEF PutFile, bounds
  <2>2. doing[w].record = Len(written) /\ 1 <= Len(written) /\ Len(written) \in Nat
    BY <2>1 DEF InHand, Types
  <2>3. stored' \subseteq 1..Len(written)
    BY <2>1, <2>2 DEF Types
  <2>4. at' \in [Writers -> {"idle", "signed", "stored", "noting"}] /\ at'[w] = "stored"
    BY <2>1 DEF Types
  <2>5. Types'
    BY <2>1, <2>3, <2>4 DEF Types
  <2>6. \A v \in Writers : v = w
    BY DEF OneWriter
  <2> QED
    BY <2>1, <2>2, <2>4, <2>5, <2>6 DEF InHand
<1>4. ASSUME NEW w \in Writers, NoteRead(w) PROVE Types' /\ InHand'
  <2>1. /\ at[w] = "stored" /\ at' = [at EXCEPT ![w] = "noting"]
        /\ doing' = [doing EXCEPT ![w].index = index]
        /\ UNCHANGED <<now, written, stored, index, setbacks, deaths>>
    BY <1>4 DEF NoteRead, bounds
  <2>2. /\ at' \in [Writers -> {"idle", "signed", "stored", "noting"}] /\ at'[w] = "noting"
        /\ doing' = [v \in Writers |-> [record |-> doing'[v].record, index |-> doing'[v].index]]
        /\ doing'[w].record = doing[w].record /\ doing'[w].index = index
    BY <2>1 DEF Types
  <2>3. Types'
    BY <2>1, <2>2 DEF Types
  <2>4. \A v \in Writers : v = w
    BY DEF OneWriter
  <2> QED
    BY <2>1, <2>2, <2>3, <2>4 DEF InHand
<1>5. ASSUME NEW w \in Writers, NoteWrite(w) PROVE Types' /\ InHand'
  <2>1. Types'
    <3>1. doing' = [v \in Writers |-> [record |-> doing'[v].record, index |-> doing'[v].index]]
      BY <1>5, Notes DEF Types
    <3>2. at' \in [Writers -> {"idle", "signed", "stored", "noting"}]
      BY <1>5, Notes DEF Types
    <3> QED
      BY <1>5, <3>1, <3>2, Notes DEF Types
  <2>2. \A v \in Writers : v = w
    BY DEF OneWriter
  <2>3. at'[w] = "idle"
    BY <1>5, Notes DEF Types
  <2> QED
    BY <2>1, <2>2, <2>3 DEF InHand
<1>6. ASSUME NEW w \in Writers, Die(w) PROVE Types' /\ InHand'
  <2>1. /\ now' = now + 1 /\ deaths' = deaths + 1 /\ at' = [at EXCEPT ![w] = "idle"]
        /\ doing' = [doing EXCEPT ![w] = [record |-> None, index |-> EmptyIndex]]
        /\ UNCHANGED <<written, stored, index, setbacks>>
    BY <1>6 DEF Die
  <2>2. at'[w] = "idle" /\ Types'
    <3>1. doing' = [v \in Writers |-> [record |-> doing'[v].record, index |-> doing'[v].index]]
      BY <2>1 DEF Types
    <3>2. at'[w] = "idle" /\ at' \in [Writers -> {"idle", "signed", "stored", "noting"}]
      BY <2>1 DEF Types
    <3>3. now' \in Nat /\ deaths' \in Nat
      BY <2>1 DEF Types
    <3> QED
      BY <2>1, <3>1, <3>2, <3>3 DEF Types
  <2>3. \A v \in Writers : v = w
    BY DEF OneWriter
  <2> QED
    BY <2>2, <2>3 DEF InHand
<1>7. ASSUME Tick \/ SetBack PROVE Types' /\ InHand'
  <2>1. now' \in Nat /\ setbacks' \in Nat /\ UNCHANGED <<writing, deaths>>
    BY <1>7 DEF Tick, SetBack, Types, bounds
  <2> QED
    BY <2>1 DEF Types, InHand, writing
<1> QED
  BY <1>1, <1>2, <1>3, <1>4, <1>5, <1>6, <1>7, NodeAside DEF Next, Write

\* Nothing is in hand at first.
LEMMA InitInHand == Init => Types /\ InHand
BY DEF Init, Types, InHand, EmptyIndex
-----------------------------------------------------------------------------
(* Every record reads later than those before it.                          *)

\* Every step keeps the order of the readings, and what the next one needs.
LEMMA FollowsStep ==
    ASSUME Types, InHand, OneWriter, Follows, [Next]_vars, OneAccident'
    PROVE  Follows'
<1>0. /\ Len(written) \in Nat /\ now \in Nat /\ setbacks \in Nat /\ deaths \in Nat
      /\ \A i \in 1..Len(written) : written[i].wall \in Nat /\ written[i].counter \in Nat
      /\ index.last # None => index.last.wall \in Nat /\ index.last.counter \in Nat
  <2>1. Len(written) \in Nat /\ \A i \in 1..Len(written) : written[i] \in Records
    BY DEF Types
  <2>2. index.last # None => index.last \in Readings
    BY DEF Types
  <2>3. now \in Nat /\ setbacks \in Nat /\ deaths \in Nat
    BY DEF Types
  <2> QED
    BY <2>1, <2>2, <2>3 DEF Records, Readings
<1>1. CASE Aside
  BY <1>1 DEF Aside, writing, Follows, Sorted, Kept, Clocked, Busy, Known, Past, OneAccident
<1>2. ASSUME NEW w \in Writers, Sign(w) PROVE Follows'
  <2> DEFINE n == Len(written)
             r == written'[n + 1]
  <2>1. /\ UNCHANGED <<now, index, setbacks, deaths>> /\ Len(written') = n + 1
        /\ \A i \in 1..n : written'[i] = written[i]
        /\ r \in Records /\ Reading(r) = NextReading(index.last, now)
    BY <1>2, Signs
  <2>2. ~Busy
    BY <1>2, Signs DEF Busy, OneWriter
  <2>3. Busy'
    BY <1>2, Signs DEF Busy, Types
  <2>4. /\ r.wall \in Nat /\ r.counter \in Nat
        /\ r.wall = NextReading(index.last, now).wall
        /\ index.last # None => Later(r, index.last)
    <3>1. r.wall = Reading(r).wall /\ r.counter = Reading(r).counter
      BY DEF Reading
    <3>2. r.wall \in Nat /\ r.counter \in Nat
      BY <2>1 DEF Records
    <3>3. index.last # None => Later(Reading(r), index.last)
      BY <2>1, NextIsLater DEF Types
    <3> QED
      BY <2>1, <3>1, <3>2, <3>3 DEF Later
  <2> HIDE DEF r
  <2>5. ASSUME NEW i \in 1..n PROVE Later(r, written[i])
    <3>1. CASE Known(i)
      BY <1>0, <2>4, <3>1, Order DEF Known
    <3>2. CASE Past(i)
      <4>1. now <= r.wall
        BY <1>0, <2>4, NextIsLater DEF Types
      <4> QED
        BY <1>0, <2>4, <3>2, <4>1 DEF Past, Later
    <3> QED
      BY <2>2, <3>1, <3>2 DEF Follows, Kept
  <2>6. Sorted'
    <3> SUFFICES ASSUME NEW i \in 1..n + 1, NEW j \in 1..n + 1, i < j
                 PROVE  Later(written'[j], written'[i])
      BY <2>1 DEF Sorted
    <3>1. CASE j = n + 1
      BY <1>0, <2>1, <2>5, <3>1 DEF r
    <3>2. CASE j # n + 1
      <4>1. i \in 1..n /\ j \in 1..n
        BY <1>0, <3>2
      <4>2. Later(written[j], written[i])
        BY <4>1 DEF Follows, Sorted
      <4> QED
        BY <2>1, <4>1, <4>2
    <3> QED
      BY <3>1, <3>2
  <2>7. Kept'
    <3> SUFFICES ASSUME NEW i \in 1..n + 1, i # n + 1 PROVE Known(i)' \/ Past(i)'
      BY <1>0, <2>1, <2>3 DEF Kept
    <3>1. i \in 1..n
      BY <1>0
    <3> QED
      BY <2>1, <2>2, <3>1 DEF Follows, Kept, Known, Past
  <2>8. Clocked'
    <3>1. setbacks = 0 => r.wall = now
      BY <2>4, NextIsLater DEF Types, Follows, Clocked
    <3> QED
      BY <1>0, <2>1, <3>1 DEF Follows, Clocked, r
  <2> QED
    BY <2>6, <2>7, <2>8 DEF Follows
<1>3. ASSUME NEW w \in Writers, PutFile(w) \/ NoteRead(w) PROVE Follows'
  <2>1. UNCHANGED <<now, written, index, setbacks, deaths>> /\ Busy' /\ Busy
    BY <1>3 DEF PutFile, NoteRead, bounds, Busy, Types
  <2> QED
    BY <2>1 DEF Follows, Sorted, Kept, Clocked, Known, Past
<1>4. ASSUME NEW w \in Writers, NoteWrite(w) PROVE Follows'
  <2> DEFINE n == Len(written)
             r == written[n]
  <2>1. UNCHANGED <<now, written, setbacks, deaths>> /\ n \in 1..n
    BY <1>4, Notes
  <2>2. index'.last = (IF index.last = None \/ Later(r, index.last) THEN Reading(r) ELSE index.last)
        /\ index'.last # None
    BY <1>4, Notes, NoneIsNoReading DEF Readings
  <2>3. \A a : (Later(a, Reading(r)) <=> Later(a, r)) /\ Reading(r).wall = r.wall
    BY DEF Later, Reading
  <2>4. ASSUME NEW i \in 1..n PROVE Known(i)' \/ Past(i)'
    <3>1. CASE Past(i)
      BY <2>1, <3>1 DEF Past
    <3>2. CASE Known(i) \/ i = n
      <4>1. CASE index.last = None \/ Later(r, index.last)
        <5>1. ~Later(written[i], r)
          BY <1>0, <2>1, Order DEF Follows, Sorted
        <5> QED
          BY <2>1, <2>2, <2>3, <4>1, <5>1 DEF Known
      <4>2. CASE ~(index.last = None \/ Later(r, index.last))
        BY <2>1, <2>2, <3>2, <4>2 DEF Known
      <4> QED
        BY <4>1, <4>2
    <3> QED
      BY <3>1, <3>2 DEF Follows, Kept
  <2>5. Clocked'
    BY <2>1, <2>2, <2>3 DEF Follows, Clocked
  <2> QED
    BY <2>1, <2>4, <2>5 DEF Follows, Sorted, Kept
<1>5. ASSUME NEW w \in Writers, Die(w) PROVE Follows'
  <2>1. now' = now + 1 /\ deaths' = deaths + 1 /\ UNCHANGED <<written, index, setbacks>>
    BY <1>5 DEF Die
  <2>2. setbacks = 0
    BY <1>0, <2>1 DEF OneAccident
  <2>3. \A i \in 1..Len(written) : written[i].wall < now' /\ deaths' > 0
    BY <1>0, <2>1, <2>2 DEF Follows, Clocked
  <2>4. Kept'
    BY <2>1, <2>3 DEF Kept, Past
  <2>5. Clocked'
    BY <1>0, <2>1 DEF Follows, Clocked
  <2> QED
    BY <2>1, <2>4, <2>5 DEF Follows, Sorted
<1>6. ASSUME Tick PROVE Follows'
  <2>1. now' = now + 1 /\ UNCHANGED <<writing, setbacks, deaths>>
    BY <1>6 DEF Tick, bounds
  <2> QED
    BY <1>0, <2>1 DEF writing, Follows, Sorted, Kept, Clocked, Busy, Known, Past
<1>7. ASSUME SetBack PROVE Follows'
  <2>1. setbacks' = setbacks + 1 /\ UNCHANGED <<writing, deaths>>
    BY <1>7 DEF SetBack
  <2>2. deaths = 0 /\ setbacks' # 0
    BY <1>0, <2>1 DEF OneAccident
  <2>3. Kept'
    BY <2>1, <2>2 DEF writing, Follows, Kept, Busy, Known, Past
  <2> QED
    BY <2>1, <2>2, <2>3 DEF writing, Follows, Sorted, Clocked
<1> QED
  BY <1>1, <1>2, <1>3, <1>4, <1>5, <1>6, <1>7, NodeAside DEF Next, Write

\* Accidents are not taken back.
LEMMA AccidentsStay == ASSUME Types, [Next]_vars, OneAccident' PROVE OneAccident
<1>1. CASE UNCHANGED <<setbacks, deaths>>
  BY <1>1 DEF OneAccident
<1>2. ASSUME SetBack PROVE OneAccident
  BY <1>2 DEF SetBack, Types, OneAccident
<1>3. ASSUME NEW w \in Writers, Die(w) PROVE OneAccident
  BY <1>3 DEF Die, Types, OneAccident
<1>4. ASSUME NEW w \in Writers, Sign(w) \/ PutFile(w) \/ NoteRead(w) \/ NoteWrite(w)
      PROVE  UNCHANGED <<setbacks, deaths>>
  BY <1>4 DEF Sign, PutFile, NoteRead, NoteWrite, bounds
<1>5. ASSUME Tick PROVE UNCHANGED <<setbacks, deaths>>
  BY <1>5 DEF Tick, bounds
<1> QED
  BY <1>1, <1>2, <1>3, <1>4, <1>5, NodeAside DEF Next, Write, Aside
-----------------------------------------------------------------------------
(* Where records go.                                                       *)

\* The order of the records is that of their ids.
LEMMA PrecedesIsLess ==
    ASSUME Types, Sorted, NEW i \in 1..Len(written), NEW j \in 1..Len(written)
    PROVE  /\ Precedes(i, j) <=> i < j
           /\ i # j => Reading(written[i]) # Reading(written[j])
<1>1. /\ written[i].wall \in Nat /\ written[i].counter \in Nat
      /\ written[j].wall \in Nat /\ written[j].counter \in Nat
  <2>1. written[i] \in Records /\ written[j] \in Records
    BY DEF Types
  <2> QED
    BY <2>1 DEF Records
<1>2. i < j => Later(written[j], written[i])
  BY DEF Sorted
<1>3. j < i => Later(written[i], written[j])
  BY DEF Sorted
<1>4. i \in Nat /\ j \in Nat
  BY DEF Types
<1>5. Later(written[j], written[i]) => Reading(written[i]) # Reading(written[j])
  BY <1>1 DEF Later, Reading
<1>6. Later(written[i], written[j]) =>
        ~Later(written[j], written[i]) /\ Reading(written[i]) # Reading(written[j])
  <2>1. Later(written[i], written[j]) => Reading(written[i]) # Reading(written[j])
    BY <1>1 DEF Later, Reading
  <2>2. Later(written[i], written[j]) => ~Later(written[j], written[i])
    BY <1>1, Order
  <2> QED
    BY <2>1, <2>2
<1>7. i = j => ~Later(written[j], written[i])
  BY <1>1 DEF Later
<1> QED
  BY <1>2, <1>3, <1>4, <1>5, <1>6, <1>7 DEF Precedes

\* What Cut says of one record.
Placed(segment, ids, id) ==
    LET before == {other \in ids : Precedes(other, id)}
        newest == CHOOSE j \in before : \A k \in before \ {j} : Precedes(k, j)
        open   == {j \in before : segment[j] = segment[newest]}
        oldest == CHOOSE j \in open : \A k \in open \ {j} : Precedes(j, k)
    IN  IF before = {} THEN 0
        ELSE segment[newest]
             + (IF ShouldSeal(oldest, newest, Cardinality(open)) THEN 1 ELSE 0)

\* It is what Steps says of it.
LEMMA Filing ==
    ASSUME Types, Sorted, NEW ids \in SUBSET (1..Len(written)), NEW id \in ids,
           NEW segment \in [ids -> Nat]
    PROVE  Steps(segment, Before(id, ids), Placed(segment, ids, id))
<1> DEFINE before == {other \in ids : Precedes(other, id)}
           newest == CHOOSE j \in before : \A k \in before \ {j} : Precedes(k, j)
           open   == {j \in before : segment[j] = segment[newest]}
           oldest == CHOOSE j \in open : \A k \in open \ {j} : Precedes(j, k)
           n      == Placed(segment, ids, id)
<1>1. before = Before(id, ids) /\ before \subseteq 1..Len(written)
  <2>1. \A other \in ids : Precedes(other, id) <=> other < id
    BY PrecedesIsLess
  <2> QED
    BY <2>1 DEF Before
<1>2. CASE before = {}
  <2>1. n = 0
    BY <1>2 DEF Placed
  <2> QED
    BY <1>1, <1>2, <2>1 DEF Steps
<1>3. CASE before # {}
  <2>0. Len(written) \in Nat
    BY DEF Types
  <2>1. n = segment[newest] + (IF ShouldSeal(oldest, newest, Cardinality(open)) THEN 1 ELSE 0)
    BY <1>3, Zenon DEF Placed
  <2> HIDE DEF n, before
  <2>2. PICK m \in before : \A k \in before : k <= m
    BY <1>1, <1>3, <2>0, Greatest
  <2>3. \A k \in before \ {m} : Precedes(k, m)
    BY <1>1, <2>2, PrecedesIsLess
  <2>4. newest \in before /\ \A k \in before \ {newest} : Precedes(k, newest)
    BY <2>3, Zenon
  <2> HIDE DEF newest
  <2>5. \A k \in before : k <= newest
    BY <1>1, <2>4, PrecedesIsLess
  <2>6. open # {} /\ open \subseteq before
    BY <2>4
  <2>7. \A j \in open : segment[j] = segment[newest]
    OBVIOUS
  <2>8. \A j \in before : segment[j] = segment[newest] => j \in open
    OBVIOUS
  <2>9. open = {j \in before : segment[j] = segment[newest]}
    OBVIOUS
  <2> HIDE DEF open
  <2>10. PICK o \in open : \A k \in open : o <= k
    <3>1. open \subseteq Nat
      BY <1>1, <2>6
    <3> QED
      BY <2>6, <3>1, Least
  <2>11. \A k \in open \ {o} : Precedes(o, k)
    BY <1>1, <2>6, <2>10, PrecedesIsLess
  <2>12. oldest \in open /\ \A k \in open \ {oldest} : Precedes(oldest, k)
    BY <2>11, Zenon
  <2> HIDE DEF oldest
  <2>13. \A k \in open : oldest <= k
    BY <1>1, <2>6, <2>12, PrecedesIsLess
  <2>14. oldest \in before /\ segment[oldest] = segment[newest]
         /\ \A k \in before : segment[k] = segment[newest] => oldest <= k
    BY <2>6, <2>7, <2>8, <2>12, <2>13
  <2>15. Steps(segment, before, n)
    BY <2>1, <2>4, <2>5, <2>9, <2>14 DEF Steps
  <2> QED
    BY <1>1, <2>15 DEF n
<1> QED
  BY <1>2, <1>3

\* It is decided by the records before it.
LEMMA StepsOnce ==
    ASSUME NEW before, before \subseteq Nat, NEW s, NEW t, \A j \in before : s[j] = t[j],
           NEW m, NEW n, Steps(s, before, m), Steps(t, before, n)
    PROVE  m = n
<1>1. CASE before = {}
  BY <1>1 DEF Steps
<1>2. CASE before # {}
  <2>1. PICK a \in before, b \in before :
          /\ \A k \in before : k <= a
          /\ s[b] = s[a]
          /\ \A k \in before : s[k] = s[a] => b <= k
          /\ m = s[a] + (IF ShouldSeal(b, a, Cardinality({j \in before : s[j] = s[a]})) THEN 1 ELSE 0)
    BY <1>2 DEF Steps
  <2>2. PICK c \in before, d \in before :
          /\ \A k \in before : k <= c
          /\ t[d] = t[c]
          /\ \A k \in before : t[k] = t[c] => d <= k
          /\ n = t[c] + (IF ShouldSeal(d, c, Cardinality({j \in before : t[j] = t[c]})) THEN 1 ELSE 0)
    BY <1>2 DEF Steps
  <2>3. a = c
    <3>1. a <= c /\ c <= a /\ a \in Nat /\ c \in Nat
      BY <2>1, <2>2
    <3> QED
      BY <3>1
  <2>4. s[a] = t[c] /\ {j \in before : s[j] = s[a]} = {j \in before : t[j] = t[c]}
    BY <2>3
  <2>5. b = d
    <3>1. s[d] = s[a] /\ t[b] = t[c]
      BY <2>1, <2>2, <2>3
    <3>2. b <= d /\ d <= b /\ b \in Nat /\ d \in Nat
      BY <2>1, <2>2, <3>1
    <3> QED
      BY <3>2
  <2> QED
    BY <2>1, <2>2, <2>3, <2>4, <2>5
<1> QED
  BY <1>1, <1>2

\* There is a place for every record: the segment of the newest before it, or the next.
LEMMA StepsOn ==
    ASSUME NEW bound \in Nat, NEW before, before \subseteq 1..bound, NEW size \in Nat,
           NEW segment \in [before -> 0..size - 1]
    PROVE  \E n \in 0..size : Steps(segment, before, n)
<1>1. CASE before = {}
  BY <1>1 DEF Steps
<1>2. CASE before # {}
  <2>1. PICK m \in before : \A k \in before : k <= m
    BY <1>2, Greatest
  <2> DEFINE open == {j \in before : segment[j] = segment[m]}
  <2>2. open # {} /\ open \subseteq Nat
    <3>1. m \in open /\ before \subseteq Nat
      OBVIOUS
    <3> QED
      BY <3>1
  <2>3. PICK o \in open : \A k \in open : o <= k
    <3> HIDE DEF open
    <3> QED
      BY <2>2, Least
  <2> DEFINE n == segment[m] + (IF ShouldSeal(o, m, Cardinality(open)) THEN 1 ELSE 0)
  <2>4. segment[m] \in 0..size - 1
    OBVIOUS
  <2>5. n \in 0..size
    BY <2>4
  <2>6. Steps(segment, before, n)
    BY <2>1, <2>3 DEF Steps
  <2> QED
    BY <2>5, <2>6
<1> QED
  BY <1>1, <1>2

\* Only what is before a record matters for its place.
LEMMA StepsAgree ==
    ASSUME NEW before, NEW s, NEW t, \A j \in before : s[j] = t[j], NEW n, Steps(s, before, n)
    PROVE  Steps(t, before, n)
<1>1. CASE before = {}
  BY <1>1 DEF Steps
<1>2. CASE before # {}
  <2>1. PICK a \in before, b \in before :
          /\ \A k \in before : k <= a
          /\ s[b] = s[a]
          /\ \A k \in before : s[k] = s[a] => b <= k
          /\ n = s[a] + (IF ShouldSeal(b, a, Cardinality({j \in before : s[j] = s[a]})) THEN 1 ELSE 0)
    BY <1>2 DEF Steps
  <2>2. s[a] = t[a] /\ t[b] = t[a]
        /\ {j \in before : s[j] = s[a]} = {j \in before : t[j] = t[a]}
        /\ \A k \in before : t[k] = t[a] => b <= k
    BY <2>1
  <2> QED
    BY <2>1, <2>2 DEF Steps
<1> QED
  BY <1>1, <1>2

\* The same for all records of a set.
LEMMA CutsAgree ==
    ASSUME NEW A \in SUBSET Nat, NEW B \in SUBSET A,
           \A b \in B : \A a \in A : a < b => a \in B,
           NEW s, NEW t, Cuts(s, B), Cuts(t, A)
    PROVE  \A b \in B : s[b] = t[b]
<1> DEFINE bad == {b \in B : s[b] # t[b]}
<1> SUFFICES ASSUME bad # {} PROVE FALSE
  OBVIOUS
<1>1. bad \subseteq Nat
  OBVIOUS
<1>2. PICK b \in bad : \A c \in bad : b <= c
  <2> HIDE DEF bad
  <2> QED
    BY <1>1, Least
<1>3. b \in B /\ b \in A /\ b \in Nat
  OBVIOUS
<1>4. Before(b, A) = Before(b, B) /\ Before(b, B) \subseteq Nat
  BY <1>3 DEF Before
<1>5. \A j \in Before(b, B) : s[j] = t[j]
  <2> TAKE j \in Before(b, B)
  <2>1. j \in B /\ j < b /\ j \in Nat
    BY DEF Before
  <2>2. ~(b <= j)
    BY <1>3, <2>1
  <2> QED
    BY <1>2, <2>1, <2>2
<1>6. Steps(s, Before(b, B), s[b]) /\ Steps(t, Before(b, B), t[b])
  BY <1>3, <1>4 DEF Cuts
<1>7. s[b] = t[b]
  BY <1>4, <1>5, <1>6, StepsOnce
<1> QED
  BY <1>2, <1>7

\* Later records go to later segments, or to the same.
LEMMA CutsClimb ==
    ASSUME NEW A, A \subseteq Nat, NEW t, Cuts(t, A), NEW i \in A, NEW j \in A, i < j
    PROVE  t[i] <= t[j]
<1> DEFINE bad == {b \in A : i < b /\ ~(t[i] <= t[b])}
<1> SUFFICES ASSUME bad # {} PROVE FALSE
  OBVIOUS
<1>1. bad \subseteq Nat
  OBVIOUS
<1>2. PICK b \in bad : \A c \in bad : b <= c
  <2> HIDE DEF bad
  <2> QED
    BY <1>1, Least
<1>3. b \in A /\ i < b /\ b \in Nat /\ i \in Nat /\ ~(t[i] <= t[b])
  OBVIOUS
<1>4. i \in Before(b, A)
  BY <1>3 DEF Before
<1>5. Steps(t, Before(b, A), t[b])
  BY <1>3 DEF Cuts
<1>6. PICK m \in Before(b, A), o \in Before(b, A) :
        /\ \A k \in Before(b, A) : k <= m
        /\ t[b] = t[m]
             + (IF ShouldSeal(o, m, Cardinality({x \in Before(b, A) : t[x] = t[m]})) THEN 1 ELSE 0)
  BY <1>4, <1>5 DEF Steps
<1>7. m \in A /\ m < b /\ m \in Nat /\ i <= m
  BY <1>4, <1>6 DEF Before
<1>8. t[i] \in Nat /\ t[m] \in Nat /\ t[b] \in Nat
  BY <1>3, <1>7 DEF Cuts
<1>9. t[m] <= t[b]
  BY <1>6, <1>8
<1>10. ~(b <= m)
  BY <1>3, <1>7
<1>11. i = m \/ t[i] <= t[m]
  BY <1>2, <1>3, <1>7, <1>10
<1> QED
  BY <1>3, <1>8, <1>9, <1>11

\* Any records can be cut into segments, in no more of them than there are records.
LEMMA CutsExist ==
    ASSUME NEW n \in Nat, NEW ids \in SUBSET (1..n)
    PROVE  \E s \in [ids -> 0..Cardinality(ids) - 1] : Cuts(s, ids)
<1> DEFINE Upto(k) == {i \in ids : i <= k}
           Cuttable(k) == \E s \in [Upto(k) -> 0..Cardinality(Upto(k)) - 1] : Cuts(s, Upto(k))
           bad == {k \in 0..n : ~Cuttable(k)}
<1>0. \A i \in ids : i \in Nat /\ 1 <= i /\ i <= n
  OBVIOUS
<1>1. ASSUME NEW k \in 0..n PROVE IsFiniteSet(Upto(k)) /\ Cardinality(Upto(k)) \in Nat
  <2>1. Upto(k) \in SUBSET (1..n)
    OBVIOUS
  <2>2. IsFiniteSet(1..n)
    BY FS_Interval
  <2> HIDE DEF Upto
  <2> QED
    BY <2>1, <2>2, FS_Subset, FS_CardinalityType
<1>2. Cuttable(0)
  <2>1. Upto(0) = {}
    <3>1. \A i \in ids : ~(i <= 0)
      BY <1>0
    <3> QED
      BY <3>1
  <2>2. [x \in {} |-> 0] \in [{} -> 0..Cardinality({}) - 1] /\ Cuts([x \in {} |-> 0], {})
    BY DEF Cuts
  <2> HIDE DEF Upto
  <2> QED
    BY <2>1, <2>2
<1>3. ASSUME NEW k \in 1..n, Cuttable(k - 1) PROVE Cuttable(k)
  <2> DEFINE P == Upto(k - 1)
  <2>0. k - 1 \in 0..n /\ k \in 0..n
    OBVIOUS
  <2>1. CASE k \notin ids
    <3>1. Upto(k) = P
      <4>1. \A i \in ids : i <= k <=> i <= k - 1
        BY <1>0, <2>1
      <4> QED
        BY <4>1
    <3> HIDE DEF Upto
    <3> QED
      BY <1>3, <3>1
  <2>2. CASE k \in ids
    <3>1. PICK s \in [P -> 0..Cardinality(P) - 1] : Cuts(s, P)
      BY <1>3
    <3>2. P \subseteq 1..n /\ k \notin P /\ Upto(k) = P \cup {k}
      <4>1. \A i \in ids : i <= k <=> i <= k - 1 \/ i = k
        BY <1>0
      <4>2. k <= k /\ ~(k <= k - 1)
        OBVIOUS
      <4> QED
        BY <2>2, <4>1, <4>2
    <3>3. IsFiniteSet(P) /\ Cardinality(P) \in Nat
      BY <1>1, <2>0
    <3> HIDE DEF P, Upto
    <3>4. PICK v \in 0..Cardinality(P) : Steps(s, P, v)
      BY <3>1, <3>2, <3>3, StepsOn
    <3>5. Cardinality(Upto(k)) = Cardinality(P) + 1
      BY <3>2, <3>3, FS_AddElement
    <3> DEFINE t == [x \in Upto(k) |-> IF x = k THEN v ELSE s[x]]
    <3>6. t[k] = v /\ \A x \in P : t[x] = s[x]
      BY <3>2
    <3>7. t \in [Upto(k) -> 0..Cardinality(Upto(k)) - 1]
      <4>1. \A x \in P : s[x] \in 0..Cardinality(P)
        BY <3>3, <3>1
      <4>2. Cardinality(Upto(k)) - 1 = Cardinality(P)
        BY <3>3, <3>5
      <4> QED
        BY <3>2, <3>4, <4>1, <4>2
    <3> HIDE DEF t
    <3>8. \A x \in P : Before(x, Upto(k)) = Before(x, P) /\ Before(x, P) \subseteq P
      <4>1. \A x \in P : ~(k < x)
        BY <2>0 DEF P, Upto
      <4> QED
        BY <3>2, <4>1 DEF Before
    <3>9. Before(k, Upto(k)) = P
      <4>1. \A x \in P : x < k
        BY <3>2 DEF P, Upto
      <4>2. ~(k < k)
        OBVIOUS
      <4>3. \A x \in Upto(k) : x < k <=> x \in P
        BY <3>2, <4>1, <4>2
      <4>4. P \subseteq Upto(k)
        BY <3>2
      <4> QED
        BY <4>3, <4>4 DEF Before
    <3>10. \A id \in Upto(k) : Steps(t, Before(id, Upto(k)), t[id])
      <4>1. Steps(t, Before(k, Upto(k)), t[k])
        BY <3>4, <3>6, <3>9, StepsAgree
      <4>2. ASSUME NEW x \in P PROVE Steps(t, Before(x, Upto(k)), t[x])
        <5>1. Steps(s, Before(x, P), s[x])
          BY <3>1 DEF Cuts
        <5>2. \A j \in Before(x, P) : s[j] = t[j]
          BY <3>6, <3>8
        <5>3. Steps(t, Before(x, P), s[x])
          BY <5>1, <5>2, StepsAgree
        <5> QED
          BY <3>6, <3>8, <5>3
      <4> QED
        BY <3>2, <4>1, <4>2
    <3>11. t \in [Upto(k) -> Nat]
      BY <3>3, <3>5, <3>7
    <3>12. Cuts(t, Upto(k))
      BY <3>10, <3>11 DEF Cuts
    <3> QED
      BY <3>7, <3>12
  <2> QED
    BY <2>1, <2>2
<1>4. bad = {}
  <2> SUFFICES ASSUME bad # {} PROVE FALSE
    OBVIOUS
  <2>1. bad \subseteq Nat
    OBVIOUS
  <2>2. PICK k \in bad : \A c \in bad : k <= c
    <3> HIDE DEF bad
    <3> QED
      BY <2>1, Least
  <2>3. k \in 0..n /\ ~Cuttable(k)
    OBVIOUS
  <2> HIDE DEF Cuttable
  <2>4. k # 0
    BY <1>2, <2>3
  <2>5. k \in 1..n /\ k - 1 \in 0..n /\ ~(k <= k - 1)
    BY <2>3, <2>4
  <2>6. Cuttable(k - 1)
    BY <2>2, <2>5
  <2> QED
    BY <1>3, <2>3, <2>5, <2>6
<1>5. Cuttable(n)
  <2> HIDE DEF Cuttable
  <2> QED
    BY <1>4
<1>6. Upto(n) = ids
  BY <1>0
<1> HIDE DEF Upto
<1> QED
  BY <1>5, <1>6

\* What Cut makes of stored records cuts them.
LEMMA CutCuts ==
    ASSUME Types, Sorted, NEW ids \in SUBSET (1..Len(written))
    PROVE  Cuts(Cut(ids), ids)
<1> DEFINE Right(s) == \A id \in ids : s[id] = Placed(s, ids, id)
<1>1. Cut(ids) = CHOOSE s \in [ids -> 0..(Cardinality(ids) - 1)] : Right(s)
  BY Zenon DEF Cut, Placed
<1>0. PICK n \in Nat : n = Len(written)
  BY DEF Types
<1>2. PICK s \in [ids -> 0..Cardinality(ids) - 1] : Cuts(s, ids)
  BY <1>0, CutsExist
<1>3. s \in [ids -> Nat]
  BY <1>2 DEF Cuts
<1>4. ASSUME NEW id \in ids PROVE s[id] = Placed(s, ids, id)
  <2>1. Steps(s, Before(id, ids), Placed(s, ids, id))
    BY <1>3, Filing
  <2>2. Steps(s, Before(id, ids), s[id])
    BY <1>2 DEF Cuts
  <2>3. Before(id, ids) \subseteq Nat
    BY DEF Before, Types
  <2> QED
    BY <2>1, <2>2, <2>3, StepsOnce
<1>5. Right(s)
  BY <1>4
<1> HIDE DEF Right
<1>6. Cut(ids) \in [ids -> 0..(Cardinality(ids) - 1)] /\ Right(Cut(ids))
  BY <1>1, <1>2, <1>5, Zenon
<1>7. Cut(ids) \in [ids -> Nat]
  <2>1. 0..(Cardinality(ids) - 1) \subseteq Nat
    <3>1. IsFiniteSet(1..n)
      BY FS_Interval
    <3>2. IsFiniteSet(ids) /\ Cardinality(ids) \in Nat
      BY <1>0, <3>1, FS_Subset, FS_CardinalityType
    <3> QED
      BY <3>2
  <2> QED
    BY <1>6, <2>1
<1>8. ASSUME NEW id \in ids PROVE Steps(Cut(ids), Before(id, ids), Cut(ids)[id])
  <2>1. Cut(ids)[id] = Placed(Cut(ids), ids, id)
    BY <1>6 DEF Right
  <2>2. Steps(Cut(ids), Before(id, ids), Placed(Cut(ids), ids, id))
    BY <1>7, Filing
  <2> QED
    BY <2>1, <2>2
<1> QED
  BY <1>7, <1>8 DEF Cuts
-----------------------------------------------------------------------------
(* The published chain.                                                    *)

\* Signing another record moves none of those before it.
LEMMA CutsStay ==
    ASSUME NEW ids, \A i \in ids : written'[i] = written[i], NEW segment, Cuts(segment, ids)
    PROVE  Cuts(segment, ids)'
<1>1. ASSUME NEW id \in ids PROVE Steps(segment, Before(id, ids), segment[id])'
  <2> DEFINE before == Before(id, ids)
  <2>1. Steps(segment, before, segment[id]) /\ before \subseteq ids
    BY DEF Cuts, Before
  <2>2. \A o, m \in before : \A n : ShouldSeal(o, m, n)' <=> ShouldSeal(o, m, n)
    BY <2>1 DEF ShouldSeal
  <2>3. Before(id, ids)' = before
    BY DEF Before
  <2> HIDE DEF before
  <2>4. CASE before = {} /\ segment[id] = 0
    BY <2>3, <2>4 DEF Steps
  <2>5. CASE ~(before = {} /\ segment[id] = 0)
    <3>1. PICK m \in before, o \in before :
            /\ \A k \in before : k <= m
            /\ segment[o] = segment[m]
            /\ \A k \in before : segment[k] = segment[m] => o <= k
            /\ segment[id] = segment[m]
                 + (IF ShouldSeal(o, m, Cardinality({j \in before : segment[j] = segment[m]}))
                    THEN 1 ELSE 0)
      BY <2>1, <2>5 DEF Steps
    <3>2. ShouldSeal(o, m, Cardinality({j \in before : segment[j] = segment[m]}))'
            <=> ShouldSeal(o, m, Cardinality({j \in before : segment[j] = segment[m]}))
      BY <2>2
    <3> QED
      BY <2>3, <3>1, <3>2 DEF Steps
  <2> QED
    BY <2>4, <2>5
<1> QED
  BY <1>1 DEF Cuts

\* The same of the chain that is published then.
LEMMA ChainStays ==
    ASSUME \A i \in DOMAIN chain' : written'[i] = written[i], Cuts(chain', DOMAIN chain')
    PROVE  Cuts(chain, DOMAIN chain)'
<1>1. PICK segment, ids : segment = chain' /\ ids = DOMAIN chain'
  OBVIOUS
<1>2. Cuts(segment, ids)'
  BY <1>1, CutsStay
<1> QED
  BY <1>1, <1>2

\* A new record comes after all that are published.
LEMMA PublishedStep ==
    ASSUME Types, InHand, OneWriter, Sorted, Published, [Next]_vars
    PROVE  Published'
<1>1. CASE UNCHANGED <<written, stored, chain>>
  BY <1>1, ChainStays DEF Published
<1>2. ASSUME NEW w \in Writers, Sign(w) PROVE Published'
  <2>1. UNCHANGED <<stored, chain>> /\ \A i \in 1..Len(written) : written'[i] = written[i]
    BY <1>2, Signs
  <2>2. \A i \in DOMAIN chain : written'[i] = written[i]
    BY <2>1 DEF Published, Types
  <2>3. Cuts(chain, DOMAIN chain)'
    BY <2>1, <2>2, ChainStays DEF Published
  <2> QED
    BY <2>1, <2>3 DEF Published
<1>3. ASSUME NEW w \in Writers, PutFile(w) PROVE Published'
  <2>1. /\ at[w] = "signed" /\ stored' = stored \cup {doing[w].record}
        /\ UNCHANGED <<written, chain>>
    BY <1>3 DEF PutFile, publishing
  <2>2. doing[w].record = Len(written) /\ Len(written) \in Nat /\ stored \subseteq 1..Len(written)
    BY <2>1 DEF InHand, Types
  <2>3. \A head \in DOMAIN chain : ~(Len(written) < head)
    <3>1. DOMAIN chain \subseteq 1..Len(written)
      BY <2>2 DEF Published
    <3>2. \A head \in 1..Len(written) : ~(Len(written) < head)
      BY <2>2
    <3> QED
      BY <3>1, <3>2
  <2>4. Cuts(chain, DOMAIN chain)'
    BY <2>1, ChainStays DEF Published
  <2> QED
    BY <2>1, <2>2, <2>3, <2>4 DEF Published
<1>4. ASSUME PassReplay PROVE Published'
  <2>1. UNCHANGED <<written, stored>> /\ (chain' = Cut(stored) \/ chain' = chain)
    BY <1>4 DEF PassReplay, writing
  <2>2. CASE chain' = Cut(stored)
    <3>1. Cuts(chain', stored)
      BY <2>2, CutCuts DEF Types
    <3>2. DOMAIN chain' = stored
      BY <3>1 DEF Cuts
    <3>3. Cuts(chain, DOMAIN chain)'
      BY <2>1, <3>1, <3>2, ChainStays
    <3> QED
      BY <2>1, <3>2, <3>3 DEF Published
  <2> QED
    BY <1>1, <2>1, <2>2
<1>5. ASSUME NEW w \in Writers, NoteRead(w) \/ NoteWrite(w) \/ Die(w)
      PROVE  UNCHANGED <<written, stored, chain>>
  BY <1>5 DEF NoteRead, NoteWrite, Die, publishing
<1>6. ASSUME PassBegin \/ MarkThrough \/ MarkAnnounced \/ AnnouncementAges \/ NodeRestarts
             \/ Tick \/ SetBack \/ UNCHANGED vars
      PROVE  UNCHANGED <<written, stored, chain>>
  BY <1>6 DEF PassBegin, MarkThrough, MarkAnnounced, AnnouncementAges, NodeRestarts, Tick,
              SetBack, vars, writing, publishing
<1> QED
  BY <1>1, <1>2, <1>3, <1>4, <1>5, <1>6 DEF Next, Write, Pass

\* What a step may do to the published chain.
LEMMA SealedStep ==
    ASSUME Types, Sorted, Published, [Next]_vars
    PROVE  \A head \in DOMAIN chain, id \in 1..MaxRecords :
             /\ id \in DOMAIN chain /\ chain[id] < chain[head] =>
                    id \in DOMAIN chain' /\ chain'[id] = chain[id]
             /\ id \in DOMAIN chain' /\ chain'[id] < chain[head] => id \in DOMAIN chain
<1>1. CASE chain' = chain
  BY <1>1
<1>2. CASE PassReplay /\ chain' = Cut(stored)
  <2>1. Cuts(chain', stored) /\ Cuts(chain, DOMAIN chain)
    BY <1>2, CutCuts DEF Types, Published
  <2>2. DOMAIN chain' = stored /\ stored \subseteq Nat /\ DOMAIN chain \subseteq stored
        /\ \A i \in stored : chain'[i] \in Nat
    BY <2>1 DEF Cuts, Types, Published
  <2>3. \A b \in DOMAIN chain, a \in stored : a < b => a \in DOMAIN chain
    BY DEF Published
  <2>4. PICK s : s = chain
    OBVIOUS
  <2>5. PICK t : t = chain'
    OBVIOUS
  <2>6. \A b \in DOMAIN chain : s[b] = t[b]
    <3>1. PICK A, B : A = stored /\ B = DOMAIN chain
      OBVIOUS
    <3>2. A \in SUBSET Nat /\ B \in SUBSET A /\ \A b \in B : \A a \in A : a < b => a \in B
      BY <2>2, <2>3, <3>1
    <3>3. Cuts(s, B) /\ Cuts(t, A)
      BY <2>1, <2>4, <2>5, <3>1
    <3>4. \A b \in B : s[b] = t[b]
      BY <3>2, <3>3, CutsAgree
    <3> QED
      BY <3>1, <3>4
  <2>7. ASSUME NEW head \in DOMAIN chain, NEW id \in stored, id \notin DOMAIN chain
        PROVE  ~(chain'[id] < chain[head])
    <3>1. head < id
      <4>1. head \in Nat /\ id \in Nat /\ head # id
        BY <2>2, <2>7
      <4>2. ~(id < head)
        BY <2>7 DEF Published
      <4> QED
        BY <4>1, <4>2
    <3>2. t[head] <= t[id]
      BY <2>1, <2>2, <2>5, <3>1, CutsClimb
    <3>3. s[head] = t[head] /\ t[head] \in Nat /\ t[id] \in Nat
      BY <2>2, <2>5, <2>6
    <3>4. ~(t[id] < s[head])
      BY <3>2, <3>3
    <3> QED
      BY <2>4, <2>5, <3>4
  <2> QED
    BY <2>2, <2>4, <2>5, <2>6, <2>7
<1>3. ASSUME NEW w \in Writers, Write(w) \/ Die(w) PROVE chain' = chain
  BY <1>3 DEF Write, Sign, PutFile, NoteRead, NoteWrite, Die, publishing
<1>4. ASSUME PassBegin \/ MarkThrough \/ MarkAnnounced \/ AnnouncementAges \/ NodeRestarts
             \/ Tick \/ SetBack \/ UNCHANGED vars
      PROVE  chain' = chain
  BY <1>4 DEF PassBegin, MarkThrough, MarkAnnounced, AnnouncementAges, NodeRestarts, Tick,
              SetBack, vars, publishing
<1>5. ASSUME PassReplay PROVE chain' = Cut(stored) \/ chain' = chain
  BY <1>5 DEF PassReplay
<1> QED
  BY <1>1, <1>2, <1>3, <1>4, <1>5 DEF Next, Pass

\* Records that read one after the other append one after the other.
LEMMA SortedIsPushable == ASSUME Types, Sorted PROVE AlwaysPushable
<1>1. DOMAIN Cut(stored) = stored /\ stored \subseteq 1..Len(written)
  BY CutCuts DEF Types, Cuts
<1> QED
  BY <1>1, PrecedesIsLess DEF AlwaysPushable, Pushable

Sound == Types /\ InHand /\ (OneAccident => Follows /\ Published)

\* At first nothing is signed, stored or published.
LEMMA InitSound == Init => Sound
<1> SUFFICES ASSUME Init PROVE Sound
  OBVIOUS
<1>1. Follows
  BY DEF Init, EmptyIndex, Follows, Sorted, Kept, Clocked
<1>2. Published
  BY DEF Init, Published, Cuts
<1> QED
  BY <1>1, <1>2, InitInHand DEF Sound

\* Every step keeps what the theorems rest on.
LEMMA SoundStep == ASSUME OneWriter, Sound, [Next]_vars PROVE Sound'
<1>1. Types' /\ InHand'
  BY InHandStep DEF Sound
<1>2. ASSUME OneAccident' PROVE Follows' /\ Published'
  <2>1. Follows /\ Published
    BY <1>2, AccidentsStay DEF Sound
  <2> QED
    BY <1>2, <2>1, FollowsStep, PublishedStep DEF Sound, Follows
<1> QED
  BY <1>1, <1>2 DEF Sound

\* What one writer stores can always be published (see AlwaysPushable), for any number
\* of records, through any number of deaths, or of clocks set back.
THEOREM EveryPassAppends ==
    ASSUME OneWriter PROVE Spec => [](OneAccident => AlwaysPushable)
<1>1. Sound /\ [Next]_vars => Sound'
  BY SoundStep
<1>2. Sound => (OneAccident => AlwaysPushable)
  BY SortedIsPushable DEF Sound, Follows
<1> QED
  BY <1>1, <1>2, InitSound, PTL DEF Spec

\* A segment of one writer's that was sealed stays as it is (see SealedForGood).
THEOREM SealsHold ==
    ASSUME OneWriter PROVE Spec /\ []OneAccident => SealedForGood
<1>1. Sound /\ [Next]_vars => Sound'
  BY SoundStep
<1>2. ASSUME Sound, OneAccident, [Next]_vars
      PROVE  [\A head \in DOMAIN chain, id \in 1..MaxRecords :
                /\ id \in DOMAIN chain /\ chain[id] < chain[head] =>
                       id \in DOMAIN chain' /\ chain'[id] = chain[id]
                /\ id \in DOMAIN chain' /\ chain'[id] < chain[head] => id \in DOMAIN chain]_vars
  BY <1>2, SealedStep DEF Sound, Follows
<1> QED
  BY <1>1, <1>2, InitSound, PTL DEF Spec, SealedForGood
-----------------------------------------------------------------------------
(* No reader withholds what the writer's own check let through.            *)

\* Pruning readings that are in order leaves the newest of them.
LEMMA PruneKeeps ==
    ASSUME NEW size \in Nat, size >= 1, NEW recent, DOMAIN recent = 1..size,
           \A n \in 1..size : recent[n].wall \in Nat,
           \A m, n \in 1..size : m < n => recent[m].wall <= recent[n].wall
    PROVE  \E d \in 0..size :
             /\ Prune(recent) = [k \in 1..size - d |-> recent[d + k]]
             /\ size - d <= MaxRecent
             /\ d > 0 => \/ recent[d].wall < recent[size].wall - KeptWindow
                         \/ size - d = MaxRecent
<1> DEFINE kept  == {n \in DOMAIN recent : \A m \in DOMAIN recent :
                         recent[n].wall >= recent[m].wall - KeptWindow}
           After(n) == Cardinality({m \in kept : m > n})
           room  == IF Cardinality(kept) <= MaxRecent THEN Cardinality(kept) ELSE MaxRecent
           Nth(k) == CHOOSE n \in kept : After(n) = room - k
<1>0. KeptWindow \in Nat /\ MaxRecent \in Nat
  BY KeptIsWider
<1>1. \A n \in 1..size : n \in kept <=> recent[n].wall >= recent[size].wall - KeptWindow
  <2>1. \A m \in 1..size : recent[m].wall <= recent[size].wall
    <3>1. \A m \in 1..size : m = size \/ m < size
      OBVIOUS
    <3> QED
      BY <3>1
  <2> QED
    BY <1>0, <2>1
<1>2. kept \subseteq 1..size
  OBVIOUS
<1> HIDE DEF kept
<1>3. PICK e \in 1..size : /\ kept = e..size
                           /\ e > 1 => recent[e - 1].wall < recent[size].wall - KeptWindow
  <2>1. size \in kept
    BY <1>0, <1>1
  <2>2. PICK e \in kept : \A n \in kept : e <= n
    <3>1. kept \subseteq Nat /\ kept # {}
      BY <1>2, <2>1
    <3> QED
      BY <3>1, Least
  <2>3. \A n \in e..size : n \in kept
    <3> SUFFICES ASSUME NEW n \in e..size PROVE n \in kept
      OBVIOUS
    <3>1. n \in 1..size /\ e \in 1..size /\ (e = n \/ e < n)
      BY <1>2, <2>2
    <3>2. recent[e].wall <= recent[n].wall
      BY <3>1
    <3> QED
      BY <1>0, <1>1, <2>2, <3>1, <3>2
  <2>4. kept = e..size
    <3>1. \A n \in kept : n \in e..size
      BY <1>2, <2>2
    <3> QED
      BY <2>3, <3>1
  <2>5. e > 1 => e - 1 \in 1..size /\ e - 1 \notin kept
    BY <1>2, <2>2
  <2> QED
    BY <1>0, <1>1, <1>2, <2>1, <2>4, <2>5
<1> DEFINE d == size - room
<1>4. Cardinality(kept) = size - e + 1
  BY <1>3, FS_Interval
<1>5. /\ d \in 0..size /\ size - d <= MaxRecent /\ e - 1 <= d /\ room = size - d
      /\ d > 0 => (d = e - 1 /\ e > 1) \/ size - d = MaxRecent
  BY <1>0, <1>4
<1> HIDE DEF room, d
<1>6. \A n \in e..size : After(n) = size - n
  <2> SUFFICES ASSUME NEW n \in e..size PROVE After(n) = size - n
    OBVIOUS
  <2>1. {m \in kept : m > n} = n + 1..size
    BY <1>3
  <2>2. n \in Int /\ n <= size /\ n + 1 \in Int /\ size \in Int
    BY <1>3
  <2>3. Cardinality(n + 1..size) = IF n + 1 > size THEN 0 ELSE size - (n + 1) + 1
    BY <2>2, FS_Interval, Zenon
  <2>4. Cardinality(n + 1..size) = size - n
    BY <2>2, <2>3
  <2> QED
    BY <2>1, <2>4
<1> HIDE DEF After
<1>7. ASSUME NEW k \in 1..size - d PROVE Nth(k) = d + k
  <2>1. d + k \in kept /\ \A n \in kept : After(n) = room - k <=> n = d + k
    BY <1>3, <1>5, <1>6
  <2> QED
    BY <2>1, Zenon
<1>8. Prune(recent) = [k \in 1..room |-> recent[Nth(k)]]
  BY DEF Prune, room, After, kept
<1> HIDE DEF Nth
<1>9. Prune(recent) = [k \in 1..size - d |-> recent[d + k]]
  BY <1>5, <1>7, <1>8
<1> QED
  BY <1>3, <1>5, <1>9

\* Noting the next record, an index that knows of all before it knows of them all.
LEMMA NotesOn ==
    ASSUME NEW ix, NEW n \in Nat, NEW log, \A i \in 1..n + 1 : log[i] \in Records,
           \A i, j \in 1..n + 1 : i < j => Later(log[j], log[i]), Recalls(ix, n, log)
    PROVE  Recalls(Note(ix, log[n + 1]), n + 1, log)
<1> DEFINE entry   == [wall |-> log[n + 1].wall, class |-> log[n + 1].class]
           longer  == Append(ix.recent, entry)
           noted   == Note(ix, log[n + 1])
           reading == Reading(log[n + 1])
           length  == Len(ix.recent)
           d       == n - length
           size    == length + 1
<1>0. /\ KeptWindow \in Nat /\ MaxRecent \in Nat
      /\ \A i \in 1..n + 1 : log[i].wall \in Nat /\ log[i].counter \in Nat
                             /\ log[i].class \in WrittenClasses
  BY KeptIsWider DEF Records
<1>1. \A i, j \in 1..n + 1 : i < j => log[i].wall <= log[j].wall
  BY <1>0 DEF Later
<1>2. /\ ix.recent \in Seq(Heard) /\ d >= 0 /\ length \in Nat
      /\ \A k \in 1..length : /\ ix.recent[k].wall = log[d + k].wall
                              /\ ix.recent[k].class = log[d + k].class
      /\ d > 0 => log[d].wall < log[n].wall - KeptWindow \/ length >= MaxRecent
  <2>1. ix.recent \in Seq(Heard)
    BY DEF Recalls
  <2>2. length \in Nat
    BY <2>1
  <2> QED
    BY <2>1, <2>2, Zenon DEF Recalls
<1>3. /\ longer \in Seq(Heard) /\ DOMAIN longer = 1..size
      /\ size \in Nat /\ size >= 1 /\ d \in Int /\ d + size = n + 1
      /\ \A k \in 1..size : /\ longer[k].wall = log[d + k].wall
                            /\ longer[k].class = log[d + k].class
  <2>1. entry \in Heard /\ entry.wall = log[n + 1].wall /\ entry.class = log[n + 1].class
    BY <1>0 DEF Heard
  <2> HIDE DEF entry
  <2>2. /\ longer \in Seq(Heard) /\ DOMAIN longer = 1..size /\ longer[size] = entry
        /\ \A k \in 1..length : longer[k] = ix.recent[k]
    BY <1>2, <2>1
  <2> HIDE DEF length
  <2>3. \A k \in 1..size : k \in 1..length \/ (k = size /\ d + k = n + 1)
    BY <1>2
  <2>4. size \in Nat /\ size >= 1 /\ d \in Int /\ d + size = n + 1
    BY <1>2
  <2> HIDE DEF longer, size, d
  <2> QED
    BY <1>2, <2>1, <2>2, <2>3, <2>4
<1> HIDE DEF longer, length
<1>4. \A k \in 1..size : d + k \in 1..n + 1
  BY <1>2, <1>3
<1>5. d \in 0..n
  BY <1>2
<1> HIDE DEF size, d
<1>6. PICK c \in 0..size :
        /\ Prune(longer) = [k \in 1..size - c |-> longer[c + k]]
        /\ size - c <= MaxRecent
        /\ c > 0 => \/ longer[c].wall < longer[size].wall - KeptWindow
                    \/ size - c = MaxRecent
  <2>1. \A k \in 1..size : longer[k].wall \in Nat
    BY <1>0, <1>3, <1>4
  <2>2. \A k, l \in 1..size : k < l => d + k < d + l
    BY <1>3
  <2>3. \A k, l \in 1..size : k < l => longer[k].wall <= longer[l].wall
    BY <1>1, <1>3, <1>4, <2>2
  <2> QED
    BY <1>3, <2>1, <2>3, PruneKeeps
<1>7. /\ noted.recent \in Seq(Heard) /\ Len(noted.recent) = size - c
      /\ \A k \in 1..size - c : /\ noted.recent[k].wall = log[d + c + k].wall
                                /\ noted.recent[k].class = log[d + c + k].class
  <2>1. noted.recent = [k \in 1..size - c |-> longer[c + k]]
    BY <1>6 DEF Note, longer
  <2>2. \A k \in 1..size - c : c + k \in 1..size /\ longer[c + k] \in Heard
    BY <1>3
  <2>3. \A k \in 1..size - c : d + (c + k) = d + c + k
    BY <1>3
  <2>4. size - c \in Nat
    BY <1>3
  <2> HIDE DEF noted
  <2>5. /\ noted.recent \in Seq(Heard) /\ Len(noted.recent) = size - c
        /\ \A k \in 1..size - c : noted.recent[k] = longer[c + k]
    BY <2>1, <2>2, <2>4
  <2> QED
    BY <1>3, <2>2, <2>3, <2>5
<1> HIDE DEF noted
<1>8. d + c > 0 => \/ log[d + c].wall < log[n + 1].wall - KeptWindow
                   \/ size - c >= MaxRecent
  <2>1. CASE c > 0
    <3>1. c \in 1..size /\ size \in 1..size
      BY <1>3, <2>1
    <3>2. longer[c].wall = log[d + c].wall /\ longer[size].wall = log[n + 1].wall
      BY <1>3, <3>1
    <3> QED
      BY <1>3, <1>6, <2>1, <3>2
  <2>2. CASE c = 0 /\ d > 0
    <3>1. /\ d + c = d /\ size - c = size /\ size > length
          /\ d \in 1..n + 1 /\ n \in 1..n + 1
      BY <1>2, <1>3, <1>5, <2>2 DEF size
    <3>2. log[d].wall \in Nat /\ log[n].wall \in Nat /\ log[n + 1].wall \in Nat
      BY <1>0, <3>1
    <3>3. log[n].wall <= log[n + 1].wall
      BY <1>1, <3>1
    <3>4. CASE log[d].wall < log[n].wall - KeptWindow
      BY <1>0, <3>1, <3>2, <3>3, <3>4
    <3>5. CASE length >= MaxRecent
      BY <1>0, <1>2, <1>3, <3>1, <3>5
    <3> QED
      BY <1>2, <2>2, <3>4, <3>5
  <2>3. d + c > 0 => c > 0 \/ (c = 0 /\ d > 0)
    BY <1>3, <1>5
  <2> QED
    BY <2>1, <2>2, <2>3
<1>9. /\ noted.lastMessage \in {None} \cup Readings
      /\ \A j \in 1..n + 1 : log[j].class = "message" =>
            noted.lastMessage # None /\ log[j].wall <= noted.lastMessage.wall
  <2>1. /\ ix.lastMessage \in {None} \cup Readings
        /\ \A j \in 1..n : log[j].class = "message" =>
              ix.lastMessage # None /\ log[j].wall <= ix.lastMessage.wall
    BY DEF Recalls
  <2>2. noted.lastMessage =
            IF log[n + 1].class = "message"
            THEN IF ix.lastMessage = None \/ Later(reading, ix.lastMessage)
                 THEN reading ELSE ix.lastMessage
            ELSE ix.lastMessage
    BY DEF noted, Note
  <2>3. /\ reading \in Readings /\ reading # None /\ reading.wall = log[n + 1].wall
        /\ reading.wall \in Nat /\ reading.counter \in Nat
    BY <1>0, NoneIsNoReading DEF Readings, Reading
  <2> HIDE DEF reading
  <2>4. \A j \in 1..n : log[j].wall \in Nat /\ log[j].wall <= reading.wall
    BY <1>0, <1>1, <2>3
  <2>5. ix.lastMessage # None => ix.lastMessage.wall \in Nat /\ ix.lastMessage.counter \in Nat
    BY <2>1 DEF Readings
  <2>6. \A j \in 1..n + 1 : j \in 1..n \/ j = n + 1
    OBVIOUS
  <2>7. CASE log[n + 1].class # "message"
    BY <2>1, <2>2, <2>6, <2>7
  <2>8. CASE log[n + 1].class = "message" /\ (ix.lastMessage = None \/ Later(reading, ix.lastMessage))
    <3>1. noted.lastMessage = reading
      BY <2>2, <2>8
    <3> QED
      BY <2>3, <2>4, <2>6, <3>1
  <2>9. CASE log[n + 1].class = "message" /\ ~(ix.lastMessage = None \/ Later(reading, ix.lastMessage))
    <3>1. noted.lastMessage = ix.lastMessage /\ ix.lastMessage # None
      BY <2>2, <2>9
    <3>2. reading.wall <= ix.lastMessage.wall
      BY <2>3, <2>5, <2>9, <3>1 DEF Later
    <3> QED
      BY <2>1, <2>3, <2>6, <3>1, <3>2
  <2> QED
    BY <2>7, <2>8, <2>9
<1>10. n + 1 - Len(noted.recent) = d + c /\ d + c >= 0 /\ Len(noted.recent) = size - c
  BY <1>3, <1>5, <1>6, <1>7
<1>11. Recalls(noted, n + 1, log)
  BY <1>7, <1>8, <1>9, <1>10 DEF Recalls
<1> QED
  BY <1>11 DEF noted

\* Of the records in the window of a moment no record is after, the index counts all.
LEMMA CountsAll ==
    ASSUME NEW ix, NEW n \in Nat, NEW log, \A i \in 1..n : log[i] \in Records,
           \A i, j \in 1..n : i < j => log[i].wall <= log[j].wall, Recalls(ix, n, log),
           NEW class, NEW wall \in Nat, \A i \in 1..n : log[i].wall <= wall,
           \A j \in 1..n : n + 1 - j > MaxRecent => wall - log[j].wall >= RateWindow
    PROVE  Cardinality({j \in 1..n : log[j].class = class /\ log[j].wall > wall - RateWindow})
               <= CountWithin(ix, class, wall)
<1> DEFINE length == Len(ix.recent)
           d == n - length
           J == {j \in 1..n : log[j].class = class /\ log[j].wall > wall - RateWindow}
           K == {k \in DOMAIN ix.recent :
                    ix.recent[k].class = class /\ ix.recent[k].wall > wall - RateWindow}
           f == [j \in J |-> j - d]
<1>0. /\ KeptWindow \in Nat /\ MaxRecent \in Nat /\ RateWindow \in Nat /\ KeptWindow >= RateWindow
      /\ \A i \in 1..n : log[i].wall \in Nat
  BY KeptIsWider DEF Records
<1>1. /\ length \in Nat /\ d >= 0 /\ DOMAIN ix.recent = 1..length
      /\ \A k \in 1..length : /\ ix.recent[k].wall = log[d + k].wall
                              /\ ix.recent[k].class = log[d + k].class
      /\ d > 0 => log[d].wall < log[n].wall - KeptWindow \/ length >= MaxRecent
  <2>1. ix.recent \in Seq(Heard)
    BY DEF Recalls
  <2>2. length \in Nat /\ DOMAIN ix.recent = 1..length
    BY <2>1
  <2> QED
    BY <2>2, Zenon DEF Recalls
<1> HIDE DEF length
<1>2. ASSUME NEW j \in J PROVE j > d
  <2> SUFFICES ASSUME j <= d PROVE FALSE
    BY <1>1
  <2>1. d \in 1..n /\ n \in 1..n /\ j \in 1..n /\ log[j].wall > wall - RateWindow
    BY <1>1
  <2> HIDE DEF J
  <2>2. /\ log[j].wall \in Nat /\ log[d].wall \in Nat /\ log[n].wall \in Nat
        /\ log[n].wall <= wall
    BY <1>0, <2>1
  <2>3. log[j].wall <= log[d].wall
    <3>1. j = d \/ j < d
      BY <1>1, <2>1
    <3> HIDE DEF d
    <3> QED
      BY <2>1, <2>2, <3>1
  <2>4. CASE log[d].wall < log[n].wall - KeptWindow
    BY <1>0, <2>1, <2>2, <2>3, <2>4
  <2>5. CASE length >= MaxRecent
    <3>1. n + 1 - j > MaxRecent
      BY <1>0, <1>1, <2>1, <2>5
    <3>2. wall - log[j].wall >= RateWindow
      BY <2>1, <3>1
    <3> QED
      BY <1>0, <2>1, <2>2, <3>2
  <2> QED
    BY <1>1, <2>1, <2>4, <2>5
<1>3. f \in Injection(J, K)
  <2>1. ASSUME NEW j \in J PROVE j - d \in K
    <3>1. j - d \in 1..length /\ d + (j - d) = j
      BY <1>1, <1>2
    <3>2. ix.recent[j - d].wall = log[j].wall /\ ix.recent[j - d].class = log[j].class
      BY <1>1, <3>1
    <3> QED
      BY <1>1, <3>1, <3>2
  <2>2. \A i, j \in J : i - d = j - d => i = j
    BY <1>1
  <2> HIDE DEF J, K, d
  <2> QED
    BY <2>1, <2>2 DEF Injection, IsInjective
<1>4. IsFiniteSet(K)
  <2>1. K \in SUBSET (1..length)
    BY <1>1
  <2>2. IsFiniteSet(1..length)
    BY <1>1, FS_Interval
  <2> HIDE DEF K
  <2> QED
    BY <2>1, <2>2, FS_Subset
<1>5. Cardinality(J) <= Cardinality(K)
  <2> HIDE DEF J, K, f
  <2> QED
    BY <1>3, <1>4, FS_Injection
<1>6. CountWithin(ix, class, wall) = Cardinality(K)
  BY DEF CountWithin
<1> QED
  BY <1>5, <1>6

\* What is within the rate by such an index is within it by the records themselves.
LEMMA MetersOn ==
    ASSUME NEW ix, NEW n \in Nat, NEW log, \A i \in 1..n + 1 : log[i] \in Records,
           \A i, j \in 1..n + 1 : i < j => log[i].wall <= log[j].wall,
           Recalls(ix, n, log), Metered(n, log),
           \A j \in 1..n : n + 1 - j > MaxRecent => log[n + 1].wall - log[j].wall >= RateWindow,
           NEW reading, reading.wall = log[n + 1].wall, WithinRate(ix, log[n + 1].class, reading)
    PROVE  Metered(n + 1, log)
<1> DEFINE new == log[n + 1]
           past == {j \in 1..n : log[j].class = new.class /\ log[j].wall > new.wall - RateWindow}
           ceiling == Readers!Ceiling(new.class, Limits)
<1>0. /\ \A i \in 1..n + 1 : log[i].wall \in Nat
      /\ Limits.slowmode \in Nat /\ ceiling \in Nat
  BY LimitsAreNat DEF Records, Readers!Ceiling
<1>1. new.wall \in Nat /\ \A i \in 1..n : log[i].wall <= new.wall
  BY <1>0
<1>2. Cardinality(past) <= CountWithin(ix, new.class, new.wall)
  <2>1. \A i \in 1..n : i \in 1..n + 1
    OBVIOUS
  <2> HIDE DEF new
  <2> QED
    BY <1>1, <2>1, CountsAll DEF new
<1>3. ceiling > 0 => Cardinality(past) < ceiling
  <2>1. ceiling > 0 => CountWithin(ix, new.class, new.wall) < ceiling
    BY DEF WithinRate
  <2>2. Cardinality(past) \in Nat /\ CountWithin(ix, new.class, new.wall) \in Nat
    <3>1. past \in SUBSET (1..n)
      OBVIOUS
    <3>2. Cardinality(past) \in Nat
      <4> HIDE DEF past
      <4> QED
        BY <3>1, FS_Interval, FS_Subset, FS_CardinalityType
    <3>3. CountWithin(ix, new.class, new.wall) \in Nat
      <4> DEFINE K == {k \in DOMAIN ix.recent : ix.recent[k].class = new.class
                                                /\ ix.recent[k].wall > new.wall - RateWindow}
      <4>1. ix.recent \in Seq(Heard)
        BY DEF Recalls
      <4>2. DOMAIN ix.recent = 1..Len(ix.recent) /\ Len(ix.recent) \in Nat
        BY <4>1
      <4>3. K \in SUBSET (1..Len(ix.recent))
        BY <4>2
      <4>4. CountWithin(ix, new.class, new.wall) = Cardinality(K)
        BY DEF CountWithin
      <4>5. IsFiniteSet(1..Len(ix.recent))
        <5>1. 1 \in Int /\ Len(ix.recent) \in Int
          BY <4>2
        <5> QED
          BY <5>1, FS_Interval
      <4> HIDE DEF K
      <4>6. IsFiniteSet(K)
        BY <4>3, <4>5, FS_Subset
      <4> QED
        BY <4>4, <4>6, FS_CardinalityType
    <3> QED
      BY <3>2, <3>3
  <2> HIDE DEF past, new, ceiling
  <2> QED
    BY <1>0, <1>2, <2>1, <2>2
<1>4. new.class = "message" /\ Limits.slowmode > 0 =>
        \A j \in 1..n : log[j].class = "message" => new.wall - log[j].wall >= Limits.slowmode
  <2> SUFFICES ASSUME new.class = "message", Limits.slowmode > 0,
                      NEW j \in 1..n, log[j].class = "message"
               PROVE  new.wall - log[j].wall >= Limits.slowmode
    OBVIOUS
  <2>1. /\ ix.lastMessage # None /\ ix.lastMessage \in Readings
        /\ log[j].wall <= ix.lastMessage.wall
    BY DEF Recalls
  <2>2. new.wall - ix.lastMessage.wall >= Limits.slowmode
    BY <2>1 DEF WithinRate
  <2>3. ix.lastMessage.wall \in Nat /\ log[j].wall \in Nat
    BY <1>0, <2>1 DEF Readings
  <2> QED
    BY <1>0, <1>1, <2>1, <2>2, <2>3
<1>5. \A i \in 1..n + 1 : i \in 1..n \/ (i = n + 1 /\ i - 1 = n)
  OBVIOUS
<1> HIDE DEF ceiling
<1> QED
  BY <1>3, <1>4, <1>5 DEF Metered, ceiling

\* Where every class has a ceiling, records in one window are no more than the sum.
LEMMA RoomyIsSparse ==
    ASSUME Roomy, NEW n \in Nat, NEW log, \A i \in 1..n : log[i] \in Records,
           \A i, j \in 1..n : i < j => log[i].wall <= log[j].wall, Metered(n, log),
           NEW wall \in Nat, \A i \in 1..n : log[i].wall <= wall,
           NEW j \in 1..n, n + 1 - j > MaxRecent
    PROVE  wall - log[j].wall >= RateWindow
<1> SUFFICES ASSUME ~ (wall - log[j].wall >= RateWindow) PROVE FALSE
  OBVIOUS
<1> DEFINE Of(class) == {k \in j..n : log[k].class = class}
<1>0. /\ RateWindow \in Nat /\ MaxRecent \in Nat
      /\ \A i \in 1..n : log[i].wall \in Nat /\ log[i].class \in WrittenClasses
      /\ Limits.message \in Nat /\ Limits.reaction \in Nat
  BY KeptIsWider, LimitsAreNat DEF Records
<1>1. ASSUME NEW class \in {"message", "reaction"}
      PROVE  /\ IsFiniteSet(Of(class)) /\ Cardinality(Of(class)) \in Nat
             /\ Cardinality(Of(class)) <= Readers!Ceiling(class, Limits)
  <2> DEFINE S == Of(class)
             ceiling == Readers!Ceiling(class, Limits)
  <2>1. ceiling \in Nat /\ ceiling > 0
    BY <1>0 DEF Roomy, Readers!Ceiling
  <2>2. S \in SUBSET (1..n) /\ \A k \in S : j <= k /\ log[k].class = class
    OBVIOUS
  <2> HIDE DEF S, ceiling
  <2>3. IsFiniteSet(1..n)
    BY FS_Interval
  <2>4. IsFiniteSet(S) /\ Cardinality(S) \in Nat
    BY <2>2, <2>3, FS_Subset, FS_CardinalityType
  <2>5. CASE S = {}
    BY <2>1, <2>4, <2>5, FS_EmptySet DEF S, ceiling
  <2>6. CASE S # {}
    <3>1. PICK m \in S : \A k \in S : k <= m
      BY <2>2, <2>6, Greatest
    <3> DEFINE past == {k \in 1..m - 1 : log[k].class = log[m].class
                                         /\ log[k].wall > log[m].wall - RateWindow}
    <3>2. S \ {m} \in SUBSET past
      <4> SUFFICES ASSUME NEW k \in S, k # m PROVE k \in past
        OBVIOUS
      <4>1. k \in 1..m - 1 /\ k \in 1..n /\ m \in 1..n /\ j <= k
        BY <2>2, <3>1
      <4>2. log[j].wall <= log[k].wall /\ log[m].wall <= wall
        <5>1. j = k \/ j < k
          BY <4>1
        <5> QED
          BY <1>0, <4>1, <5>1
      <4>3. log[j].wall \in Nat /\ log[k].wall \in Nat /\ log[m].wall \in Nat
        BY <1>0, <4>1
      <4>4. log[k].wall > log[m].wall - RateWindow
        BY <1>0, <4>2, <4>3
      <4> QED
        BY <2>2, <4>1, <4>4
    <3>3. Cardinality(past) < ceiling
      <4>1. m \in 1..n /\ log[m].class = class
        BY <2>2
      <4>2. Readers!Ceiling(log[m].class, Limits) = ceiling
        BY <4>1 DEF ceiling
      <4> QED
        BY <2>1, <4>1, <4>2 DEF Metered
    <3>4. IsFiniteSet(past) /\ Cardinality(past) \in Nat
      <4>1. past \in SUBSET (1..n)
        BY <2>2
      <4> HIDE DEF past
      <4> QED
        BY <2>3, <4>1, FS_Subset, FS_CardinalityType
    <3> HIDE DEF past
    <3>5. Cardinality(S \ {m}) <= Cardinality(past)
      BY <3>2, <3>4, FS_Subset
    <3>6. Cardinality(S \ {m}) = Cardinality(S) - 1
      BY <2>4, FS_RemoveElement
    <3>7. Cardinality(S) <= ceiling
      BY <2>1, <2>4, <3>3, <3>4, <3>5, <3>6
    <3> QED
      BY <2>4, <3>7 DEF S, ceiling
  <2> QED
    BY <2>5, <2>6
<1>2. j..n = Of("message") \cup Of("reaction")
  <2>1. \A k \in j..n : k \in 1..n
    OBVIOUS
  <2>2. \A k \in j..n : log[k].class = "message" \/ log[k].class = "reaction"
    BY <1>0, <2>1 DEF Roomy
  <2> QED
    BY <2>2
<1>3. Readers!Ceiling("message", Limits) = Limits.message
      /\ Readers!Ceiling("reaction", Limits) = Limits.reaction
  BY DEF Readers!Ceiling
<1>4. Cardinality(j..n) = n + 1 - j
  BY FS_Interval
<1> HIDE DEF Of
<1>5. /\ IsFiniteSet(Of("message") \cap Of("reaction"))
      /\ Cardinality(Of("message") \cap Of("reaction")) \in Nat
  <2>1. Of("message") \cap Of("reaction") \in SUBSET Of("message")
    OBVIOUS
  <2> QED
    BY <1>1, <2>1, FS_Subset, FS_CardinalityType
<1>6. Cardinality(Of("message") \cup Of("reaction"))
        = Cardinality(Of("message")) + Cardinality(Of("reaction"))
          - Cardinality(Of("message") \cap Of("reaction"))
  BY <1>1, FS_Union
<1>7. n + 1 - j <= Limits.message + Limits.reaction
  <2>1. /\ Cardinality(Of("message")) \in Nat
        /\ Cardinality(Of("message")) <= Readers!Ceiling("message", Limits)
    BY <1>1
  <2>2. /\ Cardinality(Of("reaction")) \in Nat
        /\ Cardinality(Of("reaction")) <= Readers!Ceiling("reaction", Limits)
    BY <1>1
  <2>3. n + 1 - j = Cardinality(Of("message") \cup Of("reaction"))
    BY <1>2, <1>4
  <2> QED
    BY <1>0, <1>3, <1>5, <1>6, <2>1, <2>2, <2>3
<1> QED
  BY <1>0, <1>7 DEF Roomy

\* The readers count with the same operator.
LEMMA SameCount == \A S : Readers!Cardinality(S) = Cardinality(S)
BY Zenon DEF Readers!Cardinality, Cardinality

\* A reader that has admitted any of the records before one admits that one.
LEMMA WalkAdmits ==
    ASSUME Types, Sorted, Metered(Len(written), written),
           NEW id \in 1..Len(written), NEW admitted, admitted \subseteq 1..id - 1
    PROVE  Readers!WalkVerdict(id, admitted, Limits) = Readers!Admitted
<1> DEFINE mine == Readers!Like(id, admitted)
           new == written[id]
           last == CHOOSE j \in mine : \A k \in mine \ {j} : Readers!Precedes(k, j)
           ceiling == Readers!Ceiling(new.class, Limits)
           soon == /\ new.class = "message" /\ Limits.slowmode > 0 /\ mine # {}
                   /\ new.wall - written[last].wall < Limits.slowmode
           past == {j \in mine : written[j].wall > new.wall - RateWindow}
           all == {j \in 1..id - 1 : written[j].class = new.class
                                     /\ written[j].wall > new.wall - RateWindow}
<1>0. /\ Len(written) \in Nat /\ Limits.slowmode \in Nat /\ ceiling \in Nat
      /\ \A i \in 1..Len(written) : written[i] \in Records
  BY LimitsAreNat DEF Types, Readers!Ceiling
<1>1. mine \subseteq 1..id - 1 /\ \A j \in mine : written[j].class = new.class
  BY DEF Readers!Like
<1>2. /\ new.class = "message" /\ Limits.slowmode > 0 =>
            \A j \in 1..id - 1 :
                written[j].class = "message" => new.wall - written[j].wall >= Limits.slowmode
      /\ ceiling > 0 => Cardinality(all) < ceiling
  BY DEF Metered
<1>3. mine # {} => last \in mine
  <2> SUFFICES ASSUME mine # {} PROVE last \in mine
    OBVIOUS
  <2> HIDE DEF mine
  <2>1. mine \subseteq 1..Len(written)
    BY <1>0, <1>1
  <2>2. PICK j \in mine : \A k \in mine : k <= j
    BY <1>0, <2>1, Greatest
  <2>3. ASSUME NEW k \in mine \ {j} PROVE Readers!Precedes(k, j)
    <3>1. k < j /\ k \in 1..Len(written) /\ j \in 1..Len(written)
      BY <2>1, <2>2
    <3>2. Later(written[j], written[k])
      BY <3>1 DEF Sorted
    <3> QED
      BY <3>2 DEF Later, Readers!Precedes, Readers!EarlierReading
  <2> QED
    BY <2>3, Zenon
<1>4. ceiling > 0 => Cardinality(past) < ceiling
  <2>1. past \in SUBSET all
    BY <1>1
  <2>2. all \in SUBSET (1..Len(written))
    BY <1>0
  <2>3. IsFiniteSet(1..Len(written))
    BY <1>0, FS_Interval
  <2> HIDE DEF past, all, ceiling
  <2>4. IsFiniteSet(all) /\ Cardinality(all) \in Nat
    BY <2>2, <2>3, FS_Subset, FS_CardinalityType
  <2>5. IsFiniteSet(past) /\ Cardinality(past) \in Nat /\ Cardinality(past) <= Cardinality(all)
    BY <2>1, <2>4, FS_Subset, FS_CardinalityType
  <2> QED
    BY <1>0, <1>2, <2>4, <2>5
<1>5. Cardinality(past) \in Nat
  <2>1. past \in SUBSET (1..Len(written))
    BY <1>0, <1>1
  <2>2. IsFiniteSet(1..Len(written))
    BY <1>0, FS_Interval
  <2> HIDE DEF past
  <2> QED
    BY <2>1, <2>2, FS_Subset, FS_CardinalityType
<1>6. ~soon
  <2> SUFFICES ASSUME new.class = "message", Limits.slowmode > 0, mine # {}
               PROVE  ~ (new.wall - written[last].wall < Limits.slowmode)
    OBVIOUS
  <2> HIDE DEF last, mine
  <2>1. last \in 1..id - 1 /\ last \in 1..Len(written) /\ written[last].class = "message"
    <3>1. last \in mine
      BY <1>3
    <3>2. written[last].class = new.class /\ last \in 1..id - 1
      BY <1>1, <3>1
    <3> QED
      BY <1>0, <3>2
  <2>2. written[last].wall \in Nat /\ new.wall \in Nat
    BY <1>0, <2>1 DEF Records
  <2>3. new.wall - written[last].wall >= Limits.slowmode
    BY <1>2, <2>1
  <2> DEFINE gap == new.wall - written[last].wall
  <2>4. gap \in Int /\ gap >= Limits.slowmode /\ Limits.slowmode \in Int
    <3>1. gap \in Int
      BY <2>2
    <3>2. gap >= Limits.slowmode
      BY <2>3
    <3>3. Limits.slowmode \in Int
      BY <1>0
    <3> QED
      BY <3>1, <3>2, <3>3
  <2> HIDE DEF gap
  <2>5. ~ (gap < Limits.slowmode)
    BY <2>4
  <2> QED
    BY <2>5 DEF gap
<1>7. ceiling <= 0 \/ ~ (Cardinality(past) >= ceiling)
  <2> HIDE DEF past, ceiling
  <2> QED
    BY <1>0, <1>4, <1>5
<1>8. Readers!WalkVerdict(id, admitted, Limits) =
        IF ceiling <= 0 THEN Readers!Admitted
        ELSE IF soon THEN Readers!TooSoon
        ELSE IF Cardinality(past) >= ceiling THEN Readers!OverRate
        ELSE Readers!Admitted
  BY SameCount, Zenon DEF Readers!WalkVerdict
<1> HIDE DEF soon, past, ceiling
<1> QED
  BY <1>6, <1>7, <1>8, Zenon

\* Records that keep to the pauses and ceilings are all admitted.
LEMMA MeteredIsAdmitted ==
    ASSUME Types, Sorted, Metered(Len(written), written)
    PROVE  NeverWithheld
<1> DEFINE admitted == CHOOSE A \in Readers!Greedy(stored, Limits) : TRUE
<1>1. stored \subseteq 1..Len(written) /\ Len(written) \in Nat
  BY DEF Types
<1>2. ASSUME NEW A \in SUBSET stored, NEW id \in stored
      PROVE  Readers!WalkVerdict(id, Readers!Before(id, A), Limits) = Readers!Admitted
  <2>1. Readers!Before(id, A) \subseteq 1..id - 1
    <3> SUFFICES ASSUME NEW j \in A, Readers!Precedes(j, id) PROVE j \in 1..id - 1
      BY DEF Readers!Before
    <3>1. j \in 1..Len(written) /\ id \in 1..Len(written)
      BY <1>1
    <3>2. Precedes(j, id)
      BY DEF Readers!Precedes, Readers!EarlierReading, Readers!SameReading, Precedes, Later, Reading
    <3> QED
      BY <3>1, <3>2, PrecedesIsLess
  <2> QED
    BY <1>1, <2>1, WalkAdmits
<1>3. stored \in Readers!Greedy(stored, Limits)
  <2>1. stored \in SUBSET stored
    OBVIOUS
  <2> QED
    BY <1>2, <2>1 DEF Readers!Greedy
<1>4. admitted \in SUBSET stored
  BY <1>3, Zenon DEF Readers!Greedy
<1>5. Readers!WholePass(stored, Limits) =
        [id \in stored |-> Readers!WalkVerdict(id, Readers!Before(id, admitted), Limits)]
  BY Zenon DEF Readers!WholePass
<1> HIDE DEF admitted
<1> QED
  BY <1>2, <1>4, <1>5 DEF NeverWithheld, Readers!Admitted

\* All of this is about the first n records, whatever is signed after them.
LEMMA OthersAside ==
    ASSUME NEW ix, NEW n \in Nat, NEW log, NEW more, \A i \in 1..n : more[i] = log[i],
           Metered(n, log), NEW m \in 0..n, Recalls(ix, m, log)
    PROVE  Metered(n, more) /\ Recalls(ix, m, more)
<1>1. Metered(n, more)
  <2> SUFFICES ASSUME NEW i \in 1..n
               PROVE  /\ more[i].class = "message" /\ Limits.slowmode > 0 =>
                            \A j \in 1..i - 1 : more[j].class = "message" =>
                                more[i].wall - more[j].wall >= Limits.slowmode
                      /\ Readers!Ceiling(more[i].class, Limits) > 0 =>
                            Cardinality({j \in 1..i - 1 : more[j].class = more[i].class
                                              /\ more[j].wall > more[i].wall - RateWindow})
                                < Readers!Ceiling(more[i].class, Limits)
    BY DEF Metered
  <2>1. more[i] = log[i] /\ \A j \in 1..i - 1 : more[j] = log[j]
    OBVIOUS
  <2>2. {j \in 1..i - 1 : more[j].class = more[i].class
                          /\ more[j].wall > more[i].wall - RateWindow}
          = {j \in 1..i - 1 : log[j].class = log[i].class
                              /\ log[j].wall > log[i].wall - RateWindow}
    BY <2>1
  <2>3. /\ log[i].class = "message" /\ Limits.slowmode > 0 =>
              \A j \in 1..i - 1 :
                  log[j].class = "message" => log[i].wall - log[j].wall >= Limits.slowmode
        /\ Readers!Ceiling(log[i].class, Limits) > 0 =>
              Cardinality({j \in 1..i - 1 : log[j].class = log[i].class
                                            /\ log[j].wall > log[i].wall - RateWindow})
                  < Readers!Ceiling(log[i].class, Limits)
    BY DEF Metered
  <2> QED
    BY <2>1, <2>2, <2>3
<1>2. Recalls(ix, m, more)
  <2> DEFINE length == Len(ix.recent)
  <2>1. ix.recent \in Seq(Heard)
    BY DEF Recalls
  <2>2. length \in Nat
    BY <2>1
  <2>3. /\ m - length >= 0
        /\ \A k \in 1..length : /\ ix.recent[k].wall = log[m - length + k].wall
                                /\ ix.recent[k].class = log[m - length + k].class
        /\ m - length > 0 => \/ log[m - length].wall < log[m].wall - KeptWindow
                             \/ length >= MaxRecent
        /\ ix.lastMessage \in {None} \cup Readings
        /\ \A j \in 1..m : log[j].class = "message" =>
              ix.lastMessage # None /\ log[j].wall <= ix.lastMessage.wall
    BY Zenon DEF Recalls
  <2> HIDE DEF length
  <2>4. /\ \A k \in 1..length : more[m - length + k] = log[m - length + k]
        /\ m - length > 0 => more[m - length] = log[m - length] /\ more[m] = log[m]
        /\ \A j \in 1..m : more[j] = log[j]
    <3>1. \A k \in 1..length : m - length + k \in 1..n
      BY <2>2, <2>3
    <3>2. m - length > 0 => m - length \in 1..n /\ m \in 1..n
      BY <2>2
    <3>3. \A j \in 1..m : j \in 1..n
      OBVIOUS
    <3> QED
      BY <3>1, <3>2, <3>3
  <2> QED
    BY <2>1, <2>3, <2>4 DEF Recalls, length
<1> QED
  BY <1>1, <1>2

\* Nothing has been signed, and an empty index knows all of that.
LEMMA InitCareful == Init => Careful
<1> SUFFICES ASSUME Init PROVE Careful
  OBVIOUS
<1>1. Len(written) = 0 /\ Noticed = 0 /\ index.recent = << >> /\ index.lastMessage = None
  BY DEF Init, EmptyIndex, Noticed, Busy
<1>2. Metered(0, written)
  BY DEF Metered
<1>3. Recalls(index, 0, written)
  BY <1>1 DEF Recalls
<1> QED
  BY <1>1, <1>2, <1>3 DEF Careful

\* Readings in order are moments in order.
LEMMA WallsClimb ==
    ASSUME Types, Sorted
    PROVE  /\ Len(written) \in Nat /\ \A i \in 1..Len(written) : written[i] \in Records
           /\ \A i, j \in 1..Len(written) :
                  i < j => Later(written[j], written[i]) /\ written[i].wall <= written[j].wall
<1>1. Len(written) \in Nat /\ \A i \in 1..Len(written) : written[i] \in Records
  BY DEF Types
<1> QED
  BY <1>1 DEF Sorted, Later, Records

\* A record signed by such an index keeps to the pauses and ceilings.
LEMMA SignCareful ==
    ASSUME Types, Types', InHand, OneWriter, Sorted', Metered(Len(written), written),
           Recalls(index, Noticed, written), Roomy \/ Sparse', NEW w \in Writers, Sign(w)
    PROVE  Metered(Len(written'), written') /\ Recalls(index', Noticed', written')
<1>n. PICK n \in Nat : n = Len(written)
  BY DEF Types
<1>l. PICK log : log = written'
  OBVIOUS
<1>1. n = Len(written) /\ log = written'
  BY <1>n, <1>l
<1>2. /\ Len(written') = n + 1 /\ \A i \in 1..n : log[i] = written[i]
      /\ index' = index /\ Reading(log[n + 1]) = NextReading(index.last, now)
  BY <1>1, Signs
<1>3. Noticed = n /\ Noticed' = n
  <2>1. ~Busy
    BY Signs DEF Busy, OneWriter
  <2>2. Busy'
    BY Signs DEF Busy, Types
  <2> QED
    BY <1>1, <1>2, <2>1, <2>2 DEF Noticed
<1>4. Metered(n, log) /\ Recalls(index, n, log)
  BY <1>1, <1>2, <1>3, OthersAside
<1>5. /\ \A i \in 1..n + 1 : log[i] \in Records
      /\ \A i, j \in 1..n + 1 : i < j => log[i].wall <= log[j].wall
  <2>1. /\ \A i \in 1..Len(written') : written'[i] \in Records
        /\ \A i, j \in 1..Len(written') : i < j => Later(written'[j], written'[i])
    BY DEF Types, Sorted
  <2>2. /\ \A i \in 1..n + 1 : log[i] \in Records
        /\ \A i, j \in 1..n + 1 : i < j => Later(log[j], log[i])
    BY <1>1, <1>2, <2>1
  <2> QED
    BY <2>2 DEF Later, Records
<1>6. PICK reading : /\ reading.wall = log[n + 1].wall
                     /\ WithinRate(index, log[n + 1].class, reading)
  <2> DEFINE reading == NextReading(index.last, now)
  <2>1. PICK class \in WrittenClasses :
          /\ WithinRate(index, class, reading)
          /\ written' = Append(written, [wall |-> reading.wall, counter |-> reading.counter,
                                         author |-> "me", class |-> class])
    BY DEF Sign
  <2>2. log[n + 1].class = class
    <3> HIDE DEF reading
    <3> QED
      BY <1>1, <2>1 DEF Types
  <2>3. reading.wall = log[n + 1].wall
    BY <1>2 DEF Reading
  <2> HIDE DEF reading
  <2> QED
    BY <2>1, <2>2, <2>3
<1>7. \A j \in 1..n : n + 1 - j > MaxRecent => log[n + 1].wall - log[j].wall >= RateWindow
  <2> SUFFICES ASSUME NEW j \in 1..n, n + 1 - j > MaxRecent
               PROVE  log[n + 1].wall - log[j].wall >= RateWindow
    OBVIOUS
  <2>1. CASE Sparse'
    <3>1. \A i, k \in 1..n + 1 : i - k > MaxRecent => log[i].wall - log[k].wall >= RateWindow
      BY <1>1, <1>2, <2>1 DEF Sparse
    <3> QED
      BY <3>1
  <2>2. CASE Roomy
    <3>1. /\ \A i \in 1..n : log[i] \in Records
          /\ \A i, k \in 1..n : i < k => log[i].wall <= log[k].wall
      BY <1>5
    <3>2. log[n + 1].wall \in Nat /\ \A i \in 1..n : log[i].wall <= log[n + 1].wall
      <4>1. n + 1 \in 1..n + 1 /\ \A i \in 1..n : i \in 1..n + 1 /\ i < n + 1
        OBVIOUS
      <4>2. log[n + 1].wall \in Nat
        BY <1>5, <4>1 DEF Records
      <4> QED
        BY <1>5, <4>1, <4>2
    <3> QED
      BY <1>4, <2>2, <3>1, <3>2, RoomyIsSparse
  <2> QED
    BY <2>1, <2>2
<1>8. Metered(n + 1, log)
  BY <1>4, <1>5, <1>6, <1>7, MetersOn
<1> QED
  BY <1>1, <1>2, <1>3, <1>4, <1>8

\* Every step but a death keeps the index knowing of all but what is in hand.
LEMMA CarefulStep ==
    ASSUME Types, Types', InHand, OneWriter, Sorted, Sorted', Careful, [Next]_vars,
           Roomy \/ Sparse'
    PROVE  Careful'
<1> SUFFICES ASSUME deaths' = 0
             PROVE  Metered(Len(written'), written') /\ Recalls(index', Noticed', written')
  BY DEF Careful, Metered, Recalls
<1>1. Metered(Len(written), written) /\ Recalls(index, Noticed, written)
  <2>1. deaths = 0 \/ \E w \in Writers : Die(w)
    BY DEF Next, Write, Sign, PutFile, NoteRead, NoteWrite, Pass, PassBegin, PassReplay,
           MarkThrough, MarkAnnounced, AnnouncementAges, NodeRestarts, Tick, SetBack, vars, bounds
  <2>2. ASSUME NEW w \in Writers, Die(w) PROVE FALSE
    BY <2>2 DEF Die, Types
  <2> QED
    BY <2>1, <2>2 DEF Careful
<1>2. CASE UNCHANGED <<written, index>> /\ (Busy' <=> Busy)
  <2>1. Noticed' = Noticed
    BY <1>2 DEF Noticed
  <2> QED
    BY <1>1, <1>2, <2>1
<1>3. ASSUME NEW w \in Writers, Sign(w)
      PROVE  Metered(Len(written'), written') /\ Recalls(index', Noticed', written')
  BY <1>1, <1>3, SignCareful
<1>4. ASSUME NEW w \in Writers, PutFile(w) \/ NoteRead(w)
      PROVE  UNCHANGED <<written, index>> /\ (Busy' <=> Busy)
  <2>1. at[w] # "idle" /\ at'[w] # "idle" /\ UNCHANGED <<written, index>>
    BY <1>4 DEF PutFile, NoteRead, Types
  <2> QED
    BY <2>1 DEF Busy
<1>5. ASSUME NEW w \in Writers, NoteWrite(w)
      PROVE  Metered(Len(written'), written') /\ Recalls(index', Noticed', written')
  <2>1. PICK n \in Nat : n + 1 = Len(written)
    <3>1. Len(written) \in Nat /\ 1 <= Len(written)
      BY <1>5, Notes
    <3>2. Len(written) - 1 \in Nat /\ (Len(written) - 1) + 1 = Len(written)
      BY <3>1
    <3> QED
      BY <3>2
  <2>2. written' = written /\ index' = Note(index, written[n + 1])
    <3>1. doing[w].index = index /\ doing[w].record = Len(written)
      BY <1>5 DEF InHand, NoteWrite
    <3> QED
      BY <1>5, <2>1, <3>1 DEF NoteWrite
  <2>3. Noticed = n /\ Noticed' = n + 1
    <3>1. Busy /\ ~Busy'
      BY <1>5, Notes DEF Busy, OneWriter, Types
    <3> QED
      BY <2>1, <2>2, <3>1 DEF Noticed
  <2>4. Recalls(Note(index, written[n + 1]), n + 1, written)
    BY <1>1, <2>1, <2>3, WallsClimb, NotesOn
  <2> QED
    BY <1>1, <2>1, <2>2, <2>3, <2>4
<1>6. ASSUME Aside \/ Tick \/ SetBack PROVE UNCHANGED <<written, index>> /\ (Busy' <=> Busy)
  BY <1>6 DEF Aside, Tick, SetBack, writing, Busy
<1>7. ASSUME NEW w \in Writers, Die(w) PROVE FALSE
  BY <1>7 DEF Die, Types
<1> QED
  BY <1>2, <1>3, <1>4, <1>5, <1>6, <1>7, NodeAside DEF Next, Write

\* Without a death there is one kind of accident.
LEMMA SoundIsSorted == Sound => (deaths = 0 => Sorted)
BY DEF Sound, OneAccident, Follows

\* Every step keeps that too.
LEMMA TrustedStep ==
    ASSUME OneWriter, Sound, Careful, [Next]_vars, Roomy \/ Sparse'
    PROVE  Sound' /\ Careful'
<1>1. Sound'
  BY SoundStep
<1>2. ASSUME deaths' = 0 PROVE Careful'
  <2>1. OneAccident'
    BY <1>2 DEF OneAccident
  <2>2. OneAccident
    BY <2>1, AccidentsStay DEF Sound
  <2> QED
    BY <1>1, <2>1, <2>2, CarefulStep DEF Sound, Follows
<1> QED
  BY <1>1, <1>2 DEF Careful, Metered, Recalls

\* What the index knows and the records keep to is what a reader asks.
LEMMA TrustedIsAdmitted == ASSUME Sound, Careful PROVE NeverWithheld
<1>1. CASE deaths = 0
  BY <1>1, SoundIsSorted, MeteredIsAdmitted DEF Sound, Careful
<1>2. CASE deaths # 0
  BY <1>2 DEF NeverWithheld
<1> QED
  BY <1>1, <1>2

\* No reader withholds what one writer's own check let through (see NeverWithheld), as
\* long as no window holds more records than the index has room for, of all classes.
THEOREM SparseIsAdmitted ==
    ASSUME OneWriter PROVE Spec /\ []Sparse => []NeverWithheld
<1>1. Sound /\ Careful /\ [Next]_vars /\ Sparse' => Sound' /\ Careful'
  BY TrustedStep
<1>2. Sound /\ Careful => NeverWithheld
  BY TrustedIsAdmitted
<1> QED
  BY <1>1, <1>2, InitSound, InitCareful, PTL DEF Spec

\* Nor does one where every class it writes has a ceiling and the index room for their
\* sum: then the writer's own checks keep the windows from holding more.
THEOREM RoomyIsAdmitted ==
    ASSUME OneWriter, Roomy PROVE Spec => []NeverWithheld
<1>1. Sound /\ Careful /\ [Next]_vars => Sound' /\ Careful'
  BY TrustedStep
<1>2. Sound /\ Careful => NeverWithheld
  BY TrustedIsAdmitted
<1> QED
  BY <1>1, <1>2, InitSound, InitCareful, PTL DEF Spec
=============================================================================
