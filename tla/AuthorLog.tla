----------------------------- MODULE AuthorLog ------------------------------
(***************************************************************************)
(* One member's own records in one channel, from the clock reading that a  *)
(* write takes to the segment chain the node publishes.                    *)
(*                                                                         *)
(* Writers are the processes that execute a write: the window's executor,  *)
(* a one-shot command.  A write reads the own-readings index, checks the   *)
(* rate, signs, stores the record's file and then brings the index up to   *)
(* date (kols-node executor.rs write, store.rs put_record, readings.rs).   *)
(* Beside them the node's publish pass compares the index with what it     *)
(* published last, replays every stored record into segments and publishes *)
(* the chain (serve.rs publish_own_logs, kols-core log.rs).  Nothing locks *)
(* one against another.                                                    *)
(*                                                                         *)
(* The model starts where own_readings has been called once, so that the   *)
(* index file is there.  Retention, keys and the bytes of a segment are    *)
(* left out; segments seal by number of records and by the time they span. *)
(***************************************************************************)
EXTENDS Integers, FiniteSets, Sequences

CONSTANTS
    Writers,       \* processes that can write
    Limits,        \* the rate rules: [message, reaction, slowmode]
    WrittenClasses, \* the classes of record it writes, of message, reaction, control
    RateWindow,    \* the trailing window a ceiling counts over
    KeptWindow,    \* how much of the recent past the index keeps (WINDOW_MILLIS)
    MaxRecent,     \* and how many readings at most (MAX_RECENT)
    SealAt,        \* records that fill a segment (the size threshold)
    SealSpan,      \* time a segment may span before the next record seals it
    None,          \* no reading; no record
    MaxRecords,    \* bound: records written
    MaxClock,      \* bound: the wall clock
    MaxAccidents,  \* bound: times the clock is set back, and writers that die
    MaxRestarts    \* bound: restarts of the node in the middle of a pass

ASSUME NoneIsNoReading == None \notin [wall : Nat, counter : Nat]
ASSUME LimitsAreNat == Limits \in [message : Nat, reaction : Nat, slowmode : Nat]
ASSUME KeptIsWider ==
    RateWindow \in Nat /\ KeptWindow \in Nat /\ MaxRecent \in Nat /\ KeptWindow >= RateWindow
ASSUME BoundsAreNat ==
    /\ MaxRecords \in Nat /\ MaxClock \in Nat
    /\ MaxAccidents \in Nat /\ MaxRestarts \in Nat

VARIABLES
    now,        \* the wall clock
    written,    \* every record signed, in order of signing; its id is its place
    stored,     \* ids with a record file
    index,      \* the own-readings file: [last, lastMessage, recent]
    at,         \* where each writer is
    doing,      \* the record each writer has signed, and the index it read back
    pass,       \* the publish pass: where it is, and the reading it read
    through,    \* the published-through file: a reading, or None
    announced,  \* whether the last announcement is recent enough
    chain,      \* the chain peers can fetch: the segment each record in it is in
    setbacks,   \* how often the clock has been set back
    deaths,     \* how many writers have died
    restarts    \* how often the node has restarted in the middle of a pass

writing == <<written, stored, index, at, doing>>
publishing == <<pass, through, announced, chain>>
bounds == <<setbacks, deaths, restarts>>
vars == <<now, written, stored, index, at, doing, pass, through, announced, chain,
          setbacks, deaths, restarts>>

Readers == INSTANCE ReaderLimits WITH Ids <- 1..MaxRecords, Rec <- written

Reading(record) == [wall |-> record.wall, counter |-> record.counter]
Later(a, b) == a.wall > b.wall \/ (a.wall = b.wall /\ a.counter > b.counter)
Precedes(i, j) ==
    \/ Later(written[j], written[i])
    \/ Reading(written[i]) = Reading(written[j]) /\ i < j

EmptyIndex == [last |-> None, lastMessage |-> None, recent |-> << >>]

Idle == [at |-> "idle", latest |-> None]

Init ==
    /\ now = 0
    /\ written = << >>
    /\ stored = {}
    /\ index = EmptyIndex
    /\ at = [w \in Writers |-> "idle"]
    /\ doing = [w \in Writers |-> [record |-> None, index |-> EmptyIndex]]
    /\ pass = Idle
    /\ through = None
    /\ announced = FALSE
    /\ chain = [id \in {} |-> 0]
    /\ setbacks = 0
    /\ deaths = 0
    /\ restarts = 0

-----------------------------------------------------------------------------
(* The index and what a writer asks of it.                                 *)

\* Mutant: a clock that stands still hands out the last reading again.
NextReadingNoTie(last, wall) ==
    IF last # None /\ wall < last.wall
    THEN [wall |-> last.wall, counter |-> last.counter + 1]
    ELSE [wall |-> wall, counter |-> 0]

\* next_hlc: past the last reading, whatever the clock says.
NextReading(last, wall) ==
    IF last # None /\ wall <= last.wall
    THEN [wall |-> last.wall, counter |-> last.counter + 1]
    ELSE [wall |-> wall, counter |-> 0]

\* prune: what is inside the kept window of the newest, and the newest of that.
Prune(recent) ==
    LET kept     == {n \in DOMAIN recent : \A m \in DOMAIN recent :
                         recent[n].wall >= recent[m].wall - KeptWindow}
        After(n) == Cardinality({m \in kept : m > n})
        room     == IF Cardinality(kept) <= MaxRecent THEN Cardinality(kept) ELSE MaxRecent
    IN  [k \in 1..room |-> recent[CHOOSE n \in kept : After(n) = room - k]]

\* note: fold one record into the three answers.
Note(ix, record) ==
    LET reading == Reading(record)
        Newest(kept) == IF kept = None \/ Later(reading, kept) THEN reading ELSE kept
    IN  [last        |-> Newest(ix.last),
         lastMessage |-> IF record.class = "message" THEN Newest(ix.lastMessage)
                                                     ELSE ix.lastMessage,
         recent      |-> Prune(Append(ix.recent,
                                      [wall |-> record.wall, class |-> record.class]))]

CountWithin(ix, class, wall) ==
    Cardinality({n \in DOMAIN ix.recent :
        ix.recent[n].class = class /\ ix.recent[n].wall > wall - RateWindow})

\* Mutant: a record at the ceiling is let through.
WithinRateOneOver(ix, class, reading) ==
    /\ class = "message" /\ Limits.slowmode > 0 /\ ix.lastMessage # None =>
           reading.wall - ix.lastMessage.wall >= Limits.slowmode
    /\ Readers!Ceiling(class, Limits) > 0 =>
           CountWithin(ix, class, reading.wall) <= Readers!Ceiling(class, Limits)

\* require_within_rate: slowmode first, then the ceiling of the class.
WithinRate(ix, class, reading) ==
    /\ class = "message" /\ Limits.slowmode > 0 /\ ix.lastMessage # None =>
           reading.wall - ix.lastMessage.wall >= Limits.slowmode
    /\ Readers!Ceiling(class, Limits) > 0 =>
           CountWithin(ix, class, reading.wall) < Readers!Ceiling(class, Limits)

-----------------------------------------------------------------------------
(* A write.                                                                *)

\* Read the index, take the next reading, check the rate, sign.
Sign(w) == \E class \in WrittenClasses :
    LET reading == NextReading(index.last, now)
        record  == [wall |-> reading.wall, counter |-> reading.counter,
                    author |-> "me", class |-> class]
    IN  /\ at[w] = "idle"
        /\ Len(written) < MaxRecords
        /\ WithinRate(index, class, reading)
        /\ written' = Append(written, record)
        /\ at' = [at EXCEPT ![w] = "signed"]
        /\ doing' = [doing EXCEPT ![w].record = Len(written) + 1]
        /\ UNCHANGED <<now, stored, index, publishing, bounds>>

\* put_record writes the file.
PutFile(w) ==
    /\ at[w] = "signed"
    /\ stored' = stored \cup {doing[w].record}
    /\ at' = [at EXCEPT ![w] = "stored"]
    /\ UNCHANGED <<now, written, index, doing, publishing, bounds>>

\* note_own_reading reads the index again and writes it back.
NoteRead(w) ==
    /\ at[w] = "stored"
    /\ at' = [at EXCEPT ![w] = "noting"]
    /\ doing' = [doing EXCEPT ![w].index = index]
    /\ UNCHANGED <<now, written, stored, index, publishing, bounds>>

NoteWrite(w) ==
    /\ at[w] = "noting"
    /\ index' = Note(doing[w].index, written[doing[w].record])
    /\ at' = [at EXCEPT ![w] = "idle"]
    /\ doing' = [doing EXCEPT ![w] = [record |-> None, index |-> EmptyIndex]]
    /\ UNCHANGED <<now, written, stored, publishing, bounds>>

-----------------------------------------------------------------------------
(* The publish pass.                                                       *)

\* Mutant: a segment that has grown old by the clock is sealed where it stands.
ShouldSealByClock(oldest, newest, count) ==
    count >= SealAt \/ now - written[oldest].wall >= SealSpan

\* should_seal: the open segment, of so many records from its oldest to its newest,
\* takes no more.
ShouldSeal(oldest, newest, count) ==
    count >= SealAt \/ written[newest].wall - written[oldest].wall >= SealSpan

\* The records replayed in order into segments, numbered from 0: each goes where
\* the one before it went, unless that segment is sealed first.
Cut(ids) ==
    CHOOSE segment \in [ids -> 0..(Cardinality(ids) - 1)] : \A id \in ids :
        LET before == {other \in ids : Precedes(other, id)}
            newest == CHOOSE j \in before : \A k \in before \ {j} : Precedes(k, j)
            open   == {j \in before : segment[j] = segment[newest]}
            oldest == CHOOSE j \in open : \A k \in open \ {j} : Precedes(j, k)
        IN  segment[id] =
                IF before = {} THEN 0
                ELSE segment[newest]
                     + (IF ShouldSeal(oldest, newest, Cardinality(open)) THEN 1 ELSE 0)

\* push refuses a reading that does not pass the one before it in its segment.
Pushable(segment) ==
    \A i, j \in DOMAIN segment :
        i # j /\ segment[i] = segment[j] => Reading(written[i]) # Reading(written[j])

\* Mutant: a pass that owes only a re-announcement does not look.
PassBeginIgnoresAge ==
    /\ pass.at = "idle"
    /\ index.last # None
    /\ through # index.last
    /\ pass' = [at |-> "begun", latest |-> index.last]
    /\ UNCHANGED <<now, writing, through, announced, chain, bounds>>

\* Is there anything this member wrote that is not published, or a re-announcement
\* due?
PassBegin ==
    /\ pass.at = "idle"
    /\ index.last # None
    /\ through # index.last \/ ~announced
    /\ pass' = [at |-> "begun", latest |-> index.last]
    /\ UNCHANGED <<now, writing, through, announced, chain, bounds>>

\* Replay every stored record; publish the segments, and the head index last.  A
\* record that does not append ends the pass with an error.
PassReplay ==
    /\ pass.at = "begun"
    /\ \E segment \in {Cut(stored)} :
           IF Pushable(segment)
           THEN chain' = segment /\ pass' = [pass EXCEPT !.at = "sent"]
           ELSE chain' = chain /\ pass' = Idle
    /\ UNCHANGED <<now, writing, through, announced, bounds>>

MarkThrough ==
    /\ pass.at = "sent"
    /\ through' = pass.latest
    /\ pass' = [pass EXCEPT !.at = "marked"]
    /\ UNCHANGED <<now, writing, announced, chain, bounds>>

MarkAnnounced ==
    /\ pass.at = "marked"
    /\ announced' = TRUE
    /\ pass' = Idle
    /\ UNCHANGED <<now, writing, through, chain, bounds>>

\* An hour goes by; or the node restarts, which forgets its announcements and
\* whatever pass was in progress.
AnnouncementAges ==
    /\ announced
    /\ announced' = FALSE
    /\ UNCHANGED <<now, writing, pass, through, chain, bounds>>

NodeRestarts ==
    /\ pass.at # "idle"
    /\ restarts < MaxRestarts
    /\ restarts' = restarts + 1
    /\ pass' = Idle
    /\ announced' = FALSE
    /\ UNCHANGED <<now, writing, through, chain, setbacks, deaths>>

-----------------------------------------------------------------------------
(* The clock, and writers that die.                                        *)

Tick ==
    /\ now < MaxClock
    /\ now' = now + 1
    /\ UNCHANGED <<writing, publishing, bounds>>

SetBack ==
    /\ setbacks + deaths < MaxAccidents
    /\ now' \in 0..(now - 1)
    /\ setbacks' = setbacks + 1
    /\ UNCHANGED <<writing, publishing, deaths, restarts>>

\* A writer that dies is started again no sooner than the next millisecond.
Die(w) ==
    /\ at[w] # "idle"
    /\ setbacks + deaths < MaxAccidents
    /\ now < MaxClock
    /\ now' = now + 1
    /\ deaths' = deaths + 1
    /\ at' = [at EXCEPT ![w] = "idle"]
    /\ doing' = [doing EXCEPT ![w] = [record |-> None, index |-> EmptyIndex]]
    /\ UNCHANGED <<written, stored, index, publishing, setbacks, restarts>>

Write(w) == Sign(w) \/ PutFile(w) \/ NoteRead(w) \/ NoteWrite(w)
Pass == PassBegin \/ PassReplay \/ MarkThrough \/ MarkAnnounced

Next ==
    \/ \E w \in Writers : Write(w) \/ Die(w)
    \/ Pass \/ AnnouncementAges \/ NodeRestarts
    \/ Tick \/ SetBack

\* The node runs its pass every two seconds and an hour goes by; a writer that has
\* signed goes on unless it dies.
Fairness ==
    /\ \A w \in Writers :
        WF_vars(PutFile(w)) /\ WF_vars(NoteRead(w)) /\ WF_vars(NoteWrite(w))
    /\ WF_vars(Pass) /\ WF_vars(AnnouncementAges)

Spec == Init /\ [][Next]_vars
FairSpec == Spec /\ Fairness
-----------------------------------------------------------------------------
(* Properties.  The two accidents a writer meets are a death between the   *)
(* record's file and the index, and a clock that is set back.              *)

\* Every record stored appends when the whole log is replayed, through either
\* accident.  A record that does not ends every later pass with an error, and
\* nothing this member writes is published again.
AlwaysPushable == Pushable(Cut(stored))

\* A record the writer's own check let through is one no reader withholds, through
\* clocks set back and an index pruned to the recent past; both rules are computed
\* over the author's readings so that the two sides agree.
NeverWithheld == deaths = 0 =>
    LET verdicts == Readers!WholePass(stored, Limits)
    IN  \A id \in stored : verdicts[id] = "admitted"

\* A segment that has been sealed never changes again, however often the chain is
\* rebuilt from the records: the one after it names it by its content.
SealedForGood == [][
    \A head \in DOMAIN chain, id \in 1..MaxRecords :
        /\ id \in DOMAIN chain /\ chain[id] < chain[head] =>
               id \in DOMAIN chain' /\ chain'[id] = chain[id]
        /\ id \in DOMAIN chain' /\ chain'[id] < chain[head] => id \in DOMAIN chain]_vars

\* A record stored is published, also one whose writer died before the index knew
\* of it: the hourly re-announcement finds what the index cannot.  An index that
\* knows of no record at all keeps the pass from looking, so a member's first record
\* in a channel is published by way of the index or of a later one.
EventuallyPublished ==
    \A id \in 1..MaxRecords :
        id \in stored /\ index.last # None ~> id \in DOMAIN chain
=============================================================================
