------------------------------ MODULE Backfill ------------------------------
(***************************************************************************)
(* How a node collects what other members wrote: which objects it asks     *)
(* for, how it takes in what arrived, how far back it walks each author's   *)
(* log, and what it tells the member about history it does not hold         *)
(* (kols-node serve.rs request_foreign_segments, absorb_segments,           *)
(* absorb_chain; store.rs segment marks and wants; kols-net publish.rs).     *)
(*                                                                         *)
(* An author's log is published over and over: publication p adds the       *)
(* reading p, replaces the index and replaces or starts the last segment.   *)
(* Objects are named by their content, so each publication has an index and *)
(* a segment of its own, and a sealed segment is the last publication of    *)
(* its sequence. Each log has one author and lies in one channel.           *)
(***************************************************************************)
EXTENDS Integers, FiniteSets

CONSTANTS
    Logs,          \* the other members' logs
    Channels,
    ChannelOf,     \* the channel each log is written in
    Start,         \* how many times each log was published when the node starts
    Length,        \* bound: how many times it ever is
    SealAt,        \* readings a segment takes before the next one is started
    Oversize,      \* objects over chat:segment-max-bytes, which readers refuse
    Retired,       \* <<log, sequence>> whose key this reader will never have
    Rank,          \* the order of the objects' names: a place for each
    Page,          \* HISTORY_PAGE
    Watched,       \* the channels another process asks history_incomplete about
    None,
    MaxWants,      \* bound: requests for older history
    MaxTurns,      \* bound: changes between room and no room on the disk
    MaxDeaths      \* bound: deaths of the node

Pubs(l) == 1..Length[l]

Index(l, p) == [log |-> l, pub |-> p, kind |-> "index"]
Segment(l, p) == [log |-> l, pub |-> p, kind |-> "segment"]

Indices == UNION {{Index(l, p) : p \in Pubs(l)} : l \in Logs}
Segments == UNION {{Segment(l, p) : p \in Pubs(l)} : l \in Logs}
Objects == Indices \cup Segments

(* The sequence of the segment that publication p ends in.                 *)
SequenceOf(p) == (p - 1) \div SealAt
Sequences == UNION {{SequenceOf(p) : p \in Pubs(l)} : l \in Logs}

(* The segment that s names as its predecessor: the sealed one before it.   *)
Previous(s) == IF SequenceOf(s.pub) = 0 THEN None
               ELSE Segment(s.log, SequenceOf(s.pub) * SealAt)

(* The readings a segment carries.                                         *)
Carried(s) == {[log |-> s.log, pub |-> p] :
                 p \in {q \in Pubs(s.log) : /\ q <= s.pub
                                            /\ SequenceOf(q) = SequenceOf(s.pub)}}

(* Everything behind a segment in its chain: the sealed segments before it. *)
Behind(s) == {Segment(s.log, n * SealAt) : n \in 1..SequenceOf(s.pub)}

ASSUME SizesAssumption ==
    /\ SealAt \in Nat \ {0}
    /\ Length \in [Logs -> Nat]
    /\ Start \in [Logs -> Nat] /\ \A l \in Logs : Start[l] <= Length[l]
ASSUME RankOrders ==
    /\ Rank \in [Objects -> Nat]
    /\ \A o \in Objects, q \in Objects : (Rank[o] = Rank[q]) => (o = q)
ASSUME NoneAssumption == None \notin Objects

VARIABLES
    pub,       \* how far each author has published
    index,     \* the newest index each pointer held here names; 0 for none
    pointers,  \* <<log, sequence>> -> the publication its pointer names; 0 for none
    bytes,     \* what is held of each object: "none", "manifest" or "whole"
    fetching,  \* the object being fetched, or None
    backfill,  \* the queue of objects a pass wanted and could not read
    stored,    \* the readings in the store
    links,     \* segments with a .link mark
    channelled,\* segments with a .channel mark
    whole,     \* segments with a .whole mark
    pinned,    \* segments with a .wanted mark
    wants,     \* per channel, the reading older history was asked before
    seen,      \* a reader's cached answer per channel: None, TRUE or FALSE
    pass,      \* the absorb pass under way
    room,      \* the disk is under its ceiling
    asks, turns, deaths

durable == <<stored, links, channelled, whole, pinned>>
others == <<pub, index, pointers>>
bounds == <<asks, turns, deaths>>
vars == <<pub, index, pointers, bytes, fetching, backfill, stored, links,
          channelled, whole, pinned, wants, seen, pass, room, asks, turns, deaths>>

Steps == {"idle", "logs", "link", "tally", "whole"}

(* No pass is under way.                                                   *)
Idle == [step |-> "idle", todo |-> {}, at |-> None, walked |-> {},
         asked |-> FALSE, again |-> FALSE]

Init ==
    /\ pub = Start
    /\ index = [l \in Logs |-> 0]
    /\ pointers = [ls \in Logs \X Sequences |-> 0]
    /\ bytes = [o \in Objects |-> "none"]
    /\ fetching = None
    /\ backfill = {}
    /\ stored = {} /\ links = {} /\ channelled = {} /\ whole = {} /\ pinned = {}
    /\ wants = [c \in Channels |-> None]
    /\ seen = [c \in Channels |-> None]
    /\ pass = Idle
    /\ room = TRUE
    /\ asks = 0 /\ turns = 0 /\ deaths = 0

-----------------------------------------------------------------------------
(* What other members do, and what pulling from them brings. The node hears *)
(* of it between passes only, so none of it is let happen during one.       *)

Publish(l) ==
    /\ pass.step = "idle"
    /\ pub[l] < Length[l]
    /\ pub' = [pub EXCEPT ![l] = @ + 1]
    /\ UNCHANGED <<index, pointers, bytes, fetching, backfill, durable, wants,
                   seen, pass, room, bounds>>

(* The objects asked for, in order: every head, then as much of the queue   *)
(* as the budget lets through, lowest name first.                           *)
Heads == {Index(l, index[l]) : l \in {k \in Logs : index[k] > 0}}

First(objects) ==
    CHOOSE o \in objects : \A q \in objects : Rank[o] <= Rank[q]

Before(o, objects) == Cardinality({q \in objects : Rank[q] < Rank[o]})

(* A mutated form: a page for whoever asked is forgotten.                   *)
BudgetForgetsAsked(asked) == IF room THEN Cardinality(Objects) ELSE 0

(* history_budget: everything with room, a page for whoever asked, nothing  *)
(* otherwise.                                                              *)
HistoryBudget(asked) == IF room THEN Cardinality(Objects)
                        ELSE IF asked THEN Page ELSE 0

Taken(queue, budget) == {o \in queue : Before(o, queue) < budget}

Refused(o) == bytes[o] # "none" /\ o \in Oversize

(* A mutated form: an object is asked for once.                             *)
WantingOnce(o) == bytes[o] = "none"

(* wanted_chunks is not empty: the manifest, or chunks of an object the     *)
(* manifest of which is within the ceiling.                                 *)
Wanting(o) == bytes[o] = "none" \/ (bytes[o] = "manifest" /\ ~Refused(o))

(* request_foreign_segments: the first object in order that lacks anything. *)
Planned(queue, asked) ==
    LET heads == {o \in Heads : Wanting(o)}
        older == {o \in Taken(queue, HistoryBudget(asked)) : Wanting(o)}
    IN  IF heads # {} THEN First(heads)
        ELSE IF older # {} THEN First(older)
        ELSE None

Asked == \E c \in Channels : wants[c] # None

(* A pull brought the index pointer of a log, or the pointers and wrappings *)
(* of its segments: either may come first. They are written down, and a     *)
(* request follows with what they now name.                                 *)
IndexArrives(l) ==
    /\ pass.step = "idle"
    /\ index[l] < pub[l]
    /\ index' = [index EXCEPT ![l] = pub[l]]
    /\ UNCHANGED <<pub, pointers, bytes, backfill, durable, wants, seen, pass,
                   room, bounds>>
    /\ fetching' = IF fetching = None THEN Planned(backfill, Asked)' ELSE fetching

(* The newest publication of sequence s there is.                          *)
Newest(l, s) == IF pub[l] <= s * SealAt THEN 0
                ELSE IF pub[l] >= (s + 1) * SealAt THEN (s + 1) * SealAt
                ELSE pub[l]

Brought(l, s) == IF <<l, s>> \in Retired THEN 0 ELSE Newest(l, s)

(* put_pointer: one file per pointer, rewritten as it advances.             *)
PutPointers(l) ==
    pointers' = [ls \in DOMAIN pointers |->
                   IF ls[1] = l THEN Brought(l, ls[2]) ELSE pointers[ls]]

SegmentsArrive(l) ==
    /\ pass.step = "idle"
    /\ \E s \in Sequences : Brought(l, s) # pointers[<<l, s>>]
    /\ PutPointers(l)
    /\ UNCHANGED <<pub, index, bytes, fetching, backfill, durable, wants, seen,
                   pass, room, bounds>>

Pull == \E l \in Logs : IndexArrives(l) \/ SegmentsArrive(l)

-----------------------------------------------------------------------------
(* What the marks say of a segment: read before, and where its chain goes;  *)
(* everything behind it held.                                              *)
HasLink(s) == s \in links
ChainWhole(s) == s \in whole

(* The pass: absorb_segments, one log after another, one write at a time.   *)

(* fetch_segment, three ways: in hand, refused for its size, or not yet.    *)
Readable(o) == bytes[o] = "whole" /\ ~Refused(o)

Resolvable(s) == pointers[<<s.log, SequenceOf(s.pub)>>] > 0

HeadOf(l) == Segment(l, pointers[<<l, SequenceOf(index[l])>>])

Opens(l) == index[l] > 0 /\ Readable(Index(l, index[l]))

(* The segment the index names can be read, so the log can be walked.       *)
Walkable(l) == Opens(l) /\ HeadOf(l).pub > 0 /\ Readable(HeadOf(l))

(* Indices and heads a pass tries and cannot read. Those refused leave the  *)
(* queue, the others join it.                                               *)
Missed == {o \in Heads : ~Readable(o)}
          \cup {HeadOf(l) : l \in {k \in Logs : Opens(k) /\ HeadOf(k).pub > 0
                                                /\ ~Walkable(k)}}
Turned == {o \in Missed : Refused(o)}
Awaited == Missed \ Turned

(* A pass begins. The logs it cannot read cost it only their place in the   *)
(* queue; if no log can be walked it is over, and a request follows if      *)
(* something had come.                                                      *)
Begin(asked, again) ==
    /\ backfill' = (backfill \ Turned') \cup Awaited'
    /\ pass' = LET logs == {l \in Logs : Walkable(l)'} IN
               IF logs = {} THEN Idle
               ELSE [Idle EXCEPT !.step = "logs", !.todo = logs,
                                 !.asked = asked, !.again = again]

(* The tick: wants that are met are retired, a request, then a pass. A want *)
(* is met by a reading older than the one it named, or by chains that have  *)
(* run out (history_incomplete says no).                                    *)
Incomplete(c) ==
    \E s \in links : /\ s \in channelled => ChannelOf[s.log] = c
                     /\ Previous(s) # None
                     /\ ~HasLink(Previous(s))

Met(c) == \/ \E r \in stored : ChannelOf[r.log] = c /\ r.pub < wants[c]
          \/ ~Incomplete(c)

Tick ==
    /\ pass.step = "idle"
    /\ wants' = [c \in Channels |-> IF wants[c] # None /\ Met(c) THEN None
                                    ELSE wants[c]]
    /\ fetching' = IF fetching = None THEN Planned(backfill, Asked') ELSE fetching
    /\ UNCHANGED <<others, bytes, durable, seen, room, bounds>>
    /\ Begin(Asked', FALSE)

(* A fetch ends: with the manifest, with the chunks it names, or with       *)
(* nothing. A pass follows, and after it a request if something came.       *)
PutChunks(o) == bytes' = [bytes EXCEPT ![o] = IF @ = "none" THEN "manifest" ELSE "whole"]

FetchArrives ==
    /\ pass.step = "idle"
    /\ fetching # None
    /\ PutChunks(fetching)
    /\ UNCHANGED <<others, durable, wants, seen, room, bounds>>
    /\ Begin(Asked, TRUE)
    /\ fetching' = IF pass'.step = "idle" THEN Planned(backfill, Asked)' ELSE None

FetchFails ==
    /\ pass.step = "idle"
    /\ fetching # None
    /\ fetching' = None
    /\ UNCHANGED <<others, bytes, durable, wants, seen, room, bounds>>
    /\ Begin(Asked, FALSE)

(* The walk of the next log sets out from its head.                         *)
TakeLog ==
    /\ pass.step = "logs"
    /\ pass.todo # {}
    /\ LET l == CHOOSE k \in pass.todo :
                   \A m \in pass.todo : Rank[Index(k, 1)] <= Rank[Index(m, 1)]
       IN  pass' = [pass EXCEPT !.step = "link", !.todo = @ \ {l},
                                !.at = HeadOf(l), !.walked = {}]
    /\ UNCHANGED <<others, bytes, fetching, backfill, durable, wants, seen, room,
                   bounds>>

(* A mutated form: a segment with a link is read, and its walk is over.      *)
LinkedIsDone ==
    LET s == pass.at IN
    /\ pass.step = "link"
    /\ stored' = stored \cup Carried(s)
    /\ pinned' = pinned
    /\ backfill' = backfill \ {s}
    /\ links' = links \cup {s}
    /\ pass' = IF s \in links THEN [pass EXCEPT !.step = "logs", !.walked = {}]
               ELSE [pass EXCEPT !.step = "tally", !.walked = @ \cup {s}]
    /\ UNCHANGED <<others, bytes, fetching, channelled, whole, wants, seen, room,
                   bounds>>

(* A segment is taken in: its readings, the pin of one that was asked for,  *)
(* and then its link, in one step, as what comes before a link is stored    *)
(* again and nothing is claimed of it. A segment whose link is there was     *)
(* read before, and the walk carries it on with no readings in it.          *)
WriteLink ==
    LET s == pass.at IN
    /\ pass.step = "link"
    /\ stored' = IF HasLink(s) /\ pass.walked # {} THEN stored
                 ELSE stored \cup Carried(s)
    /\ pinned' = IF pass.asked /\ pass.walked # {} THEN pinned \cup {s} ELSE pinned
    /\ backfill' = backfill \ {s}
    /\ links' = links \cup {s}
    /\ pass' = [pass EXCEPT !.step = "tally", !.walked = @ \cup {s}]
    /\ UNCHANGED <<others, bytes, fetching, channelled, whole, wants, seen, room,
                   bounds>>

(* A mutated form: a held predecessor counts as a whole chain.              *)
EndsAtHeld(s) == Previous(s) = None \/ Previous(s) \in links

(* The walk goes on to the predecessor: it ends whole at the start of the   *)
(* log or at a segment marked whole, follows a link it has, and otherwise   *)
(* needs the predecessor's key and bytes.                                   *)
ChainEnds(s) == Previous(s) = None \/ ChainWhole(Previous(s))

Queue(o) == IF Refused(o) THEN backfill \ {o} ELSE backfill \cup {o}

(* The tally moves, which is what makes a reader forget what it cached, the *)
(* segment's channel is marked, and the walk takes its next hop.            *)
MoveTally ==
    LET s == pass.at
        back == Previous(s)
        ended == [pass EXCEPT !.step = "logs", !.at = None, !.walked = {}]
    IN  /\ pass.step = "tally"
        /\ seen' = [c \in Channels |-> None]
        /\ channelled' = channelled \cup {s}
        /\ IF ChainEnds(s)
           THEN pass' = [pass EXCEPT !.step = "whole"] /\ backfill' = backfill
           ELSE IF HasLink(back) \/ (Resolvable(back) /\ Readable(back))
           THEN pass' = [pass EXCEPT !.step = "link", !.at = back] /\ backfill' = backfill
           ELSE /\ pass' = ended
                /\ backfill' = IF Resolvable(back) THEN Queue(back) ELSE backfill
        /\ UNCHANGED <<others, bytes, fetching, stored, links, whole, pinned, wants,
                       room, bounds>>

(* Only then is what was walked marked whole, one mark after another from   *)
(* the head back.                                                           *)
MarkWhole ==
    /\ pass.step = "whole"
    /\ pass.walked # {}
    /\ LET s == CHOOSE t \in pass.walked : \A u \in pass.walked : u.pub <= t.pub
       IN  /\ whole' = whole \cup {s}
           /\ pass' = IF pass.walked = {s}
                      THEN [pass EXCEPT !.step = "logs", !.at = None, !.walked = {}]
                      ELSE [pass EXCEPT !.walked = @ \ {s}]
    /\ UNCHANGED <<others, bytes, fetching, backfill, stored, links, channelled,
                   pinned, wants, seen, room, bounds>>

EndPass ==
    /\ pass.step = "logs"
    /\ pass.todo = {}
    /\ pass' = Idle
    /\ fetching' = IF pass.again /\ fetching = None THEN Planned(backfill, Asked)
                   ELSE fetching
    /\ UNCHANGED <<others, bytes, backfill, durable, wants, seen, room, bounds>>

Pass == TakeLog \/ WriteLink \/ MoveTally \/ MarkWhole \/ EndPass

-----------------------------------------------------------------------------
(* A member asks for what is older than a reading on the screen; the note   *)
(* replaces the one before it.                                              *)
FetchHistory(c, r) ==
    /\ pass.step \in {"idle", "logs"}
    /\ asks < MaxWants
    /\ r \in stored
    /\ ChannelOf[r.log] = c
    /\ wants' = [wants EXCEPT ![c] = r.pub]
    /\ asks' = asks + 1
    /\ UNCHANGED <<others, bytes, fetching, backfill, durable, seen, pass, room,
                   turns, deaths>>

(* Another process asks history_incomplete; the answer is kept until the    *)
(* tally moves. At the other steps of a pass it would read what it reads    *)
(* at one of these.                                                         *)
Ask(c) ==
    /\ pass.step \in {"idle", "tally"}
    /\ seen[c] = None
    /\ seen' = [seen EXCEPT ![c] = Incomplete(c)]
    /\ UNCHANGED <<others, bytes, fetching, backfill, durable, wants, pass, room,
                   bounds>>

(* The disk fills up, or the ceiling is raised.                            *)
Turn ==
    /\ turns < MaxTurns
    /\ pass.step = "idle"
    /\ room' = ~room
    /\ turns' = turns + 1
    /\ UNCHANGED <<others, bytes, fetching, backfill, durable, wants, seen, pass,
                   asks, deaths>>

(* The node dies and starts again: chunks, pointers and marks were written  *)
(* down as they came (put_chunk, keep_pointers, restore_contribution), the  *)
(* queue was not.                                                           *)
Die ==
    /\ deaths < MaxDeaths
    /\ fetching' = None
    /\ backfill' = {}
    /\ pass' = Idle
    /\ deaths' = deaths + 1
    /\ UNCHANGED <<others, bytes, durable, wants, seen, room, asks, turns>>

Next ==
    \/ \E l \in Logs : Publish(l)
    \/ Pull
    \/ Tick \/ FetchArrives \/ FetchFails \/ Pass
    \/ \E c \in Channels, r \in stored : FetchHistory(c, r)
    \/ \E c \in Watched : Ask(c)
    \/ Turn \/ Die

Spec == Init /\ [][Next]_vars

(* The tick comes every two seconds and the pass it starts runs to its end; *)
(* pulls repeat; of the fetches of an object that some member serves, one   *)
(* in the end succeeds.                                                     *)
Fairness ==
    /\ WF_vars(Tick)
    /\ WF_vars(Pass)
    /\ SF_vars(FetchArrives)
    /\ SF_vars(Pull)

FairSpec == Spec /\ Fairness

-----------------------------------------------------------------------------

(* A segment is marked whole only when everything behind it is held, with   *)
(* its readings: a walk stops at such a mark, so a mark set early walls off *)
(* the rest of the chain for good (serve.rs absorb_chain, 3494-3511). This  *)
(* must survive a death between any two of the writes.                      *)
WholeIsHeld ==
    \A s \in whole : \A t \in {s} \cup Behind(s) :
        t \in links /\ Carried(t) \subseteq stored

(* The links of a channel run into history that is not held.               *)
Truncated(c) ==
    \E s \in links : ChannelOf[s.log] = c /\ ~(Behind(s) \subseteq links)

(* A reader is told, in the end, that a channel is truncated: the answer it *)
(* cached before a death between the link and the tally does not stand      *)
(* (store.rs history_incomplete, "it can never call a truncated one whole").*)
TruncatedIsTold ==
    \A c \in Watched : Truncated(c) ~> (seen[c] # FALSE \/ ~Truncated(c))

(* Logs no part of which is refused or has lost its key.                   *)
Unobstructed(l) ==
    /\ \A o \in Oversize : o.log # l
    /\ \A ls \in Retired : ls[1] # l

(* With room on the disk the whole of every readable log is collected, back *)
(* to its first segment, whatever order pointers, manifests and chunks come *)
(* in, and whatever is refused in another log.                              *)
AllArrives ==
    <>[]room =>
        \A l \in {k \in Logs : Unobstructed(k)} :
            <>[](\A s \in {Segment(l, pub[l])} : {s} \cup Behind(s) \subseteq links)

(* The page is taken up by objects that need nothing while others wait.     *)
Crowded ==
    /\ \A o \in Taken(backfill, Page) : ~Wanting(o)
    /\ \E o \in backfill : Wanting(o)

(* At the ceiling too, a request for older history is answered: what is     *)
(* older arrives, or the log is known to hold no more. It is not when the   *)
(* page is crowded by indices the queue never lets go of.                   *)
AskedIsBrought ==
    \A c \in Channels :
        (\A l \in Logs : ChannelOf[l] = c => Unobstructed(l)) =>
            ((wants[c] # None) ~> (wants[c] = None \/ Crowded))

=============================================================================
