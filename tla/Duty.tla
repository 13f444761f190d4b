-------------------------------- MODULE Duty --------------------------------
(***************************************************************************)
(* What a node holds for the network and when it gives it back: placement   *)
(* and repair (kols-node replica.rs evaluate), the census of who else holds *)
(* an object, shedding cached and promised copies over the ceiling           *)
(* (shed_cache, shed_duty), the at-risk marks (store.rs), and the            *)
(* measurement of the disk that the nodes of one installation share          *)
(* (serve.rs DiskWatch).                                                    *)
(*                                                                         *)
(* An object is a sealed segment. Which of them a node has walked over and   *)
(* linked is Backfill's business; here a node fetches an object once. Time   *)
(* is left out: an answer may go stale at any moment, a measurement may      *)
(* expire, and a week may pass, which is longer than either.                *)
(***************************************************************************)
EXTENDS Integers, FiniteSets, SequencesExt, Promises

CONSTANTS
    Objects,
    NetworkOf,     \* the network of each node and of each object
    DiskOf,        \* the installation each node runs in
    Placement,     \* for each object, every node of its network as ranked
    Age,           \* each object's place in its chain, and its place by name
    Size,          \* what each object weighs
    Factor,        \* the network's replication factor
    Offered,       \* what each node offers its network
    SafeHolders,   \* SAFE_HOLDERS
    Ceilings,      \* the ceilings a member chooses from
    Start,         \* what each node holds and has linked at first
    Unknown,       \* nobody has answered
    Ceiling,       \* the ceiling of each installation at first
    MaxSettings,   \* bound: changes of a ceiling
    MaxMishaps     \* bound: machines that go away for good, restarts, ticks
                   \* cut short, and holders an answer leaves out, all together

Disks == {DiskOf[n] : n \in Nodes}
Here(n) == {o \in Objects : NetworkOf[o] = NetworkOf[n]}

ASSUME NamesDiffer == \A o \in Objects, p \in Objects : Age[o] = Age[p] => o = p
ASSUME SafeHoldersAssumption == SafeHolders \in Nat \ {0}

(* Finitely many nodes, which hold at first what is of their network; and no *)
(* number for not knowing.                                                 *)
Arranged ==
    /\ IsFiniteSet(Nodes) /\ SafeHolders \in Nat
    /\ Start \in [Nodes -> SUBSET Objects] /\ \A n \in Nodes : Start[n] \subseteq Here(n)
    /\ Unknown \notin Int
ASSUME ArrangedAssumption == Arranged

VARIABLES
    linked,    \* the objects each node has walked over; never fetched again
    stubs,     \* the objects whose manifest is on disk without their chunks
    repair,    \* .repair marks
    wanted,    \* .wanted marks younger than PIN_MILLIS
    heard,     \* the census: how many others hold an object, or Unknown
    records,   \* the provider records a query finds
    offers,    \* the nodes that advertise storage
    ledger,    \* what each node knows of that
    ceiling,   \* the installation's ceiling, of the disk as a whole
    shared,    \* MEASURED: what was measured last, and whether that is fresh
    disk,      \* each node's copy of it, its DiskWatch
    gone,      \* machines that are gone for good
    settings, mishaps

files == <<held, stubs, linked, duty, repair, risk, wanted, dropped>>
outside == <<offers, ledger, ceiling, gone>>
bounds == <<settings, mishaps>>
vars == <<held, stubs, linked, duty, repair, risk, wanted, dropped, heard, records,
          offers, ledger, ceiling, shared, disk, gone, gaveUp,
          settings, mishaps>>

Weights == [objects \in SUBSET Objects |->
              FoldSet(LAMBDA o, sum : sum + Size[o], 0, objects)]
Weight(objects) == Weights[objects]

(* object_bytes says what an object weighs while its manifest is there; what  *)
(* a manifest weighs without its chunks is little, and counted as nothing.    *)
Manifests(n) == held[n] \cup stubs[n]
Bytes(n, objects) == Weight(objects \cap held[n])

(* stored_bytes of every store in the installation.                        *)
Stored(d) == FoldSet(LAMBDA n, sum : sum + Weight(held[n]), 0,
                     {n \in Nodes : DiskOf[n] = d})

Running == Nodes \ gone

(* A measurement that is too old to be read.                               *)
Unmeasured == [used |-> 0, ceiling |-> 0, fresh |-> FALSE]

Init ==
    /\ held = Start /\ linked = Start
    /\ stubs = [n \in Nodes |-> {}]
    /\ duty = [n \in Nodes |-> {}] /\ repair = [n \in Nodes |-> {}]
    /\ risk = [n \in Nodes |-> [o \in Here(n) |-> "none"]]
    /\ wanted = [n \in Nodes |-> {}]
    /\ dropped = [n \in Nodes |-> {}]
    /\ heard = [n \in Nodes |-> [o \in Here(n) |-> Unknown]]
    /\ records = [o \in Objects |-> {n \in Nodes : o \in Start[n]}]
    /\ offers = {n \in Nodes : Offered[n] > 0}
    /\ ledger = [n \in Nodes |-> {m \in offers : NetworkOf[m] = NetworkOf[n]}]
    /\ ceiling = Ceiling
    /\ shared = [d \in Disks |-> Unmeasured]
    /\ disk = [n \in Nodes |-> Unmeasured]
    /\ gone = {}
    /\ gaveUp = [o \in Objects |-> {}]
    /\ settings = 0 /\ mishaps = 0

-----------------------------------------------------------------------------
(* The disk. A tick looks at it first: a copy that is no longer fresh is    *)
(* replaced by the shared measurement, taken anew if that is stale too.     *)

Measured(d) == IF shared[d].fresh THEN shared[d]
               ELSE [used |-> Stored(d), ceiling |-> 0, fresh |-> TRUE]

Looked(n) == IF disk[n].fresh THEN disk[n]
             ELSE [Measured(DiskOf[n]) EXCEPT !.ceiling = ceiling[DiskOf[n]]]

(* Every copy of a measurement is as old as the measurement.               *)
MeasureAges(d) ==
    /\ shared[d].fresh
    /\ shared' = [shared EXCEPT ![d] = Unmeasured]
    /\ disk' = [n \in Nodes |->
                  IF DiskOf[n] = d THEN Unmeasured ELSE disk[n]]
    /\ UNCHANGED <<files, heard, records, outside, gaveUp, bounds>>

OverBy(look) == Max({0, look.used - look.ceiling})

-----------------------------------------------------------------------------
(* The census.                                                             *)

Others(n, o) == records[o] \ {n}

(* A query nobody had a fresh answer to is answered, from the records there *)
(* are; the enumeration may leave somebody out.                             *)
Hear(n, o) ==
    /\ n \in Running
    /\ o \in linked[n]
    /\ heard[n][o] = Unknown
    /\ \E missed \in 0..Min({Cardinality(Others(n, o)), MaxMishaps - mishaps}) :
         /\ heard' = [heard EXCEPT ![n][o] = Cardinality(Others(n, o)) - missed]
         /\ mishaps' = mishaps + missed
    /\ UNCHANGED <<files, records, outside, shared, disk, gaveUp,
                   settings>>

(* Ten minutes later the answer counts for nothing.                        *)
Stale(n, o) ==
    /\ heard[n][o] # Unknown
    /\ heard' = [heard EXCEPT ![n][o] = Unknown]
    /\ UNCHANGED <<files, records, outside, shared, disk, gaveUp, bounds>>

(* A provider record outlives the bytes it names, and ages out, unless a     *)
(* manifest is left that is announced again.                               *)
RecordAges(o) ==
    \E n \in records[o] :
        /\ n \in gone \/ o \notin Manifests(n)
        /\ records' = [records EXCEPT ![o] = @ \ {n}]
        /\ UNCHANGED <<files, heard, outside, shared, disk, gaveUp, bounds>>

-----------------------------------------------------------------------------
(* Shedding, oldest first, until the excess is gone.                       *)

Older(o, objects) == {p \in objects : Age[p] < Age[o]}
Oldest(n, objects, over) == {o \in objects : Bytes(n, Older(o, objects)) < over}

(* shed_cache: what is no duty and was not asked for within the hour.       *)
CacheShed(n, over) == Oldest(n, Manifests(n) \ (duty[n] \cup wanted[n]), over)

(* How many holders make a copy safe to give up.                           *)
Enough(n) == Min({SafeHolders, Cardinality(ledger[n] \ {n})})

(* A mutated form: with nobody to ask, nobody is asked.                     *)
SafeUnasked(n, o) == heard[n][o] # Unknown /\ heard[n][o] >= Enough(n)

Safe(n, o) == heard[n][o] # Unknown /\ heard[n][o] >= Enough(n) /\ Enough(n) > 0

(* Known to be held by too few others; a week after it was first found so   *)
(* it is given up for lost. Without an answer nothing is decided.           *)
AtRisk(n, o) == heard[n][o] # Unknown /\ ~Safe(n, o)
Lapsed(n, o) == AtRisk(n, o) /\ risk[n][o] = "week"

(* shed_duty gives up what others hold and what has lapsed, and looks at     *)
(* whatever it promised that comes before the excess is gone.              *)
DutyShed(n, over) ==
    Oldest(n, {o \in duty[n] \cap Manifests(n) : Safe(n, o) \/ Lapsed(n, o)}, over)

Reached(n, over) ==
    {o \in duty[n] : Bytes(n, Older(o, DutyShed(n, over))) < over}

(* The at-risk marks, where some promises have been looked at and the marks  *)
(* of some removed at the end: one goes as soon as others hold the object.   *)
Marked(n, reached, removed) ==
    [o \in Here(n) |->
        IF o \in removed \/ (o \in reached /\ Safe(n, o)) THEN "none"
        ELSE IF o \in reached /\ AtRisk(n, o) /\ risk[n][o] = "none" THEN "marked"
        ELSE risk[n][o]]

-----------------------------------------------------------------------------
(* Placement and repair, over what is left.                                *)

Ranked(n, o) == SelectSeq(Placement[o], LAMBDA m : m \in ledger[n])
IsRanked(n, o) == n \in Range(Ranked(n, o))
Place(n, o) == CHOOSE i \in 1..Len(Ranked(n, o)) : Ranked(n, o)[i] = n
Primary(n, o) == IsRanked(n, o) /\ Place(n, o) <= Factor
Standby(n, o) == IsRanked(n, o) /\ Place(n, o) > Factor

(* How many copies short an object is without this node's.                 *)
Shortfall(n, o) == Max({0, Factor - heard[n][o]})

(* A mutated form: whoever is ranked out gives back a repair as well.       *)
KeepsPlaced(n, o) == Primary(n, o)

(* Duty that is kept: placed here, or a repair nobody has been told is      *)
(* needless.                                                               *)
Keeps(n, o) == \/ Primary(n, o)
               \/ /\ Standby(n, o) /\ o \in repair[n]
                  /\ (heard[n][o] = Unknown \/ Shortfall(n, o) > 0)

(* A mutated form: the one next in line waits for a second copy to be lost. *)
StepsLater(n, o) == /\ Standby(n, o) /\ heard[n][o] # Unknown
                    /\ Place(n, o) - Factor < Shortfall(n, o)

(* A standby takes on what is short by at least its distance.              *)
Steps(n, o) == /\ Standby(n, o) /\ heard[n][o] # Unknown
               /\ Place(n, o) - Factor <= Shortfall(n, o)

(* What is taken in order of age, each where it fits what those before it    *)
(* left of the room.                                                        *)
Fitting(n, objects, room) ==
    LET fits[o \in objects] ==
            Bytes(n, {o} \cup {p \in Older(o, objects) : fits[p]}) <= room
    IN  {o \in objects : fits[o]}

(* Up to the room left in the offer and under the ceiling, oldest first,     *)
(* what is placed here is taken on, then what is repaired.                 *)
Evaluated(n, holds, promised, room) ==
    LET placed == Fitting(n, {o \in holds \ promised : Primary(n, o)}, room)
    IN  [kept    |-> {o \in promised : Keeps(n, o)},
         placed  |-> placed,
         adopted |-> Fitting(n, {o \in holds \ promised : Steps(n, o)},
                            room - Bytes(n, placed))]

Shed(n, over) ==
    LET cache == CacheShed(n, over)
        excess == Max({0, over - Bytes(n, cache)})
    IN  [cache |-> cache, given |-> DutyShed(n, excess), reached |-> Reached(n, excess)]

(* What the network and the installation leave room for (duty_pass).        *)
Room(n, promised, look, used) ==
    Min({Max({0, Offered[n] - Weight(promised)}), Max({0, look.ceiling - used})})

(* The marks of what is promised, and what they weigh.                      *)
TakesDuty(n, now) ==
    duty' = [duty EXCEPT ![n] = now.kept \cup now.placed \cup now.adopted]

(* Every node reads one measurement, so every node sees what this one gave up *)
(* and took on.                                                            *)
Corrected(n, lost, took) ==
    [Measured(DiskOf[n]) EXCEPT !.used = Max({0, @ - Bytes(n, lost)}) + Bytes(n, took)]

GivenUp(n, lost) ==
    gaveUp' = [o \in Objects |-> IF o \in lost THEN gaveUp[o] \cup {n} ELSE gaveUp[o]]

(* What a tick changes: the files of what was given up, of what is promised  *)
(* now and what is repaired, and what every node here knows of the disk. A   *)
(* repair mark without a promise is left alone.                             *)
Settled(n, look, shed, lost, used, now) ==
    /\ held' = [held EXCEPT ![n] = @ \ lost]
    /\ stubs' = [stubs EXCEPT ![n] = @ \ lost]
    /\ GivenUp(n, lost)
    /\ risk' = [risk EXCEPT ![n] = Marked(n, shed.reached, shed.given)]
    /\ dropped' = [dropped EXCEPT ![n] = @ \cup {o \in shed.given : ~Safe(n, o)}]
    /\ TakesDuty(n, now)
    /\ repair' = [repair EXCEPT ![n] =
                    {o \in @ \ lost : o \in duty[n] => o \in now.kept /\ ~Primary(n, o)}
                        \cup now.adopted]
    /\ disk' = [disk EXCEPT ![n] = [look EXCEPT !.used = used + Bytes(n, now.adopted)]]
    /\ shared' = [shared EXCEPT ![DiskOf[n]] = Corrected(n, lost, now.adopted)]

(* The tick: look at the disk, shed what is over the ceiling, evaluate duty. *)
Tick(n) ==
    /\ n \in Running
    /\ \E look \in {Looked(n)} : \E shed \in {Shed(n, OverBy(look))} :
       \E lost \in {shed.cache \cup shed.given} :
       \E used \in {Max({0, look.used - Bytes(n, lost)})} :
       \E now \in {Evaluated(n, Manifests(n) \ lost, duty[n] \ lost,
                             Room(n, duty[n] \ lost, look, used))} :
           Settled(n, look, shed, lost, used, now)
    /\ UNCHANGED <<linked, wanted, heard, records, outside, bounds>>

-----------------------------------------------------------------------------
(* What happens around them.                                               *)

(* Backfill brings an object, and it is announced. One a member asked for   *)
(* is pinned.                                                              *)
Fetch(n, o) ==
    /\ n \in Running
    /\ o \in Here(n) \ linked[n]
    /\ \E m \in Running \ {n} : o \in held[m]
    /\ \E asked \in BOOLEAN :
         wanted' = IF asked THEN [wanted EXCEPT ![n] = @ \cup {o}] ELSE wanted
    /\ held' = [held EXCEPT ![n] = @ \cup {o}]
    /\ linked' = [linked EXCEPT ![n] = @ \cup {o}]
    /\ records' = [records EXCEPT ![o] = @ \cup {n}]
    /\ UNCHANGED <<stubs, duty, repair, risk, dropped, heard, outside, shared, disk,
                   gaveUp, bounds>>

SyncLedger(n) ==
    /\ n \in Running
    /\ ledger[n] # {m \in offers : NetworkOf[m] = NetworkOf[n]}
    /\ ledger' = [ledger EXCEPT ![n] = {m \in offers : NetworkOf[m] = NetworkOf[n]}]
    /\ UNCHANGED <<files, heard, records, offers, ceiling, gone, shared, disk, gaveUp, bounds>>

(* A member changes the ceiling, which a node reads when it next measures.  *)
SetCeiling(d, c) ==
    /\ settings < MaxSettings /\ c # ceiling[d]
    /\ ceiling' = [ceiling EXCEPT ![d] = c]
    /\ settings' = settings + 1
    /\ UNCHANGED <<files, heard, records, offers, ledger, gone, shared, disk, gaveUp, mishaps>>

(* A week: every answer, measurement and pin is older than it may be, and   *)
(* every mark is old enough.                                               *)
WeekPasses ==
    /\ \E n \in Nodes, o \in Objects : o \in Here(n) /\ risk[n][o] = "marked"
    /\ risk' = [n \in Nodes |-> [o \in Here(n) |->
                  IF risk[n][o] = "marked" THEN "week" ELSE risk[n][o]]]
    /\ wanted' = [n \in Nodes |-> {}]
    /\ heard' = [n \in Nodes |-> [o \in Here(n) |-> Unknown]]
    /\ shared' = [d \in Disks |-> Unmeasured]
    /\ disk' = [n \in Nodes |-> Unmeasured]
    /\ UNCHANGED <<held, stubs, linked, duty, repair, dropped, records, outside,
                   gaveUp, bounds>>

PinAges(n, o) ==
    /\ o \in wanted[n]
    /\ wanted' = [wanted EXCEPT ![n] = @ \ {o}]
    /\ UNCHANGED <<held, stubs, linked, duty, repair, risk, dropped, heard, records,
                   outside, shared, disk, gaveUp, bounds>>

(* A node starts again: the census and its look at the disk were memory,    *)
(* the marks are files, and what it has manifests of is announced            *)
(* (restore_contribution).                                                  *)
StartsAgain(n) ==
    /\ mishaps < MaxMishaps /\ n \in Running
    /\ heard' = [heard EXCEPT ![n] = [o \in Here(n) |-> Unknown]]
    /\ disk' = [disk EXCEPT ![n] = Unmeasured]
    /\ records' = [o \in Objects |->
                     IF o \in Manifests(n)' THEN records[o] \cup {n} ELSE records[o]]
    /\ mishaps' = mishaps + 1

Restart(n) ==
    /\ UNCHANGED <<files, outside, shared, gaveUp, settings>>
    /\ StartsAgain(n)

(* A mutated form: the mark goes before the object does.                    *)
OrderMarkFirst ==
    [mark |-> 1, chunks |-> 2, manifest |-> 3, duty |-> 4, repair |-> 5, record |-> 6]

(* The order in which an object's files go, the loss of it is written down,  *)
(* and the at-risk mark goes.                                              *)
Order == [chunks |-> 1, manifest |-> 2, duty |-> 3, repair |-> 4, record |-> 5, mark |-> 6]

(* What a death at some step leaves of what was to be shed: all of what came *)
(* before is done, of the last object the steps so far.                     *)
CutOff(n, shed, o, step) ==
    LET done == IF o \in shed.cache THEN Older(o, shed.cache)
                ELSE shed.cache \cup Older(o, shed.given)
        Past(file) == IF step >= Order[file] THEN done \cup {o} ELSE done
        reached == IF o \in shed.cache THEN {} ELSE {o} \cup Older(o, shed.reached)
    IN  /\ held' = [held EXCEPT ![n] = @ \ Past("chunks")]
        /\ stubs' = [stubs EXCEPT ![n] = (@ \cup Past("chunks")) \ Past("manifest")]
        /\ GivenUp(n, Past("chunks"))
        /\ duty' = [duty EXCEPT ![n] = @ \ Past("duty")]
        /\ repair' = [repair EXCEPT ![n] = @ \ Past("repair")]
        /\ dropped' = [dropped EXCEPT ![n] =
                         @ \cup {p \in Past("record") \cap shed.given : ~Safe(n, p)}]
        /\ risk' = [risk EXCEPT ![n] = Marked(n, reached, Past("mark") \cap shed.given)]
        /\ shared' = [shared EXCEPT ![DiskOf[n]] =
                        Corrected(n, IF o \in shed.cache THEN {} ELSE shed.cache, {})]

(* A node dies, or ends as it cannot write, in the middle of shedding, and    *)
(* starts again.                                                           *)
CutShort(n) ==
    /\ \E look \in {Looked(n)} : \E shed \in {Shed(n, OverBy(look))} :
       \E o \in shed.cache \cup shed.given, step \in 1..6 : CutOff(n, shed, o, step)
    /\ StartsAgain(n)
    /\ UNCHANGED <<linked, wanted, outside, settings>>

(* A machine goes for good; somebody is left to say what becomes of it.      *)
Lose(n) ==
    /\ mishaps < MaxMishaps /\ n \in Running /\ Running # {n}
    /\ gone' = gone \cup {n}
    /\ mishaps' = mishaps + 1
    /\ offers' = offers \ {n}
    /\ UNCHANGED <<files, heard, records, ledger, ceiling, shared, disk, gaveUp, settings>>

Census(n, o) == Hear(n, o) \/ Stale(n, o)

(* Provider records of what a node no longer holds run out one after the   *)
(* other, and every node pulls the ledger until it has it.                 *)
Spreads == (\E o \in Objects : RecordAges(o)) \/ (\E n \in Nodes : SyncLedger(n))

Next ==
    \/ \E n \in Nodes : Tick(n) \/ Restart(n) \/ CutShort(n) \/ Lose(n)
    \/ \E n \in Nodes : \E o \in Here(n) : Census(n, o) \/ Fetch(n, o) \/ PinAges(n, o)
    \/ Spreads
    \/ \E d \in Disks : MeasureAges(d) \/ \E c \in Ceilings : SetCeiling(d, c)
    \/ WeekPasses

Spec == Init /\ [][Next]_vars

Informed(n) == \A o \in linked[n] : heard[n][o] # Unknown

(* The tick comes every two seconds and asks about a few objects each time; *)
(* an answer lasts ten minutes, so that ticks find answers whenever there   *)
(* are any; answers and measurements grow old by themselves.               *)
Fairness ==
    /\ \A n \in Nodes : WF_vars(Tick(n)) /\ SF_vars(Tick(n) /\ Informed(n))
    /\ \A n \in Nodes : \A o \in Here(n) : WF_vars(Census(n, o))
    /\ \A d \in Disks : WF_vars(MeasureAges(d))
    /\ WF_vars(Spreads)

FairSpec == Spec /\ Fairness

-----------------------------------------------------------------------------

(* Whether a node promises an object settles: what a standby takes on it     *)
(* does not hand back and take on again for ever (replica.rs evaluate, the   *)
(* repair mark and the rule that ends it).                                  *)
DutySettles ==
    \A n \in Nodes : \A o \in Here(n) :
        <>[](o \in duty[n]) \/ <>[](o \notin duty[n])

(* A standby that holds a copy, has the room and is as far down the ranking  *)
(* as there are copies missing. A manifest left without its chunks is         *)
(* announced for ever, and counts as a copy.                                *)
Needed(n, o) ==
    /\ n \in Running /\ o \in held[n] /\ Standby(n, o)
    /\ \A m \in Running : o \notin stubs[m]
    /\ Place(n, o) - Factor <=
           Factor - Cardinality({m \in Running \ {n} : o \in held[m]})
    /\ Weight(duty[n] \cup {o}) <= Offered[n]
    /\ Stored(DiskOf[n]) + Size[o] <= ceiling[DiskOf[n]]

(* Such a standby ends by promising the object, however old the records of   *)
(* those that no longer have it are (replica.rs evaluate, pass two).        *)
RepairComes ==
    \A n \in Nodes : \A o \in Here(n) :
        <>[]Needed(n, o) => <>[](o \in duty[n])
=============================================================================
