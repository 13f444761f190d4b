------------------------------- MODULE Contact -------------------------------
(* A conversation between two people: how it is arranged through a network    *)
(* the two share (dm.rs), how it goes to sleep and is woken (nodes.rs, the     *)
(* activity clock of store.rs), and how a knock brings the other side back     *)
(* (keep_knock, send_knocks, knock_early and the direct-message arms of        *)
(* serve.rs).  Each person's machine runs the shared network's node and a      *)
(* supervisor while the application is up; the conversation's own node runs    *)
(* only when the supervisor keeps it.                                          *)
(*                                                                             *)
(* The activity clock.  Each stamp is numbered above every stamp of its store, *)
(* and stamps are compared in two ways only: what was last written with when   *)
(* the other side was last seen (owes), and a recorded sleep with the last     *)
(* activity (slept).  The sets below are those comparisons.                    *)
(*                                                                             *)
(* Time.  Rounds of a node and of the supervisor take seconds, a minute at     *)
(* most; the idle timeout is at least five (MIN_IDLE_TIMEOUT).  So the minutes *)
(* after an activity (brisk) pass only when no round is still to be made       *)
(* (Unsettled), and only after them can the idle timeout run out (Quieten).    *)
EXTENDS Naturals

CONSTANTS
    Starter,      \* who starts the conversation
    Invited,      \* who is offered it
    Reachable,    \* whether the two conversation nodes can reach each other
    MaxEvents     \* bound: messages written, applications closed or killed,
                  \* requests and acknowledgements the carrier loses, together

ASSUME PeopleAssumption == Starter # Invited
ASSUME BoundsAssumption == Reachable \in BOOLEAN /\ MaxEvents \in Nat

People == {Starter, Invited}
Other(p) == IF p = Starter THEN Invited ELSE Starter

VARIABLES
    up,         \* whose application runs: supervisor and shared network's node
    met,        \* the two shared-network nodes are connected
    held,       \* who has the conversation's store on disk
    origin,     \* who has its origin recorded
    joined,     \* who replays two Founders in it
    redeemed,   \* the invited one's accept is between its two halves
    addressed,  \* the starter's conversation has an address to put in an invite
    offer,      \* the starter's offer on disk
    request,    \* the invited one's kept request on disk
    owes,       \* who wrote since the other side was last seen
    slept,      \* who has a sleep recorded and no activity after it
    fresh,      \* whose last activity is within the idle timeout
    brisk,      \* whose last activity is minutes old at most
    pass,       \* [p] the supervisor's pass: "idle", "asleep" when it has decided
                \* on a sleep, "overtaken" when something happened since it read
    node,       \* who runs a node for the conversation
    linked,     \* the two conversation nodes are connected
    pending,    \* who has a knock for it in the shared network's store
    woken,      \* who had the conversation woken by a beat for that knock
    tried,      \* whose knock the carrier took since p's last activity
    events

shared == <<met, offer, addressed, request>>
disk == <<held, origin, joined>>
stamps == <<owes, slept, fresh, brisk, pass>>
nodes == <<node, linked>>
knocks == <<pending, woken, tried>>
vars == <<up, shared, disk, redeemed, stamps, nodes, knocks, events>>

Init ==
    /\ up = People /\ met = FALSE
    /\ held = {} /\ origin = {} /\ joined = {}
    /\ redeemed = FALSE /\ addressed = FALSE /\ offer = FALSE /\ request = FALSE
    /\ owes = {} /\ slept = {} /\ fresh = {} /\ brisk = {}
    /\ pass = [p \in People |-> "idle"]
    /\ node = {} /\ linked = FALSE
    /\ pending = {} /\ woken = {} /\ tried = {}
    /\ events = 0

(* --------------------------- the activity clock -------------------------- *)

(* write_stamp: a stamp of something happening is numbered above every other,  *)
(* so a recorded sleep is over, one being decided is overtaken, and the idle    *)
(* window begins again.                                                        *)
Stamp(who) ==
    /\ slept' = slept \ who
    /\ fresh' = fresh \cup who
    /\ brisk' = brisk \cup who
    /\ pass' = [p \in People |-> IF p \in who /\ pass[p] = "asleep" THEN "overtaken" ELSE pass[p]]

(* Something happens in the conversation's store of each of `who`: a record    *)
(* arrives, or it is marked awake.                                             *)
Stir(who) == Stamp(who) /\ tried' = tried \ who

(* The other side is noted as seen now, if it is there.                        *)
NotePeerSeen(p) == owes' = IF linked THEN owes \ {p} ELSE owes

IsAsleep(p) == p \notin fresh
SleptSinceActivity(p) == p \in slept
SecondMemberJoined(p) == p \in joined
ShouldSleep(p) == (IsAsleep(p) \/ SleptSinceActivity(p)) /\ SecondMemberJoined(p)

(* ------------------------ arranging a conversation ----------------------- *)

(* What the two stores keep of it.                                             *)
CreateConversation(p) == p \in up \ held /\ held' = held \cup {p}
SetOrigin(p) == origin' = origin \cup {p}
OfferConversation == offer' = TRUE
RecordRequest == request' = TRUE
ForgetRequest == request' = FALSE

(* start: the store is made, its origin set, marked awake, and last of all the *)
(* offer left.  (A process that ends before the offer leaves a conversation    *)
(* nothing delivers; nothing here concerns it.)                                *)
Start ==
    /\ CreateConversation(Starter)
    /\ SetOrigin(Starter)
    /\ OfferConversation
    /\ Stir({Starter})
    /\ UNCHANGED <<up, met, joined, redeemed, addressed, request, owes, nodes, pending, woken, events>>

(* An offer is deliverable once the conversation's own node has written an     *)
(* address down.                                                               *)
Deliverable == offer /\ addressed

(* What arrives is checked and kept.                                           *)
Receive(outcome) == IF outcome = "lost" THEN UNCHANGED request ELSE RecordRequest

(* The carrier's Received ends the offer; a request or an acknowledgement that *)
(* is lost leaves it for a later round.                                        *)
ForgetsOnSend(outcome) == outcome \in {"received", "unacknowledged", "lost"}  \* mutated: forgotten once sent
Forgets(outcome) == outcome = "received"

(* A round of the shared network's node.                                       *)
SendOffer ==
    /\ Deliverable /\ met
    /\ \E outcome \in {"received", "unacknowledged", "lost"} :
        /\ outcome # "received" => events < MaxEvents
        /\ events' = IF outcome = "received" THEN events ELSE events + 1
        /\ Receive(outcome)
        /\ offer' = ~Forgets(outcome)
    /\ UNCHANGED <<up, met, addressed, disk, redeemed, stamps, nodes, knocks>>

(* accept, first half: redeem makes or opens the store and is answered by the  *)
(* issuer's conversation node, which admits.                                   *)
Redeem ==
    /\ Invited \in up /\ request /\ ~redeemed
    /\ Reachable /\ Starter \in node
    /\ held' = held \cup {Invited}
    /\ joined' = joined \cup {Starter}
    /\ redeemed' = TRUE
    /\ UNCHANGED <<up, shared, origin, stamps, nodes, knocks, events>>

(* Its second half: the origin is recorded, the conversation marked awake, and *)
(* only now the request forgotten, so that it can be accepted again after a    *)
(* process that ended between the two.                                         *)
Record ==
    /\ redeemed
    /\ redeemed' = FALSE
    /\ SetOrigin(Invited)
    /\ ForgetRequest
    /\ Stir({Invited})
    /\ UNCHANGED <<up, met, offer, addressed, held, joined, owes, nodes, pending, woken, events>>

(* Declining forgets the request and nothing else.                             *)
Decline ==
    /\ Invited \in up /\ request /\ ~redeemed
    /\ ForgetRequest
    /\ UNCHANGED <<up, met, offer, addressed, disk, redeemed, stamps, nodes, knocks, events>>

(* put_record of this member's own: an arrival, then a writing.  Where the two *)
(* nodes are connected it may reach the other store at once, an arrival there. *)
Write(p) ==
    /\ p \in up \cap held
    /\ p = Starter \/ p \in joined
    /\ events < MaxEvents
    /\ events' = events + 1
    /\ owes' = owes \cup {p}
    /\ \E carried \in {FALSE, linked} : Stir(IF carried THEN People ELSE {p})
    /\ UNCHANGED <<up, shared, disk, redeemed, nodes, pending, woken>>

(* --------------------------- sleeping and waking ------------------------- *)

(* settle_sleep reads the activity, then decides: what happens between the two *)
(* is counted by the decision, and can only make it `awake`.                   *)
Decide(p) ==
    /\ p \in up \cap held /\ pass[p] = "idle" /\ ShouldSleep(p)
    /\ pass' = [pass EXCEPT ![p] = "asleep"]
    /\ UNCHANGED <<up, shared, disk, redeemed, owes, slept, fresh, brisk, nodes, knocks, events>>

(* A sleep is recorded as the activity read before it was decided, so what     *)
(* overtook it is newer than the record.                                       *)
SleepsThrough(p) == slept \cup {p}    \* mutated: the activity is read after deciding
Sleeps(p) == IF pass[p] = "overtaken" THEN slept ELSE slept \cup {p}

(* The record, and the reconcile that follows: the node is stopped, and a      *)
(* connection it had ends, which the other side's node notes.                  *)
Sleep(p) ==
    /\ pass[p] # "idle"
    /\ slept' = Sleeps(p)
    /\ NotePeerSeen(Other(p))
    /\ node' = node \ {p}
    /\ linked' = FALSE
    /\ pass' = [pass EXCEPT ![p] = "idle"]
    /\ UNCHANGED <<up, shared, disk, redeemed, fresh, brisk, knocks, events>>

(* A conversation found awake loses the old record, and its node is started;   *)
(* the node writes its addresses down.                                         *)
Wake(p) ==
    /\ p \in up \cap held /\ pass[p] = "idle" /\ ~ShouldSleep(p)
    /\ slept' = slept \ {p}
    /\ node' = node \cup {p}
    /\ addressed' = (addressed \/ p = Starter)
    /\ UNCHANGED <<up, met, offer, request, disk, redeemed, owes, fresh, brisk, pass, linked, knocks, events>>

(* The two conversation nodes connect: each notes the other, and what each     *)
(* wrote that the other had not seen arrives.                                  *)
Link ==
    /\ node = People /\ ~linked /\ Reachable /\ joined # {}
    /\ linked' = TRUE
    /\ joined' = People
    /\ owes' = {}
    /\ Stir({p \in People : Other(p) \in owes})
    /\ UNCHANGED <<up, shared, held, origin, redeemed, node, pending, woken, events>>

(* -------------------------------- knocking ------------------------------- *)

(* keep_knock, each tick of the conversation's node: connected, the sighting   *)
(* is kept current and the knock forgotten; apart, a knock is left if this     *)
(* member wrote since the other was seen.                                      *)
KnocksAwake(p) == ~linked /\ p \in node    \* mutated: an awake node is reason enough
Knocks(p) == ~linked /\ (p \in owes \/ p \in pending)

(* One note per conversation: want_knock, or forget_knock.                     *)
KnockLeft(p) == pending' = IF Knocks(p) THEN pending \cup {p} ELSE pending \ {p}

KeepKnock(p) ==
    /\ p \in node \cap origin
    /\ NotePeerSeen(p)
    /\ KnockLeft(p)
    /\ tried' = tried \cap pending'
    /\ UNCHANGED <<up, shared, disk, redeemed, slept, fresh, brisk, pass, nodes, woken, events>>

(* knocked, at the other end: whoever has the conversation, with an origin     *)
(* naming this network and this sender, marks it awake; anybody else refuses,  *)
(* and says nothing.                                                           *)
HeedingAwake == held \cap origin \cap node    \* mutated: only a conversation being served
Heeding == held \cap origin

(* send_knocks, a round of the shared network's node: only while the           *)
(* conversation is being served.  One that is lost stays pending.              *)
SendKnock(p) ==
    /\ met /\ p \in pending \cap node
    /\ \E heard \in {{Other(p)} \cap Heeding} :
        Stamp(heard) /\ tried' = (tried \cup {p}) \ heard
    /\ UNCHANGED <<up, shared, disk, redeemed, owes, nodes, pending, woken, events>>

(* knock_early on a connection in the shared network: a knock whose            *)
(* conversation went back to sleep wakes it.  One being served is sent at the  *)
(* next tick, which is SendKnock.                                              *)
Meet ==
    /\ up = People /\ ~met
    /\ met' = TRUE
    /\ woken' = woken \cap pending
    /\ Stir(pending \ node)
    /\ UNCHANGED <<up, offer, addressed, request, disk, redeemed, owes, nodes, pending, events>>

(* knock_early on a presence beat: it wakes a conversation once per pending    *)
(* knock.                                                                      *)
BeatWakes(p) == ({p} \cap pending) \ (node \cup woken)

HearBeat(p) ==
    /\ met
    /\ woken' = (woken \cap pending) \cup BeatWakes(p)
    /\ Stir(BeatWakes(p))
    /\ UNCHANGED <<up, shared, disk, redeemed, owes, nodes, pending, events>>

(* ------------------------------- time and ends --------------------------- *)

(* A round some machine that is up has still to make: its supervisor to start  *)
(* the conversation's node, the node to leave a knock, the shared network's    *)
(* node to send one, the two nodes to connect; an accept to be finished.        *)
Unsettled ==
    \/ \E p \in (up \cap held) \ node : ~ShouldSleep(p)
    \/ \E p \in node \cap origin : Knocks(p) # (p \in pending)
    \/ met /\ (pending \cap node) \ tried # {}
    \/ node = People /\ ~linked /\ Reachable
    \/ redeemed

(* Minutes pass.                                                               *)
Elapse ==
    /\ brisk # {} /\ ~Unsettled
    /\ brisk' = {}
    /\ UNCHANGED <<up, shared, disk, redeemed, owes, slept, fresh, pass, nodes, knocks, events>>

(* The idle timeout runs out.                                                 *)
Quieten(p) ==
    /\ p \in fresh \ brisk
    /\ fresh' = fresh \ {p}
    /\ UNCHANGED <<up, shared, disk, redeemed, owes, slept, brisk, pass, nodes, knocks, events>>

(* The application is closed or killed: its nodes end, and what it held in     *)
(* memory.  The other side's conversation node notes the connection ending.    *)
Leave(p) ==
    /\ p \in up /\ events < MaxEvents
    /\ events' = events + 1
    /\ up' = up \ {p}
    /\ redeemed' = (redeemed /\ p # Invited)
    /\ pass' = [pass EXCEPT ![p] = "idle"]
    /\ NotePeerSeen(Other(p))
    /\ node' = node \ {p}
    /\ woken' = woken \ {p}
    /\ met' = FALSE /\ linked' = FALSE
    /\ UNCHANGED <<offer, addressed, request, disk, slept, fresh, brisk, pending, tried>>

Return(p) ==
    /\ p \notin up
    /\ up' = up \cup {p}
    /\ UNCHANGED <<shared, disk, redeemed, stamps, nodes, knocks, events>>

(* ------------------------------ specification ---------------------------- *)

Arranging == Start \/ SendOffer \/ Redeem \/ Record \/ Decline
Supervise(p) == Decide(p) \/ Sleep(p) \/ Wake(p)

Next ==
    \/ Arranging
    \/ Link \/ Meet \/ Elapse
    \/ \E p \in People :
        \/ Write(p) \/ Supervise(p) \/ KeepKnock(p) \/ SendKnock(p)
        \/ HearBeat(p) \/ Quieten(p) \/ Leave(p) \/ Return(p)

(* Loops and timers run; people come back, and their shared nodes connect.    *)
Fairness ==
    /\ WF_vars(SendOffer) /\ WF_vars(Record) /\ WF_vars(Link) /\ WF_vars(Elapse)
    /\ WF_vars(Meet \/ \E p \in People : Return(p))
    /\ \A p \in People :
        /\ WF_vars(Supervise(p)) /\ WF_vars(KeepKnock(p)) /\ WF_vars(SendKnock(p))
        /\ WF_vars(HearBeat(p)) /\ WF_vars(Quieten(p))

Spec == Init /\ [][Next]_vars /\ Fairness

(* ------------------------------- properties ------------------------------ *)

(* An offer is kept until the carrier has taken it, whatever is lost and       *)
(* whoever restarts: the other side is asked in the end.                       *)
OfferArrives == offer ~> request

(* While both people are around, a knock owed to the other side brings the two *)
(* nodes together: it is sent, or, where the conversation went back to sleep,  *)
(* a beat of the other side wakes it to be sent.  A beat does so once for a    *)
(* knock, which is why one it has been spent on is not claimed; and a side     *)
(* without the conversation's origin refuses it.                               *)
KnockIsAnswered ==
    \A p \in People :
        (p \in (pending \cap owes) \ woken /\ joined = People /\ origin = People)
            ~> (linked \/ up # People)

(* Something happening in a conversation that is not running starts its node:  *)
(* a sleep being decided at that moment does not swallow it.                   *)
StirringWakes == \A p \in People : (p \in (up \cap held \cap brisk) \ node) ~> (p \in node \/ p \notin up)

(* Two people who have stopped writing do not keep waking each other.          *)
ComesToRest == <>[](joined = People => node = {})
==============================================================================
