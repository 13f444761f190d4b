-------------------------------- MODULE Window --------------------------------
(* The application on one machine: which launch of it owns the windows         *)
(* (workspace.rs hold_application, AppClaim), what it may open once somebody   *)
(* has logged in (account.rs), and the supervisor that runs a node for each    *)
(* network it belongs to (nodes.rs; main.rs of kols-app and drive.rs, which    *)
(* drive it alike).                                                            *)
(*                                                                             *)
(* The claim a node takes on its store is NodeClaim's; here it is held by a    *)
(* task from Claim until the task is dropped, and a task waits for it longer   *)
(* than a claim nobody beats survives.  A conversation falls asleep and is     *)
(* woken as Contact says; here it only is asleep or not.                       *)
EXTENDS Naturals

CONSTANTS
    Procs,          \* launches of the application
    Members,        \* of these, the ones at which somebody logs in
    Servers,        \* networks that may be set aside
    Conversations,  \* networks that may sleep
    None,           \* no owner, nothing in view, nobody forgetting
    MaxFaults,      \* bound: processes that end, tasks that end by themselves,
                    \* nodes run by another program, machines suspended
    MaxWishes       \* bound: networks created, opened, set aside, left,
                    \* restarted, conversations that sleep or wake, locks

Networks == Servers \cup Conversations

ASSUME KindsAssumption == Servers \cap Conversations = {}
ASSUME NoneAssumption == None \notin Procs \cup Networks

VARIABLES
    held,       \* networks with a store on this disk
    quiet,      \* servers set aside, conversations asleep
    owner,      \* whose token the application's claim carries
    heart,      \* its heartbeat: "none", "fresh" or "stale"
    raise,      \* whether a launch has asked the holder to show itself
    stage,      \* [p] where a launch is
    betrayed,   \* launches since whose start some other one ended
    shown,      \* whose workspace window is in front
    unlocked,   \* who holds the account's key
    view,       \* [p] the network in view, or None
    running,    \* [p] the supervisor's entries
    waiting,    \* [p] tasks waiting for their store's claim
    serving,    \* [p] tasks that hold it
    leaving,    \* [p] tasks aborted and not yet dropped, which hold it still
    crossed,    \* [p] tasks ended by an error or by somebody else's node
    settled,    \* [p] entries started POLL_SETTLE ago
    polled,     \* [p] networks with a poll on the schedule
    recent,     \* [p] of these, the ones polled within POLL_INTERVAL
    elsewhere,  \* networks whose node another program runs
    parting,    \* the network being left, by whom, and how far
    wishes, faults

app == <<owner, heart, raise, stage, betrayed, shown>>
tasks == <<running, waiting, serving, leaving, crossed>>
polls == <<settled, polled, recent>>
vars == <<held, quiet, app, unlocked, view, tasks, polls, elsewhere, parting, wishes, faults>>

Empty == [p \in Procs |-> {}]

Init ==
    /\ held \in {{}, Networks}
    /\ quiet \in SUBSET held
    /\ owner = None /\ heart = "none" /\ raise = FALSE
    /\ stage = [p \in Procs |-> "off"]
    /\ betrayed = {} /\ shown = {} /\ unlocked = {}
    /\ view = [p \in Procs |-> None]
    /\ running = Empty /\ waiting = Empty /\ serving = Empty /\ leaving = Empty /\ crossed = Empty
    /\ settled = Empty /\ polled = Empty /\ recent = Empty
    /\ elsewhere = {} /\ parting = None
    /\ wishes = 0 /\ faults = 0

Up == {p \in Procs : stage[p] = "up"}
Wish == wishes < MaxWishes /\ wishes' = wishes + 1 /\ UNCHANGED faults
Fault == faults < MaxFaults /\ faults' = faults + 1 /\ UNCHANGED wishes
NoEvent == UNCHANGED <<wishes, faults>>

(* ------------------------- one application at a time --------------------- *)

(* hold_application: a fresh heartbeat is answered by asking, not believed.    *)
BelievesHeart(fresh) == IF fresh THEN "second" ELSE "taking"   \* mutated: it is believed
Asks(fresh) == IF fresh THEN "asking" ELSE "taking"

Launch(p) ==
    /\ stage[p] = "off"
    /\ stage' = [stage EXCEPT ![p] = Asks(heart = "fresh")]
    /\ raise' = (raise \/ stage'[p] = "asking")
    /\ betrayed' = betrayed \ {p}
    /\ Wish
    /\ UNCHANGED <<held, quiet, owner, heart, shown, unlocked, view, tasks, polls, elsewhere, parting>>

(* The ask was taken, and this launch leaves.                                  *)
Notice(p) ==
    /\ stage[p] = "asking" /\ ~raise
    /\ stage' = [stage EXCEPT ![p] = "second"]
    /\ NoEvent
    /\ UNCHANGED <<held, quiet, owner, heart, raise, betrayed, shown, unlocked, view, tasks, polls,
                   elsewhere, parting>>

(* Nobody took it.  A holder beats every second, and is given 2.5.             *)
WaitsForever(p) == FALSE       \* mutated: nothing ends the wait
Unanswered(p) == raise /\ ~\E q \in Up : owner = q

GiveUpAsking(p) ==
    /\ stage[p] = "asking" /\ Unanswered(p)
    /\ raise' = FALSE
    /\ stage' = [stage EXCEPT ![p] = "taking"]
    /\ NoEvent
    /\ UNCHANGED <<held, quiet, owner, heart, betrayed, shown, unlocked, view, tasks, polls,
                   elsewhere, parting>>

(* The workspace window is raised.                                             *)
ShowWorkspace(p) == shown' = shown \cup {p}

(* The claim is taken: what is left of an ask goes, then owner and heartbeat.  *)
TakeClaim(p) ==
    /\ stage[p] = "taking"
    /\ raise' = FALSE /\ owner' = p /\ heart' = "fresh"
    /\ stage' = [stage EXCEPT ![p] = "up"]
    /\ ShowWorkspace(p)
    /\ NoEvent
    /\ UNCHANGED <<held, quiet, betrayed, unlocked, view, tasks, polls, elsewhere, parting>>

(* The second's tick: a holder beats and takes an ask; one whose token is gone *)
(* answers for nothing, and stops nothing.                                     *)
Beat(p) ==
    /\ p \in Up /\ owner = p
    /\ heart' = "fresh"
    /\ raise' = FALSE
    /\ IF raise THEN ShowWorkspace(p) ELSE UNCHANGED shown
    /\ NoEvent
    /\ UNCHANGED <<held, quiet, owner, stage, betrayed, unlocked, view, tasks, polls, elsewhere, parting>>

(* Closing the workspace window hides it.                                      *)
Hide(p) ==
    /\ p \in Up \cap shown
    /\ shown' = shown \ {p}
    /\ Wish
    /\ UNCHANGED <<held, quiet, owner, heart, raise, stage, betrayed, unlocked, view, tasks, polls,
                   elsewhere, parting>>

(* A heartbeat nobody refreshes ages; one read just after the machine wakes is *)
(* old whoever holds it.                                                       *)
Age ==
    /\ heart = "fresh" /\ heart' = "stale"
    /\ IF owner \in Up THEN Fault ELSE NoEvent
    /\ UNCHANGED <<held, quiet, owner, raise, stage, betrayed, shown, unlocked, view, tasks, polls,
                   elsewhere, parting>>

(* Its tasks are gone; the claims they held on stores expire sooner than       *)
(* anybody waiting for one gives up.                                           *)
StopAll(p) ==
    /\ running' = [running EXCEPT ![p] = {}] /\ waiting' = [waiting EXCEPT ![p] = {}]
    /\ serving' = [serving EXCEPT ![p] = {}] /\ leaving' = [leaving EXCEPT ![p] = {}]
    /\ crossed' = [crossed EXCEPT ![p] = {}]

(* A process ends, and with it its tasks.                                      *)
Ends(p) ==
    /\ stage' = [stage EXCEPT ![p] = "off"]
    /\ betrayed' = (betrayed \cup {q \in Procs : stage[q] \in {"asking", "second"}}) \ {p}
    /\ shown' = shown \ {p} /\ unlocked' = unlocked \ {p}
    /\ view' = [view EXCEPT ![p] = None]
    /\ StopAll(p)
    /\ settled' = [settled EXCEPT ![p] = {}]
    /\ polled' = [polled EXCEPT ![p] = {}] /\ recent' = [recent EXCEPT ![p] = {}]
    /\ parting' = IF parting # None /\ parting.by = p THEN None ELSE parting
    /\ UNCHANGED <<held, quiet, elsewhere>>

(* Quitting lets go of the application's claim first, then stops the nodes.    *)
Quit(p) ==
    /\ p \in Up
    /\ IF owner = p THEN owner' = None /\ heart' = "none" /\ raise' = FALSE
                    ELSE UNCHANGED <<owner, heart, raise>>
    /\ Ends(p)
    /\ Fault

Kill(p) ==
    /\ stage[p] \in {"asking", "taking", "up"}
    /\ UNCHANGED <<owner, heart, raise>>
    /\ Ends(p)
    /\ Fault

Exit(p) ==
    /\ stage[p] = "second"
    /\ stage' = [stage EXCEPT ![p] = "off"]
    /\ NoEvent
    /\ UNCHANGED <<held, quiet, owner, heart, raise, betrayed, shown, unlocked, view, tasks, polls,
                   elsewhere, parting>>

(* ------------------------------ the supervisor --------------------------- *)

(* A store opens when its seed can be read: not before somebody has logged in. *)
ReadsSeeds(p) == p \in unlocked'

(* A spec for every store that opens.                                          *)
Specs(p) == IF ReadsSeeds(p) THEN held' ELSE {}

(* tier_for.  Being in view does not keep a sleeping conversation awake; a     *)
(* server that is set aside is hot while it is in view.                        *)
Asleep(p) == Specs(p) \cap Conversations \cap quiet'
Cold(p) == ((Specs(p) \cap Servers \cap quiet') \ {view'[p]})
Warm(p) == Specs(p) \ (Asleep(p) \cup Cold(p))

(* Of the cold networks that run: one that has just started stays up until it  *)
(* has had time to catch up.                                                   *)
CatchesUpForever(p, from) == Cold(p) \cap from      \* mutated: a poll never settles
CatchesUp(p, from) == (Cold(p) \cap from) \ settled[p]

(* And one that was running when it was set aside counts as polled just then.  *)
LookedJustNow(p, from) == (Cold(p) \cap from \cap settled[p]) \ polled[p]

(* The others are polled when their poll comes round.                          *)
Polling(p, from) == Cold(p) \ (from \cup recent[p])

(* A task is spawned for each, and sets out for its store's claim.             *)
Start(p, networks) == waiting' = [waiting EXCEPT ![p] = @ \cup networks]

(* Nodes::reconcile, from the entries left to it: what is neither wanted nor   *)
(* polled is stopped, what is one of them and has no entry is started, and an  *)
(* entry whose task has ended is left as it is.  A task that is aborted while  *)
(* it waits for its claim notices only when the wait is over.                  *)
Reconciles(p, from) ==
    \E due \in {Polling(p, from)}, caught \in {LookedJustNow(p, from)} :
    \E kept \in {Warm(p) \cup CatchesUp(p, from) \cup due} :
        /\ running' = [running EXCEPT ![p] = kept]
        /\ Start(p, kept \ from)
        /\ serving' = [serving EXCEPT ![p] = @ \cap (from \cap kept)]
        /\ leaving' = [leaving EXCEPT ![p] = @ \cup (serving[p] \ (from \cap kept))]
        /\ crossed' = [crossed EXCEPT ![p] = @ \cap (from \cap kept)]
        /\ settled' = [settled EXCEPT ![p] = @ \cap (from \cap kept)]
        /\ polled' = [polled EXCEPT ![p] = (@ \ Asleep(p)) \cup caught \cup due]
        /\ recent' = [recent EXCEPT ![p] = (@ \ Asleep(p)) \cup caught \cup due]

(* The minute's tick.                                                          *)
Tick(p) ==
    /\ p \in Up
    /\ NoEvent
    /\ UNCHANGED <<held, quiet, app, unlocked, view, elsewhere, parting>>
    /\ Reconciles(p, running[p])

(* The password opens the account, for as long as the process keeps its key.   *)
UnlockAccount(p) == p \in Members /\ unlocked' = unlocked \cup {p}
LockProcess(p) == unlocked' = unlocked \ {p}

(* Logging in, and the resume that follows it.                                 *)
Unlock(p) ==
    /\ p \in Up \ unlocked
    /\ UnlockAccount(p)
    /\ NoEvent
    /\ UNCHANGED <<held, quiet, app, view, elsewhere, parting>>
    /\ Reconciles(p, running[p])

(* lock drops the key and closes the windows that show a network.  It does not *)
(* touch the nodes, nor which network is in view.                              *)
Lock(p) ==
    /\ p \in unlocked
    /\ LockProcess(p)
    /\ Wish
    /\ UNCHANGED <<held, quiet, app, view, tasks, polls, elsewhere, parting>>

(* A network founded or joined is the one in view; a conversation has a window *)
(* of its own, and starts awake.                                               *)
Gain(p, n) ==
    /\ p \in unlocked /\ n \notin held
    /\ held' = held \cup {n} /\ quiet' = quiet \ {n}
    /\ view' = IF n \in Servers THEN [view EXCEPT ![p] = n] ELSE view
    /\ Wish
    /\ UNCHANGED <<app, unlocked, elsewhere, parting>>
    /\ Reconciles(p, running[p])

OpenNetwork(p, n) ==
    /\ p \in unlocked /\ n \in held \cap Servers /\ view[p] # n
    /\ view' = [view EXCEPT ![p] = n]
    /\ Wish
    /\ UNCHANGED <<held, quiet, app, unlocked, elsewhere, parting>>
    /\ Reconciles(p, running[p])

(* The mark of a network in its store.                                         *)
Mark(n, aside) == quiet' = IF aside THEN quiet \cup {n} ELSE quiet \ {n}

(* set_network_aside, either way; a conversation that wakes, by a send or a    *)
(* knock.                                                                      *)
SetAside(p, n, aside) ==
    /\ p \in unlocked /\ n \in held
    /\ aside => n \in Servers
    /\ Mark(n, aside)
    /\ quiet' # quiet
    /\ Wish
    /\ UNCHANGED <<held, app, unlocked, view, elsewhere, parting>>
    /\ Reconciles(p, running[p])

(* Its idle window ends; the next pass finds it.                               *)
FallAsleep(n) ==
    /\ n \in (held \cap Conversations) \ quiet
    /\ quiet' = quiet \cup {n}
    /\ Wish
    /\ UNCHANGED <<held, app, unlocked, view, tasks, polls, elsewhere, parting>>

(* restart_one, for the network whose executor is open.                        *)
Restart(p, n) ==
    /\ p \in Up /\ n = view[p]
    /\ Wish
    /\ UNCHANGED <<held, quiet, app, unlocked, view, elsewhere, parting>>
    /\ Reconciles(p, running[p] \ {n})

(* ------------------------------- leaving a network ----------------------- *)

(* forget_network publishes the departure through a live node and waits for it *)
(* to travel; the supervisor goes on meanwhile.                                *)
Depart(p, n) ==
    /\ p \in unlocked /\ n \in held /\ parting = None
    /\ parting' = [by |-> p, net |-> n, step |-> "telling", taken |-> FALSE]
    /\ Wish
    /\ UNCHANGED <<held, quiet, app, unlocked, view, tasks, polls, elsewhere>>

(* Its node is stopped,                                                        *)
StopParting ==
    /\ parting # None /\ parting.step = "telling"
    /\ \E p \in {parting.by}, n \in {parting.net} :
        /\ running' = [running EXCEPT ![p] = @ \ {n}]
        /\ serving' = [serving EXCEPT ![p] = @ \ {n}]
        /\ leaving' = [leaving EXCEPT ![p] = @ \cup (serving[p] \cap {n})]
        /\ crossed' = [crossed EXCEPT ![p] = @ \ {n}]
        /\ settled' = [settled EXCEPT ![p] = @ \ {n}]
    /\ parting' = [parting EXCEPT !.step = "stopping"]
    /\ NoEvent
    /\ UNCHANGED <<held, quiet, app, unlocked, view, waiting, polled, recent, elsewhere>>

(* whoever holds its claim: this machine's nodes, another program's            *)
HeldBy(n) == {p \in Procs : n \in serving[p] \cup leaving[p]}
Served(n) == n \in elsewhere \/ HeldBy(n) # {}

(* and, once the task is gone or its grace is over, the store is asked whether *)
(* anybody serves it.  A locked workspace finds no store to delete.            *)
NeverAsks(n) == FALSE        \* mutated: the store is deleted without asking
InUse(n) == Served(n)

CheckParting ==
    /\ parting # None /\ parting.step = "stopping"
    /\ \E p \in {parting.by}, n \in {parting.net} :
        /\ view' = [view EXCEPT ![p] = IF @ = n THEN None ELSE @]
        /\ parting' = IF p \notin unlocked \/ InUse(n)
                      THEN None ELSE [parting EXCEPT !.step = "deleting"]
    /\ NoEvent
    /\ UNCHANGED <<held, quiet, app, unlocked, tasks, polls, elsewhere>>

DeleteParting ==
    /\ parting # None /\ parting.step = "deleting"
    /\ held' = held \ {parting.net} /\ quiet' = quiet \ {parting.net}
    /\ parting' = None
    /\ NoEvent
    /\ UNCHANGED <<app, unlocked, view, tasks, polls, elsewhere>>

(* --------------------------------- the tasks ----------------------------- *)

(* Whether somebody took the claim of the store since it was asked about.      *)
Remembers(n) ==
    parting' = IF parting # None /\ parting.net = n /\ parting.step = "deleting"
               THEN [parting EXCEPT !.taken = TRUE] ELSE parting

(* A waiting task takes the claim, and makes the directory anew if its store   *)
(* was deleted meanwhile; one that was aborted drops it at once.               *)
Claim(p, n) ==
    /\ n \in waiting[p] /\ ~Served(n)
    /\ waiting' = [waiting EXCEPT ![p] = @ \ {n}]
    /\ IF n \in running[p]
       THEN serving' = [serving EXCEPT ![p] = @ \cup {n}] /\ UNCHANGED leaving
       ELSE leaving' = [leaving EXCEPT ![p] = @ \cup {n}] /\ UNCHANGED serving
    /\ Remembers(n)
    /\ NoEvent
    /\ UNCHANGED <<held, quiet, app, unlocked, view, running, crossed, polls, elsewhere>>

(* It gives up when somebody beats for as long as it waits, or the store is    *)
(* gone.  A node of its own that was stopped is gone sooner.                   *)
OccupiedAtOnce(p, n) == Served(n)      \* mutated: it does not wait
Occupied(p, n) == n \in elsewhere \/ \E q \in Procs \ {p} : n \in serving[q]

Refuse(p, n) ==
    /\ n \in waiting[p] /\ (n \notin held \/ Occupied(p, n))
    /\ waiting' = [waiting EXCEPT ![p] = @ \ {n}]
    /\ crossed' = IF n \in running[p] /\ (n \in elsewhere \/ n \notin held \/ HeldBy(n) \ {p} # {})
                  THEN [crossed EXCEPT ![p] = @ \cup {n}] ELSE crossed
    /\ NoEvent
    /\ UNCHANGED <<held, quiet, app, unlocked, view, running, serving, leaving, polls, elsewhere, parting>>

Release(p, n) ==
    /\ n \in leaving[p]
    /\ leaving' = [leaving EXCEPT ![p] = @ \ {n}]
    /\ NoEvent
    /\ UNCHANGED <<held, quiet, app, unlocked, view, running, waiting, serving, crossed, polls,
                   elsewhere, parting>>

(* A serving task ends by itself: an error in its loop, its claim lost.        *)
TaskEnds(p, n) ==
    /\ n \in serving[p]
    /\ serving' = [serving EXCEPT ![p] = @ \ {n}]
    /\ crossed' = [crossed EXCEPT ![p] = @ \cup {n}]
    /\ Fault
    /\ UNCHANGED <<held, quiet, app, unlocked, view, running, waiting, leaving, polls, elsewhere, parting>>

(* Another program's node of a network here comes and goes.                    *)
Elsewhere(n) ==
    /\ n \in held
    /\ IF n \in elsewhere THEN elsewhere' = elsewhere \ {n} /\ UNCHANGED parting
       ELSE ~Served(n) /\ elsewhere' = elsewhere \cup {n} /\ Remembers(n)
    /\ Fault
    /\ UNCHANGED <<held, quiet, app, unlocked, view, tasks, polls>>

(* POLL_SETTLE since a server's node was started.                              *)
Settle(p, n) ==
    /\ n \in (running[p] \cap Servers) \ settled[p]
    /\ settled' = [settled EXCEPT ![p] = @ \cup {n}]
    /\ NoEvent
    /\ UNCHANGED <<held, quiet, app, unlocked, view, tasks, polled, recent, elsewhere, parting>>

(* POLL_INTERVAL, which is longer, since its last poll.                        *)
Due(p, n) ==
    /\ n \in recent[p] /\ (n \in running[p] => n \in settled[p])
    /\ recent' = [recent EXCEPT ![p] = @ \ {n}]
    /\ NoEvent
    /\ UNCHANGED <<held, quiet, app, unlocked, view, tasks, settled, polled, elsewhere, parting>>

Protocol(p) == Notice(p) \/ GiveUpAsking(p) \/ TakeClaim(p) \/ Beat(p)

Next ==
    \/ \E p \in Procs :
        \/ Launch(p) \/ Protocol(p) \/ Hide(p) \/ Quit(p) \/ Kill(p) \/ Exit(p)
        \/ Tick(p) \/ Unlock(p) \/ Lock(p)
        \/ \E n \in Networks :
            \/ Gain(p, n) \/ OpenNetwork(p, n) \/ Restart(p, n) \/ Depart(p, n)
            \/ \E aside \in BOOLEAN : SetAside(p, n, aside)
            \/ Claim(p, n) \/ Refuse(p, n) \/ Release(p, n) \/ TaskEnds(p, n)
            \/ Settle(p, n) \/ Due(p, n)
    \/ Age \/ StopParting \/ CheckParting \/ DeleteParting
    \/ \E n \in Networks : FallAsleep(n) \/ Elsewhere(n)

Fairness ==
    /\ \A p \in Procs : WF_vars(Protocol(p))
    /\ \A p \in Members :
        /\ WF_vars(Tick(p))
        /\ \A n \in Networks : WF_vars(Claim(p, n) \/ Refuse(p, n)) /\ WF_vars(Release(p, n))
        /\ \A n \in Servers : WF_vars(Settle(p, n) \/ Due(p, n))

Spec == Init /\ [][Next]_vars /\ Fairness

(* -------------------------------- properties ----------------------------- *)

(* A second launch leaves in silence only when there is somebody to come       *)
(* forward in its place: another launch that runs, or is about to.  A launch   *)
(* that ends while the first is asking is the one way to break it.             *)
AskedIsAnswered ==
    \A p \in Procs : stage[p] = "second" /\ p \notin betrayed
        => \E q \in Procs \ {p} : stage[q] \in {"taking", "up"}

(* An ask is never left standing: a launch that found a heartbeat, whoever     *)
(* left it behind, becomes the application or sees one come forward.           *)
LaunchComesForward ==
    \A p \in Procs :
        stage[p] = "asking" /\ raise ~> stage[p] \in {"up", "off"} \/ shown # {} \/ p \in betrayed

(* The networks a process that can open them should be running.                *)
Wanted(p) == IF p \in Up \cap unlocked
             THEN held \ (((Servers \cap quiet) \ {view[p]}) \cup (Conversations \cap quiet)) ELSE {}

(* Every network that stays wanted gets a node, unless its task was ended by   *)
(* an error or by a node of somebody else's: lowering, restarting and polling  *)
(* it lose nothing, though a stopped task is not waited for.                   *)
WantedIsServed ==
    \A p \in Members, n \in Networks :
        n \in Wanted(p) ~> n \in serving[p] \cup crossed[p] \/ n \notin Wanted(p)

(* A network set aside is a schedule, not an absence: it is neither left       *)
(* running nor left alone, whatever it was when the member set it aside.       *)
ColdTakesTurns ==
    \A p \in Members, n \in Servers :
        <>[](p \in Up \cap unlocked /\ n \in (held \cap quiet) \ {view[p]})
            => []<>(n \in running[p]) /\ []<>(n \notin running[p])

(* A store is not deleted under a node: its claim is held by nobody, or was    *)
(* taken in the moment since the store was asked.                              *)
DeletedIsIdle ==
    [][\A n \in held \ held' : Served(n) => parting.taken]_vars

(* Locking does not stop a node: it says that nobody at the keyboard may act   *)
(* as the member, not that the member wants to disappear (lock, lock_process). *)
(* The supervisor of a locked application leaves running what it was serving,  *)
(* but for what sleeps or was set aside.                                       *)
LockKeepsServing ==
    [][\A p \in Procs \ unlocked : Tick(p) => serving[p] \ quiet \subseteq serving'[p]]_vars
================================================================================
