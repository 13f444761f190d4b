----------------------------- MODULE NodeClaim ------------------------------
(***************************************************************************)
(* The right to run the node of one network on one machine.                *)
(*                                                                         *)
(* The MLS group is live state: a node restores it from the store when it  *)
(* starts, advances it in memory and saves it, so two nodes on one store   *)
(* overwrite each other's group.  The claim is a directory with an owner   *)
(* token and a heartbeat; it is taken when the heartbeat is stale, kept by *)
(* beating, lost to whoever wrote its token last, and released on drop     *)
(* (kols-node store.rs hold_node, NodeClaim; serve.rs, the node's loop).   *)
(*                                                                         *)
(* Every read and write of a file of the claim is a step of its own, a     *)
(* process may be suspended between any two, and killed at any.  A process *)
(* that takes the claim again is identified with its earlier self: it      *)
(* compares tokens only after it has written its own.  The clock only goes *)
(* forward.                                                                *)
(***************************************************************************)
EXTENDS Integers, FiniteSets

CONSTANTS
    Procs,      \* processes that may run the node: the window, a daemon
    Nothing,    \* no owner, no heartbeat
    Stale,      \* age at which a heartbeat stops counting (NODE_CLAIM_STALE)
    Patience,   \* how long a process waits for a claim to go stale
    MaxClock,   \* bound: the clock
    MaxSaves    \* bound: saves of the group

ASSUME NothingIsNoOwner == Nothing \notin Procs /\ Nothing \notin Int
ASSUME TimesAreNat ==
    Stale \in Nat \ {0} /\ Patience \in Nat /\ MaxClock \in Nat /\ MaxSaves \in Nat
ASSUME WaitsPastStale == Patience >= Stale

VARIABLES
    now,     \* the wall clock
    dir,     \* whether the claim's directory exists
    owner,   \* the owner file: a process, or Nothing
    heart,   \* the heartbeat file: when it was written, or Nothing
    saved,   \* the group on disk, as the number of the save it is
    stage,   \* where each process is
    began,   \* when it began to wait, 0 once it has stopped waiting
    live,    \* the save the group it holds rests on, 0 without a group
    faults   \* what has gone wrong around the claim so far

disk == <<dir, owner, heart>>
vars == <<now, dir, owner, heart, saved, stage, began, live, faults>>

Waiting == {"wait", "impatient"}
Taking == {"mkdir", "own", "check", "first"}
Serving == {"restore", "run", "beat"}
Leaving == {"leave", "unbeat", "unown", "undir"}
Stages == {"off", "refused"} \cup Waiting \cup Taking \cup Serving \cup Leaving

(* What the claim's code does not defend against: a process enters the few *)
(* file operations that take or release it while another is in them; a     *)
(* node goes without a beat for the whole staleness window; a waiting      *)
(* process stands still between looking and losing patience.               *)
Faults == {"overlap", "asleep", "starved"}

TypeOK ==
    /\ now \in Nat /\ now <= MaxClock
    /\ dir \in BOOLEAN
    /\ owner \in Procs \cup {Nothing}
    /\ heart \in 0..now \cup {Nothing}
    /\ saved \in 0..MaxSaves
    /\ stage \in [Procs -> Stages]
    /\ began \in [Procs -> 0..now]
    /\ live \in [Procs -> 0..saved]
    /\ faults \in SUBSET Faults

Init ==
    /\ now = 0 /\ dir = FALSE /\ owner = Nothing /\ heart = Nothing /\ saved = 0
    /\ stage = [p \in Procs |-> "off"]
    /\ began = [p \in Procs |-> 0]
    /\ live = [p \in Procs |-> 0]
    /\ faults = {}

(* claim_is_fresh; the other form is one unit short of the window.         *)
FreshOneShort == heart # Nothing /\ now - heart < Stale - 1
Fresh == heart # Nothing /\ now - heart < Stale

Goto(p, there) == stage' = [stage EXCEPT ![p] = there]
Between(p) == \E q \in Procs \ {p} : stage[q] \in Taking \cup Leaving
Enter(p) == faults' = IF Between(p) THEN faults \cup {"overlap"} ELSE faults
Stop(p) == Goto(p, "leave") /\ Enter(p) /\ live' = [live EXCEPT ![p] = 0]

(* hold_node.                                                              *)
StartWaiting(p) ==
    /\ stage[p] \in {"off", "refused"}
    /\ began' = [began EXCEPT ![p] = now]
    /\ Goto(p, "wait")
    /\ UNCHANGED <<now, disk, saved, live, faults>>

Look(p) ==
    /\ stage[p] = "wait"
    /\ \/ ~Fresh /\ Goto(p, "mkdir") /\ Enter(p) /\ began' = [began EXCEPT ![p] = 0]
       \/ Fresh /\ Goto(p, "impatient") /\ UNCHANGED <<began, faults>>
    /\ UNCHANGED <<now, disk, saved, live>>

GiveUp(p) ==
    /\ stage[p] = "impatient"
    /\ \/ now > began[p] + Patience /\ Goto(p, "refused") /\ began' = [began EXCEPT ![p] = 0]
       \/ now <= began[p] + Patience /\ Goto(p, "wait") /\ UNCHANGED began
    /\ UNCHANGED <<now, disk, saved, live, faults>>

MakeDir(p) ==
    /\ stage[p] = "mkdir"
    /\ dir' = TRUE
    /\ Goto(p, "own")
    /\ UNCHANGED <<now, owner, heart, saved, began, live, faults>>

(* Without its directory the token cannot be written: hold_node fails, and *)
(* the claim it had made is dropped.                                       *)
WriteOwner(p) ==
    /\ stage[p] = "own"
    /\ \/ dir /\ owner' = p /\ Goto(p, "check")
       \/ ~dir /\ Goto(p, "leave") /\ UNCHANGED owner
    /\ UNCHANGED <<now, dir, heart, saved, began, live, faults>>

(* NodeClaim::beat, whose first answer hold_node throws away.              *)
FirstCheck(p) ==
    /\ stage[p] = "check"
    /\ Goto(p, IF owner = p THEN "first" ELSE "restore")
    /\ UNCHANGED <<now, disk, saved, began, live, faults>>

CheckNothing(p) ==
    /\ stage[p] = "run"
    /\ Goto(p, "beat")
    /\ UNCHANGED <<now, disk, saved, began, live, faults>>

Check(p) ==
    /\ stage[p] = "run"
    /\ \/ owner = p /\ Goto(p, "beat") /\ UNCHANGED <<live, faults>>
       \/ owner # p /\ Stop(p)
    /\ UNCHANGED <<now, disk, saved, began>>

WriteHeart(p) ==
    /\ stage[p] \in {"first", "beat"}
    /\ heart' = IF dir THEN now ELSE heart
    /\ Goto(p, IF stage[p] = "first" THEN "restore" ELSE "run")
    /\ UNCHANGED <<now, dir, owner, saved, began, live, faults>>

(* The node: it restores the group before its loop, and saves the group it *)
(* holds whenever it has advanced it.                                      *)
RestoreNothing(p) ==
    /\ stage[p] = "restore"
    /\ Goto(p, "run")
    /\ UNCHANGED <<now, disk, saved, began, live, faults>>

Restore(p) ==
    /\ stage[p] = "restore"
    /\ live' = [live EXCEPT ![p] = saved]
    /\ Goto(p, "run")
    /\ UNCHANGED <<now, disk, saved, began, faults>>

SaveGroup(p) ==
    /\ stage[p] = "run"
    /\ saved < MaxSaves
    /\ saved' = saved + 1
    /\ live' = [live EXCEPT ![p] = saved + 1]
    /\ UNCHANGED <<now, disk, stage, began, faults>>

Close(p) ==
    /\ stage[p] \in {"restore", "run"}
    /\ Stop(p)
    /\ UNCHANGED <<now, disk, saved, began>>

(* NodeClaim::drop.                                                        *)
Leave(p) ==
    /\ stage[p] = "leave"
    /\ Goto(p, IF owner = p THEN "unbeat" ELSE "off")
    /\ UNCHANGED <<now, disk, saved, began, live, faults>>

RemoveHeart(p) ==
    /\ stage[p] = "unbeat"
    /\ heart' = Nothing
    /\ Goto(p, "unown")
    /\ UNCHANGED <<now, dir, owner, saved, began, live, faults>>

RemoveOwner(p) ==
    /\ stage[p] = "unown"
    /\ owner' = Nothing
    /\ Goto(p, "undir")
    /\ UNCHANGED <<now, dir, heart, saved, began, live, faults>>

RemoveDir(p) ==
    /\ stage[p] = "undir"
    /\ dir' = (dir /\ (owner # Nothing \/ heart # Nothing))
    /\ Goto(p, "off")
    /\ UNCHANGED <<now, owner, heart, saved, began, live, faults>>

(* The window manager ends a process without running a destructor.         *)
Killed(p) ==
    /\ stage[p] \notin {"off", "refused"}
    /\ Goto(p, "off")
    /\ began' = [began EXCEPT ![p] = 0]
    /\ live' = [live EXCEPT ![p] = 0]
    /\ UNCHANGED <<now, disk, saved, faults>>

(* Time passes, over processes that keep up and over ones that do not.     *)
Tick ==
    /\ now < MaxClock
    /\ now' = now + 1
    /\ faults' = faults
         \cup {f \in {"asleep"} : /\ \E p \in Procs : stage[p] \in Serving
                                  /\ heart = Nothing \/ now + 1 - heart >= Stale}
         \cup {f \in {"starved"} : \E p \in Procs : stage[p] = "impatient"}
    /\ UNCHANGED <<disk, saved, stage, began, live>>

Proceed(p) ==
    \/ Look(p) \/ GiveUp(p) \/ MakeDir(p) \/ WriteOwner(p) \/ FirstCheck(p)
    \/ Restore(p) \/ Check(p) \/ WriteHeart(p)
    \/ Leave(p) \/ RemoveHeart(p) \/ RemoveOwner(p) \/ RemoveDir(p)

Next ==
    \/ \E p \in Procs : Proceed(p) \/ StartWaiting(p) \/ SaveGroup(p) \/ Close(p) \/ Killed(p)
    \/ Tick

Spec == Init /\ [][Next]_vars

(* A process the system runs keeps taking steps: the loop beats on every   *)
(* tick, hold_node polls, and a drop that has begun ends.                  *)
FairSpec == Spec /\ \A p \in Procs : WF_vars(Proceed(p))

-----------------------------------------------------------------------------
Clean == {"overlap", "asleep"} \cap faults = {}
SoleAmong(S) == \A p, q \in Procs : stage[p] \in S /\ stage[q] \in S => p = q

(* Only one process runs a node for a network, as long as no two are in    *)
(* the middle of taking or releasing the claim and the node beats in time  *)
(* (store.rs hold_node).                                                   *)
SoleServer == Clean => SoleAmong(Serving)

(* Then no node works from a group that another has saved over: what it    *)
(* holds in memory is what the store has (serve.rs, the restored group;    *)
(* persist_group).                                                         *)
NothingSavedOver == Clean => \A p \in Procs : stage[p] \in {"run", "beat"} => live[p] = saved

(* A process is refused only when somebody beat after it began to wait, or *)
(* has just released the claim: one left by a crash is waited out, never   *)
(* reported as a running node (store.rs hold_node, the deadline past       *)
(* NODE_CLAIM_STALE).                                                      *)
RefusedIsServed ==
    [][\A p \in Procs :
         stage'[p] = "refused" /\ stage[p] # "refused" /\ "starved" \notin faults
         => heart = Nothing \/ heart > began[p]]_vars

(* Whoever removes a heartbeat or an owner removes its own: a node that    *)
(* lost the claim while it slept leaves its successor's alone on the way   *)
(* out (store.rs, NodeClaim::drop).                                        *)
ReleaseOnlyOwn ==
    [][(heart # Nothing /\ heart' = Nothing) \/ (owner # Nothing /\ owner' = Nothing)
       => "overlap" \in faults \/ (owner \in Procs /\ stage[owner] \in Leaving)]_vars

(* Two nodes on one store do not last, whatever went wrong: one of them    *)
(* finds another's token at a beat and stops (serve.rs, Beat::Lost).       *)
AloneAgain ==
    \A p, q \in Procs : p # q =>
        (stage[p] \in Serving /\ stage[q] \in Serving)
            ~> ~(stage[p] \in Serving /\ stage[q] \in Serving)
=============================================================================
