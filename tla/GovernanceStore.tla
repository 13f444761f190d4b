--------------------------- MODULE GovernanceStore ---------------------------
(***************************************************************************)
(* The stored governance log of one network, written by commands and by    *)
(* the node and read by all of them (kols-node store.rs append_entry,      *)
(* replayed, lock; executor.rs, the commands that append; serve.rs,        *)
(* persist_governance, adopt_local_changes and the handlers around them).  *)
(*                                                                         *)
(* An entry is a file named by how many files there were; a tally of marks *)
(* tells readers that the directory moved; each handle caches the log it   *)
(* has read; a lock directory serialises appends.  Every file operation is *)
(* a step.  What an entry says is left out: it has a parent, and the       *)
(* canonical chain of a set of entries is the longest branch, equal ones   *)
(* decided by the least identifier (the protocol library's fork choice).   *)
(***************************************************************************)
EXTENDS Integers, Sequences, FiniteSets

CONSTANTS
    Commands,    \* handles of processes that run commands and poll
    Node,        \* the handle of the network's node
    Nobody,      \* the holder of a free lock
    MaxEntries,  \* bound: entries ever made, after the genesis
    MaxKills     \* bound: processes killed

ASSUME NodeIsNoCommand == Node \notin Commands
ASSUME NobodyIsNoHandle == Nobody \notin Commands \cup {Node}
ASSUME BoundsAreNat == MaxEntries \in Nat /\ MaxKills \in Nat

Handles == Commands \cup {Node}
Genesis == 0
Entries == 1..MaxEntries

VARIABLES
    parent,   \* the entries made so far, by anybody: each one's parent
    by,       \* who made each: under the lock here, for a join here, a peer
    files,    \* the entry files, by position
    tally,    \* how many marks were made
    lock,     \* who holds the lock directory
    nodeLog,  \* the entries in the node's own log
    task,     \* what each handle is doing
    at,       \* where in it
    seen,     \* the tally a read in progress began with
    half,     \* whether an append was under way when it did
    cache,    \* what each handle holds of the store
    out,      \* the entries it has still to append
    next,     \* the position it has counted for the next
    kills,    \* processes killed so far
    faults    \* what has happened that the lock does not cover

disk == <<files, tally, lock>>
memory == <<task, at, seen, half, cache, out, next>>
vars == <<parent, by, disk, nodeLog, memory, kills, faults>>

(* Entries from the network are written without the lock ("save"), all     *)
(* others with it.                                                         *)
Locked == {"govern", "confirm", "key", "keep"}
Tasks == Locked \cup {"none", "poll", "adopt", "save"}
Appending == {"count", "write"}
Places == {"idle", "look", "list", "act", "mark"} \cup Appending

Makers == {"lock", "join", "peer"}

(* What the lock does not prevent: an append without it while another is   *)
(* under way, and a chain extended from a cache that misses an entry.      *)
Faults == {"overlap", "torn"}

Stored == {files[i] : i \in 1..Len(files)}
Nothing == [tally |-> 0, count |-> 0, log |-> {}, torn |-> FALSE]
Caches == [tally : Nat, count : Nat, log : SUBSET Entries, torn : BOOLEAN]

TypeOK ==
    /\ DOMAIN parent \subseteq Entries
    /\ \A e \in DOMAIN parent : parent[e] \in {Genesis} \cup DOMAIN parent
    /\ by \in [DOMAIN parent -> Makers]
    /\ files \in Seq(DOMAIN parent)
    /\ tally \in Nat
    /\ lock \in Handles \cup {Nobody}
    /\ nodeLog \subseteq DOMAIN parent
    /\ task \in [Handles -> Tasks]
    /\ at \in [Handles -> Places]
    /\ seen \in [Handles -> 0..tally]
    /\ half \in [Handles -> BOOLEAN]
    /\ cache \in [Handles -> Caches]
    /\ \A h \in Handles : cache[h].tally <= tally /\ cache[h].log \subseteq DOMAIN parent
    /\ out \in [Handles -> SUBSET DOMAIN parent]
    /\ next \in [Handles -> 0..Len(files)]
    /\ kills \in 0..MaxKills
    /\ faults \subseteq Faults

Init ==
    /\ parent = [e \in {} |-> Genesis] /\ by = parent
    /\ files = <<>> /\ tally = 0 /\ lock = Nobody /\ nodeLog = {}
    /\ task = [h \in Handles |-> "none"]
    /\ at = [h \in Handles |-> "idle"]
    /\ seen = [h \in Handles |-> 0]
    /\ half = [h \in Handles |-> FALSE]
    /\ cache = [h \in Handles |-> Nothing]
    /\ out = [h \in Handles |-> {}]
    /\ next = [h \in Handles |-> 0]
    /\ kills = 0 /\ faults = {}

-----------------------------------------------------------------------------
(* Fork choice: an entry with its ancestors, the tip of the best branch of *)
(* a log (a set of one, or none when the log has no entry), and its chain. *)
Closed(S) == \A e \in S : parent[e] \in {Genesis} \cup S
Branch(e) ==
    {a \in DOMAIN parent : \A S \in SUBSET DOMAIN parent : e \in S /\ Closed(S) => a \in S}
Beats(e, f) ==
    \/ Cardinality(Branch(e)) > Cardinality(Branch(f))
    \/ Cardinality(Branch(e)) = Cardinality(Branch(f)) /\ e < f
Tips(log) == {e \in log : \A f \in log \ {e} : Beats(e, f)}
Chain(log) == UNION {Branch(e) : e \in Tips(log)}
Heads(log) == IF log = {} THEN {Genesis} ELSE Tips(log)

Union(f, g) == [x \in DOMAIN f \cup DOMAIN g |-> IF x \in DOMAIN g THEN g[x] ELSE f[x]]
Extended(up, who) ==
    parent' = Union(parent, up) /\ by' = Union(by, [x \in DOMAIN up |-> who])
Make(e, p, who) == Extended([x \in {e} |-> p], who)

Set(f, h, v) == f' = [f EXCEPT ![h] = v]
Goto(h, there) == Set(at, h, there)
Turn(h, what, there) == Set(task, h, what) /\ Goto(h, there)
Others(h) == Handles \ {h}

Fresh == Entries \ DOMAIN parent
Holds(h) == task[h] \in Locked
Unlock(h) == lock' = IF Holds(h) THEN Nobody ELSE lock
Finish(h) == Turn(h, "none", "idle") /\ Unlock(h)

(* A process that stops; a node that stops is started again and loads the  *)
(* stored chain as a tick does.                                            *)
Stop(h) ==
    /\ IF h = Node THEN Turn(h, "adopt", "look") ELSE Turn(h, "none", "idle")
    /\ nodeLog' = IF h = Node THEN {} ELSE nodeLog
    /\ Set(out, h, {}) /\ Set(seen, h, 0) /\ Set(half, h, FALSE) /\ Set(next, h, 0)
    /\ UNCHANGED <<parent, by, files, tally>>

(* Store::lock: a directory made where there is none.  Waiting for it      *)
(* changes nothing and is not a step; nobody relieves a killed holder.     *)
TakeAnyway(h) == lock' = h
Take(h) == lock = Nobody /\ lock' = h

(* What a handle begins: a window polls, a command governs, the node       *)
(* ticks, is asked for the epoch key or to let somebody join, and takes    *)
(* entries from the network into its own log.                              *)
Poll(c) ==
    /\ at[c] = "idle" /\ Turn(c, "poll", "look")
    /\ UNCHANGED <<parent, by, disk, nodeLog, seen, half, cache, out, next, kills, faults>>

Govern(c) ==
    /\ at[c] = "idle" /\ Take(c) /\ Turn(c, "govern", "look")
    /\ UNCHANGED <<parent, by, files, tally, nodeLog, seen, half, cache, out, next, kills, faults>>

Tick ==
    /\ at[Node] = "idle" /\ Turn(Node, "adopt", "look")
    /\ UNCHANGED <<parent, by, disk, nodeLog, seen, half, cache, out, next, kills, faults>>

KeyRequested ==
    /\ at[Node] = "idle" /\ Take(Node) /\ Turn(Node, "key", "look")
    /\ UNCHANGED <<parent, by, files, tally, nodeLog, seen, half, cache, out, next, kills, faults>>

(* The entry for somebody who joins goes on the head the node has; the     *)
(* lock is dropped, and what the node has is saved afterwards.             *)
JoinRequested ==
    /\ at[Node] = "idle" /\ lock = Nobody
    /\ \E e \in Fresh, p \in Heads(nodeLog) :
         Make(e, p, "join") /\ nodeLog' = nodeLog \cup {e}
    /\ Turn(Node, "save", "look")
    /\ UNCHANGED <<disk, seen, half, cache, out, next, kills, faults>>

Synced ==
    /\ at[Node] = "idle"
    /\ \E new \in SUBSET Fresh : \E up \in [new -> {Genesis} \cup nodeLog \cup new] :
         /\ new # {} /\ \A e \in new : up[e] \in new => up[e] < e
         /\ Extended(up, "peer") /\ nodeLog' = nodeLog \cup new
    /\ Turn(Node, "save", "look")
    /\ UNCHANGED <<disk, seen, half, cache, out, next, kills, faults>>

(* A node that has waited too long for the lock ends with an error.        *)
GiveUp ==
    /\ at[Node] = "idle" /\ lock # Nobody
    /\ Stop(Node) /\ Set(cache, Node, Nothing)
    /\ UNCHANGED <<lock, kills, faults>>

(* Store::replayed: the tally, and, when it is not the cached one, the     *)
(* directory.  An entry whose parent has not been seen is refused, and the *)
(* whole log with it.                                                      *)
ReadTally(h) ==
    /\ at[h] = "look"
    /\ \/ cache[h].tally = tally /\ Goto(h, "act") /\ UNCHANGED <<seen, half>>
       \/ /\ cache[h].tally # tally /\ Goto(h, "list")
          /\ Set(seen, h, tally)
          /\ Set(half, h, \E q \in Others(h) : at[q] \in Appending)
    /\ UNCHANGED <<parent, by, disk, nodeLog, task, cache, out, next, kills, faults>>

From(h) == IF cache[h].count < Len(files) THEN cache[h].count ELSE 0
Base(h) == IF From(h) = 0 THEN {} ELSE cache[h].log
Gained(h) == {files[i] : i \in From(h) + 1..Len(files)}
Replays(h) ==
    \A i \in From(h) + 1..Len(files) :
        parent[files[i]] \in {Genesis} \cup Base(h) \cup {files[j] : j \in From(h) + 1..i - 1}

InstallLate(h) ==
    Set(cache, h, [tally |-> tally, count |-> Len(files),
                   log |-> Base(h) \cup Gained(h), torn |-> half[h]])

Install(h) ==
    Set(cache, h, [tally |-> seen[h], count |-> Len(files),
                   log |-> Base(h) \cup Gained(h), torn |-> half[h]])

ReadList(h) ==
    /\ at[h] = "list"
    /\ \/ /\ Replays(h) /\ Install(h) /\ Goto(h, "act")
          /\ Set(seen, h, 0) /\ Set(half, h, FALSE)
          /\ UNCHANGED <<parent, by, disk, nodeLog, task, out, next>>
       \/ /\ ~Replays(h) /\ Stop(h) /\ Unlock(h)
          /\ Set(cache, h, IF h = Node THEN Nothing ELSE cache[h])
    /\ UNCHANGED <<kills, faults>>

(* What is then done with the log that was read: nothing, by a reader.     *)
Answered(h) ==
    /\ at[h] = "act" /\ task[h] \in {"poll", "confirm"}
    /\ Finish(h)
    /\ UNCHANGED <<parent, by, files, tally, nodeLog, seen, half, cache, out, next, kills, faults>>

(* A command's entry, on the head of the log it has read.                  *)
Extend(c) ==
    /\ at[c] = "act" /\ task[c] = "govern"
    /\ \/ \E e \in Fresh, p \in Heads(cache[c].log) :
            Make(e, p, "lock") /\ Set(out, c, {e}) /\ Goto(c, "mark") /\ UNCHANGED <<task, lock>>
       \/ Fresh = {} /\ Finish(c) /\ UNCHANGED <<parent, by, out>>
    /\ faults' = faults \cup {f \in {"torn"} : cache[c].torn}
    /\ UNCHANGED <<files, tally, nodeLog, seen, half, cache, next, kills>>

(* adopt_local_changes, on a tick and when a node starts.                  *)
Adopt ==
    /\ at[Node] = "act" /\ task[Node] = "adopt"
    /\ nodeLog' = nodeLog \cup Chain(cache[Node].log)
    /\ Turn(Node, "none", "idle")
    /\ UNCHANGED <<parent, by, disk, seen, half, cache, out, next, kills, faults>>

(* EpochKeyRequested, and a rotation away from a removed member: what the  *)
(* store gained is adopted, then the entry made, then all of it saved.     *)
AnswerKeyFirst ==
    /\ at[Node] = "act" /\ task[Node] = "key"
    /\ \/ \E e \in Fresh, p \in Heads(nodeLog) :
            /\ Make(e, p, "lock")
            /\ nodeLog' = nodeLog \cup Chain(cache[Node].log) \cup {e}
            /\ Turn(Node, "keep", "look") /\ UNCHANGED lock
       \/ /\ nodeLog' = nodeLog \cup Chain(cache[Node].log)
          /\ Finish(Node) /\ UNCHANGED <<parent, by>>
    /\ faults' = faults \cup {f \in {"torn"} : cache[Node].torn}
    /\ UNCHANGED <<files, tally, seen, half, cache, out, next, kills>>

AnswerKey ==
    /\ at[Node] = "act" /\ task[Node] = "key"
    /\ LET adopted == nodeLog \cup Chain(cache[Node].log) IN
         \/ \E e \in Fresh, p \in Heads(adopted) :
              /\ Make(e, p, "lock")
              /\ nodeLog' = adopted \cup {e}
              /\ Turn(Node, "keep", "look") /\ UNCHANGED lock
         \/ nodeLog' = adopted /\ Finish(Node) /\ UNCHANGED <<parent, by>>
    /\ faults' = faults \cup {f \in {"torn"} : cache[Node].torn}
    /\ UNCHANGED <<files, tally, seen, half, cache, out, next, kills>>

(* persist_governance: what of the node's chain the stored chain has not.  *)
PersistLonger ==
    /\ at[Node] = "act" /\ task[Node] \in {"save", "keep"}
    /\ LET mine == Chain(nodeLog)
           held == Chain(cache[Node].log)
       IN  \/ /\ Cardinality(mine) > Cardinality(held)
              /\ Set(out, Node, mine \ held) /\ Goto(Node, "mark") /\ UNCHANGED <<task, lock>>
           \/ Cardinality(mine) <= Cardinality(held) /\ Finish(Node) /\ UNCHANGED out
    /\ UNCHANGED <<parent, by, files, tally, nodeLog, seen, half, cache, next, kills, faults>>

Persist ==
    /\ at[Node] = "act" /\ task[Node] \in {"save", "keep"}
    /\ LET unsaved == Chain(nodeLog) \ Chain(cache[Node].log) IN
         \/ unsaved # {} /\ Set(out, Node, unsaved) /\ Goto(Node, "mark") /\ UNCHANGED <<task, lock>>
         \/ unsaved = {} /\ Finish(Node) /\ UNCHANGED out
    /\ UNCHANGED <<parent, by, files, tally, nodeLog, seen, half, cache, next, kills, faults>>

(* Store::append_entry, ancestors first.                                   *)
Mark(h) ==
    /\ at[h] = "mark"
    /\ tally' = tally + 1
    /\ Goto(h, "count")
    /\ faults' = faults \cup {f \in {"overlap"} : \E q \in Others(h) :
                                 at[q] \in Appending /\ "save" \in {task[h], task[q]}}
    /\ UNCHANGED <<parent, by, files, lock, nodeLog, task, seen, half, cache, out, next, kills>>

Count(h) ==
    /\ at[h] = "count"
    /\ Set(next, h, Len(files))
    /\ Goto(h, "write")
    /\ UNCHANGED <<parent, by, disk, nodeLog, task, seen, half, cache, out, kills, faults>>

AnyOf(h) == out[h]
First(h) == {e \in out[h] : parent[e] \notin out[h]}

Write(h) ==
    /\ at[h] = "write"
    /\ \E e \in First(h) :
         /\ files' = IF next[h] < Len(files) THEN [files EXCEPT ![next[h] + 1] = e]
                                             ELSE Append(files, e)
         /\ Set(out, h, out[h] \ {e}) /\ Set(next, h, 0)
         /\ \/ out[h] # {e} /\ Goto(h, "mark") /\ UNCHANGED <<task, lock>>
            \/ out[h] = {e} /\ Finish(h)
            \/ /\ out[h] = {e} /\ task[h] = "govern"
               /\ Turn(h, "govern", "look") \/ Turn(h, "confirm", "look")
               /\ UNCHANGED lock
    /\ UNCHANGED <<parent, by, tally, nodeLog, seen, half, cache, kills, faults>>

Killed(h) ==
    /\ kills < MaxKills /\ at[h] # "idle"
    /\ kills' = kills + 1
    /\ Stop(h) /\ Set(cache, h, Nothing)
    /\ UNCHANGED <<lock, faults>>

Proceed(h) ==
    \/ ReadTally(h) \/ ReadList(h) \/ Answered(h) \/ Extend(h)
    \/ Mark(h) \/ Count(h) \/ Write(h)
NodeActs == Adopt \/ AnswerKey \/ Persist

Next ==
    \/ \E c \in Commands : Poll(c) \/ Govern(c)
    \/ Tick \/ KeyRequested \/ JoinRequested \/ Synced \/ GiveUp \/ NodeActs
    \/ \E h \in Handles : Proceed(h) \/ Killed(h)

Spec == Init /\ [][Next]_vars

(* The node carries on with what it has begun, and its loop takes up its   *)
(* tick among whatever else happens to it.  Nothing is asked of the others.*)
FairSpec ==
    /\ Spec
    /\ WF_vars(Proceed(Node) \/ NodeActs)
    /\ SF_vars(Tick)

-----------------------------------------------------------------------------
(* An entry file, once written, stays what it is, as long as no entry from *)
(* the network is saved while another append is under way: the lock keeps  *)
(* all others apart (store.rs lock, append_entry).                         *)
NothingOverwritten ==
    [][\A i \in 1..Len(files) : "overlap" \in faults \/ files'[i] = files[i]]_vars

(* The files replay in the order of their names: no entry stands before    *)
(* its parent, or the whole log would be refused (store.rs replayed).      *)
Replayable ==
    "overlap" \notin faults =>
        \A i \in 1..Len(files) :
            parent[files[i]] \in {Genesis} \cup {files[j] : j \in 1..i - 1}

(* What a handle answers from its cache, on no more than an equal tally,   *)
(* is everything stored, unless an append was under way when it read the   *)
(* tally it cached (store.rs replayed).                                    *)
CacheCurrent ==
    \A h \in Handles :
        cache[h].tally = tally /\ ~cache[h].torn /\ "overlap" \notin faults
        => Stored \subseteq cache[h].log

Unforked(who) ==
    \A e, f \in Stored : parent[e] = parent[f] /\ {by[e], by[f]} \subseteq who => e = f

(* Two entries made on this machine under the lock never share a parent,   *)
(* so fork choice never voids one for the other (store.rs lock).           *)
OneChain == faults = {} => Unforked({"lock"})

(* What is stored and fork choice keeps is, again and again, all in the    *)
(* running node, unless the node's cache missed it; and what the node has  *)
(* is again and again all stored.  No governance act waits on one side for *)
(* ever, whichever branch fork choice moves to (serve.rs, the tick and     *)
(* persist_governance).                                                    *)
KeptInStep ==
    /\ []<>(Chain(Stored) \subseteq nodeLog \/ cache[Node].torn \/ "overlap" \in faults)
    /\ []<>(Chain(nodeLog) \subseteq Stored \/ "overlap" \in faults)
=============================================================================
