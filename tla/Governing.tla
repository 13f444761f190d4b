----------------------------- MODULE Governing ------------------------------
(***************************************************************************)
(* What the commands of one member do to a network's groups, roles and     *)
(* policy: each is authorised on the state replayed when it is submitted,  *)
(* waits for the store's append lock, may read again under it, appends     *)
(* entries that carry a whole policy or a whole capability set, and asks   *)
(* replay whether they took effect.  Entries of other members arrive       *)
(* through the node at any time.  How entries reach the log is             *)
(* GovernanceStore's subject; here the log is what its replay says.        *)
(***************************************************************************)
EXTENDS FiniteSets, Integers

CONSTANTS
    Members, Me,         \* everybody, and the member whose machine this is
    Procs,               \* window and commands of Me
    Roles,               \* roles beside Founders and everyone
    Unrestricted,        \* groups that hold every capability there is
    Verbs, HighVerbs,    \* chat capabilities, and those of governance tier
    Settings, Values,    \* keys of the policy record, and what they can hold
    Unguarded,           \* settings written from what submit had read
    Requests,            \* what the processes of Me ask for
    PeerRequests,        \* what other members ask for on their machines
    MaxSubmits, MaxPeers,
    Nobody

Founders == "founders"
Everyone == "everyone"
Groups == {Founders, Everyone} \cup Roles
Editable == Groups \ Unrestricted

ASSUME MembersAssumption == Me \in Members /\ IsFiniteSet(Members)
ASSUME GroupsAssumption ==
    /\ Roles \cap {Founders, Everyone} = {}
    /\ Founders \in Unrestricted /\ Unrestricted \subseteq {Founders} \cup Roles
ASSUME SettingsAssumption == Unguarded \subseteq Settings /\ {Nobody, "orphan"} \cap Procs = {}
ASSUME BoundsAssumption == MaxSubmits \in Nat /\ MaxPeers \in Nat

SetRequest == [do : {"set"}, key : Settings, value : Values]
RoleRequest == [do : {"role"}, role : Roles]
GrantRequest == [do : {"grant"}, role : Groups, verb : Verbs, on : BOOLEAN]
MemberRequest == [do : {"member"}, group : Groups, who : Members, on : BOOLEAN]
LeaveRequest == [do : {"leave"}]
AllRequests == SetRequest \cup RoleRequest \cup GrantRequest \cup MemberRequest \cup LeaveRequest

ASSUME RequestsAssumption == Requests \cup PeerRequests \subseteq AllRequests

(* What replay makes of the log.                                           *)
Networks ==
    [in : [Groups -> SUBSET Members], caps : [Editable -> SUBSET Verbs],
     roles : SUBSET Roles, policy : [Settings -> Values]]

VARIABLES
    net,      \* the network as the stored log now replays
    ours,     \* settings and grants that were last changed on this machine
    lock,     \* holder of the append lock
    job,      \* what a process was asked for
    at,       \* where it is
    view,     \* the network as it read it last
    leaving,  \* groups it has still to write itself out of
    said,     \* how its last command ended
    submits, peers,
    late      \* somebody left on a reading that was no longer true

vars == <<net, ours, lock, job, at, view, leaving, said, submits, peers, late>>

Idle == [do |-> "none"]
Orphan == "orphan"      \* what the lock of a killed process belongs to
Places == {"idle", "check", "wait", "read", "append", "verify"}
Facets == Settings \cup (Editable \X Verbs)

TypeOK ==
    /\ net \in Networks
    /\ ours \subseteq Facets
    /\ lock \in Procs \cup {Nobody, Orphan}
    /\ job \in [Procs -> Requests \cup {Idle}]
    /\ at \in [Procs -> Places]
    /\ \A p \in Procs : at[p] # "idle" => job[p] # Idle
    /\ view \in [Procs -> Networks]
    /\ leaving \in [Procs -> SUBSET Groups]
    /\ said \in [Procs -> {"nothing", "done", "rejected"}]
    /\ submits \in 0..MaxSubmits /\ peers \in 0..MaxPeers
    /\ late \in BOOLEAN

(* genesis: the founder is in Founders and not in everyone, and every      *)
(* setting is at its default; other clients may have made roles that hold  *)
(* everything.                                                             *)
Genesis(default) ==
    [in |-> [g \in Groups |-> IF g \in Unrestricted THEN {Me} ELSE {}],
     caps |-> [g \in Editable |-> {}],
     roles |-> Unrestricted \ {Founders},
     policy |-> [k \in Settings |-> default]]

Init ==
    /\ \E default \in Values : net = Genesis(default)
    /\ ours = {} /\ lock = Nobody
    /\ job = [p \in Procs |-> Idle]
    /\ at = [p \in Procs |-> "idle"]
    /\ view = [p \in Procs |-> net]
    /\ leaving = [p \in Procs |-> {}]
    /\ said = [p \in Procs |-> "nothing"]
    /\ submits = 0 /\ peers = 0 /\ late = FALSE

-----------------------------------------------------------------------------
(* Capabilities.  What the protocol calls define-policy, define-group,     *)
(* approve-node, revoke-node and manage-membership is held through a group *)
(* that holds everything: the verbs this client grants are chat verbs.     *)
Holders(n) == UNION {n.in[g] : g \in Unrestricted}
Exists(n, g) == g \in {Founders, Everyone} \cup n.roles
GroupsOf(n, m) == {g \in Groups : Exists(n, g) /\ m \in n.in[g]}
IsMember(n, m) == GroupsOf(n, m) # {}

(* authorize: what a command needs in the state it was submitted on.       *)
Authorized(c, n, m) ==
    CASE c.do = "set" -> m \in Holders(n)
      [] c.do = "role" -> m \in Holders(n) /\ ~Exists(n, c.role)
      [] c.do = "grant" ->
           /\ m \in Holders(n) /\ Exists(n, c.role) /\ c.role \in Editable
           /\ ~(c.on /\ c.role = Everyone /\ c.verb \in HighVerbs)
      [] c.do = "member" -> m \in Holders(n) /\ Exists(n, c.group)
      [] c.do = "leave" -> IsMember(n, m)

(* would_strand, and the same question asked by depart: m is the last who  *)
(* can revoke, and would no longer be after leaving these groups.          *)
StrandsInEveryone(n, m, groups) ==
    Everyone \in groups /\ m \in Holders(n) /\ Holders(n) \ {m} = {}
Strands(n, m, groups) ==
    /\ m \in Holders(n)
    /\ Holders(n) \ {m} = {}
    /\ ~\E g \in Unrestricted \ groups : m \in n.in[g]

(* The replay of one entry by its author: without the capability, it has   *)
(* no effect.  Leaving a group needs only membership.                      *)
Put(n, entry, m) ==
    CASE entry.do = "policy" /\ m \in Holders(n) -> [n EXCEPT !.policy = entry.policy]
      [] entry.do = "group" /\ m \in Holders(n)
         /\ ~(entry.group = Everyone /\ entry.caps \cap HighVerbs # {}) ->
           [n EXCEPT !.caps[entry.group] = entry.caps,
                     !.roles = @ \cup ({entry.group} \cap Roles)]
      [] entry.do = "member" /\ Exists(n, entry.group)
         /\ (m \in Holders(n) \/ (~entry.on /\ entry.who = m /\ IsMember(n, m))) ->
           [n EXCEPT !.in[entry.group] =
              IF entry.on THEN @ \cup {entry.who} ELSE @ \ {entry.who}]
      [] OTHER -> n

(* The entry a command makes of what it has read.                          *)
Entry(c, n) ==
    CASE c.do = "set" -> [do |-> "policy", policy |-> [n.policy EXCEPT ![c.key] = c.value]]
      [] c.do = "role" -> [do |-> "group", group |-> c.role, caps |-> {}]
      [] c.do = "grant" ->
           [do |-> "group", group |-> c.role,
            caps |-> IF c.on THEN n.caps[c.role] \cup {c.verb} ELSE n.caps[c.role] \ {c.verb}]
      [] c.do = "member" -> c

Changed(n, o) ==
    {k \in Settings : n.policy[k] # o.policy[k]}
        \cup {f \in Editable \X Verbs : (f[2] \in n.caps[f[1]]) # (f[2] \in o.caps[f[1]])}

Set(f, p, v) == f' = [f EXCEPT ![p] = v]
SelfRemoval(c) == c.do = "leave" \/ (c.do = "member" /\ ~c.on /\ c.who = Me)
RereadsRolesOnly(c) == c.do = "grant"
Rereads(c) == c.do = "grant" \/ (c.do = "set" /\ c.key \notin Unguarded)

(* A command is authorised on what is stored now, and keeps that reading.  *)
Submit(p) ==
    /\ at[p] = "idle" /\ submits < MaxSubmits
    /\ \E c \in Requests :
         /\ Authorized(c, net, Me)
         /\ Set(job, p, c)
         /\ Set(at, p, IF SelfRemoval(c) THEN "check" ELSE "wait")
    /\ Set(view, p, net) /\ submits' = submits + 1
    /\ UNCHANGED <<net, ours, lock, leaving, said, peers, late>>

(* Ends a command, with the lock if it has it.                             *)
End(p, how) ==
    /\ Set(at, p, "idle") /\ Set(job, p, Idle)
    /\ Set(leaving, p, {}) /\ Set(said, p, how)
    /\ lock' = IF lock = p THEN Nobody ELSE lock

(* Whoever takes itself out of groups asks first, and before it has the    *)
(* lock, whether somebody stays who can revoke.                            *)
Check(p) ==
    /\ at[p] = "check"
    /\ LET groups == IF job[p].do = "leave" THEN GroupsOf(net, Me) ELSE {job[p].group} IN
         \/ /\ groups = {} \/ Strands(net, Me, groups)
            /\ End(p, "rejected")
         \/ /\ groups # {} /\ ~Strands(net, Me, groups)
            /\ Set(leaving, p, groups) /\ Set(at, p, "wait")
            /\ UNCHANGED <<job, said, lock>>
    /\ Set(view, p, net)
    /\ UNCHANGED <<net, ours, submits, peers, late>>

TakeLock(p) ==
    /\ at[p] = "wait" /\ lock = Nobody
    /\ lock' = p
    /\ Set(at, p, IF Rereads(job[p]) THEN "read" ELSE "append")
    /\ UNCHANGED <<net, ours, job, view, leaving, said, submits, peers, late>>

(* The lock is waited for a while and then refused.                        *)
GiveUp(p) ==
    /\ at[p] = "wait" /\ lock # Nobody
    /\ End(p, "rejected")
    /\ UNCHANGED <<net, ours, view, submits, peers, late>>

(* set_permission, set_chat_setting and set_admission_mode read again, and *)
(* write nothing when there is nothing to change. Whether what they write    *)
(* has an effect is asked afterwards.                                       *)
Alters(c, n) == IF c.do = "grant" THEN (c.verb \in n.caps[c.role]) # c.on
                ELSE n.policy[c.key] # c.value

Read(p) ==
    /\ at[p] = "read"
    /\ Set(view, p, net)
    /\ \/ /\ job[p].do = "grant" /\ ~Exists(net, job[p].role)
          /\ End(p, "rejected")
       \/ /\ job[p].do = "grant" => Exists(net, job[p].role)
          /\ ~Alters(job[p], net)
          /\ End(p, "done")
       \/ /\ job[p].do = "grant" => Exists(net, job[p].role)
          /\ Alters(job[p], net)
          /\ Set(at, p, "append") /\ UNCHANGED <<job, leaving, said, lock>>
    /\ UNCHANGED <<net, ours, submits, peers, late>>

Stale(p) == \E g \in Unrestricted : view[p].in[g] # net.in[g]

(* An entry on the head the store has now, made of what was read before.   *)
(* One that leaves several groups writes one for each.  Where the command  *)
(* only holds the lock to append, it is dropped before it asks replay.     *)
AppendEntry(p) ==
    /\ at[p] = "append" /\ job[p].do # "leave"
    /\ net' = Put(net, Entry(job[p], view[p]), Me)
    /\ ours' = ours \cup Changed(net, net')
    /\ late' = (late \/ (SelfRemoval(job[p]) /\ Stale(p)))
    /\ Set(at, p, "verify")
    /\ \/ job[p].do # "role" /\ UNCHANGED lock
       \/ job[p].do \in {"role", "set"} /\ ~Rereads(job[p]) /\ lock' = Nobody
    /\ UNCHANGED <<job, view, leaving, said, submits, peers>>

AppendDeparture(p) ==
    /\ at[p] = "append" /\ job[p].do = "leave"
    /\ \E g \in leaving[p] :
         LET out == [do |-> "member", group |-> g, who |-> Me, on |-> FALSE] IN
         /\ net' = Put(net, out, Me)
         /\ Set(view, p, Put(view[p], out, Me))
         /\ Set(leaving, p, leaving[p] \ {g})
         /\ Set(at, p, IF leaving[p] = {g} THEN "verify" ELSE "append")
    /\ late' = (late \/ Stale(p))
    /\ UNCHANGED <<ours, lock, job, said, submits, peers>>

Applied(c, n) ==
    CASE c.do = "set" -> n.policy[c.key] = c.value
      [] c.do = "role" -> Exists(n, c.role)
      [] c.do = "grant" -> (c.verb \in n.caps[c.role]) = c.on
      [] c.do = "member" -> (c.who \in n.in[c.group]) = c.on
      [] c.do = "leave" -> ~IsMember(n, Me)

(* Success is what replay says, not what was written.                      *)
Verify(p) ==
    /\ at[p] = "verify"
    /\ \/ Applied(job[p], net) /\ End(p, "done")
       \/ ~Applied(job[p], net) /\ End(p, "rejected")
    /\ UNCHANGED <<net, ours, view, submits, peers, late>>

(* A process that dies leaves the lock behind, and a departure half done.  *)
Killed(p) ==
    /\ at[p] # "idle"
    /\ Set(at, p, "idle") /\ Set(job, p, Idle) /\ Set(leaving, p, {}) /\ Set(said, p, "nothing")
    /\ lock' = IF lock = p THEN Orphan ELSE lock
    /\ UNCHANGED <<net, ours, view, submits, peers, late>>

(* The node saves what another member wrote, whoever has the lock.  Their  *)
(* client asks the same questions, of a log that is up to date.            *)
Peer ==
    /\ peers < MaxPeers /\ peers' = peers + 1
    /\ \E m \in Members \ {Me}, c \in PeerRequests \ LeaveRequest :
         LET leaves == c.do = "member" /\ ~c.on /\ c.who = m IN
         /\ IF leaves THEN IsMember(net, m) /\ ~Strands(net, m, {c.group})
                      ELSE Authorized(c, net, m)
         /\ net' = Put(net, Entry(c, net), m)
         /\ ours' = ours \ Changed(net, net')
    /\ UNCHANGED <<lock, job, at, view, leaving, said, submits, late>>

Next ==
    \/ \E p \in Procs :
         \/ Submit(p) \/ Check(p) \/ TakeLock(p) \/ GiveUp(p) \/ Read(p)
         \/ AppendEntry(p) \/ AppendDeparture(p) \/ Verify(p) \/ Killed(p)
    \/ Peer

Spec == Init /\ [][Next]_vars

-----------------------------------------------------------------------------
About(c) ==
    IF c.do = "set" THEN {c.key} ELSE IF c.do = "grant" THEN {<<c.role, c.verb>>} ELSE {}

Reverts(p) ==
    /\ at[p] = "append" /\ at'[p] = "verify"
    /\ ~(Changed(net, net') \cap ours \subseteq About(job[p]))

(* A command never undoes what another process of this machine wrote,      *)
(* except one that does not read under the lock and was overtaken since it *)
(* was submitted.  An edit of a setting or a permission reads there, and   *)
(* has no such excuse (executor.rs set_permission, set_chat_setting).      *)
EditsKeepEdits ==
    [][\A p \in Procs :
         Reverts(p) => /\ job[p].do = "role" \/ (job[p].do = "set" /\ job[p].key \in Unguarded)
                       /\ view[p] # net]_vars

(* Somebody can always revoke, so that the network can rotate its epoch,   *)
(* as long as nobody left on a reading that had become untrue while it     *)
(* waited for the lock (executor.rs would_strand, depart).                 *)
Governable == late \/ Holders(net) # {}
=============================================================================
