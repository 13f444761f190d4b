-------------------------- MODULE GoverningProofs ---------------------------
(***************************************************************************)
(* Proofs about Governing, for any members, roles, processes and requests: *)
(* its types, that somebody can always revoke, and that edits keep edits.  *)
(***************************************************************************)
EXTENDS Governing, TLAPS

(* A command is authorised only to grant what a group can be given.        *)
Grantable(c) == c.do = "grant" => c.role \in Editable

-----------------------------------------------------------------------------
(* What replay makes of each kind of entry.                                *)

\* A policy entry changes the policy and nothing else, and to what it carries.
LEMMA PutPolicy ==
    ASSUME NEW n \in Networks, NEW v \in Networks, NEW c \in SetRequest, NEW m
    PROVE  LET q == Put(n, Entry(c, v), m) IN
           /\ q \in Networks
           /\ q.in = n.in /\ q.caps = n.caps /\ q.roles = n.roles
           /\ q.policy \in {n.policy, [v.policy EXCEPT ![c.key] = c.value]}
  <1> DEFINE e == Entry(c, v)
  <1>1. e = [do |-> "policy", policy |-> [v.policy EXCEPT ![c.key] = c.value]]
    BY DEF Entry, SetRequest
  <1>2. e.do = "policy" /\ e.policy = [v.policy EXCEPT ![c.key] = c.value]
    BY <1>1
  <1>3. [v.policy EXCEPT ![c.key] = c.value] \in [Settings -> Values]
    BY DEF Networks, SetRequest
  <1>4. Put(n, e, m) \in {n, [n EXCEPT !.policy = e.policy]}
    BY <1>2 DEF Put
  <1> QED BY <1>2, <1>3, <1>4 DEF Networks

\* The entry of a command about a role.
LEMMA GroupEntryType ==
    ASSUME NEW v \in Networks, NEW c \in RoleRequest \cup GrantRequest, Grantable(c)
    PROVE  /\ Entry(c, v).do = "group" /\ Entry(c, v).group = c.role
           /\ Entry(c, v).caps \in SUBSET Verbs
  <1>1. CASE c \in RoleRequest
    BY <1>1 DEF Entry, RoleRequest
  <1>2. CASE c \in GrantRequest
    <2>1. c.do = "grant" /\ c.verb \in Verbs /\ v.caps[c.role] \in SUBSET Verbs
      BY <1>2 DEF GrantRequest, Grantable, Networks
    <2>2. Entry(c, v) = [do |-> "group", group |-> c.role,
                         caps |-> IF c.on THEN v.caps[c.role] \cup {c.verb}
                                          ELSE v.caps[c.role] \ {c.verb}]
      BY <2>1 DEF Entry
    <2> QED BY <2>1, <2>2
  <1> QED BY <1>1, <1>2

\* A group entry leaves members and policy alone.
LEMMA PutGroup ==
    ASSUME NEW n \in Networks, NEW e, NEW m, e.do = "group", e.caps \in SUBSET Verbs
    PROVE  /\ Put(n, e, m) \in Networks
           /\ Put(n, e, m).in = n.in
           /\ Put(n, e, m).policy = n.policy
  <1> DEFINE q == [n EXCEPT !.caps[e.group] = e.caps,
                            !.roles = @ \cup ({e.group} \cap Roles)]
  <1>1. Put(n, e, m) \in {n, q}
    BY DEF Put
  <1>2. q \in Networks /\ q.in = n.in /\ q.policy = n.policy
    BY DEF Networks
  <1> QED BY <1>1, <1>2

\* It sets the capabilities of its one group, which exists from then on.
LEMMA PutGroupCaps ==
    ASSUME NEW n \in Networks, NEW e, NEW m, e.do = "group", e.caps \in SUBSET Verbs
    PROVE  \/ Put(n, e, m) = n
           \/ /\ Put(n, e, m).caps = [n.caps EXCEPT ![e.group] = e.caps]
              /\ Put(n, e, m).roles = n.roles \cup ({e.group} \cap Roles)
  <1> DEFINE q == [n EXCEPT !.caps[e.group] = e.caps,
                            !.roles = @ \cup ({e.group} \cap Roles)]
  <1>1. Put(n, e, m) \in {n, q}
    BY DEF Put
  <1>2. /\ q.caps = [n.caps EXCEPT ![e.group] = e.caps]
        /\ q.roles = n.roles \cup ({e.group} \cap Roles)
    BY DEF Networks
  <1> QED BY <1>1, <1>2

\* A membership entry adds or removes one member of one group, and removes
\* another than its author only if the author holds everything.
LEMMA PutMember ==
    ASSUME NEW n \in Networks, NEW e \in MemberRequest, NEW m
    PROVE  LET q == Put(n, e, m) IN
           /\ q \in Networks
           /\ q.caps = n.caps /\ q.roles = n.roles /\ q.policy = n.policy
           /\ \/ q = n
              \/ /\ e.on /\ m \in Holders(n)
                 /\ q.in = [n.in EXCEPT ![e.group] = @ \cup {e.who}]
              \/ /\ ~e.on /\ (m \in Holders(n) \/ e.who = m)
                 /\ q.in = [n.in EXCEPT ![e.group] = @ \ {e.who}]
  <1> DEFINE q == [n EXCEPT !.in[e.group] =
                     IF e.on THEN @ \cup {e.who} ELSE @ \ {e.who}]
  <1>1. e.do = "member" /\ e.group \in Groups /\ e.who \in Members /\ e.on \in BOOLEAN
    BY DEF MemberRequest
  <1>2. \/ Put(n, e, m) = n
        \/ Put(n, e, m) = q /\ (m \in Holders(n) \/ (~e.on /\ e.who = m))
    BY <1>1 DEF Put
  <1>3. /\ q \in Networks
        /\ q.caps = n.caps /\ q.roles = n.roles /\ q.policy = n.policy
        /\ e.on => q.in = [n.in EXCEPT ![e.group] = @ \cup {e.who}]
        /\ ~e.on => q.in = [n.in EXCEPT ![e.group] = @ \ {e.who}]
    BY <1>1 DEF Networks
  <1> QED BY <1>1, <1>2, <1>3

\* One that removes takes one member out of one group or does nothing.
LEMMA PutOut ==
    ASSUME NEW n \in Networks, NEW e \in MemberRequest, ~e.on, NEW m
    PROVE  \/ Put(n, e, m) = n
           \/ Put(n, e, m).in = [n.in EXCEPT ![e.group] = @ \ {e.who}]
  <1>1. PICK q : q = Put(n, e, m)
    OBVIOUS
  <1>2. \/ q = n
        \/ e.on /\ m \in Holders(n) /\ q.in = [n.in EXCEPT ![e.group] = @ \cup {e.who}]
        \/ ~e.on /\ (m \in Holders(n) \/ e.who = m)
             /\ q.in = [n.in EXCEPT ![e.group] = @ \ {e.who}]
    BY <1>1, PutMember
  <1> QED BY <1>1, <1>2

\* Whatever is asked for, the network stays one.
LEMMA PutNetwork ==
    ASSUME NEW n \in Networks, NEW v \in Networks,
           NEW c \in AllRequests \ LeaveRequest, Grantable(c), NEW m
    PROVE  Put(n, Entry(c, v), m) \in Networks
  <1>1. CASE c \in SetRequest
    BY <1>1, PutPolicy
  <1>2. CASE c \in RoleRequest \cup GrantRequest
    BY <1>2, GroupEntryType, PutGroup
  <1>3. CASE c \in MemberRequest
    <2>1. Entry(c, v) = c
      BY <1>3 DEF MemberRequest, Entry
    <2> QED BY <1>3, <2>1, PutMember
  <1> QED BY <1>1, <1>2, <1>3 DEF AllRequests

-----------------------------------------------------------------------------
(* Types.  What a process was asked for is something it may ask.           *)

Granting ==
    \A p \in Procs : /\ job[p].do = "grant" => Grantable(job[p])
                     /\ at[p] = "check" => SelfRemoval(job[p])
Sound == TypeOK /\ Granting

\* No request is the absence of one.
LEMMA IdleIsNone == Idle \notin AllRequests /\ ~SelfRemoval(Idle) /\ Idle.do = "none"
  BY DEF Idle, AllRequests, SetRequest, RoleRequest, GrantRequest, MemberRequest, LeaveRequest,
         SelfRemoval

\* The initial network is one.
LEMMA GenesisType == \A v \in Values : Genesis(v) \in Networks
  BY MembersAssumption, GroupsAssumption DEF Genesis, Networks, Editable, Groups

\* The entry a process appends leaves a network.
LEMMA AppendedType ==
    ASSUME Sound, NEW p \in Procs, at[p] = "append", job[p].do # "leave", NEW m
    PROVE  Put(net, Entry(job[p], view[p]), m) \in Networks
  <1>1. job[p] \in AllRequests \ LeaveRequest /\ Grantable(job[p])
    BY RequestsAssumption DEF Sound, TypeOK, Granting, Grantable, LeaveRequest
  <1> QED BY <1>1, PutNetwork DEF Sound, TypeOK

\* One entry of a departure takes its author out of one group, or does nothing.
LEMMA DepartureType ==
    ASSUME NEW n \in Networks, NEW g \in Groups, NEW m
    PROVE  LET out == [do |-> "member", group |-> g, who |-> Me, on |-> FALSE]
               q == Put(n, out, m) IN
           /\ out \in MemberRequest
           /\ q \in Networks
           /\ q.caps = n.caps /\ q.policy = n.policy
           /\ q = n \/ q.in = [n.in EXCEPT ![g] = @ \ {Me}]
  <1> DEFINE out == [do |-> "member", group |-> g, who |-> Me, on |-> FALSE]
             q == Put(n, out, m)
  <1>1. out \in MemberRequest
    BY MembersAssumption DEF MemberRequest
  <1>2. out.group = g /\ out.who = Me /\ out.on = FALSE
    OBVIOUS
  <1>3. /\ q \in Networks /\ q.caps = n.caps /\ q.policy = n.policy
        /\ q = n \/ q.in = [n.in EXCEPT ![out.group] = @ \ {out.who}]
    <2> HIDE DEF out
    <2> QED BY <1>1, <1>2, PutMember
  <1> QED BY <1>1, <1>2, <1>3

LEMMA SoundInit == Init => Sound
  <1> SUFFICES ASSUME Init PROVE Sound
    OBVIOUS
  <1>1. net \in Networks
    BY GenesisType DEF Init
  <1>2. Granting
    BY IdleIsNone DEF Init, Granting
  <1>3. /\ lock \in Procs \cup {Nobody, Orphan} /\ job \in [Procs -> Requests \cup {Idle}]
        /\ at \in [Procs -> Places] /\ view \in [Procs -> Networks]
        /\ leaving \in [Procs -> SUBSET Groups]
        /\ said \in [Procs -> {"nothing", "done", "rejected"}]
    BY <1>1 DEF Init, Places
  <1>4. submits \in 0..MaxSubmits /\ peers \in 0..MaxPeers
    BY BoundsAssumption DEF Init
  <1>5. ours \subseteq Facets /\ late \in BOOLEAN /\ \A p \in Procs : at[p] = "idle"
    BY DEF Init
  <1> QED BY <1>1, <1>2, <1>3, <1>4, <1>5 DEF Sound, TypeOK

LEMMA SoundEnd ==
    ASSUME Sound, NEW p \in Procs, NEW how \in {"done", "rejected"}, End(p, how)
    PROVE  /\ lock' \in Procs \cup {Nobody, Orphan}
           /\ job' \in [Procs -> Requests \cup {Idle}]
           /\ at' \in [Procs -> Places]
           /\ \A q \in Procs : at'[q] # "idle" => job'[q] # Idle
           /\ leaving' \in [Procs -> SUBSET Groups]
           /\ said' \in [Procs -> {"nothing", "done", "rejected"}]
           /\ Granting'
  BY IdleIsNone DEF Sound, TypeOK, Granting, End, Set, Places

LEMMA SoundNext == Sound /\ [Next]_vars => Sound'
  <1> SUFFICES ASSUME Sound, [Next]_vars PROVE Sound'
    OBVIOUS
  <1> USE DEF Sound
  <1>1. ASSUME NEW p \in Procs, Submit(p) PROVE Sound'
    <2>1. PICK c \in Requests :
            /\ Authorized(c, net, Me)
            /\ Set(job, p, c)
            /\ Set(at, p, IF SelfRemoval(c) THEN "check" ELSE "wait")
      BY <1>1 DEF Submit
    <2>2. c # Idle /\ (c.do = "grant" => Grantable(c))
      BY <2>1, IdleIsNone, RequestsAssumption DEF Authorized, Grantable
    <2>3. Granting'
      BY <2>1, <2>2 DEF Granting, TypeOK, Set
    <2> QED BY <1>1, <2>1, <2>2, <2>3, BoundsAssumption DEF Submit, TypeOK, Set, Places
  <1>2. ASSUME NEW p \in Procs, Check(p) PROVE Sound'
    <2> DEFINE groups == IF job[p].do = "leave" THEN GroupsOf(net, Me) ELSE {job[p].group}
    <2>1. view' \in [Procs -> Networks]
      BY <1>2 DEF Check, TypeOK, Set
    <2>2. CASE End(p, "rejected")
      BY <1>2, <2>1, <2>2, SoundEnd DEF Check, TypeOK
    <2>3. CASE /\ Set(leaving, p, groups) /\ Set(at, p, "wait")
               /\ UNCHANGED <<job, said, lock>>
      <3>1. groups \in SUBSET Groups
        <4>1. job[p] \in AllRequests /\ SelfRemoval(job[p])
          BY <1>2, RequestsAssumption DEF Check, TypeOK, Granting
        <4>2. job[p].do = "leave" \/ job[p] \in MemberRequest
          BY <4>1 DEF SelfRemoval, AllRequests, SetRequest, RoleRequest, GrantRequest, LeaveRequest
        <4> QED BY <4>2 DEF MemberRequest, GroupsOf
      <3> QED BY <1>2, <2>1, <2>3, <3>1 DEF Check, TypeOK, Set, Places, Granting
    <2> QED BY <1>2, <2>2, <2>3 DEF Check
  <1>3. ASSUME NEW p \in Procs, TakeLock(p) PROVE Sound'
    BY <1>3 DEF TakeLock, TypeOK, Set, Places, Granting
  <1>4. ASSUME NEW p \in Procs, GiveUp(p) PROVE Sound'
    BY <1>4, SoundEnd DEF GiveUp, TypeOK
  <1>5. ASSUME NEW p \in Procs, Read(p) PROVE Sound'
    <2>1. view' \in [Procs -> Networks] /\ UNCHANGED <<net, ours, submits, peers, late>>
      BY <1>5 DEF Read, TypeOK, Set
    <2>2. CASE End(p, "rejected")
      BY <2>1, <2>2, SoundEnd DEF TypeOK
    <2>3. CASE End(p, "done")
      BY <2>1, <2>3, SoundEnd DEF TypeOK
    <2>4. CASE Set(at, p, "append") /\ UNCHANGED <<job, leaving, said, lock>>
      BY <1>5, <2>1, <2>4 DEF Read, TypeOK, Set, Places, Granting
    <2> QED BY <1>5, <2>2, <2>3, <2>4 DEF Read
  <1>6. ASSUME NEW p \in Procs, AppendEntry(p) PROVE Sound'
    <2>1. net' \in Networks
      BY <1>6, AppendedType DEF AppendEntry
    <2>2. ours' \subseteq Facets
      BY <1>6 DEF AppendEntry, TypeOK, Changed, Facets
    <2>3. lock' \in Procs \cup {Nobody, Orphan} /\ late' \in BOOLEAN
      BY <1>6 DEF AppendEntry, TypeOK
    <2> QED BY <1>6, <2>1, <2>2, <2>3 DEF AppendEntry, TypeOK, Set, Places, Granting
  <1>7. ASSUME NEW p \in Procs, AppendDeparture(p) PROVE Sound'
    <2>1. PICK g \in leaving[p] :
            LET out == [do |-> "member", group |-> g, who |-> Me, on |-> FALSE] IN
            /\ net' = Put(net, out, Me)
            /\ Set(view, p, Put(view[p], out, Me))
            /\ Set(leaving, p, leaving[p] \ {g})
            /\ Set(at, p, IF leaving[p] = {g} THEN "verify" ELSE "append")
      BY <1>7 DEF AppendDeparture
    <2>2. net' \in Networks /\ view' \in [Procs -> Networks]
      BY <2>1, DepartureType DEF TypeOK, Set
    <2>3. late' \in BOOLEAN
      BY <1>7 DEF AppendDeparture, TypeOK
    <2> QED BY <1>7, <2>1, <2>2, <2>3 DEF AppendDeparture, TypeOK, Set, Places, Granting
  <1>8. ASSUME NEW p \in Procs, Verify(p) PROVE Sound'
    <2>1. CASE End(p, "done")
      BY <1>8, <2>1, SoundEnd DEF Verify, TypeOK
    <2>2. CASE End(p, "rejected")
      BY <1>8, <2>2, SoundEnd DEF Verify, TypeOK
    <2> QED BY <1>8, <2>1, <2>2 DEF Verify
  <1>9. ASSUME NEW p \in Procs, Killed(p) PROVE Sound'
    BY <1>9, IdleIsNone DEF Killed, TypeOK, Set, Places, Granting
  <1>10. ASSUME Peer PROVE Sound'
    <2>1. PICK m \in Members \ {Me}, c \in PeerRequests \ LeaveRequest :
            LET leaves == c.do = "member" /\ ~c.on /\ c.who = m IN
            /\ IF leaves THEN IsMember(net, m) /\ ~Strands(net, m, {c.group})
                         ELSE Authorized(c, net, m)
            /\ net' = Put(net, Entry(c, net), m)
            /\ ours' = ours \ Changed(net, net')
      BY <1>10 DEF Peer
    <2>2. Grantable(c)
      BY <2>1 DEF Authorized, Grantable
    <2>3. net' \in Networks
      BY <2>1, <2>2, PutNetwork, RequestsAssumption DEF TypeOK
    <2> QED BY <1>10, <2>1, <2>3, BoundsAssumption DEF Peer, TypeOK, Granting
  <1>11. CASE UNCHANGED vars
    BY <1>11 DEF vars, TypeOK, Granting
  <1> QED BY <1>1, <1>2, <1>3, <1>4, <1>5, <1>6, <1>7, <1>8, <1>9, <1>10, <1>11 DEF Next

\* Processes and network keep their types, for any members, roles, processes,
\* requests and bounds.
THEOREM Typed == Spec => []TypeOK
  <1>1. Sound => TypeOK
    BY DEF Sound
  <1> QED BY <1>1, SoundInit, SoundNext, PTL DEF Spec

-----------------------------------------------------------------------------
(* Somebody can always revoke.                                             *)

Written(p) == at[p] \in {"wait", "append"}
Out(p) == IF job[p].do = "leave" THEN leaving[p] ELSE {job[p].group}

(* Who takes itself out of groups was told, of what it has read, that this *)
(* strands nobody; and reads nothing else before it has done so.           *)
Foreseen ==
    \A p \in Procs :
        /\ Written(p) /\ SelfRemoval(job[p]) => ~Strands(view[p], Me, Out(p))
        /\ at[p] = "read" => Rereads(job[p])

\* Taking m out of groups it is not stranding leaves a holder.
LEMMA RemovalLeavesOne ==
    ASSUME NEW n \in Networks, NEW m \in Members, NEW group \in Groups, NEW groups, group \in groups,
           ~Strands(n, m, groups), Holders(n) # {},
           NEW q \in Networks, q.in = [n.in EXCEPT ![group] = @ \ {m}]
    PROVE  Holders(q) # {} /\ ~Strands(q, m, groups) /\ ~Strands(q, m, groups \ {group})
  <1>1. \A x \in Holders(n) \ {m} : x \in Holders(q)
    BY GroupsAssumption DEF Holders, Networks, Groups
  <1>2. Holders(q) \subseteq Holders(n)
    BY GroupsAssumption DEF Holders, Networks, Groups
  <1>3. CASE Holders(n) \ {m} # {}
    BY <1>1, <1>3 DEF Strands
  <1>4. CASE m \notin Holders(n)
    BY <1>1, <1>2, <1>4 DEF Strands
  <1>5. CASE \E g \in Unrestricted \ groups : m \in n.in[g]
    <2>1. PICK g \in Unrestricted \ groups : m \in n.in[g]
      BY <1>5
    <2>2. g # group /\ g \in Groups
      BY <2>1, GroupsAssumption DEF Groups
    <2>3. m \in q.in[g]
      BY <2>1, <2>2 DEF Networks
    <2> QED BY <2>1, <2>3, <1>3 DEF Strands, Holders
  <1> QED BY <1>3, <1>4, <1>5 DEF Strands

\* Whether somebody is stranded depends only on who is in the groups that hold
\* everything.
LEMMA StrandsByMembers ==
    ASSUME NEW n, NEW q, NEW m, NEW groups, \A g \in Unrestricted : n.in[g] = q.in[g]
    PROVE  Holders(n) = Holders(q) /\ (Strands(n, m, groups) <=> Strands(q, m, groups))
  <1>1. Holders(n) = Holders(q)
    BY DEF Holders
  <1> QED BY <1>1 DEF Strands

\* Where nothing is said of the lock, of members, or of what is foreseen, a step
\* of one process leaves the others where they are.
LEMMA ForeseenElsewhere ==
    ASSUME Sound, Foreseen, NEW p \in Procs,
           \A q \in Procs \ {p} : /\ at'[q] = at[q] /\ job'[q] = job[q]
                                  /\ view'[q] = view[q] /\ leaving'[q] = leaving[q],
           /\ at'[p] \in {"wait", "append"} /\ SelfRemoval(job'[p])
                => ~Strands(view'[p], Me, IF job'[p].do = "leave" THEN leaving'[p]
                                                                  ELSE {job'[p].group})
           /\ at'[p] = "read" => Rereads(job'[p])
    PROVE  Foreseen'
  BY DEF Foreseen, Written, Out, Strands, Holders, SelfRemoval, Rereads

LEMMA ForeseenNext == Sound /\ Foreseen /\ [Next]_vars => Foreseen'
  <1> SUFFICES ASSUME Sound, Foreseen, [Next]_vars PROVE Foreseen'
    OBVIOUS
  <1> USE DEF Sound, TypeOK, Set
  <1>1. ASSUME NEW p \in Procs, Submit(p) PROVE Foreseen'
    <2>1. at'[p] = "wait" => ~SelfRemoval(job'[p])
      BY <1>1 DEF Submit
    <2>2. at'[p] \in {"check", "wait"}
      BY <1>1 DEF Submit
    <2> QED BY <1>1, <2>1, <2>2, ForeseenElsewhere DEF Submit
  <1>2. ASSUME NEW p \in Procs, Check(p) PROVE Foreseen'
    <2>1. CASE End(p, "rejected")
      BY <1>2, <2>1, ForeseenElsewhere DEF Check, End
    <2>2. CASE ~End(p, "rejected")
      BY <1>2, <2>2, ForeseenElsewhere DEF Check
    <2> QED BY <2>1, <2>2
  <1>3. ASSUME NEW p \in Procs, TakeLock(p) PROVE Foreseen'
    BY <1>3, ForeseenElsewhere DEF TakeLock, Foreseen, Written, Out
  <1>4. ASSUME NEW p \in Procs, GiveUp(p) PROVE Foreseen'
    BY <1>4, ForeseenElsewhere DEF GiveUp, End
  <1>5. ASSUME NEW p \in Procs, Read(p) PROVE Foreseen'
    <2>1. ~SelfRemoval(job[p])
      BY <1>5 DEF Read, Foreseen, Rereads, SelfRemoval
    <2>2. CASE End(p, "rejected") \/ End(p, "done")
      BY <1>5, <2>2, ForeseenElsewhere DEF Read, End
    <2>3. CASE Set(at, p, "append") /\ UNCHANGED <<job, leaving, said, lock>>
      BY <1>5, <2>1, <2>3, ForeseenElsewhere DEF Read
    <2> QED BY <1>5, <2>2, <2>3 DEF Read
  <1>6. ASSUME NEW p \in Procs, AppendEntry(p) PROVE Foreseen'
    BY <1>6, ForeseenElsewhere DEF AppendEntry
  <1>7. ASSUME NEW p \in Procs, AppendDeparture(p) PROVE Foreseen'
    <2>1. PICK g \in leaving[p] :
            LET out == [do |-> "member", group |-> g, who |-> Me, on |-> FALSE] IN
            /\ net' = Put(net, out, Me)
            /\ Set(view, p, Put(view[p], out, Me))
            /\ Set(leaving, p, leaving[p] \ {g})
            /\ Set(at, p, IF leaving[p] = {g} THEN "verify" ELSE "append")
      BY <1>7 DEF AppendDeparture
    <2> DEFINE out == [do |-> "member", group |-> g, who |-> Me, on |-> FALSE]
    <2>2. out \in MemberRequest /\ view'[p] = Put(view[p], out, Me) /\ view'[p] \in Networks
      BY <2>1, DepartureType
    <2>3. ~Strands(view[p], Me, leaving[p]) /\ job[p].do = "leave"
      BY <1>7 DEF AppendDeparture, Foreseen, Written, Out, SelfRemoval
    <2>4. ~Strands(view'[p], Me, leaving[p] \ {g})
      <3>1. CASE view'[p] = view[p]
        BY <2>3, <3>1 DEF Strands
      <3>2. CASE view'[p].in = [view[p].in EXCEPT ![g] = @ \ {Me}]
        <4>1. CASE Holders(view[p]) = {}
          <5>1. view[p] \in Networks /\ view'[p] \in Networks
            BY <2>2
          <5>2. \A h \in Groups : view'[p].in[h] \subseteq view[p].in[h]
            BY <3>2, <5>1 DEF Networks
          <5>3. Holders(view'[p]) = {}
            BY <4>1, <5>2, GroupsAssumption DEF Holders, Groups
          <5> QED BY <5>3 DEF Strands
        <4>2. CASE Holders(view[p]) # {}
          BY <2>1, <2>2, <2>3, <3>2, <4>2, RemovalLeavesOne, MembersAssumption
        <4> QED BY <4>1, <4>2
      <3>3. view'[p] = view[p] \/ view'[p].in = [view[p].in EXCEPT ![g] = @ \ {Me}]
        <4>1. PICK o : o = out
          OBVIOUS
        <4>2. o.group = g /\ o.who = Me /\ ~o.on
          BY <4>1
        <4>3. o \in MemberRequest /\ view'[p] = Put(view[p], o, Me) /\ view[p] \in Networks
          BY <2>2, <4>1
        <4>4. view'[p] = view[p] \/ view'[p].in = [view[p].in EXCEPT ![o.group] = @ \ {o.who}]
          BY <4>2, <4>3, PutOut
        <4> QED BY <4>2, <4>4
      <3> QED BY <3>1, <3>2, <3>3
    <2>5. leaving'[p] = leaving[p] \ {g} /\ at'[p] # "read"
      BY <2>1
    <2> QED BY <1>7, <2>1, <2>3, <2>4, <2>5, ForeseenElsewhere DEF AppendDeparture
  <1>8. ASSUME NEW p \in Procs, Verify(p) PROVE Foreseen'
    BY <1>8, ForeseenElsewhere DEF Verify, End
  <1>9. ASSUME NEW p \in Procs, Killed(p) PROVE Foreseen'
    BY <1>9, ForeseenElsewhere DEF Killed
  <1>10. CASE Peer \/ UNCHANGED vars
    BY <1>10 DEF Peer, vars, Foreseen, Written, Out
  <1> QED BY <1>1, <1>2, <1>3, <1>4, <1>5, <1>6, <1>7, <1>8, <1>9, <1>10 DEF Next

\* A network whose members are the same has the same holders.
LEMMA SameHolders ==
    ASSUME NEW n, NEW q, n.in = q.in
    PROVE  Holders(n) = Holders(q)
  BY DEF Holders

\* Adding somebody to a group, or taking somebody out of it on behalf of another
\* who stays, leaves a holder.
LEMMA ChangeLeavesOne ==
    ASSUME NEW n \in Networks, NEW q \in Networks, NEW group \in Groups, NEW who \in Members,
           NEW m \in Members, Holders(n) # {},
           \/ q.in = [n.in EXCEPT ![group] = @ \cup {who}]
           \/ who # m /\ m \in Holders(n) /\ q.in = [n.in EXCEPT ![group] = @ \ {who}]
    PROVE  Holders(q) # {}
  <1>1. CASE q.in = [n.in EXCEPT ![group] = @ \cup {who}]
    <2>1. \A g \in Groups : n.in[g] \subseteq q.in[g]
      BY <1>1 DEF Networks
    <2> QED BY <2>1, GroupsAssumption DEF Holders, Groups
  <1>2. CASE who # m /\ m \in Holders(n) /\ q.in = [n.in EXCEPT ![group] = @ \ {who}]
    <2>1. PICK g \in Unrestricted : m \in n.in[g]
      BY <1>2 DEF Holders
    <2>2. g \in Groups
      BY <2>1, GroupsAssumption DEF Groups
    <2>3. m \in q.in[g]
      BY <1>2, <2>1, <2>2 DEF Networks
    <2> QED BY <2>1, <2>3 DEF Holders
  <1> QED BY <1>1, <1>2

\* An entry about a member leaves a holder unless it takes its author out, and
\* then too unless that strands everybody.
LEMMA MemberLeavesOne ==
    ASSUME NEW n \in Networks, NEW e \in MemberRequest, NEW m \in Members, Holders(n) # {},
           ~e.on /\ e.who = m => ~Strands(n, m, {e.group})
    PROVE  Holders(Put(n, e, m)) # {}
  <1>1. PICK q : q = Put(n, e, m)
    OBVIOUS
  <1> SUFFICES Holders(q) # {}
    BY <1>1
  <1>2. e.group \in Groups /\ e.who \in Members /\ e.on \in BOOLEAN /\ q \in Networks
    BY <1>1, PutMember DEF MemberRequest
  <1>3. \/ q = n
        \/ q.in = [n.in EXCEPT ![e.group] = @ \cup {e.who}]
        \/ ~e.on /\ e.who = m /\ q.in = [n.in EXCEPT ![e.group] = @ \ {e.who}]
        \/ e.who # m /\ m \in Holders(n) /\ q.in = [n.in EXCEPT ![e.group] = @ \ {e.who}]
    BY <1>1, PutMember
  <1>4. CASE ~e.on /\ e.who = m /\ q.in = [n.in EXCEPT ![e.group] = @ \ {e.who}]
    <2>1. q.in = [n.in EXCEPT ![e.group] = @ \ {m}] /\ ~Strands(n, m, {e.group})
      BY <1>4
    <2>2. e.group \in {e.group}
      OBVIOUS
    <2> QED BY <1>2, <2>1, <2>2, RemovalLeavesOne
  <1>5. CASE \/ q.in = [n.in EXCEPT ![e.group] = @ \cup {e.who}]
             \/ e.who # m /\ m \in Holders(n) /\ q.in = [n.in EXCEPT ![e.group] = @ \ {e.who}]
    BY <1>2, <1>5, ChangeLeavesOne
  <1> QED BY <1>3, <1>4, <1>5

\* Edits of policy and roles are about nobody.
LEMMA EditKeepsHolders ==
    ASSUME NEW n \in Networks, NEW v \in Networks,
           NEW c \in SetRequest \cup RoleRequest \cup GrantRequest, Grantable(c), NEW m
    PROVE  Holders(Put(n, Entry(c, v), m)) = Holders(n)
  <1>1. CASE c \in SetRequest
    <2>1. n.in = Put(n, Entry(c, v), m).in
      BY <1>1, PutPolicy
    <2> QED BY <2>1, SameHolders
  <1>2. CASE c \in RoleRequest \cup GrantRequest
    <2>1. PICK e : e = Entry(c, v)
      OBVIOUS
    <2>2. e.do = "group" /\ e.caps \in SUBSET Verbs
      BY <1>2, <2>1, GroupEntryType
    <2>3. Put(n, e, m).in = n.in
      BY <2>2, PutGroup
    <2> QED BY <2>1, <2>3, SameHolders
  <1> QED BY <1>1, <1>2

LEMMA GovernableNext ==
    Sound /\ Foreseen /\ Governable /\ [Next]_vars => Governable'
  <1> SUFFICES ASSUME Sound, Foreseen, Governable, [Next]_vars PROVE Governable'
    OBVIOUS
  <1> USE DEF Sound, TypeOK
  <1>1. ASSUME NEW p \in Procs, AppendEntry(p) PROVE Governable'
    <2>1. job[p] \in AllRequests \ LeaveRequest /\ Grantable(job[p])
      BY <1>1, RequestsAssumption DEF AppendEntry, Granting, Grantable, LeaveRequest
    <2>2. net' = Put(net, Entry(job[p], view[p]), Me)
      BY <1>1 DEF AppendEntry
    <2>3. late' = (late \/ (SelfRemoval(job[p]) /\ Stale(p)))
      BY <1>1 DEF AppendEntry
    <2>4. CASE late \/ late'
      BY <2>3, <2>4 DEF Governable
    <2>5. CASE job[p] \in MemberRequest /\ ~late /\ ~late'
      <3>1. Entry(job[p], view[p]) = job[p]
        BY <2>5 DEF MemberRequest, Entry
      <3>2. Holders(net) # {}
        BY <2>5 DEF Governable
      <3>3. ~job[p].on /\ job[p].who = Me => ~Strands(net, Me, {job[p].group})
        <4> SUFFICES ASSUME ~job[p].on, job[p].who = Me PROVE ~Strands(net, Me, {job[p].group})
          OBVIOUS
        <4>1. job[p].do = "member" /\ SelfRemoval(job[p])
          BY <2>5 DEF MemberRequest, SelfRemoval
        <4>2. ~Strands(view[p], Me, {job[p].group})
          BY <1>1, <4>1 DEF AppendEntry, Foreseen, Written, Out
        <4>3. \A g \in Unrestricted : view[p].in[g] = net.in[g]
          BY <2>3, <2>5, <4>1 DEF Stale
        <4> QED BY <4>2, <4>3, StrandsByMembers
      <3>4. Holders(net') # {}
        BY <2>2, <2>5, <3>1, <3>2, <3>3, MemberLeavesOne, MembersAssumption
      <3> QED BY <3>4 DEF Governable, Holders
    <2>6. CASE job[p] \in SetRequest \cup RoleRequest \cup GrantRequest /\ ~late
      <3>1. Holders(net') = Holders(net)
        BY <2>1, <2>2, <2>6, EditKeepsHolders
      <3> QED BY <2>6, <3>1 DEF Governable, Holders
    <2> QED BY <2>1, <2>4, <2>5, <2>6 DEF AllRequests
  <1>2. ASSUME NEW p \in Procs, AppendDeparture(p) PROVE Governable'
    <2>1. late' = (late \/ Stale(p)) /\ job[p].do = "leave" /\ at[p] = "append"
      BY <1>2 DEF AppendDeparture
    <2>2. PICK g \in leaving[p] :
            net' = Put(net, [do |-> "member", group |-> g, who |-> Me, on |-> FALSE], Me)
      BY <1>2 DEF AppendDeparture
    <2>3. CASE late \/ late'
      BY <2>1, <2>3 DEF Governable
    <2>4. CASE ~late /\ ~late'
      <3>1. Holders(net) # {}
        BY <2>4 DEF Governable
      <3>2. ~Strands(view[p], Me, leaving[p])
        BY <2>1 DEF Foreseen, Written, Out, SelfRemoval
      <3>3. ~Strands(net, Me, leaving[p])
        BY <2>1, <2>4, <3>2, StrandsByMembers DEF Stale
      <3>4. net' = net \/ net'.in = [net.in EXCEPT ![g] = @ \ {Me}]
        BY <2>2, DepartureType
      <3>5. net' \in Networks /\ g \in Groups
        BY <2>2, DepartureType
      <3>6. Holders(net') # {}
        BY <3>1, <3>3, <3>4, <3>5, RemovalLeavesOne, MembersAssumption
      <3> QED BY <3>6 DEF Governable, Holders
    <2> QED BY <2>3, <2>4
  <1>3. ASSUME Peer PROVE Governable'
    <2>1. PICK m \in Members \ {Me}, c \in PeerRequests \ LeaveRequest :
            LET leaves == c.do = "member" /\ ~c.on /\ c.who = m IN
            /\ IF leaves THEN IsMember(net, m) /\ ~Strands(net, m, {c.group})
                         ELSE Authorized(c, net, m)
            /\ net' = Put(net, Entry(c, net), m)
            /\ ours' = ours \ Changed(net, net')
      BY <1>3 DEF Peer
    <2>2. Grantable(c) /\ c \in AllRequests \ LeaveRequest
      BY <2>1, RequestsAssumption DEF Authorized, Grantable
    <2>3. CASE c \in MemberRequest /\ ~late
      <3>1. Entry(c, net) = c /\ c.do = "member"
        BY <2>3 DEF MemberRequest, Entry
      <3>2. Holders(net') # {}
        BY <2>1, <2>3, <3>1, MemberLeavesOne DEF Governable
      <3> QED BY <3>2 DEF Governable, Holders
    <2>4. CASE c \in SetRequest \cup RoleRequest \cup GrantRequest /\ ~late
      <3>1. Holders(net') = Holders(net)
        BY <2>1, <2>2, <2>4, EditKeepsHolders
      <3> QED BY <2>4, <3>1 DEF Governable, Holders
    <2> QED BY <1>3, <2>2, <2>3, <2>4 DEF AllRequests, Peer, Governable
  <1>4. CASE UNCHANGED <<net, late>>
    BY <1>4 DEF Governable, Holders
  <1>5. ASSUME NEW p \in Procs,
               Submit(p) \/ Check(p) \/ TakeLock(p) \/ GiveUp(p) \/ Read(p) \/ Verify(p) \/ Killed(p)
        PROVE  UNCHANGED <<net, late>>
    BY <1>5 DEF Submit, Check, TakeLock, GiveUp, Read, Verify, Killed
  <1> QED BY <1>1, <1>2, <1>3, <1>4, <1>5 DEF Next, vars

\* Somebody can always revoke, so the network can rotate its epoch, unless a
\* departure was written on a reading that had become untrue, for any members,
\* groups, processes and requests.
THEOREM StaysGovernable == Spec => []Governable
  <1>1. Init => Foreseen /\ Governable
    BY GroupsAssumption, IdleIsNone DEF Init, Foreseen, Written, Governable, Holders, Genesis, Groups
  <1> QED BY <1>1, SoundInit, SoundNext, ForeseenNext, GovernableNext, PTL DEF Spec

-----------------------------------------------------------------------------
(* A command does not undo what another process of this machine wrote.     *)

Locked == \A p \in Procs : at[p] \in {"read", "append"} => lock = p

(* What is about to be written agrees, but for what it is about, with all  *)
(* that was last changed here: only the holder of the lock changes that.   *)
Rereading ==
    \A p \in Procs :
        at[p] = "append" /\ Rereads(job[p]) => Changed(net, view[p]) \cap ours = {}

(* A role that does not exist holds nothing, so that creating it takes     *)
(* nothing away.                                                           *)
Bare(n) == \A g \in Editable \cap Roles : g \notin n.roles => n.caps[g] = {}
NewRoles ==
    /\ Bare(net)
    /\ \A p \in Procs :
         Written(p) /\ job[p].do = "role" => ~Exists(view[p], job[p].role)

Agreed == Sound /\ Foreseen /\ Locked /\ Rereading /\ NewRoles

LEMMA AgreedInit == Init => Agreed
  <1> SUFFICES ASSUME Init PROVE Agreed
    OBVIOUS
  <1>1. Foreseen /\ Locked /\ Rereading
    BY IdleIsNone DEF Init, Foreseen, Written, Locked, Rereading
  <1>2. NewRoles
    BY GroupsAssumption DEF Init, NewRoles, Bare, Written, Genesis, Editable, Groups
  <1> QED BY <1>1, <1>2, SoundInit DEF Agreed

LEMMA LockedNext == Sound /\ Locked /\ [Next]_vars => Locked'
  <1> SUFFICES ASSUME Sound, Locked, [Next]_vars PROVE Locked'
    OBVIOUS
  <1> USE SettingsAssumption DEF Sound, TypeOK, Set, Locked
  <1>1. ASSUME NEW p \in Procs, NEW how, End(p, how) PROVE Locked'
    BY <1>1 DEF End
  <1>2. ASSUME NEW p \in Procs, Submit(p) PROVE Locked'
    BY <1>2 DEF Submit
  <1>3. ASSUME NEW p \in Procs, Check(p) PROVE Locked'
    BY <1>1, <1>3 DEF Check
  <1>4. ASSUME NEW p \in Procs, TakeLock(p) PROVE Locked'
    BY <1>4 DEF TakeLock
  <1>5. ASSUME NEW p \in Procs, GiveUp(p) \/ Verify(p) PROVE Locked'
    BY <1>1, <1>5 DEF GiveUp, Verify
  <1>6. ASSUME NEW p \in Procs, Read(p) PROVE Locked'
    BY <1>1, <1>6 DEF Read
  <1>7. ASSUME NEW p \in Procs, AppendEntry(p) PROVE Locked'
    BY <1>7 DEF AppendEntry
  <1>8. ASSUME NEW p \in Procs, AppendDeparture(p) PROVE Locked'
    BY <1>8 DEF AppendDeparture
  <1>9. ASSUME NEW p \in Procs, Killed(p) PROVE Locked'
    BY <1>9 DEF Killed
  <1>10. CASE Peer \/ UNCHANGED vars
    BY <1>10 DEF Peer, vars
  <1> QED BY <1>2, <1>3, <1>4, <1>5, <1>6, <1>7, <1>8, <1>9, <1>10 DEF Next

\* What has not changed between two networks and differs from a third differed
\* before.
LEMMA StillDiffers ==
    ASSUME NEW n, NEW q, NEW o, NEW x \in Changed(q, o), x \notin Changed(n, q)
    PROVE  x \in Changed(n, o)
  BY DEF Changed

LEMMA RereadingNext ==
    Sound /\ Foreseen /\ Locked /\ Rereading /\ [Next]_vars => Rereading'
  <1> SUFFICES ASSUME Sound, Foreseen, Locked, Rereading, [Next]_vars,
                      NEW p \in Procs, at'[p] = "append", Rereads(job'[p])
               PROVE  (Changed(net, view[p]) \cap ours)' = {}
    BY DEF Rereading, Rereads
  <1> USE DEF Sound, TypeOK, Set
  <1>1. CASE Read(p)
    <2>1. net' = net /\ view'[p] = net
      BY <1>1 DEF Read
    <2> QED BY <2>1 DEF Changed
  <1>2. CASE /\ UNCHANGED <<net, ours>>
             /\ at[p] = "append" /\ job'[p] = job[p] /\ view'[p] = view[p]
    BY <1>2 DEF Rereading, Rereads, Changed
  <1>3. CASE Peer
    <2>1. /\ at[p] = "append" /\ job'[p] = job[p] /\ view' = view
          /\ ours' = ours \ Changed(net, net')
      BY <1>3 DEF Peer
    <2>2. Changed(net, view[p]) \cap ours = {}
      BY <2>1 DEF Rereading, Rereads
    <2>3. Changed(net', view[p]) \cap ours' = {}
      BY <2>1, <2>2, StillDiffers
    <2>4. view'[p] = view[p]
      BY <2>1
    <2> QED BY <2>3, <2>4
  <1>4. ASSUME NEW q \in Procs, AppendEntry(q) \/ AppendDeparture(q) PROVE FALSE
    <2>1. CASE q = p
      BY <1>4, <2>1 DEF AppendEntry, AppendDeparture, Rereads
    <2>2. CASE q # p
      BY <1>4, <2>2 DEF AppendEntry, AppendDeparture, Locked
    <2> QED BY <2>1, <2>2
  <1>5. ASSUME NEW q \in Procs, Submit(q) \/ Check(q) \/ TakeLock(q) \/ GiveUp(q) \/ Verify(q)
                                  \/ Killed(q) \/ (Read(q) /\ q # p)
        PROVE  /\ UNCHANGED <<net, ours>>
               /\ at[p] = "append" /\ job'[p] = job[p] /\ view'[p] = view[p]
    <2>1. CASE q = p
      BY <1>5, <2>1 DEF Submit, Check, TakeLock, GiveUp, Verify, Killed, End
    <2>2. CASE q # p
      BY <1>5, <2>2 DEF Submit, Check, TakeLock, GiveUp, Verify, Killed, Read, End
    <2> QED BY <2>1, <2>2
  <1>6. CASE UNCHANGED vars
    BY <1>2, <1>6 DEF vars
  <1> QED BY <1>1, <1>2, <1>3, <1>4, <1>5, <1>6 DEF Next

\* An entry about a role makes it exist, and one about anything else leaves roles
\* and capabilities alone: what does not exist goes on holding nothing.
LEMMA PutBare ==
    ASSUME NEW n \in Networks, NEW v \in Networks,
           NEW c \in AllRequests \ LeaveRequest, Grantable(c), NEW m, Bare(n)
    PROVE  Bare(Put(n, Entry(c, v), m))
  <1>1. PICK q : q = Put(n, Entry(c, v), m)
    OBVIOUS
  <1> SUFFICES Bare(q)
    BY <1>1
  <1>2. CASE c \in SetRequest
    <2>1. q.caps = n.caps /\ q.roles = n.roles
      BY <1>1, <1>2, PutPolicy
    <2> QED BY <2>1 DEF Bare
  <1>3. CASE c \in RoleRequest \cup GrantRequest
    <2>1. PICK e : e = Entry(c, v)
      OBVIOUS
    <2>2. e.do = "group" /\ e.caps \in SUBSET Verbs
      BY <1>3, <2>1, GroupEntryType
    <2>3. \/ q = n
          \/ /\ q.caps = [n.caps EXCEPT ![e.group] = e.caps]
             /\ q.roles = n.roles \cup ({e.group} \cap Roles)
      BY <1>1, <2>1, <2>2, PutGroupCaps
    <2> QED BY <2>3 DEF Bare, Networks
  <1>4. CASE c \in MemberRequest
    <2>1. Entry(c, v) = c
      BY <1>4 DEF MemberRequest, Entry
    <2>2. q.caps = n.caps /\ q.roles = n.roles
      <3>1. q = Put(n, c, m)
        BY <1>1, <2>1
      <3> QED BY <1>4, <3>1, PutMember
    <2> QED BY <2>2 DEF Bare
  <1> QED BY <1>2, <1>3, <1>4 DEF AllRequests

LEMMA NewRolesNext == Sound /\ Foreseen /\ NewRoles /\ [Next]_vars => NewRoles'
  <1> SUFFICES ASSUME Sound, Foreseen, NewRoles, [Next]_vars PROVE NewRoles'
    OBVIOUS
  <1> USE DEF Sound, TypeOK, Set
  <1> DEFINE Kept(p) == Written(p) /\ job[p].do = "role" => ~Exists(view[p], job[p].role)
  <1>1. ASSUME NEW p \in Procs, AppendEntry(p) PROVE Bare(net)'
    <2>1. job[p] \in AllRequests \ LeaveRequest /\ Grantable(job[p])
      BY <1>1, RequestsAssumption DEF AppendEntry, Granting, Grantable, LeaveRequest
    <2>2. Bare(Put(net, Entry(job[p], view[p]), Me))
      BY <2>1, PutBare DEF NewRoles
    <2> QED BY <1>1, <2>2 DEF AppendEntry, Bare
  <1>2. ASSUME NEW p \in Procs, AppendDeparture(p) PROVE Bare(net)'
    <2>1. PICK g \in leaving[p] :
            net' = Put(net, [do |-> "member", group |-> g, who |-> Me, on |-> FALSE], Me)
      BY <1>2 DEF AppendDeparture
    <2>2. net'.caps = net.caps /\ net'.roles = net.roles
      <3>1. PICK out : out = [do |-> "member", group |-> g, who |-> Me, on |-> FALSE]
        OBVIOUS
      <3>2. out \in MemberRequest /\ net' = Put(net, out, Me)
        BY <2>1, <3>1, MembersAssumption DEF MemberRequest
      <3> QED BY <3>2, PutMember
    <2> QED BY <2>2 DEF NewRoles, Bare
  <1>3. ASSUME Peer PROVE Bare(net)'
    <2>1. PICK m \in Members \ {Me}, c \in PeerRequests \ LeaveRequest :
            LET leaves == c.do = "member" /\ ~c.on /\ c.who = m IN
            /\ IF leaves THEN IsMember(net, m) /\ ~Strands(net, m, {c.group})
                         ELSE Authorized(c, net, m)
            /\ net' = Put(net, Entry(c, net), m)
            /\ ours' = ours \ Changed(net, net')
      BY <1>3 DEF Peer
    <2>2. Grantable(c) /\ c \in AllRequests \ LeaveRequest
      BY <2>1, RequestsAssumption DEF Authorized, Grantable
    <2>3. net \in Networks /\ Bare(net)
      BY DEF NewRoles
    <2>4. net' = Put(net, Entry(c, net), m)
      BY <2>1
    <2>5. Bare(Put(net, Entry(c, net), m))
      <3> HIDE DEF Sound, TypeOK, Set
      <3> QED BY <2>2, <2>3, PutBare
    <2> QED BY <2>4, <2>5 DEF Bare
  <1>4. ASSUME UNCHANGED net PROVE Bare(net)'
    BY <1>4 DEF NewRoles, Bare
  <1>5. ASSUME NEW p \in Procs,
               Submit(p) \/ Check(p) \/ TakeLock(p) \/ GiveUp(p) \/ Read(p) \/ Verify(p) \/ Killed(p)
        PROVE  UNCHANGED net
    BY <1>5 DEF Submit, Check, TakeLock, GiveUp, Read, Verify, Killed
  <1>6. Bare(net)'
    BY <1>1, <1>2, <1>3, <1>4, <1>5 DEF Next, vars
  <1>7. ASSUME NEW p \in Procs, NEW q \in Procs, Submit(q) PROVE Kept(p)'
    <2>1. CASE q = p
      <3>1. Authorized(job'[p], net, Me) /\ view'[p] = net
        BY <1>7, <2>1 DEF Submit
      <3> QED BY <3>1 DEF Authorized, Exists
    <2>2. CASE q # p
      BY <1>7, <2>2 DEF Submit, NewRoles, Written, Exists
    <2> QED BY <2>1, <2>2
  <1>8. ASSUME NEW p \in Procs, NEW q \in Procs, Check(q) PROVE Kept(p)'
    <2>1. job[q].do # "role" /\ Idle.do # "role"
      BY <1>8, IdleIsNone DEF Check, Granting, SelfRemoval
    <2> QED BY <1>8, <2>1 DEF Check, NewRoles, Written, Exists, End
  <1>9. ASSUME NEW p \in Procs, NEW q \in Procs, Read(q) PROVE Kept(p)'
    <2>1. job[q].do # "role" /\ Idle.do # "role"
      BY <1>9, IdleIsNone DEF Read, Foreseen, Rereads
    <2> QED BY <1>9, <2>1 DEF Read, NewRoles, Written, Exists, End
  <1>10. ASSUME NEW p \in Procs, NEW q \in Procs,
                TakeLock(q) \/ GiveUp(q) \/ AppendEntry(q) \/ Verify(q) \/ Killed(q)
         PROVE  Kept(p)'
    BY <1>10 DEF TakeLock, GiveUp, AppendEntry, Verify, Killed, End, NewRoles, Written, Exists
  <1>11. ASSUME NEW p \in Procs, NEW q \in Procs, AppendDeparture(q) PROVE Kept(p)'
    BY <1>11 DEF AppendDeparture, NewRoles, Written, Exists
  <1>12. ASSUME NEW p \in Procs, Peer \/ UNCHANGED vars PROVE Kept(p)'
    BY <1>12 DEF Peer, vars, NewRoles, Written, Exists
  <1>13. \A p \in Procs : Kept(p)'
    BY <1>7, <1>8, <1>9, <1>10, <1>11, <1>12 DEF Next
  <1> QED BY <1>6, <1>13 DEF NewRoles

LEMMA AgreedNext == Agreed /\ [Next]_vars => Agreed'
  BY SoundNext, ForeseenNext, LockedNext, RereadingNext, NewRolesNext DEF Agreed

\* A policy entry made of what agrees with ours changes nothing of ours but its
\* own setting.
LEMMA SetKeeps ==
    ASSUME NEW n \in Networks, NEW v \in Networks, NEW c \in SetRequest, NEW m,
           NEW mine, Changed(n, v) \cap mine = {}
    PROVE  Changed(n, Put(n, Entry(c, v), m)) \cap mine \subseteq About(c)
  <1>1. PICK q : q = Put(n, Entry(c, v), m)
    OBVIOUS
  <1>2. /\ q.caps = n.caps
        /\ q.policy = n.policy \/ q.policy = [v.policy EXCEPT ![c.key] = c.value]
    BY <1>1, PutPolicy
  <1>3. About(c) = {c.key}
    BY DEF About, SetRequest
  <1>4. \A k \in Settings \ {c.key} : q.policy[k] \in {n.policy[k], v.policy[k]}
    BY <1>2 DEF Networks
  <1>5. ASSUME NEW x \in Changed(n, q) \cap mine, x # c.key PROVE FALSE
    <2>1. x \in Settings /\ n.policy[x] # q.policy[x]
      BY <1>2, <1>5 DEF Changed
    <2>2. n.policy[x] # v.policy[x]
      BY <1>4, <1>5, <2>1
    <2>3. x \in Changed(n, v)
      BY <2>1, <2>2 DEF Changed
    <2> QED BY <1>5, <2>3
  <1> QED BY <1>1, <1>3, <1>5

\* A grant made of what agrees with ours changes nothing of ours but its own
\* capability.
LEMMA GrantKeeps ==
    ASSUME NEW n \in Networks, NEW v \in Networks, NEW c \in GrantRequest, Grantable(c), NEW m,
           NEW mine, Changed(n, v) \cap mine = {}
    PROVE  Changed(n, Put(n, Entry(c, v), m)) \cap mine \subseteq About(c)
  <1>1. PICK e : e = Entry(c, v)
    OBVIOUS
  <1>2. PICK q : q = Put(n, e, m)
    OBVIOUS
  <1>3. c.do = "grant" /\ c.role \in Editable /\ c.verb \in Verbs
    BY DEF GrantRequest, Grantable
  <1>4. About(c) = {<<c.role, c.verb>>}
    BY <1>3 DEF About
  <1>5. e.do = "group" /\ e.group = c.role /\ e.caps \in SUBSET Verbs
    BY <1>1, GroupEntryType
  <1>6. e.caps \ {c.verb} = v.caps[c.role] \ {c.verb}
    BY <1>1, <1>3 DEF Entry
  <1>7. q.policy = n.policy /\ (q.caps = n.caps \/ q.caps = [n.caps EXCEPT ![c.role] = e.caps])
    BY <1>2, <1>5, PutGroup, PutGroupCaps
  <1>8. ASSUME NEW x \in Changed(n, q) \cap mine, x # <<c.role, c.verb>> PROVE FALSE
    <2>1. x \in Editable \X Verbs /\ (x[2] \in n.caps[x[1]]) # (x[2] \in q.caps[x[1]])
      BY <1>7, <1>8 DEF Changed
    <2>2. q.caps = [n.caps EXCEPT ![c.role] = e.caps] /\ x[1] = c.role
      BY <1>7, <2>1 DEF Networks
    <2>3. q.caps[c.role] = e.caps /\ x[2] # c.verb
      BY <1>3, <1>8, <2>1, <2>2 DEF Networks
    <2>4. (x[2] \in v.caps[x[1]]) = (x[2] \in q.caps[x[1]])
      BY <1>6, <2>2, <2>3
    <2>5. x \in Changed(n, v)
      BY <2>1, <2>4 DEF Changed
    <2> QED BY <1>8, <2>5
  <1> QED BY <1>1, <1>2, <1>4, <1>8

\* Creating a role that does not exist changes no setting and no capability.
LEMMA RoleKeeps ==
    ASSUME NEW n \in Networks, NEW v \in Networks, NEW c \in RoleRequest, NEW m,
           Bare(n), ~Exists(n, c.role)
    PROVE  Changed(n, Put(n, Entry(c, v), m)) = {}
  <1>1. PICK e : e = Entry(c, v)
    OBVIOUS
  <1>2. PICK q : q = Put(n, e, m)
    OBVIOUS
  <1>3. c.do = "role" /\ c.role \in Roles /\ c.role \notin n.roles
    BY DEF RoleRequest, Exists
  <1>4. Grantable(c)
    BY <1>3 DEF Grantable
  <1>5. e.do = "group" /\ e.group = c.role /\ e.caps = {}
    BY <1>1, <1>3 DEF Entry
  <1>6. e.do = "group" /\ e.group = c.role /\ e.caps \in SUBSET Verbs
    BY <1>5
  <1>7. q.policy = n.policy /\ (q.caps = n.caps \/ q.caps = [n.caps EXCEPT ![c.role] = e.caps])
    BY <1>2, <1>6, PutGroup, PutGroupCaps
  <1>8. q.caps = n.caps
    <2>1. c.role \in Editable => n.caps[c.role] = {}
      BY <1>3 DEF Bare
    <2>2. n.caps \in [Editable -> SUBSET Verbs]
      BY DEF Networks
    <2>3. [n.caps EXCEPT ![c.role] = {}] = n.caps
      BY <2>1, <2>2
    <2> QED BY <1>5, <1>7, <2>3
  <1> QED BY <1>1, <1>2, <1>7, <1>8 DEF Changed

\* An entry about a member changes no setting and no capability.
LEMMA MemberKeeps ==
    ASSUME NEW n \in Networks, NEW e \in MemberRequest, NEW m
    PROVE  Changed(n, Put(n, e, m)) = {}
  <1>1. Put(n, e, m).caps = n.caps /\ Put(n, e, m).policy = n.policy
    BY PutMember
  <1> QED BY <1>1 DEF Changed

\* A setting, grant or role never takes back what was last changed on this
\* machine, unless it is made of a reading from before its turn.
LEMMA AppendKeeps ==
    ASSUME Agreed, NEW p \in Procs, AppendEntry(p)
    PROVE  \/ Changed(net, net') \cap ours \subseteq About(job[p])
           \/ /\ job[p].do = "role" \/ (job[p].do = "set" /\ job[p].key \in Unguarded)
              /\ view[p] # net
  <1>1. job[p] \in AllRequests \ LeaveRequest /\ Grantable(job[p])
    BY RequestsAssumption DEF Agreed, Sound, TypeOK, Granting, AppendEntry, Grantable, LeaveRequest
  <1>2. net \in Networks /\ view[p] \in Networks
    BY DEF Agreed, Sound, TypeOK
  <1>3. at[p] = "append" /\ net' = Put(net, Entry(job[p], view[p]), Me)
    BY DEF AppendEntry
  <1>4. Rereads(job[p]) => Changed(net, view[p]) \cap ours = {}
    BY <1>3 DEF Agreed, Rereading
  <1>5. view[p] = net => Changed(net, view[p]) = {}
    BY DEF Changed
  <1>6. CASE job[p] \in SetRequest
    <2>1. job[p].do = "set"
      BY <1>6 DEF SetRequest
    <2>2. CASE Changed(net, view[p]) \cap ours = {}
      BY <1>2, <1>3, <1>6, <2>2, SetKeeps
    <2> QED BY <1>4, <1>5, <2>1, <2>2 DEF Rereads
  <1>7. CASE job[p] \in GrantRequest
    <2>1. Changed(net, view[p]) \cap ours = {}
      BY <1>4, <1>7 DEF GrantRequest, Rereads
    <2> QED BY <1>1, <1>2, <1>3, <1>7, <2>1, GrantKeeps
  <1>8. CASE job[p] \in RoleRequest
    <2>1. job[p].do = "role"
      BY <1>8 DEF RoleRequest
    <2>2. Bare(net) /\ ~Exists(view[p], job[p].role)
      BY <1>3, <2>1 DEF Agreed, NewRoles, Written
    <2>3. CASE view[p] = net
      <3>1. Changed(net, net') = {}
        BY <1>2, <1>3, <1>8, <2>2, <2>3, RoleKeeps
      <3> QED BY <3>1
    <2> QED BY <2>1, <2>3
  <1>9. CASE job[p] \in MemberRequest
    <2>1. net' = Put(net, job[p], Me)
      BY <1>3, <1>9 DEF MemberRequest, Entry
    <2>2. Changed(net, net') = {}
      BY <1>2, <1>9, <2>1, MemberKeeps
    <2> QED BY <2>2
  <1> QED BY <1>1, <1>6, <1>7, <1>8, <1>9 DEF AllRequests

LEMMA KeepsStep ==
    ASSUME Agreed, [Next]_vars, NEW p \in Procs, Reverts(p)
    PROVE  /\ job[p].do = "role" \/ (job[p].do = "set" /\ job[p].key \in Unguarded)
           /\ view[p] # net
  <1>1. at[p] = "append" /\ at'[p] = "verify"
    BY DEF Reverts
  <1>2. CASE AppendEntry(p)
    BY <1>2, AppendKeeps DEF Reverts
  <1>3. CASE AppendDeparture(p)
    <2>1. PICK g \in leaving[p] :
            net' = Put(net, [do |-> "member", group |-> g, who |-> Me, on |-> FALSE], Me)
      BY <1>3 DEF AppendDeparture
    <2>2. PICK out : out = [do |-> "member", group |-> g, who |-> Me, on |-> FALSE]
      OBVIOUS
    <2>3. out \in MemberRequest /\ net' = Put(net, out, Me) /\ net \in Networks
      BY <2>1, <2>2, MembersAssumption DEF MemberRequest, Agreed, Sound, TypeOK
    <2>4. Changed(net, net') = {}
      BY <2>3, MemberKeeps
    <2> QED BY <2>4 DEF Reverts
  <1>4. ASSUME NEW q \in Procs, AppendEntry(q) \/ AppendDeparture(q), q # p PROVE FALSE
    BY <1>1, <1>4 DEF Agreed, Sound, TypeOK, Set, AppendEntry, AppendDeparture
  <1>5. ASSUME NEW q \in Procs, Submit(q) \/ Check(q) \/ TakeLock(q) \/ GiveUp(q) \/ Read(q)
                                  \/ Verify(q) \/ Killed(q)
        PROVE  FALSE
    BY <1>1, <1>5 DEF Agreed, Sound, TypeOK, Set, End, Submit, Check, TakeLock, GiveUp, Read,
                      Verify, Killed
  <1>6. CASE Peer \/ UNCHANGED vars
    BY <1>1, <1>6 DEF Peer, vars
  <1> QED BY <1>2, <1>3, <1>4, <1>5, <1>6 DEF Next

\* No edit of a setting or a permission takes back what another process of this
\* machine wrote, unless it does not read under the lock and was overtaken, for
\* any members, settings, roles, processes and requests.
THEOREM EditsKeep == Spec => EditsKeepEdits
  <1>1. Agreed /\ [Next]_vars =>
          [\A p \in Procs :
             Reverts(p) => /\ job[p].do = "role" \/ (job[p].do = "set" /\ job[p].key \in Unguarded)
                           /\ view[p] # net]_vars
    BY KeepsStep
  <1> QED BY <1>1, AgreedInit, AgreedNext, PTL DEF Spec, EditsKeepEdits
=============================================================================
