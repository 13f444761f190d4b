------------------------ MODULE GovernanceStoreProofs ------------------------
(***************************************************************************)
(* Any number of commands, entries and killed processes.  The argument is  *)
(* in invariants that build on each other.  Alone: the lock keeps appends  *)
(* apart, except for the saves that do not take it, which "overlap"        *)
(* records; so a position that was counted is still the end of the files   *)
(* when it is written.  Current: a tally that has not moved since a read   *)
(* that began with no append under way means that no append has begun      *)
(* since.  InOrder: every entry stands after its parent, so no log is ever *)
(* refused.  InTurn: what was made under the lock is stored before the     *)
(* lock is free, so the next to make an entry knows them all, and puts it  *)
(* on the head of a longest branch, which none of them has as its parent.  *)
(***************************************************************************)
EXTENDS GovernanceStore, FiniteSetTheorems, WellFoundedInduction, TLAPS

(* Which handle does what, and where in it the lock is held.               *)
Roles ==
    /\ \A c \in Commands : task[c] \in {"none", "poll", "govern", "confirm"}
    /\ \A h \in Handles : at[h] \in Appending \cup {"mark"} => task[h] \in {"govern", "keep", "save"}
    /\ \A h \in Handles : Holds(h) => lock = h

Apart == \A p, q \in Handles : p # q => ~(at[p] \in Appending /\ at[q] \in Appending)
Counted == \A h \in Handles : at[h] = "write" => next[h] = Len(files)

(* What every handle holds replays, and what it has to append follows it.  *)
Rooted ==
    /\ \A h \in Handles : cache[h].log \subseteq Stored /\ Closed(cache[h].log)
    /\ \A h \in Handles : \A e \in out[h] : parent[e] \in {Genesis} \cup out[h] \cup Stored

Unmarked == tally = 0 => files = <<>> /\ \A q \in Handles : at[q] \notin Appending
Begun ==
    \A h \in Handles :
        at[h] = "list" /\ ~half[h] /\ seen[h] = tally => \A q \in Handles : at[q] \notin Appending
Prefix ==
    \A h \in Handles : \A i \in 1..cache[h].count : i \in 1..Len(files) /\ files[i] \in cache[h].log
Settled ==
    \A h \in Handles :
        cache[h].tally = tally /\ ~cache[h].torn
        => Stored \subseteq cache[h].log /\ \A q \in Handles : at[q] \notin Appending

Alone == Roles /\ ("overlap" \notin faults => Apart /\ Counted)
Current == "overlap" \notin faults => Unmarked /\ Begun /\ Prefix /\ Settled
InOrder == "overlap" \notin faults => Replayable /\ Rooted

-----------------------------------------------------------------------------
(* A sequence over a set is one over every larger set.                     *)
LEMMA SeqGrows ==
    ASSUME NEW S, NEW T, S \subseteq T, NEW f \in Seq(S)
    PROVE  f \in Seq(T)
  OBVIOUS

(* Making entries under new names leaves what there is, and keeps types.   *)
LEMMA Making ==
    ASSUME TypeOK, NEW up, NEW who \in Makers, DOMAIN up \subseteq Fresh,
           \A e \in DOMAIN up : up[e] \in {Genesis} \cup DOMAIN parent \cup DOMAIN up,
           Extended(up, who)
    PROVE  /\ DOMAIN parent' = DOMAIN parent \cup DOMAIN up
           /\ DOMAIN parent' \subseteq Entries
           /\ \A e \in DOMAIN parent' : parent'[e] \in {Genesis} \cup DOMAIN parent'
           /\ by' \in [DOMAIN parent' -> Makers]
           /\ \A e \in DOMAIN parent : parent'[e] = parent[e]
           /\ \A e \in DOMAIN up : parent'[e] = up[e]
  <1>1. DOMAIN parent' = DOMAIN parent \cup DOMAIN up
    BY DEF Extended, Union
  <1>2. \A e \in DOMAIN parent : parent'[e] = parent[e]
    BY DEF Extended, Union, Fresh
  <1>3. \A e \in DOMAIN up : parent'[e] = up[e]
    BY DEF Extended, Union
  <1>4. by' \in [DOMAIN parent' -> Makers]
    <2>1. DOMAIN [x \in DOMAIN up |-> who] = DOMAIN up
      OBVIOUS
    <2>2. DOMAIN by = DOMAIN parent
      BY DEF TypeOK
    <2> QED BY <1>1, <2>1, <2>2 DEF Extended, Union, TypeOK
  <1>5. DOMAIN parent' \subseteq Entries
    BY <1>1 DEF TypeOK, Fresh
  <1>6. \A e \in DOMAIN parent' : parent'[e] \in {Genesis} \cup DOMAIN parent'
    BY <1>1, <1>2, <1>3 DEF TypeOK
  <1> QED BY <1>1, <1>2, <1>3, <1>4, <1>5, <1>6

(* The same of a single entry.                                             *)
LEMMA MakingOne ==
    ASSUME TypeOK, NEW e \in Fresh, NEW p \in {Genesis} \cup DOMAIN parent,
           NEW who \in Makers, Make(e, p, who)
    PROVE  /\ DOMAIN parent' = DOMAIN parent \cup {e}
           /\ DOMAIN parent' \subseteq Entries
           /\ \A x \in DOMAIN parent' : parent'[x] \in {Genesis} \cup DOMAIN parent'
           /\ by' \in [DOMAIN parent' -> Makers]
           /\ \A x \in DOMAIN parent : parent'[x] = parent[x]
           /\ parent'[e] = p
  <1> DEFINE up == [x \in {e} |-> p]
  <1>1. DOMAIN up = {e} /\ up[e] = p /\ Extended(up, who)
    BY DEF Make
  <1>2. DOMAIN up \subseteq Fresh
    BY <1>1
  <1>3. \A x \in DOMAIN up : up[x] \in {Genesis} \cup DOMAIN parent \cup DOMAIN up
    BY <1>1
  <1> HIDE DEF up
  <1> QED BY <1>1, <1>2, <1>3, Making

(* A chain is made of entries there are, and of its own ancestors.         *)
LEMMA Chains ==
    ASSUME TypeOK, NEW log \in SUBSET DOMAIN parent
    PROVE  /\ Chain(log) \subseteq DOMAIN parent
           /\ Closed(Chain(log))
           /\ Closed(log) => Chain(log) \subseteq log
           /\ Heads(log) \subseteq {Genesis} \cup log
  <1>1. \A t : Branch(t) \subseteq DOMAIN parent
    BY DEF Branch
  <1>2. \A t : Closed(Branch(t))
    <2> SUFFICES ASSUME NEW t, NEW a \in Branch(t), parent[a] # Genesis
                 PROVE  parent[a] \in Branch(t)
      BY DEF Closed
    <2>1. parent[a] \in DOMAIN parent
      BY DEF Branch, TypeOK
    <2>2. ASSUME NEW S \in SUBSET DOMAIN parent, t \in S, Closed(S)
          PROVE  parent[a] \in S
      <3>1. a \in S
        BY <2>2 DEF Branch
      <3> QED BY <2>2, <3>1 DEF Closed
    <2> QED BY <2>1, <2>2 DEF Branch
  <1>3. ASSUME Closed(log) PROVE Chain(log) \subseteq log
    <2> SUFFICES ASSUME NEW t \in log PROVE Branch(t) \subseteq log
      BY DEF Chain, Tips
    <2> QED BY <1>3 DEF Branch
  <1>4. Closed(Chain(log))
    BY <1>2 DEF Chain, Closed
  <1>5. Chain(log) \subseteq DOMAIN parent
    BY <1>1 DEF Chain
  <1>6. Heads(log) \subseteq {Genesis} \cup log
    BY DEF Heads, Tips
  <1> QED BY <1>3, <1>4, <1>5, <1>6

-----------------------------------------------------------------------------
(* A process that stops leaves the state well typed.                       *)
LEMMA Stopping ==
    ASSUME TypeOK, NEW h \in Handles, Stop(h), NEW d \in Caches,
           d = Nothing \/ d = cache[h], Set(cache, h, d)
    PROVE  /\ UNCHANGED <<parent, by, files, tally>>
           /\ nodeLog' \subseteq DOMAIN parent
           /\ task' \in [Handles -> Tasks] /\ at' \in [Handles -> Places]
           /\ seen' \in [Handles -> 0..tally] /\ half' \in [Handles -> BOOLEAN]
           /\ cache' \in [Handles -> Caches]
           /\ \A g \in Handles : cache'[g].tally <= tally /\ cache'[g].log \subseteq DOMAIN parent
           /\ out' \in [Handles -> SUBSET DOMAIN parent]
           /\ next' \in [Handles -> 0..Len(files)]
  <1>1. task' \in [Handles -> Tasks] /\ at' \in [Handles -> Places]
    BY DEF Stop, Turn, Goto, Set, TypeOK, Tasks, Places
  <1>2. 0 \in 0..tally /\ 0 \in 0..Len(files)
    BY DEF TypeOK
  <1>3. seen' \in [Handles -> 0..tally] /\ next' \in [Handles -> 0..Len(files)]
    BY <1>2 DEF Stop, Set, TypeOK
  <1>4. half' \in [Handles -> BOOLEAN] /\ out' \in [Handles -> SUBSET DOMAIN parent]
    BY DEF Stop, Set, TypeOK
  <1>5. /\ cache' \in [Handles -> Caches]
        /\ \A g \in Handles : cache'[g].tally <= tally /\ cache'[g].log \subseteq DOMAIN parent
    BY DEF Set, TypeOK, Nothing, Caches
  <1> QED BY <1>1, <1>3, <1>4, <1>5 DEF Stop, TypeOK

(* The empty cache is a cache.                                             *)
LEMMA NothingIsCache == Nothing \in Caches
  BY DEF Nothing, Caches

(* Every step keeps the types (see Typed).                                 *)
LEMMA Typing == TypeOK /\ [Next]_vars => TypeOK'
  <1> SUFFICES ASSUME TypeOK, [Next]_vars PROVE TypeOK'
    OBVIOUS
  <1> USE NodeIsNoCommand, NobodyIsNoHandle, BoundsAreNat
  <1>1. ASSUME NEW c \in Commands, Poll(c) PROVE TypeOK'
    BY <1>1 DEF Poll, Turn, Goto, Set, disk, TypeOK, Tasks, Places, Handles
  <1>2. ASSUME NEW c \in Commands, Govern(c) PROVE TypeOK'
    BY <1>2 DEF Govern, Take, Turn, Goto, Set, TypeOK, Tasks, Locked, Places, Handles
  <1>3. CASE Tick
    BY <1>3 DEF Tick, Turn, Goto, Set, disk, TypeOK, Tasks, Places, Handles
  <1>4. CASE KeyRequested
    BY <1>4 DEF KeyRequested, Take, Turn, Goto, Set, TypeOK, Tasks, Locked, Places, Handles
  <1>5. ASSUME NEW h \in Handles, ReadTally(h) PROVE TypeOK'
    <2>1. at' \in [Handles -> Places] /\ half' \in [Handles -> BOOLEAN]
      BY <1>5 DEF ReadTally, Goto, Set, TypeOK, Places
    <2>2. seen' \in [Handles -> 0..tally]
      <3>1. tally \in 0..tally
        BY DEF TypeOK
      <3> QED BY <1>5, <3>1 DEF ReadTally, Set, TypeOK
    <2> QED BY <1>5, <2>1, <2>2 DEF ReadTally, disk, TypeOK
  <1>6. ASSUME NEW h \in Handles, Mark(h) PROVE TypeOK'
    <2>1. at' \in [Handles -> Places]
      BY <1>6 DEF Mark, Goto, Set, TypeOK, Places, Appending
    <2>2. tally' \in Nat /\ 0..tally \subseteq 0..tally'
      BY <1>6 DEF Mark, TypeOK
    <2>3. seen' \in [Handles -> 0..tally']
      BY <1>6, <2>2 DEF Mark, TypeOK
    <2>4. \A g \in Handles : cache'[g].tally <= tally' /\ cache'[g].log \subseteq DOMAIN parent'
      BY <1>6 DEF Mark, TypeOK, Caches
    <2>5. faults' \subseteq Faults
      BY <1>6 DEF Mark, TypeOK, Faults
    <2> QED BY <1>6, <2>1, <2>2, <2>3, <2>4, <2>5 DEF Mark, TypeOK
  <1>7. ASSUME NEW h \in Handles, Count(h) PROVE TypeOK'
    <2>1. at' \in [Handles -> Places]
      BY <1>7 DEF Count, Goto, Set, TypeOK, Places, Appending
    <2>2. Len(files) \in 0..Len(files)
      BY DEF TypeOK
    <2>3. next' \in [Handles -> 0..Len(files)]
      BY <1>7, <2>2 DEF Count, Set, TypeOK
    <2> QED BY <1>7, <2>1, <2>3 DEF Count, disk, TypeOK
  <1>8. ASSUME NEW h \in Handles, Write(h) PROVE TypeOK'
    <2>1. PICK e \in First(h) :
            /\ files' = IF next[h] < Len(files) THEN [files EXCEPT ![next[h] + 1] = e]
                                                ELSE Append(files, e)
            /\ Set(out, h, out[h] \ {e}) /\ Set(next, h, 0)
      BY <1>8 DEF Write
    <2>2. e \in DOMAIN parent
      BY <2>1 DEF First, TypeOK
    <2>3. files' \in Seq(DOMAIN parent) /\ Len(files) <= Len(files')
      <3>1. files \in Seq(DOMAIN parent) /\ next[h] \in 0..Len(files)
        BY DEF TypeOK
      <3>2. CASE next[h] < Len(files)
        <4>1. next[h] + 1 \in 1..Len(files) /\ files' = [files EXCEPT ![next[h] + 1] = e]
          BY <2>1, <3>1, <3>2
        <4> QED BY <2>2, <3>1, <4>1
      <3>3. CASE ~(next[h] < Len(files))
        BY <2>1, <2>2, <3>1, <3>3
      <3> QED BY <3>2, <3>3
    <2>4. out' \in [Handles -> SUBSET DOMAIN parent]
      BY <2>1 DEF Set, TypeOK
    <2>5. next' \in [Handles -> 0..Len(files')]
      <3>1. 0..Len(files) \subseteq 0..Len(files') /\ 0 \in 0..Len(files')
        BY <2>3 DEF TypeOK
      <3> QED BY <2>1, <3>1 DEF Set, TypeOK
    <2>6. task' \in [Handles -> Tasks] /\ at' \in [Handles -> Places]
      BY <1>8 DEF Write, Finish, Turn, Goto, Set, TypeOK, Tasks, Locked, Places
    <2>7. lock' \in Handles \cup {Nobody}
      BY <1>8 DEF Write, Finish, Unlock, TypeOK
    <2> QED BY <1>8, <2>3, <2>4, <2>5, <2>6, <2>7 DEF Write, TypeOK
  <1>9. ASSUME NEW h \in Handles, Killed(h) PROVE TypeOK'
    <2>1. Stop(h) /\ Set(cache, h, Nothing)
      BY <1>9 DEF Killed
    <2>2. kills' \in 0..MaxKills
      BY <1>9 DEF Killed, TypeOK
    <2> QED BY <1>9, <2>1, <2>2, Stopping, NothingIsCache DEF Killed, TypeOK
  <1>10. CASE GiveUp
    <2>1. Stop(Node) /\ Set(cache, Node, Nothing) /\ Node \in Handles
      BY <1>10 DEF GiveUp, Handles
    <2>2. UNCHANGED <<lock, kills, faults>>
      BY <1>10 DEF GiveUp
    <2> QED BY <2>1, <2>2, Stopping, NothingIsCache DEF TypeOK
  <1>11. ASSUME NEW h \in Handles, Answered(h) PROVE TypeOK'
    BY <1>11 DEF Answered, Finish, Unlock, Turn, Goto, Set, TypeOK, Tasks, Places
  <1>12. CASE Adopt
    <2>1. Chain(cache[Node].log) \subseteq DOMAIN parent
      BY Chains DEF TypeOK, Handles
    <2> QED BY <1>12, <2>1 DEF Adopt, Turn, Goto, Set, disk, TypeOK, Tasks, Places, Handles
  <1>13. CASE Persist
    <2>1. Chain(nodeLog) \subseteq DOMAIN parent
      BY Chains DEF TypeOK
    <2> QED BY <1>13, <2>1
            DEF Persist, Finish, Unlock, Turn, Goto, Set, TypeOK, Tasks, Places, Handles
  <1>14. ASSUME NEW h \in Handles, ReadList(h) PROVE TypeOK'
    <2>1. CASE ~Replays(h)
      <3> DEFINE d == IF h = Node THEN Nothing ELSE cache[h]
      <3>1. Stop(h) /\ Set(cache, h, d) /\ d \in Caches /\ (d = Nothing \/ d = cache[h])
        BY <1>14, <2>1, NothingIsCache DEF ReadList, TypeOK
      <3>2. lock' \in Handles \cup {Nobody}
        BY <1>14, <2>1 DEF ReadList, Unlock, TypeOK
      <3> HIDE DEF d
      <3> QED BY <1>14, <3>1, <3>2, Stopping DEF ReadList, TypeOK
    <2>2. CASE Replays(h)
      <3> DEFINE d == [tally |-> seen[h], count |-> Len(files),
                       log |-> Base(h) \cup Gained(h), torn |-> half[h]]
      <3>1. cache' = [cache EXCEPT ![h] = d]
        BY <1>14, <2>2 DEF ReadList, Install, Set
      <3>2. seen[h] \in 0..tally /\ tally \in Nat /\ half[h] \in BOOLEAN
        BY DEF TypeOK
      <3>3. Base(h) \cup Gained(h) \subseteq DOMAIN parent
        BY DEF Base, Gained, From, TypeOK, Caches
      <3>4. d \in Caches /\ d.tally <= tally /\ d.log \subseteq DOMAIN parent
        <4>1. Base(h) \cup Gained(h) \subseteq Entries
          BY <3>3 DEF TypeOK
        <4>2. Len(files) \in Nat
          BY DEF TypeOK
        <4> QED BY <3>2, <3>3, <4>1, <4>2 DEF Caches
      <3> HIDE DEF d
      <3>5. /\ cache' \in [Handles -> Caches]
            /\ \A g \in Handles : cache'[g].tally <= tally /\ cache'[g].log \subseteq DOMAIN parent
        BY <3>1, <3>4 DEF TypeOK
      <3>6. at' \in [Handles -> Places] /\ half' \in [Handles -> BOOLEAN]
        BY <1>14, <2>2 DEF ReadList, Goto, Set, TypeOK, Places
      <3>7. seen' \in [Handles -> 0..tally]
        <4>1. 0 \in 0..tally
          BY <3>2
        <4> QED BY <1>14, <2>2, <4>1 DEF ReadList, Set, TypeOK
      <3> QED BY <1>14, <2>2, <3>5, <3>6, <3>7 DEF ReadList, disk, TypeOK
    <2> QED BY <2>1, <2>2
  <1>15. ASSUME NEW c \in Handles, Extend(c) PROVE TypeOK'
    <2>0. cache[c].log \subseteq DOMAIN parent
      BY DEF Handles, TypeOK
    <2>1. lock' \in Handles \cup {Nobody} /\ task' \in [Handles -> Tasks] /\ at' \in [Handles -> Places]
      BY <1>15, <2>0 DEF Extend, Finish, Unlock, Turn, Goto, Set, TypeOK, Tasks, Places
    <2>2. faults' \subseteq Faults
      BY <1>15 DEF Extend, TypeOK, Faults
    <2>3. CASE UNCHANGED <<parent, by, out>>
      BY <1>15, <2>1, <2>2, <2>3 DEF Extend, TypeOK
    <2>4. ASSUME NEW e \in Fresh, NEW p \in Heads(cache[c].log), Make(e, p, "lock"), Set(out, c, {e})
          PROVE  TypeOK'
      <3>1. p \in {Genesis} \cup DOMAIN parent
        BY <2>0, <2>4, Chains
      <3>2. /\ DOMAIN parent' = DOMAIN parent \cup {e}
            /\ DOMAIN parent' \subseteq Entries
            /\ \A x \in DOMAIN parent' : parent'[x] \in {Genesis} \cup DOMAIN parent'
            /\ by' \in [DOMAIN parent' -> Makers]
        BY <2>4, <3>1, MakingOne DEF Makers
      <3>3. files' \in Seq(DOMAIN parent')
        BY <1>15, <3>2, SeqGrows DEF Extend, TypeOK
      <3>4. out' \in [Handles -> SUBSET DOMAIN parent']
        BY <2>0, <2>4, <3>2 DEF Set, TypeOK
      <3> QED BY <1>15, <2>1, <2>2, <3>2, <3>3, <3>4 DEF Extend, TypeOK
    <2> QED BY <1>15, <2>3, <2>4 DEF Extend
  <1>16. CASE AnswerKey
    <2> DEFINE adopted == nodeLog \cup Chain(cache[Node].log)
    <2>0. Node \in Handles /\ adopted \subseteq DOMAIN parent
      BY Chains DEF Handles, TypeOK
    <2>1. lock' \in Handles \cup {Nobody} /\ task' \in [Handles -> Tasks] /\ at' \in [Handles -> Places]
      BY <1>16, <2>0 DEF AnswerKey, Finish, Unlock, Turn, Goto, Set, TypeOK, Tasks, Locked, Places
    <2>2. faults' \subseteq Faults
      BY <1>16 DEF AnswerKey, TypeOK, Faults
    <2>3. CASE UNCHANGED <<parent, by>> /\ nodeLog' = adopted
      BY <1>16, <2>0, <2>1, <2>2, <2>3 DEF AnswerKey, TypeOK
    <2>4. ASSUME NEW e \in Fresh, NEW p \in Heads(adopted), Make(e, p, "lock"), nodeLog' = adopted \cup {e}
          PROVE  TypeOK'
      <3>1. p \in {Genesis} \cup DOMAIN parent
        BY <2>0, <2>4, Chains
      <3>2. /\ DOMAIN parent' = DOMAIN parent \cup {e}
            /\ DOMAIN parent' \subseteq Entries
            /\ \A x \in DOMAIN parent' : parent'[x] \in {Genesis} \cup DOMAIN parent'
            /\ by' \in [DOMAIN parent' -> Makers]
        BY <2>4, <3>1, MakingOne DEF Makers
      <3>3. files' \in Seq(DOMAIN parent')
        BY <1>16, <3>2, SeqGrows DEF AnswerKey, TypeOK
      <3>4. out' \in [Handles -> SUBSET DOMAIN parent'] /\ nodeLog' \subseteq DOMAIN parent'
        BY <1>16, <2>0, <2>4, <3>2 DEF AnswerKey, TypeOK
      <3> HIDE DEF adopted
      <3> QED BY <1>16, <2>1, <2>2, <3>2, <3>3, <3>4 DEF AnswerKey, TypeOK
    <2> QED BY <1>16, <2>3, <2>4 DEF AnswerKey
  <1>17. CASE JoinRequested
    <2>1. PICK e \in Fresh, p \in Heads(nodeLog) :
            Make(e, p, "join") /\ nodeLog' = nodeLog \cup {e}
      BY <1>17 DEF JoinRequested
    <2>2. p \in {Genesis} \cup DOMAIN parent
      BY <2>1, Chains DEF TypeOK
    <2>3. /\ DOMAIN parent' = DOMAIN parent \cup {e}
          /\ DOMAIN parent' \subseteq Entries
          /\ \A x \in DOMAIN parent' : parent'[x] \in {Genesis} \cup DOMAIN parent'
          /\ by' \in [DOMAIN parent' -> Makers]
      BY <2>1, <2>2, MakingOne DEF Makers
    <2>4. files' \in Seq(DOMAIN parent')
      BY <1>17, <2>3, SeqGrows DEF JoinRequested, disk, TypeOK
    <2>5. nodeLog' \subseteq DOMAIN parent' /\ out' \in [Handles -> SUBSET DOMAIN parent']
      BY <1>17, <2>1, <2>3 DEF JoinRequested, TypeOK
    <2>6. task' \in [Handles -> Tasks] /\ at' \in [Handles -> Places]
      BY <1>17 DEF JoinRequested, Turn, Goto, Set, TypeOK, Tasks, Places, Handles
    <2> QED BY <1>17, <2>3, <2>4, <2>5, <2>6 DEF JoinRequested, disk, TypeOK
  <1>18. CASE Synced
    <2>1. PICK new \in SUBSET Fresh : \E up \in [new -> {Genesis} \cup nodeLog \cup new] :
            Extended(up, "peer") /\ nodeLog' = nodeLog \cup new
      BY <1>18 DEF Synced
    <2>2. PICK up \in [new -> {Genesis} \cup nodeLog \cup new] :
            Extended(up, "peer") /\ nodeLog' = nodeLog \cup new
      BY <2>1
    <2>3. /\ DOMAIN parent' = DOMAIN parent \cup new
          /\ DOMAIN parent' \subseteq Entries
          /\ \A x \in DOMAIN parent' : parent'[x] \in {Genesis} \cup DOMAIN parent'
          /\ by' \in [DOMAIN parent' -> Makers]
      <3>1. DOMAIN up = new /\ DOMAIN up \subseteq Fresh
        BY <2>1, <2>2
      <3>2. \A e \in DOMAIN up : up[e] \in {Genesis} \cup DOMAIN parent \cup DOMAIN up
        BY <2>2, <3>1 DEF TypeOK
      <3> QED BY <2>2, <3>1, <3>2, Making DEF Makers
    <2>4. files' \in Seq(DOMAIN parent')
      BY <1>18, <2>3, SeqGrows DEF Synced, disk, TypeOK
    <2>5. nodeLog' \subseteq DOMAIN parent' /\ out' \in [Handles -> SUBSET DOMAIN parent']
      BY <1>18, <2>2, <2>3 DEF Synced, TypeOK
    <2>6. task' \in [Handles -> Tasks] /\ at' \in [Handles -> Places]
      BY <1>18 DEF Synced, Turn, Goto, Set, TypeOK, Tasks, Places, Handles
    <2> QED BY <1>18, <2>3, <2>4, <2>5, <2>6 DEF Synced, disk, TypeOK
  <1>19. CASE UNCHANGED vars
    BY <1>19 DEF vars, disk, memory, TypeOK
  <1> QED BY <1>1, <1>2, <1>3, <1>4, <1>5, <1>6, <1>7, <1>8, <1>9, <1>10, <1>11, <1>12, <1>13,
             <1>14, <1>15, <1>16, <1>17, <1>18, <1>19 DEF Next, NodeActs, Proceed

(* The types hold at first.                                                *)
LEMMA InitTyped == Init => TypeOK
  BY BoundsAreNat DEF Init, TypeOK, Tasks, Places, Handles, Caches, Nothing, Faults, Makers

(* The state keeps its type, with any number of commands and entries.      *)
THEOREM Typed == Spec => []TypeOK
  BY InitTyped, Typing, PTL DEF Spec

-----------------------------------------------------------------------------
(* The actions that neither read nor write the store nor end a process.    *)
Still ==
    /\ UNCHANGED <<files, tally, cache, seen, half, next>>
    /\ \A g \in Handles : at'[g] \in Appending \cup {"list"} => at'[g] = at[g]

(* An action that begins or ends no append leaves the roles alone.         *)
LEMMA Quiet ==
    ASSUME TypeOK, [Next]_vars
    PROVE  \/ Still
           \/ GiveUp
           \/ \E h \in Handles : \/ ReadTally(h) \/ ReadList(h) \/ Killed(h)
                                 \/ Mark(h) \/ Count(h) \/ Write(h)
  <1> USE DEF Still, Turn, Goto, Set, Appending
  <1>1. ASSUME NEW c \in Commands, Poll(c) \/ Govern(c) PROVE Still
    BY <1>1 DEF Poll, Govern, disk, TypeOK, Handles
  <1>2. ASSUME Tick \/ KeyRequested \/ JoinRequested \/ Synced PROVE Still
    BY <1>2 DEF Tick, KeyRequested, JoinRequested, Synced, disk, TypeOK, Handles
  <1>3. ASSUME Adopt \/ AnswerKey \/ Persist PROVE Still
    BY <1>3 DEF Adopt, AnswerKey, Persist, Finish, disk, TypeOK, Handles
  <1>4. ASSUME NEW h \in Handles, Answered(h) PROVE Still
    BY <1>4 DEF Answered, Finish, disk, TypeOK
  <1>5. ASSUME NEW h \in Handles, Extend(h) PROVE Still
    BY <1>5 DEF Extend, Finish, TypeOK
  <1>6. ASSUME UNCHANGED vars PROVE Still
    BY <1>6 DEF vars, disk, memory
  <1> QED BY <1>1, <1>2, <1>3, <1>4, <1>5, <1>6 DEF Next, NodeActs, Proceed

(* A process that stops is in no role that asks for the lock.              *)
LEMMA Stopped ==
    ASSUME TypeOK, NEW h \in Handles, Stop(h)
    PROVE  /\ task'[h] \in {"adopt", "none"} /\ at'[h] \in {"look", "idle"}
           /\ h \in Commands => task'[h] = "none"
           /\ \A g \in Others(h) : /\ task'[g] = task[g] /\ at'[g] = at[g] /\ out'[g] = out[g]
                                   /\ seen'[g] = seen[g] /\ half'[g] = half[g] /\ next'[g] = next[g]
           /\ out'[h] = {} /\ UNCHANGED <<parent, by, files, tally>>
  BY NodeIsNoCommand DEF Stop, Turn, Goto, Set, Others, TypeOK

(* What went wrong once is never forgotten.                                *)
LEMMA FaultsStay == ASSUME TypeOK, [Next]_vars PROVE faults \subseteq faults'
  BY DEF Next, NodeActs, Proceed, vars, Poll, Govern, Tick, KeyRequested, JoinRequested, Synced,
         GiveUp, Adopt, AnswerKey, Persist, ReadTally, ReadList, Answered, Extend, Mark, Count,
         Write, Killed

(* Every step keeps what each place says of the task and the lock.         *)
LEMMA RolesStep ==
    ASSUME TypeOK, Roles, [Next]_vars
    PROVE  Roles'
  <1> USE NodeIsNoCommand, NobodyIsNoHandle
  <1> USE DEF Roles, Holds, Locked, Appending, Turn, Goto, Set
  <1>1. ASSUME NEW c \in Commands, Poll(c) PROVE Roles'
    BY <1>1 DEF Poll, disk, TypeOK, Handles
  <1>16. ASSUME NEW c \in Commands, Govern(c) PROVE Roles'
    BY <1>16 DEF Govern, Take, TypeOK, Handles
  <1>2. ASSUME Tick \/ KeyRequested PROVE Roles'
    BY <1>2 DEF Tick, KeyRequested, Take, disk, TypeOK, Handles
  <1>3. ASSUME JoinRequested \/ Synced PROVE Roles'
    BY <1>3 DEF JoinRequested, Synced, disk, TypeOK, Handles
  <1>4. ASSUME Adopt PROVE Roles'
    BY <1>4 DEF Adopt, disk, TypeOK, Handles
  <1>5. ASSUME AnswerKey PROVE Roles'
    BY <1>5 DEF AnswerKey, Finish, Unlock, TypeOK, Handles
  <1>6. ASSUME Persist PROVE Roles'
    BY <1>6 DEF Persist, Finish, Unlock, TypeOK, Handles
  <1>7. ASSUME NEW h \in Handles, Answered(h) PROVE Roles'
    BY <1>7 DEF Answered, Finish, Unlock, TypeOK, Handles
  <1>8. ASSUME NEW h \in Handles, Extend(h) PROVE Roles'
    BY <1>8 DEF Extend, Finish, Unlock, TypeOK, Handles
  <1>9. ASSUME NEW h \in Handles, ReadTally(h) \/ Count(h) PROVE Roles'
    BY <1>9 DEF ReadTally, Count, disk, TypeOK, Handles
  <1>10. ASSUME NEW h \in Handles, Mark(h) PROVE Roles'
    BY <1>10 DEF Mark, TypeOK, Handles
  <1>11. ASSUME NEW h \in Handles, ReadList(h) PROVE Roles'
    <2>1. CASE Replays(h)
      BY <1>11, <2>1 DEF ReadList, disk, TypeOK, Handles
    <2>2. CASE ~Replays(h)
      <3>1. Stop(h) /\ lock' = IF Holds(h) THEN Nobody ELSE lock
        BY <1>11, <2>2 DEF ReadList, Unlock
      <3> QED BY <3>1, Stopped DEF Handles, Others
    <2> QED BY <2>1, <2>2
  <1>12. ASSUME NEW h \in Handles, Killed(h) PROVE Roles'
    BY <1>12, Stopped DEF Killed, Handles, Others
  <1>13. ASSUME GiveUp PROVE Roles'
    <2>1. Stop(Node) /\ lock' = lock /\ Node \in Handles
      BY <1>13 DEF GiveUp, Handles
    <2> QED BY <2>1, Stopped DEF Handles, Others
  <1>14. ASSUME NEW h \in Handles, Write(h) PROVE Roles'
    BY <1>14 DEF Write, Finish, Unlock, TypeOK, Handles
  <1>15. ASSUME UNCHANGED vars PROVE Roles'
    BY <1>15 DEF vars, disk, memory
  <1> QED BY <1>1, <1>2, <1>3, <1>4, <1>5, <1>6, <1>7, <1>8, <1>9, <1>10, <1>11, <1>12, <1>13,
             <1>14, <1>15, <1>16 DEF Next, NodeActs, Proceed

(* Two appends are under way only if one of them is a save without the     *)
(* lock, and then "overlap" is recorded.                                   *)
LEMMA ApartStep ==
    ASSUME TypeOK, Roles, [Next]_vars, "overlap" \notin faults', Apart, Counted
    PROVE  Apart' /\ Counted'
  <1> USE DEF Apart, Counted, Appending, Goto, Set
  <1>1. CASE Still
    BY <1>1 DEF Still, TypeOK, Handles
  <1>2. ASSUME GiveUp PROVE Apart' /\ Counted'
    BY <1>2 DEF GiveUp, Stop, Turn, TypeOK, Handles
  <1>3. ASSUME NEW h \in Handles, ReadTally(h) PROVE Apart' /\ Counted'
    <2>1. /\ \A q \in Handles : at'[q] \in Appending => at'[q] = at[q]
          /\ files' = files /\ next' = next
      <3>1. PICK there \in {"act", "list"} : at' = [at EXCEPT ![h] = there]
        BY <1>3 DEF ReadTally
      <3>2. \A q \in Handles : at'[q] \in Appending => at'[q] = at[q]
        BY <3>1 DEF TypeOK
      <3>3. files' = files /\ next' = next
        BY <1>3 DEF ReadTally, disk
      <3> QED BY <3>2, <3>3
    <2>2. Apart'
      BY <2>1
    <2>3. Counted'
      BY <2>1
    <2> QED BY <2>2, <2>3
  <1>4. ASSUME NEW h \in Handles, ReadList(h) PROVE Apart' /\ Counted'
    <2>1. CASE Replays(h)
      BY <1>4, <2>1 DEF ReadList, disk, TypeOK
    <2>2. CASE ~Replays(h)
      BY <1>4, <2>2, Stopped DEF ReadList, Others
    <2> QED BY <2>1, <2>2
  <1>5. ASSUME NEW h \in Handles, Killed(h) PROVE Apart' /\ Counted'
    BY <1>5 DEF Killed, Stop, Turn, TypeOK
  <1>6. ASSUME NEW h \in Handles, Mark(h) PROVE Apart' /\ Counted'
    <2>1. \A q \in Others(h) : at[q] \notin Appending
      <3> SUFFICES ASSUME NEW q \in Others(h), at[q] \in Appending PROVE FALSE
        OBVIOUS
      <3>1. "save" \notin {task[h], task[q]}
        BY <1>6 DEF Mark
      <3>2. Holds(h) /\ Holds(q)
        BY <1>6, <3>1 DEF Mark, Roles, Others, Holds, Locked
      <3> QED BY <3>2 DEF Roles, Others
    <2> QED BY <1>6, <2>1 DEF Mark, Others, TypeOK
  <1>7. ASSUME NEW h \in Handles, Count(h) PROVE Apart' /\ Counted'
    BY <1>7 DEF Count, disk, TypeOK
  <1>8. ASSUME NEW h \in Handles, Write(h) PROVE Apart' /\ Counted'
    <2>1. \A g \in Handles : at'[g] \notin Appending
      BY <1>8 DEF Write, Finish, Turn, TypeOK
    <2> QED BY <2>1
  <1> QED BY <1>1, <1>2, <1>3, <1>4, <1>5, <1>6, <1>7, <1>8, Quiet

(* Every step keeps the roles and the appends apart.                       *)
LEMMA AloneStep == ASSUME TypeOK, Alone, [Next]_vars PROVE Alone'
  BY RolesStep, ApartStep, FaultsStay DEF Alone

(* Nobody appends at first.                                                *)
LEMMA InitAlone == Init => Alone
  BY DEF Init, Alone, Roles, Apart, Counted, Holds, Locked, Appending, Handles

(* Nothing that was written is written over (see NothingOverwritten).      *)
THEOREM Kept == Spec => NothingOverwritten
  <1>1. ASSUME TypeOK, Alone, [Next]_vars
        PROVE  [\A i \in 1..Len(files) : "overlap" \in faults \/ files'[i] = files[i]]_vars
    <2>1. CASE UNCHANGED files
      BY <2>1
    <2>2. ASSUME NEW h \in Handles, Write(h), "overlap" \notin faults
          PROVE  \A i \in 1..Len(files) : files'[i] = files[i]
      <3>0. at[h] = "write"
        BY <2>2 DEF Write
      <3>1. next[h] = Len(files)
        BY <1>1, <2>2, <3>0 DEF Alone, Counted
      <3>2. PICK e \in First(h) : files' = Append(files, e)
        BY <2>2, <3>1 DEF Write
      <3>3. e \in DOMAIN parent /\ files \in Seq(DOMAIN parent)
        BY <1>1, <3>2 DEF First, TypeOK
      <3> QED BY <3>2, <3>3
    <2>3. ASSUME NEW h \in Handles, ReadTally(h) \/ ReadList(h) \/ Killed(h) \/ Mark(h) \/ Count(h)
          PROVE  UNCHANGED files
      BY <2>3 DEF ReadTally, ReadList, Killed, Mark, Count, Stop, disk
    <2>4. ASSUME GiveUp PROVE UNCHANGED files
      BY <2>4 DEF GiveUp, Stop
    <2> QED BY <1>1, <2>1, <2>2, <2>3, <2>4, Quiet DEF Still
  <1>2. Spec => [](TypeOK /\ Alone)
    BY InitTyped, Typing, InitAlone, AloneStep, PTL DEF Spec
  <1> QED BY <1>1, <1>2, PTL DEF Spec, NothingOverwritten

-----------------------------------------------------------------------------
(* What Write(h) does while appends are apart: it adds at the end.         *)
LEMMA Appends ==
    ASSUME TypeOK, Counted, NEW h \in Handles, Write(h)
    PROVE  /\ at[h] = "write"
           /\ \E e \in out[h] :
                /\ parent[e] \notin out[h] /\ e \in DOMAIN parent
                /\ files' = Append(files, e)
                /\ out' = [out EXCEPT ![h] = out[h] \ {e}]
           /\ files \in Seq(DOMAIN parent)
           /\ \A g \in Handles : at'[g] \in Appending \cup {"list"} => at'[g] = at[g]
           /\ UNCHANGED <<parent, tally, cache, seen, half>>
  <1>1. at[h] = "write" /\ next[h] = Len(files)
    BY DEF Write, Counted
  <1>2. PICK e \in First(h) : files' = Append(files, e) /\ Set(out, h, out[h] \ {e})
    <2>1. ~(next[h] < Len(files))
      BY <1>1 DEF TypeOK
    <2> QED BY <2>1 DEF Write
  <1>3. e \in out[h] /\ parent[e] \notin out[h] /\ e \in DOMAIN parent
    BY <1>2 DEF First, TypeOK
  <1>4. \A g \in Handles : at'[g] \in Appending \cup {"list"} => at'[g] = at[g]
    BY DEF Write, Finish, Turn, Goto, Set, TypeOK, Appending
  <1>5. UNCHANGED <<parent, tally, cache, seen, half>>
    BY DEF Write
  <1>6. files \in Seq(DOMAIN parent)
    BY DEF TypeOK
  <1> QED BY <1>1, <1>2, <1>3, <1>4, <1>5, <1>6 DEF Set

(* A process ends: what it held is forgotten, or kept as it was.           *)
LEMMA Ends ==
    ASSUME TypeOK, NEW h \in Handles, Stop(h), Set(cache, h, Nothing) \/ UNCHANGED cache,
           Unmarked, Begun, Prefix, Settled
    PROVE  Unmarked' /\ Begun' /\ Prefix' /\ Settled'
  <1>1. \A g \in Handles : cache'[g] = cache[g] \/ cache'[g] = Nothing
    BY DEF Set, TypeOK
  <1>2. Unmarked' /\ Begun'
    BY Stopped DEF Unmarked, Begun, Others, Appending
  <1>3. Prefix'
    BY <1>1, Stopped DEF Prefix, Nothing
  <1>4. \A q \in Handles : at'[q] \in Appending => at[q] \in Appending
    BY Stopped DEF Others, Appending
  <1>5. Settled'
    <2> SUFFICES ASSUME NEW g \in Handles, cache'[g].tally = tally', ~cache'[g].torn
                 PROVE  Stored' \subseteq cache'[g].log /\ \A q \in Handles : at'[q] \notin Appending
      BY DEF Settled
    <2>1. CASE cache'[g] = cache[g]
      BY <1>4, <2>1, Stopped DEF Settled, Stored
    <2>2. CASE cache'[g] = Nothing
      <3>1. tally = 0
        BY <2>2, Stopped DEF Nothing
      <3>2. files' = <<>>
        BY <3>1, Stopped DEF Unmarked
      <3> QED BY <1>4, <3>1, <3>2 DEF Unmarked, Stored
    <2> QED BY <1>1, <2>1, <2>2
  <1> QED BY <1>2, <1>3, <1>5

(* Every step keeps what the caches know of the store.                     *)
LEMMA CurrentStep ==
    ASSUME TypeOK, Alone, [Next]_vars, "overlap" \notin faults',
           Unmarked, Begun, Prefix, Settled
    PROVE  Unmarked' /\ Begun' /\ Prefix' /\ Settled'
  <1>0. Counted
    BY FaultsStay DEF Alone
  <1>1. CASE Still
    BY <1>1 DEF Still, Unmarked, Begun, Prefix, Settled, Stored, Appending
  <1>2. ASSUME GiveUp PROVE Unmarked' /\ Begun' /\ Prefix' /\ Settled'
    BY <1>2, Ends DEF GiveUp, Handles
  <1>3. ASSUME NEW h \in Handles, Killed(h) PROVE Unmarked' /\ Begun' /\ Prefix' /\ Settled'
    BY <1>3, Ends DEF Killed
  <1>4. ASSUME NEW h \in Handles, ReadTally(h) PROVE Unmarked' /\ Begun' /\ Prefix' /\ Settled'
    <2>1. /\ UNCHANGED <<files, tally, cache>>
          /\ \A q \in Handles : at'[q] \in Appending <=> at[q] \in Appending
          /\ at[h] \notin Appending
          /\ \A g \in Others(h) : at'[g] = at[g] /\ seen'[g] = seen[g] /\ half'[g] = half[g]
      BY <1>4 DEF ReadTally, Goto, Set, disk, TypeOK, Appending, Others
    <2>2. at'[h] = "list" => half'[h] = \E q \in Others(h) : at[q] \in Appending
      BY <1>4 DEF ReadTally, Goto, Set, TypeOK
    <2>3. Begun'
      BY <2>1, <2>2 DEF Begun, Others
    <2>4. Unmarked' /\ Prefix'
      BY <2>1 DEF Unmarked, Prefix
    <2>5. Settled'
      BY <2>1 DEF Settled, Stored
    <2> QED BY <2>3, <2>4, <2>5
  <1>5. ASSUME NEW h \in Handles, ReadList(h), ~Replays(h)
        PROVE  Unmarked' /\ Begun' /\ Prefix' /\ Settled'
    <2>1. Stop(h) /\ (Set(cache, h, Nothing) \/ Set(cache, h, cache[h]))
      BY <1>5 DEF ReadList
    <2>2. Set(cache, h, cache[h]) => UNCHANGED cache
      BY DEF Set, TypeOK
    <2> QED BY <2>1, <2>2, Ends
  <1>6. ASSUME NEW h \in Handles, ReadList(h), Replays(h)
        PROVE  Unmarked' /\ Begun' /\ Prefix' /\ Settled'
    <2>1. /\ UNCHANGED <<files, tally>> /\ at[h] = "list"
          /\ \A q \in Handles : at'[q] \in Appending <=> at[q] \in Appending
          /\ \A g \in Others(h) : /\ at'[g] = at[g] /\ seen'[g] = seen[g]
                                  /\ half'[g] = half[g] /\ cache'[g] = cache[g]
          /\ at'[h] = "act"
      BY <1>6 DEF ReadList, Install, Goto, Set, disk, TypeOK, Appending, Others
    <2>2. /\ cache'[h].tally = seen[h] /\ cache'[h].count = Len(files)
          /\ cache'[h].log = Base(h) \cup Gained(h) /\ cache'[h].torn = half[h]
      BY <1>6 DEF ReadList, Install, Set, TypeOK
    <2>3. \A i \in 1..Len(files) : files[i] \in Base(h) \cup Gained(h)
      <3>1. Len(files) \in Nat /\ cache[h].count \in Nat
        BY DEF TypeOK, Caches
      <3>2. CASE cache[h].count < Len(files) /\ cache[h].count # 0
        BY <3>1, <3>2 DEF Base, Gained, From, Prefix
      <3>3. CASE ~(cache[h].count < Len(files) /\ cache[h].count # 0)
        BY <3>1, <3>3 DEF Gained, From
      <3> QED BY <3>2, <3>3
    <2>4. Unmarked'
      BY <2>1 DEF Unmarked
    <2>5. Begun'
      BY <2>1 DEF Begun, Others
    <2>6. Prefix'
      BY <2>1, <2>2, <2>3 DEF Prefix, Others
    <2>7. Settled'
      <3>1. ASSUME NEW g \in Others(h), cache'[g].tally = tally', ~cache'[g].torn
            PROVE  Stored' \subseteq cache'[g].log /\ \A q \in Handles : at'[q] \notin Appending
        BY <2>1, <3>1 DEF Settled, Stored, Others
      <3>2. ASSUME cache'[h].tally = tally', ~cache'[h].torn
            PROVE  Stored' \subseteq cache'[h].log /\ \A q \in Handles : at'[q] \notin Appending
        BY <2>1, <2>2, <2>3, <3>2 DEF Begun, Stored
      <3> QED BY <3>1, <3>2 DEF Settled, Others
    <2> QED BY <2>4, <2>5, <2>6, <2>7
  <1>7. ASSUME NEW h \in Handles, Mark(h) PROVE Unmarked' /\ Begun' /\ Prefix' /\ Settled'
    <2>1. tally' = tally + 1 /\ tally \in Nat /\ UNCHANGED <<files, cache, seen, half>>
      BY <1>7 DEF Mark, TypeOK
    <2>2. \A g \in Handles : seen[g] <= tally /\ cache[g].tally <= tally /\ seen[g] \in Nat /\ cache[g].tally \in Nat
      BY DEF TypeOK, Caches
    <2>3. Unmarked' /\ Begun'
      BY <2>1, <2>2 DEF Unmarked, Begun
    <2>4. Prefix' /\ Settled'
      BY <2>1, <2>2 DEF Prefix, Settled
    <2> QED BY <2>3, <2>4
  <1>8. ASSUME NEW h \in Handles, Count(h) PROVE Unmarked' /\ Begun' /\ Prefix' /\ Settled'
    <2>1. /\ UNCHANGED <<files, tally, cache, seen, half>> /\ at[h] = "count"
          /\ \A g \in Handles : at'[g] = "list" => at[g] = "list"
      BY <1>8 DEF Count, Goto, Set, disk, TypeOK
    <2>2. ~(\A q \in Handles : at[q] \notin Appending)
      BY <2>1 DEF Appending
    <2>3. Unmarked' /\ Begun'
      BY <2>1, <2>2 DEF Unmarked, Begun
    <2>4. Prefix' /\ Settled'
      BY <2>1, <2>2 DEF Prefix, Settled
    <2> QED BY <2>3, <2>4
  <1>9. ASSUME NEW h \in Handles, Write(h) PROVE Unmarked' /\ Begun' /\ Prefix' /\ Settled'
    <2>1. /\ at[h] = "write" /\ files \in Seq(DOMAIN parent)
          /\ \E e : files' = Append(files, e)
          /\ \A g \in Handles : at'[g] = "list" => at[g] = "list"
          /\ UNCHANGED <<tally, cache, seen, half>>
      BY <1>0, <1>9, Appends
    <2>2. ~(\A q \in Handles : at[q] \notin Appending)
      BY <2>1 DEF Appending
    <2>3. Unmarked' /\ Begun'
      BY <2>1, <2>2 DEF Unmarked, Begun
    <2>4. Settled'
      BY <2>1, <2>2 DEF Settled
    <2>5. Prefix'
      <3>1. Len(files') = Len(files) + 1 /\ Len(files) \in Nat
            /\ \A i \in 1..Len(files) : files'[i] = files[i]
        BY <2>1
      <3> QED BY <2>1, <3>1 DEF Prefix
    <2> QED BY <2>3, <2>4, <2>5
  <1> QED BY <1>1, <1>2, <1>3, <1>4, <1>5, <1>6, <1>7, <1>8, <1>9, Quiet

(* The caches and the store are empty at first.                            *)
LEMMA InitCurrent == Init => Current
  BY DEF Init, Current, Unmarked, Begun, Prefix, Settled, Stored, Nothing, Appending

(* An equal tally means nothing was missed (see CacheCurrent).             *)
THEOREM TallyIsEnough == Spec => []CacheCurrent
  <1>1. ASSUME TypeOK, Alone, Current, [Next]_vars PROVE Current'
    BY <1>1, CurrentStep, FaultsStay DEF Current
  <1>2. Current => CacheCurrent
    BY DEF Current, Settled, CacheCurrent
  <1> QED BY <1>1, <1>2, InitTyped, Typing, InitAlone, AloneStep, InitCurrent, PTL DEF Spec

-----------------------------------------------------------------------------
(* New entries, and whatever else leaves store, caches and queues alone.   *)
LEMMA OldParents ==
    ASSUME TypeOK, \A e \in DOMAIN parent : parent'[e] = parent[e],
           UNCHANGED <<files, cache, out>>, "overlap" \notin faults, Replayable, Rooted
    PROVE  Replayable' /\ Rooted'
  <1>1. \A i \in 1..Len(files) : files[i] \in DOMAIN parent
    BY DEF TypeOK
  <1>2. Replayable'
    BY <1>1 DEF Replayable
  <1>3. \A h \in Handles : cache[h].log \subseteq DOMAIN parent /\ out[h] \subseteq DOMAIN parent
    BY DEF TypeOK
  <1>4. Rooted'
    BY <1>3 DEF Rooted, Closed, Stored
  <1> QED BY <1>2, <1>4

(* Every step keeps the files, the caches and the queues in order.         *)
LEMMA OrderStep ==
    ASSUME TypeOK, Alone, [Next]_vars, "overlap" \notin faults', Replayable, Rooted
    PROVE  Replayable' /\ Rooted'
  <1>0. "overlap" \notin faults /\ Counted
    BY FaultsStay DEF Alone
  <1>1. ASSUME UNCHANGED <<parent, files, cache, out>> PROVE Replayable' /\ Rooted'
    BY <1>0, <1>1, OldParents
  <1>2. ASSUME NEW c \in Commands, Poll(c) \/ Govern(c) PROVE UNCHANGED <<parent, files, cache, out>>
    BY <1>2 DEF Poll, Govern, disk
  <1>3. ASSUME Tick \/ KeyRequested \/ Adopt PROVE UNCHANGED <<parent, files, cache, out>>
    BY <1>3 DEF Tick, KeyRequested, Adopt, disk
  <1>4. ASSUME NEW h \in Handles, ReadTally(h) \/ Answered(h) \/ Mark(h) \/ Count(h)
        PROVE  UNCHANGED <<parent, files, cache, out>>
    BY <1>4 DEF ReadTally, Answered, Mark, Count, disk
  <1>5. ASSUME UNCHANGED vars PROVE UNCHANGED <<parent, files, cache, out>>
    BY <1>5 DEF vars, disk, memory
  <1>6. ASSUME JoinRequested PROVE Replayable' /\ Rooted'
    <2>1. PICK e \in Fresh, p \in Heads(nodeLog) : Make(e, p, "join")
      BY <1>6 DEF JoinRequested
    <2>2. p \in {Genesis} \cup DOMAIN parent
      BY <2>1, Chains DEF TypeOK
    <2>3. \A x \in DOMAIN parent : parent'[x] = parent[x]
      BY <2>1, <2>2, MakingOne DEF Makers
    <2> QED BY <1>0, <1>6, <2>3, OldParents DEF JoinRequested, disk
  <1>7. ASSUME Synced PROVE Replayable' /\ Rooted'
    <2>1. PICK new \in SUBSET Fresh : \E up \in [new -> {Genesis} \cup nodeLog \cup new] :
            Extended(up, "peer")
      BY <1>7 DEF Synced
    <2>2. PICK up \in [new -> {Genesis} \cup nodeLog \cup new] : Extended(up, "peer")
      BY <2>1
    <2>3. DOMAIN up \subseteq Fresh
      BY <2>1, <2>2
    <2>4. \A x \in DOMAIN up : up[x] \in {Genesis} \cup DOMAIN parent \cup DOMAIN up
      BY <2>2 DEF TypeOK
    <2>5. \A x \in DOMAIN parent : parent'[x] = parent[x]
      BY <2>2, <2>3, <2>4, Making DEF Makers
    <2> QED BY <1>0, <1>7, <2>5, OldParents DEF Synced, disk
  <1>8. ASSUME AnswerKey PROVE Replayable' /\ Rooted'
    <2> DEFINE adopted == nodeLog \cup Chain(cache[Node].log)
    <2>0. Node \in Handles /\ adopted \subseteq DOMAIN parent
      BY Chains DEF Handles, TypeOK
    <2>1. \/ \E e \in Fresh, p \in Heads(adopted) : Make(e, p, "lock")
          \/ UNCHANGED parent
      BY <1>8 DEF AnswerKey
    <2>2. ASSUME NEW e \in Fresh, NEW p \in Heads(adopted), Make(e, p, "lock")
          PROVE  \A x \in DOMAIN parent : parent'[x] = parent[x]
      <3>1. p \in {Genesis} \cup DOMAIN parent
        BY <2>0, <2>2, Chains
      <3> QED BY <2>2, <3>1, MakingOne DEF Makers
    <2>3. \A x \in DOMAIN parent : parent'[x] = parent[x]
      BY <2>1, <2>2
    <2> QED BY <1>0, <1>8, <2>3, OldParents DEF AnswerKey
  <1>9. ASSUME NEW h \in Handles, Extend(h) PROVE Replayable' /\ Rooted'
    <2>0. cache[h].log \subseteq DOMAIN parent /\ cache[h].log \subseteq Stored
      BY DEF TypeOK, Rooted
    <2>1. CASE UNCHANGED <<parent, by, out>>
      BY <1>0, <1>9, <2>1, OldParents DEF Extend
    <2>2. ASSUME NEW e \in Fresh, NEW p \in Heads(cache[h].log), Make(e, p, "lock"), Set(out, h, {e})
          PROVE  Replayable' /\ Rooted'
      <3>1. p \in {Genesis} \cup cache[h].log
        BY <2>0, <2>2, Chains
      <3>2. p \in {Genesis} \cup DOMAIN parent
        BY <2>0, <3>1
      <3>3. parent'[e] = p /\ \A x \in DOMAIN parent : parent'[x] = parent[x]
        BY <2>2, <3>2, MakingOne DEF Makers
      <3>4. UNCHANGED <<files, cache>>
        BY <1>9 DEF Extend
      <3>5. Replayable'
        <4>1. \A i \in 1..Len(files) : files[i] \in DOMAIN parent
          BY DEF TypeOK
        <4> QED BY <1>0, <3>3, <3>4, <4>1 DEF Replayable
      <3>6. \A g \in Handles : cache'[g].log \subseteq Stored' /\ Closed(cache[g].log)'
        <4>1. \A g \in Handles : cache[g].log \subseteq DOMAIN parent
          BY DEF TypeOK
        <4> QED BY <3>3, <3>4, <4>1 DEF Rooted, Closed, Stored
      <3>7. \A g \in Handles : \A x \in out'[g] : parent'[x] \in {Genesis} \cup out'[g] \cup Stored'
        <4>1. ASSUME NEW g \in Others(h), NEW x \in out'[g]
              PROVE  parent'[x] \in {Genesis} \cup out'[g] \cup Stored'
          <5>1. out'[g] = out[g] /\ out[g] \subseteq DOMAIN parent
            BY <2>2 DEF Set, Others, TypeOK
          <5> QED BY <3>3, <3>4, <4>1, <5>1 DEF Rooted, Stored, Others
        <4>2. out'[h] = {e}
          BY <2>2 DEF Set, TypeOK
        <4>3. parent'[e] \in {Genesis} \cup Stored'
          BY <2>0, <3>1, <3>3, <3>4 DEF Stored
        <4> QED BY <4>1, <4>2, <4>3 DEF Others
      <3> QED BY <3>5, <3>6, <3>7 DEF Rooted
    <2> QED BY <1>9, <2>1, <2>2 DEF Extend
  <1>10. ASSUME Persist PROVE Replayable' /\ Rooted'
    <2> DEFINE held == Chain(cache[Node].log)
               unsaved == Chain(nodeLog) \ held
    <2>0. Node \in Handles /\ cache[Node].log \subseteq DOMAIN parent /\ nodeLog \subseteq DOMAIN parent
      BY DEF Handles, TypeOK
    <2>1. held \subseteq Stored
      BY <2>0, Chains DEF Rooted
    <2>2. Closed(Chain(nodeLog))
      BY <2>0, Chains
    <2>3. \A e \in unsaved : parent[e] \in {Genesis} \cup unsaved \cup Stored
      BY <2>1, <2>2 DEF Closed
    <2>4. UNCHANGED <<parent, files, cache>> /\ (UNCHANGED out \/ out' = [out EXCEPT ![Node] = unsaved])
      BY <1>10 DEF Persist, Set
    <2>5. Replayable'
      BY <1>0, <2>4 DEF Replayable
    <2>6. \A g \in Handles : out'[g] = out[g] \/ out'[g] = unsaved
      BY <2>4 DEF TypeOK
    <2> HIDE DEF unsaved
    <2> QED BY <2>3, <2>4, <2>5, <2>6 DEF Rooted, Closed, Stored
  <1>11. ASSUME NEW h \in Handles, Stop(h), NEW d, d = Nothing \/ d = cache[h], Set(cache, h, d)
         PROVE  Replayable' /\ Rooted'
    <2>1. UNCHANGED <<parent, files>> /\ \A g \in Handles : out'[g] = out[g] \/ out'[g] = {}
      BY <1>11, Stopped DEF Others
    <2>2. \A g \in Handles : cache'[g] = cache[g] \/ cache'[g] = Nothing
      BY <1>11 DEF Set, TypeOK
    <2>3. Replayable'
      BY <1>0, <2>1 DEF Replayable
    <2>4. \A g \in Handles : cache'[g].log \subseteq Stored' /\ Closed(cache[g].log)'
      BY <2>1, <2>2 DEF Rooted, Closed, Stored, Nothing
    <2>5. \A g \in Handles : \A x \in out'[g] : parent'[x] \in {Genesis} \cup out'[g] \cup Stored'
      BY <2>1 DEF Rooted, Stored
    <2> QED BY <2>3, <2>4, <2>5 DEF Rooted
  <1>12. ASSUME NEW h \in Handles, ReadList(h) PROVE Replayable' /\ Rooted'
    <2>1. CASE ~Replays(h)
      BY <1>11, <1>12, <2>1 DEF ReadList
    <2>2. CASE Replays(h)
      <3>1. UNCHANGED <<parent, files, out>>
        BY <1>12, <2>2 DEF ReadList, disk
      <3>2. /\ cache'[h].log = Base(h) \cup Gained(h)
            /\ \A g \in Others(h) : cache'[g] = cache[g]
        BY <1>12, <2>2 DEF ReadList, Install, Set, TypeOK, Others
      <3>3. Len(files) \in Nat /\ cache[h].count \in Nat
        BY DEF TypeOK, Caches
      <3>4. Base(h) \subseteq Stored /\ Closed(Base(h))
        BY DEF Base, Rooted, Closed
      <3>5. Gained(h) \subseteq Stored
        BY <3>3 DEF Gained, From, Stored
      <3>6. \A e \in Gained(h) : parent[e] \in {Genesis} \cup Base(h) \cup Gained(h)
        BY <2>2, <3>3 DEF Replays, Gained, From
      <3>7. Closed(Base(h) \cup Gained(h))
        BY <3>4, <3>6 DEF Closed
      <3>8. Replayable'
        BY <1>0, <3>1 DEF Replayable
      <3>9. \A g \in Handles : cache'[g].log \subseteq Stored' /\ Closed(cache[g].log)'
        BY <3>1, <3>2, <3>4, <3>5, <3>7 DEF Rooted, Closed, Stored, Others
      <3> QED BY <3>1, <3>8, <3>9 DEF Rooted, Stored
    <2> QED BY <2>1, <2>2
  <1>13. ASSUME NEW h \in Handles, Killed(h) PROVE Replayable' /\ Rooted'
    BY <1>11, <1>13 DEF Killed
  <1>14. ASSUME GiveUp PROVE Replayable' /\ Rooted'
    BY <1>11, <1>14 DEF GiveUp, Handles
  <1>15. ASSUME NEW h \in Handles, Write(h) PROVE Replayable' /\ Rooted'
    <2>1. PICK e \in out[h] : /\ parent[e] \notin out[h] /\ e \in DOMAIN parent
                              /\ files' = Append(files, e)
                              /\ out' = [out EXCEPT ![h] = out[h] \ {e}]
      BY <1>0, <1>15, Appends
    <2>2. files \in Seq(DOMAIN parent) /\ UNCHANGED <<parent, cache>>
      BY <1>0, <1>15, Appends
    <2>3. /\ Len(files') = Len(files) + 1 /\ Len(files) \in Nat
          /\ \A i \in 1..Len(files) : files'[i] = files[i]
          /\ files'[Len(files) + 1] = e
      BY <2>1, <2>2
    <2>4. Stored' = Stored \cup {e}
      BY <2>3 DEF Stored
    <2>5. parent[e] \in {Genesis} \cup Stored
      BY <2>1 DEF Rooted
    <2>6. Replayable'
      <3>1. SUFFICES ASSUME NEW i \in 1..Len(files')
                     PROVE  parent[files'[i]] \in {Genesis} \cup {files'[j] : j \in 1..i - 1}
        BY <2>2 DEF Replayable
      <3>2. CASE i \in 1..Len(files)
        BY <1>0, <2>3, <3>2 DEF Replayable
      <3>3. CASE i = Len(files) + 1
        BY <2>3, <2>5, <3>3 DEF Stored
      <3> QED BY <2>3, <3>2, <3>3
    <2>7. \A g \in Handles : cache'[g].log \subseteq Stored' /\ Closed(cache[g].log)'
      BY <2>2, <2>4 DEF Rooted, Closed
    <2>8. \A g \in Handles : \A x \in out'[g] : parent'[x] \in {Genesis} \cup out'[g] \cup Stored'
      <3>1. \A g \in Others(h) : out'[g] = out[g]
        BY <2>1 DEF TypeOK, Others
      <3>2. out'[h] = out[h] \ {e}
        BY <2>1 DEF TypeOK
      <3> QED BY <2>2, <2>4, <3>1, <3>2 DEF Rooted, Others
    <2> QED BY <2>6, <2>7, <2>8 DEF Rooted
  <1> QED BY <1>1, <1>2, <1>3, <1>4, <1>5, <1>6, <1>7, <1>8, <1>9, <1>10, <1>12, <1>13, <1>14,
             <1>15 DEF Next, NodeActs, Proceed

(* There is nothing to be out of order at first.                           *)
LEMMA InitOrder == Init => InOrder
  BY DEF Init, InOrder, Replayable, Rooted, Closed, Stored, Nothing

(* The stored files always replay in their order (see Replayable).         *)
THEOREM FilesReplay == Spec => []Replayable
  <1>1. ASSUME TypeOK, Alone, InOrder, [Next]_vars PROVE InOrder'
    BY <1>1, OrderStep, FaultsStay DEF InOrder
  <1>2. InOrder => Replayable
    BY DEF InOrder, Replayable
  <1> QED BY <1>1, <1>2, InitTyped, Typing, InitAlone, AloneStep, InitOrder, PTL DEF Spec

-----------------------------------------------------------------------------
(* Fork choice, and what is made under the lock.                           *)

(* No entry is an ancestor of itself: of some entries, one has a parent    *)
(* that is none of them.                                                   *)
Acyclic == \A S \in SUBSET DOMAIN parent : S # {} => \E e \in S : parent[e] \notin S

Mine == {e \in DOMAIN parent : by[e] = "lock"}

(* What was made under the lock is stored before the lock is free, or the  *)
(* one who holds it is about to store it; and one who is about to make     *)
(* another entry knows them all.                                           *)
Secured(h) ==
    /\ at[h] \in Appending \cup {"mark"} => Mine \subseteq Stored \cup out[h]
    /\ at[h] \in {"look", "list", "act"} =>
         Mine \subseteq Stored \cup (IF task[h] = "keep" THEN Chain(nodeLog) ELSE {})
    /\ at[h] = "act" /\ task[h] \in {"govern", "key"} /\ ~cache[h].torn => Mine \subseteq cache[h].log

Written ==
    /\ lock = Nobody => Mine \subseteq Stored
    /\ \A h \in Handles : Holds(h) => Secured(h)

Single == \A e, f \in Mine : parent[e] = parent[f] => e = f

InTurn == Acyclic /\ (faults = {} => Written /\ Single)

LessThan == {p \in Nat \X Nat : p[1] < p[2]}

(* A set of numbers that is not empty has a least element.                 *)
LEMMA Least ==
    ASSUME NEW T, T \subseteq Nat, T # {}
    PROVE  \E x \in T : \A y \in T : x <= y
  <1>1. OpToRel(<, Nat) = LessThan
    BY Zenon DEF OpToRel, LessThan
  <1>2. IsWellFoundedOn(LessThan, Nat)
    BY <1>1, NatLessThanWellFounded, Zenon
  <1>3. PICK x \in T : \A y \in T : ~ (<<y, x>> \in LessThan)
    BY <1>2, WFMin, Zenon
  <1>4. \A y \in T : ~ (y < x)
    BY <1>3 DEF LessThan
  <1> QED BY <1>4

(* The branch of an entry is the entry and the branch of its parent.       *)
LEMMA Branches ==
    ASSUME TypeOK, NEW e \in DOMAIN parent
    PROVE  /\ e \in Branch(e) /\ Branch(e) \subseteq DOMAIN parent /\ Closed(Branch(e))
           /\ parent[e] = Genesis => Branch(e) = {e}
           /\ parent[e] # Genesis => /\ parent[e] \in DOMAIN parent
                                     /\ Branch(parent[e]) \subseteq Branch(e)
                                     /\ Branch(e) \subseteq {e} \cup Branch(parent[e])
           /\ IsFiniteSet(Branch(e)) /\ Cardinality(Branch(e)) \in Nat
  <1>1. e \in Branch(e) /\ Branch(e) \subseteq DOMAIN parent
    BY DEF Branch
  <1>2. ASSUME NEW t \in DOMAIN parent PROVE Closed(Branch(t))
    <2> SUFFICES ASSUME NEW a \in Branch(t), parent[a] # Genesis PROVE parent[a] \in Branch(t)
      BY DEF Closed
    <2>1. parent[a] \in DOMAIN parent
      BY DEF Branch, TypeOK
    <2>2. ASSUME NEW S \in SUBSET DOMAIN parent, t \in S, Closed(S) PROVE parent[a] \in S
      <3>1. a \in S
        BY <2>2 DEF Branch
      <3> QED BY <2>2, <3>1 DEF Closed
    <2> QED BY <2>1, <2>2 DEF Branch
  <1>3. ASSUME parent[e] = Genesis PROVE Branch(e) = {e}
    <2>1. {e} \in SUBSET DOMAIN parent /\ Closed({e})
      BY <1>3 DEF Closed
    <2> QED BY <1>1, <2>1 DEF Branch
  <1>4. ASSUME parent[e] # Genesis
        PROVE  /\ parent[e] \in DOMAIN parent
               /\ Branch(parent[e]) \subseteq Branch(e)
               /\ Branch(e) \subseteq {e} \cup Branch(parent[e])
    <2>1. parent[e] \in DOMAIN parent
      BY <1>4 DEF TypeOK
    <2>2. parent[e] \in Branch(e) /\ Closed(Branch(e))
      BY <1>1, <1>2, <1>4 DEF Closed
    <2>3. Branch(parent[e]) \subseteq Branch(e)
      BY <1>1, <2>2 DEF Branch
    <2>4. Closed(Branch(parent[e])) /\ parent[e] \in Branch(parent[e])
      BY <1>2, <2>1 DEF Branch
    <2>5. {e} \cup Branch(parent[e]) \in SUBSET DOMAIN parent
          /\ Closed({e} \cup Branch(parent[e]))
      BY <2>4 DEF Branch, Closed
    <2> QED BY <2>1, <2>3, <2>5 DEF Branch
  <1>5. IsFiniteSet(Branch(e)) /\ Cardinality(Branch(e)) \in Nat
    <2>1. Branch(e) \in SUBSET (1..MaxEntries)
      BY <1>1 DEF TypeOK, Entries
    <2>2. IsFiniteSet(1..MaxEntries)
      BY BoundsAreNat, FS_Interval
    <2>3. IsFiniteSet(Branch(e))
      BY <2>1, <2>2, FS_Subset
    <2> QED BY <2>3, FS_CardinalityType
  <1> QED BY <1>1, <1>2, <1>3, <1>4, <1>5

(* An entry's branch is longer than its parent's.                          *)
LEMMA Longer ==
    ASSUME TypeOK, Acyclic, NEW e \in DOMAIN parent, parent[e] # Genesis
    PROVE  Cardinality(Branch(e)) > Cardinality(Branch(parent[e]))
  <1> DEFINE p == parent[e]
  <1>1. p \in DOMAIN parent /\ Branch(p) \subseteq Branch(e)
    BY Branches
  <1>2. e \notin Branch(p)
    <2> SUFFICES ASSUME e \in Branch(p) PROVE FALSE
      OBVIOUS
    <2> DEFINE D == {x \in Branch(e) : e \in Branch(x)}
    <2>1. D \in SUBSET DOMAIN parent /\ e \in D
      BY Branches
    <2>2. ASSUME NEW x \in D PROVE parent[x] \in D
      <3>1. x \in DOMAIN parent /\ e \in Branch(x) /\ x \in Branch(e)
        BY <2>1
      <3>2. CASE x = e
        BY <1>1, <3>2, Branches
      <3>3. CASE x # e
        <4>1. parent[x] # Genesis
          BY <3>1, <3>3, Branches
        <4>2. e \in Branch(parent[x])
          BY <3>1, <3>3, <4>1, Branches
        <4>3. parent[x] \in Branch(e)
          BY <3>1, <4>1, Branches DEF Closed
        <4> QED BY <4>2, <4>3
      <3> QED BY <3>2, <3>3
    <2> HIDE DEF D
    <2> QED BY <2>1, <2>2 DEF Acyclic
  <1>3. e \in Branch(e) /\ IsFiniteSet(Branch(e)) /\ Cardinality(Branch(e)) \in Nat
        /\ Cardinality(Branch(p)) \in Nat
    BY <1>1, Branches
  <1>4. Branch(p) # Branch(e)
    BY <1>2, <1>3
  <1> HIDE DEF p
  <1>5. Cardinality(Branch(p)) <= Cardinality(Branch(e))
        /\ Cardinality(Branch(p)) # Cardinality(Branch(e))
    BY <1>1, <1>3, <1>4, FS_Subset
  <1> QED BY <1>3, <1>5 DEF p

(* A log with entries has a best branch, and none of its branches is longer. *)
LEMMA TipOf ==
    ASSUME TypeOK, NEW log \in SUBSET DOMAIN parent, log # {}
    PROVE  \E t \in Tips(log) : t \in Chain(log)
  <1> DEFINE size(x) == Cardinality(Branch(x))
             all == {MaxEntries - size(x) : x \in log}
  <1>1. ASSUME NEW x \in log PROVE size(x) \in 0..MaxEntries
    <2>1. Branch(x) \in SUBSET (1..MaxEntries) /\ Cardinality(Branch(x)) \in Nat
      BY Branches DEF TypeOK, Entries
    <2>2. IsFiniteSet(1..MaxEntries) /\ Cardinality(1..MaxEntries) = MaxEntries
      BY BoundsAreNat, FS_Interval
    <2>3. Cardinality(Branch(x)) <= MaxEntries
      BY <2>1, <2>2, FS_Subset
    <2> QED BY <2>1, <2>3, BoundsAreNat
  <1> HIDE DEF size
  <1>2. all \subseteq Nat /\ all # {}
    <2>1. \A x \in log : MaxEntries - size(x) \in Nat
      BY <1>1, BoundsAreNat
    <2> QED BY <2>1
  <1>3. PICK a \in all : \A b \in all : a <= b
    <2> HIDE DEF all
    <2> QED BY <1>2, Least
  <1>4. PICK top \in log : a = MaxEntries - size(top)
    OBVIOUS
  <1>5. \A x \in log : size(x) <= size(top)
    <2> TAKE x \in log
    <2>1. MaxEntries - size(x) \in all
      OBVIOUS
    <2> HIDE DEF all
    <2>2. MaxEntries - size(top) <= MaxEntries - size(x)
      BY <1>3, <1>4, <2>1
    <2>3. size(x) \in 0..MaxEntries /\ size(top) \in 0..MaxEntries
      BY <1>1
    <2> QED BY <2>2, <2>3, BoundsAreNat
  <1> DEFINE best == {x \in log : size(x) = size(top)}
  <1>6. best \subseteq Nat /\ best # {}
    BY DEF TypeOK, Entries
  <1>7. PICK t \in best : \A x \in best : t <= x
    <2> HIDE DEF best
    <2> QED BY <1>6, Least
  <1>8. \A x \in log \ {t} : Beats(t, x)
    <2> TAKE x \in log \ {t}
    <2>1. size(x) \in 0..MaxEntries /\ size(t) = size(top) /\ size(t) \in 0..MaxEntries
      BY <1>1, <1>7
    <2>2. CASE size(x) = size(top)
      <3>1. t <= x /\ t # x /\ t \in Nat /\ x \in Nat
        BY <1>6, <1>7, <2>2
      <3> QED BY <2>1, <2>2, <3>1 DEF Beats, size
    <2>3. CASE size(x) # size(top)
      BY <1>5, <2>1, <2>3 DEF Beats, size
    <2> QED BY <2>2, <2>3
  <1>9. t \in Tips(log)
    BY <1>7, <1>8 DEF Tips
  <1>10. t \in Branch(t)
    BY <1>7, Branches
  <1> QED BY <1>9, <1>10 DEF Chain

(* No branch of a log is longer than that of its tip.                      *)
LEMMA TipIsLongest ==
    ASSUME TypeOK, NEW log \in SUBSET DOMAIN parent, NEW t \in Tips(log), NEW e \in log
    PROVE  Cardinality(Branch(e)) <= Cardinality(Branch(t))
  <1>1. t \in log /\ (e # t => Beats(t, e))
    BY DEF Tips
  <1>2. Cardinality(Branch(e)) \in Nat /\ Cardinality(Branch(t)) \in Nat
    BY <1>1, Branches
  <1> QED BY <1>1, <1>2 DEF Beats

(* Nothing a log holds has a parent that is its head, nor the head of what *)
(* takes the log's chain in.                                               *)
LEMMA HeadsAreFree ==
    ASSUME TypeOK, Acyclic, NEW log \in SUBSET DOMAIN parent, NEW more \in SUBSET DOMAIN parent,
           log = more \/ Chain(log) \subseteq more, NEW e \in log, NEW p \in Heads(more)
    PROVE  parent[e] # p
  <1> SUFFICES ASSUME parent[e] = p PROVE FALSE
    OBVIOUS
  <1>1. PICK t \in Tips(log) : t \in Chain(log)
    BY TipOf
  <1>2. more # {} /\ p \in Tips(more)
    BY <1>1 DEF Heads
  <1>3. t \in log /\ p \in more
    BY <1>1, <1>2 DEF Tips
  <1>4. p # Genesis
    BY <1>3, BoundsAreNat DEF TypeOK, Entries, Genesis
  <1>5. Cardinality(Branch(e)) <= Cardinality(Branch(t))
    BY <1>1, TipIsLongest
  <1>6. Cardinality(Branch(t)) <= Cardinality(Branch(p))
    <2>1. t \in more
      BY <1>1, <1>3
    <2> QED BY <1>2, <2>1, TipIsLongest
  <1>7. Cardinality(Branch(e)) > Cardinality(Branch(p))
    BY <1>4, Longer
  <1>8. /\ Cardinality(Branch(e)) \in Nat /\ Cardinality(Branch(t)) \in Nat
        /\ Cardinality(Branch(p)) \in Nat
    BY <1>3, Branches
  <1> QED BY <1>5, <1>6, <1>7, <1>8

(* What new entries leave of the branches there are, and what the newest   *)
(* one's is.                                                               *)
LEMMA BranchGrows ==
    ASSUME TypeOK, NEW f \in Fresh, NEW p \in {Genesis} \cup DOMAIN parent,
           NEW who \in Makers, Make(f, p, who)
    PROVE  /\ \A g \in DOMAIN parent : Branch(g)' = Branch(g)
           /\ f \in Branch(f)' /\ Branch(f)' \subseteq DOMAIN parent'
           /\ p # Genesis => Branch(p) \subseteq Branch(f)'
  <1>1. /\ DOMAIN parent' = DOMAIN parent \cup {f}
        /\ \A x \in DOMAIN parent : parent'[x] = parent[x]
        /\ parent'[f] = p
    BY MakingOne
  <1>2. ASSUME NEW g \in DOMAIN parent PROVE Branch(g)' \subseteq Branch(g)
    <2>1. Branch(g) \in SUBSET DOMAIN parent' /\ g \in Branch(g) /\ Closed(Branch(g))
      BY <1>1, Branches
    <2>2. \A x \in Branch(g) : parent'[x] \in {Genesis} \cup Branch(g)
      BY <1>1, <2>1, Branches DEF Closed
    <2> DEFINE B == Branch(g)
    <2>3. PICK S : S = B
      OBVIOUS
    <2>4. S \in SUBSET DOMAIN parent' /\ g \in S /\ Closed(S)'
      BY <2>1, <2>2, <2>3 DEF Closed
    <2>5. Branch(g)' \subseteq S
      BY <2>4 DEF Branch
    <2> QED BY <2>3, <2>5
  <1>3. ASSUME NEW g \in DOMAIN parent, NEW a \in Branch(g), NEW S \in SUBSET DOMAIN parent',
               g \in S, Closed(S)'
        PROVE  a \in S
    <2>1. S \cap DOMAIN parent \in SUBSET DOMAIN parent /\ g \in S \cap DOMAIN parent
      BY <1>3
    <2>2. Closed(S \cap DOMAIN parent)
      BY <1>1, <1>3 DEF Closed, TypeOK
    <2> QED BY <2>1, <2>2 DEF Branch
  <1>4. ASSUME NEW g \in DOMAIN parent PROVE Branch(g) \subseteq Branch(g)'
    BY <1>1, <1>3 DEF Branch
  <1>5. f \in Branch(f)' /\ Branch(f)' \subseteq DOMAIN parent'
    BY <1>1 DEF Branch
  <1>6. ASSUME p # Genesis PROVE Branch(p) \subseteq Branch(f)'
    <2> SUFFICES ASSUME NEW a \in Branch(p), NEW S \in SUBSET DOMAIN parent', f \in S, Closed(S)'
                 PROVE  a \in S
      BY <1>1, <1>6, Branches DEF Branch
    <2>1. p \in S
      BY <1>1, <1>6 DEF Closed
    <2> QED BY <1>3, <1>6, <2>1
  <1> QED BY <1>2, <1>4, <1>5, <1>6

(* An entry made on the head of a log is the tip of the log it joins.      *)
LEMMA NewTip ==
    ASSUME TypeOK, NEW log \in SUBSET DOMAIN parent, NEW f \in Fresh, NEW p \in Heads(log),
           NEW who \in Makers, Make(f, p, who)
    PROVE  f \in Chain(log \cup {f})'
  <1>1. p \in {Genesis} \cup log
    BY Chains
  <1>2. /\ \A g \in DOMAIN parent : Branch(g)' = Branch(g)
        /\ f \in Branch(f)' /\ Branch(f)' \subseteq DOMAIN parent'
        /\ p # Genesis => Branch(p) \subseteq Branch(f)'
    BY <1>1, BranchGrows
  <1>3. IsFiniteSet(Branch(f)')
    <2>1. DOMAIN parent' \subseteq 1..MaxEntries
      BY <1>1, MakingOne DEF Entries
    <2>2. IsFiniteSet(1..MaxEntries)
      BY BoundsAreNat, FS_Interval
    <2> QED BY <1>2, <2>1, <2>2, FS_Subset
  <1>4. ASSUME NEW g \in log PROVE Beats(f, g)'
    <2>1. p \in Tips(log) /\ p \in log /\ p # Genesis
      BY <1>1, <1>4, BoundsAreNat DEF Heads, Tips, TypeOK, Entries, Genesis
    <2>2. Cardinality(Branch(g)) <= Cardinality(Branch(p))
      BY <2>1, TipIsLongest
    <2>3. IsFiniteSet(Branch(p)) /\ f \notin Branch(p)
          /\ Cardinality(Branch(p)) \in Nat /\ Cardinality(Branch(g)) \in Nat
      BY <2>1, <1>4, Branches DEF Fresh
    <2>4. Cardinality(Branch(p) \cup {f}) = Cardinality(Branch(p)) + 1
      BY <2>3, FS_AddElement
    <2>5. Branch(p) \cup {f} \subseteq Branch(f)'
      BY <1>2, <2>1
    <2>6. Cardinality(Branch(p) \cup {f}) <= Cardinality(Branch(f)')
          /\ Cardinality(Branch(f)') \in Nat
      BY <1>3, <2>5, FS_Subset, FS_CardinalityType
    <2>7. Cardinality(Branch(f)') > Cardinality(Branch(g))
      BY <2>2, <2>3, <2>4, <2>6
    <2>8. Branch(g)' = Branch(g)
      BY <1>2
    <2> QED BY <2>7, <2>8 DEF Beats
  <1>5. f \in Tips(log \cup {f})'
    BY <1>4 DEF Tips
  <1> QED BY <1>2, <1>5 DEF Chain

(* New entries that come after their parents close no circle.              *)
LEMMA StaysAcyclic ==
    ASSUME TypeOK, Acyclic, NEW up, NEW who \in Makers, DOMAIN up \subseteq Fresh,
           \A e \in DOMAIN up : up[e] \in {Genesis} \cup DOMAIN parent \cup DOMAIN up,
           \A e \in DOMAIN up : up[e] \in DOMAIN up => up[e] < e,
           Extended(up, who)
    PROVE  Acyclic'
  <1>1. /\ DOMAIN parent' = DOMAIN parent \cup DOMAIN up
        /\ \A e \in DOMAIN parent : parent'[e] = parent[e]
        /\ \A e \in DOMAIN up : parent'[e] = up[e]
    BY Making
  <1>2. SUFFICES ASSUME NEW S \in SUBSET DOMAIN parent', S # {} PROVE \E e \in S : parent'[e] \notin S
    BY DEF Acyclic
  <1>3. Genesis \notin S
    <2>1. DOMAIN parent' \subseteq Entries
      BY Making
    <2> QED BY <2>1, BoundsAreNat DEF Entries, Genesis
  <1>4. CASE S \cap DOMAIN parent # {}
    <2>1. PICK e \in S \cap DOMAIN parent : parent[e] \notin S \cap DOMAIN parent
      BY <1>4 DEF Acyclic
    <2>2. parent[e] \in {Genesis} \cup DOMAIN parent
      BY DEF TypeOK
    <2> QED BY <1>1, <1>3, <2>1, <2>2
  <1>5. CASE S \cap DOMAIN parent = {}
    <2>1. S \subseteq DOMAIN up /\ S \subseteq Nat
      BY <1>1, <1>5 DEF Fresh, Entries
    <2>2. PICK e \in S : \A x \in S : e <= x
      BY <1>2, <2>1, Least
    <2>3. up[e] \in S => up[e] < e /\ e <= up[e] /\ up[e] \in Nat /\ e \in Nat
      BY <2>1, <2>2
    <2>4. up[e] \notin S
      BY <2>3
    <2> QED BY <1>1, <2>1, <2>4
  <1> QED BY <1>4, <1>5

(* The same of a single entry, and who made what.                          *)
LEMMA MakesOne ==
    ASSUME TypeOK, Acyclic, NEW f \in Fresh, NEW p \in {Genesis} \cup DOMAIN parent,
           NEW who \in Makers, Make(f, p, who)
    PROVE  /\ Acyclic'
           /\ Mine' = Mine \cup {x \in {f} : who = "lock"}
  <1> DEFINE up == [x \in {f} |-> p]
  <1>1. DOMAIN up = {f} /\ up[f] = p /\ Extended(up, who)
    BY DEF Make
  <1>2. p # f
    BY BoundsAreNat DEF Fresh, Entries, Genesis
  <1>3. DOMAIN up \subseteq Fresh
    BY <1>1
  <1>4. \A e \in DOMAIN up : up[e] \in {Genesis} \cup DOMAIN parent \cup DOMAIN up
    BY <1>1
  <1>5. \A e \in DOMAIN up : up[e] \in DOMAIN up => up[e] < e
    BY <1>1, <1>2
  <1>6. Acyclic'
    <2> HIDE DEF up
    <2> QED BY <1>1, <1>3, <1>4, <1>5, StaysAcyclic
  <1>7. DOMAIN parent' = DOMAIN parent \cup {f} /\ f \notin DOMAIN parent
    BY MakingOne DEF Fresh
  <1>8. DOMAIN by = DOMAIN parent /\ \A x \in DOMAIN parent : by'[x] = by[x]
    BY DEF Make, Extended, Union, TypeOK, Fresh
  <1>9. by'[f] = who
    BY DEF Make, Extended, Union
  <1>10. Mine' = Mine \cup {x \in {f} : who = "lock"}
    BY <1>7, <1>8, <1>9 DEF Mine
  <1> QED BY <1>6, <1>10

(* The chain of what the node has depends on nothing else.                 *)
LEMMA SameChain == ASSUME UNCHANGED <<parent, nodeLog>> PROVE Chain(nodeLog)' = Chain(nodeLog)
  <1>1. ASSUME NEW t PROVE Branch(t)' = Branch(t)
    BY DEF Branch, Closed
  <1>2. ASSUME NEW e, NEW f PROVE Beats(e, f)' <=> Beats(e, f)
    BY <1>1 DEF Beats
  <1>3. PICK log : log = nodeLog /\ log = nodeLog'
    OBVIOUS
  <1>4. \A t : t \in Tips(log)' <=> t \in Tips(log)
    BY <1>2 DEF Tips
  <1>5. \A a : a \in Chain(log)' <=> a \in Chain(log)
    BY <1>1, <1>4 DEF Chain
  <1>6. Chain(log)' = Chain(log)
    BY <1>5
  <1>7. Chain(nodeLog)' = Chain(log)' /\ Chain(nodeLog) = Chain(log)
    BY <1>3 DEF Chain, Tips
  <1> QED BY <1>6, <1>7

(* No log is refused while the files are in order.                         *)
LEMMA AlwaysReplays ==
    ASSUME TypeOK, "overlap" \notin faults, Replayable, Prefix, NEW h \in Handles
    PROVE  Replays(h)
  <1> SUFFICES ASSUME NEW i \in From(h) + 1..Len(files)
               PROVE  parent[files[i]] \in {Genesis} \cup Base(h)
                                             \cup {files[j] : j \in From(h) + 1..i - 1}
    BY DEF Replays
  <1>1. From(h) \in Nat /\ Len(files) \in Nat /\ i \in 1..Len(files)
    BY DEF From, TypeOK, Caches
  <1>2. parent[files[i]] \in {Genesis} \cup {files[j] : j \in 1..i - 1}
    BY <1>1 DEF Replayable
  <1>3. ASSUME NEW j \in 1..i - 1 PROVE files[j] \in Base(h) \cup {files[k] : k \in From(h) + 1..i - 1}
    <2>1. CASE j > From(h)
      BY <1>1, <2>1
    <2>2. CASE ~(j > From(h))
      <3>1. From(h) = cache[h].count /\ Base(h) = cache[h].log /\ j \in 1..cache[h].count
        BY <1>1, <2>2 DEF From, Base
      <3> QED BY <3>1 DEF Prefix
    <2> QED BY <2>1, <2>2
  <1> QED BY <1>2, <1>3

(* What the others do for the lock is left alone by a step of one handle.  *)
LEMMA OneTurn ==
    ASSUME TypeOK, Roles, Written, NEW h \in Handles, Mine' = Mine, Stored \subseteq Stored',
           \A g \in Others(h) : /\ task'[g] = task[g] /\ at'[g] = at[g]
                                /\ out'[g] = out[g] /\ cache'[g] = cache[g],
           h = Node \/ UNCHANGED <<parent, nodeLog>>,
           lock' = Nobody => Mine \subseteq Stored',
           Holds(h)' => Secured(h)'
    PROVE  Written'
  <1> SUFFICES ASSUME NEW g \in Others(h), Holds(g)' PROVE Secured(g)'
    BY DEF Written, Others
  <1>1. g \in Handles /\ Holds(g) /\ Secured(g)
    BY DEF Holds, Others, Written
  <1>2. task[g] = "keep" => Chain(nodeLog)' = Chain(nodeLog)
    <2>1. task[g] = "keep" => g = Node
      BY <1>1 DEF Roles, Handles
    <2> QED BY <2>1, SameChain DEF Others
  <1> QED BY <1>1, <1>2 DEF Secured

(* Every step keeps the entries without a circle.                          *)
LEMMA AcyclicStep == ASSUME TypeOK, Acyclic, [Next]_vars PROVE Acyclic'
  <1>1. CASE UNCHANGED parent
    BY <1>1 DEF Acyclic
  <1>2. ASSUME JoinRequested PROVE Acyclic'
    <2>1. PICK e \in Fresh, p \in Heads(nodeLog) : Make(e, p, "join")
      BY <1>2 DEF JoinRequested
    <2>2. p \in {Genesis} \cup DOMAIN parent
      BY <2>1, Chains DEF TypeOK
    <2> QED BY <2>1, <2>2, MakesOne DEF Makers
  <1>3. ASSUME Synced PROVE Acyclic'
    <2>1. PICK new \in SUBSET Fresh : \E up \in [new -> {Genesis} \cup nodeLog \cup new] :
            (\A e \in new : up[e] \in new => up[e] < e) /\ Extended(up, "peer")
      BY <1>3 DEF Synced
    <2>2. PICK up \in [new -> {Genesis} \cup nodeLog \cup new] :
            (\A e \in new : up[e] \in new => up[e] < e) /\ Extended(up, "peer")
      BY <2>1
    <2>3. DOMAIN up = new /\ DOMAIN up \subseteq Fresh
      BY <2>1, <2>2
    <2>4. \A x \in DOMAIN up : up[x] \in {Genesis} \cup DOMAIN parent \cup DOMAIN up
      BY <2>2, <2>3 DEF TypeOK
    <2> QED BY <2>2, <2>3, <2>4, StaysAcyclic DEF Makers
  <1>4. ASSUME AnswerKey PROVE Acyclic'
    <2> DEFINE adopted == nodeLog \cup Chain(cache[Node].log)
    <2>1. adopted \in SUBSET DOMAIN parent
      <3>1. cache[Node].log \in SUBSET DOMAIN parent /\ nodeLog \subseteq DOMAIN parent
        BY DEF Handles, TypeOK
      <3> QED BY <3>1, Chains
    <2>2. \/ UNCHANGED parent
          \/ \E e \in Fresh, p \in Heads(adopted) : Make(e, p, "lock")
      BY <1>4 DEF AnswerKey
    <2>3. ASSUME NEW e \in Fresh, NEW p \in Heads(adopted), Make(e, p, "lock") PROVE Acyclic'
      <3>1. p \in {Genesis} \cup DOMAIN parent
        <4> HIDE DEF adopted
        <4>1. Heads(adopted) \subseteq {Genesis} \cup adopted
          BY <2>1, Chains
        <4> QED BY <2>1, <2>3, <4>1
      <3> QED BY <2>3, <3>1, MakesOne DEF Makers
    <2> QED BY <1>1, <2>2, <2>3
  <1>5. ASSUME NEW h \in Handles, Extend(h) PROVE Acyclic'
    <2>1. \/ UNCHANGED parent
          \/ \E e \in Fresh, p \in Heads(cache[h].log) : Make(e, p, "lock")
      BY <1>5 DEF Extend
    <2>2. ASSUME NEW e \in Fresh, NEW p \in Heads(cache[h].log), Make(e, p, "lock") PROVE Acyclic'
      <3>1. p \in {Genesis} \cup DOMAIN parent
        <4>1. cache[h].log \in SUBSET DOMAIN parent
          BY DEF TypeOK
        <4> QED BY <2>2, <4>1, Chains
      <3> QED BY <2>2, <3>1, MakesOne DEF Makers
    <2> QED BY <1>1, <2>1, <2>2
  <1>6. ASSUME NEW c \in Commands, Poll(c) \/ Govern(c) PROVE UNCHANGED parent
    BY <1>6 DEF Poll, Govern
  <1>7. ASSUME Tick \/ KeyRequested \/ GiveUp \/ Adopt \/ Persist PROVE UNCHANGED parent
    BY <1>7 DEF Tick, KeyRequested, GiveUp, Stop, Adopt, Persist
  <1>8. ASSUME NEW h \in Handles, \/ ReadTally(h) \/ ReadList(h) \/ Answered(h) \/ Mark(h)
                                  \/ Count(h) \/ Write(h) \/ Killed(h)
        PROVE  UNCHANGED parent
    BY <1>8 DEF ReadTally, ReadList, Answered, Mark, Count, Write, Killed, Stop
  <1>9. ASSUME UNCHANGED vars PROVE UNCHANGED parent
    BY <1>9 DEF vars
  <1> QED BY <1>1, <1>2, <1>3, <1>4, <1>5, <1>6, <1>7, <1>8, <1>9 DEF Next, NodeActs, Proceed

(* An entry made under the lock on the head of what knows all such entries *)
(* shares its parent with none.                                            *)
LEMMA StaysSingle ==
    ASSUME TypeOK, Acyclic, Single, NEW log \in SUBSET DOMAIN parent, Mine \subseteq log,
           NEW more \in SUBSET DOMAIN parent, log = more \/ Chain(log) \subseteq more,
           NEW f \in Fresh, NEW p \in Heads(more), Make(f, p, "lock")
    PROVE  Single' /\ Mine' = Mine \cup {f}
  <1>1. p \in {Genesis} \cup DOMAIN parent
    <2>1. Heads(more) \subseteq {Genesis} \cup more
      BY Chains
    <2> QED BY <2>1
  <1>2. \A e \in Mine : parent[e] # p
    BY HeadsAreFree
  <1>3. Mine' = Mine \cup {f}
    BY <1>1, MakesOne DEF Makers
  <1>4. /\ parent'[f] = p
        /\ \A x \in DOMAIN parent : parent'[x] = parent[x]
    BY <1>1, MakingOne DEF Makers
  <1> QED BY <1>2, <1>3, <1>4 DEF Single, Mine

(* Every step keeps what was made under the lock stored, or about to be,   *)
(* and on one chain.                                                       *)
LEMMA TurnStep ==
    ASSUME TypeOK, Alone, Current, InOrder, Acyclic, Written, Single, [Next]_vars, faults' = {}
    PROVE  Written' /\ Single'
  <1>0. /\ faults = {} /\ "overlap" \notin faults /\ "overlap" \notin faults'
        /\ Roles /\ Counted /\ Unmarked /\ Begun /\ Prefix /\ Settled /\ Replayable /\ Rooted
    BY FaultsStay DEF Alone, Current, InOrder
  <1> USE NodeIsNoCommand, NobodyIsNoHandle
  <1>1. ASSUME UNCHANGED <<parent, by>> PROVE Mine' = Mine /\ Single'
    BY <1>1 DEF Mine, Single
  <1>2. ASSUME UNCHANGED files PROVE Stored \subseteq Stored' /\ Stored' \subseteq Stored
    BY <1>2 DEF Stored
  <1>3. ASSUME NEW c \in Commands, Poll(c) PROVE Written' /\ Single'
    <2>1. ~Holds(c)' /\ UNCHANGED <<parent, by, files, lock, nodeLog>>
      BY <1>3 DEF Poll, Turn, Set, Holds, Locked, disk, TypeOK, Handles
    <2>2. \A g \in Others(c) : /\ task'[g] = task[g] /\ at'[g] = at[g]
                               /\ out'[g] = out[g] /\ cache'[g] = cache[g]
      BY <1>3 DEF Poll, Turn, Goto, Set, TypeOK, Handles, Others
    <2> QED BY <1>0, <1>1, <1>2, <2>1, <2>2, OneTurn DEF Written, Handles
  <1>4. ASSUME NEW c \in Commands, Govern(c) PROVE Written' /\ Single'
    <2>1. UNCHANGED <<parent, by, files, nodeLog>> /\ lock = Nobody /\ lock' = c
      BY <1>4 DEF Govern, Take
    <2>2. \A g \in Others(c) : /\ task'[g] = task[g] /\ at'[g] = at[g]
                               /\ out'[g] = out[g] /\ cache'[g] = cache[g]
      BY <1>4 DEF Govern, Turn, Goto, Set, TypeOK, Handles, Others
    <2>3. at'[c] = "look" /\ task'[c] = "govern"
      BY <1>4 DEF Govern, Turn, Goto, Set, TypeOK, Handles
    <2>4. Secured(c)'
      BY <1>1, <1>2, <2>1, <2>3 DEF Secured, Written, Appending
    <2> QED BY <1>0, <1>1, <1>2, <2>1, <2>2, <2>4, OneTurn DEF Handles
  <1>5. ASSUME Tick PROVE Written' /\ Single'
    <2>1. ~Holds(Node)' /\ UNCHANGED <<parent, by, files, lock>> /\ Node \in Handles
      BY <1>5 DEF Tick, Turn, Set, Holds, Locked, disk, TypeOK, Handles
    <2>2. \A g \in Others(Node) : /\ task'[g] = task[g] /\ at'[g] = at[g]
                                  /\ out'[g] = out[g] /\ cache'[g] = cache[g]
      BY <1>5 DEF Tick, Turn, Goto, Set, TypeOK, Handles, Others
    <2> QED BY <1>0, <1>1, <1>2, <2>1, <2>2, OneTurn DEF Written
  <1>6. ASSUME KeyRequested PROVE Written' /\ Single'
    <2>1. UNCHANGED <<parent, by, files>> /\ lock = Nobody /\ lock' = Node /\ Node \in Handles
      BY <1>6 DEF KeyRequested, Take, Handles
    <2>2. \A g \in Others(Node) : /\ task'[g] = task[g] /\ at'[g] = at[g]
                                  /\ out'[g] = out[g] /\ cache'[g] = cache[g]
      BY <1>6 DEF KeyRequested, Turn, Goto, Set, TypeOK, Handles, Others
    <2>3. at'[Node] = "look" /\ task'[Node] = "key"
      BY <1>6 DEF KeyRequested, Turn, Goto, Set, TypeOK, Handles
    <2>4. Secured(Node)'
      BY <1>1, <1>2, <2>1, <2>3 DEF Secured, Written, Appending
    <2> QED BY <1>0, <1>1, <1>2, <2>1, <2>2, <2>4, OneTurn
  <1>7. ASSUME NEW h \in Handles, Stop(h), UNCHANGED lock, \A g \in Others(h) : cache'[g] = cache[g]
        PROVE  Written' /\ Single'
    <2>1. ~Holds(h)' /\ UNCHANGED <<parent, by, files>>
      BY <1>7, Stopped DEF Holds, Locked
    <2>2. \A g \in Others(h) : /\ task'[g] = task[g] /\ at'[g] = at[g]
                               /\ out'[g] = out[g] /\ cache'[g] = cache[g]
      BY <1>7, Stopped
    <2>3. h = Node \/ UNCHANGED <<parent, nodeLog>>
      BY <1>7 DEF Stop
    <2> QED BY <1>0, <1>1, <1>2, <1>7, <2>1, <2>2, <2>3, OneTurn DEF Written
  <1>8. ASSUME GiveUp PROVE Written' /\ Single'
    BY <1>7, <1>8 DEF GiveUp, Set, Others, Handles, TypeOK
  <1>9. ASSUME NEW h \in Handles, Killed(h) PROVE Written' /\ Single'
    BY <1>7, <1>9 DEF Killed, Set, Others, TypeOK
  <1>10. ASSUME JoinRequested PROVE Written' /\ Single'
    <2>1. PICK e \in Fresh, p \in Heads(nodeLog) : Make(e, p, "join")
      BY <1>10 DEF JoinRequested
    <2>2. p \in {Genesis} \cup DOMAIN parent
      BY <2>1, Chains DEF TypeOK
    <2>3. Mine' = Mine
      BY <2>1, <2>2, MakesOne DEF Makers
    <2>4. \A x \in DOMAIN parent : parent'[x] = parent[x]
      BY <2>1, <2>2, MakingOne DEF Makers
    <2>5. Single'
      BY <2>3, <2>4 DEF Single, Mine
    <2>6. ~Holds(Node)' /\ UNCHANGED <<files, lock>> /\ Node \in Handles
      BY <1>10 DEF JoinRequested, Turn, Set, Holds, Locked, disk, TypeOK, Handles
    <2>7. \A g \in Others(Node) : /\ task'[g] = task[g] /\ at'[g] = at[g]
                                  /\ out'[g] = out[g] /\ cache'[g] = cache[g]
      BY <1>10 DEF JoinRequested, Turn, Goto, Set, TypeOK, Handles, Others
    <2> QED BY <1>0, <1>2, <2>3, <2>5, <2>6, <2>7, OneTurn DEF Written
  <1>11. ASSUME Synced PROVE Written' /\ Single'
    <2>1. PICK new \in SUBSET Fresh : \E up \in [new -> {Genesis} \cup nodeLog \cup new] :
            Extended(up, "peer")
      BY <1>11 DEF Synced
    <2>2. PICK up \in [new -> {Genesis} \cup nodeLog \cup new] : Extended(up, "peer")
      BY <2>1
    <2>3. DOMAIN up = new /\ DOMAIN up \subseteq Fresh
      BY <2>1, <2>2
    <2>4. \A x \in DOMAIN up : up[x] \in {Genesis} \cup DOMAIN parent \cup DOMAIN up
      BY <2>2, <2>3 DEF TypeOK
    <2>5. /\ DOMAIN parent' = DOMAIN parent \cup new
          /\ \A x \in DOMAIN parent : parent'[x] = parent[x]
      BY <2>2, <2>3, <2>4, Making DEF Makers
    <2>6. /\ \A x \in new : by'[x] = "peer"
          /\ \A x \in DOMAIN parent : by'[x] = by[x]
      BY <2>2, <2>3 DEF Extended, Union, TypeOK, Fresh
    <2>7. Mine' = Mine
      BY <2>5, <2>6 DEF Mine
    <2>8. Single'
      BY <2>5, <2>7 DEF Single, Mine
    <2>9. ~Holds(Node)' /\ UNCHANGED <<files, lock>> /\ Node \in Handles
      BY <1>11 DEF Synced, Turn, Set, Holds, Locked, disk, TypeOK, Handles
    <2>10. \A g \in Others(Node) : /\ task'[g] = task[g] /\ at'[g] = at[g]
                                   /\ out'[g] = out[g] /\ cache'[g] = cache[g]
      BY <1>11 DEF Synced, Turn, Goto, Set, TypeOK, Handles, Others
    <2> QED BY <1>0, <1>2, <2>7, <2>8, <2>9, <2>10, OneTurn DEF Written
  <1>12. ASSUME NEW h \in Handles, ReadTally(h) PROVE Written' /\ Single'
    <2>1. UNCHANGED <<parent, by, files, lock, nodeLog, task, cache, out>> /\ at[h] = "look"
      BY <1>12 DEF ReadTally, disk
    <2>2. \A g \in Others(h) : at'[g] = at[g]
      BY <1>12 DEF ReadTally, Goto, Set, TypeOK, Others
    <2>3. at'[h] = "list" \/ (at'[h] = "act" /\ cache[h].tally = tally)
      BY <1>12 DEF ReadTally, Goto, Set, TypeOK
    <2>4. ASSUME Holds(h)' PROVE Secured(h)'
      <3>1. Holds(h) /\ Secured(h)
        BY <2>1, <2>4 DEF Holds, Written
      <3>2. Mine' = Mine /\ Stored' = Stored /\ Chain(nodeLog)' = Chain(nodeLog)
        BY <1>1, <1>2, <2>1, SameChain
      <3>3. at'[h] = "act" /\ ~cache[h].torn => Stored \subseteq cache[h].log
        BY <1>0, <2>3 DEF Settled
      <3>4. Mine \subseteq Stored \cup (IF task[h] = "keep" THEN Chain(nodeLog) ELSE {})
        BY <2>1, <3>1 DEF Secured
      <3> QED BY <2>1, <2>3, <3>2, <3>3, <3>4 DEF Secured, Appending
    <2> QED BY <1>0, <1>1, <1>2, <2>1, <2>2, <2>4, OneTurn DEF Written
  <1>13. ASSUME NEW h \in Handles, ReadList(h) PROVE Written' /\ Single'
    <2>0. Replays(h)
      BY <1>0, AlwaysReplays
    <2>1. UNCHANGED <<parent, by, files, lock, nodeLog, task, out>> /\ at[h] = "list" /\ at'[h] = "act"
      BY <1>13, <2>0 DEF ReadList, Goto, Set, disk, TypeOK
    <2>2. \A g \in Others(h) : at'[g] = at[g] /\ cache'[g] = cache[g]
      BY <1>13, <2>0 DEF ReadList, Install, Goto, Set, TypeOK, Others
    <2>3. Stored \subseteq cache'[h].log
      <3>1. Prefix'
        BY <1>0, CurrentStep
      <3>2. cache'[h].count = Len(files) /\ files' = files
        BY <1>13, <2>0 DEF ReadList, Install, Set, disk, TypeOK
      <3> QED BY <3>1, <3>2 DEF Prefix, Stored
    <2>4. ASSUME Holds(h)' PROVE Secured(h)'
      <3>1. Holds(h) /\ Secured(h)
        BY <2>1, <2>4 DEF Holds, Written
      <3>2. Mine' = Mine /\ Stored' = Stored /\ Chain(nodeLog)' = Chain(nodeLog)
        BY <1>1, <1>2, <2>1, SameChain
      <3>3. Mine \subseteq Stored \cup (IF task[h] = "keep" THEN Chain(nodeLog) ELSE {})
        BY <2>1, <3>1 DEF Secured
      <3> QED BY <2>1, <2>3, <3>2, <3>3 DEF Secured, Appending
    <2> QED BY <1>0, <1>1, <1>2, <2>1, <2>2, <2>4, OneTurn DEF Written
  <1>14. ASSUME NEW h \in Handles, Answered(h) PROVE Written' /\ Single'
    <2>1. UNCHANGED <<parent, by, files, nodeLog, cache, out>> /\ ~Holds(h)'
          /\ at[h] = "act" /\ task[h] \in {"poll", "confirm"}
          /\ lock' = (IF Holds(h) THEN Nobody ELSE lock)
      BY <1>14 DEF Answered, Finish, Unlock, Turn, Set, TypeOK, Holds, Locked
    <2>2. \A g \in Others(h) : task'[g] = task[g] /\ at'[g] = at[g]
      BY <1>14 DEF Answered, Finish, Turn, Goto, Set, TypeOK, Others
    <2>3. lock' = Nobody => Mine \subseteq Stored
      BY <2>1 DEF Written, Secured
    <2> QED BY <1>0, <1>1, <1>2, <2>1, <2>2, <2>3, OneTurn
  <1>15. ASSUME NEW h \in Handles, Mark(h) PROVE Written' /\ Single'
    <2>1. UNCHANGED <<parent, by, files, lock, nodeLog, task, cache, out>>
          /\ at[h] = "mark" /\ at'[h] = "count"
      BY <1>15 DEF Mark, Goto, Set, TypeOK
    <2>2. \A g \in Others(h) : at'[g] = at[g]
      BY <1>15 DEF Mark, Goto, Set, TypeOK, Others
    <2>3. ASSUME Holds(h)' PROVE Secured(h)'
      BY <1>1, <1>2, <2>1, <2>3 DEF Holds, Written, Secured, Appending
    <2> QED BY <1>0, <1>1, <1>2, <2>1, <2>2, <2>3, OneTurn DEF Written
  <1>16. ASSUME NEW h \in Handles, Count(h) PROVE Written' /\ Single'
    <2>1. UNCHANGED <<parent, by, files, lock, nodeLog, task, cache, out>>
          /\ at[h] = "count" /\ at'[h] = "write"
      BY <1>16 DEF Count, Goto, Set, disk, TypeOK
    <2>2. \A g \in Others(h) : at'[g] = at[g]
      BY <1>16 DEF Count, Goto, Set, TypeOK, Others
    <2>3. ASSUME Holds(h)' PROVE Secured(h)'
      BY <1>1, <1>2, <2>1, <2>3 DEF Holds, Written, Secured, Appending
    <2> QED BY <1>0, <1>1, <1>2, <2>1, <2>2, <2>3, OneTurn DEF Written
  <1>17. ASSUME NEW h \in Handles, Write(h) PROVE Written' /\ Single'
    <2>1. PICK e \in out[h] : files' = Append(files, e) /\ out' = [out EXCEPT ![h] = out[h] \ {e}]
      BY <1>0, <1>17, Appends
    <2>2. Stored' = Stored \cup {e}
      <3>1. files \in Seq(DOMAIN parent)
        BY DEF TypeOK
      <3>2. /\ Len(files') = Len(files) + 1 /\ Len(files) \in Nat
            /\ \A i \in 1..Len(files) : files'[i] = files[i]
            /\ files'[Len(files) + 1] = e
        BY <2>1, <3>1
      <3> QED BY <3>2 DEF Stored
    <2>3. at[h] = "write" /\ UNCHANGED <<parent, by, nodeLog, cache>>
      BY <1>17 DEF Write
    <2>4. \A g \in Others(h) : task'[g] = task[g] /\ at'[g] = at[g] /\ out'[g] = out[g]
      BY <1>17, <2>1 DEF Write, Finish, Turn, Goto, Set, TypeOK, Others
    <2>5. out'[h] = out[h] \ {e}
      BY <2>1 DEF TypeOK
    <2>6. Holds(h) => Mine \subseteq Stored' \cup out'[h]
      BY <2>2, <2>3, <2>5 DEF Written, Secured, Appending
    <2>7. \/ at'[h] = "mark" /\ UNCHANGED <<task, lock>>
          \/ out'[h] = {} /\ task'[h] = "none" /\ Unlock(h)
          \/ /\ out'[h] = {} /\ task[h] = "govern" /\ at'[h] = "look"
             /\ task'[h] \in {"govern", "confirm"} /\ UNCHANGED lock
      <3>1. PICK x \in First(h) : /\ Set(out, h, out[h] \ {x})
              /\ \/ out[h] # {x} /\ Goto(h, "mark") /\ UNCHANGED <<task, lock>>
                 \/ out[h] = {x} /\ Finish(h)
                 \/ /\ out[h] = {x} /\ task[h] = "govern"
                    /\ Turn(h, "govern", "look") \/ Turn(h, "confirm", "look")
                    /\ UNCHANGED lock
        BY <1>17 DEF Write
      <3>2. out'[h] = out[h] \ {x}
        BY <3>1 DEF Set, TypeOK
      <3>3. ASSUME Goto(h, "mark") PROVE at'[h] = "mark"
        BY <3>3 DEF Goto, Set, TypeOK
      <3>4. ASSUME Finish(h) PROVE task'[h] = "none" /\ Unlock(h)
        BY <3>4 DEF Finish, Turn, Set, TypeOK
      <3>5. ASSUME Turn(h, "govern", "look") \/ Turn(h, "confirm", "look")
            PROVE  at'[h] = "look" /\ task'[h] \in {"govern", "confirm"}
        BY <3>5 DEF Turn, Goto, Set, TypeOK
      <3> QED BY <3>1, <3>2, <3>3, <3>4, <3>5
    <2>8. lock' = Nobody => Mine \subseteq Stored'
      <3>1. ASSUME Holds(h) PROVE lock = h
        BY <1>0, <3>1 DEF Roles
      <3> QED BY <2>2, <2>6, <2>7, <3>1 DEF Unlock, Holds, Locked, Written
    <2>9. ASSUME Holds(h)' PROVE Secured(h)'
      <3>1. Holds(h)
        BY <2>7, <2>9 DEF Holds, Locked
      <3>2. Mine' = Mine
        BY <1>1, <2>3
      <3>3. task'[h] # "none"
        BY <2>9 DEF Holds, Locked
      <3> QED BY <2>6, <2>7, <3>1, <3>2, <3>3 DEF Secured, Appending
    <2> QED BY <1>0, <1>1, <2>2, <2>3, <2>4, <2>8, <2>9, OneTurn
  <1>18. ASSUME NEW h \in Handles, Extend(h) PROVE Written' /\ Single'
    <2>0. at[h] = "act" /\ task[h] = "govern" /\ Holds(h) /\ lock = h /\ ~cache[h].torn
      BY <1>0, <1>18 DEF Extend, Roles, Holds, Locked
    <2>1. \A g \in Others(h) : /\ task'[g] = task[g] /\ at'[g] = at[g]
                               /\ out'[g] = out[g] /\ cache'[g] = cache[g]
      BY <1>18 DEF Extend, Finish, Turn, Goto, Set, TypeOK, Others
    <2>2. Mine \subseteq Stored /\ Mine \subseteq cache[h].log
      BY <2>0 DEF Written, Secured
    <2>3. CASE UNCHANGED <<parent, by, out>> /\ Finish(h)
      <3>1. ~Holds(h)' /\ UNCHANGED <<files, nodeLog>>
        BY <1>18, <2>3 DEF Extend, Finish, Turn, Set, TypeOK, Holds, Locked
      <3> QED BY <1>0, <1>1, <1>2, <2>1, <2>2, <2>3, <3>1, OneTurn
    <2>4. ASSUME NEW e \in Fresh, NEW p \in Heads(cache[h].log), Make(e, p, "lock"),
                 Set(out, h, {e}), Goto(h, "mark"), UNCHANGED <<task, lock>>
          PROVE  Written' /\ Single'
      <3>1. cache[h].log \in SUBSET DOMAIN parent
        BY DEF TypeOK
      <3>2. Single' /\ Mine' = Mine \cup {e}
        BY <2>2, <2>4, <3>1, StaysSingle
      <3>3. at'[h] = "mark" /\ out'[h] = {e}
        BY <2>4 DEF Goto, Set, TypeOK
      <3>4. Stored' = Stored
        BY <1>18, <1>2 DEF Extend
      <3>5. Secured(h)'
        BY <2>2, <3>2, <3>3, <3>4 DEF Secured, Appending
      <3>6. \A g \in Handles : Holds(g)' => g = h
        BY <1>0, <2>0, <2>4 DEF Roles, Holds
      <3>7. lock' # Nobody
        BY <2>0, <2>4 DEF Handles
      <3> QED BY <3>2, <3>5, <3>6, <3>7 DEF Written
    <2> QED BY <1>18, <2>3, <2>4 DEF Extend
  <1>19. ASSUME Adopt PROVE Written' /\ Single'
    <2>1. ~Holds(Node)' /\ UNCHANGED <<parent, by, files, lock>> /\ Node \in Handles
      BY <1>19 DEF Adopt, Turn, Set, Holds, Locked, disk, TypeOK, Handles
    <2>2. \A g \in Others(Node) : /\ task'[g] = task[g] /\ at'[g] = at[g]
                                  /\ out'[g] = out[g] /\ cache'[g] = cache[g]
      BY <1>19 DEF Adopt, Turn, Goto, Set, TypeOK, Handles, Others
    <2> QED BY <1>0, <1>1, <1>2, <2>1, <2>2, OneTurn DEF Written
  <1>20. ASSUME AnswerKey PROVE Written' /\ Single'
    <2> DEFINE adopted == nodeLog \cup Chain(cache[Node].log)
    <2>0. /\ at[Node] = "act" /\ task[Node] = "key" /\ Node \in Handles
          /\ Holds(Node) /\ lock = Node /\ ~cache[Node].torn
      BY <1>0, <1>20 DEF AnswerKey, Roles, Holds, Locked, Handles
    <2>1. \A g \in Others(Node) : /\ task'[g] = task[g] /\ at'[g] = at[g]
                                  /\ out'[g] = out[g] /\ cache'[g] = cache[g]
      BY <1>20 DEF AnswerKey, Finish, Turn, Goto, Set, TypeOK, Others
    <2>2. Mine \subseteq Stored /\ Mine \subseteq cache[Node].log
      BY <2>0 DEF Written, Secured
    <2>3. UNCHANGED files
      BY <1>20 DEF AnswerKey
    <2>4. CASE UNCHANGED <<parent, by>> /\ Finish(Node)
      <3>1. ~Holds(Node)'
        BY <2>0, <2>4 DEF Finish, Turn, Set, TypeOK, Holds, Locked
      <3> QED BY <1>0, <1>1, <1>2, <2>0, <2>1, <2>2, <2>3, <2>4, <3>1, OneTurn
    <2>5. ASSUME NEW e \in Fresh, NEW p \in Heads(adopted), Make(e, p, "lock"),
                 nodeLog' = adopted \cup {e}, Turn(Node, "keep", "look"), UNCHANGED lock
          PROVE  Written' /\ Single'
      <3>1. cache[Node].log \in SUBSET DOMAIN parent /\ nodeLog \subseteq DOMAIN parent
        BY <2>0 DEF TypeOK
      <3>2. adopted \in SUBSET DOMAIN parent /\ Chain(cache[Node].log) \subseteq adopted
        BY <3>1, Chains
      <3>3. PICK more : more = adopted
        OBVIOUS
      <3> HIDE DEF adopted
      <3>4. Single' /\ Mine' = Mine \cup {e}
        BY <2>2, <2>5, <3>1, <3>2, StaysSingle
      <3>5. e \in Chain(nodeLog)'
        <4>1. e \in Chain(more \cup {e})'
          BY <2>5, <3>2, <3>3, NewTip DEF Makers
        <4>2. nodeLog' = more \cup {e}
          BY <2>5, <3>3
        <4> QED BY <4>1, <4>2 DEF Chain, Tips
      <3>6. at'[Node] = "look" /\ task'[Node] = "keep"
        BY <2>0, <2>5 DEF Turn, Goto, Set, TypeOK
      <3>7. Stored' = Stored
        BY <1>2, <2>3
      <3>8. Secured(Node)'
        BY <2>2, <3>4, <3>5, <3>6, <3>7 DEF Secured, Appending
      <3>9. \A g \in Handles : Holds(g)' => g = Node
        BY <1>0, <2>0, <2>1 DEF Roles, Holds, Others
      <3>10. lock' # Nobody
        BY <2>0, <2>5 DEF Handles
      <3> QED BY <3>4, <3>8, <3>9, <3>10 DEF Written
    <2> QED BY <1>20, <2>4, <2>5 DEF AnswerKey
  <1>21. ASSUME Persist PROVE Written' /\ Single'
    <2> DEFINE mine == Chain(nodeLog)
               held == Chain(cache[Node].log)
    <2>1. /\ UNCHANGED <<parent, by, files, nodeLog>>
          /\ at[Node] = "act" /\ task[Node] \in {"save", "keep"} /\ Node \in Handles
      BY <1>21 DEF Persist, Handles
    <2>2. \A g \in Others(Node) : /\ task'[g] = task[g] /\ at'[g] = at[g]
                                  /\ out'[g] = out[g] /\ cache'[g] = cache[g]
      BY <1>21 DEF Persist, Finish, Turn, Goto, Set, TypeOK, Others
    <2>3. held \subseteq Stored
      <3>1. cache[Node].log \in SUBSET DOMAIN parent
        BY <2>1 DEF TypeOK
      <3>2. cache[Node].log \subseteq Stored /\ Closed(cache[Node].log)
        BY <1>0, <2>1 DEF Rooted
      <3> QED BY <3>1, <3>2, Chains
    <2>4. Holds(Node) => Mine \subseteq Stored \cup mine
      <3>1. Holds(Node) => task[Node] = "keep"
        BY <2>1 DEF Holds, Locked
      <3> QED BY <2>1, <3>1 DEF Written, Secured
    <2>5. \/ out'[Node] = mine \ held /\ at'[Node] = "mark" /\ UNCHANGED <<task, lock>>
          \/ mine \ held = {} /\ Finish(Node)
      BY <1>21, <2>1 DEF Persist, Goto, Set, TypeOK
    <2> HIDE DEF mine, held
    <2>6. CASE out'[Node] = mine \ held /\ at'[Node] = "mark" /\ UNCHANGED <<task, lock>>
      <3>1. ASSUME Holds(Node)' PROVE Secured(Node)'
        <4>1. Mine' = Mine /\ Stored' = Stored /\ Holds(Node)
          BY <1>1, <1>2, <2>1, <2>6, <3>1 DEF Holds
        <4> QED BY <2>3, <2>4, <2>6, <4>1 DEF Secured, Appending
      <3> QED BY <1>0, <1>1, <1>2, <2>1, <2>2, <2>6, <3>1, OneTurn DEF Written
    <2>7. CASE mine \ held = {} /\ Finish(Node)
      <3>1. ~Holds(Node)' /\ lock' = (IF Holds(Node) THEN Nobody ELSE lock)
        BY <2>1, <2>7 DEF Finish, Unlock, Turn, Set, TypeOK, Holds, Locked
      <3>2. lock' = Nobody => Mine \subseteq Stored
        BY <2>3, <2>4, <2>7, <3>1 DEF Written
      <3> QED BY <1>0, <1>1, <1>2, <2>1, <2>2, <3>1, <3>2, OneTurn
    <2> QED BY <2>5, <2>6, <2>7
  <1>22. ASSUME UNCHANGED vars PROVE Written' /\ Single'
    <2>1. UNCHANGED <<parent, by, files, lock, nodeLog, task, at, cache, out>>
      BY <1>22 DEF vars, disk, memory
    <2>2. ASSUME NEW h \in Handles, Holds(h)' PROVE Secured(h)'
      <3>1. Holds(h) /\ Secured(h)
        BY <2>1, <2>2 DEF Holds, Written
      <3>2. Mine' = Mine /\ Stored' = Stored /\ Chain(nodeLog)' = Chain(nodeLog)
        BY <1>1, <1>2, <2>1, SameChain
      <3> QED BY <2>1, <3>1, <3>2 DEF Secured
    <2> QED BY <1>1, <1>2, <2>1, <2>2 DEF Written
  <1> QED BY <1>3, <1>4, <1>5, <1>6, <1>8, <1>9, <1>10, <1>11, <1>12, <1>13, <1>14, <1>15, <1>16,
             <1>17, <1>18, <1>19, <1>20, <1>21, <1>22 DEF Next, NodeActs, Proceed

(* Nothing has been made at first.                                         *)
LEMMA InitInTurn == Init => InTurn
  <1> SUFFICES ASSUME Init PROVE InTurn
    OBVIOUS
  <1>1. DOMAIN parent = {}
    BY DEF Init
  <1>2. \A h \in Handles : ~Holds(h)
    BY DEF Init, Holds, Locked
  <1> QED BY <1>1, <1>2 DEF InTurn, Acyclic, Written, Single, Mine

(* No two entries made on this machine under the lock share a parent (see  *)
(* OneChain), whatever branch fork choice takes meanwhile, as long as no   *)
(* entry from the network was saved into another append and none was made  *)
(* from a cache that one had torn.                                         *)
THEOREM LockedDoNotFork == Spec => []OneChain
  <1>1. ASSUME TypeOK, Alone, Current, InOrder, InTurn, [Next]_vars PROVE InTurn'
    <2>1. faults' = {} => faults = {}
      BY <1>1, FaultsStay
    <2> QED BY <1>1, <2>1, AcyclicStep, TurnStep DEF InTurn
  <1>2. ASSUME TypeOK, Alone, Current, [Next]_vars PROVE Current'
    BY <1>2, CurrentStep, FaultsStay DEF Current
  <1>3. ASSUME TypeOK, Alone, InOrder, [Next]_vars PROVE InOrder'
    BY <1>3, OrderStep, FaultsStay DEF InOrder
  <1>4. TypeOK /\ InTurn => OneChain
    BY DEF TypeOK, InTurn, Single, OneChain, Unforked, Stored, Mine
  <1> QED BY <1>1, <1>2, <1>3, <1>4, InitTyped, Typing, InitAlone, AloneStep, InitCurrent,
             InitOrder, InitInTurn, PTL DEF Spec
=============================================================================
