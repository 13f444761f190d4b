-------------------------- MODULE NodeClaimProofs ---------------------------
(***************************************************************************)
(* What of NodeClaim holds for any number of processes, any staleness      *)
(* window and any patience: its types, that calls which do not overlap     *)
(* leave one server with a group nobody has saved over, and what a refusal *)
(* and a release are entitled to.                                          *)
(***************************************************************************)
EXTENDS NodeClaim, TLAPS

Busy == Taking \cup Leaving

\* A process is about to remove files only while they are its own.
Owned ==
    "overlap" \notin faults =>
        \A p \in Procs : stage[p] \in {"unbeat", "unown"} => owner = p

\* Without an overlap one process at most is taking or releasing.
Alone == "overlap" \notin faults => SoleAmong(Busy)

\* What a waiting process saw of the heartbeat still holds when it decides.
Recent ==
    "starved" \notin faults =>
        \A p \in Procs : stage[p] = "impatient" => heart = Nothing \/ Fresh

(* SoleServer does not follow from itself: that a taker meets no server    *)
(* rests on a server's heartbeat being fresh, and that a taker becomes the *)
(* owner on nobody else having been between the same steps.                *)
Standing ==
    /\ \A p \in Procs : stage[p] \in Serving => dir /\ owner = p /\ Fresh
    /\ \A p \in Procs : stage[p] \in {"check", "first"} => dir /\ owner = p
    /\ \A p \in Procs : stage[p] = "own" => dir
    /\ \A p, q \in Procs : stage[p] \in Busy => stage[q] \notin Serving
    /\ \A p \in Procs : stage[p] \in {"run", "beat"} => live[p] = saved
Held == Clean => Standing

-----------------------------------------------------------------------------
(* Types.                                                                  *)

\* A process moves to a stage and no other does.
LEMMA Moves ==
    ASSUME TypeOK, NEW p \in Procs, NEW there \in Stages, Goto(p, there)
    PROVE  /\ stage' \in [Procs -> Stages]
           /\ stage'[p] = there
           /\ \A q \in Procs : q # p => stage'[q] = stage[q]
BY DEF TypeOK, Goto

\* The faults on record stay on record, and stay faults.
LEMMA EnterFaults ==
    ASSUME TypeOK, NEW p \in Procs, Enter(p)
    PROVE  /\ faults \subseteq faults'
           /\ faults' \subseteq Faults
           /\ "overlap" \notin faults' => \A q \in Procs : q # p => stage[q] \notin Busy
BY DEF TypeOK, Enter, Between, Faults, Busy

\* No step takes a fault back.
LEMMA FaultsGrow ==
    ASSUME TypeOK, Next
    PROVE  faults \subseteq faults' /\ faults' \subseteq Faults
<1>2. CASE Tick
  BY <1>2 DEF TypeOK, Tick, Faults
<1>3. ASSUME NEW p \in Procs, Look(p) \/ Check(p) \/ Close(p)
      PROVE  faults \subseteq faults' /\ faults' \subseteq Faults
  BY <1>3, EnterFaults DEF TypeOK, Look, Check, Close, Stop
<1>4. ASSUME NEW p \in Procs,
             \/ GiveUp(p) \/ MakeDir(p) \/ WriteOwner(p) \/ FirstCheck(p)
             \/ Restore(p) \/ WriteHeart(p) \/ Leave(p) \/ RemoveHeart(p)
             \/ RemoveOwner(p) \/ RemoveDir(p) \/ StartWaiting(p) \/ SaveGroup(p)
             \/ Killed(p)
      PROVE  faults' = faults
  BY <1>4 DEF GiveUp, MakeDir, WriteOwner, FirstCheck, Restore, WriteHeart, Leave,
              RemoveHeart, RemoveOwner, RemoveDir, StartWaiting, SaveGroup, Killed
<1> QED
  BY <1>2, <1>3, <1>4 DEF Next, Proceed, TypeOK

\* Every step keeps the types.
LEMMA StepTypes ==
    ASSUME TypeOK, [Next]_vars
    PROVE  TypeOK'
<1> USE TimesAreNat, NothingIsNoOwner
<1>1. CASE UNCHANGED vars
  BY <1>1 DEF TypeOK, vars, disk
<1>2. ASSUME NEW p \in Procs, StartWaiting(p) PROVE TypeOK'
  BY <1>2, Moves DEF TypeOK, StartWaiting, Stages, Waiting, disk
<1>3. ASSUME NEW p \in Procs, Look(p) PROVE TypeOK'
  <2>1. faults' \in SUBSET Faults
    BY <1>3, EnterFaults DEF TypeOK, Look
  <2>2. stage' \in [Procs -> Stages]
    BY <1>3, Moves DEF Look, Stages, Waiting, Taking
  <2> QED
    BY <1>3, <2>1, <2>2 DEF TypeOK, Look, disk
<1>4. ASSUME NEW p \in Procs, GiveUp(p) PROVE TypeOK'
  BY <1>4, Moves DEF TypeOK, GiveUp, Stages, Waiting, disk
<1>5. ASSUME NEW p \in Procs, MakeDir(p) \/ WriteOwner(p) \/ FirstCheck(p) PROVE TypeOK'
  BY <1>5, Moves DEF TypeOK, MakeDir, WriteOwner, FirstCheck, Stages, Taking, Leaving,
                     Serving, disk
<1>6. ASSUME NEW p \in Procs, Restore(p) \/ SaveGroup(p) PROVE TypeOK'
  BY <1>6, Moves DEF TypeOK, Restore, SaveGroup, Stages, Serving, disk
<1>7. ASSUME NEW p \in Procs, Check(p) \/ Close(p) PROVE TypeOK'
  <2>1. faults' \in SUBSET Faults
    BY <1>7, EnterFaults DEF TypeOK, Check, Close, Stop
  <2>2. stage' \in [Procs -> Stages]
    BY <1>7, Moves DEF Check, Close, Stop, Stages, Serving, Leaving
  <2> QED
    BY <1>7, <2>1, <2>2 DEF TypeOK, Check, Close, Stop, disk
<1>8. ASSUME NEW p \in Procs, WriteHeart(p) PROVE TypeOK'
  BY <1>8, Moves DEF TypeOK, WriteHeart, Stages, Serving
<1>9. ASSUME NEW p \in Procs, Leave(p) \/ RemoveHeart(p) \/ RemoveOwner(p) \/ RemoveDir(p)
      PROVE TypeOK'
  BY <1>9, Moves DEF TypeOK, Leave, RemoveHeart, RemoveOwner, RemoveDir, Stages, Leaving, disk
<1>10. ASSUME NEW p \in Procs, Killed(p) PROVE TypeOK'
  BY <1>10, Moves DEF TypeOK, Killed, Stages, disk
<1>11. CASE Tick
  <2>1. heart \in 0..(now + 1) \cup {Nothing} /\ began \in [Procs -> 0..(now + 1)]
    BY DEF TypeOK
  <2>2. Next
    BY <1>11 DEF Next
  <2>3. faults' \in SUBSET Faults
    BY <2>2, FaultsGrow
  <2>4. now' = now + 1 /\ now' \in Nat /\ now' <= MaxClock
    BY <1>11 DEF TypeOK, Tick
  <2> QED
    BY <1>11, <2>1, <2>3, <2>4 DEF TypeOK, Tick, disk
<1> QED
  BY <1>1, <1>2, <1>3, <1>4, <1>5, <1>6, <1>7, <1>8, <1>9, <1>10, <1>11 DEF Next, Proceed

\* The files of an unclaimed store and processes that do nothing have their types.
LEMMA InitTypes == Init => TypeOK
<1> SUFFICES ASSUME Init PROVE TypeOK
  OBVIOUS
<1>1. stage \in [Procs -> Stages]
  BY DEF Init, Stages
<1>2. faults \in SUBSET Faults
  BY DEF Init
<1>3. began \in [Procs -> 0..now] /\ live \in [Procs -> 0..saved]
  BY DEF Init
<1>4. now \in Nat /\ now <= MaxClock /\ saved \in 0..MaxSaves
  BY TimesAreNat DEF Init
<1>5. dir \in BOOLEAN /\ owner \in Procs \cup {Nothing} /\ heart \in 0..now \cup {Nothing}
  BY DEF Init
<1> QED
  BY <1>1, <1>2, <1>3, <1>4, <1>5 DEF TypeOK

\* The claim's files and every process keep their types, for any processes
\* and any times (the store's claim directory, hold_node's own steps).
THEOREM Typed == Spec => []TypeOK
BY InitTypes, StepTypes, PTL DEF Spec

-----------------------------------------------------------------------------
(* Who moves, and where to.                                                *)

\* One process moves at a time.
LEMMA OneMoves ==
    ASSUME TypeOK, [Next]_vars, NEW p \in Procs, NEW q \in Procs,
           stage'[p] # stage[p], stage'[q] # stage[q]
    PROVE  p = q
<1>1. CASE UNCHANGED vars
  BY <1>1 DEF vars
<1>2. ASSUME NEW r \in Procs, Proceed(r) \/ StartWaiting(r) \/ SaveGroup(r) \/ Close(r) \/ Killed(r)
      PROVE  \A s \in Procs : s # r => stage'[s] = stage[s]
  BY <1>2 DEF TypeOK, Goto, Stop, Proceed, StartWaiting, SaveGroup, Close, Killed, Look,
              GiveUp, MakeDir, WriteOwner, FirstCheck, Restore, Check, WriteHeart, Leave,
              RemoveHeart, RemoveOwner, RemoveDir
<1>3. CASE Tick
  BY <1>3 DEF Tick
<1> QED
  BY <1>1, <1>2, <1>3 DEF Next

\* A process that begins to take or to release the claim finds nobody else at
\* it, unless an overlap is on record.
LEMMA Entrance ==
    ASSUME TypeOK, [Next]_vars, "overlap" \notin faults',
           NEW p \in Procs, stage'[p] \in Busy, stage[p] \notin Busy
    PROVE  \A q \in Procs : q # p => stage[q] \notin Busy /\ stage'[q] = stage[q]
<1>1. stage'[p] # stage[p]
  OBVIOUS
<1>2. \A q \in Procs : q # p => stage'[q] = stage[q]
  BY <1>1, OneMoves
<1>3. Enter(p)
  <2>1. PICK r \in Procs : \/ Proceed(r) \/ StartWaiting(r) \/ SaveGroup(r) \/ Close(r)
                           \/ Killed(r)
    BY <1>1 DEF Next, Tick, vars
  <2>2. CASE r = p
    BY <2>1, <2>2
       DEF TypeOK, Goto, Stop, Proceed, StartWaiting, SaveGroup, Close, Killed, Look,
           GiveUp, MakeDir, WriteOwner, FirstCheck, Restore, Check, WriteHeart, Leave,
           RemoveHeart, RemoveOwner, RemoveDir, Busy, Taking, Leaving
  <2>3. CASE r # p
    BY <2>1, <2>3, <1>1
       DEF TypeOK, Goto, Stop, Proceed, StartWaiting, SaveGroup, Close, Killed, Look,
           GiveUp, MakeDir, WriteOwner, FirstCheck, Restore, Check, WriteHeart, Leave,
           RemoveHeart, RemoveOwner, RemoveDir
  <2> QED
    BY <2>2, <2>3
<1> QED
  BY <1>2, <1>3, EnterFaults

\* Alone is inductive by itself.
LEMMA StepAlone ==
    ASSUME TypeOK, Alone, [Next]_vars
    PROVE  Alone'
<1> SUFFICES ASSUME "overlap" \notin faults',
                    NEW p \in Procs, NEW q \in Procs, stage'[p] \in Busy, stage'[q] \in Busy
             PROVE  p = q
  BY DEF Alone, SoleAmong, Busy, Taking, Leaving
<1>1. "overlap" \notin faults
  BY FaultsGrow DEF vars
<1>2. CASE stage[p] \in Busy /\ stage[q] \in Busy
  BY <1>1, <1>2 DEF Alone, SoleAmong
<1>3. CASE stage[p] \notin Busy
  BY <1>3, Entrance
<1>4. CASE stage[q] \notin Busy
  BY <1>4, Entrance
<1> QED
  BY <1>2, <1>3, <1>4

-----------------------------------------------------------------------------
(* The invariants, step by step.                                           *)

\* The owner changes only by a process that is busy with the claim.
LEMMA OwnerMoves ==
    ASSUME TypeOK, [Next]_vars, owner' # owner
    PROVE  \E r \in Procs : /\ stage[r] \in {"own", "unown"}
                            /\ stage'[r] \in {"check", "undir"}
<1>1. PICK r \in Procs : Proceed(r) \/ StartWaiting(r) \/ SaveGroup(r) \/ Close(r) \/ Killed(r)
  BY DEF Next, Tick, vars, disk
<1>2. WriteOwner(r) \/ RemoveOwner(r)
  BY <1>1 DEF Proceed, StartWaiting, SaveGroup, Close, Killed, Look, GiveUp, MakeDir,
              FirstCheck, Restore, Check, WriteHeart, Leave, RemoveHeart, RemoveDir, disk
<1> QED
  BY <1>2, Moves DEF WriteOwner, RemoveOwner, Stages, Taking, Leaving

\* Owned needs Alone: only another busy process could change the owner.
LEMMA StepOwned ==
    ASSUME TypeOK, Alone, Owned, [Next]_vars
    PROVE  Owned'
<1> SUFFICES ASSUME "overlap" \notin faults',
                    NEW p \in Procs, stage'[p] \in {"unbeat", "unown"}
             PROVE  owner' = p
  BY DEF Owned
<1>1. "overlap" \notin faults
  BY FaultsGrow DEF vars
<1>2. stage[p] \in {"leave", "unbeat", "unown"} /\ owner = p
  <2>1. CASE stage'[p] = stage[p]
    BY <1>1, <2>1 DEF Owned
  <2>2. CASE stage'[p] # stage[p]
    <3>1. PICK r \in Procs : \/ Proceed(r) \/ StartWaiting(r) \/ SaveGroup(r) \/ Close(r)
                             \/ Killed(r)
      BY <2>2 DEF Next, Tick, vars
    <3>2. r = p
      BY <2>2, <3>1
         DEF TypeOK, Goto, Stop, Proceed, StartWaiting, SaveGroup, Close, Killed, Look,
             GiveUp, MakeDir, WriteOwner, FirstCheck, Restore, Check, WriteHeart, Leave,
             RemoveHeart, RemoveOwner, RemoveDir
    <3>3. Leave(p) \/ RemoveHeart(p)
      BY <2>2, <3>1, <3>2
         DEF TypeOK, Goto, Stop, Proceed, StartWaiting, SaveGroup, Close, Killed, Look,
             GiveUp, MakeDir, WriteOwner, FirstCheck, Restore, Check, WriteHeart,
             RemoveOwner, RemoveDir
    <3> QED
      BY <1>1, <3>3 DEF Leave, RemoveHeart, Owned, TypeOK, Goto
  <2> QED
    BY <2>1, <2>2
<1>3. ASSUME owner' # owner PROVE FALSE
  <2>1. PICK r \in Procs : /\ stage[r] \in {"own", "unown"}
                           /\ stage'[r] \in {"check", "undir"}
    BY <1>3, OwnerMoves
  <2>2. r = p
    BY <1>1, <1>2, <2>1 DEF Alone, SoleAmong, Busy, Taking, Leaving
  <2> QED
    BY <2>1, <2>2
<1> QED
  BY <1>2, <1>3

\* Of the steps, only a beat makes a heartbeat newer and only a release
\* removes one; time passes over the rest.
LEMMA HeartMoves ==
    ASSUME TypeOK, [Next]_vars
    PROVE  \/ UNCHANGED <<now, heart>>
           \/ heart' = now /\ now' = now /\ dir
           \/ heart' = Nothing /\ now' = now
           \/ Tick
<1>1. ASSUME NEW p \in Procs, WriteHeart(p)
      PROVE  UNCHANGED <<now, heart>> \/ (heart' = now /\ now' = now /\ dir)
  BY <1>1 DEF WriteHeart
<1>2. ASSUME NEW p \in Procs, RemoveHeart(p)
      PROVE  heart' = Nothing /\ now' = now
  BY <1>2 DEF RemoveHeart
<1>3. ASSUME NEW p \in Procs,
             \/ Look(p) \/ GiveUp(p) \/ MakeDir(p) \/ WriteOwner(p) \/ FirstCheck(p)
             \/ Restore(p) \/ Check(p) \/ Leave(p) \/ RemoveOwner(p) \/ RemoveDir(p)
             \/ StartWaiting(p) \/ SaveGroup(p) \/ Close(p) \/ Killed(p)
      PROVE  UNCHANGED <<now, heart>>
  BY <1>3 DEF Look, GiveUp, MakeDir, WriteOwner, FirstCheck, Restore, Check, Leave,
              RemoveOwner, RemoveDir, StartWaiting, SaveGroup, Close, Killed, disk
<1>4. CASE UNCHANGED vars
  BY <1>4 DEF vars, disk
<1> QED
  BY <1>1, <1>2, <1>3, <1>4 DEF Next, Proceed

\* Recent is inductive: a tick over an impatient process is a fault.
LEMMA StepRecent ==
    ASSUME TypeOK, Recent, [Next]_vars
    PROVE  Recent'
<1> USE TimesAreNat, NothingIsNoOwner
<1> SUFFICES ASSUME "starved" \notin faults', NEW p \in Procs, stage'[p] = "impatient"
             PROVE  heart' = Nothing \/ Fresh'
  BY DEF Recent
<1>1. "starved" \notin faults
  BY FaultsGrow DEF vars
<1>2. stage[p] = "impatient" \/ Look(p)
  BY DEF TypeOK, Goto, Stop, Next, Proceed, StartWaiting, SaveGroup, Close, Killed, Look,
         GiveUp, MakeDir, WriteOwner, FirstCheck, Restore, Check, WriteHeart, Leave,
         RemoveHeart, RemoveOwner, RemoveDir, Tick, vars
<1>3. heart = Nothing \/ Fresh
  BY <1>1, <1>2, Moves DEF Recent, Look, Stages, Taking
<1>4. ~Tick
  <2>1. ASSUME Tick PROVE stage[p] = "impatient" /\ "starved" \in faults'
    BY <2>1 DEF Tick
  <2> QED
    BY <2>1
<1>5. CASE UNCHANGED <<now, heart>>
  BY <1>3, <1>5 DEF Fresh
<1>6. CASE heart' = now /\ now' = now /\ dir
  BY <1>6 DEF Fresh, TypeOK
<1>7. CASE heart' = Nothing /\ now' = now
  BY <1>7
<1> QED
  BY <1>4, <1>5, <1>6, <1>7, HeartMoves

\* Standing needs Alone as well, and nothing but the types besides.
LEMMA StepHeld ==
    ASSUME TypeOK, Alone, Held, [Next]_vars
    PROVE  Held'
<1> USE TimesAreNat, NothingIsNoOwner
<1> SUFFICES ASSUME Clean' PROVE Standing'
  BY DEF Held
<1>1. Clean /\ "overlap" \notin faults'
  BY FaultsGrow DEF Clean, vars
<1>2. Standing
  BY <1>1 DEF Held
<1>3. SoleAmong(Serving)
  BY <1>2 DEF Standing, SoleAmong
<1>4. SoleAmong(Busy)
  BY <1>1 DEF Alone, Clean
<1>10. CASE UNCHANGED vars
  BY <1>2, <1>10 DEF Standing, Fresh, vars, disk
<1>11. CASE Tick
  BY <1>2, <1>11, <1>1 DEF Standing, Fresh, Tick, TypeOK, Clean, Busy, Serving, disk
<1>12. ASSUME NEW p \in Procs, StartWaiting(p) PROVE Standing'
  BY <1>2, <1>12, Moves
     DEF Standing, Fresh, StartWaiting, Stages, Waiting, Busy, Taking, Leaving, Serving, disk
<1>13. ASSUME NEW p \in Procs, Look(p) PROVE Standing'
  BY <1>2, <1>13, Moves
     DEF Standing, Fresh, Look, Stages, Waiting, Busy, Taking, Leaving, Serving, disk
<1>14. ASSUME NEW p \in Procs, GiveUp(p) PROVE Standing'
  BY <1>2, <1>14, Moves
     DEF Standing, Fresh, GiveUp, Stages, Waiting, Busy, Taking, Leaving, Serving, disk
<1>15. ASSUME NEW p \in Procs, MakeDir(p) PROVE Standing'
  BY <1>2, <1>15, Moves
     DEF Standing, Fresh, MakeDir, Stages, Waiting, Busy, Taking, Leaving, Serving, disk
<1>16. ASSUME NEW p \in Procs, WriteOwner(p) PROVE Standing'
  BY <1>2, <1>4, <1>16, Moves
     DEF Standing, SoleAmong, Fresh, WriteOwner, Stages, Busy, Taking, Leaving, Serving, disk
<1>17. ASSUME NEW p \in Procs, FirstCheck(p) PROVE Standing'
  BY <1>2, <1>4, <1>17, Moves
     DEF Standing, SoleAmong, Fresh, FirstCheck, Stages, Busy, Taking, Leaving, Serving, disk
<1>18. ASSUME NEW p \in Procs, WriteHeart(p) PROVE Standing'
  BY <1>2, <1>4, <1>18, Moves
     DEF Standing, SoleAmong, Fresh, WriteHeart, Stages, Busy, Taking, Leaving, Serving, TypeOK
<1>19. ASSUME NEW p \in Procs, Restore(p) PROVE Standing'
  BY <1>2, <1>19, Moves
     DEF Standing, Fresh, Restore, Stages, Busy, Taking, Leaving, Serving, TypeOK, disk
<1>20. ASSUME NEW p \in Procs, SaveGroup(p) PROVE Standing'
  BY <1>2, <1>3, <1>20
     DEF Standing, SoleAmong, Fresh, SaveGroup, Busy, Taking, Leaving, Serving, TypeOK, disk
<1>21. ASSUME NEW p \in Procs, Check(p) \/ Close(p) PROVE Standing'
  BY <1>2, <1>3, <1>21, Moves
     DEF Standing, SoleAmong, Fresh, Check, Close, Stop, Stages, Busy, Taking, Leaving,
         Serving, TypeOK, disk
<1>22. ASSUME NEW p \in Procs, Leave(p) \/ RemoveHeart(p) \/ RemoveOwner(p) \/ RemoveDir(p)
       PROVE  Standing'
  BY <1>2, <1>4, <1>22, Moves
     DEF Standing, SoleAmong, Fresh, Leave, RemoveHeart, RemoveOwner, RemoveDir, Stages, Busy,
         Taking, Leaving, Serving, TypeOK, disk
<1>23. ASSUME NEW p \in Procs, Killed(p) PROVE Standing'
  BY <1>2, <1>23, Moves
     DEF Standing, Fresh, Killed, Stages, Busy, Taking, Leaving, Serving, TypeOK, disk
<1> QED
  BY <1>10, <1>11, <1>12, <1>13, <1>14, <1>15, <1>16, <1>17, <1>18, <1>19, <1>20, <1>21,
     <1>22, <1>23 DEF Next, Proceed

-----------------------------------------------------------------------------
(* What the claim promises.                                                *)

Inv == TypeOK /\ Alone /\ Owned /\ Recent /\ Held

\* The inductive invariant.
LEMMA InvHolds == Spec => []Inv
<1>1. Init => Alone /\ Owned /\ Recent /\ Held
  BY DEF Init, Alone, Owned, Recent, Held, Standing, SoleAmong, Busy, Taking, Leaving, Serving
<1>2. Inv /\ [Next]_vars => Inv'
  BY StepTypes, StepAlone, StepOwned, StepRecent, StepHeld DEF Inv
<1>3. Init => TypeOK
  BY InitTypes
<1>4. Init => Inv
  BY <1>1, <1>3 DEF Inv
<1> QED
  BY <1>2, <1>4, PTL DEF Spec

\* Only one process runs a node for a network, however many there are and
\* whatever the staleness window, as long as none of them overlaps another
\* while it takes or releases the claim and the server beats in time.
THEOREM OneServer == Spec => []SoleServer
<1>1. Inv => SoleServer
  BY DEF Inv, Held, SoleServer, Standing, SoleAmong
<1> QED
  BY <1>1, InvHolds, PTL

\* Then what a node holds of the key group is what the store has: no save of
\* another is lost under it.
THEOREM GroupIsCurrent == Spec => []NothingSavedOver
<1>1. Inv => NothingSavedOver
  BY DEF Inv, Held, NothingSavedOver, Standing
<1> QED
  BY <1>1, InvHolds, PTL

\* A process gives up only over a heartbeat written since it began to wait, or
\* one just removed: the deadline lies past the staleness window.
THEOREM RefusalIsEarned == Spec => RefusedIsServed
<1> USE TimesAreNat, NothingIsNoOwner, WaitsPastStale
<1>1. ASSUME Inv, [Next]_vars, NEW p \in Procs,
             stage'[p] = "refused", stage[p] # "refused", "starved" \notin faults
      PROVE  heart = Nothing \/ heart > began[p]
  <2>1. TypeOK /\ Recent
    BY <1>1 DEF Inv
  <2>2. GiveUp(p)
    BY <1>1, <2>1
       DEF TypeOK, Goto, Stop, Next, Proceed, StartWaiting, SaveGroup, Close, Killed, Look,
           GiveUp, MakeDir, WriteOwner, FirstCheck, Restore, Check, WriteHeart, Leave,
           RemoveHeart, RemoveOwner, RemoveDir, Tick, vars
  <2>3. stage[p] = "impatient" /\ now > began[p] + Patience
    BY <1>1, <2>1, <2>2 DEF GiveUp, Goto, TypeOK
  <2>4. heart = Nothing \/ now - heart < Stale
    BY <1>1, <2>1, <2>3 DEF Recent, Fresh
  <2> QED
    BY <2>1, <2>3, <2>4 DEF TypeOK
<1>2. Inv /\ [Next]_vars =>
        [\A p \in Procs :
           stage'[p] = "refused" /\ stage[p] # "refused" /\ "starved" \notin faults
           => heart = Nothing \/ heart > began[p]]_vars
  BY <1>1
<1> QED
  BY <1>2, InvHolds, PTL DEF Spec, RefusedIsServed

\* Whoever removes a heartbeat or an owner removes its own, unless two have
\* been at the claim at once.
THEOREM ReleaseIsOwn == Spec => ReleaseOnlyOwn
<1>1. ASSUME Inv, [Next]_vars,
             (heart # Nothing /\ heart' = Nothing) \/ (owner # Nothing /\ owner' = Nothing),
             "overlap" \notin faults
      PROVE  owner \in Procs /\ stage[owner] \in Leaving
  <2>1. TypeOK /\ Owned
    BY <1>1 DEF Inv
  <2>2. PICK p \in Procs : RemoveHeart(p) \/ RemoveOwner(p)
    <3>1. ASSUME heart # Nothing, heart' = Nothing
          PROVE  \E p \in Procs : RemoveHeart(p)
      BY <1>1, <2>1, <3>1, NothingIsNoOwner
         DEF TypeOK, Next, Proceed, StartWaiting, SaveGroup, Close, Killed, Look,
             GiveUp, MakeDir, WriteOwner, FirstCheck, Restore, Check, WriteHeart, Leave,
             RemoveOwner, RemoveDir, Tick, vars, disk
    <3>2. ASSUME owner # Nothing, owner' = Nothing
          PROVE  \E p \in Procs : RemoveOwner(p)
      BY <1>1, <2>1, <3>2, NothingIsNoOwner
         DEF TypeOK, Next, Proceed, StartWaiting, SaveGroup, Close, Killed, Look,
             GiveUp, MakeDir, WriteOwner, FirstCheck, Restore, Check, WriteHeart, Leave,
             RemoveHeart, RemoveDir, Tick, vars, disk
    <3> QED
      BY <1>1, <3>1, <3>2
  <2> QED
    BY <1>1, <2>1, <2>2 DEF RemoveHeart, RemoveOwner, Owned, Leaving
<1>2. Inv /\ [Next]_vars =>
        [(heart # Nothing /\ heart' = Nothing) \/ (owner # Nothing /\ owner' = Nothing)
         => "overlap" \in faults \/ (owner \in Procs /\ stage[owner] \in Leaving)]_vars
  BY <1>1
<1> QED
  BY <1>2, InvHolds, PTL DEF Spec, ReleaseOnlyOwn
=============================================================================
