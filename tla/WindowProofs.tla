---------------------------- MODULE WindowProofs ------------------------------
(* What of Window holds for any launches, any networks and any number of       *)
(* wishes and faults: that a launch which leaves in silence left somebody      *)
(* behind, and that a store is not deleted under a node.                       *)
EXTENDS Window, TLAPS

Stages == {"off", "asking", "second", "taking", "up"}
Partings == [by : Procs, net : Networks, step : {"telling", "stopping", "deleting"},
             taken : BOOLEAN]

\* The types of what the launches, the claims of tasks and a departure are.
TypeOK ==
    /\ held \subseteq Networks
    /\ stage \in [Procs -> Stages]
    /\ serving \in [Procs -> SUBSET Networks]
    /\ leaving \in [Procs -> SUBSET Networks]
    /\ parting \in Partings \cup {None}

\* A launch that is the application, or is about to be.
Present(p) == \E q \in Procs \ {p} : stage[q] \in {"taking", "up"}

(* Why AskedIsAnswered follows from what came before: an ask nobody has to     *)
(* answer any more was taken by somebody, who is there unless they ended.      *)
AskTaken ==
    \A p \in Procs : stage[p] = "asking" /\ ~raise /\ p \notin betrayed => Present(p)

Answered == AskTaken /\ AskedIsAnswered

\* A store about to be deleted was asked about, and is free unless taken since.
Asked ==
    parting # None /\ parting.step = "deleting" /\ Served(parting.net) => parting.taken

-----------------------------------------------------------------------------
(* Steps.                                                                      *)

\* The steps that leave every launch and the application's claim alone.
LEMMA AppKept ==
    ASSUME Next,
           ~ \E p \in Procs : Launch(p) \/ Protocol(p) \/ Hide(p) \/ Quit(p) \/ Kill(p) \/ Exit(p),
           ~ Age
    PROVE  UNCHANGED app
<1>1. ASSUME NEW p \in Procs, Tick(p) \/ Unlock(p) \/ Lock(p) PROVE UNCHANGED app
  BY <1>1 DEF Tick, Unlock, Lock
<1>2. ASSUME NEW p \in Procs, NEW n \in Networks,
             \/ Gain(p, n) \/ OpenNetwork(p, n) \/ Restart(p, n) \/ Depart(p, n)
             \/ \E aside \in BOOLEAN : SetAside(p, n, aside)
             \/ Claim(p, n) \/ Refuse(p, n) \/ Release(p, n) \/ TaskEnds(p, n)
             \/ Settle(p, n) \/ Due(p, n)
      PROVE  UNCHANGED app
  BY <1>2 DEF Gain, OpenNetwork, Restart, Depart, SetAside, Claim, Refuse, Release, TaskEnds,
              Settle, Due
<1>3. CASE StopParting \/ CheckParting \/ DeleteParting
  BY <1>3 DEF StopParting, CheckParting, DeleteParting
<1>4. ASSUME NEW n \in Networks, FallAsleep(n) \/ Elsewhere(n) PROVE UNCHANGED app
  BY <1>4 DEF FallAsleep, Elsewhere
<1> QED
  BY <1>1, <1>2, <1>3, <1>4 DEF Next

\* A launch moves and no other does.
LEMMA StageMoves ==
    ASSUME TypeOK, NEW p \in Procs, NEW there \in Stages,
           stage' = [stage EXCEPT ![p] = there]
    PROVE  /\ stage' \in [Procs -> Stages]
           /\ stage'[p] = there
           /\ \A q \in Procs : q # p => stage'[q] = stage[q]
BY DEF TypeOK

\* Every step moves launches among their stages.
LEMMA StageTypes ==
    ASSUME TypeOK, [Next]_vars
    PROVE  stage' \in [Procs -> Stages]
<1>1. CASE UNCHANGED app
  BY <1>1 DEF app, TypeOK
<1>2. CASE UNCHANGED vars
  BY <1>2 DEF vars, app, TypeOK
<1>3. ASSUME NEW p \in Procs, Launch(p) PROVE stage' \in [Procs -> Stages]
  BY <1>3, StageMoves DEF Launch, Asks, Stages
<1>4. ASSUME NEW p \in Procs, Protocol(p) PROVE stage' \in [Procs -> Stages]
  BY <1>4, StageMoves DEF Protocol, Notice, GiveUpAsking, TakeClaim, Beat, Stages, TypeOK
<1>5. ASSUME NEW p \in Procs, Hide(p) \/ Quit(p) \/ Kill(p) \/ Exit(p)
      PROVE  stage' \in [Procs -> Stages]
  BY <1>5, StageMoves DEF Hide, Quit, Kill, Exit, Ends, Stages, TypeOK
<1>6. CASE Age
  BY <1>6 DEF Age, TypeOK
<1> QED
  BY <1>1, <1>2, <1>3, <1>4, <1>5, <1>6, AppKept

-----------------------------------------------------------------------------
(* A launch that leaves in silence.                                            *)

\* A launch that comes to stand as the application's claim asks, while no other
\* leaves, betrays nobody: who was present stays.
LEMMA PresentStays ==
    ASSUME TypeOK, NEW p \in Procs, stage[p] \notin {"taking", "up"},
           NEW there \in Stages, stage' = [stage EXCEPT ![p] = there],
           NEW q \in Procs, Present(q)
    PROVE  Present(q)'
BY StageMoves DEF Present, TypeOK

\* Each launch asks, is asked or leaves, and whoever leaves in silence leaves
\* somebody behind.
LEMMA LaunchAnswers ==
    ASSUME TypeOK, Answered, NEW p \in Procs, Launch(p)
    PROVE  Answered'
<1>1. PICK there \in {"asking", "taking"} :
         /\ stage' = [stage EXCEPT ![p] = there]
         /\ there = "asking" => raise'
         /\ raise' => raise \/ there = "asking"
         /\ ~raise' => ~raise
  <2>1. stage' = [stage EXCEPT ![p] = Asks(heart = "fresh")] /\ stage'[p] = Asks(heart = "fresh")
    BY DEF Launch, TypeOK
  <2> QED
    BY <2>1 DEF Launch, Asks
<1>2. there \in Stages
  BY DEF Stages
<1>3. stage[p] = "off" /\ betrayed' = betrayed \ {p}
  BY DEF Launch
<1>4. stage'[p] = there /\ \A q \in Procs : q # p => stage'[q] = stage[q]
  BY <1>1, <1>2, StageMoves
<1>5. \A q \in Procs : Present(q) => Present(q)'
  BY <1>1, <1>2, <1>3, PresentStays
<1>6. AskTaken'
  BY <1>1, <1>3, <1>4, <1>5 DEF Answered, AskTaken
<1>7. AskedIsAnswered'
  BY <1>1, <1>3, <1>4, <1>5 DEF Answered, AskedIsAnswered, Present
<1> QED
  BY <1>6, <1>7 DEF Answered

\* The protocol of the claim: an ask is taken by somebody who stays.
LEMMA ProtocolAnswers ==
    ASSUME TypeOK, Answered, NEW p \in Procs, Protocol(p)
    PROVE  Answered'
<1>1. CASE Notice(p)
  <2>1. stage[p] = "asking" /\ ~raise /\ UNCHANGED <<raise, betrayed>>
    BY <1>1 DEF Notice
  <2>2. stage' = [stage EXCEPT ![p] = "second"] /\ "second" \in Stages
    BY <1>1 DEF Notice, Stages
  <2>3. stage'[p] = "second" /\ \A q \in Procs : q # p => stage'[q] = stage[q]
    BY <2>2, StageMoves
  <2>4. \A q \in Procs : Present(q) => Present(q)'
    BY <2>1, <2>2, PresentStays
  <2> QED
    BY <2>1, <2>3, <2>4 DEF Answered, AskTaken, AskedIsAnswered, Present
<1>2. CASE GiveUpAsking(p) \/ TakeClaim(p)
  <2>1. PICK there \in {"taking", "up"} : stage' = [stage EXCEPT ![p] = there]
    BY <1>2 DEF GiveUpAsking, TakeClaim
  <2>2. betrayed' = betrayed /\ there \in Stages
    BY <1>2 DEF GiveUpAsking, TakeClaim, Stages
  <2>3. stage'[p] = there /\ \A q \in Procs : q # p => stage'[q] = stage[q]
    BY <2>1, <2>2, StageMoves
  <2>4. \A q \in Procs : q # p => Present(q)'
    BY <2>3 DEF Present
  <2> QED
    BY <2>3, <2>4 DEF Answered, AskTaken, AskedIsAnswered, Present
<1>3. CASE Beat(p)
  <2>1. stage[p] = "up" /\ UNCHANGED <<stage, betrayed>>
    BY <1>3 DEF Beat, Up
  <2>2. \A q \in Procs : q # p => Present(q)'
    BY <2>1 DEF Present
  <2> QED
    BY <2>1, <2>2 DEF Answered, AskTaken, AskedIsAnswered, Present
<1> QED
  BY <1>1, <1>2, <1>3 DEF Protocol

\* Whoever ends betrays those who were asking or had asked.
LEMMA EndBetrays ==
    ASSUME TypeOK, Answered, NEW p \in Procs, Quit(p) \/ Kill(p)
    PROVE  Answered'
<1>1. /\ stage' = [stage EXCEPT ![p] = "off"]
      /\ betrayed' = (betrayed \cup {q \in Procs : stage[q] \in {"asking", "second"}}) \ {p}
  BY DEF Quit, Kill, Ends
<1>2. stage'[p] = "off" /\ \A q \in Procs : q # p => stage'[q] = stage[q]
  BY <1>1, StageMoves DEF Stages
<1> QED
  BY <1>1, <1>2 DEF Answered, AskTaken, AskedIsAnswered

\* Every step leaves a launch that asked answered.
LEMMA StepAnswered ==
    ASSUME TypeOK, Answered, [Next]_vars
    PROVE  Answered'
<1>1. ASSUME UNCHANGED <<stage, betrayed, raise>> PROVE Answered'
  BY <1>1 DEF Answered, AskTaken, AskedIsAnswered, Present
<1>2. CASE UNCHANGED vars
  BY <1>1, <1>2 DEF vars, app
<1>3. CASE UNCHANGED app
  BY <1>1, <1>3 DEF app
<1>4. CASE Age
  BY <1>1, <1>4 DEF Age
<1>5. ASSUME NEW p \in Procs, Hide(p) PROVE Answered'
  BY <1>1, <1>5 DEF Hide
<1>6. ASSUME NEW p \in Procs, Exit(p) PROVE Answered'
  <2>1. /\ stage[p] = "second" /\ stage' = [stage EXCEPT ![p] = "off"]
        /\ UNCHANGED <<raise, betrayed>> /\ "off" \in Stages
    BY <1>6 DEF Exit, Stages
  <2>2. stage'[p] = "off" /\ \A q \in Procs : q # p => stage'[q] = stage[q]
    BY <2>1, StageMoves
  <2>3. \A q \in Procs : Present(q) => Present(q)'
    BY <2>1, PresentStays
  <2> QED
    BY <2>1, <2>2, <2>3 DEF Answered, AskTaken, AskedIsAnswered, Present
<1> QED
  BY <1>2, <1>3, <1>4, <1>5, <1>6, LaunchAnswers, ProtocolAnswers, EndBetrays, AppKept

-----------------------------------------------------------------------------
(* A network that is left.                                                     *)

claims == <<serving, leaving, elsewhere>>

\* The claims of stores change hands within the tasks of one process: whoever
\* held one before this step held it after, or it is held by nobody.
NoClaimTaken ==
    /\ serving' \in [Procs -> SUBSET Networks] /\ leaving' \in [Procs -> SUBSET Networks]
    /\ \A q \in Procs : serving'[q] \cup leaving'[q] \subseteq serving[q] \cup leaving[q]

\* The supervisor's pass stops tasks, and takes no claim of a store.
LEMMA ReconcileTakesNone ==
    ASSUME TypeOK, NEW p \in Procs, NEW from, Reconciles(p, from)
    PROVE  NoClaimTaken
<1>1. PICK kept : /\ serving' = [serving EXCEPT ![p] = @ \cap (from \cap kept)]
                  /\ leaving' = [leaving EXCEPT ![p] = @ \cup (serving[p] \ (from \cap kept))]
  BY DEF Reconciles
<1> QED
  BY <1>1 DEF TypeOK, NoClaimTaken

\* While no claim of a store is taken, a store that is free stays free.
LEMMA FreeStays ==
    ASSUME NoClaimTaken, UNCHANGED elsewhere, NEW n, Served(n)'
    PROVE  Served(n)
BY DEF NoClaimTaken, Served, HeldBy

\* What a process that ends leaves is a departure it was not making.
LEMMA EndTypes ==
    ASSUME TypeOK, NEW p \in Procs, Ends(p)
    PROVE  NoClaimTaken /\ UNCHANGED <<held, elsewhere>> /\ parting' \in {parting, None}
BY DEF Ends, StopAll, TypeOK, NoClaimTaken

\* What has to be shown of a step but for the launches.
Leaves ==
    /\ held' \subseteq Networks
    /\ serving' \in [Procs -> SUBSET Networks] /\ leaving' \in [Procs -> SUBSET Networks]
    /\ parting' \in Partings \cup {None}
    /\ Asked'
    /\ \A n \in held \ held' : Served(n) => parting.taken

\* A step that takes no claim and begins or advances no departure is safe.
LEMMA KeepsFree ==
    ASSUME TypeOK, Asked, NoClaimTaken, UNCHANGED elsewhere,
           parting' \in {parting, None}, held \subseteq held', held' \subseteq Networks
    PROVE  Leaves
<1>1. Asked'
  BY FreeStays DEF Asked
<1> QED
  BY <1>1 DEF TypeOK, NoClaimTaken, Leaves

\* A step that leaves the tasks alone takes no claim.
LEMMA TasksKept ==
    ASSUME TypeOK, UNCHANGED <<serving, leaving>>
    PROVE  NoClaimTaken
BY DEF TypeOK, NoClaimTaken

\* What the launches and the member do, but for departures.
LEMMA MemberLeaves ==
    ASSUME TypeOK, Asked, NEW p \in Procs,
           \/ Launch(p) \/ Protocol(p) \/ Hide(p) \/ Quit(p) \/ Kill(p) \/ Exit(p)
           \/ Tick(p) \/ Unlock(p) \/ Lock(p)
           \/ \E n \in Networks :
                \/ Gain(p, n) \/ OpenNetwork(p, n) \/ Restart(p, n)
                \/ \E aside \in BOOLEAN : SetAside(p, n, aside)
    PROVE  Leaves
<1>1. CASE Launch(p) \/ Protocol(p) \/ Hide(p) \/ Exit(p) \/ Lock(p)
  <2>1. UNCHANGED <<held, serving, leaving, elsewhere, parting>>
    BY <1>1 DEF Launch, Protocol, Notice, GiveUpAsking, TakeClaim, Beat, Hide, Exit, Lock, tasks
  <2> QED
    BY <2>1, TasksKept, KeepsFree DEF TypeOK
<1>2. CASE Quit(p) \/ Kill(p)
  BY <1>2, EndTypes, KeepsFree DEF Quit, Kill, TypeOK
<1>3. CASE Tick(p) \/ Unlock(p)
  <2>1. UNCHANGED <<held, elsewhere, parting>> /\ Reconciles(p, running[p])
    BY <1>3 DEF Tick, Unlock
  <2> QED
    BY <2>1, ReconcileTakesNone, KeepsFree DEF TypeOK
<1>4. ASSUME NEW n \in Networks,
             \/ Gain(p, n) \/ OpenNetwork(p, n) \/ Restart(p, n)
             \/ \E aside \in BOOLEAN : SetAside(p, n, aside)
      PROVE  Leaves
  <2>1. /\ UNCHANGED <<elsewhere, parting>>
        /\ held \subseteq held' /\ held' \subseteq held \cup {n}
        /\ \E from \in {running[p], running[p] \ {n}} : Reconciles(p, from)
    BY <1>4 DEF Gain, OpenNetwork, Restart, SetAside
  <2> QED
    BY <2>1, ReconcileTakesNone, KeepsFree DEF TypeOK
<1> QED
  BY <1>1, <1>2, <1>3, <1>4

\* A departure: asked about after its task is stopped, and deleted only if free.
LEMMA DepartureLeaves ==
    ASSUME TypeOK, Asked,
           \/ \E p \in Procs, n \in Networks : Depart(p, n)
           \/ StopParting \/ CheckParting \/ DeleteParting
    PROVE  Leaves
<1>1. ASSUME NEW p \in Procs, NEW n \in Networks, Depart(p, n) PROVE Leaves
  <2>1. /\ parting' = [by |-> p, net |-> n, step |-> "telling", taken |-> FALSE]
        /\ UNCHANGED <<held, serving, leaving>>
    BY <1>1 DEF Depart, tasks
  <2>2. parting' \in Partings /\ parting'.step = "telling"
    BY <2>1 DEF Partings
  <2> QED
    BY <2>1, <2>2 DEF Leaves, Asked, TypeOK
<1>2. CASE StopParting
  <2>1. /\ parting \in Partings
        /\ parting' = [parting EXCEPT !.step = "stopping"]
        /\ held' = held
        /\ \E p \in {parting.by}, n \in {parting.net} :
             /\ serving' = [serving EXCEPT ![p] = @ \ {n}]
             /\ leaving' = [leaving EXCEPT ![p] = @ \cup (serving[p] \cap {n})]
    BY <1>2 DEF StopParting, TypeOK
  <2>2. parting' \in Partings /\ parting'.step = "stopping"
    BY <2>1 DEF Partings
  <2>3. serving' \in [Procs -> SUBSET Networks] /\ leaving' \in [Procs -> SUBSET Networks]
    BY <2>1 DEF TypeOK, Partings
  <2> QED
    BY <2>1, <2>2, <2>3 DEF Leaves, Asked, TypeOK
<1>3. CASE CheckParting
  <2>1. /\ parting \in Partings
        /\ UNCHANGED <<held, serving, leaving, elsewhere>>
        /\ \/ parting' = None
           \/ ~ Served(parting.net) /\ parting' = [parting EXCEPT !.step = "deleting"]
    BY <1>3 DEF CheckParting, TypeOK, tasks, InUse
  <2>2. CASE parting' = None
    BY <2>1, <2>2, TasksKept, KeepsFree DEF TypeOK
  <2>3. CASE ~ Served(parting.net) /\ parting' = [parting EXCEPT !.step = "deleting"]
    <3>1. parting' \in Partings /\ parting'.net = parting.net
      BY <2>1, <2>3 DEF Partings
    <3>2. ~ Served(parting.net)'
      BY <2>1, <2>3, <3>1 DEF Served, HeldBy
    <3> QED
      BY <2>1, <3>1, <3>2 DEF Leaves, Asked, TypeOK
  <2> QED
    BY <2>1, <2>2, <2>3
<1>4. CASE DeleteParting
  BY <1>4 DEF DeleteParting, Leaves, Asked, TypeOK, tasks
<1> QED
  BY <1>1, <1>2, <1>3, <1>4

\* A claim that is taken on the store about to be deleted is remembered.
LEMMA TakenIsRemembered ==
    ASSUME TypeOK, Asked, NEW n \in Networks, Remembers(n),
           \A m \in Networks : Served(m)' => Served(m) \/ m = n
    PROVE  parting' \in Partings \cup {None} /\ Asked'
<1>1. CASE parting = None
  BY <1>1 DEF Remembers, Asked
<1>2. CASE parting # None
  <2>1. parting \in Partings
    BY <1>2 DEF TypeOK
  <2>2. CASE parting.net = n /\ parting.step = "deleting"
    <3>1. parting' = [parting EXCEPT !.taken = TRUE]
      BY <1>2, <2>2 DEF Remembers
    <3>2. parting' \in Partings /\ parting'.taken
      BY <2>1, <3>1 DEF Partings
    <3> QED
      BY <3>2 DEF Asked
  <2>3. CASE ~ (parting.net = n /\ parting.step = "deleting")
    <3>1. parting' = parting /\ parting.net \in Networks
      BY <2>1, <2>3 DEF Remembers, Partings
    <3> QED
      BY <2>1, <2>3, <3>1 DEF Asked
  <2> QED
    BY <2>2, <2>3
<1> QED
  BY <1>1, <1>2

\* Tasks, of this machine and others, that come and go.
LEMMA TaskLeaves ==
    ASSUME TypeOK, Asked, NEW n \in Networks,
           \/ \E p \in Procs : \/ Claim(p, n) \/ Refuse(p, n) \/ Release(p, n)
                               \/ TaskEnds(p, n) \/ Settle(p, n) \/ Due(p, n)
           \/ FallAsleep(n) \/ Elsewhere(n)
    PROVE  Leaves
<1>1. ASSUME NEW p \in Procs, Claim(p, n) PROVE Leaves
  <2>1. /\ serving' \in [Procs -> SUBSET Networks] /\ leaving' \in [Procs -> SUBSET Networks]
        /\ \A q \in Procs : /\ serving'[q] \subseteq serving[q] \cup {n}
                            /\ leaving'[q] \subseteq leaving[q] \cup {n}
    BY <1>1 DEF Claim, TypeOK
  <2>2. UNCHANGED <<held, elsewhere>> /\ Remembers(n)
    BY <1>1 DEF Claim
  <2>3. \A m \in Networks : Served(m)' => Served(m) \/ m = n
    BY <2>1, <2>2 DEF Served, HeldBy
  <2> QED
    BY <2>1, <2>2, <2>3, TakenIsRemembered DEF Leaves, TypeOK
<1>2. ASSUME NEW p \in Procs, Release(p, n) \/ TaskEnds(p, n) PROVE Leaves
  <2>1. NoClaimTaken /\ UNCHANGED <<held, elsewhere, parting>>
    BY <1>2 DEF Release, TaskEnds, TypeOK, NoClaimTaken
  <2> QED
    BY <2>1, KeepsFree DEF TypeOK
<1>3. ASSUME NEW p \in Procs, Refuse(p, n) \/ Settle(p, n) \/ Due(p, n) PROVE Leaves
  <2>1. UNCHANGED <<held, serving, leaving, elsewhere, parting>>
    BY <1>3 DEF Refuse, Settle, Due, tasks
  <2> QED
    BY <2>1, TasksKept, KeepsFree DEF TypeOK
<1>4. CASE FallAsleep(n)
  <2>1. UNCHANGED <<held, serving, leaving, elsewhere, parting>>
    BY <1>4 DEF FallAsleep, tasks
  <2> QED
    BY <2>1, TasksKept, KeepsFree DEF TypeOK
<1>5. CASE Elsewhere(n)
  <2>1. UNCHANGED <<held, serving, leaving>>
    BY <1>5 DEF Elsewhere, tasks
  <2>2. CASE n \in elsewhere
    <3>1. elsewhere' = elsewhere \ {n} /\ parting' = parting
      BY <1>5, <2>2 DEF Elsewhere
    <3>2. \A m : Served(m)' => Served(m)
      BY <2>1, <3>1 DEF Served, HeldBy
    <3> QED
      BY <2>1, <3>1, <3>2 DEF Leaves, Asked, TypeOK
  <2>3. CASE n \notin elsewhere
    <3>1. elsewhere' = elsewhere \cup {n} /\ Remembers(n)
      BY <1>5, <2>3 DEF Elsewhere
    <3>2. \A m \in Networks : Served(m)' => Served(m) \/ m = n
      BY <2>1, <3>1 DEF Served, HeldBy
    <3> QED
      BY <2>1, <3>1, <3>2, TakenIsRemembered DEF Leaves, TypeOK
  <2> QED
    BY <2>2, <2>3
<1> QED
  BY <1>1, <1>2, <1>3, <1>4, <1>5

\* Every step keeps what a departure was told, and deletes no store under a node.
LEMMA StepLeaves ==
    ASSUME TypeOK, Asked, [Next]_vars
    PROVE  Leaves
<1>1. CASE UNCHANGED vars
  <2>1. UNCHANGED <<held, serving, leaving, elsewhere, parting>>
    BY <1>1 DEF vars, tasks
  <2> QED
    BY <2>1, TasksKept, KeepsFree DEF TypeOK
<1>2. CASE Age
  <2>1. UNCHANGED <<held, serving, leaving, elsewhere, parting>>
    BY <1>2 DEF Age, tasks
  <2> QED
    BY <2>1, TasksKept, KeepsFree DEF TypeOK
<1> QED
  BY <1>1, <1>2, MemberLeaves, DepartureLeaves, TaskLeaves DEF Next

-----------------------------------------------------------------------------

\* Every step keeps the types.
LEMMA StepTypes ==
    ASSUME TypeOK, Asked, [Next]_vars
    PROVE  TypeOK' /\ Asked'
BY StageTypes, StepLeaves DEF TypeOK, Leaves

\* At first nothing is held by a task and no launch has asked.
LEMMA InitHolds == Init => TypeOK /\ Asked /\ Answered
<1> SUFFICES ASSUME Init PROVE TypeOK /\ Asked /\ Answered
  OBVIOUS
<1>1. TypeOK
  BY DEF Init, TypeOK, Empty, Stages
<1>2. Asked /\ Answered
  BY DEF Init, Asked, Answered, AskTaken, AskedIsAnswered
<1> QED
  BY <1>1, <1>2

\* What is held, and the places of launches, tasks and a departure, keep their types.
THEOREM Typed == Spec => []TypeOK
BY InitHolds, StepTypes, PTL DEF Spec

\* A second launch leaves in silence only when there is another that runs or is
\* about to, whatever the number of launches and whoever left the heartbeat behind
\* (hold_application asks, and does not believe a heartbeat).
THEOREM SilenceIsAnswered == Spec => []AskedIsAnswered
<1>1. Answered => AskedIsAnswered
  BY DEF Answered
<1> QED
  BY <1>1, InitHolds, StepTypes, StepAnswered, PTL DEF Spec

\* A store is deleted only while nobody serves it, or when its claim was taken in
\* the moment since the store was asked (forget_network stops its own task, waits
\* and asks before it deletes).
THEOREM NoneDeletedUnderNode == Spec => DeletedIsIdle
<1>1. TypeOK /\ Asked /\ [Next]_vars
        => [\A n \in held \ held' : Served(n) => parting.taken]_vars
  BY StepLeaves DEF Leaves
<1> QED
  BY <1>1, InitHolds, StepTypes, PTL DEF Spec, DeletedIsIdle
===============================================================================
