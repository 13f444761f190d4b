----------------------------- MODULE ReplicaProofs --------------------------
(***************************************************************************)
(* What a node keeps for its network: how it comes by it (Backfill) and how *)
(* it gives it up (Duty, here as D, with names of its own for what both     *)
(* call objects and start).                                                *)
(*                                                                         *)
(* Of Backfill, for any logs, any sealing, any order of names and any page: *)
(* its types, and that a chain marked whole is held to its start, with the *)
(* readings in it. Of Duty, for any nodes, objects, placement and ceilings: *)
(* that one node alone never loses the last copy of what it promised.       *)
(***************************************************************************)
EXTENDS Backfill, Promises, FiniteSetTheorems, WellFoundedInduction, TLAPS

Places == [step : Steps, todo : SUBSET Logs, at : Segments \cup {None},
           walked : SUBSET Segments, asked : BOOLEAN, again : BOOLEAN]

\* What is published, and what is known of it here, lies within each log.
TypeOK ==
    /\ pub \in [Logs -> Nat] /\ \A l \in Logs : pub[l] <= Length[l]
    /\ index \in [Logs -> Nat] /\ \A l \in Logs : index[l] <= Length[l]
    /\ pointers \in [Logs \X Sequences -> Nat]
    /\ \A l \in Logs, s \in Sequences : pointers[<<l, s>>] <= Length[l]
    /\ pass \in Places
    /\ links \subseteq Segments /\ channelled \subseteq Segments
    /\ whole \subseteq Segments /\ pinned \subseteq Segments

\* A pass has logs to walk only while it is under way, and they have a head.
Ready ==
    /\ pass.step = "idle" => pass.todo = {}
    /\ \A l \in pass.todo : index[l] > 0 /\ HeadOf(l).pub > 0

\* The segments a walk has taken in are of one log.
OneLog ==
    /\ \A s, t \in pass.walked : s.log = t.log
    /\ pass.step \in {"link", "tally"} =>
         pass.at # None /\ \A s \in pass.walked : s.log = pass.at.log

\* A segment with a link has its readings in the store.
LinkedIsStored == \A s \in links : Carried(s) \subseteq stored

\* What is marked whole is linked to its start.
WholeIsLinked == \A s \in whole : {s} \cup Behind(s) \subseteq links

(* The chain behind what a walk has taken in is linked but for what the    *)
(* walk has still before it. Without this WholeIsLinked does not follow    *)
(* from itself: the marks are written when the walk has forgotten how it    *)
(* came to its end.                                                        *)
Walked ==
    /\ pass.walked \subseteq links
    /\ pass.step = "link" =>
         \A s \in pass.walked : Behind(s) \subseteq links \cup {pass.at} \cup Behind(pass.at)
    /\ pass.step = "tally" =>
         /\ pass.at \in pass.walked
         /\ \A s \in pass.walked : Behind(s) \subseteq links \cup Behind(pass.at)
    /\ pass.step = "whole" =>
         \A s \in pass.walked : Behind(s) \subseteq links

Chained == Ready /\ OneLog /\ LinkedIsStored /\ WholeIsLinked /\ Walked

-----------------------------------------------------------------------------
(* Segments and sequences.                                                 *)

\* The segments are the publications, each of a log.
LEMMA SegmentsAre ==
    /\ \A l \in Logs : \A p \in 1..Length[l] : Segment(l, p) \in Segments
    /\ \A s \in Segments : /\ s.log \in Logs
                           /\ s.pub \in 1..Length[s.log]
                           /\ s = Segment(s.log, s.pub)
    /\ None \notin Segments
<1>1. \A l \in Logs : \A p \in 1..Length[l] : Segment(l, p) \in Segments
  BY DEF Segments, Pubs
<1>2. ASSUME NEW s \in Segments
      PROVE  s.log \in Logs /\ s.pub \in 1..Length[s.log] /\ s = Segment(s.log, s.pub)
  <2>1. \E l \in Logs : \E p \in 1..Length[l] : s = Segment(l, p)
    BY DEF Segments, Pubs
  <2> QED
    BY <2>1 DEF Segment
<1>3. None \notin Segments
  BY NoneAssumption DEF Objects
<1> QED
  BY <1>1, <1>2, <1>3

\* A publication's sequence is a number, and whole segments of it come before.
LEMMA SequenceBounds ==
    ASSUME NEW p \in Nat \ {0}
    PROVE  /\ SequenceOf(p) \in Nat
           /\ SequenceOf(p) * SealAt \in Nat
           /\ SequenceOf(p) * SealAt < p
           /\ SequenceOf(p) # 0 => SequenceOf(p) * SealAt \in Nat \ {0}
<1>1. /\ (p - 1) \div SealAt \in Int
      /\ SealAt * ((p - 1) \div SealAt) <= p - 1
      /\ p - 1 < SealAt * ((p - 1) \div SealAt) + SealAt
  BY SizesAssumption
<1> DEFINE n == (p - 1) \div SealAt
<1> HIDE DEF n
<1>2. n \in Int /\ SealAt * n <= p - 1 /\ p - 1 < SealAt * n + SealAt
  BY <1>1 DEF n
<1>3. n \in Nat
  BY <1>2, SizesAssumption
<1>4. n * SealAt \in Nat /\ n * SealAt < p /\ (n # 0 => n * SealAt # 0)
  BY <1>2, <1>3, SizesAssumption
<1> QED
  BY <1>3, <1>4 DEF SequenceOf, n

\* The last publication of a sealed segment is of that segment.
LEMMA SequenceOfSealed ==
    ASSUME NEW n \in Nat \ {0}
    PROVE  n * SealAt \in Nat \ {0} /\ SequenceOf(n * SealAt) = n - 1
<1>1. n * SealAt \in Nat \ {0}
  BY SizesAssumption
<1>2. (n * SealAt - 1) \div SealAt = n - 1
  BY SizesAssumption
<1> QED
  BY <1>1, <1>2 DEF SequenceOf

\* What is behind a segment is its predecessor and what is behind that.
LEMMA BehindPrevious ==
    ASSUME NEW s \in Segments, Previous(s) # None
    PROVE  /\ Previous(s) \in Segments
           /\ Previous(s).log = s.log
           /\ Behind(s) = {Previous(s)} \cup Behind(Previous(s))
<1> DEFINE n == SequenceOf(s.pub)
<1>1. s.log \in Logs /\ s.pub \in 1..Length[s.log] /\ Length[s.log] \in Nat
  BY SegmentsAre, SizesAssumption
<1>2. n \in Nat \ {0} /\ n * SealAt \in Nat \ {0} /\ n * SealAt < s.pub
  BY <1>1, SequenceBounds DEF Previous
<1>3. Previous(s) = Segment(s.log, n * SealAt)
  BY <1>2 DEF Previous
<1>4. Previous(s) \in Segments
  BY <1>1, <1>2, <1>3, SegmentsAre
<1>5. Previous(s).log = s.log /\ Previous(s).pub = n * SealAt
  BY <1>3 DEF Segment
<1>6. Behind(Previous(s)) = {Segment(s.log, k * SealAt) : k \in 1..(n - 1)}
  BY <1>2, <1>5, SequenceOfSealed DEF Behind
<1>7. 1..n = {n} \cup 1..(n - 1)
  BY <1>2
<1> HIDE DEF n
<1>8. Behind(s) = {Segment(s.log, k * SealAt) : k \in 1..n}
  BY DEF Behind, n
<1> QED
  BY <1>3, <1>4, <1>5, <1>6, <1>7, <1>8

\* Nothing is behind a segment without a predecessor.
LEMMA BehindFirst ==
    ASSUME NEW s \in Segments, Previous(s) = None
    PROVE  Behind(s) = {}
<1> DEFINE n == SequenceOf(s.pub)
<1>1. s.log \in Logs /\ s.pub \in 1..Length[s.log] /\ Length[s.log] \in Nat
  BY SegmentsAre, SizesAssumption
<1>2. n \in Nat /\ n * SealAt \in Nat /\ n * SealAt < s.pub /\ (n # 0 => n * SealAt # 0)
  BY <1>1, SequenceBounds
<1>3. n = 0
  <2>1. SUFFICES ASSUME n # 0 PROVE FALSE
    OBVIOUS
  <2>2. n * SealAt \in 1..Length[s.log]
    BY <1>1, <1>2, <2>1
  <2>3. Segment(s.log, n * SealAt) \in Segments
    BY <1>1, <2>2, SegmentsAre
  <2>4. Previous(s) = Segment(s.log, n * SealAt)
    BY <2>1 DEF Previous
  <2> QED
    BY <2>3, <2>4, SegmentsAre
<1> QED
  BY <1>3 DEF Behind

(* Which of several the model takes where the code takes the first or the  *)
(* last: there is one.                                                     *)
LessThan == {p \in Nat \X Nat : p[1] < p[2]}

\* A set of numbers that is not empty has a least element.
LEMMA Least ==
    ASSUME NEW T, T \subseteq Nat, T # {}
    PROVE  \E x \in T : \A y \in T : x <= y
<1>1. OpToRel(<, Nat) = LessThan
  BY Zenon DEF OpToRel, LessThan
<1>2. IsWellFoundedOn(LessThan, Nat)
  BY <1>1, NatLessThanWellFounded, Zenon
<1>3. PICK x \in T : \A y \in T : ~ (<<y, x>> \in LessThan)
  BY <1>2, WFMin, Zenon
<1>4. \A y \in T : ~ (y < x)
  BY <1>3 DEF LessThan
<1> QED
  BY <1>4

\* The walk of a log sets out from one that is left to walk.
LEMMA NextLog ==
    ASSUME NEW S, S \subseteq Logs, S # {}, \A l \in S : Length[l] > 0
    PROVE  (CHOOSE k \in S : \A m \in S : Rank[Index(k, 1)] <= Rank[Index(m, 1)]) \in S
<1> DEFINE r(l) == Rank[Index(l, 1)]
<1>1. \A l \in S : Index(l, 1) \in Objects
  BY SizesAssumption DEF Objects, Indices, Pubs
<1>2. \A l \in S : r(l) \in Nat
  BY <1>1, RankOrders
<1>3. PICK x \in {r(l) : l \in S} : \A y \in {r(l) : l \in S} : x <= y
  BY <1>2, Least
<1>4. PICK k \in S : x = r(k)
  OBVIOUS
<1> HIDE DEF r
<1>5. \A m \in S : r(k) <= r(m)
  BY <1>3, <1>4
<1>6. (CHOOSE j \in S : \A m \in S : r(j) <= r(m)) \in S
  BY <1>5
<1> QED
  BY <1>6 DEF r

\* Of segments of one log there is a last.
LEMMA LastOfWalk ==
    ASSUME NEW S, S \subseteq Segments, S # {}, \A s, t \in S : s.log = t.log
    PROVE  (CHOOSE t \in S : \A u \in S : u.pub <= t.pub) \in S
<1>1. PICK s \in S : TRUE
  OBVIOUS
<1> DEFINE n == Length[s.log]
           left(t) == n - t.pub
<1>2. n \in Nat
  BY SegmentsAre, SizesAssumption
<1>3. \A t \in S : t.pub \in 1..n
  BY SegmentsAre
<1> HIDE DEF n
<1>4. \A t \in S : left(t) \in Nat
  BY <1>2, <1>3
<1>5. PICK x \in {left(t) : t \in S} : \A y \in {left(t) : t \in S} : x <= y
  BY <1>1, <1>4, Least
<1>6. PICK t \in S : x = left(t)
  OBVIOUS
<1>7. \A u \in S : left(t) <= left(u)
  BY <1>5, <1>6
<1>8. \A u \in S : u.pub <= t.pub
  BY <1>2, <1>3, <1>7
<1> QED
  BY <1>8

-----------------------------------------------------------------------------
(* Types.                                                                  *)

\* The sequence of a publication of a log is one there is.
LEMMA SequencesAre ==
    ASSUME NEW l \in Logs, NEW p \in 1..Length[l]
    PROVE  SequenceOf(p) \in Sequences
BY DEF Sequences, Pubs

\* What a pull brings of a sequence was published.
LEMMA BroughtIsPublished ==
    ASSUME TypeOK, NEW l \in Logs, NEW s \in Sequences
    PROVE  Brought(l, s) \in Nat /\ Brought(l, s) <= Length[l]
<1>1. pub[l] \in Nat /\ pub[l] <= Length[l]
  BY DEF TypeOK
<1>2. s \in Nat
  <2>1. \E k \in Logs : \E p \in 1..Length[k] : s = SequenceOf(p)
    BY DEF Sequences, Pubs
  <2> QED
    BY <2>1, SequenceBounds, SizesAssumption
<1>3. (s + 1) * SealAt \in Nat
  BY <1>2, SizesAssumption
<1>4. Newest(l, s) \in Nat /\ Newest(l, s) <= pub[l]
  BY <1>1, <1>3 DEF Newest
<1> QED
  BY <1>1, <1>4, SizesAssumption DEF Brought

\* The head of a log that a pass can walk is a segment.
LEMMA HeadIsSegment ==
    ASSUME TypeOK, NEW l \in Logs, index[l] > 0, HeadOf(l).pub > 0
    PROVE  HeadOf(l) \in Segments /\ HeadOf(l).log = l
<1>1. index[l] \in 1..Length[l]
  BY SizesAssumption DEF TypeOK
<1>2. SequenceOf(index[l]) \in Sequences
  BY <1>1, SequencesAre
<1> DEFINE p == pointers[<<l, SequenceOf(index[l])>>]
<1>3. p \in Nat /\ p <= Length[l]
  BY <1>2 DEF TypeOK
<1>4. HeadOf(l) = Segment(l, p)
  BY DEF HeadOf
<1>5. p > 0
  BY <1>4 DEF Segment
<1> QED
  BY <1>3, <1>4, <1>5, SegmentsAre, SizesAssumption DEF Segment

\* No pass is a pass that has nothing to do.
LEMMA IdleIsPlace == Idle \in Places
BY DEF Idle, Places, Steps

\* A pass that begins has logs to walk, which have heads, and has taken nothing in.
LEMMA BeginsReady ==
    ASSUME NEW asked \in BOOLEAN, NEW again \in BOOLEAN,
           TypeOK, Begin(asked, again), UNCHANGED others
    PROVE  /\ pass' \in Places
           /\ pass'.step \in {"idle", "logs"}
           /\ pass'.walked = {}
           /\ \A l \in pass'.todo : index'[l] > 0 /\ HeadOf(l)'.pub > 0
<1> DEFINE logs == {l \in Logs : Walkable(l)'}
<1>1. pass' = IF logs = {} THEN Idle
              ELSE [Idle EXCEPT !.step = "logs", !.todo = logs,
                                !.asked = asked, !.again = again]
  BY DEF Begin
<1>2. \A l \in logs : index'[l] > 0 /\ HeadOf(l)'.pub > 0
  BY DEF Walkable, Opens
<1>3. logs \subseteq Logs
  OBVIOUS
<1> HIDE DEF logs
<1>4. CASE logs = {}
  BY <1>1, <1>4, IdleIsPlace DEF Idle
<1>5. CASE logs # {}
  BY <1>1, <1>2, <1>3, <1>5 DEF Idle, Places, Steps
<1> QED
  BY <1>4, <1>5

marks == <<links, channelled, whole, pinned>>

\* A step that leaves what is known of the logs alone, and every mark on a segment,
\* keeps the types if the pass keeps its own.
LEMMA PassTypes ==
    ASSUME TypeOK, Ready, UNCHANGED others,
           links' \subseteq Segments, channelled' \subseteq Segments,
           whole' \subseteq Segments, pinned' \subseteq Segments,
           pass' \in Places, pass'.todo \subseteq pass.todo,
           pass'.step = "idle" => pass'.todo = {}
    PROVE  TypeOK' /\ Ready'
<1>1. Ready'
  BY DEF Ready, HeadOf, others
<1> QED
  BY <1>1 DEF TypeOK, others

\* A step that leaves the marks and the pass alone too keeps them.
LEMMA RestTypes ==
    ASSUME TypeOK, Ready, UNCHANGED <<others, marks, pass>>
    PROVE  TypeOK' /\ Ready'
BY DEF TypeOK, Ready, HeadOf, others, marks

\* The beginning of a pass keeps them.
LEMMA BeginTypes ==
    ASSUME TypeOK, Ready, NEW asked \in BOOLEAN, NEW again \in BOOLEAN,
           Begin(asked, again), UNCHANGED <<others, marks>>
    PROVE  TypeOK' /\ Ready'
<1>1. /\ pass' \in Places
      /\ pass'.step \in {"idle", "logs"}
      /\ \A l \in pass'.todo : index'[l] > 0 /\ HeadOf(l)'.pub > 0
  BY BeginsReady
<1>2. pass'.step = "idle" => pass'.todo = {}
  BY DEF Begin, Idle
<1> QED
  BY <1>1, <1>2 DEF TypeOK, Ready, others, marks

\* What a pull brings is typed; it comes between passes.
LEMMA PullTypes ==
    ASSUME TypeOK, Ready, Pull
    PROVE  TypeOK' /\ Ready'
<1>1. pass.step = "idle" /\ pass' = pass /\ pass' \in Places /\ Ready'
  BY DEF Pull, IndexArrives, SegmentsArrive, TypeOK, Ready
<1>2. ASSUME NEW l \in Logs, IndexArrives(l) PROVE TypeOK'
  BY <1>1, <1>2 DEF IndexArrives, TypeOK, durable
<1>3. ASSUME NEW l \in Logs, SegmentsArrive(l) PROVE TypeOK'
  <2>1. \A k \in Logs, s \in Sequences :
           pointers'[<<k, s>>] = IF k = l THEN Brought(l, s) ELSE pointers[<<k, s>>]
    BY <1>3 DEF SegmentsArrive, PutPointers, TypeOK
  <2>2. pointers' = [ls \in Logs \X Sequences |->
                       IF ls[1] = l THEN Brought(l, ls[2]) ELSE pointers[ls]]
    BY <1>3 DEF SegmentsArrive, PutPointers, TypeOK
  <2>3. \A s \in Sequences : Brought(l, s) \in Nat /\ Brought(l, s) <= Length[l]
    BY BroughtIsPublished
  <2>4. /\ pointers' \in [Logs \X Sequences -> Nat]
        /\ \A k \in Logs, s \in Sequences : pointers'[<<k, s>>] <= Length[k]
    BY <2>1, <2>2, <2>3 DEF TypeOK
  <2> QED
    BY <1>1, <1>3, <2>4 DEF SegmentsArrive, TypeOK, durable
<1> QED
  BY <1>1, <1>2, <1>3 DEF Pull

\* The next log of a pass is one it has left to walk, and its head a segment.
LEMMA TakesHead ==
    ASSUME TypeOK, Ready, TakeLog
    PROVE  /\ pass'.at \in Segments
           /\ pass' = [pass EXCEPT !.step = "link", !.todo = pass'.todo,
                                   !.at = pass'.at, !.walked = {}]
           /\ pass'.todo \subseteq pass.todo
<1> DEFINE l == CHOOSE k \in pass.todo :
                   \A m \in pass.todo : Rank[Index(k, 1)] <= Rank[Index(m, 1)]
<1>1. pass.todo \subseteq Logs
  BY DEF TypeOK, Places
<1>2. \A k \in pass.todo : Length[k] > 0
  BY <1>1, SizesAssumption DEF Ready, TypeOK
<1>3. l \in pass.todo
  BY <1>1, <1>2, NextLog DEF TakeLog
<1>4. HeadOf(l) \in Segments
  BY <1>1, <1>3, HeadIsSegment DEF Ready
<1>5. pass' = [pass EXCEPT !.step = "link", !.todo = @ \ {l}, !.at = HeadOf(l), !.walked = {}]
  BY DEF TakeLog
<1> HIDE DEF l
<1> QED
  BY <1>4, <1>5 DEF TypeOK, Places

\* The end of a walk is a segment of those it has taken in.
LEMMA MarksWalked ==
    ASSUME TypeOK, OneLog, MarkWhole
    PROVE  \E s \in pass.walked :
             /\ whole' = whole \cup {s}
             /\ pass' = IF pass.walked = {s}
                        THEN [pass EXCEPT !.step = "logs", !.at = None, !.walked = {}]
                        ELSE [pass EXCEPT !.walked = @ \ {s}]
<1>1. pass.walked \subseteq Segments /\ pass.walked # {}
  BY DEF TypeOK, Places, MarkWhole
<1>2. (CHOOSE t \in pass.walked : \A u \in pass.walked : u.pub <= t.pub) \in pass.walked
  BY <1>1, LastOfWalk DEF OneLog
<1> QED
  BY <1>2 DEF MarkWhole

\* A pass has been asked for by somebody or by nobody.
LEMMA AskedIsBoolean == Asked \in BOOLEAN /\ Asked' \in BOOLEAN
BY DEF Asked

\* The steps of a walk move it among segments.
LEMMA WalkTypes ==
    ASSUME TypeOK, Ready, OneLog, Pass
    PROVE  TypeOK' /\ Ready'
<1>1. CASE TakeLog
  <2>1. pass' \in Places /\ pass'.step = "link"
    BY <1>1, TakesHead DEF TypeOK, Places, Steps
  <2> QED
    BY <1>1, <2>1, TakesHead, PassTypes DEF TakeLog, durable, TypeOK
<1>2. CASE WriteLink
  <2>1. pass.at \in Segments
    BY <1>2 DEF WriteLink, OneLog, TypeOK, Places
  <2>2. pass' = [pass EXCEPT !.step = "tally", !.walked = @ \cup {pass.at}]
    BY <1>2 DEF WriteLink
  <2>3. pass' \in Places /\ pass'.todo = pass.todo /\ pass'.step = "tally"
    BY <2>1, <2>2 DEF TypeOK, Places, Steps
  <2>4. links' \subseteq Segments /\ pinned' \subseteq Segments
    BY <1>2, <2>1 DEF WriteLink, TypeOK
  <2> QED
    BY <1>2, <2>3, <2>4, PassTypes DEF WriteLink, TypeOK
<1>3. CASE MoveTally
  <2>1. pass.at \in Segments
    BY <1>3 DEF MoveTally, OneLog, TypeOK, Places
  <2>2. CASE ChainEnds(pass.at)
    <3>1. pass' = [pass EXCEPT !.step = "whole"]
      BY <1>3, <2>2 DEF MoveTally
    <3>2. pass' \in Places /\ pass'.todo = pass.todo /\ pass'.step = "whole"
      BY <3>1 DEF TypeOK, Places, Steps
    <3> QED
      BY <1>3, <2>1, <3>2, PassTypes DEF MoveTally, TypeOK
  <2>3. CASE ~ChainEnds(pass.at)
    <3>1. Previous(pass.at) \in Segments
      BY <2>1, <2>3, BehindPrevious DEF ChainEnds
    <3>2. \/ pass' = [pass EXCEPT !.step = "link", !.at = Previous(pass.at)]
          \/ pass' = [pass EXCEPT !.step = "logs", !.at = None, !.walked = {}]
      BY <1>3, <2>3, Zenon DEF MoveTally
    <3>3. pass' \in Places /\ pass'.todo = pass.todo /\ pass'.step \in {"link", "logs"}
      BY <3>1, <3>2 DEF TypeOK, Places, Steps
    <3> QED
      BY <1>3, <2>1, <3>3, PassTypes DEF MoveTally, TypeOK
  <2> QED
    BY <2>2, <2>3
<1>4. CASE MarkWhole
  <2>1. PICK s \in pass.walked :
             /\ whole' = whole \cup {s}
             /\ pass' = IF pass.walked = {s}
                        THEN [pass EXCEPT !.step = "logs", !.at = None, !.walked = {}]
                        ELSE [pass EXCEPT !.walked = @ \ {s}]
    BY <1>4, MarksWalked
  <2>2. /\ pass.step = "whole"
        /\ \/ pass' = [pass EXCEPT !.step = "logs", !.at = None, !.walked = {}]
           \/ pass' = [pass EXCEPT !.walked = @ \ {s}]
    BY <1>4, <2>1 DEF MarkWhole
  <2>4. pass' \in Places /\ pass'.todo = pass.todo /\ pass'.step \in {"whole", "logs"}
    BY <2>2 DEF TypeOK, Places, Steps
  <2>3. whole' \subseteq Segments
    BY <2>1 DEF TypeOK, Places
  <2> QED
    BY <1>4, <2>3, <2>4, PassTypes DEF MarkWhole, TypeOK
<1>5. CASE EndPass
  BY <1>5, IdleIsPlace, PassTypes DEF EndPass, durable, TypeOK, Idle
<1> QED
  BY <1>1, <1>2, <1>3, <1>4, <1>5 DEF Pass

\* Every step keeps the types.
LEMMA StepTypes ==
    ASSUME TypeOK, Ready, OneLog, [Next]_vars
    PROVE  TypeOK' /\ Ready'
<1>1. CASE UNCHANGED vars
  BY <1>1, RestTypes DEF vars, others, marks
<1>2. ASSUME NEW l \in Logs, Publish(l) PROVE TypeOK' /\ Ready'
  <2>1. pub' \in [Logs -> Nat] /\ \A k \in Logs : pub'[k] <= Length[k]
    <3>1. pub' = [pub EXCEPT ![l] = @ + 1] /\ pub[l] < Length[l]
      BY <1>2 DEF Publish
    <3>2. pub \in [Logs -> Nat] /\ \A k \in Logs : pub[k] <= Length[k]
      BY DEF TypeOK
    <3>3. \A k \in Logs : pub'[k] = IF k = l THEN pub[l] + 1 ELSE pub[k]
      BY <3>1, <3>2
    <3>4. Length[l] \in Nat
      BY SizesAssumption
    <3>5. \A k \in Logs : pub'[k] <= Length[k]
      BY <3>1, <3>2, <3>3, <3>4
    <3> QED
      BY <3>1, <3>2, <3>5
  <2>2. Ready'
    BY <1>2 DEF Publish, Ready, HeadOf
  <2> QED
    BY <1>2, <2>1, <2>2 DEF Publish, TypeOK, durable
<1>3. CASE Pull
  BY <1>3, PullTypes
<1>4. CASE Tick
  BY <1>4, BeginTypes, AskedIsBoolean DEF Tick, durable, marks
<1>5. CASE FetchArrives
  BY <1>5, BeginTypes, AskedIsBoolean DEF FetchArrives, durable, marks
<1>6. CASE FetchFails
  BY <1>6, BeginTypes, AskedIsBoolean DEF FetchFails, durable, marks
<1>7. CASE Pass
  BY <1>7, WalkTypes
<1>8. ASSUME NEW c \in Channels, NEW r \in stored, FetchHistory(c, r)
      PROVE  TypeOK' /\ Ready'
  BY <1>8, RestTypes DEF FetchHistory, durable, marks
<1>9. ASSUME NEW c \in Watched, Ask(c) PROVE TypeOK' /\ Ready'
  BY <1>9, RestTypes DEF Ask, durable, marks
<1>10. CASE Turn
  BY <1>10, RestTypes DEF Turn, durable, marks
<1>11. CASE Die
  BY <1>11, IdleIsPlace, PassTypes DEF Die, durable, TypeOK, Idle
<1> QED
  BY <1>1, <1>2, <1>3, <1>4, <1>5, <1>6, <1>7, <1>8, <1>9, <1>10, <1>11 DEF Next

-----------------------------------------------------------------------------
(* What is walked.                                                         *)

\* A step that writes no mark keeps what is stored, linked and whole as it was.
LEMMA NothingMarked ==
    ASSUME LinkedIsStored, WholeIsLinked, UNCHANGED <<stored, links, whole>>
    PROVE  LinkedIsStored' /\ WholeIsLinked'
BY DEF LinkedIsStored, WholeIsLinked

\* A pass in which nothing has been taken in has nothing to show for it.
LEMMA NothingWalked ==
    ASSUME pass'.walked = {}, pass'.step \in {"idle", "logs"}
    PROVE  OneLog' /\ Walked'
BY DEF OneLog, Walked

\* A segment taken in is stored before it is linked, and the walk is ahead of it.
LEMMA LinkStored ==
    ASSUME TypeOK, OneLog, LinkedIsStored, WholeIsLinked, Walked, WriteLink
    PROVE  OneLog' /\ LinkedIsStored' /\ WholeIsLinked' /\ Walked'
<1> DEFINE s == pass.at
<1>1. s \in Segments /\ pass.step = "link"
  BY DEF WriteLink, OneLog, TypeOK, Places
<1>2. /\ links' = links \cup {s} /\ whole' = whole
      /\ stored' = IF HasLink(s) /\ pass.walked # {} THEN stored ELSE stored \cup Carried(s)
  BY DEF WriteLink
<1>3. pass'.step = "tally" /\ pass'.at = s /\ pass'.walked = pass.walked \cup {s}
  BY DEF WriteLink, TypeOK, Places
<1>4. LinkedIsStored'
  BY <1>2 DEF LinkedIsStored, HasLink
<1>5. WholeIsLinked'
  BY <1>2 DEF WholeIsLinked
<1> HIDE DEF s
<1>6. OneLog'
  <2>1. \A t \in pass.walked : t.log = s.log
    BY <1>1 DEF OneLog, s
  <2> QED
    BY <1>1, <1>3, <2>1, SegmentsAre DEF OneLog
<1>7. Walked'
  <2>1. \A t \in pass.walked : Behind(t) \subseteq links' \cup Behind(s)
    BY <1>1, <1>2 DEF Walked, s
  <2> QED
    BY <1>2, <1>3, <2>1 DEF Walked
<1> QED
  BY <1>4, <1>5, <1>6, <1>7

\* A walk ends at the start of a log or at what is whole, and otherwise goes on to
\* the predecessor: either way nothing behind what it has taken in is passed over.
LEMMA WalkGoesOn ==
    ASSUME TypeOK, OneLog, LinkedIsStored, WholeIsLinked, Walked, MoveTally
    PROVE  OneLog' /\ Walked'
<1> DEFINE s == pass.at
<1>1. s \in Segments /\ pass.step = "tally" /\ links' = links
  BY DEF MoveTally, OneLog, TypeOK, Places
<1>2. \A t \in pass.walked : Behind(t) \subseteq links \cup Behind(s)
  BY <1>1 DEF Walked
<1>3. CASE ChainEnds(s)
  <2>1. pass'.step = "whole" /\ pass'.walked = pass.walked
    BY <1>3 DEF MoveTally, TypeOK, Places
  <2>2. Behind(s) \subseteq links
    <3>1. CASE Previous(s) = None
      BY <1>1, <3>1, BehindFirst
    <3>2. CASE Previous(s) # None
      <4>1. Previous(s) \in whole
        BY <1>3, <3>2 DEF ChainEnds, ChainWhole
      <4>2. {Previous(s)} \cup Behind(Previous(s)) \subseteq links
        BY <4>1 DEF WholeIsLinked
      <4> QED
        BY <1>1, <3>2, <4>2, BehindPrevious
    <3> QED
      BY <3>1, <3>2
  <2> QED
    BY <1>1, <1>2, <2>1, <2>2 DEF OneLog, Walked
<1>4. CASE ~ChainEnds(s)
  <2>1. \/ pass' = [pass EXCEPT !.step = "link", !.at = Previous(s)]
        \/ pass' = [pass EXCEPT !.step = "logs", !.at = None, !.walked = {}]
    BY <1>4, Zenon DEF MoveTally
  <2>2. /\ Previous(s) \in Segments /\ Previous(s).log = s.log
        /\ Behind(s) = {Previous(s)} \cup Behind(Previous(s))
    BY <1>1, <1>4, BehindPrevious DEF ChainEnds
  <2>3. CASE pass' = [pass EXCEPT !.step = "link", !.at = Previous(s)]
    <3>1. pass'.step = "link" /\ pass'.at = Previous(s) /\ pass'.walked = pass.walked
      BY <2>3 DEF TypeOK, Places
    <3>2. \A t \in pass.walked : t.log = s.log
      BY <1>1 DEF OneLog
    <3> HIDE DEF s
    <3>3. OneLog'
      BY <2>2, <3>1, <3>2, SegmentsAre DEF OneLog
    <3>4. Walked'
      BY <1>1, <1>2, <2>2, <3>1 DEF Walked
    <3> QED
      BY <3>3, <3>4
  <2>4. CASE pass' = [pass EXCEPT !.step = "logs", !.at = None, !.walked = {}]
    BY <2>4, NothingWalked DEF TypeOK, Places
  <2> QED
    BY <2>1, <2>3, <2>4
<1> QED
  BY <1>3, <1>4

\* What is marked whole has been walked to its end.
LEMMA MarksHeld ==
    ASSUME TypeOK, OneLog, WholeIsLinked, Walked, MarkWhole
    PROVE  OneLog' /\ WholeIsLinked' /\ Walked'
<1>1. PICK s \in pass.walked :
           /\ whole' = whole \cup {s}
           /\ pass' = IF pass.walked = {s}
                      THEN [pass EXCEPT !.step = "logs", !.at = None, !.walked = {}]
                      ELSE [pass EXCEPT !.walked = @ \ {s}]
  BY MarksWalked
<1>2. pass.step = "whole" /\ links' = links
  BY DEF MarkWhole
<1>3. s \in links /\ Behind(s) \subseteq links
  BY <1>2 DEF Walked
<1>4. WholeIsLinked'
  BY <1>1, <1>2, <1>3 DEF WholeIsLinked
<1>5. \/ pass'.walked = {} /\ pass'.step = "logs"
      \/ pass'.walked = pass.walked \ {s} /\ pass'.step = "whole"
  BY <1>1, <1>2 DEF TypeOK, Places
<1>6. OneLog' /\ Walked'
  BY <1>2, <1>5 DEF OneLog, Walked
<1> QED
  BY <1>4, <1>6

\* Every step keeps the chains.
LEMMA StepChained ==
    ASSUME TypeOK, Chained, [Next]_vars
    PROVE  TypeOK' /\ Chained'
<1> USE DEF Chained
<1>1. TypeOK' /\ Ready'
  BY StepTypes
<1> DEFINE Goal == OneLog' /\ LinkedIsStored' /\ WholeIsLinked' /\ Walked'
<1> SUFFICES Goal
  BY <1>1
<1>2. ASSUME UNCHANGED <<stored, links, whole, pass>> PROVE Goal
  BY <1>2, NothingMarked DEF OneLog, Walked
<1>3. ASSUME NEW asked \in BOOLEAN, NEW again \in BOOLEAN, Begin(asked, again),
             UNCHANGED <<others, stored, links, whole>>
      PROVE  Goal
  BY <1>3, BeginsReady, NothingMarked, NothingWalked
<1>4. CASE UNCHANGED vars
  BY <1>2, <1>4 DEF vars
<1>5. ASSUME NEW l \in Logs, Publish(l) \/ IndexArrives(l) \/ SegmentsArrive(l) PROVE Goal
  BY <1>2, <1>5 DEF Publish, IndexArrives, SegmentsArrive, durable
<1>6. CASE Tick \/ FetchArrives \/ FetchFails
  BY <1>3, <1>6, AskedIsBoolean DEF Tick, FetchArrives, FetchFails, durable
<1>7. CASE TakeLog
  <2>1. pass'.step = "link" /\ pass'.walked = {} /\ pass'.at \in Segments
    BY <1>7, TakesHead DEF TypeOK, Places
  <2>2. OneLog' /\ Walked'
    BY <2>1, SegmentsAre DEF OneLog, Walked
  <2> QED
    BY <1>7, <2>2, NothingMarked DEF TakeLog, durable
<1>8. CASE WriteLink
  BY <1>8, LinkStored
<1>9. CASE MoveTally
  BY <1>9, WalkGoesOn, NothingMarked DEF MoveTally
<1>10. CASE MarkWhole
  <2>1. LinkedIsStored'
    BY <1>10 DEF MarkWhole, LinkedIsStored
  <2> QED
    BY <1>10, <2>1, MarksHeld
<1>11. CASE EndPass \/ Die
  BY <1>11, NothingMarked, NothingWalked DEF EndPass, Die, durable, Idle
<1>12. ASSUME \/ \E c \in Channels, r \in stored : FetchHistory(c, r)
              \/ \E c \in Watched : Ask(c)
              \/ Turn
       PROVE  Goal
  BY <1>2, <1>12 DEF FetchHistory, Ask, Turn, durable
<1> QED
  BY <1>4, <1>5, <1>6, <1>7, <1>8, <1>9, <1>10, <1>11, <1>12 DEF Next, Pull, Pass

\* Nothing is held at first.
LEMMA InitChained == Init => TypeOK /\ Chained
<1> SUFFICES ASSUME Init PROVE TypeOK /\ Chained
  OBVIOUS
<1>1. pass \in Places
  BY IdleIsPlace DEF Init
<1>2. TypeOK
  BY <1>1, SizesAssumption DEF Init, TypeOK
<1>3. Chained
  BY DEF Init, Idle, Chained, Ready, OneLog, LinkedIsStored, WholeIsLinked, Walked
<1> QED
  BY <1>2, <1>3

\* Publications, pointers, the pass and the marks keep their types.
THEOREM Typed == Spec => []TypeOK
BY InitChained, StepChained, PTL DEF Spec

\* What is marked whole is held to its start, with its readings, whatever the node
\* dies in the middle of and however the logs are cut into segments (absorb_chain
\* marks a walk whole only when it has come to the start of the log or to a segment
\* so marked).
THEOREM WholeHeld == Spec => []WholeIsHeld
<1>1. TypeOK /\ Chained => WholeIsHeld
  BY DEF Chained, LinkedIsStored, WholeIsLinked, WholeIsHeld
<1> QED
  BY <1>1, InitChained, StepChained, PTL DEF Spec

-----------------------------------------------------------------------------
(* Duty.                                                                   *)

CONSTANTS
    Copies, NetworkOf, DiskOf, Placement, Age, Size, Factor, Offered, SafeHolders,
    Ceilings, AtFirst, Unknown, Ceiling, MaxSettings, MaxMishaps
VARIABLES
    stubs, linked, repair, wanted, heard, records, offers, ledger, ceiling, shared, disk,
    gone, settings, mishaps

D == INSTANCE Duty WITH Objects <- Copies, Start <- AtFirst

\* An instance has the library's operators under names of its own.
LEMMA SameSets ==
    \A S : /\ D!Cardinality(S) = Cardinality(S)
           /\ D!IsFiniteSet(S) <=> IsFiniteSet(S)
BY Zenon DEF D!Cardinality, Cardinality, D!IsFiniteSet, IsFiniteSet

\* Whoever has an object, or had it and gave it up.
Has(m, o) == o \in held[m] \/ m \in gaveUp[o]

\* Where a manifest is left by itself the rest was given up.
Types ==
    /\ held \in [Nodes -> SUBSET Copies] /\ stubs \in [Nodes -> SUBSET Copies]
    /\ \A n \in Nodes : \A o \in stubs[n] : n \in gaveUp[o]
    /\ dropped \in [Nodes -> SUBSET Copies]
    /\ DOMAIN risk = Nodes /\ \A n \in Nodes : DOMAIN risk[n] = D!Here(n)
    /\ gaveUp \in [Copies -> SUBSET Nodes]
    /\ records \in [Copies -> SUBSET Nodes]
    /\ offers \subseteq Nodes /\ ledger \in [Nodes -> SUBSET Nodes]

\* A record names who has the object, or gave it up; and so did whoever an answer
\* counted besides the node that asked.
Recorded == \A o \in Copies : \A m \in records[o] : Has(m, o)
Told ==
    /\ DOMAIN heard = Nodes /\ \A n \in Nodes : DOMAIN heard[n] = D!Here(n)
    /\ \A n \in Nodes : \A o \in D!Here(n) : heard[n][o] # Unknown =>
         /\ heard[n][o] \in Int
         /\ heard[n][o] > 0 => \E m \in Nodes \ {n} : Has(m, o)

Known == Types /\ Recorded /\ Told

LEMMA InitKnown == ASSUME D!Arranged, D!Init PROVE Known
<1>1. Types
  BY DEF D!Arranged, D!Init, Types
<1>2. Recorded
  BY DEF D!Arranged, D!Init, Recorded, Has
<1>3. Told
  BY DEF D!Init, Told
<1> QED
  BY <1>1, <1>2, <1>3 DEF Known

\* Nothing but a tick takes an object from anybody, and it says who gave it up.
HeldOn == \A m \in Nodes : \A o \in Copies : Has(m, o) => Has(m, o)'

LEMMA StandsOn == ASSUME Known, HeldOn, records' = records, heard' = heard
                  PROVE  Recorded' /\ Told'
<1>1. \A o \in Copies : \A m \in records[o] : m \in Nodes /\ Has(m, o)'
  BY DEF Known, Types, Recorded, HeldOn
<1>2. \A n \in Nodes : \A o \in D!Here(n) : o \in Copies
  BY DEF D!Here
<1>3. \A n \in Nodes : \A o \in D!Here(n) : heard[n][o] # Unknown =>
        heard[n][o] \in Int /\ (heard[n][o] > 0 => \E m \in Nodes \ {n} : Has(m, o)')
  BY <1>2 DEF Known, Told, HeldOn
<1> QED
  BY <1>1, <1>3 DEF Recorded, Told, Known

\* A copy is safe to give up when there is another.
LEMMA SafeHasOther ==
    ASSUME D!Arranged, Known, NEW n \in Nodes, NEW o \in D!Here(n), D!Safe(n, o)
    PROVE  \E m \in Nodes \ {n} : Has(m, o)
<1>1. IsFiniteSet(ledger[n] \ {n})
  BY SameSets, FS_Subset DEF D!Arranged, Known, Types
<1>2. Cardinality(ledger[n] \ {n}) \in Nat /\ SafeHolders \in Nat
  BY <1>1, FS_CardinalityType DEF D!Arranged
<1>3. D!Enough(n) \in Nat
  <2> DEFINE rest == Cardinality(ledger[n] \ {n})
  <2>1. \E x \in {SafeHolders, rest} : \A y \in {SafeHolders, rest} : x <= y
    BY <1>2
  <2>2. D!Min({SafeHolders, rest}) \in {SafeHolders, rest}
    <3> HIDE DEF rest
    <3> QED
      BY <2>1, Zenon DEF D!Min
  <2> QED
    BY <1>2, <2>2, SameSets DEF D!Enough
<1>4. heard[n][o] # Unknown /\ heard[n][o] >= D!Enough(n) /\ D!Enough(n) > 0
  BY DEF D!Safe
<1>5. heard[n][o] \in Int
  BY <1>4 DEF Known, Told
<1>6. heard[n][o] > 0
  BY <1>3, <1>4, <1>5
<1> QED
  BY <1>4, <1>6 DEF Known, Told

\* What shedding does, whether it comes to its end or not: what is lost is given up,
\* and what was promised, or had been at risk for a week, is accounted for.
Sheds(n, lost) ==
    /\ held' = [held EXCEPT ![n] = held[n] \ lost]
    /\ stubs' \in [Nodes -> SUBSET Copies]
    /\ \A m \in Nodes : stubs'[m] \subseteq stubs[m] \cup IF m = n THEN lost ELSE {}
    /\ gaveUp' = [o \in Copies |-> IF o \in lost THEN gaveUp[o] \cup {n} ELSE gaveUp[o]]
    /\ dropped' \in [Nodes -> SUBSET Copies]
    /\ \A m \in Nodes : dropped[m] \subseteq dropped'[m]
    /\ DOMAIN risk' = Nodes /\ DOMAIN risk'[n] = D!Here(n)
    /\ \A m \in Nodes \ {n} : risk'[m] = risk[m]
    /\ \A o \in D!Here(n) : (o \in lost /\ o \in duty[n]) \/ risk[n][o] = "week" =>
         D!Safe(n, o) \/ o \in dropped'[n] \/ risk'[n][o] = "week"
    /\ UNCHANGED <<offers, ledger>>

\* A mark a week old stays, unless it is removed or others hold the object.
LEMMA MarksStay ==
    ASSUME NEW n, NEW reached, NEW removed
    PROVE  /\ DOMAIN D!Marked(n, reached, removed) = D!Here(n)
           /\ \A o \in D!Here(n) : risk[n][o] = "week" =>
                D!Marked(n, reached, removed)[o] = "week" \/ o \in removed \/ D!Safe(n, o)
BY DEF D!Marked

\* Cached copies are no promises, and a promise is given up for one of two reasons.
LEMMA ShedIs ==
    ASSUME Types, NEW n \in Nodes, NEW over
    PROVE  /\ \A o \in D!Shed(n, over).cache : o \in Copies /\ o \notin duty[n]
           /\ \A o \in D!Shed(n, over).given :
                o \in Copies /\ (D!Safe(n, o) \/ D!Lapsed(n, o))
<1>1. \A c : \A o \in D!CacheShed(n, c) : o \in Copies /\ o \notin duty[n]
  BY DEF D!CacheShed, D!Oldest, D!Manifests, Types
<1>2. \A c : \A o \in D!DutyShed(n, c) : o \in Copies /\ (D!Safe(n, o) \/ D!Lapsed(n, o))
  BY DEF D!DutyShed, D!Oldest, D!Manifests, Types
<1>3. \E c : D!Shed(n, over).cache = D!CacheShed(n, c)
  BY DEF D!Shed
<1>4. \E c : D!Shed(n, over).given = D!DutyShed(n, c)
  BY DEF D!Shed
<1> QED
  BY <1>1, <1>2, <1>3, <1>4

LEMMA TickSheds ==
    ASSUME Types, NEW n \in Nodes, D!Tick(n)
    PROVE  UNCHANGED <<records, heard>> /\ \E lost : Sheds(n, lost)
<1> DEFINE look == D!Looked(n)
           shed == D!Shed(n, D!OverBy(look))
           lost == shed.cache \cup shed.given
           used == D!Max({0, look.used - D!Bytes(n, lost)})
           now  == D!Evaluated(n, D!Manifests(n) \ lost, duty[n] \ lost,
                             D!Room(n, duty[n] \ lost, look, used))
<1>1. /\ \A o \in shed.cache : o \in Copies /\ o \notin duty[n]
      /\ \A o \in shed.given : o \in Copies
  BY ShedIs
<1>2. /\ held' = [held EXCEPT ![n] = held[n] \ lost]
      /\ stubs' = [stubs EXCEPT ![n] = stubs[n] \ lost]
      /\ gaveUp' = [o \in Copies |-> IF o \in lost THEN gaveUp[o] \cup {n} ELSE gaveUp[o]]
      /\ dropped' = [dropped EXCEPT ![n] = dropped[n] \cup {o \in shed.given : ~D!Safe(n, o)}]
      /\ risk' = [risk EXCEPT ![n] = D!Marked(n, shed.reached, shed.given)]
  <2>1. D!Settled(n, look, shed, lost, used, now)
    BY Zenon DEF D!Tick
  <2> HIDE DEF look, shed, lost, used, now
  <2> QED
    BY <2>1 DEF D!Settled, D!GivenUp
<1>3. UNCHANGED <<records, heard, offers, ledger>>
  BY DEF D!Tick, D!outside
<1> HIDE DEF look, shed, used, now
<1>4. \A o \in D!Here(n) : (o \in lost /\ o \in duty[n]) \/ risk[n][o] = "week" =>
        D!Safe(n, o) \/ o \in dropped'[n] \/ risk'[n][o] = "week"
  BY <1>1, <1>2, MarksStay DEF Types
<1>5. Sheds(n, lost)
  BY <1>1, <1>2, <1>3, <1>4, MarksStay DEF Sheds, Types
<1> QED
  BY <1>3, <1>5

\* A tick cut short has written down what it lost before, and has not yet removed the
\* mark of what it was about to write down.
LEMMA CutSheds ==
    ASSUME Types, NEW n \in Nodes, D!CutShort(n)
    PROVE  \E lost : Sheds(n, lost)
<1>1. \E over : \E o \in D!Shed(n, over).cache \cup D!Shed(n, over).given, step \in 1..6 :
        D!CutOff(n, D!Shed(n, over), o, step)
  BY Zenon DEF D!CutShort
<1>11. PICK over :
         \E o \in D!Shed(n, over).cache \cup D!Shed(n, over).given, step \in 1..6 :
           D!CutOff(n, D!Shed(n, over), o, step)
  BY <1>1, Zenon
<1>12. PICK o \in D!Shed(n, over).cache \cup D!Shed(n, over).given, step \in 1..6 :
         D!CutOff(n, D!Shed(n, over), o, step)
  BY <1>11, Zenon
<1> DEFINE shed == D!Shed(n, over)
           done == IF o \in shed.cache THEN D!Older(o, shed.cache)
                   ELSE shed.cache \cup D!Older(o, shed.given)
           Past(file) == IF step >= D!Order[file] THEN done \cup {o} ELSE done
           lost == done \cup {o}
           reached == IF o \in shed.cache THEN {} ELSE {o} \cup D!Older(o, shed.reached)
<1>2. /\ \A p \in shed.cache : p \in Copies /\ p \notin duty[n]
      /\ \A p \in shed.given : p \in Copies /\ (D!Safe(n, p) \/ D!Lapsed(n, p))
  BY ShedIs
<1>3. /\ held' = [held EXCEPT ![n] = held[n] \ Past("chunks")]
      /\ stubs' = [stubs EXCEPT ![n] = (stubs[n] \cup Past("chunks")) \ Past("manifest")]
      /\ gaveUp' = [p \in Copies |->
                      IF p \in Past("chunks") THEN gaveUp[p] \cup {n} ELSE gaveUp[p]]
      /\ dropped' = [dropped EXCEPT ![n] =
                       dropped[n] \cup {p \in Past("record") \cap shed.given : ~D!Safe(n, p)}]
      /\ risk' = [risk EXCEPT ![n] = D!Marked(n, reached, Past("mark") \cap shed.given)]
  BY <1>12, Zenon DEF D!CutOff, D!GivenUp
<1> HIDE DEF shed
<1>4. /\ Past("chunks") = lost /\ done \subseteq Past("record")
      /\ Past("mark") \subseteq Past("record")
  BY DEF D!Order
<1>5. lost \subseteq shed.cache \cup shed.given
  BY <1>12 DEF shed, D!Older
<1>6. UNCHANGED <<offers, ledger>>
  BY DEF D!CutShort, D!outside
<1> HIDE DEF done, Past, reached
<1>7. \A p \in D!Here(n) : risk[n][p] = "week" =>
        D!Safe(n, p) \/ p \in dropped'[n] \/ risk'[n][p] = "week"
  BY <1>3, <1>4, MarksStay DEF Types
<1>8. \A p \in D!Here(n) : p \in lost /\ p \in duty[n] =>
        D!Safe(n, p) \/ p \in dropped'[n] \/ risk[n][p] = "week"
  BY <1>2, <1>5 DEF D!Lapsed
<1>9. stubs' \in [Nodes -> SUBSET Copies] /\ dropped' \in [Nodes -> SUBSET Copies]
  BY <1>2, <1>3, <1>4, <1>5 DEF Types
<1>10. Sheds(n, lost)
  <2>1. \A p \in D!Here(n) : (p \in lost /\ p \in duty[n]) \/ risk[n][p] = "week" =>
          D!Safe(n, p) \/ p \in dropped'[n] \/ risk'[n][p] = "week"
    BY <1>7, <1>8
  <2>2. /\ DOMAIN risk' = Nodes /\ DOMAIN risk'[n] = D!Here(n)
        /\ \A m \in Nodes \ {n} : risk'[m] = risk[m]
    BY <1>3, MarksStay DEF Types
  <2>3. /\ \A m \in Nodes : dropped[m] \subseteq dropped'[m]
        /\ \A m \in Nodes : stubs'[m] \subseteq stubs[m] \cup IF m = n THEN lost ELSE {}
    BY <1>3, <1>4 DEF Types
  <2> HIDE DEF lost
  <2> QED
    BY <1>3, <1>4, <1>6, <1>9, <2>1, <2>2, <2>3 DEF Sheds
<1> QED
  BY <1>10

\* What is shed is held on to by what is known of who had it.
LEMMA ShedTypes ==
    ASSUME Types, NEW n \in Nodes, NEW lost, Sheds(n, lost),
           records' \in [Copies -> SUBSET Nodes]
    PROVE  HeldOn /\ Types'
<1>1. HeldOn
  BY DEF HeldOn, Has, Types, Sheds
<1>2. held' \in [Nodes -> SUBSET Copies] /\ gaveUp' \in [Copies -> SUBSET Nodes]
  BY DEF Types, Sheds
<1>3. \A m \in Nodes : DOMAIN risk'[m] = D!Here(m)
  BY DEF Types, Sheds
<1>4. \A m \in Nodes : \A o \in stubs'[m] : m \in gaveUp'[o]
  <2>1. \A m \in Nodes : \A o \in stubs'[m] : o \in Copies
    BY DEF Sheds
  <2> QED
    BY <2>1 DEF Types, Sheds
<1> QED
  BY <1>1, <1>2, <1>3, <1>4 DEF Types, Sheds

LEMMA TickKnown == ASSUME Known, NEW n \in Nodes, D!Tick(n) PROVE Known'
<1>1. UNCHANGED <<records, heard>> /\ \E lost : Sheds(n, lost)
  BY TickSheds DEF Known
<1>2. HeldOn /\ Types'
  BY <1>1, ShedTypes DEF Known, Types
<1> QED
  BY <1>1, <1>2, StandsOn DEF Known

\* A start announces what there are manifests of, and knows no answers.
LEMMA StartKnown ==
    ASSUME Known, HeldOn, NEW n \in Nodes, D!StartsAgain(n),
           records' \in [Copies -> SUBSET Nodes] => Types'
    PROVE  Known'
<1>1. /\ heard' = [heard EXCEPT ![n] = [o \in D!Here(n) |-> Unknown]]
      /\ records' = [o \in Copies |->
                       IF o \in held'[n] \cup stubs'[n] THEN records[o] \cup {n} ELSE records[o]]
  BY DEF D!StartsAgain, D!Manifests
<1>2. Types'
  BY <1>1 DEF Known, Types
<1>3. Recorded'
  <2>1. \A o \in Copies : \A m \in records[o] : m \in Nodes /\ Has(m, o)'
    BY DEF Known, Types, Recorded, HeldOn
  <2>2. \A o \in Copies : o \in held'[n] \cup stubs'[n] => Has(n, o)'
    BY <1>2 DEF Types, Has
  <2> QED
    BY <1>1, <2>1, <2>2 DEF Recorded
<1>4. Told'
  <2>1. \A m \in Nodes : \A o \in D!Here(m) : o \in Copies
    BY DEF D!Here
  <2>2. /\ DOMAIN heard' = Nodes /\ \A m \in Nodes : DOMAIN heard'[m] = D!Here(m)
        /\ \A m \in Nodes : \A o \in D!Here(m) : heard'[m][o] \in {heard[m][o], Unknown}
    BY <1>1 DEF Known, Told
  <2> QED
    BY <2>1, <2>2 DEF Known, Told, HeldOn
<1> QED
  BY <1>2, <1>3, <1>4 DEF Known

\* The other steps; an answer counts records, and records are made of what is held.
LEMMA HearKnown ==
    ASSUME D!Arranged, Known, NEW n \in Nodes, NEW o \in D!Here(n), D!Hear(n, o) PROVE Told'
<1>1. PICK missed \in Nat : heard' = [heard EXCEPT ![n][o] = Cardinality(D!Others(n, o)) - missed]
  <2>1. \A bound : \A missed \in 0..bound : missed \in Nat
    OBVIOUS
  <2> QED
    BY <2>1, SameSets DEF D!Hear
<1>2. held' = held /\ gaveUp' = gaveUp
  BY DEF D!Hear, D!files
<1>3. o \in Copies /\ D!Others(n, o) \subseteq Nodes \ {n}
  BY DEF D!Here, D!Others, Known, Types
<1>4. Cardinality(D!Others(n, o)) \in Nat
  <2>1. IsFiniteSet(D!Others(n, o))
    BY <1>3, SameSets, FS_Subset DEF D!Arranged
  <2> QED
    BY <2>1, FS_CardinalityType
<1>5. Cardinality(D!Others(n, o)) > 0 => \E m \in Nodes \ {n} : Has(m, o)
  <2>1. D!Others(n, o) = {} => Cardinality(D!Others(n, o)) = 0
    BY FS_EmptySet
  <2> QED
    BY <1>3, <2>1 DEF Known, Recorded, D!Others
<1>6. /\ DOMAIN heard' = Nodes /\ \A m \in Nodes : DOMAIN heard'[m] = D!Here(m)
      /\ \A m \in Nodes : \A p \in D!Here(m) :
           heard'[m][p] = IF m = n /\ p = o THEN Cardinality(D!Others(n, o)) - missed
                          ELSE heard[m][p]
  BY <1>1 DEF Known, Told
<1> QED
  BY <1>2, <1>4, <1>5, <1>6 DEF Known, Told, Has

\* To forget an answer is to claim nothing.
LEMMA Forgets ==
    ASSUME Known, held' = held, gaveUp' = gaveUp,
           DOMAIN heard' = Nodes, \A n \in Nodes : DOMAIN heard'[n] = D!Here(n),
           \A n \in Nodes : \A o \in D!Here(n) : heard'[n][o] \in {heard[n][o], Unknown}
    PROVE  Told'
BY DEF Known, Told, Has

LEMMA KnownStep == ASSUME D!Arranged, Known, [D!Next]_D!vars PROVE Known'
<1>1. ASSUME NEW n \in Nodes, D!Tick(n) PROVE Known'
  BY <1>1, TickKnown
<1>2. ASSUME NEW n \in Nodes, D!Restart(n) PROVE Known'
  <2>1. UNCHANGED <<held, stubs, risk, dropped, gaveUp, offers, ledger>> /\ D!StartsAgain(n)
    BY <1>2 DEF D!Restart, D!files, D!outside
  <2>2. HeldOn /\ (records' \in [Copies -> SUBSET Nodes] => Types')
    BY <2>1 DEF HeldOn, Has, Known, Types
  <2> QED
    BY <2>1, <2>2, StartKnown
<1>13. ASSUME NEW n \in Nodes, D!CutShort(n) PROVE Known'
  <2>1. PICK lost : Sheds(n, lost)
    BY <1>13, CutSheds DEF Known
  <2>2. D!StartsAgain(n)
    BY <1>13 DEF D!CutShort
  <2>3. records' \in [Copies -> SUBSET Nodes]
    BY <2>2 DEF D!StartsAgain, Known, Types
  <2>4. HeldOn /\ Types'
    BY <2>1, <2>3, ShedTypes DEF Known
  <2> QED
    BY <2>2, <2>4, StartKnown
<1>3. ASSUME NEW n \in Nodes, D!Lose(n) PROVE Known'
  BY <1>3 DEF D!Lose, D!files, Known, Types, Recorded, Told, Has
<1>4. ASSUME NEW n \in Nodes, NEW o \in D!Here(n), D!Hear(n, o) PROVE Known'
  <2>1. Types' /\ Recorded'
    BY <1>4 DEF D!Hear, D!files, D!outside, Known, Types, Recorded, Has
  <2> QED
    BY <1>4, <2>1, HearKnown DEF Known
<1>5. ASSUME NEW n \in Nodes, NEW o \in D!Here(n), D!Stale(n, o) PROVE Known'
  <2>1. Types' /\ Recorded'
    BY <1>5 DEF D!Stale, D!files, D!outside, Known, Types, Recorded, Has
  <2>2. Told'
    BY <1>5, Forgets DEF D!Stale, D!files, Known, Told
  <2> QED
    BY <2>1, <2>2 DEF Known
<1>6. ASSUME NEW n \in Nodes, NEW o \in D!Here(n), D!Fetch(n, o) PROVE Known'
  <2>1. /\ held' = [held EXCEPT ![n] = held[n] \cup {o}]
        /\ records' = [records EXCEPT ![o] = records[o] \cup {n}]
        /\ UNCHANGED <<stubs, risk, dropped, gaveUp, heard, offers, ledger>>
    BY <1>6 DEF D!Fetch, D!outside
  <2>2. o \in Copies
    BY DEF D!Here
  <2>3. Types' /\ Recorded'
    BY <2>1, <2>2 DEF Known, Types, Recorded, Has
  <2>4. Told'
    BY <2>1, <2>2 DEF Known, Types, Told, Has
  <2> QED
    BY <2>3, <2>4 DEF Known
<1>7. ASSUME NEW n \in Nodes, NEW o \in D!Here(n), D!PinAges(n, o) PROVE Known'
  BY <1>7 DEF D!PinAges, D!outside, Known, Types, Recorded, Told, Has
<1>8. ASSUME NEW o \in Copies, D!RecordAges(o) PROVE Known'
  BY <1>8 DEF D!RecordAges, D!files, D!outside, Known, Types, Recorded, Told, Has
<1>9. ASSUME NEW n \in Nodes, D!SyncLedger(n) PROVE Known'
  BY <1>9 DEF D!SyncLedger, D!files, Known, Types, Recorded, Told, Has
<1>10. ASSUME NEW d \in D!Disks, D!MeasureAges(d) \/ \E c \in Ceilings : D!SetCeiling(d, c)
       PROVE  Known'
  BY <1>10 DEF D!MeasureAges, D!SetCeiling, D!files, D!outside, Known, Types, Recorded, Told, Has
<1>11. ASSUME D!WeekPasses PROVE Known'
  <2>1. Types' /\ Recorded'
    BY <1>11 DEF D!WeekPasses, D!outside, Known, Types, Recorded, Has
  <2>2. Told'
    BY <1>11, Forgets DEF D!WeekPasses
  <2> QED
    BY <2>1, <2>2 DEF Known
<1>12. ASSUME UNCHANGED D!vars PROVE Known'
  BY <1>12 DEF D!vars, Known, Types, Recorded, Told, Has
<1> QED
  BY <1>1, <1>2, <1>3, <1>4, <1>5, <1>6, <1>7, <1>8, <1>9, <1>10, <1>11, <1>12, <1>13
     DEF D!Next, D!Census, D!Spreads

\* What is promised, or gone, stays accounted for.
Kept(n) == \A o \in D!Here(n) :
    (o \in duty[n] \/ o \notin held[n]) /\ Accounted(n, o) => Accounted(n, o)'

\* Whoever sheds accounts for it; what others were counted on for, they had.
LEMMA ShedKeeps ==
    ASSUME D!Arranged, Known, NEW k \in Nodes, NEW lost, Sheds(k, lost), NEW n \in Nodes
    PROVE  Kept(n)
<1> SUFFICES ASSUME NEW o \in D!Here(n), o \in duty[n] \/ o \notin held[n], Accounted(n, o)
             PROVE  Accounted(n, o)'
  BY DEF Kept
<1>1. o \in Copies
  BY DEF D!Here
<1>2. \A m \in Nodes : Has(m, o) => Has(m, o)'
  BY <1>1 DEF Has, Known, Types, Sheds
<1>3. CASE \E m \in Nodes \ {n} : Has(m, o)
  BY <1>2, <1>3 DEF Accounted, Has
<1>4. CASE n # k
  BY <1>2, <1>4 DEF Accounted, Has, Known, Types, Sheds
<1>5. CASE n = k /\ ~\E m \in Nodes \ {n} : Has(m, o)
  <2>1. ~D!Safe(n, o)
    BY <1>5, SafeHasOther
  <2>2. CASE o \in held[n] /\ o \notin lost
    BY <1>5, <2>2 DEF Accounted, Known, Types, Sheds
  <2>3. CASE (o \in held[n] /\ o \in lost) \/ risk[n][o] = "week"
    BY <1>5, <2>1, <2>3 DEF Accounted, Sheds
  <2>4. CASE o \in dropped[n]
    BY <2>4 DEF Accounted, Sheds
  <2> QED
    BY <1>5, <2>2, <2>3, <2>4 DEF Accounted, Has
<1> QED
  BY <1>3, <1>4, <1>5

\* Any other step takes no bytes, no record and no mark that is a week old.
Leaves ==
    /\ \A n \in Nodes : held[n] \subseteq held'[n] /\ dropped' = dropped /\ gaveUp' = gaveUp
    /\ \A n \in Nodes : \A o \in D!Here(n) : risk[n][o] = "week" => risk'[n][o] = "week"

LEMMA OthersLeave ==
    ASSUME Known, [D!Next]_D!vars, ~\E n \in Nodes : D!Tick(n) \/ D!CutShort(n)
    PROVE  Leaves
<1>1. CASE UNCHANGED <<held, risk, dropped, gaveUp>>
  BY <1>1 DEF Leaves
<1>2. CASE D!WeekPasses
  BY <1>2 DEF D!WeekPasses, Leaves
<1>3. CASE \E n \in Nodes : \E o \in D!Here(n) : D!Fetch(n, o)
  BY <1>3 DEF D!Fetch, Leaves, Known, Types
<1> QED
  BY <1>1, <1>2, <1>3
  DEF D!Next, D!vars, D!files, D!Census, D!Spreads, D!Restart, D!Lose, D!Hear, D!Stale, D!PinAges,
      D!RecordAges, D!SyncLedger, D!MeasureAges, D!SetCeiling

LEMMA StepKeeps ==
    ASSUME D!Arranged, Known, [D!Next]_D!vars, NEW n \in Nodes PROVE Kept(n)
<1>1. CASE \E k \in Nodes : \E lost : Sheds(k, lost)
  BY <1>1, ShedKeeps
<1>2. CASE Leaves
  BY <1>2 DEF Leaves, Kept, Accounted
<1> QED
  BY <1>1, <1>2, TickSheds, CutSheds, OthersLeave DEF Known

\* One node over its ceiling never loses the last copy of what it promised by itself
\* and without a trace (see NoSilentLoss), whatever others missed, gave up or took with
\* them, and after whichever file it is killed.
THEOREM LossIsTraced == ASSUME D!Arranged PROVE D!Spec => NoSilentLoss
<1>1. D!Init => Known
  BY InitKnown
<1>2. Known /\ [D!Next]_D!vars => Known'
  BY KnownStep
<1>3. Known /\ [D!Next]_D!vars =>
        \A n \in Nodes : \A o \in DOMAIN risk[n] :
          (o \in duty[n] \/ o \notin held[n]) /\ Accounted(n, o) => Accounted(n, o)'
  BY StepKeeps DEF Kept, Known, Types
<1> QED
  BY <1>1, <1>2, <1>3, PTL DEF D!Spec, NoSilentLoss
=============================================================================
