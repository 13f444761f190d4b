-------------------------- MODULE ProjectionProofs --------------------------
(***************************************************************************)
(* What of Projection holds for every set of records, of handles and of    *)
(* limits: its types; that calls which do not overlap hide no record; and  *)
(* that they implement ChannelIndex, the incremental rules of verdict.rs   *)
(* being those of limits.rs for records decided in their order.            *)
(***************************************************************************)
EXTENDS Projection, FiniteSetTheorems, WellFoundedInduction, TLAPS

\* What the type of a handle's local state depends on: where the handle is.
PlaceOK == \A h \in Handles :
    /\ at[h] = "named" => local[h].put \in Ids
    /\ at[h] \in FoldPlaces => local[h].under \in LimitsSet

TypeInv == TypeOK /\ PlaceOK

-----------------------------------------------------------------------------
(* Facts about the operators.                                              *)

\* A finite set of ids has a listing, and it is a sequence that names exactly them.
LEMMA ListingNames ==
    ASSUME NEW S \in SUBSET Ids
    PROVE  /\ Listing(S) \in Seq(Ids)
           /\ {Listing(S)[n] : n \in 1..Len(Listing(S))} = S
<1>1. IsFiniteSet(S)
  BY IdsFinite, FS_Subset
<1>2. Cardinality(S) \in Nat
  BY <1>1, FS_CardinalityType
<1>3. \E f \in [1..Cardinality(S) -> S] : {f[n] : n \in 1..Cardinality(S)} = S
  <2>1. PICK f : f \in Bijection(1..Cardinality(S), S)
    BY <1>1, FS_CardinalityType DEF ExistsBijection
  <2>2. f \in [1..Cardinality(S) -> S] /\ \A t \in S : \E n \in 1..Cardinality(S) : f[n] = t
    BY <2>1 DEF Bijection, Injection, Surjection
  <2> QED
    BY <2>2
<1>4. /\ Listing(S) \in [1..Cardinality(S) -> S]
      /\ {Listing(S)[n] : n \in 1..Cardinality(S)} = S
  BY <1>3, Zenon DEF Listing
<1>5. Listing(S) \in Seq(S) /\ Len(Listing(S)) = Cardinality(S)
  BY <1>2, <1>4
<1> QED
  BY <1>4, <1>5

\* A decision is a verdict, whatever the rows and the limits are.
LEMMA DecideIsVerdict ==
    ASSUME NEW id, NEW table, NEW under
    PROVE  Decide(id, table, under) \in Verdicts
BY Zenon DEF Decide, Verdicts

\* What a table is, without its union.
LEMMA TableType ==
    ASSUME NEW t
    PROVE  t \in Tables <=> /\ DOMAIN t \in SUBSET Ids
                            /\ t \in [DOMAIN t -> Verdicts]
BY DEF Tables

\* No rows is a table, and so is a table with one more record decided.
LEMMA NoRowsIsTable == NoRows \in Tables
<1>1. DOMAIN NoRows = {} /\ NoRows \in [{} -> Verdicts]
  BY DEF NoRows
<1> QED
  BY <1>1, TableType

\* A table with one more record decided is one.
LEMMA TableExtends ==
    ASSUME NEW t \in Tables, NEW id \in Ids, NEW v \in Verdicts
    PROVE  [row \in DOMAIN t \cup {id} |-> IF row = id THEN v ELSE t[row]] \in Tables
<1> DEFINE u == [row \in DOMAIN t \cup {id} |-> IF row = id THEN v ELSE t[row]]
<1>1. DOMAIN t \in SUBSET Ids /\ t \in [DOMAIN t -> Verdicts]
  BY TableType
<1>2. DOMAIN u \in SUBSET Ids /\ u \in [DOMAIN u -> Verdicts]
  BY <1>1
<1> QED
  BY <1>2, TableType

-----------------------------------------------------------------------------
(* Types.                                                                  *)

\* A handle that moves to a place with a local state fit for it leaves every
\* handle so.
LEMMA GotoTypes ==
    ASSUME TypeInv, NEW h \in Handles, NEW place \in Places, NEW carrying \in Locals,
           Goto(h, place, carrying),
           place = "named" => carrying.put \in Ids,
           place \in FoldPlaces => carrying.under \in LimitsSet
    PROVE  at' \in [Handles -> Places] /\ local' \in [Handles -> Locals] /\ PlaceOK'
<1>1. at \in [Handles -> Places] /\ local \in [Handles -> Locals]
  BY DEF TypeInv, TypeOK
<1>2. at' \in [Handles -> Places] /\ local' \in [Handles -> Locals]
  BY <1>1 DEF Goto
<1>3. \A k \in Handles : /\ at'[k] = IF k = h THEN place ELSE at[k]
                         /\ local'[k] = IF k = h THEN carrying ELSE local[k]
  BY <1>1 DEF Goto
<1>4. PlaceOK'
  BY <1>3 DEF PlaceOK, TypeInv
<1> QED
  BY <1>2, <1>4

\* A handle that does nothing carries a local state.
LEMMA BlankIsLocal == Blank \in Locals
BY DEF Blank, Locals, Nothing, Totals

\* The types hold at first.
LEMMA InitTypes == Init => TypeInv
<1> SUFFICES ASSUME Init PROVE TypeInv
  OBVIOUS
<1>1. at \in [Handles -> Places] /\ local \in [Handles -> Locals]
  BY BlankIsLocal DEF Init, Places
<1>2. crashes \in [put : 0..MaxPutCrashes, fold : 0..MaxFoldCrashes] /\ retunes \in 0..MaxRetunes
  BY BoundsAreNat DEF Init
<1>3. arrivals \in Seq(Ids)
  BY DEF Init
<1>4. TypeOK
  BY <1>1, <1>2, <1>3, NoRowsIsTable DEF Init, TypeOK
<1>5. PlaceOK
  BY DEF Init, PlaceOK, FoldPlaces, Places
<1> QED
  BY <1>4, <1>5 DEF TypeInv

\* A write keeps them.
LEMMA PutTypes ==
    ASSUME TypeInv, NEW h \in Handles, Put(h)
    PROVE  TypeInv'
<1> USE DEF store, index, bounds
<1>1. CASE PutName(h)
  <2>1. PICK id \in Ids \ stored :
            /\ arrivals' = Append(arrivals, id)
            /\ Goto(h, "named", [Blank EXCEPT !.put = id])
    BY <1>1 DEF PutName
  <2>2. [Blank EXCEPT !.put = id] \in Locals /\ [Blank EXCEPT !.put = id].put = id
    BY <2>1, BlankIsLocal DEF Blank, Locals
  <2>3. at' \in [Handles -> Places] /\ local' \in [Handles -> Locals] /\ PlaceOK'
    BY <2>1, <2>2, GotoTypes DEF Places, FoldPlaces
  <2>4. arrivals' \in Seq(Ids)
    BY <2>1 DEF TypeInv, TypeOK
  <2> QED
    BY <1>1, <2>3, <2>4 DEF PutName, TypeInv, TypeOK
<1>2. CASE PutFile(h)
  <2>1. at' \in [Handles -> Places] /\ local' \in [Handles -> Locals] /\ PlaceOK'
    BY <1>2, BlankIsLocal, GotoTypes DEF PutFile, Places, FoldPlaces
  <2>2. stored' \in SUBSET Ids
    BY <1>2 DEF PutFile, TypeInv, TypeOK, PlaceOK
  <2> QED
    BY <1>2, <2>1, <2>2 DEF PutFile, TypeInv, TypeOK
<1> QED
  BY <1>1, <1>2 DEF Put

\* The local states a load starts with and inserts its way through.
LEMMA BeginIsLocal ==
    ASSUME NEW u \in LimitsSet, NEW b \in Totals, NEW n \in Nat, NEW s \in BOOLEAN
    PROVE  [Blank EXCEPT !.under = u, !.base = b, !.announced = n, !.stale = s] \in Locals
BY DEF Blank, Locals

\* An insertion leaves a local state.
LEMMA InsertIsLocal ==
    ASSUME NEW my \in Locals, NEW id, NEW n \in {0, 1}
    PROVE  /\ [my EXCEPT !.todo = @ \ {id}] \in Locals
           /\ [my EXCEPT !.todo = @ \ {id}].under = my.under
           /\ [my EXCEPT !.todo = @ \ {id}, !.added = @ + 1, !.authors = @ + n] \in Locals
           /\ [my EXCEPT !.todo = @ \ {id}, !.added = @ + 1, !.authors = @ + n].under
                  = my.under
<1>1. /\ my.todo \ {id} \in SUBSET Ids
      /\ my.added + 1 \in Nat /\ my.authors + n \in Nat
  BY DEF Locals
<1> QED
  BY <1>1 DEF Locals

\* The totals a load starts from.
LEMMA BaseTypes ==
    ASSUME TypeInv
    PROVE  (IF folded = Nobody THEN Nothing ELSE folded.totals) \in Totals
BY DEF TypeInv, TypeOK, Nothing, Totals, FoldRows

\* What the end of a load writes is a folds row.
LEMMA FoldEndRow ==
    ASSUME TypeInv, NEW h \in Handles, FoldEnd(h)
    PROVE  folded' \in FoldRows
<1> DEFINE my   == local[h]
           base == IF my.stale THEN Nothing ELSE my.base
<1>1. my \in Locals /\ my.under \in LimitsSet
  BY DEF TypeInv, TypeOK, PlaceOK, FoldEnd, FoldPlaces, Places
<1>2. base \in Totals
  BY <1>1 DEF Locals, Nothing, Totals
<1>3. [consumed |-> IF my.stale THEN Len(arrivals) ELSE my.announced,
       records |-> base.records + my.added,
       authors |-> base.authors + my.authors] \in Totals
  <2>1. /\ my.added \in Nat /\ my.authors \in Nat /\ my.announced \in Nat
        /\ Len(arrivals) \in Nat
    BY <1>1 DEF Locals, TypeInv, TypeOK
  <2>2. base.records \in Nat /\ base.authors \in Nat
    BY <1>2 DEF Totals
  <2> HIDE DEF base
  <2> QED
    BY <2>1, <2>2 DEF Totals
<1> QED
  BY <1>1, <1>3 DEF FoldEnd, FoldRows

\* Every step of a load keeps the types.
LEMMA LoadTypes ==
    ASSUME TypeInv, NEW h \in Handles, Load(h)
    PROVE  TypeInv'
<1> USE DEF store, index, bounds
<1>1. local[h] \in Locals /\ (at[h] \in FoldPlaces => local[h].under \in LimitsSet)
  BY DEF TypeInv, TypeOK, PlaceOK
<1>2. CASE LoadBegin(h)
  <2> DEFINE base  == IF folded = Nobody THEN Nothing ELSE folded.totals
             stale == folded # Nobody /\ folded.under # limits
             next  == [Blank EXCEPT !.under = limits, !.base = base,
                          !.announced = Len(arrivals), !.stale = stale]
  <2>1. CASE shown' = rows /\ UNCHANGED <<at, local>>
    BY <1>2, <2>1 DEF LoadBegin, TypeInv, TypeOK, PlaceOK
  <2>2. CASE Goto(h, "tail", next) /\ UNCHANGED shown
    <3>1. next \in Locals /\ next.under = limits
      <4>1. base \in Totals /\ stale \in BOOLEAN
        BY BaseTypes
      <4>2. limits \in LimitsSet /\ Len(arrivals) \in Nat
        BY DEF TypeInv, TypeOK
      <4> HIDE DEF base, stale
      <4> QED
        BY <4>1, <4>2, BeginIsLocal DEF Blank
    <3>2. limits \in LimitsSet
      BY DEF TypeInv, TypeOK
    <3>3. at' \in [Handles -> Places] /\ local' \in [Handles -> Locals] /\ PlaceOK'
      BY <2>2, <3>1, <3>2, GotoTypes DEF Places, FoldPlaces
    <3> QED
      BY <1>2, <2>2, <3>3 DEF LoadBegin, TypeInv, TypeOK
  <2> QED
    BY <1>2, <2>1, <2>2 DEF LoadBegin
<1>3. CASE LoadTail(h)
  <2>1. Missing(h) \in SUBSET Ids
    BY DEF Missing, TypeInv, TypeOK
  <2>2. /\ [local[h] EXCEPT !.stale = TRUE] \in Locals
        /\ [local[h] EXCEPT !.stale = TRUE].under = local[h].under
        /\ [local[h] EXCEPT !.todo = Missing(h)] \in Locals
        /\ [local[h] EXCEPT !.todo = Missing(h)].under = local[h].under
    BY <1>1, <2>1 DEF Locals
  <2>3. local[h].under \in LimitsSet
    BY <1>1, <1>3 DEF LoadTail, FoldPlaces, Places
  <2>4. at' \in [Handles -> Places] /\ local' \in [Handles -> Locals] /\ PlaceOK'
    BY <1>3, <2>2, <2>3, GotoTypes DEF LoadTail, Places, FoldPlaces
  <2> QED
    BY <1>3, <2>4 DEF LoadTail, TypeInv, TypeOK
<1>4. CASE ForgetRows(h) \/ ForgetFold(h)
  <2>1. at' \in [Handles -> Places] /\ local' \in [Handles -> Locals] /\ PlaceOK'
    BY <1>1, <1>4, GotoTypes DEF ForgetRows, ForgetFold, Places, FoldPlaces
  <2> QED
    BY <1>4, <2>1, NoRowsIsTable DEF ForgetRows, ForgetFold, TypeInv, TypeOK
<1>5. CASE RebuildList(h) \/ RefoldRead(h)
  <2>1. /\ [local[h] EXCEPT !.todo = stored] \in Locals
        /\ [local[h] EXCEPT !.todo = stored].under = local[h].under
    BY <1>1 DEF Locals, TypeInv, TypeOK
  <2>2. at' \in [Handles -> Places] /\ local' \in [Handles -> Locals] /\ PlaceOK'
    BY <1>1, <1>5, <2>1, GotoTypes DEF RebuildList, RefoldRead, Places, FoldPlaces
  <2> QED
    BY <1>5, <2>2 DEF RebuildList, RefoldRead, TypeInv, TypeOK
<1>6. CASE RebuildReplace(h)
  <2>1. at' \in [Handles -> Places] /\ local' \in [Handles -> Locals] /\ PlaceOK'
    BY <1>1, <1>6, GotoTypes DEF RebuildReplace, Places, FoldPlaces
  <2>2. arrivals' \in Seq(Ids)
    BY <1>1, <1>6, ListingNames DEF RebuildReplace, Locals
  <2> QED
    BY <1>6, <2>1, <2>2 DEF RebuildReplace, TypeInv, TypeOK
<1>7. CASE Insert(h)
  <2>1. PICK id \in local[h].todo :
            \/ /\ Goto(h, "insert", [local[h] EXCEPT !.todo = @ \ {id}])
               /\ UNCHANGED rows
            \/ /\ rows' = [row \in DOMAIN rows \cup {id} |->
                              IF row = id THEN Decide(id, rows, local[h].under)
                                          ELSE rows[row]]
               /\ \E n \in {0, 1} :
                    Goto(h, "insert", [local[h] EXCEPT !.todo = @ \ {id},
                                          !.added = @ + 1, !.authors = @ + n])
    BY <1>7, <1>1 DEF Insert, Locals
  <2>2. id \in Ids /\ local[h].under \in LimitsSet
    BY <1>1, <1>7 DEF Locals, Insert, FoldPlaces, Places
  <2>3. \A n \in {0, 1} :
             /\ [local[h] EXCEPT !.todo = @ \ {id}] \in Locals
             /\ [local[h] EXCEPT !.todo = @ \ {id}].under = local[h].under
             /\ [local[h] EXCEPT !.todo = @ \ {id}, !.added = @ + 1,
                                 !.authors = @ + n] \in Locals
             /\ [local[h] EXCEPT !.todo = @ \ {id}, !.added = @ + 1,
                                 !.authors = @ + n].under = local[h].under
    BY <1>1, InsertIsLocal
  <2>4. at' \in [Handles -> Places] /\ local' \in [Handles -> Locals] /\ PlaceOK'
    BY <2>1, <2>2, <2>3, GotoTypes DEF Places, FoldPlaces
  <2>5. rows' \in Tables
    <3>1. rows \in Tables
      BY DEF TypeInv, TypeOK
    <3>2. Decide(id, rows, local[h].under) \in Verdicts
      BY DecideIsVerdict
    <3> QED
      BY <2>1, <2>2, <3>1, <3>2, TableExtends
  <2> QED
    BY <1>7, <2>4, <2>5 DEF Insert, TypeInv, TypeOK
<1>8. CASE FoldEnd(h)
  <2>1. at' \in [Handles -> Places] /\ local' \in [Handles -> Locals] /\ PlaceOK'
    BY <1>8, BlankIsLocal, GotoTypes DEF FoldEnd, Places, FoldPlaces
  <2> QED
    BY <1>8, <2>1, FoldEndRow DEF FoldEnd, TypeInv, TypeOK
<1> QED
  BY <1>2, <1>3, <1>4, <1>5, <1>6, <1>7, <1>8 DEF Load

\* So do deaths and changes of the limits.
LEMMA AroundTypes ==
    ASSUME TypeInv,
           Retune \/ \E h \in Handles : PutCrash(h) \/ FoldCrash(h)
    PROVE  TypeInv'
<1> USE BoundsAreNat DEF store, index, bounds
<1>1. CASE Retune
  BY <1>1 DEF Retune, TypeInv, TypeOK, PlaceOK
<1>2. ASSUME NEW h \in Handles, PutCrash(h) \/ FoldCrash(h)
      PROVE  TypeInv'
  <2>1. at' \in [Handles -> Places] /\ local' \in [Handles -> Locals] /\ PlaceOK'
    BY <1>2, BlankIsLocal, GotoTypes DEF PutCrash, FoldCrash, Places, FoldPlaces
  <2>2. crashes' \in [put : 0..MaxPutCrashes, fold : 0..MaxFoldCrashes]
    BY <1>2 DEF PutCrash, FoldCrash, TypeInv, TypeOK
  <2> QED
    BY <1>2, <2>1, <2>2 DEF PutCrash, FoldCrash, TypeInv, TypeOK
<1> QED
  BY <1>1, <1>2

\* Every step keeps the types (see Typed).
LEMMA TypesKept == TypeInv /\ [Next]_vars => TypeInv'
<1> SUFFICES ASSUME TypeInv, [Next]_vars PROVE TypeInv'
  OBVIOUS
<1>1. CASE Next
  BY <1>1, PutTypes, LoadTypes, AroundTypes DEF Next
<1>2. CASE UNCHANGED vars
  BY <1>2 DEF vars, TypeInv, TypeOK, PlaceOK
<1> QED
  BY <1>1, <1>2

\* The variables only ever hold what TypeOK says, however many handles, records
\* and limits there are and however their steps interleave.
THEOREM Typed == Spec => []TypeOK
<1>1. TypeInv => TypeOK
  BY DEF TypeInv
<1> QED
  BY <1>1, TypesKept, InitTypes, PTL DEF Spec

-----------------------------------------------------------------------------
(* Calls that do not overlap.  A handle is in a call while it is not idle; *)
(* a lock on the store would make Exclusive true of every state.           *)

Exclusive == \A h, k \in Handles : at[h] # "idle" /\ at[k] # "idle" => h = k

Ahead(id) == \E n \in (Consumed + 1)..Len(arrivals) : arrivals[n] = id

\* Between two calls, and until a load that has begun changes the index, every
\* record with a file is a row or named ahead; a load carries what it needs to
\* leave things so when it ends.
Covered ==
    /\ Consumed <= Len(arrivals)
    /\ (\A h \in Handles : at[h] \in {"idle", "named", "tail"}) =>
           \A id \in stored : id \in DOMAIN rows \/ Ahead(id)
    /\ \A h \in Handles :
           /\ at[h] = "named" => Ahead(local[h].put)
           /\ at[h] = "tail" => /\ local[h].base.consumed = Consumed
                                /\ local[h].announced = Len(arrivals)
           /\ at[h] \in {"forget", "unfold", "list", "replace", "read"} => local[h].stale
           /\ at[h] \in {"list", "replace"} => folded = Nobody
           /\ at[h] = "insert" =>
                 /\ stored \subseteq DOMAIN rows \cup local[h].todo
                 /\ ~local[h].stale => local[h].announced <= Len(arrivals)

\* Every record with a file is named in the log, and so is one whose file a write
\* in progress is about to make; a rebuild replaces the log by all of them.
Recoverable ==
    /\ StoredIsNamed
    /\ \A h \in Handles :
           /\ at[h] = "named" => \E n \in 1..Len(arrivals) : arrivals[n] = local[h].put
           /\ at[h] = "replace" => local[h].todo = stored

\* A call in progress moves one handle, and finds and leaves the others idle.
LEMMA OneMoves ==
    ASSUME TypeOK, Exclusive, Exclusive', NEW h \in Handles, NEW place, NEW carrying,
           Goto(h, place, carrying), at[h] # "idle" \/ place # "idle"
    PROVE  /\ at'[h] = place /\ local'[h] = carrying
           /\ \A k \in Handles : k # h => at[k] = "idle" /\ at'[k] = "idle"
<1>1. \A k \in Handles : /\ at'[k] = IF k = h THEN place ELSE at[k]
                         /\ local'[k] = IF k = h THEN carrying ELSE local[k]
  BY DEF Goto, TypeOK
<1> QED
  BY <1>1 DEF Exclusive

\* A write leaves no record out of reach.
LEMMA PutCovers ==
    ASSUME TypeInv, Covered, Exclusive, Exclusive', NEW h \in Handles, Put(h)
    PROVE  Covered'
<1> USE DEF store, index, bounds
<1>1. CASE PutName(h)
  <2>1. PICK id \in Ids : /\ arrivals' = Append(arrivals, id)
                          /\ Goto(h, "named", [Blank EXCEPT !.put = id])
                          /\ UNCHANGED <<stored, rows, folded>>
                          /\ at[h] = "idle"
    BY <1>1 DEF PutName
  <2>2. /\ at'[h] = "named" /\ local'[h].put = id
        /\ \A k \in Handles : k # h => at[k] = "idle" /\ at'[k] = "idle"
    BY <2>1, OneMoves DEF TypeInv, Blank
  <2>3. arrivals \in Seq(Ids) /\ Consumed \in Nat /\ Consumed' = Consumed
    BY <2>1 DEF TypeInv, TypeOK, Consumed, Totals, FoldRows
  <2>4. /\ Len(arrivals') = Len(arrivals) + 1
        /\ arrivals'[Len(arrivals) + 1] = id
        /\ \A n \in 1..Len(arrivals) : arrivals'[n] = arrivals[n]
    BY <2>1, <2>3
  <2>5. \A other : Ahead(other) => Ahead(other)'
    BY <2>3, <2>4 DEF Ahead
  <2>6. Ahead(id)'
    BY <2>3, <2>4 DEF Ahead, Covered
  <2> QED
    BY <2>1, <2>2, <2>3, <2>4, <2>5, <2>6 DEF Covered
<1>2. CASE PutFile(h)
  <2>1. /\ at'[h] = "idle"
        /\ \A k \in Handles : k # h => at[k] = "idle" /\ at'[k] = "idle"
    BY <1>2, OneMoves DEF PutFile, TypeInv
  <2>2. Consumed' = Consumed /\ \A other : Ahead(other) => Ahead(other)'
    BY <1>2 DEF PutFile, Consumed, Ahead
  <2>3. PICK put : put = local[h].put
    OBVIOUS
  <2>4. Ahead(put)' /\ stored' = stored \cup {put}
    BY <1>2, <2>2, <2>3 DEF PutFile, Covered
  <2> QED
    BY <1>2, <2>1, <2>2, <2>4 DEF PutFile, Covered
<1> QED
  BY <1>1, <1>2 DEF Put

\* Nor does a step of a load.
LEMMA LoadCovers ==
    ASSUME TypeInv, Covered, Exclusive, Exclusive', NEW h \in Handles, Load(h)
    PROVE  Covered'
<1> USE DEF store, index, bounds
<1>1. local[h] \in Locals /\ Consumed \in Nat /\ arrivals \in Seq(Ids)
  BY DEF TypeInv, TypeOK, Consumed, Totals, FoldRows
<1>2. CASE LoadBegin(h)
  <2>1. Consumed' = Consumed /\ \A other : Ahead(other) <=> Ahead(other)'
    BY <1>2 DEF LoadBegin, Consumed, Ahead
  <2>2. CASE UNCHANGED <<at, local>>
    BY <1>2, <2>1, <2>2 DEF LoadBegin, Covered
  <2>3. ASSUME NEW my, Goto(h, "tail", my), my.announced = Len(arrivals),
               my.base = IF folded = Nobody THEN Nothing ELSE folded.totals
        PROVE  Covered'
    <3>1. /\ at'[h] = "tail" /\ local'[h] = my
          /\ \A k \in Handles : k # h => at[k] = "idle" /\ at'[k] = "idle"
      BY <2>3, OneMoves DEF TypeInv
    <3>2. my.base.consumed = Consumed
      BY <2>3 DEF Consumed, Nothing
    <3>3. UNCHANGED <<stored, arrivals, rows, folded>> /\ at[h] = "idle"
      BY <1>2 DEF LoadBegin
    <3> QED
      BY <2>1, <2>3, <3>1, <3>2, <3>3 DEF Covered
  <2>4. \/ UNCHANGED <<at, local>>
        \/ \E my : /\ Goto(h, "tail", my) /\ my.announced = Len(arrivals)
                   /\ my.base = IF folded = Nobody THEN Nothing ELSE folded.totals
    <3> DEFINE base  == IF folded = Nobody THEN Nothing ELSE folded.totals
               stale == folded # Nobody /\ folded.under # limits
               my    == [Blank EXCEPT !.under = limits, !.base = base,
                            !.announced = Len(arrivals), !.stale = stale]
    <3>1. UNCHANGED <<at, local>> \/ Goto(h, "tail", my)
      BY <1>2 DEF LoadBegin
    <3>2. my.announced = Len(arrivals) /\ my.base = base
      BY DEF Blank
    <3> HIDE DEF my
    <3> QED
      BY <3>1, <3>2
  <2> QED
    BY <2>2, <2>3, <2>4
<1>3. CASE LoadTail(h)
  <2>1. Consumed' = Consumed /\ \A other : Ahead(other) <=> Ahead(other)'
    BY <1>3 DEF LoadTail, Consumed, Ahead
  <2>2. \A k \in Handles : k # h => at[k] = "idle" /\ at'[k] = "idle"
    BY <1>3, OneMoves DEF LoadTail, TypeInv
  <2>3. CASE Goto(h, "forget", [local[h] EXCEPT !.stale = TRUE])
    <3>1. at'[h] = "forget" /\ local'[h].stale
      BY <1>1, <2>3, OneMoves DEF TypeInv, Locals
    <3> QED
      BY <1>3, <2>1, <2>2, <3>1 DEF LoadTail, Covered
  <2>4. CASE Goto(h, "insert", [local[h] EXCEPT !.todo = Missing(h)])
    <3>1. /\ at'[h] = "insert" /\ local'[h].todo = Missing(h)
          /\ local'[h].announced = local[h].announced
      BY <1>1, <2>4, OneMoves DEF TypeInv, Locals
    <3>2. \A id \in stored : id \in DOMAIN rows \/ Ahead(id)
      BY <1>3, <2>2 DEF LoadTail, Covered
    <3>3. stored \subseteq DOMAIN rows \cup Missing(h)
      BY <1>3, <3>2 DEF LoadTail, Covered, Ahead, Missing
    <3>4. local[h].announced = Len(arrivals)
      BY <1>3 DEF LoadTail, Covered
    <3> QED
      BY <1>1, <1>3, <2>1, <2>2, <3>1, <3>3, <3>4 DEF LoadTail, Covered
  <2> QED
    BY <1>3, <2>3, <2>4 DEF LoadTail
<1>4. CASE ForgetRows(h)
  <2>1. /\ at'[h] = "unfold" /\ local'[h] = local[h]
        /\ \A k \in Handles : k # h => at[k] = "idle" /\ at'[k] = "idle"
    BY <1>4, OneMoves DEF ForgetRows, TypeInv
  <2> QED
    BY <1>4, <2>1 DEF ForgetRows, Covered, Consumed
<1>5. CASE ForgetFold(h)
  <2>1. /\ at'[h] = "list" /\ local'[h] = local[h]
        /\ \A k \in Handles : k # h => at[k] = "idle" /\ at'[k] = "idle"
    BY <1>5, OneMoves DEF ForgetFold, TypeInv
  <2>2. Consumed' = 0
    BY <1>5 DEF ForgetFold, Consumed
  <2> QED
    BY <1>1, <1>5, <2>1, <2>2 DEF ForgetFold, Covered
<1>6. CASE RebuildList(h)
  <2>1. /\ at'[h] = "replace" /\ local'[h] = [local[h] EXCEPT !.todo = stored]
        /\ \A k \in Handles : k # h => at[k] = "idle" /\ at'[k] = "idle"
    BY <1>6, OneMoves DEF RebuildList, TypeInv
  <2> QED
    BY <1>1, <1>6, <2>1 DEF RebuildList, Covered, Consumed, Locals
<1>7. CASE RebuildReplace(h)
  <2>1. /\ at'[h] = "read" /\ local'[h] = local[h]
        /\ \A k \in Handles : k # h => at[k] = "idle" /\ at'[k] = "idle"
    BY <1>7, OneMoves DEF RebuildReplace, TypeInv
  <2>2. Consumed' = 0
    BY <1>7 DEF RebuildReplace, Covered, Consumed
  <2>3. Len(arrivals') \in Nat
    BY <1>1, <1>7, ListingNames DEF RebuildReplace, Locals
  <2> QED
    BY <1>7, <2>1, <2>2, <2>3 DEF RebuildReplace, Covered
<1>8. CASE RefoldRead(h)
  <2>1. /\ at'[h] = "insert" /\ local'[h] = [local[h] EXCEPT !.todo = stored]
        /\ \A k \in Handles : k # h => at[k] = "idle" /\ at'[k] = "idle"
    BY <1>8, OneMoves DEF RefoldRead, TypeInv
  <2>2. local[h].stale
    BY <1>8 DEF RefoldRead, Covered
  <2>3. local'[h].stale = local[h].stale /\ local'[h].todo = stored
    BY <1>1, <2>1 DEF Locals
  <2> QED
    BY <1>8, <2>1, <2>2, <2>3 DEF RefoldRead, Covered, Consumed
<1>9. CASE Insert(h)
  <2>1. PICK id \in local[h].todo, my \in Locals :
            /\ Goto(h, "insert", my)
            /\ my.todo = local[h].todo \ {id}
            /\ my.stale = local[h].stale /\ my.announced = local[h].announced
            /\ DOMAIN rows' = DOMAIN rows \cup {id}
    <3>1. PICK id \in local[h].todo, n \in {0, 1} :
              \/ /\ Goto(h, "insert", [local[h] EXCEPT !.todo = @ \ {id}])
                 /\ DOMAIN rows' = DOMAIN rows /\ id \in DOMAIN rows
              \/ /\ Goto(h, "insert", [local[h] EXCEPT !.todo = @ \ {id},
                                          !.added = @ + 1, !.authors = @ + n])
                 /\ DOMAIN rows' = DOMAIN rows \cup {id}
      BY <1>1, <1>9 DEF Insert, Locals
    <3> DEFINE skipped == [local[h] EXCEPT !.todo = @ \ {id}]
               added == [local[h] EXCEPT !.todo = @ \ {id}, !.added = @ + 1,
                                         !.authors = @ + n]
    <3>2. /\ skipped \in Locals /\ skipped.todo = local[h].todo \ {id}
          /\ skipped.stale = local[h].stale /\ skipped.announced = local[h].announced
          /\ added \in Locals /\ added.todo = local[h].todo \ {id}
          /\ added.stale = local[h].stale /\ added.announced = local[h].announced
      BY <1>1, InsertIsLocal DEF Locals
    <3> HIDE DEF skipped, added
    <3>3. CASE Goto(h, "insert", skipped) /\ DOMAIN rows' = DOMAIN rows /\ id \in DOMAIN rows
      BY <3>2, <3>3
    <3>4. CASE Goto(h, "insert", added) /\ DOMAIN rows' = DOMAIN rows \cup {id}
      BY <3>2, <3>4
    <3> QED
      BY <3>1, <3>3, <3>4 DEF skipped, added
  <2>2. /\ at'[h] = "insert" /\ local'[h] = my
        /\ \A k \in Handles : k # h => at[k] = "idle" /\ at'[k] = "idle"
    BY <2>1, OneMoves DEF TypeInv
  <2>3. at[h] = "insert" /\ UNCHANGED <<stored, arrivals, folded>>
    BY <1>9 DEF Insert
  <2>4. Consumed' = Consumed
    BY <2>3 DEF Consumed
  <2> QED
    BY <2>1, <2>2, <2>3, <2>4 DEF Covered
<1>10. CASE FoldEnd(h)
  <2>1. /\ at'[h] = "idle"
        /\ \A k \in Handles : k # h => at[k] = "idle" /\ at'[k] = "idle"
    BY <1>10, OneMoves DEF FoldEnd, TypeInv
  <2>2. Consumed' = IF local[h].stale THEN Len(arrivals) ELSE local[h].announced
    <3>1. folded'.totals.consumed = IF local[h].stale THEN Len(arrivals)
                                                     ELSE local[h].announced
      BY <1>10 DEF FoldEnd
    <3>2. folded' # Nobody
      BY <1>10, FoldEndRow, NobodyIsNoRow
    <3> QED
      BY <3>1, <3>2 DEF Consumed
  <2>3. /\ stored \subseteq DOMAIN rows
        /\ ~local[h].stale => local[h].announced <= Len(arrivals)
    BY <1>10 DEF FoldEnd, Covered
  <2>4. Consumed' <= Len(arrivals)
    BY <1>1, <2>2, <2>3
  <2> QED
    BY <1>10, <2>1, <2>3, <2>4 DEF FoldEnd, Covered
<1> QED
  BY <1>2, <1>3, <1>4, <1>5, <1>6, <1>7, <1>8, <1>9, <1>10 DEF Load

\* Nothing is stored at first.
LEMMA InitCovers == Init => Covered /\ Recoverable
<1> SUFFICES ASSUME Init PROVE Covered /\ Recoverable
  OBVIOUS
<1>1. Consumed = 0 /\ Len(arrivals) = 0 /\ stored = {}
  BY DEF Init, Consumed
<1>2. \A h \in Handles : at[h] = "idle"
  BY DEF Init
<1> QED
  BY <1>1, <1>2 DEF Covered, Recoverable, StoredIsNamed

\* A write that dies leaves its record named ahead of a file that never comes.
LEMMA AroundCovers ==
    ASSUME TypeInv, Covered, Exclusive, Exclusive', crashes.fold = 0, crashes'.fold = 0,
           Retune \/ \E h \in Handles : PutCrash(h) \/ FoldCrash(h)
    PROVE  Covered'
<1> USE DEF store, index, bounds
<1>1. CASE Retune
  <2>1. UNCHANGED <<stored, arrivals, rows, folded, at, local>>
    BY <1>1 DEF Retune
  <2> QED
    BY <2>1 DEF Covered, Consumed, Ahead
<1>2. ASSUME NEW h \in Handles, PutCrash(h)
      PROVE  Covered'
  <2>1. /\ at'[h] = "idle"
        /\ \A k \in Handles : k # h => at[k] = "idle" /\ at'[k] = "idle"
    BY <1>2, OneMoves DEF PutCrash, TypeInv
  <2>2. UNCHANGED <<stored, arrivals, rows, folded>> /\ at[h] = "named"
    BY <1>2 DEF PutCrash
  <2>3. Consumed' = Consumed /\ \A other : Ahead(other) <=> Ahead(other)'
    BY <2>2 DEF Consumed, Ahead
  <2> QED
    BY <2>1, <2>2, <2>3 DEF Covered
<1>3. ASSUME NEW h \in Handles, FoldCrash(h)
      PROVE  FALSE
  <2>1. crashes' = [crashes EXCEPT !.fold = @ + 1]
    BY <1>3 DEF FoldCrash
  <2>2. crashes'.fold = 1
    BY <2>1 DEF TypeInv, TypeOK
  <2> QED
    BY <2>2
<1> QED
  BY <1>1, <1>2, <1>3

\* What FoldCrash counts is never uncounted.
LEMMA CrashesStay ==
    ASSUME TypeInv, [Next]_vars, crashes'.fold = 0
    PROVE  crashes.fold = 0
<1>1. \/ crashes' = crashes
      \/ crashes' = [crashes EXCEPT !.put = @ + 1]
      \/ crashes' = [crashes EXCEPT !.fold = @ + 1]
  BY DEF Next, vars, bounds, Put, PutName, PutFile, Load, LoadBegin, LoadTail, ForgetRows,
         ForgetFold, RebuildList, RebuildReplace, RefoldRead, Insert, FoldEnd, PutCrash,
         FoldCrash, Retune
<1>2. crashes \in [put : 0..MaxPutCrashes, fold : 0..MaxFoldCrashes]
  BY DEF TypeInv, TypeOK
<1>3. CASE crashes' = [crashes EXCEPT !.fold = @ + 1]
  <2>1. crashes'.fold = crashes.fold + 1 /\ crashes.fold \in Nat
    BY <1>2, <1>3
  <2> QED
    BY <2>1
<1>4. CASE crashes' = [crashes EXCEPT !.put = @ + 1]
  BY <1>2, <1>4
<1> QED
  BY <1>1, <1>3, <1>4

\* Calls that never overlap hide no record between calls until a load dies: for any
\* number of records, handles and limits, and any number of writers that die between
\* their two writes.  Both conditions are needed: two handles at once, or a load that
\* dies between the two deletions of a re-fold, hide one.
THEOREM SerialNothingHidden == Spec /\ []Exclusive => []NothingHidden
<1> DEFINE Unbroken == crashes.fold = 0 => Covered
<1>1. TypeInv /\ Unbroken /\ Exclusive /\ Exclusive' /\ [Next]_vars => Unbroken'
  <2> SUFFICES ASSUME TypeInv, Unbroken, Exclusive, Exclusive', [Next]_vars,
                      crashes'.fold = 0
               PROVE  Covered'
    OBVIOUS
  <2>1. crashes.fold = 0 /\ Covered
    BY CrashesStay
  <2>2. CASE Next
    BY <2>1, <2>2, PutCovers, LoadCovers, AroundCovers DEF Next
  <2>3. CASE UNCHANGED vars
    BY <2>1, <2>3 DEF vars, Covered, Consumed, Ahead
  <2> QED
    BY <2>2, <2>3
<1>2. Unbroken => NothingHidden
  BY DEF Covered, NothingHidden, Settled, Ahead
<1>3. Init => Unbroken
  BY InitCovers
<1> HIDE DEF Unbroken
<1> QED
  BY <1>1, <1>2, <1>3, TypesKept, InitTypes, PTL DEF Spec

-----------------------------------------------------------------------------
\* No step of any kind leaves a record file unnamed for good.
LEMMA Recovers ==
    ASSUME TypeInv, Recoverable, Exclusive, Exclusive', Next
    PROVE  Recoverable'
<1> USE DEF store, index, bounds
<1> DEFINE NamedIn(id) == \E n \in 1..Len(arrivals) : arrivals[n] = id
<1>1. ASSUME NEW h \in Handles, PutName(h)
      PROVE  Recoverable'
  <2>1. PICK id \in Ids : /\ arrivals' = Append(arrivals, id)
                          /\ Goto(h, "named", [Blank EXCEPT !.put = id])
                          /\ stored' = stored /\ at[h] = "idle"
    BY <1>1 DEF PutName
  <2>2. /\ at'[h] = "named" /\ local'[h].put = id
        /\ \A k \in Handles : k # h => at[k] = "idle" /\ at'[k] = "idle"
    BY <2>1, OneMoves DEF TypeInv, Blank
  <2>3. /\ Len(arrivals) \in Nat /\ Len(arrivals') = Len(arrivals) + 1
        /\ arrivals'[Len(arrivals) + 1] = id
        /\ \A n \in 1..Len(arrivals) : arrivals'[n] = arrivals[n]
    BY <2>1 DEF TypeInv, TypeOK
  <2>4. (\A other : NamedIn(other) => NamedIn(other)') /\ NamedIn(id)'
    BY <2>3
  <2> QED
    BY <2>1, <2>2, <2>4 DEF Recoverable, StoredIsNamed
<1>2. ASSUME NEW h \in Handles, PutFile(h)
      PROVE  Recoverable'
  <2>1. /\ at'[h] = "idle"
        /\ \A k \in Handles : k # h => at[k] = "idle" /\ at'[k] = "idle"
    BY <1>2, OneMoves DEF PutFile, TypeInv
  <2> QED
    BY <1>2, <2>1 DEF PutFile, Recoverable, StoredIsNamed
<1>3. ASSUME NEW h \in Handles, RebuildList(h)
      PROVE  Recoverable'
  <2>1. /\ at'[h] = "replace" /\ local'[h] = [local[h] EXCEPT !.todo = stored]
        /\ \A k \in Handles : k # h => at[k] = "idle" /\ at'[k] = "idle"
    BY <1>3, OneMoves DEF RebuildList, TypeInv
  <2>2. local'[h].todo = stored
    BY <2>1 DEF TypeInv, TypeOK, Locals
  <2> QED
    BY <1>3, <2>1, <2>2 DEF RebuildList, Recoverable, StoredIsNamed
<1>4. ASSUME NEW h \in Handles, RebuildReplace(h)
      PROVE  Recoverable'
  <2>1. /\ at'[h] = "read"
        /\ \A k \in Handles : k # h => at[k] = "idle" /\ at'[k] = "idle"
    BY <1>4, OneMoves DEF RebuildReplace, TypeInv
  <2>2. stored \in SUBSET Ids /\ stored' = stored /\ arrivals' = Listing(stored)
    BY <1>4 DEF RebuildReplace, Recoverable, TypeInv, TypeOK
  <2>3. {arrivals'[n] : n \in 1..Len(arrivals')} = stored
    BY <2>2, ListingNames
  <2> QED
    BY <2>1, <2>2, <2>3 DEF Recoverable, StoredIsNamed
<1>5. ASSUME NEW h \in Handles, UNCHANGED store,
             NEW place \in Places \ {"named", "replace"}, NEW my, Goto(h, place, my)
      PROVE  Recoverable'
  <2>1. \A k \in Handles : /\ at'[k] = IF k = h THEN place ELSE at[k]
                           /\ local'[k] = IF k = h THEN my ELSE local[k]
    BY <1>5 DEF Goto, TypeInv, TypeOK
  <2> QED
    BY <1>5, <2>1 DEF Recoverable, StoredIsNamed
<1>6. ASSUME UNCHANGED <<store, at, local>>
      PROVE  Recoverable'
  BY <1>6 DEF Recoverable, StoredIsNamed
<1>7. ASSUME NEW h \in Handles,
             \/ LoadBegin(h) \/ LoadTail(h) \/ ForgetRows(h) \/ ForgetFold(h)
             \/ RefoldRead(h) \/ Insert(h) \/ FoldEnd(h)
             \/ PutCrash(h) \/ FoldCrash(h)
      PROVE  Recoverable'
  <2>1. UNCHANGED store
    BY <1>7 DEF LoadBegin, LoadTail, ForgetRows, ForgetFold, RefoldRead, Insert,
                FoldEnd, PutCrash, FoldCrash
  <2>2. \/ UNCHANGED <<at, local>>
        \/ \E place \in Places \ {"named", "replace"} : \E my : Goto(h, place, my)
    BY <1>7, Zenon DEF LoadBegin, LoadTail, ForgetRows, ForgetFold, RefoldRead, Insert,
                FoldEnd, PutCrash, FoldCrash, Places
  <2> QED
    BY <2>1, <2>2, <1>5, <1>6
<1> QED
  BY <1>1, <1>2, <1>3, <1>4, <1>6, <1>7 DEF Next, Put, Load, Retune

\* Calls that never overlap keep every record file named in the arrival log,
\* whatever dies, reads and writes alike: a re-fold can always find it.
THEOREM SerialStoredIsNamed == Spec /\ []Exclusive => []StoredIsNamed
<1>1. /\ TypeInv /\ Recoverable /\ Exclusive /\ Exclusive' /\ [Next]_vars
      => Recoverable'
  <2> SUFFICES ASSUME TypeInv, Recoverable, Exclusive, Exclusive', [Next]_vars
               PROVE  Recoverable'
    OBVIOUS
  <2>1. CASE UNCHANGED vars
    BY <2>1 DEF vars, Recoverable, StoredIsNamed
  <2> QED
    BY <2>1, Recovers
<1>2. Recoverable => StoredIsNamed
  BY DEF Recoverable
<1> QED
  BY <1>1, <1>2, TypesKept, InitTypes, InitCovers, PTL DEF Spec

-----------------------------------------------------------------------------
(* That serial loads serve what the whole-set pass would.  Two conditions   *)
(* on what is read, since the two implementations of the rules differ       *)
(* without them: an author's readings are distinct, which their log         *)
(* enforces, and a slowmode goes with a ceiling on messages.                *)

OneReadingEach == \A i, j \in Ids :
    Rec[i].author = Rec[j].author /\ SameReading(Rec[i], Rec[j]) => i = j

PausesHaveCeilings == \A l \in LimitsSet : l.slowmode > 0 => l.message > 0

AdmittedBefore(id, table) == {j \in DOMAIN table : table[j] = Admitted /\ Precedes(j, id)}

\* A table in which each verdict is the walk's, given those before it.
Walks(table, under) == \A id \in DOMAIN table :
    table[id] = WalkVerdict(id, AdmittedBefore(id, table), under)

\* What a load still has to insert comes after every row it has.
InTurn(h) == \A row \in DOMAIN rows, id \in local[h].todo : Precedes(row, id)

\* The rows are those of a walk, between loads and throughout each.
Decided ==
    /\ DOMAIN rows \subseteq stored
    /\ crashes.fold = 0 /\ (\A h \in Handles : at[h] \in {"idle", "named", "tail"}) =>
           IF folded = Nobody THEN rows = NoRows ELSE Walks(rows, folded.under)
    /\ \A h \in Handles :
           /\ at[h] = "tail" /\ ~local[h].stale =>
                 folded = Nobody \/ folded.under = local[h].under
           /\ at[h] = "insert" => local[h].todo \subseteq stored
           /\ at[h] = "insert" /\ (local[h].stale \/ crashes.fold = 0) =>
                 /\ DOMAIN rows \cup local[h].todo = stored
                 /\ InTurn(h)
                 /\ Walks(rows, local[h].under)

\* What a re-fold counts is what it has decided, having begun from no rows.
Counted == \A h \in Handles :
    /\ at[h] \in {"tail", "forget", "unfold", "list", "replace", "read"} =>
          local[h].added = 0 /\ local[h].authors = 0
    /\ at[h] \in {"forget", "unfold", "list", "replace", "read"} => local[h].stale
    /\ at[h] \in {"unfold", "list", "replace", "read"} => rows = NoRows
    /\ at[h] = "insert" /\ local[h].stale =>
          /\ local[h].added = Cardinality(DOMAIN rows)
          /\ local[h].authors = Cardinality({Rec[row].author : row \in DOMAIN rows})

-----------------------------------------------------------------------------
(* The order of records, and the walk.                                     *)

\* Readings, then ids, order the records strictly and totally.
LEMMA PrecedesOrders ==
    /\ \A i \in Ids : ~Precedes(i, i)
    /\ \A i, j, k \in Ids : Precedes(i, j) /\ Precedes(j, k) => Precedes(i, k)
    /\ \A i, j \in Ids : i = j \/ Precedes(i, j) \/ Precedes(j, i)
BY RecordsAssumption DEF Precedes, EarlierReading, SameReading

LessThan == {p \in Nat \X Nat : p[1] < p[2]}

\* A set of numbers that is not empty has a least element.
LEMMA Least ==
    ASSUME NEW T, T \subseteq Nat, T # {}
    PROVE  \E x \in T : \A y \in T : x <= y
<1>1. OpToRel(<, Nat) = LessThan
  BY Zenon DEF OpToRel, LessThan
<1>2. IsWellFoundedOn(LessThan, Nat)
  BY <1>1, NatLessThanWellFounded, Zenon
<1>3. PICK x \in T : \A y \in T : ~ (<<y, x>> \in LessThan)
  BY <1>2, WFMin, Zenon
<1>4. \A y \in T : ~ (y < x)
  BY <1>3 DEF LessThan
<1> QED
  BY <1>4

\* In a finite set under a strict order there is an element with none before it:
\* one with the fewest elements before it.
LEMMA Foremost ==
    ASSUME NEW S, IsFiniteSet(S), S # {}, NEW R,
           \A a \in S : <<a, a>> \notin R,
           \A a, b, c \in S : <<a, b>> \in R /\ <<b, c>> \in R => <<a, c>> \in R
    PROVE  \E a \in S : \A b \in S : <<b, a>> \notin R
<1> DEFINE before(a) == {b \in S : <<b, a>> \in R}
           rank == [a \in S |-> Cardinality(before(a))]
<1>1. ASSUME NEW a \in S
      PROVE  IsFiniteSet(before(a)) /\ rank[a] \in Nat /\ rank[a] = Cardinality(before(a))
  <2>1. before(a) \in SUBSET S /\ rank[a] = Cardinality(before(a))
    OBVIOUS
  <2> HIDE DEF before, rank
  <2> QED
    BY <2>1, FS_Subset, FS_CardinalityType
<1>2. PICK a \in S : \A b \in S : rank[a] <= rank[b]
  <2>0. \A b \in S : rank[b] \in Nat
    BY <1>1
  <2> HIDE DEF before, rank
  <2>1. {rank[b] : b \in S} \subseteq Nat /\ {rank[b] : b \in S} # {}
    BY <2>0
  <2>2. PICK least \in {rank[b] : b \in S} : \A other \in {rank[b] : b \in S} : least <= other
    BY <2>1, Least
  <2> QED
    BY <2>2
<1>3. ASSUME NEW b \in S, <<b, a>> \in R
      PROVE  FALSE
  <2>1. before(b) \in SUBSET before(a) /\ before(b) # before(a)
    BY <1>3
  <2>2. rank[a] <= rank[b]
    BY <1>2
  <2> HIDE DEF before, rank
  <2> QED
    BY <1>1, <2>1, <2>2, FS_Subset
<1> QED
  BY <1>3

\* Of several records one comes first, and one last.
LEMMA FirstAndLast ==
    ASSUME NEW S \in SUBSET Ids, S # {}
    PROVE  /\ \E i \in S : \A j \in S : ~Precedes(j, i)
           /\ \E i \in S : \A j \in S \ {i} : Precedes(j, i)
<1> DEFINE R == {p \in S \X S : Precedes(p[1], p[2])}
           Q == {p \in S \X S : Precedes(p[2], p[1])}
<1>1. IsFiniteSet(S)
  BY IdsFinite, FS_Subset
<1>2. /\ \A a, b \in S : <<a, b>> \in R <=> Precedes(a, b)
      /\ \A a, b \in S : <<a, b>> \in Q <=> Precedes(b, a)
  OBVIOUS
<1> HIDE DEF R, Q
<1>3. \E i \in S : \A j \in S : <<j, i>> \notin R
  <2>1. /\ \A a \in S : <<a, a>> \notin R
        /\ \A a, b, c \in S : <<a, b>> \in R /\ <<b, c>> \in R => <<a, c>> \in R
    BY <1>2, PrecedesOrders
  <2> QED
    BY <1>1, <2>1, Foremost
<1>4. \E i \in S : \A j \in S : <<j, i>> \notin Q
  <2>1. /\ \A a \in S : <<a, a>> \notin Q
        /\ \A a, b, c \in S : <<a, b>> \in Q /\ <<b, c>> \in Q => <<a, c>> \in Q
    BY <1>2, PrecedesOrders
  <2> QED
    BY <1>1, <2>1, Foremost
<1> QED
  BY <1>2, <1>3, <1>4, PrecedesOrders

AdmittedIn(table) == {j \in DOMAIN table : table[j] = Admitted}

\* There is one such set: two would agree up to the first record they differ on.
LEMMA GreedyIsOne ==
    ASSUME NEW S \in SUBSET Ids, NEW under, NEW A \in Greedy(S, under), NEW B \in Greedy(S, under)
    PROVE  A = B
<1> DEFINE odd == {id \in S : ~(id \in A <=> id \in B)}
<1> SUFFICES ASSUME odd # {} PROVE FALSE
  BY DEF Greedy
<1>1. PICK id \in odd : \A j \in odd : ~Precedes(j, id)
  <2>1. odd \in SUBSET Ids
    OBVIOUS
  <2> HIDE DEF odd
  <2> QED
    BY <2>1, FirstAndLast
<1>2. Before(id, A) = Before(id, B)
  BY <1>1 DEF Before, Greedy
<1>3. id \in A <=> id \in B
  BY <1>1, <1>2, Zenon DEF Greedy
<1> QED
  BY <1>1, <1>3

\* A table made by the walk is the whole-set pass of its records.
LEMMA WalkIsPass ==
    ASSUME NEW table, NEW under, DOMAIN table \in SUBSET Ids,
           table \in [DOMAIN table -> Verdicts], Walks(table, under)
    PROVE  table = WholePass(DOMAIN table, under)
<1> DEFINE S == DOMAIN table
           A == AdmittedIn(table)
           chosen == CHOOSE B \in Greedy(S, under) : TRUE
<1>1. \A id \in S : AdmittedBefore(id, table) = Before(id, A)
  BY DEF AdmittedBefore, AdmittedIn, Before
<1>2. A \in Greedy(S, under)
  <2>1. \A id \in S : id \in A <=> table[id] = Admitted
    BY DEF AdmittedIn
  <2>2. \A id \in S : table[id] = WalkVerdict(id, Before(id, A), under)
    BY <1>1, Zenon DEF Walks
  <2>3. A \in SUBSET S
    BY DEF AdmittedIn
  <2> QED
    BY <2>1, <2>2, <2>3, Zenon DEF Greedy
<1>3. chosen \in Greedy(S, under)
  BY <1>2, Zenon
<1>4. chosen = A
  <2> HIDE DEF A, chosen, S
  <2> QED
    BY <1>2, <1>3, GreedyIsOne DEF S
<1>5. WholePass(S, under) = [id \in S |-> WalkVerdict(id, Before(id, chosen), under)]
  BY Zenon DEF WholePass
<1>6. WholePass(S, under) = [id \in S |-> table[id]]
  <2>1. \A id \in S : table[id] = WalkVerdict(id, Before(id, chosen), under)
    BY <1>1, <1>4, Zenon DEF Walks
  <2> HIDE DEF chosen, A
  <2> QED
    BY <1>5, <2>1
<1> QED
  BY <1>6

\* A record that comes after every row is decided as the walk decides it: each of its
\* author's rows has an earlier reading, and of those a pause looks at, the last is
\* the nearest.
LEMMA DecideIsWalk ==
    ASSUME OneReadingEach, PausesHaveCeilings, NEW under \in LimitsSet, NEW table,
           DOMAIN table \in SUBSET Ids, NEW id \in Ids, id \notin DOMAIN table,
           \A row \in DOMAIN table : Precedes(row, id)
    PROVE  Decide(id, table, under) = WalkVerdict(id, AdmittedBefore(id, table), under)
<1> DEFINE mine == Like(id, AdmittedBefore(id, table))
           moment == Rec[id].wall
           last == CHOOSE j \in mine : \A k \in mine \ {j} : Precedes(k, j)
           Since(since) == {j \in mine : Rec[j].wall > since}
           Earlier(T) == {j \in T : EarlierReading(Rec[j], Rec[id])}
           Paused == /\ Rec[id].class = "message"
                     /\ under.slowmode > 0
                     /\ mine # {}
                     /\ moment - Rec[last].wall < under.slowmode
<1>1. mine \in SUBSET Ids /\ \A j \in mine : Precedes(j, id) /\ j # id
                                         /\ Rec[j].author = Rec[id].author
  BY DEF Like, AdmittedBefore
<1>2. \A j \in mine : EarlierReading(Rec[j], Rec[id])
  BY <1>1 DEF Precedes, OneReadingEach
<1>3. \A since : Earlier(AdmittedSince(id, table, since)) = Since(since)
  <2>1. \A j : j \in mine <=> /\ j \in Like(id, DOMAIN table) /\ table[j] = Admitted
    BY DEF Like, AdmittedBefore
  <2>2. ASSUME NEW since, NEW j
        PROVE  j \in Earlier(AdmittedSince(id, table, since)) <=> j \in Since(since)
    <3> HIDE DEF mine
    <3> QED
      BY <1>2, <2>1 DEF AdmittedSince
  <2> HIDE DEF mine
  <2> QED
    BY <2>2
<1>4. mine # {} => last \in mine /\ \A k \in mine \ {last} : Precedes(k, last)
  <2> SUFFICES ASSUME mine # {} PROVE \E j \in mine : \A k \in mine \ {j} : Precedes(k, j)
    BY Zenon
  <2> HIDE DEF mine
  <2> QED
    BY <1>1, FirstAndLast
<1>5. ASSUME Rec[id].class = "message", under.slowmode > 0
      PROVE  Paused <=> Since(moment - under.slowmode) # {}
  <2>0. moment \in Nat /\ under.slowmode \in Nat /\ \A j \in mine : Rec[j].wall \in Nat
    BY <1>1, RecordsAssumption, LimitsAreNat
  <2>1. ASSUME NEW j \in mine
        PROVE  Rec[j].wall <= Rec[last].wall /\ last \in mine
    <3>1. last \in mine /\ (j = last \/ Precedes(j, last))
      BY <1>4
    <3> HIDE DEF mine, last
    <3> QED
      BY <1>1, <3>1, RecordsAssumption DEF Precedes, EarlierReading, SameReading
  <2> HIDE DEF mine, last, moment
  <2> QED
    BY <1>4, <1>5, <2>0, <2>1
<1>6. WalkVerdict(id, AdmittedBefore(id, table), under)
        = IF Ceiling(Rec[id].class, under) <= 0 THEN Admitted
          ELSE IF Paused THEN TooSoon
          ELSE IF Cardinality(Since(moment - RateWindow)) >= Ceiling(Rec[id].class, under)
               THEN OverRate
          ELSE Admitted
  BY Zenon DEF WalkVerdict
<1>7. Decide(id, table, under)
        = IF Rec[id].class = "control" THEN Admitted
          ELSE IF /\ Rec[id].class = "message"
                  /\ under.slowmode > 0
                  /\ Since(moment - under.slowmode) # {}
               THEN TooSoon
          ELSE IF Ceiling(Rec[id].class, under) <= 0 THEN Admitted
          ELSE IF Cardinality(Since(moment - RateWindow)) >= Ceiling(Rec[id].class, under)
               THEN OverRate
          ELSE Admitted
  <2> HIDE DEF Since, mine
  <2> QED
    BY <1>3 DEF Decide
<1>8. Rec[id].class = "control" => Ceiling(Rec[id].class, under) <= 0
  BY DEF Ceiling
<1>9. Rec[id].class = "message" => Ceiling(Rec[id].class, under) = under.message
  BY DEF Ceiling
<1>10. under.slowmode > 0 => ~(under.message <= 0)
  BY LimitsAreNat DEF PausesHaveCeilings
<1> HIDE DEF Since, mine, Earlier, moment, last
<1>11. Paused => Rec[id].class = "message" /\ under.slowmode > 0
  OBVIOUS
<1> HIDE DEF Paused
<1> QED
  BY <1>5, <1>6, <1>7, <1>8, <1>9, <1>10, <1>11

\* A table of the walk with one more record decided, after all its rows, is one.
LEMMA WalksOn ==
    ASSUME OneReadingEach, PausesHaveCeilings, NEW under \in LimitsSet,
           NEW table \in Tables, Walks(table, under),
           NEW id \in Ids, id \notin DOMAIN table, \A row \in DOMAIN table : Precedes(row, id)
    PROVE  Walks([row \in DOMAIN table \cup {id} |->
                      IF row = id THEN Decide(id, table, under) ELSE table[row]], under)
<1> DEFINE after == [row \in DOMAIN table \cup {id} |->
                        IF row = id THEN Decide(id, table, under) ELSE table[row]]
<1>1. DOMAIN table \in SUBSET Ids
  BY TableType
<1>2. ASSUME NEW j \in DOMAIN table \cup {id}
      PROVE  AdmittedBefore(j, after) = AdmittedBefore(j, table)
  <2>1. ~Precedes(id, j)
    BY <1>1, PrecedesOrders
  <2>2. \A k : k \in AdmittedBefore(j, after) <=> k \in AdmittedBefore(j, table)
    BY <2>1 DEF AdmittedBefore
  <2> QED
    BY <2>2
<1>3. after[id] = WalkVerdict(id, AdmittedBefore(id, table), under)
  BY <1>1, DecideIsWalk
<1>4. \A j \in DOMAIN table : after[j] = WalkVerdict(j, AdmittedBefore(j, table), under)
  <2>1. \A j \in DOMAIN table : after[j] = table[j]
    OBVIOUS
  <2> QED
    BY <2>1, Zenon DEF Walks
<1>5. DOMAIN after = DOMAIN table \cup {id}
  OBVIOUS
<1> HIDE DEF after
<1>6. Walks(after, under)
  BY <1>2, <1>3, <1>4, <1>5, Zenon DEF Walks
<1> QED
  BY <1>6 DEF after

-----------------------------------------------------------------------------
(* Every step leaves the rows decided.                                     *)

\* No rows are those of any walk.
LEMMA NoRowsWalk == ASSUME NEW under PROVE DOMAIN NoRows = {} /\ Walks(NoRows, under)
<1>1. DOMAIN NoRows = {}
  BY DEF NoRows
<1> QED
  BY <1>1 DEF Walks

NewAuthor(id) == \A row \in DOMAIN rows : Rec[row].author # Rec[id].author

\* An insertion takes the first record left, and decides it unless it is a row.
LEMMA Inserts ==
    ASSUME TypeInv, NEW h \in Handles, Insert(h)
    PROVE  \E id \in local[h].todo, my \in Locals :
             /\ Goto(h, "insert", my)
             /\ my.todo = local[h].todo \ {id}
             /\ my.stale = local[h].stale /\ my.under = local[h].under
             /\ \A other \in my.todo : Precedes(id, other)
             /\ \/ /\ id \in DOMAIN rows /\ rows' = rows
                   /\ my.added = local[h].added /\ my.authors = local[h].authors
                \/ /\ id \notin DOMAIN rows
                   /\ rows' = [row \in DOMAIN rows \cup {id} |->
                                  IF row = id THEN Decide(id, rows, local[h].under)
                                              ELSE rows[row]]
                   /\ my.added = local[h].added + 1
                   /\ my.authors = local[h].authors + (IF NewAuthor(id) THEN 1 ELSE 0)
<1> DEFINE old == local[h]
<1>1. old \in Locals
  BY DEF TypeInv, TypeOK
<1>2. PICK id \in old.todo :
        /\ IsFirst(id, old.todo)
        /\ \/ /\ id \in DOMAIN rows /\ rows' = rows
              /\ Goto(h, "insert", [old EXCEPT !.todo = @ \ {id}])
           \/ /\ id \notin DOMAIN rows
              /\ rows' = [row \in DOMAIN rows \cup {id} |->
                             IF row = id THEN Decide(id, rows, old.under) ELSE rows[row]]
              /\ Goto(h, "insert", [[old EXCEPT !.todo = @ \ {id}] EXCEPT
                                       !.added = @ + 1,
                                       !.authors = @ + (IF NewAuthor(id) THEN 1 ELSE 0)])
  BY Zenon DEF Insert, NewAuthor
<1> DEFINE n == IF NewAuthor(id) THEN 1 ELSE 0
           skipped == [old EXCEPT !.todo = @ \ {id}]
           added == [skipped EXCEPT !.added = @ + 1, !.authors = @ + n]
<1>3. n \in {0, 1}
  OBVIOUS
<1> HIDE DEF n
<1>4. /\ skipped \in Locals /\ skipped.todo = old.todo \ {id}
      /\ skipped.stale = old.stale /\ skipped.under = old.under
      /\ skipped.added = old.added /\ skipped.authors = old.authors
  BY <1>1 DEF Locals
<1>5. /\ added \in Locals /\ added.todo = old.todo \ {id}
      /\ added.stale = old.stale /\ added.under = old.under
      /\ added.added = old.added + 1 /\ added.authors = old.authors + n
  <2>1. \A my \in Locals : my.added + 1 \in Nat /\ my.authors + n \in Nat
    BY <1>3 DEF Locals
  <2> HIDE DEF skipped
  <2>2. added.todo = skipped.todo
    BY <1>4 DEF Locals
  <2> QED
    BY <1>4, <2>1, <2>2 DEF Locals
<1>6. \A other \in old.todo \ {id} : Precedes(id, other)
  BY <1>2 DEF IsFirst
<1>7. CASE id \in DOMAIN rows /\ rows' = rows /\ Goto(h, "insert", skipped)
  <2> HIDE DEF skipped
  <2> QED
    BY <1>4, <1>6, <1>7
<1>8. CASE /\ id \notin DOMAIN rows
           /\ rows' = [row \in DOMAIN rows \cup {id} |->
                          IF row = id THEN Decide(id, rows, old.under) ELSE rows[row]]
           /\ Goto(h, "insert", added)
  <2> HIDE DEF added
  <2> QED
    BY <1>5, <1>6, <1>8, Zenon DEF n
<1> QED
  BY <1>2, <1>7, <1>8, Zenon DEF n

\* A write decides nothing.
LEMMA PutDecides ==
    ASSUME TypeInv, Decided, Exclusive, Exclusive', NEW h \in Handles, Put(h) \/ PutCrash(h)
    PROVE  Decided'
<1> USE DEF store, index, bounds
<1>1. crashes'.fold = crashes.fold
  BY DEF Put, PutName, PutFile, PutCrash, TypeInv, TypeOK
<1>2. /\ stored \subseteq stored' /\ UNCHANGED <<rows, folded>>
      /\ at[h] \in {"idle", "named"} /\ at'[h] \in {"idle", "named"}
      /\ \A k \in Handles : k # h => at[k] = "idle" /\ at'[k] = "idle"
  <2>1. PICK place \in {"idle", "named"} : (\E my : Goto(h, place, my)) /\ (at[h] # "idle" \/ place # "idle")
    BY Zenon DEF Put, PutName, PutFile, PutCrash
  <2>2. at'[h] = place /\ \A k \in Handles : k # h => at[k] = "idle" /\ at'[k] = "idle"
    BY <2>1, OneMoves DEF TypeInv
  <2>3. stored \subseteq stored' /\ UNCHANGED <<rows, folded>> /\ at[h] \in {"idle", "named"}
    BY DEF Put, PutName, PutFile, PutCrash
  <2> QED
    BY <2>2, <2>3
<1> QED
  BY <1>1, <1>2 DEF Decided

\* A load that dies, or a change of the limits, decides nothing either.
LEMMA AroundDecides ==
    ASSUME TypeInv, Decided, Exclusive, Exclusive', Retune \/ \E h \in Handles : FoldCrash(h)
    PROVE  Decided'
<1> USE DEF store, index, bounds
<1>1. CASE Retune
  BY <1>1 DEF Retune, Decided, InTurn
<1>2. ASSUME NEW h \in Handles, FoldCrash(h)
      PROVE  Decided'
  <2>1. crashes' = [crashes EXCEPT !.fold = @ + 1] /\ UNCHANGED <<stored, rows>>
    BY <1>2 DEF FoldCrash
  <2>2. crashes'.fold # 0
    BY <2>1 DEF TypeInv, TypeOK
  <2>3. at'[h] = "idle" /\ \A k \in Handles : k # h => at[k] = "idle" /\ at'[k] = "idle"
    BY <1>2, OneMoves DEF FoldCrash, TypeInv, FoldPlaces
  <2> QED
    BY <2>1, <2>2, <2>3 DEF Decided
<1> QED
  BY <1>1, <1>2

\* The steps of a load are not deaths.
LEMMA LoadsLive ==
    ASSUME NEW h \in Handles, Load(h)
    PROVE  crashes' = crashes
BY Zenon DEF Load, LoadBegin, LoadTail, ForgetRows, ForgetFold, RebuildList, RebuildReplace,
             RefoldRead, Insert, FoldEnd, bounds

\* A load that has read the tail inserts after what the last fold decided; one that
\* begins afresh decides all there is.
LEMMA LoadDecides ==
    ASSUME TypeInv, Decided, Counted, crashes.fold = 0 => Covered, Exclusive, Exclusive',
           OneReadingEach, PausesHaveCeilings, NEW h \in Handles, Load(h)
    PROVE  Decided'
<1> USE DEF store, index, bounds
<1>1. local[h] \in Locals /\ rows \in Tables /\ stored \in SUBSET Ids
  BY DEF TypeInv, TypeOK
<1>2. crashes' = crashes
  BY LoadsLive
<1>3. CASE LoadBegin(h)
  <2> DEFINE base  == IF folded = Nobody THEN Nothing ELSE folded.totals
             stale == folded # Nobody /\ folded.under # limits
             my    == [Blank EXCEPT !.under = limits, !.base = base,
                          !.announced = Len(arrivals), !.stale = stale]
  <2>1. UNCHANGED <<stored, rows, folded>> /\ at[h] = "idle"
    BY <1>3 DEF LoadBegin
  <2>2. CASE UNCHANGED <<at, local>>
    BY <1>2, <2>1, <2>2 DEF Decided, InTurn
  <2>3. CASE Goto(h, "tail", my)
    <3>1. my.under = limits /\ my.stale = stale
      BY DEF Blank
    <3> HIDE DEF my
    <3>2. /\ at'[h] = "tail" /\ local'[h] = my
          /\ \A k \in Handles : k # h => at[k] = "idle" /\ at'[k] = "idle"
      BY <2>3, OneMoves DEF TypeInv
    <3> QED
      BY <1>2, <2>1, <3>1, <3>2 DEF Decided
  <2> QED
    BY <1>3, <2>2, <2>3 DEF LoadBegin
<1>4. CASE LoadTail(h)
  <2>1. UNCHANGED <<stored, rows, folded>> /\ at[h] = "tail"
    BY <1>4 DEF LoadTail
  <2>2. \A k \in Handles : k # h => at[k] = "idle" /\ at'[k] = "idle"
    BY <2>1 , <1>4, OneMoves DEF LoadTail, TypeInv
  <2>3. CASE Goto(h, "forget", [local[h] EXCEPT !.stale = TRUE])
    <3>1. at'[h] = "forget"
      BY <2>3, OneMoves, <2>1 DEF TypeInv
    <3> QED
      BY <2>1, <2>2, <3>1 DEF Decided
  <2>4. CASE /\ ~local[h].stale /\ ~ReachesBack(Missing(h))
             /\ Goto(h, "insert", [local[h] EXCEPT !.todo = Missing(h)])
    <3>1. /\ at'[h] = "insert" /\ local'[h].todo = Missing(h)
          /\ local'[h].under = local[h].under /\ local'[h].stale = local[h].stale
      BY <1>1, <2>1, <2>4, OneMoves DEF TypeInv, Locals
    <3>2. ASSUME crashes.fold = 0
          PROVE  /\ DOMAIN rows \cup Missing(h) = stored
                 /\ Walks(rows, local[h].under)
      <4>1. \A id \in stored : id \in DOMAIN rows \/ Ahead(id)
        BY <2>1, <2>2, <3>2 DEF Covered
      <4>2. DOMAIN rows \cup Missing(h) = stored
        BY <2>1, <3>2, <4>1 DEF Covered, Ahead, Missing, Decided
      <4>3. IF folded = Nobody THEN rows = NoRows ELSE Walks(rows, folded.under)
        BY <2>1, <2>2, <3>2 DEF Decided
      <4>4. folded = Nobody \/ folded.under = local[h].under
        BY <2>1, <2>4 DEF Decided
      <4> QED
        BY <4>2, <4>3, <4>4, NoRowsWalk
    <3>3. \A row \in DOMAIN rows, id \in Missing(h) : Precedes(row, id)
      BY <2>4 DEF ReachesBack
    <3>4. Missing(h) \subseteq stored
      BY DEF Missing
    <3> QED
      BY <1>2, <2>1, <2>2, <2>4, <3>1, <3>2, <3>3, <3>4 DEF Decided, InTurn
  <2> QED
    BY <1>4, <2>3, <2>4 DEF LoadTail
<1>5. CASE ForgetRows(h) \/ ForgetFold(h) \/ RebuildList(h) \/ RebuildReplace(h)
  <2>1. PICK place \in {"unfold", "list", "replace", "read"} : (\E my : Goto(h, place, my)) /\ at[h] # "idle"
    BY <1>5, Zenon DEF ForgetRows, ForgetFold, RebuildList, RebuildReplace
  <2>2. at'[h] = place /\ \A k \in Handles : k # h => at[k] = "idle" /\ at'[k] = "idle"
    BY <2>1, OneMoves DEF TypeInv
  <2>3. UNCHANGED stored /\ (rows' = rows \/ rows' = NoRows)
    BY <1>5 DEF ForgetRows, ForgetFold, RebuildList, RebuildReplace
  <2>4. DOMAIN rows' \subseteq stored'
    BY <2>3, NoRowsWalk DEF Decided
  <2> QED
    BY <2>2, <2>4 DEF Decided
<1>6. CASE RefoldRead(h)
  <2>1. /\ at'[h] = "insert" /\ local'[h] = [local[h] EXCEPT !.todo = stored]
        /\ \A k \in Handles : k # h => at[k] = "idle" /\ at'[k] = "idle"
    BY <1>6, OneMoves DEF RefoldRead, TypeInv
  <2>2. local'[h].todo = stored
    BY <1>1, <2>1 DEF Locals
  <2>3. UNCHANGED <<stored, rows>> /\ rows = NoRows
    BY <1>6 DEF RefoldRead, Counted
  <2>4. DOMAIN rows' = {} /\ Walks(rows, local'[h].under)
    BY <2>3, NoRowsWalk
  <2> QED
    BY <2>1, <2>2, <2>3, <2>4 DEF Decided, InTurn
<1>7. CASE Insert(h)
  <2>1. PICK id \in local[h].todo, my \in Locals :
             /\ Goto(h, "insert", my)
             /\ my.todo = local[h].todo \ {id}
             /\ my.stale = local[h].stale /\ my.under = local[h].under
             /\ \A other \in my.todo : Precedes(id, other)
             /\ \/ /\ id \in DOMAIN rows /\ rows' = rows
                \/ /\ id \notin DOMAIN rows
                   /\ rows' = [row \in DOMAIN rows \cup {id} |->
                                  IF row = id THEN Decide(id, rows, local[h].under)
                                              ELSE rows[row]]
    BY <1>7, Inserts, Zenon
  <2>2. at[h] = "insert" /\ UNCHANGED stored
    BY <1>7 DEF Insert
  <2>3. /\ at'[h] = "insert" /\ local'[h] = my
        /\ \A k \in Handles : k # h => at[k] = "idle" /\ at'[k] = "idle"
    BY <2>1, <2>2, OneMoves DEF TypeInv
  <2>4. DOMAIN rows' = DOMAIN rows \cup {id}
    BY <2>1
  <2>5. id \in Ids /\ my.under \in LimitsSet
    BY <1>1, <2>1, <2>2 DEF Locals, TypeInv, PlaceOK, FoldPlaces, Places
  <2>6. ASSUME my.stale \/ crashes.fold = 0
        PROVE  /\ DOMAIN rows' \cup my.todo = stored
               /\ \A row \in DOMAIN rows', other \in my.todo : Precedes(row, other)
               /\ Walks(rows', my.under)
    <3>1. /\ DOMAIN rows \cup local[h].todo = stored
          /\ \A row \in DOMAIN rows, other \in local[h].todo : Precedes(row, other)
          /\ Walks(rows, my.under)
      BY <2>1, <2>2, <2>6 DEF Decided, InTurn
    <3>2. \A row \in DOMAIN rows : Precedes(row, id)
      BY <3>1
    <3>3. Walks(rows', my.under)
      <4>1. CASE id \in DOMAIN rows /\ rows' = rows
        BY <3>1, <4>1
      <4>2. CASE /\ id \notin DOMAIN rows
                 /\ rows' = [row \in DOMAIN rows \cup {id} |->
                                IF row = id THEN Decide(id, rows, my.under) ELSE rows[row]]
        BY <1>1, <2>5, <3>1, <3>2, <4>2, WalksOn
      <4> QED
        BY <2>1, <4>1, <4>2
    <3> QED
      BY <2>1, <2>4, <3>1, <3>3
  <2>7. DOMAIN rows' \subseteq stored
    BY <2>1, <2>2, <2>4, <1>1, <2>6 DEF Decided
  <2> QED
    BY <1>2, <2>1, <2>2, <2>3, <2>6, <2>7 DEF Decided, InTurn
<1>8. CASE FoldEnd(h)
  <2>1. /\ at'[h] = "idle"
        /\ \A k \in Handles : k # h => at[k] = "idle" /\ at'[k] = "idle"
    BY <1>8, OneMoves DEF FoldEnd, TypeInv
  <2>2. at[h] = "insert" /\ UNCHANGED <<stored, rows>> /\ folded'.under = local[h].under
    BY <1>8 DEF FoldEnd
  <2>3. folded' # Nobody
    BY <1>8, FoldEndRow, NobodyIsNoRow
  <2>4. crashes.fold = 0 => Walks(rows, local[h].under)
    BY <2>2 DEF Decided
  <2> QED
    BY <1>2, <2>1, <2>2, <2>3, <2>4 DEF Decided
<1> QED
  BY <1>3, <1>4, <1>5, <1>6, <1>7, <1>8 DEF Load

\* The authors of some rows and of one more.
LEMMA AuthorsGrow ==
    ASSUME TypeInv, NEW id \in Ids
    PROVE  /\ IsFiniteSet(DOMAIN rows)
           /\ IsFiniteSet({Rec[row].author : row \in DOMAIN rows})
           /\ Cardinality({Rec[row].author : row \in DOMAIN rows \cup {id}})
                = Cardinality({Rec[row].author : row \in DOMAIN rows})
                    + (IF NewAuthor(id) THEN 1 ELSE 0)
<1> DEFINE authors == {Rec[row].author : row \in DOMAIN rows}
<1>1. IsFiniteSet(DOMAIN rows)
  BY IdsFinite, TableType, FS_Subset DEF TypeInv, TypeOK
<1>2. IsFiniteSet(authors)
  <2> DEFINE authorOf == [row \in DOMAIN rows |-> Rec[row].author]
  <2>1. authorOf \in Surjection(DOMAIN rows, authors)
    BY DEF Surjection
  <2> HIDE DEF authorOf, authors
  <2> QED
    BY <1>1, <2>1, FS_Surjection
<1>3. {Rec[row].author : row \in DOMAIN rows \cup {id}} = authors \cup {Rec[id].author}
  OBVIOUS
<1>4. NewAuthor(id) <=> Rec[id].author \notin authors
  BY DEF NewAuthor
<1>5. Cardinality(authors) \in Nat
  BY <1>2, FS_CardinalityType
<1> HIDE DEF authors
<1>6. Cardinality(authors \cup {Rec[id].author})
        = IF Rec[id].author \in authors THEN Cardinality(authors) ELSE Cardinality(authors) + 1
  BY <1>2, FS_AddElement
<1>7. Cardinality(authors \cup {Rec[id].author})
        = Cardinality(authors) + (IF NewAuthor(id) THEN 1 ELSE 0)
  BY <1>4, <1>5, <1>6
<1> QED
  BY <1>1, <1>2, <1>3, <1>7, Zenon DEF authors

\* A re-fold counts each row it inserts, and each author it meets first.
LEMMA StepCounts ==
    ASSUME TypeInv, Counted, Exclusive, Exclusive', Next
    PROVE  Counted'
<1> USE DEF store, index, bounds
<1>1. ASSUME NEW h \in Handles, Put(h) \/ PutCrash(h) \/ FoldCrash(h) \/ FoldEnd(h)
      PROVE  Counted'
  <2>1. PICK place \in {"idle", "named"} : (\E my : Goto(h, place, my)) /\ (at[h] # "idle" \/ place # "idle")
    BY <1>1, Zenon DEF Put, PutName, PutFile, PutCrash, FoldCrash, FoldEnd, FoldPlaces
  <2>2. at'[h] = place /\ \A k \in Handles : k # h => at[k] = "idle" /\ at'[k] = "idle"
    BY <2>1, OneMoves DEF TypeInv
  <2> QED
    BY <2>2 DEF Counted
<1>2. CASE Retune
  BY <1>2 DEF Retune, Counted
<1>3. ASSUME NEW h \in Handles, LoadBegin(h)
      PROVE  Counted'
  <2> DEFINE my == [Blank EXCEPT !.under = limits,
                       !.base = IF folded = Nobody THEN Nothing ELSE folded.totals,
                       !.announced = Len(arrivals),
                       !.stale = folded # Nobody /\ folded.under # limits]
  <2>1. UNCHANGED rows /\ at[h] = "idle"
    BY <1>3 DEF LoadBegin
  <2>2. UNCHANGED <<at, local>> \/ Goto(h, "tail", my)
    BY <1>3 DEF LoadBegin
  <2>3. my.added = 0 /\ my.authors = 0
    BY DEF Blank
  <2> HIDE DEF my
  <2>4. CASE Goto(h, "tail", my)
    <3>1. /\ at'[h] = "tail" /\ local'[h] = my
          /\ \A k \in Handles : k # h => at[k] = "idle" /\ at'[k] = "idle"
      BY <2>4, OneMoves DEF TypeInv
    <3> QED
      BY <2>3, <3>1 DEF Counted
  <2> QED
    BY <2>1, <2>2, <2>4 DEF Counted
<1>4. ASSUME NEW h \in Handles, LoadTail(h)
      PROVE  Counted'
  <2>1. PICK my \in Locals : /\ my.added = local[h].added /\ my.authors = local[h].authors
                             /\ \/ Goto(h, "forget", my) /\ my.stale
                                \/ Goto(h, "insert", my) /\ ~my.stale
    <3> DEFINE forgets == [local[h] EXCEPT !.stale = TRUE]
               goes == [local[h] EXCEPT !.todo = Missing(h)]
    <3>1. local[h] \in Locals /\ Missing(h) \in SUBSET Ids
      BY DEF TypeInv, TypeOK, Missing
    <3>2. /\ forgets \in Locals /\ forgets.stale
          /\ forgets.added = local[h].added /\ forgets.authors = local[h].authors
          /\ goes \in Locals /\ goes.stale = local[h].stale
          /\ goes.added = local[h].added /\ goes.authors = local[h].authors
      BY <3>1 DEF Locals
    <3>3. \/ Goto(h, "forget", forgets)
          \/ ~local[h].stale /\ Goto(h, "insert", goes)
      BY <1>4 DEF LoadTail
    <3> HIDE DEF forgets, goes
    <3> QED
      BY <3>2, <3>3
  <2>2. at[h] = "tail"
    BY <1>4 DEF LoadTail
  <2>3. /\ \/ at'[h] = "forget" /\ my.stale
           \/ at'[h] = "insert" /\ ~my.stale
        /\ local'[h] = my
        /\ \A k \in Handles : k # h => at[k] = "idle" /\ at'[k] = "idle"
    BY <2>1, <2>2, OneMoves DEF TypeInv
  <2> QED
    BY <2>1, <2>2, <2>3 DEF Counted
<1>5. ASSUME NEW h \in Handles,
             ForgetRows(h) \/ ForgetFold(h) \/ RebuildList(h) \/ RebuildReplace(h) \/ RefoldRead(h)
      PROVE  Counted'
  <2>1. /\ local[h].stale /\ local[h].added = 0 /\ local[h].authors = 0
        /\ rows' = NoRows /\ at[h] # "idle"
    BY <1>5 DEF ForgetRows, ForgetFold, RebuildList, RebuildReplace, RefoldRead, Counted
  <2>2. PICK place \in {"unfold", "list", "replace", "read", "insert"}, my \in Locals :
             /\ Goto(h, place, my) /\ my.stale /\ my.added = 0 /\ my.authors = 0
    <3> DEFINE lists == [local[h] EXCEPT !.todo = stored]
    <3>1. local[h] \in Locals /\ stored \in SUBSET Ids
      BY DEF TypeInv, TypeOK
    <3>2. /\ lists \in Locals /\ lists.stale = local[h].stale
          /\ lists.added = local[h].added /\ lists.authors = local[h].authors
      BY <3>1 DEF Locals
    <3>3. \E place \in {"unfold", "list", "replace", "read", "insert"} :
              Goto(h, place, local[h]) \/ Goto(h, place, lists)
      BY <1>5, Zenon DEF ForgetRows, ForgetFold, RebuildList, RebuildReplace, RefoldRead
    <3> HIDE DEF lists
    <3> QED
      BY <2>1, <3>1, <3>2, <3>3
  <2>3. /\ at'[h] = place /\ local'[h] = my
        /\ \A k \in Handles : k # h => at[k] = "idle" /\ at'[k] = "idle"
    BY <2>1, <2>2, OneMoves DEF TypeInv
  <2>4. Cardinality(DOMAIN rows') = 0 /\ Cardinality({Rec[row].author : row \in DOMAIN rows'}) = 0
    <3>1. DOMAIN rows' = {}
      BY <2>1, NoRowsWalk
    <3>2. {Rec[row].author : row \in DOMAIN rows'} = {}
      BY <3>1
    <3> QED
      BY <3>1, <3>2, FS_EmptySet
  <2> QED
    BY <2>1, <2>2, <2>3, <2>4 DEF Counted
<1>6. ASSUME NEW h \in Handles, Insert(h)
      PROVE  Counted'
  <2>1. PICK id \in local[h].todo, my \in Locals :
             /\ Goto(h, "insert", my)
             /\ my.todo = local[h].todo \ {id}
             /\ my.stale = local[h].stale /\ my.under = local[h].under
             /\ \A other \in my.todo : Precedes(id, other)
             /\ \/ /\ id \in DOMAIN rows /\ rows' = rows
                   /\ my.added = local[h].added /\ my.authors = local[h].authors
                \/ /\ id \notin DOMAIN rows
                   /\ rows' = [row \in DOMAIN rows \cup {id} |->
                                  IF row = id THEN Decide(id, rows, local[h].under)
                                              ELSE rows[row]]
                   /\ my.added = local[h].added + 1
                   /\ my.authors = local[h].authors + (IF NewAuthor(id) THEN 1 ELSE 0)
    BY <1>6, Inserts, Zenon
  <2>2. at[h] = "insert"
    BY <1>6 DEF Insert
  <2>3. /\ at'[h] = "insert" /\ local'[h] = my
        /\ \A k \in Handles : k # h => at[k] = "idle" /\ at'[k] = "idle"
    BY <2>1, <2>2, OneMoves DEF TypeInv
  <2>4. id \in Ids
    BY <2>1 DEF TypeInv, TypeOK, Locals
  <2>5. ASSUME local[h].stale
        PROVE  /\ my.added = Cardinality(DOMAIN rows')
               /\ my.authors = Cardinality({Rec[row].author : row \in DOMAIN rows'})
    <3>1. /\ local[h].added = Cardinality(DOMAIN rows)
          /\ local[h].authors = Cardinality({Rec[row].author : row \in DOMAIN rows})
      BY <2>2, <2>5 DEF Counted
    <3>2. CASE id \in DOMAIN rows
      BY <2>1, <3>1, <3>2
    <3>3. CASE id \notin DOMAIN rows
      <4>1. DOMAIN rows' = DOMAIN rows \cup {id}
        BY <2>1, <3>3
      <4>2. Cardinality(DOMAIN rows \cup {id}) = Cardinality(DOMAIN rows) + 1
        BY <2>4, <3>3, AuthorsGrow, FS_AddElement
      <4> QED
        BY <2>1, <2>4, <3>1, <3>3, <4>1, <4>2, AuthorsGrow
    <3> QED
      BY <3>2, <3>3
  <2> QED
    BY <2>1, <2>3, <2>5 DEF Counted
<1> QED
  BY <1>1, <1>2, <1>3, <1>4, <1>5, <1>6 DEF Next, Load

\* What holds of serial handles: whatever is read of the index is covered until a load
\* dies, and decided and counted all along.
Sound == TypeInv /\ (crashes.fold = 0 => Covered) /\ Decided /\ Counted

\* At first there is nothing to cover, to decide or to count.
LEMMA InitSound == Init => Sound
<1> SUFFICES ASSUME Init PROVE Sound
  OBVIOUS
<1>1. TypeInv /\ Covered
  BY InitTypes, InitCovers
<1>2. \A h \in Handles : at[h] = "idle"
  BY DEF Init
<1>3. Decided
  BY <1>2, NoRowsWalk DEF Init, Decided
<1>4. Counted
  BY <1>2 DEF Counted
<1> QED
  BY <1>1, <1>3, <1>4 DEF Sound

\* Each step keeps it.
LEMMA SoundStep ==
    ASSUME OneReadingEach, PausesHaveCeilings, Sound, Exclusive, Exclusive', [Next]_vars
    PROVE  Sound'
<1>1. TypeInv'
  BY TypesKept DEF Sound
<1>2. CASE Next
  <2>1. crashes'.fold = 0 => Covered'
    BY <1>2, CrashesStay, PutCovers, LoadCovers, AroundCovers DEF Next, Sound
  <2>2. Decided'
    BY <1>2, PutDecides, LoadDecides, AroundDecides DEF Next, Sound
  <2>3. Counted'
    BY <1>2, StepCounts DEF Sound
  <2> QED
    BY <1>1, <2>1, <2>2, <2>3 DEF Sound
<1>3. CASE UNCHANGED vars
  <2>1. Covered => Covered'
    BY <1>3 DEF vars, Covered, Consumed, Ahead
  <2>2. crashes' = crashes /\ (Decided => Decided') /\ (Counted => Counted')
    BY <1>3 DEF vars, Decided, Counted, InTurn
  <2> QED
    BY <1>1, <2>1, <2>2 DEF Sound
<1> QED
  BY <1>2, <1>3

\* A load that ends leaves, if it began afresh or no load has died, every record with
\* the verdict of the whole-set pass.
LEMMA EndIsWhole ==
    ASSUME Sound, NEW h \in Handles, FoldEnd(h), local[h].stale \/ crashes.fold = 0
    PROVE  DOMAIN rows = stored /\ rows = WholePass(stored, local[h].under)
<1>1. DOMAIN rows = stored /\ Walks(rows, local[h].under)
  BY DEF FoldEnd, Sound, Decided
<1>2. DOMAIN rows \in SUBSET Ids /\ rows \in [DOMAIN rows -> Verdicts]
  BY TableType DEF Sound, TypeInv, TypeOK
<1>3. rows = WholePass(DOMAIN rows, local[h].under)
  BY <1>1, <1>2, WalkIsPass
<1> QED
  BY <1>1, <1>3

\* A finished re-fold leaves what folding every file afresh gives, totals included,
\* whatever loads and writes died before: for any records, limits and handles whose
\* calls do not overlap.
THEOREM RefoldsHeal ==
    ASSUME OneReadingEach, PausesHaveCeilings
    PROVE  Spec /\ []Exclusive => RefoldHeals
<1> DEFINE Heals == \A h \in Handles : FoldEnd(h) /\ local[h].stale =>
               /\ rows = WholePass(stored, local[h].under)
               /\ folded'.totals.consumed = Len(arrivals)
               /\ folded'.totals.records = Cardinality(stored)
               /\ folded'.totals.authors = Cardinality({Rec[id].author : id \in stored})
<1>1. Sound => Heals
  <2> SUFFICES ASSUME Sound, NEW h \in Handles, FoldEnd(h), local[h].stale
               PROVE  /\ rows = WholePass(stored, local[h].under)
                      /\ folded'.totals.consumed = Len(arrivals)
                      /\ folded'.totals.records = Cardinality(stored)
                      /\ folded'.totals.authors = Cardinality({Rec[id].author : id \in stored})
    OBVIOUS
  <2>1. DOMAIN rows = stored /\ rows = WholePass(stored, local[h].under)
    BY EndIsWhole
  <2>2. /\ local[h].added = Cardinality(stored)
        /\ local[h].authors = Cardinality({Rec[id].author : id \in stored})
    BY <2>1 DEF FoldEnd, Sound, Counted
  <2>3. folded'.totals = [consumed |-> Len(arrivals),
                          records |-> 0 + local[h].added, authors |-> 0 + local[h].authors]
    BY DEF FoldEnd, Nothing
  <2>4. local[h].added \in Nat /\ local[h].authors \in Nat
    BY DEF Sound, TypeInv, TypeOK, Locals
  <2> QED
    BY <2>1, <2>2, <2>3, <2>4
<1>2. Sound /\ Exclusive /\ Exclusive' /\ [Next]_vars => Sound'
  BY SoundStep
<1> HIDE DEF Heals
<1>3. Spec /\ []Exclusive => [][Heals]_vars
  BY <1>1, <1>2, InitSound, PTL DEF Spec
<1> QED
  BY <1>3 DEF RefoldHeals, Heals

-----------------------------------------------------------------------------
(* The step refinement of ChannelIndex.                                    *)

\* What the load in progress, if there is one, reads the rows under.
UnderOf(place, carried) ==
    IF \E h \in Handles : place[h] \in FoldPlaces
    THEN carried[CHOOSE h \in Handles : place[h] \in FoldPlaces].under
    ELSE Nobody
Asked == UnderOf(at, local)

\* It is the one load of the one handle that is not idle.
LEMMA UnderIs ==
    ASSUME NEW place, NEW carried, NEW h \in Handles, place[h] \in FoldPlaces,
           \A k \in Handles : place[h] # "idle" /\ place[k] # "idle" => h = k
    PROVE  UnderOf(place, carried) = carried[h].under
<1> DEFINE chosen == CHOOSE k \in Handles : place[k] \in FoldPlaces
<1>1. chosen \in Handles /\ place[chosen] \in FoldPlaces
  BY Zenon
<1>2. chosen = h
  <2> HIDE DEF chosen
  <2> QED
    BY <1>1 DEF FoldPlaces
<1> QED
  BY <1>2, Zenon DEF UnderOf

\* So it is before a step and after.
LEMMA AskedIs ==
    ASSUME Exclusive, Exclusive'
    PROVE  /\ (\A h \in Handles : at[h] \notin FoldPlaces) => Asked = Nobody
           /\ \A h \in Handles : at[h] \in FoldPlaces => Asked = local[h].under
           /\ (\A h \in Handles : at'[h] \notin FoldPlaces) => Asked' = Nobody
           /\ \A h \in Handles : at'[h] \in FoldPlaces => Asked' = local'[h].under
<1>1. /\ \A h, k \in Handles : at[h] # "idle" /\ at[k] # "idle" => h = k
      /\ \A h, k \in Handles : at'[h] # "idle" /\ at'[k] # "idle" => h = k
  BY DEF Exclusive
<1>2. Asked = UnderOf(at, local) /\ Asked' = UnderOf(at', local')
  BY DEF Asked, UnderOf
<1>3. /\ (\A h \in Handles : at[h] \notin FoldPlaces) => UnderOf(at, local) = Nobody
      /\ (\A h \in Handles : at'[h] \notin FoldPlaces) => UnderOf(at', local') = Nobody
  BY Zenon DEF UnderOf
<1>4. /\ \A h \in Handles : at[h] \in FoldPlaces => UnderOf(at, local) = local[h].under
      /\ \A h \in Handles : at'[h] \in FoldPlaces => UnderOf(at', local') = local'[h].under
  BY <1>1, UnderIs
<1> QED
  BY <1>2, <1>3, <1>4

\* A write is the storing of a record, or nothing a reader sees.
LEMMA PutStores ==
    ASSUME Sound, Exclusive, Exclusive', NEW h \in Handles, Put(h) \/ PutCrash(h)
    PROVE  /\ UNCHANGED <<limits, Asked, shown>>
           /\ stored' = stored \/ \E id \in Ids \ stored : stored' = stored \cup {id}
<1> USE DEF store, index, bounds
<1>1. PICK place \in {"idle", "named"} : (\E my : Goto(h, place, my)) /\ (at[h] # "idle" \/ place # "idle")
  BY Zenon DEF Put, PutName, PutFile, PutCrash
<1>2. at'[h] = place /\ \A k \in Handles : k # h => at[k] = "idle" /\ at'[k] = "idle"
  BY <1>1, OneMoves DEF Sound, TypeInv
<1>3. at[h] \in {"idle", "named"} /\ UNCHANGED <<limits, shown>>
  BY DEF Put, PutName, PutFile, PutCrash
<1>4. Asked = Nobody /\ Asked' = Nobody
  BY <1>2, <1>3, AskedIs DEF FoldPlaces
<1>5. stored' = stored \/ \E id \in Ids \ stored : stored' = stored \cup {id}
  <2>1. CASE PutFile(h)
    <3>1. local[h].put \in Ids /\ stored' = stored \cup {local[h].put}
      BY <2>1 DEF PutFile, Sound, TypeInv, PlaceOK
    <3> QED
      BY <3>1
  <2>2. CASE PutName(h) \/ PutCrash(h)
    BY <2>2 DEF PutName, PutCrash
  <2> QED
    BY <2>1, <2>2 DEF Put
<1> QED
  BY <1>3, <1>4, <1>5

\* A load asks when it begins, and shows when it ends.
LEMMA LoadShows ==
    ASSUME Sound, Exclusive, Exclusive', crashes.fold = 0, NEW h \in Handles, Load(h),
           LoadBegin(h) => Settled
    PROVE  /\ UNCHANGED <<stored, limits>>
           /\ \/ UNCHANGED <<Asked, shown>>
              \/ Asked = Nobody /\ Asked' = limits /\ UNCHANGED shown
              \/ /\ shown' = WholePass(stored, IF Asked = Nobody THEN limits ELSE Asked)
                 /\ Asked' = Nobody
<1> USE DEF store, index, bounds
<1>1. UNCHANGED <<stored, limits>>
  BY Zenon DEF Load, LoadBegin, LoadTail, ForgetRows, ForgetFold, RebuildList, RebuildReplace,
               RefoldRead, Insert, FoldEnd
<1>2. limits \in LimitsSet /\ local[h] \in Locals
  BY DEF Sound, TypeInv, TypeOK
<1>3. CASE LoadBegin(h)
  <2> DEFINE base  == IF folded = Nobody THEN Nothing ELSE folded.totals
             stale == folded # Nobody /\ folded.under # limits
             my    == [Blank EXCEPT !.under = limits, !.base = base,
                          !.announced = Len(arrivals), !.stale = stale]
  <2>1. at[h] = "idle"
    BY <1>3 DEF LoadBegin
  <2>2. CASE ~stale /\ Len(arrivals) = base.consumed /\ shown' = rows /\ UNCHANGED <<at, local>>
    <3>0. \A k \in Handles : at[k] = "idle"
      BY <1>3 DEF Settled
    <3>1. Asked = Nobody /\ Asked' = Nobody
      BY <2>2, <3>0, AskedIs DEF FoldPlaces
    <3>2. Consumed = Len(arrivals)
      BY <2>2 DEF Consumed, Nothing
    <3>3. \A id \in stored : id \in DOMAIN rows
      <4>1. \A id \in stored : id \in DOMAIN rows \/ Ahead(id)
        BY <3>0 DEF Sound, Covered
      <4>2. Len(arrivals) \in Nat
        BY DEF Sound, TypeInv, TypeOK
      <4> QED
        BY <3>2, <4>1, <4>2 DEF Ahead
    <3>4. DOMAIN rows = stored
      BY <3>3 DEF Sound, Decided
    <3>5. IF folded = Nobody THEN rows = NoRows ELSE Walks(rows, folded.under)
      BY <3>0 DEF Sound, Decided
    <3>6. Walks(rows, limits)
      BY <2>2, <3>5, NoRowsWalk
    <3>7. DOMAIN rows \in SUBSET Ids /\ rows \in [DOMAIN rows -> Verdicts]
      BY TableType DEF Sound, TypeInv, TypeOK
    <3> QED
      BY <1>1, <2>2, <3>1, <3>4, <3>6, <3>7, WalkIsPass
  <2>3. CASE Goto(h, "tail", my) /\ UNCHANGED shown
    <3>1. my.under = limits
      BY DEF Blank
    <3> HIDE DEF my
    <3>2. /\ at'[h] = "tail" /\ local'[h] = my
          /\ \A k \in Handles : k # h => at[k] = "idle" /\ at'[k] = "idle"
      BY <2>3, OneMoves DEF Sound, TypeInv
    <3>3. Asked = Nobody /\ Asked' = limits
      BY <2>1, <3>1, <3>2, AskedIs DEF FoldPlaces, Places
    <3> QED
      BY <1>1, <2>3, <3>3
  <2> QED
    BY <1>3, <2>2, <2>3 DEF LoadBegin
<1>4. ASSUME NEW place \in FoldPlaces, NEW my, Goto(h, place, my), at[h] \in FoldPlaces,
             my.under = local[h].under, UNCHANGED shown
      PROVE  UNCHANGED <<Asked, shown>>
  <2>1. at[h] # "idle"
    BY <1>4 DEF FoldPlaces
  <2>2. at'[h] = place /\ local'[h] = my
    BY <1>4, <2>1, OneMoves DEF Sound, TypeInv
  <2>3. Asked = local[h].under /\ Asked' = local'[h].under
    BY <1>4, <2>2, AskedIs
  <2> QED
    BY <1>4, <2>2, <2>3
<1>5. CASE \/ LoadTail(h) \/ ForgetRows(h) \/ ForgetFold(h) \/ RebuildList(h)
           \/ RebuildReplace(h) \/ RefoldRead(h)
  <2>1. \E place \in FoldPlaces :
            \/ Goto(h, place, [local[h] EXCEPT !.stale = TRUE])
            \/ Goto(h, place, [local[h] EXCEPT !.todo = Missing(h)])
            \/ Goto(h, place, [local[h] EXCEPT !.todo = stored])
            \/ Goto(h, place, local[h])
    BY <1>5, Zenon DEF LoadTail, ForgetRows, ForgetFold, RebuildList, RebuildReplace,
                       RefoldRead, FoldPlaces, Places
  <2>2. at[h] \in FoldPlaces /\ UNCHANGED shown
    BY <1>5 DEF LoadTail, ForgetRows, ForgetFold, RebuildList, RebuildReplace,
                RefoldRead, FoldPlaces, Places
  <2>3. /\ [local[h] EXCEPT !.stale = TRUE].under = local[h].under
        /\ [local[h] EXCEPT !.todo = Missing(h)].under = local[h].under
        /\ [local[h] EXCEPT !.todo = stored].under = local[h].under
    BY <1>2 DEF Locals
  <2> QED
    BY <1>1, <1>4, <2>1, <2>2, <2>3
<1>6. CASE Insert(h)
  <2>1. PICK my \in Locals : Goto(h, "insert", my) /\ my.under = local[h].under
    BY <1>6, Inserts, Zenon DEF Sound
  <2>2. at[h] = "insert" /\ UNCHANGED shown
    BY <1>6 DEF Insert
  <2> QED
    BY <1>1, <1>4, <2>1, <2>2 DEF FoldPlaces, Places
<1>7. CASE FoldEnd(h)
  <2>1. at[h] = "insert" /\ Goto(h, "idle", Blank) /\ shown' = rows
    BY <1>7 DEF FoldEnd
  <2>2. at'[h] = "idle" /\ \A k \in Handles : k # h => at'[k] = "idle"
    BY <2>1, OneMoves DEF Sound, TypeInv
  <2>3. Asked = local[h].under /\ Asked' = Nobody
    BY <2>1, <2>2, AskedIs DEF FoldPlaces, Places
  <2>4. Asked # Nobody
    BY <2>1, <2>3, NobodyIsNotLimits DEF Sound, TypeInv, PlaceOK, FoldPlaces, Places
  <2> QED
    BY <1>1, <1>7, <2>1, <2>3, <2>4, EndIsWhole
<1> QED
  BY <1>3, <1>5, <1>6, <1>7 DEF Load

\* The abstract pass is the same pass.
LEMMA SamePass == \A S, under : Index!WholePass(S, under) = WholePass(S, under)
<1>1. \A S : Index!Cardinality(S) = Cardinality(S)
  BY Zenon DEF Index!Cardinality, Cardinality
<1>2. ASSUME NEW id, NEW admitted, NEW under
      PROVE  Index!WalkVerdict(id, admitted, under) = WalkVerdict(id, admitted, under)
  BY <1>1, Zenon DEF Index!WalkVerdict, Index!Ceiling, Index!Like, Index!Precedes,
     Index!EarlierReading, Index!SameReading, Index!Admitted, Index!TooSoon, Index!OverRate,
     WalkVerdict, Ceiling, Like, Precedes, EarlierReading, SameReading, Admitted, TooSoon, OverRate
<1>3. ASSUME NEW id, NEW S PROVE Index!Before(id, S) = Before(id, S)
  BY Zenon DEF Index!Before, Before, Index!Precedes, Index!EarlierReading, Index!SameReading,
     Precedes, EarlierReading, SameReading
<1>4. ASSUME NEW S, NEW under PROVE Index!Greedy(S, under) = Greedy(S, under)
  <2>1. \A A : A \in Index!Greedy(S, under) <=> A \in Greedy(S, under)
    BY <1>2, <1>3, Zenon DEF Index!Greedy, Greedy, Index!Admitted, Admitted
  <2> QED
    BY <2>1
<1> SUFFICES ASSUME NEW S, NEW under PROVE Index!WholePass(S, under) = WholePass(S, under)
  OBVIOUS
<1> DEFINE admitted == CHOOSE A \in Greedy(S, under) : TRUE
           other == CHOOSE A \in Index!Greedy(S, under) : TRUE
<1>5. WholePass(S, under) = [id \in S |-> WalkVerdict(id, Before(id, admitted), under)]
  BY Zenon DEF WholePass
<1>6. Index!WholePass(S, under)
        = [id \in S |-> Index!WalkVerdict(id, Index!Before(id, other), under)]
  BY Zenon DEF Index!WholePass
<1>7. other = admitted
  BY <1>4
<1> HIDE DEF admitted, other
<1> QED
  BY <1>2, <1>3, <1>5, <1>6, <1>7

\* A call begins only when no other is in progress.
Begins == \A h \in Handles : PutName(h) \/ LoadBegin(h) => Settled
Serially == [][Begins]_vars

\* Calls that begin so do not overlap.
LEMMA SerialIsExclusive ==
    ASSUME TypeInv, Exclusive, [Next /\ Begins]_vars
    PROVE  Exclusive'
<1> USE DEF store, index, bounds
<1>1. CASE UNCHANGED vars
  BY <1>1 DEF vars, Exclusive
<1>2. ASSUME NEW h \in Handles, Put(h) \/ Load(h) \/ PutCrash(h) \/ FoldCrash(h), Begins
      PROVE  Exclusive'
  <2>1. CASE Settled
    <3>1. UNCHANGED at \/ \E place : at' = [at EXCEPT ![h] = place]
      BY <1>2, Zenon DEF Put, PutName, PutFile, Load, LoadBegin, LoadTail, ForgetRows, ForgetFold,
             RebuildList, RebuildReplace, RefoldRead, Insert, FoldEnd, PutCrash, FoldCrash, Goto
    <3> QED
      BY <2>1, <3>1 DEF Settled, Exclusive, TypeInv, TypeOK
  <2>2. CASE ~Settled
    <3>1. at[h] # "idle"
      <4>1. ~PutName(h) /\ ~LoadBegin(h)
        BY <1>2, <2>2 DEF Begins
      <4>2. \/ at[h] \in {"named", "tail", "forget", "unfold", "list", "replace", "read", "insert"}
            \/ at[h] \in FoldPlaces
        BY <1>2, <4>1, Zenon DEF Put, PutFile, Load, LoadTail, ForgetRows, ForgetFold,
             RebuildList, RebuildReplace, RefoldRead, Insert, FoldEnd, PutCrash, FoldCrash
      <4> QED
        BY <4>2 DEF FoldPlaces
    <3>2. \E place : at' = [at EXCEPT ![h] = place]
      <4>1. ~PutName(h) /\ ~LoadBegin(h)
        BY <1>2, <2>2 DEF Begins
      <4> QED
        BY <1>2, <4>1, Zenon DEF Put, PutFile, Load, LoadTail, ForgetRows, ForgetFold,
             RebuildList, RebuildReplace, RefoldRead, Insert, FoldEnd, PutCrash, FoldCrash, Goto
    <3> QED
      BY <3>1, <3>2 DEF Exclusive, TypeInv, TypeOK
  <2> QED
    BY <2>1, <2>2
<1>3. CASE Retune
  BY <1>3 DEF Retune, Exclusive
<1> QED
  BY <1>1, <1>2, <1>3 DEF Next

\* A step, until a load dies, is one of ChannelIndex or changes nothing it speaks of.
LEMMA StepImplements ==
    ASSUME Sound, Exclusive, Exclusive', [Next /\ Begins]_vars
    PROVE  crashes'.fold > 0 \/ [Index!Next]_Index!vars
<1> USE DEF store, index, bounds
<1> SUFFICES ASSUME ~(crashes'.fold > 0) PROVE [Index!Next]_Index!vars
  OBVIOUS
<1>1. CASE UNCHANGED vars
  BY <1>1 DEF vars, Index!vars
<1>2. CASE Next /\ Begins
  <2>1. crashes.fold = 0 /\ crashes'.fold = 0
    <3>1. crashes'.fold = 0
      BY TypesKept, <1>2 DEF Sound, TypeInv, TypeOK
    <3> QED
      BY <3>1, <1>2, CrashesStay DEF Sound
  <2>2. ASSUME NEW h \in Handles, Put(h) \/ PutCrash(h)
        PROVE  [Index!Next]_Index!vars
    <3>1. /\ UNCHANGED <<limits, Asked, shown>>
          /\ stored' = stored \/ \E id \in Ids \ stored : stored' = stored \cup {id}
      BY <2>2, PutStores
    <3> QED
      BY <3>1 DEF Asked, UnderOf, Index!Next, Index!Store, Index!vars
  <2>3. ASSUME NEW h \in Handles, Load(h)
        PROVE  [Index!Next]_Index!vars
    <3>1. LoadBegin(h) => Settled
      BY <1>2 DEF Begins
    <3>2. /\ UNCHANGED <<stored, limits>>
          /\ \/ UNCHANGED <<Asked, shown>>
             \/ Asked = Nobody /\ Asked' = limits /\ UNCHANGED shown
             \/ /\ shown' = Index!WholePass(stored, IF Asked = Nobody THEN limits ELSE Asked)
                /\ Asked' = Nobody
      BY <2>1, <2>3, <3>1, LoadShows, SamePass
    <3> QED
      BY <3>2 DEF Asked, UnderOf, Index!Next, Index!Ask, Index!Show, Index!vars
  <2>4. CASE Retune
    <3>1. limits' \in LimitsSet /\ UNCHANGED <<stored, Asked, shown>>
      BY <2>4 DEF Retune, Asked, UnderOf
    <3> QED
      BY <3>1 DEF Asked, UnderOf, Index!Next, Index!Retune, Index!vars
  <2>5. ASSUME NEW h \in Handles, FoldCrash(h)
        PROVE  FALSE
    <3>1. crashes' = [crashes EXCEPT !.fold = @ + 1]
      BY <2>5 DEF FoldCrash
    <3> QED
      BY <2>1, <3>1 DEF Sound, TypeInv, TypeOK
  <2> QED
    BY <1>2, <2>2, <2>3, <2>4, <2>5 DEF Next
<1> QED
  BY <1>1, <1>2

\* Projection implements ChannelIndex up to the first death of a load: a reader is
\* shown every record stored, with the verdict folding all of them afresh under the
\* limits it asked with would give, for any records, handles whose calls do not
\* overlap, limits, and writers that die.
THEOREM IndexIsImplemented ==
    ASSUME OneReadingEach, PausesHaveCeilings
    PROVE  Spec /\ Serially => ImplementsIndex
<1>1. Init => Index!Init
  <2> SUFFICES ASSUME Init PROVE Index!Init
    OBVIOUS
  <2>1. Asked = Nobody
    BY DEF Init, Asked, UnderOf, FoldPlaces
  <2> QED
    BY <2>1 DEF Init, Asked, UnderOf, Index!Init, Index!NoRows, Index!Admitted, NoRows, Admitted
<1>2. Init => Exclusive
  BY DEF Init, Exclusive
<1>3. Sound /\ Exclusive /\ [Next /\ Begins]_vars => Sound' /\ Exclusive'
  BY SoundStep, SerialIsExclusive DEF Sound
<1>4. Sound /\ Exclusive /\ Sound' /\ Exclusive' /\ [Next /\ Begins]_vars
        => crashes'.fold > 0 \/ [Index!Next]_Index!vars
  BY StepImplements
<1>5. Spec /\ Serially => [][Next /\ Begins]_vars
  BY PTL DEF Spec, Serially
<1>6. [](Sound /\ Exclusive) /\ [][Next /\ Begins]_vars
        => [][crashes'.fold > 0 \/ Index!Next]_Index!vars
  BY <1>4, PTL
<1> QED
  BY <1>1, <1>2, <1>3, <1>5, <1>6, InitSound, PTL DEF Spec, ImplementsIndex

=============================================================================
