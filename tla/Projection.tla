----------------------------- MODULE Projection -----------------------------
(***************************************************************************)
(* One channel of a store: its record files, the arrival log that names    *)
(* them, and the SQLite projection a reader is served from (kols-node      *)
(* store.rs, kols-store schema.rs).                                        *)
(*                                                                         *)
(* A handle is one Store value: the window's executor holds one, the       *)
(* running node another, a one-shot command a third, and nothing locks     *)
(* them against each other.  put_record and load are therefore split at    *)
(* every write another handle can see, and at every read that is used      *)
(* after one; a crash, or an error that returns early, may fall between    *)
(* any two steps.                                                          *)
(*                                                                         *)
(* The other files put_record writes, the own-readings index and the       *)
(* activity stamps, are not read on this path: AuthorLog has the first.    *)
(***************************************************************************)
EXTENDS ReaderLimits, Sequences

CONSTANTS
    Handles,         \* Store handles open on the same directory
    LimitsSet,       \* the limits the channel may be put under
    Nobody,          \* no folds row; no reader in progress
    MaxRetunes,      \* bound: changes of the limits
    MaxPutCrashes,   \* bound: writers that die between two writes
    MaxFoldCrashes   \* bound: readers that die between two writes

ASSUME IdsFinite == IsFiniteSet(Ids)
ASSUME NobodyIsNotLimits == Nobody \notin LimitsSet
ASSUME RecordsAssumption ==
    /\ Ids \subseteq Nat /\ RateWindow \in Nat
    /\ \A id \in Ids : /\ Rec[id].wall \in Nat /\ Rec[id].counter \in Nat
                       /\ Rec[id].class \in {"message", "reaction", "control"}
ASSUME LimitsAreNat ==
    \A l \in LimitsSet : l.message \in Nat /\ l.reaction \in Nat /\ l.slowmode \in Nat
ASSUME BoundsAreNat ==
    /\ MaxRetunes \in Nat
    /\ MaxPutCrashes \in Nat
    /\ MaxFoldCrashes \in Nat

VARIABLES
    stored,      \* ids with a record file
    arrivals,    \* the arrival log: a sequence of ids
    rows,        \* the records table: [SUBSET Ids -> Verdicts]
    folded,      \* the folds row [under, consumed, records, authors], or Nobody
    limits,      \* the limits policy and the channel's slowmode give now
    at,          \* where each handle is
    local,       \* what each handle carries from one step to the next
    shown,       \* what the last load returned: [SUBSET Ids -> Verdicts]
    crashes,     \* [put, fold]: how many of each so far
    retunes      \* how many changes of the limits so far

store == <<stored, arrivals>>
index == <<rows, folded>>
bounds == <<crashes, retunes>>
vars == <<stored, arrivals, rows, folded, limits, at, local, shown, crashes, retunes>>

Places == {"idle", "named", "tail", "forget", "unfold", "list", "replace",
           "read", "insert"}
FoldPlaces == Places \ {"idle", "named"}

\* A folds row that is absent reads as one that has taken in nothing.
Totals == [consumed : Nat, records : Nat, authors : Nat]
Nothing == [consumed |-> 0, records |-> 0, authors |-> 0]
FoldRows == [under : LimitsSet, totals : Totals]

ASSUME NobodyIsNoRow == Nobody \notin FoldRows

\* put: the record being stored.  under, base, announced: what load read first.
\* todo: ids still to insert, or the directory listing a rebuild works from.
Locals == [put : Ids \cup {Nobody}, under : LimitsSet \cup {Nobody}, base : Totals,
           announced : Nat, stale : BOOLEAN, todo : SUBSET Ids,
           added : Nat, authors : Nat]
Blank == [put |-> Nobody, under |-> Nobody, base |-> Nothing, announced |-> 0,
          stale |-> FALSE, todo |-> {}, added |-> 0, authors |-> 0]

TypeOK ==
    /\ stored \in SUBSET Ids
    /\ arrivals \in Seq(Ids)
    /\ rows \in Tables
    /\ folded \in {Nobody} \cup FoldRows
    /\ limits \in LimitsSet
    /\ at \in [Handles -> Places]
    /\ local \in [Handles -> Locals]
    /\ shown \in Tables
    /\ crashes \in [put : 0..MaxPutCrashes, fold : 0..MaxFoldCrashes]
    /\ retunes \in 0..MaxRetunes

Init ==
    /\ stored = {}
    /\ arrivals = << >>
    /\ rows = NoRows
    /\ folded = Nobody
    /\ limits \in LimitsSet
    /\ at = [h \in Handles |-> "idle"]
    /\ local = [h \in Handles |-> Blank]
    /\ shown = NoRows
    /\ crashes = [put |-> 0, fold |-> 0]
    /\ retunes = 0

Goto(h, place, carrying) ==
    /\ at' = [at EXCEPT ![h] = place]
    /\ local' = [local EXCEPT ![h] = carrying]

-----------------------------------------------------------------------------
(* put_record: name the record in the arrival log, then write its file.    *)

PutName(h) == \E id \in Ids \ stored :
    /\ at[h] = "idle"
    /\ arrivals' = Append(arrivals, id)
    /\ Goto(h, "named", [Blank EXCEPT !.put = id])
    /\ UNCHANGED <<stored, index, limits, shown, bounds>>

PutFile(h) ==
    /\ at[h] = "named"
    /\ stored' = stored \cup {local[h].put}
    /\ Goto(h, "idle", Blank)
    /\ UNCHANGED <<arrivals, index, limits, shown, bounds>>

-----------------------------------------------------------------------------
(* load, whose first act is fold_into: bring the rows up to date, then     *)
(* return them.                                                            *)

\* The folds row and the length of the arrival log say whether to look.
LoadBegin(h) ==
    LET base  == IF folded = Nobody THEN Nothing ELSE folded.totals
        stale == folded # Nobody /\ folded.under # limits
    IN  /\ at[h] = "idle"
        /\ \/ /\ ~stale /\ Len(arrivals) = base.consumed
              /\ shown' = rows
              /\ UNCHANGED <<at, local>>
           \/ /\ stale \/ Len(arrivals) # base.consumed
              /\ Goto(h, "tail", [Blank EXCEPT !.under = limits, !.base = base,
                                     !.announced = Len(arrivals), !.stale = stale])
              /\ UNCHANGED shown
        /\ UNCHANGED <<store, index, limits, bounds>>

\* Mutant: the tail is read from one entry too late.
MissingSkipsOne(h) ==
    {id \in {arrivals[n] : n \in (local[h].base.consumed + 2)..Len(arrivals)} :
        id \notin DOMAIN rows /\ id \in stored}

\* arrived_since: the ids named past the ones consumed that are not yet rows
\* and whose files can be read.
Missing(h) ==
    {id \in {arrivals[n] : n \in (local[h].base.consumed + 1)..Len(arrivals)} :
        id \notin DOMAIN rows /\ id \in stored}

\* Mutant: a record that sorts among the rows is decided where it stands.
ReachesBackNever(missing) == FALSE

\* One that sorts before a row already folded makes the whole fold stale.
ReachesBack(missing) ==
    \E id \in missing, row \in DOMAIN rows : ~ Precedes(row, id)

LoadTail(h) ==
    LET stale == local[h].stale \/ ReachesBack(Missing(h))
    IN  /\ at[h] = "tail"
        /\ \/ /\ stale
              /\ Goto(h, "forget", [local[h] EXCEPT !.stale = TRUE])
           \/ /\ ~stale
              /\ Goto(h, "insert", [local[h] EXCEPT !.todo = Missing(h)])
        /\ UNCHANGED <<store, index, limits, shown, bounds>>

\* Mutant: a re-fold keeps the rows it should decide again.
ForgetNoRows(h) ==
    /\ at[h] = "forget"
    /\ Goto(h, "unfold", local[h])
    /\ UNCHANGED <<store, index, limits, shown, bounds>>

\* forget: two statements, each its own transaction.
ForgetRows(h) ==
    /\ at[h] = "forget"
    /\ rows' = NoRows
    /\ Goto(h, "unfold", local[h])
    /\ UNCHANGED <<store, folded, limits, shown, bounds>>

ForgetFold(h) ==
    /\ at[h] = "unfold"
    /\ folded' = Nobody
    /\ Goto(h, "list", local[h])
    /\ UNCHANGED <<store, rows, limits, shown, bounds>>

\* Mutant: the log is rebuilt from the index, not from the files.
RebuildListRows(h) ==
    /\ at[h] = "list"
    /\ Goto(h, "replace", [local[h] EXCEPT !.todo = DOMAIN rows])
    /\ UNCHANGED <<store, index, limits, shown, bounds>>

\* rebuild_arrivals: list the record directory, then replace the log.
RebuildList(h) ==
    /\ at[h] = "list"
    /\ Goto(h, "replace", [local[h] EXCEPT !.todo = stored])
    /\ UNCHANGED <<store, index, limits, shown, bounds>>

\* The ids of a listing in some fixed order; the code sorts them, and nothing
\* depends on which order it is.
Listing(S) ==
    CHOOSE s \in [1..Cardinality(S) -> S] : {s[n] : n \in 1..Cardinality(S)} = S

RebuildReplace(h) ==
    /\ at[h] = "replace"
    /\ arrivals' = Listing(local[h].todo)
    /\ Goto(h, "read", local[h])
    /\ UNCHANGED <<stored, index, limits, shown, bounds>>

\* records: every record file the channel has.
RefoldRead(h) ==
    /\ at[h] = "read"
    /\ Goto(h, "insert", [local[h] EXCEPT !.todo = stored])
    /\ UNCHANGED <<store, index, limits, shown, bounds>>

\* The earliest record left: skipped if a row already, else decided and stored.
Insert(h) == \E id \in local[h].todo :
    LET rest == [local[h] EXCEPT !.todo = @ \ {id}]
        newAuthor == \A row \in DOMAIN rows : Rec[row].author # Rec[id].author
    IN  /\ at[h] = "insert"
        /\ IsFirst(id, local[h].todo)
        /\ \/ /\ id \in DOMAIN rows
              /\ Goto(h, "insert", rest)
              /\ UNCHANGED rows
           \/ /\ id \notin DOMAIN rows
              /\ rows' = [row \in DOMAIN rows \cup {id} |->
                             IF row = id THEN Decide(id, rows, local[h].under)
                                         ELSE rows[row]]
              /\ Goto(h, "insert", [rest EXCEPT !.added = @ + 1,
                                       !.authors = @ + (IF newAuthor THEN 1 ELSE 0)])
        /\ UNCHANGED <<store, folded, limits, shown, bounds>>

\* The folds row is written last, and the reader is shown what the index holds.
FoldEnd(h) ==
    LET my   == local[h]
        base == IF my.stale THEN Nothing ELSE my.base
    IN  /\ at[h] = "insert"
        /\ my.todo = {}
        /\ folded' = [under |-> my.under,
                      totals |-> [consumed |-> IF my.stale THEN Len(arrivals)
                                                           ELSE my.announced,
                                  records |-> base.records + my.added,
                                  authors |-> base.authors + my.authors]]
        /\ shown' = rows
        /\ Goto(h, "idle", Blank)
        /\ UNCHANGED <<store, rows, limits, bounds>>

-----------------------------------------------------------------------------
(* What happens around them.                                               *)

\* A policy change or a slowmode set by a moderator.
Retune ==
    /\ retunes < MaxRetunes
    /\ limits' \in LimitsSet \ {limits}
    /\ retunes' = retunes + 1
    /\ UNCHANGED <<store, index, at, local, shown, crashes>>

\* A process dies, or a call returns an error, with its work half done.
PutCrash(h) ==
    /\ at[h] = "named"
    /\ crashes.put < MaxPutCrashes
    /\ crashes' = [crashes EXCEPT !.put = @ + 1]
    /\ Goto(h, "idle", Blank)
    /\ UNCHANGED <<store, index, limits, shown, retunes>>

FoldCrash(h) ==
    /\ at[h] \in FoldPlaces
    /\ crashes.fold < MaxFoldCrashes
    /\ crashes' = [crashes EXCEPT !.fold = @ + 1]
    /\ Goto(h, "idle", Blank)
    /\ UNCHANGED <<store, index, limits, shown, retunes>>

Put(h) == PutName(h) \/ PutFile(h)

Load(h) ==
    \/ LoadBegin(h) \/ LoadTail(h)
    \/ ForgetRows(h) \/ ForgetFold(h) \/ RebuildList(h) \/ RebuildReplace(h)
    \/ RefoldRead(h)
    \/ Insert(h) \/ FoldEnd(h)

Next ==
    \/ \E h \in Handles : Put(h) \/ Load(h) \/ PutCrash(h) \/ FoldCrash(h)
    \/ Retune

Spec == Init /\ [][Next]_vars
-----------------------------------------------------------------------------
(* Properties.                                                             *)

Settled == \A h \in Handles : at[h] = "idle"
Consumed == IF folded = Nobody THEN 0 ELSE folded.totals.consumed

\* Until a load dies, whenever no call is in progress, every record with a file
\* is a row a reader is served, or is named in the part of the arrival log the next fold reads.
\* A record that is neither is a message nobody will be shown: put_record's
\* order of writes, the count a fold consumes and the rebuild after a re-fold
\* exist for this.
NothingHidden == Settled /\ crashes.fold = 0 =>
    \A id \in stored :
        \/ id \in DOMAIN rows
        \/ \E n \in (Consumed + 1)..Len(arrivals) : arrivals[n] = id

\* A re-fold that finishes leaves what folding every record file afresh gives,
\* totals included, whatever loads and writes died before it: a projection lost
\* to a crash "costs a rebuild and never a record".
RefoldHeals == [][\A h \in Handles : FoldEnd(h) /\ local[h].stale =>
    /\ rows = WholePass(stored, local[h].under)
    /\ folded'.totals.consumed = Len(arrivals)
    /\ folded'.totals.records = Cardinality(stored)
    /\ folded'.totals.authors = Cardinality({Rec[id].author : id \in stored})]_vars

\* A record file the arrival log does not name is out of reach of every fold that
\* reads the log's tail.  No death of a write or of a load, at any step, and no
\* rebuild of the log leaves one.
StoredIsNamed == \A id \in stored : \E n \in 1..Len(arrivals) : arrivals[n] = id

\* What a reader is served through the index is what folding every record file
\* afresh, under the limits it asked with, would have served it: up to the death
\* of a load, every step is one of ChannelIndex or changes nothing it speaks of.
Index == INSTANCE ChannelIndex WITH
    held  <- stored,
    asked <- IF \E h \in Handles : at[h] \in FoldPlaces
             THEN local[CHOOSE h \in Handles : at[h] \in FoldPlaces].under
             ELSE Nobody
ImplementsIndex == Index!Init /\ [][crashes'.fold > 0 \/ Index!Next]_Index!vars

=============================================================================
