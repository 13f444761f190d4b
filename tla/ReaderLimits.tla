---------------------------- MODULE ReaderLimits ----------------------------
(***************************************************************************)
(* The rate rules a reader applies to a channel's records, twice over:     *)
(*                                                                         *)
(*   - kols-core's whole-set pass (limits.rs, withheld): walk every record *)
(*     in merge order and admit greedily;                                  *)
(*   - kols-store's incremental decision (verdict.rs, decide): one record  *)
(*     against the verdicts already stored.                                *)
(*                                                                         *)
(* The check a writer makes of itself before it signs is AuthorLog's       *)
(* WithinRate.  A record is a member of Ids with its metadata in Rec;      *)
(* milliseconds are whatever unit the instance picks for RateWindow.       *)
(***************************************************************************)
EXTENDS Integers, FiniteSets

CONSTANTS
    Ids,         \* record ids; a natural number each, so that ids are ordered
    Rec,         \* [Ids -> [wall, counter, author, class]], of classes
                 \* "message", "reaction" and "control"
    RateWindow   \* the trailing window a ceiling counts over (60 000 ms)

Admitted == "admitted"
OverRate == "over-rate"
TooSoon  == "too-soon"
Verdicts == {Admitted, OverRate, TooSoon}

\* A verdict table: some records, each with what became of it.
Tables == UNION {[S -> Verdicts] : S \in SUBSET Ids}
NoRows == [id \in {} |-> Admitted]

\* Limits are [message, reaction, slowmode]: two ceilings and a pause.
Ceiling(class, limits) ==
    CASE class = "message"  -> limits.message
      [] class = "reaction" -> limits.reaction
      [] OTHER              -> 0

-----------------------------------------------------------------------------
(* The order of records: clock reading, then id.                           *)

EarlierReading(a, b) ==
    \/ a.wall < b.wall
    \/ a.wall = b.wall /\ a.counter < b.counter

SameReading(a, b) == a.wall = b.wall /\ a.counter = b.counter

Precedes(i, j) ==
    \/ EarlierReading(Rec[i], Rec[j])
    \/ SameReading(Rec[i], Rec[j]) /\ i < j

IsFirst(id, S) == id \in S /\ \A other \in S \ {id} : Precedes(id, other)

\* The records of a set that count against the same rules as id.
Like(id, S) == {j \in S : Rec[j].author = Rec[id].author /\ Rec[j].class = Rec[id].class}

-----------------------------------------------------------------------------
(* The whole-set pass.                                                     *)

\* What the walk makes of id, having admitted these before it.
WalkVerdict(id, admitted, limits) ==
    LET mine == Like(id, admitted)
        at   == Rec[id].wall
        last == CHOOSE j \in mine : \A k \in mine \ {j} : Precedes(k, j)
    IN  IF Ceiling(Rec[id].class, limits) <= 0 THEN Admitted
        ELSE IF /\ Rec[id].class = "message"
                /\ limits.slowmode > 0
                /\ mine # {}
                /\ at - Rec[last].wall < limits.slowmode THEN TooSoon
        ELSE IF Cardinality({j \in mine : Rec[j].wall > at - RateWindow})
                    >= Ceiling(Rec[id].class, limits) THEN OverRate
        ELSE Admitted

Before(id, S) == {j \in S : Precedes(j, id)}

\* What a walk from the earliest to the latest can have admitted: each record is there
\* if it is admitted after those before it.
Greedy(S, limits) ==
    {A \in SUBSET S : \A id \in S :
        id \in A <=> WalkVerdict(id, Before(id, A), limits) = Admitted}

\* The verdicts of a set of records, by the one such set.
WholePass(S, limits) ==
    LET admitted == CHOOSE A \in Greedy(S, limits) : TRUE
    IN  [id \in S |-> WalkVerdict(id, Before(id, admitted), limits)]

-----------------------------------------------------------------------------
(* The incremental decision.                                               *)

\* admitted_since: admitted rows later than a moment, as the index returns them.
AdmittedSince(id, table, since) ==
    {j \in Like(id, DOMAIN table) : table[j] = Admitted /\ Rec[j].wall > since}

Decide(id, table, limits) ==
    LET at == Rec[id].wall
        Earlier(T) == {j \in T : EarlierReading(Rec[j], Rec[id])}
    IN  IF Rec[id].class = "control" THEN Admitted
        ELSE IF /\ Rec[id].class = "message"
                /\ limits.slowmode > 0
                /\ Earlier(AdmittedSince(id, table, at - limits.slowmode)) # {}
             THEN TooSoon
        ELSE IF Ceiling(Rec[id].class, limits) <= 0 THEN Admitted
        ELSE IF Cardinality(Earlier(AdmittedSince(id, table, at - RateWindow)))
                    >= Ceiling(Rec[id].class, limits) THEN OverRate
        ELSE Admitted
=============================================================================
