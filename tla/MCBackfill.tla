----------------------------- MODULE MCBackfill -----------------------------
(* A log of three segments in one channel, and in another channel one whose *)
(* only segment is refused; indices sort among the segments.                *)
EXTENDS Backfill, TLC

CONSTANTS long, short, main, side

MCChannelOf == (long :> main) @@ (short :> side)
MCStart == (long :> 3) @@ (short :> 0)
MCLength == (long :> 3) @@ (short :> 1)
MCOversize == {Segment(short, 1)}
MCRank == [o \in Objects |->
             (IF o.log = long THEN 0 ELSE 10) + 2 * o.pub
             + (IF o.kind = "index" THEN 1 ELSE 0)]
=============================================================================
