---------------------------- MODULE MCProjection ----------------------------
(* Four records of two authors around the edges of a window three ticks    *)
(* wide, so that which of them are refused depends on which have arrived.  *)
EXTENDS Projection

Reading(wall, counter, author, class) ==
    [wall |-> wall, counter |-> counter, author |-> author, class |-> class]

FourRecords == << Reading(0, 0, "ann", "message"),
                  Reading(2, 0, "ann", "message"),
                  Reading(3, 0, "ann", "message"),
                  Reading(2, 0, "bob", "reaction") >>

Tight == [message |-> 1, reaction |-> 1, slowmode |-> 0]
Paced == [message |-> 2, reaction |-> 1, slowmode |-> 2]

TightOrPaced == {Tight, Paced}
=============================================================================
