---------------------------- MODULE ChannelIndex ----------------------------
(***************************************************************************)
(* What the read side of a channel promises, with no files and no index:   *)
(* a channel is a set of records, a reader asks for it under the limits of *)
(* the moment, and what it is shown is every record held, each with the    *)
(* verdict the whole-set pass gives it.  Projection implements this.       *)
(***************************************************************************)
EXTENDS ReaderLimits

CONSTANTS LimitsSet, Nobody

VARIABLES
    held,    \* the records stored
    limits,  \* the channel's limits now
    asked,   \* the limits a reader in progress asked under, or Nobody
    shown    \* what the last reader was shown: [SUBSET Ids -> Verdicts]

Init ==
    /\ held = {}
    /\ limits \in LimitsSet
    /\ asked = Nobody
    /\ shown = NoRows

Store == \E id \in Ids \ held :
    /\ held' = held \cup {id}
    /\ UNCHANGED <<limits, asked, shown>>

Retune ==
    /\ limits' \in LimitsSet
    /\ UNCHANGED <<held, asked, shown>>

Ask ==
    /\ asked = Nobody
    /\ asked' = limits
    /\ UNCHANGED <<held, limits, shown>>

Show ==
    /\ shown' = WholePass(held, IF asked = Nobody THEN limits ELSE asked)
    /\ asked' = Nobody
    /\ UNCHANGED <<held, limits>>

Next == Store \/ Retune \/ Ask \/ Show

vars == <<held, limits, asked, shown>>

Spec == Init /\ [][Next]_vars
=============================================================================
