---------------------------- MODULE MCGoverning -----------------------------
(***************************************************************************)
(* A window and a command of one founder, and one other member.            *)
(***************************************************************************)
EXTENDS Governing
CONSTANTS a, b, helpers, stewards

Sets == [do : {"set"}, key : Settings, value : {1}]
Grants == [do : {"grant"}, role : {helpers}, verb : Verbs, on : {TRUE}]
           \cup [do : {"grant"}, role : {helpers}, verb : Verbs, on : {FALSE}]
Creates == [do : {"role"}, role : {helpers}]
Joins == [do : {"member"}, group : {Founders}, who : {b}, on : BOOLEAN]
StepsDown == [do : {"member"}, group : {Founders, stewards}, who : {a}, on : {FALSE}]
Leaves == [do : {"leave"}]

MCUnrestricted == {Founders, stewards}
MCRequests == Sets \cup Grants \cup Creates \cup Joins \cup StepsDown \cup Leaves
MCPeerRequests ==
    [do : {"member"}, group : {Founders}, who : {a, b}, on : {FALSE}]
        \cup [do : {"grant"}, role : {helpers}, verb : Verbs, on : {TRUE}]
=============================================================================
