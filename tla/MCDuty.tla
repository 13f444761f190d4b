------------------------------- MODULE MCDuty -------------------------------
(* Two machines of one network, one segment, and room for it on either.     *)
EXTENDS Duty, TLC

CONSTANTS ada, ben, hall, one, left, right

MCNetworkOf == (ada :> hall) @@ (ben :> hall) @@ (one :> hall)
MCDiskOf == (ada :> left) @@ (ben :> right)
MCPlacement == (one :> <<ada, ben>>)
MCAge == (one :> 1)
MCSize == (one :> 1)
MCOffered == (ada :> 1) @@ (ben :> 1)
MCCeiling == (left :> 2) @@ (right :> 2)
MCStart == (ada :> {one}) @@ (ben :> {})
=============================================================================
