---------------------------- MODULE MCTridentList ----------------------------
(* Bounds for TridentList: two agents, three beacons (so one repeats), one *)
(* foreign datagram (empty or undecodable).                                *)
EXTENDS TridentList

CONSTANTS v1, v2

MCVtaps == {v1, v2}

=============================================================================
