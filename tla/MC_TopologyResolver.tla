------------------------ MODULE MC_TopologyResolver ------------------------
(* Three pods; lags on both sides of the 5 second threshold and unknown.   *)
EXTENDS TopologyResolver

MC_Lags == {3, 5, 6}

=============================================================================
