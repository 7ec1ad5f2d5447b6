--------------------------- MODULE MC_ClusterSync ---------------------------
(* Model-checking instance of ClusterSync: three spec versions (two user   *)
(* edits, so an edit can land before, during and after a call) and a      *)
(* statefulset of three pods, so the Discover loop runs up to three times  *)
(* and readiness can have a gap below a ready pod ({1}, {2}, {0, 2}).     *)
EXTENDS ClusterSync

MC_MaxVersion == 3
MC_MaxReady == 3

(* One restart of the operator, at any point of any call.                 *)
MC_MaxRestarts == 1

(* Liveness is checked with one user edit, which still races the calls,   *)
(* and two pods, which still allow the gap ready = {1}.                   *)
MC_MaxVersionLive == 2
MC_MaxReadyLive == 2

=============================================================================
