------------------------- MODULE ResourceConvergence -------------------------
(***************************************************************************)
(* What the reconciliation engine promises (spec 4.1), without calls,      *)
(* events or failures: NumResources managed resources in a fixed order     *)
(* converge towards the cluster spec, and a resource is brought to a spec  *)
(* version only once every resource before it has that version (earlier   *)
(* resources are prerequisites of later ones).                             *)
(***************************************************************************)
EXTENDS Naturals

CONSTANTS
  NumResources,  \* resources, in the order of their dependencies
  MaxVersion     \* versions of the cluster spec

VARIABLES
  specVersion,   \* the latest version of the cluster spec
  resVer         \* resVer[i]: version resource i was converged to, 0 = absent

Resources == 1..NumResources

Init ==
  /\ specVersion = 1
  /\ resVer = [i \in Resources |-> 0]

(* The cluster spec is edited.                                             *)
Edit ==
  /\ specVersion < MaxVersion
  /\ specVersion' = specVersion + 1
  /\ UNCHANGED resVer

(* Resource i converges to a version v of the spec, seen now or earlier,   *)
(* that all its prerequisites already have.                                *)
Converge(i, v) ==
  /\ v \in 1..specVersion
  /\ \A j \in 1..(i - 1) : resVer[j] = v
  /\ resVer' = [resVer EXCEPT ![i] = v]
  /\ UNCHANGED specVersion

Next ==
  \/ Edit
  \/ \E i \in Resources, v \in 1..MaxVersion : Converge(i, v)

Spec == Init /\ [][Next]_<<specVersion, resVer>>

=============================================================================
