--------------------------- MODULE TopologyResolver ---------------------------
(***************************************************************************)
(* The topology resolver of pkg/apis/mysql/v1alpha1 (cluster.go):          *)
(* GetMasterHost and GetHealtySlaveHost, with the naming helpers they use  *)
(* (GetNameForResource, GetPodHostName) and the host names the engine      *)
(* registers with the orchestrator (cFactory.getHostForReplica).           *)
(*                                                                         *)
(* The resolver keeps no state: each call reads Status.ReadyNodes and asks *)
(* the orchestrator.  The variables are the inputs it reads, changed by    *)
(* the environment (the controller, failovers, the orchestrator going      *)
(* down); the resolver is a pair of operators over them.                   *)
(***************************************************************************)
EXTENDS Naturals, Sequences, SequencesExt, FiniteSets, TLC

CONSTANTS
  ClusterName,  \* c.Name
  Namespace,    \* c.Namespace
  Replicas,     \* pods of the statefulset: ordinals 0..Replicas-1
  Lags,         \* SecondsBehindMaster values the orchestrator reports
  NoLag,        \* SecondsBehindMaster with Valid = false
  Err           \* the orchestrator query returned an error

ASSUME Replicas \in Nat \ {0}
ASSUME Lags \subseteq Nat /\ NoLag \notin Nat

VARIABLES
  ready,          \* ordinals of the pods that are ready
  orcUri,         \* len(c.Spec.GetOrcUri()) != 0
  masterReply,    \* the master the orchestrator holds for the cluster, or Err
  replicasReply,  \* the replicas it holds for the cluster, or Err
  orcId           \* the identifier the orchestrator knows the cluster by

vars == <<ready, orcUri, masterReply, replicasReply, orcId>>

Pods == 0..(Replicas - 1)

(* c.Status.ReadyNodes, the controller's count of ready pods.  Any pod may *)
(* be unready, so the ready pods need not be the first ReadyNodes ordinals. *)
readyNodes == Cardinality(ready)

(* MysqlCluster.GetNameForResource / GetNameForResource: every resource    *)
(* kind gets the name "<cluster>-mysql".                                   *)
GetNameForResource(name, clusterName) == clusterName \o "-mysql"

NameForResource(name) == GetNameForResource(name, ClusterName)

(* "<statefulset>-<p>.<headless service>", without the namespace.          *)
GetPodHostName(p) ==
  NameForResource("mysql") \o "-" \o ToString(p) \o "." \o NameForResource("headless")

(* Mutant: the namespace is left out of the registered name.              *)
getHostForReplicaShort(no) ==
  NameForResource("mysql") \o "-" \o ToString(no) \o "." \o NameForResource("headless")

(* cFactory.getHostForReplica: the name Sync passes to Discover.           *)
getHostForReplica(no) ==
  NameForResource("mysql") \o "-" \o ToString(no) \o "."
    \o NameForResource("headless") \o "." \o Namespace

(* The orchestrator knows the pods under the names they registered with.   *)
OrcHost == {getHostForReplica(i) : i \in Pods}

Instance == [host : OrcHost, lag : Lags \cup {NoLag}]

(* Replica lists the orchestrator may return, in any order: distinct pods  *)
(* other than the master.                                                  *)
ReplicaReplies(master) ==
  { [k \in 1..Len(s) |-> [host |-> getHostForReplica(s[k]), lag |-> lags[k]]] :
      s \in {s \in BoundedSeq(Pods \ {master}, Replicas - 1) : IsInjective(s)},
      lags \in [1..(Replicas - 1) -> Lags \cup {NoLag}] }

(* The two identifiers the resolvers query: ClusterOSCReplicas(c.Name) and *)
(* Master(orcClusterName) with orcClusterName = "<name>.<namespace>".       *)
orcClusterName == ClusterName \o "." \o Namespace
OrcIds == {ClusterName, orcClusterName}

(* The orchestrator answers a query about the identifier it knows the      *)
(* cluster by, and fails ("unknown cluster") for any other.                *)
Master(id) == IF id = orcId THEN masterReply ELSE Err
ClusterOSCReplicas(id) == IF id = orcId THEN replicasReply ELSE Err

-----------------------------------------------------------------------------
(* Mutant: the lag test is < 5.                                           *)
RECURSIVE LastHealthyStrict(_, _)
LastHealthyStrict(host, rs) ==
  IF rs = <<>> THEN host
  ELSE LastHealthyStrict(IF Head(rs).lag # NoLag /\ Head(rs).lag < 5
                         THEN Head(rs).host ELSE host,
                         Tail(rs))

(* The loop of GetHealtySlaveHost over the orchestrator's replicas: every  *)
(* replica with a valid lag <= 5 overwrites host, so the last one wins.    *)
RECURSIVE LastHealthy(_, _)
LastHealthy(host, rs) ==
  IF rs = <<>> THEN host
  ELSE LastHealthy(IF Head(rs).lag # NoLag /\ Head(rs).lag <= 5
                   THEN Head(rs).host ELSE host,
                   Tail(rs))

(* Mutant: no early return when no node is ready.                         *)
GetHealtySlaveHostNoGuard ==
  LET host == GetPodHostName(readyNodes - 1)
      replicas == ClusterOSCReplicas(ClusterName)
  IN  IF orcUri /\ replicas # Err THEN LastHealthy(host, replicas) ELSE host

(* GetHealtySlaveHost: no ready node returns pod 0 at once; otherwise the  *)
(* last ready pod, overridden by the orchestrator's last healthy replica.  *)
GetHealtySlaveHost ==
  IF readyNodes < 1 THEN GetPodHostName(0)
  ELSE LET host == GetPodHostName(readyNodes - 1)
           replicas == ClusterOSCReplicas(ClusterName)
       IN  IF orcUri /\ replicas # Err THEN LastHealthy(host, replicas) ELSE host

(* GetMasterHost: pod 0 unless the orchestrator answers.                   *)
GetMasterHost ==
  IF orcUri /\ Master(orcClusterName) # Err
  THEN Master(orcClusterName) ELSE GetPodHostName(0)

-----------------------------------------------------------------------------
Init ==
  /\ ready = {}
  /\ orcUri \in BOOLEAN
  /\ masterReply = Err
  /\ replicasReply = Err
  /\ orcId \in OrcIds

(* The controller writes Status.ReadyNodes.                                *)
UpdateReadyNodes ==
  /\ \E r \in SUBSET Pods : r # ready /\ ready' = r
  /\ UNCHANGED <<orcUri, masterReply, replicasReply, orcId>>

(* The orchestrator (re)discovers the topology, a failover included: a     *)
(* master and the replicas it reports with their lag.                      *)
OrcTopology ==
  /\ \E m \in Pods :
       /\ masterReply' = getHostForReplica(m)
       /\ replicasReply' \in ReplicaReplies(m)
  /\ UNCHANGED <<ready, orcUri, orcId>>

(* A query to the orchestrator fails (unreachable, unknown cluster).       *)
OrcMasterFails ==
  /\ masterReply # Err
  /\ masterReply' = Err
  /\ UNCHANGED <<ready, orcUri, replicasReply, orcId>>

OrcReplicasFail ==
  /\ replicasReply # Err
  /\ replicasReply' = Err
  /\ UNCHANGED <<ready, orcUri, masterReply, orcId>>

Next ==
  \/ UpdateReadyNodes
  \/ OrcTopology
  \/ OrcMasterFails
  \/ OrcReplicasFail

Spec == Init /\ [][Next]_vars

-----------------------------------------------------------------------------
(* Host names as spec 6 writes them: <cluster>-mysql-<i>.<cluster>-mysql.  *)
(* <namespace>.                                                            *)
MemberHostName ==
  {ClusterName \o "-mysql-" \o ToString(i) \o "." \o ClusterName \o "-mysql."
     \o Namespace : i \in Pods}

TypeOK ==
  /\ ready \subseteq Pods
  /\ orcUri \in BOOLEAN
  /\ masterReply \in MemberHostName \cup {Err}
  /\ replicasReply = Err
     \/ replicasReply \in Seq([host : MemberHostName, lag : Lags \cup {NoLag}])
  /\ orcId \in OrcIds

(* The member a host name denotes, in either of the two name forms.        *)
PodOf(h) == CHOOSE i \in Pods : h \in {GetPodHostName(i), getHostForReplica(i)}

Healthy(r) == r.lag # NoLag /\ r.lag <= 5

(* Spec 4.3, ResolveHealthySecondary: the last ready member by default    *)
(* (member 0 with no ready member); with an orchestrator that answers,    *)
(* the last replica of its answer with a known lag of at most 5 seconds.   *)
SpecSlaveHost(reply) ==
  LET default == IF readyNodes < 1 THEN GetPodHostName(0)
                 ELSE GetPodHostName(readyNodes - 1)
      k == IF orcUri /\ reply # Err THEN SelectLastInSeq(reply, Healthy) ELSE 0
  IN  IF k > 0 THEN reply[k].host ELSE default

(* Once a node is ready, GetHealtySlaveHost picks the last replica the     *)
(* orchestrator reports with a valid lag <= 5 (not the least lagging, not  *)
(* the first), and keeps the last ready pod when none qualifies or the     *)
(* query fails.                                                            *)
SlaveSelection ==
  readyNodes >= 1
    => GetHealtySlaveHost = SpecSlaveHost(ClusterOSCReplicas(ClusterName))

(* Both resolvers always name a member of the cluster, also before any     *)
(* node is ready (ReadyNodes - 1 is never used as an ordinal when it is    *)
(* negative).                                                              *)
ResolvesToMember ==
  {GetHealtySlaveHost, GetMasterHost}
    \subseteq {GetPodHostName(i) : i \in Pods} \cup OrcHost

(* Spec 4.3: both resolvers ask the authority about this cluster, so when *)
(* the orchestrator holds its topology, under whichever identifier, the    *)
(* master is the orchestrator's and, once a node is ready, the slave is    *)
(* chosen from the orchestrator's replicas.  GetMasterHost asks for        *)
(* "<name>.<namespace>" and GetHealtySlaveHost for "<name>".              *)
OrcTopologyUsed ==
  (orcUri /\ masterReply # Err /\ replicasReply # Err /\ readyNodes >= 1)
    => /\ GetMasterHost = masterReply
       /\ GetHealtySlaveHost = SpecSlaveHost(replicasReply)

(* Spec 4.3 and 8 default the slave to the last ready member.  A healthy  *)
(* slave is a ready pod and, with two or more ready pods, not the master   *)
(* the orchestrator names.  The code takes ordinal ReadyNodes - 1: with    *)
(* pods 0 and 2 ready that is pod 1, which is not ready; after a failover  *)
(* to that pod it is the master.  The default is what the resolver returns *)
(* whenever the orchestrator is not configured, fails, or reports no       *)
(* healthy replica.                                                        *)
SlaveIsReadyReplica ==
  LET slave == PodOf(GetHealtySlaveHost)
  IN  readyNodes >= 1 /\ GetHealtySlaveHost \in {GetPodHostName(i) : i \in Pods}
        => /\ slave \in ready
           /\ (orcUri /\ Master(orcClusterName) # Err /\ readyNodes >= 2)
                => slave # PodOf(GetMasterHost)

=============================================================================
