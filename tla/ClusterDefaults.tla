--------------------------- MODULE ClusterDefaults ---------------------------
(***************************************************************************)
(* The defaulting engine of pkg/apis/mysql/v1alpha1 (cluster.go):          *)
(* MysqlCluster.UpdateDefaults -> ClusterSpec.UpdateDefaults, which calls  *)
(* PodSpec.UpdateDefaults, sizes innodb-buffer-pool-size and               *)
(* innodb-log-file-size from the memory request, and ends with             *)
(* VolumeSpec.UpdateDefaults.  The user edits the spec between two rounds  *)
(* of defaulting.                                                          *)
(*                                                                         *)
(* Sizes are counted in KiB (Unit = 1 KiB) so that the tiers, which reach  *)
(* 512 GiB, fit TLC's integers; strconv.FormatInt's decimal string is      *)
(* represented by the number it denotes.                                   *)
(***************************************************************************)
EXTENDS Integers, FiniteSets

CONSTANTS
  MemValues,  \* memory requests the user may write, in KiB
  Unset,      \* a field left empty (len == 0, nil, key absent)
  UserValue   \* a value the user wrote into a field

VARIABLE
  cluster,    \* the MysqlCluster spec fields defaulting reads or writes
  byDefault   \* history: MysqlConf keys whose value defaulting wrote

vars == <<cluster, byDefault>>

(* KB, MB, GB as 1 << (10 * iota), in units of 1 KiB.                      *)
KB == 1
MB == 1024 * KB
GB == 1024 * MB

BufferPoolKey == "innodb-buffer-pool-size"
LogFileKey == "innodb-log-file-size"
ConfKeys == {BufferPoolKey, LogFileKey}

(* The global options the defaults come from.                              *)
OptMysqlImageTag == "opt-image-tag"
OptImagePullPolicy == "opt-pull-policy"

ClusterSpecType == [mysqlVersion : {Unset, UserValue, OptMysqlImageTag},
          imagePullPolicy : {Unset, UserValue, OptImagePullPolicy},
          requests : [cpu : {Unset, UserValue, "200m"},
                      memory : MemValues \cup {Unset, GB}],
          limits : {Unset, UserValue},
          antiAffinity : {Unset, UserValue, "preferred-hostname-100"},
          conf : [ConfKeys -> Nat \cup {Unset, UserValue}],
          accessModes : {Unset, UserValue, "ReadWriteOnce"},
          storage : {Unset, UserValue, "1Gi"},
          storageLimits : {Unset, UserValue}]

(* Requests.Memory(): k8s' ResourceList.Memory returns a zero quantity,    *)
(* never nil, when the list has no memory entry; mem != nil always holds.  *)
MemoryValue(requests) ==
  IF requests.memory = Unset THEN 0 ELSE requests.memory

(* RAM < 1G: 128M; RAM <= 4G: RAM * 0.5; else RAM * 0.75 (truncated).      *)
BufferPoolSize(mem) ==
  IF mem < GB THEN 128 * MB
  ELSE IF mem <= 4 * GB THEN mem \div 2
  ELSE (3 * mem) \div 4

LogFileSize(mem) ==
  IF mem < GB THEN 48 * MB
  ELSE IF mem <= 4 * GB THEN 128 * MB
  ELSE IF mem <= 8 * GB THEN 512 * GB
  ELSE IF mem <= 16 * GB THEN 1 * GB
  ELSE 2 * GB

(* Mutant: the log file key is looked up under a misspelt name, so it is   *)
(* always found absent.                                                    *)
ConfDefaultsOverwrite(c) ==
  LET mem == MemoryValue(c.requests)
  IN  [c EXCEPT
         !.conf = [@ EXCEPT
                     ![BufferPoolKey] = IF @ = Unset THEN BufferPoolSize(mem) ELSE @,
                     ![LogFileKey] = LogFileSize(mem)]]

(* Mutant: the memory default is written "1G" (10^9 bytes) for "1Gi".     *)
PodSpecDefaultsDecimal(c) ==
  [c EXCEPT
     !.imagePullPolicy = IF @ = Unset THEN OptImagePullPolicy ELSE @,
     !.requests = IF @.cpu = Unset /\ @.memory = Unset
                  THEN [cpu |-> "200m", memory |-> 976562] ELSE @,
     !.limits = IF c.requests.cpu = Unset /\ c.requests.memory = Unset
                THEN Unset ELSE @,
     !.antiAffinity = IF @ = Unset THEN "preferred-hostname-100" ELSE @]

(* PodSpec.UpdateDefaults: pull policy from the options; when there is no  *)
(* request at all, Resources is replaced by a ResourceRequirements holding *)
(* only the requests 200m / 1Gi, so Limits the user set are dropped; a     *)
(* preferred anti-affinity on the hostname with weight 100 when none is    *)
(* set.                                                                    *)
PodSpecDefaults(c) ==
  [c EXCEPT
     !.imagePullPolicy = IF @ = Unset THEN OptImagePullPolicy ELSE @,
     !.requests = IF @.cpu = Unset /\ @.memory = Unset
                  THEN [cpu |-> "200m", memory |-> 1 * GB] ELSE @,
     !.limits = IF c.requests.cpu = Unset /\ c.requests.memory = Unset
                THEN Unset ELSE @,
     !.antiAffinity = IF @ = Unset THEN "preferred-hostname-100" ELSE @]

(* The two MysqlConf keys, each computed from the memory request only when *)
(* the key is absent.                                                      *)
ConfDefaults(c) ==
  LET mem == MemoryValue(c.requests)
  IN  [c EXCEPT
         !.conf = [@ EXCEPT
                     ![BufferPoolKey] = IF @ = Unset THEN BufferPoolSize(mem) ELSE @,
                     ![LogFileKey] = IF @ = Unset THEN LogFileSize(mem) ELSE @]]

(* VolumeSpec.UpdateDefaults: ReadWriteOnce when no access mode is set;   *)
(* when there is no storage request, Resources is replaced by one holding  *)
(* only the 1Gi request, dropping the volume's Limits.                     *)
VolumeSpecDefaults(c) ==
  [c EXCEPT
     !.accessModes = IF @ = Unset THEN "ReadWriteOnce" ELSE @,
     !.storage = IF @ = Unset THEN "1Gi" ELSE @,
     !.storageLimits = IF c.storage = Unset THEN Unset ELSE @]

(* Mutant: MysqlConf is sized before the pod spec is defaulted.           *)
DefaultsOfConfFirst(c) ==
  LET c1 == [c EXCEPT !.mysqlVersion = IF @ = Unset THEN OptMysqlImageTag ELSE @]
  IN  VolumeSpecDefaults(PodSpecDefaults(ConfDefaults(c1)))

(* ClusterSpec.UpdateDefaults, in the order of the code: version, pod      *)
(* spec, MysqlConf (reading the requests the pod spec step may have set),  *)
(* volume spec.  It never returns an error.                                *)
DefaultsOf(c) ==
  LET c1 == [c EXCEPT !.mysqlVersion = IF @ = Unset THEN OptMysqlImageTag ELSE @]
  IN  VolumeSpecDefaults(ConfDefaults(PodSpecDefaults(c1)))

-----------------------------------------------------------------------------
(* The user creates a cluster with any of the fields set or left empty.    *)
UserSpec ==
  [mysqlVersion : {Unset, UserValue},
   imagePullPolicy : {Unset, UserValue},
   requests : [cpu : {Unset, UserValue}, memory : MemValues \cup {Unset}],
   limits : {Unset, UserValue},
   antiAffinity : {Unset, UserValue},
   conf : [ConfKeys -> {Unset, UserValue}],
   accessModes : {Unset, UserValue},
   storage : {Unset, UserValue},
   storageLimits : {Unset, UserValue}]

Init ==
  /\ cluster \in UserSpec
  /\ byDefault = {}

(* The controller defaults the cluster it read (MysqlCluster.UpdateDefaults).*)
UpdateDefaults ==
  /\ cluster' = DefaultsOf(cluster)
  /\ byDefault' = byDefault \cup
                    {k \in ConfKeys : cluster.conf[k] = Unset /\ cluster'.conf[k] # Unset}

(* The user changes the memory request (or removes it).                    *)
UserSetMemory ==
  /\ \E m \in MemValues \cup {Unset} :
       /\ m # cluster.requests.memory
       /\ cluster' = [cluster EXCEPT !.requests.memory = m]
  /\ UNCHANGED byDefault

(* The user writes or deletes a MysqlConf key.                             *)
UserSetConf ==
  /\ \E k \in ConfKeys, v \in {Unset, UserValue} :
       /\ v # cluster.conf[k]
       /\ cluster' = [cluster EXCEPT !.conf[k] = v]
       /\ byDefault' = byDefault \ {k}

Next ==
  \/ UpdateDefaults
  \/ UserSetMemory
  \/ UserSetConf

Spec == Init /\ [][Next]_vars

-----------------------------------------------------------------------------
TypeOK ==
  /\ cluster \in ClusterSpecType
  /\ byDefault \subseteq ConfKeys

(* The sizing tables of spec 4.4, memory M in KiB.                         *)
SpecBufferPool(m) ==
  CASE m < GB                 -> 128 * MB
    [] GB <= m /\ m <= 4 * GB -> m \div 2
    [] m > 4 * GB             -> (3 * m) \div 4

SpecLogFile(m) ==
  CASE m < GB                     -> 48 * MB
    [] GB <= m /\ m <= 4 * GB     -> 128 * MB
    [] 4 * GB < m /\ m <= 8 * GB  -> 512 * MB
    [] 8 * GB < m /\ m <= 16 * GB -> 1 * GB
    [] m > 16 * GB                -> 2 * GB

(* A buffer pool size defaulting writes is the spec's tier for the memory  *)
(* request the defaulted pod spec carries (the 1Gi default included, which *)
(* PodSpec.UpdateDefaults must set before the size is computed).           *)
DefaultedBufferPoolMatchesTable ==
  [][UpdateDefaults /\ BufferPoolKey \in byDefault' \ byDefault
       => cluster'.conf[BufferPoolKey] = SpecBufferPool(MemoryValue(cluster'.requests))]_vars

(* The same for the log file size.                                         *)
DefaultedLogFileMatchesTable ==
  [][UpdateDefaults /\ LogFileKey \in byDefault' \ byDefault
       => cluster'.conf[LogFileKey] = SpecLogFile(MemoryValue(cluster'.requests))]_vars

(* The fields a defaulting round finds set.                                *)
SetFieldsKept(c, d) ==
  /\ \A f \in {"mysqlVersion", "imagePullPolicy", "antiAffinity", "limits",
                "accessModes", "storage", "storageLimits"} :
       c[f] # Unset => d[f] = c[f]
  /\ (c.requests.cpu # Unset \/ c.requests.memory # Unset) => d.requests = c.requests
  /\ \A k \in ConfKeys : c.conf[k] # Unset => d.conf[k] = c.conf[k]

(* Spec 3 and 4.4: defaulting leaves the fields already set untouched,     *)
(* whatever the user edits between rounds.  PodSpec.UpdateDefaults and    *)
(* VolumeSpec.UpdateDefaults replace the whole Resources struct when its   *)
(* Requests are empty, which also drops the Limits the user set.           *)
DefaultsKeepSetFields ==
  [][UpdateDefaults => SetFieldsKept(cluster, cluster')]_vars

(* Spec 4.4: the MysqlConf sizes are computed only when a memory request   *)
(* is present.                                                             *)
MemoryDefaultsNeedMemory ==
  [][UpdateDefaults /\ cluster'.requests.memory = Unset
       => cluster'.conf = cluster.conf]_vars

(* A buffer pool size that defaulting chose never exceeds the memory the   *)
(* pod now requests.                                                       *)
DefaultedBufferPoolFitsMemory ==
  (BufferPoolKey \in byDefault /\ cluster.requests.memory # Unset)
    => cluster.conf[BufferPoolKey] <= cluster.requests.memory

=============================================================================
