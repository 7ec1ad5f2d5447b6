---------------------------- MODULE ClusterSync ----------------------------
(***************************************************************************)
(* The reconciliation engine of pkg/mysqlcluster/cluster.go: cFactory.Sync *)
(* walks the fixed list of five components returned by getComponents,     *)
(* calls each syncFn, emits one event per component outcome, stops at the  *)
(* first error, and, when an orchestrator URI is configured, registers the *)
(* first Status.ReadyNodes pods with the orchestrator (Discover).          *)
(*                                                                         *)
(* Around the engine the model keeps the world it acts on: the managed     *)
(* resources (the version of the cluster spec each was last synced to, 0   *)
(* when it does not exist), the cluster object in the API server (edited   *)
(* by the user at any time), the ready count written by the controller,    *)
(* the set of hosts the orchestrator knows, and the caller's context.      *)
(***************************************************************************)
EXTENDS Naturals, Sequences, SequencesExt, FiniteSets

CONSTANTS
  MaxVersion,  \* number of edits of the cluster spec the user may make
  MaxReady,    \* replicas of the statefulset (ordinals 0..MaxReady-1)
  MaxRestarts  \* restarts of the operator process in one behaviour

ASSUME MaxVersion \in Nat \ {0}
ASSUME MaxReady \in Nat
ASSUME MaxRestarts \in Nat

VARIABLES
  specVersion,   \* version of the MysqlCluster object in the API server
  callSpec,      \* version of the copy f.cluster the running call reads
  resVer,        \* resVer[i]: spec version component i was synced to, 0 = absent
  ready,         \* ordinals of the statefulset's pods that are ready
  orcUri,        \* len(GetOrcUri()) != 0, fixed by the global options
  discovered,    \* ordinals of the pods the orchestrator knows
  pc,            \* "idle", "sync" (components loop), "register" (Discover loop)
  idx,           \* index of the next component of getComponents()
  host,          \* loop variable i of the Discover loop
  events,        \* events recorded on the cluster by the running call
  ret,           \* what the last call returned: "none" while running, "nil", "err"
  cancelled,     \* the call's ctx has been cancelled by the caller
  before,        \* history: resVer when the running call started
  regInCall,     \* history: ordinals registered by the running call
  restarts       \* restarts of the operator so far (bounds the state space)

vars == <<specVersion, callSpec, resVer, ready, orcUri, discovered, pc,
          idx, host, events, ret, cancelled, before, regInCall, restarts>>

(***************************************************************************)
(* getComponents: the fixed order secret, config map, headless service,    *)
(* statefulset, backup cron job.  An event names its component; the        *)
(* component's reasonFailed / reasonUpdated follows from the event type.   *)
(***************************************************************************)
Components == <<"cluster-secret", "config-map", "headless-service",
                "statefulset", "backup-cron-job">>
N == Len(Components)
CompIdx == 1..N
(* The position of the component with alias a in getComponents().        *)
CompPos(a) == CHOOSE i \in CompIdx : Components[i] = a
StatefulSetIdx == CompPos("statefulset")

(* cluster.Status.ReadyNodes: the controller copies the statefulset's     *)
(* count of ready pods, so it changes together with ready.  Any pod may be *)
(* unready, pod 0 included: readiness is not a prefix of the ordinals.      *)
readyNodes == Cardinality(ready)

Event == [type : {"Normal", "Warning"}, comp : CompIdx]

(* The status a component's syncFn reports on success: the resource is     *)
(* created when absent, updated when it differs from f.cluster, and        *)
(* up-to-date otherwise.  syncFn converges the resource to f.cluster.      *)
SyncStatus(i) ==
  IF resVer[i] = 0 THEN "created"
  ELSE IF resVer[i] # callSpec THEN "updated"
  ELSE "up-to-date"

(* Mutant: the switch also records an event for "up-to-date".             *)
UpdatedEventAlways(i) ==
  <<[type |-> "Normal", comp |-> i]>>

(* The switch of Sync: created/updated record a Normal event.              *)
UpdatedEvent(i) ==
  IF SyncStatus(i) \in {"created", "updated"}
  THEN <<[type |-> "Normal", comp |-> i]>>
  ELSE <<>>

-----------------------------------------------------------------------------
Init ==
  /\ specVersion = 1
  /\ callSpec = 1
  /\ resVer = [i \in CompIdx |-> 0]
  /\ ready = {}
  /\ orcUri \in BOOLEAN
  /\ discovered = {}
  /\ pc = "idle"
  /\ idx = 1
  /\ host = 0
  /\ events = <<>>
  /\ ret = "none"
  /\ cancelled = FALSE
  /\ before = resVer
  /\ regInCall = {}
  /\ restarts = 0

(* Mutant: the controller reuses a factory built on an old cluster copy.   *)
StartSyncStale ==
  /\ pc = "idle"
  /\ pc' = "sync"
  /\ idx' = 1
  /\ events' = <<>>
  /\ ret' = "none"
  /\ cancelled' = FALSE
  /\ before' = resVer
  /\ regInCall' = {}
  /\ UNCHANGED <<restarts, specVersion, callSpec, resVer, ready, orcUri,
                 discovered, host>>

(* The controller calls Sync(ctx) on a fresh factory for the cluster       *)
(* object it read; getComponents is evaluated on that copy.                *)
StartSync ==
  /\ pc = "idle"
  /\ pc' = "sync"
  /\ callSpec' = specVersion
  /\ idx' = 1
  /\ events' = <<>>
  /\ ret' = "none"
  /\ cancelled' = FALSE
  /\ before' = resVer
  /\ regInCall' = {}
  /\ UNCHANGED <<restarts, specVersion, resVer, ready, orcUri, discovered, host>>

(* syncFn of component idx succeeds: the resource converges to f.cluster   *)
(* and a created/updated status records a Normal event.                    *)
SyncComponentOk ==
  /\ pc = "sync"
  /\ idx <= N
  /\ resVer' = [resVer EXCEPT ![idx] = callSpec]
  /\ events' = events \o UpdatedEvent(idx)
  /\ idx' = idx + 1
  /\ UNCHANGED <<restarts, specVersion, callSpec, ready, orcUri, discovered, pc,
                 host, ret, cancelled, before, regInCall>>

(* Mutant: a failed component is logged and the loop goes on.             *)
SyncComponentFailedContinue ==
  /\ pc = "sync"
  /\ idx <= N
  /\ events' = Append(events, [type |-> "Warning", comp |-> idx])
  /\ idx' = idx + 1
  /\ UNCHANGED <<restarts, specVersion, callSpec, resVer, ready, orcUri,
                 discovered, pc, host, ret, cancelled, before, regInCall>>

(* Mutant: the error is shadowed and Sync returns nil.                     *)
SyncComponentFailedNil ==
  /\ pc = "sync"
  /\ idx <= N
  /\ events' = Append(events, [type |-> "Warning", comp |-> idx])
  /\ pc' = "idle"
  /\ ret' = "nil"
  /\ UNCHANGED <<restarts, specVersion, callSpec, resVer, ready, orcUri,
                 discovered, idx, host, cancelled, before, regInCall>>

(* syncFn of component idx returns an error: a Warning event with the      *)
(* component's reasonFailed, and Sync returns the wrapped error at once.   *)
SyncComponentFailed ==
  /\ pc = "sync"
  /\ idx <= N
  /\ events' = Append(events, [type |-> "Warning", comp |-> idx])
  /\ pc' = "idle"
  /\ ret' = "err"
  /\ UNCHANGED <<restarts, specVersion, callSpec, resVer, ready, orcUri,
                 discovered, idx, host, cancelled, before, regInCall>>

(* Mutant: the Discover loop starts at ordinal 1.                         *)
SyncComponentsDoneFrom1 ==
  /\ pc = "sync"
  /\ idx > N
  /\ IF orcUri
     THEN /\ pc' = "register" /\ host' = 1 /\ ret' = ret
     ELSE /\ pc' = "idle" /\ host' = host /\ ret' = "nil"
  /\ UNCHANGED <<restarts, specVersion, callSpec, resVer, ready, orcUri,
                 discovered, idx, events, cancelled, before, regInCall>>

(* All components synced: register nodes when an orchestrator is set.      *)
SyncComponentsDone ==
  /\ pc = "sync"
  /\ idx > N
  /\ IF orcUri
     THEN /\ pc' = "register" /\ host' = 0 /\ ret' = ret
     ELSE /\ pc' = "idle" /\ host' = host /\ ret' = "nil"
  /\ UNCHANGED <<restarts, specVersion, callSpec, resVer, ready, orcUri,
                 discovered, idx, events, cancelled, before, regInCall>>

(* Mutant: the loop condition is i <= ReadyNodes.                         *)
RegisterHostInclusive ==
  /\ pc = "register"
  /\ host <= readyNodes
  /\ \/ /\ discovered' = discovered \cup {host}
        /\ regInCall' = regInCall \cup {host}
     \/ UNCHANGED <<restarts, discovered, regInCall>>
  /\ host' = host + 1
  /\ UNCHANGED <<restarts, specVersion, callSpec, resVer, ready, orcUri, pc, idx,
                 events, ret, cancelled, before>>

(* client.Discover(getHostForReplica(i), MysqlPort); a failure is only     *)
(* logged and the loop goes on.                                            *)
RegisterHost ==
  /\ pc = "register"
  /\ host < readyNodes
  /\ \/ /\ discovered' = discovered \cup {host}
        /\ regInCall' = regInCall \cup {host}
     \/ UNCHANGED <<restarts, discovered, regInCall>>
  /\ host' = host + 1
  /\ UNCHANGED <<restarts, specVersion, callSpec, resVer, ready, orcUri, pc, idx,
                 events, ret, cancelled, before>>

(* The Discover loop ends: Sync returns nil whatever Discover returned.    *)
RegisterDone ==
  /\ pc = "register"
  /\ host >= readyNodes
  /\ pc' = "idle"
  /\ ret' = "nil"
  /\ UNCHANGED <<restarts, specVersion, callSpec, resVer, ready, orcUri,
                 discovered, idx, host, events, cancelled, before, regInCall>>

-----------------------------------------------------------------------------
(* Environment.  The user edits the cluster spec at any time.              *)
UpdateSpec ==
  /\ specVersion < MaxVersion
  /\ specVersion' = specVersion + 1
  /\ UNCHANGED <<restarts, callSpec, resVer, ready, orcUri, discovered, pc, idx,
                 host, events, ret, cancelled, before, regInCall>>

(* Between two calls the controller writes Status.ReadyNodes from the      *)
(* statefulset; no pod is ready while the statefulset does not exist.      *)
UpdateReadyNodes ==
  /\ pc = "idle"
  /\ \E r \in SUBSET (IF resVer[StatefulSetIdx] = 0 THEN {} ELSE 0..(MaxReady - 1)) :
       /\ r # ready
       /\ ready' = r
  /\ UNCHANGED <<restarts, specVersion, callSpec, resVer, orcUri, discovered, pc, idx,
                 host, events, ret, cancelled, before, regInCall>>

(* The caller cancels the context of a running call.                       *)
CancelCtx ==
  /\ pc # "idle"
  /\ ~cancelled
  /\ cancelled' = TRUE
  /\ UNCHANGED <<restarts, specVersion, callSpec, resVer, ready, orcUri,
                 discovered, pc, idx, host, events, ret, before, regInCall>>

(* The operator process restarts (crash, eviction, rollout) in the middle  *)
(* of a call: the call is gone without an error, an event or a return, and *)
(* what its syncFns and Discover calls already did stays.  Sync keeps no   *)
(* progress, so the restarted controller simply calls it again.           *)
Restart ==
  /\ pc # "idle"
  /\ restarts < MaxRestarts
  /\ restarts' = restarts + 1
  /\ pc' = "idle"
  /\ UNCHANGED <<specVersion, callSpec, resVer, ready, orcUri, discovered,
                 idx, host, events, ret, cancelled, before, regInCall>>

-----------------------------------------------------------------------------
Next ==
  \/ StartSync
  \/ SyncComponentOk
  \/ SyncComponentFailed
  \/ SyncComponentsDone
  \/ RegisterHost
  \/ RegisterDone
  \/ UpdateSpec
  \/ UpdateReadyNodes
  \/ CancelCtx
  \/ Restart

(* The controller requeues every cluster (resync), so a new call always    *)
(* comes; API and orchestrator failures are transient, so a step that      *)
(* keeps being possible eventually succeeds.                               *)
DiscoverOk(h) ==
  RegisterHost /\ host = h /\ h \in discovered'

Fairness ==
  /\ WF_vars(StartSync)
  /\ WF_vars(SyncComponentsDone)
  /\ WF_vars(RegisterHost)
  /\ WF_vars(RegisterDone)
  /\ \A i \in CompIdx : SF_vars(SyncComponentOk /\ idx = i)
  /\ \A h \in 0..(MaxReady - 1) : SF_vars(DiscoverOk(h))

Spec == Init /\ [][Next]_vars /\ Fairness

(* client.Discover gets no context and no deadline: a call blocked in it   *)
(* may never return, so a spec faithful to that call has no fairness on    *)
(* the Discover step.  Everything else keeps the fairness of Spec.        *)
NoDeadlineSpec ==
  /\ Init /\ [][Next]_vars
  /\ WF_vars(StartSync) /\ WF_vars(SyncComponentsDone) /\ WF_vars(RegisterDone)
  /\ \A i \in CompIdx : SF_vars(SyncComponentOk /\ idx = i)

-----------------------------------------------------------------------------
TypeOK ==
  /\ specVersion \in 1..MaxVersion
  /\ callSpec \in 1..specVersion
  /\ resVer \in [CompIdx -> 0..MaxVersion]
  /\ ready \subseteq 0..(MaxReady - 1)
  /\ orcUri \in BOOLEAN
  /\ discovered \subseteq 0..(MaxReady - 1)
  /\ pc \in {"idle", "sync", "register"}
  /\ idx \in 1..(N + 1)
  /\ host \in 0..MaxReady
  /\ events \in Seq(Event)
  /\ ret \in {"none", "nil", "err"}
  /\ cancelled \in BOOLEAN
  /\ restarts \in 0..MaxRestarts
  /\ before \in [CompIdx -> 0..MaxVersion]
  /\ regInCall \subseteq discovered

(* Spec 4.1 step 1: the resources in the order of their dependencies,    *)
(* each a prerequisite of those after it (secret, configuration, network  *)
(* endpoint, workload, backup schedule).                                   *)
PrerequisiteOrder == <<"cluster-secret", "config-map", "headless-service",
                       "statefulset", "backup-cron-job">>

(* Prerequisites first: a resource is never synced to a newer spec than    *)
(* any of its prerequisites (the headless service the statefulset names is *)
(* at least as new as the statefulset).  Stated over the resources' names, *)
(* so it depends on the order getComponents lists them in as well as on    *)
(* Sync's fail-fast return, across calls that fail at different components *)
(* while the user edits the spec.                                          *)
PrerequisitesNotOlder ==
  \A i, j \in 1..Len(PrerequisiteOrder) :
    i < j => resVer[CompPos(PrerequisiteOrder[i])] >= resVer[CompPos(PrerequisiteOrder[j])]

(* Sync returns nil only when every component was synced to the spec the  *)
(* call read: no component error is swallowed on the way to "return nil".  *)
NilMeansConverged ==
  ret = "nil" => \A i \in CompIdx : resVer[i] = callSpec

(* The events of a call: one Normal event exactly for each resource the    *)
(* call created or changed, never two for one component, and on failure    *)
(* exactly one Warning event, recorded last.                               *)
EventsMatchChanges ==
  LET changed == {i \in CompIdx : before[i] # resVer[i]}
  IN  /\ \A i \in CompIdx :
           (\E k \in DOMAIN events : events[k] = [type |-> "Normal", comp |-> i])
             <=> i \in changed
      /\ Len(events) = Cardinality(changed) + (IF ret = "err" THEN 1 ELSE 0)
      /\ ret = "err" => Last(events).type = "Warning"

(* Once the user stops editing, every resource eventually matches the     *)
(* latest spec, although any sync may fail any number of times before.    *)
Converges ==
  <>[](\A i \in CompIdx : resVer[i] = specVersion)

(* With an orchestrator configured, infinitely often every ordinal below  *)
(* Status.ReadyNodes is known to it, although single Discover calls fail   *)
(* and ReadyNodes changes between calls.                                   *)
ReadyHostsRegistered ==
  []<>(orcUri => 0..(readyNodes - 1) \subseteq discovered)

(* Spec 4.1 step 3: the engine registers the ready members.  The loop      *)
(* registers ordinals 0..ReadyNodes-1, which are the ready pods only while *)
(* readiness is a prefix of the ordinals; a ready pod above an unready one *)
(* is never registered however often Sync runs.                            *)
ReadyPodsRegistered ==
  []<>(orcUri => ready \subseteq discovered)

(* The engine implements the ordered-convergence contract of spec 4.1:    *)
(* every resource change it makes is a Converge step of ResourceConvergence *)
(* (a component is synced only to the spec version all earlier components *)
(* reached in the same call), and every spec edit is an Edit step.         *)
Abstract == INSTANCE ResourceConvergence WITH NumResources <- N
AbstractSpec == Abstract!Spec

(* Spec section 5: the caller bounds a call with a cancellable context and  *)
(* an in-flight call returns promptly once it is cancelled.  Sync never     *)
(* passes ctx to Discover, so a cancelled call blocked in the Discover loop *)
(* never returns.                                                           *)
CancelledCallReturns ==
  cancelled ~> pc = "idle"

=============================================================================
