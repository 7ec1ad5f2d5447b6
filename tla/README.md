# TLA+ models of the MySQL operator's cluster core

The models cover the core of `src/pkg/mysqlcluster/cluster.go`. That file holds the
reconciliation engine (package `mysqlcluster`). It also holds, after the file
separator at line 178, the `v1alpha1` cluster methods: defaulting, resource
names and the topology resolver. All line numbers below refer to this file.

## 1. Inventory

| Component | Code | State it keeps | Operations |
|---|---|---|---|
| Reconciliation engine | `cFactory`, `getComponents`, `Sync` (56-159) | none across calls. Per call: the cluster copy, the loop position, the events it emitted | `Sync(ctx)`: the ordered component loop, then the Discover loop |
| Resource sync units | `syncFn` of each component (bodies not in src/) | the managed resources (secret, config map, headless service, statefulset, backup cron job) | converge one resource; return created / updated / up-to-date / skip, or an error |
| Topology resolver | `GetMasterHost`, `GetHealtySlaveHost`, `GetPodHostName`, `GetNameForResource` (403-467) | none; reads `Status.ReadyNodes` and asks the orchestrator | resolve the master; resolve a healthy slave |
| Defaulting engine | `UpdateDefaults` of `MysqlCluster`, `ClusterSpec`, `PodSpec`, `VolumeSpec` (242-387) | writes into the cluster spec | fill the unset fields; size `innodb-buffer-pool-size` and `innodb-log-file-size` from the memory request |
| Orchestrator client | `pkg/util/orchestrator` (not in src/) | the orchestrator's topology | `Discover`, `Master`, `ClusterOSCReplicas` |
| Options singleton | `opt`, `init`, `GetOrcUri` (221-227, 320-322) | global options, read-only after init | `GetOrcUri` decides whether an orchestrator is used |
| Getters and owner refs | `AsOwnerReference`, image getters, `GetLabels`, `backup.go` | none | pure field constructors |
| Makefile | `src/Makefile` | none | build targets |

How the components interact:
- The controller is outside src/. For each cluster it calls `UpdateDefaults`, then
  `New(...).Sync(ctx)`, and it requeues the cluster when the call fails and on
  periodic resync.
- `Sync` calls the five `syncFn`s in a fixed order. It stops at the first error and
  records one event per outcome on the cluster.
- Once all five succeed, `Sync` registers `getHostForReplica(i)` with the
  orchestrator for each `i < Status.ReadyNodes`, ignoring Discover errors.
- The resolver is called by other parts of the operator (backups, the helper). It
  reads `Status.ReadyNodes` and queries the orchestrator. If the orchestrator is not
  configured or fails, it falls back to fixed pod names.
- Shared state: the `MysqlCluster` object. The user edits its spec. The controller
  writes `Status.ReadyNodes`. Defaulting writes the spec. Sync and the resolver read it.

What makes this code hard to test:
- Partial failure at any of the five components, across repeated calls, and an
  operator restart in the middle of a call.
- User edits that land while a call works from an older copy of the spec.
- Best-effort registration that must still converge.
- A context that is accepted but never read, and a blocking Discover call without a
  deadline.
- Pod readiness that need not be a prefix of the ordinals: pod 0 can be unready while
  pod 1 is ready, but the code counts ready pods and uses ordinals below the count.
- Two different cluster identifiers for the same orchestrator.
- A resolver that must give an answer whatever the orchestrator says: failovers,
  lag boundaries, answer order, errors.
- Tiered numeric defaults with boundaries, and derived defaults that go stale.

Properties that make each component correct:
- **Engine:**
  - resources never get ahead of their prerequisites, stated over the resources'
    names in the order of spec 4.1, so a reorder of `getComponents` breaks it;
  - a nil return means everything converged;
  - events match resource changes;
  - resources eventually converge;
  - ready pods are eventually registered;
  - a cancelled call returns.
- **Resolver:**
  - the slave is the last healthy replica, else the default pod;
  - answers are always cluster members;
  - the slave is a ready pod and not the master;
  - both resolvers use the orchestrator's topology when it has one.
- **Defaulting:**
  - sizes follow the spec's tier tables;
  - set fields are never overwritten (violated: Limits are dropped when Requests
    are empty);
  - sizes are computed only when there is a memory request;
  - defaults fit the current memory request.

## 2. Modules

| Module | Models | Composition |
|---|---|---|
| `ClusterSync` | `Sync` and its environment: the resources, user edits, `ReadyNodes` updates, the orchestrator's known hosts, cancellation | instantiates `ResourceConvergence` (refinement) |
| `ResourceConvergence` | the abstract contract of spec 4.1: resources converge in prerequisite order | abstract spec |
| `TopologyResolver` | `GetMasterHost`, `GetHealtySlaveHost` and the naming helpers, over orchestrator answers | |
| `ClusterDefaults` | the whole `UpdateDefaults` chain, with user edits between rounds; the pod's and the volume's `Resources` are their requests plus a `limits` / `storageLimits` field, which the defaults reset when they replace the struct | |
| `MC_*` | constants for TLC | extend the module they check |

How the state and actions of `ClusterSync` match the code:
- `specVersion` is the cluster object in the API server.
- `callSpec` is the copy `f.cluster` that the running call reads. It is taken in
  `StartSync` (`New` + `Sync`).
- `ready` is the set of ready pods. `readyNodes`, its size, is `Status.ReadyNodes`.
- `resVer[i]` is the spec version component `i` was last synced to (0 means the
  resource does not exist).
- `SyncComponentOk` and `SyncComponentFailed` are one iteration of the loop at lines
  131-145. On failure the call emits a Warning event and returns at once.
- `SyncComponentsDone` is the `GetOrcUri` test at line 148.
- `RegisterHost` and `RegisterDone` are the Discover loop at lines 151-158.
- `events`, `ret`, `before` and `regInCall` record what one call emitted, returned,
  found, and registered.
- Environment actions:
  - `UpdateSpec`: a user edit, which can happen at any time;
  - `UpdateReadyNodes`: pods become ready or unready, and the controller updates
    the status, only between calls;
  - `CancelCtx`: the caller cancels the call;
  - `Restart`: the operator process restarts mid-call. The call vanishes without an
    event or a return value. It happens at most `MaxRestarts` times.

Order of the plan, most important behaviour first:
1. `ClusterSync` and its refinement of `ResourceConvergence`. Done.
2. `TopologyResolver`. Done.
3. `ClusterDefaults`. Done.
4. A Discover that never answers (`NoDeadlineSpec`), readiness with gaps, and the
   orchestrator's cluster identifier. Done.
5. An operator restart mid-call (`Restart`), and three pods for the safety run. Done.

Left out on purpose (see section 4):
- A composed `OperatorCycle` (defaulting, then `Sync`, feeding the resolver). The
  controller that orders these calls is not in src/. The only state the components
  share is the `MysqlCluster` object and the orchestrator. Each module already lets
  the environment change that state arbitrarily, so a composition would check no
  behaviour the separate modules do not.
- The `skip` outcome. Which `syncFn` returns it, and when, is decided in code that is
  not in src/.
- Two clusters reconciled concurrently. `Sync` and the resolver share only the
  read-only options between clusters, and spec 5 forbids two concurrent calls for
  the same cluster.

## 3. Runs

| Run | Checks | Shows |
|---|---|---|
| `sync` (pass) | `TypeOK`, `PrerequisitesNotOlder`, `NilMeansConverged`, `EventsMatchChanges`, `AbstractSpec` | fail-fast ordering, event and return discipline under arbitrary failures, racing edits and a restart; `Sync` implements the ordered-convergence contract |
| `sync_liveness` (pass) | `Converges`, `ReadyHostsRegistered` | convergence and registration under transient failures and a restart |
| `sync_hung_discover` (violation) | `CancelledCallReturns` under `NoDeadlineSpec` | `ctx` is never read and Discover has no deadline: a cancelled call blocked in Discover never returns (finding) |
| `sync_ready_pods` (violation) | `ReadyPodsRegistered` | with pod 0 unready and pod 1 ready, only pod 0 is ever registered (finding) |
| `resolver` (pass) | `TypeOK`, `SlaveSelection`, `ResolvesToMember` | last-healthy-wins selection and total answers |
| `resolver_orc_identifier` (violation) | `OrcTopologyUsed` | replicas are asked for `<name>`, the master for `<name>.<namespace>`: one resolver always misses the orchestrator's topology (finding) |
| `resolver_ready_slave` (violation) | `SlaveIsReadyReplica` | the default slave `ReadyNodes - 1` is not a ready pod when readiness has a gap, and is the master after a failover to it (finding) |
| `defaults` (pass) | `TypeOK`, `DefaultedBufferPoolMatchesTable` | tier boundaries, the order of pod spec before MysqlConf |
| `defaults_logfile` (violation) | `DefaultedLogFileMatchesTable` | `512 * GB` at line 293 (code bug) |
| `defaults_no_memory` (violation) | `MemoryDefaultsNeedMemory` | sizes are written without a memory request (finding) |
| `defaults_stale` (violation) | `DefaultedBufferPoolFitsMemory` | a defaulted buffer pool outlives a memory decrease (finding) |
| `defaults_limits` (violation) | `DefaultsKeepSetFields` | with no Requests, lines 343 and 379 replace the whole `Resources` struct and drop the user's Limits (finding) |

Every property of a passing run has a mutant in `PROJECT.json`: a plausible bug in
the mapped code that TLC finds. Examples:
- the loop continues after an error;
- the error is shadowed and `nil` is returned;
- the loop test is `i <= ReadyNodes`;
- the lag test is `< 5`;
- MysqlConf is sized before the pod spec is defaulted.

### Bounds

- **`ClusterSync`:**
  - `MaxVersion = 3`, so two user edits: an edit can land before, during and after a
    call, and two calls can fail at different components on different versions;
  - `MaxReady = 3` pods, so the Discover loop runs zero to three times, its boundary
    is exercised, and readiness can have a gap below a ready pod (`{1}`, `{2}`,
    `{0, 2}`);
  - `MaxRestarts = 1`, so one restart can land at any point of any call;
  - the liveness run and the two liveness violations use `MaxVersion = 2` and
    `MaxReady = 2`. One edit still races the calls, and `ready = {1}` still has a gap.
    With three pods the liveness check takes about nine minutes; with two it takes
    under one.
- **`TopologyResolver`:**
  - three pods, so every master position, replica lists of length 0-2 in both
    orders, and every ready set, gaps included (`{0, 2}`, `{1}`);
  - the orchestrator knows the cluster under either identifier the code uses;
  - lags 3, 5, 6 and an unknown lag, on both sides of the threshold.
- **`ClusterDefaults`:**
  - memory requests on both sides of every tier boundary, plus an odd size;
  - sizes are in KiB so that 512 GiB fits TLC's 32-bit integers. This loses only the
    sub-KiB truncation of `int64(float64(m) * 0.75)`.

### Fairness

There is no fairness on the environment: user edits, `ReadyNodes` changes,
cancellation and restarts may happen or not. Restarts are bounded, because a
controller that restarts forever never converges.

The engine assumes:
- weak fairness on starting a call, because the controller requeues failed
  clusters and resyncs periodically;
- weak fairness on the loop steps;
- strong fairness on each component's success and on each pod's successful
  Discover, because API and orchestrator failures are transient.

A failure is allowed any finite number of times. These assumptions are about the
controller and the environment, not about code in src/.

`NoDeadlineSpec` drops the fairness of the Discover step. `client.Discover` gets no
context and the engine sets no deadline, so nothing in the code makes that step
happen. This is the spec under which `CancelledCallReturns` is checked. Under `Spec`
the same property holds, so the violation comes from the missing deadline alone.

## 4. Not modelled

- The `skip` outcome of a `syncFn`, and how the controller orders defaulting, `Sync`
  and the resolvers. Both are decided in code that is not in src/.

- The bodies of the `syncFn`s (manifest construction and the API client), which are
  not in src/. The model treats each as a converge-or-fail step.
- The orchestrator itself. Only its answers are modelled.
- How the orchestrator resolves a cluster identifier. The model assumes it answers
  for one identifier and fails for any other.
- A `syncFn` that blocks. The syncFns are not in src/, so only Discover may hang.
- Owner references (`AsOwnerReference`, `getOwnerReferences`), the image getters
  (`GetMysqlImage`, `GetHelperImage`, `GetMetricsExporterImage`), `GetLabels`, and all
  of `backup.go`. They are pure constructors of manifest fields. They hold no state and
  no control flow a property could tell apart, and their callers (the `syncFn` bodies)
  are not in src/.
- The early return of `GetHealtySlaveHost` at `ReadyNodes < 1` (line 417) also skips a
  configured orchestrator. No run checks it: with no pod ready, falling back to pod 0
  is defensible, and `ResolvesToMember` already checks that the fallback names a member.
- Logging, including the `Warningf` format mismatch at line 134.
- The Makefile.
