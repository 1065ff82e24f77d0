# A TLA+ model of the IBM block storage CSI driver

The repository is a Container Storage Interface (CSI) driver. Its *controller*
(Python, gRPC) creates, copies, maps and deletes volumes on IBM storage systems;
its *node plugin* (Go, gRPC) attaches a mapped volume to a pod. The orchestrator
(Kubernetes) calls both, may call several RPCs at once, and repeats a call that
failed or got no answer. The driver keeps no database: a handler learns what earlier
calls did by asking the array or the node's operating system. Almost everything
that is hard about this code follows from that.

## 1. Inventory

| Component | Source | State | Operations |
|---|---|---|---|
| connection pool | `controller/array_action/array_connection_pool.py` | queue of idle mediators, `current_size` | `get`, `put`, `create`, `__del__` |
| storage agents | `.../storage_agent.py` | agents by user and endpoints, one module lock | `get_agent`, `get_mediator` |
| controller RPCs | `controller/controller_server/csi_controller_server.py` | none (locals of a call) | Create/DeleteVolume, Create/DeleteSnapshot, ControllerExpandVolume, ControllerPublish/UnpublishVolume |
| mapping by initiators | `.../array_mediator_abstract.py` | none | `map_volume_by_initiators`, `unmap_volume_by_initiators` |
| SVC mediator | `.../array_mediator_svc.py` | a CLI session; the array holds the state | one method per interface operation, several CLI commands each |
| DS8K mediator | `.../array_mediator_ds8k.py`, `ds8k_rest_client.py` | a REST session | the same interface, several requests each |
| XIV mediator | `.../array_mediator_xiv.py` | a CLI session | the same interface, several XCLI commands each |
| mediator interface | `.../array_mediator_interface.py` | class properties of the three mediators | what each method may raise |
| validation, ids, names | `controller_server/utils.py`, `common/` | none | checks of a request, choice of the system, names and ids of objects |
| errors to status | `.../exception_handler.py`, `errors.py` | none | except clauses of each RPC and a common table |
| SVC result reader | `.../svc_cli_result_reader.py` | none | records from the output of a batch of commands |
| node RPCs | `node/pkg/driver/node.go` | none; the kernel's devices and mounts | NodeStage/Unstage, NodePublish/Unpublish, NodeExpandVolume |
| per-volume lock | `node/pkg/driver/sync_lock.go` | `sync.Map` of volume ids | `AddVolumeLock`, `RemoveVolumeLock` |
| node utilities, device connectivity | `node_utils.go`, `device_connectivity/*` | `/sys`, `/proc`, iSCSI sessions | scan, find, flush, remove, resize |

How they interact: an RPC handler validates its request and picks a system of the
secret, asks `get_agent` for the array's agent (a lock for all arrays), borrows a
mediator from the agent's pool (a lock per pool, held for a few instructions), and
runs its commands on it. An error of the mediator passes the except clauses of the
handler and then a common table that makes it a status. Handlers share nothing else, so
two of them interact on the array only. On the node, a handler takes the
volume's lock, or fails if it is taken, and runs operating system commands.

What is hard, and which properties answer it (the full list with lines is
`hazards` in `PROJECT.json`):

- *pool*: a call of `get` is a series of critical sections with logins in between.
  Correct means: the count is right, a session has one user, none is leaked, the
  limit holds, a waiting call is served.
- *agents*: probes and a login under a global lock; replacement of an agent whose
  pool is in use; sessions that die. Correct means: own password, mediator of the
  right type, limit, every call gets an answer.
- *requests*: secrets, storage classes, ids and names have several forms and change
  between calls. Correct means: a call acts on the object its id was given for, a
  repetition finds what it made, two requests never meet in one volume.
- *provisioning*: several commands per call, no lock, rollbacks that fail and are
  retried, restarts between commands, repeated calls. Correct means: what was
  answered as created exists and holds its data, what was answered as deleted is
  gone, nothing else is removed, nothing is left behind.
- *publishing*: check, then act, on hosts, mappings and LUN numbers, while hosts are
  edited. Correct means: one host per volume, the answered LUN is the volume's, an
  unpublish takes away its own mapping and no other, retries do not give up early.
- *node*: partial failures of a chain of commands on devices and mounts, a restart
  of the plugin. Correct means: a published target stays mounted, an unstaged
  volume leaves no device, a file system is not made twice.

## 2. Modules

| Module | Models | Composes |
|---|---|---|
| `ConnectionLeases` | abstract: connections lent to one call each, at most `MaxSize` | |
| `ConnectionPool` | `get`/`put` of the pool, step by step | implements `ConnectionLeases` |
| `ConnectionPoolProofs` | theorems about `ConnectionPool` | extends it |
| `StorageAgents` | the agent cache with detection of the array type; each agent's pool is what `ConnectionLeases` promises, with sessions that die | extends `ArrayMediator` |
| `StorageAgentsProofs` | theorems about `StorageAgents` | extends it |
| `SvcArray` | an SVC as its CLI commands change it (external) | |
| `SvcProvisioning` | the five provisioning RPCs on an SVC | extends `SvcArray` |
| `SvcProvisioningProofs` | theorems about `SvcProvisioning` | extends it |
| `Ds8kArray` | a DS8K as its REST requests change it (external) | |
| `Ds8kProvisioning` | the five provisioning RPCs on a DS8K | extends `Ds8kArray` |
| `Ds8kProvisioningProofs` | theorems about `Ds8kProvisioning` | extends it |
| `XivArray` | an XIV as its XCLI commands change it (external) | |
| `XivProvisioning` | the five provisioning RPCs on an XIV, gen2 or gen3 | extends `XivArray`, `RpcStatus`, `ArrayMediator` |
| `XivProvisioningProofs` | theorems about `XivProvisioning` | extends it |
| `ArrayMediator` | the interface: declared errors, class properties | |
| `RpcStatus` | from an exception to the status of an RPC | |
| `RequestRouting` | validation, choice of the system, names and ids, over a history of requests | extends `RpcStatus`, `ArrayMediator` |
| `RequestRoutingProofs` | theorems about `RequestRouting` | extends it |
| `HostLookup` | the host of a node's ports on the three arrays; the SVC result reader | |
| `VolumeMapping` | publish and unpublish on an SVC, an XIV or a DS8K | extends `HostLookup`, `RpcStatus`, `ArrayMediator` |
| `VolumeMappingProofs` | theorems about `VolumeMapping` | extends it |
| `NodeService` | the five node RPCs, for one volume on one node | |
| `NodeServiceProofs` | theorems about `NodeService` | extends it |

`MC*` modules add symmetry sets and constant functions for TLC.

### Correspondence

`map` in `PROJECT.json` gives the lines of every definition. The conventions:

- A thread (or goroutine) is an element of `Threads`; `pc`, or the `pc` field of
  `loc`, says which command comes next. A step is one command, or the stretch
  between two lock operations; the Python or Go code between two commands, with its
  conditions and early returns, is part of the step that runs the command before it.
- `ConnectionPool`: `channel`, `current_size` are the fields of the class; `item[t]`
  the local variable of `get`/`put`; `conn` the sessions. `Reserve`, `Drop`,
  `Unreserve` and `PutDecide` are the bodies of the `with lock` blocks.
- `StorageAgents`: `cached` is `_array_agents`, `lock` the module's lock. An agent
  without a reference is closed by the step that dropped the last one
  (`ConnectionPool.__del__`). `session[t]` says whether the session a call was given
  is alive and whether it had to wait for it.
- `SvcProvisioning`, `Ds8kProvisioning`, `XivProvisioning`: `loc[t]` is the call and the locals of its
  handler; `answers` records what the orchestrator was told and `deleting` (in
  `XivProvisioning`, `asked`) what it asked for, so that properties can speak of promises. `Undo` and `UndoNext` are
  the controller's rollback with its `@retry`. `Start` is the orchestrator: it
  makes new calls, repeats old ones, and names only objects it has been told of.
  In `XivProvisioning`, `overlap` records that two calls about one name ran at once, and
  `torn` the volumes of which a deletion and a snapshot were under way at once.
- The fault actions are sorted by what the code does with an error: raise it, roll
  back, take it for "does not exist", drop it or try again. `Crash`
  forgets every running call.
- `RequestRouting`: `secret` is what the orchestrator passes now, `held` what the
  systems hold, `issued` the ids that were answered with the requests they answer,
  `last` the last call with its status and the object it worked on. A handler is one
  step: what it does on an array is in the provisioning modules. Names and ids
  are sequences of parts; a hash is an injective function of its input.
- `VolumeMapping`: `array` is one of the three kinds, `hostmap` the array's table,
  `hosts` the host definitions that exist; `granted` what was answered; `odd` records
  that calls overlapped, hosts were edited or an error was dropped, for the
  properties that hold only without.
- `NodeService`: `sd`, `mpath`, `format`, `staging`, `mounts`, `present` are the
  kernel's view; `lock` the entry of the volume in the locks map; `promise` what
  the orchestrator may rely on.

Array and operating system commands are external: what they do, and when they
refuse, is taken from how the code calls them and which errors it has cases for.

## 3. Runs

| Run | Instance | Result |
|---|---|---|
| `pool` | 3 threads, 3 connections, limit 2, 2 refused logins | all properties hold |
| `pool_stranded` | the same, all fair | **violated** `WaiterServed` |
| `agents` | 2 threads, a DS8K with two passwords, an XIV, an SVC with two endpoints, one lost probe | all hold |
| `routing` | 4 systems of three types, 9 secrets, 4 storage classes, 3 requests, 1 edit of the secret | all hold |
| `routing_source` | two DS8K in one secret | **violated** `ClonedFromSource` |
| `svc` | 2 threads, 3 names, 4 calls, no overlap per object | all hold |
| `svc_faults` | 2 threads, 2 names, 3 calls, 2 faults, 1 restart, overlap | all hold |
| `svc_clone` | restart between two commands of a clone | **violated** `CloneFilled` |
| `ds8k` | 2 threads, 3 names, 3 calls, 1 fault, 1 restart, any overlap | all hold |
| `xiv` | 2 threads, 3 names, 3 calls, 3 sizes, 1 fault, 1 restart, any overlap, gen2 and gen3 | all hold |
| `mapping` | 2 threads, 3 volumes, 3 nodes, 4 hosts of which 3 are defined at first, 3 LUNs on the SVC and 2 on the others, 2 tries, 3 calls, 1 trouble (fault, restart, edit of a host or deletion of a volume), three arrays | all hold |
| `node` | 2 goroutines, 2 targets, 2 paths, block and file system, 5 calls, 1 fault, 1 restart | all hold |

What the passing runs show:

- `pool`: `SizeAccounting` (the count equals idle plus held mediators and never
  passes the limit), `ExclusiveUse`, `NoSessionLeaks`, `SessionLimit`,
  `PutNeverDiscards` (the two discarding branches of `put` are dead code),
  `LeasesSpec` (refinement), `ServedUnlessRefused` (a waiting call is served unless
  a login was refused).
- `agents`: `RightAgent` (`OwnPassword`, and `RightMediator`: a call works with a mediator
  of its array's type, unless the probe of a DS8K was lost), `KeyLimit` (for arrays
  whose password stays), `CheckedSession` (a dead session is given only to a call that waited,
  or by the XIV mediator) and `AgentAnswered` (`get_agent` returns although it
  probes and logs in under the lock).
- `routing`: `ActsOnOwn` (an id leads to the object it was given for, or to an error,
  after the secret was edited too), `DeletedWhenOk`, `SameVolumeSameName`,
  `RequestsServed` (`KnownServed`: a volume's id is understood again as long as the
  secret is valid and lists its system under the id it had; `SameRequestSameVolume`: a
  request repeated with the same secret is answered with the same volume or snapshot, as
  long as that exists; `InternalExplained`).
- `svc`: `CopiedWhenOk` (a clone or snapshot that was answered holds its source's
  data whatever is done to the source and other copies), `ArrayAgrees`
  (`AnsweredStays`, `NoOrphans`, `SnapshotGone` unless another deletion of the snapshot
  failed, `NeverOversized`).
- `svc_faults`: `VolumeGone`, `CallsEnd`, and `RemovedOnPurpose`: a volume is removed or emptied
  by a deletion of its own id that was asked for, or by the rollback of the call that read it
  back as its own (`RollsBack`). Two more cases exist, both by name, and the property
  names them: a deletion or rollback whose own object another call has removed since
  (`Overtaken`), and the rollback of a CreateSnapshot whose `mkvolume` failed (`Unmade`).
- `ds8k`: `CopiedWhenOk`, `RemovedOnPurpose`, `ArrayAgrees` (`VolumeGone`, `NoOrphans` for
  clones, `ExpandedWhenOk` unless the array refused).
- `xiv`: `CopiedWhenOk`, `AsBigAsAsked` (to the block, as long as no copy was cut off
  by a restart or by as many failures as a rollback has tries), `RepeatServed` (a
  repeated CreateVolume is served but for the cases it lists), `ArrayAgrees`
  (`GoneWhenOk`, `NoOrphans`), `RemovedOnPurpose`, `RaisesDeclared`. The first three
  make an exception for a copy of a snapshot that may have gone with its volume (`Misled`).
- `mapping`: `LunHolds`, `MappedAsAnswered` (`SingleHost`, `UnpublishedClean`), `UnmapsOwn`,
  `ExhaustedAfterRaces` (a publish is refused for want of a LUN only if the host has none, or
  if other calls took the LUN it had chosen as often as it has tries: `lost` counts these
  races apart from the code's own counter), `UnknownNode` (a node is unknown only if no host
  that stays defined during the lookup has a port of it), `RaisesDeclared`.
- `node`: `MountedStays` (a published target shows the volume until its release is
  asked for, if the orchestrator orders its calls and, for raw block, no mount failed),
  `UnstagedClean` (no device is left after an OK unstage, unless that unstage's lookup of the
  multipath device came to nothing), `ExpandedWhenOk` (the device, and a file system of a type
  the plugin grows), `LockProtects` (`LockHeldByOne`, `NeverReformats`, and, as long as no
  command failed, `NeverRemovesMounted`).

The conjunctions above include the module's type invariant `TypeOK`.

The three violations are disagreements between the code and what its own comments
and docstrings say; `findings` in `PROJECT.json` quotes both sides.

### Bounds, and why they are enough

- *Threads*: two threads give every race of two calls; the pool has three, so that
  one waits while two race. The threads of the provisioning models have no state
  in common except the array, and each property is about one object and the
  calls on it and on its source.
- *Sessions* (`agents`): one per pool, so that the second call has to wait for it, or is
  given one that died; larger pools are the subject of `pool`. Three keys, since a
  login to one array holds up calls for the others.
- *Names*: a source and two more give clones of clones, a clone and a snapshot of one
  source, and a snapshot used as a source.
- *Calls*: a violation of the copy properties needs create, create from it, delete
  or expand: three calls, four with a repetition. `node` needs stage, publish,
  expand, unpublish, unstage: five.
- *Faults and restarts*: one of each reaches every error path; `svc_faults` has two
  faults so that a rollback fails as well.
- *Sizes*: two sizes, one of them not a multiple of the block size (`svc`); only the
  latter in `svc_faults`, where the rounding must survive a failure; one below and one
  above the source's, and one out of range (`ds8k`); one that is no multiple of a
  block, the largest and one beyond it (`xiv`; a size of 0, which stands for the minimal
  one, is covered by the proofs).
- *Retries*: 2 instead of 5 or 11: the first failure and the last are different, and
  those in between are like one of them. In `mapping` the two tries meet three LUNs
  of a host on the SVC, so that a publish can lose both and a LUN is still free, and two
  on the XIV, so that the host runs full first. The LUN ids of
  the DS8K are the two examples of `scsilun_to_int`.
- *Hosts* (`mapping`): a node with ports on two hosts, one with a port on an iSCSI and
  one on an FC host, and one whose id has too many parts; ports are written in
  another case by the array. One of the hosts (`Defined`) is missing at first, so that a single
  edit either gives the node a second host after its publish or takes one away during a
  lookup. More than one trouble is covered by the proofs.
- *Requests* (`routing`): one value for each branch of the validation; two requests
  relate any two names or ids, the third repeats or deletes after an edit.
- *DS8K ids* are not reused, `MaxVolumes` is larger than the number of creations.

### Fairness

- `ConnectionPool`: weak fairness of each thread's own steps: Python schedules a
  thread that can run. Strong fairness of `Take`: a thread blocked in
  `Queue.get` is notified by each `put`, in order, but a scanning thread can be faster.
- `StorageAgents`: strong fairness of the steps under the lock, since
  `threading.RLock` wakes its waiters. Leaving a call is not assumed fair.
- `SvcProvisioning`: weak fairness of a running call's commands: they return,
  well or not.
- `NodeService`, `VolumeMapping`, `RequestRouting`, `Ds8kProvisioning` and
  `XivProvisioning` state safety only.

## 4. Proofs

Eight modules hold proofs. Each rests on one inductive invariant (`IInv`; in the
provisioning modules it has layers, see below), which TLC checked on the instance of the run
before it was proved. Each action has a lemma of its own: that it keeps the invariant, or,
for the SVC and the DS8K, that it is an `Advance`, a step of a thread of which every layer
is then proved once.

| Module | Theorem | States |
|---|---|---|
| `ConnectionPoolProofs` | `TypeCorrect` | `Spec => []TypeOK` |
| | `Accounting` | `Spec => []SizeAccounting` |
| | `Exclusive` | `Spec => []ExclusiveUse` |
| | `NoLeaks` | `Spec => []NoSessionLeaks` |
| | `NeverDiscards` | `Spec => []PutNeverDiscards` |
| | `LiveSessionsBounded` | `Spec => []SessionLimit` |
| | `Refinement` | `Spec => LeasesSpec` |
| `StorageAgentsProofs` | `AgentsAreRight` | `Spec => []RightAgent` |
| | `SessionsAreChecked` | `Spec => []CheckedSession` |
| | `SessionsPerKey` | `Spec => []KeyLimit` |
| `RequestRoutingProofs` | `CallsActOnOwn` | `Spec => []ActsOnOwn` |
| | `DeletionsAreTrue` | `Spec => []DeletedWhenOk` |
| | `NamesDoNotMeet` | `Spec => []SameVolumeSameName` |
| | `RequestsAreServed` | `Spec => []RequestsServed` |
| `VolumeMappingProofs` | `AnsweredLunHolds` | `Spec => []LunHolds` |
| | `MappingsAgree` | `Spec => []MappedAsAnswered` |
| | `ErrorsAreDeclared` | `Spec => []RaisesDeclared` |
| | `UnmapsOwnOnly` | `Spec => UnmapsOwn`, an action property |
| | `TriesAreUsed` | `Spec => ExhaustedAfterRaces`, an action property |
| `NodeServiceProofs` | `LockIsEnough` | `Spec => []LockProtects` |
| | `UnstageCleans` | `Spec => []UnstagedClean` |
| | `ExpansionIsDone` | `Spec => []ExpandedWhenOk` |
| | `PublishedIsMounted` | `Spec => []MountedStays` |
| `XivProvisioningProofs` | `ErrorsAreDeclared` | `Spec => []RaisesDeclared` |
| | `NothingElseIsRemoved` | `Spec => RemovedOnPurpose`, an action property |
| | `CopiesHoldTheirSource` | `Spec => []CopiedWhenOk` |
| | `SizesAreServed` | `Spec => []AsBigAsAsked` |
| | `RepeatsAreServed` | `Spec => []RepeatServed` |
| | `AnswersMatchTheArray` | `Spec => []ArrayAgrees` |
| `Ds8kProvisioningProofs` | `NothingElseIsRemoved` | `Spec => RemovedOnPurpose`, an action property |
| | `CopiesHoldTheirSource` | `Spec => []CopiedWhenOk` |
| | `AnswersMatchTheArray` | `Spec => []ArrayAgrees` |
| `SvcProvisioningProofs` | `DeletedVolumesAreGone` | `Spec => []VolumeGone` |
| | `NothingElseIsRemoved` | `Spec => RemovedOnPurpose`, an action property |
| | `CopiesHoldTheirSource` | `Calm => (Spec => []CopiedWhenOk)` |
| | `AnswersMatchTheArray` | `Calm => (Spec => []ArrayAgrees)` |

TLC evaluates the assumptions on the constants in the runs.

**Connection pool**: for any finite set of threads, any set of connections, any limit
and any number of refused logins (`PoolAssumption`). `IInv` is the types, the
accounting, that no thread is at `discard`, exclusive use, `Connected` (what is in the
queue or in a thread's hands has a session) and that no session is leaked. None of
the parts is inductive alone: that `put` has room needs the accounting, the
accounting needs that a mediator is not counted twice, and a new connection is
unused only because used ones have a session. The cardinality
of the threads that count (`HolderGained`, `HolderLost`, `HoldersKept`) is the only
arithmetic. `LiveSessionsBounded` maps
live sessions injectively into the counted places. `Refinement` maps the steps
between `get`'s return and `put`'s to the lease.

**Storage agents**: for any finite sets of threads, keys, passwords and agents
(`AgentsAssumption`). There are more agents than keys and threads together, so one is
always free; and an SVC's limit is at most a DS8K's, since a DS8K whose probe was lost is given
an SVC's pool. `KeyLimit` speaks of users whose password stays. It
needs `OnlyCached` (such a user has no agent but the cached one), which needs
`LockOwned` (while a thread probes or logs in, nobody else puts an agent
under that key), and `Alive` (an agent without a reference is gone). `RightAgent` needs
`Suited`: the type a call has detected and the class of each agent fit the array,
before any session is made with them.

**Request routing**: for any systems, secrets, classes, names, ids, calls and edits.
`SecretsAssumption` says that a system id stands for one system, in all secrets the
administrator installs: if it could be moved, no id would be safe. `NamesAssumption`
says that the orchestrator's names end in a part of their own (`pvc-` and a UUID); without
it prefix and name can be joined to one name in two ways (section 6). `IInv` says of
each answered id that it `Leads` back to its system through the secret of then and of
now, that the system is the one the request `Asked` for, and that the object is still
`NamedAs` the request asked (it has the very name that the request's class, prefix and the
array's limits make: `Title`, `FinalNameIs`). `SameRequestSameVolume` follows, since no two
objects of a system have one name (`Typed`). `ActsOnOwn` and `DeletedWhenOk` follow from `RouteIs` (what an answered id is
parsed to, and which system it gives) and `SameIs` (on that system, the last four digits
of a DS8K's id are enough).

**Publishing**: for any number of calls, volumes, nodes, hosts, LUNs, failures, restarts
and edits of the hosts, on each of the three arrays. `MappingAssumption` has the
conversion of the DS8K's LUN ids on the ids in use; `LookupAssumption` has what the
proof needs of the lookup: it finds a host with a port of the node, and no
host has ports of two nodes. These two are facts about the hosts' data and the
reader of the SVC's output; TLC evaluates them on the instance, they are not proved. `IInv` is
the types; `Distinct` (no two volumes of a host share a LUN); `Placed` and `Alone`, which
say what it means that nothing `odd` has happened; and `Known`: what each call has read
(the host, that the volume is not mapped, the LUN to be unmapped) is still so when it
acts. `LunHolds` alone is not inductive: a call that saw the volume unmapped could map
it a second time, and one that looked up a LUN could unmap another. `TriesAreUsed` has an
invariant of its own, `Raced`: a call has lost at least as many races as it has used up tries,
and one more if the LUN it is about to map is in use.

**Node**: for any number of goroutines, targets, paths, sizes, calls, failures and
restarts (`NodeAssumption` gives only types). `IInv` has `Held` (the volume's id is in the
locks map exactly while one goroutine is past `AddVolumeLock`), `Known` (what the holder's
earlier commands have read or made is still so: this is what the lock is for), `Grown`
(sizes keep up with the last expansion that was answered), `Asking` (how the
orchestrator's calls and what it was told fit together), `StagedStays` and `Shown`. For
`UnstagedClean`, `promise.missed` separates the OK of an unstage that removed everything, or found
nothing to remove, from the OK of one that did not find what was there.

**Provisioning on a XIV**: for any number of threads, names, sizes, calls, failures,
restarts and tries, on gen2 and gen3. `ArrayAssumption` and `ProvisioningAssumption` give
types, and that objects do not run out before calls do. The invariant has five layers, each
proved with the help of those before it:

- `Sound`: the array (`Arrayed`: names are unique, a snapshot's volume exists and is no
  snapshot), where a thread may be with which locals (`InStep`), and what an answer may
  say (`AnswerOK`). It gives `RaisesDeclared`, `TypeOK` and `GoneWhenOk`. That OK to a
  deletion is true needs `LocOK`: the name a deletion has looked up is still the
  object's, since a XIV's objects are not renamed here and names are unique.
- `Told`: ids and names that the calls carry were answered, an object that was
  answered keeps its name, and one name comes with one request.
- `Held`, while no calls about one name overlap: the command that works by name meets the
  object that was meant. What a call makes is not `Known` to anyone, has no snapshots and
  is there as long as it copies; a known object that is gone was deleted and its name is
  free, unless it is a snapshot that went with a torn volume. The name a gen3 lookup has read of
  a snapshot's volume is that volume's (`Traced`), or the volume was deleted (`Lost`) and
  nothing has its name. `RemovedOnPurpose`
  follows from `Told` and `Held`. Without `Alone` and `NotAgain` it would not be inductive: the
  name of a deleted volume could be used for another before its deletion
  reaches `vol_delete`.
- `Data`, under the same condition, failures and restarts included: what an object says it is a
  copy of, it holds; and a copy under way says so only after `vol_copy`. `CopiedWhenOk`
  follows. It is this that makes the answer to a repeated CreateVolume true, which looks
  at `copy_master_wwn` only.
- `Sized`, before any restart: every object is known, or is made by a running call, or was left
  by failures (`Owned`); a rollback has as many tries left as failures are missing to
  `Tries` (`LocSized`); a volume has its size, or was expanded. `AsBigAsAsked`, `RepeatServed` and
  `NoOrphans` follow. `Owned` is needed for the sizes too: a volume that a repeated
  call finds must be one that was answered, not the remains of a copy that was cut off.

**Provisioning on a DS8K**: for any number of threads, names, sizes, calls, failures and
restarts; `ProvisioningAssumption` gives types, and that ids do not run out before calls do.
Ids are never used again and every request goes by id, so no layer needs to speak
of names that change hands:

- `Sound`, always: the array, where a thread may be with which locals, what answers say.
- `Owned`, always: a volume that is being made has one maker, and a relationship that a
  deletion has checked and not yet removed is still complete. This is what makes the
  check of `_ensure_flashcopy_safe_to_delete` good for the removals after it, and
  `RemovedOnPurpose` follows whatever overlaps.
- `Alone`, while no calls about one name overlap: what is being made is known to nobody
  and found by nobody.
- `Copied`, with at most one failure or restart: a relationship that is not valid is about
  to be withdrawn by the call that saw it. `CopiedWhenOk` follows; a second failure would
  leave it for a repeated call to find (section 6).
- `Clean`, without failures: a rollback finds its volume free of relationships, so that
  every volume is known, being made, or left by a refused snapshot. `Grown`: expanded
  volumes have their size. `ArrayAgrees` follows from these.

**Provisioning on an SVC**: for any number of threads, names, sizes, calls and tries; the
assumptions give types only. Objects are found by id and handled by name, so the proof must
say what a name still stands for when the command that uses it runs:

- `Sound`, whatever overlaps, is used again, fails or is restarted: an id is bound to one name
  for ever (`Binds`), a mapping has both its volumes (`Arrayed`), a thread handles the
  name of its call (`InStep`), and OK to DeleteVolume means that no volume has
  the id. `VolumeGone` follows, and so does `RemovedOnPurpose`: one command
  touches one volume and the mapping whose target it is (`Effects`), and
  what a deletion or a rollback removes by name has the id it was asked for or read back, or
  its own object is gone (`Overtaken`), or it never had one (`Unmade`).
- `Calm` says that calls about one name do not overlap, names are not used again, and
  nothing fails; it is the instance of the run `svc`. The other two theorems need it: without it
  they are false, as section 6 and the run `svc_clone` show. Under it:
  - `Alone`: the names of running calls are apart; what is known and not being deleted
    stays under its name; what is being made is known to nobody, is no source, and its mapping
    is the call's own and not started (`LocMaps`). So a rollback always finds its volume
    removable, and every volume is known or being made.
  - `Copied`: the mapping of a known volume has been started, so its target reads as the
    source that `lsfcmap` shows to a repeated call; and a snapshot keeps its mapping until the last two
    commands of its deletion (`Taken`), so that the deletion which finds none may say OK.
  - `Sized`: sizes are those asked for, in blocks, and an expansion adds to the size the
    volume still has.

Only model-checked:

- liveness (`ServedUnlessRefused`, `AgentAnswered`, `CallsEnd`), which is out of the
  prover's reach;
- `UnknownNode` (completeness of the lookup, about data that is read with recursive
  functions: an induction over data).

## 5. Abstractions

- Pool sizes, ids and names are small numbers or model values. The provisioning
  modules and `VolumeMapping` take requests that passed validation, which is in
  `RequestRouting`; there an array operation is one step that succeeds.
- `RequestRouting`: SHA-256 is injective; a name is counted in parts, not
  characters; a digest that is cut to the array's name length stays unique, which
  `MediatorsAssumption` bounds from below (ten digits).
- XIV: `vol_copy`, `snapshot_create` and the deletions are atomic commands; gen3 differs
  from gen2 by not reporting what a volume is a copy of.
- SVC: an `lsfcmap` and the `lsvdisk` of its source are one step, which may fail in
  either; so are the two `lsvdisk` by which a copy finds the names of its target and its
  source: an id keeps its name for ever, and an object that goes in between is
  missed by `mkfcmap` in either case. Cascaded FlashCopy is left out (a target is not the source of another running mapping
  until its own is finished).
- DS8K: reading a volume by id and the list of its relationships are one step; a
  snapshot comes without a pool, so the source's pool is used; the array refuses
  a FlashCopy to a smaller target.
- `StorageAgents`: a call may come with or without the type of its array. The controller always
  passes the type it has detected outside the lock; `get_agent` without it, which probes under the
  lock, is the code's other branch, and the model has both. Closing the sessions of a collected pool succeeds; a pool whose last
  session died may log in once more in `__del__`, which is left out.
- `HostLookup`: the output of a batch is a sequence of parameters and values. The list of
  the hosts and the batch are two steps (`ListHosts`, `FindHost`); a listed host that is
  deleted before the batch gives no record.
- `NodeService`: one volume, since nothing is shared between volumes; the `StageInfo`
  file is left out; `sg_inq` and the matching of WWNs are "the device is
  found", "there is none", or "it is there and was missed" (`MpathMissed`); the resize tools refuse an unmounted file system; a raw block
  volume starts unformatted.

## 6. Further observations

Met while modelling; the models contain the behaviour, no run is spent on it.

- A waiting `get` returns what it takes from the queue without `is_active`; the
  docstring's "check the connection status" covers the first scan only. `is_active`
  of the XIV mediator is always true, so there even the first scan finds nothing.
- `ConnectionPool.__del__` stops at the first disconnect that fails and leaves the other
  sessions open.
- While a password changes, the old and the new pool together may exceed
  `max_connections`.
- `detect_array_type` takes a probe that times out for a closed port. The mediator that
  is then picked stays in the cached agent.
- Snapshot ids never name the system: DeleteSnapshot with a secret that has a
  config is INVALID_ARGUMENT, however the snapshot was made.
- The volume id in the `content_source` of a CreateVolume answer is the bare
  id of the array, not the one the orchestrator gave.
- A secret that is changed from one system to a config, or back, leads ids without a
  system to another system than the one they came from; and a CreateVolume that is repeated
  after the secret was edited may create a second volume on another system.
- Prefix and name are joined with `_`, which both may contain: prefix `a` with name
  `b_c` and prefix `a_b` with name `c` give one name.
- ControllerUnpublishVolume has an except clause for `ObjectIdError` that is never
  reached, and that names an exception class as the response type.
- SVC: when the `lsvdisk` between `mkfcmap` and `startfcmap` of a snapshot fails, nothing
  is rolled back; the repeated CreateSnapshot is answered OK for a snapshot that
  was never taken.
- SVC: a clone that is interrupted before `mkfcmap` is answered ALREADY_EXISTS for
  ever; nothing removes its volume.
- SVC: two overlapping expansions of one volume both add their difference.
- SVC: a deletion finds its volume by id and removes it by name several commands later. When
  two deletions of one volume overlap and the name is used again in between, the later
  one removes the new volume. This takes three threads and four calls; the proof attempt met it,
  not the run, and `RemovedOnPurpose` names the case (`Overtaken`).
- SVC: a failed `lsvdisk` is taken for "does not exist". A CreateSnapshot whose lookup missed a
  volume of its name that way, and whose `mkvolume` fails with an error other than "exists", is
  rolled back by name: the rollback removes the volume, which may have been answered to another
  call (`Unmade`). The lookup of a mapping's source is treated the same: a plain CreateVolume is
  then answered OK for a volume that is a clone, and a repeated clone or snapshot is
  ALREADY_EXISTS.
- SVC: a call that makes a volume reads it back by name. When the name has changed hands in
  between, the call takes another call's volume for its own, and may roll it back.
- A publish that loses the race for its LUN `max_lun_retries` times is answered
  RESOURCE_EXHAUSTED although the host has LUNs free.
- SVC: two overlapping publishes of one volume to two nodes map it to both hosts.
- SVC: a snapshot deletion that fails or is cut short between `rmfcmap` and `rmvolume` (a
  restart, or a clone that is being made from the snapshot) leaves a volume without
  `FC_id`; the repeated DeleteSnapshot takes it for absent, answers OK and leaves it.
- Two nodes that share a host definition share its mappings: an unpublish from one
  takes the volume from the other. A host that gets the node's port after
  the publish is found first by the unpublish, which is answered OK and leaves the
  old mapping. An unpublish whose host is gone is NOT_FOUND for ever.
- DS8K: a NotFound of the unmapping that has neither of the two known texts is dropped;
  the LUN to unmap is looked up first, and with overlapping calls may be another volume's
  by then.
- XIV: the iSCSI targets that are answered may be an empty list, where the SVC raises
  `NoIscsiTargetsFoundError`; `get_array_fc_wwns` of the DS8K raises an error the
  interface does not declare. `Undeclared` in `VolumeMapping` and `XivProvisioning`
  lists all such errors.
- XIV: sizes are rounded down to blocks, so a volume may be smaller than
  `required_bytes`, and a repeated CreateVolume of such a size, or of size 0, is
  ALREADY_EXISTS. On gen3 so is every repeated clone.
- XIV: a restart between `vol_copy` and `vol_resize`, or as many failures there as the
  rollback has tries, leaves a clone that the repeated call answers OK with the smaller
  size.
- XIV: a copy goes by the name of its source. A snapshot that was taken away with its volume
  and whose name was used again misleads it: the clone holds other data.
- XIV: when two CreateVolume calls for one name overlap, the rollback of one removes the
  volume the other was answered; and a deletion that has looked up the name removes what
  was created under it since. A snapshot that is made between `snapshot_list` and
  `vol_delete` goes with its volume. A snapshot of a volume that vanished
  ends in an AttributeError, which is INTERNAL.
- DS8K: `_extend_volume` drops every refusal but a full pool; ControllerExpandVolume
  is then answered OK with the old size.
- DS8K: two overlapping CreateVolume calls of one name create two volumes.
- DS8K: an error of `create_flashcopy` other than the two that are handled, for
  instance because the source was expanded in between, leaves the snapshot's volume.
- DS8K: an existing relationship is taken for a finished copy without a look at its
  state; an invalid one that a restart left behind passes.
- A repeated CreateVolume whose size was rounded up, or raised to the minimum, is
  refused: the sizes are compared before the conversion.
- Node: in the raw block branch of NodePublishVolume `mpathDevice, err :=` declares a new
  `err`: a mount that fails is logged as finished and answered OK.
- Node: GetMpathDevice waits five seconds for multipathd to list the device, and the loop's `out,
  err :=` hides the error of a wait that ends without it; GetDmsPath then reports
  `MultipathDeviceNotFoundForVolumeError`, and so does an `sg_inq` without the expected line.
  NodeUnstageVolume takes this error for a volume that has no device and answers OK: the
  devices stay on the node.
- Node: a publish that runs after the unstage binds the bare staging directory.
- Node: a failed `stat` counts as "does not exist": NodeUnpublishVolume is then
  answered OK for a mounted target, and a target that was mounted twice is removed
  after one unmount.

## 7. Not modelled, and the plan

- *iSCSI and Fibre Channel connectivity of the node*: discovery and login by `iscsiadm`.
  The results are logged and not used; a login that fails is a path that is missing,
  and `NodeService` has devices with missing paths.
- *Identification of devices* (`sg_inq`, WWNs, the parsing of `/sys` and `/proc`): text
  formats of tools; `NodeService` has the three outcomes (found, none there, missed). NodeGetInfo and the `StageInfo` file
  are not modelled either.
- *Array connection manager*: only its own tests use it.
- *Messages, settings, logging, start of the servers, capabilities*: constants and text.
- *Generated gRPC code*: most lines of the controller, and none of its logic.

Worth doing next: a composition of controller and node (publish, stage, unstage, unpublish and
delete of one volume), and for the SVC the copies that survive a failure that is rolled
back, which `Calm` leaves out.
