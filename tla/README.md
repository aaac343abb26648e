# Verification of custom-controller

TLA+ models, TLC runs and TLAPS proofs for the program under `src/`: two
Kubernetes controllers, running in one process on a *host* cluster, that copy
resources to *member* clusters.

    user ──> ResourceDistribution ──> DistributionController ──> Workload ──> WorkloadController ──> member clusters
                                       (host API server stores both kinds)

Line numbers below are those of `src/pkg/controller/distribution/` unless a
path is given. *RD* is short for ResourceDistribution.

## 1. The system

### Components

| component | state | operations |
|---|---|---|
| work queue and worker loops (`workload_controller.go` 91-230, `resource_controller.go` 219-319) | client-go's queue, its dirty and processing sets, the delayed keys, four workers | `enqueue`, `Run`, `runWorker`, `processNextWorkItem`, shutdown |
| WorkloadController (`workload_controller.go`) | the informer's cache of Workloads, which it changes in place; what each worker is doing; running deletion goroutines | `OnAdd`, `OnUpdate`, `OnDelete`, `syncHandler`, `syncWork`, `getClusterClient`, `deleteExternalResources` |
| DistributionController, reconciliation (`resource_controller.go` 321-445) | cache of RDs, changed in place as well; the manager's cache of Workloads | `syncHandler`, `updateExternalResources`, `deleteExternalResources`, `applyWorkloads` |
| DistributionController, works (447-710) | none, a pure function | `generateWorks`, `getClusterName`, `createWork`, override rules, JSON patches |
| DistributionController, event routing (795-1080) | the maps `widekeyNamespace` and `namespaceWidekey` | `OnRDAdd`, `OnRDDelete`, `EventFilter`, `OnAdd`, `OnUpdate`, `OnDelete` |
| InformerManager and discovery (`src/pkg/utils/genericmanager`, 713-788) | dynamic informers, their handlers, which were started | `ForResource`, `IsHandlerExist`, `Start`, `discoverResources` |
| SkippedResourceConfig (`src/pkg/utils/apigroup.go`) | sets of groups, versions, kinds | `NewSkippedResourceConfig`, `Parse`, the `…Disabled` look-ups, `gvrDisabled` |
| legacy reconcilers (`resource_distribution_reconciler.go`, `workload_reconciler.go`) | the manager's cache, the queues of controller-runtime | two `Reconcile`, compiled, their set-up commented out |
| process set-up (`src/cmd`) | which informers exist, run and are filled; the manager; the signals | `Start`, the informer factory, `Run` of both controllers, the end |
| API types, generated clients, CRDs | – | declarations |

### Interaction

The controllers meet only at the host's API server: DistributionController
creates, updates and deletes Workloads, a shared informer announces them to
WorkloadController. Everything an informer announces ends as a key in a work
queue; a worker takes the key and reads the newest object *from the informer's
cache*. Those objects are pointers. The code appends and removes finalizers and
labels on them and lets `Client.Update` decode its response into them, so the
cache is shared, mutable state of the workers, the event handlers and the
goroutines of `deleteExternalResources`. With the member clusters the program
shares nothing but the objects it writes there. DistributionController also
watches every API resource discovery finds, one informer and one goroutine each;
two maps, written by the goroutine that handles RDs, tell those goroutines which
RD a changed resource belongs to.

### What is hard here, and what makes it correct

* The queue: a key that is requested while it is worked on, or while its
  back-off runs, is neither lost nor worked on twice; nothing is left at the exit.
* The caches changed in place: a loop over clusters and manifests must not leave
  the version it started with, a comparison with a changed object must not hide
  a user's edit from the queue, an RD must not be marked twice.
* Loops of partial failures whose errors are logged and dropped, and updates
  that start from a cache that lags.
* The finalizer protocol: nothing is deleted that was not asked for, a deletion
  completes, nothing remains, nothing of a newer object goes with an older one.
* A nil client panics and restarts the process in the middle of anything.
* The plan: which cluster ends with which content when rules overlap and their
  objects pile up in one slice.
* The index: two maps and shared arrays without a lock, written while others
  read; a change of a selected resource must still reach its RD.
* The order of the set-up, on which it depends whether a controller ever works.

`PROJECT.json` lists these hazards line by line with the properties that cover
them, and says of the others why none does.

## 2. The modules

| module | what it is |
|---|---|
| `SingleFlight` | what all controllers need of their queue, abstractly: `pending`, `deferred`, `active` |
| `WorkQueue` | client-go's queue and the worker loops, which implement it |
| `WorkloadController`, `WorkloadProperties` | the controller with API server, informer, queue (an `INSTANCE` of `SingleFlight`), workers, deletion goroutines, member clusters, faults; what is expected of it |
| `Propagation` | what WorkloadController promises of the member clusters, abstractly: `asked`, `ending`, `has` |
| `WorkPlan` | the Workloads an RD stands for, as operators; `Asked` is the reference definition |
| `LegacyPlan` | the same of the function it replaced |
| `Planning` | one call of each |
| `DistributionController`, `DistributionProperties` | reconciliation of RDs, on `WorkPlan` and `SingleFlight`, with API server, two caches, garbage collector, faults |
| `SkippedResources`, `SkippedParsing` | what is not watched; how `Parse` reads it from tokens |
| `EventRouting`, `RoutingProperties` | discovery, informers, the index, the goroutines that read it |
| `Process` | set-up, running and end of the process |
| `Reconcilers` | the two legacy reconcilers, on `SingleFlight` |
| `MC…` | model values and instances for TLC |
| `WorkQueue_proofs`, `WorkloadController_proofs`, `DistributionController_proofs`, `Planning_proofs`, `SkippedParsing_proofs`, `EventRouting_proofs`, `Process_proofs`, `Reconcilers_proofs` | the theorems |

`WorkloadController` knows DistributionController as a user who creates, edits
and deletes Workloads; `DistributionController` knows WorkloadController as who
adds and, in the end, removes their finalizer; `EventRouting` has a sync as one
step. What each module says of the other is what that other's own module shows
(a finalizer is added and removed: `DeletionCompletes`; a sync follows a request:
`ImplementsSingleFlight`).

Definitions marked *Mutant* in a comment are faulty variants that no
specification uses; with one of them in place of the definition that follows,
TLC finds the property named in `PROJECT.json` violated.

### SingleFlight and WorkQueue

`WorkQueue` models `Add`, `Get`, `Done`, `AddRateLimited` and `ShutDown` of
client-go v0.25.5 as external code, and `enqueue`, `Run`, `runWorker`,
`processNextWorkItem` as the code has them: the handler's error is put into the
delaying queue *before* the deferred `Done`. `dirty` is the abstract `pending`,
`waiting` the abstract `deferred`, `held` the abstract `active`. `Forget` only
resets the back-off time, which is not modelled: a back-off may end any time.

### WorkloadController

| in the model | in the code |
|---|---|
| `hist[w]` | the versions of Workload `w` at the API server; its resource version is the index, `by` the version that wrote managedFields last |
| `mem[w]` | the objects in memory the informer delivered, in order; the newest is what the lister returns; changed in place |
| `notif[w]` | notifications the informer has not handed to the handlers |
| `pending`, `deferred`, `active` | the queue |
| `job[p]` | the place of worker `p` in `syncHandler` and `syncWork`, its loop position, what its attempt read |
| `reapers` | running goroutines of `deleteExternalResources` |
| `member[c][o]`, `down` | the spec of object `o` in cluster `c`, unreachable clusters |
| `joined` | clusters that have a Cluster object |
| `read[w]` | a history variable: the version `syncHandler` read last |
| `budget` | bounds on writes, faults and crashes |

Users and DistributionController are `Create`, `Edit`, `Delete` and `Join`. The
informer is `Deliver`, `Resync` (every 30 s, `src/cmd/serve/serve.go:70`) and
`Handle`, which decides with `SpecificationChanged` on the objects *as they are
when it runs*. The branches of `syncHandler` are `SyncNotFound`,
`SyncAddFinalizer`, `SyncRemoveFinalizer` and `SyncApply`; its `Client.Update`
is split into the request at the server (`Put`) and the response that is decoded
into the cached object (`Decode`), because others run in between. `syncWork` is
`SyncClients`, `SyncGet`, `SyncCreate`, `SyncUpdate`, one step per request. The
`uid` of a job tells whether the object at hand carries the uid of an object in
some other cluster, which makes an update a conflict. A call on a nil client is
`NilClient`: the process restarts.

`Propagation` is the same seen from the member clusters: `asked`, what versions of
Workloads assign (`AskedFor`), `ending`, the objects of versions being deleted
(`Withdrawn`), and `has`, which is `member`. It has no cache, queue or loop: `Ask` is
every step at the host, `Apply` and `Remove` one object in one cluster.

### WorkPlan, LegacyPlan, Planning

`generateWorks` and what it calls are operators: `Fetched` the templates a
selector finds, `Placed` `getClusterName`, `Targeted` the clusters of a rule,
`Residue` those no rule targets, `Override` the JSON patches, `Accumulated` the
slice `arrObj`, which is declared outside the loop over the rules and so carries
the objects of earlier rules into later Workloads, `GenerateWorks` the list.
A resource is its key and a body, a function from paths to values; names are
sequences of their parts, so that two RDs can make the same Workload name.
`Asked` says, from the RD alone, what a cluster should have of an object; `Given`
what a cluster that has none of the objects gets from a list of Workloads. Of the
manifests of an object in one Workload the first is `Prevailing`: the object is
created of it, and as `createWork` keeps the uid of the host's object, the `Update`
by a later one is refused. `AskedOfFirst` is therefore what is had: `Asked` with rule
1 in the place of the rules that target the cluster. `LegacyPlan` differs where the
older file does: rules are not restricted to the placement, a rule without a target
is a nil pointer, the last Workload is for all placed clusters, and WorkReconciler
puts each spec into the object the cluster has, so that the last manifest prevails
(`LegacyGiven`). `Planning` calls both and keeps the outcome: Workloads, an
error, a panic.

### DistributionController

| in the model | in the code |
|---|---|
| `hist[r]`, `seen[r]`, `cache[r]` | versions of an RD, how many the informer delivered, the object it delivered last, which workers change in place |
| `works`, `wcache`, `stale` | the Workloads at the API server, those in the manager's cache from which `Client.Get` and `List` read, where they differ |
| `lab`, `host` | labels of the Clusters, resources in the host cluster |
| `job[p]` | the worker's place, its object, the Workloads left to delete or to apply |
| `ids` | how many ids `random.RandLower` has returned |
| `SyncMark` | 335-367: finalizer, labels and id are put into the cached object, `Update`; an error is swallowed |
| `SyncDelete`, `DeleteWork`, `Release` | 369-414: list by label, delete one by one, remove the finalizer; then *on to* `applyWorkloads` |
| `Plan`, `ApplyCreate`, `ApplyUpdate` | 416-445: `generateWorks`, whose failure returns nil; create; update and return |
| `WorkFinalizer`, `Collect` | WorkloadController's finalizer, the garbage collector |

What a worker does between two requests is one step, because every read it makes
is from a cache that may lag anyway.

### EventRouting

`byKey` is `widekeyNamespace` with the length and capacity of each array, `keyOf`
is `namespaceWidekey`. The goroutine of the RD handlers, `rdh`, writes them one
after the other (`AddKey`, `AddRD`; `CutKey`, `CutRD`). Each discovered API
resource has a goroutine, `reader[g]`, that filters an event, looks the key up
and ranges over an array; `append(s[:i], s[i+1:]...)` moves entries of that array
under it unless `append` has replaced it meanwhile (`attached`). `Discover` is
`discoverResources` with any part of the API resources; `SkippedResources` decides
what it leaves out. An event carries the resource or, after a deletion the watch
missed (`Miss`), a tombstone, of which `ClusterWideKeyFunc` makes no key, so that
`EventFilter` answers false. What the filter compares is `WideKeyToString`, with all
its slashes. `disturbed`, `shifted` and `missed` are history variables that name the
cases in which the code does lose a change.

### Process, SkippedParsing, Reconcilers

`Process` takes `Start` step by step (`main` is what is left of it), the
generated informer factory (one informer for each type, started by `Start` of
the factory), the manager, both `Run`s with the cache they wait for, and the
signal handler. `SkippedParsing` reads a token as its parts between commas and
their names between slashes, as `parseSingle` does. `Reconcilers` has both
`Reconcile` functions, which share their course: `Get`, `Mark`, `DeleteWork` or
`DeleteObject`, `Release`, `Watch` or `syncWork`; controller-runtime's queue is
`SingleFlight`, and its cache is a prefix of the history.

## 3. The runs

| run | instance | states | shows |
|---|---|---|---|
| `queue` | 3 keys, 2 workers | 8 400 | types, `QueueInv`, `DrainedOnExit`, refinement of `SingleFlight`, `Served` |
| `workload_faults` | 1 Workload, cluster, object, worker; 3 writes, 1 fault, 1 crash | 811 k | `TypeOK`, `WorksFromOneVersion`, `NoLostEdit`, `DeletedOnlyWithWorkload` |
| `workload_two` | 2 Workloads, 2 workers, 2 clusters (one joins), 3 writes | 617 k | `MembersOnlyFromSpecs`, refinement of `Propagation` |
| `workload_live` | 2 objects, also repeated and with the host's uid; 3 writes, 1 crash | 205 k | `SettledMatchesSpec`, `EditReaches`, `DeletionCompletes` |
| `workload_creation` | 1 Workload, 1 write | – | `CreationReaches` does *not* hold |
| `plan` | up to 2 rules, 5 affinities, 4 patches, 3 clusters, 2 objects | 101 k | types and no panic, `WorksGiveFirstRule`, `LegacyGivesMore` |
| `distribution` | 1 RD with a rule, 3 writes, 1 fault or crash, 1 worker | 149 k | `TypeOK`, `WorksFromPlans`, `IdStable`, `DeletedOnlyWithOwner`, `DeletionFinishes`, `NothingRemains` |
| `distribution_live` | 1 RD, placed by label, of two Workloads or one; 2 writes, the label comes and goes; 1 fault or crash | 174 k | `FirstReaches` |
| `routing` | 2 RDs, one there at the start; 1 resource, 2 selectors, 2 API resources (one skipped); 2 writes, 1 missed deletion, of an RD or the resource, or restart | 356 k | `TypeOK`, `IndexFinds`, `IndexIsCurrent`, `NoLostChange` |
| `process` | 2 workers for each controller | 426 | `TypeOK`, `WorkersFindACache`, `ControllersWork`, `WorkEnds` |
| `reconcilers` | 1 RD, 1 Workload, 2 clusters, 3 writes, 1 fault | 253 k | `TypeOK`, `ObjectsGoFirst`, `QuietMeansApplied`, `DeletionFinishes` |
| `parsing` | all lists of one token, or of one part and one token; tokens of up to 2 parts, parts of up to 3 names | 23 k | `TypeOK`, `OnlyV1GroupsAreMisread` |

What the deeper ones mean:

* `WorksFromOneVersion`: what a worker or a deletion goroutine loops over keeps
  its clusters and manifests, whatever is decoded into it.
* `NoLostEdit`, `SettledMatchesSpec`: an edit that OnUpdate drops is one that
  `syncHandler` has read; at rest the members have the last edit.
* `WorksGiveFirstRule`: what the pile in `arrObj` comes to. A cluster that some rule
  targets gets what rule 1 makes of the resource, whichever rules target it; that is
  what the RD asks for only where no rule or rule 1 alone does.
* `WorksFromPlans`: clusters and manifests of a stored Workload always belong
  together, in one version of its owner, although created and updated by
  different requests that start from caches.
* `IdStable`: an id is drawn into a cached object before it is stored; the one
  that is stored never changes.
* `FirstReaches`: errors of `generateWorks`, conflicts, lost requests, stale reads and
  relabelled clusters notwithstanding, the first Workload of the plan follows, by the
  resync of 30 seconds. Of the later ones it cannot be said (below).
* `DeletionFinishes`, `NothingRemains`: `Delete` of Workloads the cache still lists
  fails, a released RD is applied once more, requests are lost, and the RD goes with
  all of its Workloads.
* `NoLostChange`: between discovery, filter, look-up and shared array no change
  of a selected resource gets lost but in the cases the history variables name.
* `ObjectsGoFirst`: the legacy WorkReconciler removes objects before the Workload,
  through conflicts, lost responses and crashes.
* `OnlyV1GroupsAreMisread`: the number of slashes and the first letters tell the
  documented forms of a token apart but for one, which is read as another.

Bounds. Three writes are the shortest history in which a Workload or an RD is
created, edited and deleted, or removed and created anew; one fault or crash at
every place of every such history covers each request and each pair of steps
once; the theorems, which bound no number, add that for safety a second one changes
nothing. `RetrySteps` is 2 where retries may happen, so that the last attempt and the
one before it both occur (5 in the code). Two workers and two Workloads are
enough for two loops to interleave on one object. `distribution` has one RD; that
`DeletedOnlyWithOwner` allows for namesakes in another namespace, and that the
others hold with any number of RDs, is the theorems' part. `distribution_live` has
plans of two Workloads, so that the return after the first update, and compares with
a stale cache, matter; it leaves out deletions, which `distribution` has. In
`routing` two RDs that select one resource are what it takes to share an array; a
third only makes it longer. `plan` is exhaustive in the ways in which targets,
placements and patches of two rules can overlap. `WorkloadController`'s `Resync`
fires only while nothing else waits to be handled, so that notifications stay
finite. The specs a run chooses from are in the `MC` modules.

`CHECK_DEADLOCK FALSE`: when the users' writes are used up the system may rest;
the process may end.

Fairness. Goroutines run, a watch delivers, a handler returns, a back-off ends,
an outage ends, a panic happens; in `DistributionController` the manager's cache
catches up, and WorkloadController and the garbage collector end what is being
deleted. A key is taken in its turn: that is `Served`, checked of the FIFO queue
in `queue` under weak fairness of its workers; the modules whose queue is a set
assume it as strong fairness of `Begin` per key. No user has to write anything,
no cluster has to join or fail, nothing has to crash, no signal has to come.

### What the code does not do

`workload_creation` ends in a counterexample to a comment of the code (232-233):
a new Workload may never be applied. The finalizer's response is decoded into the
cached object before its announcement is compared with that object, so `OnUpdate`
drops it; nothing else requests the key, as a resync compares an object with
itself. `EditReaches` and `DeletionCompletes` are therefore stated for what the
code does reach: without lost requests and with Workloads of one cluster they hold, also
across a crash. Of a manifest with the uid of the host's object they say that the
object is there, as such a manifest is created and never updated; of an object that
is repeated in a list, that it has the content of its last manifest without a uid
(`Matches`, `Prevails`).

Nor do the later Workloads of a plan follow an edit. `applyWorkloads` (416-445) looks
at the planned Workloads in order, creates those it does not find and returns after
the first update, failed or not (441). The specs it compares are never equal when
there are manifests (`DeepEqual`), so every sync, also that of a resync, updates the
first Workload the cache finds, and ends. Later ones keep the manifests and clusters
they were created with, and one that is missing is not created once one before it
exists: after an edit that adds a rule behind another, a label that leaves clusters
for a residue, a failed `Create`, or a crash between two. What is said of plans in
the end is therefore `FirstReaches`, of the first Workload alone; of all of them only
`WorksFromPlans` is said, that each belongs to *some* version of the RD.

And the clusters of a later rule do not get its content. Each Workload carries the
objects of the earlier rules before its own (`Accumulated`), all with the uid of the
host's object, which `createWork` does not remove (656-668). `syncWork` creates the
first one and is refused the update by the next (457-463), so that what rule 1 makes
of the resource stays, though the API says of a rule's target that it "defines
restrictions on this override policy that only applies to resources propagated to the
matching clusters" (`src/pkg/apis/distribution/v1/override_types.go:47-48`).

The models show more that the properties above make room for. In each case the
place where a property allows for it is named.

| what happens | where |
|---|---|
| `Run` returns at a shutdown while workers are still in `syncHandler` (comment at 99-102 of `workload_controller.go`) | `Process.Leave` |
| a removed Workload whose key is queued once more reaches `syncWork` with its finalizer gone, and its objects are created again | no property speaks of the members after a removal |
| the deletion goroutine of a removed Workload deletes the object of a new one of that name | `Edited`, last conjunct |
| the finalizer is removed from the cached object, `Update` fails, the retry finds none: the deletion never completes | no faults in `workload_live` |
| the second cluster's update carries the uid of the first cluster's object and fails; an edit synced during an outage is dropped | manifests of one cluster, no faults in `workload_live` |
| an object that is made from a manifest with the host's uid, as all manifests of RDs are, is never updated: no edit of the host's object or of a patch reaches a cluster that has it | `Prevails` in `Matches` |
| deleting an RD deletes the Workloads of its namesake in another namespace | `DeletedOnlyWithOwner` |
| an `Update` of an RD whose request is lost leaves the finalizer changed in the cache and not at the API server, and nothing makes it be sent again before a write to the RD or a restart: an RD being deleted waits, and one without rules has its residue's Workload under an id that is not stored | `Unsent` in `DeletionFinishes` and `FirstReaches` |
| the later Workloads of a plan are not updated, nor created once one before them exists | `FirstReaches` |
| an event is lost when `OnRDDelete` shifts the array `OnAdd` ranges over | `shifted` |
| an edited selector is not entered into the index, a missed deletion of an RD never leaves it | `disturbed` |
| a deletion of a watched resource that the watch missed is dropped by `EventFilter`, since a tombstone is no `runtime.Object` (808-811, `src/pkg/utils/keys/keys.go:66-70`) | `missed` |
| the clusters of a later rule get what rule 1 makes of the resource | `WorksGiveFirstRule` |
| a token `<group>/<version>` whose group begins with v1 (`apigroup.go:70, 73, 90`) leaves the group version watched, and the core kind of the version's name is skipped instead | `Misread` in `OnlyV1GroupsAreMisread` |
| an RD without annotations makes the legacy Reconciler panic, restart and panic again | `Bare` in `Reconcilers.DeletionFinishes` |
| after a conflict `RetryOnConflict` compares the object just overwritten, and the legacy WorkReconciler drops the update | `failed` in `QuietMeansApplied` |
| after a signal the process waits for a channel nobody closes | `Hang` in `Process` |

## 4. The proofs

TLAPS proves, for every value of the constants that the `ASSUME`s allow. These say:
no key, object or version is the idle mark `None`; specs are made of clusters and
manifests; there is at least one attempt and at least one thread; the RDs of
`EventRouting` and its resources are finitely many, since both are announced one
by one; a resource is a record of its API resource, namespace and name; an RD is
what the API server admits, a Cluster object names a member cluster, and the host
lists a resource once (`PlanningConstants`); `strings.Split` returns at least one
element (`ParsingConstants`). `FreshIds`,
the ids `random.RandLower` is going to return, is a bound of the model: when it is
used up, `SyncMark` is not enabled. Two hypotheses are stated with the theorems that
need them, `NamesApart` and `Orderly` (below).

* `WorkQueue_proofs`: `TypeCorrect`, `QueueCorrect`, `ExitDrains`, `Refinement`.
  The inductive invariant is `TypeOK /\ QueueInv`: that the queue holds exactly
  the dirty keys nobody processes is kept by `Done` only together with the fact
  that a key is held once and the processing keys are the held ones. `ExitDrains`
  adds that an exited worker has seen an empty queue. `Refinement` maps every
  step to a step of `SingleFlight` or a stutter; `Begin`'s guard follows from
  `HeldIsProcessing`.
* `WorkloadController_proofs`: `TypeCorrect`, `OneVersion`. Neither is inductive
  alone: a loop position has a type only because it is inside the version the
  worker started with, and that version keeps its spec only because a response
  is decoded into the object it was made from. `Inv == TypeOK /\
  WorksFromOneVersion` is inductive. `StepOK` says what any step has to show
  (`Keeps`: sequences of versions grow and keep their specs); one lemma per
  action follows, and `NextInv` combines them.
* Further in `WorkloadController_proofs`, on top of `Inv`:
  * `MembersCorrect`: a worker writes the manifest at its loop position, which is
    one of the version it started with and so of a version in `hist`; and `hist`
    only grows, so what was assigned once stays assigned.
  * `DeletedWithWorkload`: the goroutine that deletes looks at an object in memory,
    not at `hist`. `OInv` says what these objects keep while finalizers are put
    into them and responses decoded over them: spec, deletion and removal of the
    version they were delivered as (`Alike`), and a resource version under which
    the API server accepts them only if it agrees with them about the deletion.
    The last part is what makes the next response keep the first.
  * `Refinement`: every step maps to a step of `Propagation` or a stutter. `OneWrite`
    finds for a step that changes `member` the one object, with a version that
    assigns its content or the goroutine that deletes it, and that `hist` stays;
    any other step is an `Ask`, because `hist` only grows (`AskedStays`). Of `Remove`
    the guard follows from `OInv`.
  * `EditsAreServed`: `NoLostEdit` says that a notification *will enqueue* the key,
    which depends on two objects that may change. `EInv` says instead that it is the
    one of the user's version after its predecessor (`Tells`); with `OInv` follows
    that nothing decoded into either makes them equal, because the two differ in
    what users write or in who wrote last.
  * `SettledIsApplied`, for any lists of manifests, with the uid of the host's object
    or without, also of one object several times, in the world `Orderly` describes:
    one Workload, whose versions name one cluster each; every Cluster there from the
    start; no outage and no lost request. Crashes, conflicts and any number of workers
    remain. Each part is needed, because nothing is retried: a Cluster that joins
    triggers nothing, the update of a second cluster carries the uid the first one's
    response left, an outage ends in a status nobody stores, two Workloads may
    overwrite each other's objects (section 3). A pass over the list leaves behind it
    the content of the last manifest that can be written (`PassReaches`): the next
    manifest of an object either overwrites it, and prevails itself, or is refused.
    `SInv` adds to `EInv` that a worker applies the version read last (`OnWay`);
    that of a user's last version, once read, every manifest is in its cluster
    or still ahead of a worker (`Settling`); and that what `Get` found stays so
    (`Found`), because no other worker has the key (`Alone`) and no deletion goroutine
    runs (`NoReapers`). That `syncHandler` applies such a version at all, instead of
    adding the finalizer once more, is `Marked`.
* `DistributionController_proofs`: `TypeCorrect`, `IdsAreStable`. An id is drawn
  before it is stored, into an object that stays in the cache when the `Update`
  fails. `Inv` says what such an object is (`CopyOf`): either it differs from the
  version it was read as in nothing that `SyncMark` writes, or it was changed in
  vain; then it is marked already and never sent again until a new version
  is delivered. `VersionOK` says of the stored ones that an RD with an id has its
  finalizer until it is being deleted, so that a stale copy without the finalizer
  is refused. That no two workers have one RD (`Alone`) comes from `SingleFlight`.
* There too: `WorksComeFromPlans`, `DeletedOnlyForOwner`, where no
  two RDs of a namespace can make Workloads of one name (`NamesApart`). The name is
  the RD's, a hyphen and an id, and the code does not see to it: with RDs `a` and
  `a-b` and rules `b-c` and `c` one takes the other's Workload over, and TLC finds
  `WorksFromPlans` violated. `WInv` follows the objects on their way: what a worker
  has still to apply says what a version of its RD gives (`PlannedFor`), and no
  Workload is of a later RD than the worker's (`NoNewer`), which an RD removed and
  created anew would otherwise break.
* `Planning_proofs`: `TypeCorrect`, `WorksGiveFirst`, `LegacyGivesAtLeast`. The
  invariant only says that what was returned is what the operators compute; the
  theorems are about what they compute, for any number of rules, patches,
  templates and clusters. `Fetched`, `Override` and `Accumulated` are recursive
  functions over sequences. Two lemmas replace the induction theorems the provers
  cannot instantiate: `SetInduction` takes a *set* of numbers instead of a predicate
  (a least counterexample exists, by `WFMin`), and `Recursion` shows by it that the
  function a recursive definition chooses exists. From them:
  * `AccumulatedEnds`: after rule k, `arrObj` begins with what rule 1 makes of the
    templates and ends with what rule k does; between them are manifests of the same
    resources. So the first manifest of a resource is always rule 1's (`FirstPrevail`),
    the last one that rule's own (`LastPrevail`). This needs that no resource is
    fetched twice (`FetchedListed`).
  * `WorksGive`: a cluster that rules target gets what rule 1 gives and, if none
    does, the templates; that is `AskedOfFirst`, since a rule's clusters are placed
    ones and the residue's no rule's.
  * `LegacyGives` the same of the older version; where it does not panic every rule
    has a target (`TargetsThere`, again by `SetInduction`), so that on placed clusters
    its rules target what the newer ones do.
* `SkippedParsing_proofs`: `TypeCorrect`, `GrammarIsParsed`. A documented token has
  all its slashes in its first part (`DocumentedSlashes`), so the case `parseSingle`
  chooses is that of its form but for the one that is `Misread`, and what the case
  adds is what the token `Skips` (`Understood`, one lemma per form): what it says,
  if it is not misread (`SkipsAsSaid`). `ParsingInv` says that what is skipped is what
  the default and the tokens taken so far say; errors and panics keep that too,
  as no documented token leads to one.
* `EventRouting_proofs`, four invariants, each containing the one before:
  * `IndexAlwaysFinds`, by `Inv`. `AddRD` keeps `IndexFinds` only because `AddKey`
    has entered the RD before, and `CutKey` only because cutting one RD out of a
    shared array leaves each other one in it (`CutKeeps`, which needs that `First`
    finds the least position, by `WFMin`).
  * `TypeCorrect`, by `TInv`: arrays keep their length within their capacity.
  * `IndexStaysCurrent`, by `CInv`. The index may lag any number of announcements
    behind the cache, so the invariant follows the announcements of an RD through
    the feed as a chain: each needs the key its predecessor leaves, the first one
    what the handler at work will leave, the last one leaves the cache's key. At
    the end of the feed the index is current.
  * `ChangesAreServed`, by `LInv`: a change of a selected resource is in the events,
    at the look-up or in the loop over an array that still has the RD ahead of it;
    cutting another RD out of that array is what `shifted` is about. A tombstone among
    the events counts for nothing: it is of a `missed` resource, until an event of the
    resource itself follows.
* `Process_proofs`: `TypeCorrect`, `CachesAreFound`. `ControllerOK` says of each
  place of `Run` what it has seen; the end of the process empties everything at
  once, and a filled cache is never emptied otherwise.
* `Reconcilers_proofs`:
  * `TypeCorrect`, `ObjectsAlwaysGoFirst`. `ObjectsGoFirst` speaks of Workloads that
    are gone; `Inv` speaks of those *without the finalizer* (`Safe`): no cluster has
    their objects, and no version the cache has yet to deliver would make
    WorkReconciler apply one. `WorkOK` adds what its worker may rely on: it applies
    what the finalizer keeps, and what it deletes from it has deleted in every
    cluster no longer on its list. A lost response is why `Safe` looks at versions
    the cache has not delivered.
  * `QuietIsApplied`: `QInv` says of every Workload that is to stay (`Followed`) that
    the cache or the queue is behind, or every cluster has its last version or
    failed, or WorkReconciler is at it and those clusters that are not on its list
    any more do; and that what it works on is the last version if the cache is not
    behind (`AtLast`).

Only model-checked are the liveness properties: temporal proofs under fairness and
`ENABLED` are out of the prover's reach. They are `Served`, `EditReaches`,
`DeletionCompletes`, `FirstReaches`, both `DeletionFinishes`, `NothingRemains`,
`ControllersWork` and `WorkEnds`. Every invariant that a run checks is proved.

## 5. Not modelled

Code that nothing reaches, and so no behaviour to model:

* `findRDbyCluster`, `OnRDUpdate`, `createWorkWithCluster`, `checkSyncResource`,
  `findRDbyResourceGVK`, and `applyWorks` of the legacy Reconciler: no caller. The
  handlers of Clusters (142-157) are empty, so Clusters trigger nothing.
* `Stop`, `Lister`, `IsInformerSynced`, `WaitForCacheSync` of the InformerManager
  and the manager of several clusters: no caller, so the component is *partly*
  modelled.
* Typed clients, fakes, deep copies, CRDs, RBAC manifests: declarations.

Abstracted in the modules:

* The status `syncWork` computes: it is written to the cached object only, the
  code that would store it is commented out, and `SpecificationChanged` ignores it.
* Manifests that are no JSON; kubeconfigs that change; a host cluster that is
  its own member; finalizers of others; changes users make in member clusters
  and defaults their API servers add to a spec (both only make `DeepEqual` fail
  and an update happen).
* Objects without a field `spec`, such as a ConfigMap: `DeepEqual` (457) finds
  two nils equal, so `syncWork` creates them and never updates them. What the
  model calls the content of an object is its `spec`.
* That `createWork` keeps the uid of the host's object in a manifest (656-668) is
  an input of `WorkloadController` (`FaultSpecs` in `workload_faults`, `GrowingSpecs`
  in `workload_live`): such a manifest is created, never updated. In `WorkPlan` it is
  in `Prevailing`.
* A relist of the Workloads' watch after a missed event
  (`DeletedFinalStateUnknown`); those of the RDs' and of the resources' are in
  `EventRouting`.
* JSON patches on paths that contain one another or are outside the `spec`, as one
  that removes the host's uid would be; `MatchExpressions`, which the code does not
  look at.
* The order of notifications of different objects, back-off times, and the
  steps inside `getClusterClient`, which reads all clusters at one moment.
* A map of Go that is read while it is written ends the process: it is a
  `Restart` of `EventRouting`.

## 6. Plan

Done: every component that runs, each with its runs; theorems about all of them,
and about every safety property. Next:

1. `Distribution`: both controllers over one API server. `Propagation` is what its
   second half promises; the composition would say of `asked` that it comes from
   plans of RDs (`WorksFromPlans`), and implement "each member has what the RDs
   assign" as far as section 3 leaves that standing.
