----------------------- MODULE DistributionController -----------------------
(***************************************************************************)
(* The reconciliation of DistributionController (pkg/controller/           *)
(* distribution/resource_controller.go 87-160 and 219-445) with what it    *)
(* interacts with: the API server that keeps the ResourceDistributions     *)
(* (RDs) and the Workloads, the shared informer of the RDs, the manager's  *)
(* cache from which Client.Get and Client.List read Workloads, the work    *)
(* queue (SingleFlight), WorkloadController and the garbage collector.     *)
(* Which Workloads an RD stands for is WorkPlan.                           *)
(*                                                                         *)
(* The API server keeps the versions of an RD, hist; cache is the object   *)
(* in memory that the informer delivered last, which workers change in     *)
(* place.  What a worker does without waiting for anybody but the API      *)
(* server is one step wherever an interleaving inside it has the effect of *)
(* a cache that lags, which every read allows for anyway.                  *)
(***************************************************************************)
EXTENDS WorkPlan

CONSTANTS
    RDs,         \* namespace and name of the RDs, as [ns, name]
    Specs,       \* the ResourceDistributionSpecs users write
    Labellings,  \* Cluster objects with their labels
    Hosts,       \* resources in the host cluster
    FreshIds,    \* what random.RandLower returns, one after the other
                 \* (bound: no more than these are drawn)
    Procs,       \* the worker goroutines (4 in the code)
    MaxOps,      \* bound: writes of users
    MaxFaults    \* bound: lost requests and responses, crashes

ASSUME DistributionConstants ==
    /\ None \notin RDs
    /\ \A s \in Specs : Len(s.rules) \in Nat
    /\ Len(FreshIds) \in Nat
    /\ MaxOps \in Nat /\ MaxFaults \in Nat

VARIABLES
    hist,       \* the versions of each RD at the API server
    lab, host,  \* labels of the Clusters, resources in the host cluster
    works,      \* the Workloads at the API server
    wcache,     \* the Workloads in the manager's cache
    stale,      \* the keys of Workloads the cache has an older state of
    seen,       \* how many versions of each RD the informer delivered
    cache,      \* the object it delivered last, or None
    pending,    \* the work queue, see SingleFlight
    deferred,
    active,
    job,        \* what each worker is doing
    ids,        \* how many ids were drawn
    budget      \* writes and faults so far

world == <<lab, host>>
server == <<works, wcache, stale>>
informer == <<seen, cache>>
workqueue == <<pending, deferred, active>>
vars == <<hist, world, server, informer, workqueue, job, ids, budget>>

Q == INSTANCE SingleFlight WITH Keys <- RDs, Workers <- Procs, Idle <- None

-----------------------------------------------------------------------------
(* Data *)

(* A version of an RD: its spec, the label SyncPolicyId, the finalizer,    *)
(* the deletion timestamp, whether it is the removal, which of the RDs of  *)
(* its name it is, and the resource version.                               *)
Version(s, n) ==
    [spec |-> s, id |-> <<>>, fin |-> FALSE, del |-> FALSE, gone |-> FALSE,
     uid |-> n, rv |-> n]

(* The RD that generateWorks reads. *)
Policy(r, v) ==
    [ns |-> r.ns, name |-> r.name, uid |-> <<r, v.uid>>, id |-> v.id,
     selector |-> v.spec.selector, placement |-> v.spec.placement,
     rules |-> v.spec.rules]

Templates(v) == Fetched(v.spec.selector, host)

Feasible(r, v) ==
    /\ Fetches(v.spec.selector, host)
    /\ Succeeds(Policy(r, v), Templates(v))

PlanOf(r, v) == GenerateWorks(Policy(r, v), lab, Templates(v))

(* Mutant of Stored: the OwnerReference is forgotten. *)
StoredUnowned(w) ==
    [ns |-> w.ns, name |-> w.name, policy |-> w.policy, owner |-> <<>>,
     clusters |-> w.clusters, manifests |-> w.manifests,
     fin |-> FALSE, del |-> FALSE]

(* A Workload is kept with its finalizer (WorkloadController's) and        *)
(* deletion timestamp.                                                     *)
Stored(w) ==
    [ns |-> w.ns, name |-> w.name, policy |-> w.policy, owner |-> w.owner,
     clusters |-> w.clusters, manifests |-> w.manifests,
     fin |-> FALSE, del |-> FALSE]

Key(w) == <<w.ns, w.name>>
At(ws, k) == {w \in ws : Key(w) = k}

Latest(r) == hist[r][Len(hist[r])]
Exists(r) == hist[r] # <<>> /\ ~Latest(r).gone

(* The RD that the OwnerReference of w names is there.  Without one nobody *)
(* owns w, and the garbage collector leaves it alone.                      *)
HasOwner(w) == w.owner # <<>>
Owned(w) == HasOwner(w) /\ Exists(w.owner[1]) /\ Latest(w.owner[1]).uid = w.owner[2]

(* A worker: its place, the RD at hand and the version it was delivered    *)
(* as, the Workloads still to be deleted, those still to be applied.       *)
NoJob ==
    [pc |-> "idle", rd |-> None, at |-> 0, kill |-> {}, todo |-> <<>>,
     ok |-> TRUE]

Init ==
    /\ hist = [r \in RDs |-> <<>>]
    /\ lab \in Labellings
    /\ host \in Hosts
    /\ works = {} /\ wcache = {} /\ stale = {}
    /\ seen = [r \in RDs |-> 0]
    /\ cache = [r \in RDs |-> None]
    /\ Q!SFInit
    /\ job = [p \in Procs |-> NoJob]
    /\ ids = 0
    /\ budget = [ops |-> 0, faults |-> 0]

CanOp ==
    /\ budget.ops < MaxOps
    /\ budget' = [budget EXCEPT !.ops = @ + 1]

CanFault ==
    /\ budget.faults < MaxFaults
    /\ budget' = [budget EXCEPT !.faults = @ + 1]

-----------------------------------------------------------------------------
(* The API server and its users *)

Store(r, v) ==
    hist' = [hist EXCEPT ![r] = Append(@, [v EXCEPT !.rv = Len(hist[r]) + 1])]

Create(r) ==
    /\ CanOp
    /\ ~Exists(r)
    /\ \E s \in Specs : Store(r, Version(s, Len(hist[r]) + 1))
    /\ UNCHANGED <<world, server, informer, workqueue, job, ids>>

Edit(r) ==
    /\ CanOp
    /\ Exists(r)
    /\ \E s \in Specs \ {Latest(r).spec} : Store(r, [Latest(r) EXCEPT !.spec = s])
    /\ UNCHANGED <<world, server, informer, workqueue, job, ids>>

Delete(r) ==
    /\ CanOp
    /\ Exists(r) /\ ~Latest(r).del
    /\ Store(r, [Latest(r) EXCEPT !.del = TRUE, !.gone = ~Latest(r).fin])
    /\ UNCHANGED <<world, server, informer, workqueue, job, ids>>

(* The labels of the Clusters, or the resources, change. *)
Change ==
    /\ CanOp
    /\ \/ lab' \in Labellings \ {lab} /\ UNCHANGED host
       \/ host' \in Hosts \ {host} /\ UNCHANGED lab
    /\ UNCHANGED <<hist, server, informer, workqueue, job, ids>>

(* The Workload of key k becomes w, or is gone if w is empty; what the     *)
(* cache has of it gets old.  An update that changes nothing is no write.  *)
Write(k, w) ==
    /\ works' = (works \ At(works, k)) \cup w
    /\ stale' = IF works' = works THEN stale ELSE stale \cup {k}

(* A deleted Workload stays while it has the finalizer. *)
Doomed(w) == IF w.fin THEN {[w EXCEPT !.del = TRUE]} ELSE {}

(* WorkloadController adds its finalizer; it removes it from a Workload    *)
(* that is being deleted, which then goes.                                 *)
WorkFinalizer(w) ==
    /\ w.fin = w.del
    /\ Write(Key(w), IF w.del THEN {} ELSE {[w EXCEPT !.fin = TRUE]})
    /\ UNCHANGED <<hist, world, wcache, informer, workqueue, job, ids, budget>>

(* The garbage collector deletes a Workload whose owner is gone. *)
Collect(w) ==
    /\ HasOwner(w) /\ ~Owned(w) /\ ~w.del
    /\ Write(Key(w), Doomed(w))
    /\ UNCHANGED <<hist, world, wcache, informer, workqueue, job, ids, budget>>

-----------------------------------------------------------------------------
(* The informer of the RDs, the cache of the Workloads *)

(* The next version reaches the cache.  OnRDAdd, the UpdateFunc and        *)
(* OnRDDelete all enqueue the key, whatever has changed.                   *)
Deliver(r) ==
    LET v == hist[r][seen[r] + 1]
    IN  /\ seen[r] < Len(hist[r])
        /\ seen' = [seen EXCEPT ![r] = @ + 1]
        /\ cache' = [cache EXCEPT ![r] = IF v.gone THEN None ELSE v]
        /\ Q!Request(r)
        /\ UNCHANGED <<hist, world, server, job, ids, budget>>

(* Mutant of Resync: the informer announces nothing anew. *)
ResyncNever(r) == FALSE /\ UNCHANGED vars

(* Every 30 seconds the informer announces what it has, to the UpdateFunc. *)
Resync(r) ==
    /\ cache[r] # None
    /\ Q!Request(r)
    /\ UNCHANGED <<hist, world, server, informer, job, ids, budget>>

DeliverWork(k) ==
    /\ k \in stale
    /\ wcache' = (wcache \ At(wcache, k)) \cup At(works, k)
    /\ stale' = stale \ {k}
    /\ UNCHANGED <<hist, world, works, informer, workqueue, job, ids, budget>>

-----------------------------------------------------------------------------
(* syncHandler *)

Finish(ok) == [NoJob EXCEPT !.pc = "done", !.ok = ok]

Begin(p, r) ==
    /\ Q!Begin(p, r)
    /\ job' = [job EXCEPT ![p] = [NoJob EXCEPT !.pc = "start"]]
    /\ UNCHANGED <<hist, world, server, informer, ids, budget>>

(* Client.Update of an object o in memory succeeds: it is current.         *)
(* Without its finalizer an RD that is being deleted is removed.           *)
Accepted(r, o) == Exists(r) /\ o.rv = Len(hist[r])

Sent(r, o) ==
    [Latest(r) EXCEPT !.spec = o.spec, !.fin = o.fin, !.id = o.id,
                      !.gone = Latest(r).del /\ ~o.fin,
                      !.rv = Len(hist[r]) + 1]

(* Get of the lister: the object that the cache has, not a copy of it.     *)
Cached(r) == cache[r]

(* The worker's object, delivered as version n, becomes o; it is the       *)
(* cache's until a newer version is delivered.                             *)
InPlace(r, n, o) ==
    cache' = IF seen[r] = n THEN [cache EXCEPT ![r] = o] ELSE cache

(* Worker p sends o, which it has written in place: the response is        *)
(* decoded into it and applyWorkloads is called, or the update fails, or   *)
(* it or its response is lost and o stays as it was sent.                  *)
Put(p, r, n, o, failed) ==
    LET answer == [Sent(r, o) EXCEPT !.gone = FALSE]
    IN  \/ /\ Accepted(r, o)
           /\ Store(r, Sent(r, o))
           /\ InPlace(r, n, answer)
           /\ job' = [job EXCEPT ![p] =
                         [NoJob EXCEPT !.pc = "plan", !.rd = answer]]
           /\ UNCHANGED budget
        \/ /\ ~Accepted(r, o)
           /\ InPlace(r, n, o)
           /\ job' = [job EXCEPT ![p] = failed]
           /\ UNCHANGED <<hist, budget>>
        \/ /\ CanFault
           /\ \/ Accepted(r, o) /\ Store(r, Sent(r, o))
              \/ UNCHANGED hist
           /\ InPlace(r, n, o)
           /\ job' = [job EXCEPT ![p] = failed]

SyncNotFound(p) ==
    /\ job[p].pc = "start"
    /\ Cached(active[p]) = None
    /\ job' = [job EXCEPT ![p] = Finish(TRUE)]
    /\ UNCHANGED <<hist, world, server, informer, workqueue, ids, budget>>

(* Mutant of Unmarked: every sync draws an id. *)
NotDeleted(o) == ~o.del

Unmarked(o) == ~o.del /\ ~o.fin

(* updateExternalResources: the finalizer and an id are put into the       *)
(* object of the cache, which is sent.  An error is logged and nil is      *)
(* returned.                                                               *)
SyncMark(p) ==
    LET r == active[p]
    IN  /\ job[p].pc = "start"
        /\ Cached(r) # None
        /\ Unmarked(Cached(r))
        /\ ids < Len(FreshIds)
        /\ ids' = ids + 1
        /\ Put(p, r, seen[r],
               [cache[r] EXCEPT !.fin = TRUE, !.id = FreshIds[ids + 1]],
               Finish(TRUE))
        /\ UNCHANGED <<world, server, seen, workqueue>>

(* Mutant of Listed: the label is not asked for. *)
ListedAll(r) == wcache

(* List by the label SyncPolicy, from the cache and in all namespaces. *)
Listed(r) == {w \in wcache : w.policy = r.name}

(* Mutant of Terminating: the deletion timestamp is not looked at. *)
HasFinalizer(o) == o.fin

Terminating(o) == o.del /\ o.fin

SyncDelete(p) ==
    LET r == active[p]
    IN  /\ job[p].pc = "start"
        /\ Cached(r) # None
        /\ Terminating(Cached(r))
        /\ job' = [job EXCEPT ![p] =
                      [NoJob EXCEPT !.pc = "delete", !.rd = cache[r],
                                    !.at = seen[r],
                                    !.kill = {Key(w) : w \in Listed(r)}]]
        /\ UNCHANGED <<hist, world, server, informer, workqueue, ids, budget>>

(* deleteExternalResources: Delete of the next Workload; any error, also   *)
(* that it is gone, ends the attempt.                                      *)
DeleteWork(p, k) ==
    LET doomed == UNION {Doomed(w) : w \in At(works, k)}
    IN  /\ job[p].pc = "delete"
        /\ k \in job[p].kill
        /\ \/ /\ At(works, k) # {}
              /\ Write(k, doomed)
              /\ job' = [job EXCEPT ![p].kill = @ \ {k}]
              /\ UNCHANGED budget
           \/ /\ At(works, k) = {}
              /\ job' = [job EXCEPT ![p] = Finish(FALSE)]
              /\ UNCHANGED <<works, stale, budget>>
           \/ /\ CanFault
              /\ Write(k, doomed) \/ Write(k, At(works, k))
              /\ job' = [job EXCEPT ![p] = Finish(FALSE)]
        /\ UNCHANGED <<hist, world, wcache, informer, workqueue, ids>>

(* Mutant of Release: the object is changed, not sent. *)
ReleaseUnsent(p) ==
    LET o == [job[p].rd EXCEPT !.fin = FALSE]
    IN  /\ job[p].pc = "delete"
        /\ job[p].kill = {}
        /\ InPlace(active[p], job[p].at, o)
        /\ job' = [job EXCEPT ![p] = [NoJob EXCEPT !.pc = "plan", !.rd = o]]
        /\ UNCHANGED <<hist, world, server, seen, workqueue, ids, budget>>

(* The finalizer is taken from the object of the cache, which is sent. *)
Release(p) ==
    /\ job[p].pc = "delete"
    /\ job[p].kill = {}
    /\ Put(p, active[p], job[p].at, [job[p].rd EXCEPT !.fin = FALSE],
           Finish(FALSE))
    /\ UNCHANGED <<world, server, seen, workqueue, ids>>

(* Neither: also an RD that is being deleted, once its finalizer is gone,  *)
(* goes on to applyWorkloads.                                              *)
SyncApply(p) ==
    LET r == active[p]
    IN  /\ job[p].pc = "start"
        /\ Cached(r) # None
        /\ ~Unmarked(Cached(r)) /\ ~Terminating(Cached(r))
        /\ job' = [job EXCEPT ![p] = [NoJob EXCEPT !.pc = "plan", !.rd = cache[r]]]
        /\ UNCHANGED <<hist, world, server, informer, workqueue, ids, budget>>

-----------------------------------------------------------------------------
(* applyWorkloads *)

(* generateWorks; whatever fails in it, applyWorkloads returns nil. *)
Plan(p) ==
    LET r == active[p]
        o == job[p].rd
        todo == IF Feasible(r, o) THEN PlanOf(r, o) ELSE <<>>
    IN  /\ job[p].pc = "plan"
        /\ \/ /\ job' = [job EXCEPT ![p] =
                    IF todo = <<>> THEN Finish(TRUE)
                    ELSE [NoJob EXCEPT !.pc = "apply", !.todo = todo]]
              /\ UNCHANGED budget
           \/ /\ CanFault
              /\ job' = [job EXCEPT ![p] = Finish(TRUE)]
        /\ UNCHANGED <<hist, world, server, informer, workqueue, ids>>

(* The loop goes on, err being what the last request returned. *)
GoOn(p, ok) ==
    IF Len(job[p].todo) = 1
    THEN Finish(ok)
    ELSE [NoJob EXCEPT !.pc = "apply", !.todo = Tail(job[p].todo)]

(* reflect.DeepEqual of the specs: never with manifests, whose bytes have  *)
(* come back from the API server without the encoder's line feed, nor with *)
(* an empty list of clusters, which comes back as nil.                     *)
DeepEqual(obj, w) ==
    /\ obj.clusters = w.clusters /\ w.clusters # {}
    /\ obj.manifests = <<>> /\ w.manifests = <<>>

(* Client.Get does not find the Workload in the cache: Client.Create.  An  *)
(* error is logged and the loop goes on.                                   *)
ApplyCreate(p) ==
    LET w == Head(job[p].todo)
        taken == At(works, Key(w)) # {}
    IN  /\ job[p].pc = "apply"
        /\ At(wcache, Key(w)) = {}
        /\ \/ /\ ~taken /\ Write(Key(w), {Stored(w)})
              /\ job' = [job EXCEPT ![p] = GoOn(p, TRUE)]
              /\ UNCHANGED budget
           \/ /\ taken /\ UNCHANGED <<works, stale, budget>>
              /\ job' = [job EXCEPT ![p] = GoOn(p, FALSE)]
           \/ /\ CanFault
              /\ \/ ~taken /\ Write(Key(w), {Stored(w)})
                 \/ UNCHANGED <<works, stale>>
              /\ job' = [job EXCEPT ![p] = GoOn(p, FALSE)]
        /\ UNCHANGED <<hist, world, wcache, informer, workqueue, ids>>

(* Mutant of Updated: the manifests are kept. *)
UpdatedClusters(obj, w) == [obj EXCEPT !.clusters = w.clusters]

(* workObj.Spec = work.Spec *)
Updated(obj, w) == [obj EXCEPT !.clusters = w.clusters, !.manifests = w.manifests]

(* It finds it: if the specs differ, Client.Update, which fails if the     *)
(* cache was stale, and return, failed or not.  (If the cache could not be *)
(* read an empty Workload would be updated, which fails as well.)          *)
ApplyUpdate(p) ==
    LET w == Head(job[p].todo)
        current == Key(w) \notin stale
    IN  /\ job[p].pc = "apply"
        /\ \E obj \in At(wcache, Key(w)) :
             \/ /\ DeepEqual(obj, w)
                /\ job' = [job EXCEPT ![p] = GoOn(p, TRUE)]
                /\ UNCHANGED <<works, stale, budget>>
             \/ /\ ~DeepEqual(obj, w) /\ current
                /\ Write(Key(w), {Updated(obj, w)})
                /\ job' = [job EXCEPT ![p] = Finish(TRUE)]
                /\ UNCHANGED budget
             \/ /\ ~DeepEqual(obj, w) /\ ~current
                /\ job' = [job EXCEPT ![p] = Finish(FALSE)]
                /\ UNCHANGED <<works, stale, budget>>
             \/ /\ CanFault
                /\ \/ current /\ Write(Key(w), {Updated(obj, w)})
                   \/ UNCHANGED <<works, stale>>
                /\ job' = [job EXCEPT ![p] = Finish(FALSE)]
        /\ UNCHANGED <<hist, world, wcache, informer, workqueue, ids>>

-----------------------------------------------------------------------------
(* The end of processNextWorkItem, crashes *)

(* Mutant of Fail: the key is given back before the worker is done. *)
FailAndEnd(p) ==
    /\ job[p].pc = "done" /\ ~job[p].ok
    /\ deferred' = deferred \cup {active[p]}
    /\ active' = [active EXCEPT ![p] = None]
    /\ job' = [job EXCEPT ![p].ok = TRUE]
    /\ UNCHANGED <<hist, world, server, informer, pending, ids, budget>>

Fail(p) ==
    /\ job[p].pc = "done" /\ ~job[p].ok
    /\ Q!Defer(p)
    /\ job' = [job EXCEPT ![p].ok = TRUE]
    /\ UNCHANGED <<hist, world, server, informer, ids, budget>>

Done(p) ==
    /\ job[p].pc = "done" /\ job[p].ok
    /\ Q!End(p)
    /\ job' = [job EXCEPT ![p] = NoJob]
    /\ UNCHANGED <<hist, world, server, informer, ids, budget>>

Fire(r) ==
    /\ Q!Fire(r)
    /\ UNCHANGED <<hist, world, server, informer, job, ids, budget>>

(* The process dies and starts again: the caches are listed anew, each RD  *)
(* is announced as added.                                                  *)
Crash ==
    /\ CanFault
    /\ seen' = [r \in RDs |-> Len(hist[r])]
    /\ cache' = [r \in RDs |-> IF Exists(r) THEN Latest(r) ELSE None]
    /\ wcache' = works /\ stale' = {}
    /\ pending' = {r \in RDs : Exists(r)}
    /\ deferred' = {}
    /\ active' = [p \in Procs |-> None]
    /\ job' = [p \in Procs |-> NoJob]
    /\ UNCHANGED <<hist, world, works, ids>>

-----------------------------------------------------------------------------
User(r) == Create(r) \/ Edit(r) \/ Delete(r)

Sync(p) ==
    \/ SyncNotFound(p) \/ SyncMark(p) \/ SyncDelete(p) \/ SyncApply(p)
    \/ Release(p) \/ \E k \in job[p].kill : DeleteWork(p, k)

Apply(p) == Plan(p) \/ ApplyCreate(p) \/ ApplyUpdate(p)

Worker(p) == Sync(p) \/ Apply(p) \/ Fail(p) \/ Done(p)

Next ==
    \/ \E r \in RDs : User(r) \/ Deliver(r) \/ Resync(r) \/ Fire(r)
    \/ Change
    \/ \E w \in works : WorkFinalizer(w) \/ Collect(w)
    \/ \E k \in stale : DeliverWork(k)
    \/ \E p \in Procs : Worker(p) \/ \E r \in RDs : Begin(p, r)
    \/ Crash

(* As for WorkloadController; the caches catch up, and other controllers   *)
(* finish what is being deleted.                                           *)
Fairness ==
    /\ \A r \in RDs :
          /\ WF_vars(Deliver(r)) /\ WF_vars(Resync(r)) /\ WF_vars(Fire(r))
          /\ SF_vars(\E p \in Procs : Begin(p, r))
    /\ \A p \in Procs : WF_vars(Worker(p))
    /\ WF_vars(\E k \in stale : DeliverWork(k))
    /\ WF_vars(\E w \in works : Collect(w) \/ (w.del /\ WorkFinalizer(w)))

Spec == Init /\ [][Next]_vars

FairSpec == Spec /\ Fairness
=============================================================================
