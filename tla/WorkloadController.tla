------------------------- MODULE WorkloadController -------------------------
(***************************************************************************)
(* WorkloadController (pkg/controller/distribution/workload_controller.go) *)
(* with everything it interacts with: the host cluster's API server that   *)
(* stores the Workloads, the shared informer that caches and announces     *)
(* them, the work queue (SingleFlight), the workers in syncHandler and     *)
(* syncWork, the goroutines of deleteExternalResources, and the member     *)
(* clusters they write to.                                                 *)
(*                                                                         *)
(* The API server keeps, per Workload, the sequence of its versions; the   *)
(* resource version is the index.  The informer's objects are Go pointers  *)
(* that the code changes in place: mem[w][i] is the object in memory that  *)
(* version i was delivered as, and may come to differ from hist[w][i].     *)
(***************************************************************************)
EXTENDS Integers, Sequences

CONSTANTS
    Works,       \* the Workloads, by namespace/name
    Clusters,    \* the member clusters
    Objs,        \* the objects manifests describe, by kind and name
    Vers,        \* the contents (spec) a manifest may give an object
    Specs,       \* the WorkloadSpecs that users and the
                 \* DistributionController write
    Procs,       \* the worker goroutines (4 in the code)
    Registered,  \* the clusters that have a Cluster object from the start
    None,        \* no key, no cluster, no object
    RetrySteps,  \* attempts of retry.DefaultRetry (5 in the code)
    MaxOps,      \* bound: writes of users
    MaxFaults,   \* bound: lost requests or responses, cluster outages
    MaxCrashes   \* bound: crashes that no nil client causes

Manifests == [obj : Objs, ver : Vers, uid : BOOLEAN]
WorkSpecs == [clusters : SUBSET Clusters, manifests : Seq(Manifests)]

ASSUME ConstantsOK ==
    /\ None \notin Works \cup Clusters \cup Vers \cup Procs
    /\ Registered \subseteq Clusters
    /\ Specs \subseteq WorkSpecs
    /\ RetrySteps \in Nat \ {0}
    /\ MaxOps \in Nat /\ MaxFaults \in Nat /\ MaxCrashes \in Nat

VARIABLES
    hist,      \* the versions of each Workload in the host cluster
    joined,    \* the clusters that have a Cluster object
    member,    \* what each member cluster has of each object
    down,      \* the member clusters that cannot be reached
    mem,       \* the delivered versions of each Workload, in memory
    notif,     \* the informer's notifications not handled yet
    pending,   \* the work queue, see SingleFlight
    deferred,
    active,
    job,       \* what each worker is doing
    reapers,   \* the running goroutines of deleteExternalResources
    read,      \* the version of each Workload last read by syncHandler
    budget     \* writes, faults and crashes so far

server == <<hist, joined>>
cluster == <<member, down>>
informer == <<mem, notif>>
workqueue == <<pending, deferred, active>>
vars == <<server, cluster, informer, workqueue, job, reapers, read, budget>>

Q == INSTANCE SingleFlight WITH Keys <- Works, Workers <- Procs, Idle <- None

-----------------------------------------------------------------------------
(* Data *)

(* A version of a Workload: its spec, the controller's finalizer, the      *)
(* deletion timestamp, whether this version is its removal, the resource   *)
(* version, and the version that wrote managedFields last.                 *)
Versions ==
    [spec : Specs, fin : BOOLEAN, del : BOOLEAN, gone : BOOLEAN,
     rv : Nat, by : Nat]

Notifs == [kind : {"add", "update", "delete"}, old : Nat, new : Nat]

(* A worker: its place in syncHandler and syncWork, the object at hand     *)
(* (at), the version a write created (to), the position in the two loops   *)
(* of syncWork, and what the current attempt read.                         *)
Jobs ==
    [pc : {"idle", "start", "put", "decode", "clients", "get", "create",
           "update", "done"},
     at : Nat, to : Nat, m : Nat, left : SUBSET Clusters,
     clients : SUBSET Clusters, nils : SUBSET Clusters,
     c : Clusters \cup {None}, uid : BOOLEAN, fresh : BOOLEAN,
     tries : 0..RetrySteps - 1, ok : BOOLEAN]

(* A goroutine of deleteExternalResources. *)
Reapers ==
    [w : Works, at : Nat, pc : {"start", "delete"}, m : Nat,
     left : SUBSET Clusters, clients : SUBSET Clusters,
     nils : SUBSET Clusters]

NoJob ==
    [pc |-> "idle", at |-> 0, to |-> 0, m |-> 0, left |-> {}, clients |-> {},
     nils |-> {}, c |-> None, uid |-> FALSE, fresh |-> FALSE, tries |-> 0,
     ok |-> TRUE]

Latest(w) == hist[w][Len(hist[w])]
Exists(w) == hist[w] # <<>> /\ ~Latest(w).gone

(* The object the lister returns. *)
Newest(w) == Len(mem[w])
Cached(w) == mem[w] # <<>> /\ ~mem[w][Newest(w)].gone

(* The API server stores v as the next version of w. *)
Store(w, v) ==
    hist' = [hist EXCEPT ![w] = Append(@, [v EXCEPT !.rv = Len(hist[w]) + 1])]

Init ==
    /\ hist = [w \in Works |-> <<>>]
    /\ joined = Registered
    /\ member = [c \in Clusters |-> [o \in Objs |-> None]]
    /\ down = {}
    /\ mem = [w \in Works |-> <<>>]
    /\ notif = [w \in Works |-> <<>>]
    /\ Q!SFInit
    /\ job = [p \in Procs |-> NoJob]
    /\ reapers = {}
    /\ read = [w \in Works |-> 0]
    /\ budget = [ops |-> 0, faults |-> 0, crashes |-> 0]

CanOp ==
    /\ budget.ops < MaxOps
    /\ budget' = [budget EXCEPT !.ops = @ + 1]

CanFault ==
    /\ budget.faults < MaxFaults
    /\ budget' = [budget EXCEPT !.faults = @ + 1]

-----------------------------------------------------------------------------
(* Users, and the DistributionController, at the API server *)

(* Client.Create of a Workload; it carries no finalizer. *)
Create(w) ==
    /\ CanOp
    /\ ~Exists(w)
    /\ \E s \in Specs :
          Store(w, [spec |-> s, fin |-> FALSE, del |-> FALSE, gone |-> FALSE,
                    rv |-> 0, by |-> Len(hist[w]) + 1])
    /\ UNCHANGED <<joined, cluster, informer, workqueue, job, reapers, read>>

(* Client.Update of the spec of a Workload; it keeps the metadata. *)
Edit(w) ==
    /\ CanOp
    /\ Exists(w)
    /\ \E s \in Specs \ {Latest(w).spec} :
          Store(w, [Latest(w) EXCEPT !.spec = s, !.by = Len(hist[w]) + 1])
    /\ UNCHANGED <<joined, cluster, informer, workqueue, job, reapers, read>>

(* Client.Delete: the object stays while it has the finalizer. *)
Delete(w) ==
    /\ CanOp
    /\ Exists(w)
    /\ ~Latest(w).del
    /\ Store(w, [Latest(w) EXCEPT !.del = TRUE, !.gone = ~Latest(w).fin])
    /\ UNCHANGED <<joined, cluster, informer, workqueue, job, reapers, read>>

(* A Cluster object is created. *)
Join(c) ==
    /\ CanOp
    /\ joined' = joined \cup {c}
    /\ c \notin joined
    /\ UNCHANGED <<hist, cluster, informer, workqueue, job, reapers, read>>

-----------------------------------------------------------------------------
(* The shared informer *)

(* The next version reaches the cache and is announced to the handlers. *)
Deliver(w) ==
    LET n == Newest(w) + 1
        kind == IF hist[w][n].gone THEN "delete"
                ELSE IF Cached(w) THEN "update" ELSE "add"
    IN  /\ Newest(w) < Len(hist[w])
        /\ mem' = [mem EXCEPT ![w] = Append(@, hist[w][n])]
        /\ notif' = [notif EXCEPT ![w] =
                        Append(@, [kind |-> kind, old |-> n - 1, new |-> n])]
        /\ UNCHANGED <<server, cluster, workqueue, job, reapers, read, budget>>

(* Every 30 seconds the informer announces what it has cached once more.   *)
(* Bound: only when nothing else waits to be handled.                      *)
Resync(w) ==
    /\ Cached(w)
    /\ notif[w] = <<>>
    /\ notif' = [notif EXCEPT ![w] =
                    <<[kind |-> "update", old |-> Newest(w), new |-> Newest(w)]>>]
    /\ UNCHANGED <<server, cluster, mem, workqueue, job, reapers, read, budget>>

(* Mutants of SpecificationChanged: a change of the spec is no change; a   *)
(* deletion is no change.                                                  *)
MetadataChanged(old, new) == old.fin # new.fin \/ old.del # new.del

SpecChanged(old, new) == old.spec # new.spec

(* utils.SpecificationChanged: the objects are compared without status and *)
(* resourceVersion; everything else counts, managedFields included.        *)
SpecificationChanged(old, new) ==
    [old EXCEPT !.rv = 0] # [new EXCEPT !.rv = 0]

(* Whether OnAdd, OnUpdate or OnDelete enqueue the key for notification n. *)
Enqueues(w, n) ==
    n.kind = "update" => SpecificationChanged(mem[w][n.old], mem[w][n.new])

Handle(w) ==
    /\ notif[w] # <<>>
    /\ notif' = [notif EXCEPT ![w] = Tail(@)]
    /\ IF Enqueues(w, Head(notif[w]))
       THEN Q!Request(w)
       ELSE UNCHANGED workqueue
    /\ UNCHANGED <<server, cluster, mem, job, reapers, read, budget>>

-----------------------------------------------------------------------------
(* The workers: processNextWorkItem and the branches of syncHandler *)

Finish(ok) == [NoJob EXCEPT !.pc = "done", !.ok = ok]

(* Get of the work queue. *)
Begin(p, w) ==
    /\ Q!Begin(p, w)
    /\ job' = [job EXCEPT ![p] = [NoJob EXCEPT !.pc = "start"]]
    /\ UNCHANGED <<server, cluster, informer, reapers, read, budget>>

(* The lister is asked for the Workload: the four outcomes follow. *)
Reads(p) ==
    /\ job[p].pc = "start"
    /\ read' = [read EXCEPT ![active[p]] = Newest(active[p])]
    /\ UNCHANGED <<server, cluster, notif, workqueue, budget>>

(* The Workload is not in the cache: nothing to do. *)
SyncNotFound(p) ==
    /\ Reads(p)
    /\ ~Cached(active[p])
    /\ job' = [job EXCEPT ![p] = Finish(TRUE)]
    /\ UNCHANGED <<mem, reapers>>

(* It has no finalizer: one is appended to the object of the cache, which  *)
(* is then sent.                                                           *)
SyncAddFinalizer(p) ==
    LET w == active[p]
        o == mem[w][Newest(w)]
    IN  /\ Reads(p)
        /\ Cached(w)
        /\ ~o.del /\ ~o.fin
        /\ mem' = [mem EXCEPT ![w][Newest(w)].fin = TRUE]
        /\ job' = [job EXCEPT ![p].pc = "put", ![p].at = Newest(w)]
        /\ UNCHANGED reapers

(* Mutant of Terminating: the deletion timestamp is not looked at. *)
HasFinalizer(o) == o.fin

Terminating(o) == o.del /\ o.fin

(* It is being deleted and has the finalizer: a goroutine is started, the  *)
(* finalizer is removed from the object of the cache, which is then sent.  *)
SyncRemoveFinalizer(p) ==
    LET w == active[p]
        o == mem[w][Newest(w)]
    IN  /\ Reads(p)
        /\ Cached(w)
        /\ Terminating(o)
        /\ reapers' = reapers \cup
              {[w |-> w, at |-> Newest(w), pc |-> "start", m |-> 0,
                left |-> {}, clients |-> {}, nils |-> {}]}
        /\ mem' = [mem EXCEPT ![w][Newest(w)].fin = FALSE]
        /\ job' = [job EXCEPT ![p].pc = "put", ![p].at = Newest(w)]

(* Otherwise, that is also for an object being deleted without the         *)
(* finalizer, syncWork is called.                                          *)
SyncApply(p) ==
    LET w == active[p]
        o == mem[w][Newest(w)]
    IN  /\ Reads(p)
        /\ Cached(w)
        /\ o.del # o.fin
        /\ job' = [job EXCEPT ![p].pc = "clients", ![p].at = Newest(w)]
        /\ UNCHANGED <<mem, reapers>>

(* Client.Update of the object in memory succeeds: it is current.  Without *)
(* its last finalizer an object being deleted is removed.                  *)
PutAccepted(w, o) ==
    /\ Exists(w)
    /\ o.rv = Len(hist[w])
    /\ Store(w, [Latest(w) EXCEPT !.spec = o.spec, !.fin = o.fin,
                                  !.by = Len(hist[w]) + 1,
                                  !.gone = Latest(w).del /\ ~o.fin])

Put(p) ==
    LET w == active[p]
        o == mem[w][job[p].at]
    IN  /\ job[p].pc = "put"
        /\ \/ /\ PutAccepted(w, o)
              /\ job' = [job EXCEPT ![p].pc = "decode",
                                    ![p].to = Len(hist[w]) + 1]
              /\ UNCHANGED budget
           \/ \* Conflict or NotFound
              /\ ~Exists(w) \/ o.rv # Len(hist[w])
              /\ job' = [job EXCEPT ![p] = Finish(FALSE)]
              /\ UNCHANGED <<hist, budget>>
           \/ \* the response, or already the request, is lost
              /\ CanFault
              /\ PutAccepted(w, o) \/ UNCHANGED hist
              /\ job' = [job EXCEPT ![p] = Finish(FALSE)]
        /\ UNCHANGED <<joined, cluster, informer, workqueue, reapers, read>>

(* Mutant of Decode: the latest version is read instead of the response. *)
DecodeLatest(p) ==
    LET w == active[p]
    IN  /\ job[p].pc = "decode"
        /\ mem' = [mem EXCEPT ![w][job[p].at] = [Latest(w) EXCEPT !.gone = FALSE]]
        /\ job' = [job EXCEPT ![p] = Finish(TRUE)]
        /\ UNCHANGED <<server, cluster, notif, workqueue, reapers, read, budget>>

(* The response is decoded into the object that was sent, the cache's; a   *)
(* removed Workload stays in the cache until its removal is delivered.     *)
Decode(p) ==
    LET w == active[p]
    IN  /\ job[p].pc = "decode"
        /\ mem' = [mem EXCEPT ![w][job[p].at] =
                      [hist[w][job[p].to] EXCEPT !.gone = FALSE]]
        /\ job' = [job EXCEPT ![p] = Finish(TRUE)]
        /\ UNCHANGED <<server, cluster, notif, workqueue, reapers, read, budget>>

-----------------------------------------------------------------------------
(* syncWork *)

(* Mutant of ClusterClients: every cluster gets the Workload. *)
AllClients(spec) == joined

(* getClusterClient: a client per cluster that has a Cluster object; for   *)
(* one that cannot be reached the client is nil, and is kept.              *)
ClusterClients(spec) == spec.clusters \cap joined
NilClients(spec) == ClusterClients(spec) \cap down

(* The loops over manifests and clusters: the position after cluster c of  *)
(* position x, with m = 0 once both loops are over.  The order of the      *)
(* clusters is that of a Go map, any.  (Mutant of After, AfterFirst: the   *)
(* loops end after the first manifest.)                                    *)
First(clients, spec) ==
    IF clients = {} \/ spec.manifests = <<>>
    THEN [m |-> 0, left |-> {}]
    ELSE [m |-> 1, left |-> clients]

AfterFirst(x, c, spec) ==
    IF x.left # {c} THEN [m |-> x.m, left |-> x.left \ {c}]
    ELSE [m |-> 0, left |-> {}]

After(x, c, spec) ==
    CASE x.left # {c} -> [m |-> x.m, left |-> x.left \ {c}]
      [] x.left = {c} /\ x.m < Len(spec.manifests) ->
             [m |-> x.m + 1, left |-> x.clients]
      [] OTHER -> [m |-> 0, left |-> {}]

(* Mutant of Manifest: the lister's newest object is read in every round. *)
ManifestNow(p) == mem[active[p]][Newest(active[p])].spec.manifests[job[p].m]

(* The manifest worker p is at, decoded from its Raw bytes. *)
Manifest(p) == mem[active[p]][job[p].at].spec.manifests[job[p].m]

(* The worker goes on at position n; a new manifest is decoded anew, the   *)
(* one at hand keeps what responses have put into it.                      *)
GoOn(p, n) ==
    LET ms == mem[active[p]][job[p].at].spec.manifests
    IN  IF n.m = 0
        THEN Finish(TRUE)
        ELSE [job[p] EXCEPT
                !.pc = "get", !.m = n.m, !.left = n.left, !.c = None,
                !.uid = IF n.m = job[p].m THEN @ ELSE ms[n.m].uid,
                !.fresh = FALSE, !.tries = 0]

NextCluster(p) ==
    GoOn(p, After(job[p], job[p].c, mem[active[p]][job[p].at].spec))

SyncClients(p) ==
    LET spec == mem[active[p]][job[p].at].spec
        n == First(ClusterClients(spec), spec)
    IN  /\ job[p].pc = "clients"
        /\ job' = [job EXCEPT ![p] =
              IF n.m = 0 THEN Finish(TRUE)
              ELSE [job[p] EXCEPT
                      !.pc = "get", !.m = n.m, !.left = n.left, !.c = None,
                      !.clients = ClusterClients(spec),
                      !.nils = NilClients(spec),
                      !.uid = spec.manifests[n.m].uid]]
        /\ UNCHANGED <<server, cluster, informer, workqueue, reapers, read,
                       budget>>

(* Get of the object in the next cluster, or once more in the same one     *)
(* after a Conflict.                                                       *)
Target(p, c) ==
    /\ job[p].pc = "get"
    /\ IF job[p].c = None THEN c \in job[p].left ELSE c = job[p].c

SyncGet(p, c) ==
    LET o == Manifest(p).obj
    IN  /\ Target(p, c)
        /\ c \notin job[p].nils
        /\ job' = [job EXCEPT ![p] =
              IF c \in down \/ member[c][o] = Manifest(p).ver
              THEN GoOn(p, After(job[p], c, mem[active[p]][job[p].at].spec))
              ELSE [job[p] EXCEPT
                      !.pc = IF member[c][o] = None THEN "create" ELSE "update",
                      !.c = c, !.fresh = TRUE]]
        /\ UNCHANGED <<server, cluster, informer, workqueue, reapers, read,
                       budget>>

(* Object o of cluster c becomes v, and worker p goes on with job j; the   *)
(* resource version another worker has of the object becomes old.          *)
WriteMember(p, c, o, v, j) ==
    /\ member' = [member EXCEPT ![c][o] = v]
    /\ job' = [q \in Procs |->
                  IF q = p THEN j
                  ELSE IF job[q].pc = "update" /\ job[q].c = c
                          /\ Manifest(q).obj = o
                  THEN [job[q] EXCEPT !.fresh = FALSE]
                  ELSE job[q]]

(* The response of a write is decoded into the manifest at hand: from then *)
(* on it carries the uid of the object in cluster c.                       *)
Written(p, j) ==
    IF j.pc = "get" /\ j.m = job[p].m THEN [j EXCEPT !.uid = TRUE] ELSE j

(* Client.Create; an error is recorded in a status nobody stores. *)
SyncCreate(p) ==
    LET c == job[p].c
        o == Manifest(p).obj
    IN  /\ job[p].pc = "create"
        /\ IF c \in down \/ member[c][o] # None
           THEN /\ job' = [job EXCEPT ![p] = NextCluster(p)]
                /\ UNCHANGED member
           ELSE WriteMember(p, c, o, Manifest(p).ver,
                            Written(p, NextCluster(p)))
        /\ UNCHANGED <<server, down, informer, workqueue, reapers, read, budget>>

(* Mutant of Retries: one attempt more. *)
RetriesOnceMore(p) == job[p].tries < RetrySteps

Retries(p) == job[p].tries + 1 < RetrySteps

(* Client.Update with the resource version Get returned.  A uid that is    *)
(* not the object's and an old resource version are both a Conflict, upon  *)
(* which RetryOnConflict starts over until its attempts are used up.       *)
SyncUpdate(p) ==
    LET c == job[p].c
        o == Manifest(p).obj
        missing == c \in down \/ member[c][o] = None
        conflict == job[p].uid \/ ~job[p].fresh
    IN  /\ job[p].pc = "update"
        /\ CASE ~missing /\ ~conflict ->
                   WriteMember(p, c, o, Manifest(p).ver,
                               Written(p, NextCluster(p)))
             [] ~missing /\ conflict /\ Retries(p) ->
                   /\ job' = [job EXCEPT ![p].pc = "get",
                                         ![p].fresh = FALSE,
                                         ![p].tries = @ + 1]
                   /\ UNCHANGED member
             [] OTHER ->
                   /\ job' = [job EXCEPT ![p] = NextCluster(p)]
                   /\ UNCHANGED member
        /\ UNCHANGED <<server, down, informer, workqueue, reapers, read, budget>>

-----------------------------------------------------------------------------
(* The end of processNextWorkItem *)

(* syncHandler returned an error: AddRateLimited. *)
Fail(p) ==
    /\ job[p].pc = "done"
    /\ ~job[p].ok
    /\ Q!Defer(p)
    /\ job' = [job EXCEPT ![p].ok = TRUE]
    /\ UNCHANGED <<server, cluster, informer, reapers, read, budget>>

(* The deferred Done. *)
Done(p) ==
    /\ job[p].pc = "done"
    /\ job[p].ok
    /\ Q!End(p)
    /\ job' = [job EXCEPT ![p] = NoJob]
    /\ UNCHANGED <<server, cluster, informer, reapers, read, budget>>

Fire(w) ==
    /\ Q!Fire(w)
    /\ UNCHANGED <<server, cluster, informer, job, reapers, read, budget>>

-----------------------------------------------------------------------------
(* The goroutines of deleteExternalResources *)

Replace(r, n, x) ==
    reapers' = (reapers \ {r}) \cup
               (IF n.m = 0 THEN {} ELSE {[x EXCEPT !.m = n.m, !.left = n.left]})

ReaperClients(r) ==
    LET spec == mem[r.w][r.at].spec
        x == [r EXCEPT !.pc = "delete", !.clients = ClusterClients(spec),
                       !.nils = NilClients(spec)]
    IN  /\ r.pc = "start"
        /\ Replace(r, First(x.clients, spec), x)
        /\ UNCHANGED <<server, cluster, informer, workqueue, job, read, budget>>

(* Client.Delete of one manifest in one cluster; an error is only logged. *)
ReaperDelete(r, c) ==
    LET spec == mem[r.w][r.at].spec
        o == spec.manifests[r.m].obj
    IN  /\ r.pc = "delete"
        /\ c \in r.left \ r.nils
        /\ IF c \in down
           THEN UNCHANGED <<member, job>>
           ELSE WriteMember(None, c, o, None, NoJob)
        /\ Replace(r, After(r, c, spec), r)
        /\ UNCHANGED <<server, down, informer, workqueue, read, budget>>

-----------------------------------------------------------------------------
(* Outages and crashes *)

ClusterDown(c) ==
    /\ CanFault
    /\ c \notin down
    /\ down' = down \cup {c}
    /\ UNCHANGED <<server, member, informer, workqueue, job, reapers, read>>

ClusterUp(c) ==
    /\ c \in down
    /\ down' = down \ {c}
    /\ UNCHANGED <<server, member, informer, workqueue, job, reapers, read,
                   budget>>

(* The process dies and is started anew: the informer lists the Workloads  *)
(* and announces each as added; nothing else survives.                     *)
Restart ==
    /\ mem' = hist
    /\ notif' = [w \in Works |->
                    IF Exists(w)
                    THEN <<[kind |-> "add", old |-> 0, new |-> Len(hist[w])]>>
                    ELSE <<>>]
    /\ Q!Restart
    /\ job' = [p \in Procs |-> NoJob]
    /\ reapers' = {}
    /\ read' = [w \in Works |-> 0]
    /\ UNCHANGED <<server, cluster>>

Crash ==
    /\ budget.crashes < MaxCrashes
    /\ budget' = [budget EXCEPT !.crashes = @ + 1]
    /\ Restart

(* A call on a nil client panics, in a worker or in a goroutine of         *)
(* deleteExternalResources; the panic ends the process.                    *)
NilClient ==
    /\ \/ \E p \in Procs, c \in Clusters : Target(p, c) /\ c \in job[p].nils
       \/ \E r \in reapers : r.pc = "delete" /\ r.left \cap r.nils # {}
    /\ Restart
    /\ UNCHANGED budget

-----------------------------------------------------------------------------
User(w) == Create(w) \/ Edit(w) \/ Delete(w)

Informer(w) == Deliver(w) \/ Resync(w) \/ Handle(w)

Sync(p) == SyncNotFound(p) \/ SyncAddFinalizer(p) \/ SyncRemoveFinalizer(p)
           \/ SyncApply(p)

SyncWork(p) == SyncClients(p) \/ SyncCreate(p) \/ SyncUpdate(p)
               \/ \E c \in Clusters : SyncGet(p, c)

Worker(p) == Sync(p) \/ Put(p) \/ Decode(p) \/ SyncWork(p) \/ Fail(p) \/ Done(p)

Reaper(r) == ReaperClients(r) \/ \E c \in Clusters : ReaperDelete(r, c)

Next ==
    \/ \E w \in Works : User(w) \/ Informer(w) \/ Fire(w)
    \/ \E p \in Procs : Worker(p) \/ \E w \in Works : Begin(p, w)
    \/ \E r \in reapers : Reaper(r)
    \/ \E c \in Clusters : Join(c) \/ ClusterDown(c) \/ ClusterUp(c)
    \/ Crash
    \/ NilClient

(* The goroutines run, the watch delivers, a back-off ends, an outage      *)
(* ends.  A key is taken in its turn because the queue is FIFO (Served in  *)
(* WorkQueue), hence strong fairness per key.  Nobody has to write.        *)
Fairness ==
    /\ \A w \in Works :
          /\ WF_vars(Deliver(w)) /\ WF_vars(Handle(w)) /\ WF_vars(Resync(w))
          /\ WF_vars(Fire(w))
          /\ SF_vars(\E p \in Procs : Begin(p, w))
    /\ \A p \in Procs : WF_vars(Worker(p))
    /\ WF_vars(\E r \in reapers : Reaper(r))
    /\ \A c \in Clusters : WF_vars(ClusterUp(c))
    /\ WF_vars(NilClient)

Spec == Init /\ [][Next]_vars

FairSpec == Spec /\ Fairness
=============================================================================
