------------------------- MODULE WorkloadProperties -------------------------
(***************************************************************************)
(* What is expected of WorkloadController: what it keeps in every world,   *)
(* what it reaches in a world without faults, and what its comments        *)
(* promise.                                                                *)
(***************************************************************************)
EXTENDS WorkloadController

(* Every variable holds what the Go types and the API say it holds. *)
TypeOK ==
    /\ hist \in [Works -> Seq(Versions)]
    /\ joined \subseteq Clusters
    /\ member \in [Clusters -> [Objs -> Vers \cup {None}]]
    /\ down \subseteq Clusters
    /\ mem \in [Works -> Seq(Versions)]
    /\ notif \in [Works -> Seq(Notifs)]
    /\ Q!SFTypeOK
    /\ job \in [Procs -> Jobs]
    /\ reapers \subseteq Reapers
    /\ read \in [Works -> Nat]
    /\ budget \in [ops : Nat, faults : Nat, crashes : Nat]

-----------------------------------------------------------------------------
(* In every world *)

(* What a version of a Workload tells a cluster to have. *)
Assigns(v, c, o, x) ==
    /\ c \in v.spec.clusters
    /\ \E i \in 1..Len(v.spec.manifests) :
          v.spec.manifests[i].obj = o /\ v.spec.manifests[i].ver = x

(* The version before n, if the Workload existed, differs in what a user   *)
(* writes; n is therefore not the controller's own write.                  *)
ByUser(w, n) ==
    LET v == hist[w][n]
    IN  ~v.gone /\ (n > 1 => LET u == hist[w][n - 1]
                             IN  u.gone \/ u.spec # v.spec \/ u.del # v.del)

(* No member cluster has content that no version of any Workload ever      *)
(* assigned to it: syncWork never mixes the manifests of one version with  *)
(* the clusters of another, or of another Workload.                        *)
MembersOnlyFromSpecs ==
    \A c \in Clusters, o \in Objs :
        member[c][o] # None =>
            \E w \in Works : \E n \in 1..Len(hist[w]) :
                Assigns(hist[w][n], c, o, member[c][o])

(* The position x is one inside the loops over a spec. *)
InLoops(x, spec) ==
    /\ x.m \in 1..Len(spec.manifests)
    /\ x.left \subseteq x.clients
    /\ x.clients \subseteq spec.clusters

(* What a worker with job j on Workload w needs of the versions ms in      *)
(* memory and hs at the server.                                            *)
JobFits(j, w, ms, hs) ==
    /\ j.pc = "idle" <=> w = None
    /\ j.pc \notin {"idle", "start", "done"} => j.at \in 1..Len(ms)
    /\ j.pc = "decode" => /\ j.to \in 1..Len(hs)
                          /\ hs[j.to].spec = ms[j.at].spec
    /\ j.pc \in {"get", "create", "update"} => InLoops(j, ms[j.at].spec)
    /\ j.pc = "get" => j.c \in j.left \cup {None}
    /\ j.pc \in {"create", "update"} => j.c \in j.left

ReaperFits(r, ms) ==
    /\ r.at \in 1..Len(ms)
    /\ r.pc = "delete" => InLoops(r, ms[r.at].spec)

CopyOf(ms, hs) ==
    /\ Len(ms) <= Len(hs)
    /\ \A n \in 1..Len(ms) : ms[n].spec = hs[n].spec

(* The objects of the cache are changed in place while workers and         *)
(* goroutines of deleteExternalResources loop over their clusters and      *)
(* manifests; still each of them keeps the spec of the version it was      *)
(* delivered as, so that a loop never leaves the version it started with.  *)
WorksFromOneVersion ==
    /\ \A w \in Works : CopyOf(mem[w], hist[w])
    /\ \A p \in Procs :
          JobFits(job[p], active[p], mem[active[p]], hist[active[p]])
    /\ \A r \in reapers : ReaperFits(r, mem[r.w])

(* A change a user made and the informer delivered is not forgotten: until *)
(* syncHandler has read it, a notification that will enqueue it, the       *)
(* queue, or a worker about to read has the key.  (OnUpdate compares with  *)
(* an object that Decode may change between the delivery and the handler.) *)
NoLostEdit ==
    \A w \in Works : \A n \in read[w] + 1 .. Newest(w) :
        ByUser(w, n) /\ (\A i \in n .. Newest(w) : ~hist[w][i].gone) =>
            \/ w \in pending \cup deferred
            \/ \E i \in 1..Len(notif[w]) :
                  notif[w][i].new >= n /\ Enqueues(w, notif[w][i])
            \/ \E p \in Procs : active[p] = w /\ job[p].pc = "start"

(* An object that a step takes from a member cluster was assigned to it by *)
(* a version that was being deleted.                                       *)
DeletesForWorkload ==
    \A c \in Clusters, o \in Objs :
        member[c][o] # None /\ member'[c][o] = None =>
            \E w \in Works : \E n \in 1..Len(hist[w]) :
                /\ hist[w][n].del
                /\ \E x \in Vers : Assigns(hist[w][n], c, o, x)

(* An object leaves a member cluster only if some version of a Workload    *)
(* that was being deleted says the cluster has it: neither an edit nor a   *)
(* retry nor a restart ever deletes one.                                   *)
DeletedOnlyWithWorkload == [][DeletesForWorkload]_vars

(* The contents the versions of all Workloads assign, and the objects that *)
(* a version being deleted assigns.                                        *)
AskedFor ==
    {e \in Clusters \X Objs \X Vers :
        \E w \in Works : \E n \in 1..Len(hist[w]) :
            Assigns(hist[w][n], e[1], e[2], e[3])}

Withdrawn ==
    {e \in Clusters \X Objs :
        \E w \in Works : \E n \in 1..Len(hist[w]) :
            /\ hist[w][n].del
            /\ \E x \in Vers : Assigns(hist[w][n], e[1], e[2], x)}

(* The controller implements Propagation: whatever the informer, the       *)
(* workers, the deletion goroutines and a restart do, a step changes one   *)
(* object of one member cluster at most, to what a version assigns or, of  *)
(* a Workload being deleted, to none; and it never does so in the same     *)
(* step as a write to the host cluster.                                    *)
P == INSTANCE Propagation WITH
        asked <- AskedFor, ending <- Withdrawn, has <- member

ImplementsPropagation == P!PropSpec

-----------------------------------------------------------------------------
(* In a world without faults *)

(* A world in which nothing fails, in which one Workload is written, and   *)
(* each version of it is for one cluster at most.                          *)
Orderly ==
    /\ MaxFaults = 0
    /\ Registered = Clusters
    /\ \A v, w \in Works : v = w
    /\ \A s \in Specs : \A c, d \in s.clusters : c = d

Quiet(w) ==
    /\ Len(mem[w]) = Len(hist[w])
    /\ notif[w] = <<>>
    /\ w \notin pending \cup deferred
    /\ \A p \in Procs : active[p] # w
    /\ \A r \in reapers : r.w # w

(* Manifest i of the list ms has the last word on its object: no later one *)
(* of the object does without the uid of the host's object, with which an  *)
(* update is refused, and neither has it one itself.                       *)
Prevails(ms, i) ==
    /\ ~ms[i].uid
    /\ \A j \in 1..Len(ms) : i < j /\ ms[j].obj = ms[i].obj => ms[j].uid

(* A cluster of v has every object of its manifests, and those that can be *)
(* updated have the content that v says.                                   *)
Matches(v) ==
    LET ms == v.spec.manifests
    IN  \A c \in v.spec.clusters \cap joined : \A i \in 1..Len(ms) :
            /\ member[c][ms[i].obj] # None
            /\ Prevails(ms, i) => member[c][ms[i].obj] = ms[i].ver

(* A Workload whose last change is a user's, made after the controller had *)
(* added its finalizer; and no Workload of that name was removed before.   *)
Edited(w) ==
    /\ Exists(w) /\ Latest(w).fin /\ ~Latest(w).del
    /\ ByUser(w, Len(hist[w]))
    /\ \A n \in 1..Len(hist[w]) : ~hist[w][n].gone

(* When nothing is left to do for such a Workload, the clusters it names   *)
(* have what it says: no sync that read an older version has the last      *)
(* word, whichever notifications were ignored and wherever it restarted.   *)
SettledMatchesSpec ==
    \A w \in Works : Quiet(w) /\ Edited(w) => Matches(Latest(w))

(* Such an edit reaches the clusters, or the next change replaces it. *)
EditReaches ==
    \A w \in Works : Edited(w) ~> (~Edited(w) \/ Matches(Latest(w)))

(* A Workload that is deleted goes away, whatever is written to it         *)
(* meanwhile and whenever the controller restarts.                         *)
DeletionCompletes ==
    \A w \in Works : (Exists(w) /\ Latest(w).del) ~> ~Exists(w)

-----------------------------------------------------------------------------
(* What the comments promise *)

(* "syncHandler compares the actual state with the desired, and attempts   *)
(* to converge the two": a Workload that is created reaches its clusters,  *)
(* unless it is deleted.                                                   *)
CreationReaches ==
    \A w \in Works :
        (Exists(w) /\ ~Latest(w).del) ~>
            (~Exists(w) \/ Latest(w).del \/ Matches(Latest(w)))

=============================================================================
