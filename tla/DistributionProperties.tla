----------------------- MODULE DistributionProperties -----------------------
(***************************************************************************)
(* What is expected of DistributionController's reconciliation: what it    *)
(* keeps at every step, and what it reaches in the end, requests lost and  *)
(* crashes notwithstanding.                                                *)
(***************************************************************************)
EXTENDS DistributionController

(* Every variable holds what the Go types and the API say it holds; one    *)
(* Workload per key, and the cache differs from the API server only where  *)
(* it is stale.                                                            *)
TypeOK ==
    /\ \A r \in RDs : \A n \in 1..Len(hist[r]) :
          hist[r][n].spec \in Specs /\ hist[r][n].rv = n /\ hist[r][n].uid \in 1..n
    /\ \A r \in RDs :
          /\ seen[r] <= Len(hist[r])
          /\ cache[r] # None => seen[r] > 0 /\ cache[r].spec \in Specs
    /\ lab \in Labellings /\ host \in Hosts
    /\ \A ws \in {works, wcache} : \A v, w \in ws : Key(v) = Key(w) => v = w
    /\ \A w \in works \cup wcache :
          Key(w) \in stale \/ w \in works \cap wcache
    /\ Q!SFTypeOK
    /\ \A p \in Procs : job[p].pc = "idle" <=> active[p] = None
    /\ ids \in 0..Len(FreshIds)

-----------------------------------------------------------------------------
(* Names *)

DrawnIds == {FreshIds[i] : i \in 1..Len(FreshIds)}

RuleIds == UNION {{s.rules[k].id : k \in 1..Len(s.rules)} : s \in Specs}

(* No two RDs of a namespace can make Workloads of one name, which is that *)
(* of the RD, a hyphen and an id: what users have to see to, for the code  *)
(* does not.                                                               *)
NamesApart ==
    \A r, s \in RDs : \A i, j \in DrawnIds \cup RuleIds :
        r.ns = s.ns /\ r.name \o i = s.name \o j => r = s

-----------------------------------------------------------------------------
(* In every world *)

(* Workload w says what GenerateWorks makes of version v of its owner, for *)
(* some labels and resources there have been.                              *)
Says(w, v) ==
    \E l \in Labellings, h \in Hosts :
        LET plan == GenerateWorks(Policy(w.owner[1], v), l, Fetched(v.spec.selector, h))
        IN  \E i \in 1..Len(plan) :
                /\ plan[i].clusters = w.clusters
                /\ plan[i].manifests = w.manifests
                /\ i <= Len(v.spec.rules) => plan[i].name = w.name

(* Whatever is lost, retried, stale or restarted: a Workload has the       *)
(* clusters together with the manifests that one version of the RD that    *)
(* owns it gives it, although creation and update are different requests   *)
(* and the update starts from a cached object.                             *)
WorksFromPlans ==
    \A w \in works :
        LET r == w.owner[1]
        IN  \E n \in 1..Len(hist[r]) :
                hist[r][n].uid >= w.owner[2] /\ Says(w, hist[r][n])

(* A step keeps the ids of the RDs that are there. *)
KeepsIds ==
    \A r \in RDs :
        Exists(r) /\ Latest(r).id # <<>> =>
            Latest(r)'.id = Latest(r).id \/ Latest(r)'.uid # Latest(r).uid

(* Once the API server knows the id of an RD it never changes, so that the *)
(* residue keeps its Workload: a worker that reads an old object from the  *)
(* cache, or one it changed itself, or that was restarted, marks no RD     *)
(* twice.                                                                  *)
IdStable == [][KeepsIds]_vars

(* A Workload that a step deletes is of an RD that is being deleted, or    *)
(* has the label of one in another namespace.                              *)
DeletesForRD ==
    \A w \in works :
        ~w.del /\ (\A v \in works' : Key(v) = Key(w) => v.del) =>
            \E r \in RDs : \E n \in 1..Len(hist[r]) :
                /\ r.name = w.policy
                /\ hist[r][n].del
                /\ r = w.owner[1] => hist[r][n].uid = w.owner[2]

(* A Workload is deleted only for the RD that owns it, once that is being  *)
(* deleted itself, or for its namesake in another namespace, which has the *)
(* same label: neither an edit nor a retry nor the deletion of an earlier  *)
(* RD ends it.                                                             *)
DeletedOnlyWithOwner == [][DeletesForRD]_vars

-----------------------------------------------------------------------------
(* In the end *)

Live(r) == Exists(r) /\ ~Latest(r).del /\ Feasible(r, Latest(r))

(* The finalizer was put into the object of the cache, or taken from it,   *)
(* and the request that says so was lost: the sync does not send it again  *)
(* before the object is replaced, by a write or a restart.                 *)
Unsent(r) ==
    /\ budget.faults > 0
    /\ Exists(r)
    /\ seen[r] = Len(hist[r])
    /\ cache[r].fin # Latest(r).fin

(* The first Workload that the RD stands for is there and says what it     *)
(* should.                                                                 *)
FirstReached(r) ==
    LET plan == PlanOf(r, Latest(r))
    IN  plan = <<>> \/ \E w \in works :
            /\ Key(w) = Key(plan[1])
            /\ w.clusters = plan[1].clusters
            /\ w.manifests = plan[1].manifests

(* Whatever users, the labels of clusters and the resources become, and    *)
(* although the cache is stale, a request is lost or the process dies, the *)
(* first Workload of the RD follows, unless the RD changes again; but for  *)
(* the residue of an RD whose id was not stored.  Of the later Workloads   *)
(* this cannot be said: applyWorkloads returns after the first update, and *)
(* with manifests there always is one.                                     *)
FirstReaches ==
    \A r \in RDs :
        Live(r) ~> \/ ~Live(r)
                   \/ FirstReached(r)
                   \/ Latest(r).spec.rules = <<>> /\ Unsent(r)

(* An RD that is deleted goes away, although Workloads may be gone that    *)
(* the cache still lists, requests are lost, the process dies and users    *)
(* write to the RD meanwhile; but for the one whose release was lost,      *)
(* which waits for a write or a restart.                                   *)
DeletionFinishes ==
    \A r \in RDs : (Exists(r) /\ Latest(r).del) ~> (~Exists(r) \/ Unsent(r))

(* The RD w was made for is there. *)
Wanted(w) ==
    \E r \in RDs :
        /\ Exists(r)
        /\ w.ns = r.ns /\ w.policy = r.name
        /\ HasOwner(w) => w.owner = <<r, Latest(r).uid>>

(* No Workload of a removed RD remains for ever, also none that the sync   *)
(* that removed it, or one before it, created again.                       *)
NothingRemains == []<>(\A w \in works : Wanted(w))
=============================================================================
