---------------------------- MODULE Reconcilers ----------------------------
(***************************************************************************)
(* The two controller-runtime reconcilers that DistributionController and  *)
(* WorkloadController replaced: Reconciler (resource_distribution_         *)
(* reconciler.go 54-161) and WorkReconciler (workload_reconciler.go).      *)
(* They are compiled; their set-up in cmd/serve/serve.go is commented out, *)
(* with one worker each.  Both have the same course.  Unlike their         *)
(* successors they change a copy of the object in the manager's cache,     *)
(* delete before they release, and stop at an object that is deleted.      *)
(* applyWorks is not called; what it would apply is LegacyPlan.            *)
(*                                                                         *)
(* A Workload has one manifest, for all clusters; an edit changes it.      *)
(***************************************************************************)
EXTENDS Integers, Sequences

CONSTANTS
    Policies,  \* names of ResourceDistributions
    Works,     \* names of Workloads; all carry the label of each policy
    Clusters,  \* member clusters
    None,      \* no key, no object
    MaxOps,    \* bound: writes of users
    MaxFaults  \* bound: requests that fail, crashes, writes in the clusters

ASSUME ReconcilerConstants ==
    /\ None \notin Policies \cup Works
    /\ None \notin [n : Nat, rv : Nat]
    /\ Policies \cap Works = {}
    /\ MaxOps \in Nat /\ MaxFaults \in Nat

Keys == Policies \cup Works
Procs == {"policy", "work"}
KeysOf(p) == IF p = "policy" THEN Policies ELSE Works

VARIABLES
    hist,     \* the versions of each object at the API server
    seen,     \* how many of them the manager's cache has had
    pending,  \* the queues of the two controllers, see SingleFlight
    deferred,
    active,
    job,      \* what the reconcilers are doing
    member,   \* the objects in the clusters
    watched,  \* the policies whose informer has a handler
    failed,   \* history: objects whose last request failed or was dropped
    kept,     \* history: objects whose last deletion failed
    budget

workqueue == <<pending, deferred, active>>
history == <<failed, kept>>
vars == <<hist, seen, workqueue, job, member, watched, history, budget>>

Q == INSTANCE SingleFlight WITH Workers <- Procs, Idle <- None

(* A version: the finalizer, the deletion timestamp, whether it is the     *)
(* removal, whether there are annotations, the content.                    *)
Version(n, notes) ==
    [fin |-> FALSE, del |-> FALSE, gone |-> FALSE, notes |-> notes, n |-> n]

Latest(k) == hist[k][Len(hist[k])]
Exists(k) == hist[k] # <<>> /\ ~Latest(k).gone

NoJob == [pc |-> "idle", at |-> 0, todo |-> {}, got |-> None, ok |-> TRUE]
Finish(ok) == [NoJob EXCEPT !.pc = "done", !.ok = ok]

Init ==
    /\ hist = [k \in Keys |-> <<>>]
    /\ seen = [k \in Keys |-> 0]
    /\ Q!SFInit
    /\ job = [p \in Procs |-> NoJob]
    /\ member = [c \in Clusters |-> [k \in Works |-> None]]
    /\ watched = {}
    /\ failed = {} /\ kept = {}
    /\ budget = [ops |-> 0, faults |-> 0]

CanOp ==
    /\ budget.ops < MaxOps
    /\ budget' = [budget EXCEPT !.ops = @ + 1]

CanFault ==
    /\ budget.faults < MaxFaults
    /\ budget' = [budget EXCEPT !.faults = @ + 1]

-----------------------------------------------------------------------------
(* The API server, the clusters and the cache *)

Store(k, v) == hist' = [hist EXCEPT ![k] = Append(@, v)]

User(k) ==
    /\ CanOp
    /\ \/ /\ ~Exists(k)
          /\ \E notes \in BOOLEAN : Store(k, Version(Len(hist[k]) + 1, notes))
       \/ /\ Exists(k)
          /\ Store(k, [Latest(k) EXCEPT !.n = Len(hist[k]) + 1])
       \/ /\ Exists(k) /\ ~Latest(k).del
          /\ Store(k, [Latest(k) EXCEPT !.del = TRUE, !.gone = ~Latest(k).fin])
    /\ UNCHANGED <<seen, workqueue, job, member, watched, history>>

(* A controller of the cluster writes the status of the object. *)
Touch(c, k) ==
    /\ CanFault
    /\ member[c][k] # None
    /\ member' = [member EXCEPT ![c][k].rv = @ + 1]
    /\ UNCHANGED <<hist, seen, workqueue, job, watched, history>>

Deliver(k) ==
    /\ seen[k] < Len(hist[k])
    /\ seen' = [seen EXCEPT ![k] = @ + 1]
    /\ Q!Request(k)
    /\ UNCHANGED <<hist, job, member, watched, history, budget>>

-----------------------------------------------------------------------------
(* Reconcile *)

Become(p, j) == job' = [job EXCEPT ![p] = j]

Begin(p, k) ==
    /\ k \in KeysOf(p)
    /\ Q!Begin(p, k)
    /\ Become(p, [NoJob EXCEPT !.pc = "start"])
    /\ UNCHANGED <<hist, seen, member, watched, history, budget>>

(* What deleteExternalResources will delete: the Workloads in the cache, or *)
(* the objects in the clusters.                                            *)
External(p) ==
    IF p = "work" THEN Clusters
    ELSE {w \in Works : seen[w] > 0 /\ ~hist[w][seen[w]].gone}

(* Get, and where it leads. *)
Get(p) ==
    LET k == active[p]
        v == hist[k][seen[k]]
        here == [NoJob EXCEPT !.at = seen[k]]
    IN  /\ job[p].pc = "start"
        /\ Become(p,
             IF v.gone \/ (v.del /\ ~v.fin) THEN Finish(TRUE)
             ELSE IF v.del THEN [here EXCEPT !.pc = "delete", !.todo = External(p)]
             ELSE IF ~v.fin THEN [here EXCEPT !.pc = "mark"]
             ELSE [here EXCEPT !.pc = "apply", !.todo = Clusters])
        /\ UNCHANGED <<hist, seen, workqueue, member, watched, history, budget>>

(* Update of the copy: it succeeds if it is current. *)
Update(p, v, next) ==
    LET k == active[p]
        current == job[p].at = Len(hist[k])
    IN  \/ current /\ Store(k, v) /\ Become(p, next) /\ UNCHANGED budget
        \/ ~current /\ Become(p, Finish(FALSE)) /\ UNCHANGED <<hist, budget>>
        \/ /\ CanFault
           /\ \/ current /\ Store(k, v)
              \/ UNCHANGED hist
           /\ Become(p, Finish(FALSE))

Copy(p) == hist[active[p]][job[p].at]

Marked(at) == [NoJob EXCEPT !.pc = "apply", !.at = at, !.todo = Clusters]

(* The finalizer is added; updateExternalResources of Reconciler writes    *)
(* annotations, WorkReconciler does not.                                   *)
Mark(p) ==
    /\ job[p].pc = "mark"
    /\ p = "work" \/ Copy(p).notes
    /\ Update(p, [Copy(p) EXCEPT !.fin = TRUE], Marked(job[p].at + 1))
    /\ UNCHANGED <<seen, workqueue, member, watched, history>>

(* Without annotations the map is nil: the process ends, and starts again. *)
Restarted ==
    /\ seen' = [k \in Keys |-> Len(hist[k])]
    /\ pending' = {k \in Keys : Exists(k)}
    /\ deferred' = {}
    /\ active' = [p \in Procs |-> None]
    /\ job' = [p \in Procs |-> NoJob]
    /\ watched' = {}
    /\ UNCHANGED <<hist, member, history>>

Panic ==
    /\ job["policy"].pc = "mark" /\ ~Copy("policy").notes
    /\ Restarted
    /\ UNCHANGED budget

Crash == CanFault /\ Restarted

(* Reconciler deletes a Workload it has listed; an error, also that it is  *)
(* gone, ends the attempt.                                                 *)
DeleteWork(w) ==
    /\ job["policy"].pc = "delete"
    /\ w \in job["policy"].todo
    /\ \/ /\ Exists(w)
          /\ IF Latest(w).del THEN UNCHANGED hist
             ELSE Store(w, [Latest(w) EXCEPT !.del = TRUE, !.gone = ~Latest(w).fin])
          /\ job' = [job EXCEPT !["policy"].todo = @ \ {w}]
          /\ UNCHANGED budget
       \/ /\ ~Exists(w)
          /\ Become("policy", Finish(FALSE)) /\ UNCHANGED <<hist, budget>>
       \/ /\ CanFault
          /\ Become("policy", Finish(FALSE)) /\ UNCHANGED hist
    /\ UNCHANGED <<seen, workqueue, member, watched, history>>

(* WorkReconciler deletes the object in a cluster; errors are logged. *)
DeleteObject(c) ==
    LET k == active["work"]
    IN  /\ job["work"].pc = "delete"
        /\ c \in job["work"].todo
        /\ job' = [job EXCEPT !["work"].todo = @ \ {c}]
        /\ \/ /\ member' = [member EXCEPT ![c][k] = None]
              /\ kept' = kept \ {<<c, k>>}
              /\ UNCHANGED budget
           \/ /\ CanFault
              /\ kept' = kept \cup {<<c, k>>}
              /\ UNCHANGED member
        /\ UNCHANGED <<hist, seen, workqueue, watched, failed>>

(* Mutant of Released: as in WorkloadController, the deleted object is     *)
(* applied.                                                                *)
ReleasedFallsThrough(at) == [NoJob EXCEPT !.pc = "apply", !.at = at, !.todo = Clusters]

Released(at) == Finish(TRUE)

(* The finalizer is removed, with it the object. *)
Release(p) ==
    /\ job[p].pc = "delete" /\ job[p].todo = {}
    /\ Update(p, [Copy(p) EXCEPT !.fin = FALSE, !.gone = TRUE],
              Released(job[p].at + 1))
    /\ UNCHANGED <<seen, workqueue, member, watched, history>>

(* watchObject, a goroutine nobody waits for: one more handler, the set    *)
(* forgets how many.  The error of GetInformerForKind is logged.           *)
Watch ==
    /\ job["policy"].pc = "apply"
    /\ Become("policy", Finish(TRUE))
    /\ \/ watched' = watched \cup {active["policy"]} /\ UNCHANGED budget
       \/ CanFault /\ UNCHANGED watched
    /\ UNCHANGED <<hist, seen, workqueue, member, history>>

-----------------------------------------------------------------------------
(* syncWork of WorkReconciler, and the end *)

(* getClusterClient, which may find that a Cluster is not there.  (If no   *)
(* client can be made of it, it is nil: the first use of it is a Crash.)   *)
LeaveOut(c) ==
    LET at == <<c, active["work"]>>
    IN  /\ CanFault
        /\ c \in job["work"].todo
        /\ job' = [job EXCEPT !["work"].todo = @ \ {c}]
        /\ \/ job["work"].pc = "delete" /\ kept' = kept \cup {at} /\ UNCHANGED failed
           \/ job["work"].pc = "apply" /\ failed' = failed \cup {at} /\ UNCHANGED kept
        /\ UNCHANGED <<hist, seen, workqueue, member, watched>>

(* Mutant of Turn: the loop ends with the first cluster. *)
TurnLast(c) == [job["work"] EXCEPT !.pc = "apply", !.todo = {}, !.got = None]

Turn(c) == [job["work"] EXCEPT !.pc = "apply", !.todo = @ \ {c}, !.got = None]

(* Get of the object in the next cluster, then the request that follows. *)
GetObject(c) ==
    LET k == active["work"]
        o == member[c][k]
        same == o # None /\ o.n = hist[k][job["work"].at].n
    IN  /\ job["work"].pc = "apply"
        /\ c \in job["work"].todo
        /\ \/ /\ Become("work",
                   IF same THEN Turn(c)
                   ELSE [job["work"] EXCEPT !.pc = "write", !.got = [c |-> c, o |-> o]])
              /\ failed' = IF same THEN failed \ {<<c, k>>} ELSE failed
              /\ UNCHANGED budget
           \/ /\ CanFault
              /\ Become("work", Turn(c))
              /\ failed' = failed \cup {<<c, k>>}
        /\ UNCHANGED <<hist, seen, workqueue, member, watched, kept>>

(* The cluster takes a Create of what is not there, an Update of what is   *)
(* as it was got.                                                          *)
Accepted(o, got) == o = got

(* Create or Update.  After a conflict RetryOnConflict compares the object *)
(* that was just overwritten, finds it as it should be and succeeds: the   *)
(* update is dropped.  Other errors are logged.                            *)
WriteObject ==
    LET k == active["work"]
        c == job["work"].got.c
        o == member[c][k]
        sent == [n |-> hist[k][job["work"].at].n, rv |-> IF o = None THEN 1 ELSE o.rv + 1]
        accepted == Accepted(o, job["work"].got.o)
    IN  /\ job["work"].pc = "write"
        /\ Become("work", Turn(c))
        /\ \/ /\ accepted
              /\ member' = [member EXCEPT ![c][k] = sent]
              /\ failed' = failed \ {<<c, k>>}
              /\ UNCHANGED budget
           \/ /\ ~accepted
              /\ failed' = failed \cup {<<c, k>>}
              /\ UNCHANGED <<member, budget>>
           \/ /\ CanFault
              /\ failed' = failed \cup {<<c, k>>}
              /\ \/ accepted /\ member' = [member EXCEPT ![c][k] = sent]
                 \/ UNCHANGED member
        /\ UNCHANGED <<hist, seen, workqueue, watched, kept>>

Synced ==
    /\ job["work"].pc = "apply" /\ job["work"].todo = {}
    /\ Become("work", Finish(TRUE))
    /\ UNCHANGED <<hist, seen, workqueue, member, watched, history, budget>>

(* Mutants of Fail: the key is given back at once; it is forgotten. *)
FailAndEnd(p) ==
    /\ job[p].pc = "done" /\ ~job[p].ok
    /\ deferred' = deferred \cup {active[p]}
    /\ active' = [active EXCEPT ![p] = None]
    /\ Become(p, Finish(TRUE))
    /\ UNCHANGED <<hist, seen, pending, member, watched, history, budget>>

FailForgotten(p) ==
    /\ job[p].pc = "done" /\ ~job[p].ok
    /\ Become(p, Finish(TRUE))
    /\ UNCHANGED <<hist, seen, workqueue, member, watched, history, budget>>

(* An error is requeued after a back-off. *)
Fail(p) ==
    /\ job[p].pc = "done" /\ ~job[p].ok
    /\ Q!Defer(p)
    /\ Become(p, Finish(TRUE))
    /\ UNCHANGED <<hist, seen, member, watched, history, budget>>

Done(p) ==
    /\ job[p].pc = "done" /\ job[p].ok
    /\ Q!End(p)
    /\ Become(p, NoJob)
    /\ UNCHANGED <<hist, seen, member, watched, history, budget>>

Fire(k) ==
    /\ Q!Fire(k)
    /\ UNCHANGED <<hist, seen, job, member, watched, history, budget>>

-----------------------------------------------------------------------------
Reconcile(p) == Get(p) \/ Mark(p) \/ Release(p) \/ Fail(p) \/ Done(p)

SyncWork == WriteObject \/ Synced \/ \E c \in Clusters : GetObject(c)

Delete ==
    \/ \E w \in Works : DeleteWork(w)
    \/ \E c \in Clusters : DeleteObject(c)

Next ==
    \/ \E k \in Keys : User(k) \/ Deliver(k) \/ Fire(k) \/ \E p \in Procs : Begin(p, k)
    \/ \E c \in Clusters, k \in Works : Touch(c, k)
    \/ \E p \in Procs : Reconcile(p)
    \/ \E c \in Clusters : LeaveOut(c)
    \/ Delete \/ SyncWork \/ Watch
    \/ Panic \/ Crash

(* The cache catches up, the workers go on, a key that is taken and given  *)
(* back again and again is taken in the end.                               *)
Fairness ==
    /\ \A k \in Keys :
          /\ WF_vars(Deliver(k)) /\ WF_vars(Fire(k))
          /\ SF_vars(\E p \in Procs : Begin(p, k))
    /\ \A p \in Procs : WF_vars(Reconcile(p))
    /\ WF_vars(\E w \in Works : DeleteWork(w))
    /\ WF_vars(\E c \in Clusters : DeleteObject(c))
    /\ WF_vars(SyncWork) /\ WF_vars(Watch)

Spec == Init /\ [][Next]_vars

FairSpec == Spec /\ Fairness

-----------------------------------------------------------------------------
(* Properties *)

(* Every variable holds one of its values: the versions seen are some that *)
(* there are, a worker has a key of its controller, a reconciler works on  *)
(* a version of it that it has seen or written.                            *)
TypeOK ==
    /\ \A k \in Keys : seen[k] \in 0..Len(hist[k])
    /\ Q!SFTypeOK
    /\ \A p \in Procs :
          /\ active[p] \in KeysOf(p) \cup {None}
          /\ job[p].pc = "idle" <=> active[p] = None
          /\ job[p].pc \in {"mark", "delete", "apply", "write"} =>
                job[p].at \in 1..Len(hist[active[p]])
    /\ \A c \in Clusters, k \in Works :
          member[c][k] # None => member[c][k].n \in 1..Len(hist[k])
    /\ watched \subseteq Policies
    /\ failed \cup kept \subseteq Clusters \X Works

(* A Workload is gone only after its objects are, but for those whose      *)
(* deletion failed: whatever the cache lags, whichever requests of the     *)
(* reconciler itself are lost, and wherever the process ends.  (Of the     *)
(* successor this does not hold.)                                          *)
ObjectsGoFirst ==
    \A k \in Works :
        ~Exists(k) => \A c \in Clusters : member[c][k] # None => <<c, k>> \in kept

Quiet(k) ==
    /\ seen[k] = Len(hist[k])
    /\ k \notin pending \cup deferred
    /\ \A p \in Procs : active[p] # k

(* When all is quiet each cluster has what the last edit says, but where   *)
(* the last request failed or RetryOnConflict dropped it.                  *)
QuietMeansApplied ==
    \A k \in Works :
        Exists(k) /\ ~Latest(k).del /\ Quiet(k) =>
            \A c \in Clusters :
                \/ member[c][k] # None /\ member[c][k].n = Latest(k).n
                \/ <<c, k>> \in failed

Bare(k) == k \in Policies /\ Exists(k) /\ ~Latest(k).notes /\ ~Latest(k).del

(* A deletion completes, also that of a ResourceDistribution whose         *)
(* Workloads are gone while the cache still lists them, unless one without *)
(* annotations makes the process panic again and again.                    *)
DeletionFinishes ==
    \A k \in Keys :
        (Exists(k) /\ Latest(k).del) ~> (~Exists(k) \/ \E b \in Policies : Bare(b))
=============================================================================
