---------------------- MODULE WorkloadController_proofs ----------------------
(***************************************************************************)
(* Theorems about WorkloadController, for any Workloads, clusters, specs,  *)
(* number of workers and bounds: its types and loops, by the inductive     *)
(* invariant Inv; then what it writes to the member clusters and which     *)
(* edits it serves, which follow from Inv, from what the objects in memory *)
(* keep while they are changed in place (OInv), from where a delivered     *)
(* edit waits until syncHandler reads it (EInv), and from how far a worker *)
(* has come with the version read last (SInv).                             *)
(***************************************************************************)
EXTENDS WorkloadProperties, SequenceTheorems, TLAPS

(* Sequences of versions that only grow, and keep the specs. *)
Keeps(s, t) ==
    /\ Len(s) <= Len(t)
    /\ \A n \in 1..Len(s) : t[n].spec = s[n].spec

LEMMA KeepsSelf == ASSUME NEW s \in Seq(Versions) PROVE Keeps(s, s)
BY LenProperties DEF Keeps

LEMMA AppendKeeps ==
    ASSUME NEW s \in Seq(Versions), NEW v \in Versions
    PROVE  /\ Append(s, v) \in Seq(Versions)
           /\ Len(Append(s, v)) = Len(s) + 1
           /\ Append(s, v)[Len(s) + 1] = v
           /\ \A n \in 1..Len(s) : Append(s, v)[n] = s[n]
           /\ Keeps(s, Append(s, v))
<1>1. /\ Append(s, v) \in Seq(Versions)
      /\ Len(Append(s, v)) = Len(s) + 1
      /\ \A n \in 1..Len(s) : Append(s, v)[n] = s[n]
      /\ Append(s, v)[Len(s) + 1] = v
      /\ Len(s) \in Nat
  BY AppendProperties, LenProperties
<1>2. QED
  BY <1>1 DEF Keeps

LEMMA ChangeKeeps ==
    ASSUME NEW s \in Seq(Versions), NEW n \in 1..Len(s),
           NEW v \in Versions, v.spec = s[n].spec
    PROVE  /\ [s EXCEPT ![n] = v] \in Seq(Versions)
           /\ Len([s EXCEPT ![n] = v]) = Len(s)
           /\ Keeps(s, [s EXCEPT ![n] = v])
<1> DEFINE t == [s EXCEPT ![n] = v]
<1>1. /\ t \in Seq(Versions) /\ Len(t) = Len(s) /\ Len(s) \in Nat
      /\ \A i \in 1..Len(s) : t[i] = IF i = n THEN v ELSE s[i]
  BY ExceptSeq, LenProperties
<1> HIDE DEF t
<1>2. Keeps(s, t)
  BY <1>1 DEF Keeps
<1>3. QED
  BY <1>1, <1>2 DEF t

LEMMA CopyStays ==
    ASSUME NEW s \in Seq(Versions), NEW hs \in Seq(Versions),
           NEW t \in Seq(Versions), NEW ht \in Seq(Versions),
           CopyOf(s, hs), Keeps(s, t), Len(t) = Len(s), Keeps(hs, ht)
    PROVE  CopyOf(t, ht)
<1>1. Len(s) \in Nat /\ Len(hs) \in Nat /\ Len(ht) \in Nat
  BY LenProperties
<1>2. QED
  BY <1>1 DEF CopyOf, Keeps

(* A job stays sensible while what it refers to only grows. *)
LEMMA JobStays ==
    ASSUME NEW s \in Seq(Versions), NEW hs \in Seq(Versions),
           NEW t \in Seq(Versions), NEW ht \in Seq(Versions),
           NEW j, NEW w,
           Keeps(s, t), Keeps(hs, ht), JobFits(j, w, s, hs)
    PROVE  JobFits(j, w, t, ht)
<1>1. /\ Len(s) \in Nat /\ Len(hs) \in Nat /\ Len(t) \in Nat
      /\ Len(ht) \in Nat
  BY LenProperties
<1>2. \A i \in 1..Len(s) : i \in 1..Len(t) /\ t[i].spec = s[i].spec
  BY <1>1 DEF Keeps
<1>3. \A i \in 1..Len(hs) : i \in 1..Len(ht) /\ ht[i].spec = hs[i].spec
  BY <1>1 DEF Keeps
<1>4. QED
  BY <1>2, <1>3 DEF JobFits, InLoops

LEMMA IdleFits ==
    ASSUME NEW j, NEW w, NEW s, NEW hs, NEW t, NEW ht,
           j.pc \in {"idle", "start", "done"}, JobFits(j, w, s, hs)
    PROVE  JobFits(j, w, t, ht)
BY DEF JobFits

LEMMA ReaperStays ==
    ASSUME NEW s \in Seq(Versions), NEW t \in Seq(Versions), NEW r,
           Keeps(s, t), ReaperFits(r, s)
    PROVE  ReaperFits(r, t)
<1>1. Len(s) \in Nat /\ Len(t) \in Nat
  BY LenProperties
<1>2. \A i \in 1..Len(s) : i \in 1..Len(t) /\ t[i].spec = s[i].spec
  BY <1>1 DEF Keeps
<1>3. QED
  BY <1>2 DEF ReaperFits

(* The positions of the loops. *)
LEMMA FirstOK ==
    ASSUME NEW spec \in WorkSpecs, NEW cs \in SUBSET Clusters
    PROVE  LET n == First(cs, spec)
           IN  /\ n.m \in Nat /\ n.left \in SUBSET Clusters
               /\ n.m # 0 => /\ n.m \in 1..Len(spec.manifests)
                             /\ n.left \subseteq cs
<1>1. spec.manifests \in Seq(Manifests)
  BY DEF WorkSpecs
<1>2. CASE cs = {} \/ spec.manifests = <<>>
  BY <1>2 DEF First
<1>3. CASE ~(cs = {} \/ spec.manifests = <<>>)
  <2>1. Len(spec.manifests) \in Nat \ {0}
    BY <1>1, <1>3, EmptySeq
  <2>2. First(cs, spec) = [m |-> 1, left |-> cs]
    BY <1>3 DEF First
  <2>3. QED
    BY <2>1, <2>2
<1>4. QED
  BY <1>2, <1>3

LEMMA AfterOK ==
    ASSUME NEW spec \in WorkSpecs, NEW x, NEW c,
           x.left \in SUBSET Clusters, x.clients \in SUBSET Clusters,
           InLoops(x, spec)
    PROVE  LET n == After(x, c, spec)
           IN  /\ n.m \in Nat /\ n.left \in SUBSET Clusters
               /\ n.m # 0 => /\ n.m \in 1..Len(spec.manifests)
                             /\ n.left \subseteq x.clients
<1>1. spec.manifests \in Seq(Manifests) /\ Len(spec.manifests) \in Nat
  BY LenProperties DEF WorkSpecs
<1>2. x.m \in 1..Len(spec.manifests) /\ x.left \subseteq x.clients
  BY DEF InLoops
<1>3. CASE x.left # {c}
  BY <1>1, <1>2, <1>3 DEF After
<1>4. CASE x.left = {c} /\ x.m < Len(spec.manifests)
  <2>1. After(x, c, spec) = [m |-> x.m + 1, left |-> x.clients]
    BY <1>4 DEF After
  <2>2. QED
    BY <1>1, <1>2, <1>4, <2>1
<1>5. CASE x.left = {c} /\ ~(x.m < Len(spec.manifests))
  BY <1>1, <1>5 DEF After
<1>6. QED
  BY <1>3, <1>4, <1>5

-----------------------------------------------------------------------------
(* The invariant, and how a step keeps the parts it does not disturb *)

Inv == TypeOK /\ WorksFromOneVersion

Fits(p) == JobFits(job[p], active[p], mem[active[p]], hist[active[p]])

KeepsAll ==
    \A w \in Works : Keeps(mem[w], mem'[w]) /\ Keeps(hist[w], hist'[w])

SameJob(p) ==
    /\ active'[p] = active[p]
    /\ job'[p] = job[p] \/ job'[p] = [job[p] EXCEPT !.fresh = FALSE]

LEMMA VersionOK ==
    ASSUME TypeOK, NEW w \in Works, NEW n \in 1..Len(mem[w])
    PROVE  /\ mem[w][n] \in Versions
           /\ mem[w][n].spec \in WorkSpecs
           /\ mem[w][n].spec.clusters \in SUBSET Clusters
           /\ mem[w][n].spec.manifests \in Seq(Manifests)
<1>1. mem[w] \in Seq(Versions)
  BY DEF TypeOK
<1>2. mem[w][n] \in Versions
  BY <1>1, ElementOfSeq
<1>3. mem[w][n].spec \in WorkSpecs
  BY <1>2, ConstantsOK DEF ConstantsOK, Versions
<1>4. QED
  BY <1>2, <1>3 DEF WorkSpecs

LEMMA ActiveOK ==
    ASSUME Inv, NEW p \in Procs
    PROVE  /\ job[p] \in Jobs
           /\ job[p].pc # "idle" => active[p] \in Works
           /\ Fits(p)
<1>1. Fits(p)
  BY DEF Inv, WorksFromOneVersion, Fits
<1>2. active[p] \in Works \cup {None} /\ job[p] \in Jobs
  BY DEF Inv, TypeOK, Q!SFTypeOK
<1>3. QED
  BY <1>1, <1>2 DEF Fits, JobFits

LEMMA NoneElsewhere ==
    /\ None \notin Works /\ None \notin Clusters
    /\ None \notin Vers /\ None \notin Procs
BY ConstantsOK DEF ConstantsOK

LEMMA SameJobFits ==
    ASSUME Inv, TypeOK', KeepsAll, NEW q \in Procs, SameJob(q)
    PROVE  Fits(q)'
<1> DEFINE w == active[q]
<1>1. job[q] \in Jobs /\ Fits(q) /\ (job[q].pc # "idle" => w \in Works)
  BY ActiveOK
<1>2. /\ job'[q].pc = job[q].pc /\ job'[q].at = job[q].at
      /\ job'[q].to = job[q].to /\ job'[q].m = job[q].m
      /\ job'[q].left = job[q].left /\ job'[q].clients = job[q].clients
      /\ job'[q].c = job[q].c /\ active'[q] = w
  BY <1>1 DEF SameJob, Jobs
<1>3. JobFits(job'[q], w, mem[w], hist[w])
  BY <1>1, <1>2 DEF Fits, JobFits, InLoops
<1>4. CASE job[q].pc = "idle"
  <2>1. JobFits(job'[q], w, mem'[w], hist'[w])
    BY <1>2, <1>3, <1>4, IdleFits
  <2>2. QED
    BY <1>2, <2>1 DEF Fits
<1>5. CASE job[q].pc # "idle"
  <2>1. /\ mem[w] \in Seq(Versions) /\ hist[w] \in Seq(Versions)
        /\ mem'[w] \in Seq(Versions) /\ hist'[w] \in Seq(Versions)
        /\ Keeps(mem[w], mem'[w]) /\ Keeps(hist[w], hist'[w])
    BY <1>1, <1>5 DEF Inv, TypeOK, KeepsAll
  <2>2. JobFits(job'[q], w, mem'[w], hist'[w])
    BY <1>3, <2>1, JobStays
  <2>3. QED
    BY <1>2, <2>2 DEF Fits
<1>6. QED
  BY <1>4, <1>5

(* What has to be shown of a step. *)
LEMMA StepOK ==
    ASSUME Inv, TypeOK', KeepsAll,
           \A w \in Works : CopyOf(mem'[w], hist'[w]),
           \A q \in Procs : SameJob(q) \/ Fits(q)',
           \A r \in reapers' : r \in reapers \/ ReaperFits(r, mem'[r.w])
    PROVE  Inv'
<1>1. \A q \in Procs : Fits(q)'
  BY SameJobFits
<1>2. ASSUME NEW r \in reapers' PROVE ReaperFits(r, mem'[r.w])
  <2>1. CASE r \in reapers
    <3>1. r.w \in Works /\ ReaperFits(r, mem[r.w])
      BY <2>1 DEF Inv, TypeOK, Reapers, WorksFromOneVersion
    <3>2. /\ mem[r.w] \in Seq(Versions) /\ mem'[r.w] \in Seq(Versions)
          /\ Keeps(mem[r.w], mem'[r.w])
      BY <3>1 DEF Inv, TypeOK, KeepsAll
    <3>3. QED
      BY <3>1, <3>2, ReaperStays
  <2>2. QED
    BY <2>1
<1>3. QED
  BY <1>1, <1>2 DEF Inv, WorksFromOneVersion, Fits

LEMMA VersionsKept ==
    ASSUME Inv, UNCHANGED <<hist, mem>>
    PROVE  KeepsAll /\ \A w \in Works : CopyOf(mem'[w], hist'[w])
<1>1. \A w \in Works : mem[w] \in Seq(Versions) /\ hist[w] \in Seq(Versions)
  BY DEF Inv, TypeOK
<1>2. KeepsAll
  BY <1>1, KeepsSelf DEF KeepsAll
<1>3. QED
  BY <1>2 DEF Inv, WorksFromOneVersion

(* A step that moves only workers, not what they refer to. *)
LEMMA JobsStep ==
    ASSUME Inv, TypeOK', UNCHANGED <<hist, mem>>,
           \A q \in Procs : SameJob(q) \/ Fits(q)',
           \A r \in reapers' : r \in reapers \/ ReaperFits(r, mem[r.w])
    PROVE  Inv'
BY VersionsKept, StepOK

(* Worker p gets job j and nothing else of this module's invariant moves. *)
LEMMA WorkerStep ==
    ASSUME Inv, TypeOK', UNCHANGED <<hist, mem, active, reapers>>,
           NEW p \in Procs, NEW j,
           job' = [job EXCEPT ![p] = j],
           JobFits(j, active[p], mem[active[p]], hist[active[p]])
    PROVE  Inv'
<1>1. \A q \in Procs \ {p} : SameJob(q)
  BY DEF SameJob, Inv, TypeOK
<1>2. Fits(p)'
  <2>1. job'[p] = j
    BY DEF Inv, TypeOK
  <2>2. QED
    BY <2>1 DEF Fits
<1>3. QED
  BY <1>1, <1>2, JobsStep

LEMMA JobType ==
    ASSUME TypeOK, NEW p \in Procs, NEW j \in Jobs,
           job' = [job EXCEPT ![p] = j]
    PROVE  job' \in [Procs -> Jobs]
BY DEF TypeOK

LEMMA RetryOK == RetrySteps \in Nat \ {0} /\ 0 \in 0..RetrySteps - 1
BY ConstantsOK DEF ConstantsOK

LEMMA FinishOK ==
    ASSUME NEW ok \in BOOLEAN
    PROVE  /\ Finish(ok) \in Jobs /\ NoJob \in Jobs
           /\ Finish(ok).pc = "done" /\ Finish(ok).ok = ok
           /\ NoJob.pc = "idle"
BY RetryOK DEF Finish, NoJob, Jobs

LEMMA FinishFits ==
    ASSUME NEW ok \in BOOLEAN, NEW w \in Works, NEW ms, NEW hs
    PROVE  JobFits(Finish(ok), w, ms, hs)
BY FinishOK, NoneElsewhere DEF JobFits

(* An Update or Create at the API server. *)
LEMMA StoreOK ==
    ASSUME TypeOK, NEW w \in Works, NEW v \in Versions, Store(w, v)
    PROVE  /\ hist' \in [Works -> Seq(Versions)]
           /\ \A x \in Works : Keeps(hist[x], hist'[x])
           /\ Len(hist'[w]) = Len(hist[w]) + 1
           /\ hist'[w][Len(hist[w]) + 1].spec = v.spec
<1> DEFINE u == [v EXCEPT !.rv = Len(hist[w]) + 1]
<1>1. hist[w] \in Seq(Versions) /\ Len(hist[w]) \in Nat
  BY LenProperties DEF TypeOK
<1>2. u \in Versions /\ u.spec = v.spec
  BY <1>1 DEF Versions
<1>3. hist' = [hist EXCEPT ![w] = Append(hist[w], u)]
  BY DEF Store
<1> HIDE DEF u
<1>4. /\ Append(hist[w], u) \in Seq(Versions)
      /\ Len(Append(hist[w], u)) = Len(hist[w]) + 1
      /\ Append(hist[w], u)[Len(hist[w]) + 1] = u
      /\ Keeps(hist[w], Append(hist[w], u))
  BY <1>1, <1>2, AppendKeeps
<1>5. hist'[w] = Append(hist[w], u)
      /\ \A x \in Works \ {w} : hist'[x] = hist[x] /\ hist[x] \in Seq(Versions)
  BY <1>3 DEF TypeOK
<1>6. \A x \in Works : Keeps(hist[x], hist'[x])
  BY <1>4, <1>5, KeepsSelf
<1>7. QED
  BY <1>2, <1>3, <1>4, <1>5, <1>6 DEF TypeOK

(* The server's versions grow and the copies in memory stay. *)
LEMMA ServerStep ==
    ASSUME Inv, TypeOK', UNCHANGED mem,
           \A w \in Works : Keeps(hist[w], hist'[w])
    PROVE  KeepsAll /\ \A w \in Works : CopyOf(mem'[w], hist'[w])
<1>1. \A w \in Works : /\ mem[w] \in Seq(Versions) /\ hist[w] \in Seq(Versions)
                       /\ hist'[w] \in Seq(Versions)
                       /\ Keeps(mem[w], mem[w]) /\ CopyOf(mem[w], hist[w])
  BY KeepsSelf DEF Inv, TypeOK, WorksFromOneVersion
<1>2. \A w \in Works : CopyOf(mem[w], hist'[w])
  BY <1>1, CopyStays
<1>3. QED
  BY <1>1, <1>2 DEF KeepsAll

(* An object in memory is changed in place, and keeps its spec. *)
LEMMA MemoryStep ==
    ASSUME Inv, UNCHANGED hist, NEW w \in Works,
           NEW n \in 1..Len(mem[w]), NEW v \in Versions,
           v.spec = mem[w][n].spec,
           mem' = [mem EXCEPT ![w] = [mem[w] EXCEPT ![n] = v]]
    PROVE  /\ mem' \in [Works -> Seq(Versions)]
           /\ KeepsAll /\ \A x \in Works : CopyOf(mem'[x], hist'[x])
           /\ Len(mem'[w]) = Len(mem[w])
<1>1. \A x \in Works : /\ mem[x] \in Seq(Versions) /\ hist[x] \in Seq(Versions)
                       /\ Keeps(hist[x], hist[x]) /\ CopyOf(mem[x], hist[x])
  BY KeepsSelf DEF Inv, TypeOK, WorksFromOneVersion
<1> DEFINE t == [mem[w] EXCEPT ![n] = v]
<1>2. t \in Seq(Versions) /\ Len(t) = Len(mem[w]) /\ Keeps(mem[w], t)
  BY <1>1, ChangeKeeps
<1> HIDE DEF t
<1>3. CopyOf(t, hist[w])
  BY <1>1, <1>2, CopyStays
<1>4. mem' = [mem EXCEPT ![w] = t]
  BY DEF t
<1>5. mem'[w] = t /\ \A x \in Works \ {w} : mem'[x] = mem[x]
  BY <1>4 DEF Inv, TypeOK
<1>6. \A x \in Works : Keeps(mem[x], mem'[x]) /\ CopyOf(mem'[x], hist[x])
  BY <1>1, <1>2, <1>3, <1>5, KeepsSelf
<1>7. QED
  BY <1>1, <1>2, <1>4, <1>5, <1>6 DEF Inv, TypeOK, KeepsAll

-----------------------------------------------------------------------------
(* The steps of users and of the informer *)

Budgets == [ops : Nat, faults : Nat, crashes : Nat]

LEMMA BudgetOK ==
    ASSUME TypeOK, CanOp \/ CanFault \/ UNCHANGED budget
    PROVE  budget' \in Budgets
<1>1. /\ budget \in Budgets /\ budget.ops + 1 \in Nat
      /\ budget.faults + 1 \in Nat
  BY DEF TypeOK, Budgets
<1>2. CASE CanOp
  BY <1>1, <1>2 DEF CanOp, Budgets
<1>3. CASE CanFault
  BY <1>1, <1>3 DEF CanFault, Budgets
<1>4. CASE UNCHANGED budget
  BY <1>1, <1>4
<1>5. QED
  BY <1>2, <1>3, <1>4

LEMMA EditedVersion ==
    ASSUME NEW v \in Versions, NEW s \in Specs, NEW n \in Nat
    PROVE  [v EXCEPT !.spec = s, !.by = n] \in Versions
BY DEF Versions

LEMMA LatestOK ==
    ASSUME TypeOK, NEW w \in Works, Exists(w)
    PROVE  Latest(w) \in Versions /\ Len(hist[w]) \in Nat \ {0}
<1>1. hist[w] \in Seq(Versions) /\ hist[w] # <<>>
  BY DEF TypeOK, Exists
<1>2. Len(hist[w]) \in Nat \ {0}
  BY <1>1, EmptySeq
<1>3. hist[w][Len(hist[w])] \in Versions
  BY <1>1, <1>2, ElementOfSeq
<1>4. QED
  BY <1>2, <1>3 DEF Latest

LEMMA UserWrites ==
    ASSUME Inv, NEW w \in Works, NEW v \in Versions, Store(w, v),
           budget' \in Budgets,
           UNCHANGED <<joined, cluster, informer, workqueue, job, reapers, read>>
    PROVE  Inv'
<1>1. /\ hist' \in [Works -> Seq(Versions)]
      /\ \A x \in Works : Keeps(hist[x], hist'[x])
  BY StoreOK DEF Inv
<1>2. TypeOK'
  BY <1>1 DEF Inv, TypeOK, Q!SFTypeOK, Budgets, cluster, informer, workqueue
<1>3. KeepsAll /\ \A x \in Works : CopyOf(mem'[x], hist'[x])
  BY <1>1, <1>2, ServerStep DEF informer
<1>4. \A q \in Procs : SameJob(q)
  BY DEF SameJob, workqueue
<1>5. QED
  BY <1>2, <1>3, <1>4, StepOK

LEMMA UserStep ==
    ASSUME Inv, NEW w \in Works, User(w) PROVE Inv'
<1>0. hist[w] \in Seq(Versions) /\ Len(hist[w]) \in Nat
  BY LenProperties DEF Inv, TypeOK
<1>1. CASE Create(w)
  <2>1. PICK s \in Specs :
           Store(w, [spec |-> s, fin |-> FALSE, del |-> FALSE, gone |-> FALSE,
                     rv |-> 0, by |-> Len(hist[w]) + 1])
    BY <1>1 DEF Create
  <2>2. [spec |-> s, fin |-> FALSE, del |-> FALSE, gone |-> FALSE,
         rv |-> 0, by |-> Len(hist[w]) + 1] \in Versions
    BY <1>0 DEF Versions
  <2>3. QED
    BY <1>1, <2>1, <2>2, BudgetOK, UserWrites DEF Create, Inv
<1>2. CASE Edit(w)
  <2>1. Latest(w) \in Versions
    BY <1>2, LatestOK DEF Edit, Inv
  <2>2. PICK s \in Specs :
           Store(w, [Latest(w) EXCEPT !.spec = s, !.by = Len(hist[w]) + 1])
    BY Zenon, <1>2 DEF Edit
  <2>3. [Latest(w) EXCEPT !.spec = s, !.by = Len(hist[w]) + 1] \in Versions
    <3>1. Len(hist[w]) + 1 \in Nat
      BY <1>0
    <3>2. QED
      BY Zenon, <2>1, <3>1, EditedVersion
  <2>4. QED
    BY <1>2, <2>2, <2>3, BudgetOK, UserWrites DEF Edit, Inv
<1>3. CASE Delete(w)
  <2>1. Latest(w) \in Versions
    BY <1>3, LatestOK DEF Delete, Inv
  <2>2. [Latest(w) EXCEPT !.del = TRUE, !.gone = ~Latest(w).fin] \in Versions
    BY <2>1 DEF Versions
  <2>3. QED
    BY <1>3, <2>2, BudgetOK, UserWrites DEF Delete, Inv
<1>4. QED
  BY <1>1, <1>2, <1>3 DEF User

LEMMA InformerStep ==
    ASSUME Inv, NEW w \in Works, Informer(w) PROVE Inv'
<1>0. /\ mem[w] \in Seq(Versions) /\ Len(mem[w]) \in Nat
      /\ hist[w] \in Seq(Versions) /\ Len(hist[w]) \in Nat
      /\ notif[w] \in Seq(Notifs) /\ CopyOf(mem[w], hist[w])
  BY LenProperties DEF Inv, TypeOK, WorksFromOneVersion
<1>1. CASE Deliver(w)
  <2> DEFINE n == Newest(w) + 1
             kind == IF hist[w][n].gone THEN "delete"
                     ELSE IF Cached(w) THEN "update" ELSE "add"
             e == [kind |-> kind, old |-> n - 1, new |-> n]
  <2>1. /\ n \in 1..Len(hist[w]) /\ n = Len(mem[w]) + 1
        /\ mem' = [mem EXCEPT ![w] = Append(mem[w], hist[w][n])]
        /\ notif' = [notif EXCEPT ![w] = Append(notif[w], e)]
        /\ UNCHANGED <<server, cluster, workqueue, job, reapers, read, budget>>
    BY <1>0, <1>1 DEF Deliver, Newest
  <2>2. e \in Notifs
    BY <1>0, <2>1 DEF Notifs
  <2>3. hist[w][n] \in Versions
    BY <1>0, <2>1, ElementOfSeq
  <2> HIDE DEF n, e
  <2> DEFINE t == Append(mem[w], hist[w][n])
  <2>4. /\ t \in Seq(Versions) /\ Len(t) = Len(mem[w]) + 1
        /\ t[Len(mem[w]) + 1] = hist[w][n] /\ Keeps(mem[w], t)
        /\ \A i \in 1..Len(mem[w]) : t[i] = mem[w][i]
    BY <1>0, <2>3, AppendKeeps
  <2>5. Append(notif[w], e) \in Seq(Notifs)
    BY <1>0, <2>2, AppendProperties
  <2> HIDE DEF t
  <2>6. CopyOf(t, hist[w])
    <3>1. Len(t) <= Len(hist[w])
      BY <1>0, <2>1, <2>4
    <3>2. ASSUME NEW i \in 1..Len(t) PROVE t[i].spec = hist[w][i].spec
      <4>1. CASE i = Len(mem[w]) + 1
        BY <2>1, <2>4, <4>1
      <4>2. CASE i \in 1..Len(mem[w])
        BY <1>0, <2>4, <4>2 DEF CopyOf
      <4>3. QED
        BY <1>0, <2>4, <4>1, <4>2
    <3>3. QED
      BY <3>1, <3>2 DEF CopyOf
  <2>7. mem' = [mem EXCEPT ![w] = t]
    BY <2>1 DEF t
  <2>8. TypeOK'
    BY <2>1, <2>4, <2>5, <2>7
       DEF Inv, TypeOK, Q!SFTypeOK, server, cluster, workqueue
  <2>9. \A x \in Works : /\ Keeps(mem[x], mem'[x]) /\ Keeps(hist[x], hist'[x])
                         /\ CopyOf(mem'[x], hist'[x])
    <3>1. mem'[w] = t /\ hist' = hist
          /\ \A x \in Works \ {w} : mem'[x] = mem[x]
      BY <2>1, <2>7 DEF Inv, TypeOK, server
    <3>2. \A x \in Works : /\ mem[x] \in Seq(Versions)
                           /\ hist[x] \in Seq(Versions)
                           /\ CopyOf(mem[x], hist[x])
      BY DEF Inv, TypeOK, WorksFromOneVersion
    <3>3. QED
      BY <2>4, <2>6, <3>1, <3>2, KeepsSelf
  <2>10. (\A q \in Procs : SameJob(q)) /\ reapers' = reapers
    BY <2>1 DEF SameJob, workqueue
  <2>11. QED
    BY <2>8, <2>9, <2>10, StepOK DEF KeepsAll
<1>2. CASE Resync(w)
  <2> DEFINE e == [kind |-> "update", old |-> Newest(w), new |-> Newest(w)]
  <2>1. <<e>> \in Seq(Notifs)
    BY <1>0 DEF Notifs, Newest
  <2>2. /\ notif' = [notif EXCEPT ![w] = <<e>>]
        /\ UNCHANGED <<server, cluster, mem, workqueue, job, reapers, read,
                       budget>>
    BY <1>2 DEF Resync
  <2> HIDE DEF e
  <2>3. TypeOK'
    BY <2>1, <2>2 DEF Inv, TypeOK, Q!SFTypeOK, server, cluster, workqueue
  <2>4. (\A q \in Procs : SameJob(q)) /\ UNCHANGED <<hist, mem, reapers>>
    BY <2>2 DEF SameJob, workqueue, server
  <2>5. QED
    BY <2>3, <2>4, JobsStep
<1>3. CASE Handle(w)
  <2>1. /\ notif' = [notif EXCEPT ![w] = Tail(notif[w])]
        /\ Tail(notif[w]) \in Seq(Notifs)
        /\ UNCHANGED <<hist, joined, member, down, mem, job, reapers, read,
                       budget>>
    BY <1>0, <1>3, HeadTailProperties DEF Handle, server, cluster
  <2>2. Q!Request(w) \/ UNCHANGED workqueue
    BY <1>3 DEF Handle
  <2>3. /\ pending' \subseteq Works /\ deferred' \subseteq Works
        /\ active' = active
    BY <2>2 DEF Q!Request, workqueue, Inv, TypeOK, Q!SFTypeOK
  <2>4. TypeOK'
    BY <2>1, <2>3 DEF Inv, TypeOK, Q!SFTypeOK
  <2>5. \A q \in Procs : SameJob(q)
    BY <2>1, <2>3 DEF SameJob
  <2>6. QED
    BY <2>1, <2>4, <2>5, JobsStep
<1>4. QED
  BY <1>1, <1>2, <1>3 DEF Informer

-----------------------------------------------------------------------------
(* The branches of syncHandler *)

LEMMA BeginStep ==
    ASSUME Inv, NEW p \in Procs, NEW w \in Works, Begin(p, w) PROVE Inv'
<1> DEFINE j == [NoJob EXCEPT !.pc = "start"]
<1>1. j \in Jobs /\ j.pc = "start"
  BY RetryOK DEF NoJob, Jobs
<1>2. /\ job' = [job EXCEPT ![p] = j] /\ active' = [active EXCEPT ![p] = w]
      /\ pending' = pending \ {w} /\ deferred' = deferred
      /\ UNCHANGED <<server, cluster, informer, reapers, read, budget>>
  BY DEF Begin, Q!Begin
<1> HIDE DEF j
<1>3. job' \in [Procs -> Jobs]
  BY <1>1, <1>2, JobType DEF Inv
<1>4. TypeOK'
  BY <1>2, <1>3 DEF Inv, TypeOK, Q!SFTypeOK, server, cluster, informer
<1>5. \A q \in Procs \ {p} : SameJob(q)
  BY <1>2 DEF SameJob, Inv, TypeOK, Q!SFTypeOK
<1>6. Fits(p)'
  <2>1. job'[p] = j /\ active'[p] = w
    BY <1>2 DEF Inv, TypeOK, Q!SFTypeOK
  <2>2. JobFits(j, w, mem'[w], hist'[w])
    BY <1>1, NoneElsewhere DEF JobFits
  <2>3. QED
    BY <2>1, <2>2 DEF Fits
<1>7. QED
  BY <1>2, <1>4, <1>5, <1>6, JobsStep DEF server, informer

(* What the lister returned is an object in memory. *)
LEMMA CachedOK ==
    ASSUME Inv, NEW w \in Works, Cached(w)
    PROVE  /\ Newest(w) \in 1..Len(mem[w]) /\ Newest(w) \in Nat
           /\ mem[w][Newest(w)] \in Versions
<1>1. mem[w] \in Seq(Versions) /\ mem[w] # <<>>
  BY DEF Inv, TypeOK, Cached
<1>2. Len(mem[w]) \in Nat \ {0}
  BY <1>1, EmptySeq
<1>3. Newest(w) \in 1..Len(mem[w]) /\ Newest(w) \in Nat
  BY <1>2 DEF Newest
<1>4. QED
  BY <1>1, <1>3, ElementOfSeq

(* Worker p has read w and goes to a place that needs only the object.     *)
PlaceJob(p, place, n) == [job[p] EXCEPT !.pc = place, !.at = n]

LEMMA PlaceOK ==
    ASSUME Inv, NEW p \in Procs, NEW place \in {"put", "clients"}, NEW n \in Nat,
           job[p].pc = "start"
    PROVE  /\ PlaceJob(p, place, n) \in Jobs
           /\ PlaceJob(p, place, n).pc = place /\ PlaceJob(p, place, n).at = n
BY ActiveOK DEF PlaceJob, Jobs

LEMMA ReadOK ==
    ASSUME Inv, NEW p \in Procs, Reads(p)
    PROVE  /\ job[p].pc = "start" /\ active[p] \in Works
           /\ read' \in [Works -> Nat]
           /\ UNCHANGED <<hist, joined, member, down, notif, pending, deferred,
                          active, budget>>
<1>1. job[p].pc = "start" /\ active[p] \in Works
  BY ActiveOK DEF Reads
<1>2. Newest(active[p]) \in Nat
  BY <1>1, LenProperties DEF Newest, Inv, TypeOK
<1>3. QED
  BY <1>1, <1>2
     DEF Reads, Inv, TypeOK, server, cluster, workqueue

LEMMA ReadStep ==
    ASSUME Inv, NEW p \in Procs, SyncNotFound(p) \/ SyncApply(p) PROVE Inv'
<1> DEFINE w == active[p]
<1>0. Reads(p) /\ UNCHANGED <<mem, reapers>>
  BY DEF SyncNotFound, SyncApply
<1>1. /\ job[p].pc = "start" /\ w \in Works /\ read' \in [Works -> Nat]
      /\ UNCHANGED <<hist, joined, member, down, notif, pending, deferred,
                     active, budget>>
  BY <1>0, ReadOK
<1>a. ASSUME NEW j \in Jobs, job' = [job EXCEPT ![p] = j],
             JobFits(j, w, mem[w], hist[w])
      PROVE  Inv'
  <2>1. job' \in [Procs -> Jobs]
    BY <1>a, JobType DEF Inv
  <2>2. TypeOK'
    BY <1>0, <1>1, <2>1 DEF Inv, TypeOK, Q!SFTypeOK
  <2>3. QED
    BY <1>0, <1>1, <1>a, <2>2, WorkerStep
<1>2. CASE SyncNotFound(p)
  <2>1. job' = [job EXCEPT ![p] = Finish(TRUE)]
    BY <1>2 DEF SyncNotFound
  <2>2. Finish(TRUE) \in Jobs
    BY FinishOK
  <2>3. JobFits(Finish(TRUE), w, mem[w], hist[w])
    BY <1>1, FinishFits
  <2>4. QED
    BY <1>a, <2>1, <2>2, <2>3
<1>3. CASE SyncApply(p)
  <2> DEFINE j == PlaceJob(p, "clients", Newest(w))
  <2>1. Newest(w) \in 1..Len(mem[w]) /\ Newest(w) \in Nat
    BY <1>1, <1>3, CachedOK DEF SyncApply
  <2>2. j \in Jobs /\ j.pc = "clients" /\ j.at = Newest(w)
    BY <1>1, <2>1, PlaceOK
  <2>3. job' = [job EXCEPT ![p] = j]
    BY <1>3, <2>2 DEF SyncApply, PlaceJob, Inv, TypeOK
  <2> HIDE DEF j
  <2>4. JobFits(j, w, mem[w], hist[w])
    BY <1>1, <2>1, <2>2, NoneElsewhere DEF JobFits
  <2>5. QED
    BY <1>a, <2>2, <2>3, <2>4
<1>4. QED
  BY <1>2, <1>3

(* The finalizer of the object in memory is changed, and it is sent. *)
LEMMA FinalizerStep ==
    ASSUME Inv, NEW p \in Procs, SyncAddFinalizer(p) \/ SyncRemoveFinalizer(p)
    PROVE  Inv'
<1> DEFINE w == active[p]
           n == Newest(w)
           j == PlaceJob(p, "put", n)
           r == [w |-> w, at |-> n, pc |-> "start", m |-> 0,
                 left |-> {}, clients |-> {}, nils |-> {}]
<1>0. Reads(p) /\ Cached(w)
  BY DEF SyncAddFinalizer, SyncRemoveFinalizer
<1>1. /\ job[p].pc = "start" /\ w \in Works /\ read' \in [Works -> Nat]
      /\ UNCHANGED <<hist, joined, member, down, notif, pending, deferred,
                     active, budget>>
  BY <1>0, ReadOK
<1>2. n \in 1..Len(mem[w]) /\ n \in Nat /\ mem[w][n] \in Versions
  BY <1>0, <1>1, CachedOK
<1>3. j \in Jobs /\ j.pc = "put" /\ j.at = n
  BY <1>1, <1>2, PlaceOK
<1>4. job' = [job EXCEPT ![p] = j]
  BY <1>3 DEF SyncAddFinalizer, SyncRemoveFinalizer, PlaceJob, Inv, TypeOK
<1>5. PICK b \in BOOLEAN : mem' = [mem EXCEPT ![w][n].fin = b]
  BY DEF SyncAddFinalizer, SyncRemoveFinalizer
<1> DEFINE v == [mem[w][n] EXCEPT !.fin = b]
<1>6. v \in Versions /\ v.spec = mem[w][n].spec
  BY <1>2 DEF Versions
<1>7. mem' = [mem EXCEPT ![w] = [mem[w] EXCEPT ![n] = v]]
  BY <1>5
<1>8. reapers' = reapers \/ reapers' = reapers \cup {r}
  BY DEF SyncAddFinalizer, SyncRemoveFinalizer
<1>9. r \in Reapers /\ r.w = w /\ r.at = n /\ r.pc = "start"
  BY <1>1, <1>2 DEF Reapers
<1> HIDE DEF v, j, n, r
<1>10. /\ mem' \in [Works -> Seq(Versions)]
       /\ KeepsAll /\ \A x \in Works : CopyOf(mem'[x], hist'[x])
       /\ Len(mem'[w]) = Len(mem[w])
  BY <1>1, <1>2, <1>6, <1>7, MemoryStep
<1>11. job' \in [Procs -> Jobs]
  BY <1>3, <1>4, JobType DEF Inv
<1>12. TypeOK'
  BY <1>1, <1>8, <1>9, <1>10, <1>11 DEF Inv, TypeOK, Q!SFTypeOK
<1>13. \A q \in Procs \ {p} : SameJob(q)
  BY <1>1, <1>4 DEF SameJob, Inv, TypeOK
<1>14. Fits(p)'
  <2>1. job'[p] = j /\ active'[p] = w
    BY <1>1, <1>4 DEF Inv, TypeOK
  <2>2. JobFits(j, w, mem'[w], hist'[w])
    BY <1>1, <1>2, <1>3, <1>10, NoneElsewhere DEF JobFits
  <2>3. QED
    BY <2>1, <2>2 DEF Fits
<1>15. ReaperFits(r, mem'[r.w])
  BY <1>2, <1>9, <1>10 DEF ReaperFits
<1>16. QED
  BY <1>8, <1>10, <1>12, <1>13, <1>14, <1>15, StepOK

LEMMA DecodeStep ==
    ASSUME Inv, NEW p \in Procs, Decode(p) PROVE Inv'
<1> DEFINE w == active[p]
           n == job[p].at
           v == [hist[w][job[p].to] EXCEPT !.gone = FALSE]
<1>1. /\ job[p].pc = "decode" /\ mem' = [mem EXCEPT ![w][n] = v]
      /\ job' = [job EXCEPT ![p] = Finish(TRUE)]
      /\ UNCHANGED <<server, cluster, notif, workqueue, reapers, read, budget>>
  BY DEF Decode
<1>2. /\ w \in Works /\ n \in 1..Len(mem[w])
      /\ job[p].to \in 1..Len(hist[w])
      /\ hist[w][job[p].to].spec = mem[w][n].spec
  BY <1>1, ActiveOK DEF Fits, JobFits
<1>3. hist[w][job[p].to] \in Versions
  BY <1>2, ElementOfSeq DEF Inv, TypeOK
<1>4. v \in Versions /\ v.spec = mem[w][n].spec
  BY <1>2, <1>3 DEF Versions
<1> HIDE DEF v
<1>5. mem' = [mem EXCEPT ![w] = [mem[w] EXCEPT ![n] = v]]
  BY <1>1
<1>6. hist' = hist /\ active' = active /\ reapers' = reapers
  BY <1>1 DEF server, workqueue
<1>7. /\ mem' \in [Works -> Seq(Versions)]
      /\ KeepsAll /\ \A x \in Works : CopyOf(mem'[x], hist'[x])
  BY <1>2, <1>4, <1>5, <1>6, MemoryStep
<1>8. job' \in [Procs -> Jobs]
  BY <1>1, FinishOK, JobType DEF Inv
<1>9. TypeOK'
  BY <1>1, <1>7, <1>8
     DEF Inv, TypeOK, Q!SFTypeOK, server, cluster, workqueue
<1>10. \A q \in Procs \ {p} : SameJob(q)
  BY <1>1, <1>6 DEF SameJob, Inv, TypeOK
<1>11. Fits(p)'
  <2>1. job'[p] = Finish(TRUE) /\ active'[p] = w
    BY <1>1, <1>6 DEF Inv, TypeOK
  <2>2. JobFits(Finish(TRUE), w, mem'[w], hist'[w])
    BY <1>2, FinishFits
  <2>3. QED
    BY <2>1, <2>2 DEF Fits
<1>12. QED
  BY <1>6, <1>7, <1>9, <1>10, <1>11, StepOK

LEMMA PutStep ==
    ASSUME Inv, NEW p \in Procs, Put(p) PROVE Inv'
<1> DEFINE w == active[p]
           n == job[p].at
           o == mem[w][n]
<1>1. /\ job[p].pc = "put"
      /\ UNCHANGED <<joined, cluster, informer, workqueue, reapers, read>>
      /\ budget' \in Budgets
  BY BudgetOK DEF Put, Inv
<1>2. w \in Works /\ n \in 1..Len(mem[w]) /\ job[p] \in Jobs
  BY <1>1, ActiveOK DEF Fits, JobFits
<1>3. o \in Versions
  BY <1>2, VersionOK DEF Inv
<1>4. hist[w] \in Seq(Versions) /\ Len(hist[w]) \in Nat
  BY <1>2, LenProperties DEF Inv, TypeOK
<1> HIDE DEF o
<1>5. ASSUME PutAccepted(w, o)
      PROVE  /\ hist' \in [Works -> Seq(Versions)]
             /\ \A x \in Works : Keeps(hist[x], hist'[x])
             /\ Len(hist'[w]) = Len(hist[w]) + 1
             /\ hist'[w][Len(hist[w]) + 1].spec = o.spec
  <2> DEFINE v == [Latest(w) EXCEPT !.spec = o.spec, !.fin = o.fin,
                                    !.by = Len(hist[w]) + 1,
                                    !.gone = Latest(w).del /\ ~o.fin]
  <2>1. Latest(w) \in Versions /\ Store(w, v)
    BY <1>2, <1>5, LatestOK DEF PutAccepted, Inv
  <2>2. v \in Versions /\ v.spec = o.spec
    <3>1. /\ Len(hist[w]) + 1 \in Nat /\ o.spec \in Specs /\ o.fin \in BOOLEAN
          /\ (Latest(w).del /\ ~o.fin) \in BOOLEAN
      BY <1>3, <1>4 DEF Versions
    <3>2. QED
      BY <2>1, <3>1 DEF Versions
  <2> HIDE DEF v
  <2>3. QED
    BY <1>2, <2>1, <2>2, StoreOK DEF Inv
<1>6. hist' \in [Works -> Seq(Versions)]
      /\ \A x \in Works : Keeps(hist[x], hist'[x])
  <2>1. PutAccepted(w, o) \/ UNCHANGED hist
    BY DEF Put, o
  <2>2. CASE UNCHANGED hist
    BY <2>2, KeepsSelf DEF Inv, TypeOK
  <2>3. QED
    BY <1>5, <2>1, <2>2
<1>7. \/ job' = [job EXCEPT ![p] = Finish(FALSE)]
      \/ /\ PutAccepted(w, o)
         /\ job' = [job EXCEPT ![p] = [job[p] EXCEPT !.pc = "decode",
                                                     !.to = Len(hist[w]) + 1]]
  BY <1>2 DEF Put, o, Inv, TypeOK
<1>a. ASSUME NEW j \in Jobs, job' = [job EXCEPT ![p] = j],
             JobFits(j, w, mem[w], hist'[w])
      PROVE  Inv'
  <2>1. job' \in [Procs -> Jobs]
    BY <1>a, JobType DEF Inv
  <2>2. TypeOK'
    BY <1>1, <1>6, <2>1
       DEF Inv, TypeOK, Q!SFTypeOK, Budgets, cluster, informer, workqueue
  <2>3. KeepsAll /\ \A x \in Works : CopyOf(mem'[x], hist'[x])
    BY <1>1, <1>6, <2>2, ServerStep DEF informer
  <2>4. \A q \in Procs \ {p} : SameJob(q)
    BY <1>1, <1>a DEF SameJob, Inv, TypeOK, workqueue
  <2>5. Fits(p)'
    <3>1. job'[p] = j /\ active'[p] = w /\ mem' = mem
      BY <1>1, <1>a DEF Inv, TypeOK, workqueue, informer
    <3>2. QED
      BY <1>a, <3>1 DEF Fits
  <2>6. QED
    BY <1>1, <2>2, <2>3, <2>4, <2>5, StepOK
<1>8. CASE job' = [job EXCEPT ![p] = Finish(FALSE)]
  <2>1. Finish(FALSE) \in Jobs /\ JobFits(Finish(FALSE), w, mem[w], hist'[w])
    BY <1>2, FinishOK, FinishFits
  <2>2. QED
    BY <1>8, <1>a, <2>1
<1>9. CASE /\ PutAccepted(w, o)
           /\ job' = [job EXCEPT ![p] = [job[p] EXCEPT !.pc = "decode",
                                                       !.to = Len(hist[w]) + 1]]
  <2> DEFINE j == [job[p] EXCEPT !.pc = "decode", !.to = Len(hist[w]) + 1]
  <2>1. /\ j \in Jobs /\ j.pc = "decode" /\ j.at = n
        /\ j.to = Len(hist[w]) + 1
    <3>1. Len(hist[w]) + 1 \in Nat
      BY <1>4
    <3>2. QED
      BY <1>2, <3>1 DEF Jobs
  <2>2. job' = [job EXCEPT ![p] = j]
    BY <1>9
  <2>3. /\ Len(hist'[w]) = Len(hist[w]) + 1
        /\ hist'[w][Len(hist[w]) + 1].spec = o.spec
    BY <1>5, <1>9
  <2>4. j.to \in 1..Len(hist'[w])
    BY <1>4, <2>1, <2>3
  <2> HIDE DEF j
  <2>5. JobFits(j, w, mem[w], hist'[w])
    BY <1>2, <2>1, <2>3, <2>4, NoneElsewhere DEF JobFits, o
  <2>6. QED
    BY <1>a, <2>1, <2>2, <2>5
<1>10. QED
  BY <1>7, <1>8, <1>9

-----------------------------------------------------------------------------
(* syncWork *)

(* A worker inside the loops of syncWork. *)
LEMMA LoopOK ==
    ASSUME Inv, NEW p \in Procs, job[p].pc \in {"get", "create", "update"}
    PROVE  LET spec == mem[active[p]][job[p].at].spec
           IN  /\ active[p] \in Works /\ job[p] \in Jobs
               /\ job[p].at \in 1..Len(mem[active[p]])
               /\ spec \in WorkSpecs /\ InLoops(job[p], spec)
               /\ Manifest(p) \in Manifests
               /\ Manifest(p) = spec.manifests[job[p].m]
<1>1. /\ active[p] \in Works /\ job[p] \in Jobs
      /\ job[p].at \in 1..Len(mem[active[p]])
      /\ InLoops(job[p], mem[active[p]][job[p].at].spec)
  BY ActiveOK DEF Fits, JobFits
<1>2. /\ mem[active[p]][job[p].at].spec \in WorkSpecs
      /\ mem[active[p]][job[p].at].spec.manifests \in Seq(Manifests)
  BY <1>1, VersionOK DEF Inv
<1>3. Manifest(p) \in Manifests
  BY <1>1, <1>2, ElementOfSeq DEF Manifest, InLoops
<1>4. QED
  BY <1>1, <1>2, <1>3 DEF Manifest

LEMMA GoOnOK ==
    ASSUME Inv, NEW p \in Procs, job[p].pc \in {"get", "create", "update"},
           NEW c
    PROVE  LET w == active[p]
               j == GoOn(p, After(job[p], c, mem[w][job[p].at].spec))
           IN  /\ j \in Jobs
               /\ JobFits(j, w, mem[w], hist[w])
<1> DEFINE w == active[p]
           spec == mem[w][job[p].at].spec
           n == After(job[p], c, spec)
           j == GoOn(p, n)
<1>1. /\ w \in Works /\ job[p] \in Jobs /\ job[p].at \in 1..Len(mem[w])
      /\ spec \in WorkSpecs /\ InLoops(job[p], spec)
  BY LoopOK
<1>2. job[p].left \in SUBSET Clusters /\ job[p].clients \in SUBSET Clusters
  BY <1>1 DEF Jobs
<1> HIDE DEF spec
<1>3. /\ n.m \in Nat /\ n.left \in SUBSET Clusters
      /\ n.m # 0 => /\ n.m \in 1..Len(spec.manifests)
                    /\ n.left \subseteq job[p].clients
  BY <1>1, <1>2, AfterOK
<1> HIDE DEF n
<1>4. CASE n.m = 0
  <2>1. j = Finish(TRUE)
    BY <1>4 DEF GoOn
  <2>2. QED
    BY <1>1, <2>1, FinishOK, FinishFits DEF n, spec
<1>5. CASE n.m # 0
  <2> DEFINE u == IF n.m = job[p].m THEN job[p].uid
                  ELSE spec.manifests[n.m].uid
  <2>1. u \in BOOLEAN
    <3>1. spec.manifests \in Seq(Manifests)
      BY <1>1 DEF WorkSpecs
    <3>2. spec.manifests[n.m] \in Manifests
      BY <1>3, <1>5, <3>1, ElementOfSeq
    <3>3. QED
      BY <1>1, <3>2 DEF Manifests, Jobs
  <2>2. j = [job[p] EXCEPT !.pc = "get", !.m = n.m, !.left = n.left, !.c = None,
                           !.uid = u, !.fresh = FALSE, !.tries = 0]
    BY <1>5 DEF GoOn, spec
  <2> HIDE DEF u, j
  <2>3. /\ j \in Jobs /\ j.pc = "get" /\ j.at = job[p].at /\ j.m = n.m
        /\ j.left = n.left /\ j.clients = job[p].clients /\ j.c = None
    BY <1>1, <1>3, <2>1, <2>2, RetryOK DEF Jobs
  <2>4. InLoops(j, spec)
    BY <1>1, <1>3, <1>5, <2>3 DEF InLoops
  <2>5. JobFits(j, w, mem[w], hist[w])
    BY <1>1, <2>3, <2>4, NoneElsewhere DEF JobFits, spec
  <2>6. QED
    BY <2>3, <2>5 DEF j, n, spec
<1>6. QED
  BY <1>4, <1>5

(* A step of a worker that changes only its own job. *)
LEMMA OwnJobStep ==
    ASSUME Inv, NEW p \in Procs, NEW j \in Jobs,
           job' = [job EXCEPT ![p] = j],
           JobFits(j, active[p], mem[active[p]], hist[active[p]]),
           UNCHANGED <<server, cluster, informer, workqueue, reapers, read,
                       budget>>
    PROVE  Inv'
<1>1. job' \in [Procs -> Jobs]
  BY JobType DEF Inv
<1>2. TypeOK'
  BY <1>1
     DEF Inv, TypeOK, Q!SFTypeOK, server, cluster, informer, workqueue
<1>3. QED
  BY <1>2, WorkerStep DEF server, informer, workqueue

LEMMA SyncClientsStep ==
    ASSUME Inv, NEW p \in Procs, SyncClients(p) PROVE Inv'
<1> DEFINE w == active[p]
           spec == mem[w][job[p].at].spec
           n == First(ClusterClients(spec), spec)
           u == spec.manifests[n.m].uid
           j == [job[p] EXCEPT
                   !.pc = "get", !.m = n.m, !.left = n.left, !.c = None,
                   !.clients = ClusterClients(spec),
                   !.nils = NilClients(spec), !.uid = u]
<1>1. /\ job[p].pc = "clients"
      /\ UNCHANGED <<server, cluster, informer, workqueue, reapers, read,
                     budget>>
  BY Zenon DEF SyncClients
<1>2. w \in Works /\ job[p] \in Jobs /\ job[p].at \in 1..Len(mem[w])
  BY <1>1, ActiveOK DEF Fits, JobFits
<1>3. spec \in WorkSpecs /\ spec.manifests \in Seq(Manifests)
      /\ spec.clusters \in SUBSET Clusters
  BY <1>2, VersionOK DEF Inv
<1>4. job' = [job EXCEPT ![p] = IF n.m = 0 THEN Finish(TRUE) ELSE j]
  BY Zenon DEF SyncClients
<1> HIDE DEF spec
<1>5. /\ ClusterClients(spec) \in SUBSET Clusters
      /\ ClusterClients(spec) \subseteq spec.clusters
      /\ NilClients(spec) \in SUBSET Clusters
  BY <1>3 DEF ClusterClients, NilClients
<1>6. /\ n.m \in Nat /\ n.left \in SUBSET Clusters
      /\ n.m # 0 => /\ n.m \in 1..Len(spec.manifests)
                    /\ n.left \subseteq ClusterClients(spec)
  BY <1>3, <1>5, FirstOK
<1> HIDE DEF n
<1>7. CASE n.m = 0
  <2>1. Finish(TRUE) \in Jobs /\ JobFits(Finish(TRUE), w, mem[w], hist[w])
    BY <1>2, FinishOK, FinishFits
  <2>2. job' = [job EXCEPT ![p] = Finish(TRUE)]
    BY <1>4, <1>7
  <2>3. QED
    BY <1>1, <2>1, <2>2, OwnJobStep
<1>8. CASE n.m # 0
  <2>1. u \in BOOLEAN
    <3>1. spec.manifests[n.m] \in Manifests
      BY <1>3, <1>6, <1>8, ElementOfSeq
    <3>2. QED
      BY <3>1 DEF Manifests
  <2> HIDE DEF u
  <2>2. /\ j \in Jobs /\ j.pc = "get" /\ j.at = job[p].at /\ j.m = n.m
        /\ j.left = n.left /\ j.clients = ClusterClients(spec)
        /\ j.c = None
    BY <1>2, <1>5, <1>6, <2>1 DEF Jobs
  <2>3. job' = [job EXCEPT ![p] = j]
    BY <1>4, <1>8 DEF u
  <2> HIDE DEF j
  <2>4. InLoops(j, spec)
    BY <1>5, <1>6, <1>8, <2>2 DEF InLoops
  <2>5. JobFits(j, w, mem[w], hist[w])
    BY <1>2, <2>2, <2>4, NoneElsewhere DEF JobFits, spec
  <2>6. QED
    BY <1>1, <2>2, <2>3, <2>5, OwnJobStep
<1>9. QED
  BY <1>7, <1>8

LEMMA SyncGetStep ==
    ASSUME Inv, NEW p \in Procs, NEW c \in Clusters, SyncGet(p, c) PROVE Inv'
<1> DEFINE w == active[p]
           spec == mem[w][job[p].at].spec
           g == GoOn(p, After(job[p], c, spec))
           place == IF member[c][Manifest(p).obj] = None THEN "create"
                    ELSE "update"
           j == [job[p] EXCEPT !.pc = place, !.c = c, !.fresh = TRUE]
<1>1. /\ job[p].pc = "get" /\ Target(p, c)
      /\ UNCHANGED <<server, cluster, informer, workqueue, reapers, read,
                     budget>>
      /\ job' = [job EXCEPT ![p] = g] \/ job' = [job EXCEPT ![p] = j]
  BY DEF SyncGet, Target
<1>2. g \in Jobs /\ JobFits(g, w, mem[w], hist[w])
  BY <1>1, GoOnOK
<1>3. /\ w \in Works /\ job[p] \in Jobs /\ job[p].at \in 1..Len(mem[w])
      /\ InLoops(job[p], spec)
  BY <1>1, LoopOK
<1>4. c \in job[p].left
  <2>1. job[p].c \in job[p].left \cup {None}
    BY <1>1, ActiveOK DEF Fits, JobFits
  <2>2. QED
    BY <1>1, <2>1 DEF Target
<1>5. place \in {"create", "update"}
  OBVIOUS
<1> HIDE DEF place, g, spec
<1>6. /\ j \in Jobs /\ j.pc = place /\ j.at = job[p].at /\ j.m = job[p].m
      /\ j.left = job[p].left /\ j.clients = job[p].clients /\ j.c = c
  BY <1>3, <1>5 DEF Jobs
<1> HIDE DEF j
<1>7. JobFits(j, w, mem[w], hist[w])
  BY <1>3, <1>4, <1>5, <1>6, NoneElsewhere DEF JobFits, InLoops, spec
<1>8. QED
  BY <1>1, <1>2, <1>6, <1>7, OwnJobStep

(* A write to a member cluster; the worker is none if a goroutine of       *)
(* deleteExternalResources writes.                                         *)
LEMMA WriteOK ==
    ASSUME Inv, NEW p \in Procs \cup {None}, NEW c \in Clusters,
           NEW o \in Objs, NEW v \in Vers \cup {None}, NEW j \in Jobs,
           WriteMember(p, c, o, v, j), active' = active
    PROVE  /\ member' \in [Clusters -> [Objs -> Vers \cup {None}]]
           /\ job' \in [Procs -> Jobs]
           /\ \A q \in Procs \ {p} : SameJob(q)
           /\ p \in Procs => job'[p] = j
<1>1. member \in [Clusters -> [Objs -> Vers \cup {None}]]
      /\ \A q \in Procs : job[q] \in Jobs
  BY DEF Inv, TypeOK
<1>2. member' = [member EXCEPT ![c] = [member[c] EXCEPT ![o] = v]]
  BY DEF WriteMember
<1>3. [member[c] EXCEPT ![o] = v] \in [Objs -> Vers \cup {None}]
  BY <1>1
<1>4. member' \in [Clusters -> [Objs -> Vers \cup {None}]]
  BY <1>1, <1>2, <1>3
<1>5. /\ job' = [q \in Procs |-> job'[q]]
      /\ \A q \in Procs \ {p} : \/ job'[q] = job[q]
                                \/ job'[q] = [job[q] EXCEPT !.fresh = FALSE]
      /\ p \in Procs => job'[p] = j
  BY DEF WriteMember
<1>6. \A q \in Procs : [job[q] EXCEPT !.fresh = FALSE] \in Jobs
  BY <1>1 DEF Jobs
<1>7. \A q \in Procs : job'[q] \in Jobs
  BY <1>1, <1>5, <1>6
<1>8. job' \in [Procs -> Jobs]
  BY <1>5, <1>7
<1>9. QED
  BY <1>4, <1>5, <1>8 DEF SameJob

(* The step of a worker that writes to a cluster or gives it up. *)
LEMMA SyncWriteStep ==
    ASSUME Inv, NEW p \in Procs, SyncCreate(p) \/ SyncUpdate(p) PROVE Inv'
<1> DEFINE w == active[p]
           c == job[p].c
           o == Manifest(p).obj
           g == NextCluster(p)
           h == Written(p, g)
           r == [job[p] EXCEPT !.pc = "get", !.fresh = FALSE,
                               !.tries = job[p].tries + 1]
<1>1. /\ job[p].pc \in {"create", "update"}
      /\ UNCHANGED <<server, down, informer, workqueue, reapers, read, budget>>
      /\ \/ WriteMember(p, c, o, Manifest(p).ver, h)
         \/ job' = [job EXCEPT ![p] = g] /\ UNCHANGED member
         \/ /\ job[p].pc = "update" /\ job[p].tries + 1 < RetrySteps
            /\ job' = [job EXCEPT ![p] = r] /\ UNCHANGED member
  BY DEF SyncCreate, SyncUpdate, Retries, Inv, TypeOK
<1>2. g \in Jobs /\ JobFits(g, w, mem[w], hist[w])
  BY <1>1, GoOnOK DEF NextCluster
<1>3. /\ w \in Works /\ job[p] \in Jobs /\ job[p].at \in 1..Len(mem[w])
      /\ InLoops(job[p], mem[w][job[p].at].spec)
      /\ Manifest(p) \in Manifests
  BY <1>1, LoopOK
<1>4. c \in job[p].left /\ c \in Clusters
  BY <1>1, <1>3, ActiveOK DEF Fits, JobFits, Jobs
<1>5. h \in Jobs /\ JobFits(h, w, mem[w], hist[w])
  <2> HIDE DEF g
  <2>1. CASE h = g
    BY <1>2, <2>1
  <2>2. CASE h = [g EXCEPT !.uid = TRUE]
    <3>1. /\ h \in Jobs /\ h.pc = g.pc /\ h.at = g.at /\ h.m = g.m
          /\ h.left = g.left /\ h.clients = g.clients /\ h.c = g.c
          /\ h.to = g.to
      BY <1>2, <2>2 DEF Jobs
    <3>2. QED
      BY <1>2, <3>1 DEF JobFits, InLoops
  <2>3. QED
    BY <2>1, <2>2 DEF Written
<1> HIDE DEF g, h
<1>6. CASE job' = [job EXCEPT ![p] = g] /\ UNCHANGED member
  BY <1>1, <1>2, <1>6, OwnJobStep DEF cluster
<1>7. CASE /\ job[p].pc = "update" /\ job[p].tries + 1 < RetrySteps
           /\ job' = [job EXCEPT ![p] = r] /\ UNCHANGED member
  <2>1. job[p].tries + 1 \in 0..RetrySteps - 1
    BY <1>3, <1>7, RetryOK DEF Jobs
  <2>2. /\ r \in Jobs /\ r.pc = "get" /\ r.at = job[p].at /\ r.m = job[p].m
        /\ r.left = job[p].left /\ r.clients = job[p].clients
        /\ r.c = job[p].c
    BY <1>3, <2>1 DEF Jobs
  <2>3. job' = [job EXCEPT ![p] = r]
    BY <1>7
  <2> HIDE DEF r
  <2>4. JobFits(r, w, mem[w], hist[w])
    BY <1>3, <1>4, <2>2, NoneElsewhere DEF JobFits, InLoops
  <2>5. QED
    BY <1>1, <1>7, <2>2, <2>3, <2>4, OwnJobStep DEF cluster
<1>8. CASE WriteMember(p, c, o, Manifest(p).ver, h)
  <2>1. o \in Objs /\ Manifest(p).ver \in Vers \cup {None} /\ active' = active
    BY <1>1, <1>3 DEF Manifests, workqueue
  <2> HIDE DEF o, c
  <2>2. /\ member' \in [Clusters -> [Objs -> Vers \cup {None}]]
        /\ job' \in [Procs -> Jobs]
        /\ \A q \in Procs \ {p} : SameJob(q)
        /\ job'[p] = h
    BY <1>4, <1>5, <1>8, <2>1, WriteOK
  <2>3. TypeOK'
    BY <1>1, <2>2 DEF Inv, TypeOK, Q!SFTypeOK, server, informer, workqueue
  <2>4. UNCHANGED <<hist, mem, active, reapers>>
    BY <1>1 DEF server, informer, workqueue
  <2>5. Fits(p)'
    BY <1>5, <2>2, <2>4 DEF Fits
  <2>6. QED
    BY <2>2, <2>3, <2>4, <2>5, JobsStep
<1>9. QED
  BY <1>1, <1>6, <1>7, <1>8

-----------------------------------------------------------------------------
(* The end of an item, and the back-off *)

LEMMA EndStep ==
    ASSUME Inv, NEW p \in Procs, Fail(p) \/ Done(p) PROVE Inv'
<1>1. /\ job[p].pc = "done" /\ active[p] \in Works /\ job[p] \in Jobs
      /\ UNCHANGED <<server, cluster, informer, reapers, read, budget>>
  BY ActiveOK DEF Fail, Done
<1>2. CASE Fail(p)
  <2> DEFINE j == [job[p] EXCEPT !.ok = TRUE]
  <2>1. j \in Jobs /\ j.pc = "done"
    BY <1>1 DEF Jobs
  <2>2. job' = [job EXCEPT ![p] = j] /\ pending' = pending /\ active' = active
        /\ deferred' = deferred \cup {active[p]}
    BY <1>2 DEF Fail, Q!Defer
  <2> HIDE DEF j
  <2>3. job' \in [Procs -> Jobs]
    BY <2>1, <2>2, JobType DEF Inv
  <2>4. TypeOK'
    BY <1>1, <2>2, <2>3 DEF Inv, TypeOK, Q!SFTypeOK, server, cluster, informer
  <2>5. JobFits(j, active[p], mem[active[p]], hist[active[p]])
    BY <1>1, <2>1, NoneElsewhere DEF JobFits
  <2>6. QED
    BY <1>1, <2>2, <2>4, <2>5, WorkerStep DEF server, informer
<1>3. CASE Done(p)
  <2>1. /\ job' = [job EXCEPT ![p] = NoJob]
        /\ active' = [active EXCEPT ![p] = None]
        /\ UNCHANGED <<pending, deferred>>
    BY <1>3 DEF Done, Q!End
  <2>2. job' \in [Procs -> Jobs]
    BY <2>1, FinishOK, JobType DEF Inv
  <2>3. TypeOK'
    BY <1>1, <2>1, <2>2 DEF Inv, TypeOK, Q!SFTypeOK, server, cluster, informer
  <2>4. \A q \in Procs \ {p} : SameJob(q)
    BY <2>1 DEF SameJob, Inv, TypeOK, Q!SFTypeOK
  <2>5. Fits(p)'
    <3>1. job'[p] = NoJob /\ active'[p] = None
      BY <2>1 DEF Inv, TypeOK, Q!SFTypeOK
    <3>2. JobFits(NoJob, None, mem'[None], hist'[None])
      BY FinishOK DEF JobFits
    <3>3. QED
      BY <3>1, <3>2 DEF Fits
  <2>6. QED
    BY <1>1, <2>3, <2>4, <2>5, JobsStep DEF server, informer
<1>4. QED
  BY <1>2, <1>3

(* Steps that touch no version, worker or goroutine. *)
LEMMA OutsideStep ==
    ASSUME Inv,
           \/ \E w \in Works : Fire(w)
           \/ \E c \in Clusters : Join(c) \/ ClusterDown(c) \/ ClusterUp(c)
           \/ UNCHANGED vars
    PROVE  Inv'
<1>1. /\ UNCHANGED <<hist, member, mem, notif, active, job, reapers, read>>
      /\ joined' \subseteq Clusters /\ down' \subseteq Clusters
      /\ pending' \subseteq Works /\ deferred' \subseteq Works
      /\ budget' \in Budgets
  <2>1. budget' \in Budgets
    BY BudgetOK DEF Inv, Fire, Join, ClusterDown, ClusterUp, vars
  <2>2. QED
    BY <2>1 DEF Inv, TypeOK, Q!SFTypeOK, Fire, Q!Fire, Join, ClusterDown,
                ClusterUp, vars, server, cluster, informer, workqueue
<1>2. TypeOK'
  BY <1>1 DEF Inv, TypeOK, Q!SFTypeOK, Budgets
<1>3. \A q \in Procs : SameJob(q)
  BY <1>1 DEF SameJob
<1>4. QED
  BY <1>1, <1>2, <1>3, JobsStep

-----------------------------------------------------------------------------
(* The goroutines of deleteExternalResources *)

LEMMA ReplaceOK ==
    ASSUME Inv, NEW r \in reapers, NEW x \in Reapers, NEW n,
           x.w = r.w, x.at = r.at, x.pc = "delete",
           n.m \in Nat, n.left \in SUBSET Clusters,
           n.m # 0 => InLoops([x EXCEPT !.m = n.m, !.left = n.left],
                              mem[r.w][r.at].spec),
           Replace(r, n, x)
    PROVE  /\ reapers' \subseteq Reapers
           /\ \A y \in reapers' : y \in reapers \/ ReaperFits(y, mem[y.w])
<1> DEFINE y == [x EXCEPT !.m = n.m, !.left = n.left]
<1>1. y \in Reapers /\ y.w = r.w /\ y.at = r.at /\ y.pc = "delete"
  BY DEF Reapers
<1>2. r.at \in 1..Len(mem[r.w]) /\ reapers \subseteq Reapers
  BY DEF Inv, TypeOK, WorksFromOneVersion, ReaperFits
<1>3. reapers' = (reapers \ {r}) \cup (IF n.m = 0 THEN {} ELSE {y})
  BY DEF Replace
<1>4. n.m # 0 => InLoops(y, mem[r.w][r.at].spec)
  OBVIOUS
<1> HIDE DEF y
<1>5. n.m # 0 => ReaperFits(y, mem[y.w])
  BY <1>1, <1>2, <1>4 DEF ReaperFits
<1>6. QED
  BY <1>1, <1>2, <1>3, <1>5

(* What a goroutine refers to. *)
LEMMA ReaperIn ==
    ASSUME Inv, NEW r \in reapers
    PROVE  /\ r \in Reapers /\ r.w \in Works /\ r.at \in 1..Len(mem[r.w])
           /\ mem[r.w][r.at].spec \in WorkSpecs
           /\ mem[r.w][r.at].spec.clusters \in SUBSET Clusters
           /\ mem[r.w][r.at].spec.manifests \in Seq(Manifests)
           /\ r.pc = "delete" => InLoops(r, mem[r.w][r.at].spec)
<1>1. /\ r \in Reapers /\ r.w \in Works /\ ReaperFits(r, mem[r.w])
  BY DEF Inv, TypeOK, Reapers, WorksFromOneVersion
<1>2. QED
  BY <1>1, VersionOK DEF Inv, ReaperFits

LEMMA ReaperStep ==
    ASSUME Inv, NEW r \in reapers, Reaper(r) PROVE Inv'
<1> DEFINE spec == mem[r.w][r.at].spec
<1>1. /\ r \in Reapers /\ r.w \in Works /\ r.at \in 1..Len(mem[r.w])
      /\ spec \in WorkSpecs /\ spec.clusters \in SUBSET Clusters
      /\ spec.manifests \in Seq(Manifests)
      /\ r.pc = "delete" => InLoops(r, spec)
  BY ReaperIn
<1>2. CASE ReaperClients(r)
  <2> DEFINE cs == ClusterClients(spec)
             x == [r EXCEPT !.pc = "delete", !.clients = cs,
                            !.nils = NilClients(spec)]
             n == First(cs, spec)
  <2>1. /\ cs \in SUBSET Clusters /\ cs \subseteq spec.clusters
        /\ NilClients(spec) \in SUBSET Clusters
    BY <1>1 DEF ClusterClients, NilClients
  <2>2. x \in Reapers /\ x.w = r.w /\ x.at = r.at /\ x.pc = "delete"
        /\ x.clients = cs
    BY <1>1, <2>1 DEF Reapers
  <2>3. Replace(r, n, x)
        /\ UNCHANGED <<server, cluster, informer, workqueue, job, read, budget>>
    BY <1>2, <2>2 DEF ReaperClients
  <2> HIDE DEF spec
  <2>4. /\ n.m \in Nat /\ n.left \in SUBSET Clusters
        /\ n.m # 0 => n.m \in 1..Len(spec.manifests) /\ n.left \subseteq cs
    BY <1>1, <2>1, FirstOK
  <2> HIDE DEF n, x, cs
  <2>5. n.m # 0 => InLoops([x EXCEPT !.m = n.m, !.left = n.left], spec)
    BY <2>1, <2>2, <2>4 DEF InLoops, Reapers
  <2>6. /\ reapers' \subseteq Reapers
        /\ \A y \in reapers' : y \in reapers \/ ReaperFits(y, mem[y.w])
    BY Zenon, <2>2, <2>3, <2>4, <2>5, ReplaceOK DEF spec
  <2>7. TypeOK'
    BY <2>3, <2>6
       DEF Inv, TypeOK, Q!SFTypeOK, server, cluster, informer, workqueue
  <2>8. (\A q \in Procs : SameJob(q)) /\ UNCHANGED <<hist, mem>>
    BY <2>3 DEF SameJob, workqueue, server, informer
  <2>9. QED
    BY <2>6, <2>7, <2>8, JobsStep
<1>3. ASSUME NEW c \in Clusters, ReaperDelete(r, c) PROVE Inv'
  <2> DEFINE o == spec.manifests[r.m].obj
             n == After(r, c, spec)
  <2>1. /\ r.pc = "delete" /\ Replace(r, n, r)
        /\ UNCHANGED <<server, down, informer, workqueue, read, budget>>
        /\ UNCHANGED <<member, job>> \/ WriteMember(None, c, o, None, NoJob)
    BY <1>3 DEF ReaperDelete
  <2>2. InLoops(r, spec) /\ r.left \in SUBSET Clusters
        /\ r.clients \in SUBSET Clusters
    BY <1>1, <2>1 DEF Reapers
  <2>3. o \in Objs
    <3>1. spec.manifests[r.m] \in Manifests
      BY <1>1, <2>2, ElementOfSeq DEF InLoops
    <3>2. QED
      BY <3>1 DEF Manifests
  <2> HIDE DEF spec
  <2>4. /\ n.m \in Nat /\ n.left \in SUBSET Clusters
        /\ n.m # 0 => /\ n.m \in 1..Len(spec.manifests)
                      /\ n.left \subseteq r.clients
    BY <1>1, <2>2, AfterOK
  <2> HIDE DEF n, o
  <2>5. n.m # 0 => InLoops([r EXCEPT !.m = n.m, !.left = n.left], spec)
    BY <1>1, <2>2, <2>4 DEF InLoops, Reapers
  <2>6. /\ reapers' \subseteq Reapers
        /\ \A y \in reapers' : y \in reapers \/ ReaperFits(y, mem[y.w])
    BY Zenon, <1>1, <2>1, <2>4, <2>5, ReplaceOK DEF spec
  <2>7. /\ member' \in [Clusters -> [Objs -> Vers \cup {None}]]
        /\ job' \in [Procs -> Jobs]
        /\ \A q \in Procs : SameJob(q)
    <3>1. CASE UNCHANGED <<member, job>>
      BY <2>1, <3>1 DEF Inv, TypeOK, SameJob, workqueue
    <3>2. CASE WriteMember(None, c, o, None, NoJob)
      BY <2>1, <2>3, <3>2, WriteOK, FinishOK, NoneElsewhere DEF workqueue
    <3>3. QED
      BY <2>1, <3>1, <3>2
  <2>8. TypeOK'
    BY <2>1, <2>6, <2>7
       DEF Inv, TypeOK, Q!SFTypeOK, server, informer, workqueue
  <2>9. UNCHANGED <<hist, mem>>
    BY <2>1 DEF server, informer
  <2>10. QED
    BY <2>6, <2>7, <2>8, <2>9, JobsStep
<1>4. QED
  BY <1>2, <1>3 DEF Reaper

-----------------------------------------------------------------------------
(* A restart, the initial state, and all together *)

LEMMA RestartStep ==
    ASSUME Inv, Crash \/ NilClient PROVE Inv'
<1>1. Restart /\ budget' \in Budgets
  <2>1. CASE Crash
    <3>1. Restart /\ budget' = [budget EXCEPT !.crashes = @ + 1]
      BY <2>1 DEF Crash
    <3>2. budget \in Budgets
      BY DEF Inv, TypeOK, Budgets
    <3>3. budget.crashes + 1 \in Nat
      BY <3>2 DEF Budgets
    <3>4. QED
      BY <3>1, <3>2, <3>3 DEF Budgets
  <2>2. CASE NilClient
    BY <2>2 DEF NilClient, Inv, TypeOK, Budgets
  <2>3. QED
    BY <2>1, <2>2
<1>2. /\ mem' = hist /\ hist' = hist /\ joined' = joined
      /\ member' = member /\ down' = down
      /\ pending' = {} /\ deferred' = {}
      /\ active' = [p \in Procs |-> None]
      /\ job' = [p \in Procs |-> NoJob]
      /\ reapers' = {}
      /\ read' = [w \in Works |-> 0]
  BY <1>1 DEF Restart, Q!Restart, server, cluster
<1>3. \A w \in Works : hist[w] \in Seq(Versions) /\ Len(hist[w]) \in Nat
  BY LenProperties DEF Inv, TypeOK
<1>4. notif' \in [Works -> Seq(Notifs)]
  <2> DEFINE N(w) == [kind |-> "add", old |-> 0, new |-> Len(hist[w])]
  <2>1. notif' = [w \in Works |-> IF Exists(w) THEN <<N(w)>> ELSE <<>>]
    BY <1>1 DEF Restart
  <2>2. \A w \in Works : N(w) \in Notifs
    BY Zenon, <1>3 DEF Notifs
  <2> HIDE DEF N
  <2>3. ASSUME NEW w \in Works
        PROVE  <<N(w)>> \in Seq(Notifs) /\ <<>> \in Seq(Notifs)
    <3> DEFINE n == N(w)
    <3>1. n \in Notifs
      BY <2>2
    <3> HIDE DEF n
    <3>2. <<n>> \in Seq(Notifs)
      BY <3>1
    <3>3. QED
      BY <3>2, EmptySeq DEF n
  <2>4. QED
    BY <2>1, <2>3
<1>5. TypeOK'
  BY <1>1, <1>2, <1>4, FinishOK DEF Inv, TypeOK, Q!SFTypeOK, Budgets
<1>6. \A w \in Works : CopyOf(mem'[w], hist'[w])
  BY <1>2, <1>3 DEF CopyOf
<1>7. ASSUME NEW p \in Procs PROVE Fits(p)'
  <2>1. job'[p] = NoJob /\ active'[p] = None
    BY <1>2
  <2>2. JobFits(NoJob, None, mem'[None], hist'[None])
    BY FinishOK DEF JobFits
  <2>3. QED
    BY <2>1, <2>2 DEF Fits
<1>8. QED
  BY <1>2, <1>5, <1>6, <1>7 DEF Inv, WorksFromOneVersion, Fits

LEMMA InitInv ==
    ASSUME Init PROVE Inv
<1>1. TypeOK
  <2>1. /\ hist \in [Works -> Seq(Versions)] /\ mem \in [Works -> Seq(Versions)]
        /\ notif \in [Works -> Seq(Notifs)]
    BY EmptySeq DEF Init
  <2>2. joined \subseteq Clusters /\ down \subseteq Clusters
        /\ member \in [Clusters -> [Objs -> Vers \cup {None}]]
    BY ConstantsOK DEF Init, ConstantsOK
  <2>3. job \in [Procs -> Jobs] /\ reapers \subseteq Reapers
        /\ read \in [Works -> Nat]
        /\ budget \in [ops : Nat, faults : Nat, crashes : Nat]
    BY FinishOK DEF Init
  <2>4. Q!SFTypeOK
    BY DEF Init, Q!SFInit, Q!SFTypeOK
  <2>5. QED
    BY <2>1, <2>2, <2>3, <2>4 DEF TypeOK
<1>2. \A w \in Works : CopyOf(mem[w], hist[w])
  <2>1. ASSUME NEW w \in Works PROVE mem[w] = <<>> /\ hist[w] = <<>>
    BY DEF Init
  <2>2. CopyOf(<<>>, <<>>)
    BY DEF CopyOf
  <2>3. QED
    BY Zenon, <2>1, <2>2
<1>3. ASSUME NEW p \in Procs PROVE Fits(p)
  <2>1. job[p] = NoJob /\ active[p] = None
    BY DEF Init, Q!SFInit
  <2>2. JobFits(NoJob, None, mem[None], hist[None])
    BY FinishOK DEF JobFits
  <2>3. QED
    BY <2>1, <2>2 DEF Fits
<1>4. QED
  BY <1>1, <1>2, <1>3 DEF Init, Inv, WorksFromOneVersion, Fits

LEMMA NextInv ==
    ASSUME Inv, [Next]_vars PROVE Inv'
<1>1. ASSUME NEW w \in Works, User(w) \/ Informer(w) \/ Fire(w) PROVE Inv'
  BY <1>1, UserStep, InformerStep, OutsideStep
<1>2. ASSUME NEW p \in Procs, Worker(p) PROVE Inv'
  <2>1. CASE Sync(p)
    BY <2>1, ReadStep, FinalizerStep DEF Sync
  <2>2. CASE SyncWork(p)
    BY <2>2, SyncClientsStep, SyncWriteStep, SyncGetStep DEF SyncWork
  <2>3. CASE Put(p) \/ Decode(p) \/ Fail(p) \/ Done(p)
    BY <2>3, PutStep, DecodeStep, EndStep
  <2>4. QED
    BY <1>2, <2>1, <2>2, <2>3 DEF Worker
<1>3. ASSUME NEW p \in Procs, NEW w \in Works, Begin(p, w) PROVE Inv'
  BY <1>3, BeginStep
<1>4. ASSUME NEW r \in reapers, Reaper(r) PROVE Inv'
  BY <1>4, ReaperStep
<1>5. ASSUME NEW c \in Clusters, Join(c) \/ ClusterDown(c) \/ ClusterUp(c)
      PROVE Inv'
  BY <1>5, OutsideStep
<1>6. CASE Crash \/ NilClient
  BY <1>6, RestartStep
<1>7. CASE UNCHANGED vars
  BY <1>7, OutsideStep
<1>8. QED
  BY <1>1, <1>2, <1>3, <1>4, <1>5, <1>6, <1>7 DEF Next

(* The variables of the controller and of everything around it hold what   *)
(* the Go types and the API say, whatever is written, lost or restarted.   *)
THEOREM TypeCorrect == Spec => []TypeOK
<1>1. Inv => TypeOK
  BY DEF Inv
<1>2. QED
  BY <1>1, InitInv, NextInv, PTL DEF Spec

(* No loop of syncWork or deleteExternalResources leaves the version of    *)
(* the Workload it started with, although the cache's objects are changed  *)
(* in place by Update's decoded response while the loops run.              *)
THEOREM OneVersion == Spec => []WorksFromOneVersion
<1>1. Inv => WorksFromOneVersion
  BY DEF Inv
<1>2. QED
  BY <1>1, InitInv, NextInv, PTL DEF Spec

-----------------------------------------------------------------------------
(* The objects in memory *)

(* Sequences that only grow. *)
Grows(s, t) == Len(s) <= Len(t) /\ \A n \in 1..Len(s) : t[n] = s[n]

LEMMA GrowsSelf == ASSUME NEW s \in Seq(Versions) PROVE Grows(s, s)
BY LenProperties DEF Grows

LEMMA AppendAny ==
    ASSUME NEW s \in Seq(Versions), NEW x
    PROVE  /\ Grows(s, Append(s, x))
           /\ Len(Append(s, x)) = Len(s) + 1 /\ Append(s, x)[Len(s) + 1] = x
<1>1. Len(s) \in Nat
  BY LenProperties
<1>2. s \in Seq(Versions \cup {x})
  <2>1. s \in [1..Len(s) -> Versions]
    BY LenProperties
  <2>2. QED
    BY <1>1, <2>1, SeqDef
<1>3. /\ Len(Append(s, x)) = Len(s) + 1 /\ Append(s, x)[Len(s) + 1] = x
      /\ \A n \in 1..Len(s) : Append(s, x)[n] = s[n]
  BY <1>2, AppendProperties
<1>4. QED
  BY <1>1, <1>3 DEF Grows

(* No step takes back a version or changes it. *)
LEMMA StoreGrows ==
    ASSUME TypeOK, NEW w \in Works, NEW v, Store(w, v)
    PROVE  /\ \A x \in Works : Grows(hist[x], hist'[x])
           /\ \A x \in Works \ {w} : hist'[x] = hist[x]
           /\ Len(hist'[w]) = Len(hist[w]) + 1
           /\ hist'[w][Len(hist[w]) + 1] = [v EXCEPT !.rv = Len(hist[w]) + 1]
<1> DEFINE u == [v EXCEPT !.rv = Len(hist[w]) + 1]
<1>1. hist' = [hist EXCEPT ![w] = Append(hist[w], u)]
  BY DEF Store
<1>2. \A x \in Works : hist[x] \in Seq(Versions)
  BY DEF TypeOK
<1> HIDE DEF u
<1>3. hist'[w] = Append(hist[w], u) /\ \A x \in Works \ {w} : hist'[x] = hist[x]
  BY <1>1 DEF TypeOK
<1>4. /\ Grows(hist[w], Append(hist[w], u))
      /\ Len(Append(hist[w], u)) = Len(hist[w]) + 1
      /\ Append(hist[w], u)[Len(hist[w]) + 1] = u
  BY <1>2, AppendAny
<1>5. QED
  BY <1>2, <1>3, <1>4, GrowsSelf DEF u

LEMMA HistoryMoves ==
    ASSUME [Next]_vars
    PROVE  UNCHANGED hist \/ (\E w \in Works : User(w)) \/ \E p \in Procs : Put(p)
<1>1. ASSUME NEW w \in Works, Informer(w) \/ Fire(w) PROVE UNCHANGED hist
  BY <1>1 DEF Informer, Deliver, Resync, Handle, Fire, server
<1>2. ASSUME NEW p \in Procs, Worker(p), ~Put(p) PROVE UNCHANGED hist
  <2>1. CASE Sync(p)
    BY <2>1 DEF Sync, SyncNotFound, SyncAddFinalizer, SyncRemoveFinalizer,
                SyncApply, Reads, server
  <2>2. CASE SyncWork(p)
    BY Zenon, <2>2 DEF SyncWork, SyncClients, SyncCreate, SyncUpdate, SyncGet, server
  <2>3. CASE Decode(p) \/ Fail(p) \/ Done(p)
    BY <2>3 DEF Decode, Fail, Done, server
  <2>4. QED
    BY <1>2, <2>1, <2>2, <2>3 DEF Worker
<1>3. ASSUME NEW p \in Procs, NEW w \in Works, Begin(p, w) PROVE UNCHANGED hist
  BY <1>3 DEF Begin, server
<1>4. ASSUME NEW r \in reapers, Reaper(r) PROVE UNCHANGED hist
  BY Zenon, <1>4 DEF Reaper, ReaperClients, ReaperDelete, server
<1>5. ASSUME NEW c \in Clusters, Join(c) \/ ClusterDown(c) \/ ClusterUp(c)
      PROVE  UNCHANGED hist
  BY <1>5 DEF Join, ClusterDown, ClusterUp, server
<1>6. CASE Crash \/ NilClient \/ UNCHANGED vars
  BY <1>6 DEF Crash, NilClient, Restart, vars, server
<1>7. QED
  BY <1>1, <1>2, <1>3, <1>4, <1>5, <1>6 DEF Next

LEMMA HistoryGrows ==
    ASSUME Inv, [Next]_vars
    PROVE  \A w \in Works : Grows(hist[w], hist'[w])
<1>1. CASE UNCHANGED hist
  BY <1>1, GrowsSelf DEF Inv, TypeOK
<1>2. ASSUME NEW w \in Works, User(w)
      PROVE  \A x \in Works : Grows(hist[x], hist'[x])
  BY Zenon, <1>2, StoreGrows DEF Inv, User, Create, Edit, Delete
<1>3. ASSUME NEW p \in Procs, Put(p)
      PROVE  \A x \in Works : Grows(hist[x], hist'[x])
  <2>1. active[p] \in Works
    BY <1>3, ActiveOK DEF Put
  <2>2. PutAccepted(active[p], mem[active[p]][job[p].at]) \/ UNCHANGED hist
    BY Zenon, <1>3 DEF Put
  <2>3. QED
    BY <1>1, <2>1, <2>2, StoreGrows DEF Inv, PutAccepted
<1>4. QED
  BY <1>1, <1>2, <1>3, HistoryMoves

-----------------------------------------------------------------------------
(* What a worker is about to write is what its version assigns. *)

Assigned(h, c, o, x) ==
    \E w \in Works : \E n \in 1..Len(h[w]) : Assigns(h[w][n], c, o, x)

LEMMA WriteAssigned ==
    ASSUME Inv, NEW p \in Procs, job[p].pc \in {"create", "update"}
    PROVE  /\ job[p].c \in Clusters /\ Manifest(p).obj \in Objs
           /\ Manifest(p).ver \in Vers
           /\ Assigned(hist, job[p].c, Manifest(p).obj, Manifest(p).ver)
<1> DEFINE w == active[p]
           n == job[p].at
           i == job[p].m
<1>1. /\ w \in Works /\ job[p] \in Jobs /\ n \in 1..Len(mem[w])
      /\ mem[w][n].spec \in WorkSpecs /\ InLoops(job[p], mem[w][n].spec)
      /\ Manifest(p) \in Manifests
      /\ Manifest(p) = mem[w][n].spec.manifests[i]
  BY LoopOK
<1>2. job[p].c \in job[p].left
  BY ActiveOK DEF Fits, JobFits
<1>3. /\ n \in 1..Len(hist[w]) /\ hist[w][n].spec = mem[w][n].spec
  <2>1. CopyOf(mem[w], hist[w]) /\ mem[w] \in Seq(Versions)
        /\ hist[w] \in Seq(Versions)
    BY <1>1 DEF Inv, TypeOK, WorksFromOneVersion
  <2>2. Len(mem[w]) \in Nat /\ Len(hist[w]) \in Nat
    BY <2>1, LenProperties
  <2>3. /\ Len(mem[w]) <= Len(hist[w])
        /\ \A m \in 1..Len(mem[w]) : mem[w][m].spec = hist[w][m].spec
    BY <2>1 DEF CopyOf
  <2>4. n \in 1..Len(mem[w])
    BY <1>1
  <2> HIDE DEF w, n
  <2>5. n \in 1..Len(hist[w])
    BY <2>2, <2>3, <2>4
  <2>6. QED
    BY <2>3, <2>4, <2>5
<1>4. /\ job[p].c \in hist[w][n].spec.clusters
      /\ i \in 1..Len(hist[w][n].spec.manifests)
      /\ hist[w][n].spec.manifests[i] = Manifest(p)
  BY <1>1, <1>2, <1>3 DEF InLoops
<1>5. Assigns(hist[w][n], job[p].c, Manifest(p).obj, Manifest(p).ver)
  BY ZenonT(30), <1>4 DEF Assigns
<1>6. job[p].c \in Clusters /\ Manifest(p).obj \in Objs /\ Manifest(p).ver \in Vers
  BY Zenon, <1>1, <1>2 DEF Jobs, Manifests
<1>7. QED
  BY Zenon, <1>1, <1>3, <1>5, <1>6 DEF Assigned

(* A goroutine of deleteExternalResources is about to delete object o from *)
(* cluster c.                                                              *)
Reaps(r, c, o) ==
    /\ r.pc = "delete" /\ c \in r.left
    /\ o = mem[r.w][r.at].spec.manifests[r.m].obj

(* A step leaves the member clusters alone; or, the versions being as they *)
(* were, one object of one cluster becomes what some version assigns, or   *)
(* none if a goroutine deletes it.                                         *)
Writes(c, o, x) ==
    UNCHANGED hist /\ member' = [member EXCEPT ![c][o] = x]

LEMMA OneWrite ==
    ASSUME Inv, [Next]_vars
    PROVE  \/ UNCHANGED member
           \/ \E c \in Clusters, o \in Objs, x \in Vers :
                 Assigned(hist, c, o, x) /\ Writes(c, o, x)
           \/ \E r \in reapers, c \in Clusters, o \in Objs :
                 Reaps(r, c, o) /\ Writes(c, o, None)
<1> DEFINE Goal ==
             \/ UNCHANGED member
             \/ \E c \in Clusters, o \in Objs, x \in Vers :
                   Assigned(hist, c, o, x) /\ Writes(c, o, x)
             \/ \E r \in reapers, c \in Clusters, o \in Objs :
                   Reaps(r, c, o) /\ Writes(c, o, None)
<1>2. ASSUME NEW p \in Procs, SyncCreate(p) \/ SyncUpdate(p) PROVE Goal
  <2>1. /\ job[p].pc \in {"create", "update"}
        /\ UNCHANGED hist
        /\ \/ UNCHANGED member
           \/ Writes(job[p].c, Manifest(p).obj, Manifest(p).ver)
    <3>1. CASE SyncCreate(p)
      BY <3>1 DEF SyncCreate, WriteMember, Writes, server
    <3>2. CASE SyncUpdate(p)
      BY <3>2 DEF SyncUpdate, WriteMember, Writes, server
    <3>3. QED
      BY <1>2, <3>1, <3>2
  <2>2. QED
    BY Zenon, <2>1, WriteAssigned
<1>3. ASSUME NEW r \in reapers, NEW d \in Clusters, ReaperDelete(r, d)
      PROVE  Goal
  <2> DEFINE q == mem[r.w][r.at].spec.manifests[r.m].obj
  <2>1. /\ r.pc = "delete" /\ d \in r.left
        /\ UNCHANGED hist
        /\ UNCHANGED member \/ WriteMember(None, d, q, None, NoJob)
    BY <1>3 DEF ReaperDelete, server
  <2>2. q \in Objs
    <3>1. mem[r.w][r.at].spec.manifests[r.m] \in Manifests
      BY Zenon, <2>1, ReaperIn, ElementOfSeq DEF InLoops
    <3>2. QED
      BY <3>1 DEF Manifests
  <2>3. Reaps(r, d, q)
    BY <2>1 DEF Reaps
  <2> HIDE DEF q
  <2>4. UNCHANGED member \/ Writes(d, q, None)
    BY Zenon, <2>1 DEF WriteMember, Writes
  <2>5. QED
    BY Zenon, <2>1, <2>2, <2>3, <2>4
<1>4. ASSUME NEW w \in Works, User(w) \/ Informer(w) \/ Fire(w)
      PROVE  UNCHANGED member
  BY Zenon, <1>4 DEF User, Create, Edit, Delete, Informer, Deliver, Resync, Handle,
              Fire, cluster
<1>5. ASSUME NEW p \in Procs, Worker(p), ~SyncCreate(p), ~SyncUpdate(p)
      PROVE  UNCHANGED member
  <2>1. CASE Sync(p)
    BY <2>1 DEF Sync, SyncNotFound, SyncAddFinalizer, SyncRemoveFinalizer,
                SyncApply, Reads, cluster
  <2>2. CASE SyncWork(p)
    BY Zenon, <1>5, <2>2 DEF SyncWork, SyncClients, SyncGet, cluster
  <2>3. CASE Put(p) \/ Decode(p) \/ Fail(p) \/ Done(p)
    BY <2>3 DEF Put, Decode, Fail, Done, cluster
  <2>4. QED
    BY <1>5, <2>1, <2>2, <2>3 DEF Worker
<1>6. ASSUME NEW p \in Procs, NEW w \in Works, Begin(p, w)
      PROVE  UNCHANGED member
  BY <1>6 DEF Begin, cluster
<1>7. ASSUME NEW r \in reapers, ReaperClients(r) PROVE UNCHANGED member
  BY <1>7 DEF ReaperClients, cluster
<1>8. ASSUME NEW d \in Clusters, Join(d) \/ ClusterDown(d) \/ ClusterUp(d)
      PROVE  UNCHANGED member
  BY <1>8 DEF Join, ClusterDown, ClusterUp, cluster
<1>9. ASSUME Crash \/ NilClient \/ UNCHANGED vars PROVE UNCHANGED member
  BY <1>9 DEF Crash, NilClient, Restart, vars, cluster
<1> HIDE DEF Goal
<1>10. UNCHANGED member => Goal
  BY DEF Goal
<1>11. ASSUME NEW p \in Procs, Worker(p) PROVE Goal
  BY <1>2, <1>5, <1>10, <1>11
<1>12. ASSUME NEW r \in reapers, Reaper(r) PROVE Goal
  BY <1>3, <1>7, <1>10, <1>12 DEF Reaper
<1>13. Goal
  BY <1>4, <1>6, <1>8, <1>9, <1>10, <1>11, <1>12 DEF Next
<1>14. QED
  BY <1>13 DEF Goal

LEMMA WriteOne ==
    ASSUME TypeOK, NEW c \in Clusters, NEW o \in Objs, NEW x,
           member' = [member EXCEPT ![c][o] = x],
           NEW d \in Clusters, NEW q \in Objs
    PROVE  member'[d][q] = IF d = c /\ q = o THEN x ELSE member[d][q]
BY DEF TypeOK

(* So of every object. *)
LEMMA MemberStep ==
    ASSUME Inv, [Next]_vars, NEW c \in Clusters, NEW o \in Objs
    PROVE  \/ member'[c][o] = member[c][o]
           \/ member'[c][o] # None /\ Assigned(hist, c, o, member'[c][o])
           \/ member'[c][o] = None /\ \E r \in reapers : Reaps(r, c, o)
<1>1. CASE UNCHANGED member
  BY <1>1
<1>2. ASSUME NEW d \in Clusters, NEW q \in Objs, NEW x \in Vers,
             Assigned(hist, d, q, x), Writes(d, q, x)
      PROVE  \/ member'[c][o] = member[c][o]
             \/ member'[c][o] # None /\ Assigned(hist, c, o, member'[c][o])
  BY <1>2, WriteOne, NoneElsewhere DEF Inv, Writes
<1>3. ASSUME NEW r \in reapers, NEW d \in Clusters, NEW q \in Objs,
             Reaps(r, d, q), Writes(d, q, None)
      PROVE  \/ member'[c][o] = member[c][o]
             \/ member'[c][o] = None /\ Reaps(r, c, o)
  BY <1>3, WriteOne DEF Inv, Writes
<1>4. QED
  BY <1>1, <1>2, <1>3, OneWrite

LEMMA AssignedStays ==
    ASSUME Inv, Inv', [Next]_vars, NEW c, NEW o, NEW x, Assigned(hist, c, o, x)
    PROVE  Assigned(hist', c, o, x)
<1>0. PICK w \in Works : \E n \in 1..Len(hist[w]) : Assigns(hist[w][n], c, o, x)
  BY DEF Assigned
<1>1. PICK n \in 1..Len(hist[w]) : Assigns(hist[w][n], c, o, x)
  BY <1>0
<1>2. hist[w] \in Seq(Versions) /\ hist'[w] \in Seq(Versions)
      /\ Grows(hist[w], hist'[w])
  BY HistoryGrows DEF Inv, TypeOK
<1>3. Len(hist[w]) \in Nat /\ Len(hist'[w]) \in Nat
  BY <1>2, LenProperties
<1>4. n \in 1..Len(hist'[w]) /\ hist'[w][n].spec = hist[w][n].spec
  BY <1>2, <1>3 DEF Grows
<1>5. Assigns(hist'[w][n], c, o, x)
  BY <1>1, <1>4 DEF Assigns
<1>6. QED
  BY <1>4, <1>5 DEF Assigned

(* No member cluster ever has content that no version of a Workload        *)
(* assigned to it, whatever workers, goroutines, outages and restarts      *)
(* interleave.                                                             *)
THEOREM MembersCorrect == Spec => []MembersOnlyFromSpecs
<1> DEFINE MInv == Inv /\ MembersOnlyFromSpecs
<1>1. Init => MInv
  BY InitInv DEF Init, MembersOnlyFromSpecs
<1>2. MInv /\ [Next]_vars => MInv'
  <2>1. SUFFICES ASSUME MInv, [Next]_vars PROVE MInv'
    OBVIOUS
  <2>2. Inv'
    BY <2>1, NextInv
  <2>3. ASSUME NEW c \in Clusters, NEW o \in Objs, member'[c][o] # None
        PROVE  Assigned(hist', c, o, member'[c][o])
    <3>1. Assigned(hist, c, o, member'[c][o])
      <4>1. member'[c][o] = member[c][o] \/ Assigned(hist, c, o, member'[c][o])
        BY <2>1, <2>3, MemberStep
      <4>2. member[c][o] # None => Assigned(hist, c, o, member[c][o])
        BY <2>1 DEF MembersOnlyFromSpecs, Assigned
      <4>3. QED
        BY <2>3, <4>1, <4>2
    <3>2. QED
      BY <2>1, <2>2, <3>1, AssignedStays
  <2>4. MembersOnlyFromSpecs'
    BY <2>3 DEF MembersOnlyFromSpecs, Assigned
  <2>5. QED
    BY <2>2, <2>4
<1>3. MInv => MembersOnlyFromSpecs
  OBVIOUS
<1>4. QED
  BY <1>1, <1>2, <1>3, PTL DEF Spec
-----------------------------------------------------------------------------
(* The objects in memory *)

(* What users write of a version, and that it is the removal: an object in *)
(* memory keeps these, whatever is written to it in place.                 *)
Alike(o, v) == o.spec = v.spec /\ o.del = v.del /\ o.gone = v.gone

(* The object that version n of h was delivered as: if it is sent, that is *)
(* accepted only upon a version that is as much deleted as it is.          *)
ObjectOK(o, h, n) ==
    /\ Alike(o, h[n])
    /\ o.rv \in 1..Len(h)
    /\ h[o.rv].del = o.del

(* A worker that sends an object, or awaits the response. *)
PutOK(j, ms, hs) ==
    /\ j.pc \in {"put", "decode"} => ~ms[j.at].gone
    /\ j.pc = "decode" => hs[j.to].del = ms[j.at].del

RvOK == \A w \in Works : \A n \in 1..Len(hist[w]) : hist[w][n].rv = n

ObjectsOK ==
    \A w \in Works : \A n \in 1..Len(mem[w]) : ObjectOK(mem[w][n], hist[w], n)

Puts(p) == PutOK(job[p], mem[active[p]], hist[active[p]])

(* Only of a Workload that is being deleted. *)
ReapersOK == \A r \in reapers : mem[r.w][r.at].del

OInv == Inv /\ RvOK /\ ObjectsOK /\ (\A p \in Procs : Puts(p)) /\ ReapersOK

LEMMA Lengths ==
    ASSUME Inv, NEW w \in Works
    PROVE  /\ mem[w] \in Seq(Versions) /\ hist[w] \in Seq(Versions)
           /\ Len(mem[w]) \in Nat /\ Len(hist[w]) \in Nat
           /\ Len(mem[w]) <= Len(hist[w])
BY LenProperties DEF Inv, TypeOK, WorksFromOneVersion, CopyOf

SamePut(p) ==
    /\ active'[p] = active[p] /\ job'[p].pc = job[p].pc
    /\ job'[p].at = job[p].at /\ job'[p].to = job[p].to

(* Objects that were there are only changed in place, and not in what      *)
(* users write.                                                            *)
MemoryKept ==
    \A w \in Works :
        /\ Len(mem[w]) <= Len(mem'[w])
        /\ \A n \in 1..Len(mem[w]) : Alike(mem'[w][n], mem[w][n])

ObjectStep(w, n) ==
    \/ /\ n \in 1..Len(mem[w])
       /\ Alike(mem'[w][n], mem[w][n]) /\ mem'[w][n].rv = mem[w][n].rv
    \/ ObjectOK(mem'[w][n], hist'[w], n)

LEMMA ObjectsKept ==
    ASSUME OInv, Inv', RvOK',
           \A w \in Works : Grows(hist[w], hist'[w]),
           MemoryKept,
           \A w \in Works : \A n \in 1..Len(mem'[w]) : ObjectStep(w, n),
           \A p \in Procs : SamePut(p) \/ Puts(p)',
           \A r \in reapers' : \/ \E s \in reapers : s.w = r.w /\ s.at = r.at
                               \/ mem'[r.w][r.at].del
    PROVE  OInv'
<1>1. ASSUME NEW w \in Works, NEW n \in 1..Len(mem'[w])
      PROVE  ObjectOK(mem'[w][n], hist'[w], n)
  <2>1. /\ Len(mem[w]) \in Nat /\ Len(hist[w]) \in Nat /\ Len(hist'[w]) \in Nat
        /\ Len(mem[w]) <= Len(hist[w]) /\ Grows(hist[w], hist'[w])
    BY Lengths, LenProperties DEF OInv, Inv, TypeOK
  <2>2. CASE /\ n \in 1..Len(mem[w])
             /\ Alike(mem'[w][n], mem[w][n]) /\ mem'[w][n].rv = mem[w][n].rv
    <3>1. ObjectOK(mem[w][n], hist[w], n)
      BY <2>2 DEF OInv, ObjectsOK
    <3>2. n \in 1..Len(hist[w]) /\ hist'[w][n] = hist[w][n]
      BY <2>1, <2>2 DEF Grows
    <3>3. \A i \in 1..Len(hist[w]) : i \in 1..Len(hist'[w])
                                     /\ hist'[w][i] = hist[w][i]
      BY <2>1 DEF Grows
    <3>4. QED
      BY <2>2, <3>1, <3>2, <3>3 DEF ObjectOK, Alike
  <2>3. QED
    BY <2>2 DEF ObjectStep
<1>2. ASSUME NEW p \in Procs PROVE Puts(p)'
  <2>1. CASE SamePut(p) /\ job[p].pc \in {"put", "decode"}
    <3>1. PICK w, j : w = active[p] /\ j = job[p]
      OBVIOUS
    <3>2. w \in Works /\ Fits(p) /\ PutOK(j, mem[w], hist[w])
      BY <2>1, <3>1, ActiveOK DEF OInv, Puts
    <3>3. /\ j.at \in 1..Len(mem[w])
          /\ j.pc = "decode" => j.to \in 1..Len(hist[w])
      BY <2>1, <3>1, <3>2 DEF Fits, JobFits
    <3>4. Alike(mem'[w][j.at], mem[w][j.at])
      BY <3>2, <3>3 DEF MemoryKept
    <3>5. j.pc = "decode" => hist'[w][j.to] = hist[w][j.to]
      BY <3>2, <3>3 DEF Grows
    <3>6. PutOK(job'[p], mem'[w], hist'[w])
      BY <2>1, <3>1, <3>2, <3>4, <3>5 DEF PutOK, Alike, SamePut
    <3>7. QED
      BY <2>1, <3>1, <3>6 DEF SamePut, Puts
  <2>2. CASE SamePut(p) /\ job[p].pc \notin {"put", "decode"}
    BY <2>2 DEF SamePut, Puts, PutOK
  <2>3. QED
    BY <2>1, <2>2
<1>3. ASSUME NEW r \in reapers' PROVE mem'[r.w][r.at].del
  <2>1. CASE \E s \in reapers : s.w = r.w /\ s.at = r.at
    <3>1. PICK s \in reapers : s.w = r.w /\ s.at = r.at
      BY <2>1
    <3>2. s.w \in Works /\ s.at \in 1..Len(mem[s.w]) /\ mem[s.w][s.at].del
      BY ReaperIn DEF OInv, ReapersOK
    <3>3. QED
      BY <3>1, <3>2 DEF MemoryKept, Alike
  <2>2. QED
    BY <2>1
<1>4. QED
  BY <1>1, <1>2, <1>3 DEF OInv, ObjectsOK, ReapersOK

LEMMA MemorySame ==
    ASSUME UNCHANGED mem, Inv
    PROVE  MemoryKept /\ \A w \in Works : \A n \in 1..Len(mem'[w]) : ObjectStep(w, n)
<1>1. \A w \in Works : mem'[w] = mem[w] /\ Len(mem[w]) \in Nat
  BY Lengths
<1>2. QED
  BY <1>1 DEF MemoryKept, ObjectStep, Alike

LEMMA StoredRv ==
    ASSUME OInv, NEW w \in Works, NEW v, v.rv = v.rv,
           v \in [spec : {v.spec}, fin : {v.fin}, del : {v.del},
                  gone : {v.gone}, rv : {v.rv}, by : {v.by}],
           Store(w, v)
    PROVE  /\ \A x \in Works : Grows(hist[x], hist'[x])
           /\ RvOK'
           /\ Len(hist'[w]) = Len(hist[w]) + 1
           /\ hist'[w][Len(hist[w]) + 1].del = v.del
<1> DEFINE n == Len(hist[w]) + 1
           u == [v EXCEPT !.rv = n]
<1>1. /\ \A x \in Works : Grows(hist[x], hist'[x])
      /\ \A x \in Works \ {w} : hist'[x] = hist[x]
      /\ Len(hist'[w]) = n
      /\ hist'[w][n] = u
  BY StoreGrows DEF OInv, Inv
<1>2. u.rv = n /\ u.del = v.del
  OBVIOUS
<1> HIDE DEF u
<1>3. Len(hist[w]) \in Nat
  BY Lengths DEF OInv
<1>4. ASSUME NEW i \in 1..Len(hist'[w]) PROVE hist'[w][i].rv = i
  <2>1. CASE i = n
    BY <1>1, <1>2, <2>1
  <2>2. CASE i \in 1..Len(hist[w])
    BY <1>1, <2>2 DEF Grows, OInv, RvOK
  <2>3. QED
    BY <1>1, <1>3, <2>1, <2>2
<1>5. RvOK'
  BY <1>1, <1>4 DEF OInv, RvOK
<1>6. QED
  BY <1>1, <1>2, <1>5

LEMMA VersionRecord ==
    ASSUME NEW v \in Versions
    PROVE  v \in [spec : {v.spec}, fin : {v.fin}, del : {v.del},
                  gone : {v.gone}, rv : {v.rv}, by : {v.by}]
BY DEF Versions

(* Steps that write no version and no object in memory, and neither send   *)
(* an object nor await a response.                                         *)
Calm(p) == SamePut(p) \/ job'[p].pc \notin {"put", "decode"}

LEMMA OneMoves ==
    ASSUME Inv, NEW p \in Procs, NEW j, job' = [job EXCEPT ![p] = j],
           j.pc \notin {"put", "decode"},
           \A q \in Procs \ {p} : active'[q] = active[q]
    PROVE  \A q \in Procs : Calm(q)
BY DEF Inv, TypeOK, Calm, SamePut

LEMMA SameIsCalm ==
    ASSUME Inv, NEW p \in Procs, SameJob(p) PROVE Calm(p)
<1>1. job[p] \in Jobs
  BY ActiveOK
<1>2. QED
  BY <1>1 DEF SameJob, Calm, SamePut, Jobs

LEMMA GoOnPlace ==
    ASSUME NEW p, NEW n, job[p] \in Jobs
    PROVE  /\ GoOn(p, n).pc \in {"done", "get"}
           /\ Written(p, GoOn(p, n)).pc = GoOn(p, n).pc
<1>1. GoOn(p, n) = Finish(TRUE) \/ GoOn(p, n).pc = "get"
  BY DEF GoOn, Jobs
<1>2. GoOn(p, n).pc \in {"done", "get"}
  BY <1>1, FinishOK
<1> DEFINE g == GoOn(p, n)
<1> HIDE DEF g
<1>3. Written(p, g).pc = g.pc
  BY DEF Written
<1>4. QED
  BY <1>2, <1>3 DEF g

LEMMA WorkIsCalm ==
    ASSUME Inv, NEW p \in Procs, SyncWork(p) PROVE \A q \in Procs : Calm(q)
<1>1. job[p] \in Jobs /\ active' = active
  BY Zenon, ActiveOK DEF SyncWork, SyncClients, SyncCreate, SyncUpdate, SyncGet, workqueue
<1>2. CASE SyncClients(p)
  <2> DEFINE spec == mem[active[p]][job[p].at].spec
             n == First(ClusterClients(spec), spec)
             g == [job[p] EXCEPT
                      !.pc = "get", !.m = n.m, !.left = n.left, !.c = None,
                      !.clients = ClusterClients(spec),
                      !.nils = NilClients(spec),
                      !.uid = spec.manifests[n.m].uid]
             j == IF n.m = 0 THEN Finish(TRUE) ELSE g
  <2>1. job' = [job EXCEPT ![p] = j]
    BY Zenon, <1>2 DEF SyncClients
  <2> HIDE DEF n, spec
  <2>2. g.pc = "get"
    BY <1>1 DEF Jobs
  <2> HIDE DEF g
  <2>3. j.pc \notin {"put", "decode"}
    BY <2>2, FinishOK
  <2> HIDE DEF j
  <2>4. QED
    BY Zenon, <1>1, <2>1, <2>3, OneMoves
<1>3. ASSUME NEW c \in Clusters, SyncGet(p, c) PROVE \A q \in Procs : Calm(q)
  <2> DEFINE g == GoOn(p, After(job[p], c, mem[active[p]][job[p].at].spec))
             place == IF member[c][Manifest(p).obj] = None THEN "create"
                      ELSE "update"
             h == [job[p] EXCEPT !.pc = place, !.c = c, !.fresh = TRUE]
  <2>1. PICK j : job' = [job EXCEPT ![p] = j] /\ j \in {g, h}
    BY <1>3 DEF SyncGet
  <2>2. g.pc \in {"done", "get"}
    BY <1>1, GoOnPlace
  <2>3. place \in {"create", "update"}
    OBVIOUS
  <2> HIDE DEF place, g
  <2>4. h.pc = place
    BY <1>1 DEF Jobs
  <2> HIDE DEF h
  <2>5. QED
    BY <1>1, <2>1, <2>2, <2>3, <2>4, OneMoves
<1>4. CASE SyncCreate(p) \/ SyncUpdate(p)
  <2> DEFINE g == NextCluster(p)
             h == Written(p, g)
             r == [job[p] EXCEPT !.pc = "get", !.fresh = FALSE,
                                 !.tries = job[p].tries + 1]
             v == Manifest(p).ver
             o == Manifest(p).obj
             c == job[p].c
  <2>1. /\ job[p].pc \in {"create", "update"}
        /\ \/ WriteMember(p, c, o, v, h)
           \/ job' = [job EXCEPT ![p] = g]
           \/ job' = [job EXCEPT ![p] = r]
    BY <1>1, <1>4 DEF SyncCreate, SyncUpdate, Inv, TypeOK
  <2>2. g.pc \in {"done", "get"} /\ h.pc = g.pc
    BY <1>1, GoOnPlace DEF NextCluster
  <2>3. r.pc = "get"
    BY <1>1 DEF Jobs
  <2> HIDE DEF g, h, r, v, o, c
  <2>4. CASE WriteMember(p, c, o, v, h)
    <3>1. ASSUME NEW q \in Procs \ {p} PROVE Calm(q)
      <4>1. SameJob(q)
        BY <1>1, <2>4 DEF WriteMember, SameJob
      <4>2. QED
        BY <4>1, SameIsCalm
    <3>2. Calm(p)
      BY <2>2, <2>4 DEF WriteMember, Calm
    <3>3. QED
      BY <3>1, <3>2
  <2>5. QED
    BY <1>1, <2>1, <2>2, <2>3, <2>4, OneMoves
<1>5. QED
  BY <1>2, <1>3, <1>4 DEF SyncWork

(* A step that leaves versions and objects as they are. *)
LEMMA StillStep ==
    ASSUME OInv, [Next]_vars, UNCHANGED <<hist, mem>>,
           \A p \in Procs : Calm(p),
           \A r \in reapers' : \E s \in reapers : s.w = r.w /\ s.at = r.at
    PROVE  OInv'
<1>1. Inv /\ Inv'
  BY NextInv DEF OInv
<1>2. RvOK'
  BY DEF OInv, RvOK
<1>3. \A w \in Works : Grows(hist[w], hist'[w])
  BY <1>1, HistoryGrows
<1>4. MemoryKept /\ \A w \in Works : \A n \in 1..Len(mem'[w]) : ObjectStep(w, n)
  BY <1>1, MemorySame
<1>5. \A p \in Procs : SamePut(p) \/ Puts(p)'
  BY DEF Calm, Puts, PutOK
<1>6. QED
  BY <1>1, <1>2, <1>3, <1>4, <1>5, ObjectsKept

LEMMA SameReapers ==
    ASSUME UNCHANGED reapers
    PROVE  \A r \in reapers' : \E s \in reapers : s.w = r.w /\ s.at = r.at
OBVIOUS

LEMMA StillJobs ==
    ASSUME Inv, UNCHANGED <<active, job>> PROVE \A p \in Procs : Calm(p)
BY DEF Calm, SamePut

LEMMA InformerKeeps ==
    ASSUME OInv, [Next]_vars, NEW w \in Works, Informer(w) \/ Fire(w)
    PROVE  OInv'
<1>1. Inv /\ Inv'
  BY NextInv DEF OInv
<1>2. UNCHANGED <<hist, active, job, reapers>>
  BY DEF Informer, Deliver, Resync, Handle, Fire, server, workqueue,
         Q!Request, Q!Fire
<1>3. CASE Resync(w) \/ Handle(w) \/ Fire(w)
  <2>1. UNCHANGED mem
    BY <1>3 DEF Resync, Handle, Fire, informer
  <2>2. QED
    BY <1>1, <1>2, <2>1, StillStep, SameReapers, StillJobs
<1>4. CASE Deliver(w)
  <2> DEFINE n == Newest(w) + 1
             v == hist[w][n]
  <2>1. mem' = [mem EXCEPT ![w] = Append(mem[w], v)] /\ Newest(w) < Len(hist[w])
    BY <1>4 DEF Deliver
  <2>2. /\ mem[w] \in Seq(Versions) /\ Newest(w) \in Nat /\ n \in 1..Len(hist[w])
        /\ v \in Versions /\ Newest(w) = Len(mem[w])
    BY <1>1, <2>1, Lengths, ElementOfSeq DEF Newest
  <2>3. ObjectOK(v, hist[w], n)
    BY <2>2 DEF OInv, RvOK, ObjectOK, Alike
  <2> HIDE DEF v
  <2>4. /\ mem'[w] = Append(mem[w], v)
        /\ \A x \in Works \ {w} : mem'[x] = mem[x]
    BY <1>1, <2>1 DEF Inv, TypeOK
  <2>5. /\ Len(mem'[w]) = n /\ mem'[w][n] = v
        /\ \A i \in 1..Len(mem[w]) : mem'[w][i] = mem[w][i]
    BY <2>2, <2>4, AppendKeeps
  <2>6. MemoryKept
    <3>1. \A x \in Works : Len(mem[x]) \in Nat
      BY <1>1, Lengths
    <3>2. QED
      BY <2>2, <2>4, <2>5, <3>1 DEF MemoryKept, Alike
  <2>7. ASSUME NEW x \in Works, NEW i \in 1..Len(mem'[x]) PROVE ObjectStep(x, i)
    <3>1. CASE x = w /\ i = n
      BY <1>2, <2>3, <2>5, <3>1 DEF ObjectStep
    <3>2. CASE x = w /\ i # n
      <4>1. i \in 1..Len(mem[w])
        BY <2>2, <2>5, <3>2
      <4>2. QED
        BY <2>5, <3>2, <4>1 DEF ObjectStep, Alike
    <3>3. CASE x # w
      BY <2>4, <3>3 DEF ObjectStep, Alike
    <3>4. QED
      BY <3>1, <3>2, <3>3
  <2>8. \A p \in Procs : SamePut(p)
    BY <1>2 DEF SamePut
  <2>9. RvOK' /\ \A x \in Works : Grows(hist[x], hist'[x])
    BY <1>1, <1>2, HistoryGrows DEF OInv, RvOK
  <2>10. QED
    BY <1>1, <1>2, <2>6, <2>7, <2>8, <2>9, ObjectsKept
<1>5. QED
  BY <1>3, <1>4 DEF Informer

LEMMA UserKeeps ==
    ASSUME OInv, [Next]_vars, NEW w \in Works, User(w) PROVE OInv'
<1>1. Inv /\ Inv'
  BY NextInv DEF OInv
<1>2. UNCHANGED <<mem, active, job, reapers>>
  BY Zenon DEF User, Create, Edit, Delete, informer, workqueue
<1>3. ASSUME NEW v \in Versions, Store(w, v) PROVE OInv'
  <2>1. RvOK' /\ \A x \in Works : Grows(hist[x], hist'[x])
    BY <1>3, StoredRv, VersionRecord
  <2>2. MemoryKept /\ \A x \in Works : \A n \in 1..Len(mem'[x]) : ObjectStep(x, n)
    BY <1>1, <1>2, MemorySame
  <2>3. \A p \in Procs : SamePut(p)
    BY <1>2 DEF SamePut
  <2>4. QED
    BY <1>1, <1>2, <2>1, <2>2, <2>3, ObjectsKept
<1>4. Len(hist[w]) \in Nat
  BY <1>1, Lengths
<1>5. CASE Create(w)
  <2>1. PICK s \in Specs :
           Store(w, [spec |-> s, fin |-> FALSE, del |-> FALSE, gone |-> FALSE,
                     rv |-> 0, by |-> Len(hist[w]) + 1])
    BY <1>5 DEF Create
  <2> DEFINE v == [spec |-> s, fin |-> FALSE, del |-> FALSE, gone |-> FALSE,
                   rv |-> 0, by |-> Len(hist[w]) + 1]
  <2>2. v \in Versions
    BY <1>4 DEF Versions
  <2>3. Store(w, v)
    BY <2>1
  <2> HIDE DEF v
  <2>4. QED
    BY <1>3, <2>2, <2>3
<1>6. CASE Edit(w)
  <2>1. PICK s \in Specs :
           Store(w, [Latest(w) EXCEPT !.spec = s, !.by = Len(hist[w]) + 1])
    BY Zenon, <1>6 DEF Edit
  <2>2. Latest(w) \in Versions
    BY <1>1, <1>6, LatestOK DEF Edit, Inv
  <2> DEFINE v == [Latest(w) EXCEPT !.spec = s, !.by = Len(hist[w]) + 1]
  <2>3. v \in Versions
    <3>1. Len(hist[w]) + 1 \in Nat
      BY <1>4
    <3>2. QED
      BY Zenon, <2>2, <3>1, EditedVersion
  <2>4. Store(w, v)
    BY <2>1
  <2> HIDE DEF v
  <2>5. QED
    BY <1>3, <2>3, <2>4
<1>7. CASE Delete(w)
  <2>1. Latest(w) \in Versions
    BY <1>1, <1>7, LatestOK DEF Delete, Inv
  <2> DEFINE v == [Latest(w) EXCEPT !.del = TRUE, !.gone = ~Latest(w).fin]
  <2>2. v \in Versions
    BY <2>1 DEF Versions
  <2>3. Store(w, v)
    BY <1>7 DEF Delete
  <2> HIDE DEF v
  <2>4. QED
    BY <1>3, <2>2, <2>3
<1>8. QED
  BY <1>5, <1>6, <1>7 DEF User

LEMMA FinalizerKeeps ==
    ASSUME OInv, [Next]_vars, NEW p \in Procs,
           SyncAddFinalizer(p) \/ SyncRemoveFinalizer(p)
    PROVE  OInv'
<1> DEFINE w == active[p]
           n == Newest(w)
           j == PlaceJob(p, "put", n)
           r == [w |-> w, at |-> n, pc |-> "start", m |-> 0,
                 left |-> {}, clients |-> {}, nils |-> {}]
<1>0. Inv /\ Inv' /\ Reads(p) /\ Cached(w)
  BY NextInv DEF OInv, SyncAddFinalizer, SyncRemoveFinalizer
<1>1. /\ job[p].pc = "start" /\ w \in Works
      /\ UNCHANGED <<hist, active>>
  BY <1>0, ReadOK
<1>2. n \in 1..Len(mem[w]) /\ n \in Nat /\ mem[w][n] \in Versions
      /\ ~mem[w][n].gone
  BY <1>0, <1>1, CachedOK DEF Cached
<1>3. j.pc = "put" /\ j.at = n
  BY <1>0, <1>1, <1>2, PlaceOK
<1>4. job' = [job EXCEPT ![p] = j]
  BY <1>0, <1>3 DEF SyncAddFinalizer, SyncRemoveFinalizer, PlaceJob, Inv, TypeOK
<1>5. PICK b \in BOOLEAN : mem' = [mem EXCEPT ![w][n].fin = b]
  BY DEF SyncAddFinalizer, SyncRemoveFinalizer
<1> DEFINE v == [mem[w][n] EXCEPT !.fin = b]
<1>6. Alike(v, mem[w][n]) /\ v.rv = mem[w][n].rv
  BY <1>2 DEF Versions, Alike
<1>7. mem' = [mem EXCEPT ![w] = [mem[w] EXCEPT ![n] = v]]
  BY <1>5
<1>8. \/ reapers' = reapers
      \/ reapers' = reapers \cup {r} /\ mem[w][n].del
  BY DEF SyncAddFinalizer, SyncRemoveFinalizer, Terminating
<1>9. r.w = w /\ r.at = n
  OBVIOUS
<1> HIDE DEF v, j, n, r
<1>10. /\ mem'[w] = [mem[w] EXCEPT ![n] = v]
       /\ \A x \in Works \ {w} : mem'[x] = mem[x]
  BY <1>0, <1>1, <1>7 DEF Inv, TypeOK
<1>11. /\ Len(mem'[w]) = Len(mem[w]) /\ mem'[w][n] = v
       /\ \A i \in 1..Len(mem[w]) : i # n => mem'[w][i] = mem[w][i]
  <2>1. mem[w] \in Seq(Versions) /\ mem'[w] \in Seq(Versions)
    BY <1>0, <1>1 DEF Inv, TypeOK
  <2>2. DOMAIN mem[w] = 1..Len(mem[w]) /\ DOMAIN mem'[w] = 1..Len(mem'[w])
        /\ Len(mem[w]) \in Nat /\ Len(mem'[w]) \in Nat
    BY <2>1, LenProperties
  <2>3. DOMAIN mem'[w] = DOMAIN mem[w]
    BY <1>10
  <2>4. QED
    BY <1>2, <1>10, <2>1, <2>2, <2>3
<1>12. \A x \in Works : Len(mem[x]) \in Nat
  BY <1>0, Lengths
<1>13. MemoryKept
  BY <1>6, <1>10, <1>11, <1>12 DEF MemoryKept, Alike
<1>14. ASSUME NEW x \in Works, NEW i \in 1..Len(mem'[x]) PROVE ObjectStep(x, i)
  BY <1>6, <1>10, <1>11 DEF ObjectStep, Alike
<1>15. \A q \in Procs \ {p} : SamePut(q)
  BY <1>0, <1>1, <1>4 DEF SamePut, Inv, TypeOK
<1>16. Puts(p)'
  <2>1. job'[p] = j /\ active'[p] = w
    BY <1>0, <1>1, <1>4 DEF Inv, TypeOK
  <2>2. ~mem'[w][n].gone
    BY <1>2, <1>6, <1>11 DEF Alike
  <2>3. PutOK(j, mem'[w], hist'[w])
    BY <1>3, <2>2 DEF PutOK
  <2>4. QED
    BY <2>1, <2>3 DEF Puts
<1>17. \A x \in reapers' : \/ \E s \in reapers : s.w = x.w /\ s.at = x.at
                           \/ mem'[x.w][x.at].del
  BY <1>6, <1>8, <1>9, <1>11 DEF Alike
<1>18. RvOK' /\ \A x \in Works : Grows(hist[x], hist'[x])
  BY <1>0, <1>1, HistoryGrows DEF OInv, RvOK
<1>19. QED
  BY <1>0, <1>13, <1>14, <1>15, <1>16, <1>17, <1>18, ObjectsKept

LEMMA DecodeKeeps ==
    ASSUME OInv, [Next]_vars, NEW p \in Procs, Decode(p) PROVE OInv'
<1> DEFINE w == active[p]
           n == job[p].at
           m == job[p].to
           v == [hist[w][m] EXCEPT !.gone = FALSE]
<1>0. Inv /\ Inv'
  BY NextInv DEF OInv
<1>1. /\ job[p].pc = "decode" /\ mem' = [mem EXCEPT ![w][n] = v]
      /\ job' = [job EXCEPT ![p] = Finish(TRUE)]
      /\ UNCHANGED <<hist, active, reapers>>
  BY DEF Decode, server, workqueue
<1>2. /\ w \in Works /\ n \in 1..Len(mem[w]) /\ m \in 1..Len(hist[w])
      /\ hist[w][m].spec = mem[w][n].spec
  BY <1>0, <1>1, ActiveOK DEF Fits, JobFits
<1>3. hist[w][m] \in Versions
  BY <1>0, <1>2, ElementOfSeq DEF Inv, TypeOK
<1>4. ~mem[w][n].gone /\ hist[w][m].del = mem[w][n].del
  BY <1>1 DEF OInv, Puts, PutOK
<1>5. ObjectOK(mem[w][n], hist[w], n) /\ hist[w][m].rv = m
  BY <1>2 DEF OInv, ObjectsOK, RvOK
<1>6. mem[w][n].gone \in BOOLEAN
  BY <1>0, <1>2, VersionOK DEF Inv, Versions
<1>7. /\ v.spec = hist[w][m].spec /\ v.del = hist[w][m].del
      /\ v.gone = FALSE /\ v.rv = hist[w][m].rv
  BY <1>3 DEF Versions
<1> HIDE DEF v, n, m
<1>8. ObjectOK(v, hist[w], n) /\ Alike(v, mem[w][n])
  BY <1>2, <1>4, <1>5, <1>6, <1>7 DEF ObjectOK, Alike
<1>9. mem' = [mem EXCEPT ![w] = [mem[w] EXCEPT ![n] = v]]
  BY <1>1
<1>10. /\ mem'[w] = [mem[w] EXCEPT ![n] = v]
       /\ \A x \in Works \ {w} : mem'[x] = mem[x]
  BY <1>0, <1>2, <1>9 DEF Inv, TypeOK
<1>11. /\ Len(mem'[w]) = Len(mem[w]) /\ mem'[w][n] = v
       /\ \A i \in 1..Len(mem[w]) : i # n => mem'[w][i] = mem[w][i]
  <2>1. mem[w] \in Seq(Versions) /\ mem'[w] \in Seq(Versions)
    BY <1>0, <1>2 DEF Inv, TypeOK
  <2>2. DOMAIN mem[w] = 1..Len(mem[w]) /\ DOMAIN mem'[w] = 1..Len(mem'[w])
        /\ Len(mem[w]) \in Nat /\ Len(mem'[w]) \in Nat
    BY <2>1, LenProperties
  <2>3. DOMAIN mem'[w] = DOMAIN mem[w]
    BY <1>10
  <2>4. QED
    BY <1>2, <1>10, <2>1, <2>2, <2>3
<1>12. \A x \in Works : Len(mem[x]) \in Nat
  BY <1>0, Lengths
<1>13. MemoryKept
  BY <1>8, <1>10, <1>11, <1>12 DEF MemoryKept, Alike
<1>14. ASSUME NEW x \in Works, NEW i \in 1..Len(mem'[x]) PROVE ObjectStep(x, i)
  BY <1>1, <1>8, <1>10, <1>11 DEF ObjectStep, Alike
<1>15. \A q \in Procs : Calm(q)
  <2> DEFINE j == Finish(TRUE)
  <2>1. j.pc = "done"
    BY FinishOK
  <2>2. job' = [job EXCEPT ![p] = j]
    BY <1>1
  <2> HIDE DEF j
  <2>3. QED
    BY <1>0, <1>1, <2>1, <2>2, OneMoves
<1>16. \A q \in Procs : SamePut(q) \/ Puts(q)'
  BY <1>15 DEF Calm, Puts, PutOK
<1>17. RvOK' /\ \A x \in Works : Grows(hist[x], hist'[x])
  BY <1>0, <1>1, HistoryGrows DEF OInv, RvOK
<1>18. QED
  BY <1>0, <1>1, <1>13, <1>14, <1>16, <1>17, SameReapers, ObjectsKept

LEMMA PutKeeps ==
    ASSUME OInv, [Next]_vars, NEW p \in Procs, Put(p) PROVE OInv'
<1> DEFINE w == active[p]
           n == job[p].at
           o == mem[w][n]
           m == Len(hist[w]) + 1
<1>0. Inv /\ Inv'
  BY NextInv DEF OInv
<1>1. /\ job[p].pc = "put" /\ UNCHANGED <<mem, active, reapers>>
  BY DEF Put, informer, workqueue
<1>2. /\ w \in Works /\ n \in 1..Len(mem[w]) /\ job[p] \in Jobs
      /\ o \in Versions /\ ~o.gone /\ ObjectOK(o, hist[w], n)
  <2>1. w \in Works /\ n \in 1..Len(mem[w]) /\ job[p] \in Jobs
    BY <1>0, <1>1, ActiveOK DEF Fits, JobFits
  <2>2. QED
    BY <1>0, <1>1, <2>1, VersionOK DEF Inv, OInv, ObjectsOK, Puts, PutOK
<1>3. MemoryKept /\ \A x \in Works : \A i \in 1..Len(mem'[x]) : ObjectStep(x, i)
  BY <1>0, <1>1, MemorySame
<1>4. \A x \in Works : Grows(hist[x], hist'[x])
  BY <1>0, HistoryGrows
<1>5. \A q \in Procs \ {p} : SamePut(q)
  BY <1>0, <1>1 DEF Put, SamePut, Inv, TypeOK
<1>6. Len(hist[w]) \in Nat
  BY <1>0, <1>2, Lengths
<1>7. PutAccepted(w, o) => RvOK' /\ hist'[w][m].del = o.del /\ ~o.gone
  <2>1. SUFFICES ASSUME PutAccepted(w, o)
                 PROVE  RvOK' /\ hist'[w][m].del = o.del /\ ~o.gone
    OBVIOUS
  <2>2. Latest(w) \in Versions /\ o.rv = Len(hist[w])
    BY <1>0, <1>2, <2>1, LatestOK DEF PutAccepted, Inv
  <2>3. Latest(w).del = o.del
    BY <1>2, <2>2 DEF ObjectOK, Latest
  <2> DEFINE v == [Latest(w) EXCEPT !.spec = o.spec, !.fin = o.fin,
                                    !.by = Len(hist[w]) + 1,
                                    !.gone = Latest(w).del /\ ~o.fin]
  <2>4. v \in Versions /\ v.del = Latest(w).del
    <3>1. /\ Len(hist[w]) + 1 \in Nat /\ o.spec \in Specs /\ o.fin \in BOOLEAN
          /\ (Latest(w).del /\ ~o.fin) \in BOOLEAN
      BY <1>2, <1>6, <2>2 DEF Versions
    <3> HIDE DEF o
    <3>2. QED
      BY <2>2, <3>1 DEF Versions
  <2>5. Store(w, v)
    BY <2>1 DEF PutAccepted
  <2> HIDE DEF v
  <2>6. RvOK' /\ hist'[w][m].del = v.del
    BY <1>2, <2>4, <2>5, StoredRv, VersionRecord
  <2>7. QED
    BY <1>2, <2>3, <2>4, <2>6
<1>8. UNCHANGED hist => RvOK'
  BY DEF OInv, RvOK
<1>9. PutAccepted(w, o) \/ UNCHANGED hist
  BY DEF Put
<1>10. Puts(p)'
  <2> DEFINE f == Finish(FALSE)
             d == [job[p] EXCEPT !.pc = "decode", !.to = m]
  <2>1. \/ job'[p] = f
        \/ job'[p] = d /\ PutAccepted(w, o)
    BY <1>0, <1>2 DEF Put, Inv, TypeOK
  <2>2. f.pc = "done"
    BY FinishOK
  <2>3. d.pc = "decode" /\ d.to = m /\ d.at = n
    BY <1>2 DEF Jobs
  <2> HIDE DEF f, d
  <2>4. active'[p] = w /\ mem'[w] = mem[w]
    BY <1>1
  <2>5. CASE job'[p] = f
    BY <2>2, <2>5 DEF Puts, PutOK
  <2>6. CASE job'[p] = d /\ PutAccepted(w, o)
    <3>1. PutOK(d, mem'[w], hist'[w])
      BY <1>7, <2>3, <2>4, <2>6 DEF PutOK
    <3>2. QED
      BY <2>4, <2>6, <3>1 DEF Puts
  <2>7. QED
    BY <2>1, <2>5, <2>6
<1>11. RvOK'
  BY <1>7, <1>8, <1>9
<1>12. QED
  BY <1>0, <1>1, <1>3, <1>4, <1>5, <1>10, <1>11, SameReapers, ObjectsKept

(* The steps of a worker that send nothing. *)
LEMMA WorkerIsCalm ==
    ASSUME Inv, NEW p \in Procs,
           \/ SyncNotFound(p) \/ SyncApply(p) \/ SyncWork(p) \/ Fail(p) \/ Done(p)
           \/ \E w \in Works : Begin(p, w)
    PROVE  UNCHANGED <<hist, mem, reapers>> /\ \A q \in Procs : Calm(q)
<1>1. UNCHANGED <<hist, mem, reapers>>
  <2>1. CASE SyncNotFound(p) \/ SyncApply(p)
    BY Zenon, <2>1 DEF SyncNotFound, SyncApply, Reads, server
  <2>2. CASE SyncWork(p)
    BY Zenon, <2>2 DEF SyncWork, SyncClients, SyncCreate, SyncUpdate, SyncGet, server,
                informer
  <2>3. CASE Fail(p) \/ Done(p) \/ \E w \in Works : Begin(p, w)
    BY <2>3 DEF Fail, Done, Begin, server, informer
  <2>4. QED
    BY <2>1, <2>2, <2>3
<1>2. \A q \in Procs \ {p} : SyncWork(p) \/ active'[q] = active[q]
  <2>1. active \in [Procs -> Works \cup {None}]
    BY DEF Inv, TypeOK, Q!SFTypeOK
  <2>2. CASE SyncNotFound(p) \/ SyncApply(p) \/ Fail(p)
    BY <2>2 DEF SyncNotFound, SyncApply, Reads, Fail, Q!Defer, workqueue
  <2>3. CASE Done(p) \/ \E w \in Works : Begin(p, w)
    BY <2>1, <2>3 DEF Done, Begin, Q!End, Q!Begin
  <2>4. QED
    BY <2>2, <2>3
<1>3. CASE SyncWork(p)
  BY <1>1, <1>3, WorkIsCalm
<1>4. CASE ~SyncWork(p)
  <2> DEFINE n == Newest(active[p])
             f == Finish(TRUE)
             a == PlaceJob(p, "clients", n)
             s == [NoJob EXCEPT !.pc = "start"]
             d == [job[p] EXCEPT !.ok = TRUE]
             e == NoJob
  <2>1. \/ job' = [job EXCEPT ![p] = f]
        \/ SyncApply(p) /\ job' = [job EXCEPT ![p] = a]
        \/ job' = [job EXCEPT ![p] = s]
        \/ job[p].pc = "done" /\ job' = [job EXCEPT ![p] = d]
        \/ job' = [job EXCEPT ![p] = e]
    BY <1>4 DEF SyncNotFound, SyncApply, Fail, Done, Begin, PlaceJob, Inv, TypeOK
  <2>2. SyncApply(p) => a.pc = "clients"
    <3>1. SUFFICES ASSUME SyncApply(p) PROVE a.pc = "clients"
      OBVIOUS
    <3>2. job[p].pc = "start" /\ active[p] \in Works /\ n \in Nat
      BY <3>1, ReadOK, CachedOK DEF SyncApply
    <3>3. QED
      BY <3>2, PlaceOK
  <2>3. f.pc = "done" /\ e.pc = "idle"
    BY FinishOK
  <2>4. s.pc = "start"
    BY FinishOK DEF Jobs
  <2>5. d.pc = job[p].pc
    BY ActiveOK DEF Jobs
  <2> HIDE DEF f, a, s, d, e
  <2>6. PICK j : job' = [job EXCEPT ![p] = j] /\ j.pc \notin {"put", "decode"}
    BY <2>1, <2>2, <2>3, <2>4, <2>5
  <2>7. QED
    BY <1>1, <1>2, <1>4, <2>6, OneMoves
<1>5. QED
  BY <1>3, <1>4

LEMMA ReaperKeeps ==
    ASSUME OInv, [Next]_vars, NEW r \in reapers, Reaper(r) PROVE OInv'
<1>0. Inv
  BY DEF OInv
<1>1. UNCHANGED <<hist, mem, active>>
  BY Zenon DEF Reaper, ReaperClients, ReaperDelete, server, informer, workqueue
<1>2. \A p \in Procs : Calm(p)
  <2>1. CASE UNCHANGED job
    BY <1>0, <1>1, <2>1, StillJobs
  <2>2. ASSUME NEW c, NEW o, WriteMember(None, c, o, None, NoJob), NEW p \in Procs
        PROVE  Calm(p)
    <3>1. SameJob(p)
      BY <1>1, <2>2, NoneElsewhere DEF WriteMember, SameJob
    <3>2. QED
      BY <1>0, <3>1, SameIsCalm
  <2>3. UNCHANGED job \/ \E c, o : WriteMember(None, c, o, None, NoJob)
    BY Zenon DEF Reaper, ReaperClients, ReaperDelete
  <2>4. QED
    BY <2>1, <2>2, <2>3
<1>3. \A y \in reapers' : \E s \in reapers : s.w = y.w /\ s.at = y.at
  <2>1. r \in Reapers
    BY <1>0, ReaperIn
  <2>2. ASSUME NEW x \in Reapers, NEW n, x.w = r.w, x.at = r.at, Replace(r, n, x)
        PROVE  \A y \in reapers' : \E s \in reapers : s.w = y.w /\ s.at = y.at
    <3> DEFINE z == [x EXCEPT !.m = n.m, !.left = n.left]
    <3>1. z.w = r.w /\ z.at = r.at
      BY <2>2 DEF Reapers
    <3> HIDE DEF z
    <3>2. \A y \in reapers' : y \in reapers \/ y = z
      BY <2>2 DEF Replace, z
    <3>3. QED
      BY <3>1, <3>2
  <2>3. CASE ReaperClients(r)
    <3> DEFINE spec == mem[r.w][r.at].spec
               x == [r EXCEPT !.pc = "delete", !.clients = ClusterClients(spec),
                              !.nils = NilClients(spec)]
               n == First(x.clients, spec)
    <3>1. Replace(r, n, x)
      BY <2>3 DEF ReaperClients
    <3>2. ClusterClients(spec) \in SUBSET Clusters /\ NilClients(spec) \in SUBSET Clusters
      BY <1>0 DEF ClusterClients, NilClients, Inv, TypeOK
    <3> HIDE DEF spec
    <3>3. x \in Reapers /\ x.w = r.w /\ x.at = r.at
      BY <2>1, <3>2 DEF Reapers
    <3> HIDE DEF n, x
    <3>4. QED
      BY <2>2, <3>1, <3>3
  <2>4. ASSUME NEW c \in Clusters, ReaperDelete(r, c)
        PROVE  \A y \in reapers' : \E s \in reapers : s.w = y.w /\ s.at = y.at
    <3> DEFINE n == After(r, c, mem[r.w][r.at].spec)
    <3>1. Replace(r, n, r)
      BY <2>4 DEF ReaperDelete
    <3> HIDE DEF n
    <3>2. QED
      BY <2>1, <2>2, <3>1
  <2>5. QED
    BY <2>3, <2>4 DEF Reaper
<1>4. QED
  BY <1>1, <1>2, <1>3, StillStep

LEMMA RestartKeeps ==
    ASSUME OInv, [Next]_vars, Crash \/ NilClient PROVE OInv'
<1>1. Restart
  BY DEF Crash, NilClient
<1>2. /\ mem' = hist /\ hist' = hist /\ reapers' = {}
      /\ job' = [p \in Procs |-> NoJob]
  BY <1>1 DEF Restart, server
<1>3. Inv' /\ RvOK'
  BY <1>2, NextInv DEF OInv, RvOK
<1>4. ObjectsOK'
  <2>1. ASSUME NEW w \in Works, NEW n \in 1..Len(hist[w])
        PROVE  ObjectOK(hist[w][n], hist[w], n)
    BY <2>1 DEF ObjectOK, Alike, OInv, RvOK
  <2>2. QED
    BY <1>2, <2>1 DEF ObjectsOK
<1>5. \A p \in Procs : Puts(p)'
  BY <1>2, FinishOK DEF Puts, PutOK
<1>6. ReapersOK'
  BY <1>2 DEF ReapersOK
<1>7. QED
  BY <1>3, <1>4, <1>5, <1>6 DEF OInv

LEMMA InitObjects == ASSUME Init PROVE OInv
<1>1. Inv
  BY InitInv
<1>2. /\ \A w \in Works : Len(hist[w]) = 0 /\ Len(mem[w]) = 0
      /\ reapers = {} /\ \A p \in Procs : job[p].pc = "idle"
  BY FinishOK, EmptySeq DEF Init
<1>3. QED
  BY <1>1, <1>2 DEF OInv, RvOK, ObjectsOK, Puts, PutOK, ReapersOK

LEMMA NextObjects == ASSUME OInv, [Next]_vars PROVE OInv'
<1>0. Inv
  BY DEF OInv
<1>1. ASSUME NEW w \in Works, User(w) \/ Informer(w) \/ Fire(w) PROVE OInv'
  BY <1>1, UserKeeps, InformerKeeps
<1>2. ASSUME NEW p \in Procs, Worker(p) \/ \E w \in Works : Begin(p, w)
      PROVE  OInv'
  <2>1. CASE \/ SyncNotFound(p) \/ SyncApply(p) \/ SyncWork(p) \/ Fail(p)
             \/ Done(p) \/ \E w \in Works : Begin(p, w)
    BY <1>0, <2>1, WorkerIsCalm, SameReapers, StillStep
  <2>2. CASE SyncAddFinalizer(p) \/ SyncRemoveFinalizer(p)
    BY <2>2, FinalizerKeeps
  <2>3. CASE Put(p)
    BY <2>3, PutKeeps
  <2>4. CASE Decode(p)
    BY <2>4, DecodeKeeps
  <2>5. QED
    BY <1>2, <2>1, <2>2, <2>3, <2>4 DEF Worker, Sync
<1>3. ASSUME NEW r \in reapers, Reaper(r) PROVE OInv'
  BY <1>3, ReaperKeeps
<1>4. CASE \/ \E c \in Clusters : Join(c) \/ ClusterDown(c) \/ ClusterUp(c)
           \/ UNCHANGED vars
  <2>1. UNCHANGED <<hist, mem, active, job, reapers>>
    BY <1>4 DEF Join, ClusterDown, ClusterUp, vars, server, informer, workqueue
  <2>2. QED
    BY <1>0, <2>1, StillJobs, SameReapers, StillStep
<1>5. CASE Crash \/ NilClient
  BY <1>5, RestartKeeps
<1>6. QED
  BY <1>1, <1>2, <1>3, <1>4, <1>5 DEF Next

-----------------------------------------------------------------------------
(* Deletions *)

(* What a goroutine of deleteExternalResources deletes was assigned by a   *)
(* version that was being deleted.                                         *)
LEMMA ReapedAssigned ==
    ASSUME OInv, NEW r \in reapers, NEW c, NEW o, Reaps(r, c, o)
    PROVE  \E w \in Works : \E n \in 1..Len(hist[w]) :
              hist[w][n].del /\ \E x \in Vers : Assigns(hist[w][n], c, o, x)
<1>0. PICK w, n, i : w = r.w /\ n = r.at /\ i = r.m
  OBVIOUS
<1>1. /\ w \in Works /\ n \in 1..Len(mem[w])
      /\ mem[w][n].spec.manifests \in Seq(Manifests)
      /\ InLoops(r, mem[w][n].spec)
      /\ c \in r.left /\ o = mem[w][n].spec.manifests[i].obj
  BY <1>0, ReaperIn DEF OInv, Reaps
<1>2. /\ i \in 1..Len(mem[w][n].spec.manifests)
      /\ c \in mem[w][n].spec.clusters
  BY Zenon, <1>0, <1>1 DEF InLoops
<1>3. /\ n \in 1..Len(hist[w]) /\ hist[w][n].spec = mem[w][n].spec
      /\ hist[w][n].del
  <2>1. mem[w][n].del
    BY <1>0 DEF OInv, ReapersOK
  <2>2. Alike(mem[w][n], hist[w][n])
    BY <1>1 DEF OInv, ObjectsOK, ObjectOK
  <2>3. Len(mem[w]) \in Nat /\ Len(hist[w]) \in Nat /\ Len(mem[w]) <= Len(hist[w])
    BY <1>1, Lengths DEF OInv
  <2>4. QED
    BY <1>1, <2>1, <2>2, <2>3 DEF Alike
<1>4. mem[w][n].spec.manifests[i].ver \in Vers
  <2>1. mem[w][n].spec.manifests[i] \in Manifests
    BY <1>1, <1>2, ElementOfSeq
  <2>2. QED
    BY <2>1 DEF Manifests
<1>5. Assigns(hist[w][n], c, o, mem[w][n].spec.manifests[i].ver)
  BY <1>1, <1>2, <1>3 DEF Assigns
<1>6. QED
  BY <1>1, <1>3, <1>4, <1>5

(* An object leaves a member cluster only if some version of a Workload    *)
(* that was being deleted assigned it to the cluster: whatever was written *)
(* to the object in memory between the start of the goroutine and its last *)
(* deletion, and whatever edits, retries and restarts came in between.     *)
THEOREM DeletedWithWorkload == Spec => DeletedOnlyWithWorkload
<1>1. Init => OInv
  BY InitObjects
<1>2. OInv /\ [Next]_vars => OInv'
  BY NextObjects
<1>3. OInv /\ [Next]_vars => [DeletesForWorkload]_vars
  <2>1. SUFFICES ASSUME OInv, [Next]_vars, NEW c \in Clusters, NEW o \in Objs,
                        member[c][o] # None, member'[c][o] = None
                 PROVE  \E w \in Works : \E n \in 1..Len(hist[w]) :
                           /\ hist[w][n].del
                           /\ \E x \in Vers : Assigns(hist[w][n], c, o, x)
    BY DEF DeletesForWorkload
  <2>2. PICK r \in reapers : Reaps(r, c, o)
    BY <2>1, MemberStep DEF OInv
  <2>3. QED
    BY <2>1, <2>2, ReapedAssigned
<1>4. QED
  BY <1>1, <1>2, <1>3, PTL DEF Spec, DeletedOnlyWithWorkload

-----------------------------------------------------------------------------
(* The refinement of Propagation *)

(* What was assigned, and what was assigned by a version being deleted,    *)
(* remains so.                                                             *)
LEMMA AskedStays ==
    ASSUME OInv, [Next]_vars
    PROVE  AskedFor \subseteq AskedFor' /\ Withdrawn \subseteq Withdrawn'
<1>1. ASSUME NEW w \in Works, NEW n \in 1..Len(hist[w])
      PROVE  n \in 1..Len(hist'[w]) /\ hist'[w][n] = hist[w][n]
  <2>1. OInv' /\ Grows(hist[w], hist'[w])
    BY NextObjects, HistoryGrows DEF OInv
  <2>2. Len(hist[w]) \in Nat /\ Len(hist'[w]) \in Nat
    BY <2>1, LenProperties DEF OInv, Inv, TypeOK
  <2>3. QED
    BY <2>1, <2>2 DEF Grows
<1>2. ASSUME NEW w \in Works, NEW n \in 1..Len(hist[w]), NEW c, NEW o, NEW x,
             Assigns(hist[w][n], c, o, x)
      PROVE  Assigns(hist'[w][n], c, o, x)
  BY <1>1, <1>2
<1>3. ASSUME NEW e \in AskedFor PROVE e \in AskedFor'
  BY Zenon, <1>1, <1>2, <1>3 DEF AskedFor
<1>4. ASSUME NEW e \in Withdrawn PROVE e \in Withdrawn'
  <2>1. /\ e \in Clusters \X Objs
        /\ \E w \in Works : \E n \in 1..Len(hist[w]) :
              /\ hist[w][n].del
              /\ \E x \in Vers : Assigns(hist[w][n], e[1], e[2], x)
    BY <1>4 DEF Withdrawn
  <2>a. PICK w \in Works : \E n \in 1..Len(hist[w]) :
              /\ hist[w][n].del
              /\ \E x \in Vers : Assigns(hist[w][n], e[1], e[2], x)
    BY <2>1
  <2>2. PICK n \in 1..Len(hist[w]) :
              /\ hist[w][n].del
              /\ \E x \in Vers : Assigns(hist[w][n], e[1], e[2], x)
    BY <2>a
  <2>3. /\ n \in 1..Len(hist'[w]) /\ hist'[w][n].del
        /\ \E x \in Vers : Assigns(hist'[w][n], e[1], e[2], x)
    BY <1>1, <1>2, <2>2
  <2>4. QED
    BY Zenon, <2>1, <2>3 DEF Withdrawn
<1>5. QED
  BY <1>3, <1>4

LEMMA NextPropagates ==
    OInv /\ [Next]_vars => [P!PropNext]_(P!propvars)
<1> SUFFICES ASSUME OInv, [Next]_vars
             PROVE  P!PropNext \/ UNCHANGED <<AskedFor, Withdrawn, member>>
  BY DEF P!propvars
<1>0. /\ AskedFor \subseteq Clusters \X Objs \X Vers
      /\ AskedFor' \subseteq Clusters \X Objs \X Vers
      /\ Withdrawn' \subseteq Clusters \X Objs
  BY DEF AskedFor, Withdrawn
<1>1. CASE UNCHANGED member
  <2>1. P!Ask
    BY <1>0, <1>1, AskedStays DEF P!Ask
  <2>2. QED
    BY <2>1 DEF P!PropNext
<1>2. ASSUME UNCHANGED hist PROVE UNCHANGED <<AskedFor, Withdrawn>>
  BY <1>2 DEF AskedFor, Withdrawn
<1>3. ASSUME NEW c \in Clusters, NEW o \in Objs, NEW x \in Vers,
             Assigned(hist, c, o, x), Writes(c, o, x)
      PROVE  P!Apply(c, o, x)
  <2>1. <<c, o, x>> \in AskedFor
    BY <1>3 DEF AskedFor, Assigned
  <2>2. QED
    BY <1>2, <1>3, <2>1 DEF P!Apply, Writes
<1>4. ASSUME NEW r \in reapers, NEW c \in Clusters, NEW o \in Objs,
             Reaps(r, c, o), Writes(c, o, None)
      PROVE  P!Remove(c, o)
  <2>1. <<c, o>> \in Withdrawn
    BY <1>4, ReapedAssigned DEF Withdrawn
  <2>2. QED
    BY <1>2, <1>4, <2>1 DEF P!Remove, Writes
<1>5. QED
  BY <1>1, <1>3, <1>4, OneWrite DEF OInv, P!PropNext

(* The controller implements Propagation: through its cache, its queue,    *)
(* its loops, lost requests and restarts, a member cluster changes one     *)
(* object at a time, to what some version of a Workload assigns or, if a   *)
(* version being deleted assigns it, to none.                              *)
THEOREM Refinement == Spec => ImplementsPropagation
<1>1. Init => P!PropInit
  BY EmptySeq DEF Init, P!PropInit, AskedFor, Withdrawn
<1>2. Spec => []OInv
  BY InitObjects, NextObjects, PTL DEF Spec
<1>3. QED
  BY <1>1, <1>2, NextPropagates, PTL DEF Spec, ImplementsPropagation, P!PropSpec

-----------------------------------------------------------------------------
(* Edits *)

(* Notification e announces version n, or one that replaces it, in a way   *)
(* that no change to the objects in memory hides from OnUpdate.            *)
Tells(e, n) ==
    /\ e.new >= n
    /\ e.kind = "update" => n > 1 /\ e.old = n - 1 /\ e.new = n

Starts(w) == \E p \in Procs : active[p] = w /\ job[p].pc = "start"

Waits(w, n) ==
    \/ w \in pending \cup deferred
    \/ \E i \in 1..Len(notif[w]) : Tells(notif[w][i], n)
    \/ Starts(w)

(* Version n is a user's, delivered, and not read. *)
Unread(w, n) ==
    /\ n \in read[w] + 1 .. Newest(w)
    /\ ByUser(w, n)
    /\ \A i \in n .. Newest(w) : ~hist[w][i].gone

UnreadWaits == \A w \in Works : \A n \in Nat : Unread(w, n) => Waits(w, n)

EInv == OInv /\ UnreadWaits

LEMMA UnreadIn ==
    ASSUME Inv, NEW w \in Works, NEW n, Unread(w, n)
    PROVE  /\ n \in 1..Len(mem[w]) /\ n \in 1..Len(hist[w]) /\ n \in Nat
           /\ n >= read[w] + 1
<1>1. read[w] \in Nat
  BY DEF Inv, TypeOK
<1>2. /\ Len(mem[w]) \in Nat /\ Len(hist[w]) \in Nat
      /\ Len(mem[w]) <= Len(hist[w])
  BY Lengths
<1>3. QED
  BY <1>1, <1>2 DEF Unread, Newest

(* A change that a user made cannot be hidden by what is written to the    *)
(* objects in memory.                                                      *)
LEMMA TellsEnqueues ==
    ASSUME OInv, NEW w \in Works, NEW n, Unread(w, n), NEW e, Tells(e, n)
    PROVE  e.new >= n /\ Enqueues(w, e)
<1>1. CASE e.kind # "update"
  BY <1>1 DEF Enqueues, Tells
<1>2. CASE e.kind = "update"
  <2>1. n > 1 /\ e.old = n - 1 /\ e.new = n
    BY <1>2 DEF Tells
  <2>2. n \in 1..Len(mem[w]) /\ n \in Nat /\ Len(mem[w]) \in Nat
    BY UnreadIn, Lengths DEF OInv
  <2>3. PICK k : k = n - 1
    OBVIOUS
  <2>4. k \in 1..Len(mem[w])
    BY <2>1, <2>2, <2>3
  <2>5. /\ mem[w][k] \in Versions /\ mem[w][n] \in Versions
        /\ Alike(mem[w][k], hist[w][k]) /\ Alike(mem[w][n], hist[w][n])
    BY <2>2, <2>4, VersionOK DEF OInv, Inv, ObjectsOK, ObjectOK
  <2>6. /\ ~hist[w][n].gone
        /\ \/ hist[w][k].gone
           \/ hist[w][k].spec # hist[w][n].spec
           \/ hist[w][k].del # hist[w][n].del
    BY <2>1, <2>3 DEF Unread, ByUser
  <2>7. \/ mem[w][k].gone # mem[w][n].gone
        \/ mem[w][k].spec # mem[w][n].spec
        \/ mem[w][k].del # mem[w][n].del
    BY <2>5, <2>6 DEF Alike
  <2>8. SpecificationChanged(mem[w][k], mem[w][n])
    <3>1. ASSUME NEW a \in Versions, NEW b \in Versions,
                 [a EXCEPT !.rv = 0] = [b EXCEPT !.rv = 0]
          PROVE  a.gone = b.gone /\ a.spec = b.spec /\ a.del = b.del
      BY <3>1 DEF Versions
    <3>2. QED
      BY <2>5, <2>7, <3>1 DEF SpecificationChanged
  <2>9. QED
    BY <2>1, <2>3, <2>8 DEF Enqueues, Tells
<1>3. QED
  BY <1>1, <1>2

LEMMA UnreadGoes == ASSUME EInv PROVE NoLostEdit
<1>1. SUFFICES ASSUME NEW w \in Works, NEW n, Unread(w, n)
               PROVE  \/ w \in pending \cup deferred
                      \/ \E i \in 1..Len(notif[w]) :
                            notif[w][i].new >= n /\ Enqueues(w, notif[w][i])
                      \/ Starts(w)
  BY DEF NoLostEdit, Unread, Starts
<1>2. Waits(w, n)
  BY <1>1, UnreadIn DEF EInv, OInv, UnreadWaits
<1>3. \A i \in 1..Len(notif[w]) : Tells(notif[w][i], n) =>
          notif[w][i].new >= n /\ Enqueues(w, notif[w][i])
  BY <1>1, TellsEnqueues DEF EInv
<1>4. QED
  BY <1>2, <1>3 DEF Waits

(* Nothing becomes unread while nothing is delivered. *)
LEMMA UnreadStays ==
    ASSUME Inv, Inv', NEW w \in Works, Grows(hist[w], hist'[w]),
           Len(mem'[w]) >= Len(mem[w]), read'[w] = read[w],
           NEW n, Unread(w, n)', n <= Len(mem[w])
    PROVE  Unread(w, n)
<1>1. /\ Len(mem[w]) \in Nat /\ Len(hist[w]) \in Nat /\ Len(hist'[w]) \in Nat
      /\ Len(mem[w]) <= Len(hist[w]) /\ read[w] \in Nat
  BY Lengths, LenProperties DEF Inv, TypeOK
<1>2. Len(mem'[w]) \in Nat
  BY LenProperties DEF Inv, TypeOK
<1>3. n \in read[w] + 1 .. Len(mem'[w])
  BY DEF Unread, Newest
<1>4. \A i \in 1..Len(hist[w]) : hist'[w][i] = hist[w][i]
  BY DEF Grows
<1>5. n \in 1..Len(hist[w]) /\ (n > 1 => n - 1 \in 1..Len(hist[w]))
  BY <1>1, <1>2, <1>3
<1>6. ByUser(w, n)
  <2>1. ByUser(w, n)'
    BY DEF Unread
  <2>2. QED
    BY <1>4, <1>5, <2>1 DEF ByUser
<1>7. \A i \in n .. Len(mem[w]) : ~hist[w][i].gone
  <2>1. ASSUME NEW i \in n .. Len(mem[w]) PROVE ~hist[w][i].gone
    <3>1. i \in 1..Len(hist[w]) /\ i \in n .. Len(mem'[w])
      BY <1>1, <1>2, <1>3, <2>1
    <3>2. QED
      BY <1>4, <3>1 DEF Unread, Newest
  <2>2. QED
    BY <2>1
<1>8. QED
  BY <1>1, <1>2, <1>3, <1>6, <1>7 DEF Unread, Newest

(* A step that delivers nothing, if what waits goes on waiting. *)
LEMMA EditsKept ==
    ASSUME EInv, [Next]_vars,
           \A w \in Works : Len(mem'[w]) = Len(mem[w]),
           \A w \in Works : \/ read'[w] = Newest(w)
                            \/ /\ read'[w] = read[w]
                               /\ \A n : Unread(w, n) /\ Waits(w, n) => Waits(w, n)'
    PROVE  EInv'
<1>1. OInv /\ OInv' /\ Inv /\ Inv'
  BY NextObjects DEF EInv, OInv
<1>2. ASSUME NEW w \in Works, NEW n \in Nat, Unread(w, n)' PROVE Waits(w, n)'
  <2>1. CASE read'[w] = Newest(w)
    <3>1. n \in Len(mem[w]) + 1 .. Len(mem[w])
      BY <1>2, <2>1 DEF Unread, Newest
    <3>2. Len(mem[w]) \in Nat
      BY <1>1, Lengths
    <3>3. QED
      BY <3>1, <3>2
  <2>2. CASE read'[w] = read[w]
             /\ \A k : Unread(w, k) /\ Waits(w, k) => Waits(w, k)'
    <3>1. Grows(hist[w], hist'[w]) /\ Len(mem[w]) \in Nat
      BY <1>1, HistoryGrows, Lengths
    <3>2. n <= Len(mem[w]) /\ Len(mem'[w]) >= Len(mem[w])
      BY <1>2, <3>1 DEF Unread, Newest
    <3>3. Unread(w, n)
      BY <1>1, <1>2, <2>2, <3>1, <3>2, UnreadStays
    <3>4. Waits(w, n)
      BY <3>3 DEF EInv, UnreadWaits
    <3>5. QED
      BY <2>2, <3>3, <3>4
  <2>3. QED
    BY <2>1, <2>2
<1>3. QED
  BY <1>1, <1>2 DEF EInv, UnreadWaits

LEMMA StillWaits ==
    ASSUME NEW w, notif'[w] = notif[w],
           w \in pending \cup deferred =>
               w \in (pending \cup deferred)' \/ Starts(w)',
           Starts(w) => Starts(w)'
    PROVE  \A n : Waits(w, n) => Waits(w, n)'
BY DEF Waits

LEMMA StillStarts ==
    ASSUME NEW w,
           \A p \in Procs : job[p].pc = "start" /\ active[p] = w =>
               job'[p].pc = "start" /\ active'[p] = w
    PROVE  Starts(w) => Starts(w)'
BY DEF Starts

LEMMA ChangedLength ==
    ASSUME Inv, Inv', NEW w \in Works, NEW n, NEW v,
           mem' = [mem EXCEPT ![w] = [mem[w] EXCEPT ![n] = v]]
    PROVE  \A x \in Works : Len(mem'[x]) = Len(mem[x])
<1>1. /\ mem'[w] = [mem[w] EXCEPT ![n] = v]
      /\ \A x \in Works \ {w} : mem'[x] = mem[x]
  BY DEF Inv, TypeOK
<1>2. mem[w] \in Seq(Versions) /\ mem'[w] \in Seq(Versions)
  BY DEF Inv, TypeOK
<1>3. DOMAIN mem[w] = 1..Len(mem[w]) /\ DOMAIN mem'[w] = 1..Len(mem'[w])
      /\ Len(mem[w]) \in Nat /\ Len(mem'[w]) \in Nat
  BY <1>2, LenProperties
<1>4. DOMAIN mem'[w] = DOMAIN mem[w]
  BY <1>1
<1>5. Len(mem'[w]) = Len(mem[w])
  BY <1>3, <1>4
<1>6. QED
  BY <1>1, <1>5

LEMMA DeliverEdit ==
    ASSUME EInv, [Next]_vars, NEW w \in Works, Deliver(w) PROVE EInv'
<1> DEFINE m == Newest(w) + 1
           kind == IF hist[w][m].gone THEN "delete"
                   ELSE IF Cached(w) THEN "update" ELSE "add"
           e == [kind |-> kind, old |-> m - 1, new |-> m]
<1>1. OInv /\ OInv' /\ Inv /\ Inv'
  BY NextObjects DEF EInv, OInv
<1>2. /\ mem' = [mem EXCEPT ![w] = Append(mem[w], hist[w][m])]
      /\ notif' = [notif EXCEPT ![w] = Append(notif[w], e)]
      /\ Newest(w) < Len(hist[w])
      /\ UNCHANGED <<hist, pending, deferred, active, job, read>>
  BY DEF Deliver, server, workqueue
<1>3. /\ Newest(w) = Len(mem[w]) /\ Len(mem[w]) \in Nat /\ m \in 1..Len(hist[w])
      /\ m \in Nat
  BY <1>1, <1>2, Lengths DEF Newest
<1>4. \/ e.kind = "delete" /\ hist[w][m].gone
      \/ e.kind = "update" /\ Cached(w)
      \/ e.kind = "add"
  OBVIOUS
<1>5. e.old = m - 1 /\ e.new = m
  OBVIOUS
<1>6. Len(mem'[w]) = m
  <2>1. mem[w] \in Seq(Versions) /\ hist[w][m] \in Versions
    BY <1>1, <1>3, ElementOfSeq DEF Inv, TypeOK
  <2>2. mem'[w] = Append(mem[w], hist[w][m])
    BY <1>1, <1>2 DEF Inv, TypeOK
  <2> HIDE DEF m
  <2>3. QED
    BY <1>3, <2>1, <2>2, AppendKeeps DEF m
<1> HIDE DEF e
<1>7. /\ Len(notif'[w]) = Len(notif[w]) + 1 /\ Len(notif[w]) \in Nat
      /\ notif'[w][Len(notif[w]) + 1] = e
      /\ \A i \in 1..Len(notif[w]) : notif'[w][i] = notif[w][i]
  <2>1. notif[w] \in Seq(Notifs) /\ notif'[w] \in Seq(Notifs)
    BY <1>1 DEF Inv, TypeOK
  <2>2. notif'[w] = Append(notif[w], e)
    BY <1>1, <1>2 DEF Inv, TypeOK
  <2>3. Len(notif[w]) \in Nat /\ notif[w] \in Seq(Notifs \cup {e})
    <3>1. notif[w] \in [1..Len(notif[w]) -> Notifs] /\ Len(notif[w]) \in Nat
      BY <2>1, LenProperties
    <3>2. QED
      BY <3>1, SeqDef
  <2>4. QED
    BY <2>2, <2>3, AppendProperties
<1>8. ASSUME NEW x \in Works, NEW n \in Nat, Unread(x, n)' PROVE Waits(x, n)'
  <2>1. CASE x # w
    <3>1. mem'[x] = mem[x] /\ notif'[x] = notif[x]
      BY <1>1, <1>2, <2>1 DEF Inv, TypeOK
    <3>2. Unread(x, n)
      BY <1>2, <1>8, <3>1 DEF Unread, ByUser, Newest
    <3>3. Waits(x, n)
      BY <3>2 DEF EInv, UnreadWaits
    <3>4. QED
      BY <1>2, <3>1, <3>3 DEF Waits, Starts
  <2>2. CASE x = w /\ n <= Len(mem[w])
    <3>1. Grows(hist[w], hist'[w]) /\ Len(mem'[w]) >= Len(mem[w])
      BY <1>1, <1>3, <1>6, HistoryGrows
    <3>2. Unread(w, n)
      BY <1>1, <1>2, <1>8, <2>2, <3>1, UnreadStays
    <3>3. Waits(w, n)
      BY <3>2 DEF EInv, UnreadWaits
    <3>4. QED
      BY <1>2, <1>7, <2>2, <3>3 DEF Waits, Starts
  <2>3. CASE x = w /\ ~(n <= Len(mem[w]))
    <3>1. n = m
      BY <1>3, <1>6, <1>8, <2>3 DEF Unread, Newest
    <3>2. ~hist[w][m].gone
      BY <1>2, <1>8, <2>3, <3>1 DEF Unread, ByUser
    <3>3. e.kind = "update" => m > 1
      BY <1>1, <1>4, <1>3, CachedOK
    <3>4. Tells(e, m)
      BY <1>3, <1>5, <3>3 DEF Tells
    <3>5. QED
      BY <1>7, <2>3, <3>1, <3>4 DEF Waits
  <2>4. QED
    BY <2>1, <2>2, <2>3
<1>9. QED
  BY <1>1, <1>8 DEF EInv, UnreadWaits

LEMMA HandleEdit ==
    ASSUME EInv, [Next]_vars, NEW w \in Works, Handle(w) PROVE EInv'
<1>1. OInv /\ OInv' /\ Inv /\ Inv'
  BY NextObjects DEF EInv, OInv
<1>2. /\ notif[w] # <<>> /\ notif' = [notif EXCEPT ![w] = Tail(notif[w])]
      /\ UNCHANGED <<hist, mem, active, deferred, job, read>>
      /\ IF Enqueues(w, Head(notif[w])) THEN pending' = pending \cup {w}
                                        ELSE pending' = pending
  BY DEF Handle, Q!Request, server, workqueue
<1>3. ASSUME NEW n, Unread(w, n), Waits(w, n) PROVE Waits(w, n)'
  <2>1. CASE w \in pending \cup deferred \/ Starts(w)
    BY <1>2, <2>1 DEF Waits, Starts
  <2>2. ASSUME NEW i \in 1..Len(notif[w]), Tells(notif[w][i], n)
        PROVE  Waits(w, n)'
    <3>1. notif[w] \in Seq(Notifs) /\ notif'[w] = Tail(notif[w])
      BY <1>1, <1>2 DEF Inv, TypeOK
    <3>2. /\ Head(notif[w]) = notif[w][1] /\ Len(notif[w]) \in Nat
          /\ Len(Tail(notif[w])) = Len(notif[w]) - 1
          /\ \A k \in 1..Len(Tail(notif[w])) : Tail(notif[w])[k] = notif[w][k + 1]
      BY <1>2, <3>1, HeadTailProperties, LenProperties
    <3>3. CASE i = 1
      <4>1. Enqueues(w, Head(notif[w]))
        BY <1>1, <1>3, <2>2, <3>2, <3>3, TellsEnqueues
      <4>2. QED
        BY <1>2, <4>1 DEF Waits
    <3>4. CASE i # 1
      <4>1. PICK k : k = i - 1
        OBVIOUS
      <4>2. k \in 1..Len(Tail(notif[w])) /\ i = k + 1
        BY <2>2, <3>2, <3>4, <4>1
      <4>3. Tail(notif[w])[k] = notif[w][i]
        BY <3>2, <4>2
      <4>4. k \in 1..Len(notif'[w]) /\ Tells(notif'[w][k], n)
        BY <2>2, <3>1, <4>2, <4>3
      <4>5. QED
        BY <4>4 DEF Waits
    <3>5. QED
      BY <3>3, <3>4
  <2>3. QED
    BY <1>3, <2>1, <2>2 DEF Waits
<1>4. ASSUME NEW x \in Works, x # w, NEW n, Waits(x, n) PROVE Waits(x, n)'
  <2>1. notif'[x] = notif[x]
    BY <1>1, <1>2, <1>4 DEF Inv, TypeOK
  <2>2. QED
    BY <1>2, <1>4, <2>1 DEF Waits, Starts
<1>5. QED
  BY <1>2, <1>3, <1>4, EditsKept

LEMMA ResyncEdit ==
    ASSUME EInv, [Next]_vars, NEW w \in Works, Resync(w) PROVE EInv'
<1>1. Inv
  BY DEF EInv, OInv
<1>2. /\ UNCHANGED <<hist, mem, pending, deferred, active, job, read>>
      /\ notif[w] = <<>> /\ \A x \in Works \ {w} : notif'[x] = notif[x]
  BY <1>1 DEF Resync, server, workqueue, Inv, TypeOK
<1>3. Len(notif[w]) = 0
  BY <1>2, EmptySeq
<1>4. ASSUME NEW x \in Works, NEW n, Waits(x, n) PROVE Waits(x, n)'
  BY <1>2, <1>3, <1>4 DEF Waits, Starts
<1>5. QED
  BY <1>2, <1>4, EditsKept

LEMMA RestartEdit ==
    ASSUME EInv, [Next]_vars, Crash \/ NilClient PROVE EInv'
<1>1. OInv /\ OInv' /\ Inv /\ Inv'
  BY NextObjects DEF EInv, OInv
<1>2. /\ mem' = hist /\ hist' = hist /\ read' = [w \in Works |-> 0]
      /\ notif' = [w \in Works |->
                    IF Exists(w)
                    THEN <<[kind |-> "add", old |-> 0, new |-> Len(hist[w])]>>
                    ELSE <<>>]
  BY DEF Crash, NilClient, Restart, server
<1>3. ASSUME NEW w \in Works, NEW n \in Nat, Unread(w, n)' PROVE Waits(w, n)'
  <2> DEFINE e == [kind |-> "add", old |-> 0, new |-> Len(hist[w])]
  <2>1. n \in 1..Len(hist[w]) /\ \A i \in n..Len(hist[w]) : ~hist[w][i].gone
    BY <1>2, <1>3 DEF Unread, Newest
  <2>2. Len(hist[w]) \in Nat
    BY <1>1, Lengths
  <2>3. Exists(w)
    <3>1. Len(hist[w]) \in n..Len(hist[w]) /\ Len(hist[w]) # 0
      BY <2>1, <2>2
    <3>2. hist[w] # <<>>
      BY <3>1, EmptySeq
    <3>3. QED
      BY <2>1, <3>1, <3>2 DEF Exists, Latest
  <2>4. notif'[w] = <<e>>
    BY <1>2, <2>3
  <2>5. Tells(e, n)
    BY <2>1, <2>2 DEF Tells
  <2> HIDE DEF e
  <2>6. Len(notif'[w]) = 1 /\ notif'[w][1] = e
    BY <2>4
  <2>7. QED
    BY <2>5, <2>6 DEF Waits
<1>4. QED
  BY <1>1, <1>3 DEF EInv, UnreadWaits

(* A step that neither reads nor delivers nor handles a notification. *)
LEMMA QuietEdit ==
    ASSUME EInv, [Next]_vars,
           \A w \in Works : Len(mem'[w]) = Len(mem[w]),
           UNCHANGED <<read, notif>>,
           \A w \in Works : w \in pending \cup deferred =>
               w \in (pending \cup deferred)' \/ Starts(w)',
           \A p \in Procs : job[p].pc = "start" =>
               job'[p].pc = "start" /\ active'[p] = active[p]
    PROVE  EInv'
<1>1. ASSUME NEW w \in Works, NEW n, Waits(w, n) PROVE Waits(w, n)'
  <2>1. Starts(w) => Starts(w)'
    BY DEF Starts
  <2>2. QED
    BY <1>1, <2>1, StillWaits
<1>2. QED
  BY <1>1, EditsKept

LEMMA OutsideEdit ==
    ASSUME EInv, [Next]_vars,
           \/ \E w \in Works : User(w) \/ Fire(w)
           \/ \E c \in Clusters : Join(c) \/ ClusterDown(c) \/ ClusterUp(c)
           \/ UNCHANGED vars
    PROVE  EInv'
<1>1. UNCHANGED <<mem, active, job, read, notif>>
  BY Zenon DEF User, Create, Edit, Delete, Fire, Q!Fire, Join, ClusterDown, ClusterUp,
         vars, informer, workqueue
<1>2. \A w \in Works : w \in pending \cup deferred => w \in (pending \cup deferred)'
  BY Zenon DEF User, Create, Edit, Delete, Fire, Q!Fire, Join, ClusterDown, ClusterUp,
         vars, workqueue
<1>3. QED
  BY <1>1, <1>2, QuietEdit

LEMMA ReaperEdit ==
    ASSUME EInv, [Next]_vars, NEW r \in reapers, Reaper(r) PROVE EInv'
<1>0. Inv
  BY DEF EInv, OInv
<1>1. UNCHANGED <<mem, pending, deferred, active, read, notif>>
  BY ZenonT(30) DEF Reaper, ReaperClients, ReaperDelete, informer, workqueue
<1>2. ASSUME NEW p \in Procs, job[p].pc = "start"
      PROVE  job'[p].pc = "start" /\ active'[p] = active[p]
  <2>1. UNCHANGED job \/ \E c, o : WriteMember(None, c, o, None, NoJob)
    BY Zenon DEF Reaper, ReaperClients, ReaperDelete
  <2>2. ASSUME NEW c, NEW o, WriteMember(None, c, o, None, NoJob)
        PROVE  job'[p] = job[p]
    BY <1>2, <2>2, NoneElsewhere DEF WriteMember
  <2>3. QED
    BY <1>1, <1>2, <2>1, <2>2
<1>3. QED
  BY <1>1, <1>2, QuietEdit

LEMMA BeginEdit ==
    ASSUME EInv, [Next]_vars, NEW p \in Procs, NEW w \in Works, Begin(p, w)
    PROVE  EInv'
<1> DEFINE s == [NoJob EXCEPT !.pc = "start"]
<1>0. Inv
  BY DEF EInv, OInv
<1>1. /\ UNCHANGED <<mem, deferred, read, notif>>
      /\ active[p] = None /\ pending' = pending \ {w}
      /\ active' = [active EXCEPT ![p] = w] /\ job' = [job EXCEPT ![p] = s]
  BY DEF Begin, Q!Begin, informer
<1>2. s.pc = "start"
  BY FinishOK DEF Jobs
<1> HIDE DEF s
<1>3. /\ active'[p] = w /\ job'[p].pc = "start"
      /\ \A q \in Procs \ {p} : active'[q] = active[q] /\ job'[q] = job[q]
  BY <1>0, <1>1, <1>2 DEF Inv, TypeOK, Q!SFTypeOK
<1>4. job[p].pc # "start"
  BY <1>0, <1>1, ActiveOK DEF Fits, JobFits
<1>5. Starts(w)'
  BY <1>3 DEF Starts
<1>6. \A x \in Works : x \in pending \cup deferred =>
          x \in (pending \cup deferred)' \/ Starts(x)'
  BY <1>1, <1>5
<1>7. QED
  BY <1>1, <1>3, <1>4, <1>6, QuietEdit

(* The steps of a worker that has read. *)
LEMMA WorkerEdit ==
    ASSUME EInv, [Next]_vars, NEW p \in Procs,
           Put(p) \/ Decode(p) \/ SyncWork(p) \/ Fail(p) \/ Done(p)
    PROVE  EInv'
<1>0. Inv /\ Inv'
  BY NextInv DEF EInv, OInv
<1>1. UNCHANGED <<read, notif>>
  BY ZenonT(30) DEF Put, Decode, SyncWork, SyncClients, SyncGet, SyncCreate, SyncUpdate,
         Fail, Done, informer
<1>2. job[p].pc # "start"
  BY ZenonT(30) DEF Put, Decode, SyncWork, SyncClients, SyncGet, SyncCreate, SyncUpdate,
         Target, Fail, Done
<1>3. \A w \in Works : w \in pending \cup deferred => w \in (pending \cup deferred)'
  BY Zenon DEF Put, Decode, SyncWork, SyncClients, SyncGet, SyncCreate, SyncUpdate,
         Fail, Done, workqueue, Q!Defer, Q!End
<1>4. \A q \in Procs \ {p} : active'[q] = active[q]
  <2>1. active \in [Procs -> Works \cup {None}]
    BY <1>0 DEF Inv, TypeOK, Q!SFTypeOK
  <2>2. active' = active \/ active' = [active EXCEPT ![p] = None]
    BY Zenon DEF Put, Decode, SyncWork, SyncClients, SyncGet, SyncCreate, SyncUpdate,
           Fail, Done, workqueue, Q!Defer, Q!End
  <2>3. QED
    BY <2>1, <2>2
<1>5. \A q \in Procs \ {p} : job[q].pc = "start" => job'[q] = job[q]
  <2>1. \/ \E j : job' = [job EXCEPT ![p] = j]
        \/ \E c, o, v, j : WriteMember(p, c, o, v, j)
    <3>1. CASE Put(p) \/ Decode(p) \/ Fail(p) \/ Done(p)
      BY ZenonT(30), <1>0, <3>1 DEF Put, Decode, Fail, Done, Inv, TypeOK
    <3>2. CASE SyncWork(p)
      BY ZenonT(30), <1>0, <3>2 DEF SyncWork, SyncClients, SyncGet, SyncCreate, SyncUpdate
    <3>3. QED
      BY <3>1, <3>2
  <2>2. QED
    BY <1>0, <2>1 DEF WriteMember, Inv, TypeOK
<1>6. \A w \in Works : Len(mem'[w]) = Len(mem[w])
  <2>1. CASE ~Decode(p)
    BY Zenon, <2>1 DEF Put, SyncWork, SyncClients, SyncGet, SyncCreate, SyncUpdate,
                Fail, Done, informer
  <2>2. CASE Decode(p)
    <3> DEFINE v == [hist[active[p]][job[p].to] EXCEPT !.gone = FALSE]
    <3>1. mem' = [mem EXCEPT ![active[p]][job[p].at] = v] /\ active[p] \in Works
      BY <1>0, <2>2, ActiveOK DEF Decode
    <3> HIDE DEF v
    <3>2. PICK w, n : w = active[p] /\ n = job[p].at
      OBVIOUS
    <3>3. w \in Works /\ mem' = [mem EXCEPT ![w] = [mem[w] EXCEPT ![n] = v]]
      BY <3>1, <3>2
    <3>4. QED
      BY <1>0, <3>3, ChangedLength
  <2>3. QED
    BY <2>1, <2>2
<1>7. QED
  BY <1>1, <1>2, <1>3, <1>4, <1>5, <1>6, QuietEdit

(* What syncHandler reads is read up to the newest version. *)
LEMMA ReadEdit ==
    ASSUME EInv, [Next]_vars, NEW p \in Procs, Sync(p) PROVE EInv'
<1> DEFINE w == active[p]
<1>0. Inv /\ Inv' /\ Reads(p)
  BY NextInv DEF EInv, OInv, Sync, SyncNotFound, SyncAddFinalizer,
                 SyncRemoveFinalizer, SyncApply
<1>1. /\ w \in Works
      /\ UNCHANGED <<notif, pending, deferred, active>>
  BY <1>0, ReadOK
<1>2. /\ read'[w] = Newest(w)
      /\ \A x \in Works \ {w} : read'[x] = read[x]
  BY <1>0, <1>1 DEF Reads, Inv, TypeOK
<1>3. \A q \in Procs \ {p} : job'[q] = job[q]
  BY <1>0 DEF Sync, SyncNotFound, SyncAddFinalizer, SyncRemoveFinalizer,
              SyncApply, Inv, TypeOK
<1>4. ASSUME NEW x \in Works, x # w, NEW n, Waits(x, n) PROVE Waits(x, n)'
  <2>1. Starts(x) => Starts(x)'
    BY <1>1, <1>3, <1>4 DEF Starts
  <2>2. QED
    BY <1>1, <1>4, <2>1, StillWaits
<1>5. \A x \in Works : Len(mem'[x]) = Len(mem[x])
  <2>1. CASE UNCHANGED mem
    BY <2>1
  <2>2. CASE SyncAddFinalizer(p) \/ SyncRemoveFinalizer(p)
    <3>1. PICK b \in BOOLEAN : mem' = [mem EXCEPT ![w][Newest(w)].fin = b]
      BY <2>2 DEF SyncAddFinalizer, SyncRemoveFinalizer
    <3>2. PICK u, n : u = w /\ n = Newest(w)
      OBVIOUS
    <3>3. PICK v : v = [mem[u][n] EXCEPT !.fin = b]
      OBVIOUS
    <3>4. u \in Works /\ mem' = [mem EXCEPT ![u] = [mem[u] EXCEPT ![n] = v]]
      BY <1>1, <3>1, <3>2, <3>3
    <3>5. QED
      BY <1>0, <3>4, ChangedLength
  <2>3. QED
    BY <2>1, <2>2 DEF Sync, SyncNotFound, SyncApply
<1>6. QED
  BY <1>2, <1>4, <1>5, EditsKept

LEMMA InitEdits == ASSUME Init PROVE EInv
<1>1. OInv /\ \A w \in Works : Len(mem[w]) = 0
  BY InitObjects, EmptySeq DEF Init
<1>2. ASSUME NEW w \in Works, NEW n \in Nat PROVE ~Unread(w, n)
  <2>1. Inv
    BY <1>1 DEF OInv
  <2>2. QED
    BY <1>1, <2>1, UnreadIn
<1>3. QED
  BY <1>1, <1>2 DEF EInv, UnreadWaits

LEMMA NextEdits == ASSUME EInv, [Next]_vars PROVE EInv'
<1>1. ASSUME NEW w \in Works, User(w) \/ Informer(w) \/ Fire(w) PROVE EInv'
  BY <1>1, OutsideEdit, DeliverEdit, HandleEdit, ResyncEdit DEF Informer
<1>2. ASSUME NEW p \in Procs, Worker(p) \/ \E w \in Works : Begin(p, w)
      PROVE  EInv'
  BY <1>2, ReadEdit, WorkerEdit, BeginEdit DEF Worker
<1>3. ASSUME NEW r \in reapers, Reaper(r) PROVE EInv'
  BY <1>3, ReaperEdit
<1>4. QED
  BY <1>1, <1>2, <1>3, OutsideEdit, RestartEdit DEF Next

(* A change that a user made and the informer delivered is never           *)
(* forgotten, although OnUpdate compares with an object that the worker    *)
(* writes to without a lock.                                               *)
THEOREM EditsAreServed == Spec => []NoLostEdit
<1>1. Init => EInv
  BY InitEdits
<1>2. EInv /\ [Next]_vars => EInv'
  BY NextEdits
<1>3. EInv => NoLostEdit
  BY UnreadGoes
<1>4. QED
  BY <1>1, <1>2, <1>3, PTL DEF Spec
-----------------------------------------------------------------------------
(* What is settled *)

Alone == \A p, q \in Procs : active[p] = active[q] /\ active[p] # None => p = q

Applying == {"clients", "get", "create", "update"}
Looping == {"get", "create", "update"}

(* A deletion is not taken back. *)
DelStays(h) ==
    \A n \in 1..Len(h) :
        h[n].del => h[Len(h)].del \/ \E m \in 1..Len(h) : h[m].gone

(* The newest object has the finalizer of the last version. *)
Marked(w) ==
    Edited(w) /\ Len(mem[w]) = Len(hist[w]) => mem[w][Len(mem[w])].fin

(* A worker applies what it read last; a response is newer than the object *)
(* that was sent.                                                          *)
OnWay(p) ==
    /\ job[p].pc = "decode" => job[p].to > job[p].at
    /\ job[p].pc \in Applying => job[p].at = read[active[p]]
    /\ job[p].pc \in Looping => job[p].nils = {}

(* The last version is a user's and has been read. *)
Current(w) == Edited(w) /\ read[w] = Len(hist[w])

(* What Get found is still so; no response has put a uid into the manifest *)
(* at hand.                                                                *)
Found(p) ==
    LET x == member[job[p].c][Manifest(p).obj]
    IN  /\ job[p].uid = Manifest(p).uid
        /\ job[p].pc = "create" => x = None
        /\ job[p].pc = "update" => x # None /\ job[p].fresh

Reached(v, i) ==
    LET ms == v.spec.manifests
    IN  \A c \in v.spec.clusters :
            /\ member[c][ms[i].obj] # None
            /\ Prevails(ms, i) => member[c][ms[i].obj] = ms[i].ver

(* A worker has still to come to manifest i of w. *)
Ahead(w, i) ==
    \E p \in Procs :
        /\ active[p] = w
        /\ job[p].pc = "clients" \/ (job[p].pc \in Looping /\ job[p].m <= i)

Settling ==
    \A w \in Works : Current(w) =>
        \A i \in 1..Len(Latest(w).spec.manifests) :
            Reached(Latest(w), i) \/ Ahead(w, i)

Calmness ==
    /\ down = {} /\ joined = Clusters
    /\ Alone
    /\ \A w \in Works : read[w] <= Len(mem[w]) /\ DelStays(hist[w])

InTouch(p) == job[p].pc \in Looping /\ Current(active[p]) => Found(p)

Ways == \A p \in Procs : OnWay(p) /\ InTouch(p)

SInv ==
    /\ EInv /\ Calmness /\ Ways /\ Settling
    /\ \A w \in Works : Marked(w)

LEMMA OnlyOne ==
    ASSUME Orderly, Inv, Alone, NEW p \in Procs, NEW q \in Procs,
           job[p].pc # "idle", job[q].pc # "idle"
    PROVE  p = q
<1>1. active[p] \in Works /\ active[q] \in Works
  BY ActiveOK
<1>2. active[p] = active[q] /\ active[p] # None
  BY <1>1, NoneElsewhere DEF Orderly
<1>3. QED
  BY <1>2 DEF Alone

LEMMA EditedFacts ==
    ASSUME Orderly, Inv, NEW w \in Works, Edited(w)
    PROVE  /\ Len(hist[w]) \in Nat \ {0} /\ Latest(w) = hist[w][Len(hist[w])]
           /\ ~Latest(w).del /\ ~Latest(w).gone /\ Latest(w).fin
           /\ \A n \in 1..Len(hist[w]) : ~hist[w][n].gone
           /\ Latest(w).spec \in WorkSpecs /\ Latest(w).spec \in Specs
<1>1. Exists(w) /\ ~Latest(w).del /\ Latest(w).fin
      /\ \A n \in 1..Len(hist[w]) : ~hist[w][n].gone
  BY DEF Edited
<1>2. Latest(w) \in Versions /\ Len(hist[w]) \in Nat \ {0}
  BY <1>1, LatestOK DEF Inv
<1>3. Latest(w).spec \in Specs
  BY <1>2 DEF Versions
<1>4. QED
  BY <1>1, <1>2, <1>3, ConstantsOK DEF ConstantsOK, Exists, Latest

LEMMA CurrentSame ==
    ASSUME NEW w, hist'[w] = hist[w]
    PROVE  /\ Edited(w)' <=> Edited(w)
           /\ Latest(w)' = Latest(w)
           /\ read'[w] = read[w] => (Current(w)' <=> Current(w))
BY DEF Current, Edited, Exists, Latest, ByUser

(* What is stored is not read yet. *)
LEMMA NotCurrent ==
    ASSUME Inv, Calmness, NEW w \in Works, read'[w] = read[w],
           Len(hist'[w]) = Len(hist[w]) + 1
    PROVE  ~Current(w)'
<1>1. /\ Len(mem[w]) \in Nat /\ Len(hist[w]) \in Nat
      /\ Len(mem[w]) <= Len(hist[w]) /\ read[w] \in Nat /\ read[w] <= Len(mem[w])
  BY Lengths DEF Calmness, Inv, TypeOK
<1>2. QED
  BY <1>1 DEF Current

LEMMA NoReapers ==
    ASSUME Orderly, OInv, Calmness, NEW w \in Works, Edited(w)
    PROVE  reapers = {}
<1>1. ASSUME NEW r \in reapers PROVE FALSE
  <2>1. Inv
    BY DEF OInv
  <2>2. r.w \in Works /\ r.at \in 1..Len(mem[r.w]) /\ mem[r.w][r.at].del
    BY <2>1, ReaperIn DEF OInv, ReapersOK
  <2>3. r.w = w
    BY <2>2 DEF Orderly
  <2>4. PICK n : n = r.at
    OBVIOUS
  <2>5. n \in 1..Len(mem[w]) /\ mem[w][n].del
    BY <2>2, <2>3, <2>4
  <2>6. n \in 1..Len(hist[w])
    BY <2>1, <2>5, Lengths
  <2>7. hist[w][n].del
    BY <2>5 DEF OInv, ObjectsOK, ObjectOK, Alike
  <2>8. DelStays(hist[w])
    BY DEF Calmness
  <2>9. QED
    BY <2>1, <2>6, <2>7, <2>8, EditedFacts DEF DelStays
<1>2. QED
  BY <1>1

(* The version a worker applies, where it is the last. *)
LEMMA SpecIsLatest ==
    ASSUME Inv, NEW p \in Procs, job[p].pc \in Applying, Current(active[p]),
           OnWay(p)
    PROVE  /\ active[p] \in Works
           /\ mem[active[p]][job[p].at].spec = Latest(active[p]).spec
<1>1. PICK w, n : w = active[p] /\ n = job[p].at
  OBVIOUS
<1>2. w \in Works /\ n \in 1..Len(mem[w])
  BY <1>1, ActiveOK DEF Fits, JobFits, Applying
<1>3. mem[w][n].spec = hist[w][n].spec
  BY <1>2 DEF Inv, WorksFromOneVersion, CopyOf
<1>4. n = Len(hist[w])
  BY <1>1 DEF OnWay, Current
<1>5. QED
  BY <1>1, <1>2, <1>3, <1>4 DEF Latest

LEMMA ManifestSame ==
    ASSUME Inv, Inv', NEW p \in Procs, job[p].pc \in Looping,
           active'[p] = active[p], job'[p].at = job[p].at, job'[p].m = job[p].m,
           hist'[active[p]] = hist[active[p]],
           Len(mem'[active[p]]) >= Len(mem[active[p]])
    PROVE  Manifest(p)' = Manifest(p)
<1>1. PICK w, n : w = active[p] /\ n = job[p].at
  OBVIOUS
<1>2. w \in Works /\ n \in 1..Len(mem[w])
  BY <1>1, ActiveOK DEF Fits, JobFits, Looping
<1>3. Len(mem[w]) \in Nat /\ Len(mem'[w]) \in Nat
  BY <1>2, LenProperties DEF Inv, TypeOK
<1>4. n \in 1..Len(mem'[w])
  BY <1>1, <1>2, <1>3
<1>5. mem[w][n].spec = hist[w][n].spec /\ mem'[w][n].spec = hist'[w][n].spec
  BY <1>2, <1>4 DEF Inv, WorksFromOneVersion, CopyOf
<1>6. mem'[w][n].spec = mem[w][n].spec
  BY <1>1, <1>5
<1>7. QED
  BY <1>1, <1>6 DEF Manifest

-----------------------------------------------------------------------------
(* The parts that every step keeps *)

LEMMA WorldStep ==
    ASSUME Orderly, Inv, [Next]_vars, down = {}, joined = Clusters
    PROVE  down' = {} /\ joined' = Clusters
<1>1. ~CanFault
  BY DEF CanFault, Orderly, Inv, TypeOK
<1>2. ASSUME NEW w \in Works, User(w) \/ Informer(w) \/ Fire(w)
      PROVE  UNCHANGED <<down, joined>>
  BY Zenon, <1>2 DEF User, Create, Edit, Delete, Informer, Deliver, Resync, Handle,
              Fire, cluster, server
<1>3. ASSUME NEW p \in Procs, Worker(p) PROVE UNCHANGED <<down, joined>>
  <2>1. CASE Sync(p)
    BY Zenon, <2>1 DEF Sync, SyncNotFound, SyncAddFinalizer, SyncRemoveFinalizer,
                SyncApply, Reads, cluster, server
  <2>2. CASE SyncWork(p)
    BY Zenon, <2>2 DEF SyncWork, SyncClients, SyncCreate, SyncUpdate, SyncGet, cluster,
                server
  <2>3. CASE Put(p) \/ Decode(p) \/ Fail(p) \/ Done(p)
    BY Zenon, <2>3 DEF Put, Decode, Fail, Done, cluster, server
  <2>4. QED
    BY <1>3, <2>1, <2>2, <2>3 DEF Worker
<1>4. ASSUME NEW p \in Procs, NEW w \in Works, Begin(p, w)
      PROVE  UNCHANGED <<down, joined>>
  BY <1>4 DEF Begin, cluster, server
<1>5. ASSUME NEW r \in reapers, Reaper(r) PROVE UNCHANGED <<down, joined>>
  BY Zenon, <1>5 DEF Reaper, ReaperClients, ReaperDelete, cluster, server
<1>6. ASSUME NEW c \in Clusters, Join(c) \/ ClusterDown(c) \/ ClusterUp(c)
      PROVE  FALSE
  BY <1>1, <1>6 DEF Join, ClusterDown, ClusterUp
<1>7. CASE Crash \/ NilClient \/ UNCHANGED vars
  BY <1>7 DEF Crash, NilClient, Restart, vars, cluster, server
<1>8. QED
  BY <1>2, <1>3, <1>4, <1>5, <1>6, <1>7 DEF Next

LEMMA AloneStep ==
    ASSUME Inv, [Next]_vars, Alone PROVE Alone'
<1>0. active \in [Procs -> Works \cup {None}]
  BY DEF Inv, TypeOK, Q!SFTypeOK
<1>1. CASE UNCHANGED active
  BY <1>1 DEF Alone
<1>2. ASSUME NEW w \in Works, User(w) \/ Informer(w) \/ Fire(w)
      PROVE  UNCHANGED active
  BY Zenon, <1>2 DEF User, Create, Edit, Delete, Informer, Deliver, Resync, Handle,
              Fire, Q!Fire, Q!Request, workqueue
<1>3. ASSUME NEW p \in Procs, Worker(p), ~Done(p) PROVE UNCHANGED active
  <2>1. CASE Sync(p)
    BY Zenon, <2>1 DEF Sync, SyncNotFound, SyncAddFinalizer, SyncRemoveFinalizer,
                SyncApply, Reads, workqueue
  <2>2. CASE SyncWork(p)
    BY Zenon, <2>2 DEF SyncWork, SyncClients, SyncCreate, SyncUpdate, SyncGet, workqueue
  <2>3. CASE Put(p) \/ Decode(p) \/ Fail(p)
    BY Zenon, <2>3 DEF Put, Decode, Fail, Q!Defer, workqueue
  <2>4. QED
    BY <1>3, <2>1, <2>2, <2>3 DEF Worker
<1>4. ASSUME NEW p \in Procs, Done(p) PROVE Alone'
  BY <1>0, <1>4 DEF Done, Q!End, Alone
<1>5. ASSUME NEW p \in Procs, NEW w \in Works, Begin(p, w) PROVE Alone'
  BY <1>0, <1>5 DEF Begin, Q!Begin, Alone
<1>6. ASSUME NEW r \in reapers, Reaper(r) PROVE UNCHANGED active
  BY Zenon, <1>6 DEF Reaper, ReaperClients, ReaperDelete, workqueue
<1>7. ASSUME NEW c \in Clusters, Join(c) \/ ClusterDown(c) \/ ClusterUp(c)
      PROVE  UNCHANGED active
  BY <1>7 DEF Join, ClusterDown, ClusterUp, workqueue
<1>8. ASSUME Crash \/ NilClient PROVE Alone'
  BY <1>8 DEF Crash, NilClient, Restart, Q!Restart, Alone
<1>9. CASE UNCHANGED vars
  BY <1>1, <1>9 DEF vars, workqueue
<1>10. QED
  BY <1>1, <1>2, <1>3, <1>4, <1>5, <1>6, <1>7, <1>8, <1>9 DEF Next

(* A version that is stored upon a removal, or keeps the deletion. *)
LEMMA StoreDel ==
    ASSUME Inv, NEW w \in Works, NEW v, Store(w, v), v.del \in BOOLEAN,
           [v EXCEPT !.rv = Len(hist[w]) + 1].del = v.del,
           Exists(w) /\ Latest(w).del => v.del,
           \A x \in Works : DelStays(hist[x])
    PROVE  \A x \in Works : DelStays(hist'[x])
<1> DEFINE n == Len(hist[w])
<1>1. /\ \A x \in Works \ {w} : hist'[x] = hist[x]
      /\ Len(hist'[w]) = n + 1 /\ hist'[w][n + 1].del = v.del
      /\ \A i \in 1..n : hist'[w][i] = hist[w][i]
  BY StoreGrows DEF Inv, Grows
<1>2. n \in Nat /\ hist[w] \in Seq(Versions)
  BY Lengths
<1>3. ASSUME NEW i \in 1..n + 1, hist'[w][i].del, ~v.del
      PROVE  \E m \in 1..n + 1 : hist'[w][m].gone
  <2>1. i \in 1..n /\ hist[w][i].del
    BY <1>1, <1>2, <1>3
  <2>2. hist[w][n].del \/ \E m \in 1..n : hist[w][m].gone
    BY <2>1 DEF DelStays
  <2>3. CASE \E m \in 1..n : hist[w][m].gone
    BY <1>1, <1>2, <2>3
  <2>4. CASE hist[w][n].del
    <3>1. n \in 1..n /\ hist[w] # <<>>
      BY <1>2, <2>1, EmptySeq
    <3>2. hist[w][n].gone
      BY <1>3, <2>4, <3>1 DEF Exists, Latest
    <3>3. QED
      BY <1>1, <1>2, <3>1, <3>2
  <2>5. QED
    BY <2>2, <2>3, <2>4
<1>4. DelStays(hist'[w])
  BY <1>1, <1>3 DEF DelStays
<1>5. QED
  BY <1>1, <1>4

LEMMA DelStep ==
    ASSUME Inv, [Next]_vars, \A x \in Works : DelStays(hist[x])
    PROVE  \A x \in Works : /\ DelStays(hist'[x])
                            /\ hist'[x] = hist[x] \/ Len(hist'[x]) = Len(hist[x]) + 1
<1> DEFINE Goal == \A x \in Works :
              /\ DelStays(hist'[x])
              /\ hist'[x] = hist[x] \/ Len(hist'[x]) = Len(hist[x]) + 1
<1>1. CASE UNCHANGED hist
  BY <1>1
<1>s. ASSUME NEW w \in Works, NEW v, Store(w, v), v.del \in BOOLEAN,
             [v EXCEPT !.rv = Len(hist[w]) + 1].del = v.del,
             Exists(w) /\ Latest(w).del => v.del
      PROVE  Goal
  <2>1. \A x \in Works : DelStays(hist'[x])
    BY <1>s, StoreDel
  <2>2. \A x \in Works : hist'[x] = hist[x] \/ Len(hist'[x]) = Len(hist[x]) + 1
    BY <1>s, StoreGrows DEF Inv
  <2>3. QED
    BY <2>1, <2>2
<1>2. ASSUME NEW w \in Works, User(w) PROVE Goal
  <2>1. CASE Create(w)
    <3>1. PICK s \in Specs :
             Store(w, [spec |-> s, fin |-> FALSE, del |-> FALSE, gone |-> FALSE,
                       rv |-> 0, by |-> Len(hist[w]) + 1])
      BY <2>1 DEF Create
    <3>2. ~Exists(w)
      BY <2>1 DEF Create
    <3> HIDE DEF Goal
    <3>3. QED
      BY <1>s, <3>1, <3>2
  <2>2. CASE Edit(w)
    <3>1. PICK s \in Specs :
             Store(w, [Latest(w) EXCEPT !.spec = s, !.by = Len(hist[w]) + 1])
      BY Zenon, <2>2 DEF Edit
    <3>2. Latest(w) \in Versions
      BY <2>2, LatestOK DEF Edit, Inv
    <3>3. PICK v : v = [Latest(w) EXCEPT !.spec = s, !.by = Len(hist[w]) + 1]
      OBVIOUS
    <3>4. v.del = Latest(w).del /\ v.del \in BOOLEAN
          /\ [v EXCEPT !.rv = Len(hist[w]) + 1].del = v.del
      BY <3>2, <3>3 DEF Versions
    <3> HIDE DEF Goal
    <3>5. QED
      BY <1>s, <3>1, <3>3, <3>4
  <2>3. CASE Delete(w)
    <3>1. Store(w, [Latest(w) EXCEPT !.del = TRUE, !.gone = ~Latest(w).fin])
      BY <2>3 DEF Delete
    <3>2. Latest(w) \in Versions
      BY <2>3, LatestOK DEF Delete, Inv
    <3>3. PICK v : v = [Latest(w) EXCEPT !.del = TRUE, !.gone = ~Latest(w).fin]
      OBVIOUS
    <3>4. v.del /\ v.del \in BOOLEAN
          /\ [v EXCEPT !.rv = Len(hist[w]) + 1].del = v.del
      BY <3>2, <3>3 DEF Versions
    <3> HIDE DEF Goal
    <3>5. QED
      BY <1>s, <3>1, <3>3, <3>4
  <2>4. QED
    BY <1>2, <2>1, <2>2, <2>3 DEF User
<1>3. ASSUME NEW p \in Procs, Put(p) PROVE Goal
  <2>1. active[p] \in Works
    BY <1>3, ActiveOK DEF Put
  <2>2. PICK w, o : w = active[p] /\ o = mem[active[p]][job[p].at]
    OBVIOUS
  <2>3. PutAccepted(w, o) \/ UNCHANGED hist
    BY <1>3, <2>2 DEF Put
  <2>4. CASE PutAccepted(w, o)
    <3>1. PICK v : v = [Latest(w) EXCEPT !.spec = o.spec, !.fin = o.fin,
                                  !.by = Len(hist[w]) + 1,
                                  !.gone = Latest(w).del /\ ~o.fin]
      OBVIOUS
    <3>2. Store(w, v)
      BY <2>4, <3>1 DEF PutAccepted
    <3>3. Latest(w) \in Versions
      BY <2>1, <2>2, <2>4, LatestOK DEF PutAccepted, Inv
    <3>4. v.del = Latest(w).del /\ v.del \in BOOLEAN
          /\ [v EXCEPT !.rv = Len(hist[w]) + 1].del = v.del
      BY <3>1, <3>3 DEF Versions
    <3> HIDE DEF Goal
    <3>5. QED
      BY <1>s, <2>1, <2>2, <3>2, <3>4
  <2>5. QED
    BY <1>1, <2>3, <2>4
<1> HIDE DEF Goal
<1>4. UNCHANGED hist \/ (\E w \in Works : User(w)) \/ \E p \in Procs : Put(p)
  BY HistoryMoves
<1>5. QED
  BY <1>1, <1>2, <1>3, <1>4 DEF Goal

LEMMA MemoryMoves ==
    ASSUME [Next]_vars
    PROVE  \/ UNCHANGED mem
           \/ \E w \in Works : Deliver(w)
           \/ \E p \in Procs : SyncAddFinalizer(p) \/ SyncRemoveFinalizer(p)
           \/ \E p \in Procs : Decode(p)
           \/ Crash \/ NilClient
<1>1. ASSUME NEW w \in Works, User(w) \/ Informer(w) \/ Fire(w), ~Deliver(w)
      PROVE  UNCHANGED mem
  BY Zenon, <1>1 DEF User, Create, Edit, Delete, Informer, Resync, Handle, Fire, informer
<1>2. ASSUME NEW p \in Procs, Worker(p), ~SyncAddFinalizer(p),
             ~SyncRemoveFinalizer(p), ~Decode(p)
      PROVE  UNCHANGED mem
  <2>1. CASE Sync(p)
    BY Zenon, <1>2, <2>1 DEF Sync, SyncNotFound, SyncApply
  <2>2. CASE SyncWork(p)
    BY Zenon, <2>2 DEF SyncWork, SyncClients, SyncCreate, SyncUpdate, SyncGet, informer
  <2>3. CASE Put(p) \/ Fail(p) \/ Done(p)
    BY Zenon, <2>3 DEF Put, Fail, Done, informer
  <2>4. QED
    BY <1>2, <2>1, <2>2, <2>3 DEF Worker
<1>3. ASSUME NEW p \in Procs, NEW w \in Works, Begin(p, w) PROVE UNCHANGED mem
  BY <1>3 DEF Begin, informer
<1>4. ASSUME NEW r \in reapers, Reaper(r) PROVE UNCHANGED mem
  BY Zenon, <1>4 DEF Reaper, ReaperClients, ReaperDelete, informer
<1>5. ASSUME NEW c \in Clusters, Join(c) \/ ClusterDown(c) \/ ClusterUp(c)
      PROVE  UNCHANGED mem
  BY <1>5 DEF Join, ClusterDown, ClusterUp, informer
<1>6. CASE UNCHANGED vars
  BY <1>6 DEF vars, informer
<1>7. QED
  BY <1>1, <1>2, <1>3, <1>4, <1>5, <1>6 DEF Next

(* An object of w is changed in place. *)
LEMMA ChangedObject ==
    ASSUME Inv, NEW w \in Works, NEW n \in 1..Len(mem[w]), NEW v \in Versions,
           mem' = [mem EXCEPT ![w] = [mem[w] EXCEPT ![n] = v]]
    PROVE  /\ Len(mem'[w]) = Len(mem[w])
           /\ \A i \in 1..Len(mem[w]) : mem'[w][i] = IF i = n THEN v ELSE mem[w][i]
           /\ \A x \in Works \ {w} : mem'[x] = mem[x]
<1>1. mem[w] \in Seq(Versions)
  BY DEF Inv, TypeOK
<1>2. mem'[w] = [mem[w] EXCEPT ![n] = v] /\ \A x \in Works \ {w} : mem'[x] = mem[x]
  BY DEF Inv, TypeOK
<1>3. /\ Len([mem[w] EXCEPT ![n] = v]) = Len(mem[w])
      /\ \A i \in 1..Len(mem[w]) :
            [mem[w] EXCEPT ![n] = v][i] = IF i = n THEN v ELSE mem[w][i]
  BY <1>1, ExceptSeq
<1>4. QED
  BY <1>2, <1>3

LEMMA MarkedStep ==
    ASSUME OInv, [Next]_vars, NEW w \in Works, Marked(w),
           \A p \in Procs : OnWay(p),
           hist'[w] = hist[w] \/ Len(hist'[w]) = Len(hist[w]) + 1
    PROVE  Marked(w)'
<1> DEFINE n == Len(mem[w])
<1>1. OInv' /\ Inv /\ Inv'
  BY NextObjects DEF OInv
<1>2. n \in Nat /\ Len(hist[w]) \in Nat /\ n <= Len(hist[w])
      /\ mem[w] \in Seq(Versions)
  BY <1>1, Lengths
<1>3. CASE Len(mem'[w]) = n /\ Len(hist'[w]) = Len(hist[w]) + 1
  BY <1>2, <1>3 DEF Marked
<1>4. CASE hist'[w] = hist[w] /\ Len(mem'[w]) = n /\ (mem'[w][n].fin <=> mem[w][n].fin)
  BY <1>4, CurrentSame DEF Marked
<1>5. CASE UNCHANGED mem
  BY <1>3, <1>4, <1>5
<1>6. ASSUME NEW x \in Works, Deliver(x) PROVE Marked(w)'
  <2>1. /\ mem' = [mem EXCEPT ![x] = Append(mem[x], hist[x][Len(mem[x]) + 1])]
        /\ Len(mem[x]) < Len(hist[x]) /\ UNCHANGED hist
    BY <1>6 DEF Deliver, server, Newest
  <2>2. CASE x # w
    <3>1. mem'[w] = mem[w]
      BY <1>1, <2>1, <2>2 DEF Inv, TypeOK
    <3>2. QED
      BY <1>4, <2>1, <3>1
  <2>3. CASE x = w
    <3>1. mem'[w] = Append(mem[w], hist[w][n + 1]) /\ n + 1 \in 1..Len(hist[w])
      BY <1>1, <1>2, <2>1, <2>3 DEF Inv, TypeOK
    <3>2. hist[w][n + 1] \in Versions
      <4>1. hist[w] \in Seq(Versions)
        BY <1>1, Lengths
      <4> HIDE DEF n
      <4>2. QED
        BY <3>1, <4>1, ElementOfSeq
    <3>3. Len(mem'[w]) = n + 1 /\ mem'[w][n + 1] = hist[w][n + 1]
      BY <1>2, <3>1, <3>2, AppendKeeps
    <3>4. ASSUME Edited(w), Len(mem'[w]) = Len(hist[w]) PROVE mem'[w][Len(mem'[w])].fin
      BY <3>3, <3>4 DEF Edited, Latest
    <3>5. QED
      BY <2>1, <3>4, CurrentSame DEF Marked
  <2>4. QED
    BY <2>2, <2>3
<1>7. ASSUME NEW p \in Procs, SyncAddFinalizer(p) \/ SyncRemoveFinalizer(p)
      PROVE  Marked(w)'
  <2>1. Reads(p) /\ Cached(active[p])
    BY <1>7 DEF SyncAddFinalizer, SyncRemoveFinalizer
  <2>2. PICK x, i : x = active[p] /\ i = Len(mem[x])
    OBVIOUS
  <2>3. x \in Works /\ UNCHANGED hist
    BY <1>1, <2>1, <2>2, ReadOK
  <2>4. i \in 1..Len(mem[x]) /\ mem[x][i] \in Versions
    BY <1>1, <2>1, <2>2, <2>3, CachedOK, VersionOK DEF Newest, Inv
  <2>5. PICK b \in BOOLEAN : /\ mem' = [mem EXCEPT ![x][i].fin = b]
                             /\ ~b => mem[x][i].del
    BY <1>7, <2>2 DEF SyncAddFinalizer, SyncRemoveFinalizer, Terminating, Newest
  <2>6. PICK v : v = [mem[x][i] EXCEPT !.fin = b]
    OBVIOUS
  <2>7. v \in Versions /\ v.fin = b
    BY <2>4, <2>6 DEF Versions
  <2>8. mem' = [mem EXCEPT ![x] = [mem[x] EXCEPT ![i] = v]]
    BY <2>5, <2>6
  <2>9. /\ Len(mem'[x]) = Len(mem[x])
        /\ \A k \in 1..Len(mem[x]) : mem'[x][k] = IF k = i THEN v ELSE mem[x][k]
        /\ \A y \in Works \ {x} : mem'[y] = mem[y]
    BY <1>1, <2>3, <2>4, <2>7, <2>8, ChangedObject
  <2>10. CASE x # w
    <3>1. mem'[w] = mem[w]
      BY <2>9, <2>10
    <3>2. QED
      BY <1>4, <2>3, <3>1
  <2>11. CASE x = w /\ b
    <3>1. mem'[w][Len(mem'[w])] = v
      BY <2>2, <2>4, <2>9, <2>11
    <3>2. QED
      BY <2>7, <2>11, <3>1 DEF Marked
  <2>12. CASE x = w /\ ~b
    <3>1. ASSUME Edited(w), Len(mem[w]) = Len(hist[w]) PROVE FALSE
      <4>1. mem[w][i].del /\ i \in 1..Len(mem[w]) /\ i = Len(hist[w])
        BY <2>2, <2>4, <2>5, <2>12, <3>1
      <4>2. hist[w][i].del
        BY <4>1 DEF OInv, ObjectsOK, ObjectOK, Alike
      <4>3. QED
        BY <3>1, <4>1, <4>2 DEF Edited, Latest
    <3>2. Len(mem'[w]) = Len(mem[w])
      BY <2>9, <2>12
    <3>3. QED
      BY <2>3, <3>1, <3>2, CurrentSame DEF Marked
  <2>13. QED
    BY <2>10, <2>11, <2>12
<1>8. ASSUME NEW p \in Procs, Decode(p) PROVE Marked(w)'
  <2>1. PICK x, i, k : x = active[p] /\ i = job[p].at /\ k = job[p].to
    OBVIOUS
  <2>2. x \in Works /\ i \in 1..Len(mem[x]) /\ k \in 1..Len(hist[x]) /\ k > i
    BY <1>1, <1>8, <2>1, ActiveOK DEF Decode, Fits, JobFits, OnWay
  <2>3. PICK v : v = [hist[x][k] EXCEPT !.gone = FALSE]
    OBVIOUS
  <2>4. v \in Versions
    <3>1. hist[x] \in Seq(Versions)
      BY <1>1, <2>2, Lengths
    <3>2. hist[x][k] \in Versions
      BY <2>2, <3>1, ElementOfSeq
    <3>3. QED
      BY <2>3, <3>2 DEF Versions
  <2>5. mem' = [mem EXCEPT ![x] = [mem[x] EXCEPT ![i] = v]] /\ UNCHANGED hist
    BY <1>8, <2>1, <2>3 DEF Decode, server
  <2>6. /\ Len(mem'[x]) = Len(mem[x])
        /\ \A l \in 1..Len(mem[x]) : mem'[x][l] = IF l = i THEN v ELSE mem[x][l]
        /\ \A y \in Works \ {x} : mem'[y] = mem[y]
    BY <1>1, <2>2, <2>4, <2>5, ChangedObject
  <2>7. CASE x # w
    <3>1. mem'[w] = mem[w]
      BY <2>6, <2>7
    <3>2. QED
      BY <1>4, <2>5, <3>1
  <2>8. CASE x = w /\ i # n
    <3>1. n \in 1..Len(mem[w])
      BY <1>2, <2>2, <2>8
    <3>2. mem'[w][n] = mem[w][n] /\ Len(mem'[w]) = n
      BY <2>6, <2>8, <3>1
    <3>3. QED
      BY <1>4, <2>5, <3>2
  <2>9. CASE x = w /\ i = n
    <3>1. Len(mem'[w]) # Len(hist'[w])
      BY <1>2, <2>2, <2>5, <2>6, <2>9
    <3>2. QED
      BY <3>1 DEF Marked
  <2>10. QED
    BY <2>7, <2>8, <2>9
<1>9. CASE Crash \/ NilClient
  <2>1. mem' = hist /\ hist' = hist
    BY <1>9 DEF Crash, NilClient, Restart, server
  <2>2. QED
    BY <2>1, CurrentSame DEF Marked, Edited, Latest
<1>10. QED
  BY <1>5, <1>6, <1>7, <1>8, <1>9, MemoryMoves

LEMMA MemoryGrows ==
    ASSUME Inv, Inv', [Next]_vars, NEW w \in Works
    PROVE  Len(mem'[w]) >= Len(mem[w])
<1>1. Len(mem[w]) \in Nat /\ Len(hist[w]) \in Nat /\ Len(mem[w]) <= Len(hist[w])
  BY Lengths
<1>2. CASE UNCHANGED mem
  BY <1>1, <1>2
<1>3. ASSUME NEW x \in Works, Deliver(x) PROVE Len(mem'[w]) >= Len(mem[w])
  <2>1. /\ mem' = [mem EXCEPT ![x] = Append(mem[x], hist[x][Len(mem[x]) + 1])]
        /\ Len(mem[x]) < Len(hist[x])
    BY <1>3 DEF Deliver, Newest
  <2>2. CASE x # w
    <3>1. mem'[w] = mem[w]
      BY <2>1, <2>2 DEF Inv, TypeOK
    <3>2. QED
      BY <1>1, <3>1
  <2>3. CASE x = w
    <3>1. /\ mem'[w] = Append(mem[w], hist[w][Len(mem[w]) + 1])
          /\ Len(mem[w]) + 1 \in 1..Len(hist[w])
      BY <1>1, <2>1, <2>3 DEF Inv, TypeOK
    <3>2. PICK n : n = Len(mem[w]) + 1
      OBVIOUS
    <3>3. hist[w][n] \in Versions /\ mem[w] \in Seq(Versions)
      BY <3>1, <3>2, ElementOfSeq, Lengths
    <3>4. Len(mem'[w]) = Len(mem[w]) + 1
      BY <3>1, <3>2, <3>3, AppendKeeps
    <3>5. QED
      BY <1>1, <3>4
  <2>4. QED
    BY <2>2, <2>3
<1>4. ASSUME NEW p \in Procs,
             SyncAddFinalizer(p) \/ SyncRemoveFinalizer(p) \/ Decode(p)
      PROVE  Len(mem'[w]) >= Len(mem[w])
  <2>1. PICK n, v : mem' = [mem EXCEPT ![active[p]][n] = v]
    <3>1. CASE Decode(p)
      BY <3>1 DEF Decode
    <3>2. CASE SyncAddFinalizer(p) \/ SyncRemoveFinalizer(p)
      <4>1. PICK b, x, n : /\ mem' = [mem EXCEPT ![x][n].fin = b]
                           /\ x = active[p]
        BY <3>2 DEF SyncAddFinalizer, SyncRemoveFinalizer
      <4>2. mem' = [mem EXCEPT ![x][n] = [mem[x][n] EXCEPT !.fin = b]]
        BY <4>1
      <4>3. QED
        BY <4>1, <4>2
    <3>3. QED
      BY <1>4, <3>1, <3>2
  <2>2. PICK x : x = active[p]
    OBVIOUS
  <2>3. x \in Works
    BY <1>4, <2>2, ActiveOK DEF SyncAddFinalizer, SyncRemoveFinalizer, Reads, Decode
  <2>4. mem' = [mem EXCEPT ![x] = [mem[x] EXCEPT ![n] = v]]
    BY <2>1, <2>2
  <2>5. Len(mem'[w]) = Len(mem[w])
    BY <2>3, <2>4, ChangedLength
  <2>6. QED
    BY <1>1, <2>5
<1>5. CASE Crash \/ NilClient
  BY <1>1, <1>5 DEF Crash, NilClient, Restart
<1>6. QED
  BY <1>2, <1>3, <1>4, <1>5, MemoryMoves

-----------------------------------------------------------------------------
(* What every step keeps of SInv; what it has still to show is that        *)
(* workers stay on their way and that manifests are reached.               *)
LEMMA TouchIf ==
    ASSUME NEW p,
           \A w : job'[p].pc \in Looping /\ w = active'[p] /\ Current(w)' => Found(p)'
    PROVE  InTouch(p)'
<1>1. ASSUME job'[p].pc \in Looping, Current(active[p])' PROVE Found(p)'
  <2>1. PICK w : w = active'[p]
    OBVIOUS
  <2>2. Current(w)'
    BY <1>1, <2>1 DEF Current, Edited, Exists, Latest, ByUser
  <2>3. QED
    BY <1>1, <2>1, <2>2
<1>2. QED
  BY <1>1 DEF InTouch

LEMMA CommonStep ==
    ASSUME Orderly, SInv, [Next]_vars,
           \A w \in Works : read'[w] <= Len(mem'[w]),
           Ways', Settling'
    PROVE  SInv'
<1>1. EInv' /\ OInv /\ Inv
  BY NextEdits DEF SInv, EInv, OInv
<1>2. down' = {} /\ joined' = Clusters
  BY <1>1, WorldStep DEF SInv, Calmness
<1>3. Alone'
  BY <1>1, AloneStep DEF SInv, Calmness
<1>4. \A w \in Works : /\ DelStays(hist'[w])
                       /\ hist'[w] = hist[w] \/ Len(hist'[w]) = Len(hist[w]) + 1
  BY <1>1, DelStep DEF SInv, Calmness
<1>5. ASSUME NEW w \in Works PROVE Marked(w)'
  BY <1>1, <1>4, MarkedStep DEF SInv, Ways
<1>6. Calmness'
  BY <1>2, <1>3, <1>4 DEF Calmness
<1>7. QED
  BY <1>1, <1>5, <1>6 DEF SInv

SameWay(p) == job'[p] = job[p] /\ active'[p] = active[p]

Elsewhere(p) ==
    /\ job[p].pc \notin Applying /\ job'[p].pc \notin Applying
    /\ job'[p].pc = "decode" => job'[p].to > job'[p].at

(* A step that neither reads nor applies. *)
LEMMA AsideStep ==
    ASSUME Orderly, SInv, [Next]_vars, UNCHANGED <<read, member>>,
           \A p \in Procs : SameWay(p) \/ Elsewhere(p)
    PROVE  SInv'
<1>1. EInv' /\ Inv /\ Inv'
  BY NextEdits DEF SInv, EInv, OInv
<1>2. ASSUME NEW w \in Works PROVE read'[w] <= Len(mem'[w])
  <2>1. /\ read[w] \in Nat /\ Len(mem[w]) \in Nat /\ Len(mem'[w]) \in Nat
        /\ read[w] <= Len(mem[w])
    BY <1>1, LenProperties DEF SInv, Calmness, Inv, TypeOK
  <2>2. QED
    BY <1>1, <2>1, MemoryGrows
<1>3. \A w \in Works : hist'[w] = hist[w] \/ Len(hist'[w]) = Len(hist[w]) + 1
  BY <1>1, DelStep DEF SInv, Calmness
<1>4. ASSUME NEW w \in Works, Current(w)'
      PROVE  Current(w) /\ hist'[w] = hist[w] /\ Latest(w)' = Latest(w)
  BY <1>1, <1>3, <1>4, NotCurrent, CurrentSame DEF SInv
<1>5. ASSUME NEW p \in Procs PROVE OnWay(p)'
  <2>1. CASE SameWay(p)
    <3>1. OnWay(p)
      BY DEF SInv, Ways
    <3>2. QED
      BY <2>1, <3>1 DEF OnWay, SameWay
  <2>2. CASE Elsewhere(p)
    BY <2>2 DEF Elsewhere, OnWay, Applying, Looping
  <2>3. QED
    BY <2>1, <2>2
<1>6. ASSUME NEW p \in Procs, job'[p].pc \in Looping, NEW w, w = active'[p],
             Current(w)'
      PROVE  Found(p)'
  <2>1. SameWay(p)
    BY <1>6 DEF Elsewhere, Looping, Applying
  <2>2. active[p] = w /\ w \in Works /\ job[p].pc \in Looping
    BY <1>1, <1>6, <2>1, ActiveOK DEF SameWay, Looping
  <2>3. Current(w) /\ hist'[w] = hist[w]
    BY <1>4, <1>6, <2>2
  <2>4. Manifest(p)' = Manifest(p)
    BY <1>1, <2>1, <2>2, <2>3, MemoryGrows, ManifestSame DEF SameWay
  <2>5. Found(p)
    BY <2>2, <2>3 DEF SInv, Ways, InTouch
  <2>6. QED
    BY <2>1, <2>4, <2>5 DEF Found, SameWay
<1>7. Ways'
  BY <1>5, <1>6, TouchIf DEF Ways
<1>8. Settling'
  <2>1. ASSUME NEW w \in Works, Current(w)',
               NEW i \in 1..Len(Latest(w)'.spec.manifests)
        PROVE  Reached(Latest(w), i)' \/ Ahead(w, i)'
    <3>1. Current(w) /\ Latest(w)' = Latest(w)
      BY <1>4, <2>1
    <3>2. Reached(Latest(w), i) \/ Ahead(w, i)
      BY <2>1, <3>1 DEF SInv, Settling
    <3>3. CASE Reached(Latest(w), i)
      BY <3>1, <3>3 DEF Reached
    <3>4. CASE Ahead(w, i)
      <4>1. PICK p \in Procs :
               /\ active[p] = w
               /\ job[p].pc = "clients" \/ (job[p].pc \in Looping /\ job[p].m <= i)
        BY <3>4 DEF Ahead
      <4>2. SameWay(p)
        BY <4>1 DEF Elsewhere, Looping, Applying
      <4>3. QED
        BY <4>1, <4>2 DEF Ahead, SameWay
    <3>5. QED
      BY <3>2, <3>3, <3>4
  <2>2. QED
    BY <2>1 DEF Settling
<1>9. QED
  BY <1>2, <1>7, <1>8, CommonStep


(* The steps of users, of the informer and the queue, and those of a       *)
(* worker that writes the finalizer or comes to its end.                   *)
LEMMA AsideSettles ==
    ASSUME Orderly, SInv, [Next]_vars,
           \/ \E w \in Works : User(w) \/ Informer(w) \/ Fire(w)
           \/ \E p \in Procs : Put(p) \/ Decode(p) \/ Fail(p) \/ Done(p)
           \/ \E p \in Procs, w \in Works : Begin(p, w)
           \/ UNCHANGED vars
    PROVE  SInv'
<1>1. Inv /\ job \in [Procs -> Jobs] /\ active \in [Procs -> Works \cup {None}]
  BY DEF SInv, EInv, OInv, Inv, TypeOK, Q!SFTypeOK
<1>2. ASSUME UNCHANGED <<read, member, job, active>> PROVE SInv'
  BY <1>2, AsideStep DEF SameWay
<1>3. ASSUME NEW p \in Procs, UNCHANGED <<read, member>>, Elsewhere(p),
             \A q \in Procs \ {p} : SameWay(q)
      PROVE  SInv'
  BY <1>3, AsideStep
<1>4. ASSUME NEW w \in Works, User(w) \/ Informer(w) \/ Fire(w) PROVE SInv'
  <2>1. UNCHANGED <<read, member, job, active>>
    BY Zenon, <1>4 DEF User, Create, Edit, Delete, Informer, Deliver, Resync, Handle,
                Fire, Q!Fire, Q!Request, workqueue, cluster
  <2>2. QED
    BY <1>2, <2>1
<1>5. ASSUME NEW p \in Procs, Put(p) PROVE SInv'
  <2>1. /\ UNCHANGED <<read, member, active, mem>> /\ job[p].pc = "put"
        /\ \/ job' = [job EXCEPT ![p] = Finish(FALSE)]
           \/ job' = [job EXCEPT ![p].pc = "decode",
                                 ![p].to = Len(hist[active[p]]) + 1]
    BY <1>5 DEF Put, cluster, workqueue, informer
  <2>2. /\ active[p] \in Works /\ job[p].at \in 1..Len(mem[active[p]])
        /\ job[p] \in Jobs
    BY <1>1, <2>1, ActiveOK DEF Fits, JobFits
  <2>3. Len(hist[active[p]]) + 1 > job[p].at
    BY <1>1, <2>2, Lengths
  <2>4. \/ job'[p].pc = "done"
        \/ /\ job'[p].pc = "decode" /\ job'[p].at = job[p].at
           /\ job'[p].to = Len(hist[active[p]]) + 1
    <3>1. PICK k : k = Len(hist[active[p]]) + 1
      OBVIOUS
    <3>2. \/ job'[p] = Finish(FALSE)
          \/ job'[p] = [job[p] EXCEPT !.pc = "decode", !.to = k]
      BY <1>1, <2>1, <3>1
    <3>3. LET j == [job[p] EXCEPT !.pc = "decode", !.to = k]
          IN  j.pc = "decode" /\ j.at = job[p].at /\ j.to = k
      BY <2>2 DEF Jobs
    <3>4. QED
      BY <3>1, <3>2, <3>3, FinishOK
  <2>5. \A q \in Procs \ {p} : SameWay(q)
    BY <1>1, <2>1 DEF SameWay
  <2>6. Elsewhere(p)
    BY <2>1, <2>3, <2>4 DEF Elsewhere, Applying
  <2>7. QED
    BY <1>3, <2>1, <2>5, <2>6
<1>6. ASSUME NEW p \in Procs, Decode(p) \/ Fail(p) PROVE SInv'
  <2>1. /\ UNCHANGED <<read, member, active>> /\ job[p].pc \in {"decode", "done"}
        /\ \/ job' = [job EXCEPT ![p] = Finish(TRUE)]
           \/ job[p].pc = "done" /\ job' = [job EXCEPT ![p].ok = TRUE]
    BY <1>6 DEF Decode, Fail, Q!Defer, cluster, workqueue
  <2>2. job'[p].pc = "done"
    <3>1. \/ job'[p] = Finish(TRUE)
          \/ job[p].pc = "done" /\ job'[p] = [job[p] EXCEPT !.ok = TRUE]
      BY <1>1, <2>1
    <3>2. job[p] \in Jobs
      BY <1>1
    <3>3. [job[p] EXCEPT !.ok = TRUE].pc = job[p].pc
      BY <3>2 DEF Jobs
    <3>4. QED
      BY <3>1, <3>3, FinishOK
  <2>3. \A q \in Procs \ {p} : SameWay(q)
    BY <1>1, <2>1 DEF SameWay
  <2>4. Elsewhere(p)
    BY <2>1, <2>2 DEF Elsewhere, Applying
  <2>5. QED
    BY <1>3, <2>1, <2>3, <2>4
<1>7. ASSUME NEW p \in Procs, Done(p) PROVE SInv'
  <2>1. /\ UNCHANGED <<read, member>> /\ job[p].pc = "done"
        /\ job' = [job EXCEPT ![p] = NoJob]
        /\ active' = [active EXCEPT ![p] = None]
    BY <1>7 DEF Done, Q!End, cluster
  <2>2. job'[p].pc = "idle"
    BY <1>1, <2>1, FinishOK
  <2>3. \A q \in Procs \ {p} : SameWay(q)
    BY <1>1, <2>1 DEF SameWay
  <2>4. Elsewhere(p)
    BY <2>1, <2>2 DEF Elsewhere, Applying
  <2>5. QED
    BY <1>3, <2>1, <2>3, <2>4
<1>8. ASSUME NEW p \in Procs, NEW w \in Works, Begin(p, w) PROVE SInv'
  <2>1. /\ UNCHANGED <<read, member>> /\ active[p] = None
        /\ job' = [job EXCEPT ![p] = [NoJob EXCEPT !.pc = "start"]]
        /\ active' = [active EXCEPT ![p] = w]
    BY <1>8 DEF Begin, Q!Begin, cluster
  <2>2. [NoJob EXCEPT !.pc = "start"].pc = "start"
    BY DEF NoJob
  <2>3. job'[p].pc = "start"
    BY <1>1, <2>1, <2>2
  <2>4. job[p].pc = "idle"
    BY <1>1, <2>1, ActiveOK DEF Fits, JobFits
  <2>5. \A q \in Procs \ {p} : SameWay(q)
    BY <1>1, <2>1 DEF SameWay
  <2>6. Elsewhere(p)
    BY <2>3, <2>4 DEF Elsewhere, Applying
  <2>7. QED
    BY <1>3, <2>1, <2>5, <2>6
<1>9. CASE UNCHANGED vars
  BY <1>2, <1>9 DEF vars, cluster, workqueue
<1>10. QED
  BY <1>4, <1>5, <1>6, <1>7, <1>8, <1>9

-----------------------------------------------------------------------------
(* syncWork *)

(* A step of syncWork on manifest job[p].m; the other workers are idle. *)
WorkMove(p) ==
    /\ UNCHANGED <<hist, mem, active, read>>
    /\ \A q \in Procs \ {p} : job'[q] = job[q]

LEMMA WorkStep ==
    ASSUME Orderly, SInv, [Next]_vars, NEW p \in Procs, WorkMove(p),
           job[p].pc \in Applying, NEW w, w = active[p],
           \/ job'[p].pc = "done"
           \/ /\ job'[p].pc \in Looping /\ job'[p].at = job[p].at
              /\ job'[p].nils = {},
           Current(w) =>
               /\ job'[p].pc \in Looping => Found(p)'
               /\ \A i \in 1..Len(Latest(w).spec.manifests) :
                     \/ Reached(Latest(w), i)'
                     \/ job'[p].pc \in Looping /\ job'[p].m <= i
    PROVE  SInv'
<1>1. EInv' /\ Inv /\ Inv' /\ Alone /\ UNCHANGED <<hist, mem, active, read>>
  BY NextEdits DEF SInv, EInv, OInv, Calmness, WorkMove
<1>2. active[p] \in Works /\ job[p].pc # "idle"
  BY <1>1, ActiveOK DEF Applying
<1>3. \A x \in Works : x = active[p]
  BY <1>2 DEF Orderly
<1>4. ASSUME NEW q \in Procs \ {p} PROVE job[q].pc = "idle" /\ job'[q].pc = "idle"
  <2>1. job[q].pc = "idle"
    BY <1>1, <1>2, OnlyOne
  <2>2. QED
    BY <2>1 DEF WorkMove
<1>6. (Current(w)' <=> Current(w)) /\ Latest(w)' = Latest(w)
  BY <1>1, CurrentSame
<1>7. ASSUME NEW x \in Works PROVE read'[x] <= Len(mem'[x])
  BY <1>1 DEF SInv, Calmness
<1>8. ASSUME NEW q \in Procs PROVE OnWay(q)'
  <2>1. CASE q = p
    <3>1. job[p].at = read[active[p]]
      BY DEF SInv, Ways, OnWay
    <3>2. QED
      BY <1>1, <2>1, <3>1 DEF OnWay, Applying, Looping
  <2>2. CASE q # p
    BY <1>4, <2>2 DEF OnWay, Applying, Looping
  <2>3. QED
    BY <2>1, <2>2
<1>9. ASSUME NEW q \in Procs, NEW x, job'[q].pc \in Looping, x = active'[q],
             Current(x)'
      PROVE  Found(q)'
  <2>1. q = p /\ x = w
    BY <1>1, <1>4, <1>9 DEF Looping
  <2>2. Current(w)
    BY <1>6, <1>9, <2>1
  <2>3. QED
    BY <1>9, <2>1, <2>2
<1>10. Ways'
  BY <1>8, <1>9, TouchIf DEF Ways
<1>11. Settling'
  <2>1. ASSUME NEW x \in Works, Current(x)',
               NEW i \in 1..Len(Latest(x)'.spec.manifests)
        PROVE  Reached(Latest(x), i)' \/ Ahead(x, i)'
    <3>1. x = w
      BY <1>3
    <3>2. Current(w) /\ i \in 1..Len(Latest(w).spec.manifests)
      BY <1>6, <2>1, <3>1
    <3>3. \/ Reached(Latest(w), i)'
          \/ job'[p].pc \in Looping /\ job'[p].m <= i
      BY <1>1, <3>2
    <3>4. QED
      BY <1>1, <3>1, <3>3 DEF Ahead
  <2>2. QED
    BY <2>1 DEF Settling
<1>12. QED
  BY <1>7, <1>10, <1>11, CommonStep

(* With one cluster, the worker goes on to the next manifest. *)
LEMMA NextManifest ==
    ASSUME Orderly, SInv, NEW p \in Procs, job[p].pc \in Looping,
           NEW c \in job[p].left
    PROVE  LET spec == mem[active[p]][job[p].at].spec
               g == GoOn(p, After(job[p], c, spec))
           IN  /\ spec.clusters = {c} /\ spec \in Specs
               /\ job[p].m \in 1..Len(spec.manifests)
               /\ Manifest(p) = spec.manifests[job[p].m]
               /\ Written(p, g) = g
               /\ \/ g.pc = "done" /\ job[p].m = Len(spec.manifests)
                  \/ /\ g.pc = "get" /\ g.m = job[p].m + 1 /\ g.at = job[p].at
                     /\ g.nils = {} /\ g.uid = spec.manifests[job[p].m + 1].uid
<1>1. Inv
  BY DEF SInv, EInv, OInv
<1>2. PICK w, spec, m : /\ w = active[p] /\ spec = mem[w][job[p].at].spec
                        /\ m = job[p].m
  OBVIOUS
<1>3. /\ w \in Works /\ job[p] \in Jobs /\ job[p].at \in 1..Len(mem[w])
      /\ spec \in WorkSpecs /\ InLoops(job[p], spec)
      /\ Manifest(p) = spec.manifests[m]
  BY <1>1, <1>2, LoopOK DEF Looping
<1>4. spec \in Specs
  BY <1>1, <1>2, <1>3, VersionOK DEF Inv, Versions
<1>5. \A d, e \in spec.clusters : d = e
  BY <1>4 DEF Orderly
<1>6. /\ m \in 1..Len(spec.manifests) /\ Len(spec.manifests) \in Nat
      /\ job[p].left \subseteq job[p].clients
      /\ job[p].clients \subseteq spec.clusters
  BY Zenon, <1>2, <1>3, LenProperties DEF InLoops, WorkSpecs
<1>7. job[p].left = {c} /\ spec.clusters = {c} /\ job[p].clients = {c}
  BY <1>5, <1>6
<1>8. job[p].nils = {}
  BY DEF SInv, Ways, OnWay
<1>9. PICK g : g = GoOn(p, After(job[p], c, spec))
  OBVIOUS
<1> DEFINE Goal == /\ Written(p, g) = g
                   /\ \/ g.pc = "done" /\ m = Len(spec.manifests)
                      \/ /\ g.pc = "get" /\ g.m = m + 1 /\ g.at = job[p].at
                         /\ g.nils = {} /\ g.uid = spec.manifests[m + 1].uid
<1>10. ASSUME m < Len(spec.manifests) PROVE Goal
  <2>1. After(job[p], c, spec) = [m |-> m + 1, left |-> {c}]
    BY <1>2, <1>7, <1>10 DEF After
  <2>2. PICK n, a : n = m + 1 /\ a = After(job[p], c, spec)
    OBVIOUS
  <2>3. n # 0 /\ n # m /\ n \in 1..Len(spec.manifests) /\ n \in Nat
    BY <1>6, <1>10, <2>2
  <2>a. a.m = n /\ a.left = {c} /\ g = GoOn(p, a)
    BY <1>9, <2>1, <2>2
  <2>4. g = [job[p] EXCEPT !.pc = "get", !.m = n, !.left = {c}, !.c = None,
                           !.uid = spec.manifests[n].uid, !.fresh = FALSE,
                           !.tries = 0]
    BY <1>2, <2>3, <2>a DEF GoOn
  <2>5. /\ g.pc = "get" /\ g.m = n /\ g.at = job[p].at /\ g.nils = job[p].nils
        /\ g.uid = spec.manifests[n].uid
    BY <1>3, <2>4 DEF Jobs
  <2>6. Written(p, g) = g
    BY <1>2, <2>3, <2>5 DEF Written
  <2>7. /\ g.pc = "get" /\ g.m = m + 1 /\ g.at = job[p].at /\ g.nils = {}
        /\ g.uid = spec.manifests[m + 1].uid
    BY <1>8, <2>2, <2>5
  <2>8. QED
    BY <2>6, <2>7
<1>11. ASSUME m = Len(spec.manifests) PROVE Goal
  <2>1. After(job[p], c, spec) = [m |-> 0, left |-> {}]
    <3>0. ~(m < m) /\ m = job[p].m
      BY <1>2, <1>6
    <3>1. ~(job[p].m < Len(spec.manifests)) /\ job[p].left = {c}
      BY <1>7, <1>11, <3>0
    <3>2. QED
      BY ONLY <3>1 DEF After
  <2>2. g = Finish(TRUE)
    BY <1>9, <2>1 DEF GoOn
  <2>3. g.pc = "done" /\ Written(p, g) = g
    BY <2>2, FinishOK DEF Written
  <2>4. QED
    BY <1>11, <2>3
<1>12. m < Len(spec.manifests) \/ m = Len(spec.manifests)
  BY <1>6
<1>13. Goal
  BY <1>10, <1>11, <1>12
<1> HIDE DEF Goal
<1>14. /\ spec.clusters = {c} /\ spec \in Specs /\ m \in 1..Len(spec.manifests)
       /\ Manifest(p) = spec.manifests[m]
  BY <1>3, <1>4, <1>6, <1>7
<1>15. QED
  BY Zenon, <1>2, <1>9, <1>13, <1>14 DEF Goal

LEMMA AheadHere ==
    ASSUME SInv, NEW p \in Procs, job[p].pc \in Looping, NEW w, w = active[p],
           Current(w), NEW i \in 1..Len(Latest(w).spec.manifests)
    PROVE  Reached(Latest(w), i) \/ job[p].m <= i
<1>1. Inv /\ Alone /\ Settling
  BY DEF SInv, EInv, OInv, Calmness
<1>2. w \in Works /\ w # None
  BY <1>1, ActiveOK, NoneElsewhere DEF Looping
<1>3. Reached(Latest(w), i) \/ Ahead(w, i)
  BY <1>1, <1>2 DEF Settling
<1>4. CASE Ahead(w, i)
  <2>1. PICK q \in Procs :
           /\ active[q] = w
           /\ job[q].pc = "clients" \/ (job[q].pc \in Looping /\ job[q].m <= i)
    BY <1>4 DEF Ahead
  <2>2. q = p
    BY <1>1, <1>2, <2>1 DEF Alone
  <2>3. QED
    BY <2>1, <2>2 DEF Looping
<1>5. QED
  BY <1>3, <1>4

(* A manifest that is at hand stays at hand. *)
LEMMA StayStep ==
    ASSUME Orderly, SInv, [Next]_vars, NEW p \in Procs, WorkMove(p),
           UNCHANGED member, job[p].pc \in Looping, job'[p].pc \in Looping,
           job'[p].at = job[p].at, job'[p].m = job[p].m,
           job'[p].nils = job[p].nils,
           NEW w, w = active[p], Current(w) => Found(p)'
    PROVE  SInv'
<1>1. job[p].pc \in Applying /\ job'[p].nils = {}
  BY DEF SInv, Ways, OnWay, Looping, Applying
<1>2. ASSUME Current(w), NEW i \in 1..Len(Latest(w).spec.manifests)
      PROVE  Reached(Latest(w), i)' \/ job'[p].m <= i
  <2>1. Reached(Latest(w), i) \/ job[p].m <= i
    BY <1>2, AheadHere
  <2>2. Latest(w)' = Latest(w)
    BY CurrentSame DEF WorkMove
  <2>3. QED
    BY ZenonT(30), <2>1, <2>2 DEF Reached
<1>3. QED
  BY <1>1, <1>2, WorkStep

(* Cluster c is given the manifest at hand, which does without a uid if c  *)
(* has had the object; or c has the object, and as the manifest says       *)
(* unless that has a uid.                                                  *)
Given(p, c) ==
    /\ \A d \in Clusters, o \in Objs :
          member'[d][o] = IF d = c /\ o = Manifest(p).obj
                          THEN Manifest(p).ver ELSE member[d][o]
    /\ Manifest(p).uid => member[c][Manifest(p).obj] = None

Kept(p, c) ==
    /\ UNCHANGED member
    /\ member[c][Manifest(p).obj] # None
    /\ Manifest(p).uid \/ member[c][Manifest(p).obj] = Manifest(p).ver

Passed(p, c) == Given(p, c) \/ Kept(p, c)

(* What that means for the manifests of a list: the one at hand, m, is     *)
(* reached, and those before it that were stay so.                         *)
LEMMA PassReaches ==
    ASSUME NEW ms, NEW m \in Nat, NEW i \in Nat, NEW k \in Nat,
           i \in 1..k, m \in 1..k, k = Len(ms), i <= m,
           \A n \in 1..k : ms[n].obj \in Objs /\ ms[n].ver # None,
           NEW p, Manifest(p) = ms[m], NEW c \in Clusters, Passed(p, c),
           i < m => /\ member[c][ms[i].obj] # None
                    /\ Prevails(ms, i) => member[c][ms[i].obj] = ms[i].ver
    PROVE  /\ member'[c][ms[i].obj] # None
           /\ Prevails(ms, i) => member'[c][ms[i].obj] = ms[i].ver
<1>1. PICK x, y : x = ms[i] /\ y = ms[m]
  OBVIOUS
<1>2. x.obj \in Objs /\ y.obj \in Objs /\ y.ver # None
  BY <1>1
<1>3. CASE i = m
  <2>1. x = y
    BY <1>1, <1>3
  <2>2. CASE Given(p, c)
    <3>1. member'[c][y.obj] = y.ver
      BY <1>1, <1>2, <2>2 DEF Given
    <3>2. QED
      BY <1>1, <1>2, <2>1, <3>1
  <2>3. CASE Kept(p, c)
    <3>1. Prevails(ms, i) => ~x.uid
      BY <1>1 DEF Prevails
    <3>2. QED
      BY <1>1, <2>1, <2>3, <3>1 DEF Kept
  <2>4. QED
    BY <2>2, <2>3 DEF Passed
<1>4. CASE i < m
  <2>1. CASE Given(p, c)
    <3>1. CASE x.obj = y.obj
      <4>1. member'[c][x.obj] = y.ver
        BY <1>1, <1>2, <2>1, <3>1 DEF Given
      <4>2. ~y.uid
        BY <1>1, <1>4, <2>1, <3>1 DEF Given
      <4>3. ~Prevails(ms, i)
        BY <1>1, <1>4, <3>1, <4>2 DEF Prevails
      <4>4. QED
        BY <1>1, <1>2, <4>1, <4>3
    <3>2. CASE x.obj # y.obj
      <4>1. member'[c][x.obj] = member[c][x.obj]
        BY <1>1, <1>2, <2>1, <3>2 DEF Given
      <4>2. QED
        BY <1>1, <1>4, <4>1
    <3>3. QED
      BY <3>1, <3>2
  <2>2. CASE Kept(p, c)
    BY <1>4, <2>2 DEF Kept
  <2>3. QED
    BY <2>1, <2>2 DEF Passed
<1>5. QED
  BY <1>3, <1>4

LEMMA PassStep ==
    ASSUME Orderly, SInv, [Next]_vars, NEW p \in Procs, WorkMove(p),
           job[p].pc \in Looping, NEW c \in job[p].left, NEW w, w = active[p],
           job'[p] = GoOn(p, After(job[p], c, mem[w][job[p].at].spec)),
           Current(w) => Passed(p, c)
    PROVE  SInv'
<1>1. PICK spec, m : spec = mem[w][job[p].at].spec /\ m = job[p].m
  OBVIOUS
<1>2. /\ spec.clusters = {c} /\ spec \in Specs
      /\ m \in 1..Len(spec.manifests)
      /\ Manifest(p) = spec.manifests[m]
      /\ \/ job'[p].pc = "done" /\ m = Len(spec.manifests)
         \/ /\ job'[p].pc = "get" /\ job'[p].m = m + 1
            /\ job'[p].at = job[p].at /\ job'[p].nils = {}
            /\ job'[p].uid = spec.manifests[m + 1].uid
  <2>1. PICK g : g = GoOn(p, After(job[p], c, spec))
    OBVIOUS
  <2>2. job'[p] = g
    BY <1>1, <2>1
  <2>3. /\ spec.clusters = {c} /\ spec \in Specs
        /\ m \in 1..Len(spec.manifests)
        /\ Manifest(p) = spec.manifests[m]
        /\ \/ g.pc = "done" /\ m = Len(spec.manifests)
           \/ /\ g.pc = "get" /\ g.m = m + 1 /\ g.at = job[p].at
              /\ g.nils = {} /\ g.uid = spec.manifests[m + 1].uid
    <3> DEFINE s == mem[active[p]][job[p].at].spec
               h == GoOn(p, After(job[p], c, s))
    <3>1. /\ s.clusters = {c} /\ s \in Specs
          /\ job[p].m \in 1..Len(s.manifests)
          /\ Manifest(p) = s.manifests[job[p].m]
          /\ \/ h.pc = "done" /\ job[p].m = Len(s.manifests)
             \/ /\ h.pc = "get" /\ h.m = job[p].m + 1 /\ h.at = job[p].at
                /\ h.nils = {} /\ h.uid = s.manifests[job[p].m + 1].uid
      BY NextManifest, Zenon
    <3>2. s = spec /\ h = g
      BY <1>1, <2>1
    <3> HIDE DEF s, h
    <3>3. QED
      BY Zenon, <1>1, <3>1, <3>2
  <2>4. QED
    BY <2>2, <2>3
<1>3. spec \in WorkSpecs
  BY ZenonT(30), <1>2, ConstantsOK DEF ConstantsOK
<1>4. c \in Clusters /\ Len(spec.manifests) \in Nat
      /\ spec.manifests \in Seq(Manifests)
  BY Zenon, <1>2, <1>3, LenProperties DEF WorkSpecs
<1>5. job[p].pc \in Applying /\ OnWay(p) /\ Inv
  BY DEF SInv, EInv, OInv, Inv, Ways, Looping, Applying
<1>6. PICK ms, k : ms = spec.manifests /\ k = Len(ms)
  OBVIOUS
<1>7. k \in Nat /\ m \in 1..k /\ ms \in Seq(Manifests) /\ Manifest(p) = ms[m]
  BY ZenonT(30), <1>2, <1>4, <1>6
<1>8. \A n \in 1..k : ms[n].obj \in Objs /\ ms[n].ver # None
  <2>1. ASSUME NEW n \in 1..k PROVE ms[n] \in Manifests
    BY <1>6, <1>7, <2>1, ElementOfSeq
  <2>2. QED
    BY <2>1, ConstantsOK DEF ConstantsOK, Manifests
<1>9. ASSUME Current(w), NEW i \in 1..Len(Latest(w).spec.manifests)
      PROVE  Reached(Latest(w), i)' \/ (job'[p].pc \in Looping /\ job'[p].m <= i)
  <2>1. Latest(w).spec = spec
    BY <1>1, <1>5, <1>9, SpecIsLatest
  <2>2. Latest(w)' = Latest(w)
    BY CurrentSame DEF WorkMove
  <2>3. i \in 1..k /\ i \in Nat /\ m \in Nat
    <3>1. i \in 1..k
      BY ZenonT(30), <1>6, <1>9, <2>1
    <3>2. QED
      BY <1>7, <3>1
  <2>4. CASE i <= m
    <3> DEFINE Held == /\ member[c][ms[i].obj] # None
                       /\ Prevails(ms, i) => member[c][ms[i].obj] = ms[i].ver
    <3>1. i < m => Held
      <4>1. ASSUME i < m PROVE Held
        <5>1. Reached(Latest(w), i) \/ m <= i
          BY <1>1, <1>9, AheadHere
        <5>2. Reached(Latest(w), i)
          BY <2>3, <4>1, <5>1
        <5>3. QED
          BY ZenonT(30), <1>2, <1>6, <2>1, <5>2 DEF Reached
      <4>2. QED
        BY <4>1
    <3>2. Passed(p, c)
      BY <1>9
    <3>3. /\ member'[c][ms[i].obj] # None
          /\ Prevails(ms, i) => member'[c][ms[i].obj] = ms[i].ver
      BY <1>4, <1>6, <1>7, <1>8, <2>3, <2>4, <3>1, <3>2, PassReaches
    <3> HIDE DEF Held
    <3>4. Reached(Latest(w), i)'
      BY ZenonT(30), <1>2, <1>6, <2>1, <2>2, <3>3 DEF Reached, Prevails
    <3>5. QED
      BY <3>4
  <2>5. CASE i > m
    <3>1. m # k
      BY <2>3, <2>5
    <3>2. job'[p].pc = "get" /\ job'[p].m = m + 1
      BY Zenon, <1>2, <1>6, <3>1
    <3>3. m + 1 <= i
      BY <2>3, <2>5
    <3>4. QED
      BY <3>2, <3>3 DEF Looping
  <2>6. i <= m \/ i > m
    BY <2>3
  <2>7. QED
    BY <2>4, <2>5, <2>6
<1>10. job'[p].pc \in Looping => Found(p)'
  <2>1. ASSUME job'[p].pc \in Looping PROVE Found(p)'
    <3>1. /\ job'[p].pc = "get" /\ job'[p].m = m + 1 /\ job'[p].at = job[p].at
          /\ job'[p].uid = spec.manifests[m + 1].uid
      BY Zenon, <1>2, <2>1 DEF Looping
    <3>2. mem' = mem /\ active' = active
      BY DEF WorkMove
    <3>3. Manifest(p)' = spec.manifests[m + 1]
      BY <1>1, <3>1, <3>2 DEF Manifest
    <3>4. QED
      BY <3>1, <3>3 DEF Found
  <2>2. QED
    BY <2>1
<1>11. \/ job'[p].pc = "done"
       \/ /\ job'[p].pc \in Looping /\ job'[p].at = job[p].at
          /\ job'[p].nils = {}
  BY Zenon, <1>2 DEF Looping
<1>12. QED
  BY Zenon, <1>5, <1>9, <1>10, <1>11, WorkStep

LEMMA ClientsSettles ==
    ASSUME Orderly, SInv, [Next]_vars, NEW p \in Procs, SyncClients(p)
    PROVE  SInv'
<1>1. Inv /\ OnWay(p) /\ down = {} /\ joined = Clusters
  BY DEF SInv, EInv, OInv, Inv, Ways, Calmness
<1>2. job \in [Procs -> Jobs]
  BY <1>1 DEF Inv, TypeOK
<1>3. PICK w, spec : w = active[p] /\ spec = mem[w][job[p].at].spec
  OBVIOUS
<1>4. PICK n : n = First(ClusterClients(spec), spec)
  OBVIOUS
<1>5. /\ job[p].pc = "clients"
      /\ UNCHANGED <<hist, mem, active, read, member>>
      /\ \/ n.m = 0 /\ job' = [job EXCEPT ![p] = Finish(TRUE)]
         \/ /\ n.m # 0
            /\ job' = [job EXCEPT ![p] =
                         [job[p] EXCEPT
                            !.pc = "get", !.m = n.m, !.left = n.left, !.c = None,
                            !.clients = ClusterClients(spec),
                            !.nils = NilClients(spec),
                            !.uid = spec.manifests[n.m].uid]]
  BY ZenonT(30), <1>3, <1>4 DEF SyncClients, server, cluster, informer, workqueue
<1>6. WorkMove(p)
  BY Zenon, <1>2, <1>5 DEF WorkMove
<1>7. w \in Works /\ job[p].at \in 1..Len(mem[w])
  BY Zenon, <1>1, <1>3, <1>5, ActiveOK DEF Fits, JobFits
<1>8. spec \in WorkSpecs /\ spec \in Specs
  BY <1>1, <1>3, <1>7, VersionOK DEF Inv, Versions
<1>9. ClusterClients(spec) = spec.clusters /\ NilClients(spec) = {}
  BY <1>1, <1>8 DEF ClusterClients, NilClients, WorkSpecs
<1>10. \/ n.m = 0 /\ (spec.clusters = {} \/ spec.manifests = <<>>)
       \/ n.m = 1 /\ spec.manifests # <<>>
  BY <1>4, <1>9 DEF First
<1>11. Len(spec.manifests) \in Nat
  BY <1>8, LenProperties DEF WorkSpecs
<1>12. job[p].pc \in Applying
  BY <1>5 DEF Applying
<1>13. Current(w) => Latest(w).spec = spec /\ Latest(w)' = Latest(w)
  BY Zenon, <1>1, <1>3, <1>5, <1>12, SpecIsLatest, CurrentSame
<1>14. CASE n.m = 0
  <2>1. job'[p] = Finish(TRUE)
    BY <1>2, <1>5, <1>14
  <2>2. job'[p].pc = "done"
    BY <2>1, FinishOK
  <2>3. ASSUME Current(w), NEW i \in 1..Len(Latest(w).spec.manifests)
        PROVE  Reached(Latest(w), i)'
    <3>1. spec.clusters = {}
      <4>1. i \in 1..Len(spec.manifests)
        BY <1>13, <2>3
      <4>2. spec.manifests # <<>>
        BY <4>1
      <4>3. QED
        BY <1>10, <1>14, <4>2
    <3>2. QED
      BY <1>13, <2>3, <3>1 DEF Reached
  <2>4. QED
    BY <1>3, <1>6, <1>12, <2>2, <2>3, WorkStep DEF Looping
<1>15. CASE n.m = 1 /\ spec.manifests # <<>>
  <2>1. PICK u : u = spec.manifests[n.m].uid
    OBVIOUS
  <2>3. job'[p] = [job[p] EXCEPT !.pc = "get", !.m = n.m, !.left = n.left,
                                 !.c = None, !.clients = ClusterClients(spec),
                                 !.nils = NilClients(spec), !.uid = u]
    BY <1>2, <1>5, <1>15, <2>1
  <2>4. job[p] \in Jobs
    BY <1>2
  <2>5. /\ job'[p].pc = "get" /\ job'[p].m = n.m /\ job'[p].at = job[p].at
        /\ job'[p].nils = NilClients(spec) /\ job'[p].uid = u
    BY <2>3, <2>4 DEF Jobs
  <2>2. Manifest(p)' = spec.manifests[n.m]
    BY <1>3, <1>5, <2>5 DEF Manifest
  <2>6. job'[p].nils = {} /\ Found(p)'
    BY <1>9, <2>1, <2>2, <2>5 DEF Found
  <2>7. \A i \in 1..Len(Latest(w).spec.manifests) : job'[p].m <= i
    BY <1>15, <2>5
  <2>8. job'[p].pc \in Looping
    BY <2>5 DEF Looping
  <2>9. QED
    BY <1>3, <1>6, <1>12, <2>5, <2>6, <2>7, <2>8, WorkStep
<1>16. QED
  BY <1>10, <1>14, <1>15

LEMMA OthersIdle ==
    ASSUME Orderly, SInv, NEW p \in Procs, job[p].pc # "idle"
    PROVE  \A q \in Procs \ {p} : job[q].pc = "idle"
<1>1. Inv /\ Alone
  BY DEF SInv, EInv, OInv, Calmness
<1>2. QED
  BY <1>1, OnlyOne

LEMMA GetSettles ==
    ASSUME Orderly, SInv, [Next]_vars, NEW p \in Procs, NEW c \in Clusters,
           SyncGet(p, c)
    PROVE  SInv'
<1>1. Inv /\ down = {} /\ job \in [Procs -> Jobs]
  BY DEF SInv, EInv, OInv, Inv, TypeOK, Calmness
<1>2. PICK w, x : w = active[p] /\ x = member[c][Manifest(p).obj]
  OBVIOUS
<1>3. /\ job[p].pc = "get" /\ Target(p, c)
      /\ UNCHANGED <<hist, mem, active, read, member>>
  BY DEF SyncGet, Target, server, cluster, informer, workqueue
<1>4. \/ /\ x = Manifest(p).ver
         /\ job' = [job EXCEPT ![p] =
                      GoOn(p, After(job[p], c, mem[w][job[p].at].spec))]
      \/ \E pc \in {"create", "update"} :
            /\ pc = "create" <=> x = None
            /\ job' = [job EXCEPT ![p] =
                         [job[p] EXCEPT !.pc = pc, !.c = c, !.fresh = TRUE]]
  BY <1>1, <1>2 DEF SyncGet
<1>5. c \in job[p].left
  <2>1. job[p].c \in job[p].left \cup {None}
    BY <1>1, <1>3, ActiveOK DEF Fits, JobFits
  <2>2. QED
    BY <1>3, <2>1 DEF Target
<1>6. job[p].pc \in Looping
  BY <1>3 DEF Looping
<1>7. WorkMove(p)
  BY <1>1, <1>3, <1>4 DEF WorkMove
<1>8. CASE /\ x = Manifest(p).ver
           /\ job' = [job EXCEPT ![p] =
                        GoOn(p, After(job[p], c, mem[w][job[p].at].spec))]
  <2>1. job'[p] = GoOn(p, After(job[p], c, mem[w][job[p].at].spec))
    BY <1>1, <1>8
  <2>2. Manifest(p).ver # None
    <3>1. Manifest(p) \in Manifests
      BY <1>1, <1>3, LoopOK
    <3>2. QED
      BY <3>1, ConstantsOK DEF ConstantsOK, Manifests
  <2>3. Passed(p, c)
    BY <1>2, <1>3, <1>8, <2>2 DEF Passed, Kept
  <2>4. QED
    BY <1>2, <1>5, <1>6, <1>7, <2>1, <2>3, PassStep
<1>9. ASSUME NEW pc \in {"create", "update"}, pc = "create" <=> x = None,
             job' = [job EXCEPT ![p] =
                       [job[p] EXCEPT !.pc = pc, !.c = c, !.fresh = TRUE]]
      PROVE  SInv'
  <2>1. job[p] \in Jobs
    BY <1>1
  <2>2. job'[p] = [job[p] EXCEPT !.pc = pc, !.c = c, !.fresh = TRUE]
    BY <1>1, <1>9
  <2>3. /\ job'[p].pc = pc /\ job'[p].at = job[p].at /\ job'[p].m = job[p].m
        /\ job'[p].nils = job[p].nils /\ job'[p].uid = job[p].uid
        /\ job'[p].c = c /\ job'[p].fresh
    BY <2>1, <2>2 DEF Jobs
  <2>4. Manifest(p)' = Manifest(p)
    BY <1>3, <2>3 DEF Manifest
  <2>5. Current(w) => Found(p)'
    <3>1. Current(w) => Found(p)
      BY <1>2, <1>6 DEF SInv, Ways, InTouch
    <3>2. QED
      BY <1>2, <1>3, <1>9, <2>3, <2>4, <3>1 DEF Found
  <2>6. job'[p].pc \in Looping
    BY <1>9, <2>3 DEF Looping
  <2>7. QED
    BY <1>2, <1>3, <1>6, <1>7, <2>3, <2>5, <2>6, StayStep
<1>10. QED
  BY <1>4, <1>8, <1>9

LEMMA WriteSettles ==
    ASSUME Orderly, SInv, [Next]_vars, NEW p \in Procs,
           SyncCreate(p) \/ SyncUpdate(p)
    PROVE  SInv'
<1>1. Inv /\ TypeOK /\ down = {} /\ job \in [Procs -> Jobs]
  BY DEF SInv, EInv, OInv, Inv, TypeOK, Calmness
<1>2. PICK w, c, g : /\ w = active[p] /\ c = job[p].c
                     /\ g = GoOn(p, After(job[p], c, mem[w][job[p].at].spec))
  OBVIOUS
<1>3. PICK o, x : o = Manifest(p).obj /\ x = member[c][Manifest(p).obj]
  OBVIOUS
<1>4. /\ job[p].pc \in {"create", "update"}
      /\ UNCHANGED <<hist, mem, active, read>>
  BY DEF SyncCreate, SyncUpdate, server, informer, workqueue
<1>5. job[p].pc \in Looping
  BY <1>4 DEF Looping
<1>6. c \in job[p].left /\ c \in Clusters /\ o \in Objs
  <2>1. job[p].c \in job[p].left
    BY <1>1, <1>4, ActiveOK DEF Fits, JobFits
  <2>2. job[p] \in Jobs /\ Manifest(p) \in Manifests
    BY <1>1, <1>4, LoopOK
  <2>3. QED
    BY <1>2, <1>3, <2>1, <2>2 DEF Jobs, Manifests
<1>7. NextCluster(p) = g /\ Written(p, g) = g
  <2>1. NextCluster(p) = g
    BY <1>2 DEF NextCluster
  <2>2. Written(p, GoOn(p, After(job[p], c, mem[active[p]][job[p].at].spec)))
        = GoOn(p, After(job[p], c, mem[active[p]][job[p].at].spec))
    BY Zenon, <1>5, <1>6, NextManifest
  <2>3. QED
    BY <1>2, <2>1, <2>2
<1>8. Current(w) => Found(p)
  BY <1>2, <1>5 DEF SInv, Ways, InTouch
<1>9. \A q \in Procs \ {p} : job[q].pc = "idle"
  BY <1>4, OthersIdle
<1>10. \/ /\ WriteMember(p, c, o, Manifest(p).ver, g)
          /\ Current(w) /\ Manifest(p).uid => x = None
       \/ /\ job' = [job EXCEPT ![p] = g] /\ UNCHANGED member
          /\ Current(w) => x # None /\ Manifest(p).uid
       \/ /\ job' = [job EXCEPT ![p].pc = "get", ![p].fresh = FALSE,
                                ![p].tries = @ + 1]
          /\ UNCHANGED member
  <2>1. CASE SyncCreate(p)
    <3>1. \/ x # None /\ job' = [job EXCEPT ![p] = g] /\ UNCHANGED member
          \/ x = None /\ WriteMember(p, c, o, Manifest(p).ver, g)
      BY <1>1, <1>2, <1>3, <1>7, <2>1 DEF SyncCreate
    <3>2. job[p].pc = "create"
      BY <2>1 DEF SyncCreate
    <3>3. x # None => ~Current(w)
      BY <1>2, <1>3, <1>8, <3>2 DEF Found
    <3>4. QED
      BY <3>1, <3>3
  <2>2. CASE SyncUpdate(p)
    <3>1. job[p].pc = "update"
      BY <2>2 DEF SyncUpdate
    <3>2. Current(w) => x # None /\ job[p].fresh /\ job[p].uid = Manifest(p).uid
      BY <1>2, <1>3, <1>8, <3>1 DEF Found
    <3>3. CASE x # None /\ job[p].fresh /\ ~job[p].uid
      <4>1. /\ ~(job[p].c \in down \/ member[job[p].c][Manifest(p).obj] = None)
            /\ ~(job[p].uid \/ ~job[p].fresh)
        BY <1>1, <1>2, <1>3, <3>3
      <4>2. WriteMember(p, job[p].c, Manifest(p).obj, Manifest(p).ver,
                        Written(p, NextCluster(p)))
        BY <2>2, <4>1 DEF SyncUpdate
      <4>3. WriteMember(p, c, o, Manifest(p).ver, g)
        BY Zenon, <1>2, <1>3, <1>7, <4>2
      <4>4. QED
        BY <3>2, <3>3, <4>3
    <3>4. CASE ~(x # None /\ job[p].fresh /\ ~job[p].uid)
      <4>1. \/ job' = [job EXCEPT ![p] = g] /\ UNCHANGED member
            \/ /\ job' = [job EXCEPT ![p].pc = "get", ![p].fresh = FALSE,
                                     ![p].tries = @ + 1]
               /\ UNCHANGED member
        BY <1>1, <1>2, <1>3, <1>7, <2>2, <3>4 DEF SyncUpdate
      <4>2. QED
        BY <3>2, <3>4, <4>1
    <3>5. QED
      BY <3>3, <3>4
  <2>3. QED
    BY <2>1, <2>2
<1>11. CASE /\ WriteMember(p, c, o, Manifest(p).ver, g)
            /\ Current(w) /\ Manifest(p).uid => x = None
  <2>1. /\ job'[p] = g
        /\ \A q \in Procs \ {p} : job'[q] = job[q]
    BY <1>9, <1>11 DEF WriteMember
  <2>2. \A d \in Clusters, q \in Objs :
           member'[d][q] = IF d = c /\ q = o THEN Manifest(p).ver ELSE member[d][q]
    <3>1. member' = [member EXCEPT ![c][o] = Manifest(p).ver]
      BY Zenon, <1>11 DEF WriteMember
    <3>2. member \in [Clusters -> [Objs -> Vers \cup {None}]]
      BY <1>1 DEF TypeOK
    <3>3. QED
      BY <1>6, <3>1, <3>2
  <2>3. WorkMove(p)
    BY <1>4, <2>1 DEF WorkMove
  <2>4. Current(w) => Passed(p, c)
    BY <1>2, <1>3, <1>11, <2>2 DEF Passed, Given
  <2>5. QED
    BY <1>2, <1>5, <1>6, <2>1, <2>3, <2>4, PassStep
<1>12. CASE /\ job' = [job EXCEPT ![p] = g] /\ UNCHANGED member
            /\ Current(w) => x # None /\ Manifest(p).uid
  <2>1. job'[p] = g /\ WorkMove(p)
    BY <1>1, <1>4, <1>12 DEF WorkMove
  <2>2. Current(w) => Passed(p, c)
    BY <1>2, <1>3, <1>12 DEF Passed, Kept
  <2>3. QED
    BY <1>2, <1>5, <1>6, <2>1, <2>2, PassStep
<1>13. CASE /\ job' = [job EXCEPT ![p].pc = "get", ![p].fresh = FALSE,
                                  ![p].tries = @ + 1]
            /\ UNCHANGED member
  <2>1. WorkMove(p)
    BY <1>1, <1>4, <1>13 DEF WorkMove
  <2>2. job'[p] = [job[p] EXCEPT !.pc = "get", !.fresh = FALSE,
                                 !.tries = job[p].tries + 1]
    BY <1>1, <1>13
  <2>3. job[p] \in Jobs
    BY <1>1
  <2>4. /\ job'[p].pc = "get" /\ job'[p].at = job[p].at /\ job'[p].m = job[p].m
        /\ job'[p].nils = job[p].nils /\ job'[p].uid = job[p].uid
    BY <2>2, <2>3 DEF Jobs
  <2>5. job'[p].pc \in Looping
    BY <2>4 DEF Looping
  <2>6. Manifest(p)' = Manifest(p)
    BY <1>4, <2>4 DEF Manifest
  <2>7. Current(w) => Found(p)'
    BY <1>8, <2>4, <2>6 DEF Found
  <2>8. QED
    BY <1>2, <1>5, <1>13, <2>1, <2>4, <2>5, <2>7, StayStep
<1>14. QED
  BY <1>10, <1>11, <1>12, <1>13

-----------------------------------------------------------------------------
(* syncHandler reads, a goroutine deletes, the process restarts *)

LEMMA ReadSettles ==
    ASSUME Orderly, SInv, [Next]_vars, NEW p \in Procs, Sync(p)
    PROVE  SInv'
<1>1. EInv' /\ OInv /\ Inv /\ Inv' /\ TypeOK
  BY NextEdits DEF SInv, EInv, OInv, Inv
<1>2. PICK w, n : w = active[p] /\ n = Len(mem[w])
  OBVIOUS
<1>3. Reads(p)
  BY DEF Sync, SyncNotFound, SyncAddFinalizer, SyncRemoveFinalizer, SyncApply
<1>4. /\ job[p].pc = "start" /\ w \in Works
      /\ UNCHANGED <<hist, member, active>>
      /\ read' = [read EXCEPT ![w] = n]
  BY <1>1, <1>2, <1>3, ReadOK DEF Reads, Newest
<1>5. n \in Nat /\ job[p] \in Jobs /\ read'[w] = n /\ \A x \in Works : x = w
  BY <1>1, <1>2, <1>4, Lengths DEF TypeOK, Orderly
<1>6. \A q \in Procs \ {p} : job[q].pc = "idle" /\ job'[q] = job[q]
  BY <1>1, <1>4, OthersIdle DEF Sync, SyncNotFound, SyncAddFinalizer,
     SyncRemoveFinalizer, SyncApply, TypeOK
<1>7. /\ job'[p].pc \in {"done", "put", "clients"}
      /\ job'[p].pc = "clients" => job'[p].at = n
      /\ SyncApply(p) => job'[p].pc = "clients"
  <2>1. ASSUME NEW pc \in {"put", "clients"},
               job' = [job EXCEPT ![p].pc = pc, ![p].at = Newest(active[p])]
        PROVE  job'[p].pc = pc /\ job'[p].at = n
    <3>1. job'[p] = [job[p] EXCEPT !.pc = pc, !.at = n]
      BY <1>1, <1>2, <2>1 DEF TypeOK, Newest
    <3>2. QED
      BY <1>5, <3>1 DEF Jobs
  <2>2. CASE SyncApply(p)
    <3>1. job' = [job EXCEPT ![p].pc = "clients", ![p].at = Newest(active[p])]
      BY <2>2 DEF SyncApply
    <3>2. QED
      BY <2>1, <3>1
  <2>3. CASE SyncAddFinalizer(p) \/ SyncRemoveFinalizer(p)
    <3>1. job' = [job EXCEPT ![p].pc = "put", ![p].at = Newest(active[p])]
      BY <2>3 DEF SyncAddFinalizer, SyncRemoveFinalizer
    <3>2. job'[p].pc = "put"
      BY <2>1, <3>1
    <3>3. ~SyncApply(p)
      BY <3>2, <1>1, <1>5, <2>1 DEF SyncApply
    <3>4. QED
      BY <3>2, <3>3
  <2>4. CASE SyncNotFound(p)
    <3>1. job'[p] = Finish(TRUE) /\ ~Cached(active[p])
      BY <1>1, <2>4 DEF SyncNotFound, TypeOK
    <3>2. job'[p].pc = "done"
      BY <3>1, FinishOK
    <3>3. QED
      BY <3>1, <3>2 DEF SyncApply
  <2>5. QED
    BY <2>2, <2>3, <2>4 DEF Sync
<1>8. ASSUME NEW x \in Works PROVE read'[x] <= Len(mem'[x])
  <2>1. x = w /\ Len(mem'[w]) \in Nat /\ Len(mem'[w]) >= n
    <3>1. Len(mem'[w]) \in Nat
      BY <1>1, <1>4, LenProperties DEF Inv, TypeOK
    <3>2. QED
      BY <1>1, <1>2, <1>4, <1>5, <3>1, MemoryGrows
  <2>2. QED
    BY <1>5, <2>1
<1>9. ASSUME NEW q \in Procs PROVE OnWay(q)' /\ InTouch(q)'
  <2>1. CASE q = p
    <3>1. read'[active'[p]] = n
      BY <1>2, <1>4, <1>5
    <3>2. QED
      BY <1>7, <2>1, <3>1 DEF OnWay, InTouch, Looping, Applying
  <2>2. CASE q # p
    BY <1>6, <2>2 DEF OnWay, InTouch, Looping, Applying
  <2>3. QED
    BY <2>1, <2>2
<1>10. Ways'
  BY <1>9 DEF Ways
<1>11. ASSUME Current(w)' PROVE job'[p].pc = "clients"
  <2>1. Edited(w) /\ n = Len(hist[w])
    BY <1>4, <1>5, <1>11, CurrentSame DEF Current
  <2>2. Marked(w)
    BY <1>4 DEF SInv
  <2>3. n \in 1..n
    BY <1>1, <1>4, <1>5, <2>1, LatestOK DEF Edited
  <2>4. mem[w][n].fin
    BY <1>2, <2>1, <2>2 DEF Marked
  <2>5. ~mem[w][n].del /\ ~mem[w][n].gone
    <3>1. Alike(mem[w][n], hist[w][n])
      BY <1>1, <1>2, <1>4, <2>3 DEF OInv, ObjectsOK, ObjectOK
    <3>2. QED
      BY <2>1, <2>3, <3>1 DEF Edited, Latest, Alike
  <2>6. Cached(w) /\ Newest(w) = n
    BY <1>2, <2>3, <2>5 DEF Cached, Newest
  <2>7. ~SyncNotFound(p) /\ ~SyncAddFinalizer(p) /\ ~SyncRemoveFinalizer(p)
    BY <1>2, <2>4, <2>5, <2>6 DEF SyncNotFound, SyncAddFinalizer,
       SyncRemoveFinalizer, Terminating
  <2>8. QED
    BY <1>7, <2>7 DEF Sync
<1>12. Settling'
  <2>1. ASSUME NEW x \in Works, Current(x)', NEW i
        PROVE  Ahead(x, i)'
    <3>1. x = w /\ active'[p] = w
      BY <1>2, <1>4, <1>5
    <3>2. Current(w)'
      BY <2>1, <3>1
    <3>3. QED
      BY <1>11, <3>1, <3>2 DEF Ahead
  <2>2. QED
    BY <2>1 DEF Settling
<1>13. QED
  BY <1>8, <1>10, <1>12, CommonStep

LEMMA ReaperSettles ==
    ASSUME Orderly, SInv, [Next]_vars, NEW r \in reapers, Reaper(r)
    PROVE  SInv'
<1>1. Inv /\ Inv' /\ OInv /\ Calmness
  BY NextEdits DEF SInv, EInv, OInv, Inv
<1>2. UNCHANGED <<hist, mem, read, active>>
  BY Zenon DEF Reaper, ReaperClients, ReaperDelete, server, informer, workqueue
<1>3. ASSUME NEW w \in Works PROVE ~Current(w)'
  BY <1>1, <1>2, NoReapers, CurrentSame DEF Current
<1>4. ASSUME NEW q \in Procs
      PROVE  job'[q] = job[q] \/ job'[q] = [job[q] EXCEPT !.fresh = FALSE]
  <2>1. UNCHANGED job \/ \E c, o : WriteMember(None, c, o, None, NoJob)
    BY Zenon DEF Reaper, ReaperClients, ReaperDelete
  <2>2. ASSUME NEW c, NEW o, WriteMember(None, c, o, None, NoJob)
        PROVE  job'[q] = job[q] \/ job'[q] = [job[q] EXCEPT !.fresh = FALSE]
    BY <2>2, NoneElsewhere DEF WriteMember
  <2>3. QED
    BY Zenon, <2>1, <2>2
<1>5. ASSUME NEW q \in Procs PROVE OnWay(q)'
  <2>1. job[q] \in Jobs
    BY <1>1 DEF Inv, TypeOK
  <2>2. /\ job'[q].pc = job[q].pc /\ job'[q].at = job[q].at
        /\ job'[q].to = job[q].to /\ job'[q].nils = job[q].nils
    BY <1>4, <2>1 DEF Jobs
  <2>3. OnWay(q)
    BY DEF SInv, Ways
  <2>4. QED
    BY <1>2, <2>2, <2>3 DEF OnWay
<1>6. ASSUME NEW q \in Procs, NEW w, job'[q].pc \in Looping, w = active'[q],
             Current(w)'
      PROVE  Found(q)'
  <2>1. w \in Works
    <3>1. job[q] \in Jobs
      BY <1>1 DEF Inv, TypeOK
    <3>2. job[q].pc # "idle"
      BY <1>4, <1>6, <3>1 DEF Jobs, Looping
    <3>3. QED
      BY <1>1, <1>2, <1>6, <3>2, ActiveOK
  <2>2. QED
    BY <1>3, <1>6, <2>1
<1>7. Ways'
  BY <1>5, <1>6, TouchIf DEF Ways
<1>8. Settling'
  BY <1>3 DEF Settling
<1>9. \A w \in Works : read'[w] <= Len(mem'[w])
  BY <1>1, <1>2 DEF Calmness
<1>10. QED
  BY <1>7, <1>8, <1>9, CommonStep

LEMMA RestartSettles ==
    ASSUME Orderly, SInv, [Next]_vars, Crash \/ NilClient
    PROVE  SInv'
<1>1. Inv /\ Inv'
  BY NextEdits DEF SInv, EInv, OInv, Inv
<1>2. /\ mem' = hist /\ hist' = hist /\ job' = [p \in Procs |-> NoJob]
      /\ read' = [w \in Works |-> 0]
  BY DEF Crash, NilClient, Restart, server
<1>3. ASSUME NEW w \in Works
      PROVE  read'[w] <= Len(mem'[w]) /\ ~Current(w)'
  <2>1. Len(hist[w]) \in Nat /\ (Edited(w) => Len(hist[w]) # 0)
    BY <1>1, Lengths, LatestOK DEF Edited, Inv
  <2>2. read'[w] = 0
    BY <1>2
  <2>3. QED
    BY <1>2, <2>1, <2>2, CurrentSame DEF Current
<1>4. \A p \in Procs : job'[p].pc = "idle"
  BY <1>2, FinishOK
<1>5. Ways'
  BY <1>4 DEF Ways, OnWay, InTouch, Looping, Applying
<1>6. Settling'
  BY <1>3 DEF Settling
<1>7. QED
  BY <1>3, <1>5, <1>6, CommonStep

LEMMA InitSettled == ASSUME Orderly, Init PROVE SInv
<1>1. EInv
  BY InitEdits
<1>2. /\ hist = [w \in Works |-> <<>>] /\ mem = [w \in Works |-> <<>>]
      /\ read = [w \in Works |-> 0] /\ down = {} /\ joined = Clusters
      /\ active = [p \in Procs |-> None] /\ job = [p \in Procs |-> NoJob]
  BY DEF Init, Q!SFInit, Orderly
<1>3. \A w \in Works : ~Edited(w)
  BY Zenon, <1>2 DEF Edited, Exists
<1>4. Calmness
  BY <1>2 DEF Calmness, Alone, DelStays
<1>5. \A p \in Procs : job[p].pc = "idle"
  BY <1>2, FinishOK
<1>6. Ways
  BY <1>5 DEF Ways, OnWay, InTouch, Looping, Applying
<1>7. Settling /\ \A w \in Works : Marked(w)
  BY <1>3 DEF Settling, Current, Marked
<1>8. QED
  BY <1>1, <1>4, <1>6, <1>7 DEF SInv

LEMMA NextSettled == ASSUME Orderly, SInv, [Next]_vars PROVE SInv'
<1>1. ASSUME NEW p \in Procs, SyncWork(p) PROVE SInv'
  BY <1>1, ClientsSettles, GetSettles, WriteSettles DEF SyncWork
<1>2. ASSUME NEW p \in Procs, Worker(p) PROVE SInv'
  BY <1>1, <1>2, ReadSettles, AsideSettles DEF Worker
<1>3. ASSUME NEW c \in Clusters, Join(c) \/ ClusterDown(c) \/ ClusterUp(c)
      PROVE  FALSE
  <2>1. budget.faults \in Nat /\ MaxFaults = 0 /\ down = {} /\ joined = Clusters
    BY DEF SInv, EInv, OInv, Inv, TypeOK, Calmness, Orderly
  <2>2. QED
    BY <1>3, <2>1 DEF Join, ClusterDown, ClusterUp, CanFault
<1>4. CASE UNCHANGED vars
  BY <1>4, AsideSettles
<1>5. CASE Next
  <2>1. CASE \E w \in Works : User(w) \/ Informer(w) \/ Fire(w)
    BY <2>1, AsideSettles
  <2>2. CASE \E p \in Procs : Worker(p) \/ \E w \in Works : Begin(p, w)
    BY <1>2, <2>2, AsideSettles
  <2>3. CASE \E r \in reapers : Reaper(r)
    BY <2>3, ReaperSettles
  <2>4. CASE Crash \/ NilClient
    BY <2>4, RestartSettles
  <2>5. QED
    BY <1>3, <1>5, <2>1, <2>2, <2>3, <2>4 DEF Next
<1>6. QED
  BY <1>4, <1>5

LEMMA SettledMatches == ASSUME SInv PROVE SettledMatchesSpec
<1>1. SUFFICES ASSUME NEW w \in Works, Quiet(w), Edited(w)
               PROVE  Matches(Latest(w))
  BY DEF SettledMatchesSpec
<1>2. Inv /\ UnreadWaits /\ Settling /\ Calmness
  BY DEF SInv, EInv, OInv
<1>3. PICK n : n = Len(hist[w])
  OBVIOUS
<1>4. /\ n \in Nat \ {0} /\ read[w] \in Nat /\ read[w] <= n
      /\ Newest(w) = n
  <2>1. Len(mem[w]) = n
    BY <1>1, <1>3 DEF Quiet
  <2>2. n \in Nat \ {0}
    BY <1>1, <1>2, <1>3, LatestOK DEF Edited, Inv
  <2>3. QED
    BY <1>2, <2>1, <2>2 DEF Newest, Calmness, Inv, TypeOK
<1>5. read[w] = n
  <2>1. ASSUME read[w] < n PROVE FALSE
    <3>1. ~hist[w][n].gone /\ ByUser(w, n)
      BY <1>1, <1>3 DEF Edited, Exists, Latest
    <3>2. Unread(w, n)
      BY <1>4, <2>1, <3>1 DEF Unread
    <3>3. Waits(w, n)
      BY <1>2, <1>4, <3>2 DEF UnreadWaits
    <3>4. ~(\E i \in 1..Len(notif[w]) : Tells(notif[w][i], n))
      BY <1>1 DEF Quiet
    <3>5. ~Starts(w) /\ w \notin pending \cup deferred
      BY <1>1 DEF Quiet, Starts
    <3>6. QED
      BY <3>3, <3>4, <3>5 DEF Waits
  <2>2. QED
    BY <1>4, <2>1
<1>6. ASSUME NEW i \in 1..Len(Latest(w).spec.manifests)
      PROVE  Reached(Latest(w), i)
  <2>1. Reached(Latest(w), i) \/ Ahead(w, i)
    BY <1>1, <1>2, <1>3, <1>5, <1>6 DEF Settling, Current
  <2>2. ~Ahead(w, i)
    BY <1>1 DEF Quiet, Ahead
  <2>3. QED
    BY <2>1, <2>2
<1>7. QED
  BY <1>6 DEF Matches, Reached

(* In a world without faults (Orderly), when nothing is left to do for a   *)
(* Workload that a user changed last, the cluster it names has every       *)
(* object of it, and with the content it says unless only manifests with   *)
(* the uid of the host's object tell it, which are never updated (Matches): *)
(* whichever update events OnUpdate ignored, whatever the  *)
(* responses changed in the cache's objects, and wherever the process      *)
(* restarted, the last sync has read the last version and applied it.      *)
THEOREM SettledIsApplied == ASSUME Orderly PROVE Spec => []SettledMatchesSpec
<1>1. Init => SInv
  BY InitSettled
<1>2. SInv /\ [Next]_vars => SInv'
  BY NextSettled
<1>3. SInv => SettledMatchesSpec
  BY SettledMatches
<1>4. QED
  BY <1>1, <1>2, <1>3, PTL DEF Spec
=============================================================================
