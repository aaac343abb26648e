-------------------- MODULE DistributionController_proofs --------------------
(***************************************************************************)
(* Theorems about DistributionController, for any ResourceDistributions,   *)
(* specs, labels, resources, ids, number of workers and bounds; those      *)
(* about its Workloads for any RDs that cannot make Workloads of one name. *)
(***************************************************************************)
EXTENDS DistributionProperties, SequenceTheorems, TLAPS

-----------------------------------------------------------------------------
(* The invariant about the RDs: versions, cached objects, workers *)

Versions ==
    [spec : Specs, id : DrawnIds \cup {<<>>}, fin : BOOLEAN, del : BOOLEAN,
     gone : BOOLEAN, uid : Nat, rv : Nat]

Budgets == [ops : Nat, faults : Nat]

(* Version n of h: an RD is marked, that is has its finalizer and an id,   *)
(* before it can be there deleted, and only then it can lose the mark.     *)
VersionOK(h, n) ==
    /\ h[n].rv = n
    /\ h[n].uid \in 1..n
    /\ h[n].fin => h[n].id \in DrawnIds
    /\ h[n].id # <<>> => h[n].fin \/ h[n].del
    /\ h[n].del /\ ~h[n].gone => h[n].fin
    /\ h[n].gone => h[n].del

(* The RD that version n of h belongs to is the last one, and there, or a  *)
(* version of it was being deleted.                                        *)
Ended(h, u) == \E m \in 1..Len(h) : h[m].uid = u /\ h[m].del

LastOne(h, u) == h[Len(h)].uid = u /\ ~h[Len(h)].gone

HistOK(h) ==
    /\ \A n \in 1..Len(h) : VersionOK(h, n)
    /\ \A m, n \in 1..Len(h) : m <= n => h[m].uid <= h[n].uid
    /\ \A n \in 1..Len(h) : LastOne(h, h[n].uid) \/ Ended(h, h[n].uid)

(* An object in memory is the version it was read as, or one that was      *)
(* marked or unmarked in vain: that one no worker will send again.         *)
CopyOf(o, h) ==
    /\ o \in Versions
    /\ o.rv \in 1..Len(h)
    /\ o.spec = h[o.rv].spec /\ o.uid = h[o.rv].uid /\ o.del = h[o.rv].del
    /\ ~o.gone
    /\ o.fin \/ o.del => o.id \in DrawnIds
    /\ o.fin = o.del => o.fin = h[o.rv].fin /\ o.id = h[o.rv].id

CacheOK(o, n, h) ==
    o # None =>
        /\ n \in 1..Len(h)
        /\ CopyOf(o, h)
        /\ o.uid = h[n].uid

Pcs == {"idle", "start", "delete", "plan", "apply", "done"}

IsJob(j) ==
    j \in [pc : Pcs, rd : {j.rd}, at : {j.at}, kill : {j.kill},
           todo : {j.todo}, ok : BOOLEAN]

JobOK(j, h) ==
    /\ IsJob(j)
    /\ j.pc \in {"delete", "plan"} => CopyOf(j.rd, h) /\ (j.rd.fin \/ j.rd.del)
    /\ j.pc = "delete" => /\ j.rd.fin /\ j.rd.del
                          /\ j.at \in 1..Len(h) /\ j.rd.uid = h[j.at].uid

(* No two workers have one RD. *)
Alone == \A p, q \in Procs : active[p] = active[q] /\ active[p] # None => p = q

IsWork(w) ==
    w \in [ns : {w.ns}, name : {w.name}, policy : {w.policy},
           owner : {w.owner}, clusters : {w.clusters},
           manifests : {w.manifests}, fin : BOOLEAN, del : BOOLEAN]

Unique(ws) == \A v, w \in ws : Key(v) = Key(w) => v = w

StoreOK ==
    /\ \A w \in works \cup wcache : IsWork(w)
    /\ Unique(works) /\ Unique(wcache)
    /\ \A w \in works \cup wcache : Key(w) \in stale \/ w \in works \cap wcache

RDInv ==
    /\ hist \in [RDs -> Seq(Versions)] /\ \A r \in RDs : HistOK(hist[r])
    /\ seen \in [RDs -> Nat] /\ \A r \in RDs : seen[r] <= Len(hist[r])
    /\ cache \in [RDs -> Versions \cup {None}]
    /\ \A r \in RDs : CacheOK(cache[r], seen[r], hist[r])
    /\ Q!SFTypeOK /\ Alone
    /\ job = [p \in Procs |-> job[p]]
    /\ \A p \in Procs : /\ job[p].pc = "idle" <=> active[p] = None
                        /\ JobOK(job[p], hist[active[p]])
    /\ ids \in 0..Len(FreshIds)
    /\ lab \in Labellings /\ host \in Hosts
    /\ budget \in Budgets

Inv == RDInv /\ StoreOK

-----------------------------------------------------------------------------
(* Sequences of versions that only grow *)

Extends(h, g) ==
    /\ Len(h) <= Len(g)
    /\ \A n \in 1..Len(h) : g[n] = h[n]

LEMMA ExtendsSelf == ASSUME NEW h \in Seq(Versions) PROVE Extends(h, h)
BY LenProperties DEF Extends

LEMMA AppendExtends ==
    ASSUME NEW h \in Seq(Versions), NEW v \in Versions
    PROVE  /\ Append(h, v) \in Seq(Versions)
           /\ Len(Append(h, v)) = Len(h) + 1
           /\ Append(h, v)[Len(h) + 1] = v
           /\ \A n \in 1..Len(h) : Append(h, v)[n] = h[n]
           /\ Extends(h, Append(h, v))
<1>1. /\ Append(h, v) \in Seq(Versions)
      /\ Len(Append(h, v)) = Len(h) + 1
      /\ \A n \in 1..Len(h) : Append(h, v)[n] = h[n]
      /\ Append(h, v)[Len(h) + 1] = v
      /\ Len(h) \in Nat
  BY AppendProperties, LenProperties
<1>2. QED
  BY <1>1 DEF Extends

LEMMA UidOK ==
    ASSUME NEW h \in Seq(Versions), HistOK(h), NEW n \in 1..Len(h)
    PROVE  h[n] \in Versions /\ h[n].uid \in Nat /\ Len(h) \in Nat \ {0}
<1>1. Len(h) \in Nat
  BY LenProperties
<1>2. h[n] \in Versions
  BY ElementOfSeq
<1>3. QED
  BY <1>1, <1>2 DEF Versions

(* A version of the RD that is there, or of a new one once that has ended. *)
LEMMA HistGrows ==
    ASSUME NEW h \in Seq(Versions), HistOK(h), NEW v \in Versions,
           VersionOK(Append(h, v), Len(h) + 1),
           \A n \in 1..Len(h) : h[n].uid <= v.uid,
           \A n \in 1..Len(h) : h[n].uid = v.uid \/ Ended(h, h[n].uid)
    PROVE  HistOK(Append(h, v))
<1> DEFINE g == Append(h, v)
<1>1. /\ g \in Seq(Versions) /\ Len(g) = Len(h) + 1 /\ g[Len(h) + 1] = v
      /\ Len(h) \in Nat /\ \A n \in 1..Len(h) : g[n] = h[n]
  BY AppendExtends, LenProperties
<1>2. VersionOK(g, Len(h) + 1)
  OBVIOUS
<1> HIDE DEF g
<1>3. ASSUME NEW n \in 1..Len(g) PROVE VersionOK(g, n)
  <2>1. CASE n = Len(h) + 1
    BY <1>2, <2>1
  <2>2. CASE n \in 1..Len(h)
    BY <1>1, <2>2 DEF HistOK, VersionOK
  <2>3. QED
    BY <1>1, <2>1, <2>2
<1>4. ASSUME NEW m \in 1..Len(g), NEW n \in 1..Len(g), m <= n
      PROVE  g[m].uid <= g[n].uid
  <2>1. CASE n \in 1..Len(h)
    <3>1. m \in 1..Len(h)
      BY <1>1, <1>4, <2>1
    <3>2. QED
      BY <1>1, <1>4, <2>1, <3>1 DEF HistOK
  <2>2. CASE n = Len(h) + 1 /\ m \in 1..Len(h)
    BY <1>1, <2>2
  <2>3. CASE n = Len(h) + 1 /\ m = Len(h) + 1
    <3>1. v.uid \in Nat
      BY DEF Versions
    <3>2. QED
      BY <1>1, <2>3, <3>1
  <2>4. QED
    BY <1>1, <2>1, <2>2, <2>3
<1>5. \A u : Ended(h, u) => Ended(g, u)
  BY <1>1 DEF Ended
<1>6. LastOne(g, v.uid) \/ Ended(g, v.uid)
  <2>1. v.gone => v.del
    BY <1>1, <1>2 DEF VersionOK
  <2>2. Len(h) + 1 \in 1..Len(g)
    BY <1>1
  <2>3. QED
    BY <1>1, <2>1, <2>2 DEF LastOne, Ended
<1>7. ASSUME NEW n \in 1..Len(g)
      PROVE  LastOne(g, g[n].uid) \/ Ended(g, g[n].uid)
  <2>1. CASE n \in 1..Len(h)
    BY <1>1, <1>5, <1>6, <2>1
  <2>2. CASE n = Len(h) + 1
    BY <1>1, <1>6, <2>2
  <2>3. QED
    BY <1>1, <2>1, <2>2
<1>8. QED
  BY <1>3, <1>4, <1>7 DEF HistOK, g

LEMMA CopyStays ==
    ASSUME NEW h \in Seq(Versions), NEW g \in Seq(Versions), Extends(h, g),
           NEW o, CopyOf(o, h)
    PROVE  CopyOf(o, g)
<1>1. Len(h) \in Nat /\ Len(g) \in Nat
  BY LenProperties
<1>2. o.rv \in 1..Len(h) /\ o.rv \in 1..Len(g) /\ g[o.rv] = h[o.rv]
  BY <1>1 DEF CopyOf, Extends
<1>3. QED
  BY <1>2 DEF CopyOf

LEMMA CacheStays ==
    ASSUME NEW h \in Seq(Versions), NEW g \in Seq(Versions), Extends(h, g),
           NEW o, NEW n, CacheOK(o, n, h)
    PROVE  CacheOK(o, n, g)
<1>1. Len(h) \in Nat /\ Len(g) \in Nat
  BY LenProperties
<1>2. ASSUME o # None PROVE n \in 1..Len(g) /\ g[n] = h[n] /\ CopyOf(o, g)
  BY <1>1, <1>2, CopyStays DEF CacheOK, Extends
<1>3. QED
  BY <1>2 DEF CacheOK

LEMMA JobStays ==
    ASSUME NEW h \in Seq(Versions), NEW g \in Seq(Versions), Extends(h, g),
           NEW j, JobOK(j, h)
    PROVE  JobOK(j, g)
<1>1. Len(h) \in Nat /\ Len(g) \in Nat
  BY LenProperties
<1>2. ASSUME j.pc \in {"delete", "plan"} PROVE CopyOf(j.rd, g)
  BY <1>2, CopyStays DEF JobOK
<1>3. ASSUME j.pc = "delete" PROVE j.at \in 1..Len(g) /\ g[j.at] = h[j.at]
  BY <1>1, <1>3 DEF JobOK, Extends
<1>4. QED
  BY <1>2, <1>3 DEF JobOK

LEMMA IdleJob ==
    ASSUME NEW j, NEW h, NEW g, j.pc \in {"idle", "start", "apply", "done"},
           JobOK(j, h)
    PROVE  JobOK(j, g)
BY DEF JobOK

-----------------------------------------------------------------------------
(* What a step has to show *)

LEMMA HistOf ==
    ASSUME RDInv, NEW r \in RDs
    PROVE  hist[r] \in Seq(Versions) /\ HistOK(hist[r]) /\ Len(hist[r]) \in Nat
BY LenProperties DEF RDInv

Grows ==
    /\ hist' \in [RDs -> Seq(Versions)]
    /\ \A r \in RDs : HistOK(hist'[r]) /\ Extends(hist[r], hist'[r])

CacheStep(r) ==
    \/ seen'[r] = seen[r] /\ cache'[r] = cache[r]
    \/ seen'[r] <= Len(hist'[r]) /\ CacheOK(cache'[r], seen'[r], hist'[r])

JobStep(p) ==
    \/ job'[p] = job[p] /\ active'[p] = active[p]
    \/ /\ job'[p].pc = "idle" <=> active'[p] = None
       /\ JobOK(job'[p], hist'[active'[p]])

LEMMA GrowsNot == ASSUME RDInv, UNCHANGED hist PROVE Grows
BY HistOf, ExtendsSelf DEF RDInv, Grows

LEMMA Idle == None \notin RDs
BY DistributionConstants DEF DistributionConstants

LEMMA ActiveOK ==
    ASSUME RDInv, NEW p \in Procs
    PROVE  /\ active[p] \in RDs \cup {None}
           /\ job[p].pc = "idle" <=> active[p] = None
           /\ JobOK(job[p], hist[active[p]])
           /\ job[p].pc # "idle" => active[p] \in RDs
BY DEF RDInv, Q!SFTypeOK

LEMMA StepOK ==
    ASSUME RDInv, Grows,
           seen' \in [RDs -> Nat], cache' \in [RDs -> Versions \cup {None}],
           \A r \in RDs : CacheStep(r),
           Q!SFTypeOK', Alone',
           job' = [p \in Procs |-> job'[p]],
           \A p \in Procs : JobStep(p),
           ids' \in 0..Len(FreshIds), lab' \in Labellings, host' \in Hosts,
           budget' \in Budgets
    PROVE  RDInv'
<1>1. ASSUME NEW r \in RDs
      PROVE  seen'[r] <= Len(hist'[r]) /\ CacheOK(cache'[r], seen'[r], hist'[r])
  <2>1. /\ hist[r] \in Seq(Versions) /\ hist'[r] \in Seq(Versions)
        /\ Extends(hist[r], hist'[r])
        /\ Len(hist[r]) \in Nat /\ Len(hist'[r]) \in Nat
    BY LenProperties DEF RDInv, Grows
  <2>2. CASE seen'[r] = seen[r] /\ cache'[r] = cache[r]
    <3>1. seen[r] <= Len(hist[r]) /\ CacheOK(cache[r], seen[r], hist[r])
          /\ seen[r] \in Nat
      BY DEF RDInv
    <3>2. CacheOK(cache[r], seen[r], hist'[r])
      BY <2>1, <3>1, CacheStays
    <3>3. seen[r] <= Len(hist'[r])
      BY <2>1, <3>1 DEF Extends
    <3>4. QED
      BY <2>2, <3>2, <3>3
  <2>3. QED
    BY <2>2 DEF CacheStep
<1>2. ASSUME NEW p \in Procs
      PROVE  /\ job'[p].pc = "idle" <=> active'[p] = None
             /\ JobOK(job'[p], hist'[active'[p]])
  <2>1. CASE job'[p] = job[p] /\ active'[p] = active[p]
    <3>1. /\ JobOK(job[p], hist[active[p]])
          /\ job[p].pc = "idle" <=> active[p] = None
          /\ job[p].pc # "idle" => active[p] \in RDs
      BY ActiveOK
    <3>2. CASE job[p].pc = "idle"
      BY <2>1, <3>1, <3>2, IdleJob
    <3>3. CASE job[p].pc # "idle"
      <4>1. /\ hist[active[p]] \in Seq(Versions)
            /\ hist'[active[p]] \in Seq(Versions)
            /\ Extends(hist[active[p]], hist'[active[p]])
        BY <3>1, <3>3 DEF RDInv, Grows
      <4>2. QED
        BY <2>1, <3>1, <4>1, JobStays
    <3>4. QED
      BY <3>2, <3>3
  <2>2. QED
    BY <2>1 DEF JobStep
<1>3. QED
  BY <1>1, <1>2 DEF RDInv, Grows

(* A worker moves, perhaps an RD is delivered or written. *)
LEMMA JobSet ==
    ASSUME RDInv, NEW p \in Procs, NEW j, job' = [job EXCEPT ![p] = j]
    PROVE  /\ job' = [q \in Procs |-> job'[q]]
           /\ job'[p] = j /\ \A q \in Procs \ {p} : job'[q] = job[q]
BY DEF RDInv

LEMMA JobsSame ==
    ASSUME RDInv, UNCHANGED <<job, active>>
    PROVE  job' = [p \in Procs |-> job'[p]] /\ \A p \in Procs : JobStep(p)
BY DEF RDInv, JobStep

LEMMA BudgetOK ==
    ASSUME RDInv, CanOp \/ CanFault \/ UNCHANGED budget
    PROVE  budget' \in Budgets
<1>1. /\ budget \in Budgets /\ budget.ops + 1 \in Nat
      /\ budget.faults + 1 \in Nat
  BY DEF RDInv, Budgets
<1>2. CASE CanOp
  BY <1>1, <1>2 DEF CanOp, Budgets
<1>3. CASE CanFault
  BY <1>1, <1>3 DEF CanFault, Budgets
<1>4. CASE UNCHANGED budget
  BY <1>1, <1>4
<1>5. QED
  BY <1>2, <1>3, <1>4

-----------------------------------------------------------------------------
(* The work queue *)

LEMMA QueueSame ==
    ASSUME RDInv, UNCHANGED workqueue PROVE Q!SFTypeOK' /\ Alone'
BY DEF RDInv, workqueue, Q!SFTypeOK, Alone

LEMMA Requested ==
    ASSUME RDInv, NEW r \in RDs, Q!Request(r)
    PROVE  Q!SFTypeOK' /\ Alone' /\ UNCHANGED active
BY DEF RDInv, Q!Request, Q!SFTypeOK, Alone

LEMMA Fired ==
    ASSUME RDInv, NEW r \in RDs, Q!Fire(r)
    PROVE  Q!SFTypeOK' /\ Alone' /\ UNCHANGED active
BY DEF RDInv, Q!Fire, Q!SFTypeOK, Alone

LEMMA Deferred ==
    ASSUME RDInv, NEW p \in Procs, Q!Defer(p)
    PROVE  Q!SFTypeOK' /\ Alone' /\ UNCHANGED active
BY DEF RDInv, Q!Defer, Q!SFTypeOK, Alone

LEMMA Ends ==
    ASSUME RDInv, NEW p \in Procs, Q!End(p)
    PROVE  /\ Q!SFTypeOK' /\ Alone'
           /\ active'[p] = None
           /\ \A q \in Procs \ {p} : active'[q] = active[q]
BY DEF RDInv, Q!End, Q!SFTypeOK, Alone

LEMMA Begins ==
    ASSUME RDInv, NEW p \in Procs, NEW r \in RDs, Q!Begin(p, r)
    PROVE  /\ Q!SFTypeOK' /\ Alone'
           /\ active'[p] = r
           /\ \A q \in Procs \ {p} : active'[q] = active[q]
BY DEF RDInv, Q!Begin, Q!SFTypeOK, Alone

-----------------------------------------------------------------------------
(* Jobs *)

LEMMA FinishOK ==
    ASSUME NEW ok \in BOOLEAN, NEW h
    PROVE  JobOK(Finish(ok), h) /\ Finish(ok).pc = "done" /\ Finish(ok).ok = ok
BY DEF Finish, NoJob, IsJob, JobOK, Pcs

LEMMA IdleOK == ASSUME NEW h PROVE JobOK(NoJob, h) /\ NoJob.pc = "idle"
BY DEF NoJob, IsJob, JobOK, Pcs

LEMMA PlainJobOK ==
    ASSUME NEW j, NEW h, IsJob(j), j.pc \in {"start", "apply", "done"}
    PROVE  JobOK(j, h)
BY DEF JobOK

(* A worker with an RD goes on with job j; nothing else of the RDs moves. *)
LEMMA WorkerStep ==
    ASSUME RDInv, NEW p \in Procs, NEW j, job' = [job EXCEPT ![p] = j],
           UNCHANGED <<hist, world, informer, ids>>,
           Q!SFTypeOK', Alone', UNCHANGED active,
           active[p] # None,
           j.pc # "idle", JobOK(j, hist[active[p]]),
           budget' \in Budgets
    PROVE  RDInv'
<1>1. Grows
  BY GrowsNot
<1>2. /\ job' = [q \in Procs |-> job'[q]]
      /\ job'[p] = j /\ \A q \in Procs \ {p} : job'[q] = job[q]
  BY JobSet
<1>3. \A q \in Procs : JobStep(q)
  BY <1>2 DEF JobStep
<1>4. /\ seen' \in [RDs -> Nat] /\ cache' \in [RDs -> Versions \cup {None}]
      /\ \A r \in RDs : CacheStep(r)
      /\ ids' \in 0..Len(FreshIds) /\ lab' \in Labellings /\ host' \in Hosts
  BY DEF RDInv, CacheStep, informer, world
<1>5. QED
  BY <1>1, <1>2, <1>3, <1>4, StepOK

-----------------------------------------------------------------------------
(* Writes of RDs *)

(* What is asked of a version v that follows those in h. *)
Admissible(h, v) ==
    /\ v \in Versions
    /\ v.uid \in 1..Len(h) + 1
    /\ v.fin => v.id \in DrawnIds
    /\ v.id # <<>> => v.fin \/ v.del
    /\ v.del /\ ~v.gone => v.fin
    /\ v.gone => v.del
    /\ \A n \in 1..Len(h) : h[n].uid <= v.uid
    /\ \A n \in 1..Len(h) : h[n].uid = v.uid \/ Ended(h, h[n].uid)

LEMMA Stores ==
    ASSUME RDInv, NEW r \in RDs, NEW v, Admissible(hist[r], v), Store(r, v)
    PROVE  /\ Grows
           /\ Len(hist'[r]) = Len(hist[r]) + 1
           /\ hist'[r][Len(hist[r]) + 1] = [v EXCEPT !.rv = Len(hist[r]) + 1]
           /\ \A s \in RDs \ {r} : hist'[s] = hist[s]
<1> DEFINE h == hist[r]
           u == [v EXCEPT !.rv = Len(h) + 1]
<1>1. h \in Seq(Versions) /\ HistOK(h) /\ Len(h) \in Nat
  BY HistOf
<1>2. v \in Versions
  BY DEF Admissible
<1>3. /\ u \in Versions /\ u.rv = Len(h) + 1 /\ u.uid = v.uid /\ u.id = v.id
      /\ u.fin = v.fin /\ u.del = v.del /\ u.gone = v.gone
  BY <1>1, <1>2 DEF Versions
<1>4. hist' = [hist EXCEPT ![r] = Append(h, u)]
  BY DEF Store
<1>5. Admissible(h, v)
  OBVIOUS
<1> HIDE DEF h, u
<1>6. /\ Append(h, u) \in Seq(Versions)
      /\ Len(Append(h, u)) = Len(h) + 1
      /\ Append(h, u)[Len(h) + 1] = u
      /\ Extends(h, Append(h, u))
  BY <1>1, <1>3, AppendExtends
<1>7. VersionOK(Append(h, u), Len(h) + 1)
  BY <1>3, <1>5, <1>6 DEF VersionOK, Admissible
<1>8. HistOK(Append(h, u))
  <2>1. /\ \A n \in 1..Len(h) : h[n].uid <= u.uid
        /\ \A n \in 1..Len(h) : h[n].uid = u.uid \/ Ended(h, h[n].uid)
    BY <1>3, <1>5 DEF Admissible
  <2>2. QED
    BY <1>1, <1>3, <1>7, <2>1, HistGrows
<1>9. /\ hist'[r] = Append(h, u) /\ \A s \in RDs \ {r} : hist'[s] = hist[s]
      /\ hist' \in [RDs -> Seq(Versions)]
  BY <1>4, <1>6 DEF RDInv
<1>10. Grows
  <2>1. \A s \in RDs : HistOK(hist[s]) /\ Extends(hist[s], hist[s])
    BY HistOf, ExtendsSelf
  <2>2. QED
    BY <1>6, <1>8, <1>9, <2>1 DEF Grows, h
<1>11. QED
  BY <1>6, <1>9, <1>10 DEF h, u

LEMMA LatestOK ==
    ASSUME RDInv, NEW r \in RDs, Exists(r)
    PROVE  /\ Len(hist[r]) \in 1..Len(hist[r]) /\ Len(hist[r]) \in Nat \ {0}
           /\ Latest(r) = hist[r][Len(hist[r])]
           /\ Latest(r) \in Versions /\ ~Latest(r).gone
           /\ VersionOK(hist[r], Len(hist[r]))
<1>1. hist[r] \in Seq(Versions) /\ HistOK(hist[r]) /\ hist[r] # <<>>
  BY HistOf DEF Exists
<1>2. Len(hist[r]) \in Nat \ {0}
  BY <1>1, EmptySeq, LenProperties
<1>3. hist[r][Len(hist[r])] \in Versions
  BY <1>1, <1>2, ElementOfSeq
<1>4. QED
  BY <1>1, <1>2, <1>3 DEF Latest, Exists, HistOK

(* A version of the RD that is there has a place behind the others. *)
LEMMA SameRD ==
    ASSUME RDInv, NEW r \in RDs, Exists(r), NEW v, v.uid = Latest(r).uid
    PROVE  /\ v.uid \in 1..Len(hist[r]) + 1
           /\ \A n \in 1..Len(hist[r]) : hist[r][n].uid <= v.uid
           /\ \A n \in 1..Len(hist[r]) :
                 hist[r][n].uid = v.uid \/ Ended(hist[r], hist[r][n].uid)
<1> DEFINE h == hist[r]
<1>1. /\ Len(h) \in 1..Len(h) /\ Len(h) \in Nat
      /\ v.uid = h[Len(h)].uid /\ VersionOK(h, Len(h)) /\ HistOK(h)
  BY LatestOK, HistOf
<1> HIDE DEF h
<1>2. v.uid \in 1..Len(h) + 1
  BY <1>1 DEF VersionOK
<1>3. \A n \in 1..Len(h) : h[n].uid <= v.uid
  BY <1>1 DEF HistOK
<1>4. \A n \in 1..Len(h) : h[n].uid = v.uid \/ Ended(h, h[n].uid)
  BY <1>1 DEF HistOK, LastOne
<1>5. QED
  BY <1>2, <1>3, <1>4 DEF h

LEMMA NewRD ==
    ASSUME RDInv, NEW r \in RDs, ~Exists(r), NEW v, v.uid = Len(hist[r]) + 1
    PROVE  /\ v.uid \in 1..Len(hist[r]) + 1
           /\ \A n \in 1..Len(hist[r]) : hist[r][n].uid <= v.uid
           /\ \A n \in 1..Len(hist[r]) :
                 hist[r][n].uid = v.uid \/ Ended(hist[r], hist[r][n].uid)
<1> DEFINE h == hist[r]
<1>1. h \in Seq(Versions) /\ HistOK(h) /\ Len(h) \in Nat
  BY HistOf
<1>2. ASSUME NEW n \in 1..Len(h) PROVE h[Len(h)].gone
  <2>1. h # <<>>
    BY <1>1, <1>2, EmptySeq
  <2>2. QED
    BY <2>1 DEF Exists, Latest
<1> HIDE DEF h
<1>3. \A n \in 1..Len(h) : h[n].uid <= Len(h) + 1
  BY <1>1 DEF HistOK, VersionOK
<1>4. \A n \in 1..Len(h) : Ended(h, h[n].uid)
  BY <1>1, <1>2 DEF HistOK, LastOne
<1>5. QED
  BY <1>1, <1>3, <1>4 DEF h

LEMMA UserWrites ==
    ASSUME RDInv, NEW r \in RDs, NEW v, Admissible(hist[r], v), Store(r, v),
           CanOp, UNCHANGED <<world, informer, workqueue, job, ids>>
    PROVE  RDInv'
<1>1. Grows
  BY Stores
<1>2. Q!SFTypeOK' /\ Alone' /\ budget' \in Budgets
  BY QueueSame, BudgetOK
<1>3. job' = [p \in Procs |-> job'[p]] /\ \A p \in Procs : JobStep(p)
  BY JobsSame DEF workqueue
<1>4. /\ seen' \in [RDs -> Nat] /\ cache' \in [RDs -> Versions \cup {None}]
      /\ \A s \in RDs : CacheStep(s)
      /\ ids' \in 0..Len(FreshIds) /\ lab' \in Labellings /\ host' \in Hosts
  BY DEF RDInv, CacheStep, informer, world
<1>5. QED
  BY <1>1, <1>2, <1>3, <1>4, StepOK

(* The version that a user writes. *)
LEMMA UserVersion ==
    ASSUME RDInv, NEW r \in RDs, User(r)
    PROVE  \E v : /\ Admissible(hist[r], v) /\ Store(r, v)
                  /\ Exists(r) => v.id = Latest(r).id
<1>1. CASE Create(r)
  <2>1. PICK s \in Specs : Store(r, Version(s, Len(hist[r]) + 1))
    BY <1>1 DEF Create
  <2> DEFINE v == Version(s, Len(hist[r]) + 1)
  <2>2. /\ v \in Versions /\ v.uid = Len(hist[r]) + 1 /\ v.id = <<>>
        /\ ~v.fin /\ ~v.del /\ ~v.gone
    BY HistOf DEF Version, Versions
  <2>3. CanOp /\ ~Exists(r) /\ Store(r, v)
        /\ UNCHANGED <<world, informer, workqueue, job, ids>>
    BY <1>1, <2>1 DEF Create
  <2> HIDE DEF v
  <2>4. Admissible(hist[r], v)
    BY <2>2, <2>3, NewRD DEF Admissible
  <2>5. QED
    BY <2>3, <2>4
<1>2. CASE Edit(r)
  <2>1. PICK s \in Specs : Store(r, [Latest(r) EXCEPT !.spec = s])
    BY <1>2 DEF Edit
  <2> DEFINE v == [Latest(r) EXCEPT !.spec = s]
  <2>2. CanOp /\ Exists(r) /\ Store(r, v)
        /\ UNCHANGED <<world, informer, workqueue, job, ids>>
    BY <1>2, <2>1 DEF Edit
  <2>3. /\ Latest(r) \in Versions /\ ~Latest(r).gone
        /\ VersionOK(hist[r], Len(hist[r])) /\ Latest(r) = hist[r][Len(hist[r])]
    BY <2>2, LatestOK
  <2>4. /\ v \in Versions /\ v.uid = Latest(r).uid /\ v.id = Latest(r).id
        /\ v.fin = Latest(r).fin /\ v.del = Latest(r).del /\ ~v.gone
    BY <2>3 DEF Versions
  <2> HIDE DEF v
  <2>5. Admissible(hist[r], v)
    BY <2>2, <2>3, <2>4, SameRD DEF Admissible, VersionOK
  <2>6. QED
    BY <2>2, <2>4, <2>5
<1>3. CASE Delete(r)
  <2> DEFINE v == [Latest(r) EXCEPT !.del = TRUE, !.gone = ~Latest(r).fin]
  <2>1. CanOp /\ Exists(r) /\ ~Latest(r).del /\ Store(r, v)
        /\ UNCHANGED <<world, informer, workqueue, job, ids>>
    BY <1>3 DEF Delete
  <2>2. /\ Latest(r) \in Versions /\ ~Latest(r).gone
        /\ VersionOK(hist[r], Len(hist[r])) /\ Latest(r) = hist[r][Len(hist[r])]
    BY <2>1, LatestOK
  <2>3. /\ v \in Versions /\ v.uid = Latest(r).uid /\ v.id = Latest(r).id
        /\ v.fin = Latest(r).fin /\ v.del /\ v.gone = ~v.fin
    BY <2>2 DEF Versions
  <2> HIDE DEF v
  <2>4. Admissible(hist[r], v)
    BY <2>1, <2>2, <2>3, SameRD DEF Admissible, VersionOK
  <2>5. QED
    BY <2>1, <2>3, <2>4
<1>4. QED
  BY <1>1, <1>2, <1>3 DEF User

LEMMA UserStep == ASSUME RDInv, NEW r \in RDs, User(r) PROVE RDInv'
<1>1. CanOp /\ UNCHANGED <<world, informer, workqueue, job, ids>>
  BY DEF User, Create, Edit, Delete
<1>2. QED
  BY <1>1, UserVersion, UserWrites

-----------------------------------------------------------------------------
(* The informer, the queue, and steps of the Workloads alone *)

(* Steps that move neither RDs nor workers. *)
LEMMA QueueStep ==
    ASSUME RDInv, UNCHANGED <<hist, job, active, ids>>, Q!SFTypeOK', Alone',
           seen' \in [RDs -> Nat], cache' \in [RDs -> Versions \cup {None}],
           \A r \in RDs : CacheStep(r),
           lab' \in Labellings, host' \in Hosts, budget' \in Budgets
    PROVE  RDInv'
<1>1. Grows
  BY GrowsNot
<1>2. job' = [p \in Procs |-> job'[p]] /\ \A p \in Procs : JobStep(p)
  BY JobsSame
<1>3. ids' \in 0..Len(FreshIds)
  BY DEF RDInv
<1>4. QED
  BY <1>1, <1>2, <1>3, StepOK

LEMMA SameCache ==
    ASSUME RDInv, UNCHANGED informer
    PROVE  /\ seen' \in [RDs -> Nat] /\ cache' \in [RDs -> Versions \cup {None}]
           /\ \A r \in RDs : CacheStep(r)
BY DEF RDInv, CacheStep, informer

LEMMA SameWorld ==
    ASSUME RDInv, UNCHANGED world
    PROVE  lab' \in Labellings /\ host' \in Hosts
BY DEF RDInv, world

LEMMA DeliverStep == ASSUME RDInv, NEW r \in RDs, Deliver(r) PROVE RDInv'
<1> DEFINE h == hist[r]
           n == seen[r] + 1
           v == h[n]
<1>1. /\ seen[r] < Len(h) /\ seen' = [seen EXCEPT ![r] = n]
      /\ cache' = [cache EXCEPT ![r] = IF v.gone THEN None ELSE v]
      /\ Q!Request(r)
      /\ UNCHANGED <<hist, world, server, job, ids, budget>>
  BY DEF Deliver
<1>2. h \in Seq(Versions) /\ HistOK(h) /\ Len(h) \in Nat /\ seen[r] \in Nat
  BY HistOf DEF RDInv
<1>3. n \in 1..Len(h) /\ n \in Nat /\ n <= Len(h)
  BY <1>1, <1>2
<1> HIDE DEF h, n
<1>4. v \in Versions /\ VersionOK(h, n)
  BY <1>2, <1>3, ElementOfSeq DEF HistOK
<1>5. CASE v.gone
  <2>1. CacheOK(None, n, h)
    BY DEF CacheOK
  <2>2. QED
    <3>1. cache' = [cache EXCEPT ![r] = None]
      BY <1>1, <1>5
    <3>2. /\ seen' \in [RDs -> Nat] /\ cache' \in [RDs -> Versions \cup {None}]
          /\ \A s \in RDs : CacheStep(s)
      BY <1>1, <1>3, <2>1, <3>1 DEF RDInv, CacheStep, h
    <3>3. Q!SFTypeOK' /\ Alone' /\ UNCHANGED active /\ budget' \in Budgets
          /\ lab' \in Labellings /\ host' \in Hosts
      BY <1>1, Requested, SameWorld DEF RDInv
    <3>4. QED
      BY <1>1, <3>2, <3>3, QueueStep
<1>6. CASE ~v.gone
  <2>1. CopyOf(v, h)
    BY <1>3, <1>4, <1>6 DEF CopyOf, VersionOK
  <2>2. CacheOK(v, n, h)
    BY <1>3, <2>1 DEF CacheOK
  <2>3. QED
    <3>1. cache' = [cache EXCEPT ![r] = v]
      BY <1>1, <1>6
    <3> HIDE DEF v
    <3>2. /\ seen' \in [RDs -> Nat] /\ cache' \in [RDs -> Versions \cup {None}]
          /\ \A s \in RDs : CacheStep(s)
      BY <1>1, <1>3, <1>4, <2>2, <3>1 DEF RDInv, CacheStep, h
    <3>3. Q!SFTypeOK' /\ Alone' /\ UNCHANGED active /\ budget' \in Budgets
          /\ lab' \in Labellings /\ host' \in Hosts
      BY <1>1, Requested, SameWorld DEF RDInv
    <3>4. QED
      BY <1>1, <3>2, <3>3, QueueStep
<1>7. QED
  BY <1>5, <1>6

LEMMA RequestStep ==
    ASSUME RDInv, NEW r \in RDs, Resync(r) \/ Fire(r) PROVE RDInv'
<1>1. /\ Q!SFTypeOK' /\ Alone' /\ UNCHANGED active
      /\ UNCHANGED <<hist, world, informer, job, ids, budget>>
  BY Requested, Fired DEF Resync, Fire
<1>2. budget' \in Budgets
  BY <1>1, BudgetOK
<1>3. QED
  BY <1>1, <1>2, SameCache, SameWorld, QueueStep

(* The Workloads, their cache, or the world change. *)
LEMMA OtherStep ==
    ASSUME RDInv, UNCHANGED <<hist, informer, workqueue, job, ids>>,
           lab' \in Labellings, host' \in Hosts, budget' \in Budgets
    PROVE  RDInv'
<1>1. Q!SFTypeOK' /\ Alone' /\ UNCHANGED active
  BY QueueSame DEF workqueue
<1>2. QED
  BY <1>1, SameCache, QueueStep

LEMMA WorldStep ==
    ASSUME RDInv,
           \/ Change
           \/ \E w \in works : WorkFinalizer(w) \/ Collect(w)
           \/ \E k \in stale : DeliverWork(k)
    PROVE  RDInv'
<1>1. CASE Change
  <2>1. lab' \in Labellings /\ host' \in Hosts /\ budget' \in Budgets
    BY <1>1, BudgetOK DEF Change, RDInv
  <2>2. QED
    BY <1>1, <2>1, OtherStep DEF Change
<1>2. CASE \/ \E w \in works : WorkFinalizer(w) \/ Collect(w)
           \/ \E k \in stale : DeliverWork(k)
  <2>1. UNCHANGED <<hist, world, informer, workqueue, job, ids, budget>>
    BY <1>2 DEF WorkFinalizer, Collect, DeliverWork
  <2>2. lab' \in Labellings /\ host' \in Hosts /\ budget' \in Budgets
    BY <2>1, BudgetOK, SameWorld
  <2>3. QED
    BY <2>1, <2>2, OtherStep
<1>3. QED
  BY <1>1, <1>2

-----------------------------------------------------------------------------
(* Sending an object *)

LEMMA SentOK ==
    ASSUME RDInv, NEW r \in RDs, NEW o, CopyOf(o, hist[r]), o.fin # o.del,
           Accepted(r, o)
    PROVE  LET v == Sent(r, o)
               a == [Sent(r, o) EXCEPT !.gone = FALSE]
           IN  /\ Admissible(hist[r], v)
               /\ v.rv = Len(hist[r]) + 1 /\ v.uid = o.uid
               /\ v.id = o.id /\ v.fin = o.fin /\ v.del = o.del
               /\ v = [v EXCEPT !.rv = Len(hist[r]) + 1]
               /\ a \in Versions /\ ~a.gone
               /\ a.spec = v.spec /\ a.uid = o.uid /\ a.id = o.id
               /\ a.fin = o.fin /\ a.del = o.del /\ a.rv = v.rv
<1> DEFINE v == Sent(r, o)
           a == [Sent(r, o) EXCEPT !.gone = FALSE]
<1>1. /\ Latest(r) \in Versions /\ ~Latest(r).gone
      /\ VersionOK(hist[r], Len(hist[r])) /\ Latest(r) = hist[r][Len(hist[r])]
      /\ Len(hist[r]) \in Nat /\ Exists(r) /\ o.rv = Len(hist[r])
  BY LatestOK DEF Accepted
<1>2. /\ o \in Versions
      /\ o.spec = Latest(r).spec /\ o.uid = Latest(r).uid
      /\ o.del = Latest(r).del
      /\ o.fin \/ o.del => o.id \in DrawnIds
  BY <1>1 DEF CopyOf
<1>3. o.id \in DrawnIds /\ o.fin \in BOOLEAN /\ o.del \in BOOLEAN
  BY <1>2 DEF Versions
<1>4. /\ v \in Versions /\ v.rv = Len(hist[r]) + 1 /\ v.uid = o.uid
      /\ v.id = o.id /\ v.fin = o.fin /\ v.del = o.del
      /\ (v.gone <=> o.del /\ ~o.fin) /\ v.spec = o.spec
  <2> DEFINE g == Latest(r).del /\ ~o.fin
  <2>1. g \in BOOLEAN /\ (g <=> o.del /\ ~o.fin)
    BY <1>2
  <2>2. v = [Latest(r) EXCEPT !.spec = o.spec, !.fin = o.fin, !.id = o.id,
                              !.gone = g, !.rv = Len(hist[r]) + 1]
    BY DEF Sent
  <2> HIDE DEF g, v
  <2>3. v \in Versions /\ v.rv = Len(hist[r]) + 1 /\ v.uid = o.uid
        /\ v.id = o.id /\ v.fin = o.fin /\ v.del = o.del /\ v.gone = g
        /\ v.spec = o.spec
    <3>1. o.spec \in Specs /\ Latest(r).uid = o.uid /\ Latest(r).del = o.del
      BY <1>2 DEF Versions
    <3>2. Latest(r) \in Versions /\ Len(hist[r]) + 1 \in Nat
      BY <1>1
    <3> DEFINE x == Latest(r)
               n == Len(hist[r]) + 1
    <3>3. x \in Versions /\ n \in Nat /\ o.spec \in Specs
          /\ o.fin \in BOOLEAN /\ o.id \in DrawnIds /\ g \in BOOLEAN
      BY <1>3, <2>1, <3>1, <3>2
    <3>4. v = [x EXCEPT !.spec = o.spec, !.fin = o.fin, !.id = o.id,
                        !.gone = g, !.rv = n]
      BY <2>2
    <3> HIDE DEF x, n
    <3>5. /\ v \in Versions /\ v.spec = o.spec /\ v.fin = o.fin /\ v.id = o.id
          /\ v.gone = g /\ v.rv = n /\ v.uid = x.uid /\ v.del = x.del
      BY <3>3, <3>4 DEF Versions
    <3>6. QED
      BY <3>1, <3>5 DEF x, n
  <2>4. QED
    BY <2>1, <2>3
<1>5. v = [v EXCEPT !.rv = Len(hist[r]) + 1]
  BY <1>4 DEF Versions
<1>6. /\ a \in Versions /\ ~a.gone
      /\ a.spec = v.spec /\ a.uid = o.uid /\ a.id = o.id
      /\ a.fin = o.fin /\ a.del = o.del /\ a.rv = v.rv
  BY <1>4 DEF Versions
<1> HIDE DEF v, a
<1>7. Admissible(hist[r], v)
  BY <1>1, <1>2, <1>3, <1>4, SameRD DEF Admissible
<1>8. QED
  BY <1>4, <1>5, <1>6, <1>7 DEF v, a

LEMMA InPlaceOK ==
    ASSUME RDInv, Grows, UNCHANGED seen, NEW r \in RDs, NEW n \in 1..Len(hist[r]),
           NEW o, InPlace(r, n, o), CopyOf(o, hist'[r]), o.uid = hist[r][n].uid
    PROVE  /\ cache' \in [RDs -> Versions \cup {None}]
           /\ \A s \in RDs : CacheStep(s)
<1>1. CASE seen[r] = n
  <2>1. cache' = [cache EXCEPT ![r] = o] /\ o \in Versions
    BY <1>1 DEF InPlace, CopyOf
  <2>2. /\ Len(hist[r]) \in Nat /\ Len(hist'[r]) \in Nat
        /\ n \in 1..Len(hist'[r]) /\ hist'[r][n] = hist[r][n]
    BY HistOf, LenProperties DEF Grows, Extends
  <2>3. CacheOK(o, n, hist'[r])
    BY <2>2 DEF CacheOK
  <2>4. CacheStep(r)
    BY <1>1, <2>1, <2>2, <2>3 DEF CacheStep, RDInv
  <2>5. QED
    BY <2>1, <2>4 DEF CacheStep, RDInv
<1>2. CASE seen[r] # n
  BY <1>2 DEF InPlace, CacheStep, RDInv
<1>3. QED
  BY <1>1, <1>2

LEMMA PutStep ==
    ASSUME RDInv, NEW p \in Procs, NEW r \in RDs, active[p] = r,
           NEW n \in 1..Len(hist[r]), NEW o, CopyOf(o, hist[r]), o.fin # o.del,
           o.uid = hist[r][n].uid,
           NEW ok \in BOOLEAN, Put(p, r, n, o, Finish(ok)),
           ids' \in 0..Len(FreshIds), UNCHANGED <<world, seen, workqueue>>
    PROVE  RDInv'
<1> DEFINE a == [Sent(r, o) EXCEPT !.gone = FALSE]
           j == [NoJob EXCEPT !.pc = "plan", !.rd = a]
<1>1. /\ Q!SFTypeOK' /\ Alone' /\ UNCHANGED active /\ budget' \in Budgets
      /\ lab' \in Labellings /\ host' \in Hosts /\ seen' \in [RDs -> Nat]
  <2>1. CanFault \/ UNCHANGED budget
    BY DEF Put
  <2>2. QED
    BY <2>1, QueueSame, BudgetOK, SameWorld DEF workqueue, RDInv
<1>2. ASSUME Grows, InPlace(r, n, o), job' = [job EXCEPT ![p] = Finish(ok)]
      PROVE  RDInv'
  <2>1. CopyOf(o, hist'[r])
    BY <1>2, HistOf, CopyStays DEF Grows
  <2>2. /\ cache' \in [RDs -> Versions \cup {None}]
        /\ \A s \in RDs : CacheStep(s)
    BY <1>2, <2>1, InPlaceOK
  <2> DEFINE f == Finish(ok)
  <2>3. f.pc = "done" /\ JobOK(f, hist'[r])
    BY FinishOK
  <2> HIDE DEF f
  <2>4. /\ job' = [q \in Procs |-> job'[q]]
        /\ job'[p] = f /\ \A q \in Procs \ {p} : job'[q] = job[q]
    BY <1>2, JobSet DEF f
  <2>5. \A q \in Procs : JobStep(q)
    BY <1>1, <2>3, <2>4, Idle DEF JobStep
  <2>6. QED
    BY <1>1, <1>2, <2>2, <2>4, <2>5, StepOK
<1>3. CASE /\ Accepted(r, o) /\ Store(r, Sent(r, o)) /\ InPlace(r, n, a)
           /\ job' = [job EXCEPT ![p] = j]
  <2>1. /\ Admissible(hist[r], Sent(r, o))
        /\ Sent(r, o).rv = Len(hist[r]) + 1 /\ Sent(r, o).uid = o.uid
        /\ Sent(r, o).id = o.id /\ Sent(r, o).fin = o.fin
        /\ Sent(r, o).del = o.del
        /\ Sent(r, o) = [Sent(r, o) EXCEPT !.rv = Len(hist[r]) + 1]
        /\ a \in Versions /\ ~a.gone
        /\ a.spec = Sent(r, o).spec /\ a.uid = o.uid /\ a.id = o.id
        /\ a.fin = o.fin /\ a.del = o.del /\ a.rv = Sent(r, o).rv
    BY <1>3, SentOK
  <2>2. /\ Grows /\ Len(hist'[r]) = Len(hist[r]) + 1
        /\ hist'[r][Len(hist[r]) + 1] = Sent(r, o)
    BY <1>3, <2>1, Stores
  <2>3. /\ o \in Versions
        /\ o.fin \/ o.del => o.id \in DrawnIds
    BY DEF CopyOf
  <2>4. o.fin \/ o.del
    <3>1. o.fin \in BOOLEAN /\ o.del \in BOOLEAN
      BY <2>3 DEF Versions
    <3>2. QED
      BY <3>1
  <2>5. Len(hist[r]) \in Nat
    BY HistOf
  <2> HIDE DEF a
  <2>6. CopyOf(a, hist'[r])
    BY <2>1, <2>2, <2>3, <2>4, <2>5 DEF CopyOf
  <2>7. /\ cache' \in [RDs -> Versions \cup {None}]
        /\ \A s \in RDs : CacheStep(s)
    BY <1>3, <2>1, <2>2, <2>6, InPlaceOK
  <2>8. j.pc = "plan" /\ j.rd = a /\ IsJob(j)
    BY DEF NoJob, IsJob, Pcs
  <2> HIDE DEF j
  <2>9. JobOK(j, hist'[r])
    BY <2>1, <2>4, <2>6, <2>8 DEF JobOK
  <2>10. job' = [q \in Procs |-> job'[q]] /\ \A q \in Procs : JobStep(q)
    <3>1. /\ job' = [q \in Procs |-> job'[q]]
          /\ job'[p] = j /\ \A q \in Procs \ {p} : job'[q] = job[q]
      BY <1>3, JobSet
    <3>2. \A q \in Procs : JobStep(q)
      BY <1>1, <2>8, <2>9, <3>1, Idle DEF JobStep
    <3>3. QED
      BY <3>1, <3>2
  <2>11. QED
    BY <1>1, <2>2, <2>7, <2>10, StepOK
<1>4. CASE /\ InPlace(r, n, o) /\ job' = [job EXCEPT ![p] = Finish(ok)]
           /\ UNCHANGED hist
  BY <1>2, <1>4, GrowsNot
<1>5. CASE /\ Accepted(r, o) /\ Store(r, Sent(r, o)) /\ InPlace(r, n, o)
           /\ job' = [job EXCEPT ![p] = Finish(ok)]
  <2>1. Grows
    BY <1>5, SentOK, Stores
  <2>2. QED
    BY <1>2, <1>5, <2>1
<1>6. QED
  BY <1>3, <1>4, <1>5 DEF Put

-----------------------------------------------------------------------------
(* The steps of a worker *)

(* The object that a worker finds in the cache. *)
LEMMA CachedOK ==
    ASSUME RDInv, NEW r \in RDs, cache[r] # None
    PROVE  /\ seen[r] \in 1..Len(hist[r])
           /\ CopyOf(cache[r], hist[r]) /\ cache[r] \in Versions
           /\ cache[r].uid = hist[r][seen[r]].uid
BY DEF RDInv, CacheOK, CopyOf

(* What worker p sends, an object delivered as version n, which is the     *)
(* last one or what it is about to release, and the id a current one has.  *)
Sends(p, n, o) ==
    /\ active[p] \in RDs /\ n \in 1..Len(hist[active[p]])
    /\ CopyOf(o, hist[active[p]]) /\ o.fin # o.del
    /\ o.uid = hist[active[p]][n].uid
    /\ n = seen[active[p]] \/ (job[p].pc = "delete" /\ o.uid = job[p].rd.uid)
    /\ \E ok \in BOOLEAN : Put(p, active[p], n, o, Finish(ok))
    /\ ids' \in 0..Len(FreshIds) /\ UNCHANGED <<world, server, seen, workqueue>>
    /\ Accepted(active[p], o) =>
          Latest(active[p]).id \in {<<>>, o.id}

LEMMA MarkSends ==
    ASSUME RDInv, NEW p \in Procs, SyncMark(p) PROVE \E n, o : Sends(p, n, o)
<1> DEFINE r == active[p]
           i == FreshIds[ids + 1]
           o == [cache[r] EXCEPT !.fin = TRUE, !.id = i]
<1>1. /\ job[p].pc = "start" /\ cache[r] # None
      /\ ~cache[r].del /\ ~cache[r].fin
      /\ ids < Len(FreshIds) /\ ids' = ids + 1
      /\ Put(p, r, seen[r], o, Finish(TRUE))
      /\ UNCHANGED <<world, server, seen, workqueue>>
  BY DEF SyncMark, Cached, Unmarked
<1>2. r \in RDs
  BY <1>1, ActiveOK
<1>3. ids \in Nat /\ Len(FreshIds) \in Nat
  BY DistributionConstants DEF DistributionConstants, RDInv
<1>4. i \in DrawnIds /\ ids' \in 0..Len(FreshIds)
  BY <1>1, <1>3 DEF DrawnIds
<1>5. /\ seen[r] \in 1..Len(hist[r]) /\ CopyOf(cache[r], hist[r])
      /\ cache[r] \in Versions /\ cache[r].uid = hist[r][seen[r]].uid
  BY <1>1, <1>2, CachedOK
<1> HIDE DEF r, i
<1>6. /\ o \in Versions /\ o.fin /\ o.id = i /\ o.del = cache[r].del
      /\ o.rv = cache[r].rv /\ o.spec = cache[r].spec /\ o.uid = cache[r].uid
      /\ o.gone = cache[r].gone
  BY <1>4, <1>5 DEF Versions
<1> HIDE DEF o
<1>7. o.fin # o.del
  BY <1>1, <1>6
<1>8. CopyOf(o, hist[r])
  BY <1>4, <1>5, <1>6, <1>7 DEF CopyOf
<1>9. o.uid = hist[r][seen[r]].uid /\ active[p] = r
  BY <1>5, <1>6 DEF r
<1>10. ASSUME Accepted(r, o) PROVE Latest(r).id = <<>>
  <2>1. /\ Latest(r) = hist[r][o.rv] /\ VersionOK(hist[r], o.rv)
    BY <1>2, <1>10, LatestOK DEF Accepted
  <2>2. ~Latest(r).fin /\ ~Latest(r).del
    BY <1>1, <1>5, <1>6, <2>1 DEF CopyOf, Versions
  <2>3. QED
    BY <2>1, <2>2 DEF VersionOK
<1>11. QED
  BY <1>1, <1>2, <1>4, <1>5, <1>7, <1>8, <1>9, <1>10 DEF Sends

LEMMA ReleaseSends ==
    ASSUME RDInv, NEW p \in Procs, Release(p) PROVE \E n, o : Sends(p, n, o)
<1> DEFINE r == active[p]
           d == job[p].rd
           o == [job[p].rd EXCEPT !.fin = FALSE]
           n == job[p].at
<1>1. /\ job[p].pc = "delete" /\ Put(p, r, n, o, Finish(FALSE))
      /\ UNCHANGED <<world, server, seen, workqueue, ids>>
  BY DEF Release
<1>2. r \in RDs /\ JobOK(job[p], hist[r])
  BY <1>1, ActiveOK
<1>3. /\ CopyOf(d, hist[r]) /\ d.fin /\ d.del /\ d \in Versions
      /\ n \in 1..Len(hist[r]) /\ d.uid = hist[r][n].uid
  BY <1>1, <1>2 DEF JobOK, CopyOf
<1>4. o = [d EXCEPT !.fin = FALSE]
  OBVIOUS
<1> HIDE DEF r, d, o, n
<1>5. /\ o \in Versions /\ ~o.fin /\ o.id = d.id /\ o.del = d.del
      /\ o.rv = d.rv /\ o.spec = d.spec /\ o.uid = d.uid /\ o.gone = d.gone
  BY <1>3, <1>4 DEF Versions
<1>6. o.fin # o.del
  BY <1>3, <1>5
<1>7. CopyOf(o, hist[r])
  BY <1>3, <1>5, <1>6 DEF CopyOf
<1>8. ids' \in 0..Len(FreshIds)
  BY <1>1 DEF RDInv
<1>9. o.uid = hist[r][n].uid /\ active[p] = r /\ o.uid = job[p].rd.uid
  BY <1>3, <1>5 DEF r, d
<1>10. ASSUME Accepted(r, o) PROVE Latest(r).id = o.id
  <2>1. Latest(r) = hist[r][o.rv]
    BY <1>2, <1>10, LatestOK DEF Accepted
  <2>2. QED
    BY <1>3, <1>5, <2>1 DEF CopyOf
<1>11. QED
  BY <1>1, <1>2, <1>3, <1>6, <1>7, <1>8, <1>9, <1>10 DEF Sends

LEMMA SendStep ==
    ASSUME RDInv, NEW p \in Procs, SyncMark(p) \/ Release(p) PROVE RDInv'
<1>1. PICK n, o : Sends(p, n, o)
  BY MarkSends, ReleaseSends
<1>2. QED
  BY <1>1, PutStep DEF Sends

(* A worker goes on with a job that says nothing about RDs. *)
LEMMA PlainStep ==
    ASSUME RDInv, NEW p \in Procs, NEW j, job' = [job EXCEPT ![p] = j],
           UNCHANGED <<hist, world, informer, workqueue, ids>>,
           job[p].pc # "idle", IsJob(j), j.pc \in {"start", "apply", "done"},
           CanFault \/ UNCHANGED budget
    PROVE  RDInv'
<1>1. Q!SFTypeOK' /\ Alone' /\ UNCHANGED active /\ budget' \in Budgets
  BY QueueSame, BudgetOK DEF workqueue
<1>2. active[p] # None /\ JobOK(j, hist[active[p]]) /\ j.pc # "idle"
  BY PlainJobOK, ActiveOK
<1>3. QED
  BY <1>1, <1>2, WorkerStep

LEMMA FinishIsJob ==
    ASSUME NEW ok \in BOOLEAN
    PROVE  IsJob(Finish(ok)) /\ Finish(ok).pc \in {"start", "apply", "done"}
BY FinishOK DEF JobOK

LEMMA ApplyIsJob ==
    ASSUME NEW t
    PROVE  LET j == [NoJob EXCEPT !.pc = "apply", !.todo = t]
           IN  IsJob(j) /\ j.pc = "apply" /\ j.todo = t
BY DEF NoJob, IsJob, Pcs

LEMMA GoOnOK ==
    ASSUME NEW p \in Procs, NEW ok \in BOOLEAN
    PROVE  IsJob(GoOn(p, ok)) /\ GoOn(p, ok).pc \in {"start", "apply", "done"}
BY FinishIsJob, ApplyIsJob DEF GoOn

LEMMA ApplyStep ==
    ASSUME RDInv, NEW p \in Procs,
           Plan(p) \/ ApplyCreate(p) \/ ApplyUpdate(p) \/ SyncNotFound(p)
    PROVE  RDInv'
<1>1. /\ job[p].pc # "idle"
      /\ CanFault \/ UNCHANGED budget
      /\ UNCHANGED <<hist, world, informer, workqueue, ids>>
  BY DEF Plan, ApplyCreate, ApplyUpdate, SyncNotFound
<1>2. PICK j : /\ job' = [job EXCEPT ![p] = j]
               /\ IsJob(j) /\ j.pc \in {"start", "apply", "done"}
  <2>1. CASE SyncNotFound(p)
    BY <2>1, FinishIsJob DEF SyncNotFound
  <2>2. CASE Plan(p)
    <3> DEFINE t == IF Feasible(active[p], job[p].rd)
                    THEN PlanOf(active[p], job[p].rd) ELSE <<>>
               a == [NoJob EXCEPT !.pc = "apply", !.todo = t]
    <3>1. \/ job' = [job EXCEPT ![p] = IF t = <<>> THEN Finish(TRUE) ELSE a]
          \/ job' = [job EXCEPT ![p] = Finish(TRUE)]
      BY <2>2 DEF Plan
    <3>2. IsJob(a) /\ a.pc = "apply"
      BY ApplyIsJob
    <3> HIDE DEF t, a
    <3>3. QED
      BY <3>1, <3>2, FinishIsJob
  <2>3. CASE ApplyCreate(p)
    BY <2>3, GoOnOK DEF ApplyCreate
  <2>4. CASE ApplyUpdate(p)
    BY <2>4, GoOnOK, FinishIsJob DEF ApplyUpdate
  <2>5. QED
    BY <2>1, <2>2, <2>3, <2>4
<1>3. QED
  BY <1>1, <1>2, PlainStep

LEMMA SyncReadsStep ==
    ASSUME RDInv, NEW p \in Procs, SyncDelete(p) \/ SyncApply(p) PROVE RDInv'
<1> DEFINE r == active[p]
           o == cache[r]
           d == [NoJob EXCEPT !.pc = "delete", !.rd = o, !.at = seen[r],
                              !.kill = {Key(w) : w \in Listed(r)}]
           a == [NoJob EXCEPT !.pc = "plan", !.rd = o]
<1>1. /\ job[p].pc = "start" /\ o # None
      /\ \/ Terminating(o) /\ job' = [job EXCEPT ![p] = d]
         \/ ~Unmarked(o) /\ ~Terminating(o) /\ job' = [job EXCEPT ![p] = a]
      /\ UNCHANGED <<hist, world, server, informer, workqueue, ids, budget>>
  BY DEF SyncDelete, SyncApply, Cached
<1>2. r \in RDs /\ r # None
  BY <1>1, ActiveOK, Idle
<1>3. /\ seen[r] \in 1..Len(hist[r]) /\ CopyOf(o, hist[r]) /\ o \in Versions
      /\ o.uid = hist[r][seen[r]].uid
  BY <1>1, <1>2, CachedOK
<1>4. Q!SFTypeOK' /\ Alone' /\ UNCHANGED active /\ budget' \in Budgets
  BY <1>1, QueueSame, BudgetOK DEF workqueue
<1>5. CASE Terminating(o) /\ job' = [job EXCEPT ![p] = d]
  <2>1. d.pc = "delete" /\ d.rd = o /\ d.at = seen[r] /\ IsJob(d)
    BY DEF NoJob, IsJob, Pcs
  <2> HIDE DEF d
  <2>2. JobOK(d, hist[r])
    BY <1>3, <1>5, <2>1 DEF JobOK, Terminating
  <2>3. QED
    BY <1>1, <1>2, <1>4, <1>5, <2>1, <2>2, WorkerStep
<1>6. CASE ~Unmarked(o) /\ job' = [job EXCEPT ![p] = a]
  <2>1. a.pc = "plan" /\ a.rd = o /\ IsJob(a)
    BY DEF NoJob, IsJob, Pcs
  <2> HIDE DEF a
  <2>2. JobOK(a, hist[r])
    BY <1>3, <1>6, <2>1 DEF JobOK, Unmarked
  <2>3. QED
    BY <1>1, <1>2, <1>4, <1>6, <2>1, <2>2, WorkerStep
<1>7. QED
  BY <1>1, <1>5, <1>6

LEMMA DeleteWorkStep ==
    ASSUME RDInv, NEW p \in Procs, NEW k, DeleteWork(p, k) PROVE RDInv'
<1> DEFINE j == [job[p] EXCEPT !.kill = @ \ {k}]
<1>1. /\ job[p].pc = "delete" /\ k \in job[p].kill
      /\ CanFault \/ UNCHANGED budget
      /\ \/ job' = [job EXCEPT ![p] = Finish(FALSE)]
         \/ job' = [job EXCEPT ![p].kill = @ \ {k}]
      /\ UNCHANGED <<hist, world, informer, workqueue, ids>>
  BY DEF DeleteWork
<1>2. active[p] \in RDs /\ active[p] # None /\ JobOK(job[p], hist[active[p]])
  BY <1>1, ActiveOK, Idle
<1>3. CASE job' = [job EXCEPT ![p] = Finish(FALSE)]
  BY <1>1, <1>3, FinishIsJob, PlainStep
<1>4. CASE job' = [job EXCEPT ![p].kill = @ \ {k}]
  <2>1. job' = [job EXCEPT ![p] = j]
    BY <1>4
  <2>2. /\ j.pc = "delete" /\ j.rd = job[p].rd /\ j.at = job[p].at /\ IsJob(j)
    BY <1>1, <1>2 DEF JobOK, IsJob
  <2> HIDE DEF j
  <2>3. JobOK(j, hist[active[p]])
    BY <1>1, <1>2, <2>2 DEF JobOK
  <2>4. Q!SFTypeOK' /\ Alone' /\ UNCHANGED active /\ budget' \in Budgets
    BY <1>1, QueueSame, BudgetOK DEF workqueue
  <2>5. QED
    BY <1>1, <1>2, <2>1, <2>2, <2>3, <2>4, WorkerStep
<1>5. QED
  BY <1>1, <1>3, <1>4

LEMMA EndStep ==
    ASSUME RDInv, NEW p \in Procs,
           Fail(p) \/ Done(p) \/ \E r \in RDs : Begin(p, r)
    PROVE  RDInv'
<1>1. CASE Fail(p)
  <2> DEFINE j == [job[p] EXCEPT !.ok = TRUE]
  <2>1. /\ job[p].pc = "done" /\ Q!Defer(p) /\ job' = [job EXCEPT ![p] = j]
        /\ UNCHANGED <<hist, world, informer, ids, budget>>
    BY <1>1 DEF Fail
  <2>2. JobOK(job[p], hist[active[p]]) /\ active[p] # None
    BY <2>1, ActiveOK, Idle
  <2>3. j.pc = "done" /\ IsJob(j)
    BY <2>1, <2>2 DEF JobOK, IsJob
  <2> HIDE DEF j
  <2>4. JobOK(j, hist[active[p]]) /\ j.pc # "idle"
    BY <2>3, PlainJobOK
  <2>5. Q!SFTypeOK' /\ Alone' /\ UNCHANGED active /\ budget' \in Budgets
    BY <2>1, Deferred, BudgetOK
  <2>6. QED
    BY <2>1, <2>2, <2>4, <2>5, WorkerStep
<1>2. ASSUME NEW j, NEW a, job' = [job EXCEPT ![p] = j],
             UNCHANGED <<hist, world, informer, ids, budget>>,
             Q!SFTypeOK', Alone', active'[p] = a,
             \A q \in Procs \ {p} : active'[q] = active[q],
             j.pc = "idle" <=> a = None, JobOK(j, hist[a])
      PROVE  RDInv'
  <2>1. Grows
    BY <1>2, GrowsNot
  <2>2. /\ job' = [q \in Procs |-> job'[q]]
        /\ job'[p] = j /\ \A q \in Procs \ {p} : job'[q] = job[q]
    BY <1>2, JobSet
  <2>3. \A q \in Procs : JobStep(q)
    BY <1>2, <2>2 DEF JobStep
  <2>4. ids' \in 0..Len(FreshIds) /\ budget' \in Budgets
    BY <1>2 DEF RDInv
  <2>5. QED
    BY <1>2, <2>1, <2>2, <2>3, <2>4, SameCache, SameWorld, StepOK
<1>3. CASE Done(p)
  <2>1. Q!SFTypeOK' /\ Alone' /\ active'[p] = None
        /\ \A q \in Procs \ {p} : active'[q] = active[q]
    BY <1>3, Ends DEF Done
  <2>2. JobOK(NoJob, hist[None]) /\ NoJob.pc = "idle"
    BY IdleOK
  <2>3. job' = [job EXCEPT ![p] = NoJob]
        /\ UNCHANGED <<hist, world, informer, ids, budget>>
    BY <1>3 DEF Done
  <2>4. QED
    BY <1>2, <2>1, <2>2, <2>3
<1>4. ASSUME NEW r \in RDs, Begin(p, r) PROVE RDInv'
  <2> DEFINE j == [NoJob EXCEPT !.pc = "start"]
  <2>1. /\ Q!SFTypeOK' /\ Alone' /\ active'[p] = r
        /\ \A q \in Procs \ {p} : active'[q] = active[q]
    BY <1>4, Begins DEF Begin
  <2>2. job' = [job EXCEPT ![p] = j]
        /\ UNCHANGED <<hist, world, informer, ids, budget>>
    BY <1>4 DEF Begin
  <2>3. IsJob(j) /\ j.pc = "start"
    BY DEF NoJob, IsJob, Pcs
  <2> HIDE DEF j
  <2>4. JobOK(j, hist[r])
    BY <2>3, PlainJobOK
  <2>5. QED
    BY <1>2, <2>1, <2>2, <2>3, <2>4, Idle
<1>5. QED
  BY <1>1, <1>3, <1>4

LEMMA CrashStep == ASSUME RDInv, Crash PROVE RDInv'
<1>1. Grows /\ budget' \in Budgets
  BY GrowsNot, BudgetOK DEF Crash
<1>2. ASSUME NEW r \in RDs
      PROVE  /\ seen'[r] \in Nat /\ cache'[r] \in Versions \cup {None}
             /\ CacheStep(r)
  <2>1. /\ seen'[r] = Len(hist[r])
        /\ cache'[r] = IF Exists(r) THEN Latest(r) ELSE None
        /\ hist' = hist /\ Len(hist[r]) \in Nat
    BY HistOf DEF Crash
  <2>2. CASE ~Exists(r)
    BY <2>1, <2>2 DEF CacheStep, CacheOK
  <2>3. CASE Exists(r)
    <3>1. /\ Len(hist[r]) \in 1..Len(hist[r])
          /\ Latest(r) = hist[r][Len(hist[r])]
          /\ Latest(r) \in Versions /\ ~Latest(r).gone
          /\ VersionOK(hist[r], Len(hist[r]))
      BY <2>3, LatestOK
    <3>2. CopyOf(Latest(r), hist[r])
      BY <3>1 DEF CopyOf, VersionOK
    <3>3. CacheOK(Latest(r), Len(hist[r]), hist[r])
      BY <3>1, <3>2 DEF CacheOK
    <3>4. QED
      BY <2>1, <2>3, <3>1, <3>3 DEF CacheStep
  <2>4. QED
    BY <2>2, <2>3
<1>3. seen' \in [RDs -> Nat] /\ cache' \in [RDs -> Versions \cup {None}]
  BY <1>2 DEF Crash
<1>4. Q!SFTypeOK' /\ Alone'
  BY DEF Crash, Q!SFTypeOK, Alone
<1>5. job' = [p \in Procs |-> job'[p]] /\ \A p \in Procs : JobStep(p)
  BY IdleOK DEF Crash, JobStep
<1>6. ids' \in 0..Len(FreshIds) /\ lab' \in Labellings /\ host' \in Hosts
  BY DEF Crash, RDInv, world
<1>7. QED
  BY <1>1, <1>2, <1>3, <1>4, <1>5, <1>6, StepOK

LEMMA InitRD == Init => RDInv
<1>1. SUFFICES ASSUME Init PROVE RDInv
  OBVIOUS
<1>2. ASSUME NEW r \in RDs
      PROVE  HistOK(hist[r]) /\ CacheOK(cache[r], seen[r], hist[r])
             /\ seen[r] = 0 /\ Len(hist[r]) = 0
  BY <1>1 DEF Init, HistOK, CacheOK
<1>3. Q!SFTypeOK /\ Alone
  BY <1>1 DEF Init, Q!SFInit, Q!SFTypeOK, Alone
<1>4. /\ job = [p \in Procs |-> job[p]]
      /\ \A p \in Procs : /\ job[p].pc = "idle" <=> active[p] = None
                          /\ JobOK(job[p], hist[active[p]])
  BY <1>1, IdleOK DEF Init, Q!SFInit
<1>5. hist \in [RDs -> Seq(Versions)] /\ seen \in [RDs -> Nat]
      /\ cache \in [RDs -> Versions \cup {None}]
  BY <1>1 DEF Init
<1>6. /\ lab \in Labellings /\ host \in Hosts /\ budget \in Budgets
      /\ ids \in 0..Len(FreshIds)
  BY <1>1, DistributionConstants DEF DistributionConstants, Init, Budgets
<1>7. QED
  BY <1>2, <1>3, <1>4, <1>5, <1>6 DEF RDInv

LEMMA NextRD == ASSUME RDInv, [Next]_vars PROVE RDInv'
<1>1. CASE UNCHANGED vars
  <2>1. UNCHANGED <<hist, informer, workqueue, job, ids, world, budget>>
    BY <1>1 DEF vars
  <2>2. lab' \in Labellings /\ host' \in Hosts /\ budget' \in Budgets
    BY <2>1, SameWorld, BudgetOK
  <2>3. QED
    BY <2>1, <2>2, OtherStep
<1>2. ASSUME NEW r \in RDs, User(r) \/ Deliver(r) \/ Resync(r) \/ Fire(r)
      PROVE  RDInv'
  BY <1>2, UserStep, DeliverStep, RequestStep
<1>3. ASSUME NEW p \in Procs, Worker(p) PROVE RDInv'
  <2>1. CASE Sync(p)
    BY <2>1, ApplyStep, SendStep, SyncReadsStep, DeleteWorkStep DEF Sync
  <2>2. CASE Apply(p) \/ Fail(p) \/ Done(p)
    BY <2>2, ApplyStep, EndStep DEF Apply
  <2>3. QED
    BY <1>3, <2>1, <2>2 DEF Worker
<1>4. ASSUME NEW p \in Procs, NEW r \in RDs, Begin(p, r) PROVE RDInv'
  BY <1>4, EndStep
<1>5. QED
  BY <1>1, <1>2, <1>3, <1>4, WorldStep, CrashStep DEF Next

-----------------------------------------------------------------------------
(* The Workloads at the API server and in the cache *)

LEMMA StoreSame ==
    ASSUME StoreOK, UNCHANGED server PROVE StoreOK'
BY DEF StoreOK, server, Unique

(* At most one Workload, of key k. *)
OneOf(ws, k) ==
    /\ \A w \in ws : IsWork(w) /\ Key(w) = k
    /\ \A v, w \in ws : v = w

LEMMA Writes ==
    ASSUME StoreOK, NEW k, NEW ws, OneOf(ws, k), Write(k, ws), UNCHANGED wcache
    PROVE  StoreOK'
<1>1. works' = (works \ At(works, k)) \cup ws
      /\ stale' = IF works' = works THEN stale ELSE stale \cup {k}
  BY DEF Write
<1>2. \A w \in works' : w \in ws \/ (w \in works /\ Key(w) # k)
  BY <1>1 DEF At
<1>3. \A w \in works' \cup wcache : IsWork(w)
  BY <1>2 DEF StoreOK, OneOf
<1>4. Unique(works')
  BY <1>2 DEF StoreOK, Unique, OneOf
<1>5. \A w \in works' \cup wcache : Key(w) \in stale' \/ w \in works' \cap wcache
  <2>1. CASE works' = works
    BY <1>1, <2>1 DEF StoreOK
  <2>2. CASE works' # works
    <3>1. ASSUME NEW w \in works' \cup wcache, Key(w) # k
          PROVE  Key(w) \in stale' \/ w \in works' \cap wcache
      <4>1. w \in works \cup wcache
        BY <1>2, <3>1 DEF OneOf
      <4>2. Key(w) \in stale \/ w \in works \cap wcache
        BY <4>1 DEF StoreOK
      <4>3. w \in works => w \in works'
        BY <1>1, <3>1 DEF At
      <4>4. QED
        BY <1>1, <2>2, <4>2, <4>3
    <3>2. QED
      BY <1>1, <2>2, <3>1
  <2>3. QED
    BY <2>1, <2>2
<1>6. QED
  BY <1>3, <1>4, <1>5 DEF StoreOK, Unique

LEMMA NoneOf == ASSUME NEW k PROVE OneOf({}, k)
BY DEF OneOf

LEMMA OneOK ==
    ASSUME NEW w, IsWork(w) PROVE OneOf({w}, Key(w))
BY DEF OneOf

LEMMA ChangedWork ==
    ASSUME NEW w, IsWork(w), NEW f \in BOOLEAN
    PROVE  /\ IsWork([w EXCEPT !.fin = f]) /\ Key([w EXCEPT !.fin = f]) = Key(w)
           /\ IsWork([w EXCEPT !.del = f]) /\ Key([w EXCEPT !.del = f]) = Key(w)
BY DEF IsWork, Key

LEMMA UpdatedWork ==
    ASSUME NEW obj, IsWork(obj), NEW w
    PROVE  /\ IsWork(Updated(obj, w)) /\ Key(Updated(obj, w)) = Key(obj)
           /\ Updated(obj, w).clusters = w.clusters
           /\ Updated(obj, w).manifests = w.manifests
           /\ Updated(obj, w).owner = obj.owner
           /\ Updated(obj, w).policy = obj.policy
           /\ Updated(obj, w).name = obj.name
<1> DEFINE c == w.clusters
           m == w.manifests
           u == Updated(obj, w)
<1>1. u = [obj EXCEPT !.clusters = c, !.manifests = m]
  BY DEF Updated
<1> HIDE DEF c, m, u
<1>2. /\ IsWork(u) /\ u.clusters = c /\ u.manifests = m /\ u.ns = obj.ns
      /\ u.name = obj.name /\ u.owner = obj.owner /\ u.policy = obj.policy
  BY <1>1 DEF IsWork
<1>3. QED
  BY <1>2 DEF Key, c, m, u

LEMMA DoomedOK ==
    ASSUME NEW w, IsWork(w) PROVE OneOf(Doomed(w), Key(w))
<1>1. CASE w.fin
  BY <1>1, ChangedWork, OneOK DEF Doomed
<1>2. CASE ~w.fin
  BY <1>2, NoneOf DEF Doomed
<1>3. QED
  BY <1>1, <1>2

(* The Workloads of key k, those deleted. *)
LEMMA AtOne ==
    ASSUME StoreOK, NEW k
    PROVE  /\ OneOf(At(works, k), k) /\ OneOf(At(wcache, k), k)
           /\ OneOf(UNION {Doomed(w) : w \in At(works, k)}, k)
<1>1. OneOf(At(works, k), k) /\ OneOf(At(wcache, k), k)
  BY DEF StoreOK, OneOf, At, Unique
<1>2. \A w \in At(works, k) : OneOf(Doomed(w), k)
  BY <1>1, DoomedOK DEF OneOf
<1>3. OneOf(UNION {Doomed(w) : w \in At(works, k)}, k)
  BY <1>1, <1>2 DEF OneOf
<1>4. QED
  BY <1>1, <1>3

LEMMA StoredOK == ASSUME NEW w PROVE IsWork(Stored(w)) /\ Key(Stored(w)) = Key(w)
BY DEF IsWork, Stored, Key

LEMMA WorldStore ==
    ASSUME StoreOK,
           \/ \E w \in works : WorkFinalizer(w) \/ Collect(w)
           \/ \E k \in stale : DeliverWork(k)
    PROVE  StoreOK'
<1>1. ASSUME NEW w \in works, WorkFinalizer(w) PROVE StoreOK'
  <2> DEFINE f == [w EXCEPT !.fin = TRUE]
  <2>1. PICK ws : /\ Write(Key(w), ws) /\ UNCHANGED wcache
                  /\ ws = {} \/ ws = {f}
    BY <1>1 DEF WorkFinalizer
  <2>2. IsWork(f) /\ Key(f) = Key(w)
    BY ChangedWork DEF StoreOK
  <2> HIDE DEF f
  <2>3. OneOf(ws, Key(w))
    BY <2>1, <2>2, NoneOf, OneOK
  <2>4. QED
    BY <2>1, <2>3, Writes
<1>2. ASSUME NEW w \in works, Collect(w) PROVE StoreOK'
  <2>1. OneOf(Doomed(w), Key(w))
    BY DoomedOK DEF StoreOK
  <2>2. QED
    BY <1>2, <2>1, Writes DEF Collect
<1>3. ASSUME NEW k \in stale, DeliverWork(k) PROVE StoreOK'
  <2>1. /\ wcache' = (wcache \ At(wcache, k)) \cup At(works, k)
        /\ stale' = stale \ {k} /\ UNCHANGED works
    BY <1>3 DEF DeliverWork
  <2>2. OneOf(At(works, k), k)
    BY AtOne
  <2>3. \A w \in wcache' : w \in At(works, k) \/ (w \in wcache /\ Key(w) # k)
    BY <2>1 DEF At
  <2>4. \A w \in works' \cup wcache' : IsWork(w)
    BY <2>1, <2>3 DEF StoreOK, At
  <2>5. Unique(wcache') /\ Unique(works')
    BY <2>1, <2>2, <2>3 DEF StoreOK, OneOf, Unique
  <2>6. ASSUME NEW w \in works' \cup wcache'
        PROVE  Key(w) \in stale' \/ w \in works' \cap wcache'
    <3>1. CASE Key(w) = k
      <4>1. w \in works
        BY <2>1, <2>3, <3>1 DEF At
      <4>2. QED
        BY <2>1, <3>1, <4>1 DEF At
    <3>2. CASE Key(w) # k
      <4>1. w \in works \cup wcache
        BY <2>1, <2>3 DEF At
      <4>2. Key(w) \in stale \/ w \in works \cap wcache
        BY <4>1 DEF StoreOK
      <4>3. QED
        BY <2>1, <3>2, <4>2 DEF At
    <3>3. QED
      BY <3>1, <3>2
  <2>7. QED
    BY <2>4, <2>5, <2>6 DEF StoreOK, Unique
<1>4. QED
  BY <1>1, <1>2, <1>3

LEMMA DeleteStore ==
    ASSUME StoreOK, NEW p, NEW k, DeleteWork(p, k) PROVE StoreOK'
<1> DEFINE doomed == UNION {Doomed(w) : w \in At(works, k)}
<1>1. /\ UNCHANGED wcache
      /\ \/ Write(k, doomed) \/ Write(k, At(works, k))
         \/ UNCHANGED <<works, stale>>
  BY DEF DeleteWork
<1>2. OneOf(doomed, k) /\ OneOf(At(works, k), k)
  BY AtOne
<1> HIDE DEF doomed
<1>3. QED
  BY <1>1, <1>2, Writes, StoreSame DEF server

LEMMA ApplyStore ==
    ASSUME StoreOK, NEW p, ApplyCreate(p) \/ ApplyUpdate(p) PROVE StoreOK'
<1> DEFINE w == Head(job[p].todo)
<1>1. CASE ApplyCreate(p)
  <2>1. /\ UNCHANGED wcache
        /\ Write(Key(w), {Stored(w)}) \/ UNCHANGED <<works, stale>>
    BY <1>1 DEF ApplyCreate
  <2>2. OneOf({Stored(w)}, Key(w))
    BY StoredOK, OneOK
  <2>3. QED
    BY <2>1, <2>2, Writes, StoreSame DEF server
<1>2. CASE ApplyUpdate(p)
  <2>1. PICK obj \in At(wcache, Key(w)) :
           /\ UNCHANGED wcache
           /\ \/ Write(Key(w), {Updated(obj, w)})
              \/ UNCHANGED <<works, stale>>
    BY <1>2 DEF ApplyUpdate
  <2>2. OneOf({Updated(obj, w)}, Key(w))
    <3>1. IsWork(obj) /\ Key(obj) = Key(w)
      BY DEF StoreOK, At
    <3>2. IsWork(Updated(obj, w)) /\ Key(Updated(obj, w)) = Key(w)
      BY <3>1, UpdatedWork
    <3>3. QED
      BY <3>2, OneOK
  <2>3. QED
    BY <2>1, <2>2, Writes, StoreSame DEF server
<1>3. QED
  BY <1>1, <1>2

LEMMA NextStore == ASSUME StoreOK, [Next]_vars PROVE StoreOK'
<1>1. CASE UNCHANGED vars \/ Change
  BY <1>1, StoreSame DEF vars, Change
<1>2. ASSUME NEW r \in RDs, User(r) \/ Deliver(r) \/ Resync(r) \/ Fire(r)
      PROVE  StoreOK'
  <2>1. UNCHANGED server
    BY <1>2 DEF User, Create, Edit, Delete, Deliver, Resync, Fire
  <2>2. QED
    BY <2>1, StoreSame
<1>3. ASSUME NEW p \in Procs, Worker(p) PROVE StoreOK'
  <2>1. CASE \/ SyncNotFound(p) \/ SyncMark(p) \/ SyncDelete(p)
             \/ SyncApply(p) \/ Release(p) \/ Plan(p) \/ Fail(p) \/ Done(p)
    <3>1. UNCHANGED server
      BY <2>1 DEF SyncNotFound, SyncMark, SyncDelete, SyncApply, Release,
                  Plan, Fail, Done
    <3>2. QED
      BY <3>1, StoreSame
  <2>2. QED
    BY <1>3, <2>1, DeleteStore, ApplyStore DEF Worker, Sync, Apply
<1>4. ASSUME NEW p \in Procs, NEW r \in RDs, Begin(p, r) PROVE StoreOK'
  BY <1>4, StoreSame DEF Begin
<1>5. CASE Crash
  BY <1>5 DEF Crash, StoreOK, Unique
<1>6. QED
  BY <1>1, <1>2, <1>3, <1>4, <1>5, WorldStore DEF Next

LEMMA InitStore == Init => StoreOK
BY DEF Init, StoreOK, Unique

LEMMA InvInductive ==
    /\ Init => Inv
    /\ Inv /\ [Next]_vars => Inv'
BY InitRD, NextRD, InitStore, NextStore DEF Inv

LEMMA Invariance == Spec => []Inv
BY InvInductive, PTL DEF Spec

-----------------------------------------------------------------------------

(* Versions, cached objects, workers and the cache of the Workloads are    *)
(* what the code and the API say they are, whatever is lost or restarted.  *)
THEOREM TypeCorrect == Spec => []TypeOK
<1>1. Inv => TypeOK
  <2>1. SUFFICES ASSUME Inv PROVE TypeOK
    OBVIOUS
  <2>2. ASSUME NEW r \in RDs, NEW n \in 1..Len(hist[r])
        PROVE  /\ hist[r][n].spec \in Specs /\ hist[r][n].rv = n
               /\ hist[r][n].uid \in 1..n
    <3>1. hist[r][n] \in Versions /\ VersionOK(hist[r], n)
      BY <2>1, HistOf, ElementOfSeq DEF Inv, HistOK
    <3>2. QED
      BY <3>1 DEF Versions, VersionOK
  <2>3. ASSUME NEW r \in RDs, cache[r] # None
        PROVE  seen[r] > 0 /\ cache[r].spec \in Specs
    <3>1. seen[r] \in 1..Len(hist[r]) /\ cache[r] \in Versions
          /\ Len(hist[r]) \in Nat
      BY <2>1, <2>3, CachedOK, HistOf DEF Inv
    <3>2. QED
      BY <3>1 DEF Versions
  <2>4. QED
    BY <2>1, <2>2, <2>3 DEF Inv, RDInv, StoreOK, TypeOK, Unique
<1>2. QED
  BY <1>1, Invariance, PTL

(* An RD that is there is written by its users and workers only, who keep  *)
(* its id.                                                                 *)
LEMMA WritesKeepId ==
    ASSUME RDInv, [Next]_vars, NEW r \in RDs, Exists(r), Latest(r).id # <<>>
    PROVE  \/ hist'[r] = hist[r]
           \/ \E v : Store(r, v) /\ Admissible(hist[r], v) /\ v.id = Latest(r).id
<1>1. ASSUME NEW s \in RDs, s # r, NEW v, Store(s, v) PROVE hist'[r] = hist[r]
  BY <1>1 DEF Store, RDInv
<1>2. ASSUME NEW s \in RDs, User(s)
      PROVE  \/ hist'[r] = hist[r]
             \/ \E v : Store(r, v) /\ Admissible(hist[r], v) /\ v.id = Latest(r).id
  BY <1>1, <1>2, UserVersion
<1>3. ASSUME NEW p \in Procs, SyncMark(p) \/ Release(p)
      PROVE  \/ hist'[r] = hist[r]
             \/ \E v : Store(r, v) /\ Admissible(hist[r], v) /\ v.id = Latest(r).id
  <2>1. PICK n, o : Sends(p, n, o)
    BY <1>3, MarkSends, ReleaseSends
  <2>2. \/ UNCHANGED hist
        \/ Accepted(active[p], o) /\ Store(active[p], Sent(active[p], o))
    BY <2>1 DEF Sends, Put
  <2>3. CASE active[p] # r
    BY <1>1, <2>1, <2>2, <2>3 DEF Sends
  <2>4. CASE active[p] = r /\ Accepted(r, o) /\ Store(r, Sent(r, o))
    <3>1. Admissible(hist[r], Sent(r, o)) /\ Sent(r, o).id = o.id
      BY <2>1, <2>4, SentOK DEF Sends
    <3>2. QED
      BY <2>1, <2>4, <3>1 DEF Sends
  <2>5. QED
    BY <2>2, <2>3, <2>4
<1>4. ASSUME NEW p \in Procs, Worker(p), ~SyncMark(p), ~Release(p)
      PROVE  UNCHANGED hist
  BY <1>4 DEF Worker, Sync, Apply, SyncNotFound, SyncDelete, SyncApply,
              DeleteWork, Plan, ApplyCreate, ApplyUpdate, Fail, Done
<1>5. CASE \/ UNCHANGED vars \/ Change \/ Crash
           \/ \E s \in RDs : Deliver(s) \/ Resync(s) \/ Fire(s)
           \/ \E w \in works : WorkFinalizer(w) \/ Collect(w)
           \/ \E k \in stale : DeliverWork(k)
           \/ \E p \in Procs : \E s \in RDs : Begin(p, s)
  BY <1>5 DEF vars, Change, Crash, Deliver, Resync, Fire, WorkFinalizer,
              Collect, DeliverWork, Begin
<1>6. QED
  BY <1>2, <1>3, <1>4, <1>5 DEF Next

(* An RD keeps the id it has at the API server, whichever object a worker  *)
(* sends and whatever becomes of the request.                              *)
THEOREM IdsAreStable == Spec => IdStable
<1>1. ASSUME Inv, [Next]_vars, NEW r \in RDs, Exists(r), Latest(r).id # <<>>
      PROVE  Latest(r)'.id = Latest(r).id \/ Latest(r)'.uid # Latest(r).uid
  <2>1. RDInv
    BY <1>1 DEF Inv
  <2>2. ASSUME NEW v, Store(r, v), Admissible(hist[r], v), v.id = Latest(r).id
        PROVE  Latest(r)'.id = Latest(r).id
    <3>1. /\ Len(hist'[r]) = Len(hist[r]) + 1
          /\ hist'[r][Len(hist[r]) + 1] = [v EXCEPT !.rv = Len(hist[r]) + 1]
      BY <1>1, <2>1, <2>2, Stores
    <3>2. [v EXCEPT !.rv = Len(hist[r]) + 1].id = v.id
      BY <2>2 DEF Admissible, Versions
    <3>3. QED
      BY <2>2, <3>1, <3>2 DEF Latest
  <2>3. CASE hist'[r] = hist[r]
    BY <2>3 DEF Latest
  <2>4. \/ hist'[r] = hist[r]
        \/ \E v : Store(r, v) /\ Admissible(hist[r], v) /\ v.id = Latest(r).id
    BY <1>1, <2>1, WritesKeepId
  <2>5. QED
    BY <2>2, <2>3, <2>4
<1>2. ASSUME Inv, [Next]_vars
      PROVE  [KeepsIds]_vars
  BY <1>1, <1>2 DEF KeepsIds
<1>3. QED
  BY <1>2, Invariance, PTL DEF Spec, IdStable

-----------------------------------------------------------------------------
(* The invariant about the Workloads *)

(* Key k is one of those RD r can make. *)
MadeBy(k, r) == \E i \in DrawnIds \cup RuleIds : k = <<r.ns, r.name \o i>>

(* Workload w was made for its owner, of which a version was delivered.    *)
Made(w) ==
    /\ w.owner[1] \in RDs
    /\ w.policy = w.owner[1].name
    /\ MadeBy(Key(w), w.owner[1])
    /\ \E n \in 1..seen[w.owner[1]] : hist[w.owner[1]][n].uid = w.owner[2]

(* It says what one version of its owner, or of a later RD of the name,    *)
(* gives it.                                                               *)
FromPlan(w) ==
    \E n \in 1..Len(hist[w.owner[1]]) :
        /\ hist[w.owner[1]][n].uid >= w.owner[2]
        /\ Says(w, hist[w.owner[1]][n])

(* No Workload is of a later RD than the one of r with uid u.              *)
NoNewer(r, u) ==
    \A w \in works \cup wcache : w.owner[1] = r => w.owner[2] <= u

(* Workload w is still to be applied for r. *)
PlannedFor(w, r) ==
    /\ Made(w) /\ w.owner[1] = r
    /\ \E n \in 1..Len(hist[r]) :
          hist[r][n].uid = w.owner[2] /\ Says(w, hist[r][n])
    /\ NoNewer(r, w.owner[2])

Elements(s) == {s[i] : i \in 1..Len(s)}

(* A worker on r doing j. *)
WorkerOK(r, j) ==
    /\ j.pc \in {"delete", "plan"} =>
          /\ NoNewer(r, j.rd.uid)
          /\ \E n \in 1..seen[r] : hist[r][n].uid = j.rd.uid
    /\ j.pc = "delete" =>
          \A k \in j.kill : \E s \in RDs : s.name = r.name /\ MadeBy(k, s)
    /\ j.pc = "apply" =>
          /\ j.todo \in Seq(Elements(j.todo)) /\ j.todo # <<>>
          /\ \A w \in Elements(j.todo) : PlannedFor(w, r)
          /\ \A v, w \in Elements(j.todo) : v.owner = w.owner

WInv ==
    /\ Inv
    /\ \A w \in works \cup wcache : Made(w)
    /\ \A w \in works : FromPlan(w)
    /\ \A p \in Procs : WorkerOK(active[p], job[p])

-----------------------------------------------------------------------------
(* Plans *)

LEMMA SeqOfElements ==
    ASSUME NEW S, NEW s \in Seq(S) PROVE s \in Seq(Elements(s))
BY LenProperties DEF Elements

LEMMA TailElements ==
    ASSUME NEW S, NEW s \in Seq(S), s # <<>>
    PROVE  /\ Len(s) \in Nat \ {0}
           /\ Head(s) \in Elements(s)
           /\ Tail(s) \in Seq(Elements(Tail(s)))
           /\ Elements(Tail(s)) \subseteq Elements(s)
           /\ Len(Tail(s)) = Len(s) - 1
<1>1. /\ Len(s) \in Nat \ {0} /\ Head(s) = s[1]
      /\ Tail(s) \in Seq(S) /\ Len(Tail(s)) = Len(s) - 1
      /\ \A i \in 1..Len(Tail(s)) : Tail(s)[i] = s[i + 1]
  BY HeadTailProperties, EmptySeq, LenProperties
<1>2. Tail(s) \in Seq(Elements(Tail(s)))
  BY <1>1, SeqOfElements
<1>3. \A i \in 1..Len(Tail(s)) : i + 1 \in 1..Len(s)
  BY <1>1
<1>4. QED
  BY <1>1, <1>2, <1>3 DEF Elements

(* One Workload per rule, and perhaps the residue. *)
IsPlan(plan, rd, l, t) ==
    /\ plan \in Seq(Elements(plan))
    /\ Residue(rd, l) = {} => Len(plan) = Len(rd.rules)
    /\ Residue(rd, l) # {} => Len(plan) = Len(rd.rules) + 1
    /\ \A i \in 1..Len(rd.rules) : plan[i] = RuleWork(rd, l, t, i)
    /\ Residue(rd, l) # {} =>
          plan[Len(rd.rules) + 1] = ResidueWork(rd, l, t)

LEMMA PlanElements ==
    ASSUME NEW rd, Len(rd.rules) \in Nat, NEW l, NEW t
    PROVE  IsPlan(GenerateWorks(rd, l, t), rd, l, t)
<1> DEFINE n == Len(rd.rules)
           plan == GenerateWorks(rd, l, t)
           W(k) == RuleWork(rd, l, t, k)
           x == ResidueWork(rd, l, t)
           S == {W(k) : k \in 1..n} \cup {x}
           a == [k \in 1..n |-> W(k)]
           b == IF Residue(rd, l) = {} THEN <<>> ELSE <<x>>
<1>1. plan = a \o b
  BY DEF GenerateWorks
<1>2. a \in Seq(S) /\ Len(a) = n /\ \A i \in 1..n : a[i] = W(i)
  <2>1. a \in [1..n -> S]
    OBVIOUS
  <2>2. QED
    BY <2>1
<1>3. /\ b \in Seq(S)
      /\ Residue(rd, l) = {} => Len(b) = 0
      /\ Residue(rd, l) # {} => Len(b) = 1 /\ b[1] = x
  <2>1. x \in S
    OBVIOUS
  <2> HIDE DEF x, S
  <2>2. QED
    BY <2>1
<1> HIDE DEF a, b, S, W, x
<1>4. /\ a \o b \in Seq(S)
      /\ Len(a \o b) = Len(a) + Len(b)
      /\ \A i \in 1..Len(a) + Len(b) :
            (a \o b)[i] = IF i <= Len(a) THEN a[i] ELSE b[i - Len(a)]
  <2>1. a \in Seq(S) /\ b \in Seq(S)
    BY <1>2, <1>3
  <2>2. QED
    BY <2>1, ConcatProperties, Zenon
<1>5. plan \in Seq(Elements(plan))
  BY <1>1, <1>4, SeqOfElements
<1>6. n \in Nat
  OBVIOUS
<1> HIDE DEF plan, n
<1>7. /\ Residue(rd, l) = {} => Len(plan) = n
      /\ Residue(rd, l) # {} => Len(plan) = n + 1
  BY <1>1, <1>2, <1>3, <1>4, <1>6
<1>8. \A i \in 1..n : plan[i] = W(i)
  BY <1>1, <1>2, <1>3, <1>4, <1>6
<1>9. Residue(rd, l) # {} => plan[n + 1] = x
  BY <1>1, <1>2, <1>3, <1>4, <1>6
<1>10. QED
  BY <1>5, <1>7, <1>8, <1>9 DEF W, x, plan, n, IsPlan


(* RDs that differ in their ids have the same Workloads, but for the name  *)
(* of the residue.                                                         *)
SamePlans(rd, od, l, t) ==
    /\ \A k : RuleWork(rd, l, t, k) = RuleWork(od, l, t, k)
    /\ Residue(rd, l) = Residue(od, l)
    /\ ResidueWork(rd, l, t).clusters = ResidueWork(od, l, t).clusters
    /\ ResidueWork(rd, l, t).manifests = ResidueWork(od, l, t).manifests

LEMMA SameWorks ==
    ASSUME NEW rd, NEW od, rd.ns = od.ns, rd.name = od.name, rd.uid = od.uid,
           rd.placement = od.placement, rd.rules = od.rules, NEW l, NEW t
    PROVE  SamePlans(rd, od, l, t)
<1>1. \A k : Targeted(rd, k, l) = Targeted(od, k, l)
  BY DEF Targeted, Placed
<1>2. Residue(rd, l) = Residue(od, l)
  <2>1. Placed(rd, l) = Placed(od, l)
    BY DEF Placed
  <2>2. \A x : x \in Residue(rd, l) <=> x \in Residue(od, l)
    BY <1>1, <2>1 DEF Residue
  <2>3. QED
    BY <2>2 DEF Residue
<1>3. ASSUME NEW k PROVE Accumulated(rd, t, k) = Accumulated(od, t, k)
  <2> DEFINE A(rules) ==
        LET arr[i \in 0..k] ==
                IF i = 0 THEN <<>>
                ELSE arr[i - 1] \o Patched(t, rules[i].patch)
        IN  arr[k]
  <2>1. Accumulated(rd, t, k) = A(rd.rules) /\ Accumulated(od, t, k) = A(od.rules)
    BY DEF Accumulated
  <2> HIDE DEF A
  <2>2. QED
    BY <2>1
<1>4. QED
  BY <1>1, <1>2, <1>3 DEF SamePlans, RuleWork, ResidueWork, Work

LEMMA SpecRules ==
    ASSUME NEW s \in Specs
    PROVE  Len(s.rules) \in Nat /\ \A k \in 1..Len(s.rules) : s.rules[k].id \in RuleIds
BY DistributionConstants DEF DistributionConstants, RuleIds

WorkOf(w, rd, id) ==
    /\ w.owner = rd.uid /\ w.policy = rd.name
    /\ Key(w) = <<rd.ns, rd.name \o id>>

LEMMA WorkFields ==
    ASSUME NEW rd, NEW l, NEW t
    PROVE  /\ \A k : WorkOf(RuleWork(rd, l, t, k), rd, rd.rules[k].id)
           /\ WorkOf(ResidueWork(rd, l, t), rd, rd.id)
BY DEF RuleWork, ResidueWork, Work, Key, WorkOf

LEMMA WorkMade ==
    ASSUME NEW r, NEW u, NEW rd, NEW w, NEW id \in DrawnIds \cup RuleIds,
           rd.ns = r.ns, rd.name = r.name, rd.uid = <<r, u>>, WorkOf(w, rd, id)
    PROVE  w.owner = <<r, u>> /\ w.policy = r.name /\ MadeBy(Key(w), r)
BY DEF WorkOf, MadeBy

(* The plan for a marked object rd of r, and that for a version od of its  *)
(* spec and uid; both have n rules.                                        *)
TwoPlans(r, u, rd, od, l, t, n, plan, other) ==
    /\ rd.ns = r.ns /\ rd.name = r.name /\ rd.uid = <<r, u>>
    /\ rd.id \in DrawnIds
    /\ n \in Nat /\ n = Len(rd.rules) /\ n = Len(od.rules)
    /\ \A k \in 1..n : rd.rules[k].id \in RuleIds
    /\ SamePlans(rd, od, l, t)
    /\ IsPlan(plan, rd, l, t) /\ IsPlan(other, od, l, t)

LEMMA PlansAlike ==
    ASSUME NEW r, NEW u, NEW rd, NEW od, NEW l, NEW t, NEW n, NEW plan,
           NEW other, TwoPlans(r, u, rd, od, l, t, n, plan, other)
    PROVE  \A i \in 1..Len(plan) :
             /\ plan[i].owner = <<r, u>> /\ plan[i].policy = r.name
             /\ MadeBy(Key(plan[i]), r)
             /\ i \in 1..Len(other)
             /\ other[i].clusters = plan[i].clusters
             /\ other[i].manifests = plan[i].manifests
             /\ i <= n => other[i].name = plan[i].name
<1> USE DEF TwoPlans
<1>1. /\ \A k : RuleWork(rd, l, t, k) = RuleWork(od, l, t, k)
      /\ Residue(rd, l) = Residue(od, l)
      /\ ResidueWork(rd, l, t).clusters = ResidueWork(od, l, t).clusters
      /\ ResidueWork(rd, l, t).manifests = ResidueWork(od, l, t).manifests
  BY DEF SamePlans
<1>2. /\ Residue(rd, l) = {} => Len(plan) = n
      /\ Residue(rd, l) # {} => Len(plan) = n + 1
      /\ \A i \in 1..n : plan[i] = RuleWork(rd, l, t, i)
      /\ Residue(rd, l) # {} => plan[n + 1] = ResidueWork(rd, l, t)
  BY DEF IsPlan
<1>3. /\ Residue(od, l) = {} => Len(other) = n
      /\ Residue(od, l) # {} => Len(other) = n + 1
      /\ \A i \in 1..n : other[i] = RuleWork(od, l, t, i)
      /\ Residue(od, l) # {} => other[n + 1] = ResidueWork(od, l, t)
  BY DEF IsPlan
<1>4. ASSUME NEW i \in 1..Len(plan)
      PROVE  /\ plan[i].owner = <<r, u>> /\ plan[i].policy = r.name
             /\ MadeBy(Key(plan[i]), r)
             /\ i \in 1..Len(other)
             /\ other[i].clusters = plan[i].clusters
             /\ other[i].manifests = plan[i].manifests
             /\ i <= n => other[i].name = plan[i].name
  <2>1. CASE i \in 1..n
    <3>1. plan[i] = RuleWork(rd, l, t, i) /\ other[i] = plan[i]
          /\ i \in 1..Len(other)
      BY <1>1, <1>2, <1>3, <2>1
    <3>2. WorkOf(plan[i], rd, rd.rules[i].id)
      BY <3>1, WorkFields
    <3>3. rd.rules[i].id \in DrawnIds \cup RuleIds
      BY <2>1
    <3>4. QED
      BY <2>1, <3>1, <3>2, <3>3, WorkMade
  <2>2. CASE i = n + 1
    <3>1. /\ plan[i] = ResidueWork(rd, l, t)
          /\ other[i] = ResidueWork(od, l, t)
          /\ i \in 1..Len(other)
      BY <1>1, <1>2, <1>3, <2>2
    <3>2. WorkOf(plan[i], rd, rd.id)
      BY <3>1, WorkFields
    <3>3. rd.id \in DrawnIds \cup RuleIds
      OBVIOUS
    <3>4. QED
      BY <1>1, <2>2, <3>1, <3>2, <3>3, WorkMade
  <2>3. QED
    BY <1>2, <2>1, <2>2
<1>5. QED
  BY <1>4

(* What a worker is to apply for a marked object o of r, if v has its spec *)
(* and uid.                                                                *)
LEMMA PlanSays ==
    ASSUME NEW r \in RDs, NEW o, NEW v, o.spec \in Specs, o.spec = v.spec,
           o.uid = v.uid, o.id \in DrawnIds,
           lab \in Labellings, host \in Hosts
    PROVE  /\ PlanOf(r, o) \in Seq(Elements(PlanOf(r, o)))
           /\ \A w \in Elements(PlanOf(r, o)) :
                 /\ w.owner = <<r, o.uid>> /\ w.policy = r.name
                 /\ MadeBy(Key(w), r)
                 /\ Says(w, v)
<1> DEFINE rd == Policy(r, o)
           od == Policy(r, v)
           t == Fetched(v.spec.selector, host)
           plan == GenerateWorks(rd, lab, t)
           other == GenerateWorks(od, lab, t)
           n == Len(v.spec.rules)
<1>1. PlanOf(r, o) = plan
  BY DEF PlanOf, Templates
<1>2. /\ rd.ns = r.ns /\ rd.name = r.name /\ rd.uid = <<r, o.uid>>
      /\ rd.id \in DrawnIds /\ rd.rules = v.spec.rules
      /\ rd.placement = v.spec.placement
      /\ od.ns = r.ns /\ od.name = r.name /\ od.uid = <<r, o.uid>>
      /\ od.rules = v.spec.rules /\ od.placement = v.spec.placement
  BY DEF Policy
<1>3. n \in Nat /\ \A k \in 1..n : v.spec.rules[k].id \in RuleIds
  BY SpecRules
<1> HIDE DEF rd, od
<1>4. n = Len(rd.rules) /\ \A k \in 1..n : rd.rules[k].id \in RuleIds
      /\ od.rules = rd.rules /\ od.placement = rd.placement
  BY <1>2, <1>3
<1>5. /\ plan \in Seq(Elements(plan))
      /\ \A i \in 1..Len(plan) :
            /\ plan[i].owner = <<r, o.uid>> /\ plan[i].policy = r.name
            /\ MadeBy(Key(plan[i]), r)
            /\ i \in 1..Len(other)
            /\ other[i].clusters = plan[i].clusters
            /\ other[i].manifests = plan[i].manifests
            /\ i <= n => other[i].name = plan[i].name
  <2>1. SamePlans(rd, od, lab, t)
    BY <1>2, SameWorks
  <2>2. IsPlan(plan, rd, lab, t) /\ IsPlan(other, od, lab, t)
    BY <1>3, <1>4, PlanElements
  <2>3. plan \in Seq(Elements(plan))
    BY <2>2 DEF IsPlan
  <2> HIDE DEF plan, other, t, n
  <2>4. PICK u : u = o.uid
    OBVIOUS
  <2>5. /\ rd.ns = r.ns /\ rd.name = r.name /\ rd.uid = <<r, u>>
        /\ rd.id \in DrawnIds
        /\ n \in Nat /\ n = Len(rd.rules) /\ n = Len(od.rules)
        /\ \A k \in 1..n : rd.rules[k].id \in RuleIds
    BY <1>2, <1>3, <1>4, <2>4
  <2> HIDE DEF rd, od
  <2>6. TwoPlans(r, u, rd, od, lab, t, n, plan, other)
    BY <2>1, <2>2, <2>5 DEF TwoPlans
  <2>7. \A i \in 1..Len(plan) :
           /\ plan[i].owner = <<r, u>> /\ plan[i].policy = r.name
           /\ MadeBy(Key(plan[i]), r)
           /\ i \in 1..Len(other)
           /\ other[i].clusters = plan[i].clusters
           /\ other[i].manifests = plan[i].manifests
           /\ i <= n => other[i].name = plan[i].name
    BY <2>6, PlansAlike
  <2>8. QED
    BY <2>3, <2>4, <2>7
<1>6. other = GenerateWorks(Policy(r, v), lab, Fetched(v.spec.selector, host))
  BY DEF od
<1> HIDE DEF plan, other
<1>7. ASSUME NEW i \in 1..Len(plan) PROVE Says(plan[i], v)
  <2>1. plan[i].owner[1] = r
    BY <1>5
  <2>2. QED
    BY <1>5, <1>6, <2>1 DEF Says
<1>8. QED
  BY <1>1, <1>5, <1>7 DEF Elements


-----------------------------------------------------------------------------
(* What is kept while versions and deliveries only get more *)

Alike(v, w) ==
    /\ w.owner = v.owner /\ w.policy = v.policy /\ Key(w) = Key(v)
    /\ w.name = v.name
    /\ w.clusters = v.clusters /\ w.manifests = v.manifests

Later(r) ==
    /\ Len(hist[r]) \in Nat /\ Len(hist'[r]) \in Nat
    /\ Extends(hist[r], hist'[r])
    /\ seen[r] \in Nat /\ seen'[r] \in Nat
    /\ seen[r] <= seen'[r] /\ seen[r] <= Len(hist[r])

(* Workloads are changed, not made. *)
NothingMade ==
    /\ \A w \in works' : \E v \in works : Alike(v, w)
    /\ \A w \in wcache' : \E v \in works \cup wcache : Alike(v, w)

LEMMA SaysAlike ==
    ASSUME NEW v, NEW w, Alike(v, w), NEW x, Says(v, x) PROVE Says(w, x)
<1> DEFINE P(l, h) == GenerateWorks(Policy(v.owner[1], x), l,
                                    Fetched(x.spec.selector, h))
<1>1. PICK l \in Labellings, h \in Hosts : \E i \in 1..Len(P(l, h)) :
          /\ P(l, h)[i].clusters = v.clusters
          /\ P(l, h)[i].manifests = v.manifests
          /\ i <= Len(x.spec.rules) => P(l, h)[i].name = v.name
  BY DEF Says
<1>2. /\ w.clusters = v.clusters /\ w.manifests = v.manifests
      /\ w.name = v.name /\ w.owner = v.owner
  BY DEF Alike
<1>3. P(l, h) = GenerateWorks(Policy(w.owner[1], x), l,
                              Fetched(x.spec.selector, h))
  BY <1>2
<1> HIDE DEF P
<1>4. QED
  BY <1>1, <1>2, <1>3 DEF Says

LEMMA VersionKept ==
    ASSUME NEW r, Later(r), NEW u
    PROVE  (\E n \in 1..seen[r] : hist[r][n].uid = u) =>
               \E n \in 1..seen'[r] : hist'[r][n].uid = u
BY DEF Later, Extends

LEMMA MadeKept ==
    ASSUME \A r \in RDs : Later(r), NEW v, Made(v), NEW w, Alike(v, w)
    PROVE  Made(w)'
<1>1. v.owner[1] \in RDs /\ w.owner = v.owner
  BY DEF Made, Alike
<1>2. \E n \in 1..seen'[v.owner[1]] : hist'[v.owner[1]][n].uid = v.owner[2]
  BY <1>1, VersionKept DEF Made
<1>3. w.policy = w.owner[1].name /\ MadeBy(Key(w), w.owner[1])
  BY <1>1 DEF Made, Alike
<1>4. QED
  BY <1>1, <1>2, <1>3 DEF Made

LEMMA FromPlanKept ==
    ASSUME \A r \in RDs : Later(r), NEW v, v.owner[1] \in RDs, FromPlan(v),
           NEW w, Alike(v, w)
    PROVE  FromPlan(w)'
<1> DEFINE r == v.owner[1]
<1>1. PICK n \in 1..Len(hist[r]) :
          hist[r][n].uid >= v.owner[2] /\ Says(v, hist[r][n])
  BY DEF FromPlan
<1>2. n \in 1..Len(hist'[r]) /\ hist'[r][n] = hist[r][n]
  BY <1>1 DEF Later, Extends
<1>3. Says(w, hist[r][n])
  BY <1>1, SaysAlike
<1>4. w.owner = v.owner
  BY DEF Alike
<1>5. Says(w, hist'[r][n])
  BY <1>2, <1>3
<1>6. QED
  BY <1>1, <1>2, <1>4, <1>5 DEF FromPlan

LEMMA NoNewerKept ==
    ASSUME NothingMade, NEW r, NEW u, NoNewer(r, u) PROVE NoNewer(r, u)'
BY DEF NothingMade, NoNewer, Alike

LEMMA AlikeSelf == ASSUME NEW w PROVE Alike(w, w)
BY DEF Alike

LEMMA PlannedKept ==
    ASSUME \A r \in RDs : Later(r), NEW r \in RDs, NEW w, PlannedFor(w, r),
           NoNewer(r, w.owner[2])'
    PROVE  PlannedFor(w, r)'
<1>1. Made(w)'
  BY MadeKept, AlikeSelf DEF PlannedFor
<1>2. PICK n \in 1..Len(hist[r]) :
          hist[r][n].uid = w.owner[2] /\ Says(w, hist[r][n])
  BY DEF PlannedFor
<1>3. n \in 1..Len(hist'[r]) /\ hist'[r][n] = hist[r][n]
  BY DEF Later, Extends
<1>4. QED
  BY <1>1, <1>2, <1>3 DEF PlannedFor

(* A worker goes on, and so does the world, none of them making Workloads. *)
LEMMA WorkerKept ==
    ASSUME \A r \in RDs : Later(r), NEW r \in RDs, NEW j, WorkerOK(r, j),
           \A u : NoNewer(r, u) => NoNewer(r, u)'
    PROVE  WorkerOK(r, j)'
<1>1. \A u : (\E n \in 1..seen[r] : hist[r][n].uid = u) =>
                \E n \in 1..seen'[r] : hist'[r][n].uid = u
  BY VersionKept
<1>2. ASSUME NEW w, PlannedFor(w, r) PROVE PlannedFor(w, r)'
  BY <1>2, PlannedKept DEF PlannedFor
<1>3. QED
  BY <1>1, <1>2 DEF WorkerOK


LEMMA IdleWorker ==
    ASSUME NEW r, NEW j, j.pc \in {"idle", "start", "done"}
    PROVE  WorkerOK(r, j)'
BY DEF WorkerOK

LEMMA WorkerThen ==
    ASSUME NEW p, NEW r, NEW j, r = active'[p], j = job'[p], WorkerOK(r, j)'
    PROVE  WorkerOK(active[p], job[p])'
BY DEF WorkerOK, PlannedFor, NoNewer

LEMMA Kept ==
    ASSUME WInv, Inv', \A r \in RDs : Later(r), NothingMade,
           \A p \in Procs :
              \/ job'[p] = job[p] /\ active'[p] = active[p]
              \/ \E r, j : r = active'[p] /\ j = job'[p] /\ WorkerOK(r, j)'
    PROVE  WInv'
<1>1. \A w \in works' \cup wcache' : Made(w)'
  <2>1. SUFFICES ASSUME NEW w \in works' \cup wcache' PROVE Made(w)'
    OBVIOUS
  <2>2. PICK v \in works \cup wcache : Alike(v, w)
    BY DEF NothingMade
  <2>3. QED
    BY <2>2, MadeKept DEF WInv
<1>2. \A w \in works' : FromPlan(w)'
  <2>1. SUFFICES ASSUME NEW w \in works' PROVE FromPlan(w)'
    OBVIOUS
  <2>2. PICK v \in works : Alike(v, w)
    BY DEF NothingMade
  <2>3. v.owner[1] \in RDs /\ FromPlan(v)
    BY DEF WInv, Made
  <2>4. QED
    BY <2>2, <2>3, FromPlanKept
<1>3. ASSUME NEW p \in Procs PROVE WorkerOK(active[p], job[p])'
  <2>1. CASE job'[p] = job[p] /\ active'[p] = active[p]
    <3>1. PICK r, j : r = active[p] /\ j = job[p]
      OBVIOUS
    <3>2. WorkerOK(r, j)
      BY <3>1 DEF WInv
    <3>3. CASE j.pc = "idle"
      BY <2>1, <3>1, <3>3, IdleWorker, WorkerThen
    <3>4. CASE j.pc # "idle"
      <4>1. r \in RDs
        BY <3>1, <3>4, ActiveOK DEF WInv, Inv
      <4>2. WorkerOK(r, j)'
        BY <3>2, <4>1, WorkerKept, NoNewerKept
      <4>3. QED
        BY <2>1, <3>1, <4>2, WorkerThen
    <3>5. QED
      BY <3>3, <3>4
  <2>2. QED
    BY <2>1, WorkerThen
<1>4. QED
  BY <1>1, <1>2, <1>3 DEF WInv


-----------------------------------------------------------------------------
(* Steps that make no Workload *)

LEMMA AlwaysLater ==
    ASSUME RDInv, RDInv', [Next]_vars, NEW r \in RDs PROVE Later(r)
<1>1. /\ hist[r] \in Seq(Versions) /\ hist'[r] \in Seq(Versions)
      /\ Len(hist[r]) \in Nat /\ Len(hist'[r]) \in Nat
      /\ seen[r] \in Nat /\ seen'[r] \in Nat /\ seen[r] <= Len(hist[r])
      /\ seen'[r] <= Len(hist'[r])
  BY LenProperties DEF RDInv
<1>2. UNCHANGED hist \/ Grows
  <2>1. ASSUME NEW s \in RDs, User(s) PROVE Grows
    BY <2>1, UserVersion, Stores
  <2>2. ASSUME NEW p \in Procs, SyncMark(p) \/ Release(p)
        PROVE  UNCHANGED hist \/ Grows
    <3>1. PICK n, o : Sends(p, n, o)
      BY <2>2, MarkSends, ReleaseSends
    <3>2. \/ UNCHANGED hist
          \/ Accepted(active[p], o) /\ Store(active[p], Sent(active[p], o))
      BY <3>1 DEF Sends, Put
    <3>3. QED
      BY <3>1, <3>2, SentOK, Stores DEF Sends
  <2>3. ASSUME NEW p \in Procs, Worker(p), ~SyncMark(p), ~Release(p)
        PROVE  UNCHANGED hist
    BY <2>3 DEF Worker, Sync, Apply, SyncNotFound, SyncDelete, SyncApply,
                DeleteWork, Plan, ApplyCreate, ApplyUpdate, Fail, Done
  <2>4. CASE \/ UNCHANGED vars \/ Change \/ Crash
             \/ \E s \in RDs : Deliver(s) \/ Resync(s) \/ Fire(s)
             \/ \E w \in works : WorkFinalizer(w) \/ Collect(w)
             \/ \E k \in stale : DeliverWork(k)
             \/ \E p \in Procs : \E s \in RDs : Begin(p, s)
    BY <2>4 DEF vars, Change, Crash, Deliver, Resync, Fire, WorkFinalizer,
                Collect, DeliverWork, Begin
  <2>5. QED
    BY <2>1, <2>2, <2>3, <2>4 DEF Next
<1>3. Extends(hist[r], hist'[r])
  BY <1>1, <1>2, ExtendsSelf DEF Grows
<1>4. seen[r] <= seen'[r]
  <2>1. ASSUME NEW s \in RDs, Deliver(s) PROVE seen[r] <= seen'[r]
    BY <1>1, <2>1 DEF Deliver, RDInv
  <2>2. CASE Crash
    BY <1>1, <2>2 DEF Crash
  <2>3. CASE \/ UNCHANGED vars \/ Change
             \/ \E s \in RDs : User(s) \/ Resync(s) \/ Fire(s)
             \/ \E w \in works : WorkFinalizer(w) \/ Collect(w)
             \/ \E k \in stale : DeliverWork(k)
             \/ \E p \in Procs : \E s \in RDs : Begin(p, s)
    <3>1. UNCHANGED seen
      BY <2>3 DEF vars, Change, User, Create, Edit, Delete, Resync, Fire,
                  WorkFinalizer, Collect, DeliverWork, Begin, informer
    <3>2. QED
      BY <1>1, <3>1
  <2>4. ASSUME NEW p \in Procs, Worker(p) PROVE seen[r] <= seen'[r]
    <3>1. UNCHANGED seen
      BY <2>4 DEF Worker, Sync, Apply, SyncNotFound, SyncMark, SyncDelete,
                  SyncApply, Release, DeleteWork, Plan, ApplyCreate,
                  ApplyUpdate, Fail, Done, informer
    <3>2. QED
      BY <1>1, <3>1
  <2>5. QED
    BY <2>1, <2>2, <2>3, <2>4 DEF Next
<1>5. QED
  BY <1>1, <1>3, <1>4 DEF Later

LEMMA NoneMade == ASSUME UNCHANGED server PROVE NothingMade
BY AlikeSelf DEF NothingMade, server

LEMMA WriteMakesNone ==
    ASSUME NEW k, NEW ws, Write(k, ws), UNCHANGED wcache,
           \A w \in ws : \E v \in works : Alike(v, w)
    PROVE  NothingMade
<1>1. works' = (works \ At(works, k)) \cup ws
  BY DEF Write
<1>2. QED
  BY <1>1, AlikeSelf DEF NothingMade

LEMMA MarkedAlike ==
    ASSUME NEW w, IsWork(w), NEW f \in BOOLEAN
    PROVE  Alike(w, [w EXCEPT !.fin = f]) /\ Alike(w, [w EXCEPT !.del = f])
BY DEF IsWork, Alike, Key

LEMMA DoomedAlike ==
    ASSUME NEW v, IsWork(v), NEW w \in Doomed(v) PROVE Alike(v, w)
BY MarkedAlike DEF Doomed

LEMMA WorldMakesNone ==
    ASSUME StoreOK,
           \/ \E w \in works : WorkFinalizer(w) \/ Collect(w)
           \/ \E k \in stale : DeliverWork(k)
    PROVE  NothingMade
<1>1. ASSUME NEW w \in works, WorkFinalizer(w) PROVE NothingMade
  <2> DEFINE f == [w EXCEPT !.fin = TRUE]
  <2>1. PICK ws : /\ Write(Key(w), ws) /\ UNCHANGED wcache
                  /\ ws = {} \/ ws = {f}
    BY <1>1 DEF WorkFinalizer
  <2>2. Alike(w, f)
    BY MarkedAlike DEF StoreOK
  <2> HIDE DEF f
  <2>3. QED
    BY <2>1, <2>2, WriteMakesNone
<1>2. ASSUME NEW w \in works, Collect(w) PROVE NothingMade
  <2>1. \A v \in Doomed(w) : Alike(w, v)
    BY DoomedAlike DEF StoreOK
  <2>2. QED
    BY <1>2, <2>1, WriteMakesNone DEF Collect
<1>3. ASSUME NEW k \in stale, DeliverWork(k) PROVE NothingMade
  BY <1>3, AlikeSelf DEF DeliverWork, NothingMade, At
<1>4. QED
  BY <1>1, <1>2, <1>3

LEMMA DeleteMakesNone ==
    ASSUME StoreOK, NEW p, NEW k, DeleteWork(p, k) PROVE NothingMade
<1> DEFINE doomed == UNION {Doomed(w) : w \in At(works, k)}
<1>1. /\ UNCHANGED wcache
      /\ \/ Write(k, doomed) \/ Write(k, At(works, k))
         \/ UNCHANGED <<works, stale>>
  BY DEF DeleteWork
<1>2. \A w \in doomed : \E v \in works : Alike(v, w)
  BY DoomedAlike DEF StoreOK, At
<1>3. \A w \in At(works, k) : \E v \in works : Alike(v, w)
  BY AlikeSelf DEF At
<1> HIDE DEF doomed
<1>4. QED
  BY <1>1, <1>2, <1>3, WriteMakesNone, NoneMade DEF server


-----------------------------------------------------------------------------
(* Workers that make no Workload *)

(* Nothing is of a later RD than the object that was delivered last. *)
LEMMA LastDelivered ==
    ASSUME WInv, NEW r \in RDs, seen[r] \in 1..Len(hist[r])
    PROVE  /\ NoNewer(r, hist[r][seen[r]].uid)
           /\ \E n \in 1..seen[r] : hist[r][n].uid = hist[r][seen[r]].uid
<1>1. HistOK(hist[r]) /\ Len(hist[r]) \in Nat
  BY HistOf DEF WInv, Inv
<1>2. ASSUME NEW w \in works \cup wcache, w.owner[1] = r
      PROVE  w.owner[2] <= hist[r][seen[r]].uid
  <2>1. PICK n \in 1..seen[r] : hist[r][n].uid = w.owner[2]
    BY <1>2 DEF WInv, Made
  <2>2. n \in 1..Len(hist[r]) /\ n <= seen[r]
    BY <1>1
  <2>3. hist[r][n].uid <= hist[r][seen[r]].uid
    BY <1>1, <2>2 DEF HistOK
  <2>4. QED
    BY <2>1, <2>3
<1>3. QED
  BY <1>1, <1>2 DEF NoNewer

Goes(p) ==
    \/ job'[p] = job[p] /\ active'[p] = active[p]
    \/ \E r, j : r = active'[p] /\ j = job'[p] /\ WorkerOK(r, j)'

(* A worker that goes on with an object of an RD no Workload is later than. *)
LEMMA GoesOn ==
    ASSUME NothingMade, NEW p \in Procs, NEW r \in RDs, r = active'[p], Later(r),
           NEW j, j = job'[p], j.pc = "plan",
           NoNewer(r, j.rd.uid),
           \E n \in 1..seen[r] : hist[r][n].uid = j.rd.uid
    PROVE  Goes(p)
<1>1. NoNewer(r, j.rd.uid)'
  BY NoNewerKept
<1>2. \E n \in 1..seen'[r] : hist'[r][n].uid = j.rd.uid
  BY VersionKept
<1>3. WorkerOK(r, j)'
  BY <1>1, <1>2 DEF WorkerOK
<1>4. QED
  BY <1>3 DEF Goes

LEMMA IdleGoes ==
    ASSUME NEW p \in Procs, job'[p].pc \in {"idle", "start", "done"}
    PROVE  Goes(p)
<1>1. PICK r, j : r = active'[p] /\ j = job'[p]
  OBVIOUS
<1>2. QED
  BY <1>1, IdleWorker DEF Goes

(* Only worker p moves. *)
LEMMA OthersStay ==
    ASSUME RDInv, NEW p \in Procs, NEW j, job' = [job EXCEPT ![p] = j],
           UNCHANGED active
    PROVE  /\ job'[p] = j /\ active'[p] = active[p]
           /\ Goes(p) => \A q \in Procs : Goes(q)
BY JobSet DEF Goes

LEMMA SendGoes ==
    ASSUME WInv, NEW p \in Procs, SyncMark(p) \/ Release(p),
           \A r \in RDs : Later(r), NothingMade
    PROVE  \A q \in Procs : Goes(q)
<1>1. PICK n, o : Sends(p, n, o)
  BY MarkSends, ReleaseSends DEF WInv, Inv
<1> DEFINE r == active[p]
           a == [Sent(r, o) EXCEPT !.gone = FALSE]
           j == [NoJob EXCEPT !.pc = "plan", !.rd = a]
<1>2. /\ r \in RDs /\ UNCHANGED active
      /\ \/ \E ok \in BOOLEAN : job' = [job EXCEPT ![p] = Finish(ok)]
         \/ Accepted(r, o) /\ job' = [job EXCEPT ![p] = j]
  BY <1>1 DEF Sends, Put, workqueue
<1>3. RDInv
  BY DEF WInv, Inv
<1>4. ASSUME NEW ok \in BOOLEAN, job' = [job EXCEPT ![p] = Finish(ok)]
      PROVE  \A q \in Procs : Goes(q)
  <2>1. PICK i : i = Finish(ok)
    OBVIOUS
  <2>2. i.pc = "done"
    BY <2>1, FinishOK
  <2>3. job' = [job EXCEPT ![p] = i] /\ UNCHANGED active
    BY <1>2, <1>4, <2>1
  <2>4. job'[p] = i /\ (Goes(p) => \A q \in Procs : Goes(q))
    BY <1>3, <2>3, OthersStay
  <2>5. Goes(p)
    BY <2>2, <2>4, IdleGoes
  <2>6. QED
    BY <2>4, <2>5
<1>5. CASE Accepted(r, o) /\ job' = [job EXCEPT ![p] = j]
  <2>1. a.uid = o.uid
    BY <1>1, <1>3, <1>5, SentOK DEF Sends
  <2>2. /\ NoNewer(r, o.uid)
        /\ \E m \in 1..seen[r] : hist[r][m].uid = o.uid
    <3>1. CASE n = seen[r]
      BY <1>1, <3>1, LastDelivered DEF Sends
    <3>2. CASE job[p].pc = "delete" /\ o.uid = job[p].rd.uid
      BY <3>2 DEF WInv, WorkerOK
    <3>3. QED
      BY <1>1, <3>1, <3>2 DEF Sends
  <2> HIDE DEF a
  <2>3. j.pc = "plan" /\ j.rd = a
    BY DEF NoJob
  <2>4. PICK x : x = r
    OBVIOUS
  <2> HIDE DEF j, r
  <2>5. PICK i : i = j
    OBVIOUS
  <2>6. job'[p] = i /\ x = active'[p] /\ x \in RDs
    BY <1>2, <1>3, <1>5, <2>4, <2>5, OthersStay DEF r
  <2>7. /\ NoNewer(x, i.rd.uid)
        /\ \E m \in 1..seen[x] : hist[x][m].uid = i.rd.uid
    BY <2>1, <2>2, <2>3, <2>4, <2>5
  <2>8. Goes(p)
    BY <2>3, <2>5, <2>6, <2>7, GoesOn
  <2>9. QED
    BY <1>2, <1>3, <1>5, <2>8, OthersStay
<1>6. QED
  BY <1>2, <1>4, <1>5


LEMMA ReadsGoes ==
    ASSUME WInv, NEW p \in Procs, SyncDelete(p) \/ SyncApply(p),
           \A r \in RDs : Later(r), NothingMade
    PROVE  \A q \in Procs : Goes(q)
<1> DEFINE a == active[p]
           c == cache[active[p]]
           d == [NoJob EXCEPT !.pc = "delete", !.rd = c, !.at = seen[a],
                              !.kill = {Key(w) : w \in Listed(a)}]
           g == [NoJob EXCEPT !.pc = "plan", !.rd = c]
<1>1. /\ job[p].pc = "start" /\ cache[a] # None
      /\ job' = [job EXCEPT ![p] = d] \/ job' = [job EXCEPT ![p] = g]
      /\ UNCHANGED active
  BY DEF SyncDelete, SyncApply, Cached, workqueue
<1>2. RDInv
  BY DEF WInv, Inv
<1>3. a \in RDs
  BY <1>1, <1>2, ActiveOK
<1>4. seen[a] \in 1..Len(hist[a]) /\ c.uid = hist[a][seen[a]].uid
  BY <1>1, <1>2, <1>3, CachedOK
<1>5. NoNewer(a, c.uid) /\ \E n \in 1..seen[a] : hist[a][n].uid = c.uid
  BY <1>3, <1>4, LastDelivered
<1>6. PICK r, o : r = a /\ o = c
  OBVIOUS
<1>7. r \in RDs /\ NoNewer(r, o.uid) /\ (\E n \in 1..seen[r] : hist[r][n].uid = o.uid)
  BY <1>3, <1>5, <1>6
<1>8. CASE job' = [job EXCEPT ![p] = d]
  <2>1. /\ d.pc = "delete" /\ d.rd = o
        /\ \A k \in d.kill : \E w \in wcache : k = Key(w) /\ w.policy = r.name
    BY <1>6 DEF NoJob, Listed
  <2> HIDE DEF d
  <2>2. PICK j : j = d
    OBVIOUS
  <2>3. \A k \in j.kill : \E s \in RDs : s.name = r.name /\ MadeBy(k, s)
    BY <2>1, <2>2 DEF WInv, Made
  <2>4. NoNewer(r, o.uid)' /\ \E n \in 1..seen'[r] : hist'[r][n].uid = o.uid
    BY <1>7, NoNewerKept, VersionKept
  <2>5. j.pc = "delete" /\ j.rd = o
    BY <2>1, <2>2
  <2>6. WorkerOK(r, j)'
    BY <2>3, <2>4, <2>5 DEF WorkerOK
  <2>7. job'[p] = j /\ active'[p] = r
    BY <1>1, <1>2, <1>6, <1>8, <2>2, OthersStay
  <2>8. Goes(p)
    BY <2>6, <2>7 DEF Goes
  <2>9. QED
    BY <1>1, <1>2, <1>8, <2>8, OthersStay
<1>9. CASE job' = [job EXCEPT ![p] = g]
  <2>1. g.pc = "plan" /\ g.rd = o
    BY <1>6 DEF NoJob
  <2> HIDE DEF g
  <2>2. PICK j : j = g
    OBVIOUS
  <2>3. j.pc = "plan" /\ j.rd = o
    BY <2>1, <2>2
  <2>4. job'[p] = j /\ active'[p] = r
    BY <1>1, <1>2, <1>6, <1>9, <2>2, OthersStay
  <2>5. Goes(p)
    BY <1>7, <2>3, <2>4, GoesOn
  <2>6. QED
    BY <1>1, <1>2, <1>9, <2>5, OthersStay
<1>10. QED
  BY <1>1, <1>8, <1>9

LEMMA DeleteGoes ==
    ASSUME WInv, NEW p \in Procs, NEW k, DeleteWork(p, k),
           \A r \in RDs : Later(r), NothingMade
    PROVE  \A q \in Procs : Goes(q)
<1> DEFINE d == [job[p] EXCEPT !.kill = @ \ {k}]
<1>1. /\ job[p].pc = "delete" /\ UNCHANGED active
      /\ \/ job' = [job EXCEPT ![p] = Finish(FALSE)]
         \/ job' = [job EXCEPT ![p] = d]
  BY DEF DeleteWork, workqueue
<1>2. RDInv
  BY DEF WInv, Inv
<1>3. active[p] \in RDs /\ IsJob(job[p]) /\ WorkerOK(active[p], job[p])
  BY <1>1, <1>2, ActiveOK DEF WInv, JobOK
<1>4. CASE job' = [job EXCEPT ![p] = Finish(FALSE)]
  BY <1>1, <1>2, <1>4, FinishOK, OthersStay, IdleGoes
<1>5. CASE job' = [job EXCEPT ![p] = d]
  <2>1. d.pc = "delete" /\ d.rd = job[p].rd /\ d.kill \subseteq job[p].kill
    BY <1>1, <1>3 DEF IsJob
  <2> HIDE DEF d
  <2>2. PICK r, j : r = active[p] /\ j = d
    OBVIOUS
  <2>3. /\ r \in RDs /\ j.pc = "delete"
        /\ NoNewer(r, j.rd.uid)
        /\ \E n \in 1..seen[r] : hist[r][n].uid = j.rd.uid
        /\ \A x \in j.kill : \E s \in RDs : s.name = r.name /\ MadeBy(x, s)
    BY <1>1, <1>3, <2>1, <2>2 DEF WorkerOK
  <2>4. NoNewer(r, j.rd.uid)' /\ \E n \in 1..seen'[r] : hist'[r][n].uid = j.rd.uid
    BY <2>3, NoNewerKept, VersionKept
  <2>5. WorkerOK(r, j)'
    BY <2>3, <2>4 DEF WorkerOK
  <2>6. job'[p] = j /\ active'[p] = r
    BY <1>1, <1>2, <1>5, <2>2, OthersStay
  <2>7. Goes(p)
    BY <2>5, <2>6 DEF Goes
  <2>8. QED
    BY <1>1, <1>2, <1>5, <2>7, OthersStay
<1>6. QED
  BY <1>1, <1>4, <1>5

LEMMA PlanGoes ==
    ASSUME WInv, NEW p \in Procs, Plan(p), \A r \in RDs : Later(r), NothingMade
    PROVE  \A q \in Procs : Goes(q)
<1> DEFINE a == active[p]
           o == job[p].rd
           t == IF Feasible(a, o) THEN PlanOf(a, o) ELSE <<>>
           g == [NoJob EXCEPT !.pc = "apply", !.todo = t]
<1>1. /\ job[p].pc = "plan" /\ UNCHANGED <<active, hist, seen, works, wcache>>
      /\ \/ job' = [job EXCEPT ![p] = Finish(TRUE)]
         \/ t # <<>> /\ job' = [job EXCEPT ![p] = g]
  BY DEF Plan, workqueue, informer, server
<1>2. RDInv
  BY DEF WInv, Inv
<1>3. /\ a \in RDs /\ JobOK(job[p], hist[a]) /\ WorkerOK(a, job[p])
      /\ HistOK(hist[a])
  BY <1>1, <1>2, ActiveOK, HistOf DEF WInv
<1>4. CASE job' = [job EXCEPT ![p] = Finish(TRUE)]
  BY <1>1, <1>2, <1>4, FinishOK, OthersStay, IdleGoes
<1>5. CASE t # <<>> /\ job' = [job EXCEPT ![p] = g]
  <2>1. /\ CopyOf(o, hist[a])
        /\ o.fin \/ o.del
        /\ NoNewer(a, o.uid)
        /\ \E n \in 1..seen[a] : hist[a][n].uid = o.uid
    BY <1>1, <1>3 DEF JobOK, WorkerOK
  <2> DEFINE v == hist[a][o.rv]
  <2>2. /\ o.rv \in 1..Len(hist[a]) /\ o.spec = v.spec /\ o.uid = v.uid
        /\ o.id \in DrawnIds /\ o.spec \in Specs
    BY <2>1 DEF CopyOf, Versions
  <2>3. lab \in Labellings /\ host \in Hosts
    BY <1>2 DEF RDInv
  <2>4. t = PlanOf(a, o)
    BY <1>5
  <2>5. g.pc = "apply" /\ g.todo = t
    BY DEF NoJob
  <2> HIDE DEF t, g, o, a, v
  <2>6. /\ t \in Seq(Elements(t))
        /\ \A w \in Elements(t) :
              /\ w.owner = <<a, o.uid>> /\ w.policy = a.name
              /\ MadeBy(Key(w), a)
              /\ Says(w, v)
    BY <1>3, <2>2, <2>3, <2>4, PlanSays
  <2>7. \A w \in Elements(t) : PlannedFor(w, a)
    <3>1. SUFFICES ASSUME NEW w \in Elements(t) PROVE PlannedFor(w, a)
      OBVIOUS
    <3>2. w.owner = <<a, o.uid>> /\ w.policy = a.name
          /\ MadeBy(Key(w), a) /\ Says(w, v)
      BY <2>6
    <3>3. w.owner[1] = a /\ w.owner[2] = o.uid
      BY <3>2
    <3>4. Made(w)
      BY <1>3, <2>1, <3>2, <3>3 DEF Made
    <3>5. \E n \in 1..Len(hist[a]) :
             hist[a][n].uid = w.owner[2] /\ Says(w, hist[a][n])
      BY <2>2, <3>2, <3>3 DEF v
    <3>6. QED
      BY <2>1, <3>3, <3>4, <3>5 DEF PlannedFor
  <2>8. PICK r, j : r = a /\ j = g
    OBVIOUS
  <2>9. /\ j.pc = "apply" /\ j.todo = t /\ r \in RDs
        /\ \A w \in Elements(j.todo) : PlannedFor(w, r)
        /\ \A w \in Elements(j.todo) : w.owner = <<r, o.uid>>
    BY <1>3, <2>5, <2>6, <2>7, <2>8
  <2>10. j.todo \in Seq(Elements(j.todo)) /\ j.todo # <<>>
    BY <1>5, <2>5, <2>6, <2>8
  <2>11. WorkerOK(r, j)
    BY <2>9, <2>10 DEF WorkerOK
  <2>12. WorkerOK(r, j)'
    BY <2>9, <2>11, WorkerKept, NoNewerKept
  <2>13. job'[p] = j /\ active'[p] = r
    BY <1>1, <1>2, <1>5, <2>8, OthersStay DEF a
  <2>14. Goes(p)
    BY <2>12, <2>13 DEF Goes
  <2>15. QED
    BY <1>1, <1>2, <1>5, <2>14, OthersStay
<1>6. QED
  BY <1>1, <1>4, <1>5

LEMMA EndGoes ==
    ASSUME RDInv, NEW p \in Procs,
           \/ SyncNotFound(p) \/ Fail(p) \/ Done(p)
           \/ \E r \in RDs : Begin(p, r)
    PROVE  \A q \in Procs : Goes(q)
<1>1. CASE SyncNotFound(p)
  BY <1>1, FinishOK, OthersStay, IdleGoes DEF SyncNotFound, workqueue
<1>2. CASE Fail(p)
  <2> DEFINE j == [job[p] EXCEPT !.ok = TRUE]
  <2>1. job[p].pc = "done" /\ job' = [job EXCEPT ![p] = j] /\ UNCHANGED active
    BY <1>2, Deferred DEF Fail
  <2>2. IsJob(job[p])
    BY ActiveOK DEF JobOK
  <2>3. j.pc = "done"
    BY <2>1, <2>2 DEF IsJob
  <2> HIDE DEF j
  <2>4. QED
    BY <2>1, <2>3, OthersStay, IdleGoes
<1>3. ASSUME NEW j, job' = [job EXCEPT ![p] = j], j.pc \in {"idle", "start"},
             \A q \in Procs \ {p} : active'[q] = active[q]
      PROVE  \A q \in Procs : Goes(q)
  <2>1. job'[p] = j /\ \A q \in Procs \ {p} : job'[q] = job[q]
    BY <1>3, JobSet
  <2>2. Goes(p)
    BY <1>3, <2>1, IdleGoes
  <2>3. QED
    BY <1>3, <2>1, <2>2 DEF Goes
<1>4. CASE Done(p)
  BY <1>3, <1>4, Ends DEF Done, NoJob
<1>5. ASSUME NEW r \in RDs, Begin(p, r) PROVE \A q \in Procs : Goes(q)
  <2> DEFINE j == [NoJob EXCEPT !.pc = "start"]
  <2>1. j.pc = "start"
    BY DEF NoJob
  <2>2. job' = [job EXCEPT ![p] = j] /\ \A q \in Procs \ {p} : active'[q] = active[q]
    BY <1>5, Begins DEF Begin
  <2> HIDE DEF j
  <2>3. QED
    BY <1>3, <2>1, <2>2
<1>6. QED
  BY <1>1, <1>2, <1>4, <1>5


-----------------------------------------------------------------------------
(* applyWorkloads makes Workloads *)

(* What is left of the plan for r, of which xs have been put there.        *)
Rest(r, xs, j) ==
    \/ j.pc = "done"
    \/ /\ j.pc = "apply"
       /\ j.todo \in Seq(Elements(j.todo)) /\ j.todo # <<>>
       /\ \A w \in Elements(j.todo) :
             PlannedFor(w, r) /\ \A x \in xs : x.owner[2] <= w.owner[2]
       /\ \A v, w \in Elements(j.todo) : v.owner = w.owner

PutFor(r, xs) == \A x \in xs : Made(x) /\ FromPlan(x) /\ x.owner[1] = r

LEMMA Makes ==
    ASSUME WInv, Inv', \A r \in RDs : Later(r), UNCHANGED <<wcache, active>>,
           NEW p \in Procs, NEW r \in RDs, r = active[p],
           NEW xs, works' \subseteq works \cup xs, PutFor(r, xs),
           NEW j, job' = [job EXCEPT ![p] = j], Rest(r, xs, j)
    PROVE  WInv'
<1>1. \A w \in works' \cup wcache' : Made(w)'
  BY MadeKept, AlikeSelf DEF WInv, PutFor
<1>2. \A w \in works' : FromPlan(w)'
  <2>1. SUFFICES ASSUME NEW w \in works' PROVE FromPlan(w)'
    OBVIOUS
  <2>2. w.owner[1] \in RDs /\ FromPlan(w)
    BY DEF WInv, Made, PutFor
  <2>3. QED
    BY <2>2, FromPlanKept, AlikeSelf
<1>3. /\ job'[p] = j /\ \A q \in Procs \ {p} : job'[q] = job[q]
  BY JobSet DEF WInv, Inv
<1>4. WorkerOK(active[p], job[p])'
  <2>1. CASE j.pc = "done"
    BY <1>3, <2>1, IdleWorker, WorkerThen
  <2>2. CASE j.pc = "apply"
    <3>1. ASSUME NEW w \in Elements(j.todo) PROVE PlannedFor(w, r)'
      <4>1. PlannedFor(w, r) /\ \A x \in xs : x.owner[2] <= w.owner[2]
        BY <2>2 DEF Rest
      <4>2. NoNewer(r, w.owner[2])'
        <5>1. NoNewer(r, w.owner[2])
          BY <4>1 DEF PlannedFor
        <5>2. \A e \in works' \cup wcache' : e \in works \cup wcache \/ e \in xs
          OBVIOUS
        <5>3. PICK u : u = w.owner[2]
          OBVIOUS
        <5>4. \A e \in works \cup wcache : e.owner[1] = r => e.owner[2] <= u
          BY <5>1, <5>3 DEF NoNewer
        <5>5. \A e \in xs : e.owner[2] <= u
          BY <4>1, <5>3
        <5>6. NoNewer(r, u)'
          BY <5>2, <5>4, <5>5 DEF NoNewer
        <5>7. QED
          BY <5>3, <5>6
      <4>3. QED
        BY <4>1, <4>2, PlannedKept
    <3>2. WorkerOK(r, j)'
      BY <2>2, <3>1 DEF WorkerOK, Rest
    <3>3. QED
      BY <1>3, <3>2, WorkerThen
  <2>3. QED
    BY <2>1, <2>2 DEF Rest
<1>5. ASSUME NEW q \in Procs, q # p PROVE WorkerOK(active[q], job[q])'
  <2>1. PICK s, i : s = active[q] /\ i = job[q]
    OBVIOUS
  <2>2. s = active'[q] /\ i = job'[q]
    BY <1>3, <1>5, <2>1
  <2>3. CASE i.pc = "idle"
    BY <2>2, <2>3, IdleWorker, WorkerThen
  <2>4. CASE i.pc # "idle"
    <3>1. s \in RDs /\ WorkerOK(s, i)
      BY <2>1, <2>4, ActiveOK DEF WInv, Inv
    <3>2. s # r
      BY <1>5, <2>1, <3>1, Idle DEF WInv, Inv, RDInv, Alone
    <3>3. ASSUME NEW u, NoNewer(s, u) PROVE NoNewer(s, u)'
      <4>1. \A e \in works' \cup wcache' : e \in works \cup wcache \/ e \in xs
        OBVIOUS
      <4>2. \A e \in xs : e.owner[1] # s
        BY <3>2 DEF PutFor
      <4>3. QED
        BY <3>3, <4>1, <4>2 DEF NoNewer
    <3>4. WorkerOK(s, i)'
      BY <3>1, <3>3, WorkerKept
    <3>5. QED
      BY <2>2, <3>4, WorkerThen
  <2>5. QED
    BY <2>3, <2>4
<1>6. QED
  BY <1>1, <1>2, <1>4, <1>5 DEF WInv

(* What worker p has still to apply, and what it goes on with. *)
LEMMA ApplyOK ==
    ASSUME WInv, NEW p \in Procs, job[p].pc = "apply"
    PROVE  /\ active[p] \in RDs
           /\ PlannedFor(Head(job[p].todo), active[p])
           /\ \A ok \in BOOLEAN :
                 LET j == GoOn(p, ok)
                 IN  \/ j.pc = "done"
                     \/ /\ j.pc = "apply"
                        /\ j.todo \in Seq(Elements(j.todo)) /\ j.todo # <<>>
                        /\ \A w \in Elements(j.todo) : PlannedFor(w, active[p])
                        /\ \A w \in Elements(j.todo) :
                              w.owner = Head(job[p].todo).owner
<1> DEFINE r == active[p]
           t == job[p].todo
<1>1. r \in RDs /\ WorkerOK(r, job[p])
  BY ActiveOK DEF WInv, Inv
<1>2. /\ t \in Seq(Elements(t)) /\ t # <<>>
      /\ \A w \in Elements(t) : PlannedFor(w, r)
      /\ \A v, w \in Elements(t) : v.owner = w.owner
  BY <1>1 DEF WorkerOK
<1> HIDE DEF r, t
<1>3. /\ Len(t) \in Nat \ {0} /\ Head(t) \in Elements(t)
      /\ Tail(t) \in Seq(Elements(Tail(t)))
      /\ Elements(Tail(t)) \subseteq Elements(t)
      /\ Len(Tail(t)) = Len(t) - 1
  BY <1>2, TailElements
<1>4. ASSUME NEW ok \in BOOLEAN
      PROVE  \/ GoOn(p, ok).pc = "done"
             \/ /\ GoOn(p, ok).pc = "apply"
                /\ GoOn(p, ok).todo = Tail(t) /\ Tail(t) # <<>>
  <2>1. CASE Len(t) = 1
    <3>1. GoOn(p, ok) = Finish(ok)
      BY <2>1 DEF GoOn, t
    <3>2. QED
      BY <3>1, FinishOK
  <2>2. CASE Len(t) # 1
    <3> DEFINE g == [NoJob EXCEPT !.pc = "apply", !.todo = Tail(t)]
    <3>1. GoOn(p, ok) = g
      BY <2>2 DEF GoOn, t
    <3>2. g.pc = "apply" /\ g.todo = Tail(t)
      BY DEF NoJob
    <3>3. Tail(t) # <<>>
      <4>1. Len(Tail(t)) # 0
        BY <1>3, <2>2
      <4>2. QED
        BY <1>3, <4>1, EmptySeq
    <3> HIDE DEF g
    <3>4. QED
      BY <3>1, <3>2, <3>3
  <2>3. QED
    BY <2>1, <2>2
<1>5. \A w \in Elements(Tail(t)) : PlannedFor(w, r) /\ w.owner = Head(t).owner
  BY <1>2, <1>3
<1>6. QED
  BY <1>1, <1>2, <1>3, <1>4, <1>5 DEF r, t


LEMMA CreateKeeps ==
    ASSUME WInv, Inv', \A r \in RDs : Later(r), NEW p \in Procs, ApplyCreate(p)
    PROVE  WInv'
<1> DEFINE a == Head(job[p].todo)
           b == active[p]
<1>1. /\ job[p].pc = "apply" /\ UNCHANGED <<wcache, active>>
      /\ \E ok \in BOOLEAN : job' = [job EXCEPT ![p] = GoOn(p, ok)]
      /\ Write(Key(a), {Stored(a)}) \/ UNCHANGED works
  BY DEF ApplyCreate, workqueue
<1>2. PICK ok \in BOOLEAN : job' = [job EXCEPT ![p] = GoOn(p, ok)]
  BY <1>1
<1>3. PICK j : j = GoOn(p, ok)
  OBVIOUS
<1>4. /\ b \in RDs /\ PlannedFor(a, b)
      /\ \/ j.pc = "done"
         \/ /\ j.pc = "apply"
            /\ j.todo \in Seq(Elements(j.todo)) /\ j.todo # <<>>
            /\ \A w \in Elements(j.todo) : PlannedFor(w, b) /\ w.owner = a.owner
  BY <1>1, <1>3, ApplyOK
<1>5. works' \subseteq works \cup {Stored(a)}
  BY <1>1 DEF Write
<1> HIDE DEF a, b
<1>6. PICK w, x, r : w = a /\ x = Stored(a) /\ r = b
  OBVIOUS
<1>7. Alike(w, x)
  BY <1>6 DEF Alike, Stored, Key
<1>8. Made(x) /\ x.owner = w.owner /\ x.owner[1] = r
  BY <1>4, <1>6, <1>7 DEF PlannedFor, Made, Alike
<1>9. FromPlan(x)
  <2>1. PICK n \in 1..Len(hist[r]) :
            hist[r][n].uid = w.owner[2] /\ Says(w, hist[r][n])
    BY <1>4, <1>6 DEF PlannedFor
  <2>2. Says(x, hist[r][n])
    BY <1>7, <2>1, SaysAlike
  <2>3. hist[r][n].uid \in Nat
    BY <1>4, <1>6, HistOf, UidOK DEF WInv, Inv
  <2>4. QED
    BY <1>8, <2>1, <2>2, <2>3 DEF FromPlan
<1>10. w.owner[2] \in Nat
  <2>1. PICK n \in 1..Len(hist[r]) : hist[r][n].uid = w.owner[2]
    BY <1>4, <1>6 DEF PlannedFor
  <2>2. QED
    BY <1>4, <1>6, <2>1, HistOf, UidOK DEF WInv, Inv
<1>11. r \in RDs /\ r = active[p] /\ works' \subseteq works \cup {x}
       /\ job' = [job EXCEPT ![p] = j]
  BY <1>2, <1>3, <1>4, <1>5, <1>6 DEF b
<1>12. PICK xs : xs = {x}
  OBVIOUS
<1>13. PutFor(r, xs)
  BY <1>8, <1>9, <1>12 DEF PutFor
<1>14. Rest(r, xs, j)
  BY <1>4, <1>6, <1>8, <1>10, <1>12 DEF Rest
<1>15. works' \subseteq works \cup xs
  BY <1>11, <1>12
<1>16. QED
  BY <1>1, <1>11, <1>13, <1>14, <1>15, Makes

(* A Workload that is found by its key is of the RD at hand. *)
LEMMA SameOwner ==
    ASSUME NamesApart, NEW v, NEW w, Made(v), Made(w), Key(v) = Key(w)
    PROVE  v.owner[1] = w.owner[1]
<1>1. PICK i \in DrawnIds \cup RuleIds :
          Key(v) = <<v.owner[1].ns, v.owner[1].name \o i>>
  BY DEF Made, MadeBy
<1>2. PICK k \in DrawnIds \cup RuleIds :
          Key(w) = <<w.owner[1].ns, w.owner[1].name \o k>>
  BY DEF Made, MadeBy
<1> DEFINE a == v.owner[1].ns
           b == v.owner[1].name \o i
           c == w.owner[1].ns
           d == w.owner[1].name \o k
<1>3. <<a, b>> = <<c, d>>
  BY <1>1, <1>2
<1> HIDE DEF a, b, c, d
<1>4. a = c /\ b = d
  BY <1>3
<1>5. QED
  BY <1>4 DEF NamesApart, Made, a, b, c, d

LEMMA UpdateKeeps ==
    ASSUME NamesApart, WInv, Inv', \A r \in RDs : Later(r),
           NEW p \in Procs, ApplyUpdate(p)
    PROVE  WInv'
<1> DEFINE a == Head(job[p].todo)
           b == active[p]
<1>1. PICK obj \in At(wcache, Key(a)) :
        /\ job[p].pc = "apply" /\ UNCHANGED <<wcache, active>>
        /\ \/ job' = [job EXCEPT ![p] = GoOn(p, TRUE)]
           \/ \E ok \in BOOLEAN : job' = [job EXCEPT ![p] = Finish(ok)]
        /\ \/ Key(a) \notin stale /\ Write(Key(a), {Updated(obj, a)})
           \/ UNCHANGED works
  BY DEF ApplyUpdate, workqueue
<1>2. PICK j : /\ job' = [job EXCEPT ![p] = j]
               /\ j = GoOn(p, TRUE) \/ \E ok \in BOOLEAN : j = Finish(ok)
  BY <1>1
<1>3. /\ b \in RDs /\ PlannedFor(a, b)
      /\ \/ j.pc = "done"
         \/ /\ j.pc = "apply"
            /\ j.todo \in Seq(Elements(j.todo)) /\ j.todo # <<>>
            /\ \A w \in Elements(j.todo) : PlannedFor(w, b) /\ w.owner = a.owner
  BY <1>1, <1>2, ApplyOK, FinishOK
<1>4. Key(obj) = Key(a) /\ obj \in wcache /\ IsWork(obj) /\ StoreOK
  BY DEF At, WInv, Inv, StoreOK
<1> HIDE DEF a, b
<1>5. PICK w, r : w = a /\ r = b
  OBVIOUS
<1>6. Made(obj) /\ Made(w) /\ w.owner[1] = r /\ obj.owner[1] = r
  <2>1. Made(obj) /\ Made(w) /\ w.owner[1] = r
    BY <1>3, <1>4, <1>5 DEF WInv, PlannedFor
  <2>2. QED
    BY <1>4, <1>5, <2>1, SameOwner
<1>7. PICK n \in 1..Len(hist[r]) :
          hist[r][n].uid = w.owner[2] /\ Says(w, hist[r][n])
  BY <1>3, <1>5 DEF PlannedFor
<1>8. /\ obj.owner[2] <= w.owner[2]
      /\ hist[r][n].uid \in Nat /\ w.owner[2] \in Nat
  BY <1>3, <1>4, <1>5, <1>6, <1>7, HistOf, UidOK
     DEF PlannedFor, NoNewer, WInv, Inv
<1>9. /\ r \in RDs /\ r = active[p]
      /\ \A xs : (\A x \in xs : x.owner[2] <= w.owner[2]) => Rest(r, xs, j)
  BY <1>3, <1>5 DEF b, Rest
<1>10. CASE Key(a) \notin stale /\ Write(Key(a), {Updated(obj, a)})
  <2>1. PICK x : x = Updated(obj, w)
    OBVIOUS
  <2>2. works' \subseteq works \cup {x}
    BY <1>5, <1>10, <2>1 DEF Write
  <2>3. /\ Key(x) = Key(obj) /\ x.owner = obj.owner /\ x.policy = obj.policy
        /\ x.name = obj.name
        /\ x.clusters = w.clusters /\ x.manifests = w.manifests
    BY <1>4, <2>1, UpdatedWork
  <2>4. Made(x) /\ x.owner[1] = r
    BY <1>6, <2>3 DEF Made
  <2>5. x.name = w.name
    BY <1>4, <1>5, <2>3 DEF Key
  <2>6. Says(x, hist[r][n])
    <3>1. x.owner[1] = w.owner[1]
      BY <1>6, <2>4
    <3>2. QED
      BY <1>7, <2>3, <2>5, <3>1 DEF Says
  <2>7. FromPlan(x)
    BY <1>7, <1>8, <2>3, <2>4, <2>6 DEF FromPlan
  <2>8. QED
    <3>1. PICK xs : xs = {x}
      OBVIOUS
    <3>2. PutFor(r, xs)
      BY <2>4, <2>7, <3>1 DEF PutFor
    <3>3. Rest(r, xs, j)
      BY <1>8, <1>9, <2>3, <3>1
    <3>4. works' \subseteq works \cup xs
      BY <2>2, <3>1
    <3>5. QED
      BY <1>1, <1>2, <1>9, <3>2, <3>3, <3>4, Makes
<1>11. CASE UNCHANGED works
  <2>1. PICK xs : xs = {}
    OBVIOUS
  <2>2. PutFor(r, xs) /\ Rest(r, xs, j) /\ works' \subseteq works \cup xs
    BY <1>9, <1>11, <2>1 DEF PutFor
  <2>3. QED
    BY <1>1, <1>2, <1>9, <2>2, Makes
<1>12. QED
  BY <1>1, <1>10, <1>11



-----------------------------------------------------------------------------
(* Every step *)

LEMMA CrashKeeps ==
    ASSUME WInv, Inv', \A r \in RDs : Later(r), Crash PROVE WInv'
<1>1. NothingMade
  BY AlikeSelf DEF Crash, NothingMade
<1>2. ASSUME NEW p \in Procs PROVE Goes(p)
  <2>1. job'[p].pc = "idle"
    BY DEF Crash, NoJob
  <2>2. QED
    BY <2>1, IdleGoes
<1>3. QED
  BY <1>1, <1>2, Kept DEF Goes

LEMMA WorkerKeeps ==
    ASSUME NamesApart, WInv, Inv', \A r \in RDs : Later(r),
           NEW p \in Procs, Worker(p)
    PROVE  WInv'
<1>1. RDInv /\ StoreOK
  BY DEF WInv, Inv
<1>2. CASE SyncMark(p) \/ Release(p)
  <2>1. NothingMade
    BY <1>2, NoneMade DEF SyncMark, Release
  <2>2. QED
    BY <1>2, <2>1, SendGoes, Kept DEF Goes
<1>3. CASE SyncDelete(p) \/ SyncApply(p)
  <2>1. NothingMade
    BY <1>3, NoneMade DEF SyncDelete, SyncApply
  <2>2. QED
    BY <1>3, <2>1, ReadsGoes, Kept DEF Goes
<1>4. ASSUME NEW k, DeleteWork(p, k) PROVE WInv'
  BY <1>1, <1>4, DeleteMakesNone, DeleteGoes, Kept DEF Goes
<1>5. CASE Plan(p)
  <2>1. NothingMade
    BY <1>5, NoneMade DEF Plan
  <2>2. QED
    BY <1>5, <2>1, PlanGoes, Kept DEF Goes
<1>6. CASE SyncNotFound(p) \/ Fail(p) \/ Done(p)
  <2>1. NothingMade
    BY <1>6, NoneMade DEF SyncNotFound, Fail, Done
  <2>2. QED
    BY <1>1, <1>6, <2>1, EndGoes, Kept DEF Goes
<1>7. CASE ApplyCreate(p)
  BY <1>7, CreateKeeps
<1>8. CASE ApplyUpdate(p)
  BY <1>8, UpdateKeeps
<1>9. QED
  BY <1>2, <1>3, <1>4, <1>5, <1>6, <1>7, <1>8 DEF Worker, Sync, Apply

LEMMA NextWInv ==
    ASSUME NamesApart, WInv, [Next]_vars PROVE WInv'
<1>1. RDInv /\ StoreOK /\ Inv' /\ RDInv'
  BY NextRD, NextStore DEF WInv, Inv
<1>2. \A r \in RDs : Later(r)
  BY <1>1, AlwaysLater
<1>3. CASE UNCHANGED vars \/ Change \/ \E r \in RDs : User(r) \/ Resync(r)
                                                      \/ Deliver(r) \/ Fire(r)
  <2>1. UNCHANGED <<server, job, active>>
    BY <1>1, <1>3, Requested, Fired
       DEF vars, Change, User, Create, Edit, Delete, Resync, Deliver, Fire,
           workqueue
  <2>2. NothingMade
    BY <2>1, NoneMade
  <2>3. QED
    BY <1>1, <1>2, <2>1, <2>2, Kept
<1>4. CASE \/ \E w \in works : WorkFinalizer(w) \/ Collect(w)
           \/ \E k \in stale : DeliverWork(k)
  <2>1. UNCHANGED <<job, active>>
    BY <1>4 DEF WorkFinalizer, Collect, DeliverWork, workqueue
  <2>2. NothingMade
    BY <1>1, <1>4, WorldMakesNone
  <2>3. QED
    BY <1>1, <1>2, <2>1, <2>2, Kept
<1>5. ASSUME NEW p \in Procs, NEW r \in RDs, Begin(p, r) PROVE WInv'
  <2>1. NothingMade
    BY <1>5, NoneMade DEF Begin
  <2>2. QED
    BY <1>1, <1>2, <1>5, <2>1, EndGoes, Kept DEF Goes
<1>6. CASE Crash
  BY <1>1, <1>2, <1>6, CrashKeeps
<1>7. ASSUME NEW p \in Procs, Worker(p) PROVE WInv'
  BY <1>1, <1>2, <1>7, WorkerKeeps
<1>8. QED
  BY <1>3, <1>4, <1>5, <1>6, <1>7 DEF Next

LEMMA InitWInv == Init => WInv
<1>1. SUFFICES ASSUME Init PROVE WInv
  OBVIOUS
<1>2. Inv
  BY <1>1, InitRD, InitStore DEF Inv
<1>3. works = {} /\ wcache = {} /\ \A p \in Procs : job[p] = NoJob
  BY <1>1 DEF Init
<1>4. ASSUME NEW p \in Procs PROVE WorkerOK(active[p], job[p])
  BY <1>3 DEF WorkerOK, NoJob
<1>5. QED
  BY <1>2, <1>3, <1>4 DEF WInv

LEMMA WorksInvariance == ASSUME NamesApart PROVE Spec => []WInv
<1>1. WInv /\ [Next]_vars => WInv'
  BY NextWInv
<1>2. QED
  BY <1>1, InitWInv, PTL DEF Spec

(* Whatever is lost, retried, stale or restarted: a Workload has the       *)
(* clusters and the manifests that one version of the RD that owns it      *)
(* gives it, if the names of the RDs are apart.                            *)
THEOREM WorksComeFromPlans ==
    ASSUME NamesApart PROVE Spec => []WorksFromPlans
<1>1. WInv => WorksFromPlans
  BY DEF WInv, FromPlan, WorksFromPlans
<1>2. QED
  BY <1>1, WorksInvariance, PTL



-----------------------------------------------------------------------------
(* What deletes a Workload *)

(* It is of an RD that is being deleted, or has the label of one. *)
MayGo(w) ==
    \E r \in RDs : \E n \in 1..Len(hist[r]) :
        /\ r.name = w.policy
        /\ hist[r][n].del
        /\ r = w.owner[1] => hist[r][n].uid = w.owner[2]

Deleted(w) == ~w.del /\ \A v \in works' : Key(v) = Key(w) => v.del

(* An RD that is no more the last of its name was deleted. *)
LEMMA EndedMayGo ==
    ASSUME WInv, NEW w \in works, Ended(hist[w.owner[1]], w.owner[2])
    PROVE  MayGo(w)
BY DEF WInv, Made, Ended, MayGo

LEMMA UnownedMayGo ==
    ASSUME WInv, NEW w \in works, ~Owned(w), HasOwner(w)
    PROVE  MayGo(w)
<1> DEFINE r == w.owner[1]
           u == w.owner[2]
<1>1. r \in RDs /\ \E n \in 1..seen[r] : hist[r][n].uid = u
  BY DEF WInv, Made
<1>2. HistOK(hist[r]) /\ Len(hist[r]) \in Nat /\ hist[r] \in Seq(Versions)
      /\ seen[r] \in Nat /\ seen[r] <= Len(hist[r])
  BY <1>1, HistOf DEF WInv, Inv, RDInv
<1>3. PICK n \in 1..Len(hist[r]) : hist[r][n].uid = u
  BY <1>1, <1>2
<1>4. ~LastOne(hist[r], u)
  <2>1. hist[r] # <<>>
    BY <1>2, <1>3, EmptySeq
  <2>2. QED
    BY <2>1 DEF Owned, Exists, Latest, LastOne
<1>5. Ended(hist[r], u)
  BY <1>2, <1>3, <1>4 DEF HistOK
<1>6. QED
  BY <1>5, EndedMayGo

(* A Workload on the list of a worker that deletes. *)
LEMMA ListedMayGo ==
    ASSUME NamesApart, WInv, NEW p \in Procs, job[p].pc = "delete",
           NEW w \in works, Key(w) \in job[p].kill
    PROVE  MayGo(w)
<1>1. PICK r, o : r = active[p] /\ o = job[p].rd
  OBVIOUS
<1>2. /\ r \in RDs /\ CopyOf(o, hist[r]) /\ o.del
      /\ NoNewer(r, o.uid)
      /\ \E s \in RDs : s.name = r.name /\ MadeBy(Key(w), s)
      /\ HistOK(hist[r]) /\ Len(hist[r]) \in Nat
  BY <1>1, ActiveOK, HistOf DEF WInv, Inv, JobOK, WorkerOK
<1>3. PICK s \in RDs : s.name = r.name /\ MadeBy(Key(w), s)
  BY <1>2
<1>4. w.owner[1] = s /\ w.policy = r.name
  <2>1. Made(w)
    BY DEF WInv
  <2>2. PICK i \in DrawnIds \cup RuleIds : Key(w) = <<s.ns, s.name \o i>>
    BY <1>3 DEF MadeBy
  <2>3. PICK k \in DrawnIds \cup RuleIds :
            Key(w) = <<w.owner[1].ns, w.owner[1].name \o k>>
    BY <2>1 DEF Made, MadeBy
  <2> DEFINE a == s.ns
             b == s.name \o i
             c == w.owner[1].ns
             d == w.owner[1].name \o k
  <2>4. <<a, b>> = <<c, d>>
    BY <2>2, <2>3
  <2> HIDE DEF a, b, c, d
  <2>5. a = c /\ b = d
    BY <2>4
  <2>6. QED
    BY <1>3, <2>1, <2>5 DEF NamesApart, Made, a, b, c, d
<1>5. o.rv \in 1..Len(hist[r]) /\ hist[r][o.rv].del /\ hist[r][o.rv].uid = o.uid
  BY <1>2 DEF CopyOf
<1>6. CASE r # s
  BY <1>2, <1>4, <1>5, <1>6 DEF MayGo
<1>7. CASE r = s
  <2>1. w.owner[2] <= o.uid
    BY <1>2, <1>4, <1>7 DEF NoNewer
  <2>2. CASE w.owner[2] = o.uid
    BY <1>2, <1>4, <1>5, <2>2 DEF MayGo
  <2>3. CASE w.owner[2] # o.uid
    <3>1. PICK n \in 1..Len(hist[r]) : hist[r][n].uid = w.owner[2]
      <4>1. \E n \in 1..seen[r] : hist[r][n].uid = w.owner[2]
        BY <1>4, <1>7 DEF WInv, Made
      <4>2. seen[r] \in Nat /\ seen[r] <= Len(hist[r])
        BY <1>2 DEF WInv, Inv, RDInv
      <4>3. QED
        BY <1>2, <4>1, <4>2
    <3>2. o.uid <= hist[r][Len(hist[r])].uid
      BY <1>2, <1>5 DEF HistOK
    <3>3. w.owner[2] \in Nat /\ o.uid \in Nat /\ hist[r][Len(hist[r])].uid \in Nat
      <4>1. \A m \in 1..Len(hist[r]) : hist[r][m].uid \in Nat
        <5>1. hist[r] \in Seq(Versions)
          BY <1>2 DEF WInv, Inv, RDInv
        <5>2. QED
          BY <1>2, <5>1, UidOK
      <4>2. Len(hist[r]) \in 1..Len(hist[r])
        BY <1>2, <3>1
      <4>3. QED
        BY <1>5, <3>1, <4>1, <4>2
    <3>4. ~LastOne(hist[r], w.owner[2])
      BY <2>1, <2>3, <3>2, <3>3 DEF LastOne
    <3>5. Ended(hist[r], w.owner[2])
      BY <1>2, <3>1, <3>4 DEF HistOK
    <3>6. QED
      BY <1>4, <1>7, <3>5, EndedMayGo
  <2>4. QED
    BY <2>2, <2>3
<1>8. QED
  BY <1>6, <1>7


(* Only the garbage collector and a worker that deletes do it. *)
LEMMA ChangedIsNot ==
    ASSUME NEW k, NEW ws, Write(k, ws), NEW w \in works, Deleted(w)
    PROVE  Key(w) = k /\ \A v \in ws : Key(v) = k => v.del
BY DEF Write, At, Deleted

LEMMA KeptIsNot == ASSUME NEW w \in works, Deleted(w) PROVE ~(w \in works')
BY DEF Deleted

LEMMA CreateDeletesNone ==
    ASSUME NEW p \in Procs, ApplyCreate(p), NEW w \in works PROVE ~Deleted(w)
<1> DEFINE a == Head(job[p].todo)
<1>1. \/ At(works, Key(a)) = {} /\ Write(Key(a), {Stored(a)})
      \/ UNCHANGED works
  BY DEF ApplyCreate
<1>2. CASE UNCHANGED works
  BY <1>2, KeptIsNot
<1>3. CASE At(works, Key(a)) = {} /\ Write(Key(a), {Stored(a)})
  BY <1>3 DEF Write, At, Deleted
<1>4. QED
  BY <1>1, <1>2, <1>3

LEMMA UpdateDeletesNone ==
    ASSUME StoreOK, NEW p \in Procs, ApplyUpdate(p), NEW w \in works
    PROVE  ~Deleted(w)
<1> DEFINE a == Head(job[p].todo)
<1>1. PICK obj \in At(wcache, Key(a)) :
          \/ Key(a) \notin stale /\ Write(Key(a), {Updated(obj, a)})
          \/ UNCHANGED works
  BY DEF ApplyUpdate
<1> HIDE DEF a
<1>2. CASE UNCHANGED works
  BY <1>2, KeptIsNot
<1>3. CASE Key(a) \notin stale /\ Write(Key(a), {Updated(obj, a)})
  <2>1. SUFFICES ASSUME Deleted(w) PROVE FALSE
    OBVIOUS
  <2>2. obj \in wcache /\ Key(obj) = Key(a) /\ IsWork(obj)
    BY DEF At, StoreOK
  <2>3. PICK x : x = Updated(obj, a)
    OBVIOUS
  <2>4. Key(x) = Key(a) /\ x.del = obj.del
    BY <2>2, <2>3 DEF Updated, IsWork, Key
  <2>5. Key(w) = Key(a) /\ x.del
    BY <1>3, <2>1, <2>3, <2>4, ChangedIsNot
  <2>6. obj \in works
    BY <1>3, <2>2 DEF StoreOK
  <2>7. obj = w
    BY <2>2, <2>5, <2>6 DEF StoreOK, Unique
  <2>8. QED
    BY <2>1, <2>4, <2>5, <2>7 DEF Deleted
<1>4. QED
  BY <1>1, <1>2, <1>3

LEMMA FinalizerDeletesNone ==
    ASSUME StoreOK, NEW v \in works, WorkFinalizer(v), NEW w \in works
    PROVE  ~Deleted(w)
<1>1. SUFFICES ASSUME Deleted(w) PROVE FALSE
  OBVIOUS
<1> DEFINE f == [v EXCEPT !.fin = TRUE]
           ws == IF v.del THEN {} ELSE {f}
<1>2. Write(Key(v), ws)
  BY DEF WorkFinalizer
<1>3. Key(w) = Key(v) /\ \A x \in ws : Key(x) = Key(v) => x.del
  BY <1>1, <1>2, ChangedIsNot
<1>4. w = v
  BY <1>3 DEF StoreOK, Unique
<1>5. f \in ws
  BY <1>1, <1>4 DEF Deleted
<1>6. f.del = v.del /\ Key(f) = Key(v)
  BY DEF StoreOK, IsWork, Key
<1> HIDE DEF f, ws
<1>7. QED
  BY <1>1, <1>3, <1>4, <1>5, <1>6 DEF Deleted

LEMMA StepMayGo ==
    ASSUME NamesApart, WInv, [Next]_vars, NEW w \in works, Deleted(w)
    PROVE  MayGo(w)
<1>1. RDInv /\ StoreOK
  BY DEF WInv, Inv
<1>2. ~UNCHANGED works
  BY KeptIsNot
<1>3. ASSUME NEW v \in works, Collect(v) PROVE MayGo(w)
  <2>1. Key(w) = Key(v)
    BY <1>3, ChangedIsNot DEF Collect
  <2>2. w = v
    BY <1>1, <2>1 DEF StoreOK, Unique
  <2>3. QED
    BY <1>3, <2>2, UnownedMayGo DEF Collect
<1>4. ASSUME NEW p \in Procs, NEW k \in job[p].kill, DeleteWork(p, k)
      PROVE  MayGo(w)
  <2>1. job[p].pc = "delete" /\ \E ws : Write(k, ws)
    BY <1>2, <1>4 DEF DeleteWork
  <2>2. Key(w) = k
    BY <2>1, ChangedIsNot
  <2>3. QED
    BY <1>4, <2>1, <2>2, ListedMayGo
<1>5. ASSUME NEW v \in works, WorkFinalizer(v) PROVE FALSE
  BY <1>1, <1>5, FinalizerDeletesNone
<1>6. ASSUME NEW p \in Procs, ApplyCreate(p) \/ ApplyUpdate(p) PROVE FALSE
  BY <1>1, <1>6, CreateDeletesNone, UpdateDeletesNone
<1>7. ASSUME \/ UNCHANGED vars \/ Change \/ Crash
             \/ \E r \in RDs : User(r) \/ Deliver(r) \/ Resync(r) \/ Fire(r)
             \/ \E k \in stale : DeliverWork(k)
             \/ \E p \in Procs : \E r \in RDs : Begin(p, r)
      PROVE  FALSE
  BY <1>2, <1>7 DEF vars, server, Change, Crash, User, Create, Edit, Delete,
                    Deliver, Resync, Fire, DeliverWork, Begin
<1>8. ASSUME NEW p \in Procs,
             \/ SyncNotFound(p) \/ SyncMark(p) \/ SyncDelete(p) \/ SyncApply(p)
             \/ Release(p) \/ Plan(p) \/ Fail(p) \/ Done(p)
      PROVE  FALSE
  BY <1>2, <1>8 DEF server, SyncNotFound, SyncMark, SyncDelete, SyncApply,
                    Release, Plan, Fail, Done
<1>9. QED
  BY <1>3, <1>4, <1>5, <1>6, <1>7, <1>8 DEF Next, Worker, Sync, Apply

(* A Workload is deleted only for the RD that owns it, once that is being  *)
(* deleted itself, or for its namesake in another namespace: neither an    *)
(* edit nor a retry nor the deletion of an earlier RD ends it.             *)
THEOREM DeletedOnlyForOwner ==
    ASSUME NamesApart PROVE Spec => DeletedOnlyWithOwner
<1>1. ASSUME WInv, [Next]_vars PROVE [DeletesForRD]_vars
  BY <1>1, StepMayGo DEF DeletesForRD, Deleted, MayGo
<1>2. QED
  BY <1>1, WorksInvariance, PTL DEF Spec, DeletedOnlyWithOwner
=============================================================================
